CONSTANTS
    Server = {n0, n1, n2}
    Command = {cmd}
    Noop = noop
    None = None
    Call = {c1, c2}
    MaxElections = 8
    MaxLogLen = 3
    First = n0
    Second = n1
SPECIFICATION SpecSafety
CHECK_DEADLOCK FALSE
SYMMETRY Symmetry
VIEW LiveView
CONSTRAINT Budget
INVARIANTS ElectionSafety OneVotePerTerm ElectionInv TypeOK LogIndexed LogMatching TermsOrdered LeaderCompleteness StateMachineSafety AppliedFromLog RequestCoversCommit MatchIndexSound MatchReachesOwnTerm NextIndexInLog
PROPERTIES ImplementsReplicatedLog VoteStands LeaderAppendOnly CommittedStands
