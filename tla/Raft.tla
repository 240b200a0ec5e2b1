-------------------------------- MODULE Raft --------------------------------
(***************************************************************************)
(* The consensus core of the broker cluster, raft/raft.go, one node per    *)
(* member of Server.  Every critical section under rf.mu is one action:    *)
(* the two RPC handlers, the code before and after each RPC in the sender  *)
(* goroutines, the election timer, Start, and one round of applyLoop.      *)
(*                                                                         *)
(* RPCs are unary gRPC calls without ordering: a request is handled at     *)
(* most once, after any delay, and its reply is processed at most once,    *)
(* after any delay or (RPCTimeout) never.  A message that is lost simply   *)
(* stays undelivered.  Timers have no clock: the election timer of a node  *)
(* that is not leader may fire at any time.                                *)
(*                                                                         *)
(* A crashed node is a node that takes no further step.  Nothing is        *)
(* written to disk and nothing starts a node again under its old id.       *)
(***************************************************************************)
EXTENDS RaftLog, FiniteSets

CONSTANTS
    Server,      \* the nodes of the cluster configuration
    Command,     \* the commands the broker proposes
    Noop,        \* the "noop" command of becomeLeader
    None,        \* votedFor = -1
    Call,        \* bound: AppendEntries calls in flight at the same time
    MaxElections,\* bound: election timers that fire, over the cluster
    MaxLogLen    \* bound: Start is refused when the log has this length

ASSUME ServerAssumption == IsFiniteSet(Server) /\ None \notin Server
ASSUME BoundAssumption == MaxElections \in Nat /\ MaxLogLen \in Nat

Follower == "Follower"
Candidate == "Candidate"
Leader == "Leader"

VARIABLES
    elections,                           \* how many elections were started
    currentTerm, votedFor, state,        \* the election state of each node
    votes,                               \* who granted the running election
    log, commitIndex,                    \* the log and its committed prefix
    lastApplied, applied,                \* applyLoop; what went to commitCh
    nextIndex, matchIndex,               \* leader's view of its peers
    voteReqs, voteReps,                  \* RequestVote RPCs in flight
    appReqs, appReps                     \* AppendEntries RPCs in flight

electionVars == <<currentTerm, votedFor, state, votes>>
logVars == <<log, commitIndex>>
applyVars == <<lastApplied, applied>>
leaderVars == <<nextIndex, matchIndex>>
voteMsgs == <<voteReqs, voteReps>>
appMsgs == <<appReqs, appReps>>
vars == <<elections, electionVars, logVars, applyVars, leaderVars, voteMsgs,
          appMsgs>>

-----------------------------------------------------------------------------
(* Types *)

Entry == [index : Nat, term : Nat, command : Command \cup {Noop}]

VoteReq == [from : Server, to : Server, term : Nat,
            lastLogIndex : Nat, lastLogTerm : Nat]

\* reqTerm is the term the candidate's goroutine captured when it asked.
VoteRep == [from : Server, to : Server, term : Nat, reqTerm : Nat,
            voteGranted : BOOLEAN]

AppReq == [call : Call, from : Server, to : Server, term : Nat,
           prevLogIndex : Nat, prevLogTerm : Nat, entries : Seq(Entry),
           leaderCommit : Nat]

\* sentTerm and newMatch = prevLogIndex + len(entries) are the locals of the
\* sending goroutine that it uses when the reply arrives.
AppRep == [call : Call, from : Server, to : Server, term : Nat,
           success : BOOLEAN, sentTerm : Nat, newMatch : Nat]

-----------------------------------------------------------------------------
(* Helpers *)

\* len(S) >= quorum()
Majority(S) == Cardinality(S) >= Cardinality(Server) \div 2 + 1

\* Mutant: compare log lengths only, ignoring the term of the last entry.
LongerIsUpToDate(m, l) == m.lastLogIndex >= LastIndex(l)

\* logOK: the candidate's log is at least as up to date as l.
UpToDate(m, l) ==
    \/ m.lastLogTerm > LastTerm(l)
    \/ m.lastLogTerm = LastTerm(l) /\ m.lastLogIndex >= LastIndex(l)

\* Mutant: a vote already given in this term does not bind the voter.
VoteAlwaysFree(vote, m) == TRUE

\* ~alreadyVoted, given the vote after the term has been adopted.
VoteFree(vote, m) == vote \in {None, m.from}

\* Mutant: the entry at prevLogIndex must exist, whatever its term.
PrevExists(l, m) == m.prevLogIndex > 0 => Has(l, m.prevLogIndex)

\* The consistency check of AppendEntries.
PrevMatches(l, m) ==
    m.prevLogIndex > 0 => /\ Has(l, m.prevLogIndex)
                          /\ l[m.prevLogIndex].term = m.prevLogTerm

\* Mutant: follow the leader's commit index down as well as up.
CommitFollowsLeader(m, commit, l) == Min({m.leaderCommit, LastIndex(l)})

\* The commit index a follower with log l moves to.
FollowerCommit(m, commit, l) ==
    IF m.leaderCommit > commit THEN Min({m.leaderCommit, LastIndex(l)})
                               ELSE commit

\* Entry n of leader i is of its term and, by matchIndex, on a majority.
Committable(i, match, n) ==
    /\ log[i][n].term = currentTerm[i]
    /\ Majority({i} \cup {p \in Server : p # i /\ match[p] >= n})

\* advanceCommitIndex of leader i, once matchIndex is match.
AdvanceCommitIndex(i, match) ==
    LET N == {n \in (commitIndex[i] + 1) .. LastIndex(log[i]) :
                  Committable(i, match, n)}
    IN  IF N = {} THEN commitIndex[i] ELSE Max(N)

\* becomeFollower(t), when t is newer than the node's term.
AdoptTerm(i, t) ==
    /\ currentTerm' = [currentTerm EXCEPT ![i] = t]
    /\ state' = [state EXCEPT ![i] = Follower]
    /\ votedFor' = [votedFor EXCEPT ![i] = None]

-----------------------------------------------------------------------------
(* Initial state: NewPaused *)

Init ==
    /\ elections = 0
    /\ currentTerm = [i \in Server |-> 0]
    /\ votedFor = [i \in Server |-> None]
    /\ state = [i \in Server |-> Follower]
    /\ votes = [i \in Server |-> {}]
    /\ log = [i \in Server |-> <<>>]
    /\ commitIndex = [i \in Server |-> 0]
    /\ lastApplied = [i \in Server |-> 0]
    /\ applied = [i \in Server |-> <<>>]
    /\ nextIndex = [i \in Server |-> [j \in Server |-> 0]]
    /\ matchIndex = [i \in Server |-> [j \in Server |-> 0]]
    /\ voteReqs = {} /\ voteReps = {}
    /\ appReqs = {} /\ appReps = {}

-----------------------------------------------------------------------------
(* Elections *)

\* The election timer of i fires and i asks every peer for its vote.
StartElection(i) ==
    /\ state[i] # Leader
    /\ elections < MaxElections
    /\ elections' = elections + 1
    /\ currentTerm' = [currentTerm EXCEPT ![i] = @ + 1]
    /\ state' = [state EXCEPT ![i] = Candidate]
    /\ votedFor' = [votedFor EXCEPT ![i] = i]
    /\ votes' = [votes EXCEPT ![i] = {i}]
    /\ voteReqs' = voteReqs \cup
           {[from |-> i, to |-> p, term |-> currentTerm[i] + 1,
             lastLogIndex |-> LastIndex(log[i]),
             lastLogTerm |-> LastTerm(log[i])] : p \in Server \ {i}}
    /\ UNCHANGED <<logVars, applyVars, leaderVars, voteReps, appMsgs>>

ReplyVote(m, t, granted) ==
    /\ voteReqs' = voteReqs \ {m}
    /\ voteReps' = voteReps \cup
           {[from |-> m.to, to |-> m.from, term |-> t, reqTerm |-> m.term,
             voteGranted |-> granted]}

\* RequestVote from a candidate of an older term: refused.
RequestVoteStale(m) ==
    /\ m.term < currentTerm[m.to]
    /\ ReplyVote(m, currentTerm[m.to], FALSE)
    /\ UNCHANGED <<elections, electionVars, logVars, applyVars, leaderVars,
                   appMsgs>>

\* RequestVote otherwise: adopt a newer term, then vote if the vote is free
\* and the candidate's log is up to date.
RequestVote(m) ==
    LET i == m.to
        newer == m.term > currentTerm[i]
        vote == IF newer THEN None ELSE votedFor[i]
        grant == VoteFree(vote, m) /\ UpToDate(m, log[i])
    IN  /\ m.term >= currentTerm[i]
        /\ currentTerm' = [currentTerm EXCEPT ![i] = m.term]
        /\ state' = [state EXCEPT ![i] = IF newer THEN Follower ELSE @]
        /\ votedFor' = [votedFor EXCEPT ![i] = IF grant THEN m.from ELSE vote]
        /\ ReplyVote(m, m.term, grant)
        /\ UNCHANGED <<elections, votes, logVars, applyVars, leaderVars,
                       appMsgs>>

\* A vote reply that shows a newer term deposes its receiver.
VoteReplyNewerTerm(m) ==
    /\ m.term > currentTerm[m.to]
    /\ AdoptTerm(m.to, m.term)
    /\ voteReps' = voteReps \ {m}
    /\ UNCHANGED <<elections, votes, logVars, applyVars, leaderVars,
                   voteReqs, appMsgs>>

\* Mutant: do not compare the reply's election with the running one.
VoteForOldElection(m) == m.term <= currentTerm[m.to] /\ state[m.to] = Candidate

\* The reply belongs to the election that is still running.
VoteCurrent(m) ==
    /\ m.term <= currentTerm[m.to]
    /\ state[m.to] = Candidate
    /\ currentTerm[m.to] = m.reqTerm

\* A denial, or a reply to an election that is over, has no effect.
VoteReplyIgnored(m) ==
    /\ m.term <= currentTerm[m.to]
    /\ ~(VoteCurrent(m) /\ m.voteGranted)
    /\ voteReps' = voteReps \ {m}
    /\ UNCHANGED <<elections, electionVars, logVars, applyVars, leaderVars,
                   voteReqs, appMsgs>>

\* A vote that does not make a majority yet.
VoteReplyCounted(m) ==
    LET i == m.to IN
    /\ VoteCurrent(m) /\ m.voteGranted
    /\ ~Majority(votes[i] \cup {m.from})
    /\ votes' = [votes EXCEPT ![i] = @ \cup {m.from}]
    /\ voteReps' = voteReps \ {m}
    /\ UNCHANGED <<elections, currentTerm, votedFor, state, logVars,
                   applyVars, leaderVars, voteReqs, appMsgs>>

\* Mutant: the peers' matchIndex survives from an earlier leadership.
KeptMatchIndex(i) == matchIndex[i]

\* matchIndex after becomeLeader.
ResetMatchIndex(i) == [j \in Server |-> 0]

\* The vote that makes the majority: becomeLeader, with its no-op entry.
BecomeLeader(m) ==
    LET i == m.to IN
    /\ VoteCurrent(m) /\ m.voteGranted
    /\ Majority(votes[i] \cup {m.from})
    /\ votes' = [votes EXCEPT ![i] = @ \cup {m.from}]
    /\ state' = [state EXCEPT ![i] = Leader]
    /\ nextIndex' = [nextIndex EXCEPT
                        ![i] = [j \in Server |-> LastIndex(log[i]) + 1]]
    /\ matchIndex' = [matchIndex EXCEPT ![i] = ResetMatchIndex(i)]
    /\ log' = [log EXCEPT
                  ![i] = Append(@, [index |-> LastIndex(@) + 1,
                                    term |-> currentTerm[i],
                                    command |-> Noop])]
    /\ voteReps' = voteReps \ {m}
    /\ UNCHANGED <<elections, currentTerm, votedFor, commitIndex, applyVars,
                   voteReqs, appMsgs>>

-----------------------------------------------------------------------------
(* Replication *)

\* The broker proposes cmd; the senders that Start spawns are
\* SendAppendEntries steps.
Start(i, cmd) ==
    /\ state[i] = Leader
    /\ LastIndex(log[i]) < MaxLogLen
    /\ log' = [log EXCEPT
                  ![i] = Append(@, [index |-> LastIndex(@) + 1,
                                    term |-> currentTerm[i],
                                    command |-> cmd])]
    /\ UNCHANGED <<elections, electionVars, commitIndex, applyVars,
                   leaderVars, voteMsgs, appMsgs>>

\* The request a leader i builds for peer p from its current state: always
\* everything from nextIndex to the end of its log.
AppendEntriesArgs(i, p, k) ==
    LET prev == nextIndex[i][p] - 1 IN
    [call |-> k, from |-> i, to |-> p, term |-> currentTerm[i],
     prevLogIndex |-> prev,
     prevLogTerm |-> IF Has(log[i], prev) THEN log[i][prev].term ELSE 0,
     entries |-> Entries(log[i], nextIndex[i][p], LastIndex(log[i]) + 1),
     leaderCommit |-> commitIndex[i]]

\* A goroutine of leader i calls AppendEntries on p, as call k: a heartbeat,
\* a Start, or the next turn of the loop after a rejection or a commit.  The
\* call that was k before, if it is still in flight, is lost (RPCTimeout).
SendAppendEntries(i, p, k) ==
    /\ state[i] = Leader
    /\ appReqs' = {m \in appReqs : m.call # k}
                      \cup {AppendEntriesArgs(i, p, k)}
    /\ appReps' = {m \in appReps : m.call # k}
    /\ UNCHANGED <<elections, electionVars, logVars, applyVars, leaderVars,
                   voteMsgs>>

ReplyAppend(m, t, ok) ==
    /\ appReqs' = appReqs \ {m}
    /\ appReps' = appReps \cup
           {[call |-> m.call, from |-> m.to, to |-> m.from, term |-> t,
             success |-> ok, sentTerm |-> m.term,
             newMatch |-> m.prevLogIndex + Len(m.entries)]}

\* AppendEntries from a leader of an older term: refused.
AppendEntriesStale(m) ==
    /\ m.term < currentTerm[m.to]
    /\ ReplyAppend(m, currentTerm[m.to], FALSE)
    /\ UNCHANGED <<elections, electionVars, logVars, applyVars, leaderVars,
                   voteMsgs>>

\* Mutant: the term of the leader is not adopted.
IgnoreLeaderTerm(m) == UNCHANGED electionVars

\* Mutant: step down, forgetting the vote, in the same term too.
AlwaysStepDown(m) == AdoptTerm(m.to, m.term) /\ UNCHANGED votes

\* What an AppendEntries that is not stale does to the election state.  In
\* the same term only the timer is reset: a candidate stays a candidate.
AcceptLeader(m) ==
    IF m.term > currentTerm[m.to]
    THEN AdoptTerm(m.to, m.term) /\ UNCHANGED votes
    ELSE UNCHANGED electionVars

\* The log does not hold the entry before the new ones: refused.
AppendEntriesMismatch(m) ==
    /\ m.term >= currentTerm[m.to]
    /\ ~PrevMatches(log[m.to], m)
    /\ AcceptLeader(m)
    /\ ReplyAppend(m, m.term, FALSE)
    /\ UNCHANGED <<elections, logVars, applyVars, leaderVars, voteMsgs>>

\* The entries are merged into the log and the commit index follows.
AppendEntries(m) ==
    LET i == m.to
        merged == Merge(log[i], m.prevLogIndex, m.entries)
    IN  /\ m.term >= currentTerm[i]
        /\ PrevMatches(log[i], m)
        /\ AcceptLeader(m)
        /\ log' = [log EXCEPT ![i] = merged]
        /\ commitIndex' = [commitIndex EXCEPT
                              ![i] = FollowerCommit(m, @, merged)]
        /\ ReplyAppend(m, m.term, TRUE)
        /\ UNCHANGED <<elections, applyVars, leaderVars, voteMsgs>>

\* An append reply that shows a newer term deposes the leader.
AppendReplyNewerTerm(m) ==
    /\ m.term > currentTerm[m.to]
    /\ AdoptTerm(m.to, m.term)
    /\ appReps' = appReps \ {m}
    /\ UNCHANGED <<elections, votes, logVars, applyVars, leaderVars,
                   voteMsgs, appReqs>>

\* The node is still the leader that sent the request.
ReplyCurrent(m) ==
    /\ m.term <= currentTerm[m.to]
    /\ state[m.to] = Leader
    /\ currentTerm[m.to] = m.sentTerm

\* A reply to an earlier leadership has no effect.
AppendReplyIgnored(m) ==
    /\ m.term <= currentTerm[m.to]
    /\ ~ReplyCurrent(m)
    /\ appReps' = appReps \ {m}
    /\ UNCHANGED <<elections, electionVars, logVars, applyVars, leaderVars,
                   voteMsgs, appReqs>>

\* Success: matchIndex and nextIndex only move forward, then the commit index.
AppendReplySuccess(m) ==
    LET i == m.to
        forward == m.newMatch > matchIndex[i][m.from]
        match == IF forward
                 THEN [matchIndex[i] EXCEPT ![m.from] = m.newMatch]
                 ELSE matchIndex[i]
    IN  /\ ReplyCurrent(m) /\ m.success
        /\ matchIndex' = [matchIndex EXCEPT ![i] = match]
        /\ nextIndex' = [nextIndex EXCEPT
               ![i][m.from] = IF forward THEN m.newMatch + 1 ELSE @]
        /\ commitIndex' = [commitIndex EXCEPT
                              ![i] = AdvanceCommitIndex(i, match)]
        /\ appReps' = appReps \ {m}
        /\ UNCHANGED <<elections, electionVars, log, applyVars, voteMsgs,
                       appReqs>>

\* Mutant: retry the same entries after a rejection.
NeverBackUp(n) == n

\* Mutant: back up below the first entry.
BackUpTooFar(n) == n - 1

\* nextIndex after a rejection.
BackUp(n) == IF n > 1 THEN n - 1 ELSE n

\* Rejection: back nextIndex up by one, wherever it now is.
AppendReplyReject(m) ==
    /\ ReplyCurrent(m) /\ ~m.success
    /\ nextIndex' = [nextIndex EXCEPT ![m.to][m.from] = BackUp(@)]
    /\ appReps' = appReps \ {m}
    /\ UNCHANGED <<elections, electionVars, logVars, applyVars, matchIndex,
                   voteMsgs, appReqs>>

-----------------------------------------------------------------------------
(* applyLoop *)

\* One turn of the inner loop: lastApplied moves first, and the entry goes to
\* commitCh if the log has it.
ApplyLoop(i) ==
    /\ lastApplied[i] < commitIndex[i]
    /\ lastApplied' = [lastApplied EXCEPT ![i] = @ + 1]
    /\ applied' = [applied EXCEPT
           ![i] = IF Has(log[i], lastApplied[i] + 1)
                  THEN Append(@, log[i][lastApplied[i] + 1]) ELSE @]
    /\ UNCHANGED <<elections, electionVars, logVars, leaderVars, voteMsgs,
                   appMsgs>>

-----------------------------------------------------------------------------

HandleVoteReq(m) == RequestVoteStale(m) \/ RequestVote(m)

HandleVoteRep(m) ==
    \/ VoteReplyNewerTerm(m) \/ VoteReplyIgnored(m)
    \/ VoteReplyCounted(m) \/ BecomeLeader(m)

HandleAppReq(m) ==
    AppendEntriesStale(m) \/ AppendEntriesMismatch(m) \/ AppendEntries(m)

HandleAppRep(m) ==
    \/ AppendReplyNewerTerm(m) \/ AppendReplyIgnored(m)
    \/ AppendReplySuccess(m) \/ AppendReplyReject(m)

Next ==
    \/ \E i \in Server : StartElection(i)
    \/ \E m \in voteReqs : HandleVoteReq(m)
    \/ \E m \in voteReps : HandleVoteRep(m)
    \/ \E i \in Server, cmd \in Command : Start(i, cmd)
    \/ \E i \in Server : \E p \in Server \ {i}, k \in Call :
           SendAppendEntries(i, p, k)
    \/ \E m \in appReqs : HandleAppReq(m)
    \/ \E m \in appReps : HandleAppRep(m)
    \/ \E i \in Server : ApplyLoop(i)

Spec == Init /\ [][Next]_vars

(***************************************************************************)
(* applyLoop and the heartbeats of leader l run for as long as they have   *)
(* work, and a call that l repeats for ever gets through now and then, and *)
(* so does its reply.                                                      *)
(***************************************************************************)
Fairness(l) ==
    /\ \A i \in Server : WF_vars(ApplyLoop(i))
    /\ \A p \in Server \ {l} :
         /\ WF_vars(\E k \in Call : SendAppendEntries(l, p, k))
         /\ SF_vars(\E m \in appReqs : m.from = l /\ m.to = p
                                        /\ HandleAppReq(m))
         /\ SF_vars(\E m \in appReps : m.from = p /\ m.to = l
                                        /\ HandleAppRep(m))

-----------------------------------------------------------------------------
(* Properties *)

\* Type correctness of every variable of the node and of the RPCs in flight.
TypeOK ==
    /\ elections \in Nat
    /\ currentTerm \in [Server -> Nat]
    /\ votedFor \in [Server -> Server \cup {None}]
    /\ state \in [Server -> {Follower, Candidate, Leader}]
    /\ votes \in [Server -> SUBSET Server]
    /\ log \in [Server -> Seq(Entry)]
    /\ commitIndex \in [Server -> Nat]
    /\ lastApplied \in [Server -> Nat]
    /\ applied \in [Server -> Seq(Entry)]
    /\ nextIndex \in [Server -> [Server -> Nat]]
    /\ matchIndex \in [Server -> [Server -> Nat]]
    /\ voteReqs \subseteq VoteReq
    /\ voteReps \subseteq VoteRep
    /\ appReqs \subseteq AppReq
    /\ appReps \subseteq AppRep

\* At most one node is leader in a term: the votes counted in startElection,
\* over stale requests and late replies, never elect two.
ElectionSafety ==
    \A i, j \in Server :
        /\ state[i] = Leader /\ state[j] = Leader
        /\ currentTerm[i] = currentTerm[j]
        => i = j

\* "a server votes for at most one candidate per term", over all the votes
\* that are on their way: also when requests arrive late or are refused first.
OneVotePerTerm ==
    \A m, n \in voteReps :
        /\ m.voteGranted /\ n.voteGranted
        /\ m.from = n.from /\ m.term = n.term
        => m.to = n.to

\* Two logs that agree on the term of an entry agree on everything up to it:
\* what the consistency check and the merge of AppendEntries must preserve.
LogMatching ==
    \A i, j \in Server : \A n \in DOMAIN log[i] \cap DOMAIN log[j] :
        log[i][n].term = log[j][n].term
            => SubSeq(log[i], 1, n) = SubSeq(log[j], 1, n)

\* Append never panics: every entry of a log, and every entry on its way to
\* one, carries the index of its position.
LogIndexed ==
    /\ \A i \in Server : \A n \in DOMAIN log[i] : log[i][n].index = n
    /\ \A m \in appReqs : \A k \in DOMAIN m.entries :
           m.entries[k].index = m.prevLogIndex + k

\* "log[i].Term <= log[i+1].Term for all i", and no entry is of a term its
\* holder has not reached.
TermsOrdered ==
    \A i \in Server : \A n \in DOMAIN log[i] :
        /\ log[i][n].term <= currentTerm[i]
        /\ n > 1 => log[i][n - 1].term <= log[i][n].term

\* What a node has committed is in the log of every leader of its term or of
\* a later one: the vote's log comparison and the own-term rule of
\* advanceCommitIndex together.
LeaderCompleteness ==
    \A i, j \in Server :
        state[i] = Leader /\ currentTerm[i] >= currentTerm[j]
            => /\ commitIndex[j] <= LastIndex(log[i])
               /\ SubSeq(log[j], 1, commitIndex[j])
                      = SubSeq(log[i], 1, commitIndex[j])

\* The nodes hand the same commands to their brokers in the same order.
StateMachineSafety ==
    \A i, j \in Server : \A n \in DOMAIN applied[i] \cap DOMAIN applied[j] :
        applied[i][n] = applied[j][n]

\* applyLoop never meets a missing entry and never runs ahead: it has passed
\* on exactly the entries up to lastApplied, and they are still in the log.
AppliedFromLog ==
    \A i \in Server :
        /\ lastApplied[i] <= commitIndex[i]
        /\ commitIndex[i] <= LastIndex(log[i])
        /\ applied[i] = SubSeq(log[i], 1, lastApplied[i])

\* A follower may take min(leaderCommit, its own last index) because every
\* request reaches at least as far as the commit index it announces.
RequestCoversCommit ==
    \A m \in appReqs : m.leaderCommit <= m.prevLogIndex + Len(m.entries)

\* While a peer has not moved to another term, it holds all that the leader's
\* matchIndex says it holds, whatever the order of requests and replies.
MatchIndexSound ==
    \A i, j \in Server :
        state[i] = Leader /\ currentTerm[j] = currentTerm[i]
            => /\ matchIndex[i][j] <= LastIndex(log[j])
               /\ matchIndex[i][j] <= LastIndex(log[i])
               /\ SubSeq(log[j], 1, matchIndex[i][j])
                      = SubSeq(log[i], 1, matchIndex[i][j])

\* What a leader knows of a peer reaches its own no-op, because becomeLeader
\* appends the no-op before anything is sent: an entry of an earlier term is
\* never counted before one of the leader's term is on the same nodes.
MatchReachesOwnTerm ==
    \A i, j \in Server :
        state[i] = Leader /\ matchIndex[i][j] # 0
            => log[i][matchIndex[i][j]].term = currentTerm[i]

\* nextIndex of a leader stays within its log, so that the entry before it
\* exists and prevLogTerm is never made up.
NextIndexInLog ==
    \A i, j \in Server :
        state[i] = Leader => nextIndex[i][j] \in 1 .. LastIndex(log[i]) + 1

\* The term never decreases and a vote, once given, stands for the term.
VoteStands ==
    [][\A i \in Server :
          /\ currentTerm'[i] >= currentTerm[i]
          /\ currentTerm'[i] = currentTerm[i] /\ votedFor[i] # None
                 => votedFor'[i] = votedFor[i]]_vars

\* No step removes or replaces a committed entry, on any node.
CommittedStands ==
    [][\A i \in Server :
          /\ commitIndex'[i] >= commitIndex[i]
          /\ SubSeq(log'[i], 1, commitIndex[i])
                 = SubSeq(log[i], 1, commitIndex[i])]_vars

\* A leader never removes or replaces an entry of its own log.
LeaderAppendOnly ==
    [][\A i \in Server :
          state[i] = Leader /\ state'[i] = Leader =>
              /\ Len(log'[i]) >= Len(log[i])
              /\ SubSeq(log'[i], 1, Len(log[i])) = log[i]]_vars

\* A leader l that no election disturbs brings every node to its own log, and
\* commits and applies all of it, however far nextIndex has to back up and
\* whatever late rejections do to it.
Convergence(l) == <>[](\A i \in Server : applied[i] = log[l])
=============================================================================
