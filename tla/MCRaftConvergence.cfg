CONSTANTS
    Server = {n0, n1, n2}
    Command = {cmd}
    Noop = noop
    None = None
    Call = {c1,c2}
    MaxElections = 2
    MaxLogLen = 2
    First = n0
    Second = n1
SPECIFICATION FairFailover
CHECK_DEADLOCK FALSE
PROPERTIES Converges
