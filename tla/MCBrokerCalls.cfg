SPECIFICATION SpecCalls
CONSTANTS
    Node = {n1, n2, n3}
    First = n1
    Earlier = n1
    Noop = noop
    MaxTerm = 5
    Submission = {t1, t2}
    Completion = {}
    Worker = {}
    Result = {success}
    None = none
    Checking = {}
SYMMETRY Symmetry
INVARIANTS BrokerTypeOK AckDurable ReplicasAgree RegisteredIsOpen
CHECK_DEADLOCK FALSE
