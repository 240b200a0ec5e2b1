SPECIFICATION Spec
CONSTANTS
    Node = {n1, n2, n3}
    First = n1
    Earlier = n1
    Noop = noop
    MaxTerm = 1
    Submission = {t1}
    Completion = {}
    Worker = {}
    Result = {success}
    None = none
    Checking = {}
SYMMETRY Symmetry
INVARIANT WaitingIsUnapplied
