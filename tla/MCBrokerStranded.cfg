SPECIFICATION FairRegain
CONSTANTS
    Node = {n1, n2, n3}
    First = n2
    Earlier = n1
    Noop = noop
    MaxTerm = 3
    Submission = {t1}
    Completion = {}
    Worker = {w1}
    Result = {success}
    None = none
    Checking = {n1}
PROPERTIES NeverStranded
VIEW WorkView
