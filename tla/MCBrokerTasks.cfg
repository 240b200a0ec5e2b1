SPECIFICATION SpecLed
CONSTANTS
    Node = {n1, n2, n3}
    First = n1
    Earlier = n1
    Noop = noop
    MaxTerm = 2
    Submission = {t1}
    Completion = {c1}
    Worker = {w1}
    Result = {success}
    None = none
    Checking = {}
SYMMETRY SymmetryLed
INVARIANTS CompletedWasSubmitted InflightNotDone
VIEW WorkView
PROPERTIES ImplementsTaskQueue
