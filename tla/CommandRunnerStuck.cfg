SPECIFICATION FairSpec
CONSTANTS
    Callers = {c1, c2}
    Library = Library
    Capacity = 1
    Limit = 1
    Outputs = {4}
    Endings = {"zombie"}
    Faults = FALSE
PROPERTY CallsReturn
