SPECIFICATION Spec
CONSTANTS
    Pids = {1, 2}
    MaxIncarnation = 1
    AccessOf <- MCAccessHidepid
    GoneReads = {"ESRCH"}
    Faults = FALSE
    Names <- MCNames
    NameOf <- MCNameOf
    ExeNameOf <- MCExeNameOf
INVARIANT RestrictedDoNotFail
