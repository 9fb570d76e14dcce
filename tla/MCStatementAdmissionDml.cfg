SPECIFICATION AdmissionSpec
CONSTANTS
    Adapters = {"sqlite", "postgres", "oracle"}
INVARIANT
    DirectDmlRejected
CHECK_DEADLOCK FALSE
