\* A body that names a count of zero.
SPECIFICATION Spec
CONSTANTS
    Clients = {c1}
    Patches <- NoRetention
    MayFail = FALSE
PROPERTIES
    AcceptedIsApplied
