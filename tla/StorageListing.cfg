SPECIFICATION Spec
CONSTANTS
    File = {f1, f2}
    Task = {t1, t2}
    MaxStarts = 2
    Operations = {"upload", "lock", "unlock", "toggle", "delete", "deleteOne", "verify", "retention", "refresh", "deleteFails", "outside", "crash"}
INVARIANTS TypeOK SerialListingExact SidecarKept
PROPERTY ListingConverges
CHECK_DEADLOCK FALSE
