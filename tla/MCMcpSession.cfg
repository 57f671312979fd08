SPECIFICATION Spec
CONSTANTS
    Servers = {"a", "b"}
    Names = {x}
    Views = {"owner", "child"}
    Owner = "owner"
    OAuth = {"b"}
    MaxEvents = 2
CHECK_DEADLOCK FALSE
INVARIANTS
    CatalogIsCurrent
    ServedOnlyWhileConnected
