SPECIFICATION OperationSpec

CONSTANTS
    Required = {TELOXIDE_TOKEN, ADMIN_API_TOKEN}
    Magnitude = 8
    Half = 1073741824
    NONE = NONE
    COMMA = COMMA
    MINUS = MINUS
    NULL = NULL
    Calls = {c1, c2}
    Offerings = {o1, o2}
    Codes = {premium}
    MaxChanges = 4
    Tabs = {t1}
    AdminFaults = {"change", "log", "drop"}

INVARIANTS
    NeverPanics
    ConnectorOnPurpose
    RialReadable
    TargetIsUsername
    CodesDistinct
    AuditNeverInvents
    AuditTellsMenu
    AdminInv

CHECK_DEADLOCK FALSE
