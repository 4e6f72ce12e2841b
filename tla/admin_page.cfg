SPECIFICATION FairAdminSpec

CONSTANTS
    NULL = NULL
    Calls = {c1}
    Offerings = {o1}
    Codes = {premium}
    MaxChanges = 1
    Tabs = {t1}
    AdminFaults = {}

PROPERTIES
    PageOpens

CHECK_DEADLOCK FALSE
