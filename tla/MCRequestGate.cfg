SPECIFICATION Spec
CONSTANTS
    b1 = b1
    t1 = t1
    t2 = t2
    a = a
    Browsers = {b1}
    Tabs = {t1, t2}
    BrowserOf <- MCBrowserOf
    AddressOf <- MCAddressOf
    Paths = {"/api/session", "/api/vault/unlock"}
    Writes = {"/api/vault/unlock"}
    Limit <- MCLimit
    Window = 2
    None = None
    MaxTime = 3
    MaxSent = 3
    MaxRestarts = 1
SYMMETRY Symmetry
INVARIANTS TypeOK LessThanTwice
PROPERTIES DeniedOnlyIfBusy RefusedOnce
