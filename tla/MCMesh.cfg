CONSTANTS
    a = a
    b = b
    Sta = {a, b}
    Commits <- MCCommits
    Nonces <- MCNonces
    Lids <- MCLids
    SaeSync = 0
    MaxRetries = 1
    AuthRetry = 1
    MaxPlinks = 2
    MaxEvents = 2
SPECIFICATION Spec
INVARIANTS TypeOK LinkKeysAgree SaeKeysAgree PlinkCount WaitsHaveTimer
SYMMETRY Symmetric
CHECK_DEADLOCK FALSE
