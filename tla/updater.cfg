CONSTANTS
    Databases = {local}
    PagesReport = TRUE
SPECIFICATION Spec
INVARIANTS TypeOK StatusTellsTruth
PROPERTIES ReadyIsKept LaunchIsSafe SettingsProgressEnds
CHECK_DEADLOCK FALSE
