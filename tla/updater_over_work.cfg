CONSTANTS
    Databases = {local}
    PagesReport = FALSE
SPECIFICATION Spec
PROPERTY NoInstallOverWork
CHECK_DEADLOCK FALSE
