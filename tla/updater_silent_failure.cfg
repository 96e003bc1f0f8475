CONSTANTS
    Databases = {local}
    PagesReport = FALSE
SPECIFICATION Spec
PROPERTY NotificationProgressEnds
CHECK_DEADLOCK FALSE
