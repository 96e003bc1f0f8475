CONSTANTS
    Databases = {local}
    PagesReport = FALSE
SPECIFICATION Spec
PROPERTY ExitAsksAboutWork
CHECK_DEADLOCK FALSE
