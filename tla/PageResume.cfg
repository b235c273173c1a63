SPECIFICATION PageSpec
CONSTANTS
    MaxPresses = 2
    MaxOthers = 1
    MaxDeaths = 1
    MaxReadErrors = 1
PROPERTIES ResumeShown
CHECK_DEADLOCK FALSE
