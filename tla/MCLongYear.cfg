SPECIFICATION Spec
CONSTANTS
    Url = {"u"}
    Process = {"p", "q"}
    Instances <- Everything
    MaxIssues = 2
    MaxTypes = 1
    MaxEvents = 2
PROPERTIES
    UpcomingFortnightly
