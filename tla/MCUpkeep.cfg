SPECIFICATION FairSpec
CONSTANTS
    Url = {"u"}
    Process = {"p", "q"}
    Instances <- Everything
    MaxIssues = 2
    MaxTypes = 1
    MaxEvents = 2
INVARIANTS
    TypeOK
    DateAhead
    Fortnightly
    ShownStays
    StatusFollows
PROPERTIES
    UnusedLeaves
