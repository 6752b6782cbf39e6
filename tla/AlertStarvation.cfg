\* Limit stands for the 20 rows a pass reads.
CONSTANTS
    Searches = {1, 2}
    Capacity = 2
    Workers = {w1}
    Limit = 1
    Period = 2
    MaxTime = 3
    None = None
SPECIFICATION QuietSpec
PROPERTY ValidAlertsFlow
