SPECIFICATION Spec
CONSTANTS
    Projects = {p1}
    None = none
    Reviews = {r1}
    Chats = {}
    First = p1
    Old = {r1}
    Starts <- MCStarts
    Calls = {a, b}
    MaxClicks = 2
    Runs = {}
PROPERTIES ReviewsSurvive
CHECK_DEADLOCK FALSE
