SPECIFICATION FairSpec
CONSTANTS
    Projects = {p1, p2}
    None = none
    Reviews = {r1, r2}
    Chats = {c1, c2}
    First = p1
    Old = {r1, c1}
    Starts <- MCStarts
    Calls = {a, b}
    MaxClicks = 2
    Runs = {r}
INVARIANTS TypeOK OwnItems
PROPERTIES NothingWiped AutoSaveResumes EveryItemSaved
CHECK_DEADLOCK FALSE
