SPECIFICATION FairSpec
CONSTANTS
    Ids = {a, b}
    Projects = {p}
    Recipes = {recipe}
    Previews = {}
    Openers = {person}
    Viewers = {view}
    Shared = FALSE
    OnPaused = FALSE
    PageFails = FALSE
    MaxOpens = 2
    MaxSteps = 2
INVARIANTS BrowsersMatchSessions ReservationsMatch CallsAreSpared HeldRunsAreWoken
PROPERTIES TakeoverIsHeard
CHECK_DEADLOCK FALSE
