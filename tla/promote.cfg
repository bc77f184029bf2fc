SPECIFICATION Spec
CONSTANTS
    hero = hero
    tag = tag
    set = set
    prompt = prompt
    snippet = snippet
    None = None
    Depth = 3
    Lore = {hero}
    Other = {tag}
    Prompt = {prompt, snippet}
    MutationSet = {set}
    Value = {0, 1}
    Target <- Tags
    Needs <- Need
    Nested <- Groups
    Start <- Starts
    MaxSteps = 3
    Overlap = FALSE
    LateCut = FALSE
    OntoLeftover = FALSE
    RefsReachDown = FALSE
    CascadeAfterCut = FALSE
INVARIANTS DestinationClosed OneHome HistoryFollows
PROPERTIES EditsLand MovesKeepReadings
CHECK_DEADLOCK FALSE
