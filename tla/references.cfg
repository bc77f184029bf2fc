SPECIFICATION Spec
CONSTANTS
    old = old
    merged = merged
    new = new
    hero = hero
    set = set
    chat = chat
    scene = scene
    Nil = Nil
    Tag <- Tags
    Entity = {hero}
    MutationSet = {set}
    Chat = {chat}
    Scene = {scene}
    Pin <- Pins
    Subject <- Subjects
    Order <- Listed
    Start <- Starts
    Thread = {t, u}
    t = t
    u = u
    MaxJobs = 2
    MaxFaults = 1
    Overlap = FALSE
    Relays = FALSE
    TagRace = FALSE
    LoseMerged = FALSE
    Revives = FALSE
INVARIANTS NothingLeftBehind
PROPERTIES ReadingsFollow
SYMMETRY Threads
CHECK_DEADLOCK FALSE
