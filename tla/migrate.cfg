SPECIFICATION FairSpec
CONSTANTS
    universe = universe
    first = first
    second = second
    t1 = t1
    t2 = t2
    hero = hero
    Hero = Hero
    town = town
    Name <- Names
    Lower <- Lowered
    Layer <- Layers
    Chain <- Chains
    Tab <- TwoTabs
    Root <- Roots
    Start <- Starts
    MaxFails = 2
    MaxTicks = 1
    MidRank = FALSE
INVARIANTS StampedIsUpgraded TagsKeepNames OneTagPerName
PROPERTIES EventuallyServed
CHECK_DEADLOCK FALSE
