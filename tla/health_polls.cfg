SPECIFICATION FairSpec
CONSTANTS
    n1 = n1
    Names = {n1}
    p1 = p1
    Plugins = {p1}
    r1 = r1
    r2 = r2
    Reloaders = {r1, r2}
    Good = {"good"}
    Bad = {}
    PluginOf <- OnePlugin
    Threshold = 2
    None = none
INVARIANT ReadyIsGood
PROPERTY GoodStaysReady
PROPERTY StaleEntriesGo
PROPERTY SicknessShows
PROPERTY RecoveryShows
