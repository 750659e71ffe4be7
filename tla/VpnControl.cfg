SPECIFICATION FairSpec
CONSTANTS
    Main = Main
    Background = {b1}
    cellular = cellular
    Network = {wifi1, wifi2, cellular}
    NetworkType = {"WIFI", "CELLULAR"}
    TypeOf <- MCTypeOf
    MaxIntents = 3
    MaxEvents = 1
    MaxKills = 1
INVARIANTS
    HeartbeatCovers
    ConnectsToNetwork
PROPERTY Recovers
