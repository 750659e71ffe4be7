SPECIFICATION Spec
CONSTANTS
    Main = Main
    Background = {b1}
    cellular = cellular
    Network = {wifi1, cellular}
    NetworkType = {"WIFI", "CELLULAR"}
    TypeOf <- MCTypeOf
    MaxIntents = 4
    MaxEvents = 1
    MaxKills = 1
PROPERTY DocStart
