\* All images of up to two layers, and a tag that moves to another one.
SPECIFICATION BundleSpec
CONSTANTS
    Kinds = {"task", "pipeline"}
    EntryNames = {"a", "b"}
    ServiceAccounts = {"builder"}
    Layers <- MCLayers
    MaxLayers = 2
    MaxRetags = 1
    Missing = Missing
INVARIANTS
    BundleTypeOK
    FirstMatchReturned
    NoMatchMeansNone
CHECK_DEADLOCK FALSE
