\* A service account that cannot be read.
SPECIFICATION BundleSpec
CONSTANTS
    Kinds = {"task", "pipeline"}
    EntryNames = {"a", "b"}
    ServiceAccounts = {"builder"}
    Layers <- MCLayers
    MaxLayers = 2
    MaxRetags = 0
    Missing = Missing
INVARIANT CredentialsOfServiceAccount
CHECK_DEADLOCK FALSE
