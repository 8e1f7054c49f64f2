SPECIFICATION Spec
CONSTANTS
    Files <- MCFiles
    Disks <- MCDisks
    Events <- MCEvents
    IllFormed <- MCIllFormed
    Begins <- MCBegins
    MaxDepth = 5
INVARIANTS TypeOK CachedIsComplete DecidesByLayers
PROPERTY CachedIsFrozen
