SPECIFICATION Spec
CONSTANTS
    Loaders = {l1, l2}
    Files = {f1, f2}
    Segments <- TwoSegments
    Contents <- SomeContents
    MaxRuns = 3
    MaxReplaced = 1
SYMMETRY Symmetric
INVARIANTS LoadInv DoneMeansLoaded LiveIsClean AgreesWithImporter
PROPERTY LiveStays
CHECK_DEADLOCK FALSE
