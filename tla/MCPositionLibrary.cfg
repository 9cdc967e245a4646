SPECIFICATION Spec
CONSTANTS
    i1 = i1
    i2 = i2
    NoImporter = NoImporter
    Importers = {i1, i2}
    Quotas <- SmallQuotas
    PageOrder <- SmallOrder
    PageRows <- SmallPages
    Streams <- SmallStreams
    MaxPages = 4
    Dirs = {"seed1", "seed2"}
    MainDir = "seed1"
    Shuffled <- SmallShuffle
    Arrange <- SeededOrder
    MaxFaults = 2
SYMMETRY Symmetry
CONSTRAINT ImportsOfWholeReading
INVARIANTS
    ResumeIsTransparent
    FullSelectionIsBalanced
    ReportedIsStored
