CONSTANTS
    Files = {f1}
    Slides = {s1, s2}
    Remembered = 2
    MaxImports = 3
    MaxCrashes = 2
    MaxChanges = 2
SPECIFICATION Spec
INVARIANTS LoadedStaysWhole DirectoriesAccountedFor ToldOnce
PROPERTY LibraryKept
SYMMETRY SlideSymmetry
CHECK_DEADLOCK FALSE
