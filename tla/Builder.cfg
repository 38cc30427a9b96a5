SPECIFICATION FairSpec
CONSTANTS
    lower = lower
    upper = upper
    inner = inner
    Top = Top
    Paths = {lower, upper, inner}
    Parent <- MCParent
    Key <- MCKey
    Contents = {"one", "two"}
    MaxEntries = 2
    Tries = 5
INVARIANTS PackageIsTheFolder BuiltUnpacks
PROPERTIES OutputIsKept BuildEnds
