SPECIFICATION Spec
CONSTANTS
    Symbol <- MCSymbol
    Target <- MCTarget
    PropertyKey <- MCKeys
    Value <- MCValue
    GlobalSpellings <- Spellings
    ProfileList <- MCProfileList
    Body <- MCBody
    NoList = NoList
    MaxStored = 2
INVARIANTS
    TypeOK
    ReadsWhatWasWritten
    ListsWhatIsStored
    ReadsBack
    LostIffBadName
