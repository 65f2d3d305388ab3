SPECIFICATION Spec
CONSTANTS
    TerminalWords = {"warp"}
    SurfaceMarkers = {"tty", "pseudo terminal"}
    NoWord = ""
    UnsupportedWords = {"with/slash"}
    None = None
    Failed = Failed
    KeyCount = 2
    English <- MCEnglish
    NamedLayouts <- MCNamedLayouts
    Blank = ""
    Missing = Missing
    SampleCap = 2
    TopByte = 2
    TopCount = 5
    NgramMagic = 100
    PrefixMagic = 101
    MaxString = 1
    MaxEntries = 1
    Chars = {0, 1, 2, 3}
    Lowercase <- MCLowercase
    Alphabet <- MCAlphabet
    BatchLines = 2
    BatchBytes = 6
    MaxTyped = 5
INVARIANTS
    PolicyFailsClosed
    ConfigCommandsTakeEffect
    TypedCharacterRoundTrips
    PrefixIndexIsExact
    DamagedArtifactsAreRefused
    CountsAreOccurrences
    RollingTotalsAreFresh
    PacksSurviveBuildAndInstall
CHECK_DEADLOCK FALSE
