SPECIFICATION FfiSpec
CONSTANTS
    LetterEvent <- MCLetterEvent
    Char <- MCChar
    Render <- MCRender
    PunctuationLetterKeys <- MCPunctuationLetterKeys
    ScoreLayout <- MCScoreLayout
    MinTokenLen = 2
    MaxTokenLen = 4
    ConfidenceMargin = 1
    NgramOnlyConfidenceMargin = 2
    DisableOnInternalCaps = TRUE
    NoScore = NoScore
    NoReplacement = NoReplacement
INVARIANTS
    FfiTypeOK
    PendingIsTheLastSwitch
    ShortTokensKeepTheirLayout
    OnlyTheLastSwitchAuthorises
PROPERTIES
    ImplementsContract
