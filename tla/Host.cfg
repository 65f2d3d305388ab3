SPECIFICATION HostSpec
CONSTANTS
    LetterEvent <- MCLetterEvent
    Char <- MCChar
    Render <- MCRender
    PunctuationLetterKeys <- MCPunctuationLetterKeys
    ScoreLayout <- MCScoreLayout
    MinTokenLen = 2
    MaxTokenLen = 3
    ConfidenceMargin = 1
    NgramOnlyConfidenceMargin = 2
    DisableOnInternalCaps = TRUE
    NoScore = NoScore
    NoReplacement = NoReplacement
    MaxDocument = 5
INVARIANTS
    HostTypeOK
    ScreenShowsToken
    ReplacementDeletesItsInverse
