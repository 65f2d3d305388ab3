SPECIFICATION Spec
CONSTANTS
    LetterEvent <- MCLetterEvent
    Char <- MCChar
    Render <- MCRender
    PunctuationLetterKeys <- MCPunctuationLetterKeys
    ScoreLayout <- MCScoreLayout
    MinTokenLen = 2
    MaxTokenLen = 5
    ConfidenceMargin = 1
    NgramOnlyConfidenceMargin = 2
    DisableOnInternalCaps = TRUE
    NoScore = NoScore
INVARIANTS
    TypeOK
    CopiesAgree
    SwitchIsEarned
    SwitchingDisabledKeepsLayout
    NothingRetained
PROPERTIES
    ActionsTellTheChange
