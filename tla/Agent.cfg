SPECIFICATION Spec
CONSTANTS
    Field = {"text", "pane", "login"}
    AppOf <- MCAppOf
    FieldPolicy <- MCFieldPolicy
    BasePolicy <- MCBasePolicy
    FirstField = "text"
    ObserverOutcomes = {TRUE}
    RefreshOutcomes = {"installed"}
    Undisturbed = FALSE
    MinTokenLen = 1
    MaxTokenLen = 2
    MaxEvents = 4
    NoField = NoField
    NoLayout = NoLayout
    NoPlan = NoPlan
    NoToggle = NoToggle
    NoRefresh = NoRefresh
    NoApp = NoApp
    NoTimer = NoTimer
VIEW View
CHECK_DEADLOCK FALSE
INVARIANTS
    TypeOK
    OnlyTypedTextIsReplaced
    OneReplacementAtMost
    EngineObeysCachedPolicy
    InputSourceIsKnown
