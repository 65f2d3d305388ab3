SPECIFICATION Spec
CONSTANTS
    Field <- MCFieldFew
    AppOf <- MCAppOf
    FieldPolicy <- MCFieldPolicy
    BasePolicy <- MCBasePolicy
    FirstField = "pane"
    ObserverOutcomes = {TRUE}
    RefreshOutcomes = {"installed"}
    Undisturbed = FALSE
    MinTokenLen = 1
    MaxTokenLen = 1
    MaxEvents = 3
    NoField = NoField
    NoLayout = NoLayout
    NoPlan = NoPlan
    NoToggle = NoToggle
    NoRefresh = NoRefresh
    NoApp = NoApp
    NoTimer = NoTimer
CHECK_DEADLOCK FALSE
PROPERTIES
    ContextSettles
