SPECIFICATION Spec
CONSTANTS
    Field <- MCField
    AppOf <- MCAppOf
    FieldPolicy <- MCFieldPolicy
    BasePolicy <- MCBasePolicy
    FirstField = "text"
    ObserverOutcomes = {TRUE}
    RefreshOutcomes = {"installed"}
    Undisturbed = FALSE
    MinTokenLen = 1
    MaxTokenLen = 2
    MaxEvents = 3
    NoField = NoField
    NoLayout = NoLayout
    NoPlan = NoPlan
    NoToggle = NoToggle
    NoRefresh = NoRefresh
    NoApp = NoApp
    NoTimer = NoTimer
CHECK_DEADLOCK FALSE
INVARIANTS
    LayoutsAgree
