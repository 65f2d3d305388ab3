SPECIFICATION Spec
CONSTANTS
    Field <- MCField
    AppOf <- MCAppOf
    FieldPolicy <- MCFieldPolicy
    BasePolicy <- MCBasePolicy
    FirstField = "text"
    ObserverOutcomes = {TRUE, FALSE}
    RefreshOutcomes = {"installed", "degraded"}
    Undisturbed = TRUE
    MinTokenLen = 1
    MaxTokenLen = 2
    MaxEvents = 4
    NoField = NoField
    NoLayout = NoLayout
    NoPlan = NoPlan
    NoToggle = NoToggle
    NoRefresh = NoRefresh
    NoApp = NoApp
    NoTimer = NoTimer
CHECK_DEADLOCK FALSE
INVARIANTS
    LayoutsAgree
PROPERTIES
    SwitchIsCarriedOut
