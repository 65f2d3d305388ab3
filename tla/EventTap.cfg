SPECIFICATION TapSpec
CONSTANTS
    MinTokenLen = 1
    MaxTokenLen = 2
    MaxEvents = 6
INVARIANTS
    TapTypeOK
    RevokedIsSilent
PROPERTY
    TapFollowsAccess
CHECK_DEADLOCK FALSE
