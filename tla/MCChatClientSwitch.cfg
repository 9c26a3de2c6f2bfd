\* The user changes chats.
SPECIFICATION Spec
CONSTANTS
    Sessions = {s1, s2}
    NoSession = NoSession
    s1 = s1
    s2 = s2
    Envs = {{"switch"}}
    MaxSends = 1
    MaxQueued = 0
    MaxSwitches = 3
CHECK_DEADLOCK FALSE
PROPERTY SwitchNeverAborts
