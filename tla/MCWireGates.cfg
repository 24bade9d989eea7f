SPECIFICATION Spec
CONSTANTS
    None = None
    LEDS_PER_HALF = 40
    TOTAL_LEDS = 80
    EXTENSION_PARAM_CHUNK = 12
    SPLIT_APP_MSG_MAX = 26
    Messages <- MCMessages
    Rules <- MCRules
    Bytes = {0, 1, 2, 3, 5, 13, 39, 40, 80, 100, 101, 128, 192, 255}
    Shorter = 1
INVARIANT
    GatesCross
CHECK_DEADLOCK FALSE
