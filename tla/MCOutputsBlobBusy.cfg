SPECIFICATION Spec
CONSTANTS
    Thread = {t1, t2}
    Block = {b1, b2}
    Helper = {h1, h2}
    Outputs = 2
CHECK_DEADLOCK FALSE
PROPERTIES
    HelpersFinish
