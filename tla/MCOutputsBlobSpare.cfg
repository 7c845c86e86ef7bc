SPECIFICATION Spec
CONSTANTS
    Thread = {t1, t2, t3}
    Block = {b1, b2}
    Helper = {h1, h2}
    Outputs = 3
CHECK_DEADLOCK FALSE
INVARIANTS
    NoUseAfterReturn
    CachedWhenTheyMeet
PROPERTIES
    HelpersFinish
