CONSTANTS
    Thread = {t1, t2, t3}
    Payload = {m1, m2, m3}
    NULL = NULL
    ListHead = ListHead
    Loop = Loop
SPECIFICATION Spec
INVARIANTS
    NoLostWakeup
    NoUseAfterFree
    NothingLeaks
    QueueInv
PROPERTIES
    StreamSpec
    EveryMessageArrives
