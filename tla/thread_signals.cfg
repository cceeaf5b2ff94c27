SPECIFICATION FairSpec
CONSTANTS
    Signals = {s1, s2}
    Senders = {a, b}
    Owner = owner
    Timers = {"forever", "finite", "zero"}
    WaitMayFail = TRUE
INVARIANT
    NoStuckSignal
PROPERTIES
    BoxSpec
    KeptUntilHandled
    DeliveredWhenBlocked
