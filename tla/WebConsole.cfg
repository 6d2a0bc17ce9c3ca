SPECIFICATION WebSpec
CONSTANTS
    Consoles = {c1, c2}
    Topics = {t1, t2}
    Nil = Nil
    MaxEnter = 3
INVARIANTS
    NoLeak
    ListenerWasAsked
