SPECIFICATION Spec
CONSTANT
    Threads = {t1, t2}
INVARIANT
    ConstructedOnce
