\* Both alternatives; a full store, in-place updates, ranges with end 0.
CONSTANTS
    m1 = m1
    m2 = m2
    Kinds = {"Null", "Memory"}
    SeqMax = 2
    MaxMessages = 2
    Msgs = {m1, m2}
    MaxCount = 2
SPECIFICATION Spec
INVARIANTS
    TypeOK
    StoredCountMatches
PROPERTY
    ImplementsAbstractStore
