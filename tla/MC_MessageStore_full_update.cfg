\* A full MemoryStore asked to replace a message it holds.
CONSTANTS
    m1 = m1
    m2 = m2
    Kinds = {"Memory"}
    SeqMax = 2
    MaxMessages = 2
    Msgs = {m1, m2}
    MaxCount = 2
SPECIFICATION Spec
INVARIANT UpdateNeverRefused
