SPECIFICATION Spec
CONSTANTS
    Threads = {t1, t2}
    Ckpt = ckpt
    Pages = {p1, p2}
    NFrames = 2
    Vals = {zero, one}
    Zero = zero
    NoPage = nopage
    NoLock = nolock
    Absent = absent
SYMMETRY Symmetry
INVARIANTS
    FrameConservation
    PinsAccounted
    IInv
PROPERTIES
    PassSkipsOnlySaved
