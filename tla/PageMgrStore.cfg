SPECIFICATION FairSpec
CONSTANTS
    Threads = {t1, t2}
    Ckpt = ckpt
    Pages = {p1}
    NFrames = 2
    Vals = {zero, one}
    Zero = zero
    NoPage = nopage
    NoLock = nolock
    Absent = absent
PROPERTIES
    ImplementsPageStore
    CallsReturn
    
