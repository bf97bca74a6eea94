\* Each compatibility helper in its own behaviours.  The behaviours of KRef,
\* ListCut and CompatCalls end when their helper is done (the object
\* released, the list cut, the clock difference taken), so deadlock is not
\* checked; the id allocators' callers go on allocating and freeing, and
\* the RCU readers go on walking the list, and the buffer ioctls can
\* always be called again.
CONSTANTS
    t1 = t1
    t2 = t2
    t3 = t3
    n1 = n1
    n2 = n2
    n3 = n3
    n4 = n4
    HeadNode = HeadNode
    ListNode = ListNode
    r1 = r1
    r2 = r2
    NULL = NULL
    Garbage = Garbage
SPECIFICATION Spec
INVARIANTS
    NoResurrection
    NoLeak
    CutMatchesContract
    LinksConsistent
    TimespecSubExact
    NoLostId
    ReaderNeverGarbage
    ReaderSeesAll
    PprevConsistent
    DivRoundClosestNearest
    BufsTypeOK
    DrmOrderIsCeilLog2
CHECK_DEADLOCK FALSE
