SPECIFICATION PartSpec
CONSTANTS
    t1 = t1
    t2 = t2
    o1 = o1
    o2 = o2
    l1 = l1
    l2 = l2
    s1 = s1
    s2 = s2
    tmp = tmp
    NULL = NULL
    Thread <- MCThread
    Obj <- MCObj
    Loc <- MCLoc
    Slot <- MCSlot
    Tmp = tmp
    Globals <- MCGlobals
    stripe <- TwoStripes
    Budget <- MCBudget
    OBObject = OBObject
    OFObject = OFObject
    OWController = OWController
    OWAddressEntry = OWAddressEntry
    Nil = Nil
    Sender <- MCThread
    Class <- MCClass
    super <- MCSuper
    messages <- PostLoader
INVARIANTS
    TablesConsistent
    RefcountExact
    MarksConsistent
    ContiguousFromRoot
PROPERTIES
    ImplementsWeakMemory
    CallsReturn
    ReturnsUsable
    MessagesReturn
