SPECIFICATION Spec
CONSTANTS
    r1 = r1  r2 = r2
    a1 = a1  a2 = a2  b1 = b1
    NoSeg = NoSeg  NoSlot = NoSlot  NoReq = NoReq
    Cnt = 3
    MaxOpens = 2
    Reqs <- MCReqs
    Segs <- MCSegs
    ReqOf <- MCReqOf
INVARIANTS CodeAssertions BiosMatch HandedBackIsDone RingInv
PROPERTY Service
