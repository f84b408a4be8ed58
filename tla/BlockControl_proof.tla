------------------------- MODULE BlockControl_proof -------------------------
(***************************************************************************)
(* ControlInv is an invariant of BlockControl, for every number of clients, *)
(* devices, slots and handles; the properties of the control interface     *)
(* follow from it.                                                         *)
(***************************************************************************)
EXTENDS BlockControl_lemmas

\* The facts about finite sets and least elements that the lemmas use, proved
\* in BlockControl_proof from the library (FiniteSetFacts).
Counting ==
    /\ \A n \in Nat : IsFiniteSet(0 .. n - 1)
    /\ Cardinality({}) = 0
    /\ \A S : IsFiniteSet(S) => Cardinality(S) \in Nat
    /\ \A S : IsFiniteSet(S) =>
           \A T \in SUBSET S : IsFiniteSet(T) /\ Cardinality(T) <= Cardinality(S)
    /\ \A S, x : IsFiniteSet(S) /\ x \notin S => Cardinality(S \cup {x}) = Cardinality(S) + 1
    /\ \A S, x : IsFiniteSet(S) /\ x \in S => Cardinality(S \ {x}) = Cardinality(S) - 1
    /\ \A S \in SUBSET Nat : S # {} => Min(S) \in S

\* A part of a finite set is finite and no larger.
LEMMA SubsetFinite ==
    ASSUME Counting, NEW S, IsFiniteSet(S), NEW T \in SUBSET S
    PROVE  IsFiniteSet(T) /\ Cardinality(T) \in Nat /\ Cardinality(T) <= Cardinality(S)
BY Zenon DEF Counting

\* An element more, or less, changes the cardinality by one.
LEMMA AddOne ==
    ASSUME Counting, NEW S, IsFiniteSet(S), NEW x, x \notin S
    PROVE  Cardinality(S \cup {x}) = Cardinality(S) + 1
BY Zenon DEF Counting

LEMMA RemoveOne ==
    ASSUME Counting, NEW S, IsFiniteSet(S), NEW x, x \in S
    PROVE  Cardinality(S \ {x}) = Cardinality(S) - 1
BY Zenon DEF Counting

\* A set with an element, or with two, counts at least as many.
LEMMA OneCounted ==
    ASSUME Counting, NEW S, IsFiniteSet(S), NEW x \in S
    PROVE  Cardinality(S) > 0
<1>1. Cardinality(S \ {x}) = Cardinality(S) - 1
  BY RemoveOne, Zenon
<1>2. Cardinality(S) \in Nat /\ Cardinality(S \ {x}) \in Nat
  BY SubsetFinite, Zenon
<1> QED
  BY <1>1, <1>2

LEMMA TwoCounted ==
    ASSUME Counting, NEW S, IsFiniteSet(S), NEW x \in S, NEW y \in S, x # y
    PROVE  Cardinality(S) > 1
<1>1. Cardinality(S \ {x}) = Cardinality(S) - 1
  BY RemoveOne, Zenon
<1>2. IsFiniteSet(S \ {x}) /\ Cardinality(S) \in Nat
  BY SubsetFinite, Zenon
<1>3. Cardinality(S \ {x}) > 0
  BY <1>2, OneCounted, Zenon
<1> QED
  BY <1>1, <1>2, <1>3

\* Nothing is counted as 0.
LEMMA NoneCounted ==
    ASSUME Counting
    PROVE  Cardinality({}) = 0
BY Zenon DEF Counting

\* A handle search returns a free handle.
LEMMA LeastIsMember ==
    ASSUME Counting, NEW S \in SUBSET Nat, S # {}
    PROVE  Min(S) \in S
BY Zenon DEF Counting

\* The connections to a device can be counted.
LEMMA OfFinite ==
    ASSUME Counting, NEW d
    PROVE  IsFiniteSet(Of(d)) /\ Cardinality(Of(d)) \in Nat
<1>1. IsFiniteSet(ConnHandles)
  BY ControlAssumption, Zenon DEF ConnHandles, Counting
<1>2. Of(d) \in SUBSET ConnHandles
  BY Zenon DEF Of
<1> QED
  BY <1>1, <1>2, SubsetFinite, Zenon

\* A step of a transfer changes nothing that the calls use.
LEMMA TransferKeeps ==
    ASSUME Counting, ControlInv, NEW c \in Clients, NEW d \in Devices,
           NEW v \in {"none", "wait", "woken", "posted", "started", "done"},
           NEW h \in ConnHandles \cup {None},
           io' = [io EXCEPT ![c][d] = v], ioconn' = [ioconn EXCEPT ![c][d] = h], notify' \in BOOLEAN,
           refcnt[c][d] > 0, v \in {"posted", "started"} => h = conn[c][d],
           v \in {"posted", "started", "done"} =>
                Available(c) \/ io[c][d] \in {"posted", "started", "done"},
           UNCHANGED <<tables, handler, oops, linux, client, call>>
    PROVE  ControlInv'
<1> USE DEF ControlInv, tables, handler, linux, client, call
<1>1. TypeOK'
  BY DEF TypeOK, ServerTypes, LinuxTypes, CallTypes, ClientTypes, TransferTypes
<1>2. CallsQueued' /\ HandlerAt' /\ ClientAt' /\ SlotsAt' /\ SlotsDistinct'
  BY DEF CallsQueued, HandlerAt, ClientAt, SlotsAt, SlotsDistinct
<1>3. AttachedAt'
  <2>1. \A e \in Clients, f \in Devices : Attached(e, f)' <=> Attached(e, f)
    BY DEF Attached, Holds, Detaching
  <2> QED BY <2>1 DEF AttachedAt
<1>4. TransfersAt'
  BY DEF TransfersAt, TypeOK, TransferTypes
<1>5. DeviceRefs' /\ MountedFree'
  BY DEF DeviceRefs, Of, Busy, MountedFree
<1>6. RingNotOverfilled'
  <2>1. \A e \in Clients : IsFiniteSet(InRing(e)) /\ Cardinality(InRing(e)) \in Nat
    <3>1. \A e \in Clients : InRing(e) \in SUBSET Devices
      BY Zenon DEF InRing
    <3> QED BY <3>1, ControlAssumption, SubsetFinite, Zenon
  <2>2. \A e \in Clients \ {c} : InRing(e)' = InRing(e)
    BY DEF InRing
  <2>3. Cardinality(InRing(c)') <= RingSize
    <3>1. CASE InRing(c)' \subseteq InRing(c)
      <4>1. Cardinality(InRing(c)') <= Cardinality(InRing(c)) /\ Cardinality(InRing(c)') \in Nat
        BY <2>1, <3>1, SubsetFinite, Zenon
      <4> QED BY <2>1, <4>1, ControlAssumption DEF RingNotOverfilled
    <3>2. CASE ~ (InRing(c)' \subseteq InRing(c))
      <4>1. d \notin InRing(c) /\ InRing(c)' = InRing(c) \cup {d} /\ Available(c)
        BY <3>2 DEF InRing
      <4>2. Cardinality(InRing(c)') = Cardinality(InRing(c)) + 1
        BY <2>1, <4>1, AddOne, Zenon
      <4> QED BY <2>1, <4>1, <4>2, ControlAssumption DEF Available
    <3> QED BY <3>1, <3>2, Zenon
  <2> QED BY <2>2, <2>3, Zenon DEF RingNotOverfilled
<1> QED
  BY <1>1, <1>2, <1>3, <1>4, <1>5, <1>6, Zenon

\* Each step of a transfer.
LEMMA TransferSteps ==
    ASSUME Counting, ControlInv, ~oops, NEW c \in Clients, NEW d \in Devices,
           \/ Request(c, d) \/ Wake(c, d) \/ Resume(c, d) \/ Finish(c, d)
           \/ Dispatch(c, d) \/ EndIo(c, d)
    PROVE  ControlInv'
<1>1. /\ notify \in BOOLEAN /\ conn[c][d] \in ConnHandles \cup {None}
      /\ ioconn[c][d] \in ConnHandles \cup {None} /\ ioconn = [ioconn EXCEPT ![c][d] = ioconn[c][d]]
  BY DEF ControlInv, TypeOK, ServerTypes, ClientTypes, TransferTypes
<1>2. io[c][d] # "none" => refcnt[c][d] > 0
  BY Zenon DEF ControlInv, TransfersAt
<1>3. CASE Request(c, d) \/ Resume(c, d)
  <2>1. /\ refcnt[c][d] > 0 /\ notify' \in BOOLEAN
        /\ UNCHANGED <<tables, handler, oops, linux, client, call>>
    BY <1>1, <1>2, <1>3, Zenon DEF Request, Resume
  <2>2. CASE Available(c) /\ Post(c, d)
    BY <1>1, <2>1, <2>2, TransferKeeps, Zenon DEF Post
  <2>3. CASE io' = [io EXCEPT ![c][d] = "wait"] /\ UNCHANGED ioconn
    <3>1. ioconn' = [ioconn EXCEPT ![c][d] = ioconn[c][d]]
      BY <1>1, <2>3, Zenon
    <3> QED BY <1>1, <2>1, <2>3, TransferKeeps, Zenon
  <2> QED BY <1>3, <2>2, <2>3, Zenon DEF Request, Resume
<1>4. CASE Wake(c, d)
  <2>1. ioconn' = [ioconn EXCEPT ![c][d] = ioconn[c][d]] /\ refcnt[c][d] > 0 /\ notify' \in BOOLEAN
    BY <1>1, <1>2, <1>4, Zenon DEF Wake
  <2> QED BY <1>1, <1>4, <2>1, TransferKeeps, Zenon DEF Wake
<1>5. CASE Finish(c, d)
  <2>1. refcnt[c][d] > 0 /\ notify' \in BOOLEAN
    BY <1>1, <1>2, <1>5, Zenon DEF Finish
  <2> QED BY <1>5, <2>1, TransferKeeps, Zenon DEF Finish
<1>6. CASE Dispatch(c, d)
  <2>1. /\ refcnt[c][d] > 0 /\ ioconn[c][d] = conn[c][d]
        /\ connections[ioconn[c][d]] = [used |-> TRUE, blkdev |-> d, client |-> handle[c]]
    BY <1>6, TransferConnection, Zenon DEF Dispatch
  <2>2. io' = [io EXCEPT ![c][d] = "started"] /\ notify' \in BOOLEAN
    BY <1>6, <2>1 DEF Dispatch
  <2>3. ioconn' = [ioconn EXCEPT ![c][d] = ioconn[c][d]] /\ io[c][d] = "posted"
    BY <1>1, <1>6, Zenon DEF Dispatch
  <2> QED BY <1>1, <1>6, <2>1, TransferKeeps, Zenon DEF Dispatch
<1>7. CASE EndIo(c, d)
  <2>1. /\ refcnt[c][d] > 0
        /\ connections[ioconn[c][d]] = [used |-> TRUE, blkdev |-> d, client |-> handle[c]]
    BY <1>7, TransferConnection, Zenon DEF EndIo
  <2>2. io' = [io EXCEPT ![c][d] = "done"] /\ notify' \in BOOLEAN /\ oops' = FALSE
    <3>1. connections[ioconn[c][d]].used = TRUE /\ connections[ioconn[c][d]].client = handle[c]
      BY <2>1
    <3> QED BY <1>7, <3>1, Zenon DEF EndIo
  <2>3. oops = FALSE
    OBVIOUS
  <2>4. ioconn' = [ioconn EXCEPT ![c][d] = ioconn[c][d]] /\ io[c][d] = "started"
    BY <1>1, <1>7, Zenon DEF EndIo
  <2> QED BY <1>1, <1>7, <2>1, <2>2, <2>3, TransferKeeps, Zenon DEF EndIo
<1> QED
  BY <1>3, <1>4, <1>5, <1>6, <1>7, Zenon

\* probe opens the device and puts it back.
LEMMA ProbeKeeps ==
    ASSUME Counting, ControlInv, ~oops, ProbeOpen \/ ProbePut
    PROVE  ControlInv'
<1> USE DEF ControlInv
<1>1. cmds # <<>> /\ Cmd.op = "probe" /\ Cmd = cmds[1] /\ Cmd.dev \in Devices /\ step \in {"idle", "probe"}
  <2>1. cmds # <<>> /\ step \in {"idle", "probe"}
    BY Zenon DEF ProbeOpen, ProbePut, Starts, At, HandlerAt
  <2>2. Cmd = cmds[1]
    BY <2>1, Caller, Zenon
  <2>3. Cmd.op = "probe"
    BY <2>2, Zenon DEF ProbeOpen, ProbePut, Starts, At, HandlerAt
  <2> QED BY <2>1, <2>3, Caller, Zenon
<1>2. \A d \in Devices : Cardinality(Of(d)) \in Nat /\ Of(d) = Of(d)'
  <2>1. UNCHANGED connections
    BY Zenon DEF ProbeOpen, ProbePut, tables
  <2> QED BY <2>1, OfFinite, Zenon DEF Of
<1>3. opens \in [Devices -> Nat] /\ claims \in [Devices -> Nat] /\ slot \in ClientHandles \cup {None}
  BY Zenon DEF TypeOK, ServerTypes, LinuxTypes
<1>4. CASE ProbeOpen
  <2>1. /\ step = "idle" /\ claims' = claims /\ slot' = slot
        /\ UNCHANGED <<tables, slot, notify, oops, mounted, handle, conn, clientSide>>
    BY <1>4, Zenon DEF ProbeOpen, Starts
  <2>2. CASE Reply("error") /\ UNCHANGED opens
    <3>1. DeviceRefs' /\ MountedFree'
      BY <1>2, <2>1, <2>2 DEF DeviceRefs, Busy, Reply, MountedFree
    <3> QED BY <1>1, <1>3, <2>1, <2>2, <3>1, ReplyKeeps, Zenon
  <2>3. CASE OpenDev(Cmd.dev) /\ Goto("probe")
    <3>1. opens' \in [Devices -> Nat]
      BY <1>1, <1>3, <2>3 DEF OpenDev
    <3>2. DeviceRefs' /\ MountedFree' /\ HandlerAt'
      BY <1>1, <1>2, <1>3, <2>1, <2>3 DEF DeviceRefs, Busy, Goto, OpenDev, MountedFree, HandlerAt
    <3> QED BY <1>1, <1>3, <2>1, <2>3, <3>1, <3>2, GotoKeeps, Zenon
  <2> QED BY <1>4, <2>2, <2>3, Zenon DEF ProbeOpen
<1>5. CASE ProbePut
  <2>1. /\ step = "probe" /\ claims' = claims /\ slot' = slot /\ PutDev(Cmd.dev)
        /\ UNCHANGED <<tables, slot, notify, oops, mounted, handle, conn, clientSide>>
    BY <1>5, Zenon DEF ProbePut, At
  <2>2. PICK r \in {"ok", "error"} : Reply(r)
    BY <1>5, Zenon DEF ProbePut
  <2>3. opens[Cmd.dev] > 0
    BY <1>1, <1>2, <2>1 DEF DeviceRefs, Busy
  <2>4. opens' \in [Devices -> Nat]
    BY <1>1, <1>3, <2>1, <2>3 DEF PutDev
  <2>5. DeviceRefs' /\ MountedFree'
    BY <1>1, <1>2, <1>3, <2>1, <2>2 DEF DeviceRefs, Busy, Reply, PutDev, MountedFree
  <2> QED BY <1>1, <1>3, <2>1, <2>2, <2>4, <2>5, ReplyKeeps, Zenon
<1> QED
  BY <1>4, <1>5, Zenon

\* attach without a connection: each step undoes what the earlier ones have done.
LEMMA AttachKeeps ==
    ASSUME Counting, ControlInv, ~oops, AttachOpen \/ AttachClaim \/ AttachPut
    PROVE  ControlInv'
<1> USE DEF ControlInv
<1>1. /\ cmds # <<>> /\ Cmd.op = "attach" /\ Cmd = cmds[1] /\ Cmd.dev \in Devices
      /\ step \in {"idle", "claim", "put"}
  <2>1. cmds # <<>> /\ step \in {"idle", "claim", "put"}
    BY Zenon DEF AttachOpen, AttachClaim, AttachPut, Starts, At, HandlerAt
  <2>2. Cmd = cmds[1]
    BY <2>1, Caller, Zenon
  <2>3. Cmd.op = "attach"
    BY <2>2, Zenon DEF AttachOpen, AttachClaim, AttachPut, Starts, At, HandlerAt
  <2> QED BY <2>1, <2>3, Caller, Zenon
<1>2. \A d \in Devices : Cardinality(Of(d)) \in Nat /\ Of(d) = Of(d)'
  <2>1. UNCHANGED connections
    BY Zenon DEF AttachOpen, AttachClaim, AttachPut, tables
  <2> QED BY <2>1, OfFinite, Zenon DEF Of
<1>3. opens \in [Devices -> Nat] /\ claims \in [Devices -> Nat] /\ slot \in ClientHandles \cup {None}
  BY Zenon DEF TypeOK, ServerTypes, LinuxTypes
<1>4. CASE AttachOpen
  <2>1. /\ step = "idle" /\ claims' = claims /\ slot' = slot
        /\ UNCHANGED <<tables, slot, notify, oops, mounted, handle, conn, clientSide>>
    BY <1>4, Zenon DEF AttachOpen, Starts
  <2>2. CASE Reply("error") /\ UNCHANGED opens
    <3>1. DeviceRefs' /\ MountedFree'
      BY <1>2, <2>1, <2>2 DEF DeviceRefs, Busy, Reply, MountedFree
    <3> QED BY <1>1, <1>3, <2>1, <2>2, <3>1, ReplyKeeps, Zenon
  <2>3. CASE OpenDev(Cmd.dev) /\ Goto("claim")
    <3>1. opens' \in [Devices -> Nat]
      BY <1>1, <1>3, <2>3 DEF OpenDev
    <3>2. DeviceRefs' /\ MountedFree' /\ HandlerAt'
      BY <1>1, <1>2, <1>3, <2>1, <2>3 DEF DeviceRefs, Busy, Goto, OpenDev, MountedFree, HandlerAt
    <3> QED BY <1>1, <1>3, <2>1, <2>3, <3>1, <3>2, GotoKeeps, Zenon
  <2> QED BY <1>4, <2>2, <2>3, Zenon DEF AttachOpen
<1>5. CASE AttachClaim
  <2>1. /\ step = "claim" /\ opens' = opens /\ slot' = slot
        /\ UNCHANGED <<tables, slot, notify, oops, mounted, handle, conn, clientSide>>
    BY <1>5, Zenon DEF AttachClaim, At
  <2>2. CASE Goto("put") /\ UNCHANGED claims
    <3>1. DeviceRefs' /\ MountedFree' /\ HandlerAt'
      BY <1>2, <2>1, <2>2 DEF DeviceRefs, Busy, Goto, MountedFree, HandlerAt
    <3> QED BY <1>1, <1>3, <2>1, <2>2, <3>1, GotoKeeps, Zenon
  <2>3. CASE ~mounted[Cmd.dev] /\ ClaimDev(Cmd.dev) /\ Goto("blocksize")
    <3>1. claims' \in [Devices -> Nat] /\ MountedFree'
      BY <1>1, <1>3, <2>1, <2>3 DEF ClaimDev, MountedFree
    <3>2. DeviceRefs' /\ HandlerAt'
      BY <1>1, <1>2, <1>3, <2>1, <2>3 DEF DeviceRefs, Busy, Goto, ClaimDev, HandlerAt
    <3> QED BY <1>1, <1>3, <2>1, <2>3, <3>1, <3>2, GotoKeeps, Zenon
  <2> QED BY <1>5, <2>2, <2>3, Zenon DEF AttachClaim
<1>6. CASE AttachPut
  <2>1. /\ step = "put" /\ claims' = claims /\ slot' = slot /\ PutDev(Cmd.dev) /\ Reply("error")
        /\ UNCHANGED <<tables, slot, notify, oops, mounted, handle, conn, clientSide>>
    BY <1>6, Zenon DEF AttachPut, At
  <2>2. opens[Cmd.dev] > 0
    BY <1>1, <1>2, <2>1 DEF DeviceRefs, Busy
  <2>3. opens' \in [Devices -> Nat]
    BY <1>1, <1>3, <2>1, <2>2 DEF PutDev
  <2>4. DeviceRefs' /\ MountedFree'
    BY <1>1, <1>2, <1>3, <2>1 DEF DeviceRefs, Busy, Reply, PutDev, MountedFree
  <2> QED BY <1>1, <1>3, <2>1, <2>3, <2>4, ReplyKeeps, Zenon
<1> QED
  BY <1>4, <1>5, <1>6, Zenon

\* attach takes a connection that is free, for a device it holds already.
LEMMA AttachConnects ==
    ASSUME Counting, ControlInv, ~oops, AttachConn
    PROVE  ControlInv'
<1> USE DEF ControlInv
<1>0. cmds # <<>> /\ step = "blocksize" /\ cmds[1].op = "attach"
  BY Zenon DEF AttachConn, At, HandlerAt
<1> PICK c \in Clients, d \in Devices : c = Cmd.from /\ d = Cmd.dev
  BY <1>0, Caller, Zenon
<1>1. /\ cmds # <<>> /\ step = "blocksize" /\ Cmd = cmds[1] /\ Cmd.op = "attach" /\ c = Cmd.from
      /\ d = Cmd.dev /\ main[c] = "attach" /\ reply[c] = "none" /\ dev[c] = d
      /\ Cmd.h = handle[c] /\ Cmd.h \in ClientHandles
  BY <1>0, Caller, Zenon
<1>2. refcnt[c][d] = 0 /\ ~ Attached(c, d) /\ io[c][d] = "none"
  BY <1>1 DEF ClientAt, Attached, Holds, Detaching, TransfersAt
<1>3. /\ opens \in [Devices -> Nat] /\ claims \in [Devices -> Nat] /\ slot \in ClientHandles \cup {None}
      /\ \A f \in Devices : IsFiniteSet(Of(f)) /\ Cardinality(Of(f)) \in Nat
  BY OfFinite, Zenon DEF TypeOK, ServerTypes, LinuxTypes
<1>4. UNCHANGED <<clients, slot, notify, oops, opens, mounted, handle, clientSide>>
  BY Zenon DEF AttachConn, At
<1>5. CASE ReleaseDev(d) /\ Goto("put") /\ UNCHANGED <<connections, conn>>
  <2>1. claims[d] > 0
    BY <1>1, <1>3 DEF DeviceRefs, Busy
  <2>2. claims' \in [Devices -> Nat] /\ MountedFree'
    BY <1>3, <1>4, <1>5, <2>1 DEF ReleaseDev, MountedFree
  <2>3. \A f \in Devices : Of(f)' = Of(f)
    BY <1>5, Zenon DEF Of
  <2>4. DeviceRefs' /\ HandlerAt'
    BY <1>1, <1>3, <1>4, <1>5, <2>3 DEF DeviceRefs, Busy, Goto, ReleaseDev, HandlerAt
  <2> QED BY <1>1, <1>3, <1>4, <1>5, <2>2, <2>4, GotoKeeps, Zenon DEF tables
<1>6. CASE /\ FreeConns # {}
           /\ connections' = [connections EXCEPT ![Min(FreeConns)] =
                                [used |-> TRUE, blkdev |-> d, client |-> Cmd.h]]
           /\ conn' = [conn EXCEPT ![c][d] = Min(FreeConns)]
           /\ Reply("ok") /\ UNCHANGED claims
  <2> PICK h \in ConnHandles : h = Min(FreeConns) /\ ~connections[h].used
    <3>1. FreeConns \in SUBSET Nat
      BY DEF FreeConns, ConnHandles
    <3> QED BY <1>6, <3>1, LeastIsMember, Zenon DEF FreeConns
  <2>1. /\ connections' = [connections EXCEPT ![h] = [used |-> TRUE, blkdev |-> d, client |-> handle[c]]]
        /\ conn' = [conn EXCEPT ![c][d] = h]
    BY <1>1, <1>6, Zenon
  <2> USE DEF clientSide, transfer
  <2>2. step' = "idle" /\ reply' = [reply EXCEPT ![c] = "ok"]
    BY <1>6, Zenon DEF Reply
  <2>3. /\ cmds' \in Seq(Commands) /\ CallsQueued' /\ HandlerAt'
        /\ reply' \in [Clients -> {"none", "ok", "error"}]
    <3>1. \A e \in Clients \ {Cmd.from} : handle'[e] = handle[e] /\ conn'[e] = conn[e]
      BY <1>4, <1>6
    <3> QED BY <1>1, <1>4, <1>6, QueueReply
  <2>4. TypeOK'
    BY <1>4, <1>6, <2>1, <2>2, <2>3 DEF TypeOK, ServerTypes, LinuxTypes, CallTypes, ClientTypes,
       TransferTypes
  <2>5. ClientAt'
    BY <1>1, <1>4, <2>2 DEF ClientAt
  <2>6. SlotsAt' /\ SlotsDistinct' /\ RingNotOverfilled' /\ MountedFree'
    BY <1>1, <1>4, <1>6, <2>2, Zenon DEF SlotsAt, SlotsDistinct,
       RingNotOverfilled, InRing, MountedFree
  <2>7. TransfersAt'
    BY <1>2, <1>4, <1>6 DEF TransfersAt
  <2>8. AttachedAt'
    <3>1. \A e \in Clients, f \in Devices : Attached(e, f)' <=> Attached(e, f) \/ (e = c /\ f = d)
      BY <1>1, <1>4, <2>2 DEF Attached, Holds, Detaching, TypeOK, CallTypes
    <3>2. \A e \in Clients, f \in Devices : conn'[e][f] = IF e = c /\ f = d THEN h ELSE conn[e][f]
      BY <1>6, Zenon DEF TypeOK, ClientTypes
    <3>3. ASSUME NEW e \in Clients, NEW f \in Devices, Attached(e, f)
          PROVE  conn[e][f] \in ConnHandles \ {h}
      <4>1. /\ conn[e][f] \in ConnHandles
            /\ connections[conn[e][f]] = [used |-> TRUE, blkdev |-> f, client |-> handle[e]]
        BY <3>3, Zenon DEF AttachedAt
      <4> QED BY <4>1
    <3>4. /\ connections'[h] = [used |-> TRUE, blkdev |-> d, client |-> handle[c]]
          /\ \A g \in ConnHandles \ {h} : connections'[g] = connections[g]
      BY <1>1, <2>1, Zenon DEF TypeOK, ServerTypes
    <3>5. ASSUME NEW e \in Clients, NEW f \in Devices, Attached(e, f)'
          PROVE  /\ conn'[e][f] \in ConnHandles
                 /\ connections'[conn'[e][f]] = [used |-> TRUE, blkdev |-> f, client |-> handle'[e]]
      <4>1. CASE e = c /\ f = d
        BY <1>4, <3>2, <3>4, <4>1, Zenon
      <4>2. CASE ~ (e = c /\ f = d)
        BY <1>4, <3>1, <3>2, <3>4, <3>5, <4>2 DEF AttachedAt
      <4> QED BY <4>1, <4>2, Zenon
    <3>6. ASSUME NEW g \in ConnHandles, connections'[g].used
          PROVE  \E e \in Clients, f \in Devices : conn'[e][f] = g /\ Attached(e, f)'
      <4>1. CASE g = h
        BY <3>1, <3>2, <4>1, Zenon
      <4>2. CASE g # h
        <5>1. PICK e \in Clients, f \in Devices : conn[e][f] = g /\ Attached(e, f)
          BY <3>4, <3>6, <4>2, Zenon DEF AttachedAt
        <5> QED BY <1>2, <3>1, <3>2, <5>1
      <4> QED BY <4>1, <4>2, Zenon
    <3> QED BY <3>5, <3>6, Zenon DEF AttachedAt
  <2>9. DeviceRefs'
    <3>1. Of(d)' = Of(d) \cup {h} /\ h \notin Of(d)
      BY <2>1, Zenon DEF Of, TypeOK, ServerTypes
    <3>2. \A f \in Devices \ {d} : Of(f)' = Of(f)
      BY <2>1 DEF Of
    <3>3. Cardinality(Of(d)') = Cardinality(Of(d)) + 1
      BY <1>3, <3>1, AddOne, Zenon
    <3> QED BY <1>1, <1>3, <1>4, <1>6, <2>2, <3>2, <3>3 DEF DeviceRefs, Busy
  <2> QED
    BY <2>3, <2>4, <2>5, <2>6, <2>7, <2>8, <2>9, Zenon
<1> QED
  BY <1>5, <1>6, Zenon DEF AttachConn

\* The detach being handled is client c's of device d, with connection h.
DetachBy(c, d, h) ==
    /\ cmds # <<>> /\ cmds[1].op = "detach" /\ cmds[1].dev = d /\ Cmd.from = c /\ Cmd.h = h
    /\ main[c] = "detach" /\ reply[c] = "none" /\ dev[c] = d
    /\ refcnt[c][d] = 0 /\ Attached(c, d) /\ conn[c][d] = h
    /\ connections[h] = [used |-> TRUE, blkdev |-> d, client |-> handle[c]]

\* A detach is handled for a caller that has the device attached.
LEMMA DetachCaller ==
    ASSUME ControlInv, cmds # <<>>, Cmd.op = "detach"
    PROVE  \E c \in Clients, d \in Devices, h \in ConnHandles : DetachBy(c, d, h)
<1>1. /\ Cmd.from \in Clients /\ Cmd.dev \in Devices
      /\ main[Cmd.from] = "detach" /\ reply[Cmd.from] = "none" /\ dev[Cmd.from] = Cmd.dev
      /\ Cmd.h = conn[Cmd.from][Cmd.dev]
  BY Caller, Zenon
<1>2. refcnt[Cmd.from][Cmd.dev] = 0 /\ Attached(Cmd.from, Cmd.dev)
  BY <1>1, Zenon DEF ControlInv, ClientAt, Attached, Detaching
<1>3. /\ conn[Cmd.from][Cmd.dev] \in ConnHandles
      /\ connections[conn[Cmd.from][Cmd.dev]] =
           [used |-> TRUE, blkdev |-> Cmd.dev, client |-> handle[Cmd.from]]
  BY <1>1, <1>2, Zenon DEF ControlInv, AttachedAt
<1>4. cmds[1].op = "detach" /\ cmds[1].dev = Cmd.dev
  BY Caller, Zenon
<1>5. DetachBy(Cmd.from, Cmd.dev, conn[Cmd.from][Cmd.dev])
  BY <1>1, <1>2, <1>3, <1>4, Zenon DEF DetachBy
<1> QED
  BY <1>1, <1>3, <1>5, Zenon

\* detach releases the claim.
LEMMA DetachReleaseKeeps ==
    ASSUME Counting, ControlInv, ~oops, DetachRelease,
           NEW c \in Clients, NEW d \in Devices, NEW h \in ConnHandles, DetachBy(c, d, h)
    PROVE  ControlInv'
<1>1. cmds # <<>> /\ cmds[1].op = "detach" /\ cmds[1].dev = d
  BY Zenon DEF DetachBy
<1>2. connections[Cmd.h].used /\ connections[Cmd.h].blkdev = d
  BY DEF DetachBy
<1>3. step = "idle" /\ ReleaseDev(d) /\ Goto("detach")
  BY <1>2, Zenon DEF DetachRelease, Starts
<1>4. UNCHANGED <<tables, slot, notify, oops, opens, mounted, handle, conn, clientSide>>
  BY Zenon DEF DetachRelease
<1>5. UNCHANGED <<opens, mounted>> /\ UNCHANGED connections
  BY <1>4, Zenon DEF tables
<1>6. \A f \in Devices : Of(f)' = Of(f)
  BY <1>5, Zenon DEF Of
<1>7. opens \in [Devices -> Nat] /\ claims \in [Devices -> Nat]
  BY Zenon DEF ControlInv, TypeOK, LinuxTypes
<1>8. IsFiniteSet(Of(d)) /\ Cardinality(Of(d)) \in Nat
  BY OfFinite, Zenon DEF ControlInv
<1>9. Cardinality(Of(d)) > 0
  <2>1. h \in Of(d)
    BY DEF DetachBy, Of
  <2> QED BY <1>8, <2>1, OneCounted, Zenon
<1>10. \A f \in Devices : Cardinality(Of(f)) \in Nat
  BY OfFinite, Zenon DEF ControlInv
<1>11. claims[d] > 0
  BY <1>3, <1>7, <1>8, <1>9 DEF ControlInv, DeviceRefs, Busy
<1>12. claims' \in [Devices -> Nat]
  BY <1>3, <1>7, <1>11 DEF ReleaseDev
<1>13. MountedFree'
  BY <1>3, <1>5, <1>7, <1>11 DEF ControlInv, ReleaseDev, MountedFree
<1>14. UNCHANGED cmds /\ step' = "detach"
  BY <1>3, Zenon DEF Goto
<1>15. HandlerAt'
  BY <1>1, <1>14, Zenon DEF HandlerAt, Cmd
<1>16. DeviceRefs'
  BY <1>1, <1>3, <1>5, <1>6, <1>7, <1>10, <1>14 DEF ControlInv, DeviceRefs, Busy, ReleaseDev
<1> QED
  BY <1>1, <1>3, <1>4, <1>5, <1>7, <1>12, <1>13, <1>15, <1>16, GotoKeeps, Zenon

\* detach puts the device and frees the caller's connection.
LEMMA DetachPutKeeps ==
    ASSUME Counting, ControlInv, ~oops, DetachPut,
           NEW c \in Clients, NEW d \in Devices, NEW h \in ConnHandles, DetachBy(c, d, h)
    PROVE  ControlInv'
<1>1. cmds # <<>> /\ step = "detach" /\ PutDev(d) /\ Reply("ok")
  BY DEF DetachBy, DetachPut, At
<1>2. connections' = [connections EXCEPT ![h] =
                         [used |-> FALSE, blkdev |-> None, client |-> handle[c]]]
  BY DEF DetachBy, DetachPut
<1>3. UNCHANGED <<clients, slot, notify, oops, claims, mounted, handle, conn>>
  BY Zenon DEF DetachPut, At
<1>4. UNCHANGED <<main, dev, todo, disks, refcnt>> /\ UNCHANGED <<io, ioconn>>
  <2>1. UNCHANGED clientSide
    BY Zenon DEF DetachPut
  <2> QED BY <2>1, Zenon DEF clientSide, transfer
<1>5. step' = "idle" /\ reply' = [reply EXCEPT ![c] = "ok"]
  BY <1>1, Zenon DEF Reply, DetachBy
<1>6. /\ cmds' \in Seq(Commands) /\ CallsQueued' /\ HandlerAt'
      /\ reply' \in [Clients -> {"none", "ok", "error"}]
  BY <1>1, <1>3, <1>4, QueueReply, Zenon DEF ControlInv
<1>7. ServerTypes'
  BY <1>2, <1>3, <1>5, <1>6, Zenon DEF ControlInv, TypeOK, ServerTypes, ClientTypes
<1>8. connections'[h].used = FALSE /\ \A g \in ConnHandles \ {h} : connections'[g] = connections[g]
  BY <1>2, Zenon DEF ControlInv, TypeOK, ServerTypes
<1>9. /\ opens \in [Devices -> Nat]
      /\ \A f \in Devices : IsFiniteSet(Of(f)) /\ Cardinality(Of(f)) \in Nat
  BY OfFinite, Zenon DEF ControlInv, TypeOK, LinuxTypes
<1>10. h \in Of(d) /\ Cardinality(Of(d)) > 0
  <2>1. h \in Of(d)
    BY DEF Of, DetachBy
  <2> QED BY <1>9, <2>1, OneCounted, Zenon
<1>11. LinuxTypes'
  <2>1. opens[d] > 0
    BY <1>1, <1>9, <1>10 DEF ControlInv, DeviceRefs, Busy
  <2> QED BY <1>1, <1>3, <1>9, <2>1 DEF PutDev, ControlInv, TypeOK, LinuxTypes
<1>12. CallTypes' /\ ClientTypes' /\ TransferTypes'
  BY <1>3, <1>4, <1>6, Zenon DEF ControlInv, TypeOK, CallTypes, ClientTypes, TransferTypes
<1>13. ClientAt'
  <2>1. main[c] = "detach"
    BY Zenon DEF DetachBy
  <2> QED BY <1>3, <1>4, <1>5, <2>1 DEF ControlInv, ClientAt
<1>14. SlotsAt'
  BY <1>1, <1>3, <1>5, Zenon DEF ControlInv, SlotsAt
<1>15. SlotsDistinct' /\ RingNotOverfilled' /\ MountedFree' /\ TransfersAt'
  BY <1>3, <1>4, SlotsDistinctFrame, RingNotOverfilledFrame, MountedFreeFrame, TransfersAtFrame,
     Zenon DEF ControlInv
<1>16. \A e \in Clients, f \in Devices : Attached(e, f)' <=> Attached(e, f) /\ ~ (e = c /\ f = d)
  <2>1. reply'[c] = "ok" /\ \A e \in Clients \ {c} : reply'[e] = reply[e]
    BY <1>5, Zenon DEF ControlInv, TypeOK, CallTypes
  <2>2. main[c] = "detach" /\ dev[c] = d /\ reply[c] = "none" /\ ~ (refcnt[c][d] > 0)
    BY DEF DetachBy
  <2>3. ASSUME NEW f \in Devices
        PROVE  Attached(c, f)' <=> Attached(c, f) /\ f # d
    BY <1>4, <2>1, <2>2, Zenon DEF Attached, Holds, Detaching
  <2>4. ASSUME NEW e \in Clients \ {c}, NEW f \in Devices
        PROVE  Attached(e, f)' <=> Attached(e, f)
    BY <1>4, <2>1, Zenon DEF Attached, Holds, Detaching
  <2> QED BY <2>3, <2>4, Zenon
<1>17. ASSUME NEW e \in Clients, NEW f \in Devices, Attached(e, f)'
       PROVE  /\ conn'[e][f] \in ConnHandles
              /\ connections'[conn'[e][f]] = [used |-> TRUE, blkdev |-> f, client |-> handle'[e]]
  <2>1. Attached(e, f) /\ ~ (e = c /\ f = d)
    BY <1>16, <1>17, Zenon
  <2>2. Attached(c, d) /\ conn[c][d] = h
    BY Zenon DEF DetachBy
  <2>3. conn[e][f] # h
    BY <2>1, <2>2, OneConnection, Zenon DEF ControlInv
  <2>4. conn[e][f] \in ConnHandles \ {h}
    BY <2>1, <2>3, Zenon DEF ControlInv, AttachedAt
  <2>5. connections[conn[e][f]] = [used |-> TRUE, blkdev |-> f, client |-> handle[e]]
    BY <2>1, Zenon DEF ControlInv, AttachedAt
  <2> QED BY <1>3, <1>8, <2>4, <2>5, Zenon
<1>18. ASSUME NEW g \in ConnHandles, connections'[g].used
       PROVE  \E e \in Clients, f \in Devices : conn'[e][f] = g /\ Attached(e, f)'
  <2>1. g # h /\ connections[g].used
    BY <1>8, <1>18, Zenon
  <2>2. PICK e \in Clients, f \in Devices : conn[e][f] = g /\ Attached(e, f)
    BY <2>1, Zenon DEF ControlInv, AttachedAt
  <2>3. conn[c][d] = h
    BY Zenon DEF DetachBy
  <2> QED BY <1>3, <1>16, <2>1, <2>2, <2>3, Zenon
<1>19. AttachedAt'
  BY <1>17, <1>18, Zenon DEF AttachedAt
<1>20. DeviceRefs'
  <2>1. Of(d)' = Of(d) \ {h}
    BY <1>8, Zenon DEF Of
  <2>2. connections[h].blkdev = d
    BY DEF DetachBy
  <2>3. \A f \in Devices \ {d} : Of(f)' = Of(f)
    BY <1>8, <2>2, Zenon DEF Of
  <2>4. Cardinality(Of(d) \ {h}) = Cardinality(Of(d)) - 1
    BY <1>9, <1>10, RemoveOne, Zenon
  <2>5. cmds[1].dev = d /\ \A f \in Devices : claims'[f] = claims[f]
    BY <1>3, Zenon DEF DetachBy
  <2>6. \A f \in Devices \ {d} : opens'[f] = opens[f]
    BY <1>1, <1>9, Zenon DEF PutDev
  <2>7. opens'[d] = opens[d] - 1
    BY <1>1, <1>9, Zenon DEF PutDev
  <2>8. \A f \in Devices : opens[f] = Cardinality(Of(f)) /\ claims[f] = Cardinality(Of(f)) - Busy(f, {"detach"})
    BY <1>1, <1>9 DEF ControlInv, DeviceRefs, Busy
  <2>9. \A f \in Devices : Busy(f, {"detach"}) = IF f = d THEN 1 ELSE 0
    BY <1>1, <2>5, Zenon DEF Busy
  <2>10. \A f \in Devices, s \in {{"probe", "claim", "blocksize", "put"}, {"blocksize"}, {"detach"}} : Busy(f, s)' = 0
    BY <1>5, Zenon DEF Busy
  <2>11. \A f \in Devices : opens'[f] = Cardinality(Of(f)') /\ claims'[f] = Cardinality(Of(f)')
    <3>1. opens'[d] = Cardinality(Of(d)') /\ claims'[d] = Cardinality(Of(d)')
      BY <1>9, <2>1, <2>4, <2>5, <2>7, <2>8, <2>9, Zenon
    <3>2. ASSUME NEW f \in Devices \ {d}
          PROVE  opens'[f] = Cardinality(Of(f)') /\ claims'[f] = Cardinality(Of(f)')
      BY <1>9, <2>3, <2>5, <2>6, <2>8, <2>9
    <3> QED BY <3>1, <3>2, Zenon
  <2>12. \A f \in Devices : Cardinality(Of(f)') \in Int
    BY <1>9, <2>1, <2>3, <2>4
  <2> QED BY <2>10, <2>11, <2>12 DEF DeviceRefs
<1> QED
  BY <1>6, <1>7, <1>11, <1>12, <1>13, <1>14, <1>15, <1>19, <1>20, Zenon DEF ControlInv, TypeOK

\* detach releases the claim, puts the device and frees the caller's connection.
LEMMA DetachKeeps ==
    ASSUME Counting, ControlInv, ~oops, DetachRelease \/ DetachPut
    PROVE  ControlInv'
<1>1. cmds # <<>>
  BY Zenon DEF DetachRelease, DetachPut, Starts, At, ControlInv, HandlerAt
<1>2. Cmd = cmds[1]
  BY <1>1, Caller, Zenon
<1>3. Cmd.op = "detach"
  BY <1>2, Zenon DEF DetachRelease, DetachPut, Starts, At, ControlInv, HandlerAt
<1>4. PICK c \in Clients, d \in Devices, h \in ConnHandles : DetachBy(c, d, h)
  BY <1>1, <1>3, DetachCaller, Zenon
<1> QED
  BY <1>4, DetachReleaseKeeps, DetachPutKeeps, Zenon

\* register up to the shared page, with its failures.
LEMMA RegisterKeeps ==
    ASSUME Counting, ControlInv, ~oops, RegisterAllocate \/ RegisterSpace \/ RegisterNoPage
    PROVE  ControlInv'
<1> USE DEF ControlInv
<1>1. /\ cmds # <<>> /\ Cmd.op = "register" /\ Cmd = cmds[1] /\ step \in {"idle", "space", "page"}
  <2>1. cmds # <<>> /\ step \in {"idle", "space", "page"}
    BY Zenon DEF RegisterAllocate, RegisterSpace, RegisterNoPage, Starts, At, HandlerAt
  <2>2. Cmd = cmds[1]
    BY <2>1, Caller, Zenon
  <2> QED BY <2>2, Zenon DEF RegisterAllocate, RegisterSpace, RegisterNoPage, Starts, At,
             HandlerAt
<1>2. /\ clients \in [ClientHandles -> [used : BOOLEAN, space : BOOLEAN, shared : BOOLEAN]]
      /\ opens \in [Devices -> Nat] /\ claims \in [Devices -> Nat] /\ oops = FALSE
      /\ slot \in ClientHandles \cup {None}
  BY Zenon DEF TypeOK, ServerTypes, LinuxTypes
<1>3. ASSUME UNCHANGED <<connections, linux>>, NEW r, Reply(r), step # "page"
      PROVE  DeviceRefs' /\ MountedFree'
  BY <1>1, <1>3 DEF DeviceRefs, Of, Busy, MountedFree, Reply, linux
<1>4. CASE RegisterAllocate
  <2>1. step = "idle" /\ UNCHANGED <<connections, notify, oops, linux, handle, conn, clientSide>>
    BY <1>4, Zenon DEF RegisterAllocate, Starts
  <2>2. CASE Reply("error") /\ UNCHANGED <<clients, slot>>
    <3>1. DeviceRefs' /\ MountedFree' /\ slot' \in ClientHandles \cup {None}
      BY <1>2, <1>3, <2>1, <2>2, Zenon
    <3> QED BY <1>1, <1>2, <2>1, <2>2, <3>1, ReplyKeeps, Zenon DEF tables, linux
  <2>3. CASE /\ FreeClients # {} /\ slot' = Min(FreeClients)
             /\ clients' = [clients EXCEPT ![Min(FreeClients)].used = TRUE] /\ Goto("space")
    <3> PICK h \in ClientHandles : h = Min(FreeClients) /\ ~clients[h].used
      <4>1. FreeClients \in SUBSET Nat
        BY DEF FreeClients, ClientHandles
      <4> QED BY <2>3, <4>1, LeastIsMember, Zenon DEF FreeClients
    <3>1. slot' = h /\ clients' = [clients EXCEPT ![h].used = TRUE] /\ step' = "space" /\ UNCHANGED <<cmds, reply>>
      BY <2>3, Zenon DEF Goto
    <3>2. ~clients[h].space /\ ~clients[h].shared
      BY Zenon DEF SlotsAt
    <3>3. /\ clients' \in [ClientHandles -> [used : BOOLEAN, space : BOOLEAN, shared : BOOLEAN]]
          /\ clients'[h].used /\ ~clients'[h].space /\ ~clients'[h].shared
          /\ \A g \in ClientHandles \ {h} : clients'[g] = clients[g]
      BY <1>2, <3>1, <3>2, Zenon
    <3>4. SlotsAt'
      BY <2>1, <3>1, <3>3, Zenon DEF SlotsAt
    <3>5. HandlerAt'
      BY <1>1, <3>1, Zenon DEF HandlerAt
    <3> QED BY <1>1, <1>2, <2>1, <3>1, <3>2, <3>4, <3>5, SlotKeeps, Zenon
  <2> QED BY <1>4, <2>2, <2>3, Zenon DEF RegisterAllocate
<1>5. ASSUME step \in {"space", "page"}
      PROVE  slot \in ClientHandles /\ clients[slot].used /\ ~clients[slot].shared
  BY <1>5, Zenon DEF SlotsAt
<1>6. CASE RegisterSpace
  <2>1. step = "space" /\ UNCHANGED <<connections, notify, oops, linux, handle, conn, clientSide>>
    BY <1>6, Zenon DEF RegisterSpace, At
  <2>2. CASE Reply("error") /\ slot' = None /\ UNCHANGED clients
    <3>1. DeviceRefs' /\ MountedFree'
      BY <1>3, <2>1, <2>2, Zenon
    <3> QED BY <1>1, <1>2, <2>1, <2>2, <3>1, ReplyKeeps, Zenon DEF tables, linux
  <2>3. CASE clients' = [clients EXCEPT ![slot].space = TRUE] /\ Goto("page") /\ UNCHANGED slot
    <3> PICK h \in ClientHandles : h = slot /\ clients[h].used /\ ~clients[h].shared
      BY <1>5, <2>1, Zenon
    <3>1. slot' = h /\ clients' = [clients EXCEPT ![h].space = TRUE] /\ step' = "page" /\ UNCHANGED <<cmds, reply>>
      BY <2>3, Zenon DEF Goto
    <3>2. /\ clients' \in [ClientHandles -> [used : BOOLEAN, space : BOOLEAN, shared : BOOLEAN]]
          /\ clients'[h].used /\ clients'[h].space /\ ~clients'[h].shared
          /\ \A g \in ClientHandles \ {h} : clients'[g] = clients[g]
      BY <1>2, <3>1, Zenon
    <3>3. SlotsAt'
      BY <3>1, <3>2, Zenon DEF SlotsAt
    <3>4. HandlerAt'
      BY <2>1, <3>1, Zenon DEF HandlerAt
    <3> QED BY <1>1, <1>2, <2>1, <3>1, <3>3, <3>4, SlotKeeps, Zenon
  <2> QED BY <1>6, <2>2, <2>3, Zenon DEF RegisterSpace
<1>7. CASE RegisterNoPage
  <2> PICK h \in ClientHandles : h = slot /\ clients[h].used /\ ~clients[h].shared
    BY <1>5, <1>7, Zenon DEF RegisterNoPage
  <2>1. /\ step = "page" /\ clients' = [clients EXCEPT ![h].used = FALSE] /\ oops' = TRUE
        /\ UNCHANGED <<connections, cmds, step, slot, notify, linux, handle, conn, clientSide, reply>>
    BY <1>7, Zenon DEF RegisterNoPage, handler, client, call, clientSide
  <2>2. /\ clients' \in [ClientHandles -> [used : BOOLEAN, space : BOOLEAN, shared : BOOLEAN]]
        /\ ~clients'[h].used
        /\ \A g \in ClientHandles \ {h} : clients'[g] = clients[g]
    BY <1>2, <2>1, Zenon
  <2>3. SlotsAt' /\ HandlerAt'
    BY <2>1, <2>2, Zenon DEF SlotsAt, HandlerAt
  <2> QED BY <1>1, <2>1, <2>2, <2>3, SlotKeeps, Zenon
<1> QED
  BY <1>4, <1>6, <1>7, Zenon

\* The connection of an attached device is one of the connections to the device.
LEMMA AttachedCounted ==
    ASSUME ControlInv, NEW c \in Clients, NEW d \in Devices, Attached(c, d)
    PROVE  conn[c][d] \in Of(d)
<1>1. /\ conn[c][d] \in ConnHandles
      /\ connections[conn[c][d]] = [used |-> TRUE, blkdev |-> d, client |-> handle[c]]
  BY Zenon DEF ControlInv, AttachedAt
<1>2. connections[conn[c][d]].used /\ connections[conn[c][d]].blkdev = d
  BY <1>1
<1> QED
  BY <1>1, <1>2, Zenon DEF Of

\* A device that a client has open is open and claimed in the server's Linux, also while
\* another client's detach has released its claim and not yet freed its connection.
LEMMA HeldIsClaimed ==
    ASSUME Counting, ControlInv, NEW c \in Clients, NEW d \in Devices, Holds(c, d)
    PROVE  opens[d] > 0 /\ claims[d] > 0
<1>1. Attached(c, d)
  BY Zenon DEF Attached
<1>2. conn[c][d] \in Of(d)
  BY <1>1, AttachedCounted, Zenon
<1>3. /\ IsFiniteSet(Of(d)) /\ Cardinality(Of(d)) \in Nat /\ Cardinality(Of(d)) > 0
      /\ opens[d] \in Nat /\ claims[d] \in Nat
  <2>1. IsFiniteSet(Of(d)) /\ Cardinality(Of(d)) \in Nat
    BY OfFinite, Zenon
  <2>2. Cardinality(Of(d)) > 0
    BY <1>2, <2>1, OneCounted, Zenon
  <2> QED BY <2>1, <2>2, Zenon DEF ControlInv, TypeOK, LinuxTypes
<1>4. CASE ~ (step = "detach" /\ cmds[1].dev = d)
  BY <1>3, <1>4 DEF ControlInv, DeviceRefs, Busy
<1>5. CASE step = "detach" /\ cmds[1].dev = d
  <2>1. cmds # <<>> /\ cmds[1].op = "detach"
    BY <1>5, Zenon DEF ControlInv, HandlerAt
  <2>2. PICK e \in Clients : e = cmds[1].from
    BY <2>1, HeadIsFirst, Zenon DEF ControlInv, Commands
  <2>3. main[e] = "detach" /\ reply[e] = "none" /\ dev[e] = d
    BY <1>5, <2>1, <2>2, HeadIsFirst, Zenon DEF ControlInv, CallsQueued
  <2>4. Attached(e, d) /\ e # c
    BY <2>3 DEF ControlInv, ClientAt, Attached, Holds, Detaching
  <2>5. conn[e][d] \in Of(d) /\ conn[e][d] # conn[c][d]
    <3>1. conn[e][d] \in Of(d)
      BY <2>4, AttachedCounted, Zenon
    <3> QED BY <1>1, <2>4, <3>1, OneConnection, Zenon DEF ControlInv
  <2>6. Cardinality(Of(d)) > 1
    BY <1>2, <1>3, <2>5, TwoCounted, Zenon
  <2> QED BY <1>3, <1>5, <2>6 DEF ControlInv, DeviceRefs, Busy
<1> QED
  BY <1>4, <1>5, Zenon

\* The connections agree, the open devices are not mounted and the transfers are connected
\* in each state of the invariant.
LEMMA AgreeFromInv ==
    ASSUME Counting, ControlInv
    PROVE  ConnectionsAgree /\ NotMountedWhileOpen /\ TransfersConnected
<1>1. ConnectionsAgree
  BY Zenon DEF ControlInv, AttachedAt, Attached, ConnectionsAgree
<1>2. NotMountedWhileOpen
  <2> SUFFICES ASSUME NEW c \in Clients, NEW d \in Devices, Holds(c, d), mounted[d]
               PROVE  FALSE
    BY Zenon DEF NotMountedWhileOpen
  <2>1. claims[d] > 0 /\ claims[d] = 0
    BY HeldIsClaimed, Zenon DEF ControlInv, MountedFree
  <2> QED BY <2>1
<1>3. TransfersConnected
  <2> SUFFICES ASSUME NEW c \in Clients, NEW d \in Devices, io[c][d] \in {"posted", "started"}
               PROVE  /\ connections[ioconn[c][d]] =
                            [used |-> TRUE, blkdev |-> d, client |-> handle[c]]
                      /\ opens[d] > 0 /\ claims[d] > 0
    BY Zenon DEF ControlInv, TransfersAt, TransfersConnected
  <2>1. Holds(c, d)
    BY TransferConnection, Zenon DEF Holds
  <2> QED BY <2>1, HeldIsClaimed, TransferConnection, Zenon
<1> QED
  BY <1>1, <1>2, <1>3, Zenon

\* No client is loaded and nothing is open.
LEMMA ControlInit ==
    ASSUME Counting, Init
    PROVE  ControlInv
<1>1. TypeOK
  <2> USE ControlAssumption DEF Init
  <2>1. /\ clients \in [ClientHandles -> [used : BOOLEAN, space : BOOLEAN, shared : BOOLEAN]]
        /\ connections \in [ConnHandles -> [used : BOOLEAN, blkdev : Devices \cup {None},
                                            client : ClientHandles \cup {None}]]
    OBVIOUS
  <2>2. cmds \in Seq(Commands) /\ refcnt \in [Clients -> [Devices -> 0 .. MaxOpen]]
    OBVIOUS
  <2> QED BY <2>1, <2>2, Zenon DEF TypeOK, ServerTypes, LinuxTypes, CallTypes, ClientTypes, TransferTypes
<1>2. CallsQueued /\ HandlerAt /\ ClientAt
  BY DEF Init, CallsQueued, HandlerAt, ClientAt
<1>3. SlotsAt /\ SlotsDistinct
  BY Zenon DEF Init, SlotsAt, SlotsDistinct
<1>4. AttachedAt /\ TransfersAt /\ MountedFree
  BY DEF Init, AttachedAt, Attached, Holds, Detaching, TransfersAt, MountedFree
<1>5. DeviceRefs
  <2>1. \A d \in Devices : Of(d) = {}
    BY Zenon DEF Init, Of
  <2>2. Cardinality({}) = 0
    BY NoneCounted, Zenon
  <2>3. ASSUME NEW d \in Devices, NEW S
        PROVE  opens[d] = 0 /\ claims[d] = 0 /\ ("idle" \notin S => Busy(d, S) = 0)
    BY Zenon DEF Init, Busy
  <2>4. ASSUME NEW d \in Devices
        PROVE  /\ Busy(d, {"probe", "claim", "blocksize", "put"}) = 0
               /\ Busy(d, {"blocksize"}) = 0 /\ Busy(d, {"detach"}) = 0
    BY <2>3, Zenon
  <2> QED BY <2>1, <2>2, <2>3, <2>4 DEF DeviceRefs
<1>6. RingNotOverfilled
  <2>1. \A c \in Clients : InRing(c) = {}
    BY Zenon DEF Init, InRing
  <2> QED BY <2>1, NoneCounted, ControlAssumption DEF RingNotOverfilled
<1> QED
  BY <1>1, <1>2, <1>3, <1>4, <1>5, <1>6, Zenon DEF ControlInv

\* Every step of the clients, the handlers and the server's Linux.
LEMMA ControlStep ==
    ASSUME Counting, ControlInv, [Next]_vars
    PROVE  ControlInv'
<1>1. CASE UNCHANGED vars
  BY <1>1, StutterKeeps, Zenon
<1>2. ASSUME ~oops, Handler PROVE ControlInv'
  BY <1>2, ProbeKeeps, AttachKeeps, AttachConnects, DetachKeeps, RegisterKeeps,
     RegisterPageKeeps, ReattachKeeps, Zenon DEF Handler
<1>3. ASSUME ~oops, Notify \/ DispatchNoShared PROVE ControlInv'
  BY <1>3, VisitKeeps, Zenon
<1>4. ASSUME ~oops, NEW c \in Clients, Register(c) \/ Probe(c) \/ Unload(c) \/ Fault(c) \/ Returns(c)
      PROVE  ControlInv'
  BY <1>4, SimpleCalls, SimpleReturns, UnloadKeeps, OpenReturnsKeeps, Zenon DEF Returns
<1>5. ASSUME ~oops, NEW c \in Clients, NEW d \in Devices,
             \/ Open(c, d) \/ Release(c, d)
             \/ Request(c, d) \/ Wake(c, d) \/ Resume(c, d) \/ Finish(c, d)
             \/ Dispatch(c, d) \/ EndIo(c, d)
      PROVE  ControlInv'
  BY <1>5, OpenKeeps, ReleaseKeeps, TransferSteps, Zenon
<1>6. ASSUME NEW d \in Devices, Mount(d) \/ Unmount(d) PROVE ControlInv'
  BY <1>6, MountKeeps, Zenon
<1> QED
  BY <1>1, <1>2, <1>3, <1>4, <1>5, <1>6, Zenon DEF Next

INSTANCE FiniteSetTheorems

\* A handle search returns a free handle.
LEMMA MinIsMember ==
    ASSUME NEW S \in SUBSET Nat, S # {}
    PROVE  Min(S) \in S
<1> DEFINE less == OpToRel(<, Nat)
<1> HIDE DEF less
<1>1. \E x \in S : \A y \in S : ~ (<<y, x>> \in less)
  <2>1. IsWellFoundedOn(less, Nat)
    BY NatLessThanWellFounded, Zenon DEF less
  <2> QED
    BY <2>1, WFMin, Zenon
<1>2. PICK x \in S : \A y \in S : ~ (<<y, x>> \in less)
  BY <1>1, Zenon
<1>3. \A y \in S : ~ (y < x)
  BY <1>2, Zenon DEF OpToRel, less
<1>4. \A y \in S : x <= y
  BY <1>3
<1> QED
  BY <1>4, Zenon DEF Min

\* The library's facts about finite sets.
LEMMA FiniteSetFacts == Counting
<1>1. \A n \in Nat : IsFiniteSet(0 .. n - 1)
  BY FS_Interval
<1>2. \A S : IsFiniteSet(S) => Cardinality(S) \in Nat
  BY FS_CardinalityType, Zenon
<1>3. \A S : IsFiniteSet(S) =>
         \A T \in SUBSET S : IsFiniteSet(T) /\ Cardinality(T) <= Cardinality(S)
  BY FS_Subset, Zenon
<1>4. \A S, x : IsFiniteSet(S) /\ x \notin S => Cardinality(S \cup {x}) = Cardinality(S) + 1
  BY FS_AddElement, Zenon
<1>5. \A S, x : IsFiniteSet(S) /\ x \in S => Cardinality(S \ {x}) = Cardinality(S) - 1
  BY FS_RemoveElement, Zenon
<1> QED
  BY <1>1, <1>2, <1>3, <1>4, <1>5, FS_EmptySet, MinIsMember, Zenon DEF Counting

\* ControlInv holds in every state of the control interface, for every number of
\* clients, devices, slots, connections and openers: each handler of server.c, on each
\* of its error paths, keeps the tables, the devices and the clients in agreement.
THEOREM ControlAlways == Spec => []ControlInv
<1>1. Init => ControlInv
  BY FiniteSetFacts, ControlInit, Zenon
<1>2. ControlInv /\ [Next]_vars => ControlInv'
  BY FiniteSetFacts, ControlStep, Zenon
<1> QED
  BY <1>1, <1>2, PTL DEF Spec

\* Every path of the handlers of server.c leaves a device with one open and one claim for
\* each connection to it (blkdev_get and bd_claim against blkdev_put and bd_release).
COROLLARY DeviceRefsAlways == Spec => []DeviceRefs
<1>1. ControlInv => DeviceRefs
  BY Zenon DEF ControlInv
<1> QED
  BY <1>1, ControlAlways, PTL

\* A device that a client's L4VMblock_open left open is a connection of the server in the
\* client's name, and no connection is left that no client will detach.
COROLLARY ConnectionsAgreeAlways == Spec => []ConnectionsAgree
<1>1. ControlInv => ConnectionsAgree
  BY FiniteSetFacts, AgreeFromInv, Zenon
<1> QED
  BY <1>1, ControlAlways, PTL

\* The claim that attach takes keeps the server's Linux from mounting a device that a
\* client has open.
COROLLARY NotMountedWhileOpenAlways == Spec => []NotMountedWhileOpen
<1>1. ControlInv => NotMountedWhileOpen
  BY FiniteSetFacts, AgreeFromInv, Zenon
<1> QED
  BY <1>1, ControlAlways, PTL

\* Loaded clients have slots of their own, with their pages, and none of them panics.
COROLLARY SlotsDistinctAlways == Spec => []SlotsDistinct
<1>1. ControlInv => SlotsDistinct
  BY DEF ControlInv
<1> QED
  BY <1>1, ControlAlways, PTL

\* A transfer's connection is there when end_io asks for it, and its device is open and
\* claimed: no descriptor is left behind.
COROLLARY TransfersConnectedAlways == Spec => []TransfersConnected
<1>1. ControlInv => TransfersConnected
  BY FiniteSetFacts, AgreeFromInv, Zenon
<1> QED
  BY <1>1, ControlAlways, PTL

\* The request queues of one client never put more into its ring than it holds.
COROLLARY RingNotOverfilledAlways == Spec => []RingNotOverfilled
<1>1. ControlInv => RingNotOverfilled
  BY Zenon DEF ControlInv
<1> QED
  BY <1>1, ControlAlways, PTL

=============================================================================
