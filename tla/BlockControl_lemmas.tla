------------------------ MODULE BlockControl_lemmas -------------------------
(***************************************************************************)
(* Lemmas for BlockControl_proof: the queue of calls, the steps of the clients *)
(* other than transfers, the tasklet and the handlers that count no        *)
(* connections keep ControlInv.                                            *)
(***************************************************************************)
EXTENDS BlockControl, TLAPS

-----------------------------------------------------------------------------
(* The variables each conjunct of the invariant depends on. *)

\* The queue of calls.
LEMMA CallsQueuedFrame ==
    ASSUME CallsQueued, UNCHANGED <<cmds, main, reply, dev, handle, conn>> PROVE CallsQueued'
  BY DEF CallsQueued

\* The place of the handlers.
LEMMA HandlerAtFrame ==
    ASSUME HandlerAt, UNCHANGED <<cmds, step>> PROVE HandlerAt'
  BY Zenon DEF HandlerAt

\* The place of the clients.
LEMMA ClientAtFrame ==
    ASSUME ClientAt, UNCHANGED <<main, reply, dev, handle, refcnt>> PROVE ClientAt'
  BY DEF ClientAt

\* The slots in registration.
LEMMA SlotsAtFrame ==
    ASSUME SlotsAt, UNCHANGED <<clients, step, slot, oops>> PROVE SlotsAt'
  BY DEF SlotsAt

\* The slots of the loaded clients.
LEMMA SlotsDistinctFrame ==
    ASSUME SlotsDistinct, UNCHANGED <<clients, main, handle>> PROVE SlotsDistinct'
  BY Zenon DEF SlotsDistinct

\* The connections.
LEMMA AttachedAtFrame ==
    ASSUME AttachedAt, UNCHANGED <<connections, main, reply, dev, handle, refcnt, conn>>
    PROVE  AttachedAt'
  BY DEF AttachedAt, Attached, Holds, Detaching

\* The transfers.
LEMMA TransfersAtFrame ==
    ASSUME TransfersAt, UNCHANGED <<io, ioconn, refcnt, conn>> PROVE TransfersAt'
  BY Zenon DEF TransfersAt

\* The counts of the devices.
LEMMA DeviceRefsFrame ==
    ASSUME DeviceRefs, UNCHANGED <<opens, claims, connections, cmds, step>> PROVE DeviceRefs'
  BY DEF DeviceRefs, Of, Busy

\* The mounts of the server's Linux.
LEMMA MountedFreeFrame ==
    ASSUME MountedFree, UNCHANGED <<claims, mounted>> PROVE MountedFree'
  BY Zenon DEF MountedFree

\* The rings.
LEMMA RingNotOverfilledFrame ==
    ASSUME RingNotOverfilled, UNCHANGED io PROVE RingNotOverfilled'
  BY Zenon DEF RingNotOverfilled, InRing

\* The counts see of the queue only the command being handled.
LEMMA DeviceRefsQueue ==
    ASSUME DeviceRefs, HandlerAt, UNCHANGED <<opens, claims, connections, step>>,
           cmds # <<>> => cmds'[1] = cmds[1]
    PROVE  DeviceRefs'
  BY DEF DeviceRefs, Of, Busy, HandlerAt

\* A step that changes nothing.
LEMMA StutterKeeps ==
    ASSUME ControlInv, UNCHANGED vars
    PROVE  ControlInv'
<1>1. UNCHANGED <<clients, connections, cmds, step, slot, notify, oops, opens, claims, mounted>>
  BY DEF vars, tables, handler, linux
<1>2. UNCHANGED <<main, reply, dev, handle, todo, disks, refcnt, conn, io, ioconn>>
  BY DEF vars, client, call, transfer
<1>3. TypeOK'
  BY <1>1, <1>2, Zenon DEF ControlInv, TypeOK, ServerTypes, LinuxTypes, CallTypes, ClientTypes, TransferTypes
<1>4. CallsQueued' /\ HandlerAt' /\ ClientAt' /\ SlotsAt' /\ SlotsDistinct' /\ AttachedAt'
  BY <1>1, <1>2, CallsQueuedFrame, HandlerAtFrame, ClientAtFrame, SlotsAtFrame, SlotsDistinctFrame,
     AttachedAtFrame DEF ControlInv
<1>5. TransfersAt' /\ DeviceRefs' /\ MountedFree' /\ RingNotOverfilled'
  BY <1>1, <1>2, TransfersAtFrame, DeviceRefsFrame, MountedFreeFrame, RingNotOverfilledFrame
  DEF ControlInv
<1> QED
  BY <1>3, <1>4, <1>5, Zenon DEF ControlInv

\* A call or an answer that attaches and detaches nothing.
LEMMA AttachedAtSame ==
    ASSUME AttachedAt, UNCHANGED <<connections, handle, conn>>,
           \A e \in Clients, f \in Devices : Attached(e, f)' <=> Attached(e, f)
    PROVE  AttachedAt'
  BY DEF AttachedAt

-----------------------------------------------------------------------------
(* The steps. *)

\* The command being handled is the first of the queue.
LEMMA HeadIsFirst ==
    ASSUME TypeOK, cmds # <<>>
    PROVE  Cmd = cmds[1] /\ Cmd \in Commands /\ 1 \in 1 .. Len(cmds)
  BY DEF TypeOK, ServerTypes, LinuxTypes, CallTypes, ClientTypes, TransferTypes, Cmd

\* A client with an attached device has a handle.
LEMMA AttachedHasHandle ==
    ASSUME TypeOK, ClientAt, NEW c \in Clients, NEW d \in Devices, Attached(c, d)
    PROVE  handle[c] \in ClientHandles
  BY DEF TypeOK, ServerTypes, LinuxTypes, CallTypes, ClientTypes, TransferTypes, ClientAt, Attached, Holds, Detaching

\* A connection is of one client and one device.
LEMMA OneConnection ==
    ASSUME TypeOK, ClientAt, SlotsDistinct, AttachedAt,
           NEW c \in Clients, NEW d \in Devices, Attached(c, d),
           NEW e \in Clients, NEW f \in Devices, Attached(e, f), conn[c][d] = conn[e][f]
    PROVE  c = e /\ d = f
<1>1. handle[c] \in ClientHandles
  BY AttachedHasHandle, Zenon
<1>2. /\ connections[conn[c][d]] = [used |-> TRUE, blkdev |-> d, client |-> handle[c]]
      /\ connections[conn[e][f]] = [used |-> TRUE, blkdev |-> f, client |-> handle[e]]
  BY Zenon DEF AttachedAt
<1>3. d = f /\ handle[c] = handle[e]
  BY <1>2
<1> QED
  BY <1>1, <1>3, ControlAssumption DEF SlotsDistinct, ClientHandles

\* The server thread appends the call of a client that has none in the queue.
LEMMA QueueCall ==
    ASSUME TypeOK, CallsQueued, HandlerAt, ClientAt, NEW c \in Clients,
           NEW op \in {"register", "probe", "attach", "detach", "reattach"},
           NEW d \in Devices \cup {None}, NEW h \in ClientHandles \cup ConnHandles \cup {None},
           main[c] \in {"out", "idle"}, Call(c, op, d, h),
           op \in {"attach", "reattach"} => h = handle[c],
           op = "detach" => h = conn[c][d],
           UNCHANGED <<step, handle, conn>>
    PROVE  /\ cmds' \in Seq(Commands) /\ CallsQueued' /\ HandlerAt'
           /\ cmds # <<>> => cmds'[1] = cmds[1]
<1> DEFINE m == [op |-> op, from |-> c, dev |-> d, h |-> h]
<1>1. m \in Commands /\ cmds \in Seq(Commands) /\ cmds' = Append(cmds, m)
  BY Zenon DEF Commands, TypeOK, ServerTypes, Call
<1>2. /\ cmds' \in Seq(Commands) /\ Len(cmds') = Len(cmds) + 1 /\ Len(cmds) \in Nat
      /\ \A i \in 1 .. Len(cmds) : cmds'[i] = cmds[i]
      /\ cmds'[Len(cmds) + 1] = m
  <2> HIDE DEF m
  <2> QED BY <1>1
<1>3. cmds # <<>> => cmds'[1] = cmds[1]
  BY <1>2
<1>4. \A i \in 1 .. Len(cmds) : cmds[i] \in Commands /\ cmds[i].from # c
  <2>1. \A i \in 1 .. Len(cmds) : cmds[i] \in Commands /\ main[cmds[i].from] = cmds[i].op
    BY <1>1 DEF CallsQueued
  <2> QED BY <2>1, Zenon DEF Commands
<1>5. CallsQueued'
  <2>1. \A i \in 1 .. Len(cmds') : i \in 1 .. Len(cmds) \/ i = Len(cmds) + 1
    BY <1>2
  <2>2. ASSUME NEW i \in 1 .. Len(cmds')
        PROVE  /\ main'[cmds'[i].from] = cmds'[i].op
               /\ reply'[cmds'[i].from] = "none" /\ dev'[cmds'[i].from] = cmds'[i].dev
               /\ cmds'[i].op \in {"attach", "reattach"} => cmds'[i].h = handle'[cmds'[i].from]
               /\ cmds'[i].op = "detach" => cmds'[i].h = conn'[cmds'[i].from][cmds'[i].dev]
    <3>1. CASE i \in 1 .. Len(cmds)
      BY <3>1, <1>4 DEF CallsQueued, Call
    <3>2. CASE i = Len(cmds) + 1
      BY <3>2 DEF ClientAt, Call, TypeOK, CallTypes
    <3> QED BY <2>1, <3>1, <3>2, Zenon
  <2>3. ASSUME NEW i \in 1 .. Len(cmds'), NEW j \in 1 .. Len(cmds'), cmds'[i].from = cmds'[j].from
        PROVE  i = j
    BY <2>3, <1>2, <1>4 DEF CallsQueued
  <2> QED BY <2>2, <2>3, Zenon DEF CallsQueued
<1>6. HandlerAt'
  BY <1>2 DEF HandlerAt
<1> QED
  BY <1>2, <1>5, <1>6

\* An answered call leaves the queue; the others stay.
LEMMA QueueReply ==
    ASSUME TypeOK, CallsQueued, cmds # <<>>, NEW r \in {"ok", "error"}, Reply(r),
           UNCHANGED <<main, dev>>,
           \A e \in Clients \ {Cmd.from} : handle'[e] = handle[e] /\ conn'[e] = conn[e]
    PROVE  /\ cmds' \in Seq(Commands) /\ CallsQueued' /\ HandlerAt'
           /\ reply' \in [Clients -> {"none", "ok", "error"}]
<1>1. Cmd = cmds[1] /\ Cmd \in Commands /\ cmds' = Tail(cmds)
  BY HeadIsFirst, Zenon DEF Reply
<1>2. /\ cmds' \in Seq(Commands) /\ Len(cmds') = Len(cmds) - 1 /\ Len(cmds) \in Nat \ {0}
      /\ \A i \in 1 .. Len(cmds') : i + 1 \in 1 .. Len(cmds) /\ cmds'[i] = cmds[i + 1]
  <2>1. cmds \in Seq(Commands)
    BY Zenon DEF TypeOK, ServerTypes
  <2> QED BY <1>1, <2>1
<1>3. \A i \in 1 .. Len(cmds') : cmds'[i] \in Commands /\ cmds'[i].from \in Clients \ {Cmd.from}
  <2> SUFFICES ASSUME NEW i \in 1 .. Len(cmds')
               PROVE  cmds'[i] \in Commands /\ cmds'[i].from \in Clients \ {Cmd.from}
    OBVIOUS
  <2>1. cmds'[i] \in Commands /\ i + 1 # 1 /\ 1 \in 1 .. Len(cmds)
    BY <1>2
  <2>2. cmds[i + 1].from # cmds[1].from
    BY <1>2 DEF CallsQueued
  <2> QED BY <1>1, <2>1, <2>2 DEF Commands
<1>4. ASSUME NEW i \in 1 .. Len(cmds')
      PROVE  /\ main'[cmds'[i].from] = cmds'[i].op
             /\ reply'[cmds'[i].from] = "none" /\ dev'[cmds'[i].from] = cmds'[i].dev
             /\ cmds'[i].op \in {"attach", "reattach"} => cmds'[i].h = handle'[cmds'[i].from]
             /\ cmds'[i].op = "detach" => cmds'[i].h = conn'[cmds'[i].from][cmds'[i].dev]
  <2>1. reply'[cmds'[i].from] = reply[cmds'[i].from]
    BY <1>3 DEF Reply
  <2> QED BY <1>2, <1>3, <2>1 DEF CallsQueued
<1>5. ASSUME NEW i \in 1 .. Len(cmds'), NEW j \in 1 .. Len(cmds'), cmds'[i].from = cmds'[j].from
      PROVE  i = j
  BY <1>2, <1>5 DEF CallsQueued
<1>6. CallsQueued'
  BY <1>4, <1>5, Zenon DEF CallsQueued
<1> QED
  BY <1>1, <1>2, <1>6, Zenon DEF HandlerAt, Reply, TypeOK, CallTypes, Commands

\* A client that uses an answer has no call in the queue.
LEMMA QueueAnswered ==
    ASSUME TypeOK, CallsQueued, HandlerAt, NEW c \in Clients, NEW op, NEW pc,
           Answered(c, op, pc), UNCHANGED <<cmds, step, handle, conn>>
    PROVE  CallsQueued' /\ HandlerAt'
<1>1. \A i \in 1 .. Len(cmds) : cmds[i] \in Commands /\ cmds[i].from # c
  BY DEF TypeOK, ServerTypes, CallsQueued, Answered
<1>2. \A e \in Clients \ {c} : main'[e] = main[e] /\ reply'[e] = reply[e] /\ dev'[e] = dev[e]
  BY DEF Answered
<1>3. \A i \in 1 .. Len(cmds) : cmds[i].from \in Clients \ {c}
  BY <1>1, Zenon DEF Commands
<1> QED
  BY <1>2, <1>3 DEF CallsQueued, HandlerAt

\* A call other than detach: only the queue and the state of the call change.
LEMMA CallKeeps ==
    ASSUME ControlInv, NEW c \in Clients, NEW op \in {"register", "probe", "attach", "reattach"},
           NEW d \in Devices \cup {None}, NEW h \in ClientHandles \cup ConnHandles \cup {None},
           Call(c, op, d, h),
           main[c] = (IF op = "register" THEN "out" ELSE "idle"),
           op \in {"attach", "reattach"} => h = handle[c],
           op \in {"probe", "attach"} => d \in Devices,
           op = "attach" => refcnt[c][d] = 0,
           UNCHANGED <<tables, step, slot, notify, oops, linux, client, transfer>>
    PROVE  ControlInv'
<1> USE DEF ControlInv, tables, linux, client, transfer
<1>1. /\ cmds' \in Seq(Commands) /\ CallsQueued' /\ HandlerAt'
      /\ cmds # <<>> => cmds'[1] = cmds[1]
  BY QueueCall, Zenon
<1>2. /\ main' = [main EXCEPT ![c] = op] /\ dev' = [dev EXCEPT ![c] = d] /\ reply' = reply
      /\ reply[c] = "none"
  BY Zenon DEF Call, ClientAt
<1>3. TypeOK'
  BY <1>1, <1>2 DEF TypeOK, ServerTypes, LinuxTypes, CallTypes, ClientTypes, TransferTypes
<1>4. ClientAt'
  BY <1>2 DEF ClientAt, TypeOK, CallTypes
<1>5. SlotsAt' /\ TransfersAt' /\ MountedFree'
  BY SlotsAtFrame, TransfersAtFrame, MountedFreeFrame, Zenon
<1>6. SlotsDistinct'
  BY <1>2 DEF SlotsDistinct
<1>7. AttachedAt'
  <2>1. \A e \in Clients, f \in Devices : Attached(e, f)' <=> Attached(e, f)
    BY <1>2 DEF Attached, Holds, Detaching
  <2> QED BY <2>1, AttachedAtSame, Zenon
<1>8. DeviceRefs'
  BY <1>1, DeviceRefsQueue, Zenon
<1>9. RingNotOverfilled'
  BY RingNotOverfilledFrame, Zenon
<1> QED
  BY <1>1, <1>3, <1>4, <1>5, <1>6, <1>7, <1>8, <1>9, Zenon

\* The answer to a call that changes nothing but the state of the call.
LEMMA AnsweredKeeps ==
    ASSUME ControlInv, NEW c \in Clients, NEW op \in {"register", "probe", "detach", "reattach"},
           NEW pc \in {"out", "idle"}, Answered(c, op, pc),
           pc = "out" <=> op = "register" /\ reply[c] # "ok",
           todo' \in [Clients -> SUBSET Devices], disks' \in [Clients -> SUBSET Devices],
           UNCHANGED <<tables, handler, notify, oops, linux, handle, refcnt, conn, transfer>>
    PROVE  ControlInv'
<1> USE DEF ControlInv, tables, handler, linux, transfer
<1>1. CallsQueued' /\ HandlerAt'
  BY QueueAnswered, Zenon
<1>2. /\ main' = [main EXCEPT ![c] = pc] /\ dev' = [dev EXCEPT ![c] = None]
      /\ reply' = [reply EXCEPT ![c] = "none"] /\ main[c] = op /\ reply[c] # "none"
  BY Zenon DEF Answered
<1>3. TypeOK'
  BY <1>2, Zenon DEF TypeOK, ServerTypes, LinuxTypes, CallTypes, ClientTypes, TransferTypes
<1>4. ClientAt'
  BY <1>2 DEF ClientAt, TypeOK, CallTypes
<1>5. SlotsAt' /\ TransfersAt' /\ MountedFree'
  BY SlotsAtFrame, TransfersAtFrame, MountedFreeFrame, Zenon
<1>6. SlotsDistinct'
  BY <1>2 DEF SlotsDistinct
<1>7. AttachedAt'
  <2>1. \A e \in Clients, f \in Devices : Attached(e, f)' <=> Attached(e, f)
    BY <1>2 DEF Attached, Holds, Detaching, TypeOK, CallTypes
  <2> QED BY <2>1, AttachedAtSame, Zenon
<1>8. DeviceRefs'
  BY DeviceRefsFrame, Zenon
<1>9. RingNotOverfilled'
  BY RingNotOverfilledFrame, Zenon
<1> QED
  BY <1>1, <1>3, <1>4, <1>5, <1>6, <1>7, <1>8, <1>9, Zenon

\* The calls of init_module and dspace_handler.
LEMMA SimpleCalls ==
    ASSUME ControlInv, NEW c \in Clients, Register(c) \/ Probe(c) \/ Fault(c)
    PROVE  ControlInv'
<1> USE DEF ControlInv
<1>1. handle[c] \in ClientHandles \cup {None} /\ todo[c] \subseteq Devices
  BY Zenon DEF TypeOK, ClientTypes
<1>2. CASE Register(c)
  BY <1>2, CallKeeps, Zenon DEF Register
<1>3. CASE Probe(c)
  <2>1. PICK d \in todo[c] : Call(c, "probe", d, None)
    BY <1>3, Zenon DEF Probe
  <2> QED BY <1>1, <1>3, CallKeeps, Zenon DEF Probe
<1>4. CASE Fault(c)
  BY <1>1, <1>4, CallKeeps, Zenon DEF Fault, Ready
<1> QED
  BY <1>2, <1>3, <1>4, Zenon

\* The answers to calls other than attach.
LEMMA SimpleReturns ==
    ASSUME ControlInv, NEW c \in Clients, NEW disk \in BOOLEAN,
           \/ RegisterReturns(c) \/ ReleaseReturns(c) \/ FaultReturns(c) \/ ProbeReturns(c, disk)
    PROVE  ControlInv'
<1> USE DEF ControlInv
<1>1. CASE RegisterReturns(c)
  <2>1. todo' \in [Clients -> SUBSET Devices] /\ disks' \in [Clients -> SUBSET Devices]
    BY <1>1, ControlAssumption, Zenon DEF RegisterReturns, TypeOK, ClientTypes
  <2> QED BY <1>1, <2>1, AnsweredKeeps, Zenon DEF RegisterReturns
<1>2. CASE ReleaseReturns(c)
  BY <1>2, AnsweredKeeps, Zenon DEF ReleaseReturns, client, TypeOK, ClientTypes
<1>3. CASE FaultReturns(c)
  <2>1. reply[c] = "ok"
    BY <1>3, Zenon DEF FaultReturns, Answered, ClientAt, TypeOK, CallTypes
  <2> QED BY <1>3, <2>1, AnsweredKeeps, Zenon DEF FaultReturns, client, TypeOK, ClientTypes
<1>4. CASE ProbeReturns(c, disk)
  <2>1. main[c] = "probe" /\ dev[c] \in Devices
    BY <1>4, Zenon DEF ProbeReturns, Answered, ClientAt
  <2>2. todo' \in [Clients -> SUBSET Devices] /\ disks' \in [Clients -> SUBSET Devices]
    BY <1>4, <2>1 DEF ProbeReturns, TypeOK, ClientTypes
  <2> QED BY <1>4, <2>2, AnsweredKeeps, Zenon DEF ProbeReturns
<1> QED
  BY <1>1, <1>2, <1>3, <1>4, Zenon

\* The driver goes.
LEMMA UnloadKeeps ==
    ASSUME ControlInv, NEW c \in Clients, Unload(c)
    PROVE  ControlInv'
<1> USE DEF ControlInv, tables, handler, linux, transfer
<1>1. /\ main[c] = "idle" /\ main' = [main EXCEPT ![c] = "out"] /\ UNCHANGED <<reply, dev, refcnt>>
      /\ handle' = [handle EXCEPT ![c] = None]
      /\ conn' = [conn EXCEPT ![c] = [d \in Devices |-> None]]
      /\ \A d \in Devices : refcnt[c][d] = 0 /\ io[c][d] = "none"
  BY Zenon DEF Unload
<1>2. UNCHANGED <<tables, handler, notify, oops, linux, transfer>>
  BY Zenon DEF Unload
<1>3. TypeOK'
  BY Zenon DEF Unload, TypeOK, ServerTypes, LinuxTypes, CallTypes, ClientTypes, TransferTypes
<1>4. CallsQueued' /\ HandlerAt'
  <2>1. \A i \in 1 .. Len(cmds) : cmds[i] \in Commands /\ cmds[i].from # c
    <3>1. \A i \in 1 .. Len(cmds) : cmds[i] \in Commands /\ main[cmds[i].from] = cmds[i].op
      BY DEF TypeOK, ServerTypes, CallsQueued
    <3> QED BY <1>1, <3>1, Zenon DEF Commands
  <2> QED BY <1>1, <1>2, <2>1 DEF CallsQueued, HandlerAt
<1>5. ClientAt'
  BY <1>1 DEF ClientAt, TypeOK, CallTypes, ClientTypes
<1>6. SlotsAt' /\ MountedFree' /\ TransfersAt'
  <2>1. TransfersAt'
    BY <1>1, <1>2 DEF TransfersAt
  <2> QED BY <1>2, <2>1, SlotsAtFrame, MountedFreeFrame, Zenon
<1>7. SlotsDistinct'
  BY <1>1, <1>2 DEF SlotsDistinct
<1>8. AttachedAt'
  <2>1. \A e \in Clients, f \in Devices : Attached(e, f)' <=> Attached(e, f)
    BY <1>1 DEF Attached, Holds, Detaching
  <2>2. \A f \in Devices : ~ Attached(c, f)
    BY <1>1 DEF Attached, Holds, Detaching
  <2> QED BY <1>1, <1>2, <2>1, <2>2 DEF AttachedAt
<1>9. DeviceRefs' /\ RingNotOverfilled'
  BY <1>2, DeviceRefsFrame, RingNotOverfilledFrame, Zenon
<1> QED
  BY <1>3, <1>4, <1>5, <1>6, <1>7, <1>8, <1>9, Zenon

\* An answered attach makes the device open.
LEMMA OpenReturnsKeeps ==
    ASSUME ControlInv, NEW c \in Clients, OpenReturns(c)
    PROVE  ControlInv'
<1> USE DEF ControlInv, tables, handler, linux, transfer
<1>1. /\ main[c] = "attach" /\ main' = [main EXCEPT ![c] = "idle"] /\ reply[c] # "none"
      /\ reply' = [reply EXCEPT ![c] = "none"] /\ dev' = [dev EXCEPT ![c] = None]
      /\ refcnt' = [refcnt EXCEPT ![c][dev[c]] = IF reply[c] = "ok" THEN @ + 1 ELSE @]
  BY Zenon DEF OpenReturns, Answered
<1>2. UNCHANGED <<tables, handler, notify, oops, linux, handle, todo, disks, conn, transfer>>
  BY Zenon DEF OpenReturns
<1>3. dev[c] \in Devices /\ refcnt[c][dev[c]] = 0
  BY <1>1, Zenon DEF ClientAt
<1>4. TypeOK'
  BY <1>1, <1>2, <1>3, ControlAssumption DEF TypeOK, ServerTypes, LinuxTypes, CallTypes, ClientTypes, TransferTypes
<1>5. CallsQueued' /\ HandlerAt'
  BY QueueAnswered, Zenon DEF OpenReturns
<1>6. ClientAt'
  BY <1>1, <1>2 DEF ClientAt, TypeOK, CallTypes
<1>7. SlotsAt' /\ MountedFree'
  BY <1>2, SlotsAtFrame, MountedFreeFrame, Zenon
<1>8. TransfersAt'
  BY <1>1, <1>2, <1>3 DEF TransfersAt
<1>9. SlotsDistinct'
  BY <1>1, <1>2 DEF SlotsDistinct
<1>10. AttachedAt'
  <2>1. \A e \in Clients, f \in Devices : Attached(e, f)' <=> Attached(e, f)
    BY <1>1 DEF Attached, Holds, Detaching, TypeOK, CallTypes, ClientTypes
  <2> QED BY <1>2, <2>1, AttachedAtSame, Zenon
<1>11. DeviceRefs' /\ RingNotOverfilled'
  BY <1>2, DeviceRefsFrame, RingNotOverfilledFrame, Zenon
<1> QED
  BY <1>4, <1>5, <1>6, <1>7, <1>8, <1>9, <1>10, <1>11, Zenon

\* Another opener, or one of several that closes.
LEMMA CountKeeps ==
    ASSUME ControlInv, NEW c \in Clients, NEW d \in Devices, NEW n \in 1 .. MaxOpen,
           refcnt[c][d] > 0, refcnt' = [refcnt EXCEPT ![c][d] = n], main[c] = "idle",
           UNCHANGED <<tables, handler, notify, oops, linux, handle, todo, disks, conn, call, transfer>>
    PROVE  ControlInv'
<1> USE DEF ControlInv, tables, handler, linux, call, transfer
<1>1. TypeOK'
  BY DEF TypeOK, ServerTypes, LinuxTypes, CallTypes, ClientTypes, TransferTypes
<1>2. CallsQueued' /\ HandlerAt' /\ SlotsAt' /\ SlotsDistinct'
  BY CallsQueuedFrame, HandlerAtFrame, SlotsAtFrame, SlotsDistinctFrame, Zenon
<1>3. ClientAt'
  BY DEF ClientAt
<1>4. AttachedAt'
  <2>1. \A e \in Clients, f \in Devices : Attached(e, f)' <=> Attached(e, f)
    BY DEF Attached, Holds, Detaching
  <2> QED BY <2>1, AttachedAtSame, Zenon
<1>5. TransfersAt'
  BY DEF TransfersAt
<1>6. DeviceRefs' /\ MountedFree' /\ RingNotOverfilled'
  BY DeviceRefsFrame, MountedFreeFrame, RingNotOverfilledFrame, Zenon
<1> QED
  BY <1>1, <1>2, <1>3, <1>4, <1>5, <1>6, Zenon

\* The first opener calls attach, another is counted.
LEMMA OpenKeeps ==
    ASSUME ControlInv, NEW c \in Clients, NEW d \in Devices, Open(c, d)
    PROVE  ControlInv'
<1>1. /\ main[c] = "idle" /\ handle[c] \in ClientHandles \cup {None}
      /\ refcnt[c][d] \in 0 .. MaxOpen /\ refcnt[c][d] < MaxOpen
  BY DEF Open, Ready, ControlInv, TypeOK, ClientTypes
<1>2. CASE refcnt[c][d] = 0
  BY <1>1, <1>2, CallKeeps DEF Open
<1>3. CASE refcnt[c][d] > 0
  <2>1. refcnt[c][d] + 1 \in 1 .. MaxOpen
    BY <1>1, ControlAssumption
  <2>2. refcnt' = [refcnt EXCEPT ![c][d] = refcnt[c][d] + 1]
    BY <1>3 DEF Open
  <2>3. UNCHANGED <<tables, handler, notify, oops, linux, handle, todo, disks, conn, call, transfer>>
    BY <1>3 DEF Open, handler
  <2> QED BY <1>1, <1>3, <2>1, <2>2, <2>3, CountKeeps, Zenon
<1> QED
  BY <1>1, <1>2, <1>3

\* The last release leaves the connection to the detach it calls.
LEMMA ReleaseKeeps ==
    ASSUME ControlInv, NEW c \in Clients, NEW d \in Devices, Release(c, d)
    PROVE  ControlInv'
<1>1. /\ main[c] = "idle" /\ refcnt[c][d] \in 1 .. MaxOpen
      /\ refcnt' = [refcnt EXCEPT ![c][d] = refcnt[c][d] - 1]
  BY DEF Release, Ready, ControlInv, TypeOK, ClientTypes
<1>2. CASE refcnt[c][d] > 1
  <2>1. refcnt[c][d] - 1 \in 1 .. MaxOpen /\ refcnt[c][d] > 0
    BY <1>1, <1>2, ControlAssumption
  <2>2. UNCHANGED <<tables, handler, notify, oops, linux, handle, todo, disks, conn, call, transfer>>
    BY <1>2 DEF Release, handler
  <2> QED BY <1>1, <2>1, <2>2, CountKeeps, Zenon
<1>3. CASE refcnt[c][d] = 1
  <2> USE DEF ControlInv, tables, linux, transfer
  <2>1. /\ Call(c, "detach", d, conn[c][d]) /\ io[c][d] = "none"
        /\ UNCHANGED <<tables, step, slot, notify, oops, linux, handle, todo, disks, conn, transfer>>
    BY <1>3 DEF Release, Drained
  <2>2. /\ cmds' \in Seq(Commands) /\ CallsQueued' /\ HandlerAt'
        /\ cmds # <<>> => cmds'[1] = cmds[1]
    <3>1. conn[c][d] \in ClientHandles \cup ConnHandles \cup {None}
      BY Zenon DEF TypeOK, ClientTypes
    <3> QED BY <1>1, <2>1, <3>1, QueueCall, Zenon
  <2>3. /\ main' = [main EXCEPT ![c] = "detach"] /\ dev' = [dev EXCEPT ![c] = d]
        /\ reply' = reply /\ reply[c] = "none"
        /\ refcnt' = [refcnt EXCEPT ![c][d] = 0]
    BY <1>1, <1>3, <2>1 DEF Call, ClientAt
  <2>4. TypeOK'
    BY <2>1, <2>2, <2>3, ControlAssumption DEF TypeOK, ServerTypes, LinuxTypes, CallTypes, ClientTypes, TransferTypes
  <2>5. ClientAt'
    BY <1>1, <2>1, <2>3 DEF ClientAt, TypeOK, ServerTypes, CallTypes, ClientTypes
  <2>6. SlotsAt' /\ MountedFree'
    BY <2>1, SlotsAtFrame, MountedFreeFrame, Zenon
  <2>7. TransfersAt'
    BY <2>1, <2>3 DEF TransfersAt
  <2>8. SlotsDistinct'
    BY <2>1, <2>3 DEF SlotsDistinct
  <2>9. AttachedAt'
    <3>1. \A e \in Clients, f \in Devices : Attached(e, f)' <=> Attached(e, f)
      BY <1>1, <2>3 DEF Attached, Holds, Detaching, TypeOK, CallTypes
    <3> QED BY <2>1, <3>1, AttachedAtSame, Zenon
  <2>10. DeviceRefs'
    BY <2>1, <2>2, DeviceRefsQueue, Zenon
  <2>11. RingNotOverfilled'
    BY <2>1, RingNotOverfilledFrame, Zenon
  <2> QED
    BY <2>2, <2>4, <2>5, <2>6, <2>7, <2>8, <2>9, <2>10, <2>11, Zenon
<1> QED
  BY <1>1, <1>2, <1>3

\* The connection of a transfer that the server has is that of its device.
LEMMA TransferConnection ==
    ASSUME ControlInv, NEW c \in Clients, NEW d \in Devices, io[c][d] \in {"posted", "started"}
    PROVE  /\ refcnt[c][d] > 0 /\ ioconn[c][d] = conn[c][d] /\ conn[c][d] \in ConnHandles
           /\ connections[ioconn[c][d]] = [used |-> TRUE, blkdev |-> d, client |-> handle[c]]
<1>1. refcnt[c][d] > 0 /\ ioconn[c][d] = conn[c][d]
  BY Zenon DEF ControlInv, TransfersAt
<1>2. Attached(c, d)
  BY <1>1, Zenon DEF Attached, Holds
<1> QED
  BY <1>1, <1>2 DEF ControlInv, AttachedAt

\* The tasklet and the dispatcher follow the pages of the clients in the table.
LEMMA VisitKeeps ==
    ASSUME ControlInv, ~oops, Notify \/ DispatchNoShared
    PROVE  ControlInv'
<1> USE DEF ControlInv, tables, handler, linux, client, call, transfer
<1>1. /\ oops' \in BOOLEAN /\ notify' \in BOOLEAN
      /\ oops' => NoShared
      /\ UNCHANGED <<tables, handler, linux, client, call, transfer>>
  <2>1. NoShared \in BOOLEAN
    BY Zenon DEF NoShared
  <2>2. notify \in BOOLEAN
    BY Zenon DEF TypeOK, ServerTypes
  <2>3. CASE Notify
    BY <2>1, <2>3, Zenon DEF Notify
  <2>4. CASE DispatchNoShared
    BY <2>2, <2>4, Zenon DEF DispatchNoShared
  <2> QED BY <2>3, <2>4, Zenon
<1>2. TypeOK'
  BY <1>1, Zenon DEF TypeOK, ServerTypes, LinuxTypes, CallTypes, ClientTypes, TransferTypes
<1>3. CallsQueued' /\ HandlerAt' /\ ClientAt' /\ SlotsDistinct' /\ TransfersAt'
  BY <1>1, CallsQueuedFrame, HandlerAtFrame, ClientAtFrame, SlotsDistinctFrame,
     TransfersAtFrame, Zenon
<1>4. SlotsAt'
  BY <1>1, Zenon DEF SlotsAt
<1>5. AttachedAt'
  BY <1>1, AttachedAtFrame, Zenon
<1>6. DeviceRefs' /\ MountedFree' /\ RingNotOverfilled'
  BY <1>1, DeviceRefsFrame, MountedFreeFrame, RingNotOverfilledFrame, Zenon
<1> QED
  BY <1>2, <1>3, <1>4, <1>5, <1>6, Zenon

\* A mount needs a device that nobody claims.
LEMMA MountKeeps ==
    ASSUME ControlInv, NEW d \in Devices, Mount(d) \/ Unmount(d)
    PROVE  ControlInv'
<1> USE DEF ControlInv, tables, handler, client, call, transfer
<1>1. /\ mounted' \in [Devices -> BOOLEAN] /\ MountedFree'
      /\ UNCHANGED <<tables, handler, notify, oops, opens, claims, client, call, transfer>>
  BY Zenon DEF Mount, Unmount, TypeOK, LinuxTypes, MountedFree
<1>2. TypeOK'
  BY <1>1, Zenon DEF TypeOK, ServerTypes, LinuxTypes, CallTypes, ClientTypes, TransferTypes
<1>3. CallsQueued' /\ HandlerAt' /\ ClientAt' /\ SlotsDistinct' /\ TransfersAt' /\ SlotsAt'
  BY <1>1, CallsQueuedFrame, HandlerAtFrame, ClientAtFrame, SlotsDistinctFrame,
     TransfersAtFrame, SlotsAtFrame, Zenon
<1>4. AttachedAt'
  BY <1>1, AttachedAtFrame, Zenon
<1>5. DeviceRefs' /\ RingNotOverfilled'
  BY <1>1, DeviceRefsFrame, RingNotOverfilledFrame, Zenon
<1> QED
  BY <1>1, <1>2, <1>3, <1>4, <1>5, Zenon

\* What a handler knows of the caller of its command.
LEMMA Caller ==
    ASSUME ControlInv, cmds # <<>>
    PROVE  /\ Cmd = cmds[1] /\ Cmd \in Commands /\ Cmd.from \in Clients
           /\ main[Cmd.from] = Cmd.op /\ reply[Cmd.from] = "none" /\ dev[Cmd.from] = Cmd.dev
           /\ Cmd.op \in {"attach", "reattach"} =>
                Cmd.h = handle[Cmd.from] /\ Cmd.h \in ClientHandles /\ clients[Cmd.h].used
           /\ Cmd.op = "detach" => Cmd.h = conn[Cmd.from][Cmd.dev]
           /\ Cmd.op \in {"probe", "attach", "detach"} => Cmd.dev \in Devices
<1>1. Cmd = cmds[1] /\ Cmd \in Commands /\ 1 \in 1 .. Len(cmds)
  BY HeadIsFirst, Zenon DEF ControlInv
<1>2. /\ main[Cmd.from] = Cmd.op /\ reply[Cmd.from] = "none" /\ dev[Cmd.from] = Cmd.dev
      /\ Cmd.op \in {"attach", "reattach"} => Cmd.h = handle[Cmd.from]
      /\ Cmd.op = "detach" => Cmd.h = conn[Cmd.from][Cmd.dev]
  BY <1>1, Zenon DEF ControlInv, CallsQueued
<1>3. Cmd.from \in Clients
  BY <1>1, Zenon DEF Commands
<1>4. Cmd.op \in {"attach", "reattach"} => handle[Cmd.from] \in ClientHandles /\ clients[handle[Cmd.from]].used
  <2>1. Cmd.op \in {"attach", "reattach"} => handle[Cmd.from] \in ClientHandles /\ handle[Cmd.from] # None
    BY <1>2, <1>3, Zenon DEF ControlInv, ClientAt, TypeOK, ClientTypes
  <2> QED BY <1>3, <2>1 DEF ControlInv, SlotsDistinct
<1>5. Cmd.op \in {"probe", "attach", "detach"} => Cmd.dev \in Devices
  BY <1>2, <1>3, Zenon DEF ControlInv, ClientAt
<1> QED
  BY <1>1, <1>2, <1>3, <1>4, <1>5, Zenon

\* A handler of a device goes on to its next step.
LEMMA GotoKeeps ==
    ASSUME ControlInv, ~oops, cmds # <<>>, NEW s \in {"probe", "claim", "blocksize", "put", "detach"},
           Goto(s), step \notin {"space", "page"}, HandlerAt',
           opens' \in [Devices -> Nat], claims' \in [Devices -> Nat], DeviceRefs', MountedFree',
           UNCHANGED <<tables, slot, notify, oops, mounted, handle, conn, clientSide>>
    PROVE  ControlInv'
<1> USE DEF ControlInv, tables, transfer, clientSide
<1>1. step' = s /\ UNCHANGED <<cmds, reply>>
  BY Zenon DEF Goto
<1>2. TypeOK'
  BY <1>1, Zenon DEF TypeOK, ServerTypes, LinuxTypes, CallTypes, ClientTypes, TransferTypes
<1>3. CallsQueued' /\ ClientAt' /\ SlotsDistinct' /\ TransfersAt' /\ RingNotOverfilled'
  BY <1>1, CallsQueuedFrame, ClientAtFrame, SlotsDistinctFrame, TransfersAtFrame,
     RingNotOverfilledFrame, Zenon
<1>4. SlotsAt'
  BY <1>1, Zenon DEF SlotsAt
<1>5. AttachedAt'
  BY <1>1, AttachedAtFrame, Zenon
<1> QED
  BY <1>2, <1>3, <1>4, <1>5, Zenon

\* A handler answers and leaves the tables as they are.
LEMMA ReplyKeeps ==
    ASSUME ControlInv, ~oops, cmds # <<>>, NEW r \in {"ok", "error"}, Reply(r), step # "page",
           Cmd.op # "detach", r = "ok" => Cmd.op \in {"probe", "reattach"},
           Cmd.op = "reattach" => r = "ok", slot' \in ClientHandles \cup {None},
           opens' \in [Devices -> Nat], claims' \in [Devices -> Nat], DeviceRefs', MountedFree',
           UNCHANGED <<tables, notify, oops, mounted, handle, conn, clientSide>>
    PROVE  ControlInv'
<1> USE DEF ControlInv, tables, transfer, clientSide
<1>1. /\ cmds' \in Seq(Commands) /\ CallsQueued' /\ HandlerAt'
      /\ reply' \in [Clients -> {"none", "ok", "error"}]
  BY QueueReply, Zenon
<1>2. step' = "idle" /\ reply' = [reply EXCEPT ![Cmd.from] = r]
  BY Zenon DEF Reply
<1>3. Cmd.from \in Clients /\ main[Cmd.from] = Cmd.op /\ reply[Cmd.from] = "none" /\ Cmd \in Commands
  BY Caller, Zenon
<1>4. TypeOK'
  BY <1>1, <1>2, Zenon DEF TypeOK, ServerTypes, LinuxTypes, CallTypes, ClientTypes, TransferTypes
<1>5. ClientAt'
  BY <1>2, <1>3, Zenon DEF ClientAt, TypeOK, ServerTypes, LinuxTypes, CallTypes, ClientTypes,
     TransferTypes, Commands
<1>6. SlotsDistinct' /\ TransfersAt' /\ RingNotOverfilled' /\ SlotsAt'
  <2>1. SlotsAt'
    BY <1>2, Zenon DEF SlotsAt
  <2> QED BY <2>1, SlotsDistinctFrame, TransfersAtFrame, RingNotOverfilledFrame, Zenon
<1>7. AttachedAt'
  <2>1. \A e \in Clients, f \in Devices : Attached(e, f)' <=> Attached(e, f)
    BY <1>2, <1>3 DEF Attached, Holds, Detaching
  <2> QED BY <2>1, AttachedAtSame, Zenon
<1> QED
  BY <1>1, <1>4, <1>5, <1>6, <1>7, Zenon

\* A registration in progress touches only slots without a page.
LEMMA SlotKeeps ==
    ASSUME ControlInv, cmds # <<>>, step \in {"idle", "space", "page"}, step' \in {"space", "page"},
           clients' \in [ClientHandles -> [used : BOOLEAN, space : BOOLEAN, shared : BOOLEAN]],
           \A g \in ClientHandles : clients[g].shared => clients'[g] = clients[g],
           slot' \in ClientHandles, oops' \in BOOLEAN, HandlerAt', SlotsAt',
           UNCHANGED <<cmds, reply, connections, notify, linux, handle, conn, clientSide>>
    PROVE  ControlInv'
<1> USE DEF ControlInv, linux, transfer, clientSide
<1>1. TypeOK'
  BY Zenon DEF TypeOK, ServerTypes, LinuxTypes, CallTypes, ClientTypes, TransferTypes
<1>2. CallsQueued' /\ ClientAt' /\ TransfersAt' /\ RingNotOverfilled' /\ MountedFree'
  BY CallsQueuedFrame, ClientAtFrame, TransfersAtFrame, RingNotOverfilledFrame,
     MountedFreeFrame, Zenon
<1>3. SlotsDistinct'
  BY DEF SlotsDistinct, TypeOK, ServerTypes, ClientTypes
<1>4. AttachedAt'
  BY AttachedAtFrame, Zenon
<1>5. DeviceRefs'
  BY DEF DeviceRefs, Of, Busy
<1> QED
  BY <1>1, <1>2, <1>3, <1>4, <1>5, Zenon

\* register gives its caller the slot it has prepared.
LEMMA RegisterPageKeeps ==
    ASSUME ControlInv, ~oops, RegisterPage
    PROVE  ControlInv'
<1> USE DEF ControlInv
<1>0. cmds # <<>> /\ step = "page" /\ cmds[1].op = "register"
  BY Zenon DEF RegisterPage, At, HandlerAt
<1> PICK c \in Clients : c = Cmd.from
  BY <1>0, Caller, Zenon
<1> PICK h \in ClientHandles : h = slot /\ clients[h].used /\ clients[h].space /\ ~clients[h].shared
  BY <1>0, Zenon DEF SlotsAt
<1>1. main[c] = "register" /\ reply[c] = "none" /\ \A d \in Devices : refcnt[c][d] = 0
  BY <1>0, Caller DEF ClientAt
<1>2. /\ clients' = [clients EXCEPT ![h].shared = TRUE] /\ handle' = [handle EXCEPT ![c] = h]
      /\ Reply("ok") /\ step' = "idle" /\ slot' = None /\ reply' = [reply EXCEPT ![c] = "ok"]
      /\ UNCHANGED <<connections, notify, oops, linux, conn, clientSide>>
  BY Zenon DEF RegisterPage, At, Reply
<1> USE DEF clientSide, transfer, linux
<1>3. /\ cmds' \in Seq(Commands) /\ CallsQueued' /\ HandlerAt'
      /\ reply' \in [Clients -> {"none", "ok", "error"}]
  <2>1. \A e \in Clients \ {Cmd.from} : handle'[e] = handle[e] /\ conn'[e] = conn[e]
    BY <1>2
  <2> QED BY <1>0, <1>2, QueueReply
<1>4. /\ clients' \in [ClientHandles -> [used : BOOLEAN, space : BOOLEAN, shared : BOOLEAN]]
      /\ clients'[h] = [used |-> TRUE, space |-> TRUE, shared |-> TRUE]
      /\ \A g \in ClientHandles \ {h} : clients'[g] = clients[g]
  <2>1. clients \in [ClientHandles -> [used : BOOLEAN, space : BOOLEAN, shared : BOOLEAN]]
    BY Zenon DEF TypeOK, ServerTypes
  <2>2. clients' \in [ClientHandles -> [used : BOOLEAN, space : BOOLEAN, shared : BOOLEAN]]
    BY <1>2, <2>1, Zenon
  <2>3. clients'[h].used = TRUE /\ clients'[h].space = TRUE /\ clients'[h].shared = TRUE
    BY <1>2, <2>1, Zenon
  <2>4. clients'[h] = [used |-> TRUE, space |-> TRUE, shared |-> TRUE]
    BY <2>2, <2>3, Zenon
  <2>5. \A g \in ClientHandles \ {h} : clients'[g] = clients[g]
    BY <1>2
  <2> QED BY <2>2, <2>4, <2>5, Zenon
<1>5. TypeOK'
  BY <1>2, <1>3, <1>4 DEF TypeOK, ServerTypes, LinuxTypes, CallTypes, ClientTypes, TransferTypes
<1>6. ClientAt'
  BY <1>1, <1>2, ControlAssumption DEF ClientAt, TypeOK, CallTypes, ClientTypes, ClientHandles
<1>7. SlotsAt'
  BY <1>2, <1>4 DEF SlotsAt
<1>8. SlotsDistinct'
  <2>1. ASSUME NEW e \in Clients, handle[e] # None
        PROVE  /\ handle[e] \in ClientHandles \ {h}
               /\ clients[handle[e]] = [used |-> TRUE, space |-> TRUE, shared |-> TRUE]
    <3>1. /\ handle[e] \in ClientHandles
          /\ clients[handle[e]] = [used |-> TRUE, space |-> TRUE, shared |-> TRUE]
      BY <2>1, Zenon DEF SlotsDistinct, TypeOK, ClientTypes
    <3> QED BY <3>1
  <2>2. h # None
    BY ControlAssumption DEF ClientHandles
  <2>3. \A e \in Clients : handle'[e] = IF e = c THEN h ELSE handle[e]
    BY <1>2, Zenon DEF TypeOK, ClientTypes
  <2>4. \A e \in Clients : main'[e] # "panic"
    BY <1>2 DEF SlotsDistinct
  <2>5. ASSUME NEW e \in Clients, handle'[e] # None
        PROVE  clients'[handle'[e]] = [used |-> TRUE, space |-> TRUE, shared |-> TRUE]
    <3>1. CASE e = c
      BY <1>4, <2>3, <3>1, Zenon
    <3>2. CASE e # c
      BY <1>4, <2>1, <2>3, <2>5, <3>2
    <3> QED BY <3>1, <3>2, Zenon
  <2>6. ASSUME NEW e \in Clients, handle'[e] # None, NEW f \in Clients \ {e}
        PROVE  handle'[f] # handle'[e]
    <3>1. CASE e = c
      BY <2>1, <2>3, <2>6, <3>1
    <3>2. CASE e # c
      BY <2>3, <2>6 DEF SlotsDistinct
    <3> QED BY <3>1, <3>2, Zenon
  <2> QED BY <2>4, <2>5, <2>6, Zenon DEF SlotsDistinct
<1>9. AttachedAt'
  <2>1. \A e \in Clients, f \in Devices : Attached(e, f)' <=> Attached(e, f)
    BY <1>1, <1>2 DEF Attached, Holds, Detaching
  <2>2. \A f \in Devices : ~ Attached(c, f)
    BY <1>1 DEF Attached, Holds, Detaching
  <2>3. \A e \in Clients \ {c} : handle'[e] = handle[e]
    BY <1>2
  <2> QED BY <1>2, <2>1, <2>2 DEF AttachedAt
<1>10. TransfersAt' /\ MountedFree' /\ RingNotOverfilled'
  BY <1>2, TransfersAtFrame, MountedFreeFrame, RingNotOverfilledFrame, Zenon
<1>11. DeviceRefs'
  BY <1>0, <1>2 DEF DeviceRefs, Of, Busy
<1> QED
  BY <1>3, <1>5, <1>6, <1>7, <1>8, <1>9, <1>10, <1>11, Zenon

\* reattach finds the slot of its caller.
LEMMA ReattachKeeps ==
    ASSUME ControlInv, ~oops, Reattach
    PROVE  ControlInv'
<1> USE DEF ControlInv
<1>1. cmds # <<>> /\ Cmd.op = "reattach" /\ step = "idle"
  BY Zenon DEF Reattach, Starts
<1>2. Reply("ok")
  BY <1>1, Caller, Zenon DEF Reattach
<1>3. UNCHANGED <<tables, slot, notify, oops, linux, handle, conn, clientSide>>
  BY DEF Reattach
<1>4. DeviceRefs' /\ MountedFree'
  BY <1>1, <1>2, <1>3 DEF DeviceRefs, Of, Busy, MountedFree, Reply, linux, tables
<1>5. /\ opens' \in [Devices -> Nat] /\ claims' \in [Devices -> Nat]
      /\ slot' \in ClientHandles \cup {None}
  BY <1>3, Zenon DEF TypeOK, ServerTypes, LinuxTypes, linux
<1> QED
  BY <1>1, <1>2, <1>3, <1>4, <1>5, ReplyKeeps, Zenon DEF linux

=============================================================================
