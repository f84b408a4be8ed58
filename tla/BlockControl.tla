----------------------------- MODULE BlockControl -----------------------------
(***************************************************************************)
(* The control interface of the virtual block device                       *)
(* (l4ka-driver-reuse/kernel/block/server.c, server.h and client.c): the   *)
(* clients register, probe, attach, detach and reattach; the server keeps  *)
(* a table of clients and a table of connections, and opens and claims     *)
(* the disks of its Linux on the clients' behalf, while transfers run on   *)
(* the connections and that Linux mounts disks for itself.                 *)
(*                                                                         *)
(* The handlers run one after the other in the bottom half of the server's *)
(* Linux, as does the dispatcher of the transfers; a handler sleeps in     *)
(* open_by_devnum, set_blocksize, blkdev_put and fpage_alloc, and is       *)
(* interrupted by end_io and the notification tasklet.  A client makes one *)
(* call at a time and its virtual machine stands still until the answer.   *)
(*                                                                         *)
(* One descriptor stands for the transfers of a client on a device; how    *)
(* the ring orders descriptors is VMblockRing, how it is announced         *)
(* VMblockServerIrq and VMblockClientIrq, how calls queue CmdRing.         *)
(***************************************************************************)
EXTENDS Integers, Sequences, FiniteSetsExt

CONSTANTS
    Clients,        \* the virtual machines with the client driver
    Devices,        \* the disks of the server's Linux
    Probes,         \* L4VMblock_probe_devices of each client
    Local,          \* the disks the server's Linux mounts at times
    MaxClients,     \* L4VMBLOCK_MAX_CLIENTS
    MaxDevices,     \* L4VMBLOCK_MAX_DEVICES
    RingSize,       \* descriptors a client can have outstanding
    MaxOpen,        \* bound: openers of one device in one client
    None

ASSUME ControlAssumption ==
    /\ Probes \in [Clients -> SUBSET Devices] /\ Local \subseteq Devices /\ IsFiniteSet(Devices)
    /\ MaxClients \in Nat /\ MaxDevices \in Nat
    /\ RingSize \in Nat \ {0} /\ MaxOpen \in Nat \ {0}
    /\ None \notin Devices \cup Clients \cup Int

ClientHandles == 0 .. MaxClients - 1
ConnHandles == 0 .. MaxDevices - 1

VARIABLES
    \* the server
    clients,        \* server->clients: handle in use, client_space, client_shared
    connections,    \* server->connections: handle in use, blkdev, client
    cmds,           \* the commands of the bottom half; the first is being handled
    step,           \* where its handler is
    slot,           \* the client handle a registration has allocated
    notify,         \* L4VMblock_notify_tasklet is scheduled
    oops,           \* the server's Linux has followed a bad pointer
    \* Linux's block devices in the server
    opens, claims, mounted,
    \* the clients
    main,           \* what the client's kernel does
    reply,          \* the answer to its call
    dev,            \* the device its call is about
    handle,         \* client->handle
    todo,           \* devices init_module has still to probe
    disks,          \* devices with a disk in the client
    refcnt,         \* descriptor->refcnt
    conn,           \* descriptor->handle
    io, ioconn      \* the transfer of each device, and its descriptor's handle

tables == <<clients, connections>>
handler == <<cmds, step, slot>>
linux == <<opens, claims, mounted>>
client == <<handle, todo, disks, refcnt, conn>>
call == <<main, reply, dev>>
transfer == <<io, ioconn>>
vars == <<tables, handler, notify, oops, linux, client, call, transfer>>

\* server_init_module; no client has loaded its driver
Init ==
    /\ clients = [h \in ClientHandles |-> [used |-> FALSE, space |-> FALSE, shared |-> FALSE]]
    /\ connections = [h \in ConnHandles |-> [used |-> FALSE, blkdev |-> None, client |-> None]]
    /\ cmds = <<>> /\ step = "idle" /\ slot = None
    /\ notify = FALSE /\ oops = FALSE
    /\ opens = [d \in Devices |-> 0] /\ claims = [d \in Devices |-> 0]
    /\ mounted = [d \in Devices |-> FALSE]
    /\ main = [c \in Clients |-> "out"]
    /\ reply = [c \in Clients |-> "none"]
    /\ dev = [c \in Clients |-> None]
    /\ handle = [c \in Clients |-> None]
    /\ todo = [c \in Clients |-> {}]
    /\ disks = [c \in Clients |-> {}]
    /\ refcnt = [c \in Clients |-> [d \in Devices |-> 0]]
    /\ conn = [c \in Clients |-> [d \in Devices |-> None]]
    /\ io = [c \in Clients |-> [d \in Devices |-> "none"]]
    /\ ioconn = [c \in Clients |-> [d \in Devices |-> None]]

-----------------------------------------------------------------------------
(* The client's side of the calls. *)

\* The server thread queues a command; an answer is awaited.
Call(c, op, d, h) ==
    /\ cmds' = Append(cmds, [op |-> op, from |-> c, dev |-> d, h |-> h])
    /\ main' = [main EXCEPT ![c] = op]
    /\ dev' = [dev EXCEPT ![c] = d]
    /\ UNCHANGED reply

\* The answer is used.
Answered(c, op, pc) ==
    /\ main[c] = op /\ reply[c] # "none"
    /\ main' = [main EXCEPT ![c] = pc]
    /\ reply' = [reply EXCEPT ![c] = "none"]
    /\ dev' = [dev EXCEPT ![c] = None]

\* init_module: client_register calls the server
Register(c) ==
    /\ main[c] = "out"
    /\ Call(c, "register", None, None)
    /\ UNCHANGED <<tables, step, slot, notify, oops, linux, client, transfer>>

\* client_register returns: the devices are probed, or the driver is not loaded
RegisterReturns(c) ==
    /\ Answered(c, "register", IF reply[c] = "ok" THEN "idle" ELSE "out")
    /\ todo' = [todo EXCEPT ![c] = IF reply[c] = "ok" THEN Probes[c] ELSE {}]
    /\ UNCHANGED <<tables, handler, notify, oops, linux, handle, disks, refcnt, conn, transfer>>

\* init_module probes the devices of its parameters
Probe(c) ==
    /\ main[c] = "idle"
    /\ \E d \in todo[c] : Call(c, "probe", d, None)
    /\ UNCHANGED <<tables, step, slot, notify, oops, linux, client, transfer>>

\* probe_device returns: it has made a disk unless the server or Linux refuses
ProbeReturns(c, disk) ==
    /\ Answered(c, "probe", "idle")
    /\ disk => reply[c] = "ok"
    /\ todo' = [todo EXCEPT ![c] = @ \ {dev[c]}]
    /\ disks' = [disks EXCEPT ![c] = IF disk THEN @ \cup {dev[c]} ELSE @]
    /\ UNCHANGED <<tables, handler, notify, oops, linux, handle, refcnt, conn, transfer>>

\* The driver goes, at a failure of init_module or in exit_module: it does not
\* tell the server.
Unload(c) ==
    /\ main[c] = "idle"
    /\ \A d \in Devices : refcnt[c][d] = 0 /\ io[c][d] = "none"
    /\ main' = [main EXCEPT ![c] = "out"]
    /\ handle' = [handle EXCEPT ![c] = None]
    /\ todo' = [todo EXCEPT ![c] = {}]
    /\ disks' = [disks EXCEPT ![c] = {}]
    /\ conn' = [conn EXCEPT ![c] = [d \in Devices |-> None]]
    /\ UNCHANGED <<tables, handler, notify, oops, linux, refcnt, reply, dev, transfer>>

Ready(c) == main[c] = "idle" /\ todo[c] = {}

\* Open that counts the opener before the device is attached
OpenCountsFirst(c, d) ==
    /\ Ready(c) /\ d \in disks[c] /\ refcnt[c][d] < MaxOpen
    /\ refcnt' = [refcnt EXCEPT ![c][d] = @ + 1]
    /\ \/ refcnt[c][d] = 0 /\ Call(c, "attach", d, handle[c])
       \/ refcnt[c][d] > 0 /\ UNCHANGED <<cmds, call>>
    /\ UNCHANGED <<tables, step, slot, notify, oops, linux, handle, todo, disks, conn, transfer>>

\* L4VMblock_open: the first opener attaches the device
Open(c, d) ==
    /\ Ready(c) /\ d \in disks[c] /\ refcnt[c][d] < MaxOpen
    /\ \/ /\ refcnt[c][d] = 0
          /\ Call(c, "attach", d, handle[c])
          /\ UNCHANGED client
       \/ /\ refcnt[c][d] > 0
          /\ refcnt' = [refcnt EXCEPT ![c][d] = @ + 1]
          /\ UNCHANGED <<cmds, call, handle, todo, disks, conn>>
    /\ UNCHANGED <<tables, step, slot, notify, oops, linux, transfer>>

\* attach_device returns to open
OpenReturns(c) ==
    /\ Answered(c, "attach", "idle")
    /\ refcnt' = [refcnt EXCEPT ![c][dev[c]] = IF reply[c] = "ok" THEN @ + 1 ELSE @]
    /\ UNCHANGED <<tables, handler, notify, oops, linux, handle, todo, disks, conn, transfer>>

\* Linux writes back and drops the pages of a device before its last release.
Drained(c, d) == io[c][d] = "none"

\* Release that detaches at every close
ReleaseAlways(c, d) ==
    /\ Ready(c) /\ refcnt[c][d] > 0
    /\ refcnt[c][d] = 1 => Drained(c, d)
    /\ refcnt' = [refcnt EXCEPT ![c][d] = @ - 1]
    /\ Call(c, "detach", d, conn[c][d])
    /\ UNCHANGED <<tables, step, slot, notify, oops, linux, handle, todo, disks, conn, transfer>>

\* L4VMblock_release: the last one detaches the device
Release(c, d) ==
    /\ Ready(c) /\ refcnt[c][d] > 0
    /\ refcnt[c][d] = 1 => Drained(c, d)
    /\ refcnt' = [refcnt EXCEPT ![c][d] = @ - 1]
    /\ \/ refcnt[c][d] = 1 /\ Call(c, "detach", d, conn[c][d])
       \/ refcnt[c][d] > 1 /\ UNCHANGED <<cmds, call>>
    /\ UNCHANGED <<tables, step, slot, notify, oops, linux, handle, todo, disks, conn, transfer>>

\* detach_device returns to release
ReleaseReturns(c) ==
    /\ Answered(c, "detach", "idle")
    /\ UNCHANGED <<tables, handler, notify, oops, linux, client, transfer>>

\* dspace_handler: the mapping of the shared pages is gone
Fault(c) ==
    /\ Ready(c)
    /\ Call(c, "reattach", None, handle[c])
    /\ UNCHANGED <<tables, step, slot, notify, oops, linux, client, transfer>>

FaultReturns(c) ==
    /\ Answered(c, "reattach", IF reply[c] = "ok" THEN "idle" ELSE "panic")
    /\ UNCHANGED <<tables, handler, notify, oops, linux, client, transfer>>

-----------------------------------------------------------------------------
(* The transfers.  The queue of each device has a lock of its own; the ring *)
(* is the client's.                                                         *)

InRing(c) == {d \in Devices : io[c][d] \in {"posted", "started", "done", "lost"}}

\* L4VMblock_ring_available
Available(c) == Cardinality(InRing(c)) < RingSize

\* process_request fills and hands over a descriptor
Post(c, d) ==
    /\ io' = [io EXCEPT ![c][d] = "posted"]
    /\ ioconn' = [ioconn EXCEPT ![c][d] = conn[c][d]]

\* Linux has a request for an open device: it is posted, or waits for the ring.
Request(c, d) ==
    /\ main[c] = "idle" /\ refcnt[c][d] > 0 /\ io[c][d] = "none"
    /\ \/ Available(c) /\ Post(c, d)
       \/ ~Available(c) /\ io' = [io EXCEPT ![c][d] = "wait"] /\ UNCHANGED ioconn
    /\ UNCHANGED <<tables, handler, notify, oops, linux, client, call>>

\* wait_event sees room in the ring ...
Wake(c, d) ==
    /\ main[c] = "idle" /\ io[c][d] = "wait" /\ Available(c)
    /\ io' = [io EXCEPT ![c][d] = "woken"]
    /\ UNCHANGED <<tables, handler, notify, oops, linux, client, call, ioconn>>

\* Resume without the second look at the ring
ResumeAtOnce(c, d) ==
    /\ main[c] = "idle" /\ io[c][d] = "woken"
    /\ Post(c, d)
    /\ UNCHANGED <<tables, handler, notify, oops, linux, client, call>>

\* ... and process_request looks again, with the lock of its queue.  The lock, taken
\* with interrupts off, keeps the processor from another queue until the descriptor is
\* filled: look and filling are one step of a guest with one processor, which this is.
Resume(c, d) ==
    /\ main[c] = "idle" /\ io[c][d] = "woken"
    /\ \/ Available(c) /\ Post(c, d)
       \/ ~Available(c) /\ io' = [io EXCEPT ![c][d] = "wait"] /\ UNCHANGED ioconn
    /\ UNCHANGED <<tables, handler, notify, oops, linux, client, call>>

\* process_io_queue: the dispatcher starts the transfer on the descriptor's
\* connection, or refuses it.
Dispatch(c, d) ==
    /\ step = "idle" /\ io[c][d] = "posted"
    /\ LET h == ioconn[c][d]
           mine == connections[h].used /\ connections[h].client = handle[c]
       IN  /\ io' = [io EXCEPT ![c][d] = IF mine THEN "started" ELSE "done"]
           /\ notify' = (notify \/ ~mine)
    /\ UNCHANGED <<tables, handler, oops, linux, client, call, ioconn>>

\* L4VMblock_end_io: the descriptor goes back to its ring if the connection is
\* still there; that of another client leads it to a ring it is not in.
EndIo(c, d) ==
    /\ io[c][d] = "started"
    /\ LET x == connections[ioconn[c][d]]
       IN  /\ io' = [io EXCEPT ![c][d] = IF x.used THEN "done" ELSE "lost"]
           /\ oops' = (x.used /\ x.client # handle[c])
    /\ notify' = TRUE
    /\ UNCHANGED <<tables, handler, linux, client, call, ioconn>>

\* finish_transfers takes the descriptor back
Finish(c, d) ==
    /\ main[c] = "idle" /\ io[c][d] = "done"
    /\ io' = [io EXCEPT ![c][d] = "none"]
    /\ ioconn' = [ioconn EXCEPT ![c][d] = None]
    /\ UNCHANGED <<tables, handler, notify, oops, linux, client, call>>

\* A client in the table without its shared page
NoShared == \E h \in ClientHandles : clients[h].used /\ ~clients[h].shared

\* The tasklet signals every client in the table ...
Notify ==
    /\ notify /\ notify' = FALSE
    /\ oops' = NoShared
    /\ UNCHANGED <<tables, handler, linux, client, call, transfer>>

\* ... and the dispatcher looks at the ring of each.
DispatchNoShared ==
    /\ step = "idle" /\ NoShared
    /\ \E c \in Clients, d \in Devices : io[c][d] = "posted"
    /\ oops' = TRUE
    /\ UNCHANGED <<tables, handler, notify, linux, client, call, transfer>>

-----------------------------------------------------------------------------
(* The handlers. *)

Cmd == Head(cmds)
Starts(op) == step = "idle" /\ cmds # <<>> /\ Cmd.op = op
At(s) == step = s /\ UNCHANGED <<oops, notify>>

Goto(s) == step' = s /\ UNCHANGED <<cmds, reply>>

\* propagate_reply; the command is freed
Reply(r) ==
    /\ cmds' = Tail(cmds) /\ step' = "idle"
    /\ reply' = [reply EXCEPT ![Cmd.from] = r]

OpenDev(d) == opens' = [opens EXCEPT ![d] = @ + 1]       \* open_by_devnum
PutDev(d) == opens' = [opens EXCEPT ![d] = @ - 1]        \* blkdev_put
ClaimDev(d) == claims' = [claims EXCEPT ![d] = @ + 1]    \* bd_claim, one holder for all
ReleaseDev(d) == claims' = [claims EXCEPT ![d] = @ - 1]  \* bd_release

FreeClients == {h \in ClientHandles : ~clients[h].used}
FreeConns == {h \in ConnHandles : ~connections[h].used}

clientSide == <<main, dev, todo, disks, refcnt, transfer>>

\* probe_handler: open_by_devnum
ProbeOpen ==
    /\ Starts("probe")
    /\ \/ Reply("error") /\ UNCHANGED opens
       \/ OpenDev(Cmd.dev) /\ Goto("probe")
    /\ UNCHANGED <<tables, slot, notify, oops, claims, mounted, handle, conn, clientSide>>

\* probe_handler reads the geometry, if there is a disk, and answers
ProbePut ==
    /\ At("probe")
    /\ PutDev(Cmd.dev)
    /\ \E r \in {"ok", "error"} : Reply(r)
    /\ UNCHANGED <<tables, slot, claims, mounted, handle, conn, clientSide>>

\* attach_handler: the client's structure, and open_by_devnum
AttachOpen ==
    /\ Starts("attach")
    /\ \/ Reply("error") /\ UNCHANGED opens
       \/ clients[Cmd.h].used /\ OpenDev(Cmd.dev) /\ Goto("claim")
    /\ UNCHANGED <<tables, slot, notify, oops, claims, mounted, handle, conn, clientSide>>

\* attach_handler: bd_claim, refused while Linux itself uses the device
AttachClaim ==
    /\ At("claim")
    /\ \/ mounted[Cmd.dev] /\ Goto("put") /\ UNCHANGED claims
       \/ ~mounted[Cmd.dev] /\ ClaimDev(Cmd.dev) /\ Goto("blocksize")
    /\ UNCHANGED <<tables, slot, opens, mounted, handle, conn, clientSide>>

\* AttachConn that takes a connection but, refused, keeps the claim
AttachConnKeepsClaim ==
    /\ At("blocksize")
    /\ \/ /\ FreeConns # {}
          /\ connections' = [connections EXCEPT ![Min(FreeConns)] =
                                [used |-> TRUE, blkdev |-> Cmd.dev, client |-> Cmd.h]]
          /\ conn' = [conn EXCEPT ![Cmd.from][Cmd.dev] = Min(FreeConns)]
          /\ Reply("ok") /\ UNCHANGED claims
       \/ Goto("put") /\ UNCHANGED <<connections, conn, claims>>
    /\ UNCHANGED <<clients, slot, opens, mounted, handle, clientSide>>

\* attach_handler: set_blocksize and allocate_conn_handle; either may fail
AttachConn ==
    /\ At("blocksize")
    /\ \/ /\ FreeConns # {}
          /\ connections' = [connections EXCEPT ![Min(FreeConns)] =
                                [used |-> TRUE, blkdev |-> Cmd.dev, client |-> Cmd.h]]
          /\ conn' = [conn EXCEPT ![Cmd.from][Cmd.dev] = Min(FreeConns)]
          /\ Reply("ok") /\ UNCHANGED claims
       \/ ReleaseDev(Cmd.dev) /\ Goto("put") /\ UNCHANGED <<connections, conn>>
    /\ UNCHANGED <<clients, slot, opens, mounted, handle, clientSide>>

\* AttachPut that also releases a claim, whether it has one or not
AttachPutReleases ==
    /\ At("put")
    /\ PutDev(Cmd.dev) /\ ReleaseDev(Cmd.dev) /\ Reply("error")
    /\ UNCHANGED <<tables, slot, mounted, handle, conn, clientSide>>

\* attach_handler: err_is_mounted
AttachPut ==
    /\ At("put")
    /\ PutDev(Cmd.dev) /\ Reply("error")
    /\ UNCHANGED <<tables, slot, claims, mounted, handle, conn, clientSide>>

\* detach_handler: conn_lookup and bd_release; a connection in use has its blkdev
DetachRelease ==
    /\ Starts("detach")
    /\ LET x == connections[Cmd.h]
       IN  IF x.used THEN ReleaseDev(x.blkdev) /\ Goto("detach")
                     ELSE Reply("error") /\ UNCHANGED claims
    /\ UNCHANGED <<tables, slot, notify, oops, opens, mounted, handle, conn, clientSide>>

\* DetachPut that keeps the connection's handle
DetachPutKeepsHandle ==
    /\ At("detach")
    /\ PutDev(connections[Cmd.h].blkdev)
    /\ connections' = [connections EXCEPT ![Cmd.h].blkdev = None]
    /\ Reply("ok")
    /\ UNCHANGED <<clients, slot, claims, mounted, handle, conn, clientSide>>

\* detach_handler: blkdev_put and conn_release
DetachPut ==
    /\ At("detach")
    /\ PutDev(connections[Cmd.h].blkdev)
    /\ connections' = [connections EXCEPT ![Cmd.h] =
                          [used |-> FALSE, blkdev |-> None, client |-> @.client]]
    /\ Reply("ok")
    /\ UNCHANGED <<clients, slot, claims, mounted, handle, conn, clientSide>>

\* RegisterAllocate that does not mark the handle
RegisterAllocateUnmarked ==
    /\ Starts("register")
    /\ \/ FreeClients = {} /\ Reply("error") /\ UNCHANGED slot
       \/ FreeClients # {} /\ slot' = Min(FreeClients) /\ Goto("space")
    /\ UNCHANGED <<tables, notify, oops, linux, handle, conn, clientSide>>

\* register_handler: allocate_client_handle
RegisterAllocate ==
    /\ Starts("register")
    /\ \/ FreeClients = {} /\ Reply("error") /\ UNCHANGED <<clients, slot>>
       \/ /\ FreeClients # {}
          /\ slot' = Min(FreeClients)
          /\ clients' = [clients EXCEPT ![Min(FreeClients)].used = TRUE]
          /\ Goto("space")
    /\ UNCHANGED <<connections, notify, oops, linux, handle, conn, clientSide>>

\* register_handler: get_client_space_info; err_client_space keeps the handle
RegisterSpace ==
    /\ At("space")
    /\ \/ /\ clients' = [clients EXCEPT ![slot].space = TRUE]
          /\ Goto("page") /\ UNCHANGED slot
       \/ Reply("error") /\ slot' = None /\ UNCHANGED clients
    /\ UNCHANGED <<connections, linux, handle, conn, clientSide>>

\* register_handler: the shared page is set up and mapped to the client
RegisterPage ==
    /\ At("page")
    /\ clients' = [clients EXCEPT ![slot].shared = TRUE]
    /\ handle' = [handle EXCEPT ![Cmd.from] = slot]
    /\ Reply("ok") /\ slot' = None
    /\ UNCHANGED <<connections, linux, conn, clientSide>>

\* register_handler: there is no memory for the page.  err_shared_alloc frees the
\* handle; no exception is set, so the reply's stub reads the handle through NULL.
RegisterNoPage ==
    /\ step = "page"
    /\ clients' = [clients EXCEPT ![slot].used = FALSE]
    /\ oops' = TRUE
    /\ UNCHANGED <<connections, handler, notify, linux, client, call, transfer>>

\* reattach_handler
Reattach ==
    /\ Starts("reattach")
    /\ Reply(IF clients[Cmd.h].used THEN "ok" ELSE "error")
    /\ UNCHANGED <<tables, slot, notify, oops, linux, handle, conn, clientSide>>

\* The server's Linux mounts a device, with a claim of its own, and unmounts it.
Mount(d) ==
    /\ d \in Local /\ ~mounted[d] /\ claims[d] = 0
    /\ mounted' = [mounted EXCEPT ![d] = TRUE]
    /\ UNCHANGED <<tables, handler, notify, oops, opens, claims, client, call, transfer>>

Unmount(d) ==
    /\ mounted[d]
    /\ mounted' = [mounted EXCEPT ![d] = FALSE]
    /\ UNCHANGED <<tables, handler, notify, oops, opens, claims, client, call, transfer>>

-----------------------------------------------------------------------------

Handler ==
    \/ ProbeOpen \/ ProbePut
    \/ AttachOpen \/ AttachClaim \/ AttachConn \/ AttachPut
    \/ DetachRelease \/ DetachPut
    \/ RegisterAllocate \/ RegisterSpace \/ RegisterPage \/ RegisterNoPage
    \/ Reattach

Returns(c) ==
    \/ RegisterReturns(c) \/ OpenReturns(c) \/ ReleaseReturns(c) \/ FaultReturns(c)
    \/ \E disk \in BOOLEAN : ProbeReturns(c, disk)

Next ==
    \/ ~oops /\ (Handler \/ Notify \/ DispatchNoShared)
    \/ \E c \in Clients :
        ~oops /\ (Register(c) \/ Probe(c) \/ Unload(c) \/ Fault(c) \/ Returns(c))
    \/ \E c \in Clients, d \in Devices :
        ~oops /\ (\/ Open(c, d) \/ Release(c, d)
                  \/ Request(c, d) \/ Wake(c, d) \/ Resume(c, d) \/ Finish(c, d)
                  \/ Dispatch(c, d) \/ EndIo(c, d))
    \/ \E d \in Devices : ~oops /\ (Mount(d) \/ Unmount(d))
    \/ oops /\ UNCHANGED vars

Spec == Init /\ [][Next]_vars

-----------------------------------------------------------------------------
(* Properties. *)

Commands == [op : {"register", "probe", "attach", "detach", "reattach"}, from : Clients,
             dev : Devices \cup {None}, h : ClientHandles \cup ConnHandles \cup {None}]

ServerTypes ==
    /\ clients \in [ClientHandles -> [used : BOOLEAN, space : BOOLEAN, shared : BOOLEAN]]
    /\ connections \in [ConnHandles -> [used : BOOLEAN, blkdev : Devices \cup {None},
                                        client : ClientHandles \cup {None}]]
    /\ cmds \in Seq(Commands)
    /\ step \in {"idle", "probe", "claim", "blocksize", "put", "detach", "space", "page"}
    /\ slot \in ClientHandles \cup {None}
    /\ notify \in BOOLEAN /\ oops \in BOOLEAN

LinuxTypes ==
    /\ opens \in [Devices -> Nat] /\ claims \in [Devices -> Nat]
    /\ mounted \in [Devices -> BOOLEAN]

CallTypes ==
    /\ main \in [Clients -> {"out", "idle", "register", "probe", "attach", "detach",
                             "reattach", "panic"}]
    /\ reply \in [Clients -> {"none", "ok", "error"}]
    /\ dev \in [Clients -> Devices \cup {None}]

ClientTypes ==
    /\ handle \in [Clients -> ClientHandles \cup {None}]
    /\ todo \in [Clients -> SUBSET Devices] /\ disks \in [Clients -> SUBSET Devices]
    /\ refcnt \in [Clients -> [Devices -> 0 .. MaxOpen]]
    /\ conn \in [Clients -> [Devices -> ConnHandles \cup {None}]]

TransferTypes ==
    /\ io \in [Clients -> [Devices ->
                {"none", "wait", "woken", "posted", "started", "done", "lost"}]]
    /\ ioconn \in [Clients -> [Devices -> ConnHandles \cup {None}]]

\* The types of the variables.
TypeOK == ServerTypes /\ LinuxTypes /\ CallTypes /\ ClientTypes /\ TransferTypes

Of(d) == {h \in ConnHandles : connections[h].used /\ connections[h].blkdev = d}
Busy(d, steps) == IF step \in steps /\ cmds[1].dev = d THEN 1 ELSE 0

\* Every path through the handlers, the failing ones too, leaves a device with
\* one open and one claim for each connection to it: attach undoes what it has
\* done when a later step fails, and detach undoes both.
DeviceRefs ==
    \A d \in Devices :
        /\ opens[d] = Cardinality(Of(d)) + Busy(d, {"probe", "claim", "blocksize", "put"})
        /\ claims[d] = Cardinality(Of(d)) + Busy(d, {"blocksize"}) - Busy(d, {"detach"})

\* The connection a client holds on a device: from the answer to attach to the
\* call of detach.
Holds(c, d) ==
    \/ refcnt[c][d] > 0
    \/ main[c] = "attach" /\ dev[c] = d /\ reply[c] = "ok"

Detaching(c, d) == main[c] = "detach" /\ dev[c] = d /\ reply[c] = "none"

\* Client and server agree on what is attached: a device a client has open is a
\* connection of the server to that device in the client's name, and the server
\* has no connection that no client will detach.
ConnectionsAgree ==
    /\ \A c \in Clients, d \in Devices :
        Holds(c, d) => connections[conn[c][d]] =
                        [used |-> TRUE, blkdev |-> d, client |-> handle[c]]
    /\ \A h \in ConnHandles :
        connections[h].used =>
            \E c \in Clients, d \in Devices :
                conn[c][d] = h /\ (Holds(c, d) \/ Detaching(c, d))

\* A device that a client has open is not mounted by the server's Linux: the
\* claim attach takes is given up by the detach of its last holder only.
NotMountedWhileOpen ==
    \A c \in Clients, d \in Devices : Holds(c, d) => ~mounted[d]

\* Two loaded clients do not share a slot of the table, and each has its page as
\* long as it is loaded, whatever becomes of other registrations: reattach finds
\* it, and dspace_handler does not panic.
SlotsDistinct ==
    /\ \A c \in Clients : main[c] # "panic"
    /\ \A c \in Clients : handle[c] # None =>
        /\ clients[handle[c]] = [used |-> TRUE, space |-> TRUE, shared |-> TRUE]
        /\ \A e \in Clients \ {c} : handle[e] # handle[c]

\* A transfer runs on an open and claimed device, over a connection of its own
\* client that is there when it ends: no descriptor is left behind by end_io's
\* "connection is gone".
TransfersConnected ==
    \A c \in Clients, d \in Devices :
        /\ io[c][d] # "lost"
        /\ io[c][d] \in {"posted", "started"} =>
            /\ connections[ioconn[c][d]] = [used |-> TRUE, blkdev |-> d, client |-> handle[c]]
            /\ opens[d] > 0 /\ claims[d] > 0

\* The queues of a client's devices sleep for the same ring under different
\* locks and do not fill it twice, in a guest with one processor.
RingNotOverfilled ==
    \A c \in Clients : Cardinality(InRing(c)) <= RingSize

-----------------------------------------------------------------------------
(* The inductive invariant behind these properties. *)

\* The queue holds the calls without an answer, one of a client and with the
\* handles of the client.
CallsQueued ==
    /\ \A i \in 1 .. Len(cmds) :
        /\ main[cmds[i].from] = cmds[i].op
        /\ reply[cmds[i].from] = "none" /\ dev[cmds[i].from] = cmds[i].dev
        /\ cmds[i].op \in {"attach", "reattach"} => cmds[i].h = handle[cmds[i].from]
        /\ cmds[i].op = "detach" => cmds[i].h = conn[cmds[i].from][cmds[i].dev]
    /\ \A i, j \in 1 .. Len(cmds) : cmds[i].from = cmds[j].from => i = j

\* Each place of the handlers belongs to one kind of command.
HandlerAt ==
    /\ step # "idle" => cmds # <<>>
    /\ step = "probe" => cmds[1].op = "probe"
    /\ step \in {"claim", "blocksize", "put"} => cmds[1].op = "attach"
    /\ step = "detach" => cmds[1].op = "detach"
    /\ step \in {"space", "page"} => cmds[1].op = "register"

\* What a client knows at each place: a handle from the end of its registration
\* on, a device in a call about one.
ClientAt ==
    \A c \in Clients :
        /\ main[c] \in {"out", "register"} => \A d \in Devices : refcnt[c][d] = 0
        /\ handle[c] = None <=> main[c] = "out" \/ (main[c] = "register" /\ reply[c] # "ok")
        /\ main[c] \in {"out", "idle"} => reply[c] = "none"
        /\ main[c] \in {"probe", "attach", "detach"} => dev[c] \in Devices
        /\ main[c] \in {"attach", "detach"} => refcnt[c][dev[c]] = 0
        /\ main[c] = "reattach" => reply[c] # "error"

\* A slot without a page is one in registration, or one whose registration failed.
SlotsAt ==
    /\ \A h \in ClientHandles :
        /\ ~oops /\ ~clients[h].used => ~clients[h].space /\ ~clients[h].shared
        /\ clients[h].used /\ clients[h].space /\ ~clients[h].shared => step = "page" /\ slot = h
    /\ ~oops /\ step \in {"space", "page"} =>
        slot \in ClientHandles /\ clients[slot].used /\ ~clients[slot].shared
    /\ ~oops /\ step = "page" => clients[slot].space

Attached(c, d) == Holds(c, d) \/ Detaching(c, d)

\* A connection of the server for each device that is open or about to be closed.
AttachedAt ==
    /\ \A c \in Clients, d \in Devices :
        Attached(c, d) => /\ conn[c][d] \in ConnHandles
                          /\ connections[conn[c][d]] = [used |-> TRUE, blkdev |-> d, client |-> handle[c]]
    /\ \A h \in ConnHandles :
        connections[h].used => \E c \in Clients, d \in Devices : conn[c][d] = h /\ Attached(c, d)

\* Transfers are of open devices.
TransfersAt ==
    \A c \in Clients, d \in Devices :
        /\ io[c][d] # "none" => refcnt[c][d] > 0
        /\ io[c][d] # "lost"
        /\ io[c][d] \in {"posted", "started"} => ioconn[c][d] = conn[c][d]

\* A device the server's Linux has mounted is claimed by no client.
MountedFree == \A d \in Devices : mounted[d] => claims[d] = 0

\* The inductive invariant: no answer, handle or claim is without the call, the
\* slot or the connection it belongs to, at any step of any handler.
ControlInv ==
    /\ TypeOK /\ CallsQueued /\ HandlerAt /\ ClientAt
    /\ SlotsAt /\ SlotsDistinct /\ AttachedAt /\ TransfersAt
    /\ DeviceRefs /\ MountedFree /\ RingNotOverfilled
===============================================================================
