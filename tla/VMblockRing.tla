---------------------------- MODULE VMblockRing ----------------------------
(***************************************************************************)
(* The descriptor ring a client VM shares with the block server VM         *)
(* (l4ka-driver-reuse/kernel/block).  The client turns each segment of a   *)
(* Linux request into a descriptor and hands it over by setting            *)
(* server_owned; the server turns it into a bio, and, since the disk       *)
(* completes bios in any order, swaps a finished descriptor to the front   *)
(* of its window before it clears server_owned.  The client therefore      *)
(* finds out which segment finished only through client_data, which moves  *)
(* with the descriptor.                                                    *)
(*                                                                         *)
(* Both sides run concurrently in different VMs, so a step is what one     *)
(* side does between two accesses the other side can see.  Notification    *)
(* is not part of this module: a handler may run at any time (the modules  *)
(* VMblockServerIrq and VMblockClientIrq say when it does).                *)
(***************************************************************************)
EXTENDS Integers, FiniteSets

CONSTANTS
    Cnt,        \* IVMblock_descriptor_ring_size
    Reqs,       \* the requests Linux may have outstanding
    Segs,       \* their segments (bio_vecs), one descriptor each
    ReqOf,      \* the request a segment belongs to
    MaxOpens,   \* bound on descriptor->refcnt
    NoSeg, NoSlot, NoReq

Slots == 0 .. Cnt - 1
SegsOf(r) == {s \in Segs : ReqOf[s] = r}

ASSUME CntAssumption == Cnt \in Nat /\ Cnt >= 2
ASSUME SegsAssumption ==
    /\ IsFiniteSet(Segs)
    /\ ReqOf \in [Segs -> Reqs]
    /\ \A r \in Reqs : SegsOf(r) # {}      \* nr_hw_segments # 0
    /\ MaxOpens \in Nat
ASSUME NullAssumption == NoSeg \notin Segs /\ NoSlot \notin Slots /\ NoReq \notin Reqs

VARIABLES
    server_owned,   \* shared: the descriptors with the server_owned bit
    desc,           \* shared: desc_ring: server_err, the data's segment, client_data
    shadow,         \* client: shadow_ring, the segment behind a shadow
    c_start_free,   \* client: desc_ring_info
    c_start_dirty,
    refcnt,         \* client: how often the device is open
    rq,             \* client: where the elevator has each request
    cur, todo,      \* client: the request in process_request, its segments to put
    hard_nr,        \* client: req->hard_nr_sectors, one sector per segment
    bio_end,        \* client: how each segment's bio ended
    conn,           \* server: the connection is in the handle table
    s_start_free,   \* server: ring_info
    s_start_dirty,
    claimed,        \* server: the slot process_io_queue took and has not submitted
    bio_ring,       \* server: the bio in flight of each slot
    bi_private,     \* server: the slot each bio in flight points back to
    io              \* the disk: what became of each segment

clientVars == <<shadow, c_start_free, c_start_dirty, refcnt, rq, cur, todo, hard_nr, bio_end>>
serverVars == <<conn, s_start_free, s_start_dirty, claimed, bio_ring, bi_private, io>>
vars == <<server_owned, desc, clientVars, serverVars>>

-----------------------------------------------------------------------------
(* Indices. *)

Succ(i) == (i + 1) % Cnt

\* RingAvailable without the slot that stays empty
RingAvailableNoGap == Cnt - ((c_start_free - c_start_dirty + Cnt) % Cnt)

\* L4VMblock_ring_available, on the client's ring_info
RingAvailable == (c_start_dirty + Cnt - (c_start_free + 1)) % Cnt

-----------------------------------------------------------------------------
(* L4VMblock_register_handler and L4VMblock_client_register.  The client   *)
(* points client_data of descriptor i at shadow i.                         *)

Init ==
    /\ server_owned = {}
    /\ desc = [i \in Slots |-> [server_err |-> "ok", seg |-> NoSeg, client_data |-> i]]
    /\ shadow = [i \in Slots |-> NoSeg]
    /\ c_start_free = 0 /\ c_start_dirty = 0
    /\ s_start_free = 0 /\ s_start_dirty = 0
    /\ refcnt = 0 /\ conn = FALSE
    /\ rq = [r \in Reqs |-> "idle"]
    /\ cur = NoReq /\ todo = {}
    /\ hard_nr = [r \in Reqs |-> 0]
    /\ bio_end = [s \in Segs |-> "none"]
    /\ claimed = NoSlot
    /\ bio_ring = [i \in Slots |-> NoSeg]
    /\ bi_private = [s \in Segs |-> NoSlot]
    /\ io = [s \in Segs |-> "none"]

-----------------------------------------------------------------------------
(* The client. *)

\* Linux adds a request to the device's elevator.
Enqueue(r) ==
    /\ rq[r] = "idle"
    /\ rq' = [rq EXCEPT ![r] = "queued"]
    /\ hard_nr' = [hard_nr EXCEPT ![r] = Cardinality(SegsOf(r))]
    /\ bio_end' = [s \in Segs |-> IF ReqOf[s] = r THEN "none" ELSE bio_end[s]]
    /\ io' = [s \in Segs |-> IF ReqOf[s] = r THEN "none" ELSE io[s]]
    /\ UNCHANGED <<server_owned, desc, shadow, c_start_free, c_start_dirty, refcnt, cur, todo,
                   conn, s_start_free, s_start_dirty, claimed, bio_ring, bi_private>>

\* L4VMblock_open: the first open attaches; attach_handler enters the connection.
Open ==
    /\ refcnt < MaxOpens
    /\ refcnt' = refcnt + 1
    /\ conn' = (conn \/ refcnt = 0)
    /\ UNCHANGED <<server_owned, desc, shadow, c_start_free, c_start_dirty, rq, cur, todo, hard_nr,
                   bio_end, s_start_free, s_start_dirty, claimed, bio_ring, bi_private, io>>

\* Linux calls release after it has written back and waited for the device's pages.
Drained == \A r \in Reqs : rq[r] = "idle"

\* L4VMblock_release: the last close detaches; detach_handler drops the connection.
Release ==
    /\ refcnt > 0
    /\ refcnt = 1 => Drained
    /\ refcnt' = refcnt - 1
    /\ conn' = (conn /\ refcnt # 1)
    /\ UNCHANGED <<server_owned, desc, shadow, c_start_free, c_start_dirty, rq, cur, todo, hard_nr,
                   bio_end, s_start_free, s_start_dirty, claimed, bio_ring, bi_private, io>>

\* L4VMblock_do_request takes the next request; process_request refuses it when the
\* device is not attached, and end_request then ends it in error.
NextRequest(r) ==
    /\ cur = NoReq
    /\ rq[r] = "queued"
    /\ IF refcnt = 0
         THEN /\ rq' = [rq EXCEPT ![r] = "idle"]
              /\ bio_end' = [s \in Segs |-> IF ReqOf[s] = r THEN "err" ELSE bio_end[s]]
              /\ UNCHANGED <<cur, todo>>
         ELSE /\ cur' = r
              /\ todo' = SegsOf(r)
              /\ UNCHANGED <<rq, bio_end>>
    /\ UNCHANGED <<server_owned, desc, shadow, c_start_free, c_start_dirty, refcnt, hard_nr, serverVars>>

\* One round of process_request's loop.  When no descriptor is available it sleeps:
\* the step is not enabled.  After the last segment the request leaves the elevator.
PutSegment(s) ==
    /\ s \in todo
    /\ RingAvailable # 0
    /\ LET d == desc[c_start_free]
       IN  /\ shadow' = [shadow EXCEPT ![d.client_data] = s]
           /\ desc' = [desc EXCEPT ![c_start_free] =
                         [server_err |-> "ok", seg |-> s, client_data |-> d.client_data]]
    /\ server_owned' = server_owned \cup {c_start_free}
    /\ c_start_free' = Succ(c_start_free)
    /\ todo' = todo \ {s}
    /\ IF todo = {s}
         THEN cur' = NoReq /\ rq' = [rq EXCEPT ![cur] = "dequeued"]
         ELSE UNCHANGED <<cur, rq>>
    /\ UNCHANGED <<c_start_dirty, refcnt, hard_nr, bio_end, serverVars>>

\* FinishTransfer that ends every bio as uptodate
FinishTransferIgnoresErr ==
    /\ c_start_dirty # c_start_free
    /\ c_start_dirty \notin server_owned
    /\ LET d == desc[c_start_dirty]
           s == shadow[d.client_data]
           r == ReqOf[s]
       IN  /\ bio_end' = [bio_end EXCEPT ![s] = "ok"]
           /\ hard_nr' = [hard_nr EXCEPT ![r] = IF @ <= 1 THEN 0 ELSE @ - 1]
           /\ rq' = [rq EXCEPT ![r] = IF hard_nr[r] <= 1 THEN "idle" ELSE @]
           /\ shadow' = [shadow EXCEPT ![d.client_data] = NoSeg]
    /\ c_start_dirty' = Succ(c_start_dirty)
    /\ UNCHANGED <<server_owned, desc, c_start_free, refcnt, cur, todo, serverVars>>

\* One round of L4VMblock_finish_transfers' loop.
FinishTransfer ==
    /\ c_start_dirty # c_start_free
    /\ c_start_dirty \notin server_owned
    /\ LET d == desc[c_start_dirty]
           s == shadow[d.client_data]
           r == ReqOf[s]
       IN  /\ bio_end' = [bio_end EXCEPT ![s] = d.server_err]
           /\ IF hard_nr[r] <= 1
                THEN /\ hard_nr' = [hard_nr EXCEPT ![r] = 0]
                     /\ rq' = [rq EXCEPT ![r] = "idle"]
                ELSE /\ hard_nr' = [hard_nr EXCEPT ![r] = @ - 1]
                     /\ UNCHANGED rq
           /\ shadow' = [shadow EXCEPT ![d.client_data] = NoSeg]
    /\ c_start_dirty' = Succ(c_start_dirty)
    /\ UNCHANGED <<server_owned, desc, c_start_free, refcnt, cur, todo, serverVars>>

-----------------------------------------------------------------------------
(* The server. *)

WithErr(d) == [server_err |-> "err", seg |-> d.seg, client_data |-> d.client_data]

\* L4VMblock_process_io_queue, its part under ring_lock.
ClaimDesc ==
    /\ claimed = NoSlot
    /\ s_start_free \in server_owned
    /\ bio_ring[s_start_free] = NoSeg
    /\ claimed' = s_start_free
    /\ s_start_free' = Succ(s_start_free)
    /\ UNCHANGED <<server_owned, desc, clientVars, conn, s_start_dirty, bio_ring, bi_private, io>>

\* StartIo that does not point the bio back to its descriptor
StartIoNoBackPointer ==
    /\ claimed # NoSlot
    /\ claimed' = NoSlot
    /\ bio_ring' = [bio_ring EXCEPT ![claimed] = desc[claimed].seg]
    /\ UNCHANGED <<server_owned, desc, bi_private, clientVars, conn, s_start_free, s_start_dirty, io>>

\* The rest of it, without the lock: initiate_io, or hand the descriptor back in
\* error when the connection is gone.
StartIo ==
    /\ claimed # NoSlot
    /\ claimed' = NoSlot
    /\ IF conn
         THEN /\ bio_ring' = [bio_ring EXCEPT ![claimed] = desc[claimed].seg]
              /\ bi_private' = [bi_private EXCEPT ![desc[claimed].seg] = claimed]
              /\ UNCHANGED <<server_owned, desc>>
         ELSE /\ desc' = [desc EXCEPT ![claimed] = WithErr(@)]
              /\ server_owned' = server_owned \ {claimed}
              /\ UNCHANGED <<bio_ring, bi_private>>
    /\ UNCHANGED <<clientVars, conn, s_start_free, s_start_dirty, io>>

\* L4VMblock_end_io for a bio with bytes left: only the error sticks.
EndIoPartial(s) ==
    /\ bi_private[s] # NoSlot
    /\ desc' = [desc EXCEPT ![bi_private[s]] = WithErr(@)]
    /\ io' = [io EXCEPT ![s] = "err"]
    /\ UNCHANGED <<server_owned, clientVars, conn, s_start_free, s_start_dirty, claimed,
                   bio_ring, bi_private>>

\* EndIo without the reordering
EndIoNoSwap(s, e) ==
    /\ bi_private[s] # NoSlot
    /\ LET i == bi_private[s]
       IN  /\ desc' = [desc EXCEPT ![i] = IF e THEN WithErr(@) ELSE @]
           /\ server_owned' = server_owned \ {i}
           /\ bio_ring' = [bio_ring EXCEPT ![i] = NoSeg]
    /\ bi_private' = [bi_private EXCEPT ![s] = NoSlot]
    /\ s_start_dirty' = Succ(s_start_dirty)
    /\ io' = [io EXCEPT ![s] = IF e \/ @ = "err" THEN "err" ELSE "ok"]
    /\ UNCHANGED <<clientVars, conn, s_start_free, claimed>>

\* EndIo that does not relocate the first bio
EndIoNoRelocate(s, e) ==
    /\ bi_private[s] # NoSlot
    /\ LET i == bi_private[s]
           d == IF e THEN WithErr(desc[i]) ELSE desc[i]
           f == s_start_dirty
       IN  /\ desc' = [desc EXCEPT ![i] = desc[f], ![f] = d]
           /\ server_owned' = server_owned \ {f}
           /\ bio_ring' = [bio_ring EXCEPT ![i] = bio_ring[f], ![f] = NoSeg]
    /\ bi_private' = [bi_private EXCEPT ![s] = NoSlot]
    /\ s_start_dirty' = Succ(s_start_dirty)
    /\ io' = [io EXCEPT ![s] = IF e \/ @ = "err" THEN "err" ELSE "ok"]
    /\ UNCHANGED <<clientVars, conn, s_start_free, claimed>>

\* L4VMblock_end_io for a finished bio.
EndIo(s, e) ==
    /\ bi_private[s] # NoSlot
    /\ LET i == bi_private[s]
           d == IF e THEN WithErr(desc[i]) ELSE desc[i]
           f == s_start_dirty
       IN  IF ~conn
             THEN /\ desc' = [desc EXCEPT ![i] = d]
                  /\ bi_private' = [bi_private EXCEPT ![s] = NoSlot]
                  /\ UNCHANGED <<server_owned, s_start_dirty, bio_ring>>
             ELSE /\ IF i # f       \* out of order: swap, and relocate the first bio
                       THEN /\ desc' = [desc EXCEPT ![i] = desc[f], ![f] = d]
                            /\ server_owned' = IF f \in server_owned
                                                 THEN server_owned \ {f}
                                                 ELSE server_owned \ {i}
                            /\ bio_ring' = [bio_ring EXCEPT ![i] = bio_ring[f], ![f] = NoSeg]
                            /\ bi_private' = [bi_private EXCEPT ![bio_ring[f]] = i,
                                                                ![s] = NoSlot]
                       ELSE /\ desc' = [desc EXCEPT ![i] = d]
                            /\ server_owned' = server_owned \ {i}
                            /\ bio_ring' = [bio_ring EXCEPT ![i] = NoSeg]
                            /\ bi_private' = [bi_private EXCEPT ![s] = NoSlot]
                  /\ s_start_dirty' = Succ(s_start_dirty)
    /\ io' = [io EXCEPT ![s] = IF e \/ @ = "err" THEN "err" ELSE "ok"]
    /\ UNCHANGED <<clientVars, conn, s_start_free, claimed>>

-----------------------------------------------------------------------------
Next ==
    \/ \E r \in Reqs : Enqueue(r)
    \/ Open
    \/ Release
    \/ \E r \in Reqs : NextRequest(r)
    \/ \E s \in Segs : PutSegment(s)
    \/ FinishTransfer
    \/ ClaimDesc
    \/ StartIo
    \/ \E s \in Segs : EndIoPartial(s)
    \/ \E s \in Segs : \E e \in BOOLEAN : EndIo(s, e)

Spec == Init /\ [][Next]_vars

-----------------------------------------------------------------------------
(* Properties. *)

Descriptors == [server_err : {"ok", "err"}, seg : Segs \cup {NoSeg}, client_data : Slots]

\* The types of all variables.
TypeOK ==
    /\ server_owned \in SUBSET Slots
    /\ desc \in [Slots -> Descriptors]
    /\ shadow \in [Slots -> Segs \cup {NoSeg}]
    /\ c_start_free \in Slots /\ c_start_dirty \in Slots
    /\ s_start_free \in Slots /\ s_start_dirty \in Slots
    /\ refcnt \in 0 .. MaxOpens /\ conn \in BOOLEAN
    /\ rq \in [Reqs -> {"idle", "queued", "dequeued"}]
    /\ cur \in Reqs \cup {NoReq} /\ todo \in SUBSET Segs
    /\ hard_nr \in [Reqs -> Nat]
    /\ bio_end \in [Segs -> {"none", "ok", "err"}]
    /\ claimed \in Slots \cup {NoSlot}
    /\ bio_ring \in [Slots -> Segs \cup {NoSeg}]
    /\ bi_private \in [Segs -> Slots \cup {NoSlot}]
    /\ io \in [Segs -> {"none", "ok", "err"}]

\* i lies in the window of the ring that starts at a and ends before b.
In(i, a, b) == IF a <= b THEN a <= i /\ i < b ELSE i >= a \/ i < b

InFlight == {s \in Segs : bi_private[s] # NoSlot}

\* The assertions in the code: the client only refills a descriptor it owns
\* (client.c:199), the first descriptor of the server's window is the server's
\* whenever a bio completes (server.c:199), and a descriptor the client takes back
\* has a shadow that names a segment (client.c:485).
CodeAssertions ==
    /\ RingAvailable # 0 => c_start_free \notin server_owned
    /\ InFlight # {} => s_start_dirty \in server_owned
    /\ (c_start_dirty # c_start_free /\ c_start_dirty \notin server_owned)
          => shadow[desc[c_start_dirty].client_data] # NoSeg

\* The reordering in end_io keeps every bio in flight, its slot in bio_ring, and the
\* descriptor it points back to, about the same segment.
BiosMatch ==
    \A s \in InFlight :
        /\ bio_ring[bi_private[s]] = s
        /\ bi_private[s] \in server_owned
        /\ desc[bi_private[s]].seg = s

\* A descriptor handed back to the client leads, through client_data, to a segment
\* whose I/O the disk has done, and carries that I/O's outcome: reordering never makes
\* the client end a segment that is still on the disk or end it with another's status.
HandedBackIsDone ==
    \A i \in Slots : In(i, c_start_dirty, s_start_dirty) =>
        LET s == shadow[desc[i].client_data]
        IN  /\ s \in Segs \ InFlight
            /\ bio_end[s] = "none"
            /\ io[s] = desc[i].server_err

\* Each shadow is reached from exactly one descriptor, so no segment's bookkeeping is
\* overwritten while its I/O is under way.
ShadowsPermuted ==
    \A i, j \in Slots : desc[i].client_data = desc[j].client_data => i = j

\* The request's sector count is the number of its segments that have not ended, so the
\* request ends with its last segment and after it left the elevator (the assertion at
\* client.c:510); once it has ended, and Linux may reuse it, no shadow refers to it.
RequestAccounting ==
    \A r \in Reqs :
        /\ rq[r] # "idle" =>
             hard_nr[r] = Cardinality({s \in SegsOf(r) : bio_end[s] = "none"})
        /\ rq[r] = "idle" => \A i \in Slots : shadow[i] \notin SegsOf(r)

\* The server never finds the connection of a descriptor gone: the paths of
\* process_io_queue and end_io for that case, which leave the ring inconsistent, are
\* not taken as long as Linux drains a device before it calls release.
ConnectionNeverGone == (claimed # NoSlot \/ InFlight # {}) => conn

-----------------------------------------------------------------------------
(* The inductive invariant behind these properties. *)

Dist(a, b) == IF a <= b THEN b - a ELSE b - a + Cnt

\* The four indices follow each other around the ring.
IndicesOrdered ==
    /\ Dist(c_start_dirty, s_start_dirty) <= Dist(c_start_dirty, s_start_free)
    /\ Dist(c_start_dirty, s_start_free) <= Dist(c_start_dirty, c_start_free)

Outstanding(i) == In(i, c_start_dirty, c_start_free)

\* Who holds what: the server owns the slots from its start_dirty to the client's
\* start_free, those before its start_free have a bio, the claimed one not yet.
Ownership ==
    /\ \A i \in Slots : i \in server_owned <=> In(i, s_start_dirty, c_start_free)
    /\ \A i \in Slots : bio_ring[i] # NoSeg
                          <=> In(i, s_start_dirty, s_start_free) /\ i # claimed
    /\ claimed # NoSlot => /\ In(claimed, s_start_dirty, s_start_free)
                           /\ Succ(claimed) = s_start_free

\* Descriptors, shadows and bios name the same segments.
Correspondence ==
    /\ \A s \in InFlight : bio_ring[bi_private[s]] = s
    /\ \A i \in Slots : bio_ring[i] # NoSeg =>
            bi_private[bio_ring[i]] = i /\ desc[i].seg = bio_ring[i]
    /\ \A i \in Slots : IF Outstanding(i)
            THEN desc[i].seg \in Segs /\ shadow[desc[i].client_data] = desc[i].seg
            ELSE shadow[desc[i].client_data] = NoSeg
    /\ \A i, j \in Slots : Outstanding(i) /\ Outstanding(j) /\ desc[i].seg = desc[j].seg
            => i = j

\* The outcome of a segment's I/O travels with its descriptor.
Outcomes ==
    \A i \in Slots : Outstanding(i) =>
        LET s == desc[i].seg
        IN  /\ bio_end[s] = "none"
            /\ rq[ReqOf[s]] # "idle"
            /\ s \notin todo
            /\ IF In(i, c_start_dirty, s_start_dirty)
                 THEN io[s] = desc[i].server_err
                 ELSE /\ io[s] = "err" <=> desc[i].server_err = "err"
                      /\ io[s] # "ok"

\* What the elevator and process_request still have to hand over is untouched.
ToSubmit ==
    /\ cur = NoReq <=> todo = {}
    /\ cur # NoReq => rq[cur] = "queued"
    /\ \A s \in todo : ReqOf[s] = cur /\ bio_end[s] = "none" /\ io[s] = "none"
    /\ \A s \in Segs : rq[ReqOf[s]] = "queued" /\ ReqOf[s] # cur =>
            /\ bio_end[s] = "none" /\ io[s] = "none"
            /\ \A i \in Slots : Outstanding(i) => desc[i].seg # s

\* The device is attached while anything is outstanding.
Attached ==
    /\ conn <=> refcnt > 0
    /\ refcnt = 0 => c_start_dirty = c_start_free /\ cur = NoReq

Counted ==
    \A r \in Reqs : rq[r] # "idle" =>
        hard_nr[r] = Cardinality({s \in SegsOf(r) : bio_end[s] = "none"})

\* The ring's inductive invariant.
RingInv ==
    /\ TypeOK
    /\ IndicesOrdered
    /\ Ownership
    /\ Correspondence
    /\ ShadowsPermuted
    /\ Outcomes
    /\ ToSubmit
    /\ Attached
    /\ Counted

-----------------------------------------------------------------------------
(* What the ring implements. *)

BS == INSTANCE BlockService WITH
        active <- {r \in Reqs : rq[r] # "idle"}, done <- io, ended <- bio_end

\* The two sides of the ring together give Linux the block service: every bio ends
\* once, after the disk performed it, with its own outcome, and a request ends with its
\* last bio, however end_io reorders descriptors.
Service == BS!Spec
=============================================================================
