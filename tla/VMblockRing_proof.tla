-------------------------- MODULE VMblockRing_proof --------------------------
(***************************************************************************)
(* The ring's invariants for every ring size, and every set of requests    *)
(* and segments, and that the ring implements BlockService.                *)
(***************************************************************************)
EXTENDS VMblockRing_client, FiniteSetTheorems

-----------------------------------------------------------------------------
(* Types. *)

(* Every step keeps the types: the indices stay on the ring, and the pointers point
   to slots and segments or are null. *)
LEMMA TypeStep == TypeOK /\ [Next]_vars => TypeOK'
<1> SUFFICES ASSUME TypeOK, [Next]_vars PROVE TypeOK'
  OBVIOUS
<1> USE CntAssumption, SegsAssumption, SuccType
<1>1. ASSUME NEW r \in Reqs, Enqueue(r) PROVE TypeOK'
  <2>1. Cardinality(SegsOf(r)) \in Nat
    BY FS_Subset, FS_CardinalityType, Zenon DEF SegsOf
  <2> QED BY <1>1, <2>1, Zenon DEF Enqueue, TypeOK
<1>2. CASE Open
  BY <1>2 DEF Open, TypeOK
<1>3. CASE Release
  BY <1>3 DEF Release, TypeOK
<1>4. ASSUME NEW r \in Reqs, NextRequest(r) PROVE TypeOK'
  BY <1>4 DEF NextRequest, TypeOK, serverVars, SegsOf
<1>5. ASSUME NEW s \in Segs, PutSegment(s) PROVE TypeOK'
  BY <1>5, Zenon DEF PutSegment, TypeOK, serverVars, Descriptors
<1>6. CASE FinishTransfer
  <2> DEFINE d == desc[c_start_dirty]
             r == ReqOf[shadow[d.client_data]]
  <2>1. d \in Descriptors
    BY Zenon DEF TypeOK
  <2>2. hard_nr' \in [Reqs -> Nat] /\ rq' \in [Reqs -> {"idle", "queued", "dequeued"}]
    <3>1. CASE hard_nr[r] <= 1
      BY <1>6, <3>1 DEF FinishTransfer, TypeOK
    <3>2. CASE ~(hard_nr[r] <= 1)
      <4>1. hard_nr' = [hard_nr EXCEPT ![r] = @ - 1] /\ rq' = rq
        BY <1>6, <3>2, Zenon DEF FinishTransfer
      <4>2. r \in Reqs => hard_nr[r] - 1 \in Nat
        BY <3>2 DEF TypeOK
      <4> HIDE DEF r
      <4> QED BY <4>1, <4>2, Zenon DEF TypeOK
    <3> QED BY <3>1, <3>2
  <2>3. bio_end' \in [Segs -> {"none", "ok", "err"}] /\ shadow' \in [Slots -> Segs \cup {NoSeg}]
    BY <1>6, <2>1, Zenon DEF FinishTransfer, TypeOK, Descriptors
  <2> QED BY <1>6, <2>2, <2>3, Zenon DEF FinishTransfer, TypeOK, serverVars
<1>7. CASE ClaimDesc
  BY <1>7, Zenon DEF ClaimDesc, TypeOK, clientVars
<1>8. CASE StartIo
  BY <1>8 DEF StartIo, TypeOK, clientVars, Descriptors, WithErr
<1>9. ASSUME NEW s \in Segs, EndIoPartial(s) PROVE TypeOK'
  BY <1>9, Zenon DEF EndIoPartial, TypeOK, clientVars, Descriptors, WithErr
<1>10. ASSUME NEW s \in Segs, NEW e \in BOOLEAN, EndIo(s, e) PROVE TypeOK'
  <2> DEFINE i == bi_private[s]
             d == IF e THEN WithErr(desc[i]) ELSE desc[i]
  <2>1. i \in Slots /\ d \in Descriptors
    BY <1>10, Zenon DEF EndIo, TypeOK, Descriptors, WithErr
  <2>2. io' \in [Segs -> {"none", "ok", "err"}]
    BY <1>10, Zenon DEF EndIo, TypeOK
  <2> HIDE DEF d
  <2>3. desc' \in [Slots -> Descriptors] /\ server_owned' \in SUBSET Slots
    BY <1>10, <2>1 DEF EndIo, TypeOK, d
  <2>4. bio_ring' \in [Slots -> Segs \cup {NoSeg}] /\ s_start_dirty' \in Slots
        /\ bi_private' \in [Segs -> Slots \cup {NoSlot}]
    BY <1>10, <2>1 DEF EndIo, TypeOK
  <2> QED BY <1>10, <2>2, <2>3, <2>4, Zenon DEF EndIo, TypeOK, clientVars
<1>11. CASE UNCHANGED vars
  BY <1>11, Zenon DEF vars, TypeOK, clientVars, serverVars
<1> QED BY <1>1, <1>2, <1>3, <1>4, <1>5, <1>6, <1>7, <1>8, <1>9, <1>10, <1>11, Zenon DEF Next

-----------------------------------------------------------------------------
(* The inductive invariant. *)

(* finish_transfers ends the segment behind the descriptor at the client's start_dirty,
   and with the request's last segment the request. *)
LEMMA FinishStep ==
  ASSUME RingInv, FinishTransfer PROVE RingInvNoType'
<1> USE SMTT(40), ZenonT(20) DEF RingInv
<1> DEFINE cf == c_start_free
           cd == c_start_dirty
           sd == s_start_dirty
           sf == s_start_free
           x == desc[cd].client_data
           s == desc[cd].seg
           r == ReqOf[s]
           U(b) == {q \in SegsOf(r) : b[q] = "none"}
<1>1. cf \in Slots /\ cd \in Slots /\ sd \in Slots /\ sf \in Slots /\ Succ(cd) \in Slots /\ x \in Slots
  BY SuccType, Zenon DEF TypeOK, Descriptors
<1>2. cd # cf /\ cd \notin server_owned /\ Outstanding(cd)
  BY <1>1, WindowEnds, Zenon DEF FinishTransfer, Outstanding
<1>3. s \in Segs /\ shadow[x] = s /\ r \in Reqs /\ rq[r] # "idle" /\ bio_end[s] = "none"
  BY <1>1, <1>2, SegsAssumption DEF Correspondence, Outcomes
<1>4. /\ UNCHANGED <<server_owned, desc, c_start_free, refcnt, cur, todo, conn, s_start_free,
                     s_start_dirty, claimed, bio_ring, bi_private, io>>
      /\ c_start_dirty' = Succ(cd)
      /\ shadow' = [shadow EXCEPT ![x] = NoSeg]
      /\ bio_end' = [bio_end EXCEPT ![s] = desc[cd].server_err]
      /\ IF hard_nr[r] <= 1
           THEN hard_nr' = [hard_nr EXCEPT ![r] = 0] /\ rq' = [rq EXCEPT ![r] = "idle"]
           ELSE hard_nr' = [hard_nr EXCEPT ![r] = @ - 1] /\ UNCHANGED rq
  BY <1>3, Zenon DEF FinishTransfer, serverVars
<1>5. desc[cd].server_err # "none"
  BY <1>1 DEF TypeOK, Descriptors
<1>6. cd # sd
  \* otherwise the server would still own the descriptor
  BY <1>1, <1>2, WindowEnds, Zenon DEF Ownership
<1> HIDE DEF x, s, r
<1>7. IndicesOrdered'
  <2>1. cd # sf
    <3>1. Dist(cd, cd) = 0
      BY <1>1, CntAssumption DEF Dist, Slots
    <3>2. Dist(cd, sd) + 0 > 0
      BY <1>1, <1>6, CntAssumption DEF Dist, Slots
    <3> QED BY <1>1, <3>1, <3>2, DistStep, CntAssumption DEF IndicesOrdered
  <2>2. /\ Dist(Succ(cd), sd) = Dist(cd, sd) - 1 /\ Dist(Succ(cd), sf) = Dist(cd, sf) - 1
        /\ Dist(Succ(cd), cf) = Dist(cd, cf) - 1
    BY <1>1, <1>2, <1>6, <2>1, DistStep, Zenon
  <2>3. Dist(cd, sd) \in Int /\ Dist(cd, sf) \in Int /\ Dist(cd, cf) \in Int
    BY <1>1, DistStep, CntAssumption
  <2> QED BY <1>4, <2>2, <2>3 DEF IndicesOrdered
<1>8. Ownership' /\ ShadowsPermuted'
  BY <1>4, Zenon DEF Ownership, ShadowsPermuted
<1>9. \A i \in Slots : Outstanding(i)' <=> Outstanding(i) /\ i # cd
  BY <1>1, <1>2, <1>4, WindowShrink, Zenon DEF Outstanding
<1>10. \A i \in Slots : i # cd => desc[i].client_data # x /\ desc[i].client_data \in Slots
  BY <1>1, Zenon DEF ShadowsPermuted, TypeOK, Descriptors, x
<1>11. Correspondence'
  <2>1. \A i \in Slots : IF Outstanding(i)'
            THEN desc'[i].seg \in Segs /\ shadow'[desc'[i].client_data] = desc'[i].seg
            ELSE shadow'[desc'[i].client_data] = NoSeg
    <3> SUFFICES ASSUME NEW i \in Slots
                 PROVE IF Outstanding(i) /\ i # cd
                         THEN desc[i].seg \in Segs /\ shadow'[desc[i].client_data] = desc[i].seg
                         ELSE shadow'[desc[i].client_data] = NoSeg
      BY <1>4, <1>9, Zenon
    <3>1. CASE i = cd
      BY <1>1, <1>4, <3>1, Zenon DEF TypeOK, x
    <3>2. CASE i # cd
      <4>1. shadow'[desc[i].client_data] = shadow[desc[i].client_data]
        BY <1>1, <1>4, <1>10, <3>2, Zenon DEF TypeOK
      <4> QED BY <3>2, <4>1, Zenon DEF Correspondence
    <3> QED BY <3>1, <3>2, Zenon
  <2>2. \A i, j \in Slots : Outstanding(i)' /\ Outstanding(j)' /\ desc'[i].seg = desc'[j].seg
            => i = j
    BY <1>4, <1>9, Zenon DEF Correspondence
  <2> QED BY <1>4, <2>1, <2>2, Zenon DEF Correspondence, InFlight
<1>12. \A i \in Slots : Outstanding(i)' => desc[i].seg # s /\ desc[i].seg \in Segs
  BY <1>1, <1>2, <1>9, Zenon DEF Correspondence, s
<1>13. \A q \in Segs : bio_end'[q] = IF q = s THEN desc[cd].server_err ELSE bio_end[q]
  BY <1>3, <1>4, Zenon DEF TypeOK
<1>14. /\ IsFiniteSet(U(bio_end)) /\ s \in U(bio_end) /\ U(bio_end') = U(bio_end) \ {s}
       /\ hard_nr[r] = Cardinality(U(bio_end))
       /\ Cardinality(U(bio_end')) = Cardinality(U(bio_end)) - 1 /\ Cardinality(U(bio_end)) \in Nat
  <2>1. IsFiniteSet(U(bio_end)) /\ s \in U(bio_end) /\ U(bio_end') = U(bio_end) \ {s}
    BY <1>3, <1>5, <1>13, SegsAssumption, FS_Subset, Zenon DEF SegsOf, r
  <2>2. hard_nr[r] = Cardinality(U(bio_end))
    BY <1>3, Zenon DEF Counted
  <2> HIDE DEF U
  <2> QED BY <2>1, <2>2, FS_RemoveElement, FS_CardinalityType, Zenon
<1>15. ASSUME hard_nr[r] <= 1 PROVE U(bio_end') = {}
  <2> HIDE DEF U
  <2>1. IsFiniteSet(U(bio_end')) /\ Cardinality(U(bio_end')) \in Nat
    BY <1>14, FS_Subset, FS_CardinalityType, Zenon
  <2>2. Cardinality(U(bio_end')) = 0
    BY <1>14, <1>15, <2>1
  <2> QED BY <2>1, <2>2, FS_EmptySet, Zenon
<1>16. \A q \in Segs : ReqOf[q] = r /\ bio_end'[q] = "none" => ~(hard_nr[r] <= 1)
  BY <1>15, Zenon DEF SegsOf
<1>17. \A q \in Reqs : q # r => rq'[q] = rq[q] /\ hard_nr'[q] = hard_nr[q]
  BY <1>3, <1>4 DEF TypeOK
<1>18. s \notin todo
  BY <1>1, <1>2, Zenon DEF Outcomes, s
<1>19. Outcomes'
  <2> SUFFICES ASSUME NEW i \in Slots, Outstanding(i)'
               PROVE /\ bio_end'[desc[i].seg] = "none"
                     /\ rq'[ReqOf[desc[i].seg]] # "idle"
                     /\ desc[i].seg \notin todo
                     /\ IF In(i, Succ(cd), sd) THEN io[desc[i].seg] = desc[i].server_err
                        ELSE /\ io[desc[i].seg] = "err" <=> desc[i].server_err = "err"
                             /\ io[desc[i].seg] # "ok"
    BY <1>4, Zenon DEF Outcomes
  <2>1. Outstanding(i) /\ i # cd /\ bio_end'[desc[i].seg] = "none" /\ desc[i].seg \in Segs
    BY <1>9, <1>12, <1>13, Zenon DEF Outcomes
  <2>2. rq'[ReqOf[desc[i].seg]] # "idle"
    <3>1. ReqOf[desc[i].seg] \in Reqs /\ rq[ReqOf[desc[i].seg]] # "idle"
      BY <2>1, SegsAssumption DEF Outcomes
    <3>2. ReqOf[desc[i].seg] = r => rq' = rq
      BY <1>4, <1>16, <2>1, Zenon
    <3> QED BY <1>17, <3>1, <3>2, Zenon
  <2>3. In(i, Succ(cd), sd) <=> In(i, cd, sd)
    BY <1>1, <1>6, <2>1, WindowShrink, Zenon
  <2> QED BY <2>1, <2>2, <2>3, Zenon DEF Outcomes
<1>20. ToSubmit'
  <2>1. cur # NoReq => rq'[cur] = "queued"
    \* a segment still to be put keeps the count above one
    <3> SUFFICES ASSUME cur # NoReq PROVE rq'[cur] = "queued"
      OBVIOUS
    <3>1. PICK q \in todo : TRUE
      BY Zenon DEF ToSubmit
    <3>2. q \in Segs /\ ReqOf[q] = cur /\ bio_end'[q] = "none" /\ cur \in Reqs /\ rq[cur] = "queued"
      BY <1>13, <1>18, <3>1, Zenon DEF ToSubmit, TypeOK
    <3>3. cur = r => rq' = rq
      BY <1>4, <1>16, <3>2, Zenon
    <3> QED BY <1>17, <3>2, <3>3
  <2>2. \A q \in todo : ReqOf[q] = cur /\ bio_end'[q] = "none" /\ io[q] = "none"
    BY <1>13, <1>18, Zenon DEF ToSubmit, TypeOK
  <2>3. ASSUME NEW q \in Segs, rq'[ReqOf[q]] = "queued", ReqOf[q] # cur
        PROVE /\ bio_end'[q] = "none" /\ io[q] = "none"
              /\ \A i \in Slots : Outstanding(i)' => desc[i].seg # q
    <3>1. ReqOf[q] \in Reqs
      BY SegsAssumption, Zenon
    <3>2. rq[ReqOf[q]] = "queued"
      <4>1. CASE ReqOf[q] = r
        BY <1>3, <1>4, <2>3, <4>1, Zenon DEF TypeOK
      <4>2. CASE ReqOf[q] # r
        BY <1>17, <2>3, <3>1, <4>2, Zenon
      <4> QED BY <4>1, <4>2, Zenon
    <3>3. q # s
      BY <1>1, <1>2, <2>3, <3>2, Zenon DEF ToSubmit, s
    <3> QED BY <1>9, <1>13, <2>3, <3>2, <3>3, Zenon DEF ToSubmit
  <2> QED BY <1>4, <2>1, <2>2, <2>3, Zenon DEF ToSubmit
<1>21. Attached'
  BY <1>2, <1>4, Zenon DEF Attached
<1>22. Counted'
  <2> SUFFICES ASSUME NEW q \in Reqs, rq'[q] # "idle"
               PROVE hard_nr'[q] = Cardinality({z \in SegsOf(q) : bio_end'[z] = "none"})
    BY Zenon DEF Counted
  <2>1. CASE q = r
    <3>1. ~(hard_nr[r] <= 1) /\ hard_nr'[r] = hard_nr[r] - 1
      BY <1>3, <1>4, <2>1 DEF TypeOK
    <3> QED BY <1>14, <2>1, <3>1, Zenon
  <2>2. CASE q # r
    <3>1. {z \in SegsOf(q) : bio_end'[z] = "none"} = {z \in SegsOf(q) : bio_end[z] = "none"}
      BY <1>13, <2>2, Zenon DEF SegsOf, r
    <3> QED BY <1>17, <2>2, <3>1 DEF Counted
  <2> QED BY <2>1, <2>2, Zenon
<1> QED BY <1>7, <1>8, <1>11, <1>19, <1>20, <1>21, <1>22, Zenon DEF RingInvNoType

(* The ring's invariant holds throughout, for every ring size of at least two, every set
   of requests and every finite set of segments: the handover of descriptors by
   process_request, process_io_queue, end_io and finish_transfers keeps it. *)
THEOREM RingInvariant == Spec => []RingInv
<1>1. RingInv /\ [Next]_vars => RingInv'
  <2> SUFFICES ASSUME RingInv, [Next]_vars PROVE RingInv'
    OBVIOUS
  <2>1. TypeOK'
    BY TypeStep, Zenon DEF RingInv
  <2>2. ASSUME NEW r \in Reqs, Enqueue(r) PROVE RingInvNoType'
    BY <2>1, <2>2, EnqueueStep, Zenon
  <2>3. ASSUME Open \/ Release PROVE RingInvNoType'
    BY <2>1, <2>3, OpenReleaseStep, Zenon
  <2>4. ASSUME NEW r \in Reqs, NextRequest(r) PROVE RingInvNoType'
    BY <2>1, <2>4, NextRequestStep, Zenon
  <2>5. ASSUME NEW s \in Segs, PutSegment(s) PROVE RingInvNoType'
    BY <2>1, <2>5, PutStep, Zenon
  <2>6. ASSUME FinishTransfer PROVE RingInvNoType'
    BY <2>1, <2>6, FinishStep, Zenon
  <2>7. ASSUME ClaimDesc PROVE RingInvNoType'
    BY <2>1, <2>7, ClaimStep, Zenon
  <2>8. ASSUME StartIo PROVE RingInvNoType'
    BY <2>1, <2>8, StartStep, Zenon
  <2>9. ASSUME NEW s \in Segs, EndIoPartial(s) PROVE RingInvNoType'
    BY <2>1, <2>9, PartialStep, Zenon
  <2>10. ASSUME NEW s \in Segs, NEW e \in BOOLEAN, EndIo(s, e) PROVE RingInvNoType'
    BY <2>1, <2>10, EndStep, Zenon
  <2>11. CASE UNCHANGED vars
    BY <2>11, StutterStep
  <2>12. CASE RingInvNoType'
    BY <2>1, <2>12 DEF RingInv, RingInvNoType
  <2> QED BY <2>2, <2>3, <2>4, <2>5, <2>6, <2>7, <2>8, <2>9, <2>10, <2>11, <2>12 DEF Next
<1> QED BY <1>1, InitRingInv, PTL DEF Spec

(* The variables of both sides keep their types, the indices their range. *)
THEOREM TypeCorrect == Spec => []TypeOK
<1>1. RingInv => TypeOK
  BY Zenon DEF RingInv
<1> QED BY <1>1, RingInvariant, PTL

(* No assertion about the ring in client.c or server.c ever fails. *)
THEOREM AssertionsHold == Spec => []CodeAssertions
<1> SUFFICES RingInv => CodeAssertions
  BY RingInvariant, PTL
<1> SUFFICES ASSUME RingInv PROVE CodeAssertions
  OBVIOUS
<1> USE SMTT(40), ZenonT(20) DEF RingInv
<1>1. c_start_free \in Slots /\ c_start_dirty \in Slots /\ s_start_dirty \in Slots
  BY Zenon DEF TypeOK
<1>2. c_start_free \notin server_owned
  BY <1>1, WindowEnds, Zenon DEF Ownership
<1>3. InFlight # {} => s_start_dirty \in server_owned
  <2> SUFFICES ASSUME NEW s \in InFlight PROVE s_start_dirty \in server_owned
    OBVIOUS
  <2>1. bi_private[s] \in Slots /\ bi_private[s] \in server_owned
    BY InFlightSlot, Zenon DEF InFlight, Ownership
  <2>2. s_start_dirty # c_start_free
    BY <1>1, <2>1 DEF Ownership, In, Slots
  <2> QED BY <1>1, <2>2, WindowEnds, Zenon DEF Ownership
<1>4. c_start_dirty # c_start_free => shadow[desc[c_start_dirty].client_data] # NoSeg
  BY <1>1, WindowEnds, NullAssumption DEF Correspondence, Outstanding
<1> QED BY <1>2, <1>3, <1>4, Zenon DEF CodeAssertions

(* end_io's reordering keeps bios, bio_ring and descriptors about the same segments. *)
THEOREM ReorderingSound == Spec => []BiosMatch
<1> SUFFICES RingInv => BiosMatch
  BY RingInvariant, PTL
<1> SUFFICES ASSUME RingInv, NEW s \in InFlight
             PROVE /\ bio_ring[bi_private[s]] = s /\ bi_private[s] \in server_owned
                   /\ desc[bi_private[s]].seg = s
  BY Zenon DEF BiosMatch
<1> QED BY InFlightSlot, Zenon DEF RingInv, InFlight, Ownership

(* What the server hands back is done, with the outcome the disk gave it. *)
THEOREM CompletionCorrect == Spec => []HandedBackIsDone
<1> SUFFICES RingInv => HandedBackIsDone
  BY RingInvariant, PTL
<1> SUFFICES ASSUME RingInv, NEW i \in Slots, In(i, c_start_dirty, s_start_dirty)
             PROVE LET s == shadow[desc[i].client_data]
                   IN  s \in Segs \ InFlight /\ bio_end[s] = "none" /\ io[s] = desc[i].server_err
  BY Zenon DEF HandedBackIsDone
<1> USE SMTT(40), ZenonT(20) DEF RingInv
<1>1. c_start_free \in Slots /\ c_start_dirty \in Slots /\ s_start_dirty \in Slots
  BY Zenon DEF TypeOK
<1>2. Outstanding(i) /\ i \notin server_owned
  <2>1. Dist(c_start_dirty, s_start_dirty) <= Dist(c_start_dirty, c_start_free)
    BY <1>1, DistStep, CntAssumption DEF IndicesOrdered, TypeOK
  <2> QED BY <1>1, <2>1, WindowSplit DEF Ownership, Outstanding
<1>3. shadow[desc[i].client_data] = desc[i].seg /\ desc[i].seg \in Segs
  BY <1>2, Zenon DEF Correspondence
<1>4. desc[i].seg \notin InFlight
  <2> SUFFICES ASSUME desc[i].seg \in InFlight PROVE FALSE
    OBVIOUS
  <2> DEFINE k == bi_private[desc[i].seg]
  <2>1. k \in Slots /\ k \in server_owned /\ Outstanding(k) /\ desc[k].seg = desc[i].seg
    BY <1>3, InFlightSlot, Zenon DEF InFlight, Ownership
  <2> QED BY <1>2, <2>1, Zenon DEF Correspondence
<1> QED BY <1>2, <1>3, <1>4, Zenon DEF Outcomes

(* Each shadow is reached from exactly one descriptor. *)
THEOREM ShadowsSound == Spec => []ShadowsPermuted
<1>1. RingInv => ShadowsPermuted
  BY Zenon DEF RingInv
<1> QED BY <1>1, RingInvariant, PTL

(* No shadow is lost either: an injection of the slots into themselves is onto. *)
LEMMA ShadowsOnto ==
  ASSUME TypeOK, ShadowsPermuted PROVE \A x \in Slots : \E i \in Slots : desc[i].client_data = x
<1> DEFINE f == [i \in Slots |-> desc[i].client_data]
<1>1. f \in [Slots -> Slots] /\ IsFiniteSet(Slots)
  <2>1. IsFiniteSet(0 .. Cnt - 1)
    BY FS_Interval, CntAssumption
  <2> QED BY <2>1, Zenon DEF TypeOK, Descriptors, Slots
<1>2. f \in Injection(Slots, Slots)
  BY <1>1, Zenon DEF ShadowsPermuted, Injection, IsInjective
<1>3. f \in Surjection(Slots, Slots)
  BY <1>1, <1>2, FS_Injection, Zenon
<1> QED BY <1>3, Zenon DEF Surjection

(* A request ends with its last segment, and leaves no shadow behind. *)
THEOREM AccountingCorrect == Spec => []RequestAccounting
<1>1. RingInv => RequestAccounting
  <2> SUFFICES ASSUME RingInv, NEW r \in Reqs, rq[r] = "idle", NEW x \in Slots
               PROVE shadow[x] \notin SegsOf(r)
    BY Zenon DEF RequestAccounting, RingInv, Counted
  <2> USE DEF RingInv
  <2>1. PICK i \in Slots : desc[i].client_data = x
    BY ShadowsOnto, Zenon
  <2>2. CASE Outstanding(i)
    BY <2>1, <2>2 DEF Correspondence, Outcomes, SegsOf
  <2>3. CASE ~Outstanding(i)
    BY <2>1, <2>3, NullAssumption, Zenon DEF Correspondence, SegsOf
  <2> QED BY <2>2, <2>3, Zenon
<1> QED
  BY <1>1, RingInvariant, PTL

(* The server's paths for a vanished connection are not taken. *)
THEOREM ConnectionHeld == Spec => []ConnectionNeverGone
<1> SUFFICES RingInv => ConnectionNeverGone
  BY RingInvariant, PTL
<1> SUFFICES ASSUME RingInv, claimed # NoSlot \/ InFlight # {} PROVE conn
  BY Zenon DEF ConnectionNeverGone
<1> USE SMTT(40), ZenonT(20) DEF RingInv
<1>1. c_start_dirty # c_start_free
  <2>1. CASE claimed # NoSlot
    <3>1. claimed \in Slots /\ s_start_free \in Slots /\ s_start_dirty \in Slots
          /\ c_start_dirty \in Slots /\ c_start_free \in Slots
      BY <2>1, Zenon DEF TypeOK
    <3>2. s_start_dirty # s_start_free
      BY <2>1, <3>1, WindowEnds, Zenon DEF Ownership
    <3> QED BY <3>1, <3>2, CntAssumption DEF IndicesOrdered, Dist, Slots
  <2>2. CASE InFlight # {}
    <3>1. PICK s \in Segs : bi_private[s] # NoSlot
      BY <2>2, Zenon DEF InFlight
    <3>2. bi_private[s] \in Slots /\ Outstanding(bi_private[s]) /\ c_start_dirty \in Slots
      BY <3>1, InFlightSlot, Zenon DEF TypeOK
    <3> QED BY <3>2, WindowEnds, Zenon DEF Outstanding
  <2> QED BY <2>1, <2>2, Zenon
<1> QED BY <1>1 DEF Attached, TypeOK

-----------------------------------------------------------------------------
(* The ring implements the block service.                                  *)

(* finish_transfers ends one bio, and the request when it was the last. *)
LEMMA EndsOne ==
  ASSUME RingInv, FinishTransfer PROVE \E s \in Segs : BS!End(s)
<1> USE SMTT(40), ZenonT(20) DEF RingInv
<1> DEFINE cd == c_start_dirty
           s == desc[cd].seg
           r == ReqOf[s]
           U == {q \in SegsOf(r) : bio_end[q] = "none"}
<1>0. cd # c_start_free /\ cd \notin server_owned
  BY Zenon DEF FinishTransfer
<1>1. cd \in Slots /\ c_start_free \in Slots /\ s_start_dirty \in Slots /\ Outstanding(cd)
  <2>1. cd \in Slots /\ c_start_free \in Slots /\ s_start_dirty \in Slots
    BY Zenon DEF TypeOK
  <2> QED BY <1>0, <2>1, WindowEnds, Zenon DEF Outstanding
<1>2. s \in Segs /\ shadow[desc[cd].client_data] = s /\ r \in Reqs
  BY <1>1, SegsAssumption, Zenon DEF Correspondence
<1>3. cd # s_start_dirty
  BY <1>0, <1>1, WindowEnds, Zenon DEF Ownership
<1>4. bio_end[s] = "none" /\ rq[r] # "idle" /\ io[s] = desc[cd].server_err
  BY <1>1, <1>2, <1>3, WindowEnds, Zenon DEF Outcomes
<1>5. desc[cd].server_err # "none"
  BY <1>1, Zenon DEF TypeOK, Descriptors
<1>6. bio_end' = [bio_end EXCEPT ![s] = io[s]] /\ UNCHANGED io
  BY <1>2, <1>4, Zenon DEF FinishTransfer, serverVars
<1>7. rq' = IF hard_nr[r] <= 1 THEN [rq EXCEPT ![r] = "idle"] ELSE rq
  BY <1>2, Zenon DEF FinishTransfer
<1> HIDE DEF s, r
<1>8. hard_nr[r] <= 1 <=> \A t \in SegsOf(r) \ {s} : bio_end[t] # "none"
  <2>1. IsFiniteSet(U) /\ s \in U
    BY <1>2, <1>4, SegsAssumption, FS_Subset, Zenon DEF SegsOf, r
  <2>2. hard_nr[r] = Cardinality(U) /\ hard_nr[r] \in Nat
    BY <1>2, <1>4, Zenon DEF Counted, TypeOK
  <2>3. U \ {s} = {} <=> \A t \in SegsOf(r) \ {s} : bio_end[t] # "none"
    OBVIOUS
  <2> HIDE DEF U
  <2>4. IsFiniteSet(U \ {s}) /\ Cardinality(U \ {s}) = Cardinality(U) - 1
    BY <2>1, FS_RemoveElement, Zenon
  <2>5. Cardinality(U \ {s}) = 0 <=> U \ {s} = {}
    BY <2>4, FS_EmptySet, Zenon
  <2>6. Cardinality(U \ {s}) \in Nat
    BY <2>4, FS_CardinalityType, Zenon
  <2> QED BY <2>2, <2>3, <2>4, <2>5, <2>6
<1>9. {q \in Reqs : rq'[q] # "idle"} =
        IF \A t \in SegsOf(r) \ {s} : bio_end[t] # "none"
          THEN {q \in Reqs : rq[q] # "idle"} \ {r} ELSE {q \in Reqs : rq[q] # "idle"}
  BY <1>2, <1>7, <1>8, Zenon DEF TypeOK
<1>10. SegsOf(r) = BS!Of(ReqOf[s])
  BY Zenon DEF SegsOf, BS!Of, r
<1>11. PICK t \in Segs : t = s
  BY <1>2, Zenon
<1>12. BS!End(t)
  BY <1>2, <1>4, <1>5, <1>6, <1>9, <1>10, <1>11, Zenon DEF BS!End, r
<1> QED BY <1>12, Zenon

(* Every step of the ring is a step of the block service or changes nothing of it. *)
LEMMA ServiceStep ==
  ASSUME RingInv, [Next]_vars PROVE [BS!Next]_(BS!svars)
<1> USE SMTT(40), ZenonT(20) DEF RingInv
<1> DEFINE active == {q \in Reqs : rq[q] # "idle"}
<1>1. ASSUME UNCHANGED <<rq, io, bio_end>> PROVE UNCHANGED BS!svars
  BY <1>1, Zenon DEF BS!svars
<1>2. ASSUME NEW r \in Reqs, Enqueue(r) PROVE BS!Submit(r)
  <2>1. active' = active \cup {r}
    BY <1>2, Zenon DEF Enqueue, TypeOK
  <2> QED BY <1>2, <2>1, Zenon DEF Enqueue, BS!Submit
<1>3. ASSUME Open \/ Release \/ ClaimDesc \/ StartIo PROVE UNCHANGED BS!svars
  BY <1>1, <1>3, Zenon DEF Open, Release, ClaimDesc, StartIo, clientVars
<1>4. ASSUME NEW r \in Reqs, NextRequest(r) PROVE BS!Refuse(r) \/ UNCHANGED BS!svars
  <2>1. CASE refcnt # 0
    BY <1>1, <1>4, <2>1, Zenon DEF NextRequest, serverVars
  <2>2. CASE refcnt = 0
    <3>1. /\ rq[r] = "queued" /\ rq' = [rq EXCEPT ![r] = "idle"] /\ UNCHANGED io
          /\ bio_end' = [s \in Segs |-> IF ReqOf[s] = r THEN "err" ELSE bio_end[s]]
      BY <1>4, <2>2, Zenon DEF NextRequest, serverVars
    <3>2. active' = active \ {r} /\ r \in active
      BY <3>1, Zenon DEF TypeOK
    <3>3. r # cur
      BY <1>4, NullAssumption, Zenon DEF NextRequest
    <3>4. \A s \in BS!Of(r) : io[s] = "none" /\ bio_end[s] = "none"
      BY <3>1, <3>3 DEF ToSubmit, BS!Of
    <3> QED BY <3>1, <3>2, <3>4 DEF BS!Refuse
  <2> QED BY <2>1, <2>2
<1>5. ASSUME NEW s \in Segs, PutSegment(s) PROVE UNCHANGED BS!svars
  <2>1. UNCHANGED <<io, bio_end>>
    BY <1>5 DEF PutSegment, serverVars
  <2>2. cur # NoReq /\ cur \in Reqs /\ rq[cur] # "idle"
    BY <1>5 DEF PutSegment, ToSubmit, TypeOK
  <2>3. active' = active
    BY <1>5, <2>2, Zenon DEF PutSegment, TypeOK
  <2> QED BY <2>1, <2>3, Zenon DEF BS!svars
<1>6. ASSUME FinishTransfer PROVE \E s \in Segs : BS!End(s)
  BY <1>6, EndsOne, Zenon
<1>7. ASSUME NEW s \in Segs, EndIoPartial(s) PROVE BS!Perform(s, "err")
  BY <1>7, PerformStep, Zenon DEF EndIoPartial, clientVars
<1>8. ASSUME NEW s \in Segs, NEW e \in BOOLEAN, EndIo(s, e)
      PROVE  \E f \in {"ok", "err"} : BS!Perform(s, f)
  <2> DEFINE f == IF e \/ io[s] = "err" THEN "err" ELSE "ok"
  <2>1. bi_private[s] # NoSlot /\ UNCHANGED <<rq, bio_end>> /\ io' = [io EXCEPT ![s] = f]
    BY <1>8, Zenon DEF EndIo, clientVars
  <2>2. f \in {"ok", "err"} /\ (io[s] = "err" => f = "err")
    OBVIOUS
  <2> HIDE DEF f
  <2> QED BY <2>1, <2>2, PerformStep, Zenon
<1>9. ASSUME UNCHANGED vars PROVE UNCHANGED BS!svars
  BY <1>1, <1>9, Zenon DEF vars, clientVars, serverVars
<1>10. CASE UNCHANGED BS!svars
  BY <1>10, Zenon
<1>11. CASE BS!Next
  BY <1>11, Zenon
<1> QED BY <1>2, <1>3, <1>4, <1>5, <1>6, <1>7, <1>8, <1>9, <1>10, <1>11, Zenon DEF Next, BS!Next

(* The ring implements the block service, for every instance. *)
THEOREM ImplementsService == Spec => Service
<1>1. Init => BS!Init
  BY DEF Init, BS!Init
<1>2. RingInv /\ [Next]_vars => [BS!Next]_(BS!svars)
  BY ServiceStep, Zenon
<1> QED BY <1>1, <1>2, RingInvariant, PTL DEF Spec, Service, BS!Spec
=============================================================================
