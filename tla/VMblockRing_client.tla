------------------------- MODULE VMblockRing_client -------------------------
(***************************************************************************)
(* Lemmas for VMblockRing_proof: the steps of the client keep the invariant.   *)
(***************************************************************************)
EXTENDS VMblockRing_lemmas

(* Steps that leave the ring itself alone: a new request, an open or a release, and the
   choice of the next request. *)
LEMMA EnqueueStep ==
  ASSUME RingInv, NEW r \in Reqs, Enqueue(r), TypeOK' PROVE RingInvNoType'
<1> USE SMTT(40), ZenonT(20) DEF RingInv
<1>1. /\ UNCHANGED <<server_owned, desc, shadow, c_start_free, c_start_dirty, refcnt, cur, todo,
                    conn, s_start_free, s_start_dirty, claimed, bio_ring, bi_private>>
      /\ rq[r] = "idle" /\ rq' = [rq EXCEPT ![r] = "queued"]
      /\ bio_end' = [s \in Segs |-> IF ReqOf[s] = r THEN "none" ELSE bio_end[s]]
      /\ io' = [s \in Segs |-> IF ReqOf[s] = r THEN "none" ELSE io[s]]
      /\ hard_nr' = [hard_nr EXCEPT ![r] = Cardinality(SegsOf(r))]
  BY Zenon DEF Enqueue
<1>2. IndicesOrdered' /\ Ownership' /\ ShadowsPermuted' /\ Attached'
  BY <1>1, Zenon DEF IndicesOrdered, Ownership, ShadowsPermuted, Attached
<1>3. Correspondence'
  BY <1>1, Zenon DEF Correspondence, InFlight, Outstanding
<1>4. Outcomes'
  BY <1>1, SegsAssumption DEF Outcomes, Outstanding, Correspondence, TypeOK
<1>5. ToSubmit'
  BY <1>1, SegsAssumption DEF ToSubmit, Outcomes, Outstanding, Correspondence, TypeOK
<1>6. Counted'
  <2> SUFFICES ASSUME NEW q \in Reqs, rq'[q] # "idle"
               PROVE hard_nr'[q] = Cardinality({s \in SegsOf(q) : bio_end'[s] = "none"})
    BY Zenon DEF Counted
  <2>1. CASE q = r
    <3>1. {s \in SegsOf(q) : bio_end'[s] = "none"} = SegsOf(q)
      BY <1>1, <2>1 DEF SegsOf
    <3>2. hard_nr'[r] = Cardinality(SegsOf(r))
      BY <1>1 DEF TypeOK
    <3> QED BY <2>1, <3>1, <3>2, Zenon
  <2>2. CASE q # r
    <3>1. {s \in SegsOf(q) : bio_end'[s] = "none"} = {s \in SegsOf(q) : bio_end[s] = "none"}
      BY <1>1, <2>2, Zenon DEF SegsOf
    <3> QED BY <1>1, <2>2, <3>1 DEF TypeOK, Counted
  <2> QED BY <2>1, <2>2, Zenon
<1> QED BY <1>2, <1>3, <1>4, <1>5, <1>6, Zenon DEF RingInvNoType

(* An open or a release: nothing is outstanding when the connection goes. *)
LEMMA OpenReleaseStep ==
  ASSUME RingInv, Open \/ Release, TypeOK' PROVE RingInvNoType'
<1> USE SMTT(40), ZenonT(20) DEF RingInv
<1>1. UNCHANGED <<server_owned, desc, shadow, c_start_free, c_start_dirty, rq, cur, todo, hard_nr,
                  bio_end, s_start_free, s_start_dirty, claimed, bio_ring, bi_private, io>>
  BY Zenon DEF Open, Release
<1>2. IndicesOrdered' /\ Ownership' /\ ShadowsPermuted' /\ Counted'
  BY <1>1 DEF IndicesOrdered, Ownership, ShadowsPermuted, Counted
<1>3. Correspondence' /\ Outcomes' /\ ToSubmit'
  BY <1>1 DEF Correspondence, InFlight, Outstanding, Outcomes, ToSubmit
<1>4. ASSUME Drained PROVE c_start_dirty = c_start_free /\ cur = NoReq
  <2>1. Outstanding(c_start_dirty) <=> c_start_dirty # c_start_free
    BY WindowEnds, Zenon DEF Outstanding, TypeOK
  <2> QED BY <1>4, <2>1, SegsAssumption DEF Drained, Outcomes, ToSubmit, Correspondence, TypeOK
<1>5. Attached'
  BY <1>1, <1>4, SegsAssumption DEF Open, Release, Attached, TypeOK
<1> QED BY <1>2, <1>3, <1>5, Zenon DEF RingInvNoType

(* do_request starts on a request, or ends it in error when nothing is attached. *)
LEMMA NextRequestStep ==
  ASSUME RingInv, NEW r \in Reqs, NextRequest(r) PROVE RingInvNoType'
<1> USE SMTT(40), ZenonT(20) DEF RingInv
<1>1. UNCHANGED <<server_owned, desc, shadow, c_start_free, c_start_dirty, refcnt, hard_nr,
                  conn, s_start_free, s_start_dirty, claimed, bio_ring, bi_private, io>>
  BY Zenon DEF NextRequest, serverVars
<1>2. IndicesOrdered' /\ Ownership' /\ ShadowsPermuted'
  BY <1>1, Zenon DEF IndicesOrdered, Ownership, ShadowsPermuted
<1>3. Correspondence'
  BY <1>1, Zenon DEF Correspondence, InFlight, Outstanding
<1>4. Attached'
  BY <1>1, Zenon DEF NextRequest, Attached
<1>5. cur = NoReq /\ todo = {} /\ rq[r] = "queued" /\ r # NoReq
  BY NullAssumption DEF NextRequest, ToSubmit
<1>6. CASE refcnt = 0
  <2>1. /\ UNCHANGED <<cur, todo>> /\ rq' = [rq EXCEPT ![r] = "idle"]
        /\ bio_end' = [s \in Segs |-> IF ReqOf[s] = r THEN "err" ELSE bio_end[s]]
    BY <1>6, Zenon DEF NextRequest
  <2>2. \A i \in Slots : ~Outstanding(i)
    BY <1>6, WindowEnds DEF Attached, Outstanding, TypeOK
  <2>3. Outcomes'
    BY <1>1, <2>2, Zenon DEF Outcomes, Outstanding
  <2>4. ToSubmit'
    BY <1>1, <1>5, <2>1, <2>2, SegsAssumption, Zenon DEF ToSubmit, Outstanding, TypeOK
  <2>5. Counted'
    <3> SUFFICES ASSUME NEW q \in Reqs, rq'[q] # "idle"
                 PROVE hard_nr'[q] = Cardinality({s \in SegsOf(q) : bio_end'[s] = "none"})
      BY Zenon DEF Counted
    <3>1. q # r /\ rq[q] # "idle"
      BY <2>1, Zenon DEF TypeOK
    <3>2. {s \in SegsOf(q) : bio_end'[s] = "none"} = {s \in SegsOf(q) : bio_end[s] = "none"}
      BY <2>1, <3>1, Zenon DEF SegsOf
    <3> QED BY <1>1, <3>1, <3>2, Zenon DEF Counted
  <2> QED BY <1>2, <1>3, <1>4, <2>3, <2>4, <2>5, Zenon DEF RingInvNoType
<1>7. CASE refcnt # 0
  <2>1. cur' = r /\ todo' = SegsOf(r) /\ UNCHANGED <<rq, bio_end>>
    BY <1>7, Zenon DEF NextRequest
  <2>2. \A s \in SegsOf(r) : /\ ReqOf[s] = r /\ bio_end[s] = "none" /\ io[s] = "none"
                              /\ \A i \in Slots : Outstanding(i) => desc[i].seg # s
    BY <1>5 DEF SegsOf, ToSubmit
  <2>3. Outcomes'
    <3>1. \A i \in Slots : Outstanding(i) => desc[i].seg \notin todo'
      BY <2>1, <2>2, Zenon
    <3> QED BY <1>1, <2>1, <3>1, Zenon DEF Outcomes, Outstanding
  <2>4. ToSubmit'
    <3>1. (cur' = NoReq <=> todo' = {}) /\ rq'[cur'] = "queued"
      BY <1>5, <2>1, SegsAssumption, Zenon
    <3>2. \A s \in todo' : ReqOf[s] = cur' /\ bio_end'[s] = "none" /\ io'[s] = "none"
      BY <1>1, <2>1, <2>2, Zenon
    <3>3. ASSUME NEW s \in Segs, rq'[ReqOf[s]] = "queued", ReqOf[s] # cur'
          PROVE  /\ bio_end'[s] = "none" /\ io'[s] = "none"
                 /\ \A i \in Slots : Outstanding(i)' => desc'[i].seg # s
      <4>1. rq[ReqOf[s]] = "queued" /\ ReqOf[s] # cur
        BY <1>5, <2>1, <3>3, SegsAssumption, NullAssumption, Zenon
      <4>2. /\ bio_end[s] = "none" /\ io[s] = "none"
            /\ \A i \in Slots : Outstanding(i) => desc[i].seg # s
        BY <4>1, Zenon DEF ToSubmit
      <4>3. \A i \in Slots : Outstanding(i)' <=> Outstanding(i)
        BY <1>1, Zenon DEF Outstanding
      <4> QED BY <1>1, <2>1, <4>2, <4>3, Zenon
    <3> QED BY <3>1, <3>2, <3>3 DEF ToSubmit
  <2>5. Counted'
    BY <1>1, <2>1 DEF Counted
  <2> QED BY <1>2, <1>3, <1>4, <2>3, <2>4, <2>5, Zenon DEF RingInvNoType
<1> QED BY <1>6, <1>7, Zenon

(* process_request puts a segment into the descriptor at start_free. *)
LEMMA PutStep ==
  ASSUME RingInv, NEW s \in Segs, PutSegment(s) PROVE RingInvNoType'
<1> USE SMTT(40), ZenonT(20) DEF RingInv
<1> DEFINE cf == c_start_free
           cd == c_start_dirty
           sd == s_start_dirty
           sf == s_start_free
           x == desc[cf].client_data
<1>1. /\ UNCHANGED <<c_start_dirty, refcnt, hard_nr, bio_end, conn, s_start_free, s_start_dirty,
                     claimed, bio_ring, bi_private, io>>
      /\ c_start_free' = Succ(cf)
      /\ server_owned' = server_owned \cup {cf}
      /\ desc' = [desc EXCEPT ![cf] = [server_err |-> "ok", seg |-> s, client_data |-> x]]
      /\ shadow' = [shadow EXCEPT ![x] = s]
      /\ todo' = todo \ {s} /\ s \in todo
      /\ IF todo = {s} THEN cur' = NoReq /\ rq' = [rq EXCEPT ![cur] = "dequeued"]
                       ELSE UNCHANGED <<cur, rq>>
  BY Zenon DEF PutSegment, serverVars
<1>2. Succ(cf) # cd
  BY Available, Zenon DEF PutSegment
<1>3. /\ cf \in Slots /\ cd \in Slots /\ sd \in Slots /\ sf \in Slots /\ Succ(cf) \in Slots
      /\ x \in Slots
  BY SuccType, Zenon DEF TypeOK, Descriptors
<1>4. /\ Dist(cd, sd) <= Dist(cd, sf) /\ Dist(cd, sf) <= Dist(cd, cf)
      /\ Dist(cd, sd) <= Dist(cd, cf)
      /\ Dist(cd, Succ(cf)) = Dist(cd, cf) + 1
  BY <1>2, <1>3, DistStep DEF IndicesOrdered
<1>5. IndicesOrdered'
  BY <1>1, <1>3, <1>4, DistStep DEF IndicesOrdered
<1>6. \A i \in Slots : In(i, cd, Succ(cf)) <=> In(i, cd, cf) \/ i = cf
  BY <1>2, <1>3, WindowGrow, Zenon
<1>7. /\ ~In(cf, cd, cf) /\ ~In(cf, sd, sf) /\ ~In(cf, cd, sd)
      /\ \A i \in Slots : In(i, sd, Succ(cf)) <=> In(i, sd, cf) \/ i = cf
  <2>1. Succ(cf) # sd
    <3>1. Dist(cd, cf) \in Int /\ Dist(cd, sd) \in Int
      BY <1>3, DistStep, CntAssumption
    <3> QED BY <1>4, <3>1
  <2> QED BY <1>3, <1>4, <2>1, WindowGrow, WindowSplit, WindowEnds
<1> HIDE DEF x
<1>8. cf # claimed
  BY <1>3, <1>7, NullAssumption, Zenon DEF Ownership
<1>9. Ownership'
  BY <1>1, <1>3, <1>7, Zenon DEF Ownership, TypeOK
<1>10. ShadowsPermuted'
  BY <1>1, <1>3 DEF ShadowsPermuted, TypeOK, Descriptors, x
<1>11. \A i \in Slots : In(i, cd, cf) => desc[i].seg # s
  BY <1>1, Zenon DEF Outcomes, Outstanding
<1>12. \A i \in Slots : i # cf => desc'[i] = desc[i] /\ desc[i].client_data # x
  BY <1>1, <1>3, Zenon DEF ShadowsPermuted, TypeOK, x
<1>13. desc'[cf].seg = s /\ desc'[cf].client_data = x /\ desc'[cf].server_err = "ok"
  BY <1>1, <1>3, Zenon DEF TypeOK
<1>14. bio_ring[cf] = NoSeg
  BY <1>3, <1>7, Zenon DEF Ownership
<1>15. Correspondence'
  <2>1. \A i \in Slots : Outstanding(i)' <=> Outstanding(i) \/ i = cf
    BY <1>1, <1>6, Zenon DEF Outstanding
  <2>2. \A q \in InFlight' : bio_ring'[bi_private'[q]] = q
    BY <1>1, Zenon DEF InFlight, Correspondence
  <2>3. \A i \in Slots : bio_ring'[i] # NoSeg =>
            bi_private'[bio_ring'[i]] = i /\ desc'[i].seg = bio_ring'[i]
    BY <1>1, <1>12, <1>14, Zenon DEF Correspondence
  <2>4. \A i \in Slots : IF Outstanding(i)'
            THEN desc'[i].seg \in Segs /\ shadow'[desc'[i].client_data] = desc'[i].seg
            ELSE shadow'[desc'[i].client_data] = NoSeg
    BY <1>1, <1>3, <1>12, <1>13, <2>1 DEF Correspondence, TypeOK, Descriptors
  <2>5. \A i, j \in Slots : Outstanding(i)' /\ Outstanding(j)' /\ desc'[i].seg = desc'[j].seg
            => i = j
    BY <1>3, <1>11, <1>12, <1>13, <2>1 DEF Correspondence, Outstanding
  <2> QED BY <2>2, <2>3, <2>4, <2>5, Zenon DEF Correspondence
<1>16. cur \in Reqs /\ ReqOf[s] = cur /\ bio_end[s] = "none" /\ io[s] = "none" /\ rq[cur] = "queued"
  BY <1>1, Zenon DEF ToSubmit, TypeOK
<1>17. \A r \in Reqs : (rq'[r] = "idle" <=> rq[r] = "idle") /\ (rq'[r] = "queued" => rq[r] = "queued")
                      /\ (rq'[r] = "queued" /\ r # cur' => r # cur)
  BY <1>1, <1>16 DEF TypeOK
<1>18. Outcomes'
  <2> SUFFICES ASSUME NEW i \in Slots, Outstanding(i)'
               PROVE /\ bio_end'[desc'[i].seg] = "none"
                     /\ rq'[ReqOf[desc'[i].seg]] # "idle"
                     /\ desc'[i].seg \notin todo'
                     /\ IF In(i, cd, sd) THEN io'[desc'[i].seg] = desc'[i].server_err
                        ELSE /\ io'[desc'[i].seg] = "err" <=> desc'[i].server_err = "err"
                             /\ io'[desc'[i].seg] # "ok"
    BY <1>1, Zenon DEF Outcomes
  <2>1. CASE i = cf
    BY <1>1, <1>7, <1>13, <1>16, <1>17, <2>1
  <2>2. CASE i # cf
    <3>1. Outstanding(i) /\ desc'[i] = desc[i]
      BY <1>1, <1>6, <1>12, <2>2, Zenon DEF Outstanding
    <3>2. desc[i].seg \in Segs /\ ReqOf[desc[i].seg] \in Reqs
      BY <3>1, SegsAssumption, Zenon DEF Correspondence
    <3> QED BY <1>1, <1>17, <3>1, <3>2 DEF Outcomes
  <2> QED BY <2>1, <2>2, Zenon
<1>19. ToSubmit'
  <2>1. (cur' = NoReq <=> todo' = {}) /\ (cur' # NoReq => rq'[cur'] = "queued")
    BY <1>1, <1>16, NullAssumption, Zenon DEF ToSubmit
  <2>2. \A q \in todo' : ReqOf[q] = cur' /\ bio_end'[q] = "none" /\ io'[q] = "none"
    BY <1>1, Zenon DEF ToSubmit
  <2>3. ASSUME NEW q \in Segs, rq'[ReqOf[q]] = "queued", ReqOf[q] # cur'
        PROVE /\ bio_end'[q] = "none" /\ io'[q] = "none"
              /\ \A i \in Slots : Outstanding(i)' => desc'[i].seg # q
    <3>1. ReqOf[q] \in Reqs /\ rq[ReqOf[q]] = "queued" /\ ReqOf[q] # cur
      BY <2>3, <1>17, SegsAssumption, Zenon
    <3>2. \A i \in Slots : Outstanding(i) => desc[i].seg # q
      BY <3>1, Zenon DEF ToSubmit
    <3> QED BY <1>1, <1>6, <1>12, <1>13, <1>16, <3>1, <3>2 DEF ToSubmit, Outstanding
  <2> QED BY <2>1, <2>2, <2>3, Zenon DEF ToSubmit
<1>20. Attached'
  BY <1>1, <1>16, NullAssumption, Zenon DEF Attached
<1>21. Counted'
  BY <1>1, <1>17, Zenon DEF Counted
<1> QED BY <1>5, <1>9, <1>10, <1>15, <1>18, <1>19, <1>20, <1>21, Zenon DEF RingInvNoType

(* The initial ring: empty, nothing outstanding. *)
LEMMA InitRingInv == Init => RingInv
<1> SUFFICES ASSUME Init PROVE RingInv
  OBVIOUS
<1>1. \A i \in Slots : ~In(i, 0, 0)
  BY DEF In, Slots
<1>2. 0 \in Slots
  BY CntAssumption DEF Slots
<1>3. TypeOK
  <2>1. desc \in [Slots -> Descriptors] /\ shadow \in [Slots -> Segs \cup {NoSeg}]
    BY Zenon DEF Init, Descriptors
  <2>2. refcnt \in 0 .. MaxOpens
    BY SegsAssumption DEF Init
  <2>3. conn \in BOOLEAN
    BY Zenon DEF Init
  <2>4. rq \in [Reqs -> {"idle", "queued", "dequeued"}] /\ hard_nr \in [Reqs -> Nat]
    BY Zenon DEF Init
  <2> QED BY <1>2, <2>1, <2>2, <2>3, <2>4, Zenon DEF Init, TypeOK
<1>4. InFlight = {} /\ \A i \in Slots : ~Outstanding(i)
  BY <1>1, Zenon DEF Init, InFlight, Outstanding
<1>5. IndicesOrdered /\ Attached
  BY CntAssumption DEF Init, IndicesOrdered, Attached, Dist
<1>6. Ownership /\ Correspondence /\ ShadowsPermuted
  BY <1>1, <1>2, <1>4, Zenon DEF Init, Ownership, Correspondence, ShadowsPermuted
<1>7. Outcomes /\ ToSubmit /\ Counted
  BY <1>4, SegsAssumption, Zenon DEF Init, Outcomes, ToSubmit, Counted
<1> QED BY <1>3, <1>5, <1>6, <1>7, Zenon DEF RingInv

(* RingInv depends on nothing but the variables of the module. *)
LEMMA StutterStep == ASSUME RingInv, UNCHANGED vars PROVE RingInv'
<1>1. UNCHANGED <<server_owned, desc, shadow, c_start_free, c_start_dirty, refcnt, rq, cur, todo,
                  hard_nr, bio_end, conn, s_start_free, s_start_dirty, claimed, bio_ring,
                  bi_private, io>>
  BY Zenon DEF vars, clientVars, serverVars
<1>2. TypeOK' /\ IndicesOrdered' /\ Ownership' /\ ShadowsPermuted' /\ Attached'
  <2>1. TypeOK'
    BY <1>1, Zenon DEF RingInv, TypeOK
  <2> QED BY <1>1, <2>1, Zenon DEF RingInv, IndicesOrdered, Ownership, ShadowsPermuted, Attached
<1>3. Correspondence' /\ Outcomes' /\ ToSubmit' /\ Counted'
  BY <1>1 DEF RingInv, Correspondence, Outcomes, ToSubmit, Counted, Outstanding, InFlight
<1> QED BY <1>2, <1>3, Zenon DEF RingInv

(* A bio that completes belongs to a request Linux waits for and has not ended. *)
LEMMA PerformStep ==
  ASSUME RingInv, NEW s \in Segs, NEW e \in {"ok", "err"}, bi_private[s] # NoSlot,
         UNCHANGED <<rq, bio_end>>, io[s] = "err" => e = "err", io' = [io EXCEPT ![s] = e]
  PROVE  BS!Perform(s, e)
<1> USE SMTT(40), ZenonT(20) DEF RingInv
<1> DEFINE k == bi_private[s]
<1>1. k \in Slots /\ Outstanding(k) /\ desc[k].seg = s /\ ~In(k, c_start_dirty, s_start_dirty)
  BY InFlightSlot, Zenon
<1>2. bio_end[s] = "none" /\ rq[ReqOf[s]] # "idle" /\ io[s] # "ok"
  BY <1>1, Zenon DEF Outcomes
<1>3. ReqOf[s] \in Reqs
  BY SegsAssumption, Zenon
<1> QED BY <1>2, <1>3, Zenon DEF BS!Perform

=============================================================================
