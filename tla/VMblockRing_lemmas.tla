------------------------- MODULE VMblockRing_lemmas -------------------------
(***************************************************************************)
(* Lemmas for VMblockRing_proof: the arithmetic of the ring, and the steps of *)
(* the server, which keep the invariant.                                   *)
(***************************************************************************)
EXTENDS VMblockRing, TLAPS

-----------------------------------------------------------------------------
(* Index arithmetic: the successor, windows and distances on the ring. *)

(* The successor of an index is the next one, and stays on the ring. *)
LEMMA SuccType ==
  \A i \in Slots : Succ(i) \in Slots /\ Succ(i) = IF i = Cnt - 1 THEN 0 ELSE i + 1
BY CntAssumption DEF Succ, Slots

(* The remainder of a number below twice the ring size. *)
LEMMA Remainder ==
  \A x \in 0 .. 2 * Cnt - 1 : x % Cnt = IF x < Cnt THEN x ELSE x - Cnt
BY CntAssumption

(* L4VMblock_ring_available is zero exactly when start_free would reach start_dirty. *)
LEMMA Available ==
  ASSUME TypeOK PROVE RingAvailable # 0 <=> Succ(c_start_free) # c_start_dirty
<1> DEFINE x == c_start_dirty + Cnt - (c_start_free + 1)
<1>1. x \in 0 .. 2 * Cnt - 1
  BY CntAssumption DEF TypeOK, Slots
<1>2. RingAvailable = IF x < Cnt THEN x ELSE x - Cnt
  <2> HIDE DEF x
  <2>1. x % Cnt = IF x < Cnt THEN x ELSE x - Cnt
    BY <1>1, Remainder, Zenon
  <2> QED BY <2>1, Zenon DEF x, RingAvailable
<1> QED BY <1>1, <1>2, CntAssumption, SuccType DEF TypeOK, Slots

(* Moving the end of a window adds one slot. *)
LEMMA WindowGrow ==
  \A a, b, i \in Slots : Succ(b) # a => (In(i, a, Succ(b)) <=> In(i, a, b) \/ i = b)
BY CntAssumption, SuccType DEF In, Slots

(* Moving the start of a window removes one slot. *)
LEMMA WindowShrink ==
  \A a, b, i \in Slots : a # b => (In(i, Succ(a), b) <=> In(i, a, b) /\ i # a)
BY CntAssumption, SuccType DEF In, Slots

(* A window that contains another index splits into two disjoint windows there. *)
LEMMA WindowSplit ==
  \A a, b, c, i \in Slots : Dist(a, b) <= Dist(a, c) =>
     /\ In(i, a, c) <=> In(i, a, b) \/ In(i, b, c)
     /\ ~(In(i, a, b) /\ In(i, b, c))
BY CntAssumption DEF In, Dist, Slots

(* A window holds its start unless it is empty, and never its end. *)
LEMMA WindowEnds ==
  \A a, b \in Slots : (In(a, a, b) <=> a # b) /\ ~In(b, a, b) /\ (\A i \in Slots : ~In(i, a, a))
BY CntAssumption DEF In, Slots

(* Distances are natural numbers, and change by one with either end. *)
LEMMA DistStep ==
  \A a, b \in Slots :
     /\ Dist(a, b) \in 0 .. Cnt - 1
     /\ Succ(b) # a => Dist(a, Succ(b)) = Dist(a, b) + 1
     /\ a # b => Dist(Succ(a), b) = Dist(a, b) - 1
BY CntAssumption, SuccType DEF Dist, Slots

(* Of two different indices one is farther away, and the nearer one is not full around. *)
LEMMA DistLess ==
  \A a, b, c \in Slots : Dist(a, b) <= Dist(a, c) /\ b # c =>
     Dist(a, b) + 1 <= Dist(a, c) /\ Succ(b) # a
BY CntAssumption, SuccType DEF Dist, Slots

-----------------------------------------------------------------------------
(* The inductive invariant: one lemma per action. *)

RingInvNoType == IndicesOrdered /\ Ownership /\ Correspondence /\ ShadowsPermuted /\ Outcomes
                 /\ ToSubmit /\ Attached /\ Counted

(* process_io_queue takes the descriptor at the server's start_free. *)
LEMMA ClaimStep ==
  ASSUME RingInv, ClaimDesc PROVE RingInvNoType'
<1> USE SMTT(40), ZenonT(20) DEF RingInv
<1> DEFINE cf == c_start_free
           cd == c_start_dirty
           sd == s_start_dirty
           sf == s_start_free
<1>1. /\ UNCHANGED <<server_owned, desc, shadow, c_start_free, c_start_dirty, refcnt, rq, cur, todo,
                     hard_nr, bio_end, conn, s_start_dirty, bio_ring, bi_private, io>>
      /\ claimed = NoSlot /\ claimed' = sf /\ s_start_free' = Succ(sf)
      /\ sf \in server_owned /\ bio_ring[sf] = NoSeg
  BY Zenon DEF ClaimDesc, clientVars
<1>2. cf \in Slots /\ cd \in Slots /\ sd \in Slots /\ sf \in Slots /\ Succ(sf) \in Slots
  BY SuccType, Zenon DEF TypeOK
<1>3. sf # cf
  BY <1>1, <1>2, WindowEnds DEF Ownership
<1>4. /\ Dist(cd, sd) <= Dist(cd, sf) /\ Dist(cd, sf) + 1 <= Dist(cd, cf)
      /\ Dist(cd, Succ(sf)) = Dist(cd, sf) + 1
      /\ Dist(cd, sd) \in Int /\ Dist(cd, sf) \in Int
  BY <1>2, <1>3, DistLess, DistStep, CntAssumption DEF IndicesOrdered
<1>5. IndicesOrdered'
  BY <1>1, <1>4 DEF IndicesOrdered
<1>6. Succ(sf) # sd
  BY <1>4
<1>7. \A i \in Slots : In(i, sd, Succ(sf)) <=> In(i, sd, sf) \/ i = sf
  BY <1>2, <1>6, WindowGrow, Zenon
<1>8. Ownership'
  BY <1>1, <1>2, <1>7, WindowEnds, NullAssumption, Zenon DEF Ownership
<1>9. Correspondence' /\ ShadowsPermuted'
  BY <1>1, Zenon DEF Correspondence, InFlight, Outstanding, ShadowsPermuted
<1>10. Outcomes' /\ ToSubmit'
  BY <1>1 DEF Outcomes, Outstanding, ToSubmit
<1>11. Attached' /\ Counted'
  BY <1>1, Zenon DEF Attached, Counted
<1> QED BY <1>5, <1>8, <1>9, <1>10, <1>11, Zenon DEF RingInvNoType

(* The rest of process_io_queue: the claimed descriptor becomes a bio.  The connection is
   there, since the device is attached while a descriptor is outstanding. *)
LEMMA StartStep ==
  ASSUME RingInv, StartIo PROVE RingInvNoType'
<1> USE SMTT(40), ZenonT(20) DEF RingInv
<1> DEFINE cf == c_start_free
           cd == c_start_dirty
           sd == s_start_dirty
           sf == s_start_free
           s == desc[claimed].seg
<1>1. cf \in Slots /\ cd \in Slots /\ sd \in Slots /\ sf \in Slots /\ claimed \in Slots
  BY Zenon DEF StartIo, TypeOK
<1>2. /\ In(claimed, sd, sf) /\ bio_ring[claimed] = NoSeg
      /\ Dist(cd, sd) <= Dist(cd, sf) /\ Dist(cd, sf) <= Dist(cd, cf)
  BY <1>1, Zenon DEF StartIo, Ownership, IndicesOrdered
<1>3. In(claimed, cd, cf) /\ ~In(claimed, cd, sd)
  BY <1>1, <1>2, WindowSplit
<1>4. s \in Segs /\ conn
  BY <1>1, <1>3, WindowEnds DEF Correspondence, Outstanding, Attached, TypeOK
<1>5. /\ UNCHANGED <<server_owned, desc, shadow, c_start_free, c_start_dirty, refcnt, rq, cur, todo,
                     hard_nr, bio_end, conn, s_start_free, s_start_dirty, io>>
      /\ claimed' = NoSlot
      /\ bio_ring' = [bio_ring EXCEPT ![claimed] = s]
      /\ bi_private' = [bi_private EXCEPT ![s] = claimed]
  BY <1>4, Zenon DEF StartIo, clientVars
<1>6. \A i \in Slots : bio_ring[i] # s
  BY <1>1, <1>2, <1>3, <1>4, NullAssumption, WindowSplit DEF Correspondence, Outstanding, Ownership
<1>7. bi_private[s] = NoSlot
  BY <1>4, <1>6 DEF Correspondence, InFlight, TypeOK
<1> HIDE DEF s
<1>8. Ownership'
  BY <1>1, <1>2, <1>4, <1>5, NullAssumption DEF Ownership, TypeOK
<1>9. Correspondence'
  <2>1. \A q \in InFlight' : bio_ring'[bi_private'[q]] = q
    BY <1>1, <1>2, <1>4, <1>5, <1>6, NullAssumption DEF Correspondence, InFlight, TypeOK
  <2>2. \A i \in Slots : bio_ring'[i] # NoSeg =>
            bi_private'[bio_ring'[i]] = i /\ desc'[i].seg = bio_ring'[i]
    BY <1>1, <1>4, <1>5, <1>6 DEF Correspondence, TypeOK, s
  <2> QED BY <1>5, <2>1, <2>2, Zenon DEF Correspondence, Outstanding
<1>10. IndicesOrdered' /\ ShadowsPermuted' /\ Outcomes' /\ ToSubmit' /\ Attached' /\ Counted'
  BY <1>5 DEF IndicesOrdered, Outstanding, ShadowsPermuted, Outcomes, ToSubmit, Attached, Counted
<1> QED BY <1>8, <1>9, <1>10, Zenon DEF RingInvNoType

(* Where a bio in flight has its descriptor: in the server's window, hence outstanding. *)
LEMMA InFlightSlot ==
  ASSUME RingInv, NEW s \in Segs, bi_private[s] # NoSlot
  PROVE  /\ bi_private[s] \in Slots
         /\ bio_ring[bi_private[s]] = s /\ desc[bi_private[s]].seg = s
         /\ In(bi_private[s], s_start_dirty, s_start_free)
         /\ In(bi_private[s], s_start_dirty, c_start_free)
         /\ Outstanding(bi_private[s])
         /\ ~In(bi_private[s], c_start_dirty, s_start_dirty)
<1> USE SMTT(40), ZenonT(20) DEF RingInv
<1>1. bi_private[s] \in Slots /\ bio_ring[bi_private[s]] = s /\ s # NoSeg
  BY NullAssumption DEF TypeOK, Correspondence, InFlight
<1>2. desc[bi_private[s]].seg = s /\ In(bi_private[s], s_start_dirty, s_start_free)
  BY <1>1, Zenon DEF Correspondence, Ownership
<1>3. /\ c_start_free \in Slots /\ c_start_dirty \in Slots
      /\ s_start_free \in Slots /\ s_start_dirty \in Slots
  BY Zenon DEF TypeOK
<1>4. /\ Dist(c_start_dirty, s_start_dirty) <= Dist(c_start_dirty, c_start_free)
      /\ Dist(c_start_dirty, s_start_dirty) <= Dist(c_start_dirty, s_start_free)
      /\ Dist(c_start_dirty, s_start_free) <= Dist(c_start_dirty, c_start_free)
  BY <1>3, DistStep, CntAssumption DEF IndicesOrdered
<1>5. Outstanding(bi_private[s]) /\ ~In(bi_private[s], c_start_dirty, s_start_dirty)
  BY <1>1, <1>2, <1>3, <1>4, WindowSplit DEF Outstanding
<1>6. In(bi_private[s], s_start_dirty, c_start_free)
  BY <1>1, <1>3, <1>4, <1>5, WindowSplit DEF Outstanding
<1> QED BY <1>1, <1>2, <1>5, <1>6, Zenon

(* end_io before the last byte: only the error is noted. *)
LEMMA PartialStep ==
  ASSUME RingInv, NEW s \in Segs, EndIoPartial(s) PROVE RingInvNoType'
<1> USE SMTT(40), ZenonT(20) DEF RingInv
<1> DEFINE k == bi_private[s]
<1>1. /\ k \in Slots /\ desc[k].seg = s /\ Outstanding(k) /\ ~In(k, c_start_dirty, s_start_dirty)
  BY InFlightSlot, Zenon DEF EndIoPartial
<1>2. /\ UNCHANGED <<server_owned, shadow, c_start_free, c_start_dirty, refcnt, rq, cur, todo,
                     hard_nr, bio_end, conn, s_start_free, s_start_dirty, claimed, bio_ring,
                     bi_private>>
      /\ desc' = [desc EXCEPT ![k] = WithErr(@)]
      /\ io' = [io EXCEPT ![s] = "err"]
  BY Zenon DEF EndIoPartial, clientVars
<1>3. /\ \A i \in Slots : desc'[i].seg = desc[i].seg /\ desc'[i].client_data = desc[i].client_data
      /\ \A i \in Slots : i # k => desc'[i] = desc[i]
      /\ desc'[k].server_err = "err"
  BY <1>1, <1>2, Zenon DEF TypeOK, WithErr
<1> HIDE DEF k
<1>4. IndicesOrdered' /\ Ownership' /\ Attached' /\ Counted'
  BY <1>2, Zenon DEF IndicesOrdered, Ownership, Attached, Counted
<1>5. ShadowsPermuted'
  BY <1>3 DEF ShadowsPermuted
<1>6. Correspondence'
  BY <1>2, <1>3 DEF Correspondence, InFlight, Outstanding
<1>7. \A i \in Slots : Outstanding(i) /\ i # k => io'[desc[i].seg] = io[desc[i].seg]
  BY <1>1, <1>2, Zenon DEF Correspondence, TypeOK
<1>8. /\ \A i \in Slots : Outstanding(i)' <=> Outstanding(i)
      /\ io'[s] = "err"
  BY <1>2, Zenon DEF Outstanding, TypeOK
<1>9. Outcomes'
  <2> SUFFICES ASSUME NEW i \in Slots, Outstanding(i)
               PROVE /\ bio_end[desc[i].seg] = "none"
                     /\ rq[ReqOf[desc[i].seg]] # "idle"
                     /\ desc[i].seg \notin todo
                     /\ IF In(i, c_start_dirty, s_start_dirty) THEN io'[desc[i].seg] = desc'[i].server_err
                        ELSE /\ io'[desc[i].seg] = "err" <=> desc'[i].server_err = "err"
                             /\ io'[desc[i].seg] # "ok"
    BY <1>2, <1>3, <1>8 DEF Outcomes
  <2>1. CASE i = k
    BY <1>1, <1>3, <1>8, <2>1, Zenon DEF Outcomes
  <2>2. CASE i # k
    BY <1>3, <1>7, <2>2 DEF Outcomes
  <2> QED BY <2>1, <2>2, Zenon
<1>10. s \notin todo /\ ~(rq[ReqOf[s]] = "queued" /\ ReqOf[s] # cur)
  BY <1>1, Zenon DEF Outcomes, ToSubmit
<1>11. \A q \in Segs : q # s => io'[q] = io[q]
  BY <1>2, Zenon DEF TypeOK
<1>12. ToSubmit'
  <2>1. todo \subseteq Segs
    BY Zenon DEF TypeOK
  <2> QED BY <1>2, <1>3, <1>8, <1>10, <1>11, <2>1 DEF ToSubmit
<1> QED BY <1>4, <1>5, <1>6, <1>9, <1>12, Zenon DEF RingInvNoType

(* end_io for a finished bio: the descriptor is swapped to the front of the server's
   window, with its bio, and the window moves past it. *)
LEMMA EndStep ==
  ASSUME RingInv, NEW s \in Segs, NEW e \in BOOLEAN, EndIo(s, e) PROVE RingInvNoType'
<1> USE SMTT(40), ZenonT(20) DEF RingInv
<1> DEFINE cf == c_start_free
           cd == c_start_dirty
           f == s_start_dirty
           sf == s_start_free
           k == bi_private[s]
           d == IF e THEN WithErr(desc[k]) ELSE desc[k]
           g == bio_ring[f]
<1>1. cf \in Slots /\ cd \in Slots /\ f \in Slots /\ sf \in Slots /\ Succ(f) \in Slots
  BY SuccType, Zenon DEF TypeOK
<1>2. /\ k \in Slots /\ bio_ring[k] = s /\ desc[k].seg = s /\ k # NoSlot
      /\ In(k, f, sf) /\ In(k, f, cf) /\ Outstanding(k) /\ ~In(k, cd, f)
  BY InFlightSlot, Zenon DEF EndIo
<1>3. conn /\ f # sf /\ f # cf
  BY <1>1, <1>2, WindowEnds DEF Attached, Outstanding, TypeOK
<1>4. /\ Dist(cd, f) <= Dist(cd, cf) /\ Dist(cd, f) <= Dist(cd, sf) /\ Dist(cd, sf) <= Dist(cd, cf)
      /\ Dist(cd, f) + 1 <= Dist(cd, sf) /\ Succ(f) # cd /\ Dist(cd, Succ(f)) = Dist(cd, f) + 1
  BY <1>1, <1>3, DistStep, DistLess, CntAssumption DEF IndicesOrdered
<1>5. In(f, f, sf) /\ In(f, f, cf) /\ ~In(f, cd, f) /\ Outstanding(f) /\ f \in server_owned
  BY <1>1, <1>3, <1>4, WindowEnds, WindowSplit DEF Ownership, Outstanding
<1>6. f # claimed
  \* the claimed slot is the last of the window, and k is another one
  <2>1. ASSUME f = claimed PROVE FALSE
    <3>1. Succ(f) = sf /\ k # f
      BY <1>1, <1>2, <2>1, NullAssumption, Zenon DEF Ownership
    <3>2. In(k, Succ(f), sf)
      BY <1>1, <1>2, <1>3, <3>1, WindowShrink, Zenon
    <3> QED BY <1>1, <1>2, <3>1, <3>2, WindowEnds, Zenon
  <2> QED BY <2>1, Zenon
<1>7. g \in Segs /\ bi_private[g] = f /\ desc[f].seg = g
  BY <1>1, <1>5, <1>6, Zenon DEF Ownership, Correspondence, TypeOK
<1>8. d.seg = s /\ d.client_data = desc[k].client_data
      /\ d.server_err = IF e THEN "err" ELSE desc[k].server_err
  BY <1>2, Zenon DEF WithErr
<1> HIDE DEF d
<1>9. /\ UNCHANGED <<shadow, c_start_free, c_start_dirty, refcnt, rq, cur, todo, hard_nr, bio_end,
                     conn, s_start_free, claimed>>
      /\ s_start_dirty' = Succ(f)
      /\ io' = [io EXCEPT ![s] = IF e \/ @ = "err" THEN "err" ELSE "ok"]
  BY <1>3, Zenon DEF EndIo, clientVars
<1>10. /\ desc' = [desc EXCEPT ![k] = desc[f], ![f] = d]
       /\ server_owned' = server_owned \ {f}
       /\ bio_ring' = [bio_ring EXCEPT ![k] = g, ![f] = NoSeg]
       /\ bi_private' = [bi_private EXCEPT ![g] = k, ![s] = NoSlot]
  <2>1. CASE k # f
    BY <1>3, <1>5, <2>1, Zenon DEF EndIo, d
  <2>2. CASE k = f
    <3>1. /\ desc' = [desc EXCEPT ![k] = d]
          /\ server_owned' = server_owned \ {k}
          /\ bio_ring' = [bio_ring EXCEPT ![k] = NoSeg]
          /\ bi_private' = [bi_private EXCEPT ![s] = NoSlot]
      BY <1>3, <2>2, Zenon DEF EndIo, d
    <3>2. g = s
      BY <1>2, <2>2, Zenon
    <3> QED BY <1>1, <1>2, <2>2, <3>1, <3>2 DEF TypeOK
  <2> QED BY <2>1, <2>2, Zenon
<1>11. /\ \A i \in Slots : i # k /\ i # f => desc'[i] = desc[i] /\ bio_ring'[i] = bio_ring[i]
       /\ desc'[f] = d /\ bio_ring'[f] = NoSeg
       /\ k # f => desc'[k] = desc[f] /\ bio_ring'[k] = g
  BY <1>1, <1>2, <1>10, Zenon DEF TypeOK
<1>12. \A q \in Segs : bi_private'[q] = IF q = s THEN NoSlot
                                        ELSE IF q = g THEN k ELSE bi_private[q]
  BY <1>7, <1>10, Zenon DEF TypeOK
<1>13. \A i \in Slots : In(i, Succ(f), sf) <=> In(i, f, sf) /\ i # f
  BY <1>1, <1>3, WindowShrink, Zenon
<1>14. \A i \in Slots : In(i, Succ(f), cf) <=> In(i, f, cf) /\ i # f
  BY <1>1, <1>3, WindowShrink, Zenon
<1>15. \A i \in Slots : In(i, cd, Succ(f)) <=> In(i, cd, f) \/ i = f
  BY <1>1, <1>4, WindowGrow, Zenon
<1>16. IndicesOrdered'
  BY <1>4, <1>9, Zenon DEF IndicesOrdered
<1>17. Ownership'
  <2>1. \A i \in Slots : i \in server_owned' <=> In(i, Succ(f), cf)
    BY <1>10, <1>14, Zenon DEF Ownership
  <2>2. claimed # k
    BY <1>1, <1>2, NullAssumption, Zenon DEF Ownership
  <2>3. \A i \in Slots : bio_ring'[i] # NoSeg <=> In(i, Succ(f), sf) /\ i # claimed
    BY <1>2, <1>7, <1>11, <1>13, <2>2, NullAssumption DEF Ownership
  <2>4. claimed # NoSlot => In(claimed, Succ(f), sf) /\ Succ(claimed) = sf
    BY <1>6, <1>13, Zenon DEF Ownership, TypeOK
  <2> QED BY <1>9, <2>1, <2>3, <2>4, Zenon DEF Ownership
<1>18. ShadowsPermuted'
  <2>1. \A i, j \in Slots : desc[i].client_data = desc[j].client_data => i = j
    BY Zenon DEF ShadowsPermuted
  <2>2. \A i \in Slots : desc'[i].client_data =
            desc[IF i = f THEN k ELSE IF i = k THEN f ELSE i].client_data
    BY <1>8, <1>11, Zenon
  <2> QED BY <1>1, <1>2, <2>1, <2>2 DEF ShadowsPermuted
<1>19. \A i \in Slots : Outstanding(i)' <=> Outstanding(i)
  BY <1>9, Zenon DEF Outstanding
<1>20. Correspondence'
  <2>1. \A q \in InFlight' : bio_ring'[bi_private'[q]] = q
    <3> SUFFICES ASSUME NEW q \in Segs, bi_private'[q] # NoSlot
                 PROVE bio_ring'[bi_private'[q]] = q
      BY Zenon DEF InFlight
    <3>1. q # s
      BY <1>12, Zenon
    <3>2. CASE q = g
      BY <1>2, <1>7, <1>11, <1>12, <3>1, <3>2, Zenon
    <3>3. CASE q # g
      <4>1. bi_private'[q] = bi_private[q] /\ bio_ring[bi_private[q]] = q /\ bi_private[q] \in Slots
        BY <1>12, <3>1, <3>3 DEF Correspondence, InFlight, TypeOK
      <4> QED BY <1>2, <1>7, <1>11, <3>1, <3>3, <4>1, Zenon
    <3> QED BY <3>2, <3>3, Zenon
  <2>2. \A i \in Slots : bio_ring'[i] # NoSeg =>
            bi_private'[bio_ring'[i]] = i /\ desc'[i].seg = bio_ring'[i]
    <3> SUFFICES ASSUME NEW i \in Slots, bio_ring'[i] # NoSeg
                 PROVE bi_private'[bio_ring'[i]] = i /\ desc'[i].seg = bio_ring'[i]
      OBVIOUS
    <3>1. i # f
      BY <1>11, Zenon
    <3>2. CASE i = k
      BY <1>2, <1>7, <1>11, <1>12, <3>1, <3>2, Zenon
    <3>3. CASE i # k
      <4>1. /\ bio_ring'[i] = bio_ring[i] /\ desc'[i] = desc[i] /\ bio_ring[i] \in Segs
            /\ bi_private[bio_ring[i]] = i /\ desc[i].seg = bio_ring[i]
        BY <1>11, <3>1, <3>3 DEF Correspondence, TypeOK
      <4> QED BY <1>2, <1>7, <1>12, <3>1, <3>3, <4>1, Zenon
    <3> QED BY <3>2, <3>3, Zenon
  <2> DEFINE p(i) == IF i = f THEN k ELSE IF i = k THEN f ELSE i
  <2>3. \A i \in Slots :
          /\ p(i) \in Slots /\ (Outstanding(i)' <=> Outstanding(p(i)))
          /\ desc'[i].seg = desc[p(i)].seg /\ desc'[i].client_data = desc[p(i)].client_data
    BY <1>1, <1>2, <1>5, <1>8, <1>11, <1>19
  <2>4. \A i, j \in Slots : p(i) = p(j) => i = j
    OBVIOUS
  <2> HIDE DEF p
  <2>5. \A i \in Slots : IF Outstanding(i)'
            THEN desc'[i].seg \in Segs /\ shadow'[desc'[i].client_data] = desc'[i].seg
            ELSE shadow'[desc'[i].client_data] = NoSeg
    <3>1. \A j \in Slots : IF Outstanding(j)
            THEN desc[j].seg \in Segs /\ shadow[desc[j].client_data] = desc[j].seg
            ELSE shadow[desc[j].client_data] = NoSeg
      BY Zenon DEF Correspondence
    <3> QED BY <1>9, <2>3, <3>1
  <2>6. \A i, j \in Slots : Outstanding(i)' /\ Outstanding(j)' /\ desc'[i].seg = desc'[j].seg
            => i = j
    <3>1. \A i, j \in Slots : Outstanding(i) /\ Outstanding(j) /\ desc[i].seg = desc[j].seg
            => i = j
      BY Zenon DEF Correspondence
    <3> QED BY <2>3, <2>4, <3>1
  <2> QED BY <2>1, <2>2, <2>5, <2>6, Zenon DEF Correspondence
<1>21. \A i \in Slots : Outstanding(i) /\ i # k => desc[i].seg \in Segs /\ io'[desc[i].seg] = io[desc[i].seg]
  BY <1>2, <1>9 DEF Correspondence, TypeOK
<1>22. Outcomes'
  <2> SUFFICES ASSUME NEW i \in Slots, Outstanding(i)
               PROVE /\ bio_end[desc'[i].seg] = "none"
                     /\ rq[ReqOf[desc'[i].seg]] # "idle"
                     /\ desc'[i].seg \notin todo
                     /\ IF In(i, cd, Succ(f)) THEN io'[desc'[i].seg] = desc'[i].server_err
                        ELSE /\ io'[desc'[i].seg] = "err" <=> desc'[i].server_err = "err"
                             /\ io'[desc'[i].seg] # "ok"
    BY <1>9, <1>19, Zenon DEF Outcomes
  <2>1. CASE i = f
    <3>1. io[s] = "err" <=> desc[k].server_err = "err"
      BY <1>2, Zenon DEF Outcomes
    <3>2. desc[k].server_err \in {"ok", "err"}
      BY <1>2, Zenon DEF TypeOK, Descriptors
    <3>3. io'[s] = d.server_err
      BY <1>8, <1>9, <3>1, <3>2, Zenon DEF TypeOK
    <3>4. bio_end[s] = "none" /\ rq[ReqOf[s]] # "idle" /\ s \notin todo
      BY <1>2 DEF Outcomes
    <3> QED BY <1>1, <1>8, <1>11, <1>15, <2>1, <3>3, <3>4, Zenon
  <2>2. CASE i # f /\ i = k
    <3>1. desc'[i] = desc[f] /\ ~In(i, cd, Succ(f))
      BY <1>2, <1>11, <1>15, <2>2, Zenon
    <3>2. /\ bio_end[desc[f].seg] = "none" /\ rq[ReqOf[desc[f].seg]] # "idle"
          /\ desc[f].seg \notin todo
          /\ io[desc[f].seg] = "err" <=> desc[f].server_err = "err"
          /\ io[desc[f].seg] # "ok"
      BY <1>1, <1>5, Zenon DEF Outcomes
    <3>3. io'[desc[f].seg] = io[desc[f].seg]
      BY <1>1, <1>5, <1>21, <2>2, Zenon
    <3> QED BY <3>1, <3>2, <3>3, Zenon
  <2>3. CASE i # f /\ i # k
    <3>1. desc'[i] = desc[i] /\ (In(i, cd, Succ(f)) <=> In(i, cd, f))
      BY <1>11, <1>15, <2>3, Zenon
    <3> QED BY <1>21, <2>3, <3>1 DEF Outcomes
  <2> QED BY <2>1, <2>2, <2>3, Zenon
<1>23. s \notin todo /\ ~(rq[ReqOf[s]] = "queued" /\ ReqOf[s] # cur)
  BY <1>2 DEF Outcomes, ToSubmit
<1>24. \A i \in Slots : Outstanding(i) => \E j \in Slots : Outstanding(j) /\ desc'[i].seg = desc[j].seg
  BY <1>1, <1>2, <1>5, <1>8, <1>11
<1>25. ToSubmit'
  <2>1. \A q \in Segs : q # s => io'[q] = io[q]
    BY <1>9, Zenon DEF TypeOK
  <2>2. todo \subseteq Segs
    BY Zenon DEF TypeOK
  <2>3. UNCHANGED <<cur, todo, rq, bio_end>>
    BY <1>9, Zenon
  <2>4. \A q \in Segs : rq[ReqOf[q]] = "queued" /\ ReqOf[q] # cur =>
            \A i \in Slots : Outstanding(i)' => desc'[i].seg # q
    BY <1>19, <1>24 DEF ToSubmit
  <2> QED BY <1>23, <2>1, <2>2, <2>3, <2>4 DEF ToSubmit
<1>26. Attached' /\ Counted'
  BY <1>9, Zenon DEF Attached, Counted
<1> QED BY <1>16, <1>17, <1>18, <1>20, <1>22, <1>25, <1>26, Zenon DEF RingInvNoType

=============================================================================
