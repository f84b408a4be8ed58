----------------------------- MODULE Apic_proof -----------------------------
(***************************************************************************)
(* The inductive invariant of the virtual APICs, on lemmas about the       *)
(* registers, and about what a round of the IRQ thread and raising an      *)
(* interrupt again change.                                                 *)
(***************************************************************************)
EXTENDS Apic, WellFoundedInduction, TLAPS

\* Vectors are the numbers of interrupts.
LEMMA VectorsAreNumbers == Vectors \subseteq 32 .. 255 /\ LineVectors \subseteq Vectors
<1>1. LineVectors \subseteq 32 .. 255
  BY VectorsAssumption DEF LineVectors
<1>2. {TimerVector} \cup Ipis \subseteq 32 .. 255
  BY VectorsAssumption
<1> QED
  BY <1>1, <1>2, Zenon DEF Vectors

\* msb_rr finds the highest vector of a register that is not empty.
LEMMA MsbIsMember ==
    ASSUME NEW rr \in SUBSET Vectors, rr # {}
    PROVE  Msb(rr) \in rr /\ \A v \in rr : v <= Msb(rr)
<1> DEFINE less == OpToRel(<, Nat)
           down == {255 - v : v \in rr}
<1> HIDE DEF less
<1>1. rr \subseteq 32 .. 255
  BY VectorsAreNumbers, Zenon
<1>2. down \subseteq Nat /\ down # {}
  <2>1. \A v \in rr : 255 - v \in Nat
    BY <1>1
  <2> QED
    BY <2>1, Zenon
<1>3. \E x \in down : \A y \in down : ~ (<<y, x>> \in less)
  <2> HIDE DEF less, down
  <2>1. IsWellFoundedOn(less, Nat)
    BY NatLessThanWellFounded, Zenon DEF less
  <2> QED
    BY <1>2, <2>1, WFMin, Zenon
<1>4. PICK x \in down : \A y \in down : ~ (<<y, x>> \in less)
  BY <1>3, Zenon
<1>5. \A y \in down : x <= y
  <2>1. \A y \in down : ~ (y < x)
    BY <1>2, <1>4, Zenon DEF OpToRel, less
  <2> HIDE DEF down
  <2> QED
    BY <1>2, <2>1
<1>6. PICK m \in rr : x = 255 - m
  BY <1>4, Zenon
<1>7. \A v \in rr : m >= v
  <2> TAKE v \in rr
  <2>1. x <= 255 - v
    BY <1>5
  <2> QED
    BY <1>1, <1>6, <2>1
<1>8. Max(rr) \in rr /\ \A v \in rr : Max(rr) >= v
  <2> HIDE DEF down
  <2> QED
    BY <1>7, Zenon DEF Max
<1> QED
  BY <1>1, <1>8, Zenon DEF Msb

\* Priority classes are ordered as their vectors are.
LEMMA ClassMonotone ==
    ASSUME NEW v \in Vectors, NEW w \in Vectors, v <= w
    PROVE  Class(v) \in Nat /\ Class(w) \in Nat /\ Class(v) <= Class(w)
  BY VectorsAreNumbers DEF Class

LEMMA ClassIsNumber == \A v \in Vectors : Class(v) \in Nat
  BY VectorsAreNumbers DEF Class

\* The vector pending_vector finds is requested, and above all that are in service.
LEMMA PendingAbove ==
    ASSUME NEW r \in SUBSET Vectors, isr \subseteq Vectors, Pending(r)
    PROVE  Msb(r) \in r /\ \A w \in isr : Class(w) < Class(Msb(r))
<1>1. r # {}
  BY DEF Pending, Msb
<1>2. Msb(r) \in r
  BY <1>1, MsbIsMember, Zenon
<1>3. ASSUME NEW w \in isr PROVE Class(w) < Class(Msb(r))
  <2>1. Msb(isr) \in isr /\ w <= Msb(isr)
    BY <1>3, MsbIsMember, Zenon
  <2>2. Class(w) \in Nat /\ Class(Msb(isr)) \in Nat /\ Class(w) <= Class(Msb(isr))
    BY <2>1, ClassMonotone, Zenon
  <2>3. Class(Msb(r)) \in Nat
    BY <1>2, ClassIsNumber, Zenon
  <2>4. Class(Msb(r)) > Class(Msb(isr))
    BY Zenon DEF Pending
  <2> HIDE DEF Class
  <2> QED
    BY <2>2, <2>3, <2>4
<1> QED
  BY <1>2, <1>3, Zenon

\* A line is the only one with its vector.
LEMMA SentLine ==
    ASSUME NEW S \in SUBSET Lines
    PROVE  /\ Sent(S) \subseteq LineVectors
           /\ \A i \in Lines : Vector[i] \in Sent(S) <=> i \in S \ msk
  BY VectorsAssumption DEF Sent, LineVectors

\* The requests at the end of a round.
Raised(S, tick) == irr \cup (Sent(S) \cup (IF tick THEN {TimerVector} ELSE {}))

LEMMA RaisedLine ==
    ASSUME NEW S \in SUBSET Lines, NEW tick, irr \subseteq Vectors
    PROVE  /\ Raised(S, tick) \subseteq Vectors
           /\ irr \subseteq Raised(S, tick)
           /\ \A i \in Lines : Vector[i] \in Raised(S, tick) <=> Vector[i] \in irr \/ i \in S \ msk
<1>1. Raised(S, tick) \subseteq Vectors /\ irr \subseteq Raised(S, tick)
  BY SentLine, VectorsAreNumbers DEF Raised, Vectors
<1>2. \A i \in Lines : Vector[i] # TimerVector
  BY VectorsAssumption DEF LineVectors
<1> QED
  BY <1>1, <1>2, SentLine, Zenon DEF Raised

\* A round of the IRQ thread interrupts guest code, or wakes the main thread, with a vector
\* above all that are in service, or leaves what they see alone.
Interrupts(v, r) ==
    /\ pc = "run" /\ fi /\ v \in r
    /\ irr' = r \ {v} /\ isr' = isr \cup {v} /\ fi' = FALSE /\ serving' = Append(serving, v)
    /\ halted' = FALSE /\ UNCHANGED <<pc, vec>>
    /\ \A w \in isr : Class(w) < Class(v)

Wakes(v, r) ==
    /\ pc = "wait" /\ fi /\ v \in r
    /\ irr' = r \ {v} /\ isr' = isr \cup {v} /\ pc' = "redirect" /\ vec' = v
    /\ UNCHANGED guestVars
    /\ \A w \in isr : Class(w) < Class(v)

LeavesAlone(r) == irr' = r /\ isr' = isr /\ UNCHANGED <<guestVars, pc, vec>>

LEMMA DeliverEffect ==
    ASSUME NEW r \in SUBSET Vectors, NEW b, Deliver(r, b), TypeOK
    PROVE  \/ \E v \in r : Interrupts(v, r)
           \/ \E v \in r : Wakes(v, r)
           \/ LeavesAlone(r)
<1>1. CASE fi /\ b # {} /\ Pending(r)
  <2>1. Msb(r) \in r /\ \A w \in isr : Class(w) < Class(Msb(r))
    BY <1>1, PendingAbove, Zenon DEF TypeOK
  <2>2. Msb(r) \notin isr
    <3>1. Class(Msb(r)) \in Nat
      BY <2>1, ClassIsNumber, Zenon
    <3> QED
      BY <2>1, <3>1
  <2>3. CASE pc = "run"
    <3>1. Interrupts(Msb(r), r)
      BY <1>1, <2>1, <2>3, Zenon DEF Deliver, Interrupts, EnterHandler
    <3> QED
      BY <2>1, <3>1, Zenon
  <2>4. CASE pc = "wait"
    <3>1. Wakes(Msb(r), r)
      BY <1>1, <2>1, <2>4, Zenon DEF Deliver, Wakes
    <3> QED
      BY <2>1, <3>1, Zenon
  <2>5. CASE pc \notin {"run", "wait"}
    <3>1. irr' = r /\ isr' = isr \ {Msb(r)} /\ UNCHANGED <<guestVars, pc, vec>>
      BY <1>1, <2>5, Zenon DEF Deliver
    <3>2. isr' = isr
      BY <2>2, <3>1, Zenon
    <3> QED
      BY <3>1, <3>2, Zenon DEF LeavesAlone
  <2> QED
    BY <2>3, <2>4, <2>5, Zenon
<1>2. CASE ~(fi /\ b # {} /\ Pending(r))
  BY <1>2, Zenon DEF Deliver, LeavesAlone
<1> QED
  BY <1>1, <1>2, Zenon

\* What a round changes.
RoundChanges(S, tick) ==
    /\ pc \in {"store", "store2", "store3"} => SplitWrite
    /\ S \subseteq hwirq_latch /\ S \cap Hardware \cap hwirq_mask = {}
    /\ \/ \E v \in Raised(S, tick) : Interrupts(v, Raised(S, tick))
       \/ \E v \in Raised(S, tick) : Wakes(v, Raised(S, tick))
       \/ LeavesAlone(Raised(S, tick))
    /\ remote_irr' = remote_irr \cup ((S \cap Level) \ msk)
    /\ pnd' = pnd \cup (S \cap Level \cap msk)
    /\ tmr' = tmr \cup Sent(S \cap Level)
    /\ hwirq_mask' = (hwirq_mask \cup S) \ (S \ Level)
    /\ pin' \in [LineVectors -> Lines \cup {NoIrq}]
    /\ \A i \in Lines : pin'[Vector[i]] = IF i \in S \ msk THEN i ELSE pin[Vector[i]]
    /\ UNCHANGED <<msk, hwirq_latch, line, loaded>>

LEMMA RoundEffect ==
    ASSUME NEW S \in SUBSET Lines, NEW tick \in BOOLEAN, Round(S, tick), TypeOK
    PROVE  RoundChanges(S, tick)
<1>1. pin' = [v \in LineVectors |-> IF v \in Sent(S) THEN CHOOSE i \in S : Vector[i] = v ELSE pin[v]]
  BY Zenon DEF Round
<1>2. pin' \in [LineVectors -> Lines \cup {NoIrq}]
  <2>1. ASSUME NEW v \in Sent(S) PROVE (CHOOSE i \in S : Vector[i] = v) \in Lines
    <3>1. \E i \in S : Vector[i] = v
      BY <2>1, Zenon DEF Sent
    <3> QED
      BY <3>1, Zenon
  <2>2. pin \in [LineVectors -> Lines \cup {NoIrq}]
    BY Zenon DEF TypeOK
  <2> QED
    BY <1>1, <2>1, <2>2, Zenon
<1>3. ASSUME NEW i \in Lines PROVE pin'[Vector[i]] = IF i \in S \ msk THEN i ELSE pin[Vector[i]]
  <2>1. Vector[i] \in LineVectors /\ (Vector[i] \in Sent(S) <=> i \in S \ msk)
    BY SentLine, Zenon DEF LineVectors
  <2>2. i \in S => (CHOOSE j \in S : Vector[j] = Vector[i]) = i
    BY VectorsAssumption, Zenon
  <2> QED
    BY <1>1, <2>1, <2>2, Zenon
<1>4. Deliver(Raised(S, tick), irq_vectors \cup Bits(Sent(S) \cup (IF tick THEN {TimerVector} ELSE {})))
  BY Zenon DEF Round, Raised
<1>5. \/ \E v \in Raised(S, tick) : Interrupts(v, Raised(S, tick))
      \/ \E v \in Raised(S, tick) : Wakes(v, Raised(S, tick))
      \/ LeavesAlone(Raised(S, tick))
  <2>1. Raised(S, tick) \in SUBSET Vectors
    BY RaisedLine, Zenon DEF TypeOK
  <2> QED
    BY <1>4, <2>1, DeliverEffect, Zenon
<1> QED
  BY <1>2, <1>3, <1>5, Zenon DEF Round, RaiseIrq, RoundChanges

\* The bits of a round stay within the word.
LEMMA RoundBits ==
    ASSUME NEW S \in SUBSET Lines, NEW tick \in BOOLEAN, Round(S, tick), irq_vectors \subseteq 0 .. 31
    PROVE  irq_vectors' \subseteq 0 .. 31
<1> DEFINE V == Sent(S) \cup (IF tick THEN {TimerVector} ELSE {})
<1>1. Deliver(irr \cup V, irq_vectors \cup Bits(V))
  BY Zenon DEF Round
<1>2. \A W : Bits(W) \subseteq 0 .. 31
  BY Zenon DEF Bits
<1> HIDE DEF V
<1>3. \/ irq_vectors' = irq_vectors \cup Bits(V)
      \/ irq_vectors' = (irq_vectors \cup Bits(V)) \cup Bits({Msb(irr \cup V)})
  BY <1>1, Zenon DEF Deliver
<1> QED
  BY <1>2, <1>3, Zenon

\* Raising a level interrupt that was marked pending: it is requested, or marked again.
LEMMA ReraiseEffect ==
    ASSUME NEW i \in pnd, Reraise(i), TypeOK, Vector[i] \notin isr
    PROVE  /\ i \in msk => pnd' = pnd /\ irr' = irr /\ tmr' = tmr /\ remote_irr' = remote_irr
           /\ i \notin msk => /\ pnd' = pnd \ {i} /\ remote_irr' = remote_irr \cup {i}
                              /\ irr' = irr \cup {Vector[i]} /\ tmr' = tmr \cup {Vector[i]}
           /\ irq_vectors' \subseteq 0 .. 31
           /\ UNCHANGED <<isr, pin, msk, hwirq_mask, hwirq_latch>>
<1>1. i \in Level /\ i \in Lines
  BY LinesAssumption, Zenon DEF TypeOK
<1>2. Sent({i}) = (IF i \in msk THEN {} ELSE {Vector[i]}) /\ {i} \cap Level = {i}
  BY <1>1, Zenon DEF Sent
<1>3. irq_vectors' = irq_vectors \cup Bits(Sent({i})) /\ Bits(Sent({i})) \subseteq 0 .. 31
  BY Zenon DEF Reraise, Bits
<1>4. /\ irr' = irr \cup Sent({i}) /\ isr' = isr \ Sent({i}) /\ UNCHANGED <<pin, hwirq_latch, msk>>
      /\ remote_irr' = remote_irr \cup (({i} \cap Level) \ msk) /\ tmr' = tmr \cup Sent({i} \cap Level)
      /\ pnd' = (pnd \ {i}) \cup ({i} \cap Level \cap msk) /\ hwirq_mask' = hwirq_mask \ ({i} \ Level)
  BY Zenon DEF Reraise, RaiseIrq
<1>5. irq_vectors' \subseteq 0 .. 31
  BY <1>3, Zenon DEF TypeOK
<1> QED
  BY <1>1, <1>2, <1>4, <1>5, Zenon

\* A store of a redirection entry sets no bit that is not set, and where no raise can come
\* between load and store it clears none.
LEMMA StoreEffect ==
    ASSUME StoreEntry, LoadedInv, pc \in {"store", "store2", "store3"}
    PROVE  /\ remote_irr' \subseteq remote_irr /\ pnd' \subseteq pnd /\ loaded' = {}
           /\ ~SplitWrite => remote_irr' = remote_irr /\ pnd' = pnd
  BY Zenon DEF StoreEntry, LoadedInv

\* The line an end of interrupt is about has not been in service since.
LEMMA PinOfVector ==
    ASSUME TypeOK, PinInv, NEW v \in LineVectors, pin[v] \in Lines
    PROVE  Vector[pin[v]] = v /\ \A i \in Lines : Vector[i] = v => pin[v] = i
  BY LinesAssumption, VectorsAssumption DEF PinInv

\* An end of interrupt ends the innermost handler's own: the highest vector in service is
\* the last that is handled.
LEMMA EoiEndsCurrent ==
    ASSUME TypeOK, NestedService, pc = "run", serving # <<>>
    PROVE  /\ isr # {} /\ Msb(isr) \in isr /\ Msb(isr) = serving[Len(serving)]
           /\ \A k \in 1 .. Len(serving) - 1 : serving[k] # serving[Len(serving)]
<1>1. serving \in Seq(Vectors) /\ Len(serving) \in Nat \ {0}
  BY DEF TypeOK
<1>2. isr = {serving[k] : k \in 1 .. Len(serving)}
  BY Zenon DEF NestedService
<1>3. serving[Len(serving)] \in isr
  BY <1>1, <1>2
<1>4. Msb(isr) \in isr /\ serving[Len(serving)] <= Msb(isr)
  BY <1>3, MsbIsMember, Zenon DEF TypeOK
<1>5. PICK k \in 1 .. Len(serving) : Msb(isr) = serving[k]
  BY <1>2, <1>4, Zenon
<1>6. \A j \in 1 .. Len(serving) : j < Len(serving) => Class(serving[j]) < Class(serving[Len(serving)])
  BY <1>1 DEF NestedService
<1>7. \A j \in 1 .. Len(serving) : serving[j] \in Vectors /\ Class(serving[j]) \in Nat
  BY <1>1, ClassIsNumber
<1>8. k = Len(serving)
  <2>1. Class(serving[Len(serving)]) <= Class(serving[k])
    BY <1>1, <1>4, <1>5, <1>7, ClassMonotone
  <2> QED
    BY <1>1, <1>6, <1>7, <2>1
<1> QED
  BY <1>1, <1>3, <1>4, <1>5, <1>6, <1>7, <1>8

-----------------------------------------------------------------------------
(* Every step preserves the types. *)

LEMMA TypeStep ==
    ASSUME TypeOK, NestedService, StepsInv, LoadedInv, PinInv, [Next]_vars
    PROVE  TypeOK'
<1> USE DEF lapicVars, ioapicVars, hwVars, guestVars, localVars
<1>0. LineVectors \subseteq Vectors /\ NoIrq \notin Lines /\ Level \subseteq Lines /\ \A i \in Lines : Vector[i] \in LineVectors
  BY VectorsAreNumbers, LinesAssumption, Zenon DEF LineVectors
<1>1. ASSUME NEW S \in SUBSET Lines, NEW tick \in BOOLEAN, Round(S, tick) PROVE TypeOK'
  <2>0. RoundChanges(S, tick)
    BY <1>1, RoundEffect, Zenon
  <2>1. Raised(S, tick) \subseteq Vectors /\ Sent(S \cap Level) \subseteq LineVectors
    BY RaisedLine, SentLine, Zenon DEF TypeOK
  <2>2. irq_vectors' \subseteq 0 .. 31
    BY <1>1, RoundBits, Zenon DEF TypeOK
  <2>3. irr' \subseteq Vectors /\ isr' \subseteq Vectors /\ serving' \in Seq(Vectors)
    <3>1. CASE \E v \in Raised(S, tick) : Interrupts(v, Raised(S, tick))
      <4>1. PICK v \in Raised(S, tick) : Interrupts(v, Raised(S, tick))
        BY <3>1, Zenon
      <4>2. irr' = Raised(S, tick) \ {v} /\ isr' = isr \cup {v} /\ serving' = Append(serving, v)
        BY <4>1, Zenon DEF Interrupts
      <4>3. serving \in Seq(Vectors) /\ isr \subseteq Vectors /\ v \in Vectors
        BY <2>1, Zenon DEF TypeOK
      <4>4. serving' \in Seq(Vectors)
        BY <4>2, <4>3
      <4> QED
        BY <2>1, <4>2, <4>3, <4>4, Zenon
    <3>2. CASE \E v \in Raised(S, tick) : Wakes(v, Raised(S, tick))
      <4>1. PICK v \in Raised(S, tick) : Wakes(v, Raised(S, tick))
        BY <3>2, Zenon
      <4>2. irr' = Raised(S, tick) \ {v} /\ isr' = isr \cup {v} /\ serving' = serving
        BY <4>1, Zenon DEF Wakes
      <4> QED
        BY <2>1, <4>2, Zenon DEF TypeOK
    <3>3. CASE LeavesAlone(Raised(S, tick))
      BY <2>1, <3>3, Zenon DEF TypeOK, LeavesAlone
    <3> QED
      BY <2>0, <3>1, <3>2, <3>3, Zenon DEF RoundChanges
  <2>4. fi' \in BOOLEAN /\ halted' \in BOOLEAN
    <3>1. (fi' = FALSE \/ fi' = fi) /\ (halted' = FALSE \/ halted' = halted)
      BY <2>0, Zenon DEF RoundChanges, Interrupts, Wakes, LeavesAlone
    <3> QED
      BY <3>1, Zenon DEF TypeOK
  <2>5. ticked' \in BOOLEAN
    BY <1>1, Zenon DEF Round
  <2>6. /\ tmr' \subseteq LineVectors /\ pin' \in [LineVectors -> Lines \cup {NoIrq}] /\ hwirq_mask' \subseteq Level
        /\ msk' \subseteq Lines /\ remote_irr' \subseteq Level /\ pnd' \subseteq Level /\ hwirq_latch' \subseteq Lines
    <3>1. /\ remote_irr' = remote_irr \cup ((S \cap Level) \ msk) /\ pnd' = pnd \cup (S \cap Level \cap msk)
          /\ tmr' = tmr \cup Sent(S \cap Level) /\ hwirq_mask' = (hwirq_mask \cup S) \ (S \ Level)
          /\ pin' \in [LineVectors -> Lines \cup {NoIrq}] /\ msk' = msk /\ hwirq_latch' = hwirq_latch
      BY <2>0, Zenon DEF RoundChanges
    <3>2. /\ remote_irr \subseteq Level /\ pnd \subseteq Level /\ tmr \subseteq LineVectors
          /\ hwirq_mask \subseteq Level /\ msk \subseteq Lines /\ hwirq_latch \subseteq Lines
      BY Zenon DEF TypeOK
    <3> QED
      BY <2>1, <3>1, <3>2, Zenon
  <2>7. UNCHANGED <<line, loaded>> /\ (pc' = pc \/ pc' = "redirect") /\ vec' \in Vectors \cup {0}
    <3>1. vec' = vec \/ vec' \in Raised(S, tick)
      BY <2>0, Zenon DEF RoundChanges, Interrupts, Wakes, LeavesAlone
    <3>2. UNCHANGED <<line, loaded>> /\ (pc' = pc \/ pc' = "redirect")
      BY <2>0, Zenon DEF RoundChanges, Interrupts, Wakes, LeavesAlone
    <3> QED
      BY <2>1, <3>1, <3>2, Zenon DEF TypeOK
  <2> QED
    BY <2>2, <2>3, <2>4, <2>5, <2>6, <2>7, Zenon DEF TypeOK
<1>2. CASE Poll \/ Resume \/ Cli \/ Sti \/ Iret \/ Halt \/ TimePasses \/ UNCHANGED vars
  BY <1>2, Zenon DEF TypeOK, Poll, Resume, Cli, Sti, Iret, Halt, TimePasses, vars
<1>3. CASE Look
  <2>1. Pending(irr) => Msb(irr) \in Vectors
    BY PendingAbove, Zenon DEF TypeOK
  <2> QED
    BY <1>3, <2>1, Zenon DEF TypeOK, Look
<1>4. CASE Claim
  BY <1>4, Zenon DEF TypeOK, Claim
<1>5. CASE Service
  BY <1>5, Zenon DEF TypeOK, Service, StepsInv
<1>6. CASE Redirect
  <2>1. serving' \in Seq(Vectors)
    <3>1. serving \in Seq(Vectors) /\ vec \in Vectors /\ serving' = Append(serving, vec)
      BY <1>6, Zenon DEF TypeOK, Redirect, EnterHandler, StepsInv
    <3> QED
      BY <3>1
  <2> QED
    BY <1>6, <2>1, Zenon DEF TypeOK, Redirect, EnterHandler
<1>7. CASE ClearBit
  BY <1>7, Zenon DEF TypeOK, ClearBit
<1>8. CASE TestMode
  BY <1>8, Zenon DEF TypeOK, TestMode
<1>9. CASE IoapicEoi
  BY <1>9, Zenon DEF TypeOK, IoapicEoi
<1>10. CASE UnmaskDevice
  BY <1>10, Zenon DEF TypeOK, UnmaskDevice
<1>11. ASSUME NEW i \in pnd, Reraise(i), Vector[i] \notin isr PROVE
         /\ irr' \subseteq Vectors /\ isr' \subseteq Vectors /\ tmr' \subseteq LineVectors /\ irq_vectors' \subseteq 0 .. 31
         /\ pin' = pin /\ msk' \subseteq Lines /\ remote_irr' \subseteq Level /\ pnd' \subseteq Level
         /\ hwirq_mask' \subseteq Level /\ hwirq_latch' \subseteq Lines
  <2>1. /\ irr \subseteq Vectors /\ isr \subseteq Vectors /\ tmr \subseteq LineVectors /\ msk \subseteq Lines
        /\ remote_irr \subseteq Level /\ pnd \subseteq Level /\ hwirq_mask \subseteq Level /\ hwirq_latch \subseteq Lines
    BY Zenon DEF TypeOK
  <2>2. i \in Lines /\ i \in Level
    BY <1>0, <2>1, Zenon
  <2> QED
    BY <1>0, <1>11, <2>1, <2>2, ReraiseEffect
<1>12. CASE RaisePending
  <2>1. pin[vec] \in Lines /\ vec \in LineVectors /\ vec \notin isr
    BY <1>12, Zenon DEF RaisePending, StepsInv, EoiSteps
  <2>2. Vector[pin[vec]] \notin isr
    BY <2>1, PinOfVector, Zenon
  <2> QED
    BY <1>11, <1>12, <2>2, Zenon DEF RaisePending, TypeOK
<1>13. CASE RaiseUnmasked
  <2>1. Vector[line] \notin isr
    BY <1>13, Zenon DEF RaiseUnmasked, StepsInv, EnableSteps
  <2> QED
    BY <1>11, <1>13, <2>1, Zenon DEF RaiseUnmasked, TypeOK
<1>14. CASE LoadEntry
  BY <1>14 DEF TypeOK, LoadEntry
<1>15. CASE StoreMask
  BY <1>15, StoreEffect, Zenon DEF TypeOK, StoreMask, StepsInv, WriteSteps
<1>16. CASE StoreFields
  BY <1>16, StoreEffect, Zenon DEF TypeOK, StoreFields
<1>17. CASE EnableEntry
  BY <1>17, Zenon DEF TypeOK, EnableEntry, StepsInv, WriteSteps, EnableSteps
<1>21. CASE StoreOld
  BY <1>21, StoreEffect, Zenon DEF TypeOK, StoreOld
<1>18. CASE Eoi
  <2>1. Msb(isr) \in Vectors
    BY <1>18, EoiEndsCurrent, Zenon DEF Eoi, TypeOK
  <2>2. serving' \in Seq(Vectors)
    <3>1. serving \in Seq(Vectors) /\ serving # <<>> /\ serving' = SubSeq(serving, 1, Len(serving) - 1)
      BY <1>18, Zenon DEF Eoi, TypeOK
    <3> QED
      BY <3>1
  <2> QED
    BY <1>18, <2>1, <2>2, Zenon DEF TypeOK, Eoi
<1>19. ASSUME NEW i \in Lines, WriteEntry(i) PROVE TypeOK'
  BY <1>19, Zenon DEF TypeOK, WriteEntry
<1>20. ASSUME NEW v \in Ipis, SendIpi(v) PROVE TypeOK'
  BY <1>20, Zenon DEF TypeOK, SendIpi, Vectors, Bits
<1> QED
  BY <1>1, <1>2, <1>3, <1>4, <1>5, <1>6, <1>7, <1>8, <1>9, <1>10, <1>12, <1>13, <1>14, <1>15, <1>16,
     <1>17, <1>18, <1>19, <1>20, <1>21 DEF Next, InWedge

\* Line i, if it is marked pending, is requested or stays marked.
Reraised(i) ==
    /\ \/ i \notin pnd \ msk /\ UNCHANGED <<irr, tmr, remote_irr, pnd>>
       \/ /\ i \in pnd \ msk /\ pnd' = pnd \ {i} /\ remote_irr' = remote_irr \cup {i}
          /\ irr' = irr \cup {Vector[i]} /\ tmr' = tmr \cup {Vector[i]}
    /\ UNCHANGED <<isr, pin, msk, hwirq_mask, hwirq_latch>>

LEMMA RaisePendingEffect ==
    ASSUME TypeOK, StepsInv, PinInv, RaisePending
    PROVE  Reraised(pin[vec]) /\ pin[vec] \in Lines /\ Vector[pin[vec]] = vec /\ vec \notin isr
<1> USE DEF lapicVars, ioapicVars, hwVars
<1>1. pin[vec] \in Lines /\ vec \in LineVectors /\ vec \notin isr
  BY Zenon DEF RaisePending, StepsInv, EoiSteps
<1>2. Vector[pin[vec]] = vec
  BY <1>1, PinOfVector, Zenon
<1>3. CASE pin[vec] \in pnd
  <2>1. Reraise(pin[vec])
    BY <1>3, Zenon DEF RaisePending
  <2> QED
    BY <1>1, <1>2, <1>3, <2>1, ReraiseEffect, Zenon DEF Reraised
<1>4. CASE pin[vec] \notin pnd
  BY <1>1, <1>2, <1>4, Zenon DEF RaisePending, Reraised
<1> QED
  BY <1>3, <1>4, Zenon

LEMMA RaiseUnmaskedEffect ==
    ASSUME TypeOK, StepsInv, RaiseUnmasked
    PROVE  Reraised(line) /\ line \in Lines /\ line \notin msk /\ Vector[line] \notin isr
<1> USE DEF lapicVars, ioapicVars, hwVars
<1>1. line \in Lines /\ line \notin msk /\ Vector[line] \notin isr
  BY Zenon DEF RaiseUnmasked, StepsInv, WriteSteps, EnableSteps
<1>2. CASE line \in pnd
  <2>1. Reraise(line)
    BY <1>2, Zenon DEF RaiseUnmasked
  <2> QED
    BY <1>1, <1>2, <2>1, ReraiseEffect, Zenon DEF Reraised
<1>3. CASE line \notin pnd
  BY <1>1, <1>3, Zenon DEF RaiseUnmasked, Reraised
<1> QED
  BY <1>2, <1>3, Zenon

-----------------------------------------------------------------------------
(* Every step keeps handlers nested. *)

\* Entering a handler above all others.
LEMMA EnterAbove ==
    ASSUME NEW s \in Seq(Vectors), NEW v \in Vectors,
           \A j, k \in 1 .. Len(s) : j < k => Class(s[j]) < Class(s[k]),
           \A k \in 1 .. Len(s) : Class(s[k]) < Class(v)
    PROVE  /\ {Append(s, v)[k] : k \in 1 .. Len(Append(s, v))} = {s[k] : k \in 1 .. Len(s)} \cup {v}
           /\ \A j, k \in 1 .. Len(Append(s, v)) : j < k => Class(Append(s, v)[j]) < Class(Append(s, v)[k])
<1> DEFINE t == Append(s, v)
<1>1. Len(s) \in Nat /\ Len(t) = Len(s) + 1 /\ t[Len(s) + 1] = v /\ \A k \in 1 .. Len(s) : t[k] = s[k]
  OBVIOUS
<1> HIDE DEF t
<1>2. \A k \in 1 .. Len(t) : k \in 1 .. Len(s) \/ k = Len(s) + 1
  BY <1>1
<1>3. {t[k] : k \in 1 .. Len(t)} = {s[k] : k \in 1 .. Len(s)} \cup {v}
  <2>1. \A k \in 1 .. Len(s) : k \in 1 .. Len(t)
    BY <1>1
  <2>2. Len(s) + 1 \in 1 .. Len(t)
    BY <1>1
  <2> QED
    BY <1>1, <1>2, <2>1, <2>2, Zenon
<1>4. ASSUME NEW j \in 1 .. Len(t), NEW k \in 1 .. Len(t), j < k PROVE Class(t[j]) < Class(t[k])
  <2>1. j \in 1 .. Len(s)
    BY <1>1, <1>4
  <2>2. CASE k \in 1 .. Len(s)
    BY <1>1, <1>4, <2>1, <2>2, Zenon
  <2>3. CASE k = Len(s) + 1
    BY <1>1, <2>1, <2>3, Zenon
  <2> QED
    BY <1>2, <2>2, <2>3, Zenon
<1> QED
  BY <1>3, <1>4, Zenon DEF t

\* Leaving the innermost handler.
LEMMA LeaveHandler ==
    ASSUME NEW s \in Seq(Vectors), s # <<>>
    PROVE  /\ Len(s) \in Nat \ {0} /\ Len(SubSeq(s, 1, Len(s) - 1)) = Len(s) - 1
           /\ \A k \in 1 .. Len(s) - 1 : SubSeq(s, 1, Len(s) - 1)[k] = s[k]
<1> DEFINE m == Len(s) - 1
           t == SubSeq(s, 1, m)
<1>1. Len(s) \in Nat \ {0} /\ m \in Nat /\ \A k \in 1 .. m : s[k] \in Vectors
  OBVIOUS
<1> HIDE DEF m
<1>2. Len(t) = (IF 1 <= m THEN m - 1 + 1 ELSE 0) /\ \A k \in 1 .. m - 1 + 1 : t[k] = s[1 + k - 1]
  BY <1>1
<1> HIDE DEF t
<1>3. Len(t) = m /\ \A k \in 1 .. m : t[k] = s[k]
  BY <1>1, <1>2
<1> QED
  BY <1>1, <1>3, Zenon DEF m, t

LEMMA NestedStep ==
    ASSUME TypeOK, NestedService, StepsInv, PinInv, [Next]_vars
    PROVE  NestedService'
<1> USE DEF lapicVars, ioapicVars, hwVars, guestVars, localVars
<1> DEFINE Handled == {serving[k] : k \in 1 .. Len(serving)}
           Ascending == \A j, k \in 1 .. Len(serving) : j < k => Class(serving[j]) < Class(serving[k])
           Below == \A k \in 1 .. Len(serving) : Class(serving[k]) < Class(vec)
<1>0. /\ isr = Handled \cup (IF pc = "redirect" THEN {vec} ELSE {}) /\ Ascending
      /\ pc \in {"claim", "service", "redirect"} => Below
  BY Zenon DEF NestedService
<1>a. ASSUME isr' = Handled' \cup (IF pc' = "redirect" THEN {vec'} ELSE {}), Ascending',
             pc' \in {"claim", "service", "redirect"} => Below'
      PROVE  NestedService'
  BY <1>a, Zenon DEF NestedService
<1>b. serving' = serving => Handled' = Handled /\ (Ascending => Ascending') /\ (vec' = vec /\ Below => Below')
  OBVIOUS
<1>c. serving \in Seq(Vectors) /\ isr \subseteq Vectors /\ irr \subseteq Vectors
  BY Zenon DEF TypeOK
<1>1. ASSUME NEW S \in SUBSET Lines, NEW tick \in BOOLEAN, Round(S, tick) PROVE NestedService'
  <2>0. RoundChanges(S, tick)
    BY <1>1, RoundEffect, Zenon
  <2>2. CASE \E v \in Raised(S, tick) : Interrupts(v, Raised(S, tick))
    <3>1. PICK v \in Raised(S, tick) : Interrupts(v, Raised(S, tick))
      BY <2>2, Zenon
    <3>2. v \in Vectors
      BY <1>c, RaisedLine, Zenon
    <3>3. /\ pc = "run" /\ pc' = "run" /\ isr' = isr \cup {v} /\ serving' = Append(serving, v)
          /\ \A w \in isr : Class(w) < Class(v)
      BY <3>1, Zenon DEF Interrupts
    <3>4. isr = Handled
      BY <1>0, <3>3, Zenon
    <3>5. \A k \in 1 .. Len(serving) : Class(serving[k]) < Class(v)
      BY <3>3, <3>4, Zenon
    <3>6. Handled' = Handled \cup {v} /\ Ascending'
      <4>1. /\ {Append(serving, v)[k] : k \in 1 .. Len(Append(serving, v))} = Handled \cup {v}
            /\ \A j, k \in 1 .. Len(Append(serving, v)) :
                  j < k => Class(Append(serving, v)[j]) < Class(Append(serving, v)[k])
        BY <1>0, <1>c, <3>2, <3>5, EnterAbove, Zenon
      <4> QED
        BY <3>3, <4>1, Zenon
    <3> HIDE DEF Handled, Ascending, Below
    <3> QED
      BY <1>a, <3>3, <3>4, <3>6, Zenon
  <2>3. CASE \E v \in Raised(S, tick) : Wakes(v, Raised(S, tick))
    <3>1. PICK v \in Raised(S, tick) : Wakes(v, Raised(S, tick))
      BY <2>3, Zenon
    <3>2. /\ pc = "wait" /\ pc' = "redirect" /\ vec' = v /\ isr' = isr \cup {v} /\ serving' = serving
          /\ \A w \in isr : Class(w) < Class(v)
      BY <3>1, Zenon DEF Wakes
    <3>3. isr = Handled
      BY <1>0, <3>2, Zenon
    <3>4. Below'
      BY <3>2, <3>3, Zenon
    <3> HIDE DEF Handled, Ascending, Below
    <3> QED
      BY <1>0, <1>a, <1>b, <3>2, <3>3, <3>4, Zenon
  <2>4. CASE LeavesAlone(Raised(S, tick))
    <3>1. isr' = isr /\ serving' = serving /\ pc' = pc /\ vec' = vec
      BY <2>4, Zenon DEF LeavesAlone
    <3> HIDE DEF Handled, Ascending, Below
    <3> QED
      BY <1>0, <1>a, <1>b, <3>1, Zenon
  <2> QED
    BY <2>0, <2>2, <2>3, <2>4, Zenon DEF RoundChanges
<1>2. CASE Poll \/ Resume \/ Cli \/ Sti \/ Iret \/ Halt \/ TimePasses \/ UNCHANGED vars \/ Claim
  <2> HIDE DEF Handled, Ascending, Below
  <2> QED
    BY <1>0, <1>a, <1>b, <1>2, Zenon DEF Poll, Resume, Cli, Sti, Iret, Halt, TimePasses, vars,
       Claim
<1>3. CASE Look
  <2>1. CASE Pending(irr)
    <3>1. \A w \in isr : Class(w) < Class(Msb(irr))
      BY <1>c, <2>1, PendingAbove, Zenon
    <3>2. pc = "look" /\ pc' = "claim" /\ vec' = Msb(irr) /\ UNCHANGED <<isr, serving>>
      BY <1>3, <2>1, Zenon DEF Look
    <3>3. Below'
      BY <1>0, <3>1, <3>2, Zenon
    <3> HIDE DEF Handled, Ascending, Below
    <3> QED
      BY <1>0, <1>a, <1>b, <3>2, <3>3, Zenon
  <2>2. CASE ~Pending(irr)
    <3>1. pc = "look" /\ pc' = "resume" /\ UNCHANGED <<isr, serving>>
      BY <1>3, <2>2, Zenon DEF Look
    <3> HIDE DEF Handled, Ascending, Below
    <3> QED
      BY <1>0, <1>a, <1>b, <3>1, Zenon
  <2> QED
    BY <2>1, <2>2, Zenon
<1>5. CASE Service
  <2> HIDE DEF Handled, Ascending, Below
  <2> QED
    BY <1>0, <1>a, <1>b, <1>5, Zenon DEF Service
<1>6. CASE Redirect
  <2>1. vec \in Vectors /\ pc = "redirect" /\ pc' = "run" /\ isr' = isr /\ serving' = Append(serving, vec)
    BY <1>6, Zenon DEF Redirect, EnterHandler, StepsInv
  <2>2. Handled' = Handled \cup {vec} /\ Ascending'
    <3>1. \A k \in 1 .. Len(serving) : Class(serving[k]) < Class(vec)
      BY <1>0, <2>1, Zenon
    <3>2. /\ {Append(serving, vec)[k] : k \in 1 .. Len(Append(serving, vec))} = Handled \cup {vec}
          /\ \A j, k \in 1 .. Len(Append(serving, vec)) :
                j < k => Class(Append(serving, vec)[j]) < Class(Append(serving, vec)[k])
      BY <1>0, <1>c, <2>1, <3>1, EnterAbove, Zenon
    <3> QED
      BY <2>1, <3>2, Zenon
  <2> HIDE DEF Handled, Ascending, Below
  <2> QED
    BY <1>0, <1>a, <2>1, <2>2, Zenon
<1>7. CASE ClearBit \/ TestMode \/ IoapicEoi \/ UnmaskDevice
  <2> HIDE DEF Handled, Ascending, Below
  <2> QED
    BY <1>0, <1>a, <1>b, <1>7, Zenon DEF ClearBit, TestMode, IoapicEoi, UnmaskDevice
<1>8. CASE LoadEntry \/ StoreMask \/ StoreFields \/ EnableEntry \/ StoreOld
  <2> HIDE DEF Handled, Ascending, Below
  <2> QED
    BY <1>0, <1>a, <1>b, <1>8, Zenon DEF LoadEntry, StoreMask, StoreFields, EnableEntry, StoreOld
<1>9. CASE RaisePending \/ RaiseUnmasked
  <2>1. isr' = isr /\ pc # "redirect" /\ pc' = "run" /\ serving' = serving
    BY <1>9, RaisePendingEffect, RaiseUnmaskedEffect, Zenon DEF RaisePending, RaiseUnmasked,
       Reraised
  <2> HIDE DEF Handled, Ascending, Below
  <2> QED
    BY <1>0, <1>a, <1>b, <2>1, Zenon
<1>10. CASE Eoi
  <2> DEFINE n == Len(serving)
  <2>1. pc = "run" /\ serving # <<>> /\ pc' \in {"run", "clear"} /\ isr' = isr \ {Msb(isr)} /\ serving' = SubSeq(serving, 1, n - 1)
    BY <1>10, Zenon DEF Eoi
  <2>2. Msb(isr) = serving[n] /\ \A k \in 1 .. n - 1 : serving[k] # serving[n]
    BY <2>1, EoiEndsCurrent, Zenon
  <2>3. n \in Nat \ {0} /\ Len(serving') = n - 1 /\ \A k \in 1 .. n - 1 : serving'[k] = serving[k]
    <3>1. serving \in Seq(Vectors) /\ serving # <<>> /\ serving' = SubSeq(serving, 1, Len(serving) - 1)
      BY <1>c, <2>1, Zenon
    <3> HIDE DEF Handled, Ascending, Below
    <3>2. /\ Len(serving) \in Nat \ {0} /\ Len(SubSeq(serving, 1, Len(serving) - 1)) = Len(serving) - 1
          /\ \A k \in 1 .. Len(serving) - 1 : SubSeq(serving, 1, Len(serving) - 1)[k] = serving[k]
      BY <3>1, LeaveHandler, Zenon
    <3> QED
      BY <3>1, <3>2, Zenon
  <2> HIDE DEF n
  <2>4. \A k \in 1 .. Len(serving) : k \in 1 .. n - 1 \/ k = n
    BY <2>3 DEF n
  <2>5. \A k \in 1 .. n - 1 : k \in 1 .. Len(serving)
    BY <2>3 DEF n
  <2>6. isr' = Handled'
    BY <1>0, <2>1, <2>2, <2>3, <2>4, <2>5, Zenon
  <2>7. Ascending'
    BY <1>0, <2>3, <2>5
  <2> HIDE DEF Handled, Ascending, Below
  <2> QED
    BY <1>a, <2>1, <2>6, <2>7, Zenon
<1>11. ASSUME NEW i \in Lines, WriteEntry(i) PROVE NestedService'
  <2> HIDE DEF Handled, Ascending, Below
  <2> QED
    BY <1>0, <1>a, <1>b, <1>11, Zenon DEF WriteEntry
<1>12. ASSUME NEW v \in Ipis, SendIpi(v) PROVE NestedService'
  <2> HIDE DEF Handled, Ascending, Below
  <2> QED
    BY <1>0, <1>a, <1>b, <1>12, Zenon DEF SendIpi
<1> QED
  BY <1>1, <1>2, <1>3, <1>5, <1>6, <1>7, <1>8, <1>9, <1>10, <1>11, <1>12, Zenon DEF Next, InWedge


-----------------------------------------------------------------------------
(* What the main thread works on stays what it is while the IRQ thread runs. *)

LEMMA StepsStep ==
    ASSUME TypeOK, NestedService, StepsInv, LoadedInv, PinInv, [Next]_vars
    PROVE  StepsInv'
<1> USE DEF lapicVars, ioapicVars, hwVars, guestVars, localVars, WriteSteps, EoiSteps, EnableSteps
<1>0. /\ pin \in [LineVectors -> Lines \cup {NoIrq}] /\ tmr \subseteq LineVectors
      /\ LineVectors \subseteq Vectors /\ \A i \in Lines : Vector[i] \in LineVectors
  BY VectorsAreNumbers, Zenon DEF TypeOK, LineVectors
<1>1. ASSUME NEW S \in SUBSET Lines, NEW tick \in BOOLEAN, Round(S, tick) PROVE StepsInv'
  <2>0. RoundChanges(S, tick)
    BY <1>1, RoundEffect, Zenon
  <2>1. UNCHANGED <<line, loaded, msk>>
    BY <2>0, Zenon DEF RoundChanges
  <2>2. irr \subseteq Raised(S, tick) /\ Raised(S, tick) \subseteq Vectors
    BY RaisedLine, Zenon DEF TypeOK
  <2>3. \/ pc = "run" /\ pc' = "run"
        \/ pc' = "redirect" /\ vec' \in Vectors
        \/ isr' = isr /\ irr \subseteq irr' /\ fi' = fi /\ pc' = pc /\ vec' = vec
    BY <2>0, <2>2, Zenon DEF RoundChanges, Interrupts, Wakes, LeavesAlone, guestVars
  <2>4. ASSUME vec \in LineVectors, pin[vec] \in Lines PROVE pin'[vec] \in Lines
    <3>1. PICK i \in Lines : vec = Vector[i]
      BY <2>4, Zenon DEF LineVectors
    <3>2. pin'[vec] = i \/ pin'[vec] = pin[vec]
      BY <2>0, <3>1, Zenon DEF RoundChanges
    <3> QED
      BY <2>4, <3>2, Zenon
  <2> QED
    BY <2>1, <2>3, <2>4 DEF StepsInv
<1>2. CASE Poll \/ Cli \/ Sti \/ Iret \/ Halt \/ TimePasses \/ UNCHANGED vars
  BY <1>2 DEF StepsInv, Poll, Cli, Sti, Iret, Halt, TimePasses, vars
<1>17. CASE Resume
  BY <1>17, Zenon DEF StepsInv, Resume
<1>3. CASE Look
  <2>1. Pending(irr) => Msb(irr) \in irr
    BY PendingAbove, Zenon DEF TypeOK
  <2> QED
    BY <1>3, <2>1, Zenon DEF StepsInv, TypeOK, Look
<1>4. CASE Claim \/ Service
  BY <1>4, Zenon DEF StepsInv, Claim, Service
<1>5. CASE Redirect
  BY <1>5, Zenon DEF StepsInv, Redirect, EnterHandler
<1>6. CASE ClearBit \/ UnmaskDevice
  BY <1>6 DEF StepsInv, ClearBit, UnmaskDevice
<1>7. CASE TestMode
  BY <1>0, <1>7, Zenon DEF StepsInv, TestMode
<1>8. CASE IoapicEoi
  BY <1>0, <1>8, LinesAssumption, Zenon DEF StepsInv, IoapicEoi, TypeOK
<1>9. CASE RaisePending \/ RaiseUnmasked
  BY <1>9, Zenon DEF StepsInv, RaisePending, RaiseUnmasked
<1>10. CASE LoadEntry
  BY <1>10, Zenon DEF StepsInv, LoadEntry
<1>11. CASE StoreMask
  BY <1>11, Zenon DEF StepsInv, StoreMask
<1>12. CASE StoreFields
  BY <1>12, Zenon DEF StepsInv, StoreFields
<1>13. CASE EnableEntry
  BY <1>13, Zenon DEF StepsInv, EnableEntry
<1>18. CASE StoreOld
  BY <1>18, Zenon DEF StepsInv, StoreOld
<1>14. CASE Eoi
  <2>1. Msb(isr) \in Vectors
    BY <1>14, EoiEndsCurrent, Zenon DEF Eoi, TypeOK
  <2> QED
    BY <1>14, <2>1, Zenon DEF StepsInv, Eoi
<1>15. ASSUME NEW i \in Lines, WriteEntry(i) PROVE StepsInv'
  <2>1. i \in msk => Vector[i] \notin isr
    BY <1>15, Zenon DEF WriteEntry, NestedService
  <2> QED
    BY <1>15, <2>1, Zenon DEF StepsInv, WriteEntry
<1>16. ASSUME NEW v \in Ipis, SendIpi(v) PROVE StepsInv'
  BY <1>16, Zenon DEF StepsInv, SendIpi
<1> QED
  BY <1>1, <1>2, <1>3, <1>4, <1>5, <1>6, <1>7, <1>8, <1>9, <1>10, <1>11, <1>12, <1>13, <1>14, <1>15, <1>16,
     <1>17, <1>18 DEF Next, InWedge

LEMMA LoadedStep ==
    ASSUME TypeOK, StepsInv, LoadedInv, PinInv, [Next]_vars
    PROVE  LoadedInv'
<1> USE DEF lapicVars, ioapicVars, hwVars, guestVars, localVars
<1>1. ASSUME NEW S \in SUBSET Lines, NEW tick \in BOOLEAN, Round(S, tick) PROVE LoadedInv'
  <2>0. RoundChanges(S, tick)
    BY <1>1, RoundEffect, Zenon
  <2>1. UNCHANGED <<line, loaded>> /\ remote_irr \subseteq remote_irr' /\ pnd \subseteq pnd'
    BY <2>0, Zenon DEF RoundChanges
  <2>2. pc \in {"store", "store2", "store3"} => SplitWrite
    BY <2>0, Zenon DEF RoundChanges
  <2>3. pc' = pc \/ (pc = "wait" /\ pc' = "redirect")
    BY <2>0, Zenon DEF RoundChanges, Interrupts, Wakes, LeavesAlone
  <2> QED
    BY <2>1, <2>2, <2>3, Zenon DEF LoadedInv
<1>2. CASE Poll \/ Resume \/ Cli \/ Sti \/ Iret \/ Halt \/ TimePasses \/ UNCHANGED vars \/ Look
  BY <1>2, Zenon DEF LoadedInv, Poll, Resume, Cli, Sti, Iret, Halt, TimePasses, vars, Look
<1>3. CASE Claim \/ Service \/ Redirect \/ ClearBit \/ TestMode \/ UnmaskDevice \/ EnableEntry
  BY <1>3, Zenon DEF LoadedInv, Claim, Service, Redirect, ClearBit, TestMode, UnmaskDevice, EnableEntry
<1>4. CASE IoapicEoi
  BY <1>4, Zenon DEF LoadedInv, IoapicEoi
<1>5. CASE RaisePending \/ RaiseUnmasked
  BY <1>5, Zenon DEF LoadedInv, RaisePending, RaiseUnmasked
<1>6. CASE LoadEntry
  BY <1>6 DEF LoadedInv, LoadEntry
<1>7. CASE StoreMask \/ StoreFields \/ StoreOld
  BY <1>7, StoreEffect, Zenon DEF LoadedInv, StoreMask, StoreFields, StoreOld
<1>8. CASE Eoi
  BY <1>8, Zenon DEF LoadedInv, Eoi
<1>9. ASSUME NEW i \in Lines, WriteEntry(i) PROVE LoadedInv'
  BY <1>9, Zenon DEF LoadedInv, WriteEntry
<1>10. ASSUME NEW v \in Ipis, SendIpi(v) PROVE LoadedInv'
  BY <1>10, Zenon DEF LoadedInv, SendIpi
<1> QED
  BY <1>1, <1>2, <1>3, <1>4, <1>5, <1>6, <1>7, <1>8, <1>9, <1>10, Zenon DEF Next, InWedge

-----------------------------------------------------------------------------
(* The line of a vector. *)

LEMMA PinStep ==
    ASSUME TypeOK, StepsInv, LoadedInv, PinInv, [Next]_vars
    PROVE  PinInv'
<1> USE DEF lapicVars, ioapicVars, hwVars, guestVars, localVars
<1>0. \A i \in Lines : Vector[i] \in LineVectors /\ i # NoIrq
  BY LinesAssumption, Zenon DEF LineVectors
<1>1. ASSUME NEW S \in SUBSET Lines, NEW tick \in BOOLEAN, Round(S, tick) PROVE PinInv'
  <2>0. RoundChanges(S, tick)
    BY <1>1, RoundEffect, Zenon
  <2>1. \A i \in Lines : pin'[Vector[i]] = IF i \in S \ msk THEN i ELSE pin[Vector[i]]
    BY <2>0, Zenon DEF RoundChanges
  <2> SUFFICES ASSUME NEW i \in Lines, pin'[Vector[i]] # NoIrq PROVE Vector[pin'[Vector[i]]] = Vector[i]
    BY DEF LineVectors, PinInv
  <2> QED
    BY <1>0, <2>1, Zenon DEF PinInv
<1>2. CASE RaisePending \/ RaiseUnmasked
  <2>1. pin' = pin
    BY <1>2, RaisePendingEffect, RaiseUnmaskedEffect, Zenon DEF Reraised
  <2> QED
    BY <2>1, Zenon DEF PinInv
<1>3. CASE ~(\E S \in SUBSET Lines, tick \in BOOLEAN : Round(S, tick)) /\ ~RaisePending /\ ~RaiseUnmasked
  <2>1. pin' = pin
    BY <1>3, Zenon DEF Next, InWedge, Poll, Look, Claim, Service, Redirect, Resume, ClearBit, TestMode, IoapicEoi,
       UnmaskDevice, LoadEntry, StoreMask, StoreFields, EnableEntry, StoreOld, Eoi, Cli, Sti, Iret, Halt,
       WriteEntry, SendIpi, TimePasses, vars
  <2> QED
    BY <2>1, Zenon DEF PinInv
<1> QED
  BY <1>1, <1>2, <1>3, Zenon

-----------------------------------------------------------------------------
(* The ways of a level triggered interrupt. *)

LEMMA OnePlaceStep ==
    ASSUME TypeOK, NestedService, StepsInv, LoadedInv, PinInv, OnePlace, [Next]_vars
    PROVE  OnePlace'
<1> SUFFICES ASSUME NEW i \in Level \cap Hardware PROVE Place(i)'
  BY Zenon DEF OnePlace
<1>i. Place(i)
  BY Zenon DEF OnePlace
<1>l. i \in Lines /\ i \in Level /\ i \in Hardware /\ Vector[i] \in LineVectors
  BY LinesAssumption, Zenon DEF LineVectors
\* A step that leaves its interrupt where it is.
<1>f. ASSUME UNCHANGED <<irr, isr, hwirq_mask>>, pnd' \subseteq pnd, Ending(i)' => Ending(i),
             pc' = "service" /\ vec' = Vector[i] => pc = "service" /\ vec = Vector[i]
      PROVE  Place(i)'
  BY <1>f, <1>i, Zenon DEF Place, InFlight
<1>1. CASE \E S \in SUBSET Lines, tick \in BOOLEAN : Round(S, tick)
  <2>a. PICK S \in SUBSET Lines, tick \in BOOLEAN : Round(S, tick)
    BY <1>1, Zenon
  <2>0. RoundChanges(S, tick)
    BY <2>a, RoundEffect, Zenon
  <2>1. /\ S \cap Hardware \cap hwirq_mask = {} /\ pnd' = pnd \cup (S \cap Level \cap msk)
        /\ hwirq_mask' = (hwirq_mask \cup S) \ (S \ Level)
    BY <2>0, Zenon DEF RoundChanges
  <2>b. irr \subseteq Vectors
    BY Zenon DEF TypeOK
  <2>2. Vector[i] \in Raised(S, tick) <=> Vector[i] \in irr \/ i \in S \ msk
    BY <1>l, <2>b, RaisedLine, Zenon
  <2>3. CASE \E v \in Raised(S, tick) : Interrupts(v, Raised(S, tick))
    <3>1. PICK v \in Raised(S, tick) : Interrupts(v, Raised(S, tick))
      BY <2>3, Zenon
    <3>2. pc = "run" /\ pc' = "run" /\ irr' = Raised(S, tick) \ {v} /\ isr' = isr \cup {v}
      BY <3>1, Zenon DEF Interrupts
    <3>3. ~Ending(i) /\ ~Ending(i)'
      BY <3>2, Zenon DEF Ending
    <3> QED
      BY <1>i, <1>l, <2>1, <2>2, <3>2, <3>3, Zenon DEF Place, InFlight
  <2>4. CASE \E v \in Raised(S, tick) : Wakes(v, Raised(S, tick))
    <3>1. PICK v \in Raised(S, tick) : Wakes(v, Raised(S, tick))
      BY <2>4, Zenon
    <3>2. pc = "wait" /\ pc' = "redirect" /\ irr' = Raised(S, tick) \ {v} /\ isr' = isr \cup {v}
      BY <3>1, Zenon DEF Wakes
    <3>3. ~Ending(i) /\ ~Ending(i)'
      BY <3>2, Zenon DEF Ending
    <3> QED
      BY <1>i, <1>l, <2>1, <2>2, <3>2, <3>3, Zenon DEF Place, InFlight
  <2>5. CASE LeavesAlone(Raised(S, tick))
    <3>1. irr' = Raised(S, tick) /\ isr' = isr /\ pc' = pc /\ vec' = vec
      BY <2>5, Zenon DEF LeavesAlone
    <3>2. Ending(i)' = Ending(i)
      BY <3>1, Zenon DEF Ending
    <3> QED
      BY <1>i, <1>l, <2>1, <2>2, <3>1, <3>2, Zenon DEF Place, InFlight
  <2> QED
    BY <2>0, <2>3, <2>4, <2>5, Zenon DEF RoundChanges
<1> USE DEF lapicVars, ioapicVars, hwVars, guestVars, localVars
<1>2. CASE Poll \/ Look \/ Resume
  BY <1>f, <1>2, Zenon DEF Poll, Look, Resume, Ending
<1>3. CASE Cli \/ Sti \/ Iret \/ Halt \/ TimePasses \/ UNCHANGED vars
  BY <1>f, <1>3, Zenon DEF Cli, Sti, Iret, Halt, TimePasses, vars, Ending
<1>4. CASE Claim
  <2>1. pc = "claim" /\ pc' = "service" /\ vec \in irr /\ irr' = irr \ {vec} /\ UNCHANGED <<isr, pnd, hwirq_mask, vec>>
    BY <1>4, Zenon DEF Claim, StepsInv
  <2> QED
    BY <1>i, <2>1, Zenon DEF Place, InFlight, Ending
<1>5. CASE Service
  <2>1. pc = "service" /\ pc' = "redirect" /\ isr' = isr \cup {vec} /\ UNCHANGED <<irr, pnd, hwirq_mask, vec>>
    BY <1>5, Zenon DEF Service
  <2> QED
    BY <1>i, <2>1, Zenon DEF Place, InFlight, Ending
<1>6. CASE Redirect
  BY <1>f, <1>6, Zenon DEF Redirect, Ending
<1>7. CASE ClearBit \/ TestMode
  BY <1>f, <1>7, Zenon DEF ClearBit, TestMode, Ending
<1>8. CASE IoapicEoi
  BY <1>f, <1>8, Zenon DEF IoapicEoi, Ending
<1>9. CASE UnmaskDevice
  <2>1. /\ pc = "unmask" /\ pc' = "again" /\ hwirq_mask' = hwirq_mask \ {pin[vec]}
        /\ vec \in LineVectors /\ pin[vec] \in Lines /\ UNCHANGED <<irr, isr, pnd, vec>>
    BY <1>9, Zenon DEF UnmaskDevice, StepsInv
  <2>2. pin[vec] = i => vec = Vector[i]
    BY <2>1, PinOfVector, Zenon
  <2> QED
    BY <1>i, <2>1, <2>2, Zenon DEF Place, InFlight, Ending
\* An interrupt marked pending is raised again.
<1>r. ASSUME NEW j \in Lines, Reraised(j), pc \in {"again", "enabled"}, pc' = "run" PROVE Place(i)'
  <2>1. Vector[j] = Vector[i] => j = i
    BY <1>l, VectorsAssumption, Zenon
  <2> QED
    BY <1>i, <1>r, <2>1, Zenon DEF Reraised, Place, InFlight, Ending
<1>10. CASE RaisePending
  <2>1. Reraised(pin[vec]) /\ pin[vec] \in Lines
    BY <1>10, RaisePendingEffect, Zenon
  <2> QED
    BY <1>r, <1>10, <2>1, Zenon DEF RaisePending
<1>11. CASE RaiseUnmasked
  <2>1. Reraised(line) /\ line \in Lines
    BY <1>11, RaiseUnmaskedEffect, Zenon
  <2> QED
    BY <1>r, <1>11, <2>1, Zenon DEF RaiseUnmasked
<1>12. CASE LoadEntry \/ EnableEntry
  BY <1>f, <1>12, Zenon DEF LoadEntry, EnableEntry, Ending
<1>13. CASE StoreMask \/ StoreFields \/ StoreOld
  <2>1. pnd' \subseteq pnd
    BY <1>13, StoreEffect, Zenon DEF StoreMask, StoreFields, StoreOld
  <2> QED
    BY <1>f, <1>13, <2>1, Zenon DEF StoreMask, StoreFields, StoreOld, Ending
<1>14. CASE Eoi
  <2>1. Msb(isr) \in isr /\ isr # {}
    BY <1>14, EoiEndsCurrent, Zenon DEF Eoi
  <2>2. pc = "run" /\ pc' = "clear" /\ vec' = Msb(isr) /\ isr' = isr \ {Msb(isr)} /\ UNCHANGED <<irr, pnd, hwirq_mask>>
    BY <1>14, <2>1, Zenon DEF Eoi
  <2> QED
    BY <1>i, <2>1, <2>2, Zenon DEF Place, InFlight, Ending
<1>15. CASE \E j \in Lines : WriteEntry(j)
  BY <1>f, <1>15, Zenon DEF WriteEntry, Ending
<1>16. CASE \E v \in Ipis : SendIpi(v)
  <2>1. PICK v \in Ipis : SendIpi(v)
    BY <1>16, Zenon
  <2>2. v # Vector[i]
    BY <1>l, VectorsAssumption
  <2>3. irr' = irr \cup {v} /\ UNCHANGED <<isr, pnd, hwirq_mask, pc, vec>>
    BY <2>1, Zenon DEF SendIpi
  <2> QED
    BY <1>i, <2>2, <2>3, Zenon DEF Place, InFlight, Ending
<1> QED
  BY <1>1, <1>2, <1>3, <1>4, <1>5, <1>6, <1>7, <1>8, <1>9, <1>10, <1>11, <1>12, <1>13, <1>14, <1>15, <1>16, Zenon
  DEF Next, InWedge

LEMMA RememberedStep ==
    ASSUME TypeOK, NestedService, StepsInv, LoadedInv, PinInv, DeviceRemembered, ~SplitWrite, [Next]_vars
    PROVE  DeviceRemembered'
<1> USE DEF lapicVars, ioapicVars, hwVars, guestVars, localVars, Remembered, InFlight, Ending
<1> SUFFICES ASSUME NEW i \in hwirq_mask' PROVE Remembered(i)'
  BY Zenon DEF DeviceRemembered
<1>i. i \in hwirq_mask => Remembered(i)
  BY Zenon DEF DeviceRemembered
<1>1. CASE \E S \in SUBSET Lines, tick \in BOOLEAN : Round(S, tick)
  <2>a. PICK S \in SUBSET Lines, tick \in BOOLEAN : Round(S, tick)
    BY <1>1, Zenon
  <2>0. RoundChanges(S, tick)
    BY <2>a, RoundEffect, Zenon
  <2>1. /\ remote_irr' = remote_irr \cup ((S \cap Level) \ msk) /\ pnd' = pnd \cup (S \cap Level \cap msk)
        /\ tmr' = tmr \cup Sent(S \cap Level)
        /\ hwirq_mask' = (hwirq_mask \cup S) \ (S \ Level)
    BY <2>0, Zenon DEF RoundChanges
  <2>b. i \in Lines /\ i \in Level
    BY <2>1, LinesAssumption, Zenon DEF TypeOK
  <2>2. /\ Vector[i] \in Raised(S, tick) <=> Vector[i] \in irr \/ i \in S \ msk
        /\ Vector[i] \in Sent(S \cap Level) <=> i \in (S \cap Level) \ msk
    BY <2>b, RaisedLine, SentLine, Zenon DEF TypeOK
  <2>3. /\ Vector[i] \in Raised(S, tick) \cup isr => Vector[i] \in irr' \cup isr'
        /\ (pc' = pc /\ vec' = vec) \/ pc = "wait"
    <3>1. CASE \E v \in Raised(S, tick) : Interrupts(v, Raised(S, tick))
      BY <3>1, Zenon DEF Interrupts
    <3>2. CASE \E v \in Raised(S, tick) : Wakes(v, Raised(S, tick))
      BY <3>2, Zenon DEF Wakes
    <3>3. CASE LeavesAlone(Raised(S, tick))
      BY <3>3, Zenon DEF LeavesAlone
    <3> QED
      BY <2>0, <3>1, <3>2, <3>3, Zenon DEF RoundChanges
  <2> QED
    BY <1>i, <2>1, <2>b, <2>2, <2>3, Zenon
<1>2. CASE Poll \/ Resume \/ Cli \/ Sti \/ Iret \/ Halt \/ TimePasses \/ UNCHANGED vars \/ Look
  BY <1>i, <1>2, Zenon DEF Poll, Resume, Cli, Sti, Iret, Halt, TimePasses, vars, Look
<1>3. CASE Claim
  BY <1>i, <1>3, Zenon DEF Claim
<1>4. CASE Service
  BY <1>i, <1>4, Zenon DEF Service
<1>5. CASE Redirect
  BY <1>i, <1>5, Zenon DEF Redirect
<1>6. CASE ClearBit
  BY <1>i, <1>6, Zenon DEF ClearBit
<1>7. CASE TestMode
  BY <1>i, <1>7, Zenon DEF TestMode
<1>p. ASSUME pc \in {"ioapic", "unmask"}, vec = Vector[i], pin[vec] \in Lines, i \in hwirq_mask PROVE pin[vec] = i
  <2>1. vec \in LineVectors /\ i \in Lines
    BY <1>p, LinesAssumption, Zenon DEF StepsInv, TypeOK
  <2> QED
    BY <1>p, <2>1, PinOfVector, Zenon
<1>8. CASE IoapicEoi
  <2>1. pc = "ioapic" /\ hwirq_mask' = hwirq_mask /\ pin[vec] \in Lines \cup {NoIrq}
    BY <1>8, Zenon DEF IoapicEoi, StepsInv, TypeOK
  <2>2. pin[vec] \in Lines => (pin[vec] = i <=> vec = Vector[i])
    BY <1>p, <2>1, PinOfVector, Zenon DEF StepsInv
  <2>3. CASE pin[vec] \in remote_irr
    <3>1. pin[vec] \in Lines /\ pin[vec] # NoIrq
      BY <2>3, LinesAssumption, Zenon DEF TypeOK
    <3> QED
      BY <1>i, <1>8, <2>1, <2>2, <2>3, <3>1, Zenon DEF IoapicEoi
  <2>4. CASE pin[vec] \in Lines \ remote_irr
    BY <1>i, <1>8, <2>1, <2>2, <2>4, LinesAssumption, Zenon DEF IoapicEoi
  <2>5. CASE pin[vec] = NoIrq /\ pin[vec] \notin remote_irr
    BY <1>i, <1>8, <2>1, <2>5, LinesAssumption, Zenon DEF IoapicEoi
  <2> QED
    BY <2>1, <2>3, <2>4, <2>5, Zenon
<1>9. CASE UnmaskDevice
  <2>1. pc = "unmask" /\ pin[vec] \in Lines /\ hwirq_mask' = hwirq_mask \ {pin[vec]}
    BY <1>9, Zenon DEF UnmaskDevice, StepsInv
  <2> QED
    BY <1>i, <1>p, <1>9, <2>1, Zenon DEF UnmaskDevice
<1>10. CASE RaisePending
  <2>1. Reraised(pin[vec]) /\ pc = "again" /\ pc' = "run"
    BY <1>10, RaisePendingEffect, Zenon DEF RaisePending
  <2> QED
    BY <1>i, <2>1, Zenon DEF Reraised
<1>11. CASE RaiseUnmasked
  <2>1. Reraised(line) /\ pc = "enabled" /\ pc' = "run"
    BY <1>11, RaiseUnmaskedEffect, Zenon DEF RaiseUnmasked
  <2> QED
    BY <1>i, <2>1, Zenon DEF Reraised
<1>12. CASE LoadEntry \/ EnableEntry
  BY <1>i, <1>12, Zenon DEF LoadEntry, EnableEntry
<1>13. CASE StoreMask \/ StoreFields \/ StoreOld
  <2>1. pnd' = pnd /\ remote_irr' = remote_irr
    BY <1>13, StoreEffect, Zenon DEF StoreMask, StoreFields, StoreOld
  <2> QED
    BY <1>i, <1>13, <2>1, Zenon DEF StoreMask, StoreFields, StoreOld
<1>14. CASE Eoi
  <2>1. isr # {}
    BY <1>14, EoiEndsCurrent, Zenon DEF Eoi
  <2> QED
    BY <1>i, <1>14, <2>1, Zenon DEF Eoi
<1>15. CASE \E j \in Lines : WriteEntry(j)
  BY <1>i, <1>15, Zenon DEF WriteEntry
<1>16. CASE \E v \in Ipis : SendIpi(v)
  BY <1>i, <1>16, Zenon DEF SendIpi
<1> QED
  BY <1>1, <1>2, <1>3, <1>4, <1>5, <1>6, <1>7, <1>8, <1>9, <1>10, <1>11, <1>12, <1>13, <1>14, <1>15, <1>16, Zenon
  DEF Next, InWedge

-----------------------------------------------------------------------------
(* The theorems. *)

LEMMA ApicInvInit == Init => ApicInv
<1> SUFFICES ASSUME Init PROVE ApicInv
  OBVIOUS
<1>1. TypeOK
  <2>1. serving \in Seq(Vectors)
    BY DEF Init
  <2>2. pin \in [LineVectors -> Lines \cup {NoIrq}]
    BY Zenon DEF Init
  <2> QED
    BY <2>1, <2>2, Zenon DEF Init, TypeOK
<1>2. NestedService
  BY DEF Init, NestedService
<1>3. StepsInv /\ LoadedInv
  BY Zenon DEF Init, StepsInv, LoadedInv, WriteSteps, EoiSteps, EnableSteps
<1>4. PinInv
  BY Zenon DEF Init, PinInv
<1>5. OnePlace /\ DeviceRemembered
  BY Zenon DEF Init, OnePlace, Place, DeviceRemembered, InFlight, Ending
<1> QED
  BY <1>1, <1>2, <1>3, <1>4, <1>5, Zenon DEF ApicInv

LEMMA ApicInvStep == ApicInv /\ [Next]_vars => ApicInv'
<1> SUFFICES ASSUME ApicInv, [Next]_vars PROVE ApicInv'
  OBVIOUS
<1>1. TypeOK /\ NestedService /\ StepsInv /\ LoadedInv /\ PinInv /\ OnePlace
  BY Zenon DEF ApicInv
<1>2. TypeOK' /\ NestedService' /\ StepsInv' /\ LoadedInv' /\ PinInv' /\ OnePlace'
  BY <1>1, TypeStep, NestedStep, StepsStep, LoadedStep, PinStep, OnePlaceStep, Zenon
<1>3. ~SplitWrite => DeviceRemembered'
  BY <1>1, RememberedStep, Zenon DEF ApicInv
<1> QED
  BY <1>2, <1>3, Zenon DEF ApicInv

\* The inductive invariant of the virtual APICs holds for every set of lines and vectors.
THEOREM ApicAlways == Spec => []ApicInv
  BY ApicInvInit, ApicInvStep, PTL DEF Spec

\* The interrupts in service are the nested handlers', so an end of interrupt ends the
\* innermost handler's own.
THEOREM HandlersNest == Spec => []NestedService
<1>1. ApicInv => NestedService
  BY Zenon DEF ApicInv
<1> QED
  BY <1>1, ApicAlways, PTL

\* A level triggered device stays masked as long as its interrupt is requested or handled.
THEOREM DeviceHeldAlways == Spec => []DeviceHeld
<1>1. ApicInv => DeviceHeld
  BY Zenon DEF ApicInv, OnePlace, Place, DeviceHeld
<1> QED
  BY <1>1, ApicAlways, PTL

\* If no raise comes between load and store of a redirection entry (apic_split shows what
\* happens if one does), every device that waits to be unmasked has its interrupt on its way,
\* ending, or marked pending.
THEOREM NoDeviceForgotten == ASSUME ~SplitWrite PROVE Spec => []DeviceRemembered
<1>1. ApicInv => DeviceRemembered
  BY Zenon DEF ApicInv
<1> QED
  BY <1>1, ApicAlways, PTL
=============================================================================
