---------------------------- MODULE IrqPath_proof ----------------------------
(***************************************************************************)
(* Proofs about IrqPath, for every set of interrupt lines: no interrupt is *)
(* lost when the claim of a request is one instruction, and the path's     *)
(* assertions hold.                                                        *)
(***************************************************************************)
EXTENDS IrqPath, WellFoundedInduction, TLAPS

\* lsb() of a controller's word finds a line that is set: a set of lines that is not empty
\* has a least member.
LEMMA MinIsMember ==
    ASSUME NEW S \in SUBSET Irqs, S # {}
    PROVE  Min(S) \in S
<1> DEFINE less == OpToRel(<, Nat)
<1>1. S \subseteq Nat
  BY IrqsAssumption
<1>2. \E x \in S : \A y \in S : ~ (<<y, x>> \in less)
  <2> HIDE DEF less
  <2>1. IsWellFoundedOn(less, Nat)
    BY NatLessThanWellFounded, Zenon DEF less
  <2> QED
    BY <1>1, <2>1, WFMin, Zenon
<1>3. \E x \in S : \A y \in S : x <= y
  <2>1. PICK x \in S : \A y \in S : ~ (<<y, x>> \in less)
    BY <1>2, Zenon
  <2>2. \A y \in S : ~ (y < x)
    BY <1>1, <2>1, Zenon DEF OpToRel
  <2> QED
    BY <1>1, <2>2
<1> QED
  BY <1>3, Zenon DEF Min

\* cpu.irq_vectors has a bit for each of the two controllers.
LEMMA PicInPics == \A i \in Irqs : Pic(i) \in Pics
  BY IrqsAssumption DEF Pic, Pics

\* An end of interrupt ends no line that was not in service, and acknowledges no device
\* without clearing its bit of hwirq_mask.
LEMMA EoiEffect ==
    ASSUME NEW p \in Pics, Eoi(p), irq_in_service \subseteq Irqs, waiting = hwirq_mask \cap Devices
    PROVE  /\ irq_in_service' \subseteq irq_in_service
           /\ hwirq_mask' \subseteq hwirq_mask
           /\ waiting' = hwirq_mask' \cap Devices
<1>1. CASE InService(p) = {}
  BY <1>1, Zenon DEF Eoi
<1>2. CASE InService(p) # {}
  <2>1. PICK i, j : /\ irq_in_service' = irq_in_service \ {i}
                    /\ hwirq_mask' = hwirq_mask \ (hwirq_mask \cap ({j} \ Squashed))
                    /\ waiting' = waiting \ (hwirq_mask \cap ({j} \ Squashed))
    BY <1>2, Zenon DEF Eoi
  <2> QED
    BY <2>1, Zenon
<1> QED
  BY <1>1, <1>2, Zenon

\* Writing the mask register keeps the types.
LEMMA WriteMaskType ==
    ASSUME NEW mask \in SUBSET Irqs, WriteMask(mask), irq_request \subseteq Irqs, irq_vectors \subseteq Pics
    PROVE  irq_mask' \subseteq Irqs /\ irq_vectors' \subseteq Pics
  BY PicInPics, Zenon DEF WriteMask

\* The initial state satisfies the invariant.
LEMMA IrqInvInit == Init => IrqInv
  BY IrqsAssumption, NoIrqAssumption, Zenon DEF Init, IrqInv, HandlerInv, TypeOK,
     CodeAssertions, NoInterruptLost, Claimed, Devices, Pics

\* A step of the main thread preserves it.
LEMMA IrqInvMain ==
    ASSUME IrqInv,
           \/ InWedge \/ InHandler \/ Cli \/ Sti \/ Idle \/ IretToUser \/ UserMessage \/ TimePasses
    PROVE  IrqInv'
<1> USE IrqsAssumption, NoIrqAssumption, SMTT(20)
<1> DEFINE FlagTypes == fi \in BOOLEAN /\ dispatch_ipc \in BOOLEAN /\ ticked \in BOOLEAN
<1>a. TypeOK /\ CodeAssertions /\ HandlerInv /\ (~SplitClear => NoInterruptLost)
  BY Zenon DEF IrqInv
<1>1. CASE Poll
  <2> USE <1>1, <1>a DEF Poll, NoVector, picVars, hwVars, pollVars, guestVars
  <2>1. TypeOK'
    BY DEF TypeOK, Pics, Devices, HandlerInv
  <2>2. CodeAssertions'
    BY DEF TypeOK, CodeAssertions, HandlerInv
  <2>3. HandlerInv'
    BY DEF TypeOK, CodeAssertions, HandlerInv, Devices
  <2>4. ~SplitClear => NoInterruptLost'
    BY Zenon DEF TypeOK, HandlerInv, NoInterruptLost, Claimed, Devices
  <2> QED
    BY ONLY <2>1, <2>2, <2>3, <2>4, Zenon DEF IrqInv
<1>2. CASE LoadRequests
  <2> USE <1>2, <1>a DEF LoadRequests, NextPic, NoVector, picVars, hwVars, pollVars, guestVars
  <2>a. LET pending == (irq_request \cap Lines(pic)) \ irq_mask IN pending # {} => Min(pending) \in Irqs
    BY MinIsMember DEF TypeOK
  <2>1. TypeOK'
    <3>1. FlagTypes'
      BY ZenonT(20) DEF TypeOK
    <3>2. FlagTypes' => TypeOK'
      BY <2>a DEF TypeOK, Pics, Devices, HandlerInv
    <3> QED
      BY ONLY <3>1, <3>2
  <2>2. CodeAssertions'
    BY <2>a DEF TypeOK, CodeAssertions, HandlerInv
  <2>3. HandlerInv'
    BY <2>a DEF TypeOK, CodeAssertions, HandlerInv, Devices
  <2>4. ~SplitClear => NoInterruptLost'
    BY <2>a, Zenon DEF TypeOK, HandlerInv, NoInterruptLost, Claimed, Devices
  <2> QED
    BY ONLY <2>1, <2>2, <2>3, <2>4, Zenon DEF IrqInv
<1>3. CASE ClearNone
  <2> USE <1>3, <1>a DEF ClearNone, NextPic, NoVector, picVars, hwVars, pollVars, guestVars
  <2>1. TypeOK'
    BY DEF TypeOK, Pics, Devices, HandlerInv
  <2>2. CodeAssertions'
    BY DEF TypeOK, CodeAssertions, HandlerInv
  <2>3. HandlerInv'
    BY DEF TypeOK, CodeAssertions, HandlerInv, Devices
  <2>4. ~SplitClear => NoInterruptLost'
    BY Zenon DEF TypeOK, HandlerInv, NoInterruptLost, Claimed, Devices
  <2> QED
    BY ONLY <2>1, <2>2, <2>3, <2>4 DEF IrqInv
<1>4. CASE ClaimRequest
  <2> USE <1>4, <1>a DEF ClaimRequest, picVars, hwVars, pollVars, guestVars
  <2>a. irq_request' \subseteq Irqs /\ loaded' \subseteq Irqs
    <3>1. irq_request \subseteq Irqs /\ loaded \subseteq Irqs
      BY Zenon DEF TypeOK
    <3> HIDE <1>a
    <3> QED
      BY <3>1, ZenonT(20), Zenon
  <2>1. TypeOK'
    <3>1. FlagTypes'
      BY ZenonT(20) DEF TypeOK
    <3>2. FlagTypes' => TypeOK'
      BY <2>a, Zenon DEF TypeOK, Pics, Devices, HandlerInv
    <3> QED
      BY ONLY <3>1, <3>2, Zenon
  <2>2. CodeAssertions'
    BY <2>a, Zenon DEF TypeOK, CodeAssertions, HandlerInv
  <2>3. HandlerInv'
    BY <2>a, Zenon DEF TypeOK, CodeAssertions, HandlerInv, Devices
  <2>4. ~SplitClear => NoInterruptLost'
    BY <2>a, Zenon DEF TypeOK, HandlerInv, NoInterruptLost, Claimed, Devices
  <2> QED
    BY ONLY <2>1, <2>2, <2>3, <2>4 DEF IrqInv
<1>5. CASE StoreRequest
  <2> USE <1>5, <1>a DEF StoreRequest, picVars, hwVars, pollVars, guestVars
  <2>a. irq_request' \subseteq Irqs /\ loaded' \subseteq Irqs
    <3>1. irq_request \subseteq Irqs /\ loaded \subseteq Irqs
      BY Zenon DEF TypeOK
    <3> HIDE <1>a
    <3> QED
      BY <3>1, ZenonT(20), Zenon
  <2>1. TypeOK'
    <3>1. FlagTypes'
      BY ZenonT(20) DEF TypeOK
    <3>2. FlagTypes' => TypeOK'
      BY <2>a, Zenon DEF TypeOK, Pics, Devices, HandlerInv
    <3> QED
      BY ONLY <3>1, <3>2, Zenon
  <2>2. CodeAssertions'
    BY <2>a, Zenon DEF TypeOK, CodeAssertions, HandlerInv
  <2>3. HandlerInv'
    BY <2>a, Zenon DEF TypeOK, CodeAssertions, HandlerInv, Devices
  <2>4. ~SplitClear => NoInterruptLost'
    BY <2>a, Zenon DEF TypeOK, HandlerInv, NoInterruptLost, Claimed, Devices
  <2> QED
    BY ONLY <2>1, <2>2, <2>3, <2>4, Zenon DEF IrqInv
<1>6. CASE SetInService
  <2> USE <1>6, <1>a DEF SetInService, picVars, hwVars, pollVars, guestVars
  <2>1. TypeOK'
    BY DEF TypeOK, Pics, Devices, HandlerInv
  <2>2. CodeAssertions'
    BY Zenon DEF TypeOK, CodeAssertions, HandlerInv
  <2>3. HandlerInv'
    BY Zenon DEF TypeOK, CodeAssertions, HandlerInv, Devices
  <2>4. ~SplitClear => NoInterruptLost'
    BY Zenon DEF TypeOK, HandlerInv, NoInterruptLost, Claimed, Devices
  <2> QED
    BY ONLY <2>1, <2>2, <2>3, <2>4, Zenon DEF IrqInv
<1>7. CASE ClearLast
  <2> USE <1>7, <1>a DEF ClearLast, picVars, hwVars, pollVars, guestVars
  <2>1. TypeOK'
    BY DEF TypeOK, Pics, Devices, HandlerInv
  <2>2. CodeAssertions'
    BY Zenon DEF TypeOK, CodeAssertions, HandlerInv
  <2>3. HandlerInv'
    BY Zenon DEF TypeOK, CodeAssertions, HandlerInv, Devices
  <2>4. ~SplitClear => NoInterruptLost'
    BY Zenon DEF TypeOK, HandlerInv, NoInterruptLost, Claimed, Devices
  <2> QED
    BY ONLY <2>1, <2>2, <2>3, <2>4, Zenon DEF IrqInv
<1>8. CASE Redirect
  <2> USE <1>8, <1>a DEF Redirect, picVars, hwVars, pollVars, guestVars
  <2>1. TypeOK'
    <3>1. FlagTypes'
      BY ZenonT(20) DEF TypeOK
    <3>2. FlagTypes' => TypeOK'
      BY Zenon DEF TypeOK, Pics, Devices, HandlerInv
    <3> QED
      BY ONLY <3>1, <3>2, Zenon
  <2>2. CodeAssertions'
    BY Zenon DEF TypeOK, CodeAssertions, HandlerInv
  <2>3. HandlerInv'
    BY Zenon DEF TypeOK, CodeAssertions, HandlerInv, Devices
  <2>4. ~SplitClear => NoInterruptLost'
    BY Zenon DEF TypeOK, HandlerInv, NoInterruptLost, Claimed, Devices
  <2> QED
    BY ONLY <2>1, <2>2, <2>3, <2>4, Zenon DEF IrqInv
<1>9. CASE Resume
  <2> USE <1>9, <1>a DEF Resume, picVars, hwVars, pollVars, guestVars
  <2>1. TypeOK'
    <3>1. FlagTypes'
      BY ZenonT(20) DEF TypeOK
    <3>2. FlagTypes' => TypeOK'
      BY Zenon DEF TypeOK, Pics, Devices, HandlerInv
    <3> QED
      BY ONLY <3>1, <3>2, Zenon
  <2>2. CodeAssertions'
    BY Zenon DEF TypeOK, CodeAssertions, HandlerInv
  <2>3. HandlerInv'
    BY Zenon DEF TypeOK, CodeAssertions, HandlerInv, Devices
  <2>4. ~SplitClear => NoInterruptLost'
    BY Zenon DEF TypeOK, HandlerInv, NoInterruptLost, Claimed, Devices
  <2> QED
    BY ONLY <2>1, <2>2, <2>3, <2>4, Zenon DEF IrqInv
<1>10. CASE EnterWait
  <2> USE <1>10, <1>a DEF EnterWait, picVars, hwVars, pollVars, guestVars
  <2>1. TypeOK'
    BY Zenon DEF TypeOK, Pics, Devices, HandlerInv
  <2>2. CodeAssertions'
    BY Zenon DEF TypeOK, CodeAssertions, HandlerInv
  <2>3. HandlerInv'
    BY Zenon DEF TypeOK, CodeAssertions, HandlerInv, Devices
  <2>4. ~SplitClear => NoInterruptLost'
    BY Zenon DEF TypeOK, HandlerInv, NoInterruptLost, Claimed, Devices
  <2> QED
    BY ONLY <2>1, <2>2, <2>3, <2>4, Zenon DEF IrqInv
<1>27. CASE EnterDispatch
  <2> USE <1>27, <1>a DEF EnterDispatch, picVars, hwVars, pollVars, guestVars
  <2>1. TypeOK'
    BY Zenon DEF TypeOK, Pics, Devices, HandlerInv
  <2>2. CodeAssertions'
    BY Zenon DEF TypeOK, CodeAssertions, HandlerInv
  <2>3. HandlerInv'
    BY Zenon DEF TypeOK, CodeAssertions, HandlerInv, Devices
  <2>4. ~SplitClear => NoInterruptLost'
    BY Zenon DEF TypeOK, HandlerInv, NoInterruptLost, Claimed, Devices
  <2> QED
    BY ONLY <2>1, <2>2, <2>3, <2>4, Zenon DEF IrqInv
<1>28. CASE EnableInterrupts
  <2> USE <1>28, <1>a DEF EnableInterrupts, picVars, hwVars, pollVars, guestVars
  <2>1. TypeOK'
    BY Zenon DEF TypeOK, Pics, Devices, HandlerInv
  <2>2. CodeAssertions'
    BY Zenon DEF TypeOK, CodeAssertions, HandlerInv
  <2>3. HandlerInv'
    BY Zenon DEF TypeOK, CodeAssertions, HandlerInv, Devices
  <2>4. ~SplitClear => NoInterruptLost'
    BY Zenon DEF TypeOK, HandlerInv, NoInterruptLost, Claimed, Devices
  <2> QED
    BY ONLY <2>1, <2>2, <2>3, <2>4, Zenon DEF IrqInv
<1>11. CASE LeaveWait
  <2> USE <1>11, <1>a DEF LeaveWait, picVars, hwVars, pollVars, guestVars
  <2>1. TypeOK'
    <3>1. FlagTypes'
      BY ZenonT(20) DEF TypeOK
    <3>2. FlagTypes' => TypeOK'
      BY Zenon DEF TypeOK, Pics, Devices, HandlerInv
    <3> QED
      BY ONLY <3>1, <3>2, Zenon
  <2>2. CodeAssertions'
    BY Zenon DEF TypeOK, CodeAssertions, HandlerInv
  <2>3. HandlerInv'
    BY Zenon DEF TypeOK, CodeAssertions, HandlerInv, Devices
  <2>4. ~SplitClear => NoInterruptLost'
    BY Zenon DEF TypeOK, HandlerInv, NoInterruptLost, Claimed, Devices
  <2> QED
    BY ONLY <2>1, <2>2, <2>3, <2>4 DEF IrqInv
<1>12. CASE ReceiveVector
  <2> USE <1>12, <1>a DEF ReceiveVector, picVars, hwVars, pollVars, guestVars
  <2>1. TypeOK'
    <3>1. FlagTypes'
      BY ZenonT(20) DEF TypeOK
    <3>2. FlagTypes' => TypeOK'
      BY Zenon DEF TypeOK, Pics, Devices, HandlerInv
    <3> QED
      BY ONLY <3>1, <3>2, Zenon
  <2>2. CodeAssertions'
    BY Zenon DEF TypeOK, CodeAssertions, HandlerInv
  <2>3. HandlerInv'
    BY Zenon DEF TypeOK, CodeAssertions, HandlerInv, Devices
  <2>4. ~SplitClear => NoInterruptLost'
    BY Zenon DEF TypeOK, HandlerInv, NoInterruptLost, Claimed, Devices
  <2> QED
    BY ONLY <2>1, <2>2, <2>3, <2>4, Zenon DEF IrqInv
<1>13. CASE StiTest
  <2> USE <1>13, <1>a DEF StiTest, picVars, hwVars, pollVars, guestVars
  <2>1. TypeOK'
    BY DEF TypeOK, Pics, Devices, HandlerInv
  <2>2. CodeAssertions'
    BY Zenon DEF TypeOK, CodeAssertions, HandlerInv
  <2>3. HandlerInv'
    BY Zenon DEF TypeOK, CodeAssertions, HandlerInv, Devices
  <2>4. ~SplitClear => NoInterruptLost'
    BY Zenon DEF TypeOK, HandlerInv, NoInterruptLost, Claimed, Devices
  <2> QED
    BY ONLY <2>1, <2>2, <2>3, <2>4, Zenon DEF IrqInv
<1>14. CASE Ack
  <2> USE <1>14, <1>a DEF Ack, picVars, hwVars, pollVars, guestVars
  <2>a. irq_mask' \subseteq Irqs /\ irq_vectors' \subseteq Pics
    <3>1. irq_mask \cup {handling} \in SUBSET Irqs
      BY Zenon DEF TypeOK, HandlerInv
    <3> QED
      BY <3>1, WriteMaskType, Zenon DEF TypeOK
  <2>1. TypeOK'
    <3>1. FlagTypes'
      BY ZenonT(20) DEF TypeOK
    <3>2. FlagTypes' => TypeOK'
      BY <2>a, Zenon DEF TypeOK, Pics, Devices, HandlerInv
    <3> QED
      BY ONLY <3>1, <3>2, Zenon
  <2>2. CodeAssertions'
    BY <2>a, Zenon DEF TypeOK, CodeAssertions, HandlerInv
  <2>3. HandlerInv'
    BY <2>a, Zenon DEF TypeOK, CodeAssertions, HandlerInv, Devices
  <2>4. ~SplitClear => NoInterruptLost'
    BY <2>a, Zenon DEF TypeOK, HandlerInv, NoInterruptLost, Claimed, Devices
  <2> QED
    BY ONLY <2>1, <2>2, <2>3, <2>4, Zenon DEF IrqInv
<1>15. CASE EndOfInterrupt
  <2> USE <1>15, <1>a DEF EndOfInterrupt, picVars, hwVars, pollVars, guestVars
  <2>a. /\ irq_in_service' \subseteq irq_in_service /\ hwirq_mask' \subseteq hwirq_mask
        /\ waiting' = hwirq_mask' \cap Devices /\ waiting' \subseteq waiting
    <3>1. Pic(handling) \in Pics
      BY PicInPics, Zenon DEF TypeOK, HandlerInv, Pics
    <3> QED
      BY <3>1, EoiEffect, Zenon DEF TypeOK, HandlerInv
  <2>1. TypeOK'
    <3>1. FlagTypes'
      BY ZenonT(20) DEF TypeOK
    <3>2. FlagTypes' => TypeOK'
      BY <2>a, Zenon DEF TypeOK, Pics, Devices, HandlerInv
    <3> QED
      BY ONLY <3>1, <3>2, Zenon
  <2>2. CodeAssertions'
    BY <2>a, Zenon DEF TypeOK, CodeAssertions, HandlerInv
  <2>3. HandlerInv'
    BY <2>a, Zenon DEF TypeOK, CodeAssertions, HandlerInv, Devices
  <2>4. ~SplitClear => NoInterruptLost'
    BY <2>a, Zenon DEF TypeOK, HandlerInv, NoInterruptLost, Claimed, Devices
  <2> QED
    BY ONLY <2>1, <2>2, <2>3, <2>4, Zenon DEF IrqInv
<1>16. CASE EndOfCascade
  <2> USE <1>16, <1>a DEF EndOfCascade, picVars, hwVars, pollVars, guestVars
  <2>a. /\ irq_in_service' \subseteq irq_in_service /\ hwirq_mask' \subseteq hwirq_mask
        /\ waiting' = hwirq_mask' \cap Devices /\ waiting' \subseteq waiting
    <3>1. 0 \in Pics
      BY PicInPics, Zenon DEF TypeOK, HandlerInv, Pics
    <3> QED
      BY <3>1, EoiEffect, Zenon DEF TypeOK, HandlerInv
  <2>1. TypeOK'
    <3>1. FlagTypes'
      BY ZenonT(20) DEF TypeOK
    <3>2. FlagTypes' => TypeOK'
      BY <2>a, Zenon DEF TypeOK, Pics, Devices, HandlerInv
    <3> QED
      BY ONLY <3>1, <3>2, Zenon
  <2>2. CodeAssertions'
    BY <2>a, Zenon DEF TypeOK, CodeAssertions, HandlerInv
  <2>3. HandlerInv'
    BY <2>a, Zenon DEF TypeOK, CodeAssertions, HandlerInv, Devices
  <2>4. ~SplitClear => NoInterruptLost'
    BY <2>a, Zenon DEF TypeOK, HandlerInv, NoInterruptLost, Claimed, Devices
  <2> QED
    BY ONLY <2>1, <2>2, <2>3, <2>4, Zenon DEF IrqInv
<1>17. CASE Unmask
  <2> USE <1>17, <1>a DEF Unmask, picVars, hwVars, pollVars, guestVars
  <2>a. irq_mask' \subseteq Irqs /\ irq_vectors' \subseteq Pics
    <3>1. irq_mask \ {handling} \in SUBSET Irqs
      BY Zenon DEF TypeOK, HandlerInv
    <3> QED
      BY <3>1, WriteMaskType, Zenon DEF TypeOK
  <2>1. TypeOK'
    <3>1. FlagTypes'
      BY ZenonT(20) DEF TypeOK
    <3>2. FlagTypes' => TypeOK'
      BY <2>a, Zenon DEF TypeOK, Pics, Devices, HandlerInv
    <3> QED
      BY ONLY <3>1, <3>2, Zenon
  <2>2. CodeAssertions'
    BY <2>a, Zenon DEF TypeOK, CodeAssertions, HandlerInv
  <2>3. HandlerInv'
    BY <2>a, Zenon DEF TypeOK, CodeAssertions, HandlerInv, Devices
  <2>4. ~SplitClear => NoInterruptLost'
    BY <2>a, Zenon DEF TypeOK, HandlerInv, NoInterruptLost, Claimed, Devices
  <2> QED
    BY ONLY <2>1, <2>2, <2>3, <2>4, Zenon DEF IrqInv
<1>18. CASE EnableDevice
  <2> USE <1>18, <1>a DEF EnableDevice, picVars, hwVars, pollVars, guestVars
  <2>1. TypeOK'
    BY DEF TypeOK, Pics, Devices, HandlerInv
  <2>2. CodeAssertions'
    BY Zenon DEF TypeOK, CodeAssertions, HandlerInv
  <2>3. HandlerInv'
    BY Zenon DEF TypeOK, CodeAssertions, HandlerInv, Devices
  <2>4. ~SplitClear => NoInterruptLost'
    BY Zenon DEF TypeOK, HandlerInv, NoInterruptLost, Claimed, Devices
  <2> QED
    BY ONLY <2>1, <2>2, <2>3, <2>4, Zenon DEF IrqInv
<1>19. CASE UnmaskDevice
  <2> USE <1>19, <1>a DEF UnmaskDevice, picVars, hwVars, pollVars, guestVars
  <2>1. TypeOK'
    BY DEF TypeOK, Pics, Devices, HandlerInv
  <2>2. CodeAssertions'
    BY Zenon DEF TypeOK, CodeAssertions, HandlerInv
  <2>3. HandlerInv'
    BY DEF TypeOK, CodeAssertions, HandlerInv, Devices
  <2>4. ~SplitClear => NoInterruptLost'
    BY Zenon DEF TypeOK, HandlerInv, NoInterruptLost, Claimed, Devices
  <2> QED
    BY ONLY <2>1, <2>2, <2>3, <2>4, Zenon DEF IrqInv
<1>20. CASE Iret
  <2> USE <1>20, <1>a DEF Iret, picVars, hwVars, pollVars, guestVars
  <2>1. TypeOK'
    BY Zenon DEF TypeOK, Pics, Devices, HandlerInv
  <2>2. CodeAssertions'
    BY Zenon DEF TypeOK, CodeAssertions, HandlerInv
  <2>3. HandlerInv'
    BY Zenon DEF TypeOK, CodeAssertions, HandlerInv, Devices
  <2>4. ~SplitClear => NoInterruptLost'
    BY Zenon DEF TypeOK, HandlerInv, NoInterruptLost, Claimed, Devices
  <2> QED
    BY ONLY <2>1, <2>2, <2>3, <2>4, Zenon DEF IrqInv
<1>21. CASE Cli
  <2> USE <1>21, <1>a DEF Cli, picVars, hwVars, pollVars, guestVars
  <2>1. TypeOK'
    <3>1. FlagTypes'
      BY ZenonT(20) DEF TypeOK
    <3>2. FlagTypes' => TypeOK'
      BY Zenon DEF TypeOK, Pics, Devices, HandlerInv
    <3> QED
      BY ONLY <3>1, <3>2, Zenon
  <2>2. CodeAssertions'
    BY Zenon DEF TypeOK, CodeAssertions, HandlerInv
  <2>3. HandlerInv'
    BY Zenon DEF TypeOK, CodeAssertions, HandlerInv, Devices
  <2>4. ~SplitClear => NoInterruptLost'
    BY Zenon DEF TypeOK, HandlerInv, NoInterruptLost, Claimed, Devices
  <2> QED
    BY ONLY <2>1, <2>2, <2>3, <2>4, Zenon DEF IrqInv
<1>22. CASE Sti
  <2> USE <1>22, <1>a DEF Sti, picVars, hwVars, pollVars, guestVars
  <2>1. TypeOK'
    BY DEF TypeOK, Pics, Devices, HandlerInv
  <2>2. CodeAssertions'
    BY Zenon DEF TypeOK, CodeAssertions, HandlerInv
  <2>3. HandlerInv'
    BY Zenon DEF TypeOK, CodeAssertions, HandlerInv, Devices
  <2>4. ~SplitClear => NoInterruptLost'
    BY Zenon DEF TypeOK, HandlerInv, NoInterruptLost, Claimed, Devices
  <2> QED
    BY ONLY <2>1, <2>2, <2>3, <2>4 DEF IrqInv
<1>23. CASE Idle
  <2> USE <1>23, <1>a DEF Idle, picVars, hwVars, pollVars, guestVars
  <2>1. TypeOK'
    BY Zenon DEF TypeOK, Pics, Devices, HandlerInv
  <2>2. CodeAssertions'
    BY Zenon DEF TypeOK, CodeAssertions, HandlerInv
  <2>3. HandlerInv'
    BY Zenon DEF TypeOK, CodeAssertions, HandlerInv, Devices
  <2>4. ~SplitClear => NoInterruptLost'
    BY Zenon DEF TypeOK, HandlerInv, NoInterruptLost, Claimed, Devices
  <2> QED
    BY ONLY <2>1, <2>2, <2>3, <2>4, Zenon DEF IrqInv
<1>24. CASE IretToUser
  <2> USE <1>24, <1>a DEF IretToUser, picVars, hwVars, pollVars, guestVars
  <2>1. TypeOK'
    BY Zenon DEF TypeOK, Pics, Devices, HandlerInv
  <2>2. CodeAssertions'
    BY Zenon DEF TypeOK, CodeAssertions, HandlerInv
  <2>3. HandlerInv'
    BY Zenon DEF TypeOK, CodeAssertions, HandlerInv, Devices
  <2>4. ~SplitClear => NoInterruptLost'
    BY Zenon DEF TypeOK, HandlerInv, NoInterruptLost, Claimed, Devices
  <2> QED
    BY ONLY <2>1, <2>2, <2>3, <2>4, Zenon DEF IrqInv
<1>25. CASE UserMessage
  <2> USE <1>25, <1>a DEF UserMessage, picVars, hwVars, pollVars, guestVars
  <2>1. TypeOK'
    BY DEF TypeOK, Pics, Devices, HandlerInv
  <2>2. CodeAssertions'
    BY Zenon DEF TypeOK, CodeAssertions, HandlerInv
  <2>3. HandlerInv'
    BY Zenon DEF TypeOK, CodeAssertions, HandlerInv, Devices
  <2>4. ~SplitClear => NoInterruptLost'
    BY Zenon DEF TypeOK, HandlerInv, NoInterruptLost, Claimed, Devices
  <2> QED
    BY ONLY <2>1, <2>2, <2>3, <2>4, Zenon DEF IrqInv
<1>26. CASE TimePasses
  <2> USE <1>26, <1>a DEF TimePasses, picVars, hwVars, pollVars, guestVars
  <2>1. TypeOK'
    <3>1. FlagTypes'
      BY ZenonT(20) DEF TypeOK
    <3>2. FlagTypes' => TypeOK'
      BY Zenon DEF TypeOK, Pics, Devices, HandlerInv
    <3> QED
      BY ONLY <3>1, <3>2, Zenon
  <2>2. CodeAssertions'
    BY Zenon DEF TypeOK, CodeAssertions, HandlerInv
  <2>3. HandlerInv'
    BY Zenon DEF TypeOK, CodeAssertions, HandlerInv, Devices
  <2>4. ~SplitClear => NoInterruptLost'
    BY Zenon DEF TypeOK, HandlerInv, NoInterruptLost, Claimed, Devices
  <2> QED
    BY ONLY <2>1, <2>2, <2>3, <2>4, Zenon DEF IrqInv
<1> QED
  BY ONLY IrqInv, <1>1, <1>2, <1>3, <1>4, <1>5, <1>6, <1>7, <1>8, <1>9, <1>10, <1>11, <1>12,
     <1>13, <1>14, <1>15, <1>16, <1>17, <1>18, <1>19, <1>20, <1>21, <1>22, <1>23, <1>24, <1>25,
     <1>26, <1>27, <1>28,
     InWedge \/ InHandler \/ Cli \/ Sti \/ Idle \/ IretToUser \/ UserMessage \/ TimePasses,
     Zenon DEF InWedge, InHandler

\* The guest's writes of the mask register preserve it.
LEMMA IrqInvMask ==
    ASSUME IrqInv, NEW i \in Irqs, EnableLine(i) \/ DisableLine(i)
    PROVE  IrqInv'
<1> USE IrqsAssumption, NoIrqAssumption, SMTT(20)
<1>a. TypeOK /\ CodeAssertions /\ HandlerInv /\ (~SplitClear => NoInterruptLost)
  BY Zenon DEF IrqInv
<1>b. irq_mask' \subseteq Irqs /\ irq_vectors' \subseteq Pics
  <2>1. irq_mask \ {i} \in SUBSET Irqs /\ irq_mask \cup {i} \in SUBSET Irqs
    BY <1>a, Zenon DEF TypeOK
  <2> QED
    BY <1>a, <2>1, WriteMaskType, Zenon DEF TypeOK, EnableLine, DisableLine
<1>1. CASE EnableLine(i)
  <2> USE <1>1, <1>a, <1>b DEF EnableLine, hwVars, guestVars
  <2>1. TypeOK'
    BY Zenon DEF TypeOK
  <2>2. CodeAssertions'
    BY Zenon DEF TypeOK, CodeAssertions
  <2>3. HandlerInv'
    BY Zenon DEF TypeOK, HandlerInv
  <2>4. ~SplitClear => NoInterruptLost'
    BY Zenon DEF TypeOK, NoInterruptLost, Claimed
  <2> QED
    BY ONLY <2>1, <2>2, <2>3, <2>4, Zenon DEF IrqInv
<1>2. CASE DisableLine(i)
  <2> USE <1>2, <1>a, <1>b DEF DisableLine, hwVars, pollVars, guestVars
  <2>1. TypeOK'
    BY DEF TypeOK
  <2>2. CodeAssertions'
    BY Zenon DEF TypeOK, CodeAssertions
  <2>3. HandlerInv'
    BY Zenon DEF TypeOK, HandlerInv
  <2>4. ~SplitClear => NoInterruptLost'
    BY Zenon DEF TypeOK, NoInterruptLost, Claimed
  <2> QED
    BY ONLY <2>1, <2>2, <2>3, <2>4, Zenon DEF IrqInv
<1> QED
  BY <1>1, <1>2, Zenon

\* What a round of the IRQ thread does: the requests stay and the main thread is left alone,
\* or a line is taken out of them for a main thread that can take it.
LEMMA DeliverEffect ==
    ASSUME NEW r \in SUBSET Irqs, NEW v \in SUBSET Pics, Deliver(r, v),
           irq_in_service \subseteq Irqs
    PROVE  /\ irq_in_service' \subseteq Irqs /\ irq_vectors' \subseteq Pics
           /\ \/ irq_request' = r /\ UNCHANGED <<pc, irq, guestVars>>
              \/ \E q \in r : irq_request' = r \ {q} /\ fi /\ Reachable /\ TakeVector(q)
<1> DEFINE pending == r \ irq_mask
           q == Min(pending)
<1>1. pending # {} => q \in r
  BY MinIsMember, Zenon
<1>2. \A x : SetVectors(v \ x, {q}) \subseteq v \cup {Pic(i) : i \in {q}}
  BY Zenon DEF SetVectors
<1> HIDE DEF q
<1>3. CASE ~fi \/ v = {}
  BY <1>1, <1>3, Zenon DEF Deliver, q
<1>4. CASE fi /\ v # {} /\ pending = {}
  BY <1>4, Zenon DEF Deliver
<1>5. CASE fi /\ v # {} /\ pending # {} /\ Reachable
  BY <1>1, <1>5, Zenon DEF Deliver, q
<1>6. CASE fi /\ v # {} /\ pending # {} /\ ~Reachable
  <2>1. /\ irq_request' = r /\ irq_in_service' = irq_in_service \cup {q}
        /\ irq_vectors' = SetVectors(v \ Exhausted(r, q), {q})
        /\ UNCHANGED <<pc, irq, guestVars>>
    BY <1>6, Zenon DEF Deliver, q
  <2>2. Pic(q) \in Pics
    BY <1>1, <1>6, PicInPics, Zenon
  <2> QED
    BY <1>1, <1>2, <1>6, <2>1, <2>2, Zenon
<1> QED
  BY <1>3, <1>4, <1>5, <1>6, Zenon

\* A round of the IRQ thread preserves it.
LEMMA IrqInvRound ==
    ASSUME IrqInv, NEW S \in SUBSET Irqs, Round(S)
    PROVE  IrqInv'
<1> USE IrqsAssumption, NoIrqAssumption, SMTT(20)
<1> DEFINE FlagTypes == fi \in BOOLEAN /\ dispatch_ipc \in BOOLEAN /\ ticked \in BOOLEAN
           r == irq_request \cup S
           v == SetVectors(irq_vectors, S)
<1>a. TypeOK /\ CodeAssertions /\ HandlerInv /\ (~SplitClear => NoInterruptLost)
  BY Zenon DEF IrqInv
<1>b. r \in SUBSET Irqs /\ v \in SUBSET Pics
  BY <1>a, PicInPics DEF TypeOK, SetVectors
<1>c. /\ pc = "store" => SplitClear
      /\ ticked' = (ticked \/ Timer \in S)
      /\ hwirq_mask' = hwirq_mask \cup S
      /\ waiting' = waiting \cup (S \ {Timer})
      /\ S \subseteq {Timer} \cup (hwirq_latch \ waiting)
      /\ UNCHANGED <<irq_mask, hwirq_latch, poll, pic, loaded>>
  BY Zenon DEF Round
<1>d. /\ irq_in_service' \subseteq Irqs /\ irq_vectors' \subseteq Pics
      /\ \/ irq_request' = r /\ UNCHANGED <<pc, irq, guestVars>>
         \/ \E q \in r : irq_request' = r \ {q} /\ fi /\ Reachable /\ TakeVector(q)
  <2> HIDE DEF r, v
  <2>1. Deliver(r, v)
    BY Zenon DEF Round, r, v
  <2> QED
    BY <1>a, <1>b, <2>1, DeliverEffect, Zenon DEF TypeOK
<1>e. S \ {Timer} \subseteq Devices /\ Timer \notin Devices
  BY <1>a, <1>c, Zenon DEF TypeOK, Devices
<1>f. waiting' = hwirq_mask' \cap Devices /\ waiting' \subseteq Devices /\ hwirq_mask' \subseteq Irqs
  <2>1. waiting = hwirq_mask \cap Devices /\ hwirq_mask \subseteq Irqs
    BY <1>a, Zenon DEF TypeOK, HandlerInv
  <2>2. waiting' = hwirq_mask' \cap Devices
    <3> SUFFICES ASSUME NEW i PROVE i \in waiting' <=> i \in hwirq_mask' /\ i \in Devices
      OBVIOUS
    <3>1. CASE i = Timer
      BY ONLY <1>c, <1>e, <2>1, <3>1, Zenon
    <3>2. CASE i # Timer
      BY ONLY <1>c, <1>e, <2>1, <3>2, Zenon
    <3> QED
      BY <3>1, <3>2, Zenon
  <2> QED
    BY ONLY <1>c, <2>1, <2>2, S \in SUBSET Irqs, Zenon
<1>1. CASE irq_request' = r /\ UNCHANGED <<pc, irq, guestVars>>
  <2> USE <1>1, <1>a, <1>b, <1>c, <1>d, <1>f DEF guestVars
  <2>1. TypeOK'
    <3>1. FlagTypes'
      BY ZenonT(20) DEF TypeOK
    <3>2. FlagTypes' => TypeOK'
      BY Zenon DEF TypeOK
    <3> QED
      BY ONLY <3>1, <3>2, Zenon
  <2>2. CodeAssertions'
    BY Zenon DEF CodeAssertions
  <2>3. HandlerInv'
    BY DEF HandlerInv
  <2>4. ~SplitClear => NoInterruptLost'
    BY Zenon DEF NoInterruptLost, Claimed
  <2> QED
    BY ONLY <2>1, <2>2, <2>3, <2>4, Zenon DEF IrqInv
<1>2. ASSUME NEW q \in r, irq_request' = r \ {q}, fi, Reachable, TakeVector(q)
      PROVE  IrqInv'
  <2> USE <1>2, <1>a, <1>b, <1>c, <1>d, <1>f DEF guestVars, TakeVector, Reachable
  <2>0. q \in Irqs /\ q # NoIrq
    BY Zenon DEF TypeOK
  <2> USE <2>0
  <2>1. FlagTypes'
    BY ZenonT(20) DEF TypeOK
  <2>d. CASE dispatch_ipc
    <3>1. pc = "wait" /\ pc' = "received" /\ irq' = q /\ UNCHANGED <<fi, dispatch_ipc, handling, back>>
      BY <2>d, Zenon
    <3> HIDE DEF TakeVector, Reachable
    <3>5. TypeOK'
      BY <2>1, <3>1, Zenon DEF TypeOK
    <3>2. CodeAssertions'
      BY <2>d, <3>1, Zenon DEF CodeAssertions
    <3>3. HandlerInv'
      BY <2>d, <3>1, Zenon DEF CodeAssertions, HandlerInv
    <3>4. ~SplitClear => NoInterruptLost'
      BY <3>1, Zenon DEF NoInterruptLost, Claimed
    <3> QED
      BY ONLY <3>2, <3>3, <3>4, <3>5, Zenon DEF IrqInv
  <2>r. CASE ~dispatch_ipc
    <3>1. /\ pc \in {"run", "sti"} /\ pc' = "ack" /\ handling' = q /\ fi' = FALSE
          /\ back' = pc /\ UNCHANGED <<irq, dispatch_ipc>>
      BY <2>r, Zenon
    <3> HIDE DEF TakeVector, Reachable
    <3>5. TypeOK'
      BY <2>1, <3>1, Zenon DEF TypeOK
    <3>2. CodeAssertions'
      BY <2>r, <3>1, Zenon DEF CodeAssertions
    <3>3. HandlerInv'
      BY <2>r, <3>1, Zenon DEF HandlerInv
    <3>4. ~SplitClear => NoInterruptLost'
      BY <3>1 DEF NoInterruptLost, Claimed, HandlerInv
    <3> QED
      BY ONLY <3>2, <3>3, <3>4, <3>5, Zenon DEF IrqInv
  <2> QED
    BY ONLY <2>d, <2>r, Zenon
<1> QED
  BY <1>d, <1>1, <1>2, Zenon

\* The invariant holds of every reachable state, whichever way the claim is compiled.
THEOREM IrqInvariant == Spec => []IrqInv
<1>1. IrqInv /\ [Next]_vars => IrqInv'
  <2> SUFFICES ASSUME IrqInv, [Next]_vars PROVE IrqInv'
    OBVIOUS
  <2>1. CASE UNCHANGED vars
    BY <2>1 DEF vars, picVars, hwVars, pollVars, guestVars, IrqInv, HandlerInv, TypeOK,
                CodeAssertions, NoInterruptLost, Claimed
  <2>2. CASE Next
    <3> QED
      BY ONLY <2>2, IrqInv, IrqInvMain, IrqInvMask, IrqInvRound, Zenon DEF Next, Devices
  <2> QED
    BY <2>1, <2>2, Zenon
<1> QED
  BY <1>1, IrqInvInit, PTL DEF Spec

\* When the claim of a request is one instruction, no interrupt is lost between a device
\* and its handler, whatever interleaves with pending_vector, a cancelled delivery or a
\* send that times out.
THEOREM InterruptsKept == ~SplitClear => (Spec => []NoInterruptLost)
<1>1. ASSUME ~SplitClear PROVE IrqInv => NoInterruptLost
  BY <1>1, Zenon DEF IrqInv
<1>2. ASSUME ~SplitClear PROVE Spec => []NoInterruptLost
  <2>1. IrqInv => NoInterruptLost
    BY <1>1, <1>2, Zenon
  <2> QED
    BY <2>1, IrqInvariant, PTL
<1> QED
  BY <1>2, Zenon

\* The types of the variables, and the assertions of the code on interrupt flag and
\* dispatch_ipc, hold in every state.
THEOREM PathAssertions == Spec => [](TypeOK /\ CodeAssertions)
<1>1. IrqInv => TypeOK /\ CodeAssertions
  BY Zenon DEF IrqInv
<1> QED
  BY <1>1, IrqInvariant, PTL
=============================================================================
