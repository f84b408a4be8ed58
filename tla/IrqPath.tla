------------------------------- MODULE IrqPath -------------------------------
(***************************************************************************)
(* The path of an interrupt into a guest kernel on the wedge: from the     *)
(* device through the IRQ thread into the virtual 8259As (device/i8259a.*, *)
(* ia32/intlogic.h), and from there into the guest, at sti, iret and idle, *)
(* by a message to a waiting main thread, or by an asynchronous redirect   *)
(* (l4ka/common/irq.cc, l4ka/vm/backend.cc, ia32/cpu.cc).  One vCPU with   *)
(* the legacy interrupt controllers and CONFIG_IA32_STRICT_IRQ.            *)
(*                                                                         *)
(* The IRQ thread has a higher priority than the main thread on the same   *)
(* processor: one round of its loop is one step.  The main thread can be   *)
(* preempted between any two accesses to what the IRQ thread shares.  A    *)
(* local that is not used again goes back to its initial value.            *)
(***************************************************************************)
EXTENDS Integers, FiniteSetsExt

CONSTANTS
    Irqs,           \* the interrupt lines in use, the timer's line 0 among them
    Squashed,       \* hwirq_squash: lines the wedge keeps for itself
    SplitClear,     \* irq_request &= ~bit is compiled to more than one instruction
    NoIrq

Timer == 0                      \* INTLOGIC_TIMER_IRQ
Devices == Irqs \ Squashed
Pic(i) == i \div 8              \* 0 the master, 1 the slave
Pics == {0, 1}
Lines(p) == {i \in Irqs : Pic(i) = p}

ASSUME IrqsAssumption == Irqs \subseteq 0 .. 15 /\ Timer \in Irqs /\ Timer \in Squashed
ASSUME NoIrqAssumption == NoIrq \notin Irqs /\ SplitClear \in BOOLEAN

VARIABLES
    irq_request, irq_in_service, irq_mask,  \* of both controllers
    irq_vectors,        \* cpu.irq_vectors: a bit for each controller
    hwirq_mask,         \* lines raised, and not unmasked at the device since
    hwirq_latch,        \* lines associated with the IRQ thread
    fi,                 \* cpu.flags.fi, the guest's interrupt flag
    dispatch_ipc,       \* the main thread waits, for a vector or for its user
    pc,                 \* where the main thread is
    poll,               \* who called pending_vector, or entered the wait
    pic,                \* the controller pending_vector is at
    irq,                \* the interrupt it claimed
    loaded,             \* irq_request, as loaded for the store
    handling,           \* the interrupt the guest handles
    back,               \* where its handler returns to: "run", "sti" or "user"
    waiting,            \* devices that wait for their acknowledgement
    ticked              \* the timer's period is not over

picVars == <<irq_request, irq_in_service, irq_mask, irq_vectors>>
hwVars == <<hwirq_mask, hwirq_latch, waiting>>
pollVars == <<poll, pic, irq, loaded>>
guestVars == <<fi, dispatch_ipc, handling, back>>
vars == <<picVars, hwVars, pollVars, guestVars, pc, ticked>>

\* The guest has set up the controllers and its timer, and no device yet.
Init ==
    /\ irq_request = {} /\ irq_in_service = {} /\ irq_mask = Irqs \ {Timer}
    /\ irq_vectors = {}
    /\ hwirq_mask = {} /\ hwirq_latch = {} /\ waiting = {}
    /\ fi = FALSE /\ dispatch_ipc = FALSE /\ handling = NoIrq /\ back = "run"
    /\ pc = "run" /\ poll = "sti" /\ pic = 0 /\ irq = NoIrq /\ loaded = {}
    /\ ticked = FALSE

-----------------------------------------------------------------------------
(* The controllers' operations. *)

\* raise_irq on a controller, and reraise_vector: the lines S are requested.
SetVectors(vectors, S) == vectors \cup {Pic(i) : i \in S \ irq_mask}

\* The controllers that pending_vector, run without interruption, leaves without their bit
\* when it claims q of the requests r: those it passed with nothing but masked requests,
\* and the one of q if q was all it had.
Exhausted(r, q) ==
    {p \in Pics : r \cap Lines(p) # {} /\ p <= Pic(q) /\ (r \ irq_mask) \cap Lines(p) \subseteq {q}}

\* The line eoi() finds in service on controller p: the lowest.
InService(p) == irq_in_service \cap Lines(p)

\* port_a_write, an end of interrupt for controller p.  Specific or not, it ends the lowest
\* line in service; the line it then unmasks at the device is numbered on its controller.
Eoi(p) ==
    IF InService(p) = {}
      THEN UNCHANGED <<irq_in_service, hwirq_mask, waiting>>
      ELSE LET i == Min(InService(p))
               unmasked == hwirq_mask \cap ({i - 8 * p} \ Squashed)
           IN  /\ irq_in_service' = irq_in_service \ {i}
               /\ hwirq_mask' = hwirq_mask \ unmasked
               /\ waiting' = waiting \ unmasked

\* port_b_write, OCW1, up to the announcement of requests that were masked; EnableDevice and
\* UnmaskDevice are the rest of it.
WriteMask(mask) ==
    /\ irq_mask' = mask
    /\ irq_vectors' = irq_vectors \cup {Pic(i) : i \in (irq_request \cap irq_mask) \ mask}

-----------------------------------------------------------------------------
(* The IRQ thread. *)

\* The main thread can take a vector: it is in its wait, or in guest code.
Reachable == IF dispatch_ipc THEN pc = "wait" ELSE pc \in {"run", "sti"}

\* It takes q: by a message, or by a redirect of its registers to the handler.
TakeVector(q) ==
    IF dispatch_ipc
      THEN pc' = "received" /\ irq' = q /\ UNCHANGED guestVars
      ELSE /\ pc' = "ack" /\ handling' = q /\ back' = pc /\ fi' = FALSE
           /\ UNCHANGED <<irq, dispatch_ipc>>

\* Mutant: a cancelled delivery is not raised again.
DeliverNoReraise(r, v) ==
    LET pending == r \ irq_mask
        q == Min(pending)
        claimed == fi /\ v # {} /\ pending # {}
    IN  /\ irq_request' = IF claimed THEN r \ {q} ELSE r
        /\ irq_in_service' = IF claimed THEN irq_in_service \cup {q} ELSE irq_in_service
        /\ irq_vectors' = IF claimed THEN v \ Exhausted(r, q) ELSE v
        /\ IF claimed /\ Reachable THEN TakeVector(q) ELSE UNCHANGED <<pc, irq, guestVars>>

\* The end of a round, with the requests r and the bits v: if interrupts are enabled, claim
\* a vector for the main thread.  If that is in the wedge, or about to leave its wait,
\* cancel the delivery and raise the vector again.
Deliver(r, v) ==
    LET pending == r \ irq_mask
        q == Min(pending)
        nothing == UNCHANGED <<irq_in_service, pc, irq, guestVars>>
    IN  \/ /\ ~fi \/ v = {}
           /\ irq_request' = r /\ irq_vectors' = v /\ nothing
        \/ /\ fi /\ v # {} /\ pending = {}
           /\ irq_request' = r /\ nothing
           /\ irq_vectors' = v \ {p \in Pics : r \cap Lines(p) # {}}
        \/ /\ fi /\ v # {} /\ pending # {} /\ Reachable
           /\ irq_request' = r \ {q}
           /\ irq_in_service' = irq_in_service \cup {q}
           /\ irq_vectors' = v \ Exhausted(r, q)
           /\ TakeVector(q)
        \/ /\ fi /\ v # {} /\ pending # {} /\ ~Reachable
           /\ irq_request' = r
           /\ irq_in_service' = irq_in_service \cup {q}
           /\ irq_vectors' = SetVectors(v \ Exhausted(r, q), {q})
           /\ UNCHANGED <<pc, irq, guestVars>>

\* A round of irq_handler_thread: the lines S are raised, by a message of a device's
\* interrupt, by the timer whose period is over, by both, or by none.
Round(S) ==
    /\ pc = "store" => SplitClear
    /\ Cardinality(S \ {Timer}) <= 1
    /\ S \subseteq {Timer} \cup (hwirq_latch \ waiting)
    /\ Timer \in S => ~ticked
    /\ ticked' = (ticked \/ Timer \in S)
    /\ hwirq_mask' = hwirq_mask \cup S
    /\ waiting' = waiting \cup (S \ {Timer})
    /\ Deliver(irq_request \cup S, SetVectors(irq_vectors, S))
    /\ UNCHANGED <<irq_mask, hwirq_latch, poll, pic, loaded>>

-----------------------------------------------------------------------------
(* The main thread in the wedge: intlogic_t::pending_vector. *)

\* What follows when nothing is pending: return to the guest, or wait.
NoVector ==
    /\ pc' = CASE poll = "sti" -> "run" [] poll = "iret" -> "resume" [] poll = "idle" -> "enter"
    /\ pic' = 0

Poll ==
    /\ pc = "poll"
    /\ \/ irq_vectors = {} /\ NoVector
       \/ irq_vectors # {} /\ pc' = "load" /\ pic' = 0
    /\ UNCHANGED <<picVars, hwVars, guestVars, poll, irq, loaded, ticked>>

\* Mutant: the slave is not looked at.
NextPicMasterOnly == NoVector

\* On to the slave, or to the end.
NextPic ==
    \/ pic = 0 /\ pic' = 1 /\ pc' = "load"
    \/ pic = 1 /\ NoVector

\* The requests of the controller.
LoadRequests ==
    LET requests == irq_request \cap Lines(pic)
        pending == requests \ irq_mask
    IN  /\ pc = "load"
        /\ \/ requests = {} /\ NextPic /\ UNCHANGED irq
           \/ requests # {} /\ pending = {} /\ pc' = "none" /\ UNCHANGED <<pic, irq>>
           \/ pending # {} /\ irq' = Min(pending) /\ pc' = "claim" /\ UNCHANGED pic
        /\ UNCHANGED <<picVars, hwVars, guestVars, poll, loaded, ticked>>

\* "No pending, unmasked interrupts."
ClearNone ==
    /\ pc = "none" /\ NextPic
    /\ irq_vectors' = irq_vectors \ {pic}
    /\ UNCHANGED <<irq_request, irq_in_service, irq_mask, hwVars, guestVars, poll, irq, loaded, ticked>>

\* irq_request &= ~(1 << pic_irq): the load, and the store.
ClaimRequest ==
    /\ pc = "claim" /\ pc' = "store"
    /\ loaded' = irq_request \cap Lines(pic)
    /\ UNCHANGED <<picVars, hwVars, guestVars, poll, pic, irq, ticked>>

StoreRequest ==
    /\ pc = "store" /\ pc' = "service"
    /\ irq_request' = (irq_request \ Lines(pic)) \cup (loaded \ {irq})
    /\ loaded' = {}
    /\ UNCHANGED <<irq_in_service, irq_mask, irq_vectors, hwVars, guestVars, poll, pic, irq, ticked>>

\* The line is in service; is it the last one?
SetInService ==
    /\ pc = "service"
    /\ irq_in_service' = irq_in_service \cup {irq}
    /\ pc' = IF (irq_request \ irq_mask) \cap Lines(pic) = {} THEN "clear" ELSE "redirect"
    /\ UNCHANGED <<irq_request, irq_mask, irq_vectors, hwVars, guestVars, pollVars, ticked>>

ClearLast ==
    /\ pc = "clear" /\ pc' = "redirect"
    /\ irq_vectors' = irq_vectors \ {pic}
    /\ UNCHANGED <<irq_request, irq_in_service, irq_mask, hwVars, guestVars, pollVars, ticked>>

\* do_redirect and the redirected iret: the guest enters its handler.
Redirect ==
    /\ pc = "redirect" /\ pc' = "ack"
    /\ handling' = irq /\ irq' = NoIrq /\ pic' = 0 /\ fi' = FALSE
    /\ back' = CASE poll = "user" -> "user" [] poll = "iret" -> back [] OTHER -> "run"
    /\ UNCHANGED <<picVars, hwVars, poll, loaded, dispatch_ipc, ticked>>

\* afterburn_cpu_iret with nothing pending, to the interrupted kernel or to user level.
Resume ==
    /\ pc = "resume"
    /\ \/ back = "user" /\ pc' = "enter" /\ poll' = "user" /\ fi' = FALSE
       \/ back # "user" /\ pc' = back /\ poll' = "sti" /\ fi' = TRUE
    /\ back' = "run"
    /\ UNCHANGED <<picVars, hwVars, pic, irq, loaded, dispatch_ipc, handling, ticked>>

\* backend_interruptible_idle and backend_activate_user wait.  They disable preemption, which
\* does not keep an interrupt of a physical device away: dispatch_ipc_enter, ...
EnterDispatch ==
    /\ pc = "enter" /\ pc' = "entered" /\ dispatch_ipc' = TRUE
    /\ UNCHANGED <<picVars, hwVars, pollVars, fi, handling, back, ticked>>

\* ... restore_interrupts, if the guest is to run at user level, ...
EnableInterrupts ==
    /\ pc = "entered" /\ pc' = "armed" /\ fi' = TRUE
    /\ UNCHANGED <<picVars, hwVars, pollVars, dispatch_ipc, handling, back, ticked>>

\* ... and the wait itself.
EnterWait ==
    /\ pc = "armed" /\ pc' = "wait"
    /\ UNCHANGED <<picVars, hwVars, pollVars, guestVars, ticked>>

\* A message of the user thread ends the wait first.
UserMessage ==
    /\ pc = "wait" /\ poll = "user" /\ pc' = "woken"
    /\ UNCHANGED <<picVars, hwVars, pollVars, guestVars, ticked>>

\* Mutant: the end of the dispatch IPC is not recorded.
LeaveWaitNoExit ==
    /\ pc = "woken"
    /\ \/ pc' = "enter" /\ fi' = FALSE /\ UNCHANGED poll
       \/ pc' = "run" /\ fi' \in BOOLEAN /\ poll' = "sti"
    /\ UNCHANGED <<picVars, hwVars, pic, irq, loaded, dispatch_ipc, handling, back, ticked>>

\* It is a page fault that is answered at once, or enters the guest through a gate.
LeaveWait ==
    /\ pc = "woken" /\ dispatch_ipc' = FALSE
    /\ \/ pc' = "enter" /\ fi' = FALSE /\ UNCHANGED poll
       \/ pc' = "run" /\ fi' \in BOOLEAN /\ poll' = "sti"
    /\ UNCHANGED <<picVars, hwVars, pic, irq, loaded, handling, back, ticked>>

\* The message of the IRQ thread ends it, with the vector of the claimed interrupt.
ReceiveVector ==
    /\ pc = "received" /\ pc' = "redirect"
    /\ dispatch_ipc' = FALSE /\ fi' = (fi /\ poll = "idle")
    /\ UNCHANGED <<picVars, hwVars, pollVars, handling, back, ticked>>

-----------------------------------------------------------------------------
(* The main thread in the guest, which follows the protocol of Linux' 8259A code. *)

Cli ==
    /\ pc = "run" /\ fi /\ fi' = FALSE
    /\ UNCHANGED <<picVars, hwVars, pollVars, dispatch_ipc, handling, back, pc, ticked>>

\* sti is rewritten to a bts of the flag ...
Sti ==
    /\ pc = "run" /\ ~fi /\ fi' = TRUE /\ pc' = "sti"
    /\ UNCHANGED <<picVars, hwVars, pollVars, dispatch_ipc, handling, back, ticked>>

\* ... and a test of irq_vectors that calls burn_deliver_interrupt.
StiTest ==
    /\ pc = "sti"
    /\ \/ irq_vectors = {} /\ pc' = "run" /\ UNCHANGED poll
       \/ irq_vectors # {} /\ pc' = "poll" /\ poll' = "sti"
    /\ UNCHANGED <<picVars, hwVars, guestVars, pic, irq, loaded, ticked>>

\* hlt
Idle ==
    /\ pc = "run" /\ fi /\ pc' = "poll" /\ poll' = "idle"
    /\ UNCHANGED <<picVars, hwVars, guestVars, pic, irq, loaded, ticked>>

\* iret to user level, with interrupts disabled until then
IretToUser ==
    /\ pc = "run" /\ ~fi /\ pc' = "poll" /\ poll' = "iret" /\ back' = "user"
    /\ UNCHANGED <<picVars, hwVars, pic, irq, loaded, fi, dispatch_ipc, handling, ticked>>

\* enable_8259A_irq for a device: unmask its line
EnableLine(i) ==
    /\ pc = "run" /\ ~fi /\ i \in irq_mask
    /\ WriteMask(irq_mask \ {i})
    /\ irq' = i /\ pc' = "unmasked"
    /\ UNCHANGED <<irq_request, irq_in_service, hwVars, guestVars, poll, pic, loaded, ticked>>

\* disable_8259A_irq
DisableLine(i) ==
    /\ pc = "run" /\ ~fi /\ i \notin irq_mask
    /\ WriteMask(irq_mask \cup {i})
    /\ UNCHANGED <<irq_request, irq_in_service, hwVars, guestVars, pollVars, pc, ticked>>

\* The interrupt's entry masks its line,
Ack ==
    /\ pc = "ack" /\ pc' = "eoi"
    /\ WriteMask(irq_mask \cup {handling})
    /\ UNCHANGED <<irq_request, irq_in_service, hwVars, guestVars, pollVars, ticked>>

\* ends it on its controller,
EndOfInterrupt ==
    /\ pc = "eoi" /\ Eoi(Pic(handling))
    /\ pc' = IF Pic(handling) = 0 THEN "unmask" ELSE "cascade"
    /\ UNCHANGED <<irq_request, irq_mask, irq_vectors, hwirq_latch, guestVars, pollVars, ticked>>

\* and for a line of the slave on the master.
EndOfCascade ==
    /\ pc = "cascade" /\ Eoi(0) /\ pc' = "unmask"
    /\ UNCHANGED <<irq_request, irq_mask, irq_vectors, hwirq_latch, guestVars, pollVars, ticked>>

\* The handler has run: its line is unmasked again ...
Unmask ==
    /\ pc = "unmask" /\ pc' = "unmasked" /\ irq' = handling
    /\ WriteMask(irq_mask \ {handling})
    /\ UNCHANGED <<irq_request, irq_in_service, hwVars, guestVars, poll, pic, loaded, ticked>>

\* ... its device is associated with the IRQ thread, if it was not ...
EnableDevice ==
    /\ pc = "unmasked" /\ pc' = "enabled"
    /\ hwirq_latch' = hwirq_latch \cup ({irq} \ Squashed)
    /\ UNCHANGED <<picVars, hwirq_mask, waiting, guestVars, pollVars, ticked>>

\* Mutant: the device is acknowledged, and its line not removed from hwirq_mask.
UnmaskDeviceStillMasked ==
    /\ pc = "enabled"
    /\ pc' = IF handling = NoIrq THEN "run" ELSE "iret"
    /\ waiting' = waiting \ (hwirq_mask \cap ({irq} \ Squashed))
    /\ UNCHANGED <<picVars, hwirq_mask, hwirq_latch, guestVars, pollVars, ticked>>

\* ... and acknowledged ...
UnmaskDevice ==
    /\ pc = "enabled"
    /\ pc' = IF handling = NoIrq THEN "run" ELSE "iret"
    /\ LET unmasked == hwirq_mask \cap ({irq} \ Squashed)
       IN  hwirq_mask' = hwirq_mask \ unmasked /\ waiting' = waiting \ unmasked
    /\ irq' = NoIrq
    /\ UNCHANGED <<picVars, hwirq_latch, guestVars, poll, pic, loaded, ticked>>

\* ... and the guest returns.
Iret ==
    /\ pc = "iret" /\ pc' = "poll" /\ poll' = "iret" /\ handling' = NoIrq
    /\ UNCHANGED <<picVars, hwVars, pic, irq, loaded, fi, dispatch_ipc, back, ticked>>

\* The timer's period is long: the guest, or its user, runs before the next one is over.
TimePasses ==
    /\ pc \in {"run", "wait"} /\ ticked /\ ticked' = FALSE
    /\ UNCHANGED <<picVars, hwVars, pollVars, guestVars, pc>>

-----------------------------------------------------------------------------
InWedge ==
    \/ Poll \/ LoadRequests \/ ClearNone \/ ClaimRequest \/ StoreRequest \/ SetInService
    \/ ClearLast \/ Redirect \/ Resume \/ EnterDispatch \/ EnableInterrupts \/ EnterWait
    \/ LeaveWait \/ ReceiveVector

InHandler == StiTest \/ Ack \/ EndOfInterrupt \/ EndOfCascade \/ Unmask \/ EnableDevice
    \/ UnmaskDevice \/ Iret

Next ==
    \/ \E S \in SUBSET Irqs : Round(S)
    \/ InWedge \/ InHandler
    \/ Cli \/ Sti \/ Idle \/ IretToUser \/ UserMessage
    \/ \E i \in Irqs : EnableLine(i)
    \/ \E i \in Devices : DisableLine(i)
    \/ TimePasses

\* The timer's period is over while the main thread is where a vector can reach it.
Tick == Reachable /\ \E S \in SUBSET Irqs : Timer \in S /\ Round(S)

\* The main thread runs when the IRQ thread does not; time passes, and the timer is not in
\* step with the guest, which it does not always find in the wedge; a guest that disables
\* its interrupts enables them again.
Spec ==
    /\ Init /\ [][Next]_vars
    /\ WF_vars(InWedge \/ InHandler)
    /\ SF_vars(Tick)
    /\ SF_vars(TimePasses)
    /\ SF_vars(Sti)

-----------------------------------------------------------------------------
(* Properties. *)

\* The types of the variables.
TypeOK ==
    /\ irq_request \subseteq Irqs /\ irq_in_service \subseteq Irqs /\ irq_mask \subseteq Irqs
    /\ irq_vectors \subseteq Pics
    /\ hwirq_mask \subseteq Irqs /\ hwirq_latch \subseteq Devices /\ waiting \subseteq Devices
    /\ fi \in BOOLEAN /\ dispatch_ipc \in BOOLEAN
    /\ pc \in {"run", "sti", "poll", "load", "none", "claim", "store", "service", "clear",
               "redirect", "resume", "enter", "entered", "armed", "wait", "woken",
               "received", "ack", "eoi", "cascade", "unmask", "unmasked", "enabled", "iret"}
    /\ poll \in {"sti", "iret", "idle", "user"} /\ pic \in Pics
    /\ irq \in Irqs \cup {NoIrq} /\ handling \in Irqs \cup {NoIrq}
    /\ loaded \subseteq Irqs /\ back \in {"run", "sti", "user"}
    /\ ticked \in BOOLEAN

\* An interrupt that was taken out of irq_request on its way to its handler.
Claimed(i) == irq = i /\ pc \in {"service", "clear", "redirect", "received"}

\* No interrupt is lost: a device that waits for its acknowledgement is requested, on its
\* way to the handler, or being handled.
NoInterruptLost ==
    \A i \in waiting : i \in irq_request \/ Claimed(i) \/ handling = i

\* The assertions of the path: a wait is entered once, and with interrupts enabled
\* ("Interrupts are enabled if we are in dispatch IPC.", after the first step of entering
\* it); lines are enabled with interrupts disabled, and afterburn_cpu_deliver_interrupt and
\* idle find them enabled.
CodeAssertions ==
    /\ dispatch_ipc <=> pc \in {"entered", "armed", "wait", "woken", "received"}
    /\ dispatch_ipc => fi \/ pc = "entered"
    /\ pc \in {"unmasked", "enabled"} => ~fi
    /\ pc \in {"poll", "load", "none", "claim", "store", "service", "clear"} /\ poll \in {"sti", "idle"} => fi

\* What the main thread keeps to.  A device waits for what hwirq_mask records; the guest
\* runs one handler at a time, with interrupts disabled from its entry to its iret, and
\* unmasks the line it handles; when it returns the line's device is acknowledged, or was
\* since raised again.
HandlerInv ==
    /\ waiting = hwirq_mask \cap Devices
    /\ pc = "store" /\ ~SplitClear => loaded = irq_request \cap Lines(pic)
    /\ pc \in {"poll", "load", "none"} => poll # "user"
    /\ pc = "sti" => fi
    /\ pc \in {"claim", "store", "service", "clear", "redirect", "received", "unmasked", "enabled"} =>
          irq # NoIrq
    /\ pc \in {"ack", "eoi", "cascade", "unmask", "iret"} => handling # NoIrq /\ ~fi
    /\ handling # NoIrq => pc \in {"ack", "eoi", "cascade", "unmask", "unmasked", "enabled", "iret"}
    /\ pc \in {"unmasked", "enabled"} /\ handling # NoIrq => irq = handling
    /\ pc = "iret" /\ handling \in waiting => handling \in irq_request

\* The inductive invariant; NoInterruptLost needs a claim in one instruction.
IrqInv ==
    /\ TypeOK /\ CodeAssertions /\ HandlerInv
    /\ ~SplitClear => NoInterruptLost

\* A request whose controller has no bit: pending_vector returns before it looks, or finds a
\* line of the master first.  A raise between the test for the last request and the clear of
\* the bit makes it so.
Overlooked(i) == i \in irq_request \ irq_mask /\ Pic(i) \notin irq_vectors

\* A device with a higher priority interrupts without end.
Starved(i) == \E j \in Devices : j < i /\ []<>(handling = j)

\* An interrupt of the master that is requested and not masked is handled, or its line
\* masked: the timer repairs the bit.  One of the slave is too, unless its controller's bit
\* stays clear from some point on, which only another line of the slave can repair.
Delivered ==
    \A i \in Irqs :
        \/ i \in irq_request \ irq_mask ~> handling = i \/ i \in irq_mask
        \/ Starved(i)
        \/ Pic(i) = 1 /\ <>[]Overlooked(i)

\* A device that waits is acknowledged, or its line masked, under the same conditions.
Acknowledged ==
    \A i \in Devices :
        \/ i \in waiting ~> i \notin waiting \/ i \in irq_mask
        \/ Starved(i)
        \/ Pic(i) = 1 /\ <>[]Overlooked(i)
=============================================================================
