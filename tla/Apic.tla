-------------------------------- MODULE Apic --------------------------------
(***************************************************************************)
(* The virtual APICs of the wedge (CONFIG_DEVICE_APIC): a local APIC       *)
(* (device/lapic.cc) and the I/O APICs in front of it (device/i82093.cc),  *)
(* on one vCPU.  Lines are raised by the IRQ thread; the main thread       *)
(* claims vectors for the guest, and carries out the guest's writes to the *)
(* APICs: end of interrupt, masking and unmasking, interrupts to itself.   *)
(*                                                                         *)
(* As in IrqPath a round of the IRQ thread is one step, and the main       *)
(* thread can be preempted between any two accesses to what they share,    *)
(* but for an interrupt it raises itself: that is one step, since with     *)
(* interrupts disabled a round only adds to what it sets.                  *)
(* The guest has left the virtual wire mode, gives every line a vector of  *)
(* its own, and ends each interrupt in its handler, handlers nested by     *)
(* priority.  It waits by hlt; the waits for its user, and the message     *)
(* that a user's overtakes, are in IrqPath.                                *)
(***************************************************************************)
EXTENDS Integers, Sequences, FiniteSetsExt

CONSTANTS
    Lines,          \* the lines of the I/O APICs in use, none of them squashed
    Level,          \* those that are level triggered
    Virtual,        \* those that other virtual machines raise, acknowledged or not
    Vector,         \* the vector in the redirection entry of a line
    TimerVector,    \* the vector in the timer's local vector table entry
    Ipis,           \* the vectors of interrupts the guest sends itself
    SplitWrite,     \* the IRQ thread can come between load and store of a redirection entry
    NoIrq           \* INTLOGIC_INVALID_IRQ

LineVectors == {Vector[i] : i \in Lines}
Vectors == LineVectors \cup {TimerVector} \cup Ipis
Hardware == Lines \ Virtual

ASSUME LinesAssumption == Level \subseteq Lines /\ Virtual \subseteq Lines /\ NoIrq \notin Lines
ASSUME VectorsAssumption ==
    /\ Vector \in [Lines -> 32 .. 255] /\ TimerVector \in 32 .. 255 /\ Ipis \subseteq 32 .. 255
    /\ \A i, j \in Lines : Vector[i] = Vector[j] => i = j
    /\ LineVectors \cap ({TimerVector} \cup Ipis) = {}
ASSUME SplitAssumption == SplitWrite \in BOOLEAN

VARIABLES
    irr, isr, tmr,      \* the local APIC's requests, vectors in service, trigger modes
    pin,                \* v_to_pin: the line a vector was raised for
    irq_vectors,        \* cpu.irq_vectors: a bit for every 8 vectors
    msk,                \* the redirection entries that are masked,
    remote_irr,         \* ... whose bit 14 is set: a level interrupt is on its way
    pnd,                \* ... whose bit 17 is set: raised while it was masked
    hwirq_mask,         \* lines raised, and not unmasked at the device since
    hwirq_latch,        \* lines associated with the IRQ thread
    fi,                 \* cpu.flags.fi, the guest's interrupt flag
    serving,            \* the interrupts the guest handles, the innermost last
    halted,             \* it executes hlt
    pc,                 \* where the main thread is
    vec,                \* the vector pending_vector claims, or the end of interrupt ends
    line, loaded,       \* the redirection entry it writes, and bits 14 and 17 as loaded
    ticked              \* the timer's period is not over

lapicVars == <<irr, isr, tmr, pin, irq_vectors>>
ioapicVars == <<msk, remote_irr, pnd>>
hwVars == <<hwirq_mask, hwirq_latch>>
guestVars == <<fi, serving, halted>>
localVars == <<vec, line, loaded>>
vars == <<lapicVars, ioapicVars, hwVars, guestVars, localVars, pc, ticked>>

\* local_apic_t::init and i82093_t's constructor; the guest has written the redirection
\* entries, masked, and started the timer.
Init ==
    /\ irr = {} /\ isr = {} /\ tmr = {} /\ irq_vectors = {}
    /\ pin = [v \in LineVectors |-> NoIrq]
    /\ msk = Lines /\ remote_irr = {} /\ pnd = {}
    /\ hwirq_mask = {} /\ hwirq_latch = {}
    /\ fi = FALSE /\ serving = <<>> /\ halted = FALSE
    /\ pc = "run" /\ vec = 0 /\ line = NoIrq /\ loaded = {} /\ ticked = FALSE

-----------------------------------------------------------------------------
(* The registers. *)

\* msb_rr: the highest vector of a register, 0 for none.
Msb(rr) == IF rr = {} THEN 0 ELSE Max(rr)

\* The priority class of a vector.
Class(v) == v \div 16

\* cpu.set_irq_vector(v + 16): a bit for 8 vectors, in a word of 32 bits.  The bits of the
\* vectors from 240 on fall into the next word.
Bit(v) == (v + 16) \div 8

Bits(V) == {Bit(v) : v \in V} \cap 0 .. 31

\* The word of a register that msb_rr_cluster looks at: it expects a mask of clusters, and
\* is given a vector.
HighBit(v) == CASE v < 64 -> 5 [] v >= 64 /\ v < 128 -> 6 [] OTHER -> 7
ClusterWord(v) == LET low == ((8 * HighBit(v)) \div 32) * 32 IN low .. low + 31

\* pending_vector finds a vector among the requests r.
Pending(r) == Class(Msb(r)) > Class(Msb(isr)) /\ Msb(r) > 15

\* The vectors the I/O APICs send when S are raised.
Sent(S) == {Vector[i] : i \in S \ msk}

\* Mutant: a level interrupt is acknowledged at once, as an edge is.
RaiseIrqUnmasks(S, p, h) ==
    /\ remote_irr' = remote_irr \cup ((S \cap Level) \ msk)
    /\ tmr' = tmr \cup Sent(S \cap Level)
    /\ pnd' = p \cup (S \cap Level \cap msk)
    /\ hwirq_mask' = h \ S
    /\ UNCHANGED msk

\* i82093_t::raise_irq for the lines S, with p marked pending and h masked at their devices:
\* a level interrupt is sent and waits for its end, or is marked pending; an edge is
\* acknowledged at once, whether it is sent or ignored.
RaiseIrq(S, p, h) ==
    /\ remote_irr' = remote_irr \cup ((S \cap Level) \ msk)
    /\ tmr' = tmr \cup Sent(S \cap Level)
    /\ pnd' = p \cup (S \cap Level \cap msk)
    /\ hwirq_mask' = h \ (S \ Level)
    /\ UNCHANGED msk

-----------------------------------------------------------------------------
(* The IRQ thread. *)

\* The guest enters the handler of vector v.
EnterHandler(v) == fi' = FALSE /\ serving' = Append(serving, v) /\ halted' = FALSE

\* Mutant: a vector whose delivery is cancelled is not raised again.
DeliverNoReraise(r, b) ==
    LET v == Msb(r)
        claimed == fi /\ b # {} /\ Pending(r)
    IN  /\ irr' = IF claimed THEN r \ {v} ELSE r
        /\ isr' = IF claimed THEN isr \cup {v} ELSE isr
        /\ irq_vectors' = b
        /\ IF claimed /\ pc = "run" THEN EnterHandler(v) ELSE UNCHANGED guestVars
        /\ IF claimed /\ pc = "wait" THEN pc' = "redirect" /\ vec' = v ELSE UNCHANGED <<pc, vec>>

\* The end of a round, with the requests r and the bits b: if interrupts are enabled, claim a
\* vector, redirect the main thread if it is in guest code, or send it a message if it waits;
\* if it is in the wedge, raise the vector again.
Deliver(r, b) ==
    LET v == Msb(r)
    IN  \/ /\ fi /\ b # {} /\ Pending(r) /\ pc = "run"
           /\ irr' = r \ {v} /\ isr' = isr \cup {v} /\ irq_vectors' = b
           /\ EnterHandler(v) /\ UNCHANGED <<pc, vec>>
        \/ /\ fi /\ b # {} /\ Pending(r) /\ pc = "wait"
           /\ irr' = r \ {v} /\ isr' = isr \cup {v} /\ irq_vectors' = b
           /\ pc' = "redirect" /\ vec' = v /\ UNCHANGED guestVars
        \/ /\ fi /\ b # {} /\ Pending(r) /\ pc \notin {"run", "wait"}
           /\ irr' = r /\ isr' = isr \ {v} /\ irq_vectors' = b \cup Bits({v})
           /\ UNCHANGED <<guestVars, pc, vec>>
        \/ /\ ~(fi /\ b # {} /\ Pending(r))
           /\ irr' = r /\ irq_vectors' = b
           /\ UNCHANGED <<isr, guestVars, pc, vec>>

\* A round of irq_handler_thread: S are raised, none or one, by a device that is not masked
\* or by a virtual interrupt; the timer too, if its period is over.
Round(S, tick) ==
    LET V == Sent(S) \cup (IF tick THEN {TimerVector} ELSE {})
    IN  /\ pc \in {"store", "store2", "store3"} => SplitWrite
        /\ S \subseteq hwirq_latch /\ S \cap Hardware \cap hwirq_mask = {} /\ Cardinality(S) <= 1
        /\ tick => ~ticked
        /\ ticked' = (ticked \/ tick)
        /\ pin' = [v \in LineVectors |-> IF v \in Sent(S) THEN CHOOSE i \in S : Vector[i] = v ELSE pin[v]]
        /\ RaiseIrq(S, pnd, hwirq_mask \cup S)
        /\ Deliver(irr \cup V, irq_vectors \cup Bits(V))
        /\ UNCHANGED <<hwirq_latch, line, loaded>>

-----------------------------------------------------------------------------
(* The main thread: intlogic_t::pending_vector, at sti, iret and hlt. *)

Poll ==
    /\ pc = "poll" /\ pc' = IF irq_vectors = {} THEN "resume" ELSE "look"
    /\ UNCHANGED <<lapicVars, ioapicVars, hwVars, guestVars, localVars, ticked>>

\* Mutant: a vector is claimed whatever is in service.
LookNoPriority ==
    /\ pc = "look"
    /\ \/ irr # {} /\ vec' = Msb(irr) /\ pc' = "claim"
       \/ irr = {} /\ pc' = "resume" /\ UNCHANGED vec
    /\ UNCHANGED <<lapicVars, ioapicVars, hwVars, guestVars, line, loaded, ticked>>

Look ==
    /\ pc = "look"
    /\ \/ Pending(irr) /\ vec' = Msb(irr) /\ pc' = "claim"
       \/ ~Pending(irr) /\ pc' = "resume" /\ UNCHANGED vec
    /\ UNCHANGED <<lapicVars, ioapicVars, hwVars, guestVars, line, loaded, ticked>>

Claim ==
    /\ pc = "claim" /\ pc' = "service"
    /\ irr' = irr \ {vec}
    /\ UNCHANGED <<isr, tmr, pin, irq_vectors, ioapicVars, hwVars, guestVars, localVars, ticked>>

Service ==
    /\ pc = "service" /\ pc' = "redirect"
    /\ isr' = isr \cup {vec}
    /\ UNCHANGED <<irr, tmr, pin, irq_vectors, ioapicVars, hwVars, guestVars, localVars, ticked>>

\* The guest enters its handler.
Redirect ==
    /\ pc = "redirect" /\ pc' = "run"
    /\ EnterHandler(vec) /\ vec' = 0
    /\ UNCHANGED <<lapicVars, ioapicVars, hwVars, line, loaded, ticked>>

\* Nothing was found: iret sets the flags of the guest, which sti and hlt found set, and hlt
\* waits.  A message of the IRQ thread that comes before the wait times out, and its vector is
\* raised again: what Deliver does to a main thread in the wedge.
Resume ==
    /\ pc = "resume" /\ pc' = IF halted THEN "wait" ELSE "run"
    /\ fi' = TRUE
    /\ UNCHANGED <<lapicVars, ioapicVars, hwVars, serving, halted, localVars, ticked>>

-----------------------------------------------------------------------------
(* An end of interrupt, which the guest writes in the handler, with interrupts disabled. *)

\* LAPIC_REG_EOI ends the highest vector in service ...
Eoi ==
    /\ pc = "run" /\ ~fi /\ serving # <<>>
    /\ serving' = SubSeq(serving, 1, Len(serving) - 1)
    /\ vec' = Msb(isr) /\ isr' = isr \ {Msb(isr)}
    /\ pc' = IF isr # {} THEN "clear" ELSE "run"
    /\ UNCHANGED <<irr, tmr, pin, irq_vectors, ioapicVars, hwVars, fi, halted, line, loaded, ticked>>

\* ... clears its bit of irq_vectors, unless a vector of a word is in service ...
ClearBit ==
    /\ pc = "clear" /\ pc' = "mode"
    /\ irq_vectors' = IF isr \cap ClusterWord(vec) = {} THEN irq_vectors \ Bits({vec}) ELSE irq_vectors
    /\ UNCHANGED <<irr, isr, tmr, pin, ioapicVars, hwVars, guestVars, localVars, ticked>>

\* ... and if it was level triggered tells the I/O APIC.  Its address in v_to_pin is set
\* wherever the trigger mode is, and never cleared.
TestMode ==
    /\ pc = "mode"
    /\ \/ vec \in tmr /\ tmr' = tmr \ {vec} /\ pc' = "ioapic" /\ UNCHANGED vec
       \/ vec \notin tmr /\ pc' = "run" /\ vec' = 0 /\ UNCHANGED tmr
    /\ UNCHANGED <<irr, isr, pin, irq_vectors, ioapicVars, hwVars, guestVars, line, loaded, ticked>>

\* i82093_t::eoi for the vector's line: if bit 14 is set ...  The main thread stops in
\* ASSERT(irq < INTLOGIC_MAX_HWIRQS) if the line is not known: a line that was masked before
\* it was ever sent, marked pending, and raised again, is not recorded.
IoapicEoi ==
    /\ pc = "ioapic"
    /\ \/ /\ pin[vec] \in remote_irr /\ remote_irr' = remote_irr \ {pin[vec]}
          /\ pc' = "unmask" /\ UNCHANGED vec
       \/ /\ pin[vec] \in Lines \ remote_irr
          /\ pc' = "run" /\ vec' = 0 /\ UNCHANGED remote_irr
       \/ pin[vec] = NoIrq /\ pc' = "panic" /\ UNCHANGED <<vec, remote_irr>>
    /\ UNCHANGED <<lapicVars, msk, pnd, hwVars, guestVars, line, loaded, ticked>>

\* ... the device is unmasked ...
UnmaskDevice ==
    /\ pc = "unmask" /\ pc' = "again"
    /\ hwirq_mask' = hwirq_mask \ {pin[vec]}
    /\ UNCHANGED <<lapicVars, ioapicVars, hwirq_latch, guestVars, localVars, ticked>>

\* raise_irq(i, true) for a line marked pending.  Only level lines are.
Reraise(i) ==
    LET V == Sent({i})
    IN  /\ RaiseIrq({i}, pnd \ {i}, hwirq_mask)
        /\ irr' = irr \cup V /\ isr' = isr \ V /\ irq_vectors' = irq_vectors \cup Bits(V)
        /\ UNCHANGED <<pin, hwirq_latch>>

\* ... and an interrupt marked pending is raised again.
RaisePending ==
    /\ pc = "again" /\ pc' = "run" /\ vec' = 0
    /\ IF pin[vec] \in pnd THEN Reraise(pin[vec]) ELSE UNCHANGED <<lapicVars, ioapicVars, hwVars>>
    /\ UNCHANGED <<guestVars, line, loaded, ticked>>

-----------------------------------------------------------------------------
(* A write to the lower half of a redirection entry, which masks or unmasks its line.  The *)
(* fields are written one by one, each by a load and a store of the word: the mask, and    *)
(* then others with the values they have.                                                  *)

\* The guest unmasks a line when it does not handle it.
WriteEntry(i) ==
    /\ pc = "run" /\ ~fi
    /\ i \in msk => \A k \in 1 .. Len(serving) : serving[k] # Vector[i]
    /\ line' = i /\ pc' = "load"
    /\ UNCHANGED <<lapicVars, ioapicVars, hwVars, guestVars, vec, loaded, ticked>>

LoadEntry ==
    /\ \/ pc = "load" /\ pc' = "store"
       \/ pc = "load2" /\ pc' = "store2"
       \/ pc = "load3" /\ pc' = "store3"
    /\ loaded' = (IF line \in remote_irr THEN {14} ELSE {}) \cup (IF line \in pnd THEN {17} ELSE {})
    /\ UNCHANGED <<lapicVars, ioapicVars, hwVars, guestVars, vec, line, ticked>>

\* Mutant: the store clears bits 14 and 17.
StoreEntryClears ==
    /\ remote_irr' = remote_irr \ {line} /\ pnd' = pnd \ {line} /\ loaded' = {}

\* The store, which also writes back bits 14 and 17.
StoreEntry ==
    /\ remote_irr' = IF 14 \in loaded THEN remote_irr \cup {line} ELSE remote_irr \ {line}
    /\ pnd' = IF 17 \in loaded THEN pnd \cup {line} ELSE pnd \ {line}
    /\ loaded' = {}

StoreMask ==
    /\ pc = "store" /\ pc' = "load2" /\ StoreEntry
    /\ msk' = IF line \in msk THEN msk \ {line} ELSE msk \cup {line}
    /\ UNCHANGED <<lapicVars, hwVars, guestVars, vec, line, ticked>>

StoreFields ==
    /\ pc = "store2" /\ StoreEntry
    /\ pc' = IF line \in msk THEN "run" ELSE "enable"
    /\ line' = IF line \in msk THEN NoIrq ELSE line
    /\ UNCHANGED <<lapicVars, msk, hwVars, guestVars, vec, ticked>>

\* A line that was unmasked is associated with the IRQ thread, if it was not ...
EnableEntry ==
    /\ pc = "enable" /\ pc' = "load3"
    /\ hwirq_latch' = hwirq_latch \cup {line}
    /\ UNCHANGED <<lapicVars, ioapicVars, hwirq_mask, guestVars, localVars, ticked>>

\* ... its destination mode is kept, in the same word ...
StoreOld ==
    /\ pc = "store3" /\ pc' = "enabled" /\ StoreEntry
    /\ UNCHANGED <<lapicVars, msk, hwVars, guestVars, vec, line, ticked>>

\* Mutant: the mark is removed, and nothing raised.
RaiseUnmaskedNot ==
    /\ pc = "enabled" /\ pc' = "run" /\ line' = NoIrq
    /\ pnd' = pnd \ {line}
    /\ UNCHANGED <<lapicVars, msk, remote_irr, hwVars, guestVars, vec, loaded, ticked>>

\* ... and an interrupt marked pending is raised.
RaiseUnmasked ==
    /\ pc = "enabled" /\ pc' = "run" /\ line' = NoIrq
    /\ IF line \in pnd THEN Reraise(line) ELSE UNCHANGED <<lapicVars, ioapicVars, hwVars>>
    /\ UNCHANGED <<guestVars, vec, loaded, ticked>>

-----------------------------------------------------------------------------
(* The guest. *)

Cli ==
    /\ pc = "run" /\ fi /\ fi' = FALSE
    /\ UNCHANGED <<lapicVars, ioapicVars, hwVars, serving, halted, localVars, pc, ticked>>

\* sti sets the flag and looks for a vector; iret does it the other way round.
Sti ==
    /\ pc = "run" /\ ~fi /\ fi' = TRUE /\ pc' = "poll"
    /\ UNCHANGED <<lapicVars, ioapicVars, hwVars, serving, halted, localVars, ticked>>

Iret ==
    /\ pc = "run" /\ ~fi /\ pc' = "poll"
    /\ UNCHANGED <<lapicVars, ioapicVars, hwVars, guestVars, localVars, ticked>>

\* hlt, in the idle loop
Halt ==
    /\ pc = "run" /\ fi /\ serving = <<>> /\ halted' = TRUE /\ pc' = "poll"
    /\ UNCHANGED <<lapicVars, ioapicVars, hwVars, fi, serving, localVars, ticked>>

\* LAPIC_REG_INTR_CMDLO, a fixed interrupt to itself
SendIpi(v) ==
    /\ pc = "run"
    /\ irr' = irr \cup {v} /\ irq_vectors' = irq_vectors \cup Bits({v})
    /\ UNCHANGED <<isr, tmr, pin, ioapicVars, hwVars, guestVars, localVars, pc, ticked>>

\* The timer's period is long: interrupted code runs before the next one is over.
TimePasses ==
    /\ pc \in {"run", "wait"} /\ fi /\ serving = <<>> /\ ticked /\ ticked' = FALSE
    /\ UNCHANGED <<lapicVars, ioapicVars, hwVars, guestVars, localVars, pc>>

InWedge ==
    \/ Poll \/ Look \/ Claim \/ Service \/ Redirect \/ Resume
    \/ ClearBit \/ TestMode \/ IoapicEoi \/ UnmaskDevice \/ RaisePending
    \/ LoadEntry \/ StoreMask \/ StoreFields \/ EnableEntry \/ StoreOld
    \/ RaiseUnmasked

Next ==
    \/ \E S \in SUBSET Lines, tick \in BOOLEAN : Round(S, tick)
    \/ InWedge
    \/ Eoi \/ Cli \/ Sti \/ Iret \/ Halt
    \/ \E i \in Lines : WriteEntry(i)
    \/ \E v \in Ipis : SendIpi(v)
    \/ TimePasses

\* The main thread runs when the IRQ thread does not; time passes, and the timer finds the
\* guest with interrupts enabled; a handler ends, and interrupts are enabled again.
Spec ==
    /\ Init /\ [][Next]_vars
    /\ WF_vars(InWedge)
    /\ SF_vars(pc \in {"run", "wait"} /\ fi /\ \E S \in SUBSET Lines : Round(S, TRUE))
    /\ SF_vars(TimePasses)
    /\ SF_vars(Eoi)
    /\ SF_vars(serving # <<>> /\ Cli)
    /\ SF_vars(Sti \/ Iret)

-----------------------------------------------------------------------------
(* Properties. *)

\* The types of the variables.
TypeOK ==
    /\ irr \subseteq Vectors /\ isr \subseteq Vectors /\ tmr \subseteq LineVectors
    /\ pin \in [LineVectors -> Lines \cup {NoIrq}]
    /\ irq_vectors \subseteq 0 .. 31
    /\ msk \subseteq Lines /\ remote_irr \subseteq Level /\ pnd \subseteq Level
    /\ hwirq_mask \subseteq Level /\ hwirq_latch \subseteq Lines
    /\ fi \in BOOLEAN /\ serving \in Seq(Vectors) /\ halted \in BOOLEAN /\ ticked \in BOOLEAN
    /\ pc \in {"run", "poll", "look", "claim", "service", "redirect", "resume", "wait", "clear",
               "mode", "ioapic", "unmask", "again", "load", "store", "load2", "store2", "enable",
               "load3", "store3", "enabled", "panic"}
    /\ vec \in Vectors \cup {0} /\ line \in Lines \cup {NoIrq} /\ loaded \subseteq {14, 17}

\* The interrupts in service are those the guest handles, and the one it is about to handle;
\* their priority classes ascend, so that an end of interrupt ends the handler's own.
NestedService ==
    /\ isr = {serving[k] : k \in 1 .. Len(serving)} \cup (IF pc = "redirect" THEN {vec} ELSE {})
    /\ \A j, k \in 1 .. Len(serving) : j < k => Class(serving[j]) < Class(serving[k])
    /\ pc \in {"claim", "service", "redirect"} =>
          \A k \in 1 .. Len(serving) : Class(serving[k]) < Class(vec)

\* The interrupt of line i is requested, on its way to its handler, or being handled.
InFlight(i) == Vector[i] \in irr \cup isr \/ (pc = "service" /\ vec = Vector[i])

\* The end of its interrupt is under way, before it unmasks the device.
Ending(i) == vec = Vector[i] /\ pc \in {"clear", "mode", "ioapic", "unmask"}

\* A device is not unmasked before the end of its level interrupt: as long as that is
\* requested or handled, the device can not raise it again.
DeviceHeld ==
    \A i \in Level \cap Hardware : InFlight(i) => i \in hwirq_mask

\* A device that waits to be unmasked is not forgotten: its interrupt is marked pending, or
\* it is on its way and its end will reach the I/O APIC and find bit 14 set.
Remembered(i) ==
    \/ i \in pnd
    \/ i \in remote_irr /\ Vector[i] \in tmr /\ (InFlight(i) \/ Ending(i))
    \/ i \in remote_irr /\ vec = Vector[i] /\ pc \in {"ioapic", "panic"}
    \/ vec = Vector[i] /\ pc = "unmask"

\* "If masked level irq mark pending" (i82093.cc:316), "if level triggered, set IRR"
\* (i82093.cc:274): a device that waits to be unmasked stays on record, by the mark or by
\* the interrupt and bit 14, until an end of interrupt unmasks it or stops in its assertion.
DeviceRemembered == \A i \in hwirq_mask : Remembered(i)

\* The steps of the main thread: what they work on, and that the guest waits for them with
\* interrupts disabled.
EnableSteps == {"enable", "load3", "store3", "enabled"}
WriteSteps == {"load", "store", "load2", "store2"} \cup EnableSteps
EoiSteps == {"clear", "mode", "ioapic", "unmask", "again"}
StepsInv ==
    /\ pc \in WriteSteps => line \in Lines /\ ~fi
    /\ pc \in EoiSteps => ~fi /\ vec \in Vectors /\ vec \notin isr
    /\ pc \in {"claim", "service", "redirect"} => vec \in Vectors
    /\ pc = "claim" => vec \in irr
    /\ pc \in {"ioapic", "unmask", "again"} => vec \in LineVectors
    /\ pc \in {"unmask", "again"} => pin[vec] \in Lines
    /\ pc \in EnableSteps => line \notin msk
    /\ pc \in {"load", "store"} /\ line \in msk => Vector[line] \notin isr
    /\ pc \in {"load2", "store2"} \cup EnableSteps /\ line \notin msk => Vector[line] \notin isr
    /\ pc = "wait" => fi

\* What a store writes back was set when it was loaded, and still is.
LoadedInv ==
    /\ loaded # {} => pc \in {"store", "store2", "store3"}
    /\ 14 \in loaded => line \in remote_irr
    /\ 17 \in loaded => line \in pnd
    /\ pc \in {"store", "store2", "store3"} /\ ~SplitWrite =>
          (line \in remote_irr => 14 \in loaded) /\ (line \in pnd => 17 \in loaded)

\* A vector's pin is its line.
PinInv == \A v \in LineVectors : pin[v] # NoIrq => Vector[pin[v]] = v

\* A level triggered device is in one place at a time: its interrupt is marked pending, is
\* requested, is claimed, in service or ending.
Place(i) ==
    /\ InFlight(i) \/ Ending(i) \/ i \in pnd => i \in hwirq_mask
    /\ i \in pnd => ~InFlight(i) /\ ~Ending(i)
    /\ Vector[i] \in isr \/ Ending(i) \/ (pc = "service" /\ vec = Vector[i]) => Vector[i] \notin irr
    /\ Ending(i) => ~InFlight(i)

OnePlace == \A i \in Level \cap Hardware : Place(i)

\* The inductive invariant.
ApicInv ==
    /\ TypeOK /\ NestedService /\ StepsInv /\ LoadedInv /\ PinInv /\ OnePlace
    /\ ~SplitWrite => DeviceRemembered

\* Interrupts with a higher priority come without end.
Starved(v) == \E w \in Vectors \ {TimerVector} : w > v /\ []<>(w \in isr)

\* pending_vector returns at once, since irq_vectors is 0, and v is requested.
Overlooked(v) == pc = "poll" /\ v \in irr /\ irq_vectors = {}

\* A level triggered device is unmasked again, or its line masked, unless the wedge overlooks
\* it again and again, after an end of interrupt that cleared its bit (BitsSummarise), or
\* stops in its assertion.
DeviceServed ==
    \A i \in Level \cap Hardware :
        \/ i \in hwirq_mask ~> i \notin hwirq_mask \/ i \in msk
        \/ Starved(Vector[i])
        \/ []<>Overlooked(Vector[i])
        \/ <>(pc = "panic")

\* "We compress pending IRQ vectors in that cluster each bit represents 8 vectors"
\* (cpu.h:513): in guest code the bit of a requested vector is set.
BitsSummarise == pc = "run" => Bits(irr) \subseteq irq_vectors
=============================================================================
