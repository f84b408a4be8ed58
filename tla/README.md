# Afterburner: a TLA+ model

Afterburner runs Linux as a guest on an L4 microkernel. The *wedge*
(`src/afterburn-wedge`) is linked with each guest kernel and emulates its
processor, interrupt controllers and devices on L4 threads and messages. Device
drivers run in a Linux of their own and serve other guests through *driver
reuse* modules (`src/l4ka-driver-reuse`), which share rings of descriptors with
their clients. A *resource monitor* (`src/l4ka-resourcemon`) starts the virtual
machines. This directory models the parts in which several threads or virtual
machines work on the same words of memory, or in which an error path must undo
exactly what was done, and one pure walk over memory.

## 1. The parts

| part | state | what makes it hard | module |
|---|---|---|---|
| block device, data path (`kernel/block/{client,server}.c`) | descriptor ring with `server_owned`, the client's shadow ring, the server's bio ring, two pairs of ring indices, the open count | two VMs without a lock; the disk completes in any order and the server then swaps descriptors, bios and back pointers | `VMblockRing`, `BlockService` |
| block device, notification (same files) | `irq_status`, `irq_pending` in each direction | single loads and stores of shared words; interrupts that merge | `VMblockServerIrq`, `VMblockClientIrq` |
| block device, control (same files) | tables of clients and connections, opens and claims of the disks | error paths that undo part of the work; transfers that run on while handlers sleep | `BlockControl` |
| command ring (`kernel/glue/vmserver.c`) | `cmds`, `next_free`, `next_cmd`, `wake_server` | a server thread that waits for the Linux it preempts; a full ring | `CmdRing` |
| interrupt path (`device/i8259a.*`, `ia32/intlogic.h`, `l4ka/common/irq.cc`, `l4ka/vm/backend.cc`, `ia32/cpu.cc`) | request, in-service and mask registers, `irq_vectors`, `hwirq_mask`, `hwirq_latch`, the interrupt flag, `dispatch_ipc` | an IRQ thread that preempts the main thread anywhere and takes back what it cannot deliver | `IrqPath` |
| local APIC and I/O APIC (`device/lapic.*`, `device/i82093.*`) | request, in-service and trigger-mode registers, redirection entries, pins, `irq_vectors` | the same two threads; bit fields written by one and atomic bits by the other | `Apic` |
| user memory access (`l4ka/common/backend.cc`) | a walk over the user's pages | page ends, counts, faults in mid-range | `UserAccess` |
| virtual CPU, tasks and threads; network device; Xen back-end; resource monitor; other devices, PCI, energy accounting, native network driver, binary rewriting, assembler parser, glue | | see `PROJECT.json` and section 7 | none |

The hazards of these parts, each at its line and with the properties that would
notice it, are the `hazards` of `PROJECT.json`; its `map` gives the lines each
definition stands for.

## 2. Modules

Variables have the names of the fields they model, and actions are named after
the function or the step of it. A `pc` or `*_pc` variable is the place of a
thread in its function. A step is what a thread does between two accesses that
another thread can see; where the code gives one thread a higher priority on the
same processor (the server thread over its Linux, the IRQ thread over the main
thread) a whole turn of it is one step. An operator whose comment describes a
definition "that" or "with" something wrong is not used by the specifications: it
is a plausible mistake that the properties must reject.

### The block device

**`VMblockRing`** has one client with one device. A segment stands for one
`bio_vec` and one sector. The client takes a request (`NextRequest`), puts its
segments (`PutSegment`, which waits while `L4VMblock_ring_available` is 0) and
collects (`FinishTransfer`). The server claims a descriptor under the ring lock
(`ClaimDesc`), makes and submits the bio without it (`StartIo`), and in `EndIo`
swaps the finished descriptor with the oldest one of its window, moving the bio
and its `bi_private` back pointer, before it gives it back. A failing bio sets
`server_err`; one that ends in parts comes through `EndIoPartial` first.
**`BlockService`** knows none of this: a request is active, each of its bios is
performed once and ends with its own outcome, and the request ends with its last
bio. `VMblockRing` implements it.

**`VMblockServerIrq`** and **`VMblockClientIrq`** keep of the ring only how many
descriptors are in which stage, and model each access to `irq_status` and
`irq_pending`. The server's dispatcher looks at the clients one after the other
and returns after a pass in which it found nothing (`ProcessIoQueue`, `EndPass`),
so a client may submit behind its back.

**`CmdRing`** models the clients' calls, their place in the ring, and the wait of
the server thread when the ring is full.

**`BlockControl`** models what those calls do: register, probe, attach, detach and
reattach, cut where a handler sleeps (in the opening and closing of a device, in
`set_blocksize`, in the allocation of a page), with every error path; the load,
the opens, closes and the unload of the client driver; the mounts of the server's
own Linux; and transfers, one descriptor for each client and device, as far as
they look up connections and fill the ring. The two faults the code has when a
registration fails half way (a NULL page that the tasklet or the dispatcher
follows) end a behaviour in `oops`, and nothing is asked of it afterwards.

The modules do not share variables. `VMblockRing` lets the handlers of both sides
run at any time, which includes every schedule that the notification modules
produce; those keep only the counts of the ring. `CmdRing` announces its bottom
half by one bit, `irq`, whose delivery is `CommandsHandled` of `VMblockServerIrq`.
`BlockControl` takes the calls as an ordered queue, which `CmdRing` shows for the
calls that were accepted.

### The interrupt controllers

**`IrqPath`** has one virtual processor with both 8259As. `Round` is one turn of
`irq_handler_thread`: a device's message or the timer raises lines, and if the
guest has interrupts enabled a vector is claimed and handed to the main thread, by
a message if that waits in its dispatch IPC, by a change of its registers if it
runs guest code. If it turns out to be in the wedge, or a user message ended its
wait first, the vector is raised again. The main thread's `pending_vector` is cut
at each access to `irq_request` and `irq_vectors` (`Poll` to `ClearLast`), and its
entry into a wait at each of the three flags it sets (`EnterDispatch`,
`EnableInterrupts`, `EnterWait`), because the IRQ thread can run between any two.
The guest masks, ends, unmasks and returns as Linux' 8259A code does; the port
writes it makes are the wedge's (`Eoi`, `WriteMask`, `EnableDevice`,
`UnmaskDevice`). `SplitClear` says how line 72 of `i8259a.cc`, an `&=` on a
volatile word, is compiled.

**`Apic`** has the same two threads with the APICs instead. The IRQ thread raises
lines through the I/O APIC, which masks a level-triggered device, remembers it in
bit 14 (`remote_irr`), or marks it in bit 17 (`pnd`) while the line is masked. The
main thread claims a vector (`Poll`, `Look`, `Claim`, `Service`), ends it in steps
(`Eoi` to `RaiseUnmasked`) and writes redirection entries field by field
(`StoreEntry` and the steps after it). Handlers nest by priority. `SplitWrite` says
whether the IRQ thread can come between the load and the store of such a field; in
the code it can. An end of interrupt whose vector has no recorded line stops in the
assertion at `lapic.cc:281`: the model has the stop (`pc = "panic"`) and its runs
reach it, after an interrupt that was marked pending and raised again.

### User memory

**`UserAccess`** models the hooks by which the guest kernel copies, clears,
measures and scans user memory. Bytes are named by where they were when the call
began, so that the properties compare the outcome with what a copy should be. The
guest handles a fault by any change of its page table. What a helper finds beyond
the end of its page is the byte of some other page. `n =- search_size`
(`backend.cc:1473`) is modelled as it is compiled: the rest of the count becomes
the negated size, modulo the word.

## 3. Runs

Run a configuration with `tlc -config <cfg> <module>`. Sizes are distinct states.

| run | instance | states | shows |
|---|---|---|---|
| `ring` | 3 slots, requests of 2 and 1 segments, 2 opens | 337,953 | the code's assertions; bios and descriptors agree after every swap; what is handed back was performed; `RingInv`; the ring implements `BlockService` |
| `server_irq` | 1 client, 2 slots, 2 queued segments | 215,094 | no submission loses its announcement, every command is handled, and a client that fell silent is heard while commands keep coming |
| `client_irq` | 4 slots | 1,590 | completions stay announced; a notification is heard |
| `cmd_ring` | 3 callers, 2 commands | 6,286 | one command for each accepted call, handled in order and answered; the sleeping server thread is woken |
| `cmd_ring_lost` | the same | violated | finding 1 |
| `irq` | lines 0, 10, 13; claim in one instruction | 81,482 | no interrupt is lost; the assertions; `IrqInv`; interrupts are handled and devices acknowledged, on the slave unless its summary bit stays clear |
| `irq_lost` | lines 0, 5; claim as load and store | violated | finding 2 |
| `apic` | a level-triggered device and a virtual line in one bit of `irq_vectors`, the timer, one interrupt to itself | 150,780 | service nests by priority; a device is not unmasked too early, nor forgotten; `ApicInv`; devices are served, with the exceptions below |
| `apic_bits` | three lines, vectors eight apart | violated | finding 3 |
| `apic_split` | as `apic`, stores of redirection entries interrupted | violated | finding 4 |
| `control` | 2 clients, 2 disks, 2 slots of each table, a ring of 1 | 733,246 | opens and claims match connections on every path; client and server agree on what is attached; slots are distinct; transfers keep their connection; the ring is not overfilled; `ControlInv` |
| `user_access` | 3 pages of 4 bytes, counts to 9 | 130,032 | helpers stay in their page; results are exact; pages are written only when they are writable |

**What the liveness properties except.** They say what the code guarantees, with
the exceptions written into the formula:

- `Delivered` and `Acknowledged` (`irq`). `pending_vector` clears a controller's
  bit of `irq_vectors` after a test that a raise in between has made stale
  (`i8259a.cc:82`). On the master the next tick sets it again, and the properties
  hold outright. On the slave only another line of the slave does, so a request
  may wait with its bit clear for ever: the properties allow exactly that, and
  the run reaches it. A device may be starved by one of higher priority.
- `DeviceServed` (`apic`). A device may be overlooked as long as each look finds
  `irq_vectors` 0 (finding 3), starved by higher vectors, or left by the stop at
  `lapic.cc:281`.
- `NextCommandRepairs` (`server_irq`). A client tests and sets `irq_pending` in
  two steps (`client.c:278`, `:281`). If the server's handler completes a round in
  between, the client's interrupt finds no event, and a round without events
  returns without clearing the flag (`server.c:914`): the client's next event
  sends no interrupt. The property assumes that the server thread has commands
  again and again, each of which causes a round that clears the flag. Without
  commands, an event set by a client may stay unread.
- `NotificationHeard` (`client_irq`). The client's handler can miss a completion
  announced between its last look at the status and its last store to the flag
  (`client.c:547`). The property is about the next notification, which is heard
  and collects what was missed; none says that there is one.
- `AcceptedAnswered` (`cmd_ring`) is about calls that were accepted (finding 1).

**Bounds.** Three slots and three segments are the least in which the ring fills
(one slot always stays empty), wraps round, and has two bios to complete out of
order while a third segment waits; two opens are the least for a close that must
not detach. Two slots make the client of `VMblockServerIrq` sleep for a
descriptor, two queued segments let it submit while an earlier announcement is
under way. It has one client: with two, liveness takes too long, and the theorems
cover any number. Three callers and two commands fill the command ring and hold
one call in `cmd_allocate` or let one be swallowed. Lines 0, 10 and 13 are the
timer and two devices on the slave, which share its summary bit; `irq_lost` has a
device on the master. An end of interrupt acknowledges a slave's line by its number
on the slave (`i8259a.cc:238`), so 13 stands for 5; the run has no such pair, and
`InterruptsKept` is proved with it. The vectors of `apic` share a bit, and 251 is
beyond the last one `irq_vectors` has a bit for. In `control` the first client has
both disks and the second one of them, so that each can be held by two clients or
one; the tables are full with two, and `d1` is also mounted. Three pages of
four bytes have a first, a middle and a last page with every offset and count
around their ends; `WORD` is large enough that only the negated size wraps.
`MaxOpens`, `MaxQueued`, `MaxOpen` and `MaxCount` bound what the code does not.
There is no symmetry reduction.

**Deadlock** is checked except in `client_irq`, where the system may really stop:
a client that missed an announcement, with a full ring, has nothing to do.

**Fairness.** `VMblockRing`, `BlockControl` and `UserAccess` have none: only safety
is asked of them. Elsewhere it is assumed that a thread that can run does, that a
latched interrupt is delivered, that Linux runs its scheduled tasklets and work
items, and that the disk completes each bio: weak fairness, one condition for each
thread, since no other thread can disable its next step for good. `CmdRing` has
strong fairness for `Receive`, because the server thread may be elsewhere infinitely
often and L4 does not starve a sender, and weak fairness for `Swallow`, the same
receive in the wait for a command. `IrqPath` and `Apic` assume strong fairness of
the environment: the timer goes off (`TimePasses`), the IRQ thread has a round while
the main thread can be reached (`Tick`, or `Round` in guest code with interrupts
enabled: the clock is not in step with the guest), and a guest that disables
interrupts enables them again, ends the interrupts it handles and returns (`Sti`,
`Eoi`, `Cli` in a handler, `Iret`). These are assumptions on the guest and its
clock, not something the wedge enforces. Nothing is assumed of devices, new
requests, calls, commands, opens or closes.

## 4. Findings

1. `cmd_ring_lost`. `L4VM_server_cmd_allocate` waits for a free command with an
   open receive (`vmserver.c:126`) and drops what it receives. If that is a
   client's call, the client waits for ever. The ring has eight commands, so it
   takes eight in the ring and two more calls: a ninth that waits for a command
   and one that arrives during that wait.
2. `irq_lost`. The claim at `i8259a.cc:72` is a plain `&=` on a volatile word to
   which `raise_irq` sets bits atomically. If it is compiled to a load and a
   store, a line raised in between is lost. Whether a build does that is up to its
   compiler: `irq` shows that one instruction is enough.
3. `apic_bits`. An end of interrupt clears the bit of `irq_vectors` that its vector
   shares with seven others after a look at vectors in service, not at vectors
   requested (`lapic.cc:269`): a request may be left without its bit, and
   `pending_vector` returns at once when `irq_vectors` is 0. `cpu.h:513` says each
   bit represents eight pending vectors.
4. `apic_split`. The main thread writes the fields of a redirection entry with a
   load and a store (`i82093.cc:218`, `:399-405`), in a word in which the IRQ thread
   sets bits 14 and 17 atomically. A raise in between is undone, and the device it
   came from is not unmasked again. `apic` shows that nothing is forgotten if the two
   accesses are not interrupted.

## 5. Proofs

`tlapm <module>` checks them. They hold for every value of the constants that
satisfies the named assumptions of the modules: a ring of at least two slots,
finitely many segments and no request without one (`CntAssumption`,
`SegsAssumption`); a command ring of at least one command (`RingAssumption` in the
proof, `LenAssumption` in the module); interrupt lines of 0 to 15 with the timer's
among them, which the wedge keeps for itself (`IrqsAssumption`); vectors from 32 to
255 that differ from line to line and from those of the timer and the interrupts to
itself (`VectorsAssumption`); finitely many disks (`ControlAssumption`); null values
that are not values. Every proof has the same shape: an inductive invariant, one
step for each action, and the properties as its consequences.

- **Ring** (`VMblockRing_proof`, on the ring arithmetic of `VMblockRing_lemmas`, with
  the client's steps in `VMblockRing_client`). The properties are not inductive:
  whether a swap is right depends on where the four indices are and on what
  descriptors, bios and shadows say of the same slot. `RingInv` states this: the
  indices are in ring order (`IndicesOrdered`) and say who owns each slot
  (`Ownership`); a slot's descriptor, bio and shadow are of one segment
  (`Correspondence`, `ShadowsPermuted`); what is recorded of a segment is what
  happened to it (`Outcomes`); requests are split into segments still to submit,
  outstanding and ended (`ToSubmit`, `Counted`); I/O implies a connection
  (`Attached`). From `RingInvariant` follow `AssertionsHold`, `ReorderingSound`,
  `CompletionCorrect`, `ShadowsSound`, `AccountingCorrect` and `ConnectionHeld`.
  `ImplementsService` is the refinement: `Enqueue` is `Submit`, `EndIo` and
  `EndIoPartial` are `Perform`, `FinishTransfer` is `End`, a refused request is
  `Refuse`, every other step a stutter.
- **Around the server** (`VMblockServer_proof`). `NoSubmissionForgotten`: whoever
  holds the announcement of a submission hands it on, for any number of clients;
  the dispatcher's pass is part of it. `CommandsReachHandler` needs
  `ServerPendingJustified`: why the flag is set at each place of the handler.
  `NoCompletionForgotten` and `ClientNeverDeaf` are the other direction, inductive
  with the types. For the command ring, `CallsAccounted` needs to know which command
  has been answered and not yet released, and that the dispatcher's command stays in
  its slot; `SleeperWoken` is about the order of `wake_server` and the last look;
  `HandledInOrder` needs that the commands are the slots from `next_cmd` to
  `next_free` without a gap (`Consecutive`), also when the slot just released is taken
  before the dispatcher moves on.
- **Interrupt path** (`IrqPath_proof`). `NoInterruptLost` needs `HandlerInv`: which
  line the main thread works on at each place, that it runs one handler at a time, and
  that a device waits exactly for what `hwirq_mask` records. `InterruptsKept` has the
  hypothesis `~SplitClear`, without which `irq_lost` refutes it; `PathAssertions` has
  none.
- **APICs** (`Apic_proof`). `ApicInv` adds to the properties what each step of the main
  thread works on (`StepsInv`), what a store writes back (`LoadedInv`), that a vector's
  pin is its line (`PinInv`), and that a level-triggered device is in one place at a
  time: marked, requested, claimed, in service or ending (`OnePlace`), from which
  `DeviceHeldAlways` follows. `NoDeviceForgotten` has the hypothesis `~SplitWrite`,
  without which `apic_split` refutes it.
- **Control** (`BlockControl_proof`, with the lemmas on the tables, queues and counts
  in `BlockControl_lemmas`). `ControlInv` adds to the six properties that the queue
  holds the calls without an answer (`CallsQueued`), what each place of a handler and
  of a client means (`HandlerAt`, `ClientAt`), which slots have a page (`SlotsAt`),
  and that connections and transfers are of devices that are open (`AttachedAt`,
  `TransfersAt`). `DeviceRefs` is about cardinalities: each handler step adds or
  removes one connection of one device.

Only model-checked: all liveness (`CommandsHandled`, `NextCommandRepairs`,
`NotificationHeard`, `AcceptedAnswered`, `Delivered`, `Acknowledged`,
`DeviceServed`), which is beyond the prover, and `UserAccess`, whose walks are
checked against their reference over bounded ranges.

## 6. What the models leave out of the parts they model

- Ring: the optical-drive probe and the memory windows of a client. Two devices of
  one client share its ring under separate queue locks: `BlockControl` has that,
  `VMblockRing` one device.
- Notification: the path of `L4VMblock_deliver_client_irq` for a send that fails
  (`server.c:118-122`). The send has no timeout, so this is a client that is gone.
- Control: a guest with more than one processor, in which two queues could go on at
  once after a wait for the ring; `RingNotOverfilled` is about one.
- Interrupt path: initialisation command words, register reads, automatic end of
  interrupt, the PIT's registers, and virtual interrupts that arrive in the main
  thread's own waits (`msg_label_virq`).
- APICs: other virtual processors (interrupts and startup messages to them, a line
  that moves to another), virtual wire mode, delivery modes other than fixed, and the
  waits for a user's message, which `IrqPath` has. What a vector from 240 on does to
  the word after `irq_vectors` (`cpu.h:577`) is not modelled; that its bit is lost is.
- User memory: `get_user` and `put_user` of a size they do not support, which is an
  assertion. A word that crosses a page end is modelled as the code does it, with the
  first page's mapping for all of it, and no property excludes it, since nothing in the
  code ensures that words are aligned. A string longer than its count is searched past
  the count; a page missing there gives 0, which `StrnlenFound` allows.

## 7. Not modelled

The network device (it shares the notification protocol and has rings of its own), the
virtual CPU with its tables of tasks and threads, the resource monitor, the Xen
back-end and the other devices are state machines of the same kind and would be the
next modules. Binary rewriting, the assembler parser and the energy policies are
translations and arithmetic without shared state and stay out.
