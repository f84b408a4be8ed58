-------------------------- MODULE VMblockServerIrq --------------------------
(***************************************************************************)
(* How the block server learns that there is work.  Every client sets      *)
(* irq_status in the one page the server shares with all of them, and      *)
(* unless irq_pending says that an interrupt is on its way it sends one    *)
(* (L4VMblock_deliver_server_irq).  The server's own L4 thread announces   *)
(* its commands in the same way through server->irq_status and             *)
(* server->irq_pending (L4VM_server_deliver_irq); it runs at a higher      *)
(* priority on the same processor, so for the handler it is one step.      *)
(* Clients run in other VMs, and a step of theirs is one access to a       *)
(* shared word.                                                            *)
(*                                                                         *)
(* Of the ring (VMblockRing) only the number of descriptors in each stage  *)
(* is kept, and the devices stay attached.                                 *)
(***************************************************************************)
EXTENDS Integers

CONSTANTS
    Clients,
    Cnt,        \* IVMblock_descriptor_ring_size
    MaxQueued   \* bound on the segments a client's Linux has queued

ASSUME ServerIrqAssumption == Cnt \in Nat /\ Cnt >= 2 /\ MaxQueued \in Nat

VARIABLES
    queued,         \* client: segments in the elevator
    submitted,      \* client's ring: descriptors the server owns and has not claimed
    busy,           \* client's ring: descriptors claimed and not collected
    req_pc,         \* client: do_request, then deliver_server_irq
    asleep,         \* client: process_request waits for a descriptor
    irq_status, irq_pending,            \* server_info, shared with all clients
    server_status, server_pending,      \* server->irq_status, server->irq_pending
    virq,           \* the server's interrupt is latched
    handler_pc,     \* server: L4VMblock_irq_handler
    events, client_events,              \* server: the handler's copies of the words
    commands,       \* server: commands the server thread has entered
    dispatch_task,  \* server: the work item is queued
    dispatching,    \* server: process_client_io runs
    todo,           \* server: the clients its pass has yet to look at
    more            \* server: the pass has taken a descriptor

ring == <<queued, submitted, busy>>
clientPc == <<req_pc, asleep>>
words == <<irq_status, irq_pending, server_status, server_pending, virq>>
handler == <<handler_pc, events, client_events>>
scan == <<dispatching, todo, more>>
work == <<commands, dispatch_task, scan>>
vars == <<ring, clientPc, words, handler, work>>

Init ==
    /\ queued = [c \in Clients |-> 0]
    /\ submitted = [c \in Clients |-> 0]
    /\ busy = [c \in Clients |-> 0]
    /\ req_pc = [c \in Clients |-> "idle"]
    /\ asleep = [c \in Clients |-> FALSE]
    /\ irq_status = FALSE /\ irq_pending = FALSE
    /\ server_status = FALSE /\ server_pending = FALSE
    /\ virq = FALSE
    /\ handler_pc = "idle" /\ events = FALSE /\ client_events = FALSE
    /\ commands = FALSE /\ dispatch_task = FALSE
    /\ dispatching = FALSE /\ todo = {} /\ more = FALSE

-----------------------------------------------------------------------------
(* A client. *)

\* L4VMblock_ring_available
Available(c) == Cnt - 1 - (submitted[c] + busy[c])

\* Linux queues a segment, under the queue lock.
NewSegment(c) ==
    /\ req_pc[c] # "locked"
    /\ queued[c] < MaxQueued
    /\ queued' = [queued EXCEPT ![c] = @ + 1]
    /\ UNCHANGED <<submitted, busy, clientPc, words, handler, work>>

\* Linux unplugs the queue and calls L4VMblock_do_request with the lock held.
DoRequest(c) ==
    /\ req_pc[c] = "idle" /\ queued[c] > 0
    /\ req_pc' = [req_pc EXCEPT ![c] = "locked"]
    /\ UNCHANGED <<ring, asleep, words, handler, work>>

\* process_request puts the next segment.
FillDescriptor(c) ==
    /\ req_pc[c] = "locked" /\ queued[c] > 0 /\ Available(c) > 0
    /\ queued' = [queued EXCEPT ![c] = @ - 1]
    /\ submitted' = [submitted EXCEPT ![c] = @ + 1]
    /\ UNCHANGED <<busy, clientPc, words, handler, work>>

\* The queue is empty, or the ring is full: drop the lock and wake the server.
WakeServer(c) ==
    /\ req_pc[c] = "locked" /\ (queued[c] = 0 \/ Available(c) = 0)
    /\ req_pc' = [req_pc EXCEPT ![c] = "status"]
    /\ asleep' = [asleep EXCEPT ![c] = queued[c] # 0]
    /\ UNCHANGED <<ring, words, handler, work>>

Delivered(c) == IF asleep[c] THEN "wait" ELSE "idle"

\* SetStatus that leaves the status alone while an interrupt is pending
SetStatusIfQuiet(c) ==
    /\ req_pc[c] = "status"
    /\ req_pc' = [req_pc EXCEPT ![c] = "test"]
    /\ irq_status' = (irq_status \/ ~irq_pending)
    /\ UNCHANGED <<ring, asleep, irq_pending, server_status, server_pending, virq, handler, work>>

\* L4VMblock_deliver_server_irq: set the status ...
SetStatus(c) ==
    /\ req_pc[c] = "status"
    /\ req_pc' = [req_pc EXCEPT ![c] = "test"]
    /\ irq_status' = TRUE
    /\ UNCHANGED <<ring, asleep, irq_pending, server_status, server_pending, virq, handler, work>>

\* ... return if an interrupt is pending ...
TestPending(c) ==
    /\ req_pc[c] = "test"
    /\ req_pc' = [req_pc EXCEPT ![c] = IF irq_pending THEN Delivered(c) ELSE "mark"]
    /\ UNCHANGED <<ring, asleep, words, handler, work>>

\* ... else say that one is ...
MarkPending(c) ==
    /\ req_pc[c] = "mark"
    /\ req_pc' = [req_pc EXCEPT ![c] = "send"]
    /\ irq_pending' = TRUE
    /\ UNCHANGED <<ring, asleep, irq_status, server_status, server_pending, virq, handler, work>>

\* ... and send it.
SendIrq(c) ==
    /\ req_pc[c] = "send"
    /\ req_pc' = [req_pc EXCEPT ![c] = Delivered(c)]
    /\ virq' = TRUE
    /\ UNCHANGED <<ring, asleep, irq_status, irq_pending, server_status, server_pending, handler, work>>

\* The disk and finish_transfers free a descriptor (VMblockClientIrq).
Collect(c) ==
    /\ busy[c] > 0
    /\ busy' = [busy EXCEPT ![c] = @ - 1]
    /\ UNCHANGED <<queued, submitted, clientPc, words, handler, work>>

\* wait_event(client->ring_wait): process_request goes on with a free descriptor.
RingWoken(c) ==
    /\ req_pc[c] = "wait" /\ Available(c) > 0
    /\ req_pc' = [req_pc EXCEPT ![c] = "locked"]
    /\ asleep' = [asleep EXCEPT ![c] = FALSE]
    /\ UNCHANGED <<ring, words, handler, work>>

-----------------------------------------------------------------------------
(* The server. *)

\* Command that looks at the clients' pending flag
CommandWrongFlag ==
    /\ commands' = TRUE
    /\ server_status' = TRUE
    /\ server_pending' = TRUE
    /\ virq' = (virq \/ ~irq_pending)
    /\ UNCHANGED <<ring, clientPc, irq_status, irq_pending, handler, dispatch_task, scan>>

\* The server thread enters a command and calls L4VM_server_deliver_irq.
Command ==
    /\ commands' = TRUE
    /\ server_status' = TRUE
    /\ server_pending' = TRUE
    /\ virq' = (virq \/ ~server_pending)
    /\ UNCHANGED <<ring, clientPc, irq_status, irq_pending, handler, dispatch_task, scan>>

\* The wedge delivers the interrupt: L4VMblock_irq_handler starts.
Irq ==
    /\ handler_pc = "idle" /\ virq
    /\ handler_pc' = "reset"
    /\ virq' = FALSE
    /\ UNCHANGED <<ring, clientPc, irq_status, irq_pending, server_status, server_pending, events, client_events,
                   work>>

\* Each round starts with irq_status_reset of the server thread's word ...
ResetServerStatus ==
    /\ handler_pc = "reset" /\ handler_pc' = "resetClient"
    /\ events' = server_status
    /\ server_status' = FALSE
    /\ UNCHANGED <<ring, clientPc, irq_status, irq_pending, server_pending, virq, client_events, work>>

\* ResetClientStatus that serves the clients only when the server thread has nothing
ResetClientStatusLast ==
    /\ handler_pc = "resetClient"
    /\ client_events' = (irq_status /\ ~events)
    /\ irq_status' = (irq_status /\ events)
    /\ handler_pc' = IF events \/ irq_status THEN "hold" ELSE "idle"
    /\ UNCHANGED <<ring, clientPc, irq_pending, server_status, server_pending, virq, events, work>>

\* ... and of the clients' word; without events the handler returns.
ResetClientStatus ==
    /\ handler_pc = "resetClient"
    /\ client_events' = irq_status
    /\ irq_status' = FALSE
    /\ handler_pc' = IF events \/ irq_status THEN "hold" ELSE "idle"
    /\ UNCHANGED <<ring, clientPc, irq_pending, server_status, server_pending, virq, events, work>>

\* No interrupts while events are handled ...
HoldServerPending ==
    /\ handler_pc = "hold" /\ handler_pc' = "holdClient"
    /\ server_pending' = TRUE
    /\ UNCHANGED <<ring, clientPc, irq_status, irq_pending, server_status, virq, events, client_events,
                   work>>

HoldClientPending ==
    /\ handler_pc = "holdClient" /\ handler_pc' = "handle"
    /\ irq_pending' = TRUE
    /\ UNCHANGED <<ring, clientPc, irq_status, server_status, server_pending, virq, events, client_events,
                   work>>

\* HandleEvents with the two words mixed up
HandleEventsSwapped ==
    /\ handler_pc = "handle" /\ handler_pc' = "enable"
    /\ dispatch_task' = (dispatch_task \/ client_events)
    /\ commands' = (commands /\ ~client_events)
    /\ UNCHANGED <<ring, clientPc, words, events, client_events, scan>>

\* ... schedule_task(dispatch_task), and the command rings ...
HandleEvents ==
    /\ handler_pc = "handle" /\ handler_pc' = "enable"
    /\ dispatch_task' = (dispatch_task \/ client_events)
    /\ commands' = (commands /\ ~events)
    /\ UNCHANGED <<ring, clientPc, words, events, client_events, scan>>

\* ... and they are enabled again for the next round.
EnableServerIrq ==
    /\ handler_pc = "enable" /\ handler_pc' = "enableClient"
    /\ server_pending' = FALSE
    /\ UNCHANGED <<ring, clientPc, irq_status, irq_pending, server_status, virq, events, client_events,
                   work>>

EnableClientIrq ==
    /\ handler_pc = "enableClient" /\ handler_pc' = "reset"
    /\ irq_pending' = FALSE
    /\ UNCHANGED <<ring, clientPc, irq_status, server_status, server_pending, virq, events, client_events,
                   work>>

\* The kernel takes the work item off its list and calls L4VMblock_dispatch_handler.
RunDispatch ==
    /\ dispatch_task /\ ~dispatching
    /\ dispatch_task' = FALSE
    /\ dispatching' = TRUE /\ todo' = Clients /\ more' = FALSE
    /\ UNCHANGED <<ring, clientPc, words, handler, commands>>

\* process_io_queue takes a client's next descriptor, if there is one.
ProcessIoQueue(c) ==
    /\ dispatching /\ c \in todo
    /\ todo' = todo \ {c}
    /\ \/ /\ submitted[c] > 0
          /\ submitted' = [submitted EXCEPT ![c] = @ - 1]
          /\ busy' = [busy EXCEPT ![c] = @ + 1]
          /\ more' = TRUE
       \/ submitted[c] = 0 /\ UNCHANGED <<submitted, busy, more>>
    /\ UNCHANGED <<queued, clientPc, words, handler, commands, dispatch_task, dispatching>>

\* process_client_io returns after a pass that found nothing.  A client it has passed
\* may have submitted since.
EndPass ==
    /\ dispatching /\ todo = {}
    /\ dispatching' = more /\ more' = FALSE
    /\ todo' = IF more THEN Clients ELSE {}
    /\ UNCHANGED <<ring, clientPc, words, handler, commands, dispatch_task>>

-----------------------------------------------------------------------------
ClientStep(c) ==
    \/ DoRequest(c) \/ FillDescriptor(c) \/ WakeServer(c) \/ SetStatus(c) \/ TestPending(c)
    \/ MarkPending(c) \/ SendIrq(c) \/ RingWoken(c)
Handler ==
    \/ Irq \/ ResetServerStatus \/ ResetClientStatus \/ HoldServerPending \/ HoldClientPending
    \/ HandleEvents \/ EnableServerIrq \/ EnableClientIrq
Dispatch == RunDispatch \/ EndPass \/ \E c \in Clients : ProcessIoQueue(c)

Next ==
    \/ \E c \in Clients : NewSegment(c) \/ ClientStep(c) \/ Collect(c)
    \/ Command \/ Handler \/ Dispatch

\* The client VMs run, the wedge delivers interrupts, the server's kernel runs its work
\* items, and the disk and the client free descriptors.
Fairness ==
    /\ \A c \in Clients : WF_vars(ClientStep(c)) /\ WF_vars(Collect(c))
    /\ WF_vars(Handler) /\ WF_vars(Dispatch)

Spec == Init /\ [][Next]_vars /\ Fairness

-----------------------------------------------------------------------------
(* Properties. *)

\* The types of the variables; a ring never holds more than Cnt - 1 descriptors.
TypeOK ==
    /\ queued \in [Clients -> 0 .. MaxQueued]
    /\ submitted \in [Clients -> Nat] /\ busy \in [Clients -> Nat]
    /\ \A c \in Clients : Available(c) \in Nat
    /\ req_pc \in [Clients -> {"idle", "locked", "status", "test", "mark", "send", "wait"}]
    /\ asleep \in [Clients -> BOOLEAN]
    /\ irq_status \in BOOLEAN /\ irq_pending \in BOOLEAN
    /\ server_status \in BOOLEAN /\ server_pending \in BOOLEAN /\ virq \in BOOLEAN
    /\ handler_pc \in {"idle", "reset", "resetClient", "hold", "holdClient", "handle", "enable",
                       "enableClient"}
    /\ events \in BOOLEAN /\ client_events \in BOOLEAN
    /\ commands \in BOOLEAN /\ dispatch_task \in BOOLEAN
    /\ dispatching \in BOOLEAN /\ todo \subseteq Clients /\ more \in BOOLEAN

Handling == handler_pc \in {"hold", "holdClient", "handle"}

\* No submission is forgotten: a descriptor the server has not looked at has its client
\* still to set irq_status, irq_status set, the handler between reading the status and
\* scheduling the task, the task scheduled, or its pass still to come to the client.
SubmissionsAnnounced ==
    \A c \in Clients : submitted[c] > 0 =>
        \/ req_pc[c] \in {"locked", "status"}
        \/ irq_status
        \/ Handling /\ client_events
        \/ dispatch_task
        \/ dispatching /\ (more \/ c \in todo)

\* The server thread never relies on an interrupt that will not come: an event it left
\* in server->irq_status has the interrupt latched or the handler still to look again.
CommandsWakeHandler == server_status => virq \/ handler_pc # "idle"

\* Behind it: a server->irq_pending that is set has its event still to be read, with
\* the interrupt latched or a new round before it, or in the handler's hands.
ServerPendingJustified ==
    /\ server_pending =>
        \/ server_status /\ (virq \/ handler_pc = "reset")
        \/ handler_pc \in {"resetClient", "hold"} /\ events
        \/ handler_pc \in {"holdClient", "handle", "enable"}
    /\ server_status /\ handler_pc = "resetClient" => server_pending

\* Every command is handled (the comment at server.c:880 on the server thread's word).
CommandsHandled == commands ~> ~commands

\* A client's event is read as long as the server thread has commands: their handling
\* enables the clients' interrupt again.  Without commands it may not be: a client that
\* tests irq_pending before, and sets it after, a round of the handler leaves it set with
\* no event to clear it, and the next event sends no interrupt.
NextCommandRepairs == ([]<><<Command>>_vars) => (irq_status ~> ~irq_status)
=============================================================================
