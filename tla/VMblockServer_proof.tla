------------------------ MODULE VMblockServer_proof ------------------------
(***************************************************************************)
(* Around the block server, for every set of clients and every ring size.  *)
(* VMblockServerIrq: no submission is forgotten, and the server thread's   *)
(* commands always reach the handler.  VMblockClientIrq, the other         *)
(* direction, with a client's own interrupt and handler: no completion is  *)
(* forgotten, and the client is never deaf.  CmdRing, through which the    *)
(* server thread passes calls on: each has one command until it is         *)
(* answered, and a thread that waits for a free command is woken.          *)
(***************************************************************************)
EXTENDS VMblockServerIrq, TLAPS

(* The types hold throughout, and with them the bound on the rings. *)
LEMMA TypeStep == TypeOK /\ [Next]_vars => TypeOK'
<1> SUFFICES ASSUME TypeOK, [Next]_vars PROVE TypeOK'
  OBVIOUS
<1> USE ServerIrqAssumption DEF TypeOK, ring, clientPc, words, handler, work, scan, Available
<1>1. ASSUME NEW c \in Clients, NewSegment(c) PROVE TypeOK'
  BY <1>1 DEF NewSegment
<1>2. ASSUME NEW c \in Clients, DoRequest(c) PROVE TypeOK'
  BY <1>2 DEF DoRequest
<1>3. ASSUME NEW c \in Clients, FillDescriptor(c) PROVE TypeOK'
  BY <1>3 DEF FillDescriptor
<1>4. ASSUME NEW c \in Clients, WakeServer(c) PROVE TypeOK'
  BY <1>4 DEF WakeServer
<1>5. ASSUME NEW c \in Clients, SetStatus(c) PROVE TypeOK'
  BY <1>5 DEF SetStatus
<1>6. ASSUME NEW c \in Clients, TestPending(c) PROVE TypeOK'
  BY <1>6 DEF TestPending, Delivered
<1>7. ASSUME NEW c \in Clients, MarkPending(c) PROVE TypeOK'
  BY <1>7 DEF MarkPending
<1>8. ASSUME NEW c \in Clients, SendIrq(c) PROVE TypeOK'
  BY <1>8 DEF SendIrq, Delivered
<1>9. ASSUME NEW c \in Clients, Collect(c) PROVE TypeOK'
  BY <1>9 DEF Collect
<1>10. ASSUME NEW c \in Clients, RingWoken(c) PROVE TypeOK'
  BY <1>10 DEF RingWoken
<1>11. CASE Command
  BY <1>11 DEF Command
<1>12. CASE Handler
  <2>1. UNCHANGED <<queued, submitted, busy, req_pc, asleep>>
    BY <1>12, Zenon DEF Handler, Irq, ResetServerStatus, ResetClientStatus, HoldServerPending,
       HoldClientPending, HandleEvents, EnableServerIrq, EnableClientIrq
  <2>2. /\ irq_status' \in BOOLEAN /\ irq_pending' \in BOOLEAN /\ virq' \in BOOLEAN
        /\ server_status' \in BOOLEAN /\ server_pending' \in BOOLEAN
        /\ events' \in BOOLEAN /\ client_events' \in BOOLEAN
        /\ commands' \in BOOLEAN /\ dispatch_task' \in BOOLEAN /\ UNCHANGED <<dispatching, todo, more>>
    <3>1. CASE Irq
      BY <3>1, Zenon DEF Irq
    <3>2. CASE ResetServerStatus
      BY <3>2, Zenon DEF ResetServerStatus
    <3>3. CASE ResetClientStatus
      BY <3>3, Zenon DEF ResetClientStatus
    <3>4. CASE HoldServerPending
      BY <3>4 DEF HoldServerPending
    <3>5. CASE HoldClientPending
      BY <3>5 DEF HoldClientPending
    <3>6. CASE HandleEvents
      BY <3>6 DEF HandleEvents
    <3>7. CASE EnableServerIrq
      BY <3>7, Zenon DEF EnableServerIrq
    <3>8. CASE EnableClientIrq
      BY <3>8, Zenon DEF EnableClientIrq
    <3> QED BY <1>12, <3>1, <3>2, <3>3, <3>4, <3>5, <3>6, <3>7, <3>8, Zenon DEF Handler
  <2>3. handler_pc' \in {"idle", "reset", "resetClient", "hold", "holdClient", "handle", "enable",
                         "enableClient"}
    BY <1>12, Zenon DEF Handler, Irq, ResetServerStatus, ResetClientStatus, HoldServerPending,
       HoldClientPending, HandleEvents, EnableServerIrq, EnableClientIrq
  <2> QED BY <2>1, <2>2, <2>3, Zenon
<1>13. CASE RunDispatch \/ EndPass
  <2>1. UNCHANGED <<queued, submitted, busy, req_pc, asleep, irq_status, irq_pending, server_status,
                    server_pending, virq, handler_pc, events, client_events, commands>>
    BY <1>13, Zenon DEF RunDispatch, EndPass
  <2>2. dispatch_task' \in BOOLEAN /\ dispatching' \in BOOLEAN /\ more' \in BOOLEAN
    BY <1>13, Zenon DEF RunDispatch, EndPass
  <2>3. todo' = Clients \/ todo' = {}
    BY <1>13, Zenon DEF RunDispatch, EndPass
  <2>4. todo' \subseteq Clients
    BY <2>3, Zenon
  <2> QED BY <2>1, <2>2, <2>4, Zenon
<1>14. ASSUME NEW c \in Clients, ProcessIoQueue(c) PROVE TypeOK'
  <2>1. /\ submitted' \in [Clients -> Nat] /\ busy' \in [Clients -> Nat]
        /\ \A k \in Clients : submitted'[k] + busy'[k] = submitted[k] + busy[k]
    BY <1>14 DEF ProcessIoQueue
  <2>2. \A k \in Clients : Available(k)' \in Nat
    BY <2>1
  <2>3. todo' \subseteq Clients /\ more' \in BOOLEAN
    BY <1>14 DEF ProcessIoQueue
  <2>4. UNCHANGED <<queued, req_pc, asleep, irq_status, irq_pending, server_status, server_pending,
                    virq, handler_pc, events, client_events, commands, dispatch_task, dispatching>>
    BY <1>14, Zenon DEF ProcessIoQueue
  <2> QED BY <2>1, <2>2, <2>3, <2>4
<1>15. CASE UNCHANGED vars
  BY <1>15 DEF vars
<1> QED BY <1>1, <1>2, <1>3, <1>4, <1>5, <1>6, <1>7, <1>8, <1>9, <1>10, <1>11, <1>12, <1>13,
           <1>14, <1>15 DEF Next, ClientStep, Dispatch

(* Nobody drops the announcement of a submission. *)
LEMMA AnnouncedStep ==
  ASSUME TypeOK, SubmissionsAnnounced, [Next]_vars PROVE SubmissionsAnnounced'
<1> USE DEF TypeOK, SubmissionsAnnounced, Handling, ring, clientPc, words, handler, work, scan
<1>1. ASSUME NEW c \in Clients, NewSegment(c) \/ DoRequest(c) \/ FillDescriptor(c) \/ WakeServer(c)
      PROVE SubmissionsAnnounced'
  BY <1>1 DEF NewSegment, DoRequest, FillDescriptor, WakeServer
<1>2. ASSUME NEW c \in Clients, SetStatus(c) \/ TestPending(c) \/ MarkPending(c) \/ SendIrq(c)
      PROVE SubmissionsAnnounced'
  BY <1>2, Zenon DEF SetStatus, TestPending, MarkPending, SendIrq
<1>3. ASSUME NEW c \in Clients, Collect(c) \/ RingWoken(c) PROVE SubmissionsAnnounced'
  BY <1>3, Zenon DEF Collect, RingWoken
<1>4. CASE Command
  BY <1>4, Zenon DEF Command
<1>5. CASE Handler
  BY <1>5, Zenon DEF Handler, Irq, ResetServerStatus, ResetClientStatus, HoldServerPending,
     HoldClientPending, HandleEvents, EnableServerIrq, EnableClientIrq
<1>6. CASE RunDispatch \/ EndPass
  BY <1>6 DEF RunDispatch, EndPass
<1>7. ASSUME NEW c \in Clients, ProcessIoQueue(c), NEW d \in Clients, submitted'[d] > 0
      PROVE \/ req_pc'[d] \in {"locked", "status"}
            \/ irq_status'
            \/ (Handling /\ client_events)'
            \/ dispatch_task'
            \/ dispatching' /\ (more' \/ d \in todo')
  <2>1. CASE submitted[c] > 0
    BY <1>7, <2>1 DEF ProcessIoQueue
  <2>2. CASE submitted[c] = 0
    <3>1. d # c /\ submitted[d] > 0
      BY <1>7, <2>2 DEF ProcessIoQueue
    <3>2. /\ req_pc' = req_pc /\ irq_status' = irq_status /\ handler_pc' = handler_pc
          /\ client_events' = client_events /\ dispatch_task' = dispatch_task
          /\ dispatching' = dispatching /\ todo' = todo \ {c}
      BY <1>7, Zenon DEF ProcessIoQueue
    <3>3. more' = more
      BY <1>7, <2>2 DEF ProcessIoQueue
    <3>4. d \in todo => d \in todo'
      BY <3>1, <3>2
    <3>5. \/ req_pc[d] \in {"locked", "status"}
          \/ irq_status
          \/ Handling /\ client_events
          \/ dispatch_task
          \/ dispatching /\ (more \/ d \in todo)
      BY <3>1, Zenon
    <3> HIDE DEF TypeOK, SubmissionsAnnounced
    <3> QED BY <3>2, <3>3, <3>4, <3>5, Zenon
  <2> QED BY <1>7, <2>1, <2>2 DEF ProcessIoQueue
<1>8. CASE UNCHANGED vars
  BY <1>8, Zenon DEF vars
<1>9. ASSUME NEW c \in Clients, ProcessIoQueue(c) PROVE SubmissionsAnnounced'
  BY <1>7, <1>9, Zenon
<1> QED BY <1>1, <1>2, <1>3, <1>4, <1>5, <1>6, <1>8, <1>9, Zenon DEF Next, ClientStep, Dispatch

(* A set server->irq_pending stays justified, and with it every event of the server
   thread. *)
LEMMA PendingStep ==
  ASSUME TypeOK, ServerPendingJustified, CommandsWakeHandler, [Next]_vars
  PROVE  ServerPendingJustified' /\ CommandsWakeHandler'
<1> USE DEF TypeOK, ServerPendingJustified, CommandsWakeHandler, words, handler
<1>1. ASSUME NEW c \in Clients, NewSegment(c) \/ ClientStep(c) \/ Collect(c)
      PROVE ServerPendingJustified' /\ CommandsWakeHandler'
  BY <1>1 DEF NewSegment, ClientStep, Collect, DoRequest, FillDescriptor, WakeServer, SetStatus,
       TestPending, MarkPending, SendIrq, RingWoken
<1>2. CASE Command
  BY <1>2, Zenon DEF Command
<1>3. CASE Handler
  BY <1>3 DEF Handler, Irq, ResetServerStatus, ResetClientStatus, HoldServerPending,
       HoldClientPending, HandleEvents, EnableServerIrq, EnableClientIrq
<1>4. CASE Dispatch
  BY <1>4 DEF Dispatch, RunDispatch, EndPass, ProcessIoQueue
<1>5. CASE UNCHANGED vars
  BY <1>5, Zenon DEF vars
<1> QED BY <1>1, <1>2, <1>3, <1>4, <1>5, Zenon DEF Next

(* The three invariants together. *)
LEMMA AllAlways ==
  Spec => [](TypeOK /\ SubmissionsAnnounced /\ ServerPendingJustified /\ CommandsWakeHandler)
<1>1. Init => TypeOK /\ SubmissionsAnnounced /\ ServerPendingJustified /\ CommandsWakeHandler
  <2> SUFFICES ASSUME Init
               PROVE TypeOK /\ SubmissionsAnnounced /\ ServerPendingJustified /\ CommandsWakeHandler
    OBVIOUS
  <2>1. /\ queued \in [Clients -> 0 .. MaxQueued]
        /\ submitted \in [Clients -> Nat] /\ busy \in [Clients -> Nat]
        /\ \A c \in Clients : Available(c) \in Nat
        /\ req_pc \in [Clients -> {"idle", "locked", "status", "test", "mark", "send", "wait"}]
    BY ServerIrqAssumption DEF Init, Available
  <2>2. /\ irq_status = FALSE /\ irq_pending = FALSE /\ virq = FALSE
        /\ server_status = FALSE /\ server_pending = FALSE /\ handler_pc = "idle"
        /\ events = FALSE /\ client_events = FALSE
        /\ commands = FALSE /\ dispatch_task = FALSE
        /\ dispatching = FALSE /\ todo = {} /\ more = FALSE
        /\ asleep \in [Clients -> BOOLEAN]
    BY Zenon DEF Init
  <2>3. TypeOK /\ ServerPendingJustified /\ CommandsWakeHandler
    BY <2>1, <2>2, Zenon DEF TypeOK, ServerPendingJustified, CommandsWakeHandler
  <2>4. SubmissionsAnnounced
    BY DEF Init, SubmissionsAnnounced
  <2> QED BY <2>3, <2>4, Zenon
<1> QED BY <1>1, TypeStep, AnnouncedStep, PendingStep, PTL DEF Spec

(* Whatever a client put on its ring, its announcement is not lost on the way to the
   server's dispatch task, whatever the other clients and the server thread do. *)
THEOREM NoSubmissionForgotten == Spec => []SubmissionsAnnounced
BY AllAlways, PTL

(* The server thread's events always have an interrupt or a round of the handler ahead. *)
THEOREM CommandsReachHandler == Spec => []CommandsWakeHandler
BY AllAlways, PTL

-----------------------------------------------------------------------------
(* The client's side.  Its invariants are inductive together with the types. *)

VARIABLES
    started, handed, tasklet, notify_pc, client_irq_status, client_irq_pending,
    client_virq, client_handler_pc

Client == INSTANCE VMblockClientIrq WITH virq <- client_virq, handler_pc <- client_handler_pc

ClientInv == Client!TypeOK /\ Client!CompletionsAnnounced /\ Client!ClientNotMuted

(* The tasklet, end_io and the client's handler keep both invariants. *)
LEMMA ClientStepsKeep == ClientInv /\ [Client!Next]_(Client!vars) => ClientInv'
<1> SUFFICES ASSUME ClientInv, [Client!Next]_(Client!vars) PROVE ClientInv'
  OBVIOUS
<1> USE ServerIrqAssumption DEF ClientInv, Client!TypeOK, Client!CompletionsAnnounced, Client!ClientNotMuted, Client!ring, Client!notifier
<1>1. CASE Client!StartIo
  BY <1>1 DEF Client!StartIo
<1>2. CASE Client!EndIo
  BY <1>2 DEF Client!EndIo
<1>3. CASE Client!SetStatus
  BY <1>3, Zenon DEF Client!SetStatus
<1>4. CASE Client!TestPending
  BY <1>4, Zenon DEF Client!TestPending
<1>5. CASE Client!MarkPending
  BY <1>5, Zenon DEF Client!MarkPending
<1>6. CASE Client!SendIrq
  BY <1>6 DEF Client!SendIrq
<1>7. CASE Client!Irq
  BY <1>7, Zenon DEF Client!Irq
<1>8. CASE Client!HoldPending
  BY <1>8, Zenon DEF Client!HoldPending
<1>9. CASE Client!ResetStatus
  BY <1>9, Zenon DEF Client!ResetStatus
<1>10. CASE Client!FinishTransfer
  BY <1>10 DEF Client!FinishTransfer
<1>11. CASE Client!EndFinish
  BY <1>11 DEF Client!EndFinish
<1>12. CASE Client!ClearPending
  BY <1>12, Zenon DEF Client!ClearPending
<1>13. CASE UNCHANGED Client!vars
  BY <1>13 DEF Client!vars
<1> QED BY <1>1, <1>2, <1>3, <1>4, <1>5, <1>6, <1>7, <1>8, <1>9, <1>10, <1>11, <1>12, <1>13,
           Zenon DEF Client!Next, Client!Notify, Client!Handler

(* The invariants hold throughout. *)
LEMMA ClientAlways == Client!Spec => []ClientInv
<1>1. Client!Init => ClientInv
  <2> SUFFICES ASSUME Client!Init PROVE ClientInv
    OBVIOUS
  <2>1. started \in Nat /\ handed \in Nat /\ started + handed < Cnt /\ ~(handed > 0)
    BY ServerIrqAssumption DEF Client!Init
  <2> QED BY <2>1, Zenon DEF Client!Init, ClientInv, Client!TypeOK, Client!CompletionsAnnounced, Client!ClientNotMuted
<1> QED BY <1>1, ClientStepsKeep, PTL DEF Client!Spec

(* A descriptor end_io gave back stays announced until the client collects it. *)
THEOREM NoCompletionForgotten == Client!Spec => []Client!CompletionsAnnounced
<1>1. ClientInv => Client!CompletionsAnnounced
  BY Zenon DEF ClientInv
<1> QED BY <1>1, ClientAlways, PTL

(* client_irq_pending is never left set with nobody to clear it. *)
THEOREM ClientNeverDeaf == Client!Spec => []Client!ClientNotMuted
<1>1. ClientInv => Client!ClientNotMuted
  BY Zenon DEF ClientInv
<1> QED BY <1>1, ClientAlways, PTL

-----------------------------------------------------------------------------
(* The command ring, for any number of callers and any length of the ring. *)

CONSTANTS Callers, Len, NoCaller

VARIABLES call, cmds, next_free, next_cmd, wake_server, server, held, irq, task, dispatcher

Commands == INSTANCE CmdRing

RingAssumption == Len \in Nat /\ Len >= 1 /\ NoCaller \notin Callers

\* What the dispatcher holds on to while it works on a command: the command stays
\* in its slot until the dispatcher itself clears it.
Working == dispatcher \in {"handle", "release"} => cmds[next_cmd] # NoCaller

\* The command whose caller has been answered already.
Answered == IF dispatcher = "release" THEN {next_cmd} ELSE {}

\* A caller's commands other than that one.
Live(c) == {i \in Commands!Slots \ Answered : cmds[i] = c}

\* OneCommandPerCall without the count: at most one command, and it is there exactly
\* when the call is accepted and not held up.
Commanded ==
    /\ \A c \in Callers : \A i, j \in Live(c) : i = j
    /\ \A c \in Callers : call[c] = "accepted" /\ held # c => Live(c) # {}
    /\ \A c \in Callers : held = c => call[c] = "accepted" /\ Live(c) = {}
    /\ \A c \in Callers : call[c] # "accepted" => Live(c) = {}

\* The held call is what cmd_allocate waits for.
HeldWhileAllocating == (server = "alloc") <=> (held # NoCaller)

CommandsInv == Commands!TypeOK /\ Working /\ HeldWhileAllocating /\ Commanded

\* The successor of a slot is a slot.
LEMMA SuccType == ASSUME RingAssumption PROVE \A i \in Commands!Slots : Commands!Succ(i) \in Commands!Slots
  BY DEF RingAssumption, Commands!Succ, Commands!Slots

\* The variables keep their types.
LEMMA CommandsTypeStep ==
  ASSUME RingAssumption PROVE CommandsInv /\ [Commands!Next]_(Commands!vars) => Commands!TypeOK'
<1> SUFFICES ASSUME CommandsInv, [Commands!Next]_(Commands!vars) PROVE Commands!TypeOK'
  OBVIOUS
<1> USE SuccType DEF CommandsInv, Commands!TypeOK
<1>1. ASSUME NEW c \in Callers, Commands!Call(c) PROVE Commands!TypeOK'
  BY <1>1 DEF Commands!Call, Commands!ringVars
<1>2. ASSUME NEW c \in Callers, Commands!Receive(c) PROVE Commands!TypeOK'
  BY <1>2, Zenon DEF Commands!Receive, Commands!Allocate
<1>3. ASSUME NEW c \in Callers, Commands!Swallow(c) PROVE Commands!TypeOK'
  BY <1>3, Zenon DEF Commands!Swallow, Commands!Allocate, HeldWhileAllocating
<1>4. CASE Commands!Irq
  BY <1>4, Zenon DEF Commands!Irq, Commands!ringVars
<1>5. CASE Commands!BottomHalf
  BY <1>5, Zenon DEF Commands!BottomHalf, Commands!ringVars
<1>6. CASE Commands!Look
  BY <1>6, Zenon DEF Commands!Look, Commands!ringVars
<1>7. CASE Commands!Handle
  BY <1>7, Zenon DEF Commands!Handle, Commands!ringVars
<1>8. CASE Commands!Release
  BY <1>8, Zenon DEF Commands!Release
<1>9. CASE Commands!Advance
  BY <1>9, Zenon DEF Commands!Advance
<1>10. CASE Commands!Wake
  BY <1>10, Zenon DEF Commands!Wake, Commands!Allocate, HeldWhileAllocating
<1>11. CASE UNCHANGED Commands!vars
  BY <1>11 DEF Commands!vars, Commands!ringVars
<1> QED
  BY <1>1, <1>2, <1>3, <1>4, <1>5, <1>6, <1>7, <1>8, <1>9, <1>10, <1>11, Zenon DEF
     Commands!Next, Commands!Linux

\* A command is entered for a call that has none: the rest of Allocate's effect on Commanded.
LEMMA AllocateStep ==
  ASSUME RingAssumption, CommandsInv, NEW c \in Callers, NEW asked \in BOOLEAN, Commands!Allocate(c, asked),
         Live(c) = {}, held \in {c, NoCaller},
         call' = [call EXCEPT ![c] = "accepted"],
         next_cmd' = next_cmd,
         Answered' = Answered
  PROVE  Commanded' /\ HeldWhileAllocating'
<1> USE DEF RingAssumption, CommandsInv, Commands!TypeOK
<1>1. HeldWhileAllocating'
  BY Zenon DEF Commands!Allocate, HeldWhileAllocating
<1>2. CASE cmds[next_free] = NoCaller
  <2>1. /\ cmds' = [cmds EXCEPT ![next_free] = c]
        /\ held' = NoCaller
    BY <1>2, Zenon DEF Commands!Allocate
  <2>2. next_free \notin Answered
    BY <1>2, Zenon DEF Answered, Working
  <2>3. Live(c)' = {next_free}
    BY <2>1, <2>2 DEF Live
  <2>4. \A d \in Callers \ {c} : Live(d)' = Live(d)
    BY <1>2, <2>1, Zenon DEF Live
  <2> QED
    BY <1>1, <2>1, <2>3, <2>4 DEF Commanded
<1>3. CASE cmds[next_free] # NoCaller
  <2>1. cmds' = cmds /\ held' = c
    BY <1>3, Zenon DEF Commands!Allocate
  <2>2. \A d \in Callers : Live(d)' = Live(d)
    BY <2>1, Zenon DEF Live
  <2> QED
    BY <1>1, <2>1, <2>2 DEF Commanded
<1> QED
  BY <1>2, <1>3, Zenon

\* Every step preserves the rest of the invariant.
LEMMA InvStep ==
  ASSUME RingAssumption PROVE CommandsInv /\ [Commands!Next]_(Commands!vars) => (Working /\ HeldWhileAllocating /\ Commanded)'
<1> SUFFICES ASSUME CommandsInv, [Commands!Next]_(Commands!vars) PROVE (Working /\ HeldWhileAllocating /\ Commanded)'
  OBVIOUS
<1> USE DEF RingAssumption, CommandsInv, Commands!TypeOK
<1>1. ASSUME NEW c \in Callers, Commands!Call(c)
      PROVE  (Working /\ HeldWhileAllocating /\ Commanded)'
  BY <1>1 DEF Commands!Call, Commands!ringVars, Working, HeldWhileAllocating, Commanded, Live, Answered
<1>2. ASSUME NEW c \in Callers, Commands!Receive(c)
      PROVE  (Working /\ HeldWhileAllocating /\ Commanded)'
  <2>1. Working'
    BY <1>2, Zenon DEF Commands!Receive, Commands!Allocate, Working
  <2>2. Live(c) = {} /\ held = NoCaller
    BY <1>2, Zenon DEF Commands!Receive, Commanded, HeldWhileAllocating
  <2>3. Answered' = Answered /\ next_cmd' = next_cmd
    BY <1>2, Zenon DEF Commands!Receive, Answered
  <2> QED
    BY <1>2, <2>1, <2>2, <2>3, AllocateStep, Zenon DEF Commands!Receive
<1>3. ASSUME NEW c \in Callers, Commands!Swallow(c)
      PROVE  (Working /\ HeldWhileAllocating /\ Commanded)'
  <2>1. Working'
    BY <1>3, Zenon DEF Commands!Swallow, Commands!Allocate, Working, HeldWhileAllocating
  <2>2. held \in Callers /\ Live(held) = {} /\ call[held] = "accepted" /\ held # c
    BY <1>3, Zenon DEF Commands!Swallow, Commanded, HeldWhileAllocating
  <2>3. Answered' = Answered /\ next_cmd' = next_cmd /\ Live(c) = {}
    BY <1>3, Zenon DEF Commands!Swallow, Answered, Commanded
  <2>4. HeldWhileAllocating'
    BY <1>3, <2>2, Zenon DEF Commands!Swallow, Commands!Allocate, HeldWhileAllocating
  <2>5. call' = [call EXCEPT ![c] = "swallowed"] /\ Commands!Allocate(held, wake_server)
    BY <1>3, Zenon DEF Commands!Swallow
  <2>6. CASE cmds[next_free] = NoCaller
    <3>1. cmds' = [cmds EXCEPT ![next_free] = held] /\ held' = NoCaller
      BY <2>5, <2>6, Zenon DEF Commands!Allocate
    <3>2. next_free \notin Answered
      BY <2>6, Zenon DEF Answered, Working
    <3>3. \A d \in Callers \ {held} : Live(d)' = Live(d)
      BY <2>3, <2>6, <3>1, Zenon DEF Live
    <3>4. {i \in Commands!Slots \ Answered' : cmds'[i] = held} = {next_free}
      BY <2>2, <2>3, <3>1, <3>2, Zenon DEF Live
    <3>5. \A d \in Callers \ {held} : {i \in Commands!Slots \ Answered' : cmds'[i] = d} = Live(d)
      BY <3>3, Zenon DEF Live
    <3> QED
      BY <2>1, <2>2, <2>3, <2>4, <2>5, <3>1, <3>4, <3>5 DEF Commanded, Live
  <2>7. CASE cmds[next_free] # NoCaller
    BY <2>1, <2>2, <2>3, <2>4, <2>5, <2>7 DEF Commands!Allocate, Commanded, Live
  <2> QED
    BY <2>6, <2>7, Zenon
<1>4. CASE Commands!Irq
  BY <1>4 DEF Commands!Irq, Commands!ringVars, Working, HeldWhileAllocating, Commanded, Live, Answered
<1>5. CASE Commands!BottomHalf
  BY <1>5 DEF Commands!BottomHalf, Commands!ringVars, Working, HeldWhileAllocating, Commanded, Live, Answered
<1>6. CASE Commands!Look
  BY <1>6 DEF Commands!Look, Commands!ringVars, Working, HeldWhileAllocating, Commanded, Live, Answered
<1>7. CASE Commands!Handle
  <2> DEFINE c == cmds[next_cmd]
  <2>1. c \in Callers /\ next_cmd \in Live(c)
    BY <1>7, Zenon DEF Commands!Handle, Working, Live, Answered
  <2>2. Live(c) = {next_cmd} /\ held # c
    BY <2>1 DEF Commanded
  <2>3. cmds' = cmds /\ held' = held /\ server' = server /\ next_cmd' = next_cmd
    BY <1>7, Zenon DEF Commands!Handle, Commands!ringVars
  <2>4. Answered = {} /\ Answered' = {next_cmd} /\ call' = [call EXCEPT ![c] = "none"]
    BY <1>7, Zenon DEF Commands!Handle, Answered, Commands!ringVars
  <2>5. {i \in Commands!Slots \ Answered' : cmds'[i] = c} = {}
    BY <2>2, <2>3, <2>4, Zenon DEF Live
  <2>6. \A d \in Callers \ {c} : Live(d)' = Live(d)
    BY <2>3, <2>4, Zenon DEF Live
  <2>7. Working' /\ HeldWhileAllocating'
    BY <1>7, <2>3, Zenon DEF Commands!Handle, Working, HeldWhileAllocating
  <2>8. \A d \in Callers : Live(d)' = IF d = c THEN {} ELSE Live(d)
    BY <2>3, <2>5, <2>6, Zenon DEF Live
  <2> QED
    BY <2>1, <2>2, <2>3, <2>4, <2>7, <2>8 DEF Commanded
<1>8. CASE Commands!Release
  <2>1. \A d \in Callers : Live(d)' = Live(d)
    BY <1>8, Zenon DEF Commands!Release, Live, Answered
  <2> QED
    BY <1>8, <2>1 DEF Commands!Release, Working, HeldWhileAllocating, Commanded
<1>9. CASE Commands!Advance
  BY <1>9 DEF Commands!Advance, Working, HeldWhileAllocating, Commanded, Live, Answered
<1>10. CASE Commands!Wake
  <2>1. Working' /\ Answered' = Answered /\ next_cmd' = next_cmd /\ call' = call
    BY <1>10, Zenon DEF Commands!Wake, Working, Answered
  <2>2. CASE wake_server /\ server = "alloc"
    <3>1. held \in Callers /\ Live(held) = {} /\ call[held] = "accepted"
      BY <2>2, Zenon DEF Commanded, HeldWhileAllocating
    <3>2. call' = [call EXCEPT ![held] = "accepted"]
      BY <2>1, <3>1, Zenon
    <3>3. Commands!Allocate(held, FALSE)
      BY <1>10, <2>2, Zenon DEF Commands!Wake
    <3>4. PICK c \in Callers : c = held
      BY <3>1, Zenon
    <3> QED
      BY <2>1, <3>1, <3>2, <3>3, <3>4, AllocateStep, Zenon
  <2>3. CASE ~(wake_server /\ server = "alloc")
    <3>1. cmds' = cmds /\ held' = held /\ server' = server
      BY <1>10, <2>3, Zenon DEF Commands!Wake
    <3>2. \A d \in Callers : Live(d)' = Live(d)
      BY <2>1, <3>1, Zenon DEF Live
    <3> QED
      BY <2>1, <3>1, <3>2 DEF HeldWhileAllocating, Commanded
  <2> QED
    BY <2>2, <2>3, Zenon
<1>11. CASE UNCHANGED Commands!vars
  BY <1>11 DEF Commands!vars, Commands!ringVars, Working, HeldWhileAllocating, Commanded, Live, Answered
<1> QED
  BY <1>1, <1>2, <1>3, <1>4, <1>5, <1>6, <1>7, <1>8, <1>9, <1>10, <1>11, Zenon DEF
     Commands!Next, Commands!Linux

\* The command ring keeps its invariant, whatever the number of callers: a command is
\* there for exactly the calls that were accepted and not answered.
THEOREM RingInvariant ==
  ASSUME RingAssumption PROVE Commands!Spec => []CommandsInv
<1>1. Commands!Init => CommandsInv
  <2> SUFFICES ASSUME Commands!Init PROVE CommandsInv
    OBVIOUS
  <2>1. 0 \in Commands!Slots
    BY DEF RingAssumption, Commands!Slots
  <2>2. wake_server \in BOOLEAN /\ irq \in BOOLEAN /\ task \in BOOLEAN
    BY Zenon DEF Commands!Init
  <2>3. Commands!TypeOK
    BY <2>1, <2>2, Zenon DEF Commands!Init, Commands!TypeOK
  <2>4. \A c \in Callers : Live(c) = {}
    BY Zenon DEF RingAssumption, Commands!Init, Live
  <2> QED
    BY <2>3, <2>4, Zenon DEF RingAssumption, Commands!Init, CommandsInv, Working,
       HeldWhileAllocating, Commanded
<1>2. CommandsInv /\ [Commands!Next]_(Commands!vars) => CommandsInv'
  BY CommandsTypeStep, InvStep, Zenon DEF CommandsInv
<1> QED
  BY <1>1, <1>2, PTL DEF Commands!Spec

\* No call the server thread took in is answered twice or forgotten by the ring
\* (L4VM_server_cmd_allocate, L4VM_server_cmd_dispatcher).
THEOREM CallsAccounted ==
  ASSUME RingAssumption PROVE Commands!Spec => []Commands!OneCommandPerCall
<1>1. CommandsInv => Commands!OneCommandPerCall
  <2> SUFFICES ASSUME CommandsInv, NEW c \in Callers
               PROVE  LET mine == Commands!Holding(c) \ (IF dispatcher = "release" THEN {next_cmd} ELSE {})
                      IN  /\ call[c] = "accepted" => (held = c) # (\E i \in mine : mine = {i})
                          /\ call[c] # "accepted" => mine = {} /\ held # c
    BY Zenon DEF Commands!OneCommandPerCall
  <2>1. Commands!Holding(c) \ (IF dispatcher = "release" THEN {next_cmd} ELSE {}) = Live(c)
    BY Zenon DEF Commands!Holding, Live, Answered
  <2>2. (\E i \in Live(c) : Live(c) = {i}) <=> Live(c) # {}
    BY DEF CommandsInv, Commanded
  <2> QED
    BY <2>1, <2>2, Zenon DEF CommandsInv, Commanded
<1> QED
  BY <1>1, RingInvariant, PTL

\* A server thread that waits in L4VM_server_cmd_allocate is never forgotten: the
\* dispatcher has a run ahead at whose end it finds wake_server set.
THEOREM SleeperWoken ==
  ASSUME RingAssumption PROVE Commands!Spec => []Commands!SleeperIsWoken
<1>1. Commands!Init => Commands!SleeperIsWoken
  BY Zenon DEF Commands!Init, Commands!SleeperIsWoken
<1>2. CommandsInv /\ Commands!SleeperIsWoken /\ [Commands!Next]_(Commands!vars) => Commands!SleeperIsWoken'
  BY Zenon DEF CommandsInv, Commands!TypeOK, Commands!SleeperIsWoken, Commands!Next,
     Commands!vars, Commands!ringVars, Commands!Call, Commands!Receive, Commands!Swallow,
     Commands!Allocate, Commands!Linux, Commands!Irq, Commands!BottomHalf, Commands!Look,
     Commands!Handle, Commands!Release, Commands!Advance, Commands!Wake
<1> QED
  BY <1>1, <1>2, RingInvariant, PTL DEF Commands!Spec

\* The first slot whose command has not been released, and how far a slot is from it.
Head == IF dispatcher = "next" THEN Commands!Succ(next_cmd) ELSE next_cmd
Ahead(h, i) == IF i >= h THEN i - h ELSE i - h + Len

\* The commands are the n slots from the head on, and next_free is the slot after them.
Filled(n) ==
    /\ next_free = IF Head + n < Len THEN Head + n ELSE Head + n - Len
    /\ \A i \in Commands!Slots : cmds[i] # NoCaller <=> Ahead(Head, i) < n

Consecutive == \E n \in 0 .. Len : Filled(n)

\* The slots as numbers.
LEMMA SlotNumbers ==
  ASSUME RingAssumption, CommandsInv
  PROVE  /\ Len \in Nat /\ next_cmd \in 0 .. Len - 1 /\ next_free \in 0 .. Len - 1
         /\ Commands!Slots = 0 .. Len - 1 /\ Head \in 0 .. Len - 1
         /\ \A i \in 0 .. Len - 1 : Commands!Succ(i) = IF i = Len - 1 THEN 0 ELSE i + 1
<1>1. /\ Len \in Nat /\ next_cmd \in 0 .. Len - 1 /\ next_free \in 0 .. Len - 1
      /\ Commands!Slots = 0 .. Len - 1
  BY Zenon DEF RingAssumption, CommandsInv, Commands!TypeOK, Commands!Slots
<1>2. \A i \in 0 .. Len - 1 : Commands!Succ(i) = IF i = Len - 1 THEN 0 ELSE i + 1
  BY DEF RingAssumption, Commands!Succ
<1> QED
  BY <1>1, <1>2 DEF Head

\* The distance between two slots, of the slot n after another, and from the next slot.
LEMMA Distances ==
  ASSUME RingAssumption, NEW h \in 0 .. Len - 1, NEW i \in 0 .. Len - 1
  PROVE  Ahead(h, i) \in 0 .. Len - 1 /\ Ahead(h, h) = 0 /\ Ahead(h, i) \in Int
  BY DEF RingAssumption, Ahead

LEMMA DistanceOf ==
  ASSUME RingAssumption, NEW h \in 0 .. Len - 1, NEW i \in 0 .. Len - 1, NEW n \in 0 .. Len - 1
  PROVE  Ahead(h, i) = n <=> i = IF h + n < Len THEN h + n ELSE h + n - Len
  BY DEF RingAssumption, Ahead

LEMMA DistanceNext ==
  ASSUME RingAssumption, NEW h \in 0 .. Len - 1, NEW i \in 0 .. Len - 1
  PROVE  Ahead(Commands!Succ(h), i) = IF i = h THEN Len - 1 ELSE Ahead(h, i) - 1
<1>1. Commands!Succ(h) = IF h = Len - 1 THEN 0 ELSE h + 1
  BY DEF RingAssumption, Commands!Succ
<1> QED
  BY <1>1 DEF RingAssumption, Ahead

\* A new command goes to the slot after the others.
LEMMA Entered ==
  ASSUME RingAssumption, CommandsInv, Consecutive, NEW c \in Callers, NEW asked \in BOOLEAN,
         Commands!Allocate(c, asked), Head' = Head
  PROVE  Consecutive'
<1>1. CASE cmds[next_free] = NoCaller
  <2>1. /\ cmds' = [cmds EXCEPT ![next_free] = c] /\ next_free' = Commands!Succ(next_free)
        /\ cmds \in [Commands!Slots -> Callers \cup {NoCaller}] /\ c # NoCaller
    BY <1>1, Zenon DEF Commands!Allocate, CommandsInv, Commands!TypeOK, RingAssumption
  <2>2. PICK n \in 0 .. Len : Filled(n)
    BY Zenon DEF Consecutive
  <2>3. /\ Len \in Nat /\ Len > 0 /\ Commands!Slots = 0 .. Len - 1
        /\ next_free \in 0 .. Len - 1 /\ Head \in 0 .. Len - 1
        /\ Commands!Succ(next_free) = IF next_free = Len - 1 THEN 0 ELSE next_free + 1
    BY SlotNumbers DEF RingAssumption
  <2>4. n # Len
    <3> SUFFICES ASSUME n = Len PROVE FALSE
      OBVIOUS
    <3>1. next_free = Head
      BY <2>2, <2>3 DEF Filled
    <3>2. Ahead(Head, next_free) < n
      BY <2>3, <3>1, Distances, Zenon
    <3> QED BY <1>1, <2>2, <2>3, <3>2, Zenon DEF Filled
  <2>5. n \in 0 .. Len - 1 /\ n + 1 \in 0 .. Len
    BY <2>3, <2>4
  <2>6. \A i \in Commands!Slots : Ahead(Head, i) \in Int /\ (Ahead(Head, i) = n <=> i = next_free)
    <3> TAKE i \in Commands!Slots
    <3>1. next_free = IF Head + n < Len THEN Head + n ELSE Head + n - Len
      BY <2>2, Zenon DEF Filled
    <3>2. Ahead(Head, i) = n <=> i = IF Head + n < Len THEN Head + n ELSE Head + n - Len
      BY <2>3, <2>5, DistanceOf
    <3> QED BY <2>3, <3>1, <3>2, Distances, Zenon
  <2>7. next_free' = IF Head + (n + 1) < Len THEN Head + (n + 1) ELSE Head + (n + 1) - Len
    <3>1. next_free = IF Head + n < Len THEN Head + n ELSE Head + n - Len
      BY <2>2, Zenon DEF Filled
    <3> QED BY <2>1, <2>3, <2>5, <3>1
  <2>8. ASSUME NEW i \in Commands!Slots
        PROVE  cmds'[i] # NoCaller <=> Ahead(Head, i) < n + 1
    <3>1. cmds[i] # NoCaller <=> Ahead(Head, i) < n
      BY <2>2, Zenon DEF Filled
    <3>2. Ahead(Head, i) < n + 1 <=> Ahead(Head, i) < n \/ Ahead(Head, i) = n
      BY <2>5, <2>6
    <3> QED BY <2>1, <2>3, <2>6, <3>1, <3>2, Zenon
  <2>9. Filled(n + 1)'
    BY <2>7, <2>8, Zenon DEF Filled, Ahead
  <2> QED BY <2>5, <2>9, Zenon DEF Consecutive
<1>2. CASE cmds[next_free] # NoCaller
  BY <1>2, Zenon DEF Commands!Allocate, Consecutive, Filled, Ahead
<1> QED
  BY <1>1, <1>2, Zenon

\* The dispatcher releases the first command.
LEMMA Released ==
  ASSUME RingAssumption, CommandsInv, Consecutive, Commands!Release
  PROVE  Consecutive'
<1>1. /\ cmds' = [cmds EXCEPT ![next_cmd] = NoCaller] /\ next_free' = next_free
      /\ cmds \in [Commands!Slots -> Callers \cup {NoCaller}]
      /\ Head = next_cmd /\ Head' = Commands!Succ(next_cmd) /\ cmds[next_cmd] # NoCaller
  BY Zenon DEF Commands!Release, Head, CommandsInv, Working, Commands!TypeOK
<1>2. PICK n \in 0 .. Len : Filled(n)
  BY Zenon DEF Consecutive
<1>3. /\ Len \in Nat /\ Commands!Slots = 0 .. Len - 1 /\ next_cmd \in 0 .. Len - 1
      /\ Commands!Succ(next_cmd) = IF next_cmd = Len - 1 THEN 0 ELSE next_cmd + 1
  BY SlotNumbers, Zenon
<1>4. n > 0 /\ n - 1 \in 0 .. Len
  <2>1. Ahead(next_cmd, next_cmd) < n
    BY <1>1, <1>2, <1>3, Zenon DEF Filled
  <2> QED BY <1>3, <2>1, Distances
<1>5. next_free' = IF Head' + (n - 1) < Len THEN Head' + (n - 1) ELSE Head' + (n - 1) - Len
  <2>1. next_free = IF next_cmd + n < Len THEN next_cmd + n ELSE next_cmd + n - Len
    BY <1>1, <1>2, Zenon DEF Filled
  <2> QED BY <1>1, <1>3, <1>4, <2>1
<1>6. ASSUME NEW i \in Commands!Slots
      PROVE  cmds'[i] # NoCaller <=> Ahead(Head', i) < n - 1
  <2>1. cmds[i] # NoCaller <=> Ahead(next_cmd, i) < n
    BY <1>1, <1>2, Zenon DEF Filled
  <2>2. /\ Ahead(next_cmd, i) \in Int
        /\ Ahead(Head', i) = IF i = next_cmd THEN Len - 1 ELSE Ahead(next_cmd, i) - 1
    BY <1>1, <1>3, Distances, DistanceNext, Zenon
  <2> QED BY <1>1, <1>3, <1>4, <2>1, <2>2
<1>7. Filled(n - 1)'
  BY <1>5, <1>6, Zenon DEF Filled, Ahead
<1> QED
  BY <1>4, <1>7, Zenon DEF Consecutive

\* Every step keeps the commands consecutive.
LEMMA ConsecutiveStep ==
  ASSUME RingAssumption, CommandsInv, Consecutive, [Commands!Next]_(Commands!vars)
  PROVE  Consecutive'
<1>1. ASSUME Head' = Head, cmds' = cmds, next_free' = next_free PROVE Consecutive'
  BY <1>1, Zenon DEF Consecutive, Filled, Ahead
<1>2. ASSUME NEW c \in Callers, Commands!Receive(c) PROVE Consecutive'
  <2>1. wake_server \in BOOLEAN /\ Head' = Head
    BY <1>2, Zenon DEF Commands!Receive, Head, CommandsInv, Commands!TypeOK, Commands!Succ
  <2> QED BY <1>2, <2>1, Entered, Zenon DEF Commands!Receive
<1>3. ASSUME NEW c \in Callers, Commands!Swallow(c) PROVE Consecutive'
  <2>1. wake_server \in BOOLEAN /\ Head' = Head /\ held \in Callers
    BY <1>3, Zenon DEF Commands!Swallow, Head, CommandsInv, Commands!TypeOK,
       HeldWhileAllocating, Commands!Succ
  <2> QED BY <1>3, <2>1, Entered, Zenon DEF Commands!Swallow
<1>4. CASE Commands!Wake
  <2>1. Head' = Head
    BY <1>4, Zenon DEF Commands!Wake, Head, Commands!Succ
  <2>2. CASE wake_server /\ server = "alloc" /\ Commands!Allocate(held, FALSE)
    <3>1. held \in Callers
      BY <2>2, Zenon DEF CommandsInv, Commands!TypeOK, HeldWhileAllocating
    <3> QED BY <2>1, <2>2, <3>1, Entered, Zenon
  <2> QED BY <1>1, <1>4, <2>1, <2>2, Zenon DEF Commands!Wake
<1>5. CASE Commands!Advance
  <2>1. Head' = Head /\ cmds' = cmds /\ next_free' = next_free
    BY <1>5, Zenon DEF Commands!Advance, Head
  <2> QED BY <1>1, <2>1, Zenon
<1>6. CASE Commands!Irq \/ Commands!BottomHalf \/ Commands!Look \/ Commands!Handle
  <2>1. Head' = Head /\ cmds' = cmds /\ next_free' = next_free
    BY <1>6, Zenon DEF Commands!Irq, Commands!BottomHalf, Commands!Look, Commands!Handle,
       Commands!ringVars, Head, Commands!Succ
  <2> QED BY <1>1, <2>1, Zenon
<1>7. CASE UNCHANGED Commands!vars \/ \E c \in Callers : Commands!Call(c)
  <2>1. Head' = Head /\ cmds' = cmds /\ next_free' = next_free
    BY <1>7, Zenon DEF Commands!Call, Commands!vars, Commands!ringVars, Head, Commands!Succ
  <2> QED BY <1>1, <2>1, Zenon
<1> QED
  BY <1>2, <1>3, <1>4, <1>5, <1>6, <1>7, Released, Zenon DEF Commands!Next, Commands!Linux

\* Commands are handled in the order in which cmd_allocate filled them in: the commands
\* are the slots from next_cmd to next_free without a gap, also when the ring is full and
\* the slot the dispatcher has just released is taken before it moves on.
THEOREM HandledInOrder ==
  ASSUME RingAssumption PROVE Commands!Spec => []Commands!InOrder
<1>1. Commands!Init => Consecutive
  <2> SUFFICES ASSUME Commands!Init PROVE Consecutive
    OBVIOUS
  <2>1. Filled(0)
    BY DEF Commands!Init, RingAssumption, Filled, Ahead, Head, Commands!Slots
  <2> QED BY <2>1 DEF RingAssumption, Consecutive
<1>2. CommandsInv /\ Consecutive /\ [Commands!Next]_(Commands!vars) => Consecutive'
  BY ConsecutiveStep, Zenon
<1>3. CommandsInv /\ Consecutive => Commands!InOrder
  <2> SUFFICES ASSUME CommandsInv, Consecutive, NEW i \in Commands!Slots, cmds[i] # NoCaller,
                      NEW j \in Commands!Slots,
                      (j - next_cmd + Len) % Len < (i - next_cmd + Len) % Len
               PROVE  cmds[j] # NoCaller \/ (j = next_cmd /\ dispatcher = "next")
    BY Zenon DEF Commands!InOrder
  <2>1. PICK n \in 0 .. Len : Filled(n)
    BY Zenon DEF Consecutive
  <2>2. /\ Len \in Nat /\ Len >= 1 /\ Commands!Slots = 0 .. Len - 1 /\ next_cmd \in 0 .. Len - 1
    BY SlotNumbers, Zenon DEF RingAssumption
  <2>3. \A k \in 0 .. Len - 1 : (k - next_cmd + Len) % Len = Ahead(next_cmd, k)
    <3> TAKE k \in 0 .. Len - 1
    <3> DEFINE x == k - next_cmd + Len
    <3>1. \A y \in 0 .. 2 * Len - 1 : y % Len = IF y < Len THEN y ELSE y - Len
      BY <2>2
    <3>2. x \in 0 .. 2 * Len - 1
      BY <2>2
    <3>3. x % Len = IF x < Len THEN x ELSE x - Len
      <4> HIDE DEF x
      <4> QED BY <3>1, <3>2, Zenon
    <3> QED BY <2>2, <3>3 DEF Ahead
  <2>4. Ahead(next_cmd, j) < Ahead(next_cmd, i)
    BY <2>2, <2>3, Zenon
  <2>5. /\ cmds[j] # NoCaller <=> Ahead(Head, j) < n
        /\ Ahead(Head, i) < n
    BY <2>1, Zenon DEF Filled
  <2>6. Head \in 0 .. Len - 1 /\ Ahead(Head, i) \in Int /\ Ahead(Head, j) \in Int
    BY <2>2, SlotNumbers, Distances, Zenon
  <2>7. CASE dispatcher = "next" /\ j # next_cmd
    <3>1. i # next_cmd
      <4>1. Ahead(next_cmd, next_cmd) = 0 /\ Ahead(next_cmd, j) \in 0 .. Len - 1
        BY <2>2, Distances, Zenon
      <4> QED BY <2>4, <4>1
    <3>2. /\ Ahead(Head, j) = Ahead(next_cmd, j) - 1 /\ Ahead(Head, i) = Ahead(next_cmd, i) - 1
          /\ Ahead(next_cmd, i) \in Int /\ Ahead(next_cmd, j) \in Int
      <4>1. Head = Commands!Succ(next_cmd)
        BY <2>7, Zenon DEF Head
      <4> QED BY <2>2, <2>7, <3>1, <4>1, Distances, DistanceNext, Zenon
    <3> QED BY <2>4, <2>5, <2>6, <3>2
  <2>8. CASE dispatcher # "next"
    BY <2>4, <2>5, <2>6, <2>8 DEF Head
  <2> QED BY <2>7, <2>8, Zenon
<1> QED
  BY <1>1, <1>2, <1>3, RingInvariant, PTL DEF Commands!Spec
=============================================================================
