------------------------------- MODULE CmdRing -------------------------------
(***************************************************************************)
(* The command ring between a driver's L4 server thread, which receives    *)
(* the clients' calls, and the bottom half of its Linux, which may sleep   *)
(* and answers them (l4ka-driver-reuse/kernel/glue/vmserver.c, used here   *)
(* as the block server uses it).                                           *)
(*                                                                         *)
(* The server thread runs at the interrupt thread's priority on the same   *)
(* processor as Linux: what it does between two waits for IPC is one step  *)
(* for Linux.  Its waits are open: they receive from any thread.           *)
(***************************************************************************)
EXTENDS Integers

CONSTANTS
    Callers,    \* the clients' threads; each call waits for its answer
    Len,        \* L4VM_SERVER_CMD_RING_LEN
    NoCaller

Slots == 0 .. Len - 1

ASSUME LenAssumption == Len \in Nat /\ Len >= 1
ASSUME CallerAssumption == NoCaller \notin Callers

VARIABLES
    call,           \* where each caller's call is
    cmds,           \* the commands: handler and reply_to_tid
    next_free, next_cmd, wake_server,
    server,         \* the server thread: in reply_and_wait, or in cmd_allocate
    held,           \* the call cmd_allocate is for
    irq,            \* the bottom half is announced to the interrupt handler
    task,           \* bottom_half_task is queued
    dispatcher      \* cmd_dispatcher

ringVars == <<cmds, next_free, next_cmd>>
vars == <<call, ringVars, wake_server, server, held, irq, task, dispatcher>>

\* L4VM_server_cmd_init
Init ==
    /\ call = [c \in Callers |-> "none"]
    /\ cmds = [i \in Slots |-> NoCaller]
    /\ next_free = 0 /\ next_cmd = 0 /\ wake_server = FALSE
    /\ server = "wait" /\ held = NoCaller
    /\ irq = FALSE /\ task = FALSE /\ dispatcher = "idle"

Succ(i) == (i + 1) % Len

-----------------------------------------------------------------------------
(* The callers and the server thread. *)

\* A client sends its request and waits for the reply.
Call(c) ==
    /\ call[c] = "none"
    /\ call' = [call EXCEPT ![c] = "sending"]
    /\ UNCHANGED <<ringVars, wake_server, server, held, irq, task, dispatcher>>

\* L4VM_server_cmd_allocate for the call of c, on entry and after each wake-up: with a
\* free command, *_implementation fills it in; without, ask to be woken and wait.  Both
\* announce the bottom half.  The request to be woken stands at asked otherwise.
Allocate(c, asked) ==
    /\ irq' = TRUE
    /\ IF cmds[next_free] = NoCaller
         THEN /\ cmds' = [cmds EXCEPT ![next_free] = c]
              /\ next_free' = Succ(next_free)
              /\ server' = "wait" /\ held' = NoCaller
              /\ wake_server' = asked
         ELSE /\ wake_server' = TRUE
              /\ server' = "alloc" /\ held' = c
              /\ UNCHANGED <<cmds, next_free>>

\* reply_and_wait returns with the request of c.
Receive(c) ==
    /\ server = "wait" /\ call[c] = "sending"
    /\ call' = [call EXCEPT ![c] = "accepted"]
    /\ Allocate(c, wake_server)
    /\ UNCHANGED <<next_cmd, task, dispatcher>>

\* The wait of cmd_allocate returns with the request of c, which nobody looks at.
Swallow(c) ==
    /\ server = "alloc" /\ call[c] = "sending"
    /\ call' = [call EXCEPT ![c] = "swallowed"]
    /\ Allocate(held, wake_server)
    /\ UNCHANGED <<next_cmd, task, dispatcher>>

-----------------------------------------------------------------------------
(* Linux. *)

\* The interrupt handler schedules the bottom half (VMblockServerIrq).
Irq ==
    /\ irq /\ irq' = FALSE
    /\ task' = TRUE
    /\ UNCHANGED <<call, ringVars, wake_server, server, held, dispatcher>>

BottomHalf ==
    /\ task /\ dispatcher = "idle"
    /\ task' = FALSE /\ dispatcher' = "look"
    /\ UNCHANGED <<call, ringVars, wake_server, server, held, irq>>

\* L4VM_server_cmd_dispatcher: the next command, or none.
Look ==
    /\ dispatcher = "look"
    /\ dispatcher' = IF cmds[next_cmd] = NoCaller THEN "wake" ELSE "handle"
    /\ UNCHANGED <<call, ringVars, wake_server, server, held, irq, task>>

\* Its handler answers the caller ...
Handle ==
    /\ dispatcher = "handle" /\ dispatcher' = "release"
    /\ call' = [call EXCEPT ![cmds[next_cmd]] = "none"]
    /\ UNCHANGED <<ringVars, wake_server, server, held, irq, task>>

\* Release that leaves the handler in its command
ReleaseForgotten ==
    /\ dispatcher = "release" /\ dispatcher' = "next"
    /\ UNCHANGED <<call, ringVars, wake_server, server, held, irq, task>>

\* ... the command is released ...
Release ==
    /\ dispatcher = "release" /\ dispatcher' = "next"
    /\ cmds' = [cmds EXCEPT ![next_cmd] = NoCaller]
    /\ UNCHANGED <<call, next_free, next_cmd, wake_server, server, held, irq, task>>

\* Advance to the newest command
AdvanceToNewest ==
    /\ dispatcher = "next" /\ dispatcher' = "look"
    /\ next_cmd' = (next_free + Len - 1) % Len
    /\ UNCHANGED <<call, cmds, next_free, wake_server, server, held, irq, task>>

\* ... and the dispatcher moves on.
Advance ==
    /\ dispatcher = "next" /\ dispatcher' = "look"
    /\ next_cmd' = Succ(next_cmd)
    /\ UNCHANGED <<call, cmds, next_free, wake_server, server, held, irq, task>>

\* Wake that resets wake_server after it has woken the server thread
WakeThenReset ==
    /\ dispatcher = "wake" /\ dispatcher' = "idle"
    /\ wake_server' = FALSE
    /\ IF wake_server /\ server = "alloc" /\ cmds[next_free] = NoCaller
         THEN /\ cmds' = [cmds EXCEPT ![next_free] = held]
              /\ next_free' = Succ(next_free)
              /\ server' = "wait" /\ held' = NoCaller /\ irq' = TRUE
         ELSE UNCHANGED <<cmds, next_free, server, held, irq>>
    /\ UNCHANGED <<call, next_cmd, task>>

\* Wake that does not wake the server thread
WakeForgotten ==
    /\ dispatcher = "wake" /\ dispatcher' = "idle"
    /\ UNCHANGED <<call, ringVars, wake_server, server, held, irq, task>>

\* At the end it wakes a server thread that asked for it.  A server thread that is back in
\* reply_and_wait discards the message, which names no function.
Wake ==
    /\ dispatcher = "wake" /\ dispatcher' = "idle"
    /\ \/ /\ wake_server /\ server = "alloc"
          /\ Allocate(held, FALSE)
       \/ /\ ~(wake_server /\ server = "alloc")
          /\ wake_server' = FALSE
          /\ UNCHANGED <<cmds, next_free, server, held, irq>>
    /\ UNCHANGED <<call, next_cmd, task>>

-----------------------------------------------------------------------------
Linux == Irq \/ BottomHalf \/ Look \/ Handle \/ Release \/ Advance \/ Wake

Next ==
    \/ \E c \in Callers : Call(c) \/ Receive(c) \/ Swallow(c)
    \/ Linux

\* Linux runs its interrupt handlers and work items, handlers return, and the server
\* thread receives from every sender in its turn.
Spec ==
    /\ Init /\ [][Next]_vars
    /\ WF_vars(Linux)
    /\ \A c \in Callers : SF_vars(Receive(c)) /\ WF_vars(Swallow(c))

-----------------------------------------------------------------------------
(* Properties. *)

\* The types of the variables.
TypeOK ==
    /\ call \in [Callers -> {"none", "sending", "accepted", "swallowed"}]
    /\ cmds \in [Slots -> Callers \cup {NoCaller}]
    /\ next_free \in Slots /\ next_cmd \in Slots
    /\ wake_server \in BOOLEAN /\ irq \in BOOLEAN /\ task \in BOOLEAN
    /\ server \in {"wait", "alloc"} /\ held \in Callers \cup {NoCaller}
    /\ dispatcher \in {"idle", "look", "handle", "release", "next", "wake"}

Holding(c) == {i \in Slots : cmds[i] = c}

\* Every accepted call has exactly one command, or is the one cmd_allocate is held up
\* with; a call that is answered has none left that a later handler could answer again.
OneCommandPerCall ==
    \A c \in Callers :
        LET mine == Holding(c) \ (IF dispatcher = "release" THEN {next_cmd} ELSE {})
        IN  /\ call[c] = "accepted" => (held = c) # (\E i \in mine : mine = {i})
            /\ call[c] # "accepted" => mine = {} /\ held # c

\* The ring is used in order: the commands are the slots from next_cmd to next_free.
InOrder ==
    \A i \in Slots : cmds[i] # NoCaller =>
        \A j \in Slots : (j - next_cmd + Len) % Len < (i - next_cmd + Len) % Len
                           => cmds[j] # NoCaller \/ (j = next_cmd /\ dispatcher = "next")

\* A server thread that waits for a command has asked to be woken, and a run of the
\* dispatcher that will do so is ahead.
SleeperIsWoken ==
    server = "alloc" => wake_server /\ (irq \/ task \/ dispatcher # "idle")

\* Every call the server thread took in is answered.
AcceptedAnswered == \A c \in Callers : call[c] = "accepted" ~> call[c] = "none"

\* Every call is answered.  "We wait for an IPC from *any* thread, so confirm that we
\* actually have a free cmd slot when we wake" (vmserver.c:94): the wait must not cost the
\* thread that sent that IPC anything.
CallsAnswered == \A c \in Callers : call[c] # "none" ~> call[c] = "none"
=============================================================================
