-------------------------- MODULE VMblockClientIrq --------------------------
(***************************************************************************)
(* How a block client learns that descriptors came back.  end_io schedules *)
(* the notify tasklet, which sets client_irq_status and, unless            *)
(* client_irq_pending says that an interrupt is on its way, sends one      *)
(* (L4VMblock_deliver_client_irq).  The client's L4VMblock_irq_handler     *)
(* reads and resets the status and collects until a round finds no event.  *)
(* A step is one access to a word the other VM also accesses.              *)
(***************************************************************************)
EXTENDS Integers

CONSTANT Cnt        \* IVMblock_descriptor_ring_size
ASSUME CntAssumption == Cnt \in Nat /\ Cnt >= 2

VARIABLES
    started,        \* descriptors with a bio
    handed,         \* descriptors given back and not collected
    tasklet,        \* server: L4VMblock_notify_tasklet is scheduled
    notify_pc,      \* server: deliver_client_irq
    client_irq_status, client_irq_pending,  \* client_shared
    virq,           \* the client's interrupt is latched
    handler_pc      \* client: irq_handler

ring == <<started, handed>>
notifier == <<tasklet, notify_pc>>
vars == <<ring, notifier, client_irq_status, client_irq_pending, virq, handler_pc>>

Init ==
    /\ started = 0 /\ handed = 0
    /\ tasklet = FALSE /\ notify_pc = "idle"
    /\ client_irq_status = FALSE /\ client_irq_pending = FALSE
    /\ virq = FALSE /\ handler_pc = "idle"

-----------------------------------------------------------------------------
(* The server. *)

\* The client fills a descriptor and the server starts its I/O (VMblockServerIrq).
StartIo ==
    /\ started + handed < Cnt - 1
    /\ started' = started + 1
    /\ UNCHANGED <<handed, notifier, client_irq_status, client_irq_pending, virq, handler_pc>>

\* EndIo that does not schedule the tasklet while an interrupt is pending
EndIoIfQuiet ==
    /\ started > 0
    /\ started' = started - 1 /\ handed' = handed + 1
    /\ tasklet' = (tasklet \/ ~client_irq_pending)
    /\ UNCHANGED <<notify_pc, client_irq_status, client_irq_pending, virq, handler_pc>>

\* end_io gives a descriptor back and schedules the tasklet.
EndIo ==
    /\ started > 0
    /\ started' = started - 1 /\ handed' = handed + 1
    /\ tasklet' = TRUE
    /\ UNCHANGED <<notify_pc, client_irq_status, client_irq_pending, virq, handler_pc>>

\* The tasklet runs L4VMblock_deliver_client_irq, which sets the status ...
SetStatus ==
    /\ notify_pc = "idle" /\ tasklet
    /\ notify_pc' = "test"
    /\ tasklet' = FALSE
    /\ client_irq_status' = TRUE
    /\ UNCHANGED <<ring, client_irq_pending, virq, handler_pc>>

\* ... returns if an interrupt is pending ...
TestPending ==
    /\ notify_pc = "test"
    /\ notify_pc' = IF client_irq_pending THEN "idle" ELSE "mark"
    /\ UNCHANGED <<ring, tasklet, client_irq_status, client_irq_pending, virq, handler_pc>>

\* ... else says that one is ...
MarkPending ==
    /\ notify_pc = "mark" /\ notify_pc' = "send"
    /\ client_irq_pending' = TRUE
    /\ UNCHANGED <<ring, tasklet, client_irq_status, virq, handler_pc>>

\* ... and sends it, with no timeout.  That fails only for a client that is gone, which
\* is left out.
SendIrq ==
    /\ notify_pc = "send" /\ notify_pc' = "idle"
    /\ virq' = TRUE
    /\ UNCHANGED <<ring, tasklet, client_irq_status, client_irq_pending, handler_pc>>

-----------------------------------------------------------------------------
(* The client. *)

\* The wedge delivers the interrupt: L4VMblock_irq_handler starts.
Irq ==
    /\ handler_pc = "idle" /\ virq
    /\ handler_pc' = "hold"
    /\ virq' = FALSE
    /\ UNCHANGED <<ring, notifier, client_irq_status, client_irq_pending>>

\* Each round sets the pending flag ...
HoldPending ==
    /\ handler_pc = "hold" /\ handler_pc' = "reset"
    /\ client_irq_pending' = TRUE
    /\ UNCHANGED <<ring, notifier, client_irq_status, virq>>

\* ... takes the events (irq_status_reset) ...
ResetStatus ==
    /\ handler_pc = "reset"
    /\ handler_pc' = IF client_irq_status THEN "finish" ELSE "leave"
    /\ client_irq_status' = FALSE
    /\ UNCHANGED <<ring, notifier, client_irq_pending, virq>>

\* ... collects what came back (finish_transfers) ...
FinishTransfer ==
    /\ handler_pc = "finish" /\ handed > 0
    /\ handed' = handed - 1
    /\ UNCHANGED <<started, notifier, client_irq_status, client_irq_pending, virq, handler_pc>>

EndFinish ==
    /\ handler_pc = "finish" /\ handed = 0
    /\ handler_pc' = "again"
    /\ UNCHANGED <<ring, notifier, client_irq_status, client_irq_pending, virq>>

\* ClearPending that is skipped when the handler leaves
ClearPendingUnlessLeaving ==
    /\ handler_pc \in {"again", "leave"}
    /\ handler_pc' = IF handler_pc = "again" THEN "hold" ELSE "idle"
    /\ client_irq_pending' = (client_irq_pending /\ handler_pc = "leave")
    /\ UNCHANGED <<ring, notifier, client_irq_status, virq>>

\* ... and clears the flag; the round without events is the last.
ClearPending ==
    /\ handler_pc \in {"again", "leave"}
    /\ handler_pc' = IF handler_pc = "again" THEN "hold" ELSE "idle"
    /\ client_irq_pending' = FALSE
    /\ UNCHANGED <<ring, notifier, client_irq_status, virq>>

-----------------------------------------------------------------------------
Notify == SetStatus \/ TestPending \/ MarkPending \/ SendIrq
Handler == Irq \/ HoldPending \/ ResetStatus \/ FinishTransfer \/ EndFinish \/ ClearPending

Next == StartIo \/ EndIo \/ Notify \/ Handler

\* The disk completes every bio, the server's kernel runs its tasklets, the wedge
\* delivers interrupts.
Spec == Init /\ [][Next]_vars /\ WF_vars(EndIo) /\ WF_vars(Notify) /\ WF_vars(Handler)

-----------------------------------------------------------------------------
(* Properties. *)

\* The types of the variables; the ring never holds more than Cnt - 1 descriptors.
TypeOK ==
    /\ started \in Nat /\ handed \in Nat /\ started + handed < Cnt
    /\ tasklet \in BOOLEAN /\ virq \in BOOLEAN
    /\ client_irq_status \in BOOLEAN /\ client_irq_pending \in BOOLEAN
    /\ notify_pc \in {"idle", "test", "mark", "send"}
    /\ handler_pc \in {"idle", "hold", "reset", "finish", "again", "leave"}

\* No completion is forgotten: a descriptor the server has given back has the tasklet
\* scheduled, client_irq_status set, or the client collecting.
CompletionsAnnounced ==
    handed > 0 => tasklet \/ client_irq_status \/ handler_pc = "finish"

\* The client is never deaf: while client_irq_pending is set the handler is running, and
\* will clear it, an interrupt is latched, or the server is about to send one.
ClientNotMuted ==
    client_irq_pending => handler_pc # "idle" \/ virq \/ notify_pc = "send"

\* The handler can miss a completion announced between its last look at the status and
\* its last store to the flag.  A notification that finds its event unread and the handler not
\* running is always heard, and the client then collects what was missed.
NotificationHeard ==
    (handler_pc = "idle" /\ notify_pc = "test" /\ client_irq_status) ~> handler_pc = "finish"
=============================================================================
