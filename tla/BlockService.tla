---------------------------- MODULE BlockService ----------------------------
(***************************************************************************)
(* What the virtual block device promises the client's Linux: the segments *)
(* of a request are performed by the disk in any order, each ends once     *)
(* with the outcome the disk gave it, and the request ends with its last   *)
(* segment.  A device that is not attached refuses the whole request.      *)
(***************************************************************************)
EXTENDS Integers, FiniteSets

CONSTANTS Reqs, Segs, ReqOf

VARIABLES
    active,     \* the requests Linux waits for
    done,       \* what the disk made of each segment of them
    ended       \* how the driver ended each segment's bio

svars == <<active, done, ended>>

Of(r) == {s \in Segs : ReqOf[s] = r}

Init ==
    /\ active = {}
    /\ done = [s \in Segs |-> "none"]
    /\ ended = [s \in Segs |-> "none"]

Submit(r) ==
    /\ r \notin active
    /\ active' = active \cup {r}
    /\ done' = [s \in Segs |-> IF ReqOf[s] = r THEN "none" ELSE done[s]]
    /\ ended' = [s \in Segs |-> IF ReqOf[s] = r THEN "none" ELSE ended[s]]

Refuse(r) ==
    /\ r \in active
    /\ \A s \in Of(r) : done[s] = "none" /\ ended[s] = "none"
    /\ active' = active \ {r}
    /\ ended' = [s \in Segs |-> IF ReqOf[s] = r THEN "err" ELSE ended[s]]
    /\ UNCHANGED done

\* An error the disk reported stays; a segment done without error is not done again.
Perform(s, e) ==
    /\ ReqOf[s] \in active
    /\ ended[s] = "none"
    /\ done[s] # "ok"
    /\ done[s] = "err" => e = "err"
    /\ done' = [done EXCEPT ![s] = e]
    /\ UNCHANGED <<active, ended>>

End(s) ==
    /\ ReqOf[s] \in active
    /\ ended[s] = "none"
    /\ done[s] # "none"
    /\ ended' = [ended EXCEPT ![s] = done[s]]
    /\ active' = IF \A t \in Of(ReqOf[s]) \ {s} : ended[t] # "none"
                   THEN active \ {ReqOf[s]} ELSE active
    /\ UNCHANGED done

Next ==
    \/ \E r \in Reqs : Submit(r) \/ Refuse(r)
    \/ \E s \in Segs : End(s) \/ \E e \in {"ok", "err"} : Perform(s, e)

Spec == Init /\ [][Next]_svars
=============================================================================
