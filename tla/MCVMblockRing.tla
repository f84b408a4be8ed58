---------------------------- MODULE MCVMblockRing ----------------------------
(* VMblockRing with two requests, one of them of two segments. *)
EXTENDS VMblockRing, TLC

CONSTANTS r1, r2, a1, a2, b1

MCReqs == {r1, r2}
MCSegs == {a1, a2, b1}
MCReqOf == (a1 :> r1) @@ (a2 :> r1) @@ (b1 :> r2)
=============================================================================
