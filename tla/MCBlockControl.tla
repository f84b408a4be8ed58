---------------------------- MODULE MCBlockControl ----------------------------
(* Two clients; the first has two devices, the second shares one of them. *)
EXTENDS BlockControl, TLC

CONSTANTS c1, c2, d1, d2

MCProbes == c1 :> {d1, d2} @@ c2 :> {d1}
===============================================================================
