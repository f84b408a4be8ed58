------------------------------- MODULE MCApic -------------------------------
(* Apic with a level triggered device and an edge triggered virtual interrupt that have   *)
(* one bit of irq_vectors in common, as Linux' vectors have when it has used every eighth *)
(* one; and with an edge triggered device as well and vectors eight apart.                *)
EXTENDS Apic, TLC

CONSTANTS disk, vmblock, serial

TwoLines == {disk, vmblock}
LevelLines == {disk}
VirtualLines == {vmblock}
TwoVector == disk :> 50 @@ vmblock :> 49

AllLines == {disk, vmblock, serial}
AllVector == disk :> 57 @@ vmblock :> 49 @@ serial :> 65
=============================================================================
