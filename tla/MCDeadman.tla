----------------------------- MODULE MCDeadman -----------------------------
(***************************************************************************)
(* Instances of Deadman for TLC.                                           *)
(***************************************************************************)
EXTENDS Deadman

CONSTANTS A, pass, k1

MCInitKeys == [d \in Devices |-> [s \in SlotNumbers |-> IF s = 0 THEN pass ELSE None]]
MCRecoveryArgs == {[dev |-> A, old |-> pass, new |-> k1]}
MCFactorArgs == {}
=============================================================================
