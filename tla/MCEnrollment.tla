---------------------------- MODULE MCEnrollment ----------------------------
(***************************************************************************)
(* Instances of Enrollment for TLC.                                        *)
(***************************************************************************)
EXTENDS Enrollment

CONSTANTS A, B, pass, k1, k2, token

\* The root device with its passphrase, a data disk whose slot 0 is free.
MCInitKeys ==
  [d \in Devices |-> [s \in SlotNumbers |->
     IF (d = A /\ s = 0) \/ (d = B /\ s = 1) THEN pass ELSE None]]

\* The same, with a key of somebody else's on the root device.
StrangersKeys == [MCInitKeys EXCEPT ![A][1] = Stranger]

MCRecoveryArgs ==
  {[dev |-> A, old |-> pass, new |-> k1], [dev |-> A, old |-> k1, new |-> k2],
   [dev |-> B, old |-> pass, new |-> k2]}

\* Bound: two mishaps in all, at most one of them a use of cryptsetup by hand.
TwoMishaps == hands + breaks <= 2

\* The commands of those on the root device.
RootArgs == {a \in MCRecoveryArgs : a.dev = A}

MCFactorArgs == {[dev |-> A, new |-> token]}
=============================================================================
