----------------------------- MODULE MCPreBoot -----------------------------
(***************************************************************************)
(* Instances of PreBoot for TLC.                                           *)
(***************************************************************************)
EXTENDS PreBoot, TLC

CONSTANT root

MCSlots     == 0..1
MCInitSlots == root :> {0, 1}

\* pam_ds, dsctl panic: `ds-erase --fire` without arguments.
BareFire == [device |-> None, mode |-> None, slot |-> None, recovery |-> None,
             ack |-> FALSE, map |-> None, root |-> "booted", scan |-> Backups]
\* dsctl deadman-check: --device only.
DeadmanFire == [BareFire EXCEPT !.device = root]
\* `ds-erase --resume` by hand, without --map-name.
HandResume == [ResumeLine EXCEPT !.map = None]

MCFires   == {WipeLine, BareFire, DeadmanFire}
MCResumes == {ResumeLine, HandResume}
\* Nobody resumes by hand.
BootResumes == {ResumeLine}
=============================================================================
