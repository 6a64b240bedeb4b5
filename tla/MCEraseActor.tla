---------------------------- MODULE MCEraseActor ----------------------------
(***************************************************************************)
(* Instances of EraseActor for TLC: the command lines the product uses and *)
(* the ones an operator may type.                                          *)
(***************************************************************************)
EXTENDS EraseActor, TLC

CONSTANTS root, spare, cryptroot, b1, b2

MCDevices  == {root, spare}
MCSlots    == 0..1
MCBackups  == {b1, b2}
\* The spare device never had a recovery keyslot.
MCInitSlots == (root :> {0, 1}) @@ (spare :> {0})

\* pam_ds, dsctl panic: no argument at all.
BareFire == [device |-> None, mode |-> None, slot |-> None, recovery |-> None,
             ack |-> FALSE, map |-> None, root |-> "booted",
             scan |-> MCBackups]
\* ds-unlock resume_wipe, and the same typed by an operator without --map-name.
PrebootResume == [device |-> root, slot |-> 0, recovery |-> 1, map |-> cryptroot]
OperatorResume == [PrebootResume EXCEPT !.map = None]

ProductResumes == {PrebootResume, OperatorResume}

\* An operator's own requests: the other device, without and with a slot; a
\* full erase, without and with its acknowledgement; half a slot pair; and the
\* recorded pair the other way round, with --header-scan on one directory.
SpareFire    == [BareFire EXCEPT !.device = spare]
EraseFire    == [BareFire EXCEPT !.mode = "erase", !.ack = TRUE]
ReversedFire == [BareFire EXCEPT !.mode = "killslot", !.slot = 1, !.recovery = 0,
                                 !.scan = {b1}]
TypedFires   == {BareFire, SpareFire, EraseFire, ReversedFire,
                 [EraseFire EXCEPT !.ack = FALSE],
                 [SpareFire EXCEPT !.mode = "killslot"]}
OpposedFires == {BareFire, ReversedFire}
BareFires    == {BareFire}

\* Process ids are interchangeable.
PidSymmetry == Permutations(Procs)

TypedResumes == {OperatorResume, [OperatorResume EXCEPT !.device = spare]}
=============================================================================
