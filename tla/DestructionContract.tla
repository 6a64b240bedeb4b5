------------------------ MODULE DestructionContract ------------------------
(***************************************************************************)
(* What ds-erase promises, without processes, phases or files: a keyslot   *)
(* disappears only under a durable intent that names it and only after the *)
(* header backups below the intent's scan roots, save those that could not *)
(* be read; and the intent is given up only when it is fulfilled.          *)
(***************************************************************************)
CONSTANTS
  Devices,      \* block devices carrying a LUKS header
  SlotNumbers,  \* keyslot numbers
  InitSlots,    \* device -> keyslots active at first
  Backups,      \* LUKS header backups at first
  NoGoal        \* no destruction is intended

VARIABLES
  slots,       \* device -> active keyslots
  backups,     \* header backups that a restore could use
  overlooked,  \* backups that could not be read when they were looked at
  pending      \* the intent, or NoGoal

Goals == [device : Devices, doomed : SUBSET SlotNumbers, scan : SUBSET Backups]

Fulfilled(g) == slots[g.device] \cap g.doomed = {}

\* What the intent still has to remove before it may touch a keyslot.
ToRemove(g) == (backups \cap g.scan) \ overlooked

Init ==
  slots = InitSlots /\ backups = Backups /\ overlooked = {} /\ pending = NoGoal

\* The intent becomes durable.
Commit ==
  /\ pending = NoGoal
  /\ pending' \in Goals
  /\ UNCHANGED <<slots, backups, overlooked>>

\* A backup goes, under an intent; one that was overlooked may still go later.
RemoveBackup ==
  /\ \E b \in backups : /\ pending # NoGoal \/ b \in overlooked
                        /\ backups' = backups \ {b}
  /\ UNCHANGED <<slots, overlooked, pending>>

\* A backup cannot be read and is left alone.
Overlook ==
  /\ pending # NoGoal
  /\ \E b \in backups : overlooked' = overlooked \cup {b}
  /\ UNCHANGED <<slots, backups, pending>>

Destroy ==
  /\ pending # NoGoal /\ ToRemove(pending) = {}
  /\ slots' = [slots EXCEPT ![pending.device] = @ \ pending.doomed]
  /\ UNCHANGED <<backups, overlooked, pending>>

Discharge ==
  /\ pending # NoGoal /\ Fulfilled(pending)
  /\ pending' = NoGoal
  /\ UNCHANGED <<slots, backups, overlooked>>

Next == Commit \/ RemoveBackup \/ Overlook \/ Destroy \/ Discharge

Spec == Init /\ [][Next]_<<slots, backups, overlooked, pending>>
=============================================================================
