----------------------------- MODULE EraseActor -----------------------------
(***************************************************************************)
(* ds-erase: the journaled keyslot-destruction actor.                      *)
(*                                                                         *)
(* Any number of ds-erase processes run at once (a PAM trigger, a dead-man *)
(* check and `dsctl panic` share no lock), each through                    *)
(*                                                                         *)
(*   fire / resume -> [create -> rename]   the journal, phase by phase     *)
(*     prepared    -> scan, shred, unlink  header backups on the ESP       *)
(*     handled     -> recovery, active, kill, verify                       *)
(*     destroyed   -> final, quiesce, poweroff, remove                     *)
(*                                                                         *)
(* Durable state: the LUKS keyslots, the header backups, the journal and   *)
(* the journal's temporary files.  Everything else dies with the power;    *)
(* what was written before a cut is on disk after it, in that order.       *)
(* A step is one system call or one child process of the code that other   *)
(* processes, or a power cut, can come between.                            *)
(***************************************************************************)
EXTENDS Naturals

CONSTANTS
  Disposable,        \* the disposable marker exists (never shipped)
  Procs,             \* process ids ds-erase runs under; a reboot reuses them
  Devices,           \* block devices carrying a LUKS header
  SlotNumbers,       \* keyslot numbers that occur
  InitSlots,         \* device -> keyslots active before any trigger
  Backups,           \* LUKS header backups below the ESP state directory
  Maps,              \* dm-crypt mapping names
  None,              \* an absent Option, flag or state file
  NoJournal,         \* the journal file does not exist
  RecordedTarget,    \* state dir: target.device
  RecordedDaily,     \* state dir: daily.slot
  RecordedRecovery,  \* state dir: recovery.slot
  FireArgs,          \* the `--fire` command lines that occur
  ResumeArgs,        \* the `--resume` command lines that occur
  TestNoPoweroff,    \* --test-no-poweroff in a debug build under test
  MaxCuts,           \* bound: power cuts
  MaxFaults          \* bound: failing I/O calls and child processes

Roots  == {"initramfs", "booted"}   \* /ds-esp/deathstroke, /boot/efi/deathstroke
Modes  == {"killslot", "erase"}
Phases == {"prepared", "handled", "destroyed"}
OptSlot == SlotNumbers \cup {None}

Journals == [phase : Phases, device : Devices, mode : Modes, slot : OptSlot,
             recovery : OptSlot, map : Maps \cup {None}, root : Roots,
             scan : SUBSET Backups]

\* What a journal is out to destroy: some keyslots of one device, and the
\* header backups below its scan roots.
Goals == [device : Devices, doomed : SUBSET SlotNumbers, scan : SUBSET Backups]

Doomed(j) == IF j.mode = "killslot" THEN {j.slot} ELSE SlotNumbers

\* A --fire command line: None stands for a flag that is not given.  `root` is
\* where --journal, or its default, has the state directory; `scan` holds the
\* backups below the --header-scan roots, all of them when none is given.
FireLines == [device : Devices \cup {None}, mode : Modes \cup {None},
              slot : OptSlot, recovery : OptSlot, ack : BOOLEAN,
              map : Maps \cup {None}, root : Roots, scan : SUBSET Backups]

\* A --resume command line: --map-name is its one optional flag.
ResumeLines == [device : Devices, slot : SlotNumbers, recovery : SlotNumbers,
                map : Maps \cup {None}]

ASSUME ConstantsAssumption ==
  /\ Disposable \in BOOLEAN
  /\ SlotNumbers \subseteq Nat
  /\ None \notin Nat /\ None \notin Devices /\ None \notin Maps
  /\ None \notin Modes
  /\ NoJournal \notin Journals /\ NoJournal \notin Goals
  /\ InitSlots \in [Devices -> SUBSET SlotNumbers]
  /\ RecordedTarget \in Devices \cup {None}
  /\ RecordedDaily \in OptSlot /\ RecordedRecovery \in OptSlot
  /\ FireArgs \subseteq FireLines /\ ResumeArgs \subseteq ResumeLines
  /\ TestNoPoweroff \in BOOLEAN
  /\ MaxCuts \in Nat /\ MaxFaults \in Nat

VARIABLES
  slots,     \* device -> active keyslots
  backups,   \* header backups whose LUKS magic still reads
  remnants,  \* overwritten ones that have not been unlinked
  journal,   \* the `inprogress` file, or NoJournal
  tmps,      \* pids whose `.inprogress.tmp.<pid>` exists
  env,       \* "off", or where the machine runs: one of Roots
  powerReq,  \* a forced poweroff has been accepted by the system
  pc,        \* pid -> step of its ds-erase
  mem,       \* pid -> the Journal value the process holds
  victim,    \* pid -> the backup it has identified and is about to remove
  passed,    \* pid -> backups its scan took for something else
  cuts,      \* power cuts so far
  faults,    \* failed calls so far
  requests,   \* history: the journals of accepted --fire command lines
  overlooked  \* history: backups that some scan could not read

diskVars == <<slots, backups, remnants, journal, tmps>>
scanVars == <<victim, passed>>
procVars == <<pc, mem, scanVars>>
hwVars   == <<env, powerReq, cuts, faults>>
histVars == <<requests, overlooked>>
vars     == <<diskVars, procVars, hwVars, histVars>>

Writing == {"create", "rename"}
Exited  == {"idle", "done", "failed"}
Steps   == Writing \cup {"scan", "shred", "unlink", "recovery", "active",
                         "kill", "verify", "final", "quiesce", "poweroff",
                         "remove"}

-----------------------------------------------------------------------------
(***************************************************************************)
(* Command line and journal validation                                     *)
(***************************************************************************)

\* validate_mode_slots: two distinct slots in 0..31, or none for a full erase.
ValidModeSlots(mode, slot, recovery) ==
  IF mode = "killslot"
  THEN slot \in 0..31 /\ recovery \in 0..31 /\ slot # recovery
  ELSE slot = None /\ recovery = None

\* parse_mode: no --mode means the recorded pair; a full erase needs its
\* acknowledgement; killslot may take the recovery slot from the record.
ParsedMode(a) ==
  CASE a.mode = None ->
         [mode |-> "killslot", slot |-> RecordedDaily,
          recovery |-> RecordedRecovery]
    [] a.mode = "killslot" ->
         [mode |-> "killslot", slot |-> a.slot,
          recovery |-> IF a.recovery # None THEN a.recovery
                                            ELSE RecordedRecovery]
    [] OTHER ->
         [mode |-> "erase", slot |-> a.slot, recovery |-> a.recovery]

\* Slip: the slot pair is not validated.
ParseModeOkUnchecked(a) ==
  /\ a.mode = None => a.slot = None /\ a.recovery = None
  /\ a.mode = "erase" => a.ack

ParseModeOk(a) ==
  LET m == ParsedMode(a)
  IN  /\ a.mode = None => a.slot = None /\ a.recovery = None
      /\ a.mode = "erase" => a.ack
      /\ ValidModeSlots(m.mode, m.slot, m.recovery)

\* --device, or else the configured target.
Target(a) == IF a.device # None THEN a.device ELSE RecordedTarget

\* validate_scan_roots: the root resolves only where the ESP is mounted there.
ScanRootResolves(root) == root = env

\* fire up to its write_journal: every bail leaves the disk untouched.
FireAccepts(a) ==
  /\ Disposable
  /\ Target(a) # None
  /\ ParseModeOk(a)
  /\ journal = NoJournal
  /\ ScanRootResolves(a.root)

\* Slip: the journal does not keep the mapping name.
PreparedJournalNoMap(a) ==
  LET m == ParsedMode(a)
  IN  [phase |-> "prepared", device |-> Target(a), mode |-> m.mode,
       slot |-> m.slot, recovery |-> m.recovery, map |-> None,
       root |-> a.root, scan |-> a.scan]

PreparedJournal(a) ==
  LET m == ParsedMode(a)
  IN  [phase |-> "prepared", device |-> Target(a), mode |-> m.mode,
       slot |-> m.slot, recovery |-> m.recovery, map |-> a.map,
       root |-> a.root, scan |-> a.scan]

\* resume up to its run_transaction: read_journal, then the trusted
\* expectations (mode and slots, device, and the mapping if it is given).
ResumeAccepts(r) ==
  /\ Disposable
  /\ ValidModeSlots("killslot", r.slot, r.recovery)
  /\ journal # NoJournal
  /\ ScanRootResolves(journal.root)
  /\ journal.mode = "killslot"
  /\ journal.slot = r.slot /\ journal.recovery = r.recovery
  /\ journal.device = r.device
  /\ r.map # None => journal.map = r.map

\* Slip: the keyslots before the header backups.
EntryStepSlotsFirst(j) ==
  CASE j.phase = "destroyed" -> "final"
    [] j.mode = "killslot" /\ j.phase # "destroyed" -> "recovery"
    [] OTHER -> "active"

\* Where run_transaction takes up a journal of this phase.
EntryStep(j) ==
  CASE j.phase = "prepared"  -> "scan"
    [] j.phase = "handled"   -> IF j.mode = "killslot" THEN "recovery"
                                                       ELSE "active"
    [] j.phase = "destroyed" -> "final"

-----------------------------------------------------------------------------
(***************************************************************************)
(* Starting and leaving a process                                          *)
(***************************************************************************)

Goto(p, step) == pc' = [pc EXCEPT ![p] = step]

\* The exists() test is here, the write three steps later: another process may
\* have put its own journal there in between.
Fire(p, a) ==
  /\ env # "off" /\ pc[p] = "idle"
  /\ \/ /\ FireAccepts(a)
        /\ mem' = [mem EXCEPT ![p] = PreparedJournal(a)]
        /\ Goto(p, "create")
        /\ requests' = requests \cup {PreparedJournal(a)}
     \/ /\ ~FireAccepts(a)
        /\ Goto(p, "failed")
        /\ UNCHANGED <<mem, requests>>
  /\ UNCHANGED <<diskVars, hwVars, scanVars, overlooked>>

Resume(p, r) ==
  /\ env # "off" /\ pc[p] = "idle"
  /\ \/ /\ ResumeAccepts(r)
        /\ mem' = [mem EXCEPT ![p] = journal]
        /\ Goto(p, EntryStep(journal))
     \/ /\ ~ResumeAccepts(r)
        /\ Goto(p, "failed")
        /\ UNCHANGED mem
  /\ UNCHANGED <<diskVars, hwVars, scanVars, histVars>>

\* The caller reaps the exit status, or the process was spawned and forgotten.
Reap(p) ==
  /\ pc[p] \in {"done", "failed"}
  /\ Goto(p, "idle")
  /\ mem' = [mem EXCEPT ![p] = NoJournal]
  /\ passed' = [passed EXCEPT ![p] = {}]
  /\ UNCHANGED <<diskVars, hwVars, victim, histVars>>

-----------------------------------------------------------------------------
(***************************************************************************)
(* write_journal: create_new on a per-pid temporary, rename over the file  *)
(***************************************************************************)

\* create_new fails on a temporary left by an earlier process of this pid;
\* the error path then removes that file.
CreateTmp(p) ==
  /\ pc[p] = "create"
  /\ \/ /\ p \notin tmps
        /\ tmps' = tmps \cup {p}
        /\ Goto(p, "rename")
     \/ /\ p \in tmps
        /\ tmps' = tmps \ {p}
        /\ Goto(p, "failed")
  /\ UNCHANGED <<slots, backups, remnants, journal, mem, scanVars, hwVars, histVars>>

RenameJournal(p) ==
  /\ pc[p] = "rename"
  /\ journal' = mem[p]
  /\ tmps' = tmps \ {p}
  /\ Goto(p, EntryStep(mem[p]))
  /\ UNCHANGED <<slots, backups, remnants, mem, scanVars, hwVars, histVars>>

\* journal.phase = ph, followed by write_journal.
Advance(p, ph) ==
  /\ mem' = [mem EXCEPT ![p].phase = ph]
  /\ Goto(p, "create")

-----------------------------------------------------------------------------
(***************************************************************************)
(* run_transaction, phase prepared: the header backups                     *)
(***************************************************************************)

\* is_luks_header_file says yes.
FindBackup(p, b) ==
  /\ pc[p] = "scan" /\ b \in (backups \cap mem[p].scan) \ passed[p]
  /\ victim' = [victim EXCEPT ![p] = b]
  /\ Goto(p, "shred")
  /\ UNCHANGED <<diskVars, mem, passed, hwVars, histVars>>

\* is_luks_header_file says no because the open or the read failed: the error
\* goes nowhere, and this scan does not come back to the file.
SkipBackup(p, b) ==
  /\ pc[p] = "scan" /\ b \in (backups \cap mem[p].scan) \ passed[p]
  /\ faults < MaxFaults /\ faults' = faults + 1
  /\ passed' = [passed EXCEPT ![p] = @ \cup {b}]
  /\ overlooked' = overlooked \cup {b}
  /\ UNCHANGED <<diskVars, pc, mem, victim, env, powerReq, cuts, requests>>

\* erase_header_file, up to shred's unlink: the magic is the first thing to be
\* overwritten, whoever else is overwriting the file.  Without shred, or with
\* one that cannot write, the file goes to remove_file as it is.
ShredBackup(p) ==
  /\ pc[p] = "shred"
  /\ \/ /\ victim[p] \in backups \cup remnants
        /\ backups' = backups \ {victim[p]}
        /\ remnants' = remnants \cup {victim[p]}
     \/ UNCHANGED <<backups, remnants>>
  /\ Goto(p, "unlink")
  /\ UNCHANGED <<slots, journal, tmps, mem, scanVars, hwVars, histVars>>

\* shred's unlink, else remove_file.  A file that another process has unlinked
\* fails both and ends the transaction.
UnlinkBackup(p) ==
  /\ pc[p] = "unlink"
  /\ backups' = backups \ {victim[p]}
  /\ remnants' = remnants \ {victim[p]}
  /\ Goto(p, IF victim[p] \in backups \cup remnants THEN "scan" ELSE "failed")
  /\ victim' = [victim EXCEPT ![p] = None]
  /\ UNCHANGED <<slots, journal, tmps, mem, passed, hwVars, histVars>>

\* Every backup below the scan roots has been erased or passed over.
ScanDone(p) == backups \cap mem[p].scan \subseteq passed[p]

\* Slip: the wrong phase is journalled.
BackupsHandledSkips(p) ==
  /\ pc[p] = "scan" /\ ScanDone(p)
  /\ Advance(p, "destroyed")
  /\ UNCHANGED <<diskVars, scanVars, hwVars, histVars>>

BackupsHandled(p) ==
  /\ pc[p] = "scan" /\ ScanDone(p)
  /\ Advance(p, "handled")
  /\ UNCHANGED <<diskVars, scanVars, hwVars, histVars>>

-----------------------------------------------------------------------------
(***************************************************************************)
(* run_transaction, phase handled: the keyslots                            *)
(***************************************************************************)

\* Slip: the recovery slot is not looked at first.
CheckRecoverySkipped(p) ==
  /\ pc[p] = "recovery"
  /\ Goto(p, "active")
  /\ UNCHANGED <<diskVars, mem, scanVars, hwVars, histVars>>

\* keyslot_active(recovery): refuse to destroy the daily slot without it.
CheckRecovery(p) ==
  /\ pc[p] = "recovery"
  /\ Goto(p, IF mem[p].recovery \in slots[mem[p].device]
             THEN "active" ELSE "failed")
  /\ UNCHANGED <<diskVars, mem, scanVars, hwVars, histVars>>

\* Is there anything left to destroy?  Read now, acted on in the next step.
CheckActive(p) ==
  /\ pc[p] = "active"
  /\ LET live == slots[mem[p].device]
         todo == IF mem[p].mode = "killslot" THEN mem[p].slot \in live
                                             ELSE live # {}
     IN  Goto(p, IF todo THEN "kill" ELSE "verify")
  /\ UNCHANGED <<diskVars, mem, scanVars, hwVars, histVars>>

\* Slip: luksErase whatever the mode.
DestroySlotsAll(p) ==
  /\ pc[p] = "kill"
  /\ slots' = [slots EXCEPT ![mem[p].device] = {}]
  /\ Goto(p, "verify")
  /\ UNCHANGED <<backups, remnants, journal, tmps, mem, scanVars, hwVars, histVars>>

\* luksKillSlot fails on a slot that is no longer active; luksErase does not
\* mind an empty header.
DestroySlots(p) ==
  LET dev == mem[p].device IN
  /\ pc[p] = "kill"
  /\ \/ /\ mem[p].mode = "killslot" /\ mem[p].slot \in slots[dev]
        /\ slots' = [slots EXCEPT ![dev] = @ \ {mem[p].slot}]
        /\ Goto(p, "verify")
     \/ /\ mem[p].mode = "killslot" /\ mem[p].slot \notin slots[dev]
        /\ Goto(p, "failed")
        /\ UNCHANGED slots
     \/ /\ mem[p].mode = "erase"
        /\ slots' = [slots EXCEPT ![dev] = {}]
        /\ Goto(p, "verify")
  /\ UNCHANGED <<backups, remnants, journal, tmps, mem, scanVars, hwVars, histVars>>

\* verify_keyslot_outcome.  Keyslots only disappear while actors run, so
\* reading the header once has the outcomes of reading it twice.
OutcomeVerified(j) ==
  IF j.mode = "killslot"
  THEN j.slot \notin slots[j.device] /\ j.recovery \in slots[j.device]
  ELSE slots[j.device] = {}

KeyslotsDestroyed(p) ==
  /\ pc[p] = "verify"
  /\ \/ OutcomeVerified(mem[p]) /\ Advance(p, "destroyed")
     \/ ~OutcomeVerified(mem[p]) /\ Goto(p, "failed") /\ UNCHANGED mem
  /\ UNCHANGED <<diskVars, scanVars, hwVars, histVars>>

-----------------------------------------------------------------------------
(***************************************************************************)
(* run_transaction, phase destroyed: quiesce, power off, clear the journal *)
(***************************************************************************)

FinalVerify(p) ==
  /\ pc[p] = "final"
  /\ Goto(p, IF ~OutcomeVerified(mem[p]) THEN "failed"
             ELSE IF TestNoPoweroff THEN "remove" ELSE "quiesce")
  /\ UNCHANGED <<diskVars, mem, scanVars, hwVars, histVars>>

\* `loginctl terminate-seat seat0` ends every process of the seat's sessions,
\* this one too when a login, lock screen or sudo of that seat spawned it.
Quiesce(p) ==
  /\ pc[p] = "quiesce"
  /\ \/ Goto(p, "poweroff")
     \/ env = "booted" /\ Goto(p, "failed")
  /\ UNCHANGED <<diskVars, mem, scanVars, hwVars, histVars>>

RequestPoweroff(p) ==
  /\ pc[p] = "poweroff"
  /\ powerReq' = TRUE
  /\ Goto(p, "remove")
  /\ UNCHANGED <<diskVars, mem, scanVars, env, cuts, faults, histVars>>

RemoveJournal(p) ==
  /\ pc[p] = "remove"
  /\ journal' = NoJournal
  /\ Goto(p, "done")
  /\ UNCHANGED <<slots, backups, remnants, tmps, mem, scanVars, hwVars, histVars>>

-----------------------------------------------------------------------------
(***************************************************************************)
(* Failures and power                                                      *)
(***************************************************************************)

\* Slip: the error path clears the journal too.
FaultForgets(p) ==
  /\ pc[p] \in Steps \ {"quiesce"} /\ faults < MaxFaults
  /\ faults' = faults + 1
  /\ journal' = NoJournal /\ tmps' = tmps \ {p}
  /\ victim' = [victim EXCEPT ![p] = None]
  /\ Goto(p, "failed")
  /\ UNCHANGED <<slots, backups, remnants, mem, passed, env, powerReq, cuts,
                 histVars>>

\* A system call or child process fails: the error propagates out of run,
\* write_journal's closure removing its temporary on the way.  A call that
\* took effect before failing is its successful step followed by this one; at
\* the scan it is a stat, a directory listing or the entry limit that fails.
\* quiesce_network_and_sessions ignores every failure.
Fault(p) ==
  /\ pc[p] \in Steps \ {"quiesce"} /\ faults < MaxFaults
  /\ faults' = faults + 1
  /\ tmps' = IF pc[p] \in Writing THEN tmps \ {p} ELSE tmps
  /\ victim' = [victim EXCEPT ![p] = None]
  /\ Goto(p, "failed")
  /\ UNCHANGED <<slots, backups, remnants, journal, mem, passed, env, powerReq,
                 cuts, histVars>>

\* Every process is gone; what is on disk stays.
LosePower ==
  /\ env' = "off" /\ powerReq' = FALSE
  /\ pc' = [p \in Procs |-> "idle"]
  /\ mem' = [p \in Procs |-> NoJournal]
  /\ victim' = [p \in Procs |-> None]
  /\ passed' = [p \in Procs |-> {}]
  /\ UNCHANGED <<diskVars, faults, histVars>>

PowerCut ==
  /\ env # "off" /\ cuts < MaxCuts
  /\ cuts' = cuts + 1
  /\ LosePower

\* The accepted poweroff races the rest of the process that requested it.
PowerDown ==
  /\ powerReq
  /\ LosePower
  /\ UNCHANGED cuts

\* An orderly shutdown, or the initramfs hook's `poweroff -f` after ds-erase.
Shutdown ==
  /\ env # "off" /\ \A p \in Procs : pc[p] \in Exited
  /\ LosePower
  /\ UNCHANGED cuts

\* The machine is switched on and reaches its initramfs, then its root.
Boot ==
  /\ env = "off"
  /\ env' = "initramfs"
  /\ UNCHANGED <<diskVars, procVars, powerReq, cuts, faults, histVars>>

EnterRoot ==
  /\ env = "initramfs" /\ \A p \in Procs : pc[p] \in Exited
  /\ env' = "booted"
  /\ UNCHANGED <<diskVars, procVars, powerReq, cuts, faults, histVars>>

-----------------------------------------------------------------------------
Init ==
  /\ slots = InitSlots /\ backups = Backups /\ remnants = {}
  /\ journal = NoJournal /\ tmps = {}
  /\ env = "booted" /\ powerReq = FALSE
  /\ pc = [p \in Procs |-> "idle"]
  /\ mem = [p \in Procs |-> NoJournal]
  /\ victim = [p \in Procs |-> None]
  /\ passed = [p \in Procs |-> {}]
  /\ cuts = 0 /\ faults = 0
  /\ requests = {} /\ overlooked = {}

\* One step of a running ds-erase.
Step(p) ==
  \/ CreateTmp(p) \/ RenameJournal(p)
  \/ (\E b \in Backups : FindBackup(p, b))
  \/ ShredBackup(p) \/ UnlinkBackup(p) \/ BackupsHandled(p)
  \/ CheckRecovery(p) \/ CheckActive(p) \/ DestroySlots(p)
  \/ KeyslotsDestroyed(p) \/ FinalVerify(p) \/ Quiesce(p)
  \/ RequestPoweroff(p) \/ RemoveJournal(p)

\* A failing call of a running ds-erase.
Failure(p) == Fault(p) \/ \E b \in Backups : SkipBackup(p, b)

Next ==
  \/ \E p \in Procs : (\E a \in FireArgs : Fire(p, a))
                      \/ (\E r \in ResumeArgs : Resume(p, r))
                      \/ Step(p) \/ Failure(p) \/ Reap(p)
  \/ PowerCut \/ PowerDown \/ Shutdown \/ Boot \/ EnterRoot

Spec == Init /\ [][Next]_vars

-----------------------------------------------------------------------------
(***************************************************************************)
(* Properties                                                              *)
(***************************************************************************)

\* A journal that was validated before it was written or used.
ValidJournal(j) ==
  j \in Journals /\ ValidModeSlots(j.mode, j.slot, j.recovery)

\* Every variable has its type, and a running process or the journal file
\* holds slots that passed validate_mode_slots: the "killslot journal missing
\* slot" errors of run_transaction cannot occur.
TypeOK ==
  /\ slots \in [Devices -> SUBSET SlotNumbers]
  /\ backups \subseteq Backups /\ remnants \subseteq Backups
  /\ journal # NoJournal => ValidJournal(journal)
  /\ tmps \subseteq Procs
  /\ env \in Roots \cup {"off"} /\ powerReq \in BOOLEAN
  /\ pc \in [Procs -> Steps \cup Exited]
  /\ mem \in [Procs -> Journals \cup {NoJournal}]
  /\ victim \in [Procs -> Backups \cup {None}]
  /\ passed \in [Procs -> SUBSET Backups]
  /\ cuts \in 0..MaxCuts /\ faults \in 0..MaxFaults
  /\ \A p \in Procs : pc[p] \in Steps => ValidJournal(mem[p])
  /\ \A r \in requests : ValidJournal(r)
  /\ overlooked \subseteq Backups

\* The journal's goal has been reached.
GoalReached(j) == slots[j.device] \cap Doomed(j) = {}

\* The accepted requests that are out to destroy this keyslot.
AskedFor(d, s) == {r \in requests : r.device = d /\ s \in Doomed(r)}

Lost(d) == InitSlots[d] \ slots[d]

\* A keyslot is lost only if an accepted request named it, or its device's
\* full erase was acknowledged, through any interleaving of actors, power
\* cuts and resumes of another actor's journal.
OnlyNamedSlotsLost ==
  \A d \in Devices : \A s \in Lost(d) : AskedFor(d, s) # {}

\* run_transaction's order: a keyslot goes after every header backup below the
\* scan roots of a request for it, whichever process and whichever boot
\* removed them; only one that a scan could not read is left.
BackupsBeforeSlots ==
  \A d \in Devices : \A s \in Lost(d) :
    \E r \in AskedFor(d, s) : backups \cap r.scan \subseteq overlooked

\* phase KeyslotsDestroyed is never a promise: a journal carrying it, and a
\* process on its way to power off or to unlink the journal, have their goal.
DestroyedMeansGone ==
  /\ journal # NoJournal /\ journal.phase = "destroyed" => GoalReached(journal)
  /\ \A p \in Procs :
       pc[p] \in {"quiesce", "poweroff", "remove"} => GoalReached(mem[p])

\* A full erase of the device was requested and acknowledged.
Acked(d) == \E r \in requests : r.mode = "erase" /\ r.device = d

\* One request relies on the slot that another one destroys.
Opposed(d) ==
  \E r, k \in requests : /\ r.mode = "killslot" /\ k.mode = "killslot"
                         /\ r.device = d /\ k.device = d /\ r.recovery = k.slot

\* "refusing daily-slot destruction": although the recovery slot is tested
\* before and the daily slot killed after, a device loses its last keyslot
\* only to an acknowledged full erase, or when two opposed requests both pass
\* the test.
KeepsAWayIn ==
  \A d \in Devices : slots[d] = {} /\ Lost(d) # {} => Acked(d) \/ Opposed(d)

\* All requests are after the same keyslots of the same device and scan for
\* the same backups.
SameGoalRequests ==
  \A a, b \in FireArgs :
    LET j == PreparedJournal(a)
        k == PreparedJournal(b)
    IN  ParseModeOk(a) /\ ParseModeOk(b)
        => /\ j.device = k.device /\ j.mode = k.mode /\ j.slot = k.slot
           /\ j.scan = k.scan

\* The intent ds-erase has on disk.
PendingGoal ==
  IF journal = NoJournal THEN NoJournal
  ELSE [device |-> journal.device, doomed |-> Doomed(journal),
        scan |-> journal.scan]

Contract == INSTANCE DestructionContract
              WITH pending <- PendingGoal, NoGoal <- NoJournal

\* Processes, phases, temporaries, faults and power cuts implement the
\* contract: journal before backups, readable backups before keyslots, and the
\* journal cleared only when its goal is reached.
ImplementsContract == Contract!Spec

\* fire's "journal already exists; use --resume": where the journal's
\* directory is mounted and no actor is at work, some --resume accepts it.
ExistingJournalResumable ==
  /\ journal # NoJournal /\ env # "off" /\ ScanRootResolves(journal.root)
  /\ \A p \in Procs : pc[p] \in Exited
  => \E r \in ResumeLines : ResumeAccepts(r)

\* "Remove LUKS-header backup files under explicitly configured roots": with
\* the whole state directory as root, once a keyslot is gone no backup that
\* could bring it back is left there, whole or in part.
NoBackupOutlivesSlots ==
  (\E d \in Devices : Lost(d) # {}) => backups = {} /\ remnants = {}

\* The recovery slot survives a wipe unless `--mode erase --destroy-recovery`
\* was asked for: so a device never loses its last keyslot otherwise.
LastSlotNeedsAck ==
  \A d \in Devices : slots[d] = {} /\ Lost(d) # {} => Acked(d)
=============================================================================
