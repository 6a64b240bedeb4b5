------------------------------ MODULE PreBoot ------------------------------
(***************************************************************************)
(* An armed machine from power-on to root and back: the initramfs hook and *)
(* ds-unlock in front of the LUKS root, composed with EraseActor, which    *)
(* both of them and the booted system's triggers start.                    *)
(*                                                                         *)
(*   start -> waiting (resume)            a journal is there               *)
(*   start -> wipe -> waiting (fire)      the counter is at the limit      *)
(*   start -> prompt -> wipe              duress phrase                    *)
(*            prompt -> reset -> root     a key opens the container        *)
(*            prompt -> bump -> prompt    anything else, until the limit   *)
(*                                                                         *)
(* ds-unlock waits for its ds-erase; whatever that returns, the hook powers *)
(* the machine off.  The counter on the ESP survives the power.            *)
(***************************************************************************)
EXTENDS EraseActor, FiniteSets

CONSTANTS
  LockoutAt, WipeAt, MaxPrompts,   \* the armed policy
  BootDevice, BootMap,             \* device and dm name of cryptdevice=
  UnlockPids,                      \* process ids ds-unlock runs under
  MaxUnlockFaults                  \* bound: failing calls of ds-unlock

VARIABLES
  upc,      \* step of the hook and of ds-unlock, "off" outside the initramfs
  left,     \* prompts left in ds-unlock's loop
  counter,  \* ESP: counter
  upid,     \* process id of this boot's ds-unlock
  ctmps,    \* ESP: the pids whose `.counter.tmp.<pid>` exists
  guesses,  \* history: secrets rejected since the counter was last cleared
  ufaults   \* failed calls so far

unlockVars == <<upc, upid, left, counter, ctmps, guesses, ufaults>>
mvars      == <<vars, unlockVars>>

\* Policy::validate.  lockout_at only paces and warns.
ValidPolicy(lockout, wipe, prompts) ==
  /\ 1 <= lockout /\ lockout < wipe
  /\ wipe <= prompts /\ prompts <= 20

\* do_wipe's and resume_wipe's command lines.
WipeLine   == [device |-> BootDevice, mode |-> "killslot",
               slot |-> RecordedDaily, recovery |-> RecordedRecovery,
               ack |-> FALSE, map |-> BootMap, root |-> "initramfs",
               scan |-> Backups]
ResumeLine == [device |-> BootDevice, slot |-> RecordedDaily,
               recovery |-> RecordedRecovery, map |-> BootMap]

ASSUME PreBootAssumption ==
  /\ LockoutAt \in Nat /\ WipeAt \in Nat /\ MaxPrompts \in Nat
  /\ ValidPolicy(LockoutAt, WipeAt, MaxPrompts)
  /\ BootDevice \in Devices /\ BootMap \in Maps /\ MaxUnlockFaults \in Nat
  /\ IsFiniteSet(UnlockPids) /\ UnlockPids # {}
  /\ WipeLine \in FireArgs /\ ResumeLine \in ResumeArgs

Writes == {"bump", "bumpRename", "reset", "resetRename"}
Calls  == {"start", "prompt", "wipe"} \cup Writes
Asking == {"prompt", "root"} \cup Writes

-----------------------------------------------------------------------------
(***************************************************************************)
(* Power-on and ds-unlock's first decision                                 *)
(***************************************************************************)

\* The machine boots with the command line it was armed under: the hook's two
\* early returns (no cryptdevice=, or a mapping that an earlier hook opened)
\* never come to ds-unlock and are not boots of this model.
PowerOn ==
  /\ Boot /\ upc' = "start" /\ upid' \in UnlockPids
  /\ UNCHANGED <<left, counter, ctmps, guesses, ufaults>>

\* Slip: the journal is only looked at after the counter.
StartCounterFirst ==
  /\ upc = "start"
  /\ upc' = IF counter >= WipeAt THEN "wipe" ELSE "prompt"
  /\ left' = MaxPrompts
  /\ UNCHANGED <<vars, upid, counter, ctmps, guesses, ufaults>>

\* Slip: a count at the limit is no reason to wipe before the prompt.
StartPrompts ==
  /\ upc = "start"
  /\ \/ /\ journal # NoJournal /\ upc' = "waiting"
        /\ \E p \in Procs : Resume(p, ResumeLine)
     \/ /\ journal = NoJournal /\ upc' = "prompt"
        /\ UNCHANGED vars
  /\ left' = MaxPrompts
  /\ UNCHANGED <<upid, counter, ctmps, guesses, ufaults>>

\* run up to its loop: finish what was begun, then the limit, then ask.
Start ==
  /\ upc = "start"
  /\ \/ /\ journal # NoJournal /\ upc' = "waiting"
        /\ \E p \in Procs : Resume(p, ResumeLine)
     \/ /\ journal = NoJournal /\ counter >= WipeAt
        /\ upc' = "wipe" /\ UNCHANGED vars
     \/ /\ journal = NoJournal /\ counter < WipeAt
        /\ upc' = "prompt" /\ UNCHANGED vars
  /\ left' = MaxPrompts
  /\ UNCHANGED <<upid, counter, ctmps, guesses, ufaults>>

-----------------------------------------------------------------------------
(***************************************************************************)
(* The prompt loop                                                         *)
(***************************************************************************)

TypeDuress ==
  /\ upc = "prompt"
  /\ upc' = "wipe" /\ left' = left - 1
  /\ UNCHANGED <<vars, upid, counter, ctmps, guesses, ufaults>>

\* The secret of an active keyslot: luks_open creates the mapping.
TypeKey ==
  /\ upc = "prompt" /\ slots[BootDevice] # {}
  /\ upc' = "reset" /\ left' = left - 1
  /\ UNCHANGED <<vars, upid, counter, ctmps, guesses, ufaults>>

\* It opens nothing.  The guess is spent before it is counted.
TypeWrong ==
  /\ upc = "prompt"
  /\ upc' = "bump" /\ left' = left - 1
  /\ guesses' = guesses + 1
  /\ UNCHANGED <<vars, upid, counter, ctmps, ufaults>>

\* cryptsetup fails for another reason: its exit status says no more.
OpenFails ==
  /\ upc = "prompt" /\ ufaults < MaxUnlockFaults
  /\ upc' = "bump" /\ left' = left - 1
  /\ ufaults' = ufaults + 1
  /\ UNCHANGED <<vars, upid, counter, ctmps, guesses>>

\* write_count, first half: a temporary left by a power cut fails create_new
\* once, and the error path removes it.
CountTmp ==
  /\ upc \in {"bump", "reset"}
  /\ \/ /\ upid \in ctmps /\ ctmps' = ctmps \ {upid}
        /\ upc' = "halt"
     \/ /\ upid \notin ctmps /\ ctmps' = ctmps \cup {upid}
        /\ upc' = IF upc = "bump" THEN "bumpRename" ELSE "resetRename"
  /\ UNCHANGED <<vars, upid, left, counter, guesses, ufaults>>

\* Slip: the counter is tested before it is bumped.
BumpRenameLate ==
  /\ upc = "bumpRename"
  /\ ctmps' = ctmps \ {upid} /\ counter' = counter + 1
  /\ upc' = IF counter >= WipeAt THEN "wipe"
            ELSE IF left = 0 THEN "exhausted" ELSE "prompt"
  /\ UNCHANGED <<vars, upid, left, guesses, ufaults>>

\* Slip: the counter is held in memory until the lockout line.
BumpRenameLazy ==
  /\ upc = "bumpRename"
  /\ ctmps' = ctmps \ {upid} /\ counter' = IF left = 0 THEN MaxPrompts ELSE counter
  /\ upc' = IF left = 0 THEN "wipe" ELSE "prompt"
  /\ UNCHANGED <<vars, upid, left, guesses, ufaults>>

\* bump_count's second half and the escalation; "exhausted" is the loop's end
\* with its "too many attempts".
BumpRename ==
  /\ upc = "bumpRename"
  /\ ctmps' = ctmps \ {upid} /\ counter' = counter + 1
  /\ upc' = IF counter' >= WipeAt THEN "wipe"
            ELSE IF left = 0 THEN "exhausted" ELSE "prompt"
  /\ UNCHANGED <<vars, upid, left, guesses, ufaults>>

ResetRename ==
  /\ upc = "resetRename"
  /\ ctmps' = ctmps \ {upid} /\ counter' = 0 /\ guesses' = 0
  /\ upc' = "root"
  /\ UNCHANGED <<vars, upid, left, ufaults>>

-----------------------------------------------------------------------------
(***************************************************************************)
(* ds-erase, errors, and the hook's two ways out                           *)
(***************************************************************************)

\* Slip: ds-erase is spawned and not waited for.
DoWipeSpawns ==
  /\ upc = "wipe" /\ upc' = "halt"
  /\ \E p \in Procs : Fire(p, WipeLine)
  /\ UNCHANGED <<upid, left, counter, ctmps, guesses, ufaults>>

DoWipe ==
  /\ upc = "wipe" /\ upc' = "waiting"
  /\ \E p \in Procs : Fire(p, WipeLine)
  /\ UNCHANGED <<upid, left, counter, ctmps, guesses, ufaults>>

\* status() returns: 0 makes ds-unlock exit with 2, anything else with 1.
ChildExits ==
  /\ upc = "waiting" /\ upc' = "halt"
  /\ \E p \in Procs : Reap(p)
  /\ UNCHANGED <<upid, left, counter, ctmps, guesses, ufaults>>

\* A missing, unreadable or mismatched ESP file, a failed write or spawn.
UnlockFault ==
  /\ upc \in Calls /\ ufaults < MaxUnlockFaults
  /\ ufaults' = ufaults + 1 /\ upc' = "halt"
  /\ ctmps' = IF upc \in Writes THEN ctmps \ {upid} ELSE ctmps
  /\ UNCHANGED <<vars, upid, left, counter, guesses>>

\* deathstroke_halt.
HookHalts ==
  /\ upc \in {"halt", "exhausted"}
  /\ Shutdown /\ upc' = "off"
  /\ UNCHANGED <<upid, left, counter, ctmps, guesses, ufaults>>

\* rc = 0 and the mapping is there: the boot goes on to its root.
HookReturns ==
  /\ upc = "root"
  /\ EnterRoot /\ upc' = "off"
  /\ UNCHANGED <<upid, left, counter, ctmps, guesses, ufaults>>

-----------------------------------------------------------------------------
(***************************************************************************)
(* The booted system, ds-erase's own steps and the power                   *)
(***************************************************************************)

\* pam_ds, dsctl panic, deadman-check, and `ds-erase --resume` by hand.
BootedTrigger ==
  /\ env = "booted"
  /\ \E p \in Procs : \/ \E a \in FireArgs : a.root = "booted" /\ Fire(p, a)
                      \/ \E r \in ResumeArgs : r.map = None /\ Resume(p, r)
                      \/ Reap(p)
  /\ UNCHANGED unlockVars

ActorStep(p)  == Step(p) /\ UNCHANGED unlockVars
ActorFault(p) == Failure(p) /\ UNCHANGED unlockVars

CutPower ==
  /\ PowerCut /\ upc' = "off"
  /\ UNCHANGED <<upid, left, counter, ctmps, guesses, ufaults>>

PoweredDown ==
  /\ PowerDown /\ upc' = "off"
  /\ UNCHANGED <<upid, left, counter, ctmps, guesses, ufaults>>

OwnerShutdown ==
  /\ env = "booted" /\ Shutdown
  /\ UNCHANGED unlockVars

MInit ==
  /\ Init
  /\ upc = "off" /\ upid \in UnlockPids /\ left = 0
  /\ counter = 0 /\ ctmps = {}
  /\ guesses = 0 /\ ufaults = 0

UnlockStep ==
  \/ Start \/ CountTmp \/ BumpRename \/ ResetRename \/ DoWipe \/ ChildExits
  \/ HookHalts \/ HookReturns

MNext ==
  \/ PowerOn \/ UnlockStep
  \/ TypeDuress \/ TypeKey \/ TypeWrong \/ OpenFails \/ UnlockFault
  \/ BootedTrigger
  \/ \E p \in Procs : ActorStep(p) \/ ActorFault(p)
  \/ CutPower \/ PoweredDown \/ OwnerShutdown

\* Running processes make progress, an accepted poweroff takes effect and the
\* machine is switched on again.  Nobody is obliged to type, to trigger, to
\* shut down, to cut the power or to fail.
Fairness ==
  /\ WF_mvars(UnlockStep) /\ WF_mvars(PowerOn) /\ WF_mvars(PoweredDown)
  /\ \A p \in Procs : WF_mvars(ActorStep(p))

MSafety == MInit /\ [][MNext]_mvars
MSpec   == MSafety /\ Fairness

-----------------------------------------------------------------------------
(***************************************************************************)
(* Properties                                                              *)
(***************************************************************************)

\* The types of ds-unlock's state, and where it runs: only in the initramfs,
\* with at most its own ds-erase beside it.
MTypeOK ==
  /\ TypeOK
  /\ upc \in Calls \cup {"off", "waiting", "halt", "exhausted", "root"}
  /\ left \in 0..MaxPrompts /\ counter \in Nat /\ guesses \in Nat
  /\ ctmps \subseteq UnlockPids /\ upid \in UnlockPids
  /\ ufaults \in 0..MaxUnlockFaults
  /\ (upc = "off") <=> (env # "initramfs")
  /\ env = "initramfs" /\ upc # "waiting" => \A p \in Procs : pc[p] = "idle"

\* "Resume an interrupted destructive transaction before accepting any
\* credential": while ds-unlock asks, tests or accepts one, no journal exists
\* and the counter is below the wipe line, whatever earlier boots left.
NoCredentialWhilePending ==
  upc \in Asking => journal = NoJournal /\ counter < WipeAt

\* The prompt loop never ends in "too many attempts": a validated policy
\* reaches the wipe line first, also with a count from earlier boots.
PromptsSuffice == upc # "exhausted"

\* A guess is tested before it is counted, so some escape the counter: a power
\* cut costs at most two (the one it interrupts, and the one that trips over
\* the temporary it left), a failed call one.  Nothing but a failed open is
\* ever counted.
GuessesCounted ==
  LET beingCounted == IF upc \in {"bump", "bumpRename"} THEN 1 ELSE 0
  IN  /\ guesses <= counter + 2 * cuts + ufaults + beingCounted
      /\ counter <= guesses + ufaults

\* A journal that a boot wrote names the device, slots, mapping and scan root that
\* every later boot expects: at no phase does the resume refuse it.
OwnWipeResumes ==
  upc = "start" /\ journal # NoJournal /\ journal.root = "initramfs"
    => ResumeAccepts(ResumeLine)

\* Each step of the machine is a step of EraseActor or leaves its state alone,
\* so EraseActor's theorems hold of the machine.
RunsAnActor == Spec

DailyGone == RecordedDaily \notin slots[BootDevice]

\* The safety half of LimitIsFinal: once the limit is on the ESP, no step of any
\* later boot takes it back or lets the machine through to its root, whichever
\* key is typed.
LimitHolds ==
  [][counter >= WipeAt => counter' >= WipeAt /\ (env' = "booted" => env = "booted")]_mvars

\* "A count already at/over the wipe line (e.g. a prior boot hit the limit but
\* power-cut before the erase finished) means erase now": the daily slot goes,
\* through further power cuts, failures and stale temporaries.
LimitIsFinal == counter >= WipeAt ~> DailyGone

\* A transaction journalled in the initramfs is completed by later boots.
PrebootWipeCompletes ==
  (journal # NoJournal /\ journal.root = "initramfs") ~> DailyGone

\* "the real initramfs must detect .../inprogress ... and refuse ordinary root
\* unlock until `ds-erase --resume` finishes", after which the daily credential
\* no longer opens the container: so for a journal of any trigger.
AnyWipeCompletes == (journal # NoJournal) ~> DailyGone
=============================================================================
