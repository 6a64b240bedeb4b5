---------------------------- MODULE PamAttempts ----------------------------
(***************************************************************************)
(* pam_ds and the attempt counter of ds-core on an armed, booted machine:  *)
(* login, lock screen and sudo each run the PAM stack in a process of      *)
(* their own and share one counter file, which no lock guards.             *)
(*                                                                         *)
(*   unix -> read -> create -> rename -> [fire]   a rejected password      *)
(*   unix -> reset                                an accepted one          *)
(*                                                                         *)
(* A step is one system call that another process, or a power cut, can     *)
(* come between.                                                           *)
(***************************************************************************)
EXTENDS Naturals, FiniteSets

CONSTANTS
  Procs,      \* process ids of PAM clients; a reboot reuses them
  WipeAt,     \* DEFAULT_WIPE_AT: pam_ds does not read the configured policy
  MaxWrong,   \* bound: rejected passwords
  MaxCuts,    \* bound: power cuts
  MaxFaults   \* bound: failing calls

ASSUME PamAssumption ==
  /\ IsFiniteSet(Procs) /\ WipeAt \in Nat \ {0}
  /\ MaxWrong \in Nat /\ MaxCuts \in Nat /\ MaxFaults \in Nat

VARIABLES
  count,     \* the `attempts` file: its count, 0 when it does not exist
  tmps,      \* pids whose `.attempts.tmp.<pid>` exists
  pc,        \* pid -> step of its PAM conversation
  next,      \* pid -> the count it is about to write
  fired,     \* ds-erase has been launched
  duress,    \* history: the duress code has been entered
  wrong,     \* history: passwords rejected
  since,     \* history: passwords rejected since the counter was cleared
  longest,   \* history: the most that `since` has been
  streak,    \* history: passwords rejected since the counter was cleared with
             \*   no failure on its way into it
  overlap,   \* history: two processes were in the counter at once
  cuts, faults

tallies == <<since, longest, streak>>
hist == <<duress, wrong, tallies, overlap>>
vars == <<count, tmps, pc, next, fired, hist, cuts, faults>>

Counting == {"read", "create", "rename"}
InCounter == Counting \cup {"reset"}
Running   == InCounter \cup {"unix", "fire"}

Goto(p, step) == pc' = [pc EXCEPT ![p] = step]

\* Some other process is between its first and its last access to the file.
Busy(p) == \E q \in Procs \ {p} : pc[q] \in InCounter

-----------------------------------------------------------------------------
(***************************************************************************)
(* preauth_and_duress and pam_unix                                         *)
(***************************************************************************)

\* The duress code: launch the wipe, deny.
EnterDuress(p) ==
  /\ pc[p] = "idle"
  /\ duress' = TRUE /\ Goto(p, "fire")
  /\ UNCHANGED <<count, tmps, next, fired, wrong, tallies, overlap, cuts, faults>>

\* Any other secret is left to pam_unix.
EnterSecret(p) ==
  /\ pc[p] = "idle" /\ Goto(p, "unix")
  /\ UNCHANGED <<count, tmps, next, fired, hist, cuts, faults>>

\* pam_unix rejects it: the stack goes on to `authfail`.
Rejected(p) ==
  /\ pc[p] = "unix" /\ wrong < MaxWrong
  /\ wrong' = wrong + 1 /\ since' = since + 1 /\ streak' = streak + 1
  /\ longest' = IF since' > longest THEN since' ELSE longest
  /\ overlap' = (overlap \/ Busy(p))
  /\ Goto(p, "read")
  /\ UNCHANGED <<count, tmps, next, fired, duress, cuts, faults>>

\* pam_unix accepts it: the stack goes on to `authsucc`.
Accepted(p) ==
  /\ pc[p] = "unix"
  /\ overlap' = (overlap \/ Busy(p))
  /\ Goto(p, "reset")
  /\ UNCHANGED <<count, tmps, next, fired, duress, wrong, tallies, cuts, faults>>

-----------------------------------------------------------------------------
(***************************************************************************)
(* on_authfail: record_failure is a read, an atomic_write and a comparison *)
(***************************************************************************)

ReadCount(p) ==
  /\ pc[p] = "read"
  /\ next' = [next EXCEPT ![p] = count + 1] /\ Goto(p, "create")
  /\ UNCHANGED <<count, tmps, fired, hist, cuts, faults>>

\* Slip: the error path leaves the temporary where it is.
CreateTmpKeeps(p) ==
  /\ pc[p] = "create"
  /\ \/ p \notin tmps /\ tmps' = tmps \cup {p} /\ Goto(p, "rename")
     \/ p \in tmps /\ UNCHANGED tmps /\ Goto(p, "idle")
  /\ UNCHANGED <<count, next, fired, hist, cuts, faults>>

\* create_new fails on a temporary a power cut left; the error path removes
\* it, and the failure stays uncounted.
CreateTmp(p) ==
  /\ pc[p] = "create"
  /\ \/ p \notin tmps /\ tmps' = tmps \cup {p} /\ Goto(p, "rename")
     \/ p \in tmps /\ tmps' = tmps \ {p} /\ Goto(p, "idle")
  /\ UNCHANGED <<count, next, fired, hist, cuts, faults>>

\* Slip: the limit is compared with the count before this failure.
RenameCountLate(p) ==
  /\ pc[p] = "rename"
  /\ count' = next[p] /\ tmps' = tmps \ {p}
  /\ Goto(p, IF count >= WipeAt THEN "fire" ELSE "idle")
  /\ UNCHANGED <<next, fired, hist, cuts, faults>>

\* Slip: the temporary's name lacks the pid, so that all writers share it.
RenameCountShared(p) ==
  /\ pc[p] = "rename"
  /\ count' = next[p] /\ tmps' = {}
  /\ Goto(p, IF next[p] >= WipeAt THEN "fire" ELSE "idle")
  /\ UNCHANGED <<next, fired, hist, cuts, faults>>

\* should_wipe is asked about the count just written; below it there is only
\* the warning and its delay.
RenameCount(p) ==
  /\ pc[p] = "rename"
  /\ count' = next[p] /\ tmps' = tmps \ {p}
  /\ Goto(p, IF next[p] >= WipeAt THEN "fire" ELSE "idle")
  /\ UNCHANGED <<next, fired, hist, cuts, faults>>

\* fire: spawned, not waited for.
Launch(p) ==
  /\ pc[p] = "fire"
  /\ fired' = TRUE /\ Goto(p, "idle")
  /\ UNCHANGED <<count, tmps, next, hist, cuts, faults>>

\* No failure is between its first and its last access to the counter.
NoneCounting == \A q \in Procs : pc[q] \notin Counting

\* Slip: the counter survives the success.
ResetCountKeeps(p) ==
  /\ pc[p] = "reset"
  /\ since' = 0 /\ streak' = (IF NoneCounting THEN 0 ELSE streak)
  /\ Goto(p, "idle")
  /\ UNCHANGED <<count, tmps, next, fired, duress, wrong, longest, overlap, cuts, faults>>

\* reset_attempts removes the file.
ResetCount(p) ==
  /\ pc[p] = "reset"
  /\ count' = 0 /\ since' = 0 /\ streak' = (IF NoneCounting THEN 0 ELSE streak)
  /\ Goto(p, "idle")
  /\ UNCHANGED <<tmps, next, fired, duress, wrong, longest, overlap, cuts, faults>>

-----------------------------------------------------------------------------
\* A call fails: the attempt is denied, or after pam_unix's success admitted
\* (`authsucc` is optional). The counter stays as it is, unless what fails is
\* atomic_write's sync of the directory: the new count is then in place, and
\* nobody asks whether it has reached the limit.
Fault(p) ==
  /\ pc[p] \in Running \ {"unix"} /\ faults < MaxFaults
  /\ faults' = faults + 1
  /\ \/ UNCHANGED count
     \/ pc[p] = "rename" /\ count' = next[p]
  /\ tmps' = IF pc[p] \in {"create", "rename"} THEN tmps \ {p} ELSE tmps
  /\ Goto(p, "idle")
  /\ UNCHANGED <<next, fired, hist, cuts>>

PowerCut ==
  /\ cuts < MaxCuts /\ cuts' = cuts + 1
  /\ pc' = [p \in Procs |-> "idle"]
  /\ UNCHANGED <<count, tmps, next, fired, hist, faults>>

Init ==
  /\ count = 0 /\ tmps = {} /\ fired = FALSE /\ duress = FALSE
  /\ pc = [p \in Procs |-> "idle"] /\ next = [p \in Procs |-> 0]
  /\ wrong = 0 /\ since = 0 /\ longest = 0 /\ streak = 0 /\ overlap = FALSE /\ cuts = 0 /\ faults = 0

Next ==
  \/ \E p \in Procs :
       \/ EnterDuress(p) \/ EnterSecret(p) \/ Rejected(p) \/ Accepted(p)
       \/ ReadCount(p) \/ CreateTmp(p) \/ RenameCount(p) \/ Launch(p)
       \/ ResetCount(p) \/ Fault(p)
  \/ PowerCut

Spec == Init /\ [][Next]_vars

-----------------------------------------------------------------------------
(***************************************************************************)
(* Properties                                                              *)
(***************************************************************************)

\* The types, and that a process about to rename still has its temporary.
PTypeOK ==
  /\ count \in Nat /\ tmps \subseteq Procs
  /\ pc \in [Procs -> Running \cup {"idle"}] /\ next \in [Procs -> Nat]
  /\ \A p \in Procs : pc[p] = "rename" => p \in tmps
  /\ fired \in BOOLEAN /\ duress \in BOOLEAN /\ overlap \in BOOLEAN
  /\ wrong \in 0..MaxWrong /\ streak \in 0..wrong /\ since \in 0..streak
  /\ longest \in since..wrong
  /\ cuts \in 0..MaxCuts /\ faults \in 0..MaxFaults

\* Processes that have had a password rejected and not yet read the counter.
Reading == {p \in Procs : pc[p] = "read"}

\* However the processes interleave, and whatever is cut off or fails, what
\* fires the wipe without the duress code is a run of rejected passwords as
\* long as the limit says. A success ends the run unless it fails to clear
\* the counter or clears it while a failure is being written there.
WipesForCause ==
  [][\A p \in Procs : pc[p] \in Counting /\ pc'[p] = "fire" => streak >= WipeAt]_vars

\* A wipe has been launched, or is about to be.
Fires == fired \/ \E p \in Procs : pc[p] = "fire"

\* Failures on their way into the file.
InFlight == Cardinality({p \in Procs : pc[p] \in Counting})

\* One process in the counter at a time: the count is the number of
\* consecutive failures, but for those that a power cut (two: the one it
\* interrupts, and the one that trips over the temporary it left) or a failed
\* call (one) keeps out.
FailuresCounted ==
  ~overlap => /\ since <= count + 2 * cuts + faults + InFlight
              /\ count + InFlight <= since

\* A count at the limit has had its wipe launched, or is about to, unless the
\* power was cut or a call failed in between.
LimitFires ==
  count >= WipeAt /\ cuts = 0 /\ faults = 0 => Fires

\* With neither power cut nor failed call the wipe fires only after the duress
\* code or a run of WipeAt failures with no success between them ...
FiresOnlyAtLimit == Fires => duress \/ longest >= WipeAt

\* ... and such a run, once nobody is writing it down any more, has fired it.
FiresAtLimit == since >= WipeAt /\ InFlight = 0 => Fires

\* "at `wipe_at` consecutive failures -> fire the crypto-erase", "reset on ANY
\* successful auth", of record_failure and reset_attempts.
WipesAtLimit == cuts = 0 /\ faults = 0 => FiresOnlyAtLimit /\ FiresAtLimit
=============================================================================
