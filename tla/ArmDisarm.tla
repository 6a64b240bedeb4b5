----------------------------- MODULE ArmDisarm -----------------------------
(***************************************************************************)
(* dsctl arm and dsctl disarm: two transactions over eleven files and one  *)
(* generated image, each with its own rollback, against failing calls,     *)
(* power cuts at any point and package upgrades that rebuild the initramfs *)
(* in between.                                                             *)
(*                                                                         *)
(* A transaction is a fixed list of writes.  The first one that fails      *)
(* starts the rollback list, in which failures are collected, not obeyed.  *)
(* One arm or disarm runs at a time, which nothing in the code enforces; a *)
(* set-duress may be waiting at its prompt meanwhile.                      *)
(***************************************************************************)
EXTENDS Naturals, Sequences, PamStack, HookEdit

CONSTANTS
  Absent,      \* a file that does not exist
  NoHook,      \* an initramfs image without the deathstroke hook
  Unbootable,  \* one that lacks the hook which unlocks the root device
  Sites,       \* [pam, conf]: the auth rules and HOOKS lines found installed
  MaxVersion,  \* bound: enrolled verifiers and policies
  MaxCuts,     \* bound: power cuts
  MaxFaults    \* bound: failing calls

Versions == 1..MaxVersion

\* What the install hook freezes into the image, and ds-unlock compares.
Baked   == {"duress.hash", "config", "daily.slot", "recovery.slot"}
Markers == {"ARMED", "armed"}       \* /etc/arxos/deathstroke, ESP
Files   == Baked \cup Markers \cup {"counter", "pam", "bak", "conf"}

Contents(f) ==
  CASE f \in Baked   -> Versions \cup {Absent}
    [] f \in Markers -> {"present", Absent}
    [] f = "counter" -> {0, 1, Absent}       \* 1: some failures
    [] f = "pam"     -> {"stock", "armed"}   \* the site's rules, as module
    [] f = "bak"     -> {"stock", Absent}    \* PamStack edits them

ASSUME ArmAssumption ==
  /\ MaxVersion \in Nat \ {0} /\ MaxCuts \in Nat /\ MaxFaults \in Nat
  /\ Absent \notin Nat /\ Absent \notin {"present", "stock"} /\ NoHook # Unbootable
  /\ {NoHook, Unbootable} \cap [Baked -> Versions \cup {Absent}] = {}

\* The installer leaves HOOKS as it is.
ASSUME SitesAssumption ==
  \A c \in Sites :
    c.pam \in Seq(Rules) /\ c.conf \in Seq(STRING) /\ ~Found(c.conf, "deathstroke")

VARIABLES
  disk,     \* file -> content
  image,    \* the initramfs: NoHook, Unbootable, or what it has baked in
  site,     \* what arm finds installed
  local,    \* version of the enrolled verifier and policy (and slot pair)
  take,     \* the version the running arm has read
  sd,       \* set-duress: "none", "alone", or "crossed" by arm or disarm
  stale,    \* history: a set-duress that overlapped a command has written
  cmd,      \* the list being carried out
  at,       \* position in it
  snap,     \* the disk as the command found it
  errs,     \* a rollback step has failed
  res,      \* what the last command reported
  torn,     \* history: lists a power cut broke off or that ended incomplete
  cuts, faults

enrol == <<local, take, sd, stale>>
vars == <<disk, image, site, enrol, cmd, at, snap, errs, res, torn, cuts, faults>>

-----------------------------------------------------------------------------
(***************************************************************************)
(* The lists                                                               *)
(***************************************************************************)

\* Slip: PAM goes live before the image is rebuilt.
ArmPlanPamEarly ==
  <<"bak", "duress.hash", "config", "counter", "daily.slot", "recovery.slot",
    "ARMED", "pam", "conf", "mkinitcpio", "armed">>

\* Slip: the marker that build() asks for is written after the build.
ArmPlanMarkerLate ==
  <<"bak", "duress.hash", "config", "counter", "daily.slot", "recovery.slot",
    "conf", "mkinitcpio", "ARMED", "armed", "pam">>

\* arm: the PAM backup, sync_esp_state, and the commit points.
ArmPlan ==
  <<"bak", "duress.hash", "config", "counter", "daily.slot", "recovery.slot",
    "ARMED", "conf", "mkinitcpio", "armed", "pam">>

\* Slip: the rolled-back initramfs is not rebuilt.
ArmBackPlanNoRebuild ==
  <<"pam", "conf", "ARMED", "duress.hash", "config", "counter", "daily.slot",
    "recovery.slot", "armed">>

ArmBackPlan ==
  <<"pam", "conf", "ARMED", "duress.hash", "config", "counter", "daily.slot",
    "recovery.slot", "armed", "mkinitcpio">>

\* Slip: the image is rebuilt before the hook leaves HOOKS.
DisarmPlanRebuildsEarly ==
  <<"pam", "mkinitcpio", "ARMED", "armed", "conf", "bak">>

\* Slip: the backup is removed first.
DisarmPlanDropsBackup == <<"bak", "pam", "ARMED", "armed", "conf", "mkinitcpio">>

\* disarm: the backup is removed once the transaction has succeeded.
DisarmPlan == <<"pam", "ARMED", "armed", "conf", "mkinitcpio", "bak">>

DisarmBackPlan == <<"conf", "ARMED", "armed", "pam", "mkinitcpio">>

Plan(c) == CASE c = "arm" -> ArmPlan [] c = "armBack" -> ArmBackPlan
             [] c = "disarm" -> DisarmPlan [] c = "disarmBack" -> DisarmBackPlan

Forward == {"arm", "disarm"}
Back    == {"armBack", "disarmBack"}

\* What a list writes into a file.
Value(c, f) ==
  CASE c = "arm"     -> (CASE f \in Baked   -> take
                           [] f \in Markers -> "present"
                           [] f = "counter" -> 0
                           [] f = "conf"    -> Inserted(disk["conf"])
                           [] f = "pam"     -> "armed"
                           [] f = "bak"     -> "stock")
    [] c = "disarm"  -> (IF f = "pam" THEN disk["bak"]
                         ELSE IF f = "conf" THEN Removed(disk["conf"]).line ELSE Absent)
    [] c = "armBack" -> IF f = "ARMED" THEN Absent ELSE snap[f]
    [] OTHER         -> snap[f]

\* disarm leaves alone, and its rollback does not restore, what was not there.
Skipped(c, f) ==
  \/ c \in {"disarm", "disarmBack"} /\ f \in {"pam", "bak"} /\ snap["pam"] = "stock"
  \/ c = "disarmBack" /\ f \in Markers /\ snap[f] = Absent

Written(c, f) == IF Skipped(c, f) THEN disk ELSE [disk EXCEPT ![f] = Value(c, f)]

\* The edit of HOOKS finds no place for the token, or cannot take it out.
EditRefused(c, f) ==
  /\ f = "conf"
  /\ \/ c = "arm" /\ ~CanInsert(disk["conf"])
     \/ c = "disarm" /\ Removed(disk["conf"]).res = "bail"

-----------------------------------------------------------------------------
(***************************************************************************)
(* mkinitcpio -P and the image it leaves                                   *)
(***************************************************************************)

Hooked == Found(disk["conf"], "deathstroke")

\* Slip: the install hook bakes nothing.
BuiltUnbaked == IF Hooked THEN [f \in Baked |-> Absent] ELSE NoHook

\* The image of the present configuration; build() freezes the ESP's files.
Built == IF Hooked THEN [f \in Baked |-> disk[f]] ELSE NoHook

\* build() refuses without its authorisation marker and all four files; a hook
\* that the edit has broken in two is not found.
BuildSucceeds ==
  Hooked => /\ TokenStandsAlone(disk["conf"])
            /\ \A f \in Baked \cup {"ARMED"} : disk[f] # Absent

\* A run that fails may have written its images before, or, when the hook's
\* build() refused, without the hook, or without half of a broken hook.
FailedImage ==
  {image, IF BuildSucceeds THEN Built
          ELSE IF TokenStandsAlone(disk["conf"]) THEN NoHook ELSE Unbootable}

\* What the next power-on does: the stock prompt, ds-unlock's, or
\* deathstroke_halt.
Boots ==
  IF image = NoHook THEN "stock"
  ELSE IF image = Unbootable THEN "halt"
  ELSE IF /\ disk["armed"] # Absent /\ disk["counter"] # Absent
          /\ \A f \in Baked : disk[f] = image[f]
       THEN "armed" ELSE "halt"

-----------------------------------------------------------------------------
(***************************************************************************)
(* Starting a command                                                      *)
(***************************************************************************)

Present(f) == disk[f] # Absent

Begin(c) ==
  /\ cmd' = c /\ at' = 1 /\ snap' = disk /\ errs' = FALSE /\ res' = "running"
  /\ UNCHANGED <<disk, image, site, local, torn, cuts, faults>>

Report(r) ==
  /\ res' = r
  /\ UNCHANGED <<disk, image, site, enrol, cmd, at, snap, errs, torn, cuts, faults>>

Crossed == IF sd = "none" THEN "none" ELSE "crossed"

\* arm up to its backup.  Its audit of device and slots (module Enrollment) is
\* the refusal that is always possible.
Arm ==
  /\ cmd = "none"
  /\ \/ /\ disk["pam"] = "armed" /\ \A m \in Markers : Present(m)
        /\ Report("already")
     \/ /\ disk["pam"] = "stock" /\ \A m \in Markers : ~Present(m)
        /\ Supported(site.pam)
        /\ Begin("arm")
        /\ take' = local /\ stale' = FALSE
        /\ sd' = Crossed
     \/ Report("refused")

\* disarm needs the backup only where PAM is armed.
Disarm ==
  /\ cmd = "none"
  /\ \/ /\ disk["pam"] = "armed" => Present("bak")
        /\ Begin("disarm") /\ sd' = Crossed /\ UNCHANGED <<take, stale>>
     \/ disk["pam"] = "armed" /\ ~Present("bak") /\ Report("stuck")

Elsewhere == <<disk, image, site, cmd, at, snap, errs, res, torn, cuts, faults>>

\* Slip: set-duress does not look at the marker.
SetDuressAnyway ==
  /\ sd = "none" /\ local < MaxVersion
  /\ sd' = IF cmd = "none" THEN "alone" ELSE "crossed"
  /\ UNCHANGED <<local, take, stale, Elsewhere>>

\* set-duress up to its prompts: refused while the marker is there.
SetDuress ==
  /\ sd = "none" /\ ~Present("ARMED") /\ local < MaxVersion
  /\ sd' = IF cmd = "none" THEN "alone" ELSE "crossed"
  /\ UNCHANGED <<local, take, stale, Elsewhere>>

\* The policy and then the verifier, either of which makes a new version; the
\* marker is not looked at again.
SetDuressWrites ==
  /\ sd # "none" /\ sd' = "none"
  /\ local' = local + 1
  /\ take' = IF cmd = "arm" THEN take ELSE local + 1
  /\ stale' = (stale \/ sd = "crossed")
  /\ UNCHANGED Elsewhere

\* The codes did not match, a write fails, or the power goes.
SetDuressEnds ==
  /\ sd # "none" /\ sd' = "none"
  /\ UNCHANGED <<local, take, stale, Elsewhere>>

-----------------------------------------------------------------------------
(***************************************************************************)
(* Carrying out a list                                                     *)
(***************************************************************************)

Leave(r) == cmd' = "none" /\ at' = 0 /\ res' = r /\ UNCHANGED <<snap, errs>>

\* Slip: rollback errors are not reported.
OutcomeSilent ==
  CASE cmd = "arm" -> "armed" [] cmd = "disarm" -> "disarmed"
    [] cmd = "armBack" -> "armRolledBack" [] cmd = "disarmBack" -> "restored"

Outcome ==
  CASE cmd = "arm" -> "armed" [] cmd = "disarm" -> "disarmed"
    [] cmd \in Back /\ errs -> "incomplete"
    [] cmd = "armBack" /\ ~errs -> "armRolledBack"
    [] cmd = "disarmBack" /\ ~errs -> "restored"

\* The next step, or the report of the last one.
Proceed ==
  \/ at < Len(Plan(cmd)) /\ at' = at + 1 /\ UNCHANGED <<cmd, snap, errs, res, torn>>
  \/ /\ at = Len(Plan(cmd)) /\ Leave(Outcome)
     /\ torn' = IF Outcome = "incomplete" THEN torn \cup {cmd} ELSE torn

Step == Plan(cmd)[at]

Write ==
  /\ cmd # "none" /\ Step # "mkinitcpio" /\ ~EditRefused(cmd, Step)
  /\ disk' = Written(cmd, Step)
  /\ Proceed
  /\ UNCHANGED <<image, site, enrol, cuts, faults>>

Rebuild ==
  /\ cmd # "none" /\ Step = "mkinitcpio" /\ BuildSucceeds
  /\ image' = Built
  /\ Proceed
  /\ UNCHANGED <<disk, site, enrol, cuts, faults>>

\* A failed step: before the transaction arm just returns, after it disarm
\* does; in it the rollback starts; a rollback goes on.
Fails ==
  \/ /\ cmd \in Forward /\ Step = "bak" /\ Leave("failed")
     /\ UNCHANGED torn
  \/ /\ cmd \in Forward /\ Step # "bak"
     /\ cmd' = (IF cmd = "arm" THEN "armBack" ELSE "disarmBack") /\ at' = 1
     /\ UNCHANGED <<snap, errs, res, torn>>
  \/ /\ cmd \in Back /\ errs' = TRUE
     /\ IF at < Len(Plan(cmd))
        THEN at' = at + 1 /\ UNCHANGED <<cmd, res, torn>>
        ELSE cmd' = "none" /\ at' = 0 /\ res' = "incomplete"
             /\ torn' = torn \cup {cmd}
     /\ UNCHANGED snap

\* atomic_write's and remove_file's error may come before or after the change.
WriteFails ==
  /\ cmd # "none" /\ Step # "mkinitcpio" /\ ~Skipped(cmd, Step)
  /\ \/ EditRefused(cmd, Step) /\ UNCHANGED <<disk, faults>>
     \/ /\ ~EditRefused(cmd, Step) /\ faults < MaxFaults /\ faults' = faults + 1
        /\ disk' \in {disk, Written(cmd, Step)}
  /\ Fails
  /\ UNCHANGED <<image, site, enrol, cuts>>

RebuildFails ==
  /\ cmd # "none" /\ Step = "mkinitcpio"
  /\ \/ ~BuildSucceeds /\ UNCHANGED faults
     \/ BuildSucceeds /\ faults < MaxFaults /\ faults' = faults + 1
  /\ image' \in FailedImage
  /\ Fails
  /\ UNCHANGED <<disk, site, enrol, cuts>>

-----------------------------------------------------------------------------
(***************************************************************************)
(* The rest of the machine                                                 *)
(***************************************************************************)

\* A package upgrade runs mkinitcpio -P, at any time.
Upgrade ==
  /\ \/ BuildSucceeds /\ image' = Built
     \/ ~BuildSucceeds /\ image' \in FailedImage
  /\ UNCHANGED <<disk, site, enrol, cmd, at, snap, errs, res, torn, cuts, faults>>

\* ds-unlock counts a failure, or a success clears the count.
BootCounts ==
  /\ cmd = "none" /\ Boots = "armed"
  /\ \E n \in {0, 1} : disk' = [disk EXCEPT !["counter"] = n]
  /\ res' = "none"
  /\ UNCHANGED <<image, site, enrol, cmd, at, snap, errs, torn, cuts, faults>>

\* dsctl is gone; from recovery media or the next boot it can be run again.
PowerCut ==
  /\ cuts < MaxCuts /\ cmd # "none"
  /\ cuts' = cuts + 1 /\ torn' = torn \cup {cmd}
  /\ cmd' = "none" /\ at' = 0 /\ res' = "none"
  /\ UNCHANGED <<disk, image, site, enrol, snap, errs, faults>>

Stock == [f \in Files |-> IF f = "pam" THEN "stock"
                          ELSE IF f = "conf" THEN site.conf ELSE Absent]

Init ==
  /\ site \in Sites /\ disk = Stock /\ image = NoHook
  /\ local = 1 /\ take = 1 /\ sd = "none" /\ stale = FALSE
  /\ cmd = "none" /\ at = 0 /\ snap = Stock /\ errs = FALSE /\ res = "none"
  /\ torn = {} /\ cuts = 0 /\ faults = 0

Next ==
  \/ Arm \/ Disarm
  \/ SetDuress \/ SetDuressWrites \/ SetDuressEnds
  \/ Write \/ Rebuild \/ WriteFails \/ RebuildFails
  \/ Upgrade \/ BootCounts \/ PowerCut

Spec == Init /\ [][Next]_vars

-----------------------------------------------------------------------------
(***************************************************************************)
(* Properties                                                              *)
(***************************************************************************)

Results == {"none", "running", "already", "refused", "stuck", "failed", "armed",
            "armRolledBack", "disarmed", "restored", "incomplete"}

\* The types, and that a list is carried out to its end and no further.
ATypeOK ==
  /\ DOMAIN disk = Files /\ DOMAIN snap = Files
  /\ \A f \in Files \ {"conf"} : disk[f] \in Contents(f) /\ snap[f] \in Contents(f)
  /\ image \in {NoHook, Unbootable} \/ image \in [Baked -> Versions]
  /\ site \in Sites /\ local \in Versions /\ take \in Versions
  /\ sd \in {"none", "alone", "crossed"}
  /\ stale \in BOOLEAN /\ errs \in BOOLEAN /\ res \in Results
  /\ cmd \in Forward \cup Back \cup {"none"} /\ torn \subseteq Forward \cup Back
  /\ IF cmd = "none" THEN at = 0 ELSE at \in 1..Len(Plan(cmd))
  /\ cuts \in 0..MaxCuts /\ faults \in 0..MaxFaults

\* Everything that makes the machine armed is there, and of one version.
FullyArmed ==
  /\ disk["pam"] = "armed" /\ disk["conf"] = Inserted(site.conf)
  /\ Boots = "armed" /\ Present("ARMED")

\* "`arm` is transactional": its success means all of it, with the counter at
\* zero; "arm transaction rolled back" means the disk it found and an image
\* that boots as before, whatever failed, and whatever an upgrade built.
ArmIsTransactional ==
  /\ res = "armed" => FullyArmed /\ disk["counter"] = 0
  /\ res = "armRolledBack" =>
       /\ \A f \in Files \ {"bak"} : disk[f] = snap[f]
       /\ Boots = "stock"

\* "`disarm` restores the exact PAM backup and rebuilds the initramfs": from
\* whatever state earlier commands, failures and power cuts left.
DisarmIsComplete ==
  res = "disarmed" =>
    /\ disk["pam"] = "stock" /\ disk["conf"] = site.conf /\ Boots = "stock"
    /\ \A m \in Markers : ~Present(m)

\* The files of an armed machine.
ArmedFiles(d) ==
  /\ d["pam"] = "armed" /\ CanInsert(site.conf) /\ d["conf"] = Inserted(site.conf)
  /\ \A f \in Baked \cup Markers \cup {"counter"} : d[f] # Absent

\* "disarm failed; armed PAM, markers, and initramfs restored", when the files
\* that disarm found were an armed machine's.
DisarmRestores == res = "restored" /\ ArmedFiles(snap) => FullyArmed

\* The backup that disarm needs is never missing: not "PAM backup missing;
\* refusing a partial disarm".
BackupBehindArmedPam == disk["pam"] = "armed" => Present("bak")

\* "PAM is the last commit point: until all pre-boot artifacts are proven,
\* login remains inert": where pam_ds is live the boot prompt is too.  Only a
\* rollback, under way or torn, may leave it otherwise.
PamCommitsLast ==
  disk["pam"] = "armed" /\ Present("ARMED") /\ Back \cap (torn \cup {cmd}) = {}
    => Boots = "armed"

\* Nothing but an interrupted or incomplete command makes a machine that only
\* recovery media can boot: not a failed call, a rollback, an upgrade or a
\* change of the enrolled secrets.
BootsUnlessTorn == cmd = "none" /\ torn = {} => Boots # "halt"

\* "Arm only after the recovery/daily slots, verifier, policy, ESP mirror, PAM
\* stack, and rebuilt initramfs can all be proven": when arm reports armed,
\* or already armed, the boot prompt is ds-unlock's.
ReportedArmedIsArmed == res \in {"armed", "already"} => Boots = "armed"

\* What pam_ds and panic check against, and what ds-unlock does, are the same
\* verifier and policy on an armed machine, unless a set-duress that looked at
\* the marker before or during an arm or disarm wrote after it.  Only a
\* rollback, under way or torn, may leave it otherwise.
MirrorsEnrolled ==
  Boots = "armed" /\ Present("ARMED") /\ ~stale /\ Back \cap (torn \cup {cmd}) = {}
    => \A f \in Baked : disk[f] = local

\* The edit finds an encrypt hook and leaves it in one piece.
EditsCleanly(line) == CanInsert(line) /\ TokenStandsAlone(Inserted(line))

\* With nothing failing and nothing cut off, disarm succeeds, whatever upgrades
\* and enrollments come in between, and so does arm where its edit of HOOKS is
\* clean: what makes it fail elsewhere is no failing call (EncryptHookArms).
FailsForCause ==
  faults = 0 /\ cuts = 0 =>
    /\ res \notin {"failed", "restored", "stuck", "incomplete"}
    /\ res = "armRolledBack" => ~EditsCleanly(site.conf)

\* "Place `deathstroke` in HOOKS= BEFORE `encrypt`/`sd-encrypt`", for which arm
\* looks for either word: with nothing failing, arm is not rolled back on a
\* machine whose HOOKS has one of them.
EncryptHookArms ==
  faults = 0 /\ cuts = 0 /\ Found(site.conf, "encrypt") => res # "armRolledBack"

\* "so successful authentication still lands at the same original module": on
\* every plain layout that arm accepts, the rules it wrote route logins as the
\* stock rules did.
KeptRoutes == {c \in Sites : Supported(c.pam) /\ RoutesKept(c.pam)}

ArmedRulesRoute ==
  cmd = "arm" /\ PlainLayout(site.pam) => site \in KeptRoutes
=============================================================================
