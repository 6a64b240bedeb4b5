# Deathstroke: TLA+ models and proofs

Deathstroke destroys the LUKS keyslot of a daily credential on a duress code,
on repeated wrong passwords, on a panic command or on a missed check-in, and
keeps a separate recovery keyslot. What it does cannot be undone, it runs in
several processes that share no lock, and it is expected to be interrupted by
somebody pulling the plug. This directory models the parts of it that make such
decisions, checks them with TLC on small instances and proves the most important
safety properties with TLAPS for every instance.

## 1. Inventory

| Component | State it keeps | Operations | Interacts with |
|---|---|---|---|
| `ds-erase` | journal `inprogress` on the ESP and its `.inprogress.tmp.<pid>`; LUKS header; header backups under the ESP | `--fire`, `--resume`: validate, journal phases `prepared` → `backups_handled` → `keyslots_destroyed`, remove backups, kill the slot, verify, quiesce, power off, clear the journal | started by `ds-unlock`, `pam_ds`, `dsctl panic`, `dsctl deadman-check`, an operator; any two may overlap |
| `ds-unlock`, initramfs hook | `counter` on the ESP and its temporary | resume a journal, wipe at the limit, prompt, open, count, reset; whatever it returns but success, the hook powers off | starts `ds-erase` and waits; compares the baked references with the ESP |
| `dsctl arm` / `disarm`, `mkinitcpio` install hook | markers `ARMED`, `armed`; ESP mirror; `system-auth` and its backup; `mkinitcpio.conf`; the image | two transactions with rollbacks | decides what `ds-unlock` and `pam_ds` find |
| `pam_ds`, `ds-core` attempts | `attempts` file and its temporary | duress check, `authfail`, `authsucc` | spawns `ds-erase`, does not wait |
| `ds-core` policy, `atomic_write`, verifier | `config`, `duress.hash` | parse, validate, write, verify | used by all of the above |
| `dsctl` enrollment | `target.device`, `daily.slot`, `recovery.slot`, the registry `known.slots`; the LUKS header | `enroll-recovery`, `enroll`, `seal-tpm`: list, add a key, list again, record | its records are what `arm` audits and what every booted trigger destroys by |
| `dsctl` dead-man switch | window, last check-in | set, off, check in, check from the timer | starts `ds-erase` on the recorded target, armed or not |
| `dsctl` file edits | `system-auth`, `HOOKS=` | insert rules and raise jumps; insert and remove a token | part of arm and disarm; libpam and mkinitcpio read the result |
| reports, `ds-seal-boot.sh`, install scripts | none that the others read | – | – |

What is hard here: a power cut between any two system calls of a transaction
whose steps are irreversible; an existence test that another process invalidates
before the write; phases read from a journal another process wrote; a keyslot
test and the kill that relies on it in two child processes; temporaries that
survive a reboot and a reused process id; a counter that several processes read,
increment and replace; two rollbacks that can fail themselves; an image that
records what other files said when it was built; a header listed twice with other
users of `cryptsetup` in between; five record files that belong together and are
written one by one; a check-in that writes back what it read before the switch was
turned off; time arithmetic that wraps; jump counts in a file somebody else wrote.
`PROJECT.json` lists each of
these hazards at its line with the properties that cover it, and without
properties those that are still open.

What makes each part correct:

* `ds-erase`: nothing is destroyed that nobody asked for; the backups that a scan
  can read go first; a phase is never a promise; the intent outlives every
  interruption; a way in remains unless requests oppose each other.
* `ds-unlock`: no credential is accepted while a destruction is pending; guesses
  cannot bypass the counter by more than the interruptions explain; a limit once
  reached ends in destruction.
* arm and disarm: what they report is true; a failed command leaves the machine
  as it was; only an interrupted command can require recovery media.
* `pam_ds`: failures may be lost, and a wipe takes as many as the limit says since
  the counter was last cleared at rest.
* enrollment: what the records name is one enrollment whose recovery credential
  opens the device, and `ds-unlock` goes after the same pair as the booted triggers.
* dead-man switch: it fires past the deadline that was asked for, not before.
* edits: logins go the way they went before; the edit of `HOOKS` can be undone.

## 2. Modules

| Module | Models |
|---|---|
| `EraseActor` | `src/ds-erase/src/main.rs`, any number of processes |
| `DestructionContract` | the abstract specification of `ds-erase` |
| `EraseActor_proofs`, `EraseActorRefinement` | its safety theorems; that it implements the contract |
| `PreBoot` | `src/ds-unlock/src/main.rs` and `src/mkinitcpio/hooks/deathstroke`, composed with `EraseActor` |
| `PreBoot_proofs` | theorems about the boot cycle |
| `ArmDisarm` | `arm`, `disarm` and `set-duress` of `src/dsctl/src/main.rs`, `src/mkinitcpio/install/deathstroke`, `trusted_state` of `ds-unlock` |
| `ArmDisarm_proofs` | theorems about the four lists |
| `PamStack`, `HookEdit` | the edits of `system-auth` and of `HOOKS=`, and libpam's walk; used by `ArmDisarm` |
| `Edits_proofs` | that the two edits of `HOOKS=` undo each other; that the armed rules route logins as the stock ones |
| `Enrollment`, `Enrollment_proofs` | `enroll-recovery`, `enroll`, `seal-tpm`, `panic`, and `arm` and `disarm` as far as they read and mirror the records, in `src/dsctl/src/main.rs`; theorems |
| `Deadman`, `Deadman_proofs` | `deadman`, `checkin` and `deadman-check`, composed with `Enrollment`; theorems |
| `PamAttempts`, `PamAttempts_proofs` | `src/pam_ds/src/lib.rs` over `record_failure`, `reset_attempts` and `atomic_write` of `src/ds-core/src/lib.rs` |
| `MC*` | instances for TLC |

Definitions marked `Slip:` are plausible mistakes in the definition that follows
them. They are not part of any specification; putting one in the place of its
neighbour makes a property fail, which shows that the property can fail.

### EraseActor

A step is one system call, or one child process, that another process or a power
cut can come between. `slots`, `backups`, `remnants` (backups that are overwritten
and not yet unlinked), `journal` and `tmps` are on disk and survive `LosePower`;
`pc`, `mem` (the `Journal` value in a process), `victim` (the backup it is about to
remove) and `passed` (what its scan took for something else) do not. `requests` and
`overlooked` are histories: the accepted journals, and the backups that some scan
could not read. `env` is where the machine runs, which decides whether a journal's
scan root resolves: the ESP is at `/ds-esp` in the initramfs and at `/boot/efi` when
booted.

| Source | Model |
|---|---|
| `parse_mode`, `validate_mode_slots` | `ParsedMode`, `ParseModeOk`, `ValidModeSlots` |
| `fire` to its `write_journal` | `FireAccepts`, `PreparedJournal`, `Fire` |
| `resume`, `read_journal` | `ResumeAccepts`, `Resume`, `EntryStep` |
| `write_journal` | `CreateTmp` (with `create_new` failing on a leftover), `RenameJournal` |
| `destroy_header_backups`, `is_luks_header_file` | `FindBackup`; `SkipBackup`, where the open or the read fails and the file counts as no header; `BackupsHandled` |
| `erase_header_file` | `ShredBackup` (overwritten, not yet unlinked), `UnlinkBackup` |
| `run_transaction`, keyslots | `CheckRecovery`, `CheckActive`, `DestroySlots`, `KeyslotsDestroyed` |
| `run_transaction`, end | `FinalVerify`, `Quiesce`, `RequestPoweroff`, `RemoveJournal` |
| any `?` | `Fault`, which is not how a header that cannot be read fails |

A device is a name; the identity checks of the block device are part of a
refusal. A journal file is never half-written, because it is only ever renamed
into place, and nobody edits it. The entry limit of the backup scan is one of its
failures, which `Fault` has. `--header-scan` is the set of backups below the given
roots (`scan`). `shred` reaches the magic first and what it has written is on disk
after a cut, so that a backup cut off half-way is one the next scan does not
recognise; where the cut comes before that, nothing has happened yet.

### DestructionContract

Four variables (`slots`, `backups`, `overlooked`, `pending`) and five actions:
commit to a goal, remove a backup, overlook one, destroy, discharge. To destroy, the
backups of the goal must be gone or overlooked: the contract promises no more than
the code keeps, and `NoBackupOutlivesSlots` (below) is what a reader of the code's
comment would expect. `EraseActor` maps its journal file to `pending`. The contract has
one goal at a time, so it is a specification of actors that agree on their goal
(`SameGoalRequests`); that holds of every trigger the product has, as long as the
recorded device is the one of `cryptdevice=`.

### PreBoot

`EXTENDS EraseActor` and drives it: `Start` starts a resume, `DoWipe` a fire,
`ChildExits` reaps it, `BootedTrigger` is everything a booted system may start.
`upc` is the step of the hook and of `ds-unlock`. A guess is spent (`TypeWrong`)
before it is counted (`CountTmp`, `BumpRename`), as `luks_open` precedes
`bump_count`. `OpenFails` is a `cryptsetup` failure that is not a wrong secret:
its exit status does not tell, so it is counted too. `BootDevice` is the device that
the hook resolves from `cryptdevice=` and hands to `ds-unlock`. In the runs it is the
recorded target; the theorems take any device. The hook's two
early returns, without a `cryptdevice=` and with the mapping already open
(`src/mkinitcpio/hooks/deathstroke:10,27-29`), are assumed away: then it neither
prompts nor starts `ds-unlock`.

### ArmDisarm

The four sequences of writes are lists (`ArmPlan`, `ArmBackPlan`, `DisarmPlan`,
`DisarmBackPlan`) and the interpreter of the lists has a successful and a failing
form of each kind of step. A failing write may or may not have taken effect. A
failing `mkinitcpio -P` may have replaced the image: by one without the hook if
the install hook refused, by one that cannot open the root device (`Unbootable`)
if the edit broke the hook's name in two. Contents are versions: each verifier and
policy that `set-duress` stores is a new one, `image` holds the versions it was
built from, and `Boots` is what `ds-unlock` does when it compares. `Upgrade` is a
package upgrade that runs `mkinitcpio -P` at any moment.

`set-duress` asks for the marker, waits for the operator, and writes (`SetDuress`,
`SetDuressWrites`); an `arm` or `disarm` may run while it waits, and `stale`
remembers that it wrote after having been crossed. What `arm` finds installed is a
`site`: the auth rules and the `HOOKS` line. One arm or disarm runs at a time;
nothing in the code enforces that. The audit of device and slots with which `arm`
begins is a refusal that is always possible here; `Enrollment` has it in full.
`SitesAssumption` says that `HOOKS` has no `deathstroke` before the first `arm`:
`src/install.sh:32-35` installs the hook and leaves it inactive.

`DisarmRestores` is about a disarm that found the files of an armed machine. Where
an earlier rollback of `arm` was torn, disarm can find armed rules and a `HOOKS`
without the token; if it then fails, its rollback brings back just that, rebuilds an
image without the hook, and says "armed PAM, markers, and initramfs restored". It
takes three failures or cuts to get there, one more than the run has; the proof
met it.

### PamStack and HookEdit

`PamStack` has `arm_pam_stack` (`Supported`, `Raised`, `ArmedStack`) and what the
result means: `Walk` is libpam's evaluation of a stack of rules, with jumps, for
one kind of login (right or wrong password, the duress code, a locked account, an
account of `pam_systemd_home`). A walk goes forward only, so it is a function of the
position: past each rule, the next rule to run (0 when the walk is over), the
verdict so far and the set of positions that ran. `RoutesKept` compares the walk
through the stock rules with the walk through the armed ones, rule by rule (`Place`
is where the armed list has a stock rule). It holds of the layouts that
`PlainLayout` describes. On some layouts which `arm` also accepts it does not: an
`authsucc` rule that is `sufficient` ends the walk before the inserted rule, and one
that jumps skips it; a jump across both insertions, or one in another control than
`success=`, is raised by too little; a second `authfail` rule gets no `pam_ds` rule
of its own; and an `authfail` rule that does not end the walk lets it go on where
`pam_ds`'s `[default=die]` ends it.

`HookEdit` models the `HOOKS` line as the fragments its text searches can tell
apart. `sd-encrypt` is two of them, since `encrypt` is found inside it: the
insertion splits the word, the rebuild then fails and `arm` rolls back
(`EditsCleanly` is false of such a line, and `EncryptHookArms`, which expects every
encrypt hook to arm, is violated). `Removed` has the bail-out of
`without_deathstroke_hook` where the token is part of a word.

### Enrollment

One call of `cryptsetup`, one record file or one artefact of `arm` per step. An
enrolling command, and an `arm` or `disarm`, are under way at the same time; two
enrolling commands, or an `arm` and a `disarm`, are not, which nothing in the code
enforces. Between the steps others use `cryptsetup` on the same header
(`AddByHand`, `KillByHand`), a trigger fires, calls fail, the power goes.

| Source | Model |
|---|---|
| `active_keyslots`, `matching_keyslots` | `ActiveSlots`, `MatchingSlots` |
| `enroll_recovery`, up to the second listing | `EnrollRecovery`, `MatchDaily`, `DumpBefore`, `AddKey`, `DumpAfter`, `VerifyNew` |
| its five writes | `WriteTarget`, `WriteDaily`, `WriteRecovery`, `WriteKnown` (of `recovery.device` nothing is read back) |
| `enroll`, `seal-tpm` | `EnrollFactor`, `SealTpm`, then `DumpBefore` or, as the failing listing is taken for an empty one, `DumpBeforeFails` |
| `arm`, before its transaction | `ArmBegin`, `ArmReadDaily`, `ArmReadRecovery`, `RolesProven`, `AuditPasses`, `ArmAudit`, `ArmRefuses` |
| `arm`, its writes of the pair, the markers and the image | `MirrorDaily`, `MirrorRecovery`, `WriteMarker`, `BuildArmed`, `WriteEspMarker`, `WritePam` |
| its rollback | `UndoMarker`, `UndoDaily`, `UndoRecovery`, `UndoEspMarker`, `UndoImage` |
| `disarm` and its rollback | `DisarmBegin`, `RemoveMarker`, `RemoveEspMarker`, `BuildStock`; `RedoMarker`, `RedoEspMarker`, `RedoImage` |
| their failing calls | `SwFails` starts a rollback, `RollbackFails` is a failing call of one |
| `pam_ds`, `panic`; `ds-unlock`; the resume at boot | `BootedTrigger`, `PreBootTrigger`, `BootResume` |

`ds-erase` is one step here, with the ways it can be cut off, and with the journal
that it leaves when its own test of the recovery slot, made after the journal is
durable, refuses; `EraseActor` has its detail. `Live` is what makes `ds-unlock` go
ahead: the hook's image, the ESP marker, and an ESP pair equal to the baked one.

Three history variables hold what the properties except. `role` is the last
enrollment that reported success. `mixed`: a later enrollment was cut off among its
writes, its slots were removed by hand, an arm or disarm crossed it, or a rollback
could not take `arm`'s marker back. `stale`: records were written while an arm or
disarm was under way, or after one that had left its image behind. What can happen in
the excepted cases is not passed over: `TriggersSpareRecovery` and
`RecordsHoldWhileArmed` state what the code's own words promise there, and are
violated (section 3).

### Deadman

`EXTENDS Enrollment`, because what an expired window destroys is what the records
say at that moment. A check-in is a read and a write of the state file, a check is
a read and a start of `ds-erase`; the other commands come in between (`late`,
`revived`). The sum and the product are taken modulo `Words`, since the release
profile does not trap overflow; `Wraps` is the case in which that matters.

### PamAttempts

One process per PAM client. `ReadCount`, `CreateTmp` and `RenameCount` are the
three accesses of `record_failure` to the disk; `Launch` is the spawn that is not
waited for. `overlap` remembers whether two processes were ever in the counter at
once, which separates what the code guarantees from what a race can take away. Three
histories count rejected passwords: `since` the counter was cleared, the `longest`
that has been, and the `streak` since it was cleared while no failure was being
written. A failing directory sync after the rename leaves the new count without the
test of the limit.

## 3. Runs

A run takes from a few seconds to about two minutes.

| Run | Instance | Result |
|---|---|---|
| `erase_typed` | two actors, two devices, an operator's command lines with a full erase, the recorded pair reversed with a narrowed scan, and lines that must be refused; one cut, one fault | `TypeOK`, `OnlyNamedSlotsLost`, `BackupsBeforeSlots`, `DestroyedMeansGone`, `KeepsAWayIn` hold |
| `preboot` | two booted actors, one in the initramfs, the product's own command lines (`pam_ds`/`panic`, dead-man, `ds-unlock`; resume by `ds-unlock` or by hand), limit 2, two cuts, one fault of each kind | `MTypeOK`, `NoCredentialWhilePending`, `PromptsSuffice`, `GuessesCounted`, `OwnWipeResumes`, `ImplementsContract`, `LimitHolds`, `LimitIsFinal`, `PrebootWipeCompletes` hold |
| `arm` | six sites, two versions, two cuts, two faults | `ATypeOK`, `ArmIsTransactional`, `DisarmIsComplete`, `DisarmRestores`, `BackupBehindArmedPam`, `PamCommitsLast`, `BootsUnlessTorn`, `MirrorsEnrolled`, `FailsForCause`, `ArmedRulesRoute` hold |
| `enroll` | two devices, three slots, two enrolling commands, arms and disarms without bound, two mishaps (failures or cuts, one of them perhaps a use of `cryptsetup` by hand) | `ETypeOK`, `RecoveryOpens`, `MirrorAgrees` hold |
| `deadman` | one enrollment, arms and disarms, words of 8 values, hours of 2 seconds, windows of 0, 1, 3 and 4 hours, one failure or cut | `DTypeOK`, `SwitchAsAsked`, `FiresWhenDue` hold |
| `pam` | two clients, limit 3, five failures, a cut, a fault | `PTypeOK`, `WipesForCause`, `FailuresCounted`, `LimitFires` hold |
| `erase_unreadable_backup` | one actor, one failing call | `NoBackupOutlivesSlots` is violated |
| `booted_journal` | nobody resumes by hand | `AnyWipeCompletes` is violated |
| `arm_reported` | one version, one cut, one fault | `ReportedArmedIsArmed` is violated |
| `enroll_recovery_lost` | one device with two slots, two enrollments, nothing fails | `TriggersSpareRecovery` is violated |
| `deadman_inert` | one enrollment, one window, nothing fails | `InertUntilArmed` is violated |
| `pam_limit` | two clients, nothing fails | `WipesAtLimit` is violated |

Bounds. Two actors are enough for one to come between any two steps of the other,
and with two cuts (`preboot`) a resume can itself be cut off, so a third boot takes
up what two left. `erase_typed` has one cut: its subject is two actors with
different goals that overwrite, advance and resume each other's journals. Its
reversed pair makes the check and the kill of two requests race, which is what
`KeepsAWayIn` excepts by name (`Opposed`). Two backups make the order of their
removal matter and let two actors meet at the same one. The second device has no
recovery slot, so that a request naming it passes validation and fails at
`CheckRecovery`. The power goes off some time after a poweroff is asked for, so that
an actor meets another's finished work, and `terminate-seat` may end it first. With
the limit at 2 and two prompts, `preboot` reaches the limit within one boot, over
two boots, and with a stale temporary in between. In `arm` two faults fail a step
and one step of its rollback, and two cuts interrupt a command and the one that
repairs it. The sites are Arch's `system-auth`, one whose jump lands on `authsucc`,
the example of pam_faillock(8), one with a jump across `authsucc`, and two that
`arm` refuses, with `encrypt`, `sd-encrypt` and no encrypt hook in `HOOKS`. In
`enroll` two commands are an enrollment and a re-enrollment that makes the old
recovery credential the daily one, a factor or a second device; two mishaps
(`TwoMishaps`) fail a step of `arm` or `disarm` and one of its rollback, or cut it
off and fail the next; three slots are enough for a device to run full, and for a
freed number to be used again. In `deadman` a word has 8 values instead of 2^64 and
an hour 2 seconds instead of 3600: the window of 4 hours wraps to nothing, the
deadline of 3 hours wraps when it is set late, and the one of 1 hour passes within
the clock's 3 seconds. In `pam` five failures exceed the limit of three after one
reset. Process ids are reused after a power cut in all models (`Procs`,
`UnlockPids`), which is what makes a stale temporary matter. Symmetry is used for
the process ids of `ds-erase` and for PAM clients, in runs whose properties are
invariants or about single steps.

Fairness, in `PreBoot`: a running `ds-unlock`, hook and `ds-erase` process
takes its next step (the operating system schedules it), an accepted poweroff
takes effect, and the machine is eventually switched on again. Nobody is obliged
to type, to trigger, to shut down, to cut the power or to fail; cuts and failures
are bounded in number, so what is shown is that progress resumes once they end.
In `Deadman`: the timer unit starts the check again and again, and a started check
runs to its end. The unit ships as a dormant template
(`src/scaffold/deathstroke-deadman.timer.disabled`) that nothing installs, so this is
fairness of a machine whose operator has installed it; only `MissedWindowDestroys`
(below) uses it. Deadlock is not checked in `enroll` and `deadman`, where the
bounds on commands and on the clock end a run.

### What the violated runs show

* `booted_journal`. A wipe fired by `pam_ds`, `dsctl panic` or the dead-man check
  journals no mapping name and the scan root `/boot/efi/deathstroke`. If it is
  cut off, the resume of the next boot is refused twice over: `ds-unlock` always
  expects a mapping name (`src/ds-unlock/src/main.rs:197`), and the scan root does
  not exist in the initramfs. The hook halts the machine at every boot with the
  daily keyslot still there. `src/tests/boot-resume/README.md:20-22` requires the
  boot to detect the journal and the resume to finish.
* `arm_reported`. `disarm`'s rollback restores PAM and both markers before it
  rebuilds the image. Cut off there, the image has no hook, and `arm` says
  "already armed".
* `deadman_inert`. `dsctl deadman-check` and `dsctl deadman <hours>` look at neither
  marker: an enrolled machine that was never armed, or that has been disarmed, loses
  its daily slot when the window has passed. `src/README.md:22` says that every
  destructive path stays inert until `dsctl arm`.
* `pam_limit`. Two clients that read the counter before either writes it record two
  failures as one, and a run of failures as long as the limit fires nothing. The other
  half of the property, `FiresOnlyAtLimit`, fails as well: a client has read the
  counter, another one's success removes it, the first writes its count back; the
  cleared failures are there again, and the wipe fires with fewer consecutive failures
  than `src/ds-core/src/lib.rs:143-146` says.
* `erase_unreadable_backup`. `is_luks_header_file` takes a file that it cannot open
  or read for something else (`src/ds-erase/src/main.rs:182`), and the keyslot is
  destroyed while the backup that restores it stays on the ESP. A power cut during
  `shred` (216) has the same end: it leaves a file without its magic, which the resumed
  scan passes over (`MCEraseActor_torn.cfg`).
* `enroll_recovery_lost`. A `disarm` that is interrupted after it has removed the local
  marker, or an `arm`'s rollback, leaves a machine on which `ds-unlock` destroys by the
  old pair and `enroll-recovery` is allowed (`src/dsctl/src/main.rs:492`). A wipe frees
  the old daily slot, the re-enrollment puts its recovery key there, and the next wipe
  takes it.

### What the properties except

Some of the properties that hold name an exception, where the code does not do what a
comment or message of it says. Each exception has a configuration, outside the list of
runs, that shows it as a violation within seconds:

| Configuration | Violated | What happens |
|---|---|---|
| `MCEraseActor_opposed.cfg` | `LastSlotNeedsAck` | requests with reversed slot pairs both find their recovery slot active before either kills; the device loses its last keyslot, which `src/README.md:33-35` reserves for `--mode erase --destroy-recovery` |
| `MCEraseActor_resumable.cfg` | `ExistingJournalResumable` | `--fire` says "journal already exists; use --resume" of the journal of an interrupted full erase, which `--resume` refuses because of its mode |
| `MCArmDisarm_sdencrypt.cfg` | `EncryptHookArms` | the search for `encrypt` finds it inside `sd-encrypt` (`src/dsctl/src/main.rs:798`) and the edit splits the name; `arm` fails on every such machine, although `src/mkinitcpio/install/deathstroke:4-5` names `sd-encrypt` |
| `MCEnrollment_crossed.cfg` | `RecordsHoldWhileArmed` | `enroll-recovery` looks at the marker once and writes its records after an `arm` has audited and mirrored the old ones; a failing `disarm` that puts the marker back has the same effect |
| `MCEnrollment_stranger.cfg` | `AuditCatchesStrangers` | `record_added_slots` takes a failed listing for an empty one, so that a slot which was there before is recorded as the factor's and `arm` accepts it (`src/dsctl/src/main.rs:412`, against the comment at 559-562) |
| `MCDeadman_blocked.cfg` | `MissedWindowDestroys` | a check whose `ds-erase` fails leaves a journal, because of which `--fire` refuses every later check (`src/ds-erase/src/main.rs:231`); with no failure (`MaxBreaks = 0`) the property holds |

## 4. Proofs

All theorems hold for every set of processes, devices, keyslots and backups,
every set of command lines, every policy that passes `Policy::validate`, and every
bound on cuts and failures. The assumptions are the named `ASSUME`s of the
modules, which say what the constants are; where a theorem needs more, it says so
itself.

**EraseActor.** `TypeCorrect` includes that every journal in use passed
validation. The safety properties are not inductive: whether a process may kill a
slot depends on what its `mem` says, and `mem` may come from a journal that
another process wrote. `IInv` therefore speaks of all journals *in play*, on disk
or in a running process: each was requested; if its phase is past `prepared`, the
backups below its scan roots are gone or overlooked; if it is `destroyed`, its goal is
reached; and a process stands
at a step that fits its phase (`PhaseFits`). Its preservation rests on three
facts about steps: backups and keyslots only disappear (`DiskSteps`, `SlotSteps`),
a journal in play after a step was in play before it, or was just accepted, or is
one advanced by a phase (`JournalSteps`), and a goal once reached stays so
(`GoalStaysReached`). From it: `OnlyNamedSlotsAreLost`, `BackupsGoFirst`,
`DestroyedIsGone`.

`RecoveryOutlivesWipe` needs no assumption on the requests: `KeepsAWayIn` itself
excepts two that oppose each other. `RecoveryTested` carries the test of the recovery
slot across the steps between `CheckRecovery` and `DestroySlots`: the slot is still
there unless somebody asked for its destruction, who then opposes this request or has
asked for a full erase.

**Refinement.** `ErasesByContract` assumes `SameGoalRequests`. The mapping takes
the journal file to `pending`. The extra invariant `IntentKept` says that while a
process works towards a goal not yet reached the journal is there: another
process removes it only when the goal, which is the same, has been reached. A scan
that skips a backup is the contract's `Overlook`.
`StepSimulation` then has one case per kind of step; a second journal written over
the first is a stutter.

**PreBoot.** `MachineRunsAnActor` shows that each step of the composition is a
step of `EraseActor` or leaves its variables alone, so the theorems above hold of
it. `UInv` adds that a process runs in the initramfs only while `ds-unlock` waits
for it (`OneChild`), that the prompts left reach the limit (`EnoughLeft`), and
`NoCredentialWhilePending` itself. From it: `MachineTypeCorrect`,
`ResumeBeforeCredential`, `LimitBeforeLastPrompt`. With `ErasesByContract` and
`RecoveryOutlivesWipe` it gives `MachineErasesByContract`, under the same assumption
on the requests, and `MachineKeepsAWayIn`.

Two theorems carry as much of the two liveness properties as is safety.
`LimitIsKept`: with the limit on the ESP, no boot stands at a step that clears the
counter or goes on to the root. `OwnWipeAlwaysResumes`: `OwnJournals` says of every
journal with the initramfs's scan root, on disk or in a process, that it has the
boot device, the recorded pair and the mapping; `ds-unlock` alone makes such journals, and a
running `ds-erase` changes nothing of them but the phase. What is left to liveness is
progress: that the machine is switched on, that its processes run and that failures
end.

`GuessesAreCounted` needs one idea more. A temporary that a power cut leaves
behind makes a later guess escape, in a boot whose `ds-unlock` happens to get the
same process id, so `CInv` counts each stale temporary as a guess that has escaped
already: `guesses + |Stale| <= counter + 2 * cuts + ufaults + BeingCounted`, with
`|Stale| <= cuts` for the step that clears the counter. `PoweroffIsLate` excludes
that the poweroff `ds-erase` asks for interrupts a count without being a cut.

**PamAttempts.** `PamWipesForCause` uses `NoneInvented`: the count on disk, and
each count about to be written, together with the failures that have not yet read
it, is at most `streak`. The cardinality argument is needed because several processes
may be between rejection and read; a success ends the streak only when none is, so
that nobody holds a count from before it. `PamLimitFires`
adds that whoever wrote a count at the limit is bound to launch. `PamFailuresCounted`
uses `Orderly`: while nobody has overlapped, the counter has one user (`OneUser`),
the count it is about to write is the next one (`Knows`), and each stale temporary
counts as a failure that has escaped already (`Accounted`), as in
`GuessesAreCounted`.

**HookEdit and PamStack.** `RemovedInserted`: for a line of any length that `arm`'s
edit has changed, `disarm`'s edit gives back the line before it where the inserted
token stands alone, and bails where it does not, as in the split `sd-encrypt`.
The induction it needs, that a token which occurs has a first occurrence, is the well-foundedness of `<` on the
naturals (`LeastIndex`).

`RoutesAreKept` is a simulation between two walks of different lengths. The same
`LeastIndex` stands in for induction twice: `WalksUnfold` shows that the recursion
of `Walks` has a solution (no rule is the first up to which no function follows it),
and `WalksAbreast` that there is no first stock rule past which the two walks have
parted. `Abreast` is what they keep: the armed walk is at the place of the stock
walk's next rule, with the same verdict, and has run the places of what the stock
walk has run, `pam_ds` at 1 and, if authsucc has run, the rule behind it. `Pair`
collects what `ArmedStack` is, position by position (`ArmedStackIs`); `ActAlike` is
where the arithmetic of the raised jumps is: a jump that was raised, and one that was
not, both land at the place of the rule they landed on. `AbreastPlain`,
`AbreastFail` and `AbreastSucc` are the three kinds of step. The theorem is about
lists of any length whose modules and arguments are any strings.

**ArmDisarm.** None of the properties is inductive: each is about the moment a list
ends, or about one of its last steps. `AInv` follows the lists. `HalfWay`: a list
that has met no failure has left in each file behind it what it makes of it
(`Made`), and every other file as the command found it. `RolledBack`: a rollback
that has met no failure has restored what is behind it, and during a rollback of
`disarm` each file is as found or as `disarm` makes it. `Reported` carries what a
report stands for from the end of its list to the next command, across upgrades,
boots and enrollments. `LiveIsArmed` and `Whole` say between which disks a command
moves while no rollback, or no list at all, has been torn; `Mirrored` says the same
of versions, and `Faultless` of failures without a cause. What makes these facts
follow from each other is the order of the steps, stated once for each list
(`ArmOrder`, `ArmBackOrder`, `DisarmOrder`, `DisarmBackOrder`): that `arm` has
everything behind it that `build()` asks for when it rebuilds, and only PAM before
it at its last step; that `disarm` takes PAM out first and the backup away last;
that the rollbacks rebuild last. `CurrentStays` says when an image outlives a
write. Then there is one lemma for each kind of step of each list, and one for each
step around them. `ArmedRoutesKept` needs only that `arm` runs on rules it supports
(`ArmsSupported`), and `RoutesAreKept`. `ArmedBoots` and `StockBoots` turn the result
into what the next power-on does.

**Enrollment.** `ETypeOK` is inductive by itself; it says that past its checks a
recovery enrollment has one daily and exactly one added slot. `RecoveryOpens` is
not: whether the last write leaves a usable pair depends on what the command
tested, calls ago, about a header that others change. `EInv` adds `Halfway` (the
record files agree with the command's memory as far as it has written them),
`Sound` (the daily slot was in use before the new one was added, the two differ,
and the new one holds the new credential, unless a slot has gone since), `Mirrored`
(while `stale` is false, `PairsAgree`: the image, the ESP of an armed machine, and
what an `arm` or `disarm` under way holds in memory are the recorded pair at each of
its steps), `Uncrossed` (an `enroll-recovery` that no `arm` or `disarm` has crossed
runs on a machine that is neither armed nor being switched) and `Faithful` (a
completed enrollment that is not `mixed` is not `stale`). A step is one of an `arm` or
`disarm` (`Switches`), a strike of `ds-erase` or a use of `cryptsetup` by hand
(`Strikes`), an end (`Ends`), a look (`Looks`) or a write, and each kind has its
lemmas: `StepKinds` is the split, `SwitchesAgree` follows the pair through the switch
and its rollback, `OffAgrees` says why a machine that is wholly off is no longer
stale. From the parts: `RecoveryAlwaysOpens` and `MirrorAlwaysAgrees`.

**Deadman.** `DInv` adds to the properties that a check-in which nothing has
overtaken holds the window of the file (`Fresh`). `FiresWhenDue` follows from
`SwitchAsAsked` at the moment of the check, since a remainder of what fits a word is
the thing itself; every change of the file marks the check as late. The theorems
hold for every width of a word and every length of an hour, hence for 2^64 and 3600.

Only model-checked: `LimitIsFinal` and `PrebootWipeCompletes`, since liveness under
fairness is beyond the proof system. Every invariant and action property that a
passing run checks is also a theorem.

## 5. Not modelled

* `DuressHash`: key derivation and comparison enter as "the duress code was
  typed". `Policy::parse` and `set-duress`'s options enter as a policy that was
  validated, or as a new version of one.
* `pam_ds` compares with the built-in thresholds and never reads the policy
  (`src/pam_ds/src/lib.rs:30`); `PamAttempts` does the same, and no property is
  about it.
* Prompting through Plymouth or the terminal: an input.
* Reports (`status`, `verify`, `harden`, `tpm-check`, `factors`), the sealing and
  signing of boot images, installation. They keep no state that the modelled parts
  read.
* Comments and several `HOOKS` lines in `mkinitcpio.conf`, rules of other facilities
  in `system-auth`, controls of libpam other than those the edits meet.
* Two enrolling commands, or two of `arm` and `disarm`, at once.
* The hook's early returns, which start nothing.
* The file system below `rename`: a rename is atomic and, after the directory is
  synced, durable. On the FAT file system of an ESP that is an assumption.
* An ESP whose files someone else changes.

## 6. Plan

Done, in this order: `EraseActor` with its contract and theorems, `PreBoot`,
`ArmDisarm`, `PamAttempts`; then `Enrollment`, `Deadman`, `PamStack` and `HookEdit`,
`ArmDisarm` with `set-duress` under way and with the sites, the theorems of
`Enrollment` and `Deadman`.

Then the theorems of `PamAttempts`, `HookEdit` and `ArmDisarm`; then those of
`PamStack`, with the walk restated by positions for it, and the machine's contract
and its safety halves of liveness in `PreBoot`.

Left: `Enrollment`'s `Erase`, which does in one step what `EraseActor` does in many.
A step of it is several steps of `DestructionContract`, so that a refinement needs
the kill split from the journal there.
