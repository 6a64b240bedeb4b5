----------------------------- MODULE Enrollment -----------------------------
(***************************************************************************)
(* dsctl enroll-recovery, dsctl enroll and seal-tpm, the registry of known *)
(* keyslots, and arm and disarm as far as they read and mirror the records.*)
(*                                                                         *)
(*   recovery: match -> before -> add -> after -> verify                   *)
(*                   -> target -> daily -> recovery -> known               *)
(*   factor:   before -> add -> after -> known                             *)
(*   arm:      daily -> recovery -> audit -> mirror daily                  *)
(*                   -> mirror recovery -> marker -> image -> esp marker   *)
(*                   -> pam, or the undo steps of its rollback             *)
(*   disarm:   off marker -> off esp marker -> off image, or the redo      *)
(*                   steps of its rollback                                 *)
(*                                                                         *)
(* The header, the record files and the artefacts of arm are read and      *)
(* written one call at a time.  In between the operator, or somebody else, *)
(* uses cryptsetup on the same header, a trigger fires, or the power goes. *)
(* One enrolling dsctl, and one arm or disarm, run at a time.              *)
(***************************************************************************)
EXTENDS Naturals

CONSTANTS
  Devices,      \* LUKS devices
  SlotNumbers,  \* keyslot numbers of a header
  Creds,        \* credentials that dsctl is given or makes
  Stranger,     \* a key that somebody else put into a slot
  None,         \* an empty slot, an absent file, no command
  InitKeys,     \* device -> slot -> key, before dsctl was first used
  Root,         \* the device of the kernel command line, which ds-unlock opens
  RecoveryArgs, \* enroll-recovery command lines
  FactorArgs,   \* enroll / seal-tpm command lines
  MaxCommands,  \* bound: enrolling commands
  MaxHands,     \* bound: uses of cryptsetup by hand
  MaxBreaks     \* bound: failing calls and power cuts

Keys == Creds \cup {Stranger, None}

ASSUME EnrollAssumption ==
  /\ SlotNumbers \subseteq 0..31
  /\ None \notin Creds /\ None \notin Devices /\ None \notin SlotNumbers
  /\ Stranger \notin Creds /\ Stranger # None
  /\ Root \in Devices /\ InitKeys \in [Devices -> [SlotNumbers -> Keys]]
  /\ RecoveryArgs \subseteq [dev : Devices, old : Creds, new : Creds]
  /\ FactorArgs \subseteq [dev : Devices, new : Creds]
  /\ MaxCommands \in Nat /\ MaxHands \in Nat /\ MaxBreaks \in Nat

VARIABLES
  keys,      \* device -> slot -> key
  target,    \* target.device
  daily,     \* daily.slot
  recovery,  \* recovery.slot
  known,     \* known.slots; {} when the file is missing
  markers,   \* which armed markers exist: "local", "esp"
  esp,       \* the slot pair mirrored onto the ESP
  image,     \* the pair baked into the initramfs, or None without the hook
  journal,   \* ds-erase's journal, or None
  op,        \* the enrolling dsctl, or None
  sw,        \* the dsctl arm or disarm under way, or None
  commands, hands, breaks,
  role,      \* history: the last enroll-recovery that reported success
  mixed,     \* history: later writes, lost slots or an arm overtook it
  stale      \* history: records changed under an arm or disarm or after a torn one

records == <<target, daily, recovery, known>>
preboot == <<markers, esp, image>>
bounds  == <<commands, hands, breaks>>
history == <<role, mixed, stale>>
evars == <<keys, records, preboot, journal, op, sw, bounds, history>>

Armed == "local" \in markers

-----------------------------------------------------------------------------
(***************************************************************************)
(* The header, as cryptsetup shows it                                      *)
(***************************************************************************)

\* active_keyslots, from the listing of either LUKS version.
ActiveSlots(d) == {s \in SlotNumbers : keys[d][s] # None}

\* matching_keyslots: --test-passphrase against each active slot.
MatchingSlots(d, c) == {s \in ActiveSlots(d) : keys[d][s] = c}

FreeSlots(d) == SlotNumbers \ ActiveSlots(d)

\* luksAddKey and systemd-cryptenroll take the lowest free slot.
LowestFree(d, s) == s \in FreeSlots(d) /\ \A t \in FreeSlots(d) : s <= t

SetKey(d, s, k) == keys' = [keys EXCEPT ![d][s] = k]

-----------------------------------------------------------------------------
(***************************************************************************)
(* Starting a command                                                      *)
(***************************************************************************)

NewOp(kind, step, dev, old, new, crossed) ==
  [kind |-> kind, step |-> step, dev |-> dev, old |-> old, new |-> new,
   daily |-> None, before |-> {}, added |-> {}, lost |-> FALSE,
   crossed |-> crossed]

\* Slip: the marker is not looked at.
EnrollRecoveryArmed(a) ==
  /\ op = None
  /\ commands < MaxCommands /\ commands' = commands + 1
  /\ op' = NewOp("recovery", "match", a.dev, a.old, a.new, sw # None)
  /\ UNCHANGED <<keys, records, preboot, journal, sw, hands, breaks, history>>

\* enroll-recovery is refused while the marker exists, and looks only once.
EnrollRecovery(a) ==
  /\ op = None /\ ~Armed
  /\ commands < MaxCommands /\ commands' = commands + 1
  /\ op' = NewOp("recovery", "match", a.dev, a.old, a.new, sw # None)
  /\ UNCHANGED <<keys, records, preboot, journal, sw, hands, breaks, history>>

\* enroll fido2, tpm2, passphrase, --simulate: not refused.
EnrollFactor(a) ==
  /\ op = None
  /\ commands < MaxCommands /\ commands' = commands + 1
  /\ op' = NewOp("factor", "before", a.dev, None, a.new, sw # None)
  /\ UNCHANGED <<keys, records, preboot, journal, sw, hands, breaks, history>>

\* seal-tpm takes the recorded target where no device is given.
SealTpm(a) == target # None /\ EnrollFactor([a EXCEPT !.dev = target])

-----------------------------------------------------------------------------
(***************************************************************************)
(* Its steps                                                               *)
(***************************************************************************)

At(step) == op # None /\ op.step = step

\* The existing credential opens exactly one slot: the daily slot.
MatchDaily ==
  /\ At("match")
  /\ \/ \E s \in SlotNumbers :
          /\ MatchingSlots(op.dev, op.old) = {s}
          /\ op' = [op EXCEPT !.daily = s, !.step = "before"]
     \/ /\ \A s \in SlotNumbers : MatchingSlots(op.dev, op.old) # {s}
        /\ op' = None
  /\ UNCHANGED <<keys, records, preboot, journal, sw, bounds, history>>

DumpBefore ==
  /\ At("before")
  /\ op' = [op EXCEPT !.before = ActiveSlots(op.dev), !.step = "add"]
  /\ UNCHANGED <<keys, records, preboot, journal, sw, bounds, history>>

\* record_added_slots' unwrap_or_default: no listing counts as no slots.
DumpBeforeFails ==
  /\ At("before") /\ op.kind = "factor" /\ breaks < MaxBreaks
  /\ breaks' = breaks + 1
  /\ op' = [op EXCEPT !.before = {}, !.step = "add"]
  /\ UNCHANGED <<keys, records, preboot, journal, sw, commands, hands, history>>

\* An existing key authorises the new one: the one given, or one asked for.
Authorised ==
  /\ ActiveSlots(op.dev) # {}
  /\ op.kind = "recovery" => MatchingSlots(op.dev, op.old) # {}

AddKey ==
  /\ At("add")
  /\ \/ \E s \in SlotNumbers :
          /\ Authorised /\ LowestFree(op.dev, s)
          /\ SetKey(op.dev, s, op.new)
          /\ op' = [op EXCEPT !.step = "after"]
     \/ /\ ~Authorised \/ FreeSlots(op.dev) = {}
        /\ op' = None
        /\ UNCHANGED keys
  /\ UNCHANGED <<records, preboot, journal, sw, bounds, history>>

Added == ActiveSlots(op.dev) \ op.before

\* Slip: the number of added slots is not looked at.
DumpAfterAny ==
  /\ At("after")
  /\ op' = [op EXCEPT !.added = Added,
                      !.step = IF op.kind = "factor" THEN "known" ELSE "verify"]
  /\ UNCHANGED <<keys, records, preboot, journal, sw, bounds, history>>

\* A recovery enrollment stops unless exactly one slot has come; a factor
\* records whatever has.
DumpAfter ==
  /\ At("after")
  /\ op' = IF op.kind = "factor"
           THEN [op EXCEPT !.added = Added, !.step = "known"]
           ELSE IF \E s \in SlotNumbers : Added = {s}
           THEN [op EXCEPT !.added = Added, !.step = "verify"]
           ELSE None
  /\ UNCHANGED <<keys, records, preboot, journal, sw, bounds, history>>

\* The new credential opens the added slot and no other.
VerifyNew ==
  /\ At("verify")
  /\ op' = IF MatchingSlots(op.dev, op.new) = op.added
           THEN [op EXCEPT !.step = "target"] ELSE None
  /\ UNCHANGED <<keys, records, preboot, journal, sw, bounds, history>>

\* An arm or disarm was cut off, or half undone, and left its image.
LeftOn == image # None /\ ~Armed

\* recovery.device and target.device, then the slots, each an atomic_write.
\* The added slot is the set's one element.
WriteTarget ==
  /\ At("target")
  /\ target' = op.dev /\ mixed' = TRUE /\ stale' = (stale \/ op.crossed \/ LeftOn)
  /\ op' = [op EXCEPT !.step = "daily"]
  /\ UNCHANGED <<keys, daily, recovery, known, preboot, journal, sw, bounds, role>>

WriteDaily ==
  /\ At("daily")
  /\ daily' = op.daily /\ stale' = (stale \/ op.crossed \/ LeftOn)
  /\ op' = [op EXCEPT !.step = "recovery"]
  /\ UNCHANGED <<keys, target, recovery, known, preboot, journal, sw, bounds,
                 role, mixed>>

WriteRecovery ==
  /\ At("recovery")
  /\ (\E s \in op.added : recovery' = s) /\ stale' = (stale \/ op.crossed \/ LeftOn)
  /\ op' = [op EXCEPT !.step = "known"]
  /\ UNCHANGED <<keys, target, daily, known, preboot, journal, sw, bounds,
                 role, mixed>>

\* write_known_slots: exactly daily and recovery; add_known_slots: a union.
WriteKnown ==
  /\ At("known")
  /\ IF op.kind = "recovery"
     THEN /\ known' = {op.daily} \cup op.added
          /\ role' = [dev |-> op.dev, daily |-> op.daily,
                      slots |-> op.added, key |-> op.new,
                      alone |-> ~op.crossed]
          /\ mixed' = (op.lost \/ op.crossed \/ stale)
     ELSE known' = known \cup op.added /\ UNCHANGED <<role, mixed>>
  /\ op' = None
  /\ UNCHANGED <<keys, target, daily, recovery, preboot, journal, sw, bounds, stale>>

\* A call fails: what is written stays, nothing is undone.
\* (A factor whose second listing fails ends here too, and reports success.)
Break ==
  /\ op # None /\ breaks < MaxBreaks
  /\ breaks' = breaks + 1 /\ op' = None
  /\ UNCHANGED <<keys, records, preboot, journal, sw, commands, hands, history>>

-----------------------------------------------------------------------------
(***************************************************************************)
(* arm                                                                     *)
(***************************************************************************)

SwAt(step) == sw # None /\ sw.step = step

Moves(from, to) == SwAt(from) /\ sw' = [sw EXCEPT !.step = to]

\* An arm or disarm begins with a look at what it may have to put back.
NewSw(step, dev) ==
  [step |-> step, dev |-> dev, daily |-> None, recovery |-> None,
   esp |-> esp, markers |-> markers]

\* An enrollment under way is crossed by it.
SwBegins(step, dev) ==
  /\ sw = None /\ sw' = NewSw(step, dev)
  /\ op' = IF op = None THEN None ELSE [op EXCEPT !.crossed = TRUE]
  /\ UNCHANGED <<keys, records, preboot, journal, bounds, history>>

\* arm reads the three records one after the other.
ArmBegin == target # None /\ SwBegins("daily", target)

ArmReadDaily ==
  /\ SwAt("daily") /\ sw' = [sw EXCEPT !.step = "recovery", !.daily = daily]
  /\ UNCHANGED <<keys, records, preboot, journal, op, bounds, history>>

ArmReadRecovery ==
  /\ SwAt("recovery") /\ sw' = [sw EXCEPT !.step = "audit", !.recovery = recovery]
  /\ UNCHANGED <<keys, records, preboot, journal, op, bounds, history>>

\* Both slots are recorded, distinct and active.
RolesProven ==
  /\ None \notin {sw.daily, sw.recovery} /\ sw.daily # sw.recovery
  /\ {sw.daily, sw.recovery} \subseteq ActiveSlots(sw.dev)

\* The registry, rebuilt when it lacks a recorded slot.
Baseline == known \cup {sw.daily, sw.recovery}

\* Every active slot is in the registry, and neither marker exists.
AuditPasses == ActiveSlots(sw.dev) \subseteq Baseline /\ markers = {}

\* Nothing arms the machine or keeps it armed: no arm or disarm is under way,
\* no marker authorises a build, the image is stock.
Off == sw = None /\ ~Armed /\ image = None

\* The rebuilt registry is written before the audit refuses.  The verifier, the
\* policy, PAM and the other files, which may make arm stop at any of its
\* checks, are module ArmDisarm's.
ArmAudit ==
  /\ SwAt("audit") /\ RolesProven /\ known' = Baseline
  /\ \/ AuditPasses /\ sw' = [sw EXCEPT !.step = "mirror daily", !.esp = esp]
     \/ sw' = None
  /\ UNCHANGED <<keys, target, daily, recovery, preboot, journal, op, bounds,
                 role, mixed>>
  /\ stale' = (stale /\ ~Off')

ArmRefuses ==
  /\ sw # None /\ sw.step \in {"daily", "recovery", "audit"} /\ sw' = None
  /\ UNCHANGED <<keys, records, preboot, journal, op, bounds, role, mixed>>
  /\ stale' = (stale /\ ~Off')

\* sync_esp_state
MirrorDaily ==
  /\ Moves("mirror daily", "mirror recovery")
  /\ esp' = [esp EXCEPT !.daily = sw.daily] /\ UNCHANGED <<markers, image>>

MirrorRecovery ==
  /\ Moves("mirror recovery", "marker")
  /\ esp' = [esp EXCEPT !.recovery = sw.recovery] /\ UNCHANGED <<markers, image>>

WriteMarker ==
  /\ Moves("marker", "image")
  /\ markers' = markers \cup {"local"} /\ UNCHANGED <<esp, image>>

\* mkinitcpio -P with the hook in place: its build() bakes the ESP's pair.
BuildArmed ==
  /\ Moves("image", "esp marker")
  /\ image' = esp /\ UNCHANGED <<markers, esp>>

WriteEspMarker ==
  /\ Moves("esp marker", "pam")
  /\ markers' = markers \cup {"esp"} /\ UNCHANGED <<esp, image>>

\* PAM goes live, which is all of module ArmDisarm's concern.
WritePam == SwAt("pam") /\ sw' = None /\ UNCHANGED preboot

\* The rollback takes the marker away first, then restores the ESP's files,
\* then rebuilds: stock, or, where a hook is left in HOOKS, a refused build.
UndoMarker ==
  /\ Moves("undo marker", "undo daily")
  /\ markers' = markers \ {"local"} /\ UNCHANGED <<esp, image>>

UndoDaily ==
  /\ Moves("undo daily", "undo recovery")
  /\ esp' = [esp EXCEPT !.daily = sw.esp.daily] /\ UNCHANGED <<markers, image>>

UndoRecovery ==
  /\ Moves("undo recovery", "undo esp marker")
  /\ esp' = [esp EXCEPT !.recovery = sw.esp.recovery] /\ UNCHANGED <<markers, image>>

UndoEspMarker ==
  /\ Moves("undo esp marker", "undo image")
  /\ markers' = markers \ {"esp"} /\ UNCHANGED <<esp, image>>

UndoImage ==
  /\ SwAt("undo image") /\ sw' = None
  /\ image' \in {image, None} /\ UNCHANGED <<markers, esp>>

-----------------------------------------------------------------------------
(***************************************************************************)
(* disarm                                                                  *)
(***************************************************************************)

\* On a machine that is not armed, too: it reconciles.
DisarmBegin == SwBegins("off marker", None)

RemoveMarker ==
  /\ Moves("off marker", "off esp marker")
  /\ markers' = markers \ {"local"} /\ UNCHANGED <<esp, image>>

RemoveEspMarker ==
  /\ Moves("off esp marker", "off image")
  /\ markers' = markers \ {"esp"} /\ UNCHANGED <<esp, image>>

\* The mirrored pair and ds-erase's journal stay where they are.
BuildStock ==
  /\ SwAt("off image") /\ sw' = None
  /\ image' = None /\ UNCHANGED <<markers, esp>>

\* The rollback puts back the markers that disarm had found.
RedoMarker ==
  /\ Moves("redo marker", "redo esp marker")
  /\ markers' = markers \cup (sw.markers \cap {"local"}) /\ UNCHANGED <<esp, image>>

RedoEspMarker ==
  /\ Moves("redo esp marker", "redo image")
  /\ markers' = markers \cup (sw.markers \cap {"esp"}) /\ UNCHANGED <<esp, image>>

\* ... and rebuilds: with the hook in HOOKS again and the marker back the
\* ESP's pair is baked in; a failing build leaves the image or one without it.
RedoImage ==
  /\ SwAt("redo image") /\ sw' = None
  /\ \/ Armed /\ None \notin {esp.daily, esp.recovery} /\ image' = esp
     \/ image' \in {image, None}
  /\ UNCHANGED <<markers, esp>>

-----------------------------------------------------------------------------
(***************************************************************************)
(* Failing calls of arm and disarm                                         *)
(***************************************************************************)

SwWrites ==
  /\ \/ MirrorDaily \/ MirrorRecovery \/ WriteMarker \/ BuildArmed
     \/ WriteEspMarker \/ WritePam
     \/ UndoMarker \/ UndoDaily \/ UndoRecovery \/ UndoEspMarker \/ UndoImage
     \/ RemoveMarker \/ RemoveEspMarker \/ BuildStock
     \/ RedoMarker \/ RedoEspMarker \/ RedoImage
  /\ UNCHANGED <<keys, records, journal, op, bounds, role, mixed>>
  /\ stale' = (stale /\ ~Off')

\* A failing call starts the rollback.  A failing mkinitcpio may have written
\* its image, or one whose hook refused to build; so a write that took effect
\* and then failed is a failure of the next step.
SwFails ==
  /\ sw # None /\ breaks < MaxBreaks /\ breaks' = breaks + 1
  /\ \/ \E s \in {"mirror daily", "mirror recovery", "marker", "esp marker", "pam"} :
          Moves(s, "undo marker") /\ UNCHANGED image
     \/ Moves("image", "undo marker") /\ image' \in {image, esp, None}
     \/ \E s \in {"off marker", "off esp marker"} :
          Moves(s, "redo marker") /\ UNCHANGED image
     \/ Moves("off image", "redo marker") /\ image' \in {image, None}
  /\ UNCHANGED <<keys, records, markers, esp, journal, op, commands, hands, history>>

\* A rollback goes on past its own failing calls and ends in "rollback
\* INCOMPLETE".  An arm that could not take its marker back leaves a machine
\* on which a later disarm's rollback may bake the earlier pair.
RollbackFails ==
  /\ sw # None /\ breaks < MaxBreaks /\ breaks' = breaks + 1
  /\ \/ /\ Moves("undo marker", "undo daily")
        /\ stale' = TRUE /\ mixed' = TRUE
     \/ /\ \/ Moves("undo daily", "undo recovery")
           \/ Moves("undo recovery", "undo esp marker")
           \/ Moves("undo esp marker", "undo image")
           \/ Moves("redo marker", "redo esp marker")
           \/ Moves("redo esp marker", "redo image")
        /\ UNCHANGED <<stale, mixed>>
  /\ UNCHANGED <<keys, records, preboot, journal, op, commands, hands, role>>

-----------------------------------------------------------------------------
(***************************************************************************)
(* The triggers and cryptsetup by hand                                     *)
(***************************************************************************)

NoPair == [daily |-> None, recovery |-> None]

RecordedPair == [daily |-> daily, recovery |-> recovery]

\* The machine goes down, and with it what was running.
Down == op' = None /\ sw' = None

\* ... or it stays up a while; an enrollment may have lost a slot.
Stays ==
  /\ op' = IF op = None THEN None ELSE [op EXCEPT !.lost = TRUE]
  /\ UNCHANGED sw

\* ds-erase --fire up to its durable journal, as module EraseActor has it.
EraseAccepts(pair) ==
  /\ None \notin {pair.daily, pair.recovery} /\ pair.daily # pair.recovery
  /\ journal = None

\* What it tests once the journal is durable; a daily slot that is gone already
\* is what it is after.
Erasable(d, pair) == pair.recovery \in ActiveSlots(d)

\* EraseActor in one step: the daily slot goes, and the journal with it.  An
\* actor that is refused by its own tests, fails, or ends with its session
\* leaves the journal, and the next --fire is refused.
Erase(d, pair, where) ==
  /\ EraseAccepts(pair)
  /\ \/ Erasable(d, pair) /\ SetKey(d, pair.daily, None) /\ UNCHANGED <<journal, breaks>>
     \/ /\ journal' = [dev |-> d, daily |-> pair.daily,
                       recovery |-> pair.recovery, where |-> where]
        /\ \/ ~Erasable(d, pair) /\ UNCHANGED <<keys, breaks>>
           \/ /\ breaks < MaxBreaks /\ breaks' = breaks + 1
              /\ UNCHANGED keys \/ (Erasable(d, pair) /\ SetKey(d, pair.daily, None))
  /\ UNCHANGED <<records, preboot, commands, hands, history>>

\* pam_ds and dsctl panic: gated on the marker, the recorded pair of the
\* recorded target.  deadman-check, which is not gated, is module Deadman's.
BootedTrigger == Armed /\ target # None /\ Erase(target, RecordedPair, "booted")

\* The hook and ds-unlock go ahead: the image has the hook, the ESP its marker,
\* and verify_against_baked finds the ESP's pair to be the baked one.
Live == image # None /\ "esp" \in markers /\ image = esp

\* ds-unlock: the baked pair, of the device it is asked to open.
PreBootTrigger == Live /\ Erase(Root, esp, "initramfs") /\ Down

\* Slip: any journal is resumed.
ResumeMatchesAny == journal.where = "initramfs"

\* --expected-device, --expected-slot and --expected-recovery-slot; a journal
\* of the booted system names a directory the initramfs does not have.
ResumeMatches ==
  /\ journal.where = "initramfs" /\ journal.dev = Root
  /\ journal.daily = esp.daily /\ journal.recovery = esp.recovery

\* The initramfs hook's ds-erase --resume, on the next armed boot.
BootResume ==
  /\ Live /\ journal # None /\ ResumeMatches
  /\ journal.recovery \in ActiveSlots(Root)
  /\ SetKey(Root, journal.daily, None)
  /\ journal' = None /\ Down
  /\ UNCHANGED <<records, preboot, bounds, history>>

\* The power goes, at whatever step.
Cut ==
  /\ breaks < MaxBreaks /\ breaks' = breaks + 1 /\ Down
  /\ UNCHANGED <<keys, records, preboot, journal, commands, hands, history>>

\* Somebody adds a key with cryptsetup, in whatever free slot.
AddByHand(d, s) ==
  /\ hands < MaxHands /\ s \in FreeSlots(d)
  /\ hands' = hands + 1
  /\ SetKey(d, s, Stranger)
  /\ UNCHANGED <<records, preboot, journal, op, sw, commands, breaks, history>>

\* Somebody removes a slot with luksKillSlot, one an enrollment under way has
\* looked at or the recovery slot itself included.
KillByHand(d, s) ==
  /\ hands < MaxHands /\ s \in ActiveSlots(d)
  /\ hands' = hands + 1
  /\ SetKey(d, s, None)
  /\ op' = IF op # None /\ op.dev = d THEN [op EXCEPT !.lost = TRUE] ELSE op
  /\ mixed' = (mixed \/ (role # None /\ role.dev = d /\ s \in role.slots))
  /\ UNCHANGED <<records, preboot, journal, sw, commands, breaks, role, stale>>

-----------------------------------------------------------------------------
EInit ==
  /\ keys = InitKeys
  /\ target = None /\ daily = None /\ recovery = None /\ known = {}
  /\ markers = {} /\ esp = NoPair /\ image = None
  /\ journal = None /\ op = None /\ sw = None
  /\ commands = 0 /\ hands = 0 /\ breaks = 0
  /\ role = None /\ mixed = FALSE /\ stale = FALSE

\* The steps of a machine that stays up,
Running ==
  \/ (\E a \in RecoveryArgs : EnrollRecovery(a))
  \/ (\E a \in FactorArgs : EnrollFactor(a) \/ SealTpm(a))
  \/ MatchDaily \/ DumpBefore \/ DumpBeforeFails \/ AddKey \/ DumpAfter
  \/ VerifyNew \/ WriteTarget \/ WriteDaily \/ WriteRecovery \/ WriteKnown
  \/ Break
  \/ ArmBegin \/ ArmReadDaily \/ ArmReadRecovery \/ ArmAudit \/ ArmRefuses
  \/ DisarmBegin \/ SwWrites \/ SwFails \/ RollbackFails
  \/ (BootedTrigger /\ Stays)
  \/ (\E d \in Devices, s \in SlotNumbers : AddByHand(d, s) \/ KillByHand(d, s))

\* ... and those that take it down.
Halting == Cut \/ PreBootTrigger \/ BootResume \/ (BootedTrigger /\ Down)

ENext == Running \/ Halting

ESpec == EInit /\ [][ENext]_evars

-----------------------------------------------------------------------------
(***************************************************************************)
(* Properties                                                              *)
(***************************************************************************)

Slots == SlotNumbers \cup {None}
Pairs == [daily : Slots, recovery : Slots]
Markers == {"local", "esp"}
RecoverySteps == {"match", "before", "add", "after", "verify", "target",
                  "daily", "recovery", "known"}
FactorSteps == {"before", "add", "after", "known"}

Ops == [kind : {"recovery", "factor"}, step : RecoverySteps, dev : Devices,
        old : Creds \cup {None}, new : Creds, daily : Slots,
        before : SUBSET SlotNumbers, added : SUBSET SlotNumbers, lost : BOOLEAN,
        crossed : BOOLEAN]

SwSteps ==
  {"daily", "recovery", "audit", "mirror daily", "mirror recovery", "marker",
   "image", "esp marker", "pam", "undo marker", "undo daily", "undo recovery",
   "undo esp marker", "undo image", "off marker", "off esp marker",
   "off image", "redo marker", "redo esp marker", "redo image"}

Sws == [step : SwSteps, dev : Devices \cup {None}, daily : Slots,
        recovery : Slots, esp : Pairs, markers : SUBSET Markers]

\* The types, and that past its checks a recovery enrollment holds one daily
\* slot and exactly one added slot.
ETypeOK ==
  /\ keys \in [Devices -> [SlotNumbers -> Keys]]
  /\ target \in Devices \cup {None} /\ daily \in Slots /\ recovery \in Slots
  /\ known \subseteq SlotNumbers /\ markers \subseteq Markers /\ esp \in Pairs
  /\ image \in Pairs \cup {None} /\ sw \in Sws \cup {None}
  /\ op # None =>
       /\ op \in Ops /\ (op.kind = "factor" => op.step \in FactorSteps)
       /\ op.kind = "recovery" /\ op.step # "match" => op.daily # None
       /\ op.kind = "recovery" /\ op.step \in {"verify", "target", "daily", "recovery", "known"}
            => \E s \in SlotNumbers : op.added = {s}
  /\ commands \in 0..MaxCommands /\ hands \in 0..MaxHands /\ breaks \in 0..MaxBreaks

\* The records name what the last successful enroll-recovery verified.
Recorded ==
  /\ role # None /\ target = role.dev /\ daily = role.daily
  /\ role.slots = {recovery}

\* "preserving a separately enrolled and verified offline recovery slot": since
\* the last completed enroll-recovery the records name its slots, and its new
\* credential opens the device, through failed and cut-off commands, arms,
\* disarms, factors, triggers and resumes.  Excepted are a later enrollment cut
\* off while it wrote, slots removed by hand or by a trigger under its feet, an
\* arm or disarm that crossed it or was left unfinished before it, and an arm
\* whose rollback could not remove its marker.
RecoveryOpens ==
  role # None /\ ~mixed =>
    Recorded /\ daily # recovery /\ keys[target][recovery] = role.key

\* The booted triggers and ds-unlock are after the same pair, through failed,
\* rolled-back and cut-off arms and disarms, unless an enroll-recovery wrote
\* records while one was under way or after one that left its image behind.
MirrorAgrees == Live /\ ~stale => esp = RecordedPair

\* "destroys the verified daily unlock keyslot while preserving a separately
\* enrolled and verified offline recovery slot": while the records name the
\* slot that the last successful enroll-recovery verified, and neither arm nor
\* disarm ran beside it, nothing but somebody's own cryptsetup takes its key.
TriggersSpareRecovery ==
  [][/\ hands' = hands /\ op = None
     /\ Recorded /\ role.alone /\ keys[target][recovery] = role.key
     => keys'[target][recovery] = role.key]_evars

\* "disarm before changing recovery slots": the recorded target and slots stay
\* as they are while the marker does.
RecordsHoldWhileArmed ==
  [][Armed /\ Armed' => UNCHANGED <<target, daily, recovery>>]_evars

\* "a pre-enrolled/leftover slot cannot ride along": with no enrollment under
\* way, arm goes past its audit only if every slot of the target that a wipe
\* would leave holds a key that dsctl was given.
AuditCatchesStrangers ==
  [][op = None /\ SwAt("audit") /\ SwAt("mirror daily")' =>
       \A s \in ActiveSlots(sw.dev) \ {sw.daily} : keys[sw.dev][s] # Stranger]_evars
=============================================================================
