------------------------- MODULE Enrollment_proofs -------------------------
(***************************************************************************)
(* Theorems about Enrollment, for any devices, keyslots and command lines  *)
(* and any number of commands, uses of cryptsetup by hand and failures.    *)
(***************************************************************************)
EXTENDS Enrollment, TLAPS

Written   == {"daily", "recovery", "known"}
Verified  == {"target"} \cup Written
Dumped    == {"verify"} \cup Verified
Listed    == {"add", "after"} \cup Dumped

Roles == [dev : Devices, daily : SlotNumbers, slots : SUBSET SlotNumbers,
          key : Creds, alone : BOOLEAN]

\* What an enroll-recovery under way has established and written so far.
Halfway ==
  op # None /\ op.kind = "recovery" =>
    /\ op.step \in Written => target = op.dev /\ mixed
    /\ op.step \in {"recovery", "known"} => daily = op.daily
    /\ op.step = "known" => op.added = {recovery}

\* ... and, as long as no slot has gone from under it, what still is so.
Sound ==
  op # None /\ op.kind = "recovery" /\ ~op.lost =>
    /\ op.step # "match" => keys[op.dev][op.daily] # None
    /\ op.step \in Listed => op.daily \in op.before
    /\ op.step \in Dumped => op.daily \notin op.added
    /\ op.step \in Verified => \A s \in op.added : keys[op.dev][s] = op.new

ArmWrites   == {"mirror daily", "mirror recovery", "marker", "image", "esp marker", "pam"}
Undone      == {"undo daily", "undo recovery", "undo esp marker", "undo image"}
DisarmSteps == {"off marker", "off esp marker", "off image", "redo marker",
                "redo esp marker", "redo image"}

\* What is baked, what may be baked and what arm and disarm hold is the recorded
\* pair, as long as no record changed under them.
PairsAgree ==
  /\ image # None => image = RecordedPair
  /\ Armed => esp = RecordedPair
  /\ sw # None =>
       /\ sw.step \in {"recovery", "audit"} \cup ArmWrites => sw.daily = daily
       /\ sw.step \in {"audit"} \cup ArmWrites => sw.recovery = recovery
       /\ sw.step = "mirror recovery" => esp.daily = daily
       /\ sw.step \in {"marker", "image"} => esp = RecordedPair
       /\ sw.step \in {"mirror daily", "mirror recovery"} \cup Undone => ~Armed
       /\ sw.step \in DisarmSteps /\ "local" \in sw.markers => esp = RecordedPair

Mirrored == ~stale => PairsAgree

\* An enroll-recovery that no arm or disarm has crossed runs on a machine that
\* is not armed and is not being switched.
Uncrossed ==
  op # None /\ op.kind = "recovery" /\ ~op.crossed => sw = None /\ ~Armed

\* A completed enrollment that nothing has overtaken is mirrored faithfully.
Faithful == role # None /\ ~mixed => ~stale

EInv ==
  /\ ETypeOK /\ (role # None => role \in Roles)
  /\ Halfway /\ Sound /\ Uncrossed /\ Mirrored /\ Faithful /\ RecoveryOpens

-----------------------------------------------------------------------------
(***************************************************************************)
(* Types                                                                   *)
(***************************************************************************)

\* The invariant holds of a machine that dsctl has not been used on.
LEMMA InitEInv == EInit => EInv
<1> SUFFICES ASSUME EInit PROVE EInv
  OBVIOUS
<1>1. ETypeOK
  BY EnrollAssumption DEF EInit, ETypeOK, Slots, Pairs, NoPair
<1>2. ~Armed /\ role = None /\ op = None /\ sw = None /\ image = None
  BY DEF EInit, Armed
<1> QED
  BY <1>1, <1>2 DEF EInv, Halfway, Sound, Mirrored, PairsAgree, Uncrossed, Faithful, RecoveryOpens

\* Filling or killing a slot leaves a header a header.
LEMMA SetKeyTyped ==
  ASSUME keys \in [Devices -> [SlotNumbers -> Keys]],
         NEW d \in Devices, NEW s, NEW k \in Keys, SetKey(d, s, k)
  PROVE  keys' \in [Devices -> [SlotNumbers -> Keys]]
BY DEF SetKey

\* The parts of ETypeOK: the command, and the rest.
OpTyped ==
  op # None =>
    /\ op \in Ops /\ (op.kind = "factor" => op.step \in FactorSteps)
    /\ op.kind = "recovery" /\ op.step # "match" => op.daily # None
    /\ op.kind = "recovery" /\ op.step \in Dumped
         => \E s \in SlotNumbers : op.added = {s}

DiskTyped ==
  /\ keys \in [Devices -> [SlotNumbers -> Keys]]
  /\ target \in Devices \cup {None} /\ daily \in Slots /\ recovery \in Slots
  /\ known \subseteq SlotNumbers
  /\ commands \in 0..MaxCommands /\ hands \in 0..MaxHands /\ breaks \in 0..MaxBreaks

BootTyped ==
  /\ markers \subseteq Markers /\ esp \in Pairs
  /\ image \in Pairs \cup {None} /\ sw \in Sws \cup {None}

\* They are its parts.
LEMMA ETypeParts == ETypeOK <=> OpTyped /\ DiskTyped /\ BootTyped
BY DEF ETypeOK, OpTyped, DiskTyped, BootTyped, Dumped, Verified, Written

\* What a fired ds-erase may change.
LEMMA EraseSteps ==
  ASSUME NEW d, NEW pair, NEW where, Erase(d, pair, where)
  PROVE  /\ keys' = keys \/ SetKey(d, pair.daily, None)
         /\ breaks' = breaks \/ (breaks < MaxBreaks /\ breaks' = breaks + 1)
         /\ UNCHANGED <<records, preboot, commands, hands, history>>
         /\ pair.daily # None /\ pair.daily # pair.recovery
<1>1. keys' = keys \/ SetKey(d, pair.daily, None)
  BY Zenon DEF Erase
<1>2. breaks' = breaks \/ (breaks < MaxBreaks /\ breaks' = breaks + 1)
  BY Zenon DEF Erase
<1>3. UNCHANGED <<records, preboot, commands, hands, history>>
  BY Zenon DEF Erase
<1>4. pair.daily # None /\ pair.daily # pair.recovery
  BY DEF Erase, EraseAccepts
<1> QED
  BY <1>1, <1>2, <1>3, <1>4

\* q is the command r as others leave it: it may have lost a slot, or been
\* crossed by an arm or disarm.
SameOp(q, r) ==
  /\ q \in Ops /\ (r.lost => q.lost) /\ (r.crossed => q.crossed)
  /\ q.kind = r.kind /\ q.step = r.step /\ q.dev = r.dev /\ q.old = r.old
  /\ q.new = r.new /\ q.daily = r.daily /\ q.before = r.before /\ q.added = r.added

\* A slot lost, or an arm or disarm begun.
LEMMA LostOp ==
  ASSUME NEW r \in Ops, NEW q,
         q = [r EXCEPT !.lost = TRUE] \/ q = [r EXCEPT !.crossed = TRUE] \/ q = r
  PROVE  SameOp(q, r)
<1>1. CASE q = [r EXCEPT !.lost = TRUE]
  <2>1. q \in Ops /\ q.lost /\ q.crossed = r.crossed
    BY <1>1 DEF Ops
  <2> QED
    BY <1>1, <2>1 DEF Ops, SameOp
<1>2. CASE q = [r EXCEPT !.crossed = TRUE]
  <2>1. q \in Ops /\ q.crossed /\ q.lost = r.lost
    BY <1>2 DEF Ops
  <2> QED
    BY <1>2, <2>1 DEF Ops, SameOp
<1>3. CASE q = r
  BY <1>3 DEF SameOp
<1> QED
  BY <1>1, <1>2, <1>3

-----------------------------------------------------------------------------
(***************************************************************************)
(* Steps that are not the command's own                                    *)
(***************************************************************************)

\* arm and disarm,
Switches ==
  \/ ArmBegin \/ ArmReadDaily \/ ArmReadRecovery \/ ArmAudit \/ ArmRefuses
  \/ DisarmBegin \/ SwWrites \/ SwFails \/ RollbackFails

\* ... what takes slots or fills them,
Strikes ==
  \/ (BootedTrigger /\ (Stays \/ Down)) \/ PreBootTrigger \/ BootResume
  \/ (\E d \in Devices, s \in SlotNumbers : AddByHand(d, s) \/ KillByHand(d, s))

\* ... and what ends a command.
Ends == Break \/ Cut \/ UNCHANGED evars

Others == Switches \/ Strikes \/ Ends

\* arm and disarm change no header and no role, and mark what they cross.
LEMMA SwitchesChange ==
  ASSUME Switches
  PROVE  /\ keys' = keys /\ target' = target /\ daily' = daily /\ recovery' = recovery
         /\ role' = role /\ commands' = commands /\ hands' = hands
         /\ breaks' = breaks \/ (breaks < MaxBreaks /\ breaks' = breaks + 1)
         /\ op' = op \/ (op # None /\ op' = [op EXCEPT !.crossed = TRUE])
<1>1. CASE ArmBegin \/ DisarmBegin
  <2>1. UNCHANGED <<keys, records, bounds, history>>
    BY <1>1 DEF ArmBegin, DisarmBegin, SwBegins
  <2>2. op' = op \/ (op # None /\ op' = [op EXCEPT !.crossed = TRUE])
    BY <1>1, Zenon DEF ArmBegin, DisarmBegin, SwBegins
  <2> QED
    BY <2>1, <2>2 DEF records, bounds, history
<1>2. CASE ArmReadDaily \/ ArmReadRecovery \/ ArmAudit \/ ArmRefuses
  <2>1. /\ op' = op /\ UNCHANGED <<keys, target, daily, recovery, bounds, role>>
    BY <1>2, Zenon DEF ArmReadDaily, ArmReadRecovery, ArmAudit, ArmRefuses, records, history
  <2> QED
    BY <2>1 DEF bounds
<1>3. CASE SwWrites
  <2>1. /\ op' = op /\ UNCHANGED <<keys, records, bounds, role>>
    BY <1>3, Zenon DEF SwWrites
  <2> QED
    BY <2>1 DEF bounds, records
<1>4. CASE SwFails \/ RollbackFails
  <2>1. /\ op' = op /\ breaks < MaxBreaks /\ breaks' = breaks + 1
        /\ UNCHANGED <<keys, records, commands, hands, role>>
    BY <1>4, Zenon DEF SwFails, RollbackFails, history
  <2> QED
    BY <2>1 DEF records
<1> QED
  BY <1>1, <1>2, <1>3, <1>4 DEF Switches

\* Nobody but arm, disarm and the enrolling command itself touches what arm
\* mirrors or writes the records.
LEMMA StrikesChange ==
  ASSUME Strikes \/ Ends
  PROVE  /\ target' = target /\ daily' = daily /\ recovery' = recovery
         /\ known' = known /\ markers' = markers /\ esp' = esp /\ image' = image
         /\ role' = role /\ (sw' = None \/ sw' = sw)
<1>1. CASE BootedTrigger /\ (Stays \/ Down)
  BY <1>1, EraseSteps DEF BootedTrigger, Stays, Down, records, preboot, history
<1>2. CASE PreBootTrigger
  BY <1>2, EraseSteps DEF PreBootTrigger, Down, records, preboot, history
<1>3. CASE BootResume
  BY <1>3 DEF BootResume, Down, records, preboot, history
<1>4. ASSUME NEW d \in Devices, NEW s \in SlotNumbers, AddByHand(d, s) \/ KillByHand(d, s)
      PROVE  UNCHANGED <<records, preboot, sw, role>>
  BY <1>4, Zenon DEF AddByHand, KillByHand, history
<1>5. CASE Ends
  BY <1>5 DEF Ends, Break, Cut, Down, evars, records, preboot, history
<1> QED
  BY <1>1, <1>2, <1>3, <1>4, <1>5 DEF Strikes, records, preboot

\* `mixed` and `stale` say no less afterwards.
LEMMA StrikesAndHistory ==
  ASSUME Strikes \/ Ends
  PROVE  (mixed => mixed') /\ (stale <=> stale')
<1>1. CASE BootedTrigger /\ (Stays \/ Down)
  <2>1. mixed' = mixed /\ stale' = stale
    BY <1>1, EraseSteps DEF BootedTrigger, history
  <2> QED
    BY <2>1, Zenon
<1>2. CASE PreBootTrigger
  <2>1. mixed' = mixed /\ stale' = stale
    BY <1>2, EraseSteps DEF PreBootTrigger, history
  <2> QED
    BY <2>1, Zenon
<1>3. CASE BootResume
  <2>1. mixed' = mixed /\ stale' = stale
    BY <1>3 DEF BootResume, history
  <2> QED
    BY <2>1, Zenon
<1>4. ASSUME NEW d \in Devices, NEW s \in SlotNumbers, AddByHand(d, s) \/ KillByHand(d, s)
      PROVE  (mixed => mixed') /\ (stale <=> stale')
  <2>1. stale' = stale
    BY <1>4 DEF AddByHand, KillByHand, history
  <2>2. CASE AddByHand(d, s)
    <3>1. mixed' = mixed
      BY <2>2 DEF AddByHand, history
    <3> QED
      BY <2>1, <3>1, Zenon
  <2>3. CASE KillByHand(d, s)
    <3>1. mixed => mixed'
      BY <2>3, Zenon DEF KillByHand
    <3> QED
      BY <2>1, <3>1, Zenon
  <2> QED
    BY <1>4, <2>2, <2>3, Zenon
<1>5. CASE Ends
  <2>1. mixed' = mixed /\ stale' = stale
    BY <1>5 DEF Ends, Break, Cut, evars, history
  <2> QED
    BY <2>1, Zenon
<1> QED
  BY <1>1, <1>2, <1>3, <1>4, <1>5, Zenon DEF Strikes

\* So do arm and disarm of `mixed`.
LEMMA SwitchesAndMixed == ASSUME Switches PROVE mixed => mixed'
<1>1. mixed' = mixed \/ mixed' = TRUE
  BY Zenon DEF Switches, ArmBegin, DisarmBegin, SwBegins, ArmReadDaily, ArmReadRecovery,
    ArmAudit, ArmRefuses, SwWrites, SwFails, RollbackFails, history
<1> QED
  BY <1>1, Zenon

\* They leave the records and the last completed enrollment alone.
LEMMA OthersAndRecords ==
  ASSUME Others
  PROVE  /\ target' = target /\ daily' = daily /\ recovery' = recovery
         /\ role' = role /\ (mixed => mixed')
<1>1. target' = target /\ daily' = daily /\ recovery' = recovery /\ role' = role
  BY SwitchesChange, StrikesChange DEF Others
<1>2. mixed => mixed'
  BY SwitchesAndMixed, StrikesAndHistory, Zenon DEF Others
<1> QED
  BY <1>1, <1>2, Zenon

\* They end the command, or it has lost a slot, or no slot of its device was
\* emptied or changed.
LEMMA OthersAndOp ==
  ASSUME OpTyped, DiskTyped, Others, op' # None
  PROVE  /\ op # None /\ SameOp(op', op)
         /\ \/ op'.lost
            \/ \A s \in SlotNumbers : keys[op.dev][s] # None
                                       => keys'[op.dev][s] = keys[op.dev][s]
<1> DEFINE Kept == \A s \in SlotNumbers : keys[op.dev][s] # None
                                       => keys'[op.dev][s] = keys[op.dev][s]
           Goal == op # None /\ SameOp(op', op) /\ (op'.lost \/ Kept)
<1>1. CASE Switches
  <2>1. op # None /\ (op' = op \/ op' = [op EXCEPT !.crossed = TRUE]) /\ keys' = keys
    BY <1>1, SwitchesChange
  <2>2. op \in Ops
    BY <2>1 DEF OpTyped
  <2>3. SameOp(op', op)
    BY <2>1, <2>2, LostOp
  <2> QED
    BY <2>1, <2>3
<1>2. CASE (BootedTrigger /\ (Stays \/ Down)) \/ PreBootTrigger \/ BootResume
  <2>1. Stays
    BY <1>2 DEF PreBootTrigger, BootResume, Down
  <2>2. op # None /\ op' = [op EXCEPT !.lost = TRUE]
    BY <2>1, Zenon DEF Stays
  <2>3. op \in Ops /\ op'.lost
    BY <2>2 DEF OpTyped, Ops
  <2> QED
    BY <2>2, <2>3, LostOp
<1>3. ASSUME NEW d \in Devices, NEW t \in SlotNumbers, AddByHand(d, t) PROVE Goal
  <2>1. op' = op /\ keys' = [keys EXCEPT ![d][t] = Stranger] /\ keys[d][t] = None
    BY <1>3 DEF AddByHand, SetKey, FreeSlots, ActiveSlots
  <2>2. op # None /\ op \in Ops /\ op.dev \in Devices
    BY <2>1 DEF OpTyped, Ops
  <2> QED
    BY <2>1, <2>2, LostOp DEF DiskTyped
<1>4. ASSUME NEW d \in Devices, NEW t \in SlotNumbers, KillByHand(d, t) PROVE Goal
  <2>1. keys' = [keys EXCEPT ![d][t] = None]
    BY <1>4, Zenon DEF KillByHand, SetKey
  <2>2. \/ (op = None \/ op.dev # d) /\ op' = op
        \/ op # None /\ op.dev = d /\ op' = [op EXCEPT !.lost = TRUE]
    BY <1>4, Zenon DEF KillByHand
  <2>3. op # None /\ op \in Ops /\ op.dev \in Devices
    BY <2>2 DEF OpTyped, Ops
  <2>4. CASE op.dev = d
    <3>1. op' = [op EXCEPT !.lost = TRUE]
      BY <2>2, <2>3, <2>4
    <3>2. op'.lost
      BY <2>3, <3>1 DEF Ops
    <3> QED
      BY <2>3, <3>1, <3>2, LostOp
  <2>5. CASE op.dev # d
    BY <2>1, <2>2, <2>3, <2>5, LostOp DEF DiskTyped
  <2> QED
    BY <2>4, <2>5
<1>5. CASE Ends
  <2>1. op' = op /\ keys' = keys
    BY <1>5 DEF Ends, Break, Cut, Down, evars
  <2> QED
    BY <2>1, LostOp DEF OpTyped
<1> QED
  BY <1>1, <1>2, <1>3, <1>4, <1>5 DEF Others, Strikes

\* So a command that has lost nothing can still rely on what it has tested.
LEMMA OthersKeepHalfway ==
  ASSUME OpTyped, DiskTyped, Others, Halfway, Sound
  PROVE  Halfway' /\ Sound'
<1>1. CASE op' = None
  BY <1>1 DEF Halfway, Sound
<1>2. CASE op' # None
  <2>1. op # None /\ SameOp(op', op)
    BY <1>2, OthersAndOp
  <2>2. op \in Ops /\ op.new # None /\ op.added \subseteq SlotNumbers
    BY <2>1, EnrollAssumption DEF OpTyped, Ops
  <2>3. op.kind = "recovery" /\ op.step # "match" => op.daily \in SlotNumbers
    BY <2>1 DEF OpTyped, Ops, Slots
  <2>4. Halfway'
    BY <2>1, OthersAndRecords DEF Halfway, SameOp
  <2>5. CASE op'.lost
    BY <2>4, <2>5 DEF Sound
  <2>6. CASE ~op'.lost
    <3>1. \A s \in SlotNumbers : keys[op.dev][s] # None => keys'[op.dev][s] = keys[op.dev][s]
      BY <1>2, <2>6, OthersAndOp
    <3>2. ~op.lost
      BY <2>1, <2>6 DEF SameOp
    <3>3. Sound'
      BY <2>1, <2>2, <2>3, <3>1, <3>2 DEF Sound, SameOp, Listed, Dumped, Verified, Written
    <3> QED
      BY <2>4, <3>3
  <2> QED
    BY <2>5, <2>6
<1> QED
  BY <1>1, <1>2

-----------------------------------------------------------------------------
(***************************************************************************)
(* The command's own steps                                                 *)
(***************************************************************************)

\* Beginning a command, listing, and giving up: nothing else changes.
Looks ==
  \/ (\E a \in RecoveryArgs : EnrollRecovery(a))
  \/ (\E a \in FactorArgs : EnrollFactor(a) \/ SealTpm(a))
  \/ MatchDaily \/ DumpBefore \/ DumpBeforeFails \/ DumpAfter \/ VerifyNew

\* ... but the command itself and the counters.
LEMMA LooksChange ==
  ASSUME Looks
  PROVE  /\ keys' = keys /\ target' = target /\ daily' = daily
         /\ recovery' = recovery /\ known' = known /\ markers' = markers
         /\ esp' = esp /\ image' = image /\ sw' = sw
         /\ role' = role /\ mixed' = mixed /\ stale' = stale
<1>1. ASSUME NEW a \in RecoveryArgs, EnrollRecovery(a)
      PROVE  UNCHANGED <<keys, records, preboot, sw, history>>
  BY <1>1 DEF EnrollRecovery
<1>2. ASSUME NEW a \in FactorArgs, EnrollFactor(a) \/ SealTpm(a)
      PROVE  UNCHANGED <<keys, records, preboot, sw, history>>
  BY <1>2 DEF EnrollFactor, SealTpm
<1>3. CASE MatchDaily \/ DumpBefore \/ DumpBeforeFails \/ DumpAfter \/ VerifyNew
  BY <1>3 DEF MatchDaily, DumpBefore, DumpBeforeFails, DumpAfter, VerifyNew, records,
              preboot, history
<1> QED
  BY <1>1, <1>2, <1>3 DEF Looks, records, preboot, history

\* The listings and tests of a command establish what Sound says of them.
LEMMA LooksKeepHalfway ==
  ASSUME OpTyped, DiskTyped, Looks, Halfway, Sound
  PROVE  Halfway' /\ Sound'
<1> USE LooksChange DEF At, Written, Verified, Dumped, Listed
<1>1. ASSUME NEW a \in RecoveryArgs, EnrollRecovery(a) PROVE Halfway' /\ Sound'
  BY <1>1 DEF EnrollRecovery, NewOp, Halfway, Sound
<1>2. ASSUME NEW a \in FactorArgs, EnrollFactor(a) \/ SealTpm(a) PROVE Halfway' /\ Sound'
  <2>1. op' = None \/ op'.kind = "factor"
    BY <1>2 DEF EnrollFactor, SealTpm, NewOp
  <2> QED
    BY <2>1 DEF Halfway, Sound
<1>3. ASSUME op # None PROVE op \in Ops
  BY <1>3 DEF OpTyped
<1>4. CASE MatchDaily
  <2>1. CASE op' = None
    BY <2>1 DEF Halfway, Sound
  <2>2. ASSUME NEW s \in SlotNumbers, MatchingSlots(op.dev, op.old) = {s},
               op' = [op EXCEPT !.daily = s, !.step = "before"]
        PROVE  Halfway' /\ Sound'
    <3>1. op'.step = "before" /\ op'.daily = s /\ op'.dev = op.dev
      BY <1>3, <1>4, <2>2 DEF MatchDaily, Ops
    <3>2. keys[op.dev][s] # None
      BY <2>2 DEF MatchingSlots, ActiveSlots
    <3> QED
      BY <3>1, <3>2 DEF Halfway, Sound
  <2> QED
    BY <1>4, <2>1, <2>2 DEF MatchDaily
<1>5. CASE DumpBefore
  <2>1. /\ op # None /\ op.step = "before" /\ op'.step = "add" /\ op'.daily = op.daily
        /\ op'.dev = op.dev /\ op'.kind = op.kind /\ op'.lost = op.lost
        /\ op'.before = ActiveSlots(op.dev)
    BY <1>3, <1>5 DEF DumpBefore, Ops
  <2>2. op.kind = "recovery" => op.daily \in SlotNumbers
    BY <1>3, <2>1 DEF OpTyped, Ops, Slots
  <2> QED
    BY <2>1, <2>2 DEF Halfway, Sound, ActiveSlots
<1>6. CASE DumpBeforeFails
  <2>1. op'.kind = "factor"
    BY <1>3, <1>6 DEF DumpBeforeFails, Ops
  <2> QED
    BY <2>1 DEF Halfway, Sound
<1>7. CASE DumpAfter
  <2>1. CASE op' = None \/ op.kind = "factor"
    BY <1>3, <1>7, <2>1 DEF DumpAfter, Halfway, Sound, Ops
  <2>2. CASE op' # None /\ op.kind # "factor"
    <3>1. op' = [op EXCEPT !.added = Added, !.step = "verify"] /\ op.step = "after"
      BY <1>7, <2>2 DEF DumpAfter
    <3>2. /\ op'.step = "verify" /\ op'.daily = op.daily /\ op'.dev = op.dev
          /\ op'.kind = op.kind /\ op'.lost = op.lost /\ op'.before = op.before
          /\ op'.added = ActiveSlots(op.dev) \ op.before
      BY <1>3, <1>7, <3>1 DEF DumpAfter, Added, Ops
    <3> QED
      BY <1>7, <3>1, <3>2 DEF DumpAfter, Halfway, Sound
  <2> QED
    BY <2>1, <2>2
<1>8. CASE VerifyNew
  <2>1. CASE op' = None
    BY <2>1 DEF Halfway, Sound
  <2>2. CASE op' # None
    <3>1. /\ op' = [op EXCEPT !.step = "target"] /\ op.step = "verify" /\ op # None
          /\ MatchingSlots(op.dev, op.new) = op.added
      BY <1>8, <2>2 DEF VerifyNew
    <3>2. /\ op'.step = "target" /\ op'.daily = op.daily /\ op'.dev = op.dev
          /\ op'.kind = op.kind /\ op'.lost = op.lost /\ op'.before = op.before
          /\ op'.added = op.added /\ op'.new = op.new
      BY <1>3, <3>1 DEF Ops
    <3>3. \A s \in op.added : keys[op.dev][s] = op.new
      BY <3>1 DEF MatchingSlots
    <3> QED
      BY <3>1, <3>2, <3>3 DEF Halfway, Sound
  <2> QED
    BY <2>1, <2>2
<1> QED
  BY <1>1, <1>2, <1>4, <1>5, <1>6, <1>7, <1>8 DEF Looks

\* The steps that write the records are a recovery enrollment's.
LEMMA WritersAreRecoveries ==
  ASSUME OpTyped, WriteTarget \/ WriteDaily \/ WriteRecovery
  PROVE  op # None /\ op \in Ops /\ op.kind = "recovery" /\ op.step \in Verified
BY DEF WriteTarget, WriteDaily, WriteRecovery, At, OpTyped, Ops, FactorSteps, Verified,
       Written

\* From its first write on an enrollment has overtaken the one before it.
LEMMA WritersSetMixed ==
  ASSUME OpTyped, Halfway, WriteTarget \/ WriteDaily \/ WriteRecovery
  PROVE  mixed'
<1>1. op # None /\ op.kind = "recovery"
  BY WritersAreRecoveries
<1>2. CASE WriteTarget
  BY <1>2, Zenon DEF WriteTarget
<1>3. CASE WriteDaily \/ WriteRecovery
  <2>1. mixed /\ mixed' = mixed
    BY <1>1, <1>3 DEF WriteDaily, WriteRecovery, At, Halfway, Written
  <2> QED
    BY <2>1, Zenon
<1> QED
  BY <1>2, <1>3

\* luksAddKey leaves the slots in use as they are.
LEMMA AddKeyFills ==
  ASSUME OpTyped, DiskTyped, AddKey, NEW d \in Devices, NEW s \in SlotNumbers,
         keys[d][s] # None
  PROVE  keys'[d][s] = keys[d][s]
<1>1. op # None /\ op.dev \in Devices
  BY DEF AddKey, At, OpTyped, Ops
<1>2. CASE keys' = keys
  BY <1>2
<1>3. ASSUME NEW t \in SlotNumbers, LowestFree(op.dev, t), SetKey(op.dev, t, op.new)
      PROVE  keys'[d][s] = keys[d][s]
  <2>1. keys[op.dev][t] = None
    BY <1>3 DEF LowestFree, FreeSlots, ActiveSlots
  <2> QED
    BY <1>1, <1>3, <2>1 DEF SetKey, DiskTyped
<1> QED
  BY <1>2, <1>3, Zenon DEF AddKey

\* ... and its writes what Halfway says of them.
LEMMA WritesKeepHalfway ==
  ASSUME OpTyped, DiskTyped, Halfway, Sound,
         AddKey \/ WriteTarget \/ WriteDaily \/ WriteRecovery \/ WriteKnown
  PROVE  Halfway' /\ Sound'
<1> USE DEF At, Written, Verified, Dumped, Listed
<1>1. CASE AddKey
  <2>1. CASE op' = None
    BY <2>1 DEF Halfway, Sound
  <2>2. CASE op' # None
    <3>1. op # None /\ op \in Ops /\ op.step = "add" /\ op' = [op EXCEPT !.step = "after"]
      BY <1>1, <2>2 DEF AddKey, OpTyped
    <3>2. /\ op'.step = "after" /\ op'.daily = op.daily /\ op'.dev = op.dev
          /\ op'.kind = op.kind /\ op'.lost = op.lost /\ op'.before = op.before
      BY <3>1 DEF Ops
    <3>3. op.kind = "recovery" => op.daily \in SlotNumbers
      BY <3>1 DEF OpTyped, Ops, Slots
    <3>4. op.dev \in Devices
      BY <3>1 DEF Ops
    <3> QED
      BY <1>1, <3>1, <3>2, <3>3, <3>4, AddKeyFills DEF Halfway, Sound
  <2> QED
    BY <2>1, <2>2
<1>2. CASE WriteTarget
  <2>1. /\ op \in Ops /\ op.step = "target" /\ op' = [op EXCEPT !.step = "daily"]
        /\ target' = op.dev /\ mixed' /\ keys' = keys /\ op # None
    BY <1>2, WritersAreRecoveries DEF WriteTarget
  <2>2. /\ op'.step = "daily" /\ op'.daily = op.daily /\ op'.dev = op.dev
        /\ op'.kind = op.kind /\ op'.lost = op.lost /\ op'.before = op.before
        /\ op'.added = op.added /\ op'.new = op.new
    BY <2>1 DEF Ops
  <2> QED
    BY <2>1, <2>2 DEF Halfway, Sound
<1>3. CASE WriteDaily
  <2>1. /\ op \in Ops /\ op.step = "daily" /\ op' = [op EXCEPT !.step = "recovery"]
        /\ daily' = op.daily /\ target' = target /\ mixed' = mixed /\ keys' = keys
        /\ op # None /\ op.kind = "recovery"
    BY <1>3, WritersAreRecoveries DEF WriteDaily
  <2>2. /\ op'.step = "recovery" /\ op'.daily = op.daily /\ op'.dev = op.dev
        /\ op'.kind = op.kind /\ op'.lost = op.lost /\ op'.before = op.before
        /\ op'.added = op.added /\ op'.new = op.new
    BY <2>1 DEF Ops
  <2> QED
    BY <2>1, <2>2 DEF Halfway, Sound
<1>4. CASE WriteRecovery
  <2>1. /\ op \in Ops /\ op.step = "recovery" /\ op' = [op EXCEPT !.step = "known"]
        /\ daily' = daily /\ target' = target /\ mixed' = mixed /\ keys' = keys
        /\ op # None /\ op.kind = "recovery" /\ recovery' \in op.added
    BY <1>4, WritersAreRecoveries DEF WriteRecovery, history
  <2>2. /\ op'.step = "known" /\ op'.daily = op.daily /\ op'.dev = op.dev
        /\ op'.kind = op.kind /\ op'.lost = op.lost /\ op'.before = op.before
        /\ op'.added = op.added /\ op'.new = op.new
    BY <2>1 DEF Ops
  <2>3. op.added = {recovery'}
    BY <2>1 DEF OpTyped
  <2> QED
    BY <2>1, <2>2, <2>3 DEF Halfway, Sound
<1>5. CASE WriteKnown
  BY <1>5 DEF WriteKnown, Halfway, Sound
<1> QED
  BY <1>1, <1>2, <1>3, <1>4, <1>5

\* Every step is somebody else's, a look, or a write.
LEMMA StepKinds ==
  ASSUME [ENext]_evars
  PROVE  Others \/ Looks \/ AddKey \/ WriteTarget \/ WriteDaily \/ WriteRecovery
         \/ WriteKnown
BY Zenon DEF ENext, Running, Halting, Others, Switches, Strikes, Ends, Looks

\* What a command under way relies on holds until it ends.
LEMMA NextHalfway ==
  ASSUME OpTyped, DiskTyped, Halfway, Sound, [ENext]_evars
  PROVE  Halfway' /\ Sound'
BY StepKinds, OthersKeepHalfway, LooksKeepHalfway, WritesKeepHalfway

-----------------------------------------------------------------------------
(***************************************************************************)
(* Type correctness                                                        *)
(***************************************************************************)

\* Each step of a command leaves it at one of its own steps, with what that
\* step needs.
LEMMA NextOpTyped == OpTyped /\ DiskTyped /\ [ENext]_evars => OpTyped'
<1> SUFFICES ASSUME OpTyped, DiskTyped, [ENext]_evars PROVE OpTyped'
  OBVIOUS
<1> USE DEF OpTyped, Slots, RecoverySteps, FactorSteps, Dumped, Verified, Written, At
<1>1. ASSUME NEW a \in RecoveryArgs, EnrollRecovery(a) PROVE OpTyped'
  BY <1>1, EnrollAssumption DEF Ops, EnrollRecovery, NewOp
<1>2. ASSUME NEW a \in FactorArgs, EnrollFactor(a) \/ SealTpm(a) PROVE OpTyped'
  <2>1. PICK t \in Devices : op' = NewOp("factor", "before", t, None, a.new, sw # None)
    BY <1>2, EnrollAssumption DEF EnrollFactor, SealTpm, DiskTyped
  <2> QED
    BY <2>1, EnrollAssumption DEF NewOp, Ops
<1>3. CASE MatchDaily
  BY <1>3, EnrollAssumption DEF Ops, MatchDaily
<1>3a. CASE DumpBefore
  BY <1>3a, EnrollAssumption DEF Ops, DumpBefore, ActiveSlots
<1>3b. CASE DumpBeforeFails
  BY <1>3b, EnrollAssumption DEF Ops, DumpBeforeFails
<1>4. CASE AddKey
  BY <1>4, EnrollAssumption DEF Ops, AddKey
<1>5. CASE DumpAfter
  BY <1>5, EnrollAssumption DEF Ops, DumpAfter, Added, ActiveSlots
<1>5a. CASE VerifyNew
  BY <1>5a, EnrollAssumption DEF Ops, VerifyNew
<1>6. CASE WriteTarget
  BY <1>6, EnrollAssumption DEF Ops, WriteTarget
<1>6a. CASE WriteDaily
  BY <1>6a, EnrollAssumption DEF Ops, WriteDaily
<1>6b. CASE WriteRecovery
  BY <1>6b, EnrollAssumption DEF Ops, WriteRecovery
<1>7. CASE WriteKnown
  BY <1>7 DEF WriteKnown
<1>8. CASE Others
  <2>1. op' = None \/ (op # None /\ SameOp(op', op))
    BY <1>8, OthersAndOp
  <2> QED
    BY <2>1 DEF SameOp
<1> QED
  BY <1>1, <1>2, <1>3, <1>3a, <1>3b, <1>4, <1>5, <1>5a, <1>6, <1>6a, <1>6b,
     <1>7, <1>8, StepKinds DEF Looks

\* Headers and record files hold only slots of the device's range.
LEMMA NextDiskTyped ==
  OpTyped /\ DiskTyped /\ BootTyped /\ [ENext]_evars => DiskTyped'
<1> SUFFICES ASSUME OpTyped, DiskTyped, BootTyped, [ENext]_evars PROVE DiskTyped'
  OBVIOUS
<1> USE EnrollAssumption DEF DiskTyped, records, bounds, At
<1>1. ASSUME NEW a \in RecoveryArgs, EnrollRecovery(a) PROVE DiskTyped'
  BY <1>1 DEF EnrollRecovery
<1>2. ASSUME NEW a \in FactorArgs, EnrollFactor(a) \/ SealTpm(a) PROVE DiskTyped'
  <2>1. /\ commands < MaxCommands /\ commands' = commands + 1
        /\ UNCHANGED <<keys, records, hands, breaks>>
    BY <1>2, Zenon DEF EnrollFactor, SealTpm
  <2> QED
    BY <2>1
<1>3. CASE MatchDaily \/ DumpBefore \/ DumpAfter \/ VerifyNew
  <2>1. UNCHANGED <<keys, records, bounds>>
    BY <1>3, Zenon DEF MatchDaily, DumpBefore, DumpAfter, VerifyNew
  <2> QED
    BY <2>1
<1>4. CASE DumpBeforeFails
  BY <1>4 DEF DumpBeforeFails
<1>5. CASE AddKey
  <2>1. op.dev \in Devices /\ op.new \in Keys
    BY <1>5 DEF AddKey, OpTyped, Ops, Keys
  <2>2. keys' = keys \/ \E s \in SlotNumbers : SetKey(op.dev, s, op.new)
    BY <1>5, Zenon DEF AddKey
  <2>3. UNCHANGED <<records, bounds>>
    BY <1>5, Zenon DEF AddKey
  <2>4. keys' \in [Devices -> [SlotNumbers -> Keys]]
    BY <2>1, <2>2, SetKeyTyped
  <2> QED
    BY <2>3, <2>4
<1>6. CASE WriteTarget \/ WriteDaily \/ WriteRecovery
  <2>1. op # None /\ op \in Ops /\ op.kind = "recovery" /\ op.step \in Verified
    BY <1>6, WritersAreRecoveries
  <2>2. op.daily \in SlotNumbers /\ op.added \subseteq SlotNumbers /\ op.dev \in Devices
    BY <2>1 DEF OpTyped, Ops, Slots, Verified, Written
  <2>3. /\ target' \in {target, op.dev}
        /\ recovery' = recovery \/ recovery' \in op.added
        /\ daily' = daily \/ daily' = op.daily
        /\ UNCHANGED <<keys, known, bounds>>
    BY <1>6, Zenon DEF WriteTarget, WriteDaily, WriteRecovery
  <2> QED
    BY <2>2, <2>3 DEF Slots
<1>7. CASE WriteKnown
  BY <1>7 DEF WriteKnown, OpTyped, Ops, Slots
<1>8. CASE Switches
  <2>1. known' = known \/ (known' = Baseline /\ sw # None /\ RolesProven)
    BY <1>8, Zenon DEF Switches, ArmBegin, DisarmBegin, SwBegins, ArmReadDaily,
      ArmReadRecovery, ArmAudit, ArmRefuses, SwWrites, SwFails, RollbackFails, SwAt
  <2>2. known' \subseteq SlotNumbers
    BY <2>1 DEF Baseline, RolesProven, BootTyped, Sws, Slots
  <2> QED
    BY <1>8, <2>2, SwitchesChange
<1>9. CASE (BootedTrigger /\ (Stays \/ Down)) \/ PreBootTrigger
  <2>1. PICK d \in Devices, pair \in {RecordedPair, esp} :
          Erase(d, pair, "booted") \/ Erase(d, pair, "initramfs")
    BY <1>9 DEF BootedTrigger, PreBootTrigger
  <2>2. keys' = keys \/ SetKey(d, pair.daily, None)
    BY <2>1, EraseSteps
  <2>3. breaks' = breaks \/ (breaks < MaxBreaks /\ breaks' = breaks + 1)
    BY <2>1, EraseSteps
  <2>4. UNCHANGED <<records, commands, hands>>
    BY <2>1, EraseSteps, Zenon
  <2>5. keys' \in [Devices -> [SlotNumbers -> Keys]]
    BY <2>2, SetKeyTyped DEF Keys
  <2> QED
    BY <2>3, <2>4, <2>5
<1>10. CASE BootResume
  BY <1>10 DEF BootResume, SetKey, Keys
<1>11. ASSUME NEW d \in Devices, NEW s \in SlotNumbers, AddByHand(d, s)
       PROVE  DiskTyped'
  BY <1>11 DEF AddByHand, SetKey, Keys
<1>12. ASSUME NEW d \in Devices, NEW s \in SlotNumbers, KillByHand(d, s)
       PROVE  DiskTyped'
  BY <1>12 DEF KillByHand, SetKey, Keys
<1>13. CASE Ends
  <2>1. /\ breaks' = breaks \/ (breaks < MaxBreaks /\ breaks' = breaks + 1)
        /\ UNCHANGED <<keys, records, commands, hands>>
    BY <1>13, Zenon DEF Ends, Break, Cut, evars
  <2> QED
    BY <2>1
<1> QED
  BY <1>1, <1>2, <1>3, <1>4, <1>5, <1>6, <1>7, <1>8, <1>9, <1>10, <1>11, <1>12,
     <1>13, StepKinds DEF Others, Strikes, Looks

\* The writes of arm and disarm leave pairs of slots and armed markers.
LEMMA SwWritesTyped == ASSUME BootTyped, SwWrites PROVE BootTyped'
<1> USE DEF BootTyped, Moves, SwAt
<1>1. sw # None /\ sw \in Sws
  BY Zenon DEF SwWrites, MirrorDaily, MirrorRecovery, WriteMarker, BuildArmed,
    WriteEspMarker, WritePam, UndoMarker, UndoDaily, UndoRecovery, UndoEspMarker,
    UndoImage, RemoveMarker, RemoveEspMarker, BuildStock, RedoMarker, RedoEspMarker,
    RedoImage
<1>2. ASSUME NEW from, NEW to \in SwSteps, Moves(from, to) PROVE sw' \in Sws
  BY <1>1, <1>2 DEF Sws
<1>3. CASE MirrorDaily \/ MirrorRecovery \/ UndoDaily \/ UndoRecovery
  <2>1. sw' \in Sws /\ UNCHANGED <<markers, image>>
    BY <1>2, <1>3 DEF MirrorDaily, MirrorRecovery, UndoDaily, UndoRecovery, SwSteps
  <2>2. esp' \in Pairs
    BY <1>1, <1>3 DEF MirrorDaily, MirrorRecovery, UndoDaily, UndoRecovery, Sws, Pairs
  <2> QED
    BY <2>1, <2>2
<1>4. CASE WriteMarker \/ WriteEspMarker \/ UndoMarker \/ UndoEspMarker
           \/ RemoveMarker \/ RemoveEspMarker \/ RedoMarker \/ RedoEspMarker
  <2>1. sw' \in Sws /\ UNCHANGED <<esp, image>>
    BY <1>2, <1>4 DEF WriteMarker, WriteEspMarker, UndoMarker, UndoEspMarker,
                      RemoveMarker, RemoveEspMarker, RedoMarker, RedoEspMarker, SwSteps
  <2>2. markers' \subseteq Markers
    BY <1>4 DEF WriteMarker, WriteEspMarker, UndoMarker, UndoEspMarker, RemoveMarker,
                RemoveEspMarker, RedoMarker, RedoEspMarker, Markers
  <2> QED
    BY <2>1, <2>2
<1>5. CASE BuildArmed
  BY <1>2, <1>5 DEF BuildArmed, SwSteps
<1>6. CASE WritePam \/ UndoImage \/ BuildStock \/ RedoImage
  BY <1>6 DEF WritePam, UndoImage, BuildStock, RedoImage, preboot
<1> QED
  BY <1>3, <1>4, <1>5, <1>6 DEF SwWrites

\* What arm and disarm hold, write and leave is of its type.
LEMMA NextBootTyped == DiskTyped /\ BootTyped /\ [ENext]_evars => BootTyped'
<1> SUFFICES ASSUME DiskTyped, BootTyped, [ENext]_evars PROVE BootTyped'
  OBVIOUS
<1> USE DEF BootTyped
<1>1. CASE Strikes \/ Ends
  BY <1>1, StrikesChange
<1>2. CASE Looks
  BY <1>2, LooksChange
<1>3. CASE AddKey \/ WriteTarget \/ WriteDaily \/ WriteRecovery \/ WriteKnown
  <2>1. UNCHANGED <<preboot, sw>>
    BY <1>3, Zenon DEF AddKey, WriteTarget, WriteDaily, WriteRecovery, WriteKnown
  <2> QED
    BY <2>1 DEF preboot
<1>4. CASE ArmBegin \/ DisarmBegin
  <2>1. PICK step \in {"daily", "off marker"}, dev \in Devices \cup {None} :
          sw' = NewSw(step, dev) /\ UNCHANGED preboot
    BY <1>4 DEF ArmBegin, DisarmBegin, SwBegins, DiskTyped
  <2> QED
    BY <2>1 DEF NewSw, Sws, SwSteps, Slots, preboot
<1>5. CASE ArmReadDaily \/ ArmReadRecovery
  BY <1>5 DEF ArmReadDaily, ArmReadRecovery, SwAt, Sws, SwSteps, DiskTyped, preboot
<1>6. CASE ArmAudit \/ ArmRefuses
  <2>1. UNCHANGED preboot
    BY <1>6, Zenon DEF ArmAudit, ArmRefuses
  <2>2. sw' = None \/ (sw # None /\ sw' = [sw EXCEPT !.step = "mirror daily", !.esp = esp])
    BY <1>6, Zenon DEF ArmAudit, ArmRefuses, SwAt
  <2>3. sw' \in Sws \cup {None}
    BY <2>2 DEF Sws, SwSteps
  <2> QED
    BY <2>1, <2>3 DEF preboot
<1>7. CASE SwWrites
  BY <1>7, SwWritesTyped
<1>8. CASE SwFails
  <2>1. PICK step \in {"undo marker", "redo marker"} : sw # None /\ sw' = [sw EXCEPT !.step = step]
    BY <1>8, Zenon DEF SwFails, Moves
  <2>2. UNCHANGED <<markers, esp>> /\ image' \in {image, esp, None}
    BY <1>8, Zenon DEF SwFails
  <2> QED
    BY <2>1, <2>2 DEF Sws, SwSteps
<1>9. CASE RollbackFails
  <2>1. PICK step \in {"undo daily", "undo recovery", "undo esp marker", "undo image",
                       "redo esp marker", "redo image"} :
          sw # None /\ sw' = [sw EXCEPT !.step = step]
    BY <1>9, Zenon DEF RollbackFails, Moves
  <2>2. UNCHANGED preboot
    BY <1>9, Zenon DEF RollbackFails
  <2> QED
    BY <2>1, <2>2 DEF Sws, SwSteps, preboot
<1> QED
  BY <1>1, <1>2, <1>3, <1>4, <1>5, <1>6, <1>7, <1>8, <1>9, StepKinds DEF Others, Switches

\* ETypeOK is inductive by itself.
LEMMA NextETypeOK == ETypeOK /\ [ENext]_evars => ETypeOK'
<1>1. ETypeOK' <=> OpTyped' /\ DiskTyped' /\ BootTyped'
  BY DEF ETypeOK, OpTyped, DiskTyped, BootTyped, Dumped, Verified, Written
<1> QED
  BY <1>1, ETypeParts, NextOpTyped, NextDiskTyped, NextBootTyped

-----------------------------------------------------------------------------
(***************************************************************************)
(* The mirrored pair                                                       *)
(***************************************************************************)

\* Beginning an arm or a disarm crosses the enrollment under way; without one
\* begun, there is nothing for the others of their steps to do.
LEMMA NextUncrossed ==
  ASSUME OpTyped, DiskTyped, Uncrossed, [ENext]_evars PROVE Uncrossed'
<1> SUFFICES ASSUME op' # None, op'.kind = "recovery", ~op'.crossed
             PROVE  sw' = None /\ markers' \subseteq markers /\ ~Armed
  BY DEF Uncrossed, Armed
<1>1. CASE Strikes \/ Ends
  <2>1. op # None /\ op.kind = "recovery" /\ ~op.crossed
    BY <1>1, OthersAndOp DEF Others, SameOp
  <2> QED
    BY <1>1, <2>1, StrikesChange DEF Uncrossed
<1>2. CASE Switches
  <2>1. op # None /\ op.kind = "recovery" /\ ~op.crossed /\ op \in Ops
    BY <1>2, OthersAndOp DEF Others, SameOp, OpTyped
  <2>2. sw = None
    BY <2>1 DEF Uncrossed
  <2>3. ArmBegin \/ DisarmBegin
    BY <1>2, <2>2, Zenon DEF Switches, ArmReadDaily, ArmReadRecovery, ArmAudit, ArmRefuses,
      SwWrites, SwFails, RollbackFails, SwAt, Moves, MirrorDaily, MirrorRecovery,
      WriteMarker, BuildArmed, WriteEspMarker, WritePam, UndoMarker, UndoDaily,
      UndoRecovery, UndoEspMarker, UndoImage, RemoveMarker, RemoveEspMarker, BuildStock,
      RedoMarker, RedoEspMarker, RedoImage
  <2>4. op' = [op EXCEPT !.crossed = TRUE]
    BY <2>1, <2>3, Zenon DEF ArmBegin, DisarmBegin, SwBegins
  <2>5. op'.crossed
    BY <2>1, <2>4 DEF Ops
  <2> QED
    BY <2>5
<1>3. CASE Looks
  <2>1. ASSUME NEW a \in RecoveryArgs, EnrollRecovery(a) PROVE sw = None /\ ~Armed
    <3>1. op' = NewOp("recovery", "match", a.dev, a.old, a.new, sw # None) /\ ~Armed
      BY <2>1 DEF EnrollRecovery
    <3>2. op'.crossed <=> sw # None
      BY <3>1, Zenon DEF NewOp
    <3> QED
      BY <3>1, <3>2
  <2>2. ASSUME NEW a \in FactorArgs, EnrollFactor(a) \/ SealTpm(a) PROVE FALSE
    BY <2>2 DEF EnrollFactor, SealTpm, NewOp
  <2>3. CASE MatchDaily \/ DumpBefore \/ DumpBeforeFails \/ DumpAfter \/ VerifyNew
    <3>1. op # None /\ op \in Ops
      BY <2>3 DEF MatchDaily, DumpBefore, DumpBeforeFails, DumpAfter, VerifyNew, At, OpTyped
    <3>2. op'.kind = op.kind /\ op'.crossed = op.crossed
      BY <2>3, <3>1 DEF MatchDaily, DumpBefore, DumpBeforeFails, DumpAfter, VerifyNew, Ops
    <3> QED
      BY <1>3, <3>1, <3>2, LooksChange DEF Uncrossed
  <2> QED
    BY <1>3, <2>1, <2>2, <2>3, LooksChange DEF Looks
<1>4. CASE AddKey \/ WriteTarget \/ WriteDaily \/ WriteRecovery \/ WriteKnown
  <2>1. UNCHANGED <<preboot, sw>>
    BY <1>4, Zenon DEF AddKey, WriteTarget, WriteDaily, WriteRecovery, WriteKnown
  <2>2. op # None /\ op \in Ops
    BY <1>4 DEF AddKey, WriteTarget, WriteDaily, WriteRecovery, WriteKnown, At, OpTyped
  <2>3. op'.kind = op.kind /\ op'.crossed = op.crossed
    BY <1>4, <2>2 DEF AddKey, WriteTarget, WriteDaily, WriteRecovery, WriteKnown, Ops
  <2> QED
    BY <2>1, <2>2, <2>3 DEF Uncrossed, preboot
<1> QED
  BY <1>1, <1>2, <1>3, <1>4, StepKinds DEF Others

\* Every write of arm and disarm keeps the pairs the recorded one.
LEMMA SwWritesAgree ==
  ASSUME BootTyped, PairsAgree, SwWrites PROVE PairsAgree'
<1> USE DEF Moves, SwAt, PairsAgree, RecordedPair, Armed, ArmWrites, Undone, DisarmSteps
<1>0. /\ UNCHANGED <<target, daily, recovery>> /\ esp \in Pairs
      /\ sw # None => sw \in Sws
  BY DEF SwWrites, records, BootTyped
<1>1. CASE MirrorDaily
  BY <1>0, <1>1 DEF MirrorDaily, Sws, Pairs
<1>2. CASE MirrorRecovery
  BY <1>0, <1>2 DEF MirrorRecovery, Sws, Pairs
<1>3. CASE WriteMarker
  BY <1>0, <1>3 DEF WriteMarker, Sws
<1>4. CASE BuildArmed
  BY <1>0, <1>4 DEF BuildArmed, Sws
<1>5. CASE WriteEspMarker
  BY <1>0, <1>5 DEF WriteEspMarker, Sws
<1>6. CASE WritePam \/ UndoImage \/ BuildStock
  BY <1>0, <1>6 DEF WritePam, UndoImage, BuildStock, preboot
<1>7. CASE UndoMarker
  BY <1>0, <1>7 DEF UndoMarker, Sws
<1>8. CASE UndoDaily
  BY <1>0, <1>8 DEF UndoDaily, Sws
<1>9. CASE UndoRecovery
  BY <1>0, <1>9 DEF UndoRecovery, Sws
<1>10. CASE UndoEspMarker
  BY <1>0, <1>10 DEF UndoEspMarker, Sws
<1>11. CASE RemoveMarker
  BY <1>0, <1>11 DEF RemoveMarker, Sws
<1>12. CASE RemoveEspMarker
  BY <1>0, <1>12 DEF RemoveEspMarker, Sws
<1>13. CASE RedoMarker
  BY <1>0, <1>13 DEF RedoMarker, Sws
<1>14. CASE RedoEspMarker
  BY <1>0, <1>14 DEF RedoEspMarker, Sws
<1>15. CASE RedoImage
  BY <1>0, <1>15 DEF RedoImage
<1> QED
  BY <1>1, <1>2, <1>3, <1>4, <1>5, <1>6, <1>7, <1>8, <1>9, <1>10, <1>11, <1>12, <1>13,
     <1>14, <1>15 DEF SwWrites

\* So do their other steps, but for a rollback that leaves arm's marker.
LEMMA SwitchesAgree ==
  ASSUME BootTyped, PairsAgree, Switches
  PROVE  PairsAgree' \/ (RollbackFails /\ stale')
<1> USE DEF Moves, SwAt, PairsAgree, RecordedPair, Armed, ArmWrites, Undone, DisarmSteps
<1>0. /\ UNCHANGED <<target, daily, recovery>> /\ esp \in Pairs
      /\ sw # None => sw \in Sws
  BY SwitchesChange DEF BootTyped
<1>1. CASE ArmBegin \/ DisarmBegin
  <2>1. PICK step, dev : /\ step \in {"daily", "off marker"}
                        /\ sw' = NewSw(step, dev) /\ UNCHANGED preboot
    BY <1>1 DEF ArmBegin, DisarmBegin, SwBegins
  <2> QED
    BY <1>0, <2>1 DEF NewSw, preboot
<1>2. CASE ArmReadDaily
  BY <1>0, <1>2 DEF ArmReadDaily, Sws, preboot
<1>3. CASE ArmReadRecovery
  BY <1>0, <1>3 DEF ArmReadRecovery, Sws, preboot
<1>4. CASE ArmAudit
  <2>1. UNCHANGED preboot
    BY <1>4, Zenon DEF ArmAudit
  <2>2. CASE sw' = None
    BY <1>0, <2>1, <2>2 DEF preboot
  <2>3. CASE sw' # None
    <3>1. /\ sw # None /\ sw.step = "audit" /\ markers = {}
          /\ sw' = [sw EXCEPT !.step = "mirror daily", !.esp = esp]
      BY <1>4, <2>3, Zenon DEF ArmAudit, AuditPasses
    <3> QED
      BY <1>0, <2>1, <3>1 DEF Sws, preboot
  <2> QED
    BY <2>2, <2>3
<1>5. CASE ArmRefuses
  BY <1>0, <1>5 DEF ArmRefuses, preboot
<1>6. CASE SwWrites
  BY <1>6, SwWritesAgree
<1>7. CASE SwFails
  <2>1. /\ sw # None /\ UNCHANGED <<markers, esp>>
        /\ \/ sw.step \in ArmWrites \ {"image"} /\ sw' = [sw EXCEPT !.step = "undo marker"]
                /\ image' = image
           \/ sw.step = "image" /\ sw' = [sw EXCEPT !.step = "undo marker"]
                /\ image' \in {image, esp, None}
           \/ sw.step \in DisarmSteps /\ sw' = [sw EXCEPT !.step = "redo marker"]
                /\ image' \in {image, None}
    BY <1>7 DEF SwFails
  <2>2. image' # None => image' = RecordedPair
    BY <2>1
  <2>3. sw'.step = "undo marker" \/ (sw'.step = "redo marker" /\ sw.step \in DisarmSteps)
    BY <1>0, <2>1 DEF Sws
  <2>4. sw'.markers = sw.markers
    BY <1>0, <2>1 DEF Sws
  <2> QED
    BY <1>0, <2>1, <2>2, <2>3, <2>4
<1>8. CASE RollbackFails
  <2>1. sw # None /\ UNCHANGED preboot
    BY <1>8, Zenon DEF RollbackFails
  <2>2. CASE Moves("undo marker", "undo daily")
    <3>1. sw.step = "undo marker"
      BY <2>2
    <3>2. stale'
      BY <1>8, <3>1, Zenon DEF RollbackFails
    <3> QED
      BY <1>8, <3>2
  <2>3. CASE Moves("undo daily", "undo recovery") \/ Moves("undo recovery", "undo esp marker")
             \/ Moves("undo esp marker", "undo image")
             \/ Moves("redo marker", "redo esp marker") \/ Moves("redo esp marker", "redo image")
    <3>1. sw'.markers = sw.markers
      BY <1>0, <2>3 DEF Sws
    <3>2. \/ sw'.step \in Undone /\ sw.step \in Undone
          \/ sw'.step \in DisarmSteps /\ sw.step \in DisarmSteps
               /\ sw'.step \notin Undone
      BY <1>0, <2>3 DEF Sws
    <3> QED
      BY <1>0, <2>1, <3>1, <3>2 DEF preboot
  <2> QED
    BY <1>8, <2>2, <2>3, Zenon DEF RollbackFails
<1> QED
  BY <1>1, <1>2, <1>3, <1>4, <1>5, <1>6, <1>7, <1>8 DEF Switches

\* `stale` ends only when nothing arms the machine or keeps it armed.
LEMMA SwitchesAndStale ==
  ASSUME Switches PROVE stale /\ ~stale' => Off'
<1>1. CASE ArmAudit \/ ArmRefuses \/ SwWrites
  BY <1>1, Zenon DEF ArmAudit, ArmRefuses, SwWrites
<1>2. CASE ArmBegin \/ DisarmBegin \/ ArmReadDaily \/ ArmReadRecovery \/ SwFails
  <2>1. stale' = stale
    BY <1>2 DEF ArmBegin, DisarmBegin, SwBegins, ArmReadDaily, ArmReadRecovery, SwFails,
                history
  <2> QED
    BY <2>1, Zenon
<1>3. CASE RollbackFails
  BY <1>3, Zenon DEF RollbackFails
<1> QED
  BY <1>1, <1>2, <1>3, Zenon DEF Switches

\* A record is written under an arm, a disarm or a leftover of one, or there is
\* none of them.
LEMMA WritersAgree ==
  ASSUME OpTyped, Uncrossed, ~stale', WriteTarget \/ WriteDaily \/ WriteRecovery
  PROVE  PairsAgree'
<1>1. op # None /\ op.kind = "recovery"
  BY WritersAreRecoveries
<1>2. ~op.crossed /\ ~LeftOn
  BY Zenon DEF WriteTarget, WriteDaily, WriteRecovery
<1>3. sw = None /\ ~Armed /\ image = None
  BY <1>1, <1>2 DEF Uncrossed, LeftOn
<1>4. UNCHANGED <<preboot, sw>>
  BY Zenon DEF WriteTarget, WriteDaily, WriteRecovery
<1> QED
  BY <1>3, <1>4 DEF PairsAgree, Armed, preboot

\* A switched-off machine has nothing to disagree.
LEMMA OffAgrees == Off' => PairsAgree'
BY DEF Off, PairsAgree

\* The pairs go on to agree, or `stale` is set.
LEMMA NextMirrored ==
  ASSUME OpTyped, DiskTyped, BootTyped, Uncrossed, Mirrored, [ENext]_evars
  PROVE  Mirrored'
<1>1. CASE Looks
  <2>1. PairsAgree => PairsAgree'
    BY <1>1, LooksChange DEF PairsAgree, RecordedPair, Armed
  <2>2. stale' = stale
    BY <1>1, LooksChange
  <2> QED
    BY <2>1, <2>2, Zenon DEF Mirrored
<1>2. CASE AddKey \/ WriteKnown
  <2>1. UNCHANGED <<preboot, sw>>
    BY <1>2, Zenon DEF AddKey, WriteKnown
  <2>2. daily' = daily /\ recovery' = recovery /\ stale' = stale
    BY <1>2 DEF AddKey, WriteKnown, records, history
  <2>3. PairsAgree => PairsAgree'
    BY <2>1, <2>2 DEF PairsAgree, RecordedPair, Armed, preboot
  <2> QED
    BY <2>2, <2>3, Zenon DEF Mirrored
<1>3. CASE WriteTarget \/ WriteDaily \/ WriteRecovery
  BY <1>3, WritersAgree, Zenon DEF Mirrored
<1>4. CASE Strikes \/ Ends
  <2>1. PairsAgree => PairsAgree'
    BY <1>4, StrikesChange DEF PairsAgree, RecordedPair, Armed
  <2> QED
    BY <1>4, <2>1, StrikesAndHistory, Zenon DEF Mirrored
<1>5. CASE Switches
  <2>1. CASE stale
    BY <1>5, <2>1, SwitchesAndStale, OffAgrees, Zenon DEF Mirrored
  <2>2. CASE ~stale
    BY <1>5, <2>2, SwitchesAgree, Zenon DEF Mirrored
  <2> QED
    BY <2>1, <2>2, Zenon
<1> QED
  BY <1>1, <1>2, <1>3, <1>4, <1>5, StepKinds, Zenon DEF Others

\* `stale` begins with an enrollment's write or with `mixed`.
LEMMA NextFaithful ==
  ASSUME OpTyped, Halfway, Faithful, [ENext]_evars PROVE Faithful'
<1>1. CASE Looks
  <2>1. role' = role /\ mixed' = mixed /\ stale' = stale
    BY <1>1, LooksChange
  <2> QED
    BY <2>1, Zenon DEF Faithful
<1>2. CASE AddKey
  <2>1. role' = role /\ mixed' = mixed /\ stale' = stale
    BY <1>2 DEF AddKey, history
  <2> QED
    BY <2>1, Zenon DEF Faithful
<1>3. CASE WriteTarget \/ WriteDaily \/ WriteRecovery
  <2>1. mixed'
    BY <1>3, WritersSetMixed
  <2> QED
    BY <2>1, Zenon DEF Faithful
<1>4. CASE WriteKnown
  <2>1. stale' = stale
    BY <1>4 DEF WriteKnown
  <2>2. CASE op.kind = "recovery"
    <3>1. stale => mixed'
      BY <1>4, <2>2, Zenon DEF WriteKnown
    <3> QED
      BY <2>1, <3>1, Zenon DEF Faithful
  <2>3. CASE op.kind # "recovery"
    <3>1. role' = role /\ mixed' = mixed
      BY <1>4, <2>3 DEF WriteKnown
    <3> QED
      BY <2>1, <3>1, Zenon DEF Faithful
  <2> QED
    BY <2>2, <2>3, Zenon
<1>5. CASE Strikes \/ Ends
  <2>1. role' = role
    BY <1>5, StrikesChange
  <2> QED
    BY <1>5, <2>1, StrikesAndHistory, Zenon DEF Faithful
<1>6. CASE Switches
  <2>1. role' = role
    BY <1>6, SwitchesChange
  <2>2. stale' => stale \/ mixed'
    <3>1. CASE ArmAudit \/ ArmRefuses \/ SwWrites
      BY <3>1, Zenon DEF ArmAudit, ArmRefuses, SwWrites
    <3>2. CASE ArmBegin \/ DisarmBegin \/ ArmReadDaily \/ ArmReadRecovery \/ SwFails
      <4>1. stale' = stale
        BY <3>2 DEF ArmBegin, DisarmBegin, SwBegins, ArmReadDaily, ArmReadRecovery,
                    SwFails, history
      <4> QED
        BY <4>1, Zenon
    <3>3. CASE RollbackFails
      <4>1. mixed' = TRUE \/ stale' = stale
        BY <3>3 DEF RollbackFails
      <4> QED
        BY <4>1, Zenon
    <3> QED
      BY <1>6, <3>1, <3>2, <3>3, Zenon DEF Switches
  <2>3. mixed => mixed'
    BY <1>6, SwitchesAndMixed
  <2> QED
    BY <2>1, <2>2, <2>3, Zenon DEF Faithful
<1> QED
  BY <1>1, <1>2, <1>3, <1>4, <1>5, <1>6, StepKinds, Zenon DEF Others

-----------------------------------------------------------------------------
(***************************************************************************)
(* The recovery credential                                                 *)
(***************************************************************************)

RoleTyped == role # None => role \in Roles

\* What a completed enrollment leaves names a device, two slots and a key.
LEMMA NextRoleTyped ==
  ASSUME OpTyped, DiskTyped, Halfway, RoleTyped, [ENext]_evars
  PROVE  RoleTyped'
<1>1. CASE Others \/ Looks
  BY <1>1, OthersAndRecords, LooksChange DEF RoleTyped
<1>2. CASE AddKey \/ WriteTarget \/ WriteDaily \/ WriteRecovery
  BY <1>2 DEF AddKey, WriteTarget, WriteDaily, WriteRecovery, history, RoleTyped
<1>3. CASE WriteKnown
  <2>1. CASE op.kind # "recovery"
    BY <1>3, <2>1 DEF WriteKnown, RoleTyped
  <2>2. CASE op.kind = "recovery"
    <3>1. role' = [dev |-> op.dev, daily |-> op.daily, slots |-> op.added,
                   key |-> op.new, alone |-> ~op.crossed]
      BY <1>3, <2>2, Zenon DEF WriteKnown
    <3>2. op \in Ops /\ op.daily \in SlotNumbers
      BY <1>3, <2>2 DEF WriteKnown, At, OpTyped, Ops, Slots
    <3>3. (~op.crossed) \in BOOLEAN
      OBVIOUS
    <3> QED
      BY <3>1, <3>2, <3>3 DEF Ops, Roles, RoleTyped
  <2> QED
    BY <2>1, <2>2
<1> QED
  BY <1>1, <1>2, <1>3, StepKinds

\* A step of anyone else leaves the recovery slot of a completed enrollment as
\* it is, or sets `mixed`.
LEMMA OthersSpareRecovery ==
  ASSUME DiskTyped, RoleTyped, Mirrored, Faithful, RecoveryOpens, Others,
         role # None, ~mixed'
  PROVE  keys'[target][recovery] = keys[target][recovery]
<1>1. ~mixed
  BY OthersAndRecords, Zenon
<1>2. /\ target = role.dev /\ role.slots = {recovery} /\ daily # recovery
      /\ keys[target][recovery] = role.key
  BY <1>1 DEF RecoveryOpens, Recorded
<1>3. target \in Devices /\ recovery \in SlotNumbers /\ role.key # None
  BY <1>2, EnrollAssumption DEF RoleTyped, Roles
<1>4. ASSUME NEW d \in Devices, keys' = keys \/ SetKey(d, daily, None)
      PROVE  keys'[target][recovery] = keys[target][recovery]
  BY <1>2, <1>3, <1>4 DEF SetKey, DiskTyped
<1>5. PairsAgree
  BY <1>1, Zenon DEF Faithful, Mirrored
<1>6. Live => esp = RecordedPair
  BY <1>5 DEF Live, PairsAgree
<1>7. CASE Switches
  BY <1>7, SwitchesChange
<1>8. CASE BootedTrigger /\ (Stays \/ Down)
  <2>1. keys' = keys \/ SetKey(target, RecordedPair.daily, None)
    BY <1>8, EraseSteps DEF BootedTrigger
  <2> QED
    BY <1>3, <1>4, <2>1 DEF RecordedPair
<1>9. CASE PreBootTrigger
  <2>1. keys' = keys \/ SetKey(Root, esp.daily, None)
    BY <1>9, EraseSteps DEF PreBootTrigger
  <2> QED
    BY <1>4, <1>6, <1>9, <2>1, EnrollAssumption DEF RecordedPair, PreBootTrigger
<1>10. CASE BootResume
  BY <1>4, <1>6, <1>10, EnrollAssumption DEF RecordedPair, BootResume, ResumeMatches
<1>11. ASSUME NEW d \in Devices, NEW s \in SlotNumbers, AddByHand(d, s)
       PROVE  keys'[target][recovery] = keys[target][recovery]
  <2>1. keys[d][s] = None /\ SetKey(d, s, Stranger)
    BY <1>11 DEF AddByHand, FreeSlots, ActiveSlots
  <2> QED
    BY <1>2, <1>3, <2>1 DEF SetKey, DiskTyped
<1>12. ASSUME NEW d \in Devices, NEW s \in SlotNumbers, KillByHand(d, s)
       PROVE  keys'[target][recovery] = keys[target][recovery]
  <2>1. ~(role.dev = d /\ s \in role.slots)
    BY <1>12, Zenon DEF KillByHand
  <2>2. SetKey(d, s, None)
    BY <1>12, Zenon DEF KillByHand
  <2> QED
    BY <1>2, <1>3, <2>1, <2>2 DEF SetKey, DiskTyped
<1>13. CASE Ends
  <2>1. keys' = keys
    BY <1>13 DEF Ends, Break, Cut, evars
  <2> QED
    BY <2>1
<1> QED
  BY <1>7, <1>8, <1>9, <1>10, <1>11, <1>12, <1>13 DEF Others, Strikes

\* The recovery credential goes on to open the device, or `mixed` is set.
LEMMA NextRecoveryOpens ==
  ASSUME OpTyped, DiskTyped, RoleTyped, Halfway, Sound, Mirrored, Faithful, RecoveryOpens,
         [ENext]_evars
  PROVE  RecoveryOpens'
<1> USE DEF Recorded
<1>1. CASE Others
  <2>1. UNCHANGED <<target, daily, recovery, role>> /\ (mixed => mixed')
    BY <1>1, OthersAndRecords
  <2>2. role # None /\ ~mixed' => keys'[target][recovery] = keys[target][recovery]
    BY <1>1, OthersSpareRecovery
  <2> QED
    BY <2>1, <2>2 DEF RecoveryOpens
<1>2. CASE Looks
  BY <1>2, LooksChange DEF RecoveryOpens
<1>3. CASE AddKey
  <2>1. UNCHANGED <<target, daily, recovery, role, mixed>>
    BY <1>3 DEF AddKey, records, history
  <2>2. role # None /\ ~mixed => /\ target \in Devices /\ recovery \in SlotNumbers
                                 /\ keys[target][recovery] # None
    BY EnrollAssumption DEF RecoveryOpens, RoleTyped, Roles
  <2> QED
    BY <1>3, <2>1, <2>2, AddKeyFills DEF RecoveryOpens
<1>4. CASE WriteTarget \/ WriteDaily \/ WriteRecovery
  <2>1. mixed'
    BY <1>4, WritersSetMixed
  <2> QED
    BY <2>1 DEF RecoveryOpens
<1>5. CASE WriteKnown
  <2>1. CASE op.kind # "recovery"
    BY <1>5, <2>1 DEF WriteKnown, RecoveryOpens
  <2>2. CASE op.kind = "recovery"
    <3>1. /\ role'.dev = op.dev /\ role'.daily = op.daily /\ role'.slots = op.added
          /\ role'.key = op.new /\ UNCHANGED <<keys, target, daily, recovery>>
      BY <1>5, <2>2 DEF WriteKnown
    <3>2. ~mixed' => ~op.lost
      BY <1>5, <2>2, Zenon DEF WriteKnown
    <3>3. op # None /\ op.step = "known"
      BY <1>5 DEF WriteKnown, At
    <3>4. target = op.dev /\ daily = op.daily /\ op.added = {recovery}
      BY <2>2, <3>3 DEF Halfway, Written
    <3>5. ~op.lost => op.daily \notin op.added /\ \A s \in op.added : keys[op.dev][s] = op.new
      BY <2>2, <3>3 DEF Sound, Dumped, Verified, Written
    <3> QED
      BY <3>1, <3>2, <3>4, <3>5 DEF RecoveryOpens
  <2> QED
    BY <2>1, <2>2
<1> QED
  BY <1>1, <1>2, <1>3, <1>4, <1>5, StepKinds

-----------------------------------------------------------------------------
(***************************************************************************)
(* The theorems                                                            *)
(***************************************************************************)

\* For any devices, slots, command lines and interleaving the records, the
\* markers, the image and the commands are well-typed, and a recovery enrollment
\* past its checks holds one daily and exactly one added slot.
THEOREM EnrollmentTypeCorrect == ESpec => []ETypeOK
<1>1. EInit => ETypeOK
  BY InitEInv DEF EInv
<1> QED
  BY <1>1, NextETypeOK, PTL DEF ESpec

\* The inductive invariant behind the two theorems below: what an
\* enroll-recovery has written and tested so far agrees with the files and the
\* header, and what arm and disarm hold, mirror and bake with the records,
\* whatever the other commands, failures, cuts, triggers and cryptsetup do
\* between their calls.
THEOREM EnrollmentInvariant == ESpec => []EInv
<1>1. ASSUME EInv, [ENext]_evars PROVE EInv'
  <2>1. OpTyped /\ DiskTyped /\ BootTyped /\ RoleTyped
    BY <1>1, ETypeParts DEF EInv, RoleTyped
  <2>2. ETypeOK'
    BY <1>1, NextETypeOK DEF EInv
  <2>3. RoleTyped' /\ Halfway' /\ Sound' /\ RecoveryOpens'
    BY <1>1, <2>1, NextRoleTyped, NextHalfway, NextRecoveryOpens DEF EInv
  <2>4. Uncrossed' /\ Mirrored' /\ Faithful'
    BY <1>1, <2>1, NextUncrossed, NextMirrored, NextFaithful DEF EInv
  <2> QED
    BY <2>2, <2>3, <2>4 DEF EInv, RoleTyped
<1> QED
  BY <1>1, InitEInv, PTL DEF ESpec

\* Whatever happens after a completed enroll-recovery, short of the exceptions
\* RecoveryOpens names, its credential opens the recorded device.
THEOREM RecoveryAlwaysOpens == ESpec => []RecoveryOpens
<1>1. EInv => RecoveryOpens
  BY DEF EInv
<1> QED
  BY <1>1, EnrollmentInvariant, PTL

\* Unless records were written under an arm or disarm or after a torn one,
\* ds-unlock goes ahead only with the pair that the booted triggers are after,
\* at every step, cut and rollback of arm and disarm.
THEOREM MirrorAlwaysAgrees == ESpec => []MirrorAgrees
<1>1. Mirrored => MirrorAgrees
  <2>1. PairsAgree /\ Live => esp = RecordedPair
    BY DEF PairsAgree, Live
  <2> QED
    BY <2>1, Zenon DEF Mirrored, MirrorAgrees
<1>2. EInv => MirrorAgrees
  BY <1>1 DEF EInv
<1> QED
  BY <1>2, EnrollmentInvariant, PTL
=============================================================================
