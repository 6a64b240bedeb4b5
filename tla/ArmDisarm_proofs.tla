------------------------- MODULE ArmDisarm_proofs -------------------------
(***************************************************************************)
(* dsctl arm and disarm for any site, any number of enrolled versions, of  *)
(* failing calls and of power cuts.  AInv follows the lists: what lies     *)
(* behind a list that has met no failure, and behind a rollback, is known  *)
(* file by file; the reports and the boot follow from it.                  *)
(***************************************************************************)
EXTENDS ArmDisarm, Edits_proofs, TLAPS

-----------------------------------------------------------------------------
(***************************************************************************)
(* The inductive invariant                                                 *)
(***************************************************************************)

\* The steps of the list that have been carried out.
Behind == {Plan(cmd)[i] : i \in 1..(at - 1)}

\* What arm or disarm leaves in a file.
Made(c, f) ==
  IF c = "arm"
  THEN CASE f \in Baked   -> take
         [] f \in Markers -> "present"
         [] f = "counter" -> 0
         [] f = "conf"    -> Inserted(site.conf)
         [] f = "pam"     -> "armed"
         [] f = "bak"     -> "stock"
  ELSE CASE f = "pam"     -> "stock"
         [] f \in Markers -> Absent
         [] f = "conf"    -> site.conf
         [] OTHER         -> snap[f]

\* The image is the one of the files on the disk.
Current == BuildSucceeds /\ image = Built

\* An armed machine's disk, with a hook that build() finds, and a stock one's.
ArmedDisk(d) == ArmedFiles(d) /\ TokenStandsAlone(d["conf"])

StockDisk(d) ==
  d["pam"] = "stock" /\ d["conf"] = site.conf /\ \A m \in Markers : d[m] = Absent

\* No rollback has been broken off or left incomplete.
Unrolled == Back \cap torn = {}

\* HOOKS has at most the edit of arm.
HooksOf(d) ==
  d["conf"] = site.conf \/ (CanInsert(site.conf) /\ d["conf"] = Inserted(site.conf))

HooksKnown == HooksOf(disk) /\ HooksOf(snap)

\* A set-duress that no command has crossed is at its prompt on a machine
\* without the marker.
Prompting ==
  /\ cmd # "none" <=> res = "running"
  /\ sd # "none" => local < MaxVersion
  /\ sd = "alone" => cmd = "none" /\ ~Present("ARMED")

\* What a command has found.
Begun ==
  /\ cmd \in {"arm", "armBack"} => snap["pam"] = "stock" /\ \A m \in Markers : snap[m] = Absent
  /\ cmd \in {"disarm", "disarmBack"} /\ snap["pam"] = "armed" => snap["bak"] = "stock"

\* A list that has met no failure has left in the files behind it what it makes
\* of them, and the others as it found them.
HalfWay ==
  cmd \in Forward =>
    /\ \A f \in Files : disk[f] = IF f \in Behind THEN Made(cmd, f) ELSE snap[f]
    /\ cmd = "arm" /\ "conf" \in Behind => CanInsert(site.conf)
    /\ "mkinitcpio" \in Behind => Current

\* A rollback without a failure restores what it has behind it.
RolledBack ==
  /\ cmd \in Back /\ ~errs => \A f \in Behind \ {"mkinitcpio"} : disk[f] = snap[f]
  /\ cmd = "armBack" => disk["bak"] = "stock"
  /\ cmd = "disarmBack" => \A f \in Files : disk[f] = snap[f] \/ disk[f] = Made("disarm", f)

\* The reports of success and of a rollback hold until the next command or boot.
Reported ==
  /\ res \in {"armed", "armRolledBack", "disarmed", "restored"} => Current
  /\ res = "armed" => ArmedDisk(disk) /\ disk["counter"] = 0
  /\ res = "armRolledBack" =>
       StockDisk(disk) /\ \A f \in Files \ {"bak"} : disk[f] = snap[f]
  /\ res = "disarmed" => StockDisk(disk)
  /\ res = "restored" => \A f \in Files : disk[f] = snap[f]

\* Where PAM is live, so is everything else.
LiveIsArmed ==
  Unrolled =>
    /\ cmd \notin Back /\ disk["pam"] = "armed" => ArmedDisk(disk) /\ Current
    /\ cmd \in {"disarm", "disarmBack"} /\ snap["pam"] = "armed" => ArmedDisk(snap)

\* A machine on which nothing has been torn is armed or stock between commands.
Whole ==
  torn = {} =>
    /\ cmd = "none" \/ (cmd \in Forward /\ at = 1)
         => Current /\ (ArmedDisk(disk) \/ StockDisk(disk))
    /\ cmd # "none" => ArmedDisk(snap) \/ StockDisk(snap)

\* Where the marker is, the ESP has the enrolled version.
Mirrored ==
  Unrolled /\ ~stale =>
    /\ cmd \notin Back /\ Present("ARMED") => \A f \in Baked : disk[f] = local
    /\ cmd \in {"disarm", "disarmBack"} /\ snap["ARMED"] # Absent
         => \A f \in Baked : snap[f] = local
    /\ cmd = "arm" => take = local

\* Without failures and cuts no rollback runs but that of an arm whose edit of
\* HOOKS is refused or breaks a hook.
Faultless ==
  faults = 0 /\ cuts = 0 =>
    /\ torn = {} /\ cmd # "disarmBack"
    /\ res \notin {"failed", "restored", "stuck", "incomplete"}
    /\ cmd # "none" => ~errs
    /\ cmd = "armBack" \/ res = "armRolledBack"
         => (CanInsert(site.conf) => ~TokenStandsAlone(Inserted(site.conf)))

AInv ==
  /\ ATypeOK /\ HooksKnown /\ Prompting /\ Begun /\ HalfWay /\ RolledBack /\ Reported
  /\ BackupBehindArmedPam /\ LiveIsArmed /\ Whole /\ Mirrored /\ Faultless

-----------------------------------------------------------------------------
(***************************************************************************)
(* The edit of HOOKS                                                       *)
(***************************************************************************)

\* What arm puts into the HOOKS of a site disarm takes out again.
LEMMA SiteHooks ==
  ASSUME site \in Sites
  PROVE  /\ ~Found(site.conf, "deathstroke") /\ Removed(site.conf).line = site.conf
         /\ TokenStandsAlone(site.conf)
         /\ CanInsert(site.conf) =>
              /\ Found(Inserted(site.conf), "deathstroke")
              /\ Inserted(Inserted(site.conf)) = Inserted(site.conf)
              /\ TokenStandsAlone(Inserted(site.conf))
                   => Removed(Inserted(site.conf)).line = site.conf
<1>1. site.conf \in Seq(STRING) /\ ~Found(site.conf, "deathstroke")
  BY SitesAssumption
<1>2. site.conf \in Seq(Fragments)
  BY <1>1, StringsAreFragments, Zenon
<1>3. Removed(site.conf).line = site.conf /\ TokenStandsAlone(site.conf)
  BY <1>1 DEF Removed, Without, TokenStandsAlone
<1>4. CanInsert(site.conf) =>
        /\ Found(Inserted(site.conf), "deathstroke")
        /\ Inserted(Inserted(site.conf)) = Inserted(site.conf)
  BY <1>1, <1>2, InsertedFound, Zenon
<1>5. ASSUME CanInsert(site.conf), TokenStandsAlone(Inserted(site.conf))
      PROVE  Removed(Inserted(site.conf)).line = site.conf
  <2>1. Removed(Inserted(site.conf)) = [res |-> "ok", line |-> site.conf]
    BY <1>1, <1>2, <1>5, RemovedInserted
  <2> QED
    BY <2>1
<1> QED
  BY <1>1, <1>3, <1>4, <1>5

\* The result of the edit is an error exactly where the token is part of a word.
LEMMA RemovalBails == ASSUME NEW l PROVE Removed(l).res = "bail" <=> ~TokenStandsAlone(l)
BY DEF Removed

-----------------------------------------------------------------------------
(***************************************************************************)
(* The order of the lists                                                  *)
(***************************************************************************)

LEMMA Plans ==
  /\ Plan("arm") = ArmPlan /\ Plan("armBack") = ArmBackPlan
  /\ Plan("disarm") = DisarmPlan /\ Plan("disarmBack") = DisarmBackPlan
BY DEF Plan

LEMMA Lengths ==
  /\ Len(Plan("arm")) = 11 /\ Len(Plan("armBack")) = 10
  /\ Len(Plan("disarm")) = 6 /\ Len(Plan("disarmBack")) = 5
BY Plans DEF ArmPlan, ArmBackPlan, DisarmPlan, DisarmBackPlan

\* arm rebuilds once all that the hook asks for is there, and PAM comes last.
LEMMA ArmOrder ==
  ASSUME cmd = "arm", at \in 1..11
  PROVE  /\ Step \in Files \cup {"mkinitcpio"} /\ Step \notin Behind
         /\ at = 1 => Behind = {}
         /\ Step = "bak" <=> at = 1
         /\ Step = "pam" <=> at = 11
         /\ "pam" \notin Behind /\ (at > 1 => "bak" \in Behind)
         /\ Step = "ARMED" \/ "ARMED" \in Behind => Baked \subseteq Behind
         /\ Step = "mkinitcpio" \/ "mkinitcpio" \in Behind
              => Baked \cup {"counter", "ARMED", "conf", "bak"} \subseteq Behind
         /\ "mkinitcpio" \in Behind => Step \in {"armed", "pam"}
         /\ at = 11 => (Files \cup {"mkinitcpio"}) \ {"pam"} \subseteq Behind
<1>1. Behind = {ArmPlan[i] : i \in 1..(at - 1)} /\ Step = ArmPlan[at]
  BY Plans DEF Behind, Step
<1>2. CASE at = 11
  BY <1>1, <1>2 DEF ArmPlan, Files, Baked, Markers
<1>3. CASE at < 11
  BY <1>1, <1>3 DEF ArmPlan, Files, Baked, Markers
<1> QED
  BY <1>2, <1>3

\* Its rollback takes back all but the backup and rebuilds last.
LEMMA ArmBackOrder ==
  ASSUME cmd = "armBack", at \in 1..10
  PROVE  /\ Step \in (Files \cup {"mkinitcpio"}) \ {"bak"}
         /\ at = 1 => Behind = {}
         /\ Step = "mkinitcpio" <=> at = 10
         /\ at = 10 => Behind = Files \ {"bak"}
<1>1. Behind = {ArmBackPlan[i] : i \in 1..(at - 1)} /\ Step = ArmBackPlan[at]
  BY Plans DEF Behind, Step
<1>2. CASE at = 10
  BY <1>1, <1>2 DEF ArmBackPlan, Files, Baked, Markers
<1>3. CASE at < 10
  BY <1>1, <1>3 DEF ArmBackPlan, Files, Baked, Markers
<1> QED
  BY <1>2, <1>3

\* disarm takes PAM out first and the backup away last.
LEMMA DisarmOrder ==
  ASSUME cmd = "disarm", at \in 1..6
  PROVE  /\ Step \in Markers \cup {"pam", "conf", "mkinitcpio", "bak"} /\ Step \notin Behind
         /\ at = 1 => Behind = {}
         /\ Step = "pam" <=> at = 1
         /\ Step = "bak" <=> at = 6
         /\ at > 1 => "pam" \in Behind
         /\ Behind \subseteq Markers \cup {"pam", "conf", "mkinitcpio"}
         /\ "mkinitcpio" \in Behind => Step = "bak"
         /\ Step \in {"mkinitcpio", "bak"} => Markers \cup {"pam", "conf"} \subseteq Behind
         /\ Step = "bak" => "mkinitcpio" \in Behind
<1>1. Behind = {DisarmPlan[i] : i \in 1..(at - 1)} /\ Step = DisarmPlan[at]
  BY Plans DEF Behind, Step
<1> QED
  BY <1>1 DEF DisarmPlan, Markers

LEMMA DisarmBackOrder ==
  ASSUME cmd = "disarmBack", at \in 1..5
  PROVE  /\ Step \in Markers \cup {"pam", "conf", "mkinitcpio"}
         /\ at = 1 => Behind = {}
         /\ Step = "mkinitcpio" <=> at = 5
         /\ at = 5 => Behind = Markers \cup {"pam", "conf"}
<1>1. Behind = {DisarmBackPlan[i] : i \in 1..(at - 1)} /\ Step = DisarmBackPlan[at]
  BY Plans DEF Behind, Step
<1> QED
  BY <1>1 DEF DisarmBackPlan, Markers

LEMMA BehindGrows ==
  ASSUME at \in Nat \ {0}, cmd' = cmd, at' = at + 1
  PROVE  Behind' = Behind \cup {Step}
BY DEF Behind, Step

LEMMA BehindStart ==
  ASSUME at' = 1 PROVE Behind' = {}
BY DEF Behind

-----------------------------------------------------------------------------
(***************************************************************************)
(* The image and the boot                                                  *)
(***************************************************************************)

LEMMA ContentsOf ==
  /\ \A f \in Baked : Contents(f) = Versions \cup {Absent}
  /\ \A f \in Markers : Contents(f) = {"present", Absent}
  /\ Contents("counter") = {0, 1, Absent}
  /\ Contents("pam") = {"stock", "armed"} /\ Contents("bak") = {"stock", Absent}
<1>1. \A f \in Baked : Contents(f) = Versions \cup {Absent}
  BY DEF Contents, Baked, Markers
<1>2. \A f \in Markers : Contents(f) = {"present", Absent}
  BY DEF Contents, Baked, Markers
<1>3. Contents("counter") = {0, 1, Absent}
  BY DEF Contents, Baked, Markers
<1>4. Contents("pam") = {"stock", "armed"} /\ Contents("bak") = {"stock", Absent}
  BY DEF Contents, Baked, Markers
<1> QED
  BY <1>1, <1>2, <1>3, <1>4

\* An image stays current while the files it is built from stay.
LEMMA CurrentStays ==
  ASSUME Current, image' = image,
         \A f \in Baked \cup {"ARMED", "conf"} : disk'[f] = disk[f]
  PROVE  Current'
<1>1. Hooked' = Hooked /\ BuildSucceeds'
  BY DEF Current, Hooked, BuildSucceeds
<1>2. [f \in Baked |-> disk'[f]] = [f \in Baked |-> disk[f]]
  OBVIOUS
<1> QED
  BY <1>1, <1>2 DEF Current, Built

LEMMA CurrentBuilt ==
  ASSUME BuildSucceeds, image' = Built, UNCHANGED disk
  PROVE  Current'
<1>1. Hooked' = Hooked /\ BuildSucceeds'
  BY DEF Hooked, BuildSucceeds
<1> QED
  BY <1>1 DEF Current, Built

LEMMA BuiltType ==
  ASSUME ATypeOK, BuildSucceeds
  PROVE  Built \in {NoHook} \cup [Baked -> Versions]
<1>1. \A f \in Baked : f \in Files \ {"conf"} /\ disk[f] \in Versions \cup {Absent}
  BY ContentsOf DEF ATypeOK, Files, Baked
<1> QED
  BY <1>1 DEF Built, BuildSucceeds

LEMMA ArmedBoots ==
  ASSUME ATypeOK, Current, ArmedDisk(disk)
  PROVE  Boots = "armed"
<1>1. Hooked
  BY SiteHooks DEF ATypeOK, ArmedDisk, ArmedFiles, Hooked
<1>2. image = [f \in Baked |-> disk[f]]
  BY <1>1 DEF Current, Built
<1>3. image \in [Baked -> Versions \cup {Absent}]
  <2>1. \A f \in Baked : f \in Files \ {"conf"} /\ disk[f] \in Versions \cup {Absent}
    BY ContentsOf DEF ATypeOK, Files, Baked
  <2> QED
    BY <1>2, <2>1
<1>4. image # NoHook /\ image # Unbootable
  BY <1>3, ArmAssumption
<1> QED
  BY <1>2, <1>4 DEF Boots, ArmedDisk, ArmedFiles, Markers

LEMMA StockBoots ==
  ASSUME ATypeOK, Current, StockDisk(disk)
  PROVE  Boots = "stock"
BY SiteHooks DEF ATypeOK, StockDisk, Hooked, Current, Built, Boots

-----------------------------------------------------------------------------
(***************************************************************************)
(* The initial states, and the steps around the lists                      *)
(***************************************************************************)

LEMMA InitAInv == Init => AInv
<1> SUFFICES ASSUME Init PROVE AInv
  OBVIOUS
<1> USE DEF Init
<1>1. \A f \in Files : disk[f] = IF f = "pam" THEN "stock" ELSE IF f = "conf" THEN site.conf ELSE Absent
  BY DEF Stock
<1>2. snap = disk /\ DOMAIN disk = Files
  BY DEF Stock
<1>3. {"pam", "bak", "conf", "ARMED", "armed"} \subseteq Files /\ Baked \subseteq Files
  BY DEF Files, Baked, Markers
<1>4. ATypeOK
  <2>1. \A f \in Files \ {"conf"} : disk[f] \in Contents(f)
    BY <1>1 DEF Files, Baked, Markers, Contents
  <2>2. stale \in BOOLEAN /\ errs \in BOOLEAN
    BY Zenon
  <2> QED
    BY <1>2, <2>1, <2>2, ArmAssumption DEF ATypeOK, Results, Versions
<1>5. StockDisk(disk)
  BY <1>1, <1>3 DEF StockDisk, Markers
<1>6. Current
  <2>1. ~Hooked
    BY <1>4, <1>5, SiteHooks DEF Hooked, StockDisk, ATypeOK
  <2> QED
    BY <2>1 DEF Current, BuildSucceeds, Built
<1>7. HooksKnown /\ BackupBehindArmedPam
  BY <1>2, <1>5 DEF HooksKnown, HooksOf, StockDisk, BackupBehindArmedPam
<1>8. Prompting /\ Begun /\ HalfWay /\ RolledBack /\ Reported
  BY DEF Prompting, Begun, HalfWay, RolledBack, Reported, Forward, Back
<1>9. LiveIsArmed /\ Mirrored
  BY <1>5 DEF LiveIsArmed, Mirrored, StockDisk, Present, Markers
<1>10. Whole /\ Faultless
  BY <1>5, <1>6 DEF Whole, Faultless
<1> QED
  BY <1>4, <1>7, <1>8, <1>9, <1>10 DEF AInv

\* A report changes nothing else.
LEMMA ReportStep ==
  ASSUME AInv, cmd = "none", NEW r \in {"already", "refused"}, Report(r)
  PROVE  AInv'
<1>1. UNCHANGED <<disk, image, site, local, take, sd, stale, cmd, at, snap, errs, torn, cuts, faults>>
      /\ res' = r
  BY DEF Report, enrol
<1>2. ATypeOK' /\ HooksKnown' /\ Begun' /\ HalfWay' /\ RolledBack' /\ BackupBehindArmedPam'
      /\ LiveIsArmed' /\ Whole' /\ Mirrored'
  <2>1. ATypeOK'
    BY <1>1 DEF AInv, ATypeOK, Results
  <2>2. HooksKnown' /\ Begun' /\ BackupBehindArmedPam'
    BY <1>1 DEF AInv, HooksKnown, HooksOf, Begun, BackupBehindArmedPam, Present
  <2>3. HalfWay' /\ RolledBack'
    BY <1>1 DEF HalfWay, RolledBack, Forward, Back
  <2>4. Current' = Current /\ ArmedDisk(disk)' = ArmedDisk(disk) /\ StockDisk(disk)' = StockDisk(disk)
    BY <1>1 DEF Current, BuildSucceeds, Hooked, Built, ArmedDisk, ArmedFiles, StockDisk
  <2>5. LiveIsArmed' /\ Whole'
    BY <1>1, <2>4 DEF AInv, LiveIsArmed, Whole, Unrolled, Forward, Back
  <2>6. Mirrored'
    BY <1>1 DEF AInv, Mirrored, Unrolled, Back, Present
  <2> QED
    BY <2>1, <2>2, <2>3, <2>5, <2>6
<1>3. Prompting' /\ Reported' /\ Faultless'
  BY <1>1 DEF AInv, Prompting, Present, Reported, Faultless
<1> QED
  BY <1>2, <1>3 DEF AInv

LEMMA ArmStep == ASSUME AInv, Arm PROVE AInv'
<1>1. CASE Report("already") \/ Report("refused")
  BY <1>1, ReportStep DEF Arm
<1>2. CASE /\ disk["pam"] = "stock" /\ \A m \in Markers : ~Present(m)
           /\ Begin("arm") /\ take' = local /\ stale' = FALSE /\ sd' = Crossed
  <2>1. cmd' = "arm" /\ at' = 1 /\ snap' = disk /\ errs' = FALSE /\ res' = "running"
        /\ UNCHANGED <<disk, image, site, local, torn, cuts, faults>>
    BY <1>2 DEF Begin
  <2>2. Behind' = {}
    BY <2>1, BehindStart
  <2>3. cmd = "none"
    BY DEF Arm
  <2>4. ATypeOK'
    <3>1. at' \in 1..Len(Plan(cmd'))
      BY <2>1, Lengths
    <3>2. stale' \in BOOLEAN /\ errs' \in BOOLEAN
      BY <1>2, <2>1, Zenon
    <3>3. sd' \in {"none", "alone", "crossed"} /\ cmd' \in Forward
      BY <1>2, <2>1 DEF Crossed, Forward
    <3> QED
      BY <1>2, <2>1, <3>1, <3>2, <3>3 DEF AInv, ATypeOK, Results
  <2>5. HooksKnown' /\ BackupBehindArmedPam'
    BY <2>1 DEF AInv, HooksKnown, HooksOf, BackupBehindArmedPam, Present
  <2>6. Prompting' /\ Begun'
    BY <1>2, <2>1 DEF AInv, Prompting, Begun, Crossed, Present
  <2>7. HalfWay' /\ RolledBack'
    BY <2>1, <2>2 DEF HalfWay, RolledBack, Back
  <2>8. Current' = Current /\ ArmedDisk(disk)' = ArmedDisk(disk) /\ StockDisk(disk)' = StockDisk(disk)
        /\ ArmedDisk(snap)' = ArmedDisk(disk) /\ StockDisk(snap)' = StockDisk(disk)
    BY <2>1 DEF Current, BuildSucceeds, Hooked, Built, ArmedDisk, ArmedFiles, StockDisk
  <2>9. LiveIsArmed' /\ Whole'
    BY <1>2, <2>1, <2>3, <2>8 DEF AInv, LiveIsArmed, Whole, Unrolled, Forward, Back
  <2>10. Mirrored' /\ Reported' /\ Faultless'
    BY <1>2, <2>1, <2>3 DEF AInv, Mirrored, Unrolled, Back, Present, Reported, Faultless, Markers
  <2> QED
    BY <2>4, <2>5, <2>6, <2>7, <2>9, <2>10 DEF AInv
<1> QED
  BY <1>1, <1>2 DEF Arm

LEMMA DisarmStep == ASSUME AInv, Disarm PROVE AInv'
<1>1. disk["pam"] = "armed" => Present("bak")
  BY DEF AInv, BackupBehindArmedPam
<1>2. Begin("disarm") /\ sd' = Crossed /\ UNCHANGED <<take, stale>> /\ cmd = "none"
  BY <1>1 DEF Disarm
<1>3. cmd' = "disarm" /\ at' = 1 /\ snap' = disk /\ errs' = FALSE /\ res' = "running"
      /\ UNCHANGED <<disk, image, site, local, torn, cuts, faults>>
  BY <1>2 DEF Begin
<1>4. Behind' = {}
  BY <1>3, BehindStart
<1>5. ATypeOK'
  <2>1. at' \in 1..Len(Plan(cmd'))
    BY <1>3, Lengths
  <2>2. errs' \in BOOLEAN
    BY <1>3, Zenon
  <2>3. sd' \in {"none", "alone", "crossed"} /\ cmd' \in Forward
    BY <1>2, <1>3 DEF Crossed, Forward
  <2> QED
    BY <1>2, <1>3, <2>1, <2>2, <2>3 DEF AInv, ATypeOK, Results
<1>6. HooksKnown' /\ BackupBehindArmedPam'
  BY <1>3 DEF AInv, HooksKnown, HooksOf, BackupBehindArmedPam, Present
<1>7. Prompting' /\ Begun'
  <2>1. disk["bak"] \in {"stock", Absent}
    BY ContentsOf DEF AInv, ATypeOK, Files
  <2> QED
    BY <1>1, <1>2, <1>3, <2>1 DEF AInv, Prompting, Begun, Crossed, Present
<1>8. HalfWay' /\ RolledBack'
  BY <1>3, <1>4 DEF HalfWay, RolledBack, Back
<1>9. Current' = Current /\ ArmedDisk(disk)' = ArmedDisk(disk) /\ StockDisk(disk)' = StockDisk(disk)
      /\ ArmedDisk(snap)' = ArmedDisk(disk) /\ StockDisk(snap)' = StockDisk(disk)
  BY <1>3 DEF Current, BuildSucceeds, Hooked, Built, ArmedDisk, ArmedFiles, StockDisk
<1>10. LiveIsArmed' /\ Whole'
  BY <1>2, <1>3, <1>9 DEF AInv, LiveIsArmed, Whole, Unrolled, Forward, Back
<1>11. Mirrored' /\ Reported' /\ Faultless'
  BY <1>2, <1>3 DEF AInv, Mirrored, Unrolled, Back, Present, Reported, Faultless, Markers
<1> QED
  BY <1>5, <1>6, <1>7, <1>8, <1>10, <1>11 DEF AInv

\* set-duress changes the enrolled secrets and no file that arm writes; where
\* it meets a running arm, arm has read its version.
LEMMA SetDuressStep ==
  ASSUME AInv, SetDuress \/ SetDuressWrites \/ SetDuressEnds PROVE AInv'
<1>1. UNCHANGED <<disk, image, site, cmd, at, snap, errs, res, torn, cuts, faults>>
  BY DEF SetDuress, SetDuressWrites, SetDuressEnds, Elsewhere
<1>2. Behind' = Behind /\ Current' = Current
      /\ ArmedDisk(disk)' = ArmedDisk(disk) /\ StockDisk(disk)' = StockDisk(disk)
      /\ ArmedDisk(snap)' = ArmedDisk(snap) /\ StockDisk(snap)' = StockDisk(snap)
  BY <1>1 DEF Behind, Current, BuildSucceeds, Hooked, Built, ArmedDisk, ArmedFiles, StockDisk
<1>3. cmd = "arm" => take' = take
  BY DEF SetDuress, SetDuressWrites, SetDuressEnds
<1>4. ATypeOK'
  <2>1. local' \in Versions /\ take' \in Versions
    BY ArmAssumption
    DEF AInv, ATypeOK, Prompting, Versions, SetDuress, SetDuressWrites, SetDuressEnds
  <2>2. stale' \in BOOLEAN
    BY Zenon DEF AInv, ATypeOK, SetDuress, SetDuressWrites, SetDuressEnds
  <2>3. sd' \in {"none", "alone", "crossed"}
    BY DEF SetDuress, SetDuressWrites, SetDuressEnds
  <2> QED
    BY <1>1, <2>1, <2>2, <2>3 DEF AInv, ATypeOK
<1>5. HooksKnown' /\ BackupBehindArmedPam' /\ Begun'
  BY <1>1 DEF AInv, HooksKnown, HooksOf, BackupBehindArmedPam, Begun, Present
<1>6. Prompting'
  BY <1>1 DEF AInv, Prompting, Present, SetDuress, SetDuressWrites, SetDuressEnds
<1>7. \A f \in Files : Made("disarm", f)' = Made("disarm", f)
                       /\ (cmd = "arm" => Made("arm", f)' = Made("arm", f))
  <2>1. \A f \in Files : Made("disarm", f)' = Made("disarm", f)
    BY <1>1 DEF Made
  <2>2. ASSUME cmd = "arm" PROVE \A f \in Files : Made("arm", f)' = Made("arm", f)
    <3>1. take' = take
      BY <1>3, <2>2
    <3> QED
      BY <1>1, <3>1 DEF Made
  <2> QED
    BY <2>1, <2>2
<1>8. HalfWay'
  <2>1. cmd \in Forward => \A f \in Files : Made(cmd, f)' = Made(cmd, f)
    BY <1>1, <1>7 DEF Forward
  <2> QED
    BY <1>1, <1>2, <2>1 DEF AInv, HalfWay
<1>9. RolledBack'
  BY <1>1, <1>2, <1>7 DEF AInv, RolledBack
<1>10. LiveIsArmed' /\ Whole' /\ Reported' /\ Faultless'
  BY <1>1, <1>2 DEF AInv, LiveIsArmed, Whole, Reported, Faultless, Unrolled
<1>11. Mirrored'
  <2>1. CASE SetDuress \/ SetDuressEnds
    BY <1>1, <2>1 DEF AInv, Mirrored, Unrolled, Present, SetDuress, SetDuressEnds
  <2>2. CASE SetDuressWrites
    <3> SUFFICES ASSUME ~stale' PROVE Mirrored'
      BY DEF Mirrored
    <3>1. sd = "alone"
      BY <2>2 DEF AInv, ATypeOK, SetDuressWrites
    <3>2. cmd = "none" /\ ~Present("ARMED")
      BY <3>1 DEF AInv, Prompting
    <3> QED
      BY <1>1, <3>2 DEF Mirrored, Present
  <2> QED
    BY <2>1, <2>2
<1> QED
  BY <1>4, <1>5, <1>6, <1>8, <1>9, <1>10, <1>11 DEF AInv

\* An upgrade rebuilds: what was current stays so.
LEMMA UpgradeStep == ASSUME AInv, Upgrade PROVE AInv'
<1>1. UNCHANGED <<disk, site, local, take, sd, stale, cmd, at, snap, errs, res, torn, cuts, faults>>
  BY DEF Upgrade, enrol
<1>2. Current => Current'
  BY <1>1, CurrentBuilt DEF Upgrade, Current
<1>3. Behind' = Behind
      /\ ArmedDisk(disk)' = ArmedDisk(disk) /\ StockDisk(disk)' = StockDisk(disk)
      /\ ArmedDisk(snap)' = ArmedDisk(snap) /\ StockDisk(snap)' = StockDisk(snap)
  BY <1>1 DEF Behind, ArmedDisk, ArmedFiles, StockDisk
<1>4. ATypeOK'
  <2>1. image' \in {NoHook, Unbootable} \cup [Baked -> Versions]
    BY BuiltType DEF AInv, ATypeOK, Upgrade, FailedImage
  <2> QED
    BY <1>1, <2>1 DEF AInv, ATypeOK
<1>5. HooksKnown' /\ BackupBehindArmedPam' /\ Begun' /\ Prompting'
  BY <1>1 DEF AInv, HooksKnown, HooksOf, BackupBehindArmedPam, Begun, Present, Prompting
<1>6. \A f \in Files : Made("disarm", f)' = Made("disarm", f) /\ Made("arm", f)' = Made("arm", f)
  BY <1>1 DEF Made
<1>7. HalfWay'
  <2>1. cmd \in Forward => \A f \in Files : Made(cmd, f)' = Made(cmd, f)
    BY <1>1, <1>6 DEF Forward
  <2> QED
    BY <1>1, <1>2, <1>3, <2>1 DEF AInv, HalfWay
<1>8. RolledBack'
  BY <1>1, <1>3, <1>6 DEF AInv, RolledBack
<1>9. LiveIsArmed' /\ Whole' /\ Reported'
  BY <1>1, <1>2, <1>3 DEF AInv, LiveIsArmed, Whole, Reported, Unrolled
<1>10. Mirrored' /\ Faultless'
  BY <1>1 DEF AInv, Mirrored, Unrolled, Present, Faultless
<1> QED
  BY <1>4, <1>5, <1>7, <1>8, <1>9, <1>10 DEF AInv

LEMMA BootCountsStep == ASSUME AInv, BootCounts PROVE AInv'
<1>1. UNCHANGED <<image, site, local, take, sd, stale, cmd, at, snap, errs, torn, cuts, faults>>
      /\ cmd = "none" /\ res' = "none"
  BY DEF BootCounts, enrol
<1>2. DOMAIN disk = Files
  BY DEF AInv, ATypeOK
<1>3. DOMAIN disk' = Files /\ disk'["counter"] \in {0, 1}
      /\ \A f \in Files \ {"counter"} : disk'[f] = disk[f]
  BY <1>2 DEF BootCounts, Files
<1>4. Baked \cup Markers \cup {"pam", "bak", "conf"} \subseteq Files \ {"counter"}
  BY DEF Files, Baked, Markers
<1>5. Current => Current'
  BY <1>1, <1>3, <1>4, CurrentStays DEF Markers
<1>6. (ArmedDisk(disk) => ArmedDisk(disk)') /\ StockDisk(disk)' = StockDisk(disk)
  <2>1. disk'["counter"] # Absent
    BY <1>3, ArmAssumption
  <2> QED
    BY <1>1, <1>3, <1>4, <2>1 DEF ArmedDisk, ArmedFiles, StockDisk
<1>7. ATypeOK'
  <2>1. \A f \in Files \ {"conf"} : disk'[f] \in Contents(f)
    BY <1>3, ContentsOf DEF AInv, ATypeOK
  <2> QED
    BY <1>1, <1>3, <2>1 DEF AInv, ATypeOK, Results
<1>8. HooksKnown' /\ BackupBehindArmedPam' /\ Begun' /\ Prompting'
  BY <1>1, <1>3, <1>4
  DEF AInv, HooksKnown, HooksOf, BackupBehindArmedPam, Begun, Present, Prompting, Markers
<1>9. HalfWay' /\ RolledBack' /\ Reported' /\ Faultless'
  BY <1>1 DEF AInv, HalfWay, RolledBack, Reported, Faultless, Forward, Back
<1>10. LiveIsArmed' /\ Whole'
  BY <1>1, <1>3, <1>4, <1>5, <1>6 DEF AInv, LiveIsArmed, Whole, Unrolled, Forward, Back
<1>11. Mirrored'
  BY <1>1, <1>3, <1>4 DEF AInv, Mirrored, Unrolled, Back, Present, Markers
<1> QED
  BY <1>7, <1>8, <1>9, <1>10, <1>11 DEF AInv

LEMMA PowerCutStep == ASSUME AInv, PowerCut PROVE AInv'
<1>1. UNCHANGED <<disk, image, site, local, take, sd, stale, snap, errs, faults>>
      /\ cmd # "none" /\ cmd' = "none" /\ at' = 0 /\ res' = "none"
      /\ cuts' = cuts + 1 /\ cuts < MaxCuts /\ torn' = torn \cup {cmd}
  BY DEF PowerCut, enrol
<1>2. Current' = Current /\ ArmedDisk(disk)' = ArmedDisk(disk)
  BY <1>1 DEF Current, BuildSucceeds, Hooked, Built, ArmedDisk, ArmedFiles
<1>3. Unrolled' => Unrolled /\ cmd \notin Back
  BY <1>1 DEF Unrolled
<1>4. ATypeOK'
  <2>1. cuts' \in 0..MaxCuts
    BY <1>1, ArmAssumption DEF AInv, ATypeOK
  <2> QED
    BY <1>1, <2>1 DEF AInv, ATypeOK, Results
<1>5. HooksKnown' /\ BackupBehindArmedPam' /\ Begun' /\ Prompting'
  BY <1>1 DEF AInv, HooksKnown, HooksOf, BackupBehindArmedPam, Begun, Present, Prompting
<1>6. HalfWay' /\ RolledBack' /\ Reported' /\ Whole'
  BY <1>1 DEF HalfWay, RolledBack, Reported, Whole, Forward, Back
<1>7. LiveIsArmed' /\ Mirrored'
  BY <1>1, <1>2, <1>3 DEF AInv, LiveIsArmed, Mirrored, Present, Back
<1>8. Faultless'
  BY <1>1 DEF AInv, ATypeOK, Faultless
<1> QED
  BY <1>4, <1>5, <1>6, <1>7, <1>8 DEF AInv

-----------------------------------------------------------------------------
(***************************************************************************)
(* The steps of arm and of its rollback                                    *)
(***************************************************************************)

\* The names of the lists are files, apart from the rebuild.
LEMMA FileNames ==
  /\ Baked \cup Markers \cup {"counter", "pam", "bak", "conf"} = Files
  /\ "mkinitcpio" \notin Files /\ "pam" \notin Baked \cup Markers /\ "bak" \notin Baked \cup Markers
  /\ "conf" \notin Baked \cup Markers /\ "counter" \notin Baked \cup Markers
  /\ Markers = {"ARMED", "armed"} /\ Baked \cap Markers = {}
BY DEF Files, Baked, Markers

LEMMA WrittenIs ==
  ASSUME DOMAIN disk = Files, NEW c, NEW g \in Files, disk' = Written(c, g)
  PROVE  /\ DOMAIN disk' = Files /\ \A f \in Files \ {g} : disk'[f] = disk[f]
         /\ disk'[g] = IF Skipped(c, g) THEN disk[g] ELSE Value(c, g)
BY DEF Written

LEMMA MadeType ==
  ASSUME ATypeOK
  PROVE  /\ \A f \in Files \ {"conf"} : Made("arm", f) \in Contents(f)
         /\ \A f \in Files \ {"conf"} : Made("disarm", f) \in Contents(f)
<1>1. take \in Versions /\ \A f \in Files \ {"conf"} : snap[f] \in Contents(f)
  BY DEF ATypeOK
<1>2. ASSUME NEW f \in Files \ {"conf"} PROVE Made("arm", f) \in Contents(f)
  BY <1>1, ContentsOf, FileNames DEF Made
<1>3. ASSUME NEW f \in Files \ {"conf"} PROVE Made("disarm", f) \in Contents(f)
  BY <1>1, ContentsOf, FileNames DEF Made
<1> QED
  BY <1>2, <1>3

LEMMA NextStep ==
  ASSUME Proceed, NEW n \in Nat, Len(Plan(cmd)) = n, at \in Nat, at < n
  PROVE  at' = at + 1 /\ UNCHANGED <<cmd, snap, errs, res, torn>>
<1>1. at # Len(Plan(cmd))
  OBVIOUS
<1> QED
  BY <1>1 DEF Proceed

LEMMA LastStep ==
  ASSUME Proceed, at = Len(Plan(cmd)), NEW n \in Nat, at = n
  PROVE  /\ Leave(Outcome)
         /\ torn' = IF Outcome = "incomplete" THEN torn \cup {cmd} ELSE torn
<1>1. \A i \in Nat : ~(i < i)
  OBVIOUS
<1>2. ~(at < Len(Plan(cmd)))
  BY <1>1, Zenon
<1> QED
  BY <1>2 DEF Proceed

\* What arm writes into the file of its step.
LEMMA ArmWrites ==
  ASSUME AInv, cmd = "arm", at \in 1..11, Step # "mkinitcpio", ~EditRefused(cmd, Step),
         disk' = Written(cmd, Step)
  PROVE  /\ DOMAIN disk' = Files
         /\ \A f \in Files : disk'[f] = IF f = Step THEN Made("arm", f) ELSE disk[f]
         /\ Step = "conf" => CanInsert(site.conf)
<1>1. Step \in Files /\ Step \notin Behind
  BY ArmOrder
<1>2. disk[Step] = snap[Step]
  BY <1>1 DEF AInv, HalfWay, Forward
<1>3. ASSUME Step = "conf" PROVE CanInsert(site.conf) /\ Inserted(disk["conf"]) = Inserted(site.conf)
  <2>1. CanInsert(disk["conf"])
    BY <1>3 DEF EditRefused
  <2> QED
    BY <2>1, SiteHooks DEF AInv, ATypeOK, HooksKnown, HooksOf
<1>4. Value("arm", Step) = Made("arm", Step)
  BY <1>1, <1>3, FileNames DEF Value, Made
<1>5. ~Skipped("arm", Step)
  BY DEF Skipped
<1> QED
  BY <1>1, <1>3, <1>4, <1>5, WrittenIs DEF AInv, ATypeOK

LEMMA WriteArm == ASSUME AInv, cmd = "arm", Write PROVE AInv'
<1>1. at \in 1..11
  BY Lengths DEF AInv, ATypeOK
<1>2. Step # "mkinitcpio" /\ ~EditRefused(cmd, Step) /\ disk' = Written(cmd, Step) /\ Proceed
      /\ UNCHANGED <<image, site, local, take, sd, stale, cuts, faults>>
  BY DEF Write, enrol
<1>3. DOMAIN disk' = Files
      /\ (\A f \in Files : disk'[f] = IF f = Step THEN Made("arm", f) ELSE disk[f])
      /\ (Step = "conf" => CanInsert(site.conf))
  BY <1>1, <1>2, ArmWrites
<1>4. UNCHANGED <<snap, errs>>
  BY <1>2 DEF Proceed, Leave
<1>5. \A f \in Files \ {"conf"} : disk'[f] \in Contents(f)
  BY <1>3, MadeType DEF AInv, ATypeOK
<1>6. HooksKnown'
  BY <1>2, <1>3, <1>4, FileNames DEF AInv, HooksKnown, HooksOf, Made
<1>7. \A f \in Files : Made("arm", f)' = Made("arm", f)
  BY <1>2, <1>4 DEF Made
<1>8. "mkinitcpio" \in Behind => Current'
  <2> SUFFICES ASSUME "mkinitcpio" \in Behind PROVE Current'
    OBVIOUS
  <2>1. Current /\ Step \in {"armed", "pam"}
    BY <1>1, ArmOrder DEF AInv, HalfWay, Forward
  <2> QED
    BY <1>2, <1>3, <2>1, CurrentStays, FileNames
<1>9. \A f \in Files : disk'[f] = IF f \in Behind \cup {Step} THEN Made("arm", f) ELSE snap[f]
  BY <1>3 DEF AInv, HalfWay, Forward
<1>10. snap["pam"] = "stock" /\ (\A m \in Markers : snap[m] = Absent)
  BY DEF AInv, Begun
<1>11. ASSUME Present("ARMED")', Unrolled, ~stale PROVE \A f \in Baked : disk'[f] = local
  <2>1. Step = "ARMED" \/ "ARMED" \in Behind
    BY <1>9, <1>10, <1>11, FileNames DEF Present
  <2>2. Baked \subseteq Behind
    BY <1>1, <2>1, ArmOrder
  <2>3. take = local
    BY <1>11 DEF AInv, Mirrored
  <2> QED
    BY <1>9, <2>2, <2>3, FileNames DEF Made
<1>12. CASE at < 11
  <2>1. at' = at + 1 /\ UNCHANGED <<cmd, snap, errs, res, torn>>
    BY <1>1, <1>2, <1>12, Lengths DEF Proceed
  <2>2. Behind' = Behind \cup {Step}
    BY <1>1, <2>1, BehindGrows
  <2>3. ATypeOK'
    <3>1. at' \in 1..Len(Plan(cmd'))
      BY <1>1, <1>12, <2>1, Lengths
    <3> QED
      BY <1>2, <1>3, <1>5, <2>1, <3>1 DEF AInv, ATypeOK
  <2>4. disk'["pam"] = "stock"
    BY <1>1, <1>9, <1>10, <1>12, ArmOrder, FileNames
  <2>5. Prompting' /\ Begun' /\ BackupBehindArmedPam'
    BY <1>2, <2>1, <2>4 DEF AInv, Prompting, Begun, BackupBehindArmedPam
  <2>6. HalfWay'
    BY <1>2, <1>3, <1>7, <1>8, <1>9, <2>1, <2>2, FileNames DEF AInv, HalfWay, Forward
  <2>7. RolledBack' /\ Reported' /\ Faultless'
    BY <1>2, <2>1 DEF AInv, RolledBack, Reported, Faultless, Back, Prompting
  <2>8. LiveIsArmed'
    BY <2>1, <2>4 DEF LiveIsArmed
  <2>9. Whole'
    BY <1>1, <1>2, <2>1 DEF AInv, Whole, ArmedDisk, ArmedFiles, StockDisk
  <2>10. Mirrored'
    BY <1>2, <1>11, <2>1 DEF AInv, Mirrored, Unrolled
  <2> QED
    BY <1>6, <2>3, <2>5, <2>6, <2>7, <2>8, <2>9, <2>10 DEF AInv
<1>13. CASE at = 11
  <2>1. Outcome = "armed"
    BY DEF Outcome, Back
  <2>2. cmd' = "none" /\ at' = 0 /\ res' = "armed" /\ torn' = torn
    <3>1. Len(Plan(cmd)) = 11
      BY Lengths
    <3> QED
      BY <1>2, <1>13, <2>1, <3>1, LastStep DEF Leave
  <2>3. ATypeOK'
    BY <1>2, <1>3, <1>4, <1>5, <2>2 DEF AInv, ATypeOK, Results
  <2>4. \A f \in Files : disk'[f] = Made("arm", f)
    BY <1>1, <1>9, <1>13, ArmOrder
  <2>5. Current'
    BY <1>1, <1>8, <1>13, ArmOrder, FileNames
  <2>6. CanInsert(site.conf)
    BY <1>1, <1>13, ArmOrder, FileNames DEF AInv, HalfWay, Forward
  <2>7. ArmedDisk(disk)' /\ disk'["counter"] = 0 /\ disk'["bak"] = "stock"
    <3>1. disk'["pam"] = "armed" /\ disk'["conf"] = Inserted(site.conf) /\ disk'["counter"] = 0
          /\ disk'["bak"] = "stock"
      BY <2>4, FileNames DEF Made
    <3>2. \A f \in Baked : disk'[f] # Absent
      BY <2>4, FileNames, ArmAssumption DEF Made, AInv, ATypeOK, Versions
    <3>3. \A f \in Markers : disk'[f] # Absent
      <4>1. \A f \in Markers : disk'[f] = "present"
        BY <2>4, FileNames DEF Made
      <4> QED
        BY <4>1, ArmAssumption
    <3>4. disk'["counter"] # Absent
      BY <3>1, ArmAssumption
    <3>5. TokenStandsAlone(disk'["conf"])
      BY <1>2, <2>5, <2>6, <3>1, SiteHooks DEF Current, BuildSucceeds, Hooked, AInv, ATypeOK
    <3> QED
      BY <1>2, <2>6, <3>1, <3>2, <3>3, <3>4, <3>5 DEF ArmedDisk, ArmedFiles
  <2>8. Prompting' /\ Begun' /\ BackupBehindArmedPam'
    <3>1. disk'["bak"] # Absent
      BY <2>7, ArmAssumption
    <3> QED
      BY <1>2, <2>2, <3>1 DEF AInv, Prompting, Begun, BackupBehindArmedPam, Present
  <2>9. HalfWay' /\ RolledBack' /\ Reported' /\ Faultless'
    BY <1>2, <2>2, <2>5, <2>7 DEF AInv, HalfWay, RolledBack, Reported, Faultless, Forward, Back
  <2>10. LiveIsArmed' /\ Whole'
    BY <2>2, <2>5, <2>7 DEF LiveIsArmed, Whole
  <2>11. Mirrored'
    BY <1>2, <1>11, <2>2 DEF AInv, Mirrored, Unrolled
  <2> QED
    BY <1>6, <2>3, <2>8, <2>9, <2>10, <2>11 DEF AInv
<1> QED
  BY <1>1, <1>12, <1>13

LEMMA RebuildArm == ASSUME AInv, cmd = "arm", Rebuild PROVE AInv'
<1>1. at \in 1..11
  BY Lengths DEF AInv, ATypeOK
<1>2. Step = "mkinitcpio" /\ BuildSucceeds /\ image' = Built /\ Proceed
      /\ UNCHANGED <<disk, site, local, take, sd, stale, cuts, faults>>
  BY DEF Rebuild, enrol
<1>3. at < 11
  <2>1. at # 11
    BY <1>1, <1>2, ArmOrder
  <2> QED
    BY <1>1, <2>1
<1>4. at' = at + 1 /\ UNCHANGED <<cmd, snap, errs, res, torn>>
  <2>1. Len(Plan(cmd)) = 11 /\ at \in Nat
    BY <1>1, Lengths
  <2> QED
    BY <1>2, <1>3, <2>1, NextStep
<1>5. Behind' = Behind \cup {Step}
  BY <1>1, <1>4, BehindGrows
<1>6. Current'
  BY <1>2, CurrentBuilt
<1>7. ATypeOK'
  <2>1. at' \in 1..Len(Plan(cmd'))
    BY <1>1, <1>3, <1>4, Lengths
  <2>2. image' \in {NoHook, Unbootable} \/ image' \in [Baked -> Versions]
    BY <1>2, BuiltType DEF AInv
  <2> QED
    BY <1>2, <1>4, <2>1, <2>2 DEF AInv, ATypeOK
<1>8. HooksKnown' /\ BackupBehindArmedPam' /\ Begun' /\ Prompting'
  BY <1>2, <1>4 DEF AInv, HooksKnown, HooksOf, BackupBehindArmedPam, Begun, Present, Prompting
<1>9. HalfWay'
  <2>1. \A f \in Files : Made("arm", f)' = Made("arm", f)
    BY <1>2, <1>4 DEF Made
  <2> QED
    BY <1>2, <1>4, <1>5, <1>6, <2>1, FileNames DEF AInv, HalfWay, Forward
<1>10. RolledBack' /\ Reported' /\ Faultless' /\ Whole'
  BY <1>1, <1>2, <1>4
  DEF AInv, RolledBack, Reported, Faultless, Back, Prompting, Whole, ArmedDisk, ArmedFiles, StockDisk
<1>11. LiveIsArmed'
  <2>1. disk["pam"] = "stock"
    BY <1>1, ArmOrder, FileNames DEF AInv, Begun, HalfWay, Forward
  <2> QED
    BY <1>2, <1>4, <2>1 DEF LiveIsArmed
<1>12. Mirrored'
  BY <1>2, <1>4 DEF AInv, Mirrored, Unrolled, Present
<1> QED
  BY <1>7, <1>8, <1>9, <1>10, <1>11, <1>12 DEF AInv

\* A failed step of arm, whatever it has done to its file or to the image.
LEMMA FailArm ==
  ASSUME AInv, cmd = "arm", at \in 1..11, Fails,
         UNCHANGED <<site, local, take, sd, stale, cuts>>,
         DOMAIN disk' = Files,
         \A f \in Files : disk'[f] = disk[f] \/ (f = Step /\ disk'[f] = Made("arm", f)),
         HooksOf(disk)',
         image' \in {NoHook, Unbootable} \cup [Baked -> Versions],
         Step = "bak" => image' = image /\ faults' # 0,
         faults' \in 0..MaxFaults,
         faults' = 0 /\ cuts = 0 =>
           faults = 0 /\ (CanInsert(site.conf) => ~TokenStandsAlone(Inserted(site.conf)))
  PROVE  AInv'
<1>1. \A f \in Files \ {"conf"} : disk'[f] \in Contents(f)
  BY MadeType DEF AInv, ATypeOK
<1>2. snap["pam"] = "stock" /\ (\A m \in Markers : snap[m] = Absent) /\ UNCHANGED <<snap, errs, torn>>
  BY DEF AInv, Begun, Fails, Leave, Forward, Back
<1>3. HooksKnown'
  BY <1>2 DEF AInv, HooksKnown, HooksOf
<1>4. CASE Step = "bak"
  <2>1. cmd' = "none" /\ at' = 0 /\ res' = "failed"
    BY <1>4 DEF Fails, Leave, Forward, Back
  <2>2. at = 1 /\ \A f \in Files \ {"bak"} : disk'[f] = disk[f] /\ disk[f] = snap[f]
    BY <1>4, ArmOrder DEF AInv, HalfWay, Forward
  <2>3. ATypeOK'
    BY <1>1, <1>2, <2>1 DEF AInv, ATypeOK, Results
  <2>4. Current => Current'
    BY <1>4, <2>2, CurrentStays, FileNames
  <2>5. StockDisk(disk) => StockDisk(disk)'
    BY <2>2, FileNames DEF StockDisk
  <2>6. disk'["pam"] = "stock" /\ disk["pam"] = "stock" /\ disk'["ARMED"] = Absent
    BY <1>2, <2>2, FileNames
  <2>7. Prompting' /\ Begun' /\ BackupBehindArmedPam' /\ HalfWay' /\ RolledBack' /\ Reported'
    BY <2>1, <2>6 DEF AInv, Prompting, Begun, BackupBehindArmedPam, HalfWay, RolledBack, Reported,
                      Forward, Back
  <2>8. LiveIsArmed' /\ Mirrored' /\ Faultless'
    BY <1>4, <2>1, <2>6 DEF LiveIsArmed, Mirrored, Faultless, Present
  <2>9. Whole'
    BY <1>2, <2>1, <2>2, <2>4, <2>5, <2>6 DEF AInv, Whole, Forward, ArmedDisk, ArmedFiles
  <2> QED
    BY <1>3, <2>3, <2>7, <2>8, <2>9 DEF AInv
<1>5. CASE Step # "bak"
  <2>1. cmd' = "armBack" /\ at' = 1 /\ res' = res
    BY <1>5 DEF Fails, Forward, Back
  <2>2. Behind' = {}
    BY <2>1, BehindStart
  <2>3. disk'["bak"] = "stock"
    <3>1. "bak" \in Behind
      <4>1. at # 1
        BY <1>5, ArmOrder
      <4>2. at > 1
        BY <4>1
      <4> QED
        BY <4>2, ArmOrder
    <3> QED
      BY <1>5, <3>1, FileNames DEF AInv, HalfWay, Forward, Made
  <2>4. ATypeOK'
    <3>1. Len(Plan(cmd')) = 10
      BY <2>1, Lengths
    <3>2. 1 \in 1..10
      OBVIOUS
    <3>3. at' \in 1..Len(Plan(cmd'))
      BY <2>1, <3>1, <3>2, Zenon
    <3> QED
      BY <1>1, <1>2, <2>1, <3>3 DEF AInv, ATypeOK, Back
  <2>5. BackupBehindArmedPam'
    BY <2>3, ArmAssumption DEF BackupBehindArmedPam, Present
  <2>6. Prompting' /\ Begun' /\ HalfWay' /\ RolledBack' /\ Reported'
    BY <1>2, <2>1, <2>2, <2>3
    DEF AInv, Prompting, Begun, HalfWay, RolledBack, Reported, Forward, Back
  <2>7. LiveIsArmed' /\ Mirrored'
    BY <2>1 DEF LiveIsArmed, Mirrored, Back
  <2>8. Whole'
    BY <1>2, <2>1 DEF AInv, Whole, Forward, ArmedDisk, ArmedFiles, StockDisk
  <2>9. Faultless'
    BY <1>2, <2>1 DEF AInv, Faultless, Prompting
  <2> QED
    BY <1>3, <2>4, <2>5, <2>6, <2>7, <2>8, <2>9 DEF AInv
<1> QED
  BY <1>4, <1>5

LEMMA WriteFailsArm == ASSUME AInv, cmd = "arm", WriteFails PROVE AInv'
<1>1. at \in 1..11
  BY Lengths DEF AInv, ATypeOK
<1>2. Step # "mkinitcpio" /\ Fails /\ UNCHANGED <<image, site, local, take, sd, stale, cuts>>
  BY DEF WriteFails, enrol
<1>3. DOMAIN disk = Files /\ HooksOf(disk) /\ faults \in 0..MaxFaults
      /\ image \in {NoHook, Unbootable} \cup [Baked -> Versions]
  BY DEF AInv, ATypeOK, HooksKnown
<1>4. CASE EditRefused(cmd, Step) /\ UNCHANGED <<disk, faults>>
  <2>1. Step = "conf" /\ ~CanInsert(disk["conf"])
    BY <1>4 DEF EditRefused
  <2>2. HooksOf(disk)'
    BY <1>2, <1>3, <1>4 DEF HooksOf
  <2>3. ASSUME faults = 0, cuts = 0 PROVE ~CanInsert(site.conf)
    <3>1. disk["conf"] = snap["conf"]
      BY <1>1, <2>1, ArmOrder, FileNames DEF AInv, HalfWay, Forward
    <3>2. StockDisk(snap)
      BY <2>3 DEF AInv, Faultless, Whole, Begun, ArmedDisk, ArmedFiles
    <3> QED
      BY <2>1, <3>1, <3>2 DEF StockDisk
  <2> QED
    BY <1>1, <1>2, <1>3, <1>4, <2>1, <2>2, <2>3, FailArm
<1>5. CASE ~EditRefused(cmd, Step) /\ faults < MaxFaults /\ faults' = faults + 1
           /\ disk' \in {disk, Written(cmd, Step)}
  <2>1. DOMAIN disk' = Files
        /\ (\A f \in Files : disk'[f] = disk[f] \/ (f = Step /\ disk'[f] = Made("arm", f)))
        /\ HooksOf(disk)'
    <3>1. CASE disk' = disk
      BY <1>2, <1>3, <3>1 DEF HooksOf
    <3>2. CASE disk' = Written(cmd, Step)
      <4>1. DOMAIN disk' = Files
            /\ (\A f \in Files : disk'[f] = IF f = Step THEN Made("arm", f) ELSE disk[f])
            /\ (Step = "conf" => CanInsert(site.conf))
        BY <1>1, <1>2, <1>5, <3>2, ArmWrites
      <4> QED
        BY <1>2, <1>3, <4>1, FileNames DEF HooksOf, Made
    <3> QED
      BY <1>5, <3>1, <3>2
  <2>2. faults' \in 0..MaxFaults /\ faults' # 0
    BY <1>3, <1>5, ArmAssumption
  <2> QED
    BY <1>1, <1>2, <1>3, <2>1, <2>2, FailArm
<1> QED
  BY <1>4, <1>5 DEF WriteFails

\* The image of a failed run.
LEMMA FailedImageType ==
  ASSUME ATypeOK, image' \in FailedImage
  PROVE  image' \in {NoHook, Unbootable} \cup [Baked -> Versions]
BY BuiltType DEF FailedImage, ATypeOK

LEMMA RebuildFailsArm == ASSUME AInv, cmd = "arm", RebuildFails PROVE AInv'
<1>1. at \in 1..11
  BY Lengths DEF AInv, ATypeOK
<1>2. Step = "mkinitcpio" /\ Fails /\ UNCHANGED <<disk, site, local, take, sd, stale, cuts>>
  BY DEF RebuildFails, enrol
<1>3. DOMAIN disk' = Files /\ HooksOf(disk)' /\ faults \in 0..MaxFaults
      /\ image' \in {NoHook, Unbootable} \cup [Baked -> Versions]
  BY <1>2, FailedImageType DEF AInv, ATypeOK, HooksKnown, HooksOf, RebuildFails
<1>4. CASE ~BuildSucceeds /\ UNCHANGED faults
  <2>1. Baked \cup {"ARMED", "conf"} \subseteq Behind
    BY <1>1, <1>2, ArmOrder
  <2>2. disk["conf"] = Inserted(site.conf)
    BY <2>1, FileNames DEF AInv, HalfWay, Forward, Made
  <2>3. \A f \in Baked \cup {"ARMED"} : disk[f] # Absent
    <3>1. \A f \in Baked : disk[f] = take
      BY <2>1, FileNames DEF AInv, HalfWay, Forward, Made
    <3>2. disk["ARMED"] = "present"
      BY <2>1, FileNames DEF AInv, HalfWay, Forward, Made
    <3>3. take # Absent
      BY ArmAssumption DEF AInv, ATypeOK, Versions
    <3> QED
      BY <3>1, <3>2, <3>3, ArmAssumption
  <2>4. ~TokenStandsAlone(Inserted(site.conf))
    BY <1>4, <2>2, <2>3 DEF BuildSucceeds
  <2> QED
    BY <1>1, <1>2, <1>3, <1>4, <2>4, FailArm
<1>5. CASE faults < MaxFaults /\ faults' = faults + 1
  <2>1. faults' \in 0..MaxFaults /\ faults' # 0
    BY <1>3, <1>5, ArmAssumption
  <2> QED
    BY <1>1, <1>2, <1>3, <2>1, FailArm
<1> QED
  BY <1>4, <1>5 DEF RebuildFails

\* A rollback step of arm writes what arm has found: no marker, too.
LEMMA ArmBackWrites ==
  ASSUME AInv, cmd = "armBack", at \in 1..10, Step # "mkinitcpio", disk' = Written(cmd, Step)
  PROVE  /\ DOMAIN disk' = Files
         /\ \A f \in Files : disk'[f] = IF f = Step THEN snap[f] ELSE disk[f]
<1>1. Step \in Files
  BY ArmBackOrder
<1>2. snap["ARMED"] = Absent
  BY FileNames DEF AInv, Begun
<1>3. Value(cmd, Step) = snap[Step] /\ ~Skipped(cmd, Step)
  BY <1>2 DEF Value, Skipped
<1> QED
  BY <1>1, <1>3, WrittenIs DEF AInv, ATypeOK

\* The rollback goes on, its step done or failed.
LEMMA ArmBackGoesOn ==
  ASSUME AInv, cmd = "armBack", at \in 1..9, Step # "mkinitcpio",
         at' = at + 1, UNCHANGED <<image, cmd, snap, res, torn, site, local, take, sd, stale, cuts>>,
         DOMAIN disk' = Files,
         \A f \in Files : disk'[f] = disk[f] \/ (f = Step /\ disk'[f] = snap[f]),
         errs' \in BOOLEAN, ~errs' => ~errs /\ disk'[Step] = snap[Step],
         faults' \in 0..MaxFaults, faults' = 0 => faults = 0 /\ errs' = errs
  PROVE  AInv'
<1>1. Step \in Files \ {"bak"}
  BY ArmBackOrder
<1>2. Behind' = Behind \cup {Step}
  BY BehindGrows
<1>3. ATypeOK'
  <2>1. \A f \in Files \ {"conf"} : disk'[f] \in Contents(f)
    BY DEF AInv, ATypeOK
  <2>2. Len(Plan(cmd')) = 10
    BY Lengths
  <2>3. at' \in 1..10
    OBVIOUS
  <2>4. at' \in 1..Len(Plan(cmd'))
    BY <2>2, <2>3, Zenon
  <2> QED
    BY <2>1, <2>4 DEF AInv, ATypeOK
<1>4. HooksKnown'
  BY FileNames DEF AInv, HooksKnown, HooksOf
<1>5. disk'["bak"] = "stock"
  BY <1>1, FileNames DEF AInv, RolledBack
<1>6. BackupBehindArmedPam'
  BY <1>5, ArmAssumption DEF BackupBehindArmedPam, Present
<1>7. Prompting' /\ Begun' /\ HalfWay' /\ Reported'
  BY DEF AInv, Prompting, Begun, HalfWay, Reported, Forward
<1>8. RolledBack'
  <2>1. ASSUME ~errs' PROVE \A f \in Behind' \ {"mkinitcpio"} : disk'[f] = snap[f]
    <3>1. \A f \in Behind \ {"mkinitcpio"} : disk[f] = snap[f] /\ (f \in Files => disk'[f] = snap[f])
      BY <2>1 DEF AInv, RolledBack, Back
    <3>2. Behind \subseteq Files \cup {"mkinitcpio"}
      <4>1. \A i \in 1..(at - 1) : ArmBackPlan[i] \in Files \cup {"mkinitcpio"}
        BY DEF ArmBackPlan, Files, Baked, Markers
      <4> QED
        BY <4>1, Plans DEF Behind
    <3> QED
      BY <1>2, <2>1, <3>1, <3>2
  <2> QED
    BY <1>5, <2>1 DEF RolledBack, Back
<1>9. LiveIsArmed' /\ Mirrored'
  BY DEF LiveIsArmed, Mirrored, Back
<1>10. Whole'
  BY DEF AInv, Whole, Forward, ArmedDisk, ArmedFiles, StockDisk
<1>11. Faultless'
  BY DEF AInv, Faultless
<1> QED
  BY <1>3, <1>4, <1>6, <1>7, <1>8, <1>9, <1>10, <1>11 DEF AInv

\* An incomplete rollback of arm or disarm leaves a torn machine.
LEMMA BackEndsTorn ==
  ASSUME AInv, cmd \in Back,
         cmd' = "none", at' = 0, res' = "incomplete", torn' = torn \cup {cmd},
         errs' \in BOOLEAN,
         UNCHANGED <<disk, snap, site, local, take, sd, stale, cuts>>,
         image' \in {NoHook, Unbootable} \cup [Baked -> Versions],
         faults' \in 0..MaxFaults, ~(faults' = 0 /\ cuts = 0)
  PROVE  AInv'
<1>1. ATypeOK'
  BY DEF AInv, ATypeOK, Results, Back
<1>2. ~Unrolled' /\ torn' # {}
  BY DEF Unrolled
<1>3. HooksKnown' /\ BackupBehindArmedPam' /\ Begun' /\ Prompting'
  BY DEF AInv, HooksKnown, HooksOf, BackupBehindArmedPam, Begun, Present, Prompting, Back
<1>4. HalfWay' /\ RolledBack' /\ Reported'
  BY DEF HalfWay, RolledBack, Reported, Forward, Back
<1>5. LiveIsArmed' /\ Mirrored' /\ Whole' /\ Faultless'
  BY <1>2 DEF LiveIsArmed, Mirrored, Whole, Faultless
<1> QED
  BY <1>1, <1>3, <1>4, <1>5 DEF AInv

LEMMA WriteArmBack == ASSUME AInv, cmd = "armBack", Write PROVE AInv'
<1>1. Step # "mkinitcpio" /\ disk' = Written(cmd, Step) /\ Proceed
      /\ UNCHANGED <<image, site, local, take, sd, stale, cuts, faults>>
  BY DEF Write, enrol
<1>2. Len(Plan(cmd)) = 10
  BY Lengths
<1>3. at \in 1..10 /\ errs \in BOOLEAN /\ faults \in 0..MaxFaults
  BY <1>2 DEF AInv, ATypeOK
<1>4. at # 10
  BY <1>1, <1>3, ArmBackOrder
<1>5. at \in 1..9 /\ at < 10 /\ at \in Nat
  BY <1>3, <1>4
<1>6. at' = at + 1 /\ UNCHANGED <<cmd, snap, errs, res, torn>>
  BY <1>1, <1>2, <1>5, NextStep
<1>7. DOMAIN disk' = Files /\ \A f \in Files : disk'[f] = IF f = Step THEN snap[f] ELSE disk[f]
  BY <1>1, <1>3, ArmBackWrites
<1>8. Step \in Files
  BY <1>1, <1>3, ArmBackOrder
<1> QED
  BY <1>1, <1>3, <1>5, <1>6, <1>7, <1>8, ArmBackGoesOn

LEMMA RebuildArmBack == ASSUME AInv, cmd = "armBack", Rebuild PROVE AInv'
<1>1. Step = "mkinitcpio" /\ BuildSucceeds /\ image' = Built /\ Proceed
      /\ UNCHANGED <<disk, site, local, take, sd, stale, cuts, faults>>
  BY DEF Rebuild, enrol
<1>2. Len(Plan(cmd)) = 10
  BY Lengths
<1>3. at \in 1..10
  BY <1>2 DEF AInv, ATypeOK
<1>4. at = 10 /\ Behind = Files \ {"bak"}
  BY <1>1, <1>3, ArmBackOrder
<1>5. Leave(Outcome) /\ torn' = IF Outcome = "incomplete" THEN torn \cup {cmd} ELSE torn
  BY <1>1, <1>2, <1>4, LastStep
<1>6. image' \in {NoHook, Unbootable} \cup [Baked -> Versions]
  BY <1>1, BuiltType DEF AInv
<1>7. CASE errs
  <2>1. Outcome = "incomplete"
    BY <1>7 DEF Outcome, Back
  <2>2. ~(faults = 0 /\ cuts = 0)
    BY <1>7 DEF AInv, Faultless
  <2> QED
    BY <1>1, <1>5, <1>6, <2>1, <2>2, BackEndsTorn DEF Leave, AInv, ATypeOK, Back
<1>8. CASE ~errs
  <2>1. Outcome = "armRolledBack"
    BY <1>8 DEF Outcome, Back
  <2>2. cmd' = "none" /\ at' = 0 /\ res' = "armRolledBack" /\ UNCHANGED <<snap, errs, torn>>
    BY <1>5, <2>1 DEF Leave
  <2>3. \A f \in Files \ {"bak"} : disk[f] = snap[f]
    BY <1>4, <1>8, FileNames DEF AInv, RolledBack, Back
  <2>4. StockDisk(disk)
    <3>1. disk["pam"] = "stock" /\ \A m \in Markers : disk[m] = Absent
      BY <2>3, FileNames DEF AInv, Begun
    <3>2. ~Hooked
      BY <1>1, <3>1, FileNames DEF BuildSucceeds
    <3> QED
      BY <3>1, <3>2, SiteHooks DEF StockDisk, Hooked, AInv, ATypeOK, HooksKnown, HooksOf
  <2>5. Current'
    BY <1>1, CurrentBuilt
  <2>6. StockDisk(disk)'
    BY <1>1, <2>4 DEF StockDisk
  <2>7. ATypeOK'
    BY <1>1, <1>6, <2>2 DEF AInv, ATypeOK, Results
  <2>8. HooksKnown' /\ BackupBehindArmedPam' /\ Begun' /\ Prompting'
    BY <1>1, <2>2, <2>6
    DEF AInv, HooksKnown, HooksOf, BackupBehindArmedPam, Begun, StockDisk, Prompting
  <2>9. HalfWay' /\ RolledBack' /\ Reported'
    BY <1>1, <2>2, <2>3, <2>5, <2>6 DEF HalfWay, RolledBack, Reported, Forward, Back
  <2>10. LiveIsArmed' /\ Mirrored' /\ Whole'
    BY <2>2, <2>5, <2>6, FileNames DEF LiveIsArmed, Mirrored, Whole, StockDisk, Present
  <2>11. Faultless'
    BY <1>1, <2>2 DEF AInv, Faultless
  <2> QED
    BY <2>7, <2>8, <2>9, <2>10, <2>11 DEF AInv
<1> QED
  BY <1>7, <1>8

LEMMA WriteFailsArmBack == ASSUME AInv, cmd = "armBack", WriteFails PROVE AInv'
<1>1. Step # "mkinitcpio" /\ Fails /\ UNCHANGED <<image, site, local, take, sd, stale, cuts>>
  BY DEF WriteFails, enrol
<1>2. ~EditRefused(cmd, Step)
  BY DEF EditRefused
<1>3. faults < MaxFaults /\ faults' = faults + 1 /\ disk' \in {disk, Written(cmd, Step)}
  BY <1>2 DEF WriteFails
<1>4. Len(Plan(cmd)) = 10
  BY Lengths
<1>5. at \in 1..10 /\ faults \in 0..MaxFaults /\ DOMAIN disk = Files
  BY <1>4 DEF AInv, ATypeOK
<1>6. at # 10
  BY <1>1, <1>5, ArmBackOrder
<1>7. at \in 1..9 /\ at < Len(Plan(cmd))
  <2>1. at \in 1..9 /\ at < 10
    BY <1>5, <1>6
  <2> QED
    BY <1>4, <2>1, Zenon
<1>8. at' = at + 1 /\ UNCHANGED <<cmd, res, torn, snap>> /\ errs' = TRUE
  BY <1>1, <1>7 DEF Fails, Forward
<1>9. errs' \in BOOLEAN
  BY <1>8, Zenon
<1>10. faults' \in 0..MaxFaults /\ faults' # 0
  BY <1>3, <1>5, ArmAssumption
<1>11. DOMAIN disk' = Files
       /\ \A f \in Files : disk'[f] = disk[f] \/ (f = Step /\ disk'[f] = snap[f])
  <2>1. CASE disk' = disk
    BY <1>5, <2>1
  <2>2. CASE disk' = Written(cmd, Step)
    BY <1>1, <1>5, <2>2, ArmBackWrites
  <2> QED
    BY <1>3, <2>1, <2>2
<1> QED
  BY <1>1, <1>7, <1>8, <1>9, <1>10, <1>11, ArmBackGoesOn

LEMMA RebuildFailsArmBack == ASSUME AInv, cmd = "armBack", RebuildFails PROVE AInv'
<1>1. Step = "mkinitcpio" /\ Fails /\ UNCHANGED <<disk, site, local, take, sd, stale, cuts>>
  BY DEF RebuildFails, enrol
<1>2. Len(Plan(cmd)) = 10
  BY Lengths
<1>3. at \in 1..10 /\ faults \in 0..MaxFaults
  BY <1>2 DEF AInv, ATypeOK
<1>4. at = 10 /\ Behind = Files \ {"bak"}
  BY <1>1, <1>3, ArmBackOrder
<1>5. ~(at < Len(Plan(cmd)))
  <2>1. ~(10 < 10)
    OBVIOUS
  <2> QED
    BY <1>2, <1>4, <2>1, Zenon
<1>6. cmd' = "none" /\ at' = 0 /\ res' = "incomplete" /\ torn' = torn \cup {cmd}
      /\ snap' = snap /\ errs' = TRUE
  BY <1>1, <1>5 DEF Fails, Forward
<1>7. errs' \in BOOLEAN
  BY <1>6, Zenon
<1>8. image' \in {NoHook, Unbootable} \cup [Baked -> Versions]
  BY FailedImageType DEF AInv, RebuildFails
<1>9. faults' \in 0..MaxFaults /\ ~(faults' = 0 /\ cuts = 0)
  <2>1. CASE ~BuildSucceeds /\ UNCHANGED faults
    <3> SUFFICES ASSUME faults = 0, cuts = 0 PROVE FALSE
      BY <1>3, <2>1
    <3>1. StockDisk(snap)
      BY DEF AInv, Faultless, Whole, Begun, ArmedDisk, ArmedFiles
    <3>2. disk["conf"] = snap["conf"]
      BY <1>4, FileNames DEF AInv, Faultless, RolledBack, Back
    <3>3. ~Hooked
      BY <3>1, <3>2, SiteHooks DEF StockDisk, Hooked, AInv, ATypeOK
    <3> QED
      BY <2>1, <3>3 DEF BuildSucceeds
  <2>2. CASE faults < MaxFaults /\ faults' = faults + 1
    BY <1>3, <2>2, ArmAssumption
  <2> QED
    BY <2>1, <2>2 DEF RebuildFails
<1> QED
  BY <1>1, <1>6, <1>7, <1>8, <1>9, BackEndsTorn DEF Back

-----------------------------------------------------------------------------
(***************************************************************************)
(* The steps of disarm and of its rollback                                 *)
(***************************************************************************)

LEMMA MadeByDisarm ==
  /\ Made("disarm", "pam") = "stock" /\ Made("disarm", "conf") = site.conf
  /\ \A m \in Markers : Made("disarm", m) = Absent
  /\ \A f \in Baked \cup {"counter", "bak"} : Made("disarm", f) = snap[f]
BY FileNames DEF Made

\* What disarm writes into the file of its step: the stock rules come from the
\* backup, the stock HOOKS from taking the token out.
LEMMA DisarmWrites ==
  ASSUME AInv, cmd = "disarm", at \in 1..6, Step # "mkinitcpio", ~EditRefused(cmd, Step),
         disk' = Written(cmd, Step)
  PROVE  /\ DOMAIN disk' = Files /\ \A f \in Files \ {Step} : disk'[f] = disk[f]
         /\ Step # "bak" => disk'[Step] = Made("disarm", Step)
<1>1. Step \in Files /\ Step \in Markers \cup {"pam", "conf", "bak"} /\ Step \notin Behind
  BY DisarmOrder, FileNames
<1>2. DOMAIN disk' = Files /\ (\A f \in Files \ {Step} : disk'[f] = disk[f])
      /\ disk'[Step] = IF Skipped(cmd, Step) THEN disk[Step] ELSE Value(cmd, Step)
  BY <1>1, WrittenIs DEF AInv, ATypeOK
<1>3. CASE Step = "pam"
  <2>1. at = 1 /\ Behind = {}
    BY <1>3, DisarmOrder
  <2>2. disk["pam"] = snap["pam"] /\ disk["bak"] = snap["bak"] /\ snap["pam"] \in {"stock", "armed"}
    BY <2>1, FileNames, ContentsOf DEF AInv, ATypeOK, HalfWay, Forward
  <2>3. Skipped(cmd, Step) <=> snap["pam"] = "stock"
    BY <1>3, FileNames DEF Skipped
  <2>4. Value(cmd, Step) = disk["bak"]
    BY <1>3 DEF Value
  <2>5. snap["pam"] = "armed" => snap["bak"] = "stock"
    BY DEF AInv, Begun
  <2> QED
    BY <1>2, <1>3, <2>2, <2>3, <2>4, <2>5, MadeByDisarm
<1>4. CASE Step \in Markers
  <2>1. ~Skipped(cmd, Step) /\ Value(cmd, Step) = Absent
    BY <1>4, FileNames DEF Skipped, Value
  <2> QED
    BY <1>2, <1>4, <2>1, MadeByDisarm
<1>5. CASE Step = "conf"
  <2>1. ~Skipped(cmd, Step) /\ Value(cmd, Step) = Removed(disk["conf"]).line
    BY <1>5, FileNames DEF Skipped, Value
  <2>2. TokenStandsAlone(disk["conf"])
    BY <1>5, RemovalBails DEF EditRefused
  <2>3. Removed(disk["conf"]).line = site.conf
    BY <2>2, SiteHooks DEF AInv, ATypeOK, HooksKnown, HooksOf
  <2> QED
    BY <1>2, <1>5, <2>1, <2>3, MadeByDisarm
<1> QED
  BY <1>1, <1>2, <1>3, <1>4, <1>5

\* disarm goes on, its step done.
LEMMA DisarmGoesOn ==
  ASSUME AInv, cmd = "disarm", at \in 1..5,
         at' = at + 1, UNCHANGED <<cmd, snap, errs, res, torn, site, local, take, sd, stale, cuts, faults>>,
         DOMAIN disk' = Files,
         \A f \in Files : disk'[f] = IF f = Step THEN Made("disarm", f) ELSE disk[f],
         image' \in {NoHook, Unbootable} \cup [Baked -> Versions],
         Step = "mkinitcpio" => Current'
  PROVE  AInv'
<1>1. Behind' = Behind \cup {Step} /\ Step # "bak"
  <2>1. at \in 1..6 /\ at # 6
    OBVIOUS
  <2> QED
    BY <2>1, BehindGrows, DisarmOrder
<1>2. ATypeOK'
  <2>1. \A f \in Files \ {"conf"} : disk'[f] \in Contents(f)
    BY MadeType DEF AInv, ATypeOK
  <2>2. Len(Plan(cmd')) = 6
    BY Lengths
  <2>3. at' \in 1..6
    OBVIOUS
  <2>4. at' \in 1..Len(Plan(cmd'))
    BY <2>2, <2>3, Zenon
  <2> QED
    BY <2>1, <2>4 DEF AInv, ATypeOK
<1>3. HooksKnown'
  BY FileNames, MadeByDisarm DEF AInv, HooksKnown, HooksOf
<1>4. \A f \in Files : disk'[f] = IF f \in Behind' THEN Made("disarm", f) ELSE snap[f]
  BY <1>1 DEF AInv, HalfWay, Forward
<1>5. disk'["pam"] = "stock"
  <2>1. "pam" \in Behind'
    <3>1. CASE at = 1
      BY <1>1, <3>1, DisarmOrder
    <3>2. CASE at # 1
      <4>1. at > 1 /\ at \in 1..6
        BY <3>2
      <4> QED
        BY <1>1, <4>1, DisarmOrder
    <3> QED
      BY <3>1, <3>2
  <2> QED
    BY <1>4, <2>1, FileNames, MadeByDisarm
<1>6. "mkinitcpio" \in Behind' => Current'
  <2>1. "mkinitcpio" \notin Behind
    BY <1>1, DisarmOrder
  <2> QED
    BY <1>1, <2>1
<1>7. \A f \in Files : Made("disarm", f)' = Made("disarm", f)
  BY DEF Made
<1>8. Prompting' /\ Begun' /\ BackupBehindArmedPam'
  BY <1>5 DEF AInv, Prompting, Begun, BackupBehindArmedPam
<1>9. HalfWay'
  BY <1>4, <1>6, <1>7 DEF HalfWay, Forward
<1>10. RolledBack' /\ Reported' /\ Faultless'
  BY DEF AInv, RolledBack, Reported, Faultless, Back, Prompting
<1>11. LiveIsArmed'
  BY <1>5 DEF AInv, LiveIsArmed, Unrolled, ArmedDisk, ArmedFiles
<1>12. Whole'
  BY DEF AInv, Whole, ArmedDisk, ArmedFiles, StockDisk
<1>13. Mirrored'
  <2>1. Baked \cap Behind' = {} /\ \A f \in Baked : disk'[f] = snap[f]
    <3>1. Baked \cap Behind' = {}
      <4>1. at \in 1..6
        OBVIOUS
      <4> QED
        BY <1>1, <4>1, DisarmOrder, FileNames DEF Baked, Markers
    <3> QED
      BY <1>4, <3>1, FileNames
  <2>2. Present("ARMED")' => snap["ARMED"] # Absent
    BY <1>4, FileNames, MadeByDisarm DEF Present
  <2> QED
    BY <2>1, <2>2 DEF AInv, Mirrored, Unrolled
<1> QED
  BY <1>2, <1>3, <1>8, <1>9, <1>10, <1>11, <1>12, <1>13 DEF AInv

\* The end of disarm, its backup gone or left.
LEMMA DisarmEnds ==
  ASSUME AInv, cmd = "disarm", at \in 1..6, Step = "bak",
         cmd' = "none", at' = 0, res' \in {"disarmed", "failed"},
         UNCHANGED <<snap, errs, torn, image, site, local, take, sd, stale, cuts>>,
         DOMAIN disk' = Files, disk'["bak"] \in {"stock", Absent},
         \A f \in Files \ {"bak"} : disk'[f] = disk[f],
         faults' \in 0..MaxFaults, faults' = 0 => faults = 0 /\ res' = "disarmed"
  PROVE  AInv'
<1>1. "mkinitcpio" \in Behind /\ Markers \cup {"pam", "conf"} \subseteq Behind
  BY DisarmOrder
<1>2. StockDisk(disk)'
  <2>1. disk["pam"] = "stock" /\ disk["conf"] = site.conf /\ \A m \in Markers : disk[m] = Absent
    BY <1>1, FileNames, MadeByDisarm DEF AInv, HalfWay, Forward
  <2> QED
    BY <2>1, FileNames DEF StockDisk
<1>3. Current'
  <2>1. Current
    BY <1>1 DEF AInv, HalfWay, Forward
  <2> QED
    BY <2>1, CurrentStays, FileNames
<1>4. ATypeOK'
  <2>1. \A f \in Files \ {"conf"} : disk'[f] \in Contents(f)
    BY ContentsOf DEF AInv, ATypeOK
  <2> QED
    BY <2>1 DEF AInv, ATypeOK, Results
<1>5. HooksKnown' /\ BackupBehindArmedPam' /\ Begun' /\ Prompting'
  BY <1>2, FileNames DEF AInv, HooksKnown, HooksOf, BackupBehindArmedPam, Begun, StockDisk, Prompting
<1>6. HalfWay' /\ RolledBack' /\ Reported'
  BY <1>2, <1>3 DEF HalfWay, RolledBack, Reported, Forward, Back
<1>7. LiveIsArmed' /\ Mirrored' /\ Whole'
  BY <1>2, <1>3, FileNames DEF LiveIsArmed, Mirrored, Whole, StockDisk, Present
<1>8. Faultless'
  BY DEF AInv, Faultless
<1> QED
  BY <1>4, <1>5, <1>6, <1>7, <1>8 DEF AInv

LEMMA WriteDisarm == ASSUME AInv, cmd = "disarm", Write PROVE AInv'
<1>1. Step # "mkinitcpio" /\ ~EditRefused(cmd, Step) /\ disk' = Written(cmd, Step) /\ Proceed
      /\ UNCHANGED <<image, site, local, take, sd, stale, cuts, faults>>
  BY DEF Write, enrol
<1>2. Len(Plan(cmd)) = 6
  BY Lengths
<1>3. at \in 1..6 /\ faults \in 0..MaxFaults /\ DOMAIN disk = Files
      /\ image \in {NoHook, Unbootable} \cup [Baked -> Versions]
  BY <1>2 DEF AInv, ATypeOK
<1>4. DOMAIN disk' = Files /\ (\A f \in Files \ {Step} : disk'[f] = disk[f])
      /\ (Step # "bak" => disk'[Step] = Made("disarm", Step))
  BY <1>1, <1>3, DisarmWrites
<1>5. CASE at # 6
  <2>1. at \in 1..5 /\ at < 6 /\ at \in Nat
    BY <1>3, <1>5
  <2>2. at' = at + 1 /\ UNCHANGED <<cmd, snap, errs, res, torn>>
    BY <1>1, <1>2, <2>1, NextStep
  <2>3. Step # "bak"
    BY <1>3, <1>5, DisarmOrder
  <2>4. \A f \in Files : disk'[f] = IF f = Step THEN Made("disarm", f) ELSE disk[f]
    BY <1>4, <2>3
  <2> QED
    BY <1>1, <1>3, <1>4, <2>1, <2>2, <2>4, DisarmGoesOn
<1>6. CASE at = 6
  <2>1. Outcome = "disarmed"
    BY DEF Outcome, Back
  <2>2. cmd' = "none" /\ at' = 0 /\ res' = "disarmed" /\ UNCHANGED <<torn, snap, errs>>
    BY <1>1, <1>2, <1>6, <2>1, LastStep DEF Leave
  <2>3. Step = "bak"
    BY <1>3, <1>6, DisarmOrder
  <2>4. disk'["bak"] \in {"stock", Absent}
    <3>1. disk'["bak"] = IF Skipped(cmd, Step) THEN disk["bak"] ELSE Value(cmd, Step)
      BY <1>1, <1>3, <2>3, WrittenIs, FileNames
    <3>2. Value(cmd, Step) = Absent
      BY <2>3 DEF Value
    <3>3. disk["bak"] \in {"stock", Absent}
      BY ContentsOf, FileNames DEF AInv, ATypeOK
    <3> QED
      BY <3>1, <3>2, <3>3
  <2> QED
    BY <1>1, <1>3, <1>4, <2>2, <2>3, <2>4, DisarmEnds
<1> QED
  BY <1>5, <1>6

LEMMA RebuildDisarm == ASSUME AInv, cmd = "disarm", Rebuild PROVE AInv'
<1>1. Step = "mkinitcpio" /\ BuildSucceeds /\ image' = Built /\ Proceed
      /\ UNCHANGED <<disk, site, local, take, sd, stale, cuts, faults>>
  BY DEF Rebuild, enrol
<1>2. Len(Plan(cmd)) = 6
  BY Lengths
<1>3. at \in 1..6 /\ DOMAIN disk = Files
  BY <1>2 DEF AInv, ATypeOK
<1>4. at # 6
  BY <1>1, <1>3, DisarmOrder
<1>5. at \in 1..5 /\ at < 6 /\ at \in Nat
  BY <1>3, <1>4
<1>6. at' = at + 1 /\ UNCHANGED <<cmd, snap, errs, res, torn>>
  BY <1>1, <1>2, <1>5, NextStep
<1>7. Current' /\ image' \in {NoHook, Unbootable} \cup [Baked -> Versions]
  BY <1>1, CurrentBuilt, BuiltType DEF AInv
<1>8. DOMAIN disk' = Files
      /\ \A f \in Files : disk'[f] = IF f = Step THEN Made("disarm", f) ELSE disk[f]
  BY <1>1, <1>3, FileNames
<1> QED
  BY <1>1, <1>5, <1>6, <1>7, <1>8, DisarmGoesOn

\* A failed step of disarm starts the rollback, whatever it has done.
LEMMA FailDisarm ==
  ASSUME AInv, cmd = "disarm", at \in 1..6, Step # "bak", Fails,
         UNCHANGED <<site, local, take, sd, stale, cuts>>,
         DOMAIN disk' = Files,
         \A f \in Files : disk'[f] = disk[f] \/ (f = Step /\ disk'[f] = Made("disarm", f)),
         image' \in {NoHook, Unbootable} \cup [Baked -> Versions],
         faults' \in 0..MaxFaults, ~(faults' = 0 /\ cuts = 0)
  PROVE  AInv'
<1>1. cmd' = "disarmBack" /\ at' = 1 /\ UNCHANGED <<snap, errs, res, torn>>
  BY DEF Fails, Forward, Back
<1>2. Behind' = {}
  BY <1>1, BehindStart
<1>3. ATypeOK'
  <2>1. \A f \in Files \ {"conf"} : disk'[f] \in Contents(f)
    BY MadeType DEF AInv, ATypeOK
  <2>2. Len(Plan(cmd')) = 5
    BY <1>1, Lengths
  <2>3. 1 \in 1..5
    OBVIOUS
  <2>4. at' \in 1..Len(Plan(cmd'))
    BY <1>1, <2>2, <2>3, Zenon
  <2> QED
    BY <1>1, <2>1, <2>4 DEF AInv, ATypeOK, Back
<1>4. HooksKnown'
  BY <1>1, FileNames, MadeByDisarm DEF AInv, HooksKnown, HooksOf
<1>5. BackupBehindArmedPam'
  BY FileNames, MadeByDisarm DEF AInv, BackupBehindArmedPam, Present
<1>6. RolledBack'
  <2>1. \A f \in Files : disk'[f] = snap[f] \/ disk'[f] = Made("disarm", f)
    BY DEF AInv, HalfWay, Forward
  <2>2. \A f \in Files : Made("disarm", f)' = Made("disarm", f)
    BY <1>1 DEF Made
  <2> QED
    BY <1>1, <1>2, <2>1, <2>2 DEF RolledBack, Back
<1>7. Prompting' /\ Begun' /\ HalfWay' /\ Reported'
  BY <1>1 DEF AInv, Prompting, Begun, HalfWay, Reported, Forward
<1>8. LiveIsArmed' /\ Whole'
  BY <1>1 DEF AInv, LiveIsArmed, Whole, Unrolled, Back, Forward, ArmedDisk, ArmedFiles, StockDisk
<1>9. Mirrored' /\ Faultless'
  BY <1>1 DEF AInv, Mirrored, Unrolled, Back, Faultless
<1> QED
  BY <1>3, <1>4, <1>5, <1>6, <1>7, <1>8, <1>9 DEF AInv

LEMMA WriteFailsDisarm == ASSUME AInv, cmd = "disarm", WriteFails PROVE AInv'
<1>1. Step # "mkinitcpio" /\ Fails /\ UNCHANGED <<image, site, local, take, sd, stale, cuts>>
  BY DEF WriteFails, enrol
<1>2. Len(Plan(cmd)) = 6
  BY Lengths
<1>3. at \in 1..6 /\ faults \in 0..MaxFaults /\ DOMAIN disk = Files
      /\ image \in {NoHook, Unbootable} \cup [Baked -> Versions]
  BY <1>2 DEF AInv, ATypeOK
<1>4. CASE EditRefused(cmd, Step) /\ UNCHANGED <<disk, faults>>
  <2>1. Step = "conf" /\ ~TokenStandsAlone(disk["conf"])
    BY <1>4, RemovalBails DEF EditRefused
  <2>2. ~(faults = 0 /\ cuts = 0)
    <3> SUFFICES ASSUME faults = 0, cuts = 0 PROVE FALSE
      OBVIOUS
    <3>1. disk["conf"] = snap["conf"]
      BY <1>3, <2>1, DisarmOrder, FileNames DEF AInv, HalfWay, Forward
    <3>2. ArmedDisk(snap) \/ StockDisk(snap)
      BY DEF AInv, Faultless, Whole
    <3> QED
      BY <2>1, <3>1, <3>2, SiteHooks DEF ArmedDisk, StockDisk, AInv, ATypeOK
  <2> QED
    BY <1>1, <1>3, <1>4, <2>1, <2>2, FailDisarm
<1>5. CASE ~EditRefused(cmd, Step) /\ faults < MaxFaults /\ faults' = faults + 1
           /\ disk' \in {disk, Written(cmd, Step)}
  <2>1. faults' \in 0..MaxFaults /\ faults' # 0
    BY <1>3, <1>5, ArmAssumption
  <2>2. DOMAIN disk' = Files /\ (\A f \in Files \ {Step} : disk'[f] = disk[f])
        /\ (Step # "bak" => disk'[Step] = disk[Step] \/ disk'[Step] = Made("disarm", Step))
    <3>1. CASE disk' = disk
      BY <1>3, <3>1
    <3>2. CASE disk' = Written(cmd, Step)
      BY <1>1, <1>3, <1>5, <3>2, DisarmWrites
    <3> QED
      BY <1>5, <3>1, <3>2
  <2>3. CASE Step # "bak"
    <3>1. \A f \in Files : disk'[f] = disk[f] \/ (f = Step /\ disk'[f] = Made("disarm", f))
      BY <2>2, <2>3
    <3> QED
      BY <1>1, <1>3, <2>1, <2>2, <2>3, <3>1, FailDisarm
  <2>4. CASE Step = "bak"
    <3>1. cmd' = "none" /\ at' = 0 /\ res' = "failed" /\ UNCHANGED <<snap, errs, torn>>
      BY <1>1, <2>4 DEF Fails, Leave, Forward, Back
    <3>2. disk["bak"] \in {"stock", Absent}
      BY ContentsOf, FileNames DEF AInv, ATypeOK
    <3>3. disk'["bak"] \in {"stock", Absent}
      <4>1. CASE disk' = disk
        BY <3>2, <4>1
      <4>2. CASE disk' = Written(cmd, Step)
        <5>1. disk'["bak"] = IF Skipped(cmd, Step) THEN disk["bak"] ELSE Value(cmd, Step)
          BY <1>3, <2>4, <4>2, WrittenIs, FileNames
        <5>2. Value(cmd, Step) = Absent
          BY <2>4 DEF Value
        <5> QED
          BY <3>2, <5>1, <5>2
      <4> QED
        BY <1>5, <4>1, <4>2
    <3> QED
      BY <1>1, <1>3, <2>1, <2>2, <2>4, <3>1, <3>3, DisarmEnds
  <2> QED
    BY <2>3, <2>4
<1> QED
  BY <1>4, <1>5 DEF WriteFails

LEMMA RebuildFailsDisarm == ASSUME AInv, cmd = "disarm", RebuildFails PROVE AInv'
<1>1. Step = "mkinitcpio" /\ Fails /\ UNCHANGED <<disk, site, local, take, sd, stale, cuts>>
  BY DEF RebuildFails, enrol
<1>2. Len(Plan(cmd)) = 6
  BY Lengths
<1>3. at \in 1..6 /\ faults \in 0..MaxFaults /\ DOMAIN disk' = Files
      /\ image' \in {NoHook, Unbootable} \cup [Baked -> Versions]
  BY <1>1, <1>2, FailedImageType DEF AInv, ATypeOK, RebuildFails
<1>4. faults' \in 0..MaxFaults /\ ~(faults' = 0 /\ cuts = 0)
  <2>1. disk["conf"] = site.conf
    BY <1>1, <1>3, DisarmOrder, FileNames, MadeByDisarm DEF AInv, HalfWay, Forward
  <2>2. BuildSucceeds
    BY <2>1, SiteHooks DEF BuildSucceeds, Hooked, AInv, ATypeOK
  <2>3. faults < MaxFaults /\ faults' = faults + 1
    BY <2>2 DEF RebuildFails
  <2> QED
    BY <1>3, <2>3, ArmAssumption
<1> QED
  BY <1>1, <1>3, <1>4, FailDisarm

\* A rollback step of disarm brings back what disarm has found; what was not
\* there disarm has not changed.
LEMMA DisarmBackWrites ==
  ASSUME AInv, cmd = "disarmBack", at \in 1..5, Step # "mkinitcpio", disk' = Written(cmd, Step)
  PROVE  /\ DOMAIN disk' = Files
         /\ \A f \in Files : disk'[f] = IF f = Step THEN snap[f] ELSE disk[f]
<1>1. Step \in Files /\ Step \in Markers \cup {"pam", "conf"}
  BY DisarmBackOrder, FileNames
<1>2. DOMAIN disk' = Files /\ (\A f \in Files \ {Step} : disk'[f] = disk[f])
      /\ disk'[Step] = IF Skipped(cmd, Step) THEN disk[Step] ELSE Value(cmd, Step)
  BY <1>1, WrittenIs DEF AInv, ATypeOK
<1>3. Value(cmd, Step) = snap[Step]
  BY DEF Value
<1>4. ASSUME Skipped(cmd, Step) PROVE disk[Step] = snap[Step]
  <2>1. disk[Step] = snap[Step] \/ disk[Step] = Made("disarm", Step)
    BY <1>1 DEF AInv, RolledBack
  <2>2. (Step = "pam" /\ snap["pam"] = "stock") \/ (Step \in Markers /\ snap[Step] = Absent)
    BY <1>1, <1>4, FileNames DEF Skipped
  <2> QED
    BY <2>1, <2>2, MadeByDisarm
<1> QED
  BY <1>1, <1>2, <1>3, <1>4

LEMMA DisarmBackGoesOn ==
  ASSUME AInv, cmd = "disarmBack", at \in 1..4, Step # "mkinitcpio",
         at' = at + 1, UNCHANGED <<image, cmd, snap, res, torn, site, local, take, sd, stale, cuts>>,
         DOMAIN disk' = Files,
         \A f \in Files : disk'[f] = disk[f] \/ (f = Step /\ disk'[f] = snap[f]),
         errs' \in BOOLEAN, ~errs' => ~errs /\ disk'[Step] = snap[Step],
         faults' \in 0..MaxFaults, faults' = 0 => faults = 0
  PROVE  AInv'
<1>1. Step \in Files \ {"bak"}
  <2>1. at \in 1..5
    OBVIOUS
  <2> QED
    BY <2>1, DisarmBackOrder, FileNames
<1>2. Behind' = Behind \cup {Step}
  BY BehindGrows
<1>3. ATypeOK'
  <2>1. \A f \in Files \ {"conf"} : disk'[f] \in Contents(f)
    BY DEF AInv, ATypeOK
  <2>2. Len(Plan(cmd')) = 5
    BY Lengths
  <2>3. at' \in 1..5
    OBVIOUS
  <2>4. at' \in 1..Len(Plan(cmd'))
    BY <2>2, <2>3, Zenon
  <2> QED
    BY <2>1, <2>4 DEF AInv, ATypeOK
<1>4. HooksKnown'
  BY FileNames DEF AInv, HooksKnown, HooksOf
<1>5. \A f \in Files : disk'[f] = snap[f] \/ disk'[f] = Made("disarm", f)
  BY DEF AInv, RolledBack
<1>6. BackupBehindArmedPam'
  <2> SUFFICES ASSUME disk'["pam"] = "armed" PROVE disk'["bak"] # Absent
    BY DEF BackupBehindArmedPam, Present
  <2>1. snap["pam"] = "armed"
    BY <1>5, FileNames, MadeByDisarm
  <2>2. disk'["bak"] = snap["bak"]
    BY <1>5, FileNames, MadeByDisarm
  <2> QED
    BY <2>1, <2>2, ArmAssumption DEF AInv, Begun
<1>7. Prompting' /\ Begun' /\ HalfWay' /\ Reported'
  BY DEF AInv, Prompting, Begun, HalfWay, Reported, Forward
<1>8. RolledBack'
  <2>1. ASSUME ~errs' PROVE \A f \in Behind' \ {"mkinitcpio"} : disk'[f] = snap[f]
    <3>1. \A f \in Behind \ {"mkinitcpio"} : disk[f] = snap[f] /\ (f \in Files => disk'[f] = snap[f])
      BY <2>1 DEF AInv, RolledBack, Back
    <3>2. Behind \subseteq Files \cup {"mkinitcpio"}
      <4>1. \A i \in 1..(at - 1) : DisarmBackPlan[i] \in Files \cup {"mkinitcpio"}
        BY DEF DisarmBackPlan, Files, Markers
      <4> QED
        BY <4>1, Plans DEF Behind
    <3> QED
      BY <1>2, <2>1, <3>1, <3>2
  <2>2. \A f \in Files : Made("disarm", f)' = Made("disarm", f)
    BY DEF Made
  <2> QED
    BY <1>5, <2>1, <2>2 DEF RolledBack, Back
<1>9. LiveIsArmed' /\ Whole'
  BY DEF AInv, LiveIsArmed, Whole, Unrolled, Back, Forward, ArmedDisk, ArmedFiles, StockDisk
<1>10. Mirrored' /\ Faultless'
  BY DEF AInv, Mirrored, Unrolled, Back, Faultless
<1> QED
  BY <1>3, <1>4, <1>6, <1>7, <1>8, <1>9, <1>10 DEF AInv

LEMMA WriteDisarmBack == ASSUME AInv, cmd = "disarmBack", Write PROVE AInv'
<1>1. Step # "mkinitcpio" /\ disk' = Written(cmd, Step) /\ Proceed
      /\ UNCHANGED <<image, site, local, take, sd, stale, cuts, faults>>
  BY DEF Write, enrol
<1>2. Len(Plan(cmd)) = 5
  BY Lengths
<1>3. at \in 1..5 /\ errs \in BOOLEAN /\ faults \in 0..MaxFaults
  BY <1>2 DEF AInv, ATypeOK
<1>4. at # 5
  BY <1>1, <1>3, DisarmBackOrder
<1>5. at \in 1..4 /\ at < 5 /\ at \in Nat
  BY <1>3, <1>4
<1>6. at' = at + 1 /\ UNCHANGED <<cmd, snap, errs, res, torn>>
  BY <1>1, <1>2, <1>5, NextStep
<1>7. DOMAIN disk' = Files /\ \A f \in Files : disk'[f] = IF f = Step THEN snap[f] ELSE disk[f]
  BY <1>1, <1>3, DisarmBackWrites
<1>8. Step \in Files
  BY <1>1, <1>3, DisarmBackOrder, FileNames
<1> QED
  BY <1>1, <1>3, <1>5, <1>6, <1>7, <1>8, DisarmBackGoesOn

LEMMA RebuildDisarmBack == ASSUME AInv, cmd = "disarmBack", Rebuild PROVE AInv'
<1>1. Step = "mkinitcpio" /\ BuildSucceeds /\ image' = Built /\ Proceed
      /\ UNCHANGED <<disk, site, local, take, sd, stale, cuts, faults>>
  BY DEF Rebuild, enrol
<1>2. Len(Plan(cmd)) = 5
  BY Lengths
<1>3. at \in 1..5
  BY <1>2 DEF AInv, ATypeOK
<1>4. at = 5 /\ Behind = Markers \cup {"pam", "conf"}
  BY <1>1, <1>3, DisarmBackOrder
<1>5. Leave(Outcome) /\ torn' = IF Outcome = "incomplete" THEN torn \cup {cmd} ELSE torn
  BY <1>1, <1>2, <1>4, LastStep
<1>6. image' \in {NoHook, Unbootable} \cup [Baked -> Versions]
  BY <1>1, BuiltType DEF AInv
<1>7. ~(faults = 0 /\ cuts = 0)
  BY DEF AInv, Faultless
<1>8. CASE errs
  <2>1. Outcome = "incomplete"
    BY <1>8 DEF Outcome, Back
  <2> QED
    BY <1>1, <1>5, <1>6, <1>7, <2>1, BackEndsTorn DEF Leave, AInv, ATypeOK, Back
<1>9. CASE ~errs
  <2>1. Outcome = "restored"
    BY <1>9 DEF Outcome, Back
  <2>2. cmd' = "none" /\ at' = 0 /\ res' = "restored" /\ UNCHANGED <<snap, errs, torn>>
    BY <1>5, <2>1 DEF Leave
  <2>3. \A f \in Files : disk[f] = snap[f]
    <3>1. \A f \in Markers \cup {"pam", "conf"} : disk[f] = snap[f]
      BY <1>4, <1>9, FileNames DEF AInv, RolledBack, Back
    <3>2. \A f \in Baked \cup {"counter", "bak"} : disk[f] = snap[f]
      BY FileNames, MadeByDisarm DEF AInv, RolledBack
    <3> QED
      BY <3>1, <3>2, FileNames
  <2>4. Current'
    BY <1>1, CurrentBuilt
  <2>5. (ArmedDisk(snap) => ArmedDisk(disk)') /\ (StockDisk(snap) => StockDisk(disk)')
    BY <1>1, <2>3, FileNames DEF ArmedDisk, ArmedFiles, StockDisk
  <2>6. ATypeOK'
    BY <1>1, <1>6, <2>2 DEF AInv, ATypeOK, Results
  <2>7. HooksKnown' /\ BackupBehindArmedPam' /\ Begun' /\ Prompting'
    BY <1>1, <2>2
    DEF AInv, HooksKnown, HooksOf, BackupBehindArmedPam, Present, Begun, Prompting
  <2>8. HalfWay' /\ RolledBack' /\ Reported'
    BY <1>1, <2>2, <2>3, <2>4 DEF HalfWay, RolledBack, Reported, Forward, Back
  <2>9. LiveIsArmed' /\ Whole'
    BY <1>1, <2>2, <2>3, <2>4, <2>5, FileNames DEF AInv, LiveIsArmed, Whole, Unrolled
  <2>10. Mirrored'
    BY <1>1, <2>2, <2>3, FileNames DEF AInv, Mirrored, Unrolled, Present
  <2>11. Faultless'
    BY <1>1, <1>7 DEF Faultless
  <2> QED
    BY <2>6, <2>7, <2>8, <2>9, <2>10, <2>11 DEF AInv
<1> QED
  BY <1>8, <1>9

LEMMA WriteFailsDisarmBack == ASSUME AInv, cmd = "disarmBack", WriteFails PROVE AInv'
<1>1. Step # "mkinitcpio" /\ Fails /\ UNCHANGED <<image, site, local, take, sd, stale, cuts>>
  BY DEF WriteFails, enrol
<1>2. ~EditRefused(cmd, Step)
  BY DEF EditRefused
<1>3. faults < MaxFaults /\ faults' = faults + 1 /\ disk' \in {disk, Written(cmd, Step)}
  BY <1>2 DEF WriteFails
<1>4. Len(Plan(cmd)) = 5
  BY Lengths
<1>5. at \in 1..5 /\ faults \in 0..MaxFaults /\ DOMAIN disk = Files
  BY <1>4 DEF AInv, ATypeOK
<1>6. at # 5
  BY <1>1, <1>5, DisarmBackOrder
<1>7. at \in 1..4 /\ at < Len(Plan(cmd))
  <2>1. at \in 1..4 /\ at < 5
    BY <1>5, <1>6
  <2> QED
    BY <1>4, <2>1, Zenon
<1>8. at' = at + 1 /\ UNCHANGED <<cmd, res, torn, snap>> /\ errs' = TRUE
  BY <1>1, <1>7 DEF Fails, Forward
<1>9. errs' \in BOOLEAN
  BY <1>8, Zenon
<1>10. faults' \in 0..MaxFaults /\ faults' # 0
  BY <1>3, <1>5, ArmAssumption
<1>11. DOMAIN disk' = Files
       /\ \A f \in Files : disk'[f] = disk[f] \/ (f = Step /\ disk'[f] = snap[f])
  <2>1. CASE disk' = disk
    BY <1>5, <2>1
  <2>2. CASE disk' = Written(cmd, Step)
    BY <1>1, <1>5, <2>2, DisarmBackWrites
  <2> QED
    BY <1>3, <2>1, <2>2
<1> QED
  BY <1>1, <1>7, <1>8, <1>9, <1>10, <1>11, DisarmBackGoesOn

LEMMA RebuildFailsDisarmBack == ASSUME AInv, cmd = "disarmBack", RebuildFails PROVE AInv'
<1>1. Step = "mkinitcpio" /\ Fails /\ UNCHANGED <<disk, site, local, take, sd, stale, cuts>>
  BY DEF RebuildFails, enrol
<1>2. Len(Plan(cmd)) = 5
  BY Lengths
<1>3. at \in 1..5 /\ faults \in 0..MaxFaults
  BY <1>2 DEF AInv, ATypeOK
<1>4. at = 5
  BY <1>1, <1>3, DisarmBackOrder
<1>5. ~(at < Len(Plan(cmd)))
  <2>1. ~(5 < 5)
    OBVIOUS
  <2> QED
    BY <1>2, <1>4, <2>1, Zenon
<1>6. cmd' = "none" /\ at' = 0 /\ res' = "incomplete" /\ torn' = torn \cup {cmd}
      /\ snap' = snap /\ errs' = TRUE
  BY <1>1, <1>5 DEF Fails, Forward
<1>7. errs' \in BOOLEAN
  BY <1>6, Zenon
<1>8. image' \in {NoHook, Unbootable} \cup [Baked -> Versions]
  BY FailedImageType DEF AInv, RebuildFails
<1>9. faults' \in 0..MaxFaults /\ ~(faults' = 0 /\ cuts = 0)
  <2>1. ~(faults = 0 /\ cuts = 0)
    BY DEF AInv, Faultless
  <2> QED
    BY <1>3, <2>1, ArmAssumption DEF RebuildFails
<1> QED
  BY <1>1, <1>6, <1>7, <1>8, <1>9, BackEndsTorn DEF Back

-----------------------------------------------------------------------------
(***************************************************************************)
(* The theorems                                                            *)
(***************************************************************************)

LEMMA NextAInv == AInv /\ [Next]_vars => AInv'
<1> SUFFICES ASSUME AInv, [Next]_vars PROVE AInv'
  OBVIOUS
<1>1. cmd \in {"none", "arm", "armBack", "disarm", "disarmBack"}
  BY DEF AInv, ATypeOK, Forward, Back
<1>2. CASE Write
  BY <1>1, <1>2, WriteArm, WriteArmBack, WriteDisarm, WriteDisarmBack DEF Write
<1>3. CASE Rebuild
  BY <1>1, <1>3, RebuildArm, RebuildArmBack, RebuildDisarm, RebuildDisarmBack DEF Rebuild
<1>4. CASE WriteFails
  BY <1>1, <1>4, WriteFailsArm, WriteFailsArmBack, WriteFailsDisarm, WriteFailsDisarmBack DEF WriteFails
<1>5. CASE RebuildFails
  BY <1>1, <1>5, RebuildFailsArm, RebuildFailsArmBack, RebuildFailsDisarm, RebuildFailsDisarmBack
  DEF RebuildFails
<1>6. CASE UNCHANGED vars
  <2>1. UNCHANGED <<disk, image, site, local, take, sd, stale, cmd, at, snap, errs, res, torn, cuts, faults>>
    BY <1>6 DEF vars, enrol
  <2>2. ATypeOK' /\ HooksKnown' /\ Prompting' /\ Begun' /\ BackupBehindArmedPam'
    BY <2>1 DEF AInv, ATypeOK, HooksKnown, HooksOf, Prompting, Begun, BackupBehindArmedPam, Present
  <2>3. /\ Current' <=> Current
        /\ ArmedDisk(disk)' <=> ArmedDisk(disk)
        /\ ArmedDisk(snap)' <=> ArmedDisk(snap)
        /\ StockDisk(disk)' <=> StockDisk(disk)
        /\ StockDisk(snap)' <=> StockDisk(snap)
    BY <2>1 DEF Current, BuildSucceeds, Hooked, Built, ArmedDisk, ArmedFiles, StockDisk
  <2>4. Behind' = Behind /\ \A c, f : Made(c, f)' = Made(c, f)
    BY <2>1 DEF Behind, Made
  <2>5. HalfWay'
    BY <2>1, <2>3, <2>4 DEF AInv, HalfWay
  <2>6. RolledBack'
    BY <2>1, <2>4 DEF AInv, RolledBack
  <2>7. Reported'
    BY <2>1, <2>3 DEF AInv, Reported
  <2>8. LiveIsArmed' /\ Whole'
    BY <2>1, <2>3 DEF AInv, LiveIsArmed, Whole, Unrolled
  <2>9. Mirrored' /\ Faultless'
    BY <2>1 DEF AInv, Mirrored, Faultless, Unrolled, Present
  <2> QED
    BY <2>2, <2>5, <2>6, <2>7, <2>8, <2>9 DEF AInv
<1> QED
  BY <1>2, <1>3, <1>4, <1>5, <1>6, ArmStep, DisarmStep, SetDuressStep, UpgradeStep, BootCountsStep,
     PowerCutStep DEF Next

\* AInv holds throughout: whatever fails, is cut off, upgraded or enrolled.
THEOREM ArmInvariant == Spec => []AInv
BY InitAInv, NextAInv, PTL DEF Spec

\* Every variable keeps its type, and a list is carried out to its end and no
\* further.
THEOREM ArmTypeCorrect == Spec => []ATypeOK
<1>1. AInv => ATypeOK
  BY DEF AInv
<1> QED
  BY <1>1, ArmInvariant, PTL

\* arm reports success for all of it, and a rollback for the disk it found, on
\* every site and with any number of failures, cuts and versions.
THEOREM ArmTransactional == Spec => []ArmIsTransactional
<1>1. AInv => ArmIsTransactional
  <2> SUFFICES ASSUME AInv PROVE ArmIsTransactional
    OBVIOUS
  <2>1. ASSUME res = "armed" PROVE FullyArmed /\ disk["counter"] = 0
    <3>1. Current /\ ArmedDisk(disk) /\ disk["counter"] = 0
      BY <2>1 DEF AInv, Reported
    <3>2. Boots = "armed"
      BY <3>1, ArmedBoots DEF AInv
    <3> QED
      BY <3>1, <3>2, FileNames DEF FullyArmed, Present, ArmedDisk, ArmedFiles
  <2>2. ASSUME res = "armRolledBack"
        PROVE  (\A f \in Files \ {"bak"} : disk[f] = snap[f]) /\ Boots = "stock"
    BY <2>2, StockBoots DEF AInv, Reported
  <2> QED
    BY <2>1, <2>2 DEF ArmIsTransactional
<1> QED
  BY <1>1, ArmInvariant, PTL

\* disarm reports success for the stock rules, the stock HOOKS, no marker and an
\* image that boots the stock prompt.
THEOREM DisarmCompletes == Spec => []DisarmIsComplete
<1>1. AInv => DisarmIsComplete
  BY StockBoots DEF AInv, Reported, DisarmIsComplete, StockDisk, Present
<1> QED
  BY <1>1, ArmInvariant, PTL

\* A failed disarm that reports the machine restored has left it armed, if its
\* files were an armed machine's.
THEOREM DisarmRollsBack == Spec => []DisarmRestores
<1>1. AInv => DisarmRestores
  <2> SUFFICES ASSUME AInv, res = "restored", ArmedFiles(snap) PROVE FullyArmed
    BY DEF DisarmRestores
  <2>1. Current /\ \A f \in Files : disk[f] = snap[f]
    BY DEF AInv, Reported
  <2>2. ArmedFiles(disk)
    BY <2>1, FileNames DEF ArmedFiles
  <2>3. ArmedDisk(disk)
    BY <2>1, <2>2, SiteHooks DEF ArmedDisk, ArmedFiles, Current, BuildSucceeds, Hooked, AInv, ATypeOK
  <2>4. Boots = "armed"
    BY <2>1, <2>3, ArmedBoots DEF AInv
  <2> QED
    BY <2>2, <2>4, FileNames DEF FullyArmed, Present, ArmedFiles
<1> QED
  BY <1>1, ArmInvariant, PTL

\* The backup that disarm needs stays until PAM is stock again.
THEOREM BackupKept == Spec => []BackupBehindArmedPam
<1>1. AInv => BackupBehindArmedPam
  BY DEF AInv
<1> QED
  BY <1>1, ArmInvariant, PTL

\* PAM is the last commit point of arm and the first one that disarm undoes.
THEOREM PamIsLast == Spec => []PamCommitsLast
<1>1. AInv => PamCommitsLast
  <2> SUFFICES ASSUME AInv, disk["pam"] = "armed", Back \cap (torn \cup {cmd}) = {}
               PROVE  Boots = "armed"
    BY DEF PamCommitsLast
  <2>1. Unrolled /\ cmd \notin Back
    BY DEF Unrolled
  <2> QED
    BY <2>1, ArmedBoots DEF AInv, LiveIsArmed
<1> QED
  BY <1>1, ArmInvariant, PTL

\* Only a cut or an incomplete rollback makes a machine that does not boot.
THEOREM UntornBoots == Spec => []BootsUnlessTorn
<1>1. AInv => BootsUnlessTorn
  BY ArmedBoots, StockBoots DEF AInv, Whole, BootsUnlessTorn
<1> QED
  BY <1>1, ArmInvariant, PTL

\* An armed machine asks for what is enrolled, unless a set-duress that
\* overlapped a command has written since.
THEOREM MirrorsAreEnrolled == Spec => []MirrorsEnrolled
<1>1. AInv => MirrorsEnrolled
  <2> SUFFICES ASSUME AInv, Present("ARMED"), ~stale, Back \cap (torn \cup {cmd}) = {}
               PROVE  \A f \in Baked : disk[f] = local
    BY DEF MirrorsEnrolled
  <2>1. Unrolled /\ cmd \notin Back
    BY DEF Unrolled
  <2> QED
    BY <2>1 DEF AInv, Mirrored
<1> QED
  BY <1>1, ArmInvariant, PTL

\* Without a failing call or a cut only the edit of HOOKS makes arm fail, and
\* nothing makes disarm fail.
THEOREM FailuresHaveCause == Spec => []FailsForCause
<1>1. AInv => FailsForCause
  BY DEF AInv, Faultless, FailsForCause, EditsCleanly
<1> QED
  BY <1>1, ArmInvariant, PTL
\* arm carries out its list only on auth rules that it supports.
ArmsSupported == site \in Sites /\ (cmd = "arm" => Supported(site.pam))

LEMMA InitSupported == Init => ArmsSupported
BY DEF Init, ArmsSupported

LEMMA NextSupported == ArmsSupported /\ [Next]_vars => ArmsSupported'
<1> SUFFICES ASSUME ArmsSupported, [Next]_vars PROVE ArmsSupported'
  OBVIOUS
<1>1. site' = site
  BY DEF Next, vars, Arm, Disarm, Begin, Report, SetDuress, SetDuressWrites, SetDuressEnds,
     Elsewhere, Write, Rebuild, WriteFails, RebuildFails, Upgrade, BootCounts, PowerCut
<1>2. ASSUME cmd' = "arm" PROVE cmd = "arm" \/ Supported(site.pam)
  <2>1. CASE Arm
    BY <2>1, <1>2 DEF Arm, Begin, Report
  <2>2. CASE Disarm
    BY <2>2, <1>2 DEF Disarm, Begin, Report
  <2>3. CASE Write \/ Rebuild
    BY <2>3, <1>2 DEF Write, Rebuild, Proceed, Leave
  <2>4. CASE WriteFails \/ RebuildFails
    BY <2>4, <1>2 DEF WriteFails, RebuildFails, Fails, Leave
  <2>5. CASE SetDuress \/ SetDuressWrites \/ SetDuressEnds
    BY <2>5, <1>2 DEF SetDuress, SetDuressWrites, SetDuressEnds, Elsewhere
  <2>6. CASE Upgrade \/ BootCounts \/ PowerCut
    BY <2>6, <1>2 DEF Upgrade, BootCounts, PowerCut
  <2>7. CASE UNCHANGED vars
    BY <2>7, <1>2 DEF vars
  <2> QED
    BY <2>1, <2>2, <2>3, <2>4, <2>5, <2>6, <2>7 DEF Next
<1> QED
  BY <1>1, <1>2 DEF ArmsSupported

\* The rules that arm writes route every login as the stock rules did, on every
\* plain layout of any length.
THEOREM ArmedRoutesKept == Spec => []ArmedRulesRoute
<1>1. ArmsSupported => ArmedRulesRoute
  <2> SUFFICES ASSUME ArmsSupported, cmd = "arm", PlainLayout(site.pam)
               PROVE  site \in KeptRoutes
    BY DEF ArmedRulesRoute
  <2>1. site \in Sites /\ Supported(site.pam) /\ site.pam \in Seq(Rules)
    BY SitesAssumption DEF ArmsSupported
  <2>2. RoutesKept(site.pam)
    BY <2>1, RoutesAreKept
  <2> QED
    BY <2>1, <2>2 DEF KeptRoutes
<1> QED
  BY <1>1, InitSupported, NextSupported, PTL DEF Spec
=============================================================================
