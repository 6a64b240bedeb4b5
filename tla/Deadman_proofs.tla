--------------------------- MODULE Deadman_proofs ---------------------------
(***************************************************************************)
(* Theorems about Deadman, for any windows, any width of a machine word,   *)
(* any enrollments and any order of commands, checks and power cuts.       *)
(***************************************************************************)
EXTENDS Deadman, Enrollment_proofs

\* The part of DTypeOK that the switch itself keeps.
SwitchTyped ==
  /\ now \in 0..MaxNow /\ seen \in 0..now
  /\ dm = None \/ dm \in [win : 0..(Words - 1), last : 0..now]
  /\ ci = None \/ ci \in [win : 0..(Words - 1), late : BOOLEAN]
  /\ ck = None \/ ck \in [dev : Devices, late : BOOLEAN]
  /\ asked = None \/ asked \in Nat
  /\ revived \in BOOLEAN

\* A check-in that nothing has overtaken holds the window of the file.
Fresh == ci # None /\ ~ci.late => dm # None /\ ci.win = dm.win

DInv == ETypeOK /\ SwitchTyped /\ Fresh /\ SwitchAsAsked /\ FiresWhenDue

-----------------------------------------------------------------------------
\* A remainder, and the remainder of what fits.
LEMMA Remainder ==
  ASSUME NEW n \in Nat \ {0}, NEW a \in Nat
  PROVE  a % n \in 0..(n - 1) /\ (a < n => a % n = a)
OBVIOUS

\* What a change of the file makes of a check-in or a check under way.
LEMMA OutdatedLate ==
  ASSUME NEW r, NEW S, NEW T,
         r = None \/ r \in [win : S, late : BOOLEAN] \/ r \in [dev : T, late : BOOLEAN]
  PROVE  /\ Outdated(r) # None => Outdated(r).late
         /\ r = None => Outdated(r) = None
         /\ r \in [win : S, late : BOOLEAN]
              => Outdated(r) = None \/ Outdated(r) \in [win : S, late : BOOLEAN]
         /\ r \in [dev : T, late : BOOLEAN]
              => Outdated(r) = None \/ Outdated(r) \in [dev : T, late : BOOLEAN]
BY DEF Outdated

\* A ds-erase that the timer starts leaves the records and the command typed.
LEMMA EraseKeepsTypes ==
  ASSUME ETypeOK, NEW d \in Devices, NEW pair, Erase(d, pair, "booted"), Stays \/ Down
  PROVE  ETypeOK'
<1>1. OpTyped /\ DiskTyped /\ BootTyped
  BY ETypeParts
<1>2. ETypeOK' <=> OpTyped' /\ DiskTyped' /\ BootTyped'
  BY DEF ETypeOK, OpTyped, DiskTyped, BootTyped, Dumped, Verified, Written
<1>3. OpTyped'
  <2>1. op' = None \/ (op # None /\ op' = [op EXCEPT !.lost = TRUE])
    BY Zenon DEF Stays, Down
  <2> QED
    BY <1>1, <2>1, LostOp DEF OpTyped, SameOp
<1>4. DiskTyped'
  <2>1. keys' = keys \/ SetKey(d, pair.daily, None)
    BY EraseSteps
  <2>2. breaks' = breaks \/ (breaks < MaxBreaks /\ breaks' = breaks + 1)
    BY EraseSteps
  <2>3. UNCHANGED <<records, commands, hands>>
    BY EraseSteps, Zenon
  <2> QED
    BY <1>1, <2>1, <2>2, <2>3, EnrollAssumption DEF DiskTyped, SetKey, Keys, records
<1>5. BootTyped'
  <2>1. UNCHANGED preboot
    BY EraseSteps, Zenon
  <2>2. sw' = sw \/ sw' = None
    BY Zenon DEF Stays, Down
  <2> QED
    BY <1>1, <2>1, <2>2 DEF BootTyped, preboot
<1> QED
  BY <1>2, <1>3, <1>4, <1>5

\* A step of the switch is none of the enrollment's, or the timer's ds-erase.
LEMMA SwitchSteps ==
  ASSUME DNext
  PROVE  \/ ENext
         \/ UNCHANGED evars
         \/ TimerFire /\ Erase(ck.dev, RecordedPair, "booted") /\ (Stays \/ Down)
BY Zenon DEF DNext, ENext, Halted, DeadmanSet, DeadmanOff, CheckinRead, CheckinWrite,
             TimerCheck, TimerFire, Tick

\* The enrollment beside the switch keeps its types.
LEMMA NextEnrollTyped ==
  ASSUME ETypeOK, SwitchTyped, [DNext]_dvars PROVE ETypeOK'
<1>1. CASE UNCHANGED evars
  BY <1>1, NextETypeOK
<1>2. CASE ENext
  BY <1>2, NextETypeOK
<1>3. CASE TimerFire /\ Erase(ck.dev, RecordedPair, "booted") /\ (Stays \/ Down)
  <2>1. ck.dev \in Devices
    BY <1>3 DEF TimerFire, SwitchTyped
  <2> QED
    BY <1>3, <2>1, EraseKeepsTypes
<1>4. UNCHANGED dvars => UNCHANGED evars
  BY DEF dvars
<1> QED
  BY <1>1, <1>2, <1>3, <1>4, SwitchSteps

-----------------------------------------------------------------------------
\* What the switch says after each of its steps.
LEMMA NextSwitch ==
  ASSUME ETypeOK, SwitchTyped, Fresh, SwitchAsAsked, FiresWhenDue, [DNext]_dvars
  PROVE  SwitchTyped' /\ Fresh' /\ SwitchAsAsked' /\ FiresWhenDue'
<1> DEFINE Goal == SwitchTyped' /\ Fresh' /\ SwitchAsAsked' /\ FiresWhenDue'
<1> USE DeadmanAssumption
<1>0. /\ now \in Nat /\ seen \in Nat /\ seen <= now /\ now <= MaxNow
      /\ asked = None \/ asked \in Nat
  BY DEF SwitchTyped
<1>a. /\ Outdated(ci) # None => Outdated(ci).late
      /\ Outdated(ci) = None \/ Outdated(ci) \in [win : 0..(Words - 1), late : BOOLEAN]
  BY OutdatedLate DEF SwitchTyped
<1>b. /\ Outdated(ck) # None => Outdated(ck).late
      /\ Outdated(ck) = None \/ Outdated(ck) \in [dev : Devices, late : BOOLEAN]
  BY OutdatedLate DEF SwitchTyped
<1>c. \A w \in Nat : w % Words \in 0..(Words - 1)
  BY Remainder, Zenon
<1>1. CASE UNCHANGED switch
  BY <1>1 DEF switch, SwitchTyped, Fresh, SwitchAsAsked, FiresWhenDue, Wraps
<1>2. ASSUME NEW h \in Hours, DeadmanSet(h) PROVE Goal
  <2>1. /\ dm' = [win |-> (h * Hour) % Words, last |-> now] /\ asked' = h * Hour
        /\ seen' = now /\ revived' = FALSE /\ now' = now
        /\ ci' = Outdated(ci) /\ ck' = Outdated(ck)
    BY <1>2 DEF DeadmanSet
  <2>2. h * Hour \in Nat
    BY <1>2
  <2>3. (h * Hour) % Words \in 0..(Words - 1)
    BY <1>c, <2>2, Zenon
  <2>4. SwitchTyped'
    <3>1. dm' \in [win : 0..(Words - 1), last : 0..now'] /\ asked' \in Nat
      BY <1>0, <2>1, <2>2, <2>3
    <3>2. now' = now /\ seen' = now /\ revived' \in BOOLEAN
      BY <2>1, Zenon
    <3> QED
      BY <1>0, <1>a, <1>b, <2>1, <3>1, <3>2 DEF SwitchTyped
  <2>5. SwitchAsAsked'
    <3>1. dm' \in [win : Nat, last : Nat]
      BY <1>0, <2>1, <2>3
    <3> QED
      BY <2>1, <2>2, <3>1 DEF SwitchAsAsked
  <2>6. Fresh' /\ FiresWhenDue'
    BY <1>a, <1>b, <2>1 DEF Fresh, FiresWhenDue
  <2> QED
    BY <2>4, <2>5, <2>6
<1>3. CASE DeadmanOff
  <2>1. /\ dm' = None /\ asked' = None /\ revived' = FALSE /\ now' = now /\ seen' = seen
        /\ ci' = Outdated(ci) /\ ck' = Outdated(ck)
    BY <1>3 DEF DeadmanOff
  <2>2. SwitchTyped'
    BY <1>0, <1>a, <1>b, <2>1 DEF SwitchTyped
  <2>3. Fresh' /\ FiresWhenDue' /\ SwitchAsAsked'
    BY <1>a, <1>b, <2>1 DEF Fresh, FiresWhenDue, SwitchAsAsked
  <2> QED
    BY <2>2, <2>3
<1>4. CASE CheckinRead
  <2>1. /\ dm # None /\ ci' = [win |-> dm.win, late |-> FALSE]
        /\ UNCHANGED <<now, dm, ck, asked, seen, revived>>
    BY <1>4 DEF CheckinRead
  <2>2. SwitchTyped'
    BY <2>1 DEF SwitchTyped
  <2>3. Fresh'
    BY <2>1 DEF Fresh
  <2>4. FiresWhenDue' /\ SwitchAsAsked'
    BY <2>1 DEF FiresWhenDue, SwitchAsAsked, Wraps
  <2> QED
    BY <2>2, <2>3, <2>4
<1>5. CASE CheckinWrite
  <2>1. /\ ci # None /\ dm' = [win |-> ci.win, last |-> now] /\ ci' = None
        /\ ck' = Outdated(ck) /\ seen' = now /\ now' = now /\ asked' = asked
    BY <1>5 DEF CheckinWrite
  <2>2. (revived' <=> revived \/ ci.late) /\ revived' \in BOOLEAN
    BY <1>5, Zenon DEF CheckinWrite
  <2>3. ci.win \in 0..(Words - 1)
    BY <2>1 DEF SwitchTyped
  <2>4. SwitchTyped'
    BY <1>0, <1>b, <2>1, <2>2, <2>3 DEF SwitchTyped
  <2>5. SwitchAsAsked'
    <3>1. dm' \in [win : Nat, last : Nat]
      BY <1>0, <2>1, <2>3
    <3> QED
      BY <2>1, <2>2, <3>1 DEF SwitchAsAsked, Fresh
  <2>6. Fresh' /\ FiresWhenDue'
    BY <1>b, <2>1 DEF Fresh, FiresWhenDue
  <2> QED
    BY <2>4, <2>5, <2>6
<1>6. CASE TimerCheck
  <2>1. /\ Overdue /\ target # None /\ ck' = [dev |-> target, late |-> FALSE]
        /\ UNCHANGED <<now, dm, ci, asked, seen, revived>>
    BY <1>6 DEF TimerCheck
  <2>2. SwitchTyped'
    BY <2>1 DEF SwitchTyped, ETypeOK
  <2>3. Fresh' /\ SwitchAsAsked'
    BY <2>1 DEF Fresh, SwitchAsAsked
  <2>4. ASSUME ~revived, ~Wraps PROVE asked # None /\ now > seen + asked
    <3>1. dm # None /\ asked \in Nat /\ dm.win = asked % Words /\ dm.last = seen
      BY <1>0, <2>1, <2>4 DEF Overdue, SwitchAsAsked
    <3>2. seen + asked < Words
      BY <1>0, <2>4, <3>1 DEF Wraps
    <3>3. asked < Words /\ seen + asked \in Nat
      BY <1>0, <3>1, <3>2
    <3>4. asked % Words = asked
      BY <3>1, <3>3, Remainder, Zenon
    <3>5. (seen + asked) % Words = seen + asked
      BY <3>2, <3>3, Remainder, Zenon
    <3> QED
      BY <2>1, <3>1, <3>4, <3>5 DEF Overdue
  <2>5. FiresWhenDue'
    BY <2>1, <2>4 DEF FiresWhenDue, Wraps
  <2> QED
    BY <2>2, <2>3, <2>5
<1>7. CASE TimerFire \/ Halted
  <2>1. /\ ck' = None /\ ci' \in {ci, None} /\ UNCHANGED <<now, dm, asked, seen, revived>>
    BY <1>7, Zenon DEF TimerFire, Halted
  <2> QED
    BY <2>1 DEF SwitchTyped, Fresh, SwitchAsAsked, FiresWhenDue
<1>8. CASE Tick
  <2>1. /\ now < MaxNow /\ now' = now + 1
        /\ UNCHANGED <<dm, ci, ck, asked, seen, revived>>
    BY <1>8 DEF Tick
  <2>2. SwitchTyped'
    BY <1>0, <2>1 DEF SwitchTyped
  <2>3. Fresh' /\ SwitchAsAsked'
    BY <2>1 DEF Fresh, SwitchAsAsked
  <2>4. FiresWhenDue'
    BY <1>0, <2>1 DEF FiresWhenDue, Wraps
  <2> QED
    BY <2>2, <2>3, <2>4
<1>9. UNCHANGED dvars => UNCHANGED switch
  BY DEF dvars
<1> QED
  BY <1>1, <1>2, <1>3, <1>4, <1>5, <1>6, <1>7, <1>8, <1>9 DEF DNext

-----------------------------------------------------------------------------
(***************************************************************************)
(* The theorems                                                            *)
(***************************************************************************)

\* The inductive invariant of the dead-man switch: the file, a check-in and a
\* check under way agree, or are known not to.
THEOREM DeadmanInvariant == DSpec => []DInv
<1>1. DInit => DInv
  <2> SUFFICES ASSUME DInit PROVE DInv
    OBVIOUS
  <2>1. ETypeOK
    BY InitEInv DEF DInit, EInv
  <2>2. revived \in BOOLEAN
    BY Zenon DEF DInit
  <2>3. SwitchTyped
    BY <2>2, DeadmanAssumption DEF DInit, SwitchTyped
  <2> QED
    BY <2>1, <2>3 DEF DInit, DInv, Fresh, SwitchAsAsked, FiresWhenDue
<1>2. DInv /\ [DNext]_dvars => DInv'
  BY NextEnrollTyped, NextSwitch DEF DInv
<1> QED
  BY <1>1, <1>2, PTL DEF DSpec

\* For any width of a word, the state file holds a window of that width and a
\* time that has been, whatever check-ins, checks and cuts do in between.
THEOREM DeadmanTypeCorrect == DSpec => []DTypeOK
<1>1. DInv => DTypeOK
  BY DEF DInv, SwitchTyped, DTypeOK
<1> QED
  BY <1>1, DeadmanInvariant, PTL

\* The file says what was last asked for, unless a check-in was overtaken.
THEOREM DeadmanSaysWhatWasAsked == DSpec => []SwitchAsAsked
<1>1. DInv => SwitchAsAsked
  BY DEF DInv
<1> QED
  BY <1>1, DeadmanInvariant, PTL

\* For any window that does not wrap, deadman-check is about to fire only past
\* the deadline that was asked for.
THEOREM DeadmanFiresWhenDue == DSpec => []FiresWhenDue
<1>1. DInv => FiresWhenDue
  BY DEF DInv
<1> QED
  BY <1>1, DeadmanInvariant, PTL
=============================================================================
