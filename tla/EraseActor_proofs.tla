-------------------------- MODULE EraseActor_proofs --------------------------
(***************************************************************************)
(* Theorems about EraseActor, for any number of processes, devices, slots, *)
(* backups, command lines, power cuts and faults.                          *)
(***************************************************************************)
EXTENDS EraseActor, TLAPS

-----------------------------------------------------------------------------
(***************************************************************************)
(* Type correctness                                                        *)
(***************************************************************************)

\* An accepted request is journalled with a device, and with a slot pair that
\* validate_mode_slots admits.
LEMMA AcceptedIsValid ==
  ASSUME NEW a \in FireArgs, FireAccepts(a)
  PROVE  /\ ValidJournal(PreparedJournal(a))
         /\ PreparedJournal(a).phase = "prepared"
         /\ PreparedJournal(a) # NoJournal
<1>1. a \in FireLines
  BY ConstantsAssumption
<1>2. Target(a) \in Devices
  BY <1>1, ConstantsAssumption DEF FireAccepts, Target, FireLines
<1>3. ParsedMode(a).mode \in Modes /\ ParsedMode(a).slot \in OptSlot
      /\ ParsedMode(a).recovery \in OptSlot
  BY <1>1, ConstantsAssumption DEF ParsedMode, FireLines, Modes, OptSlot
<1>4. ValidModeSlots(ParsedMode(a).mode, ParsedMode(a).slot, ParsedMode(a).recovery)
  BY DEF FireAccepts, ParseModeOk
<1>5. PreparedJournal(a) \in Journals
  BY <1>1, <1>2, <1>3 DEF PreparedJournal, Journals, Phases, FireLines
<1> QED
  BY <1>4, <1>5, ConstantsAssumption DEF ValidJournal, PreparedJournal

\* Every journal resumes at a step of the transaction.
LEMMA EntryIsAStep ==
  ASSUME NEW j \in Journals
  PROVE  EntryStep(j) \in Steps \ Writing
BY DEF EntryStep, Journals, Phases, Steps, Writing

LEMMA InitTypeOK == Init => TypeOK
<1> SUFFICES ASSUME Init PROVE TypeOK
  OBVIOUS
<1>1. /\ slots \in [Devices -> SUBSET SlotNumbers]
      /\ backups \subseteq Backups /\ remnants \subseteq Backups
      /\ journal = NoJournal /\ tmps \subseteq Procs
      /\ cuts \in 0..MaxCuts /\ faults \in 0..MaxFaults
      /\ requests = {} /\ overlooked \subseteq Backups
  BY ConstantsAssumption DEF Init
<1>2. env \in Roots \cup {"off"} /\ powerReq \in BOOLEAN
  BY DEF Init, Roots
<1>3. /\ pc \in [Procs -> Steps \cup Exited]
      /\ mem \in [Procs -> Journals \cup {NoJournal}]
      /\ victim \in [Procs -> Backups \cup {None}]
      /\ passed \in [Procs -> SUBSET Backups]
      /\ \A p \in Procs : pc[p] \notin Steps
  BY DEF Init, Steps, Writing, Exited
<1> QED
  BY <1>1, <1>2, <1>3 DEF TypeOK

LEMMA NextTypeOK == TypeOK /\ [Next]_vars => TypeOK'
<1> SUFFICES ASSUME TypeOK, [Next]_vars PROVE TypeOK'
  OBVIOUS
<1> USE ConstantsAssumption DEF scanVars
<1>1. ASSUME NEW p \in Procs, NEW a \in FireArgs, Fire(p, a) PROVE TypeOK'
  <2>1. CASE FireAccepts(a)
    <3> DEFINE j == PreparedJournal(a)
    <3>1. ValidJournal(j) /\ j \in Journals
      BY <2>1, AcceptedIsValid DEF ValidJournal
    <3>2. mem' = [mem EXCEPT ![p] = j] /\ pc' = [pc EXCEPT ![p] = "create"]
      BY <1>1, <2>1 DEF Fire, Goto
    <3>3. requests' = requests \cup {j}
      BY <1>1, <2>1 DEF Fire
    <3> HIDE DEF j
    <3> QED
      BY <1>1, <3>1, <3>2, <3>3
      DEF Fire, TypeOK, Steps, Exited, Writing, diskVars, hwVars, ValidJournal
  <2>2. CASE ~FireAccepts(a)
    BY <1>1, <2>2 DEF Fire, Goto, TypeOK, Steps, Exited, Writing, diskVars,
                      hwVars, histVars, ValidJournal
  <2> QED BY <2>1, <2>2
<1>2. ASSUME NEW p \in Procs, NEW r \in ResumeArgs, Resume(p, r) PROVE TypeOK'
  <2>1. CASE ResumeAccepts(r)
    <3>1. ValidJournal(journal) /\ journal \in Journals
      BY <2>1 DEF ResumeAccepts, TypeOK, ValidJournal
    <3>2. EntryStep(journal) \in Steps
      BY <3>1, EntryIsAStep
    <3> QED
      BY <1>2, <2>1, <3>1, <3>2 DEF Resume, Goto, TypeOK, diskVars, hwVars,
                                    histVars, ValidJournal
  <2>2. CASE ~ResumeAccepts(r)
    BY <1>2, <2>2 DEF Resume, Goto, TypeOK, Steps, Exited, Writing, diskVars,
                      hwVars, histVars, ValidJournal
  <2> QED BY <2>1, <2>2
<1>3. ASSUME NEW p \in Procs, CreateTmp(p) PROVE TypeOK'
  BY <1>3 DEF CreateTmp, Goto, TypeOK, Steps, Exited, Writing, hwVars, histVars,
              ValidJournal
<1>4. ASSUME NEW p \in Procs, RenameJournal(p) PROVE TypeOK'
  <2>1. ValidJournal(mem[p]) /\ mem[p] \in Journals
    BY <1>4 DEF RenameJournal, TypeOK, Steps, Writing, ValidJournal
  <2>2. EntryStep(mem[p]) \in Steps
    BY <2>1, EntryIsAStep
  <2> QED
    BY <1>4, <2>1, <2>2 DEF RenameJournal, Goto, TypeOK, hwVars, histVars,
                            ValidJournal
<1>5. ASSUME NEW p \in Procs, NEW b \in Backups, FindBackup(p, b) PROVE TypeOK'
  BY <1>5 DEF FindBackup, Goto, TypeOK, Steps, diskVars, hwVars, histVars,
              ValidJournal
<1>6. ASSUME NEW p \in Procs, ShredBackup(p) \/ UnlinkBackup(p) PROVE TypeOK'
  <2>1. backups' \subseteq Backups /\ remnants' \subseteq Backups
    BY <1>6 DEF ShredBackup, UnlinkBackup, TypeOK
  <2>2. /\ pc' \in [Procs -> Steps \cup Exited] /\ pc[p] \in Steps
        /\ \A q \in Procs \ {p} : pc'[q] = pc[q]
    BY <1>6 DEF ShredBackup, UnlinkBackup, Goto, TypeOK, Steps, Exited
  <2>3. victim' \in [Procs -> Backups \cup {None}]
    BY <1>6 DEF ShredBackup, UnlinkBackup, TypeOK
  <2> QED
    BY <1>6, <2>1, <2>2, <2>3 DEF ShredBackup, UnlinkBackup, TypeOK, hwVars,
                                  histVars, ValidJournal
<1>7. ASSUME NEW p \in Procs, NEW ph \in Phases, pc[p] \in Steps,
             Advance(p, ph), UNCHANGED <<diskVars, scanVars, hwVars, histVars>>
      PROVE  TypeOK'
  <2> DEFINE j == [mem[p] EXCEPT !.phase = ph]
  <2>1. ValidJournal(mem[p])
    BY <1>7 DEF TypeOK
  <2>2. ValidJournal(j) /\ j \in Journals
    BY <2>1 DEF ValidJournal, Journals
  <2>3. mem' = [mem EXCEPT ![p] = j] /\ pc' = [pc EXCEPT ![p] = "create"]
    BY <1>7 DEF Advance, Goto
  <2> HIDE DEF j
  <2> QED
    BY <1>7, <2>2, <2>3 DEF TypeOK, Steps, Exited, Writing, diskVars, hwVars,
                            histVars, ValidJournal
<1>8. ASSUME NEW p \in Procs, BackupsHandled(p) PROVE TypeOK'
  BY <1>7, <1>8 DEF BackupsHandled, Phases, Steps
<1>9. ASSUME NEW p \in Procs, CheckRecovery(p) PROVE TypeOK'
  BY <1>9 DEF CheckRecovery, Goto, TypeOK, Steps, Exited, diskVars, hwVars,
              histVars, ValidJournal
<1>10. ASSUME NEW p \in Procs, CheckActive(p) PROVE TypeOK'
  BY <1>10 DEF CheckActive, Goto, TypeOK, Steps, Exited, diskVars, hwVars,
               histVars, ValidJournal
<1>11. ASSUME NEW p \in Procs, DestroySlots(p) PROVE TypeOK'
  <2>1. slots' \in [Devices -> SUBSET SlotNumbers]
    BY <1>11 DEF DestroySlots, TypeOK
  <2> QED
    BY <1>11, <2>1 DEF DestroySlots, Goto, TypeOK, Steps, Exited, hwVars,
                       histVars, ValidJournal
<1>12. ASSUME NEW p \in Procs, KeyslotsDestroyed(p) PROVE TypeOK'
  <2>1. CASE OutcomeVerified(mem[p])
    BY <1>7, <1>12, <2>1 DEF KeyslotsDestroyed, Phases, Steps
  <2>2. CASE ~OutcomeVerified(mem[p])
    BY <1>12, <2>2 DEF KeyslotsDestroyed, Goto, TypeOK, Steps, Exited, diskVars,
                       hwVars, histVars, ValidJournal
  <2> QED BY <2>1, <2>2
<1>13. ASSUME NEW p \in Procs, FinalVerify(p) PROVE TypeOK'
  BY <1>13 DEF FinalVerify, Goto, TypeOK, Steps, Exited, diskVars, hwVars,
               histVars, ValidJournal
<1>14. ASSUME NEW p \in Procs, Quiesce(p) PROVE TypeOK'
  BY <1>14 DEF Quiesce, Goto, TypeOK, Steps, Exited, diskVars, hwVars, histVars,
               ValidJournal
<1>15. ASSUME NEW p \in Procs, RequestPoweroff(p) PROVE TypeOK'
  BY <1>15 DEF RequestPoweroff, Goto, TypeOK, Steps, Exited, diskVars, histVars,
               ValidJournal
<1>16. ASSUME NEW p \in Procs, RemoveJournal(p) PROVE TypeOK'
  BY <1>16 DEF RemoveJournal, Goto, TypeOK, Steps, Exited, hwVars, histVars,
               ValidJournal
<1>17. ASSUME NEW p \in Procs, Fault(p) PROVE TypeOK'
  <2>1. faults' \in 0..MaxFaults /\ tmps' \subseteq Procs
    BY <1>17 DEF Fault, TypeOK
  <2>2. pc' \in [Procs -> Steps \cup Exited]
        /\ \A q \in Procs : pc'[q] \in Steps => pc[q] \in Steps
    BY <1>17 DEF Fault, Goto, TypeOK, Steps, Writing, Exited
  <2> QED
    BY <1>17, <2>1, <2>2 DEF Fault, TypeOK, histVars, ValidJournal
<1>24. ASSUME NEW p \in Procs, NEW b \in Backups, SkipBackup(p, b) PROVE TypeOK'
  <2>1. faults' \in 0..MaxFaults
    BY <1>24 DEF SkipBackup, TypeOK
  <2> QED
    BY <1>24, <2>1 DEF SkipBackup, TypeOK, diskVars, ValidJournal
<1>18. ASSUME NEW p \in Procs, Reap(p) PROVE TypeOK'
  BY <1>18 DEF Reap, Goto, TypeOK, Steps, Writing, Exited, diskVars, hwVars, histVars,
               ValidJournal
<1>19. ASSUME LosePower, cuts' \in 0..MaxCuts PROVE TypeOK'
  BY <1>19 DEF LosePower, TypeOK, Steps, Exited, Writing, Roots, diskVars,
               histVars, ValidJournal
<1>20. ASSUME PowerCut PROVE TypeOK'
  BY <1>19, <1>20 DEF PowerCut, TypeOK
<1>21. ASSUME PowerDown \/ Shutdown PROVE TypeOK'
  BY <1>19, <1>21 DEF PowerDown, Shutdown, TypeOK
<1>22. ASSUME Boot \/ EnterRoot PROVE TypeOK'
  BY <1>22 DEF Boot, EnterRoot, TypeOK, Roots, diskVars, procVars, histVars,
               ValidJournal
<1>23. CASE UNCHANGED vars
  BY <1>23 DEF vars, diskVars, procVars, hwVars, histVars, TypeOK, ValidJournal
<1> QED
  BY <1>1, <1>2, <1>3, <1>4, <1>5, <1>6, <1>8, <1>9, <1>10, <1>11, <1>12, <1>13,
     <1>14, <1>15, <1>16, <1>17, <1>18, <1>20, <1>21, <1>22, <1>23, <1>24
  DEF Next, Step, Failure

\* Every state of every instance is type correct, and no transaction ever
\* works from a slot pair that was not validated.
THEOREM TypeCorrect == Spec => []TypeOK
BY InitTypeOK, NextTypeOK, PTL DEF Spec

-----------------------------------------------------------------------------
(***************************************************************************)
(* Journals in play: the file's, and those running processes hold.  Every  *)
(* safety property follows from what is true of all of them, so it is      *)
(* enough to know where a new one can come from.                           *)
(***************************************************************************)

Held(p, j) == pc[p] \in Steps /\ mem[p] = j

InPlay(j) == (journal # NoJournal /\ j = journal) \/ \E p \in Procs : Held(p, j)

\* Two journals of one request: a process changes nothing but the phase.
SameRequest(j, k) ==
  /\ j.device = k.device /\ j.mode = k.mode /\ j.slot = k.slot
  /\ j.recovery = k.recovery /\ j.scan = k.scan

\* The request behind a journal has been recorded in the history.
Known(j) == \E r \in requests : SameRequest(r, j)

\* The backups that the journal's scan has left.
Scanned(j) == backups \cap j.scan \subseteq overlooked

\* What a scan passes over is recorded in the history.
PassedOver == \A p \in Procs : passed[p] \subseteq overlooked

\* A process at a step of a phase holds a journal of that phase.
PhaseFits ==
  \A p \in Procs :
    /\ pc[p] \in {"scan", "shred", "unlink"} => mem[p].phase = "prepared"
    /\ pc[p] \in {"recovery", "active", "kill", "verify"}
         => mem[p].phase = "handled"
    /\ pc[p] \in {"final", "quiesce", "poweroff", "remove"}
         => mem[p].phase = "destroyed"

\* The inductive invariant.
IInv ==
  /\ TypeOK /\ PhaseFits /\ PassedOver /\ BackupsBeforeSlots
  /\ \A j \in Journals : InPlay(j) =>
       /\ Known(j)
       /\ j.phase # "prepared" => Scanned(j)
       /\ j.phase = "destroyed" => GoalReached(j)

\* A process only advances its own journal, one phase at a time.
NewlyPrepared(j) ==
  \E a \in FireArgs : FireAccepts(a) /\ j = PreparedJournal(a) /\ Known(j)'
NewlyHandled(j) ==
  \E p \in Procs : /\ Held(p, mem[p]) /\ j = [mem[p] EXCEPT !.phase = "handled"]
                   /\ ScanDone(p)
NewlyDestroyed(j) ==
  \E p \in Procs : /\ Held(p, mem[p]) /\ j = [mem[p] EXCEPT !.phase = "destroyed"]
                   /\ mem[p].phase = "handled" /\ OutcomeVerified(mem[p])

-----------------------------------------------------------------------------
\* What no step does to the disk and to the history.
LEMMA DiskSteps ==
  ASSUME TypeOK, [Next]_vars
  PROVE  /\ backups' \subseteq backups
         /\ requests \subseteq requests' /\ overlooked \subseteq overlooked'
         /\ slots' = slots \/ \E p \in Procs : DestroySlots(p)
<1> USE DEF diskVars, hwVars, procVars, scanVars, histVars
<1>1. ASSUME NEW p \in Procs, NEW a \in FireArgs, Fire(p, a)
      PROVE  UNCHANGED <<slots, backups, overlooked>> /\ requests \subseteq requests'
  BY <1>1 DEF Fire
<1>2. ASSUME NEW p \in Procs, ShredBackup(p) \/ UnlinkBackup(p)
      PROVE  slots' = slots /\ backups' \subseteq backups /\ UNCHANGED histVars
  BY <1>2 DEF ShredBackup, UnlinkBackup
<1>6. ASSUME NEW p \in Procs, NEW b \in Backups, SkipBackup(p, b)
      PROVE  /\ UNCHANGED <<slots, backups, requests>>
             /\ overlooked \subseteq overlooked'
  BY <1>6 DEF SkipBackup
<1>3. ASSUME NEW p \in Procs, DestroySlots(p)
      PROVE  backups' = backups /\ UNCHANGED histVars
  BY <1>3 DEF DestroySlots
<1>4. ASSUME NEW p \in Procs,
             \/ (\E r \in ResumeArgs : Resume(p, r)) \/ Reap(p) \/ Fault(p)
             \/ CreateTmp(p) \/ RenameJournal(p) \/ BackupsHandled(p)
             \/ (\E b \in Backups : FindBackup(p, b))
             \/ CheckRecovery(p) \/ CheckActive(p) \/ KeyslotsDestroyed(p)
             \/ FinalVerify(p) \/ Quiesce(p) \/ RequestPoweroff(p)
             \/ RemoveJournal(p)
      PROVE  UNCHANGED <<slots, backups, histVars>>
  BY <1>4 DEF Resume, Reap, Fault, CreateTmp, RenameJournal, BackupsHandled,
              FindBackup, CheckRecovery, CheckActive, KeyslotsDestroyed,
              FinalVerify, Quiesce, RequestPoweroff, RemoveJournal
<1>5. ASSUME PowerCut \/ PowerDown \/ Shutdown \/ Boot \/ EnterRoot \/ UNCHANGED vars
      PROVE  UNCHANGED <<slots, backups, histVars>>
  BY <1>5 DEF PowerCut, PowerDown, Shutdown, LosePower, Boot, EnterRoot, vars
<1> QED
  BY <1>1, <1>2, <1>3, <1>4, <1>5, <1>6 DEF Next, Step, Failure

\* Where the journals in play after a step come from.
LEMMA JournalSteps ==
  ASSUME TypeOK, PhaseFits, [Next]_vars, NEW j \in Journals, InPlay(j)'
  PROVE  \/ InPlay(j)
         \/ NewlyPrepared(j)
         \/ NewlyHandled(j)
         \/ NewlyDestroyed(j)
<1> USE DEF diskVars, hwVars, procVars, scanVars, histVars
<1> DEFINE Goal == InPlay(j) \/ NewlyPrepared(j) \/ NewlyHandled(j) \/ NewlyDestroyed(j)
<1>0. ASSUME journal' = journal,
             \A q \in Procs : pc'[q] \in Steps => pc[q] \in Steps /\ mem'[q] = mem[q]
      PROVE  Goal
  BY <1>0 DEF InPlay, Held
<1>1. ASSUME NEW p \in Procs, NEW a \in FireArgs, Fire(p, a) PROVE Goal
  <2>1. CASE FireAccepts(a)
    <3>1. /\ journal' = journal
          /\ \A q \in Procs \ {p} : pc'[q] = pc[q] /\ mem'[q] = mem[q]
          /\ mem'[p] = PreparedJournal(a)
      BY <1>1, <2>1 DEF Fire, Goto, TypeOK
    <3>2. Known(PreparedJournal(a))'
      BY <1>1, <2>1 DEF Fire, Known, SameRequest
    <3> QED
      BY <2>1, <3>1, <3>2 DEF InPlay, Held, NewlyPrepared
  <2>2. CASE ~FireAccepts(a)
    BY <1>0, <1>1, <2>2 DEF Fire, Goto, TypeOK, Steps, Writing
  <2> QED BY <2>1, <2>2
<1>2. ASSUME NEW p \in Procs, NEW r \in ResumeArgs, Resume(p, r) PROVE Goal
  <2>1. CASE ResumeAccepts(r)
    <3>1. journal # NoJournal /\ journal' = journal
      BY <1>2, <2>1 DEF Resume, ResumeAccepts
    <3>2. /\ \A q \in Procs \ {p} : pc'[q] = pc[q] /\ mem'[q] = mem[q]
          /\ mem'[p] = journal
      BY <1>2, <2>1 DEF Resume, Goto, TypeOK
    <3> QED BY <3>1, <3>2 DEF InPlay, Held
  <2>2. CASE ~ResumeAccepts(r)
    BY <1>0, <1>2, <2>2 DEF Resume, Goto, TypeOK, Steps, Writing
  <2> QED BY <2>1, <2>2
<1>3. ASSUME NEW p \in Procs, RenameJournal(p) PROVE Goal
  <2>1. Held(p, mem[p]) /\ journal' = mem[p] /\ mem' = mem
    BY <1>3 DEF RenameJournal, Held, Steps, Writing
  <2>2. \A q \in Procs : pc'[q] \in Steps => pc[q] \in Steps
    BY <1>3 DEF RenameJournal, Goto, TypeOK, Steps, Writing
  <2> QED BY <2>1, <2>2 DEF InPlay, Held
<1>4. ASSUME NEW p \in Procs, BackupsHandled(p) PROVE Goal
  <2>1. /\ journal' = journal /\ ScanDone(p) /\ Held(p, mem[p])
        /\ \A q \in Procs \ {p} : pc'[q] = pc[q] /\ mem'[q] = mem[q]
        /\ mem'[p] = [mem[p] EXCEPT !.phase = "handled"]
    BY <1>4 DEF BackupsHandled, Advance, Goto, TypeOK, Held, Steps
  <2> QED BY <2>1 DEF InPlay, Held, NewlyHandled
<1>5. ASSUME NEW p \in Procs, KeyslotsDestroyed(p) PROVE Goal
  <2>1. CASE OutcomeVerified(mem[p])
    <3>1. /\ journal' = journal /\ Held(p, mem[p])
          /\ \A q \in Procs \ {p} : pc'[q] = pc[q] /\ mem'[q] = mem[q]
          /\ mem'[p] = [mem[p] EXCEPT !.phase = "destroyed"]
      BY <1>5, <2>1 DEF KeyslotsDestroyed, Advance, Goto, TypeOK, Held, Steps
    <3>2. mem[p].phase = "handled"
      BY <1>5 DEF KeyslotsDestroyed, PhaseFits
    <3> QED BY <2>1, <3>1, <3>2 DEF InPlay, Held, NewlyDestroyed
  <2>2. CASE ~OutcomeVerified(mem[p])
    BY <1>0, <1>5, <2>2 DEF KeyslotsDestroyed, Goto, TypeOK, Steps, Writing
  <2> QED BY <2>1, <2>2
<1>6. ASSUME NEW p \in Procs, RemoveJournal(p) PROVE Goal
  BY <1>6 DEF RemoveJournal, Goto, TypeOK, Steps, Writing, InPlay, Held
<1>7. ASSUME NEW p \in Procs,
             \/ Fault(p) \/ (\E b \in Backups : SkipBackup(p, b)) \/ CreateTmp(p)
             \/ (\E b \in Backups : FindBackup(p, b)) \/ ShredBackup(p)
             \/ UnlinkBackup(p)
             \/ CheckRecovery(p) \/ CheckActive(p) \/ DestroySlots(p)
             \/ FinalVerify(p) \/ Quiesce(p) \/ RequestPoweroff(p)
      PROVE  Goal
  <2>1. journal' = journal /\ mem' = mem
    BY <1>7 DEF Fault, SkipBackup, CreateTmp, FindBackup, ShredBackup, UnlinkBackup,
                CheckRecovery,
                CheckActive, DestroySlots, FinalVerify, Quiesce, RequestPoweroff
  <2>2. \/ pc' = pc
        \/ \E step \in Steps \cup Exited :
             pc' = [pc EXCEPT ![p] = step] /\ (step \in Steps => pc[p] \in Steps)
    BY <1>7 DEF Fault, SkipBackup, CreateTmp, FindBackup, ShredBackup, UnlinkBackup,
                CheckRecovery,
                CheckActive, DestroySlots, FinalVerify, Quiesce, RequestPoweroff,
                Goto, Steps, Writing, Exited
  <2> QED BY <1>0, <2>1, <2>2 DEF TypeOK
<1>8. ASSUME PowerCut \/ PowerDown \/ Shutdown PROVE Goal
  <2>1. journal' = journal /\ \A q \in Procs : pc'[q] \notin Steps
    BY <1>8 DEF PowerCut, PowerDown, Shutdown, LosePower, Steps, Writing
  <2> QED BY <1>0, <2>1
<1>9. ASSUME Boot \/ EnterRoot \/ UNCHANGED vars PROVE Goal
  BY <1>0, <1>9 DEF Boot, EnterRoot, vars
<1>10. ASSUME NEW p \in Procs, Reap(p) PROVE Goal
  BY <1>0, <1>10 DEF Reap, Goto, TypeOK, Steps, Writing
<1> QED
  BY <1>1, <1>2, <1>3, <1>4, <1>5, <1>6, <1>7, <1>8, <1>9, <1>10
  DEF Next, Step, Failure

-----------------------------------------------------------------------------
(***************************************************************************)
(* The inductive invariant                                                 *)
(***************************************************************************)

LEMMA InitIInv == Init => IInv
<1> SUFFICES ASSUME Init PROVE IInv
  OBVIOUS
<1>1. TypeOK
  BY InitTypeOK
<1>2. \A p \in Procs : pc[p] = "idle"
  BY DEF Init
<1>3. PhaseFits
  BY <1>2 DEF PhaseFits
<1>4. \A j \in Journals : ~InPlay(j)
  BY <1>2 DEF Init, InPlay, Held, Steps, Writing
<1>5. PassedOver /\ BackupsBeforeSlots
  BY DEF Init, PassedOver, BackupsBeforeSlots, Lost
<1> QED BY <1>1, <1>3, <1>4, <1>5 DEF IInv

\* A step keeps each process at a step of its journal's phase.
LEMMA NextPhaseFits ==
  ASSUME TypeOK, PhaseFits, [Next]_vars
  PROVE  PhaseFits'
<1> USE DEF diskVars, hwVars, procVars, scanVars, histVars
<1>1. ASSUME NEW p \in Procs, NEW a \in FireArgs, Fire(p, a) PROVE PhaseFits'
  BY <1>1 DEF Fire, Goto, TypeOK, PhaseFits
<1>2. ASSUME NEW p \in Procs, NEW r \in ResumeArgs, Resume(p, r) PROVE PhaseFits'
  <2>1. CASE ResumeAccepts(r)
    <3>1. journal \in Journals
      BY <2>1 DEF ResumeAccepts, TypeOK, ValidJournal
    <3>2. mem' = [mem EXCEPT ![p] = journal]
          /\ pc' = [pc EXCEPT ![p] = EntryStep(journal)]
      BY <1>2, <2>1 DEF Resume, Goto
    <3>3. journal.phase \in Phases
      BY <3>1 DEF Journals
    <3> QED
      BY <3>2, <3>3 DEF TypeOK, PhaseFits, EntryStep, Phases
  <2>2. CASE ~ResumeAccepts(r)
    BY <1>2, <2>2 DEF Resume, Goto, TypeOK, PhaseFits
  <2> QED BY <2>1, <2>2
<1>3. ASSUME NEW p \in Procs, RenameJournal(p) PROVE PhaseFits'
  <2>1. mem[p].phase \in Phases
    BY <1>3 DEF RenameJournal, TypeOK, ValidJournal, Journals, Steps, Writing
  <2> QED
    BY <1>3, <2>1 DEF RenameJournal, Goto, TypeOK, PhaseFits, EntryStep, Phases
<1>4. ASSUME NEW p \in Procs, BackupsHandled(p) \/ KeyslotsDestroyed(p)
      PROVE  PhaseFits'
  <2>1. \A q \in Procs \ {p} : mem'[q] = mem[q] /\ pc'[q] = pc[q]
    BY <1>4 DEF BackupsHandled, KeyslotsDestroyed, Advance, Goto, TypeOK
  <2>2. pc'[p] \in {"create", "failed"}
    BY <1>4 DEF BackupsHandled, KeyslotsDestroyed, Advance, Goto, TypeOK
  <2> QED BY <2>1, <2>2 DEF PhaseFits
<1>5. ASSUME NEW p \in Procs,
             \/ Fault(p) \/ (\E b \in Backups : SkipBackup(p, b)) \/ CreateTmp(p)
             \/ (\E b \in Backups : FindBackup(p, b)) \/ ShredBackup(p)
             \/ UnlinkBackup(p)
             \/ CheckRecovery(p) \/ CheckActive(p) \/ DestroySlots(p)
             \/ FinalVerify(p) \/ Quiesce(p) \/ RequestPoweroff(p)
             \/ RemoveJournal(p)
      PROVE  PhaseFits'
  <2>1. mem' = mem
    BY <1>5 DEF Fault, SkipBackup, CreateTmp, FindBackup, ShredBackup, UnlinkBackup,
                CheckRecovery,
                CheckActive, DestroySlots, FinalVerify, Quiesce, RequestPoweroff,
                RemoveJournal
  <2>2. \/ pc' = pc
        \/ \E step :
             /\ pc' = [pc EXCEPT ![p] = step]
             /\ \/ step \in Exited \cup Writing
                \/ {pc[p], step} \subseteq {"scan", "shred", "unlink"}
                \/ {pc[p], step} \subseteq {"recovery", "active", "kill", "verify"}
                \/ {pc[p], step} \subseteq {"final", "quiesce", "poweroff", "remove"}
    BY <1>5 DEF Fault, SkipBackup, CreateTmp, FindBackup, ShredBackup, UnlinkBackup,
                CheckRecovery,
                CheckActive, DestroySlots, FinalVerify, Quiesce, RequestPoweroff,
                RemoveJournal, Goto, Exited, Writing
  <2> QED BY <2>1, <2>2 DEF TypeOK, PhaseFits, Exited, Writing
<1>6. ASSUME PowerCut \/ PowerDown \/ Shutdown PROVE PhaseFits'
  BY <1>6 DEF PowerCut, PowerDown, Shutdown, LosePower, PhaseFits
<1>7. ASSUME Boot \/ EnterRoot \/ UNCHANGED vars PROVE PhaseFits'
  BY <1>7 DEF Boot, EnterRoot, vars, PhaseFits
<1>8. ASSUME NEW p \in Procs, Reap(p) PROVE PhaseFits'
  BY <1>8 DEF Reap, Goto, TypeOK, PhaseFits
<1> QED
  BY <1>1, <1>2, <1>3, <1>4, <1>5, <1>6, <1>7, <1>8 DEF Next, Step, Failure

\* A scan records what it passes over.
LEMMA NextPassedOver ==
  ASSUME TypeOK, PassedOver, [Next]_vars
  PROVE  PassedOver'
<1> USE DEF diskVars, hwVars, procVars, scanVars, histVars
<1>1. ASSUME NEW p \in Procs, NEW b \in Backups, SkipBackup(p, b) PROVE PassedOver'
  BY <1>1 DEF SkipBackup, TypeOK, PassedOver
<1>2. ASSUME NEW p \in Procs, Reap(p) PROVE PassedOver'
  BY <1>2 DEF Reap, TypeOK, PassedOver
<1>3. ASSUME PowerCut \/ PowerDown \/ Shutdown PROVE PassedOver'
  BY <1>3 DEF PowerCut, PowerDown, Shutdown, LosePower, PassedOver
<1>4. ASSUME NEW p \in Procs,
             \/ (\E a \in FireArgs : Fire(p, a)) \/ (\E r \in ResumeArgs : Resume(p, r))
             \/ Fault(p) \/ CreateTmp(p) \/ RenameJournal(p) \/ BackupsHandled(p)
             \/ (\E b \in Backups : FindBackup(p, b)) \/ ShredBackup(p)
             \/ UnlinkBackup(p) \/ CheckRecovery(p) \/ CheckActive(p)
             \/ DestroySlots(p) \/ KeyslotsDestroyed(p) \/ FinalVerify(p)
             \/ Quiesce(p) \/ RequestPoweroff(p) \/ RemoveJournal(p)
      PROVE  PassedOver'
  <2>1. passed' = passed /\ overlooked' = overlooked
    BY <1>4 DEF Fire, Resume, Fault, CreateTmp, RenameJournal, BackupsHandled,
                FindBackup, ShredBackup, UnlinkBackup, CheckRecovery, CheckActive,
                DestroySlots, KeyslotsDestroyed, FinalVerify, Quiesce,
                RequestPoweroff, RemoveJournal
  <2> QED BY <2>1 DEF PassedOver
<1>5. ASSUME Boot \/ EnterRoot \/ UNCHANGED vars PROVE PassedOver'
  BY <1>5 DEF Boot, EnterRoot, vars, PassedOver
<1> QED
  BY <1>1, <1>2, <1>3, <1>4, <1>5 DEF Next, Step, Failure

\* Keyslots go only as luksKillSlot or luksErase take them.
LEMMA SlotSteps ==
  ASSUME TypeOK, NEW p \in Procs, DestroySlots(p)
  PROVE  /\ mem[p] \in Journals /\ Held(p, mem[p])
         /\ \A d \in Devices \ {mem[p].device} : slots'[d] = slots[d]
         /\ slots'[mem[p].device] \subseteq slots[mem[p].device]
         /\ slots[mem[p].device] \ slots'[mem[p].device] \subseteq Doomed(mem[p])
<1>1. mem[p] \in Journals /\ Held(p, mem[p])
  BY DEF DestroySlots, TypeOK, Steps, ValidJournal, Held
<1>2. mem[p].device \in Devices
  BY <1>1 DEF Journals
<1>3. \/ /\ mem[p].mode = "killslot"
         /\ slots' = [slots EXCEPT ![mem[p].device] = @ \ {mem[p].slot}]
      \/ slots' = slots
      \/ /\ mem[p].mode = "erase"
         /\ slots' = [slots EXCEPT ![mem[p].device] = {}]
  BY DEF DestroySlots
<1> QED
  BY <1>1, <1>2, <1>3 DEF TypeOK, Doomed

\* A goal, once reached, stays reached: no actor adds a keyslot.
LEMMA GoalStaysReached ==
  ASSUME TypeOK, [Next]_vars, NEW j \in Journals, GoalReached(j)
  PROVE  GoalReached(j)'
<1>1. j.device \in Devices
  BY DEF Journals
<1>2. slots'[j.device] \subseteq slots[j.device]
  <2>1. CASE slots' = slots
    BY <2>1
  <2>2. ASSUME NEW p \in Procs, DestroySlots(p)
        PROVE  slots'[j.device] \subseteq slots[j.device]
    BY <1>1, <2>2, SlotSteps
  <2> QED BY <2>1, <2>2, DiskSteps
<1> QED
  BY <1>2 DEF GoalReached, Doomed

\* A journal's scan stays done: backups only go.
LEMMA StaysScanned ==
  ASSUME TypeOK, [Next]_vars, NEW j \in Journals, Scanned(j)
  PROVE  Scanned(j)'
BY DiskSteps DEF Scanned

LEMMA StaysKnown ==
  ASSUME TypeOK, [Next]_vars, NEW j \in Journals, NEW k \in Journals,
         Known(k), SameRequest(k, j)
  PROVE  Known(j)'
BY DiskSteps DEF Known, SameRequest

LEMMA NextBackupsBeforeSlots == IInv /\ [Next]_vars => BackupsBeforeSlots'
<1> SUFFICES ASSUME IInv, [Next]_vars, NEW d \in Devices, NEW s \in Lost(d)'
             PROVE  \E r \in AskedFor(d, s)' : (backups \cap r.scan \subseteq overlooked)'
  BY DEF BackupsBeforeSlots
<1>1. TypeOK /\ PhaseFits
  BY DEF IInv
<1>2. CASE s \in Lost(d)
  <2>1. PICK r \in AskedFor(d, s) : backups \cap r.scan \subseteq overlooked
    BY <1>2 DEF IInv, BackupsBeforeSlots
  <2>2. r \in requests' /\ r.device = d /\ s \in Doomed(r)
    BY <1>1, <2>1, DiskSteps DEF AskedFor
  <2> QED
    BY <1>1, <2>1, <2>2, DiskSteps DEF AskedFor, Doomed
<1>3. CASE s \notin Lost(d)
  <2>1. PICK p \in Procs : DestroySlots(p)
    BY <1>1, <1>3, DiskSteps DEF Lost
  <2>2. mem[p] \in Journals /\ InPlay(mem[p])
    BY <1>1, <2>1, SlotSteps DEF InPlay
  <2>3. mem[p].device = d /\ s \in Doomed(mem[p])
    BY <1>1, <1>3, <2>1, SlotSteps DEF Lost
  <2>4. Scanned(mem[p])
    BY <1>1, <2>1, <2>2 DEF DestroySlots, PhaseFits, IInv
  <2>5. PICK r \in requests : SameRequest(r, mem[p])
    BY <2>2 DEF IInv, Known
  <2>6. r.device = d /\ s \in Doomed(r) /\ backups \cap r.scan \subseteq overlooked
    BY <2>3, <2>4, <2>5 DEF SameRequest, Doomed, Scanned
  <2> QED
    BY <1>1, <2>5, <2>6, DiskSteps DEF AskedFor, Doomed
<1> QED BY <1>2, <1>3

LEMMA NextIInv == IInv /\ [Next]_vars => IInv'
<1> SUFFICES ASSUME IInv, [Next]_vars PROVE IInv'
  OBVIOUS
<1>1. TypeOK /\ PhaseFits /\ PassedOver
  BY DEF IInv
<1>2. TypeOK' /\ PhaseFits' /\ PassedOver'
  BY <1>1, NextTypeOK, NextPhaseFits, NextPassedOver
<1>3. BackupsBeforeSlots'
  BY NextBackupsBeforeSlots
<1>4. ASSUME NEW j \in Journals, InPlay(j)'
      PROVE  /\ Known(j)'
             /\ j.phase # "prepared" => Scanned(j)'
             /\ j.phase = "destroyed" => GoalReached(j)'
  <2>1. CASE InPlay(j)
    <3>1. Known(j)'
      BY <1>1, <2>1, StaysKnown DEF IInv, SameRequest
    <3> QED
      BY <1>1, <2>1, <3>1, StaysScanned, GoalStaysReached DEF IInv
  <2>2. CASE NewlyPrepared(j)
    BY <2>2, AcceptedIsValid DEF NewlyPrepared
  <2>3. CASE NewlyHandled(j)
    <3>1. PICK p \in Procs : Held(p, mem[p]) /\ j = [mem[p] EXCEPT !.phase = "handled"]
                            /\ ScanDone(p)
      BY <2>3 DEF NewlyHandled
    <3>2. mem[p] \in Journals /\ Known(mem[p])
      BY <1>1, <3>1 DEF IInv, InPlay, Held, TypeOK, ValidJournal
    <3>3. SameRequest(mem[p], j) /\ j.scan = mem[p].scan /\ j.phase = "handled"
      BY <3>1, <3>2 DEF Journals, SameRequest
    <3>4. Known(j)'
      BY <1>1, <3>2, <3>3, StaysKnown
    <3>5. Scanned(j)
      BY <1>1, <3>1, <3>3 DEF ScanDone, PassedOver, Scanned
    <3> QED BY <1>1, <3>3, <3>4, <3>5, StaysScanned
  <2>4. CASE NewlyDestroyed(j)
    <3>1. PICK p \in Procs : /\ Held(p, mem[p])
                            /\ j = [mem[p] EXCEPT !.phase = "destroyed"]
                            /\ mem[p].phase = "handled" /\ OutcomeVerified(mem[p])
      BY <2>4 DEF NewlyDestroyed
    <3>2. mem[p] \in Journals /\ Known(mem[p]) /\ Scanned(mem[p])
      BY <1>1, <3>1 DEF IInv, InPlay, Held, TypeOK, ValidJournal
    <3>3. SameRequest(mem[p], j)
      BY <3>1, <3>2 DEF Journals, SameRequest
    <3>4. Known(j)'
      BY <1>1, <3>2, <3>3, StaysKnown
    <3>5. GoalReached(j)
      BY <3>1, <3>3 DEF OutcomeVerified, GoalReached, Doomed, SameRequest
    <3>6. Scanned(j)
      BY <3>2, <3>3 DEF Scanned, SameRequest
    <3> QED BY <1>1, <3>4, <3>5, <3>6, StaysScanned, GoalStaysReached
  <2> QED BY <1>1, <1>4, <2>1, <2>2, <2>3, <2>4, JournalSteps
<1> QED BY <1>2, <1>3, <1>4 DEF IInv

\* The inductive invariant holds: in particular a journal past its first phase
\* has left no backup below its scan roots but the unreadable.
THEOREM InductiveInvariant == Spec => []IInv
BY InitIInv, NextIInv, PTL DEF Spec

\* ds-erase destroys nothing that no accepted request named, whichever process
\* or boot carries the request out.
THEOREM OnlyNamedSlotsAreLost == Spec => []OnlyNamedSlotsLost
<1>1. IInv => OnlyNamedSlotsLost
  BY DEF IInv, BackupsBeforeSlots, OnlyNamedSlotsLost
<1> QED BY <1>1, InductiveInvariant, PTL

\* No keyslot is destroyed while a header backup is left below the scan roots
\* of the request for it, unless a scan could not read that backup.
THEOREM BackupsGoFirst == Spec => []BackupsBeforeSlots
<1>1. IInv => BackupsBeforeSlots
  BY DEF IInv
<1> QED BY <1>1, InductiveInvariant, PTL

\* phase KeyslotsDestroyed, a poweroff and the removal of the journal come
\* only after the keyslots are gone, and stay true under every later step.
THEOREM DestroyedIsGone == Spec => []DestroyedMeansGone
<1>1. IInv => DestroyedMeansGone
  <2> SUFFICES ASSUME IInv PROVE DestroyedMeansGone
    OBVIOUS
  <2>1. journal # NoJournal /\ journal.phase = "destroyed" => GoalReached(journal)
    BY DEF IInv, InPlay, TypeOK, ValidJournal
  <2>2. ASSUME NEW p \in Procs, pc[p] \in {"quiesce", "poweroff", "remove"}
        PROVE  GoalReached(mem[p])
    <3>1. pc[p] \in Steps /\ mem[p].phase = "destroyed"
      BY <2>2 DEF IInv, PhaseFits, Steps
    <3>2. mem[p] \in Journals /\ InPlay(mem[p])
      BY <3>1 DEF IInv, TypeOK, ValidJournal, InPlay, Held
    <3> QED BY <3>1, <3>2 DEF IInv
  <2> QED BY <2>1, <2>2 DEF DestroyedMeansGone
<1> QED BY <1>1, InductiveInvariant, PTL

-----------------------------------------------------------------------------
(***************************************************************************)
(* The recovery slot.  It is tested in one step and the daily slot killed  *)
(* in a later one; the test stays good unless another request spends that  *)
(* slot.                                                                   *)
(***************************************************************************)

\* Between the test and the kill, the recovery slot is still there.
RecoveryTested ==
  \A p \in Procs :
    /\ pc[p] \in {"active", "kill"} /\ mem[p].mode = "killslot"
    => \/ mem[p].recovery \in slots[mem[p].device]
       \/ Acked(mem[p].device) \/ Opposed(mem[p].device)

\* A process enters or stays between the test and the kill only by the test
\* itself or with the test behind it; a full erase is the one exception.
LEMMA BetweenTestAndKill ==
  ASSUME TypeOK, PhaseFits, [Next]_vars, NEW p \in Procs,
         pc'[p] \in {"active", "kill"}, mem'[p].mode = "killslot"
  PROVE  /\ mem'[p] = mem[p]
         /\ \/ pc[p] \in {"active", "kill"}
            \/ mem[p].recovery \in slots[mem[p].device] /\ slots' = slots
<1> USE DEF diskVars, hwVars, procVars, scanVars, histVars
<1> DEFINE Done == /\ mem'[p] = mem[p]
                   /\ \/ pc[p] \in {"active", "kill"}
                      \/ mem[p].recovery \in slots[mem[p].device] /\ slots' = slots
<1>1. ASSUME NEW q \in Procs, NEW a \in FireArgs, Fire(q, a) PROVE Done
  BY <1>1 DEF Fire, Goto, TypeOK
<1>2. ASSUME NEW q \in Procs, NEW r \in ResumeArgs, Resume(q, r) PROVE Done
  <2>1. CASE q = p /\ ResumeAccepts(r)
    <3>1. journal \in Journals /\ mem'[p] = journal /\ pc'[p] = EntryStep(journal)
      BY <1>2, <2>1 DEF Resume, ResumeAccepts, Goto, TypeOK, ValidJournal
    <3> QED BY <3>1 DEF EntryStep, Journals, Phases
  <2>2. CASE q # p \/ ~ResumeAccepts(r)
    BY <1>2, <2>2 DEF Resume, Goto, TypeOK
  <2> QED BY <2>1, <2>2
<1>3. ASSUME NEW q \in Procs, RenameJournal(q) PROVE Done
  <2>1. CASE q = p
    <3>1. mem[p] \in Journals /\ mem' = mem /\ pc'[p] = EntryStep(mem[p])
      BY <1>3, <2>1 DEF RenameJournal, Goto, TypeOK, ValidJournal, Steps, Writing
    <3> QED BY <3>1 DEF EntryStep, Journals, Phases
  <2>2. CASE q # p
    BY <1>3, <2>2 DEF RenameJournal, Goto, TypeOK
  <2> QED BY <2>1, <2>2
<1>4. ASSUME NEW q \in Procs, BackupsHandled(q) \/ KeyslotsDestroyed(q) PROVE Done
  <2>1. pc'[q] \in {"create", "failed"}
    BY <1>4 DEF BackupsHandled, KeyslotsDestroyed, Advance, Goto, TypeOK
  <2> QED
    BY <1>4, <2>1 DEF BackupsHandled, KeyslotsDestroyed, Advance, Goto, TypeOK
<1>5. ASSUME NEW q \in Procs,
             \/ Fault(q) \/ (\E b \in Backups : SkipBackup(q, b)) \/ CreateTmp(q)
             \/ (\E b \in Backups : FindBackup(q, b)) \/ ShredBackup(q)
             \/ UnlinkBackup(q)
             \/ CheckActive(q) \/ DestroySlots(q)
             \/ FinalVerify(q) \/ Quiesce(q) \/ RequestPoweroff(q)
             \/ RemoveJournal(q)
      PROVE  Done
  BY <1>5 DEF Fault, SkipBackup, CreateTmp, FindBackup, ShredBackup, UnlinkBackup,
                CheckActive,
              DestroySlots, FinalVerify, Quiesce, RequestPoweroff, RemoveJournal,
              Goto, TypeOK
<1>6. ASSUME NEW q \in Procs, CheckRecovery(q) PROVE Done
  BY <1>6 DEF CheckRecovery, Goto, TypeOK
<1>7. ASSUME PowerCut \/ PowerDown \/ Shutdown PROVE Done
  BY <1>7 DEF PowerCut, PowerDown, Shutdown, LosePower
<1>8. ASSUME Boot \/ EnterRoot \/ UNCHANGED vars PROVE Done
  BY <1>8 DEF Boot, EnterRoot, vars
<1>9. ASSUME NEW q \in Procs, Reap(q) PROVE Done
  BY <1>9 DEF Reap, Goto, TypeOK
<1> QED
  BY <1>1, <1>2, <1>3, <1>4, <1>5, <1>6, <1>7, <1>8, <1>9 DEF Next, Step, Failure

\* Requests are not forgotten.
LEMMA ExcuseStays ==
  ASSUME TypeOK, [Next]_vars, NEW d, Acked(d) \/ Opposed(d)
  PROVE  Acked(d)' \/ Opposed(d)'
BY DiskSteps DEF Acked, Opposed

\* Only luksErase or an opposed request takes a tested recovery slot away.
LEMMA NextRecoveryTested == IInv /\ RecoveryTested /\ [Next]_vars => RecoveryTested'
<1> SUFFICES ASSUME IInv, RecoveryTested, [Next]_vars,
                    NEW p \in Procs, pc'[p] \in {"active", "kill"},
                    mem'[p].mode = "killslot"
             PROVE  (\/ mem[p].recovery \in slots[mem[p].device]
                     \/ Acked(mem[p].device) \/ Opposed(mem[p].device))'
  BY DEF RecoveryTested
<1>1. TypeOK /\ PhaseFits
  BY DEF IInv
<1>2. /\ mem'[p] = mem[p]
      /\ \/ pc[p] \in {"active", "kill"}
         \/ mem[p].recovery \in slots[mem[p].device] /\ slots' = slots
  BY <1>1, BetweenTestAndKill
<1> PICK d : d = mem[p].device
  OBVIOUS
<1>3. \/ mem[p].recovery \in slots[d] \/ Acked(d) \/ Opposed(d)
  BY <1>2 DEF RecoveryTested
<1>4. CASE Acked(d) \/ Opposed(d)
  <2>1. Acked(d)' \/ Opposed(d)'
    BY <1>1, <1>4, ExcuseStays
  <2> QED BY <1>2, <2>1 DEF Acked, Opposed
<1>5. CASE slots' = slots
  BY <1>2, <1>3, <1>4, <1>5
<1>6. ASSUME NEW q \in Procs, DestroySlots(q), mem[p].recovery \in slots[d]
      PROVE  \/ mem[p].recovery \in slots'[d] \/ Acked(d) \/ Opposed(d)
  <2>1. mem[q] \in Journals /\ InPlay(mem[q]) /\ mem[q].mode \in Modes
    BY <1>1, <1>6, SlotSteps DEF InPlay, Journals
  <2>2. pc[p] \in Steps
    BY <1>1, <1>2, <1>6 DEF DestroySlots, Goto, TypeOK, Steps
  <2>3. mem[p] \in Journals /\ InPlay(mem[p]) /\ d \in Devices
    BY <1>1, <2>2 DEF TypeOK, ValidJournal, InPlay, Held, Journals
  <2>4. Known(mem[p]) /\ Known(mem[q])
    BY <2>1, <2>3 DEF IInv
  <2>5. CASE mem[q].device # d
    BY <1>1, <1>6, <2>3, <2>5, SlotSteps
  <2>6. CASE mem[q].device = d /\ mem[q].mode = "erase"
    BY <2>4, <2>6 DEF Known, SameRequest, Acked
  <2>7. CASE mem[q].device = d /\ mem[q].mode = "killslot" /\ mem[q].slot # mem[p].recovery
    BY <1>1, <1>6, <2>7, SlotSteps DEF Doomed
  <2>8. CASE mem[q].device = d /\ mem[q].mode = "killslot" /\ mem[q].slot = mem[p].recovery
    BY <1>2, <2>4, <2>8 DEF Known, SameRequest, Opposed
  <2> QED BY <2>1, <2>5, <2>6, <2>7, <2>8 DEF Modes
<1> QED
  BY <1>1, <1>2, <1>3, <1>4, <1>5, <1>6, DiskSteps

LEMMA NextKeepsAWayIn ==
  IInv /\ RecoveryTested /\ KeepsAWayIn /\ [Next]_vars => KeepsAWayIn'
<1> SUFFICES ASSUME IInv, RecoveryTested, KeepsAWayIn, [Next]_vars,
                    NEW d \in Devices, slots'[d] = {}, Lost(d)' # {}
             PROVE  Acked(d)' \/ Opposed(d)'
  BY DEF KeepsAWayIn
<1>1. TypeOK /\ PhaseFits
  BY DEF IInv
<1>2. CASE slots'[d] = slots[d]
  BY <1>1, <1>2, ExcuseStays DEF KeepsAWayIn, Lost
<1>3. CASE slots'[d] # slots[d]
  <2>1. PICK p \in Procs : DestroySlots(p)
    BY <1>1, <1>3, DiskSteps
  <2>2. mem[p] \in Journals /\ InPlay(mem[p]) /\ ValidJournal(mem[p])
    BY <1>1, <2>1, SlotSteps DEF InPlay, Held, TypeOK
  <2>3. mem[p].device = d
    BY <1>1, <1>3, <2>1, SlotSteps
  <2>4. Known(mem[p])
    BY <2>2 DEF IInv
  <2>5. CASE mem[p].mode = "erase"
    BY <1>1, <2>3, <2>4, <2>5, ExcuseStays DEF Known, SameRequest, Acked
  <2>6. CASE mem[p].mode = "killslot"
    <3>1. mem[p].recovery # mem[p].slot
      BY <2>2, <2>6 DEF ValidJournal, ValidModeSlots
    <3>2. mem[p].recovery \notin slots[d]
      BY <1>1, <2>1, <2>3, <2>6, <3>1, SlotSteps DEF Doomed
    <3>3. Acked(d) \/ Opposed(d)
      BY <2>1, <2>3, <2>6, <3>2 DEF DestroySlots, RecoveryTested
    <3> QED BY <1>1, <3>3, ExcuseStays
  <2> QED BY <2>2, <2>5, <2>6 DEF Journals, Modes
<1> QED BY <1>2, <1>3

\* For every set of command lines and any number of actors: a device loses its
\* last keyslot only to an acknowledged full erase or to requests that rely on
\* each other's slot.  Otherwise the recovery test is not stale when
\* luksKillSlot runs.
THEOREM RecoveryOutlivesWipe == Spec => []KeepsAWayIn
<1> DEFINE Inv == IInv /\ RecoveryTested /\ KeepsAWayIn
<1>1. Init => Inv
  <2> SUFFICES ASSUME Init PROVE Inv
    OBVIOUS
  <2>1. RecoveryTested
    BY DEF Init, RecoveryTested
  <2>2. KeepsAWayIn
    BY DEF Init, KeepsAWayIn, Lost
  <2> QED BY <2>1, <2>2, InitIInv
<1>2. Inv /\ [Next]_vars => Inv'
  BY NextIInv, NextRecoveryTested, NextKeepsAWayIn
<1>3. Inv => KeepsAWayIn
  OBVIOUS
<1> QED BY <1>1, <1>2, <1>3, PTL DEF Spec
=============================================================================
