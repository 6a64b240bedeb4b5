------------------------ MODULE EraseActorRefinement ------------------------
(***************************************************************************)
(* ds-erase implements DestructionContract whenever every request is after *)
(* the same keyslots and scans the same directory, which is how the        *)
(* product's own triggers use it.                                          *)
(***************************************************************************)
EXTENDS EraseActor_proofs

\* The process has its intent on disk, or had it there.
PastCommit(p) ==
  pc[p] \in Steps /\ ~(pc[p] \in Writing /\ mem[p].phase = "prepared")

\* Behind a process that is past its commit there is still a journal, of it or
\* of another, unless there is nothing left to do but the backups that another
\* scan could not read.
IntentKept ==
  \A p \in Procs : PastCommit(p) =>
    journal # NoJournal \/ (GoalReached(mem[p]) /\ Scanned(mem[p]))

\* The file being erased was found below the scan roots.
VictimInScan ==
  \A p \in Procs : pc[p] \in {"shred", "unlink"} => victim[p] \in mem[p].scan

\* Requests come from admissible command lines.
AllRequested ==
  \A r \in requests : \E a \in FireArgs : ParseModeOk(a) /\ r = PreparedJournal(a)

SameGoal(j, k) ==
  j.device = k.device /\ j.mode = k.mode /\ j.slot = k.slot /\ j.scan = k.scan

RInv == IInv /\ AllRequested /\ IntentKept /\ VictimInScan

-----------------------------------------------------------------------------
\* All journals in play have one goal.
LEMMA OneGoal ==
  ASSUME SameGoalRequests, RInv,
         NEW j \in Journals, InPlay(j), NEW k \in Journals, InPlay(k)
  PROVE  SameGoal(j, k)
<1>1. PICK r \in requests, q \in requests : SameRequest(r, j) /\ SameRequest(q, k)
  BY DEF RInv, IInv, Known
<1>2. SameGoal(r, q)
  BY DEF RInv, AllRequested, SameGoalRequests, SameGoal
<1> QED
  BY <1>1, <1>2 DEF SameRequest, SameGoal

LEMMA NextAllRequested ==
  ASSUME AllRequested, [Next]_vars
  PROVE  AllRequested'
<1> USE DEF diskVars, hwVars, procVars, scanVars, histVars
<1>1. ASSUME NEW p \in Procs, NEW a \in FireArgs, Fire(p, a) PROVE AllRequested'
  BY <1>1 DEF Fire, FireAccepts, AllRequested
<1>2. ASSUME requests' = requests PROVE AllRequested'
  BY <1>2 DEF AllRequested
<1>3. ASSUME NEW p \in Procs,
             \/ (\E r \in ResumeArgs : Resume(p, r)) \/ Reap(p) \/ Fault(p)
             \/ (\E b \in Backups : SkipBackup(p, b) \/ FindBackup(p, b))
             \/ CreateTmp(p) \/ RenameJournal(p) \/ ShredBackup(p)
             \/ UnlinkBackup(p) \/ BackupsHandled(p) \/ CheckRecovery(p)
             \/ CheckActive(p) \/ DestroySlots(p) \/ KeyslotsDestroyed(p)
             \/ FinalVerify(p) \/ Quiesce(p) \/ RequestPoweroff(p)
             \/ RemoveJournal(p)
      PROVE  requests' = requests
  BY <1>3 DEF Resume, Reap, Fault, SkipBackup, FindBackup, CreateTmp, RenameJournal,
              ShredBackup, UnlinkBackup, BackupsHandled, CheckRecovery, CheckActive,
              DestroySlots, KeyslotsDestroyed, FinalVerify, Quiesce,
              RequestPoweroff, RemoveJournal
<1>4. ASSUME PowerCut \/ PowerDown \/ Shutdown \/ Boot \/ EnterRoot \/ UNCHANGED vars
      PROVE  requests' = requests
  BY <1>4 DEF PowerCut, PowerDown, Shutdown, LosePower, Boot, EnterRoot, vars
<1> QED
  BY <1>1, <1>2, <1>3, <1>4 DEF Next, Step, Failure

LEMMA NextVictimInScan ==
  ASSUME TypeOK, VictimInScan, [Next]_vars
  PROVE  VictimInScan'
<1> USE DEF diskVars, hwVars, procVars, scanVars, histVars
<1>0. ASSUME NEW p \in Procs, pc'[p] \notin {"shred", "unlink"},
             \A q \in Procs \ {p} : /\ pc'[q] = pc[q] /\ mem'[q] = mem[q]
                                    /\ victim'[q] = victim[q]
      PROVE  VictimInScan'
  BY <1>0 DEF VictimInScan
<1>1. ASSUME NEW p \in Procs, NEW b \in Backups, FindBackup(p, b)
      PROVE  VictimInScan'
  BY <1>1 DEF FindBackup, Goto, TypeOK, VictimInScan
<1>2. ASSUME NEW p \in Procs, ShredBackup(p) PROVE VictimInScan'
  BY <1>2 DEF ShredBackup, Goto, TypeOK, VictimInScan
<1>3. ASSUME NEW p \in Procs, NEW b \in Backups, SkipBackup(p, b)
      PROVE  VictimInScan'
  BY <1>3 DEF SkipBackup, VictimInScan
<1>4. ASSUME NEW p \in Procs, NEW a \in FireArgs, Fire(p, a) PROVE VictimInScan'
  BY <1>0, <1>4 DEF Fire, Goto, TypeOK
<1>5. ASSUME NEW p \in Procs, NEW r \in ResumeArgs, Resume(p, r) PROVE VictimInScan'
  BY <1>0, <1>5 DEF Resume, ResumeAccepts, Goto, TypeOK, ValidJournal, Journals, Phases,
     EntryStep
<1>6. ASSUME NEW p \in Procs, RenameJournal(p) PROVE VictimInScan'
  BY <1>0, <1>6 DEF RenameJournal, Goto, TypeOK, ValidJournal, Journals, Phases, EntryStep,
     Steps, Writing
<1>7. ASSUME NEW p \in Procs, BackupsHandled(p) \/ KeyslotsDestroyed(p)
      PROVE  VictimInScan'
  BY <1>0, <1>7 DEF BackupsHandled, KeyslotsDestroyed, Advance, Goto, TypeOK
<1>8. ASSUME NEW p \in Procs,
             \/ Reap(p) \/ Fault(p) \/ CreateTmp(p) \/ UnlinkBackup(p)
             \/ CheckRecovery(p) \/ CheckActive(p) \/ DestroySlots(p)
             \/ FinalVerify(p) \/ Quiesce(p) \/ RequestPoweroff(p)
             \/ RemoveJournal(p)
      PROVE  VictimInScan'
  BY <1>0, <1>8 DEF Reap, Fault, CreateTmp, UnlinkBackup, CheckRecovery, CheckActive,
     DestroySlots, FinalVerify, Quiesce, RequestPoweroff, RemoveJournal, Goto, TypeOK
<1>9. ASSUME PowerCut \/ PowerDown \/ Shutdown PROVE VictimInScan'
  BY <1>9 DEF PowerCut, PowerDown, Shutdown, LosePower, VictimInScan
<1>10. ASSUME Boot \/ EnterRoot \/ UNCHANGED vars PROVE VictimInScan'
  BY <1>10 DEF Boot, EnterRoot, vars, VictimInScan
<1> QED
  BY <1>1, <1>2, <1>3, <1>4, <1>5, <1>6, <1>7, <1>8, <1>9, <1>10
  DEF Next, Step, Failure

\* A process gets past its commit with a journal on disk, and stays there with
\* the same goal.
LEMMA Commits ==
  ASSUME TypeOK, PhaseFits, [Next]_vars, NEW p \in Procs, PastCommit(p)'
  PROVE  journal' # NoJournal \/ (PastCommit(p) /\ SameGoal(mem'[p], mem[p]))
<1> USE DEF diskVars, hwVars, procVars, scanVars, histVars
<1> DEFINE Done == journal' # NoJournal \/ (PastCommit(p) /\ SameGoal(mem'[p], mem[p]))
<1>1. ASSUME NEW q \in Procs, NEW a \in FireArgs, Fire(q, a) PROVE Done
  <2>1. CASE q = p /\ FireAccepts(a)
    <3>1. pc'[p] = "create" /\ mem'[p].phase = "prepared"
      BY <1>1, <2>1, AcceptedIsValid DEF Fire, Goto, TypeOK
    <3> QED BY <3>1 DEF PastCommit, Writing
  <2>2. CASE q # p \/ ~FireAccepts(a)
    BY <1>1, <2>2 DEF Fire, Goto, TypeOK, PastCommit, SameGoal, Steps, Writing
  <2> QED BY <2>1, <2>2
<1>2. ASSUME NEW q \in Procs, NEW r \in ResumeArgs, Resume(q, r) PROVE Done
  <2>1. CASE ResumeAccepts(r)
    BY <1>2, <2>1 DEF Resume, ResumeAccepts
  <2>2. CASE ~ResumeAccepts(r)
    BY <1>2, <2>2 DEF Resume, Goto, TypeOK, PastCommit, SameGoal, Steps, Writing
  <2> QED BY <2>1, <2>2
<1>3. ASSUME NEW q \in Procs, RenameJournal(q) PROVE Done
  BY <1>3, ConstantsAssumption
  DEF RenameJournal, TypeOK, ValidJournal, Steps, Writing
<1>4. ASSUME NEW q \in Procs, BackupsHandled(q) \/ KeyslotsDestroyed(q) PROVE Done
  <2>1. CASE q = p
    <3>1. PastCommit(p) /\ mem[p] \in Journals
      BY <1>4, <2>1 DEF BackupsHandled, KeyslotsDestroyed, PastCommit, Steps,
                        Writing, TypeOK, ValidJournal
    <3>2. mem' = mem \/ \E ph \in Phases : mem'[p] = [mem[p] EXCEPT !.phase = ph]
      BY <1>4, <2>1 DEF BackupsHandled, KeyslotsDestroyed, Advance, TypeOK, Phases
    <3>3. SameGoal(mem'[p], mem[p])
      BY <3>1, <3>2 DEF SameGoal, Journals
    <3> QED BY <3>1, <3>3
  <2>2. CASE q # p
    BY <1>4, <2>2 DEF BackupsHandled, KeyslotsDestroyed, Advance, Goto, TypeOK,
                      PastCommit, SameGoal
  <2> QED BY <2>1, <2>2
<1>5. ASSUME NEW q \in Procs,
             \/ Fault(q) \/ (\E b \in Backups : SkipBackup(q, b)) \/ CreateTmp(q)
             \/ (\E b \in Backups : FindBackup(q, b)) \/ ShredBackup(q)
             \/ UnlinkBackup(q) \/ CheckRecovery(q) \/ CheckActive(q) \/ DestroySlots(q)
             \/ FinalVerify(q) \/ Quiesce(q) \/ RequestPoweroff(q)
             \/ RemoveJournal(q)
      PROVE  Done
  <2>1. mem' = mem
    BY <1>5 DEF Fault, SkipBackup, CreateTmp, FindBackup, ShredBackup,
                UnlinkBackup, CheckRecovery,
                CheckActive, DestroySlots, FinalVerify, Quiesce, RequestPoweroff,
                RemoveJournal
  <2>2. \/ pc' = pc
        \/ \E step :
             /\ pc' = [pc EXCEPT ![q] = step]
             /\ \/ step \notin Steps
                \/ step \in Writing /\ pc[q] \in Writing
                \/ pc[q] \in Steps \ Writing
    BY <1>5 DEF Fault, SkipBackup, CreateTmp, FindBackup, ShredBackup,
                UnlinkBackup, CheckRecovery,
                CheckActive, DestroySlots, FinalVerify, Quiesce, RequestPoweroff,
                RemoveJournal, Goto, Steps, Writing
  <2> QED
    BY <2>1, <2>2 DEF TypeOK, PastCommit, SameGoal, Steps
<1>6. ASSUME PowerCut \/ PowerDown \/ Shutdown PROVE Done
  BY <1>6 DEF PowerCut, PowerDown, Shutdown, LosePower, PastCommit, Steps, Writing
<1>7. ASSUME Boot \/ EnterRoot \/ UNCHANGED vars PROVE Done
  BY <1>7 DEF Boot, EnterRoot, vars, PastCommit, SameGoal
<1>8. ASSUME NEW q \in Procs, Reap(q) PROVE Done
  BY <1>8 DEF Reap, Goto, TypeOK, PastCommit, SameGoal, Steps, Writing
<1> QED
  BY <1>1, <1>2, <1>3, <1>4, <1>5, <1>6, <1>7, <1>8 DEF Next, Step, Failure

\* The journal is unlinked by a process whose goal, and so everyone's, is
\* reached.
LEMMA JournalRemoval ==
  ASSUME SameGoalRequests, RInv, NEW q \in Procs, pc[q] = "remove"
  PROVE  \A j \in Journals : InPlay(j) => GoalReached(j) /\ Scanned(j)
<1>1. mem[q] \in Journals /\ InPlay(mem[q]) /\ mem[q].phase = "destroyed"
  BY DEF RInv, IInv, TypeOK, PhaseFits, ValidJournal, InPlay, Held, Steps
<1>2. Scanned(mem[q]) /\ GoalReached(mem[q])
  BY <1>1 DEF RInv, IInv
<1>3. \A j \in Journals : InPlay(j) => SameGoal(j, mem[q])
  BY <1>1, OneGoal
<1> QED
  BY <1>2, <1>3 DEF SameGoal, GoalReached, Doomed, Scanned

\* Who makes the journal file disappear.
LEMMA JournalSurvives ==
  ASSUME TypeOK, [Next]_vars, journal # NoJournal, journal' = NoJournal
  PROVE  \E q \in Procs : RemoveJournal(q)
<1> USE DEF diskVars, hwVars, procVars, scanVars, histVars
<1>1. ASSUME NEW q \in Procs, RenameJournal(q) PROVE FALSE
  BY <1>1, ConstantsAssumption
  DEF RenameJournal, TypeOK, ValidJournal, Steps, Writing
<1>2. ASSUME NEW q \in Procs,
             \/ (\E a \in FireArgs : Fire(q, a)) \/ (\E r \in ResumeArgs : Resume(q, r))
             \/ Reap(q) \/ Fault(q) \/ CreateTmp(q)
             \/ (\E b \in Backups : SkipBackup(q, b) \/ FindBackup(q, b))
             \/ ShredBackup(q) \/ UnlinkBackup(q)
             \/ BackupsHandled(q) \/ CheckRecovery(q) \/ CheckActive(q)
             \/ DestroySlots(q) \/ KeyslotsDestroyed(q) \/ FinalVerify(q)
             \/ Quiesce(q) \/ RequestPoweroff(q)
      PROVE  FALSE
  BY <1>2 DEF Fire, Resume, Reap, Fault, CreateTmp, SkipBackup, FindBackup,
              ShredBackup, UnlinkBackup,
              BackupsHandled, CheckRecovery, CheckActive, DestroySlots,
              KeyslotsDestroyed, FinalVerify, Quiesce, RequestPoweroff
<1>3. ASSUME PowerCut \/ PowerDown \/ Shutdown \/ Boot \/ EnterRoot \/ UNCHANGED vars
      PROVE  FALSE
  BY <1>3 DEF PowerCut, PowerDown, Shutdown, LosePower, Boot, EnterRoot, vars
<1> QED
  BY <1>1, <1>2, <1>3 DEF Next, Step, Failure

LEMMA NextIntentKept ==
  ASSUME SameGoalRequests, RInv, [Next]_vars
  PROVE  IntentKept'
<1>1. TypeOK /\ PhaseFits
  BY DEF RInv, IInv
<1> SUFFICES ASSUME NEW p \in Procs, PastCommit(p)', journal' = NoJournal
             PROVE  GoalReached(mem[p])' /\ Scanned(mem[p])'
  BY DEF IntentKept
<1>2. PastCommit(p) /\ SameGoal(mem'[p], mem[p])
  BY <1>1, Commits
<1>3. mem[p] \in Journals /\ InPlay(mem[p])
  BY <1>1, <1>2 DEF PastCommit, TypeOK, ValidJournal, InPlay, Held
<1>4. GoalReached(mem[p]) /\ Scanned(mem[p])
  <2>1. CASE journal = NoJournal
    BY <1>2, <2>1 DEF RInv, IntentKept
  <2>2. CASE journal # NoJournal
    <3>1. PICK q \in Procs : RemoveJournal(q)
      BY <1>1, <2>2, JournalSurvives
    <3> QED
      BY <1>3, <3>1, JournalRemoval DEF RemoveJournal
  <2> QED BY <2>1, <2>2
<1>5. GoalReached(mem[p])'
  <2>1. slots'[mem[p].device] \cap Doomed(mem[p]) = {}
    BY <1>1, <1>3, <1>4, GoalStaysReached DEF GoalReached
  <2> QED
    BY <1>2, <2>1 DEF SameGoal, GoalReached, Doomed
<1>6. Scanned(mem[p])'
  BY <1>1, <1>2, <1>4, DiskSteps DEF SameGoal, Scanned
<1> QED
  BY <1>5, <1>6

-----------------------------------------------------------------------------
(***************************************************************************)
(* Step simulation                                                         *)
(***************************************************************************)

\* The journal's goal is one of the contract's.
LEMMA PendingIsAGoal ==
  ASSUME NEW j \in Journals, ValidJournal(j)
  PROVE  [device |-> j.device, doomed |-> Doomed(j), scan |-> j.scan] \in Contract!Goals
<1>1. j.device \in Devices /\ Doomed(j) \subseteq SlotNumbers /\ j.scan \subseteq Backups
  BY ConstantsAssumption DEF Journals, ValidJournal, ValidModeSlots, Doomed, OptSlot
<1> QED BY <1>1 DEF Contract!Goals

LEMMA PendingCases ==
  ASSUME TypeOK
  PROVE  /\ journal = NoJournal => PendingGoal = NoJournal
         /\ journal # NoJournal =>
              /\ journal \in Journals /\ ValidJournal(journal)
              /\ PendingGoal # NoJournal
              /\ PendingGoal = [device |-> journal.device, doomed |-> Doomed(journal),
                               scan |-> journal.scan]
              /\ PendingGoal.device = journal.device
              /\ PendingGoal.doomed = Doomed(journal)
              /\ PendingGoal.scan = journal.scan
<1>1. CASE journal = NoJournal
  BY <1>1 DEF PendingGoal
<1>2. CASE journal # NoJournal
  <2>1. journal \in Journals /\ ValidJournal(journal)
    BY <1>2 DEF TypeOK, ValidJournal
  <2>2. PendingGoal = [device |-> journal.device, doomed |-> Doomed(journal),
                               scan |-> journal.scan]
    BY <1>2 DEF PendingGoal
  <2>3. PendingGoal \in Goals
    BY <2>1, <2>2, PendingIsAGoal DEF Contract!Goals, Goals
  <2> QED
    BY <1>2, <2>1, <2>2, <2>3, ConstantsAssumption
<1> QED BY <1>1, <1>2

LEMMA StepSimulation ==
  ASSUME SameGoalRequests, RInv, RInv', [Next]_vars
  PROVE  [Contract!Next]_<<slots, backups, overlooked, PendingGoal>>
<1> DEFINE Sim == [Contract!Next]_<<slots, backups, overlooked, PendingGoal>>
<1>1. TypeOK /\ TypeOK' /\ PhaseFits
  BY DEF RInv, IInv
<1>2. ASSUME UNCHANGED <<slots, backups, overlooked, journal>> PROVE Sim
  BY <1>2 DEF PendingGoal
<1>3. ASSUME NEW p \in Procs, ShredBackup(p) \/ UnlinkBackup(p) PROVE Sim
  <2>1. UNCHANGED <<slots, overlooked, journal>> /\ UNCHANGED PendingGoal
    BY <1>3 DEF ShredBackup, UnlinkBackup, histVars, PendingGoal
  <2>2. CASE backups' = backups
    BY <1>2, <2>1, <2>2
  <2>3. CASE backups' # backups
    <3>1. victim[p] \in backups /\ backups' = backups \ {victim[p]}
      BY <1>3, <2>3 DEF ShredBackup, UnlinkBackup
    <3>2. PastCommit(p) /\ victim[p] \in mem[p].scan
      BY <1>3 DEF ShredBackup, UnlinkBackup, PastCommit, Steps, Writing, RInv, VictimInScan
    <3>3. PendingGoal # NoJournal \/ victim[p] \in overlooked
      BY <1>1, <3>1, <3>2, PendingCases DEF RInv, IntentKept, Scanned
    <3>4. Contract!RemoveBackup
      BY <2>1, <3>1, <3>3 DEF Contract!RemoveBackup
    <3> QED BY <3>4 DEF Contract!Next
  <2> QED BY <2>2, <2>3
<1>9. ASSUME NEW p \in Procs, NEW b \in Backups, SkipBackup(p, b) PROVE Sim
  <2>1. /\ b \in backups \cap mem[p].scan /\ PastCommit(p)
        /\ overlooked' = overlooked \cup {b}
        /\ UNCHANGED <<slots, backups, journal>> /\ UNCHANGED PendingGoal
    BY <1>9 DEF SkipBackup, diskVars, PendingGoal, PastCommit, Steps, Writing
  <2>2. CASE journal = NoJournal
    <3>1. overlooked' = overlooked
      BY <2>1, <2>2 DEF RInv, IntentKept, Scanned
    <3> QED BY <1>2, <2>1, <3>1
  <2>3. CASE journal # NoJournal
    <3>1. Contract!Overlook
      BY <1>1, <2>1, <2>3, PendingCases DEF Contract!Overlook
    <3> QED BY <3>1 DEF Contract!Next
  <2> QED BY <2>2, <2>3
<1>4. ASSUME NEW p \in Procs, DestroySlots(p) PROVE Sim
  <2>1. /\ mem[p] \in Journals /\ InPlay(mem[p]) /\ ValidJournal(mem[p])
        /\ mem[p].device \in Devices
    BY <1>1, <1>4, SlotSteps DEF InPlay, Held, TypeOK, Journals
  <2>2. UNCHANGED <<backups, overlooked, journal>> /\ UNCHANGED PendingGoal
    BY <1>4 DEF DestroySlots, histVars, PendingGoal
  <2>3. CASE slots' = slots
    BY <1>2, <2>2, <2>3
  <2>4. CASE slots' # slots
    <3>1. slots' = [slots EXCEPT ![mem[p].device] = @ \ Doomed(mem[p])]
      <4>1. CASE mem[p].mode = "killslot"
        BY <1>4, <2>4, <4>1 DEF DestroySlots, Doomed
      <4>2. CASE mem[p].mode = "erase"
        <5>1. slots[mem[p].device] \ SlotNumbers = {}
          BY <1>1, <2>1 DEF TypeOK
        <5> QED
          BY <1>4, <4>2, <5>1 DEF DestroySlots, Doomed
      <4> QED BY <2>1, <4>1, <4>2 DEF Journals, Modes
    <3>2. ~GoalReached(mem[p])
      <4>1. ASSUME GoalReached(mem[p]) PROVE slots' = slots
        <5>1. slots[mem[p].device] \ Doomed(mem[p]) = slots[mem[p].device]
          BY <4>1 DEF GoalReached
        <5> QED BY <1>1, <3>1, <5>1 DEF TypeOK
      <4> QED BY <2>4, <4>1
    <3>3. PastCommit(p)
      BY <1>4 DEF DestroySlots, PastCommit, Steps, Writing
    <3>4. journal # NoJournal
      BY <3>2, <3>3 DEF RInv, IntentKept
    <3>5. Scanned(mem[p])
      BY <1>1, <1>4, <2>1 DEF DestroySlots, PhaseFits, RInv, IInv
    <3>6. SameGoal(journal, mem[p])
      BY <1>1, <2>1, <3>4, OneGoal, PendingCases DEF InPlay
    <3>7. /\ PendingGoal # NoJournal /\ PendingGoal.device = mem[p].device
          /\ PendingGoal.doomed = Doomed(mem[p]) /\ PendingGoal.scan = mem[p].scan
      BY <1>1, <3>4, <3>6, PendingCases DEF SameGoal, Doomed
    <3>8. Contract!Destroy
      BY <2>2, <3>1, <3>5, <3>7 DEF Contract!Destroy, Contract!ToRemove, Scanned
    <3> QED BY <3>8 DEF Contract!Next
  <2> QED BY <2>3, <2>4
<1>5. ASSUME NEW p \in Procs, RenameJournal(p) PROVE Sim
  <2>1. /\ mem[p] \in Journals /\ InPlay(mem[p]) /\ ValidJournal(mem[p])
        /\ mem[p] # NoJournal
    BY <1>1, <1>5, ConstantsAssumption
    DEF RenameJournal, TypeOK, ValidJournal, InPlay, Held, Steps, Writing
  <2>2. journal' = mem[p] /\ UNCHANGED <<slots, backups, overlooked>>
    BY <1>5 DEF RenameJournal, histVars
  <2>3. PendingGoal' = [device |-> mem[p].device, doomed |-> Doomed(mem[p]),
                        scan |-> mem[p].scan]
    BY <2>1, <2>2 DEF PendingGoal, Doomed
  <2>4. CASE journal = NoJournal
    <3>1. Contract!Commit
      BY <1>1, <2>1, <2>2, <2>3, <2>4, PendingCases, PendingIsAGoal
      DEF Contract!Commit
    <3> QED BY <3>1 DEF Contract!Next
  <2>5. CASE journal # NoJournal
    <3>1. SameGoal(journal, mem[p])
      BY <1>1, <2>1, <2>5, OneGoal, PendingCases DEF InPlay
    <3>2. PendingGoal' = PendingGoal
      BY <1>1, <2>3, <2>5, <3>1, PendingCases DEF SameGoal, Doomed
    <3> QED BY <2>2, <3>2
  <2> QED BY <2>4, <2>5
<1>6. ASSUME NEW p \in Procs, RemoveJournal(p) PROVE Sim
  <2>1. /\ journal' = NoJournal /\ UNCHANGED <<slots, backups, overlooked>>
        /\ pc[p] = "remove"
    BY <1>6 DEF RemoveJournal, histVars
  <2>2. CASE journal = NoJournal
    BY <1>2, <2>1, <2>2
  <2>3. CASE journal # NoJournal
    <3>1. GoalReached(journal)
      BY <1>1, <2>1, <2>3, JournalRemoval, PendingCases DEF InPlay
    <3>2. PendingGoal # NoJournal /\ Contract!Fulfilled(PendingGoal)
      BY <1>1, <2>3, <3>1, PendingCases DEF GoalReached, Contract!Fulfilled
    <3>3. PendingGoal' = NoJournal
      BY <2>1 DEF PendingGoal
    <3>4. Contract!Discharge
      BY <2>1, <3>2, <3>3 DEF Contract!Discharge
    <3> QED BY <3>4 DEF Contract!Next
  <2> QED BY <2>2, <2>3
<1>7. ASSUME NEW p \in Procs,
             \/ (\E a \in FireArgs : Fire(p, a)) \/ (\E r \in ResumeArgs : Resume(p, r))
             \/ Reap(p) \/ Fault(p) \/ CreateTmp(p)
             \/ (\E b \in Backups : FindBackup(p, b)) \/ BackupsHandled(p)
             \/ CheckRecovery(p) \/ CheckActive(p) \/ KeyslotsDestroyed(p)
             \/ FinalVerify(p) \/ Quiesce(p) \/ RequestPoweroff(p)
      PROVE  Sim
  <2>1. UNCHANGED <<slots, backups, overlooked, journal>>
    BY <1>7 DEF Fire, Resume, Reap, Fault, CreateTmp, FindBackup, BackupsHandled,
                CheckRecovery, CheckActive, KeyslotsDestroyed, FinalVerify, Quiesce,
                RequestPoweroff, diskVars, histVars
  <2> QED BY <1>2, <2>1
<1>8. ASSUME PowerCut \/ PowerDown \/ Shutdown \/ Boot \/ EnterRoot \/ UNCHANGED vars PROVE Sim
  <2>1. UNCHANGED <<slots, backups, overlooked, journal>>
    BY <1>8 DEF PowerCut, PowerDown, Shutdown, LosePower, Boot, EnterRoot, vars, diskVars, histVars
  <2> QED BY <1>2, <2>1
<1> QED
  BY <1>3, <1>4, <1>5, <1>6, <1>7, <1>8, <1>9 DEF Next, Step, Failure

\* For any number of actors, faults and power cuts: when all requests are after
\* the same keyslots and backups, ds-erase implements the contract.
THEOREM ErasesByContract ==
  ASSUME SameGoalRequests
  PROVE  Spec => ImplementsContract
<1>1. Init => RInv
  <2> SUFFICES ASSUME Init PROVE RInv
    OBVIOUS
  <2>1. \A p \in Procs : pc[p] \notin Steps
    BY DEF Init, Steps, Writing
  <2>2. AllRequested /\ IntentKept /\ VictimInScan
    BY <2>1 DEF Init, AllRequested, IntentKept, PastCommit, VictimInScan
  <2> QED BY <2>2, InitIInv DEF RInv
<1>2. RInv /\ [Next]_vars => RInv'
  <2> SUFFICES ASSUME RInv, [Next]_vars PROVE RInv'
    OBVIOUS
  <2>1. IInv' /\ AllRequested' /\ VictimInScan'
    BY NextIInv, NextAllRequested, NextVictimInScan DEF RInv, IInv
  <2> QED BY <2>1, NextIntentKept DEF RInv
<1>3. Init => Contract!Init
  BY DEF Init, Contract!Init, PendingGoal
<1>4. RInv /\ RInv' /\ [Next]_vars
      => [Contract!Next]_<<slots, backups, overlooked, PendingGoal>>
  BY StepSimulation
<1> QED
  BY <1>1, <1>2, <1>3, <1>4, PTL DEF Spec, ImplementsContract, Contract!Spec
=============================================================================
