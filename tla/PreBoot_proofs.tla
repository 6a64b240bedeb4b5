--------------------------- MODULE PreBoot_proofs ---------------------------
(***************************************************************************)
(* Theorems about PreBoot, for every validated policy and any number of    *)
(* processes, boots, power cuts and failures.                              *)
(***************************************************************************)
EXTENDS PreBoot, EraseActorRefinement, FiniteSetTheorems

\* A step of ds-erase is a step of a running process, and moves only that one.
LEMMA OnlyRunnersStep ==
  ASSUME TypeOK, NEW p \in Procs, Step(p) \/ Failure(p)
  PROVE  /\ pc[p] \in Steps
         /\ \A q \in Procs \ {p} : pc'[q] = pc[q]
         /\ env' = env
<1> USE DEF Goto, TypeOK, Steps, Writing, diskVars, hwVars, procVars, scanVars, histVars
<1>1. ASSUME Failure(p) PROVE pc[p] \in Steps /\ env' = env
                              /\ \A q \in Procs \ {p} : pc'[q] = pc[q]
  BY <1>1 DEF Failure, Fault, SkipBackup
<1>2. ASSUME CreateTmp(p) \/ RenameJournal(p) PROVE pc[p] \in Steps /\ env' = env
                            /\ \A q \in Procs \ {p} : pc'[q] = pc[q]
  BY <1>2 DEF CreateTmp, RenameJournal
<1>3. ASSUME (\E b \in Backups : FindBackup(p, b)) \/ ShredBackup(p)
             \/ UnlinkBackup(p) \/ BackupsHandled(p)
      PROVE  pc[p] \in Steps /\ env' = env /\ \A q \in Procs \ {p} : pc'[q] = pc[q]
  BY <1>3 DEF FindBackup, ShredBackup, UnlinkBackup, BackupsHandled, Advance
<1>4. ASSUME CheckRecovery(p) \/ CheckActive(p) \/ DestroySlots(p)
             \/ KeyslotsDestroyed(p)
      PROVE  pc[p] \in Steps /\ env' = env /\ \A q \in Procs \ {p} : pc'[q] = pc[q]
  BY <1>4 DEF CheckRecovery, CheckActive, DestroySlots, KeyslotsDestroyed, Advance
<1>5. ASSUME FinalVerify(p) \/ Quiesce(p) \/ RequestPoweroff(p) \/ RemoveJournal(p)
      PROVE  pc[p] \in Steps /\ env' = env /\ \A q \in Procs \ {p} : pc'[q] = pc[q]
  BY <1>5 DEF FinalVerify, Quiesce, RequestPoweroff, RemoveJournal
<1> QED BY <1>1, <1>2, <1>3, <1>4, <1>5 DEF Step

\* Every step of the machine is one of EraseActor's or leaves its state alone.
LEMMA MachineStep == [MNext]_mvars => [Next]_vars
<1> SUFFICES ASSUME [MNext]_mvars PROVE [Next]_vars
  OBVIOUS
<1> USE PreBootAssumption
<1>1. CASE PowerOn
  BY <1>1 DEF PowerOn, Next
<1>2. CASE Start
  BY <1>2 DEF Start, Next
<1>3. CASE CountTmp \/ BumpRename \/ ResetRename \/ UnlockFault
  BY <1>3 DEF CountTmp, BumpRename, ResetRename, UnlockFault
<1>4. CASE TypeDuress \/ TypeKey \/ TypeWrong \/ OpenFails
  BY <1>4 DEF TypeDuress, TypeKey, TypeWrong, OpenFails
<1>5. CASE DoWipe
  BY <1>5 DEF DoWipe, Next
<1>6. CASE ChildExits
  BY <1>6 DEF ChildExits, Next
<1>7. CASE HookHalts \/ HookReturns
  BY <1>7 DEF HookHalts, HookReturns, Next
<1>8. CASE BootedTrigger
  BY <1>8 DEF BootedTrigger, Next
<1>9. ASSUME NEW p \in Procs, ActorStep(p) \/ ActorFault(p) PROVE Next
  BY <1>9 DEF ActorStep, ActorFault, Next
<1>10. CASE CutPower \/ PoweredDown \/ OwnerShutdown
  BY <1>10 DEF CutPower, PoweredDown, OwnerShutdown, Next
<1>11. CASE UNCHANGED mvars
  BY <1>11 DEF mvars
<1> QED
  BY <1>1, <1>2, <1>3, <1>4, <1>5, <1>6, <1>7, <1>8, <1>9, <1>10, <1>11
  DEF MNext, UnlockStep

\* The machine runs ds-erase as EraseActor describes it, so that every theorem
\* about EraseActor is one about the machine.
THEOREM MachineRunsAnActor == MSafety => RunsAnActor
<1>1. MInit => Init
  BY DEF MInit
<1> QED
  BY <1>1, MachineStep, PTL DEF MSafety, RunsAnActor, Spec

\* Hooks, ds-unlock, booted triggers and power cuts together do to keyslots and
\* backups only what the destruction contract allows, when every trigger is
\* after the same keyslots and backups.
THEOREM MachineErasesByContract ==
  ASSUME SameGoalRequests
  PROVE  MSafety => ImplementsContract
BY MachineRunsAnActor, ErasesByContract, PTL DEF RunsAnActor

\* Through any number of boots a device loses its last keyslot only to an
\* acknowledged full erase, or to triggers that spend each other's recovery
\* slot.
THEOREM MachineKeepsAWayIn == MSafety => []KeepsAWayIn
BY MachineRunsAnActor, RecoveryOutlivesWipe, PTL DEF RunsAnActor

-----------------------------------------------------------------------------
(***************************************************************************)
(* The unlock protocol                                                     *)
(***************************************************************************)

\* ds-unlock's own types.
UTypeOK ==
  /\ upc \in Calls \cup {"off", "waiting", "halt", "exhausted", "root"}
  /\ left \in 0..MaxPrompts /\ counter \in Nat /\ guesses \in Nat
  /\ ctmps \subseteq UnlockPids /\ upid \in UnlockPids
  /\ ufaults \in 0..MaxUnlockFaults

\* Nothing runs without power.  Outside "waiting" no ds-erase runs in the
\* initramfs; inside, at most one.
OneChild ==
  /\ (upc = "off") <=> (env # "initramfs")
  /\ env = "off" => \A p \in Procs : pc[p] = "idle"
  /\ upc \notin {"off", "waiting"} => \A p \in Procs : pc[p] = "idle"
  /\ upc = "waiting" => \E p \in Procs : \A q \in Procs \ {p} : pc[q] = "idle"

\* While a secret is being asked for or dealt with, the prompts that are left
\* cover the distance to the wipe line.
EnoughLeft ==
  /\ upc = "prompt" => counter + left >= WipeAt
  /\ upc \in Writes => counter + left + 1 >= WipeAt

UInv ==
  /\ TypeOK /\ UTypeOK /\ OneChild
  /\ NoCredentialWhilePending /\ EnoughLeft /\ PromptsSuffice

LEMMA PolicyFacts ==
  /\ WipeAt \in Nat /\ MaxPrompts \in Nat /\ MaxUnlockFaults \in Nat
  /\ 2 <= WipeAt /\ WipeAt <= MaxPrompts /\ UnlockPids # {}
BY PreBootAssumption DEF ValidPolicy

LEMMA InitUInv == MInit => UInv
<1> SUFFICES ASSUME MInit PROVE UInv
  OBVIOUS
<1>1. TypeOK
  BY InitTypeOK DEF MInit
<1>2. UTypeOK
  BY PolicyFacts DEF MInit, UTypeOK
<1>3. OneChild
  BY DEF MInit, Init, OneChild
<1> QED
  BY <1>1, <1>2, <1>3 DEF MInit, UInv, NoCredentialWhilePending, EnoughLeft,
                          PromptsSuffice, Asking, Writes

\* In the initramfs with no child, ds-erase takes no step.
LEMMA NoChildNoStep ==
  ASSUME UInv, NEW p \in Procs, ActorStep(p) \/ ActorFault(p)
  PROVE  /\ upc \in {"off", "waiting"} /\ UNCHANGED unlockVars /\ env' = env
         /\ pc[p] # "idle" /\ \A q \in Procs \ {p} : pc'[q] = pc[q]
BY OnlyRunnersStep DEF UInv, OneChild, ActorStep, ActorFault, Steps, Writing

LEMMA NextUTypeOK == UInv /\ [MNext]_mvars => UTypeOK'
<1> SUFFICES ASSUME UInv, [MNext]_mvars PROVE UTypeOK'
  OBVIOUS
<1> USE PolicyFacts DEF UInv, UTypeOK, Calls, Writes
<1>1. CASE PowerOn \/ Start \/ CutPower \/ PoweredDown
  BY <1>1 DEF PowerOn, Start, CutPower, PoweredDown
<1>2. CASE CountTmp \/ UnlockFault
  BY <1>2 DEF CountTmp, UnlockFault
<1>3. CASE BumpRename \/ ResetRename
  BY <1>3 DEF BumpRename, ResetRename
<1>4. CASE TypeDuress \/ TypeKey \/ TypeWrong \/ OpenFails
  <2>1. left - 1 \in 0..MaxPrompts
    BY <1>4 DEF TypeDuress, TypeKey, TypeWrong, OpenFails, EnoughLeft,
                NoCredentialWhilePending, Asking
  <2> QED
    BY <1>4, <2>1 DEF TypeDuress, TypeKey, TypeWrong, OpenFails
<1>5. CASE DoWipe \/ ChildExits \/ HookHalts \/ HookReturns
  BY <1>5 DEF DoWipe, ChildExits, HookHalts, HookReturns
<1>6. CASE UNCHANGED unlockVars
  BY <1>6 DEF unlockVars
<1> QED
  BY <1>1, <1>2, <1>3, <1>4, <1>5, <1>6
  DEF MNext, UnlockStep, BootedTrigger, ActorStep, ActorFault, OwnerShutdown, mvars

LEMMA NextOneChild == UInv /\ [MNext]_mvars => OneChild'
<1> SUFFICES ASSUME UInv, [MNext]_mvars PROVE OneChild'
  OBVIOUS
<1> USE DEF UInv, OneChild, UTypeOK, TypeOK, Calls, Writes, Goto
<1>1. CASE PowerOn
  BY <1>1 DEF PowerOn, Boot, procVars, LosePower
<1>2. CASE Start
  <2>1. CASE UNCHANGED vars
    BY <1>2, <2>1 DEF Start, vars, procVars, hwVars
  <2>2. ASSUME NEW p \in Procs, Resume(p, ResumeLine), upc' = "waiting"
        PROVE  OneChild'
    BY <1>2, <2>2 DEF Start, Resume, hwVars
  <2> QED
    BY <1>2, <2>1, <2>2 DEF Start
<1>3. CASE CountTmp \/ BumpRename \/ ResetRename \/ UnlockFault
  BY <1>3 DEF CountTmp, BumpRename, ResetRename, UnlockFault, vars, procVars, hwVars
<1>4. CASE TypeDuress \/ TypeKey \/ TypeWrong \/ OpenFails
  BY <1>4 DEF TypeDuress, TypeKey, TypeWrong, OpenFails, vars, procVars, hwVars
<1>5. CASE DoWipe
  BY <1>5 DEF DoWipe, Fire, hwVars
<1>6. CASE ChildExits
  BY <1>6 DEF ChildExits, Reap, hwVars
<1>7. CASE HookHalts \/ CutPower \/ PoweredDown \/ OwnerShutdown
  BY <1>7 DEF HookHalts, CutPower, PoweredDown, OwnerShutdown, Shutdown, PowerCut,
              PowerDown, LosePower, unlockVars
<1>8. CASE HookReturns
  BY <1>8 DEF HookReturns, EnterRoot
<1>9. CASE BootedTrigger
  <2>1. env' = env
    BY <1>9 DEF BootedTrigger, Fire, Resume, Reap, hwVars
  <2> QED
    BY <1>9, <2>1 DEF BootedTrigger, unlockVars
<1>10. ASSUME NEW p \in Procs, ActorStep(p) \/ ActorFault(p) PROVE OneChild'
  BY <1>10, NoChildNoStep DEF unlockVars
<1>11. CASE UNCHANGED mvars
  BY <1>11 DEF mvars, vars, procVars, hwVars, unlockVars
<1> QED
  BY <1>1, <1>2, <1>3, <1>4, <1>5, <1>6, <1>7, <1>8, <1>9, <1>10, <1>11
  DEF MNext, UnlockStep

\* The heart of the protocol: what ds-unlock found at its start still holds
\* when the answer to its prompt comes, and each wrong answer brings the wipe
\* line one nearer for the one prompt it uses up.
LEMMA NextUnlock ==
  UInv /\ [MNext]_mvars => (NoCredentialWhilePending /\ EnoughLeft /\ PromptsSuffice)'
<1> DEFINE Unlock == NoCredentialWhilePending /\ EnoughLeft /\ PromptsSuffice
<1> SUFFICES ASSUME UInv, [MNext]_mvars PROVE Unlock'
  OBVIOUS
<1> USE PolicyFacts DEF UInv, UTypeOK, NoCredentialWhilePending, EnoughLeft,
                        PromptsSuffice, Asking, Calls, Writes
<1>1. CASE PowerOn \/ CutPower \/ PoweredDown
  BY <1>1 DEF PowerOn, CutPower, PoweredDown
<1>2. CASE Start
  BY <1>2 DEF Start, vars, diskVars
<1>3. CASE CountTmp \/ UnlockFault
  BY <1>3 DEF CountTmp, UnlockFault, vars, diskVars
<1>4. CASE BumpRename \/ ResetRename
  BY <1>4 DEF BumpRename, ResetRename, vars, diskVars
<1>5. CASE TypeDuress \/ TypeKey \/ TypeWrong \/ OpenFails
  BY <1>5 DEF TypeDuress, TypeKey, TypeWrong, OpenFails, vars, diskVars
<1>6. CASE DoWipe \/ ChildExits \/ HookHalts \/ HookReturns
  BY <1>6 DEF DoWipe, ChildExits, HookHalts, HookReturns
<1>7. CASE BootedTrigger \/ OwnerShutdown
  BY <1>7 DEF BootedTrigger, OwnerShutdown, unlockVars, OneChild
<1>8. ASSUME NEW p \in Procs, ActorStep(p) \/ ActorFault(p) PROVE Unlock'
  BY <1>8, NoChildNoStep DEF unlockVars
<1>9. CASE UNCHANGED mvars
  BY <1>9 DEF mvars, vars, diskVars, unlockVars
<1> QED
  BY <1>1, <1>2, <1>3, <1>4, <1>5, <1>6, <1>7, <1>8, <1>9 DEF MNext, UnlockStep

LEMMA NextUInv == UInv /\ [MNext]_mvars => UInv'
<1>1. UInv /\ [MNext]_mvars => TypeOK'
  BY MachineStep, NextTypeOK DEF UInv
<1> QED
  BY <1>1, NextUTypeOK, NextOneChild, NextUnlock DEF UInv

\* The inductive invariant of the boot cycle.
THEOREM BootCycleInvariant == MSafety => []UInv
BY InitUInv, NextUInv, PTL DEF MSafety

\* ds-unlock runs in the initramfs only and beside no ds-erase but the one it
\* waits for.
THEOREM MachineTypeCorrect == MSafety => []MTypeOK
<1>1. UInv => MTypeOK
  BY DEF UInv, UTypeOK, OneChild, MTypeOK
<1> QED
  BY BootCycleInvariant, <1>1, PTL

\* "Resume an interrupted destructive transaction before accepting any
\* credential", for every policy and any history of boots, cuts and failures.
THEOREM ResumeBeforeCredential == MSafety => []NoCredentialWhilePending
<1>1. UInv => NoCredentialWhilePending
  BY DEF UInv
<1> QED
  BY BootCycleInvariant, <1>1, PTL

\* In a state of UInv only a boot that is below the limit is at the steps that
\* clear the counter or go on to the root.
LEMMA LimitStep ==
  ASSUME UInv, [MNext]_mvars, counter >= WipeAt
  PROVE  counter' >= WipeAt /\ (env' = "booted" => env = "booted")
<1> USE PolicyFacts DEF UInv, UTypeOK
<1>1. upc \notin {"root", "resetRename"}
  BY DEF NoCredentialWhilePending, Asking, Writes
<1>2. counter' >= WipeAt
  <2>1. CASE BumpRename
    BY <2>1 DEF BumpRename
  <2>2. CASE ~BumpRename
    BY <1>1, <2>2 DEF MNext, UnlockStep, PowerOn, Start, CountTmp, ResetRename, DoWipe,
       ChildExits, HookHalts, HookReturns, TypeDuress, TypeKey, TypeWrong, OpenFails,
       UnlockFault, BootedTrigger, ActorStep, ActorFault, CutPower, PoweredDown,
       OwnerShutdown, unlockVars, mvars
  <2> QED
    BY <2>1, <2>2
<1>3. ASSUME env' = "booted" PROVE env = "booted"
  <2>1. CASE PowerOn
    BY <2>1, <1>3 DEF PowerOn, Boot
  <2>2. CASE Start \/ DoWipe \/ ChildExits \/ BootedTrigger
    BY <2>2, <1>3 DEF Start, DoWipe, ChildExits, BootedTrigger, Fire, Resume, Reap, hwVars,
       vars
  <2>3. CASE CountTmp \/ BumpRename \/ ResetRename \/ UnlockFault
    BY <2>3, <1>3 DEF CountTmp, BumpRename, ResetRename, UnlockFault, vars, hwVars
  <2>4. CASE TypeDuress \/ TypeKey \/ TypeWrong \/ OpenFails
    BY <2>4, <1>3 DEF TypeDuress, TypeKey, TypeWrong, OpenFails, vars, hwVars
  <2>5. CASE HookHalts \/ CutPower \/ PoweredDown \/ OwnerShutdown
    BY <2>5, <1>3 DEF HookHalts, CutPower, PoweredDown, OwnerShutdown, Shutdown, PowerCut,
       PowerDown, LosePower
  <2>6. CASE HookReturns
    BY <1>1, <2>6 DEF HookReturns
  <2>7. ASSUME NEW p \in Procs, ActorStep(p) \/ ActorFault(p) PROVE env = "booted"
    BY <1>3, <2>7, NoChildNoStep
  <2>8. CASE UNCHANGED mvars
    BY <2>8, <1>3 DEF mvars, vars, hwVars
  <2> QED
    BY <2>1, <2>2, <2>3, <2>4, <2>5, <2>6, <2>7, <2>8 DEF MNext, UnlockStep
<1> QED
  BY <1>2, <1>3

\* The limit, once on the ESP, is there for good, and no boot gets past it.
THEOREM LimitIsKept == MSafety => LimitHolds
<1>1. UInv /\ [MNext]_mvars
      => [counter >= WipeAt => counter' >= WipeAt /\ (env' = "booted" => env = "booted")]_mvars
  BY LimitStep
<1> QED
  BY <1>1, BootCycleInvariant, PTL DEF MSafety, LimitHolds

\* The journals of the initramfs are ds-unlock's, as its resume expects them.
Own(j) ==
  /\ Disposable /\ ValidModeSlots("killslot", RecordedDaily, RecordedRecovery)
  /\ j.mode = "killslot" /\ j.slot = RecordedDaily /\ j.recovery = RecordedRecovery
  /\ j.device = BootDevice /\ j.map = BootMap

Mine(j) == j.root = "initramfs" => Own(j)

OwnJournals ==
  /\ journal # NoJournal => Mine(journal)
  /\ \A p \in Procs : pc[p] \in Steps => Mine(mem[p])

\* What ds-unlock and the booted triggers put into a new journal.
LEMMA FiredIsMine ==
  ASSUME NEW a \in FireArgs, FireAccepts(a), a = WipeLine \/ a.root = "booted"
  PROVE  Mine(PreparedJournal(a))
<1>1. CASE a = WipeLine
  BY <1>1, PreBootAssumption, ConstantsAssumption
  DEF FireAccepts, ParseModeOk, ParsedMode, Target, PreparedJournal, WipeLine, Mine, Own
<1>2. CASE a.root = "booted"
  BY <1>2 DEF PreparedJournal, Mine
<1> QED
  BY <1>1, <1>2

LEMMA FireKeepsMine ==
  ASSUME TypeOK, OwnJournals, NEW p \in Procs, NEW a \in FireArgs, Fire(p, a),
         a = WipeLine \/ a.root = "booted"
  PROVE  OwnJournals'
<1>1. journal' = journal
  BY DEF Fire, diskVars
<1>2. ASSUME NEW q \in Procs, pc'[q] \in Steps PROVE Mine(mem'[q])
  <2>1. CASE q = p /\ FireAccepts(a)
    BY <2>1, FiredIsMine DEF Fire, TypeOK
  <2>2. CASE ~(q = p /\ FireAccepts(a))
    BY <1>2, <2>2 DEF Fire, Goto, TypeOK, OwnJournals, Steps, Writing
  <2> QED
    BY <2>1, <2>2
<1> QED
  BY <1>1, <1>2 DEF OwnJournals, Mine, Own

LEMMA ResumeKeepsMine ==
  ASSUME TypeOK, OwnJournals, NEW p \in Procs, NEW r, Resume(p, r)
  PROVE  OwnJournals'
<1>1. journal' = journal
  BY DEF Resume, diskVars
<1>2. ASSUME NEW q \in Procs, pc'[q] \in Steps PROVE Mine(mem'[q])
  <2>1. CASE q = p /\ ResumeAccepts(r)
    BY <2>1 DEF Resume, ResumeAccepts, TypeOK, OwnJournals
  <2>2. CASE ~(q = p /\ ResumeAccepts(r))
    BY <1>2, <2>2 DEF Resume, Goto, TypeOK, OwnJournals, Steps, Writing
  <2> QED
    BY <2>1, <2>2
<1> QED
  BY <1>1, <1>2 DEF OwnJournals, Mine, Own

\* A running ds-erase changes nothing of its journal but the phase.
LEMMA ActorKeepsMine ==
  ASSUME TypeOK, OwnJournals, NEW p \in Procs, Step(p) \/ Failure(p)
  PROVE  OwnJournals'
<1> USE DEF Goto, TypeOK, Steps, Writing, diskVars, hwVars, histVars
<1>1. pc[p] \in Steps /\ \A q \in Procs \ {p} : pc'[q] = pc[q]
  BY OnlyRunnersStep
<1>2. journal' \in {journal, NoJournal, mem[p]}
  BY DEF Step, Failure, Fault, SkipBackup, CreateTmp, RenameJournal, FindBackup, ShredBackup,
     UnlinkBackup, BackupsHandled,
     CheckRecovery, CheckActive, DestroySlots, KeyslotsDestroyed, FinalVerify, Quiesce,
     RequestPoweroff, RemoveJournal
<1>3. mem' = mem \/ \E ph \in Phases : mem' = [mem EXCEPT ![p].phase = ph]
  BY DEF Step, Failure, Fault, SkipBackup, CreateTmp, RenameJournal, FindBackup, ShredBackup,
     UnlinkBackup, BackupsHandled,
     CheckRecovery, CheckActive, DestroySlots, KeyslotsDestroyed, FinalVerify, Quiesce,
     RequestPoweroff, RemoveJournal, Advance, Phases
<1>4. Mine(mem[p]) /\ mem[p] \in Journals
  BY <1>1 DEF OwnJournals, ValidJournal
<1>5. Mine(mem'[p])
  <2>1. CASE mem' = mem
    BY <1>4, <2>1
  <2>2. ASSUME NEW ph \in Phases, mem' = [mem EXCEPT ![p].phase = ph] PROVE Mine(mem'[p])
    <3>1. mem'[p] = [mem[p] EXCEPT !.phase = ph]
      BY <2>2
    <3> QED
      BY <1>4, <3>1 DEF Journals, Mine, Own
  <2> QED
    BY <1>3, <2>1, <2>2
<1>6. \A q \in Procs \ {p} : mem'[q] = mem[q]
  BY <1>3
<1> QED
  BY <1>1, <1>2, <1>4, <1>5, <1>6 DEF OwnJournals, Mine, Own

LEMMA NextOwnJournals == TypeOK /\ OwnJournals /\ [MNext]_mvars => OwnJournals'
<1> SUFFICES ASSUME TypeOK, OwnJournals, [MNext]_mvars PROVE OwnJournals'
  OBVIOUS
<1>1. ASSUME journal' = journal,
             \A p \in Procs : pc'[p] \in Steps => pc[p] \in Steps /\ mem'[p] = mem[p]
      PROVE  OwnJournals'
  BY <1>1 DEF OwnJournals, Mine, Own
<1> USE DEF diskVars, hwVars, procVars, scanVars, histVars
<1>2. CASE UNCHANGED vars
  BY <1>1, <1>2 DEF vars
<1>3. CASE PowerOn \/ HookHalts \/ HookReturns \/ CutPower \/ PoweredDown \/ OwnerShutdown
  <2>1. \/ Boot \/ EnterRoot \/ Shutdown \/ PowerCut \/ PowerDown
    BY <1>3 DEF PowerOn, HookHalts, HookReturns, CutPower, PoweredDown, OwnerShutdown
  <2>2. /\ journal' = journal
        /\ \A p \in Procs : pc'[p] \in Steps => pc[p] \in Steps /\ mem'[p] = mem[p]
    BY <2>1 DEF Boot, EnterRoot, Shutdown, PowerCut, PowerDown, LosePower, Steps, Writing
  <2> QED
    BY <2>2 DEF OwnJournals, Mine, Own
<1>4. CASE CountTmp \/ BumpRename \/ ResetRename \/ UnlockFault
  BY <1>2, <1>4 DEF CountTmp, BumpRename, ResetRename, UnlockFault
<1>5. CASE TypeDuress \/ TypeKey \/ TypeWrong \/ OpenFails
  BY <1>2, <1>5 DEF TypeDuress, TypeKey, TypeWrong, OpenFails
<1>6. CASE Start
  BY <1>2, <1>6, ResumeKeepsMine DEF Start
<1>7. CASE DoWipe
  BY <1>7, FireKeepsMine, PreBootAssumption DEF DoWipe
<1>8. ASSUME NEW p \in Procs, Reap(p) PROVE OwnJournals'
  BY <1>1, <1>8 DEF Reap, Goto, TypeOK, Steps, Writing
<1>9. CASE ChildExits
  BY <1>8, <1>9 DEF ChildExits
<1>10. CASE BootedTrigger
  BY <1>8, <1>10, FireKeepsMine, ResumeKeepsMine DEF BootedTrigger
<1>11. ASSUME NEW p \in Procs, ActorStep(p) \/ ActorFault(p) PROVE OwnJournals'
  BY <1>11, ActorKeepsMine DEF ActorStep, ActorFault
<1>12. CASE UNCHANGED mvars
  BY <1>2, <1>12 DEF mvars
<1> QED
  BY <1>3, <1>4, <1>5, <1>6, <1>7, <1>9, <1>10, <1>11, <1>12 DEF MNext, UnlockStep

\* No boot refuses the journal of an earlier one, cut off at whatever phase, for
\* every recorded target, slot pair and mapping.  (It does refuse those of the
\* booted system: see AnyWipeCompletes.)
THEOREM OwnWipeAlwaysResumes == MSafety => []OwnWipeResumes
<1>1. MInit => OwnJournals
  BY DEF MInit, Init, OwnJournals, Steps, Writing
<1>2. UInv /\ OwnJournals => OwnWipeResumes
  BY DEF UInv, OneChild, OwnJournals, Mine, Own, OwnWipeResumes, ResumeAccepts, ResumeLine,
     ScanRootResolves
<1>3. UInv => TypeOK
  BY DEF UInv
<1> QED
  BY <1>1, <1>2, <1>3, NextOwnJournals, BootCycleInvariant, PTL DEF MSafety

\* Policy::validate's wipe_at <= max_prompts_per_boot makes "too many attempts"
\* unreachable, and not only in a boot that starts from a cleared counter.
THEOREM LimitBeforeLastPrompt == MSafety => []PromptsSuffice
<1>1. UInv => PromptsSuffice
  BY DEF UInv
<1> QED
  BY BootCycleInvariant, <1>1, PTL
-----------------------------------------------------------------------------
(***************************************************************************)
(* The counter.  A guess that escapes it is paid for by a power cut or a   *)
(* failed call; a temporary that a cut leaves behind stands for one guess  *)
(* that will escape later, so it is counted as if it had escaped already.  *)
(***************************************************************************)

\* Temporaries that no running ds-unlock is about to rename.
Stale == IF upc \in {"bumpRename", "resetRename"} THEN ctmps \ {upid} ELSE ctmps

BeingCounted == IF upc \in {"bump", "bumpRename"} THEN 1 ELSE 0

\* A poweroff takes effect where no guess is being counted.
PoweroffIsLate == powerReq => env # "off" /\ upc \in {"off", "waiting", "halt"}

CInv ==
  /\ UInv /\ PoweroffIsLate
  /\ Cardinality(Stale) <= cuts
  /\ guesses + Cardinality(Stale) <= counter + 2 * cuts + ufaults + BeingCounted
  /\ counter + BeingCounted <= guesses + ufaults

\* The sizes of the sets of temporaries that occur.
LEMMA StaleSizes ==
  ASSUME NEW S \in SUBSET UnlockPids
  PROVE  /\ Cardinality(S) \in Nat
         /\ \A T \in SUBSET S : Cardinality(T) <= Cardinality(S)
         /\ \A x : \A T \in SUBSET (S \cup {x}) : Cardinality(T) <= Cardinality(S) + 1
         /\ \A x \in S : Cardinality(S \ {x}) = Cardinality(S) - 1
<1>1. IsFiniteSet(S)
  BY PreBootAssumption, FS_Subset
<1>2. Cardinality(S) \in Nat
  BY <1>1, FS_CardinalityType
<1>3. \A T \in SUBSET S : Cardinality(T) <= Cardinality(S)
  BY <1>1, FS_Subset
<1>4. ASSUME NEW x, NEW T \in SUBSET (S \cup {x})
      PROVE  Cardinality(T) <= Cardinality(S) + 1
  <2> DEFINE U == S \cup {x}
  <2>0. /\ IsFiniteSet(U)
        /\ Cardinality(U) = IF x \in S THEN Cardinality(S) ELSE Cardinality(S) + 1
    BY <1>1, FS_AddElement
  <2>1. IsFiniteSet(U) /\ Cardinality(U) <= Cardinality(S) + 1
    <3> HIDE DEF U
    <3> QED BY <1>2, <2>0
  <2>2. Cardinality(T) <= Cardinality(U)
    BY <2>1, FS_Subset
  <2>3. Cardinality(T) \in Nat /\ Cardinality(U) \in Nat
    BY <2>1, FS_Subset, FS_CardinalityType
  <2> HIDE DEF U
  <2> QED
    BY <1>2, <2>1, <2>2, <2>3
<1>5. \A x \in S : Cardinality(S \ {x}) = Cardinality(S) - 1
  BY <1>1, FS_RemoveElement
<1> QED
  BY <1>2, <1>3, <1>4, <1>5

\* ds-erase never cuts the power; it asks for a poweroff at one step only.
LEMMA ActorPower ==
  ASSUME NEW p \in Procs,
         \/ Step(p) \/ Failure(p) \/ Reap(p)
         \/ \E a \in FireArgs : Fire(p, a)
         \/ \E r \in ResumeArgs : Resume(p, r)
  PROVE  cuts' = cuts /\ env' = env /\ (powerReq' => powerReq \/ pc[p] = "poweroff")
<1> USE DEF hwVars
<1>1. CASE Step(p)
  <2>1. CASE RequestPoweroff(p)
    BY <2>1 DEF RequestPoweroff
  <2>2. CASE ~RequestPoweroff(p)
    BY <1>1, <2>2 DEF Step, CreateTmp, RenameJournal, FindBackup, ShredBackup, UnlinkBackup,
       BackupsHandled, CheckRecovery, CheckActive, DestroySlots,
       KeyslotsDestroyed, FinalVerify, Quiesce, RemoveJournal
  <2> QED BY <2>1, <2>2
<1>2. CASE Failure(p)
  BY <1>2 DEF Failure, Fault, SkipBackup
<1>3. CASE Reap(p)
  BY <1>3 DEF Reap
<1>4. CASE \E a \in FireArgs : Fire(p, a)
  BY <1>4 DEF Fire
<1>5. CASE \E r \in ResumeArgs : Resume(p, r)
  BY <1>5 DEF Resume
<1> QED
  BY <1>1, <1>2, <1>3, <1>4, <1>5

LEMMA NextPoweroffIsLate ==
  UInv /\ PoweroffIsLate /\ [MNext]_mvars => PoweroffIsLate'
<1> SUFFICES ASSUME UInv, PoweroffIsLate, [MNext]_mvars PROVE PoweroffIsLate'
  OBVIOUS
<1> USE DEF PoweroffIsLate
<1>1. CASE PowerOn
  BY <1>1 DEF PowerOn, Boot
<1>2. CASE CutPower \/ PoweredDown \/ HookHalts
  BY <1>2 DEF CutPower, PoweredDown, HookHalts, PowerCut, PowerDown, Shutdown,
              LosePower
<1>3. CASE OwnerShutdown
  BY <1>3 DEF OwnerShutdown, Shutdown, LosePower
<1>4. CASE HookReturns
  BY <1>4 DEF HookReturns, EnterRoot
<1>5. CASE TypeDuress \/ TypeKey \/ TypeWrong \/ OpenFails \/ UnlockFault
           \/ CountTmp \/ BumpRename \/ ResetRename
  BY <1>5 DEF TypeDuress, TypeKey, TypeWrong, OpenFails, UnlockFault, CountTmp,
              BumpRename, ResetRename, Calls, Writes, vars, hwVars
<1>6. CASE Start \/ DoWipe \/ ChildExits
  <2>1. ASSUME NEW p \in Procs, Resume(p, ResumeLine) \/ Fire(p, WipeLine) \/ Reap(p)
        PROVE  env' = env /\ powerReq' = powerReq
    BY <2>1 DEF Resume, Fire, Reap, hwVars
  <2> QED
    BY <1>6, <2>1 DEF Start, DoWipe, ChildExits, vars, hwVars
<1>7. CASE BootedTrigger
  <2>1. env' = env /\ env = "booted" /\ upc' = upc /\ upc = "off"
    BY <1>7, ActorPower DEF BootedTrigger, unlockVars, UInv, OneChild
  <2> QED
    BY <2>1
<1>8. ASSUME NEW p \in Procs, ActorStep(p) \/ ActorFault(p) PROVE PoweroffIsLate'
  <2>1. upc \in {"off", "waiting"} /\ upc' = upc /\ env' = env /\ pc[p] # "idle"
    BY <1>8, NoChildNoStep DEF unlockVars
  <2>2. env # "off"
    BY <2>1 DEF UInv, OneChild
  <2> QED
    BY <2>1, <2>2
<1>9. CASE UNCHANGED mvars
  BY <1>9 DEF mvars, vars, hwVars, unlockVars
<1> QED
  BY <1>1, <1>2, <1>3, <1>4, <1>5, <1>6, <1>7, <1>8, <1>9 DEF MNext, UnlockStep

\* Only a power cut is counted as one.
LEMMA CutsSteps ==
  ASSUME UInv, [MNext]_mvars
  PROVE  cuts' = cuts \/ (CutPower /\ cuts' = cuts + 1)
<1>1. CASE CutPower
  BY <1>1 DEF CutPower, PowerCut
<1>2. CASE PowerOn \/ PoweredDown \/ HookHalts \/ HookReturns \/ OwnerShutdown
  BY <1>2 DEF PowerOn, Boot, PoweredDown, PowerDown, HookHalts, HookReturns,
              EnterRoot, OwnerShutdown, Shutdown
<1>3. CASE TypeDuress \/ TypeKey \/ TypeWrong \/ OpenFails \/ UnlockFault
           \/ CountTmp \/ BumpRename \/ ResetRename \/ UNCHANGED mvars
  BY <1>3 DEF TypeDuress, TypeKey, TypeWrong, OpenFails, UnlockFault, CountTmp,
              BumpRename, ResetRename, mvars, vars, hwVars
<1>4. CASE Start \/ DoWipe \/ ChildExits
  BY <1>4, ActorPower, PreBootAssumption DEF Start, DoWipe, ChildExits, vars, hwVars
<1>5. CASE BootedTrigger
  BY <1>5, ActorPower DEF BootedTrigger
<1>6. ASSUME NEW p \in Procs, ActorStep(p) \/ ActorFault(p) PROVE cuts' = cuts
  BY <1>6, ActorPower DEF ActorStep, ActorFault
<1> QED
  BY <1>1, <1>2, <1>3, <1>4, <1>5, <1>6 DEF MNext, UnlockStep

\* What a step does to the two sides of GuessesCounted: the three ways a stale
\* temporary comes and goes.
LEMMA NextCounts == CInv /\ [MNext]_mvars => CInv'
<1> SUFFICES ASSUME CInv, [MNext]_mvars PROVE CInv'
  OBVIOUS
<1> DEFINE n == Cardinality(Stale)
           m == Cardinality(Stale')
           Counts == /\ m <= cuts'
                     /\ guesses' + m <= counter' + 2 * cuts' + ufaults' + BeingCounted'
                     /\ counter' + BeingCounted' <= guesses' + ufaults'
<1>1. UInv' /\ PoweroffIsLate'
  BY NextUInv, NextPoweroffIsLate DEF CInv
<1>2. Stale \in SUBSET UnlockPids /\ Stale' \in SUBSET UnlockPids
  BY <1>1 DEF CInv, UInv, UTypeOK, Stale
<1>3. n \in Nat /\ m \in Nat
  BY <1>2, StaleSizes
<1>4. /\ cuts \in Nat /\ counter \in Nat /\ guesses \in Nat /\ ufaults \in Nat
      /\ cuts' \in Nat /\ counter' \in Nat /\ guesses' \in Nat /\ ufaults' \in Nat
  BY <1>1, ConstantsAssumption, PolicyFacts DEF CInv, UInv, TypeOK, UTypeOK
<1>5. /\ n <= cuts
      /\ guesses + n <= counter + 2 * cuts + ufaults + BeingCounted
      /\ counter + BeingCounted <= guesses + ufaults
  BY DEF CInv
<1>6. SUFFICES Counts
  BY <1>1 DEF CInv
<1>7. cuts' = cuts \/ (CutPower /\ cuts' = cuts + 1)
  BY CutsSteps DEF CInv
<1>8. CASE CutPower
  <2>1. m <= n + 1
    <3>1. Stale' \in SUBSET (Stale \cup {upid})
      BY <1>8 DEF CutPower, Stale
    <3> QED BY <1>2, <3>1, StaleSizes
  <2>2. counter' = counter /\ guesses' = guesses /\ ufaults' = ufaults
        /\ BeingCounted' = 0 /\ BeingCounted \in 0..1 /\ cuts' = cuts + 1
    BY <1>8 DEF CutPower, BeingCounted, PowerCut
  <2> HIDE DEF n, m
  <2> QED BY <1>3, <1>4, <1>5, <2>1, <2>2
<1>9. CASE CountTmp
  <2>1. counter' = counter /\ guesses' = guesses /\ ufaults' = ufaults /\ cuts' = cuts
    BY <1>9 DEF CountTmp, vars, hwVars
  <2>2. CASE upid \in ctmps
    <3>1. Stale' = Stale \ {upid} /\ upid \in Stale
      BY <1>9, <2>2 DEF CountTmp, Stale
    <3>2. m = n - 1
      BY <1>2, <3>1, StaleSizes
    <3>3. BeingCounted' = 0 /\ BeingCounted \in 0..1
      BY <1>9, <2>2 DEF CountTmp, BeingCounted
    <3> HIDE DEF n, m
    <3> QED BY <1>3, <1>4, <1>5, <2>1, <3>2, <3>3
  <2>3. CASE upid \notin ctmps
    <3>1. Stale' = Stale /\ BeingCounted' = BeingCounted
      BY <1>9, <2>3 DEF CountTmp, Stale, BeingCounted
    <3> QED BY <1>3, <1>4, <1>5, <2>1, <3>1
  <2> QED BY <2>2, <2>3
<1>10. CASE UnlockFault
  <2>1. m <= n
    <3>1. Stale' \in SUBSET Stale
      BY <1>10 DEF UnlockFault, Stale, Writes
    <3> QED BY <1>2, <3>1, StaleSizes
  <2>2. counter' = counter /\ guesses' = guesses /\ ufaults' = ufaults + 1
        /\ BeingCounted' = 0 /\ BeingCounted \in 0..1 /\ cuts' = cuts
    BY <1>4, <1>10 DEF UnlockFault, BeingCounted, vars, hwVars
  <2> HIDE DEF n, m
  <2> QED BY <1>3, <1>4, <1>5, <2>1, <2>2
<1>11. CASE BumpRename \/ ResetRename
  <2>1. Stale' = Stale /\ cuts' = cuts /\ ufaults' = ufaults /\ BeingCounted' = 0
    BY <1>11 DEF BumpRename, ResetRename, Stale, BeingCounted, vars, hwVars
  <2>2. m = n
    BY <2>1
  <2> HIDE DEF n, m
  <2>3. CASE BumpRename
    <3>1. guesses' = guesses /\ counter' = counter + 1 /\ BeingCounted = 1
      BY <2>3 DEF BumpRename, BeingCounted
    <3> QED BY <1>3, <1>4, <1>5, <2>1, <2>2, <3>1
  <2>4. CASE ResetRename
    <3>1. guesses' = 0 /\ counter' = 0
      BY <2>4 DEF ResetRename
    <3> QED BY <1>3, <1>4, <1>5, <2>1, <2>2, <3>1
  <2> QED BY <1>11, <2>3, <2>4
<1>12. CASE TypeWrong \/ OpenFails
  <2>1. Stale' = Stale /\ cuts' = cuts /\ counter' = counter
        /\ BeingCounted = 0 /\ BeingCounted' = 1
    BY <1>12 DEF TypeWrong, OpenFails, Stale, BeingCounted, vars, hwVars
  <2>2. m = n
    BY <2>1
  <2> HIDE DEF n, m
  <2>3. CASE TypeWrong
    <3>1. guesses' = guesses + 1 /\ ufaults' = ufaults
      BY <2>3 DEF TypeWrong
    <3> QED BY <1>3, <1>4, <1>5, <2>1, <2>2, <3>1
  <2>4. CASE OpenFails
    <3>1. guesses' = guesses /\ ufaults' = ufaults + 1
      BY <2>4 DEF OpenFails
    <3> QED BY <1>3, <1>4, <1>5, <2>1, <2>2, <3>1
  <2> QED BY <1>12, <2>3, <2>4
<1>13. ASSUME ~CutPower,
              UNCHANGED <<counter, ctmps, guesses, ufaults>>,
              upc \notin Writes, upc' \notin {"bump", "bumpRename", "resetRename"}
       PROVE  Counts
  <2>1. Stale' = Stale /\ cuts' = cuts /\ BeingCounted = 0 /\ BeingCounted' = 0
    BY <1>7, <1>13 DEF Stale, BeingCounted, Writes
  <2> QED BY <1>3, <1>4, <1>5, <1>13, <2>1
<1>14. CASE ~CutPower /\ (PowerOn \/ Start \/ TypeDuress \/ TypeKey \/ DoWipe
                           \/ ChildExits \/ HookHalts \/ HookReturns)
  <2>1. upc \notin Writes
    BY <1>14 DEF PowerOn, Boot, Start, TypeDuress, TypeKey, DoWipe, ChildExits,
                 HookHalts, HookReturns, Writes, CInv, UInv, OneChild
  <2> QED
    BY <1>13, <1>14, <2>1 DEF PowerOn, Start, TypeDuress, TypeKey, DoWipe,
                              ChildExits, HookHalts, HookReturns
<1>15. CASE ~CutPower /\ PoweredDown
  BY <1>13, <1>15 DEF PoweredDown, PowerDown, CInv, PoweroffIsLate, Writes
<1>16. CASE ~CutPower /\ UNCHANGED unlockVars
  <2>1. Stale' = Stale /\ cuts' = cuts /\ BeingCounted' = BeingCounted
    BY <1>7, <1>16 DEF Stale, BeingCounted, unlockVars
  <2> QED BY <1>3, <1>4, <1>5, <1>16, <2>1 DEF unlockVars
<1> QED
  BY <1>8, <1>9, <1>10, <1>11, <1>12, <1>14, <1>15, <1>16
     DEF MNext, UnlockStep, BootedTrigger, ActorStep, ActorFault, OwnerShutdown,
         mvars

\* A guess escapes the counter only if a power cut or a failed call explains
\* it, two for each cut, and nothing but a failed open is counted: however many
\* boots, process ids and interruptions there are.
THEOREM GuessesAreCounted == MSafety => []GuessesCounted
<1>1. MInit => CInv
  <2> SUFFICES ASSUME MInit PROVE CInv
    OBVIOUS
  <2>1. Stale = {} /\ BeingCounted = 0 /\ Cardinality(Stale) = 0
    BY FS_EmptySet DEF MInit, Stale, BeingCounted
  <2> QED
    BY <2>1, InitUInv DEF CInv, MInit, Init, PoweroffIsLate
<1>2. CInv => GuessesCounted
  <2> SUFFICES ASSUME CInv PROVE GuessesCounted
    OBVIOUS
  <2>1. Cardinality(Stale) \in Nat
    BY StaleSizes DEF CInv, UInv, UTypeOK, Stale
  <2>2. /\ cuts \in Nat /\ counter \in Nat /\ guesses \in Nat /\ ufaults \in Nat
        /\ BeingCounted \in 0..1
    BY ConstantsAssumption, PolicyFacts DEF CInv, UInv, TypeOK, UTypeOK, BeingCounted
  <2> QED
    BY <2>1, <2>2 DEF CInv, GuessesCounted, BeingCounted
<1> QED
  BY <1>1, <1>2, NextCounts, PTL DEF MSafety
=============================================================================
