------------------------ MODULE PamAttempts_proofs ------------------------
(***************************************************************************)
(* pam_ds for any number of PAM clients and any limit: a wipe takes a run  *)
(* of failures, the counter never holding more than there were; a limit    *)
(* once written has its wipe launched; and processes that come one at a    *)
(* time lose no more failures than cuts and failed calls explain.          *)
(***************************************************************************)
EXTENDS PamAttempts, FiniteSetTheorems, TLAPS

\* A failure that is not yet read into anybody's `next` is not in the file
\* either, so that room for it must be left under `streak`.
NoneInvented ==
  /\ count + Cardinality(Reading) <= streak
  /\ \A p \in Procs : pc[p] \in {"create", "rename"}
                        => next[p] + Cardinality(Reading) <= streak

PInv == PTypeOK /\ NoneInvented

LEMMA ReadingIsFinite ==
  /\ IsFiniteSet(Reading) /\ Cardinality(Reading) \in Nat
<1>1. IsFiniteSet(Reading)
  BY PamAssumption, FS_Subset DEF Reading
<1> QED
  BY <1>1, FS_CardinalityType

LEMMA InitPInv == Init => PInv
<1> SUFFICES ASSUME Init PROVE PInv
  OBVIOUS
<1>1. PTypeOK
  <2>1. fired \in BOOLEAN /\ duress \in BOOLEAN /\ overlap \in BOOLEAN
    BY Zenon DEF Init
  <2> QED
    BY <2>1, PamAssumption DEF Init, PTypeOK, Running, InCounter, Counting
<1>2. Reading = {} /\ Cardinality(Reading) = 0
  BY FS_EmptySet DEF Init, Reading
<1>3. NoneInvented
  BY <1>2 DEF Init, NoneInvented
<1> QED
  BY <1>1, <1>3 DEF PInv

LEMMA NextPTypeOK == PTypeOK /\ [Next]_vars => PTypeOK'
<1> SUFFICES ASSUME PTypeOK, [Next]_vars PROVE PTypeOK'
  OBVIOUS
<1> USE PamAssumption DEF PTypeOK, Goto, hist, tallies, Running, InCounter, Counting
<1>1. ASSUME NEW p \in Procs, EnterDuress(p) \/ EnterSecret(p) PROVE PTypeOK'
  BY <1>1 DEF EnterDuress, EnterSecret
<1>2. ASSUME NEW p \in Procs, Rejected(p) \/ Accepted(p) PROVE PTypeOK'
  <2>1. overlap' \in BOOLEAN
    BY <1>2, Zenon DEF Rejected, Accepted
  <2> QED
    BY <1>2, <2>1 DEF Rejected, Accepted
<1>3. ASSUME NEW p \in Procs, ReadCount(p) \/ CreateTmp(p) PROVE PTypeOK'
  BY <1>3 DEF ReadCount, CreateTmp
<1>4. ASSUME NEW p \in Procs, RenameCount(p) PROVE PTypeOK'
  BY <1>4 DEF RenameCount
<1>5. ASSUME NEW p \in Procs, Launch(p) \/ ResetCount(p) PROVE PTypeOK'
  <2>1. fired' \in BOOLEAN
    BY <1>5, Zenon DEF Launch, ResetCount
  <2> QED
    BY <1>5, <2>1 DEF Launch, ResetCount
<1>6. ASSUME NEW p \in Procs, Fault(p) PROVE PTypeOK'
  BY <1>6 DEF Fault
<1>7. CASE PowerCut
  BY <1>7 DEF PowerCut
<1>8. CASE UNCHANGED vars
  BY <1>8 DEF vars
<1> QED
  BY <1>1, <1>2, <1>3, <1>4, <1>5, <1>6, <1>7, <1>8 DEF Next

\* A step that adds no reader leaves at least as much room.
LEMMA FewerReaders ==
  ASSUME Reading' \subseteq Reading
  PROVE  /\ Cardinality(Reading') <= Cardinality(Reading)
         /\ Cardinality(Reading') \in Nat /\ Cardinality(Reading) \in Nat
<1>1. IsFiniteSet(Reading')
  BY ReadingIsFinite, FS_Subset
<1> QED
  BY <1>1, ReadingIsFinite, FS_Subset, FS_CardinalityType

LEMMA NextNoneInvented ==
  ASSUME PInv, [Next]_vars
  PROVE  NoneInvented'
<1> USE ReadingIsFinite DEF PInv, PTypeOK, Goto, hist, tallies
\* Steps that leave the run as it is, and the file as it is or empty.
<1>1. ASSUME UNCHANGED <<next, streak>>, count' = count \/ count' = 0,
             \A p \in Procs : pc'[p] \in {"create", "rename"} => pc[p] \in {"create", "rename"},
             \A p \in Procs : pc'[p] = "read" => pc[p] = "read"
      PROVE  NoneInvented'
  <2>1. Reading' \subseteq Reading
    BY <1>1 DEF Reading
  <2> QED
    BY <1>1, <2>1, FewerReaders DEF NoneInvented
<1>2. ASSUME NEW p \in Procs,
             EnterDuress(p) \/ EnterSecret(p) \/ Accepted(p) \/ CreateTmp(p) \/ Launch(p)
      PROVE  NoneInvented'
  BY <1>1, <1>2 DEF EnterDuress, EnterSecret, Accepted, CreateTmp, Launch
\* Steps that put a `next` into the file.
<1>8. ASSUME NEW p \in Procs, pc[p] = "rename", count' = next[p], pc'[p] \in {"idle", "fire"},
             \A q \in Procs \ {p} : pc'[q] = pc[q], UNCHANGED <<next, streak>>
      PROVE  NoneInvented'
  <2>1. Reading' \subseteq Reading
    BY <1>8 DEF Reading
  <2> QED
    BY <1>8, <2>1, FewerReaders DEF NoneInvented
\* A success ends the run only when no failure is left that could bring it
\* back.
<1>9. ASSUME NEW p \in Procs, ResetCount(p) PROVE NoneInvented'
  <2>1. CASE NoneCounting
    <3>1. Reading' = {}
      BY <1>9, <2>1 DEF ResetCount, NoneCounting, Reading, Counting
    <3>2. Cardinality(Reading') = 0
      BY <3>1, FS_EmptySet
    <3>3. \A q \in Procs : pc'[q] \notin {"create", "rename"}
      BY <1>9, <2>1 DEF ResetCount, NoneCounting, Counting
    <3>4. count' = 0 /\ streak' = 0
      BY <1>9, <2>1 DEF ResetCount
    <3> QED
      BY <3>2, <3>3, <3>4 DEF NoneInvented
  <2>2. CASE ~NoneCounting
    BY <1>1, <1>9, <2>2 DEF ResetCount
  <2> QED
    BY <2>1, <2>2
<1>10. ASSUME NEW p \in Procs, Fault(p) PROVE NoneInvented'
  <2>1. CASE count' = count
    BY <1>1, <1>10, <2>1 DEF Fault
  <2>2. CASE count' # count
    BY <1>8, <1>10, <2>2 DEF Fault
  <2> QED
    BY <2>1, <2>2
<1>3. ASSUME NEW p \in Procs, Rejected(p) PROVE NoneInvented'
  <2>1. Reading' = Reading \cup {p} /\ p \notin Reading
    BY <1>3 DEF Rejected, Reading
  <2>2. Cardinality(Reading') = Cardinality(Reading) + 1
    BY <2>1, FS_AddElement
  <2> QED
    BY <1>3, <2>2 DEF Rejected, NoneInvented
<1>4. ASSUME NEW p \in Procs, ReadCount(p) PROVE NoneInvented'
  <2>1. Reading' = Reading \ {p} /\ p \in Reading
    BY <1>4 DEF ReadCount, Reading
  <2>2. Cardinality(Reading') = Cardinality(Reading) - 1
    BY <2>1, FS_RemoveElement
  <2> QED
    BY <1>4, <2>2 DEF ReadCount, NoneInvented
<1>5. ASSUME NEW p \in Procs, RenameCount(p) PROVE NoneInvented'
  BY <1>5, <1>8 DEF RenameCount
<1>6. CASE PowerCut
  BY <1>1, <1>6 DEF PowerCut
<1>7. CASE UNCHANGED vars
  BY <1>1, <1>7 DEF vars
<1> QED
  BY <1>2, <1>3, <1>4, <1>5, <1>6, <1>7, <1>9, <1>10 DEF Next

\* Any number of PAM clients, power cuts and failing calls: what fires the
\* wipe without the duress code is a run of rejected passwords as long as the
\* limit says, cleared by no success that found the counter at rest.
THEOREM PamWipesForCause == Spec => WipesForCause
<1>1. PInv /\ [Next]_vars => PInv'
  BY NextPTypeOK, NextNoneInvented DEF PInv
<1> DEFINE Wipes(p) == pc[p] \in Counting /\ pc'[p] = "fire" => streak >= WipeAt
<1>2. ASSUME PInv, [Next]_vars
      PROVE  [\A p \in Procs : Wipes(p)]_vars
  <2> SUFFICES ASSUME NEW p \in Procs, pc[p] \in Counting, pc'[p] = "fire"
               PROVE  streak >= WipeAt
    OBVIOUS
  <2> USE <1>2 DEF PInv, PTypeOK, Goto, Counting
  <2>1. RenameCount(p)
    BY DEF Next, vars, EnterDuress, EnterSecret, Rejected, Accepted, ReadCount, CreateTmp,
           RenameCount, Launch, ResetCount, Fault, PowerCut
  <2>2. next[p] <= streak
    BY <2>1, ReadingIsFinite DEF RenameCount, NoneInvented
  <2> QED
    BY <2>1, <2>2, PamAssumption DEF RenameCount
<1> QED
  BY InitPInv, <1>1, <1>2, PTL DEF Spec, WipesForCause

-----------------------------------------------------------------------------
(***************************************************************************)
(* Types, and the limit                                                    *)
(***************************************************************************)

\* For any number of PAM clients the counter, its temporaries and the bounds
\* are well-typed, and a process about to rename still has its temporary,
\* which bears its own pid.
THEOREM PamTypeCorrect == Spec => []PTypeOK
<1>1. Init => PTypeOK
  BY InitPInv DEF PInv
<1> QED
  BY <1>1, NextPTypeOK, PTL DEF Spec

\* However many clients read, write and clear the counter at once, a count at
\* the limit has had its wipe launched, or is about to.
THEOREM PamLimitFires == Spec => []LimitFires
<1>1. Init => LimitFires
  BY PamAssumption DEF Init, LimitFires, Fires
<1>2. ASSUME PTypeOK, LimitFires, [Next]_vars PROVE LimitFires'
  <2> USE <1>2, PamAssumption DEF PTypeOK, LimitFires, Fires, Goto, hist, tallies
  <2>1. ASSUME NEW p \in Procs, EnterDuress(p) PROVE LimitFires'
    BY <2>1 DEF EnterDuress
  <2>2. ASSUME NEW p \in Procs,
               EnterSecret(p) \/ Rejected(p) \/ Accepted(p) \/ ReadCount(p) \/ CreateTmp(p)
        PROVE  LimitFires'
    BY <2>2 DEF EnterSecret, Rejected, Accepted, ReadCount, CreateTmp
  <2>3. ASSUME NEW p \in Procs, RenameCount(p) PROVE LimitFires'
    BY <2>3 DEF RenameCount
  <2>4. ASSUME NEW p \in Procs, Launch(p) PROVE LimitFires'
    BY <2>4 DEF Launch
  <2>5. ASSUME NEW p \in Procs, ResetCount(p) PROVE LimitFires'
    BY <2>5 DEF ResetCount
  <2>6. ASSUME NEW p \in Procs, Fault(p) PROVE LimitFires'
    BY <2>6 DEF Fault
  <2>7. CASE PowerCut
    BY <2>7 DEF PowerCut
  <2>8. CASE UNCHANGED vars
    BY <2>8 DEF vars
  <2> QED
    BY <2>1, <2>2, <2>3, <2>4, <2>5, <2>6, <2>7, <2>8 DEF Next
<1> QED
  BY <1>1, <1>2, PamTypeCorrect, PTL DEF Spec

-----------------------------------------------------------------------------
(***************************************************************************)
(* One process at a time                                                   *)
(***************************************************************************)

Counters == {p \in Procs : pc[p] \in Counting}

\* Temporaries that no live writer owns: each will make one more failure of
\* the process that gets its pid go uncounted.
Stale == {p \in tmps : pc[p] # "rename"}

\* As long as nobody has overlapped, the counter has one user, who knows the
\* count; a stale temporary is a failure that has escaped already.
OneUser ==
  \A p, q \in Procs : pc[p] \in InCounter /\ pc[q] \in InCounter => p = q

Knows == \A p \in Procs : pc[p] \in {"create", "rename"} => next[p] = count + 1

Accounted ==
  /\ Cardinality(Stale) <= cuts
  /\ since + Cardinality(Stale) <= count + 2 * cuts + faults + InFlight
  /\ count + InFlight <= since

Orderly == ~overlap => OneUser /\ Knows /\ Accounted

\* Counters and stale temporaries are finitely many, before and after a step.
LEMMA Sizes ==
  ASSUME NEW S \in SUBSET Procs
  PROVE  /\ IsFiniteSet(S) /\ Cardinality(S) \in Nat
         /\ \A p \in Procs : p \notin S => Cardinality(S \cup {p}) = Cardinality(S) + 1
         /\ \A p \in S : Cardinality(S \ {p}) = Cardinality(S) - 1
<1>1. IsFiniteSet(S)
  BY PamAssumption, FS_Subset
<1> QED
  BY <1>1, FS_CardinalityType, FS_AddElement, FS_RemoveElement

\* Two sets of processes, one within the other and one process.
LEMMA SmallerSize ==
  ASSUME NEW S \in SUBSET Procs, NEW T \in SUBSET S
  PROVE  Cardinality(T) <= Cardinality(S) /\ Cardinality(T) \in Nat /\ Cardinality(S) \in Nat
BY Sizes, FS_Subset

\* A step keeps Orderly if, nobody having overlapped so far, it accounts for
\* what it does.
LEMMA NextOrderly ==
  ASSUME PTypeOK, Orderly, [Next]_vars
  PROVE  Orderly'
<1> SUFFICES ASSUME ~overlap' PROVE OneUser' /\ Knows' /\ Accounted'
  BY DEF Orderly
<1> USE DEF Goto, hist, tallies
<1> DEFINE n == Cardinality(Stale)
           m == Cardinality(Stale')
           k == Cardinality(Counters)
           l == Cardinality(Counters')
<1>1. PTypeOK'
  BY NextPTypeOK
<1>2. /\ Stale \in SUBSET Procs /\ Stale' \in SUBSET Procs
      /\ Counters \in SUBSET Procs /\ Counters' \in SUBSET Procs
  BY <1>1 DEF PTypeOK, Stale, Counters
<1>3. n \in Nat /\ m \in Nat /\ k \in Nat /\ l \in Nat
  BY <1>2, Sizes
<1>4. /\ count \in Nat /\ since \in Nat /\ cuts \in Nat /\ faults \in Nat
      /\ pc \in [Procs -> Running \cup {"idle"}] /\ next \in [Procs -> Nat]
      /\ count' \in Nat
  BY <1>1, PamAssumption DEF PTypeOK
<1>5. InFlight = k /\ InFlight' = l
  BY DEF InFlight, Counters
<1>6. Cardinality({}) = 0 /\ \A p \in Procs : Cardinality({p}) = 1
  BY FS_EmptySet, FS_Singleton
<1> HIDE DEF n, m, k, l
\* overlap is never taken back.
<1>7. ~overlap
  <2>1. UNCHANGED overlap \/ \E p \in Procs : overlap' = (overlap \/ Busy(p))
    BY Zenon DEF Next, vars, EnterDuress, EnterSecret, Rejected, Accepted, ReadCount,
         CreateTmp, RenameCount, Launch, ResetCount, Fault, PowerCut
  <2> QED
    BY <2>1, Zenon
<1>8. /\ OneUser /\ Knows
      /\ n <= cuts /\ since + n <= count + 2 * cuts + faults + k
      /\ count + k <= since
  BY <1>5, <1>7 DEF Orderly, Accounted, n
<1>9. SUFFICES /\ OneUser' /\ Knows'
               /\ m <= cuts' /\ since' + m <= count' + 2 * cuts' + faults' + l
               /\ count' + l <= since'
  BY <1>5, <1>9 DEF Accounted, m
<1>10. \A p \in Counters : Counters = {p} /\ k = 1
  <2>1. \A p \in Counters : Counters = {p}
    BY <1>8 DEF OneUser, Counters, InCounter
  <2> QED
    BY <1>2, <1>6, <2>1 DEF k
<1>11. Counters = {} => k = 0
  BY <1>6 DEF k
<1>12. Counters' = {} => l = 0
  BY <1>6 DEF l
<1> DEFINE Goal == /\ OneUser' /\ Knows'
                   /\ m <= cuts' /\ since' + m <= count' + 2 * cuts' + faults' + l
                   /\ count' + l <= since'
\* Steps outside the counter.
<1>13. ASSUME NEW p \in Procs, EnterDuress(p) \/ EnterSecret(p) \/ Launch(p) PROVE Goal
  <2>1. UNCHANGED <<count, tmps, next, since, cuts, faults>>
    BY <1>13 DEF EnterDuress, EnterSecret, Launch
  <2>2. /\ pc[p] \notin InCounter /\ pc'[p] \notin InCounter
        /\ \A q \in Procs \ {p} : pc'[q] = pc[q]
    BY <1>4, <1>13 DEF EnterDuress, EnterSecret, Launch, InCounter, Counting
  <2>3. Stale' = Stale /\ Counters' = Counters
    BY <2>1, <2>2 DEF Stale, Counters, InCounter, Counting, PTypeOK
  <2>4. m = n /\ l = k
    BY <2>3 DEF m, n, l, k
  <2>5. OneUser' /\ Knows'
    BY <1>8, <2>1, <2>2 DEF OneUser, Knows, InCounter, Counting
  <2> QED
    BY <1>8, <2>1, <2>4, <2>5
<1>14. ASSUME NEW p \in Procs, Rejected(p) PROVE Goal
  <2>1. \A q \in Procs \ {p} : pc[q] \notin InCounter
    BY <1>14, Zenon DEF Rejected, Busy
  <2>2. /\ pc[p] = "unix" /\ pc' = [pc EXCEPT ![p] = "read"] /\ since' = since + 1
        /\ UNCHANGED <<count, tmps, next, cuts, faults>>
    BY <1>14 DEF Rejected
  <2>3. Counters = {} /\ Counters' = {p} /\ Stale' = Stale
    BY <1>4, <2>1, <2>2 DEF Counters, Stale, InCounter, Counting, PTypeOK
  <2>4. k = 0 /\ l = 1 /\ m = n
    BY <1>6, <2>3 DEF k, l, m, n
  <2>5. OneUser' /\ Knows'
    BY <1>4, <2>1, <2>2 DEF OneUser, Knows, InCounter, Counting
  <2> QED
    BY <1>3, <1>4, <1>8, <2>2, <2>4, <2>5
<1>15. ASSUME NEW p \in Procs, Accepted(p) PROVE Goal
  <2>1. \A q \in Procs \ {p} : pc[q] \notin InCounter
    BY <1>15, Zenon DEF Accepted, Busy
  <2>2. /\ pc[p] = "unix" /\ pc' = [pc EXCEPT ![p] = "reset"]
        /\ UNCHANGED <<count, tmps, next, since, cuts, faults>>
    BY <1>15 DEF Accepted
  <2>3. Counters' = Counters /\ Stale' = Stale
    BY <1>4, <2>1, <2>2 DEF Counters, Stale, InCounter, Counting, PTypeOK
  <2>4. l = k /\ m = n
    BY <2>3 DEF k, l, m, n
  <2>5. OneUser' /\ Knows'
    BY <1>4, <2>1, <2>2 DEF OneUser, Knows, InCounter, Counting
  <2> QED
    BY <1>8, <2>2, <2>4, <2>5
<1>16. ASSUME NEW p \in Procs, ReadCount(p) PROVE Goal
  <2>1. /\ pc[p] = "read" /\ pc' = [pc EXCEPT ![p] = "create"]
        /\ next' = [next EXCEPT ![p] = count + 1]
        /\ UNCHANGED <<count, tmps, since, cuts, faults>>
    BY <1>16 DEF ReadCount
  <2>2. Counters' = Counters /\ Stale' = Stale
    BY <1>4, <2>1 DEF Counters, Stale, Counting, PTypeOK
  <2>3. l = k /\ m = n
    BY <2>2 DEF k, l, m, n
  <2>4. OneUser' /\ Knows'
    BY <1>4, <1>8, <2>1 DEF OneUser, Knows, InCounter, Counting
  <2> QED
    BY <1>8, <2>1, <2>3, <2>4
<1>17. ASSUME NEW p \in Procs, CreateTmp(p) PROVE Goal
  <2>1. pc[p] = "create" /\ UNCHANGED <<count, next, since, cuts, faults>>
    BY <1>17 DEF CreateTmp
  <2>2. CASE p \notin tmps /\ tmps' = tmps \cup {p} /\ pc' = [pc EXCEPT ![p] = "rename"]
    <3>1. Counters' = Counters /\ Stale' = Stale
      BY <1>4, <2>1, <2>2 DEF Counters, Stale, Counting, PTypeOK
    <3>2. l = k /\ m = n
      BY <3>1 DEF k, l, m, n
    <3>3. OneUser' /\ Knows'
      BY <1>4, <1>8, <2>1, <2>2 DEF OneUser, Knows, InCounter, Counting
    <3> QED
      BY <1>8, <2>1, <3>2, <3>3
  <2>3. CASE p \in tmps /\ tmps' = tmps \ {p} /\ pc' = [pc EXCEPT ![p] = "idle"]
    <3>1. /\ Counters = {p} /\ k = 1 /\ Counters' = {}
          /\ p \in Stale /\ Stale' = Stale \ {p}
      BY <1>4, <1>10, <2>1, <2>3 DEF Counters, Stale, Counting, PTypeOK
    <3>2. l = 0 /\ m = n - 1
      BY <1>2, <1>12, <3>1, Sizes DEF m, n
    <3>3. OneUser' /\ Knows'
      BY <1>4, <1>8, <2>1, <2>3 DEF OneUser, Knows, InCounter, Counting
    <3> QED
      BY <1>3, <1>4, <1>8, <2>1, <3>1, <3>2, <3>3
  <2> QED
    BY <1>17, <2>2, <2>3 DEF CreateTmp
<1>18. ASSUME NEW p \in Procs, RenameCount(p) PROVE Goal
  <2>1. /\ pc[p] = "rename" /\ count' = next[p] /\ tmps' = tmps \ {p}
        /\ UNCHANGED <<next, since, cuts, faults>>
        /\ pc'[p] \notin InCounter /\ \A q \in Procs \ {p} : pc'[q] = pc[q]
    BY <1>4, <1>18 DEF RenameCount, InCounter, Counting
  <2>2. /\ Counters = {p} /\ k = 1 /\ Counters' = {} /\ Stale' = Stale
    BY <1>4, <1>10, <2>1 DEF Counters, Stale, InCounter, Counting, PTypeOK
  <2>3. l = 0 /\ m = n
    BY <1>12, <2>2 DEF m, n
  <2>4. count' = count + 1
    BY <1>8, <2>1 DEF Knows
  <2>5. OneUser' /\ Knows'
    BY <1>8, <2>1 DEF OneUser, Knows, InCounter, Counting
  <2> QED
    BY <1>3, <1>4, <1>8, <2>1, <2>2, <2>3, <2>4, <2>5
<1>19. ASSUME NEW p \in Procs, ResetCount(p) PROVE Goal
  <2>1. /\ pc[p] = "reset" /\ count' = 0 /\ since' = 0 /\ pc' = [pc EXCEPT ![p] = "idle"]
        /\ UNCHANGED <<tmps, next, cuts, faults>>
    BY <1>19 DEF ResetCount
  <2>2. \A q \in Procs \ {p} : pc[q] \notin InCounter
    BY <1>8, <2>1 DEF OneUser, InCounter
  <2>3. Counters' = {} /\ Stale' = Stale
    BY <1>4, <2>1, <2>2 DEF Counters, Stale, InCounter, Counting, PTypeOK
  <2>4. l = 0 /\ m = n
    BY <1>12, <2>3 DEF m, n
  <2>5. OneUser' /\ Knows'
    BY <1>4, <2>1, <2>2 DEF OneUser, Knows, InCounter, Counting
  <2> QED
    BY <1>3, <1>4, <1>8, <2>1, <2>4, <2>5
<1>20. ASSUME NEW p \in Procs, Fault(p) PROVE Goal
  <2>1. /\ faults' = faults + 1 /\ pc' = [pc EXCEPT ![p] = "idle"]
        /\ tmps' = (IF pc[p] \in {"create", "rename"} THEN tmps \ {p} ELSE tmps)
        /\ UNCHANGED <<next, since, cuts>>
        /\ count' = count \/ (pc[p] = "rename" /\ count' = next[p])
    BY <1>20 DEF Fault
  <2>2. Stale' \in SUBSET Stale
    BY <1>4, <2>1 DEF Stale, PTypeOK
  <2>3. m <= n
    BY <1>2, <2>2, SmallerSize DEF m, n
  <2>4. l <= k /\ k <= l + 1
    <3>1. CASE p \in Counters
      <4>1. Counters' = {} /\ k = 1
        BY <1>4, <1>10, <2>1, <3>1 DEF Counters, Counting
      <4> QED
        BY <1>12, <4>1
    <3>2. CASE p \notin Counters
      <4>1. Counters' = Counters
        BY <1>4, <2>1, <3>2 DEF Counters, Counting
      <4> QED
        BY <1>3, <4>1 DEF k, l
    <3> QED
      BY <3>1, <3>2
  <2>5. OneUser' /\ Knows'
    BY <1>4, <1>8, <2>1 DEF OneUser, Knows, InCounter, Counting
  <2>6. CASE count' = count
    BY <1>3, <1>4, <1>8, <2>1, <2>3, <2>4, <2>5, <2>6
  <2>7. CASE pc[p] = "rename" /\ count' = next[p]
    <3>1. count' = count + 1
      BY <1>8, <2>7 DEF Knows
    <3>2. p \in Counters /\ Counters' = {} /\ k = 1
      BY <1>4, <1>10, <2>1, <2>7 DEF Counters, Counting
    <3>3. l = 0
      BY <1>12, <3>2
    <3> QED
      BY <1>3, <1>4, <1>8, <2>1, <2>3, <2>5, <3>1, <3>2, <3>3
  <2> QED
    BY <2>1, <2>6, <2>7
<1>21. CASE PowerCut
  <2>1. /\ cuts' = cuts + 1 /\ pc' = [p \in Procs |-> "idle"]
        /\ UNCHANGED <<count, tmps, next, since, faults>>
    BY <1>21 DEF PowerCut
  <2>2. Counters' = {} /\ l = 0
    BY <1>12, <2>1 DEF Counters, Counting
  <2>3. k <= 1 /\ m <= n + 1
    <3>1. CASE Counters = {}
      <4>1. Stale' = Stale
        BY <2>1, <3>1 DEF Counters, Stale, Counting, PTypeOK
      <4> QED
        BY <1>3, <1>11, <3>1, <4>1 DEF m, n
    <3>2. ASSUME NEW p \in Counters PROVE k <= 1 /\ m <= n + 1
      <4>1. p \in Procs /\ Stale' \in SUBSET (Stale \cup {p})
        BY <1>10, <2>1, <3>2 DEF Counters, Stale, Counting, PTypeOK
      <4>2. Cardinality(Stale \cup {p}) <= n + 1
        <5>1. CASE p \in Stale
          <6>1. Stale \cup {p} = Stale
            BY <5>1
          <6>2. Cardinality(Stale \cup {p}) = n
            BY <6>1, Zenon DEF n
          <6> QED
            BY <1>3, <6>2
        <5>2. CASE p \notin Stale
          <6>1. Cardinality(Stale \cup {p}) = Cardinality(Stale) + 1
            BY <1>2, <4>1, <5>2, Sizes
          <6> QED
            BY <1>3, <6>1 DEF n
        <5> QED
          BY <5>1, <5>2
      <4>3. Stale \cup {p} \in SUBSET Procs
        BY <1>2, <4>1
      <4>4. m <= Cardinality(Stale \cup {p}) /\ Cardinality(Stale \cup {p}) \in Nat
        BY <4>1, <4>3, SmallerSize DEF m
      <4> QED
        BY <1>3, <1>10, <3>2, <4>2, <4>4
    <3> QED
      BY <3>1, <3>2
  <2>4. OneUser' /\ Knows'
    BY <2>1 DEF OneUser, Knows, InCounter, Counting
  <2> QED
    BY <1>3, <1>4, <1>8, <2>1, <2>2, <2>3, <2>4
<1>22. CASE UNCHANGED vars
  <2>1. Counters' = Counters /\ Stale' = Stale /\ UNCHANGED <<count, since, cuts, faults>>
    BY <1>22 DEF vars, Counters, Stale
  <2>2. OneUser' /\ Knows'
    BY <1>8, <1>22 DEF vars, OneUser, Knows
  <2> QED
    BY <1>8, <2>1, <2>2 DEF k, l, m, n
<1> QED
  BY <1>13, <1>14, <1>15, <1>16, <1>17, <1>18, <1>19, <1>20, <1>21, <1>22 DEF Next

\* As long as no two clients were in the counter at once, the count is the
\* number of consecutive failures, but for two for each power cut and one for
\* each failed call, and never more.
THEOREM PamFailuresCounted == Spec => []FailuresCounted
<1>1. Init => Orderly
  <2> SUFFICES ASSUME Init PROVE OneUser /\ Knows /\ Accounted
    BY DEF Orderly
  <2>1. Counters = {} /\ Stale = {}
    BY DEF Init, Counters, Stale, Counting
  <2>2. Cardinality(Stale) = 0 /\ InFlight = 0
    BY <2>1, FS_EmptySet DEF InFlight, Counters
  <2> QED
    BY <2>2 DEF Init, OneUser, Knows, Accounted, InCounter, Counting
<1>2. PTypeOK /\ Orderly => FailuresCounted
  <2> SUFFICES ASSUME PTypeOK, Accounted
               PROVE  since <= count + 2 * cuts + faults + InFlight /\ count + InFlight <= since
    BY DEF Orderly, FailuresCounted
  <2>1. Cardinality(Stale) \in Nat
    BY Sizes DEF PTypeOK, Stale
  <2>2. InFlight \in Nat
    BY Sizes DEF InFlight
  <2> QED
    BY <2>1, <2>2, PamAssumption DEF PTypeOK, Accounted
<1> QED
  BY <1>1, <1>2, NextOrderly, PamTypeCorrect, PTL DEF Spec

=============================================================================
