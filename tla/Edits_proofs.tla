---------------------------- MODULE Edits_proofs ----------------------------
(***************************************************************************)
(* The two edits that arm makes, for a HOOKS line and for auth rules of    *)
(* any length: disarm takes out of HOOKS what arm put in, and the armed    *)
(* rules route every login as the stock rules did.                         *)
(***************************************************************************)
EXTENDS PamStack, HookEdit, SequenceTheorems, WellFoundedInduction, TLAPS

\* What stands for induction over positions: a set of counterexamples that is
\* not empty has a least one.
LEMMA LeastIndex ==
  ASSUME NEW T \in SUBSET Nat, T # {}
  PROVE  \E x \in T : \A y \in T : x <= y
<1>1. PICK x \in T : \A y \in T : ~ (<<y, x>> \in OpToRel(<, Nat))
  BY NatLessThanWellFounded, WFMin
<1>2. ASSUME NEW y \in T PROVE x <= y
  <2>1. ~(y < x)
    BY <1>1 DEF OpToRel
  <2> QED
    BY <2>1
<1> QED
  BY <1>2

-----------------------------------------------------------------------------
(***************************************************************************)
(* The edit of HOOKS                                                       *)
(***************************************************************************)

\* The fragments of a HOOKS line; the two that arm puts in are named because no
\* prover knows that a literal is in STRING.
Fragments == STRING \cup {"deathstroke", " "}

LEMMA StringsAreFragments ==
  ASSUME NEW l \in Seq(STRING) PROVE l \in Seq(Fragments)
<1>1. STRING \subseteq Fragments
  BY DEF Fragments
<1> QED
  BY <1>1, SeqMonotonic, Zenon

\* str::find returns the first occurrence, where there is one.
LEMMA FindIsFirst ==
  ASSUME NEW l \in Seq(Fragments), NEW x, Found(l, x)
  PROVE  /\ Find(l, x) \in DOMAIN l /\ l[Find(l, x)] = x
         /\ \A j \in 1..(Find(l, x) - 1) : l[j] # x
<1> DEFINE T == {i \in DOMAIN l : l[i] = x}
<1>1. T \in SUBSET Nat /\ T # {}
  BY DEF Found
<1>2. PICK i \in T : \A j \in T : i <= j
  BY <1>1, LeastIndex
<1>3. i \in DOMAIN l /\ l[i] = x /\ \A j \in 1..(i - 1) : l[j] # x
  BY <1>2
<1> QED
  BY <1>3 DEF Find

LEMMA PairIsSeq == ASSUME NEW S, NEW a \in S, NEW b \in S PROVE <<a, b>> \in Seq(S)
OBVIOUS

\* The edited line: the token and a space where the encrypt hook was.
LEMMA InsertedIs ==
  ASSUME NEW l \in Seq(Fragments), ~Found(l, "deathstroke"), CanInsert(l)
  PROVE  \E e \in 1..Len(l) :
           /\ Inserted(l) \in Seq(Fragments) /\ Len(Inserted(l)) = Len(l) + 2
           /\ \A j \in 1..(e - 1) : Inserted(l)[j] = l[j]
           /\ Inserted(l)[e] = "deathstroke" 
           /\ \A j \in e..Len(l) : Inserted(l)[j + 2] = l[j]
           /\ Find(Inserted(l), "deathstroke") = e
<1> DEFINE e == Find(l, "encrypt")
           L == SubSeq(l, 1, e - 1)
           R == SubSeq(l, e, Len(l))
           T == <<"deathstroke", " ">>
           n == Inserted(l)
<1>1. e \in 1..Len(l)
  BY FindIsFirst DEF CanInsert
<1>2. n = L \o T \o R
  BY DEF Inserted
<1>3. L \in Seq(Fragments) /\ Len(L) = e - 1 /\ \A j \in 1..(e - 1) : L[j] = l[j]
  BY <1>1
<1>4. R \in Seq(Fragments) /\ Len(R) = Len(l) - e + 1
      /\ \A j \in 1..(Len(l) - e + 1) : R[j] = l[e + j - 1]
  BY <1>1
<1>5. T \in Seq(Fragments) /\ Len(T) = 2 /\ T[1] = "deathstroke"
  <2>1. "deathstroke" \in Fragments /\ " " \in Fragments
    BY DEF Fragments
  <2>2. T \in Seq(Fragments)
    BY <2>1, PairIsSeq, Zenon
  <2> QED
    BY <2>2
<1> HIDE DEF L, R, T, e, n
<1> DEFINE H == L \o T
<1>6a. H \in Seq(Fragments) /\ Len(H) = e + 1
  <2>1. H \in Seq(Fragments) /\ Len(H) = Len(L) + Len(T)
    BY <1>3, <1>5, ConcatProperties, Zenon
  <2> QED
    BY <2>1, <1>1, <1>3, <1>5
<1>6b. H[e] = "deathstroke" /\ \A j \in 1..(e - 1) : H[j] = L[j]
  <2>1. \A i \in 1..(Len(L) + Len(T)) : H[i] = IF i <= Len(L) THEN L[i] ELSE T[i - Len(L)]
    BY <1>3, <1>5, ConcatProperties, Zenon
  <2> HIDE DEF H
  <2>2. e \in 1..(Len(L) + Len(T)) /\ ~(e <= Len(L)) /\ e - Len(L) = 1
    BY <1>1, <1>3, <1>5
  <2>3. H[e] = "deathstroke"
    BY <2>1, <2>2, <1>5
  <2> QED
    BY <2>1, <2>3, <1>1, <1>3, <1>5
<1>6c. n = H \o R
  BY <1>2
<1> HIDE DEF H
<1>6. n \in Seq(Fragments) /\ Len(n) = Len(l) + 2
  <2>1. n \in Seq(Fragments) /\ Len(n) = Len(H) + Len(R)
    BY <1>4, <1>6a, <1>6c, ConcatProperties, Zenon
  <2> QED
    BY <2>1, <1>1, <1>4, <1>6a
<1>7. \A j \in 1..(e - 1) : n[j] = l[j]
  BY <1>1, <1>3, <1>4, <1>6a, <1>6b, <1>6c
<1>8. n[e] = "deathstroke"
  BY <1>1, <1>4, <1>6a, <1>6b, <1>6c
<1>9. \A j \in e..Len(l) : n[j + 2] = l[j]
  <2> SUFFICES ASSUME NEW j \in e..Len(l) PROVE n[j + 2] = l[j]
    OBVIOUS
  <2>1. n[j + 2] = R[j - e + 1]
    BY <1>1, <1>4, <1>6a, <1>6c
  <2> QED
    BY <2>1, <1>1, <1>4
<1>10. Find(n, "deathstroke") = e
  <2>1. Found(n, "deathstroke")
    BY <1>1, <1>6, <1>8 DEF Found
  <2>2. \A j \in 1..(e - 1) : n[j] # "deathstroke"
    BY <1>1, <1>7 DEF Found
  <2> QED
    BY <2>1, <2>2, <1>1, <1>6, <1>8, FindIsFirst
<1> QED
  BY <1>1, <1>6, <1>7, <1>8, <1>9, <1>10 DEF n

LEMMA InsertedFound ==
  ASSUME NEW l \in Seq(Fragments), ~Found(l, "deathstroke"), CanInsert(l)
  PROVE  Found(Inserted(l), "deathstroke") /\ Inserted(Inserted(l)) = Inserted(l)
<1>1. Found(Inserted(l), "deathstroke")
  BY InsertedIs DEF Found
<1> QED
  BY <1>1 DEF Inserted

\* Taking the token out gives back the line it was put into.
LEMMA WithoutInserted ==
  ASSUME NEW l \in Seq(Fragments), ~Found(l, "deathstroke"), CanInsert(l)
  PROVE  Without(Inserted(l)) = l
<1> DEFINE n == Inserted(l)
<1>1. PICK e \in 1..Len(l) :
           /\ n \in Seq(Fragments) /\ Len(n) = Len(l) + 2
           /\ \A j \in 1..(e - 1) : n[j] = l[j]
           /\ n[e] = "deathstroke" 
           /\ \A j \in e..Len(l) : n[j + 2] = l[j]
           /\ Find(n, "deathstroke") = e
  BY InsertedIs
<1> DEFINE L == SubSeq(n, 1, e - 1)
           R == SubSeq(n, e + 2, Len(n))
<1>2. Without(n) = L \o R
  BY <1>1, InsertedFound DEF Without
<1> HIDE DEF n
<1>3. L \in Seq(Fragments) /\ Len(L) = e - 1 /\ \A j \in 1..(e - 1) : L[j] = l[j]
  BY <1>1
<1>4. R \in Seq(Fragments) /\ Len(R) = Len(l) - e + 1
      /\ \A j \in 1..(Len(l) - e + 1) : R[j] = n[e + j + 1]
  BY <1>1
<1>5. \A j \in 1..(Len(l) - e + 1) : R[j] = l[e + j - 1]
  <2> SUFFICES ASSUME NEW j \in 1..(Len(l) - e + 1) PROVE R[j] = l[e + j - 1]
    OBVIOUS
  <2>1. (e + j - 1) \in e..Len(l) /\ (e + j - 1) + 2 = e + j + 1
    BY <1>1
  <2> QED
    BY <2>1, <1>1, <1>4
<1> HIDE DEF L, R
<1>6. Without(n) \in Seq(Fragments) /\ Len(Without(n)) = Len(l)
  BY <1>1, <1>2, <1>3, <1>4
<1>7. ASSUME NEW j \in 1..Len(l) PROVE Without(n)[j] = l[j]
  <2>1. CASE j < e
    BY <2>1, <1>2, <1>3, <1>4
  <2>2. CASE j >= e
    <3>1. Without(n)[j] = R[j - e + 1]
      BY <2>2, <1>2, <1>3, <1>4
    <3> QED
      BY <3>1, <2>2, <1>5
  <2> QED
    BY <2>1, <2>2
<1>8. Without(n) = l
  BY <1>6, <1>7
<1> QED
  BY <1>8 DEF n

\* without_deathstroke_hook undoes ensure_deathstroke_hook_before_encrypt or
\* bails: the line that disarm leaves is the one that arm found, whatever its
\* length and wherever its encrypt hook is, unless arm's token is part of a
\* longer word, when disarm leaves the edited line.
THEOREM RemovedInserted ==
  ASSUME NEW l \in Seq(Fragments), ~Found(l, "deathstroke"), CanInsert(l)
  PROVE  Removed(Inserted(l)) =
           IF TokenStandsAlone(Inserted(l)) THEN [res |-> "ok", line |-> l]
           ELSE [res |-> "bail", line |-> Inserted(l)]
BY WithoutInserted DEF Removed

-----------------------------------------------------------------------------
(***************************************************************************)
(* The edit of the auth rules                                              *)
(***************************************************************************)

\* n is q with e put in at i, and what stood there moved back.
Insertion(n, q, i, e) ==
  /\ Len(n) = Len(q) + 1
  /\ \A j \in 1..(Len(q) + 1) :
       n[j] = IF j < i THEN q[j] ELSE IF j = i THEN e ELSE q[j - 1]

\* InsertAt is Vec::insert.
LEMMA InsertAtIs ==
  ASSUME NEW S, NEW q \in Seq(S), NEW e \in S, NEW i \in 1..(Len(q) + 1)
  PROVE  InsertAt(q, i, e) \in Seq(S) /\ Insertion(InsertAt(q, i, e), q, i, e)
<1> DEFINE L == SubSeq(q, 1, i - 1)
           R == SubSeq(q, i, Len(q))
           H == L \o <<e>>
           n == InsertAt(q, i, e)
<1>1. L \in Seq(S) /\ Len(L) = i - 1 /\ \A j \in 1..(i - 1) : L[j] = q[j]
  OBVIOUS
<1>2. R \in Seq(S) /\ Len(R) = Len(q) - i + 1
      /\ \A j \in 1..(Len(q) - i + 1) : R[j] = q[i + j - 1]
  OBVIOUS
<1>3. n = H \o R
  BY DEF InsertAt
<1> HIDE DEF L, R, n
<1>4. H \in Seq(S) /\ Len(H) = i /\ H[i] = e /\ \A j \in 1..(i - 1) : H[j] = q[j]
  BY <1>1
<1> HIDE DEF H
<1>5. n \in Seq(S) /\ Len(n) = Len(q) + 1
  <2>1. n \in Seq(S) /\ Len(n) = Len(H) + Len(R)
    BY <1>2, <1>3, <1>4, ConcatProperties, Zenon
  <2> QED
    BY <2>1, <1>2, <1>4
<1>6. \A j \in 1..i : n[j] = H[j]
  BY <1>2, <1>3, <1>4
<1>7. ASSUME NEW j \in (i + 1)..(Len(q) + 1) PROVE n[j] = q[j - 1]
  <2>1. n[j] = R[j - i]
    BY <1>2, <1>3, <1>4
  <2>2. (j - i) \in 1..(Len(q) - i + 1) /\ i + (j - i) - 1 = j - 1
    OBVIOUS
  <2> QED
    BY <2>1, <2>2, <1>2
<1> QED
  BY <1>4, <1>5, <1>6, <1>7 DEF n, Insertion

\* Where a walk begins.
Start == [next |-> 1, verdict |-> "undecided", ran |-> {}]

\* The recursion of Walks has a solution: there is a function that follows it up
\* to each rule, or there would be a first one without.
LEMMA WalksUnfold ==
  ASSUME NEW rules, Len(rules) \in Nat, NEW login, NEW live
  PROVE  /\ Walks(rules, login, live)[0] = Start
         /\ \A i \in 1..Len(rules) :
              Walks(rules, login, live)[i]
                = Visit(rules, i, Walks(rules, login, live)[i - 1], login, live)
<1> DEFINE n == Len(rules)
           Next(i, w) == Visit(rules, i, w, login, live)
           Upto(k, g) == g = [i \in 0..k |-> IF i = 0 THEN Start ELSE Next(i, g[i - 1])]
           T == {k \in 0..n : ~\E g : Upto(k, g)}
<1>1. T = {}
  <2> SUFFICES ASSUME T # {} PROVE FALSE
    OBVIOUS
  <2>1. PICK k \in T : \A j \in T : k <= j
    <3>1. T \in SUBSET Nat
      OBVIOUS
    <3> HIDE DEF T
    <3> QED
      BY <3>1, LeastIndex
  <2>2. CASE k = 0
    <3> DEFINE g == [i \in 0..0 |-> Start]
    <3>1. Upto(0, g)
      OBVIOUS
    <3> QED
      BY <2>1, <2>2, <3>1
  <2>3. CASE k # 0
    <3>1. k \in Nat /\ k > 0 /\ k - 1 \in 0..n /\ ~(k <= k - 1)
      <4>1. k \in 0..n
        BY <2>1
      <4> QED
        BY <2>3, <4>1
    <3>2. k - 1 \notin T
      <4> HIDE DEF T
      <4> QED
        BY <2>1, <3>1
    <3>3. PICK h : Upto(k - 1, h)
      BY <3>1, <3>2
    <3> HIDE DEF Next
    <3> DEFINE g == [i \in 0..k |-> IF i < k THEN h[i] ELSE Next(k, h[k - 1])]
    <3>4. \A i \in 0..(k - 1) : h[i] = IF i = 0 THEN Start ELSE Next(i, h[i - 1])
      BY <3>3
    <3>5. \A i \in 0..k : g[i] = IF i = 0 THEN Start ELSE Next(i, g[i - 1])
      BY <3>1, <3>4
    <3>6. Upto(k, g)
      BY <3>5
    <3> QED
      BY <2>1, <3>6
  <2> QED
    BY <2>2, <2>3
<1>2. n \in 0..n
  OBVIOUS
<1>3. \E g : Upto(n, g)
  BY <1>1, <1>2
<1>4. Upto(n, Walks(rules, login, live))
  BY <1>3 DEF Walks, Start
<1> QED
  BY <1>4

\* Each step of a walk is a visit.
LEMMA WalkStep ==
  ASSUME NEW rules, NEW n \in Nat, Len(rules) = n, NEW login, NEW live,
         NEW w, w = Walks(rules, login, live),
         NEW i \in 1..n, NEW j \in Nat, i = j + 1
  PROVE  w[i] = Visit(rules, i, w[j], login, live)
<1>1. i - 1 = j
  OBVIOUS
<1>2. w[i] = Visit(rules, i, w[i - 1], login, live)
  BY WalksUnfold
<1> QED
  BY <1>1, <1>2

\* A walk that is over stays as it is.
LEMMA WalkEnded ==
  ASSUME NEW rules, NEW n \in Nat, Len(rules) = n, NEW login, NEW live,
         NEW w, w = Walks(rules, login, live),
         NEW j \in Nat, j + 1 \in 1..n, w[j].next = 0
  PROVE  w[j + 1] = w[j]
<1>1. w[j + 1] = Visit(rules, j + 1, w[j], login, live)
  BY WalkStep
<1>2. w[j].next # j + 1
  OBVIOUS
<1> QED
  BY <1>1, <1>2 DEF Visit

\* The stock rules, and those that arm puts in.
AnyRules == Rules \cup {DsPre, DsFail, DsSucc}

\* The positions that arm looks for, where the rules are there.
LEMMA FailIsFirst ==
  ASSUME NEW rules \in Seq(Rules), Some(rules, IsFail)
  PROVE  FailAt(rules) \in 1..Len(rules) /\ IsFail(rules[FailAt(rules)])
<1> DEFINE T == {i \in DOMAIN rules : IsFail(rules[i])}
<1>1. T \in SUBSET Nat /\ T # {}
  BY DEF Some
<1>2. PICK i \in T : \A j \in T : i <= j
  BY <1>1, LeastIndex
<1>3. i \in DOMAIN rules /\ IsFail(rules[i]) /\ \A j \in 1..(i - 1) : ~IsFail(rules[j])
  BY <1>2
<1> QED
  BY <1>3 DEF FailAt, FirstOf

LEMMA SuccIsFirst ==
  ASSUME NEW rules \in Seq(Rules), Some(rules, IsSucc)
  PROVE  SuccAt(rules) \in 1..Len(rules) /\ IsSucc(rules[SuccAt(rules)])
<1> DEFINE T == {i \in DOMAIN rules : IsSucc(rules[i])}
<1>1. T \in SUBSET Nat /\ T # {}
  BY DEF Some
<1>2. PICK i \in T : \A j \in T : i <= j
  BY <1>1, LeastIndex
<1>3. i \in DOMAIN rules /\ IsSucc(rules[i]) /\ \A j \in 1..(i - 1) : ~IsSucc(rules[j])
  BY <1>2
<1> QED
  BY <1>3 DEF SuccAt, FirstOf

\* A rule whose success jump is raised is otherwise the same.
LEMMA ReplacedIs ==
  ASSUME NEW r \in Rules, NEW n \in Nat
  PROVE  LET q == ReplaceSuccessJump(r, n)
         IN  /\ q \in Rules /\ q.mod = r.mod /\ q.arg = r.arg
             /\ q.ctl.ignore = r.ctl.ignore /\ q.ctl.default = r.ctl.default
             /\ JumpsOver(q) /\ q.ctl.success.n = n
BY DEF ReplaceSuccessJump, Rule, Control, Jump, JumpsOver, Rules, Controls, Actions

\* What the armed rules keep of a rule; the jump is in the armed list's places.
Likeness(r, q, i, f) ==
  /\ q.mod = r.mod /\ q.arg = r.arg
  /\ q.ctl.ignore = r.ctl.ignore /\ q.ctl.default = r.ctl.default
  /\ q.ctl.success.do = r.ctl.success.do
  /\ q.ctl.success.n = IF i < f /\ JumpsOver(r) /\ i + r.ctl.success.n >= f
                       THEN r.ctl.success.n + 1 ELSE r.ctl.success.n

\* Raising the jumps keeps the rules apart from them.
LEMMA RaisedIs ==
  ASSUME NEW rules \in Seq(Rules), NEW f \in 1..Len(rules)
  PROVE  /\ Raised(rules, f) \in Seq(Rules) /\ Len(Raised(rules, f)) = Len(rules)
         /\ \A i \in 1..Len(rules) : Likeness(rules[i], Raised(rules, f)[i], i, f)
<1>1. ASSUME NEW i \in 1..Len(rules)
      PROVE  Raised(rules, f)[i] \in Rules /\ Likeness(rules[i], Raised(rules, f)[i], i, f)
  <2> DEFINE r == rules[i]
             n == r.ctl.success.n
             q == Raised(rules, f)[i]
             Crosses == i < f /\ JumpsOver(r) /\ i + n >= f
  <2>1. r \in Rules /\ n \in Nat
    <3>1. r \in Rules
      OBVIOUS
    <3> HIDE DEF r
    <3> QED
      BY <3>1 DEF Rules, Controls, Actions
  <2>2. q = IF Crosses THEN ReplaceSuccessJump(r, n + 1) ELSE r
    BY DEF Raised
  <2> HIDE DEF r, n, q
  <2>3. CASE Crosses
    <3>1. q = ReplaceSuccessJump(r, n + 1) /\ n + 1 \in Nat
      BY <2>1, <2>2, <2>3
    <3>2. /\ q \in Rules /\ q.mod = r.mod /\ q.arg = r.arg
          /\ q.ctl.ignore = r.ctl.ignore /\ q.ctl.default = r.ctl.default
          /\ JumpsOver(q) /\ q.ctl.success.n = n + 1
      BY <2>1, <3>1, ReplacedIs
    <3> QED
      BY <2>3, <3>2 DEF Likeness, JumpsOver, r, n, q
  <2>4. CASE ~Crosses
    BY <2>1, <2>2, <2>4 DEF Likeness, r, n, q
  <2> QED
    BY <2>3, <2>4
<1>2. DOMAIN Raised(rules, f) = 1..Len(rules)
  BY DEF Raised
<1>3. Raised(rules, f) \in [1..Len(rules) -> Rules]
  BY <1>1, <1>2 DEF Raised
<1>4. Raised(rules, f) \in Seq(Rules) /\ Len(Raised(rules, f)) = Len(rules)
  BY <1>2, <1>3, SeqDef
<1> QED
  BY <1>1, <1>4

\* The armed rules: pam_ds at 1, in front of authfail and behind authsucc, and
\* the stock rules around them.
LEMMA ArmedStackIs ==
  ASSUME NEW rules \in Seq(Rules), NEW f \in 1..Len(rules), NEW s \in 1..Len(rules),
         f = FailAt(rules), s = SuccAt(rules), f < s
  PROVE  LET armed == ArmedStack(rules)
         IN  /\ armed \in Seq(AnyRules) /\ Len(armed) = Len(rules) + 3
             /\ armed[1] = DsPre /\ armed[f + 1] = DsFail /\ armed[s + 3] = DsSucc
             /\ \A i \in 1..(f - 1) : Likeness(rules[i], armed[i + 1], i, f)
             /\ \A i \in f..s : Likeness(rules[i], armed[i + 2], i, f)
             /\ \A i \in (s + 1)..Len(rules) : Likeness(rules[i], armed[i + 3], i, f)
<1> DEFINE r == Raised(rules, f)
           a == InsertAt(r, f, DsFail)
           b == InsertAt(a, s + 2, DsSucc)
           c == InsertAt(b, 1, DsPre)
           n == Len(rules)
<1>1. r \in Seq(AnyRules) /\ Len(r) = n /\ \A i \in 1..n : Likeness(rules[i], r[i], i, f)
  <2>1. r \in Seq(Rules) /\ Len(r) = n /\ \A i \in 1..n : Likeness(rules[i], r[i], i, f)
    BY RaisedIs
  <2>2. Rules \subseteq AnyRules
    BY DEF AnyRules
  <2>3. r \in Seq(AnyRules)
    BY <2>1, <2>2, SeqMonotonic, Zenon
  <2> QED
    BY <2>1, <2>3
<1>2. DsPre \in AnyRules /\ DsFail \in AnyRules /\ DsSucc \in AnyRules
  BY DEF AnyRules
<1>3. ArmedStack(rules) = c
  BY DEF ArmedStack
<1> HIDE DEF r
<1>4. a \in Seq(AnyRules) /\ Insertion(a, r, f, DsFail)
  <2>1. f \in 1..(Len(r) + 1)
    BY <1>1
  <2> QED
    BY <1>1, <1>2, <2>1, InsertAtIs
<1> HIDE DEF a
<1>5. b \in Seq(AnyRules) /\ Insertion(b, a, s + 2, DsSucc)
  <2>1. s + 2 \in 1..(Len(a) + 1)
    BY <1>1, <1>4 DEF Insertion
  <2>2. a \in Seq(AnyRules)
    BY <1>4
  <2> QED
    BY <1>2, <2>1, <2>2, InsertAtIs
<1> HIDE DEF b
<1>6. c \in Seq(AnyRules) /\ Insertion(c, b, 1, DsPre)
  <2>1. 1 \in 1..(Len(b) + 1)
    BY <1>1, <1>4, <1>5 DEF Insertion
  <2>2. b \in Seq(AnyRules)
    BY <1>5
  <2> QED
    BY <1>2, <2>1, <2>2, InsertAtIs
<1> HIDE DEF c
<1> USE DEF Insertion
<1>7. c \in Seq(AnyRules) /\ Len(a) = n + 1 /\ Len(b) = n + 2 /\ Len(c) = n + 3
  BY <1>1, <1>4, <1>5, <1>6
<1>8. c[1] = DsPre /\ c[f + 1] = DsFail /\ c[s + 3] = DsSucc
  <2>1. c[f + 1] = b[f] /\ c[s + 3] = b[s + 2]
    BY <1>6, <1>7
  <2>2. b[f] = a[f] /\ b[s + 2] = DsSucc
    BY <1>5, <1>7
  <2> QED
    BY <2>1, <2>2, <1>1, <1>4, <1>6, <1>7
<1>9. ASSUME NEW i \in 1..(f - 1) PROVE c[i + 1] = r[i]
  <2>1. c[i + 1] = b[i]
    BY <1>6, <1>7
  <2>2. b[i] = a[i]
    BY <1>5, <1>7
  <2> QED
    BY <2>1, <2>2, <1>1, <1>4
<1>10. ASSUME NEW i \in f..s PROVE c[i + 2] = r[i]
  <2>1. c[i + 2] = b[i + 1]
    BY <1>6, <1>7
  <2>2. b[i + 1] = a[i + 1]
    BY <1>5, <1>7
  <2>3. a[i + 1] = r[i]
    <3>1. i + 1 \in 1..(Len(r) + 1) /\ ~(i + 1 < f) /\ i + 1 # f /\ i + 1 - 1 = i
      BY <1>1
    <3> QED
      BY <3>1, <1>4
  <2> QED
    BY <2>1, <2>2, <2>3
<1>11. ASSUME NEW i \in (s + 1)..n PROVE c[i + 3] = r[i]
  <2>1. c[i + 3] = b[i + 2]
    BY <1>6, <1>7
  <2>2. b[i + 2] = a[i + 1]
    <3>1. i + 2 \in 1..(Len(a) + 1) /\ ~(i + 2 < s + 2) /\ i + 2 # s + 2 /\ i + 2 - 1 = i + 1
      BY <1>7
    <3> QED
      BY <3>1, <1>5
  <2>3. a[i + 1] = r[i]
    <3>1. i + 1 \in 1..(Len(r) + 1) /\ ~(i + 1 < f) /\ i + 1 # f /\ i + 1 - 1 = i
      BY <1>1
    <3> QED
      BY <3>1, <1>4
  <2> QED
    BY <2>1, <2>2, <2>3
<1> QED
  BY <1>1, <1>3, <1>7, <1>8, <1>9, <1>10, <1>11

-----------------------------------------------------------------------------

\* The kinds of return value.
Answers == {"success", "ignore", "default"}

\* What a module returns depends on the module and its argument only.
LEMMA ReturnedIs ==
  ASSUME NEW r, NEW login, NEW live
  PROVE  /\ Returned(r, login, live) \in Answers
         /\ \A q : q.mod = r.mod /\ q.arg = r.arg
               => Returned(q, login, live) = Returned(r, login, live)
BY DEF Returned, Rejects, Fires, Answers, IsFail, Is

\* What a rule's control does.
Act(r, login, live) == r.ctl[Returned(r, login, live)]

\* It is one of the three actions of the control.
LEMMA ActIs ==
  ASSUME NEW r \in AnyRules, NEW login, NEW live
  PROVE  /\ Act(r, login, live) \in Actions
         /\ \/ Returned(r, login, live) = "success" /\ Act(r, login, live) = r.ctl.success
            \/ Returned(r, login, live) = "ignore" /\ Act(r, login, live) = r.ctl.ignore
            \/ Returned(r, login, live) = "default" /\ Act(r, login, live) = r.ctl.default
<1>1. r.ctl \in Controls
  BY DEF AnyRules, Rules, DsPre, DsFail, DsSucc, Rule, Control, Die, Optional, Do, Controls, Actions
<1>2. Returned(r, login, live) \in Answers
  BY ReturnedIs
<1> QED
  BY <1>1, <1>2 DEF Act, Controls, Answers

\* A rule that is not the next one does not run.
LEMMA NotVisited ==
  ASSUME NEW rules, NEW i, NEW walk, NEW login, NEW live, walk.next # i
  PROVE  Visit(rules, i, walk, login, live) = walk
BY DEF Visit

\* Two rules with the same action make the same of two walks.
LEMMA VisitAlike ==
  ASSUME NEW rules, NEW armed, Len(rules) \in Nat, Len(armed) \in Nat,
         NEW k \in Nat, NEW p \in Nat, NEW a, NEW b, NEW login, NEW live,
         NEW x \in Actions, NEW y \in Actions,
         x = Act(rules[k], login, live), y = Act(armed[p], login, live),
         x.do = y.do,
         x.do = "jump" => (k + x.n <= Len(rules) <=> p + y.n <= Len(armed)),
         a.next = k, b.next = p, a.verdict = b.verdict
  PROVE  LET c == Visit(rules, k, a, login, live)
             d == Visit(armed, p, b, login, live)
         IN  /\ c.verdict = d.verdict
             /\ c.ran = a.ran \cup {k} /\ d.ran = b.ran \cup {p}
             /\ \/ c.next = 0 /\ d.next = 0
                \/ c.next = k + 1 /\ d.next = p + 1 /\ x.do # "jump"
                \/ /\ x.do = "jump" /\ k + x.n <= Len(rules)
                   /\ c.next = k + x.n + 1 /\ d.next = p + y.n + 1
<1> DEFINE c == Visit(rules, k, a, login, live)
           d == Visit(armed, p, b, login, live)
           v == a.verdict
<1>1. /\ c.next = Onward(rules, k, x, v) /\ c.verdict = Verdict(rules, k, x, v)
      /\ c.ran = a.ran \cup {k}
  BY DEF Visit, Act
<1>2. /\ d.next = Onward(armed, p, y, v) /\ d.verdict = Verdict(armed, p, y, v)
      /\ d.ran = b.ran \cup {p}
  BY DEF Visit, Act
<1> HIDE DEF c, d, v
<1>3. x.n \in Nat /\ y.n \in Nat
  BY DEF Actions
<1>4. TooFar(rules, k, x) <=> TooFar(armed, p, y)
  BY <1>3 DEF TooFar
<1>5. TooFar(rules, k, x) <=> x.do = "jump" /\ ~(k + x.n <= Len(rules))
  BY <1>3 DEF TooFar
<1>6. Verdict(rules, k, x, v) = Verdict(armed, p, y, v)
  BY <1>4 DEF Verdict
<1>7. \/ Onward(rules, k, x, v) = 0 /\ Onward(armed, p, y, v) = 0
      \/ Onward(rules, k, x, v) = k + 1 /\ Onward(armed, p, y, v) = p + 1 /\ x.do # "jump"
      \/ /\ x.do = "jump" /\ k + x.n <= Len(rules)
         /\ Onward(rules, k, x, v) = k + x.n + 1 /\ Onward(armed, p, y, v) = p + y.n + 1
  BY <1>4, <1>5 DEF Onward
<1> QED
  BY <1>1, <1>2, <1>6, <1>7 DEF c, d

\* The rules of a plain layout of n rules, with authfail at f and authsucc at s,
\* and the armed rules made of them.
Pair(rules, armed, n, f, s) ==
  /\ rules \in Seq(Rules) /\ n = Len(rules) /\ f \in 1..n /\ s \in 1..n /\ f < s
  /\ armed \in Seq(AnyRules) /\ Len(armed) = n + 3
  /\ armed[1] = DsPre /\ armed[f + 1] = DsFail /\ armed[s + 3] = DsSucc
  /\ \A i \in 1..(f - 1) : Likeness(rules[i], armed[i + 1], i, f)
  /\ \A i \in f..s : Likeness(rules[i], armed[i + 2], i, f)
  /\ \A i \in (s + 1)..n : Likeness(rules[i], armed[i + 3], i, f)
  /\ IsFail(rules[f]) /\ rules[f].ctl.default.do = "die"
  /\ IsSucc(rules[s]) /\ rules[s].ctl.success.do \in {"ok", "bad", "ignore"}
  /\ \A i \in 1..(s - 1) : JumpsOver(rules[i]) => i + rules[i].ctl.success.n < s
  /\ \A i \in 1..n :
       /\ "jump" \notin {rules[i].ctl.ignore.do, rules[i].ctl.default.do}
       /\ IsFail(rules[i]) => i = f
       /\ IsSucc(rules[i]) => i = s
       /\ rules[i].mod # "ds"

\* The stock and the armed rules of a supported plain layout.
LEMMA PlainPair ==
  ASSUME NEW rules \in Seq(Rules), Supported(rules), PlainLayout(rules)
  PROVE  Pair(rules, ArmedStack(rules), Len(rules), FailAt(rules), SuccAt(rules))
<1>1. Some(rules, IsFail) /\ Some(rules, IsSucc)
  BY DEF Supported
<1> DEFINE f == FailAt(rules)
           s == SuccAt(rules)
<1>2. f \in 1..Len(rules) /\ IsFail(rules[f]) /\ s \in 1..Len(rules) /\ IsSucc(rules[s])
  BY <1>1, FailIsFirst, SuccIsFirst
<1>3. /\ f < s /\ rules[f].ctl.default.do = "die"
      /\ rules[s].ctl.success.do \in {"ok", "bad", "ignore"}
      /\ \A i \in 1..(s - 1) : JumpsOver(rules[i]) => i + rules[i].ctl.success.n < s
      /\ \A i \in 1..Len(rules) :
           /\ "jump" \notin {rules[i].ctl.ignore.do, rules[i].ctl.default.do}
           /\ IsFail(rules[i]) => i = f
           /\ IsSucc(rules[i]) => i = s
           /\ rules[i].mod # "ds"
  BY DEF PlainLayout
<1> HIDE DEF f, s
<1>4. LET armed == ArmedStack(rules)
      IN  /\ armed \in Seq(AnyRules) /\ Len(armed) = Len(rules) + 3
          /\ armed[1] = DsPre /\ armed[f + 1] = DsFail /\ armed[s + 3] = DsSucc
          /\ \A i \in 1..(f - 1) : Likeness(rules[i], armed[i + 1], i, f)
          /\ \A i \in f..s : Likeness(rules[i], armed[i + 2], i, f)
          /\ \A i \in (s + 1)..Len(rules) : Likeness(rules[i], armed[i + 3], i, f)
  BY <1>2, <1>3, ArmedStackIs DEF f, s
<1> QED
  BY <1>2, <1>3, <1>4 DEF Pair, f, s

\* Place, and how many of the armed rules belong to the first k stock ones.
PlaceOf(f, s, j) == IF j <= f THEN j + 1 ELSE IF j <= s THEN j + 2 ELSE j + 3
Passed(f, s, k) == IF k < f THEN k + 1 ELSE IF k < s THEN k + 2 ELSE k + 3

\* A stock rule other than authfail is in its place among the armed ones.
LEMMA LikeAt ==
  ASSUME NEW rules, NEW armed, NEW n, NEW f, NEW s, Pair(rules, armed, n, f, s),
         NEW k \in 1..n, k # f
  PROVE  Likeness(rules[k], armed[PlaceOf(f, s, k)], k, f)
<1>1. n \in Nat /\ f \in 1..n /\ s \in 1..n /\ f < s
  BY DEF Pair
<1>2. CASE k < f
  BY <1>1, <1>2 DEF PlaceOf, Pair
<1>3. CASE f < k /\ k <= s
  BY <1>1, <1>3 DEF PlaceOf, Pair
<1>4. CASE k > s
  BY <1>1, <1>4 DEF PlaceOf, Pair
<1> QED
  BY <1>1, <1>2, <1>3, <1>4

\* A stock rule other than authfail and the armed one made of it act alike.
LEMMA ActAlike ==
  ASSUME NEW rules, NEW armed, NEW n, NEW f, NEW s, Pair(rules, armed, n, f, s),
         NEW login, NEW live, NEW k \in 1..n, k # f
  PROVE  LET p == PlaceOf(f, s, k)
             x == Act(rules[k], login, live)
             y == Act(armed[p], login, live)
         IN  /\ p \in 1..(n + 3) /\ x \in Actions /\ y \in Actions /\ x.do = y.do
             /\ x.do = "jump" =>
                  /\ k + x.n <= n <=> p + y.n <= n + 3
                  /\ k + x.n <= n => p + y.n + 1 = PlaceOf(f, s, k + x.n + 1)
                  /\ k < s => k + x.n + 1 <= s
                  /\ k # s
<1> DEFINE p == PlaceOf(f, s, k)
           r == rules[k]
           q == armed[p]
           x == Act(r, login, live)
           y == Act(q, login, live)
<1>1. n \in Nat /\ f \in 1..n /\ s \in 1..n /\ f < s
  BY DEF Pair
<1>2. p \in 1..(n + 3)
  BY <1>1 DEF PlaceOf
<1>3. r \in Rules /\ r \in AnyRules /\ q \in AnyRules
  BY <1>2 DEF Pair, AnyRules
<1>4. Likeness(r, q, k, f)
  BY LikeAt
<1>5. Returned(q, login, live) = Returned(r, login, live)
  BY <1>4 DEF Likeness, Returned, Rejects, Fires, IsFail, Is
<1> HIDE DEF r, q
<1>6. x \in Actions /\ y \in Actions
  BY <1>3, ActIs
<1>7. \/ Returned(r, login, live) = "success" /\ x = r.ctl.success /\ y = q.ctl.success
      \/ Returned(r, login, live) = "ignore" /\ x = r.ctl.ignore /\ y = q.ctl.ignore
      \/ Returned(r, login, live) = "default" /\ x = r.ctl.default /\ y = q.ctl.default
  BY <1>3, <1>5, ActIs
<1> HIDE DEF x, y, p
<1>8. x.do = y.do
  BY <1>4, <1>7 DEF Likeness
<1>9. ASSUME x.do = "jump"
      PROVE  /\ k + x.n <= n <=> p + y.n <= n + 3
             /\ k + x.n <= n => p + y.n + 1 = PlaceOf(f, s, k + x.n + 1)
             /\ k < s => k + x.n + 1 <= s
             /\ k # s
  <2>1. r.ctl.ignore.do # "jump" /\ r.ctl.default.do # "jump"
    BY DEF Pair, r
  <2>2. x = r.ctl.success /\ y = q.ctl.success /\ JumpsOver(r)
    BY <1>7, <1>9, <2>1 DEF JumpsOver
  <2>3. k # s /\ (k < s => k + x.n < s)
    BY <1>1, <2>2 DEF Pair, r, JumpsOver
  <2>4. x.n \in Nat /\ y.n = IF k < f /\ k + x.n >= f THEN x.n + 1 ELSE x.n
    BY <1>4, <1>6, <2>2 DEF Likeness, Actions
  <2> QED
    BY <1>1, <2>3, <2>4 DEF p, PlaceOf
<1> QED
  BY <1>2, <1>6, <1>8, <1>9 DEF r, q, p, x, y

\* What the armed walk has run when the stock walk has run `ran`.
ArmedRan(f, s, ran) ==
  {1} \cup {PlaceOf(f, s, j) : j \in ran} \cup (IF s \in ran THEN {s + 3} ELSE {})

\* The two walks past stock rule k and past the armed rules that belong to it.
Abreast(a, b, k, n, f, s) ==
  /\ a.next \in {0} \cup (k + 1)..(n + 1) /\ (k < s => a.next <= s)
  /\ b.next = IF a.next = 0 THEN 0 ELSE PlaceOf(f, s, a.next)
  /\ b.verdict = a.verdict
  /\ a.ran \subseteq 1..k
  /\ b.ran = ArmedRan(f, s, a.ran)

\* One more rule that has run.
LEMMA RanMore ==
  ASSUME NEW f, NEW s, NEW ran, NEW k, k # s
  PROVE  ArmedRan(f, s, ran \cup {k}) = ArmedRan(f, s, ran) \cup {PlaceOf(f, s, k)}
BY DEF ArmedRan

LEMMA RanSucc ==
  ASSUME NEW f, NEW s, NEW ran
  PROVE  ArmedRan(f, s, ran \cup {s})
           = (ArmedRan(f, s, ran) \cup {PlaceOf(f, s, s)}) \cup {s + 3}
BY DEF ArmedRan

\* Rules that are not the next ones change nothing.
LEMMA AbreastStays ==
  ASSUME NEW f \in Nat, NEW s \in Nat, NEW n \in Nat, f < s, NEW k \in 1..n, NEW a, NEW b,
         Abreast(a, b, k - 1, n, f, s), a.next # k
  PROVE  Abreast(a, b, k, n, f, s)
BY DEF Abreast

\* No place is that of two rules, nor that of an inserted or displaced one.
LEMMA PlacesDiffer ==
  ASSUME NEW f \in Nat, NEW s \in Nat, f < s, NEW i \in Nat, NEW j \in Nat, i # j
  PROVE  /\ PlaceOf(f, s, i) # PlaceOf(f, s, j)
         /\ PlaceOf(f, s, i) \notin {0, f + 2, s + 3}
BY DEF PlaceOf

\* Past a rule that is neither authfail nor authsucc the walks are abreast again.
LEMMA AbreastPlain ==
  ASSUME NEW rules, NEW armed, NEW n, NEW f, NEW s, Pair(rules, armed, n, f, s),
         NEW login, NEW live, NEW k \in 1..n, k # f, k # s, NEW a, NEW b,
         Abreast(a, b, k - 1, n, f, s)
  PROVE  Abreast(Visit(rules, k, a, login, live),
                 Visit(armed, PlaceOf(f, s, k), b, login, live), k, n, f, s)
<1> DEFINE p == PlaceOf(f, s, k)
           x == Act(rules[k], login, live)
           y == Act(armed[p], login, live)
           c == Visit(rules, k, a, login, live)
           d == Visit(armed, p, b, login, live)
<1>1. n \in Nat /\ f \in 1..n /\ s \in 1..n /\ f < s /\ Len(rules) = n /\ Len(armed) = n + 3
  BY DEF Pair
<1>2. /\ p \in 1..(n + 3) /\ x \in Actions /\ y \in Actions /\ x.do = y.do
      /\ x.do = "jump" =>
           /\ k + x.n <= n <=> p + y.n <= n + 3
           /\ k + x.n <= n => p + y.n + 1 = PlaceOf(f, s, k + x.n + 1)
           /\ k < s => k + x.n + 1 <= s
  BY ActAlike
<1>3. CASE a.next # k
  <2>1. b.next # p
    <3>1. a.next \in Nat /\ b.next = IF a.next = 0 THEN 0 ELSE PlaceOf(f, s, a.next)
      BY <1>1 DEF Abreast
    <3>2. f \in Nat /\ s \in Nat /\ k \in Nat
      BY <1>1
    <3>3. PlaceOf(f, s, a.next) # p
      BY <1>1, <1>3, <3>1, <3>2, PlacesDiffer
    <3> HIDE DEF p
    <3> QED
      BY <1>2, <3>1, <3>3
  <2>2. c = a /\ d = b
    BY <1>3, <2>1, NotVisited
  <2>3. Abreast(a, b, k, n, f, s)
    BY <1>1, <1>3, AbreastStays
  <2> QED
    BY <2>2, <2>3
<1>4. CASE a.next = k
  <2>1. b.next = p /\ a.verdict = b.verdict
    BY <1>4 DEF Abreast
  <2>2. /\ c.verdict = d.verdict
        /\ c.ran = a.ran \cup {k} /\ d.ran = b.ran \cup {p}
        /\ \/ c.next = 0 /\ d.next = 0
           \/ c.next = k + 1 /\ d.next = p + 1 /\ x.do # "jump"
           \/ /\ x.do = "jump" /\ k + x.n <= Len(rules)
              /\ c.next = k + x.n + 1 /\ d.next = p + y.n + 1
    <3> HIDE DEF x, y, p
    <3>1. x = Act(rules[k], login, live) /\ y = Act(armed[p], login, live)
      BY DEF x, y
    <3>2. x.do = "jump" => (k + x.n <= Len(rules) <=> p + y.n <= Len(armed))
      BY <1>1, <1>2
    <3>3. k \in Nat /\ p \in Nat /\ Len(rules) \in Nat /\ Len(armed) \in Nat
      BY <1>1, <1>2
    <3> QED
      BY <1>2, <1>4, <2>1, <3>1, <3>2, <3>3, VisitAlike
  <2> HIDE DEF c, d, x, y
  <2>3. x.n \in Nat
    BY <1>2 DEF Actions
  <2>4. d.ran = ArmedRan(f, s, c.ran)
    BY <2>2, RanMore DEF Abreast
  <2>5. c.ran \subseteq 1..k
    BY <1>1, <2>2 DEF Abreast
  <2>6. p + 1 = PlaceOf(f, s, k + 1)
    BY <1>1 DEF PlaceOf
  <2>7. /\ c.next \in {0} \cup (k + 1)..(n + 1) /\ (k < s => c.next <= s)
        /\ d.next = IF c.next = 0 THEN 0 ELSE PlaceOf(f, s, c.next)
    <3> HIDE DEF p
    <3>1. CASE c.next = 0 /\ d.next = 0
      BY <1>1, <3>1
    <3>2. CASE c.next = k + 1 /\ d.next = p + 1
      BY <1>1, <2>6, <3>2
    <3>3. CASE /\ x.do = "jump" /\ k + x.n <= Len(rules)
               /\ c.next = k + x.n + 1 /\ d.next = p + y.n + 1
      BY <1>1, <1>2, <2>3, <3>3
    <3> QED
      BY <2>2, <3>1, <3>2, <3>3
  <2> QED
    BY <2>2, <2>4, <2>5, <2>7 DEF Abreast, c, d
<1> QED
  BY <1>3, <1>4

\* At authfail both walks are over, the armed one already at pam_ds.
LEMMA AbreastFail ==
  ASSUME NEW rules, NEW armed, NEW n, NEW f, NEW s, Pair(rules, armed, n, f, s),
         NEW login, NEW live, NEW a, NEW b, Abreast(a, b, f - 1, n, f, s)
  PROVE  Abreast(Visit(rules, f, a, login, live),
                 Visit(armed, f + 2, Visit(armed, f + 1, b, login, live), login, live),
                 f, n, f, s)
<1> DEFINE c == Visit(rules, f, a, login, live)
           d == Visit(armed, f + 1, b, login, live)
           e == Visit(armed, f + 2, d, login, live)
<1>1. n \in Nat /\ f \in 1..n /\ s \in 1..n /\ f < s
  BY DEF Pair
<1>2. PlaceOf(f, s, f) = f + 1
  BY <1>1 DEF PlaceOf
<1>3. CASE a.next # f
  <2>1. b.next # f + 1 /\ b.next # f + 2
    <3>1. a.next \in Nat /\ b.next = IF a.next = 0 THEN 0 ELSE PlaceOf(f, s, a.next)
      BY <1>1 DEF Abreast
    <3>2. f \in Nat /\ s \in Nat
      BY <1>1
    <3>3. a.next # 0 => PlaceOf(f, s, a.next) \notin {f + 1, f + 2}
      BY <1>1, <1>2, <1>3, <3>1, <3>2, PlacesDiffer
    <3> QED
      BY <3>1, <3>2, <3>3
  <2>2. c = a /\ e = b
    BY <1>3, <2>1, NotVisited
  <2>3. Abreast(a, b, f, n, f, s)
    BY <1>1, <1>3, AbreastStays
  <2> QED
    BY <2>2, <2>3
<1>4. CASE a.next = f
  <2>1. b.next = f + 1
    BY <1>1, <1>2, <1>4 DEF Abreast
  <2>2. c.next = 0 /\ c.verdict = "denied" /\ c.ran = a.ran \cup {f}
    <3>1. Returned(rules[f], login, live) = "default"
      BY DEF Pair, Returned, Rejects, IsFail, Is
    <3>2. rules[f].ctl[Returned(rules[f], login, live)].do = "die"
      BY <3>1 DEF Pair
    <3> QED
      BY <1>4, <3>2 DEF Visit, Onward, Verdict
  <2>3. d.next = 0 /\ d.verdict = "denied" /\ d.ran = b.ran \cup {f + 1}
    <3>1. armed[f + 1] = DsFail
      BY DEF Pair
    <3>2. Returned(DsFail, login, live) \in Answers
      BY ReturnedIs
    <3>3. DsFail.ctl[Returned(DsFail, login, live)].do = "die"
      BY <3>2 DEF DsFail, Die, Rule, Control, Do, Answers
    <3> QED
      BY <2>1, <3>1, <3>3 DEF Visit, Onward, Verdict
  <2>4. e = d
    BY <1>1, <2>3, NotVisited
  <2> HIDE DEF c, d, e
  <2>5. d.ran = ArmedRan(f, s, c.ran)
    BY <1>1, <1>2, <2>2, <2>3, RanMore DEF Abreast
  <2>6. c.ran \subseteq 1..f
    BY <1>1, <2>2 DEF Abreast
  <2> QED
    BY <1>1, <2>2, <2>3, <2>4, <2>5, <2>6 DEF Abreast, c, d, e
<1> QED
  BY <1>3, <1>4

\* Behind authsucc the armed walk also passes pam_ds.
LEMMA AbreastSucc ==
  ASSUME NEW rules, NEW armed, NEW n, NEW f, NEW s, Pair(rules, armed, n, f, s),
         NEW login, NEW live, NEW a, NEW b, Abreast(a, b, s - 1, n, f, s)
  PROVE  Abreast(Visit(rules, s, a, login, live),
                 Visit(armed, s + 3, Visit(armed, s + 2, b, login, live), login, live),
                 s, n, f, s)
<1> DEFINE c == Visit(rules, s, a, login, live)
           d == Visit(armed, s + 2, b, login, live)
           e == Visit(armed, s + 3, d, login, live)
<1>1. /\ n \in Nat /\ f \in 1..n /\ s \in 1..n /\ f < s
      /\ Len(rules) = n /\ Len(armed) = n + 3
  BY DEF Pair
<1>2. PlaceOf(f, s, s) = s + 2 /\ PlaceOf(f, s, s + 1) = s + 4
  BY <1>1 DEF PlaceOf
<1>3. CASE a.next # s
  <2>1. b.next # s + 2 /\ b.next # s + 3
    <3>1. a.next \in Nat /\ b.next = IF a.next = 0 THEN 0 ELSE PlaceOf(f, s, a.next)
      BY <1>1 DEF Abreast
    <3>2. f \in Nat /\ s \in Nat
      BY <1>1
    <3>3. PlaceOf(f, s, a.next) # PlaceOf(f, s, s) /\ PlaceOf(f, s, a.next) # s + 3
      BY <1>1, <1>3, <3>1, <3>2, PlacesDiffer
    <3> QED
      BY <1>2, <3>1, <3>2, <3>3
  <2>2. c = a /\ e = b
    BY <1>3, <2>1, NotVisited
  <2>3. Abreast(a, b, s, n, f, s)
    BY <1>1, <1>3, AbreastStays
  <2> QED
    BY <2>2, <2>3
<1>4. CASE a.next = s
  <2>1. b.next = s + 2 /\ a.verdict = b.verdict
    BY <1>1, <1>2, <1>4 DEF Abreast
  <2> DEFINE x == Act(rules[s], login, live)
             y == Act(armed[s + 2], login, live)
  <2>2. x \in Actions /\ y \in Actions /\ x.do = y.do
    <3>1. s \in 1..n /\ s # f
      BY <1>1
    <3>2. y = Act(armed[PlaceOf(f, s, s)], login, live)
      BY <1>2
    <3> HIDE DEF y
    <3> QED
      BY <3>1, <3>2, ActAlike
  <2>3. x.do \in {"ok", "bad", "ignore"}
    <3>1. Returned(rules[s], login, live) = "success"
      BY DEF Pair, Returned, Rejects, IsFail, IsSucc, Is
    <3> QED
      BY <3>1 DEF Act, Pair
  <2>4. /\ c.next = s + 1 /\ d.next = s + 3 /\ c.verdict = d.verdict
        /\ c.ran = a.ran \cup {s} /\ d.ran = b.ran \cup {s + 2}
    <3> DEFINE v == a.verdict
    <3>1. /\ c.next = Onward(rules, s, x, v) /\ c.verdict = Verdict(rules, s, x, v)
          /\ c.ran = a.ran \cup {s}
      BY <1>4 DEF Visit, Act
    <3>2. /\ d.next = Onward(armed, s + 2, y, v) /\ d.verdict = Verdict(armed, s + 2, y, v)
          /\ d.ran = b.ran \cup {s + 2}
      BY <2>1 DEF Visit, Act
    <3> HIDE DEF c, d, x, y, v
    <3>3. Onward(rules, s, x, v) = s + 1 /\ Onward(armed, s + 2, y, v) = s + 2 + 1
      BY <2>2, <2>3 DEF Onward, TooFar
    <3>4. Verdict(rules, s, x, v) = Verdict(armed, s + 2, y, v)
      BY <2>2, <2>3 DEF Verdict, TooFar
    <3>5. s + 2 + 1 = s + 3
      BY <1>1
    <3> QED
      BY <3>1, <3>2, <3>3, <3>4, <3>5
  <2>5. e.next = s + 4 /\ e.verdict = d.verdict /\ e.ran = d.ran \cup {s + 3}
    <3>1. armed[s + 3] = DsSucc
      BY DEF Pair
    <3>2. Returned(DsSucc, login, live) = "ignore"
      BY DEF DsSucc, Rule, Returned, Fires
    <3>3. DsSucc.ctl[Returned(DsSucc, login, live)].do = "ignore"
      BY <3>2 DEF DsSucc, Optional, Rule, Control, Do
    <3>4. e.next = s + 3 + 1 /\ e.verdict = d.verdict /\ e.ran = d.ran \cup {s + 3}
      BY <2>4, <3>1, <3>3 DEF Visit, Onward, Verdict, TooFar
    <3> QED
      BY <1>1, <3>4
  <2> HIDE DEF c, d, e
  <2>6. e.ran = ArmedRan(f, s, c.ran)
    BY <1>2, <2>4, <2>5, RanSucc DEF Abreast
  <2>7. c.ran \subseteq 1..s
    BY <1>1, <2>4 DEF Abreast
  <2> QED
    <3>1. e.verdict = c.verdict
      BY <2>4, <2>5
    <3>2. /\ c.next \in {0} \cup (s + 1)..(n + 1) /\ (s < s => c.next <= s)
          /\ e.next = IF c.next = 0 THEN 0 ELSE PlaceOf(f, s, c.next)
      BY <1>1, <1>2, <2>4, <2>5
    <3> QED
      BY <2>6, <2>7, <3>1, <3>2 DEF Abreast, c, e, d
<1> QED
  BY <1>3, <1>4

\* The logins that the duress check stops.
Duress(login, live) == live /\ login = "duress"

\* A walk with the duress check in front, past that rule.
LEMMA FirstRule ==
  ASSUME NEW rules, NEW armed, NEW n, NEW f, NEW s, Pair(rules, armed, n, f, s),
         NEW login, NEW live, NEW w, w = Walks(armed, login, live)
  PROVE  /\ w[1].ran = {1}
         /\ Duress(login, live) => w[1].next = 0 /\ w[1].verdict = "denied"
         /\ ~Duress(login, live) => w[1].next = 2 /\ w[1].verdict = "undecided"
<1> DEFINE r == Returned(DsPre, login, live)
<1>1. n \in Nat /\ Len(armed) = n + 3 /\ armed[1] = DsPre
  BY DEF Pair
<1>2. w[0] = Start /\ w[1] = Visit(armed, 1, w[0], login, live)
  <2>1. Len(armed) \in Nat /\ 1 \in 1..Len(armed) /\ 1 - 1 = 0
    BY <1>1
  <2>2. w[1] = Visit(armed, 1, w[1 - 1], login, live)
    BY <2>1, WalksUnfold
  <2> QED
    BY <2>1, <2>2, WalksUnfold
<1>3. CASE Duress(login, live)
  <2>1. r = "default"
    BY <1>3 DEF Duress, Returned, Fires, DsPre, Rule
  <2>2. DsPre.ctl[r].do = "die"
    BY <2>1 DEF DsPre, Rule, Control, Do
  <2> QED
    BY <1>1, <1>2, <1>3, <2>2 DEF Start, Visit, Onward, Verdict
<1>4. CASE ~Duress(login, live)
  <2>1. r = "ignore"
    BY <1>4 DEF Duress, Returned, Fires, DsPre, Rule
  <2>2. DsPre.ctl[r].do = "ignore"
    BY <2>1 DEF DsPre, Rule, Control, Do
  <2> QED
    BY <1>1, <1>2, <1>4, <2>2 DEF Start, Visit, Onward, Verdict, TooFar
<1> QED
  BY <1>3, <1>4

\* The duress code ends the walk at the first rule.
LEMMA DuressEnds ==
  ASSUME NEW rules, NEW armed, NEW n, NEW f, NEW s, Pair(rules, armed, n, f, s),
         NEW login, NEW live, Duress(login, live)
  PROVE  LET b == Walk(armed, login, live) IN b.ran = {1} /\ b.verdict = "denied"
<1> DEFINE w == Walks(armed, login, live)
           T == {k \in 1..(n + 3) : w[k] # w[1]}
<1>1. n \in Nat /\ Len(armed) = n + 3
  BY DEF Pair
<1>2. w[1].ran = {1} /\ w[1].next = 0 /\ w[1].verdict = "denied"
  BY FirstRule
<1>3. w = Walks(armed, login, live)
  OBVIOUS
<1> HIDE DEF w
<1>4. ASSUME NEW j \in 1..(n + 2), w[j] = w[1] PROVE w[j + 1] = w[1]
  <2>1. n + 3 \in Nat /\ j + 1 \in 1..(n + 3) /\ j \in Nat
    BY <1>1
  <2> QED
    BY <1>1, <1>2, <1>3, <1>4, <2>1, WalkEnded
<1>5. T = {}
  <2> SUFFICES ASSUME T # {} PROVE FALSE
    OBVIOUS
  <2>1. PICK k \in T : \A j \in T : k <= j
    <3>1. T \in SUBSET Nat
      BY <1>1
    <3> HIDE DEF T
    <3> QED
      BY <3>1, LeastIndex
  <2>2. k \in 2..(n + 3) /\ w[k] # w[1] /\ w[k - 1] = w[1]
    <3>1. k \in 1..(n + 3) /\ w[k] # w[1] /\ k # 1
      BY <2>1
    <3>2. k - 1 \in 1..(n + 3) /\ ~(k <= k - 1)
      BY <1>1, <3>1
    <3>3. k - 1 \notin T
      BY <2>1, <3>2
    <3> QED
      BY <1>1, <3>1, <3>2, <3>3
  <2>3. k - 1 \in 1..(n + 2) /\ (k - 1) + 1 = k
    BY <1>1, <2>2
  <2> QED
    BY <1>4, <2>2, <2>3
<1>6. w[n + 3] = w[1]
  BY <1>1, <1>5
<1> QED
  BY <1>1, <1>2, <1>6 DEF Walk, w

\* Without it the two walks stay abreast.
LEMMA WalksAbreast ==
  ASSUME NEW rules, NEW armed, NEW n, NEW f, NEW s, Pair(rules, armed, n, f, s),
         NEW login, NEW live, ~Duress(login, live)
  PROVE  Abreast(Walk(rules, login, live), Walk(armed, login, live), n, n, f, s)
<1> DEFINE v == Walks(rules, login, live)
           w == Walks(armed, login, live)
           At(k) == Abreast(v[k], w[Passed(f, s, k)], k, n, f, s)
           T == {k \in 0..n : ~At(k)}
<1>1. n \in Nat /\ f \in 1..n /\ s \in 1..n /\ f < s /\ Len(rules) = n /\ Len(armed) = n + 3
  BY DEF Pair
<1>2. v[0] = Start /\ \A k \in 1..n : v[k] = Visit(rules, k, v[k - 1], login, live)
  BY <1>1, WalksUnfold
<1>3. w = Walks(armed, login, live) /\ n + 3 \in Nat
  BY <1>1
<1>4. At(0)
  <2>1. w[1].ran = {1} /\ w[1].next = 2 /\ w[1].verdict = "undecided"
    BY FirstRule
  <2> HIDE DEF v, w
  <2>2. Passed(f, s, 0) = 1 /\ PlaceOf(f, s, 1) = 2 /\ ArmedRan(f, s, {}) = {1}
    BY <1>1 DEF Passed, PlaceOf, ArmedRan
  <2>3. v[0].next = 1 /\ v[0].verdict = "undecided" /\ v[0].ran = {}
    BY <1>2 DEF Start
  <2>4. 1 \in {0} \cup (0 + 1)..(n + 1) /\ 1 <= s /\ {} \subseteq 1..0
    BY <1>1
  <2> QED
    BY <2>1, <2>2, <2>3, <2>4 DEF Abreast
<1> HIDE DEF v, w
<1>5. ASSUME NEW k \in 1..n, At(k - 1) PROVE At(k)
  <2>1. v[k] = Visit(rules, k, v[k - 1], login, live)
    BY <1>2
  <2>2. CASE k # f /\ k # s
    <3>1. /\ Passed(f, s, k) = PlaceOf(f, s, k) /\ Passed(f, s, k) \in 1..(n + 3)
          /\ Passed(f, s, k) = Passed(f, s, k - 1) + 1 /\ Passed(f, s, k - 1) \in Nat
      BY <1>1, <2>2 DEF Passed, PlaceOf
    <3>2. w[Passed(f, s, k)] = Visit(armed, PlaceOf(f, s, k), w[Passed(f, s, k - 1)], login, live)
      BY <1>1, <1>3, <3>1, WalkStep
    <3> QED
      BY <1>5, <2>1, <2>2, <3>2, AbreastPlain
  <2>3. CASE k = f
    <3>1. /\ Passed(f, s, f) = f + 2 /\ Passed(f, s, f - 1) = f
          /\ f + 1 \in 1..(n + 3) /\ f + 2 \in 1..(n + 3) 
          /\ f \in Nat /\ f + 1 \in Nat /\ f + 2 = (f + 1) + 1
      BY <1>1 DEF Passed
    <3>2. w[f + 2] = Visit(armed, f + 2, w[f + 1], login, live)
      BY <1>1, <1>3, <3>1, WalkStep
    <3>3. w[f + 1] = Visit(armed, f + 1, w[f], login, live)
      BY <1>1, <1>3, <3>1, WalkStep
    <3>4. Abreast(v[f - 1], w[f], f - 1, n, f, s)
      BY <1>5, <2>3, <3>1
    <3> QED
      BY <2>1, <2>3, <3>1, <3>2, <3>3, <3>4, AbreastFail
  <2>4. CASE k = s
    <3>1. /\ Passed(f, s, s) = s + 3 /\ Passed(f, s, s - 1) = s + 1
          /\ s + 2 \in 1..(n + 3) /\ s + 3 \in 1..(n + 3) 
          /\ s + 1 \in Nat /\ s + 2 \in Nat /\ s + 3 = (s + 2) + 1 /\ s + 2 = (s + 1) + 1
      BY <1>1 DEF Passed
    <3>2. w[s + 3] = Visit(armed, s + 3, w[s + 2], login, live)
      BY <1>1, <1>3, <3>1, WalkStep
    <3>3. w[s + 2] = Visit(armed, s + 2, w[s + 1], login, live)
      BY <1>1, <1>3, <3>1, WalkStep
    <3>4. Abreast(v[s - 1], w[s + 1], s - 1, n, f, s)
      BY <1>5, <2>4, <3>1
    <3> QED
      BY <2>1, <2>4, <3>1, <3>2, <3>3, <3>4, AbreastSucc
  <2> QED
    BY <2>2, <2>3, <2>4
<1> HIDE DEF At
<1>6. T = {}
  <2> SUFFICES ASSUME T # {} PROVE FALSE
    OBVIOUS
  <2>1. PICK k \in T : \A j \in T : k <= j
    <3>1. T \in SUBSET Nat
      BY <1>1
    <3> HIDE DEF T
    <3> QED
      BY <3>1, LeastIndex
  <2>2. k \in 1..n /\ ~At(k)
    BY <1>1, <1>4, <2>1
  <2>3. k - 1 \in 0..n /\ ~(k <= k - 1)
    BY <1>1, <2>2
  <2>4. At(k - 1)
    BY <2>1, <2>3
  <2> QED
    BY <1>5, <2>2, <2>4
<1>7. At(n)
  BY <1>1, <1>6
<1>8. Passed(f, s, n) = n + 3
  BY <1>1 DEF Passed
<1> QED
  BY <1>1, <1>7, <1>8 DEF Walk, v, w, At

\* The modules at the places of the armed rules.
LEMMA Modules ==
  ASSUME NEW rules, NEW armed, NEW n, NEW f, NEW s, Pair(rules, armed, n, f, s)
  PROVE  /\ Is(armed[1], "ds", "preauth")
         /\ PlaceOf(f, s, f) = f + 1 /\ Is(armed[f + 1], "ds", "authfail")
         /\ Is(armed[s + 3], "ds", "authsucc")
         /\ \A i \in 1..n : i # f =>
              /\ Is(armed[PlaceOf(f, s, i)], rules[i].mod, rules[i].arg)
              /\ rules[i].mod # "ds"
<1>1. n \in Nat /\ f \in 1..n /\ s \in 1..n /\ f < s
  BY DEF Pair
<1>2. /\ Is(armed[1], "ds", "preauth") /\ Is(armed[f + 1], "ds", "authfail")
      /\ Is(armed[s + 3], "ds", "authsucc")
  BY DEF Pair, Is, DsPre, DsFail, DsSucc, Rule
<1>3. PlaceOf(f, s, f) = f + 1
  BY <1>1 DEF PlaceOf
<1>4. ASSUME NEW i \in 1..n, i # f
      PROVE  Is(armed[PlaceOf(f, s, i)], rules[i].mod, rules[i].arg) /\ rules[i].mod # "ds"
  <2>1. Likeness(rules[i], armed[PlaceOf(f, s, i)], i, f)
    BY <1>4, LikeAt
  <2> QED
    BY <2>1 DEF Likeness, Is, Pair
<1> QED
  BY <1>2, <1>3, <1>4

\* Two walks that end abreast have taken the same route.
LEMMA SameRoute ==
  ASSUME NEW rules, NEW armed, NEW n, NEW f, NEW s, Pair(rules, armed, n, f, s),
         NEW was, NEW is, Abreast(was, is, n, n, f, s)
  PROVE  /\ Granted(is) <=> Granted(was)
         /\ {i \in is.ran : armed[i].mod # "ds"} = {PlaceOf(f, s, i) : i \in was.ran \ {f}}
         /\ \A i \in was.ran \ {f} : Is(armed[PlaceOf(f, s, i)], rules[i].mod, rules[i].arg)
         /\ Ran(armed, is, "ds", "authfail") <=> Ran(rules, was, "faillock", "authfail")
         /\ Ran(armed, is, "ds", "authsucc") <=> Ran(rules, was, "faillock", "authsucc")
<1>1. /\ is.verdict = was.verdict /\ was.ran \subseteq 1..n
      /\ is.ran = {1} \cup {PlaceOf(f, s, j) : j \in was.ran}
                     \cup (IF s \in was.ran THEN {s + 3} ELSE {})
  BY DEF Abreast, ArmedRan
<1>2. /\ \A i \in 1..n : (IsFail(rules[i]) <=> i = f) /\ (IsSucc(rules[i]) <=> i = s)
      /\ f \in 1..n /\ s \in 1..n /\ f # s
  BY DEF Pair
<1>3. /\ Is(armed[1], "ds", "preauth")
      /\ PlaceOf(f, s, f) = f + 1 /\ Is(armed[f + 1], "ds", "authfail")
      /\ Is(armed[s + 3], "ds", "authsucc")
      /\ \A i \in 1..n : i # f =>
           /\ Is(armed[PlaceOf(f, s, i)], rules[i].mod, rules[i].arg)
           /\ rules[i].mod # "ds"
  BY Modules
<1>4. \A i \in was.ran \ {f} : Is(armed[PlaceOf(f, s, i)], rules[i].mod, rules[i].arg)
  BY <1>1, <1>3
<1>5. {i \in is.ran : armed[i].mod # "ds"} = {PlaceOf(f, s, i) : i \in was.ran \ {f}}
  <2>1. ASSUME NEW i \in is.ran, armed[i].mod # "ds"
        PROVE  \E j \in was.ran \ {f} : i = PlaceOf(f, s, j)
    BY <1>1, <1>3, <2>1 DEF Is
  <2>2. ASSUME NEW j \in was.ran \ {f}
        PROVE  PlaceOf(f, s, j) \in is.ran /\ armed[PlaceOf(f, s, j)].mod # "ds"
    BY <1>1, <1>3 DEF Is
  <2> QED
    BY <2>1, <2>2
<1>6. Ran(armed, is, "ds", "authfail") <=> f \in was.ran
  BY <1>1, <1>3 DEF Ran, Is
<1>7. Ran(rules, was, "faillock", "authfail") <=> f \in was.ran
  BY <1>1, <1>2 DEF Ran, IsFail
<1>8. Ran(armed, is, "ds", "authsucc") <=> s \in was.ran
  BY <1>1, <1>3 DEF Ran, Is
<1>9. Ran(rules, was, "faillock", "authsucc") <=> s \in was.ran
  BY <1>1, <1>2 DEF Ran, IsSucc
<1> QED
  BY <1>1, <1>4, <1>5, <1>6, <1>7, <1>8, <1>9 DEF Granted

\* "so successful authentication still lands at the same original module": the
\* armed rules of every supported plain layout, of any length, grant and deny
\* what the stock rules do and run the same modules, pam_ds sees each failure
\* and success, and a live duress check lets no stock rule run.
THEOREM RoutesAreKept ==
  ASSUME NEW rules \in Seq(Rules), Supported(rules), PlainLayout(rules)
  PROVE  RoutesKept(rules)
<1> DEFINE f     == FailAt(rules)
           s     == SuccAt(rules)
           n     == Len(rules)
           armed == ArmedStack(rules)
<1>1. Pair(rules, armed, n, f, s)
  BY PlainPair
<1>2. \A i : Place(rules, i) = PlaceOf(f, s, i)
  BY DEF Place, PlaceOf
<1> HIDE DEF f, s, n, armed
<1>3. ASSUME NEW login, NEW live, NEW was, NEW is, ~Duress(login, live),
             was = Walk(rules, login, live), is = Walk(armed, login, live)
      PROVE  /\ Granted(is) <=> Granted(was)
             /\ {i \in is.ran : armed[i].mod # "ds"} = {Place(rules, i) : i \in was.ran \ {f}}
             /\ \A i \in was.ran \ {f} :
                  Is(armed[Place(rules, i)], rules[i].mod, rules[i].arg)
             /\ Ran(armed, is, "ds", "authfail") <=> Ran(rules, was, "faillock", "authfail")
             /\ Ran(armed, is, "ds", "authsucc") <=> Ran(rules, was, "faillock", "authsucc")
  <2>1. Abreast(was, is, n, n, f, s)
    BY <1>1, <1>3, WalksAbreast
  <2> QED
    BY <1>1, <1>2, <2>1, SameRoute
<1>4. ASSUME NEW login, NEW live, NEW is, Duress(login, live), is = Walk(armed, login, live)
      PROVE  ~Granted(is) /\ is.ran = {1}
  BY <1>1, <1>4, DuressEnds DEF Granted
<1> QED
  BY <1>3, <1>4 DEF RoutesKept, Duress, f, armed
=============================================================================
