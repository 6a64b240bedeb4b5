------------------------------ MODULE PamStack ------------------------------
(***************************************************************************)
(* dsctl's edit of the auth rules of system-auth, and the evaluation that  *)
(* libpam gives the rules before and after it.                             *)
(*                                                                         *)
(* A rule is a module with its argument and what its control does with     *)
(* the three kinds of return value: [do, n], n being the rules a jump      *)
(* leaves out.                                                             *)
(***************************************************************************)
EXTENDS Naturals, SequencesExt

Actions  == [do : {"ok", "bad", "ignore", "done", "die", "jump"}, n : Nat]
Controls == [success : Actions, ignore : Actions, default : Actions]
Rules    == [mod : STRING, arg : STRING, ctl : Controls]

Do(a)   == [do |-> a, n |-> 0]
Jump(n) == [do |-> "jump", n |-> n]

\* A control by its three actions, and the keywords that abbreviate them.
Control(s, i, d) == [success |-> s, ignore |-> i, default |-> d]
Required   == Control(Do("ok"), Do("ignore"), Do("bad"))
Optional   == Control(Do("ok"), Do("ignore"), Do("ignore"))
Sufficient == Control(Do("done"), Do("ignore"), Do("ignore"))
Die        == Control(Do("die"), Do("die"), Do("die"))      \* [default=die]

Rule(m, arg, c) == [mod |-> m, arg |-> arg, ctl |-> c]

-----------------------------------------------------------------------------
(***************************************************************************)
(* arm_pam_stack                                                           *)
(***************************************************************************)

Is(r, m, arg) == r.mod = m /\ r.arg = arg
IsUnix(r) == r.mod = "unix"
IsFail(r) == Is(r, "faillock", "authfail")
IsSucc(r) == Is(r, "faillock", "authsucc")

FirstOf(rules, P(_)) ==
  CHOOSE i \in DOMAIN rules : P(rules[i]) /\ \A j \in 1..(i - 1) : ~P(rules[j])

Some(rules, P(_)) == \E i \in DOMAIN rules : P(rules[i])

UnixAt(rules) == FirstOf(rules, IsUnix)
FailAt(rules) == FirstOf(rules, IsFail)
SuccAt(rules) == FirstOf(rules, IsSucc)

\* The layouts that are not "unsupported PAM stack" or "unsupported PAM order".
Supported(rules) ==
  /\ Some(rules, IsUnix) /\ Some(rules, IsFail) /\ Some(rules, IsSucc)
  /\ FailAt(rules) > UnixAt(rules)

\* success_jump, where there is one, and its replacement.
JumpsOver(r) == r.ctl.success.do = "jump"

ReplaceSuccessJump(r, n) == Rule(r.mod, r.arg, Control(Jump(n), r.ctl.ignore, r.ctl.default))

\* Slip: a jump to the rule behind authfail is not raised.
RaisedShort(rules, f) ==
  [i \in DOMAIN rules |->
    LET n == rules[i].ctl.success.n
    IN  IF i < f /\ JumpsOver(rules[i]) /\ i + n > f
        THEN ReplaceSuccessJump(rules[i], n + 1) ELSE rules[i]]

\* "Increase every crossing jump".
Raised(rules, f) ==
  [i \in DOMAIN rules |->
    LET n == rules[i].ctl.success.n
    IN  IF i < f /\ JumpsOver(rules[i]) /\ i + n >= f
        THEN ReplaceSuccessJump(rules[i], n + 1) ELSE rules[i]]

DsPre  == Rule("ds", "preauth", Control(Do("ignore"), Do("ignore"), Do("die")))
DsFail == Rule("ds", "authfail", Die)
DsSucc == Rule("ds", "authsucc", Optional)

\* authfail before faillock's, authsucc behind faillock's, the duress check
\* in front, inserted in this order.
ArmedStack(rules) ==
  LET f == FailAt(rules)
      s == SuccAt(rules)
      succ == IF s >= f THEN s + 1 ELSE s
  IN  InsertAt(InsertAt(InsertAt(Raised(rules, f), f, DsFail),
                        succ + 1, DsSucc), 1, DsPre)

-----------------------------------------------------------------------------
(***************************************************************************)
(* libpam: a walk through the rules                                        *)
(***************************************************************************)

\* What is typed; `locked` is the right password of an account that faillock
\* has locked, `home` one that pam_systemd_home accepts.
Logins == {"right", "home", "wrong", "duress", "locked"}

\* The stock modules that fail, and pam_ds, which without the armed marker
\* ignores all calls.
Rejects(r, login) ==
  \/ r.mod = "unix" /\ login \notin {"right", "locked"}
  \/ r.mod = "home" /\ login # "home"
  \/ r.mod = "deny"
  \/ IsFail(r)
  \/ Is(r, "faillock", "preauth") /\ login = "locked"

Fires(r, login, live) ==
  live /\ (r.arg = "authfail" \/ (r.arg = "preauth" /\ login = "duress"))

\* What a module returns.
Returned(r, login, live) ==
  IF r.mod = "ds" THEN IF Fires(r, login, live) THEN "default" ELSE "ignore"
  ELSE IF Rejects(r, login) THEN "default" ELSE "success"

\* A jump over more rules than there are.
TooFar(rules, i, a) == a.do = "jump" /\ i + a.n > Len(rules)

\* The rule that action a goes on with, 0 when the walk is over, and the
\* verdict it leaves: a failure, once noted, stays.
Onward(rules, i, a, v) ==
  IF a.do = "die" \/ (a.do = "done" /\ v # "denied") \/ TooFar(rules, i, a) THEN 0
  ELSE IF a.do = "jump" THEN i + a.n + 1 ELSE i + 1

Verdict(rules, i, a, v) ==
  IF a.do \in {"ok", "done"} /\ v # "denied" THEN "granted"
  ELSE IF a.do \in {"bad", "die"} \/ TooFar(rules, i, a) THEN "denied" ELSE v

\* The rule at i runs if it is the next one.
Visit(rules, i, walk, login, live) ==
  IF walk.next # i THEN walk
  ELSE LET a == rules[i].ctl[Returned(rules[i], login, live)]
       IN  [next    |-> Onward(rules, i, a, walk.verdict),
            verdict |-> Verdict(rules, i, a, walk.verdict),
            ran     |-> walk.ran \cup {i}]

\* The walk past each rule.  It only goes forward, so that the set of the rules
\* that ran says in which order they did.
Walks(rules, login, live) ==
  LET w[i \in 0..Len(rules)] ==
        IF i = 0 THEN [next |-> 1, verdict |-> "undecided", ran |-> {}]
        ELSE Visit(rules, i, w[i - 1], login, live)
  IN  w

Walk(rules, login, live) == Walks(rules, login, live)[Len(rules)]

Granted(walk) == walk.verdict = "granted"

Ran(rules, walk, m, arg) == \E i \in walk.ran : Is(rules[i], m, arg)

\* The layouts with one authfail rule, which ends the walk, and one authsucc
\* rule behind it, which does not, whose success jumps land on authsucc or
\* before it and whose other controls do not jump.
PlainLayout(rules) ==
  LET f == FailAt(rules)
      s == SuccAt(rules)
  IN  /\ f < s
      /\ rules[f].ctl.default.do = "die"
      /\ rules[s].ctl.success.do \in {"ok", "bad", "ignore"}
      /\ \A i \in 1..(s - 1) :
           JumpsOver(rules[i]) => i + rules[i].ctl.success.n < s
      /\ \A i \in DOMAIN rules :
           /\ "jump" \notin {rules[i].ctl.ignore.do, rules[i].ctl.default.do}
           /\ IsFail(rules[i]) => i = f
           /\ IsSucc(rules[i]) => i = s
           /\ rules[i].mod # "ds"

\* Where the armed rules have stock rule i, or, for faillock's authfail, the
\* rule that stands in for it.
Place(rules, i) ==
  IF i <= FailAt(rules) THEN i + 1
  ELSE IF i <= SuccAt(rules) THEN i + 2 ELSE i + 3

\* The armed rules grant and deny what the stock rules do and run the same
\* modules, except that pam_ds ends the failure path where faillock's authfail
\* stood; pam_ds sees each failure and each success that faillock would; and
\* a live duress check stops the walk before any stock rule has run.
RoutesKept(rules) ==
  LET f     == FailAt(rules)
      armed == ArmedStack(rules)
  IN  \A login \in Logins, live \in BOOLEAN :
        LET was == Walk(rules, login, live)
            is  == Walk(armed, login, live)
        IN  IF live /\ login = "duress" THEN ~Granted(is) /\ is.ran = {1}
            ELSE /\ Granted(is) <=> Granted(was)
                 /\ {i \in is.ran : armed[i].mod # "ds"}
                      = {Place(rules, i) : i \in was.ran \ {f}}
                 /\ \A i \in was.ran \ {f} :
                      Is(armed[Place(rules, i)], rules[i].mod, rules[i].arg)
                 /\ Ran(armed, is, "ds", "authfail") <=> Ran(rules, was, "faillock", "authfail")
                 /\ Ran(armed, is, "ds", "authsucc") <=> Ran(rules, was, "faillock", "authsucc")
=============================================================================
