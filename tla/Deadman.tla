------------------------------ MODULE Deadman ------------------------------
(***************************************************************************)
(* dsctl deadman, checkin and deadman-check, beside the enrollment whose   *)
(* records say what an expired window destroys.                            *)
(*                                                                         *)
(* The state file holds the window and the last check-in.  A check-in      *)
(* reads the file and then writes it; the check of the timer reads it and  *)
(* then fires ds-erase; nothing locks the file, and neither looks at the   *)
(* armed marker.  Time is the wall clock, in seconds, and is added to in   *)
(* unsigned words that wrap: the release profile checks no overflow.       *)
(***************************************************************************)
EXTENDS Enrollment

CONSTANTS
  Hours,   \* windows that `dsctl deadman <hours>` is given
  Hour,    \* seconds in an hour: 3600
  Words,   \* values of a machine word: 2^64
  MaxNow   \* bound: the clock

ASSUME DeadmanAssumption ==
  /\ Hours \subseteq Nat /\ Hour \in Nat \ {0}
  /\ Words \in Nat \ {0} /\ MaxNow \in Nat /\ MaxNow < Words
  /\ None \notin Nat /\ None \notin [win : Nat, last : Nat]

VARIABLES
  now,     \* the clock
  dm,      \* the state file: [win, last], or None
  ci,      \* a check-in that has read the file, or None
  ck,      \* a check that has found the window expired, or None
  asked,   \* history: the window last asked for, or None for off
  seen,    \* history: when the window was set or last checked in
  revived  \* history: a check-in has put back what it read before a change

switch == <<now, dm, ci, ck, asked, seen, revived>>
dvars  == <<evars, switch>>

-----------------------------------------------------------------------------
\* What was read before the file changed is out of date.
Outdated(r) == IF r = None THEN None ELSE [r EXCEPT !.late = TRUE]

\* Slip: the product is kept in more than a word.
DeadmanSetWide(h) ==
  /\ h # 0
  /\ dm' = [win |-> h * Hour, last |-> now]
  /\ asked' = h * Hour /\ seen' = now /\ revived' = FALSE
  /\ ci' = Outdated(ci) /\ ck' = Outdated(ck)
  /\ UNCHANGED <<evars, now>>

\* deadman <hours>: the window, and a check-in now.
DeadmanSet(h) ==
  /\ h # 0
  /\ dm' = [win |-> (h * Hour) % Words, last |-> now]
  /\ asked' = h * Hour /\ seen' = now /\ revived' = FALSE
  /\ ci' = Outdated(ci) /\ ck' = Outdated(ck)
  /\ UNCHANGED <<evars, now>>

\* Slip: only the last check-in is cleared.
DeadmanOffKeeps ==
  /\ dm # None
  /\ dm' = [dm EXCEPT !.last = now]
  /\ asked' = None /\ seen' = now /\ revived' = FALSE
  /\ ci' = Outdated(ci) /\ ck' = Outdated(ck)
  /\ UNCHANGED <<evars, now>>

\* deadman off
DeadmanOff ==
  /\ dm' = None
  /\ asked' = None /\ revived' = FALSE
  /\ ci' = Outdated(ci) /\ ck' = Outdated(ck)
  /\ UNCHANGED <<evars, now, seen>>

\* checkin reads the window; a silent no-op when there is none.
CheckinRead ==
  /\ ci = None /\ dm # None
  /\ ci' = [win |-> dm.win, late |-> FALSE]
  /\ UNCHANGED <<evars, now, dm, ck, asked, seen, revived>>

\* ... and writes it back with the time of the write.
CheckinWrite ==
  /\ ci # None
  /\ dm' = [win |-> ci.win, last |-> now]
  /\ ci' = None /\ ck' = Outdated(ck)
  /\ seen' = now /\ revived' = (revived \/ ci.late)
  /\ UNCHANGED <<evars, now, asked>>

\* Slip: due at the deadline, not past it.
OverdueEarly == dm # None /\ now >= (dm.last + dm.win) % Words

Overdue == dm # None /\ now > (dm.last + dm.win) % Words

\* deadman-check, at boot and from the timer, up to its ds-erase; without a
\* recorded target it ends in an error.
TimerCheck ==
  /\ ck = None /\ Overdue /\ target # None
  /\ ck' = [dev |-> target, late |-> FALSE]
  /\ UNCHANGED <<evars, now, dm, ci, asked, seen, revived>>

\* ds-erase --fire --device: the device as the check found it, the slots as
\* they are recorded by now.
TimerFire ==
  /\ ck # None /\ ck' = None
  /\ \/ /\ Erase(ck.dev, RecordedPair, "booted")
        /\ (Stays /\ UNCHANGED ci) \/ (Down /\ ci' = None)
     \/ ~EraseAccepts(RecordedPair) /\ UNCHANGED <<evars, ci>>
  /\ UNCHANGED <<now, dm, asked, seen, revived>>

Tick ==
  /\ now < MaxNow /\ now' = now + 1
  /\ UNCHANGED <<evars, dm, ci, ck, asked, seen, revived>>

\* When the machine goes down the file stays; the commands are gone.
Halted ==
  /\ Halting /\ ci' = None /\ ck' = None
  /\ UNCHANGED <<now, dm, asked, seen, revived>>

-----------------------------------------------------------------------------
DInit ==
  /\ EInit
  /\ now = 0 /\ dm = None /\ ci = None /\ ck = None
  /\ asked = None /\ seen = 0 /\ revived = FALSE

DNext ==
  \/ Running /\ UNCHANGED switch
  \/ Halted
  \/ \E h \in Hours : DeadmanSet(h)
  \/ DeadmanOff \/ CheckinRead \/ CheckinWrite
  \/ TimerCheck \/ TimerFire \/ Tick

\* The timer unit, which an operator makes of the scaffold's dormant template,
\* runs the check again and again, and the check runs to its end.
DSpec ==
  /\ DInit /\ [][DNext]_dvars
  /\ WF_dvars(TimerCheck) /\ WF_dvars(TimerFire)

-----------------------------------------------------------------------------
(***************************************************************************)
(* Properties                                                              *)
(***************************************************************************)

\* The types, with ETypeOK.
DTypeOK ==
  /\ ETypeOK /\ now \in 0..MaxNow /\ seen \in 0..now
  /\ dm = None \/ dm \in [win : 0..(Words - 1), last : 0..now]
  /\ ci = None \/ ci \in [win : 0..(Words - 1), late : BOOLEAN]
  /\ ck = None \/ ck \in [dev : Devices, late : BOOLEAN]
  /\ asked = None \/ asked \in Nat
  /\ revived \in BOOLEAN

\* What `deadman <hours>`, `deadman off` and `checkin` last said is what the
\* file says, unless a check-in had read it before one of the others wrote.
SwitchAsAsked ==
  ~revived =>
    /\ dm = None <=> asked = None
    /\ dm # None => dm.win = asked % Words /\ dm.last = seen

\* The sum of the time and the window does not fit a word.
Wraps == asked # None /\ seen + asked >= Words

\* "if armed AND overdue, fire": a check about to fire was right, the window
\* asked for having passed since the last check-in, unless that sum wraps, the
\* file changed after the check read it, or an overtaken check-in wrote it.
FiresWhenDue ==
  ck # None /\ ~ck.late /\ ~revived /\ ~Wraps
    => asked # None /\ now > seen + asked

\* ds-erase would do its work on the recorded target.
CanFire ==
  target # None /\ EraseAccepts(RecordedPair) /\ Erasable(target, RecordedPair)

\* "a boot-time and periodic check compares now-vs-deadline and destroys the
\* recorded daily slot if overdue": once ds-erase could do its work, a missed
\* window ends with the daily slot, a check-in or the switch turned off.
MissedWindowDestroys ==
  Overdue /\ CanFire
    ~> ~Overdue \/ (target # None => daily \notin ActiveSlots(target))

\* "Every destructive path stays inert until you run dsctl arm; dsctl disarm
\* re-engages the guard": nothing but somebody's own luksKillSlot takes a slot
\* of a machine that is not armed.
InertUntilArmed ==
  [][~Armed /\ hands' = hands
       => \A d \in Devices : ActiveSlots(d) \subseteq ActiveSlots(d)']_dvars
=============================================================================
