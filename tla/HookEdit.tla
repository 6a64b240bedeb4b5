------------------------------ MODULE HookEdit ------------------------------
(***************************************************************************)
(* dsctl's edits of the HOOKS line of mkinitcpio.conf.                     *)
(*                                                                         *)
(* The line is searched as text, not as a list of hooks.  It is modelled   *)
(* as the sequence of the fragments the searches can tell apart: a hook is *)
(* one fragment, except that sd-encrypt, in which `encrypt` is found, is   *)
(* the two fragments "sd-" and "encrypt"; " " separates hooks.             *)
(***************************************************************************)
EXTENDS Naturals, Sequences

Found(line, x) == \E i \in DOMAIN line : line[i] = x

\* str::find: the first occurrence.
Find(line, x) ==
  CHOOSE i \in DOMAIN line : line[i] = x /\ \A j \in 1..(i - 1) : line[j] # x

\* ensure_deathstroke_hook_before_encrypt: bails without an encrypt hook, or
\* with deathstroke behind it.
CanInsert(line) ==
  /\ Found(line, "encrypt")
  /\ Found(line, "deathstroke") => Find(line, "deathstroke") <= Find(line, "encrypt")

\* insert_str(e, "deathstroke "), unless the token is there.
Inserted(line) ==
  IF Found(line, "deathstroke") THEN line
  ELSE LET e == Find(line, "encrypt")
       IN  SubSeq(line, 1, e - 1) \o <<"deathstroke", " ">> \o SubSeq(line, e, Len(line))

\* The token is a word of the line.
TokenStandsAlone(line) ==
  Found(line, "deathstroke") =>
    LET i == Find(line, "deathstroke")
    IN  /\ i > 1 => line[i - 1] = " "
        /\ i < Len(line) => line[i + 1] = " "

\* The line without the token and the space behind it.  dsctl puts in one
\* token, so the loop over the line runs once.
Without(line) ==
  IF ~Found(line, "deathstroke") THEN line
  ELSE LET i == Find(line, "deathstroke")
       IN  SubSeq(line, 1, i - 1) \o SubSeq(line, i + 2, Len(line))

\* without_deathstroke_hook: bails where the token is part of a longer word.
Removed(line) ==
  IF TokenStandsAlone(line) THEN [res |-> "ok", line |-> Without(line)]
  ELSE [res |-> "bail", line |-> line]
=============================================================================
