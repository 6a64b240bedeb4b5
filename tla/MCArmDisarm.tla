---------------------------- MODULE MCArmDisarm ----------------------------
(***************************************************************************)
(* Instances of ArmDisarm for TLC.                                         *)
(***************************************************************************)
EXTENDS ArmDisarm

Jumps(n, d) == Control(Jump(n), Do(d), Do(d))

Preauth  == Rule("faillock", "preauth", Required)
Home     == Rule("home", "", Jumps(2, "ignore"))
Authfail == Rule("faillock", "authfail", Die)
Env      == Rule("env", "", Required)
Authsucc == Rule("faillock", "authsucc", Required)

Unix(n) == Rule("unix", "", Jumps(n, "bad"))

\* Arch's system-auth; one whose jump goes straight to authsucc; the example of
\* pam_faillock(8); one with a jump across authsucc; two that are refused.
Arch     == <<Preauth, Home, Unix(1), Authfail, Rule("permit", "", Optional), Env, Authsucc>>
Direct   == <<Preauth, Unix(2), Authfail, Env, Authsucc>>
Example  == <<Env, Unix(1), Authfail, Rule("faillock", "authsucc", Sufficient),
              Rule("deny", "", Required)>>
Across   == <<Preauth, Unix(4), Authfail, Env, Authsucc, Rule("deny", "", Required), Env>>
NoLock   == <<Rule("unix", "", Required)>>
FailFirst == <<Authfail, Unix(1), Env, Authsucc>>

Encrypt   == <<"base", " ", "encrypt", " ", "filesystems">>
SdEncrypt == <<"systemd", " ", "sd-", "encrypt", " ", "filesystems">>
Plainroot == <<"base", " ", "filesystems">>

MCSites ==
  {[pam |-> Arch, conf |-> Encrypt], [pam |-> Direct, conf |-> SdEncrypt],
   [pam |-> Example, conf |-> Plainroot], [pam |-> Across, conf |-> Plainroot],
   [pam |-> NoLock, conf |-> Encrypt], [pam |-> FailFirst, conf |-> Encrypt]}
=============================================================================
