----------------------------- MODULE MCAccounts -----------------------------
(***************************************************************************)
(* What the console administers, one part at a time: the roles and keys of *)
(* two organizations (Access), the sessions of a browser with two tabs and *)
(* an administrator (Sessions), and the bindings of skills (Skills).  The  *)
(* three share no state, so a run chooses one and the others stay as they  *)
(* began.                                                                  *)
(***************************************************************************)
EXTENDS Access, Sessions, Skills, TLC

CONSTANTS t1, t2, c1, c2

VARIABLE part

accountVars == <<accessVars, sessionVars, skillVars, part>>

AccountsInit ==
  /\ AccessInit /\ SessionsInit /\ SkillsInit
  /\ part \in {"access", "sessions", "skills"}

AccountsNext ==
  \/ part = "access" /\ AccessNext /\ UNCHANGED <<sessionVars, skillVars, part>>
  \/ part = "sessions" /\ SessionsNext /\ UNCHANGED <<accessVars, skillVars, part>>
  \/ part = "skills" /\ SkillsNext /\ UNCHANGED <<accessVars, sessionVars, part>>

AccountsSpec == AccountsInit /\ [][AccountsNext]_accountVars

MCTab == {t1, t2}
MCEditor == {c1, c2}
AccountsSymmetry == Permutations(MCTab) \cup Permutations(MCEditor)

MCSystemRole ==
  [Administrator |-> {"member:manage", "role:manage", "service_account:manage", "setting:manage"},
   Viewer |-> {"run:read"}]
MCCodeSets == {{}, {"member:manage"}}

\* Two packages: "parse" has two numbers, one of which only warns; "answer"
\* needs it, conflicts with it, or is blocked and of the old manifest schema;
\* uploads that hold a secret or repeat a content under another number.
Plain(sha, intent) ==
  [sha |-> sha, schema |-> TRUE, intents |-> {intent}, group |-> "none", needs |-> {},
   conflicts |-> {}, traits |-> {}, network |-> FALSE, shell |-> FALSE]

Upload(name, number, content) == [skill |-> <<name, number>>, content |-> content, secret |-> FALSE]

MCUploads ==
  {Upload("parse", 1, Plain("p1", "read")),
   Upload("parse", 2, Plain("p1", "read")),
   Upload("parse", 2, [Plain("p2", "read") EXCEPT !.traits = {"uses_shell"}]),
   Upload("answer", 1, [Plain("a1", "reply") EXCEPT
                          !.needs = {[name |-> "parse", number |-> 1, sha |-> "any"]},
                          !.shell = TRUE]),
   Upload("answer", 2, [Plain("a2", "reply") EXCEPT !.conflicts = {"parse"}]),
   Upload("answer", 3, [Plain("a3", "read") EXCEPT !.schema = FALSE,
                                              !.traits = {"high_risk_execution"}]),
   [Upload("answer", 4, Plain("a4", "reply")) EXCEPT !.secret = TRUE]}

MCCases ==
  {[required |-> {"parse"}, forbidden |-> {"answer"}, order |-> [n \in {} |-> 0]],
   [required |-> {"parse", "answer"}, forbidden |-> {},
    order |-> [n \in {"parse", "answer"} |-> IF n = "parse" THEN 1 ELSE 2]]}
=============================================================================
