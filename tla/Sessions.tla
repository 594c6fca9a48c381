------------------------------ MODULE Sessions ------------------------------
(***************************************************************************)
(* The refresh sessions of one user (security.py, api/auth_routes.py) and  *)
(* the browser that holds them: tabs share one cookie, each has at most    *)
(* one request under way (web/src/services/api.ts), an answer may be lost. *)
(*                                                                         *)
(* A handler reads without a lock and commits later, so requests overlap.  *)
(* A session is the index of its row; 0 is no session.                     *)
(***************************************************************************)
EXTENDS Naturals, Sequences

CONSTANTS
  Tab,
  MaxRows,     \* bound on the sessions created
  MaxActs      \* bound on the revocations and expiries from outside

VARIABLES
  rows,        \* auth_sessions
  cookie,      \* the session whose token the browser holds
  req,         \* the request of each tab
  reset,       \* the password change under way: the rows its UPDATE saw, or none
  lost,        \* whether an answer that sets the cookie was ever lost
  crossed,     \* whether two requests of the browser ever overlapped
  acts         \* revocations and expiries so far

sessionVars == <<rows, cookie, req, reset, lost, crossed, acts>>

\* cause: what revoked the row.  stray: the row, or one it descends from, was
\* committed across a revocation it could not see.  Both only record history.
Session(family, stray) ==
  [family |-> family, revoked |-> FALSE, next |-> 0, expired |-> FALSE,
   cause |-> "none", stray |-> stray]

Idle == [pc |-> "idle", kind |-> "none", token |-> 0, does |-> "none", fresh |-> FALSE,
         scope |-> {}, answer |-> 0]

Live(i) == ~ rows[i].revoked /\ rows[i].next = 0
Revoke(row, cause) ==
  [row EXCEPT !.revoked = TRUE, !.cause = IF row.revoked THEN @ ELSE cause]

\* An UPDATE over the rows of a set of families: it revokes what it saw.
RevokeAll(families, seen, cause) ==
  [i \in DOMAIN rows |->
     IF rows[i].family \notin families \/ rows[i].revoked THEN rows[i]
     ELSE IF i \in seen THEN Revoke(rows[i], cause)
     ELSE [rows[i] EXCEPT !.stray = TRUE]]

-----------------------------------------------------------------------------
(* The browser *)

Send(t, kind) ==
  /\ req[t] = Idle
  /\ kind = "login" \/ cookie # 0
  /\ req' = [req EXCEPT ![t] = [Idle EXCEPT !.pc = "sent", !.kind = kind,
                                            !.token = IF kind = "login" THEN 0 ELSE cookie]]
  /\ crossed' = (crossed \/ \E u \in Tab : req[u] # Idle)
  /\ UNCHANGED <<rows, cookie, reset, lost, acts>>

\* The answer sets the cookie, deletes it (logout) or, refused, leaves it.
Receive(t) ==
  /\ req[t].pc = "answered"
  /\ cookie' = IF req[t].kind = "logout" THEN 0
               ELSE IF req[t].answer = 0 THEN cookie ELSE req[t].answer
  /\ req' = [req EXCEPT ![t] = Idle]
  /\ UNCHANGED <<rows, reset, lost, crossed, acts>>

\* The connection breaks or the 20 seconds of the client are over.
Lose(t) ==
  /\ req[t].pc = "answered"
  /\ req' = [req EXCEPT ![t] = Idle]
  /\ lost' = TRUE
  /\ UNCHANGED <<rows, cookie, reset, crossed, acts>>

-----------------------------------------------------------------------------
(* login, refresh, logout *)

RotateOrNotMutant(row) == IF row.expired THEN "expire" ELSE "rotate"

\* rotate_refresh_session decides on what its SELECT returned.
RotateOrNot(row) ==
  IF row.revoked \/ row.next # 0 THEN "reuse"
  ELSE IF row.expired THEN "expire" ELSE "rotate"

Reads(t) ==
  /\ req[t].pc = "sent" /\ req[t].kind # "login"
  /\ LET row == rows[req[t].token]
         does == IF req[t].kind = "logout"
                   THEN IF row.revoked THEN "nothing" ELSE "logout"
                   ELSE RotateOrNot(row)
     IN req' = [req EXCEPT ![t].pc = "read", ![t].does = does, ![t].fresh = ~ row.revoked]
  /\ UNCHANGED <<rows, cookie, reset, lost, crossed, acts>>

\* The UPDATE of a reused family starts: it sees the rows committed by now.
ReuseExecutes(t) ==
  /\ req[t].pc = "read" /\ req[t].does = "reuse"
  /\ req' = [req EXCEPT ![t].pc = "executed", ![t].scope = DOMAIN rows]
  /\ UNCHANGED <<rows, cookie, reset, lost, crossed, acts>>

Answered(t, id) ==
  req' = [req EXCEPT ![t] = [Idle EXCEPT !.pc = "answered", !.kind = req[t].kind, !.answer = id]]

ReuseCommits(t) ==
  /\ req[t].pc = "executed"
  /\ rows' = RevokeAll({rows[req[t].token].family}, req[t].scope, "reuse")
  /\ Answered(t, 0)
  /\ UNCHANGED <<cookie, reset, lost, crossed, acts>>

\* A new row in the family of the old one, which is revoked and points to it.
Rotated(old, fresh) ==
  Append([rows EXCEPT ![old] = [Revoke(@, "rotate") EXCEPT !.next = Len(rows) + 1]],
         Session(rows[old].family, rows[old].stray \/ (fresh /\ rows[old].revoked)))

RotateCommitsMutant(t) ==
  /\ req[t].pc = "read" /\ req[t].does = "rotate" /\ Len(rows) < MaxRows
  /\ rows' = Rotated(req[t].token, req[t].fresh)
  /\ Answered(t, req[t].token)
  /\ UNCHANGED <<cookie, reset, lost, crossed, acts>>

RotateCommits(t) ==
  /\ req[t].pc = "read" /\ req[t].does = "rotate" /\ Len(rows) < MaxRows
  /\ rows' = Rotated(req[t].token, req[t].fresh)
  /\ Answered(t, Len(rows) + 1)
  /\ UNCHANGED <<cookie, reset, lost, crossed, acts>>

\* An expired session, and the one a logout presents, is revoked alone.
OneCommits(t) ==
  /\ req[t].pc = "read" /\ req[t].does \in {"expire", "logout", "nothing"}
  /\ rows' = IF req[t].does = "nothing" THEN rows
             ELSE [rows EXCEPT ![req[t].token] = Revoke(@, req[t].does)]
  /\ Answered(t, 0)
  /\ UNCHANGED <<cookie, reset, lost, crossed, acts>>

LoginCommits(t) ==
  /\ req[t].pc = "sent" /\ req[t].kind = "login" /\ Len(rows) < MaxRows
  /\ rows' = Append(rows, Session(Len(rows) + 1, FALSE))
  /\ Answered(t, Len(rows) + 1)
  /\ UNCHANGED <<cookie, reset, lost, crossed, acts>>

-----------------------------------------------------------------------------
(* Others *)

\* revoke_session of the user, revoke_admin_session of an administrator.
RevokeOne(i) ==
  /\ ~ rows[i].revoked
  /\ rows' = [rows EXCEPT ![i] = Revoke(@, "revoke")]
  /\ acts < MaxActs /\ acts' = acts + 1
  /\ UNCHANGED <<cookie, req, reset, lost, crossed>>

\* patch_member with a new password revokes every session of the user.
ResetExecutes ==
  /\ reset = {} /\ rows # <<>>
  /\ reset' = DOMAIN rows
  /\ acts < MaxActs /\ acts' = acts + 1
  /\ UNCHANGED <<rows, cookie, req, lost, crossed>>

ResetCommits ==
  /\ reset # {}
  /\ rows' = RevokeAll({rows[i].family : i \in DOMAIN rows}, reset, "reset")
  /\ reset' = {}
  /\ UNCHANGED <<cookie, req, lost, crossed, acts>>

Expire(i) ==
  /\ ~ rows[i].expired /\ Live(i)
  /\ rows' = [rows EXCEPT ![i].expired = TRUE]
  /\ acts < MaxActs /\ acts' = acts + 1
  /\ UNCHANGED <<cookie, req, reset, lost, crossed>>

SessionsInit ==
  /\ rows = <<>> /\ cookie = 0 /\ req = [t \in Tab |-> Idle]
  /\ reset = {} /\ lost = FALSE /\ crossed = FALSE /\ acts = 0

SessionsNext ==
  \/ \E t \in Tab : \/ \E kind \in {"login", "refresh", "logout"} : Send(t, kind)
                    \/ Receive(t) \/ Lose(t) \/ Reads(t) \/ ReuseExecutes(t)
                    \/ ReuseCommits(t) \/ RotateCommits(t) \/ OneCommits(t) \/ LoginCommits(t)
  \/ \E i \in DOMAIN rows : RevokeOne(i) \/ Expire(i)
  \/ ResetExecutes \/ ResetCommits

SessionsSpec == SessionsInit /\ [][SessionsNext]_sessionVars

-----------------------------------------------------------------------------
(* Properties *)

\* A family has at most one live session, and none once a reuse or a password
\* change closed it, except for the sessions a request committed across a
\* revocation it could not see, and their descendants.  The exception is where
\* the code falls short of findings.md:78, "rotates on every use; reuse revokes
\* the whole session family", which makes none: of two uses of a token that
\* overlap both rotate it, neither is a reuse, and a rotation that commits after
\* the UPDATE of a reuse survives the closure (security.py:159-193).  What is
\* claimed here is that nothing else escapes.
FamilyAccounted ==
  \A i \in DOMAIN rows : Live(i) /\ ~ rows[i].stray =>
    \A j \in DOMAIN rows : rows[j].family = rows[i].family =>
      /\ rows[j].cause \notin {"reuse", "reset"}
      /\ j # i /\ Live(j) => rows[j].stray

\* The browser keeps up with the rotation: the token it holds is a replaced
\* one, whose next use closes the family, only while a request is under way or
\* after an answer was lost or two of its tabs were at it together.
CookieCurrent ==
  cookie # 0 /\ rows[cookie].cause = "rotate" =>
    lost \/ crossed \/ \E t \in Tab : req[t] # Idle
=============================================================================
