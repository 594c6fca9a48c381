--------------------------- MODULE AccountProofs ---------------------------
(***************************************************************************)
(* Theorems about Sessions, for every number of tabs and sessions: a       *)
(* family has one live session at most, and none after it was closed, but  *)
(* for sessions committed across a revocation they could not see; and the  *)
(* cookie of the browser keeps up with the rotation of its session.        *)
(*                                                                         *)
(* And about Access, for all organizations, people and requests: members   *)
(* have the roles they were given, and organizations do not reach each     *)
(* other.                                                                  *)
(*                                                                         *)
(* And about Skills, for all packages, agent versions and requests: what   *)
(* is bound was scanned and does not block, and is coherent unless its     *)
(* rows are of two replacements; no run is judged with a new finding that  *)
(* blocks; and a run is judged by what it froze unless a replacement       *)
(* overlapped its creation.                                                *)
(***************************************************************************)
EXTENDS Sessions, Access, Skills, SequenceTheorems, FiniteSetTheorems, TLAPS

Cause == {"none", "rotate", "expire", "logout", "revoke", "reuse", "reset"}
RowType == [family : Nat, revoked : BOOLEAN, next : Nat, expired : BOOLEAN, cause : Cause,
            stray : BOOLEAN]
Does == {"none", "nothing", "logout", "reuse", "expire", "rotate"}
ReqType == [pc : {"idle", "sent", "read", "executed", "answered"},
            kind : {"none", "login", "refresh", "logout"}, token : Nat, does : Does,
            fresh : BOOLEAN, scope : SUBSET Nat, answer : Nat]

SessionsTypeOK ==
  /\ rows \in Seq(RowType)
  /\ cookie \in 0 .. Len(rows)
  /\ req \in [Tab -> ReqType]
  /\ reset \in SUBSET Nat
  /\ lost \in BOOLEAN /\ crossed \in BOOLEAN

\* A family bears the index of its first session, and what is replaced is
\* revoked.
RowsInv ==
  \A i \in 1 .. Len(rows) :
    /\ rows[i].family \in 1 .. Len(rows)
    /\ rows[i].next # 0 => rows[i].revoked

\* A request that presents one of n sessions presents one there is, and one
\* that is about to rotate it saw it unrevoked.
Presents(r, n) ==
  /\ r.pc = "sent" /\ r.kind # "login" => r.token \in 1 .. n
  /\ r.pc \in {"read", "executed"} => r.token \in 1 .. n
  /\ r.pc = "read" /\ r.does = "rotate" => r.fresh
  /\ r.answer \in 0 .. n

ReqInv == \A t \in Tab : Presents(req[t], Len(rows))

SessionsInv == SessionsTypeOK /\ RowsInv /\ ReqInv /\ FamilyAccounted

-----------------------------------------------------------------------------
(* How the rows may change *)

LEMMA Indices ==
  /\ SessionsTypeOK => DOMAIN rows = 1 .. Len(rows) /\ Len(rows) \in Nat
  /\ rows' \in Seq(RowType) => DOMAIN rows' = 1 .. Len(rows') /\ Len(rows') \in Nat
BY LenProperties DEF SessionsTypeOK

\* The sessions are the same ones, with the same families.
SameRows ==
  /\ rows' \in Seq(RowType)
  /\ Len(rows') = Len(rows)
  /\ \A i \in 1 .. Len(rows) : /\ rows'[i].family = rows[i].family
                               /\ rows'[i].next = rows[i].next
                               /\ rows[i].revoked => rows'[i].revoked

\* Some may be revoked, alone.
QuietStep ==
  /\ SameRows
  /\ \A i \in 1 .. Len(rows) :
       /\ rows'[i].stray = rows[i].stray
       /\ rows'[i].cause \in {"reuse", "reset"} => rows[i].cause \in {"reuse", "reset"}

\* The live sessions of some families are revoked or go astray.
ClosingStep(families) ==
  /\ SameRows
  /\ \A i \in 1 .. Len(rows) :
       IF rows[i].family \in families THEN rows'[i].revoked \/ rows'[i].stray
       ELSE rows'[i] = rows[i]

LEMMA QuietKeeps ==
  ASSUME SessionsTypeOK, RowsInv, FamilyAccounted, QuietStep
  PROVE  RowsInv' /\ FamilyAccounted'
<1> USE DEF QuietStep, SameRows
<1>1. RowsInv'
  BY DEF RowsInv
<1>2. ASSUME NEW i \in 1 .. Len(rows'),
             ~ rows'[i].revoked, rows'[i].next = 0, ~ rows'[i].stray,
             NEW j \in 1 .. Len(rows'), rows'[j].family = rows'[i].family
      PROVE  /\ rows'[j].cause \notin {"reuse", "reset"}
             /\ j # i /\ ~ rows'[j].revoked /\ rows'[j].next = 0 => rows'[j].stray
  <2>1. ~ rows[i].revoked /\ rows[i].next = 0 /\ ~ rows[i].stray
        /\ rows[j].family = rows[i].family
    BY <1>2
  <2>2. /\ rows[j].cause \notin {"reuse", "reset"}
        /\ j # i /\ ~ rows[j].revoked /\ rows[j].next = 0 => rows[j].stray
    BY <1>2, <2>1, Indices DEF FamilyAccounted, Live
  <2> QED
    BY <1>2, <2>2
<1>3. FamilyAccounted'
  BY <1>2, Indices DEF FamilyAccounted, Live
<1> QED
  BY <1>1, <1>3

LEMMA ClosingKeeps ==
  ASSUME SessionsTypeOK, RowsInv, FamilyAccounted,
         NEW families, ClosingStep(families)
  PROVE  RowsInv' /\ FamilyAccounted'
<1> USE DEF ClosingStep, SameRows
<1>1. RowsInv'
  BY DEF RowsInv
<1>2. ASSUME NEW i \in 1 .. Len(rows'),
             ~ rows'[i].revoked, rows'[i].next = 0, ~ rows'[i].stray,
             NEW j \in 1 .. Len(rows'), rows'[j].family = rows'[i].family
      PROVE  /\ rows'[j].cause \notin {"reuse", "reset"}
             /\ j # i /\ ~ rows'[j].revoked /\ rows'[j].next = 0 => rows'[j].stray
  <2>1. rows[i].family \notin families /\ rows'[i] = rows[i] /\ rows'[j] = rows[j]
    BY <1>2
  <2>2. /\ rows[j].cause \notin {"reuse", "reset"}
        /\ j # i /\ ~ rows[j].revoked /\ rows[j].next = 0 => rows[j].stray
    BY <1>2, <2>1, Indices DEF FamilyAccounted, Live
  <2> QED
    BY <1>2, <2>1, <2>2
<1>3. FamilyAccounted'
  BY <1>2, Indices DEF FamilyAccounted, Live
<1> QED
  BY <1>1, <1>3

\* An UPDATE over families is such a step, whatever it has seen of them.
LEMMA RevokeAllCloses ==
  ASSUME SessionsTypeOK, RowsInv, NEW families, NEW seen, NEW cause \in Cause,
         rows' = RevokeAll(families, seen, cause)
  PROVE  ClosingStep(families)
<1>1. rows' = [i \in 1 .. Len(rows) |->
                 IF rows[i].family \notin families \/ rows[i].revoked THEN rows[i]
                 ELSE IF i \in seen THEN Revoke(rows[i], cause)
                 ELSE [rows[i] EXCEPT !.stray = TRUE]]
  BY Indices DEF RevokeAll
<1>2. \A i \in 1 .. Len(rows) : rows[i] \in RowType
  BY DEF SessionsTypeOK
<1>3. ASSUME NEW i \in 1 .. Len(rows)
      PROVE  /\ rows'[i] \in RowType
             /\ rows'[i].family = rows[i].family
             /\ rows'[i].next = rows[i].next
             /\ rows[i].revoked => rows'[i].revoked
             /\ IF rows[i].family \in families THEN rows'[i].revoked \/ rows'[i].stray
                ELSE rows'[i] = rows[i]
  <2>1. \/ rows'[i] = rows[i] /\ (rows[i].family \notin families \/ rows[i].revoked)
        \/ rows'[i] = Revoke(rows[i], cause)
        \/ rows'[i] = [rows[i] EXCEPT !.stray = TRUE]
    BY <1>1, <1>3
  <2>2. /\ Revoke(rows[i], cause) \in RowType
        /\ Revoke(rows[i], cause).family = rows[i].family
        /\ Revoke(rows[i], cause).next = rows[i].next
        /\ Revoke(rows[i], cause).revoked
    BY <1>2 DEF Revoke, RowType
  <2>3. /\ [rows[i] EXCEPT !.stray = TRUE] \in RowType
        /\ [rows[i] EXCEPT !.stray = TRUE].family = rows[i].family
        /\ [rows[i] EXCEPT !.stray = TRUE].next = rows[i].next
        /\ [rows[i] EXCEPT !.stray = TRUE].revoked = rows[i].revoked
        /\ [rows[i] EXCEPT !.stray = TRUE].stray
    BY <1>2 DEF RowType
  <2>4. rows[i].family \notin families => rows'[i] = rows[i]
    BY <1>1
  <2> QED
    BY <2>1, <2>2, <2>3, <2>4, <1>2
<1>4. Len(rows) \in Nat /\ rows' \in [1 .. Len(rows) -> RowType]
  BY <1>1, <1>3, Indices
<1>5. rows' \in Seq(RowType)
  BY <1>4, SeqDef
<1>6. Len(rows') = Len(rows)
  BY <1>4, <1>5, LenProperties
<1> QED
  BY <1>3, <1>5, <1>6 DEF ClosingStep, SameRows

\* Revoking one session closes nothing but it.
LEMMA RevokeOneIsQuiet ==
  ASSUME SessionsTypeOK, NEW k \in 1 .. Len(rows),
         NEW cause \in Cause \ {"reuse", "reset"},
         rows' = [rows EXCEPT ![k] = Revoke(rows[k], cause)]
  PROVE  QuietStep
<1>1. rows[k] \in RowType
  BY DEF SessionsTypeOK
<1>2. /\ Revoke(rows[k], cause) \in RowType
      /\ Revoke(rows[k], cause).family = rows[k].family
      /\ Revoke(rows[k], cause).next = rows[k].next
      /\ Revoke(rows[k], cause).stray = rows[k].stray
      /\ Revoke(rows[k], cause).revoked
      /\ Revoke(rows[k], cause).cause \in {rows[k].cause, cause}
  BY <1>1 DEF Revoke, RowType
<1> HIDE DEF Revoke
<1>3. /\ rows' \in Seq(RowType) /\ Len(rows') = Len(rows)
      /\ \A j \in 1 .. Len(rows) : rows'[j] = IF j = k THEN Revoke(rows[k], cause) ELSE rows[j]
  BY <1>2, ExceptSeq DEF SessionsTypeOK
<1> QED
  BY <1>2, <1>3 DEF QuietStep, SameRows

LEMMA AppendFacts ==
  ASSUME NEW s \in Seq(RowType), NEW x \in RowType
  PROVE  /\ Len(s) \in Nat /\ Append(s, x) \in Seq(RowType)
         /\ Len(Append(s, x)) = Len(s) + 1
         /\ \A i \in 1 .. Len(s) : Append(s, x)[i] = s[i]
         /\ Append(s, x)[Len(s) + 1] = x
OBVIOUS

\* A family of its own is added.
LoginStep(n) ==
  /\ Len(rows') = n + 1
  /\ \A i \in 1 .. n : rows'[i] = rows[i]
  /\ rows'[n + 1].family = n + 1 /\ rows'[n + 1].next = 0 /\ rows'[n + 1].cause = "none"

\* The session k is replaced by one that is astray unless k was live to the end.
RotateStep(n, k) ==
  /\ Len(rows') = n + 1
  /\ \A i \in 1 .. n : i # k => rows'[i] = rows[i]
  /\ /\ rows'[k].revoked /\ rows'[k].family = rows[k].family
     /\ rows'[k].cause \in {rows[k].cause, "rotate"}
  /\ /\ rows'[n + 1].family = rows[k].family
     /\ rows'[n + 1].next = 0 /\ rows'[n + 1].cause = "none"
     /\ rows'[n + 1].stray = (rows[k].stray \/ rows[k].revoked)

\* What FamilyAccounted says of two sessions.
Accounted(a, b, i, j) ==
  ~ a.revoked /\ a.next = 0 /\ ~ a.stray /\ b.family = a.family =>
    /\ b.cause \notin {"reuse", "reset"}
    /\ j # i /\ ~ b.revoked /\ b.next = 0 => b.stray

LEMMA Pairs ==
  /\ SessionsTypeOK =>
       (FamilyAccounted <=> \A i, j \in 1 .. Len(rows) : Accounted(rows[i], rows[j], i, j))
  /\ rows' \in Seq(RowType) =>
       (FamilyAccounted' <=> \A i, j \in 1 .. Len(rows') : Accounted(rows'[i], rows'[j], i, j))
BY Indices DEF FamilyAccounted, Accounted, Live

LEMMA LoginStepKeeps ==
  ASSUME NEW n \in Nat, Len(rows) = n, RowsInv, LoginStep(n),
         \A i, j \in 1 .. n : Accounted(rows[i], rows[j], i, j)
  PROVE  RowsInv' /\ \A i, j \in 1 .. n + 1 : Accounted(rows'[i], rows'[j], i, j)
<1>1. \A i \in 1 .. n : rows[i].family \in 1 .. n /\ (rows[i].next # 0 => rows[i].revoked)
  BY DEF RowsInv
<1>2. \A i \in 1 .. n + 1 : i \in 1 .. n \/ i = n + 1
  OBVIOUS
<1>3. RowsInv'
  <2>1. ASSUME NEW i \in 1 .. n + 1
        PROVE  rows'[i].family \in 1 .. n + 1 /\ (rows'[i].next # 0 => rows'[i].revoked)
    BY <2>1, <1>1, <1>2 DEF LoginStep
  <2> QED
    BY <2>1 DEF LoginStep, RowsInv
<1>4. ASSUME NEW i \in 1 .. n + 1, NEW j \in 1 .. n + 1
      PROVE  Accounted(rows'[i], rows'[j], i, j)
  <2>1. CASE i \in 1 .. n /\ j \in 1 .. n
    BY <2>1 DEF LoginStep
  <2>2. CASE i = n + 1 /\ j \in 1 .. n
    BY <2>2, <1>1 DEF LoginStep, Accounted
  <2>3. CASE i \in 1 .. n /\ j = n + 1
    BY <2>3, <1>1 DEF LoginStep, Accounted
  <2>4. CASE i = n + 1 /\ j = n + 1
    BY <2>4 DEF LoginStep, Accounted
  <2> QED
    BY <1>2, <2>1, <2>2, <2>3, <2>4
<1> QED
  BY <1>3, <1>4

LEMMA RotateStepKeeps ==
  ASSUME NEW n \in Nat, Len(rows) = n, RowsInv, NEW k \in 1 .. n, RotateStep(n, k),
         rows[k].revoked \in BOOLEAN, rows[k].stray \in BOOLEAN,
         \A i, j \in 1 .. n : Accounted(rows[i], rows[j], i, j)
  PROVE  RowsInv' /\ \A i, j \in 1 .. n + 1 : Accounted(rows'[i], rows'[j], i, j)
<1>1. \A i \in 1 .. n : rows[i].family \in 1 .. n /\ (rows[i].next # 0 => rows[i].revoked)
  BY DEF RowsInv
<1>2. \A i \in 1 .. n + 1 : (i \in 1 .. n /\ i # k) \/ i = k \/ i = n + 1
  OBVIOUS
<1>3. RowsInv'
  <2>1. ASSUME NEW i \in 1 .. n + 1
        PROVE  rows'[i].family \in 1 .. n + 1 /\ (rows'[i].next # 0 => rows'[i].revoked)
    BY <2>1, <1>1, <1>2 DEF RotateStep
  <2> QED
    BY <2>1 DEF RotateStep, RowsInv
<1>4. ASSUME NEW i \in 1 .. n + 1, NEW j \in 1 .. n + 1
      PROVE  Accounted(rows'[i], rows'[j], i, j)
  <2>1. CASE i = k
    BY <2>1 DEF RotateStep, Accounted
  <2>2. CASE i = n + 1
    <3>1. ~ rows'[i].stray => ~ rows[k].revoked /\ rows[k].next = 0 /\ ~ rows[k].stray
      BY <2>2, <1>1 DEF RotateStep
    <3>2. CASE j \in 1 .. n /\ j # k
      <4>1. Accounted(rows[k], rows[j], k, j)
        BY <3>2
      <4> QED
        BY <2>2, <3>1, <3>2, <4>1 DEF RotateStep, Accounted
    <3>3. CASE j = k
      <4>1. Accounted(rows[k], rows[k], k, k)
        OBVIOUS
      <4> QED
        BY <2>2, <3>1, <3>3, <4>1 DEF RotateStep, Accounted
    <3>4. CASE j = n + 1
      BY <2>2, <3>4 DEF RotateStep, Accounted
    <3> QED
      BY <1>2, <3>2, <3>3, <3>4
  <2>3. CASE i \in 1 .. n /\ i # k
    <3>1. rows'[i] = rows[i]
      BY <2>3 DEF RotateStep
    <3>2. CASE j \in 1 .. n /\ j # k
      BY <2>3, <3>2 DEF RotateStep
    <3>3. CASE j = k
      <4>1. Accounted(rows[i], rows[k], i, k)
        BY <2>3
      <4> QED
        BY <3>1, <3>3, <4>1 DEF RotateStep, Accounted
    <3>4. CASE j = n + 1
      <4>1. Accounted(rows[i], rows[k], i, k)
        BY <2>3
      <4> QED
        BY <2>3, <3>1, <3>4, <4>1, <1>1 DEF RotateStep, Accounted
    <3> QED
      BY <1>2, <3>2, <3>3, <3>4
  <2> QED
    BY <1>2, <2>1, <2>2, <2>3
<1> QED
  BY <1>3, <1>4

LEMMA LoginKeeps ==
  ASSUME SessionsTypeOK, RowsInv, FamilyAccounted,
         rows' = Append(rows, Session(Len(rows) + 1, FALSE))
  PROVE  /\ rows' \in Seq(RowType) /\ Len(rows') = Len(rows) + 1
         /\ RowsInv' /\ FamilyAccounted'
<1>1. rows \in Seq(RowType) /\ Len(rows) \in Nat
  BY Indices DEF SessionsTypeOK
<1>2. LET s == Session(Len(rows) + 1, FALSE)
      IN  s \in RowType /\ s.family = Len(rows) + 1 /\ s.next = 0 /\ s.cause = "none"
  BY <1>1 DEF Session, RowType, Cause
<1>3. /\ rows' \in Seq(RowType) /\ Len(rows') = Len(rows) + 1
      /\ \A i \in 1 .. Len(rows) : rows'[i] = rows[i]
      /\ rows'[Len(rows) + 1] = Session(Len(rows) + 1, FALSE)
  BY <1>1, <1>2, AppendFacts
<1>4. LoginStep(Len(rows))
  BY <1>2, <1>3 DEF LoginStep
<1> QED
  BY <1>1, <1>3, <1>4, LoginStepKeeps, Pairs

LEMMA RotateKeeps ==
  ASSUME SessionsTypeOK, RowsInv, FamilyAccounted,
         NEW k \in 1 .. Len(rows), rows' = Rotated(k, TRUE)
  PROVE  /\ rows' \in Seq(RowType) /\ Len(rows') = Len(rows) + 1
         /\ RowsInv' /\ FamilyAccounted'
<1> DEFINE n == Len(rows)
           old == [Revoke(rows[k], "rotate") EXCEPT !.next = n + 1]
           fresh == Session(rows[k].family, rows[k].stray \/ rows[k].revoked)
<1>1. n \in Nat /\ rows[k] \in RowType
  BY Indices DEF SessionsTypeOK
<1>2. /\ old \in RowType /\ old.family = rows[k].family /\ old.revoked
      /\ old.cause \in {rows[k].cause, "rotate"}
  <2>1. /\ Revoke(rows[k], "rotate") \in RowType
        /\ Revoke(rows[k], "rotate").family = rows[k].family
        /\ Revoke(rows[k], "rotate").revoked
        /\ Revoke(rows[k], "rotate").cause \in {rows[k].cause, "rotate"}
    BY <1>1 DEF Revoke, RowType, Cause
  <2> QED
    BY <1>1, <2>1 DEF RowType
<1>3. /\ fresh \in RowType
      /\ fresh.family = rows[k].family /\ fresh.next = 0 /\ fresh.cause = "none"
      /\ fresh.stray = (rows[k].stray \/ rows[k].revoked)
  BY <1>1 DEF Session, RowType, Cause
<1> DEFINE s == [rows EXCEPT ![k] = old]
<1>4. rows' = Append(s, fresh)
  BY <1>1 DEF Rotated, SessionsTypeOK
<1> HIDE DEF old, fresh
<1>5. /\ s \in Seq(RowType)
      /\ Len(s) = n
      /\ \A j \in 1 .. n : s[j] = IF j = k THEN old ELSE rows[j]
  BY <1>2, ExceptSeq DEF SessionsTypeOK
<1> HIDE DEF s
<1>6. /\ rows' \in Seq(RowType) /\ Len(rows') = n + 1
      /\ \A j \in 1 .. n : rows'[j] = IF j = k THEN old ELSE rows[j]
      /\ rows'[n + 1] = fresh
  <2>1. /\ Append(s, fresh) \in Seq(RowType) /\ Len(Append(s, fresh)) = Len(s) + 1
        /\ \A j \in 1 .. Len(s) : Append(s, fresh)[j] = s[j]
        /\ Append(s, fresh)[Len(s) + 1] = fresh
    BY <1>3, <1>5, AppendFacts
  <2> QED
    BY <1>4, <1>5, <2>1
<1>7. RotateStep(n, k)
  BY <1>2, <1>3, <1>6 DEF RotateStep
<1>8. rows[k].revoked \in BOOLEAN /\ rows[k].stray \in BOOLEAN
  BY <1>1 DEF RowType
<1> QED
  BY <1>1, <1>6, <1>7, <1>8, RotateStepKeeps, Pairs

\* A session that expires stays what it was otherwise.
LEMMA ExpireIsQuiet ==
  ASSUME SessionsTypeOK, NEW k \in 1 .. Len(rows),
         rows' = [rows EXCEPT ![k] = [rows[k] EXCEPT !.expired = TRUE]]
  PROVE  QuietStep
<1> DEFINE row == [rows[k] EXCEPT !.expired = TRUE]
<1>1. rows[k] \in RowType
  BY DEF SessionsTypeOK
<1>2. /\ row \in RowType
      /\ row.family = rows[k].family
      /\ row.next = rows[k].next
      /\ row.stray = rows[k].stray
      /\ row.revoked = rows[k].revoked
      /\ row.cause = rows[k].cause
  BY <1>1 DEF RowType
<1> HIDE DEF row
<1>3. /\ rows' \in Seq(RowType) /\ Len(rows') = Len(rows)
      /\ \A j \in 1 .. Len(rows) : rows'[j] = IF j = k THEN row ELSE rows[j]
  BY <1>2, ExceptSeq DEF SessionsTypeOK, row
<1> QED
  BY <1>2, <1>3 DEF QuietStep, SameRows

-----------------------------------------------------------------------------
(* The sessions over a step *)

RowsKept ==
  /\ rows' \in Seq(RowType) /\ Len(rows') \in {Len(rows), Len(rows) + 1}
  /\ RowsInv' /\ FamilyAccounted'

LEMMA RowsUnchanged ==
  ASSUME SessionsInv, rows' = rows
  PROVE  RowsKept
BY DEF SessionsInv, SessionsTypeOK, RowsKept, RowsInv, FamilyAccounted, Live

LEMMA RowsQuiet ==
  ASSUME SessionsInv, QuietStep
  PROVE  RowsKept
BY QuietKeeps DEF SessionsInv, RowsKept, QuietStep, SameRows

LEMMA RowsClosing ==
  ASSUME SessionsInv, NEW families, ClosingStep(families)
  PROVE  RowsKept
BY ClosingKeeps DEF SessionsInv, RowsKept, ClosingStep, SameRows

LEMMA RowsOfTab ==
  ASSUME SessionsInv, NEW t \in Tab,
         \/ ReuseCommits(t) \/ RotateCommits(t) \/ OneCommits(t) \/ LoginCommits(t)
  PROVE  /\ RowsKept
         /\ RotateCommits(t) \/ LoginCommits(t) => Len(rows') = Len(rows) + 1
<1>1. SessionsTypeOK /\ RowsInv /\ FamilyAccounted /\ Presents(req[t], Len(rows))
  BY DEF SessionsInv, ReqInv
<1>2. ASSUME ReuseCommits(t)
      PROVE  RowsKept
  <2>1. rows' = RevokeAll({rows[req[t].token].family}, req[t].scope, "reuse")
    BY <1>2 DEF ReuseCommits
  <2>2. ClosingStep({rows[req[t].token].family})
    BY <1>1, <2>1, RevokeAllCloses DEF Cause
  <2> QED
    BY <2>2, RowsClosing
<1>3. ASSUME RotateCommits(t)
      PROVE  RowsKept /\ Len(rows') = Len(rows) + 1
  <2>1. req[t].token \in 1 .. Len(rows) /\ req[t].fresh /\ rows' = Rotated(req[t].token, req[t].fresh)
    BY <1>1, <1>3 DEF RotateCommits, Presents
  <2>2. req[t].fresh \in BOOLEAN
    BY <1>1 DEF SessionsTypeOK, ReqType
  <2>3. rows' = Rotated(req[t].token, TRUE)
    BY <2>1, <2>2
  <2> QED
    BY <1>1, <2>1, <2>3, RotateKeeps DEF RowsKept
<1>4. ASSUME OneCommits(t)
      PROVE  RowsKept
  <2>1. CASE req[t].does = "nothing"
    BY <1>4, <2>1, RowsUnchanged DEF OneCommits
  <2>2. CASE req[t].does # "nothing"
    <3>1. /\ req[t].token \in 1 .. Len(rows)
          /\ req[t].does \in {"expire", "logout"}
          /\ rows' = [rows EXCEPT ![req[t].token] = Revoke(rows[req[t].token], req[t].does)]
      BY <1>1, <1>4, <2>2 DEF OneCommits, Presents
    <3>2. QuietStep
      BY <1>1, <3>1, RevokeOneIsQuiet DEF Cause
    <3> QED
      BY <3>2, RowsQuiet
  <2> QED
    BY <2>1, <2>2
<1>5. ASSUME LoginCommits(t)
      PROVE  RowsKept /\ Len(rows') = Len(rows) + 1
  BY <1>1, <1>5, LoginKeeps DEF LoginCommits, RowsKept
<1> QED
  BY <1>2, <1>3, <1>4, <1>5

LEMMA RowsStep ==
  ASSUME SessionsInv, [SessionsNext]_sessionVars
  PROVE  RowsKept
<1>1. SessionsTypeOK /\ RowsInv
  BY DEF SessionsInv
<1>2. CASE rows' = rows
  BY <1>2, RowsUnchanged
<1>3. ASSUME NEW t \in Tab,
             ReuseCommits(t) \/ RotateCommits(t) \/ OneCommits(t) \/ LoginCommits(t)
      PROVE  RowsKept
  BY <1>3, RowsOfTab
<1>4. ASSUME NEW i \in DOMAIN rows, RevokeOne(i)
      PROVE  RowsKept
  <2>1. i \in 1 .. Len(rows) /\ rows' = [rows EXCEPT ![i] = Revoke(rows[i], "revoke")]
    BY <1>1, <1>4, Indices DEF RevokeOne
  <2>2. QuietStep
    BY <1>1, <2>1, RevokeOneIsQuiet DEF Cause
  <2> QED
    BY <2>2, RowsQuiet
<1>5. ASSUME NEW i \in DOMAIN rows, Expire(i)
      PROVE  RowsKept
  <2>1. i \in 1 .. Len(rows) /\ rows' = [rows EXCEPT ![i] = [rows[i] EXCEPT !.expired = TRUE]]
    BY <1>1, <1>5, Indices DEF Expire
  <2> QED
    BY <1>1, <2>1, ExpireIsQuiet, RowsQuiet
<1>6. CASE ResetCommits
  <2>1. ClosingStep({rows[i].family : i \in DOMAIN rows})
    BY <1>1, <1>6, RevokeAllCloses DEF ResetCommits, Cause
  <2> QED
    BY <2>1, RowsClosing
<1> QED
  BY <1>2, <1>3, <1>4, <1>5, <1>6
  DEF SessionsNext, sessionVars, Send, Receive, Lose, Reads, ReuseExecutes, ResetExecutes

-----------------------------------------------------------------------------
(* The requests over a step *)

LEMMA Grows ==
  ASSUME SessionsTypeOK, RowsKept
  PROVE  /\ Len(rows) \in Nat /\ Len(rows') \in Nat /\ Len(rows) <= Len(rows')
         /\ \A r \in ReqType : Presents(r, Len(rows)) => Presents(r, Len(rows'))
<1>1. rows' \in Seq(RowType) /\ Len(rows') \in {Len(rows), Len(rows) + 1}
  BY DEF RowsKept
<1>2. Len(rows) \in Nat
  BY Indices
<1>3. Len(rows') \in Nat
  BY <1>1, <1>2
<1> QED
  BY <1>1, <1>2, <1>3 DEF Presents

\* The request of a tab after it was sent, read and answered.
SentReq(kind, token) == [Idle EXCEPT !.pc = "sent", !.kind = kind, !.token = token]
ReadReq(q, does, fresh) == [q EXCEPT !.pc = "read", !.does = does, !.fresh = fresh]
AnsweredReq(q, id) == [Idle EXCEPT !.pc = "answered", !.kind = q.kind, !.answer = id]

LEMMA SentFacts ==
  ASSUME NEW kind \in {"login", "refresh", "logout"}, NEW token \in Nat
  PROVE  /\ SentReq(kind, token) \in ReqType
         /\ SentReq(kind, token).pc = "sent" /\ SentReq(kind, token).kind = kind
         /\ SentReq(kind, token).token = token /\ SentReq(kind, token).answer = 0
BY DEF SentReq, Idle, ReqType, Does

LEMMA ReadFacts ==
  ASSUME NEW q \in ReqType, NEW does \in Does, NEW fresh \in BOOLEAN, does = "rotate" => fresh,
         NEW n \in Nat, q.token \in 1 .. n, q.answer \in 0 .. n
  PROVE  ReadReq(q, does, fresh) \in ReqType /\ Presents(ReadReq(q, does, fresh), n)
<1> DEFINE r == ReadReq(q, does, fresh)
<1>1. /\ r \in ReqType /\ r.pc = "read" /\ r.does = does /\ r.fresh = fresh
      /\ r.token = q.token /\ r.answer = q.answer
  BY DEF ReadReq, ReqType
<1> HIDE DEF r
<1>2. Presents(r, n)
  <2>1. r.token \in 1 .. n /\ r.answer \in 0 .. n
    BY <1>1
  <2>2. r.pc = "read" /\ r.does = "rotate" => r.fresh
    BY <1>1
  <2> QED
    BY <1>1, <2>1, <2>2 DEF Presents
<1> QED
  BY <1>1, <1>2 DEF r

LEMMA AnsweredFacts ==
  ASSUME NEW q \in ReqType, NEW n \in Nat, NEW id \in 0 .. n
  PROVE  AnsweredReq(q, id) \in ReqType /\ Presents(AnsweredReq(q, id), n)
<1> DEFINE r == AnsweredReq(q, id)
<1>0. id \in Nat
  OBVIOUS
<1>1. r \in ReqType /\ r.pc = "answered" /\ r.answer = id
  BY <1>0 DEF AnsweredReq, Idle, ReqType, Does
<1> HIDE DEF r
<1>2. Presents(r, n)
  BY <1>1 DEF Presents
<1> QED
  BY <1>1, <1>2 DEF r

LEMMA ReqOfTab ==
  ASSUME SessionsInv, RowsKept, NEW t \in Tab,
         \/ \E kind \in {"login", "refresh", "logout"} : Send(t, kind)
         \/ Receive(t) \/ Lose(t) \/ Reads(t) \/ ReuseExecutes(t)
         \/ ReuseCommits(t) \/ RotateCommits(t) \/ OneCommits(t) \/ LoginCommits(t)
  PROVE  \E r \in ReqType : req' = [req EXCEPT ![t] = r] /\ Presents(r, Len(rows'))
<1>1. /\ req[t] \in ReqType /\ Presents(req[t], Len(rows)) /\ cookie \in 0 .. Len(rows)
      /\ Idle \in ReqType
  BY DEF SessionsInv, SessionsTypeOK, ReqInv, Idle, ReqType, Does
<1>2. Len(rows) \in Nat /\ Len(rows') \in Nat /\ Len(rows) <= Len(rows')
  BY Grows DEF SessionsInv
<1>3. ASSUME NEW kind \in {"login", "refresh", "logout"}, Send(t, kind)
      PROVE  \E r \in ReqType : req' = [req EXCEPT ![t] = r] /\ Presents(r, Len(rows'))
  <2> DEFINE token == IF kind = "login" THEN 0 ELSE cookie
  <2>1. req' = [req EXCEPT ![t] = SentReq(kind, token)]
    BY <1>3 DEF Send, SentReq
  <2>2. token \in Nat /\ (kind # "login" => token \in 1 .. Len(rows'))
    BY <1>1, <1>2, <1>3 DEF Send
  <2> HIDE DEF token
  <2>3. SentReq(kind, token) \in ReqType /\ Presents(SentReq(kind, token), Len(rows'))
    BY <1>2, <1>3, <2>2, SentFacts DEF Presents
  <2> QED
    BY <2>1, <2>3
<1>4. CASE Receive(t) \/ Lose(t)
  <2>1. req' = [req EXCEPT ![t] = Idle]
    BY <1>4 DEF Receive, Lose
  <2>2. Presents(Idle, Len(rows'))
    BY <1>2 DEF Presents, Idle
  <2> QED
    BY <1>1, <2>1, <2>2
<1>5. CASE Reads(t)
  <2> DEFINE row == rows[req[t].token]
             does == IF req[t].kind = "logout"
                       THEN IF row.revoked THEN "nothing" ELSE "logout"
                       ELSE RotateOrNot(row)
  <2>1. req' = [req EXCEPT ![t] = ReadReq(req[t], does, ~ row.revoked)]
    BY <1>5 DEF Reads, ReadReq
  <2>2. does \in Does /\ (does = "rotate" => ~ row.revoked)
    BY DEF RotateOrNot, Does
  <2>3. req[t].token \in 1 .. Len(rows) /\ req[t].answer \in 0 .. Len(rows)
    BY <1>1, <1>5 DEF Reads, Presents
  <2>4. row \in RowType
    BY <2>3 DEF SessionsInv, SessionsTypeOK
  <2>5. (~ row.revoked) \in BOOLEAN
    BY <2>4 DEF RowType
  <2> HIDE DEF does, row
  <2>6. /\ ReadReq(req[t], does, ~ row.revoked) \in ReqType
        /\ Presents(ReadReq(req[t], does, ~ row.revoked), Len(rows'))
    <3>1. req[t].token \in 1 .. Len(rows') /\ req[t].answer \in 0 .. Len(rows')
      BY <1>2, <2>3
    <3> QED
      BY <1>1, <1>2, <2>2, <2>5, <3>1, ReadFacts
  <2> QED
    BY <2>1, <2>6
<1>6. CASE ReuseExecutes(t)
  <2> DEFINE r == [req[t] EXCEPT !.pc = "executed", !.scope = DOMAIN rows]
  <2>1. req' = [req EXCEPT ![t] = r]
    BY <1>6 DEF ReuseExecutes
  <2>2. DOMAIN rows \in SUBSET Nat
    BY <1>2, Indices DEF SessionsInv
  <2>3. r \in ReqType /\ Presents(r, Len(rows'))
    BY <1>1, <1>2, <1>6, <2>2 DEF ReuseExecutes, Presents, ReqType
  <2> QED
    BY <2>1, <2>3
<1>7. ASSUME NEW id \in 0 .. Len(rows'), Answered(t, id)
      PROVE  \E r \in ReqType : req' = [req EXCEPT ![t] = r] /\ Presents(r, Len(rows'))
  <2>1. req' = [req EXCEPT ![t] = AnsweredReq(req[t], id)]
    BY <1>7 DEF Answered, AnsweredReq
  <2>2. AnsweredReq(req[t], id) \in ReqType /\ Presents(AnsweredReq(req[t], id), Len(rows'))
    BY <1>1, <1>2, <1>7, AnsweredFacts
  <2> QED
    BY <2>1, <2>2
<1>8. CASE ReuseCommits(t) \/ OneCommits(t)
  BY <1>2, <1>7, <1>8 DEF ReuseCommits, OneCommits
<1>9. CASE RotateCommits(t) \/ LoginCommits(t)
  <2>1. Len(rows') = Len(rows) + 1 /\ Answered(t, Len(rows) + 1)
    BY <1>9, RowsOfTab DEF RotateCommits, LoginCommits
  <2> QED
    BY <1>2, <1>7, <2>1
<1> QED
  BY <1>3, <1>4, <1>5, <1>6, <1>8, <1>9

LEMMA StepKeeps ==
  ASSUME SessionsInv, [SessionsNext]_sessionVars
  PROVE  SessionsInv'
<1>1. /\ SessionsTypeOK
      /\ req \in [Tab -> ReqType] /\ cookie \in 0 .. Len(rows)
      /\ \A t \in Tab : Presents(req[t], Len(rows))
  BY DEF SessionsInv, SessionsTypeOK, ReqInv
<1>2. RowsKept
  BY RowsStep
<1>3. /\ Len(rows) \in Nat /\ Len(rows') \in Nat /\ Len(rows) <= Len(rows')
      /\ \A r \in ReqType : Presents(r, Len(rows)) => Presents(r, Len(rows'))
  BY <1>1, <1>2, Grows
<1>4. req' \in [Tab -> ReqType] /\ \A t \in Tab : Presents(req'[t], Len(rows'))
  <2>1. CASE req' = req
    BY <2>1, <1>1, <1>3
  <2>2. ASSUME NEW t \in Tab, NEW r \in ReqType,
               req' = [req EXCEPT ![t] = r], Presents(r, Len(rows'))
        PROVE  req' \in [Tab -> ReqType] /\ \A u \in Tab : Presents(req'[u], Len(rows'))
    BY <2>2, <1>1, <1>3
  <2>3. ASSUME NEW t \in Tab,
               \/ \E kind \in {"login", "refresh", "logout"} : Send(t, kind)
               \/ Receive(t) \/ Lose(t) \/ Reads(t) \/ ReuseExecutes(t)
               \/ ReuseCommits(t) \/ RotateCommits(t) \/ OneCommits(t) \/ LoginCommits(t)
        PROVE  req' \in [Tab -> ReqType] /\ \A u \in Tab : Presents(req'[u], Len(rows'))
    <3>1. \E r \in ReqType : req' = [req EXCEPT ![t] = r] /\ Presents(r, Len(rows'))
      BY <2>3, <1>2, ReqOfTab
    <3> QED
      BY <3>1, <2>2
  <2> QED
    BY <2>1, <2>3 DEF SessionsNext, sessionVars, RevokeOne, Expire, ResetExecutes, ResetCommits
<1>5. cookie' \in 0 .. Len(rows')
  <2>1. CASE cookie' = cookie
    BY <2>1, <1>1, <1>3
  <2>2. ASSUME NEW t \in Tab, Receive(t)
        PROVE  cookie' \in 0 .. Len(rows')
    <3>1. req[t].answer \in 0 .. Len(rows)
      BY <1>1 DEF Presents
    <3>2. cookie' \in {0, cookie, req[t].answer}
      BY <2>2 DEF Receive
    <3> QED
      BY <3>1, <3>2, <1>1, <1>3
  <2> QED
    BY <2>1, <2>2
    DEF SessionsNext, sessionVars, Send, Lose, Reads, ReuseExecutes, ReuseCommits, RotateCommits,
        OneCommits, LoginCommits, RevokeOne, Expire, ResetExecutes, ResetCommits
<1>6. reset' \in SUBSET Nat /\ lost' \in BOOLEAN /\ crossed' \in BOOLEAN
  <2>1. reset \in SUBSET Nat /\ lost \in BOOLEAN /\ crossed \in BOOLEAN /\ DOMAIN rows \in SUBSET Nat
    BY <1>1, <1>3, Indices DEF SessionsTypeOK
  <2> QED
    BY <2>1
    DEF SessionsNext, sessionVars, Send, Receive, Lose, Reads, ReuseExecutes, ReuseCommits,
        RotateCommits, OneCommits, LoginCommits, RevokeOne, Expire, ResetExecutes, ResetCommits
<1> QED
  BY <1>2, <1>4, <1>5, <1>6 DEF SessionsInv, SessionsTypeOK, ReqInv, RowsKept

LEMMA InitKeeps ==
  ASSUME SessionsInit
  PROVE  SessionsInv
<1>1. rows \in Seq(RowType) /\ Len(rows) = 0
  BY EmptySeq DEF SessionsInit
<1>2. Idle \in ReqType /\ Presents(Idle, 0)
  BY DEF Idle, ReqType, Does, Presents
<1>3. req \in [Tab -> ReqType] /\ \A t \in Tab : req[t] = Idle
  BY <1>2 DEF SessionsInit
<1>4. cookie = 0 /\ reset = {} /\ lost = FALSE /\ crossed = FALSE
  BY DEF SessionsInit
<1> HIDE DEF SessionsInit
<1>5. SessionsTypeOK
  <2>1. cookie \in 0 .. Len(rows) /\ reset \in SUBSET Nat
    BY <1>1, <1>4
  <2>2. lost \in BOOLEAN /\ crossed \in BOOLEAN
    BY <1>4
  <2> QED
    BY <1>1, <1>3, <2>1, <2>2, Zenon DEF SessionsTypeOK
<1>6. ReqInv
  BY <1>1, <1>2, <1>3 DEF ReqInv
<1>7. RowsInv /\ FamilyAccounted
  BY <1>1, <1>5, Indices DEF RowsInv, FamilyAccounted
<1> QED
  BY <1>5, <1>6, <1>7 DEF SessionsInv

\* auth_sessions, whatever requests, revocations and expiries overlap: a family
\* has one live session at most, and none after a reuse or a password change
\* closed it, but for the strays of requests that committed across a revocation.
THEOREM FamiliesAccounted == SessionsSpec => []FamilyAccounted
<1>1. SessionsInit => SessionsInv
  BY InitKeeps
<1>2. SessionsInv /\ [SessionsNext]_sessionVars => SessionsInv'
  BY StepKeeps
<1>3. SessionsInv => FamilyAccounted
  BY DEF SessionsInv
<1> QED
  BY <1>1, <1>2, <1>3, PTL DEF SessionsSpec

-----------------------------------------------------------------------------
(* The cookie of the browser *)

\* A session the browser may present: nothing was put in its place.
Presentable(i) == i # 0 => rows[i].cause # "rotate"

\* What the browser holds once the request of t is answered: the cookie it has,
\* until the answer is there, and then the session of the answer if it has one.
Promised(t) ==
  /\ req[t].pc # "answered" \/ (req[t].answer = 0 /\ req[t].kind # "logout") =>
       Presentable(cookie)
  /\ req[t].pc = "answered" => Presentable(req[t].answer)

\* While no answer was lost and no requests overlapped, one tab at most is busy
\* and the browser has, or is about to get, the end of the rotation.
CookieInv ==
  ~ lost /\ ~ crossed =>
    /\ \A t, u \in Tab : req[t] # Idle /\ req[u] # Idle => t = u
    /\ (\A t \in Tab : req[t] = Idle) => Presentable(cookie)
    /\ \A t \in Tab : req[t] # Idle => Promised(t)

\* No session is replaced.
NoRotation ==
  \A i \in 1 .. Len(rows') : rows'[i].cause = "rotate" =>
    i \in 1 .. Len(rows) /\ rows[i].cause = "rotate"

LEMMA NoRotationByRevoke ==
  ASSUME SessionsTypeOK, NEW k \in 1 .. Len(rows), NEW row \in RowType,
         rows' = [rows EXCEPT ![k] = row], row.cause = "rotate" => rows[k].cause = "rotate"
  PROVE  NoRotation
<1>1. /\ rows' \in Seq(RowType) /\ Len(rows') = Len(rows)
      /\ \A j \in 1 .. Len(rows) : rows'[j] = IF j = k THEN row ELSE rows[j]
  BY ExceptSeq DEF SessionsTypeOK
<1> QED
  BY <1>1 DEF NoRotation

LEMMA RevokedRow ==
  ASSUME NEW row \in RowType, NEW cause \in Cause \ {"rotate"}
  PROVE  /\ Revoke(row, cause) \in RowType
         /\ Revoke(row, cause).cause = "rotate" => row.cause = "rotate"
BY DEF Revoke, RowType

LEMMA NoRotationByRevokeAll ==
  ASSUME SessionsTypeOK, NEW families, NEW seen, NEW cause \in Cause \ {"rotate"},
         rows' = RevokeAll(families, seen, cause), rows' \in Seq(RowType), Len(rows') = Len(rows)
  PROVE  NoRotation
<1>1. ASSUME NEW i \in 1 .. Len(rows)
      PROVE  rows'[i].cause = "rotate" => rows[i].cause = "rotate"
  <2>1. rows[i] \in RowType
    BY DEF SessionsTypeOK
  <2>2. \/ rows'[i] = rows[i]
        \/ rows'[i] = Revoke(rows[i], cause)
        \/ rows'[i] = [rows[i] EXCEPT !.stray = TRUE]
    BY Indices DEF RevokeAll
  <2>3. [rows[i] EXCEPT !.stray = TRUE].cause = rows[i].cause
    BY <2>1 DEF RowType
  <2> QED
    BY <2>1, <2>2, <2>3, RevokedRow
<1> QED
  BY <1>1 DEF NoRotation

LEMMA NoRotationOfTab ==
  ASSUME SessionsInv, NEW t \in Tab, ReuseCommits(t) \/ OneCommits(t) \/ LoginCommits(t)
  PROVE  NoRotation
<1>1. SessionsTypeOK /\ RowsInv /\ FamilyAccounted /\ Presents(req[t], Len(rows))
  BY DEF SessionsInv, ReqInv
<1>2. CASE ReuseCommits(t)
  <2>1. rows' = RevokeAll({rows[req[t].token].family}, req[t].scope, "reuse")
    BY <1>2 DEF ReuseCommits
  <2>2. rows' \in Seq(RowType) /\ Len(rows') = Len(rows)
    BY <1>1, <2>1, RevokeAllCloses DEF Cause, ClosingStep, SameRows
  <2>3. "reuse" \in Cause \ {"rotate"}
    BY DEF Cause
  <2> QED
    BY <1>1, <2>1, <2>2, <2>3, NoRotationByRevokeAll
<1>3. CASE OneCommits(t)
  <2>1. CASE req[t].does = "nothing"
    BY <1>3, <2>1 DEF OneCommits, NoRotation
  <2>2. CASE req[t].does # "nothing"
    <3> DEFINE row == Revoke(rows[req[t].token], req[t].does)
    <3>1. /\ req[t].token \in 1 .. Len(rows)
          /\ req[t].does \in Cause \ {"rotate"}
          /\ rows' = [rows EXCEPT ![req[t].token] = row]
      BY <1>1, <1>3, <2>2 DEF OneCommits, Presents, Cause
    <3>2. rows[req[t].token] \in RowType
      BY <1>1, <3>1 DEF SessionsTypeOK
    <3>3. row \in RowType /\ (row.cause = "rotate" => rows[req[t].token].cause = "rotate")
      <4>1. \A c \in Cause \ {"rotate"} :
              /\ Revoke(rows[req[t].token], c) \in RowType
              /\ Revoke(rows[req[t].token], c).cause = "rotate" => rows[req[t].token].cause = "rotate"
        BY <3>2, RevokedRow
      <4> HIDE DEF Revoke
      <4> QED
        BY <3>1, <4>1
    <3> HIDE DEF row
    <3> QED
      BY <1>1, <3>1, <3>3, NoRotationByRevoke
  <2> QED
    BY <2>1, <2>2
<1>4. CASE LoginCommits(t)
  <2>1. Session(Len(rows) + 1, FALSE) \in RowType /\ Session(Len(rows) + 1, FALSE).cause = "none"
    BY <1>1, Indices DEF Session, RowType, Cause
  <2>2. /\ Len(rows) \in Nat /\ Len(rows') = Len(rows) + 1
        /\ \A i \in 1 .. Len(rows) : rows'[i] = rows[i]
        /\ rows'[Len(rows) + 1].cause = "none"
    BY <1>1, <1>4, <2>1, AppendFacts DEF LoginCommits, SessionsTypeOK
  <2> QED
    BY <2>2 DEF NoRotation
<1> QED
  BY <1>2, <1>3, <1>4

LEMMA NoRotationOfOthers ==
  ASSUME SessionsInv, \/ \E i \in DOMAIN rows : RevokeOne(i) \/ Expire(i)
                      \/ ResetCommits \/ rows' = rows
  PROVE  NoRotation
<1>1. SessionsTypeOK /\ RowsInv
  BY DEF SessionsInv
<1>2. ASSUME NEW i \in DOMAIN rows, RevokeOne(i) \/ Expire(i)
      PROVE  NoRotation
  <2> DEFINE row == rows[i]
             revoked == Revoke(row, "revoke")
             expired == [row EXCEPT !.expired = TRUE]
  <2>1. i \in 1 .. Len(rows) /\ row \in RowType
    BY <1>1, Indices DEF SessionsTypeOK
  <2>2. rows' = [rows EXCEPT ![i] = revoked] \/ rows' = [rows EXCEPT ![i] = expired]
    BY <1>2 DEF RevokeOne, Expire
  <2>3. /\ revoked \in RowType /\ (revoked.cause = "rotate" => rows[i].cause = "rotate")
        /\ expired \in RowType /\ (expired.cause = "rotate" => rows[i].cause = "rotate")
    <3>1. expired \in RowType /\ expired.cause = row.cause
      BY <2>1 DEF RowType
    <3> QED
      BY <2>1, <3>1, RevokedRow DEF Cause
  <2> HIDE DEF revoked, expired
  <2> QED
    BY <1>1, <2>1, <2>2, <2>3, NoRotationByRevoke
<1>3. CASE ResetCommits
  <2>1. rows' = RevokeAll({rows[i].family : i \in DOMAIN rows}, reset, "reset")
    BY <1>3 DEF ResetCommits
  <2>2. rows' \in Seq(RowType) /\ Len(rows') = Len(rows)
    BY <1>1, <2>1, RevokeAllCloses DEF Cause, ClosingStep, SameRows
  <2> QED
    BY <1>1, <2>1, <2>2, NoRotationByRevokeAll DEF Cause
<1>4. CASE rows' = rows
  BY <1>4 DEF NoRotation
<1> QED
  BY <1>2, <1>3, <1>4

\* A rotation leaves a new session that nothing has replaced.
LEMMA FreshAfterRotation ==
  ASSUME SessionsInv, NEW t \in Tab, RotateCommits(t)
  PROVE  Len(rows') = Len(rows) + 1 /\ rows'[Len(rows) + 1].cause = "none"
<1>1. SessionsTypeOK /\ Presents(req[t], Len(rows)) /\ req[t] \in ReqType
  BY DEF SessionsInv, SessionsTypeOK, ReqInv
<1> DEFINE k == req[t].token
           old == [Revoke(rows[k], "rotate") EXCEPT !.next = Len(rows) + 1]
           fresh == Session(rows[k].family, rows[k].stray \/ (req[t].fresh /\ rows[k].revoked))
           s == [rows EXCEPT ![k] = old]
<1>2. k \in 1 .. Len(rows) /\ Len(rows) \in Nat /\ rows' = Append(s, fresh)
  BY <1>1, Indices DEF RotateCommits, Presents, Rotated
<1>3. rows[k] \in RowType
  BY <1>1, <1>2 DEF SessionsTypeOK
<1>4. old \in RowType
  <2>1. Revoke(rows[k], "rotate") \in RowType
    BY <1>3 DEF Revoke, RowType, Cause
  <2> QED
    BY <1>2, <2>1 DEF RowType
<1>5. fresh \in RowType /\ fresh.cause = "none"
  BY <1>1, <1>3 DEF Session, RowType, ReqType, Cause
<1> HIDE DEF old, fresh, k
<1>6. s \in Seq(RowType) /\ Len(s) = Len(rows)
  BY <1>1, <1>2, <1>4, ExceptSeq DEF SessionsTypeOK
<1> HIDE DEF s
<1> QED
  BY <1>2, <1>5, <1>6, AppendFacts

\* What a session there is may be presented for stays so.
LEMMA StaysPresentable ==
  ASSUME NoRotation, NEW n \in Nat, NEW m \in Nat, Len(rows) = n, Len(rows') = m, n <= m,
         NEW i \in 0 .. n, Presentable(i)
  PROVE  i # 0 => rows'[i].cause # "rotate"
BY DEF NoRotation, Presentable

\* CookieInv of a state, over its parts, for the primed form of it.
LEMMA CookieParts ==
  CookieInv' <=>
    (~ lost' /\ ~ crossed' =>
      /\ \A t, u \in Tab : req'[t] # Idle /\ req'[u] # Idle => t = u
      /\ (\A t \in Tab : req'[t] = Idle) => (cookie' # 0 => rows'[cookie'].cause # "rotate")
      /\ \A t \in Tab : req'[t] # Idle =>
           /\ req'[t].pc # "answered" \/ (req'[t].answer = 0 /\ req'[t].kind # "logout") =>
                (cookie' # 0 => rows'[cookie'].cause # "rotate")
           /\ req'[t].pc = "answered" =>
                (req'[t].answer # 0 => rows'[req'[t].answer].cause # "rotate"))
BY DEF CookieInv, Promised, Presentable

\* A step of the tab t, whose answer was not there, that replaces nothing.
LEMMA CookieBusyStep ==
  ASSUME SessionsInv, RowsKept, CookieInv, NoRotation,
         NEW t \in Tab, req[t] # Idle, req[t].pc # "answered",
         NEW r \in ReqType, r # Idle, req' = [req EXCEPT ![t] = r],
         r.pc = "answered" => r.answer = 0 \/ rows'[r.answer].cause = "none",
         cookie' = cookie, lost' = lost, crossed' = crossed
  PROVE  CookieInv'
<1>1. /\ Len(rows) \in Nat /\ Len(rows') \in Nat /\ Len(rows) <= Len(rows')
      /\ cookie \in 0 .. Len(rows) /\ req \in [Tab -> ReqType]
  BY Grows DEF SessionsInv, SessionsTypeOK
<1>2. \A u \in Tab : req'[u] = IF u = t THEN r ELSE req[u]
  BY <1>1
<1>3. SUFFICES ASSUME ~ lost, ~ crossed
               PROVE  CookieInv'
  BY CookieParts
<1>4. \A u \in Tab : req'[u] = IF u = t THEN r ELSE Idle
  BY <1>2, <1>3 DEF CookieInv
<1>5. cookie # 0 => rows'[cookie].cause # "rotate"
  BY <1>1, <1>3, StaysPresentable DEF CookieInv, Promised
<1> QED
  BY <1>4, <1>5, CookieParts

LEMMA CookieStep ==
  ASSUME SessionsInv, CookieInv, [SessionsNext]_sessionVars
  PROVE  CookieInv'
<1>1. RowsKept
  BY RowsStep
<1>2. /\ Len(rows) \in Nat /\ Len(rows') \in Nat /\ Len(rows) <= Len(rows')
      /\ cookie \in 0 .. Len(rows) /\ req \in [Tab -> ReqType]
      /\ \A t \in Tab : req[t].answer \in 0 .. Len(rows)
  BY <1>1, Grows DEF SessionsInv, SessionsTypeOK, ReqInv, Presents
<1>3. ASSUME NoRotation, req' = req, cookie' = cookie, lost' = lost, crossed' = crossed
      PROVE  CookieInv'
  <2>1. \A i \in 0 .. Len(rows) : Presentable(i) => (i # 0 => rows'[i].cause # "rotate")
    BY <1>2, <1>3, StaysPresentable
  <2> QED
    BY <1>2, <1>3, <2>1, CookieParts DEF CookieInv, Promised
<1>4. ASSUME NEW t \in Tab, NEW kind \in {"login", "refresh", "logout"}, Send(t, kind)
      PROVE  CookieInv'
  <2> DEFINE r == SentReq(kind, IF kind = "login" THEN 0 ELSE cookie)
  <2>1. /\ req[t] = Idle /\ req' = [req EXCEPT ![t] = r]
        /\ crossed' = (crossed \/ \E u \in Tab : req[u] # Idle)
        /\ rows' = rows /\ cookie' = cookie /\ lost' = lost
    BY <1>4 DEF Send, SentReq
  <2>2. r.pc = "sent" /\ r.answer = 0
    BY <1>2, SentFacts
  <2> HIDE DEF r
  <2>3. SUFFICES ASSUME ~ lost, ~ crossed, \A u \in Tab : req[u] = Idle
                 PROVE  CookieInv'
    BY <2>1, CookieParts
  <2>4. Presentable(cookie)
    BY <2>3 DEF CookieInv
  <2>5. \A u \in Tab : req'[u] = IF u = t THEN r ELSE Idle
    BY <1>2, <2>1, <2>3
  <2> QED
    BY <2>1, <2>2, <2>4, <2>5, CookieParts DEF Presentable
<1>5. ASSUME NEW t \in Tab, Receive(t)
      PROVE  CookieInv'
  <2>1. /\ req[t].pc = "answered" /\ req' = [req EXCEPT ![t] = Idle] /\ rows' = rows
        /\ lost' = lost /\ crossed' = crossed
        /\ cookie' = IF req[t].kind = "logout" THEN 0
                     ELSE IF req[t].answer = 0 THEN cookie ELSE req[t].answer
    BY <1>5 DEF Receive
  <2>2. req[t] # Idle
    BY <2>1 DEF Idle
  <2>3. SUFFICES ASSUME ~ lost, ~ crossed
                 PROVE  CookieInv'
    BY <2>1, CookieParts
  <2>4. \A u \in Tab : req'[u] = Idle
    BY <1>2, <2>1, <2>2, <2>3 DEF CookieInv
  <2>5. Promised(t)
    BY <2>2, <2>3 DEF CookieInv
  <2>6. cookie' # 0 => rows[cookie'].cause # "rotate"
    <3>1. CASE req[t].kind = "logout"
      BY <2>1, <3>1
    <3>2. CASE req[t].kind # "logout" /\ req[t].answer = 0
      BY <2>1, <2>5, <3>2 DEF Promised, Presentable
    <3>3. CASE req[t].kind # "logout" /\ req[t].answer # 0
      BY <2>1, <2>5, <3>3 DEF Promised, Presentable
    <3> QED
      BY <3>1, <3>2, <3>3
  <2> QED
    BY <2>1, <2>4, <2>6, CookieParts
<1>6. ASSUME NEW t \in Tab, Lose(t)
      PROVE  CookieInv'
  BY <1>6, CookieParts DEF Lose
<1>7. ASSUME NEW t \in Tab, Reads(t) \/ ReuseExecutes(t)
      PROVE  CookieInv'
  <2>1. /\ req[t] \in ReqType /\ req[t].pc \in {"sent", "read"}
        /\ rows' = rows /\ cookie' = cookie /\ lost' = lost /\ crossed' = crossed
    BY <1>2, <1>7 DEF Reads, ReuseExecutes
  <2>2. PICK r \in ReqType : req' = [req EXCEPT ![t] = r]
    BY <1>1, <1>7, ReqOfTab
  <2>3. req'[t] = r
    BY <1>2, <2>2
  <2>4. req'[t].pc \in {"read", "executed"}
    BY <1>2, <1>7, <2>1 DEF Reads, ReuseExecutes, ReqType
  <2>5. NoRotation
    BY <2>1, NoRotationOfOthers
  <2>6. req[t] # Idle /\ r # Idle
    BY <2>1, <2>3, <2>4 DEF Idle
  <2> QED
    BY <1>1, <2>1, <2>2, <2>3, <2>4, <2>5, <2>6, CookieBusyStep
<1>8. ASSUME NEW t \in Tab, ReuseCommits(t) \/ OneCommits(t) \/ LoginCommits(t)
      PROVE  CookieInv'
  <2>1. /\ req[t] \in ReqType /\ req[t].pc \in {"sent", "read", "executed"}
        /\ cookie' = cookie /\ lost' = lost /\ crossed' = crossed
    BY <1>2, <1>8 DEF ReuseCommits, OneCommits, LoginCommits
  <2> DEFINE id == IF LoginCommits(t) THEN Len(rows) + 1 ELSE 0
             r == AnsweredReq(req[t], id)
  <2>2. req' = [req EXCEPT ![t] = r]
    BY <1>8 DEF ReuseCommits, OneCommits, LoginCommits, Answered, AnsweredReq
  <2>3. r \in ReqType /\ r.pc = "answered" /\ r.answer = id
    <3>1. id \in Nat
      BY <1>2
    <3> HIDE DEF id
    <3> QED
      BY <2>1, <3>1 DEF AnsweredReq, Idle, ReqType, Does
  <2>4. NoRotation
    BY <1>8, NoRotationOfTab
  <2>5. id = 0 \/ rows'[id].cause = "none"
    <3>1. CASE LoginCommits(t)
      <4>1. Session(Len(rows) + 1, FALSE) \in RowType
            /\ Session(Len(rows) + 1, FALSE).cause = "none"
        BY <1>2 DEF Session, RowType, Cause
      <4> QED
        BY <3>1, <4>1, AppendFacts DEF LoginCommits, SessionsInv, SessionsTypeOK
    <3> QED
      BY <3>1
  <2>6. req[t] # Idle /\ r # Idle
    BY <2>1, <2>3 DEF Idle
  <2> HIDE DEF id, r
  <2> QED
    BY <1>1, <2>1, <2>2, <2>3, <2>4, <2>5, <2>6, CookieBusyStep
<1>9. ASSUME NEW t \in Tab, RotateCommits(t)
      PROVE  CookieInv'
  <2> DEFINE r == AnsweredReq(req[t], Len(rows) + 1)
  <2>1. /\ req[t] \in ReqType /\ req[t].pc = "read" /\ req' = [req EXCEPT ![t] = r]
        /\ cookie' = cookie /\ lost' = lost /\ crossed' = crossed
    BY <1>2, <1>9 DEF RotateCommits, Answered, AnsweredReq
  <2>2. r.answer = Len(rows) + 1 /\ r.pc = "answered" /\ r # Idle /\ req[t] # Idle
    <3>1. r.answer = Len(rows) + 1 /\ r.pc = "answered"
      BY DEF AnsweredReq, Idle
    <3> QED
      BY <2>1, <3>1 DEF Idle
  <2>3. rows'[Len(rows) + 1].cause = "none"
    BY <1>9, FreshAfterRotation
  <2> HIDE DEF r
  <2>4. SUFFICES ASSUME ~ lost, ~ crossed
                 PROVE  CookieInv'
    BY <2>1, CookieParts
  <2>5. \A u \in Tab : req'[u] = IF u = t THEN r ELSE Idle
    BY <1>2, <2>1, <2>2, <2>4 DEF CookieInv
  <2> QED
    BY <1>2, <2>1, <2>2, <2>3, <2>5, CookieParts
<1>10. ASSUME \/ \E i \in DOMAIN rows : RevokeOne(i) \/ Expire(i)
              \/ ResetExecutes \/ ResetCommits \/ UNCHANGED sessionVars
       PROVE  CookieInv'
  <2>1. req' = req /\ cookie' = cookie /\ lost' = lost /\ crossed' = crossed
    BY <1>10 DEF RevokeOne, Expire, ResetExecutes, ResetCommits, sessionVars
  <2>2. \/ \E i \in DOMAIN rows : RevokeOne(i) \/ Expire(i)
        \/ ResetCommits \/ rows' = rows
    BY <1>10 DEF ResetExecutes, sessionVars
  <2> QED
    BY <1>3, <2>1, <2>2, NoRotationOfOthers
<1> QED
  BY <1>4, <1>5, <1>6, <1>7, <1>8, <1>9, <1>10 DEF SessionsNext

\* web/src/services/api.ts and rotate_refresh_session: a browser that lost no
\* answer and asked one thing at a time holds the last session of its rotation,
\* whatever the user, an administrator or the clock does to its sessions.
THEOREM CookieKeepsUp == SessionsSpec => []CookieCurrent
<1>1. SessionsInit => SessionsInv /\ CookieInv
  <2>1. SessionsInit => CookieInv
    BY DEF SessionsInit, CookieInv, Presentable
  <2> QED
    BY <2>1, InitKeeps
<1>2. SessionsInv /\ CookieInv /\ [SessionsNext]_sessionVars => SessionsInv' /\ CookieInv'
  BY StepKeeps, CookieStep
<1>3. CookieInv => CookieCurrent
  BY DEF CookieInv, CookieCurrent, Presentable
<1> QED
  BY <1>1, <1>2, <1>3, PTL DEF SessionsSpec

-----------------------------------------------------------------------------
(* Members and organizations *)

\* The roles of a member are of its organization, and those asked for unless
\* two updates overlapped.
MemberFits(m, r) ==
  /\ {"active", "roles", "asked", "raced"} \subseteq DOMAIN r
  /\ Granted(r) = r.asked \/ r.raced
  /\ \A x \in Granted(r) : x[1] = m[1]

\* A request that replaces roles does so for members of its organization, and
\* with roles of it; one that replaces permissions, for a role of it.
RequestFits(r) ==
  /\ {"pc", "org", "admin", "codes", "target", "asked", "seen"} \subseteq DOMAIN r
  /\ r.pc = "executed" =>
       /\ \A m \in r.target : m[1] = r.org
       /\ \A x \in r.asked : x[1] = r.org
  /\ r.pc = "deleted" => \A x \in r.target : x[1] = r.org

AccessInv ==
  /\ DOMAIN request = Client
  /\ \A c \in Client : RequestFits(request[c])
  /\ \A m \in DOMAIN members : MemberFits(m, members[m])
  /\ \A k \in DOMAIN keys : {"org", "revoked"} \subseteq DOMAIN keys[k]

-----------------------------------------------------------------------------
LEMMA NoneFits == RequestFits(None) /\ None.pc = "none"
BY DEF RequestFits, None

\* What a change of one row leaves of the rows of an organization o.
LEMMA RowsApart ==
  ASSUME NEW f, NEW g, NEW o, NEW S,
         \A y \in S : y[1] # o,
         DOMAIN g \subseteq DOMAIN f \cup S, DOMAIN f \subseteq DOMAIN g,
         \A y \in DOMAIN f : y \notin S => g[y] = f[y]
  PROVE  {<<x, g[x]>> : x \in {y \in DOMAIN g : y[1] = o}}
           = {<<x, f[x]>> : x \in {y \in DOMAIN f : y[1] = o}}
<1>1. {y \in DOMAIN g : y[1] = o} = {y \in DOMAIN f : y[1] = o}
  OBVIOUS
<1>2. \A x \in {y \in DOMAIN f : y[1] = o} : g[x] = f[x]
  OBVIOUS
<1> QED
  BY <1>1, <1>2

RolesOf(o) == {<<x, roles[x]>> : x \in {y \in DOMAIN roles : y[1] = o}}
MembersOf(o) == {<<m, members[m]>> : m \in {n \in DOMAIN members : n[1] = o}}
KeysOf(o) == {<<k, keys[k]>> : k \in {j \in DOMAIN keys : keys[j].org = o}}
SettingsOf(o) == {s \in settings : s[1] = o}

LEMMA OfIs == ASSUME NEW o PROVE Of(o) = <<RolesOf(o), MembersOf(o), KeysOf(o), SettingsOf(o)>>
BY DEF Of, RolesOf, MembersOf, KeysOf, SettingsOf

LEMMA StampedRoles ==
  ASSUME NEW given, NEW n
  PROVE  {s[1] : s \in Stamped(given, n)} = given
<1>1. \A x \in given : <<x, n>> \in Stamped(given, n) /\ <<x, n>>[1] = x
  BY DEF Stamped
<1>2. \A s \in Stamped(given, n) : s[1] \in given
  BY DEF Stamped
<1> HIDE DEF Stamped
<1>3. given \subseteq {s[1] : s \in Stamped(given, n)}
  BY <1>1
<1> QED
  BY <1>2, <1>3

-----------------------------------------------------------------------------
(* One request goes on and no row changes *)

LEMMA BindingStep ==
  ASSUME AccessInv, NEW c \in Client,
         NEW r, RequestFits(r), request' = [request EXCEPT ![c] = r],
         UNCHANGED <<members, keys>>
  PROVE  AccessInv'
BY DEF AccessInv

LEMMA NoChange ==
  ASSUME AccessInv, UNCHANGED <<members, keys>>,
         NEW c \in Client, Done(c)
  PROVE  AccessInv'
BY BindingStep, NoneFits DEF Done

LEMMA MembersStep ==
  ASSUME AccessInv, NEW c \in Client, Done(c), UNCHANGED keys, 
         \A m \in DOMAIN members' : MemberFits(m, members'[m])
  PROVE  AccessInv'
BY NoneFits DEF AccessInv, Done

LEMMA NewMember ==
  ASSUME NEW m, NEW given, NEW n, \A x \in given : x[1] = m[1]
  PROVE  MemberFits(m, Member(given, n))
<1> DEFINE r == Member(given, n)
<1>1. r.roles = Stamped(given, n) /\ r.asked = given
      /\ {"active", "roles", "asked", "raced"} \subseteq DOMAIN r
  BY DEF Member
<1>2. {s[1] : s \in Stamped(given, n)} = given
  BY StampedRoles
<1>3. Granted(r) = given
  BY <1>1, <1>2 DEF Granted
<1> QED
  BY <1>1, <1>3 DEF MemberFits

LEMMA PostMemberStep ==
  ASSUME AccessInv, NEW c \in Client, NEW p, NEW wanted, PostMember(c, p, wanted)
  PROVE  AccessInv'
<1> DEFINE m == <<request[c].org, p>>
           given == IF wanted = {} THEN {<<request[c].org, "Viewer">>} ELSE wanted
<1>1. \A x \in given : x[1] = m[1]
  BY DEF PostMember, OwnRoles
<1>2. MemberFits(m, Member(given, changes + 1))
  BY <1>1, NewMember
<1>3. members' = Put(members, m, Member(given, changes + 1)) /\ Done(c) /\ UNCHANGED keys
  BY DEF PostMember
<1> HIDE DEF m, given
<1>4. \A y \in DOMAIN members' : MemberFits(y, members'[y])
  <2>1. /\ DOMAIN members' = DOMAIN members \cup {m}
        /\ members'[m] = Member(given, changes + 1)
        /\ \A y \in DOMAIN members : y # m => members'[y] = members[y]
    BY <1>3 DEF Put, Extend
  <2> QED
    BY <1>2, <2>1 DEF AccessInv
<1> QED
  BY <1>3, <1>4, MembersStep

LEMMA PatchActiveStep ==
  ASSUME AccessInv, NEW c \in Client, NEW m \in DOMAIN members, PatchActive(c, m)
  PROVE  AccessInv'
<1> DEFINE r == [members[m] EXCEPT !.active = ~ @]
<1>1. members' = [members EXCEPT ![m] = r] /\ Done(c) /\ UNCHANGED keys
  BY DEF PatchActive
<1>2. MemberFits(m, members[m])
  BY DEF AccessInv
<1>3. /\ DOMAIN r = DOMAIN members[m]
      /\ r.roles = members[m].roles /\ r.asked = members[m].asked /\ r.raced = members[m].raced
  BY <1>2 DEF MemberFits
<1> HIDE DEF r
<1>4. MemberFits(m, r)
  BY <1>2, <1>3 DEF MemberFits, Granted
<1>5. \A y \in DOMAIN members' : MemberFits(y, members'[y])
  BY <1>1, <1>4 DEF AccessInv
<1> QED
  BY <1>1, <1>5, MembersStep

\* A replacement: the rows it did not see stay, and if there are none the
\* member has what was asked for.
LEMMA Replacing ==
  ASSUME NEW m, NEW r, MemberFits(m, r), NEW seen, NEW asked, NEW n,
         \A x \in asked : x[1] = m[1],
         NEW s, DOMAIN s = DOMAIN r,
         s.roles = Replaced(r.roles, seen, Stamped(asked, n)),
         s.asked = asked, r.roles \ seen # {} => s.raced
  PROVE  MemberFits(m, s)
<1>1. {x[1] : x \in Stamped(asked, n)} = asked
  BY StampedRoles
<1>2. Granted(s) = {x[1] : x \in r.roles \ seen} \cup asked
  BY <1>1 DEF Granted, Replaced
<1>3. \A x \in Granted(s) : x[1] = m[1]
  BY <1>2 DEF MemberFits, Granted
<1>4. r.roles \ seen = {} => Granted(s) = s.asked
  BY <1>2
<1> QED
  BY <1>3, <1>4 DEF MemberFits

LEMMA PatchRolesStep ==
  ASSUME AccessInv, NEW c \in Client, PatchRolesCommits(c)
  PROVE  AccessInv'
<1>1. PICK m \in request[c].target :
        members' = [members EXCEPT
            ![m].roles = Replaced(@, request[c].seen, Stamped(request[c].asked, changes + 1)),
            ![m].asked = request[c].asked,
            ![m].raced = Unseen(c, m) # {}]
  BY DEF PatchRolesCommits
<1>2. /\ m[1] = request[c].org
      /\ \A x \in request[c].asked : x[1] = request[c].org
  BY DEF AccessInv, RequestFits, PatchRolesCommits
<1>3. Done(c) /\ UNCHANGED keys
  BY DEF PatchRolesCommits
<1>4. ASSUME m \in DOMAIN members PROVE MemberFits(m, members'[m])
  <2> DEFINE s == members'[m]
             old == members[m]
  <2>1. MemberFits(m, old)
    BY <1>4 DEF AccessInv
  <2>2. /\ DOMAIN s = DOMAIN old
        /\ s.roles = Replaced(old.roles, request[c].seen, Stamped(request[c].asked, changes + 1))
        /\ s.asked = request[c].asked
        /\ s.raced = (Unseen(c, m) # {})
    BY <1>1, <1>4, <2>1 DEF MemberFits
  <2>3. old.roles \ request[c].seen # {} => s.raced
    BY <2>2 DEF Unseen
  <2> HIDE DEF s, old
  <2>4. MemberFits(m, s)
    <3>1. \A x \in request[c].asked : x[1] = m[1]
      BY <1>2
    <3> QED
      BY <2>1, <2>2, <2>3, <3>1, Replacing
  <2> QED
    BY <2>4 DEF s
<1>5. \A y \in DOMAIN members' : MemberFits(y, members'[y])
  <2>1. DOMAIN members' = DOMAIN members /\ \A y \in DOMAIN members : y # m => members'[y] = members[y]
    BY <1>1
  <2> QED
    BY <1>4, <2>1 DEF AccessInv
<1> QED
  BY <1>3, <1>5, MembersStep

LEMMA KeysStep ==
  ASSUME AccessInv, NEW c \in Client, NEW k, PostKey(c, k) \/ RevokeKey(c, k)
  PROVE  AccessInv'
<1>1. \A j \in DOMAIN keys' : {"org", "revoked"} \subseteq DOMAIN keys'[j]
  <2>1. CASE PostKey(c, k)
    <3>1. /\ DOMAIN keys' = DOMAIN keys \cup {k}
          /\ keys'[k] = [org |-> request[c].org, revoked |-> FALSE]
          /\ \A j \in DOMAIN keys : j # k => keys'[j] = keys[j]
      BY <2>1 DEF PostKey, Put, Extend
    <3> QED
      BY <3>1 DEF AccessInv
  <2>2. CASE RevokeKey(c, k)
    BY <2>2 DEF RevokeKey, AccessInv
  <2> QED
    BY <2>1, <2>2
<1>2. Done(c) /\ UNCHANGED members
  BY DEF PostKey, RevokeKey
<1> QED
  BY <1>1, <1>2, NoneFits DEF AccessInv, Done

LEMMA OpeningStep ==
  ASSUME AccessInv, NEW c \in Client,
         \/ \E p \in Person, o \in Org : BindUser(c, p, o)
         \/ \E k \in Key : BindKey(c, k)
         \/ Reject(c) \/ PatchRolesFails(c) \/ PatchRoleFails(c)
         \/ \E m, wanted : PatchRolesExecutes(c, m, wanted)
         \/ \E n, codes : PatchRoleExecutes(c, n, codes)
  PROVE  AccessInv'
<1>1. ASSUME NEW o, NEW admin, NEW codes
      PROVE  RequestFits(Bound(o, admin, codes))
  BY DEF RequestFits, Bound, None
<1>2. CASE \E p \in Person, o \in Org : BindUser(c, p, o)
  BY <1>1, <1>2, BindingStep DEF BindUser
<1>3. CASE \E k \in Key : BindKey(c, k)
  BY <1>1, <1>3, BindingStep DEF BindKey
<1>4. CASE Reject(c) \/ PatchRolesFails(c) \/ PatchRoleFails(c)
  BY <1>4, NoneFits, BindingStep DEF Reject, PatchRolesFails, PatchRoleFails
<1>5. ASSUME NEW m, NEW wanted, PatchRolesExecutes(c, m, wanted)
      PROVE  AccessInv'
  <2> DEFINE r == [request[c] EXCEPT !.pc = "executed", !.target = {m},
                                     !.asked = wanted, !.seen = members[m].roles]
  <2>1. RequestFits(request[c])
    BY DEF AccessInv
  <2>2. /\ r.target = {m} /\ r.asked = wanted /\ r.org = request[c].org
        /\ DOMAIN r = DOMAIN request[c]
    BY <2>1 DEF RequestFits
  <2>3. m[1] = request[c].org /\ \A x \in wanted : x[1] = request[c].org
    BY <1>5 DEF PatchRolesExecutes, FoundMember, OwnRoles
  <2>4. request' = [request EXCEPT ![c] = r] /\ UNCHANGED <<members, keys>>
    BY <1>5 DEF PatchRolesExecutes
  <2> HIDE DEF r
  <2>5. RequestFits(r)
    BY <2>1, <2>2, <2>3 DEF RequestFits
  <2> QED
    BY <2>4, <2>5, BindingStep
<1>6. ASSUME NEW n, NEW codes, PatchRoleExecutes(c, n, codes)
      PROVE  AccessInv'
  <2> DEFINE x == <<request[c].org, n>>
             r == [request[c] EXCEPT !.pc = "deleted", !.target = {x},
                                     !.asked = codes, !.seen = roles[x]]
  <2>1. RequestFits(request[c])
    BY DEF AccessInv
  <2>2. /\ r.pc = "deleted" /\ r.target = {x} /\ r.org = request[c].org
        /\ DOMAIN r = DOMAIN request[c]
    BY <2>1 DEF RequestFits
  <2>3. request' = [request EXCEPT ![c] = r] /\ UNCHANGED <<members, keys>>
    BY <1>6 DEF PatchRoleExecutes
  <2>4. x[1] = request[c].org
    OBVIOUS
  <2> HIDE DEF r, x
  <2>5. RequestFits(r)
    BY <2>1, <2>2, <2>4 DEF RequestFits
  <2> QED
    BY <2>3, <2>5, BindingStep
<1> QED
  BY <1>2, <1>3, <1>4, <1>5, <1>6

\* The commit changes what the others have seen, and nothing else of them.
LEMMA RoleCommitStep ==
  ASSUME AccessInv, NEW c \in Client, PatchRoleCommits(c)
  PROVE  AccessInv'
<1>1. DOMAIN request' = Client /\ UNCHANGED <<members, keys>>
  BY DEF PatchRoleCommits
<1>2. ASSUME NEW d \in Client PROVE RequestFits(request'[d])
  <2>1. RequestFits(request[d])
    BY DEF AccessInv
  <2>2. \/ request'[d] = None
        \/ request'[d] = request[d]
        \/ request'[d] = [request[d] EXCEPT !.seen = @ \ request[c].seen]
    BY DEF PatchRoleCommits
  <2>3. ASSUME NEW seen, request'[d] = [request[d] EXCEPT !.seen = seen]
        PROVE  RequestFits(request'[d])
    BY <2>1, <2>3 DEF RequestFits
  <2> QED
    BY <2>1, <2>2, <2>3, NoneFits
<1> QED
  BY <1>1, <1>2 DEF AccessInv

LEMMA AccessStep == AccessInv /\ [AccessNext]_accessVars => AccessInv'
<1> SUFFICES ASSUME AccessInv, [AccessNext]_accessVars PROVE AccessInv'
  OBVIOUS
<1>1. CASE UNCHANGED accessVars
  BY <1>1 DEF accessVars, AccessInv
<1>2. ASSUME NEW c \in Client,
             \/ \E p \in Person, o \in Org : BindUser(c, p, o)
             \/ \E k \in Key : BindKey(c, k)
             \/ Reject(c)
      PROVE  AccessInv'
  BY <1>2, OpeningStep
<1>3. ASSUME NEW c \in Client, Adds(c)
      PROVE  AccessInv'
  <2>1. ASSUME NEW o \in Org, PostOrganization(c, o) PROVE AccessInv'
    BY <2>1, NoChange DEF PostOrganization
  <2>2. ASSUME NEW n, NEW codes, PostRole(c, n, codes) PROVE AccessInv'
    BY <2>2, NoChange DEF PostRole
  <2>3. ASSUME NEW key, PutSetting(c, key) PROVE AccessInv'
    BY <2>3, NoChange DEF PutSetting
  <2> QED
    BY <1>3, <2>1, <2>2, <2>3, PostMemberStep, KeysStep DEF Adds
<1>4. ASSUME NEW c \in Client, Changes(c)
      PROVE  AccessInv'
  BY <1>4, KeysStep, PatchActiveStep, PatchRolesStep, RoleCommitStep, OpeningStep DEF Changes
<1> QED
  BY <1>1, <1>2, <1>3, <1>4 DEF AccessNext

LEMMA AccessStart == AccessInit => AccessInv
<1> SUFFICES ASSUME AccessInit PROVE AccessInv
  OBVIOUS
<1>1. \A c \in Client : RequestFits(request[c])
  BY NoneFits DEF AccessInit
<1>2. MemberFits(<<Home, Root>>, Member({<<Home, "Administrator">>}, 0))
  BY NewMember
<1>3. \A m \in DOMAIN members : MemberFits(m, members[m])
  BY <1>2 DEF AccessInit
<1>4. DOMAIN request = Client /\ DOMAIN keys = {}
  BY DEF AccessInit
<1> QED
  BY <1>1, <1>3, <1>4 DEF AccessInv

\* membership_roles, whatever updates of patch_member overlap: a member has the
\* roles the last update asked for unless another one overlapped it, and never
\* a role of another organization.
THEOREM RolesKept == AccessSpec => []RolesAsAsked
<1>1. AccessInv => RolesAsAsked
  BY DEF AccessInv, MemberFits, RolesAsAsked
<1> QED
  BY <1>1, AccessStart, AccessStep, PTL DEF AccessSpec

-----------------------------------------------------------------------------
(* Tenants *)

\* A change by a request leaves what the other organizations own.
Elsewhere(o) ==
  /\ RolesOf(o)' = RolesOf(o) /\ MembersOf(o)' = MembersOf(o)
  /\ KeysOf(o)' = KeysOf(o) /\ SettingsOf(o)' = SettingsOf(o)

LEMMA RolesApart ==
  ASSUME NEW o, NEW S, \A y \in S : y[1] # o,
         DOMAIN roles' \subseteq DOMAIN roles \cup S, DOMAIN roles \subseteq DOMAIN roles',
         \A y \in DOMAIN roles : y \notin S => roles'[y] = roles[y]
  PROVE  RolesOf(o)' = RolesOf(o)
BY RowsApart DEF RolesOf

LEMMA MembersApart ==
  ASSUME NEW o, NEW m, m[1] # o,
         DOMAIN members' \subseteq DOMAIN members \cup {m}, DOMAIN members \subseteq DOMAIN members',
         \A y \in DOMAIN members : y # m => members'[y] = members[y]
  PROVE  MembersOf(o)' = MembersOf(o)
<1> DEFINE S == {m}
<1>1. \A y \in S : y[1] # o
  OBVIOUS
<1> QED
  BY <1>1, RowsApart DEF MembersOf

LEMMA AddsApart ==
  ASSUME NEW c \in Client, Adds(c), NEW o \in orgs, o # request[c].org
  PROVE  Elsewhere(o)
<1>1. ASSUME NEW n \in Org, PostOrganization(c, n) PROVE Elsewhere(o)
  <2> DEFINE S == DOMAIN SystemRolesOf(n)
  <2>1. \A y \in S : y[1] # o
    BY <1>1 DEF PostOrganization, SystemRolesOf
  <2>2. /\ DOMAIN roles' = DOMAIN roles \cup S
        /\ \A y \in DOMAIN roles : y \notin S => roles'[y] = roles[y]
    BY <1>1 DEF PostOrganization, Extend
  <2> HIDE DEF S
  <2>3. RolesOf(o)' = RolesOf(o)
    BY <2>1, <2>2, RolesApart
  <2> QED
    BY <1>1, <2>3 DEF PostOrganization, Elsewhere, MembersOf, KeysOf, SettingsOf
<1>2. ASSUME NEW p, NEW wanted, PostMember(c, p, wanted) PROVE Elsewhere(o)
  <2> DEFINE m == <<request[c].org, p>>
  <2>1. /\ DOMAIN members' = DOMAIN members \cup {m}
        /\ \A y \in DOMAIN members : y # m => members'[y] = members[y]
    BY <1>2 DEF PostMember, Put, Extend
  <2>2. m[1] # o
    OBVIOUS
  <2> HIDE DEF m
  <2>3. MembersOf(o)' = MembersOf(o)
    BY <2>1, <2>2, MembersApart
  <2> QED
    BY <1>2, <2>3 DEF PostMember, Elsewhere, RolesOf, KeysOf, SettingsOf
<1>3. ASSUME NEW n, NEW codes, PostRole(c, n, codes) PROVE Elsewhere(o)
  <2> DEFINE S == {<<request[c].org, n>>}
  <2>1. \A y \in S : y[1] # o
    OBVIOUS
  <2>2. /\ DOMAIN roles' = DOMAIN roles \cup S
        /\ \A y \in DOMAIN roles : y \notin S => roles'[y] = roles[y]
    BY <1>3 DEF PostRole, Put, Extend
  <2> HIDE DEF S
  <2>3. RolesOf(o)' = RolesOf(o)
    BY <2>1, <2>2, RolesApart
  <2> QED
    BY <1>3, <2>3 DEF PostRole, Elsewhere, MembersOf, KeysOf, SettingsOf
<1>4. ASSUME NEW k, PostKey(c, k) PROVE Elsewhere(o)
  <2>1. /\ DOMAIN keys' = DOMAIN keys \cup {k} /\ k \notin DOMAIN keys
        /\ keys'[k].org = request[c].org
        /\ \A j \in DOMAIN keys : j # k => keys'[j] = keys[j]
    BY <1>4 DEF PostKey, Put, Extend
  <2>2. KeysOf(o)' = KeysOf(o)
    BY <2>1 DEF KeysOf
  <2> QED
    BY <1>4, <2>2 DEF PostKey, Elsewhere, RolesOf, MembersOf, SettingsOf
<1>5. ASSUME NEW key, PutSetting(c, key) PROVE Elsewhere(o)
  BY <1>5 DEF PutSetting, Elsewhere, RolesOf, MembersOf, KeysOf, SettingsOf
<1> QED
  BY <1>1, <1>2, <1>3, <1>4, <1>5 DEF Adds

LEMMA ChangesApart ==
  ASSUME AccessInv, NEW c \in Client, Changes(c), NEW o, o # request[c].org
  PROVE  Elsewhere(o)
<1>1. ASSUME NEW k, RevokeKey(c, k) PROVE Elsewhere(o)
  <2>1. /\ DOMAIN keys' = DOMAIN keys /\ k \in DOMAIN keys
        /\ keys[k].org # o /\ keys'[k].org # o
        /\ \A j \in DOMAIN keys : j # k => keys'[j] = keys[j]
    BY <1>1 DEF RevokeKey, AccessInv
  <2>2. KeysOf(o)' = KeysOf(o)
    BY <2>1 DEF KeysOf
  <2> QED
    BY <1>1, <2>2 DEF RevokeKey, Elsewhere, RolesOf, MembersOf, SettingsOf
<1>2. ASSUME NEW m, PatchActive(c, m) PROVE Elsewhere(o)
  <2>1. /\ m[1] # o /\ DOMAIN members' = DOMAIN members
        /\ \A y \in DOMAIN members : y # m => members'[y] = members[y]
    BY <1>2 DEF PatchActive, FoundMember
  <2>2. MembersOf(o)' = MembersOf(o)
    BY <2>1, MembersApart
  <2> QED
    BY <1>2, <2>2 DEF PatchActive, Elsewhere, RolesOf, KeysOf, SettingsOf
<1>3. ASSUME PatchRolesCommits(c) PROVE Elsewhere(o)
  <2>1. PICK m \in request[c].target :
          /\ DOMAIN members' = DOMAIN members
          /\ \A y \in DOMAIN members : y # m => members'[y] = members[y]
    BY <1>3 DEF PatchRolesCommits
  <2>2. m[1] # o
    BY <1>3 DEF PatchRolesCommits, AccessInv, RequestFits
  <2>3. MembersOf(o)' = MembersOf(o)
    BY <2>1, <2>2, MembersApart
  <2> QED
    BY <1>3, <2>3 DEF PatchRolesCommits, Elsewhere, RolesOf, KeysOf, SettingsOf
<1>4. ASSUME PatchRoleCommits(c) PROVE Elsewhere(o)
  <2>1. PICK x \in request[c].target :
          /\ DOMAIN roles' = DOMAIN roles
          /\ \A y \in DOMAIN roles : y # x => roles'[y] = roles[y]
    BY <1>4 DEF PatchRoleCommits
  <2>2. x[1] # o
    BY <1>4 DEF PatchRoleCommits, AccessInv, RequestFits
  <2> DEFINE S == {x}
  <2>3. /\ \A y \in S : y[1] # o
        /\ \A y \in DOMAIN roles : y \notin S => roles'[y] = roles[y]
        /\ DOMAIN roles' \subseteq DOMAIN roles \cup S /\ DOMAIN roles \subseteq DOMAIN roles'
    BY <2>1, <2>2
  <2> HIDE DEF S
  <2>4. RolesOf(o)' = RolesOf(o)
    BY <2>3, RolesApart
  <2> QED
    BY <1>4, <2>4 DEF PatchRoleCommits, Elsewhere, MembersOf, KeysOf, SettingsOf
<1>5. ASSUME \/ PatchRolesFails(c) \/ PatchRoleFails(c)
             \/ \E m, wanted : PatchRolesExecutes(c, m, wanted)
             \/ \E n, codes : PatchRoleExecutes(c, n, codes)
      PROVE  Elsewhere(o)
  <2>1. UNCHANGED <<roles, members, keys, settings>>
    BY <1>5 DEF PatchRolesFails, PatchRoleFails, PatchRolesExecutes, PatchRoleExecutes
  <2> QED
    BY <2>1 DEF Elsewhere, RolesOf, MembersOf, KeysOf, SettingsOf
<1> QED
  BY <1>1, <1>2, <1>3, <1>4, <1>5 DEF Changes

\* Only a step that ends a request changes what somebody owns.
LEMMA OnlyAtTheEnd ==
  ASSUME AccessInv, NEW c \in Client, Adds(c) \/ Changes(c), NEW o, ~ Elsewhere(o)
  PROVE  request[c] # None /\ request'[c] = None
<1>1. request[c].pc \in {"bound", "executed", "deleted"}
  BY DEF Adds, Changes, PostOrganization, PostMember, PostRole, PostKey, PutSetting, RevokeKey,
         PatchActive, PatchRolesExecutes, PatchRolesCommits, PatchRolesFails,
         PatchRoleExecutes, PatchRoleCommits, PatchRoleFails, May
<1>2. /\ ~ \E m, wanted : PatchRolesExecutes(c, m, wanted)
      /\ ~ \E n, codes : PatchRoleExecutes(c, n, codes)
  BY DEF PatchRolesExecutes, PatchRoleExecutes, Elsewhere, RolesOf, MembersOf, KeysOf, SettingsOf
<1>3. CASE PatchRoleCommits(c)
  <2>1. request'[c] = None
    BY <1>3 DEF PatchRoleCommits
  <2> QED
    BY <1>1, <2>1, NoneFits
<1>4. CASE ~ PatchRoleCommits(c)
  <2>1. Done(c) \/ request' = [request EXCEPT ![c] = None]
    BY <1>2, <1>4
       DEF Adds, Changes, PostOrganization, PostMember, PostRole, PostKey, PutSetting, RevokeKey,
           PatchActive, PatchRolesCommits, PatchRolesFails, PatchRoleFails
  <2>2. request'[c] = None
    BY <2>1 DEF AccessInv, Done
  <2> QED
    BY <1>1, <2>2, NoneFits
<1> QED
  BY <1>3, <1>4

\* bind_organization and the lookups of admin_routes.py: what an organization
\* owns changes only by a request bound to it, or when it is provisioned.
THEOREM TenantsStayApart == AccessSpec => TenantsApart
<1>1. AccessInv /\ [AccessNext]_accessVars =>
        [\A o \in Org : Of(o)' # Of(o) =>
           \E c \in Client : request[c] # None /\ request'[c] = None
                             /\ (request[c].org = o \/ o \notin orgs)]_accessVars
  <2> SUFFICES ASSUME AccessInv, NEW c \in Client,
                      \/ \E p \in Person, q \in Org : BindUser(c, p, q)
                      \/ \E k \in Key : BindKey(c, k)
                      \/ Reject(c) \/ Adds(c) \/ Changes(c),
                      NEW o \in Org, Of(o)' # Of(o)
               PROVE  request[c] # None /\ request'[c] = None
                      /\ (request[c].org = o \/ o \notin orgs)
    BY DEF AccessNext
  <2>1. ~ Elsewhere(o)
    BY OfIs DEF Elsewhere, Of, RolesOf, MembersOf, KeysOf, SettingsOf
  <2>2. Adds(c) \/ Changes(c)
    BY <2>1 DEF BindUser, BindKey, Reject, Elsewhere, RolesOf, MembersOf, KeysOf, SettingsOf
  <2> QED
    BY <2>1, <2>2, OnlyAtTheEnd, AddsApart, ChangesApart
<1> QED
  BY <1>1, AccessStart, AccessStep, PTL DEF AccessSpec, TenantsApart

-----------------------------------------------------------------------------
(* Skills                                                                    *)

\* Clean, of skills that are in a store.
Fits(skills, store, scans) ==
  \A s \in skills : s \in DOMAIN store /\ s \in scans /\ Verdict(store[s]) # "block"

BoundInv ==
  /\ DOMAIN bound = AgentVersion
  /\ \A v \in AgentVersion :
       Fits(bound[v], catalog, scanned) /\ (v \in torn \/ Coherent(bound[v], catalog))

\* What a replacement of bindings is about to bind has been validated, and a
\* run that is being created is of an agent version.
Ready(r, store, scans) ==
  /\ "pc" \in DOMAIN r
  /\ r.pc \in {"asked", "validated", "deleted"} => {"of", "wanted", "seen"} \subseteq DOMAIN r
  /\ r.pc \in {"validated", "deleted"} =>
       Fits(r.wanted, store, scans) /\ Coherent(r.wanted, store)
  /\ r.pc \in Reading => "candidate" \in DOMAIN r /\ r.candidate \in AgentVersion

PendingInv ==
  /\ DOMAIN pending = Editor
  /\ \A c \in Editor : Ready(pending[c], catalog, scanned)

\* A run has a candidate, and none of its skills blocks newly.
Judged(run) ==
  /\ "regression" \in DOMAIN run /\ run.candidate \in AgentVersion
  /\ \A g \in run.regression : g.block = {}

RunsInv == \A r \in DOMAIN runs : Judged(runs[r])

SkillsInv == BoundInv /\ PendingInv /\ RunsInv

-----------------------------------------------------------------------------
(* Skills that are added or scanned leave the others what they were *)

LEMMA FitsStay ==
  ASSUME NEW skills, NEW a, NEW b, NEW p, NEW q,
         \A s \in DOMAIN a : s \in DOMAIN b /\ b[s] = a[s], p \subseteq q,
         Fits(skills, a, p)
  PROVE  Fits(skills, b, q) /\ (Coherent(skills, a) => Coherent(skills, b))
<1>1. Fits(skills, b, q)
  BY DEF Fits
<1>2. \A s \in skills : b[s] = a[s]
  BY DEF Fits
<1>3. ASSUME Coherent(skills, a)
      PROVE  Coherent(skills, b)
  <2>1. Cardinality(skills) > 1 => \A s \in skills : WellFormed(b[s])
    BY <1>2, <1>3 DEF Coherent
  <2>2. Disjoint(skills, b)
    BY <1>2, <1>3 DEF Coherent, Disjoint
  <2>3. \A s \in skills : /\ b[s].conflicts \cap Names(skills) = {}
                          /\ \A d \in b[s].needs : Satisfied(d, skills, b)
    BY <1>2, <1>3 DEF Coherent, Satisfied
  <2> QED
    BY <2>1, <2>2, <2>3 DEF Coherent
<1> QED
  BY <1>1, <1>3

LEMMA StoreGrows ==
  ASSUME SkillsInv,
         \A s \in DOMAIN catalog : s \in DOMAIN catalog' /\ catalog'[s] = catalog[s],
         scanned \subseteq scanned', UNCHANGED <<bound, torn, runs, pending>>
  PROVE  SkillsInv'
<1>1. \A skills : Fits(skills, catalog, scanned) =>
        Fits(skills, catalog', scanned') /\ (Coherent(skills, catalog) => Coherent(skills, catalog'))
  BY FitsStay
<1>2. BoundInv'
  BY <1>1 DEF SkillsInv, BoundInv
<1>3. PendingInv'
  <2>1. ASSUME NEW r, Ready(r, catalog, scanned)
        PROVE  Ready(r, catalog', scanned')
    BY <1>1, <2>1 DEF Ready
  <2> QED
    BY <2>1 DEF SkillsInv, PendingInv
<1>4. RunsInv'
  BY DEF SkillsInv, RunsInv
<1> QED
  BY <1>2, <1>3, <1>4 DEF SkillsInv

-----------------------------------------------------------------------------
(* One request goes on *)

LEMMA RequestGoesOn ==
  ASSUME SkillsInv, NEW c \in Editor, NEW r, Becomes(c, r), Ready(r, catalog, scanned),
         UNCHANGED <<catalog, scanned, bound, torn, runs>>
  PROVE  SkillsInv'
<1>1. BoundInv' /\ RunsInv'
  BY DEF SkillsInv, BoundInv, RunsInv
<1>2. PendingInv'
  BY DEF SkillsInv, PendingInv, Becomes
<1> QED
  BY <1>1, <1>2 DEF SkillsInv

LEMMA RequestStep ==
  ASSUME SkillsInv, NEW c \in Editor,
         \/ \E v \in AgentVersion : PutBindings(c, v) \/ Attach(c, v)
         \/ Validates(c) \/ Deletes(c) \/ EditFails(c)
         \/ \E b, v \in AgentVersion : RunReads(c, b, v)
         \/ RunCovers(c)
  PROVE  SkillsInv'
<1>1. Ready(pending[c], catalog, scanned)
  BY DEF SkillsInv, PendingInv
<1>2. Ready([pc |-> "idle"], catalog, scanned)
  BY DEF Ready, Reading
<1>3. ASSUME NEW v, NEW wanted, Asks(c, v, wanted)
      PROVE  SkillsInv'
  <2> DEFINE r == [pc |-> "asked", of |-> v, wanted |-> wanted, seen |-> {}]
  <2>1. Ready(r, catalog, scanned)
    BY DEF Ready, Reading
  <2> QED
    BY <1>3, <2>1, RequestGoesOn DEF Asks
<1>4. CASE Validates(c)
  <2> DEFINE r == [pending[c] EXCEPT !.pc = "validated"]
  <2>1. CASE Acceptable(pending[c].of, pending[c].wanted)
    <3>1. Fits(pending[c].wanted, catalog, scanned) /\ Coherent(pending[c].wanted, catalog)
      BY <2>1 DEF Acceptable, Clean, Fits
    <3>2. /\ r.pc = "validated" /\ r.wanted = pending[c].wanted
          /\ {"pc", "of", "wanted", "seen"} \subseteq DOMAIN r
      BY <1>1, <1>4 DEF Validates, Ready
    <3>3. Ready(r, catalog, scanned)
      BY <3>1, <3>2 DEF Ready, Reading
    <3> QED
      BY <1>4, <2>1, <3>3, RequestGoesOn DEF Validates
  <2>2. CASE ~ Acceptable(pending[c].of, pending[c].wanted)
    BY <1>2, <1>4, <2>2, RequestGoesOn DEF Validates
  <2> QED
    BY <2>1, <2>2
<1>5. CASE Deletes(c)
  <2> DEFINE r == [pending[c] EXCEPT !.pc = "deleted", !.seen = bound[pending[c].of]]
  <2>1. /\ r.pc = "deleted" /\ r.wanted = pending[c].wanted
        /\ {"pc", "of", "wanted", "seen"} \subseteq DOMAIN r
    BY <1>1, <1>5 DEF Deletes, Ready
  <2>2. Ready(r, catalog, scanned)
    BY <1>1, <1>5, <2>1 DEF Deletes, Ready, Reading
  <2> QED
    BY <1>5, <2>2, RequestGoesOn DEF Deletes
<1>6. CASE EditFails(c)
  BY <1>2, <1>6, RequestGoesOn DEF EditFails
<1>7. ASSUME NEW b \in AgentVersion, NEW v \in AgentVersion, RunReads(c, b, v)
      PROVE  SkillsInv'
  <2> DEFINE r == [pc |-> "read", of |-> {b, v}, baseline |-> b, candidate |-> v,
                   before |-> Snapshot(b), after |-> Snapshot(v),
                   coverage |-> <<0, 0>>, crossed |-> FALSE]
  <2>1. Ready(r, catalog, scanned)
    BY DEF Ready, Reading
  <2> QED
    BY <1>7, <2>1, RequestGoesOn DEF RunReads
<1>8. CASE RunCovers(c)
  <2> DEFINE r == [pending[c] EXCEPT !.pc = "covered",
                                     !.coverage = Coverage(bound[pending[c].candidate])]
  <2>1. /\ r.pc = "covered" /\ r.candidate = pending[c].candidate
        /\ {"pc", "candidate"} \subseteq DOMAIN r
    BY <1>1, <1>8 DEF RunCovers, Ready, Reading
  <2>2. Ready(r, catalog, scanned)
    BY <1>1, <1>8, <2>1 DEF RunCovers, Ready, Reading
  <2> QED
    BY <1>8, <2>2, RequestGoesOn DEF RunCovers
<1> QED
  BY <1>3, <1>4, <1>5, <1>6, <1>7, <1>8 DEF PutBindings, Attach

-----------------------------------------------------------------------------
(* Bindings are replaced, runs are created and judged *)

LEMMA EditStep ==
  ASSUME SkillsInv, NEW c \in Editor, EditCommits(c)
  PROVE  SkillsInv'
<1> DEFINE v == pending[c].of
<1>1. /\ Fits(pending[c].wanted, catalog, scanned)
      /\ Coherent(pending[c].wanted, catalog)
  BY DEF SkillsInv, PendingInv, Ready, EditCommits
<1>2. /\ bound' = [bound EXCEPT ![v] = Kept(c) \cup pending[c].wanted]
      /\ torn' = IF Kept(c) = {} THEN torn \ {v} ELSE torn \cup {v}
      /\ UNCHANGED <<catalog, scanned, runs>>
  BY DEF EditCommits
<1>3. v \in AgentVersion => Fits(Kept(c) \cup pending[c].wanted, catalog, scanned)
  BY <1>1 DEF SkillsInv, BoundInv, Fits, Kept
<1>4. Kept(c) = {} => Kept(c) \cup pending[c].wanted = pending[c].wanted
  OBVIOUS
<1> HIDE DEF v
<1>5. BoundInv'
  <2>1. DOMAIN bound' = AgentVersion
    BY <1>2 DEF SkillsInv, BoundInv
  <2>2. ASSUME NEW u \in AgentVersion
        PROVE  Fits(bound'[u], catalog, scanned) /\ (u \in torn' \/ Coherent(bound'[u], catalog))
    <3>1. CASE u = v
      <4>1. bound'[u] = Kept(c) \cup pending[c].wanted
        BY <1>2, <3>1 DEF SkillsInv, BoundInv
      <4> QED
        BY <1>1, <1>2, <1>3, <1>4, <3>1, <4>1
    <3>2. CASE u # v
      <4>1. bound'[u] = bound[u] /\ (u \in torn => u \in torn')
        BY <1>2, <3>2 DEF SkillsInv, BoundInv
      <4> QED
        BY <4>1 DEF SkillsInv, BoundInv
    <3> QED
      BY <3>1, <3>2
  <2> QED
    BY <1>2, <2>1, <2>2 DEF BoundInv
<1>6. PendingInv'
  <2>1. ASSUME NEW r, Ready(r, catalog, scanned), r.pc \in Reading
        PROVE  Ready([r EXCEPT !.crossed = TRUE], catalog, scanned)
    BY <2>1 DEF Ready, Reading
  <2>2. Ready([pc |-> "idle"], catalog, scanned)
    BY DEF Ready, Reading
  <2>3. ASSUME NEW d \in Editor
        PROVE  Ready(pending'[d], catalog, scanned)
    <3>1. Ready(pending[d], catalog, scanned)
      BY DEF SkillsInv, PendingInv
    <3>2. \/ pending'[d] = [pc |-> "idle"]
          \/ pending[d].pc \in Reading /\ pending'[d] = [pending[d] EXCEPT !.crossed = TRUE]
          \/ pending'[d] = pending[d]
      BY DEF EditCommits
    <3> QED
      BY <2>1, <2>2, <3>1, <3>2
  <2>4. DOMAIN pending' = Editor
    BY DEF EditCommits
  <2> QED
    BY <1>2, <2>3, <2>4 DEF PendingInv
<1>7. RunsInv'
  BY <1>2 DEF SkillsInv, RunsInv
<1> QED
  BY <1>5, <1>6, <1>7 DEF SkillsInv

LEMMA CreationStep ==
  ASSUME SkillsInv, NEW c \in Editor, RunCommits(c)
  PROVE  SkillsInv'
<1> DEFINE q == pending[c]
           row == [baseline |-> q.baseline, candidate |-> q.candidate, before |-> q.before,
                   after |-> q.after, coverage |-> q.coverage, regression |-> {},
                   crossed |-> q.crossed \/ Pending(q.of) # {}]
           id == Cardinality(DOMAIN runs) + 1
<1>1. q.candidate \in AgentVersion
  BY DEF SkillsInv, PendingInv, Ready, Reading, RunCommits
<1>2. runs' = [r \in DOMAIN runs \cup {id} |-> IF r = id THEN row ELSE runs[r]]
  BY DEF RunCommits
<1>3. Becomes(c, [pc |-> "idle"]) /\ UNCHANGED <<catalog, scanned, bound, torn>>
  BY DEF RunCommits
<1>4. Judged(row)
  BY <1>1 DEF Judged
<1> HIDE DEF q, row, id
<1>5. RunsInv'
  BY <1>2, <1>4 DEF SkillsInv, RunsInv
<1>6. BoundInv'
  BY <1>3 DEF SkillsInv, BoundInv
<1>7. Ready([pc |-> "idle"], catalog, scanned)
  BY DEF Ready, Reading
<1>8. PendingInv'
  BY <1>3, <1>7 DEF SkillsInv, PendingInv, Becomes
<1> QED
  BY <1>5, <1>6, <1>8 DEF SkillsInv

\* What fits has no finding that blocks, and so none that is new.
LEMMA NothingBlocks ==
  ASSUME NEW baseline, NEW candidate, Fits(candidate, catalog, scanned)
  PROVE  Regression(baseline, candidate).block = {}
<1>1. IsFiniteSet(Blocking)
  <2>1. IsFiniteSet({} \cup {"unrestricted_network"})
    BY FS_EmptySet, FS_AddElement
  <2>2. IsFiniteSet(({} \cup {"unrestricted_network"}) \cup {"unrestricted_filesystem_write"})
    BY <2>1, FS_AddElement
  <2>3. IsFiniteSet((({} \cup {"unrestricted_network"}) \cup {"unrestricted_filesystem_write"})
                    \cup {"high_risk_execution"})
    BY <2>2, FS_AddElement
  <2>4. Blocking = (({} \cup {"unrestricted_network"}) \cup {"unrestricted_filesystem_write"})
                   \cup {"high_risk_execution"}
    BY DEF Blocking
  <2> QED
    BY <2>3, <2>4
<1>2. ASSUME NEW s \in candidate
      PROVE  ~ (Cardinality(Findings(s, "block")) > Cardinality(Before(s, baseline, "block")))
  <2>1. Findings(s, "block") = {}
    BY DEF Fits, Findings, Verdict
  <2>2. Before(s, baseline, "block") \subseteq Blocking
    BY DEF Before, Findings, Blocks
  <2>3. Cardinality(Before(s, baseline, "block")) \in Nat
    BY <1>1, <2>2, FS_Subset, FS_CardinalityType
  <2>4. Cardinality(Findings(s, "block")) = 0
    BY <2>1, FS_EmptySet
  <2> QED
    BY <2>3, <2>4
<1>3. Grown(candidate, baseline, "block") = {}
  BY <1>2 DEF Grown
<1> QED
  BY <1>3 DEF Regression

LEMMA JudgeStep ==
  ASSUME SkillsInv, NEW r \in DOMAIN runs, Judge(r)
  PROVE  SkillsInv'
<1> DEFINE g == Regression(bound[runs[r].baseline], bound[runs[r].candidate])
<1>1. runs[r].candidate \in AgentVersion /\ "regression" \in DOMAIN runs[r]
  BY DEF SkillsInv, RunsInv, Judged
<1>2. Fits(bound[runs[r].candidate], catalog, scanned)
  BY <1>1 DEF SkillsInv, BoundInv
<1>3. g.block = {}
  BY <1>2, NothingBlocks
<1>4. runs' = [runs EXCEPT ![r] = [runs[r] EXCEPT !.regression = {g}]]
  BY DEF Judge
<1> HIDE DEF g
<1>5. Judged([runs[r] EXCEPT !.regression = {g}])
  BY <1>1, <1>3 DEF Judged
<1>6. RunsInv'
  BY <1>4, <1>5 DEF SkillsInv, RunsInv
<1>7. BoundInv' /\ PendingInv'
  BY DEF SkillsInv, BoundInv, PendingInv, Judge
<1> QED
  BY <1>6, <1>7 DEF SkillsInv

-----------------------------------------------------------------------------
LEMMA InitFits ==
  ASSUME SkillsInit
  PROVE  SkillsInv
<1>1. BoundInv
  <2>1. Coherent({}, catalog)
    BY FS_EmptySet DEF Coherent, Disjoint
  <2> QED
    BY <2>1 DEF SkillsInit, BoundInv, Fits
<1>2. PendingInv
  BY DEF SkillsInit, PendingInv, Ready, Reading
<1>3. RunsInv
  BY DEF SkillsInit, RunsInv
<1> QED
  BY <1>1, <1>2, <1>3 DEF SkillsInv

LEMMA SkillsStep ==
  ASSUME SkillsInv, [SkillsNext]_skillVars
  PROVE  SkillsInv'
<1>1. ASSUME NEW u \in Uploads, Import(u)
      PROVE  SkillsInv'
  <2>1. u.skill \notin DOMAIN catalog
    BY <1>1 DEF Import
  <2>2. \A s \in DOMAIN catalog : s \in DOMAIN catalog' /\ catalog'[s] = catalog[s]
    BY <1>1, <2>1 DEF Import
  <2> QED
    BY <1>1, <2>2, StoreGrows DEF Import
<1>2. ASSUME NEW s \in Skill, Scan(s)
      PROVE  SkillsInv'
  BY <1>2, StoreGrows DEF Scan
<1>3. ASSUME NEW c \in Editor,
             \/ \E v \in AgentVersion : PutBindings(c, v) \/ Attach(c, v)
             \/ Validates(c) \/ Deletes(c) \/ EditCommits(c) \/ EditFails(c)
             \/ \E b, v \in AgentVersion : RunReads(c, b, v)
             \/ RunCovers(c) \/ RunCommits(c)
      PROVE  SkillsInv'
  BY <1>3, RequestStep, EditStep, CreationStep
<1>4. ASSUME NEW r \in DOMAIN runs, Judge(r)
      PROVE  SkillsInv'
  BY <1>4, JudgeStep
<1>5. CASE UNCHANGED skillVars
  BY <1>5, StoreGrows DEF skillVars
<1> QED
  BY <1>1, <1>2, <1>3, <1>4, <1>5 DEF SkillsNext

\* agent_version_skills, whatever imports, scans, replacements and runs overlap:
\* what is bound was scanned and does not block, no run is judged with a new
\* finding that blocks, and what is bound satisfies every rule unless its rows
\* are of two replacements.
THEOREM BindingsFit == SkillsSpec => []BoundFit
<1>1. SkillsInit => SkillsInv
  BY InitFits
<1>2. SkillsInv /\ [SkillsNext]_skillVars => SkillsInv'
  BY SkillsStep
<1>3. SkillsInv => BoundFit
  BY DEF SkillsInv, BoundInv, RunsInv, Judged, Fits, BoundFit, Clean
<1> QED
  BY <1>1, <1>2, <1>3, PTL DEF SkillsSpec

-----------------------------------------------------------------------------
(* What is frozen, as functions of the bindings, the store and the scans *)

SnapOf(skills, store, scans) ==
  {[skill |-> s, sha |-> store[s].sha,
    scan |-> IF s \in scans THEN Verdict(store[s]) ELSE "none"] : s \in skills}

ReqOf(skills, store) ==
  {<<side, s>> : side \in {"required", "forbidden"}, s \in skills}
    \cup UNION {{<<"dependency", s[1], d.name>> : d \in store[s].needs} : s \in LastOfName(skills)}
    \cup UNION {{<<"conflict", {s[1], n}>> : n \in store[s].conflicts} : s \in LastOfName(skills)}

CovOf(skills, store) ==
  <<Cardinality({q \in ReqOf(skills, store) : Covered(q)}), Cardinality(ReqOf(skills, store))>>

FindOf(s, level, store, scans) ==
  IF s \notin scans THEN {}
  ELSE IF level = "block" THEN Blocks(store[s]) ELSE Warnings(store[s])

GrownOf(candidate, baseline, level, store, scans) ==
  {s \in candidate :
     Cardinality(FindOf(s, level, store, scans))
       > Cardinality(UNION {FindOf(t, level, store, scans) :
                              t \in {u \in LastOfName(baseline) : u[1] = s[1]}})}

RegOf(baseline, candidate, store, scans) ==
  [block |-> GrownOf(candidate, baseline, "block", store, scans),
   warn |-> GrownOf(candidate, baseline, "warn", store, scans)]

LEMMA AsFunctions ==
  /\ \A v : Snapshot(v) = SnapOf(bound[v], catalog, scanned)
  /\ \A skills : Coverage(skills) = CovOf(skills, catalog)
  /\ \A b, c : Regression(b, c) = RegOf(b, c, catalog, scanned)
<1>1. \A v : Snapshot(v) = SnapOf(bound[v], catalog, scanned)
  BY DEF Snapshot, SnapOf
<1>2. ASSUME NEW skills
      PROVE  Coverage(skills) = CovOf(skills, catalog)
  <2>1. Requirements(skills) = ReqOf(skills, catalog)
    BY DEF Requirements, ReqOf
  <2> QED
    BY <2>1 DEF Coverage, CovOf
<1>3. ASSUME NEW b, NEW c
      PROVE  Regression(b, c) = RegOf(b, c, catalog, scanned)
  <2>1. \A s, level : Findings(s, level) = FindOf(s, level, catalog, scanned)
    BY DEF Findings, FindOf
  <2>2. \A level : Grown(c, b, level) = GrownOf(c, b, level, catalog, scanned)
    BY <2>1 DEF Grown, Before, GrownOf
  <2> QED
    BY <2>2 DEF Regression, RegOf
<1> QED
  BY <1>1, <1>2, <1>3

LEMMA LastAreSkills == ASSUME NEW skills PROVE LastOfName(skills) \subseteq skills
BY DEF LastOfName

\* They depend on the bound skills alone, and these have been scanned.
LEMMA SnapStays ==
  ASSUME NEW skills, NEW a, NEW b, NEW p, NEW q,
         \A s \in skills : b[s] = a[s] /\ s \in p /\ s \in q
  PROVE  SnapOf(skills, b, q) = SnapOf(skills, a, p)
BY DEF SnapOf

LEMMA CovStays ==
  ASSUME NEW skills, NEW a, NEW b, \A s \in skills : b[s] = a[s]
  PROVE  CovOf(skills, b) = CovOf(skills, a)
<1>1. \A s \in LastOfName(skills) : b[s] = a[s]
  BY LastAreSkills
<1>2. ReqOf(skills, b) = ReqOf(skills, a)
  BY <1>1 DEF ReqOf
<1> QED
  BY <1>2 DEF CovOf

LEMMA RegStays ==
  ASSUME NEW baseline, NEW candidate, NEW a, NEW b, NEW p, NEW q,
         \A s \in baseline \cup candidate : b[s] = a[s] /\ s \in p /\ s \in q
  PROVE  RegOf(baseline, candidate, b, q) = RegOf(baseline, candidate, a, p)
<1>1. \A s \in baseline \cup candidate : \A level :
        FindOf(s, level, b, q) = FindOf(s, level, a, p)
  BY DEF FindOf
<1>2. ASSUME NEW level
      PROVE  GrownOf(candidate, baseline, level, b, q) = GrownOf(candidate, baseline, level, a, p)
  <2>1. ASSUME NEW s \in candidate
        PROVE  /\ FindOf(s, level, b, q) = FindOf(s, level, a, p)
               /\ {FindOf(t, level, b, q) : t \in {u \in LastOfName(baseline) : u[1] = s[1]}}
                    = {FindOf(t, level, a, p) : t \in {u \in LastOfName(baseline) : u[1] = s[1]}}
    BY <1>1, LastAreSkills
  <2> QED
    BY <2>1 DEF GrownOf
<1> QED
  BY <1>2 DEF RegOf

LEMMA SnapSkills ==
  ASSUME NEW skills, NEW store, NEW scans
  PROVE  {e.skill : e \in SnapOf(skills, store, scans)} = skills
<1> DEFINE Row(s) == [skill |-> s, sha |-> store[s].sha,
                      scan |-> IF s \in scans THEN Verdict(store[s]) ELSE "none"]
<1>1. SnapOf(skills, store, scans) = {Row(s) : s \in skills}
  BY DEF SnapOf
<1>2. \A s \in skills : Row(s).skill = s
  OBVIOUS
<1> HIDE DEF Row
<1> QED
  BY <1>1, <1>2

-----------------------------------------------------------------------------
(* A request that reads, and a run, have what is bound, or were crossed *)

Fields == {"baseline", "candidate", "before", "after", "coverage", "crossed"}

Named(x) == Fields \subseteq DOMAIN x /\ x.baseline \in AgentVersion /\ x.candidate \in AgentVersion

Snapped(x, bnd, store, scans) ==
  /\ x.before = SnapOf(bnd[x.baseline], store, scans)
  /\ x.after = SnapOf(bnd[x.candidate], store, scans)

ReaderFits(x, bnd, store, scans) ==
  x.pc \in Reading =>
    /\ Named(x) /\ "of" \in DOMAIN x /\ x.of = {x.baseline, x.candidate}
    /\ ~ x.crossed => Snapped(x, bnd, store, scans)
    /\ ~ x.crossed /\ x.pc = "covered" => x.coverage = CovOf(bnd[x.candidate], store)

\* No replacement that was validated is under way for the versions of a run.
Untouched(x, requests) ==
  \A d \in Editor : requests[d].pc \in {"validated", "deleted"} =>
    requests[d].of \notin {x.baseline, x.candidate}

RunFits(x, bnd, store, scans) ==
  /\ Snapped(x, bnd, store, scans)
  /\ x.coverage = CovOf(bnd[x.candidate], store)
  /\ x.regression \subseteq {RegOf(bnd[x.baseline], bnd[x.candidate], store, scans)}

FrozenRun(x, bnd, store, scans, requests) ==
  /\ Named(x) /\ "regression" \in DOMAIN x
  /\ ~ x.crossed => RunFits(x, bnd, store, scans) /\ Untouched(x, requests)

FrozenInv ==
  /\ SkillsInv
  /\ \A c \in Editor : ReaderFits(pending[c], bound, catalog, scanned)
  /\ \A r \in DOMAIN runs : FrozenRun(runs[r], bound, catalog, scanned, pending)

\* Bindings and a store that agree on what x is about.
LEMMA FitsAgree ==
  ASSUME NEW x, Named(x), NEW f, NEW g, NEW a, NEW b, NEW p, NEW q,
         \A v \in {x.baseline, x.candidate} :
           g[v] = f[v] /\ \A s \in f[v] : b[s] = a[s] /\ s \in p /\ s \in q
  PROVE  /\ Snapped(x, f, a, p) => Snapped(x, g, b, q)
         /\ CovOf(g[x.candidate], b) = CovOf(f[x.candidate], a)
         /\ RunFits(x, f, a, p) => RunFits(x, g, b, q)
<1>1. /\ SnapOf(g[x.baseline], b, q) = SnapOf(f[x.baseline], a, p)
      /\ SnapOf(g[x.candidate], b, q) = SnapOf(f[x.candidate], a, p)
  BY SnapStays
<1>2. CovOf(g[x.candidate], b) = CovOf(f[x.candidate], a)
  BY CovStays
<1>3. RegOf(g[x.baseline], g[x.candidate], b, q) = RegOf(f[x.baseline], f[x.candidate], a, p)
  BY RegStays
<1> QED
  BY <1>1, <1>2, <1>3 DEF Snapped, RunFits

LEMMA FrozenStore ==
  ASSUME FrozenInv, SkillsInv',
         \A s \in DOMAIN catalog : s \in DOMAIN catalog' /\ catalog'[s] = catalog[s],
         scanned \subseteq scanned', UNCHANGED <<bound, torn, runs, pending>>
  PROVE  FrozenInv'
<1>1. \A v \in AgentVersion : \A s \in bound[v] :
        catalog'[s] = catalog[s] /\ s \in scanned /\ s \in scanned'
  BY DEF FrozenInv, SkillsInv, BoundInv, Fits
<1>2. ASSUME NEW x, Named(x)
      PROVE  /\ Snapped(x, bound, catalog, scanned) => Snapped(x, bound, catalog', scanned')
             /\ CovOf(bound[x.candidate], catalog') = CovOf(bound[x.candidate], catalog)
             /\ RunFits(x, bound, catalog, scanned) => RunFits(x, bound, catalog', scanned')
  <2>1. \A v \in {x.baseline, x.candidate} :
          bound[v] = bound[v]
          /\ \A s \in bound[v] : catalog'[s] = catalog[s] /\ s \in scanned /\ s \in scanned'
    BY <1>1, <1>2 DEF Named
  <2> QED
    BY <1>2, <2>1, FitsAgree
<1>3. ASSUME NEW c \in Editor
      PROVE  ReaderFits(pending[c], bound, catalog', scanned')
  BY <1>2 DEF FrozenInv, ReaderFits
<1>4. ASSUME NEW r \in DOMAIN runs
      PROVE  FrozenRun(runs[r], bound, catalog', scanned', pending)
  BY <1>2 DEF FrozenInv, FrozenRun
<1> QED
  BY <1>3, <1>4 DEF FrozenInv

\* One request goes on; if it has validated a replacement, it is of no run.
LEMMA FrozenRequest ==
  ASSUME FrozenInv, SkillsInv', NEW c \in Editor, NEW r, Becomes(c, r),
         ReaderFits(r, bound, catalog, scanned),
         r.pc \in {"validated", "deleted"} =>
           \/ ~ Frozen(r.of)
           \/ pending[c].pc \in {"validated", "deleted"} /\ pending[c].of = r.of,
         UNCHANGED <<catalog, scanned, bound, torn, runs>>
  PROVE  FrozenInv'
<1>1. /\ pending'[c] = r
      /\ \A d \in Editor : d # c => pending'[d] = pending[d]
  BY DEF Becomes, FrozenInv, SkillsInv, PendingInv
<1>2. \A d \in Editor : ReaderFits(pending'[d], bound, catalog, scanned)
  BY <1>1 DEF FrozenInv
<1>3. ASSUME NEW i \in DOMAIN runs, Untouched(runs[i], pending)
      PROVE  Untouched(runs[i], pending')
  BY <1>1, <1>3 DEF Untouched, Frozen
<1>4. \A i \in DOMAIN runs : FrozenRun(runs[i], bound, catalog, scanned, pending')
  BY <1>3 DEF FrozenInv, FrozenRun
<1> QED
  BY <1>2, <1>4 DEF FrozenInv

LEMMA FrozenRequestStep ==
  ASSUME FrozenInv, SkillsInv', NEW c \in Editor,
         \/ \E v \in AgentVersion : PutBindings(c, v) \/ Attach(c, v)
         \/ Validates(c) \/ Deletes(c) \/ EditFails(c)
         \/ \E b, v \in AgentVersion : RunReads(c, b, v)
         \/ RunCovers(c)
  PROVE  FrozenInv'
<1>1. /\ Ready(pending[c], catalog, scanned)
      /\ ReaderFits(pending[c], bound, catalog, scanned)
  BY DEF FrozenInv, SkillsInv, PendingInv
<1>2. ReaderFits([pc |-> "idle"], bound, catalog, scanned)
  BY DEF ReaderFits, Reading
<1>3. ASSUME NEW v, NEW wanted, Asks(c, v, wanted)
      PROVE  FrozenInv'
  <2> DEFINE r == [pc |-> "asked", of |-> v, wanted |-> wanted, seen |-> {}]
  <2>1. ReaderFits(r, bound, catalog, scanned) /\ r.pc = "asked"
    BY DEF ReaderFits, Reading
  <2> QED
    BY <1>3, <2>1, FrozenRequest DEF Asks
<1>4. CASE Validates(c)
  <2> DEFINE r == [pending[c] EXCEPT !.pc = "validated"]
  <2>1. CASE Acceptable(pending[c].of, pending[c].wanted)
    <3>1. r.pc = "validated" /\ r.of = pending[c].of
      BY <1>1, <1>4 DEF Validates, Ready
    <3>2. Becomes(c, r) /\ UNCHANGED <<catalog, scanned, bound, torn, runs>>
      BY <1>4, <2>1 DEF Validates
    <3>3. ~ Frozen(pending[c].of)
      BY <2>1 DEF Acceptable
    <3> HIDE DEF r
    <3>4. ReaderFits(r, bound, catalog, scanned)
      BY <3>1 DEF ReaderFits, Reading
    <3> QED
      BY <3>1, <3>2, <3>3, <3>4, FrozenRequest
  <2>2. CASE ~ Acceptable(pending[c].of, pending[c].wanted)
    BY <1>2, <1>4, <2>2, FrozenRequest DEF Validates
  <2> QED
    BY <2>1, <2>2
<1>5. CASE Deletes(c)
  <2> DEFINE r == [pending[c] EXCEPT !.pc = "deleted", !.seen = bound[pending[c].of]]
  <2>1. r.pc = "deleted" /\ r.of = pending[c].of /\ pending[c].pc = "validated"
    BY <1>1, <1>5 DEF Deletes, Ready
  <2>2. Becomes(c, r) /\ UNCHANGED <<catalog, scanned, bound, torn, runs>>
    BY <1>5 DEF Deletes
  <2> HIDE DEF r
  <2>3. ReaderFits(r, bound, catalog, scanned)
    BY <2>1 DEF ReaderFits, Reading
  <2> QED
    BY <2>1, <2>2, <2>3, FrozenRequest
<1>6. CASE EditFails(c)
  BY <1>2, <1>6, FrozenRequest DEF EditFails
<1>7. ASSUME NEW b \in AgentVersion, NEW v \in AgentVersion, RunReads(c, b, v)
      PROVE  FrozenInv'
  <2> DEFINE r == [pc |-> "read", of |-> {b, v}, baseline |-> b, candidate |-> v,
                   before |-> Snapshot(b), after |-> Snapshot(v),
                   coverage |-> <<0, 0>>, crossed |-> FALSE]
  <2>1. Becomes(c, r) /\ UNCHANGED <<catalog, scanned, bound, torn, runs>>
    BY <1>7 DEF RunReads
  <2>2. /\ r.pc = "read" /\ r.of = {b, v} /\ r.baseline = b /\ r.candidate = v
        /\ r.before = Snapshot(b) /\ r.after = Snapshot(v)
        /\ Fields \cup {"of"} \subseteq DOMAIN r
    BY DEF Fields
  <2> HIDE DEF r
  <2>3. ReaderFits(r, bound, catalog, scanned)
    BY <2>2, AsFunctions DEF ReaderFits, Named, Snapped
  <2> QED
    BY <2>1, <2>2, <2>3, FrozenRequest
<1>8. CASE RunCovers(c)
  <2> DEFINE q == pending[c]
             r == [q EXCEPT !.pc = "covered", !.coverage = Coverage(bound[q.candidate])]
  <2>1. Becomes(c, r) /\ UNCHANGED <<catalog, scanned, bound, torn, runs>>
    BY <1>8 DEF RunCovers
  <2>2. q.pc = "read" /\ "pc" \in DOMAIN q /\ ReaderFits(q, bound, catalog, scanned)
    BY <1>1, <1>8 DEF RunCovers, Ready
  <2>3. Named(q) /\ "of" \in DOMAIN q /\ q.of = {q.baseline, q.candidate}
        /\ (~ q.crossed => Snapped(q, bound, catalog, scanned))
    BY <2>2 DEF ReaderFits, Reading
  <2> HIDE DEF q
  <2>4. /\ r.pc = "covered" /\ r.of = q.of /\ r.baseline = q.baseline
        /\ r.candidate = q.candidate /\ r.before = q.before /\ r.after = q.after
        /\ r.crossed = q.crossed /\ r.coverage = Coverage(bound[q.candidate])
        /\ DOMAIN r = DOMAIN q
    BY <2>2, <2>3 DEF Named, Fields
  <2> HIDE DEF r
  <2>5. ReaderFits(r, bound, catalog, scanned)
    BY <2>3, <2>4, AsFunctions DEF ReaderFits, Named, Snapped
  <2> QED
    BY <2>1, <2>4, <2>5, FrozenRequest
<1> QED
  BY <1>3, <1>4, <1>5, <1>6, <1>7, <1>8 DEF PutBindings, Attach

LEMMA FrozenEdit ==
  ASSUME FrozenInv, SkillsInv', NEW c \in Editor, EditCommits(c)
  PROVE  FrozenInv'
<1> DEFINE v == pending[c].of
<1>1. /\ \A u \in AgentVersion : u # v => bound'[u] = bound[u]
      /\ UNCHANGED <<catalog, scanned, runs>> /\ pending[c].pc = "deleted"
  BY DEF EditCommits, FrozenInv, SkillsInv, BoundInv
<1>2. \A d \in Editor :
        \/ pending'[d] = [pc |-> "idle"]
        \/ /\ pending[d].pc \in Reading /\ v \in pending[d].of
           /\ pending'[d] = [pending[d] EXCEPT !.crossed = TRUE]
        \/ /\ pending'[d] = pending[d]
           /\ ~ (pending[d].pc \in Reading /\ v \in pending[d].of)
  BY DEF EditCommits
<1> HIDE DEF v
<1>3. \A u \in AgentVersion : \A s \in bound[u] : catalog[s] = catalog[s] /\ s \in scanned /\ s \in scanned
  BY DEF FrozenInv, SkillsInv, BoundInv, Fits
<1>4. ASSUME NEW x, Named(x), v \notin {x.baseline, x.candidate}
      PROVE  /\ Snapped(x, bound, catalog, scanned) => Snapped(x, bound', catalog, scanned)
             /\ CovOf(bound'[x.candidate], catalog) = CovOf(bound[x.candidate], catalog)
             /\ RunFits(x, bound, catalog, scanned) => RunFits(x, bound', catalog, scanned)
  <2>1. \A u \in {x.baseline, x.candidate} :
          /\ bound'[u] = bound[u]
          /\ \A s \in bound[u] : catalog[s] = catalog[s] /\ s \in scanned /\ s \in scanned
    BY <1>1, <1>3, <1>4 DEF Named
  <2> QED
    BY <1>4, <2>1, FitsAgree
<1>5. ASSUME NEW d \in Editor
      PROVE  ReaderFits(pending'[d], bound', catalog, scanned)
  <2>1. ReaderFits(pending[d], bound, catalog, scanned) /\ Ready(pending[d], catalog, scanned)
    BY DEF FrozenInv, SkillsInv, PendingInv
  <2>2. CASE pending'[d] = [pc |-> "idle"]
    BY <2>2 DEF ReaderFits, Reading
  <2>3. CASE /\ pending[d].pc \in Reading
             /\ pending'[d] = [pending[d] EXCEPT !.crossed = TRUE]
    <3> DEFINE q == pending[d]
               s == pending'[d]
    <3>1. Named(q) /\ "of" \in DOMAIN q /\ q.of = {q.baseline, q.candidate}
      BY <2>1, <2>3 DEF ReaderFits
    <3>2. /\ DOMAIN s = DOMAIN q /\ s.crossed
          /\ s.of = q.of /\ s.baseline = q.baseline /\ s.candidate = q.candidate
      BY <2>3, <3>1 DEF Named, Fields
    <3> HIDE DEF q, s
    <3>3. ReaderFits(s, bound', catalog, scanned)
      BY <3>1, <3>2 DEF ReaderFits, Named
    <3> QED
      BY <3>3 DEF s
  <2>4. CASE /\ pending'[d] = pending[d]
             /\ ~ (pending[d].pc \in Reading /\ v \in pending[d].of)
    <3> DEFINE q == pending[d]
    <3>1. CASE q.pc \in Reading
      <4>1. Named(q) /\ q.of = {q.baseline, q.candidate}
        BY <2>1, <3>1 DEF ReaderFits
      <4>2. v \notin {q.baseline, q.candidate}
        BY <2>4, <3>1, <4>1
      <4> HIDE DEF q
      <4>3. ReaderFits(q, bound, catalog, scanned)
        BY <2>1 DEF q
      <4>4. ReaderFits(q, bound', catalog, scanned)
        BY <4>1, <4>2, <4>3, <1>4 DEF ReaderFits
      <4> QED
        BY <2>4, <4>4 DEF q
    <3>2. CASE q.pc \notin Reading
      BY <2>4, <3>2 DEF ReaderFits
    <3> QED
      BY <3>1, <3>2
  <2> QED
    BY <1>2, <2>2, <2>3, <2>4
<1>6. ASSUME NEW r \in DOMAIN runs
      PROVE  FrozenRun(runs[r], bound', catalog, scanned, pending')
  <2> DEFINE x == runs[r]
  <2>1. FrozenRun(x, bound, catalog, scanned, pending)
    BY DEF FrozenInv
  <2> HIDE DEF x
  <2>2. ASSUME ~ x.crossed
        PROVE  RunFits(x, bound', catalog, scanned) /\ Untouched(x, pending')
    <3>1. Untouched(x, pending) /\ RunFits(x, bound, catalog, scanned) /\ Named(x)
      BY <2>1, <2>2 DEF FrozenRun
    <3>2. v \notin {x.baseline, x.candidate}
      BY <3>1, <1>1 DEF Untouched, v
    <3>3. RunFits(x, bound', catalog, scanned)
      BY <3>1, <3>2, <1>4
    <3>4. \A d \in Editor : pending'[d].pc \in {"validated", "deleted"} => pending'[d] = pending[d]
      <4> SUFFICES ASSUME NEW d \in Editor, pending'[d].pc \in {"validated", "deleted"}
                   PROVE  pending'[d] = pending[d]
        OBVIOUS
      <4>1. pending'[d] # [pc |-> "idle"]
        OBVIOUS
      <4>2. CASE /\ pending[d].pc \in Reading
                 /\ pending'[d] = [pending[d] EXCEPT !.crossed = TRUE]
        <5>1. pending'[d].pc = pending[d].pc
          BY <4>2 DEF FrozenInv, SkillsInv, PendingInv, Ready
        <5> QED
          BY <4>2, <5>1 DEF Reading
      <4> QED
        BY <1>2, <4>1, <4>2
    <3>5. Untouched(x, pending')
      BY <3>1, <3>4 DEF Untouched
    <3> QED
      BY <3>3, <3>5
  <2>3. FrozenRun(x, bound', catalog, scanned, pending')
    BY <2>1, <2>2 DEF FrozenRun
  <2> QED
    BY <2>3 DEF x
<1> QED
  BY <1>1, <1>5, <1>6 DEF FrozenInv

LEMMA FrozenCreation ==
  ASSUME FrozenInv, SkillsInv', NEW c \in Editor, RunCommits(c)
  PROVE  FrozenInv'
<1> DEFINE q == pending[c]
           row == [baseline |-> q.baseline, candidate |-> q.candidate, before |-> q.before,
                   after |-> q.after, coverage |-> q.coverage, regression |-> {},
                   crossed |-> q.crossed \/ Pending(q.of) # {}]
           id == Cardinality(DOMAIN runs) + 1
<1>1. /\ q.pc = "covered" /\ Becomes(c, [pc |-> "idle"])
      /\ UNCHANGED <<catalog, scanned, bound, torn>>
      /\ runs' = [r \in DOMAIN runs \cup {id} |-> IF r = id THEN row ELSE runs[r]]
  BY DEF RunCommits
<1>2. ReaderFits(q, bound, catalog, scanned)
  BY DEF FrozenInv
<1>3. /\ Named(q) /\ q.of = {q.baseline, q.candidate}
      /\ ~ q.crossed => /\ Snapped(q, bound, catalog, scanned)
                        /\ q.coverage = CovOf(bound[q.candidate], catalog)
  BY <1>1, <1>2 DEF ReaderFits, Reading
<1>4. \A d \in Editor : pending'[d] = [pc |-> "idle"] \/ pending'[d] = pending[d]
  BY <1>1 DEF Becomes, FrozenInv, SkillsInv, PendingInv
<1>5. \A x : Untouched(x, pending) => Untouched(x, pending')
  BY <1>4 DEF Untouched
<1>6. Pending(q.of) = {} => Untouched(q, pending)
  BY <1>3 DEF Pending, Untouched
<1> HIDE DEF q
<1>7. /\ row.baseline = q.baseline /\ row.candidate = q.candidate /\ row.before = q.before
      /\ row.after = q.after /\ row.coverage = q.coverage /\ row.regression = {}
      /\ Fields \cup {"regression"} \subseteq DOMAIN row
  BY DEF Fields
<1>8. ~ row.crossed => ~ q.crossed /\ Pending(q.of) = {}
  OBVIOUS
<1> HIDE DEF row, id
<1>9. FrozenRun(row, bound, catalog, scanned, pending')
  <2>1. Named(row) /\ "regression" \in DOMAIN row
    BY <1>3, <1>7 DEF Named
  <2>2. ASSUME ~ row.crossed
        PROVE  RunFits(row, bound, catalog, scanned) /\ Untouched(row, pending')
    <3>1. RunFits(row, bound, catalog, scanned)
      BY <1>3, <1>7, <1>8, <2>2 DEF RunFits, Snapped
    <3>2. Untouched(q, pending')
      BY <1>5, <1>6, <1>8, <2>2
    <3>3. Untouched(row, pending')
      BY <3>2, <1>7 DEF Untouched
    <3> QED
      BY <3>1, <3>3
  <2> QED
    BY <2>1, <2>2 DEF FrozenRun
<1>10. \A d \in Editor : ReaderFits(pending'[d], bound, catalog, scanned)
  <2>1. ReaderFits([pc |-> "idle"], bound, catalog, scanned)
    BY DEF ReaderFits, Reading
  <2> QED
    BY <1>4, <2>1 DEF FrozenInv
<1>11. \A r \in DOMAIN runs : FrozenRun(runs[r], bound, catalog, scanned, pending')
  BY <1>5 DEF FrozenInv, FrozenRun
<1>12. \A r \in DOMAIN runs' : FrozenRun(runs'[r], bound, catalog, scanned, pending')
  BY <1>1, <1>9, <1>11
<1> QED
  BY <1>1, <1>10, <1>12 DEF FrozenInv

LEMMA FrozenJudge ==
  ASSUME FrozenInv, SkillsInv', NEW r \in DOMAIN runs, Judge(r)
  PROVE  FrozenInv'
<1> DEFINE x == runs[r]
           g == Regression(bound[x.baseline], bound[x.candidate])
           y == [x EXCEPT !.regression = {g}]
<1>1. runs' = [runs EXCEPT ![r] = y] /\ UNCHANGED <<catalog, scanned, bound, torn, pending>>
  BY DEF Judge
<1>2. g = RegOf(bound[x.baseline], bound[x.candidate], catalog, scanned)
  BY AsFunctions
<1>3. FrozenRun(x, bound, catalog, scanned, pending)
  BY DEF FrozenInv
<1> HIDE DEF x, g
<1>4. /\ DOMAIN y = DOMAIN x /\ y.regression = {g}
      /\ y.baseline = x.baseline /\ y.candidate = x.candidate /\ y.before = x.before
      /\ y.after = x.after /\ y.coverage = x.coverage /\ y.crossed = x.crossed
  BY <1>3 DEF FrozenRun, Named, Fields
<1> HIDE DEF y
<1>5. Untouched(x, pending) => Untouched(y, pending)
  BY <1>4 DEF Untouched
<1>6. RunFits(x, bound, catalog, scanned) => RunFits(y, bound, catalog, scanned)
  BY <1>2, <1>4 DEF RunFits, Snapped
<1>7. FrozenRun(y, bound, catalog, scanned, pending)
  BY <1>3, <1>4, <1>5, <1>6 DEF FrozenRun, Named
<1>8. \A i \in DOMAIN runs' : FrozenRun(runs'[i], bound, catalog, scanned, pending)
  BY <1>1, <1>7 DEF FrozenInv
<1> QED
  BY <1>1, <1>8 DEF FrozenInv

LEMMA FrozenStep ==
  ASSUME FrozenInv, [SkillsNext]_skillVars
  PROVE  FrozenInv'
<1>0. SkillsInv'
  BY SkillsStep DEF FrozenInv
<1>1. ASSUME NEW u \in Uploads, Import(u)
      PROVE  FrozenInv'
  <2>1. u.skill \notin DOMAIN catalog
    BY <1>1 DEF Import
  <2>2. \A s \in DOMAIN catalog : s \in DOMAIN catalog' /\ catalog'[s] = catalog[s]
    BY <1>1, <2>1 DEF Import
  <2> QED
    BY <1>0, <1>1, <2>2, FrozenStore DEF Import
<1>2. ASSUME NEW s \in Skill, Scan(s)
      PROVE  FrozenInv'
  BY <1>0, <1>2, FrozenStore DEF Scan
<1>3. ASSUME NEW c \in Editor,
             \/ \E v \in AgentVersion : PutBindings(c, v) \/ Attach(c, v)
             \/ Validates(c) \/ Deletes(c) \/ EditCommits(c) \/ EditFails(c)
             \/ \E b, v \in AgentVersion : RunReads(c, b, v)
             \/ RunCovers(c) \/ RunCommits(c)
      PROVE  FrozenInv'
  BY <1>0, <1>3, FrozenRequestStep, FrozenEdit, FrozenCreation
<1>4. ASSUME NEW r \in DOMAIN runs, Judge(r)
      PROVE  FrozenInv'
  BY <1>0, <1>4, FrozenJudge
<1>5. CASE UNCHANGED skillVars
  BY <1>0, <1>5, FrozenStore DEF skillVars
<1> QED
  BY <1>1, <1>2, <1>3, <1>4, <1>5 DEF SkillsNext

\* The manifest of create_eval_run and the regression _persist judges by: a run
\* is evaluated with the skills, the coverage and the regressions it was frozen
\* with, unless a replacement of the bindings overlapped its creation.
THEOREM EvidenceKept == SkillsSpec => []EvidenceFrozen
<1>1. SkillsInit => FrozenInv
  <2>1. SkillsInit => \A c \in Editor : ReaderFits(pending[c], bound, catalog, scanned)
    BY DEF SkillsInit, ReaderFits, Reading
  <2>2. SkillsInit => DOMAIN runs = {}
    BY DEF SkillsInit
  <2> QED
    BY <2>1, <2>2, InitFits DEF FrozenInv
<1>2. FrozenInv /\ [SkillsNext]_skillVars => FrozenInv'
  BY FrozenStep
<1>3. FrozenInv => EvidenceFrozen
  <2> SUFFICES ASSUME FrozenInv, NEW r \in DOMAIN runs, ~ runs[r].crossed
               PROVE  /\ runs[r].before = Snapshot(runs[r].baseline)
                      /\ runs[r].after = Snapshot(runs[r].candidate)
                      /\ runs[r].coverage = Coverage({e.skill : e \in runs[r].after})
                      /\ runs[r].regression \subseteq
                           {Regression({e.skill : e \in runs[r].before},
                                       {e.skill : e \in runs[r].after})}
    BY DEF EvidenceFrozen
  <2> DEFINE x == runs[r]
  <2>1. RunFits(x, bound, catalog, scanned)
    BY DEF FrozenInv, FrozenRun
  <2>2. /\ x.before = SnapOf(bound[x.baseline], catalog, scanned)
        /\ x.after = SnapOf(bound[x.candidate], catalog, scanned)
        /\ x.coverage = CovOf(bound[x.candidate], catalog)
        /\ x.regression \subseteq {RegOf(bound[x.baseline], bound[x.candidate], catalog, scanned)}
    BY <2>1 DEF RunFits, Snapped
  <2> HIDE DEF x
  <2>3. {e.skill : e \in x.before} = bound[x.baseline]
    BY <2>2, SnapSkills
  <2>4. {e.skill : e \in x.after} = bound[x.candidate]
    BY <2>2, SnapSkills
  <2>5. /\ x.before = Snapshot(x.baseline) /\ x.after = Snapshot(x.candidate)
        /\ x.coverage = Coverage({e.skill : e \in x.after})
        /\ x.regression \subseteq {Regression({e.skill : e \in x.before}, {e.skill : e \in x.after})}
    BY <2>2, <2>3, <2>4, AsFunctions
  <2> QED
    BY <2>5 DEF x
<1> QED
  BY <1>1, <1>2, <1>3, PTL DEF SkillsSpec
=============================================================================
