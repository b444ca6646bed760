--------------------------- MODULE AuthSessionsProofs ---------------------------
(****************************************************************************)
(* Safety of AuthSessions for every number of logins, recovery tokens,      *)
(* resets and step-ups, and every choice of the time limits.                *)
(****************************************************************************)
EXTENDS AuthSessions, TLAPS

(* A row is created by the last step of the call that it is named by. *)
RowsOfDone ==
  /\ \A s \in Logins : Exists(s) => pc[s] = "done"
  /\ \A t \in Issues : token[t] # Gone => pc[t] = "done"

(* The locks the program counters stand for are exclusive. *)
AccountExclusive == \A c, d \in AccountHolders : c = d
TokenExclusive == \A t \in Issues : \A c, d \in TokenHolders(t) : c = d
SessionExclusive ==
  /\ \A u, v \in StepUps : pc[u] = "verify" /\ pc[v] = "verify" /\ ask[u] = ask[v] => u = v
  /\ \A u \in StepUps, r \in Resets : pc[u] = "verify" /\ pc[r] = "commit" => ask[u] \notin targets[r]

(* The UPDATE of an issue that holds the account is of the tokens that work. *)
IssueKnows ==
  \A i \in Issues : pc[i] \in {"insert", "commit"} => targets[i] = {t \in Issues : Open(t)}

(* The token that a reset has consumed works until the reset commits. *)
ResetKnows ==
  \A r \in Resets : pc[r] \in {"password", "snapshot", "revoke", "commit"} => Open(ask[r])

(* The token of a committed reset is consumed for good. *)
CommittedInv ==
  \A r \in committed : pc[r] = "done" /\ token[ask[r]] # Gone /\ token[ask[r]].consumed

(* A session that existed when a reset consumed its token is in the UPDATE of the *)
(* reset or already revoked, and revoked when the reset is committed.             *)
BeforeInv ==
  \A r \in Resets : \A s \in before[r] :
    /\ pc[s] = "done"
    /\ Exists(s) /\ r \in committed => session[s].revoked
    /\ Exists(s) /\ pc[r] \in {"revoke", "commit"} => s \in targets[r] \/ session[s].revoked

(* While the verifier answers, the session is as the step-up has read it. *)
StepUpKnows ==
  \A u \in StepUps :
    /\ pc[u] # "commit"
    /\ pc[u] = "verify" => /\ Exists(ask[u]) /\ ~session[ask[u]].revoked
                           /\ current[u] = session[ask[u]].level

(* The inductive invariant. Its last two conjuncts are parts of RecoveryIsFinal; the *)
(* third part follows from BeforeInv.                                              *)
Inv ==
  /\ TypeOK
  /\ RowsOfDone
  /\ AccountExclusive
  /\ TokenExclusive
  /\ SessionExclusive
  /\ IssueKnows
  /\ ResetKnows
  /\ CommittedInv
  /\ BeforeInv
  /\ StepUpKnows
  /\ OneOpenToken
  /\ TokenUsedOnce

-----------------------------------------------------------------------------
(* What a statement knows when it runs *)

(* No call is of two kinds. *)
LEMMA Disjoint ==
  /\ Logins \cap Issues = {} /\ Logins \cap Resets = {} /\ Logins \cap StepUps = {}
  /\ Issues \cap Resets = {} /\ Issues \cap StepUps = {} /\ Resets \cap StepUps = {}
  BY CallsAssumption

(* A statement runs when nobody else holds what it has to lock. *)
LEMMA Waits ==
  ASSUME NEW c \in Calls
  PROVE  /\ Runs(c, "account") \/ Runs(c, "password") => AccountHolders \subseteq {c}
         /\ Runs(c, "invalidate") => \A t \in Issues : Open(t) => TokenHolders(t) \subseteq {c}
         /\ Runs(c, "consume") => TokenHolders(ask[c]) \subseteq {c}
         /\ Runs(c, "revoke") => \A s \in targets[c] : SessionHolders(s) \subseteq {c}
         /\ Runs(c, "session") => SessionHolders(ask[c]) \subseteq {c}
<1>1. Runs(c, "account") \/ Runs(c, "password") => AccountHolders \subseteq {c}
  BY DEF Runs, Blockers
<1>2. Runs(c, "invalidate") => \A t \in Issues : Open(t) => TokenHolders(t) \subseteq {c}
  BY DEF Runs, Blockers
<1>3. Runs(c, "consume") => TokenHolders(ask[c]) \subseteq {c}
  BY DEF Runs, Blockers
<1>4. Runs(c, "revoke") => \A s \in targets[c] : SessionHolders(s) \subseteq {c}
  BY DEF Runs, Blockers
<1>5. Runs(c, "session") => SessionHolders(ask[c]) \subseteq {c}
  BY DEF Runs, Blockers
<1> QED
  BY <1>1, <1>2, <1>3, <1>4, <1>5

-----------------------------------------------------------------------------
(* Rows *)

(* A missing row is no row. *)
LEMMA RowsExist == Gone \notin SessionRow /\ Gone \notin TokenRow
<1>1. \A row \in SessionRow : "created" \in DOMAIN row
  BY DEF SessionRow
<1>2. \A row \in TokenRow : "expires" \in DOMAIN row
  BY DEF TokenRow
<1>3. "created" \notin DOMAIN Gone /\ "expires" \notin DOMAIN Gone
  BY DEF Gone
<1> QED
  BY <1>1, <1>2, <1>3

(* An UPDATE keeps the columns that it does not set. *)
LEMMA SeenUpdate ==
  ASSUME NEW row \in SessionRow, NEW t \in Nat, NEW new, new = [row EXCEPT !.seen = t]
  PROVE  /\ new \in SessionRow /\ new # Gone /\ new.revoked = row.revoked
         /\ new.level = row.level /\ new.at = row.at
<1>1. /\ new \in SessionRow /\ new.revoked = row.revoked
      /\ new.level = row.level /\ new.at = row.at
  BY DEF SessionRow
<1> QED
  BY <1>1, RowsExist

(* UPDATE auth_sessions SET revoked_at. *)
LEMMA RevokeUpdate ==
  ASSUME NEW row \in SessionRow, NEW new, new = [row EXCEPT !.revoked = TRUE]
  PROVE  /\ new \in SessionRow /\ new # Gone /\ new.revoked
         /\ new.level = row.level /\ new.at = row.at
<1>1. /\ new \in SessionRow /\ new.revoked
      /\ new.level = row.level /\ new.at = row.at
  BY DEF SessionRow
<1> QED
  BY <1>1, RowsExist

(* A row after the UPDATE of verifyAndUpgrade. *)
WithLevel(row, level, t) == [row EXCEPT !.level = level, !.at = t, !.seen = t]

(* It is a row whose level and time are those of the step-up, as revoked as before. *)
LEMMA LevelUpdate ==
  ASSUME NEW row \in SessionRow, NEW t \in Nat, NEW level \in {"verified_email", "mfa"}
  PROVE  LET new == WithLevel(row, level, t) IN
         /\ new \in SessionRow /\ new # Gone /\ new.revoked = row.revoked
         /\ new.level = level /\ new.at = t
<1> DEFINE new == WithLevel(row, level, t)
<1>1. /\ new \in SessionRow /\ new.revoked = row.revoked
      /\ new.level = level /\ new.at = t
  BY DEF SessionRow, WithLevel
<1> QED
  BY <1>1, RowsExist DEF WithLevel

(* UPDATE account_recovery_tokens SET invalidated_at. *)
LEMMA InvalidateUpdate ==
  ASSUME NEW row \in TokenRow, NEW new, new = [row EXCEPT !.invalidated = TRUE]
  PROVE  new \in TokenRow /\ new # Gone /\ new.invalidated /\ new.consumed = row.consumed
<1>1. new \in TokenRow /\ new.invalidated /\ new.consumed = row.consumed
  BY DEF TokenRow
<1> QED
  BY <1>1, RowsExist

(* UPDATE account_recovery_tokens SET consumed_at. *)
LEMMA ConsumeUpdate ==
  ASSUME NEW row \in TokenRow, NEW new, new = Consumed(row)
  PROVE  new \in TokenRow /\ new # Gone /\ new.consumed
<1>1. new \in TokenRow /\ new.consumed
  BY DEF TokenRow, Consumed
<1> QED
  BY <1>1, RowsExist

(* authenticate moves a session's last use and nothing else of it. *)
LEMMA TouchEffect ==
  ASSUME TypeOK, NEW s \in Logins, Touch(s)
  PROVE  /\ session' \in [Logins -> SessionRow \cup {Gone}]
         /\ \A q \in Logins : Exists(q)' <=> Exists(q)
         /\ \A q \in Logins : Exists(q) => /\ session'[q].revoked = session[q].revoked
                                           /\ session'[q].level = session[q].level
                                           /\ session'[q].at = session[q].at
<1>1. PICK t \in Recent : ActiveAt(s, t) /\ session' = [session EXCEPT ![s].seen = t]
  BY DEF Touch
<1>2. t \in Nat /\ session \in [Logins -> SessionRow \cup {Gone}]
  BY TimesAssumption DEF Recent, TypeOK
<1>3. session[s] \in SessionRow /\ session[s] # Gone
  BY <1>1, <1>2 DEF ActiveAt, Exists
<1>4. PICK new : new = [session[s] EXCEPT !.seen = t]
  OBVIOUS
<1>5. /\ new \in SessionRow /\ new # Gone /\ new.revoked = session[s].revoked
      /\ new.level = session[s].level /\ new.at = session[s].at
  BY <1>2, <1>3, <1>4, SeenUpdate
<1>6. session' = [session EXCEPT ![s] = new]
  BY <1>1, <1>2, <1>4
<1>7. session'[s] = new /\ \A q \in Logins \ {s} : session'[q] = session[q]
  BY <1>2, <1>6
<1>8. session' \in [Logins -> SessionRow \cup {Gone}]
  BY <1>2, <1>5, <1>6
<1> QED
  BY <1>3, <1>5, <1>7, <1>8 DEF Exists

(* logout revokes a session and changes nothing else of it. *)
LEMMA LogoutEffect ==
  ASSUME TypeOK, NEW s \in Logins, Logout(s)
  PROVE  /\ session' \in [Logins -> SessionRow \cup {Gone}]
         /\ \A q \in Logins : Exists(q)' <=> Exists(q)
         /\ \A q \in Logins : Exists(q) => /\ session'[q].revoked <=> session[q].revoked \/ q = s
                                           /\ session'[q].level = session[q].level
                                           /\ session'[q].at = session[q].at
<1>1. session' = [session EXCEPT ![s].revoked = TRUE] /\ Exists(s) /\ ~session[s].revoked
  BY DEF Logout
<1>2. session \in [Logins -> SessionRow \cup {Gone}]
  BY DEF TypeOK
<1>3. session[s] \in SessionRow /\ session[s] # Gone
  BY <1>1, <1>2 DEF Exists
<1>4. PICK new : new = [session[s] EXCEPT !.revoked = TRUE]
  OBVIOUS
<1>5. /\ new \in SessionRow /\ new # Gone /\ new.revoked
      /\ new.level = session[s].level /\ new.at = session[s].at
  BY <1>3, <1>4, RevokeUpdate
<1>6. session' = [session EXCEPT ![s] = new]
  BY <1>1, <1>2, <1>4
<1>7. session'[s] = new /\ \A q \in Logins \ {s} : session'[q] = session[q]
  BY <1>2, <1>6
<1>8. session' \in [Logins -> SessionRow \cup {Gone}]
  BY <1>2, <1>5, <1>6
<1> QED
  BY <1>3, <1>5, <1>7, <1>8 DEF Exists

(* An accepted step-up writes the level, its time and the last use of its session. *)
LEMMA VerifyEffect ==
  ASSUME TypeOK, NEW u \in StepUps, Verify(u)
  PROVE  /\ session' \in [Logins -> SessionRow \cup {Gone}]
         /\ \A q \in Logins : Exists(q)' <=> Exists(q)
         /\ \A q \in Logins : q # ask[u] => session'[q] = session[q]
         /\ \A q \in Logins : Exists(q) =>
              /\ session'[q].revoked = session[q].revoked
              /\ \/ session'[q].level = session[q].level /\ session'[q].at = session[q].at
                 \/ /\ q = ask[u] /\ Rank(session'[q].level) >= Rank(current[u])
                    /\ session'[q].level # "base" /\ session'[q].at \in Nat
<1> DEFINE s == ask[u]
<1>1. s \in Logins /\ stamp[u] \in Nat /\ session \in [Logins -> SessionRow \cup {Gone}]
  BY TimesAssumption DEF Verify, Runs, TypeOK
<1>2. CASE UNCHANGED session
  BY <1>1, <1>2 DEF Exists
<1>3. ASSUME NEW level \in {"verified_email", "mfa"}, Exists(s), Rank(level) >= Rank(current[u]),
             session' = [session EXCEPT ![s].level = level, ![s].at = stamp[u], ![s].seen = stamp[u]]
      PROVE  /\ session' \in [Logins -> SessionRow \cup {Gone}]
             /\ \A q \in Logins : Exists(q)' <=> Exists(q)
             /\ \A q \in Logins : q # s => session'[q] = session[q]
             /\ session'[s].revoked = session[s].revoked /\ session'[s].level = level
             /\ session'[s].at = stamp[u]
  <2>1. session[s] \in SessionRow /\ session[s] # Gone
    BY <1>1, <1>3 DEF Exists
  <2> DEFINE new == WithLevel(session[s], level, stamp[u])
  <2>2. /\ new \in SessionRow /\ new # Gone /\ new.revoked = session[s].revoked
        /\ new.level = level /\ new.at = stamp[u]
    BY <1>1, <1>3, <2>1, LevelUpdate
  <2>3. session' = [session EXCEPT ![s] = new]
    BY <1>1, <1>3 DEF WithLevel
  <2> HIDE DEF s, new
  <2>4. session'[s] = new /\ \A q \in Logins \ {s} : session'[q] = session[q]
    BY <1>1, <2>3
  <2>5. session' \in [Logins -> SessionRow \cup {Gone}]
    BY <1>1, <2>2, <2>3
  <2> QED
    BY <2>1, <2>2, <2>4, <2>5 DEF Exists
<1>4. \/ UNCHANGED session
      \/ \E level \in {"verified_email", "mfa"} :
           /\ Exists(s) /\ Rank(level) >= Rank(current[u])
           /\ session' = [session EXCEPT ![s].level = level, ![s].at = stamp[u], ![s].seen = stamp[u]]
  BY DEF Verify
<1>5. CASE ~ UNCHANGED session
  <2>1. PICK level \in {"verified_email", "mfa"} :
          /\ Exists(s) /\ Rank(level) >= Rank(current[u])
          /\ session' = [session EXCEPT ![s].level = level, ![s].at = stamp[u], ![s].seen = stamp[u]]
    BY <1>4, <1>5
  <2>2. /\ session' \in [Logins -> SessionRow \cup {Gone}]
        /\ \A q \in Logins : Exists(q)' <=> Exists(q)
        /\ \A q \in Logins : q # s => session'[q] = session[q]
        /\ session'[s].revoked = session[s].revoked /\ session'[s].level = level
        /\ session'[s].at = stamp[u]
    BY <1>3, <2>1
  <2> HIDE DEF s
  <2> QED
    BY <1>1, <2>1, <2>2 DEF s
<1> QED
  BY <1>2, <1>5

(* A reset revokes the sessions its UPDATE has seen and consumes its token. *)
LEMMA CommitResetEffect ==
  ASSUME TypeOK, NEW r \in Resets, CommitReset(r), token[ask[r]] # Gone
  PROVE  /\ session' \in [Logins -> SessionRow \cup {Gone}]
         /\ \A q \in Logins : Exists(q)' <=> Exists(q)
         /\ \A q \in Logins : Exists(q) => /\ session'[q].revoked <=> session[q].revoked \/ q \in targets[r]
                                           /\ session'[q].level = session[q].level
                                           /\ session'[q].at = session[q].at
         /\ token' \in [Issues -> TokenRow \cup {Gone}] /\ ask[r] \in Issues
         /\ \A t \in Issues : t # ask[r] => token'[t] = token[t]
         /\ token'[ask[r]] # Gone /\ token'[ask[r]].consumed
<1>1. /\ session \in [Logins -> SessionRow \cup {Gone}] /\ token \in [Issues -> TokenRow \cup {Gone}]
      /\ ask[r] \in Issues
  BY DEF CommitReset, Runs, TypeOK
<1>2. /\ session' = [s \in Logins |->
           IF s \in targets[r] /\ Exists(s) THEN [session[s] EXCEPT !.revoked = TRUE] ELSE session[s]]
      /\ token' = [token EXCEPT ![ask[r]] = Consumed(token[ask[r]])]
  BY DEF CommitReset
<1>3. ASSUME NEW q \in Logins
      PROVE  /\ session'[q] \in SessionRow \cup {Gone}
             /\ Exists(q)' <=> Exists(q)
             /\ Exists(q) => /\ session'[q].revoked <=> session[q].revoked \/ q \in targets[r]
                             /\ session'[q].level = session[q].level
                             /\ session'[q].at = session[q].at
  <2>1. CASE q \in targets[r] /\ Exists(q)
    <3> PICK new : new = [session[q] EXCEPT !.revoked = TRUE]
      OBVIOUS
    <3>1. session[q] \in SessionRow
      BY <1>1, <2>1 DEF Exists
    <3>2. /\ new \in SessionRow /\ new # Gone /\ new.revoked
          /\ new.level = session[q].level /\ new.at = session[q].at
      BY <3>1, RevokeUpdate
    <3>3. session'[q] = new
      BY <1>2, <2>1
    <3> QED
      BY <2>1, <3>2, <3>3 DEF Exists
  <2>2. CASE ~ (q \in targets[r] /\ Exists(q))
    <3>1. session'[q] = session[q]
      BY <1>2, <2>2
    <3> QED
      BY <1>1, <2>2, <3>1 DEF Exists
  <2> QED
    BY <2>1, <2>2
<1>4. session' \in [Logins -> SessionRow \cup {Gone}]
  BY <1>2, <1>3
<1> PICK new : new = Consumed(token[ask[r]])
  OBVIOUS
<1>5. new \in TokenRow /\ new # Gone /\ new.consumed
  <2>1. token[ask[r]] \in TokenRow
    BY <1>1
  <2> QED
    BY <2>1, ConsumeUpdate
<1>6. token' = [token EXCEPT ![ask[r]] = new]
  BY <1>2
<1> QED
  BY <1>1, <1>3, <1>4, <1>5, <1>6

(* An issue invalidates the tokens that work and makes one that does. *)
LEMMA CommitIssueEffect ==
  ASSUME TypeOK, IssueKnows, NEW i \in Issues, CommitIssue(i)
  PROVE  /\ token' \in [Issues -> TokenRow \cup {Gone}]
         /\ token'[i] # Gone /\ \A t \in Issues : Open(t)' => t = i
         /\ \A t \in Issues : t # i /\ t \notin targets[i] => token'[t] = token[t]
         /\ \A t \in Issues : t # i => /\ (token'[t] # Gone <=> token[t] # Gone)
                                       /\ token[t] # Gone => token'[t].consumed = token[t].consumed
<1>1. token \in [Issues -> TokenRow \cup {Gone}] /\ targets[i] = {t \in Issues : Open(t)}
  BY DEF CommitIssue, Runs, TypeOK, IssueKnows
<1> DEFINE first == [expires |-> stamp[i] + TokenTtl, consumed |-> FALSE, invalidated |-> FALSE]
<1>2. token' = [t \in Issues |->
         IF t = i THEN first
         ELSE IF t \in targets[i] THEN [token[t] EXCEPT !.invalidated = TRUE] ELSE token[t]]
  BY DEF CommitIssue
<1>3. first \in TokenRow /\ first # Gone
  <2>1. stamp[i] \in Nat /\ TokenTtl \in Nat
    BY TimesAssumption DEF TypeOK
  <2>2. first \in TokenRow
    BY <2>1 DEF TokenRow
  <2> HIDE DEF first
  <2> QED
    BY <2>2, RowsExist
<1> HIDE DEF first
<1>4. token'[i] = first
  BY <1>2
<1>5. ASSUME NEW t \in Issues, t # i
      PROVE  /\ token'[t] \in TokenRow \cup {Gone} /\ ~Open(t)'
             /\ t \notin targets[i] => token'[t] = token[t]
             /\ token'[t] # Gone <=> token[t] # Gone
             /\ token[t] # Gone => token'[t].consumed = token[t].consumed
  <2>1. CASE t \in targets[i]
    <3> PICK new : new = [token[t] EXCEPT !.invalidated = TRUE]
      OBVIOUS
    <3>1. token[t] \in TokenRow /\ token[t] # Gone
      BY <1>1, <2>1 DEF Open
    <3>2. new \in TokenRow /\ new # Gone /\ new.invalidated /\ new.consumed = token[t].consumed
      BY <3>1, InvalidateUpdate
    <3>3. token'[t] = new
      BY <1>2, <1>5, <2>1
    <3> QED
      BY <2>1, <3>1, <3>2, <3>3 DEF Open
  <2>2. CASE t \notin targets[i]
    <3>1. token'[t] = token[t]
      BY <1>2, <1>5, <2>2
    <3>2. ~Open(t)
      BY <1>1, <2>2
    <3> QED
      BY <1>1, <3>1, <3>2 DEF Open
  <2> QED
    BY <2>1, <2>2
<1> QED
  BY <1>2, <1>3, <1>4, <1>5

(* A login creates a session of the lowest level, that was never raised. *)
LEMMA NewSessions ==
  ASSUME TypeOK, NEW l \in Logins, NEW t \in Recent
  PROVE  /\ NewSession(l, t) \in SessionRow /\ NewSession(l, t).level = "base"
         /\ NewSession(l, t).at = -1
<1>1. t \in Nat /\ t + AbsoluteTtl \in Nat /\ ask[l] \in Passwords
  BY TimesAssumption DEF Recent, TypeOK
<1> QED
  BY <1>1 DEF NewSession, SessionRow

-----------------------------------------------------------------------------
(* The invariant is inductive *)

(* Every statement writes rows of their type, and a level with the time at which it *)
(* was reached.                                                                    *)
LEMMA TypeStep == Inv /\ [Next]_vars => TypeOK'
<1> SUFFICES ASSUME Inv, [Next]_vars PROVE TypeOK'
  OBVIOUS
<1>1. ASSUME NEW l \in Logins, SendLogin(l) PROVE TypeOK'
  BY <1>1, Disjoint, TimesAssumption DEF SendLogin, Goto, Inv, TypeOK, callVars, resetHistory, Calls
<1>2. ASSUME NEW l \in Logins, SelectAccount(l) PROVE TypeOK'
  BY <1>2, Disjoint, TimesAssumption DEF SelectAccount, Goto, End, Runs, Inv, TypeOK, callVars, resetHistory, Calls
<1>3. ASSUME NEW l \in Logins, CreateSession(l) PROVE TypeOK'
  <2>1. PICK t \in Recent : session' = [session EXCEPT ![l] = NewSession(l, t)]
    BY <1>3 DEF CreateSession
  <2>2. TypeOK
    BY DEF Inv
  <2> DEFINE new == NewSession(l, t)
  <2>3. new \in SessionRow /\ new.level = "base" /\ new.at = -1
    BY <2>2, NewSessions
  <2> HIDE DEF new
  <2>4. session' = [session EXCEPT ![l] = new]
    BY <2>1 DEF new
  <2> QED
    BY <1>3, <2>2, <2>3, <2>4 DEF CreateSession, End, Runs, TypeOK, Calls, resetHistory
<1>4. ASSUME NEW i \in Issues, SendIssue(i) PROVE TypeOK'
  BY <1>4, Disjoint, TimesAssumption DEF SendIssue, Goto, Inv, TypeOK, callVars, resetHistory, Calls
<1>5. ASSUME NEW i \in Issues, LockAccount(i) PROVE TypeOK'
  BY <1>5, Disjoint, TimesAssumption DEF LockAccount, Goto, Runs, Inv, TypeOK, callVars, resetHistory, Calls
<1>6. ASSUME NEW i \in Issues, InvalidateTokens(i) PROVE TypeOK'
  BY <1>6, Disjoint, TimesAssumption DEF InvalidateTokens, Goto, Runs, Inv, TypeOK, callVars, resetHistory, Calls
<1>7. ASSUME NEW i \in Issues, InsertToken(i) PROVE TypeOK'
  BY <1>7, Disjoint, TimesAssumption DEF InsertToken, Goto, Runs, Inv, TypeOK, callVars, resetHistory, Calls
<1>8. ASSUME NEW i \in Issues, CommitIssue(i) PROVE TypeOK'
  <2>1. token' \in [Issues -> TokenRow \cup {Gone}]
    BY <1>8, CommitIssueEffect DEF Inv
  <2>2. /\ pc[i] = "commit" /\ i \in Calls
        /\ \E a \in {"ok", "failed"} : pc' = [pc EXCEPT ![i] = "done"] /\ answer' = [answer EXCEPT ![i] = a]
        /\ UNCHANGED <<before, committed, current, ask, stamp, targets, password, session, now>>
    BY <1>8 DEF CommitIssue, End, Runs, Calls, resetHistory
  <2>3. \A c \in Resets \cup StepUps : pc'[c] = pc[c]
    BY <2>2, Disjoint DEF Inv, TypeOK, Calls
  <2>4. pc' \in [Calls -> {"idle", "select", "create", "account", "invalidate", "insert", "consume",
                          "password", "snapshot", "revoke", "session", "verify", "commit", "done"}]
        /\ answer' \in [Calls -> {"none", "ok", "refused", "failed"}]
    BY <2>2 DEF Inv, TypeOK
  <2> QED
    BY <2>1, <2>2, <2>3, <2>4 DEF Inv, TypeOK
<1>9. ASSUME NEW r \in Resets, SendReset(r) PROVE TypeOK'
  BY <1>9, Disjoint, TimesAssumption DEF SendReset, Goto, Inv, TypeOK, callVars, resetHistory, Calls
<1>10. ASSUME NEW r \in Resets, Consume(r) PROVE TypeOK'
  BY <1>10, Disjoint, TimesAssumption DEF Consume, Goto, End, Runs, Inv, TypeOK, callVars, resetHistory, Calls
<1>11. ASSUME NEW r \in Resets, SetPassword(r) PROVE TypeOK'
  BY <1>11, Disjoint, TimesAssumption DEF SetPassword, Goto, Runs, Inv, TypeOK, callVars, resetHistory, Calls
<1>12. ASSUME NEW r \in Resets, BeginRevoke(r) PROVE TypeOK'
  BY <1>12, Disjoint, TimesAssumption DEF BeginRevoke, Unrevoked, Goto, Runs, Inv, TypeOK, callVars, resetHistory, Calls
<1>13. ASSUME NEW r \in Resets, Revoke(r) PROVE TypeOK'
  BY <1>13, Disjoint, TimesAssumption DEF Revoke, Goto, Runs, Inv, TypeOK, callVars, resetHistory, Calls
<1>14. ASSUME NEW r \in Resets, CommitReset(r) PROVE TypeOK'
  <2>1. token[ask[r]] # Gone
    BY <1>14 DEF CommitReset, Runs, Inv, ResetKnows, Open
  <2>2. /\ session' \in [Logins -> SessionRow \cup {Gone}] /\ token' \in [Issues -> TokenRow \cup {Gone}]
        /\ \A q \in Logins : Exists(q)' <=> Exists(q)
        /\ \A q \in Logins : Exists(q) => /\ session'[q].level = session[q].level
                                          /\ session'[q].at = session[q].at
    BY <1>14, <2>1, CommitResetEffect DEF Inv
  <2> QED
    BY <1>14, <2>2, Disjoint DEF CommitReset, End, Runs, Inv, TypeOK, Calls, Passwords, Exists
<1>15. ASSUME NEW u \in StepUps, SendStepUp(u) PROVE TypeOK'
  BY <1>15, Disjoint, TimesAssumption DEF SendStepUp, Goto, Inv, TypeOK, callVars, resetHistory, Calls
<1>16. ASSUME NEW u \in StepUps, LockSession(u) PROVE TypeOK'
  <2>1. ask[u] \in Logins /\ UNCHANGED <<ask, session, stamp, targets, password, token, now, before, committed>>
    BY <1>16 DEF LockSession, Runs, resetHistory, Inv, TypeOK
  <2>2. CASE ActiveAt(ask[u], stamp[u])
    <3>1. session[ask[u]].level \in {"base", "verified_email", "mfa"}
      BY <2>1, <2>2 DEF ActiveAt, Exists, SessionRow, Inv, TypeOK
    <3>2. /\ pc' = [pc EXCEPT ![u] = "verify"] /\ current' = [current EXCEPT ![u] = session[ask[u]].level]
          /\ UNCHANGED answer
      BY <1>16, <2>2 DEF LockSession, Goto
    <3>3. \A r \in Resets : pc'[r] = pc[r]
      BY <3>2, Disjoint DEF Inv, TypeOK, Calls
    <3> QED
      BY <2>1, <3>1, <3>2, <3>3 DEF Inv, TypeOK, Calls
  <2>3. CASE ~ ActiveAt(ask[u], stamp[u])
    BY <1>16, <2>1, <2>3, Disjoint DEF LockSession, End, Inv, TypeOK, Calls
  <2> QED
    BY <2>2, <2>3
<1>17. ASSUME NEW u \in StepUps, Verify(u) PROVE TypeOK'
  <2>1. /\ session' \in [Logins -> SessionRow \cup {Gone}]
        /\ \A q \in Logins : Exists(q)' <=> Exists(q)
        /\ \A q \in Logins : Exists(q) =>
             \/ session'[q].level = session[q].level /\ session'[q].at = session[q].at
             \/ session'[q].level # "base" /\ session'[q].at \in Nat
    BY <1>17, VerifyEffect DEF Inv
  <2>2. \A q \in Logins : session'[q] # Gone => ((session'[q].level = "base") <=> (session'[q].at = -1))
    BY <2>1 DEF Inv, TypeOK, Exists
  <2>3. /\ u \in Calls
        /\ \E a \in {"refused", "ok", "failed"} : pc' = [pc EXCEPT ![u] = "done"] /\ answer' = [answer EXCEPT ![u] = a]
        /\ UNCHANGED <<before, committed, current, ask, stamp, targets, password, token, now>>
    BY <1>17 DEF Verify, End, Calls, resetHistory
  <2>4. /\ \A c \in Resets : pc'[c] = pc[c]
        /\ \A v \in StepUps : pc'[v] # "idle" => pc[v] # "idle" \/ v = u
    BY <2>3, Disjoint DEF Inv, TypeOK, Calls
  <2>5. pc[u] = "verify"
    BY <1>17 DEF Verify, Runs
  <2>6. pc' \in [Calls -> {"idle", "select", "create", "account", "invalidate", "insert", "consume",
                          "password", "snapshot", "revoke", "session", "verify", "commit", "done"}]
        /\ answer' \in [Calls -> {"none", "ok", "refused", "failed"}]
    BY <2>3 DEF Inv, TypeOK
  <2> QED
    BY <2>1, <2>2, <2>3, <2>4, <2>5, <2>6 DEF Inv, TypeOK
<1>18. ASSUME NEW s \in Logins, Touch(s) PROVE TypeOK'
  <2>1. /\ session' \in [Logins -> SessionRow \cup {Gone}]
        /\ \A q \in Logins : Exists(q)' <=> Exists(q)
        /\ \A q \in Logins : Exists(q) => /\ session'[q].level = session[q].level
                                          /\ session'[q].at = session[q].at
    BY <1>18, TouchEffect DEF Inv
  <2> QED
    BY <1>18, <2>1 DEF Touch, Inv, TypeOK, Exists, callVars, resetHistory
<1>19. ASSUME NEW s \in Logins, Logout(s) PROVE TypeOK'
  <2>1. /\ session' \in [Logins -> SessionRow \cup {Gone}]
        /\ \A q \in Logins : Exists(q)' <=> Exists(q)
        /\ \A q \in Logins : Exists(q) => /\ session'[q].level = session[q].level
                                          /\ session'[q].at = session[q].at
    BY <1>19, LogoutEffect DEF Inv
  <2> QED
    BY <1>19, <2>1 DEF Logout, Inv, TypeOK, Exists, callVars, resetHistory
<1>20. CASE PruneExpired
  BY <1>20, Disjoint, TimesAssumption DEF PruneExpired, Inv, TypeOK, callVars, resetHistory, Calls
<1>21. ASSUME NEW c \in Calls, Fail(c) PROVE TypeOK'
  BY <1>21, Disjoint, TimesAssumption DEF Fail, End, Inv, TypeOK, callVars, resetHistory, Calls
<1>22. CASE Tick
  BY <1>22, Disjoint, TimesAssumption DEF Tick, Inv, TypeOK, callVars, resetHistory, Calls
<1>23. CASE UNCHANGED vars
  BY <1>23 DEF Inv, TypeOK, Calls, vars, callVars, resetHistory
<1> QED
  BY <1>1, <1>2, <1>3, <1>4, <1>5, <1>6, <1>7, <1>8, <1>9, <1>10, <1>11, <1>12, <1>13, <1>14, <1>15, <1>16, <1>17, <1>18, <1>19, <1>20, <1>21, <1>22, <1>23 DEF Next, Step, AbortVictim

(* Only the call a row is named by creates it, as it ends. *)
LEMMA RowsStep == Inv /\ [Next]_vars => RowsOfDone'
<1> SUFFICES ASSUME Inv, [Next]_vars PROVE RowsOfDone'
  OBVIOUS
<1>1. ASSUME NEW l \in Logins, SendLogin(l) PROVE RowsOfDone'
  BY <1>1, Disjoint DEF SendLogin, Goto, Inv, TypeOK, RowsOfDone, callVars, resetHistory, Exists, Calls
<1>2. ASSUME NEW l \in Logins, SelectAccount(l) PROVE RowsOfDone'
  BY <1>2, Disjoint DEF SelectAccount, Goto, End, Runs, Inv, TypeOK, RowsOfDone, callVars, resetHistory, Exists, Calls
<1>3. ASSUME NEW l \in Logins, CreateSession(l) PROVE RowsOfDone'
  BY <1>3, Disjoint DEF CreateSession, NewSession, End, Runs, Recent, Inv, TypeOK, RowsOfDone, callVars, resetHistory, Exists, Calls
<1>4. ASSUME NEW i \in Issues, SendIssue(i) PROVE RowsOfDone'
  BY <1>4, Disjoint DEF SendIssue, Goto, Inv, TypeOK, RowsOfDone, callVars, resetHistory, Exists, Calls
<1>5. ASSUME NEW i \in Issues, LockAccount(i) PROVE RowsOfDone'
  BY <1>5, Disjoint DEF LockAccount, Goto, Runs, Inv, TypeOK, RowsOfDone, callVars, resetHistory, Exists, Calls
<1>6. ASSUME NEW i \in Issues, InvalidateTokens(i) PROVE RowsOfDone'
  BY <1>6, Disjoint DEF InvalidateTokens, Goto, Runs, Inv, TypeOK, RowsOfDone, callVars, resetHistory, Exists, Calls
<1>7. ASSUME NEW i \in Issues, InsertToken(i) PROVE RowsOfDone'
  BY <1>7, Disjoint DEF InsertToken, Goto, Runs, Inv, TypeOK, RowsOfDone, callVars, resetHistory, Exists, Calls
<1>8. ASSUME NEW i \in Issues, CommitIssue(i) PROVE RowsOfDone'
  <2>1. \A t \in Issues : t # i => (token'[t] # Gone <=> token[t] # Gone)
    BY <1>8, CommitIssueEffect DEF Inv
  <2> QED
    BY <1>8, <2>1, Disjoint DEF CommitIssue, End, Runs, Inv, TypeOK, RowsOfDone, Exists, Calls
<1>9. ASSUME NEW r \in Resets, SendReset(r) PROVE RowsOfDone'
  BY <1>9, Disjoint DEF SendReset, Goto, Inv, TypeOK, RowsOfDone, callVars, resetHistory, Exists, Calls
<1>10. ASSUME NEW r \in Resets, Consume(r) PROVE RowsOfDone'
  BY <1>10, Disjoint DEF Consume, Goto, End, Runs, Inv, TypeOK, RowsOfDone, callVars, resetHistory, Exists, Calls
<1>11. ASSUME NEW r \in Resets, SetPassword(r) PROVE RowsOfDone'
  BY <1>11, Disjoint DEF SetPassword, Goto, Runs, Inv, TypeOK, RowsOfDone, callVars, resetHistory, Exists, Calls
<1>12. ASSUME NEW r \in Resets, BeginRevoke(r) PROVE RowsOfDone'
  BY <1>12, Disjoint DEF BeginRevoke, Unrevoked, Goto, Runs, Inv, TypeOK, RowsOfDone, callVars, resetHistory, Exists, Calls
<1>13. ASSUME NEW r \in Resets, Revoke(r) PROVE RowsOfDone'
  BY <1>13, Disjoint DEF Revoke, Goto, Runs, Inv, TypeOK, RowsOfDone, callVars, resetHistory, Exists, Calls
<1>14. ASSUME NEW r \in Resets, CommitReset(r) PROVE RowsOfDone'
  <2>1. token[ask[r]] # Gone
    BY <1>14 DEF CommitReset, Runs, Inv, ResetKnows, Open
  <2>2. /\ \A q \in Logins : Exists(q)' <=> Exists(q)
        /\ \A t \in Issues : t # ask[r] => token'[t] = token[t]
    BY <1>14, <2>1, CommitResetEffect DEF Inv
  <2> QED
    BY <1>14, <2>1, <2>2, Disjoint DEF CommitReset, End, Runs, Inv, TypeOK, RowsOfDone, Calls
<1>15. ASSUME NEW u \in StepUps, SendStepUp(u) PROVE RowsOfDone'
  BY <1>15, Disjoint DEF SendStepUp, Goto, Inv, TypeOK, RowsOfDone, callVars, resetHistory, Exists, Calls
<1>16. ASSUME NEW u \in StepUps, LockSession(u) PROVE RowsOfDone'
  BY <1>16, Disjoint DEF LockSession, Goto, End, Runs, Inv, TypeOK, RowsOfDone, callVars, resetHistory, Exists, Calls
<1>17. ASSUME NEW u \in StepUps, Verify(u) PROVE RowsOfDone'
  BY <1>17, Disjoint DEF Verify, End, Runs, Inv, TypeOK, RowsOfDone, callVars, resetHistory, Exists, Calls
<1>18. ASSUME NEW s \in Logins, Touch(s) PROVE RowsOfDone'
  <2>1. \A q \in Logins : Exists(q)' <=> Exists(q)
    BY <1>18, TouchEffect DEF Inv
  <2> QED
    BY <1>18, <2>1 DEF Touch, Inv, RowsOfDone, callVars
<1>19. ASSUME NEW s \in Logins, Logout(s) PROVE RowsOfDone'
  BY <1>19, Disjoint DEF Logout, Inv, TypeOK, RowsOfDone, callVars, resetHistory, Exists, Calls
<1>20. CASE PruneExpired
  BY <1>20, Disjoint DEF PruneExpired, Inv, TypeOK, RowsOfDone, callVars, resetHistory, Exists, Calls
<1>21. ASSUME NEW c \in Calls, Fail(c) PROVE RowsOfDone'
  BY <1>21, Disjoint DEF Fail, End, Inv, TypeOK, RowsOfDone, callVars, resetHistory, Exists, Calls
<1>22. CASE Tick
  BY <1>22, Disjoint DEF Tick, Inv, TypeOK, RowsOfDone, callVars, resetHistory, Exists, Calls
<1>23. CASE UNCHANGED vars
  BY <1>23 DEF Inv, TypeOK, RowsOfDone, Exists, Calls, vars, callVars, resetHistory
<1> QED
  BY <1>1, <1>2, <1>3, <1>4, <1>5, <1>6, <1>7, <1>8, <1>9, <1>10, <1>11, <1>12, <1>13, <1>14, <1>15, <1>16, <1>17, <1>18, <1>19, <1>20, <1>21, <1>22, <1>23 DEF Next, Step, AbortVictim

(* The account is taken by LockAccount and by SetPassword, which wait for whoever *)
(* has it.                                                                        *)
LEMMA AccountStep == Inv /\ [Next]_vars => AccountExclusive'
<1> SUFFICES ASSUME Inv, [Next]_vars PROVE AccountExclusive'
  OBVIOUS
<1>1. ASSUME NEW l \in Logins, SendLogin(l) PROVE AccountExclusive'
  BY <1>1, Disjoint DEF SendLogin, Goto, Inv, TypeOK, AccountExclusive, StepUpKnows, callVars, resetHistory, AccountHolders, IssueHolds, Calls
<1>2. ASSUME NEW l \in Logins, SelectAccount(l) PROVE AccountExclusive'
  BY <1>2, Disjoint DEF SelectAccount, Goto, End, Runs, Inv, TypeOK, AccountExclusive, StepUpKnows, callVars, resetHistory, AccountHolders, IssueHolds, Calls
<1>3. ASSUME NEW l \in Logins, CreateSession(l) PROVE AccountExclusive'
  BY <1>3, Disjoint DEF CreateSession, NewSession, End, Runs, Recent, Inv, TypeOK, AccountExclusive, StepUpKnows, callVars, resetHistory, AccountHolders, IssueHolds, Calls
<1>4. ASSUME NEW i \in Issues, SendIssue(i) PROVE AccountExclusive'
  BY <1>4, Disjoint DEF SendIssue, Goto, Inv, TypeOK, AccountExclusive, StepUpKnows, callVars, resetHistory, AccountHolders, IssueHolds, Calls
<1>5. ASSUME NEW i \in Issues, LockAccount(i) PROVE AccountExclusive'
  <2>1. AccountHolders \subseteq {i}
    BY <1>5, Waits DEF LockAccount, Calls
  <2>2. AccountHolders' \subseteq AccountHolders \cup {i}
    BY <1>5, Disjoint DEF LockAccount, Goto, Inv, TypeOK, Calls, AccountHolders, IssueHolds
  <2> QED
    BY <2>1, <2>2 DEF AccountExclusive
<1>6. ASSUME NEW i \in Issues, InvalidateTokens(i) PROVE AccountExclusive'
  BY <1>6, Disjoint DEF InvalidateTokens, Goto, Runs, Inv, TypeOK, AccountExclusive, StepUpKnows, callVars, resetHistory, AccountHolders, IssueHolds, Calls
<1>7. ASSUME NEW i \in Issues, InsertToken(i) PROVE AccountExclusive'
  BY <1>7, Disjoint DEF InsertToken, Goto, Runs, Inv, TypeOK, AccountExclusive, StepUpKnows, callVars, resetHistory, AccountHolders, IssueHolds, Calls
<1>8. ASSUME NEW i \in Issues, CommitIssue(i) PROVE AccountExclusive'
  BY <1>8, Disjoint DEF CommitIssue, End, Runs, Inv, TypeOK, AccountExclusive, StepUpKnows, callVars, resetHistory, AccountHolders, IssueHolds, Calls
<1>9. ASSUME NEW r \in Resets, SendReset(r) PROVE AccountExclusive'
  BY <1>9, Disjoint DEF SendReset, Goto, Inv, TypeOK, AccountExclusive, StepUpKnows, callVars, resetHistory, AccountHolders, IssueHolds, Calls
<1>10. ASSUME NEW r \in Resets, Consume(r) PROVE AccountExclusive'
  BY <1>10, Disjoint DEF Consume, Goto, End, Runs, Inv, TypeOK, AccountExclusive, StepUpKnows, callVars, resetHistory, AccountHolders, IssueHolds, Calls
<1>11. ASSUME NEW r \in Resets, SetPassword(r) PROVE AccountExclusive'
  <2>1. AccountHolders \subseteq {r}
    BY <1>11, Waits DEF SetPassword, Calls
  <2>2. AccountHolders' \subseteq AccountHolders \cup {r}
    BY <1>11, Disjoint DEF SetPassword, Goto, Inv, TypeOK, Calls, AccountHolders, IssueHolds
  <2> QED
    BY <2>1, <2>2 DEF AccountExclusive
<1>12. ASSUME NEW r \in Resets, BeginRevoke(r) PROVE AccountExclusive'
  BY <1>12, Disjoint DEF BeginRevoke, Unrevoked, Goto, Runs, Inv, TypeOK, AccountExclusive, StepUpKnows, callVars, resetHistory, AccountHolders, IssueHolds, Calls
<1>13. ASSUME NEW r \in Resets, Revoke(r) PROVE AccountExclusive'
  BY <1>13, Disjoint DEF Revoke, Goto, Runs, Inv, TypeOK, AccountExclusive, StepUpKnows, callVars, resetHistory, AccountHolders, IssueHolds, Calls
<1>14. ASSUME NEW r \in Resets, CommitReset(r) PROVE AccountExclusive'
  BY <1>14, Disjoint DEF CommitReset, Consumed, End, Runs, Inv, TypeOK, AccountExclusive, StepUpKnows, callVars, resetHistory, AccountHolders, IssueHolds, Calls
<1>15. ASSUME NEW u \in StepUps, SendStepUp(u) PROVE AccountExclusive'
  BY <1>15, Disjoint DEF SendStepUp, Goto, Inv, TypeOK, AccountExclusive, StepUpKnows, callVars, resetHistory, AccountHolders, IssueHolds, Calls
<1>16. ASSUME NEW u \in StepUps, LockSession(u) PROVE AccountExclusive'
  BY <1>16, Disjoint DEF LockSession, Goto, End, Runs, Inv, TypeOK, AccountExclusive, StepUpKnows, callVars, resetHistory, AccountHolders, IssueHolds, Calls
<1>17. ASSUME NEW u \in StepUps, Verify(u) PROVE AccountExclusive'
  BY <1>17, Disjoint DEF Verify, End, Runs, Inv, TypeOK, AccountExclusive, StepUpKnows, callVars, resetHistory, AccountHolders, IssueHolds, Calls
<1>18. ASSUME NEW s \in Logins, Touch(s) PROVE AccountExclusive'
  BY <1>18, Disjoint DEF Touch, Inv, TypeOK, AccountExclusive, StepUpKnows, callVars, resetHistory, AccountHolders, IssueHolds, Calls
<1>19. ASSUME NEW s \in Logins, Logout(s) PROVE AccountExclusive'
  BY <1>19, Disjoint DEF Logout, Inv, TypeOK, AccountExclusive, StepUpKnows, callVars, resetHistory, AccountHolders, IssueHolds, Calls
<1>20. CASE PruneExpired
  BY <1>20, Disjoint DEF PruneExpired, Inv, TypeOK, AccountExclusive, StepUpKnows, callVars, resetHistory, AccountHolders, IssueHolds, Calls
<1>21. ASSUME NEW c \in Calls, Fail(c) PROVE AccountExclusive'
  BY <1>21, Disjoint DEF Fail, End, Inv, TypeOK, AccountExclusive, StepUpKnows, callVars, resetHistory, AccountHolders, IssueHolds, Calls
<1>22. CASE Tick
  BY <1>22, Disjoint DEF Tick, Inv, TypeOK, AccountExclusive, StepUpKnows, callVars, resetHistory, AccountHolders, IssueHolds, Calls
<1>23. CASE UNCHANGED vars
  BY <1>23 DEF Inv, TypeOK, AccountExclusive, StepUpKnows, AccountHolders, IssueHolds, Calls, vars, callVars, resetHistory
<1> QED
  BY <1>1, <1>2, <1>3, <1>4, <1>5, <1>6, <1>7, <1>8, <1>9, <1>10, <1>11, <1>12, <1>13, <1>14, <1>15, <1>16, <1>17, <1>18, <1>19, <1>20, <1>21, <1>22, <1>23 DEF Next, Step, AbortVictim

(* A token that works is taken by the UPDATE of an issue or of a reset, which waits *)
(* for whoever has it; a token that no longer works is taken by nobody.            *)
LEMMA TokenStep == Inv /\ [Next]_vars => TokenExclusive'
<1> SUFFICES ASSUME Inv, [Next]_vars PROVE TokenExclusive'
  OBVIOUS
<1>1. ASSUME NEW l \in Logins, SendLogin(l) PROVE TokenExclusive'
  BY <1>1, Disjoint DEF SendLogin, Goto, Inv, TypeOK, TokenExclusive, callVars, resetHistory, TokenHolders, Calls
<1>2. ASSUME NEW l \in Logins, SelectAccount(l) PROVE TokenExclusive'
  BY <1>2, Disjoint DEF SelectAccount, Goto, End, Runs, Inv, TypeOK, TokenExclusive, callVars, resetHistory, TokenHolders, Calls
<1>3. ASSUME NEW l \in Logins, CreateSession(l) PROVE TokenExclusive'
  <2>1. pc[l] = "create" /\ pc' = [pc EXCEPT ![l] = "done"] /\ UNCHANGED <<ask, targets>>
    BY <1>3 DEF CreateSession, Runs, End
  <2>2. \A t \in Issues : TokenHolders(t)' = TokenHolders(t)
    BY <2>1, Disjoint DEF Inv, TypeOK, Calls, TokenHolders
  <2> QED
    BY <2>2 DEF Inv, TokenExclusive
<1>4. ASSUME NEW i \in Issues, SendIssue(i) PROVE TokenExclusive'
  BY <1>4, Disjoint DEF SendIssue, Goto, Inv, TypeOK, TokenExclusive, callVars, resetHistory, TokenHolders, Calls
<1>5. ASSUME NEW i \in Issues, LockAccount(i) PROVE TokenExclusive'
  BY <1>5, Disjoint DEF LockAccount, Goto, Runs, Inv, TypeOK, TokenExclusive, callVars, resetHistory, TokenHolders, Calls
<1>6. ASSUME NEW i \in Issues, InvalidateTokens(i) PROVE TokenExclusive'
  <2>1. \A t \in Issues : Open(t) => TokenHolders(t) \subseteq {i}
    BY <1>6, Waits DEF InvalidateTokens, Calls
  <2>2. /\ pc' = [pc EXCEPT ![i] = "insert"] /\ UNCHANGED ask
        /\ targets' = [targets EXCEPT ![i] = {t \in Issues : Open(t)}]
    BY <1>6 DEF InvalidateTokens, Goto
  <2>3. \A t \in Issues : /\ Open(t) => TokenHolders(t)' \subseteq TokenHolders(t) \cup {i}
                          /\ ~Open(t) => TokenHolders(t)' \subseteq TokenHolders(t)
    BY <2>2, Disjoint DEF Inv, TypeOK, Calls, TokenHolders
  <2> QED
    BY <2>1, <2>3 DEF Inv, TokenExclusive
<1>7. ASSUME NEW i \in Issues, InsertToken(i) PROVE TokenExclusive'
  BY <1>7, Disjoint DEF InsertToken, Goto, Runs, Inv, TypeOK, TokenExclusive, callVars, resetHistory, TokenHolders, Calls
<1>8. ASSUME NEW i \in Issues, CommitIssue(i) PROVE TokenExclusive'
  BY <1>8, Disjoint DEF CommitIssue, End, Runs, Inv, TypeOK, TokenExclusive, callVars, resetHistory, TokenHolders, Calls
<1>9. ASSUME NEW r \in Resets, SendReset(r) PROVE TokenExclusive'
  BY <1>9, Disjoint DEF SendReset, Goto, Inv, TypeOK, TokenExclusive, callVars, resetHistory, TokenHolders, Calls
<1>10. ASSUME NEW r \in Resets, Consume(r) PROVE TokenExclusive'
  <2>1. TokenHolders(ask[r]) \subseteq {r}
    BY <1>10, Waits DEF Consume, Calls
  <2>2. /\ UNCHANGED <<ask, targets>>
        /\ pc' \in {[pc EXCEPT ![r] = "password"], [pc EXCEPT ![r] = "done"]}
    BY <1>10 DEF Consume, Goto, End
  <2>3. /\ TokenHolders(ask[r])' \subseteq TokenHolders(ask[r]) \cup {r}
        /\ \A t \in Issues : t # ask[r] => TokenHolders(t)' \subseteq TokenHolders(t)
    BY <2>2, Disjoint DEF Inv, TypeOK, Calls, TokenHolders
  <2> QED
    BY <2>1, <2>2, <2>3 DEF Inv, TokenExclusive
<1>11. ASSUME NEW r \in Resets, SetPassword(r) PROVE TokenExclusive'
  BY <1>11, Disjoint DEF SetPassword, Goto, Runs, Inv, TypeOK, TokenExclusive, callVars, resetHistory, TokenHolders, Calls
<1>12. ASSUME NEW r \in Resets, BeginRevoke(r) PROVE TokenExclusive'
  BY <1>12, Disjoint DEF BeginRevoke, Unrevoked, Goto, Runs, Inv, TypeOK, TokenExclusive, callVars, resetHistory, TokenHolders, Calls
<1>13. ASSUME NEW r \in Resets, Revoke(r) PROVE TokenExclusive'
  BY <1>13, Disjoint DEF Revoke, Goto, Runs, Inv, TypeOK, TokenExclusive, callVars, resetHistory, TokenHolders, Calls
<1>14. ASSUME NEW r \in Resets, CommitReset(r) PROVE TokenExclusive'
  BY <1>14, Disjoint DEF CommitReset, Consumed, End, Runs, Inv, TypeOK, TokenExclusive, callVars, resetHistory, TokenHolders, Calls
<1>15. ASSUME NEW u \in StepUps, SendStepUp(u) PROVE TokenExclusive'
  BY <1>15, Disjoint DEF SendStepUp, Goto, Inv, TypeOK, TokenExclusive, callVars, resetHistory, TokenHolders, Calls
<1>16. ASSUME NEW u \in StepUps, LockSession(u) PROVE TokenExclusive'
  BY <1>16, Disjoint DEF LockSession, Goto, End, Runs, Inv, TypeOK, TokenExclusive, callVars, resetHistory, TokenHolders, Calls
<1>17. ASSUME NEW u \in StepUps, Verify(u) PROVE TokenExclusive'
  BY <1>17, Disjoint DEF Verify, End, Runs, Inv, TypeOK, TokenExclusive, callVars, resetHistory, TokenHolders, Calls
<1>18. ASSUME NEW s \in Logins, Touch(s) PROVE TokenExclusive'
  BY <1>18, Disjoint DEF Touch, Inv, TypeOK, TokenExclusive, callVars, resetHistory, TokenHolders, Calls
<1>19. ASSUME NEW s \in Logins, Logout(s) PROVE TokenExclusive'
  BY <1>19, Disjoint DEF Logout, Inv, TypeOK, TokenExclusive, callVars, resetHistory, TokenHolders, Calls
<1>20. CASE PruneExpired
  BY <1>20, Disjoint DEF PruneExpired, Inv, TypeOK, TokenExclusive, callVars, resetHistory, TokenHolders, Calls
<1>21. ASSUME NEW c \in Calls, Fail(c) PROVE TokenExclusive'
  BY <1>21, Disjoint DEF Fail, End, Inv, TypeOK, TokenExclusive, callVars, resetHistory, TokenHolders, Calls
<1>22. CASE Tick
  BY <1>22, Disjoint DEF Tick, Inv, TypeOK, TokenExclusive, callVars, resetHistory, TokenHolders, Calls
<1>23. CASE UNCHANGED vars
  BY <1>23 DEF Inv, TypeOK, TokenExclusive, TokenHolders, Calls, vars, callVars, resetHistory
<1> QED
  BY <1>1, <1>2, <1>3, <1>4, <1>5, <1>6, <1>7, <1>8, <1>9, <1>10, <1>11, <1>12, <1>13, <1>14, <1>15, <1>16, <1>17, <1>18, <1>19, <1>20, <1>21, <1>22, <1>23 DEF Next, Step, AbortVictim

(* A session is taken by LockSession and by the UPDATE of a reset, which wait for *)
(* whoever has it.                                                                *)
LEMMA SessionStep == Inv /\ [Next]_vars => SessionExclusive'
<1> SUFFICES ASSUME Inv, [Next]_vars PROVE SessionExclusive'
  OBVIOUS
<1>1. ASSUME NEW l \in Logins, SendLogin(l) PROVE SessionExclusive'
  BY <1>1, Disjoint DEF SendLogin, Goto, Inv, TypeOK, SessionExclusive, callVars, resetHistory, Calls
<1>2. ASSUME NEW l \in Logins, SelectAccount(l) PROVE SessionExclusive'
  BY <1>2, Disjoint DEF SelectAccount, Goto, End, Runs, Inv, TypeOK, SessionExclusive, callVars, resetHistory, Calls
<1>3. ASSUME NEW l \in Logins, CreateSession(l) PROVE SessionExclusive'
  BY <1>3, Disjoint DEF CreateSession, NewSession, End, Runs, Recent, Inv, TypeOK, SessionExclusive, callVars, resetHistory, Calls
<1>4. ASSUME NEW i \in Issues, SendIssue(i) PROVE SessionExclusive'
  BY <1>4, Disjoint DEF SendIssue, Goto, Inv, TypeOK, SessionExclusive, callVars, resetHistory, Calls
<1>5. ASSUME NEW i \in Issues, LockAccount(i) PROVE SessionExclusive'
  BY <1>5, Disjoint DEF LockAccount, Goto, Runs, Inv, TypeOK, SessionExclusive, callVars, resetHistory, Calls
<1>6. ASSUME NEW i \in Issues, InvalidateTokens(i) PROVE SessionExclusive'
  BY <1>6, Disjoint DEF InvalidateTokens, Goto, Runs, Inv, TypeOK, SessionExclusive, callVars, resetHistory, Calls
<1>7. ASSUME NEW i \in Issues, InsertToken(i) PROVE SessionExclusive'
  BY <1>7, Disjoint DEF InsertToken, Goto, Runs, Inv, TypeOK, SessionExclusive, callVars, resetHistory, Calls
<1>8. ASSUME NEW i \in Issues, CommitIssue(i) PROVE SessionExclusive'
  BY <1>8, Disjoint DEF CommitIssue, End, Runs, Inv, TypeOK, SessionExclusive, callVars, resetHistory, Calls
<1>9. ASSUME NEW r \in Resets, SendReset(r) PROVE SessionExclusive'
  BY <1>9, Disjoint DEF SendReset, Goto, Inv, TypeOK, SessionExclusive, callVars, resetHistory, Calls
<1>10. ASSUME NEW r \in Resets, Consume(r) PROVE SessionExclusive'
  BY <1>10, Disjoint DEF Consume, Goto, End, Runs, Inv, TypeOK, SessionExclusive, callVars, resetHistory, Calls
<1>11. ASSUME NEW r \in Resets, SetPassword(r) PROVE SessionExclusive'
  BY <1>11, Disjoint DEF SetPassword, Goto, Runs, Inv, TypeOK, SessionExclusive, callVars, resetHistory, Calls
<1>12. ASSUME NEW r \in Resets, BeginRevoke(r) PROVE SessionExclusive'
  BY <1>12, Disjoint DEF BeginRevoke, Unrevoked, Goto, Runs, Inv, TypeOK, SessionExclusive, callVars, resetHistory, Calls
<1>13. ASSUME NEW r \in Resets, Revoke(r) PROVE SessionExclusive'
  <2>1. \A s \in targets[r] : SessionHolders(s) \subseteq {r}
    BY <1>13, Waits DEF Revoke, Calls
  <2>2. \A u \in StepUps : pc[u] = "verify" => ask[u] \notin targets[r]
    BY <2>1, Disjoint DEF SessionHolders, StepUpHolds
  <2> QED
    BY <1>13, <2>2, Disjoint DEF Revoke, Goto, Inv, TypeOK, Calls, SessionExclusive
<1>14. ASSUME NEW r \in Resets, CommitReset(r) PROVE SessionExclusive'
  BY <1>14, Disjoint DEF CommitReset, Consumed, End, Runs, Inv, TypeOK, SessionExclusive, callVars, resetHistory, Calls
<1>15. ASSUME NEW u \in StepUps, SendStepUp(u) PROVE SessionExclusive'
  BY <1>15, Disjoint DEF SendStepUp, Goto, Inv, TypeOK, SessionExclusive, callVars, resetHistory, Calls
<1>16. ASSUME NEW u \in StepUps, LockSession(u) PROVE SessionExclusive'
  <2>1. SessionHolders(ask[u]) \subseteq {u}
    BY <1>16, Waits DEF LockSession, Calls
  <2>2. /\ \A v \in StepUps : pc[v] = "verify" /\ ask[v] = ask[u] => v = u
        /\ \A r \in Resets : pc[r] = "commit" => ask[u] \notin targets[r]
    BY <2>1, Disjoint DEF SessionHolders, StepUpHolds
  <2>3. /\ UNCHANGED <<ask, targets>>
        /\ pc' \in {[pc EXCEPT ![u] = "verify"], [pc EXCEPT ![u] = "done"]}
    BY <1>16 DEF LockSession, Goto, End
  <2> QED
    BY <2>2, <2>3, Disjoint DEF Inv, TypeOK, Calls, SessionExclusive
<1>17. ASSUME NEW u \in StepUps, Verify(u) PROVE SessionExclusive'
  BY <1>17, Disjoint DEF Verify, End, Runs, Inv, TypeOK, SessionExclusive, callVars, resetHistory, Calls
<1>18. ASSUME NEW s \in Logins, Touch(s) PROVE SessionExclusive'
  BY <1>18, Disjoint DEF Touch, Inv, TypeOK, SessionExclusive, callVars, resetHistory, Calls
<1>19. ASSUME NEW s \in Logins, Logout(s) PROVE SessionExclusive'
  BY <1>19, Disjoint DEF Logout, Inv, TypeOK, SessionExclusive, callVars, resetHistory, Calls
<1>20. CASE PruneExpired
  BY <1>20, Disjoint DEF PruneExpired, Inv, TypeOK, SessionExclusive, callVars, resetHistory, Calls
<1>21. ASSUME NEW c \in Calls, Fail(c) PROVE SessionExclusive'
  BY <1>21, Disjoint DEF Fail, End, Inv, TypeOK, SessionExclusive, callVars, resetHistory, Calls
<1>22. CASE Tick
  BY <1>22, Disjoint DEF Tick, Inv, TypeOK, SessionExclusive, callVars, resetHistory, Calls
<1>23. CASE UNCHANGED vars
  BY <1>23 DEF Inv, TypeOK, SessionExclusive, Calls, vars, callVars, resetHistory
<1> QED
  BY <1>1, <1>2, <1>3, <1>4, <1>5, <1>6, <1>7, <1>8, <1>9, <1>10, <1>11, <1>12, <1>13, <1>14, <1>15, <1>16, <1>17, <1>18, <1>19, <1>20, <1>21, <1>22, <1>23 DEF Next, Step, AbortVictim

(* While an issue holds the account, nobody else commits a token or its use: the *)
(* tokens that work are those its UPDATE has found.                              *)
LEMMA IssueStep == Inv /\ [Next]_vars => IssueKnows'
<1> SUFFICES ASSUME Inv, [Next]_vars PROVE IssueKnows'
  OBVIOUS
<1>1. ASSUME NEW l \in Logins, SendLogin(l) PROVE IssueKnows'
  BY <1>1, Disjoint DEF SendLogin, Goto, Inv, TypeOK, IssueKnows, callVars, resetHistory, Open, Calls
<1>2. ASSUME NEW l \in Logins, SelectAccount(l) PROVE IssueKnows'
  BY <1>2, Disjoint DEF SelectAccount, Goto, End, Runs, Inv, TypeOK, IssueKnows, callVars, resetHistory, Open, Calls
<1>3. ASSUME NEW l \in Logins, CreateSession(l) PROVE IssueKnows'
  BY <1>3, Disjoint DEF CreateSession, NewSession, End, Runs, Recent, Inv, TypeOK, IssueKnows, callVars, resetHistory, Open, Calls
<1>4. ASSUME NEW i \in Issues, SendIssue(i) PROVE IssueKnows'
  BY <1>4, Disjoint DEF SendIssue, Goto, Inv, TypeOK, IssueKnows, callVars, resetHistory, Open, Calls
<1>5. ASSUME NEW i \in Issues, LockAccount(i) PROVE IssueKnows'
  BY <1>5, Disjoint DEF LockAccount, Goto, Runs, Inv, TypeOK, IssueKnows, callVars, resetHistory, Open, Calls
<1>6. ASSUME NEW i \in Issues, InvalidateTokens(i) PROVE IssueKnows'
  BY <1>6, Disjoint DEF InvalidateTokens, Goto, Runs, Inv, TypeOK, IssueKnows, callVars, resetHistory, Open, Calls
<1>7. ASSUME NEW i \in Issues, InsertToken(i) PROVE IssueKnows'
  BY <1>7, Disjoint DEF InsertToken, Goto, Runs, Inv, TypeOK, IssueKnows, callVars, resetHistory, Open, Calls
<1>8. ASSUME NEW i \in Issues, CommitIssue(i) PROVE IssueKnows'
  <2>1. pc[i] = "commit" /\ pc' = [pc EXCEPT ![i] = "done"] /\ UNCHANGED targets
    BY <1>8 DEF CommitIssue, Runs, End
  <2>2. \A j \in Issues : pc[j] \in {"insert", "commit"} => j = i
    BY <2>1 DEF Inv, AccountExclusive, AccountHolders, IssueHolds
  <2> QED
    BY <2>1, <2>2 DEF Inv, TypeOK, Calls, IssueKnows
<1>9. ASSUME NEW r \in Resets, SendReset(r) PROVE IssueKnows'
  BY <1>9, Disjoint DEF SendReset, Goto, Inv, TypeOK, IssueKnows, callVars, resetHistory, Open, Calls
<1>10. ASSUME NEW r \in Resets, Consume(r) PROVE IssueKnows'
  BY <1>10, Disjoint DEF Consume, Goto, End, Runs, Inv, TypeOK, IssueKnows, callVars, resetHistory, Open, Calls
<1>11. ASSUME NEW r \in Resets, SetPassword(r) PROVE IssueKnows'
  BY <1>11, Disjoint DEF SetPassword, Goto, Runs, Inv, TypeOK, IssueKnows, callVars, resetHistory, Open, Calls
<1>12. ASSUME NEW r \in Resets, BeginRevoke(r) PROVE IssueKnows'
  BY <1>12, Disjoint DEF BeginRevoke, Unrevoked, Goto, Runs, Inv, TypeOK, IssueKnows, callVars, resetHistory, Open, Calls
<1>13. ASSUME NEW r \in Resets, Revoke(r) PROVE IssueKnows'
  BY <1>13, Disjoint DEF Revoke, Goto, Runs, Inv, TypeOK, IssueKnows, callVars, resetHistory, Open, Calls
<1>14. ASSUME NEW r \in Resets, CommitReset(r) PROVE IssueKnows'
  <2>1. pc[r] = "commit" /\ pc' = [pc EXCEPT ![r] = "done"] /\ UNCHANGED targets
    BY <1>14 DEF CommitReset, Runs, End
  <2>2. \A j \in Issues : pc[j] \notin {"insert", "commit"}
    BY <2>1, Disjoint DEF Inv, AccountExclusive, AccountHolders, IssueHolds
  <2> QED
    BY <2>1, <2>2, Disjoint DEF Inv, TypeOK, Calls, IssueKnows
<1>15. ASSUME NEW u \in StepUps, SendStepUp(u) PROVE IssueKnows'
  BY <1>15, Disjoint DEF SendStepUp, Goto, Inv, TypeOK, IssueKnows, callVars, resetHistory, Open, Calls
<1>16. ASSUME NEW u \in StepUps, LockSession(u) PROVE IssueKnows'
  BY <1>16, Disjoint DEF LockSession, Goto, End, Runs, Inv, TypeOK, IssueKnows, callVars, resetHistory, Open, Calls
<1>17. ASSUME NEW u \in StepUps, Verify(u) PROVE IssueKnows'
  BY <1>17, Disjoint DEF Verify, End, Runs, Inv, TypeOK, IssueKnows, callVars, resetHistory, Open, Calls
<1>18. ASSUME NEW s \in Logins, Touch(s) PROVE IssueKnows'
  BY <1>18, Disjoint DEF Touch, Inv, TypeOK, IssueKnows, callVars, resetHistory, Open, Calls
<1>19. ASSUME NEW s \in Logins, Logout(s) PROVE IssueKnows'
  BY <1>19, Disjoint DEF Logout, Inv, TypeOK, IssueKnows, callVars, resetHistory, Open, Calls
<1>20. CASE PruneExpired
  BY <1>20, Disjoint DEF PruneExpired, Inv, TypeOK, IssueKnows, callVars, resetHistory, Open, Calls
<1>21. ASSUME NEW c \in Calls, Fail(c) PROVE IssueKnows'
  BY <1>21, Disjoint DEF Fail, End, Inv, TypeOK, IssueKnows, callVars, resetHistory, Open, Calls
<1>22. CASE Tick
  BY <1>22, Disjoint DEF Tick, Inv, TypeOK, IssueKnows, callVars, resetHistory, Open, Calls
<1>23. CASE UNCHANGED vars
  BY <1>23 DEF Inv, TypeOK, IssueKnows, Open, Calls, vars, callVars, resetHistory
<1> QED
  BY <1>1, <1>2, <1>3, <1>4, <1>5, <1>6, <1>7, <1>8, <1>9, <1>10, <1>11, <1>12, <1>13, <1>14, <1>15, <1>16, <1>17, <1>18, <1>19, <1>20, <1>21, <1>22, <1>23 DEF Next, Step, AbortVictim

(* A reset holds the token it consumes, so that no issue invalidates it and no other *)
(* reset consumes it before the COMMIT.                                             *)
LEMMA ResetStep == Inv /\ [Next]_vars => ResetKnows'
<1> SUFFICES ASSUME Inv, [Next]_vars PROVE ResetKnows'
  OBVIOUS
<1>1. ASSUME NEW l \in Logins, SendLogin(l) PROVE ResetKnows'
  BY <1>1, Disjoint DEF SendLogin, Goto, Inv, TypeOK, ResetKnows, callVars, resetHistory, Open, Calls
<1>2. ASSUME NEW l \in Logins, SelectAccount(l) PROVE ResetKnows'
  BY <1>2, Disjoint DEF SelectAccount, Goto, End, Runs, Inv, TypeOK, ResetKnows, callVars, resetHistory, Open, Calls
<1>3. ASSUME NEW l \in Logins, CreateSession(l) PROVE ResetKnows'
  BY <1>3, Disjoint DEF CreateSession, NewSession, End, Runs, Recent, Inv, TypeOK, ResetKnows, callVars, resetHistory, Open, Calls
<1>4. ASSUME NEW i \in Issues, SendIssue(i) PROVE ResetKnows'
  BY <1>4, Disjoint DEF SendIssue, Goto, Inv, TypeOK, ResetKnows, callVars, resetHistory, Open, Calls
<1>5. ASSUME NEW i \in Issues, LockAccount(i) PROVE ResetKnows'
  BY <1>5, Disjoint DEF LockAccount, Goto, Runs, Inv, TypeOK, ResetKnows, callVars, resetHistory, Open, Calls
<1>6. ASSUME NEW i \in Issues, InvalidateTokens(i) PROVE ResetKnows'
  BY <1>6, Disjoint DEF InvalidateTokens, Goto, Runs, Inv, TypeOK, ResetKnows, callVars, resetHistory, Open, Calls
<1>7. ASSUME NEW i \in Issues, InsertToken(i) PROVE ResetKnows'
  BY <1>7, Disjoint DEF InsertToken, Goto, Runs, Inv, TypeOK, ResetKnows, callVars, resetHistory, Open, Calls
<1>8. ASSUME NEW i \in Issues, CommitIssue(i) PROVE ResetKnows'
  <2>1. pc[i] = "commit" /\ pc' = [pc EXCEPT ![i] = "done"] /\ UNCHANGED ask
    BY <1>8 DEF CommitIssue, Runs, End
  <2> SUFFICES ASSUME NEW r \in Resets, pc[r] \in {"password", "snapshot", "revoke", "commit"}
               PROVE  Open(ask[r])'
    BY <2>1, Disjoint DEF Inv, TypeOK, Calls, ResetKnows
  <2>2. ask[r] \in Issues /\ Open(ask[r])
    BY DEF Inv, TypeOK, ResetKnows
  <2>3. ask[r] # i
    BY <2>1, <2>2 DEF Inv, RowsOfDone, Open
  <2>4. ask[r] \notin targets[i]
    BY <2>1, <2>2, Disjoint DEF Inv, TokenExclusive, TokenHolders
  <2>5. token'[ask[r]] = token[ask[r]]
    BY <1>8, <2>2, <2>3, <2>4, CommitIssueEffect DEF Inv
  <2> QED
    BY <2>1, <2>2, <2>5 DEF Open
<1>9. ASSUME NEW r \in Resets, SendReset(r) PROVE ResetKnows'
  BY <1>9, Disjoint DEF SendReset, Goto, Inv, TypeOK, ResetKnows, callVars, resetHistory, Open, Calls
<1>10. ASSUME NEW r \in Resets, Consume(r) PROVE ResetKnows'
  BY <1>10, Disjoint DEF Consume, Goto, End, Runs, Inv, TypeOK, ResetKnows, callVars, resetHistory, Open, Calls
<1>11. ASSUME NEW r \in Resets, SetPassword(r) PROVE ResetKnows'
  BY <1>11, Disjoint DEF SetPassword, Goto, Runs, Inv, TypeOK, ResetKnows, callVars, resetHistory, Open, Calls
<1>12. ASSUME NEW r \in Resets, BeginRevoke(r) PROVE ResetKnows'
  BY <1>12, Disjoint DEF BeginRevoke, Unrevoked, Goto, Runs, Inv, TypeOK, ResetKnows, callVars, resetHistory, Open, Calls
<1>13. ASSUME NEW r \in Resets, Revoke(r) PROVE ResetKnows'
  BY <1>13, Disjoint DEF Revoke, Goto, Runs, Inv, TypeOK, ResetKnows, callVars, resetHistory, Open, Calls
<1>14. ASSUME NEW r \in Resets, CommitReset(r) PROVE ResetKnows'
  <2>1. pc[r] = "commit" /\ pc' = [pc EXCEPT ![r] = "done"] /\ UNCHANGED ask
    BY <1>14 DEF CommitReset, Runs, End
  <2>2. ask[r] \in Issues /\ token[ask[r]] # Gone
    BY <2>1 DEF Inv, TypeOK, ResetKnows, Open
  <2>3. \A t \in Issues : t # ask[r] => token'[t] = token[t]
    BY <1>14, <2>2, CommitResetEffect DEF Inv
  <2> SUFFICES ASSUME NEW q \in Resets, q # r, pc[q] \in {"password", "snapshot", "revoke", "commit"}
               PROVE  Open(ask[q])'
    BY <2>1 DEF Inv, TypeOK, Calls, ResetKnows
  <2>4. ask[q] \in Issues /\ Open(ask[q])
    BY DEF Inv, TypeOK, ResetKnows
  <2>5. ask[q] # ask[r]
    BY <2>1, <2>2, <2>4 DEF Inv, TokenExclusive, TokenHolders
  <2> QED
    BY <2>1, <2>3, <2>4, <2>5 DEF Open
<1>15. ASSUME NEW u \in StepUps, SendStepUp(u) PROVE ResetKnows'
  BY <1>15, Disjoint DEF SendStepUp, Goto, Inv, TypeOK, ResetKnows, callVars, resetHistory, Open, Calls
<1>16. ASSUME NEW u \in StepUps, LockSession(u) PROVE ResetKnows'
  BY <1>16, Disjoint DEF LockSession, Goto, End, Runs, Inv, TypeOK, ResetKnows, callVars, resetHistory, Open, Calls
<1>17. ASSUME NEW u \in StepUps, Verify(u) PROVE ResetKnows'
  BY <1>17, Disjoint DEF Verify, End, Runs, Inv, TypeOK, ResetKnows, callVars, resetHistory, Open, Calls
<1>18. ASSUME NEW s \in Logins, Touch(s) PROVE ResetKnows'
  BY <1>18, Disjoint DEF Touch, Inv, TypeOK, ResetKnows, callVars, resetHistory, Open, Calls
<1>19. ASSUME NEW s \in Logins, Logout(s) PROVE ResetKnows'
  BY <1>19, Disjoint DEF Logout, Inv, TypeOK, ResetKnows, callVars, resetHistory, Open, Calls
<1>20. CASE PruneExpired
  BY <1>20, Disjoint DEF PruneExpired, Inv, TypeOK, ResetKnows, callVars, resetHistory, Open, Calls
<1>21. ASSUME NEW c \in Calls, Fail(c) PROVE ResetKnows'
  BY <1>21, Disjoint DEF Fail, End, Inv, TypeOK, ResetKnows, callVars, resetHistory, Open, Calls
<1>22. CASE Tick
  BY <1>22, Disjoint DEF Tick, Inv, TypeOK, ResetKnows, callVars, resetHistory, Open, Calls
<1>23. CASE UNCHANGED vars
  BY <1>23 DEF Inv, TypeOK, ResetKnows, Open, Calls, vars, callVars, resetHistory
<1> QED
  BY <1>1, <1>2, <1>3, <1>4, <1>5, <1>6, <1>7, <1>8, <1>9, <1>10, <1>11, <1>12, <1>13, <1>14, <1>15, <1>16, <1>17, <1>18, <1>19, <1>20, <1>21, <1>22, <1>23 DEF Next, Step, AbortVictim

(* Nothing makes a consumed token work again. *)
LEMMA CommittedStep == Inv /\ [Next]_vars => CommittedInv'
<1> SUFFICES ASSUME Inv, [Next]_vars PROVE CommittedInv'
  OBVIOUS
<1>1. ASSUME NEW l \in Logins, SendLogin(l) PROVE CommittedInv'
  BY <1>1, Disjoint DEF SendLogin, Goto, Inv, TypeOK, CommittedInv, callVars, resetHistory, Calls
<1>2. ASSUME NEW l \in Logins, SelectAccount(l) PROVE CommittedInv'
  BY <1>2, Disjoint DEF SelectAccount, Goto, End, Runs, Inv, TypeOK, CommittedInv, callVars, resetHistory, Calls
<1>3. ASSUME NEW l \in Logins, CreateSession(l) PROVE CommittedInv'
  BY <1>3, Disjoint DEF CreateSession, NewSession, End, Runs, Recent, Inv, TypeOK, CommittedInv, callVars, resetHistory, Calls
<1>4. ASSUME NEW i \in Issues, SendIssue(i) PROVE CommittedInv'
  BY <1>4, Disjoint DEF SendIssue, Goto, Inv, TypeOK, CommittedInv, callVars, resetHistory, Calls
<1>5. ASSUME NEW i \in Issues, LockAccount(i) PROVE CommittedInv'
  BY <1>5, Disjoint DEF LockAccount, Goto, Runs, Inv, TypeOK, CommittedInv, callVars, resetHistory, Calls
<1>6. ASSUME NEW i \in Issues, InvalidateTokens(i) PROVE CommittedInv'
  BY <1>6, Disjoint DEF InvalidateTokens, Goto, Runs, Inv, TypeOK, CommittedInv, callVars, resetHistory, Calls
<1>7. ASSUME NEW i \in Issues, InsertToken(i) PROVE CommittedInv'
  BY <1>7, Disjoint DEF InsertToken, Goto, Runs, Inv, TypeOK, CommittedInv, callVars, resetHistory, Calls
<1>8. ASSUME NEW i \in Issues, CommitIssue(i) PROVE CommittedInv'
  <2>1. pc[i] = "commit" /\ pc' = [pc EXCEPT ![i] = "done"] /\ UNCHANGED <<ask, committed>>
    BY <1>8 DEF CommitIssue, Runs, End, resetHistory
  <2> SUFFICES ASSUME NEW r \in committed
               PROVE  (pc[r] = "done" /\ token[ask[r]] # Gone /\ token[ask[r]].consumed)'
    BY <2>1 DEF CommittedInv
  <2>2. /\ r \in Resets /\ pc[r] = "done" /\ ask[r] \in Issues
        /\ token[ask[r]] # Gone /\ token[ask[r]].consumed
    BY DEF Inv, TypeOK, CommittedInv
  <2>3. ask[r] # i
    BY <2>1, <2>2 DEF Inv, RowsOfDone
  <2>4. token'[ask[r]] # Gone /\ token'[ask[r]].consumed = token[ask[r]].consumed
    BY <1>8, <2>2, <2>3, CommitIssueEffect DEF Inv
  <2> QED
    BY <2>1, <2>2, <2>4, Disjoint DEF Inv, TypeOK, Calls
<1>9. ASSUME NEW r \in Resets, SendReset(r) PROVE CommittedInv'
  BY <1>9, Disjoint DEF SendReset, Goto, Inv, TypeOK, CommittedInv, callVars, resetHistory, Calls
<1>10. ASSUME NEW r \in Resets, Consume(r) PROVE CommittedInv'
  BY <1>10, Disjoint DEF Consume, Goto, End, Runs, Inv, TypeOK, CommittedInv, callVars, resetHistory, Calls
<1>11. ASSUME NEW r \in Resets, SetPassword(r) PROVE CommittedInv'
  BY <1>11, Disjoint DEF SetPassword, Goto, Runs, Inv, TypeOK, CommittedInv, callVars, resetHistory, Calls
<1>12. ASSUME NEW r \in Resets, BeginRevoke(r) PROVE CommittedInv'
  BY <1>12, Disjoint DEF BeginRevoke, Unrevoked, Goto, Runs, Inv, TypeOK, CommittedInv, callVars, resetHistory, Calls
<1>13. ASSUME NEW r \in Resets, Revoke(r) PROVE CommittedInv'
  BY <1>13, Disjoint DEF Revoke, Goto, Runs, Inv, TypeOK, CommittedInv, callVars, resetHistory, Calls
<1>14. ASSUME NEW r \in Resets, CommitReset(r) PROVE CommittedInv'
  <2>1. /\ pc[r] = "commit" /\ pc' = [pc EXCEPT ![r] = "done"]
        /\ committed' = committed \cup {r} /\ UNCHANGED ask
    BY <1>14 DEF CommitReset, Runs, End
  <2>2. ask[r] \in Issues /\ token[ask[r]] # Gone
    BY <2>1 DEF Inv, TypeOK, ResetKnows, Open
  <2>3. /\ \A t \in Issues : t # ask[r] => token'[t] = token[t]
        /\ token'[ask[r]] # Gone /\ token'[ask[r]].consumed
    BY <1>14, <2>2, CommitResetEffect DEF Inv
  <2>4. pc'[r] = "done" /\ \A q \in Resets \ {r} : pc'[q] = pc[q]
    BY <2>1 DEF Inv, TypeOK, Calls
  <2>5. \A q \in committed : /\ q \in Resets /\ pc[q] = "done" /\ ask[q] \in Issues
                             /\ token[ask[q]] # Gone /\ token[ask[q]].consumed
    BY DEF Inv, TypeOK, CommittedInv
  <2> QED
    BY <2>1, <2>3, <2>4, <2>5 DEF CommittedInv
<1>15. ASSUME NEW u \in StepUps, SendStepUp(u) PROVE CommittedInv'
  BY <1>15, Disjoint DEF SendStepUp, Goto, Inv, TypeOK, CommittedInv, callVars, resetHistory, Calls
<1>16. ASSUME NEW u \in StepUps, LockSession(u) PROVE CommittedInv'
  BY <1>16, Disjoint DEF LockSession, Goto, End, Runs, Inv, TypeOK, CommittedInv, callVars, resetHistory, Calls
<1>17. ASSUME NEW u \in StepUps, Verify(u) PROVE CommittedInv'
  BY <1>17, Disjoint DEF Verify, End, Runs, Inv, TypeOK, CommittedInv, callVars, resetHistory, Calls
<1>18. ASSUME NEW s \in Logins, Touch(s) PROVE CommittedInv'
  BY <1>18, Disjoint DEF Touch, Inv, TypeOK, CommittedInv, callVars, resetHistory, Calls
<1>19. ASSUME NEW s \in Logins, Logout(s) PROVE CommittedInv'
  BY <1>19, Disjoint DEF Logout, Inv, TypeOK, CommittedInv, callVars, resetHistory, Calls
<1>20. CASE PruneExpired
  BY <1>20, Disjoint DEF PruneExpired, Inv, TypeOK, CommittedInv, callVars, resetHistory, Calls
<1>21. ASSUME NEW c \in Calls, Fail(c) PROVE CommittedInv'
  BY <1>21, Disjoint DEF Fail, End, Inv, TypeOK, CommittedInv, callVars, resetHistory, Calls
<1>22. CASE Tick
  BY <1>22, Disjoint DEF Tick, Inv, TypeOK, CommittedInv, callVars, resetHistory, Calls
<1>23. CASE UNCHANGED vars
  BY <1>23 DEF Inv, TypeOK, CommittedInv, Calls, vars, callVars, resetHistory
<1> QED
  BY <1>1, <1>2, <1>3, <1>4, <1>5, <1>6, <1>7, <1>8, <1>9, <1>10, <1>11, <1>12, <1>13, <1>14, <1>15, <1>16, <1>17, <1>18, <1>19, <1>20, <1>21, <1>22, <1>23 DEF Next, Step, AbortVictim

(* A session there was when the token was consumed is revoked already or among those *)
(* the UPDATE has found, and no later statement revives it.                         *)
LEMMA BeforeStep == Inv /\ [Next]_vars => BeforeInv'
<1> SUFFICES ASSUME Inv, [Next]_vars PROVE BeforeInv'
  OBVIOUS
<1>1. ASSUME NEW l \in Logins, SendLogin(l) PROVE BeforeInv'
  BY <1>1, Disjoint DEF SendLogin, Goto, Inv, TypeOK, BeforeInv, callVars, resetHistory, Exists, Calls
<1>2. ASSUME NEW l \in Logins, SelectAccount(l) PROVE BeforeInv'
  BY <1>2, Disjoint DEF SelectAccount, Goto, End, Runs, Inv, TypeOK, BeforeInv, callVars, resetHistory, Exists, Calls
<1>3. ASSUME NEW l \in Logins, CreateSession(l) PROVE BeforeInv'
  BY <1>3, Disjoint DEF CreateSession, NewSession, End, Runs, Recent, Inv, TypeOK, BeforeInv, callVars, resetHistory, Exists, Calls
<1>4. ASSUME NEW i \in Issues, SendIssue(i) PROVE BeforeInv'
  BY <1>4, Disjoint DEF SendIssue, Goto, Inv, TypeOK, BeforeInv, callVars, resetHistory, Exists, Calls
<1>5. ASSUME NEW i \in Issues, LockAccount(i) PROVE BeforeInv'
  BY <1>5, Disjoint DEF LockAccount, Goto, Runs, Inv, TypeOK, BeforeInv, callVars, resetHistory, Exists, Calls
<1>6. ASSUME NEW i \in Issues, InvalidateTokens(i) PROVE BeforeInv'
  BY <1>6, Disjoint DEF InvalidateTokens, Goto, Runs, Inv, TypeOK, BeforeInv, callVars, resetHistory, Exists, Calls
<1>7. ASSUME NEW i \in Issues, InsertToken(i) PROVE BeforeInv'
  BY <1>7, Disjoint DEF InsertToken, Goto, Runs, Inv, TypeOK, BeforeInv, callVars, resetHistory, Exists, Calls
<1>8. ASSUME NEW i \in Issues, CommitIssue(i) PROVE BeforeInv'
  BY <1>8, Disjoint DEF CommitIssue, End, Runs, Inv, TypeOK, BeforeInv, callVars, resetHistory, Exists, Calls
<1>9. ASSUME NEW r \in Resets, SendReset(r) PROVE BeforeInv'
  BY <1>9, Disjoint DEF SendReset, Goto, Inv, TypeOK, BeforeInv, callVars, resetHistory, Exists, Calls
<1>10. ASSUME NEW r \in Resets, Consume(r) PROVE BeforeInv'
  <2>1. /\ pc[r] = "consume" /\ before' = [before EXCEPT ![r] = {s \in Logins : Exists(s)}]
        /\ pc' \in {[pc EXCEPT ![r] = "password"], [pc EXCEPT ![r] = "done"]}
        /\ UNCHANGED <<session, targets, committed>>
    BY <1>10 DEF Consume, Runs, Goto, End
  <2>2. r \notin committed /\ \A s \in Logins : Exists(s) => pc[s] = "done" /\ s # r
    BY <2>1, Disjoint DEF Inv, CommittedInv, RowsOfDone
  <2>3. \A s \in Logins : pc'[s] = pc[s]
    BY <2>1, Disjoint DEF Inv, TypeOK, Calls
  <2> QED
    BY <2>1, <2>2, <2>3, Disjoint DEF Inv, TypeOK, BeforeInv, Calls, Exists
<1>11. ASSUME NEW r \in Resets, SetPassword(r) PROVE BeforeInv'
  BY <1>11, Disjoint DEF SetPassword, Goto, Runs, Inv, TypeOK, BeforeInv, callVars, resetHistory, Exists, Calls
<1>12. ASSUME NEW r \in Resets, BeginRevoke(r) PROVE BeforeInv'
  BY <1>12, Disjoint DEF BeginRevoke, Unrevoked, Goto, Runs, Inv, TypeOK, BeforeInv, callVars, resetHistory, Exists, Calls
<1>13. ASSUME NEW r \in Resets, Revoke(r) PROVE BeforeInv'
  BY <1>13, Disjoint DEF Revoke, Goto, Runs, Inv, TypeOK, BeforeInv, callVars, resetHistory, Exists, Calls
<1>14. ASSUME NEW r \in Resets, CommitReset(r) PROVE BeforeInv'
  <2>1. /\ pc[r] = "commit" /\ pc' = [pc EXCEPT ![r] = "done"]
        /\ committed' = committed \cup {r} /\ UNCHANGED <<before, targets>>
    BY <1>14 DEF CommitReset, Runs, End
  <2>2. token[ask[r]] # Gone
    BY <2>1 DEF Inv, ResetKnows, Open
  <2>3. /\ \A q \in Logins : Exists(q)' <=> Exists(q)
        /\ \A q \in Logins : Exists(q) => session'[q].revoked <=> session[q].revoked \/ q \in targets[r]
    BY <1>14, <2>2, CommitResetEffect DEF Inv
  <2>4. /\ pc'[r] = "done" /\ \A c \in Calls \ {r} : pc'[c] = pc[c]
        /\ \A q \in Resets : before[q] \subseteq Logins
    BY <2>1 DEF Inv, TypeOK, Calls
  <2> QED
    BY <2>1, <2>3, <2>4, Disjoint DEF Inv, BeforeInv, Calls
<1>15. ASSUME NEW u \in StepUps, SendStepUp(u) PROVE BeforeInv'
  BY <1>15, Disjoint DEF SendStepUp, Goto, Inv, TypeOK, BeforeInv, callVars, resetHistory, Exists, Calls
<1>16. ASSUME NEW u \in StepUps, LockSession(u) PROVE BeforeInv'
  BY <1>16, Disjoint DEF LockSession, Goto, End, Runs, Inv, TypeOK, BeforeInv, callVars, resetHistory, Exists, Calls
<1>17. ASSUME NEW u \in StepUps, Verify(u) PROVE BeforeInv'
  <2>1. /\ \A q \in Logins : Exists(q)' <=> Exists(q)
        /\ \A q \in Logins : Exists(q) => session'[q].revoked = session[q].revoked
    BY <1>17, VerifyEffect DEF Inv
  <2>2. /\ UNCHANGED <<before, committed, targets>>
        /\ \A c \in Logins \cup Resets : pc'[c] = pc[c]
    BY <1>17, Disjoint DEF Verify, End, Inv, TypeOK, Calls, callVars, resetHistory
  <2>3. \A q \in Resets : before[q] \subseteq Logins
    BY DEF Inv, TypeOK
  <2> QED
    BY <2>1, <2>2, <2>3 DEF Inv, BeforeInv
<1>18. ASSUME NEW s \in Logins, Touch(s) PROVE BeforeInv'
  <2>1. /\ \A q \in Logins : Exists(q)' <=> Exists(q)
        /\ \A q \in Logins : Exists(q) => session'[q].revoked = session[q].revoked
    BY <1>18, TouchEffect DEF Inv
  <2>2. /\ UNCHANGED <<before, committed, targets>>
        /\ \A c \in Logins \cup Resets : pc'[c] = pc[c]
    BY <1>18, Disjoint DEF Touch, End, Inv, TypeOK, Calls, callVars, resetHistory
  <2>3. \A q \in Resets : before[q] \subseteq Logins
    BY DEF Inv, TypeOK
  <2> QED
    BY <2>1, <2>2, <2>3 DEF Inv, BeforeInv
<1>19. ASSUME NEW s \in Logins, Logout(s) PROVE BeforeInv'
  BY <1>19, Disjoint DEF Logout, Inv, TypeOK, BeforeInv, callVars, resetHistory, Exists, Calls
<1>20. CASE PruneExpired
  BY <1>20, Disjoint DEF PruneExpired, Inv, TypeOK, BeforeInv, callVars, resetHistory, Exists, Calls
<1>21. ASSUME NEW c \in Calls, Fail(c) PROVE BeforeInv'
  BY <1>21, Disjoint DEF Fail, End, Inv, TypeOK, BeforeInv, callVars, resetHistory, Exists, Calls
<1>22. CASE Tick
  BY <1>22, Disjoint DEF Tick, Inv, TypeOK, BeforeInv, callVars, resetHistory, Exists, Calls
<1>23. CASE UNCHANGED vars
  BY <1>23 DEF Inv, TypeOK, BeforeInv, Exists, Calls, vars, callVars, resetHistory
<1> QED
  BY <1>1, <1>2, <1>3, <1>4, <1>5, <1>6, <1>7, <1>8, <1>9, <1>10, <1>11, <1>12, <1>13, <1>14, <1>15, <1>16, <1>17, <1>18, <1>19, <1>20, <1>21, <1>22, <1>23 DEF Next, Step, AbortVictim

(* The row is locked while the verifier answers: neither a logout, nor a reset, nor *)
(* another step-up, nor pruneExpired changes what the step-up has read.            *)
LEMMA StepUpStep == Inv /\ [Next]_vars => StepUpKnows'
<1> SUFFICES ASSUME Inv, [Next]_vars PROVE StepUpKnows'
  OBVIOUS
<1>1. ASSUME NEW l \in Logins, SendLogin(l) PROVE StepUpKnows'
  BY <1>1, Disjoint DEF SendLogin, Goto, Inv, TypeOK, StepUpKnows, callVars, resetHistory, Exists, Calls
<1>2. ASSUME NEW l \in Logins, SelectAccount(l) PROVE StepUpKnows'
  BY <1>2, Disjoint DEF SelectAccount, Goto, End, Runs, Inv, TypeOK, StepUpKnows, callVars, resetHistory, Exists, Calls
<1>3. ASSUME NEW l \in Logins, CreateSession(l) PROVE StepUpKnows'
  <2>1. /\ pc[l] = "create" /\ pc' = [pc EXCEPT ![l] = "done"] /\ UNCHANGED <<ask, current>>
        /\ \A q \in Logins : q # l => session'[q] = session[q]
    BY <1>3 DEF CreateSession, Runs, End, Inv, TypeOK
  <2>2. ~Exists(l)
    BY <2>1 DEF Inv, RowsOfDone
  <2>3. \A u \in StepUps : pc'[u] = pc[u] /\ (pc[u] # "idle" => ask[u] \in Logins)
    BY <2>1, Disjoint DEF Inv, TypeOK, Calls
  <2> QED
    BY <2>1, <2>2, <2>3 DEF Inv, StepUpKnows, Exists
<1>4. ASSUME NEW i \in Issues, SendIssue(i) PROVE StepUpKnows'
  BY <1>4, Disjoint DEF SendIssue, Goto, Inv, TypeOK, StepUpKnows, callVars, resetHistory, Exists, Calls
<1>5. ASSUME NEW i \in Issues, LockAccount(i) PROVE StepUpKnows'
  BY <1>5, Disjoint DEF LockAccount, Goto, Runs, Inv, TypeOK, StepUpKnows, callVars, resetHistory, Exists, Calls
<1>6. ASSUME NEW i \in Issues, InvalidateTokens(i) PROVE StepUpKnows'
  BY <1>6, Disjoint DEF InvalidateTokens, Goto, Runs, Inv, TypeOK, StepUpKnows, callVars, resetHistory, Exists, Calls
<1>7. ASSUME NEW i \in Issues, InsertToken(i) PROVE StepUpKnows'
  BY <1>7, Disjoint DEF InsertToken, Goto, Runs, Inv, TypeOK, StepUpKnows, callVars, resetHistory, Exists, Calls
<1>8. ASSUME NEW i \in Issues, CommitIssue(i) PROVE StepUpKnows'
  BY <1>8, Disjoint DEF CommitIssue, End, Runs, Inv, TypeOK, StepUpKnows, callVars, resetHistory, Exists, Calls
<1>9. ASSUME NEW r \in Resets, SendReset(r) PROVE StepUpKnows'
  BY <1>9, Disjoint DEF SendReset, Goto, Inv, TypeOK, StepUpKnows, callVars, resetHistory, Exists, Calls
<1>10. ASSUME NEW r \in Resets, Consume(r) PROVE StepUpKnows'
  BY <1>10, Disjoint DEF Consume, Goto, End, Runs, Inv, TypeOK, StepUpKnows, callVars, resetHistory, Exists, Calls
<1>11. ASSUME NEW r \in Resets, SetPassword(r) PROVE StepUpKnows'
  BY <1>11, Disjoint DEF SetPassword, Goto, Runs, Inv, TypeOK, StepUpKnows, callVars, resetHistory, Exists, Calls
<1>12. ASSUME NEW r \in Resets, BeginRevoke(r) PROVE StepUpKnows'
  BY <1>12, Disjoint DEF BeginRevoke, Unrevoked, Goto, Runs, Inv, TypeOK, StepUpKnows, callVars, resetHistory, Exists, Calls
<1>13. ASSUME NEW r \in Resets, Revoke(r) PROVE StepUpKnows'
  BY <1>13, Disjoint DEF Revoke, Goto, Runs, Inv, TypeOK, StepUpKnows, callVars, resetHistory, Exists, Calls
<1>14. ASSUME NEW r \in Resets, CommitReset(r) PROVE StepUpKnows'
  <2>1. pc[r] = "commit" /\ pc' = [pc EXCEPT ![r] = "done"] /\ UNCHANGED <<ask, current>>
    BY <1>14 DEF CommitReset, Runs, End
  <2>2. token[ask[r]] # Gone
    BY <2>1 DEF Inv, ResetKnows, Open
  <2>3. /\ \A q \in Logins : Exists(q)' <=> Exists(q)
        /\ \A q \in Logins : Exists(q) => /\ session'[q].revoked <=> session[q].revoked \/ q \in targets[r]
                                          /\ session'[q].level = session[q].level
    BY <1>14, <2>2, CommitResetEffect DEF Inv
  <2>4. \A u \in StepUps : /\ pc'[u] = pc[u] /\ (pc[u] # "idle" => ask[u] \in Logins)
                           /\ pc[u] = "verify" => ask[u] \notin targets[r]
    BY <2>1, Disjoint DEF Inv, TypeOK, Calls, SessionExclusive
  <2> QED
    BY <2>1, <2>3, <2>4 DEF Inv, StepUpKnows
<1>15. ASSUME NEW u \in StepUps, SendStepUp(u) PROVE StepUpKnows'
  BY <1>15, Disjoint DEF SendStepUp, Goto, Inv, TypeOK, StepUpKnows, callVars, resetHistory, Exists, Calls
<1>16. ASSUME NEW u \in StepUps, LockSession(u) PROVE StepUpKnows'
  <2>1. pc[u] = "session" /\ ask[u] \in Logins /\ UNCHANGED <<ask, session>>
    BY <1>16 DEF LockSession, Runs, Inv, TypeOK
  <2>2. CASE ActiveAt(ask[u], stamp[u])
    <3>1. pc' = [pc EXCEPT ![u] = "verify"] /\ current' = [current EXCEPT ![u] = session[ask[u]].level]
      BY <1>16, <2>2 DEF LockSession, Goto
    <3>2. Exists(ask[u]) /\ ~session[ask[u]].revoked
      BY <2>2 DEF ActiveAt
    <3> QED
      BY <2>1, <3>1, <3>2 DEF Inv, TypeOK, Calls, StepUpKnows, Exists
  <2>3. CASE ~ ActiveAt(ask[u], stamp[u])
    <3>1. pc' = [pc EXCEPT ![u] = "done"] /\ UNCHANGED current
      BY <1>16, <2>3 DEF LockSession, End
    <3> QED
      BY <2>1, <3>1 DEF Inv, TypeOK, Calls, StepUpKnows, Exists
  <2> QED
    BY <2>2, <2>3
<1>17. ASSUME NEW u \in StepUps, Verify(u) PROVE StepUpKnows'
  <2>1. /\ pc[u] = "verify" /\ pc' = [pc EXCEPT ![u] = "done"] /\ UNCHANGED <<ask, current>>
        /\ \A q \in Logins : q # ask[u] => session'[q] = session[q]
    BY <1>17, VerifyEffect DEF Verify, Runs, End, Inv
  <2>2. \A v \in StepUps : v # u /\ pc[v] = "verify" => ask[v] \in Logins /\ ask[v] # ask[u]
    BY <2>1 DEF Inv, TypeOK, SessionExclusive
  <2> QED
    BY <2>1, <2>2 DEF Inv, TypeOK, Calls, StepUpKnows, Exists
<1>18. ASSUME NEW s \in Logins, Touch(s) PROVE StepUpKnows'
  <2>1. /\ \A q \in Logins : Exists(q)' <=> Exists(q)
        /\ \A q \in Logins : Exists(q) => /\ session'[q].revoked = session[q].revoked
                                          /\ session'[q].level = session[q].level
    BY <1>18, TouchEffect DEF Inv
  <2>2. UNCHANGED <<pc, ask, current>> /\ \A u \in StepUps : pc[u] = "verify" => ask[u] \in Logins
    BY <1>18 DEF Touch, callVars, Inv, TypeOK
  <2> QED
    BY <2>1, <2>2 DEF Inv, StepUpKnows
<1>19. ASSUME NEW s \in Logins, Logout(s) PROVE StepUpKnows'
  <2>1. /\ \A q \in Logins : Exists(q)' <=> Exists(q)
        /\ \A q \in Logins : Exists(q) => /\ session'[q].revoked <=> session[q].revoked \/ q = s
                                          /\ session'[q].level = session[q].level
    BY <1>19, LogoutEffect DEF Inv
  <2>2. UNCHANGED <<pc, ask, current>> /\ \A u \in StepUps : pc[u] = "verify" => ask[u] \in Logins \ {s}
    BY <1>19 DEF Logout, SessionHolders, StepUpHolds, callVars, Inv, TypeOK
  <2> QED
    BY <2>1, <2>2 DEF Inv, StepUpKnows
<1>20. CASE PruneExpired
  <2>1. PICK t \in Recent :
          LET old == {s \in Logins : Exists(s) /\ ~ActiveAt(s, t)} IN
          /\ \A s \in old : SessionHolders(s) = {}
          /\ session' = [s \in Logins |-> IF s \in old THEN Gone ELSE session[s]]
    BY <1>20 DEF PruneExpired
  <2>2. UNCHANGED <<pc, ask, current>> /\ \A u \in StepUps : pc[u] = "verify" => ask[u] \in Logins
    BY <1>20 DEF PruneExpired, callVars, Inv, TypeOK
  <2>3. \A u \in StepUps : pc[u] = "verify" => session'[ask[u]] = session[ask[u]]
    BY <2>1, <2>2 DEF SessionHolders, StepUpHolds
  <2> QED
    BY <2>2, <2>3 DEF Inv, StepUpKnows, Exists
<1>21. ASSUME NEW c \in Calls, Fail(c) PROVE StepUpKnows'
  BY <1>21, Disjoint DEF Fail, End, Inv, TypeOK, StepUpKnows, callVars, resetHistory, Exists, Calls
<1>22. CASE Tick
  BY <1>22, Disjoint DEF Tick, Inv, TypeOK, StepUpKnows, callVars, resetHistory, Exists, Calls
<1>23. CASE UNCHANGED vars
  BY <1>23 DEF Inv, TypeOK, StepUpKnows, Exists, Calls, vars, callVars, resetHistory
<1> QED
  BY <1>1, <1>2, <1>3, <1>4, <1>5, <1>6, <1>7, <1>8, <1>9, <1>10, <1>11, <1>12, <1>13, <1>14, <1>15, <1>16, <1>17, <1>18, <1>19, <1>20, <1>21, <1>22, <1>23 DEF Next, Step, AbortVictim

(* Two tokens that work would be of two issues, and the second to commit has    *)
(* invalidated the first.                                                       *)
LEMMA OpenTokenStep == Inv /\ [Next]_vars => OneOpenToken'
<1> SUFFICES ASSUME Inv, [Next]_vars PROVE OneOpenToken'
  OBVIOUS
<1>1. CASE \E i \in Issues : CommitIssue(i)
  <2>1. PICK i \in Issues : CommitIssue(i)
    BY <1>1
  <2>2. \A t \in Issues : Open(t)' => t = i
    BY <2>1, CommitIssueEffect DEF Inv
  <2> QED
    BY <2>2 DEF OneOpenToken
<1>2. CASE \E r \in Resets : CommitReset(r)
  <2>1. PICK r \in Resets : CommitReset(r)
    BY <1>2
  <2>2. token[ask[r]] # Gone
    BY <2>1 DEF CommitReset, Runs, Inv, ResetKnows, Open
  <2>3. /\ \A t \in Issues : t # ask[r] => token'[t] = token[t]
        /\ token'[ask[r]] # Gone /\ token'[ask[r]].consumed
    BY <2>1, <2>2, CommitResetEffect DEF Inv
  <2>4. \A t \in Issues : Open(t)' => Open(t)
    BY <2>3 DEF Open
  <2> QED
    BY <2>4 DEF Inv, OneOpenToken
<1>3. CASE UNCHANGED token
  BY <1>3 DEF Inv, OneOpenToken, Open
<1>4. \/ \E i \in Issues : CommitIssue(i)
      \/ \E r \in Resets : CommitReset(r)
      \/ UNCHANGED token
  BY DEF Next, Step, AbortVictim, SelectAccount, CreateSession, LockAccount, InvalidateTokens, InsertToken,
         Consume, SetPassword, BeginRevoke, Revoke, LockSession, Verify, Fail, SendLogin, Touch, Logout,
         SendIssue, SendReset, SendStepUp, PruneExpired, Tick, vars
<1> QED
  BY <1>1, <1>2, <1>3, <1>4

(* The token of a reset that commits still works, and those of the committed ones *)
(* do not.                                                                        *)
LEMMA TokenUseStep == Inv /\ [Next]_vars => TokenUsedOnce'
<1> SUFFICES ASSUME Inv, [Next]_vars PROVE TokenUsedOnce'
  OBVIOUS
<1>1. \A q \in committed : q \in Resets /\ pc[q] = "done" /\ token[ask[q]].consumed
  BY DEF Inv, TypeOK, CommittedInv
<1>2. CASE \E r \in Resets : CommitReset(r)
  <2>1. PICK r \in Resets : CommitReset(r)
    BY <1>2
  <2>2. committed' = committed \cup {r} /\ UNCHANGED ask /\ ~token[ask[r]].consumed
    BY <2>1 DEF CommitReset, Runs, Inv, ResetKnows, Open
  <2> QED
    BY <1>1, <2>2 DEF Inv, TokenUsedOnce
<1>3. CASE UNCHANGED committed /\ \A q \in committed : ask'[q] = ask[q]
  BY <1>3 DEF Inv, TokenUsedOnce
<1>4. ASSUME NEW l \in Logins, SendLogin(l)
      PROVE  UNCHANGED committed /\ \A q \in committed : ask'[q] = ask[q]
  BY <1>1, <1>4, Disjoint DEF SendLogin, resetHistory, Inv, TypeOK
<1>5. ASSUME NEW r \in Resets, SendReset(r)
      PROVE  UNCHANGED committed /\ \A q \in committed : ask'[q] = ask[q]
  BY <1>1, <1>5 DEF SendReset, resetHistory, Inv, TypeOK
<1>6. ASSUME NEW u \in StepUps, SendStepUp(u)
      PROVE  UNCHANGED committed /\ \A q \in committed : ask'[q] = ask[q]
  BY <1>1, <1>6, Disjoint DEF SendStepUp, resetHistory, Inv, TypeOK
<1>7. \/ \E r \in Resets : CommitReset(r) \/ SendReset(r)
      \/ \E l \in Logins : SendLogin(l)
      \/ \E u \in StepUps : SendStepUp(u)
      \/ UNCHANGED <<committed, ask>>
  BY DEF Next, Step, AbortVictim, SelectAccount, CreateSession, LockAccount, InvalidateTokens, InsertToken,
         CommitIssue, Consume, SetPassword, BeginRevoke, Revoke, LockSession, Verify, Fail, Touch, Logout,
         SendIssue, PruneExpired, Tick, vars, callVars, resetHistory
<1> QED
  BY <1>2, <1>3, <1>4, <1>5, <1>6, <1>7

-----------------------------------------------------------------------------
(* The theorems *)

(* At first there is no row, and no call has begun. *)
LEMMA InitInv == Init => Inv
<1> SUFFICES ASSUME Init PROVE Inv
  OBVIOUS
<1>1. TypeOK
  BY Disjoint, TimesAssumption DEF Init, TypeOK, Calls, Passwords
<1>2. RowsOfDone /\ AccountExclusive /\ TokenExclusive /\ SessionExclusive
  BY Disjoint DEF Init, RowsOfDone, Exists, AccountExclusive, AccountHolders, IssueHolds, TokenExclusive,
                  TokenHolders, SessionExclusive, Calls
<1>3. IssueKnows /\ ResetKnows /\ CommittedInv /\ BeforeInv /\ StepUpKnows
  BY Disjoint DEF Init, IssueKnows, ResetKnows, CommittedInv, BeforeInv, StepUpKnows, Calls
<1>4. OneOpenToken /\ TokenUsedOnce
  BY DEF Init, OneOpenToken, Open, TokenUsedOnce
<1> QED
  BY <1>1, <1>2, <1>3, <1>4 DEF Inv

(* Every reachable state satisfies the inductive invariant. *)
THEOREM Invariant == Spec => []Inv
<1>1. Inv /\ [Next]_vars => Inv'
  BY TypeStep, RowsStep, AccountStep, TokenStep, SessionStep, IssueStep, ResetStep, CommittedStep,
     BeforeStep, StepUpStep, OpenTokenStep, TokenUseStep
  DEF Inv
<1> QED
  BY InitInv, <1>1, PTL DEF Spec

(* Every row and every call keeps its type. *)
THEOREM TypeCorrect == Spec => []TypeOK
<1>1. Inv => TypeOK
  BY DEF Inv
<1> QED
  BY Invariant, <1>1, PTL

(* One token works, for one reset, and the reset ends every session there was when *)
(* it took the token, however many tokens, resets, step-ups and logins there are.  *)
THEOREM RecoveryAlwaysFinal == Spec => []RecoveryIsFinal
<1>1. ASSUME Inv PROVE RecoveryIsFinal
  <2>1. ResetEndsEarlierSessions
    BY <1>1 DEF Inv, TypeOK, BeforeInv, ResetEndsEarlierSessions
  <2> QED
    BY <1>1, <2>1 DEF Inv, RecoveryIsFinal
<1> QED
  BY Invariant, <1>1, PTL

(* The levels are ordered. *)
LEMMA Ranks == Rank("base") = 1 /\ Rank("verified_email") = 2 /\ Rank("mfa") = 3
<1>1. Levels[1] = "base" /\ Levels[2] = "verified_email" /\ Levels[3] = "mfa"
  BY DEF Levels
<1>2. \A n \in 1..3 : n = 1 \/ n = 2 \/ n = 3
  OBVIOUS
<1> QED
  BY <1>1, <1>2 DEF Rank

(* The two properties of steps, for one step. *)
LEMMA RaiseStep ==
  ASSUME Inv, [Next]_vars
  PROVE  RaisedOnlyWhileLive /\ NotDowngraded
<1> DEFINE Raised(s) ==
       (Exists(s) /\ session'[s] # Gone) =>
          /\ session'[s].at # session[s].at => ~session[s].revoked
          /\ Rank(session'[s].level) >= Rank(session[s].level)
<1> SUFFICES ASSUME NEW s \in Logins PROVE Raised(s)
  BY DEF RaisedOnlyWhileLive, NotDowngraded
<1>1. Exists(s) => Rank(session[s].level) \in Int
  BY Ranks DEF Inv, TypeOK, Exists, SessionRow
<1>2. CASE session'[s] = session[s] \/ session'[s] = Gone
  BY <1>1, <1>2
<1>3. CASE Exists(s) /\ session'[s].level = session[s].level /\ session'[s].at = session[s].at
  BY <1>1, <1>3
<1>4. ASSUME NEW u \in StepUps, Verify(u), s = ask[u] PROVE Raised(s)
  <2>1. Exists(s) => \/ session'[s].level = session[s].level /\ session'[s].at = session[s].at
                     \/ Rank(session'[s].level) >= Rank(current[u])
    BY <1>4, VerifyEffect DEF Inv
  <2>2. ~session[s].revoked /\ current[u] = session[s].level
    BY <1>4 DEF Verify, Runs, Inv, StepUpKnows
  <2> QED
    BY <1>1, <2>1, <2>2
<1>5. ASSUME NEW u \in StepUps, Verify(u), s # ask[u] PROVE session'[s] = session[s]
  BY <1>5, VerifyEffect DEF Inv
<1>6. ASSUME NEW l \in Logins, CreateSession(l) PROVE ~Exists(s) \/ session'[s] = session[s]
  <2>1. pc[l] = "create" /\ \A q \in Logins : q # l => session'[q] = session[q]
    BY <1>6 DEF CreateSession, Runs, Inv, TypeOK
  <2> QED
    BY <2>1 DEF Inv, RowsOfDone
<1>7. ASSUME NEW r \in Resets, CommitReset(r), Exists(s)
      PROVE  session'[s].level = session[s].level /\ session'[s].at = session[s].at
  <2>1. token[ask[r]] # Gone
    BY <1>7 DEF CommitReset, Runs, Inv, ResetKnows, Open
  <2> QED
    BY <1>7, <2>1, CommitResetEffect DEF Inv
<1>8. ASSUME NEW q \in Logins, Touch(q) \/ Logout(q), Exists(s)
      PROVE  session'[s].level = session[s].level /\ session'[s].at = session[s].at
  BY <1>8, TouchEffect, LogoutEffect DEF Inv
<1>9. CASE PruneExpired
  BY <1>9, <1>2 DEF PruneExpired
<1>10. \/ \E u \in StepUps : Verify(u)
       \/ \E l \in Logins : CreateSession(l) \/ Touch(l) \/ Logout(l)
       \/ \E r \in Resets : CommitReset(r)
       \/ PruneExpired
       \/ UNCHANGED session
  BY DEF Next, Step, AbortVictim, SelectAccount, LockAccount, InvalidateTokens, InsertToken, CommitIssue,
         Consume, SetPassword, BeginRevoke, Revoke, LockSession, Fail, SendLogin, SendIssue, SendReset,
         SendStepUp, Tick, vars
<1> QED
  BY <1>2, <1>3, <1>4, <1>5, <1>6, <1>7, <1>8, <1>9, <1>10

(* No step raises the assurance of a revoked session or lowers that of any. *)
THEOREM StepUpsAlwaysRaise == Spec => StepUpsOnlyRaise
<1>1. Inv /\ [Next]_vars => [RaisedOnlyWhileLive /\ NotDowngraded]_vars
  BY RaiseStep
<1> QED
  BY Invariant, <1>1, PTL DEF Spec, StepUpsOnlyRaise
================================================================================
