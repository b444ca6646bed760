------------------------------ MODULE AuthSessions ------------------------------
(***************************************************************************)
(* The authentication of one account: AccountAuthService.login, logout,    *)
(* authenticate, pruneExpired and resetPasswordWithRecovery,               *)
(* AccountRecoveryService.issueForAccount and consume, and                 *)
(* SessionStepUpService.verifyAndUpgrade, statement by statement.          *)
(*                                                                         *)
(* An auth session is named by the login that creates it, a recovery token *)
(* by the call that issues it, a password by the reset that sets it. Row   *)
(* locks are read off the program counters; what a transaction writes is   *)
(* applied by its COMMIT.                                                  *)
(***************************************************************************)
EXTENDS Integers, FiniteSets

CONSTANTS
  Logins,       \* calls of login
  Issues,       \* calls of issueForAccount
  Resets,       \* calls of resetPasswordWithRecovery
  StepUps,      \* calls of verifyAndUpgrade
  OldPassword,  \* the password the account registered with
  Delay,        \* how old the timestamp of a statement can be when it executes
  IdleTtl, AbsoluteTtl, TokenTtl,
  MaxTime       \* bound: the clock

ASSUME CallsAssumption ==
  /\ Logins \cap (Issues \cup Resets \cup StepUps) = {}
  /\ Issues \cap (Resets \cup StepUps) = {} /\ Resets \cap StepUps = {} /\ OldPassword \notin Resets
ASSUME TimesAssumption == {Delay, IdleTtl, AbsoluteTtl, TokenTtl, MaxTime} \subseteq Nat

VARIABLES
  pc,         \* call -> its next statement
  ask,        \* login -> password, reset -> token, step-up -> session; issues ask nothing
  stamp,      \* issue, step-up -> the timestamp it took when it began
  answer,     \* call -> its answer
  password,   \* accounts.password_hash
  session,    \* auth_sessions: login -> row, or Gone
  token,      \* account_recovery_tokens: issue -> row, or Gone
  targets,    \* reset, issue -> the sessions, tokens its UPDATE saw as live
  current,    \* step-up -> the level its SELECT returned
  before,     \* history: reset -> the sessions that existed when it consumed its token
  committed,  \* history: the resets whose transaction was committed
  now         \* the clock

callVars == <<pc, ask, stamp, answer, targets, current>>
resetHistory == <<before, committed>>
vars == <<callVars, resetHistory, password, session, token, now>>

Calls == Logins \cup Issues \cup Resets \cup StepUps
Passwords == {OldPassword} \cup Resets
Levels == <<"base", "verified_email", "mfa">>
Rank(level) == CHOOSE n \in 1..3 : Levels[n] = level

Gone == [gone |-> TRUE]
SessionRow == [created : Nat, seen : Nat, expires : Nat, revoked : BOOLEAN,
               level : {"base", "verified_email", "mfa"}, at : Nat \cup {-1}, proof : Passwords]
TokenRow == [expires : Nat, consumed : BOOLEAN, invalidated : BOOLEAN]

TypeOK ==
  /\ pc \in [Calls -> {"idle", "select", "create", "account", "invalidate", "insert", "consume",
                       "password", "snapshot", "revoke", "session", "verify", "commit", "done"}]
  /\ ask \in [Logins \cup Resets \cup StepUps -> Passwords \cup Issues \cup Logins]
  /\ \A l \in Logins : ask[l] \in Passwords
  /\ \A r \in Resets : pc[r] # "idle" => ask[r] \in Issues
  /\ \A u \in StepUps : pc[u] # "idle" => ask[u] \in Logins
  /\ stamp \in [Issues \cup StepUps -> 0..MaxTime]
  /\ answer \in [Calls -> {"none", "ok", "refused", "failed"}]
  /\ password \in Passwords
  /\ session \in [Logins -> SessionRow \cup {Gone}]
  /\ \A s \in Logins : session[s] # Gone => ((session[s].level = "base") <=> (session[s].at = -1))
  /\ token \in [Issues -> TokenRow \cup {Gone}]
  /\ targets \in [Issues \cup Resets -> SUBSET (Issues \cup Logins)]
  /\ \A i \in Issues : targets[i] \subseteq Issues
  /\ \A r \in Resets : targets[r] \subseteq Logins
  /\ current \in [StepUps -> {"base", "verified_email", "mfa"}]
  /\ before \in [Resets -> SUBSET Logins]
  /\ committed \subseteq Resets
  /\ now \in 0..MaxTime

-----------------------------------------------------------------------------
(* Rows and locks *)

Recent == {t \in 0..now : now - t <= Delay}

Exists(s) == session[s] # Gone
ActiveAt(s, t) == /\ Exists(s) /\ ~session[s].revoked
                  /\ session[s].seen > t - IdleTtl /\ session[s].expires > t
Open(t) == token[t] # Gone /\ ~token[t].consumed /\ ~token[t].invalidated

IssueHoldsNone == {}

(* The calls that hold the account row, FOR UPDATE or updated; that hold a token, *)
(* updated; and that hold a session, FOR UPDATE or updated.                       *)
IssueHolds == {i \in Issues : pc[i] \in {"invalidate", "insert", "commit"}}
AccountHolders == IssueHolds \cup {r \in Resets : pc[r] \in {"snapshot", "revoke", "commit"}}
TokenHolders(t) ==
  {r \in Resets : ask[r] = t /\ pc[r] \in {"password", "snapshot", "revoke", "commit"}}
    \cup {i \in Issues : pc[i] \in {"insert", "commit"} /\ t \in targets[i]}

StepUpHoldsNone(s) == {}

StepUpHolds(s) == {u \in StepUps : ask[u] = s /\ pc[u] \in {"verify", "commit"}}
SessionHolders(s) == StepUpHolds(s) \cup {r \in Resets : pc[r] = "commit" /\ s \in targets[r]}

(* Whom a call waits for. *)
Blockers(c) ==
  (CASE pc[c] = "create" -> IssueHolds
     [] pc[c] \in {"account", "password"} -> AccountHolders
     [] pc[c] = "invalidate" -> UNION {TokenHolders(t) : t \in {i \in Issues : Open(i)}}
     [] pc[c] = "consume" -> TokenHolders(ask[c])
     [] pc[c] = "revoke" -> UNION {SessionHolders(s) : s \in targets[c]}
     [] pc[c] = "session" -> SessionHolders(ask[c])
     [] OTHER -> {}) \ {c}

Runs(c, at) == pc[c] = at /\ Blockers(c) = {}
Goto(c, to) == pc' = [pc EXCEPT ![c] = to] /\ UNCHANGED answer
End(c, a) == pc' = [pc EXCEPT ![c] = "done"] /\ answer' = [answer EXCEPT ![c] = a]

-----------------------------------------------------------------------------
(* AccountAuthService.login *)

SendLogin(l) ==
  /\ pc[l] = "idle"
  /\ \E p \in Passwords : ask' = [ask EXCEPT ![l] = p]
  /\ Goto(l, "select")
  /\ UNCHANGED <<resetHistory, current, stamp, targets, password, session, token, now>>

(* The account is read and the password verified against what was read. *)
SelectAccount(l) ==
  /\ Runs(l, "select")
  /\ IF ask[l] = password THEN Goto(l, "create") ELSE End(l, "refused")
  /\ UNCHANGED <<resetHistory, current, ask, stamp, targets, password, session, token, now>>

NewSessionVerified(l, t) == [created |-> t, seen |-> t, expires |-> t + AbsoluteTtl, revoked |-> FALSE,
                             level |-> "base", at |-> t, proof |-> ask[l]]

NewSession(l, t) == [created |-> t, seen |-> t, expires |-> t + AbsoluteTtl, revoked |-> FALSE,
                     level |-> "base", at |-> -1, proof |-> ask[l]]

(* createAuthSession, outside any transaction. *)
CreateSession(l) ==
  /\ Runs(l, "create")
  /\ \E t \in Recent : session' = [session EXCEPT ![l] = NewSession(l, t)]
  /\ End(l, "ok")
  /\ UNCHANGED <<resetHistory, current, ask, stamp, targets, password, token, now>>

-----------------------------------------------------------------------------
(* AccountRecoveryService.issueForAccount *)

SendIssue(i) ==
  /\ pc[i] = "idle"
  /\ stamp' = [stamp EXCEPT ![i] = now]
  /\ Goto(i, "account")
  /\ UNCHANGED <<resetHistory, current, ask, targets, password, session, token, now>>

LockAccount(i) ==
  /\ Runs(i, "account") /\ Goto(i, "invalidate")
  /\ UNCHANGED <<resetHistory, current, ask, stamp, targets, password, session, token, now>>

InvalidateTokens(i) ==
  /\ Runs(i, "invalidate") /\ Goto(i, "insert")
  /\ targets' = [targets EXCEPT ![i] = {t \in Issues : Open(t)}]
  /\ UNCHANGED <<resetHistory, current, ask, stamp, password, session, token, now>>

InsertToken(i) ==
  /\ Runs(i, "insert") /\ Goto(i, "commit")
  /\ UNCHANGED <<resetHistory, current, ask, stamp, targets, password, session, token, now>>

(* A COMMIT whose acknowledgement is lost ends the call with an error. *)
CommitIssue(i) ==
  /\ i \in Issues /\ Runs(i, "commit")
  /\ token' = [t \in Issues |->
       IF t = i THEN [expires |-> stamp[i] + TokenTtl, consumed |-> FALSE, invalidated |-> FALSE]
       ELSE IF t \in targets[i] THEN [token[t] EXCEPT !.invalidated = TRUE] ELSE token[t]]
  /\ \E a \in {"ok", "failed"} : End(i, a)
  /\ UNCHANGED <<resetHistory, current, ask, stamp, targets, password, session, now>>

-----------------------------------------------------------------------------
(* AccountAuthService.resetPasswordWithRecovery *)

SendReset(r) ==
  /\ pc[r] = "idle"
  /\ \E t \in {i \in Issues : answer[i] = "ok"} : ask' = [ask EXCEPT ![r] = t]
  /\ Goto(r, "consume")
  /\ UNCHANGED <<resetHistory, current, stamp, targets, password, session, token, now>>

Consume(r) ==
  /\ Runs(r, "consume")
  /\ \E t \in Recent :
       IF Open(ask[r]) /\ token[ask[r]].expires > t THEN Goto(r, "password") ELSE End(r, "refused")
  /\ before' = [before EXCEPT ![r] = {s \in Logins : Exists(s)}]
  /\ UNCHANGED <<committed, current, ask, stamp, targets, password, session, token, now>>

SetPassword(r) ==
  /\ Runs(r, "password") /\ Goto(r, "snapshot")
  /\ UNCHANGED <<resetHistory, current, ask, stamp, targets, password, session, token, now>>

UnrevokedUnlocked == {s \in Logins : Exists(s) /\ ~session[s].revoked /\ StepUpHolds(s) = {}}

(* The UPDATE of auth_sessions sees what is committed when it begins and then *)
(* waits for the rows that somebody has locked.                               *)
Unrevoked == {s \in Logins : Exists(s) /\ ~session[s].revoked}

BeginRevoke(r) ==
  /\ Runs(r, "snapshot")
  /\ targets' = [targets EXCEPT ![r] = Unrevoked]
  /\ Goto(r, "revoke")
  /\ UNCHANGED <<resetHistory, current, ask, stamp, password, session, token, now>>

Revoke(r) ==
  /\ Runs(r, "revoke") /\ Goto(r, "commit")
  /\ UNCHANGED <<resetHistory, current, ask, stamp, targets, password, session, token, now>>

ConsumedNever(row) == row

Consumed(row) == [row EXCEPT !.consumed = TRUE]

CommitReset(r) ==
  /\ r \in Resets /\ Runs(r, "commit")
  /\ password' = r
  /\ committed' = committed \cup {r}
  /\ token' = [token EXCEPT ![ask[r]] = Consumed(@)]
  /\ session' = [s \in Logins |->
       IF s \in targets[r] /\ Exists(s) THEN [session[s] EXCEPT !.revoked = TRUE] ELSE session[s]]
  /\ \E a \in {"ok", "failed"} : End(r, a)
  /\ UNCHANGED <<before, current, ask, stamp, targets, now>>

-----------------------------------------------------------------------------
(* SessionStepUpService.verifyAndUpgrade *)

SendStepUp(u) ==
  /\ pc[u] = "idle"
  /\ \E s \in {l \in Logins : answer[l] = "ok"} : ask' = [ask EXCEPT ![u] = s]
  /\ stamp' = [stamp EXCEPT ![u] = now]
  /\ Goto(u, "session")
  /\ UNCHANGED <<resetHistory, current, targets, password, session, token, now>>

LockSession(u) ==
  /\ Runs(u, "session")
  /\ IF ActiveAt(ask[u], stamp[u])
     THEN Goto(u, "verify") /\ current' = [current EXCEPT ![u] = session[ask[u]].level]
     ELSE End(u, "refused") /\ UNCHANGED current
  /\ UNCHANGED <<resetHistory, ask, stamp, targets, password, session, token, now>>

(* The verifier is awaited with the row locked. It refuses, or the account is not *)
(* ready for what it verified, or UPDATE and COMMIT follow. The rank is compared  *)
(* with what the SELECT returned.                                                 *)
Verify(u) ==
  LET s == ask[u] IN
  /\ Runs(u, "verify")
  /\ \/ End(u, "refused") /\ UNCHANGED session
     \/ \E level \in {"verified_email", "mfa"}, a \in {"ok", "failed"} :
          /\ Exists(s) /\ Rank(level) >= Rank(current[u])
          /\ session' = [session EXCEPT ![s].level = level, ![s].at = stamp[u], ![s].seen = stamp[u]]
          /\ End(u, a)
  /\ UNCHANGED <<resetHistory, current, ask, stamp, targets, password, token, now>>

-----------------------------------------------------------------------------
(* Single statements: authenticate, logout, pruneExpired *)

Touch(s) ==
  /\ SessionHolders(s) = {}
  /\ \E t \in Recent : ActiveAt(s, t) /\ session' = [session EXCEPT ![s].seen = t]
  /\ UNCHANGED <<callVars, resetHistory, password, token, now>>

Logout(s) ==
  /\ SessionHolders(s) = {} /\ Exists(s) /\ ~session[s].revoked
  /\ session' = [session EXCEPT ![s].revoked = TRUE]
  /\ UNCHANGED <<callVars, resetHistory, password, token, now>>

PruneExpired ==
  \E t \in Recent :
    LET old == {s \in Logins : Exists(s) /\ ~ActiveAt(s, t)} IN
    /\ old # {} /\ \A s \in old : SessionHolders(s) = {}
    /\ session' = [s \in Logins |-> IF s \in old THEN Gone ELSE session[s]]
    /\ UNCHANGED <<callVars, resetHistory, password, token, now>>

-----------------------------------------------------------------------------
(* Errors, deadlocks, time *)

(* A call ends with an error, its transaction rolled back. *)
Fail(c) ==
  /\ pc[c] \notin {"idle", "done"}
  /\ End(c, "failed")
  /\ UNCHANGED <<resetHistory, current, ask, stamp, targets, password, session, token, now>>

(* Two calls that wait for each other: PostgreSQL ends one of them. *)
Deadlocked(c) == \E d \in Blockers(c) : c \in Blockers(d)

DeadlockedNever(c) == FALSE

Victim(c) == Deadlocked(c)
AbortVictim(c) == Victim(c) /\ Fail(c)

Tick == now < MaxTime /\ now' = now + 1 /\ UNCHANGED <<callVars, resetHistory, password, session, token>>

Init ==
  /\ pc = [c \in Calls |-> "idle"]
  /\ ask = [c \in Logins \cup Resets \cup StepUps |-> OldPassword]
  /\ stamp = [c \in Issues \cup StepUps |-> 0]
  /\ answer = [c \in Calls |-> "none"]
  /\ password = OldPassword
  /\ session = [s \in Logins |-> Gone] /\ token = [t \in Issues |-> Gone]
  /\ targets = [c \in Issues \cup Resets |-> {}] /\ now = 0
  /\ current = [u \in StepUps |-> "base"]
  /\ before = [r \in Resets |-> {}] /\ committed = {}

Step(c) ==
  \/ c \in Logins /\ (SelectAccount(c) \/ CreateSession(c))
  \/ c \in Issues /\ (LockAccount(c) \/ InvalidateTokens(c) \/ InsertToken(c) \/ CommitIssue(c))
  \/ c \in Resets /\ (Consume(c) \/ SetPassword(c) \/ BeginRevoke(c) \/ Revoke(c) \/ CommitReset(c))
  \/ c \in StepUps /\ (LockSession(c) \/ Verify(c))

Next ==
  \/ \E c \in Calls : Step(c) \/ AbortVictim(c) \/ Fail(c)
  \/ \E l \in Logins : SendLogin(l) \/ Touch(l) \/ Logout(l)
  \/ \E i \in Issues : SendIssue(i)
  \/ \E r \in Resets : SendReset(r)
  \/ \E u \in StepUps : SendStepUp(u)
  \/ PruneExpired
  \/ Tick

Spec == Init /\ [][Next]_vars

-----------------------------------------------------------------------------
(* Properties *)

(* A player holds at most one recovery token that still works: issuing locks the *)
(* account, so that two calls cannot both miss the token of the other.           *)
OneOpenToken == \A s, t \in Issues : Open(s) /\ Open(t) => s = t

(* A token pays for one reset, whether or not its COMMIT was acknowledged and *)
(* however many resets present it at once.                                    *)
TokenUsedOnce == \A r, q \in committed : ask[r] = ask[q] => r = q

(* A session that existed when a reset consumed its token never works again once *)
(* the reset is committed: neither a step-up that held its row meanwhile nor a   *)
(* concurrent touch saves it.                                                    *)
ResetEndsEarlierSessions ==
  \A r \in committed, s \in Logins : (s \in before[r] /\ Exists(s)) => session[s].revoked

(* An account has at most one recovery token that works, it works for one reset *)
(* however many present it, and a reset that commits ends the sessions there    *)
(* were when it took the token.                                                 *)
RecoveryIsFinal == OneOpenToken /\ TokenUsedOnce /\ ResetEndsEarlierSessions

(* A session's assurance is raised only while the session is not revoked, though the *)
(* verifier may take its time: nobody revokes it between the check and the UPDATE.   *)
RaisedOnlyWhileLive ==
  \A s \in Logins : (Exists(s) /\ session'[s] # Gone /\ session'[s].at # session[s].at)
    => ~session[s].revoked

(* Two step-ups of one session, whichever verifier answers first, never lower its *)
(* assurance.                                                                     *)
NotDowngraded ==
  \A s \in Logins : (Exists(s) /\ session'[s] # Gone)
    => Rank(session'[s].level) >= Rank(session[s].level)

(* The assurance of an auth session is raised only while the session is not  *)
(* revoked, and two step-ups, in either order, never lower it.               *)
StepUpsOnlyRaise == [][RaisedOnlyWhileLive /\ NotDowngraded]_vars
================================================================================
