-------------------------------- MODULE Accounts --------------------------------
(*****************************************************************************)
(* The requests on accounts and game sessions: registering (with the upgrade *)
(* of a guest), logging in and out, opening, rotating, ending and playing a  *)
(* session, from the HTTP route through CasinoService, AccountAuthService    *)
(* and PostgresSessionStore to the row locks of PostgreSQL. A new account,   *)
(* game session or auth session is named by the request that creates it.     *)
(* Row locks are read off the program counters; what a transaction writes is *)
(* applied by its COMMIT. The specification has names of its own, because    *)
(* MCDelivery extends this module beside another.                            *)
(*****************************************************************************)
EXTENDS FiniteSets

CONSTANTS
  Guests,      \* guests with an account and a session from the start
  Registers, Logins, Logouts, Opens, Rotations, Deletes, Spins,  \* requests
  Emails,
  None

Calls == Registers \cup Logins \cup Logouts \cup Opens \cup Rotations \cup Deletes \cup Spins
Ids == Guests \cup Calls

RequestsAssumption ==
  /\ None \notin Ids \cup Emails /\ Guests \cap Calls = {} /\ IsFiniteSet(Calls)
  /\ Registers \cap (Logins \cup Logouts \cup Opens \cup Rotations \cup Deletes \cup Spins) = {}
  /\ Logins \cap (Logouts \cup Opens \cup Rotations \cup Deletes \cup Spins) = {}
  /\ Logouts \cap (Opens \cup Rotations \cup Deletes \cup Spins) = {}
  /\ Opens \cap (Rotations \cup Deletes \cup Spins) = {}
  /\ Rotations \cap (Deletes \cup Spins) = {} /\ Deletes \cap Spins = {}

VARIABLES
  pc,        \* request -> its next statement
  ask,       \* request -> [email, session, token]: what it presents
  who,       \* request -> the account its token was resolved to
  owner,     \* request -> the account of the session its first read returned
  answer,    \* request -> its answer
  account,   \* accounts: [email, active], or Gone
  session,   \* demo_sessions: [account, protected, stale, row], or Gone
  auth,      \* auth_sessions: [account, live], or Gone
  rounds,    \* game_rounds: [call, account]
  game       \* history: logout -> the session row it presented and may end

callVars == <<pc, ask, who, owner, answer, game>>
tables == <<account, session, auth, rounds>>
accountsVars == <<callVars, tables>>

Gone == [gone |-> TRUE]
AccountRow == [email : Emails \cup {None}, active : BOOLEAN]
SessionRow == [account : Ids, protected : BOOLEAN, stale : BOOLEAN, row : Ids]
AuthRow == [account : Ids, live : BOOLEAN]

Statements ==
  {"idle", "token", "guest", "lock", "protect", "attach", "upgraded", "reopen", "create", "email",
   "registered", "password", "open", "rename", "fresh", "for account", "rotate", "delete", "drop",
   "revoke", "read", "play", "settle", "done"}

AccountsTypeOK ==
  /\ pc \in [Calls -> Statements]
  /\ ask \in [Calls -> [email : Emails \cup {None}, session : Ids \cup {None},
                        token : Ids \cup {None}]]
  /\ who \in [Calls -> Ids \cup {None}] /\ owner \in [Calls -> Ids \cup {None}]
  /\ answer \in [Calls -> {"none", "ok", "limited", "unauthorized", "disabled", "conflict", "failed"}]
  /\ account \in [Ids -> AccountRow \cup {Gone}]
  /\ session \in [Ids -> SessionRow \cup {Gone}]
  /\ auth \in [Ids -> AuthRow \cup {Gone}]
  /\ \A s \in Ids : session[s] # Gone => account[session[s].account] # Gone
  /\ rounds \subseteq [call : Spins, account : Ids]
  /\ game \in [Logouts -> Ids \cup {None}]

-----------------------------------------------------------------------------
(* Rows, locks and program counters *)

Exists(s) == s # None /\ session[s] # Gone
Registered(a) == account[a] # Gone /\ account[a].email # None

MayUseAny(s, a) == Exists(s)

(* The condition of every statement on a session: not expired, and unprotected or *)
(* of the authenticated account. Its expiry is judged as of the statement.        *)
MayUse(s, a) == Exists(s) /\ (~session[s].protected \/ session[s].account = a)
Usable(s, a) == MayUse(s, a) /\ ~session[s].stale

(* The requests that hold the row of a session, of an account, the issuance row of *)
(* the ledger, and an address in the unique index.                                 *)
SessionHolders(s) ==
  {c \in Calls : s # None /\ ask[c].session = s /\ pc[c] \in {"attach", "upgraded", "rename", "settle"}}
AccountHolders(a) == {c \in Registers : owner[c] = a /\ pc[c] \in {"protect", "attach", "upgraded"}}
IssuanceHolders == {c \in Calls : pc[c] \in {"email", "registered"}}
EmailHolders(e) == {c \in Registers : ask[c].email = e /\ pc[c] \in {"upgraded", "registered"}}

OnSession == {"guest", "protect", "reopen", "open", "rotate", "delete", "drop", "read", "play"}
Blockers(c) ==
  (CASE pc[c] \in OnSession -> SessionHolders(ask[c].session)
     [] pc[c] \in {"lock", "rename", "settle"} -> AccountHolders(owner[c])
     [] pc[c] = "for account" -> AccountHolders(who[c])
     [] pc[c] \in {"create", "fresh"} -> IssuanceHolders
     [] pc[c] \in {"attach", "email"} -> EmailHolders(ask[c].email)
     [] OTHER -> {}) \ {c}

Runs(c, at) == pc[c] = at /\ Blockers(c) = {}
Goto(c, to) == pc' = [pc EXCEPT ![c] = to] /\ UNCHANGED answer
End(c, a) == pc' = [pc EXCEPT ![c] = "done"] /\ answer' = [answer EXCEPT ![c] = a]

(* deleteExpiredSession, after a statement that found no session. *)
Swept(s) == IF Exists(s) /\ session[s].stale THEN [session EXCEPT ![s] = Gone] ELSE session

TakenNever(e) == FALSE

Taken(e) == \E a \in Ids : account[a] # Gone /\ account[a].email = e

-----------------------------------------------------------------------------
(* Requests and their authentication *)

Presented == {s \in Ids : session[s] # Gone}
Tokens == {t \in Ids : auth[t] # Gone}

Send(c) ==
  /\ pc[c] = "idle"
  /\ \E e \in (IF c \in Registers \cup Logins THEN Emails ELSE {None}),
        s \in (IF c \in Logins THEN {None}
               ELSE Presented \cup (IF c \in Registers \cup Logouts \cup Opens THEN {None} ELSE {})),
        t \in (IF c \in Registers \cup Logins THEN {None} ELSE Tokens \cup {None}) :
       /\ ask' = [ask EXCEPT ![c] = [email |-> e, session |-> s, token |-> t]]
       /\ Goto(c, IF c \in Logins THEN "password"
                  ELSE IF c \notin Registers THEN "token"
                  ELSE IF s = None THEN "create" ELSE "guest")
  /\ UNCHANGED <<who, owner, game, tables>>

(* consumeAuthRateLimit: register and login may be turned away before anything else. *)
Limited(c) ==
  /\ c \in Registers \cup Logins /\ pc[c] \in {"guest", "create", "password"}
  /\ End(c, "limited")
  /\ UNCHANGED <<ask, who, owner, game, tables>>

(* optionalAuthAccount and requiredAuthProfile. A token that does not resolve is *)
(* refused, never taken for a guest; logout needs one.                           *)
Resolved(c, a) ==
  LET t == ask[c].token IN
  IF t = None THEN a = None /\ c \notin Logouts
  ELSE auth[t].live /\ account[auth[t].account].active /\ a = auth[t].account

First(c) == IF c \in Opens THEN (IF ask[c].session # None THEN "open"
                                 ELSE IF ask[c].token # None THEN "for account" ELSE "fresh")
            ELSE IF c \in Rotations THEN "rotate" ELSE IF c \in Deletes THEN "delete"
            ELSE IF c \in Spins THEN "read"
            ELSE IF ask[c].session # None THEN "drop" ELSE "revoke"

Authenticate(c) ==
  /\ Runs(c, "token")
  /\ \/ \E a \in Ids \cup {None} :
          /\ Resolved(c, a)
          /\ who' = [who EXCEPT ![c] = a] /\ Goto(c, First(c))
          /\ LET s == ask[c].session IN
             game' = IF c \in Logouts /\ MayUse(s, a)
                     THEN [game EXCEPT ![c] = session[s].row] ELSE game
     \/ /\ ~ \E a \in Ids \cup {None} : Resolved(c, a)
        /\ End(c, "unauthorized") /\ UNCHANGED <<who, game>>
  /\ UNCHANGED <<ask, owner, tables>>

-----------------------------------------------------------------------------
(* POST /auth/register with a guest session: getSession and upgradeGuest *)

(* The guest's session is read on a connection of its own, before the transaction. *)
ReadGuest(r) ==
  LET s == ask[r].session IN
  /\ Runs(r, "guest")
  /\ IF Usable(s, None)
     THEN owner' = [owner EXCEPT ![r] = session[s].account] /\ Goto(r, "lock") /\ UNCHANGED session
     ELSE End(r, "unauthorized") /\ session' = Swept(s) /\ UNCHANGED owner
  /\ UNCHANGED <<ask, who, game, account, auth, rounds>>

LockGuest(r) ==
  LET a == account[owner[r]] IN
  /\ Runs(r, "lock")
  /\ IF ~a.active THEN End(r, "disabled")
     ELSE IF a.email # None THEN End(r, "conflict")
     ELSE Goto(r, "protect")
  /\ UNCHANGED <<ask, who, owner, game, tables>>

ProtectedRowUnchecked(s, a) == TRUE

(* UPDATE demo_sessions SET auth_required: none is left when the session was rotated, *)
(* ended or protected since it was read.                                              *)
ProtectedRow(s, a) == Exists(s) /\ session[s].account = a /\ ~session[s].protected

ProtectSession(r) ==
  /\ Runs(r, "protect")
  /\ IF ProtectedRow(ask[r].session, owner[r]) THEN Goto(r, "attach") ELSE End(r, "conflict")
  /\ UNCHANGED <<ask, who, owner, game, tables>>

AttachCredentials(r) ==
  /\ Runs(r, "attach")
  /\ IF Taken(ask[r].email) THEN End(r, "conflict") ELSE Goto(r, "upgraded")
  /\ UNCHANGED <<ask, who, owner, game, tables>>

CommittedUpgrade(a, e) == [account EXCEPT ![a].email = e]

(* COMMIT: the credentials, the protection of the session and the auth session. *)
CommitUpgrade(r) ==
  LET s == ask[r].session a == owner[r] IN
  /\ Runs(r, "upgraded")
  /\ account' = CommittedUpgrade(a, ask[r].email)
  /\ session' = IF Exists(s) THEN [session EXCEPT ![s].protected = TRUE] ELSE session
  /\ auth' = [auth EXCEPT ![r] = [account |-> a, live |-> TRUE]]
  /\ Goto(r, "reopen")
  /\ UNCHANGED <<ask, who, owner, game, rounds>>

(* The session is read again for the answer: the account is upgraded whatever it says. *)
Reopen(r) ==
  LET s == ask[r].session IN
  /\ Runs(r, "reopen")
  /\ IF Usable(s, owner[r]) THEN End(r, "ok") /\ UNCHANGED session
     ELSE End(r, "unauthorized") /\ session' = Swept(s)
  /\ UNCHANGED <<ask, who, owner, game, account, auth, rounds>>

-----------------------------------------------------------------------------
(* Registering without a guest, logging in, and the session of an account *)

(* createDemoAccount: the issuance row stays locked until the COMMIT. *)
CreateAccount(r) ==
  /\ Runs(r, "create") /\ Goto(r, "email")
  /\ UNCHANGED <<ask, who, owner, game, tables>>

SetEmail(r) ==
  /\ Runs(r, "email")
  /\ IF Taken(ask[r].email) THEN End(r, "conflict") ELSE Goto(r, "registered")
  /\ UNCHANGED <<ask, who, owner, game, tables>>

CommitRegister(r) ==
  /\ Runs(r, "registered")
  /\ account' = [account EXCEPT ![r] = [email |-> ask[r].email, active |-> TRUE]]
  /\ auth' = [auth EXCEPT ![r] = [account |-> r, live |-> TRUE]]
  /\ who' = [who EXCEPT ![r] = r]
  /\ Goto(r, "for account")
  /\ UNCHANGED <<ask, owner, game, session, rounds>>

Login(l) ==
  /\ Runs(l, "password")
  /\ \/ End(l, "unauthorized") /\ UNCHANGED <<who, auth>>
     \/ \E a \in Ids :
          /\ account[a] # Gone /\ account[a].email = ask[l].email
          /\ IF account[a].active
             THEN /\ auth' = [auth EXCEPT ![l] = [account |-> a, live |-> TRUE]]
                  /\ who' = [who EXCEPT ![l] = a] /\ Goto(l, "for account")
             ELSE End(l, "disabled") /\ UNCHANGED <<who, auth>>
  /\ UNCHANGED <<ask, owner, game, account, session, rounds>>

AccountSessionOpen(a, c) == [account |-> a, protected |-> FALSE, stale |-> FALSE, row |-> c]
AccountSession(a, c) == [account |-> a, protected |-> TRUE, stale |-> FALSE, row |-> c]

(* createForAccount: FOR SHARE on the account, then the protected session. *)
CreateForAccount(c) ==
  /\ Runs(c, "for account")
  /\ IF account[who[c]].active
     THEN session' = [session EXCEPT ![c] = AccountSession(who[c], c)] /\ End(c, "ok")
     ELSE End(c, "disabled") /\ UNCHANGED session
  /\ UNCHANGED <<ask, who, owner, game, account, auth, rounds>>

-----------------------------------------------------------------------------
(* Opening, rotating, ending and playing a session; logging out *)

(* resumeOrCreate: a guest that gives a name holds the session and then wants the *)
(* account; a session that is not found is replaced by a new one.                 *)
Open(c) ==
  LET s == ask[c].session IN
  /\ Runs(c, "open")
  /\ IF Usable(s, who[c])
     THEN /\ UNCHANGED session
          /\ \/ End(c, "ok") /\ UNCHANGED owner
             \/ who[c] = None /\ owner' = [owner EXCEPT ![c] = session[s].account] /\ Goto(c, "rename")
     ELSE /\ session' = Swept(s) /\ UNCHANGED owner
          /\ Goto(c, IF who[c] # None THEN "for account" ELSE "fresh")
  /\ UNCHANGED <<ask, who, game, account, auth, rounds>>

Rename(c) ==
  /\ Runs(c, "rename") /\ End(c, "ok")
  /\ UNCHANGED <<ask, who, owner, game, tables>>

CreateGuest(c) ==
  /\ Runs(c, "fresh")
  /\ account' = [account EXCEPT ![c] = [email |-> None, active |-> TRUE]]
  /\ session' = [session EXCEPT ![c] = AccountSessionOpen(c, c)]
  /\ End(c, "ok")
  /\ UNCHANGED <<ask, who, owner, game, auth, rounds>>

Rotate(c) ==
  LET s == ask[c].session IN
  /\ Runs(c, "rotate")
  /\ IF Usable(s, who[c])
     THEN session' = [session EXCEPT ![c] = session[s], ![s] = Gone] /\ End(c, "ok")
     ELSE session' = Swept(s) /\ End(c, "unauthorized")
  /\ UNCHANGED <<ask, who, owner, game, account, auth, rounds>>

Delete(c) ==
  LET s == ask[c].session IN
  /\ Runs(c, "delete")
  /\ IF MayUse(s, who[c]) THEN session' = [session EXCEPT ![s] = Gone] /\ End(c, "ok")
     ELSE End(c, "unauthorized") /\ UNCHANGED session
  /\ UNCHANGED <<ask, who, owner, game, account, auth, rounds>>

(* Logging out ends the session it was given; whatever that says is swallowed.       *)
DropSession(c) ==
  LET s == ask[c].session IN
  /\ Runs(c, "drop") /\ Goto(c, "revoke")
  /\ session' = IF MayUse(s, who[c]) THEN [session EXCEPT ![s] = Gone] ELSE session
  /\ UNCHANGED <<ask, who, owner, game, account, auth, rounds>>

Revoke(c) ==
  /\ Runs(c, "revoke") /\ End(c, "ok")
  /\ auth' = [auth EXCEPT ![ask[c].token].live = FALSE]
  /\ UNCHANGED <<ask, who, owner, game, account, session, rounds>>

(* A spin reads the session, and its transaction asks the same again under the lock.  *)
ReadSession(p) ==
  LET s == ask[p].session IN
  /\ Runs(p, "read")
  /\ IF Usable(s, who[p])
     THEN owner' = [owner EXCEPT ![p] = session[s].account] /\ Goto(p, "play") /\ UNCHANGED session
     ELSE End(p, "unauthorized") /\ session' = Swept(s) /\ UNCHANGED owner
  /\ UNCHANGED <<ask, who, game, account, auth, rounds>>

Play(p) ==
  LET s == ask[p].session IN
  /\ Runs(p, "play")
  /\ IF Usable(s, who[p]) /\ session[s].account = owner[p]
     THEN Goto(p, "settle") /\ UNCHANGED session
     ELSE End(p, "conflict") /\ session' = Swept(s)
  /\ UNCHANGED <<ask, who, owner, game, account, auth, rounds>>

(* The round refers to the account: FOR KEY SHARE on its row, with the session held. *)
Settle(p) ==
  /\ Runs(p, "settle") /\ End(p, "ok")
  /\ rounds' = rounds \cup {[call |-> p, account |-> owner[p]]}
  /\ UNCHANGED <<ask, who, owner, game, account, session, auth>>

-----------------------------------------------------------------------------
(* Errors, deadlocks, time, administration *)

(* A statement or a COMMIT fails: the transaction is rolled back, the answer is 500. *)
(* Only the end of a session in logout is attempted and then forgotten.              *)
Fail(c) ==
  /\ pc[c] \notin {"idle", "done"}
  /\ IF pc[c] = "drop" THEN Goto(c, "revoke") ELSE End(c, "failed")
  /\ UNCHANGED <<ask, who, owner, game, tables>>

DeadlockedNever(c) == FALSE

Deadlocked(c) == \E d \in Blockers(c) : c \in Blockers(d)
AbortVictim(c) == Deadlocked(c) /\ Fail(c)

Expire(s) ==
  /\ Exists(s) /\ ~session[s].stale /\ SessionHolders(s) = {}
  /\ session' = [session EXCEPT ![s].stale = TRUE]
  /\ UNCHANGED <<callVars, account, auth, rounds>>

Disable(a) ==
  /\ account[a] # Gone /\ account[a].active /\ AccountHolders(a) = {}
  /\ account' = [account EXCEPT ![a].active = FALSE]
  /\ UNCHANGED <<callVars, session, auth, rounds>>

AccountsInit ==
  /\ pc = [c \in Calls |-> "idle"]
  /\ ask = [c \in Calls |-> [email |-> None, session |-> None, token |-> None]]
  /\ who = [c \in Calls |-> None] /\ owner = [c \in Calls |-> None]
  /\ answer = [c \in Calls |-> "none"]
  /\ account = [i \in Ids |-> IF i \in Guests THEN [email |-> None, active |-> TRUE] ELSE Gone]
  /\ session = [i \in Ids |-> IF i \in Guests THEN AccountSessionOpen(i, i) ELSE Gone]
  /\ auth = [i \in Ids |-> Gone]
  /\ rounds = {} /\ game = [x \in Logouts |-> None]

Step(c) ==
  \/ Authenticate(c) \/ ReadGuest(c) \/ LockGuest(c) \/ ProtectSession(c) \/ AttachCredentials(c)
  \/ CommitUpgrade(c) \/ Reopen(c) \/ CreateAccount(c) \/ SetEmail(c) \/ CommitRegister(c) \/ Login(c)
  \/ CreateForAccount(c) \/ Open(c) \/ Rename(c) \/ CreateGuest(c) \/ Rotate(c) \/ Delete(c)
  \/ DropSession(c) \/ Revoke(c) \/ ReadSession(c) \/ Play(c) \/ Settle(c)

AccountsNext ==
  \/ \E c \in Calls : Send(c) \/ Limited(c) \/ Step(c) \/ AbortVictim(c) \/ Fail(c)
  \/ \E i \in Ids : Expire(i) \/ Disable(i)

AccountsSpec == AccountsInit /\ [][AccountsNext]_accountsVars

-----------------------------------------------------------------------------
(* Properties *)

(* A registered account has no session that works without its token, although the  *)
(* guest's session may be rotated, ended or expire while the upgrade is under way: *)
(* the upgrade protects the session it finds or does not happen.                   *)
RegisteredIsProtected ==
  \A s \in Ids : Exists(s) /\ Registered(session[s].account) => session[s].protected

(* No two accounts share an address, whether two guests or a guest and a newcomer *)
(* claim it at the same time.                                                     *)
EmailsAreUnique ==
  \A a, b \in Ids : Registered(a) /\ Registered(b) /\ account[a].email = account[b].email => a = b

(* What an upgrade promises, whoever claims the session or the address meanwhile. *)
UpgradesHold == AccountsTypeOK /\ RegisteredIsProtected /\ EmailsAreUnique

(* A request without the token of a registered account neither plays for it nor  *)
(* rotates or ends its sessions, even when it found the session still a guest's. *)
AnonymousKeptOut ==
  /\ \A r \in rounds' \ rounds : Registered(r.account) => who[r.call] = r.account
  /\ \A s \in Ids :
       (Exists(s) /\ Registered(session[s].account) /\ session'[s] = Gone)
         => \/ session[s].stale
            \/ \E c \in Calls : pc'[c] # pc[c] /\ who[c] = session[s].account

(* The same of every step. *)
AnonymousStaysOut == [][AnonymousKeptOut]_accountsVars
================================================================================
