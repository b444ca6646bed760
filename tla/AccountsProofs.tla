------------------------------ MODULE AccountsProofs ------------------------------
(*****************************************************************************)
(* Safety of Accounts for every number of guests, requests and addresses.    *)
(*****************************************************************************)
EXTENDS Accounts, TLAPS

(* Each statement belongs to one kind of request. *)
StatementsOfKinds ==
  \A c \in Calls :
    /\ pc[c] \in {"guest", "lock", "protect", "attach", "upgraded", "reopen", "create", "email",
                  "registered"} => c \in Registers
    /\ pc[c] = "password" => c \in Logins
    /\ pc[c] = "token" => c \notin Registers \cup Logins
    /\ pc[c] \in {"drop", "revoke"} => c \in Logouts
    /\ pc[c] \in {"read", "play", "settle"} => c \in Spins
    /\ pc[c] = "for account" => c \in Registers \cup Logins \cup Opens
    /\ pc[c] \in {"open", "rename", "fresh"} => c \in Opens

(* What a request presents, and what it was resolved to, are rows there have been. *)
AskedOK ==
  \A c \in Calls :
    /\ c \in Registers \cup Logins /\ pc[c] # "idle" => ask[c].email # None
    /\ ask[c].token # None => auth[ask[c].token] # Gone
    /\ pc[c] \in {"drop", "revoke"} => ask[c].token # None

(* Accounts are never deleted, and what names one names one there is. *)
AccountsExist ==
  /\ \A t \in Ids : auth[t] # Gone => account[auth[t].account] # Gone
  /\ \A c \in Calls : /\ who[c] # None => account[who[c]] # Gone
                      /\ pc[c] = "for account" => who[c] # None

(* A row is created by the last statement of the request that it is named by. *)
RowsAreNew ==
  \A c \in Calls :
    /\ session[c] # Gone => pc[c] = "done"
    /\ account[c] # Gone => pc[c] \in {"for account", "done"}
    /\ auth[c] # Gone => pc[c] \in {"reopen", "for account", "done"}

(* The locks of sessions and addresses that the program counters stand for are exclusive. *)
SessionExclusive == \A s \in Ids : \A c, d \in SessionHolders(s) : c = d
EmailExclusive == \A e \in Emails : \A c, d \in EmailHolders(e) : c = d

(* A request that holds a session finds it as its statements have left it. *)
HeldIsKnown ==
  \A c \in Calls :
    /\ pc[c] \in {"attach", "upgraded"} => ProtectedRow(ask[c].session, owner[c])
    /\ pc[c] = "settle" => /\ MayUse(ask[c].session, who[c])
                           /\ session[ask[c].session].account = owner[c]

(* An address that is held for its COMMIT is nobody's yet. *)
EmailIsFree == \A c \in Calls : pc[c] \in {"upgraded", "registered"} => ~Taken(ask[c].email)

(* An account has one session that works without its token. *)
OneOpenSession ==
  \A s, t \in Ids :
    /\ Exists(s) /\ ~session[s].protected
    /\ Exists(t) /\ ~session[t].protected
    /\ session[s].account = session[t].account
    => s = t

(* The inductive invariant. *)
Inv ==
  /\ RequestsAssumption
  /\ AccountsTypeOK
  /\ StatementsOfKinds
  /\ AskedOK
  /\ AccountsExist
  /\ RowsAreNew
  /\ SessionExclusive
  /\ EmailExclusive
  /\ HeldIsKnown
  /\ EmailIsFree
  /\ OneOpenSession
  /\ RegisteredIsProtected
  /\ EmailsAreUnique

-----------------------------------------------------------------------------
(* Rows *)

(* A missing row is no row. *)
LEMMA RowsExist == Gone \notin AccountRow /\ Gone \notin SessionRow /\ Gone \notin AuthRow
<1>1. /\ \A row \in AccountRow : "email" \in DOMAIN row
      /\ \A row \in SessionRow \cup AuthRow : "account" \in DOMAIN row
  BY DEF AccountRow, SessionRow, AuthRow
<1>2. "email" \notin DOMAIN Gone /\ "account" \notin DOMAIN Gone
  BY DEF Gone
<1> QED
  BY <1>1, <1>2

(* No request is of two kinds, and none is a guest. *)
LEMMA Disjoint ==
  ASSUME RequestsAssumption
  PROVE  /\ Registers \cap Logins = {} /\ Registers \cap Logouts = {} /\ Registers \cap Opens = {}
         /\ Registers \cap Spins = {} /\ Logins \cap Logouts = {} /\ Logins \cap Opens = {}
         /\ None \notin Ids /\ None \notin Emails
BY DEF RequestsAssumption

-----------------------------------------------------------------------------
(* What a step of a request can do *)

Acts(c) == Send(c) \/ Limited(c) \/ Step(c) \/ AbortVictim(c) \/ Fail(c)

(* A statement runs when nobody else holds what it has to lock. *)
LEMMA Waits ==
  ASSUME NEW c \in Calls
  PROVE  /\ \A at \in OnSession : Runs(c, at) => SessionHolders(ask[c].session) = {}
         /\ Runs(c, "attach") \/ Runs(c, "email") => EmailHolders(ask[c].email) \subseteq {c}
<1>1. ASSUME NEW at \in OnSession, Runs(c, at) PROVE SessionHolders(ask[c].session) = {}
  <2>1. Blockers(c) = SessionHolders(ask[c].session) \ {c}
    BY <1>1 DEF Blockers, Runs, OnSession
  <2>2. c \notin SessionHolders(ask[c].session)
    BY <1>1 DEF SessionHolders, Runs, OnSession
  <2> QED
    BY <1>1, <2>1, <2>2 DEF Runs
<1>2. Runs(c, "attach") \/ Runs(c, "email") => EmailHolders(ask[c].email) \subseteq {c}
  BY DEF Blockers, Runs, OnSession
<1> QED
  BY <1>1, <1>2

(* A step of one request leaves what the others know alone. *)
LEMMA OthersStay ==
  ASSUME AccountsTypeOK, NEW c \in Calls, Acts(c), NEW d \in Calls, d # c
  PROVE  pc'[d] = pc[d] /\ ask'[d] = ask[d] /\ who'[d] = who[d] /\ owner'[d] = owner[d]
<1> USE DEF AccountsTypeOK, Runs, Goto, End
<1>1. CASE Send(c) \/ Limited(c) \/ AbortVictim(c) \/ Fail(c)
  BY <1>1 DEF Send, Limited, AbortVictim, Fail
<1>2. CASE \/ Authenticate(c) \/ ReadGuest(c) \/ LockGuest(c) \/ ProtectSession(c)
           \/ AttachCredentials(c)
  BY <1>2 DEF Authenticate, ReadGuest, LockGuest, ProtectSession, AttachCredentials
<1>3. CASE \/ CommitUpgrade(c) \/ Reopen(c) \/ CreateAccount(c) \/ SetEmail(c) \/ CommitRegister(c)
           \/ Login(c) \/ CreateForAccount(c)
  BY <1>3
  DEF CommitUpgrade, Reopen, CreateAccount, SetEmail, CommitRegister, Login, CreateForAccount
<1>4. CASE \/ Open(c) \/ Rename(c) \/ CreateGuest(c) \/ Rotate(c) \/ Delete(c) \/ DropSession(c)
           \/ Revoke(c) \/ ReadSession(c) \/ Play(c) \/ Settle(c)
  BY <1>4
  DEF Open, Rename, CreateGuest, Rotate, Delete, DropSession, Revoke, ReadSession, Play, Settle
<1> QED
  BY <1>1, <1>2, <1>3, <1>4 DEF Acts, Step

(* A row that is not missing is a row, and an UPDATE keeps the columns it does not set. *)
LEMMA Rows ==
  ASSUME AccountsTypeOK
  PROVE  /\ \A a \in Ids : account[a] # Gone => account[a] \in AccountRow
         /\ \A s \in Ids : Exists(s) => session[s] \in SessionRow /\ s # None
         /\ \A t \in Ids : auth[t] # Gone => auth[t] \in AuthRow
         /\ \A row \in SessionRow : \A b \in BOOLEAN :
              [row EXCEPT !.protected = b] = [account |-> row.account, protected |-> b,
                                              stale |-> row.stale, row |-> row.row]
         /\ \A row \in AccountRow : \A e :
              [row EXCEPT !.email = e] = [email |-> e, active |-> row.active]
BY DEF AccountsTypeOK, Exists, AccountRow, SessionRow, AuthRow

(* What a step of c makes of the row of session s. *)
EndsSession(c, s) ==
  /\ s = ask[c].session /\ Exists(s) /\ SessionHolders(s) = {}
  /\ session[s].stale \/ MayUse(s, who[c])
  /\ session'[s] = Gone /\ pc'[c] # pc[c] /\ UNCHANGED account
Protects(c, s) ==
  /\ CommitUpgrade(c) /\ s = ask[c].session /\ Exists(s)
  /\ session'[s] = [session[s] EXCEPT !.protected = TRUE]
CreatesSession(c, s) ==
  /\ s = c /\ pc[c] = "for account" /\ pc'[c] = "done" /\ UNCHANGED account
  /\ session'[s] = AccountSession(who[c], c)
CreatesGuest(c, s) ==
  /\ s = c /\ pc[c] = "fresh" /\ pc'[c] = "done"
  /\ session'[s] = AccountSessionOpen(c, c)
  /\ account' = [account EXCEPT ![c] = [email |-> None, active |-> TRUE]]
TakesOver(c, s) ==
  /\ s = c /\ pc[c] = "rotate" /\ pc'[c] = "done" /\ UNCHANGED account
  /\ Exists(ask[c].session) /\ ask[c].session # c
  /\ session'[s] = session[ask[c].session] /\ session'[ask[c].session] = Gone

(* A step of c does one of these to a session, or nothing. *)
LEMMA SessionRows ==
  ASSUME Inv, NEW c \in Calls, Acts(c), NEW s \in Ids
  PROVE  \/ session'[s] = session[s]
         \/ EndsSession(c, s) \/ Protects(c, s) \/ CreatesSession(c, s) \/ CreatesGuest(c, s)
         \/ TakesOver(c, s)
<1> USE DEF Inv, AccountsTypeOK, Goto, End
<1>0. /\ c \in Ids
      /\ \A at \in OnSession : Runs(c, at) => SessionHolders(ask[c].session) = {} /\ pc[c] = at
  BY Waits DEF Ids, Runs
<1>1. CASE UNCHANGED session
  BY <1>1
<1>2. CASE session' = Swept(ask[c].session) /\ pc'[c] # pc[c] /\ UNCHANGED account
           /\ SessionHolders(ask[c].session) = {}
  BY <1>2 DEF Swept, EndsSession, Exists
<1>3. CASE ReadGuest(c) \/ Reopen(c) \/ ReadSession(c)
  <2>1. session' = session \/ session' = Swept(ask[c].session)
    BY <1>3 DEF ReadGuest, Reopen, ReadSession
  <2>2. pc'[c] # pc[c] /\ UNCHANGED account
    BY <1>3 DEF ReadGuest, Reopen, ReadSession, Runs
  <2>3. SessionHolders(ask[c].session) = {}
    BY <1>3, <1>0 DEF ReadGuest, Reopen, ReadSession, OnSession
  <2> QED
    BY <1>1, <1>2, <2>1, <2>2, <2>3
<1>4. CASE Open(c) \/ Play(c)
  <2>1. session' = session \/ session' = Swept(ask[c].session)
    BY <1>4 DEF Open, Play
  <2>2. pc'[c] # pc[c] /\ UNCHANGED account
    BY <1>4 DEF Open, Play, Runs
  <2>3. SessionHolders(ask[c].session) = {}
    BY <1>4, <1>0 DEF Open, Play, OnSession
  <2> QED
    BY <1>1, <1>2, <2>1, <2>2, <2>3
<1>5. CASE Delete(c) \/ DropSession(c)
  <2>1. \/ session' = session
        \/ /\ MayUse(ask[c].session, who[c])
           /\ session' = [session EXCEPT ![ask[c].session] = Gone]
    BY <1>5 DEF Delete, DropSession
  <2>2. pc'[c] # pc[c] /\ UNCHANGED account
    BY <1>5 DEF Delete, DropSession, Runs
  <2>3. SessionHolders(ask[c].session) = {}
    BY <1>5, <1>0 DEF Delete, DropSession, OnSession
  <2> QED
    BY <2>1, <2>2, <2>3 DEF EndsSession, MayUse, Exists
<1>6. CASE Rotate(c)
  <2>1. /\ pc[c] = "rotate" /\ pc'[c] = "done" /\ UNCHANGED account
        /\ SessionHolders(ask[c].session) = {}
    BY <1>6, <1>0 DEF Rotate, OnSession, Runs
  <2>2. CASE session' = Swept(ask[c].session)
    BY <2>1, <2>2, <1>2
  <2>3. CASE /\ Usable(ask[c].session, who[c])
             /\ session' = [session EXCEPT ![c] = session[ask[c].session], ![ask[c].session] = Gone]
    <3>1. ask[c].session \in Ids /\ session[ask[c].session] # Gone /\ MayUse(ask[c].session, who[c])
      BY <2>3 DEF Usable, MayUse, Exists
    <3>2. ask[c].session # c
      BY <2>1, <3>1 DEF RowsAreNew
    <3>3. session'[c] = session[ask[c].session] /\ session'[ask[c].session] = Gone
      BY <2>3, <3>1, <3>2, <1>0
    <3>4. s # c /\ s # ask[c].session => session'[s] = session[s]
      BY <2>3, <3>1
    <3> QED
      BY <2>1, <3>1, <3>2, <3>3, <3>4 DEF EndsSession, TakesOver, MayUse, Exists
  <2> QED
    BY <1>6, <2>2, <2>3 DEF Rotate
<1>7. CASE CommitUpgrade(c)
  <2>1. \/ session' = session
        \/ Exists(ask[c].session) /\ session' = [session EXCEPT ![ask[c].session].protected = TRUE]
    BY <1>7 DEF CommitUpgrade
  <2> QED
    BY <1>7, <2>1 DEF Protects, Exists
<1>8. CASE CreateForAccount(c)
  BY <1>8, <1>0 DEF CreateForAccount, CreatesSession, Runs
<1>9. CASE CreateGuest(c)
  BY <1>9, <1>0 DEF CreateGuest, CreatesGuest, Runs
<1>10. CASE \/ Send(c) \/ Limited(c) \/ AbortVictim(c) \/ Fail(c) \/ Authenticate(c) \/ LockGuest(c)
            \/ ProtectSession(c) \/ AttachCredentials(c) \/ CreateAccount(c) \/ SetEmail(c)
            \/ CommitRegister(c) \/ Login(c) \/ Rename(c) \/ Revoke(c) \/ Settle(c)
  BY <1>10, <1>1
  DEF Send, Limited, AbortVictim, Fail, Authenticate, LockGuest, ProtectSession, AttachCredentials,
      CreateAccount, SetEmail, CommitRegister, Login, Rename, Revoke, Settle, tables
<1> QED
  BY <1>3, <1>4, <1>5, <1>6, <1>7, <1>8, <1>9, <1>10 DEF Acts, Step

(* What a step of c makes of the row of account a. *)
UpgradesAccount(c, a) ==
  CommitUpgrade(c) /\ a = owner[c] /\ account'[a] = [account[a] EXCEPT !.email = ask[c].email]
CreatesAccount(c, a) ==
  CommitRegister(c) /\ a = c /\ account'[a] = [email |-> ask[c].email, active |-> TRUE]
NewGuest(c, a) ==
  CreateGuest(c) /\ a = c /\ account'[a] = [email |-> None, active |-> TRUE]

(* A step of c does one of these to an account, or nothing. *)
LEMMA AccountRows ==
  ASSUME Inv, NEW c \in Calls, Acts(c), NEW a \in Ids
  PROVE  \/ account'[a] = account[a]
         \/ UpgradesAccount(c, a) \/ CreatesAccount(c, a) \/ NewGuest(c, a)
<1> USE DEF Inv, AccountsTypeOK
<1>1. CASE CommitUpgrade(c)
  BY <1>1 DEF CommitUpgrade, CommittedUpgrade, UpgradesAccount
<1>2. CASE CommitRegister(c)
  BY <1>2 DEF CommitRegister, CreatesAccount
<1>3. CASE CreateGuest(c)
  BY <1>3 DEF CreateGuest, NewGuest
<1>4. CASE \/ Send(c) \/ Limited(c) \/ AbortVictim(c) \/ Fail(c) \/ Authenticate(c) \/ LockGuest(c)
           \/ ProtectSession(c) \/ AttachCredentials(c) \/ CreateAccount(c) \/ SetEmail(c)
           \/ Login(c) \/ Rename(c) \/ Revoke(c) \/ Settle(c)
  BY <1>4
  DEF Send, Limited, AbortVictim, Fail, Authenticate, LockGuest, ProtectSession, AttachCredentials,
      CreateAccount, SetEmail, Login, Rename, Revoke, Settle, tables
<1>5. CASE \/ ReadGuest(c) \/ Reopen(c) \/ CreateForAccount(c) \/ Open(c) \/ Rotate(c) \/ Delete(c)
           \/ DropSession(c) \/ ReadSession(c) \/ Play(c)
  BY <1>5
  DEF ReadGuest, Reopen, CreateForAccount, Open, Rotate, Delete, DropSession, ReadSession, Play
<1> QED
  BY <1>1, <1>2, <1>3, <1>4, <1>5 DEF Acts, Step

-----------------------------------------------------------------------------
(* Each part of the invariant through a step of a request *)

(* What a step of c makes of the auth session t. *)
LEMMA AuthRows ==
  ASSUME Inv, NEW c \in Calls, Acts(c), NEW t \in Ids
  PROVE  \/ auth'[t] = auth[t]
         \/ auth[t] # Gone /\ auth'[t] \in AuthRow /\ auth'[t].account = auth[t].account
         \/ /\ t = c /\ pc'[c] \in {"reopen", "for account"}
            /\ \/ CommitUpgrade(c) /\ auth'[t] = [account |-> owner[c], live |-> TRUE]
               \/ CommitRegister(c) /\ auth'[t] = [account |-> c, live |-> TRUE]
               \/ Login(c) /\ auth'[t] = [account |-> who'[c], live |-> TRUE] /\ who'[c] # None
<1> USE DEF Inv, AccountsTypeOK, Goto, End
<1>1. CASE Revoke(c)
  <2>1. \/ auth'[t] = auth[t]
        \/ ask[c].token = t /\ auth'[t] = [auth[t] EXCEPT !.live = FALSE]
    BY <1>1 DEF Revoke
  <2>2. ask[c].token = t => auth[t] \in AuthRow
    BY RowsExist, <1>1 DEF AskedOK, RequestsAssumption
  <2>3. auth[t] \in AuthRow => /\ [auth[t] EXCEPT !.live = FALSE] \in AuthRow
                               /\ [auth[t] EXCEPT !.live = FALSE].account = auth[t].account
    BY DEF AuthRow
  <2> QED
    BY <2>1, <2>2, <2>3, RowsExist
<1>2. CASE CommitUpgrade(c)
  BY <1>2 DEF CommitUpgrade
<1>3. CASE CommitRegister(c)
  BY <1>3 DEF CommitRegister
<1>4. CASE Login(c)
  <2>1. CASE UNCHANGED auth
    BY <2>1
  <2>2. ASSUME NEW a \in Ids, auth' = [auth EXCEPT ![c] = [account |-> a, live |-> TRUE]],
               who' = [who EXCEPT ![c] = a], Goto(c, "for account")
        PROVE  /\ t # c => auth'[t] = auth[t]
               /\ t = c => /\ pc'[c] = "for account" /\ who'[c] # None
                          /\ auth'[t] = [account |-> who'[c], live |-> TRUE]
    BY <2>2 DEF RequestsAssumption
  <2> QED
    BY <1>4, <2>1, <2>2 DEF Login
<1>5. CASE UNCHANGED auth
  BY <1>5
<1> QED
  BY <1>1, <1>2, <1>3, <1>4, <1>5
  DEF Acts, Step, Send, Limited, AbortVictim, Fail, Authenticate, ReadGuest, LockGuest,
      ProtectSession, AttachCredentials, Reopen, CreateAccount, SetEmail, CreateForAccount, Open,
      Rename, CreateGuest, Rotate, Delete, DropSession, ReadSession, Play, Settle, tables

(* A request that upgrades holds a session of an account there is. *)
LEMMA UpgradedExists ==
  ASSUME Inv, NEW c \in Calls, CommitUpgrade(c)
  PROVE  /\ ask[c].session \in Ids /\ owner[c] \in Ids
         /\ Exists(ask[c].session) /\ ~session[ask[c].session].protected
         /\ session[ask[c].session].account = owner[c] /\ account[owner[c]] # Gone
<1>1. ProtectedRow(ask[c].session, owner[c])
  BY DEF CommitUpgrade, Runs, Inv, HeldIsKnown
<1>2. ask[c].session \in Ids
  BY <1>1 DEF ProtectedRow, Exists, Inv, AccountsTypeOK
<1>3. session[ask[c].session] \in SessionRow
  BY <1>1, <1>2, Rows DEF ProtectedRow, Inv
<1> QED
  BY <1>1, <1>2, <1>3 DEF ProtectedRow, Exists, Inv, AccountsTypeOK, SessionRow

(* An account, once there, stays, and so does an auth session. *)
LEMMA NothingIsForgotten ==
  ASSUME Inv, NEW c \in Calls, Acts(c)
  PROVE  /\ \A a \in Ids : account[a] # Gone => account'[a] # Gone
         /\ \A t \in Ids : auth[t] # Gone => auth'[t] # Gone /\ auth'[t].account = auth[t].account
<1>1. \A e, b : [email |-> e, active |-> b] # Gone
  BY DEF Gone
<1>2. ASSUME NEW a \in Ids, account[a] # Gone PROVE account'[a] # Gone
  <2>1. \/ account'[a] = account[a]
        \/ UpgradesAccount(c, a) \/ CreatesAccount(c, a) \/ NewGuest(c, a)
    BY AccountRows
  <2>2. CASE UpgradesAccount(c, a)
    <3>1. account'[a] = [email |-> ask[c].email, active |-> account[a].active]
      BY <1>2, <2>2, Rows DEF Inv, UpgradesAccount
    <3> QED
      BY <3>1, <1>1
  <2> QED
    BY <1>1, <1>2, <2>1, <2>2 DEF CreatesAccount, NewGuest
<1>3. ASSUME NEW t \in Ids, auth[t] # Gone
      PROVE  auth'[t] # Gone /\ auth'[t].account = auth[t].account
  <2>1. t = c => pc[c] \in {"reopen", "for account", "done"}
    BY <1>3 DEF Inv, RowsAreNew
  <2>2. pc[c] \in {"reopen", "for account", "done"}
          => ~CommitUpgrade(c) /\ ~CommitRegister(c) /\ ~Login(c)
    BY DEF CommitUpgrade, CommitRegister, Login, Runs
  <2> QED
    BY <1>3, <2>1, <2>2, AuthRows, RowsExist
<1> QED
  BY <1>2, <1>3

(* The ways of a request through its statements. *)
LEMMA Moves ==
  ASSUME AccountsTypeOK, NEW c \in Calls, Acts(c)
  PROVE  \/ pc'[c] = "done"
         \/ pc[c] = "idle" /\ c \in Logins /\ pc'[c] = "password"
         \/ pc[c] = "idle" /\ c \in Registers /\ pc'[c] \in {"create", "guest"}
         \/ pc[c] = "idle" /\ c \notin Registers \cup Logins /\ pc'[c] = "token"
         \/ pc[c] = "token" /\ c \in Opens /\ pc'[c] \in {"open", "for account", "fresh"}
         \/ pc[c] = "token" /\ c \in Rotations /\ pc'[c] = "rotate"
         \/ pc[c] = "token" /\ c \in Deletes /\ pc'[c] = "delete"
         \/ pc[c] = "token" /\ c \in Spins /\ pc'[c] = "read"
         \/ pc[c] = "token" /\ c \notin Opens \cup Rotations \cup Deletes \cup Spins
              /\ pc'[c] \in {"drop", "revoke"}
         \/ ReadGuest(c) /\ pc[c] = "guest" /\ pc'[c] = "lock"
         \/ pc[c] = "lock" /\ pc'[c] = "protect"
         \/ ProtectSession(c) /\ pc[c] = "protect" /\ pc'[c] = "attach"
         \/ AttachCredentials(c) /\ pc[c] = "attach" /\ pc'[c] = "upgraded"
         \/ CommitUpgrade(c) /\ pc[c] = "upgraded" /\ pc'[c] = "reopen"
         \/ pc[c] = "create" /\ pc'[c] = "email"
         \/ SetEmail(c) /\ pc[c] = "email" /\ pc'[c] = "registered"
         \/ CommitRegister(c) /\ pc[c] = "registered" /\ pc'[c] = "for account"
         \/ Login(c) /\ pc[c] = "password" /\ pc'[c] = "for account"
         \/ Open(c) /\ pc[c] = "open" /\ pc'[c] \in {"rename", "fresh"}
         \/ pc[c] = "open" /\ who[c] # None /\ pc'[c] = "for account"
         \/ pc[c] = "drop" /\ pc'[c] = "revoke"
         \/ ReadSession(c) /\ pc[c] = "read" /\ pc'[c] = "play"
         \/ Play(c) /\ pc[c] = "play" /\ pc'[c] = "settle"
<1> USE DEF AccountsTypeOK, Goto, End, Runs
<1>1. CASE Send(c)
  BY <1>1 DEF Send
<1>2. CASE Authenticate(c)
  BY <1>2 DEF Authenticate, First
<1>3. CASE \/ ReadGuest(c) \/ LockGuest(c) \/ ProtectSession(c) \/ AttachCredentials(c)
           \/ CommitUpgrade(c)
  BY <1>3 DEF ReadGuest, LockGuest, ProtectSession, AttachCredentials, CommitUpgrade
<1>4. CASE \/ Reopen(c) \/ CreateAccount(c) \/ SetEmail(c) \/ CommitRegister(c) \/ Login(c)
           \/ CreateForAccount(c)
  BY <1>4 DEF Reopen, CreateAccount, SetEmail, CommitRegister, Login, CreateForAccount
<1>5. CASE Open(c) \/ Rename(c) \/ CreateGuest(c) \/ Rotate(c) \/ Delete(c) \/ DropSession(c)
  BY <1>5 DEF Open, Rename, CreateGuest, Rotate, Delete, DropSession
<1>6. CASE \/ Revoke(c) \/ ReadSession(c) \/ Play(c) \/ Settle(c) \/ Limited(c) \/ Fail(c)
           \/ AbortVictim(c)
  BY <1>6 DEF Revoke, ReadSession, Play, Settle, Limited, Fail, AbortVictim
<1> QED
  BY <1>1, <1>2, <1>3, <1>4, <1>5, <1>6 DEF Acts, Step

(* A step leaves its request at a statement of its kind. *)
LEMMA KindsStep ==
  ASSUME Inv, NEW c \in Calls, Acts(c)
  PROVE  StatementsOfKinds'
<1> SUFFICES ASSUME NEW d \in Calls
             PROVE  /\ pc'[d] \in {"guest", "lock", "protect", "attach", "upgraded", "reopen",
                                   "create", "email", "registered"} => d \in Registers
                    /\ pc'[d] = "password" => d \in Logins
                    /\ pc'[d] = "token" => d \notin Registers \cup Logins
                    /\ pc'[d] \in {"drop", "revoke"} => d \in Logouts
                    /\ pc'[d] \in {"read", "play", "settle"} => d \in Spins
                    /\ pc'[d] = "for account" => d \in Registers \cup Logins \cup Opens
                    /\ pc'[d] \in {"open", "rename", "fresh"} => d \in Opens
  BY DEF StatementsOfKinds
<1>1. CASE d # c
  BY <1>1, OthersStay DEF Inv, StatementsOfKinds
<1>2. CASE d = c
  BY <1>2, Moves DEF Inv, StatementsOfKinds, Calls
<1> QED
  BY <1>1, <1>2

(* A request that is done does nothing. *)
LEMMA NotDone ==
  ASSUME NEW c \in Calls, Acts(c)
  PROVE  pc[c] # "done"
BY DEF Acts, Step, Send, Limited, AbortVictim, Fail, Authenticate, ReadGuest, LockGuest,
       ProtectSession, AttachCredentials, CommitUpgrade, Reopen, CreateAccount, SetEmail,
       CommitRegister, Login, CreateForAccount, Open, Rename, CreateGuest, Rotate, Delete,
       DropSession, Revoke, ReadSession, Play, Settle, Runs

(* What is named by a request is created once, and at its end. *)
LEMMA RowsStep ==
  ASSUME Inv, NEW c \in Calls, Acts(c)
  PROVE  RowsAreNew'
<1> SUFFICES ASSUME NEW d \in Calls
             PROVE  /\ session'[d] # Gone => pc'[d] = "done"
                    /\ account'[d] # Gone => pc'[d] \in {"for account", "done"}
                    /\ auth'[d] # Gone => pc'[d] \in {"reopen", "for account", "done"}
  BY DEF RowsAreNew
<1>1. d \in Ids /\ (d # c => pc'[d] = pc[d])
  BY OthersStay DEF Ids, Inv
<1>2. /\ session[d] # Gone => d # c /\ pc[d] = "done"
      /\ d = c /\ pc[d] \in {"reopen", "for account"} => pc'[d] = "done"
      /\ account[d] # Gone => pc[d] \in {"for account", "done"}
      /\ auth[d] # Gone => pc[d] \in {"reopen", "for account", "done"}
  BY NotDone, Moves DEF Inv, RowsAreNew
<1>3. session'[d] # Gone => pc'[d] = "done"
  BY <1>1, <1>2, SessionRows
  DEF EndsSession, Protects, CreatesSession, CreatesGuest, TakesOver, Exists
<1>4. account'[d] # Gone => pc'[d] \in {"for account", "done"}
  <2>1. CASE account'[d] = account[d]
    BY <2>1, <1>1, <1>2, NotDone
  <2>2. CASE UpgradesAccount(c, d)
    <3>1. account[d] # Gone /\ pc[c] = "upgraded"
      BY <2>2, UpgradedExists DEF UpgradesAccount, CommitUpgrade, Runs
    <3> QED
      BY <3>1, <1>1, <1>2
  <2>3. CASE CreatesAccount(c, d) \/ NewGuest(c, d)
    BY <2>3 DEF CreatesAccount, NewGuest, CommitRegister, CreateGuest, Goto, End, Inv, AccountsTypeOK
  <2> QED
    BY <1>1, <2>1, <2>2, <2>3, AccountRows
<1>5. auth'[d] # Gone => pc'[d] \in {"reopen", "for account", "done"}
  BY <1>1, <1>2, NotDone, AuthRows
<1> QED
  BY <1>3, <1>4, <1>5

(* A token that is presented names a session that stays. *)
LEMMA AskedStep ==
  ASSUME Inv, NEW c \in Calls, Acts(c)
  PROVE  AskedOK'
<1> SUFFICES ASSUME NEW d \in Calls
             PROVE  /\ d \in Registers \cup Logins /\ pc'[d] # "idle" => ask'[d].email # None
                    /\ ask'[d].token # None => auth'[ask'[d].token] # Gone
                    /\ pc'[d] \in {"drop", "revoke"} => ask'[d].token # None
  BY DEF AskedOK
<1>1. CASE d # c
  BY <1>1, OthersStay, NothingIsForgotten DEF Inv, AskedOK, AccountsTypeOK
<1>2. CASE d = c /\ Send(c)
  <2>1. PICK e \in (IF c \in Registers \cup Logins THEN Emails ELSE {None}), s \in Ids \cup {None},
             t \in Tokens \cup {None} :
               ask' = [ask EXCEPT ![c] = [email |-> e, session |-> s, token |-> t]]
    BY <1>2 DEF Send, Presented
  <2>2. ask'[c] = [email |-> e, session |-> s, token |-> t]
    BY <2>1 DEF Inv, AccountsTypeOK
  <2>3. auth' = auth /\ pc'[c] \notin {"drop", "revoke"}
    BY <1>2 DEF Send, tables, Goto, Inv, AccountsTypeOK
  <2> QED
    BY <1>2, <2>1, <2>2, <2>3 DEF Tokens, Inv, RequestsAssumption
<1>3. CASE d = c /\ ~Send(c)
  <2>1. ask' = ask /\ pc[c] # "idle"
    BY <1>3
    DEF Acts, Step, Limited, AbortVictim, Fail, Authenticate, ReadGuest, LockGuest, ProtectSession,
        AttachCredentials, CommitUpgrade, Reopen, CreateAccount, SetEmail, CommitRegister, Login,
        CreateForAccount, Open, Rename, CreateGuest, Rotate, Delete, DropSession, Revoke,
        ReadSession, Play, Settle, Runs
  <2>2. pc'[c] \in {"drop", "revoke"} => pc[c] \in {"drop", "revoke"} \/ ask[c].token # None
    <3>1. pc'[c] \in {"drop", "revoke"} => pc[c] \in {"token", "drop"}
      BY Moves DEF Inv
    <3>2. pc'[c] \in {"drop", "revoke"} /\ pc[c] = "token" => c \in Logouts /\ Authenticate(c)
      BY KindsStep, Moves
      DEF Inv, StatementsOfKinds, Acts, Step, Send, Limited, AbortVictim, Fail, ReadGuest,
          LockGuest, ProtectSession, AttachCredentials, CommitUpgrade, Reopen, CreateAccount,
          SetEmail, CommitRegister, Login, CreateForAccount, Open, Rename, CreateGuest, Rotate,
          Delete, DropSession, Revoke, ReadSession, Play, Settle, Runs, End, AccountsTypeOK
    <3>3. pc'[c] \in {"drop", "revoke"} /\ Authenticate(c) => \E a : Resolved(c, a)
      BY DEF Authenticate, End, Inv, AccountsTypeOK
    <3> QED
      BY <3>1, <3>2, <3>3 DEF Resolved
  <2> QED
    BY <1>3, <2>1, <2>2, NothingIsForgotten DEF Inv, AskedOK, AccountsTypeOK
<1> QED
  BY <1>1, <1>2, <1>3

(* A name of an account is given when there is one, and accounts stay. *)
LEMMA ExistStep ==
  ASSUME Inv, NEW c \in Calls, Acts(c)
  PROVE  AccountsExist'
<1>1. ASSUME NEW t \in Ids, auth'[t] # Gone PROVE account'[auth'[t].account] # Gone
  <2>1. CASE auth[t] # Gone
    BY <2>1, NothingIsForgotten, Rows DEF Inv, AccountsExist, AuthRow
  <2>2. CASE auth[t] = Gone /\ CommitUpgrade(c) /\ auth'[t] = [account |-> owner[c], live |-> TRUE]
    BY <2>2, UpgradedExists, NothingIsForgotten
  <2>3. CASE auth[t] = Gone /\ CommitRegister(c) /\ auth'[t] = [account |-> c, live |-> TRUE]
    <3>1. account'[c] = [email |-> ask[c].email, active |-> TRUE]
      BY <2>3 DEF CommitRegister, Inv, AccountsTypeOK, Ids
    <3> QED
      BY <2>3, <3>1 DEF Gone
  <2>4. CASE /\ auth[t] = Gone /\ Login(c) /\ who'[c] # None
             /\ auth'[t] = [account |-> who'[c], live |-> TRUE]
    <3>1. account[who'[c]] # Gone /\ account' = account
      BY <2>4, <1>1 DEF Login, Inv, AccountsTypeOK
    <3> QED
      BY <2>4, <3>1
  <2> QED
    BY <1>1, <2>1, <2>2, <2>3, <2>4, AuthRows
<1>2. ASSUME NEW d \in Calls
      PROVE  /\ who'[d] # None => account'[who'[d]] # Gone
             /\ pc'[d] = "for account" => who'[d] # None
  <2>1. CASE d # c
    <3>1. who'[d] = who[d] /\ pc'[d] = pc[d]
      BY <2>1, OthersStay DEF Inv
    <3>2. who[d] # None => who[d] \in Ids /\ account[who[d]] # Gone
      BY DEF Inv, AccountsTypeOK, AccountsExist
    <3> QED
      BY <3>1, <3>2, NothingIsForgotten DEF Inv, AccountsExist
  <2>2. CASE d = c /\ CommitRegister(c)
    <3>1. account'[c] = [email |-> ask[c].email, active |-> TRUE] /\ who'[c] = c /\ c # None
      BY <2>2 DEF CommitRegister, Inv, AccountsTypeOK, Ids, RequestsAssumption
    <3>2. account'[c] # Gone
      BY <3>1 DEF Gone
    <3> QED
      BY <2>2, <3>1, <3>2
  <2>3. CASE d = c /\ Login(c)
    <3>1. CASE UNCHANGED who /\ pc'[c] = "done"
      BY <3>1, <2>3, NothingIsForgotten DEF Inv, AccountsExist, AccountsTypeOK
    <3>2. ASSUME NEW a \in Ids, account[a] # Gone, who' = [who EXCEPT ![c] = a]
          PROVE  who'[c] = a /\ a # None
      BY <3>2 DEF Inv, AccountsTypeOK, RequestsAssumption
    <3> QED
      BY <2>3, <3>1, <3>2, NothingIsForgotten DEF Login, End, Inv, AccountsTypeOK
  <2>4. CASE d = c /\ Authenticate(c)
    <3>1. CASE UNCHANGED who /\ pc'[c] = "done"
      BY <3>1, <2>4, NothingIsForgotten DEF Inv, AccountsExist, AccountsTypeOK
    <3>2. ASSUME NEW a \in Ids \cup {None}, Resolved(c, a), who' = [who EXCEPT ![c] = a],
                 Goto(c, First(c))
          PROVE  /\ who'[c] # None => account'[who'[c]] # Gone
                 /\ pc'[c] = "for account" => who'[c] # None
      <4>1. who'[c] = a /\ account' = account /\ pc'[c] = First(c)
        BY <2>4, <3>2 DEF Authenticate, Inv, AccountsTypeOK, Goto, tables
      <4>2. ask[c].token # None => a # None /\ account[a] # Gone
        <5>1. ask[c].token # None => auth[ask[c].token] \in AuthRow /\ ask[c].token \in Ids
          BY RowsExist DEF Inv, AccountsTypeOK, AskedOK
        <5>2. ask[c].token # None => a = auth[ask[c].token].account
          BY <3>2 DEF Resolved
        <5> QED
          BY <5>1, <5>2, RowsExist DEF AuthRow, Inv, AccountsExist, RequestsAssumption
      <4>3. ask[c].token = None => a = None /\ First(c) # "for account"
        BY <3>2 DEF Resolved, First
      <4> QED
        BY <4>1, <4>2, <4>3
    <3> QED
      BY <2>4, <3>1, <3>2 DEF Authenticate, End, Inv, AccountsTypeOK
  <2>5. CASE d = c /\ UNCHANGED who /\ ~CommitRegister(c) /\ ~Login(c) /\ ~Authenticate(c)
    <3>1. pc'[c] = "for account" => who[c] # None
      <4>1. pc'[c] = "for account" => pc[c] = "token" \/ (pc[c] = "open" /\ who[c] # None)
        BY <2>5, Moves DEF Inv
      <4>2. pc[c] = "token" => pc'[c] = "done"
        BY <2>5
        DEF Acts, Step, Send, Limited, AbortVictim, Fail, ReadGuest, LockGuest, ProtectSession,
            AttachCredentials, CommitUpgrade, Reopen, CreateAccount, SetEmail, CreateForAccount,
            Open, Rename, CreateGuest, Rotate, Delete, DropSession, Revoke, ReadSession, Play,
            Settle, Runs, End, Inv, AccountsTypeOK
      <4> QED
        BY <4>1, <4>2
    <3> QED
      BY <2>5, <3>1, NothingIsForgotten DEF Inv, AccountsExist, AccountsTypeOK
  <2>6. UNCHANGED who \/ CommitRegister(c) \/ Login(c) \/ Authenticate(c)
    BY DEF Acts, Step, Send, Limited, AbortVictim, Fail, ReadGuest, LockGuest, ProtectSession,
           AttachCredentials, CommitUpgrade, Reopen, CreateAccount, SetEmail, CreateForAccount,
           Open, Rename, CreateGuest, Rotate, Delete, DropSession, Revoke, ReadSession, Play,
           Settle
  <2> QED
    BY <2>1, <2>2, <2>3, <2>4, <2>5, <2>6
<1> QED
  BY <1>1, <1>2 DEF AccountsExist

(* A request holds a session from a statement that found nobody else to hold it. *)
LEMMA SessionLockStep ==
  ASSUME Inv, NEW c \in Calls, Acts(c)
  PROVE  SessionExclusive'
<1>1. ASSUME NEW s \in Ids, NEW d \in Calls, d \in SessionHolders(s)'
      PROVE  d \in SessionHolders(s) \/ (d = c /\ SessionHolders(s) = {})
  <2>1. CASE d # c
    BY <2>1, <1>1, OthersStay DEF SessionHolders, Inv
  <2>2. CASE d = c
    <3>1. pc'[c] \in {"attach", "upgraded", "rename", "settle"} /\ ask'[c].session = s /\ s # None
      BY <2>2, <1>1 DEF SessionHolders
    <3>2. \/ pc[c] \in {"attach", "upgraded", "rename", "settle"}
          \/ \E at \in OnSession : Runs(c, at)
      BY <3>1, Moves DEF Inv, OnSession, Runs, ProtectSession, Open, Play
    <3>3. ask' = ask
      BY <3>2, NotDone
      DEF Runs, OnSession, Acts, Step, Send, Limited, AbortVictim, Fail, Authenticate, ReadGuest,
          LockGuest, ProtectSession, AttachCredentials, CommitUpgrade, Reopen, CreateAccount,
          SetEmail, CommitRegister, Login, CreateForAccount, Open, Rename, CreateGuest, Rotate,
          Delete, DropSession, Revoke, ReadSession, Play, Settle
    <3> QED
      BY <2>2, <3>1, <3>2, <3>3, Waits DEF SessionHolders
  <2> QED
    BY <2>1, <2>2
<1> QED
  BY <1>1 DEF SessionExclusive, Inv, SessionHolders

(* What a request presents stays while it runs. *)
LEMMA AskStays ==
  ASSUME NEW c \in Calls, Acts(c), pc[c] # "idle"
  PROVE  ask' = ask
BY DEF Acts, Step, Send, Limited, AbortVictim, Fail, Authenticate, ReadGuest, LockGuest,
       ProtectSession, AttachCredentials, CommitUpgrade, Reopen, CreateAccount, SetEmail,
       CommitRegister, Login, CreateForAccount, Open, Rename, CreateGuest, Rotate, Delete,
       DropSession, Revoke, ReadSession, Play, Settle, Runs

(* It holds an address likewise. *)
LEMMA EmailLockStep ==
  ASSUME Inv, NEW c \in Calls, Acts(c)
  PROVE  EmailExclusive'
<1>1. ASSUME NEW e \in Emails, NEW d \in Calls, d \in EmailHolders(e)'
      PROVE  d \in EmailHolders(e) \/ (d = c /\ EmailHolders(e) \subseteq {c})
  <2>1. CASE d # c
    BY <2>1, <1>1, OthersStay DEF EmailHolders, Inv
  <2>2. CASE d = c
    <3>1. pc'[c] \in {"upgraded", "registered"} /\ ask'[c].email = e /\ c \in Registers
      BY <2>2, <1>1 DEF EmailHolders
    <3>2. Runs(c, "attach") \/ Runs(c, "email")
      BY <3>1, Moves DEF Inv, AttachCredentials, SetEmail
    <3>3. ask' = ask
      BY <3>2, AskStays DEF Runs
    <3> QED
      BY <2>2, <3>1, <3>2, <3>3, Waits
  <2> QED
    BY <2>1, <2>2
<1> QED
  BY <1>1 DEF EmailExclusive, Inv, EmailHolders, Calls

(* The COMMITs that give an account its address do it while they hold the address. *)
LEMMA TakenBy ==
  ASSUME Inv, NEW c \in Calls, Acts(c), NEW a \in Ids, account'[a] # Gone, account'[a].email # None
  PROVE  \/ account[a] # Gone /\ account[a].email = account'[a].email
         \/ /\ pc[c] \in {"upgraded", "registered"} /\ pc'[c] \notin {"upgraded", "registered"}
            /\ account'[a].email = ask[c].email
            /\ \A b \in Ids : b # a => account'[b] = account[b]
<1>1. CASE account'[a] = account[a]
  BY <1>1
<1>2. CASE UpgradesAccount(c, a)
  <2>1. account[a] \in AccountRow /\ pc[c] = "upgraded" /\ pc'[c] = "reopen"
    BY <1>2, UpgradedExists, Rows DEF UpgradesAccount, CommitUpgrade, Runs, Goto, Inv, AccountsTypeOK
  <2>2. account'[a].email = ask[c].email
    BY <1>2, <2>1, Rows DEF UpgradesAccount, Inv
  <2>3. \A b \in Ids : b # a => account'[b] = account[b]
    BY <1>2 DEF UpgradesAccount, CommitUpgrade, CommittedUpgrade, Inv, AccountsTypeOK
  <2> QED
    BY <2>1, <2>2, <2>3
<1>3. CASE CreatesAccount(c, a)
  BY <1>3 DEF CreatesAccount, CommitRegister, Runs, Goto, Inv, AccountsTypeOK
<1>4. CASE NewGuest(c, a)
  BY <1>4 DEF NewGuest
<1> QED
  BY <1>1, <1>2, <1>3, <1>4, AccountRows

(* A free address stays free while it is held: only its holder gives it to an account. *)
LEMMA EmailFreeStep ==
  ASSUME Inv, NEW c \in Calls, Acts(c)
  PROVE  EmailIsFree'
<1> SUFFICES ASSUME NEW d \in Calls, pc'[d] \in {"upgraded", "registered"},
                    NEW a \in Ids, account'[a] # Gone, account'[a].email = ask'[d].email
             PROVE  FALSE
  BY DEF EmailIsFree, Taken
<1>1. ~Taken(ask[d].email) /\ ask'[d] = ask[d] /\ d \in Registers /\ pc[d] # "idle"
  <2>1. CASE d # c
    BY <2>1, OthersStay DEF Inv, EmailIsFree, StatementsOfKinds
  <2>2. CASE d = c
    <3>1. AttachCredentials(c) \/ SetEmail(c)
      BY <2>2, Moves DEF Inv
    <3>2. pc[c] \in {"attach", "email"}
      BY <3>1 DEF AttachCredentials, SetEmail, Runs
    <3>3. ~Taken(ask[c].email)
      BY <2>2, <3>1 DEF AttachCredentials, SetEmail, End, Inv, AccountsTypeOK
    <3> QED
      BY <2>2, <3>2, <3>3, AskStays DEF Inv, StatementsOfKinds
  <2> QED
    BY <2>1, <2>2
<1>2. ask[d].email \in Emails /\ ask[d].email # None
  BY <1>1 DEF Inv, AskedOK, AccountsTypeOK
<1>3. pc[c] \in {"upgraded", "registered"} /\ pc'[c] \notin {"upgraded", "registered"}
      /\ ask[c].email = ask[d].email
  BY <1>1, <1>2, TakenBy DEF Taken
<1>4. c # d /\ pc[d] = pc'[d]
  BY <1>3, OthersStay DEF Inv
<1>5. c \in EmailHolders(ask[d].email) /\ d \in EmailHolders(ask[d].email)
  BY <1>1, <1>3, <1>4 DEF EmailHolders, Inv, StatementsOfKinds
<1> QED
  BY <1>2, <1>4, <1>5 DEF Inv, EmailExclusive

(* The COMMIT that gives an account an address finds it free. *)
LEMMA UniqueStep ==
  ASSUME Inv, NEW c \in Calls, Acts(c)
  PROVE  EmailsAreUnique'
<1> SUFFICES ASSUME NEW a \in Ids, NEW b \in Ids, a # b,
                    account'[a] # Gone, account'[a].email # None,
                    account'[b] # Gone, account'[b].email = account'[a].email
             PROVE  FALSE
  BY DEF EmailsAreUnique, Registered
<1> DEFINE Kept(x) == account[x] # Gone /\ account[x].email = account'[x].email
           New(x) == /\ pc[c] \in {"upgraded", "registered"} /\ account'[x].email = ask[c].email
                     /\ \A y \in Ids : y # x => account'[y] = account[y]
<1>1. (Kept(a) \/ New(a)) /\ (Kept(b) \/ New(b))
  BY TakenBy
<1>2. CASE Kept(a) /\ Kept(b)
  BY <1>2 DEF Inv, EmailsAreUnique, Registered
<1>3. ASSUME NEW x \in Ids, NEW y \in Ids, x # y, New(x), account'[y] # Gone,
             account'[y].email = account'[x].email
      PROVE  FALSE
  <2>1. account[y] # Gone /\ account[y].email = ask[c].email
    BY <1>3
  <2> QED
    BY <1>3, <2>1 DEF Inv, EmailIsFree, Taken
<1> QED
  BY <1>1, <1>2, <1>3

(* Nobody else changes a session that a request holds. *)
LEMMA HeldStays ==
  ASSUME Inv, NEW c \in Calls, Acts(c), NEW d \in Calls, d # c,
         NEW s \in Ids, d \in SessionHolders(s), Exists(s)
  PROVE  session'[s] = session[s]
<1>1. ~EndsSession(c, s)
  BY DEF EndsSession
<1>2. ~Protects(c, s)
  <2>1. Protects(c, s) => c \in SessionHolders(s)
    BY DEF Protects, CommitUpgrade, Runs, SessionHolders, Exists
  <2> QED
    BY <2>1 DEF Inv, SessionExclusive
<1>3. s # c
  BY NotDone DEF Inv, RowsAreNew, Exists
<1> QED
  BY <1>1, <1>2, <1>3, SessionRows DEF CreatesSession, CreatesGuest, TakesOver

(* What a request found in the session it holds is still there: HeldStays. *)
LEMMA HeldStep ==
  ASSUME Inv, NEW c \in Calls, Acts(c)
  PROVE  HeldIsKnown'
<1> DEFINE Known(d) ==
      /\ pc[d] \in {"attach", "upgraded"} => ProtectedRow(ask[d].session, owner[d])
      /\ pc[d] = "settle" => /\ MayUse(ask[d].session, who[d])
                             /\ session[ask[d].session].account = owner[d]
<1> SUFFICES ASSUME NEW d \in Calls, pc'[d] \in {"attach", "upgraded", "settle"} PROVE Known(d)'
  BY DEF HeldIsKnown
<1>1. CASE d # c
  <2>1. pc'[d] = pc[d] /\ ask'[d] = ask[d] /\ who'[d] = who[d] /\ owner'[d] = owner[d]
    BY <1>1, OthersStay DEF Inv
  <2>2. Known(d) /\ Exists(ask[d].session) /\ ask[d].session \in Ids
    BY <2>1 DEF Inv, HeldIsKnown, ProtectedRow, MayUse, Exists, AccountsTypeOK
  <2>3. d \in SessionHolders(ask[d].session)
    BY <2>1, <2>2 DEF SessionHolders, Exists
  <2>4. session'[ask[d].session] = session[ask[d].session]
    BY <1>1, <2>2, <2>3, HeldStays
  <2> QED
    BY <2>1, <2>2, <2>4 DEF ProtectedRow, MayUse, Exists
<1>2. CASE d = c /\ pc'[c] \in {"attach", "upgraded"}
  <2>1. ProtectSession(c) \/ AttachCredentials(c)
    BY <1>2, Moves DEF Inv
  <2>2. ask' = ask /\ owner' = owner /\ session' = session
    BY <2>1 DEF ProtectSession, AttachCredentials, tables
  <2>3. ProtectedRow(ask[c].session, owner[c])
    <3>1. CASE ProtectSession(c)
      BY <1>2, <3>1 DEF ProtectSession, End, Inv, AccountsTypeOK
    <3>2. CASE AttachCredentials(c)
      BY <3>2 DEF AttachCredentials, Runs, Inv, HeldIsKnown
    <3> QED
      BY <2>1, <3>1, <3>2
  <2> QED
    BY <1>2, <2>2, <2>3 DEF ProtectedRow, Exists
<1>3. CASE d = c /\ pc'[c] = "settle"
  <2>1. Play(c)
    BY <1>3, Moves DEF Inv
  <2>2. /\ Usable(ask[c].session, who[c]) /\ session[ask[c].session].account = owner[c]
        /\ session' = session /\ ask' = ask /\ owner' = owner /\ who' = who
    BY <1>3, <2>1 DEF Play, End, Inv, AccountsTypeOK
  <2> QED
    BY <1>3, <2>2 DEF Usable, MayUse, Exists
<1> QED
  BY <1>1, <1>2, <1>3

(* Where a session that works without a token comes from. *)
OpenSession(s) == Exists(s) /\ ~session[s].protected

(* It was there, or is that of a new guest, or continues one by a rotation. *)
LEMMA OpenFrom ==
  ASSUME Inv, NEW c \in Calls, Acts(c), NEW s \in Ids, OpenSession(s)'
  PROVE  \/ OpenSession(s) /\ session'[s] = session[s]
         \/ CreatesGuest(c, s) /\ session'[s].account = c /\ account[c] = Gone
         \/ /\ TakesOver(c, s) /\ ask[c].session \in Ids /\ OpenSession(ask[c].session)
            /\ session'[s] = session[ask[c].session]
<1>1. session'[s] # Gone /\ s # None /\ ~session'[s].protected
  BY DEF OpenSession, Exists
<1>2. CASE session'[s] = session[s]
  BY <1>1, <1>2 DEF OpenSession, Exists
<1>3. ~EndsSession(c, s)
  BY <1>1 DEF EndsSession
<1>4. ~Protects(c, s)
  <2>1. Protects(c, s) => session'[s].protected
    BY Rows DEF Inv, Protects
  <2> QED
    BY <1>1, <2>1
<1>5. ~CreatesSession(c, s)
  <2>1. AccountSession(who[c], c).protected
    BY DEF AccountSession
  <2>2. CreatesSession(c, s) => session'[s] = AccountSession(who[c], c)
    BY DEF CreatesSession
  <2> QED
    BY <1>1, <2>1, <2>2
<1>6. CreatesGuest(c, s) => session'[s].account = c /\ account[c] = Gone
  <2>1. AccountSessionOpen(c, c).account = c
    BY DEF AccountSessionOpen
  <2>2. CreatesGuest(c, s) => pc[c] = "fresh" /\ session'[s] = AccountSessionOpen(c, c)
    BY DEF CreatesGuest
  <2>3. pc[c] = "fresh" => account[c] = Gone
    BY DEF Inv, RowsAreNew
  <2> QED
    BY <2>1, <2>2, <2>3
<1>7. TakesOver(c, s) => /\ ask[c].session \in Ids /\ OpenSession(ask[c].session)
                         /\ session'[s] = session[ask[c].session]
  BY <1>1 DEF TakesOver, OpenSession, Exists, Inv, AccountsTypeOK
<1> QED
  BY <1>2, <1>3, <1>4, <1>5, <1>6, <1>7, SessionRows

(* A guest has one session, and a rotation ends the one it continues. *)
LEMMA OpenSessionStep ==
  ASSUME Inv, NEW c \in Calls, Acts(c)
  PROVE  OneOpenSession'
<1> SUFFICES ASSUME NEW s \in Ids, NEW t \in Ids, s # t, OpenSession(s)', OpenSession(t)',
                    session'[s].account = session'[t].account
             PROVE  FALSE
  BY DEF OneOpenSession, OpenSession
<1>1. \A x, y \in Ids :
        OpenSession(x) /\ OpenSession(y) /\ session[x].account = session[y].account => x = y
  BY DEF Inv, OneOpenSession, OpenSession
<1>2. \A x \in Ids : OpenSession(x) => account[session[x].account] # Gone
  BY DEF OpenSession, Exists, Inv, AccountsTypeOK
<1> DEFINE Same(x) == OpenSession(x) /\ session'[x] = session[x]
           Guest(x) == CreatesGuest(c, x) /\ session'[x].account = c /\ account[c] = Gone
           Over(x) == /\ TakesOver(c, x) /\ ask[c].session \in Ids /\ OpenSession(ask[c].session)
                      /\ session'[x] = session[ask[c].session]
<1>3. (Same(s) \/ Guest(s) \/ Over(s)) /\ (Same(t) \/ Guest(t) \/ Over(t))
  BY OpenFrom
<1>4. ASSUME NEW x \in Ids, NEW y \in Ids, x # y, Same(x), session'[x].account = session'[y].account
      PROVE  ~Same(y) /\ ~Guest(y) /\ ~Over(y)
  <2>1. ~Same(y)
    BY <1>1, <1>4
  <2>2. ~Guest(y)
    BY <1>2, <1>4
  <2>3. ~Over(y)
    <3>1. Over(y) => x # ask[c].session
      BY <1>4 DEF TakesOver, OpenSession, Exists
    <3> QED
      BY <1>1, <1>4, <3>1
  <2> QED
    BY <2>1, <2>2, <2>3
<1>5. Guest(s) \/ Over(s) => ~Guest(t) /\ ~Over(t)
  BY DEF CreatesGuest, TakesOver
<1> QED
  BY <1>3, <1>4, <1>5

(* The COMMIT that registers an account protects the one session that could be used. *)
LEMMA ProtectedStep ==
  ASSUME Inv, NEW c \in Calls, Acts(c)
  PROVE  RegisteredIsProtected'
<1> SUFFICES ASSUME NEW s \in Ids, OpenSession(s)', Registered(session[s].account)'
             PROVE  FALSE
  BY DEF RegisteredIsProtected, OpenSession
<1>1. \A x \in Ids : OpenSession(x) => ~Registered(session[x].account)
  BY DEF OpenSession, Inv, RegisteredIsProtected
<1>2. CASE OpenSession(s) /\ session'[s] = session[s]
  <2> DEFINE a == session[s].account
  <2>1. a \in Ids /\ account[a] # Gone /\ ~Registered(a)
    BY <1>1, <1>2, Rows DEF OpenSession, Exists, Inv, AccountsTypeOK, SessionRow
  <2>2. account'[a] # Gone /\ account'[a].email # None
    BY <1>2 DEF Registered
  <2>3. CommitUpgrade(c) /\ a = owner[c]
    <3>1. account'[a] # account[a]
      BY <2>1, <2>2 DEF Registered
    <3>2. ~CreatesAccount(c, a)
      BY <2>1 DEF CreatesAccount, CommitRegister, Runs, Inv, RowsAreNew
    <3>3. ~NewGuest(c, a)
      BY <2>2 DEF NewGuest
    <3>4. UpgradesAccount(c, a)
      BY <2>1, <3>1, <3>2, <3>3, AccountRows
    <3> QED
      BY <3>4 DEF UpgradesAccount
  <2>4. s = ask[c].session
    BY <1>2, <2>3, UpgradedExists DEF Inv, OneOpenSession, OpenSession
  <2>5. session' = [session EXCEPT ![s].protected = TRUE]
    BY <1>2, <2>3, <2>4 DEF CommitUpgrade, OpenSession
  <2>6. session'[s] = [session[s] EXCEPT !.protected = TRUE]
    BY <2>5 DEF Inv, AccountsTypeOK
  <2>7. session'[s].protected
    BY <1>2, <2>6, Rows DEF OpenSession, Inv
  <2> QED
    BY <2>7 DEF OpenSession
<1>3. CASE CreatesGuest(c, s) /\ session'[s].account = c
  <2>1. account'[c].email = None
    BY <1>3 DEF CreatesGuest, Inv, AccountsTypeOK, Ids
  <2> QED
    BY <1>3, <2>1 DEF Registered
<1>4. CASE /\ TakesOver(c, s) /\ ask[c].session \in Ids /\ OpenSession(ask[c].session)
           /\ session'[s] = session[ask[c].session]
  BY <1>1, <1>4 DEF TakesOver, Registered
<1> QED
  BY <1>2, <1>3, <1>4, OpenFrom

-----------------------------------------------------------------------------
(* The types through a step of a request *)

Answers == {"none", "ok", "limited", "unauthorized", "disabled", "conflict", "failed"}

(* A step ends its request or sends it to its next statement. *)
LEMMA Ends ==
  ASSUME NEW c \in Calls, Acts(c)
  PROVE  (\E to \in Statements : Goto(c, to)) \/ (\E a \in Answers : End(c, a))
<1> USE DEF Statements, Answers
<1>1. CASE Send(c) \/ Limited(c) \/ AbortVictim(c) \/ Fail(c)
  BY <1>1 DEF Send, Limited, AbortVictim, Fail
<1>2. CASE Authenticate(c)
  <2>1. First(c) \in Statements
    BY DEF First
  <2> QED
    BY <1>2, <2>1 DEF Authenticate
<1>3. CASE \/ ReadGuest(c) \/ LockGuest(c) \/ ProtectSession(c) \/ AttachCredentials(c)
           \/ CommitUpgrade(c)
  BY <1>3 DEF ReadGuest, LockGuest, ProtectSession, AttachCredentials, CommitUpgrade
<1>4. CASE \/ Reopen(c) \/ CreateAccount(c) \/ SetEmail(c) \/ CommitRegister(c) \/ Login(c)
           \/ CreateForAccount(c)
  BY <1>4 DEF Reopen, CreateAccount, SetEmail, CommitRegister, Login, CreateForAccount
<1>5. CASE Open(c)
  BY <1>5 DEF Open
<1>6. CASE Rename(c) \/ CreateGuest(c) \/ Rotate(c) \/ Delete(c) \/ DropSession(c)
  BY <1>6 DEF Rename, CreateGuest, Rotate, Delete, DropSession
<1>7. CASE Revoke(c) \/ ReadSession(c) \/ Play(c) \/ Settle(c)
  BY <1>7 DEF Revoke, ReadSession, Play, Settle
<1> QED
  BY <1>1, <1>2, <1>3, <1>4, <1>5, <1>6, <1>7 DEF Acts, Step

(* A session that may be used is a row. *)
LEMMA UsedRow ==
  ASSUME Inv, NEW c \in Calls, NEW a, MayUse(ask[c].session, a)
  PROVE  /\ ask[c].session \in Ids /\ session[ask[c].session] \in SessionRow
         /\ session[ask[c].session].account \in Ids /\ session[ask[c].session].row \in Ids
BY Rows DEF MayUse, Exists, Inv, AccountsTypeOK, SessionRow

(* An UPDATE or an INSERT leaves a table a table. *)
OverIds(table) == table = [i \in Ids |-> table[i]]

(* One row is set. *)
LEMMA Updates ==
  ASSUME NEW table, OverIds(table), NEW i, NEW row
  PROVE  OverIds([table EXCEPT ![i] = row])
BY DEF OverIds

(* The three tables have a row, or its absence, for every id. *)
LEMMA Tables ==
  ASSUME AccountsTypeOK
  PROVE  OverIds(account) /\ OverIds(session) /\ OverIds(auth)
BY DEF AccountsTypeOK, OverIds

(* Each variable keeps its type. *)
LEMMA TypeStep ==
  ASSUME Inv, NEW c \in Calls, Acts(c)
  PROVE  AccountsTypeOK'
<1>0. c \in Ids
  BY DEF Ids
<1>1. pc' \in [Calls -> Statements] /\ answer' \in [Calls -> Answers]
  <2>1. ASSUME NEW to \in Statements, Goto(c, to)
        PROVE  pc' \in [Calls -> Statements] /\ answer' \in [Calls -> Answers]
    BY <2>1 DEF Goto, Inv, AccountsTypeOK, Answers
  <2>2. ASSUME NEW a \in Answers, End(c, a)
        PROVE  pc' \in [Calls -> Statements] /\ answer' \in [Calls -> Answers]
    <3>1. pc' = [pc EXCEPT ![c] = "done"] /\ "done" \in Statements
      BY <2>2 DEF End, Statements
    <3>2. pc' \in [Calls -> Statements]
      BY <3>1 DEF Inv, AccountsTypeOK
    <3> QED
      BY <2>2, <3>2 DEF End, Inv, AccountsTypeOK, Answers
  <2> QED
    BY <2>1, <2>2, Ends
<1>2. ask' \in [Calls -> [email : Emails \cup {None}, session : Ids \cup {None},
                         token : Ids \cup {None}]]
  <2>1. CASE Send(c)
    <3>1. PICK e \in (IF c \in Registers \cup Logins THEN Emails ELSE {None}),
               x \in Ids \cup {None}, t \in Tokens \cup {None} :
                 ask' = [ask EXCEPT ![c] = [email |-> e, session |-> x, token |-> t]]
      BY <2>1 DEF Send, Presented
    <3>2. [email |-> e, session |-> x, token |-> t]
            \in [email : Emails \cup {None}, session : Ids \cup {None}, token : Ids \cup {None}]
      BY <3>1 DEF Tokens
    <3> QED
      BY <3>1, <3>2 DEF Inv, AccountsTypeOK
  <2>2. CASE ask' = ask
    BY <2>2 DEF Inv, AccountsTypeOK
  <2> QED
    BY <2>1, <2>2
    DEF Acts, Step, Limited, AbortVictim, Fail, Authenticate, ReadGuest, LockGuest, ProtectSession,
        AttachCredentials, CommitUpgrade, Reopen, CreateAccount, SetEmail, CommitRegister, Login,
        CreateForAccount, Open, Rename, CreateGuest, Rotate, Delete, DropSession, Revoke,
        ReadSession, Play, Settle
<1>3. who' \in [Calls -> Ids \cup {None}]
  <2>1. who' = who \/ \E a \in Ids \cup {None} : who' = [who EXCEPT ![c] = a]
    BY <1>0
    DEF Acts, Step, Send, Limited, AbortVictim, Fail, Authenticate, ReadGuest, LockGuest,
        ProtectSession, AttachCredentials, CommitUpgrade, Reopen, CreateAccount, SetEmail,
        CommitRegister, Login, CreateForAccount, Open, Rename, CreateGuest, Rotate, Delete,
        DropSession, Revoke, ReadSession, Play, Settle
  <2> QED
    BY <2>1 DEF Inv, AccountsTypeOK
<1>4. owner' \in [Calls -> Ids \cup {None}]
  <2>1. CASE ReadGuest(c) \/ Open(c) \/ ReadSession(c)
    <3>1. \/ owner' = owner
          \/ /\ MayUse(ask[c].session, None) \/ MayUse(ask[c].session, who[c])
             /\ owner' = [owner EXCEPT ![c] = session[ask[c].session].account]
      BY <2>1 DEF ReadGuest, Open, ReadSession, Usable
    <3> QED
      BY <3>1, UsedRow DEF Inv, AccountsTypeOK
  <2>2. CASE owner' = owner
    BY <2>2 DEF Inv, AccountsTypeOK
  <2> QED
    BY <2>1, <2>2
    DEF Acts, Step, Send, Limited, AbortVictim, Fail, Authenticate, LockGuest, ProtectSession,
        AttachCredentials, CommitUpgrade, Reopen, CreateAccount, SetEmail, CommitRegister, Login,
        CreateForAccount, Rename, CreateGuest, Rotate, Delete, DropSession, Revoke, Play, Settle
<1>5. account' \in [Ids -> AccountRow \cup {Gone}]
  <2>1. OverIds(account')
    <3>1. \/ account' = account
          \/ \E a, row : account' = [account EXCEPT ![a] = row]
      BY DEF Acts, Step, Send, Limited, AbortVictim, Fail, Authenticate, ReadGuest, LockGuest,
             ProtectSession, AttachCredentials, CommitUpgrade, Reopen, CreateAccount, SetEmail,
             CommitRegister, Login, CreateForAccount, Open, Rename, CreateGuest, Rotate, Delete,
             DropSession, Revoke, ReadSession, Play, Settle, tables, CommittedUpgrade
    <3> QED
      BY <3>1, Tables, Updates DEF Inv
  <2>2. ASSUME NEW a \in Ids PROVE account'[a] \in AccountRow \cup {Gone}
    <3>0. ask[c].email \in Emails \cup {None}
      BY DEF Inv, AccountsTypeOK
    <3>1. CASE account'[a] = account[a]
      BY <3>1 DEF Inv, AccountsTypeOK
    <3>2. CASE UpgradesAccount(c, a)
      <4>1. account[a] \in AccountRow
        BY <3>2, UpgradedExists DEF UpgradesAccount, Inv, AccountsTypeOK
      <4> QED
        BY <3>0, <3>2, <4>1 DEF UpgradesAccount, AccountRow
    <3>3. CASE CreatesAccount(c, a) \/ NewGuest(c, a)
      <4>1. \A e \in Emails \cup {None} : [email |-> e, active |-> TRUE] \in AccountRow
        BY DEF AccountRow
      <4> QED
        BY <3>0, <3>3, <4>1 DEF CreatesAccount, NewGuest
    <3> QED
      BY <3>1, <3>2, <3>3, AccountRows
  <2> QED
    BY <2>1, <2>2 DEF OverIds
<1>6. session' \in [Ids -> SessionRow \cup {Gone}]
  <2>1. OverIds(session')
    <3>1. \/ session' = session
          \/ \E x, row : session' = [session EXCEPT ![x] = row]
          \/ Rotate(c)
      BY DEF Acts, Step, Send, Limited, AbortVictim, Fail, Authenticate, ReadGuest, LockGuest,
             ProtectSession, AttachCredentials, CommitUpgrade, Reopen, CreateAccount, SetEmail,
             CommitRegister, Login, CreateForAccount, Open, Rename, CreateGuest, Delete,
             DropSession, Revoke, ReadSession, Play, Settle, tables, Swept
    <3>2. CASE Rotate(c)
      <4>1. \/ session' = session
            \/ \E x, row : session' = [session EXCEPT ![x] = row]
            \/ session' = [[session EXCEPT ![c] = session[ask[c].session]]
                              EXCEPT ![ask[c].session] = Gone]
        BY <3>2 DEF Rotate, Swept
      <4>2. OverIds([session EXCEPT ![c] = session[ask[c].session]])
        BY Tables, Updates DEF Inv
      <4> QED
        BY <4>1, <4>2, Tables, Updates DEF Inv
    <3> QED
      BY <3>1, <3>2, Tables, Updates DEF Inv
  <2>2. ASSUME NEW s \in Ids PROVE session'[s] \in SessionRow \cup {Gone}
    <3>1. CASE session'[s] = session[s] \/ EndsSession(c, s)
      BY <3>1 DEF EndsSession, Inv, AccountsTypeOK
    <3>2. CASE Protects(c, s)
      BY <3>2, Rows DEF Protects, Inv, SessionRow
    <3>3. CASE CreatesSession(c, s)
      <4>1. who[c] \in Ids
        BY <3>3 DEF CreatesSession, Inv, AccountsExist, AccountsTypeOK
      <4>2. AccountSession(who[c], c) \in SessionRow
        BY <1>0, <4>1 DEF AccountSession, SessionRow
      <4> QED
        BY <3>3, <4>2 DEF CreatesSession
    <3>4. CASE CreatesGuest(c, s)
      <4>1. AccountSessionOpen(c, c) \in SessionRow
        BY <1>0 DEF AccountSessionOpen, SessionRow
      <4> QED
        BY <3>4, <4>1 DEF CreatesGuest
    <3>5. CASE TakesOver(c, s)
      BY <3>5 DEF TakesOver, Exists, Inv, AccountsTypeOK
    <3> QED
      BY <3>1, <3>2, <3>3, <3>4, <3>5, SessionRows
  <2> QED
    BY <2>1, <2>2 DEF OverIds
<1>7. auth' \in [Ids -> AuthRow \cup {Gone}]
  <2>1. OverIds(auth')
    <3>1. \/ auth' = auth
          \/ \E t, row : auth' = [auth EXCEPT ![t] = row]
      BY DEF Acts, Step, Send, Limited, AbortVictim, Fail, Authenticate, ReadGuest, LockGuest,
             ProtectSession, AttachCredentials, CommitUpgrade, Reopen, CreateAccount, SetEmail,
             CommitRegister, Login, CreateForAccount, Open, Rename, CreateGuest, Rotate, Delete,
             DropSession, Revoke, ReadSession, Play, Settle, tables
    <3> QED
      BY <3>1, Tables, Updates DEF Inv
  <2>2. ASSUME NEW t \in Ids PROVE auth'[t] \in AuthRow \cup {Gone}
    <3>1. CASE CommitUpgrade(c) /\ auth'[t] = [account |-> owner[c], live |-> TRUE]
      BY <3>1, UpgradedExists DEF AuthRow
    <3>2. CASE auth'[t] = [account |-> c, live |-> TRUE]
      BY <1>0, <3>2 DEF AuthRow
    <3>3. CASE auth'[t] = [account |-> who'[c], live |-> TRUE] /\ who'[c] # None
      BY <1>3, <3>3 DEF AuthRow
    <3> QED
      BY <3>1, <3>2, <3>3, AuthRows DEF Inv, AccountsTypeOK
  <2> QED
    BY <2>1, <2>2 DEF OverIds
<1>8. ASSUME NEW s \in Ids, session'[s] # Gone PROVE account'[session'[s].account] # Gone
  <2>1. \A x \in Ids : Exists(x) => /\ session[x].account \in Ids
                                    /\ account'[session[x].account] # Gone
    BY Rows, NothingIsForgotten DEF Inv, AccountsTypeOK, Exists, SessionRow
  <2>2. CASE session'[s] = session[s]
    BY <1>8, <2>1, <2>2 DEF Exists, Inv, RequestsAssumption
  <2>3. CASE Protects(c, s)
    <3>1. session'[s].account = session[s].account
      BY <2>3, Rows DEF Protects, Inv
    <3> QED
      BY <2>1, <2>3, <3>1 DEF Protects
  <2>4. CASE CreatesSession(c, s)
    <3>1. who[c] \in Ids /\ account[who[c]] # Gone /\ session'[s].account = who[c]
      <4>1. who[c] \in Ids /\ account[who[c]] # Gone /\ session'[s] = AccountSession(who[c], c)
        BY <2>4 DEF CreatesSession, Inv, AccountsExist, AccountsTypeOK
      <4> QED
        BY <4>1 DEF AccountSession
    <3> QED
      BY <3>1, NothingIsForgotten
  <2>5. CASE CreatesGuest(c, s)
    <3>1. session'[s].account = c /\ account'[c] = [email |-> None, active |-> TRUE]
      BY <1>0, <2>5 DEF CreatesGuest, AccountSessionOpen, Inv, AccountsTypeOK
    <3> QED
      BY <3>1 DEF Gone
  <2>6. CASE TakesOver(c, s)
    BY <2>1, <2>6 DEF TakesOver, Exists, Inv, AccountsTypeOK
  <2>7. ~EndsSession(c, s)
    BY <1>8 DEF EndsSession
  <2> QED
    BY <2>2, <2>3, <2>4, <2>5, <2>6, <2>7, SessionRows
<1>9. rounds' \subseteq [call : Spins, account : Ids]
  <2>1. CASE Settle(c)
    <3>1. c \in Spins /\ owner[c] \in Ids
      BY <2>1, UsedRow DEF Settle, Runs, Inv, StatementsOfKinds, HeldIsKnown
    <3> QED
      BY <2>1, <3>1 DEF Settle, Inv, AccountsTypeOK
  <2>2. CASE rounds' = rounds
    BY <2>2 DEF Inv, AccountsTypeOK
  <2> QED
    BY <2>1, <2>2
    DEF Acts, Step, Send, Limited, AbortVictim, Fail, Authenticate, ReadGuest, LockGuest,
        ProtectSession, AttachCredentials, CommitUpgrade, Reopen, CreateAccount, SetEmail,
        CommitRegister, Login, CreateForAccount, Open, Rename, CreateGuest, Rotate, Delete,
        DropSession, Revoke, ReadSession, Play, tables
<1>10. game' \in [Logouts -> Ids \cup {None}]
  <2>1. CASE Authenticate(c)
    <3>1. \/ game' = game
          \/ \E a : /\ MayUse(ask[c].session, a)
                    /\ game' = [game EXCEPT ![c] = session[ask[c].session].row]
      BY <2>1 DEF Authenticate
    <3> QED
      BY <3>1, UsedRow DEF Inv, AccountsTypeOK
  <2>2. CASE game' = game
    BY <2>2 DEF Inv, AccountsTypeOK
  <2> QED
    BY <2>1, <2>2
    DEF Acts, Step, Send, Limited, AbortVictim, Fail, ReadGuest, LockGuest, ProtectSession,
        AttachCredentials, CommitUpgrade, Reopen, CreateAccount, SetEmail, CommitRegister, Login,
        CreateForAccount, Open, Rename, CreateGuest, Rotate, Delete, DropSession, Revoke,
        ReadSession, Play, Settle
<1> QED
  BY <1>1, <1>2, <1>3, <1>4, <1>5, <1>6, <1>7, <1>8, <1>9, <1>10 DEF AccountsTypeOK, Answers

-----------------------------------------------------------------------------
(* Time and the administration *)

(* An expiry changes one column of one session, and of none that a request holds. *)
LEMMA ExpireStep ==
  ASSUME Inv, NEW i \in Ids, Expire(i)
  PROVE  Inv'
<1>1. /\ Exists(i) /\ SessionHolders(i) = {} /\ session[i] \in SessionRow
      /\ session' = [session EXCEPT ![i].stale = TRUE]
      /\ UNCHANGED <<pc, ask, who, owner, answer, game, account, auth, rounds>>
  BY Rows DEF Expire, callVars, Inv
<1>2. /\ session'[i] \in SessionRow /\ session'[i].account = session[i].account
      /\ session'[i].protected = session[i].protected
      /\ \A s \in Ids : s # i => session'[s] = session[s]
  BY <1>1 DEF Inv, AccountsTypeOK, SessionRow
<1>3. \A s \in Ids : /\ session'[s] # Gone <=> session[s] # Gone
                     /\ session[s] # Gone => /\ session'[s].account = session[s].account
                                            /\ session'[s].protected = session[s].protected
  BY <1>1, <1>2, RowsExist DEF Exists
<1>4. AccountsTypeOK'
  <2>1. session' \in [Ids -> SessionRow \cup {Gone}]
    BY <1>1, <1>2 DEF Inv, AccountsTypeOK
  <2> QED
    BY <1>1, <1>3, <2>1 DEF Inv, AccountsTypeOK
<1>5. /\ RequestsAssumption /\ StatementsOfKinds' /\ AskedOK' /\ AccountsExist' /\ EmailIsFree'
      /\ EmailsAreUnique' /\ SessionExclusive' /\ EmailExclusive'
  <2>1. RequestsAssumption /\ StatementsOfKinds' /\ AskedOK' /\ AccountsExist'
    BY <1>1 DEF Inv, StatementsOfKinds, AskedOK, AccountsExist
  <2>2. EmailIsFree' /\ EmailsAreUnique'
    BY <1>1 DEF Inv, EmailIsFree, EmailsAreUnique, Taken, Registered
  <2>3. SessionExclusive' /\ EmailExclusive'
    BY <1>1 DEF Inv, SessionExclusive, EmailExclusive, SessionHolders, EmailHolders
  <2> QED
    BY <2>1, <2>2, <2>3
<1>6. RowsAreNew'
  BY <1>1, <1>3 DEF Inv, RowsAreNew, Ids
<1>7. HeldIsKnown'
  <2> SUFFICES ASSUME NEW c \in Calls, pc[c] \in {"attach", "upgraded", "settle"}
               PROVE  ask[c].session # None => session'[ask[c].session] = session[ask[c].session]
    BY <1>1 DEF Inv, HeldIsKnown, ProtectedRow, MayUse, Exists
  <2>1. ask[c].session # i
    BY <1>1 DEF SessionHolders, Exists
  <2> QED
    BY <1>2, <2>1 DEF Inv, AccountsTypeOK
<1>8. OneOpenSession'
  BY <1>1, <1>3 DEF Inv, OneOpenSession, Exists
<1>9. RegisteredIsProtected'
  BY <1>1, <1>3 DEF Inv, RegisteredIsProtected, Exists, Registered
<1> QED
  BY <1>4, <1>5, <1>6, <1>7, <1>8, <1>9 DEF Inv

(* Disabling an account changes one column of its row. *)
LEMMA DisableStep ==
  ASSUME Inv, NEW i \in Ids, Disable(i)
  PROVE  Inv'
<1>1. /\ account[i] \in AccountRow /\ account' = [account EXCEPT ![i].active = FALSE]
      /\ UNCHANGED <<pc, ask, who, owner, answer, game, session, auth, rounds>>
  BY Rows DEF Disable, callVars, Inv
<1>2. /\ account'[i] \in AccountRow /\ account'[i].email = account[i].email
      /\ \A a \in Ids : a # i => account'[a] = account[a]
  BY <1>1 DEF Inv, AccountsTypeOK, AccountRow
<1>3. \A a \in Ids : /\ account'[a] # Gone <=> account[a] # Gone
                     /\ account[a] # Gone => account'[a].email = account[a].email
  BY <1>1, <1>2, RowsExist
<1>4. /\ \A s \in Ids : session[s] # Gone => session[s].account \in Ids
      /\ \A t \in Ids : auth[t] # Gone => auth[t].account \in Ids
      /\ \A c \in Calls : who[c] # None => who[c] \in Ids
  BY DEF Inv, AccountsTypeOK, SessionRow, AuthRow
<1>5. AccountsTypeOK'
  <2>1. account' \in [Ids -> AccountRow \cup {Gone}]
    BY <1>1, <1>2 DEF Inv, AccountsTypeOK
  <2> QED
    BY <1>1, <1>3, <1>4, <2>1 DEF Inv, AccountsTypeOK
<1>6. /\ RequestsAssumption /\ StatementsOfKinds' /\ AskedOK' /\ HeldIsKnown' /\ OneOpenSession'
      /\ SessionExclusive' /\ EmailExclusive'
  <2>1. RequestsAssumption /\ StatementsOfKinds' /\ AskedOK'
    BY <1>1 DEF Inv, StatementsOfKinds, AskedOK
  <2>2. HeldIsKnown' /\ OneOpenSession'
    BY <1>1 DEF Inv, HeldIsKnown, ProtectedRow, MayUse, OneOpenSession, Exists
  <2>3. SessionExclusive' /\ EmailExclusive'
    BY <1>1 DEF Inv, SessionExclusive, EmailExclusive, SessionHolders, EmailHolders
  <2> QED
    BY <2>1, <2>2, <2>3
<1>7. AccountsExist'
  BY <1>1, <1>3, <1>4 DEF Inv, AccountsExist
<1>8. RowsAreNew'
  BY <1>1, <1>3 DEF Inv, RowsAreNew, Ids
<1>9. EmailIsFree'
  BY <1>1, <1>3 DEF Inv, EmailIsFree, Taken
<1>10. RegisteredIsProtected'
  <2>1. \A a \in Ids : Registered(a)' => Registered(a)
    BY <1>3 DEF Registered
  <2> QED
    BY <1>1, <1>4, <2>1 DEF Inv, RegisteredIsProtected, Exists
<1>11. EmailsAreUnique'
  BY <1>3 DEF Inv, EmailsAreUnique, Registered
<1> QED
  BY <1>5, <1>6, <1>7, <1>8, <1>9, <1>10, <1>11 DEF Inv

-----------------------------------------------------------------------------
(* The theorems *)

(* At first there are guests, each with one session, and idle requests. *)
LEMMA InitInv ==
  ASSUME RequestsAssumption, AccountsInit
  PROVE  Inv
<1> USE DEF AccountsInit
<1>1. \A i \in Ids : account[i] # Gone \/ session[i] # Gone => i \in Guests /\ i \notin Calls
  BY DEF RequestsAssumption
<1>2. \A i \in Guests : /\ account[i] = [email |-> None, active |-> TRUE]
                        /\ session[i] = AccountSessionOpen(i, i) /\ i \in Ids
  BY DEF Ids
<1>3. \A i \in Guests : session[i].account = i /\ account[i].email = None
  BY <1>2 DEF AccountSessionOpen
<1>4. AccountsTypeOK
  <2>1. account \in [Ids -> AccountRow \cup {Gone}]
    BY DEF AccountRow
  <2>2. session \in [Ids -> SessionRow \cup {Gone}]
    BY DEF SessionRow, AccountSessionOpen
  <2>3. \A s \in Ids : session[s] # Gone => account[session[s].account] # Gone
    BY <1>1, <1>2, <1>3 DEF Gone
  <2>4. pc \in [Calls -> Statements]
    BY DEF Statements
  <2> QED
    BY <2>1, <2>2, <2>3, <2>4 DEF AccountsTypeOK, Ids
<1>5. StatementsOfKinds /\ AskedOK /\ AccountsExist /\ HeldIsKnown /\ EmailIsFree
  BY DEF StatementsOfKinds, AskedOK, AccountsExist, HeldIsKnown, EmailIsFree
<1>6. SessionExclusive /\ EmailExclusive
  BY DEF SessionExclusive, EmailExclusive, SessionHolders, EmailHolders, Calls
<1>7. RowsAreNew
  BY <1>1 DEF RowsAreNew, Ids
<1>8. OneOpenSession
  <2>1. \A s \in Ids : Exists(s) => session[s].account = s
    <3>1. \A s \in Ids : session[s] # Gone => session[s].account = s
      BY <1>1, <1>3
    <3> QED
      BY <3>1 DEF Exists
  <2> QED
    BY <2>1 DEF OneOpenSession
<1>9. RegisteredIsProtected /\ EmailsAreUnique
  BY <1>1, <1>3 DEF RegisteredIsProtected, EmailsAreUnique, Registered, Exists
<1> QED
  BY <1>4, <1>5, <1>6, <1>7, <1>8, <1>9 DEF Inv

(* The invariant is inductive. *)
LEMMA InvStep ==
  ASSUME Inv, [AccountsNext]_accountsVars
  PROVE  Inv'
<1>1. CASE UNCHANGED accountsVars
  <2> USE <1>1 DEF accountsVars, callVars, tables
  <2>1. AccountsTypeOK' /\ StatementsOfKinds' /\ AskedOK' /\ AccountsExist' /\ RowsAreNew'
    BY DEF Inv, AccountsTypeOK, StatementsOfKinds, AskedOK, AccountsExist, RowsAreNew
  <2>2. SessionExclusive' /\ EmailExclusive'
    BY DEF Inv, SessionExclusive, EmailExclusive, SessionHolders, EmailHolders
  <2>3. /\ HeldIsKnown' /\ EmailIsFree' /\ OneOpenSession'
        /\ RegisteredIsProtected' /\ EmailsAreUnique'
    BY DEF Inv, HeldIsKnown, ProtectedRow, MayUse, Exists, EmailIsFree, Taken, OneOpenSession,
           RegisteredIsProtected, EmailsAreUnique, Registered
  <2> QED
    BY <2>1, <2>2, <2>3 DEF Inv
<1>2. ASSUME NEW c \in Calls, Acts(c) PROVE Inv'
  BY <1>2, TypeStep, KindsStep, AskedStep, ExistStep, RowsStep, SessionLockStep, EmailLockStep,
     HeldStep, EmailFreeStep, OpenSessionStep, ProtectedStep, UniqueStep
  DEF Inv
<1>3. ASSUME NEW i \in Ids, Expire(i) \/ Disable(i) PROVE Inv'
  BY <1>3, ExpireStep, DisableStep
<1> QED
  BY <1>1, <1>2, <1>3 DEF AccountsNext, Acts

(* The invariant holds throughout. *)
THEOREM Invariant == RequestsAssumption => (AccountsSpec => []Inv)
<1>1. RequestsAssumption /\ AccountsInit => Inv
  BY InitInv
<1>2. Inv /\ [AccountsNext]_accountsVars => Inv'
  BY InvStep
<1> QED
  BY <1>1, <1>2, PTL DEF AccountsSpec

(* Every row is one of its table, and every variable has its type. *)
THEOREM TypeCorrect == RequestsAssumption => (AccountsSpec => []AccountsTypeOK)
<1>1. Inv => AccountsTypeOK
  BY DEF Inv
<1> QED
  BY <1>1, Invariant, PTL

(* The upgrade of a guest: a registered account has no session that works without its *)
(* token, and its address for itself, however many registrations, rotations, expiries *)
(* and failures there are while it is under way.                                      *)
THEOREM UpgradesAlwaysHold == RequestsAssumption => (AccountsSpec => []UpgradesHold)
<1>1. Inv => UpgradesHold
  BY DEF Inv, UpgradesHold
<1> QED
  BY <1>1, Invariant, PTL

(* A session that ends is ended by a request that may use it, or has expired. *)
LEMMA EndedBy ==
  ASSUME Inv, NEW c \in Calls, Acts(c), NEW s \in Ids, Exists(s), Registered(session[s].account),
         session'[s] = Gone
  PROVE  session[s].stale \/ (pc'[c] # pc[c] /\ who[c] = session[s].account)
<1>1. session[s] # Gone /\ session[s].protected
  BY DEF Exists, Inv, RegisteredIsProtected
<1>2. ~Protects(c, s)
  BY Rows, RowsExist DEF Protects, Inv, SessionRow
<1>3. ~CreatesSession(c, s) /\ ~CreatesGuest(c, s) /\ ~TakesOver(c, s)
  BY <1>1, NotDone DEF CreatesSession, CreatesGuest, TakesOver, Inv, RowsAreNew
<1>4. EndsSession(c, s)
  BY <1>1, <1>2, <1>3, SessionRows
<1> QED
  BY <1>1, <1>4 DEF EndsSession, MayUse

(* A round is that of the account its request was resolved to, if that is registered. *)
LEMMA PlayedBy ==
  ASSUME Inv, NEW c \in Calls, Acts(c), NEW r \in rounds' \ rounds, Registered(r.account)
  PROVE  who[r.call] = r.account
<1>1. Settle(c)
  BY DEF Acts, Step, Send, Limited, AbortVictim, Fail, Authenticate, ReadGuest, LockGuest,
         ProtectSession, AttachCredentials, CommitUpgrade, Reopen, CreateAccount, SetEmail,
         CommitRegister, Login, CreateForAccount, Open, Rename, CreateGuest, Rotate, Delete,
         DropSession, Revoke, ReadSession, Play, tables
<1>2. r.call = c /\ r.account = owner[c]
  BY <1>1 DEF Settle
<1>3. MayUse(ask[c].session, who[c]) /\ session[ask[c].session].account = owner[c]
  BY <1>1 DEF Settle, Runs, Inv, HeldIsKnown
<1>4. session[ask[c].session].protected
  BY <1>2, <1>3, UsedRow DEF MayUse, Inv, RegisteredIsProtected
<1> QED
  BY <1>2, <1>3, <1>4 DEF MayUse

(* A request without the token of a registered account neither plays for it nor rotates *)
(* or ends its sessions, even when it found the session still a guest's.                *)
THEOREM AnonymousAlwaysOut == RequestsAssumption => (AccountsSpec => AnonymousStaysOut)
<1>1. ASSUME Inv, [AccountsNext]_accountsVars PROVE [AnonymousKeptOut]_accountsVars
  <2>1. CASE UNCHANGED accountsVars
    BY <2>1
  <2>2. ASSUME NEW c \in Calls, Acts(c) PROVE AnonymousKeptOut
    BY <1>1, <2>2, EndedBy, PlayedBy DEF AnonymousKeptOut
  <2>3. ASSUME NEW i \in Ids, Expire(i) \/ Disable(i) PROVE AnonymousKeptOut
    <3>1. rounds' = rounds
      BY <2>3 DEF Expire, Disable
    <3>2. \A s \in Ids : session[s] # Gone => session'[s] # Gone
      <4>1. CASE Disable(i)
        BY <4>1 DEF Disable
      <4>2. CASE Expire(i)
        <5>1. session[i] \in SessionRow /\ session' = [session EXCEPT ![i].stale = TRUE]
          BY <1>1, <4>2, Rows DEF Expire, Inv
        <5>2. session'[i] \in SessionRow
          BY <1>1, <5>1 DEF Inv, AccountsTypeOK, SessionRow
        <5> QED
          BY <1>1, <5>1, <5>2, RowsExist DEF Inv, AccountsTypeOK
      <4> QED
        BY <2>3, <4>1, <4>2
    <3> QED
      BY <3>1, <3>2 DEF AnonymousKeptOut, Exists
  <2> QED
    BY <1>1, <2>1, <2>2, <2>3 DEF AccountsNext, Acts
<1> QED
  BY <1>1, Invariant, PTL DEF AccountsSpec, AnonymousStaysOut
=============================================================================
