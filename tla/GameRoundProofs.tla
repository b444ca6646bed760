---------------------------- MODULE GameRoundProofs ----------------------------
(* Safety of GameRound for every set of accounts, sessions, requests, keys, *)
(* bets and payouts.                                                        *)
EXTENDS GameRound, AmountsProofs, TLAPS

(* Statements after a lookup of the round found none while its key was locked. *)
NoRoundPCs == {"lockWallet", "draw", "settle", "commit", "inDoubt"}

(* Statements before which the owner is known, and the bet validated. *)
OwnedPCs == PCs \ {"idle", "get", "purge", "done"}
ValidPCs == OwnedPCs \ {"hydrate"}

(* The locks the program counters stand for are exclusive. *)
LocksExclusive ==
  \A q, r \in Requests :
    q # r =>
      /\ pc[q] \in SessionPCs /\ pc[r] \in SessionPCs => req[q].session # req[r].session
      /\ pc[q] \in KeyPCs /\ pc[r] \in KeyPCs => ~SameRound(q, r)
      /\ pc[q] \in WalletPCs /\ pc[r] \in WalletPCs => owner[q] # owner[r]

(* What each statement relies on from the statements before it. *)
PhaseOK ==
  \A r \in Requests :
    /\ pc[r] \in OwnedPCs => owner[r] \in Accounts
    /\ pc[r] \in ValidPCs => req[r].bet \in AllowedBets
    /\ pc[r] \in NoRoundPCs => Existing(r) = {}
    /\ pc[r] \in WalletPCs => req[r].bet <= balance[owner[r]]
    /\ Drawn(r) => pc[r] \in {"settle", "commit", "inDoubt", "respond", "done"}
    /\ answer[r] = "none" <=> pc[r] \notin {"inDoubt", "done"}
    /\ pc[r] = "inDoubt" => answer[r] = "failed"
    /\ answer[r] = "none" => told[r] = {}

(* A round belongs to a request that is answering or has answered. *)
RoundsOK ==
  /\ \A x \in rounds :
       /\ x.account = owner[x.id] /\ x.key = req[x.id].key /\ x.bet = req[x.id].bet
       /\ pc[x.id] \in {"respond", "done"}
  /\ \A r \in Requests : pc[r] = "respond" => \E x \in rounds : x.id = r

(* A row of demo_sessions belongs to an account. *)
SessionsOK == \A s \in SessionIds : state[s] # "unused" => account[s] \in Accounts

IInv ==
  /\ TypeOK
  /\ SessionsOK
  /\ LocksExclusive
  /\ PhaseOK
  /\ RoundsOK
  /\ OneRoundPerKey
  /\ AnswersAreSettled
  /\ RefusalSettlesNothing
  /\ PlaysOnOwnSession

-----------------------------------------------------------------------------
(* The cases of a step *)

(* The transaction of the request is committed, by it or after it was given up. *)
Settled(r) ==
  /\ Publish(r, "commit", "respond") \/ Publish(r, "inDoubt", "done")
  /\ UNCHANGED <<req, owner, seen, draw, answer, told, account, auth>>

RolledBack(r) ==
  /\ Goto(r, "inDoubt", "done")
  /\ UNCHANGED <<req, owner, seen, draw, answer, told, sessionVars, moneyVars>>

(* A step is one of the statements of a request, a session statement or a      *)
(* stutter; a Commit settles, since its lookup found no round and still holds. *)
LEMMA NextCases ==
  ASSUME IInv, [Next]_vars
  PROVE  \/ \E r \in Requests :
              \/ \E a \in Ask : Send(r, a)
              \/ GetSession(r) \/ Hydrate(r) \/ Purge(r) \/ Lookup(r) \/ Connect(r)
              \/ LockSession(r) \/ PurgeHeld(r) \/ LockKey(r) \/ Replay(r) \/ LockWallet(r)
              \/ \E payout \in Payouts : Draw(r, payout)
              \/ RateLimited(r) \/ Settle(r) \/ Settled(r) \/ RolledBack(r) \/ LoseCommit(r)
              \/ Respond(r) \/ Fail(r)
         \/ SessionStatement
         \/ UNCHANGED vars
<1>1. ASSUME NEW r \in Requests, Commit(r) PROVE Settled(r)
  <2>1. Existing(r) = {}
    BY <1>1 DEF Commit, IInv, PhaseOK, NoRoundPCs
  <2>2. QED
    BY <1>1, <2>1 DEF Commit, Settled
<1>2. ASSUME NEW r \in Requests, Resolve(r) PROVE Settled(r) \/ RolledBack(r)
  BY <1>2 DEF Resolve, Settled, RolledBack, sessionVars
<1>3. QED
  BY <1>1, <1>2 DEF Next, Step, Terminated

(* Session statements touch neither the requests nor the money. *)
LEMMA SessionsLeave == SessionStatement => UNCHANGED <<requestVars, moneyVars>>
  BY DEF SessionStatement, Expire, PruneExpired, Invalidate, RequireAuth, Rotate, OpenForAccount

-----------------------------------------------------------------------------
(* Type correctness *)

(* The initial tables and requests are well typed. *)
LEMMA TypeInit == Init => TypeOK
<1> SUFFICES ASSUME Init PROVE TypeOK
  OBVIOUS
<1>1. Ask # {}
  <2>1. PICK s \in SessionIds, k \in Keys, b \in Bets : TRUE
    BY AskAssumption
  <2>2. [session |-> s, key |-> k, bet |-> b, caller |-> NoAccount] \in Ask
    BY DEF Ask
  <2>3. QED
    BY <2>2
<1>2. req \in [Requests -> Ask]
  BY <1>1 DEF Init
<1>3. state \in [SessionIds -> {"unused", "live", "expired", "gone"}]
  BY DEF Init
<1>4. QED
  BY <1>2, <1>3, BalanceAssumption, SessionAssumption DEF Init, TypeOK, Kinds, PCs

(* Every step keeps the types. Commit is the one that could break them: the    *)
(* balance stays natural because the stake is still covered under the wallet's *)
(* lock.                                                                       *)
LEMMA TypeStep == IInv /\ [Next]_vars => TypeOK'
<1> SUFFICES ASSUME IInv, [Next]_vars PROVE TypeOK'
  OBVIOUS
<1> USE DEF TypeOK, PCs, Kinds, requestVars, sessionVars, moneyVars
<1>1. ASSUME NEW r \in Requests, NEW a \in Ask, Send(r, a) PROVE TypeOK'
  BY <1>1 DEF Send, Goto, IInv
<1>2. ASSUME NEW r \in Requests, GetSession(r) PROVE TypeOK'
  <2>1. account[req[r].session] \in Accounts \cup {NoAccount}
    BY DEF IInv, Ask
  <2>2. owner' \in [Requests -> Accounts \cup {NoAccount}]
    BY <1>2, <2>1 DEF GetSession, Account, IInv
  <2>3. state' \in [SessionIds -> {"unused", "live", "expired", "gone"}]
    BY <1>2 DEF GetSession, Touch, IInv
  <2>4. pc' \in [Requests -> PCs]
    BY <1>2 DEF GetSession, Goto, IInv
  <2>5. QED
    BY <1>2, <2>2, <2>3, <2>4 DEF GetSession, IInv
<1>3. ASSUME NEW r \in Requests, Hydrate(r) PROVE TypeOK'
  <2>1. owner[r] \in Accounts
    BY <1>3 DEF Hydrate, IInv, PhaseOK, OwnedPCs
  <2>2. seen' \in [Requests -> Nat]
    BY <2>1, <1>3 DEF Hydrate, IInv
  <2>3. QED
    BY <2>2, <1>3 DEF Hydrate, Goto, Reply, IInv
<1>4. ASSUME NEW r \in Requests, Purge(r) PROVE TypeOK'
  BY <1>4 DEF Purge, Reply, DeleteIfExpired, Ask, IInv
<1>5. ASSUME NEW r \in Requests, Lookup(r) PROVE TypeOK'
  BY <1>5 DEF Lookup, Goto, Reply, ReplyExisting, Existing, IInv
<1>6. ASSUME NEW r \in Requests, Connect(r) PROVE TypeOK'
  BY <1>6 DEF Connect, Goto, IInv
<1>7. ASSUME NEW r \in Requests, LockSession(r) PROVE TypeOK'
  BY <1>7 DEF LockSession, Goto, Reply, IInv
<1>8. ASSUME NEW r \in Requests, PurgeHeld(r) PROVE TypeOK'
  BY <1>8 DEF PurgeHeld, Reply, DeleteIfExpired, Ask, IInv
<1>9. ASSUME NEW r \in Requests, LockKey(r) PROVE TypeOK'
  BY <1>9 DEF LockKey, Goto, IInv
<1>10. ASSUME NEW r \in Requests, Replay(r) PROVE TypeOK'
  <2>1. PICK x \in Existing(r) :
          IF x.bet = req[r].bet THEN Reply(r, "replay", {x}) ELSE Reply(r, "conflict", {})
    BY <1>10 DEF Replay, ReplyExisting
  <2>2. /\ pc' \in [Requests -> PCs]
        /\ answer' \in [Requests -> Kinds]
        /\ told' \in [Requests -> SUBSET Row]
    BY <2>1 DEF Reply, Existing, IInv
  <2>3. state' \in [SessionIds -> {"unused", "live", "expired", "gone"}]
    BY <1>10 DEF Replay, Touch, IInv
  <2>4. QED
    BY <2>2, <2>3, <1>10 DEF Replay, IInv
<1>11. ASSUME NEW r \in Requests, LockWallet(r) PROVE TypeOK'
  BY <1>11 DEF LockWallet, CannotPay, Goto, Reply, IInv
<1>12. ASSUME NEW r \in Requests, RateLimited(r) PROVE TypeOK'
  BY <1>12 DEF RateLimited, Reply, IInv
<1>13. ASSUME NEW r \in Requests, Settle(r) PROVE TypeOK'
  BY <1>13 DEF Settle, CannotPay, Goto, Reply, IInv
<1>14. ASSUME NEW r \in Requests, Settled(r) PROVE TypeOK'
  <2>1. owner[r] \in Accounts /\ req[r] \in Ask
    BY <1>14 DEF Settled, Publish, Goto, IInv, PhaseOK, OwnedPCs
  <2>2. req[r].key \in Keys /\ req[r].bet \in Nat /\ req[r].session \in SessionIds
    BY <2>1, BetsAssumption DEF Ask
  <2>3. balance[owner[r]] \in Nat /\ req[r].bet <= balance[owner[r]]
    BY <2>1, <1>14 DEF Settled, Publish, Goto, IInv, PhaseOK, WalletPCs, HousePCs
  <2>4. PICK payout \in draw[r] :
          /\ rounds' = rounds \cup {Settlement(r, payout)}
          /\ balance' = [balance EXCEPT ![owner[r]] = @ - req[r].bet + payout]
          /\ house' = house + req[r].bet - payout
    BY <1>14 DEF Settled, Publish
  <2>5. payout \in Nat
    BY PayoutsAssumption DEF IInv
  <2>6. balance[owner[r]] - req[r].bet + payout \in Nat
    BY <2>2, <2>3, <2>5
  <2>7. balance' \in [Accounts -> Nat]
    BY <2>1, <2>4, <2>6 DEF IInv
  <2>8. house' \in Int
    <3>1. house \in Int
      BY DEF IInv
    <3>2. QED
      BY <2>2, <2>4, <2>5, <3>1
  <2>9. Settlement(r, payout) \in Row
    BY <2>1, <2>2, <2>5, <2>6 DEF Settlement, Row
  <2>10. rounds' \subseteq Row
    BY <2>4, <2>9 DEF IInv
  <2>11. state' \in [SessionIds -> {"unused", "live", "expired", "gone"}]
    BY <2>2, <1>14 DEF Settled, Publish, Touch, IInv
  <2>12. pc' \in [Requests -> PCs]
    BY <1>14 DEF Settled, Publish, Goto, IInv
  <2>13. QED
    BY <2>7, <2>8, <2>10, <2>11, <2>12, <1>14 DEF Settled, IInv
<1>15. ASSUME NEW r \in Requests, Respond(r) PROVE TypeOK'
  BY <1>15 DEF Respond, Reply, IInv
<1>16. ASSUME NEW r \in Requests, Fail(r) PROVE TypeOK'
  BY <1>16 DEF Fail, Reply, UnknownOutcome, IInv
<1>17. ASSUME NEW r \in Requests, NEW payout \in Payouts, Draw(r, payout) PROVE TypeOK'
  BY <1>17 DEF Draw, Goto, IInv
<1>18. ASSUME NEW s \in SessionIds, Expire(s) PROVE TypeOK'
  BY <1>18 DEF Expire, IInv
<1>19. ASSUME NEW s \in SessionIds, PruneExpired(s) PROVE TypeOK'
  BY <1>19 DEF PruneExpired, DeleteIfExpired, IInv
<1>20. ASSUME NEW s \in SessionIds, Invalidate(s) PROVE TypeOK'
  BY <1>20 DEF Invalidate, IInv
<1>21. ASSUME NEW s \in SessionIds, RequireAuth(s) PROVE TypeOK'
  BY <1>21 DEF RequireAuth, IInv
<1>22. ASSUME NEW s \in SessionIds, NEW t \in SessionIds, Rotate(s, t) PROVE TypeOK'
  BY <1>22 DEF Rotate, IInv
<1>23. ASSUME NEW s \in SessionIds, NEW a \in Accounts, OpenForAccount(s, a) PROVE TypeOK'
  BY <1>23 DEF OpenForAccount, IInv
<1>24. CASE UNCHANGED vars
  BY <1>24 DEF vars, IInv
<1>25. ASSUME NEW r \in Requests, LoseCommit(r) PROVE TypeOK'
  BY <1>25 DEF LoseCommit, Goto, IInv
<1>26. ASSUME NEW r \in Requests, RolledBack(r) PROVE TypeOK'
  BY <1>26 DEF RolledBack, Goto, IInv
<1>27. QED
  BY <1>1, <1>2, <1>3, <1>4, <1>5, <1>6, <1>7, <1>8, <1>9, <1>10, <1>11,
     <1>12, <1>13, <1>14, <1>15, <1>16, <1>17, <1>18, <1>19, <1>20, <1>21,
     <1>22, <1>23, <1>24, <1>25, <1>26, NextCases
  DEF SessionStatement

(* A lock is only taken when no other request holds it, and the session, key *)
(* and owner of a request that holds one do not change.                      *)
LEMMA LocksStep == IInv /\ [Next]_vars => LocksExclusive'
<1> SUFFICES ASSUME IInv, [Next]_vars PROVE LocksExclusive'
  OBVIOUS
<1> USE DEF PCs, SessionPCs, KeyPCs, WalletPCs, HousePCs, OwnedPCs, ValidPCs, NoRoundPCs, requestVars, sessionVars, moneyVars
<1>1. ASSUME NEW r \in Requests, NEW a \in Ask, Send(r, a) PROVE LocksExclusive'
  BY <1>1 DEF Send, Goto, IInv, TypeOK, LocksExclusive, SameRound
<1>2. ASSUME NEW r \in Requests, GetSession(r) PROVE LocksExclusive'
  BY <1>2 DEF GetSession, Goto, IInv, TypeOK, LocksExclusive, SameRound
<1>3. ASSUME NEW r \in Requests, Hydrate(r) PROVE LocksExclusive'
  BY <1>3 DEF Hydrate, Goto, Reply, IInv, TypeOK, LocksExclusive, SameRound
<1>4. ASSUME NEW r \in Requests, Purge(r) PROVE LocksExclusive'
  BY <1>4 DEF Purge, Reply, DeleteIfExpired, IInv, TypeOK, LocksExclusive, SameRound
<1>5. ASSUME NEW r \in Requests, Lookup(r) PROVE LocksExclusive'
  BY <1>5 DEF Lookup, Goto, Reply, ReplyExisting, Existing, IInv, TypeOK, LocksExclusive, SameRound
<1>6. ASSUME NEW r \in Requests, Connect(r) PROVE LocksExclusive'
  BY <1>6 DEF Connect, Goto, IInv, TypeOK, LocksExclusive, SameRound
<1>7. ASSUME NEW r \in Requests, LockSession(r) PROVE LocksExclusive'
  BY <1>7 DEF LockSession, Goto, Reply, SessionFree, IInv, TypeOK, LocksExclusive, SameRound
<1>8. ASSUME NEW r \in Requests, PurgeHeld(r) PROVE LocksExclusive'
  BY <1>8 DEF PurgeHeld, Reply, DeleteIfExpired, IInv, TypeOK, LocksExclusive, SameRound
<1>9. ASSUME NEW r \in Requests, LockKey(r) PROVE LocksExclusive'
  BY <1>9 DEF LockKey, Goto, KeyFree, IInv, TypeOK, LocksExclusive, SameRound
<1>10. ASSUME NEW r \in Requests, Replay(r) PROVE LocksExclusive'
  BY <1>10 DEF Replay, Reply, ReplyExisting, Existing, Touch, IInv, TypeOK, LocksExclusive, SameRound
<1>11. ASSUME NEW r \in Requests, LockWallet(r) PROVE LocksExclusive'
  BY <1>11 DEF LockWallet, CannotPay, Goto, Reply, WalletFree, IInv, TypeOK, LocksExclusive, SameRound
<1>12. ASSUME NEW r \in Requests, RateLimited(r) PROVE LocksExclusive'
  BY <1>12 DEF RateLimited, Reply, IInv, TypeOK, LocksExclusive, SameRound
<1>13. ASSUME NEW r \in Requests, Settle(r) PROVE LocksExclusive'
  BY <1>13 DEF Settle, CannotPay, Goto, Reply, IInv, TypeOK, LocksExclusive, SameRound
<1>14. ASSUME NEW r \in Requests, Settled(r) PROVE LocksExclusive'
  BY <1>14 DEF Settled, Publish, Goto, IInv, TypeOK, LocksExclusive, SameRound
<1>15. ASSUME NEW r \in Requests, Respond(r) PROVE LocksExclusive'
  BY <1>15 DEF Respond, Reply, IInv, TypeOK, LocksExclusive, SameRound
<1>16. ASSUME NEW r \in Requests, Fail(r) PROVE LocksExclusive'
  BY <1>16 DEF Fail, Reply, UnknownOutcome, IInv, TypeOK, LocksExclusive, SameRound
<1>17. ASSUME NEW r \in Requests, NEW payout \in Payouts, Draw(r, payout) PROVE LocksExclusive'
  BY <1>17 DEF Draw, Goto, IInv, TypeOK, LocksExclusive, SameRound
<1>18. CASE UNCHANGED <<requestVars, moneyVars>>
  BY <1>18 DEF IInv, TypeOK, LocksExclusive, SameRound
<1>19. ASSUME NEW r \in Requests, LoseCommit(r) PROVE LocksExclusive'
  BY <1>19 DEF LoseCommit, Goto, IInv, TypeOK, LocksExclusive, SameRound
<1>20. ASSUME NEW r \in Requests, RolledBack(r) PROVE LocksExclusive'
  BY <1>20 DEF RolledBack, Goto, IInv, TypeOK, LocksExclusive, SameRound
<1>21. QED
  BY <1>1, <1>2, <1>3, <1>4, <1>5, <1>6, <1>7, <1>8, <1>9, <1>10, <1>11,
     <1>12, <1>13, <1>14, <1>15, <1>16, <1>17, <1>18, <1>19, <1>20,
     NextCases, SessionsLeave
  DEF vars

(* What the statements before have established still holds when the next one *)
(* runs: only a Commit adds rounds or moves a balance, and the request that  *)
(* commits holds the key and the wallet.                                     *)
LEMMA PhaseStep == IInv /\ [Next]_vars => PhaseOK'
<1> SUFFICES ASSUME IInv, [Next]_vars PROVE PhaseOK'
  OBVIOUS
<1> USE DEF PCs, SessionPCs, KeyPCs, WalletPCs, HousePCs, OwnedPCs, ValidPCs, NoRoundPCs, requestVars, sessionVars, moneyVars
<1>1. ASSUME NEW r \in Requests, NEW a \in Ask, Send(r, a) PROVE PhaseOK'
  BY <1>1 DEF Send, Goto, IInv, TypeOK, PhaseOK, Existing, Drawn
<1>2. ASSUME NEW r \in Requests, GetSession(r) PROVE PhaseOK'
  <2>1. /\ \A q \in Requests \ {r} : owner'[q] = owner[q] /\ pc'[q] = pc[q]
        /\ UNCHANGED <<req, seen, draw, answer, told, moneyVars>>
        /\ pc[r] = "get" /\ pc'[r] \in {"hydrate", "purge"}
    BY <1>2 DEF GetSession, Goto, IInv, TypeOK
  <2>2. pc'[r] = "hydrate" => owner'[r] \in Accounts
    BY <1>2 DEF GetSession, Goto, Selects, Account, Ask, IInv, TypeOK, SessionsOK
  <2>3. QED
    BY <2>1, <2>2 DEF IInv, PhaseOK, Existing, Drawn
<1>3. ASSUME NEW r \in Requests, Hydrate(r) PROVE PhaseOK'
  BY <1>3 DEF Hydrate, Goto, Reply, IInv, TypeOK, PhaseOK, Existing, Drawn
<1>4. ASSUME NEW r \in Requests, Purge(r) PROVE PhaseOK'
  BY <1>4 DEF Purge, Reply, DeleteIfExpired, IInv, TypeOK, PhaseOK, Existing, Drawn
<1>5. ASSUME NEW r \in Requests, Lookup(r) PROVE PhaseOK'
  BY <1>5 DEF Lookup, Goto, Reply, ReplyExisting, Existing, IInv, TypeOK, PhaseOK, Drawn
<1>6. ASSUME NEW r \in Requests, Connect(r) PROVE PhaseOK'
  BY <1>6 DEF Connect, Goto, IInv, TypeOK, PhaseOK, Existing, Drawn
<1>7. ASSUME NEW r \in Requests, LockSession(r) PROVE PhaseOK'
  BY <1>7 DEF LockSession, Goto, Reply, IInv, TypeOK, PhaseOK, Existing, Drawn
<1>8. ASSUME NEW r \in Requests, PurgeHeld(r) PROVE PhaseOK'
  BY <1>8 DEF PurgeHeld, Reply, DeleteIfExpired, IInv, TypeOK, PhaseOK, Existing, Drawn
<1>9. ASSUME NEW r \in Requests, LockKey(r) PROVE PhaseOK'
  BY <1>9 DEF LockKey, Goto, KeyFree, IInv, TypeOK, PhaseOK, Existing, Drawn
<1>10. ASSUME NEW r \in Requests, Replay(r) PROVE PhaseOK'
  BY <1>10 DEF Replay, Reply, ReplyExisting, Existing, Touch, IInv, TypeOK, PhaseOK, Drawn
<1>11. ASSUME NEW r \in Requests, LockWallet(r) PROVE PhaseOK'
  <2>1. CASE balance[owner[r]] < req[r].bet
    BY <2>1, <1>11 DEF LockWallet, CannotPay, Reply, IInv, TypeOK, PhaseOK, Existing, Drawn
  <2>2. CASE ~(balance[owner[r]] < req[r].bet)
    <3>1. owner[r] \in Accounts /\ balance[owner[r]] \in Nat /\ req[r].bet \in Nat
      BY <1>11, BetsAssumption DEF LockWallet, CannotPay, IInv, TypeOK, PhaseOK
    <3>2. req[r].bet <= balance[owner[r]]
      BY <2>2, <3>1
    <3>3. QED
      BY <2>2, <3>2, <1>11 DEF LockWallet, CannotPay, Goto, IInv, TypeOK, PhaseOK, Existing, Drawn
  <2>3. QED
    BY <2>1, <2>2
<1>12. ASSUME NEW r \in Requests, RateLimited(r) PROVE PhaseOK'
  BY <1>12 DEF RateLimited, Reply, IInv, TypeOK, PhaseOK, Existing, Drawn
<1>13. ASSUME NEW r \in Requests, Settle(r) PROVE PhaseOK'
  BY <1>13 DEF Settle, CannotPay, Goto, Reply, IInv, TypeOK, PhaseOK, Existing, Drawn
<1>14. ASSUME NEW r \in Requests, Settled(r) PROVE PhaseOK'
  <2>1. PICK payout \in draw[r] :
          /\ rounds' = rounds \cup {Settlement(r, payout)}
          /\ balance' = [balance EXCEPT ![owner[r]] = balance[owner[r]] - req[r].bet + payout]
    BY <1>14 DEF Settled, Publish
  <2>2. /\ \/ pc[r] = "commit" /\ pc' = [pc EXCEPT ![r] = "respond"]
           \/ pc[r] = "inDoubt" /\ pc' = [pc EXCEPT ![r] = "done"]
        /\ UNCHANGED <<req, owner, draw, answer, told>>
    BY <1>14 DEF Settled, Publish, Goto
  <2>3. ASSUME NEW q \in Requests \ {r}, pc[q] \in NoRoundPCs
        PROVE  Existing(q)' = {}
    <3>1. ~SameRound(q, r)
      BY <2>2, <2>3 DEF IInv, LocksExclusive
    <3>2. QED
      BY <2>1, <2>2, <2>3, <3>1 DEF IInv, PhaseOK, Existing, Settlement, SameRound
  <2>4. ASSUME NEW q \in Requests \ {r}, pc[q] \in WalletPCs
        PROVE  req[q].bet <= balance'[owner[q]]
    <3>1. owner[q] # owner[r] /\ owner[q] \in Accounts
      BY <2>2, <2>4 DEF IInv, LocksExclusive, PhaseOK
    <3>2. balance'[owner[q]] = balance[owner[q]]
      BY <2>1, <3>1 DEF IInv, TypeOK
    <3>3. QED
      BY <2>4, <3>2 DEF IInv, PhaseOK
  <2>5. QED
    BY <2>2, <2>3, <2>4 DEF IInv, TypeOK, PhaseOK, Drawn
<1>15. ASSUME NEW r \in Requests, Respond(r) PROVE PhaseOK'
  BY <1>15 DEF Respond, Reply, IInv, TypeOK, PhaseOK, Existing, Drawn
<1>16. ASSUME NEW r \in Requests, Fail(r) PROVE PhaseOK'
  BY <1>16 DEF Fail, Reply, UnknownOutcome, IInv, TypeOK, PhaseOK, Existing, Drawn
<1>17. ASSUME NEW r \in Requests, NEW payout \in Payouts, Draw(r, payout) PROVE PhaseOK'
  BY <1>17 DEF Draw, Goto, IInv, TypeOK, PhaseOK, Existing, Drawn
<1>18. CASE UNCHANGED <<requestVars, moneyVars>>
  BY <1>18 DEF IInv, TypeOK, PhaseOK, Existing, Drawn
<1>19. ASSUME NEW r \in Requests, LoseCommit(r) PROVE PhaseOK'
  BY <1>19 DEF LoseCommit, Goto, IInv, TypeOK, PhaseOK, Existing, Drawn
<1>20. ASSUME NEW r \in Requests, RolledBack(r) PROVE PhaseOK'
  BY <1>20 DEF RolledBack, Goto, IInv, TypeOK, PhaseOK, Existing, Drawn
<1>21. QED
  BY <1>1, <1>2, <1>3, <1>4, <1>5, <1>6, <1>7, <1>8, <1>9, <1>10, <1>11,
     <1>12, <1>13, <1>14, <1>15, <1>16, <1>17, <1>18, <1>19, <1>20,
     NextCases, SessionsLeave
  DEF vars

(* A step that does not settle, respond or change what was asked. *)
LEMMA QuietStep ==
  ASSUME TypeOK, RoundsOK, NEW r \in Requests, NEW p \in PCs \ {"respond"},
         pc[r] \notin {"respond", "inDoubt", "done"}, pc' = [pc EXCEPT ![r] = p],
         UNCHANGED <<rounds, req, owner>>
  PROVE  RoundsOK'
  BY DEF TypeOK, RoundsOK, Row

(* The request of a round is past its Commit and keeps its owner and question. *)
LEMMA RoundsStep == IInv /\ [Next]_vars => RoundsOK'
<1> SUFFICES ASSUME IInv, [Next]_vars PROVE RoundsOK'
  OBVIOUS
<1> USE DEF PCs, SessionPCs, KeyPCs, WalletPCs, HousePCs, OwnedPCs, ValidPCs, NoRoundPCs, requestVars, sessionVars, moneyVars
<1>1. ASSUME NEW r \in Requests, NEW a \in Ask, Send(r, a) PROVE RoundsOK'
  BY <1>1 DEF Send, Goto, IInv, TypeOK, PhaseOK, RoundsOK
<1>2. ASSUME NEW r \in Requests, GetSession(r) PROVE RoundsOK'
  <2>1. /\ \A q \in Requests \ {r} : owner'[q] = owner[q] /\ pc'[q] = pc[q]
        /\ UNCHANGED <<req, rounds>>
        /\ pc[r] = "get" /\ pc'[r] \in {"hydrate", "purge"}
    BY <1>2 DEF GetSession, Goto, IInv, TypeOK
  <2>2. \A x \in rounds : x.id \in Requests \ {r}
    BY <2>1 DEF IInv, TypeOK, RoundsOK, Row
  <2>3. QED
    BY <2>1, <2>2 DEF IInv, RoundsOK
<1>3. ASSUME NEW r \in Requests, Hydrate(r) PROVE RoundsOK'
  <2>1. PICK p \in PCs \ {"respond"} : pc' = [pc EXCEPT ![r] = p]
    BY <1>3 DEF Hydrate, Goto, Reply
  <2>2. QED
    BY <2>1, <1>3, QuietStep DEF Hydrate, Goto, IInv
<1>4. ASSUME NEW r \in Requests, Purge(r) PROVE RoundsOK'
  BY <1>4 DEF Purge, Reply, DeleteIfExpired, IInv, TypeOK, PhaseOK, RoundsOK
<1>5. ASSUME NEW r \in Requests, Lookup(r) PROVE RoundsOK'
  <2>1. PICK p \in PCs \ {"respond"} : pc' = [pc EXCEPT ![r] = p]
    BY <1>5 DEF Lookup, Goto, Reply, ReplyExisting
  <2>2. QED
    BY <2>1, <1>5, QuietStep DEF Lookup, Goto, IInv
<1>6. ASSUME NEW r \in Requests, Connect(r) PROVE RoundsOK'
  BY <1>6 DEF Connect, Goto, IInv, TypeOK, PhaseOK, RoundsOK
<1>7. ASSUME NEW r \in Requests, LockSession(r) PROVE RoundsOK'
  <2>1. PICK p \in PCs \ {"respond"} : pc' = [pc EXCEPT ![r] = p]
    BY <1>7 DEF LockSession, Goto, Reply
  <2>2. QED
    BY <2>1, <1>7, QuietStep DEF LockSession, Goto, Reply, IInv
<1>8. ASSUME NEW r \in Requests, PurgeHeld(r) PROVE RoundsOK'
  BY <1>8 DEF PurgeHeld, Reply, DeleteIfExpired, IInv, TypeOK, PhaseOK, RoundsOK
<1>9. ASSUME NEW r \in Requests, LockKey(r) PROVE RoundsOK'
  BY <1>9 DEF LockKey, Goto, IInv, TypeOK, PhaseOK, RoundsOK
<1>10. ASSUME NEW r \in Requests, Replay(r) PROVE RoundsOK'
  <2>1. PICK p \in PCs \ {"respond"} : pc' = [pc EXCEPT ![r] = p]
    BY <1>10 DEF Replay, Reply, ReplyExisting
  <2>2. QED
    BY <2>1, <1>10, QuietStep DEF Replay, IInv
<1>11. ASSUME NEW r \in Requests, LockWallet(r) PROVE RoundsOK'
  <2>1. PICK p \in PCs \ {"respond"} : pc' = [pc EXCEPT ![r] = p]
    BY <1>11 DEF LockWallet, CannotPay, Goto, Reply
  <2>2. QED
    BY <2>1, <1>11, QuietStep DEF LockWallet, CannotPay, Goto, IInv
<1>12. ASSUME NEW r \in Requests, RateLimited(r) PROVE RoundsOK'
  BY <1>12 DEF RateLimited, Reply, IInv, TypeOK, PhaseOK, RoundsOK
<1>13. ASSUME NEW r \in Requests, Settle(r) PROVE RoundsOK'
  <2>1. PICK p \in PCs \ {"respond"} : pc' = [pc EXCEPT ![r] = p]
    BY <1>13 DEF Settle, CannotPay, Goto, Reply
  <2>2. QED
    BY <2>1, <1>13, QuietStep DEF Settle, CannotPay, Goto, IInv
<1>14. ASSUME NEW r \in Requests, Settled(r) PROVE RoundsOK'
  <2>1. PICK payout \in draw[r] : rounds' = rounds \cup {Settlement(r, payout)}
    BY <1>14 DEF Settled, Publish
  <2>2. /\ pc[r] \in {"commit", "inDoubt"}
        /\ \E to \in {"respond", "done"} : pc' = [pc EXCEPT ![r] = to]
        /\ UNCHANGED <<req, owner>>
    BY <1>14 DEF Settled, Publish, Goto
  <2>3. \A x \in rounds : x.id \in Requests
    BY DEF IInv, TypeOK, Row
  <2>4. \A x \in rounds' :
          /\ x.account = owner[x.id] /\ x.key = req[x.id].key /\ x.bet = req[x.id].bet
          /\ pc'[x.id] \in {"respond", "done"}
    BY <2>1, <2>2, <2>3 DEF IInv, TypeOK, RoundsOK, Settlement
  <2>5. \A q \in Requests : pc'[q] = "respond" => \E x \in rounds' : x.id = q
    <3>1. Settlement(r, payout) \in rounds' /\ Settlement(r, payout).id = r
      BY <2>1 DEF Settlement
    <3>2. \A q \in Requests \ {r} : pc'[q] = pc[q]
      BY <2>2
    <3>3. QED
      BY <2>1, <3>1, <3>2 DEF IInv, RoundsOK
  <2>6. QED
    BY <2>2, <2>4, <2>5 DEF RoundsOK
<1>15. ASSUME NEW r \in Requests, Respond(r) PROVE RoundsOK'
  BY <1>15 DEF Respond, Reply, IInv, TypeOK, PhaseOK, RoundsOK
<1>16. ASSUME NEW r \in Requests, Fail(r) PROVE RoundsOK'
  BY <1>16 DEF Fail, Reply, UnknownOutcome, IInv, TypeOK, PhaseOK, RoundsOK
<1>17. ASSUME NEW r \in Requests, NEW payout \in Payouts, Draw(r, payout) PROVE RoundsOK'
  BY <1>17 DEF Draw, Goto, IInv, TypeOK, PhaseOK, RoundsOK
<1>18. CASE UNCHANGED <<requestVars, moneyVars>>
  BY <1>18 DEF IInv, TypeOK, PhaseOK, RoundsOK
<1>19. ASSUME NEW r \in Requests, LoseCommit(r) PROVE RoundsOK'
  BY <1>19 DEF LoseCommit, Goto, IInv, TypeOK, PhaseOK, RoundsOK
<1>20. ASSUME NEW r \in Requests, RolledBack(r) PROVE RoundsOK'
  BY <1>20 DEF RolledBack, Goto, IInv, TypeOK, PhaseOK, RoundsOK
<1>21. QED
  BY <1>1, <1>2, <1>3, <1>4, <1>5, <1>6, <1>7, <1>8, <1>9, <1>10, <1>11,
     <1>12, <1>13, <1>14, <1>15, <1>16, <1>17, <1>18, <1>19, <1>20,
     NextCases, SessionsLeave
  DEF vars

(* Commit finds no round of its account and key, because the lookup under the *)
(* advisory lock found none and the lock is still held.                       *)
LEMMA OneRoundStep == IInv /\ [Next]_vars => OneRoundPerKey'
<1> SUFFICES ASSUME IInv, [Next]_vars PROVE OneRoundPerKey'
  OBVIOUS
<1> USE DEF PCs, SessionPCs, KeyPCs, WalletPCs, HousePCs, OwnedPCs, ValidPCs, NoRoundPCs, requestVars, sessionVars, moneyVars
<1>1. ASSUME NEW r \in Requests, NEW a \in Ask, Send(r, a) PROVE OneRoundPerKey'
  BY <1>1 DEF Send, Goto, IInv, OneRoundPerKey
<1>2. ASSUME NEW r \in Requests, GetSession(r) PROVE OneRoundPerKey'
  BY <1>2 DEF GetSession, Goto, IInv, OneRoundPerKey
<1>3. ASSUME NEW r \in Requests, Hydrate(r) PROVE OneRoundPerKey'
  BY <1>3 DEF Hydrate, Goto, Reply, IInv, OneRoundPerKey
<1>4. ASSUME NEW r \in Requests, Purge(r) PROVE OneRoundPerKey'
  BY <1>4 DEF Purge, Reply, DeleteIfExpired, IInv, OneRoundPerKey
<1>5. ASSUME NEW r \in Requests, Lookup(r) PROVE OneRoundPerKey'
  BY <1>5 DEF Lookup, Goto, Reply, ReplyExisting, Existing, IInv, OneRoundPerKey
<1>6. ASSUME NEW r \in Requests, Connect(r) PROVE OneRoundPerKey'
  BY <1>6 DEF Connect, Goto, IInv, OneRoundPerKey
<1>7. ASSUME NEW r \in Requests, LockSession(r) PROVE OneRoundPerKey'
  BY <1>7 DEF LockSession, Goto, Reply, IInv, OneRoundPerKey
<1>8. ASSUME NEW r \in Requests, PurgeHeld(r) PROVE OneRoundPerKey'
  BY <1>8 DEF PurgeHeld, Reply, DeleteIfExpired, IInv, OneRoundPerKey
<1>9. ASSUME NEW r \in Requests, LockKey(r) PROVE OneRoundPerKey'
  BY <1>9 DEF LockKey, Goto, IInv, OneRoundPerKey
<1>10. ASSUME NEW r \in Requests, Replay(r) PROVE OneRoundPerKey'
  BY <1>10 DEF Replay, Reply, ReplyExisting, Existing, Touch, IInv, OneRoundPerKey
<1>11. ASSUME NEW r \in Requests, LockWallet(r) PROVE OneRoundPerKey'
  BY <1>11 DEF LockWallet, CannotPay, Goto, Reply, IInv, OneRoundPerKey
<1>12. ASSUME NEW r \in Requests, RateLimited(r) PROVE OneRoundPerKey'
  BY <1>12 DEF RateLimited, Reply, IInv, OneRoundPerKey
<1>13. ASSUME NEW r \in Requests, Settle(r) PROVE OneRoundPerKey'
  BY <1>13 DEF Settle, CannotPay, Goto, Reply, IInv, OneRoundPerKey
<1>14. ASSUME NEW r \in Requests, Settled(r) PROVE OneRoundPerKey'
  <2>1. Existing(r) = {}
    BY <1>14 DEF Settled, Publish, Goto, IInv, PhaseOK
  <2>2. QED
    BY <2>1, <1>14 DEF Settled, Publish, Settlement, Existing, IInv, OneRoundPerKey
<1>15. ASSUME NEW r \in Requests, Respond(r) PROVE OneRoundPerKey'
  BY <1>15 DEF Respond, Reply, IInv, OneRoundPerKey
<1>16. ASSUME NEW r \in Requests, Fail(r) PROVE OneRoundPerKey'
  BY <1>16 DEF Fail, Reply, UnknownOutcome, IInv, OneRoundPerKey
<1>17. ASSUME NEW r \in Requests, NEW payout \in Payouts, Draw(r, payout) PROVE OneRoundPerKey'
  BY <1>17 DEF Draw, Goto, IInv, OneRoundPerKey
<1>18. CASE UNCHANGED <<requestVars, moneyVars>>
  BY <1>18 DEF IInv, OneRoundPerKey
<1>19. ASSUME NEW r \in Requests, LoseCommit(r) PROVE OneRoundPerKey'
  BY <1>19 DEF LoseCommit, Goto, IInv, OneRoundPerKey
<1>20. ASSUME NEW r \in Requests, RolledBack(r) PROVE OneRoundPerKey'
  BY <1>20 DEF RolledBack, Goto, IInv, OneRoundPerKey
<1>21. QED
  BY <1>1, <1>2, <1>3, <1>4, <1>5, <1>6, <1>7, <1>8, <1>9, <1>10, <1>11,
     <1>12, <1>13, <1>14, <1>15, <1>16, <1>17, <1>18, <1>19, <1>20,
     NextCases, SessionsLeave
  DEF vars

(* An existing round is replayed only to a request with its own fingerprint. *)
LEMMA ReplayIsSettled ==
  ASSUME IInv, NEW r \in Requests, NEW x \in Existing(r), UNCHANGED <<rounds, owner, req>>,
         IF x.bet = req[r].bet THEN Reply(r, "replay", {x}) ELSE Reply(r, "conflict", {})
  PROVE  AnswersAreSettled'
<1>1. x \in rounds /\ x.account = owner[r] /\ x.key = req[r].key
  BY DEF Existing
<1>2. answer \in [Requests -> Kinds] /\ told \in [Requests -> SUBSET Row]
  BY DEF IInv, TypeOK
<1>3. CASE x.bet = req[r].bet
  <2>1. answer'[r] = "replay" /\ told'[r] = {x}
    BY <1>2, <1>3 DEF Reply
  <2>2. \A q \in Requests \ {r} : answer'[q] = answer[q] /\ told'[q] = told[q]
    BY <1>2, <1>3 DEF Reply
  <2>3. QED
    BY <1>1, <1>3, <2>1, <2>2 DEF IInv, AnswersAreSettled
<1>4. CASE x.bet # req[r].bet
  BY <1>1, <1>2, <1>4 DEF Reply, IInv, AnswersAreSettled
<1>5. QED
  BY <1>3, <1>4

(* A client is shown a round that was read from the committed rows, and those *)
(* rows are never changed.                                                    *)
LEMMA AnswersStep == IInv /\ [Next]_vars => AnswersAreSettled'
<1> SUFFICES ASSUME IInv, [Next]_vars PROVE AnswersAreSettled'
  OBVIOUS
<1> USE DEF PCs, SessionPCs, KeyPCs, WalletPCs, HousePCs, OwnedPCs, ValidPCs, NoRoundPCs, requestVars, sessionVars, moneyVars
<1>1. ASSUME NEW r \in Requests, NEW a \in Ask, Send(r, a) PROVE AnswersAreSettled'
  BY <1>1 DEF Send, Goto, IInv, TypeOK, AnswersAreSettled, RoundsOK, PhaseOK
<1>2. ASSUME NEW r \in Requests, GetSession(r) PROVE AnswersAreSettled'
  BY <1>2 DEF GetSession, Goto, IInv, TypeOK, AnswersAreSettled, RoundsOK, PhaseOK
<1>3. ASSUME NEW r \in Requests, Hydrate(r) PROVE AnswersAreSettled'
  BY <1>3 DEF Hydrate, Goto, Reply, IInv, TypeOK, AnswersAreSettled, RoundsOK, PhaseOK
<1>4. ASSUME NEW r \in Requests, Purge(r) PROVE AnswersAreSettled'
  BY <1>4 DEF Purge, Reply, DeleteIfExpired, IInv, TypeOK, AnswersAreSettled, RoundsOK, PhaseOK
<1>5. ASSUME NEW r \in Requests, Lookup(r) PROVE AnswersAreSettled'
  <2>1. CASE ReplyExisting(r)
    <3>1. PICK x \in Existing(r) :
            IF x.bet = req[r].bet THEN Reply(r, "replay", {x}) ELSE Reply(r, "conflict", {})
      BY <2>1 DEF ReplyExisting
    <3>2. UNCHANGED <<rounds, owner, req>>
      BY <1>5 DEF Lookup
    <3>3. QED
      BY <3>1, <3>2, ReplayIsSettled
  <2>2. CASE ~ReplyExisting(r)
    BY <2>2, <1>5 DEF Lookup, Goto, Reply, IInv, TypeOK, AnswersAreSettled
  <2>3. QED
    BY <2>1, <2>2
<1>6. ASSUME NEW r \in Requests, Connect(r) PROVE AnswersAreSettled'
  BY <1>6 DEF Connect, Goto, IInv, TypeOK, AnswersAreSettled, RoundsOK, PhaseOK
<1>7. ASSUME NEW r \in Requests, LockSession(r) PROVE AnswersAreSettled'
  BY <1>7 DEF LockSession, Goto, Reply, IInv, TypeOK, AnswersAreSettled, RoundsOK, PhaseOK
<1>8. ASSUME NEW r \in Requests, PurgeHeld(r) PROVE AnswersAreSettled'
  BY <1>8 DEF PurgeHeld, Reply, DeleteIfExpired, IInv, TypeOK, AnswersAreSettled, RoundsOK, PhaseOK
<1>9. ASSUME NEW r \in Requests, LockKey(r) PROVE AnswersAreSettled'
  BY <1>9 DEF LockKey, Goto, IInv, TypeOK, AnswersAreSettled, RoundsOK, PhaseOK
<1>10. ASSUME NEW r \in Requests, Replay(r) PROVE AnswersAreSettled'
  <2>1. PICK x \in Existing(r) :
          IF x.bet = req[r].bet THEN Reply(r, "replay", {x}) ELSE Reply(r, "conflict", {})
    BY <1>10 DEF Replay, ReplyExisting
  <2>2. UNCHANGED <<rounds, owner, req>>
    BY <1>10 DEF Replay
  <2>3. QED
    BY <2>1, <2>2, ReplayIsSettled
<1>11. ASSUME NEW r \in Requests, LockWallet(r) PROVE AnswersAreSettled'
  BY <1>11 DEF LockWallet, CannotPay, Goto, Reply, IInv, TypeOK, AnswersAreSettled, RoundsOK, PhaseOK
<1>12. ASSUME NEW r \in Requests, RateLimited(r) PROVE AnswersAreSettled'
  BY <1>12 DEF RateLimited, Reply, IInv, TypeOK, AnswersAreSettled, RoundsOK, PhaseOK
<1>13. ASSUME NEW r \in Requests, Settle(r) PROVE AnswersAreSettled'
  BY <1>13 DEF Settle, CannotPay, Goto, Reply, IInv, TypeOK, AnswersAreSettled, RoundsOK, PhaseOK
<1>14. ASSUME NEW r \in Requests, Settled(r) PROVE AnswersAreSettled'
  BY <1>14 DEF Settled, Publish, IInv, TypeOK, AnswersAreSettled
<1>15. ASSUME NEW r \in Requests, Respond(r) PROVE AnswersAreSettled'
  BY <1>15 DEF Respond, Reply, IInv, TypeOK, AnswersAreSettled, RoundsOK, PhaseOK
<1>16. ASSUME NEW r \in Requests, Fail(r) PROVE AnswersAreSettled'
  BY <1>16 DEF Fail, Reply, UnknownOutcome, IInv, TypeOK, AnswersAreSettled, RoundsOK, PhaseOK
<1>17. ASSUME NEW r \in Requests, NEW payout \in Payouts, Draw(r, payout) PROVE AnswersAreSettled'
  BY <1>17 DEF Draw, Goto, IInv, TypeOK, AnswersAreSettled, RoundsOK, PhaseOK
<1>18. CASE UNCHANGED <<requestVars, moneyVars>>
  BY <1>18 DEF IInv, TypeOK, AnswersAreSettled, RoundsOK, PhaseOK
<1>19. ASSUME NEW r \in Requests, LoseCommit(r) PROVE AnswersAreSettled'
  BY <1>19 DEF LoseCommit, Goto, IInv, TypeOK, AnswersAreSettled, RoundsOK, PhaseOK
<1>20. ASSUME NEW r \in Requests, RolledBack(r) PROVE AnswersAreSettled'
  BY <1>20 DEF RolledBack, Goto, IInv, TypeOK, AnswersAreSettled, RoundsOK, PhaseOK
<1>21. QED
  BY <1>1, <1>2, <1>3, <1>4, <1>5, <1>6, <1>7, <1>8, <1>9, <1>10, <1>11,
     <1>12, <1>13, <1>14, <1>15, <1>16, <1>17, <1>18, <1>19, <1>20,
     NextCases, SessionsLeave
  DEF vars

(* Only Commit writes the round of a request, and Commit leads to the answer *)
(* "round", or to "failed" when the connection is lost after it.             *)
LEMMA RefusalStep == IInv /\ [Next]_vars => RefusalSettlesNothing'
<1> SUFFICES ASSUME IInv, [Next]_vars PROVE RefusalSettlesNothing'
  OBVIOUS
<1> USE DEF PCs, SessionPCs, KeyPCs, WalletPCs, HousePCs, OwnedPCs, ValidPCs, NoRoundPCs, requestVars, sessionVars, moneyVars
<1>1. ASSUME NEW r \in Requests, NEW a \in Ask, Send(r, a) PROVE RefusalSettlesNothing'
  BY <1>1 DEF Send, Goto, IInv, TypeOK, RefusalSettlesNothing, RoundsOK, PhaseOK
<1>2. ASSUME NEW r \in Requests, GetSession(r) PROVE RefusalSettlesNothing'
  BY <1>2 DEF GetSession, Goto, IInv, TypeOK, RefusalSettlesNothing, RoundsOK, PhaseOK
<1>3. ASSUME NEW r \in Requests, Hydrate(r) PROVE RefusalSettlesNothing'
  BY <1>3 DEF Hydrate, Goto, Reply, IInv, TypeOK, RefusalSettlesNothing, RoundsOK, PhaseOK
<1>4. ASSUME NEW r \in Requests, Purge(r) PROVE RefusalSettlesNothing'
  BY <1>4 DEF Purge, Reply, DeleteIfExpired, IInv, TypeOK, RefusalSettlesNothing, RoundsOK, PhaseOK
<1>5. ASSUME NEW r \in Requests, Lookup(r) PROVE RefusalSettlesNothing'
  BY <1>5 DEF Lookup, Goto, Reply, ReplyExisting, Existing, IInv, TypeOK, RefusalSettlesNothing, RoundsOK, PhaseOK
<1>6. ASSUME NEW r \in Requests, Connect(r) PROVE RefusalSettlesNothing'
  BY <1>6 DEF Connect, Goto, IInv, TypeOK, RefusalSettlesNothing, RoundsOK, PhaseOK
<1>7. ASSUME NEW r \in Requests, LockSession(r) PROVE RefusalSettlesNothing'
  BY <1>7 DEF LockSession, Goto, Reply, IInv, TypeOK, RefusalSettlesNothing, RoundsOK, PhaseOK
<1>8. ASSUME NEW r \in Requests, PurgeHeld(r) PROVE RefusalSettlesNothing'
  BY <1>8 DEF PurgeHeld, Reply, DeleteIfExpired, IInv, TypeOK, RefusalSettlesNothing, RoundsOK, PhaseOK
<1>9. ASSUME NEW r \in Requests, LockKey(r) PROVE RefusalSettlesNothing'
  BY <1>9 DEF LockKey, Goto, IInv, TypeOK, RefusalSettlesNothing, RoundsOK, PhaseOK
<1>10. ASSUME NEW r \in Requests, Replay(r) PROVE RefusalSettlesNothing'
  BY <1>10 DEF Replay, Reply, ReplyExisting, Existing, Touch, IInv, TypeOK, RefusalSettlesNothing, RoundsOK, PhaseOK
<1>11. ASSUME NEW r \in Requests, LockWallet(r) PROVE RefusalSettlesNothing'
  BY <1>11 DEF LockWallet, CannotPay, Goto, Reply, IInv, TypeOK, RefusalSettlesNothing, RoundsOK, PhaseOK
<1>12. ASSUME NEW r \in Requests, RateLimited(r) PROVE RefusalSettlesNothing'
  BY <1>12 DEF RateLimited, Reply, IInv, TypeOK, RefusalSettlesNothing, RoundsOK, PhaseOK
<1>13. ASSUME NEW r \in Requests, Settle(r) PROVE RefusalSettlesNothing'
  BY <1>13 DEF Settle, CannotPay, Goto, Reply, IInv, TypeOK, RefusalSettlesNothing, RoundsOK, PhaseOK
<1>14. ASSUME NEW r \in Requests, Settled(r) PROVE RefusalSettlesNothing'
  <2>1. PICK payout \in draw[r] : rounds' = rounds \cup {Settlement(r, payout)}
    BY <1>14 DEF Settled, Publish
  <2>2. answer[r] \in {"none", "failed"} /\ UNCHANGED answer
    BY <1>14 DEF Settled, Publish, Goto, IInv, PhaseOK, TypeOK
  <2>3. Settlement(r, payout).id = r
    BY DEF Settlement
  <2>4. QED
    BY <2>1, <2>2, <2>3 DEF IInv, RefusalSettlesNothing
<1>15. ASSUME NEW r \in Requests, Respond(r) PROVE RefusalSettlesNothing'
  BY <1>15 DEF Respond, Reply, IInv, TypeOK, RefusalSettlesNothing, RoundsOK, PhaseOK
<1>16. ASSUME NEW r \in Requests, Fail(r) PROVE RefusalSettlesNothing'
  BY <1>16 DEF Fail, Reply, UnknownOutcome, IInv, TypeOK, RefusalSettlesNothing, RoundsOK, PhaseOK
<1>17. ASSUME NEW r \in Requests, NEW payout \in Payouts, Draw(r, payout) PROVE RefusalSettlesNothing'
  BY <1>17 DEF Draw, Goto, IInv, TypeOK, RefusalSettlesNothing, RoundsOK, PhaseOK
<1>18. CASE UNCHANGED <<requestVars, moneyVars>>
  BY <1>18 DEF IInv, TypeOK, RefusalSettlesNothing, RoundsOK, PhaseOK
<1>19. ASSUME NEW r \in Requests, LoseCommit(r) PROVE RefusalSettlesNothing'
  BY <1>19 DEF LoseCommit, Goto, IInv, TypeOK, RefusalSettlesNothing, RoundsOK, PhaseOK
<1>20. ASSUME NEW r \in Requests, RolledBack(r) PROVE RefusalSettlesNothing'
  BY <1>20 DEF RolledBack, Goto, IInv, TypeOK, RefusalSettlesNothing, RoundsOK, PhaseOK
<1>21. QED
  BY <1>1, <1>2, <1>3, <1>4, <1>5, <1>6, <1>7, <1>8, <1>9, <1>10, <1>11,
     <1>12, <1>13, <1>14, <1>15, <1>16, <1>17, <1>18, <1>19, <1>20,
     NextCases, SessionsLeave
  DEF vars

(* The row lock keeps rotation, deletion and the upgrade of a guest away from *)
(* the session of a running transaction.                                      *)
LEMMA SessionStep == IInv /\ [Next]_vars => PlaysOnOwnSession'
<1> SUFFICES ASSUME IInv, [Next]_vars PROVE PlaysOnOwnSession'
  OBVIOUS
<1> USE DEF PCs, SessionPCs, KeyPCs, WalletPCs, HousePCs, OwnedPCs, ValidPCs, NoRoundPCs, requestVars, sessionVars, moneyVars
<1>1. ASSUME NEW r \in Requests, NEW a \in Ask, Send(r, a) PROVE PlaysOnOwnSession'
  BY <1>1 DEF Send, Goto, IInv, TypeOK, PlaysOnOwnSession, Account, Ask
<1>2. ASSUME NEW r \in Requests, GetSession(r) PROVE PlaysOnOwnSession'
  <2>1. pc'[r] \notin SessionPCs /\ \A q \in Requests \ {r} : pc'[q] = pc[q]
    BY <1>2 DEF GetSession, Goto, IInv, TypeOK
  <2>2. \A s \in SessionIds : state[s] \in {"live", "expired"} => state'[s] \in {"live", "expired"}
    BY <1>2 DEF GetSession, Touch, IInv, TypeOK
  <2>3. /\ \A q \in Requests \ {r} : owner'[q] = owner[q]
        /\ UNCHANGED <<req, account, auth>>
    BY <1>2 DEF GetSession, IInv, TypeOK
  <2>4. QED
    BY <2>1, <2>2, <2>3 DEF IInv, TypeOK, Ask, PlaysOnOwnSession, Account
<1>3. ASSUME NEW r \in Requests, Hydrate(r) PROVE PlaysOnOwnSession'
  BY <1>3 DEF Hydrate, Goto, Reply, IInv, TypeOK, PlaysOnOwnSession, Account, Ask
<1>4. ASSUME NEW r \in Requests, Purge(r) PROVE PlaysOnOwnSession'
  BY <1>4 DEF Purge, Reply, DeleteIfExpired, SessionFree, IInv, TypeOK, PlaysOnOwnSession, Account, Ask
<1>5. ASSUME NEW r \in Requests, Lookup(r) PROVE PlaysOnOwnSession'
  BY <1>5 DEF Lookup, Goto, Reply, ReplyExisting, Existing, IInv, TypeOK, PlaysOnOwnSession, Account, Ask
<1>6. ASSUME NEW r \in Requests, Connect(r) PROVE PlaysOnOwnSession'
  BY <1>6 DEF Connect, Goto, IInv, TypeOK, PlaysOnOwnSession, Account, Ask
<1>7. ASSUME NEW r \in Requests, LockSession(r) PROVE PlaysOnOwnSession'
  <2>1. UNCHANGED <<req, owner, sessionVars>> /\ \A q \in Requests \ {r} : pc'[q] = pc[q]
    BY <1>7 DEF LockSession, Goto, Reply, IInv, TypeOK
  <2>2. ASSUME pc'[r] \in SessionPCs
        PROVE  Selects(r) /\ Account(r) = owner[r]
    BY <2>2, <1>7 DEF LockSession, Goto, Reply, IInv, TypeOK
  <2>3. QED
    BY <2>1, <2>2 DEF Selects, Authorized, Account, IInv, PlaysOnOwnSession
<1>8. ASSUME NEW r \in Requests, PurgeHeld(r) PROVE PlaysOnOwnSession'
  BY <1>8 DEF PurgeHeld, Reply, DeleteIfExpired, SessionFree, IInv, TypeOK, PlaysOnOwnSession, Account, Ask
<1>9. ASSUME NEW r \in Requests, LockKey(r) PROVE PlaysOnOwnSession'
  BY <1>9 DEF LockKey, Goto, IInv, TypeOK, PlaysOnOwnSession, Account, Ask
<1>10. ASSUME NEW r \in Requests, Replay(r) PROVE PlaysOnOwnSession'
  BY <1>10 DEF Replay, Reply, ReplyExisting, Existing, Touch, IInv, TypeOK, PlaysOnOwnSession, Account, Ask
<1>11. ASSUME NEW r \in Requests, LockWallet(r) PROVE PlaysOnOwnSession'
  BY <1>11 DEF LockWallet, CannotPay, Goto, Reply, IInv, TypeOK, PlaysOnOwnSession, Account, Ask
<1>12. ASSUME NEW r \in Requests, RateLimited(r) PROVE PlaysOnOwnSession'
  BY <1>12 DEF RateLimited, Reply, IInv, TypeOK, PlaysOnOwnSession, Account, Ask
<1>13. ASSUME NEW r \in Requests, Settle(r) PROVE PlaysOnOwnSession'
  BY <1>13 DEF Settle, CannotPay, Goto, Reply, IInv, TypeOK, PlaysOnOwnSession, Account, Ask
<1>14. ASSUME NEW r \in Requests, Settled(r) PROVE PlaysOnOwnSession'
  <2>1. pc'[r] \notin SessionPCs /\ \A q \in Requests \ {r} : pc'[q] = pc[q]
    BY <1>14 DEF Settled, Publish, Goto, IInv, TypeOK
  <2>2. \A s \in SessionIds : state[s] \in {"live", "expired"} => state'[s] \in {"live", "expired"}
    BY <1>14 DEF Settled, Publish, Touch, IInv, TypeOK
  <2>3. UNCHANGED <<req, owner, account, auth>>
    BY <1>14 DEF Settled
  <2>4. QED
    BY <2>1, <2>2, <2>3 DEF IInv, TypeOK, Ask, PlaysOnOwnSession, Account
<1>15. ASSUME NEW r \in Requests, Respond(r) PROVE PlaysOnOwnSession'
  BY <1>15 DEF Respond, Reply, IInv, TypeOK, PlaysOnOwnSession, Account, Ask
<1>16. ASSUME NEW r \in Requests, Fail(r) PROVE PlaysOnOwnSession'
  BY <1>16 DEF Fail, Reply, UnknownOutcome, IInv, TypeOK, PlaysOnOwnSession, Account, Ask
<1>17. ASSUME NEW r \in Requests, NEW payout \in Payouts, Draw(r, payout) PROVE PlaysOnOwnSession'
  BY <1>17 DEF Draw, Goto, IInv, TypeOK, PlaysOnOwnSession, Account, Ask
<1>18. ASSUME NEW s \in SessionIds, Expire(s) PROVE PlaysOnOwnSession'
  BY <1>18 DEF Expire, IInv, TypeOK, PlaysOnOwnSession, Account, Ask
<1>19. ASSUME NEW s \in SessionIds, PruneExpired(s) PROVE PlaysOnOwnSession'
  BY <1>19 DEF PruneExpired, DeleteIfExpired, SessionFree, IInv, TypeOK, PlaysOnOwnSession, Account, Ask
<1>20. ASSUME NEW s \in SessionIds, Invalidate(s) PROVE PlaysOnOwnSession'
  BY <1>20 DEF Invalidate, SessionFree, IInv, TypeOK, PlaysOnOwnSession, Account, Ask
<1>21. ASSUME NEW s \in SessionIds, RequireAuth(s) PROVE PlaysOnOwnSession'
  BY <1>21 DEF RequireAuth, SessionFree, IInv, TypeOK, PlaysOnOwnSession, Account, Ask
<1>22. ASSUME NEW s \in SessionIds, NEW t \in SessionIds, Rotate(s, t) PROVE PlaysOnOwnSession'
  BY <1>22 DEF Rotate, SessionFree, IInv, TypeOK, PlaysOnOwnSession, Account, Ask
<1>23. ASSUME NEW s \in SessionIds, NEW a \in Accounts, OpenForAccount(s, a) PROVE PlaysOnOwnSession'
  BY <1>23 DEF OpenForAccount, SessionFree, IInv, TypeOK, PlaysOnOwnSession, Account, Ask
<1>24. CASE UNCHANGED vars
  BY <1>24 DEF vars, IInv, TypeOK, PlaysOnOwnSession, Account, Ask
<1>25. ASSUME NEW r \in Requests, LoseCommit(r) PROVE PlaysOnOwnSession'
  BY <1>25 DEF LoseCommit, Goto, IInv, TypeOK, PlaysOnOwnSession, Account, Ask
<1>26. ASSUME NEW r \in Requests, RolledBack(r) PROVE PlaysOnOwnSession'
  BY <1>26 DEF RolledBack, Goto, IInv, TypeOK, PlaysOnOwnSession, Account, Ask
<1>27. QED
  BY <1>1, <1>2, <1>3, <1>4, <1>5, <1>6, <1>7, <1>8, <1>9, <1>10, <1>11,
     <1>12, <1>13, <1>14, <1>15, <1>16, <1>17, <1>18, <1>19, <1>20, <1>21,
     <1>22, <1>23, <1>24, <1>25, <1>26, NextCases
  DEF SessionStatement

(* Every session that was issued has an account. *)
LEMMA SessionRowStep == IInv /\ [Next]_vars => SessionsOK'
<1> SUFFICES ASSUME IInv, [Next]_vars PROVE SessionsOK'
  OBVIOUS
<1> USE DEF PCs, SessionPCs, KeyPCs, WalletPCs, HousePCs, OwnedPCs, ValidPCs, NoRoundPCs, requestVars, sessionVars, moneyVars
<1>1. ASSUME NEW r \in Requests, NEW a \in Ask, Send(r, a) PROVE SessionsOK'
  BY <1>1 DEF Send, Goto, IInv, TypeOK, SessionsOK, Ask
<1>2. ASSUME NEW r \in Requests, GetSession(r) PROVE SessionsOK'
  <2>1. UNCHANGED account /\ \A s \in SessionIds : state'[s] # "unused" => state[s] # "unused"
    BY <1>2 DEF GetSession, Selects, Touch, IInv, TypeOK, Ask
  <2>2. QED
    BY <2>1 DEF IInv, SessionsOK
<1>3. ASSUME NEW r \in Requests, Hydrate(r) PROVE SessionsOK'
  BY <1>3 DEF Hydrate, Goto, Reply, IInv, TypeOK, SessionsOK, Ask
<1>4. ASSUME NEW r \in Requests, Purge(r) PROVE SessionsOK'
  BY <1>4 DEF Purge, Reply, DeleteIfExpired, IInv, TypeOK, SessionsOK, Ask
<1>5. ASSUME NEW r \in Requests, Lookup(r) PROVE SessionsOK'
  BY <1>5 DEF Lookup, Goto, Reply, ReplyExisting, Existing, IInv, TypeOK, SessionsOK, Ask
<1>6. ASSUME NEW r \in Requests, Connect(r) PROVE SessionsOK'
  BY <1>6 DEF Connect, Goto, IInv, TypeOK, SessionsOK, Ask
<1>7. ASSUME NEW r \in Requests, LockSession(r) PROVE SessionsOK'
  BY <1>7 DEF LockSession, Goto, Reply, IInv, TypeOK, SessionsOK, Ask
<1>8. ASSUME NEW r \in Requests, PurgeHeld(r) PROVE SessionsOK'
  BY <1>8 DEF PurgeHeld, Reply, DeleteIfExpired, IInv, TypeOK, SessionsOK, Ask
<1>9. ASSUME NEW r \in Requests, LockKey(r) PROVE SessionsOK'
  BY <1>9 DEF LockKey, Goto, IInv, TypeOK, SessionsOK, Ask
<1>10. ASSUME NEW r \in Requests, Replay(r) PROVE SessionsOK'
  <2>1. state[req[r].session] \in {"live", "expired"}
    BY <1>10 DEF Replay, IInv, PlaysOnOwnSession, SessionPCs
  <2>2. UNCHANGED account /\ \A s \in SessionIds : state'[s] # "unused" => state[s] # "unused"
    BY <2>1, <1>10 DEF Replay, Touch, IInv, TypeOK, Ask
  <2>3. QED
    BY <2>2 DEF IInv, SessionsOK
<1>11. ASSUME NEW r \in Requests, LockWallet(r) PROVE SessionsOK'
  BY <1>11 DEF LockWallet, CannotPay, Goto, Reply, IInv, TypeOK, SessionsOK, Ask
<1>12. ASSUME NEW r \in Requests, RateLimited(r) PROVE SessionsOK'
  BY <1>12 DEF RateLimited, Reply, IInv, TypeOK, SessionsOK, Ask
<1>13. ASSUME NEW r \in Requests, Settle(r) PROVE SessionsOK'
  BY <1>13 DEF Settle, CannotPay, Goto, Reply, IInv, TypeOK, SessionsOK, Ask
<1>14. ASSUME NEW r \in Requests, Settled(r) PROVE SessionsOK'
  <2>1. state[req[r].session] \in {"live", "expired"}
    BY <1>14 DEF Settled, Publish, Goto, IInv, PlaysOnOwnSession, SessionPCs, KeyPCs, WalletPCs, HousePCs
  <2>2. UNCHANGED account /\ \A s \in SessionIds : state'[s] # "unused" => state[s] # "unused"
    BY <2>1, <1>14 DEF Settled, Publish, Touch, IInv, TypeOK, Ask
  <2>3. QED
    BY <2>2 DEF IInv, SessionsOK
<1>15. ASSUME NEW r \in Requests, Respond(r) PROVE SessionsOK'
  BY <1>15 DEF Respond, Reply, IInv, TypeOK, SessionsOK, Ask
<1>16. ASSUME NEW r \in Requests, Fail(r) PROVE SessionsOK'
  BY <1>16 DEF Fail, Reply, UnknownOutcome, IInv, TypeOK, SessionsOK, Ask
<1>17. ASSUME NEW r \in Requests, NEW payout \in Payouts, Draw(r, payout) PROVE SessionsOK'
  BY <1>17 DEF Draw, Goto, IInv, TypeOK, SessionsOK, Ask
<1>18. ASSUME NEW s \in SessionIds, Expire(s) PROVE SessionsOK'
  BY <1>18 DEF Expire, IInv, TypeOK, SessionsOK, Ask
<1>19. ASSUME NEW s \in SessionIds, PruneExpired(s) PROVE SessionsOK'
  BY <1>19 DEF PruneExpired, DeleteIfExpired, IInv, TypeOK, SessionsOK, Ask
<1>20. ASSUME NEW s \in SessionIds, Invalidate(s) PROVE SessionsOK'
  BY <1>20 DEF Invalidate, IInv, TypeOK, SessionsOK, Ask
<1>21. ASSUME NEW s \in SessionIds, RequireAuth(s) PROVE SessionsOK'
  BY <1>21 DEF RequireAuth, IInv, TypeOK, SessionsOK, Ask
<1>22. ASSUME NEW s \in SessionIds, NEW t \in SessionIds, Rotate(s, t) PROVE SessionsOK'
  BY <1>22 DEF Rotate, IInv, TypeOK, SessionsOK, Ask
<1>23. ASSUME NEW s \in SessionIds, NEW a \in Accounts, OpenForAccount(s, a) PROVE SessionsOK'
  BY <1>23 DEF OpenForAccount, IInv, TypeOK, SessionsOK, Ask
<1>24. CASE UNCHANGED vars
  BY <1>24 DEF vars, IInv, TypeOK, SessionsOK, Ask
<1>25. ASSUME NEW r \in Requests, LoseCommit(r) PROVE SessionsOK'
  BY <1>25 DEF LoseCommit, Goto, IInv, TypeOK, SessionsOK, Ask
<1>26. ASSUME NEW r \in Requests, RolledBack(r) PROVE SessionsOK'
  BY <1>26 DEF RolledBack, Goto, IInv, TypeOK, SessionsOK, Ask
<1>27. QED
  BY <1>1, <1>2, <1>3, <1>4, <1>5, <1>6, <1>7, <1>8, <1>9, <1>10, <1>11,
     <1>12, <1>13, <1>14, <1>15, <1>16, <1>17, <1>18, <1>19, <1>20, <1>21,
     <1>22, <1>23, <1>24, <1>25, <1>26, NextCases
  DEF SessionStatement

-----------------------------------------------------------------------------
(* The invariant *)

(* Nothing is locked, drawn or answered before the first request. *)
LEMMA InitInvariant == Init => IInv
<1> SUFFICES ASSUME Init PROVE IInv
  OBVIOUS
<1>1. TypeOK
  BY TypeInit
<1>2. SessionsOK
  BY SessionAssumption DEF Init, SessionsOK
<1>3. LocksExclusive /\ PlaysOnOwnSession
  BY DEF Init, LocksExclusive, PlaysOnOwnSession, SessionPCs, KeyPCs, WalletPCs, HousePCs
<1>4. PhaseOK
  BY DEF Init, PhaseOK, OwnedPCs, ValidPCs, NoRoundPCs, WalletPCs, HousePCs, Drawn, PCs
<1>5. RoundsOK /\ OneRoundPerKey /\ AnswersAreSettled /\ RefusalSettlesNothing
  BY DEF Init, RoundsOK, OneRoundPerKey, AnswersAreSettled, RefusalSettlesNothing
<1>6. QED
  BY <1>1, <1>2, <1>3, <1>4, <1>5 DEF IInv

(* Every reachable state satisfies the inductive invariant. *)
THEOREM Invariant == Spec => []IInv
<1>1. IInv /\ [Next]_vars => IInv'
  BY TypeStep, SessionRowStep, LocksStep, PhaseStep, RoundsStep, OneRoundStep,
     AnswersStep, RefusalStep, SessionStep
  DEF IInv
<1>2. QED
  BY InitInvariant, <1>1, PTL DEF Spec

(* No wallet goes negative and every table keeps its type: two transactions *)
(* never spend the same units.                                              *)
THEOREM TypeCorrect == Spec => []TypeOK
<1>1. IInv => TypeOK
  BY DEF IInv
<1>2. QED
  BY Invariant, <1>1, PTL

(* One settled round per account and key, through any sessions and retries. *)
THEOREM RoundsUnique == Spec => []OneRoundPerKey
<1>1. IInv => OneRoundPerKey
  BY DEF IInv
<1>2. QED
  BY Invariant, <1>1, PTL

(* Two requests with live draws would both hold the key, or one of them would *)
(* have drawn beside the committed round of the other.                        *)
THEOREM DrawnOnce == Spec => []OneLiveDraw
<1>1. ASSUME IInv PROVE OneLiveDraw
  <2> SUFFICES ASSUME NEW q \in Requests, NEW r \in Requests, q # r,
                      Drawn(q), Drawn(r), SameRound(q, r),
                      ~Abandoned(q), ~Abandoned(r)
               PROVE  FALSE
    BY DEF OneLiveDraw
  <2> DEFINE HasRound(p) == \E x \in rounds : x.id = p
             InTransaction(p) == pc[p] \in {"settle", "commit", "inDoubt"}
  <2>1. \A p \in {q, r} : InTransaction(p) \/ HasRound(p)
    BY <1>1 DEF IInv, PhaseOK, RoundsOK, Abandoned
  <2>2. ~(InTransaction(q) /\ InTransaction(r))
    BY <1>1 DEF IInv, LocksExclusive, KeyPCs, WalletPCs, HousePCs
  <2>3. \A p \in {q, r} : InTransaction(p) => Existing(p) = {}
    BY <1>1 DEF IInv, PhaseOK, NoRoundPCs
  <2>4. \A p \in {q, r} : \A x \in rounds :
          x.id = p => x \in Existing(q) /\ x \in Existing(r)
    BY <1>1 DEF IInv, RoundsOK, Existing, SameRound
  <2>5. HasRound(q) /\ HasRound(r)
    BY <2>1, <2>2, <2>3, <2>4
  <2>6. QED
    BY <1>1, <2>4, <2>5 DEF IInv, OneRoundPerKey, Existing
<1>2. QED
  BY Invariant, <1>1, PTL

(* What a client is shown is a committed round of its own key and bet. *)
THEOREM AnswersSettled == Spec => []AnswersAreSettled
<1>1. IInv => AnswersAreSettled
  BY DEF IInv
<1>2. QED
  BY Invariant, <1>1, PTL

(* A refusal is final: the request refused has no round. *)
THEOREM RefusalFinal == Spec => []RefusalSettlesNothing
<1>1. IInv => RefusalSettlesNothing
  BY DEF IInv
<1>2. QED
  BY Invariant, <1>1, PTL

(* The session under a transaction neither disappears nor changes hands. *)
THEOREM OwnSession == Spec => []PlaysOnOwnSession
<1>1. IInv => PlaysOnOwnSession
  BY DEF IInv
<1>2. QED
  BY Invariant, <1>1, PTL

-----------------------------------------------------------------------------
(* Money *)

(* Sums are of finite sets: a run settles one round at a time. *)
MoneyInv == IsFiniteSet(rounds) /\ MoneyMatchesRounds

(* Another round adds its net to the sum. *)
LEMMA NetAdds ==
  ASSUME NEW S, IsFiniteSet(S), NEW e, e \notin S,
         \A x \in S \cup {e} : x.payout \in Int /\ x.bet \in Int
  PROVE  Net(S) \in Int /\ Net(S \cup {e}) = Net(S) + (e.payout - e.bet)
<1> DEFINE T == S \cup {e}
           f == [x \in S |-> x.payout - x.bet]
           g == [x \in T |-> x.payout - x.bet]
<1>1. /\ \A x \in T : g[x] \in Int
      /\ \A x \in S : f[x] = g[x] /\ f[x] \in Int
      /\ g[e] = e.payout - e.bet
  OBVIOUS
<1>2. Net(S) = SumFunctionOnSet(f, S) /\ Net(T) = SumFunctionOnSet(g, T)
  BY DEF Net
<1> HIDE DEF f, g
<1>3. SumFunctionOnSet(f, S) \in Int
  BY <1>1, SumInt
<1>4. SumFunctionOnSet(g, T) = g[e] + SumFunctionOnSet(g, S)
  BY <1>1, SumAdd
<1>5. SumFunctionOnSet(g, S) = SumFunctionOnSet(f, S)
  BY <1>1, SumSame
<1>6. g[e] \in Int
  BY <1>1
<1> QED
  BY <1>1, <1>2, <1>3, <1>4, <1>5, <1>6

(* A COMMIT adds one round, and moves the wallet and the house by its net. The *)
(* balance the round stores is the wallet's after all rounds of its account.   *)
LEMMA MoneySettled ==
  ASSUME IInv, IInv', MoneyInv, NEW r \in Requests, Settled(r)
  PROVE  MoneyInv'
<1>1. PICK payout \in draw[r] :
        /\ rounds' = rounds \cup {Settlement(r, payout)}
        /\ balance' = [balance EXCEPT ![owner[r]] = balance[owner[r]] - req[r].bet + payout]
        /\ house' = house + req[r].bet - payout
  BY DEF Settled, Publish
<1>2. pc[r] \in {"commit", "inDoubt"}
  BY DEF Settled, Publish, Goto
<1>3. PICK a \in Accounts : a = owner[r]
  BY <1>2 DEF IInv, PhaseOK, OwnedPCs, PCs
<1>4. PICK bet : bet = req[r].bet
  OBVIOUS
<1>5. PICK e : e = Settlement(r, payout)
  OBVIOUS
<1>6. /\ e.id = r /\ e.account = a /\ e.bet = bet /\ e.payout = payout
      /\ e.balance = balance[a] - bet + payout
  BY <1>3, <1>4, <1>5 DEF Settlement
<1>7. e \notin rounds
  BY <1>2, <1>6 DEF IInv, RoundsOK
<1>8. /\ rounds' = rounds \cup {e}
      /\ balance' = [balance EXCEPT ![a] = balance[a] - bet + payout]
      /\ house' = house + bet - payout
  BY <1>1, <1>3, <1>4, <1>5
<1>9. payout \in Int /\ bet \in Int /\ StartingBalance \in Int
  BY <1>4, BetsAssumption, PayoutsAssumption, BalanceAssumption DEF IInv, TypeOK, Ask
<1>10. balance \in [Accounts -> Int] /\ house \in Int
  BY DEF IInv, TypeOK
<1>11. \A x \in rounds \cup {e} : x.payout \in Int /\ x.bet \in Int
  BY <1>6, <1>9 DEF IInv, TypeOK, Row
<1>12. IsFiniteSet(rounds) /\ MoneyMatchesRounds
  BY DEF MoneyInv
<1>13. ASSUME NEW S \in SUBSET rounds
       PROVE  Net(S) \in Int /\ Net(S \cup {e}) = Net(S) + (payout - bet)
  <2>1. IsFiniteSet(S)
    BY <1>12, FS_Subset
  <2>2. Net(S) \in Int /\ Net(S \cup {e}) = Net(S) + (e.payout - e.bet)
    BY <1>7, <1>11, <2>1, NetAdds
  <2> QED
    BY <1>6, <2>2
<1> DEFINE Old(b) == {x \in rounds : x.account = b}
           New(b) == {x \in rounds' : x.account = b}
<1>14. /\ \A b \in Accounts : balance[b] = StartingBalance + Net(Old(b))
       /\ house = -Net(rounds)
       /\ \A x \in rounds : \E S \in SUBSET Old(x.account) : x \in S /\ x.balance = StartingBalance + Net(S)
  BY <1>12 DEF MoneyMatchesRounds, RoundsOf
<1>15. New(a) = Old(a) \cup {e} /\ \A b : b # a => New(b) = Old(b)
  BY <1>6, <1>8
<1>16. \A b : Old(b) \in SUBSET rounds /\ Old(b) \subseteq New(b)
  BY <1>8
<1> HIDE DEF Old, New
<1>17. balance'[a] = StartingBalance + Net(New(a))
  BY <1>8, <1>9, <1>10, <1>13, <1>14, <1>15, <1>16
<1>18. \A b \in Accounts : balance'[b] = StartingBalance + Net(New(b))
  BY <1>8, <1>10, <1>14, <1>15, <1>17
<1>19. house' = -Net(rounds')
  BY <1>8, <1>9, <1>10, <1>13, <1>14
<1>20. ASSUME NEW x \in rounds'
       PROVE  \E S \in SUBSET New(x.account) : x \in S /\ x.balance = StartingBalance + Net(S)
  <2>1. CASE x = e
    <3>1. x \in New(a) /\ x.account = a
      BY <1>6, <1>15, <2>1
    <3>2. x.balance = StartingBalance + Net(New(a))
      BY <1>6, <1>8, <1>10, <1>17, <2>1
    <3> QED
      BY <3>1, <3>2
  <2>2. CASE x \in rounds
    BY <1>14, <1>16, <2>2
  <2> QED
    BY <1>8, <2>1, <2>2
<1>21. IsFiniteSet(rounds')
  BY <1>8, <1>12, FS_AddElement
<1>22. MoneyMatchesRounds'
  BY <1>18, <1>19, <1>20 DEF MoneyMatchesRounds, RoundsOf, New
<1> QED
  BY <1>21, <1>22 DEF MoneyInv

(* Only a COMMIT moves money. *)
LEMMA MoneyStep == IInv /\ IInv' /\ MoneyInv /\ [Next]_vars => MoneyInv'
<1> SUFFICES ASSUME IInv, IInv', MoneyInv, [Next]_vars PROVE MoneyInv'
  OBVIOUS
<1>1. CASE UNCHANGED <<rounds, balance, house>>
  BY <1>1 DEF MoneyInv, MoneyMatchesRounds, RoundsOf
<1>2. CASE \E r \in Requests : Settled(r)
  BY <1>2, MoneySettled
<1>3. ASSUME NEW r \in Requests,
             \/ \E a \in Ask : Send(r, a)
             \/ GetSession(r) \/ Hydrate(r) \/ Purge(r) \/ Lookup(r) \/ Connect(r)
             \/ LockSession(r) \/ PurgeHeld(r) \/ LockKey(r) \/ Replay(r) \/ LockWallet(r)
             \/ \E payout \in Payouts : Draw(r, payout)
             \/ RateLimited(r) \/ Settle(r) \/ RolledBack(r) \/ LoseCommit(r)
             \/ Respond(r) \/ Fail(r)
      PROVE  UNCHANGED <<rounds, balance, house>>
  BY <1>3 DEF Send, GetSession, Hydrate, Purge, Lookup, Connect, LockSession, PurgeHeld, LockKey, Replay,
              LockWallet, Draw, RateLimited, Settle, RolledBack, LoseCommit, Respond, Fail, moneyVars
<1> QED
  BY <1>1, <1>2, <1>3, NextCases, SessionsLeave DEF vars, moneyVars

(* No committed round is missing from a balance and none is in it twice, with any   *)
(* number of rounds, accounts and retries.                                          *)
THEOREM MoneyIsRounds == Spec => []MoneyMatchesRounds
<1>1. Init => MoneyInv
  <2> SUFFICES ASSUME Init PROVE MoneyInv
    OBVIOUS
  <2>1. rounds = {} /\ house = 0 /\ balance = [a \in Accounts |-> StartingBalance]
    BY DEF Init
  <2>2. Net({}) = 0
    BY SumEmpty DEF Net
  <2>3. \A a \in Accounts : RoundsOf(a) = {}
    BY <2>1 DEF RoundsOf
  <2> QED
    BY <2>1, <2>2, <2>3, FS_EmptySet, BalanceAssumption DEF MoneyInv, MoneyMatchesRounds
<1>2. MoneyInv => MoneyMatchesRounds
  BY DEF MoneyInv
<1> QED
  BY Invariant, MoneyStep, <1>1, <1>2, PTL DEF Spec

-----------------------------------------------------------------------------
(* GameRound implements SpinPromise *)

PromiseStep == [Promise!Next]_Promise!vars

(* A reply that is not the request's own round is an answer of the promise. *)
LEMMA ReplyIsAnswer ==
  ASSUME IInv, NEW r \in Requests, pc[r] \notin {"respond", "inDoubt", "done"},
         NEW kind, NEW row, Reply(r, kind, row), UNCHANGED moneyVars,
         \/ kind \in {"refused", "failed"} /\ row = {}
         \/ kind = "conflict" /\ row = {} /\ rounds # {}
         \/ kind = "replay" /\ \E x \in rounds : row = {x}
  PROVE  PromiseStep
<1>1. answer[r] = "none"
  BY DEF IInv, PhaseOK
<1>2. \A x \in rounds : x.id # r
  BY DEF IInv, RoundsOK
<1>3. Promise!Tell(r, kind, row)
  BY <1>1 DEF Promise!Tell, Reply, moneyVars
<1>4. Promise!Answer(r)
  BY <1>2, <1>3 DEF Promise!Answer, Promise!OwnRound
<1>5. QED
  BY <1>4 DEF PromiseStep, Promise!Next

(* Every step is a step of the promise or changes nothing it speaks of. *)
LEMMA StepKeepsPromise == IInv /\ [Next]_vars => PromiseStep
<1> SUFFICES ASSUME IInv, [Next]_vars PROVE PromiseStep
  OBVIOUS
<1> USE DEF requestVars, sessionVars, moneyVars
<1>1. ASSUME NEW r \in Requests, NEW a \in Ask, Send(r, a) PROVE PromiseStep
  BY <1>1 DEF Send, Goto, PromiseStep, Promise!vars
<1>2. ASSUME NEW r \in Requests, GetSession(r) PROVE PromiseStep
  BY <1>2 DEF GetSession, Goto, PromiseStep, Promise!vars
<1>3. ASSUME NEW r \in Requests, Hydrate(r) PROVE PromiseStep
  <2>1. CASE req[r].bet \notin AllowedBets
    <3>1. Reply(r, "refused", {}) /\ UNCHANGED moneyVars /\ pc[r] \notin {"respond", "inDoubt", "done"}
      BY <2>1, <1>3 DEF Hydrate
    <3>2. QED
      BY <3>1, ReplyIsAnswer
  <2>2. CASE ~(req[r].bet \notin AllowedBets)
    BY <2>2, <1>3 DEF Hydrate, PromiseStep, Promise!vars
  <2>3. QED
    BY <2>1, <2>2
<1>4. ASSUME NEW r \in Requests, Purge(r) PROVE PromiseStep
  <2>1. Reply(r, "refused", {}) /\ UNCHANGED moneyVars /\ pc[r] \notin {"respond", "inDoubt", "done"}
    BY <1>4 DEF Purge
  <2>2. QED
    BY <2>1, ReplyIsAnswer DEF UnknownOutcome
<1>5. ASSUME NEW r \in Requests, Lookup(r) PROVE PromiseStep
  <2>1. CASE ReplyExisting(r)
    <3>1. PICK x \in Existing(r) :
             IF x.bet = req[r].bet THEN Reply(r, "replay", {x}) ELSE Reply(r, "conflict", {})
      BY <2>1 DEF ReplyExisting, Lookup
    <3>2. UNCHANGED moneyVars /\ pc[r] \notin {"respond", "inDoubt", "done"} /\ x \in rounds
      BY <1>5 DEF Lookup, Existing
    <3>3. CASE x.bet = req[r].bet
      BY <3>1, <3>2, <3>3, ReplyIsAnswer
    <3>4. CASE x.bet # req[r].bet
      BY <3>1, <3>2, <3>4, ReplyIsAnswer
    <3>5. QED
      BY <3>3, <3>4
  <2>2. CASE ~ReplyExisting(r) /\ seen[r] < req[r].bet
    <3>1. Reply(r, "refused", {}) /\ UNCHANGED moneyVars /\ pc[r] \notin {"respond", "inDoubt", "done"}
      BY <2>2, <1>5 DEF Lookup
    <3>2. QED
      BY <3>1, ReplyIsAnswer
  <2>3. CASE ~ReplyExisting(r) /\ ~(seen[r] < req[r].bet)
    BY <2>3, <1>5 DEF Lookup, PromiseStep, Promise!vars
  <2>4. QED
    BY <2>1, <2>2, <2>3
<1>6. ASSUME NEW r \in Requests, Connect(r) PROVE PromiseStep
  BY <1>6 DEF Connect, Goto, PromiseStep, Promise!vars
<1>7. ASSUME NEW r \in Requests, LockSession(r) PROVE PromiseStep
  <2>1. pc[r] = "lockSession" /\ UNCHANGED moneyVars
    BY <1>7 DEF LockSession
  <2>2. CASE Reply(r, "refused", {})
    BY <2>1, <2>2, ReplyIsAnswer
  <2>3. CASE UNCHANGED <<answer, told>>
    BY <2>1, <2>3 DEF PromiseStep, Promise!vars
  <2>4. QED
    BY <2>2, <2>3, <1>7 DEF LockSession
<1>8. ASSUME NEW r \in Requests, PurgeHeld(r) PROVE PromiseStep
  <2>1. Reply(r, "refused", {}) /\ UNCHANGED moneyVars /\ pc[r] \notin {"respond", "inDoubt", "done"}
    BY <1>8 DEF PurgeHeld
  <2>2. QED
    BY <2>1, ReplyIsAnswer DEF UnknownOutcome
<1>9. ASSUME NEW r \in Requests, LockKey(r) PROVE PromiseStep
  BY <1>9 DEF LockKey, Goto, PromiseStep, Promise!vars
<1>10. ASSUME NEW r \in Requests, Replay(r) PROVE PromiseStep
  <2>1. PICK x \in Existing(r) :
           IF x.bet = req[r].bet THEN Reply(r, "replay", {x}) ELSE Reply(r, "conflict", {})
    BY <1>10 DEF ReplyExisting, Replay
  <2>2. UNCHANGED moneyVars /\ pc[r] \notin {"respond", "inDoubt", "done"} /\ x \in rounds
    BY <1>10 DEF Replay, Existing
  <2>3. CASE x.bet = req[r].bet
    BY <2>1, <2>2, <2>3, ReplyIsAnswer
  <2>4. CASE x.bet # req[r].bet
    BY <2>1, <2>2, <2>4, ReplyIsAnswer
  <2>5. QED
    BY <2>3, <2>4
<1>11. ASSUME NEW r \in Requests, LockWallet(r) PROVE PromiseStep
  <2>1. CASE balance[owner[r]] < req[r].bet
    <3>1. Reply(r, "refused", {}) /\ UNCHANGED moneyVars /\ pc[r] \notin {"respond", "inDoubt", "done"}
      BY <2>1, <1>11 DEF LockWallet, CannotPay
    <3>2. QED
      BY <3>1, ReplyIsAnswer
  <2>2. CASE ~(balance[owner[r]] < req[r].bet)
    BY <2>2, <1>11 DEF LockWallet, CannotPay, PromiseStep, Promise!vars
  <2>3. QED
    BY <2>1, <2>2
<1>12. ASSUME NEW r \in Requests, RateLimited(r) PROVE PromiseStep
  <2>1. Reply(r, "refused", {}) /\ UNCHANGED moneyVars /\ pc[r] \notin {"respond", "inDoubt", "done"}
    BY <1>12 DEF RateLimited
  <2>2. QED
    BY <2>1, ReplyIsAnswer DEF UnknownOutcome
<1>13. ASSUME NEW r \in Requests, Settle(r) PROVE PromiseStep
  <2>1. CASE balance[owner[r]] < req[r].bet
    <3>1. Reply(r, "refused", {}) /\ UNCHANGED moneyVars /\ pc[r] \notin {"respond", "inDoubt", "done"}
      BY <2>1, <1>13 DEF Settle, CannotPay
    <3>2. QED
      BY <3>1, ReplyIsAnswer
  <2>2. CASE ~(balance[owner[r]] < req[r].bet)
    BY <2>2, <1>13 DEF Settle, CannotPay, PromiseStep, Promise!vars
  <2>3. QED
    BY <2>1, <2>2
<1>14. ASSUME NEW r \in Requests, Settled(r) PROVE PromiseStep
  <2>1. PICK payout \in draw[r] :
          /\ rounds' = rounds \cup {Settlement(r, payout)}
          /\ balance' = [balance EXCEPT ![owner[r]] = balance[owner[r]] - req[r].bet + payout]
          /\ house' = house + req[r].bet - payout
    BY <1>14 DEF Settled, Publish
  <2>2. pc[r] \in {"commit", "inDoubt"} /\ UNCHANGED <<answer, told>>
    BY <1>14 DEF Settled, Publish, Goto
  <2>3. owner[r] \in Accounts /\ req[r].key \in Keys /\ payout \in Payouts
    BY <2>2 DEF IInv, TypeOK, PhaseOK, OwnedPCs, PCs, Ask
  <2>4. req[r].bet \in Bets /\ 0 < req[r].bet /\ req[r].bet <= balance[owner[r]]
    <3>1. req[r].bet \in AllowedBets /\ req[r].bet <= balance[owner[r]]
      BY <2>2 DEF IInv, PhaseOK, ValidPCs, OwnedPCs, WalletPCs, HousePCs, PCs
    <3>2. \A b \in AllowedBets : b \in Bets /\ b \in Nat /\ b # 0
      BY BetsAssumption
    <3>3. req[r].bet \in Bets /\ req[r].bet \in Nat /\ req[r].bet # 0
      BY <3>1, <3>2
    <3>4. QED
      BY <3>1, <3>3
  <2>5. answer[r] \in {"none", "failed"} /\ \A x \in rounds : x.id # r
    BY <2>2 DEF IInv, TypeOK, PhaseOK, RoundsOK
  <2>6. \A x \in rounds : ~(x.account = owner[r] /\ x.key = req[r].key)
    BY <2>2 DEF IInv, PhaseOK, NoRoundPCs, Existing
  <2>7. Promise!Settle(r, owner[r], req[r].key, req[r].bet, payout)
    BY <2>1, <2>2, <2>4, <2>5, <2>6 DEF Promise!Settle, Settlement
  <2>8. QED
    BY <2>3, <2>4, <2>7 DEF PromiseStep, Promise!Next
<1>15. ASSUME NEW r \in Requests, Respond(r) PROVE PromiseStep
  <2>1. Promise!Tell(r, "round", {x \in rounds : x.id = r})
    BY <1>15 DEF Respond, Reply, Promise!Tell, IInv, PhaseOK
  <2>2. {x \in rounds : x.id = r} # {}
    BY <1>15 DEF Respond, IInv, RoundsOK
  <2>3. QED
    BY <2>1, <2>2 DEF PromiseStep, Promise!Next, Promise!Answer, Promise!OwnRound
<1>16. ASSUME NEW r \in Requests, Fail(r) PROVE PromiseStep
  <2>1. Reply(r, "failed", {}) /\ UNCHANGED moneyVars /\ pc[r] \notin {"inDoubt", "done"}
    BY <1>16 DEF Fail, UnknownOutcome
  <2>2. Promise!Tell(r, "failed", {})
    BY <2>1 DEF Promise!Tell, Reply, IInv, PhaseOK
  <2>3. QED
    BY <2>2 DEF PromiseStep, Promise!Next, Promise!Answer
<1>17. ASSUME NEW r \in Requests, NEW payout \in Payouts, Draw(r, payout) PROVE PromiseStep
  BY <1>17 DEF Draw, Goto, PromiseStep, Promise!vars
<1>18. CASE UNCHANGED <<requestVars, moneyVars>>
  BY <1>18 DEF requestVars, moneyVars, PromiseStep, Promise!vars
<1>19. ASSUME NEW r \in Requests, LoseCommit(r) PROVE PromiseStep
  <2>1. answer[r] = "none" /\ told[r] = {} /\ told \in [Requests -> SUBSET Row]
    BY <1>19 DEF LoseCommit, Goto, IInv, TypeOK, PhaseOK
  <2>2. told' = [told EXCEPT ![r] = {}]
    BY <2>1, <1>19 DEF LoseCommit
  <2>3. Promise!Tell(r, "failed", {})
    BY <2>1, <2>2, <1>19 DEF LoseCommit, Promise!Tell
  <2>4. QED
    BY <2>3 DEF PromiseStep, Promise!Next, Promise!Answer
<1>20. ASSUME NEW r \in Requests, RolledBack(r) PROVE PromiseStep
  BY <1>20 DEF RolledBack, Goto, PromiseStep, Promise!vars
<1>21. QED
  BY <1>1, <1>2, <1>3, <1>4, <1>5, <1>6, <1>7, <1>8, <1>9, <1>10, <1>11,
     <1>12, <1>13, <1>14, <1>15, <1>16, <1>17, <1>18, <1>19, <1>20,
     NextCases, SessionsLeave
  DEF vars

(* Sessions, locks, retries, rollbacks and lost answers implement the promise. *)
THEOREM Implementation == Spec => ImplementsPromise
<1>1. Init => Promise!Init
  BY DEF Init, Promise!Init
<1>2. IInv /\ [Next]_vars => [Promise!Next]_Promise!vars
  BY StepKeepsPromise DEF PromiseStep
<1>3. QED
  BY Invariant, <1>1, <1>2, PTL DEF Spec, ImplementsPromise, Promise!Spec

================================================================================
