-------------------------- MODULE ProviderWebhooks --------------------------
(* The provider's webhook (server/sandboxPaymentHttpServer.js) in front of  *)
(* the transitions of sandbox payments, which the staff makes as well.      *)
(*                                                                          *)
(* The provider (external) has a list of events for each operation.  It     *)
(* signs an event with the time of its clock and sends it, in any order and *)
(* again and again, until it is told that the event was accepted.  What it  *)
(* sent stays on the wire: it may arrive late, twice, after a later event,  *)
(* or never.  Signatures are right, so an envelope is an event and a time.  *)
(* transition, whose statements SandboxPayments has, is one step here.      *)
EXTENDS PaymentRules, Sequences, SequencesExt

CONSTANTS Ops,          \* payment operations
          Kind,         \* the kind of each
          Script,       \* the actions the provider reports for each, in order
          Workers,      \* requests the server handles at a time
          Tolerance,    \* toleranceSeconds, in ticks
          Skew,         \* how far the clock of the provider may be off
          MaxTime,      \* bound: the clock of the server stops there
          StaffActions, \* what the staff does
          None

WebhooksAssumption ==
  /\ Kind \in [Ops -> Kinds]
  /\ Script \in [Ops -> Seq(Actions)]
  /\ Tolerance \in Nat /\ Skew \in Nat /\ MaxTime \in Nat
  /\ StaffActions \subseteq Actions

\* A provider has to report what the rules let happen to an operation, from
\* its creation on.
ScriptAssumption ==
  \A o \in Ops : \E path \in [0..Len(Script[o]) -> Statuses] :
    /\ path[0] = Initial(Kind[o])
    /\ \A n \in 1..Len(Script[o]) : Rule(Kind[o], path[n - 1], Script[o][n], path[n]) \in Table

\* An event is known by its operation and its place in the list.
Events == UNION {[op : {o}, n : 1..Len(Script[o])] : o \in Ops}

ActionOf(e) == Script[e.op][e.n]

\* The staff makes up ids of its own; one id does for all of them.
StaffEvent(o) == [op |-> o, n |-> 0]

VARIABLES now,          \* Date.now() of the server
          wire,         \* envelopes sent, any of which may still arrive
          told,         \* events the provider knows to be accepted
          worker,       \* the verified event each request is about
          status,       \* of the operations
          applied       \* payment_events: for each operation, in order

vars == <<now, wire, told, worker, status, applied>>

TypeOK ==
  /\ now \in 0..MaxTime
  /\ wire \subseteq [event : Events, at : (0 - Skew)..(MaxTime + Skew)]
  /\ told \subseteq Events
  /\ worker \in [Workers -> Events \cup {None}]
  /\ status \in [Ops -> Statuses]
  /\ \A o \in Ops :
       /\ \A i \in 1..Len(applied[o]) : applied[o][i] \in Events \cup {StaffEvent(o)}
       /\ applied[o] = <<>> <=> status[o] = Initial(Kind[o])

Init ==
  /\ now = 0
  /\ wire = {}
  /\ told = {}
  /\ worker = [w \in Workers |-> None]
  /\ status = [o \in Ops |-> Initial(Kind[o])]
  /\ applied = [o \in Ops |-> <<>>]

\* driftMs is not greater than the tolerance, in either direction.
Within(at) == (IF now > at THEN now - at ELSE at - now) <= Tolerance

RulesFromAnyStatus(o, action) == {r \in Table : r.kind = Kind[o] /\ r.action = action}

\* SANDBOX_PAYMENT_ACTIONS[kind][status][action]: one rule or none.
Rules(o, action) ==
  {r \in Table : r.kind = Kind[o] /\ r.from = status[o] /\ r.action = action}

IsReplay(e) == Contains(applied[e.op], e)

\* The status and the row of the event, in one transaction.
Change(o, action, e) ==
  \E r \in Rules(o, action) :
    /\ status' = [status EXCEPT ![o] = r.to]
    /\ applied' = [applied EXCEPT ![o] = Append(@, e)]

Free(w) == worker' = [worker EXCEPT ![w] = None]

\* The answer reaches the provider or does not.
Answered(e) == told' \in {told, told \cup {e}}

----------------------------------------------------------------------------
\* The provider signs an event and sends it.
Send(e) ==
  /\ e \notin told
  /\ \E at \in (now - Skew)..(now + Skew) :
       wire' = wire \cup {[event |-> e, at |-> at]}
  /\ UNCHANGED <<now, told, worker, status, applied>>

\* An envelope arrives.  One outside the tolerance is answered 401 and
\* forgotten; the event of another becomes a transition.
Receive(w, e) ==
  /\ worker[w] = None
  /\ \E m \in wire : m.event = e /\ Within(m.at)
  /\ worker' = [worker EXCEPT ![w] = e]
  /\ UNCHANGED <<now, wire, told, status, applied>>

\* The event is allowed now: 200.
Accept(w) ==
  LET e == worker[w] IN
  /\ e # None
  /\ ~IsReplay(e)
  /\ Change(e.op, ActionOf(e), e)
  /\ Answered(e)
  /\ Free(w)
  /\ UNCHANGED <<now, wire>>

RefuseReplay(w) ==
  LET e == worker[w] IN
  /\ e # None
  /\ IsReplay(e)
  /\ Free(w)
  /\ UNCHANGED <<now, wire, told, status, applied>>

\* The event has been applied before: 200 with replayed.
Replay(w) ==
  LET e == worker[w] IN
  /\ e # None
  /\ IsReplay(e)
  /\ Answered(e)
  /\ Free(w)
  /\ UNCHANGED <<now, wire, status, applied>>

AnswerRefusal(w) ==
  LET e == worker[w] IN
  /\ e # None
  /\ ~IsReplay(e)
  /\ Rules(e.op, ActionOf(e)) = {}
  /\ Answered(e)
  /\ Free(w)
  /\ UNCHANGED <<now, wire, status, applied>>

\* It is not allowed from the status of now: 409 INVALID_PAYMENT_TRANSITION.
Refuse(w) ==
  LET e == worker[w] IN
  /\ e # None
  /\ ~IsReplay(e)
  /\ Rules(e.op, ActionOf(e)) = {}
  /\ Free(w)
  /\ UNCHANGED <<now, wire, told, status, applied>>

\* The staff's own route to transition.
Decide(o, action) ==
  /\ Change(o, action, StaffEvent(o))
  /\ UNCHANGED <<now, wire, told, worker>>

Tick ==
  /\ now < MaxTime
  /\ now' = now + 1
  /\ UNCHANGED <<wire, told, worker, status, applied>>

Handle(w) == Accept(w) \/ Replay(w) \/ Refuse(w)

Next ==
  \/ \E e \in Events : Send(e) \/ \E w \in Workers : Receive(w, e)
  \/ \E w \in Workers : Handle(w)
  \/ \E o \in Ops, action \in StaffActions : Decide(o, action)
  \/ Tick

Spec == Init /\ [][Next]_vars

\* The server finishes an event it has received and the provider hears the
\* answer, as one that goes on sending some day does.
Heard(e) == \E w \in Workers : worker[w] = e /\ Handle(w) /\ told' = told \cup {e}

----------------------------------------------------------------------------
(* The provider's events take effect in the order in which it lists them, *)
(* each at most once, however they arrive and whatever the staff does in  *)
(* between (docs/PRODUCT_DELIVERY_OS.md:139, duplicate and out-of-order   *)
(* events safe).                                                          *)
InProviderOrder ==
  \A o \in Ops : \A i, j \in 1..Len(applied[o]) :
    i < j /\ applied[o][i].n # 0 /\ applied[o][j].n # 0 =>
      applied[o][i].n < applied[o][j].n

(* What the provider was told to be accepted has taken effect: an event that *)
(* came too early is never taken off its hands.                              *)
ToldIsApplied == \A e \in told : IsReplay(e)
=============================================================================
