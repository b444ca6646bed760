---------------------------- MODULE RateLimiter ----------------------------
(* The sliding window of server/rateLimiter.js, as the two limiters of the  *)
(* server use it: one keyed by the DEMO session for rounds                  *)
(* (casinoService.js), one keyed by the address of the connection for       *)
(* everything that takes a password or a token (httpServer.js), which       *)
(* several callers behind one address share.                                *)
(*                                                                          *)
(* An entry of the Map is a timestamp.  The model numbers the admissions of *)
(* a key and keeps their timestamps for ever in admitted, a history; the    *)
(* array the limiter keeps is the set of numbers events[k].  A call of      *)
(* consume is synchronous, hence one step.  The clock does not go back.     *)
EXTENDS Naturals, Sequences, FiniteSets

CONSTANTS Callers,      \* those who send requests
          Keys,         \* what the requests are counted by
          KeyOf,        \* the key of each caller
          Limit,        \* requests a window admits
          Window,       \* length of the window, in ticks of the clock
          MaxTime,      \* bound: the clock stops there
          None

LimiterAssumption ==
  /\ Limit \in Nat \ {0}
  /\ Window \in Nat \ {0}
  /\ MaxTime \in Nat
  /\ KeyOf \in [Callers -> Keys]
  /\ None \notin Nat

VARIABLES now,          \* Date.now()
          admitted,     \* for each key the times of its admissions, in order
          events,       \* this.events: the admissions the Map still holds
          told          \* for each caller the time it was told to wait for

vars == <<now, admitted, events, told>>

TypeOK ==
  /\ now \in Nat
  /\ admitted \in [Keys -> Seq(Nat)]
  /\ events \in [Keys -> SUBSET Nat]
  /\ \A k \in Keys : events[k] \subseteq 1..Len(admitted[k])
  /\ told \in [Callers -> Nat \cup {None}]

Init ==
  /\ now = 0
  /\ admitted = [k \in Keys |-> <<>>]
  /\ events = [k \in Keys |-> {}]
  /\ told = [c \in Callers |-> None]

RecentWithEdge(k) == {i \in events[k] : admitted[k][i] + Window >= now}

\* The entries younger than the window: (entry) => entry > cutoff.
Recent(k) == {i \in events[k] : admitted[k][i] + Window > now}

RoomForOneMore(k) == Cardinality(Recent(k)) <= Limit

Room(k) == Cardinality(Recent(k)) < Limit

FreeByTheNewest(k) ==
  LET last == CHOOSE i \in Recent(k) : \A j \in Recent(k) : j <= i
  IN  admitted[k][last] + Window

\* When a refused caller may come again: the time the oldest entry of the
\* window leaves it.  The code answers the distance to now, at least 1; an
\* entry of the window is never that close to leaving it.
FreeAgain(k) ==
  LET first == CHOOSE i \in Recent(k) : \A j \in Recent(k) : i <= j
  IN  admitted[k][first] + Window

----------------------------------------------------------------------------
AdmitWithoutPruning(c) ==
  LET k == KeyOf[c] IN
  /\ Room(k)
  /\ admitted' = [admitted EXCEPT ![k] = Append(@, now)]
  /\ events' = [events EXCEPT ![k] = @ \cup {Len(admitted[k]) + 1}]
  /\ told' = [d \in Callers |-> IF KeyOf[d] = k THEN None ELSE told[d]]
  /\ UNCHANGED now

\* consume with room in the window: the request goes on.
Admit(c) ==
  LET k == KeyOf[c] IN
  /\ Room(k)
  /\ admitted' = [admitted EXCEPT ![k] = Append(@, now)]
  /\ events' = [events EXCEPT ![k] = Recent(k) \cup {Len(admitted[k]) + 1}]
  /\ told' = [d \in Callers |-> IF KeyOf[d] = k THEN None ELSE told[d]]
  /\ UNCHANGED now

\* consume without room: 429 RATE_LIMITED or AUTH_RATE_LIMITED with
\* retryAfterMs.  The refusal itself is not an entry.
Refuse(c) ==
  LET k == KeyOf[c] IN
  /\ ~Room(k)
  /\ events' = [events EXCEPT ![k] = Recent(k)]
  /\ told' = [told EXCEPT ![c] = FreeAgain(k)]
  /\ UNCHANGED <<now, admitted>>

Tick ==
  /\ now < MaxTime
  /\ now' = now + 1
  /\ UNCHANGED <<admitted, events, told>>

Next ==
  \/ \E c \in Callers : Admit(c) \/ Refuse(c)
  \/ Tick

Spec == Init /\ [][Next]_vars

----------------------------------------------------------------------------
(* Among any Limit + 1 consecutive admissions of a key the first and the  *)
(* last are a whole window apart, wherever the window is laid: forgetting *)
(* old entries (rateLimiter.js:12) never forgets one that still counts.   *)
WindowHolds ==
  \A k \in Keys : \A i, j \in 1..Len(admitted[k]) :
     j >= i + Limit => admitted[k][j] >= admitted[k][i] + Window

(* The Map holds at most Limit entries of a key, however many requests are *)
(* refused (rateLimiter.js:16).                                            *)
EntriesBounded == \A k \in Keys : Cardinality(events[k]) <= Limit

(* Whoever shares a key, its windows admit no request too many, and what is *)
(* remembered of it does not grow with what is refused.                     *)
LimitHolds == TypeOK /\ WindowHolds /\ EntriesBounded

(* A refusal means that the caller's own key had Limit admissions in the    *)
(* window before it: neither refusals nor other keys use up its window      *)
(* (rateLimiter.js:14 with the keys of casinoService.js and httpServer.js). *)
FullWhenRefused(c) ==
  Refuse(c) => LET k == KeyOf[c]
               IN  Cardinality({i \in 1..Len(admitted[k]) : admitted[k][i] + Window > now}) = Limit

(* And retryAfterMs is exact (rateLimiter.js:15). Unless another caller of  *)
(* the key got in first, one that comes back when it was told to is let in, *)
(* and nobody gets in before the time it was told.                          *)
WaitingIsEnough(c) ==
  /\ Refuse(c) => told[c] = None \/ now < told[c]
  /\ Admit(c) => told[c] = None \/ now >= told[c]

(* Nobody is refused, or made to wait longer, without reason. *)
RefusalIsJust == \A c \in Callers : FullWhenRefused(c) /\ WaitingIsEnough(c)
=============================================================================
