----------------------------- MODULE AuditTrail -----------------------------
(* The audit log (server/auditLog.js) between the requests that write to it   *)
(* and the shutdown that waits for it (server/index.js, CasinoService.close). *)
(*                                                                            *)
(* A call is a request for an effect that commits at most once, a payment     *)
(* operation or one of its transitions: two calls for the same effect are a   *)
(* request and its retry.  The handler commits, then records one event,       *)
(* then answers.  record prints the event and leaves a write to audit_events  *)
(* behind that nobody awaits before the shutdown does.                        *)
(*                                                                            *)
(* On the first signal the server stops listening and waits until every       *)
(* connection is closed, not until every handler has returned: a handler      *)
(* whose caller hung up goes on, while the writes are flushed and the pool    *)
(* is ended.  A second signal of the same kind, like a crash, kills.          *)
EXTENDS Naturals, FiniteSets

CONSTANTS Calls,        \* requests, each sent at most once
          Effects,      \* what they ask for
          EffectOf,     \* the effect each call asks for
          MaxStarts     \* bound: times the server is started

TrailAssumption ==
  /\ EffectOf \in [Calls -> Effects]
  /\ MaxStarts \in Nat \ {0}

VARIABLES process,      \* the server process
          starts,       \* times it was started
          call,         \* where the handler of each call is
          open,         \* calls whose connection is open
          effects,      \* effects committed to the database
          lines,        \* calls whose event was printed
          rows,         \* calls whose event is in audit_events
          write,        \* the write each recorded event left behind
          waiting       \* the writes the flush waits for

vars == <<process, starts, call, open, effects, lines, rows, write, waiting>>

TypeOK ==
  /\ process \in {"up", "closing", "flushing", "ending", "exited", "killed"}
  /\ starts \in 1..MaxStarts
  /\ call \in [Calls -> {"unsent", "asked", "committed", "accepted",
                         "replayed", "failed", "unheard", "gone"}]
  /\ open \subseteq Calls
  /\ effects \subseteq Effects
  /\ rows \subseteq lines /\ lines \subseteq Calls
  /\ write \in [Calls -> {"none", "flying", "late", "landed", "stored",
                          "failed", "gone"}]
  /\ lines = {r \in Calls : write[r] # "none"}
  /\ waiting \subseteq lines

Init ==
  /\ process = "up"
  /\ starts = 1
  /\ call = [r \in Calls |-> "unsent"]
  /\ open = {}
  /\ effects = {}
  /\ lines = {}
  /\ rows = {}
  /\ write = [r \in Calls |-> "none"]
  /\ waiting = {}

Pending == {r \in Calls : write[r] \in {"flying", "late", "landed"}}

Working == {r \in Calls : call[r] \in {"asked", "committed"}}

Alive == process \in {"up", "closing", "flushing", "ending"}

\* What the caller hears if the connection is still there.
Heard(r, answer) == IF r \in open THEN answer ELSE "unheard"

----------------------------------------------------------------------------
\* A request arrives on a new connection, or on one still open when the
\* server no longer listens, and its handler takes a client of the pool.
Begin(r) ==
  /\ call[r] = "unsent"
  /\ process = "up" \/ (process = "closing" /\ open # {})
  /\ call' = [call EXCEPT ![r] = "asked"]
  /\ open' = open \cup {r}
  /\ UNCHANGED <<process, starts, effects, lines, rows, write, waiting>>

\* The transaction commits in the database; the handler does not know yet.
Commit(r) ==
  /\ Alive
  /\ call[r] = "asked"
  /\ EffectOf[r] \notin effects
  /\ effects' = effects \cup {EffectOf[r]}
  /\ call' = [call EXCEPT ![r] = "committed"]
  /\ UNCHANGED <<process, starts, open, lines, rows, write, waiting>>

Recorded(r) ==
  /\ lines' = lines \cup {r}
  /\ write' = [write EXCEPT ![r] = IF process = "ending" THEN "late" ELSE "flying"]

ReplayAndRecord(r) ==
  /\ Alive
  /\ call[r] = "asked"
  /\ EffectOf[r] \in effects
  /\ call' = [call EXCEPT ![r] = Heard(r, "replayed")]
  /\ Recorded(r)
  /\ UNCHANGED <<process, starts, open, effects, rows, waiting>>

\* The effect is there already: the stored answer is given again, and
\* nothing is recorded.
Replay(r) ==
  /\ Alive
  /\ call[r] = "asked"
  /\ EffectOf[r] \in effects
  /\ call' = [call EXCEPT ![r] = Heard(r, "replayed")]
  /\ UNCHANGED <<process, starts, open, effects, lines, rows, write, waiting>>

ThrowAndRecord(r) ==
  /\ Alive
  /\ call[r] \in {"asked", "committed"}
  /\ call' = [call EXCEPT ![r] = Heard(r, "failed")]
  /\ Recorded(r)
  /\ UNCHANGED <<process, starts, open, effects, rows, waiting>>

\* The transaction is refused or rolled back, or the answer to COMMIT is
\* lost: the handler throws either way.
Throw(r) ==
  /\ Alive
  /\ call[r] \in {"asked", "committed"}
  /\ call' = [call EXCEPT ![r] = Heard(r, "failed")]
  /\ UNCHANGED <<process, starts, open, effects, lines, rows, write, waiting>>

\* COMMIT has answered: record, release the client, answer.  record prints
\* the event and starts the write, which finds the pool ended or not.
Record(r) ==
  /\ Alive
  /\ call[r] = "committed"
  /\ call' = [call EXCEPT ![r] = Heard(r, "accepted")]
  /\ Recorded(r)
  /\ UNCHANGED <<process, starts, open, effects, rows, waiting>>

\* The connection ends: the caller gives up, or it stayed idle too long.
HangUp(r) ==
  /\ Alive
  /\ r \in open
  /\ open' = open \ {r}
  /\ UNCHANGED <<process, starts, call, effects, lines, rows, write, waiting>>

----------------------------------------------------------------------------
\* The INSERT into audit_events takes effect.
Land(r) ==
  /\ Alive
  /\ write[r] = "flying"
  /\ rows' = rows \cup {r}
  /\ write' = [write EXCEPT ![r] = "landed"]
  /\ UNCHANGED <<process, starts, call, open, effects, lines, waiting>>

SettleAndRetry(r) ==
  /\ Alive
  /\ write[r] = "landed"
  /\ write' = [write EXCEPT ![r] = "flying"]
  /\ UNCHANGED <<process, starts, call, open, effects, lines, rows, waiting>>

\* It answers, and the write is no longer pending.
Settle(r) ==
  /\ Alive
  /\ write[r] = "landed"
  /\ write' = [write EXCEPT ![r] = "stored"]
  /\ UNCHANGED <<process, starts, call, open, effects, lines, rows, waiting>>

FailForgotten(r) ==
  /\ Alive
  /\ write[r] \in {"flying", "late", "landed"}
  /\ write' = [write EXCEPT ![r] = "none"]
  /\ UNCHANGED <<process, starts, call, open, effects, lines, rows, waiting>>

\* It fails, before or after it took effect, or finds the pool ended: a
\* persistence_error line, and the write is no longer pending.
Fail(r) ==
  /\ Alive
  /\ write[r] \in {"flying", "late", "landed"}
  /\ write' = [write EXCEPT ![r] = "failed"]
  /\ UNCHANGED <<process, starts, call, open, effects, lines, rows, waiting>>

----------------------------------------------------------------------------
\* The first SIGINT or SIGTERM: the server stops listening.
Signal ==
  /\ process = "up"
  /\ process' = "closing"
  /\ UNCHANGED <<starts, call, open, effects, lines, rows, write, waiting>>

CloseAtOnce ==
  /\ process = "closing"
  /\ process' = "flushing"
  /\ waiting' = Pending
  /\ UNCHANGED <<starts, call, open, effects, lines, rows, write>>

\* The last connection is closed: flush waits for the writes pending now.
Close ==
  /\ process = "closing"
  /\ open = {}
  /\ process' = "flushing"
  /\ waiting' = Pending
  /\ UNCHANGED <<starts, call, open, effects, lines, rows, write>>

\* They have settled: the pool is ended, which admits nobody any more.
Flushed ==
  /\ process = "flushing"
  /\ waiting \cap Pending = {}
  /\ process' = "ending"
  /\ waiting' = {}
  /\ UNCHANGED <<starts, call, open, effects, lines, rows, write>>

\* Its last client came back: process.exit(0).
Exit ==
  /\ process = "ending"
  /\ Working = {}
  /\ \A r \in Pending : write[r] = "late"
  /\ process' = "exited"
  /\ UNCHANGED <<starts, call, open, effects, lines, rows, write, waiting>>

\* A crash, or the same signal again.
Kill ==
  /\ Alive
  /\ process' = "killed"
  /\ open' = {}
  /\ waiting' = {}
  /\ UNCHANGED <<starts, call, effects, lines, rows, write>>

\* The next start knows nothing of the calls and writes of the last process.
Start ==
  /\ process \in {"exited", "killed"}
  /\ starts < MaxStarts
  /\ starts' = starts + 1
  /\ process' = "up"
  /\ call' = [r \in Calls |-> IF r \in Working THEN "gone" ELSE call[r]]
  /\ write' = [r \in Calls |-> IF r \in Pending THEN "gone" ELSE write[r]]
  /\ open' = {}
  /\ UNCHANGED <<effects, lines, rows, waiting>>

Handler(r) == Commit(r) \/ Replay(r) \/ Throw(r) \/ Record(r)

Writing(r) == Land(r) \/ Settle(r) \/ Fail(r)

Next ==
  \/ \E r \in Calls : Begin(r) \/ Handler(r) \/ HangUp(r) \/ Writing(r)
  \/ Signal \/ Close \/ Flushed \/ Exit \/ Kill \/ Start

Spec == Init /\ [][Next]_vars

----------------------------------------------------------------------------
(* An orderly exit (index.js:126-132) leaves no event of an answered request *)
(* undecided: it is in audit_events or its failure was printed.  What a      *)
(* process that was killed left behind is excepted, and so are handlers      *)
(* whose caller had hung up.                                                 *)
AnsweredIsKept ==
  process = "exited" =>
    \A r \in Calls : call[r] = "accepted" => write[r] \in {"stored", "failed", "gone"}

(* The trail tells each effect once, whatever is retried, killed or lost *)
(* (sandboxPaymentService.js records after COMMIT and not on a replay).  *)
ToldOnce ==
  \A r, s \in lines : EffectOf[r] = EffectOf[s] => r = s

(* It tells nothing that did not happen: every event is of an effect that *)
(* committed (the record stands behind COMMIT, not before it).            *)
TellsWhatHappened == \A r \in lines : EffectOf[r] \in effects

(* What the trail tells has happened, and it tells it once. *)
TrailIsTrue == TypeOK /\ ToldOnce /\ TellsWhatHappened
=============================================================================
