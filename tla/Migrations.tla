----------------------------- MODULE Migrations -----------------------------
(* runMigrations (server/migrations.js): starts of the server, and runs of  *)
(* db:migrate, that bring one PostgreSQL database up to the files of their  *)
(* release, at the same time and in any order of releases.                  *)
(*                                                                          *)
(* Files are numbered by the order of their sorted names; a release has the *)
(* files 1..Release[i], for files are only ever added behind the others.    *)
(* Each start keeps one connection.  PostgreSQL gives the advisory lock to  *)
(* one connection at a time and takes it back, with the open transaction,   *)
(* when the connection is lost.                                             *)
EXTENDS Naturals, Sequences

CONSTANTS Starts,       \* processes that call runMigrations, each once
          Release,      \* how many migration files the release of each has
          Nobody        \* the lock is free

MigrationsAssumption ==
  /\ Release \in [Starts -> Nat]
  /\ Nobody \notin Starts

VARIABLES pc,           \* where each start is
          lock,         \* the connection that holds the advisory lock
          seen,         \* applied: the files each start read as applied
          at,           \* name: the file the loop of each start is at
          tx,           \* the file its open transaction applies, 0: none
          ran,          \* history: the files applied, in order of COMMIT
          cause         \* why a start failed

vars == <<pc, lock, seen, at, tx, ran, cause>>

Applied == {ran[k] : k \in 1..Len(ran)}

TypeOK ==
  /\ pc \in [Starts -> {"off", "locking", "reading", "scanning", "inserting",
                        "committing", "unlocking", "failing", "up", "failed"}]
  /\ lock \in Starts \cup {Nobody}
  /\ seen \in [Starts -> SUBSET Nat]
  /\ at \in [Starts -> Nat \ {0}]
  /\ tx \in [Starts -> Nat]
  /\ ran \in Seq(Nat)
  /\ cause \in [Starts -> {"none", "refused", "conflict", "lost"}]
  /\ \A i \in Starts : tx[i] # 0 => pc[i] \in {"inserting", "committing"}

Init ==
  /\ pc = [i \in Starts |-> "off"]
  /\ lock = Nobody
  /\ seen = [i \in Starts |-> {}]
  /\ at = [i \in Starts |-> 1]
  /\ tx = [i \in Starts |-> 0]
  /\ ran = <<>>
  /\ cause = [i \in Starts |-> "none"]

Goto(i, p) == pc' = [pc EXCEPT ![i] = p]

\* The connection is back in the pool or gone; one that is gone takes the
\* lock with it.
Freed(i) == lock' = IF lock = i THEN Nobody ELSE lock

----------------------------------------------------------------------------
\* pool.connect().
Connect(i) ==
  /\ pc[i] = "off"
  /\ Goto(i, "locking")
  /\ UNCHANGED <<lock, seen, at, tx, ran, cause>>

LockWithoutWaiting(i) ==
  /\ pc[i] = "locking"
  /\ lock' = i
  /\ Goto(i, "reading")
  /\ UNCHANGED <<seen, at, tx, ran, cause>>

\* pg_advisory_lock returns when no other connection holds the lock.
Lock(i) ==
  /\ pc[i] = "locking"
  /\ lock = Nobody
  /\ lock' = i
  /\ Goto(i, "reading")
  /\ UNCHANGED <<seen, at, tx, ran, cause>>

\* The table of applied names, created if this database has none, is read.
Read(i) ==
  /\ pc[i] = "reading"
  /\ seen' = [seen EXCEPT ![i] = Applied]
  /\ Goto(i, "scanning")
  /\ UNCHANGED <<lock, at, tx, ran, cause>>

\* The next file has been applied before: continue.
Skip(i) ==
  /\ pc[i] = "scanning"
  /\ at[i] <= Release[i]
  /\ at[i] \in seen[i]
  /\ at' = [at EXCEPT ![i] = @ + 1]
  /\ UNCHANGED <<pc, lock, seen, tx, ran, cause>>

\* It has not: BEGIN and the statements of the file.
Apply(i) ==
  /\ pc[i] = "scanning"
  /\ at[i] <= Release[i]
  /\ at[i] \notin seen[i]
  /\ tx' = [tx EXCEPT ![i] = at[i]]
  /\ Goto(i, "inserting")
  /\ UNCHANGED <<lock, seen, at, ran, cause>>

\* Its name goes into schema_migrations.  The primary key refuses a name
\* that is there, and waits for a transaction that is about to add it.
Insert(i) ==
  /\ pc[i] = "inserting"
  /\ \A j \in Starts \ {i} : ~(pc[j] = "committing" /\ tx[j] = tx[i])
  /\ IF tx[i] \in Applied
     THEN /\ tx' = [tx EXCEPT ![i] = 0]
          /\ cause' = [cause EXCEPT ![i] = "conflict"]
          /\ Goto(i, "failing")
     ELSE /\ Goto(i, "committing")
          /\ UNCHANGED <<tx, cause>>
  /\ UNCHANGED <<lock, seen, at, ran>>

Commit(i) ==
  /\ pc[i] = "committing"
  /\ ran' = Append(ran, tx[i])
  /\ tx' = [tx EXCEPT ![i] = 0]
  /\ at' = [at EXCEPT ![i] = @ + 1]
  /\ Goto(i, "scanning")
  /\ UNCHANGED <<lock, seen, cause>>

\* The end of the files: finally.
Finish(i) ==
  /\ pc[i] = "scanning"
  /\ at[i] > Release[i]
  /\ Goto(i, "unlocking")
  /\ UNCHANGED <<lock, seen, at, tx, ran, cause>>

SkipRefused(i) ==
  /\ pc[i] = "inserting"
  /\ tx' = [tx EXCEPT ![i] = 0]
  /\ at' = [at EXCEPT ![i] = @ + 1]
  /\ Goto(i, "scanning")
  /\ UNCHANGED <<lock, seen, ran, cause>>

\* A statement is refused: ROLLBACK if a transaction is open, and the error
\* goes on.
Refuse(i) ==
  /\ pc[i] \in {"reading", "scanning", "inserting", "committing"}
  /\ tx' = [tx EXCEPT ![i] = 0]
  /\ cause' = [cause EXCEPT ![i] = "refused"]
  /\ Goto(i, "failing")
  /\ UNCHANGED <<lock, seen, at, ran>>

UnlockOnSuccess(i) ==
  /\ pc[i] \in {"unlocking", "failing"}
  /\ IF pc[i] = "unlocking" THEN Freed(i) ELSE UNCHANGED lock
  /\ Goto(i, IF pc[i] = "unlocking" THEN "up" ELSE "failed")
  /\ UNCHANGED <<seen, at, tx, ran, cause>>

UnlockAndGoOn(i) ==
  /\ pc[i] \in {"unlocking", "failing"}
  /\ Freed(i)
  /\ Goto(i, "up")
  /\ UNCHANGED <<seen, at, tx, ran, cause>>

\* pg_advisory_unlock and release(), after success and after failure.  The
\* unlock may fail with the connection: that frees the lock as well, and the
\* error is dropped.
Unlock(i) ==
  /\ pc[i] \in {"unlocking", "failing"}
  /\ Freed(i)
  /\ Goto(i, IF pc[i] = "unlocking" THEN "up" ELSE "failed")
  /\ UNCHANGED <<seen, at, tx, ran, cause>>

\* The connection is lost, or the process killed, before the unlock; a COMMIT
\* on its way may have taken effect.
Lose(i) ==
  /\ pc[i] \in {"locking", "reading", "scanning", "inserting", "committing"}
  /\ Freed(i)
  /\ ran' \in {ran} \cup (IF pc[i] = "committing" THEN {Append(ran, tx[i])} ELSE {})
  /\ tx' = [tx EXCEPT ![i] = 0]
  /\ cause' = [cause EXCEPT ![i] = "lost"]
  /\ Goto(i, "failed")
  /\ UNCHANGED <<seen, at>>

Step(i) ==
  \/ Lock(i) \/ Read(i) \/ Skip(i) \/ Apply(i) \/ Insert(i) \/ Commit(i)
  \/ Finish(i) \/ Unlock(i)

Next == \E i \in Starts : Connect(i) \/ Step(i) \/ Refuse(i) \/ Lose(i)

Spec == Init /\ [][Next]_vars

----------------------------------------------------------------------------
(* Each file is applied once and in order, by whichever starts, through     *)
(* refusals, lost connections and lost answers to COMMIT                    *)
(* (docs/DATABASE_MIGRATIONS.md: concurrent starts cannot apply a migration *)
(* twice).                                                                  *)
EachOnceInOrder == \A k \in 1..Len(ran) : ran[k] = k

(* A start that goes on to serve has the schema of its release *)
(* (postgresSessionStore.js:60 awaits the migrations).         *)
UpIsMigrated == \A i \in Starts : pc[i] = "up" => 1..Release[i] \subseteq Applied

(* Starts do not make each other fail: the names a start reads under the    *)
(* lock are still the applied ones when it inserts, so that the primary key *)
(* never refuses one.                                                       *)
NoneFailsAnother == \A i \in Starts : cause[i] # "conflict"

(* Whoever starts, in whatever order and with whatever losses, the schema is *)
(* that of the migrations, in order, for everyone who comes up.              *)
SchemaHolds == TypeOK /\ EachOnceInOrder /\ UpIsMigrated /\ NoneFailsAnother
=============================================================================
