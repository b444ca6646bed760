-------------------------------- MODULE Server --------------------------------
(***************************************************************************)
(* What one server process keeps for itself: the sessions and rounds it    *)
(* has without a database (JsonSessionStore), the windows of its rate      *)
(* limiters (RateLimiter), the events it records (AuditTrail) and, when it *)
(* starts beside others, the migrations it runs (Migrations).              *)
(*                                                                         *)
(* The four share no state and no call of one waits for another, so each   *)
(* has its own specification, and what holds of one holds in the process.  *)
(* Variables and constants of the same name are told apart here.           *)
(***************************************************************************)
EXTENDS JsonSessionStore

CONSTANTS Callers, Sources, KeyOf, Limit, Window, MaxClock, None  \* of RateLimiter
VARIABLES clock, admitted, events, told

Limiter == INSTANCE RateLimiter WITH now <- clock, Keys <- Sources, MaxTime <- MaxClock

CONSTANTS Calls, Effects, EffectOf, MaxStarts                     \* of AuditTrail
VARIABLES process, starts, call, open, effects, lines, rows, write, waiting

Trail == INSTANCE AuditTrail

CONSTANTS Starts, Release, Nobody                                 \* of Migrations
VARIABLES stage, lock, seen, at, tx, ran, cause

Migrate == INSTANCE Migrations WITH pc <- stage

-----------------------------------------------------------------------------
(* What the parts promise *)

(* Whoever shares an address or a session, its windows admit no request too many, and what *)
(* is remembered of it does not grow with what is refused.                                 *)
LimitHolds == Limiter!LimitHolds

(* Nobody is refused, or made to wait longer, without reason. *)
RefusalsAreJust == [][Limiter!RefusalIsJust]_<<clock, admitted, events, told>>

(* An orderly exit loses no event of an answered request. *)
AnsweredIsKept == Trail!AnsweredIsKept

(* What the trail tells has happened, and it tells it once. *)
TrailIsTrue == Trail!TrailIsTrue

(* Whoever starts, in whatever order and with whatever losses, the schema is that of the *)
(* migrations, in order, for everyone who comes up.                                      *)
SchemaHolds == Migrate!SchemaHolds
===============================================================================
