--------------------------- MODULE GameCertification ---------------------------
(*****************************************************************************)
(* GameRegistry and certifyGameCatalog: adapters register, the catalog is    *)
(* certified game by game and sample by sample through the registry, and the *)
(* report says whether every game may be played. An adapter is code of its   *)
(* own: what it answers to one sample says nothing about the next.           *)
(*****************************************************************************)
EXTENDS Naturals, FiniteSets, SequencesExt

CONSTANTS
  Ids,        \* game ids
  Samples,    \* samples a game has to pass
  MaxEntries  \* bound: catalog entries and adapters offered

SamplesAssumption == Samples \in 1 .. 10000

(* What an adapter may answer: a payout that is exact, finer than the asset, or no finite
   non-negative number; with the names of reserved fields, or with something that JSON cannot
   say; or it throws. *)
Answers == [payout : {"exact", "finer", "invalid", "throws"}, reserved : BOOLEAN, serializable : BOOLEAN]
BetRules == {"none", "valid", "invalid"}
Entries == [id : Ids, bets : BetRules]

VARIABLES
  offered,   \* adapters to register, a sequence of ids
  adapters,  \* ids in the registry
  catalog,   \* the entries of the catalog
  pc,
  next,      \* the entry that is being certified
  completed, \* its samples so far
  failures,  \* its failures so far
  results,   \* a sequence of [id, ok, samples]
  answered   \* history: id -> its answers the registry was given

vars == <<offered, adapters, catalog, pc, next, completed, failures, results, answered>>

-----------------------------------------------------------------------------
(* GameRegistry *)

(* A second adapter with the same id makes the registry impossible to construct. *)
Register ==
  /\ pc = "registering" /\ offered # <<>>
  /\ IF Head(offered) \in adapters
       THEN pc' = "refused" /\ UNCHANGED <<offered, adapters>>
       ELSE adapters' = adapters \cup {Head(offered)} /\ offered' = Tail(offered) /\ UNCHANGED pc
  /\ UNCHANGED <<catalog, next, completed, failures, results, answered>>

OnlyFinite(answer) == answer.payout \in {"exact", "finer"} /\ answer.serializable

(* normalizeGameResult: reserved fields are left out, everything else has to be in order. *)
Normalizes(answer) == answer.payout = "exact" /\ answer.serializable
Normalized(answer) == [answer EXCEPT !.reserved = FALSE]

-----------------------------------------------------------------------------
(* certifyGameCatalog *)

Start ==
  /\ pc = "registering" /\ offered = <<>>
  /\ pc' = "next"
  /\ UNCHANGED <<offered, adapters, catalog, next, completed, failures, results, answered>>

Report(id, ok) == Append(results, [id |-> id, ok |-> ok, samples |-> completed])
Seen(i) == {catalog[j].id : j \in 1 .. i - 1}

(* An entry whose id came before, or that has no adapter, fails at once. *)
NextGame ==
  /\ pc = "next" /\ next <= Len(catalog)
  /\ IF catalog[next].id \in Seen(next) \/ catalog[next].id \notin adapters
       THEN results' = Report(catalog[next].id, FALSE) /\ next' = next + 1 /\ UNCHANGED <<pc, failures>>
       ELSE /\ failures' = (IF catalog[next].bets = "valid" THEN 0 ELSE 1)
            /\ pc' = "sampling" /\ UNCHANGED <<results, next>>
  /\ UNCHANGED <<offered, adapters, catalog, completed, answered>>

(* One sample; the loop ends at the first failure. Without a valid bet there are none. *)
Sample ==
  /\ pc = "sampling" /\ completed < Samples /\ catalog[next].bets # "none"
  /\ \E answer \in Answers :
       /\ answered' = [answered EXCEPT ![catalog[next].id] = @ \cup {answer}]
       /\ IF Normalizes(answer) /\ ~Normalized(answer).reserved
            THEN completed' = completed + 1 /\ UNCHANGED <<pc, failures>>
            ELSE failures' = failures + 1 /\ pc' = "ending" /\ UNCHANGED completed
  /\ UNCHANGED <<offered, adapters, catalog, next, results>>

Passed == failures = 0 /\ completed = Samples
EndGame ==
  /\ \/ pc = "ending"
     \/ pc = "sampling" /\ (completed = Samples \/ catalog[next].bets = "none")
  /\ results' = Report(catalog[next].id, Passed)
  /\ next' = next + 1 /\ completed' = 0 /\ failures' = 0 /\ pc' = "next"
  /\ UNCHANGED <<offered, adapters, catalog, answered>>

NothingMissing == pc = "next" /\ next > Len(catalog) /\ pc' = "done" /\ UNCHANGED <<offered, adapters, catalog, next, completed, failures, results, answered>>

(* Adapters that the catalog does not name are failures of their own. *)
AdaptersNotInCatalog ==
  /\ pc = "next" /\ next > Len(catalog)
  /\ results' = results \o SetToSeq({[id |-> a, ok |-> FALSE, samples |-> 0] : a \in adapters \ Seen(next)})
  /\ pc' = "done"
  /\ UNCHANGED <<offered, adapters, catalog, next, completed, failures, answered>>

ReportOk == results # <<>> /\ \A i \in DOMAIN results : results[i].ok

Init ==
  /\ offered \in BoundedSeq(Ids, MaxEntries) /\ catalog \in BoundedSeq(Entries, MaxEntries)
  /\ adapters = {} /\ pc = "registering" /\ next = 1 /\ completed = 0 /\ failures = 0 /\ results = <<>>
  /\ answered = [id \in Ids |-> {}]
Next == Register \/ Start \/ NextGame \/ Sample \/ EndGame \/ AdaptersNotInCatalog
Spec == Init /\ [][Next]_vars

-----------------------------------------------------------------------------
(* Properties *)

TypeOK ==
  /\ pc \in {"registering", "refused", "next", "sampling", "ending", "done"}
  /\ adapters \subseteq Ids /\ next \in 1 .. Len(catalog) + 1
  /\ completed \in 0 .. Samples /\ failures \in 0 .. 2
  /\ \A i \in DOMAIN results : results[i].samples \in 0 .. Samples /\ results[i].id \in Ids

(* A report that is in order vouches for every game that can be played: each adapter has one
   catalog entry and each entry one adapter, and each gave all its samples nothing but answers
   that a round can settle. *)
CertifiedIsSettleable ==
  pc = "done" /\ ReportOk =>
    /\ adapters = {e.id : e \in Range(catalog)} /\ Cardinality(adapters) = Len(catalog)
    /\ \A a \in adapters : answered[a] # {} /\ \A answer \in answered[a] : answer.payout = "exact" /\ answer.serializable
    /\ \A e \in Range(catalog) : e.bets = "valid"
    /\ \A i \in DOMAIN results : results[i].samples = Samples

(* Nothing is left out of a report: every entry of the catalog and every adapter is in it once. *)
ReportIsComplete ==
  pc = "done" =>
    /\ Len(results) = Len(catalog) + Cardinality(adapters \ Seen(next))
    /\ {results[i].id : i \in DOMAIN results} = adapters \cup Seen(next)

=============================================================================
