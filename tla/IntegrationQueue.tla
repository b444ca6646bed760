---------------------------- MODULE IntegrationQueue ----------------------------
(***************************************************************************)
(* The two workers that merge pull requests: integration-queue.mjs, which  *)
(* lands one pull request per run, and integration-wave-v2.mjs, which      *)
(* combines several on one integration branch and lands them together.     *)
(* Each worker runs alone in its concurrency group, and both beside        *)
(* authors, reviewers, CI and people who merge by hand. One call of the    *)
(* GitHub API is one step; the answer is used by later steps.              *)
(*                                                                         *)
(* A commit is the set of changes it holds, a change a version of a pull   *)
(* request (or <<0, k>>, merged by hand). main and every head are commits. *)
(* held stands for everything that makes a pull request ineligible: a      *)
(* blocking label, a draft, an edited contract line, another base.         *)
(***************************************************************************)
EXTENDS Naturals, FiniteSets, SequencesExt

CONSTANTS
  PRs,          \* pull requests by number, oldest first
  Wave,         \* those with "Integration wave: yes"; the others are the queue's
  Depends,      \* pull request -> the pull requests its "Depends on" names
  Touches,      \* change -> the files it touches
  BlockedPaths, \* files of config.blockedPaths
  Broken,       \* sets of changes whose combination fails CI
  Conflicts,    \* sets of changes that cannot be merged textually
  MinBatch, MaxBatch,
  MaxVersions,  \* bound: versions of a pull request
  MaxEvents,    \* bound: what people do to pull requests
  MaxByHand,    \* bound: changes merged by hand
  Failing       \* whether calls may fail and end a run

WaveAssumption ==
  PRs \subseteq Nat \ {0} /\ IsFiniteSet(PRs) /\ Wave \subseteq PRs /\ MinBatch \in Nat \ {0}
DependsAssumption == Depends \in [PRs -> SUBSET PRs]
MainAssumption == {} \notin Broken  \* CI accepts what main holds at first
BoundsAssumption == MaxVersions \in Nat \ {0} /\ MaxEvents \in Nat /\ MaxByHand \in Nat
QueueAssumption == WaveAssumption /\ DependsAssumption /\ MainAssumption /\ BoundsAssumption

VARIABLES
  main,    \* the base branch
  pr,      \* pull request -> its state on GitHub
  ci,      \* commit -> the state of its CI run
  waves,   \* open integration pull requests: head and sources
  queue,   \* the run of the queue worker
  wave,    \* the run of the wave worker
  events,  \* what people have done so far
  stood,   \* history: worker -> what has stood against which pull request since its run began
  landed   \* history: the changes of the sources of each wave that was merged

githubVars == <<main, pr, ci, waves>>
vars == <<githubVars, queue, wave, events, stood, landed>>

Changes == (PRs \X (1 .. MaxVersions)) \cup ({0} \X (1 .. MaxByHand))
Own(p) == <<p, pr[p].version>>
Green(c) == \A b \in Broken : ~(b \subseteq c)
Dirty(c) == \E x \in Conflicts : x \subseteq c \cup main
Behind(c) == ~(main \subseteq c)

-----------------------------------------------------------------------------
(* GitHub *)

(* The run that a new commit gets, unless it has one. *)
WithRun(c, state) == IF c \in DOMAIN ci THEN ci ELSE [d \in DOMAIN ci \cup {c} |-> IF d = c THEN state ELSE ci[d]]
RunOf(c) == IF c \in DOMAIN ci THEN ci[c] ELSE "missing"

(* The base requires a branch that is up to date, so a merge is accepted for the head named and up to date. *)
Accepts(head, sha) == head = sha /\ ~Behind(sha) /\ ~Dirty(sha)

(* Pull requests whose head is then part of main count as merged. *)
Land(head) ==
  /\ main' = main \cup head
  /\ pr' = [p \in PRs |-> IF pr[p].state = "open" /\ pr[p].head \subseteq main' THEN [pr[p] EXCEPT !.state = "merged"] ELSE pr[p]]

FinishCi(c) ==
  /\ RunOf(c) = "queued"
  /\ ci' = [ci EXCEPT ![c] = IF Green(c) THEN "success" ELSE "failure"]
  /\ UNCHANGED <<main, pr, waves, queue, wave, events, stood, landed>>

-----------------------------------------------------------------------------
(* People *)

Person(p, new) ==
  /\ pr[p].state = "open" /\ events < MaxEvents
  /\ pr' = [pr EXCEPT ![p] = new] /\ events' = events + 1
  /\ stood' = [w \in DOMAIN stood |-> {s \in stood[w] : s[2] = p => new[s[1]]}]
  /\ UNCHANGED <<main, waves, queue, wave, landed>>

Push(p) ==
  LET head == (pr[p].head \ {Own(p)}) \cup {<<p, pr[p].version + 1>>}
  IN  /\ pr[p].version < MaxVersions
      /\ Person(p, [pr[p] EXCEPT !.version = @ + 1, !.head = head])
      /\ ci' = WithRun(head, "queued")
Mark(p) == Person(p, [pr[p] EXCEPT !.held = ~@]) /\ UNCHANGED ci
Review(p) == Person(p, [pr[p] EXCEPT !.objected = ~@]) /\ UNCHANGED ci
MergeByHand ==
  \E k \in 1 .. MaxByHand :
    /\ <<0, k>> \notin main /\ Green(main \cup {<<0, k>>})
    /\ Land({<<0, k>>})
    /\ UNCHANGED <<ci, waves, queue, wave, events, stood, landed>>

-----------------------------------------------------------------------------
(* What both workers ask *)

StandingNow == ({"held"} \X {p \in PRs : pr[p].held}) \cup ({"objected"} \X {p \in PRs : pr[p].objected})
StillOpen(p) == pr[p].state = "open"

Eligible(p) == pr[p].state = "open" /\ ~pr[p].held

NotGivenUp(p) == \A d \in Depends[p] \ {p} : pr[d].state # "closed"

DependenciesReady(p) == \A d \in Depends[p] \ {p} : pr[d].state = "merged"

NoFailedCheck(sha) == RunOf(sha) # "failure"

ChecksReady(sha) == RunOf(sha) = "success"
ReviewsReady(p) == ~pr[p].objected
Ascending(ps) == CHOOSE s \in SetToSeqs(ps) : \A i, j \in DOMAIN s : i < j => s[i] < s[j]
Listed(ps) == LET asc == Ascending(ps) IN [i \in DOMAIN asc |-> [pr |-> asc[i], sha |-> pr[asc[i]].head]]

-----------------------------------------------------------------------------
(* integration-queue.mjs *)

QueueIdle == [pc |-> "idle", todo |-> <<>>, behind |-> {}, mutations |-> 0]
NextCandidate == [queue EXCEPT !.pc = "dependencies", !.todo = Tail(@)]

QueueStart ==
  /\ queue.pc = "idle"
  /\ queue' = [QueueIdle EXCEPT !.pc = "dependencies", !.todo = Listed({p \in PRs \ Wave : Eligible(p)})]
  /\ stood' = [stood EXCEPT !["queue"] = StandingNow]
  /\ UNCHANGED <<githubVars, wave, events, landed>>

(* A question whose answer lets the candidate go on or passes to the next one. *)
Candidate == Head(queue.todo)
QueueAsk(here, there, ready) ==
  /\ queue.pc = here /\ queue.todo # <<>>
  /\ queue' = IF ready THEN [queue EXCEPT !.pc = there] ELSE NextCandidate
  /\ UNCHANGED <<githubVars, wave, events, stood, landed>>

QueueFreshPull ==
  /\ queue.pc = "fresh"
  /\ LET candidate == Head(queue.todo) IN
     queue' = CASE pr[candidate.pr].head # candidate.sha -> NextCandidate
                [] Dirty(candidate.sha) -> NextCandidate
                [] Behind(candidate.sha) -> [NextCandidate EXCEPT !.behind = IF @ = {} THEN {candidate} ELSE @]
                [] OTHER -> [queue EXCEPT !.pc = "merge"]
  /\ UNCHANGED <<githubVars, wave, events, stood, landed>>

MergeAndGoOn ==
  /\ queue.pc = "merge"
  /\ LET candidate == Head(queue.todo) IN
     IF pr[candidate.pr].state = "open" /\ Accepts(pr[candidate.pr].head, candidate.sha)
       THEN Land(candidate.sha) /\ queue' = [NextCandidate EXCEPT !.mutations = @ + 1] /\ UNCHANGED <<ci, waves>>
       ELSE queue' = NextCandidate /\ UNCHANGED githubVars
  /\ UNCHANGED <<wave, events, stood, landed>>

MergePull ==
  /\ queue.pc = "merge"
  /\ LET candidate == Head(queue.todo) IN
     IF pr[candidate.pr].state = "open" /\ Accepts(pr[candidate.pr].head, candidate.sha)
       THEN Land(candidate.sha) /\ queue' = [queue EXCEPT !.pc = "done", !.mutations = @ + 1] /\ UNCHANGED <<ci, waves>>
       ELSE queue' = NextCandidate /\ UNCHANGED githubVars
  /\ UNCHANGED <<wave, events, stood, landed>>

(* The new commit is the worker's, so its run may need an approval, and the queue gives none. *)
UpdateBranch ==
  /\ queue.pc = "dependencies" /\ queue.todo = <<>> /\ queue.behind # {}
  /\ LET candidate == CHOOSE c \in queue.behind : TRUE
         head == candidate.sha \cup main
     IN  IF pr[candidate.pr].state = "open" /\ pr[candidate.pr].head = candidate.sha /\ ~Dirty(head)
           THEN /\ pr' = [pr EXCEPT ![candidate.pr].head = head]
                /\ \E state \in {"queued", "action_required"} : ci' = WithRun(head, state)
                /\ queue' = [queue EXCEPT !.pc = "done", !.mutations = @ + 1] /\ UNCHANGED <<main, waves>>
           ELSE queue' = [queue EXCEPT !.pc = "done"] /\ UNCHANGED githubVars
  /\ UNCHANGED <<wave, events, stood, landed>>

QueueEnd ==
  /\ \/ queue.pc = "done"
     \/ queue.pc = "dependencies" /\ queue.todo = <<>> /\ queue.behind = {}
  /\ queue' = QueueIdle
  /\ UNCHANGED <<githubVars, wave, events, stood, landed>>

QueueFail ==
  /\ Failing /\ queue.pc # "idle"
  /\ queue' = QueueIdle
  /\ UNCHANGED <<githubVars, wave, events, stood, landed>>

QueueStep ==
  \/ QueueStart \/ QueueFreshPull \/ MergePull \/ UpdateBranch \/ QueueEnd
  \/ QueueAsk("dependencies", "checks", DependenciesReady(Candidate.pr))
  \/ QueueAsk("checks", "reviews", ChecksReady(Candidate.sha))
  \/ QueueAsk("reviews", "fresh", ReviewsReady(Candidate.pr))

-----------------------------------------------------------------------------
(* integration-wave-v2.mjs *)

NoWave == [head |-> {}, sources |-> <<>>]
WaveIdle == [pc |-> "idle", todo |-> <<>>, picked |-> <<>>, branch |-> {}, current |-> NoWave, base |-> {}]
WaveGoes(run) == wave' = run /\ UNCHANGED <<githubVars, queue, events, stood, landed>>
NextPull == [wave EXCEPT !.pc = "dependencies", !.todo = Tail(@)]

StartBesideOpenWave ==
  /\ wave.pc = "idle" /\ Cardinality(waves) <= 1
  /\ wave' = [WaveIdle EXCEPT !.pc = "dependencies", !.todo = Listed({p \in Wave : Eligible(p)})]
  /\ stood' = [stood EXCEPT !["wave"] = StandingNow]
  /\ UNCHANGED <<githubVars, queue, events, landed>>

(* One open wave is promoted, none lets a new one be built, more are for people. *)
WaveStart ==
  /\ wave.pc = "idle" /\ Cardinality(waves) <= 1
  /\ wave' = IF waves = {} THEN [WaveIdle EXCEPT !.pc = "dependencies", !.todo = Listed({p \in Wave : Eligible(p)})]
                           ELSE LET open == CHOOSE w \in waves : TRUE IN [WaveIdle EXCEPT !.pc = "sources", !.todo = open.sources, !.current = open]
  /\ stood' = [stood EXCEPT !["wave"] = StandingNow]
  /\ UNCHANGED <<githubVars, queue, events, landed>>

(* buildWave: the loop over the pull requests, which ends at config.maxBatch. *)
Choosing == wave.todo # <<>> /\ Len(wave.picked) < MaxBatch
Pull == Head(wave.todo)
WaveAsk(here, there, ready) ==
  /\ wave.pc = here /\ Choosing
  /\ WaveGoes(IF ready THEN [wave EXCEPT !.pc = there] ELSE NextPull)

WaveDependencies == WaveAsk("dependencies", "reviews", DependenciesReady(Pull.pr))
WaveReviews == WaveAsk("reviews", "checks", ReviewsReady(Pull.pr))
WaveChecks == WaveAsk("checks", "files", ChecksReady(Pull.sha))

(* The files are those of the head that the pull request has now. *)
FilesForPull ==
  /\ wave.pc = "files"
  /\ LET pull == Head(wave.todo)
         files == Touches[Own(pull.pr)]
         occupied == UNION {Touches[wave.picked[i].files] : i \in DOMAIN wave.picked}
     IN  WaveGoes(IF files \cap (BlockedPaths \cup occupied) = {}
                    THEN [NextPull EXCEPT !.picked = Append(@, [pull |-> pull, files |-> Own(pull.pr)])]
                    ELSE NextPull)

CreateBranch ==
  /\ wave.pc = "dependencies" /\ ~Choosing
  /\ WaveGoes(IF Len(wave.picked) < MinBatch THEN WaveIdle
              ELSE [wave EXCEPT !.pc = "combine", !.todo = [i \in DOMAIN wave.picked |-> wave.picked[i].pull], !.branch = main])

(* A head that conflicts, or adds nothing, is left out. *)
Combine ==
  /\ wave.pc = "combine" /\ wave.todo # <<>>
  /\ LET pull == Head(wave.todo)
         combined == wave.branch \cup pull.sha
         clean == combined # wave.branch /\ \A x \in Conflicts : ~(x \subseteq combined)
     IN  WaveGoes([wave EXCEPT !.todo = Tail(@),
                               !.branch = IF clean THEN combined ELSE @,
                               !.current.sources = IF clean THEN Append(@, pull) ELSE @])

CreatePull ==
  /\ wave.pc = "combine" /\ wave.todo = <<>>
  /\ IF Len(wave.current.sources) < MinBatch THEN WaveGoes(WaveIdle)
     ELSE LET new == [wave.current EXCEPT !.head = wave.branch] IN
          /\ waves' = waves \cup {new}
          /\ \E state \in {"queued", "action_required"} : ci' = WithRun(new.head, state)
          /\ wave' = [WaveIdle EXCEPT !.pc = "sources", !.todo = new.sources, !.current = new]
          /\ UNCHANGED <<main, pr, queue, events, stood, landed>>

(* promoteWave *)
SourceEligible(source) == Eligible(source.pr)

SourceStands(source) == Eligible(source.pr) /\ pr[source.pr].head = source.sha
CheckSource ==
  /\ wave.pc = "sources" /\ wave.todo # <<>>
  /\ WaveGoes(IF SourceStands(Head(wave.todo)) THEN [wave EXCEPT !.todo = Tail(@)] ELSE [wave EXCEPT !.pc = "invalidate"])

(* The pull request is closed, or closes because its branch is deleted; either call may fail unnoticed. *)
InvalidateWave ==
  /\ wave.pc = "invalidate"
  /\ \/ waves' = waves \ {wave.current}
     \/ Failing /\ UNCHANGED waves
  /\ wave' = WaveIdle
  /\ UNCHANGED <<main, pr, ci, queue, events, stood, landed>>

FreshWaveOrWait ==
  /\ wave.pc = "sources" /\ wave.todo = <<>>
  /\ WaveGoes(CASE Dirty(wave.current.head) -> [wave EXCEPT !.pc = "invalidate"]
                [] ~Dirty(wave.current.head) /\ Behind(wave.current.head) -> WaveIdle
                [] OTHER -> [wave EXCEPT !.pc = "findRun", !.base = main])

FreshWave ==
  /\ wave.pc = "sources" /\ wave.todo = <<>>
  /\ WaveGoes(CASE Dirty(wave.current.head) -> [wave EXCEPT !.pc = "invalidate"]
                [] ~Dirty(wave.current.head) /\ Behind(wave.current.head) -> [wave EXCEPT !.pc = "update"]
                [] OTHER -> [wave EXCEPT !.pc = "findRun", !.base = main])

UpdateWave ==
  /\ wave.pc = "update"
  /\ LET new == [wave.current EXCEPT !.head = @ \cup main] IN
     IF wave.current \in waves /\ ~Dirty(new.head)
       THEN /\ waves' = (waves \ {wave.current}) \cup {new}
            /\ \E state \in {"queued", "action_required"} : ci' = WithRun(new.head, state)
       ELSE UNCHANGED <<waves, ci>>
  /\ wave' = WaveIdle
  /\ UNCHANGED <<main, pr, queue, events, stood, landed>>

FindRunAndApprove ==
  /\ wave.pc = "findRun"
  /\ ci' = IF RunOf(wave.current.head) = "action_required" THEN [ci EXCEPT ![wave.current.head] = "queued"] ELSE ci
  /\ wave' = IF RunOf(wave.current.head) = "missing" THEN WaveIdle ELSE [wave EXCEPT !.pc = "await"]
  /\ UNCHANGED <<main, pr, waves, queue, events, stood, landed>>

(* Polled until it completes; after 120 polls the run ends. *)
AwaitCi ==
  /\ wave.pc = "await"
  /\ WaveGoes(IF RunOf(wave.current.head) = "success" THEN [wave EXCEPT !.pc = "refresh"] ELSE WaveIdle)

RefreshWave ==
  /\ wave.pc = "refresh"
  /\ WaveGoes(IF wave.current \in waves /\ main = wave.base THEN [wave EXCEPT !.pc = "merge"] ELSE WaveIdle)

MergeWave ==
  /\ wave.pc = "merge"
  /\ IF wave.current \in waves /\ Accepts(wave.current.head, wave.current.head)
       THEN /\ Land(wave.current.head)
            /\ waves' = waves \ {wave.current}
            /\ landed' = landed \cup {wave.current.sources}
            /\ wave' = [wave EXCEPT !.pc = "closing", !.todo = wave.current.sources]
            /\ UNCHANGED ci
       ELSE wave' = WaveIdle /\ UNCHANGED <<githubVars, landed>>
  /\ UNCHANGED <<queue, events, stood>>

CloseSource ==
  /\ wave.pc = "closing" /\ wave.todo # <<>>
  /\ LET p == Head(wave.todo).pr IN
     pr' = IF pr[p].state = "open" THEN [pr EXCEPT ![p].state = "closed"] ELSE pr
  /\ wave' = [wave EXCEPT !.todo = Tail(@)]
  /\ UNCHANGED <<main, ci, waves, queue, events, stood, landed>>

WaveEnd == wave.pc = "closing" /\ wave.todo = <<>> /\ WaveGoes(WaveIdle)
WaveFail == Failing /\ wave.pc # "idle" /\ WaveGoes(WaveIdle)

WaveStep ==
  \/ WaveStart \/ WaveDependencies \/ WaveReviews \/ WaveChecks \/ FilesForPull \/ CreateBranch \/ Combine \/ CreatePull
  \/ CheckSource \/ InvalidateWave \/ FreshWave \/ UpdateWave \/ FindRunAndApprove \/ AwaitCi \/ RefreshWave
  \/ MergeWave \/ CloseSource \/ WaveEnd

-----------------------------------------------------------------------------

Init ==
  /\ main = {} /\ waves = {} /\ events = 0 /\ landed = {}
  /\ pr = [p \in PRs |-> [state |-> "open", version |-> 1, head |-> {<<p, 1>>}, held |-> FALSE, objected |-> FALSE]]
  /\ ci = [c \in {{<<p, 1>>} : p \in PRs} |-> "queued"]
  /\ queue = QueueIdle /\ wave = WaveIdle
  /\ stood = [w \in {"queue", "wave"} |-> {}]

Next ==
  \/ QueueStep \/ QueueFail \/ WaveStep \/ WaveFail
  \/ \E c \in DOMAIN ci : FinishCi(c)
  \/ \E p \in PRs : Push(p) \/ Mark(p) \/ Review(p)
  \/ MergeByHand

Spec == Init /\ [][Next]_vars

-----------------------------------------------------------------------------
(* Properties *)

TypeOK ==
  /\ main \subseteq Changes /\ events \in 0 .. MaxEvents
  /\ pr \in [PRs -> [state : {"open", "merged", "closed"}, version : 1 .. MaxVersions, head : SUBSET Changes, held : BOOLEAN, objected : BOOLEAN]]
  /\ \A c \in DOMAIN ci : c \subseteq Changes /\ ci[c] \in {"action_required", "queued", "success", "failure"}
  /\ Cardinality(waves) <= 1
  /\ \A w \in waves : w.head \subseteq Changes /\ Len(w.sources) >= MinBatch
  /\ queue.pc \in {"idle", "dependencies", "checks", "reviews", "fresh", "merge", "done"}
  /\ wave.pc \in {"idle", "dependencies", "reviews", "checks", "files", "combine", "sources", "invalidate", "update", "findRun", "await", "refresh", "merge", "closing"}

(* Whatever order merges of both workers and by hand come in, main is a combination that CI accepts. *)
MainIsGreen == Green(main)

(* A wave never lands two sources that touch the same file, or one that touches a protected
   path, though the files are read after the head that is combined. *)
LandedWasScreened ==
  \A sources \in landed : \A i \in DOMAIN sources :
    LET files(j) == UNION {Touches[c] : c \in {d \in sources[j].sha : d[1] = sources[j].pr}} IN
    files(i) \cap (BlockedPaths \cup UNION {files(j) : j \in DOMAIN sources \ {i}}) = {}

(* What is merged comes after everything it depends on, whichever worker merges which. *)
DependenciesFirst == \A p \in PRs : pr[p].state = "merged" => \A d \in Depends[p] : pr[d].state = "merged"

(* A run of the queue changes the repository once at the most. *)
OneMutationPerRun == queue.mutations <= 1

(* What has been held since before a run began is not merged by it; the queue does not merge
   either what has changes requested since then. *)
Merges(p) == pr[p].state = "open" /\ pr'[p].state = "merged"
MergesRespectStanding ==
  \A p \in PRs : Merges(p) => <<"held", p>> \notin stood[IF p \in Wave THEN "wave" ELSE "queue"]
                              /\ (p \in Wave \/ <<"objected", p>> \notin stood["queue"])

(* Whatever merges in whatever order, main is a combination that CI accepts, what is merged *)
(* comes after everything it depends on, and one wave is open at the most.                  *)
MainHolds == TypeOK /\ MainIsGreen /\ DependenciesFirst /\ OneMutationPerRun

(* What stood against a pull request when a run began keeps the run from merging it. *)
StandingIsRespected == [][MergesRespectStanding]_vars

(* Nothing stands against a pull request that is not closed. *)
Clear == \A p \in PRs : pr[p].state # "closed" /\ ~pr[p].held /\ ~pr[p].objected

(* What neither has been merged nor waits for somebody to approve the run of its head. *)
Unfinished == {p \in PRs : pr[p].state # "merged" /\ RunOf(pr[p].head) # "action_required"}
=============================================================================
