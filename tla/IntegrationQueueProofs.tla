------------------------- MODULE IntegrationQueueProofs -------------------------
(* What is merged: main is accepted by CI, follows the dependencies, and holds  *)
(* nothing that a run had seen held or did not screen.                          *)
EXTENDS IntegrationQueue, FiniteSetTheorems, WellFoundedInduction, TLAPS

-----------------------------------------------------------------------------
(* The inductive invariant *)

PRStates ==
  [state : {"open", "merged", "closed"}, version : 1 .. MaxVersions, head : SUBSET Changes,
   held : BOOLEAN, objected : BOOLEAN]
CiStates == {"action_required", "queued", "success", "failure"}
Pulls == [pr : PRs, sha : SUBSET Changes]
Picks == [pull : Pulls, files : PRs \X (1 .. MaxVersions)]
WaveRecords == [head : SUBSET Changes, sources : Seq(Pulls)]

(* GitHub's record; a commit whose run succeeded is one that CI accepts. *)
CiOK == \A c \in DOMAIN ci : c \subseteq Changes /\ ci[c] \in CiStates /\ (ci[c] = "success" => Green(c))
GithubOK ==
  /\ main \subseteq Changes /\ events \in 0 .. MaxEvents
  /\ pr \in [PRs -> PRStates] /\ CiOK

(* A head is the newest version of its pull request and what main had when it was updated; *)
(* main has that version only once the pull request is merged, and no later one.           *)
HeadsOK ==
  \A p \in PRs :
    /\ Own(p) \in pr[p].head /\ pr[p].head \ {Own(p)} \subseteq main
    /\ p \in Wave => pr[p].head = {Own(p)}
    /\ pr[p].state = "open" => Own(p) \notin main
    /\ \A x \in main : x[1] = p => x[2] <= pr[p].version

(* What has stood since a run began stands. *)
StoodOK ==
  /\ DOMAIN stood = {"queue", "wave"}
  /\ \A w \in {"queue", "wave"}, p \in PRs : /\ <<"held", p>> \in stood[w] => pr[p].held
                                             /\ <<"objected", p>> \in stood[w] => pr[p].objected

QueuePcs == {"idle", "dependencies", "checks", "reviews", "fresh", "merge", "done"}

(* What a run of the queue has learnt about its candidate. *)
QueueRunOK(run) ==
  /\ run \in [pc : QueuePcs, todo : Seq(Pulls), behind : SUBSET Pulls, mutations : {0, 1}]
  /\ \A u \in ToSet(run.todo) : u.pr \notin Wave /\ <<"held", u.pr>> \notin stood["queue"]
  /\ \A u \in run.behind : u.pr \notin Wave
  /\ run.mutations = 1 => run.pc = "done"
  /\ run.pc \in {"checks", "reviews", "fresh", "merge"} =>
       run.todo # <<>> /\ DependenciesReady(Head(run.todo).pr)
  /\ run.pc \in {"reviews", "fresh", "merge"} => ChecksReady(Head(run.todo).sha)
  /\ run.pc \in {"fresh", "merge"} => <<"objected", Head(run.todo).pr>> \notin stood["queue"]

ChoosingPcs == {"dependencies", "reviews", "checks", "files"}
PromotingPcs == {"sources", "invalidate", "update", "findRun", "await", "refresh", "merge"}
WavePcs == {"idle", "combine", "closing"} \cup ChoosingPcs \cup PromotingPcs

Distinct(s) == \A i, j \in 1 .. Len(s) : s[i].pr = s[j].pr => i = j
Apart(s, t) == \A i \in 1 .. Len(s), j \in 1 .. Len(t) : s[i].pr # t[j].pr
Pulled(s) == [i \in 1 .. Len(s) |-> s[i].pull]

(* A pull of the wave names one version of its pull request, which may have others since. *)
OfWave(u) == u.pr \in Wave /\ \E v \in 1 .. pr[u.pr].version : u.sha = {<<u.pr, v>>}

(* The files of pulls S were read at versions g, not before the pulls were listed; those of *)
(* C have not moved in between.                                                             *)
FilesAt(g, p) == Touches[<<p, g[p]>>]
ScreenedAt(g, S, C) ==
  /\ g \in [PRs -> 1 .. MaxVersions]
  /\ \A u \in S :
       /\ OfWave(u) /\ DependenciesReady(u.pr)
       /\ \A v \in 1 .. MaxVersions : u.sha = {<<u.pr, v>>} => v <= g[u.pr]
       /\ g[u.pr] <= pr[u.pr].version
       /\ FilesAt(g, u.pr) \cap BlockedPaths = {}
  /\ \A u, w \in S : u.pr # w.pr => FilesAt(g, u.pr) \cap FilesAt(g, w.pr) = {}
  /\ \A u \in C : u.sha = {<<u.pr, g[u.pr]>>}

ShaOf(s) == UNION {u.sha : u \in ToSet(s)}

(* A wave whose sources C have been checked since the run began. *)
WholeWave(w, C) ==
  /\ w \in WaveRecords /\ Distinct(w.sources) /\ Len(w.sources) >= MinBatch
  /\ w.head \subseteq main \cup ShaOf(w.sources)
  /\ \E g : ScreenedAt(g, ToSet(w.sources), C)

WavesOK ==
  /\ waves = {} \/ \E w : waves = {w}
  /\ \A w \in waves : WholeWave(w, {})

(* While a wave is chosen. *)
PickedOK(g, picked) ==
  /\ ScreenedAt(g, ToSet(Pulled(picked)), {})
  /\ \A i \in 1 .. Len(picked) : picked[i].files = <<picked[i].pull.pr, g[picked[i].pull.pr]>>
ChoosingOK(run) ==
  /\ waves = {} /\ run.current = NoWave
  /\ Distinct(run.todo) /\ Distinct(Pulled(run.picked)) /\ Apart(Pulled(run.picked), run.todo)
  /\ \A u \in ToSet(run.todo) : OfWave(u)
  /\ \E g : PickedOK(g, run.picked)
  /\ run.pc # "dependencies" => run.todo # <<>> /\ DependenciesReady(Head(run.todo).pr)

(* While it is combined. *)
CombineOK(run) ==
  /\ waves = {}
  /\ Distinct(run.todo) /\ Distinct(run.current.sources) /\ Apart(run.current.sources, run.todo)
  /\ run.branch \subseteq main \cup ShaOf(run.current.sources)
  /\ \E g : ScreenedAt(g, ToSet(run.current.sources) \cup ToSet(run.todo), {})

(* While it is promoted. *)
Checked(run) == ToSet(run.current.sources) \ ToSet(run.todo)
PromoteOK(run) ==
  /\ WholeWave(run.current, Checked(run))
  /\ \A u \in Checked(run) : <<"held", u.pr>> \notin stood["wave"]
  /\ run.pc \in {"findRun", "await", "refresh", "merge"} => run.todo = <<>>
  /\ run.pc \in {"refresh", "merge"} => ChecksReady(run.current.head)

WaveRuns ==
  [pc : WavePcs, todo : Seq(Pulls), picked : Seq(Picks), branch : SUBSET Changes,
   current : WaveRecords, base : SUBSET Changes]
WaveRunOK(run) ==
  /\ run \in WaveRuns
  /\ run.pc \in ChoosingPcs => ChoosingOK(run)
  /\ run.pc = "combine" => CombineOK(run)
  /\ run.pc \in PromotingPcs => PromoteOK(run)

Inv ==
  /\ QueueAssumption /\ GithubOK /\ HeadsOK /\ MainIsGreen /\ DependenciesFirst /\ StoodOK
  /\ QueueRunOK(queue) /\ WavesOK /\ WaveRunOK(wave) /\ LandedWasScreened

-----------------------------------------------------------------------------
(* Sequences of pulls *)

LEMMA SetOfSeq ==
  ASSUME NEW S, NEW s \in Seq(S)
  PROVE  /\ ToSet(s) = {s[i] : i \in 1 .. Len(s)} /\ ToSet(s) \subseteq S
         /\ s = <<>> => ToSet(s) = {}
<1>1. DOMAIN s = 1 .. Len(s) /\ s \in [1 .. Len(s) -> S]
  OBVIOUS
<1>2. ToSet(s) = {s[i] : i \in 1 .. Len(s)}
  BY <1>1 DEF ToSet
<1>3. s = <<>> => 1 .. Len(s) = {}
  OBVIOUS
<1> QED
  BY <1>1, <1>2, <1>3

(* The first element and the others. *)
LEMMA HeadAndTail ==
  ASSUME NEW S, NEW s \in Seq(S), s # <<>>
  PROVE  /\ Head(s) \in S /\ Tail(s) \in Seq(S) /\ Head(s) \in ToSet(s)
         /\ Head(s) = s[1] /\ Len(s) \in Nat \ {0} /\ Len(Tail(s)) = Len(s) - 1
         /\ \A i \in 1 .. Len(s) - 1 : Tail(s)[i] = s[i + 1]
         /\ ToSet(s) = {Head(s)} \cup ToSet(Tail(s))
<1>1. /\ Head(s) \in S /\ Tail(s) \in Seq(S) /\ Len(s) \in Nat \ {0} /\ Len(Tail(s)) = Len(s) - 1
      /\ Head(s) = s[1] /\ \A i \in 1 .. Len(s) - 1 : Tail(s)[i] = s[i + 1]
  OBVIOUS
<1>2. /\ ToSet(s) = {s[i] : i \in 1 .. Len(s)}
      /\ ToSet(Tail(s)) = {Tail(s)[i] : i \in 1 .. Len(s) - 1}
  <2>1. ToSet(s) = {s[i] : i \in 1 .. Len(s)}
    BY SetOfSeq
  <2>2. ToSet(Tail(s)) = {Tail(s)[i] : i \in 1 .. Len(Tail(s))}
    BY <1>1, SetOfSeq
  <2> QED
    BY <1>1, <2>1, <2>2
<1>3. 1 \in 1 .. Len(s) /\ \A i \in 1 .. Len(s) : i = 1 \/ i - 1 \in 1 .. Len(s) - 1
  BY <1>1
<1>4. \A i \in 1 .. Len(s) - 1 : i + 1 \in 1 .. Len(s)
  BY <1>1
<1>5. \A x : x \in ToSet(s) <=> \E i \in 1 .. Len(s) : x = s[i]
  BY <1>2
<1>6. \A x : x \in ToSet(Tail(s)) <=> \E i \in 1 .. Len(s) - 1 : x = s[i + 1]
  BY <1>1, <1>2
<1>7. ASSUME NEW x \in ToSet(s) PROVE x = Head(s) \/ x \in ToSet(Tail(s))
  <2>1. PICK i \in 1 .. Len(s) : x = s[i]
    BY <1>5
  <2>2. CASE i = 1
    BY <1>1, <2>1, <2>2
  <2>3. CASE i # 1
    <3>1. i - 1 \in 1 .. Len(s) - 1 /\ s[(i - 1) + 1] = s[i]
      BY <1>1, <2>3
    <3> QED
      BY <1>6, <2>1, <3>1
  <2> QED
    BY <2>2, <2>3
<1>8. Head(s) \in ToSet(s) /\ ToSet(Tail(s)) \subseteq ToSet(s)
  BY <1>1, <1>3, <1>4, <1>5, <1>6
<1> QED
  BY <1>1, <1>7, <1>8

(* A sequence that is longer by one. *)
LEMMA Longer ==
  ASSUME NEW S, NEW s \in Seq(S), NEW e \in S
  PROVE  /\ Append(s, e) \in Seq(S) /\ Len(Append(s, e)) = Len(s) + 1 /\ Len(s) \in Nat
         /\ \A i \in 1 .. Len(s) : Append(s, e)[i] = s[i]
         /\ Append(s, e)[Len(s) + 1] = e
         /\ ToSet(Append(s, e)) = ToSet(s) \cup {e}
<1>1. /\ Append(s, e) \in Seq(S) /\ Len(Append(s, e)) = Len(s) + 1 /\ Len(s) \in Nat
      /\ Append(s, e)[Len(s) + 1] = e /\ \A i \in 1 .. Len(s) : Append(s, e)[i] = s[i]
  OBVIOUS
<1>2. /\ ToSet(s) = {s[i] : i \in 1 .. Len(s)}
      /\ ToSet(Append(s, e)) = {Append(s, e)[i] : i \in 1 .. Len(s) + 1}
  <2>1. ToSet(s) = {s[i] : i \in 1 .. Len(s)}
    BY SetOfSeq
  <2>2. ToSet(Append(s, e)) = {Append(s, e)[i] : i \in 1 .. Len(Append(s, e))}
    BY <1>1, SetOfSeq
  <2> QED
    BY <1>1, <2>1, <2>2
<1>3. \A i \in 1 .. Len(s) + 1 : i = Len(s) + 1 \/ i \in 1 .. Len(s)
  BY <1>1
<1>4. Len(s) + 1 \in 1 .. Len(s) + 1 /\ \A i \in 1 .. Len(s) : i \in 1 .. Len(s) + 1
  BY <1>1
<1> QED
  BY <1>1, <1>2, <1>3, <1>4

(* What is distinct stays so when the first pull is passed over ... *)
LEMMA TailDistinct ==
  ASSUME NEW t \in Seq(Pulls), t # <<>>, Distinct(t)
  PROVE  Distinct(Tail(t))
<1>1. /\ Len(t) \in Nat \ {0} /\ Len(Tail(t)) = Len(t) - 1
      /\ \A i \in 1 .. Len(t) - 1 : Tail(t)[i] = t[i + 1]
  BY HeadAndTail
<1>2. ASSUME NEW i \in 1 .. Len(t) - 1, NEW j \in 1 .. Len(t) - 1, Tail(t)[i].pr = Tail(t)[j].pr
      PROVE  i = j
  <2>1. t[i + 1].pr = t[j + 1].pr /\ i + 1 \in 1 .. Len(t) /\ j + 1 \in 1 .. Len(t)
    BY <1>1, <1>2
  <2>2. i + 1 = j + 1
    BY <2>1 DEF Distinct
  <2> QED
    BY <2>2
<1> QED
  BY <1>1, <1>2 DEF Distinct

LEMMA TailApart ==
  ASSUME NEW s, NEW t \in Seq(Pulls), t # <<>>, Apart(s, t)
  PROVE  Apart(s, Tail(t))
<1>1. /\ Len(t) \in Nat \ {0} /\ Len(Tail(t)) = Len(t) - 1
      /\ \A i \in 1 .. Len(t) - 1 : Tail(t)[i] = t[i + 1]
  BY HeadAndTail
<1>2. \A j \in 1 .. Len(t) - 1 : j + 1 \in 1 .. Len(t)
  BY <1>1
<1> QED
  BY <1>1, <1>2 DEF Apart

(* ... and when it is moved to the end of another sequence. *)
LEMMA MovedDistinct ==
  ASSUME NEW s \in Seq(Pulls), NEW t \in Seq(Pulls), t # <<>>,
         Distinct(s), Distinct(t), Apart(s, t)
  PROVE  Distinct(Append(s, Head(t))) /\ Apart(Append(s, Head(t)), Tail(t))
<1> DEFINE l == Append(s, Head(t))
<1>1. /\ Len(t) \in Nat \ {0} /\ Len(Tail(t)) = Len(t) - 1 /\ Head(t) = t[1] /\ Head(t) \in Pulls
      /\ \A i \in 1 .. Len(t) - 1 : Tail(t)[i] = t[i + 1]
  BY HeadAndTail
<1>2. /\ Len(l) = Len(s) + 1 /\ Len(s) \in Nat /\ l[Len(s) + 1] = t[1]
      /\ \A i \in 1 .. Len(s) : l[i] = s[i]
  BY <1>1, Longer
<1> HIDE DEF l
<1>3. \A i \in 1 .. Len(s) + 1 : i = Len(s) + 1 \/ i \in 1 .. Len(s)
  BY <1>2
<1>4. 1 \in 1 .. Len(t) /\ \A j \in 1 .. Len(t) - 1 : j + 1 \in 1 .. Len(t) /\ j + 1 # 1
  BY <1>1
<1>5. \A i \in 1 .. Len(s) : l[i].pr # t[1].pr
  BY <1>2, <1>4 DEF Apart
<1>6. Distinct(l)
  BY <1>2, <1>3, <1>5 DEF Distinct
<1>7. \A j \in 1 .. Len(t) - 1 : t[1].pr # t[j + 1].pr
  BY <1>4 DEF Distinct
<1>8. \A i \in 1 .. Len(s), j \in 1 .. Len(t) - 1 : l[i].pr # t[j + 1].pr
  BY <1>2, <1>4 DEF Apart
<1>9. Apart(l, Tail(t))
  BY <1>1, <1>2, <1>3, <1>7, <1>8 DEF Apart
<1> QED
  BY <1>6, <1>9 DEF l

(* The pulls that are picked. *)
LEMMA PulledSeq ==
  ASSUME NEW s \in Seq(Picks)
  PROVE  /\ Pulled(s) \in Seq(Pulls) /\ Len(Pulled(s)) = Len(s)
         /\ Pulled(s) = [i \in DOMAIN s |-> s[i].pull]
         /\ \A e \in Picks : Pulled(Append(s, e)) = Append(Pulled(s), e.pull)
<1>1. DOMAIN s = 1 .. Len(s) /\ Len(s) \in Nat /\ \A i \in 1 .. Len(s) : s[i] \in Picks
  OBVIOUS
<1>2. \A i \in 1 .. Len(s) : s[i].pull \in Pulls
  BY <1>1 DEF Picks
<1>3. Pulled(s) \in Seq(Pulls) /\ Len(Pulled(s)) = Len(s)
  BY <1>1, <1>2 DEF Pulled
<1>4. ASSUME NEW e \in Picks PROVE Pulled(Append(s, e)) = Append(Pulled(s), e.pull)
  <2>1. e.pull \in Pulls
    BY DEF Picks
  <2>2. /\ Append(s, e) \in Seq(Picks) /\ Len(Append(s, e)) = Len(s) + 1
        /\ \A i \in 1 .. Len(s) : Append(s, e)[i] = s[i]
        /\ Append(s, e)[Len(s) + 1] = e
    BY Longer
  <2>3. /\ Append(Pulled(s), e.pull) \in Seq(Pulls)
        /\ Len(Append(Pulled(s), e.pull)) = Len(s) + 1
        /\ \A i \in 1 .. Len(s) : Append(Pulled(s), e.pull)[i] = s[i].pull
        /\ Append(Pulled(s), e.pull)[Len(s) + 1] = e.pull
    BY <1>3, <2>1, Longer DEF Pulled
  <2>4. \A i \in 1 .. Len(s) + 1 : i = Len(s) + 1 \/ i \in 1 .. Len(s)
    BY <1>1
  <2>5. Pulled(Append(s, e)) = [i \in 1 .. Len(s) + 1 |-> Append(s, e)[i].pull]
    BY <2>2 DEF Pulled
  <2>6. \A i \in 1 .. Len(s) + 1 : Append(s, e)[i].pull = Append(Pulled(s), e.pull)[i]
    BY <2>2, <2>3, <2>4
  <2>7. Append(Pulled(s), e.pull) = [i \in 1 .. Len(s) + 1 |-> Append(Pulled(s), e.pull)[i]]
    BY <2>3
  <2> QED
    BY <2>5, <2>6, <2>7
<1> QED
  BY <1>1, <1>3, <1>4 DEF Pulled

-----------------------------------------------------------------------------
(* The list of pull requests, oldest first *)

LEMMA Least ==
  ASSUME NEW T \in SUBSET Nat, T # {}
  PROVE  \E m \in T : \A k \in T : m <= k
<1>1. PICK m \in T : \A k \in T : ~(<<k, m>> \in OpToRel(<, Nat))
  <2>1. IsWellFoundedOn(OpToRel(<, Nat), Nat)
    BY NatLessThanWellFounded
  <2> QED
    BY <2>1, WFMin
<1>2. \A k \in T : ~(k < m)
  BY <1>1 DEF OpToRel
<1> QED
  BY <1>2

(* Every finite set of numbers can be listed in order. *)
InOrder(T, s) ==
  s \in [1 .. Cardinality(T) -> T] /\ \A i, j \in 1 .. Cardinality(T) : i < j => s[i] < s[j]

LEMMA EmptyInOrder == \E s : InOrder({}, s)
<1>1. Cardinality({}) = 0
  BY FS_EmptySet
<1>2. 1 .. Cardinality({}) = {}
  BY <1>1
<1>3. [i \in {} |-> i] \in [{} -> {}]
  OBVIOUS
<1>4. InOrder({}, [i \in {} |-> i])
  BY <1>2, <1>3 DEF InOrder
<1> QED
  BY <1>4

LEMMA OneMoreInOrder ==
  ASSUME NEW T \in SUBSET Nat, IsFiniteSet(T), NEW m \in T, \A k \in T : m <= k,
         NEW s, InOrder(T \ {m}, s)
  PROVE  \E l : InOrder(T, l)
<1>1. PICK n \in Nat : n = Cardinality(T)
  BY FS_CardinalityType
<1>2. n # 0 /\ Cardinality(T \ {m}) = n - 1
  BY <1>1, FS_RemoveElement, FS_EmptySet
<1>3. s \in [1 .. n - 1 -> T \ {m}] /\ \A i, j \in 1 .. n - 1 : i < j => s[i] < s[j]
  BY <1>2 DEF InOrder
<1> DEFINE l == [i \in 1 .. n |-> IF i = 1 THEN m ELSE s[i - 1]]
<1>4. \A i \in 1 .. n : i # 1 => i - 1 \in 1 .. n - 1 /\ l[i] = s[i - 1] /\ l[i] \in T /\ m < l[i]
  <2> TAKE i \in 1 .. n
  <2> HAVE i # 1
  <2>1. i - 1 \in 1 .. n - 1
    BY <1>1
  <2>2. s[i - 1] \in T \ {m} /\ s[i - 1] \in Nat /\ m \in Nat
    BY <1>3, <2>1
  <2> QED
    BY <2>1, <2>2
<1>5. 1 \in 1 .. n /\ l[1] = m
  BY <1>1, <1>2
<1>6. l \in [1 .. n -> T]
  BY <1>4, <1>5
<1>7. ASSUME NEW i \in 1 .. n, NEW j \in 1 .. n, i < j
      PROVE  l[i] < l[j]
  <2>1. j # 1 /\ (i # 1 => i - 1 < j - 1)
    BY <1>1, <1>7
  <2>2. CASE i = 1
    BY <1>4, <1>5, <2>1, <2>2
  <2>3. CASE i # 1
    BY <1>3, <1>4, <2>1, <2>3
  <2> QED
    BY <2>2, <2>3
<1>8. InOrder(T, l)
  BY <1>1, <1>6, <1>7 DEF InOrder
<1> QED
  BY <1>8

LEMMA Enumeration ==
  ASSUME NEW T \in SUBSET Nat, IsFiniteSet(T)
  PROVE  \E s : InOrder(T, s)
<1> DEFINE Bad == {n \in Nat : \E U \in SUBSET Nat : /\ IsFiniteSet(U) /\ Cardinality(U) = n
                                                     /\ \A s : ~InOrder(U, s)}
<1> SUFFICES ASSUME \A s : ~InOrder(T, s)
             PROVE  FALSE
  OBVIOUS
<1>1. Cardinality(T) \in Bad
  BY FS_CardinalityType
<1>2. PICK n \in Bad : \A k \in Bad : n <= k
  BY <1>1, Least
<1>3. PICK U \in SUBSET Nat : IsFiniteSet(U) /\ Cardinality(U) = n /\ \A s : ~InOrder(U, s)
  BY <1>2
<1>4. U # {}
  BY <1>3, EmptyInOrder
<1>5. PICK m \in U : \A k \in U : m <= k
  BY <1>4, Least
<1>6. IsFiniteSet(U \ {m}) /\ Cardinality(U \ {m}) = n - 1 /\ n # 0
  BY <1>3, <1>4, <1>5, FS_RemoveElement, FS_EmptySet
<1>7. n - 1 \in Nat /\ ~(n <= n - 1)
  BY <1>2, <1>6
<1>8. n - 1 \notin Bad
  BY <1>2, <1>7
<1>9. PICK s : InOrder(U \ {m}, s)
  BY <1>6, <1>7, <1>8
<1> QED
  BY <1>3, <1>5, <1>9, OneMoreInOrder

(* What the API lists: the pull requests asked for, each once and with the head it has. *)
LEMMA ListedPulls ==
  ASSUME QueueAssumption, pr \in [PRs -> PRStates], NEW ps \in SUBSET PRs
  PROVE  /\ Listed(ps) \in Seq(Pulls) /\ Distinct(Listed(ps))
         /\ \A u \in ToSet(Listed(ps)) : u.pr \in ps /\ u.sha = pr[u.pr].head
<1>1. ps \in SUBSET Nat /\ IsFiniteSet(ps)
  BY FS_Subset DEF QueueAssumption, WaveAssumption
<1>2. PICK n \in Nat : n = Cardinality(ps)
  BY <1>1, FS_CardinalityType
<1>3. PICK t : InOrder(ps, t)
  BY <1>1, Enumeration
<1>4. t \in [1 .. n -> ps] /\ \A i, j \in 1 .. n : i < j => t[i] < t[j]
  BY <1>2, <1>3 DEF InOrder
<1>5. \A i, j \in 1 .. n : i # j => t[i] # t[j]
  <2> TAKE i, j \in 1 .. n
  <2> HAVE i # j
  <2>1. t[i] \in ps /\ t[j] \in ps /\ (i < j \/ j < i)
    BY <1>4
  <2>2. t[i] \in Nat /\ t[j] \in Nat
    BY <1>1, <2>1
  <2>3. t[i] < t[j] \/ t[j] < t[i]
    BY <1>4, <2>1
  <2> QED
    BY <2>2, <2>3
<1>6. t \in SetToSeqs(ps) /\ DOMAIN t = 1 .. n
  BY <1>2, <1>4, <1>5 DEF SetToSeqs
<1>7. \E s \in SetToSeqs(ps) : \A i, j \in DOMAIN s : i < j => s[i] < s[j]
  BY <1>4, <1>6
<1>8. PICK a : a = Ascending(ps)
  OBVIOUS
<1>9. a \in SetToSeqs(ps)
  BY <1>7, <1>8 DEF Ascending
<1>10. a \in [1 .. n -> ps] /\ \A i, j \in 1 .. n : i # j => a[i] # a[j]
  BY <1>2, <1>9 DEF SetToSeqs
<1>11. PICK l : l = Listed(ps)
  OBVIOUS
<1>12. l = [i \in 1 .. n |-> [pr |-> a[i], sha |-> pr[a[i]].head]]
  BY <1>8, <1>10, <1>11 DEF Listed
<1>13. \A i \in 1 .. n : l[i].pr = a[i] /\ l[i].sha = pr[l[i].pr].head /\ l[i].pr \in ps /\ l[i] \in Pulls
  BY <1>10, <1>12 DEF Pulls, PRStates
<1>14. l \in Seq(Pulls) /\ Len(l) = n
  BY <1>12, <1>13
<1>15. ToSet(l) = {l[i] : i \in 1 .. n}
  BY <1>14, SetOfSeq
<1> QED
  BY <1>10, <1>11, <1>13, <1>14, <1>15 DEF Distinct

-----------------------------------------------------------------------------
(* What a step of anybody leaves true *)

(* GitHub forgets nothing: main and the versions grow, and what is merged or accepted stays so. *)
Grows ==
  /\ pr \in [PRs -> PRStates] /\ pr' \in [PRs -> PRStates]
  /\ main \subseteq main'
  /\ \A p \in PRs : /\ pr[p].version <= pr'[p].version
                    /\ pr[p].state = "merged" => pr'[p].state = "merged"
  /\ \A c : ChecksReady(c) => RunOf(c)' = "success"

(* What has stood since a run began can only come to an end. *)
StoodShrinks(w) == \A s : s \in stood'[w] => s \in stood[w]

LEMMA Unchanged ==
  ASSUME pr \in [PRs -> PRStates], UNCHANGED <<main, pr, ci>>
  PROVE  Grows
BY DEF Grows, ChecksReady, RunOf, PRStates

LEMMA DependenciesStay ==
  ASSUME QueueAssumption, Grows, NEW p \in PRs, DependenciesReady(p)
  PROVE  DependenciesReady(p)'
<1>1. \A d \in Depends[p] : d \in PRs
  BY DEF QueueAssumption, DependsAssumption
<1> QED
  BY <1>1 DEF Grows, DependenciesReady

LEMMA OfWaveStays ==
  ASSUME QueueAssumption, Grows, NEW u, OfWave(u)
  PROVE  OfWave(u)'
<1>1. u.pr \in PRs
  BY DEF QueueAssumption, WaveAssumption, OfWave
<1>2. pr[u.pr].version \in Nat /\ pr'[u.pr].version \in Nat /\ pr[u.pr].version <= pr'[u.pr].version
  BY <1>1 DEF Grows, PRStates
<1>3. 1 .. pr[u.pr].version \subseteq 1 .. pr'[u.pr].version
  BY <1>2
<1> QED
  BY <1>3 DEF OfWave

LEMMA ScreenedStays ==
  ASSUME QueueAssumption, Grows, NEW g, NEW S, NEW C, ScreenedAt(g, S, C)
  PROVE  ScreenedAt(g, S, C)'
<1>1. ASSUME NEW u \in S
      PROVE  OfWave(u)' /\ DependenciesReady(u.pr)' /\ g[u.pr] <= pr'[u.pr].version
  <2>1. OfWave(u) /\ u.pr \in PRs
    BY DEF ScreenedAt, QueueAssumption, WaveAssumption, OfWave
  <2>2. OfWave(u)'
    BY <2>1, OfWaveStays
  <2>3. DependenciesReady(u.pr)'
    BY <2>1, DependenciesStay DEF ScreenedAt
  <2>4. g[u.pr] \in Nat /\ g[u.pr] <= pr[u.pr].version
    BY <2>1 DEF ScreenedAt
  <2>5. pr[u.pr].version \in Nat /\ pr'[u.pr].version \in Nat /\ pr[u.pr].version <= pr'[u.pr].version
    BY <2>1 DEF Grows, PRStates
  <2>6. g[u.pr] <= pr'[u.pr].version
    BY <2>4, <2>5
  <2> QED
    BY <2>2, <2>3, <2>6
<1> QED
  BY <1>1 DEF ScreenedAt

(* Fewer pulls, and fewer of them checked, are screened as well. *)
LEMMA ScreenedLess ==
  ASSUME NEW g, NEW S, NEW C, ScreenedAt(g, S, C), NEW T \in SUBSET S, NEW D \in SUBSET C
  PROVE  ScreenedAt(g, T, D)
BY DEF ScreenedAt

LEMMA WholeStays ==
  ASSUME QueueAssumption, Grows, NEW w, NEW C, WholeWave(w, C)
  PROVE  WholeWave(w, C)'
<1>1. PICK g : ScreenedAt(g, ToSet(w.sources), C)
  BY DEF WholeWave
<1>2. ScreenedAt(g, ToSet(w.sources), C)'
  BY <1>1, ScreenedStays
<1>3. w.head \subseteq main' \cup ShaOf(w.sources)
  BY DEF WholeWave, Grows
<1> QED
  BY <1>2, <1>3 DEF WholeWave

LEMMA WholeLess ==
  ASSUME NEW w, NEW C, WholeWave(w, C), NEW D \in SUBSET C
  PROVE  WholeWave(w, D)
<1>1. PICK g : ScreenedAt(g, ToSet(w.sources), C)
  BY DEF WholeWave
<1>2. ScreenedAt(g, ToSet(w.sources), D)
  BY <1>1, ScreenedLess
<1> QED
  BY <1>2 DEF WholeWave

(* A run of the queue, when it is still as well informed as before or has only listed pulls. *)
LEMMA QueueRunStays ==
  ASSUME QueueAssumption, Grows, NEW run, QueueRunOK(run),
         StoodShrinks("queue") \/ /\ run.pc = "dependencies"
                                  /\ \A u \in ToSet(run.todo) : <<"held", u.pr>> \notin stood'["queue"]
  PROVE  QueueRunOK(run)'
<1>1. \A u \in ToSet(run.todo) : <<"held", u.pr>> \notin stood'["queue"]
  BY DEF QueueRunOK, StoodShrinks
<1>2. run.pc \in {"fresh", "merge"} => <<"objected", Head(run.todo).pr>> \notin stood'["queue"]
  BY DEF QueueRunOK, StoodShrinks
<1>3. run.pc \in {"checks", "reviews", "fresh", "merge"} => DependenciesReady(Head(run.todo).pr)'
  <2> SUFFICES ASSUME run.pc \in {"checks", "reviews", "fresh", "merge"}
               PROVE  DependenciesReady(Head(run.todo).pr)'
    OBVIOUS
  <2>1. run.todo \in Seq(Pulls) /\ run.todo # <<>> /\ DependenciesReady(Head(run.todo).pr)
    BY DEF QueueRunOK
  <2>2. PICK p : p = Head(run.todo).pr
    OBVIOUS
  <2>3. Head(run.todo) \in Pulls
    BY <2>1, HeadAndTail
  <2>4. p \in PRs
    BY <2>2, <2>3 DEF Pulls
  <2> QED
    BY <2>1, <2>2, <2>4, DependenciesStay
<1>4. run.pc \in {"reviews", "fresh", "merge"} => ChecksReady(Head(run.todo).sha)'
  BY DEF QueueRunOK, Grows, ChecksReady
<1> QED
  BY <1>1, <1>2, <1>3, <1>4 DEF QueueRunOK

LEMMA ChoosingStays ==
  ASSUME QueueAssumption, Grows, NEW run \in WaveRuns, ChoosingOK(run), waves' = {}
  PROVE  ChoosingOK(run)'
<1>1. PICK g : PickedOK(g, run.picked)
  BY DEF ChoosingOK
<1>2. ScreenedAt(g, ToSet(Pulled(run.picked)), {})'
  BY <1>1, ScreenedStays DEF PickedOK
<1>3. PickedOK(g, run.picked)'
  BY <1>1, <1>2 DEF PickedOK
<1>4. \A u \in ToSet(run.todo) : OfWave(u)'
  BY OfWaveStays DEF ChoosingOK
<1>5. run.pc # "dependencies" => run.todo # <<>> /\ DependenciesReady(Head(run.todo).pr)'
  <2> SUFFICES ASSUME run.pc # "dependencies"
               PROVE  run.todo # <<>> /\ DependenciesReady(Head(run.todo).pr)'
    OBVIOUS
  <2>1. run.todo \in Seq(Pulls) /\ run.todo # <<>> /\ DependenciesReady(Head(run.todo).pr)
    BY DEF ChoosingOK, WaveRuns
  <2>2. PICK p : p = Head(run.todo).pr
    OBVIOUS
  <2>3. Head(run.todo) \in Pulls
    BY <2>1, HeadAndTail
  <2>4. p \in PRs
    BY <2>2, <2>3 DEF Pulls
  <2> QED
    BY <2>1, <2>2, <2>4, DependenciesStay
<1> QED
  BY <1>3, <1>4, <1>5 DEF ChoosingOK

LEMMA CombineStays ==
  ASSUME QueueAssumption, Grows, NEW run \in WaveRuns, CombineOK(run), waves' = {}
  PROVE  CombineOK(run)'
<1>1. PICK g : ScreenedAt(g, ToSet(run.current.sources) \cup ToSet(run.todo), {})
  BY DEF CombineOK
<1>2. ScreenedAt(g, ToSet(run.current.sources) \cup ToSet(run.todo), {})'
  BY <1>1, ScreenedStays
<1>3. run.branch \subseteq main' \cup ShaOf(run.current.sources)
  BY DEF CombineOK, Grows
<1> QED
  BY <1>2, <1>3 DEF CombineOK

LEMMA PromoteStays ==
  ASSUME QueueAssumption, Grows, NEW run \in WaveRuns, PromoteOK(run),
         StoodShrinks("wave") \/ Checked(run) = {}
  PROVE  PromoteOK(run)'
<1>1. WholeWave(run.current, Checked(run))'
  BY WholeStays DEF PromoteOK, Checked
<1>2. \A u \in Checked(run) : <<"held", u.pr>> \notin stood'["wave"]
  BY DEF PromoteOK, StoodShrinks
<1>3. run.pc \in {"refresh", "merge"} => ChecksReady(run.current.head)'
  BY DEF PromoteOK, Grows, ChecksReady
<1> QED
  BY <1>1, <1>2, <1>3 DEF PromoteOK, Checked

(* A run of the wave worker, which is alone to open waves. *)
LEMMA WaveRunStays ==
  ASSUME QueueAssumption, Grows, NEW run, WaveRunOK(run),
         StoodShrinks("wave") \/ run.pc \in ChoosingPcs \/ Checked(run) = {},
         run.pc \in ChoosingPcs \cup {"combine"} => waves' = {}
  PROVE  WaveRunOK(run)'
<1>1. run \in WaveRuns
  BY DEF WaveRunOK
<1>2. run.pc \in ChoosingPcs => ChoosingOK(run)'
  BY <1>1, ChoosingStays DEF WaveRunOK
<1>3. run.pc = "combine" => CombineOK(run)'
  BY <1>1, CombineStays DEF WaveRunOK
<1>4. run.pc \in PromotingPcs => PromoteOK(run)'
  BY <1>1, PromoteStays DEF WaveRunOK, ChoosingPcs, PromotingPcs
<1> QED
  BY <1>1, <1>2, <1>3, <1>4 DEF WaveRunOK

-----------------------------------------------------------------------------
(* GitHub's record *)

LEMMA WavesStay ==
  ASSUME QueueAssumption, Grows, WavesOK, waves' \subseteq waves
  PROVE  WavesOK'
<1>1. waves' = {} \/ \E w : waves' = {w}
  BY DEF WavesOK
<1>2. \A w \in waves' : WholeWave(w, {})'
  BY WholeStays DEF WavesOK
<1> QED
  BY <1>1, <1>2 DEF WavesOK

(* A wave takes the place of the one that is open. *)
LEMMA WaveOpens ==
  ASSUME QueueAssumption, Grows, NEW w, WholeWave(w, {}), waves' = {w}
  PROVE  WavesOK'
<1>1. WholeWave(w, {})'
  BY WholeStays
<1>2. \A v \in waves' : WholeWave(v, {})'
  BY <1>1
<1> QED
  BY <1>2 DEF WavesOK

(* GitHub has accepted no run that CI does not, and has no other pull requests. *)
LEMMA SameRecord ==
  ASSUME GithubOK, UNCHANGED <<main, pr, ci, events>>
  PROVE  GithubOK' /\ Grows
<1>1. Grows
  BY Unchanged DEF GithubOK
<1> QED
  BY <1>1 DEF GithubOK, CiOK, Changes, PRStates, CiStates, Green

LEMMA SamePulls ==
  ASSUME HeadsOK, MainIsGreen, DependenciesFirst, UNCHANGED <<main, pr>>
  PROVE  HeadsOK' /\ MainIsGreen' /\ DependenciesFirst'
BY DEF HeadsOK, Own, MainIsGreen, Green, DependenciesFirst

LEMMA SameStood ==
  ASSUME StoodOK, UNCHANGED stood, \A p \in PRs : pr'[p].held = pr[p].held /\ pr'[p].objected = pr[p].objected
  PROVE  StoodOK' /\ StoodShrinks("queue") /\ StoodShrinks("wave")
BY DEF StoodOK, StoodShrinks

LEMMA SameLanded ==
  ASSUME LandedWasScreened, UNCHANGED landed
  PROVE  LandedWasScreened'
BY DEF LandedWasScreened

(* Which pull requests merge when a commit is landed. *)
LEMMA Merging ==
  ASSUME GithubOK, HeadsOK, NEW head \in SUBSET Changes, Land(head), NEW p \in PRs
  PROVE  /\ pr'[p] \in PRStates
         /\ pr'[p].version = pr[p].version /\ pr'[p].head = pr[p].head
         /\ pr'[p].held = pr[p].held /\ pr'[p].objected = pr[p].objected
         /\ pr'[p].state = pr[p].state \/ (pr'[p].state = "merged" /\ pr[p].state = "open")
         /\ Merges(p) => Own(p) \in head \ main
         /\ pr'[p].state = "open" => pr[p].state = "open" /\ Own(p) \notin main'
<1>1. main' = main \cup head
  BY DEF Land
<1>2. pr[p] \in PRStates
  BY DEF GithubOK
<1>3. pr'[p] = IF pr[p].state = "open" /\ pr[p].head \subseteq main' THEN [pr[p] EXCEPT !.state = "merged"] ELSE pr[p]
  BY DEF Land
<1>4. Own(p) \in pr[p].head /\ pr[p].head \ {Own(p)} \subseteq main /\ (pr[p].state = "open" => Own(p) \notin main)
  BY DEF HeadsOK
<1>5. CASE pr[p].state = "open" /\ pr[p].head \subseteq main'
  <2>1. pr'[p] = [pr[p] EXCEPT !.state = "merged"]
    BY <1>3, <1>5
  <2>2. pr'[p] \in PRStates /\ pr'[p].state = "merged"
    BY <1>2, <2>1 DEF PRStates
  <2>3. /\ pr'[p].version = pr[p].version /\ pr'[p].head = pr[p].head
        /\ pr'[p].held = pr[p].held /\ pr'[p].objected = pr[p].objected
    BY <1>2, <2>1 DEF PRStates
  <2>4. Own(p) \in head \ main
    BY <1>1, <1>4, <1>5
  <2> QED
    BY <1>5, <2>2, <2>3, <2>4
<1>6. CASE ~(pr[p].state = "open" /\ pr[p].head \subseteq main')
  <2>1. pr'[p] = pr[p]
    BY <1>3, <1>6
  <2>2. pr[p].state = "open" => Own(p) \notin main'
    BY <1>1, <1>4, <1>6
  <2>3. ~Merges(p)
    BY <2>1 DEF Merges
  <2>4. /\ pr'[p] \in PRStates /\ pr'[p].version = pr[p].version /\ pr'[p].head = pr[p].head
        /\ pr'[p].held = pr[p].held /\ pr'[p].objected = pr[p].objected /\ pr'[p].state = pr[p].state
    BY <1>2, <2>1
  <2>5. pr'[p].state = "open" => pr[p].state = "open" /\ Own(p) \notin main'
    BY <2>2, <2>4
  <2> QED
    BY <2>3, <2>4, <2>5
<1> QED
  BY <1>5, <1>6

(* What may be landed: a commit that CI accepts, with no version unknown, and with no pull *)
(* request whose dependencies are not merged.                                              *)
Landable(head) ==
  /\ head \in SUBSET Changes /\ Green(main \cup head)
  /\ \A p \in PRs : /\ Own(p) \in head \ main => DependenciesReady(p)
                    /\ \A x \in head \ main : x[1] = p => x[2] <= pr[p].version

LEMMA Landing ==
  ASSUME Inv, NEW head, Landable(head), Land(head), UNCHANGED <<ci, events>>
  PROVE  /\ GithubOK' /\ HeadsOK' /\ MainIsGreen' /\ DependenciesFirst' /\ Grows
         /\ \A p \in PRs : pr'[p].held = pr[p].held /\ pr'[p].objected = pr[p].objected
<1>1. main' = main \cup head /\ head \subseteq Changes /\ Green(main \cup head)
  BY DEF Land, Landable
<1>2. \A p \in PRs : /\ pr'[p] \in PRStates
                     /\ pr'[p].version = pr[p].version /\ pr'[p].head = pr[p].head
                     /\ pr'[p].held = pr[p].held /\ pr'[p].objected = pr[p].objected
                     /\ pr'[p].state = pr[p].state \/ (pr'[p].state = "merged" /\ pr[p].state = "open")
                     /\ Merges(p) => Own(p) \in head \ main
                     /\ pr'[p].state = "open" => pr[p].state = "open" /\ Own(p) \notin main'
  BY <1>1, Merging DEF Inv
<1>3. pr' \in [PRs -> PRStates]
  <2>1. pr' = [p \in PRs |-> pr'[p]]
    BY DEF Land
  <2> QED
    BY <1>2, <2>1
<1>4. \A p \in PRs : pr[p].version \in Nat
  BY DEF Inv, GithubOK, PRStates
<1>5. Grows
  <2>1. \A p \in PRs : pr[p].version <= pr'[p].version /\ (pr[p].state = "merged" => pr'[p].state = "merged")
    BY <1>2, <1>4
  <2>2. \A c : ChecksReady(c) => RunOf(c)' = "success"
    BY DEF ChecksReady, RunOf
  <2>3. pr \in [PRs -> PRStates]
    BY DEF Inv, GithubOK
  <2> QED
    BY <1>1, <1>3, <2>1, <2>2, <2>3 DEF Grows
<1>6. GithubOK'
  <2>1. main' \subseteq Changes /\ events' \in 0 .. MaxEvents
    BY <1>1 DEF Inv, GithubOK
  <2>2. CiOK'
    BY DEF Inv, GithubOK, CiOK, Green, CiStates, Changes
  <2> QED
    BY <1>3, <2>1, <2>2 DEF GithubOK, Changes, PRStates
<1>7. HeadsOK'
  <2> SUFFICES ASSUME NEW p \in PRs
               PROVE  /\ Own(p)' \in pr'[p].head /\ pr'[p].head \ {Own(p)'} \subseteq main'
                      /\ p \in Wave => pr'[p].head = {Own(p)'}
                      /\ pr'[p].state = "open" => Own(p)' \notin main'
                      /\ \A x \in main' : x[1] = p => x[2] <= pr'[p].version
    BY DEF HeadsOK
  <2>1. Own(p)' = Own(p)
    BY <1>2 DEF Own
  <2>2. /\ Own(p) \in pr[p].head /\ pr[p].head \ {Own(p)} \subseteq main
        /\ p \in Wave => pr[p].head = {Own(p)}
        /\ \A x \in main : x[1] = p => x[2] <= pr[p].version
    BY DEF Inv, HeadsOK
  <2>3. \A x \in head \ main : x[1] = p => x[2] <= pr[p].version
    BY DEF Landable
  <2>4. \A x \in main' : x[1] = p => x[2] <= pr[p].version
    BY <1>1, <2>2, <2>3
  <2>5. Own(p) \in pr'[p].head /\ pr'[p].head \ {Own(p)} \subseteq main' /\ (p \in Wave => pr'[p].head = {Own(p)})
    BY <1>1, <1>2, <2>2
  <2> QED
    BY <1>2, <2>1, <2>4, <2>5
<1>8. MainIsGreen'
  BY <1>1 DEF MainIsGreen, Green
<1>9. DependenciesFirst'
  <2> SUFFICES ASSUME NEW p \in PRs, pr'[p].state = "merged", NEW d \in Depends[p]
               PROVE  pr'[d].state = "merged"
    BY DEF DependenciesFirst
  <2>1. d \in PRs
    BY DEF Inv, QueueAssumption, DependsAssumption
  <2>2. CASE pr[p].state = "merged"
    <3>1. pr[d].state = "merged"
      BY <2>2 DEF Inv, DependenciesFirst
    <3> QED
      BY <1>2, <2>1, <3>1
  <2>3. CASE pr[p].state # "merged"
    <3>1. Merges(p)
      BY <1>2, <2>3 DEF Merges
    <3>2. DependenciesReady(p)
      BY <1>2, <3>1 DEF Landable
    <3>3. d = p \/ pr[d].state = "merged"
      BY <3>2 DEF DependenciesReady
    <3> QED
      BY <1>2, <2>1, <3>3
  <2> QED
    BY <2>2, <2>3
<1> QED
  BY <1>2, <1>5, <1>6, <1>7, <1>8, <1>9

-----------------------------------------------------------------------------
(* Steps of the queue worker *)

(* What the others remember while the worker goes on. *)
LEMMA QueueStays ==
  ASSUME Inv, Grows, UNCHANGED queue, StoodShrinks("queue")
  PROVE  QueueRunOK(queue)'
<1>1. PICK run : run = queue
  OBVIOUS
<1>2. QueueRunOK(run)'
  BY <1>1, QueueRunStays DEF Inv
<1> QED
  BY <1>1, <1>2

LEMMA WaveStays ==
  ASSUME Inv, Grows, UNCHANGED <<wave, waves>>, StoodShrinks("wave")
  PROVE  WavesOK' /\ WaveRunOK(wave)'
<1>1. PICK run : run = wave
  OBVIOUS
<1>2. WaveRunOK(run) /\ (run.pc \in ChoosingPcs \cup {"combine"} => waves' = {})
  BY <1>1 DEF Inv, WaveRunOK, ChoosingOK, CombineOK
<1>3. WaveRunOK(run)'
  BY <1>2, WaveRunStays DEF Inv
<1>4. WavesOK'
  BY WavesStay DEF Inv
<1> QED
  BY <1>1, <1>3, <1>4

(* A step that only the worker itself remembers. *)
LEMMA QueueGoes ==
  ASSUME Inv, NEW run, queue' = run, QueueRunOK(run), UNCHANGED <<main, pr, ci, waves, wave, events, stood, landed>>
  PROVE  Inv'
<1>1. Grows /\ GithubOK' /\ HeadsOK' /\ MainIsGreen' /\ DependenciesFirst' /\ LandedWasScreened'
  BY SameRecord, SamePulls, SameLanded DEF Inv
<1>2. StoodOK' /\ StoodShrinks("queue") /\ StoodShrinks("wave")
  BY SameStood DEF Inv
<1>3. QueueRunOK(queue)'
  BY <1>1, <1>2, QueueRunStays DEF Inv
<1>4. WavesOK' /\ WaveRunOK(wave)'
  BY <1>1, <1>2, WaveStays
<1> QED
  BY <1>1, <1>2, <1>3, <1>4 DEF Inv

(* The worker passes to the next pull request of its list ... *)
LEMMA QueueNext ==
  ASSUME NEW q, QueueRunOK(q), q.todo # <<>>, q.pc # "done",
         NEW b \in SUBSET Pulls, \A u \in b : u.pr \notin Wave,
         NEW run, run = [pc |-> "dependencies", todo |-> Tail(q.todo), behind |-> b, mutations |-> q.mutations]
  PROVE  QueueRunOK(run)
<1>1. q.todo \in Seq(Pulls) /\ q.mutations = 0
  BY DEF QueueRunOK
<1>2. Tail(q.todo) \in Seq(Pulls) /\ ToSet(q.todo) = {Head(q.todo)} \cup ToSet(Tail(q.todo))
  BY <1>1, HeadAndTail
<1>3. run \in [pc : QueuePcs, todo : Seq(Pulls), behind : SUBSET Pulls, mutations : {0, 1}]
  BY <1>1, <1>2 DEF QueuePcs
<1>4. \A u \in ToSet(run.todo) : u.pr \notin Wave /\ <<"held", u.pr>> \notin stood["queue"]
  BY <1>2 DEF QueueRunOK
<1> QED
  BY <1>1, <1>3, <1>4 DEF QueueRunOK

LEMMA NextCandidateOK ==
  ASSUME QueueRunOK(queue), queue.todo # <<>>, queue.pc # "done", NEW run, run = NextCandidate
  PROVE  QueueRunOK(run)
<1>1. queue \in [pc : QueuePcs, todo : Seq(Pulls), behind : SUBSET Pulls, mutations : {0, 1}]
  BY DEF QueueRunOK
<1>2. PICK q, b : q = queue /\ b = queue.behind
  OBVIOUS
<1>3. run = [pc |-> "dependencies", todo |-> Tail(q.todo), behind |-> b, mutations |-> q.mutations]
  BY <1>1, <1>2 DEF NextCandidate
<1>4. QueueRunOK(q) /\ q.todo # <<>> /\ q.pc # "done" /\ b \in SUBSET Pulls /\ \A u \in b : u.pr \notin Wave
  BY <1>1, <1>2 DEF QueueRunOK
<1> QED
  BY <1>3, <1>4, QueueNext

(* ... or learns more about this one. *)
LEMMA QueueMoves ==
  ASSUME QueueRunOK(queue), queue.todo # <<>>, queue.pc # "done",
         NEW there \in {"checks", "reviews", "fresh", "merge"}, NEW run, run = [queue EXCEPT !.pc = there],
         DependenciesReady(Candidate.pr),
         there # "checks" => ChecksReady(Candidate.sha),
         there \in {"fresh", "merge"} => <<"objected", Candidate.pr>> \notin stood["queue"]
  PROVE  QueueRunOK(run)
<1>1. queue \in [pc : QueuePcs, todo : Seq(Pulls), behind : SUBSET Pulls, mutations : {0, 1}] /\ queue.mutations = 0
  BY DEF QueueRunOK
<1>2. run.pc = there /\ run.todo = queue.todo /\ run.behind = queue.behind /\ run.mutations = 0
  BY <1>1
<1>3. run \in [pc : QueuePcs, todo : Seq(Pulls), behind : SUBSET Pulls, mutations : {0, 1}]
  BY <1>1 DEF QueuePcs
<1>4. \A u \in ToSet(run.todo) : u.pr \notin Wave /\ <<"held", u.pr>> \notin stood["queue"]
  BY <1>2 DEF QueueRunOK
<1>5. \A u \in run.behind : u.pr \notin Wave
  BY <1>2 DEF QueueRunOK
<1> QED
  BY <1>2, <1>3, <1>4, <1>5 DEF QueueRunOK, Candidate

LEMMA EmptyList == ToSet(<<>>) = {} /\ <<>> \in Seq(Pulls)
<1>1. <<>> \in Seq(Pulls)
  OBVIOUS
<1> QED
  BY <1>1, SetOfSeq

LEMMA QueueIdleOK ==
  ASSUME NEW run, run = QueueIdle
  PROVE  QueueRunOK(run)
BY EmptyList DEF QueueRunOK, QueueIdle, QueuePcs

(* The candidate is a pull request of the queue that is not held. *)
LEMMA CandidateKnown ==
  ASSUME QueueRunOK(queue), queue.todo # <<>>
  PROVE  /\ Candidate \in Pulls /\ Candidate.pr \in PRs /\ Candidate.sha \in SUBSET Changes
         /\ Candidate.pr \notin Wave /\ <<"held", Candidate.pr>> \notin stood["queue"]
<1>1. queue.todo \in Seq(Pulls)
  BY DEF QueueRunOK
<1>2. Candidate \in Pulls /\ Candidate \in ToSet(queue.todo)
  BY <1>1, HeadAndTail DEF Candidate
<1> QED
  BY <1>2 DEF QueueRunOK, Pulls

LEMMA QueueStartKeeps ==
  ASSUME Inv, QueueStart
  PROVE  Inv'
<1>1. PICK ps : ps = {p \in PRs \ Wave : Eligible(p)}
  OBVIOUS
<1>2. PICK list : list = Listed(ps)
  OBVIOUS
<1>3. list \in Seq(Pulls) /\ \A u \in ToSet(list) : u.pr \in ps /\ u.sha = pr[u.pr].head
  BY <1>1, <1>2, ListedPulls DEF Inv, GithubOK
<1>4. PICK run : run = queue'
  OBVIOUS
<1>5. run = [pc |-> "dependencies", todo |-> list, behind |-> {}, mutations |-> 0]
  BY <1>1, <1>2, <1>4 DEF QueueStart, QueueIdle
<1>6. UNCHANGED <<main, pr, ci, waves, wave, events, landed>> /\ stood' = [stood EXCEPT !["queue"] = StandingNow]
  BY DEF QueueStart, githubVars
<1>7. Grows /\ GithubOK' /\ HeadsOK' /\ MainIsGreen' /\ DependenciesFirst' /\ LandedWasScreened'
  BY <1>6, SameRecord, SamePulls, SameLanded DEF Inv
<1>8. DOMAIN stood = {"queue", "wave"} /\ stood'["queue"] = StandingNow /\ stood'["wave"] = stood["wave"]
      /\ DOMAIN stood' = {"queue", "wave"}
  BY <1>6 DEF Inv, StoodOK
<1>9. \A p \in PRs : (<<"held", p>> \in StandingNow => pr[p].held) /\ (<<"objected", p>> \in StandingNow => pr[p].objected)
  BY DEF StandingNow
<1>10. StoodOK'
  BY <1>6, <1>8, <1>9 DEF Inv, StoodOK
<1>11. \A u \in ToSet(list) : u.pr \in PRs /\ u.pr \notin Wave /\ ~pr[u.pr].held
  BY <1>1, <1>3 DEF Eligible
<1>12. \A u \in ToSet(list) : <<"held", u.pr>> \notin stood["queue"] /\ <<"held", u.pr>> \notin stood'["queue"]
  BY <1>8, <1>9, <1>11 DEF Inv, StoodOK
<1>13. QueueRunOK(run)
  BY <1>3, <1>5, <1>11, <1>12 DEF QueueRunOK, QueuePcs
<1>14. QueueRunOK(run)'
  BY <1>5, <1>7, <1>12, <1>13, QueueRunStays DEF Inv
<1>15. WavesOK' /\ WaveRunOK(wave)'
  <2>1. StoodShrinks("wave")
    BY <1>8 DEF StoodShrinks
  <2> QED
    BY <1>6, <1>7, <2>1, WaveStays
<1> QED
  BY <1>4, <1>7, <1>10, <1>14, <1>15 DEF Inv

LEMMA QueueAsks ==
  ASSUME Inv,
         \/ QueueAsk("dependencies", "checks", DependenciesReady(Candidate.pr))
         \/ QueueAsk("checks", "reviews", ChecksReady(Candidate.sha))
         \/ QueueAsk("reviews", "fresh", ReviewsReady(Candidate.pr))
  PROVE  Inv'
<1>1. PICK run : run = queue'
  OBVIOUS
<1>2. /\ UNCHANGED <<main, pr, ci, waves, wave, events, stood, landed>>
      /\ queue.todo # <<>> /\ queue.pc \in {"dependencies", "checks", "reviews"}
  BY DEF QueueAsk, githubVars
<1>3. \/ run = NextCandidate
      \/ queue.pc = "dependencies" /\ DependenciesReady(Candidate.pr) /\ run = [queue EXCEPT !.pc = "checks"]
      \/ queue.pc = "checks" /\ ChecksReady(Candidate.sha) /\ run = [queue EXCEPT !.pc = "reviews"]
      \/ queue.pc = "reviews" /\ ReviewsReady(Candidate.pr) /\ run = [queue EXCEPT !.pc = "fresh"]
  BY <1>1 DEF QueueAsk
<1>4. QueueRunOK(queue) /\ Candidate.pr \in PRs
  BY <1>2, CandidateKnown DEF Inv
<1>5. ASSUME run = NextCandidate
      PROVE  QueueRunOK(run)
  BY <1>2, <1>4, <1>5, NextCandidateOK
<1>6. ASSUME queue.pc = "dependencies" /\ DependenciesReady(Candidate.pr) /\ run = [queue EXCEPT !.pc = "checks"]
      PROVE  QueueRunOK(run)
  BY <1>2, <1>4, <1>6, QueueMoves
<1>7. ASSUME queue.pc = "checks" /\ ChecksReady(Candidate.sha) /\ run = [queue EXCEPT !.pc = "reviews"]
      PROVE  QueueRunOK(run)
  <2>1. DependenciesReady(Candidate.pr)
    BY <1>4, <1>7 DEF QueueRunOK, Candidate
  <2> QED
    BY <1>2, <1>4, <1>7, <2>1, QueueMoves
<1>8. ASSUME queue.pc = "reviews" /\ ReviewsReady(Candidate.pr) /\ run = [queue EXCEPT !.pc = "fresh"]
      PROVE  QueueRunOK(run)
  <2>1. DependenciesReady(Candidate.pr) /\ ChecksReady(Candidate.sha)
    BY <1>4, <1>8 DEF QueueRunOK, Candidate
  <2>2. <<"objected", Candidate.pr>> \notin stood["queue"]
    BY <1>4, <1>8 DEF Inv, StoodOK, ReviewsReady
  <2> QED
    BY <1>2, <1>4, <1>8, <2>1, <2>2, QueueMoves
<1>9. QueueRunOK(run)
  BY <1>3, <1>5, <1>6, <1>7, <1>8
<1> QED
  BY <1>1, <1>2, <1>9, QueueGoes

LEMMA QueueFreshPullKeeps ==
  ASSUME Inv, QueueFreshPull
  PROVE  Inv'
<1>1. PICK run : run = queue'
  OBVIOUS
<1>2. UNCHANGED <<main, pr, ci, waves, wave, events, stood, landed>> /\ queue.pc = "fresh"
  BY DEF QueueFreshPull, githubVars
<1>3. QueueRunOK(queue) /\ queue.todo # <<>>
  BY <1>2 DEF Inv, QueueRunOK
<1>4. \/ run = NextCandidate
      \/ run = [NextCandidate EXCEPT !.behind = IF @ = {} THEN {Candidate} ELSE @]
      \/ run = [queue EXCEPT !.pc = "merge"]
  BY <1>1 DEF QueueFreshPull, Candidate
<1>5. ASSUME run = NextCandidate
      PROVE  QueueRunOK(run)
  BY <1>2, <1>3, <1>5, NextCandidateOK
<1>6. ASSUME run = [NextCandidate EXCEPT !.behind = IF @ = {} THEN {Candidate} ELSE @]
      PROVE  QueueRunOK(run)
  <2>1. queue \in [pc : QueuePcs, todo : Seq(Pulls), behind : SUBSET Pulls, mutations : {0, 1}]
    BY <1>3 DEF QueueRunOK
  <2>2. PICK q, b : q = queue /\ b = IF queue.behind = {} THEN {Candidate} ELSE queue.behind
    OBVIOUS
  <2>3. run = [pc |-> "dependencies", todo |-> Tail(q.todo), behind |-> b, mutations |-> q.mutations]
    BY <1>6, <2>1, <2>2 DEF NextCandidate
  <2>4. Candidate \in Pulls /\ Candidate.pr \notin Wave
    BY <1>3, CandidateKnown
  <2>5. b \in SUBSET Pulls /\ \A u \in b : u.pr \notin Wave
    BY <1>3, <2>1, <2>2, <2>4 DEF QueueRunOK
  <2>6. QueueRunOK(q) /\ q.todo # <<>> /\ q.pc # "done"
    BY <1>2, <1>3, <2>2
  <2> QED
    BY <2>3, <2>5, <2>6, QueueNext
<1>7. ASSUME run = [queue EXCEPT !.pc = "merge"]
      PROVE  QueueRunOK(run)
  <2>1. /\ DependenciesReady(Candidate.pr) /\ ChecksReady(Candidate.sha)
        /\ <<"objected", Candidate.pr>> \notin stood["queue"]
    BY <1>2, <1>3 DEF QueueRunOK, Candidate
  <2> QED
    BY <1>2, <1>3, <1>7, <2>1, QueueMoves
<1>8. QueueRunOK(run)
  BY <1>4, <1>5, <1>6, <1>7
<1> QED
  BY <1>1, <1>2, <1>8, QueueGoes

LEMMA QueueEnds ==
  ASSUME Inv, QueueEnd \/ QueueFail
  PROVE  Inv'
<1>1. PICK run : run = QueueIdle
  OBVIOUS
<1>2. queue' = run /\ UNCHANGED <<main, pr, ci, waves, wave, events, stood, landed>>
  BY <1>1 DEF QueueEnd, QueueFail, githubVars
<1>3. QueueRunOK(run)
  BY <1>1, QueueIdleOK
<1> QED
  BY <1>2, <1>3, QueueGoes

-----------------------------------------------------------------------------
(* Steps of the queue worker on GitHub *)

LEMMA SuccessIsGreen ==
  ASSUME CiOK, NEW c, ChecksReady(c)
  PROVE  Green(c)
BY DEF CiOK, ChecksReady, RunOf

(* A new commit gets a run that is still to begin. *)
LEMMA WithRunKeeps ==
  ASSUME CiOK, NEW c \in SUBSET Changes, NEW state \in {"queued", "action_required"}, ci' = WithRun(c, state)
  PROVE  CiOK' /\ \A d : ChecksReady(d) => RunOf(d)' = "success"
<1>1. CASE c \in DOMAIN ci
  BY <1>1 DEF CiOK, WithRun, ChecksReady, RunOf, Green, CiStates, Changes
<1>2. CASE c \notin DOMAIN ci
  <2>1. ci' = [d \in DOMAIN ci \cup {c} |-> IF d = c THEN state ELSE ci[d]]
    BY <1>2 DEF WithRun
  <2>2. DOMAIN ci' = DOMAIN ci \cup {c} /\ ci'[c] = state /\ \A d \in DOMAIN ci : ci'[d] = ci[d]
    BY <1>2, <2>1
  <2>3. \A d \in DOMAIN ci' : d \subseteq Changes /\ ci'[d] \in CiStates /\ (ci'[d] = "success" => Green(d))
    BY <2>2 DEF CiOK, CiStates
  <2>4. CiOK'
    BY <2>3 DEF CiOK, Green, CiStates, Changes
  <2>5. \A d : ChecksReady(d) => RunOf(d)' = "success"
    BY <2>2 DEF ChecksReady, RunOf
  <2> QED
    BY <2>4, <2>5
<1> QED
  BY <1>1, <1>2

(* The head that the queue merges brings one change that main does not have. *)
LEMMA PullLands ==
  ASSUME Inv, queue.pc = "merge", pr[Candidate.pr].head = Candidate.sha, ~Behind(Candidate.sha)
  PROVE  /\ queue.todo # <<>> /\ Landable(Candidate.sha)
         /\ \A p \in PRs : Own(p) \in Candidate.sha \ main => p = Candidate.pr
<1>1. QueueRunOK(queue) /\ queue.todo # <<>> /\ DependenciesReady(Candidate.pr) /\ ChecksReady(Candidate.sha)
  BY DEF Inv, QueueRunOK, Candidate
<1>2. PICK p \in PRs, c \in SUBSET Changes : p = Candidate.pr /\ c = Candidate.sha
  BY <1>1, CandidateKnown
<1>3. main \cup c = c /\ Green(c)
  BY <1>1, <1>2, SuccessIsGreen DEF Behind, Inv, GithubOK
<1>4. \A x \in c \ main : x = Own(p)
  BY <1>2 DEF Inv, HeadsOK
<1>5. \A q \in PRs : Own(q) \in c \ main => q = p
  BY <1>4 DEF Own
<1>6. pr[p].version \in Nat
  BY <1>2 DEF Inv, GithubOK, PRStates
<1>7. \A q \in PRs, x \in c \ main : x[1] = q => x[2] <= pr[q].version
  BY <1>4, <1>6 DEF Own
<1> QED
  BY <1>1, <1>2, <1>3, <1>5, <1>7 DEF Landable

(* The run of the queue is over. *)
LEMMA QueueDone ==
  ASSUME QueueRunOK(queue), queue.pc # "done", NEW run,
         run = [queue EXCEPT !.pc = "done"] \/ run = [queue EXCEPT !.pc = "done", !.mutations = @ + 1]
  PROVE  QueueRunOK(run)
<1>1. queue \in [pc : QueuePcs, todo : Seq(Pulls), behind : SUBSET Pulls, mutations : {0, 1}] /\ queue.mutations = 0
  BY DEF QueueRunOK
<1>2. run.pc = "done" /\ run.todo = queue.todo /\ run.behind = queue.behind
  BY <1>1
<1>3. run \in [pc : QueuePcs, todo : Seq(Pulls), behind : SUBSET Pulls, mutations : {0, 1}]
  <2>1. ASSUME run = [queue EXCEPT !.pc = "done"]
        PROVE  run = [pc |-> "done", todo |-> queue.todo, behind |-> queue.behind, mutations |-> 0]
    BY <1>1, <2>1
  <2>2. ASSUME run = [queue EXCEPT !.pc = "done", !.mutations = @ + 1]
        PROVE  run = [pc |-> "done", todo |-> queue.todo, behind |-> queue.behind, mutations |-> 1]
    <3>1. PICK n : n = queue.mutations + 1
      OBVIOUS
    <3>2. n = 1
      BY <1>1, <3>1
    <3>3. run = [queue EXCEPT !.pc = "done", !.mutations = n]
      BY <2>2, <3>1
    <3>4. run = [pc |-> "done", todo |-> queue.todo, behind |-> queue.behind, mutations |-> n]
      BY <1>1, <3>3
    <3> QED
      BY <3>2, <3>4
  <2>3. PICK n \in {0, 1} : run = [pc |-> "done", todo |-> queue.todo, behind |-> queue.behind, mutations |-> n]
    BY <2>1, <2>2
  <2> QED
    BY <1>1, <2>3 DEF QueuePcs
<1> QED
  BY <1>2, <1>3 DEF QueueRunOK

LEMMA MergePullKeeps ==
  ASSUME Inv, MergePull
  PROVE  Inv'
<1>1. PICK run : run = queue'
  OBVIOUS
<1>2. QueueRunOK(queue) /\ queue.pc = "merge" /\ queue.todo # <<>>
  BY DEF MergePull, Inv, QueueRunOK
<1>3. CASE pr[Candidate.pr].state = "open" /\ Accepts(pr[Candidate.pr].head, Candidate.sha)
  <2>1. /\ Land(Candidate.sha) /\ run = [queue EXCEPT !.pc = "done", !.mutations = @ + 1]
        /\ UNCHANGED <<ci, waves, wave, events, stood, landed>>
    BY <1>1, <1>3 DEF MergePull, Candidate
  <2>2. PICK c : c = Candidate.sha
    OBVIOUS
  <2>3. Landable(c) /\ Land(c)
    BY <1>2, <1>3, <2>1, <2>2, PullLands DEF Accepts
  <2>4. /\ GithubOK' /\ HeadsOK' /\ MainIsGreen' /\ DependenciesFirst' /\ Grows
        /\ \A p \in PRs : pr'[p].held = pr[p].held /\ pr'[p].objected = pr[p].objected
    BY <2>1, <2>3, Landing
  <2>5. StoodOK' /\ StoodShrinks("queue") /\ StoodShrinks("wave")
    BY <2>1, <2>4, SameStood DEF Inv
  <2>6. QueueRunOK(run)
    BY <1>2, <2>1, QueueDone
  <2>7. QueueRunOK(run)'
    BY <2>4, <2>5, <2>6, QueueRunStays DEF Inv
  <2>8. WavesOK' /\ WaveRunOK(wave)' /\ LandedWasScreened'
    BY <2>1, <2>4, <2>5, WaveStays, SameLanded DEF Inv
  <2> QED
    BY <1>1, <2>4, <2>5, <2>7, <2>8 DEF Inv
<1>4. CASE ~(pr[Candidate.pr].state = "open" /\ Accepts(pr[Candidate.pr].head, Candidate.sha))
  <2>1. run = NextCandidate /\ UNCHANGED <<main, pr, ci, waves, wave, events, stood, landed>>
    BY <1>1, <1>4 DEF MergePull, Candidate, githubVars
  <2>2. QueueRunOK(run)
    BY <1>2, <2>1, NextCandidateOK
  <2> QED
    BY <1>1, <2>1, <2>2, QueueGoes
<1> QED
  BY <1>3, <1>4

(* A branch that is behind gets main, and nothing else. *)
LEMMA HeadUpdated ==
  ASSUME Inv, NEW q \in PRs \ Wave, NEW head, head = pr[q].head \cup main,
         pr' = [pr EXCEPT ![q].head = head], NEW state \in {"queued", "action_required"}, ci' = WithRun(head, state), UNCHANGED <<main, events>>
  PROVE  /\ GithubOK' /\ HeadsOK' /\ MainIsGreen' /\ DependenciesFirst' /\ Grows
         /\ \A p \in PRs : pr'[p].held = pr[p].held /\ pr'[p].objected = pr[p].objected
<1>1. pr \in [PRs -> PRStates] /\ main \subseteq Changes /\ CiOK /\ events \in 0 .. MaxEvents
  BY DEF Inv, GithubOK
<1>2. head \in SUBSET Changes
  BY <1>1 DEF PRStates
<1>3. CiOK' /\ \A d : ChecksReady(d) => RunOf(d)' = "success"
  BY <1>1, <1>2, WithRunKeeps
<1>4. \A p \in PRs : /\ pr'[p] \in PRStates /\ pr'[p].version = pr[p].version /\ pr'[p].state = pr[p].state
                     /\ pr'[p].held = pr[p].held /\ pr'[p].objected = pr[p].objected
                     /\ pr'[p].head = IF p = q THEN head ELSE pr[p].head
  <2> TAKE p \in PRs
  <2>1. CASE p = q
    <3>1. pr'[p] = [pr[p] EXCEPT !.head = head] /\ pr[p] \in PRStates
      BY <1>1, <2>1
    <3> QED
      BY <1>2, <2>1, <3>1 DEF PRStates
  <2>2. CASE p # q
    BY <1>1, <2>2
  <2> QED
    BY <2>1, <2>2
<1>5. pr' \in [PRs -> PRStates]
  <2>1. DOMAIN pr' = PRs /\ pr' = [p \in DOMAIN pr' |-> pr'[p]]
    BY <1>1
  <2> QED
    BY <1>4, <2>1
<1>6. GithubOK'
  BY <1>1, <1>3, <1>5 DEF GithubOK, Changes, PRStates
<1>7. \A p \in PRs : pr[p].version \in Nat
  BY <1>1 DEF PRStates
<1>8. Grows
  BY <1>1, <1>3, <1>4, <1>5, <1>7 DEF Grows
<1>9. HeadsOK'
  <2> SUFFICES ASSUME NEW p \in PRs
               PROVE  /\ Own(p)' \in pr'[p].head /\ pr'[p].head \ {Own(p)'} \subseteq main'
                      /\ p \in Wave => pr'[p].head = {Own(p)'}
                      /\ pr'[p].state = "open" => Own(p)' \notin main'
                      /\ \A x \in main' : x[1] = p => x[2] <= pr'[p].version
    BY DEF HeadsOK
  <2>1. Own(p)' = Own(p)
    BY <1>4 DEF Own
  <2>2. /\ Own(p) \in pr[p].head /\ pr[p].head \ {Own(p)} \subseteq main
        /\ p \in Wave => pr[p].head = {Own(p)}
        /\ pr[p].state = "open" => Own(p) \notin main
        /\ \A x \in main : x[1] = p => x[2] <= pr[p].version
    BY DEF Inv, HeadsOK
  <2>3. /\ Own(p) \in pr'[p].head /\ pr'[p].head \ {Own(p)} \subseteq main
        /\ p \in Wave => pr'[p].head = {Own(p)}
    BY <1>4, <2>2
  <2> QED
    BY <1>4, <2>1, <2>2, <2>3
<1>10. MainIsGreen'
  BY DEF Inv, MainIsGreen, Green
<1>11. DependenciesFirst'
  <2>1. \A p \in PRs : \A d \in Depends[p] : d \in PRs
    BY DEF Inv, QueueAssumption, DependsAssumption
  <2> QED
    BY <1>4, <2>1 DEF Inv, DependenciesFirst
<1> QED
  BY <1>4, <1>6, <1>8, <1>9, <1>10, <1>11

LEMMA UpdateBranchKeeps ==
  ASSUME Inv, UpdateBranch
  PROVE  Inv'
<1>1. PICK run : run = queue'
  OBVIOUS
<1>2. PICK c : c = CHOOSE d \in queue.behind : TRUE
  OBVIOUS
<1>3. PICK head : head = c.sha \cup main
  OBVIOUS
<1>4. /\ queue.pc = "dependencies" /\ queue.behind # {} /\ UNCHANGED <<wave, events, stood, landed>>
      /\ \/ /\ pr[c.pr].head = c.sha /\ pr' = [pr EXCEPT ![c.pr].head = head]
            /\ \E state \in {"queued", "action_required"} : ci' = WithRun(head, state)
            /\ run = [queue EXCEPT !.pc = "done", !.mutations = @ + 1] /\ UNCHANGED <<main, waves>>
         \/ run = [queue EXCEPT !.pc = "done"] /\ UNCHANGED <<main, pr, ci, waves>>
  BY <1>1, <1>2, <1>3 DEF UpdateBranch, githubVars
<1>5. QueueRunOK(queue)
  BY DEF Inv
<1>6. QueueRunOK(run)
  BY <1>4, <1>5, QueueDone
<1>7. CASE run = [queue EXCEPT !.pc = "done"] /\ UNCHANGED <<main, pr, ci, waves>>
  BY <1>1, <1>4, <1>6, <1>7, QueueGoes
<1>8. CASE /\ pr[c.pr].head = c.sha /\ pr' = [pr EXCEPT ![c.pr].head = head]
           /\ \E state \in {"queued", "action_required"} : ci' = WithRun(head, state)
           /\ UNCHANGED <<main, waves>>
  <2>1. PICK p : p = c.pr
    OBVIOUS
  <2>2. c \in queue.behind /\ queue.behind \subseteq Pulls /\ \A u \in queue.behind : u.pr \notin Wave
    BY <1>2, <1>4, <1>5 DEF QueueRunOK
  <2>3. p \in PRs \ Wave
    BY <2>1, <2>2 DEF Pulls
  <2>4. head = pr[p].head \cup main /\ pr' = [pr EXCEPT ![p].head = head]
    BY <1>3, <1>8, <2>1
  <2>5. /\ GithubOK' /\ HeadsOK' /\ MainIsGreen' /\ DependenciesFirst' /\ Grows
        /\ \A q \in PRs : pr'[q].held = pr[q].held /\ pr'[q].objected = pr[q].objected
    BY <1>4, <1>8, <2>3, <2>4, HeadUpdated
  <2>6. StoodOK' /\ StoodShrinks("queue") /\ StoodShrinks("wave")
    BY <1>4, <2>5, SameStood DEF Inv
  <2>7. QueueRunOK(run)'
    BY <1>6, <2>5, <2>6, QueueRunStays DEF Inv
  <2>8. WavesOK' /\ WaveRunOK(wave)' /\ LandedWasScreened'
    BY <1>4, <1>8, <2>5, <2>6, WaveStays, SameLanded DEF Inv
  <2> QED
    BY <1>1, <2>5, <2>6, <2>7, <2>8 DEF Inv
<1> QED
  BY <1>4, <1>7, <1>8

-----------------------------------------------------------------------------
(* Steps of the wave worker that choose pull requests *)

(* A step that only the worker itself remembers. *)
LEMMA WaveGoesOn ==
  ASSUME Inv, NEW run, wave' = run, WaveRunOK(run), UNCHANGED <<main, pr, ci, waves, queue, events, stood, landed>>
  PROVE  Inv'
<1>1. Grows /\ GithubOK' /\ HeadsOK' /\ MainIsGreen' /\ DependenciesFirst' /\ LandedWasScreened'
  BY SameRecord, SamePulls, SameLanded DEF Inv
<1>2. StoodOK' /\ StoodShrinks("queue") /\ StoodShrinks("wave")
  BY SameStood DEF Inv
<1>3. QueueRunOK(queue)'
  BY <1>1, <1>2, QueueStays
<1>4. WavesOK'
  BY <1>1, WavesStay DEF Inv
<1>5. run.pc \in ChoosingPcs \cup {"combine"} => waves' = {}
  BY DEF WaveRunOK, ChoosingOK, CombineOK
<1>6. WaveRunOK(run)'
  BY <1>1, <1>2, <1>5, WaveRunStays DEF Inv
<1> QED
  BY <1>1, <1>2, <1>3, <1>4, <1>6 DEF Inv

LEMMA EmptyPicks == <<>> \in Seq(Picks) /\ Pulled(<<>>) = <<>> /\ Distinct(<<>>) /\ Len(<<>>) = 0
BY DEF Pulled, Distinct

LEMMA WaveIdleOK ==
  ASSUME NEW run, run = WaveIdle
  PROVE  WaveRunOK(run)
<1>1. NoWave \in WaveRecords
  BY EmptyList DEF NoWave, WaveRecords
<1>2. run \in WaveRuns /\ run.pc = "idle"
  BY <1>1, EmptyList, EmptyPicks DEF WaveIdle, WaveRuns, WavePcs
<1> QED
  BY <1>2 DEF WaveRunOK, ChoosingPcs, PromotingPcs

(* Nothing is screened yet. *)
LEMMA NothingScreened ==
  ASSUME QueueAssumption
  PROVE  \E g : PickedOK(g, <<>>)
<1> DEFINE g == [p \in PRs |-> 1]
<1>1. 1 \in 1 .. MaxVersions
  BY DEF QueueAssumption, BoundsAssumption
<1>2. g \in [PRs -> 1 .. MaxVersions]
  BY <1>1
<1>3. ToSet(Pulled(<<>>)) = {}
  BY EmptyPicks, EmptyList
<1>4. PickedOK(g, <<>>)
  BY <1>2, <1>3, EmptyPicks DEF PickedOK, ScreenedAt
<1> QED
  BY <1>4

(* The pull requests of the wave have no other change than their own. *)
LEMMA ListedOfWave ==
  ASSUME HeadsOK, GithubOK, NEW u, u.pr \in Wave, u.pr \in PRs, u.sha = pr[u.pr].head
  PROVE  OfWave(u)
<1>1. u.sha = {<<u.pr, pr[u.pr].version>>}
  BY DEF HeadsOK, Own
<1>2. pr[u.pr].version \in 1 .. pr[u.pr].version
  BY DEF GithubOK, PRStates
<1> QED
  BY <1>1, <1>2 DEF OfWave

LEMMA WaveStartKeeps ==
  ASSUME Inv, WaveStart
  PROVE  Inv'
<1>1. PICK ps : ps = {p \in Wave : Eligible(p)}
  OBVIOUS
<1>2. PICK list : list = Listed(ps)
  OBVIOUS
<1>3. PICK run : run = wave'
  OBVIOUS
<1>4. PICK open : open = CHOOSE w \in waves : TRUE
  OBVIOUS
<1>5. /\ UNCHANGED <<main, pr, ci, waves, queue, events, landed>> /\ stood' = [stood EXCEPT !["wave"] = StandingNow]
      /\ run = IF waves = {} THEN [WaveIdle EXCEPT !.pc = "dependencies", !.todo = list]
                             ELSE [WaveIdle EXCEPT !.pc = "sources", !.todo = open.sources, !.current = open]
  BY <1>1, <1>2, <1>3, <1>4 DEF WaveStart, githubVars
<1>6. Grows /\ GithubOK' /\ HeadsOK' /\ MainIsGreen' /\ DependenciesFirst' /\ LandedWasScreened'
  BY <1>5, SameRecord, SamePulls, SameLanded DEF Inv
<1>7. DOMAIN stood = {"queue", "wave"} /\ stood'["wave"] = StandingNow /\ stood'["queue"] = stood["queue"]
      /\ DOMAIN stood' = {"queue", "wave"}
  BY <1>5 DEF Inv, StoodOK
<1>8. \A p \in PRs : (<<"held", p>> \in StandingNow => pr[p].held) /\ (<<"objected", p>> \in StandingNow => pr[p].objected)
  BY DEF StandingNow
<1>9. StoodOK'
  BY <1>5, <1>7, <1>8 DEF Inv, StoodOK
<1>10. QueueRunOK(queue)'
  BY <1>5, <1>6, <1>7, QueueStays DEF StoodShrinks
<1>11. WavesOK'
  BY <1>5, <1>6, WavesStay DEF Inv
<1>12. NoWave \in WaveRecords /\ <<>> \in Seq(Picks) /\ <<>> \in Seq(Pulls)
  BY EmptyList, EmptyPicks DEF NoWave, WaveRecords
<1>13. ASSUME waves = {}
       PROVE  WaveRunOK(run) /\ run.pc \in ChoosingPcs
  <2>1. ps \in SUBSET PRs /\ ps \subseteq Wave
    BY <1>1 DEF Inv, QueueAssumption, WaveAssumption
  <2>2. list \in Seq(Pulls) /\ Distinct(list) /\ \A u \in ToSet(list) : u.pr \in ps /\ u.sha = pr[u.pr].head
    BY <1>2, <2>1, ListedPulls DEF Inv, GithubOK
  <2>3. \A u \in ToSet(list) : OfWave(u)
    BY <2>1, <2>2, ListedOfWave DEF Inv
  <2>4. run = [pc |-> "dependencies", todo |-> list, picked |-> <<>>, branch |-> {}, current |-> NoWave, base |-> {}]
    BY <1>5, <1>13 DEF WaveIdle
  <2>5. run \in WaveRuns
    BY <1>12, <2>2, <2>4 DEF WaveRuns, WavePcs, ChoosingPcs
  <2>6. \E g : PickedOK(g, run.picked)
    BY <2>4, NothingScreened DEF Inv
  <2>7. Distinct(Pulled(run.picked)) /\ Apart(Pulled(run.picked), run.todo)
    BY <2>4, EmptyPicks DEF Apart
  <2>8. ChoosingOK(run)
    BY <1>13, <2>2, <2>3, <2>4, <2>6, <2>7 DEF ChoosingOK
  <2> QED
    BY <2>4, <2>5, <2>8 DEF WaveRunOK, ChoosingPcs, PromotingPcs
<1>14. ASSUME waves # {}
       PROVE  WaveRunOK(run) /\ Checked(run) = {} /\ run.pc = "sources"
  <2>1. open \in waves
    BY <1>4, <1>14
  <2>2. WholeWave(open, {})
    BY <2>1 DEF Inv, WavesOK
  <2>3. open \in WaveRecords /\ open.sources \in Seq(Pulls)
    BY <2>2 DEF WholeWave, WaveRecords
  <2>4. run = [pc |-> "sources", todo |-> open.sources, picked |-> <<>>, branch |-> {}, current |-> open, base |-> {}]
    BY <1>5, <1>14 DEF WaveIdle
  <2>5. run \in WaveRuns
    BY <1>12, <2>3, <2>4 DEF WaveRuns, WavePcs, PromotingPcs
  <2>6. Checked(run) = {} /\ run.current = open /\ run.pc = "sources"
    BY <2>4 DEF Checked
  <2>7. PromoteOK(run)
    BY <2>2, <2>6 DEF PromoteOK
  <2> QED
    BY <2>5, <2>6, <2>7 DEF WaveRunOK, ChoosingPcs
<1>15. WaveRunOK(run) /\ (run.pc \in ChoosingPcs \/ Checked(run) = {})
  BY <1>13, <1>14
<1>16. run.pc \in ChoosingPcs \cup {"combine"} => waves' = {}
  BY <1>5, <1>15 DEF WaveRunOK, ChoosingOK, CombineOK
<1>17. WaveRunOK(run)'
  BY <1>6, <1>15, <1>16, WaveRunStays DEF Inv
<1> QED
  BY <1>3, <1>6, <1>9, <1>10, <1>11, <1>17 DEF Inv

(* The worker passes to the next pull request ... *)
LEMMA NextPullOK ==
  ASSUME WaveRunOK(wave), wave.pc \in ChoosingPcs, wave.todo # <<>>, NEW run, run = NextPull
  PROVE  WaveRunOK(run)
<1>1. wave \in WaveRuns /\ ChoosingOK(wave) /\ wave.todo \in Seq(Pulls)
  BY DEF WaveRunOK, WaveRuns
<1>2. Tail(wave.todo) \in Seq(Pulls) /\ ToSet(Tail(wave.todo)) \subseteq ToSet(wave.todo)
  BY <1>1, HeadAndTail
<1>3. /\ run.pc = "dependencies" /\ run.todo = Tail(wave.todo)
      /\ run.picked = wave.picked /\ run.current = wave.current
  BY <1>1 DEF NextPull, WaveRuns
<1>4. run \in WaveRuns
  BY <1>1, <1>2 DEF NextPull, WaveRuns, WavePcs, ChoosingPcs
<1>5. Distinct(run.todo) /\ Apart(Pulled(run.picked), run.todo)
  BY <1>1, <1>3, TailDistinct, TailApart DEF ChoosingOK
<1>6. ChoosingOK(run)
  BY <1>1, <1>2, <1>3, <1>5 DEF ChoosingOK
<1> QED
  BY <1>3, <1>4, <1>6 DEF WaveRunOK, PromotingPcs

(* ... or learns more about this one. *)
LEMMA WaveMoves ==
  ASSUME WaveRunOK(wave), wave.pc \in ChoosingPcs, wave.todo # <<>>, DependenciesReady(Pull.pr),
         NEW there \in ChoosingPcs, NEW run, run = [wave EXCEPT !.pc = there]
  PROVE  WaveRunOK(run)
<1>1. wave \in WaveRuns /\ ChoosingOK(wave)
  BY DEF WaveRunOK
<1>2. run.pc = there /\ run.todo = wave.todo /\ run.picked = wave.picked /\ run.current = wave.current
  BY <1>1 DEF WaveRuns
<1>3. run \in WaveRuns
  BY <1>1 DEF WaveRuns, WavePcs
<1>4. ChoosingOK(run)
  BY <1>1, <1>2 DEF ChoosingOK, Pull
<1> QED
  BY <1>2, <1>3, <1>4 DEF WaveRunOK, ChoosingPcs, PromotingPcs

LEMMA WaveAsks ==
  ASSUME Inv, WaveDependencies \/ WaveReviews \/ WaveChecks
  PROVE  Inv'
<1>1. PICK run : run = wave'
  OBVIOUS
<1>2. /\ UNCHANGED <<main, pr, ci, waves, queue, events, stood, landed>>
      /\ wave.todo # <<>> /\ wave.pc \in ChoosingPcs
  BY DEF WaveDependencies, WaveReviews, WaveChecks, WaveAsk, WaveGoes, Choosing, githubVars, ChoosingPcs
<1>3. \/ run = NextPull
      \/ wave.pc = "dependencies" /\ DependenciesReady(Pull.pr) /\ run = [wave EXCEPT !.pc = "reviews"]
      \/ wave.pc = "reviews" /\ run = [wave EXCEPT !.pc = "checks"]
      \/ wave.pc = "checks" /\ run = [wave EXCEPT !.pc = "files"]
  BY <1>1 DEF WaveDependencies, WaveReviews, WaveChecks, WaveAsk, WaveGoes
<1>4. WaveRunOK(wave)
  BY DEF Inv
<1>5. wave.pc # "dependencies" => DependenciesReady(Pull.pr)
  BY <1>2, <1>4 DEF WaveRunOK, ChoosingOK, Pull
<1>6. ASSUME run = NextPull
      PROVE  WaveRunOK(run)
  BY <1>2, <1>4, <1>6, NextPullOK
<1>7. ASSUME NEW there \in {"reviews", "checks", "files"}, DependenciesReady(Pull.pr), run = [wave EXCEPT !.pc = there]
      PROVE  WaveRunOK(run)
  <2>1. there \in ChoosingPcs
    BY DEF ChoosingPcs
  <2> QED
    BY <1>2, <1>4, <1>7, <2>1, WaveMoves
<1>8. WaveRunOK(run)
  BY <1>3, <1>5, <1>6, <1>7
<1> QED
  BY <1>1, <1>2, <1>8, WaveGoesOn

(* The files that a pull was screened by, when it is picked. *)
LEMMA PickScreened ==
  ASSUME QueueAssumption, GithubOK, NEW picked \in Seq(Picks), NEW g, PickedOK(g, picked),
         NEW pull \in Pulls, OfWave(pull), DependenciesReady(pull.pr),
         \A i \in 1 .. Len(picked) : Pulled(picked)[i].pr # pull.pr,
         NEW e, e = [pull |-> pull, files |-> Own(pull.pr)],
         Touches[Own(pull.pr)] \cap BlockedPaths = {},
         \A i \in 1 .. Len(picked) : Touches[Own(pull.pr)] \cap Touches[picked[i].files] = {}
  PROVE  e \in Picks /\ \E h : PickedOK(h, Append(picked, e))
<1>1. PICK p \in PRs : p = pull.pr
  BY DEF Pulls
<1>2. PICK v \in 1 .. MaxVersions : v = pr[p].version
  BY <1>1 DEF GithubOK, PRStates
<1>3. e = [pull |-> pull, files |-> <<p, v>>] /\ e \in Picks
  BY <1>1, <1>2 DEF Own, Picks
<1>4. PICK s : s = Pulled(picked)
  OBVIOUS
<1>5. /\ s \in Seq(Pulls) /\ Len(s) = Len(picked) /\ Pulled(Append(picked, e)) = Append(s, pull)
      /\ \A i \in 1 .. Len(picked) : s[i] = picked[i].pull
  <2>1. \A i \in 1 .. Len(picked) : s[i] = picked[i].pull
    BY <1>4 DEF Pulled
  <2>2. e.pull = pull
    BY <1>3
  <2> QED
    BY <1>3, <1>4, <2>1, <2>2, PulledSeq
<1>6. PICK S : S = ToSet(s)
  OBVIOUS
<1>7. ToSet(Append(s, pull)) = S \cup {pull} /\ S = {s[i] : i \in 1 .. Len(picked)}
  BY <1>5, <1>6, Longer, SetOfSeq
<1>8. \A u \in S : u.pr # p
  BY <1>1, <1>4, <1>7
<1>9. /\ g \in [PRs -> 1 .. MaxVersions]
      /\ \A u \in S : /\ OfWave(u) /\ DependenciesReady(u.pr)
                      /\ \A w \in 1 .. MaxVersions : u.sha = {<<u.pr, w>>} => w <= g[u.pr]
                      /\ g[u.pr] <= pr[u.pr].version
                      /\ FilesAt(g, u.pr) \cap BlockedPaths = {}
      /\ \A u, w \in S : u.pr # w.pr => FilesAt(g, u.pr) \cap FilesAt(g, w.pr) = {}
  BY <1>4, <1>6 DEF PickedOK, ScreenedAt
<1> DEFINE h == [g EXCEPT ![p] = v]
<1>10. h \in [PRs -> 1 .. MaxVersions] /\ h[p] = v
  BY <1>9
<1>11. \A u \in S : u.pr \in PRs
  BY <1>9 DEF OfWave, QueueAssumption, WaveAssumption
<1>12. \A u \in S : h[u.pr] = g[u.pr]
  BY <1>8, <1>9, <1>11
<1>13. \A u \in S : FilesAt(h, u.pr) = FilesAt(g, u.pr)
  BY <1>12 DEF FilesAt
<1>14. FilesAt(h, p) = Touches[Own(p)]
  BY <1>2, <1>10 DEF FilesAt, Own
<1> HIDE DEF h
<1>15. \A u \in S : FilesAt(h, p) \cap FilesAt(h, u.pr) = {}
  <2> TAKE u \in S
  <2>1. PICK i \in 1 .. Len(picked) : u = s[i]
    BY <1>7
  <2>2. picked[i].files = <<u.pr, g[u.pr]>>
    BY <1>5, <2>1 DEF PickedOK
  <2>3. Touches[picked[i].files] = FilesAt(g, u.pr)
    BY <2>2 DEF FilesAt
  <2> QED
    BY <1>1, <1>13, <1>14, <2>3
<1>16. \A w \in 1 .. MaxVersions : pull.sha = {<<p, w>>} => w <= v
  <2>1. PICK x \in 1 .. pr[p].version : pull.sha = {<<p, x>>}
    BY <1>1 DEF OfWave
  <2>2. ASSUME NEW w \in 1 .. MaxVersions, pull.sha = {<<p, w>>}
        PROVE  w = x
    <3>1. <<p, w>> \in {<<p, x>>}
      BY <2>1, <2>2
    <3>2. <<p, w>> = <<p, x>>
      BY <3>1
    <3> QED
      BY <3>2
  <2>3. x <= v
    BY <1>2, <2>1
  <2> QED
    BY <2>2, <2>3
<1>17. \A u \in S \cup {pull} :
         /\ OfWave(u) /\ DependenciesReady(u.pr)
         /\ \A w \in 1 .. MaxVersions : u.sha = {<<u.pr, w>>} => w <= h[u.pr]
         /\ h[u.pr] <= pr[u.pr].version
         /\ FilesAt(h, u.pr) \cap BlockedPaths = {}
  <2>1. ASSUME NEW u \in S
        PROVE  /\ OfWave(u) /\ DependenciesReady(u.pr)
               /\ \A w \in 1 .. MaxVersions : u.sha = {<<u.pr, w>>} => w <= h[u.pr]
               /\ h[u.pr] <= pr[u.pr].version
               /\ FilesAt(h, u.pr) \cap BlockedPaths = {}
    BY <1>9, <1>12, <1>13
  <2>2. h[p] <= pr[p].version /\ FilesAt(h, p) \cap BlockedPaths = {}
    BY <1>1, <1>2, <1>10, <1>14
  <2>3. \A w \in 1 .. MaxVersions : pull.sha = {<<pull.pr, w>>} => w <= h[pull.pr]
    BY <1>1, <1>10, <1>16
  <2> QED
    BY <1>1, <2>1, <2>2, <2>3
<1>18. \A u, w \in S \cup {pull} : u.pr # w.pr => FilesAt(h, u.pr) \cap FilesAt(h, w.pr) = {}
  <2>1. \A u, w \in S : u.pr # w.pr => FilesAt(h, u.pr) \cap FilesAt(h, w.pr) = {}
    BY <1>9, <1>13
  <2>2. \A u \in S : FilesAt(h, u.pr) \cap FilesAt(h, p) = {}
    BY <1>15
  <2> QED
    BY <1>1, <1>15, <2>1, <2>2
<1>19. ScreenedAt(h, S \cup {pull}, {})
  BY <1>10, <1>17, <1>18 DEF ScreenedAt
<1>20. \A i \in 1 .. Len(Append(picked, e)) :
         Append(picked, e)[i].files = <<Append(picked, e)[i].pull.pr, h[Append(picked, e)[i].pull.pr]>>
  <2>1. /\ Len(Append(picked, e)) = Len(picked) + 1 /\ Len(picked) \in Nat
        /\ \A i \in 1 .. Len(picked) : Append(picked, e)[i] = picked[i]
        /\ Append(picked, e)[Len(picked) + 1] = e
    BY <1>3, Longer
  <2>2. \A i \in 1 .. Len(picked) + 1 : i = Len(picked) + 1 \/ i \in 1 .. Len(picked)
    BY <2>1
  <2>3. \A i \in 1 .. Len(picked) : picked[i].pull \in S
    BY <1>5, <1>7
  <2>4. \A i \in 1 .. Len(picked) : picked[i].files = <<picked[i].pull.pr, h[picked[i].pull.pr]>>
    BY <1>12, <2>3 DEF PickedOK
  <2>5. e.files = <<e.pull.pr, h[e.pull.pr]>>
    BY <1>1, <1>3, <1>10
  <2> QED
    BY <2>1, <2>2, <2>4, <2>5
<1>21. PickedOK(h, Append(picked, e))
  BY <1>5, <1>7, <1>19, <1>20 DEF PickedOK
<1> QED
  BY <1>3, <1>21

LEMMA FilesForPullKeeps ==
  ASSUME Inv, FilesForPull
  PROVE  Inv'
<1>1. PICK run : run = wave'
  OBVIOUS
<1>2. PICK pull : pull = Pull
  OBVIOUS
<1>3. PICK e : e = [pull |-> pull, files |-> Own(pull.pr)]
  OBVIOUS
<1>4. /\ UNCHANGED <<main, pr, ci, waves, queue, events, stood, landed>> /\ wave.pc = "files"
      /\ \/ run = NextPull
         \/ /\ Touches[Own(pull.pr)] \cap (BlockedPaths \cup UNION {Touches[wave.picked[i].files] : i \in DOMAIN wave.picked}) = {}
            /\ run = [NextPull EXCEPT !.picked = Append(@, e)]
  BY <1>1, <1>2, <1>3 DEF FilesForPull, WaveGoes, githubVars, Pull
<1>5. wave \in WaveRuns /\ WaveRunOK(wave) /\ ChoosingOK(wave) /\ wave.todo # <<>> /\ DependenciesReady(pull.pr)
  BY <1>2, <1>4 DEF Inv, WaveRunOK, ChoosingOK, ChoosingPcs, Pull
<1>6. PICK todo \in Seq(Pulls), picked \in Seq(Picks) : todo = wave.todo /\ picked = wave.picked
  BY <1>5 DEF WaveRuns
<1>7. todo # <<>> /\ pull = Head(todo) /\ pull \in Pulls /\ pull \in ToSet(todo) /\ Tail(todo) \in Seq(Pulls)
      /\ ToSet(Tail(todo)) \subseteq ToSet(todo)
  BY <1>2, <1>5, <1>6, HeadAndTail DEF Pull
<1>8. /\ waves = {} /\ wave.current = NoWave
      /\ Distinct(todo) /\ Distinct(Pulled(picked)) /\ Apart(Pulled(picked), todo)
      /\ \A u \in ToSet(todo) : OfWave(u)
  BY <1>5, <1>6 DEF ChoosingOK
<1>9. PICK g : PickedOK(g, picked)
  BY <1>5, <1>6 DEF ChoosingOK
<1>10. ASSUME run = NextPull
       PROVE  WaveRunOK(run)
  BY <1>4, <1>5, <1>10, NextPullOK DEF ChoosingPcs
<1>11. ASSUME Touches[Own(pull.pr)] \cap (BlockedPaths \cup UNION {Touches[wave.picked[i].files] : i \in DOMAIN wave.picked}) = {},
              run = [NextPull EXCEPT !.picked = Append(@, e)]
       PROVE  WaveRunOK(run)
  <2>1. DOMAIN picked = 1 .. Len(picked)
    OBVIOUS
  <2>2. /\ Touches[Own(pull.pr)] \cap BlockedPaths = {}
        /\ \A i \in 1 .. Len(picked) : Touches[Own(pull.pr)] \cap Touches[picked[i].files] = {}
    BY <1>6, <1>11, <2>1
  <2>3. Pulled(picked) \in Seq(Pulls) /\ Len(Pulled(picked)) = Len(picked)
    BY PulledSeq
  <2>4. 1 \in 1 .. Len(todo) /\ pull = todo[1]
    BY <1>7, HeadAndTail
  <2>5. \A i \in 1 .. Len(picked) : Pulled(picked)[i].pr # pull.pr
    BY <1>8, <2>3, <2>4 DEF Apart
  <2>6. OfWave(pull)
    BY <1>7, <1>8
  <2>7. e \in Picks /\ \E h : PickedOK(h, Append(picked, e))
    BY <1>3, <1>5, <1>7, <1>9, <2>2, <2>5, <2>6, PickScreened DEF Inv
  <2>8. Pulled(Append(picked, e)) = Append(Pulled(picked), pull) /\ Append(picked, e) \in Seq(Picks)
    <3>1. e.pull = pull
      BY <1>3
    <3> QED
      BY <2>7, <3>1, PulledSeq, Longer
  <2>9. Distinct(Pulled(Append(picked, e))) /\ Apart(Pulled(Append(picked, e)), Tail(todo))
    BY <1>7, <1>8, <2>3, <2>8, MovedDistinct
  <2>10. run = [pc |-> "dependencies", todo |-> Tail(todo), picked |-> Append(picked, e), branch |-> wave.branch,
                current |-> wave.current, base |-> wave.base]
    BY <1>5, <1>6, <1>11 DEF NextPull, WaveRuns
  <2>11. run \in WaveRuns
    BY <1>5, <1>7, <2>8, <2>10 DEF WaveRuns, WavePcs, ChoosingPcs
  <2>12. \E h : PickedOK(h, run.picked)
    BY <2>7, <2>10
  <2>13. Distinct(run.todo) /\ \A u \in ToSet(run.todo) : OfWave(u)
    BY <1>7, <1>8, <2>10, TailDistinct
  <2>14. ChoosingOK(run)
    BY <1>8, <2>9, <2>10, <2>12, <2>13 DEF ChoosingOK
  <2> QED
    BY <2>10, <2>11, <2>14 DEF WaveRunOK, PromotingPcs
<1>12. WaveRunOK(run)
  BY <1>4, <1>10, <1>11
<1> QED
  BY <1>1, <1>4, <1>12, WaveGoesOn

LEMMA CreateBranchKeeps ==
  ASSUME Inv, CreateBranch
  PROVE  Inv'
<1>1. PICK run : run = wave'
  OBVIOUS
<1>2. /\ UNCHANGED <<main, pr, ci, waves, queue, events, stood, landed>> /\ wave.pc = "dependencies"
      /\ \/ run = WaveIdle
         \/ run = [wave EXCEPT !.pc = "combine", !.todo = [i \in DOMAIN wave.picked |-> wave.picked[i].pull], !.branch = main]
  BY <1>1 DEF CreateBranch, WaveGoes, githubVars
<1>3. wave \in WaveRuns /\ ChoosingOK(wave)
  BY <1>2 DEF Inv, WaveRunOK, ChoosingPcs
<1>4. PICK picked \in Seq(Picks) : picked = wave.picked
  BY <1>3 DEF WaveRuns
<1>5. ASSUME run = [wave EXCEPT !.pc = "combine", !.todo = [i \in DOMAIN wave.picked |-> wave.picked[i].pull], !.branch = main]
      PROVE  WaveRunOK(run)
  <2>1. PICK todo : todo = Pulled(picked)
    OBVIOUS
  <2>2. todo \in Seq(Pulls) /\ todo = [i \in DOMAIN picked |-> picked[i].pull]
    BY <2>1, PulledSeq
  <2>3. run = [pc |-> "combine", todo |-> todo, picked |-> picked, branch |-> main, current |-> NoWave, base |-> wave.base]
    BY <1>3, <1>4, <1>5, <2>2 DEF WaveRuns, ChoosingOK
  <2>4. NoWave \in WaveRecords /\ NoWave.sources = <<>>
    BY EmptyList DEF NoWave, WaveRecords
  <2>5. run \in WaveRuns
    BY <1>3, <1>4, <2>2, <2>3, <2>4 DEF WaveRuns, WavePcs, Inv, GithubOK
  <2>6. PICK g : PickedOK(g, picked)
    BY <1>3, <1>4 DEF ChoosingOK
  <2>7. ScreenedAt(g, ToSet(NoWave.sources) \cup ToSet(todo), {})
    BY <2>1, <2>4, <2>6, EmptyList DEF PickedOK
  <2>8. waves = {} /\ Distinct(todo)
    BY <1>3, <1>4, <2>1 DEF ChoosingOK
  <2>9. Distinct(NoWave.sources) /\ Apart(NoWave.sources, todo)
    BY <2>4, EmptyPicks DEF Apart
  <2>10. CombineOK(run)
    BY <2>3, <2>7, <2>8, <2>9 DEF CombineOK
  <2> QED
    BY <2>3, <2>5, <2>10 DEF WaveRunOK, ChoosingPcs, PromotingPcs
<1>6. WaveRunOK(run)
  BY <1>2, <1>5, WaveIdleOK
<1> QED
  BY <1>1, <1>2, <1>6, WaveGoesOn

-----------------------------------------------------------------------------
(* Steps of the wave worker that combine and open a wave *)

LEMMA CombineKeeps ==
  ASSUME Inv, Combine
  PROVE  Inv'
<1>1. PICK run : run = wave'
  OBVIOUS
<1>2. UNCHANGED <<main, pr, ci, waves, queue, events, stood, landed>> /\ wave.pc = "combine" /\ wave.todo # <<>>
  BY DEF Combine, WaveGoes, githubVars
<1>3. wave \in WaveRuns /\ CombineOK(wave)
  BY <1>2 DEF Inv, WaveRunOK
<1>4. PICK todo \in Seq(Pulls), current \in WaveRecords, branch \in SUBSET Changes :
        todo = wave.todo /\ current = wave.current /\ branch = wave.branch
  BY <1>3 DEF WaveRuns
<1>5. PICK sources \in Seq(Pulls) : sources = current.sources
  BY DEF WaveRecords
<1>6. PICK pull : pull = Head(todo)
  OBVIOUS
<1>7. /\ pull \in Pulls /\ pull \in ToSet(todo) /\ Tail(todo) \in Seq(Pulls) /\ ToSet(Tail(todo)) \subseteq ToSet(todo)
      /\ todo # <<>>
  BY <1>2, <1>4, <1>6, HeadAndTail
<1>8. \/ run = [wave EXCEPT !.todo = Tail(@), !.branch = branch \cup pull.sha, !.current.sources = Append(@, pull)]
      \/ run = [wave EXCEPT !.todo = Tail(@), !.branch = @, !.current.sources = @]
  BY <1>1, <1>4, <1>6 DEF Combine, WaveGoes
<1>9. PICK b \in SUBSET Changes, s \in Seq(Pulls) :
        /\ run = [pc |-> "combine", todo |-> Tail(todo), picked |-> wave.picked, branch |-> b,
                  current |-> [head |-> current.head, sources |-> s], base |-> wave.base]
        /\ (b = branch \cup pull.sha /\ s = Append(sources, pull)) \/ (b = branch /\ s = sources)
  <2>1. Append(sources, pull) \in Seq(Pulls) /\ branch \cup pull.sha \in SUBSET Changes
    BY <1>7, Longer DEF Pulls
  <2>2. current = [head |-> current.head, sources |-> sources]
    BY <1>5 DEF WaveRecords
  <2>3. ASSUME run = [wave EXCEPT !.todo = Tail(@), !.branch = branch \cup pull.sha, !.current.sources = Append(@, pull)]
        PROVE  run = [pc |-> "combine", todo |-> Tail(todo), picked |-> wave.picked, branch |-> branch \cup pull.sha,
                      current |-> [head |-> current.head, sources |-> Append(sources, pull)], base |-> wave.base]
    <3>1. PICK x : x = [current EXCEPT !.sources = Append(sources, pull)]
      OBVIOUS
    <3>2. x = [head |-> current.head, sources |-> Append(sources, pull)]
      BY <2>2, <3>1
    <3>3. run = [wave EXCEPT !.todo = Tail(todo), !.branch = branch \cup pull.sha, !.current = x]
      BY <1>3, <1>4, <1>5, <2>3, <3>1 DEF WaveRuns, WaveRecords
    <3> QED
      BY <1>2, <1>3, <1>4, <3>2, <3>3 DEF WaveRuns
  <2>4. ASSUME run = [wave EXCEPT !.todo = Tail(@), !.branch = @, !.current.sources = @]
        PROVE  run = [pc |-> "combine", todo |-> Tail(todo), picked |-> wave.picked, branch |-> branch,
                      current |-> [head |-> current.head, sources |-> sources], base |-> wave.base]
    <3>1. run = [wave EXCEPT !.todo = Tail(todo)]
      BY <1>3, <1>4, <1>5, <2>4 DEF WaveRuns, WaveRecords
    <3> QED
      BY <1>2, <1>3, <1>4, <2>2, <3>1 DEF WaveRuns
  <2> QED
    BY <1>8, <2>1, <2>3, <2>4
<1>10. /\ waves = {} /\ Distinct(todo) /\ Distinct(sources) /\ Apart(sources, todo)
       /\ branch \subseteq main \cup ShaOf(sources)
  BY <1>3, <1>4, <1>5 DEF CombineOK
<1>11. PICK g : ScreenedAt(g, ToSet(sources) \cup ToSet(todo), {})
  BY <1>3, <1>4, <1>5 DEF CombineOK
<1>12. s = Append(sources, pull) => ToSet(s) = ToSet(sources) \cup {pull}
  BY <1>7, Longer
<1>13. ScreenedAt(g, ToSet(s) \cup ToSet(Tail(todo)), {})
  <2>1. ToSet(s) \cup ToSet(Tail(todo)) \subseteq ToSet(sources) \cup ToSet(todo)
    BY <1>7, <1>9, <1>12
  <2> QED
    BY <1>11, <2>1, ScreenedLess
<1>14. Distinct(Tail(todo)) /\ Distinct(s) /\ Apart(s, Tail(todo))
  BY <1>6, <1>7, <1>9, <1>10, TailDistinct, TailApart, MovedDistinct
<1>15. b \subseteq main \cup ShaOf(s)
  BY <1>9, <1>10, <1>12 DEF ShaOf
<1>16. run \in WaveRuns
  BY <1>3, <1>7, <1>9 DEF WaveRuns, WaveRecords, WavePcs
<1>17. run.pc = "combine" /\ run.todo = Tail(todo) /\ run.branch = b /\ run.current.sources = s
  BY <1>9
<1>18. CombineOK(run)
  BY <1>10, <1>13, <1>14, <1>15, <1>17 DEF CombineOK
<1>19. WaveRunOK(run)
  BY <1>16, <1>17, <1>18 DEF WaveRunOK, ChoosingPcs, PromotingPcs
<1> QED
  BY <1>1, <1>2, <1>19, WaveGoesOn

(* Steps that change CI's record, or the open wave, and otherwise only what the worker remembers. *)
LEMMA CiGrows ==
  ASSUME Inv, CiOK', \A d : ChecksReady(d) => RunOf(d)' = "success", UNCHANGED <<main, pr, events>>
  PROVE  Grows /\ GithubOK' /\ HeadsOK' /\ MainIsGreen' /\ DependenciesFirst'
<1>1. pr \in [PRs -> PRStates]
  BY DEF Inv, GithubOK
<1>2. \A p \in PRs : pr[p].version <= pr[p].version
  BY <1>1 DEF PRStates
<1>3. Grows
  BY <1>1, <1>2 DEF Grows
<1>4. GithubOK'
  BY DEF Inv, GithubOK, Changes, PRStates
<1> QED
  BY <1>3, <1>4, SamePulls DEF Inv

LEMMA WaveSteps ==
  ASSUME Inv, Grows, GithubOK', HeadsOK', MainIsGreen', DependenciesFirst', LandedWasScreened', WavesOK',
         UNCHANGED <<queue, stood>>, \A p \in PRs : pr'[p].held = pr[p].held /\ pr'[p].objected = pr[p].objected,
         NEW run, wave' = run, WaveRunOK(run), run.pc \notin ChoosingPcs \cup {"combine"}
  PROVE  Inv'
<1>1. StoodOK' /\ StoodShrinks("queue") /\ StoodShrinks("wave")
  BY SameStood DEF Inv
<1>2. QueueRunOK(queue)'
  BY <1>1, QueueStays
<1>3. WaveRunOK(run)'
  BY <1>1, WaveRunStays DEF Inv
<1> QED
  BY <1>1, <1>2, <1>3 DEF Inv

LEMMA CreatePullKeeps ==
  ASSUME Inv, CreatePull
  PROVE  Inv'
<1>1. PICK run, new : run = wave' /\ new = [wave.current EXCEPT !.head = wave.branch]
  OBVIOUS
<1>2. wave.pc = "combine" /\ wave.todo = <<>>
  BY DEF CreatePull
<1>3. wave \in WaveRuns /\ CombineOK(wave)
  BY <1>2 DEF Inv, WaveRunOK
<1>4. CASE Len(wave.current.sources) < MinBatch
  <2>1. run = WaveIdle /\ UNCHANGED <<main, pr, ci, waves, queue, events, stood, landed>>
    BY <1>1, <1>4 DEF CreatePull, WaveGoes, githubVars
  <2>2. WaveRunOK(run)
    BY <2>1, WaveIdleOK
  <2> QED
    BY <1>1, <2>1, <2>2, WaveGoesOn
<1>5. CASE ~(Len(wave.current.sources) < MinBatch)
  <2>1. /\ waves' = waves \cup {new} /\ \E state \in {"queued", "action_required"} : ci' = WithRun(new.head, state)
        /\ run = [WaveIdle EXCEPT !.pc = "sources", !.todo = new.sources, !.current = new]
        /\ UNCHANGED <<main, pr, queue, events, stood, landed>>
    BY <1>1, <1>5 DEF CreatePull
  <2>2. PICK sources \in Seq(Pulls), branch \in SUBSET Changes : sources = wave.current.sources /\ branch = wave.branch
    BY <1>3 DEF WaveRuns, WaveRecords
  <2>3. new = [head |-> branch, sources |-> sources]
    BY <1>1, <1>3, <2>2 DEF WaveRuns, WaveRecords
  <2>4. waves' = {new} /\ Distinct(sources) /\ branch \subseteq main \cup ShaOf(sources)
    BY <1>3, <2>1, <2>2 DEF CombineOK
  <2>5. PICK g : ScreenedAt(g, ToSet(sources) \cup ToSet(wave.todo), {})
    BY <1>3, <2>2 DEF CombineOK
  <2>6. ScreenedAt(g, ToSet(sources), {})
    BY <2>5, ScreenedLess
  <2>7. Len(sources) >= MinBatch
    <3>1. Len(sources) \in Nat /\ MinBatch \in Nat
      BY DEF Inv, QueueAssumption, WaveAssumption
    <3> QED
      BY <1>5, <2>2, <3>1
  <2>8. new \in WaveRecords /\ new.sources = sources /\ new.head = branch
    BY <2>3 DEF WaveRecords
  <2>9. WholeWave(new, {})
    BY <2>4, <2>6, <2>7, <2>8 DEF WholeWave
  <2>10. CiOK' /\ \A d : ChecksReady(d) => RunOf(d)' = "success"
    BY <2>1, <2>8, WithRunKeeps DEF Inv, GithubOK
  <2>11. Grows /\ GithubOK' /\ HeadsOK' /\ MainIsGreen' /\ DependenciesFirst'
    BY <2>1, <2>10, CiGrows
  <2>12. WavesOK' /\ LandedWasScreened'
    BY <2>1, <2>4, <2>9, <2>11, WaveOpens, SameLanded DEF Inv
  <2>13. run = [pc |-> "sources", todo |-> sources, picked |-> <<>>, branch |-> {}, current |-> new, base |-> {}]
    BY <2>1, <2>8 DEF WaveIdle
  <2>14. run \in WaveRuns
    BY <2>8, <2>13, EmptyPicks DEF WaveRuns, WavePcs, PromotingPcs
  <2>15. Checked(run) = {} /\ run.current = new /\ run.pc = "sources"
    BY <2>8, <2>13 DEF Checked
  <2>16. PromoteOK(run)
    BY <2>9, <2>15 DEF PromoteOK
  <2>17. WaveRunOK(run)
    BY <2>14, <2>15, <2>16 DEF WaveRunOK, ChoosingPcs
  <2>18. run.pc \notin ChoosingPcs \cup {"combine"} /\ \A p \in PRs : pr'[p].held = pr[p].held /\ pr'[p].objected = pr[p].objected
    BY <2>1, <2>15 DEF ChoosingPcs
  <2> QED
    BY <1>1, <2>1, <2>11, <2>12, <2>17, <2>18, WaveSteps
<1> QED
  BY <1>4, <1>5

-----------------------------------------------------------------------------
(* Steps of the wave worker that promote a wave *)

(* A run that promotes goes on with its wave. *)
LEMMA PromoteMoves ==
  ASSUME WaveRunOK(wave), wave.pc \in PromotingPcs, NEW run,
         \E there \in PromotingPcs : run = [wave EXCEPT !.pc = there] \/ \E b \in SUBSET Changes : run = [wave EXCEPT !.pc = there, !.base = b],
         run.pc \in {"findRun", "await", "refresh", "merge"} => wave.todo = <<>>,
         run.pc \in {"refresh", "merge"} => ChecksReady(wave.current.head)
  PROVE  WaveRunOK(run)
<1>1. wave \in WaveRuns /\ PromoteOK(wave)
  BY DEF WaveRunOK
<1>2. PICK there \in PromotingPcs :
        run = [wave EXCEPT !.pc = there] \/ \E b \in SUBSET Changes : run = [wave EXCEPT !.pc = there, !.base = b]
  OBVIOUS
<1>3. run \in WaveRuns /\ run.pc = there /\ run.todo = wave.todo /\ run.current = wave.current
  BY <1>1, <1>2 DEF WaveRuns, WavePcs
<1>4. Checked(run) = Checked(wave)
  BY <1>3 DEF Checked
<1>5. PromoteOK(run)
  BY <1>1, <1>3, <1>4 DEF PromoteOK
<1> QED
  BY <1>3, <1>5 DEF WaveRunOK, ChoosingPcs, PromotingPcs

(* A source that still has the head it was combined with has the files it was screened by. *)
LEMMA SourceUnmoved ==
  ASSUME QueueAssumption, GithubOK, HeadsOK, NEW g, NEW S, NEW C, ScreenedAt(g, S, C),
         NEW u \in S, pr[u.pr].head = u.sha
  PROVE  u.sha = {<<u.pr, g[u.pr]>>} /\ ScreenedAt(g, S, C \cup {u})
<1>1. PICK p \in PRs : p = u.pr
  BY DEF ScreenedAt, OfWave, QueueAssumption, WaveAssumption
<1>2. PICK v \in 1 .. MaxVersions : v = pr[p].version
  BY DEF GithubOK, PRStates
<1>3. u.sha = {<<p, v>>}
  BY <1>1, <1>2 DEF ScreenedAt, OfWave, HeadsOK, Own
<1>4. v <= g[p] /\ g[p] <= v /\ g[p] \in 1 .. MaxVersions
  BY <1>1, <1>2, <1>3 DEF ScreenedAt
<1>5. g[p] = v
  BY <1>4
<1>6. u.sha = {<<u.pr, g[u.pr]>>}
  BY <1>1, <1>3, <1>5
<1> QED
  BY <1>6 DEF ScreenedAt

LEMMA CheckSourceKeeps ==
  ASSUME Inv, CheckSource
  PROVE  Inv'
<1>1. PICK run : run = wave'
  OBVIOUS
<1>2. UNCHANGED <<main, pr, ci, waves, queue, events, stood, landed>> /\ wave.pc = "sources" /\ wave.todo # <<>>
  BY DEF CheckSource, WaveGoes, githubVars
<1>3. WaveRunOK(wave) /\ wave \in WaveRuns /\ PromoteOK(wave)
  BY <1>2 DEF Inv, WaveRunOK, PromotingPcs
<1>4. PICK todo \in Seq(Pulls), current \in WaveRecords : todo = wave.todo /\ current = wave.current
  BY <1>3 DEF WaveRuns
<1>5. PICK u : u = Head(todo)
  OBVIOUS
<1>6. u \in Pulls /\ ToSet(todo) = {u} \cup ToSet(Tail(todo)) /\ Tail(todo) \in Seq(Pulls)
  BY <1>2, <1>4, <1>5, HeadAndTail
<1>7. \/ Eligible(u.pr) /\ pr[u.pr].head = u.sha /\ run = [wave EXCEPT !.todo = Tail(@)]
      \/ run = [wave EXCEPT !.pc = "invalidate"]
  BY <1>1, <1>4, <1>5 DEF CheckSource, SourceStands, WaveGoes
<1>8. ASSUME run = [wave EXCEPT !.pc = "invalidate"]
      PROVE  WaveRunOK(run)
  <2>1. "invalidate" \in PromotingPcs /\ run.pc = "invalidate" /\ wave.pc \in PromotingPcs
    BY <1>2, <1>3, <1>8 DEF PromotingPcs, WaveRuns
  <2> QED
    BY <1>3, <1>8, <2>1, PromoteMoves
<1>9. ASSUME Eligible(u.pr), pr[u.pr].head = u.sha, run = [wave EXCEPT !.todo = Tail(@)]
      PROVE  WaveRunOK(run)
  <2>1. run \in WaveRuns /\ run.pc = "sources" /\ run.todo = Tail(todo) /\ run.current = current
    BY <1>2, <1>3, <1>4, <1>6, <1>9 DEF WaveRuns
  <2>2. PICK C, D : C = Checked(wave) /\ D = Checked(run)
    OBVIOUS
  <2>3. PICK S : S = ToSet(current.sources)
    OBVIOUS
  <2>4. C = S \ ToSet(todo) /\ D = S \ ToSet(Tail(todo))
    BY <1>4, <2>1, <2>2, <2>3 DEF Checked
  <2>5. D \subseteq C \cup {u} /\ (u \notin S => D \subseteq C)
    BY <1>6, <2>4
  <2>6. WholeWave(current, C) /\ \A x \in C : <<"held", x.pr>> \notin stood["wave"]
    BY <1>3, <1>4, <2>2 DEF PromoteOK
  <2>7. PICK g : ScreenedAt(g, S, C)
    BY <2>3, <2>6 DEF WholeWave
  <2>8. ScreenedAt(g, S, D)
    <3>1. CASE u \in S
      <4>1. ScreenedAt(g, S, C \cup {u})
        BY <1>9, <2>7, <3>1, SourceUnmoved DEF Inv
      <4> QED
        BY <2>5, <4>1, ScreenedLess
    <3>2. CASE u \notin S
      BY <2>5, <2>7, <3>2, ScreenedLess
    <3> QED
      BY <3>1, <3>2
  <2>9. WholeWave(current, D)
    BY <2>3, <2>6, <2>8 DEF WholeWave
  <2>10. u.pr \in PRs /\ <<"held", u.pr>> \notin stood["wave"]
    BY <1>6, <1>9 DEF Pulls, Eligible, Inv, StoodOK
  <2>11. \A x \in D : <<"held", x.pr>> \notin stood["wave"]
    BY <2>5, <2>6, <2>10
  <2>12. PromoteOK(run)
    BY <2>1, <2>2, <2>9, <2>11 DEF PromoteOK
  <2> QED
    BY <2>1, <2>12 DEF WaveRunOK, ChoosingPcs
<1>10. WaveRunOK(run)
  BY <1>7, <1>8, <1>9
<1> QED
  BY <1>1, <1>2, <1>10, WaveGoesOn

LEMMA PromotionAsks ==
  ASSUME Inv, FreshWave \/ AwaitCi \/ RefreshWave
  PROVE  Inv'
<1>1. PICK run : run = wave'
  OBVIOUS
<1>2. UNCHANGED <<main, pr, ci, waves, queue, events, stood, landed>> /\ wave.pc \in PromotingPcs
  BY DEF FreshWave, AwaitCi, RefreshWave, WaveGoes, githubVars, PromotingPcs
<1>3. WaveRunOK(wave) /\ wave \in WaveRuns /\ PromoteOK(wave) /\ main \in SUBSET Changes
  BY <1>2 DEF Inv, WaveRunOK, GithubOK
<1>4. \/ run = WaveIdle
      \/ run = [wave EXCEPT !.pc = "invalidate"]
      \/ run = [wave EXCEPT !.pc = "update"]
      \/ wave.todo = <<>> /\ run = [wave EXCEPT !.pc = "findRun", !.base = main]
      \/ wave.pc = "await" /\ ChecksReady(wave.current.head) /\ run = [wave EXCEPT !.pc = "refresh"]
      \/ wave.pc = "refresh" /\ run = [wave EXCEPT !.pc = "merge"]
  BY <1>1 DEF FreshWave, AwaitCi, RefreshWave, WaveGoes, ChecksReady
<1>5. /\ wave.pc \in {"await", "refresh"} => wave.todo = <<>>
      /\ wave.pc = "refresh" => ChecksReady(wave.current.head)
  BY <1>3 DEF PromoteOK
<1>6. ASSUME NEW there \in PromotingPcs,
             run = [wave EXCEPT !.pc = there] \/ run = [wave EXCEPT !.pc = there, !.base = main],
             there \in {"findRun", "await", "refresh", "merge"} => wave.todo = <<>>,
             there \in {"refresh", "merge"} => ChecksReady(wave.current.head)
      PROVE  WaveRunOK(run)
  <2>1. run.pc = there
    BY <1>3, <1>6 DEF WaveRuns
  <2> QED
    BY <1>2, <1>3, <1>6, <2>1, PromoteMoves
<1>7. WaveRunOK(run)
  <2>1. {"invalidate", "update", "findRun", "refresh", "merge"} \subseteq PromotingPcs
    BY DEF PromotingPcs
  <2>2. ASSUME run = [wave EXCEPT !.pc = "invalidate"] PROVE WaveRunOK(run)
    BY <1>6, <2>1, <2>2
  <2>3. ASSUME run = [wave EXCEPT !.pc = "update"] PROVE WaveRunOK(run)
    BY <1>6, <2>1, <2>3
  <2>4. ASSUME wave.todo = <<>>, run = [wave EXCEPT !.pc = "findRun", !.base = main] PROVE WaveRunOK(run)
    BY <1>6, <2>1, <2>4
  <2>5. ASSUME wave.pc = "await", ChecksReady(wave.current.head), run = [wave EXCEPT !.pc = "refresh"] PROVE WaveRunOK(run)
    BY <1>5, <1>6, <2>1, <2>5
  <2>6. ASSUME wave.pc = "refresh", run = [wave EXCEPT !.pc = "merge"] PROVE WaveRunOK(run)
    BY <1>5, <1>6, <2>1, <2>6
  <2> QED
    BY <1>4, <2>2, <2>3, <2>4, <2>5, <2>6, WaveIdleOK
<1> QED
  BY <1>1, <1>2, <1>7, WaveGoesOn

LEMMA IdleIsApart == WaveIdle.pc \notin ChoosingPcs \cup {"combine"}
BY DEF WaveIdle, ChoosingPcs

LEMMA InvalidateWaveKeeps ==
  ASSUME Inv, InvalidateWave
  PROVE  Inv'
<1>1. PICK run : run = WaveIdle
  OBVIOUS
<1>2. wave' = run /\ waves' \subseteq waves /\ UNCHANGED <<main, pr, ci, queue, events, stood, landed>>
  BY <1>1 DEF InvalidateWave
<1>3. Grows /\ GithubOK' /\ HeadsOK' /\ MainIsGreen' /\ DependenciesFirst' /\ LandedWasScreened'
  BY <1>2, SameRecord, SamePulls, SameLanded DEF Inv
<1>4. WavesOK'
  BY <1>2, <1>3, WavesStay DEF Inv
<1>5. \A p \in PRs : pr'[p].held = pr[p].held /\ pr'[p].objected = pr[p].objected
  BY <1>2
<1> QED
  BY <1>1, <1>2, <1>3, <1>4, <1>5, WaveIdleOK, IdleIsApart, WaveSteps

LEMMA UpdateWaveKeeps ==
  ASSUME Inv, UpdateWave
  PROVE  Inv'
<1>1. PICK run, new : run = WaveIdle /\ new = [wave.current EXCEPT !.head = @ \cup main]
  OBVIOUS
<1>2. wave' = run /\ UNCHANGED <<main, pr, queue, events, stood, landed>>
  BY <1>1 DEF UpdateWave
<1>3. \/ /\ wave.current \in waves /\ waves' = (waves \ {wave.current}) \cup {new}
         /\ \E state \in {"queued", "action_required"} : ci' = WithRun(new.head, state)
      \/ UNCHANGED <<waves, ci>>
  BY <1>1 DEF UpdateWave
<1>4. WaveRunOK(run) /\ run.pc \notin ChoosingPcs \cup {"combine"}
  BY <1>1, WaveIdleOK, IdleIsApart
<1>5. LandedWasScreened' /\ \A p \in PRs : pr'[p].held = pr[p].held /\ pr'[p].objected = pr[p].objected
  BY <1>2, SameLanded DEF Inv
<1>6. CASE UNCHANGED <<waves, ci>>
  BY <1>1, <1>2, <1>4, <1>6, WaveGoesOn
<1>7. CASE /\ wave.current \in waves /\ waves' = (waves \ {wave.current}) \cup {new}
           /\ \E state \in {"queued", "action_required"} : ci' = WithRun(new.head, state)
  <2>1. PICK w : w = wave.current
    OBVIOUS
  <2>2. waves = {w} /\ WholeWave(w, {})
    BY <1>7, <2>1 DEF Inv, WavesOK
  <2>3. waves' = {new}
    BY <1>7, <2>1, <2>2
  <2>4. w \in WaveRecords /\ main \in SUBSET Changes
    BY <2>2 DEF WholeWave, Inv, GithubOK
  <2>5. new = [head |-> w.head \cup main, sources |-> w.sources]
    BY <1>1, <2>1, <2>4 DEF WaveRecords
  <2>6. new \in WaveRecords /\ new.head \in SUBSET Changes /\ new.sources = w.sources /\ new.head = w.head \cup main
    BY <2>4, <2>5 DEF WaveRecords
  <2>7. WholeWave(new, {})
    BY <2>2, <2>6 DEF WholeWave
  <2>8. CiOK' /\ \A d : ChecksReady(d) => RunOf(d)' = "success"
    BY <1>7, <2>6, WithRunKeeps DEF Inv, GithubOK
  <2>9. Grows /\ GithubOK' /\ HeadsOK' /\ MainIsGreen' /\ DependenciesFirst'
    BY <1>2, <2>8, CiGrows
  <2>10. WavesOK'
    BY <2>3, <2>7, <2>9, WaveOpens DEF Inv
  <2> QED
    BY <1>2, <1>4, <1>5, <2>9, <2>10, WaveSteps
<1> QED
  BY <1>3, <1>6, <1>7

(* A run that was waiting for an approval is queued; nothing succeeds by it. *)
LEMMA Approved ==
  ASSUME CiOK, NEW c, ci' = IF RunOf(c) = "action_required" THEN [ci EXCEPT ![c] = "queued"] ELSE ci
  PROVE  CiOK' /\ \A d : ChecksReady(d) => RunOf(d)' = "success"
<1>1. CASE RunOf(c) = "action_required"
  <2>1. c \in DOMAIN ci /\ ci[c] = "action_required"
    BY <1>1 DEF RunOf
  <2>2. DOMAIN ci' = DOMAIN ci /\ ci'[c] = "queued" /\ \A d \in DOMAIN ci : d # c => ci'[d] = ci[d]
    BY <1>1, <2>1
  <2>3. \A d \in DOMAIN ci' : d \subseteq Changes /\ ci'[d] \in CiStates /\ (ci'[d] = "success" => Green(d))
    BY <2>2 DEF CiOK, CiStates
  <2>4. CiOK'
    BY <2>3 DEF CiOK, Green, CiStates, Changes
  <2>5. \A d : ChecksReady(d) => RunOf(d)' = "success"
    BY <2>1, <2>2 DEF ChecksReady, RunOf
  <2> QED
    BY <2>4, <2>5
<1>2. CASE RunOf(c) # "action_required"
  BY <1>2 DEF CiOK, ChecksReady, RunOf, Green, CiStates, Changes
<1> QED
  BY <1>1, <1>2

LEMMA FindRunAndApproveKeeps ==
  ASSUME Inv, FindRunAndApprove
  PROVE  Inv'
<1>1. PICK run, c : run = wave' /\ c = wave.current.head
  OBVIOUS
<1>2. /\ wave.pc = "findRun" /\ UNCHANGED <<main, pr, waves, queue, events, stood, landed>>
      /\ ci' = IF RunOf(c) = "action_required" THEN [ci EXCEPT ![c] = "queued"] ELSE ci
      /\ run = WaveIdle \/ run = [wave EXCEPT !.pc = "await"]
  BY <1>1 DEF FindRunAndApprove
<1>3. CiOK' /\ \A d : ChecksReady(d) => RunOf(d)' = "success"
  BY <1>2, Approved DEF Inv, GithubOK
<1>4. Grows /\ GithubOK' /\ HeadsOK' /\ MainIsGreen' /\ DependenciesFirst'
  BY <1>2, <1>3, CiGrows
<1>5. WavesOK' /\ LandedWasScreened'
  BY <1>2, <1>4, WavesStay, SameLanded DEF Inv
<1>6. ASSUME run = [wave EXCEPT !.pc = "await"]
      PROVE  WaveRunOK(run) /\ run.pc \notin ChoosingPcs \cup {"combine"}
  <2>1. wave \in WaveRuns /\ PromoteOK(wave) /\ WaveRunOK(wave) /\ wave.pc \in PromotingPcs
    BY <1>2 DEF Inv, WaveRunOK, PromotingPcs
  <2>2. run.pc = "await" /\ "await" \in PromotingPcs /\ wave.todo = <<>>
    BY <1>2, <1>6, <2>1 DEF WaveRuns, PromotingPcs, PromoteOK
  <2>3. WaveRunOK(run)
    BY <1>6, <2>1, <2>2, PromoteMoves
  <2> QED
    BY <2>2, <2>3 DEF ChoosingPcs
<1>7. WaveRunOK(run) /\ run.pc \notin ChoosingPcs \cup {"combine"}
  BY <1>2, <1>6, WaveIdleOK, IdleIsApart
<1>8. \A p \in PRs : pr'[p].held = pr[p].held /\ pr'[p].objected = pr[p].objected
  BY <1>2
<1> QED
  BY <1>1, <1>2, <1>4, <1>5, <1>7, <1>8, WaveSteps

-----------------------------------------------------------------------------
(* Merging a wave and closing what it held *)

(* What a wave brings is of its sources, all of which have been checked. *)
LEMMA WaveLands ==
  ASSUME Inv, wave.pc = "merge", ~Behind(wave.current.head)
  PROVE  /\ Landable(wave.current.head)
         /\ \A p \in PRs : Own(p) \in wave.current.head \ main => p \in Wave /\ <<"held", p>> \notin stood["wave"]
<1>1. wave \in WaveRuns /\ PromoteOK(wave) /\ wave.todo = <<>> /\ ChecksReady(wave.current.head)
  BY DEF Inv, WaveRunOK, PromoteOK, PromotingPcs
<1>2. PICK w \in WaveRecords : w = wave.current
  BY <1>1 DEF WaveRuns
<1>3. PICK S : S = ToSet(w.sources)
  OBVIOUS
<1>4. Checked(wave) = S
  BY <1>1, <1>2, <1>3, EmptyList DEF Checked
<1>5. PICK g : ScreenedAt(g, S, S)
  BY <1>1, <1>2, <1>3, <1>4 DEF PromoteOK, WholeWave
<1>6. w.head \subseteq main \cup UNION {u.sha : u \in S} /\ \A u \in S : <<"held", u.pr>> \notin stood["wave"]
  BY <1>1, <1>2, <1>3, <1>4 DEF PromoteOK, WholeWave, ShaOf
<1>7. w.head \in SUBSET Changes /\ Green(w.head) /\ main \cup w.head = w.head
  BY <1>1, <1>2, SuccessIsGreen DEF WaveRecords, Behind, Inv, GithubOK
<1>8. ASSUME NEW x \in w.head \ main
      PROVE  \E u \in S : u.pr \in Wave /\ \E v \in 1 .. pr[u.pr].version : x = <<u.pr, v>>
  <2>1. PICK u \in S : x \in u.sha
    BY <1>6
  <2>2. OfWave(u)
    BY <1>5 DEF ScreenedAt
  <2> QED
    BY <2>1, <2>2 DEF OfWave
<1>9. ASSUME NEW p \in PRs, Own(p) \in w.head \ main
      PROVE  p \in Wave /\ <<"held", p>> \notin stood["wave"] /\ DependenciesReady(p)
  <2>1. PICK u \in S : u.pr \in Wave /\ \E v \in 1 .. pr[u.pr].version : Own(p) = <<u.pr, v>>
    BY <1>8, <1>9
  <2>2. p = u.pr
    BY <2>1 DEF Own
  <2> QED
    BY <1>5, <1>6, <2>1, <2>2 DEF ScreenedAt
<1>10. ASSUME NEW p \in PRs, NEW x \in w.head \ main, x[1] = p
       PROVE  x[2] <= pr[p].version
  <2>1. PICK u \in S : \E v \in 1 .. pr[u.pr].version : x = <<u.pr, v>>
    BY <1>8
  <2>2. PICK v \in 1 .. pr[u.pr].version : x = <<u.pr, v>>
    BY <2>1
  <2>3. u.pr = p /\ x[2] = v
    BY <1>10, <2>2
  <2>4. pr[p].version \in Nat
    BY DEF Inv, GithubOK, PRStates
  <2>5. v <= pr[p].version
    BY <2>2, <2>3, <2>4
  <2> QED
    BY <2>3, <2>5
<1> QED
  BY <1>2, <1>7, <1>9, <1>10 DEF Landable

(* The files of a source that is landed. *)
FilesOf(s, j) == UNION {Touches[c] : c \in {d \in s[j].sha : d[1] = s[j].pr}}

LEMMA SourcesScreened ==
  ASSUME NEW s \in Seq(Pulls), Distinct(s), NEW g, ScreenedAt(g, ToSet(s), ToSet(s)), NEW i \in DOMAIN s
  PROVE  FilesOf(s, i) \cap (BlockedPaths \cup UNION {FilesOf(s, j) : j \in DOMAIN s \ {i}}) = {}
<1>1. DOMAIN s = 1 .. Len(s) /\ \A j \in DOMAIN s : s[j] \in ToSet(s)
  BY DEF ToSet
<1>2. \A j \in DOMAIN s : FilesOf(s, j) = FilesAt(g, s[j].pr)
  <2> TAKE j \in DOMAIN s
  <2>1. s[j].sha = {<<s[j].pr, g[s[j].pr]>>}
    BY <1>1 DEF ScreenedAt
  <2>2. {d \in s[j].sha : d[1] = s[j].pr} = {<<s[j].pr, g[s[j].pr]>>}
    BY <2>1
  <2> QED
    BY <2>2 DEF FilesOf, FilesAt
<1>3. \A j \in DOMAIN s \ {i} : s[j].pr # s[i].pr
  BY <1>1 DEF Distinct
<1>4. \A j \in DOMAIN s \ {i} : FilesAt(g, s[i].pr) \cap FilesAt(g, s[j].pr) = {}
  BY <1>1, <1>3 DEF ScreenedAt
<1>5. FilesAt(g, s[i].pr) \cap BlockedPaths = {}
  BY <1>1 DEF ScreenedAt
<1> QED
  BY <1>2, <1>4, <1>5

LEMMA MergeWaveKeeps ==
  ASSUME Inv, MergeWave
  PROVE  Inv'
<1>1. PICK run, w : run = wave' /\ w = wave.current
  OBVIOUS
<1>2. wave.pc = "merge" /\ UNCHANGED <<queue, events, stood>>
  BY DEF MergeWave
<1>3. wave \in WaveRuns /\ PromoteOK(wave) /\ wave.todo = <<>>
  BY <1>2 DEF Inv, WaveRunOK, PromotingPcs, PromoteOK
<1>4. CASE wave.current \in waves /\ Accepts(wave.current.head, wave.current.head)
  <2>1. /\ Land(w.head) /\ waves' = waves \ {w} /\ landed' = landed \cup {w.sources}
        /\ run = [wave EXCEPT !.pc = "closing", !.todo = w.sources] /\ UNCHANGED ci
    BY <1>1, <1>4 DEF MergeWave
  <2>2. Landable(w.head)
    BY <1>1, <1>2, <1>4, WaveLands DEF Accepts
  <2>3. /\ GithubOK' /\ HeadsOK' /\ MainIsGreen' /\ DependenciesFirst' /\ Grows
        /\ \A p \in PRs : pr'[p].held = pr[p].held /\ pr'[p].objected = pr[p].objected
    BY <1>2, <2>1, <2>2, Landing
  <2>4. WavesOK'
    BY <2>1, <2>3, WavesStay DEF Inv
  <2>5. PICK s \in Seq(Pulls) : s = w.sources
    BY <1>1, <1>3 DEF WaveRuns, WaveRecords
  <2>6. Checked(wave) = ToSet(s)
    BY <1>1, <1>3, <2>5, EmptyList DEF Checked
  <2>7. PICK g : ScreenedAt(g, ToSet(s), ToSet(s))
    BY <1>1, <1>3, <2>5, <2>6 DEF PromoteOK, WholeWave
  <2>8. \A i \in DOMAIN s : FilesOf(s, i) \cap (BlockedPaths \cup UNION {FilesOf(s, j) : j \in DOMAIN s \ {i}}) = {}
    BY <1>1, <1>3, <2>5, <2>7, SourcesScreened DEF PromoteOK, WholeWave
  <2>9. \A t \in landed : \A i \in DOMAIN t : FilesOf(t, i) \cap (BlockedPaths \cup UNION {FilesOf(t, j) : j \in DOMAIN t \ {i}}) = {}
    BY DEF Inv, LandedWasScreened, FilesOf
  <2>10. LandedWasScreened'
    <3>1. \A t \in landed' : t \in landed \/ t = s
      BY <2>1, <2>5
    <3>2. \A t \in landed' : \A i \in DOMAIN t :
            FilesOf(t, i) \cap (BlockedPaths \cup UNION {FilesOf(t, j) : j \in DOMAIN t \ {i}}) = {}
      BY <2>8, <2>9, <3>1
    <3> QED
      BY <3>2 DEF LandedWasScreened, FilesOf
  <2>11. run \in WaveRuns /\ run.pc = "closing"
    BY <1>3, <2>1, <2>5 DEF WaveRuns, WavePcs
  <2>12. WaveRunOK(run) /\ run.pc \notin ChoosingPcs \cup {"combine"}
    BY <2>11 DEF WaveRunOK, ChoosingPcs, PromotingPcs
  <2> QED
    BY <1>1, <1>2, <2>3, <2>4, <2>10, <2>12, WaveSteps
<1>5. CASE ~(wave.current \in waves /\ Accepts(wave.current.head, wave.current.head))
  <2>1. run = WaveIdle /\ UNCHANGED <<main, pr, ci, waves, queue, events, stood, landed>>
    BY <1>1, <1>5 DEF MergeWave, githubVars
  <2> QED
    BY <1>1, <2>1, WaveIdleOK, WaveGoesOn
<1> QED
  BY <1>4, <1>5

(* Pull requests change, but what they hold does not, and none is merged. *)
LEMMA PullsChange ==
  ASSUME Inv, pr' \in [PRs -> PRStates], events' \in 0 .. MaxEvents, UNCHANGED <<main, ci>>,
         \A p \in PRs : /\ pr'[p].version = pr[p].version /\ pr'[p].head = pr[p].head
                        /\ pr'[p].state = pr[p].state \/ (pr[p].state = "open" /\ pr'[p].state = "closed")
  PROVE  GithubOK' /\ HeadsOK' /\ MainIsGreen' /\ DependenciesFirst' /\ Grows
<1>1. pr \in [PRs -> PRStates] /\ main \subseteq Changes /\ CiOK
  BY DEF Inv, GithubOK
<1>2. \A p \in PRs : pr[p].version \in Nat
  BY <1>1 DEF PRStates
<1>3. \A c : ChecksReady(c) => RunOf(c)' = "success"
  BY DEF ChecksReady, RunOf
<1>4. \A p \in PRs : pr[p].version <= pr'[p].version /\ (pr[p].state = "merged" => pr'[p].state = "merged")
  BY <1>2
<1>5. Grows
  BY <1>1, <1>3, <1>4 DEF Grows
<1>6. CiOK'
  BY <1>1 DEF CiOK, Green, CiStates, Changes
<1>7. GithubOK'
  BY <1>1, <1>6 DEF GithubOK, Changes, PRStates
<1>8. \A p \in PRs : Own(p)' = Own(p)
  BY DEF Own
<1>9. HeadsOK'
  BY <1>8 DEF Inv, HeadsOK
<1>10. MainIsGreen'
  BY DEF Inv, MainIsGreen, Green
<1>11. \A p \in PRs : \A d \in Depends[p] : d \in PRs
  BY DEF Inv, QueueAssumption, DependsAssumption
<1>12. DependenciesFirst'
  BY <1>4, <1>11 DEF Inv, DependenciesFirst
<1> QED
  BY <1>5, <1>7, <1>9, <1>10, <1>12

LEMMA CloseSourceKeeps ==
  ASSUME Inv, CloseSource
  PROVE  Inv'
<1>1. PICK run : run = wave'
  OBVIOUS
<1>2. /\ wave.pc = "closing" /\ wave.todo # <<>> /\ run = [wave EXCEPT !.todo = Tail(@)]
      /\ UNCHANGED <<main, ci, waves, queue, events, stood, landed>>
  BY <1>1 DEF CloseSource
<1>3. wave \in WaveRuns /\ pr \in [PRs -> PRStates] /\ events \in 0 .. MaxEvents
  BY DEF Inv, WaveRunOK, GithubOK
<1>4. PICK todo \in Seq(Pulls) : todo = wave.todo
  BY <1>3 DEF WaveRuns
<1>5. Head(todo) \in Pulls /\ Tail(todo) \in Seq(Pulls)
  BY <1>2, <1>4, HeadAndTail
<1>6. PICK q \in PRs : q = Head(todo).pr
  BY <1>5 DEF Pulls
<1>7. pr' = IF pr[q].state = "open" THEN [pr EXCEPT ![q].state = "closed"] ELSE pr
  BY <1>4, <1>6 DEF CloseSource
<1>8. \A p \in PRs : /\ pr'[p] \in PRStates
                     /\ pr'[p].version = pr[p].version /\ pr'[p].head = pr[p].head
                     /\ pr'[p].held = pr[p].held /\ pr'[p].objected = pr[p].objected
                     /\ pr'[p].state = pr[p].state \/ (pr[p].state = "open" /\ pr'[p].state = "closed")
  <2> TAKE p \in PRs
  <2>1. pr[p] \in PRStates
    BY <1>3
  <2>2. CASE p = q /\ pr[q].state = "open"
    <3>1. pr'[p] = [pr[p] EXCEPT !.state = "closed"]
      BY <1>3, <1>7, <2>2
    <3> QED
      BY <2>1, <2>2, <3>1 DEF PRStates
  <2>3. CASE ~(p = q /\ pr[q].state = "open")
    <3>1. pr'[p] = pr[p]
      BY <1>3, <1>7, <2>3
    <3> QED
      BY <2>1, <3>1
  <2> QED
    BY <2>2, <2>3
<1>9. pr' \in [PRs -> PRStates]
  <2>1. DOMAIN pr' = PRs /\ pr' = [p \in DOMAIN pr' |-> pr'[p]]
    BY <1>3, <1>7
  <2> QED
    BY <1>8, <2>1
<1>10. GithubOK' /\ HeadsOK' /\ MainIsGreen' /\ DependenciesFirst' /\ Grows
  BY <1>2, <1>3, <1>8, <1>9, PullsChange
<1>11. WavesOK' /\ LandedWasScreened'
  BY <1>2, <1>10, WavesStay, SameLanded DEF Inv
<1>12. run \in WaveRuns /\ run.pc = "closing"
  BY <1>2, <1>3, <1>4, <1>5 DEF WaveRuns
<1>13. WaveRunOK(run) /\ run.pc \notin ChoosingPcs \cup {"combine"}
  BY <1>12 DEF WaveRunOK, ChoosingPcs, PromotingPcs
<1> QED
  BY <1>1, <1>2, <1>8, <1>10, <1>11, <1>13, WaveSteps

LEMMA WaveEnds ==
  ASSUME Inv, WaveEnd \/ WaveFail
  PROVE  Inv'
<1>1. PICK run : run = WaveIdle
  OBVIOUS
<1>2. wave' = run /\ UNCHANGED <<main, pr, ci, waves, queue, events, stood, landed>>
  BY <1>1 DEF WaveEnd, WaveFail, WaveGoes, githubVars
<1> QED
  BY <1>1, <1>2, WaveIdleOK, WaveGoesOn

-----------------------------------------------------------------------------
(* Steps of people and of CI *)

(* A step of nobody's run. *)
LEMMA OthersStep ==
  ASSUME Inv, Grows, GithubOK', HeadsOK', MainIsGreen', DependenciesFirst', StoodOK',
         StoodShrinks("queue"), StoodShrinks("wave"), UNCHANGED <<waves, queue, wave, landed>>
  PROVE  Inv'
BY QueueStays, WaveStays, SameLanded DEF Inv

(* What people do is asked of one open pull request. *)
LEMMA PersonActs ==
  ASSUME Inv, NEW p \in PRs, NEW new \in PRStates, Person(p, new)
  PROVE  /\ pr[p].state = "open" /\ pr' \in [PRs -> PRStates] /\ pr'[p] = new
         /\ \A q \in PRs \ {p} : pr'[q] = pr[q]
         /\ events' \in 0 .. MaxEvents
         /\ StoodOK' /\ StoodShrinks("queue") /\ StoodShrinks("wave")
<1>1. pr[p].state = "open" /\ events < MaxEvents /\ pr' = [pr EXCEPT ![p] = new] /\ events' = events + 1
      /\ stood' = [w \in DOMAIN stood |-> {s \in stood[w] : s[2] = p => new[s[1]]}]
  BY DEF Person
<1>2. pr \in [PRs -> PRStates] /\ events \in 0 .. MaxEvents /\ MaxEvents \in Nat
  BY DEF Inv, GithubOK, QueueAssumption, BoundsAssumption
<1>3. events' \in 0 .. MaxEvents
  BY <1>1, <1>2
<1>4. pr' \in [PRs -> PRStates] /\ pr'[p] = new /\ \A q \in PRs \ {p} : pr'[q] = pr[q]
  BY <1>1, <1>2
<1>5. StoodOK
  BY DEF Inv
<1>6. DOMAIN stood' = {"queue", "wave"}
      /\ \A w \in {"queue", "wave"} : stood'[w] = {s \in stood[w] : s[2] = p => new[s[1]]}
  BY <1>1, <1>5 DEF StoodOK
<1>7. StoodShrinks("queue") /\ StoodShrinks("wave")
  BY <1>6 DEF StoodShrinks
<1>8. ASSUME NEW w \in {"queue", "wave"}, NEW q \in PRs
      PROVE  /\ <<"held", q>> \in stood'[w] => pr'[q].held
             /\ <<"objected", q>> \in stood'[w] => pr'[q].objected
  <2>1. /\ <<"held", q>> \in stood'[w] => <<"held", q>> \in stood[w] /\ (q = p => new["held"])
        /\ <<"objected", q>> \in stood'[w] => <<"objected", q>> \in stood[w] /\ (q = p => new["objected"])
    BY <1>6
  <2>2. /\ <<"held", q>> \in stood[w] => pr[q].held
        /\ <<"objected", q>> \in stood[w] => pr[q].objected
    BY <1>5 DEF StoodOK
  <2>3. CASE q = p
    BY <1>4, <2>1, <2>3
  <2>4. CASE q # p
    BY <1>4, <2>1, <2>2, <2>4
  <2> QED
    BY <2>3, <2>4
<1>9. StoodOK'
  BY <1>6, <1>8 DEF StoodOK
<1> QED
  BY <1>1, <1>3, <1>4, <1>7, <1>9

LEMMA MarkOrReviewKeeps ==
  ASSUME Inv, NEW p \in PRs, Mark(p) \/ Review(p)
  PROVE  Inv'
<1>1. pr[p] \in PRStates
  BY DEF Inv, GithubOK
<1>2. PICK new : /\ Person(p, new) /\ UNCHANGED ci
                 /\ new = [pr[p] EXCEPT !.held = ~@] \/ new = [pr[p] EXCEPT !.objected = ~@]
  BY DEF Mark, Review
<1>3. new \in PRStates /\ new.version = pr[p].version /\ new.head = pr[p].head /\ new.state = pr[p].state
  BY <1>1, <1>2 DEF PRStates
<1>4. /\ pr' \in [PRs -> PRStates] /\ pr'[p] = new
      /\ \A q \in PRs \ {p} : pr'[q] = pr[q]
      /\ events' \in 0 .. MaxEvents
      /\ StoodOK' /\ StoodShrinks("queue") /\ StoodShrinks("wave")
  BY <1>2, <1>3, PersonActs
<1>5. UNCHANGED <<main, ci, waves, queue, wave, landed>>
  BY <1>2 DEF Person
<1>6. \A q \in PRs : pr'[q].version = pr[q].version /\ pr'[q].head = pr[q].head /\ pr'[q].state = pr[q].state
  BY <1>3, <1>4
<1>7. GithubOK' /\ HeadsOK' /\ MainIsGreen' /\ DependenciesFirst' /\ Grows
  BY <1>4, <1>5, <1>6, PullsChange
<1> QED
  BY <1>4, <1>5, <1>7, OthersStep

LEMMA PushKeeps ==
  ASSUME Inv, NEW p \in PRs, Push(p)
  PROVE  Inv'
<1>1. PICK v \in 1 .. MaxVersions : v = pr[p].version
  BY DEF Inv, GithubOK, PRStates
<1>2. PICK head : head = (pr[p].head \ {Own(p)}) \cup {<<p, v + 1>>}
  OBVIOUS
<1>3. PICK new : new = [pr[p] EXCEPT !.version = v + 1, !.head = head]
  OBVIOUS
<1>4. v < MaxVersions /\ Person(p, new) /\ ci' = WithRun(head, "queued")
  <2>1. pr[p].version < MaxVersions
    BY DEF Push
  <2>2. Person(p, [pr[p] EXCEPT !.version = pr[p].version + 1, !.head = (pr[p].head \ {Own(p)}) \cup {<<p, pr[p].version + 1>>}])
        /\ ci' = WithRun((pr[p].head \ {Own(p)}) \cup {<<p, pr[p].version + 1>>}, "queued")
    BY DEF Push
  <2> QED
    BY <1>1, <1>2, <1>3, <2>1, <2>2
<1>5. pr[p] \in PRStates /\ pr \in [PRs -> PRStates] /\ main \subseteq Changes /\ CiOK /\ MaxVersions \in Nat
  BY DEF Inv, GithubOK, QueueAssumption, BoundsAssumption
<1>6. v + 1 \in 1 .. MaxVersions
  BY <1>1, <1>4, <1>5
<1>7. head \in SUBSET Changes
  BY <1>2, <1>5, <1>6 DEF PRStates, Changes
<1>8. /\ new \in PRStates /\ new.version = v + 1 /\ new.head = head /\ new.state = pr[p].state
  BY <1>3, <1>5, <1>6, <1>7 DEF PRStates
<1>9. /\ pr[p].state = "open" /\ pr' \in [PRs -> PRStates] /\ pr'[p] = new
      /\ \A q \in PRs \ {p} : pr'[q] = pr[q]
      /\ events' \in 0 .. MaxEvents
      /\ StoodOK' /\ StoodShrinks("queue") /\ StoodShrinks("wave")
  BY <1>4, <1>8, PersonActs
<1>10. UNCHANGED <<main, waves, queue, wave, landed>>
  BY <1>4 DEF Person
<1>11. CiOK' /\ \A d : ChecksReady(d) => RunOf(d)' = "success"
  BY <1>4, <1>5, <1>7, WithRunKeeps
<1>12. \A q \in PRs : pr'[q].state = pr[q].state
  BY <1>8, <1>9
<1>13. Grows
  <2>1. \A q \in PRs : pr[q].version <= pr'[q].version
    <3> TAKE q \in PRs
    <3>1. CASE q = p
      BY <1>1, <1>8, <1>9, <3>1
    <3>2. CASE q # p
      <4>1. pr'[q].version = pr[q].version /\ pr[q].version \in Nat
        BY <1>5, <1>9, <3>2 DEF PRStates
      <4> QED
        BY <4>1
    <3> QED
      BY <3>1, <3>2
  <2> QED
    BY <1>5, <1>9, <1>10, <1>11, <1>12, <2>1 DEF Grows
<1>14. GithubOK'
  BY <1>5, <1>9, <1>10, <1>11 DEF GithubOK, Changes, PRStates
<1>15. HeadsOK'
  <2> SUFFICES ASSUME NEW q \in PRs
               PROVE  /\ Own(q)' \in pr'[q].head /\ pr'[q].head \ {Own(q)'} \subseteq main'
                      /\ q \in Wave => pr'[q].head = {Own(q)'}
                      /\ pr'[q].state = "open" => Own(q)' \notin main'
                      /\ \A x \in main' : x[1] = q => x[2] <= pr'[q].version
    BY DEF HeadsOK
  <2>1. /\ Own(q) \in pr[q].head /\ pr[q].head \ {Own(q)} \subseteq main
        /\ q \in Wave => pr[q].head = {Own(q)}
        /\ pr[q].state = "open" => Own(q) \notin main
        /\ \A x \in main : x[1] = q => x[2] <= pr[q].version
    BY DEF Inv, HeadsOK
  <2>2. CASE q # p
    <3>1. pr'[q] = pr[q] /\ Own(q)' = Own(q)
      BY <1>9, <2>2 DEF Own
    <3> QED
      BY <1>10, <2>1, <3>1
  <2>3. CASE q = p
    <3>1. Own(q)' = <<p, v + 1>> /\ pr'[q].head = head
      BY <1>8, <1>9, <2>3 DEF Own
    <3>2. head \ {<<p, v + 1>>} \subseteq main /\ (q \in Wave => head = {<<p, v + 1>>}) /\ <<p, v + 1>> \in head
      BY <1>2, <2>1, <2>3
    <3>3. \A x \in main : x[1] = p => x[2] \in Nat /\ x[2] <= v
      <4>1. \A x \in main : x[2] \in Nat
        BY <1>5 DEF Changes
      <4> QED
        BY <1>1, <2>1, <2>3, <4>1
    <3>4. \A x \in main : x[1] = p => x[2] <= v + 1 /\ x[2] # v + 1
      <4> TAKE x \in main
      <4> HAVE x[1] = p
      <4>1. x[2] \in Nat /\ x[2] <= v /\ v \in Nat
        BY <1>1, <3>3
      <4> QED
        BY <4>1
    <3>5. <<p, v + 1>> \notin main
      BY <3>4
    <3> QED
      BY <1>8, <1>9, <1>10, <2>3, <3>1, <3>2, <3>4, <3>5
  <2> QED
    BY <2>2, <2>3
<1>16. MainIsGreen'
  BY <1>10 DEF Inv, MainIsGreen, Green
<1>17. DependenciesFirst'
  <2>1. \A q \in PRs : \A d \in Depends[q] : d \in PRs
    BY DEF Inv, QueueAssumption, DependsAssumption
  <2> QED
    BY <1>12, <2>1 DEF Inv, DependenciesFirst
<1> QED
  BY <1>9, <1>10, <1>13, <1>14, <1>15, <1>16, <1>17, OthersStep

LEMMA MergeByHandKeeps ==
  ASSUME Inv, MergeByHand
  PROVE  Inv' /\ \A p \in PRs : ~Merges(p)
<1>1. PICK k \in 1 .. MaxByHand : Green(main \cup {<<0, k>>}) /\ Land({<<0, k>>})
  BY DEF MergeByHand
<1>2. UNCHANGED <<ci, waves, queue, wave, events, stood, landed>>
  BY DEF MergeByHand
<1>3. PICK head : head = {<<0, k>>}
  OBVIOUS
<1>4. 0 \notin PRs
  BY DEF Inv, QueueAssumption, WaveAssumption
<1>5. head \in SUBSET Changes
  BY <1>3 DEF Changes
<1>6. \A p \in PRs : Own(p) \notin head /\ \A x \in head : x[1] # p
  BY <1>3, <1>4 DEF Own
<1>7. Landable(head) /\ Land(head)
  BY <1>1, <1>3, <1>5, <1>6 DEF Landable
<1>8. /\ GithubOK' /\ HeadsOK' /\ MainIsGreen' /\ DependenciesFirst' /\ Grows
      /\ \A p \in PRs : pr'[p].held = pr[p].held /\ pr'[p].objected = pr[p].objected
  BY <1>2, <1>7, Landing
<1>9. StoodOK' /\ StoodShrinks("queue") /\ StoodShrinks("wave")
  BY <1>2, <1>8, SameStood DEF Inv
<1>10. \A p \in PRs : Merges(p) => Own(p) \in head \ main
  BY <1>5, <1>7, Merging DEF Inv
<1> QED
  BY <1>2, <1>6, <1>8, <1>9, <1>10, OthersStep

LEMMA FinishCiKeeps ==
  ASSUME Inv, NEW c \in DOMAIN ci, FinishCi(c)
  PROVE  Inv'
<1>1. PICK state \in {"success", "failure"} : ci' = [ci EXCEPT ![c] = state] /\ (state = "success" => Green(c))
  BY DEF FinishCi
<1>2. ci[c] = "queued" /\ UNCHANGED <<main, pr, waves, queue, wave, events, stood, landed>>
  BY DEF FinishCi, RunOf
<1>3. DOMAIN ci' = DOMAIN ci /\ ci'[c] = state /\ \A d \in DOMAIN ci : d # c => ci'[d] = ci[d]
  BY <1>1
<1>4. CiOK
  BY DEF Inv, GithubOK
<1>5. \A d \in DOMAIN ci' : d \subseteq Changes /\ ci'[d] \in CiStates /\ (ci'[d] = "success" => Green(d))
  BY <1>1, <1>3, <1>4 DEF CiOK, CiStates
<1>6. CiOK'
  BY <1>5 DEF CiOK, Green, CiStates, Changes
<1>7. \A d : ChecksReady(d) => RunOf(d)' = "success"
  BY <1>2, <1>3 DEF ChecksReady, RunOf
<1>8. Grows /\ GithubOK' /\ HeadsOK' /\ MainIsGreen' /\ DependenciesFirst'
  BY <1>2, <1>6, <1>7, CiGrows
<1>9. \A p \in PRs : pr'[p].held = pr[p].held /\ pr'[p].objected = pr[p].objected
  BY <1>2
<1>10. StoodOK' /\ StoodShrinks("queue") /\ StoodShrinks("wave")
  BY <1>2, <1>9, SameStood DEF Inv
<1> QED
  BY <1>2, <1>8, <1>10, OthersStep

-----------------------------------------------------------------------------
(* The invariant *)

LEMMA Initially ==
  ASSUME QueueAssumption, Init
  PROVE  Inv
<1>1. /\ main = {} /\ waves = {} /\ events = 0 /\ landed = {}
      /\ pr = [p \in PRs |-> [state |-> "open", version |-> 1, head |-> {<<p, 1>>}, held |-> FALSE, objected |-> FALSE]]
      /\ ci = [c \in {{<<p, 1>>} : p \in PRs} |-> "queued"]
      /\ stood = [w \in {"queue", "wave"} |-> {}]
  BY DEF Init
<1>2. 1 \in 1 .. MaxVersions /\ 0 \in 0 .. MaxEvents
  BY DEF QueueAssumption, BoundsAssumption
<1>3. \A p \in PRs : {<<p, 1>>} \in SUBSET Changes
  BY <1>2 DEF Changes
<1>4. pr \in [PRs -> PRStates]
  BY <1>1, <1>2, <1>3 DEF PRStates
<1>5. CiOK
  BY <1>1, <1>3 DEF CiOK, CiStates
<1>6. GithubOK
  BY <1>1, <1>2, <1>4, <1>5 DEF GithubOK
<1>7. HeadsOK
  BY <1>1 DEF HeadsOK, Own
<1>8. MainIsGreen
  <2>1. \A b \in Broken : b # {}
    BY DEF QueueAssumption, MainAssumption
  <2> QED
    BY <1>1, <2>1 DEF MainIsGreen, Green
<1>9. DependenciesFirst /\ StoodOK /\ WavesOK /\ LandedWasScreened
  BY <1>1 DEF DependenciesFirst, StoodOK, WavesOK, LandedWasScreened
<1>10. PICK q, w : q = queue /\ w = wave
  OBVIOUS
<1>11. QueueRunOK(queue) /\ WaveRunOK(wave)
  BY <1>10, QueueIdleOK, WaveIdleOK DEF Init
<1> QED
  BY <1>6, <1>7, <1>8, <1>9, <1>11 DEF Inv

LEMMA QueueSteps ==
  ASSUME Inv, QueueStep \/ QueueFail
  PROVE  Inv'
BY QueueStartKeeps, QueueAsks, QueueFreshPullKeeps, MergePullKeeps, UpdateBranchKeeps, QueueEnds DEF QueueStep

LEMMA WaveStepsKeep ==
  ASSUME Inv, WaveStep \/ WaveFail
  PROVE  Inv'
BY WaveStartKeeps, WaveAsks, FilesForPullKeeps, CreateBranchKeeps, CombineKeeps, CreatePullKeeps, CheckSourceKeeps,
   InvalidateWaveKeeps, PromotionAsks, UpdateWaveKeeps, FindRunAndApproveKeeps, MergeWaveKeeps, CloseSourceKeeps, WaveEnds
   DEF WaveStep

LEMMA StutterKeeps ==
  ASSUME Inv, UNCHANGED vars
  PROVE  Inv'
<1>1. PICK run : run = queue
  OBVIOUS
<1>2. queue' = run /\ UNCHANGED <<main, pr, ci, waves, wave, events, stood, landed>>
  BY <1>1 DEF vars, githubVars
<1>3. QueueRunOK(run)
  BY <1>1 DEF Inv
<1> QED
  BY <1>2, <1>3, QueueGoes

LEMMA Step ==
  ASSUME Inv, [Next]_vars
  PROVE  Inv'
<1>1. CASE QueueStep \/ QueueFail
  BY <1>1, QueueSteps
<1>2. CASE WaveStep \/ WaveFail
  BY <1>2, WaveStepsKeep
<1>3. CASE \E c \in DOMAIN ci : FinishCi(c)
  BY <1>3, FinishCiKeeps
<1>4. CASE \E p \in PRs : Push(p) \/ Mark(p) \/ Review(p)
  BY <1>4, PushKeeps, MarkOrReviewKeeps
<1>5. CASE MergeByHand
  BY <1>5, MergeByHandKeeps
<1>6. CASE UNCHANGED vars
  BY <1>6, StutterKeeps
<1> QED
  BY <1>1, <1>2, <1>3, <1>4, <1>5, <1>6 DEF Next

(* integration-queue.mjs and integration-wave-v2.mjs, for any pull requests, dependencies,   *)
(* files, conflicts and combinations that CI rejects: what both workers remember stays true  *)
(* of GitHub, whatever people, CI and the other worker do between two of their calls.        *)
THEOREM Invariant == QueueAssumption => (Spec => []Inv)
<1>1. QueueAssumption /\ Init => Inv
  BY Initially
<1>2. Inv /\ [Next]_vars => Inv'
  BY Step
<1> QED
  BY <1>1, <1>2, PTL DEF Spec

LEMMA InvMeansMainHolds ==
  ASSUME Inv
  PROVE  MainHolds
<1>1. Cardinality(waves) <= 1
  <2>1. Cardinality({}) = 0 /\ \A w : Cardinality({w}) = 1
    BY FS_EmptySet, FS_Singleton
  <2>2. waves = {} \/ \E w : waves = {w}
    BY DEF Inv, WavesOK
  <2>3. Cardinality(waves) = 0 \/ Cardinality(waves) = 1
    BY <2>1, <2>2
  <2> QED
    BY <2>3
<1>2. \A w \in waves : w.head \subseteq Changes /\ Len(w.sources) >= MinBatch
  BY DEF Inv, WavesOK, WholeWave, WaveRecords
<1>3. /\ main \subseteq Changes /\ events \in 0 .. MaxEvents /\ pr \in [PRs -> PRStates]
      /\ \A c \in DOMAIN ci : c \subseteq Changes /\ ci[c] \in CiStates
  BY DEF Inv, GithubOK, CiOK
<1>4. queue.pc \in QueuePcs /\ queue.mutations \in {0, 1}
  BY DEF Inv, QueueRunOK
<1>5. wave.pc \in WavePcs
  BY DEF Inv, WaveRunOK, WaveRuns
<1>6. TypeOK
  BY <1>1, <1>2, <1>3, <1>4, <1>5 DEF TypeOK, PRStates, CiStates, QueuePcs, WavePcs, ChoosingPcs, PromotingPcs
<1>7. OneMutationPerRun
  BY <1>4 DEF OneMutationPerRun
<1> QED
  BY <1>6, <1>7 DEF Inv, MainHolds

(* Merging by the queue, the wave and by hand, in any order: main is always a combination    *)
(* that CI accepts, what is merged comes after all it depends on, a run of the queue changes *)
(* the repository once at the most, and one wave is open at the most.                        *)
THEOREM MainAlwaysHolds == QueueAssumption => (Spec => []MainHolds)
<1>1. Inv => MainHolds
  BY InvMeansMainHolds
<1> QED
  BY <1>1, Invariant, PTL

(* filesForPull reads the files of the newest head, the wave combines the one that was       *)
(* listed: still no two sources of a wave that is landed touch the same file, and none a     *)
(* protected path, because promoteWave drops a wave when a source has moved.                 *)
THEOREM LandedWavesWereScreened == QueueAssumption => (Spec => []LandedWasScreened)
<1>1. Inv => LandedWasScreened
  BY DEF Inv
<1> QED
  BY <1>1, Invariant, PTL

(* Who merges what. *)
LEMMA VersionPushed ==
  ASSUME NEW p, Push(p)
  PROVE  \E v, head : Person(p, [pr[p] EXCEPT !.version = v, !.head = head])
<1>1. PICK v, head : v = pr[p].version + 1 /\ head = (pr[p].head \ {Own(p)}) \cup {<<p, pr[p].version + 1>>}
  OBVIOUS
<1>2. Person(p, [pr[p] EXCEPT !.version = pr[p].version + 1, !.head = (pr[p].head \ {Own(p)}) \cup {<<p, pr[p].version + 1>>}])
  BY DEF Push
<1>3. Person(p, [pr[p] EXCEPT !.version = v, !.head = head])
  BY <1>1, <1>2
<1> QED
  BY <1>3

LEMMA NothingMerges ==
  ASSUME Inv,
         \/ UNCHANGED pr
         \/ \E p \in PRs : Push(p) \/ Mark(p) \/ Review(p)
         \/ UpdateBranch \/ CloseSource
  PROVE  \A p \in PRs : ~Merges(p)
<1>1. pr \in [PRs -> PRStates]
  BY DEF Inv, GithubOK
<1>2. CASE UNCHANGED pr
  BY <1>2 DEF Merges
<1>3. CASE \E p \in PRs : Push(p) \/ Mark(p) \/ Review(p)
  <2>p. PICK p \in PRs : Push(p) \/ Mark(p) \/ Review(p)
    BY <1>3
  <2>1. PICK new : Person(p, new) /\ new.state = pr[p].state
    <3>2. pr[p] \in PRStates
      BY <1>1
    <3>3. ASSUME Push(p) PROVE \E new : Person(p, new) /\ new.state = pr[p].state
      <4>1. PICK v, head : Person(p, [pr[p] EXCEPT !.version = v, !.head = head])
        BY <3>3, VersionPushed
      <4>2. [pr[p] EXCEPT !.version = v, !.head = head].state = pr[p].state
        BY <3>2 DEF PRStates
      <4> QED
        BY <4>1, <4>2
    <3>4. ASSUME Mark(p) \/ Review(p) PROVE \E new : Person(p, new) /\ new.state = pr[p].state
      BY <3>2, <3>4 DEF Mark, Review, PRStates
    <3> QED
      BY <2>p, <3>3, <3>4
  <2>2. pr' = [pr EXCEPT ![p] = new]
    BY <2>1 DEF Person
  <2>3. \A q \in PRs : pr'[q].state = pr[q].state
    BY <1>1, <2>1, <2>2
  <2> QED
    BY <2>3 DEF Merges
<1>4. CASE UpdateBranch
  <2>1. PICK c, head : c = (CHOOSE d \in queue.behind : TRUE) /\ head = c.sha \cup main
    OBVIOUS
  <2>2. UNCHANGED pr \/ pr' = [pr EXCEPT ![c.pr].head = head]
    BY <1>4, <2>1 DEF UpdateBranch, githubVars
  <2>3. \A q \in PRs : pr'[q].state = pr[q].state
    <3> TAKE q \in PRs
    <3>1. pr[q] \in PRStates
      BY <1>1
    <3>2. pr'[q] = pr[q] \/ pr'[q] = [pr[q] EXCEPT !.head = head]
      BY <1>1, <2>2
    <3> QED
      BY <3>1, <3>2 DEF PRStates
  <2> QED
    BY <2>3 DEF Merges
<1>5. CASE CloseSource
  <2>1. PICK c : UNCHANGED pr \/ pr' = [pr EXCEPT ![c].state = "closed"]
    BY <1>5 DEF CloseSource
  <2>2. \A q \in PRs : pr'[q].state = pr[q].state \/ pr'[q].state = "closed"
    <3> TAKE q \in PRs
    <3>1. pr[q] \in PRStates
      BY <1>1
    <3>2. pr'[q] = pr[q] \/ pr'[q] = [pr[q] EXCEPT !.state = "closed"]
      BY <1>1, <2>1
    <3> QED
      BY <3>1, <3>2 DEF PRStates
  <2> QED
    BY <2>2 DEF Merges
<1> QED
  BY <1>2, <1>3, <1>4, <1>5

LEMMA QueueMerges ==
  ASSUME Inv, MergePull, NEW p \in PRs, Merges(p)
  PROVE  p \notin Wave /\ <<"held", p>> \notin stood["queue"] /\ <<"objected", p>> \notin stood["queue"]
<1>1. /\ queue.pc = "merge"
      /\ \/ pr[Candidate.pr].head = Candidate.sha /\ ~Behind(Candidate.sha) /\ Land(Candidate.sha)
         \/ UNCHANGED pr
  BY DEF MergePull, Accepts, Candidate, githubVars
<1>2. ~UNCHANGED pr
  BY DEF Merges
<1>3. PICK c : c = Candidate.sha
  OBVIOUS
<1>4. /\ queue.todo # <<>> /\ Landable(c) /\ Land(c)
      /\ \A q \in PRs : Own(q) \in c \ main => q = Candidate.pr
  BY <1>1, <1>2, <1>3, PullLands
<1>5. Own(p) \in c \ main
  BY <1>4, Merging DEF Landable, Inv
<1>6. p = Candidate.pr
  BY <1>4, <1>5
<1>7. QueueRunOK(queue)
  BY DEF Inv
<1> QED
  BY <1>1, <1>4, <1>6, <1>7, CandidateKnown DEF QueueRunOK, Candidate

LEMMA WaveMerges ==
  ASSUME Inv, MergeWave, NEW p \in PRs, Merges(p)
  PROVE  p \in Wave /\ <<"held", p>> \notin stood["wave"]
<1>1. /\ wave.pc = "merge"
      /\ \/ ~Behind(wave.current.head) /\ Land(wave.current.head)
         \/ UNCHANGED pr
  BY DEF MergeWave, Accepts, githubVars
<1>2. ~UNCHANGED pr
  BY DEF Merges
<1>3. PICK c : c = wave.current.head
  OBVIOUS
<1>4. /\ Landable(c) /\ Land(c)
      /\ \A q \in PRs : Own(q) \in c \ main => q \in Wave /\ <<"held", q>> \notin stood["wave"]
  BY <1>1, <1>2, <1>3, WaveLands
<1>5. Own(p) \in c \ main
  BY <1>4, Merging DEF Landable, Inv
<1> QED
  BY <1>4, <1>5

LEMMA Respected ==
  ASSUME Inv, Next
  PROVE  MergesRespectStanding
<1>1. CASE MergePull
  BY <1>1, QueueMerges DEF MergesRespectStanding
<1>2. CASE MergeWave
  BY <1>2, WaveMerges DEF MergesRespectStanding
<1>3. CASE MergeByHand
  BY <1>3, MergeByHandKeeps DEF MergesRespectStanding
<1>4. CASE \E p \in PRs : Push(p) \/ Mark(p) \/ Review(p)
  BY <1>4, NothingMerges DEF MergesRespectStanding
<1>5. CASE UpdateBranch
  BY <1>5, NothingMerges DEF MergesRespectStanding
<1>6. CASE CloseSource
  BY <1>6, NothingMerges DEF MergesRespectStanding
<1>7. CASE UNCHANGED pr
  BY <1>7, NothingMerges DEF MergesRespectStanding
<1>8. QueueStep \/ QueueFail => MergePull \/ UpdateBranch \/ UNCHANGED pr
  BY DEF QueueStep, QueueFail, QueueStart, QueueAsk, QueueFreshPull, QueueEnd, githubVars
<1>9. WaveStep \/ WaveFail => MergeWave \/ CloseSource \/ UNCHANGED pr
  BY DEF WaveStep, WaveFail, WaveStart, WaveDependencies, WaveReviews, WaveChecks, WaveAsk, WaveGoes, FilesForPull,
         CreateBranch, Combine, CreatePull, CheckSource, InvalidateWave, FreshWave, UpdateWave, FindRunAndApprove,
         AwaitCi, RefreshWave, WaveEnd, githubVars
<1>10. (\E c \in DOMAIN ci : FinishCi(c)) => UNCHANGED pr
  BY DEF FinishCi
<1> QED
  BY <1>1, <1>2, <1>3, <1>4, <1>5, <1>6, <1>7, <1>8, <1>9, <1>10 DEF Next

(* A run of either worker merges nothing that has been held since before it began, and a run *)
(* of the queue nothing that has had changes requested since then, though both read labels   *)
(* and reviews several calls before they merge.                                              *)
THEOREM StandingIsAlwaysRespected == QueueAssumption => (Spec => StandingIsRespected)
<1>1. Inv /\ [Next]_vars => [MergesRespectStanding]_vars
  BY Respected
<1> QED
  BY <1>1, Invariant, PTL DEF Spec, StandingIsRespected
=============================================================================
