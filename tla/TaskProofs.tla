----------------------------- MODULE TaskProofs -----------------------------
(***************************************************************************)
(* What the task runtime (TaskRuns) keeps for any tasks, agents, schedules  *)
(* and limits.                                                             *)
(***************************************************************************)
EXTENDS TaskRuns, WellFoundedInduction, FiniteSetTheorems, SequenceTheorems, TLAPS

-----------------------------------------------------------------------------
(* The elements of a sequence that are in a set: as many as there are places *)
(* that hold one, and none is lost, since a place is found by its rank.      *)

(* Every rank up to their number is that of one of a finite set of numbers.  *)
LEMMA EveryRankIsTaken ==
    ASSUME NEW m \in Nat, NEW at, at \subseteq 1..m
    PROVE  /\ IsFiniteSet(at) /\ Cardinality(at) \in Nat
           /\ \A n \in 1..Cardinality(at) : \E i \in at : Cardinality({j \in at : j <= i}) = n
           /\ \A i \in at : Cardinality({j \in at : j <= i}) \in 1..Cardinality(at)
           /\ \A i, k \in at :
                 Cardinality({j \in at : j <= i}) = Cardinality({j \in at : j <= k}) => i = k
<1> DEFINE UpTo(i) == {j \in at : j <= i}
           rank == [i \in at |-> Cardinality(UpTo(i))]
<1>1. IsFiniteSet(at) /\ Cardinality(at) \in Nat
  <2>1. IsFiniteSet(1..m)
    BY FS_Interval
  <2>2. IsFiniteSet(at)
    BY <2>1, FS_Subset
  <2> QED BY <2>2, FS_CardinalityType
<1>2. \A i \in at : /\ IsFiniteSet(UpTo(i)) /\ UpTo(i) \in SUBSET at /\ i \in UpTo(i)
                    /\ Cardinality(UpTo(i)) \in 1..Cardinality(at)
  <2> TAKE i \in at
  <2>1. UpTo(i) \in SUBSET at /\ i \in UpTo(i)
    OBVIOUS
  <2>2. IsFiniteSet(UpTo(i)) /\ Cardinality(UpTo(i)) <= Cardinality(at)
    BY <1>1, <2>1, FS_Subset
  <2>3. Cardinality(UpTo(i)) \in Nat /\ Cardinality(UpTo(i)) # 0
    BY <2>1, <2>2, FS_CardinalityType, FS_EmptySet, Zenon
  <2> HIDE DEF UpTo
  <2> QED BY <1>1, <2>1, <2>2, <2>3
<1>3. \A i, k \in at : rank[i] = rank[k] => i = k
  <2>1. ASSUME NEW i \in at, NEW k \in at, i < k PROVE rank[i] # rank[k]
    <3>1. UpTo(i) \in SUBSET UpTo(k) /\ k \notin UpTo(i) /\ k \in UpTo(k)
      <4>1. \A j \in at : j \in Int
        OBVIOUS
      <4>2. \A j \in at : j <= i => j <= k
        BY <2>1, <4>1
      <4>3. ~(k <= i) /\ k <= k
        BY <2>1, <4>1
      <4> HIDE DEF rank
      <4> QED BY <4>2, <4>3
    <3>2. Cardinality(UpTo(i)) # Cardinality(UpTo(k))
      <4> HIDE DEF UpTo
      <4> QED BY <1>2, <3>1, FS_Subset, Zenon
    <3> QED BY <3>2
  <2>2. \A i, k \in at : i < k \/ k < i \/ i = k
    OBVIOUS
  <2> HIDE DEF rank
  <2> QED BY <2>1, <2>2
<1>4. rank \in Injection(at, 1..Cardinality(at))
  <2>1. rank \in [at -> 1..Cardinality(at)]
    BY <1>2
  <2>2. IsInjective(rank)
    <3> HIDE DEF rank
    <3> QED BY <1>3, <2>1 DEF IsInjective
  <2> QED BY <2>1, <2>2 DEF Injection
<1>5. rank \in Surjection(at, 1..Cardinality(at))
  <2> HIDE DEF rank
  <2>1. IsFiniteSet(1..Cardinality(at)) /\ Cardinality(1..Cardinality(at)) = Cardinality(at)
    BY <1>1, FS_Interval
  <2> QED BY <1>4, <2>1, FS_Injection
<1>6. \A n \in 1..Cardinality(at) : \E i \in at : rank[i] = n
  <2> HIDE DEF rank
  <2> QED BY <1>5 DEF Surjection
<1> QED BY <1>1, <1>2, <1>3, <1>6

(* It is a sequence of those elements.                                      *)
LEMMA ThoseAreIn ==
    ASSUME NEW T, NEW q \in Seq(T), NEW S
    PROVE  /\ Those(q, S) \in Seq(T)
           /\ ToSet(Those(q, S)) = ToSet(q) \cap S
<1> DEFINE at == {i \in DOMAIN q : q[i] \in S}
           Rank(i) == Cardinality({j \in at : j <= i})
           Place(n) == CHOOSE i \in at : Rank(i) = n
           sought == [n \in 1..Cardinality(at) |-> q[Place(n)]]
<1>1. Len(q) \in Nat /\ DOMAIN q = 1..Len(q) /\ at \subseteq 1..Len(q)
  OBVIOUS
<1>2. Those(q, S) = sought
  BY DEF Those
<1>3. \A i \in at : q[i] \in T \cap S
  OBVIOUS
<1>4. ToSet(q) \cap S = {q[i] : i \in at}
  BY <1>1 DEF ToSet
<1> HIDE DEF at
<1>5. /\ Cardinality(at) \in Nat
      /\ \A n \in 1..Cardinality(at) : \E i \in at : Rank(i) = n
      /\ \A i \in at : Rank(i) \in 1..Cardinality(at)
      /\ \A i, k \in at : Rank(i) = Rank(k) => i = k
  BY <1>1, EveryRankIsTaken, Zenon
<1> HIDE DEF Rank
<1>6. \A n \in 1..Cardinality(at) : Place(n) \in at /\ Rank(Place(n)) = n
  BY <1>5
<1>7. \A i \in at : Place(Rank(i)) = i
  BY <1>5, <1>6
<1> HIDE DEF Place
<1>8. sought \in Seq(T)
  BY <1>3, <1>5, <1>6
<1>9. DOMAIN sought = 1..Cardinality(at) /\ \A n \in DOMAIN sought : sought[n] = q[Place(n)]
  OBVIOUS
<1> HIDE DEF sought
<1>10. ToSet(sought) = {q[i] : i \in at}
  <2>1. \A e \in ToSet(sought) : e \in {q[i] : i \in at}
    BY <1>6, <1>9 DEF ToSet
  <2>2. \A i \in at : q[i] \in ToSet(sought)
    <3> TAKE i \in at
    <3>1. Rank(i) \in DOMAIN sought /\ sought[Rank(i)] = q[i]
      BY <1>5, <1>7, <1>9
    <3> QED BY <3>1 DEF ToSet
  <2> QED BY <2>1, <2>2
<1> QED BY <1>2, <1>4, <1>8, <1>10

(* A finite set of numbers has a least and a greatest one.                   *)
LEMMA LeastAndGreatest ==
    ASSUME NEW m \in Nat, NEW at, at \subseteq 1..m, at # {}
    PROVE  /\ \E i \in at : \A j \in at : i <= j
           /\ \E i \in at : \A j \in at : j <= i
<1> DEFINE UpTo(i) == {j \in at : j <= i}
<1>1. /\ IsFiniteSet(at) /\ Cardinality(at) \in Nat
      /\ \A n \in 1..Cardinality(at) : \E i \in at : Cardinality(UpTo(i)) = n
  BY EveryRankIsTaken
<1>2. Cardinality(at) # 0
  BY <1>1, FS_EmptySet, Zenon
<1>3. \A i \in at : i \in Int /\ UpTo(i) \in SUBSET at /\ i \in UpTo(i) /\ IsFiniteSet(UpTo(i))
  <2>1. \A i \in at : i \in Int /\ UpTo(i) \in SUBSET at /\ i \in UpTo(i)
    OBVIOUS
  <2> HIDE DEF UpTo
  <2> QED BY <1>1, <2>1, FS_Subset
<1>4. PICK least \in at : Cardinality(UpTo(least)) = 1
  BY <1>1, <1>2
<1>5. \A j \in at : least <= j
  <2> SUFFICES ASSUME NEW j \in at, ~(least <= j) PROVE FALSE
    OBVIOUS
  <2>1. j \in UpTo(least) /\ j # least
    BY <1>3
  <2>2. PICK x : UpTo(least) = {x}
    BY <1>3, <1>4, FS_Singleton, Zenon
  <2> HIDE DEF UpTo
  <2> QED BY <1>3, <2>1, <2>2
<1>6. PICK greatest \in at : Cardinality(UpTo(greatest)) = Cardinality(at)
  BY <1>1, <1>2
<1>7. UpTo(greatest) = at
  <2> HIDE DEF UpTo
  <2> QED BY <1>1, <1>3, <1>6, FS_Subset
<1>8. \A j \in at : j <= greatest
  BY <1>7
<1> QED BY <1>5, <1>8

-----------------------------------------------------------------------------
(* The dispatch.                                                           *)

(* Where a task waits first.                                               *)
LEMMA FirstPlace ==
    ASSUME NEW T, NEW q \in Seq(T), NEW u \in ToSet(q)
    PROVE  First(q, u) \in 1..Len(q) /\ q[First(q, u)] = u
<1> DEFINE at == {i \in DOMAIN q : q[i] = u}
<1>1. Len(q) \in Nat /\ DOMAIN q = 1..Len(q) /\ at \subseteq 1..Len(q) /\ at # {}
  BY DEF ToSet
<1>2. PICK i \in at : \A j \in at : i <= j
  BY <1>1, LeastAndGreatest
<1>3. i \in DOMAIN q /\ q[i] = u /\ \A j \in 1..i-1 : q[j] # u
  BY <1>1, <1>2
<1>4. /\ First(q, u) \in DOMAIN q /\ q[First(q, u)] = u
  BY <1>3 DEF First
<1> QED BY <1>1, <1>4

(* However many start, they are no more than there is room for.             *)
LEMMA ChosenFit ==
    ASSUME TaskAssumption, NEW q \in Seq(Tasks), NEW busy \in SUBSET Tasks, NEW failing,
           Limit # 0, Cardinality(busy) <= Limit
    PROVE  Cardinality(busy \cup (Chosen(q, busy, failing) \ failing)) <= Limit
<1> DEFINE starting == Chosen(q, busy, failing) \ failing
           places == {First(q, u) : u \in starting}
<1> SUFFICES Cardinality(busy \cup starting) <= Limit
  OBVIOUS
<1>1. Limit \in Nat /\ IsFiniteSet(busy) /\ Cardinality(busy) \in Nat
  BY FS_Subset, FS_CardinalityType DEF TaskAssumption
<1>2. CASE starting = {}
  <2>1. busy \cup starting = busy
    BY <1>2
  <2> HIDE DEF starting
  <2> QED BY <2>1
<1>3. CASE starting # {}
  <2>1. starting \subseteq Candidates(q, busy) /\ starting \subseteq ToSet(q) /\ starting \cap busy = {}
    BY DEF Chosen, Candidates
  <2>2. ToSet(q) \subseteq Tasks
    BY DEF ToSet
  <2>3. \A u \in starting : First(q, u) \in 1..Len(q) /\ q[First(q, u)] = u
    BY <2>1, FirstPlace
  <2>4. \A u \in starting \ failing :
           Limit = 0 \/ Cardinality(busy) + Cardinality({v \in Candidates(q, busy) \ failing : Ahead(q, u, v)}) < Limit
    BY DEF Chosen
  <2>5. starting \ failing = starting
    OBVIOUS
  <2>6. starting \subseteq Candidates(q, busy) \ failing
    BY <2>1
  <2>7. IsFiniteSet(Candidates(q, busy))
    <3>1. Candidates(q, busy) \in SUBSET Tasks
      BY <2>2 DEF Candidates
    <3> QED BY <3>1, FS_Subset DEF TaskAssumption
  <2> HIDE DEF starting
  <2>8. places \subseteq 1..Len(q) /\ places # {} /\ Len(q) \in Nat
    BY <1>3, <2>3
  <2>9. PICK i \in places : \A j \in places : j <= i
    BY <2>8, LeastAndGreatest
  <2>10. PICK last \in starting : i = First(q, last)
    OBVIOUS
  <2> DEFINE ahead == {v \in Candidates(q, busy) \ failing : Ahead(q, last, v)}
  <2>11. starting \ {last} \in SUBSET ahead
    <3> SUFFICES ASSUME NEW u \in starting, u # last PROVE First(q, u) < First(q, last)
      BY <2>6 DEF Ahead
    <3>1. First(q, u) <= First(q, last)
      BY <2>9, <2>10
    <3>2. First(q, u) # First(q, last)
      BY <2>3
    <3> QED BY <2>3, <3>1, <3>2
  <2>12. IsFiniteSet(ahead)
    <3>1. ahead \in SUBSET Candidates(q, busy)
      OBVIOUS
    <3> HIDE DEF ahead
    <3> QED BY <2>7, <3>1, FS_Subset
  <2>13. Cardinality(busy) + Cardinality(ahead) < Limit
    BY <2>4, <2>5
  <2> HIDE DEF ahead
  <2>14. IsFiniteSet(starting \ {last}) /\ Cardinality(starting \ {last}) <= Cardinality(ahead)
    BY <2>11, <2>12, FS_Subset
  <2>15. IsFiniteSet(starting)
    BY <2>6, <2>7, FS_Subset
  <2>16. Cardinality(starting) = Cardinality(starting \ {last}) + 1
    <3>1. Cardinality(starting \ {last}) = Cardinality(starting) - 1
      BY <2>15, FS_RemoveElement
    <3> QED BY <2>15, <3>1, FS_CardinalityType
  <2>17. Cardinality(busy \cup starting) = Cardinality(busy) + Cardinality(starting) - Cardinality(busy \cap starting)
    BY <1>1, <2>15, FS_Union
  <2>18. busy \cap starting = {}
    BY <2>1
  <2>19. /\ Cardinality(ahead) \in Nat /\ Cardinality(starting) \in Nat
         /\ Cardinality(starting \ {last}) \in Nat
    BY <2>12, <2>14, <2>15, FS_CardinalityType
  <2>20. Cardinality(busy \cap starting) = 0
    BY <2>18, FS_EmptySet, Zenon
  <2> QED BY <1>1, <2>13, <2>14, <2>16, <2>17, <2>19, <2>20
<1> QED BY <1>2, <1>3

(* What is left waiting, is so for want of room.                            *)
LEMMA ChosenFill ==
    ASSUME TaskAssumption, NEW q \in Seq(Tasks), NEW busy \in SUBSET Tasks,
           NEW t \in Candidates(q, busy), t \notin Chosen(q, busy, {})
    PROVE  Limit # 0 /\ Cardinality(busy \cup Chosen(q, busy, {})) >= Limit
<1> DEFINE left == Candidates(q, busy) \ Chosen(q, busy, {})
           places == {First(q, u) : u \in left}
<1>1. Limit \in Nat /\ Limit # 0 /\ IsFiniteSet(busy) /\ Cardinality(busy) \in Nat
  <2>1. Limit # 0
    BY DEF Chosen
  <2> QED BY <2>1, FS_Subset, FS_CardinalityType DEF TaskAssumption
<1>2. ToSet(q) \subseteq Tasks /\ left \subseteq ToSet(q)
  BY DEF ToSet, Candidates
<1>3. \A u \in left : First(q, u) \in 1..Len(q) /\ q[First(q, u)] = u
  BY <1>2, FirstPlace
<1>4. \A u \in left :
         ~(Cardinality(busy) + Cardinality({v \in Candidates(q, busy) \ {} : Ahead(q, u, v)}) < Limit)
  BY DEF Chosen
<1>5. \A v \in Candidates(q, busy) \ left : v \in Chosen(q, busy, {})
  OBVIOUS
<1>6. t \in left
  OBVIOUS
<1>7. Chosen(q, busy, {}) \in SUBSET Tasks /\ busy \cap Candidates(q, busy) = {}
  BY <1>2 DEF Chosen, Candidates
<1> HIDE DEF left
<1>8. places \subseteq 1..Len(q) /\ places # {} /\ Len(q) \in Nat
  BY <1>3, <1>6
<1>9. PICK i \in places : \A j \in places : i <= j
  BY <1>8, LeastAndGreatest
<1>10. PICK next \in left : i = First(q, next)
  OBVIOUS
<1> DEFINE ahead == {v \in Candidates(q, busy) \ {} : Ahead(q, next, v)}
           now == busy \cup Chosen(q, busy, {})
<1>11. ahead \in SUBSET Chosen(q, busy, {})
  <2> SUFFICES ASSUME NEW v \in Candidates(q, busy), First(q, v) < First(q, next), v \in left PROVE FALSE
    BY <1>5 DEF Ahead
  <2>1. First(q, next) <= First(q, v)
    BY <1>9, <1>10
  <2> QED BY <1>3, <2>1
<1>12. Cardinality(busy) + Cardinality(ahead) >= Limit \/ Cardinality(ahead) \notin Nat
  BY <1>1, <1>4
<1>13. busy \cap ahead = {}
  BY <1>7
<1> HIDE DEF ahead
<1>14. IsFiniteSet(Chosen(q, busy, {})) /\ IsFiniteSet(ahead)
  BY <1>7, <1>11, FS_Subset DEF TaskAssumption
<1>15. /\ IsFiniteSet(busy \cup ahead)
       /\ Cardinality(busy \cup ahead) = Cardinality(busy) + Cardinality(ahead) - Cardinality(busy \cap ahead)
  BY <1>1, <1>14, FS_Union
<1>16. Cardinality(busy \cap ahead) = 0 /\ Cardinality(ahead) \in Nat
  BY <1>13, <1>14, FS_EmptySet, FS_CardinalityType, Zenon
<1>17. IsFiniteSet(now) /\ busy \cup ahead \in SUBSET now
  BY <1>1, <1>11, <1>14, FS_Union
<1> HIDE DEF now
<1>18. Cardinality(busy \cup ahead) <= Cardinality(now) /\ Cardinality(now) \in Nat
  BY <1>17, FS_Subset, FS_CardinalityType
<1>19. Cardinality(now) >= Limit
  BY <1>1, <1>12, <1>15, <1>16, <1>18
<1> QED BY <1>1, <1>19 DEF now

-----------------------------------------------------------------------------
(* The types, and what they need: only what is scheduled is queued by its    *)
(* schedule, what waits is of the board, and no more run than may.           *)
TimelyIn(q) == \A i \in DOMAIN q : q[i].timed => q[i].task \in Scheduled

Sound ==
    /\ TypeOK /\ troubles \in [Troubles -> Nat]
    /\ TimelyIn(ops) /\ Waiting \subseteq known /\ WithinLimit

(* The writes of a sequence.                                               *)
LEMMA OpTyped ==
    ASSUME NEW kind \in Kinds, NEW t \in Tasks, NEW c \in Columns
    PROVE  Op(kind, t, c) \in Operations /\ ~Op(kind, t, c).timed
BY DEF Op, Operations

LEMMA OpsAppended ==
    ASSUME NEW q \in Seq(Operations), TimelyIn(q),
           NEW e \in Operations, e.timed => e.task \in Scheduled
    PROVE  Append(q, e) \in Seq(Operations) /\ TimelyIn(Append(q, e))
BY DEF TimelyIn

LEMMA OpsJoined ==
    ASSUME NEW q \in Seq(Operations), TimelyIn(q), NEW r \in Seq(Operations), TimelyIn(r)
    PROVE  q \o r \in Seq(Operations) /\ TimelyIn(q \o r)
BY DEF TimelyIn

LEMMA OpsAnswered ==
    ASSUME Sound, ops # <<>>
    PROVE  /\ Tail(ops) \in Seq(Operations) /\ TimelyIn(Tail(ops))
           /\ Head(ops) \in Operations /\ Answered \in Tasks
           /\ Head(ops).timed => Answered \in Scheduled
<1>1. ops \in Seq(Operations) /\ TimelyIn(ops)
  BY DEF Sound, TypeOK
<1>2. Head(ops) = ops[1] /\ 1 \in DOMAIN ops /\ Tail(ops) \in Seq(Operations) /\ Head(ops) \in Operations
  BY <1>1
<1>3. TimelyIn(Tail(ops))
  BY <1>1 DEF TimelyIn
<1> QED BY <1>1, <1>2, <1>3 DEF TimelyIn, Answered, Operations

LEMMA TroublesCounted ==
    ASSUME troubles \in [Troubles -> Nat], NEW kind \in Troubles, NEW n \in Nat, Meets(kind, n)
    PROVE  /\ troubles' \in [Troubles -> Nat]
           /\ Undisturbed' /\ kind \notin {"crash", "race"} => n = 0 /\ Undisturbed
           /\ Undisturbed' => Undisturbed
BY DEF Meets, Undisturbed, Troubles

(* What a dispatch does with the queue, the runs and the writes.             *)
Outcome(q, busy, alive, out, failing) ==
    LET chosen == Chosen(q, busy, failing) IN
    /\ chosen \subseteq ToSet(q) \cap known /\ chosen \cap busy = {} /\ failing \subseteq chosen
    /\ active' = busy \cup (chosen \ failing) /\ workers' = alive \cup (chosen \ failing)
    /\ queue' \in Seq(Tasks) /\ Waiting' = ToSet(q) \ chosen
    /\ asked' = asked \ chosen /\ owed' = owed \ chosen
    /\ ops' \in Seq(Operations) /\ TimelyIn(ops')
    /\ troubles' \in [Troubles -> Nat]
    /\ Undisturbed' => failing = {} /\ ops' = out /\ Undisturbed

LEMMA Dispatched ==
    ASSUME TaskAssumption, known \subseteq Tasks, troubles \in [Troubles -> Nat],
           NEW q \in Seq(Tasks), NEW busy \in SUBSET Tasks, NEW alive \in SUBSET Tasks,
           NEW out \in Seq(Operations), TimelyIn(out),
           DispatchQueue(q, busy, alive, out)
    PROVE  \E failing \in SUBSET Candidates(q, busy) : Outcome(q, busy, alive, out, failing)
<1>1. ToSet(q) \subseteq Tasks
  BY DEF ToSet
<1>2. PICK failing \in SUBSET Candidates(q, busy) :
         LET chosen == Chosen(q, busy, failing)
             inOrder == Those(q, failing) IN
         /\ failing \subseteq chosen
         /\ Meets("fault", Cardinality(failing))
         /\ active' = busy \cup (chosen \ failing)
         /\ workers' = alive \cup (chosen \ failing)
         /\ queue' = Those(q, ToSet(q) \ chosen)
         /\ ops' = out \o [i \in DOMAIN inOrder |-> Op("complete", inOrder[i], "todo")]
         /\ asked' = asked \ chosen /\ owed' = owed \ chosen
  BY Zenon DEF DispatchQueue
<1> DEFINE chosen == Chosen(q, busy, failing)
           inOrder == Those(q, failing)
           added == [i \in DOMAIN inOrder |-> Op("complete", inOrder[i], "todo")]
<1>3. chosen \subseteq ToSet(q) \cap known /\ chosen \cap busy = {}
  BY DEF Chosen, Candidates
<1>4. queue' \in Seq(Tasks) /\ Waiting' = ToSet(q) \ chosen
  <2>1. queue' = Those(q, ToSet(q) \ chosen)
    BY <1>2
  <2> HIDE DEF chosen
  <2>2. queue' \in Seq(Tasks) /\ ToSet(queue') = ToSet(q) \cap (ToSet(q) \ chosen)
    BY <2>1, ThoseAreIn
  <2> QED BY <2>2 DEF Waiting
<1>5. inOrder \in Seq(Tasks) /\ ToSet(inOrder) = ToSet(q) \cap failing
  BY ThoseAreIn
<1>6. failing \subseteq Tasks /\ IsFiniteSet(failing) /\ Cardinality(failing) \in Nat
  <2>1. failing \in SUBSET Tasks
    BY <1>1 DEF Candidates
  <2> QED BY <2>1, FS_Subset, FS_CardinalityType DEF TaskAssumption
<1>7. added \in Seq(Operations) /\ TimelyIn(added)
  <2> HIDE DEF inOrder
  <2>1. \A t \in Tasks : Op("complete", t, "todo") \in Operations /\ ~Op("complete", t, "todo").timed
    BY OpTyped DEF Kinds, Columns
  <2> QED BY <1>5, <2>1 DEF TimelyIn
<1>8. ops' = out \o added
  BY <1>2
<1>9. ops' \in Seq(Operations) /\ TimelyIn(ops')
  <2> HIDE DEF added
  <2> QED BY <1>7, <1>8, OpsJoined
<1>10. /\ troubles' \in [Troubles -> Nat]
       /\ Undisturbed' => Cardinality(failing) = 0 /\ Undisturbed
  BY <1>2, <1>6, TroublesCounted DEF Troubles
<1>11. Undisturbed' => failing = {} /\ ops' = out /\ Undisturbed
  <2> SUFFICES ASSUME Undisturbed' PROVE failing = {} /\ ops' = out
    BY <1>10
  <2>1. failing = {}
    BY <1>6, <1>10, FS_EmptySet, Zenon
  <2>2. ToSet(inOrder) = {}
    BY <1>5, <2>1
  <2>3. Len(inOrder) = 0
    <3>1. inOrder \in Seq(Tasks)
      BY <1>5
    <3>2. \A i \in DOMAIN inOrder : inOrder[i] \in ToSet(inOrder)
      BY Zenon DEF ToSet
    <3> HIDE DEF inOrder
    <3>3. Len(inOrder) \in Nat /\ (Len(inOrder) # 0 => 1 \in DOMAIN inOrder)
      BY <3>1
    <3>4. 1 \notin DOMAIN inOrder
      BY <2>2, <3>2
    <3> QED BY <3>3, <3>4
  <2>4. added = <<>>
    <3> HIDE DEF inOrder
    <3> QED BY <1>5, <2>3
  <2> QED BY <1>8, <2>1, <2>4, ConcatEmptySeq
<1> HIDE DEF inOrder, added
<1>12. Outcome(q, busy, alive, out, failing)
  BY <1>2, <1>3, <1>4, <1>9, <1>10, <1>11, Zenon DEF Outcome
<1> QED BY <1>12

LEMMA AsksOf ==
    ASSUME troubles \in [Troubles -> Nat], NEW S, Asks(S)
    PROVE  /\ S \subseteq known /\ troubles' \in [Troubles -> Nat]
           /\ Undisturbed' => ~InFlight(S) /\ Undisturbed
<1>1. CASE InFlight(S)
  <2>1. Meets("haste", 1)
    BY <1>1 DEF Asks
  <2> QED BY <2>1, TroublesCounted DEF Asks, Troubles
<1>2. CASE ~InFlight(S)
  BY <1>2 DEF Asks, Undisturbed, Troubles
<1> QED BY <1>1, <1>2

LEMMA QueueAppended ==
    ASSUME NEW q \in Seq(Tasks), NEW t \in Tasks
    PROVE  Append(q, t) \in Seq(Tasks) /\ ToSet(Append(q, t)) = ToSet(q) \cup {t}
<1>1. Append(q, t) \in Seq(Tasks) /\ Len(Append(q, t)) = Len(q) + 1 /\ Len(q) \in Nat
  OBVIOUS
<1>2. \A i \in 1..Len(q) : Append(q, t)[i] = q[i]
  OBVIOUS
<1>3. Append(q, t)[Len(q) + 1] = t
  OBVIOUS
<1>4. DOMAIN q = 1..Len(q) /\ DOMAIN Append(q, t) = 1..Len(q)+1
  OBVIOUS
<1> QED BY <1>1, <1>2, <1>3, <1>4 DEF ToSet

LEMMA WithoutOne ==
    ASSUME NEW q \in Seq(Tasks), NEW t
    PROVE  Without(q, t) \in Seq(Tasks) /\ ToSet(Without(q, t)) = ToSet(q) \ {t}
<1>1. Without(q, t) \in Seq(Tasks) /\ ToSet(Without(q, t)) = ToSet(q) \cap (ToSet(q) \ {t})
  BY ThoseAreIn DEF Without
<1> QED BY <1>1

LEMMA FewerRun ==
    ASSUME TaskAssumption, Sound, NEW S \in SUBSET active
    PROVE  S \in SUBSET Tasks /\ (Limit # 0 => Cardinality(S) <= Limit)
<1>1. active \in SUBSET Tasks /\ IsFiniteSet(Tasks)
  BY DEF Sound, TypeOK, TaskAssumption
<1>2. IsFiniteSet(active) /\ Cardinality(active) \in Nat
  BY <1>1, FS_Subset, FS_CardinalityType
<1>3. IsFiniteSet(S) /\ Cardinality(S) <= Cardinality(active) /\ Cardinality(S) \in Nat
  BY <1>2, FS_Subset, FS_CardinalityType
<1> QED BY <1>1, <1>2, <1>3 DEF Sound, WithinLimit, TaskAssumption

(* A dispatch starts no more than may.                                      *)
LEMMA DispatchedSoundly ==
    ASSUME TaskAssumption, Sound,
           NEW q \in Seq(Tasks), ToSet(q) \subseteq known, NEW t,
           NEW busy \in {active, active \ {t}}, NEW alive \in SUBSET Tasks,
           NEW out \in Seq(Operations), TimelyIn(out),
           DispatchQueue(q, busy, alive, out)
    PROVE  /\ active' \subseteq known /\ workers' \subseteq Tasks /\ busy \subseteq active'
           /\ queue' \in Seq(Tasks) /\ Waiting' \subseteq known
           /\ asked' \subseteq asked /\ owed' \subseteq owed
           /\ ops' \in Seq(Operations) /\ TimelyIn(ops')
           /\ troubles' \in [Troubles -> Nat]
           /\ Limit # 0 => Cardinality(active') <= Limit
<1>1. busy \in SUBSET active /\ known \subseteq Tasks /\ active \subseteq known /\ troubles \in [Troubles -> Nat]
  <2>1. busy \subseteq active
    OBVIOUS
  <2>2. known \subseteq Tasks /\ active \subseteq known /\ troubles \in [Troubles -> Nat]
    BY DEF Sound, TypeOK
  <2> QED BY <2>1, <2>2
<1>2. busy \in SUBSET Tasks /\ (Limit # 0 => Cardinality(busy) <= Limit)
  BY <1>1, FewerRun
<1>3. PICK failing \in SUBSET Candidates(q, busy) : Outcome(q, busy, alive, out, failing)
  BY <1>1, <1>2, Dispatched
<1>4. Limit # 0 => Cardinality(active') <= Limit
  BY <1>2, <1>3, ChosenFit DEF Outcome
<1> QED BY <1>1, <1>3, <1>4 DEF Outcome

LEMMA SoundInitially ==
    ASSUME TaskAssumption, Init
    PROVE  Sound
<1>1. TypeOK
  BY DEF Init, TypeOK, TaskAssumption, Columns
<1>2. Waiting = {} /\ TimelyIn(ops)
  BY DEF Init, Waiting, ToSet, TimelyIn
<1>3. WithinLimit
  <2>1. active = {}
    BY DEF Init
  <2> QED BY <2>1, FS_EmptySet DEF WithinLimit, TaskAssumption
<1>4. troubles \in [Troubles -> Nat]
  BY DEF Init
<1> QED BY <1>1, <1>2, <1>3, <1>4 DEF Sound

(* What somebody asks for.                                                 *)
LEMMA SoundWhenAsked ==
    ASSUME TaskAssumption, Sound, User \/ RemoveWorkspace
    PROVE  Sound'
<1>1. /\ TypeOK /\ troubles \in [Troubles -> Nat]
      /\ ops \in Seq(Operations) /\ TimelyIn(ops) /\ Waiting \subseteq known /\ WithinLimit
  BY DEF Sound, TypeOK
<1>2. ASSUME NEW kind \in Kinds, NEW t \in Tasks, NEW c \in Columns,
             ops' = Append(ops, Op(kind, t, c)), UNCHANGED <<board, runs, owed, due, disk, raced>>,
             unread' \in SUBSET Tasks, troubles' \in [Troubles -> Nat]
      PROVE  Sound'
  <2>1. ops' \in Seq(Operations) /\ TimelyIn(ops')
    BY <1>1, <1>2, OpTyped, OpsAppended
  <2>2. /\ UNCHANGED <<known, column, queue, active, workers, carried, asked, owed, due, kept, rows, raced>>
    BY <1>2 DEF board, runs, disk
  <2>3. TypeOK'
    BY <1>1, <1>2, <2>1, <2>2 DEF TypeOK
  <2>4. Waiting' \subseteq known' /\ WithinLimit'
    BY <1>1, <2>2 DEF Waiting, WithinLimit
  <2> QED BY <1>2, <2>1, <2>3, <2>4 DEF Sound
<1>3. ASSUME NEW t \in Tasks, StartCommand(t) PROVE Sound'
  <2>1. t \in known /\ troubles' \in [Troubles -> Nat]
    BY <1>1, <1>3, AsksOf DEF StartCommand
  <2>2. /\ queue' = Append(queue, t) /\ asked' = asked \cup {t}
        /\ column' = [column EXCEPT ![t] = "doing"]
        /\ ops' = Append(ops, [kind |-> "enqueue", task |-> t, column |-> column[t], timed |-> FALSE])
        /\ UNCHANGED <<known, active, workers, carried, unread, owed, due, kept, rows, raced>>
    BY <1>3 DEF StartCommand, Enqueued, talk, disk
  <2>3. [kind |-> "enqueue", task |-> t, column |-> column[t], timed |-> FALSE] \in Operations
    BY <1>1 DEF TypeOK, Operations, Kinds
  <2>4. ops' \in Seq(Operations) /\ TimelyIn(ops')
    BY <1>1, <2>2, <2>3, OpsAppended
  <2>5. queue' \in Seq(Tasks) /\ Waiting' = Waiting \cup {t}
    BY <1>1, <2>2, QueueAppended DEF TypeOK, Waiting
  <2>6. TypeOK'
    BY <1>1, <2>1, <2>2, <2>4, <2>5 DEF TypeOK, Columns
  <2>7. WithinLimit'
    BY <1>1, <2>2 DEF WithinLimit
  <2> QED BY <1>1, <2>1, <2>2, <2>4, <2>5, <2>6, <2>7 DEF Sound
<1>4. ASSUME NEW t \in Tasks, StartAgent(t) \/ SendMessage(t) PROVE Sound'
  <2>1. troubles' \in [Troubles -> Nat]
    <3>1. CASE StartAgent(t)
      BY <1>1, <3>1, AsksOf DEF StartAgent
    <3>2. CASE SendMessage(t)
      BY <1>1, <3>2, TroublesCounted DEF SendMessage, Troubles
    <3> QED BY <1>4, <3>1, <3>2
  <2>2. PICK kind \in Kinds : ops' = Append(ops, Op(kind, t, "todo"))
    BY <1>4 DEF StartAgent, SendMessage, Kinds
  <2>3. unread' \in SUBSET Tasks
    BY <1>1, <1>4 DEF StartAgent, SendMessage, TypeOK
  <2>4. UNCHANGED <<board, runs, owed, due, disk, raced>>
    BY <1>4 DEF StartAgent, SendMessage
  <2> QED BY <1>2, <2>1, <2>2, <2>3, <2>4 DEF Columns
<1>5. ASSUME NEW t \in Tasks, NEW c \in {"todo", "done"}, StopTask(t) \/ SaveTask(t) \/ RemoveTask(t) \/ MoveTask(t, c)
      PROVE  Sound'
  <2>1. troubles' \in [Troubles -> Nat]
    <3>1. CASE StopTask(t)
      BY <1>1, <3>1 DEF StopTask
    <3>2. CASE Asks({t})
      BY <1>1, <3>2, AsksOf
    <3> QED BY <1>5, <3>1, <3>2 DEF SaveTask, RemoveTask, MoveTask
  <2>2. PICK kind \in Kinds, d \in Columns : ops' = Append(ops, Op(kind, t, d))
    <3>1. column[t] \in Columns
      BY <1>1 DEF TypeOK
    <3> QED BY <1>5, <3>1 DEF StopTask, SaveTask, RemoveTask, MoveTask, Kinds, Columns
  <2>3. UNCHANGED <<board, runs, owed, unread, due, disk, raced>>
    BY <1>5 DEF StopTask, SaveTask, RemoveTask, MoveTask, talk
  <2> QED BY <1>1, <1>2, <2>1, <2>2, <2>3 DEF TypeOK
<1>6. ASSUME RemoveWorkspace PROVE Sound'
  <2>1. troubles' \in [Troubles -> Nat]
    BY <1>1, <1>6, TroublesCounted DEF RemoveWorkspace, Troubles
  <2>2. PICK t \in Tasks : ops' = Append(ops, Op("reload", t, "todo"))
    BY <1>6 DEF RemoveWorkspace
  <2>3. UNCHANGED <<board, runs, owed, unread, due, disk, raced>>
    BY <1>6 DEF RemoveWorkspace, talk
  <2> QED BY <1>1, <1>2, <2>1, <2>2, <2>3 DEF TypeOK, Kinds, Columns
<1> QED BY <1>3, <1>4, <1>5, <1>6 DEF User

(* The orders of a finite set: each has every element once.                 *)
LEMMA OrdersOf ==
    ASSUME NEW S, IsFiniteSet(S), NEW f \in SetToSeqs(S)
    PROVE  f \in Seq(S) /\ ToSet(f) = S /\ Len(f) = Cardinality(S) /\ \A i, j \in DOMAIN f : f[i] = f[j] => i = j
<1>1. Cardinality(S) \in Nat /\ IsFiniteSet(1..Cardinality(S)) /\ Cardinality(1..Cardinality(S)) = Cardinality(S)
  <2>1. Cardinality(S) \in Nat
    BY FS_CardinalityType
  <2> QED BY <2>1, FS_Interval
<1>2. f \in [1..Cardinality(S) -> S] /\ \A i, j \in 1..Cardinality(S) : i # j => f[i] # f[j]
  BY Zenon DEF SetToSeqs
<1>3. DOMAIN f = 1..Cardinality(S) /\ \A i, j \in DOMAIN f : f[i] = f[j] => i = j
  BY <1>2
<1>4. f \in Injection(1..Cardinality(S), S)
  BY <1>2, <1>3, Zenon DEF Injection, IsInjective
<1>5. f \in Surjection(1..Cardinality(S), S)
  BY <1>1, <1>4, FS_Injection
<1>6. f \in Seq(S) /\ Len(f) = Cardinality(S)
  BY <1>1, <1>2
<1>7. \A e \in S : \E i \in DOMAIN f : f[i] = e
  BY <1>3, <1>5 DEF Surjection
<1>8. ToSet(f) = S
  BY <1>2, <1>3, <1>7 DEF ToSet
<1> QED BY <1>3, <1>6, <1>8

LEMMA SomeOrder ==
    ASSUME NEW S, IsFiniteSet(S)
    PROVE  SetToSeq(S) \in SetToSeqs(S)
<1>1. PICK f : f \in Bijection(1..Cardinality(S), S)
  BY FS_CardinalityType, Zenon DEF ExistsBijection
<1>2. f \in [1..Cardinality(S) -> S] /\ IsInjective(f)
  BY <1>1, Zenon DEF Bijection, Injection
<1>3. SetToSeq(S) \in [1..Cardinality(S) -> S] /\ IsInjective(SetToSeq(S))
  BY <1>2, Zenon DEF SetToSeq
<1>4. DOMAIN SetToSeq(S) = 1..Cardinality(S)
  BY <1>3
<1> QED BY <1>3, <1>4, Zenon DEF SetToSeqs, IsInjective

LEMMA SequencesJoined ==
    ASSUME NEW T, NEW q \in Seq(T), NEW r \in Seq(T)
    PROVE  q \o r \in Seq(T) /\ ToSet(q \o r) = ToSet(q) \cup ToSet(r)
<1>1. /\ q \o r \in Seq(T) /\ Len(q \o r) = Len(q) + Len(r) /\ Len(q) \in Nat /\ Len(r) \in Nat
      /\ DOMAIN q = 1..Len(q) /\ DOMAIN r = 1..Len(r) /\ DOMAIN (q \o r) = 1..Len(q) + Len(r)
  OBVIOUS
<1>2. \A i \in 1..Len(q) + Len(r) : (q \o r)[i] = IF i <= Len(q) THEN q[i] ELSE r[i - Len(q)]
  BY ConcatProperties
<1>3. \A e \in ToSet(q \o r) : e \in ToSet(q) \cup ToSet(r)
  <2> TAKE e \in ToSet(q \o r)
  <2>1. PICK i \in DOMAIN (q \o r) : e = (q \o r)[i]
    BY DEF ToSet
  <2>2. CASE i <= Len(q)
    BY <1>1, <1>2, <2>1, <2>2 DEF ToSet
  <2>3. CASE ~(i <= Len(q))
    <3>1. i - Len(q) \in DOMAIN r /\ e = r[i - Len(q)]
      BY <1>1, <1>2, <2>1, <2>3
    <3> QED BY <3>1 DEF ToSet
  <2> QED BY <2>2, <2>3
<1>4. \A e \in ToSet(q) : e \in ToSet(q \o r)
  <2> TAKE e \in ToSet(q)
  <2>1. PICK i \in DOMAIN q : e = q[i]
    BY DEF ToSet
  <2>2. i \in DOMAIN (q \o r) /\ (q \o r)[i] = e
    BY <1>1, <1>2, <2>1
  <2> QED BY <2>2 DEF ToSet
<1>5. \A e \in ToSet(r) : e \in ToSet(q \o r)
  <2> TAKE e \in ToSet(r)
  <2>1. PICK i \in DOMAIN r : e = r[i]
    BY DEF ToSet
  <2>2. i + Len(q) \in DOMAIN (q \o r) /\ (q \o r)[i + Len(q)] = e
    BY <1>1, <1>2, <2>1
  <2> QED BY <2>2 DEF ToSet
<1> QED BY <1>1, <1>3, <1>4, <1>5

(* What a read of the database finds: each task of the queue, and each in    *)
(* Doing, once.                                                            *)
LEMMA StoredOnce ==
    ASSUME TaskAssumption, Sound, NEW all \in Stored
    PROVE  /\ all \in Seq(Tasks)
           /\ ToSet(all) = rows \cup {t \in known : kept[t] = "doing"}
           /\ \A i, j \in DOMAIN all : all[i] = all[j] => i = j
<1> DEFINE doing == {t \in known : kept[t] = "doing"}
<1>1. rows \in SUBSET Tasks /\ doing \ rows \in SUBSET Tasks
  BY DEF Sound, TypeOK
<1> HIDE DEF doing
<1>2. IsFiniteSet(rows) /\ IsFiniteSet(doing \ rows)
  BY <1>1, FS_Subset DEF TaskAssumption
<1>3. PICK q \in SetToSeqs(rows), r \in SetToSeqs(doing \ rows) : all = q \o r
  <2>1. PICK some \in {{q \o r : r \in SetToSeqs(doing \ rows)} : q \in SetToSeqs(rows)} : all \in some
    BY Zenon DEF Stored, doing
  <2>2. PICK q \in SetToSeqs(rows) : some = {q \o r : r \in SetToSeqs(doing \ rows)}
    BY Zenon
  <2> QED BY <2>1, <2>2, Zenon
<1>4. /\ q \in Seq(rows) /\ ToSet(q) = rows /\ \A i, j \in DOMAIN q : q[i] = q[j] => i = j
      /\ r \in Seq(doing \ rows) /\ ToSet(r) = doing \ rows /\ \A i, j \in DOMAIN r : r[i] = r[j] => i = j
  BY <1>2, OrdersOf
<1>5. q \in Seq(Tasks) /\ r \in Seq(Tasks)
  BY <1>1, <1>4
<1>6. all \in Seq(Tasks) /\ ToSet(all) = rows \cup doing
  BY <1>3, <1>4, <1>5, SequencesJoined
<1>7. \A i, j \in DOMAIN all : all[i] = all[j] => i = j
  <2>1. /\ DOMAIN all = 1..Len(q) + Len(r) /\ Len(q) \in Nat /\ Len(r) \in Nat
        /\ \A i \in 1..Len(q) + Len(r) : all[i] = IF i <= Len(q) THEN q[i] ELSE r[i - Len(q)]
    <3>1. DOMAIN all = 1..Len(q) + Len(r) /\ Len(q) \in Nat /\ Len(r) \in Nat
      BY <1>3, <1>5
    <3> QED BY <1>3, <1>5, <3>1, ConcatProperties
  <2>2. \A i \in DOMAIN q : q[i] \in rows
    BY <1>4
  <2>3. \A i \in DOMAIN r : r[i] \notin rows
    BY <1>4
  <2>4. DOMAIN q = 1..Len(q) /\ DOMAIN r = 1..Len(r)
    BY <1>5
  <2> SUFFICES ASSUME NEW i \in DOMAIN all, NEW j \in DOMAIN all, all[i] = all[j] PROVE i = j
    OBVIOUS
  <2>5. CASE i <= Len(q) /\ j <= Len(q)
    BY <1>4, <2>1, <2>4, <2>5
  <2>6. CASE ~(i <= Len(q)) /\ ~(j <= Len(q))
    <3>1. /\ i - Len(q) \in DOMAIN r /\ j - Len(q) \in DOMAIN r
          /\ r[i - Len(q)] = r[j - Len(q)]
      BY <2>1, <2>4, <2>6
    <3>2. i - Len(q) = j - Len(q)
      BY <1>4, <3>1, Zenon
    <3> QED BY <2>1, <3>2
  <2>7. CASE i <= Len(q) /\ ~(j <= Len(q))
    <3>1. i \in DOMAIN q /\ j - Len(q) \in DOMAIN r /\ q[i] = r[j - Len(q)]
      BY <2>1, <2>4, <2>7
    <3> QED BY <2>2, <2>3, <3>1
  <2>8. CASE ~(i <= Len(q)) /\ j <= Len(q)
    <3>1. j \in DOMAIN q /\ i - Len(q) \in DOMAIN r /\ q[j] = r[i - Len(q)]
      BY <2>1, <2>4, <2>8
    <3> QED BY <2>2, <2>3, <3>1
  <2> QED BY <2>5, <2>6, <2>7, <2>8
<1> QED BY <1>6, <1>7 DEF doing

(* What was found is split by the room there is.                             *)
LEMMA SplitByRoom ==
    ASSUME NEW all \in Seq(Tasks), NEW free \in 0..Len(all),
           \A i, j \in DOMAIN all : all[i] = all[j] => i = j
    PROVE  LET now == SubSeq(all, 1, free)
               later == SubSeq(all, free + 1, Len(all)) IN
           /\ now \in Seq(Tasks) /\ later \in Seq(Tasks)
           /\ ToSet(now) \cup ToSet(later) = ToSet(all) /\ ToSet(now) \cap ToSet(later) = {}
           /\ IsFiniteSet(ToSet(now)) /\ Cardinality(ToSet(now)) = free
           /\ Len(later) = Len(all) - free
<1> DEFINE now == SubSeq(all, 1, free)
           later == SubSeq(all, free + 1, Len(all))
<1>1. Len(all) \in Nat /\ free \in Nat /\ free <= Len(all) /\ DOMAIN all = 1..Len(all)
  OBVIOUS
<1>2. /\ now \in Seq(Tasks) /\ Len(now) = free /\ DOMAIN now = 1..free
      /\ \A i \in 1..free : now[i] = all[i]
  BY <1>1, SubSeqProperties
<1>3. /\ later \in Seq(Tasks) /\ Len(later) = Len(all) - free /\ DOMAIN later = 1..Len(all) - free
      /\ \A i \in 1..Len(all) - free : later[i] = all[i + free]
  <2>1. free + 1 \in Int /\ Len(all) \in Int /\ \A i \in free + 1..Len(all) : all[i] \in Tasks
    BY <1>1
  <2>2. /\ later \in Seq(Tasks)
        /\ Len(later) = IF free + 1 <= Len(all) THEN Len(all) - (free + 1) + 1 ELSE 0
        /\ \A i \in 1..Len(all) - (free + 1) + 1 : later[i] = all[(free + 1) + i - 1]
    BY <2>1, SubSeqProperties
  <2> HIDE DEF later
  <2>3. Len(all) - (free + 1) + 1 = Len(all) - free /\ Len(later) = Len(all) - free
    <3>1. Len(all) - (free + 1) + 1 = Len(all) - free
      BY <1>1
    <3>2. Len(later) = IF free + 1 <= Len(all) THEN Len(all) - (free + 1) + 1 ELSE 0
      BY <2>2
    <3>3. CASE free + 1 <= Len(all)
      BY <3>1, <3>2, <3>3
    <3>4. CASE ~(free + 1 <= Len(all))
      <4>1. Len(later) = 0
        BY <3>2, <3>4, Zenon
      <4>2. Len(all) - free = 0
        <5>1. \A m, n \in Nat : n <= m /\ ~(n + 1 <= m) => m - n = 0
          OBVIOUS
        <5> QED BY <1>1, <3>4, <5>1, Zenon
      <4> QED BY <3>1, <4>1, <4>2, Zenon
    <3> QED BY <3>3, <3>4
  <2>4. \A i \in 1..Len(all) - free : (free + 1) + i - 1 = i + free
    BY <1>1
  <2>5. \A i \in 1..Len(all) - free : later[i] = all[i + free]
    BY <2>2, <2>3, <2>4
  <2>6. later \in Seq(Tasks) /\ DOMAIN later = 1..Len(later)
    BY <2>2
  <2> QED BY <2>3, <2>5, <2>6, Zenon
<1> HIDE DEF now, later
<1>4. ToSet(now) = {all[i] : i \in 1..free}
  BY <1>2 DEF ToSet
<1>5. ToSet(later) = {all[i] : i \in free+1..Len(all)}
  <2>1. \A e \in ToSet(later) : \E i \in free+1..Len(all) : e = all[i]
    <3> TAKE e \in ToSet(later)
    <3>1. PICK i \in 1..Len(all) - free : e = all[i + free]
      BY <1>3 DEF ToSet
    <3> QED BY <1>1, <3>1
  <2>2. \A i \in free+1..Len(all) : all[i] \in ToSet(later)
    <3> TAKE i \in free+1..Len(all)
    <3>1. i - free \in DOMAIN later /\ later[i - free] = all[i]
      BY <1>1, <1>3
    <3> QED BY <3>1 DEF ToSet
  <2> QED BY <2>1, <2>2
<1>6. ToSet(all) = {all[i] : i \in 1..Len(all)}
  BY <1>1 DEF ToSet
<1>7. ToSet(now) \cup ToSet(later) = ToSet(all)
  <2>1. 1..Len(all) = (1..free) \cup (free+1..Len(all))
    BY <1>1
  <2> QED BY <1>4, <1>5, <1>6, <2>1
<1>8. ToSet(now) \cap ToSet(later) = {}
  <2>1. \A i \in 1..free, j \in free+1..Len(all) : all[i] # all[j]
    BY <1>1
  <2> QED BY <1>4, <1>5, <2>1
<1>9. IsFiniteSet(ToSet(now)) /\ Cardinality(ToSet(now)) = free
  <2>1. now \in Injection(1..free, ToSet(now)) /\ now \in Surjection(1..free, ToSet(now))
    <3>1. now \in [1..free -> ToSet(now)]
      BY <1>2 DEF ToSet
    <3>2. \A e \in ToSet(now) : \E i \in 1..free : now[i] = e
      BY <1>2 DEF ToSet
    <3>3. \A i, j \in 1..free : now[i] = now[j] => i = j
      BY <1>1, <1>2
    <3> QED BY <1>2, <3>1, <3>2, <3>3 DEF Injection, Surjection, IsInjective
  <2>2. ExistsBijection(1..free, ToSet(now))
    BY <2>1, Zenon DEF ExistsBijection, Bijection
  <2>3. IsFiniteSet(1..free) /\ Cardinality(1..free) = free
    BY <1>1, FS_Interval
  <2> QED BY <2>2, <2>3, FS_Bijection
<1> QED BY <1>2, <1>3, <1>7, <1>8, <1>9 DEF now, later

(* What the schedules ask for, and the runs themselves.                     *)
LEMMA SoundWhenScheduled ==
    ASSUME TaskAssumption, Sound, ProcessSchedules
    PROVE  Sound'
<1> DEFINE fired == {t \in due \cap known : Idle(t)}
           inOrder == SetToSeq(fired)
           added == [i \in DOMAIN inOrder |-> [kind |-> "enqueue", task |-> inOrder[i],
                                               column |-> column[inOrder[i]], timed |-> TRUE]]
<1>1. /\ TypeOK /\ troubles \in [Troubles -> Nat]
      /\ ops \in Seq(Operations) /\ TimelyIn(ops) /\ Waiting \subseteq known /\ WithinLimit
  BY DEF Sound, TypeOK
<1>2. fired \in SUBSET Scheduled /\ fired \in SUBSET known /\ fired \in SUBSET Tasks /\ IsFiniteSet(fired)
  <2>1. fired \in SUBSET Scheduled /\ fired \in SUBSET known /\ known \subseteq Tasks
    BY <1>1 DEF TypeOK
  <2>2. fired \in SUBSET Tasks
    BY <2>1
  <2> HIDE DEF fired
  <2> QED BY <2>1, <2>2, FS_Subset DEF TaskAssumption
<1>3. /\ raced' \subseteq raced \cup fired
      /\ queue' = queue \o inOrder /\ asked' = asked \cup fired
      /\ column' = [t \in Tasks |-> IF t \in fired THEN "doing" ELSE column[t]]
      /\ ops' = ops \o added
      /\ due' = due \ fired
      /\ UNCHANGED <<known, active, workers, carried, unread, owed, kept, rows>>
  BY DEF ProcessSchedules, talk, disk
<1> HIDE DEF fired
<1>4. inOrder \in Seq(fired) /\ ToSet(inOrder) = fired
  BY <1>2, SomeOrder, OrdersOf
<1>5. inOrder \in Seq(Tasks)
  BY <1>2, <1>4
<1> HIDE DEF inOrder
<1>6. \A i \in DOMAIN inOrder : added[i] \in Operations /\ added[i].task \in Scheduled
  <2>1. \A i \in DOMAIN inOrder : inOrder[i] \in fired /\ column[inOrder[i]] \in Columns
    BY <1>1, <1>2, <1>4 DEF TypeOK
  <2> QED BY <1>2, <2>1 DEF Operations, Kinds
<1>7. added \in Seq(Operations) /\ TimelyIn(added)
  <2>1. DOMAIN added = DOMAIN inOrder /\ DOMAIN inOrder = 1..Len(inOrder) /\ Len(inOrder) \in Nat
    BY <1>4
  <2>2. \A i \in DOMAIN added : added[i] \in Operations /\ added[i].task \in Scheduled
    BY <1>6, <2>1
  <2>3. added \in [1..Len(inOrder) -> Operations]
    BY <1>6, <2>1
  <2> HIDE DEF added
  <2> QED BY <2>1, <2>2, <2>3 DEF TimelyIn
<1> HIDE DEF added
<1>8. ops' \in Seq(Operations) /\ TimelyIn(ops')
  BY <1>1, <1>3, <1>7, OpsJoined
<1>9. queue' \in Seq(Tasks) /\ Waiting' = Waiting \cup fired
  BY <1>1, <1>3, <1>4, <1>5, SequencesJoined DEF TypeOK, Waiting
<1>10. troubles' \in [Troubles -> Nat]
  <2>1. \/ \E kind \in Troubles : Meets(kind, 1)
        \/ troubles' = troubles
    BY Zenon DEF ProcessSchedules, Troubles
  <2> QED BY <1>1, <2>1, TroublesCounted
<1>11. TypeOK'
  BY <1>1, <1>2, <1>3, <1>8, <1>9 DEF TypeOK, Columns
<1>12. WithinLimit'
  BY <1>1, <1>3 DEF WithinLimit
<1> QED BY <1>1, <1>2, <1>3, <1>8, <1>9, <1>10, <1>11, <1>12 DEF Sound

LEMMA SoundAsItRuns ==
    ASSUME TaskAssumption, Sound, NEW t \in Tasks, ComesDue(t) \/ Turn(t) \/ Ends(t)
    PROVE  Sound'
<1>1. /\ TypeOK /\ troubles \in [Troubles -> Nat]
      /\ ops \in Seq(Operations) /\ TimelyIn(ops) /\ Waiting \subseteq known /\ WithinLimit
  BY DEF Sound, TypeOK
<1>2. CASE ComesDue(t)
  <2>1. TypeOK'
    BY <1>1, <1>2 DEF ComesDue, TypeOK, board, runs, talk, disk
  <2>2. UNCHANGED <<known, queue, active, ops, troubles>>
    BY <1>2 DEF ComesDue, board, runs
  <2> QED BY <1>1, <2>1, <2>2 DEF Sound, Waiting, WithinLimit
<1>3. CASE Turn(t)
  <2>1. TypeOK'
    BY <1>1, <1>3 DEF Turn, TypeOK, board, queues, disk
  <2>2. UNCHANGED <<known, queue, active, ops, troubles>>
    BY <1>3 DEF Turn, board, queues
  <2> QED BY <1>1, <2>1, <2>2 DEF Sound, Waiting, WithinLimit
<1>4. Limit # 0 => Cardinality(active \ {t}) <= Limit
  BY FewerRun
<1>5. \A target \in Columns : Op("complete", t, target) \in Operations /\ ~Op("complete", t, target).timed
  BY OpTyped DEF Kinds
<1>6. ASSUME NEW target \in {"done", "todo"}, FinishCommand(t, target) \/ EndAgent(t, target)
      PROVE  Sound'
  <2>1. /\ active' = active \ {t} /\ workers' = workers \ {t} /\ carried' = carried \ {t}
        /\ ops' = Append(ops, Op("complete", t, target)) /\ owed' \subseteq owed
        /\ UNCHANGED <<known, column, queue, asked, unread, due, kept, rows, raced, troubles>>
    BY <1>6 DEF FinishCommand, EndAgent, Completed, board, queues, talk, disk
  <2>2. ops' \in Seq(Operations) /\ TimelyIn(ops')
    BY <1>1, <1>5, <2>1, OpsAppended DEF Columns
  <2>3. TypeOK'
    BY <1>1, <2>1, <2>2 DEF TypeOK
  <2> QED BY <1>1, <1>4, <2>1, <2>2, <2>3 DEF Sound, Waiting, WithinLimit
<1>7. CASE FinishAgent(t)
  <2> DEFINE answered == Append(ops, Op("note", t, "todo"))
             completed == Append(answered, Op("complete", t, "done"))
             again == [kind |-> "enqueue", task |-> t, column |-> column[t], timed |-> FALSE]
  <2>1. /\ t \in active /\ active' = active \ {t} /\ workers' = workers \ {t} /\ carried' = carried \ {t}
        /\ UNCHANGED <<known, unread, due, kept, rows, raced, troubles>>
    BY <1>7 DEF FinishAgent, disk
  <2>2. answered \in Seq(Operations) /\ TimelyIn(answered)
    BY <1>1, OpTyped, OpsAppended DEF Kinds, Columns
  <2>3. completed \in Seq(Operations) /\ TimelyIn(completed)
    <3> HIDE DEF answered
    <3> QED BY <1>5, <2>2, OpsAppended DEF Columns
  <2>4. t \in known /\ known \subseteq Tasks
    BY <1>1, <2>1 DEF TypeOK
  <2>5. CASE t \in unread /\ t \notin Waiting
    <3>1. /\ queue' = Append(queue, t) /\ asked' = asked \cup {t}
          /\ column' = [column EXCEPT ![t] = "doing"]
          /\ ops' = Append(completed, again)
          /\ owed' \subseteq owed \cup {t}
      BY <1>7, <2>5 DEF FinishAgent, Enqueued
    <3>2. again \in Operations /\ ~again.timed
      BY <1>1 DEF TypeOK, Operations, Kinds
    <3>3. ops' \in Seq(Operations) /\ TimelyIn(ops')
      <4> HIDE DEF completed, again
      <4> QED BY <2>3, <3>1, <3>2, OpsAppended
    <3>4. queue' \in Seq(Tasks) /\ Waiting' = Waiting \cup {t}
      BY <1>1, <3>1, QueueAppended DEF TypeOK, Waiting
    <3>5. TypeOK'
      <4> HIDE DEF completed, again
      <4> QED BY <1>1, <2>1, <3>1, <3>3, <3>4 DEF TypeOK, Columns
    <3>6. WithinLimit'
      BY <1>4, <2>1 DEF WithinLimit
    <3> QED BY <1>1, <2>1, <2>4, <3>3, <3>4, <3>5, <3>6 DEF Sound
  <2>6. CASE ~(t \in unread /\ t \notin Waiting)
    <3>1. ops' = completed /\ UNCHANGED <<queue, asked, column, owed>>
      BY <1>7, <2>6 DEF FinishAgent, queues
    <3> HIDE DEF completed
    <3>2. TypeOK'
      BY <1>1, <2>1, <2>3, <3>1 DEF TypeOK
    <3> QED BY <1>1, <1>4, <2>1, <2>3, <3>1, <3>2 DEF Sound, Waiting, WithinLimit
  <2> QED BY <2>5, <2>6
<1> QED BY <1>2, <1>3, <1>6, <1>7 DEF Ends

(* What the writes bring.                                                  *)
LEMMA SoundWhenDelivered ==
    ASSUME TaskAssumption, Sound, Deliver
    PROVE  Sound'
<1> DEFINE t == Answered
<1>1. /\ TypeOK /\ troubles \in [Troubles -> Nat] /\ queue \in Seq(Tasks) /\ workers \in SUBSET Tasks
      /\ known \subseteq Tasks /\ Waiting \subseteq known /\ WithinLimit
  BY DEF Sound, TypeOK
<1>2. ops # <<>>
  BY DEF Deliver, Result, NoteStored, PromptStored, EnqueueStored, CancelStored, CompleteStored, MoveStored,
         SaveStored, RemoveStored, WorkspaceRemoved
<1>3. /\ Tail(ops) \in Seq(Operations) /\ TimelyIn(Tail(ops))
      /\ t \in Tasks /\ Head(ops).column \in Columns
  <2>1. Head(ops) \in Operations
    BY <1>2, OpsAnswered
  <2> QED BY <1>2, <2>1, OpsAnswered DEF Operations
<1>4. Without(queue, t) \in Seq(Tasks) /\ ToSet(Without(queue, t)) = Waiting \ {t}
  BY <1>1, WithoutOne DEF Waiting
<1> HIDE DEF t
<1>5. CASE NoteStored
  <2>1. ops' = Tail(ops) /\ UNCHANGED <<board, runs, talk, due, disk, raced, troubles>>
    BY <1>5 DEF NoteStored
  <2>2. UNCHANGED <<known, column, queue, asked, active, workers, carried, unread, owed, due, kept, rows, raced, troubles>>
    BY <2>1 DEF board, runs, talk, disk
  <2>3. TypeOK'
    BY <1>1, <1>3, <2>1, <2>2 DEF TypeOK
  <2> QED BY <1>1, <1>3, <2>1, <2>2, <2>3 DEF Sound, Waiting, WithinLimit
<1>6. CASE PromptStored
  <2> DEFINE asks == [kind |-> "enqueue", task |-> t, column |-> column[t], timed |-> FALSE]
  <2>1. /\ t \in known
        /\ queue' = Append(queue, t) /\ asked' = asked \cup {t} /\ column' = [column EXCEPT ![t] = "doing"]
        /\ ops' = Append(Tail(ops), asks)
        /\ UNCHANGED <<known, active, workers, carried, unread, owed, due, kept, rows, raced, troubles>>
    BY <1>6 DEF PromptStored, Enqueued, t, talk, disk
  <2>2. asks \in Operations /\ ~asks.timed
    BY <1>1, <1>3 DEF TypeOK, Operations, Kinds
  <2> HIDE DEF asks
  <2>3. ops' \in Seq(Operations) /\ TimelyIn(ops')
    BY <1>3, <2>1, <2>2, OpsAppended
  <2>4. queue' \in Seq(Tasks) /\ Waiting' = Waiting \cup {t}
    BY <1>1, <1>3, <2>1, QueueAppended DEF Waiting
  <2>5. TypeOK'
    BY <1>1, <1>3, <2>1, <2>3, <2>4 DEF TypeOK, Columns
  <2> QED BY <1>1, <2>1, <2>3, <2>4, <2>5 DEF Sound, WithinLimit
<1>7. CASE EnqueueStored
  <2>1. /\ t \in known /\ rows' = rows \cup {t} /\ kept' = [kept EXCEPT ![t] = "doing"]
        /\ DispatchQueue(queue, active, workers, Tail(ops))
        /\ UNCHANGED <<known, column, carried, unread, due, raced>>
    BY <1>7 DEF EnqueueStored, t, board
  <2>2. /\ active' \subseteq known /\ workers' \subseteq Tasks /\ active \subseteq active'
        /\ queue' \in Seq(Tasks) /\ Waiting' \subseteq known
        /\ asked' \subseteq asked /\ owed' \subseteq owed
        /\ ops' \in Seq(Operations) /\ TimelyIn(ops')
        /\ troubles' \in [Troubles -> Nat]
        /\ Limit # 0 => Cardinality(active') <= Limit
    BY <1>1, <1>3, <2>1, DispatchedSoundly DEF Waiting
  <2>3. TypeOK'
    BY <1>1, <1>3, <2>1, <2>2 DEF TypeOK, Columns
  <2> QED BY <2>1, <2>2, <2>3 DEF Sound, WithinLimit
<1>8. CASE CancelStored
  <2> DEFINE left == IF t \in active THEN workers \ {t} ELSE workers
             out == Tail(ops) \o IF t \in active THEN <<Op("complete", t, "todo")>> ELSE <<>>
  <2>1. /\ rows' = rows \ {t}
        /\ kept' = IF t \in known THEN [kept EXCEPT ![t] = "todo"] ELSE kept
        /\ column' = IF t \in known THEN [column EXCEPT ![t] = "todo"] ELSE column
        /\ carried' = carried \ {t}
        /\ DispatchQueue(Without(queue, t), active \ {t}, left, out)
        /\ raced' \subseteq raced
        /\ UNCHANGED <<known, unread, due>>
    BY <1>8 DEF CancelStored, TakesItsRow, t
  <2>2. out \in Seq(Operations) /\ TimelyIn(out)
    <3>1. Op("complete", t, "todo") \in Operations /\ ~Op("complete", t, "todo").timed
      BY <1>3, OpTyped DEF Kinds, Columns
    <3>2. CASE t \in active
      <4>1. out = Append(Tail(ops), Op("complete", t, "todo"))
        BY <1>3, <3>1, <3>2, AppendIsConcat
      <4> QED BY <1>3, <3>1, <4>1, OpsAppended
    <3>3. CASE t \notin active
      <4>1. out = Tail(ops)
        BY <1>3, <3>3, ConcatEmptySeq
      <4> QED BY <1>3, <4>1
    <3> QED BY <3>2, <3>3
  <2>3. left \in SUBSET Tasks
    BY <1>1
  <2> HIDE DEF left, out
  <2>4. ToSet(Without(queue, t)) \subseteq known
    BY <1>1, <1>4
  <2>5. /\ active' \subseteq known /\ workers' \subseteq Tasks /\ active \ {t} \subseteq active'
        /\ queue' \in Seq(Tasks) /\ Waiting' \subseteq known
        /\ asked' \subseteq asked /\ owed' \subseteq owed
        /\ ops' \in Seq(Operations) /\ TimelyIn(ops')
        /\ troubles' \in [Troubles -> Nat]
        /\ Limit # 0 => Cardinality(active') <= Limit
    BY <1>4, <2>1, <2>2, <2>3, <2>4, DispatchedSoundly
  <2>6. TypeOK'
    BY <1>1, <1>3, <2>1, <2>5 DEF TypeOK, Columns
  <2> QED BY <2>1, <2>5, <2>6 DEF Sound, WithinLimit
<1>9. CASE CompleteStored
  <2> DEFINE target == Head(ops).column
  <2>1. /\ rows' = rows \ {t}
        /\ kept' = IF t \in known THEN [kept EXCEPT ![t] = target] ELSE kept
        /\ column' = IF t \in known THEN [column EXCEPT ![t] = target] ELSE column
        /\ DispatchQueue(Without(queue, t), active, workers, Tail(ops))
        /\ raced' \subseteq raced
        /\ UNCHANGED <<known, carried, unread, due>>
    BY <1>9 DEF CompleteStored, TakesItsRow, t
  <2>2. ToSet(Without(queue, t)) \subseteq known
    BY <1>1, <1>4
  <2>3. /\ active' \subseteq known /\ workers' \subseteq Tasks /\ active \subseteq active'
        /\ queue' \in Seq(Tasks) /\ Waiting' \subseteq known
        /\ asked' \subseteq asked /\ owed' \subseteq owed
        /\ ops' \in Seq(Operations) /\ TimelyIn(ops')
        /\ troubles' \in [Troubles -> Nat]
        /\ Limit # 0 => Cardinality(active') <= Limit
    BY <1>1, <1>3, <1>4, <2>1, <2>2, DispatchedSoundly
  <2>4. target \in Columns
    BY <1>3
  <2> HIDE DEF target
  <2>5. TypeOK'
    BY <1>1, <1>3, <2>1, <2>3, <2>4 DEF TypeOK
  <2> QED BY <2>1, <2>3, <2>5 DEF Sound, WithinLimit
<1>10. CASE MoveStored
  <2> DEFINE target == Head(ops).column
  <2>1. /\ kept' = IF t \in known THEN [kept EXCEPT ![t] = target] ELSE kept
        /\ column' = IF t \in known THEN [column EXCEPT ![t] = target] ELSE column
        /\ ops' = Tail(ops)
        /\ UNCHANGED <<known, queue, asked, active, workers, carried, unread, owed, due, rows, raced, troubles>>
    BY <1>10 DEF MoveStored, t, runs, talk
  <2>2. target \in Columns
    BY <1>3
  <2> HIDE DEF target
  <2>3. TypeOK'
    BY <1>1, <1>3, <2>1, <2>2 DEF TypeOK
  <2> QED BY <1>1, <1>3, <2>1, <2>3 DEF Sound, Waiting, WithinLimit
<1>11. CASE SaveStored
  <2> DEFINE target == Head(ops).column
  <2>1. /\ known' = known \cup {t} /\ kept' = [kept EXCEPT ![t] = target]
        /\ column' = [column EXCEPT ![t] = target] /\ rows' = rows \ {t} /\ ops' = Tail(ops)
        /\ raced' \subseteq raced
        /\ UNCHANGED <<queue, asked, active, workers, carried, unread, owed, due, troubles>>
    BY <1>11 DEF SaveStored, TakesItsRow, t, runs, talk
  <2>2. target \in Columns
    BY <1>3
  <2> HIDE DEF target
  <2>3. TypeOK'
    BY <1>1, <1>3, <2>1, <2>2 DEF TypeOK
  <2> QED BY <1>1, <1>3, <2>1, <2>3 DEF Sound, Waiting, WithinLimit
<1>12. CASE RemoveStored
  <2>1. /\ known' = known \ {t} /\ rows' = rows \ {t} /\ active' = active \ {t}
        /\ queue' = Without(queue, t) /\ asked' = asked \ {t} /\ carried' = carried \ {t}
        /\ unread' = unread \ {t} /\ owed' = owed \ {t} /\ due' = due \ {t}
        /\ ops' = Tail(ops)
        /\ raced' \subseteq raced
        /\ UNCHANGED <<column, workers, kept, troubles>>
    BY <1>12 DEF RemoveStored, TakesItsRow, t
  <2>2. TypeOK'
    BY <1>1, <1>3, <1>4, <2>1 DEF TypeOK
  <2>3. Waiting' = Waiting \ {t}
    BY <1>4, <2>1 DEF Waiting
  <2>4. WithinLimit'
    BY <2>1, FewerRun DEF WithinLimit
  <2> QED BY <1>1, <1>3, <2>1, <2>2, <2>3, <2>4 DEF Sound
<1>13. CASE WorkspaceRemoved
  <2>1. /\ queue' \in Stored /\ column' = kept /\ ops' = Tail(ops)
        /\ UNCHANGED <<known, asked, active, workers, carried, unread, owed, due, kept, rows, raced, troubles>>
    BY <1>13 DEF WorkspaceRemoved, talk, disk
  <2>2. queue' \in Seq(Tasks) /\ ToSet(queue') = rows \cup {u \in known : kept[u] = "doing"}
    BY <2>1, StoredOnce
  <2>3. Waiting' \subseteq known'
    BY <1>1, <2>1, <2>2 DEF Waiting, TypeOK
  <2>4. TypeOK'
    BY <1>1, <1>3, <2>1, <2>2 DEF TypeOK
  <2> QED BY <1>1, <1>3, <2>1, <2>3, <2>4 DEF Sound, WithinLimit
<1> QED BY <1>5, <1>6, <1>7, <1>8, <1>9, <1>10, <1>11, <1>12, <1>13 DEF Deliver

LEMMA SoundWhenRefused ==
    ASSUME TaskAssumption, Sound, Refuse
    PROVE  Sound'
<1> DEFINE t == Answered
<1>1. /\ TypeOK /\ troubles \in [Troubles -> Nat] /\ queue \in Seq(Tasks)
      /\ Waiting \subseteq known /\ WithinLimit
  BY DEF Sound, TypeOK
<1>2. ops # <<>>
  BY DEF Refuse, MessageFails, EnqueueRefused, OtherFails, Result
<1>3. /\ Tail(ops) \in Seq(Operations) /\ TimelyIn(Tail(ops))
      /\ t \in Tasks /\ Head(ops).column \in Columns /\ (Head(ops).timed => t \in Scheduled)
  <2>1. Head(ops) \in Operations
    BY <1>2, OpsAnswered
  <2> QED BY <1>2, <2>1, OpsAnswered DEF Operations
<1>4. Without(queue, t) \in Seq(Tasks) /\ ToSet(Without(queue, t)) = Waiting \ {t}
  BY <1>1, WithoutOne DEF Waiting
<1> HIDE DEF t
<1>5. Fails => troubles' \in [Troubles -> Nat]
  BY <1>1, TroublesCounted DEF Fails, Troubles
<1>6. CASE MessageFails
  <2>1. /\ active' = active \ {t} /\ workers' = (IF t \in active THEN workers \ {t} ELSE workers)
        /\ carried' = carried \ {t} /\ owed' = owed \ {t}
        /\ unread' \in {unread, unread \ {t}}
        /\ ops' = Tail(ops) \o IF t \in active THEN <<Op("complete", t, "todo")>> ELSE <<>>
        /\ troubles' = troubles \/ Fails
        /\ UNCHANGED <<known, column, queue, asked, due, kept, rows, raced>>
    BY <1>6 DEF MessageFails, t, board, queues, disk
  <2>2. ops' \in Seq(Operations) /\ TimelyIn(ops')
    <3>1. Op("complete", t, "todo") \in Operations /\ ~Op("complete", t, "todo").timed
      BY <1>3, OpTyped DEF Kinds, Columns
    <3>2. CASE t \in active
      <4>1. ops' = Append(Tail(ops), Op("complete", t, "todo"))
        BY <1>3, <2>1, <3>1, <3>2, AppendIsConcat
      <4> QED BY <1>3, <3>1, <4>1, OpsAppended
    <3>3. CASE t \notin active
      <4>1. ops' = Tail(ops)
        BY <1>3, <2>1, <3>3, ConcatEmptySeq
      <4> QED BY <1>3, <4>1
    <3> QED BY <3>2, <3>3
  <2>3. TypeOK'
    BY <1>1, <2>1, <2>2 DEF TypeOK
  <2>4. WithinLimit'
    BY <2>1, FewerRun DEF WithinLimit
  <2> QED BY <1>1, <1>5, <2>1, <2>2, <2>3, <2>4 DEF Sound, Waiting
<1>7. CASE EnqueueRefused
  <2> DEFINE former == Head(ops).column
             timed == Head(ops).timed
  <2>1. /\ queue' = Without(queue, t) /\ asked' = asked \ {t}
        /\ column' = (IF t \in known THEN [column EXCEPT ![t] = former] ELSE column)
        /\ due' = (IF timed THEN due \cup {t} ELSE due)
        /\ ops' = Tail(ops)
        /\ troubles' = troubles \/ Fails
        /\ UNCHANGED <<known, active, workers, carried, unread, owed, kept, rows, raced>>
    BY <1>7 DEF EnqueueRefused, t, talk, disk
  <2>2. former \in Columns /\ (timed => t \in Scheduled)
    BY <1>3
  <2> HIDE DEF former, timed
  <2>3. TypeOK'
    BY <1>1, <1>3, <1>4, <2>1, <2>2 DEF TypeOK
  <2>4. Waiting' \subseteq known'
    BY <1>1, <1>4, <2>1 DEF Waiting
  <2> QED BY <1>1, <1>3, <1>5, <2>1, <2>3, <2>4 DEF Sound, WithinLimit
<1>8. CASE OtherFails
  <2>1. /\ ops' = Tail(ops) /\ Fails
        /\ UNCHANGED <<known, column, queue, asked, active, workers, carried, unread, owed, due, kept, rows, raced>>
    BY <1>8 DEF OtherFails, board, runs, talk, disk
  <2>2. TypeOK'
    BY <1>1, <1>3, <2>1 DEF TypeOK
  <2> QED BY <1>1, <1>3, <1>5, <2>1, <2>2 DEF Sound, Waiting, WithinLimit
<1> QED BY <1>6, <1>7, <1>8 DEF Refuse

(* What a start makes of the tables, and of the room there is.               *)
LEMMA StartedAgain ==
    ASSUME TaskAssumption, Sound, Crash
    PROVE  /\ queue' \in Seq(Tasks) /\ workers' = active' /\ asked' = Waiting'
           /\ Waiting' \cup active' = rows \cup {t \in known : kept[t] = "doing"}
           /\ Waiting' \cap active' = {}
           /\ Limit # 0 => Cardinality(active') <= Limit
           /\ queue' # <<>> => Limit # 0 /\ Cardinality(active') >= Limit
<1>1. PICK all \in Stored :
         LET free == IF Limit = 0 \/ Limit > Len(all) THEN Len(all) ELSE Limit IN
         /\ active' = ToSet(SubSeq(all, 1, free)) /\ workers' = active'
         /\ queue' = SubSeq(all, free + 1, Len(all))
  BY Zenon DEF Crash
<1>2. /\ all \in Seq(Tasks) /\ ToSet(all) = rows \cup {t \in known : kept[t] = "doing"}
      /\ \A i, j \in DOMAIN all : all[i] = all[j] => i = j
  BY StoredOnce
<1> DEFINE free == IF Limit = 0 \/ Limit > Len(all) THEN Len(all) ELSE Limit
<1>3. /\ Limit \in Nat /\ free \in 0..Len(all) /\ (Limit # 0 => free <= Limit)
      /\ free = Len(all) \/ (Limit # 0 /\ free = Limit)
      /\ Len(all) \in Nat
  BY <1>2 DEF TaskAssumption
<1>4. active' = ToSet(SubSeq(all, 1, free)) /\ workers' = active' /\ queue' = SubSeq(all, free + 1, Len(all))
  BY <1>1
<1> HIDE DEF free
<1>5. /\ queue' \in Seq(Tasks)
      /\ active' \cup ToSet(queue') = ToSet(all) /\ active' \cap ToSet(queue') = {}
      /\ Cardinality(active') = free
      /\ Len(queue') = Len(all) - free
  BY <1>2, <1>3, <1>4, SplitByRoom
<1>6. asked' = ToSet(queue') /\ Waiting' = ToSet(queue')
  BY DEF Crash, Waiting
<1>7. queue' # <<>> => free # Len(all)
  <2>1. free = Len(all) => Len(queue') = 0
    BY <1>3, <1>5
  <2> QED BY <1>5, <2>1
<1> QED BY <1>2, <1>3, <1>4, <1>5, <1>6, <1>7

LEMMA SoundAfterCrash ==
    ASSUME TaskAssumption, Sound, Crash
    PROVE  Sound'
<1>1. /\ TypeOK /\ troubles \in [Troubles -> Nat] /\ ops \in Seq(Operations) /\ TimelyIn(ops)
  BY DEF Sound, TypeOK
<1> DEFINE late == {ops[i].task : i \in {j \in DOMAIN ops : ops[j].timed}}
<1>2. late \subseteq Scheduled
  BY <1>1 DEF TimelyIn
<1>3. /\ column' = kept /\ carried' = {} /\ unread' = {} /\ owed' = {}
      /\ due' = (due \cup late) \cap known /\ ops' = <<>> /\ raced' = {} /\ UNCHANGED <<known, kept, rows>>
  BY DEF Crash, disk
<1> HIDE DEF late
<1>4. troubles' \in [Troubles -> Nat]
  BY <1>1, TroublesCounted DEF Crash, Troubles
<1>5. Waiting' \subseteq known /\ active' \subseteq known
  BY <1>1, StartedAgain DEF TypeOK
<1>6. TypeOK'
  <2>1. ops' \in Seq(Operations)
    BY <1>3
  <2> QED BY <1>1, <1>2, <1>3, <1>5, <2>1, StartedAgain DEF TypeOK
<1>7. WithinLimit'
  BY StartedAgain DEF WithinLimit
<1>8. TimelyIn(ops')
  BY <1>3 DEF TimelyIn
<1> QED BY <1>3, <1>4, <1>5, <1>6, <1>7, <1>8 DEF Sound

LEMMA SoundStep ==
    ASSUME TaskAssumption, Sound, [Next]_vars
    PROVE  Sound'
<1>1. CASE UNCHANGED vars
  <2>1. UNCHANGED <<known, column, queue, asked, active, workers, carried, unread, owed, due, ops, kept, rows, raced, troubles>>
    BY <1>1 DEF vars, board, runs, talk, disk
  <2> QED BY <2>1 DEF Sound, TypeOK, Waiting, WithinLimit
<1>2. CASE Next
  <2>1. CASE User \/ RemoveWorkspace
    BY <2>1, SoundWhenAsked
  <2>2. CASE ProcessSchedules
    BY <2>2, SoundWhenScheduled
  <2>3. CASE Deliver
    BY <2>3, SoundWhenDelivered
  <2>4. CASE Refuse
    BY <2>4, SoundWhenRefused
  <2>5. CASE Crash
    BY <2>5, SoundAfterCrash
  <2>6. ASSUME NEW t \in Tasks, ComesDue(t) \/ Turn(t) \/ Ends(t) PROVE Sound'
    BY <2>6, SoundAsItRuns
  <2> QED BY <1>2, <2>1, <2>2, <2>3, <2>4, <2>5, <2>6 DEF Next
<1> QED BY <1>1, <1>2

THEOREM TasksAreSound == Spec => []Sound
<1>1. Init => Sound
  BY TaskAssumption, SoundInitially
<1>2. Sound /\ [Next]_vars => Sound'
  BY TaskAssumption, SoundStep
<1> QED BY <1>1, <1>2, PTL DEF Spec

(* No more runs at a time than the setting allows, for any tasks and limit.  *)
THEOREM LimitIsKept == Spec => []WithinLimit
BY TasksAreSound, PTL DEF Sound

-----------------------------------------------------------------------------
(* The order of the writes in flight while nobody is hasty: a prompt, a move, *)
(* a save and a removal are alone, and a task is queued before it is anything *)
(* else, but for the ones in ts, whose schedule was not to wait.             *)
Alone == {"prompt", "move", "save", "remove"}

Orderly(q, ts) ==
    /\ \A i \in DOMAIN q :
          /\ q[i].kind # "reload"
          /\ q[i].kind \in {"save", "move", "complete"} => q[i].column # "doing"
    /\ \A i, j \in DOMAIN q :
          i < j /\ q[i].task = q[j].task =>
             /\ q[i].kind \notin Alone /\ q[j].kind \notin Alone
             /\ q[j].kind = "enqueue" => q[j].task \in ts

(* The tasks that a sequence of writes is about, by their kind.              *)
Carries(q, kinds) == {q[i].task : i \in {j \in DOMAIN q : q[j].kind \in kinds}}

Entering == Carries(ops, {"enqueue"})
Leaving == Carries(ops, {"complete"})
Settling == Carries(ops, Alone)

LEMMA CarriesAppended ==
    ASSUME NEW q \in Seq(Operations), NEW e \in Operations, NEW kinds
    PROVE  Carries(Append(q, e), kinds) = Carries(q, kinds) \cup IF e.kind \in kinds THEN {e.task} ELSE {}
<1>1. /\ Len(q) \in Nat /\ DOMAIN q = 1..Len(q) /\ DOMAIN Append(q, e) = 1..Len(q)+1
      /\ \A i \in DOMAIN q : Append(q, e)[i] = q[i]
      /\ Append(q, e)[Len(q)+1] = e
  OBVIOUS
<1> DEFINE r == Append(q, e)
<1>2. /\ \A i \in DOMAIN r : (i \in DOMAIN q /\ r[i] = q[i]) \/ (i = Len(q)+1 /\ r[i] = e)
      /\ \A i \in DOMAIN q : i \in DOMAIN r /\ r[i] = q[i]
      /\ Len(q)+1 \in DOMAIN r /\ r[Len(q)+1] = e
  BY <1>1
<1> HIDE DEF r
<1>3. \A t : t \in Carries(r, kinds) <=> t \in Carries(q, kinds) \/ (e.kind \in kinds /\ t = e.task)
  BY <1>2 DEF Carries
<1> QED BY <1>3 DEF r

LEMMA CarriesAnswered ==
    ASSUME NEW q \in Seq(Operations), q # <<>>, NEW kinds
    PROVE  Carries(q, kinds) = Carries(Tail(q), kinds) \cup IF Head(q).kind \in kinds THEN {Head(q).task} ELSE {}
<1> DEFINE r == Tail(q)
<1>1. /\ Len(q) \in Nat \ {0} /\ DOMAIN q = 1..Len(q) /\ DOMAIN r = 1..Len(q)-1
      /\ \A i \in DOMAIN r : r[i] = q[i+1]
      /\ Head(q) = q[1]
  OBVIOUS
<1> HIDE DEF r
<1>2. /\ \A i \in DOMAIN q : i = 1 \/ (i-1 \in DOMAIN r /\ r[i-1] = q[i])
      /\ \A i \in DOMAIN r : i+1 \in DOMAIN q /\ r[i] = q[i+1]
      /\ 1 \in DOMAIN q
  <2>1. \A i \in DOMAIN q : i = 1 \/ (i-1 \in DOMAIN r /\ (i-1)+1 = i)
    BY <1>1
  <2> QED BY <1>1, <2>1
<1>3. \A t : t \in Carries(q, kinds) <=> t \in Carries(r, kinds) \/ (Head(q).kind \in kinds /\ t = Head(q).task)
  BY <1>1, <1>2 DEF Carries
<1> QED BY <1>3 DEF r

(* Another write at the end, of a task that has none or one that ends it.     *)
LEMMA OrderlyAppended ==
    ASSUME NEW q \in Seq(Operations), NEW ts, Orderly(q, ts), NEW e \in Operations,
           e.kind # "reload", e.kind \in {"save", "move", "complete"} => e.column # "doing",
           e.task \notin Carries(q, Alone),
           e.kind \in Alone => e.task \notin Carries(q, Kinds),
           e.kind = "enqueue" => e.task \in ts \/ e.task \notin Carries(q, Kinds)
    PROVE  Orderly(Append(q, e), ts)
<1> DEFINE r == Append(q, e)
<1>1. /\ Len(q) \in Nat /\ DOMAIN q = 1..Len(q) /\ DOMAIN r = 1..Len(q)+1
      /\ \A i \in DOMAIN q : r[i] = q[i]
      /\ r[Len(q)+1] = e
  OBVIOUS
<1>2. \A i \in DOMAIN q : q[i].kind \in Kinds
  <2>1. \A i \in DOMAIN q : q[i] \in Operations
    OBVIOUS
  <2>2. \A o \in Operations : o.kind \in Kinds
    BY DEF Operations
  <2> QED BY <2>1, <2>2
<1>3. \A i \in DOMAIN q : q[i].task = e.task =>
         /\ q[i].kind \notin Alone /\ e.kind \notin Alone
         /\ e.kind = "enqueue" => e.task \in ts
  BY <1>2 DEF Carries
<1> HIDE DEF r
<1>4. \A i \in DOMAIN r :
         /\ r[i].kind # "reload"
         /\ r[i].kind \in {"save", "move", "complete"} => r[i].column # "doing"
  BY <1>1 DEF Orderly
<1>5. \A i, j \in DOMAIN r :
         i < j /\ r[i].task = r[j].task =>
            /\ r[i].kind \notin Alone /\ r[j].kind \notin Alone
            /\ r[j].kind = "enqueue" => r[j].task \in ts
  <2> SUFFICES ASSUME NEW i \in DOMAIN r, NEW j \in DOMAIN r, i < j, r[i].task = r[j].task
               PROVE  /\ r[i].kind \notin Alone /\ r[j].kind \notin Alone
                      /\ r[j].kind = "enqueue" => r[j].task \in ts
    OBVIOUS
  <2>1. i \in DOMAIN q /\ r[i] = q[i] /\ (j \in DOMAIN q \/ j = Len(q)+1)
    BY <1>1
  <2>2. CASE j \in DOMAIN q
    BY <1>1, <2>1, <2>2 DEF Orderly
  <2>3. CASE j = Len(q)+1
    BY <1>1, <1>3, <2>1, <2>3
  <2> QED BY <2>1, <2>2, <2>3
<1> QED BY <1>4, <1>5 DEF r, Orderly

(* The first write answered: none that is alone has another behind it, and no *)
(* task is queued behind a write of its own, but for the ones in ts.         *)
LEMMA OrderlyAnswered ==
    ASSUME NEW q \in Seq(Operations), q # <<>>, NEW ts, Orderly(q, ts)
    PROVE  /\ Orderly(Tail(q), ts)
           /\ Head(q).task \notin Carries(Tail(q), Alone)
           /\ Head(q).task \in Carries(Tail(q), {"enqueue"}) => Head(q).task \in ts
           /\ Head(q).kind \in Alone => Head(q).task \notin Carries(Tail(q), Kinds)
           /\ Head(q).kind # "reload"
           /\ Head(q).kind \in {"save", "move", "complete"} => Head(q).column # "doing"
<1> DEFINE r == Tail(q)
<1>1. /\ Len(q) \in Nat \ {0} /\ DOMAIN q = 1..Len(q) /\ DOMAIN r = 1..Len(q)-1
      /\ \A i \in DOMAIN r : r[i] = q[i+1]
      /\ Head(q) = q[1]
  OBVIOUS
<1> HIDE DEF r
<1>2. 1 \in DOMAIN q /\ \A i \in DOMAIN r : i+1 \in DOMAIN q /\ 1 < i+1 /\ r[i] = q[i+1]
  BY <1>1
<1>3. \A i, j \in DOMAIN r : i < j => i+1 < j+1
  BY <1>1
<1>4. Orderly(r, ts)
  BY <1>2, <1>3 DEF Orderly
<1>5. \A i \in DOMAIN r : r[i].task = Head(q).task =>
         /\ Head(q).kind \notin Alone /\ r[i].kind \notin Alone
         /\ r[i].kind = "enqueue" => Head(q).task \in ts
  BY <1>1, <1>2 DEF Orderly
<1>6. /\ Head(q).kind # "reload"
      /\ Head(q).kind \in {"save", "move", "complete"} => Head(q).column # "doing"
  BY <1>1, <1>2 DEF Orderly
<1>7. Head(q).task \notin Carries(r, Alone)
  BY <1>5, Zenon DEF Carries
<1>8. Head(q).kind \in Alone => Head(q).task \notin Carries(r, Kinds)
  BY <1>5, Zenon DEF Carries
<1>9. Head(q).task \in Carries(r, {"enqueue"}) => Head(q).task \in ts
  BY <1>5 DEF Carries
<1> QED BY <1>4, <1>6, <1>7, <1>8, <1>9 DEF r

(* A task without a write needs no exception.                               *)
LEMMA OrderlyWithoutRace ==
    ASSUME NEW q \in Seq(Operations), NEW ts, Orderly(q, ts), NEW t, t \notin Carries(q, Kinds)
    PROVE  Orderly(q, ts \ {t})
<1>1. \A i \in DOMAIN q : q[i].kind \in Kinds
  <2>1. \A i \in DOMAIN q : q[i] \in Operations
    OBVIOUS
  <2>2. \A o \in Operations : o.kind \in Kinds
    BY DEF Operations
  <2> QED BY <2>1, <2>2
<1>2. \A i \in DOMAIN q : q[i].task # t
  BY <1>1 DEF Carries
<1> QED BY <1>2 DEF Orderly

-----------------------------------------------------------------------------
(* A sequence of writes ends a task when it completes it and queues it no     *)
(* more after that.                                                        *)
Is(e, kind, t) == e.kind = kind /\ e.task = t

Ended(q, t) ==
    \E h \in DOMAIN q : Is(q[h], "complete", t) /\ \A k \in DOMAIN q : h < k => ~Is(q[k], "enqueue", t)

(* A task that is queued from Doing, which is where its refusal would put it   *)
(* back, is completed before that, or has no row in rs yet.                  *)
Begun(q, rs) ==
    \A i \in DOMAIN q : q[i].kind = "enqueue" /\ q[i].column = "doing" =>
       \/ \E h \in DOMAIN q :
             /\ h < i /\ Is(q[h], "complete", q[i].task)
             /\ \A k \in DOMAIN q : h < k /\ k < i => ~Is(q[k], "enqueue", q[i].task)
       \/ q[i].task \notin rs /\ \A k \in DOMAIN q : k < i => ~Is(q[k], "enqueue", q[i].task)

LEMMA EndedAppended ==
    ASSUME NEW q \in Seq(Operations), NEW e \in Operations, NEW t
    PROVE  Ended(Append(q, e), t) <=> Is(e, "complete", t) \/ (Ended(q, t) /\ ~Is(e, "enqueue", t))
<1> DEFINE r == Append(q, e)
           n == Len(q)
<1>1. /\ n \in Nat /\ DOMAIN q = 1..n /\ DOMAIN r = 1..n+1
      /\ \A i \in DOMAIN q : r[i] = q[i]
      /\ r[n+1] = e
  OBVIOUS
<1> HIDE DEF r, n
<1>2. /\ \A i \in DOMAIN r : i \in DOMAIN q \/ i = n+1
      /\ \A i \in DOMAIN q : i \in DOMAIN r /\ i < n+1 /\ ~(n+1 < i)
      /\ n+1 \in DOMAIN r /\ ~(n+1 < n+1)
  BY <1>1
<1>3. ASSUME Is(e, "complete", t) PROVE Ended(r, t)
  <2>1. \A k \in DOMAIN r : ~(n+1 < k)
    BY <1>2
  <2> QED BY <1>1, <1>2, <1>3, <2>1 DEF Ended
<1>4. ASSUME Ended(q, t), ~Is(e, "enqueue", t) PROVE Ended(r, t)
  <2>1. PICK h \in DOMAIN q : Is(q[h], "complete", t) /\ \A k \in DOMAIN q : h < k => ~Is(q[k], "enqueue", t)
    BY <1>4 DEF Ended
  <2>2. h \in DOMAIN r /\ Is(r[h], "complete", t)
    BY <1>1, <1>2, <2>1
  <2>3. \A k \in DOMAIN r : h < k => ~Is(r[k], "enqueue", t)
    BY <1>1, <1>2, <1>4, <2>1
  <2> QED BY <2>2, <2>3 DEF Ended
<1>5. ASSUME Ended(r, t), ~Is(e, "complete", t) PROVE Ended(q, t) /\ ~Is(e, "enqueue", t)
  <2>1. PICK h \in DOMAIN r : Is(r[h], "complete", t) /\ \A k \in DOMAIN r : h < k => ~Is(r[k], "enqueue", t)
    BY <1>5 DEF Ended
  <2>2. h \in DOMAIN q
    BY <1>1, <1>2, <1>5, <2>1
  <2> QED BY <1>1, <1>2, <2>1, <2>2 DEF Ended
<1> QED BY <1>3, <1>4, <1>5 DEF r

LEMMA EndedAnswered ==
    ASSUME NEW q \in Seq(Operations), q # <<>>, NEW t
    PROVE  Ended(q, t) <=>
              Ended(Tail(q), t) \/ (Is(Head(q), "complete", t) /\ t \notin Carries(Tail(q), {"enqueue"}))
<1> DEFINE r == Tail(q)
<1>1. /\ Len(q) \in Nat \ {0} /\ DOMAIN q = 1..Len(q) /\ DOMAIN r = 1..Len(q)-1
      /\ \A i \in DOMAIN r : r[i] = q[i+1]
      /\ Head(q) = q[1]
  OBVIOUS
<1> HIDE DEF r
<1>2. /\ \A i \in DOMAIN r : i+1 \in DOMAIN q /\ 1 < i+1 /\ r[i] = q[i+1]
      /\ 1 \in DOMAIN q
      /\ \A i, j \in DOMAIN r : i < j <=> i+1 < j+1
  BY <1>1
<1>3. \A i \in DOMAIN q : i = 1 \/ \E m \in DOMAIN r : i = m+1
  <2> TAKE i \in DOMAIN q
  <2>1. i = 1 \/ (i-1 \in DOMAIN r /\ i = (i-1)+1)
    BY <1>1
  <2> QED BY <2>1
<1>4. t \notin Carries(r, {"enqueue"}) <=> \A k \in DOMAIN r : ~Is(r[k], "enqueue", t)
  BY DEF Carries, Is
<1>5. ASSUME Ended(r, t) PROVE Ended(q, t)
  <2>1. PICK h \in DOMAIN r : Is(r[h], "complete", t) /\ \A k \in DOMAIN r : h < k => ~Is(r[k], "enqueue", t)
    BY <1>5 DEF Ended
  <2>2. h+1 \in DOMAIN q /\ Is(q[h+1], "complete", t)
    BY <1>2, <2>1
  <2>3. \A k \in DOMAIN q : h+1 < k => ~Is(q[k], "enqueue", t)
    <3> SUFFICES ASSUME NEW k \in DOMAIN q, h+1 < k PROVE ~Is(q[k], "enqueue", t)
      OBVIOUS
    <3>1. k # 1
      BY <1>1
    <3>2. PICK m \in DOMAIN r : k = m+1
      BY <1>3, <3>1
    <3>3. h < m /\ q[k] = r[m]
      BY <1>2, <3>2
    <3> QED BY <2>1, <3>3
  <2> QED BY <2>2, <2>3 DEF Ended
<1>6. ASSUME Is(Head(q), "complete", t), \A k \in DOMAIN r : ~Is(r[k], "enqueue", t) PROVE Ended(q, t)
  <2>1. \A k \in DOMAIN q : 1 < k => ~Is(q[k], "enqueue", t)
    BY <1>2, <1>3, <1>6
  <2> QED BY <1>1, <1>2, <1>6, <2>1 DEF Ended
<1>7. ASSUME Ended(q, t) PROVE Ended(r, t) \/ (Is(Head(q), "complete", t) /\ \A k \in DOMAIN r : ~Is(r[k], "enqueue", t))
  <2>1. PICK h \in DOMAIN q : Is(q[h], "complete", t) /\ \A k \in DOMAIN q : h < k => ~Is(q[k], "enqueue", t)
    BY <1>7 DEF Ended
  <2>2. CASE h = 1
    BY <1>1, <1>2, <2>1, <2>2
  <2>3. CASE h # 1
    <3>1. PICK m \in DOMAIN r : h = m+1
      BY <1>3, <2>3
    <3>2. Is(r[m], "complete", t) /\ \A k \in DOMAIN r : m < k => ~Is(r[k], "enqueue", t)
      BY <1>2, <2>1, <3>1
    <3> QED BY <3>2 DEF Ended
  <2> QED BY <2>2, <2>3
<1> QED BY <1>4, <1>5, <1>6, <1>7 DEF r

(* Nothing completes, so nothing ends.                                      *)
LEMMA EndedLeaves ==
    ASSUME NEW q, NEW t, Ended(q, t)
    PROVE  t \in Carries(q, {"complete"})
BY DEF Ended, Is, Carries

LEMMA BegunAppended ==
    ASSUME NEW q \in Seq(Operations), NEW rs, Begun(q, rs), NEW e \in Operations,
           e.kind = "enqueue" /\ e.column = "doing" =>
              Ended(q, e.task) \/ e.task \notin rs \cup Carries(q, {"enqueue"})
    PROVE  Begun(Append(q, e), rs)
<1> DEFINE r == Append(q, e)
           n == Len(q)
<1>1. /\ n \in Nat /\ DOMAIN q = 1..n /\ DOMAIN r = 1..n+1
      /\ \A i \in DOMAIN q : r[i] = q[i]
      /\ r[n+1] = e
  OBVIOUS
<1> HIDE DEF r, n
<1>2. /\ \A i \in DOMAIN r : i \in DOMAIN q \/ i = n+1
      /\ \A i \in DOMAIN q : i \in DOMAIN r /\ i < n+1
      /\ \A i \in DOMAIN q, k \in DOMAIN r : k < i => k \in DOMAIN q
      /\ \A k \in DOMAIN r : k < n+1 => k \in DOMAIN q
  BY <1>1
<1> SUFFICES ASSUME NEW i \in DOMAIN r, r[i].kind = "enqueue", r[i].column = "doing"
             PROVE  \/ \E h \in DOMAIN r :
                          /\ h < i /\ Is(r[h], "complete", r[i].task)
                          /\ \A k \in DOMAIN r : h < k /\ k < i => ~Is(r[k], "enqueue", r[i].task)
                    \/ r[i].task \notin rs /\ \A k \in DOMAIN r : k < i => ~Is(r[k], "enqueue", r[i].task)
  BY DEF Begun, r
<1>3. CASE i \in DOMAIN q
  <2>1. \/ \E h \in DOMAIN q :
              /\ h < i /\ Is(q[h], "complete", q[i].task)
              /\ \A k \in DOMAIN q : h < k /\ k < i => ~Is(q[k], "enqueue", q[i].task)
        \/ q[i].task \notin rs /\ \A k \in DOMAIN q : k < i => ~Is(q[k], "enqueue", q[i].task)
    BY <1>1, <1>3 DEF Begun
  <2> QED BY <1>1, <1>2, <1>3, <2>1
<1>4. CASE i = n+1
  <2>1. r[i] = e /\ (Ended(q, e.task) \/ e.task \notin rs \cup Carries(q, {"enqueue"}))
    BY <1>1, <1>4
  <2>2. CASE Ended(q, e.task)
    <3>1. PICK h \in DOMAIN q :
             Is(q[h], "complete", e.task) /\ \A k \in DOMAIN q : h < k => ~Is(q[k], "enqueue", e.task)
      BY <2>2 DEF Ended
    <3>2. h \in DOMAIN r /\ h < i /\ Is(r[h], "complete", r[i].task)
      BY <1>1, <1>2, <1>4, <2>1, <3>1
    <3>3. \A k \in DOMAIN r : h < k /\ k < i => ~Is(r[k], "enqueue", r[i].task)
      BY <1>1, <1>2, <1>4, <2>1, <3>1
    <3> QED BY <3>2, <3>3
  <2>3. CASE e.task \notin rs \cup Carries(q, {"enqueue"})
    <3>1. \A k \in DOMAIN q : ~Is(q[k], "enqueue", e.task)
      BY <2>3 DEF Carries, Is
    <3>2. \A k \in DOMAIN r : k < i => ~Is(r[k], "enqueue", r[i].task)
      BY <1>1, <1>2, <1>4, <2>1, <3>1
    <3> QED BY <2>1, <2>3, <3>2
  <2> QED BY <2>1, <2>2, <2>3
<1> QED BY <1>2, <1>3, <1>4

(* The first write answered: a row comes with the write that queues, and is    *)
(* gone with the one that completes.                                       *)
LEMMA BegunAnswered ==
    ASSUME NEW q \in Seq(Operations), q # <<>>, NEW rs, Begun(q, rs), NEW now,
           now \subseteq rs \cup (IF Head(q).kind = "enqueue" THEN {Head(q).task} ELSE {}),
           Head(q).kind = "complete" => Head(q).task \notin now
    PROVE  /\ Begun(Tail(q), now)
           /\ Head(q).kind = "enqueue" /\ Head(q).column = "doing" => Head(q).task \notin rs
<1> DEFINE r == Tail(q)
<1>1. /\ Len(q) \in Nat \ {0} /\ DOMAIN q = 1..Len(q) /\ DOMAIN r = 1..Len(q)-1
      /\ \A i \in DOMAIN r : r[i] = q[i+1]
      /\ Head(q) = q[1]
  OBVIOUS
<1> HIDE DEF r
<1>2. /\ \A i \in DOMAIN r : i+1 \in DOMAIN q /\ 1 < i+1 /\ r[i] = q[i+1]
      /\ 1 \in DOMAIN q
      /\ \A i, j \in DOMAIN r : i < j <=> i+1 < j+1
      /\ \A h \in DOMAIN q : ~(h < 1)
  BY <1>1
<1>3. \A i \in DOMAIN q : i = 1 \/ \E m \in DOMAIN r : i = m+1
  <2> TAKE i \in DOMAIN q
  <2>1. i = 1 \/ (i-1 \in DOMAIN r /\ i = (i-1)+1)
    BY <1>1
  <2> QED BY <2>1
<1>4. Head(q).kind = "enqueue" /\ Head(q).column = "doing" => Head(q).task \notin rs
  BY <1>1, <1>2 DEF Begun
<1>5. ASSUME NEW i \in DOMAIN r, r[i].kind = "enqueue", r[i].column = "doing"
      PROVE  \/ \E h \in DOMAIN r :
                   /\ h < i /\ Is(r[h], "complete", r[i].task)
                   /\ \A k \in DOMAIN r : h < k /\ k < i => ~Is(r[k], "enqueue", r[i].task)
             \/ r[i].task \notin now /\ \A k \in DOMAIN r : k < i => ~Is(r[k], "enqueue", r[i].task)
  <2> DEFINE u == r[i].task
  <2>1. i+1 \in DOMAIN q /\ q[i+1] = r[i]
    BY <1>2
  <2>2. \/ \E h \in DOMAIN q :
              /\ h < i+1 /\ Is(q[h], "complete", u)
              /\ \A k \in DOMAIN q : h < k /\ k < i+1 => ~Is(q[k], "enqueue", u)
        \/ u \notin rs /\ \A k \in DOMAIN q : k < i+1 => ~Is(q[k], "enqueue", u)
    BY <1>5, <2>1 DEF Begun
  <2> HIDE DEF u
  <2>3. CASE u \notin rs /\ \A k \in DOMAIN q : k < i+1 => ~Is(q[k], "enqueue", u)
    <3>1. ~Is(Head(q), "enqueue", u)
      BY <1>1, <1>2, <2>3
    <3>2. u \notin now
      BY <2>3, <3>1 DEF Is
    <3>3. \A k \in DOMAIN r : k < i => ~Is(r[k], "enqueue", u)
      BY <1>2, <2>3
    <3> QED BY <3>2, <3>3 DEF u
  <2>4. ASSUME NEW h \in DOMAIN q, h < i+1, Is(q[h], "complete", u),
               \A k \in DOMAIN q : h < k /\ k < i+1 => ~Is(q[k], "enqueue", u)
        PROVE  \/ \E g \in DOMAIN r :
                     /\ g < i /\ Is(r[g], "complete", u)
                     /\ \A k \in DOMAIN r : g < k /\ k < i => ~Is(r[k], "enqueue", u)
               \/ u \notin now /\ \A k \in DOMAIN r : k < i => ~Is(r[k], "enqueue", u)
    <3>1. CASE h = 1
      <4>1. u \notin now
        BY <1>1, <2>4, <3>1 DEF Is
      <4>2. \A k \in DOMAIN r : k < i => ~Is(r[k], "enqueue", u)
        BY <1>2, <2>4, <3>1
      <4> QED BY <4>1, <4>2
    <3>2. CASE h # 1
      <4>1. PICK g \in DOMAIN r : h = g+1
        BY <1>3, <3>2
      <4>2. g < i /\ Is(r[g], "complete", u)
        BY <1>2, <2>4, <4>1
      <4>3. \A k \in DOMAIN r : g < k /\ k < i => ~Is(r[k], "enqueue", u)
        BY <1>2, <2>4, <4>1
      <4> QED BY <4>2, <4>3
    <3> QED BY <3>1, <3>2
  <2> QED BY <2>2, <2>3, <2>4 DEF u
<1>6. Begun(r, now)
  BY <1>5 DEF Begun
<1> QED BY <1>4, <1>6 DEF r

-----------------------------------------------------------------------------
(* What is so while nobody is hasty and nothing fails: what waits does not    *)
(* run, is not ended by what is in flight, and has a row or is about to have   *)
(* one; what neither waits nor runs has no row and is not in Doing, or is      *)
(* about to leave; and somebody waits only for want of room, or a dispatch is  *)
(* on its way.  The tasks whose schedule did not wait for the end of a run     *)
(* are excepted from what their rows and columns say.                       *)
RowsFollow ==
    /\ active \cup Waiting \subseteq rows \cup Entering
    /\ rows \subseteq active \cup Waiting \cup Leaving \cup raced
    /\ \A t \in known : kept[t] = "doing" => t \in rows
    /\ \A t \in active \cup Waiting : ~Ended(ops, t)

ColumnsFollow ==
    /\ \A t \in known : column[t] = "doing" => t \in active \cup Waiting \/ Ended(ops, t)
    /\ \A t \in known \ raced : column[t] = kept[t] \/ t \in Entering

EntriesFollow ==
    /\ Entering \subseteq known /\ Begun(ops, rows)
    /\ \A t \in Entering \ raced :
          t \notin rows /\ column[t] = "doing" /\ t \in active \cup Waiting \cup Leaving

RoomIsGiven ==
    queue # <<>> => (Limit # 0 /\ Cardinality(active) >= Limit) \/ Waiting \subseteq Entering \/ Leaving # {}

Regular ==
    /\ Orderly(ops, raced)
    /\ workers = active /\ active \cap Waiting = {}
    /\ unread \cap carried = {} /\ Waiting \subseteq asked
    /\ Settling \cap (active \cup Waiting) = {}
    /\ RowsFollow /\ ColumnsFollow /\ EntriesFollow /\ RoomIsGiven

(* A dispatch in which nothing fails.                                       *)
LEMMA DispatchedRegularly ==
    ASSUME TaskAssumption, Sound, Undisturbed',
           NEW q \in Seq(Tasks), ToSet(q) \subseteq known, NEW busy \in SUBSET Tasks, ToSet(q) \cap busy = {},
           NEW alive \in SUBSET Tasks, NEW out \in Seq(Operations), TimelyIn(out),
           DispatchQueue(q, busy, alive, out)
    PROVE  /\ \E chosen \in SUBSET ToSet(q) :
                 /\ active' = busy \cup chosen /\ workers' = alive \cup chosen
                 /\ Waiting' = ToSet(q) \ chosen /\ asked' = asked \ chosen
           /\ ops' = out
           /\ queue' # <<>> => Limit # 0 /\ Cardinality(active') >= Limit
<1>1. known \subseteq Tasks /\ troubles \in [Troubles -> Nat]
  BY DEF Sound, TypeOK
<1>2. PICK failing \in SUBSET Candidates(q, busy) : Outcome(q, busy, alive, out, failing)
  BY <1>1, Dispatched
<1>3. failing = {} /\ ops' = out
  BY <1>2 DEF Outcome
<1> DEFINE chosen == Chosen(q, busy, {})
<1>4. /\ chosen \subseteq ToSet(q)
      /\ active' = busy \cup (chosen \ {}) /\ workers' = alive \cup (chosen \ {})
      /\ queue' \in Seq(Tasks) /\ Waiting' = ToSet(q) \ chosen
      /\ asked' = asked \ chosen
  BY <1>2, <1>3, Zenon DEF Outcome
<1>5. Candidates(q, busy) = ToSet(q)
  BY DEF Candidates
<1> HIDE DEF chosen
<1>6. ASSUME queue' # <<>> PROVE Limit # 0 /\ Cardinality(active') >= Limit
  <2>1. queue'[1] \in Waiting'
    <3>1. 1 \in DOMAIN queue'
      BY <1>4, <1>6
    <3> QED BY <3>1 DEF Waiting, ToSet
  <2>2. queue'[1] \in Candidates(q, busy) /\ queue'[1] \notin Chosen(q, busy, {})
    BY <1>4, <1>5, <2>1 DEF chosen
  <2>3. Limit # 0 /\ Cardinality(busy \cup Chosen(q, busy, {})) >= Limit
    BY <2>2, ChosenFill
  <2>4. active' = busy \cup Chosen(q, busy, {})
    BY <1>4 DEF chosen
  <2> QED BY <2>3, <2>4
<1>7. /\ chosen \in SUBSET ToSet(q)
      /\ active' = busy \cup chosen /\ workers' = alive \cup chosen
      /\ Waiting' = ToSet(q) \ chosen /\ asked' = asked \ chosen
  BY <1>4
<1> QED BY <1>3, <1>6, <1>7

LEMMA RegularInitially ==
    ASSUME Init
    PROVE  Regular
<1>1. ops = <<>> /\ DOMAIN ops = {}
  BY DEF Init
<1>2. Orderly(ops, raced) /\ Begun(ops, rows)
  BY <1>1 DEF Orderly, Begun
<1>3. Entering = {} /\ Leaving = {} /\ Settling = {}
  BY <1>1 DEF Entering, Leaving, Settling, Carries
<1>4. Waiting = {}
  BY DEF Init, Waiting, ToSet
<1> QED BY <1>2, <1>3, <1>4 DEF Init, Regular, RowsFollow, ColumnsFollow, EntriesFollow, RoomIsGiven

(* Nothing is in flight for what is not hasty.                               *)
LEMMA NoneInFlight ==
    ASSUME Sound, Regular, NEW S, ~InFlight(S)
    PROVE  Carries(ops, Kinds) \cap S = {}
<1>1. \A i \in DOMAIN ops : ops[i].kind # "reload" => ops[i].task \notin S
  BY DEF InFlight
<1>2. \A i \in DOMAIN ops : ops[i].kind # "reload"
  BY DEF Regular, Orderly
<1> QED BY <1>1, <1>2 DEF Carries

LEMMA KindsOfOps ==
    /\ Entering \subseteq Carries(ops, Kinds) /\ Leaving \subseteq Carries(ops, Kinds)
    /\ Settling \subseteq Carries(ops, Kinds)
<1>1. \A kinds : kinds \subseteq Kinds => Carries(ops, kinds) \subseteq Carries(ops, Kinds)
  BY DEF Carries
<1> QED BY <1>1 DEF Entering, Leaving, Settling, Kinds, Alone

(* A write that is asked for, and nothing else but what opens a conversation. *)
LEMMA RegularAsked ==
    ASSUME TaskAssumption, Sound, Regular, NEW t \in Tasks, NEW kind \in Alone \cup {"cancel"}, NEW c \in Columns,
           c # "doing",
           kind \in Alone => t \notin Carries(ops, Kinds) /\ Idle(t),
           kind = "cancel" => ~Idle(t),
           ops' = Append(ops, Op(kind, t, c)),
           UNCHANGED <<board, runs, disk, raced>>, unread' \in {unread, unread \cup {t}}, unread' # unread => Idle(t)
    PROVE  Regular'
<1>1. UNCHANGED <<known, column, queue, asked, active, workers, carried, kept, rows, raced>> /\ Waiting' = Waiting
  BY DEF board, runs, disk, Waiting
<1> DEFINE e == Op(kind, t, c)
<1>2. e \in Operations /\ e.kind = kind /\ e.task = t /\ e.column = c /\ ops' = Append(ops, e)
  BY OpTyped DEF Op, Kinds, Alone
<1> HIDE DEF e
<1>3. ops \in Seq(Operations) /\ carried \subseteq active
  BY DEF Sound, TypeOK
<1>4. t \notin Settling
  BY KindsOfOps DEF Regular, Idle
<1>5. Orderly(ops', raced')
  BY <1>1, <1>2, <1>3, <1>4, OrderlyAppended DEF Regular, Settling, Alone
<1>6. /\ Entering' = Entering /\ Leaving' = Leaving
      /\ Settling' \subseteq Settling \cup {t} /\ (kind \notin Alone => Settling' = Settling)
  <2>1. \A kinds : Carries(ops', kinds) = Carries(ops, kinds) \cup IF kind \in kinds THEN {t} ELSE {}
    BY <1>2, <1>3, CarriesAppended
  <2>2. kind \notin {"enqueue"} /\ kind \notin {"complete"}
    BY DEF Alone
  <2> QED BY <2>1, <2>2 DEF Entering, Leaving, Settling
<1>7. \A u : Ended(ops, u)' <=> Ended(ops, u)
  <2>1. \A u : ~Is(e, "complete", u) /\ ~Is(e, "enqueue", u)
    BY <1>2 DEF Is, Alone
  <2> QED BY <1>2, <1>3, <2>1, EndedAppended
<1>8. Begun(ops', rows')
  BY <1>1, <1>2, <1>3, BegunAppended DEF Regular, EntriesFollow, Alone
<1>9. Settling' \cap (active' \cup Waiting') = {}
  BY <1>1, <1>6 DEF Regular, Idle
<1>10. unread' \cap carried' = {}
  BY <1>1, <1>3 DEF Regular, Idle
<1>11. RowsFollow' /\ ColumnsFollow'
  BY <1>1, <1>6, <1>7 DEF Regular, RowsFollow, ColumnsFollow
<1>12. EntriesFollow' /\ RoomIsGiven'
  BY <1>1, <1>6, <1>8 DEF Regular, EntriesFollow, RoomIsGiven
<1> QED BY <1>1, <1>5, <1>9, <1>10, <1>11, <1>12 DEF Regular

(* Tasks that are queued.                                                  *)
LEMMA RegularEntered ==
    ASSUME TaskAssumption, Sound, Regular, NEW F \in SUBSET known, F # {},
           F \cap (active \cup Waiting) = {}, F \cap Leaving \subseteq raced',
           raced \subseteq raced', raced' \subseteq raced \cup F,
           Orderly(ops', raced'), Begun(ops', rows'), \A t : Ended(ops', t) <=> Ended(ops, t) /\ t \notin F,
           Entering' = Entering \cup F, Leaving' = Leaving,
           Settling' \subseteq Settling, Settling' \cap F = {},
           Waiting' = Waiting \cup F, asked' = asked \cup F,
           column' = [t \in Tasks |-> IF t \in F THEN "doing" ELSE column[t]],
           UNCHANGED <<known, active, workers, carried, unread, kept, rows>>
    PROVE  Regular'
<1>1. known \subseteq Tasks /\ queue \in Seq(Tasks)
  BY DEF Sound, TypeOK
<1>2. F \cap rows \subseteq raced'
  BY DEF Regular, RowsFollow
<1>3. Settling' \cap (active' \cup Waiting') = {}
  BY DEF Regular
<1>4. RowsFollow'
  BY DEF Regular, RowsFollow
<1>5. ColumnsFollow'
  BY <1>1 DEF Regular, ColumnsFollow
<1>6. EntriesFollow'
  BY <1>1, <1>2 DEF Regular, EntriesFollow
<1>7. RoomIsGiven'
  <2>1. queue = <<>> => Waiting = {}
    BY DEF Waiting, ToSet
  <2> QED BY <2>1 DEF Regular, RoomIsGiven
<1>8. active' \cap Waiting' = {} /\ workers' = active' /\ unread' \cap carried' = {} /\ Waiting' \subseteq asked'
  BY DEF Regular
<1> QED BY <1>3, <1>4, <1>5, <1>6, <1>7, <1>8 DEF Regular

LEMMA CarriesJoined ==
    ASSUME NEW q \in Seq(Operations), NEW r \in Seq(Operations), NEW kinds
    PROVE  Carries(q \o r, kinds) = Carries(q, kinds) \cup Carries(r, kinds)
<1> DEFINE s == q \o r
<1>1. /\ Len(q) \in Nat /\ Len(r) \in Nat
      /\ DOMAIN q = 1..Len(q) /\ DOMAIN r = 1..Len(r) /\ DOMAIN s = 1..Len(q) + Len(r)
  OBVIOUS
<1>2. \A i \in 1..Len(q) + Len(r) : s[i] = IF i <= Len(q) THEN q[i] ELSE r[i - Len(q)]
  BY ConcatProperties
<1> HIDE DEF s
<1>3. /\ \A i \in DOMAIN s : \/ i \in DOMAIN q /\ s[i] = q[i]
                             \/ i - Len(q) \in DOMAIN r /\ s[i] = r[i - Len(q)]
      /\ \A i \in DOMAIN q : i \in DOMAIN s /\ s[i] = q[i]
  <2>1. ASSUME NEW i \in DOMAIN s
        PROVE  \/ i \in DOMAIN q /\ s[i] = q[i]
               \/ i - Len(q) \in DOMAIN r /\ s[i] = r[i - Len(q)]
    <3>1. CASE i <= Len(q)
      BY <1>1, <1>2, <3>1
    <3>2. CASE ~(i <= Len(q))
      BY <1>1, <1>2, <3>2
    <3> QED BY <3>1, <3>2
  <2>2. \A i \in DOMAIN q : i \in DOMAIN s /\ s[i] = q[i]
    BY <1>1, <1>2
  <2> QED BY <2>1, <2>2
<1>4. \A i \in DOMAIN r : i + Len(q) \in DOMAIN s /\ s[i + Len(q)] = r[i]
  <2> TAKE i \in DOMAIN r
  <2>1. i + Len(q) \in DOMAIN s /\ ~(i + Len(q) <= Len(q)) /\ (i + Len(q)) - Len(q) = i
    BY <1>1
  <2> QED BY <1>1, <1>2, <2>1
<1>5. \A t \in Carries(s, kinds) : t \in Carries(q, kinds) \cup Carries(r, kinds)
  BY <1>3 DEF Carries
<1>6. \A t \in Carries(q, kinds) \cup Carries(r, kinds) : t \in Carries(s, kinds)
  BY <1>3, <1>4 DEF Carries
<1> QED BY <1>5, <1>6 DEF s

(* The writes of several schedules at the end: each queues a task of its own.  *)
LEMMA Queued ==
    ASSUME NEW q \in Seq(Operations), NEW ts, NEW rs, NEW r \in Seq(Operations),
           Orderly(q, ts), Begun(q, rs),
           \A i, j \in DOMAIN r : r[i].task = r[j].task => i = j,
           \A i \in DOMAIN r :
              /\ r[i].kind = "enqueue" /\ r[i].task \notin Carries(q, Alone)
              /\ r[i].task \in ts \/ r[i].task \notin Carries(q, Kinds)
              /\ r[i].column = "doing" => Ended(q, r[i].task)
    PROVE  /\ Orderly(q \o r, ts) /\ Begun(q \o r, rs)
           /\ \A t : Ended(q \o r, t) <=> Ended(q, t) /\ t \notin Carries(r, {"enqueue"})
<1> DEFINE s == q \o r
           n == Len(q)
<1>1. /\ n \in Nat /\ Len(r) \in Nat
      /\ DOMAIN q = 1..n /\ DOMAIN r = 1..Len(r) /\ DOMAIN s = 1..n + Len(r)
  OBVIOUS
<1>2. \A i \in 1..n + Len(r) : s[i] = IF i <= n THEN q[i] ELSE r[i - n]
  BY ConcatProperties
<1>3. \A i \in DOMAIN q : q[i].kind \in Kinds
  <2>1. \A i \in DOMAIN q : q[i] \in Operations
    OBVIOUS
  <2>2. \A o \in Operations : o.kind \in Kinds
    BY DEF Operations
  <2> QED BY <2>1, <2>2
<1>4. \A i \in DOMAIN q, j \in DOMAIN r : q[i].task = r[j].task => q[i].kind \notin Alone /\ r[j].task \in ts
  BY <1>3 DEF Carries
<1> HIDE DEF s, n
<1>5. \A i \in DOMAIN s :
         /\ i <= n => i \in DOMAIN q /\ s[i] = q[i]
         /\ ~(i <= n) => i - n \in DOMAIN r /\ s[i] = r[i - n]
  BY <1>1, <1>2
<1>6. \A i \in DOMAIN q : i \in DOMAIN s /\ i <= n /\ s[i] = q[i]
  BY <1>1, <1>2
<1>7. \A i \in DOMAIN r : i + n \in DOMAIN s /\ ~(i + n <= n) /\ s[i + n] = r[i]
  <2> TAKE i \in DOMAIN r
  <2>1. i + n \in DOMAIN s /\ ~(i + n <= n) /\ (i + n) - n = i
    BY <1>1
  <2> QED BY <1>1, <1>2, <2>1
<1>8. Orderly(s, ts)
  <2>1. \A i \in DOMAIN s :
           /\ s[i].kind # "reload"
           /\ s[i].kind \in {"save", "move", "complete"} => s[i].column # "doing"
    BY <1>5 DEF Orderly
  <2>2. ASSUME NEW i \in DOMAIN s, NEW j \in DOMAIN s, i < j, s[i].task = s[j].task
        PROVE  /\ s[i].kind \notin Alone /\ s[j].kind \notin Alone
               /\ s[j].kind = "enqueue" => s[j].task \in ts
    <3>1. CASE i <= n /\ j <= n
      BY <1>5, <2>2, <3>1 DEF Orderly
    <3>2. CASE ~(i <= n) /\ ~(j <= n)
      <4>1. i - n # j - n
        BY <1>1, <2>2
      <4> QED BY <1>5, <2>2, <3>2, <4>1
    <3>3. CASE i <= n /\ ~(j <= n)
      <4>1. q[i].kind \notin Alone /\ s[j].task \in ts /\ s[j].kind = "enqueue" /\ s[i] = q[i]
        BY <1>4, <1>5, <2>2, <3>3
      <4> QED BY <4>1 DEF Alone
    <3>4. CASE ~(i <= n) /\ j <= n
      BY <1>1, <2>2, <3>4
    <3> QED BY <3>1, <3>2, <3>3, <3>4
  <2> QED BY <2>1, <2>2 DEF Orderly
<1>9. ASSUME NEW t PROVE Ended(s, t) <=> Ended(q, t) /\ t \notin Carries(r, {"enqueue"})
  <2>1. t \notin Carries(r, {"enqueue"}) <=> \A k \in DOMAIN r : ~Is(r[k], "enqueue", t)
    BY DEF Carries, Is
  <2>2. ASSUME Ended(q, t), \A k \in DOMAIN r : ~Is(r[k], "enqueue", t) PROVE Ended(s, t)
    <3>1. PICK h \in DOMAIN q : Is(q[h], "complete", t) /\ \A k \in DOMAIN q : h < k => ~Is(q[k], "enqueue", t)
      BY <2>2 DEF Ended
    <3>2. h \in DOMAIN s /\ Is(s[h], "complete", t)
      BY <1>6, <3>1
    <3>3. \A k \in DOMAIN s : h < k => ~Is(s[k], "enqueue", t)
      BY <1>5, <2>2, <3>1
    <3> QED BY <3>2, <3>3 DEF Ended
  <2>3. ASSUME Ended(s, t) PROVE Ended(q, t) /\ \A k \in DOMAIN r : ~Is(r[k], "enqueue", t)
    <3>1. PICK h \in DOMAIN s : Is(s[h], "complete", t) /\ \A k \in DOMAIN s : h < k => ~Is(s[k], "enqueue", t)
      BY <2>3 DEF Ended
    <3>2. h <= n /\ h \in DOMAIN q /\ q[h] = s[h]
      BY <1>5, <3>1 DEF Is
    <3>3. \A k \in DOMAIN q : h < k => ~Is(q[k], "enqueue", t)
      BY <1>6, <3>1
    <3>4. \A k \in DOMAIN r : ~Is(r[k], "enqueue", t)
      <4> TAKE k \in DOMAIN r
      <4>1. k + n \in DOMAIN s /\ h < k + n /\ s[k + n] = r[k]
        BY <1>1, <1>7, <3>2
      <4> QED BY <3>1, <4>1
    <3> QED BY <3>1, <3>2, <3>3, <3>4 DEF Ended
  <2> QED BY <2>1, <2>2, <2>3
<1>10. Begun(s, rs)
  <2> SUFFICES ASSUME NEW i \in DOMAIN s, s[i].kind = "enqueue", s[i].column = "doing"
               PROVE  \/ \E h \in DOMAIN s :
                            /\ h < i /\ Is(s[h], "complete", s[i].task)
                            /\ \A k \in DOMAIN s : h < k /\ k < i => ~Is(s[k], "enqueue", s[i].task)
                      \/ s[i].task \notin rs /\ \A k \in DOMAIN s : k < i => ~Is(s[k], "enqueue", s[i].task)
    BY DEF Begun
  <2>1. CASE i <= n
    <3>1. i \in DOMAIN q /\ s[i] = q[i] /\ \A k \in DOMAIN s : k < i => k \in DOMAIN q /\ s[k] = q[k]
      <4>1. \A k \in DOMAIN s : k < i => k <= n
        BY <1>1, <2>1
      <4> QED BY <1>5, <2>1, <4>1
    <3>2. \/ \E h \in DOMAIN q :
                /\ h < i /\ Is(q[h], "complete", q[i].task)
                /\ \A k \in DOMAIN q : h < k /\ k < i => ~Is(q[k], "enqueue", q[i].task)
          \/ q[i].task \notin rs /\ \A k \in DOMAIN q : k < i => ~Is(q[k], "enqueue", q[i].task)
      BY <3>1 DEF Begun
    <3> QED BY <1>6, <3>1, <3>2
  <2>2. CASE ~(i <= n)
    <3>1. i - n \in DOMAIN r /\ s[i] = r[i - n]
      BY <1>5, <2>2
    <3>2. PICK h \in DOMAIN q :
             /\ Is(q[h], "complete", s[i].task)
             /\ \A k \in DOMAIN q : h < k => ~Is(q[k], "enqueue", s[i].task)
      <4>1. Ended(q, s[i].task)
        BY <3>1
      <4> QED BY <4>1 DEF Ended
    <3>3. h \in DOMAIN s /\ h < i /\ Is(s[h], "complete", s[i].task)
      <4>1. h < i
        BY <1>1, <2>2
      <4> QED BY <1>6, <3>2, <4>1
    <3>4. \A k \in DOMAIN s : h < k /\ k < i => ~Is(s[k], "enqueue", s[i].task)
      <4> SUFFICES ASSUME NEW k \in DOMAIN s, h < k, k < i, Is(s[k], "enqueue", s[i].task) PROVE FALSE
        OBVIOUS
      <4>1. CASE k <= n
        BY <1>5, <3>2, <4>1
      <4>2. CASE ~(k <= n)
        <5>1. k - n \in DOMAIN r /\ r[k - n].task = r[i - n].task
          BY <1>5, <3>1, <4>2 DEF Is
        <5>2. k - n # i - n
          BY <1>1
        <5> QED BY <3>1, <5>1, <5>2
      <4> QED BY <4>1, <4>2
    <3> QED BY <3>3, <3>4
  <2> QED BY <2>1, <2>2
<1> QED BY <1>8, <1>9, <1>10 DEF s

LEMMA RegularWhenScheduled ==
    ASSUME TaskAssumption, Sound, Regular, Undisturbed', ProcessSchedules
    PROVE  Regular'
<1> DEFINE fired == {t \in due \cap known : Idle(t)}
           inOrder == SetToSeq(fired)
           added == [i \in DOMAIN inOrder |-> [kind |-> "enqueue", task |-> inOrder[i],
                                               column |-> column[inOrder[i]], timed |-> TRUE]]
<1>1. /\ TypeOK /\ troubles \in [Troubles -> Nat] /\ ops \in Seq(Operations)
  BY DEF Sound, TypeOK
<1>2. fired \in SUBSET known /\ fired \in SUBSET Tasks /\ IsFiniteSet(fired) /\ fired \cap (active \cup Waiting) = {}
  <2>1. fired \in SUBSET known /\ known \subseteq Tasks /\ fired \cap (active \cup Waiting) = {}
    BY <1>1 DEF TypeOK, Idle
  <2> HIDE DEF fired
  <2> QED BY <2>1, FS_Subset DEF TaskAssumption
<1>3. /\ UserWrites(fired) => Meets("haste", 1)
      /\ fired # {} /\ raced' = raced \cup {t \in fired : InFlight({t})}
      /\ queue' = queue \o inOrder /\ asked' = asked \cup fired
      /\ column' = [t \in Tasks |-> IF t \in fired THEN "doing" ELSE column[t]]
      /\ ops' = ops \o added
      /\ UNCHANGED <<known, active, workers, carried, unread, kept, rows>>
  BY DEF ProcessSchedules, talk, disk
<1> HIDE DEF fired
<1>4. inOrder \in Seq(fired) /\ ToSet(inOrder) = fired /\ \A i, j \in DOMAIN inOrder : inOrder[i] = inOrder[j] => i = j
  BY <1>2, SomeOrder, OrdersOf
<1>5. inOrder \in Seq(Tasks)
  BY <1>2, <1>4
<1>6. fired \cap Settling = {}
  <2>1. ~UserWrites(fired)
    BY <1>1, <1>3, TroublesCounted DEF Troubles
  <2> QED BY <2>1 DEF UserWrites, Settling, Carries, Alone
<1>7. \A t \in fired : t \in Carries(ops, Kinds) => t \in raced'
  <2>1. ASSUME NEW t \in fired, ~InFlight({t}) PROVE t \notin Carries(ops, Kinds)
    BY <2>1, NoneInFlight
  <2> QED BY <1>3, <2>1
<1> HIDE DEF inOrder
<1>8. /\ DOMAIN added = DOMAIN inOrder
      /\ \A i \in DOMAIN inOrder :
            /\ inOrder[i] \in fired
            /\ added[i].kind = "enqueue" /\ added[i].task = inOrder[i] /\ added[i].column = column[inOrder[i]]
            /\ added[i] \in Operations
  <2>1. \A i \in DOMAIN inOrder : inOrder[i] \in fired /\ column[inOrder[i]] \in Columns
    BY <1>1, <1>2, <1>4 DEF TypeOK
  <2> QED BY <1>2, <2>1 DEF Operations, Kinds
<1>9. added \in Seq(Operations)
  <2>1. DOMAIN inOrder = 1..Len(inOrder) /\ Len(inOrder) \in Nat
    BY <1>4
  <2>2. added \in [1..Len(inOrder) -> Operations]
    BY <1>8, <2>1
  <2> HIDE DEF added
  <2> QED BY <2>1, <2>2
<1>10. ToSet(inOrder) = {inOrder[i] : i \in DOMAIN inOrder}
  BY DEF ToSet
<1> HIDE DEF added
<1>11. \A t \in fired : column[t] = "doing" => Ended(ops, t)
  BY <1>2 DEF Regular, ColumnsFollow
<1>12. \A kinds : Carries(added, kinds) = IF "enqueue" \in kinds THEN fired ELSE {}
  BY <1>4, <1>8, <1>10 DEF Carries
<1>13. Orderly(ops, raced')
  BY <1>3 DEF Regular, Orderly
<1>14. /\ Orderly(ops', raced') /\ Begun(ops', rows')
       /\ \A t : Ended(ops', t) <=> Ended(ops, t) /\ t \notin fired
  <2>1. \A i, j \in DOMAIN added : added[i].task = added[j].task => i = j
    BY <1>4, <1>8
  <2>2. \A i \in DOMAIN added :
           /\ added[i].kind = "enqueue" /\ added[i].task \notin Carries(ops, Alone)
           /\ added[i].task \in raced' \/ added[i].task \notin Carries(ops, Kinds)
           /\ added[i].column = "doing" => Ended(ops, added[i].task)
    BY <1>6, <1>7, <1>8, <1>11 DEF Settling
  <2>3. Begun(ops, rows) /\ "enqueue" \in {"enqueue"}
    BY DEF Regular, EntriesFollow
  <2>4. /\ Orderly(ops \o added, raced') /\ Begun(ops \o added, rows)
        /\ \A t : Ended(ops \o added, t) <=> Ended(ops, t) /\ t \notin Carries(added, {"enqueue"})
    BY <1>1, <1>9, <1>13, <2>1, <2>2, <2>3, Queued
  <2> QED BY <1>3, <1>12, <2>3, <2>4
<1>15. Entering' = Entering \cup fired /\ Leaving' = Leaving /\ Settling' = Settling
  <2>1. \A kinds : Carries(ops', kinds) = Carries(ops, kinds) \cup Carries(added, kinds)
    BY <1>1, <1>3, <1>9, CarriesJoined
  <2> QED BY <1>12, <2>1 DEF Entering, Leaving, Settling, Alone
<1>16. Waiting' = Waiting \cup fired
  BY <1>1, <1>3, <1>4, <1>5, SequencesJoined DEF TypeOK, Waiting
<1>17. fired \cap Leaving \subseteq raced' /\ raced \subseteq raced' /\ raced' \subseteq raced \cup fired
  BY <1>3, <1>7, KindsOfOps
<1> QED BY <1>2, <1>3, <1>6, <1>14, <1>15, <1>16, <1>17, RegularEntered

(* What the user asks for.                                                 *)
LEMMA RegularWhenAsked ==
    ASSUME TaskAssumption, Sound, Regular, Undisturbed', User \/ RemoveWorkspace
    PROVE  Regular'
<1>1. /\ TypeOK /\ troubles \in [Troubles -> Nat] /\ ops \in Seq(Operations) /\ queue \in Seq(Tasks)
  BY DEF Sound, TypeOK
<1>2. ASSUME NEW t \in Tasks, Asks({t})
      PROVE  t \in known /\ t \notin Carries(ops, Kinds) /\ t \notin Settling \cup Leaving /\ ~Ended(ops, t)
  <2>1. t \in known /\ ~InFlight({t})
    BY <1>1, <1>2, AsksOf
  <2>2. t \notin Carries(ops, Kinds)
    BY <2>1, NoneInFlight
  <2>3. t \notin Settling \cup Leaving
    BY <2>2, KindsOfOps
  <2> QED BY <2>1, <2>2, <2>3, EndedLeaves DEF Leaving
<1>3. ASSUME NEW t \in Tasks, Asks({t}), Idle(t)
      PROVE  column[t] \in Columns /\ column[t] # "doing"
  BY <1>1, <1>2, <1>3 DEF TypeOK, Regular, ColumnsFollow, Idle
<1>4. ~RemoveWorkspace
  BY <1>1, TroublesCounted DEF RemoveWorkspace, Troubles
<1>5. PICK t \in Tasks :
         \/ StartCommand(t) \/ StartAgent(t) \/ SendMessage(t) \/ StopTask(t)
         \/ SaveTask(t) \/ RemoveTask(t)
         \/ \E c \in {"todo", "done"} : MoveTask(t, c)
  BY <1>4 DEF User
<1>6. CASE StartCommand(t)
  <2> DEFINE asks == [kind |-> "enqueue", task |-> t, column |-> column[t], timed |-> FALSE]
  <2>1. /\ Asks({t}) /\ Idle(t)
        /\ queue' = Append(queue, t) /\ asked' = asked \cup {t} /\ column' = [column EXCEPT ![t] = "doing"]
        /\ ops' = Append(ops, asks)
        /\ UNCHANGED <<known, active, workers, carried, unread, kept, rows, raced>>
    BY <1>6 DEF StartCommand, Enqueued, talk, disk
  <2>2. /\ t \in known /\ t \notin Carries(ops, Kinds) /\ t \notin Settling \cup Leaving
        /\ column[t] \in Columns /\ column[t] # "doing" /\ t \notin active \cup Waiting
    BY <1>2, <1>3, <2>1 DEF Idle
  <2>3. asks \in Operations /\ asks.kind = "enqueue" /\ asks.task = t /\ asks.column = column[t]
    BY <2>2 DEF Operations, Kinds
  <2> HIDE DEF asks
  <2>4. /\ Orderly(ops', raced') /\ Begun(ops', rows')
        /\ \A u : Ended(ops', u) <=> Ended(ops, u) /\ u \notin {t}
    <3>1. Orderly(ops', raced')
      BY <1>1, <2>1, <2>2, <2>3, OrderlyAppended DEF Regular, Settling
    <3>2. Begun(ops', rows')
      BY <1>1, <2>1, <2>2, <2>3, BegunAppended DEF Regular, EntriesFollow
    <3>3. \A u : Is(asks, "enqueue", u) <=> u = t
      BY <2>3 DEF Is
    <3>4. \A u : ~Is(asks, "complete", u)
      BY <2>3 DEF Is
    <3> QED BY <1>1, <2>1, <2>3, <3>1, <3>2, <3>3, <3>4, EndedAppended
  <2>5. Entering' = Entering \cup {t} /\ Leaving' = Leaving /\ Settling' = Settling
    <3>1. \A kinds : Carries(ops', kinds) = Carries(ops, kinds) \cup IF "enqueue" \in kinds THEN {t} ELSE {}
      BY <1>1, <2>1, <2>3, CarriesAppended
    <3> QED BY <3>1 DEF Entering, Leaving, Settling, Alone
  <2>6. Waiting' = Waiting \cup {t}
    BY <1>1, <2>1, QueueAppended DEF Waiting
  <2>7. column' = [u \in Tasks |-> IF u \in {t} THEN "doing" ELSE column[u]]
    BY <1>1, <2>1 DEF TypeOK
  <2>8. {t} \in SUBSET known /\ {t} # {} /\ {t} \cap (active \cup Waiting) = {}
        /\ {t} \cap Leaving \subseteq raced'
        /\ Settling' \cap {t} = {}
    BY <2>2, <2>5
  <2> QED BY <2>1, <2>4, <2>5, <2>6, <2>7, <2>8, RegularEntered
<1>7. CASE StartAgent(t)
  <2>1. /\ Asks({t}) /\ Idle(t) /\ unread' = unread \cup {t}
        /\ ops' = Append(ops, Op("prompt", t, "todo"))
        /\ UNCHANGED <<board, runs, disk, raced>>
    BY <1>7 DEF StartAgent
  <2>2. "prompt" \in Alone \cup {"cancel"} /\ "todo" \in Columns /\ t \notin Carries(ops, Kinds)
    BY <1>2, <2>1 DEF Alone, Columns
  <2> QED BY <2>1, <2>2, RegularAsked
<1>8. CASE SendMessage(t)
  BY <1>1, <1>8, TroublesCounted DEF SendMessage, Troubles
<1>9. CASE StopTask(t)
  <2>1. /\ ~Idle(t) /\ ops' = Append(ops, Op("cancel", t, "todo"))
        /\ UNCHANGED <<board, runs, disk, raced>> /\ unread' = unread
    BY <1>9 DEF StopTask, talk
  <2>2. "cancel" \in Alone \cup {"cancel"} /\ "todo" \in Columns /\ "cancel" \notin Alone
    BY DEF Alone, Columns
  <2> QED BY <2>1, <2>2, RegularAsked
<1>10. CASE SaveTask(t)
  <2>1. /\ Asks({t}) /\ Idle(t) /\ ops' = Append(ops, Op("save", t, column[t]))
        /\ UNCHANGED <<board, runs, disk, raced>> /\ unread' = unread
    BY <1>10 DEF SaveTask, talk
  <2>2. /\ "save" \in Alone \cup {"cancel"} /\ t \notin Carries(ops, Kinds)
        /\ column[t] \in Columns /\ column[t] # "doing"
    BY <1>2, <1>3, <2>1 DEF Alone
  <2> QED BY <2>1, <2>2, RegularAsked
<1>11. CASE RemoveTask(t)
  <2>1. /\ Asks({t}) /\ Idle(t) /\ ops' = Append(ops, Op("remove", t, "todo"))
        /\ UNCHANGED <<board, runs, disk, raced>> /\ unread' = unread
    BY <1>11 DEF RemoveTask, talk
  <2>2. "remove" \in Alone \cup {"cancel"} /\ "todo" \in Columns /\ t \notin Carries(ops, Kinds)
    BY <1>2, <2>1 DEF Alone, Columns
  <2> QED BY <2>1, <2>2, RegularAsked
<1>12. ASSUME NEW c \in {"todo", "done"}, MoveTask(t, c)
       PROVE  Regular'
  <2>1. /\ Asks({t}) /\ Idle(t) /\ ops' = Append(ops, Op("move", t, c))
        /\ UNCHANGED <<board, runs, disk, raced>> /\ unread' = unread
    BY <1>12 DEF MoveTask, talk
  <2>2. "move" \in Alone \cup {"cancel"} /\ c \in Columns /\ c # "doing" /\ t \notin Carries(ops, Kinds)
    BY <1>2, <2>1 DEF Alone, Columns
  <2> QED BY <2>1, <2>2, RegularAsked
<1> QED BY <1>5, <1>6, <1>7, <1>8, <1>9, <1>10, <1>11, <1>12

(* A run that ends: it leaves with a write, which gives its room away.       *)
LEMMA RegularEnded ==
    ASSUME TaskAssumption, Sound, Regular, NEW t \in active, NEW target \in {"done", "todo"},
           NEW q \in Seq(Operations), Orderly(q, raced), Begun(q, rows), \A u : Ended(q, u) <=> Ended(ops, u),
           Carries(q, {"enqueue"}) = Entering, Carries(q, {"complete"}) = Leaving, Carries(q, Alone) = Settling,
           ops' = Append(q, Op("complete", t, target)),
           active' = active \ {t}, workers' = workers \ {t}, carried' = carried \ {t},
           UNCHANGED <<known, column, queue, asked, unread, kept, rows, raced>>
    PROVE  Regular'
<1> DEFINE e == Op("complete", t, target)
<1>1. t \in Tasks /\ t \notin Waiting /\ t \notin Settling
  BY DEF Sound, TypeOK, Regular
<1>2. e \in Operations /\ e.kind = "complete" /\ e.task = t /\ e.column = target /\ ops' = Append(q, e)
  BY <1>1, OpTyped DEF Kinds, Columns, Op
<1> HIDE DEF e
<1>3. Orderly(ops', raced') /\ Begun(ops', rows') /\ \A u : Ended(ops', u) <=> u = t \/ Ended(ops, u)
  <2>1. Orderly(ops', raced')
    BY <1>1, <1>2, OrderlyAppended DEF Alone
  <2>2. Begun(ops', rows')
    BY <1>2, BegunAppended
  <2>3. \A u : ~Is(e, "enqueue", u) /\ (Is(e, "complete", u) <=> u = t)
    BY <1>2 DEF Is
  <2> QED BY <1>2, <2>1, <2>2, <2>3, EndedAppended
<1>4. Entering' = Entering /\ Leaving' = Leaving \cup {t} /\ Settling' = Settling
  <2>1. \A kinds : Carries(ops', kinds) = Carries(q, kinds) \cup IF "complete" \in kinds THEN {t} ELSE {}
    BY <1>2, CarriesAppended
  <2> QED BY <2>1 DEF Entering, Leaving, Settling, Alone
<1>5. Waiting' = Waiting
  BY DEF Waiting
<1>6. RowsFollow' /\ ColumnsFollow'
  BY <1>1, <1>3, <1>4, <1>5 DEF Regular, RowsFollow, ColumnsFollow
<1>7. EntriesFollow' /\ RoomIsGiven'
  BY <1>1, <1>3, <1>4, <1>5 DEF Regular, EntriesFollow, RoomIsGiven
<1>8. Settling' \cap (active' \cup Waiting') = {}
  BY <1>1, <1>4, <1>5 DEF Regular
<1>9. workers' = active' /\ active' \cap Waiting' = {} /\ unread' \cap carried' = {} /\ Waiting' \subseteq asked'
  BY <1>5 DEF Regular
<1> QED BY <1>3, <1>6, <1>7, <1>8, <1>9 DEF Regular

LEMMA RegularAsItRuns ==
    ASSUME TaskAssumption, Sound, Regular, NEW t \in Tasks, ComesDue(t) \/ Turn(t) \/ Ends(t)
    PROVE  Regular'
<1>1. ops \in Seq(Operations)
  BY DEF Sound, TypeOK
<1>2. CASE ComesDue(t) \/ Turn(t)
  <2>1. /\ UNCHANGED <<known, column, queue, asked, active, workers, kept, rows, raced, ops>>
        /\ unread' \cap carried' = {}
    BY <1>2 DEF ComesDue, Turn, board, runs, talk, queues, disk, Regular
  <2>2. UNCHANGED <<Waiting, Entering, Leaving, Settling>>
    BY <2>1 DEF Waiting, Entering, Leaving, Settling
  <2> QED BY <2>1, <2>2 DEF Regular, RowsFollow, ColumnsFollow, EntriesFollow, RoomIsGiven
<1>3. ASSUME NEW target \in {"done", "todo"}, FinishCommand(t, target) \/ EndAgent(t, target)
      PROVE  Regular'
  <2>1. /\ t \in active
        /\ active' = active \ {t} /\ workers' = workers \ {t} /\ carried' = carried \ {t}
        /\ ops' = Append(ops, Op("complete", t, target))
        /\ UNCHANGED <<known, column, queue, asked, unread, kept, rows, raced>>
    BY <1>3 DEF FinishCommand, EndAgent, Completed, board, queues, talk, disk
  <2>2. /\ Orderly(ops, raced) /\ Begun(ops, rows)
        /\ Carries(ops, {"enqueue"}) = Entering /\ Carries(ops, {"complete"}) = Leaving
        /\ Carries(ops, Alone) = Settling
    BY DEF Regular, EntriesFollow, Entering, Leaving, Settling
  <2> QED BY <1>1, <2>1, <2>2, RegularEnded
<1>4. CASE FinishAgent(t)
  <2> DEFINE note == Op("note", t, "todo")
             answered == Append(ops, note)
  <2>1. /\ t \in active \cap carried
        /\ active' = active \ {t} /\ workers' = workers \ {t} /\ carried' = carried \ {t}
        /\ UNCHANGED <<known, unread, kept, rows, raced>>
    BY <1>4 DEF FinishAgent, disk
  <2>2. t \notin unread
    BY <2>1 DEF Regular
  <2>3. ops' = Append(answered, Op("complete", t, "done")) /\ UNCHANGED <<queue, asked, column>>
    BY <1>4, <2>2 DEF FinishAgent, queues
  <2>4. note \in Operations /\ note.kind = "note" /\ note.task = t
    BY OpTyped DEF Kinds, Columns, Op
  <2> HIDE DEF note
  <2>5. t \notin Settling
    BY <2>1 DEF Regular
  <2>6. /\ Orderly(answered, raced) /\ answered \in Seq(Operations) /\ Begun(answered, rows)
        /\ \A u : Ended(answered, u) <=> Ended(ops, u)
    <3>1. Orderly(answered, raced)
      BY <1>1, <2>4, <2>5, OrderlyAppended DEF Regular, Settling, Alone
    <3>2. Begun(answered, rows)
      BY <1>1, <2>4, BegunAppended DEF Regular, EntriesFollow
    <3>3. \A u : ~Is(note, "enqueue", u) /\ ~Is(note, "complete", u)
      BY <2>4 DEF Is
    <3> QED BY <1>1, <2>4, <3>1, <3>2, <3>3, EndedAppended
  <2>7. /\ Carries(answered, {"enqueue"}) = Entering /\ Carries(answered, {"complete"}) = Leaving
        /\ Carries(answered, Alone) = Settling
    <3>1. \A kinds : Carries(answered, kinds) = Carries(ops, kinds) \cup IF "note" \in kinds THEN {t} ELSE {}
      BY <1>1, <2>4, CarriesAppended
    <3> QED BY <3>1 DEF Entering, Leaving, Settling, Alone
  <2> HIDE DEF answered
  <2> QED BY <2>1, <2>3, <2>6, <2>7, RegularEnded
<1> QED BY <1>2, <1>3, <1>4 DEF Ends

(* What the first write in flight says, while it is regular, of the others. *)
LEMMA HeadIsRegular ==
    ASSUME Sound, Regular, ops # <<>>
    PROVE  LET t == Answered
               kind == Head(ops).kind
               rest == Tail(ops) IN
           /\ rest \in Seq(Operations) /\ TimelyIn(rest) /\ Orderly(rest, raced)
           /\ t \in Tasks /\ kind # "reload" /\ Head(ops).column \in Columns
           /\ kind \in {"save", "move", "complete"} => Head(ops).column # "doing"
           /\ Entering = Carries(rest, {"enqueue"}) \cup IF kind = "enqueue" THEN {t} ELSE {}
           /\ Leaving = Carries(rest, {"complete"}) \cup IF kind = "complete" THEN {t} ELSE {}
           /\ Settling = Carries(rest, Alone) \cup IF kind \in Alone THEN {t} ELSE {}
           /\ t \notin Carries(rest, Alone) /\ (t \in Carries(rest, {"enqueue"}) => t \in raced)
           /\ \A u : Ended(ops, u) <=>
                 Ended(rest, u) \/ (kind = "complete" /\ u = t /\ t \notin Carries(rest, {"enqueue"}))
           /\ \A now : /\ now \subseteq rows \cup (IF kind = "enqueue" THEN {t} ELSE {})
                       /\ kind = "complete" => t \notin now
                       => Begun(rest, now)
           /\ kind = "enqueue" /\ t \in rows => Head(ops).column # "doing"
           /\ kind \in Alone =>
                 /\ t \notin Carries(rest, Kinds)
                 /\ t \notin active \cup Waiting \cup Entering \cup Leaving
                 /\ t \in known => column[t] # "doing"
<1> DEFINE t == Answered
           kind == Head(ops).kind
           rest == Tail(ops)
<1>1. ops \in Seq(Operations) /\ Orderly(ops, raced) /\ Begun(ops, rows)
  BY DEF Sound, TypeOK, Regular, EntriesFollow
<1>2. rest \in Seq(Operations) /\ TimelyIn(rest) /\ Head(ops) \in Operations /\ t \in Tasks
  BY OpsAnswered
<1>3. Head(ops).column \in Columns
  BY <1>2 DEF Operations
<1>4. /\ Orderly(rest, raced)
      /\ t \notin Carries(rest, Alone)
      /\ t \in Carries(rest, {"enqueue"}) => t \in raced
      /\ kind \in Alone => t \notin Carries(rest, Kinds)
      /\ kind # "reload"
      /\ kind \in {"save", "move", "complete"} => Head(ops).column # "doing"
  BY <1>1, OrderlyAnswered DEF Answered
<1>5. \A kinds : Carries(ops, kinds) = Carries(rest, kinds) \cup IF kind \in kinds THEN {t} ELSE {}
  BY <1>1, CarriesAnswered DEF Answered
<1>6. \A u : Ended(ops, u) <=>
         Ended(rest, u) \/ (kind = "complete" /\ u = t /\ t \notin Carries(rest, {"enqueue"}))
  <2>1. \A u : Is(Head(ops), "complete", u) <=> kind = "complete" /\ u = t
    BY DEF Is, Answered
  <2> QED BY <1>1, <2>1, EndedAnswered
<1>7. ASSUME NEW now, now \subseteq rows \cup (IF kind = "enqueue" THEN {t} ELSE {}), kind = "complete" => t \notin now
      PROVE  Begun(rest, now)
  BY <1>1, <1>7, BegunAnswered DEF Answered
<1>8. kind = "enqueue" /\ t \in rows => Head(ops).column # "doing"
  <2>1. {} \subseteq rows \cup (IF kind = "enqueue" THEN {t} ELSE {}) /\ t \notin {}
    OBVIOUS
  <2> QED BY <1>1, <2>1, BegunAnswered DEF Answered
<1> HIDE DEF t, kind, rest
<1>9. /\ Entering = Carries(rest, {"enqueue"}) \cup IF kind = "enqueue" THEN {t} ELSE {}
      /\ Leaving = Carries(rest, {"complete"}) \cup IF kind = "complete" THEN {t} ELSE {}
      /\ Settling = Carries(rest, Alone) \cup IF kind \in Alone THEN {t} ELSE {}
  BY <1>5 DEF Entering, Leaving, Settling
<1>10. ASSUME kind \in Alone
       PROVE  /\ t \notin Carries(rest, Kinds)
              /\ t \notin active \cup Waiting \cup Entering \cup Leaving
              /\ t \in known => column[t] # "doing"
  <2>1. t \in Settling /\ kind \notin {"enqueue", "complete"}
    BY <1>9, <1>10 DEF Alone
  <2>2. t \notin active \cup Waiting
    BY <2>1 DEF Regular
  <2>3. t \notin Carries(rest, Kinds)
    BY <1>4, <1>10
  <2>4. t \notin Entering \cup Leaving
    <3>1. t \notin Carries(rest, {"complete"}) /\ t \notin Carries(rest, {"enqueue"})
      BY <2>3 DEF Carries, Kinds
    <3> QED BY <1>9, <2>1, <3>1
  <2>5. t \in known => column[t] # "doing"
    <3>1. ~Ended(ops, t)
      BY <2>4, EndedLeaves DEF Leaving
    <3> QED BY <2>2, <3>1 DEF Regular, ColumnsFollow
  <2> QED BY <2>2, <2>3, <2>4, <2>5
<1> QED BY <1>2, <1>3, <1>4, <1>6, <1>7, <1>8, <1>9, <1>10 DEF t, kind, rest

LEMMA SomebodyWaits ==
    ASSUME NEW q \in Seq(Tasks)
    PROVE  q # <<>> <=> ToSet(q) # {}
<1>1. q # <<>> => q[1] \in ToSet(q)
  BY DEF ToSet
<1>2. q = <<>> => ToSet(q) = {}
  BY DEF ToSet
<1> QED BY <1>1, <1>2

(* A message is written, or refused: nothing but its write goes.             *)
LEMMA RegularAnswered ==
    ASSUME Sound, Regular, ops # <<>>, Head(ops).kind \in {"note", "prompt"},
           ops' = Tail(ops), UNCHANGED <<board, queue, asked, active, workers, disk, raced>>,
           carried' \subseteq carried, unread' \subseteq unread
    PROVE  Regular'
<1>1. UNCHANGED <<known, column, queue, asked, active, workers, kept, rows, raced>> /\ Waiting' = Waiting
  BY DEF board, disk, Waiting
<1>2. /\ Orderly(ops', raced') /\ Begun(ops', rows') /\ \A u : Ended(ops', u) <=> Ended(ops, u)
      /\ Entering' = Entering /\ Leaving' = Leaving /\ Settling' \subseteq Settling
  BY <1>1, HeadIsRegular DEF Entering, Leaving, Settling
<1>3. RowsFollow' /\ ColumnsFollow' /\ EntriesFollow' /\ RoomIsGiven'
  BY <1>1, <1>2 DEF Regular, RowsFollow, ColumnsFollow, EntriesFollow, RoomIsGiven
<1> QED BY <1>1, <1>2, <1>3 DEF Regular

(* The exception for a task ends with its row, when no write of it is left.    *)
LEMMA RowTaken ==
    ASSUME Tail(ops) \in Seq(Operations), Orderly(Tail(ops), raced), NEW t, TakesItsRow(t)
    PROVE  /\ raced' \subseteq raced /\ raced \subseteq raced' \cup {t}
           /\ t \in active \/ t \in Carries(Tail(ops), Kinds) => raced' = raced
           /\ Orderly(Tail(ops), raced')
<1> DEFINE rest == Tail(ops)
<1>1. raced' = IF t \in active \/ \E i \in DOMAIN rest : rest[i].task = t THEN raced ELSE raced \ {t}
  BY DEF TakesItsRow
<1>2. rest \in Seq(Operations) /\ Orderly(rest, raced)
  OBVIOUS
<1> HIDE DEF rest
<1>3. t \in Carries(rest, Kinds) => \E i \in DOMAIN rest : rest[i].task = t
  BY DEF Carries
<1>4. CASE raced' = raced
  BY <1>2, <1>4 DEF rest
<1>5. CASE raced' = raced \ {t} /\ ~(t \in active \/ \E i \in DOMAIN rest : rest[i].task = t)
  BY <1>2, <1>3, <1>5, OrderlyWithoutRace DEF rest
<1> QED BY <1>1, <1>4, <1>5

LEMMA RegularWhenDelivered ==
    ASSUME TaskAssumption, Sound, Regular, Undisturbed', Deliver
    PROVE  Regular'
<1> DEFINE t == Answered
           kind == Head(ops).kind
           rest == Tail(ops)
           target == Head(ops).column
<1>1. /\ queue \in Seq(Tasks) /\ workers \in SUBSET Tasks /\ active \in SUBSET Tasks
      /\ known \subseteq Tasks /\ Waiting \subseteq known /\ rows \subseteq known
      /\ active \subseteq known /\ carried \subseteq active
      /\ column \in [Tasks -> Columns] /\ kept \in [Tasks -> Columns]
  BY DEF Sound, TypeOK
<1>2. ops # <<>>
  BY DEF Deliver, Result, NoteStored, PromptStored, EnqueueStored, CancelStored, CompleteStored, MoveStored,
         SaveStored, RemoveStored, WorkspaceRemoved
<1>3. /\ rest \in Seq(Operations) /\ TimelyIn(rest) /\ Orderly(rest, raced)
      /\ t \in Tasks /\ kind # "reload" /\ target \in Columns
      /\ kind \in {"save", "move", "complete"} => target # "doing"
      /\ Entering = Carries(rest, {"enqueue"}) \cup (IF kind = "enqueue" THEN {t} ELSE {})
      /\ Leaving = Carries(rest, {"complete"}) \cup (IF kind = "complete" THEN {t} ELSE {})
      /\ Settling = Carries(rest, Alone) \cup (IF kind \in Alone THEN {t} ELSE {})
      /\ t \notin Carries(rest, Alone) /\ (t \in Carries(rest, {"enqueue"}) => t \in raced)
      /\ \A u : Ended(ops, u) <=>
            Ended(rest, u) \/ (kind = "complete" /\ u = t /\ t \notin Carries(rest, {"enqueue"}))
      /\ \A now : /\ now \subseteq rows \cup (IF kind = "enqueue" THEN {t} ELSE {})
                  /\ kind = "complete" => t \notin now
                  => Begun(rest, now)
      /\ kind \in Alone =>
            /\ t \notin Carries(rest, Kinds)
            /\ t \notin active \cup Waiting \cup Entering \cup Leaving
            /\ t \in known => column[t] # "doing"
  BY <1>2, HeadIsRegular
<1>4. Without(queue, t) \in Seq(Tasks) /\ ToSet(Without(queue, t)) = Waiting \ {t}
  BY <1>1, WithoutOne DEF Waiting
<1>5. CASE NoteStored
  <2>1. /\ Head(ops).kind \in {"note", "prompt"} /\ ops' = Tail(ops)
        /\ UNCHANGED <<board, queue, asked, active, workers, disk, raced>>
        /\ carried' \subseteq carried /\ unread' \subseteq unread
    BY <1>5 DEF NoteStored, Result, runs, talk
  <2> QED BY <1>2, <2>1, RegularAnswered
<1> HIDE DEF t
<1>6. CASE PromptStored
  <2> DEFINE asks == [kind |-> "enqueue", task |-> t, column |-> column[t], timed |-> FALSE]
  <2>1. /\ kind = "prompt" /\ t \in known
        /\ queue' = Append(queue, t) /\ asked' = asked \cup {t} /\ column' = [column EXCEPT ![t] = "doing"]
        /\ ops' = Append(rest, asks)
        /\ UNCHANGED <<known, active, workers, carried, unread, kept, rows, raced>>
    BY <1>6 DEF PromptStored, Enqueued, Result, t, talk, disk
  <2>2. asks \in Operations /\ asks.kind = "enqueue" /\ asks.task = t /\ asks.column = column[t]
    BY <1>1, <1>3 DEF Operations, Kinds
  <2> HIDE DEF asks, rest, kind
  <2>3. /\ t \notin Carries(rest, Kinds)
        /\ t \notin active \cup Waiting \cup Entering \cup Leaving
        /\ column[t] # "doing"
    BY <1>3, <2>1 DEF Alone
  <2>4. /\ Orderly(ops', raced') /\ Begun(ops', rows')
        /\ \A u : Ended(ops', u) <=> Ended(ops, u) /\ u \notin {t}
    <3>1. Orderly(ops', raced')
      BY <1>3, <2>1, <2>2, <2>3, OrderlyAppended DEF Alone
    <3>2. Begun(rest, rows)
      BY <1>3, <2>1
    <3>3. Begun(ops', rows')
      BY <1>3, <2>1, <2>2, <2>3, <3>2, BegunAppended
    <3>4. \A u : ~Is(asks, "complete", u) /\ (Is(asks, "enqueue", u) <=> u = t)
      BY <2>2 DEF Is
    <3> QED BY <1>3, <2>1, <2>2, <3>1, <3>3, <3>4, EndedAppended
  <2>5. \A kinds : Carries(ops', kinds) = Carries(rest, kinds) \cup IF "enqueue" \in kinds THEN {t} ELSE {}
    BY <1>3, <2>1, <2>2, CarriesAppended
  <2>6. /\ Entering' = Entering \cup {t} /\ Leaving' = Leaving
        /\ Settling' \subseteq Settling /\ Settling' \cap {t} = {}
    <3>1. /\ Entering' = Carries(rest, {"enqueue"}) \cup {t} /\ Leaving' = Carries(rest, {"complete"})
          /\ Settling' = Carries(rest, Alone)
      BY <2>5 DEF Entering, Leaving, Settling, Alone
    <3> QED BY <1>3, <2>1, <3>1
  <2>7. Waiting' = Waiting \cup {t}
    BY <1>1, <1>3, <2>1, QueueAppended DEF Waiting
  <2>8. column' = [u \in Tasks |-> IF u \in {t} THEN "doing" ELSE column[u]]
    BY <1>1, <2>1
  <2>9. {t} \in SUBSET known /\ {t} # {} /\ {t} \cap (active \cup Waiting) = {}
        /\ {t} \cap Leaving \subseteq raced'
    BY <2>1, <2>3
  <2> QED BY <2>1, <2>4, <2>6, <2>7, <2>8, <2>9, RegularEntered
<1>7. CASE EnqueueStored
  <2>1. /\ kind = "enqueue" /\ t \in known \ rows
        /\ rows' = rows \cup {t} /\ kept' = [kept EXCEPT ![t] = "doing"]
        /\ DispatchQueue(queue, active, workers, rest)
        /\ UNCHANGED <<known, column, carried, unread, raced>>
    BY <1>7 DEF EnqueueStored, Result, t, board
  <2> HIDE DEF rest, kind, target
  <2>2. ToSet(queue) = Waiting /\ ToSet(queue) \cap active = {}
    BY DEF Waiting, Regular
  <2>3. /\ \E chosen \in SUBSET ToSet(queue) :
              /\ active' = active \cup chosen /\ workers' = workers \cup chosen
              /\ Waiting' = ToSet(queue) \ chosen /\ asked' = asked \ chosen
        /\ ops' = rest
        /\ queue' # <<>> => Limit # 0 /\ Cardinality(active') >= Limit
    BY <1>1, <1>3, <2>1, <2>2, DispatchedRegularly
  <2>4. PICK chosen \in SUBSET Waiting :
              /\ active' = active \cup chosen /\ workers' = workers \cup chosen
              /\ Waiting' = Waiting \ chosen /\ asked' = asked \ chosen
    BY <2>2, <2>3
  <2>5. /\ Orderly(ops', raced') /\ Entering' \cup {t} = Entering /\ (t \in Entering' => t \in raced)
        /\ Leaving' = Leaving /\ Settling' = Settling
        /\ Begun(ops', rows') /\ \A u : Ended(ops', u) <=> Ended(ops, u)
    BY <1>3, <2>1, <2>3 DEF Entering, Leaving, Settling, Alone
  <2>6. t \in raced \/ (column[t] = "doing" /\ t \in active \cup Waiting \cup Leaving)
    BY <2>5 DEF Regular, EntriesFollow
  <2>7. active' \cup Waiting' = active \cup Waiting /\ workers' = active' /\ active' \cap Waiting' = {}
    BY <2>4 DEF Regular
  <2>8. RowsFollow'
    BY <1>1, <2>1, <2>5, <2>6, <2>7 DEF Regular, RowsFollow
  <2>9. ColumnsFollow'
    BY <1>1, <2>1, <2>5, <2>6, <2>7 DEF Regular, ColumnsFollow
  <2>10. EntriesFollow'
    BY <1>1, <2>1, <2>5, <2>7 DEF Regular, EntriesFollow
  <2>11. RoomIsGiven'
    BY <2>3 DEF RoomIsGiven
  <2>12. unread' \cap carried' = {} /\ Waiting' \subseteq asked'
    BY <2>1, <2>4 DEF Regular
  <2>13. Settling' \cap (active' \cup Waiting') = {}
    BY <2>5, <2>7 DEF Regular
  <2> QED BY <2>5, <2>7, <2>8, <2>9, <2>10, <2>11, <2>12, <2>13 DEF Regular
<1>8. CASE CancelStored
  <2> DEFINE left == IF t \in active THEN workers \ {t} ELSE workers
             ending == Op("complete", t, "todo")
             out == rest \o IF t \in active THEN <<ending>> ELSE <<>>
  <2>1. /\ kind = "cancel" /\ rows' = rows \ {t}
        /\ kept' = (IF t \in known THEN [kept EXCEPT ![t] = "todo"] ELSE kept)
        /\ column' = (IF t \in known THEN [column EXCEPT ![t] = "todo"] ELSE column)
        /\ carried' = carried \ {t}
        /\ DispatchQueue(Without(queue, t), active \ {t}, left, out)
        /\ TakesItsRow(t)
        /\ UNCHANGED <<known, unread>>
    BY <1>8 DEF CancelStored, Result, t
  <2>2. /\ ending \in Operations /\ ~ending.timed /\ ending.kind = "complete"
        /\ ending.task = t /\ ending.column = "todo"
    BY <1>3, OpTyped DEF Kinds, Columns, Op
  <2>0. /\ raced' \subseteq raced /\ raced \subseteq raced' \cup {t}
        /\ t \in active \/ t \in Carries(rest, Kinds) => raced' = raced
        /\ Orderly(rest, raced')
    BY <1>3, <2>1, RowTaken
  <2> HIDE DEF ending, kind, rest, target
  <2>3. /\ out \in Seq(Operations) /\ TimelyIn(out) /\ Orderly(out, raced') /\ Begun(out, rows')
        /\ \A u : Ended(out, u) <=> Ended(ops, u) \/ (u = t /\ t \in active)
        /\ \A kinds : Carries(out, kinds) = Carries(rest, kinds)
                        \cup IF t \in active /\ "complete" \in kinds THEN {t} ELSE {}
    <3>0. Begun(rest, rows') /\ \A u : Ended(ops, u) <=> Ended(rest, u)
      BY <1>3, <2>1
    <3>1. CASE t \in active
      <4>1. out = Append(rest, ending)
        BY <1>3, <2>2, <3>1, AppendIsConcat
      <4> HIDE DEF out
      <4>2. out \in Seq(Operations) /\ TimelyIn(out)
        BY <1>3, <2>2, <4>1, OpsAppended
      <4>3. Orderly(out, raced') /\ Begun(out, rows')
        BY <1>3, <2>0, <2>2, <3>0, <4>1, OrderlyAppended, BegunAppended DEF Alone
      <4>4. \A kinds : Carries(out, kinds) = Carries(rest, kinds) \cup IF "complete" \in kinds THEN {t} ELSE {}
        BY <1>3, <2>2, <4>1, CarriesAppended
      <4>5. \A u : ~Is(ending, "enqueue", u) /\ (Is(ending, "complete", u) <=> u = t)
        BY <2>2 DEF Is
      <4>6. \A u : Ended(out, u) <=> Ended(rest, u) \/ u = t
        BY <1>3, <2>2, <4>1, <4>5, EndedAppended
      <4> QED BY <3>0, <3>1, <4>2, <4>3, <4>4, <4>6
    <3>2. CASE t \notin active
      <4>1. out = rest
        BY <1>3, <3>2, ConcatEmptySeq
      <4> QED BY <1>3, <2>0, <3>0, <3>2, <4>1
    <3> QED BY <3>1, <3>2
  <2>4. left \in SUBSET Tasks /\ left = active \ {t}
    BY <1>1 DEF Regular
  <2> HIDE DEF left, out
  <2>5. /\ ToSet(Without(queue, t)) \subseteq known /\ active \ {t} \in SUBSET Tasks
        /\ ToSet(Without(queue, t)) \cap (active \ {t}) = {}
    BY <1>1, <1>4 DEF Regular
  <2>6. /\ \E chosen \in SUBSET ToSet(Without(queue, t)) :
              /\ active' = (active \ {t}) \cup chosen /\ workers' = left \cup chosen
              /\ Waiting' = ToSet(Without(queue, t)) \ chosen /\ asked' = asked \ chosen
        /\ ops' = out
        /\ queue' # <<>> => Limit # 0 /\ Cardinality(active') >= Limit
    <3> DEFINE others == Without(queue, t)
               busy == active \ {t}
    <3>1. /\ others \in Seq(Tasks) /\ ToSet(others) \subseteq known /\ busy \in SUBSET Tasks
          /\ ToSet(others) \cap busy = {} /\ DispatchQueue(others, busy, left, out)
          /\ left \in SUBSET Tasks /\ out \in Seq(Operations) /\ TimelyIn(out)
      BY <1>4, <2>1, <2>3, <2>4, <2>5
    <3> HIDE DEF others, busy
    <3>2. /\ \E chosen \in SUBSET ToSet(others) :
                /\ active' = busy \cup chosen /\ workers' = left \cup chosen
                /\ Waiting' = ToSet(others) \ chosen /\ asked' = asked \ chosen
          /\ ops' = out
          /\ queue' # <<>> => Limit # 0 /\ Cardinality(active') >= Limit
      BY <3>1, DispatchedRegularly
    <3> QED BY <3>2 DEF others, busy
  <2>7. PICK chosen \in SUBSET (Waiting \ {t}) :
              /\ active' = (active \ {t}) \cup chosen /\ workers' = left \cup chosen
              /\ Waiting' = (Waiting \ {t}) \ chosen /\ asked' = asked \ chosen
    BY <1>4, <2>6
  <2>8. /\ Entering' = Entering /\ (t \in Entering => t \in raced')
        /\ Leaving \subseteq Leaving' /\ Leaving' \subseteq Leaving \cup {t}
        /\ t \in active => t \in Leaving'
        /\ Settling' = Settling
    <3>1. /\ Entering' = Carries(out, {"enqueue"}) /\ Leaving' = Carries(out, {"complete"})
          /\ Settling' = Carries(out, Alone)
      BY <2>6 DEF Entering, Leaving, Settling
    <3>2. /\ Carries(out, {"enqueue"}) = Carries(rest, {"enqueue"}) /\ Carries(out, Alone) = Carries(rest, Alone)
          /\ Carries(out, {"complete"}) = Carries(rest, {"complete"}) \cup IF t \in active THEN {t} ELSE {}
      BY <2>3 DEF Alone
    <3>3. /\ Entering = Carries(rest, {"enqueue"}) /\ Leaving = Carries(rest, {"complete"})
          /\ Settling = Carries(rest, Alone)
      BY <1>3, <2>1 DEF Alone
    <3>4. Carries(rest, {"enqueue"}) \subseteq Carries(rest, Kinds)
      BY DEF Carries, Kinds
    <3> QED BY <1>3, <2>0, <3>1, <3>2, <3>3, <3>4
  <2>9. active' \cup Waiting' = (active \cup Waiting) \ {t} /\ workers' = active' /\ active' \cap Waiting' = {}
    BY <2>4, <2>7 DEF Regular
  <2>10. RowsFollow'
    BY <1>1, <2>0, <2>1, <2>3, <2>6, <2>8, <2>9 DEF Regular, RowsFollow
  <2>11. ColumnsFollow'
    BY <1>1, <2>0, <2>1, <2>3, <2>6, <2>8, <2>9 DEF Regular, ColumnsFollow
  <2>12. EntriesFollow'
    <3>1. \A u \in Entering' \ raced' : u \in Entering \ raced /\ u # t
      BY <2>0, <2>8
    <3>2. \A u \in Tasks : u # t => column'[u] = column[u]
      BY <1>1, <2>1
    <3> QED BY <1>1, <2>1, <2>3, <2>6, <2>8, <2>9, <3>1, <3>2 DEF Regular, EntriesFollow
  <2>13. RoomIsGiven'
    BY <2>6 DEF RoomIsGiven
  <2>14. unread' \cap carried' = {} /\ Waiting' \subseteq asked'
    BY <2>1, <2>7 DEF Regular
  <2>15. Settling' \cap (active' \cup Waiting') = {}
    BY <2>8, <2>9 DEF Regular
  <2>16. Orderly(ops', raced')
    BY <2>3, <2>6
  <2> QED BY <2>9, <2>10, <2>11, <2>12, <2>13, <2>14, <2>15, <2>16 DEF Regular
<1>9. CASE CompleteStored
  <2>1. /\ kind = "complete" /\ rows' = rows \ {t}
        /\ kept' = (IF t \in known THEN [kept EXCEPT ![t] = target] ELSE kept)
        /\ column' = (IF t \in known THEN [column EXCEPT ![t] = target] ELSE column)
        /\ DispatchQueue(Without(queue, t), active, workers, rest)
        /\ TakesItsRow(t)
        /\ UNCHANGED <<known, carried, unread>>
    BY <1>9 DEF CompleteStored, Result, t
  <2>2. /\ raced' \subseteq raced /\ raced \subseteq raced' \cup {t}
        /\ t \in active \/ t \in Carries(rest, Kinds) => raced' = raced
        /\ Orderly(rest, raced')
    BY <1>3, <2>1, RowTaken
  <2> HIDE DEF kind, rest, target
  <2>3. ToSet(Without(queue, t)) = Waiting \ {t} /\ Waiting \cap active = {}
    BY <1>4 DEF Regular
  <2>4. /\ \E chosen \in SUBSET ToSet(Without(queue, t)) :
              /\ active' = active \cup chosen /\ workers' = workers \cup chosen
              /\ Waiting' = ToSet(Without(queue, t)) \ chosen /\ asked' = asked \ chosen
        /\ ops' = rest
        /\ queue' # <<>> => Limit # 0 /\ Cardinality(active') >= Limit
    <3>1. ToSet(Without(queue, t)) \subseteq known /\ ToSet(Without(queue, t)) \cap active = {}
      BY <1>1, <2>3
    <3> QED BY <1>1, <1>3, <1>4, <2>1, <3>1, DispatchedRegularly
  <2>5. PICK chosen \in SUBSET (Waiting \ {t}) :
              /\ active' = active \cup chosen /\ workers' = workers \cup chosen
              /\ Waiting' = (Waiting \ {t}) \ chosen /\ asked' = asked \ chosen
    BY <2>3, <2>4
  <2>6. /\ Orderly(ops', raced') /\ Begun(ops', rows')
        /\ \A u : Ended(ops', u) => Ended(ops, u)
        /\ \A u : u # t => (Ended(ops', u) <=> Ended(ops, u))
        /\ t \notin Entering' => Ended(ops, t)
        /\ Entering' = Entering /\ (t \in Entering => t \in raced')
        /\ Leaving' \cup {t} = Leaving /\ Settling' = Settling
    <3>1. Carries(rest, {"enqueue"}) \subseteq Carries(rest, Kinds)
      BY DEF Carries, Kinds
    <3>2. Begun(rest, rows')
      BY <1>3, <2>1
    <3>3. /\ Entering' = Carries(rest, {"enqueue"}) /\ Leaving' = Carries(rest, {"complete"})
          /\ Settling' = Carries(rest, Alone)
      BY <2>4 DEF Entering, Leaving, Settling
    <3>4. kind \notin Alone /\ kind # "enqueue"
      BY <2>1 DEF Alone
    <3> QED BY <1>3, <2>1, <2>2, <2>4, <3>1, <3>2, <3>3, <3>4
  <2>7. /\ active' \cup Waiting' = active \cup (Waiting \ {t})
        /\ workers' = active' /\ active' \cap Waiting' = {}
    BY <2>5 DEF Regular
  <2>8. RowsFollow'
    <3>1. t \in active \cup Waiting => t \in Entering'
      BY <2>6 DEF Regular, RowsFollow
    <3> QED BY <1>1, <1>3, <2>1, <2>2, <2>6, <2>7, <3>1 DEF Regular, RowsFollow
  <2>9. ColumnsFollow'
    BY <1>1, <1>3, <2>1, <2>2, <2>6, <2>7 DEF Regular, ColumnsFollow
  <2>10. EntriesFollow'
    <3>1. \A u \in Entering' \ raced' : u \in Entering \ raced /\ u # t
      BY <2>2, <2>6
    <3>2. \A u \in Tasks : u # t => column'[u] = column[u]
      BY <1>1, <2>1
    <3> QED BY <1>1, <2>1, <2>6, <2>7, <3>1, <3>2 DEF Regular, EntriesFollow
  <2>11. RoomIsGiven'
    BY <2>4 DEF RoomIsGiven
  <2>12. unread' \cap carried' = {} /\ Waiting' \subseteq asked'
    BY <2>1, <2>5 DEF Regular
  <2>13. Settling' \cap (active' \cup Waiting') = {}
    BY <2>6, <2>7 DEF Regular
  <2> QED BY <2>6, <2>7, <2>8, <2>9, <2>10, <2>11, <2>12, <2>13 DEF Regular
<1>10. ASSUME kind \in Alone, ops' = rest
       PROVE  /\ Orderly(ops', raced) /\ Entering' = Entering /\ Leaving' = Leaving /\ Settling' \subseteq Settling
              /\ t \notin active \cup Waiting \cup Entering \cup Leaving
              /\ Begun(ops', rows) /\ Begun(ops', rows \ {t}) /\ \A u : Ended(ops', u) <=> Ended(ops, u)
  <2> HIDE DEF kind, rest, target
  <2>1. kind \notin {"enqueue", "complete"}
    BY <1>10 DEF Alone
  <2>2. Begun(rest, rows) /\ Begun(rest, rows \ {t})
    <3>1. \A now : now \subseteq rows => Begun(rest, now)
      BY <1>3, <2>1
    <3> QED BY <3>1
  <2>3. \A u : Ended(rest, u) <=> Ended(ops, u)
    BY <1>3, <2>1
  <2>4. /\ Entering' = Carries(rest, {"enqueue"}) /\ Leaving' = Carries(rest, {"complete"})
        /\ Settling' = Carries(rest, Alone)
    BY <1>10 DEF Entering, Leaving, Settling
  <2> QED BY <1>3, <1>10, <2>1, <2>2, <2>3, <2>4
<1>11. CASE MoveStored
  <2>1. /\ kind = "move" /\ ops' = rest
        /\ kept' = (IF t \in known THEN [kept EXCEPT ![t] = target] ELSE kept)
        /\ column' = (IF t \in known THEN [column EXCEPT ![t] = target] ELSE column)
        /\ UNCHANGED <<known, queue, asked, active, workers, carried, unread, rows, raced>>
    BY <1>11 DEF MoveStored, Result, t, runs, talk
  <2> HIDE DEF kind, rest, target
  <2>2. Waiting' = Waiting
    BY <2>1 DEF Waiting
  <2>3. target # "doing" /\ kind \in Alone
    BY <1>3, <2>1 DEF Alone
  <2>4. RowsFollow' /\ ColumnsFollow' /\ EntriesFollow' /\ RoomIsGiven'
    BY <1>1, <1>10, <2>1, <2>2, <2>3 DEF Regular, RowsFollow, ColumnsFollow, EntriesFollow, RoomIsGiven
  <2> QED BY <1>10, <2>1, <2>2, <2>3, <2>4 DEF Regular
<1>12. CASE SaveStored
  <2>1. /\ kind = "save" /\ ops' = rest
        /\ known' = known \cup {t} /\ kept' = [kept EXCEPT ![t] = target]
        /\ column' = [column EXCEPT ![t] = target] /\ rows' = rows \ {t}
        /\ TakesItsRow(t)
        /\ UNCHANGED <<queue, asked, active, workers, carried, unread>>
    BY <1>12 DEF SaveStored, Result, t, runs, talk
  <2>0. raced' \subseteq raced /\ raced \subseteq raced' \cup {t} /\ Orderly(rest, raced')
    BY <1>3, <2>1, RowTaken
  <2> HIDE DEF kind, rest, target
  <2>2. Waiting' = Waiting
    BY <2>1 DEF Waiting
  <2>3. target # "doing" /\ kind \in Alone
    BY <1>3, <2>1 DEF Alone
  <2>4. RowsFollow' /\ ColumnsFollow'
    BY <1>1, <1>3, <1>10, <2>0, <2>1, <2>2, <2>3 DEF Regular, RowsFollow, ColumnsFollow
  <2>5. EntriesFollow' /\ RoomIsGiven'
    BY <1>1, <1>3, <1>10, <2>0, <2>1, <2>2, <2>3 DEF Regular, EntriesFollow, RoomIsGiven
  <2> QED BY <1>10, <2>0, <2>1, <2>2, <2>3, <2>4, <2>5 DEF Regular
<1>13. CASE RemoveStored
  <2>1. /\ kind = "remove" /\ ops' = rest
        /\ known' = known \ {t} /\ rows' = rows \ {t} /\ active' = active \ {t}
        /\ queue' = Without(queue, t) /\ asked' = asked \ {t} /\ carried' = carried \ {t}
        /\ unread' = unread \ {t}
        /\ TakesItsRow(t)
        /\ UNCHANGED <<column, workers, kept>>
    BY <1>13 DEF RemoveStored, Result, t
  <2>0. raced' \subseteq raced /\ raced \subseteq raced' \cup {t} /\ Orderly(rest, raced')
    BY <1>3, <2>1, RowTaken
  <2> HIDE DEF kind, rest, target
  <2>2. kind \in Alone
    BY <2>1 DEF Alone
  <2>3. Waiting' = Waiting /\ active' = active
    BY <1>4, <1>10, <2>1, <2>2 DEF Waiting
  <2>4. queue' # <<>> => queue # <<>>
    BY <1>1, <1>4, <2>1, <2>3, SomebodyWaits DEF Waiting
  <2>5. RowsFollow' /\ ColumnsFollow'
    BY <1>1, <1>10, <2>0, <2>1, <2>2, <2>3, <2>4 DEF Regular, RowsFollow, ColumnsFollow
  <2>6. EntriesFollow' /\ RoomIsGiven'
    BY <1>1, <1>10, <2>0, <2>1, <2>2, <2>3, <2>4 DEF Regular, EntriesFollow, RoomIsGiven
  <2> QED BY <1>10, <2>0, <2>1, <2>2, <2>3, <2>5, <2>6 DEF Regular
<1>14. ~WorkspaceRemoved
  BY <1>3 DEF WorkspaceRemoved, Result
<1> QED BY <1>5, <1>6, <1>7, <1>8, <1>9, <1>11, <1>12, <1>13, <1>14 DEF Deliver

LEMMA RegularWhenRefused ==
    ASSUME TaskAssumption, Sound, Regular, Undisturbed', Refuse
    PROVE  Regular'
<1>1. /\ troubles \in [Troubles -> Nat] /\ active \subseteq known /\ known \subseteq Tasks /\ workers = active
      /\ queue \in Seq(Tasks) /\ column \in [Tasks -> Columns]
  BY DEF Sound, TypeOK, Regular
<1>2. ~Fails
  BY <1>1, TroublesCounted DEF Fails, Troubles
<1>3. ops # <<>>
  BY DEF Refuse, MessageFails, EnqueueRefused, OtherFails, Result
<1>4. CASE MessageFails
  <2>1. /\ Head(ops).kind \in {"note", "prompt"} /\ Answered \notin known
        /\ active' = active \ {Answered}
        /\ workers' = (IF Answered \in active THEN workers \ {Answered} ELSE workers)
        /\ carried' = carried \ {Answered} /\ unread' \in {unread, unread \ {Answered}}
        /\ ops' = Tail(ops) \o IF Answered \in active THEN <<Op("complete", Answered, "todo")>> ELSE <<>>
        /\ UNCHANGED <<board, queue, asked, disk, raced>>
    BY <1>2, <1>4 DEF MessageFails, Result, queues
  <2>2. Answered \notin active
    BY <1>1, <2>1
  <2>3. Tail(ops) \in Seq(Operations)
    BY <1>3, OpsAnswered
  <2>4. ops' = Tail(ops)
    BY <2>1, <2>2, <2>3, ConcatEmptySeq
  <2>5. UNCHANGED <<active, workers>> /\ carried' \subseteq carried /\ unread' \subseteq unread
    BY <2>1, <2>2
  <2> QED BY <1>3, <2>1, <2>4, <2>5, RegularAnswered
<1>5. CASE EnqueueRefused  \* only what is queued behind a run of its own has a row already
  <2> DEFINE t == Answered
             rest == Tail(ops)
             former == Head(ops).column
  <2>1. /\ Head(ops).kind = "enqueue" /\ t \notin known \ rows
        /\ queue' = Without(queue, t) /\ asked' = asked \ {t}
        /\ column' = (IF t \in known THEN [column EXCEPT ![t] = former] ELSE column)
        /\ ops' = rest
        /\ UNCHANGED <<known, active, workers, carried, unread, kept, rows, raced>>
    BY <1>2, <1>5 DEF EnqueueRefused, Result, talk, disk
  <2>2. /\ t \in Tasks /\ Orderly(rest, raced)
        /\ Entering = Carries(rest, {"enqueue"}) \cup {t} /\ Leaving = Carries(rest, {"complete"})
        /\ Settling = Carries(rest, Alone)
        /\ \A u : Ended(ops, u) <=> Ended(rest, u)
        /\ Begun(rest, rows) /\ (t \in rows => former # "doing")
    <3>1. Head(ops).kind \notin Alone /\ Head(ops).kind # "complete"
      BY <2>1 DEF Alone
    <3> QED BY <1>3, <2>1, <3>1, HeadIsRegular
  <2> HIDE DEF t, rest, former
  <2>3. t \in known /\ t \in rows /\ t \in raced
    BY <2>1, <2>2 DEF Regular, EntriesFollow
  <2>4. Waiting' = Waiting \ {t}
    BY <1>1, <2>1, WithoutOne DEF Waiting
  <2>5. Entering = Entering' \cup {t} /\ Leaving' = Leaving /\ Settling' = Settling
    BY <2>1, <2>2 DEF Entering, Leaving, Settling
  <2>6. RowsFollow'
    BY <2>1, <2>2, <2>3, <2>4, <2>5 DEF Regular, RowsFollow
  <2>7. ColumnsFollow'
    BY <1>1, <2>1, <2>2, <2>3, <2>4, <2>5 DEF Regular, ColumnsFollow
  <2>8. EntriesFollow'
    <3>1. \A u \in Entering' \ raced' : u \in Entering \ raced /\ u # t
      BY <2>1, <2>3, <2>5
    <3>2. \A u \in Tasks : u # t => column'[u] = column[u]
      BY <1>1, <2>1
    <3> QED BY <1>1, <2>1, <2>2, <2>4, <2>5, <3>1, <3>2 DEF Regular, EntriesFollow
  <2>9. RoomIsGiven'
    <3>1. queue' # <<>> => queue # <<>>
      <4>1. queue' \in Seq(Tasks)
        BY <1>1, <2>1, WithoutOne
      <4> QED BY <1>1, <2>4, <4>1, SomebodyWaits DEF Waiting
    <3> QED BY <2>1, <2>4, <2>5, <3>1 DEF Regular, RoomIsGiven
  <2>10. /\ workers' = active' /\ active' \cap Waiting' = {} /\ unread' \cap carried' = {}
         /\ Waiting' \subseteq asked' /\ Settling' \cap (active' \cup Waiting') = {}
    BY <2>1, <2>4, <2>5 DEF Regular
  <2>11. Orderly(ops', raced')
    BY <2>1, <2>2
  <2> QED BY <2>6, <2>7, <2>8, <2>9, <2>10, <2>11 DEF Regular
<1>6. ~OtherFails
  BY <1>2 DEF OtherFails
<1> QED BY <1>4, <1>5, <1>6 DEF Refuse

LEMMA RegularAfterCrash ==
    ASSUME TaskAssumption, Sound, Regular, Crash
    PROVE  Regular'
<1>1. /\ ops' = <<>> /\ raced' = {} /\ column' = kept /\ carried' = {} /\ unread' = {}
      /\ UNCHANGED <<known, kept, rows>>
  BY DEF Crash, disk
<1>2. DOMAIN ops' = {}
  BY <1>1
<1>3. /\ Orderly(ops', raced') /\ Begun(ops', rows') /\ \A t : ~Ended(ops', t)
      /\ Entering' = {} /\ Leaving' = {} /\ Settling' = {}
  BY <1>2 DEF Orderly, Begun, Ended, Entering, Leaving, Settling, Carries
<1>4. Waiting' \cup active' = rows
  BY StartedAgain DEF Regular, RowsFollow
<1>5. /\ workers' = active' /\ asked' = Waiting' /\ Waiting' \cap active' = {}
      /\ queue' # <<>> => Limit # 0 /\ Cardinality(active') >= Limit
  BY StartedAgain
<1>6. \A t \in known : kept[t] = "doing" => t \in rows
  BY DEF Regular, RowsFollow
<1>7. RowsFollow' /\ ColumnsFollow' /\ EntriesFollow' /\ RoomIsGiven'
  BY <1>1, <1>3, <1>4, <1>5, <1>6 DEF RowsFollow, ColumnsFollow, EntriesFollow, RoomIsGiven
<1> QED BY <1>1, <1>3, <1>5, <1>7 DEF Regular

(* A trouble is never forgotten.                                            *)
LEMMA TroublesStay ==
    ASSUME TaskAssumption, Sound, [Next]_vars, Undisturbed'
    PROVE  Undisturbed
<1>1. known \in SUBSET Tasks /\ troubles \in [Troubles -> Nat]
  BY DEF Sound, TypeOK
<1>2. CASE troubles' = troubles
  BY <1>2 DEF Undisturbed
<1>3. ASSUME NEW kind \in Troubles, NEW n \in Nat, Meets(kind, n)
      PROVE  Undisturbed
  BY <1>1, <1>3, TroublesCounted
<1>4. ASSUME NEW S, Asks(S)
      PROVE  Undisturbed
  BY <1>1, <1>4, AsksOf
<1>5. ASSUME NEW q, NEW busy, NEW alive, NEW out, DispatchQueue(q, busy, alive, out)
      PROVE  Undisturbed
  <2>1. PICK failing \in SUBSET Candidates(q, busy) : Meets("fault", Cardinality(failing))
    BY <1>5, Zenon DEF DispatchQueue
  <2>2. failing \in SUBSET Tasks
    BY <1>1 DEF Candidates
  <2>3. Cardinality(failing) \in Nat
    BY <2>2, FS_Subset, FS_CardinalityType DEF TaskAssumption
  <2> QED BY <1>3, <2>1, <2>3 DEF Troubles
<1>6. CASE User \/ RemoveWorkspace
  <2>1. \/ \E S : Asks(S)
        \/ \E kind \in Troubles : Meets(kind, 1)
        \/ troubles' = troubles
    BY <1>6 DEF User, RemoveWorkspace, StartCommand, StartAgent, SendMessage, StopTask, SaveTask, RemoveTask, MoveTask,
                Troubles
  <2> QED BY <1>2, <1>3, <1>4, <2>1
<1>7. CASE ProcessSchedules
  <2>1. troubles' = troubles \/ \E kind \in Troubles : Meets(kind, 1)
    BY <1>7, Zenon DEF ProcessSchedules, Troubles
  <2> QED BY <1>2, <1>3, <2>1
<1>8. CASE Deliver
  <2>1. \/ \E q, busy, alive, out : DispatchQueue(q, busy, alive, out)
        \/ troubles' = troubles
    BY <1>8 DEF Deliver, NoteStored, PromptStored, EnqueueStored, CancelStored, CompleteStored, MoveStored,
                SaveStored, RemoveStored, WorkspaceRemoved
  <2> QED BY <1>2, <1>5, <2>1
<1>9. CASE Refuse \/ Crash
  <2>1. troubles' = troubles \/ \E kind \in Troubles : Meets(kind, 1)
    BY <1>9 DEF Refuse, MessageFails, EnqueueRefused, OtherFails, Fails, Crash, Troubles
  <2> QED BY <1>2, <1>3, <2>1
<1>10. ASSUME NEW t \in Tasks, ComesDue(t) \/ Turn(t) \/ Ends(t)
       PROVE  Undisturbed
  <2>1. troubles' = troubles
    BY <1>10 DEF ComesDue, Turn, Ends, FinishCommand, EndAgent, FinishAgent
  <2> QED BY <1>2, <2>1
<1>11. CASE UNCHANGED vars
  BY <1>2, <1>11 DEF vars
<1> QED BY <1>6, <1>7, <1>8, <1>9, <1>10, <1>11 DEF Next

(* Types whatever happens, and order while nothing disturbs it.              *)
Kept == Sound /\ (Undisturbed => Regular)

LEMMA RegularStep ==
    ASSUME TaskAssumption, Sound, Regular, [Next]_vars, Undisturbed'
    PROVE  Regular'
<1>1. CASE UNCHANGED vars
  <2>1. UNCHANGED <<known, column, queue, asked, active, workers, carried, unread, ops, kept, rows, raced>>
    BY <1>1 DEF vars, board, runs, talk, disk
  <2>2. UNCHANGED <<Waiting, Entering, Leaving, Settling>>
    BY <2>1 DEF Waiting, Entering, Leaving, Settling
  <2> QED BY <2>1, <2>2 DEF Regular, RowsFollow, ColumnsFollow, EntriesFollow, RoomIsGiven
<1>2. CASE User \/ RemoveWorkspace
  BY <1>2, RegularWhenAsked
<1>3. CASE ProcessSchedules
  BY <1>3, RegularWhenScheduled
<1>4. CASE Deliver
  BY <1>4, RegularWhenDelivered
<1>5. CASE Refuse
  BY <1>5, RegularWhenRefused
<1>6. CASE Crash
  BY <1>6, RegularAfterCrash
<1>7. ASSUME NEW t \in Tasks, ComesDue(t) \/ Turn(t) \/ Ends(t) PROVE Regular'
  BY <1>7, RegularAsItRuns
<1> QED BY <1>1, <1>2, <1>3, <1>4, <1>5, <1>6, <1>7 DEF Next

THEOREM TasksStayRegular == Spec => []Kept
<1>1. Init => Kept
  BY TaskAssumption, SoundInitially, RegularInitially DEF Kept
<1>2. Kept /\ [Next]_vars => Kept'
  BY TaskAssumption, SoundStep, TroublesStay, RegularStep DEF Kept
<1> QED BY <1>1, <1>2, PTL DEF Spec

(* RunsEndWhole: a run is queued again after a crash, nothing works on for a *)
(* task without one, and no more run than the setting allows.               *)
THEOREM NoRunIsLost == Spec => []RunsEndWhole
<1>1. Kept => RunsEndWhole
  <2> SUFFICES ASSUME Kept PROVE RunsEndWhole
    OBVIOUS
  <2>1. TypeOK /\ WithinLimit
    BY DEF Kept, Sound
  <2>2. Undisturbed => workers = active
    BY DEF Kept, Regular
  <2>3. ASSUME Undisturbed, NEW t \in Waiting \cup active
        PROVE  t \in rows \/ \E i \in DOMAIN ops : ops[i].kind = "enqueue" /\ ops[i].task = t
    BY <2>3 DEF Kept, Regular, RowsFollow, Entering, Carries
  <2> QED BY <2>1, <2>2, <2>3 DEF RunsEndWhole, RunSurvivesCrash, NothingLeftBehind
<1> QED BY <1>1, TasksStayRegular, PTL

(* SettlesToStorage: once every write is done, what waits or runs has its row  *)
(* and waits only for want of room; and the database has no other row and no   *)
(* other column than the board, but of a task whose schedule came due while a  *)
(* run of it was being written down.                                       *)
THEOREM BoardIsStored == Spec => []SettlesToStorage
<1>1. Kept => SettlesToStorage
  <2> SUFFICES ASSUME Kept, Undisturbed, ops = <<>>
               PROVE  /\ Waiting \cup active \subseteq rows /\ rows \subseteq Waiting \cup active \cup raced
                      /\ \A t \in known \ raced : column[t] = kept[t]
                      /\ queue # <<>> => Limit # 0 /\ Cardinality(active) >= Limit
    BY DEF SettlesToStorage
  <2>1. Entering = {} /\ Leaving = {}
    <3>1. DOMAIN ops = {}
      OBVIOUS
    <3> QED BY <3>1 DEF Entering, Leaving, Carries
  <2>2. queue # <<>> => Waiting # {}
    BY SomebodyWaits DEF Kept, Sound, TypeOK, Waiting
  <2> QED BY <2>1, <2>2 DEF Kept, Regular, RowsFollow, ColumnsFollow, RoomIsGiven
<1> QED BY <1>1, TasksStayRegular, PTL

(* StartsWhatWasAsked: a run starts only for a request.                     *)
LEMMA StartsAreAskedFor ==
    ASSUME TaskAssumption, Sound, Regular, [Next]_vars, Undisturbed', troubles' = troubles
    PROVE  active' \ active \subseteq asked
<1>1. /\ troubles \in [Troubles -> Nat] /\ queue \in Seq(Tasks) /\ Waiting \subseteq asked
      /\ known \subseteq Tasks /\ workers \in SUBSET Tasks /\ active \in SUBSET Tasks
  BY DEF Sound, TypeOK, Regular
<1>2. ASSUME NEW q \in {queue, Without(queue, Answered)}, NEW busy \in SUBSET active,
             NEW alive, NEW out, DispatchQueue(q, busy, alive, out)
      PROVE  active' \ active \subseteq asked
  <2>1. ToSet(q) \subseteq Waiting
    BY <1>1, WithoutOne DEF Waiting
  <2>2. PICK failing \in SUBSET Candidates(q, busy) :
           active' = busy \cup (Chosen(q, busy, failing) \ failing)
    BY <1>2, Zenon DEF DispatchQueue
  <2>3. Chosen(q, busy, failing) \subseteq ToSet(q)
    BY DEF Chosen, Candidates
  <2> QED BY <1>1, <2>1, <2>2, <2>3
<1>3. CASE active' \subseteq active
  BY <1>3
<1>4. CASE User \/ RemoveWorkspace
  <2>1. active' = active
    BY <1>4 DEF User, RemoveWorkspace, StartCommand, StartAgent, SendMessage, StopTask, SaveTask, RemoveTask, MoveTask,
                runs
  <2> QED BY <2>1
<1>5. CASE ProcessSchedules
  <2>1. active' = active
    BY <1>5, Zenon DEF ProcessSchedules
  <2> QED BY <2>1
<1>6. CASE Deliver
  <2>1. CASE EnqueueStored
    <3>1. DispatchQueue(queue, active, workers, Tail(ops))
      BY <2>1 DEF EnqueueStored
    <3>2. active \in SUBSET active
      OBVIOUS
    <3> QED BY <1>2, <3>1, <3>2
  <2>2. CASE CancelStored
    <3>1. \E alive, out : DispatchQueue(Without(queue, Answered), active \ {Answered}, alive, out)
      BY <2>2 DEF CancelStored
    <3>2. active \ {Answered} \in SUBSET active
      OBVIOUS
    <3> QED BY <1>2, <3>1, <3>2
  <2>3. CASE CompleteStored
    <3>1. DispatchQueue(Without(queue, Answered), active, workers, Tail(ops))
      BY <2>3 DEF CompleteStored
    <3>2. active \in SUBSET active
      OBVIOUS
    <3> QED BY <1>2, <3>1, <3>2
  <2>4. CASE NoteStored \/ PromptStored \/ MoveStored \/ SaveStored \/ RemoveStored \/ WorkspaceRemoved
    <3>1. active' \subseteq active
      BY <2>4 DEF NoteStored, PromptStored, Enqueued, MoveStored, SaveStored, RemoveStored, WorkspaceRemoved, runs
    <3> QED BY <3>1
  <2> QED BY <1>6, <2>1, <2>2, <2>3, <2>4 DEF Deliver
<1>7. CASE Refuse
  <2>1. active' \subseteq active
    BY <1>7 DEF Refuse, MessageFails, EnqueueRefused, OtherFails, runs
  <2> QED BY <2>1
<1>8. ~Crash
  <2>1. ASSUME Crash PROVE FALSE
    <3>1. troubles' = [troubles EXCEPT !["crash"] = @ + 1]
      BY <2>1 DEF Crash, Meets
    <3>2. troubles'["crash"] = troubles["crash"] + 1 /\ troubles["crash"] \in Nat
      BY <1>1, <3>1 DEF Troubles
    <3> QED BY <3>2
  <2> QED BY <2>1
<1>9. ASSUME NEW t \in Tasks, ComesDue(t) \/ Turn(t) \/ Ends(t)
      PROVE  active' \subseteq active
  BY <1>9 DEF ComesDue, Turn, Ends, FinishCommand, EndAgent, FinishAgent, Completed, runs
<1>10. CASE UNCHANGED vars
  BY <1>10 DEF vars, runs
<1> QED BY <1>3, <1>4, <1>5, <1>6, <1>7, <1>8, <1>9, <1>10 DEF Next

THEOREM OnlyWhatWasAskedStarts == Spec => StartsWhatWasAsked
<1>1. Kept /\ [Next]_vars => (Undisturbed' /\ troubles' = troubles => active' \ active \subseteq asked)
  <2> SUFFICES ASSUME Kept, [Next]_vars, Undisturbed', troubles' = troubles
               PROVE  active' \ active \subseteq asked
    OBVIOUS
  <2>1. Sound /\ Regular
    BY TaskAssumption, TroublesStay DEF Kept
  <2> QED BY <2>1, TaskAssumption, StartsAreAskedFor
<1> QED BY <1>1, TasksStayRegular, PTL DEF Spec, StartsWhatWasAsked
=============================================================================
