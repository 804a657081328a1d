---------------------------- MODULE RequestGate ----------------------------
(***************************************************************************)
(* AiRequestGate (plugins/ai/AiRequestGate.cpp): the gate every request to *)
(* one AI provider passes through, so that the tasks of every workspace    *)
(* share the pace that service allows.  A caller (a chat client, a         *)
(* QObject) asks for an admission, waits in a queue, holds a slot, and     *)
(* gives it back, or dies.                                                 *)
(*                                                                         *)
(* Times are kept as ages: the code only ever compares m_clock.elapsed()   *)
(* with a remembered instant, so "how long ago" carries all of it, and an  *)
(* age stops growing at MaxAge, past which no comparison can change.       *)
(***************************************************************************)
EXTENDS Integers, Sequences, FiniteSets, WellFoundedInduction, FiniteSetTheorems, SequenceTheorems, TLAPS

CONSTANTS
    Providers,    \* provider identifiers
    Contexts,     \* callers, the QObject* an admission is held by
    Requests,     \* one element per acquire() that can be outstanding
    Owner,        \* Owner[r] is the caller whose acquire() r is
    Limits,       \* the pace a setting may ask of a provider
    RateWindow,   \* rateWindowMs, in ticks
    MaxAge,       \* bound: ages are not told apart beyond it
    MaxHistory    \* bound: remembered admissions, no limit looks further back

Limit == [interval: Nat, perMinute: Nat, concurrent: Nat]

ASSUME GateAssumption ==
    /\ RateWindow \in Nat \ {0}
    /\ MaxAge \in Nat /\ RateWindow <= MaxAge
    /\ MaxHistory \in Nat \ {0}
    /\ IsFiniteSet(Requests)
    /\ Owner \in [Requests -> Contexts]
    /\ Limits \subseteq Limit
    /\ \A l \in Limits : l.interval <= MaxAge /\ l.perMinute <= MaxHistory

VARIABLES
    alive,    \* the callers whose QObject exists
    gate,     \* m_providers, one ProviderState per provider
    posted    \* admissions queued to their holder's event loop

vars == <<alive, gate, posted>>

Never == -1       \* lastAdmittedMs before the first admission
Unlimited == [interval |-> 0, perMinute |-> 0, concurrent |-> 0]

(* ProviderState.  timer is what is left of the single-shot timer, Never    *)
(* when it is not running.                                                 *)
ProviderState ==
    [limit: Limits \cup {Unlimited},
     held: SUBSET Requests,
     sinceLast: 0..MaxAge \cup {Never},
     admissions: Seq(0..MaxAge),
     waiters: Seq(Requests),
     timer: 0..MaxAge \cup {Never}]

Fresh == [limit |-> Unlimited, held |-> {}, sinceLast |-> Never,
          admissions |-> <<>>, waiters |-> <<>>, timer |-> Never]

Init ==
    /\ alive = Contexts
    /\ gate = [p \in Providers |-> Fresh]
    /\ posted = {}

-----------------------------------------------------------------------------
(* The two conditions of an admission.                                     *)

Larger(a, b) == IF a < b THEN b ELSE a
Smaller(a, b) == IF a < b THEN a ELSE b

\* Mutant of ConcurrencyAvailable: one slot too many.
OneSlotTooMany(limit, held) ==
    limit.concurrent = 0 \/ Cardinality(held) <= limit.concurrent

(* concurrencyAvailable: a zero means the service never asked for a limit. *)
ConcurrencyAvailable(limit, held) ==
    limit.concurrent = 0 \/ Cardinality(held) < limit.concurrent

(* admissionDelay: the interval since the last admission and the window    *)
(* measured from the admission that was perMinute admissions ago.          *)
IntervalDelay(limit, sinceLast) ==
    IF limit.interval > 0 /\ sinceLast # Never
    THEN Larger(0, limit.interval - sinceLast) ELSE 0

WindowDelay(limit, admissions) ==
    IF limit.perMinute > 0 /\ Len(admissions) >= limit.perMinute
    THEN Larger(0, RateWindow - admissions[Len(admissions) - limit.perMinute + 1])
    ELSE 0

\* Mutant of AdmissionDelay: the two waits are added instead of overlapping.
SummedDelay(limit, sinceLast, admissions) ==
    IntervalDelay(limit, sinceLast) + WindowDelay(limit, admissions)

AdmissionDelay(limit, sinceLast, admissions) ==
    Larger(IntervalDelay(limit, sinceLast), WindowDelay(limit, admissions))

-----------------------------------------------------------------------------
(* pump.  Within one call the clock does not move: the loop drops the dead *)
(* waiters at the head, admits while it may, and stops at the first live   *)
(* waiter it may not admit.  k is where it stops.                          *)

Living(g, k, living) == {g.waiters[i] : i \in {j \in 1..k : Owner[g.waiters[j]] \in living}}

HeldAfter(g, k, living) == g.held \cup Living(g, k, living)

\* Mutant of Remember: an admission is forgotten one tick before it leaves.
ForgetEarly(admissions, n) ==
    LET old  == Cardinality({i \in DOMAIN admissions : admissions[i] >= RateWindow - 1})
        kept == IF n = 0 THEN admissions
                ELSE SubSeq(admissions, old + 1, Len(admissions)) \o [i \in 1..n |-> 0]
    IN  SubSeq(kept, Larger(0, Len(kept) - MaxHistory) + 1, Len(kept))

(* admit appends the instant and forgets the ones that left the window.    *)
Remember(admissions, n) ==
    LET old  == Cardinality({i \in DOMAIN admissions : admissions[i] >= RateWindow})
        kept == IF n = 0 THEN admissions
                ELSE SubSeq(admissions, old + 1, Len(admissions)) \o [i \in 1..n |-> 0]
    IN  SubSeq(kept, Larger(0, Len(kept) - MaxHistory) + 1, Len(kept))

SinceLastAfter(g, k, living) ==
    IF Living(g, k, living) = {} THEN g.sinceLast ELSE 0

AdmissionsAfter(g, k, living) ==
    Remember(g.admissions, Cardinality(Living(g, k, living)))

RoomAfter(g, k, living) == ConcurrencyAvailable(g.limit, HeldAfter(g, k, living))

DelayAfter(g, k, living) ==
    AdmissionDelay(g.limit, SinceLastAfter(g, k, living), AdmissionsAfter(g, k, living))

Passes(g, k, living) ==
    \/ Owner[g.waiters[k]] \notin living
    \/ RoomAfter(g, k - 1, living) /\ DelayAfter(g, k - 1, living) = 0

PumpStopsAfter(g, k, living) ==
    /\ k \in 0..Len(g.waiters)
    /\ \A i \in 1..k : Passes(g, i, living)
    /\ k < Len(g.waiters) => ~Passes(g, k + 1, living)

\* Mutant of Pumped: the waiters are taken from the back of the queue.
PumpedFromTheBack(g, k, living) ==
    [g EXCEPT
        !.held = @ \cup {g.waiters[i] : i \in {j \in (Len(g.waiters) - k + 1)..Len(g.waiters) :
                                                Owner[g.waiters[j]] \in living}},
        !.waiters = SubSeq(g.waiters, 1, Len(g.waiters) - k)]

Pumped(g, k, living) ==
    [g EXCEPT
        !.held = HeldAfter(g, k, living),
        !.sinceLast = SinceLastAfter(g, k, living),
        !.admissions = AdmissionsAfter(g, k, living),
        !.waiters = SubSeq(g.waiters, k + 1, Len(g.waiters)),
        !.timer = IF k < Len(g.waiters) /\ RoomAfter(g, k, living)
                  THEN DelayAfter(g, k, living) ELSE g.timer]

(* The handlers below compute a provider's state g and pump it.            *)
PumpProvider(p, g) ==
    \E k \in 0..Len(g.waiters) :
        /\ PumpStopsAfter(g, k, alive)
        /\ gate' = [gate EXCEPT ![p] = Pumped(g, k, alive)]

(* invokeMethod(holder, admitted, QueuedConnection): what a step admits is *)
(* posted; unpost is what leaves the event loop in the same step.          *)
Post(unpost) ==
    posted' = (posted \ unpost) \cup UNION {gate'[p].held \ gate[p].held : p \in Providers}

-----------------------------------------------------------------------------
Waiting(p, r) == \E i \in DOMAIN gate[p].waiters : gate[p].waiters[i] = r

Outstanding(r) == r \in posted \/ \E p \in Providers : r \in gate[p].held \/ Waiting(p, r)

(* The queue q without the places outside keep, a set of positions: what   *)
(* removeIf leaves.  There is one increasing map from 1..|keep| to keep.   *)
Kept(q, keep) ==
    LET n == Cardinality(keep)
        increasing == {f \in [1..n -> keep] : \A i, j \in 1..n : i < j => f[i] < f[j]}
    IN  {[i \in 1..n |-> q[f[i]]] : f \in increasing}

WithoutWaiter(q, c) == Kept(q, {i \in DOMAIN q : Owner[q[i]] # c})

(* acquire *)
AcquireAt(p, r) ==
    PumpProvider(p, [gate[p] EXCEPT !.waiters = Append(@, r)])

Acquire(p, r) ==
    /\ Owner[r] \in alive
    /\ ~Outstanding(r)
    /\ AcquireAt(p, r)
    /\ Post({})
    /\ UNCHANGED alive

\* Mutant of ReleaseAt: the slot is given back and the queue is not pumped.
ReleaseUnpumped(p, g, c) ==
    \E r \in g.held :
        /\ Owner[r] = c
        /\ gate' = [gate EXCEPT ![p] = [g EXCEPT !.held = @ \ {r}]]

(* release: one slot of the caller, and nothing at all if it holds none.   *)
ReleaseAt(p, g, c) ==
    \E r \in g.held :
        /\ Owner[r] = c
        /\ PumpProvider(p, [g EXCEPT !.held = @ \ {r}])

Release(p, c) ==
    /\ c \in alive
    /\ ReleaseAt(p, gate[p], c)
    /\ Post({})
    /\ UNCHANGED alive

(* withdraw: every place of the caller, and no pump.                       *)
Withdraw(p, c) ==
    /\ c \in alive
    /\ \E q \in WithoutWaiter(gate[p].waiters, c) :
          /\ q # gate[p].waiters
          /\ gate' = [gate EXCEPT ![p].waiters = q]
    /\ UNCHANGED <<alive, posted>>

(* setLimits: the whole setting replaces the one before it, a provider it  *)
(* does not name is no longer limited, and every provider is pumped.       *)
SetLimits(limits) ==
    /\ \E k \in [Providers -> 0..Cardinality(Requests)] :
          LET g(p) == [gate[p] EXCEPT !.limit = limits[p]]
          IN  /\ \A p \in Providers : PumpStopsAfter(g(p), k[p], alive)
              /\ gate' = [p \in Providers |-> Pumped(g(p), k[p], alive)]
    /\ Post({})
    /\ UNCHANGED alive

\* Mutant of Timeout: the timer stops and the queue is not pumped.
TimeoutUnpumped(p) ==
    /\ gate[p].timer = 0
    /\ gate' = [gate EXCEPT ![p].timer = Never]
    /\ UNCHANGED <<alive, posted>>

(* The timeout signal of the provider's timer.                             *)
Timeout(p) ==
    /\ gate[p].timer = 0
    /\ PumpProvider(p, [gate[p] EXCEPT !.timer = Never])
    /\ Post({})
    /\ UNCHANGED alive

\* Mutant of Destroy: only one slot of each provider is reclaimed.
DestroyReclaimingOne(c) ==
    /\ c \in alive
    /\ alive' = alive \ {c}
    /\ \E k \in [Providers -> 0..Cardinality(Requests)] :
          LET mine(p) == {r \in gate[p].held : Owner[r] = c}
              g(p) == [gate[p] EXCEPT !.held = @ \ {CHOOSE r \in mine(p) : TRUE}]
          IN  /\ \A p \in Providers :
                    IF mine(p) = {} THEN k[p] = 0 ELSE PumpStopsAfter(g(p), k[p], alive')
              /\ gate' = [p \in Providers |->
                            IF mine(p) = {} THEN gate[p] ELSE Pumped(g(p), k[p], alive')]
    /\ Post({r \in posted : Owner[r] = c})

(* A caller is destroyed: its QPointers are null, the calls posted to it   *)
(* are dropped, and reclaim runs for each provider it held a slot of.      *)
Destroy(c) ==
    /\ c \in alive
    /\ alive' = alive \ {c}
    /\ \E k \in [Providers -> 0..Cardinality(Requests)] :
          LET mine(p) == {r \in gate[p].held : Owner[r] = c}
              g(p) == [gate[p] EXCEPT !.held = @ \ mine(p)]
          IN  /\ \A p \in Providers :
                    IF mine(p) = {} THEN k[p] = 0 ELSE PumpStopsAfter(g(p), k[p], alive')
              /\ gate' = [p \in Providers |->
                            IF mine(p) = {} THEN gate[p] ELSE Pumped(g(p), k[p], alive')]
    /\ Post({r \in posted : Owner[r] = c})

(* A new caller takes the identity of one nothing remembers any more.      *)
Create(c) ==
    /\ c \notin alive
    /\ \A r \in Requests : Owner[r] = c => ~Outstanding(r)
    /\ alive' = alive \cup {c}
    /\ UNCHANGED <<gate, posted>>

(* The event loop of the caller runs the posted admission.                 *)
Deliver(r) ==
    /\ r \in posted
    /\ posted' = posted \ {r}
    /\ UNCHANGED <<alive, gate>>

(* Time passes for every provider.                                         *)
Older(age) == IF age = Never THEN Never ELSE Smaller(age + 1, MaxAge)
Sooner(left) == IF left = Never THEN Never ELSE Larger(left - 1, 0)

Tick ==
    /\ gate' = [p \in Providers |->
                  [gate[p] EXCEPT
                     !.sinceLast = Older(@),
                     !.admissions = [i \in DOMAIN @ |-> Older(@[i])],
                     !.timer = Sooner(@)]]
    /\ UNCHANGED <<alive, posted>>

Handler ==
    \/ \E p \in Providers, r \in Requests : Acquire(p, r)
    \/ \E p \in Providers, c \in Contexts : Release(p, c) \/ Withdraw(p, c)
    \/ \E limits \in [Providers -> Limits \cup {Unlimited}] : SetLimits(limits)
    \/ \E p \in Providers : Timeout(p)
    \/ \E c \in Contexts : Destroy(c) \/ Create(c)
    \/ \E r \in Requests : Deliver(r)

Next == Handler \/ Tick

Spec == Init /\ [][Next]_vars

-----------------------------------------------------------------------------
(* Every reachable value has its type.                                     *)
TypeOK ==
    /\ alive \subseteq Contexts
    /\ gate \in [Providers -> ProviderState]
    /\ posted \subseteq Requests

(* Nobody waits for nothing: while a queue is not empty, either the slots  *)
(* are all taken, and whoever gives one back pumps, or the timer that      *)
(* pumps is running.  A handler that changes a limit, a slot or the head   *)
(* of the queue and forgets to pump would leave the tasks behind it stuck. *)
NoLostWakeup ==
    \A p \in Providers :
        gate[p].waiters # <<>> =>
            \/ ~ConcurrencyAvailable(gate[p].limit, gate[p].held)
            \/ gate[p].timer # Never

(* A slot is never left with a caller that was destroyed: reclaim gives    *)
(* back every slot it had, of every provider, however many it had.         *)
NoSlotHeldByTheDead ==
    \A p \in Providers : \A r \in gate[p].held : Owner[r] \in alive

(* The slots of a provider grow only within the limit in force, whatever   *)
(* the limit was when the slots already taken were given.                  *)
AdmitsWithinSlots ==
    \A p \in Providers :
        gate'[p].held \subseteq gate[p].held
        \/ gate'[p].limit.concurrent = 0
        \/ Cardinality(gate'[p].held) <= gate'[p].limit.concurrent

SlotsWithinLimit == [][AdmitsWithinSlots]_vars

(* First come, first served: when a waiter is admitted, none that was      *)
(* ahead of it and is still alive is left behind in the queue.             *)
Overtakes(p, r, s) ==
    /\ \E i, j \in DOMAIN gate[p].waiters :
          i < j /\ gate[p].waiters[i] = s /\ gate[p].waiters[j] = r
    /\ r \in gate'[p].held
    /\ \E i \in DOMAIN gate'[p].waiters : gate'[p].waiters[i] = s

FirstComeFirstServed ==
    [][\A p \in Providers : \A r, s \in Requests : ~Overtakes(p, r, s)]_vars

-----------------------------------------------------------------------------
(* The timers of the event loop fire and the clock runs.  Every holder     *)
(* gives its slot back: AiHttpChatClient releases when its reply finishes, *)
(* and the transfer and idle timeouts bound how long that takes.           *)
Fairness ==
    /\ WF_vars(Tick)
    /\ \A p \in Providers : WF_vars(Timeout(p))
    /\ \A p \in Providers, c \in Contexts : WF_vars(Release(p, c))

FairSpec == Spec /\ Fairness

(* Every caller that waits stops waiting: it is admitted, or withdraws, or *)
(* is destroyed and then dropped, however the settings change meanwhile.   *)
EveryWaiterServed ==
    \A p \in Providers, r \in Requests : Waiting(p, r) ~> ~Waiting(p, r)

-----------------------------------------------------------------------------
(* What the gate promises for every set of providers, callers, requests and  *)
(* limits.                                                                 *)

-----------------------------------------------------------------------------
(* The least-number principle, as facts about sets, in which form a proof by *)
(* induction can be carried out: a set of counterexamples that is not empty   *)
(* has a first one.                                                         *)

Below == {pair \in Nat \X Nat : pair[1] < pair[2]}

(* Every nonempty set of natural numbers has a least element.              *)
THEOREM LeastElement ==
    ASSUME NEW S, S \subseteq Nat, S # {}
    PROVE  \E m \in S : \A n \in S : m <= n
<1>1. OpToRel(<, Nat) = Below
  BY Zenon DEF OpToRel, Below
<1>2. IsWellFoundedOn(Below, Nat)
  BY <1>1, NatLessThanWellFounded, Zenon
<1>3. \E x \in S : \A y \in S : ~(<<y, x>> \in Below)
  BY <1>2, WFMin
<1>4. PICK x \in S : \A y \in S : ~(<<y, x>> \in Below)
  BY <1>3
<1>5. \A y \in S : x <= y
  <2> TAKE y \in S
  <2>1. x \in Nat /\ y \in Nat
    OBVIOUS
  <2>2. <<y, x>> \in Nat \X Nat /\ <<y, x>>[1] = y /\ <<y, x>>[2] = x
    BY <2>1
  <2>3. ~(y < x)
    BY <1>4, <2>2 DEF Below
  <2> QED BY <2>1, <2>3
<1> QED BY <1>5

(* Every nonempty set of natural numbers with a bound has a greatest one.  *)
THEOREM GreatestElement ==
    ASSUME NEW k \in Nat, NEW S, S \subseteq 0..k, S # {}
    PROVE  \E m \in S : \A n \in S : n <= m
<1> DEFINE T == {k - n : n \in S}
<1>1. T \subseteq Nat /\ T # {}
  <2>1. \A n \in S : k - n \in Nat
    OBVIOUS
  <2> QED BY <2>1
<1> HIDE DEF T
<1>2. PICK t \in T : \A u \in T : t <= u
  BY <1>1, LeastElement
<1>3. PICK m \in S : t = k - m
  BY DEF T
<1>4. \A n \in S : n <= m
  <2> TAKE n \in S
  <2>1. k - n \in T
    BY DEF T
  <2>2. k - m <= k - n
    BY <1>2, <1>3, <2>1
  <2> QED BY <2>2
<1> QED BY <1>4

-----------------------------------------------------------------------------
(* The operators the pump is built from.                                   *)

AnyLimit == Limits \cup {Unlimited}

LEMMA LimitFacts ==
    ASSUME NEW l \in AnyLimit
    PROVE  /\ l \in Limit
           /\ l.interval <= MaxAge
           /\ l.perMinute <= MaxHistory
BY GateAssumption DEF AnyLimit, Limit, Unlimited

(* A wait is never negative and never longer than an age can tell.         *)
LEMMA DelayType ==
    ASSUME NEW l \in AnyLimit,
           NEW s \in 0..MaxAge \cup {Never},
           NEW a \in Seq(0..MaxAge)
    PROVE  AdmissionDelay(l, s, a) \in 0..MaxAge
<1>1. l \in Limit /\ l.interval <= MaxAge
  BY LimitFacts
<1>2. IntervalDelay(l, s) \in 0..MaxAge
  BY <1>1, GateAssumption DEF IntervalDelay, Limit, Never, Larger
<1>3. WindowDelay(l, a) \in 0..MaxAge
  <2>1. CASE l.perMinute > 0 /\ Len(a) >= l.perMinute
    <3> DEFINE at == Len(a) - l.perMinute + 1
    <3>1. at \in 1..Len(a)
      BY <1>1, <2>1, LenProperties DEF Limit
    <3>2. a[at] \in 0..MaxAge
      BY <3>1, ElementOfSeq
    <3> QED BY <3>2, <2>1, GateAssumption DEF WindowDelay, Larger
  <2>2. CASE ~(l.perMinute > 0 /\ Len(a) >= l.perMinute)
    BY <2>2, GateAssumption DEF WindowDelay
  <2> QED BY <2>1, <2>2
<1> QED BY <1>2, <1>3 DEF AdmissionDelay, Larger

(* The gate's memory of its admissions stays a sequence of ages.           *)
LEMMA RememberType ==
    ASSUME NEW a \in Seq(0..MaxAge), NEW n \in Nat
    PROVE  Remember(a, n) \in Seq(0..MaxAge)
<1> DEFINE Gone == {i \in DOMAIN a : a[i] >= RateWindow}
           old  == Cardinality(Gone)
           kept == IF n = 0 THEN a
                   ELSE SubSeq(a, old + 1, Len(a)) \o [i \in 1..n |-> 0]
<1>1. old \in Nat
  <2>1. IsFiniteSet(DOMAIN a)
    <3>1. DOMAIN a = 1..Len(a) /\ Len(a) \in Nat
      OBVIOUS
    <3> QED BY <3>1, FS_Interval
  <2> QED BY <2>1, FS_Subset, FS_CardinalityType
<1>2. kept \in Seq(0..MaxAge)
  <2>1. SubSeq(a, old + 1, Len(a)) \in Seq(0..MaxAge)
    <3> HIDE DEF old
    <3>1. \A i \in (old + 1)..Len(a) : a[i] \in 0..MaxAge
      <4> TAKE i \in (old + 1)..Len(a)
      <4>1. i \in 1..Len(a)
        BY <1>1, LenProperties
      <4> QED BY <4>1, ElementOfSeq
    <3> QED BY <1>1, <3>1, SubSeqProperties
  <2>2. [i \in 1..n |-> 0] \in Seq(0..MaxAge)
    BY GateAssumption
  <2> HIDE DEF old
  <2> QED BY <2>1, <2>2, ConcatProperties
<1> HIDE DEF kept
<1>3. Len(kept) \in Nat /\ MaxHistory \in Nat
  BY <1>2, GateAssumption
<1> DEFINE from == Larger(0, Len(kept) - MaxHistory) + 1
<1>4. from \in Nat \ {0}
  BY <1>3 DEF Larger
<1> HIDE DEF from
<1>5. SubSeq(kept, from, Len(kept)) \in Seq(0..MaxAge)
  <2>1. \A i \in from..Len(kept) : kept[i] \in 0..MaxAge
    <3> TAKE i \in from..Len(kept)
    <3>1. i \in 1..Len(kept)
      BY <1>3, <1>4
    <3> QED BY <1>2, <3>1, ElementOfSeq
  <2> QED BY <1>3, <1>4, <2>1, SubSeqProperties
<1>6. Remember(a, n) = SubSeq(kept, from, Len(kept))
  BY Zenon DEF Remember, kept, old, from
<1> QED BY <1>5, <1>6

(* A pumped provider state is a provider state.                            *)
LEMMA PumpedType ==
    ASSUME NEW g \in ProviderState, NEW k \in 0..Len(g.waiters), NEW living
    PROVE  /\ Living(g, k, living) \subseteq Requests
           /\ Pumped(g, k, living) \in ProviderState
<1>1. /\ g.limit \in AnyLimit
      /\ g.held \subseteq Requests
      /\ g.sinceLast \in 0..MaxAge \cup {Never}
      /\ g.admissions \in Seq(0..MaxAge)
      /\ g.waiters \in Seq(Requests)
      /\ g.timer \in 0..MaxAge \cup {Never}
      /\ Len(g.waiters) \in Nat
  BY DEF ProviderState, AnyLimit
<1>2. Living(g, k, living) \subseteq Requests
  BY <1>1 DEF Living
<1>3. Cardinality(Living(g, k, living)) \in Nat
  BY <1>2, GateAssumption, FS_Subset, FS_CardinalityType
<1>4. SinceLastAfter(g, k, living) \in 0..MaxAge \cup {Never}
  BY <1>1, GateAssumption DEF SinceLastAfter
<1>5. AdmissionsAfter(g, k, living) \in Seq(0..MaxAge)
  BY <1>1, <1>3, RememberType DEF AdmissionsAfter
<1>6. DelayAfter(g, k, living) \in 0..MaxAge
  BY <1>1, <1>4, <1>5, DelayType DEF DelayAfter
<1>7. HeldAfter(g, k, living) \subseteq Requests
  BY <1>1, <1>2 DEF HeldAfter
<1>8. SubSeq(g.waiters, k + 1, Len(g.waiters)) \in Seq(Requests)
  <2>1. \A i \in (k + 1)..Len(g.waiters) : g.waiters[i] \in Requests
    BY <1>1
  <2> QED BY <1>1, <2>1, SubSeqProperties
<1> QED
  BY <1>1, <1>2, <1>4, <1>5, <1>6, <1>7, <1>8 DEF Pumped, ProviderState

(* A pump that leaves someone waiting leaves no room or a running timer.   *)
LEMMA PumpedAwake ==
    ASSUME NEW g \in ProviderState, NEW k \in 0..Len(g.waiters), NEW living,
           Pumped(g, k, living).waiters # <<>>
    PROVE  \/ ~ConcurrencyAvailable(g.limit, Pumped(g, k, living).held)
           \/ Pumped(g, k, living).timer # Never
<1> DEFINE h == Pumped(g, k, living)
<1>1. /\ g.limit \in AnyLimit
      /\ g.sinceLast \in 0..MaxAge \cup {Never}
      /\ g.admissions \in Seq(0..MaxAge)
      /\ Len(g.waiters) \in Nat
      /\ DOMAIN g = {"limit", "held", "sinceLast", "admissions", "waiters", "timer"}
  BY DEF ProviderState, AnyLimit
<1>2. /\ h.waiters = SubSeq(g.waiters, k + 1, Len(g.waiters))
      /\ h.held = HeldAfter(g, k, living)
      /\ h.timer = IF k < Len(g.waiters) /\ RoomAfter(g, k, living)
                   THEN DelayAfter(g, k, living) ELSE g.timer
  BY <1>1 DEF Pumped
<1>3. k < Len(g.waiters)
  BY <1>1, <1>2
<1>4. CASE RoomAfter(g, k, living)
  <2>1. Cardinality(Living(g, k, living)) \in Nat
    BY PumpedType, GateAssumption, FS_Subset, FS_CardinalityType
  <2>2. AdmissionsAfter(g, k, living) \in Seq(0..MaxAge)
    BY <1>1, <2>1, RememberType DEF AdmissionsAfter
  <2>3. SinceLastAfter(g, k, living) \in 0..MaxAge \cup {Never}
    BY <1>1, GateAssumption DEF SinceLastAfter
  <2>4. DelayAfter(g, k, living) \in 0..MaxAge
    BY <1>1, <2>2, <2>3, DelayType DEF DelayAfter
  <2> QED BY <1>2, <1>3, <1>4, <2>4 DEF Never
<1>5. CASE ~RoomAfter(g, k, living)
  BY <1>2, <1>5 DEF RoomAfter
<1> QED BY <1>4, <1>5

(* A pump that admits ends within the slots of the limit in force.         *)
LEMMA PumpedWithinSlots ==
    ASSUME NEW g \in ProviderState, NEW k, NEW living, PumpStopsAfter(g, k, living)
    PROVE  \/ HeldAfter(g, k, living) = g.held
           \/ g.limit.concurrent = 0
           \/ Cardinality(HeldAfter(g, k, living)) <= g.limit.concurrent
<1> DEFINE I == {i \in 1..k : Owner[g.waiters[i]] \in living}
<1>1. /\ k \in 0..Len(g.waiters) /\ k \in Nat
      /\ \A i \in 1..k : Passes(g, i, living)
      /\ g.limit.concurrent \in Nat
      /\ g.held \subseteq Requests
      /\ g.waiters \in Seq(Requests)
      /\ Len(g.waiters) \in Nat
  BY LimitFacts DEF PumpStopsAfter, ProviderState, AnyLimit, Limit
<1>2. CASE I = {}
  BY <1>2 DEF HeldAfter, Living
<1>3. CASE I # {}
  <2>1. PICK m \in I : \A i \in I : i <= m
    <3>1. I \subseteq 0..k
      BY <1>1
    <3> HIDE DEF I
    <3> QED BY <1>1, <1>3, <3>1, GreatestElement
  <2>2. m \in 1..k /\ Owner[g.waiters[m]] \in living
    OBVIOUS
  <2>3. RoomAfter(g, m - 1, living)
    BY <1>1, <2>2 DEF Passes
  <2>4. HeldAfter(g, k, living) = HeldAfter(g, m - 1, living) \cup {g.waiters[m]}
    <3>1. Living(g, k, living) = Living(g, m - 1, living) \cup {g.waiters[m]}
      <4>1. I = {i \in 1..(m - 1) : Owner[g.waiters[i]] \in living} \cup {m}
        BY <1>1, <2>1, <2>2
      <4> QED BY <4>1 DEF Living
    <3> QED BY <3>1 DEF HeldAfter
  <2> DEFINE H == HeldAfter(g, m - 1, living)
  <2>5. IsFiniteSet(H)
    <3>1. m - 1 \in 0..Len(g.waiters)
      BY <1>1, <2>2
    <3>2. H \subseteq Requests
      BY <1>1, <3>1, PumpedType DEF HeldAfter
    <3> QED BY <3>2, GateAssumption, FS_Subset
  <2> HIDE DEF H
  <2> DEFINE w == g.waiters[m]
  <2> HIDE DEF w
  <2>6. /\ Cardinality(H) \in Nat
        /\ Cardinality(H \cup {w}) <= Cardinality(H) + 1
    <3>1. Cardinality(H) \in Nat
      BY <2>5, FS_CardinalityType
    <3>2. Cardinality(H \cup {w}) = IF w \in H THEN Cardinality(H) ELSE Cardinality(H) + 1
      BY <2>5, FS_AddElement
    <3> QED BY <3>1, <3>2
  <2>7. g.limit.concurrent = 0 \/ Cardinality(H) < g.limit.concurrent
    BY <2>3 DEF RoomAfter, ConcurrencyAvailable, H
  <2>8. Cardinality(H \cup {w}) \in Nat
    BY <2>5, FS_AddElement, FS_CardinalityType
  <2> QED BY <1>1, <2>4, <2>6, <2>7, <2>8 DEF H, w
<1> QED BY <1>2, <1>3

(* A queue is w of q when each place of it is a place of q, and of no      *)
(* other: what stands once in q stands at most once in w.                  *)
PlacesOf(w, q) ==
    \E f \in [DOMAIN w -> DOMAIN q] :
        /\ \A i, j \in DOMAIN w : f[i] = f[j] => i = j
        /\ \A i \in DOMAIN w : w[i] = q[f[i]]

LEMMA SamePlaces ==
    ASSUME NEW q
    PROVE  PlacesOf(q, q)
<1> DEFINE f == [i \in DOMAIN q |-> i]
<1>1. f \in [DOMAIN q -> DOMAIN q] /\ \A i \in DOMAIN q : f[i] = i
  OBVIOUS
<1> QED BY <1>1, Zenon DEF PlacesOf

(* What removeIf leaves of a queue is a queue, of places of that queue, and *)
(* of none it leaves none.                                                 *)
LEMMA KeptType ==
    ASSUME NEW q \in Seq(Requests), NEW keep \in SUBSET (DOMAIN q), NEW w \in Kept(q, keep)
    PROVE  w \in Seq(Requests) /\ (q = <<>> => w = <<>>) /\ PlacesOf(w, q)
<1> DEFINE n == Cardinality(keep)
<1>1. DOMAIN q = 1..Len(q) /\ Len(q) \in Nat
  OBVIOUS
<1>2. IsFiniteSet(keep)
  <2>1. IsFiniteSet(1..Len(q)) /\ keep \subseteq 1..Len(q)
    BY <1>1, FS_Interval
  <2> QED BY <2>1, FS_Subset
<1>3. n \in Nat /\ (keep = {} => n = 0)
  BY <1>2, FS_CardinalityType, FS_EmptySet
<1>4. PICK f \in [1..n -> keep] :
          /\ \A i, j \in 1..n : i < j => f[i] < f[j]
          /\ w = [i \in 1..n |-> q[f[i]]]
  BY DEF Kept
<1> HIDE DEF n
<1>5. \A i \in 1..n : q[f[i]] \in Requests
  BY <1>1, <1>4
<1>6. w \in Seq(Requests)
  BY <1>3, <1>4, <1>5
<1>7. ASSUME q = <<>> PROVE w = <<>>
  <2>1. n = 0
    BY <1>3, <1>7
  <2> QED BY <1>4, <2>1
<1>8. PlacesOf(w, q)
  <2>1. DOMAIN w = 1..n /\ f \in [1..n -> DOMAIN q]
    BY <1>4
  <2>2. \A i \in 1..n : w[i] = q[f[i]]
    BY <1>4
  <2>3. \A i, j \in 1..n : f[i] = f[j] => i = j
    <3> SUFFICES ASSUME NEW i \in 1..n, NEW j \in 1..n, f[i] = f[j] PROVE i = j
      OBVIOUS
    <3>1. f[i] \in Nat /\ f[j] \in Nat /\ i \in Nat /\ j \in Nat
      BY <1>1, <1>3, <1>4
    <3>2. (i < j => f[i] < f[j]) /\ (j < i => f[j] < f[i])
      BY <1>4
    <3> QED BY <3>1, <3>2
  <2>4. f \in [DOMAIN w -> DOMAIN q]
    BY <2>1
  <2>5. \A i, j \in DOMAIN w : f[i] = f[j] => i = j
    BY <2>1, <2>3, Zenon
  <2>6. \A i \in DOMAIN w : w[i] = q[f[i]]
    BY <2>1, <2>2, Zenon
  <2> QED BY <2>4, <2>5, <2>6, Zenon DEF PlacesOf
<1> QED BY <1>6, <1>7, <1>8

-----------------------------------------------------------------------------
(* Every step leaves each provider either pumped, in the sense of the      *)
(* lemmas above, or with its slots, its limit, its timer and the emptiness *)
(* of its queue as they were.  A pumped queue is the one there was or that *)
(* one with a newcomer at its end, a quiet one has places of it.           *)

Joined(p, g) ==
    \/ g.waiters = gate[p].waiters
    \/ \E r \in Requests \ gate[p].held :
          ~Waiting(p, r) /\ g.waiters = Append(gate[p].waiters, r)

PumpsOf(p) ==
    \E g \in ProviderState : \E k \in 0..Len(g.waiters) :
        /\ PumpStopsAfter(g, k, alive')
        /\ gate'[p] = Pumped(g, k, alive')
        /\ g.held \subseteq gate[p].held
        /\ \A r \in g.held : Owner[r] \in alive'
        /\ Joined(p, g)

LeavesQuiet(p) ==
    /\ gate'[p] \in ProviderState
    /\ gate'[p].held = gate[p].held
    /\ gate'[p].limit = gate[p].limit
    /\ gate[p].waiters = <<>> => gate'[p].waiters = <<>>
    /\ gate'[p].timer = Never => gate[p].timer = Never
    /\ \A r \in gate'[p].held : Owner[r] \in alive'
    /\ PlacesOf(gate'[p].waiters, gate[p].waiters)

StepShape ==
    /\ alive' \subseteq Contexts
    /\ gate' = [p \in Providers |-> gate'[p]]
    /\ \A p \in Providers : PumpsOf(p) \/ LeavesQuiet(p)

LEMMA PumpProviderShape ==
    ASSUME TypeOK, NoSlotHeldByTheDead, NEW p \in Providers, NEW g \in ProviderState,
           g.held \subseteq gate[p].held, Joined(p, g), alive' = alive, PumpProvider(p, g)
    PROVE  StepShape
<1>1. PICK k \in 0..Len(g.waiters) :
          /\ PumpStopsAfter(g, k, alive)
          /\ gate' = [gate EXCEPT ![p] = Pumped(g, k, alive)]
  BY DEF PumpProvider
<1>2. gate' = [q \in Providers |-> gate'[q]]
  BY <1>1 DEF TypeOK
<1>3. PumpsOf(p)
  <2>1. gate'[p] = Pumped(g, k, alive')
    BY <1>1 DEF TypeOK
  <2>2. \A r \in g.held : Owner[r] \in alive'
    BY DEF NoSlotHeldByTheDead
  <2> QED BY <1>1, <2>1, <2>2 DEF PumpsOf
<1>4. ASSUME NEW q \in Providers, q # p PROVE LeavesQuiet(q)
  <2>1. gate'[q] = gate[q]
    BY <1>1, <1>4 DEF TypeOK
  <2> QED BY <2>1, SamePlaces DEF LeavesQuiet, TypeOK, NoSlotHeldByTheDead
<1>5. alive' \subseteq Contexts
  BY DEF TypeOK
<1> QED BY <1>2, <1>3, <1>4, <1>5 DEF StepShape

LEMMA NextShape ==
    ASSUME TypeOK, NoSlotHeldByTheDead, Next
    PROVE  StepShape
<1> USE DEF TypeOK
<1>0. \A p \in Providers : gate[p] \in ProviderState
  OBVIOUS
<1>1. ASSUME NEW p \in Providers, NEW r \in Requests, Acquire(p, r) PROVE StepShape
  <2> DEFINE g == [gate[p] EXCEPT !.waiters = Append(@, r)]
  <2>1. g \in ProviderState /\ g.held = gate[p].held
    <3>1. gate[p].waiters \in Seq(Requests) /\ gate[p] \in ProviderState
      BY <1>0 DEF ProviderState
    <3>2. Append(gate[p].waiters, r) \in Seq(Requests)
      BY <3>1, AppendProperties
    <3> QED BY <3>1, <3>2 DEF ProviderState
  <2>2. alive' = alive /\ PumpProvider(p, g)
    BY <1>1 DEF Acquire, AcquireAt
  <2>3. Joined(p, g)
    <3>1. r \in Requests \ gate[p].held /\ ~Waiting(p, r)
      BY <1>1 DEF Acquire, Outstanding
    <3>2. g.waiters = Append(gate[p].waiters, r)
      BY <1>0 DEF ProviderState
    <3> QED BY <3>1, <3>2 DEF Joined
  <2> QED BY <2>1, <2>2, <2>3, PumpProviderShape
<1>2. ASSUME NEW p \in Providers, NEW c \in Contexts, Release(p, c) PROVE StepShape
  <2>1. PICK r \in gate[p].held : PumpProvider(p, [gate[p] EXCEPT !.held = @ \ {r}])
    BY <1>2 DEF Release, ReleaseAt
  <2> DEFINE g == [gate[p] EXCEPT !.held = @ \ {r}]
  <2>2. g \in ProviderState /\ g.held \subseteq gate[p].held /\ Joined(p, g)
    BY <1>0 DEF ProviderState, Joined
  <2>3. alive' = alive /\ PumpProvider(p, g)
    BY <1>2, <2>1 DEF Release
  <2> QED BY <2>2, <2>3, PumpProviderShape
<1>3. ASSUME NEW p \in Providers, NEW c \in Contexts, Withdraw(p, c) PROVE StepShape
  <2>1. PICK q \in WithoutWaiter(gate[p].waiters, c) :
            gate' = [gate EXCEPT ![p].waiters = q]
    BY <1>3 DEF Withdraw
  <2>2. gate[p].waiters \in Seq(Requests)
    BY <1>0 DEF ProviderState
  <2> DEFINE keep == {i \in DOMAIN gate[p].waiters : Owner[gate[p].waiters[i]] # c}
  <2>3. keep \subseteq DOMAIN gate[p].waiters /\ q \in Kept(gate[p].waiters, keep)
    BY <2>1 DEF WithoutWaiter
  <2>4. /\ q \in Seq(Requests) /\ (gate[p].waiters = <<>> => q = <<>>)
        /\ PlacesOf(q, gate[p].waiters)
    BY <2>2, <2>3, KeptType
  <2>5. alive' = alive
    BY <1>3 DEF Withdraw
  <2>6. LeavesQuiet(p)
    <3>1. gate'[p] = [gate[p] EXCEPT !.waiters = q]
      BY <2>1
    <3> QED BY <3>1, <2>4, <2>5, <1>0 DEF LeavesQuiet, ProviderState, NoSlotHeldByTheDead
  <2>7. ASSUME NEW o \in Providers, o # p PROVE LeavesQuiet(o)
    <3>1. gate'[o] = gate[o]
      BY <2>1, <2>7
    <3> QED BY <3>1, <2>5, <1>0, SamePlaces DEF LeavesQuiet, NoSlotHeldByTheDead
  <2>8. gate' = [o \in Providers |-> gate'[o]]
    BY <2>1
  <2> QED BY <2>5, <2>6, <2>7, <2>8 DEF StepShape
<1>4. ASSUME NEW limits \in [Providers -> AnyLimit], SetLimits(limits) PROVE StepShape
  <2> DEFINE g(p) == [gate[p] EXCEPT !.limit = limits[p]]
  <2>1. PICK k \in [Providers -> 0..Cardinality(Requests)] :
            /\ \A p \in Providers : PumpStopsAfter(g(p), k[p], alive)
            /\ gate' = [p \in Providers |-> Pumped(g(p), k[p], alive)]
    BY <1>4 DEF SetLimits
  <2>2. alive' = alive
    BY <1>4 DEF SetLimits
  <2>3. ASSUME NEW p \in Providers PROVE PumpsOf(p)
    <3>1. /\ g(p) \in ProviderState /\ g(p).held = gate[p].held
          /\ g(p).waiters = gate[p].waiters
      BY <1>0, <1>4 DEF ProviderState, AnyLimit
    <3>2. PumpStopsAfter(g(p), k[p], alive') /\ gate'[p] = Pumped(g(p), k[p], alive')
      BY <2>1, <2>2
    <3>3. k[p] \in 0..Len(g(p).waiters)
      BY <3>2 DEF PumpStopsAfter
    <3>4. \A r \in g(p).held : Owner[r] \in alive'
      BY <3>1, <2>2 DEF NoSlotHeldByTheDead
    <3>5. Joined(p, g(p))
      BY <3>1 DEF Joined
    <3> HIDE DEF g
    <3> QED BY <3>1, <3>2, <3>3, <3>4, <3>5 DEF PumpsOf
  <2>4. gate' = [p \in Providers |-> gate'[p]]
    BY <2>1
  <2> QED BY <2>2, <2>3, <2>4 DEF StepShape
<1>5. ASSUME NEW p \in Providers, Timeout(p) PROVE StepShape
  <2> DEFINE g == [gate[p] EXCEPT !.timer = Never]
  <2>1. g \in ProviderState /\ g.held = gate[p].held /\ Joined(p, g)
    BY <1>0 DEF ProviderState, Joined
  <2>2. alive' = alive /\ PumpProvider(p, g)
    BY <1>5 DEF Timeout
  <2> QED BY <2>1, <2>2, PumpProviderShape
<1>6. ASSUME NEW c \in Contexts, Destroy(c) PROVE StepShape
  <2> DEFINE mine(p) == {r \in gate[p].held : Owner[r] = c}
             g(p) == [gate[p] EXCEPT !.held = @ \ mine(p)]
  <2>1. PICK k \in [Providers -> 0..Cardinality(Requests)] :
            /\ \A p \in Providers :
                  IF mine(p) = {} THEN k[p] = 0 ELSE PumpStopsAfter(g(p), k[p], alive')
            /\ gate' = [p \in Providers |->
                          IF mine(p) = {} THEN gate[p] ELSE Pumped(g(p), k[p], alive')]
    BY <1>6 DEF Destroy
  <2>2. alive' = alive \ {c}
    BY <1>6 DEF Destroy
  <2>3. ASSUME NEW p \in Providers, mine(p) = {} PROVE LeavesQuiet(p)
    <3>1. gate'[p] = gate[p]
      BY <2>1, <2>3
    <3>2. \A r \in gate[p].held : Owner[r] \in alive'
      BY <2>2, <2>3 DEF NoSlotHeldByTheDead
    <3> QED BY <3>1, <3>2, <1>0, SamePlaces DEF LeavesQuiet
  <2>4. ASSUME NEW p \in Providers, mine(p) # {} PROVE PumpsOf(p)
    <3>1. /\ g(p) \in ProviderState
          /\ g(p).held = gate[p].held \ mine(p)
      BY <1>0 DEF ProviderState
    <3>2. PumpStopsAfter(g(p), k[p], alive') /\ gate'[p] = Pumped(g(p), k[p], alive')
      BY <2>1, <2>4
    <3>3. k[p] \in 0..Len(g(p).waiters)
      BY <3>2 DEF PumpStopsAfter
    <3>4. \A r \in g(p).held : Owner[r] \in alive'
      BY <3>1, <2>2 DEF NoSlotHeldByTheDead
    <3>5. g(p).held \subseteq gate[p].held /\ Joined(p, g(p))
      BY <3>1, <1>0 DEF Joined, ProviderState
    <3> HIDE DEF g
    <3> QED BY <3>1, <3>2, <3>3, <3>4, <3>5 DEF PumpsOf
  <2>5. gate' = [p \in Providers |-> gate'[p]]
    BY <2>1
  <2> QED BY <2>2, <2>3, <2>4, <2>5 DEF StepShape
<1>7. ASSUME NEW c \in Contexts, Create(c) PROVE StepShape
  <2>1. alive' = alive \cup {c} /\ gate' = gate
    BY <1>7 DEF Create
  <2>2. \A p \in Providers : LeavesQuiet(p)
    BY <2>1, <1>0, SamePlaces DEF LeavesQuiet, NoSlotHeldByTheDead
  <2> QED BY <2>1, <2>2 DEF StepShape
<1>8. ASSUME NEW r \in Requests, Deliver(r) PROVE StepShape
  <2>1. alive' = alive /\ gate' = gate
    BY <1>8 DEF Deliver
  <2>2. \A p \in Providers : LeavesQuiet(p)
    BY <2>1, <1>0, SamePlaces DEF LeavesQuiet, NoSlotHeldByTheDead
  <2> QED BY <2>1, <2>2 DEF StepShape
<1>9. ASSUME Tick PROVE StepShape
  <2>1. /\ alive' = alive
        /\ gate' = [p \in Providers |->
                      [gate[p] EXCEPT
                         !.sinceLast = Older(@),
                         !.admissions = [i \in DOMAIN @ |-> Older(@[i])],
                         !.timer = Sooner(@)]]
    BY <1>9 DEF Tick
  <2>2. ASSUME NEW p \in Providers PROVE LeavesQuiet(p)
    <3> DEFINE past == gate[p].admissions
               aged == [i \in DOMAIN past |-> Older(past[i])]
    <3>1. gate'[p] = [gate[p] EXCEPT !.sinceLast = Older(gate[p].sinceLast),
                                     !.admissions = aged,
                                     !.timer = Sooner(gate[p].timer)]
      BY <2>1, <1>0 DEF ProviderState
    <3>2. aged \in Seq(0..MaxAge)
      <4>1. past \in Seq(0..MaxAge)
        BY <1>0 DEF ProviderState
      <4>2. DOMAIN past = 1..Len(past) /\ Len(past) \in Nat
        BY <4>1
      <4>3. \A i \in 1..Len(past) : Older(past[i]) \in 0..MaxAge
        <5> TAKE i \in 1..Len(past)
        <5>1. past[i] \in 0..MaxAge
          BY <4>1, ElementOfSeq
        <5> QED BY <5>1, GateAssumption DEF Older, Smaller, Never
      <4> QED BY <4>2, <4>3
    <3> HIDE DEF aged
    <3>3. gate[p].sinceLast \in 0..MaxAge \cup {Never} /\ gate[p].timer \in 0..MaxAge \cup {Never}
      BY <1>0 DEF ProviderState
    <3>4. Older(gate[p].sinceLast) \in 0..MaxAge \cup {Never}
      BY <3>3, GateAssumption DEF Older, Smaller, Never
    <3>5. /\ Sooner(gate[p].timer) \in 0..MaxAge \cup {Never}
          /\ Sooner(gate[p].timer) = Never => gate[p].timer = Never
      BY <3>3, GateAssumption DEF Sooner, Larger, Never
    <3>6. PlacesOf(gate'[p].waiters, gate[p].waiters)
      BY <3>1, <1>0, SamePlaces DEF ProviderState
    <3> QED
      BY <3>1, <3>2, <3>4, <3>5, <3>6, <2>1, <1>0
      DEF LeavesQuiet, ProviderState, NoSlotHeldByTheDead
  <2>3. gate' = [p \in Providers |-> gate'[p]]
    BY <2>1
  <2> QED BY <2>1, <2>2, <2>3 DEF StepShape
<1> QED
  BY <1>1, <1>2, <1>3, <1>4, <1>5, <1>6, <1>7, <1>8, <1>9 DEF Next, Handler, AnyLimit

-----------------------------------------------------------------------------
(* The inductive invariant: the shape of a step needs the first two parts, *)
(* and each part is preserved by that shape alone.                         *)
IInv == TypeOK /\ NoSlotHeldByTheDead /\ NoLostWakeup

LEMMA PostedType ==
    ASSUME TypeOK, Next, gate' \in [Providers -> ProviderState]
    PROVE  posted' \subseteq Requests
<1>1. UNION {gate'[p].held \ gate[p].held : p \in Providers} \subseteq Requests
  BY DEF ProviderState
<1>2. CASE \E unpost : Post(unpost)
  BY <1>1, <1>2 DEF Post, TypeOK
<1>3. CASE posted' \subseteq posted
  BY <1>3 DEF TypeOK
<1> QED
  BY <1>2, <1>3 DEF Next, Handler, Acquire, Release, Withdraw, SetLimits, Timeout,
                    Destroy, Create, Deliver, Tick

LEMMA InitIInv == Init => IInv
<1> SUFFICES ASSUME Init PROVE IInv
  OBVIOUS
<1>1. Fresh \in ProviderState /\ Fresh.held = {} /\ Fresh.waiters = <<>>
  BY GateAssumption DEF Fresh, ProviderState, Never
<1> QED BY <1>1 DEF Init, IInv, TypeOK, NoSlotHeldByTheDead, NoLostWakeup

LEMMA NextIInv ==
    ASSUME IInv, Next
    PROVE  IInv'
<1>1. StepShape
  BY NextShape DEF IInv
<1>2. ASSUME NEW p \in Providers, PumpsOf(p)
      PROVE  /\ gate'[p] \in ProviderState
             /\ \A r \in gate'[p].held : Owner[r] \in alive'
             /\ gate'[p].waiters # <<>> =>
                   \/ ~ConcurrencyAvailable(gate'[p].limit, gate'[p].held)
                   \/ gate'[p].timer # Never
  <2>1. PICK g \in ProviderState :
            \E k \in 0..Len(g.waiters) :
            /\ gate'[p] = Pumped(g, k, alive')
            /\ \A r \in g.held : Owner[r] \in alive'
    BY <1>2 DEF PumpsOf
  <2>5. PICK k \in 0..Len(g.waiters) : gate'[p] = Pumped(g, k, alive')
    BY <2>1
  <2>2. gate'[p] \in ProviderState
    BY <2>5, PumpedType
  <2>3. gate'[p].limit = g.limit /\ gate'[p].held = HeldAfter(g, k, alive')
    BY <2>5 DEF Pumped, ProviderState
  <2>4. \A r \in gate'[p].held : Owner[r] \in alive'
    BY <2>1, <2>3 DEF HeldAfter, Living
  <2> QED BY <2>5, <2>2, <2>3, <2>4, PumpedAwake
<1>3. ASSUME NEW p \in Providers, LeavesQuiet(p)
      PROVE  /\ gate'[p] \in ProviderState
             /\ \A r \in gate'[p].held : Owner[r] \in alive'
             /\ gate'[p].waiters # <<>> =>
                   \/ ~ConcurrencyAvailable(gate'[p].limit, gate'[p].held)
                   \/ gate'[p].timer # Never
  BY <1>3 DEF LeavesQuiet, IInv, NoLostWakeup
<1>4. \A p \in Providers :
          /\ gate'[p] \in ProviderState
          /\ \A r \in gate'[p].held : Owner[r] \in alive'
          /\ gate'[p].waiters # <<>> =>
                \/ ~ConcurrencyAvailable(gate'[p].limit, gate'[p].held)
                \/ gate'[p].timer # Never
  BY <1>1, <1>2, <1>3 DEF StepShape
<1>5. gate' \in [Providers -> ProviderState]
  BY <1>1, <1>4 DEF StepShape
<1>6. posted' \subseteq Requests
  BY <1>5, PostedType DEF IInv
<1> QED
  BY <1>1, <1>4, <1>5, <1>6 DEF IInv, TypeOK, NoSlotHeldByTheDead, NoLostWakeup, StepShape

LEMMA InductiveInvariant == Spec => []IInv
<1>1. IInv /\ UNCHANGED vars => IInv'
  BY DEF IInv, TypeOK, NoSlotHeldByTheDead, NoLostWakeup, vars
<1>2. IInv /\ [Next]_vars => IInv'
  BY <1>1, NextIInv
<1> QED BY InitIInv, <1>2, PTL DEF Spec

(* The state of every provider keeps its type, timers and ages included.   *)
THEOREM TypeCorrect == Spec => []TypeOK
<1>1. IInv => TypeOK
  BY DEF IInv
<1> QED BY <1>1, InductiveInvariant, PTL

(* Waiting always has a cause that will end it: no handler of the gate     *)
(* forgets to pump, for any number of providers, callers and limits.       *)
THEOREM WakeupsAreNeverLost == Spec => []NoLostWakeup
<1>1. IInv => NoLostWakeup
  BY DEF IInv
<1> QED BY <1>1, InductiveInvariant, PTL

(* reclaim: a destroyed caller holds no slot of any provider.              *)
THEOREM TheDeadHoldNothing == Spec => []NoSlotHeldByTheDead
<1>1. IInv => NoSlotHeldByTheDead
  BY DEF IInv
<1> QED BY <1>1, InductiveInvariant, PTL

(* No step admits beyond the slots of the limit in force, however many it  *)
(* admits at once.                                                         *)
THEOREM AdmissionsWithinSlots == Spec => SlotsWithinLimit
<1>1. ASSUME IInv, Next PROVE AdmitsWithinSlots
  <2>1. StepShape
    BY <1>1, NextShape DEF IInv
  <2> SUFFICES ASSUME NEW p \in Providers
               PROVE  \/ gate'[p].held \subseteq gate[p].held
                      \/ gate'[p].limit.concurrent = 0
                      \/ Cardinality(gate'[p].held) <= gate'[p].limit.concurrent
    BY DEF AdmitsWithinSlots
  <2>2. CASE LeavesQuiet(p)
    BY <2>2 DEF LeavesQuiet
  <2>3. CASE PumpsOf(p)
    <3>1. PICK g \in ProviderState : \E k \in 0..Len(g.waiters) :
              /\ PumpStopsAfter(g, k, alive')
              /\ gate'[p] = Pumped(g, k, alive')
              /\ g.held \subseteq gate[p].held
      BY <2>3 DEF PumpsOf
    <3>2. PICK k \in 0..Len(g.waiters) :
              PumpStopsAfter(g, k, alive') /\ gate'[p] = Pumped(g, k, alive')
      BY <3>1
    <3>3. gate'[p].limit = g.limit /\ gate'[p].held = HeldAfter(g, k, alive')
      BY <3>2 DEF Pumped, ProviderState
    <3> QED BY <3>1, <3>2, <3>3, PumpedWithinSlots
  <2> QED BY <2>1, <2>2, <2>3 DEF StepShape
<1>2. UNCHANGED vars => AdmitsWithinSlots
  BY DEF vars, AdmitsWithinSlots
<1>3. IInv /\ [Next]_vars => [AdmitsWithinSlots]_vars
  BY <1>1
<1> QED BY <1>3, InductiveInvariant, PTL DEF Spec, SlotsWithinLimit

-----------------------------------------------------------------------------
(* The line in front of a provider: whoever stands in it stands there once *)
(* and holds none of its slots.  No state property the runs check says it, *)
(* yet without it a request could be admitted from one place and still be  *)
(* found at another, ahead of the ones it overtook.                        *)
OneByOne(q) == \A i, j \in DOMAIN q : q[i] = q[j] => i = j

InLine(g) ==
    /\ OneByOne(g.waiters)
    /\ \A i \in DOMAIN g.waiters : g.waiters[i] \notin g.held

LinesAreStraight == \A p \in Providers : InLine(gate[p])

(* A state that is about to be pumped is in line when the one it was       *)
(* computed from is: the newcomer is not in that line and holds no slot.   *)
LEMMA JoinedInLine ==
    ASSUME NEW p \in Providers, gate[p] \in ProviderState, InLine(gate[p]),
           NEW g \in ProviderState, g.held \subseteq gate[p].held, Joined(p, g)
    PROVE  /\ InLine(g)
           /\ \A i \in DOMAIN gate[p].waiters :
                 i \in DOMAIN g.waiters /\ g.waiters[i] = gate[p].waiters[i]
<1> DEFINE w == gate[p].waiters
<1>1. w \in Seq(Requests) /\ g.waiters \in Seq(Requests)
  BY DEF ProviderState
<1>2. CASE g.waiters = w
  BY <1>2 DEF InLine
<1>3. ASSUME NEW r \in Requests \ gate[p].held, ~Waiting(p, r), g.waiters = Append(w, r)
      PROVE  /\ InLine(g)
             /\ \A i \in DOMAIN w : i \in DOMAIN g.waiters /\ g.waiters[i] = w[i]
  <2> DEFINE n == Len(w)
  <2>1. n \in Nat /\ DOMAIN w = 1..n
    BY <1>1
  <2>2. /\ DOMAIN g.waiters = 1..(n + 1)
        /\ g.waiters[n + 1] = r
        /\ \A i \in 1..n : g.waiters[i] = w[i]
    BY <1>1, <1>3
  <2>3. \A i \in 1..n : w[i] # r
    BY <1>3, <2>1 DEF Waiting
  <2>4. OneByOne(w) /\ \A i \in 1..n : w[i] \notin gate[p].held
    BY <2>1 DEF InLine
  <2> HIDE DEF w, n
  <2>5. \A i \in 1..(n + 1) : i \in 1..n \/ i = n + 1
    BY <2>1
  <2>6. OneByOne(g.waiters)
    <3> SUFFICES ASSUME NEW i \in 1..(n + 1), NEW j \in 1..(n + 1),
                        g.waiters[i] = g.waiters[j]
                 PROVE  i = j
      BY <2>2 DEF OneByOne
    <3> QED BY <2>1, <2>2, <2>3, <2>4, <2>5 DEF OneByOne
  <2>7. \A i \in 1..(n + 1) : g.waiters[i] \notin g.held
    BY <1>3, <2>2, <2>4, <2>5
  <2>8. 1..n \subseteq 1..(n + 1)
    BY <2>1
  <2> QED BY <2>1, <2>2, <2>6, <2>7, <2>8 DEF InLine
<1> QED BY <1>2, <1>3 DEF Joined

(* Where the places and the slots of a pumped state come from.             *)
LEMMA PumpedPlaces ==
    ASSUME NEW g \in ProviderState, NEW k \in 0..Len(g.waiters), NEW living
    PROVE  LET h == Pumped(g, k, living) IN
           /\ \A i \in DOMAIN h.waiters :
                 /\ i \in Nat /\ k + i \in DOMAIN g.waiters /\ i > 0
                 /\ h.waiters[i] = g.waiters[k + i]
           /\ \A r \in h.held :
                 r \in g.held \/ \E m \in DOMAIN g.waiters : m <= k /\ g.waiters[m] = r
<1> DEFINE h == Pumped(g, k, living)
<1>1. /\ g.waiters \in Seq(Requests)
      /\ Len(g.waiters) \in Nat
      /\ DOMAIN g.waiters = 1..Len(g.waiters)
      /\ DOMAIN g = {"limit", "held", "sinceLast", "admissions", "waiters", "timer"}
  BY DEF ProviderState
<1>2. /\ h.waiters = SubSeq(g.waiters, k + 1, Len(g.waiters))
      /\ h.held = HeldAfter(g, k, living)
  BY <1>1 DEF Pumped
<1> HIDE DEF h
<1>3. \A i \in DOMAIN h.waiters :
          /\ i \in Nat /\ k + i \in DOMAIN g.waiters /\ i > 0
          /\ h.waiters[i] = g.waiters[k + i]
  BY <1>1, <1>2
<1>4. \A r \in h.held :
          r \in g.held \/ \E m \in DOMAIN g.waiters : m <= k /\ g.waiters[m] = r
  BY <1>1, <1>2 DEF HeldAfter, Living
<1> QED BY <1>3, <1>4 DEF h

LEMMA PumpedInLine ==
    ASSUME NEW g \in ProviderState, NEW k \in 0..Len(g.waiters), NEW living, InLine(g)
    PROVE  InLine(Pumped(g, k, living))
<1> DEFINE h == Pumped(g, k, living)
<1>1. /\ \A i \in DOMAIN h.waiters :
            /\ i \in Nat /\ k + i \in DOMAIN g.waiters /\ i > 0
            /\ h.waiters[i] = g.waiters[k + i]
      /\ \A r \in h.held :
            r \in g.held \/ \E m \in DOMAIN g.waiters : m <= k /\ g.waiters[m] = r
  BY PumpedPlaces
<1>2. k \in Nat /\ DOMAIN g.waiters \subseteq Nat
  BY DEF ProviderState
<1> HIDE DEF h
<1>3. OneByOne(h.waiters)
  <2> SUFFICES ASSUME NEW i \in DOMAIN h.waiters, NEW j \in DOMAIN h.waiters,
                      h.waiters[i] = h.waiters[j]
               PROVE  i = j
    BY DEF OneByOne
  <2>1. k + i = k + j
    BY <1>1 DEF InLine, OneByOne
  <2> QED BY <1>1, <1>2, <2>1
<1>4. ASSUME NEW i \in DOMAIN h.waiters PROVE h.waiters[i] \notin h.held
  <2> SUFFICES ASSUME h.waiters[i] \in h.held PROVE FALSE
    OBVIOUS
  <2>1. i \in Nat /\ i > 0 /\ k + i \in DOMAIN g.waiters /\ h.waiters[i] = g.waiters[k + i]
    BY <1>1
  <2>2. g.waiters[k + i] \notin g.held
    BY <2>1 DEF InLine
  <2>3. PICK m \in DOMAIN g.waiters : m <= k /\ g.waiters[m] = g.waiters[k + i]
    BY <1>1, <2>1, <2>2
  <2>4. m = k + i
    BY <2>1, <2>3 DEF InLine, OneByOne
  <2> QED BY <1>2, <2>1, <2>3, <2>4
<1> QED BY <1>3, <1>4 DEF InLine, h

(* Each step leaves every line straight and lets nobody overtake.          *)
LEMMA PumpedFairly ==
    ASSUME IInv, LinesAreStraight, NEW p \in Providers, PumpsOf(p)
    PROVE  InLine(gate'[p]) /\ \A r, s \in Requests : ~Overtakes(p, r, s)
<1>1. PICK g \in ProviderState : \E k \in 0..Len(g.waiters) :
          /\ gate'[p] = Pumped(g, k, alive')
          /\ g.held \subseteq gate[p].held
          /\ Joined(p, g)
  BY DEF PumpsOf
<1>2. PICK k \in 0..Len(g.waiters) : gate'[p] = Pumped(g, k, alive')
  BY <1>1
<1>3. gate[p] \in ProviderState /\ InLine(gate[p])
  BY DEF IInv, TypeOK, LinesAreStraight
<1>4. /\ InLine(g)
      /\ \A i \in DOMAIN gate[p].waiters :
            i \in DOMAIN g.waiters /\ g.waiters[i] = gate[p].waiters[i]
  BY <1>1, <1>3, JoinedInLine
<1>5. InLine(gate'[p])
  BY <1>2, <1>4, PumpedInLine
<1>6. ASSUME NEW r \in Requests, NEW s \in Requests, Overtakes(p, r, s) PROVE FALSE
  <2>1. PICK i \in DOMAIN gate[p].waiters, j \in DOMAIN gate[p].waiters :
            i < j /\ gate[p].waiters[i] = s /\ gate[p].waiters[j] = r
    BY <1>6 DEF Overtakes
  <2>2. /\ i \in DOMAIN g.waiters /\ g.waiters[i] = s
        /\ j \in DOMAIN g.waiters /\ g.waiters[j] = r
    BY <1>4, <2>1
  <2>3. /\ \A l \in DOMAIN gate'[p].waiters :
              /\ l \in Nat /\ k + l \in DOMAIN g.waiters /\ l > 0
              /\ gate'[p].waiters[l] = g.waiters[k + l]
        /\ \A q \in gate'[p].held :
              q \in g.held \/ \E m \in DOMAIN g.waiters : m <= k /\ g.waiters[m] = q
    BY <1>2, PumpedPlaces
  <2>4. PICK l \in DOMAIN gate'[p].waiters : gate'[p].waiters[l] = s
    BY <1>6 DEF Overtakes
  <2>5. i = k + l /\ l \in Nat
    BY <1>4, <2>2, <2>3, <2>4 DEF InLine, OneByOne
  <2>6. r \in gate'[p].held /\ r \notin g.held
    BY <1>4, <1>6, <2>2 DEF InLine, Overtakes
  <2>7. PICK m \in DOMAIN g.waiters : m <= k /\ g.waiters[m] = r
    BY <2>3, <2>6
  <2>8. m = j
    BY <1>4, <2>2, <2>7 DEF InLine, OneByOne
  <2>9. j \in Nat /\ k \in Nat
    BY <2>2 DEF ProviderState
  <2> QED BY <2>1, <2>5, <2>7, <2>8, <2>9
<1> QED BY <1>5, <1>6

LEMMA QuietFairly ==
    ASSUME IInv, LinesAreStraight, NEW p \in Providers, LeavesQuiet(p)
    PROVE  InLine(gate'[p]) /\ \A r, s \in Requests : ~Overtakes(p, r, s)
<1>1. InLine(gate[p]) /\ gate'[p].held = gate[p].held
  BY DEF LinesAreStraight, LeavesQuiet
<1>2. PICK f \in [DOMAIN gate'[p].waiters -> DOMAIN gate[p].waiters] :
          /\ \A i, j \in DOMAIN gate'[p].waiters : f[i] = f[j] => i = j
          /\ \A i \in DOMAIN gate'[p].waiters : gate'[p].waiters[i] = gate[p].waiters[f[i]]
  BY DEF LeavesQuiet, PlacesOf
<1>3. InLine(gate'[p])
  BY <1>1, <1>2 DEF InLine, OneByOne
<1>4. ASSUME NEW r \in Requests, NEW s \in Requests, Overtakes(p, r, s) PROVE FALSE
  BY <1>1, <1>4 DEF Overtakes, InLine
<1> QED BY <1>3, <1>4

LEMMA StepIsFair ==
    ASSUME IInv, LinesAreStraight, Next
    PROVE  /\ LinesAreStraight'
           /\ \A p \in Providers : \A r, s \in Requests : ~Overtakes(p, r, s)
<1>1. StepShape
  BY NextShape DEF IInv
<1>2. \A p \in Providers : InLine(gate'[p]) /\ \A r, s \in Requests : ~Overtakes(p, r, s)
  BY <1>1, PumpedFairly, QuietFairly DEF StepShape
<1> QED BY <1>2 DEF LinesAreStraight, InLine, OneByOne

LEMMA LinesStayStraight == Spec => []LinesAreStraight
<1>1. Init => LinesAreStraight
  BY DEF Init, Fresh, LinesAreStraight, InLine, OneByOne
<1>2. LinesAreStraight /\ UNCHANGED vars => LinesAreStraight'
  BY DEF LinesAreStraight, InLine, OneByOne, vars
<1>3. IInv /\ LinesAreStraight /\ [Next]_vars => LinesAreStraight'
  BY <1>2, StepIsFair
<1> QED BY <1>1, <1>3, InductiveInvariant, PTL DEF Spec

(* pump serves a provider's queue in its order: however many it admits in  *)
(* one call, whoever dies or withdraws in between and whatever the limits  *)
(* become, nobody is admitted past a caller that keeps its place.          *)
THEOREM NobodyOvertakes == Spec => FirstComeFirstServed
<1> DEFINE Fair == \A p \in Providers : \A r, s \in Requests : ~Overtakes(p, r, s)
<1>1. IInv /\ LinesAreStraight /\ [Next]_vars => [Fair]_vars
  BY StepIsFair
<1> QED BY <1>1, LinesStayStraight, InductiveInvariant, PTL DEF Spec, FirstComeFirstServed
=============================================================================
