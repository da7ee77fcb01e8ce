------------------------- MODULE MotionManagerProofs ------------------------
(***************************************************************************)
(* The motion manager and its contact schedules, proved for every horizon, *)
(* every standing phase between gaits, all intervals between solves, all   *)
(* commands within their limits and all velocities of the base.            *)
(*                                                                         *)
(* The argument: every operation of the gait schedule takes a plan to a    *)
(* plan.  A Plan is a sound schedule whose events ascend pairwise (not     *)
(* only from one to the next: what makes the binary searches right), in    *)
(* which no swing phase is followed by one with the same contacts, and     *)
(* whose mode before the last is not the first of a gait, so that tiling   *)
(* on where the last tiling ended does not repeat it.  Between the steps   *)
(* of an operation it is an OpenPlan, which needs neither events nor a     *)
(* standing phase at its end.  Each operation also keeps the modes up to   *)
(* the time it works at, and no left stance gets longer than those of the  *)
(* gaits: that is what PlanKept rests on.  SwingKept needs to know for how *)
(* long a foot can be in the air: a bound on the flights of the schedule   *)
(* that depends on how fast gaits may follow each other.                   *)
(***************************************************************************)
EXTENDS MotionManager, FiniteSetTheorems, SequenceTheorems, TLAPS

Ascending(times) == \A i, j \in DOMAIN times : i < j => times[i] < times[j]

(* A mode that goes on in the next phase is standing, or a flight.         *)
NoRepeats(modes) ==
    \A i \in 1 .. Len(modes) - 1 :
        modes[i] = modes[i + 1] => modes[i] \in {"STANCE", "FLY"}

(* The longest stance on the left foot: that of slow_walk.                 *)
LeftStance == 13

(* No stance on the left foot of a schedule lasts longer, but for the ones *)
(* at its ends.                                                            *)
ShortStances(s) ==
    \A i \in 1 .. Len(s.events) - 1 :
        s.modes[i + 1] = "LF" => s.events[i + 1] - s.events[i] <= LeftStance

(* One period of a gait with n phases.                                     *)
Template(t, n) ==
    /\ Len(t.modes) = n
    /\ t.modes \in [1 .. n -> ModeNumber] /\ t.times \in [1 .. n + 1 -> Nat]
    /\ t.times[1] = 0
    /\ \A i, j \in 1 .. n + 1 : i < j => t.times[i] < t.times[j]
    /\ \A i \in 1 .. n - 1 : t.modes[i] # t.modes[i + 1]
    /\ t.modes[1] \in {"LF", "STANCE"} /\ t.modes[n] # "LF"
    /\ \A i \in 1 .. n :
           t.modes[i] = "LF" => t.times[i + 1] - t.times[i] <= LeftStance

Schedule == [events : Seq(Int), modes : Seq(ModeNumber)]

(* A schedule under construction.                                          *)
OpenPlan(s) ==
    /\ s.events \in Seq(Int) /\ s.modes \in Seq(ModeNumber)
    /\ Len(s.modes) = Len(s.events) + 1
    /\ Ascending(s.events)
    /\ s.modes[1] = "STANCE"
    /\ NoRepeats(s.modes) /\ s.modes[Len(s.modes)] # "LF"
    /\ ShortStances(s)

(* A schedule as the solver finds it.                                      *)
Plan(s) ==
    /\ s \in Schedule
    /\ s.events # <<>> /\ Len(s.modes) = Len(s.events) + 1
    /\ Ascending(s.events)
    /\ s.modes[1] = "STANCE" /\ s.modes[Len(s.modes)] = "STANCE"
    /\ NoRepeats(s.modes) /\ s.modes[Len(s.events)] # "LF"
    /\ ShortStances(s)

(* The schedule s with a tiling from a start on.                           *)
Extends(p, s, start) ==
    /\ Len(s.events) + 1 <= Len(p.events)
    /\ \A i \in 1 .. Len(s.events) : p.events[i] = s.events[i]
    /\ p.events[Len(s.events) + 1] = start
    /\ \A i \in 1 .. Len(s.events) + 1 : p.modes[i] = s.modes[i]

(* Seven tenths of the horizon: a gait is inserted at the first event      *)
(* after them, or at the beginning of the left stance that ends there.     *)
Lead == (7 * Horizon) \div 10

(* Until here the modes of a plan survive the insertion of a gait.         *)
Kept == Lead + 1 - LeftStance

Commands == [x : -200 .. 200, y : -200 .. 200, yaw : -200 .. 200]

(* The first event is the one of reference.info, at 0.5 s, or past.        *)
FirstEvent == IF elapsed >= 10 THEN 0 ELSE 10 - elapsed

(* The inductive invariant.                                                *)
MotionInv ==
    /\ Plan(schedule) /\ Plan(published) /\ thrown = FALSE
    /\ currentGaitMode_ \in 0 .. 6
    /\ template = Config(currentGaitMode_).gaitCommand
    /\ elapsed \in 0 .. TilingEnd /\ sinceChange \in 0 .. ChangeMemory
    /\ command \in Commands /\ age \in FilterAges /\ due \in BOOLEAN
    /\ schedule.events[1] <= FirstEvent /\ published.events[1] <= FirstEvent
    /\ ~due => Last(published.events) >= 2 * Horizon

-----------------------------------------------------------------------------
(* Division, in a form without a quotient of unknowns.                     *)
LEMMA DivFacts ==
    ASSUME NEW a \in Int, NEW b \in Nat, b > 0
    PROVE /\ a \div b \in Int /\ (a \div b) * b <= a /\ a < (a \div b) * b + b
OBVIOUS

(* Products are left as unknowns but for this.                             *)
LEMMA Products ==
    ASSUME NEW a \in Int, NEW b \in Int, NEW p \in Nat, a < b
    PROVE a * p + p <= b * p
OBVIOUS

(* The tiles are laid in the order of their indices.                       *)
LEMMA QuotientsAscend ==
    ASSUME NEW n \in {1, 2, 4}, NEW i \in Nat, NEW j \in Nat, i < j
    PROVE  /\ i \div n \in Nat /\ i % n \in 0 .. n - 1
           /\ i \div n < j \div n \/ (i \div n = j \div n /\ i % n < j % n)
OBVIOUS

(* Each tile is followed by the next one of its template.                  *)
LEMMA Successor ==
    ASSUME NEW n \in {1, 2, 4}, NEW i \in Nat
    PROVE  IF i % n = n - 1 THEN (i + 1) % n = 0 ELSE (i + 1) % n = (i % n) + 1
OBVIOUS

(* Each tile follows the one before it.                                    *)
LEMMA Predecessor ==
    ASSUME NEW n \in {1, 2, 4}, NEW i \in Nat, i > 0
    PROVE  IF i % n = 0
           THEN (i - 1) % n = n - 1 /\ i \div n = ((i - 1) \div n) + 1
           ELSE (i - 1) % n = (i % n) - 1 /\ i \div n = (i - 1) \div n
OBVIOUS

(* The last tile ends a template.                                          *)
LEMMA LastTile ==
    ASSUME NEW n \in {1, 2, 4}, NEW r \in Nat, r > 0
    PROVE  n * r - 1 >= 0 /\ (n * r - 1) \div n = r - 1 /\ (n * r - 1) % n = n - 1
OBVIOUS

(* A set of indices closed downwards is an interval, and its cardinality   *)
(* is its end: counting is searching.                                      *)
LEMMA PrefixIsInterval ==
    ASSUME NEW n \in Nat, NEW S \in SUBSET (1 .. n),
           \A i \in S, j \in 1 .. n : j < i => j \in S
    PROVE  Cardinality(S) \in 0 .. n /\ S = 1 .. Cardinality(S)
<1> DEFINE k == Cardinality(S)
<1>1. /\ IsFiniteSet(1 .. n) /\ Cardinality(1 .. n) = n
  BY FS_Interval
<1>2. IsFiniteSet(S) /\ k \in Nat /\ k <= n
  BY <1>1, FS_Subset, FS_CardinalityType
<1> HIDE DEF k
<1>3. IsFiniteSet(1 .. k) /\ Cardinality(1 .. k) = k
  BY <1>2, FS_Interval
<1>4. S \subseteq 1 .. k
  <2> SUFFICES ASSUME NEW m \in S PROVE m <= k
    BY <1>2
  <2>1. 1 .. m \subseteq S
    OBVIOUS
  <2>2. Cardinality(1 .. m) = m
    BY FS_Interval
  <2>3. Cardinality(1 .. m) <= Cardinality(S)
    BY <1>2, <2>1, FS_Subset
  <2> QED
    BY <2>2, <2>3 DEF k
<1>5. S = 1 .. k
  BY <1>3, <1>4, FS_Subset DEF k
<1> QED
  BY <1>2, <1>5 DEF k

(* What Max chooses.                                                       *)
LEMMA GreatestExists ==
    ASSUME NEW n \in Nat, NEW S \in SUBSET (0 .. n), S # {}
    PROVE  Max(S) \in S /\ \A x \in S : x <= Max(S)
<1> DEFINE T == {x \in 1 .. n : \E y \in S : x <= y}
<1>1. PICK k \in 0 .. n : T = 1 .. k
  <2>1. T \in SUBSET (1 .. n) /\ \A i \in T, j \in 1 .. n : j < i => j \in T
    OBVIOUS
  <2> HIDE DEF T
  <2> QED
    BY <2>1, PrefixIsInterval
<1>0. \A x \in 1 .. n : x \in T <=> \E y \in S : x <= y
  OBVIOUS
<1> HIDE DEF T
<1>2. \A y \in S : y <= k
  BY <1>0, <1>1
<1>3. k \in S
  <2>1. CASE k = 0
    <3>1. PICK y \in S : y <= k
      BY <1>2
    <3>2. y = k
      BY <2>1, <3>1
    <3> QED
      BY <3>2
  <2>2. CASE k > 0
    <3>1. k \in T /\ k \in 1 .. n
      BY <1>1, <2>2
    <3>2. PICK y \in S : k <= y
      BY <1>0, <3>1
    <3>3. y = k
      BY <1>2, <3>2
    <3> QED
      BY <3>3
  <2> QED
    BY <2>1, <2>2
<1>4. \E x \in S : \A y \in S : x >= y
  BY <1>2, <1>3
<1> QED
  BY <1>4 DEF Max

(* What Min chooses.                                                       *)
LEMMA LeastExists ==
    ASSUME NEW n \in Nat, NEW S \in SUBSET (1 .. n), S # {}
    PROVE  Min(S) \in S /\ \A x \in S : Min(S) <= x
<1> DEFINE T == {x \in 1 .. n : \A y \in S : x <= y}
<1>1. PICK k \in 0 .. n : T = 1 .. k
  <2>1. T \in SUBSET (1 .. n) /\ \A i \in T, j \in 1 .. n : j < i => j \in T
    OBVIOUS
  <2> HIDE DEF T
  <2> QED
    BY <2>1, PrefixIsInterval
<1>0. \A x \in 1 .. n : x \in T <=> \A y \in S : x <= y
  OBVIOUS
<1> HIDE DEF T
<1>2. n >= 1 /\ 1 \in T
  <2>1. PICK y \in S : TRUE
    OBVIOUS
  <2> QED
    BY <1>0, <2>1
<1>3. k \in 1 .. n /\ \A y \in S : k <= y
  BY <1>0, <1>1, <1>2
<1>4. k \in S
  <2> SUFFICES ASSUME k \notin S PROVE FALSE
    OBVIOUS
  <2>1. \A y \in S : k + 1 <= y
    BY <1>3
  <2>2. k + 1 \in 1 .. n
    <3>1. PICK y \in S : k + 1 <= y
      BY <2>1
    <3>2. y <= n
      OBVIOUS
    <3> QED
      BY <1>3, <3>1, <3>2
  <2>3. k + 1 \in T
    BY <1>0, <2>1, <2>2
  <2>4. k + 1 \in 1 .. k
    BY <1>1, <2>3
  <2> QED
    BY <1>3, <2>4
<1>5. \E x \in S : \A y \in S : x =< y
  BY <1>3, <1>4
<1> QED
  BY <1>5 DEF Min

(* std::lower_bound and std::upper_bound find their place in ascending     *)
(* times, whatever is searched for.                                        *)
LEMMA Searches ==
    ASSUME NEW times \in Seq(Int), Ascending(times), NEW t \in Int
    PROVE  /\ EventsBefore(times, t) \in 0 .. Len(times)
           /\ EventsUpTo(times, t) \in 0 .. Len(times)
           /\ \A i \in 1 .. Len(times) :
                  /\ i <= EventsBefore(times, t) <=> times[i] < t
                  /\ i <= EventsUpTo(times, t) <=> times[i] <= t
<1> DEFINE n == Len(times)
           B == {i \in 1 .. n : times[i] < t}
           U == {i \in 1 .. n : times[i] <= t}
<1>1. n \in Nat /\ DOMAIN times = 1 .. n /\ \A i \in 1 .. n : times[i] \in Int
  OBVIOUS
<1>2. /\ EventsBefore(times, t) = Cardinality(B)
      /\ EventsUpTo(times, t) = Cardinality(U)
  BY <1>1 DEF EventsBefore, EventsUpTo
<1>4. /\ B \in SUBSET (1 .. n) /\ U \in SUBSET (1 .. n)
      /\ \A i \in 1 .. n : (i \in B <=> times[i] < t) /\ (i \in U <=> times[i] <= t)
  OBVIOUS
<1>0. \A i, j \in 1 .. n : i < j => times[i] < times[j]
  BY <1>1 DEF Ascending
<1> HIDE DEF B, U, n
<1>3. /\ \A i \in B, j \in 1 .. n : j < i => j \in B
      /\ \A i \in U, j \in 1 .. n : j < i => j \in U
  <2>1. ASSUME NEW i \in B, NEW j \in 1 .. n, j < i
        PROVE  j \in B
    <3>1. i \in 1 .. n /\ times[i] < t /\ times[j] < times[i]
      BY <1>0, <1>4, <2>1
    <3> QED
      BY <1>1, <1>4, <3>1
  <2>2. ASSUME NEW i \in U, NEW j \in 1 .. n, j < i
        PROVE  j \in U
    <3>1. i \in 1 .. n /\ times[i] <= t /\ times[j] < times[i]
      BY <1>0, <1>4, <2>2
    <3> QED
      BY <1>1, <1>4, <3>1
  <2> QED
    BY <2>1, <2>2
<1>5. /\ Cardinality(B) \in 0 .. n /\ B = 1 .. Cardinality(B)
      /\ Cardinality(U) \in 0 .. n /\ U = 1 .. Cardinality(U)
  BY <1>1, <1>3, <1>4, PrefixIsInterval
<1> QED
  BY <1>1, <1>2, <1>4, <1>5 DEF n

(* The place found is the only one.                                        *)
LEMMA CountIs ==
    ASSUME NEW times \in Seq(Int), Ascending(times), NEW t \in Int,
           NEW c \in 0 .. Len(times),
           \A i \in 1 .. Len(times) : i <= c <=> times[i] < t
    PROVE  EventsBefore(times, t) = c
<1> DEFINE b == EventsBefore(times, t)
           n == Len(times)
<1>1. b \in 0 .. n /\ \A i \in 1 .. n : i <= b <=> times[i] < t
  BY Searches
<1>2. n \in Nat /\ c \in 0 .. n /\ \A i \in 1 .. n : i <= b <=> i <= c
  BY <1>1
<1> HIDE DEF b, n
<1>3. ~(b < c)
  <2> SUFFICES ASSUME b < c PROVE FALSE
    OBVIOUS
  <2>1. c \in 1 .. n /\ ~(c <= b)
    BY <1>1, <1>2
  <2> QED
    BY <1>2, <2>1
<1>4. ~(c < b)
  <2> SUFFICES ASSUME c < b PROVE FALSE
    OBVIOUS
  <2>1. b \in 1 .. n /\ ~(b <= c) /\ b <= b
    BY <1>1, <1>2
  <2>2. b <= b <=> b <= c
    BY <1>2, <2>1
  <2> QED
    BY <2>1, <2>2
<1>5. b \in Nat /\ c \in Nat
  BY <1>1, <1>2
<1>6. b = c
  BY <1>3, <1>4, <1>5
<1> QED
  BY <1>6 DEF b

(* What is tiled from a start on leaves the modes until then alone.        *)
LEMMA ExtendsKeeps ==
    ASSUME NEW p, NEW s, NEW start \in Int, Extends(p, s, start),
           p.events \in Seq(Int), Ascending(p.events),
           s.events \in Seq(Int), Ascending(s.events),
           NEW x \in Int, x <= start
    PROVE  ModeAtTime(p, x) = ModeAtTime(s, x)
<1> DEFINE m == Len(s.events)
           l == Len(p.events)
           b == EventsBefore(s.events, x)
<1>1. b \in 0 .. m /\ \A i \in 1 .. m : i <= b <=> s.events[i] < x
  BY Searches
<1>2. /\ m \in Nat /\ l \in Nat /\ m + 1 <= l
      /\ \A i \in 1 .. m : p.events[i] = s.events[i]
      /\ p.events[m + 1] = start
      /\ \A i \in 1 .. m + 1 : p.modes[i] = s.modes[i]
      /\ DOMAIN p.events = 1 .. l
      /\ \A i \in 1 .. l : p.events[i] \in Int
  BY DEF Extends
<1> HIDE DEF m, l, b
<1>3. ASSUME NEW i \in 1 .. l
      PROVE  i <= b <=> p.events[i] < x
  <2>1. CASE i \in 1 .. m
    BY <1>1, <1>2, <2>1
  <2>2. CASE i \notin 1 .. m
    <3>1. ~(i <= b) /\ m + 1 \in 1 .. l /\ (i = m + 1 \/ m + 1 < i)
      BY <1>1, <1>2, <2>2
    <3>2. i = m + 1 \/ start < p.events[i]
      BY <1>2, <3>1 DEF Ascending
    <3>3. ~(p.events[i] < x)
      BY <1>2, <3>2
    <3> QED
      BY <3>1, <3>3
  <2> QED
    BY <2>1, <2>2
<1>4. EventsBefore(p.events, x) = b
  <2>1. b \in 0 .. Len(p.events)
    BY <1>1, <1>2 DEF l
  <2>2. \A i \in 1 .. Len(p.events) : i <= b <=> p.events[i] < x
    BY <1>3 DEF l
  <2> QED
    BY <2>1, <2>2, CountIs
<1>5. b + 1 \in 1 .. m + 1
  BY <1>1, <1>2
<1> QED
  BY <1>2, <1>4, <1>5 DEF ModeAtTime, PhaseAt, b

(* Every gait of gait.info is a template.                                  *)
LEMMA GaitMapTemplates ==
    ASSUME NEW gait \in DOMAIN GaitMap
    PROVE  \E n \in {1, 2, 4} : Template(GaitMap[gait], n)
<1>1. CASE gait = "stance"
  BY <1>1 DEF GaitMap, Template, ModeNumber, LeftStance
<1>2. CASE gait \in {"slow_walk", "walk"}
  <2>1. Template(GaitMap["slow_walk"], 4)
    BY DEF GaitMap, Template, ModeNumber, LeftStance
  <2>2. Template(GaitMap["walk"], 4)
    BY DEF GaitMap, Template, ModeNumber, LeftStance
  <2> QED
    BY <1>2, <2>1, <2>2
<1>3. CASE gait \in {"slower_trot", "slow_trot", "trot"}
  <2>1. Template(GaitMap["slower_trot"], 2)
    BY DEF GaitMap, Template, ModeNumber, LeftStance
  <2>2. Template(GaitMap["slow_trot"], 2)
    BY DEF GaitMap, Template, ModeNumber, LeftStance
  <2>3. Template(GaitMap["trot"], 2)
    BY DEF GaitMap, Template, ModeNumber, LeftStance
  <2> QED
    BY <1>3, <2>1, <2>2, <2>3
<1>4. CASE gait = "run"
  BY <1>4 DEF GaitMap, Template, ModeNumber, LeftStance
<1> QED
  BY <1>1, <1>2, <1>3, <1>4 DEF GaitMap

(* The tiling does not stop before its final time.                         *)
LEMMA RepetitionsReach ==
    ASSUME NEW start \in Int, NEW final \in Int, NEW period \in Nat, period > 0
    PROVE  /\ Repetitions(start, final, period) \in Nat
           /\ Repetitions(start, final, period) = 0 => start >= final
           /\ start + Repetitions(start, final, period) * period >= final
<1> DEFINE a == final - start + period - 1
           q == a \div period
<1>1. CASE start < final
  <2>1. /\ a \in Int /\ a >= period
    BY <1>1
  <2> HIDE DEF a
  <2>2. q \in Int /\ a < q * period + period
    BY <2>1, DivFacts
  <2>3. q >= 1
    <3> SUFFICES ASSUME q < 1 PROVE FALSE
      BY <2>2
    <3>1. q * period + period <= 1 * period
      BY <2>2, Products
    <3> QED
      BY <2>1, <2>2, <3>1
  <2> DEFINE x == q * period
  <2>4. x \in Int /\ a < x + period
    BY <2>2
  <2>5. Repetitions(start, final, period) = q
    BY <1>1 DEF Repetitions, a
  <2> HIDE DEF x, q
  <2>6. start + x >= final
    BY <2>4 DEF a
  <2> QED
    BY <2>2, <2>3, <2>5, <2>6 DEF x
<1>2. CASE ~(start < final)
  BY <1>2 DEF Repetitions
<1> QED
  BY <1>1, <1>2

(* The times at which the tiles end ascend, the last at a whole period.    *)
LEMMA TileTimes ==
    ASSUME NEW n \in {1, 2, 4}, NEW t, Template(t, n), NEW start \in Int,
           NEW r \in Nat
    PROVE  LET time(i) == start + ((i - 1) \div n) * t.times[n + 1]
                               + t.times[((i - 1) % n) + 2]
           IN  /\ \A i \in 1 .. n * r : time(i) \in Int /\ start < time(i)
               /\ \A i, j \in 1 .. n * r : i < j => time(i) < time(j)
               /\ r > 0 => time(n * r) = start + r * t.times[n + 1]
<1> DEFINE period == t.times[n + 1]
           q(i) == (i - 1) \div n
           x(i) == q(i) * period
           y(i) == t.times[((i - 1) % n) + 2]
<1>1. period \in Nat /\ period > 0 /\ n * r \in Nat
  <2>1. t.times[1] = 0 /\ t.times[1] < period /\ period \in Nat
    BY DEF Template
  <2> QED
    BY <2>1
<1>2. ASSUME NEW i \in 1 .. n * r
      PROVE  /\ q(i) \in Nat /\ (i - 1) % n \in 0 .. n - 1
             /\ x(i) \in Nat /\ y(i) \in 1 .. period
  <2>1. i \in Nat /\ i - 1 \in Nat
    BY <1>1
  <2>2. q(i) \in Nat /\ (i - 1) % n \in 0 .. n - 1
    BY <2>1
  <2>3. ((i - 1) % n) + 2 \in 2 .. n + 1
    BY <2>2
  <2>4. y(i) \in 1 .. period
    <3> DEFINE c == ((i - 1) % n) + 2
    <3>1. c \in 2 .. n + 1 /\ y(i) = t.times[c]
      BY <2>3
    <3> HIDE DEF c, y
    <3>2. /\ 1 \in 1 .. n + 1 /\ c \in 1 .. n + 1 /\ 1 < c
          /\ n + 1 \in 1 .. n + 1 /\ (c = n + 1 \/ c < n + 1)
      BY <3>1
    <3>3. /\ t.times \in [1 .. n + 1 -> Nat] /\ t.times[1] = 0
          /\ t.times[1] < t.times[c]
          /\ c = n + 1 \/ t.times[c] < t.times[n + 1]
      BY <3>2 DEF Template
    <3>4. t.times[c] \in Nat /\ t.times[n + 1] \in Nat
      BY <3>2, <3>3
    <3> QED
      BY <3>1, <3>3, <3>4
  <2>5. x(i) \in Nat
    BY <1>1, <2>2
  <2> QED
    BY <2>2, <2>4, <2>5
<1>3. ASSUME NEW i \in 1 .. n * r, NEW j \in 1 .. n * r, i < j
      PROVE  x(i) + y(i) < x(j) + y(j)
  <2>1. i - 1 \in Nat /\ j - 1 \in Nat /\ i - 1 < j - 1
    BY <1>1, <1>3
  <2>2. q(i) < q(j) \/ (q(i) = q(j) /\ (i - 1) % n < (j - 1) % n)
    BY <2>1, QuotientsAscend
  <2>3. CASE q(i) < q(j)
    <3>1. x(i) + period <= x(j)
      BY <1>1, <1>2, <2>3, Products
    <3> HIDE DEF x, y, q, period
    <3> QED
      BY <1>1, <1>2, <3>1
  <2>4. CASE q(i) = q(j) /\ (i - 1) % n < (j - 1) % n
    <3> DEFINE a == (i - 1) % n
               b == (j - 1) % n
    <3>3. a \in 0 .. n - 1 /\ b \in 0 .. n - 1 /\ a < b
      BY <1>2, <2>4
    <3> HIDE DEF a, b
    <3>4. a + 2 \in 1 .. n + 1 /\ b + 2 \in 1 .. n + 1 /\ a + 2 < b + 2
      BY <3>3
    <3>5. t.times[a + 2] < t.times[b + 2]
      BY <3>4 DEF Template
    <3>1. y(i) < y(j)
      BY <3>5 DEF a, b
    <3>2. x(i) = x(j)
      BY <2>4
    <3> HIDE DEF x, y, q, period
    <3> QED
      BY <1>1, <1>2, <3>1, <3>2
  <2> QED
    BY <2>2, <2>3, <2>4
<1>4. ASSUME r > 0
      PROVE  x(n * r) + y(n * r) = r * period
  <2>1. q(n * r) = r - 1 /\ (n * r - 1) % n = n - 1
    BY <1>4, LastTile
  <2>2. y(n * r) = period
    BY <2>1
  <2>3. x(n * r) = (r - 1) * period
    BY <2>1
  <2>4. (r - 1) * period + period = r * period
    BY <1>1
  <2> QED
    BY <1>1, <2>2, <2>3, <2>4
<1>5. \A i \in 1 .. n * r : start + x(i) + y(i) \in Int /\ start < start + x(i) + y(i)
  <2> HIDE DEF x, y, q, period
  <2> QED
    BY <1>1, <1>2
<1>6. \A i, j \in 1 .. n * r : i < j => start + x(i) + y(i) < start + x(j) + y(j)
  <2> HIDE DEF x, y, q, period
  <2> QED
    BY <1>1, <1>2, <1>3
<1>7. r > 0 => start + x(n * r) + y(n * r) = start + r * period
  <2> DEFINE w == r * period
  <2>1. w \in Int /\ (r > 0 => n * r \in 1 .. n * r)
    BY <1>1
  <2>2. r > 0 => x(n * r) + y(n * r) = w
    BY <1>4
  <2>3. r > 0 => x(n * r) \in Nat /\ y(n * r) \in 1 .. period
    BY <1>2, <2>1
  <2> HIDE DEF x, y, q, w
  <2>4. r > 0 => start + x(n * r) + y(n * r) = start + w
    BY <1>1, <2>1, <2>2, <2>3
  <2> QED
    BY <2>4 DEF w
<1> QED
  BY <1>5, <1>6, <1>7

(* A tile lasts as long as its phase of the template, wherever it is laid. *)
LEMMA TileDurations ==
    ASSUME NEW n \in {1, 2, 4}, NEW t, Template(t, n), NEW start \in Int,
           NEW r \in Nat
    PROVE  LET time(i) == start + ((i - 1) \div n) * t.times[n + 1]
                               + t.times[((i - 1) % n) + 2]
           IN  \A i \in 1 .. n * r :
                   time(i) - (IF i = 1 THEN start ELSE time(i - 1))
                       = t.times[((i - 1) % n) + 2] - t.times[((i - 1) % n) + 1]
<1> DEFINE period == t.times[n + 1]
           q(i) == (i - 1) \div n
           a(i) == (i - 1) % n
           x(i) == q(i) * period
           time(i) == start + x(i) + t.times[a(i) + 2]
           begin(i) == start + x(i) + t.times[a(i) + 1]
<1>1. period \in Nat /\ n * r \in Nat /\ t.times[1] = 0
  BY DEF Template
<1>2. ASSUME NEW i \in 1 .. n * r
      PROVE  /\ q(i) \in Nat /\ a(i) \in 0 .. n - 1 /\ x(i) \in Nat
             /\ t.times[a(i) + 1] \in Nat /\ t.times[a(i) + 2] \in Nat
  <2>1. i \in Nat /\ i - 1 \in Nat
    BY <1>1
  <2>2. q(i) \in Nat /\ a(i) \in 0 .. n - 1
    BY <2>1
  <2>3. a(i) + 1 \in 1 .. n + 1 /\ a(i) + 2 \in 1 .. n + 1
    BY <2>2
  <2>4. x(i) \in Nat
    BY <1>1, <2>2
  <2> QED
    BY <2>2, <2>3, <2>4 DEF Template
<1>3. ASSUME NEW i \in 1 .. n * r
      PROVE  time(i) - begin(i) = t.times[a(i) + 2] - t.times[a(i) + 1]
  <2> HIDE DEF x, a
  <2> QED
    BY <1>2
<1>4. ASSUME NEW i \in 1 .. n * r, i = 1
      PROVE  begin(i) = start
  <2>1. q(i) = 0 /\ a(i) = 0
    BY <1>4
  <2> QED
    BY <1>1, <2>1
<1>5. ASSUME NEW i \in 1 .. n * r, i # 1
      PROVE  begin(i) = time(i - 1)
  <2>1. /\ i - 1 \in Nat /\ i - 1 > 0 /\ i - 1 \in 1 .. n * r
    BY <1>1, <1>5
  <2>2. IF a(i) = 0
        THEN a(i - 1) = n - 1 /\ q(i) = q(i - 1) + 1
        ELSE a(i - 1) = a(i) - 1 /\ q(i) = q(i - 1)
    BY <2>1, Predecessor
  <2>3. CASE a(i) = 0
    <3>1. q(i - 1) \in Nat /\ q(i) = q(i - 1) + 1
      BY <1>2, <2>1, <2>2, <2>3
    <3> HIDE DEF q
    <3>2. x(i) = x(i - 1) + period
      BY <1>1, <3>1
    <3>3. t.times[a(i) + 1] = 0 /\ t.times[a(i - 1) + 2] = period
      BY <1>1, <2>2, <2>3
    <3>4. x(i) \in Nat /\ x(i - 1) \in Nat
      BY <1>2, <2>1
    <3> HIDE DEF x, a
    <3> QED
      BY <1>1, <3>2, <3>3, <3>4
  <2>4. CASE a(i) # 0
    <3>1. x(i) = x(i - 1)
      BY <2>2, <2>4
    <3>2. a(i - 1) + 2 = a(i) + 1
      BY <1>2, <2>1, <2>2, <2>4
    <3> HIDE DEF x, a
    <3> QED
      BY <3>1, <3>2
  <2> QED
    BY <2>3, <2>4
<1> HIDE DEF begin
<1>6. \A i \in 1 .. n * r :
          time(i) - (IF i = 1 THEN start ELSE time(i - 1))
              = t.times[a(i) + 2] - t.times[a(i) + 1]
  BY <1>3, <1>4, <1>5
<1> QED
  BY <1>6

(* No left stance in it is longer than those of the gaits.                 *)
LEMMA TileStances ==
    ASSUME NEW n \in {1, 2, 4}, NEW t, Template(t, n), NEW start \in Int,
           NEW r \in Nat
    PROVE  LET time(i) == start + ((i - 1) \div n) * t.times[n + 1]
                               + t.times[((i - 1) % n) + 2]
               mode(i) == t.modes[((i - 1) % n) + 1]
           IN  \A i \in 1 .. n * r : mode(i) = "LF" =>
                   time(i) - (IF i = 1 THEN start ELSE time(i - 1)) <= LeftStance
<1> DEFINE a(i) == (i - 1) % n
           time(i) == start + ((i - 1) \div n) * t.times[n + 1] + t.times[a(i) + 2]
           mode(i) == t.modes[a(i) + 1]
<1>1. \A i \in 1 .. n * r :
          time(i) - (IF i = 1 THEN start ELSE time(i - 1))
              = t.times[a(i) + 2] - t.times[a(i) + 1]
  BY TileDurations
<1>2. ASSUME NEW i \in 1 .. n * r, mode(i) = "LF"
      PROVE  t.times[a(i) + 2] - t.times[a(i) + 1] <= LeftStance
  <2>1. i - 1 \in Nat
    OBVIOUS
  <2>2. a(i) + 1 \in 1 .. n /\ a(i) + 2 = (a(i) + 1) + 1
    BY <2>1
  <2> HIDE DEF a
  <2> QED
    BY <1>2, <2>2 DEF Template
<1> HIDE DEF time
<1>3. \A i \in 1 .. n * r : mode(i) = "LF" =>
          time(i) - (IF i = 1 THEN start ELSE time(i - 1)) <= LeftStance
  BY <1>1, <1>2
<1> QED
  BY <1>3 DEF time

(* Tiles repeat no mode but standing, from one template to the next too.   *)
LEMMA TileModes ==
    ASSUME NEW n \in {1, 2, 4}, NEW t, Template(t, n), NEW r \in Nat
    PROVE  LET mode(i) == t.modes[((i - 1) % n) + 1]
           IN  /\ \A i \in 1 .. n * r : mode(i) \in ModeNumber
               /\ \A i \in 1 .. n * r - 1 : mode(i) = mode(i + 1) => mode(i) = "STANCE"
               /\ r > 0 => mode(1) \in {"LF", "STANCE"} /\ mode(n * r) # "LF"
<1> DEFINE mode(i) == t.modes[((i - 1) % n) + 1]
<1>1. n * r \in Nat /\ 0 % n = 0
  OBVIOUS
<1>2. ASSUME NEW i \in 1 .. n * r
      PROVE  mode(i) \in ModeNumber
  <2>1. i - 1 \in Nat
    BY <1>1
  <2>2. ((i - 1) % n) + 1 \in 1 .. n
    BY <2>1
  <2> QED
    BY <2>2 DEF Template
<1>3. ASSUME NEW i \in 1 .. n * r - 1
      PROVE  mode(i) = mode(i + 1) => mode(i) = "STANCE"
  <2>1. i - 1 \in Nat /\ (i + 1) - 1 = (i - 1) + 1
    BY <1>1
  <2> DEFINE a == (i - 1) % n
             b == ((i - 1) + 1) % n
  <2>2. mode(i) = t.modes[a + 1] /\ mode(i + 1) = t.modes[b + 1]
    BY <2>1
  <2>3. a \in 0 .. n - 1 /\ IF a = n - 1 THEN b = 0 ELSE b = a + 1
    BY <2>1, Successor
  <2> HIDE DEF a, b, mode
  <2>4. CASE a = n - 1
    BY <2>2, <2>3, <2>4 DEF Template
  <2>5. CASE a # n - 1
    <3>1. a + 1 \in 1 .. n - 1 /\ b + 1 = (a + 1) + 1
      BY <2>3, <2>5
    <3> QED
      BY <2>2, <3>1 DEF Template
  <2> QED
    BY <2>4, <2>5
<1>4. ASSUME r > 0
      PROVE  mode(1) \in {"LF", "STANCE"} /\ mode(n * r) # "LF"
  <2>1. (n * r - 1) % n = n - 1
    BY <1>4, LastTile
  <2>2. mode(1) = t.modes[1] /\ mode(n * r) = t.modes[n]
    BY <1>1, <2>1
  <2> QED
    BY <2>2 DEF Template
<1> QED
  BY <1>2, <1>3, <1>4

(* When tile i of a template with n phases ends, and its mode.             *)
TileTime(t, n, start, i) ==
    start + ((i - 1) \div n) * t.times[n + 1] + t.times[((i - 1) % n) + 2]

TileMode(t, n, i) == t.modes[((i - 1) % n) + 1]

(* The schedule p is s, then a start, then k tiles, then standing.         *)
Tiled(p, s, t, n, start, k) ==
    LET m == Len(s.events)
    IN  /\ p \in Schedule /\ Len(p.events) = m + 1 + k
        /\ \A i \in 1 .. m : p.events[i] = s.events[i]
        /\ p.events[m + 1] = start
        /\ \A i \in 1 .. k : p.events[m + 1 + i] = TileTime(t, n, start, i)
        /\ Len(p.modes) = m + 1 + k + 1
        /\ \A i \in 1 .. m + 1 : p.modes[i] = s.modes[i]
        /\ \A i \in 1 .. k : p.modes[m + 1 + i] = TileMode(t, n, i)
        /\ p.modes[m + 1 + k + 1] = "STANCE"

(* So it is for the tiling of a schedule under construction.               *)
LEMMA TileShape ==
    ASSUME NEW s, OpenPlan(s), NEW n \in {1, 2, 4}, NEW t, Template(t, n),
           NEW start \in Int, NEW final \in Int
    PROVE  Tiled(TileModeSequenceTemplate(s, t, start, final), s, t, n, start,
                 n * Repetitions(start, final, t.times[n + 1]))
<1> DEFINE period == t.times[n + 1]
           r == Repetitions(start, final, period)
           k == n * r
           time(i) == start + ((i - 1) \div n) * period + t.times[((i - 1) % n) + 2]
           mode(i) == t.modes[((i - 1) % n) + 1]
           times == [i \in 1 .. k |-> time(i)]
           tiles == [i \in 1 .. k |-> mode(i)]
           p == TileModeSequenceTemplate(s, t, start, final)
           m == Len(s.events)
<1>1. /\ s.events \in Seq(Int) /\ s.modes \in Seq(ModeNumber)
      /\ m \in Nat /\ Len(s.modes) = m + 1
  BY DEF OpenPlan
<1>2. p = [events |-> (s.events \o <<start>>) \o times,
           modes |-> (s.modes \o tiles) \o <<"STANCE">>]
  BY DEF TileModeSequenceTemplate, Template
<1>3. r \in Nat
  <2>1. t.times[1] = 0 /\ t.times[1] < period /\ period \in Nat
    BY DEF Template
  <2> QED
    BY <2>1, RepetitionsReach
<1>4. k \in Nat
  BY <1>3
<1>5. \A i \in 1 .. k : time(i) \in Int
  BY <1>3, TileTimes
<1>6. \A i \in 1 .. k : mode(i) \in ModeNumber
  BY <1>3, TileModes
<1> HIDE DEF r, k, time, mode, period
<1>8. /\ times \in Seq(Int) /\ Len(times) = k
      /\ tiles \in Seq(ModeNumber) /\ Len(tiles) = k
  <2>1. times \in [1 .. k -> Int] /\ tiles \in [1 .. k -> ModeNumber]
    BY <1>5, <1>6
  <2> HIDE DEF times, tiles
  <2> QED
    BY <1>4, <2>1
<1>9. /\ \A i \in 1 .. k : times[i] = time(i) /\ tiles[i] = mode(i)
  OBVIOUS
<1> HIDE DEF times, tiles, p
<1> DEFINE E == p.events
           M == p.modes
<1>10. /\ E = (s.events \o <<start>>) \o times
       /\ M = (s.modes \o tiles) \o <<"STANCE">>
  BY <1>2
<1>11. /\ E \in Seq(Int) /\ Len(E) = m + 1 + k
       /\ \A i \in 1 .. m : E[i] = s.events[i]
       /\ E[m + 1] = start
       /\ \A i \in 1 .. k : E[m + 1 + i] = time(i)
  <2> DEFINE A == s.events \o <<start>>
  <2>1. /\ A \in Seq(Int) /\ Len(A) = m + 1 /\ A[m + 1] = start
        /\ \A i \in 1 .. m : A[i] = s.events[i]
    BY <1>1
  <2> HIDE DEF A
  <2>2. /\ A \o times \in Seq(Int) /\ Len(A \o times) = m + 1 + k
        /\ \A i \in 1 .. m + 1 + k : (A \o times)[i] =
               IF i <= m + 1 THEN A[i] ELSE times[i - (m + 1)]
    <3>1. /\ A \o times \in Seq(Int) /\ Len(A \o times) = Len(A) + Len(times)
          /\ \A i \in 1 .. Len(A) + Len(times) : (A \o times)[i] =
                 IF i <= Len(A) THEN A[i] ELSE times[i - Len(A)]
      BY <1>8, <2>1, ConcatProperties
    <3> QED
      BY <1>8, <2>1, <3>1
  <2>3. E = A \o times
    BY <1>10 DEF A
  <2> HIDE DEF E, m
  <2>4. ASSUME NEW i \in 1 .. k PROVE E[m + 1 + i] = time(i)
    <3>1. /\ m + 1 + i \in 1 .. m + 1 + k /\ ~(m + 1 + i <= m + 1)
          /\ (m + 1 + i) - (m + 1) = i
      BY <1>1, <1>4
    <3> QED
      BY <1>9, <2>2, <2>3, <3>1
  <2> QED
    BY <1>1, <1>4, <2>1, <2>2, <2>3, <2>4
<1>12. /\ M \in Seq(ModeNumber) /\ Len(M) = m + 1 + k + 1
       /\ \A i \in 1 .. m + 1 : M[i] = s.modes[i]
       /\ \A i \in 1 .. k : M[m + 1 + i] = mode(i)
       /\ M[m + 1 + k + 1] = "STANCE"
  <2> DEFINE A == s.modes \o tiles
  <2>1. /\ A \in Seq(ModeNumber) /\ Len(A) = m + 1 + k
        /\ \A i \in 1 .. m + 1 + k : A[i] =
               IF i <= m + 1 THEN s.modes[i] ELSE tiles[i - (m + 1)]
    <3>1. /\ A \in Seq(ModeNumber) /\ Len(A) = Len(s.modes) + Len(tiles)
          /\ \A i \in 1 .. Len(s.modes) + Len(tiles) : A[i] =
                 IF i <= Len(s.modes) THEN s.modes[i] ELSE tiles[i - Len(s.modes)]
      BY <1>1, <1>8, ConcatProperties
    <3> QED
      BY <1>1, <1>8, <3>1
  <2> HIDE DEF A
  <2>2. /\ A \o <<"STANCE">> \in Seq(ModeNumber)
        /\ Len(A \o <<"STANCE">>) = m + 1 + k + 1
        /\ \A i \in 1 .. m + 1 + k : (A \o <<"STANCE">>)[i] = A[i]
        /\ (A \o <<"STANCE">>)[m + 1 + k + 1] = "STANCE"
    <3> DEFINE B == <<"STANCE">>
    <3>1. B \in Seq(ModeNumber) /\ Len(B) = 1 /\ B[1] = "STANCE"
      BY DEF ModeNumber
    <3> HIDE DEF B, m
    <3>2. /\ A \o B \in Seq(ModeNumber) /\ Len(A \o B) = Len(A) + Len(B)
          /\ \A i \in 1 .. Len(A) + Len(B) : (A \o B)[i] =
                 IF i <= Len(A) THEN A[i] ELSE B[i - Len(A)]
      BY <2>1, <3>1, ConcatProperties
    <3>3. \A i \in 1 .. m + 1 + k : (A \o B)[i] = A[i]
      BY <1>1, <1>4, <2>1, <3>1, <3>2
    <3>4. (A \o B)[m + 1 + k + 1] = B[1]
      BY <1>1, <1>4, <2>1, <3>1, <3>2
    <3> QED
      BY <2>1, <3>1, <3>2, <3>3, <3>4 DEF B
  <2>3. M = A \o <<"STANCE">>
    BY <1>10 DEF A
  <2> HIDE DEF M, m
  <2>4. ASSUME NEW i \in 1 .. k PROVE M[m + 1 + i] = mode(i)
    <3>1. /\ m + 1 + i \in 1 .. m + 1 + k /\ ~(m + 1 + i <= m + 1)
          /\ (m + 1 + i) - (m + 1) = i
      BY <1>1, <1>4
    <3> QED
      BY <1>9, <2>1, <2>2, <2>3, <3>1
  <2> QED
    BY <1>1, <1>4, <2>1, <2>2, <2>3, <2>4
<1>13. p \in Schedule
  BY <1>2, <1>10, <1>11, <1>12 DEF Schedule
<1> HIDE DEF E, M, m
<1>14. /\ p \in Schedule /\ Len(p.events) = m + 1 + k
       /\ \A i \in 1 .. m : p.events[i] = s.events[i]
       /\ p.events[m + 1] = start
       /\ \A i \in 1 .. k : p.events[m + 1 + i] = TileTime(t, n, start, i)
       /\ Len(p.modes) = m + 1 + k + 1
       /\ \A i \in 1 .. m + 1 : p.modes[i] = s.modes[i]
       /\ \A i \in 1 .. k : p.modes[m + 1 + i] = TileMode(t, n, i)
       /\ p.modes[m + 1 + k + 1] = "STANCE"
  BY <1>11, <1>12, <1>13 DEF E, M, time, mode, period, TileTime, TileMode
<1>15. Tiled(p, s, t, n, start, k)
  BY <1>14 DEF Tiled, m
<1> QED
  BY <1>15 DEF p, k, r, period

(* Tiling a schedule under construction gives a plan that reaches the      *)
(* final time and keeps what came before.                                  *)
LEMMA TilePlan ==
    ASSUME NEW s, OpenPlan(s), NEW n \in {1, 2, 4}, NEW t, Template(t, n),
           NEW start \in Int, NEW final \in Int, ~TileThrows(s, start)
    PROVE  LET p == TileModeSequenceTemplate(s, t, start, final)
           IN  /\ Plan(p)
               /\ Last(p.events) >= final /\ Last(p.events) >= start
               /\ p.events[1] = IF s.events = <<>> THEN start ELSE s.events[1]
               /\ Extends(p, s, start)
<1> DEFINE period == t.times[n + 1]
           r == Repetitions(start, final, period)
           k == n * r
           time(i) == start + ((i - 1) \div n) * period + t.times[((i - 1) % n) + 2]
           mode(i) == t.modes[((i - 1) % n) + 1]
           p == TileModeSequenceTemplate(s, t, start, final)
           m == Len(s.events)
<1>1. /\ s.events \in Seq(Int) /\ s.modes \in Seq(ModeNumber)
      /\ m \in Nat /\ Len(s.modes) = m + 1
  BY DEF OpenPlan
<1>3. /\ r \in Nat /\ (r = 0 => start >= final) /\ start + r * period >= final
  <2>1. t.times[1] = 0 /\ t.times[1] < period /\ period \in Nat
    BY DEF Template
  <2> QED
    BY <2>1, RepetitionsReach
<1>4. k \in Nat /\ (k = 0 <=> r = 0)
  BY <1>3
<1>5. /\ \A i \in 1 .. k : time(i) \in Int /\ start < time(i)
      /\ \A i, j \in 1 .. k : i < j => time(i) < time(j)
      /\ r > 0 => time(k) = start + r * period
  BY <1>3, TileTimes
<1>6. /\ \A i \in 1 .. k : mode(i) \in ModeNumber
      /\ \A i \in 1 .. k - 1 : mode(i) = mode(i + 1) => mode(i) = "STANCE"
      /\ r > 0 => mode(1) \in {"LF", "STANCE"} /\ mode(k) # "LF"
  BY <1>3, TileModes
<1>0. \A i \in 1 .. k : mode(i) = "LF" =>
          time(i) - (IF i = 1 THEN start ELSE time(i - 1)) <= LeftStance
  BY <1>3, TileStances
<1>7. r > 0 => time(k) >= final
  BY <1>3, <1>5
<1>2. Tiled(p, s, t, n, start, k)
  BY TileShape
<1>8. \A i \in 1 .. k : /\ TileTime(t, n, start, i) = time(i)
                         /\ TileMode(t, n, i) = mode(i)
  BY DEF TileTime, TileMode
<1> HIDE DEF r, k, time, mode, period, p
<1> DEFINE E == p.events
           M == p.modes
<1>11. /\ E \in Seq(Int) /\ Len(E) = m + 1 + k
       /\ \A i \in 1 .. m : E[i] = s.events[i]
       /\ E[m + 1] = start
       /\ \A i \in 1 .. k : E[m + 1 + i] = time(i)
  BY <1>2, <1>8 DEF Schedule, Tiled
<1>12. /\ M \in Seq(ModeNumber) /\ Len(M) = m + 1 + k + 1
       /\ \A i \in 1 .. m + 1 : M[i] = s.modes[i]
       /\ \A i \in 1 .. k : M[m + 1 + i] = mode(i)
       /\ M[m + 1 + k + 1] = "STANCE"
  BY <1>2, <1>8 DEF Schedule, Tiled
<1>13. \A i \in 1 .. m : s.events[i] \in Int /\ s.events[i] < start
  <2>1. CASE m = 0
    BY <2>1
  <2>2. CASE m > 0
    <3>1. s.events # <<>> /\ s.events[m] < start
      BY <1>1, <2>2 DEF TileThrows, Last
    <3>2. \A i \in 1 .. m : i = m \/ s.events[i] < s.events[m]
      BY <1>1, <2>2 DEF OpenPlan, Ascending
    <3> QED
      BY <1>1, <2>2, <3>1, <3>2
  <2> QED
    BY <1>1, <2>1, <2>2
<1>14. \A i, j \in 1 .. m : i < j => s.events[i] < s.events[j]
  <2>1. DOMAIN s.events = 1 .. m
    BY <1>1
  <2>2. Ascending(s.events)
    BY DEF OpenPlan
  <2> HIDE DEF m
  <2> QED
    BY <2>1, <2>2 DEF Ascending
<1>15. s.modes[1] = "STANCE"
  BY DEF OpenPlan
<1>16. /\ \A i \in 1 .. m : s.modes[i] = s.modes[i + 1] =>
                              s.modes[i] \in {"STANCE", "FLY"}
       /\ s.modes[m + 1] # "LF"
       /\ \A i \in 1 .. m - 1 : s.modes[i + 1] = "LF" =>
              s.events[i + 1] - s.events[i] <= LeftStance
  BY <1>1 DEF OpenPlan, NoRepeats, ShortStances
<1>17. s.events = <<>> <=> m = 0
  BY <1>1
<1> HIDE DEF E, M, m
<1>18. Ascending(E)
  <2> SUFFICES ASSUME NEW i \in 1 .. m + 1 + k, NEW j \in 1 .. m + 1 + k, i < j
               PROVE  E[i] < E[j]
    BY <1>1, <1>4, <1>11 DEF Ascending
  <2>1. CASE j \in 1 .. m
    BY <1>1, <1>11, <1>14, <2>1
  <2>2. CASE j = m + 1
    BY <1>1, <1>11, <1>13, <2>2
  <2>3. CASE j \notin 1 .. m + 1
    <3>1. PICK b \in 1 .. k : j = m + 1 + b
      <4>1. j - (m + 1) \in 1 .. k /\ j = m + 1 + (j - (m + 1))
        BY <1>1, <1>4, <2>3
      <4> QED
        BY <4>1
    <3>2. E[j] = time(b) /\ start < time(b) /\ time(b) \in Int
      BY <1>5, <1>11, <3>1
    <3>3. CASE i \in 1 .. m
      BY <1>11, <1>13, <3>2, <3>3
    <3>4. CASE i = m + 1
      BY <1>11, <3>2, <3>4
    <3>5. CASE i \notin 1 .. m + 1
      <4>1. PICK a \in 1 .. k : i = m + 1 + a
        <5>1. i - (m + 1) \in 1 .. k /\ i = m + 1 + (i - (m + 1))
          BY <1>1, <1>4, <3>5
        <5> QED
          BY <5>1
      <4>2. a < b /\ E[i] = time(a)
        BY <1>1, <1>4, <1>11, <3>1, <4>1
      <4> QED
        BY <1>5, <3>2, <4>2
    <3> QED
      BY <1>1, <3>3, <3>4, <3>5
  <2> QED
    BY <1>1, <2>1, <2>2, <2>3
<1>19. NoRepeats(M) /\ M[m + 1 + k] # "LF"
  <2>1. ASSUME NEW i \in 1 .. m + 1 + k, M[i] = M[i + 1]
        PROVE  M[i] \in {"STANCE", "FLY"}
    <3>1. CASE i \in 1 .. m
      <4>1. i + 1 \in 1 .. m + 1 /\ i \in 1 .. m + 1
        BY <1>1, <3>1
      <4>2. M[i] = s.modes[i] /\ M[i + 1] = s.modes[i + 1]
        BY <1>12, <4>1
      <4> QED
        BY <1>16, <2>1, <3>1, <4>2
    <3>2. CASE i = m + 1
      <4>1. M[i] # "LF"
        BY <1>1, <1>12, <1>16, <3>2
      <4>2. M[i + 1] \in {"LF", "STANCE"}
        <5>1. CASE k = 0
          BY <1>1, <1>12, <3>2, <5>1
        <5>2. CASE k > 0
          BY <1>1, <1>3, <1>4, <1>6, <1>12, <3>2, <5>2
        <5> QED
          BY <1>4, <5>1, <5>2
      <4> QED
        BY <2>1, <4>1, <4>2
    <3>3. CASE i \notin 1 .. m + 1
      <4>1. PICK a \in 1 .. k : i = m + 1 + a
        <5>1. i - (m + 1) \in 1 .. k /\ i = m + 1 + (i - (m + 1))
          BY <1>1, <1>4, <3>3
        <5> QED
          BY <5>1
      <4>2. M[i] = mode(a)
        BY <1>12, <4>1
      <4>3. CASE a = k
        BY <1>1, <1>4, <1>12, <2>1, <4>1, <4>3
      <4>4. CASE a # k
        <5>1. a + 1 \in 1 .. k /\ a \in 1 .. k - 1 /\ i + 1 = m + 1 + (a + 1)
          BY <1>1, <1>4, <4>1, <4>4
        <5>2. M[i + 1] = mode(a + 1)
          BY <1>12, <5>1
        <5> QED
          BY <1>6, <2>1, <4>2, <5>1, <5>2
      <4> QED
        BY <4>3, <4>4
    <3> QED
      BY <1>1, <3>1, <3>2, <3>3
  <2>2. M[m + 1 + k] # "LF"
    <3>1. CASE k = 0
      BY <1>1, <1>12, <1>16, <3>1
    <3>2. CASE k > 0
      <4>1. k \in 1 .. k /\ r > 0
        BY <1>3, <1>4, <3>2
      <4> QED
        BY <1>6, <1>12, <4>1
    <3> QED
      BY <1>4, <3>1, <3>2
  <2>3. NoRepeats(M)
    BY <1>1, <1>4, <1>12, <2>1 DEF NoRepeats
  <2> QED
    BY <2>2, <2>3
<1>23. ShortStances(p)
  <2>0. Len(p.events) - 1 = m + k
    BY <1>1, <1>4, <1>11 DEF E
  <2> SUFFICES ASSUME NEW i \in 1 .. m + k, M[i + 1] = "LF"
               PROVE  E[i + 1] - E[i] <= LeftStance
    BY <2>0 DEF ShortStances, E, M
  <2>1. CASE i \in 1 .. m - 1
    <3>1. i \in 1 .. m /\ i + 1 \in 1 .. m /\ i + 1 \in 1 .. m + 1
      BY <1>1, <2>1
    <3>2. M[i + 1] = s.modes[i + 1]
      BY <1>12, <3>1
    <3>3. E[i] = s.events[i] /\ E[i + 1] = s.events[i + 1]
      BY <1>11, <3>1
    <3> QED
      BY <1>16, <2>1, <3>2, <3>3
  <2>2. CASE i = m
    <3>1. m + 1 \in 1 .. m + 1
      BY <1>1
    <3> QED
      BY <1>12, <1>16, <2>2, <3>1
  <2>3. CASE i = m + 1
    <3>1. 1 \in 1 .. k /\ i + 1 = m + 1 + 1
      BY <1>1, <1>4, <2>3
    <3>2. E[i + 1] = time(1) /\ M[i + 1] = mode(1) /\ E[i] = start
      BY <1>11, <1>12, <2>3, <3>1
    <3> QED
      BY <1>0, <3>1, <3>2
  <2>4. CASE i \notin 1 .. m + 1
    <3> DEFINE a == i - (m + 1)
    <3>1. /\ a \in 1 .. k /\ a + 1 \in 1 .. k /\ a + 1 # 1 /\ (a + 1) - 1 = a
          /\ i = m + 1 + a /\ i + 1 = m + 1 + (a + 1)
      BY <1>1, <1>4, <2>4
    <3> HIDE DEF a
    <3>2. E[i] = time(a)
      BY <1>11, <3>1
    <3>3. E[i + 1] = time(a + 1) /\ M[i + 1] = mode(a + 1)
      BY <1>11, <1>12, <3>1
    <3>4. time(a + 1) - time((a + 1) - 1) <= LeftStance
      BY <1>0, <3>1, <3>3
    <3> QED
      BY <3>1, <3>2, <3>3, <3>4
  <2> QED
    BY <1>1, <2>1, <2>2, <2>3, <2>4
<1>20. Plan(p)
  <2>1. M[1] = "STANCE" /\ M[Len(M)] = "STANCE"
    BY <1>1, <1>4, <1>12, <1>15
  <2>2. E # <<>> /\ Len(M) = Len(E) + 1
    BY <1>1, <1>4, <1>11, <1>12
  <2>3. p \in Schedule
    BY <1>2 DEF Tiled
  <2> QED
    BY <1>11, <1>18, <1>19, <1>23, <2>1, <2>2, <2>3 DEF Plan, E, M
<1>21. Last(p.events) >= final /\ Last(p.events) >= start
  <2>1. Last(p.events) = E[m + 1 + k]
    BY <1>11 DEF Last, E
  <2>2. CASE k = 0
    BY <1>1, <1>3, <1>4, <1>11, <2>1, <2>2
  <2>3. CASE k > 0
    <3>1. k \in 1 .. k /\ r > 0
      BY <1>3, <1>4, <2>3
    <3>2. Last(p.events) = time(k) /\ time(k) \in Int /\ start < time(k)
      BY <1>5, <1>11, <2>1, <3>1
    <3> QED
      BY <1>7, <3>1, <3>2
  <2> QED
    BY <1>4, <2>2, <2>3
<1>22. p.events[1] = IF s.events = <<>> THEN start ELSE s.events[1]
  <2>1. p.events[1] = E[1]
    BY DEF E
  <2>2. CASE m = 0
    BY <1>11, <1>17, <2>1, <2>2
  <2>3. CASE m # 0
    <3>1. 1 \in 1 .. m
      BY <1>1, <2>3
    <3> QED
      BY <1>11, <1>17, <2>1, <2>3, <3>1
  <2> QED
    BY <2>2, <2>3
<1>24. Extends(p, s, start)
  <2>1. m + 1 <= m + 1 + k /\ m = Len(s.events)
    BY <1>1, <1>4 DEF m
  <2> QED
    BY <1>11, <1>12, <2>1 DEF Extends, E, M
<1> QED
  BY <1>20, <1>21, <1>22, <1>24 DEF p

-----------------------------------------------------------------------------
(* What a plan is, index by index.                                         *)
LEMMA PlanFacts ==
    ASSUME NEW s, Plan(s)
    PROVE  \E m \in Nat :
           /\ m = Len(s.events) /\ m >= 1
           /\ s.events \in [1 .. m -> Int] /\ s.modes \in [1 .. m + 1 -> ModeNumber]
           /\ Len(s.modes) = m + 1
           /\ \A i, j \in 1 .. m : i < j => s.events[i] < s.events[j]
           /\ s.modes[1] = "STANCE" /\ s.modes[m + 1] = "STANCE"
           /\ \A i \in 1 .. m : s.modes[i] = s.modes[i + 1] =>
                                     s.modes[i] \in {"STANCE", "FLY"}
           /\ s.modes[m] # "LF"
<1>0. s.events \in Seq(Int) /\ s.modes \in Seq(ModeNumber)
  BY DEF Plan, Schedule
<1>1. PICK m \in Nat : m = Len(s.events)
  BY <1>0
<1>2. /\ s.events \in Seq(Int) /\ s.modes \in Seq(ModeNumber)
      /\ s.events # <<>> /\ Len(s.modes) = m + 1
  BY <1>0, <1>1 DEF Plan
<1>3. /\ s.events \in [1 .. m -> Int] /\ s.modes \in [1 .. m + 1 -> ModeNumber]
      /\ m >= 1
  BY <1>1, <1>2
<1>4. \A i, j \in 1 .. m : i < j => s.events[i] < s.events[j]
  <2>1. DOMAIN s.events = 1 .. m /\ Ascending(s.events)
    BY <1>3 DEF Plan
  <2> QED
    BY <2>1 DEF Ascending
<1>5. /\ s.modes[1] = "STANCE" /\ s.modes[m + 1] = "STANCE"
      /\ \A i \in 1 .. m : s.modes[i] = s.modes[i + 1] =>
                                s.modes[i] \in {"STANCE", "FLY"}
      /\ s.modes[m] # "LF"
  BY <1>1, <1>2 DEF Plan, NoRepeats
<1> QED
  BY <1>1, <1>2, <1>3, <1>4, <1>5

(* What is left of a plan when its past is forgotten is a plan.            *)
LEMMA TrimPlan ==
    ASSUME NEW s, Plan(s), NEW lower \in Int
    PROVE  LET r == Trim(s, lower)
           IN  /\ Plan(r) /\ Last(r.events) = Last(s.events)
               /\ r.events[1] = s.events[1] \/ r.events[1] < lower
               /\ \A x \in Int : lower <= x => ModeAtTime(r, x) = ModeAtTime(s, x)
<1> DEFINE r == Trim(s, lower)
<1>1. PICK m \in Nat :
           /\ m = Len(s.events) /\ m >= 1
           /\ s.events \in [1 .. m -> Int] /\ s.modes \in [1 .. m + 1 -> ModeNumber]
           /\ Len(s.modes) = m + 1
           /\ \A i, j \in 1 .. m : i < j => s.events[i] < s.events[j]
           /\ s.modes[1] = "STANCE" /\ s.modes[m + 1] = "STANCE"
           /\ \A i \in 1 .. m : s.modes[i] = s.modes[i + 1] =>
                                     s.modes[i] \in {"STANCE", "FLY"}
           /\ s.modes[m] # "LF"
  BY PlanFacts
<1>2. PICK k \in 0 .. m : /\ k = EventsBefore(s.events, lower)
                          /\ \A i \in 1 .. m : i <= k <=> s.events[i] < lower
  <2>1. s.events \in Seq(Int) /\ Ascending(s.events)
    BY DEF Plan, Schedule
  <2> QED
    BY <1>1, <2>1, Searches
<1>5. \A i \in 1 .. m - 1 : s.modes[i + 1] = "LF" =>
          s.events[i + 1] - s.events[i] <= LeftStance
  BY <1>1 DEF Plan, ShortStances
<1>3. CASE k = 0
  BY <1>2, <1>3 DEF Trim
<1>4. CASE k # 0
  <2> DEFINE E == SubSeq(s.events, k, m)
             N == SubSeq(s.modes, k, m + 1)
             M == [N EXCEPT ![1] = "STANCE"]
  <2>0. m \in Nat /\ k \in Nat /\ 1 <= k /\ k <= m
    BY <1>1, <1>4
  <2>1. r = [events |-> E, modes |-> M]
    BY <1>1, <1>2, <1>4 DEF Trim
  <2>2. /\ E \in Seq(Int) /\ Len(E) = m - k + 1
        /\ \A i \in 1 .. m - k + 1 : E[i] = s.events[k + i - 1]
    <3>1. \A i \in k .. m : s.events[i] \in Int
      BY <1>1, <2>0
    <3> QED
      BY <2>0, <3>1, SubSeqProperties
  <2>3. /\ N \in Seq(ModeNumber) /\ Len(N) = m - k + 2
        /\ \A i \in 1 .. m - k + 2 : N[i] = s.modes[k + i - 1]
    <3>0. s.modes \in [1 .. m + 1 -> ModeNumber]
      BY <1>1
    <3>1. \A i \in k .. m + 1 : s.modes[i] \in ModeNumber
      BY <2>0, <3>0
    <3>2. k <= m + 1 /\ (m + 1) - k + 1 = m - k + 2
      BY <2>0
    <3>3. /\ N \in Seq(ModeNumber) /\ Len(N) = (m + 1) - k + 1
          /\ \A i \in 1 .. (m + 1) - k + 1 : N[i] = s.modes[k + i - 1]
      BY <2>0, <3>1, <3>2, SubSeqProperties
    <3> QED
      BY <3>2, <3>3
  <2> HIDE DEF N
  <2>4. /\ M \in Seq(ModeNumber) /\ Len(M) = m - k + 2 /\ M[1] = "STANCE"
        /\ \A i \in 2 .. m - k + 2 : M[i] = s.modes[k + i - 1]
    <3>1. "STANCE" \in ModeNumber /\ 1 \in 1 .. Len(N)
      BY <1>1, <1>4, <2>3 DEF ModeNumber
    <3> QED
      BY <1>1, <1>4, <2>3, <3>1, ExceptSeq
  <2> HIDE DEF E, M, r
  <2>5. Ascending(E) /\ E # <<>>
    <3>1. ASSUME NEW i \in 1 .. m - k + 1, NEW j \in 1 .. m - k + 1, i < j
          PROVE  E[i] < E[j]
      <4>1. k + i - 1 \in 1 .. m /\ k + j - 1 \in 1 .. m /\ k + i - 1 < k + j - 1
        BY <2>0, <3>1
      <4>2. s.events[k + i - 1] < s.events[k + j - 1]
        BY <1>1, <4>1
      <4> QED
        BY <2>2, <4>2
    <3>2. DOMAIN E = 1 .. m - k + 1 /\ E # <<>>
      BY <2>0, <2>2
    <3> QED
      BY <3>1, <3>2 DEF Ascending
  <2>6. M[Len(M)] = "STANCE"
    <3>1. m - k + 2 \in 2 .. m - k + 2 /\ k + (m - k + 2) - 1 = m + 1
      BY <2>0
    <3> QED
      BY <1>1, <2>4, <3>1
  <2>7. NoRepeats(M) /\ M[Len(E)] # "LF"
    <3>1. ASSUME NEW i \in 1 .. m - k + 1, M[i] = M[i + 1]
          PROVE  M[i] \in {"STANCE", "FLY"}
      <4>1. CASE i = 1
        BY <2>4, <4>1
      <4>2. CASE i # 1
        <5>1. /\ i \in 2 .. m - k + 2 /\ i + 1 \in 2 .. m - k + 2
              /\ k + i - 1 \in 1 .. m /\ k + (i + 1) - 1 = (k + i - 1) + 1
          BY <2>0, <3>1, <4>2
        <5>2. M[i] = s.modes[k + i - 1] /\ M[i + 1] = s.modes[(k + i - 1) + 1]
          BY <2>4, <5>1
        <5> QED
          BY <1>1, <3>1, <5>1, <5>2
      <4> QED
        BY <4>1, <4>2
    <3>2. M[m - k + 1] # "LF"
      <4>1. CASE k = m
        BY <1>1, <2>4, <4>1
      <4>2. CASE k # m
        <5>1. m - k + 1 \in 2 .. m - k + 2 /\ k + (m - k + 1) - 1 = m
          BY <2>0, <4>2
        <5> QED
          BY <1>1, <2>4, <5>1
      <4> QED
        BY <4>1, <4>2
    <3> QED
      BY <1>1, <1>4, <2>2, <2>4, <3>1, <3>2 DEF NoRepeats
  <2>12. ASSUME NEW i \in 1 .. m - k, M[i + 1] = "LF"
         PROVE  E[i + 1] - E[i] <= LeftStance
    <3>1. /\ i \in 1 .. m - k + 1 /\ i + 1 \in 1 .. m - k + 1
          /\ i + 1 \in 2 .. m - k + 2 /\ k + i - 1 \in 1 .. m - 1
          /\ k + (i + 1) - 1 = (k + i - 1) + 1
      BY <2>0
    <3>4. E[i] = s.events[k + i - 1] /\ E[i + 1] = s.events[k + (i + 1) - 1]
      BY <2>2, <3>1
    <3>2. E[i] = s.events[k + i - 1] /\ E[i + 1] = s.events[(k + i - 1) + 1]
      BY <3>1, <3>4
    <3>3. M[i + 1] = s.modes[(k + i - 1) + 1]
      BY <2>4, <3>1
    <3> QED
      BY <1>5, <2>12, <3>1, <3>2, <3>3
  <2>8. Plan(r)
    <3>1. /\ Len(M) = Len(E) + 1 /\ r.events = E /\ r.modes = M
      BY <2>0, <2>1, <2>2, <2>4
    <3>3. Len(E) - 1 = m - k
      BY <2>0, <2>2
    <3>4. ShortStances(r)
      BY <2>12, <3>1, <3>3 DEF ShortStances
    <3>2. r \in Schedule
      BY <2>1, <2>2, <2>4 DEF Schedule
    <3> QED
      BY <2>2, <2>4, <2>5, <2>6, <2>7, <3>1, <3>2, <3>4 DEF Plan
  <2>9. E[m - k + 1] = s.events[m]
    <3>1. m - k + 1 \in 1 .. m - k + 1 /\ k + (m - k + 1) - 1 = m
      BY <2>0
    <3> QED
      BY <2>2, <3>1
  <2>10. Last(r.events) = Last(s.events)
    BY <1>1, <2>1, <2>2, <2>9 DEF Last
  <2>11. r.events[1] < lower
    <3>1. 1 \in 1 .. m - k + 1 /\ k + 1 - 1 = k /\ k \in 1 .. m
      BY <2>0
    <3>2. E[1] = s.events[k] /\ s.events[k] < lower
      BY <1>2, <2>2, <3>1
    <3> QED
      BY <2>1, <3>2
  <2>13. ASSUME NEW x \in Int, lower <= x
         PROVE  ModeAtTime(r, x) = ModeAtTime(s, x)
    <3> DEFINE b == EventsBefore(s.events, x)
               c == b - k + 1
    <3>1. b \in 0 .. m /\ \A i \in 1 .. m : i <= b <=> s.events[i] < x
      <4>1. s.events \in Seq(Int) /\ Ascending(s.events)
        BY DEF Plan, Schedule
      <4> QED
        BY <1>1, <4>1, Searches
    <3> HIDE DEF b
    <3>2. k <= b
      <4>1. k \in 1 .. m /\ k <= k
        BY <2>0
      <4>2. s.events[k] < lower /\ s.events[k] \in Int
        BY <1>1, <1>2, <4>1
      <4>3. s.events[k] < x
        BY <2>13, <4>2
      <4> QED
        BY <3>1, <4>1, <4>3
    <3>0. b \in Nat /\ b <= m
      BY <2>0, <3>1
    <3>3. c \in 0 .. m - k + 1 /\ c + 1 \in 2 .. m - k + 2
          /\ k + (c + 1) - 1 = b + 1
      BY <2>0, <3>0, <3>2
    <3>4. ASSUME NEW i \in 1 .. m - k + 1
          PROVE  i <= c <=> E[i] < x
      <4>1. k + i - 1 \in 1 .. m /\ (i <= c <=> k + i - 1 <= b)
        BY <2>0, <3>0
      <4>2. E[i] = s.events[k + i - 1]
        BY <2>2
      <4> QED
        BY <3>1, <4>1, <4>2
    <3> HIDE DEF c
    <3>5. EventsBefore(E, x) = c
      <4>1. c \in 0 .. Len(E) /\ \A i \in 1 .. Len(E) : i <= c <=> E[i] < x
        BY <2>2, <3>3, <3>4
      <4>2. E \in Seq(Int) /\ Ascending(E)
        BY <2>2, <2>5
      <4> QED
        BY <4>1, <4>2, CountIs
    <3>6. M[c + 1] = s.modes[b + 1]
      <4>1. M[c + 1] = s.modes[k + (c + 1) - 1]
        BY <2>4, <3>3
      <4> QED
        BY <3>3, <4>1
    <3> QED
      BY <2>1, <3>5, <3>6 DEF ModeAtTime, PhaseAt, b
  <2> QED
    BY <2>8, <2>10, <2>11, <2>13 DEF r
<1> QED
  BY <1>3, <1>4

(* Without its last event a plan is a schedule under construction, which   *)
(* can be tiled on from there.                                             *)
LEMMA WithoutLastOpen ==
    ASSUME NEW s, Plan(s)
    PROVE  LET r == WithoutLast(s)
           IN  /\ OpenPlan(r)
               /\ \A start \in Int : start >= Last(s.events) => ~TileThrows(r, start)
               /\ r.events # <<>> => r.events[1] = s.events[1]
               /\ r.events = <<>> => Last(s.events) = s.events[1]
               /\ Extends(s, r, Last(s.events))
<1> DEFINE r == WithoutLast(s)
<1>1. PICK m \in Nat :
           /\ m = Len(s.events) /\ m >= 1
           /\ s.events \in [1 .. m -> Int] /\ s.modes \in [1 .. m + 1 -> ModeNumber]
           /\ Len(s.modes) = m + 1
           /\ \A i, j \in 1 .. m : i < j => s.events[i] < s.events[j]
           /\ s.modes[1] = "STANCE" /\ s.modes[m + 1] = "STANCE"
           /\ \A i \in 1 .. m : s.modes[i] = s.modes[i + 1] =>
                                     s.modes[i] \in {"STANCE", "FLY"}
           /\ s.modes[m] # "LF"
  BY PlanFacts
<1>0. m \in Nat /\ m >= 1
  BY <1>1
<1> DEFINE E == SubSeq(s.events, 1, m - 1)
           M == SubSeq(s.modes, 1, m)
<1>2. r = [events |-> E, modes |-> M]
  BY <1>1 DEF WithoutLast, Front
<1>3. /\ E \in Seq(Int) /\ Len(E) = m - 1
      /\ \A i \in 1 .. m - 1 : E[i] = s.events[i]
  <2>0. s.events \in [1 .. m -> Int]
    BY <1>1
  <2>1. \A i \in 1 .. m - 1 : s.events[i] \in Int
    BY <1>0, <2>0
  <2> QED
    BY <1>1, <2>1, SubSeqProperties
<1>4. /\ M \in Seq(ModeNumber) /\ Len(M) = m
      /\ \A i \in 1 .. m : M[i] = s.modes[i]
  <2>0. s.modes \in [1 .. m + 1 -> ModeNumber]
    BY <1>1
  <2>1. \A i \in 1 .. m : s.modes[i] \in ModeNumber
    BY <1>0, <2>0
  <2> QED
    BY <1>1, <2>1, SubSeqProperties
<1> HIDE DEF E, M, r
<1>5. OpenPlan(r)
  <2>1. Ascending(E)
    <3>1. DOMAIN E = 1 .. m - 1 /\ 1 .. m - 1 \subseteq 1 .. m
      BY <1>0, <1>3
    <3> QED
      BY <1>1, <1>3, <3>1 DEF Ascending
  <2>2. NoRepeats(M) /\ M[m] # "LF"
    <3>1. \A i \in 1 .. m : s.modes[i] = s.modes[i + 1] =>
                              s.modes[i] \in {"STANCE", "FLY"}
      BY <1>1
    <3>2. M[m] # "LF"
      BY <1>0, <1>1, <1>4
    <3>3. \A i \in 1 .. m - 1 : i \in 1 .. m /\ i + 1 \in 1 .. m
      BY <1>0
    <3> QED
      BY <1>4, <3>1, <3>2, <3>3 DEF NoRepeats
  <2>3. ShortStances(r)
    <3>1. ASSUME NEW i \in 1 .. (m - 1) - 1, M[i + 1] = "LF"
          PROVE  E[i + 1] - E[i] <= LeftStance
      <4>1. /\ i \in 1 .. m - 1 /\ i + 1 \in 1 .. m - 1 /\ i + 1 \in 1 .. m
        BY <1>0
      <4>2. /\ E[i] = s.events[i] /\ E[i + 1] = s.events[i + 1]
            /\ M[i + 1] = s.modes[i + 1]
        BY <1>3, <1>4, <4>1
      <4>3. s.modes[i + 1] = "LF" => s.events[i + 1] - s.events[i] <= LeftStance
        BY <1>1, <4>1 DEF Plan, ShortStances
      <4> QED
        BY <3>1, <4>2, <4>3
    <3> QED
      BY <1>2, <1>3, <3>1 DEF ShortStances
  <2> QED
    BY <1>1, <1>2, <1>3, <1>4, <2>1, <2>2, <2>3 DEF OpenPlan
<1>6. ASSUME NEW start \in Int, start >= Last(s.events)
      PROVE  ~TileThrows(r, start)
  <2>1. CASE m = 1
    BY <1>2, <1>3, <2>1 DEF TileThrows
  <2>2. CASE m # 1
    <3>1. /\ m - 1 \in 1 .. m - 1 /\ m - 1 \in 1 .. m /\ m \in 1 .. m
          /\ m - 1 < m
      BY <1>0, <2>2
    <3>2. Last(r.events) = s.events[m - 1] /\ Last(s.events) = s.events[m]
      BY <1>1, <1>2, <1>3, <3>1 DEF Last
    <3>3. s.events[m - 1] < s.events[m] /\ s.events[m - 1] \in Int /\ s.events[m] \in Int
      BY <1>1, <3>1
    <3> QED
      BY <1>6, <3>2, <3>3 DEF TileThrows
  <2> QED
    BY <2>1, <2>2
<1>7. r.events # <<>> => r.events[1] = s.events[1]
  BY <1>1, <1>2, <1>3
<1>8. r.events = <<>> => Last(s.events) = s.events[1]
  BY <1>1, <1>2, <1>3 DEF Last
<1>9. Extends(s, r, Last(s.events))
  <2>1. /\ Len(r.events) = m - 1 /\ (m - 1) + 1 = m /\ m <= Len(s.events)
        /\ s.events[m] = Last(s.events)
    BY <1>0, <1>1, <1>2, <1>3 DEF Last
  <2>2. /\ \A i \in 1 .. m - 1 : s.events[i] = r.events[i]
        /\ \A i \in 1 .. m : s.modes[i] = r.modes[i]
    BY <1>2, <1>3, <1>4
  <2> QED
    BY <2>1, <2>2 DEF Extends
<1> QED
  BY <1>5, <1>6, <1>7, <1>8, <1>9 DEF r

(* getModeSchedule of a plan throws no exception and gives a plan up to    *)
(* the upper bound, whose first event is the old one or past, and which    *)
(* changes no mode up to where the old plan ends.                          *)
LEMMA GetModeSchedulePlan ==
    ASSUME NEW s, Plan(s), NEW gait \in DOMAIN GaitMap,
           NEW lower \in Int, NEW upper \in Int
    PROVE  LET p == GetModeSchedule(s, GaitMap[gait], lower, upper)
           IN  /\ ~GetModeScheduleThrows(s, lower, upper)
               /\ Plan(p) /\ Last(p.events) >= upper
               /\ p.events[1] = s.events[1] \/ p.events[1] < lower
               /\ \A x \in Int : lower <= x /\ x <= Last(s.events) =>
                      ModeAtTime(p, x) = ModeAtTime(s, x)
<1> DEFINE kept == Trim(s, lower)
           open == WithoutLast(kept)
           start == Last(kept.events)
<1>1. /\ Plan(kept) /\ kept.events # <<>>
      /\ kept.events[1] = s.events[1] \/ kept.events[1] < lower
      /\ start = Last(s.events)
      /\ \A x \in Int : lower <= x => ModeAtTime(kept, x) = ModeAtTime(s, x)
  BY TrimPlan DEF Plan
<1>2. start \in Int
  <2>1. kept.events \in Seq(Int) /\ Len(kept.events) >= 1
    BY <1>1 DEF Plan, Schedule
  <2> HIDE DEF kept
  <2> QED
    BY <2>1 DEF Last
<1> HIDE DEF kept
<1>3. /\ OpenPlan(open) /\ ~TileThrows(open, start)
      /\ open.events # <<>> => open.events[1] = kept.events[1]
      /\ open.events = <<>> => start = kept.events[1]
      /\ Extends(kept, open, start)
  BY <1>1, <1>2, WithoutLastOpen
<1>4. TilingStart(kept, upper) = start
  BY <1>1 DEF TilingStart
<1>5. PICK n \in {1, 2, 4} : Template(GaitMap[gait], n)
  BY GaitMapTemplates
<1> HIDE DEF open, start
<1> DEFINE p == TileModeSequenceTemplate(open, GaitMap[gait], start, upper)
<1>6. /\ Plan(p) /\ Last(p.events) >= upper
      /\ p.events[1] = IF open.events = <<>> THEN start ELSE open.events[1]
      /\ Extends(p, open, start)
  BY <1>2, <1>3, <1>5, TilePlan
<1>7. /\ GetModeSchedule(s, GaitMap[gait], lower, upper) = p
      /\ ~GetModeScheduleThrows(s, lower, upper)
  BY <1>3, <1>4 DEF GetModeSchedule, GetModeScheduleThrows, kept, open
<1> HIDE DEF p
<1>8. ASSUME NEW x \in Int, lower <= x, x <= start
      PROVE  ModeAtTime(p, x) = ModeAtTime(s, x)
  <2>1. /\ kept.events \in Seq(Int) /\ Ascending(kept.events)
        /\ open.events \in Seq(Int) /\ Ascending(open.events)
        /\ p.events \in Seq(Int) /\ Ascending(p.events)
    BY <1>1, <1>3, <1>6 DEF Plan, OpenPlan, Schedule
  <2>2. ModeAtTime(p, x) = ModeAtTime(open, x)
    BY <1>2, <1>6, <1>8, <2>1, ExtendsKeeps
  <2>3. ModeAtTime(kept, x) = ModeAtTime(open, x)
    BY <1>2, <1>3, <1>8, <2>1, ExtendsKeeps
  <2> QED
    BY <1>1, <1>8, <2>2, <2>3
<1> QED
  BY <1>1, <1>3, <1>6, <1>7, <1>8

-----------------------------------------------------------------------------
(* An event has the events of smaller index before it.                     *)
LEMMA EventsBeforeEvent ==
    ASSUME NEW s, Plan(s), NEW k \in 1 .. Len(s.events)
    PROVE  EventsBefore(s.events, s.events[k]) = k - 1
<1>1. PICK m \in Nat :
           /\ m = Len(s.events) /\ m >= 1
           /\ s.events \in [1 .. m -> Int]
           /\ \A i, j \in 1 .. m : i < j => s.events[i] < s.events[j]
  BY PlanFacts
<1> DEFINE b == EventsBefore(s.events, s.events[k])
<1>2. b \in 0 .. m /\ \A i \in 1 .. m : i <= b <=> s.events[i] < s.events[k]
  <2>1. s.events \in Seq(Int) /\ Ascending(s.events) /\ s.events[k] \in Int
    BY <1>1 DEF Plan, Schedule
  <2> QED
    BY <1>1, <2>1, Searches
<1> HIDE DEF b
<1>0. m \in Nat /\ m >= 1 /\ k \in 1 .. m
  BY <1>1
<1>3. ~(k <= b) /\ b \in Nat
  BY <1>0, <1>1, <1>2
<1>4. k = 1 => b = k - 1
  BY <1>3
<1>5. ASSUME k > 1
      PROVE  b = k - 1
  <2>1. k - 1 \in 1 .. m /\ k - 1 < k
    BY <1>0, <1>5
  <2>2. s.events[k - 1] < s.events[k]
    BY <1>0, <1>1, <2>1
  <2>3. k - 1 <= b
    BY <1>2, <2>1, <2>2
  <2> QED
    BY <1>0, <1>3, <2>3
<1> QED
  BY <1>0, <1>4, <1>5 DEF b

(* The time chosen for a new gait is that of an event, since the plan      *)
(* reaches beyond seven tenths of the horizon, and not that of the end of  *)
(* a left stance: none is its first mode, and none follows another.  It is *)
(* at most a left stance before those seven tenths: either the first event *)
(* after them, or the beginning of a left stance that reaches beyond them. *)
LEMMA NextEventIsOfThePlan ==
    ASSUME NEW s, Plan(s), Last(s.events) >= 2 * Horizon
    PROVE  \E k \in 1 .. Len(s.events) :
               /\ NextEventTime(s, 0, Horizon) = s.events[k]
               /\ s.modes[k] # "LF" /\ s.events[k] >= Kept
               /\ \/ s.events[k] > Lead /\ \A i \in 1 .. k - 1 : s.events[i] <= Lead
                  \/ /\ s.events[k] <= Lead
                     /\ k < Len(s.events) /\ s.modes[k + 1] = "LF"
<1>1. PICK m \in Nat :
           /\ m = Len(s.events) /\ m >= 1
           /\ s.events \in [1 .. m -> Int] /\ s.modes[1] = "STANCE"
           /\ \A i \in 1 .. m : s.modes[i] = s.modes[i + 1] =>
                                     s.modes[i] \in {"STANCE", "FLY"}
  BY PlanFacts
<1> DEFINE late == (7 * Horizon + 3 * 0) \div 10
           u == EventsUpTo(s.events, late)
<1>2. late \in Int /\ late < 2 * Horizon
  BY MotionAssumption
<1> HIDE DEF late
<1>3. u \in 0 .. m /\ \A i \in 1 .. m : i <= u <=> s.events[i] <= late
  <2>1. s.events \in Seq(Int) /\ Ascending(s.events)
    BY DEF Plan, Schedule
  <2> QED
    BY <1>1, <1>2, <2>1, Searches
<1> HIDE DEF u
<1>0. m \in Nat /\ m >= 1 /\ u \in Nat
  BY <1>1, <1>3
<1>4. u < m
  <2>1. s.events[m] >= 2 * Horizon /\ s.events[m] \in Int /\ m \in 1 .. m
    BY <1>1 DEF Last
  <2>2. ~(s.events[m] <= late)
    BY <1>2, <2>1, MotionAssumption
  <2> QED
    BY <1>3, <2>1, <2>2
<1> DEFINE k == u + 1
<1>5. k \in 1 .. m /\ ~(k > m)
  BY <1>0, <1>4
<1>6. ModeAtTime(s, s.events[k]) = s.modes[k]
  <2>1. EventsBefore(s.events, s.events[k]) = k - 1
    BY <1>1, <1>5, EventsBeforeEvent
  <2>2. (k - 1) + 1 = k
    BY <1>0
  <2> QED
    BY <2>1, <2>2 DEF ModeAtTime, PhaseAt
<1>7. NextEventTime(s, 0, Horizon) =
          IF s.modes[k] = "LF" THEN s.events[k - 1] ELSE s.events[k]
  BY <1>1, <1>5, <1>6 DEF NextEventTime, late, u
<1>10. s.events[k] \in Int /\ s.events[k] >= late + 1
  <2>1. s.events[k] \in Int /\ ~(k <= u)
    BY <1>0, <1>1, <1>5
  <2>2. ~(s.events[k] <= late)
    BY <1>3, <1>5, <2>1
  <2> QED
    BY <1>2, <2>1, <2>2
<1>11. Lead = late /\ Kept = late + 1 - LeftStance
  BY MotionAssumption DEF Kept, Lead, late
<1>12. \A i \in 1 .. k - 1 : i \in 1 .. m /\ s.events[i] <= late
  <2>1. \A i \in 1 .. k - 1 : i \in 1 .. m /\ i <= u
    BY <1>0, <1>5
  <2> QED
    BY <1>3, <2>1
<1> HIDE DEF k
<1>8. CASE s.modes[k] = "LF"
  <2>1. k # 1
    BY <1>1, <1>8
  <2>2. k - 1 \in 1 .. m - 1 /\ k - 1 \in 1 .. m /\ (k - 1) + 1 = k
    BY <1>0, <1>5, <2>1
  <2>3. s.modes[k - 1] # "LF"
    BY <1>1, <1>8, <2>2
  <2>4. s.events[k] - s.events[k - 1] <= LeftStance
    BY <1>1, <1>8, <2>2 DEF Plan, ShortStances
  <2>5. s.events[k - 1] \in Int
    BY <1>1, <2>2
  <2>6. s.events[k - 1] >= Kept
    BY <1>2, <1>10, <1>11, <2>4, <2>5 DEF LeftStance
  <2>7. /\ s.events[k - 1] <= Lead /\ k - 1 < Len(s.events)
        /\ s.modes[(k - 1) + 1] = "LF"
    <3>1. k - 1 \in 1 .. k - 1 /\ k - 1 < m
      BY <1>0, <2>2
    <3> QED
      BY <1>1, <1>8, <1>11, <1>12, <2>2, <3>1
  <2> QED
    BY <1>1, <1>7, <1>8, <2>2, <2>3, <2>6, <2>7
<1>9. CASE s.modes[k] # "LF"
  <2>1. s.events[k] >= Kept
    BY <1>2, <1>10, <1>11 DEF LeftStance
  <2>2. s.events[k] > Lead
    BY <1>2, <1>10, <1>11
  <2> QED
    BY <1>1, <1>5, <1>7, <1>9, <1>11, <1>12, <2>1, <2>2
<1> QED
  BY <1>8, <1>9

(* What is kept of a plan that is cut at an event.                         *)
LEMMA CutOpen ==
    ASSUME NEW s, Plan(s), NEW k \in 1 .. Len(s.events)
    PROVE  LET r == Cut(s, s.events[k])
           IN  /\ r.events \in Seq(Int) /\ r.modes \in Seq(ModeNumber)
               /\ Len(r.events) = k - 1 /\ Len(r.modes) = k
               /\ \A i \in 1 .. k - 1 : r.events[i] = s.events[i]
               /\ \A i \in 1 .. k : r.modes[i] = s.modes[i]
               /\ Extends(s, r, s.events[k]) /\ ShortStances(r)
<1>1. PICK m \in Nat :
           /\ m = Len(s.events) /\ m >= 1
           /\ s.events \in [1 .. m -> Int] /\ s.modes \in [1 .. m + 1 -> ModeNumber]
  BY PlanFacts
<1>0. m \in Nat /\ m >= 1 /\ k \in 1 .. m
  BY <1>1
<1> DEFINE E == SubSeq(s.events, 1, k - 1)
           M == SubSeq(s.modes, 1, k)
<1>2. Cut(s, s.events[k]) = [events |-> E, modes |-> M]
  <2>1. EventsBefore(s.events, s.events[k]) = k - 1
    BY EventsBeforeEvent
  <2>2. k - 1 < m /\ (k - 1) + 1 = k
    BY <1>0
  <2> QED
    BY <1>1, <2>1, <2>2 DEF Cut
<1>3. /\ E \in Seq(Int) /\ Len(E) = k - 1
      /\ \A i \in 1 .. k - 1 : E[i] = s.events[i]
  <2>1. \A i \in 1 .. k - 1 : s.events[i] \in Int
    BY <1>0, <1>1
  <2> QED
    BY <1>0, <2>1, SubSeqProperties
<1>4. /\ M \in Seq(ModeNumber) /\ Len(M) = k
      /\ \A i \in 1 .. k : M[i] = s.modes[i]
  <2>1. \A i \in 1 .. k : s.modes[i] \in ModeNumber
    BY <1>0, <1>1
  <2> QED
    BY <1>0, <2>1, SubSeqProperties
<1> HIDE DEF E, M
<1> DEFINE r == Cut(s, s.events[k])
<1>5. /\ r.events = E /\ r.modes = M
  BY <1>2
<1> HIDE DEF r
<1>6. Extends(s, r, s.events[k])
  <2>1. /\ Len(r.events) + 1 = k /\ Len(r.events) = k - 1 /\ k <= Len(s.events)
    BY <1>0, <1>1, <1>3, <1>5
  <2>2. /\ \A i \in 1 .. k - 1 : s.events[i] = r.events[i]
        /\ \A i \in 1 .. k : s.modes[i] = r.modes[i]
    BY <1>3, <1>4, <1>5
  <2> QED
    BY <2>1, <2>2 DEF Extends
<1>7. ShortStances(r)
  <2>1. ASSUME NEW i \in 1 .. (k - 1) - 1, M[i + 1] = "LF"
        PROVE  E[i + 1] - E[i] <= LeftStance
    <3>1. /\ i \in 1 .. k - 1 /\ i + 1 \in 1 .. k - 1 /\ i + 1 \in 1 .. k
          /\ i \in 1 .. m - 1
      BY <1>0
    <3>2. /\ E[i] = s.events[i] /\ E[i + 1] = s.events[i + 1]
          /\ M[i + 1] = s.modes[i + 1]
      BY <1>3, <1>4, <3>1
    <3>3. s.modes[i + 1] = "LF" => s.events[i + 1] - s.events[i] <= LeftStance
      BY <1>1, <3>1 DEF Plan, ShortStances
    <3> QED
      BY <2>1, <3>2, <3>3
  <2> QED
    BY <1>3, <1>5, <2>1 DEF ShortStances
<1> QED
  BY <1>3, <1>4, <1>5, <1>6, <1>7 DEF r

(* A plan that is cut at an event, with the standing phase added if one is *)
(* due, can be tiled on; up to the event its modes are those of the plan.  *)
LEMMA TransitionOpen ==
    ASSUME NEW s, Plan(s), NEW k \in 1 .. Len(s.events), NEW start,
           start = s.events[k], s.modes[k] # "LF"
    PROVE  LET kept == Cut(s, start)
               r == AddTransition(kept, start, TransitionStance)
               from == start + TransitionTime(kept, TransitionStance)
           IN  /\ OpenPlan(r) /\ from \in Int /\ ~TileThrows(r, from)
               /\ s.events[1] = IF r.events = <<>> THEN from ELSE r.events[1]
               /\ start <= from
               /\ \A x \in Int : x <= start => ModeAtTime(r, x) = ModeAtTime(s, x)
<1> DEFINE kept == Cut(s, start)
           r == AddTransition(kept, start, TransitionStance)
           time == TransitionTime(kept, TransitionStance)
<1>1. PICK m \in Nat :
           /\ m = Len(s.events) /\ m >= 1
           /\ s.events \in [1 .. m -> Int] /\ s.modes \in [1 .. m + 1 -> ModeNumber]
           /\ \A i, j \in 1 .. m : i < j => s.events[i] < s.events[j]
           /\ s.modes[1] = "STANCE"
           /\ \A i \in 1 .. m : s.modes[i] = s.modes[i + 1] =>
                                     s.modes[i] \in {"STANCE", "FLY"}
  BY PlanFacts
<1>0. m \in Nat /\ m >= 1 /\ k \in 1 .. m
  BY <1>1
<1>2. /\ kept.events \in Seq(Int) /\ kept.modes \in Seq(ModeNumber)
      /\ Len(kept.events) = k - 1 /\ Len(kept.modes) = k
      /\ \A i \in 1 .. k - 1 : kept.events[i] = s.events[i]
      /\ \A i \in 1 .. k : kept.modes[i] = s.modes[i]
      /\ Extends(s, kept, start) /\ ShortStances(kept)
  BY CutOpen
<1> HIDE DEF kept
<1>3. /\ start \in Int
      /\ \A i \in 1 .. k - 1 : kept.events[i] \in Int /\ kept.events[i] < start
      /\ \A i, j \in 1 .. k - 1 : i < j => kept.events[i] < kept.events[j]
  <2>1. 1 .. k - 1 \subseteq 1 .. m /\ \A i \in 1 .. k - 1 : i < k
    BY <1>0
  <2> QED
    BY <1>0, <1>1, <1>2, <2>1
<1>4. kept.modes[1] = "STANCE"
  BY <1>0, <1>1, <1>2
<1>5. NoRepeats(kept.modes) /\ kept.modes[k] # "LF"
  <2>1. \A i \in 1 .. k - 1 : i \in 1 .. m /\ i \in 1 .. k /\ i + 1 \in 1 .. k
    BY <1>0
  <2>2. \A i \in 1 .. m : s.modes[i] = s.modes[i + 1] =>
                            s.modes[i] \in {"STANCE", "FLY"}
    BY <1>1
  <2>3. kept.modes[k] # "LF"
    BY <1>0, <1>2
  <2> QED
    BY <1>2, <2>1, <2>2, <2>3 DEF NoRepeats
<1>6. time = IF kept.modes[k] = "STANCE" THEN 0 ELSE TransitionStance
  BY <1>2 DEF TransitionTime, Last
<1>7. DOMAIN kept.events = 1 .. k - 1 /\ (kept.events = <<>> <=> k = 1)
  BY <1>0, <1>2
<1>8. Ascending(kept.events)
  BY <1>3, <1>7 DEF Ascending
<1> HIDE DEF time
<1>11. ASSUME NEW x \in Int, x <= start
       PROVE  ModeAtTime(s, x) = ModeAtTime(kept, x)
  <2>1. s.events \in Seq(Int) /\ Ascending(s.events)
    BY DEF Plan, Schedule
  <2> QED
    BY <1>2, <1>3, <1>8, <1>11, <2>1, ExtendsKeeps
<1>9. CASE time > 0
  <2>0. TransitionStance \in Nat /\ TransitionStance = time
        /\ kept.modes[k] # "STANCE"
    BY <1>6, <1>9, MotionAssumption
  <2> DEFINE E == Append(kept.events, start)
             M == Append(kept.modes, "STANCE")
  <2>1. r = [events |-> E, modes |-> M]
    BY <1>9 DEF AddTransition, time
  <2>2. /\ E \in Seq(Int) /\ Len(E) = k /\ E[k] = start
        /\ \A i \in 1 .. k - 1 : E[i] = kept.events[i]
    <3>1. /\ E \in Seq(Int) /\ Len(E) = Len(kept.events) + 1
          /\ E[Len(kept.events) + 1] = start
          /\ \A i \in 1 .. Len(kept.events) : E[i] = kept.events[i]
      BY <1>2, <1>3, AppendProperties
    <3> HIDE DEF E
    <3>2. Len(kept.events) + 1 = k
      BY <1>0, <1>2
    <3> QED
      BY <1>2, <3>1, <3>2
  <2>3. /\ M \in Seq(ModeNumber) /\ Len(M) = k + 1 /\ M[k + 1] = "STANCE"
        /\ \A i \in 1 .. k : M[i] = kept.modes[i]
    <3>1. "STANCE" \in ModeNumber
      BY DEF ModeNumber
    <3> QED
      BY <1>2, <3>1, AppendProperties
  <2> HIDE DEF E, M, r
  <2>4. Ascending(E)
    <3>1. DOMAIN E = 1 .. k
      BY <1>0, <2>2
    <3>2. ASSUME NEW i \in 1 .. k, NEW j \in 1 .. k, i < j
          PROVE  E[i] < E[j]
      <4>1. i \in 1 .. k - 1 /\ (j = k \/ j \in 1 .. k - 1)
        BY <1>0, <3>2
      <4> QED
        BY <1>3, <2>2, <3>2, <4>1
    <3> QED
      BY <3>1, <3>2 DEF Ascending
  <2>5. NoRepeats(M)
    <3>1. ASSUME NEW i \in 1 .. k, M[i] = M[i + 1]
          PROVE  M[i] \in {"STANCE", "FLY"}
      <4>1. CASE i = k
        BY <2>3, <3>1, <4>1
      <4>2. CASE i # k
        <5>1. i \in 1 .. k - 1 /\ i + 1 \in 1 .. k
          BY <1>0, <3>1, <4>2
        <5>2. M[i] = kept.modes[i] /\ M[i + 1] = kept.modes[i + 1]
          BY <2>3, <5>1
        <5> QED
          BY <1>2, <1>5, <1>9, <2>0, <3>1, <5>1, <5>2 DEF NoRepeats
      <4> QED
        BY <4>1, <4>2
    <3>2. Len(M) - 1 = k
      BY <1>0, <2>3
    <3> QED
      BY <3>1, <3>2 DEF NoRepeats
  <2>6. M[1] = "STANCE"
    BY <1>0, <1>4, <2>3
  <2>10. ShortStances(r)
    <3>1. ASSUME NEW i \in 1 .. k - 1, M[i + 1] = "LF"
          PROVE  E[i + 1] - E[i] <= LeftStance
      <4>1. CASE i = k - 1
        <5>1. M[k] = kept.modes[k] /\ i + 1 = k
          BY <1>0, <2>3, <4>1
        <5> QED
          BY <1>5, <3>1, <5>1
      <4>2. CASE i # k - 1
        <5>1. i \in 1 .. (k - 1) - 1 /\ i + 1 \in 1 .. k - 1 /\ i + 1 \in 1 .. k
          BY <1>0, <3>1, <4>2
        <5>2. /\ E[i] = kept.events[i] /\ E[i + 1] = kept.events[i + 1]
              /\ M[i + 1] = kept.modes[i + 1]
          BY <2>2, <2>3, <5>1
        <5>3. kept.modes[i + 1] = "LF" =>
                  kept.events[i + 1] - kept.events[i] <= LeftStance
          BY <1>2, <5>1 DEF ShortStances
        <5> QED
          BY <3>1, <5>2, <5>3
      <4> QED
        BY <4>1, <4>2
    <3> QED
      BY <2>1, <2>2, <3>1 DEF ShortStances
  <2>7. OpenPlan(r)
    BY <2>1, <2>2, <2>3, <2>4, <2>5, <2>6, <2>10 DEF OpenPlan
  <2>11. Extends(r, kept, start)
    <3>1. Len(kept.events) + 1 = k /\ Len(r.events) = k
      BY <1>0, <1>2, <2>1, <2>2
    <3>2. /\ \A i \in 1 .. k - 1 : r.events[i] = kept.events[i]
          /\ r.events[k] = start /\ \A i \in 1 .. k : r.modes[i] = kept.modes[i]
      BY <2>1, <2>2, <2>3
    <3> QED
      BY <1>0, <1>2, <3>1, <3>2 DEF Extends
  <2>12. ASSUME NEW x \in Int, x <= start
         PROVE  ModeAtTime(r, x) = ModeAtTime(s, x)
    <3>1. r.events \in Seq(Int) /\ Ascending(r.events)
      BY <2>7 DEF OpenPlan
    <3>2. ModeAtTime(r, x) = ModeAtTime(kept, x)
      BY <1>2, <1>3, <1>8, <2>11, <2>12, <3>1, ExtendsKeeps
    <3> QED
      BY <1>11, <2>12, <3>2
  <2>13. start <= start + time
    BY <1>3, <2>0
  <2>8. start + time \in Int /\ ~TileThrows(r, start + time)
    BY <1>3, <1>9, <2>0, <2>1, <2>2 DEF TileThrows, Last
  <2>9. s.events[1] = r.events[1] /\ r.events # <<>>
    <3>1. k = 1 => E[1] = s.events[1]
      BY <2>2
    <3>2. k # 1 => 1 \in 1 .. k - 1
      BY <1>0
    <3>3. E[1] = s.events[1]
      BY <1>2, <2>2, <3>1, <3>2
    <3>4. E # <<>>
      BY <1>0, <2>2
    <3> QED
      BY <2>1, <3>3, <3>4
  <2> QED
    BY <2>7, <2>8, <2>9, <2>12, <2>13 DEF r, time, kept
<1>10. CASE ~(time > 0)
  <2>1. time = 0
    BY <1>6, <1>10, MotionAssumption
  <2>2. r = kept
    BY <1>10 DEF AddTransition, time
  <2>3. OpenPlan(kept)
    <3>1. Len(kept.modes) = Len(kept.events) + 1
      BY <1>0, <1>2
    <3> QED
      BY <1>2, <1>4, <1>5, <1>8, <3>1 DEF OpenPlan
  <2>4. start + time = start
    BY <1>3, <2>1
  <2>5. ~TileThrows(kept, start)
    <3>1. CASE k = 1
      BY <1>7, <3>1 DEF TileThrows
    <3>2. CASE k # 1
      <4>1. k - 1 \in 1 .. k - 1
        BY <1>0, <3>2
      <4> QED
        BY <1>2, <1>3, <4>1 DEF TileThrows, Last
    <3> QED
      BY <3>1, <3>2
  <2>6. s.events[1] = IF kept.events = <<>> THEN start ELSE kept.events[1]
    <3>1. CASE k = 1
      BY <1>7, <3>1
    <3>2. CASE k # 1
      <4>1. 1 \in 1 .. k - 1
        BY <1>0, <3>2
      <4> QED
        BY <1>2, <1>7, <3>2, <4>1
    <3> QED
      BY <3>1, <3>2
  <2> QED
    BY <1>3, <1>11, <2>2, <2>3, <2>4, <2>5, <2>6 DEF r, time, kept
<1> QED
  BY <1>9, <1>10

(* A gait inserted at an event gives a plan again, with the same modes up  *)
(* to the event.                                                           *)
LEMMA InsertPlan ==
    ASSUME NEW s, Plan(s), NEW k \in 1 .. Len(s.events), NEW start,
           start = s.events[k], s.modes[k] # "LF",
           NEW gait \in DOMAIN GaitMap, NEW final \in Int
    PROVE  LET p == InsertModeSequenceTemplate(s, GaitMap[gait], TransitionStance,
                                               start, final)
           IN  /\ ~InsertThrows(s, TransitionStance, start)
               /\ Plan(p) /\ p.events[1] = s.events[1]
               /\ Last(p.events) >= start
               /\ \A x \in Int : x <= start => ModeAtTime(p, x) = ModeAtTime(s, x)
<1> DEFINE kept == Cut(s, start)
           r == AddTransition(kept, start, TransitionStance)
           from == start + TransitionTime(kept, TransitionStance)
           p == TileModeSequenceTemplate(r, GaitMap[gait], from, final)
<1>1. /\ OpenPlan(r) /\ from \in Int /\ ~TileThrows(r, from)
      /\ s.events[1] = IF r.events = <<>> THEN from ELSE r.events[1]
      /\ start <= from
      /\ \A x \in Int : x <= start => ModeAtTime(r, x) = ModeAtTime(s, x)
  BY TransitionOpen
<1>2. PICK n \in {1, 2, 4} : Template(GaitMap[gait], n)
  BY GaitMapTemplates
<1>3. /\ InsertModeSequenceTemplate(s, GaitMap[gait], TransitionStance, start, final) = p
      /\ ~InsertThrows(s, TransitionStance, start)
  BY <1>1 DEF InsertModeSequenceTemplate, InsertThrows
<1> HIDE DEF r, from
<1>4. /\ Plan(p) /\ Last(p.events) >= from /\ Extends(p, r, from)
      /\ p.events[1] = IF r.events = <<>> THEN from ELSE r.events[1]
  BY <1>1, <1>2, TilePlan
<1> HIDE DEF p
<1>5. start \in Int /\ Last(p.events) \in Int
  <2>1. s.events \in Seq(Int) /\ p.events \in Seq(Int) /\ p.events # <<>>
    BY <1>4 DEF Plan, Schedule
  <2>2. start \in Int
    BY <2>1
  <2>3. Len(p.events) \in Nat /\ Len(p.events) >= 1
    BY <2>1
  <2> QED
    BY <2>1, <2>2, <2>3 DEF Last
<1>6. ASSUME NEW x \in Int, x <= start
      PROVE  ModeAtTime(p, x) = ModeAtTime(s, x)
  <2>1. /\ p.events \in Seq(Int) /\ Ascending(p.events)
        /\ r.events \in Seq(Int) /\ Ascending(r.events)
    BY <1>1, <1>4 DEF Plan, OpenPlan, Schedule
  <2>2. x <= from
    BY <1>1, <1>5, <1>6
  <2>3. ModeAtTime(p, x) = ModeAtTime(r, x)
    BY <1>1, <1>4, <2>1, <2>2, ExtendsKeeps
  <2> QED
    BY <1>1, <1>6, <2>3
<1>7. Last(p.events) >= start
  BY <1>1, <1>4, <1>5
<1> QED
  BY <1>1, <1>3, <1>4, <1>6, <1>7

(* The swing planner accepts every plan: each swing has its take-off and   *)
(* its touch-down.                                                         *)
LEMMA SwingsEnd ==
    ASSUME NEW s, Plan(s)
    PROVE  ~PlannerThrows(s.modes)
<1>1. PICK m \in Nat :
           /\ m >= 1 /\ Len(s.modes) = m + 1
           /\ s.modes \in [1 .. m + 1 -> ModeNumber]
           /\ s.modes[1] = "STANCE" /\ s.modes[m + 1] = "STANCE"
  BY PlanFacts
<1>0. m \in Nat /\ m >= 1 /\ m + 2 \in Nat
  BY <1>1
<1>2. ASSUME NEW foot \in Foot, NEW p \in DOMAIN s.modes \ InContact(s.modes, foot)
      PROVE  TakeOff(s.modes, foot, p) # 0 /\ TouchDown(s.modes, foot, p) # m + 1
  <2> DEFINE contact == InContact(s.modes, foot)
             before == {q \in contact : q < p} \cup {0}
             after == {q \in contact : q > p} \cup {m + 2}
  <2>1. /\ \A q \in contact : q \in 1 .. m + 1
        /\ 1 \in contact /\ m + 1 \in contact
        /\ p \in 1 .. m + 1 /\ p \notin contact
    <3>1. DOMAIN s.modes = 1 .. m + 1
      BY <1>1
    <3>2. foot \in StanceFeet(s.modes[1]) /\ foot \in StanceFeet(s.modes[m + 1])
      BY <1>1 DEF StanceFeet
    <3>3. 1 \in 1 .. m + 1 /\ m + 1 \in 1 .. m + 1
      BY <1>0
    <3> QED
      BY <3>1, <3>2, <3>3 DEF InContact
  <2>2. TakeOff(s.modes, foot, p) = Max(before)
    BY DEF TakeOff
  <2>3. TouchDown(s.modes, foot, p) = Min(after) - 1
    <3>1. Len(s.modes) + 1 = m + 2
      BY <1>0, <1>1
    <3> QED
      BY <3>1 DEF TouchDown
  <2> HIDE DEF contact
  <2>4. p > 1 /\ p < m + 1
    BY <1>0, <2>1
  <2>9. /\ \A q : q \in before <=> (q \in contact /\ q < p) \/ q = 0
        /\ \A q : q \in after <=> (q \in contact /\ q > p) \/ q = m + 2
    OBVIOUS
  <2> HIDE DEF before, after
  <2>5. before \in SUBSET (0 .. m + 2) /\ 1 \in before
    BY <1>0, <2>1, <2>4, <2>9
  <2>6. after \in SUBSET (1 .. m + 2) /\ m + 1 \in after
    BY <1>0, <2>1, <2>4, <2>9
  <2>7. Max(before) >= 1
    BY <1>0, <2>5, GreatestExists
  <2>8. Min(after) <= m + 1 /\ Min(after) \in Int
    <3>1. Min(after) \in after /\ Min(after) <= m + 1
      BY <1>0, <2>6, LeastExists
    <3>2. \A q \in after : q \in Int
      BY <1>0, <2>1, <2>9
    <3> QED
      BY <3>1, <3>2
  <2> QED
    BY <1>0, <2>2, <2>3, <2>7, <2>8
<1> QED
  BY <1>0, <1>1, <1>2 DEF PlannerThrows

(* Next to a contact the searches find the event in between.               *)
LEMMA NeighbourContacts ==
    ASSUME NEW modes, NEW n \in Nat, Len(modes) = n, DOMAIN modes = 1 .. n,
           NEW foot, NEW p \in 1 .. n - 1
    PROVE  /\ p \in InContact(modes, foot) => TakeOff(modes, foot, p + 1) = p
           /\ p + 1 \in InContact(modes, foot) => TouchDown(modes, foot, p) = p
<1> DEFINE contact == InContact(modes, foot)
<1>1. \A q \in contact : q \in 1 .. n
  BY DEF InContact
<1>2. ASSUME p \in contact
      PROVE  TakeOff(modes, foot, p + 1) = p
  <2> DEFINE before == {q \in contact : q < p + 1} \cup {0}
  <2>1. TakeOff(modes, foot, p + 1) = Max(before)
    BY DEF TakeOff
  <2> HIDE DEF contact
  <2>5. \A q : q \in before <=> (q \in contact /\ q < p + 1) \/ q = 0
    OBVIOUS
  <2> HIDE DEF before
  <2>2. /\ before \in SUBSET (0 .. n) /\ p \in before
        /\ \A q \in before : q \in Int /\ q <= p
    <3>1. \A q \in before : q \in 0 .. n /\ q <= p
      BY <1>1, <2>5
    <3>2. p \in before
      BY <1>2, <2>5
    <3> QED
      BY <3>1, <3>2
  <2>3. Max(before) \in before /\ p <= Max(before)
    BY <2>2, GreatestExists
  <2>4. Max(before) \in Int /\ Max(before) <= p
    BY <2>2, <2>3
  <2> QED
    BY <2>1, <2>3, <2>4
<1>3. ASSUME p + 1 \in contact
      PROVE  TouchDown(modes, foot, p) = p
  <2> DEFINE after == {q \in contact : q > p} \cup {n + 1}
  <2>1. TouchDown(modes, foot, p) = Min(after) - 1
    BY DEF TouchDown
  <2> HIDE DEF contact
  <2>5. \A q : q \in after <=> (q \in contact /\ q > p) \/ q = n + 1
    OBVIOUS
  <2> HIDE DEF after
  <2>2. /\ after \in SUBSET (1 .. n + 1) /\ p + 1 \in after
        /\ \A q \in after : q \in Int /\ p + 1 <= q
    BY <1>1, <1>3, <2>5
  <2>3. Min(after) \in after /\ Min(after) <= p + 1
    <3>1. n + 1 \in Nat
      OBVIOUS
    <3> QED
      BY <2>2, <3>1, LeastExists
  <2>4. Min(after) \in Int /\ p + 1 <= Min(after)
    BY <2>2, <2>3
  <2> QED
    BY <2>1, <2>3, <2>4
<1> QED
  BY <1>2, <1>3

(* Without a flight phase a foot is in the air for one phase at a time.    *)
LEMMA SwingsAreSingle ==
    ASSUME NEW s, Plan(s), NEW foot \in Foot,
           \A i \in DOMAIN s.modes : s.modes[i] # "FLY",
           NEW e \in DOMAIN s.events
    PROVE  /\ Len(s.modes) \in Nat /\ DOMAIN s.modes = 1 .. Len(s.modes)
           /\ e \in 1 .. Len(s.modes) - 1
           /\ e \in InContact(s.modes, foot) \/ e + 1 \in InContact(s.modes, foot)
<1>1. PICK m \in Nat :
           /\ m >= 1 /\ Len(s.modes) = m + 1
           /\ s.events \in [1 .. m -> Int] /\ s.modes \in [1 .. m + 1 -> ModeNumber]
           /\ \A i \in 1 .. m : s.modes[i] = s.modes[i + 1] =>
                                    s.modes[i] \in {"STANCE", "FLY"}
  BY PlanFacts
<1>0. m \in Nat /\ m >= 1 /\ (m + 1) - 1 = m /\ e \in 1 .. m
  BY <1>1
<1>2. e \in 1 .. m + 1 /\ e + 1 \in 1 .. m + 1
  BY <1>0
<1>3. /\ s.modes[e] \in {"STANCE", "LF", "RF"}
      /\ s.modes[e + 1] \in {"STANCE", "LF", "RF"}
  BY <1>1, <1>2 DEF ModeNumber
<1>4. s.modes[e] = s.modes[e + 1] => s.modes[e] = "STANCE"
  BY <1>0, <1>1, <1>3
<1>5. foot \in StanceFeet(s.modes[e]) \/ foot \in StanceFeet(s.modes[e + 1])
  BY <1>3, <1>4 DEF StanceFeet, Foot
<1> QED
  BY <1>0, <1>1, <1>2, <1>5 DEF InContact

(* So each piece of its curves starts or ends on the ground.               *)
LEMMA CurvesJoin ==
    ASSUME NEW s, Plan(s), NEW foot \in Foot,
           \A i \in DOMAIN s.modes : s.modes[i] # "FLY"
    PROVE  Joined(s, foot)
<1> DEFINE contact == InContact(s.modes, foot)
<1> SUFFICES ASSUME NEW e \in DOMAIN s.events
             PROVE  CurveAt(s, foot, e, s.events[e])
                        = CurveAt(s, foot, e + 1, s.events[e])
  BY DEF Joined
<1>1. /\ Len(s.modes) \in Nat /\ DOMAIN s.modes = 1 .. Len(s.modes)
      /\ e \in 1 .. Len(s.modes) - 1
      /\ e \in contact \/ e + 1 \in contact
  BY SwingsAreSingle
<1>2. /\ e \in contact => TakeOff(s.modes, foot, e + 1) = e
      /\ e + 1 \in contact => TouchDown(s.modes, foot, e) = e
  BY <1>1, NeighbourContacts
<1>3. (e + 1) - 1 = e
  BY <1>1
<1>4. \A p : p \in contact => CurveAt(s, foot, p, s.events[e]) = "contact"
  BY DEF CurveAt, Piece, PieceValue
<1>5. CASE e \in contact /\ e + 1 \notin contact
  <2>1. Piece(s.modes, foot, e + 1) \in {"whole", "takeoff"}
    BY <1>3, <1>5 DEF Piece
  <2>2. CurveAt(s, foot, e + 1, s.events[e]) = "contact"
    BY <1>2, <1>5, <2>1 DEF CurveAt, PieceValue
  <2> QED
    BY <1>4, <1>5, <2>2
<1>6. CASE e \notin contact /\ e + 1 \in contact
  <2>1. Piece(s.modes, foot, e) \in {"whole", "landing"}
    BY <1>6 DEF Piece
  <2>2. CurveAt(s, foot, e, s.events[e]) = "contact"
    BY <1>2, <1>6, <2>1 DEF CurveAt, PieceValue
  <2> QED
    BY <1>4, <1>6, <2>2
<1>7. CASE e \in contact /\ e + 1 \in contact
  BY <1>4, <1>7
<1> QED
  BY <1>1, <1>5, <1>6, <1>7

(* The filter does not amplify.                                            *)
LEMMA FilterBound ==
    ASSUME NEW v \in -200 .. 200, NEW a \in Nat
    PROVE  (v * a) \div (a + 32) \in -200 .. 200
<1> DEFINE b == a + 32
           c == v * a
           q == c \div b
<1>1. b \in Nat /\ b > 0 /\ c \in Int
  OBVIOUS
<1>2. c <= 200 * a /\ c >= (-200) * a
  OBVIOUS
<1>3. c < 201 * b /\ c >= (-200) * b
  <2> HIDE DEF c
  <2> QED
    BY <1>1, <1>2
<1> HIDE DEF b, c
<1>4. q \in Int /\ q * b <= c /\ c < q * b + b
  BY <1>1, DivFacts
<1> HIDE DEF q
<1>5. q <= 200
  <2> SUFFICES ASSUME q > 200 PROVE FALSE
    BY <1>4
  <2>1. 200 * b + b <= q * b
    BY <1>1, <1>4, Products
  <2>2. q * b \in Int
    BY <1>1, <1>4
  <2> DEFINE x == q * b
  <2> HIDE DEF x
  <2>3. x \in Int /\ 200 * b + b <= x /\ x <= c
    BY <1>4, <2>1, <2>2 DEF x
  <2> QED
    BY <1>1, <1>3, <2>3
<1>6. q >= -200
  <2> SUFFICES ASSUME q < -200 PROVE FALSE
    BY <1>4
  <2>1. q * b + b <= (-200) * b
    BY <1>1, <1>4, Products
  <2>2. q * b \in Int
    BY <1>1, <1>4
  <2> DEFINE x == q * b
  <2> HIDE DEF x
  <2>3. x \in Int /\ x + b <= (-200) * b /\ c < x + b
    BY <1>4, <2>1, <2>2 DEF x
  <2> QED
    BY <1>1, <1>3, <2>3
<1>7. q \in -200 .. 200
  BY <1>4, <1>5, <1>6
<1> QED
  BY <1>7 DEF q, b, c

(* A scaled command is bounded.                                            *)
LEMMA ScaleBound ==
    ASSUME NEW raw \in RawCommands
    PROVE  Scale(raw) \in Commands
<1>1. raw \in [x : Percent, y : Percent, yaw : Percent]
  BY MotionAssumption
<1>2. raw.x \in -100 .. 100 /\ raw.y \in -100 .. 100 /\ raw.yaw \in -100 .. 100
  BY <1>1 DEF Percent
<1>3. /\ 2 * raw.x \in -200 .. 200 /\ raw.yaw \in -200 .. 200
      /\ (12 * raw.y) \div 10 \in -200 .. 200
  BY <1>2
<1> QED
  BY <1>3 DEF Scale, Commands

(* The thresholds of the first and of the last gait keep the index inside  *)
(* the table.                                                              *)
LEMMA ModeInTable ==
    ASSUME currentGaitMode_ \in 0 .. 6, command \in Commands, age \in Nat,
           NEW since
    PROVE  NextGaitMode(since, Filtered(command, age), baseVelocity) \in 0 .. 6
<1> DEFINE cmd == Filtered(command, age)
           faster == TransitionToFasterGait(cmd, baseVelocity, Config(currentGaitMode_))
           slower == TransitionToSlowerGait(cmd, baseVelocity, Config(currentGaitMode_))
<1>1. /\ cmd.x \in -200 .. 200 /\ cmd.y \in -200 .. 200 /\ cmd.yaw \in -200 .. 200
  <2>1. /\ command.x \in -200 .. 200 /\ command.y \in -200 .. 200
        /\ command.yaw \in -200 .. 200 /\ DOMAIN command = {"x", "y", "yaw"}
    BY DEF Commands
  <2>2. /\ cmd.x = (command.x * age) \div (age + 32)
        /\ cmd.y = (command.y * age) \div (age + 32)
        /\ cmd.yaw = (command.yaw * age) \div (age + 32)
    BY <2>1 DEF Filtered
  <2>3. \A c \in -200 .. 200 : (c * age) \div (age + 32) \in -200 .. 200
    BY FilterBound
  <2> HIDE DEF cmd
  <2> QED
    BY <2>1, <2>2, <2>3
<1> HIDE DEF cmd
<1>2. /\ Magnitude(cmd.x) \in 0 .. 200 /\ Magnitude(cmd.y) \in 0 .. 200
      /\ Magnitude(cmd.yaw) \in 0 .. 200
  BY <1>1 DEF Magnitude
<1>3. ASSUME currentGaitMode_ = 6
      PROVE  ~faster
  <2>1. Config(6).maxLin = 1000 /\ Config(6).maxAng = 1000
    BY DEF Config, GaitModeStates, ModeState
  <2> HIDE DEF faster
  <2>3. ~(Magnitude(cmd.x) > 1000 \/ Magnitude(cmd.y) > 1000 \/ Magnitude(cmd.yaw) > 1000)
    BY <1>2
  <2> QED
    BY <1>3, <2>1, <2>3 DEF faster, TransitionToFasterGait
<1>4. ASSUME currentGaitMode_ = 0
      PROVE  ~slower
  <2>1. Config(0).minLin = -10
    BY DEF Config, GaitModeStates, ModeState
  <2>2. ~(Magnitude(cmd.x) < -10)
    BY <1>2
  <2> QED
    BY <1>4, <2>1, <2>2 DEF TransitionToSlowerGait
<1> HIDE DEF faster, slower
<1>5. NextGaitMode(since, cmd, baseVelocity) \in
          {currentGaitMode_} \cup (IF faster THEN {currentGaitMode_ + 1} ELSE {})
                             \cup (IF slower THEN {currentGaitMode_ - 1} ELSE {})
  BY DEF NextGaitMode, faster, slower
<1>6. NextGaitMode(since, cmd, baseVelocity) \in 0 .. 6
  BY <1>3, <1>4, <1>5
<1> QED
  BY <1>6 DEF cmd

(* The table names gaits of gait.info and begins with standing.            *)
LEMMA ConfigGaits ==
    /\ Len(GaitModeStates) = 7
    /\ \A mode \in 0 .. 6 : Config(mode).gaitCommand \in DOMAIN GaitMap
    /\ Config(0).gaitCommand = "stance"
<1>1. Len(GaitModeStates) = 7
  BY DEF GaitModeStates
<1>2. /\ Config(0).gaitCommand = "stance" /\ Config(1).gaitCommand = "slow_walk"
      /\ Config(2).gaitCommand = "walk" /\ Config(3).gaitCommand = "slower_trot"
  BY DEF Config, GaitModeStates, ModeState
<1>3. /\ Config(4).gaitCommand = "slow_trot" /\ Config(5).gaitCommand = "trot"
      /\ Config(6).gaitCommand = "run"
  BY DEF Config, GaitModeStates, ModeState
<1>4. DOMAIN GaitMap = {"stance", "slow_walk", "walk", "slower_trot", "slow_trot",
                        "trot", "run"}
  BY DEF GaitMap
<1>5. 0 .. 6 = {0, 1, 2, 3, 4, 5, 6}
  OBVIOUS
<1> QED
  BY <1>1, <1>2, <1>3, <1>4, <1>5

-----------------------------------------------------------------------------
LEMMA MotionInvInit == Init => MotionInv
<1> SUFFICES ASSUME Init PROVE MotionInv
  OBVIOUS
<1>1. Plan(InitialSchedule)
  BY DEF InitialSchedule, Plan, Schedule, ModeNumber, Ascending, NoRepeats,
         ShortStances
<1>2. InitialSchedule.events[1] = 10
  BY DEF InitialSchedule
<1>3. Rest \in Commands
  BY DEF Rest, Commands
<1>4. TilingEnd \in Nat
  BY MotionAssumption DEF TilingEnd
<1> QED
  BY <1>1, <1>2, <1>3, <1>4, ConfigGaits, MotionAssumption
     DEF Init, MotionInv, FirstEvent

(* The ends of a plan are times.                                           *)
LEMMA FirstEventTyped ==
    ASSUME NEW s, Plan(s)
    PROVE  s.events[1] \in Int /\ Last(s.events) \in Int
<1>1. s.events \in Seq(Int) /\ s.events # <<>>
  BY DEF Plan, Schedule
<1>2. Len(s.events) \in Nat /\ Len(s.events) >= 1
  BY <1>1
<1> QED
  BY <1>1, <1>2 DEF Last

(* A plan stays one as time passes, with the modes it had.                 *)
LEMMA ShiftPlan ==
    ASSUME NEW s, Plan(s), NEW dt \in Nat
    PROVE  /\ Plan(Shift(s, dt)) /\ Shift(s, dt).events[1] = s.events[1] - dt
           /\ Last(Shift(s, dt).events) = Last(s.events) - dt
           /\ \A t \in Int : ModeAtTime(Shift(s, dt), t) = ModeAtTime(s, t + dt)
<1>1. PICK m \in Nat :
           /\ m = Len(s.events) /\ m >= 1
           /\ s.events \in [1 .. m -> Int]
           /\ \A i, j \in 1 .. m : i < j => s.events[i] < s.events[j]
  BY PlanFacts
<1> DEFINE E == [i \in 1 .. m |-> s.events[i] - dt]
<1>2. Shift(s, dt) = [s EXCEPT !.events = E]
  BY <1>1 DEF Shift
<1>3. /\ \A i \in 1 .. m : E[i] = s.events[i] - dt /\ s.events[i] \in Int
      /\ E \in [1 .. m -> Int]
  BY <1>1
<1> HIDE DEF E
<1>4. E \in Seq(Int) /\ Len(E) = m /\ DOMAIN E = 1 .. m /\ E # <<>>
  BY <1>1, <1>3
<1>5. s \in Schedule
  BY DEF Plan
<1>6. /\ Shift(s, dt) \in Schedule
      /\ Shift(s, dt).events = E /\ Shift(s, dt).modes = s.modes
  BY <1>2, <1>4, <1>5 DEF Schedule
<1>7. Ascending(E)
  <2> SUFFICES ASSUME NEW i \in 1 .. m, NEW j \in 1 .. m, i < j
               PROVE  E[i] < E[j]
    BY <1>4 DEF Ascending
  <2>1. s.events[i] < s.events[j]
    BY <1>1
  <2> QED
    BY <1>3, <2>1
<1>8. ShortStances(Shift(s, dt))
  <2>1. ASSUME NEW i \in 1 .. m - 1, s.modes[i + 1] = "LF"
        PROVE  E[i + 1] - E[i] <= LeftStance
    <3>1. s.events[i + 1] - s.events[i] <= LeftStance
      BY <1>1, <2>1 DEF Plan, ShortStances
    <3>2. i \in 1 .. m /\ i + 1 \in 1 .. m
      BY <1>1
    <3>3. /\ E[i] = s.events[i] - dt /\ s.events[i] \in Int
          /\ E[i + 1] = s.events[i + 1] - dt /\ s.events[i + 1] \in Int
      BY <1>3, <3>2
    <3> QED
      BY <3>1, <3>3 DEF LeftStance
  <2> QED
    BY <1>4, <1>6, <2>1 DEF ShortStances
<1>9. Last(Shift(s, dt).events) = Last(s.events) - dt
  BY <1>1, <1>3, <1>4, <1>6 DEF Last
<1>10. ASSUME NEW t \in Int
       PROVE  ModeAtTime(Shift(s, dt), t) = ModeAtTime(s, t + dt)
  <2> DEFINE b == EventsBefore(s.events, t + dt)
  <2>1. b \in 0 .. m /\ \A i \in 1 .. m : i <= b <=> s.events[i] < t + dt
    <3>1. s.events \in Seq(Int) /\ Ascending(s.events) /\ t + dt \in Int
      BY DEF Plan, Schedule
    <3> QED
      BY <1>1, <3>1, Searches
  <2> HIDE DEF b
  <2>2. \A i \in 1 .. m : i <= b <=> E[i] < t
    BY <1>3, <2>1
  <2>3. EventsBefore(E, t) = b
    BY <1>4, <1>7, <2>1, <2>2, CountIs
  <2> QED
    BY <1>6, <2>3 DEF ModeAtTime, PhaseAt, b
<1>11. Plan(Shift(s, dt))
  BY <1>1, <1>4, <1>6, <1>7, <1>8 DEF Plan
<1>12. Shift(s, dt).events[1] = s.events[1] - dt
  BY <1>1, <1>3, <1>6
<1> QED
  BY <1>9, <1>10, <1>11, <1>12

(* Between two solves: time passes for the schedules and for their bound   *)
(* alike.                                                                  *)
LEMMA ControlInv ==
    ASSUME MotionInv, NEW dt \in Intervals, NEW raw \in RawCommands,
           NEW vel \in BaseVelocities, Control(dt, raw, vel)
    PROVE  MotionInv'
<1>1. dt \in Nat /\ ChangeMemory \in Nat /\ TilingEnd \in Nat
  BY MotionAssumption DEF TilingEnd
<1>2. /\ schedule' = Shift(schedule, dt) /\ published' = Shift(published, dt)
      /\ elapsed' = Lesser(elapsed + dt, TilingEnd)
      /\ sinceChange' = Lesser(sinceChange + dt, ChangeMemory)
      /\ command' = Scale(raw) /\ age' \in FilterAges
      /\ due' = TRUE
      /\ UNCHANGED <<template, currentGaitMode_, thrown>>
  BY DEF Control
<1>3. /\ elapsed \in 0 .. TilingEnd /\ sinceChange \in 0 .. ChangeMemory
      /\ Plan(schedule) /\ Plan(published)
      /\ schedule.events[1] <= FirstEvent /\ published.events[1] <= FirstEvent
      /\ currentGaitMode_ \in 0 .. 6
      /\ template = Config(currentGaitMode_).gaitCommand /\ thrown = FALSE
  BY DEF MotionInv
<1>4. /\ Plan(schedule') /\ Plan(published')
      /\ schedule'.events[1] = schedule.events[1] - dt
      /\ published'.events[1] = published.events[1] - dt
  BY <1>1, <1>2, <1>3, ShiftPlan
<1>5. schedule.events[1] \in Int /\ published.events[1] \in Int
  BY <1>3, FirstEventTyped
<1>6. /\ elapsed' \in 0 .. TilingEnd /\ elapsed' <= elapsed + dt
      /\ sinceChange' \in 0 .. ChangeMemory
  BY <1>1, <1>2, <1>3 DEF Lesser
<1>7. elapsed \in Nat /\ elapsed' \in Nat /\ elapsed' <= elapsed + dt /\ dt \in Nat
  BY <1>1, <1>3, <1>6
<1>8. PICK a \in Int, b \in Int :
          a = FirstEvent /\ b = FirstEvent' /\ a - dt <= b
  <2>1. \A e, f, d \in Nat : f <= e + d =>
            LET a == IF e >= 10 THEN 0 ELSE 10 - e
                b == IF f >= 10 THEN 0 ELSE 10 - f
            IN  a \in Int /\ b \in Int /\ a - d <= b
    OBVIOUS
  <2> QED
    BY <1>7, <2>1 DEF FirstEvent
<1>9. schedule'.events[1] <= FirstEvent' /\ published'.events[1] <= FirstEvent'
  BY <1>1, <1>3, <1>4, <1>5, <1>8
<1>10. command' \in Commands
  BY <1>2, ScaleBound
<1>11. TilingEnd' = TilingEnd /\ Config(currentGaitMode_)' = Config(currentGaitMode_)
  BY <1>2 DEF TilingEnd, Config, GaitModeStates
<1>12. (Plan(schedule))' /\ (Plan(published))'
  BY <1>4 DEF Plan, Schedule, Ascending, NoRepeats, ShortStances
<1> QED
  BY <1>2, <1>3, <1>6, <1>9, <1>10, <1>11, <1>12 DEF MotionInv

(* What a solve publishes.                                                 *)
LEMMA PublishedPlan ==
    ASSUME MotionInv
    PROVE  /\ ~GetModeScheduleThrows(schedule, -Horizon, 2 * Horizon)
           /\ Plan(Published(schedule)) /\ ~PlannerThrows(Published(schedule).modes)
           /\ Last(Published(schedule).events) >= 2 * Horizon
           /\ Published(schedule).events[1] <= FirstEvent
           /\ \A x \in Int : -Horizon <= x /\ x <= Last(schedule.events) =>
                  ModeAtTime(Published(schedule), x) = ModeAtTime(schedule, x)
<1>1. /\ Plan(schedule) /\ template \in DOMAIN GaitMap
      /\ elapsed \in Nat /\ schedule.events[1] <= FirstEvent
  BY ConfigGaits, MotionAssumption DEF MotionInv, TilingEnd
<1>2. -Horizon \in Int /\ 2 * Horizon \in Int /\ -Horizon < 0
  BY MotionAssumption
<1>3. FirstEvent \in Nat
  BY <1>1 DEF FirstEvent
<1> DEFINE p == Published(schedule)
<1>4. /\ ~GetModeScheduleThrows(schedule, -Horizon, 2 * Horizon)
      /\ Plan(p) /\ Last(p.events) >= 2 * Horizon
      /\ p.events[1] = schedule.events[1] \/ p.events[1] < -Horizon
      /\ \A x \in Int : -Horizon <= x /\ x <= Last(schedule.events) =>
             ModeAtTime(p, x) = ModeAtTime(schedule, x)
  BY <1>1, <1>2, GetModeSchedulePlan DEF Published
<1> HIDE DEF p
<1>5. p.events[1] \in Int
  BY <1>4, FirstEventTyped
<1>6. p.events[1] <= FirstEvent
  BY <1>1, <1>2, <1>3, <1>4, <1>5
<1>7. ~PlannerThrows(p.modes)
  BY <1>4, SwingsEnd
<1> QED
  BY <1>4, <1>6, <1>7 DEF p

(* What a solve that changes the gait leaves for the next.                 *)
LEMMA UpdatedPlan ==
    ASSUME MotionInv, NEW s, Plan(s), s.events[1] <= FirstEvent,
           NEW gait \in DOMAIN GaitMap
    PROVE  /\ ~UpdateThrows(s) /\ Plan(Updated(s, gait))
           /\ Updated(s, gait).events[1] <= FirstEvent
           /\ Last(Updated(s, gait).events) >= Kept
           /\ \A x \in Int : 0 <= x /\ x <= Kept /\ x <= Last(s.events) =>
                  ModeAtTime(Updated(s, gait), x) = ModeAtTime(s, x)
<1>1. /\ template \in DOMAIN GaitMap /\ elapsed \in Nat
  BY ConfigGaits, MotionAssumption DEF MotionInv, TilingEnd
<1>2. 0 \in Int /\ 2 * Horizon \in Int /\ TilingEnd - elapsed \in Int
  BY <1>1, MotionAssumption DEF TilingEnd
<1>3. FirstEvent \in Nat
  BY <1>1 DEF FirstEvent
<1> DEFINE current == GetModeSchedule(s, GaitMap[template], 0, 2 * Horizon)
           start == NextEventTime(current, 0, Horizon)
           final == TilingEnd - elapsed
<1>4. /\ ~GetModeScheduleThrows(s, 0, 2 * Horizon)
      /\ Plan(current) /\ Last(current.events) >= 2 * Horizon
      /\ current.events[1] = s.events[1] \/ current.events[1] < 0
      /\ \A x \in Int : 0 <= x /\ x <= Last(s.events) =>
             ModeAtTime(current, x) = ModeAtTime(s, x)
  BY <1>1, <1>2, GetModeSchedulePlan
<1>5. /\ Updated(s, gait) = InsertModeSequenceTemplate(current, GaitMap[gait],
                                TransitionStance, start, final)
      /\ UpdateThrows(s) <=> \/ GetModeScheduleThrows(s, 0, 2 * Horizon)
                             \/ InsertThrows(current, TransitionStance, start)
  BY DEF Updated, UpdateThrows
<1> HIDE DEF current
<1>6. PICK k \in 1 .. Len(current.events) :
           /\ start = current.events[k]
           /\ current.modes[k] # "LF" /\ current.events[k] >= Kept
  BY <1>4, NextEventIsOfThePlan
<1> HIDE DEF start
<1>7. final \in Int
  BY <1>2
<1> HIDE DEF final
<1>8. /\ ~InsertThrows(current, TransitionStance, start)
      /\ Plan(Updated(s, gait)) /\ Updated(s, gait).events[1] = current.events[1]
      /\ Last(Updated(s, gait).events) >= start
      /\ \A x \in Int : x <= start =>
             ModeAtTime(Updated(s, gait), x) = ModeAtTime(current, x)
  BY <1>4, <1>5, <1>6, <1>7, InsertPlan
<1>9. current.events[1] \in Int /\ s.events[1] \in Int
  BY <1>4, FirstEventTyped
<1>10. current.events[1] <= FirstEvent
  BY <1>3, <1>4, <1>9
<1>11. start \in Int /\ Kept \in Int /\ start >= Kept
  <2>1. current.events \in Seq(Int)
    BY <1>4 DEF Plan, Schedule
  <2>2. start \in Int
    BY <1>6, <2>1
  <2> QED
    BY <1>6, <2>2, MotionAssumption DEF Kept, Lead, LeftStance
<1>12. Last(Updated(s, gait).events) >= Kept
  <2>1. Last(Updated(s, gait).events) \in Int
    BY <1>8, FirstEventTyped
  <2> QED
    BY <1>8, <1>11, <2>1
<1>13. ASSUME NEW x \in Int, 0 <= x, x <= Kept, x <= Last(s.events)
       PROVE  ModeAtTime(Updated(s, gait), x) = ModeAtTime(s, x)
  <2>1. x <= start
    BY <1>11, <1>13
  <2> QED
    BY <1>4, <1>8, <1>13, <2>1
<1> QED
  BY <1>4, <1>5, <1>8, <1>10, <1>12, <1>13

(* One run of the solver.                                                  *)
LEMMA SolveInv ==
    ASSUME MotionInv, Solve
    PROVE  MotionInv'
<1>1. /\ due' = FALSE /\ published' = Published(schedule)
      /\ currentGaitMode_' =
             NextGaitMode(sinceChange, Filtered(command, age), baseVelocity)
      /\ UNCHANGED <<elapsed, command, baseVelocity, age>>
  BY DEF Solve
<1>2. /\ currentGaitMode_ \in 0 .. 6 /\ command \in Commands /\ age \in FilterAges
      /\ template = Config(currentGaitMode_).gaitCommand
      /\ elapsed \in 0 .. TilingEnd /\ sinceChange \in 0 .. ChangeMemory
  BY DEF MotionInv
<1>3. currentGaitMode_' \in 0 .. 6
  BY <1>1, <1>2, ModeInTable, MotionAssumption
<1>4. /\ ~GetModeScheduleThrows(schedule, -Horizon, 2 * Horizon)
      /\ Plan(published') /\ ~PlannerThrows(published'.modes)
      /\ Last(published'.events) >= 2 * Horizon
      /\ published'.events[1] <= FirstEvent
  BY <1>1, PublishedPlan
<1>5. /\ Plan(schedule') /\ schedule'.events[1] <= FirstEvent /\ thrown' = FALSE
      /\ template' = Config(currentGaitMode_').gaitCommand
      /\ sinceChange' \in 0 .. ChangeMemory
  <2>1. CASE currentGaitMode_' = currentGaitMode_
    <3>1. schedule' = published' /\ UNCHANGED <<sinceChange, template>>
      BY <2>1 DEF Solve
    <3>2. thrown' = FALSE
      BY <1>4, <2>1 DEF Solve
    <3> QED
      BY <1>2, <1>4, <2>1, <3>1, <3>2
  <2>2. CASE currentGaitMode_' # currentGaitMode_
    <3> DEFINE gait == Config(currentGaitMode_').gaitCommand
    <3>1. gait \in DOMAIN GaitMap
      BY <1>3, ConfigGaits
    <3>2. /\ sinceChange' = 0 /\ template' = gait
          /\ schedule' = Updated(published', gait)
      BY <2>2 DEF Solve, InsertedTemplate
    <3> HIDE DEF gait
    <3>3. /\ ~UpdateThrows(published') /\ Plan(schedule')
          /\ schedule'.events[1] <= FirstEvent
      BY <1>4, <3>1, <3>2, UpdatedPlan
    <3>4. thrown' = FALSE
      BY <1>4, <3>3 DEF Solve
    <3>5. 0 \in 0 .. ChangeMemory
      BY MotionAssumption
    <3> QED
      BY <3>2, <3>3, <3>4, <3>5 DEF gait
  <2> QED
    BY <2>1, <2>2
<1>6. FirstEvent' = FirstEvent /\ TilingEnd' = TilingEnd
  BY <1>1 DEF FirstEvent, TilingEnd
<1>7. (Plan(schedule))' /\ (Plan(published))'
  BY <1>4, <1>5 DEF Plan, Schedule, Ascending, NoRepeats, ShortStances
<1>8. (Last(published.events) >= 2 * Horizon)'
  BY <1>4 DEF Last
<1>9. (template = Config(currentGaitMode_).gaitCommand)'
  BY <1>5 DEF Config, GaitModeStates
<1> QED
  BY <1>1, <1>2, <1>3, <1>4, <1>5, <1>6, <1>7, <1>8, <1>9 DEF MotionInv

LEMMA MotionInvNext == MotionInv /\ [Next]_vars => MotionInv'
<1> SUFFICES ASSUME MotionInv, [Next]_vars PROVE MotionInv'
  OBVIOUS
<1>1. CASE \E dt \in Intervals, raw \in RawCommands, vel \in BaseVelocities :
               Control(dt, raw, vel)
  BY <1>1, ControlInv
<1>2. CASE Solve
  BY <1>2, SolveInv
<1>3. CASE UNCHANGED vars
  <2>1. UNCHANGED <<schedule, template, published, currentGaitMode_, elapsed,
                    sinceChange, command, age, due, thrown>>
    BY <1>3 DEF vars
  <2>2. /\ (Plan(schedule))' = Plan(schedule) /\ (Plan(published))' = Plan(published)
        /\ FirstEvent' = FirstEvent /\ TilingEnd' = TilingEnd
        /\ Last(published.events)' = Last(published.events)
        /\ Config(currentGaitMode_)' = Config(currentGaitMode_)
    BY <2>1 DEF FirstEvent, TilingEnd, Plan, Schedule, Ascending, NoRepeats,
                ShortStances, Config, GaitModeStates, Last
  <2> QED
    BY <2>1, <2>2 DEF MotionInv
<1> QED
  BY <1>1, <1>2, <1>3 DEF Next

-----------------------------------------------------------------------------
(* The inductive invariant holds in every state.                           *)
THEOREM MotionInvariance == Spec => []MotionInv
BY MotionInvInit, MotionInvNext, PTL DEF Spec

(* Every variable keeps its type, and the index of the gait stays inside   *)
(* the table for every command within its limits and every velocity of the *)
(* base.                                                                   *)
THEOREM MotionTypeCorrect == Spec => []MotionTypeOK
<1>1. MotionInv => MotionTypeOK
  <2> SUFFICES ASSUME MotionInv PROVE MotionTypeOK
    OBVIOUS
  <2>1. \A s \in {schedule, published} :
            s.events \in Seq(Int) /\ s.modes \in Seq(ModeNumber)
    BY DEF MotionInv, Plan, Schedule
  <2>2. 0 .. Len(GaitModeStates) - 1 = 0 .. 6
    BY ConfigGaits
  <2> QED
    BY <2>1, <2>2 DEF MotionInv, MotionTypeOK
<1> QED
  BY <1>1, MotionInvariance, PTL

(* The schedules stay sound, so that no solve ends in an exception, for    *)
(* every horizon, every standing phase between gaits and every sequence of *)
(* commands.                                                               *)
THEOREM ScheduleSoundHolds == Spec => []ScheduleSound
<1>1. ASSUME NEW s, Plan(s)
      PROVE  Sound(s)
  <2>1. PICK m \in Nat :
           /\ m = Len(s.events) /\ m >= 1 /\ Len(s.modes) = m + 1
           /\ \A i, j \in 1 .. m : i < j => s.events[i] < s.events[j]
           /\ s.modes[1] = "STANCE" /\ s.modes[m + 1] = "STANCE"
    BY <1>1, PlanFacts
  <2>2. \A i \in 1 .. m - 1 : i \in 1 .. m /\ i + 1 \in 1 .. m /\ i < i + 1
    BY <2>1
  <2>3. \A i \in 1 .. m - 1 : s.events[i] < s.events[i + 1]
    BY <2>1, <2>2
  <2>4. s.events # <<>>
    BY <1>1 DEF Plan
  <2> QED
    BY <2>1, <2>3, <2>4 DEF Sound
<1>2. MotionInv => ScheduleSound
  BY <1>1 DEF MotionInv, ScheduleSound
<1> QED
  BY <1>2, MotionInvariance, PTL

(* From the first event on, the phase variable reads events that exist.    *)
THEOREM PhaseReadsInsideHolds == Spec => []PhaseReadsInside
<1>1. MotionInv => PhaseReadsInside
  <2> SUFFICES ASSUME MotionInv, ~due, elapsed >= 10, NEW t \in 0 .. Horizon
               PROVE  EventsUpTo(published.events, t) \in
                          1 .. Len(published.events) - 1
    BY DEF PhaseReadsInside
  <2>1. PICK m \in Nat : /\ m = Len(published.events) /\ m >= 1
                         /\ published.events \in [1 .. m -> Int]
    BY PlanFacts DEF MotionInv
  <2> DEFINE u == EventsUpTo(published.events, t)
  <2>2. u \in 0 .. m /\ \A i \in 1 .. m : i <= u <=> published.events[i] <= t
    <3>1. published.events \in Seq(Int) /\ Ascending(published.events)
      BY DEF MotionInv, Plan, Schedule
    <3>2. t \in Int
      BY MotionAssumption
    <3> QED
      BY <2>1, <3>1, <3>2, Searches
  <2>3. 1 \in 1 .. m /\ m \in 1 .. m
    BY <2>1
  <2>4. published.events[1] <= 0 /\ published.events[m] >= 2 * Horizon
    BY <2>1 DEF MotionInv, FirstEvent, Last
  <2>5. published.events[1] <= t /\ ~(published.events[m] <= t)
    <3>1. published.events[1] \in Int /\ published.events[m] \in Int
      BY <2>1, <2>3
    <3> QED
      BY <2>4, <3>1, MotionAssumption
  <2> HIDE DEF u
  <2>6. u \in Nat /\ u <= m /\ 1 <= u /\ ~(m <= u)
    BY <2>1, <2>2, <2>3, <2>5
  <2>7. u \in 1 .. m - 1
    BY <2>1, <2>6
  <2> QED
    BY <2>1, <2>7 DEF u
<1> QED
  BY <1>1, MotionInvariance, PTL

(* The curves of a foot do not jump from one phase to the next in a        *)
(* schedule without flight, whether or not a standing phase is put between *)
(* gaits (phaseTransitionStanceTime): a gait is cut in before a left       *)
(* stance, never after one, and begins with one or standing.               *)
THEOREM CurvesJoinedHolds == Spec => []CurvesJoined
<1>1. MotionInv => CurvesJoined
  BY CurvesJoin DEF MotionInv, CurvesJoined
<1> QED
  BY <1>1, MotionInvariance, PTL

-----------------------------------------------------------------------------
(* What PlanKept needs besides: after a solve the two schedules differ in  *)
(* no mode up to Kept, so that when the next one is due they still do not  *)
(* differ in the present.                                                  *)
KeptInv ==
    IF due
    THEN /\ ModeAtTime(schedule, 0) = ModeAtTime(published, 0)
         /\ Last(schedule.events) >= 0
         /\ \/ Last(published.events) >= Horizon
            \/ /\ schedule = InitialSchedule /\ published = InitialSchedule
               /\ template = "stance"
    ELSE /\ \A t \in 0 .. Kept : ModeAtTime(schedule, t) = ModeAtTime(published, t)
         /\ Last(schedule.events) >= Kept

(* A gait is not inserted in the past, and no two solves are further apart *)
(* than what is kept: 0.15 s with the horizon of task.info, 1.1 s.         *)
PromptSolves == Kept >= 0 /\ Intervals \subseteq 0 .. Kept

LEMMA KeptBound == Kept \in Int /\ Kept <= Horizon
BY MotionAssumption DEF Kept, Lead, LeftStance

LEMMA KeptInvInit == Init => KeptInv
<1>1. Last(InitialSchedule.events) = 10
  BY DEF InitialSchedule, Last
<1> QED
  BY <1>1 DEF Init, KeptInv

(* Between two solves the present moves on within what is kept.            *)
LEMMA KeptInvControl ==
    ASSUME PromptSolves, MotionInv, KeptInv, NEW dt \in Intervals,
           NEW raw \in RawCommands, NEW vel \in BaseVelocities,
           Control(dt, raw, vel)
    PROVE  KeptInv'
<1>1. dt \in Nat /\ dt <= Kept /\ 0 + dt = dt
  BY KeptBound DEF PromptSolves
<1>2. /\ ~due /\ due' = TRUE
      /\ schedule' = Shift(schedule, dt) /\ published' = Shift(published, dt)
  BY DEF Control
<1>3. /\ Plan(schedule) /\ Plan(published) /\ Last(published.events) >= 2 * Horizon
  BY <1>2 DEF MotionInv
<1>4. /\ ModeAtTime(schedule, dt) = ModeAtTime(published, dt)
      /\ Last(schedule.events) >= Kept
  BY <1>1, <1>2, KeptBound DEF KeptInv
<1>5. /\ Last(schedule'.events) = Last(schedule.events) - dt
      /\ Last(published'.events) = Last(published.events) - dt
      /\ ModeAtTime(schedule', 0) = ModeAtTime(schedule, dt)
      /\ ModeAtTime(published', 0) = ModeAtTime(published, dt)
  <2>1. ASSUME NEW s, Plan(s)
        PROVE  /\ Last(Shift(s, dt).events) = Last(s.events) - dt
               /\ ModeAtTime(Shift(s, dt), 0) = ModeAtTime(s, dt)
    <3>1. /\ Last(Shift(s, dt).events) = Last(s.events) - dt
          /\ \A t \in Int : ModeAtTime(Shift(s, dt), t) = ModeAtTime(s, t + dt)
      BY <1>1, <2>1, ShiftPlan
    <3>2. ModeAtTime(Shift(s, dt), 0) = ModeAtTime(s, 0 + dt)
      BY <3>1
    <3> QED
      BY <1>1, <3>1, <3>2
  <2> QED
    BY <1>2, <1>3, <2>1
<1>6. Last(schedule.events) \in Int /\ Last(published.events) \in Int
  BY <1>3, FirstEventTyped
<1>7. Last(schedule'.events) >= 0 /\ Last(published'.events) >= Horizon
  BY <1>1, <1>3, <1>4, <1>5, <1>6, KeptBound, MotionAssumption
<1>8. /\ (ModeAtTime(schedule, 0) = ModeAtTime(published, 0))'
      /\ (Last(schedule.events) >= 0)' /\ (Last(published.events) >= Horizon)'
  BY <1>4, <1>5, <1>7 DEF ModeAtTime, PhaseAt, EventsBefore, Last
<1> QED
  BY <1>2, <1>8 DEF KeptInv

(* A solve keeps what it finds up to Kept, whatever gait it inserts.       *)
LEMMA KeptInvSolve ==
    ASSUME PromptSolves, MotionInv, KeptInv, Solve
    PROVE  KeptInv'
<1>1. due' = FALSE /\ published' = Published(schedule)
  BY DEF Solve
<1>2. /\ Plan(published') /\ Last(published'.events) >= 2 * Horizon
      /\ published'.events[1] <= FirstEvent
  BY <1>1, PublishedPlan
<1>3. Last(published'.events) \in Int
  BY <1>2, FirstEventTyped
<1>4. Last(published'.events) >= Kept /\ 2 * Horizon >= Kept
  BY <1>2, <1>3, KeptBound, MotionAssumption
<1>5. /\ \A t \in 0 .. Kept : ModeAtTime(schedule', t) = ModeAtTime(published', t)
      /\ Last(schedule'.events) >= Kept
  <2>1. CASE currentGaitMode_' = currentGaitMode_
    <3>1. schedule' = published'
      BY <2>1 DEF Solve
    <3> QED
      BY <1>4, <3>1
  <2>2. CASE currentGaitMode_' # currentGaitMode_
    <3> DEFINE gait == Config(currentGaitMode_').gaitCommand
    <3>1. gait \in DOMAIN GaitMap
      <4>1. currentGaitMode_' \in 0 .. 6
        BY ModeInTable, MotionAssumption DEF Solve, MotionInv
      <4> QED
        BY <4>1, ConfigGaits
    <3>2. schedule' = Updated(published', gait)
      BY <2>2 DEF Solve
    <3> HIDE DEF gait
    <3>3. /\ Last(schedule'.events) >= Kept
          /\ \A x \in Int : 0 <= x /\ x <= Kept /\ x <= Last(published'.events) =>
                 ModeAtTime(schedule', x) = ModeAtTime(published', x)
      BY <1>2, <3>1, <3>2, UpdatedPlan
    <3>4. \A t \in 0 .. Kept : /\ t \in Int /\ 0 <= t /\ t <= Kept
                               /\ t <= Last(published'.events)
      BY <1>3, <1>4, KeptBound
    <3> QED
      BY <3>3, <3>4
  <2> QED
    BY <2>1, <2>2
<1>6. Kept' = Kept
  BY DEF Kept, Lead, LeftStance
<1>7. /\ (\A t \in 0 .. Kept : ModeAtTime(schedule, t) = ModeAtTime(published, t))'
      /\ (Last(schedule.events) >= Kept)'
  BY <1>5, <1>6 DEF ModeAtTime, PhaseAt, EventsBefore, Last
<1> QED
  BY <1>1, <1>7 DEF KeptInv

LEMMA KeptInvNext ==
    ASSUME PromptSolves, MotionInv, KeptInv, [Next]_vars
    PROVE  KeptInv'
<1>1. CASE \E dt \in Intervals, raw \in RawCommands, vel \in BaseVelocities :
               Control(dt, raw, vel)
  BY <1>1, KeptInvControl
<1>2. CASE Solve
  BY <1>2, KeptInvSolve
<1>3. CASE UNCHANGED vars
  <2>1. UNCHANGED <<schedule, published, template, due>>
    BY <1>3 DEF vars
  <2> QED
    BY <2>1 DEF KeptInv, ModeAtTime, PhaseAt, EventsBefore, Last, Kept, Lead, LeftStance,
                InitialSchedule
<1> QED
  BY <1>1, <1>2, <1>3 DEF Next

(* What the first solve publishes is standing, like the schedule of        *)
(* reference.info.                                                         *)
LEMMA FirstPlanStands ==
    ASSUME template = "stance", NEW x \in Int
    PROVE  /\ ModeAtTime(InitialSchedule, x) = "STANCE"
           /\ ModeAtTime(Published(InitialSchedule), x) = "STANCE"
<1> DEFINE initial == InitialSchedule
           p == Published(initial)
<1>1. Plan(initial)
  BY DEF InitialSchedule, Plan, Schedule, ModeNumber, Ascending, NoRepeats,
         ShortStances
<1>2. initial.events = <<10>> /\ initial.modes = <<"STANCE", "STANCE">>
  BY DEF InitialSchedule
<1>3. -Horizon \in Int /\ 2 * Horizon \in Int /\ -Horizon < 0
  BY MotionAssumption
<1>4. EventsBefore(initial.events, -Horizon) = 0
  <2>1. /\ initial.events \in Seq(Int) /\ Ascending(initial.events)
        /\ Len(initial.events) = 1 /\ initial.events[1] = 10
    BY <1>1, <1>2 DEF Plan, Schedule
  <2> HIDE DEF initial
  <2>2. /\ 0 \in 0 .. Len(initial.events)
        /\ \A i \in 1 .. Len(initial.events) :
               i <= 0 <=> initial.events[i] < -Horizon
    BY <1>3, <2>1
  <2> QED
    BY <1>3, <2>1, <2>2, CountIs
<1>5. Trim(initial, -Horizon) = initial
  BY <1>4 DEF Trim
<1> DEFINE stance == WithoutLast(initial).modes
<1>6. stance \in Seq({"STANCE"})
  <2>1. stance = SubSeq(initial.modes, 1, 1)
    BY <1>2 DEF WithoutLast, Front
  <2>2. \A i \in 1 .. 1 : initial.modes[i] \in {"STANCE"}
    BY <1>2
  <2> HIDE DEF initial
  <2> QED
    BY <2>1, <2>2, SubSeqProperties
<1>7. GaitMap["stance"].modes = <<"STANCE">>
  BY DEF GaitMap
<1> HIDE DEF initial
<1> DEFINE start == TilingStart(initial, 2 * Horizon)
           k == 1 * Repetitions(start, 2 * Horizon, GaitMap["stance"].times[1 + 1])
           tiles == [i \in 1 .. k |-> <<"STANCE">>[((i - 1) % 1) + 1]]
<1>8. p.modes = (stance \o tiles) \o <<"STANCE">>
  BY <1>5, <1>7 DEF Published, GetModeSchedule, TileModeSequenceTemplate
<1>9. k \in Nat /\ \A i \in 1 .. k : tiles[i] = "STANCE"
  <2>1. start \in Int
    BY <1>2 DEF TilingStart, Last
  <2>2. GaitMap["stance"].times[1 + 1] = 10
    BY DEF GaitMap
  <2> HIDE DEF start
  <2>3. Repetitions(start, 2 * Horizon, 10) \in Nat
    <3>1. \A final \in Int : Repetitions(start, final, 10) \in Nat
      <4>1. 10 \in Nat /\ 10 > 0
        OBVIOUS
      <4> QED
        BY <2>1, <4>1, RepetitionsReach
    <3> QED
      BY <1>3, <3>1
  <2>4. k \in Nat
    BY <2>2, <2>3
  <2> HIDE DEF k
  <2>5. \A i \in 1 .. k : (i - 1) % 1 = 0
    BY <2>4
  <2> QED
    BY <2>4, <2>5
<1> HIDE DEF k
<1>10. tiles \in Seq({"STANCE"})
  <2>1. tiles \in [1 .. k -> {"STANCE"}]
    BY <1>9
  <2> HIDE DEF tiles
  <2> QED
    BY <1>9, <2>1
<1> HIDE DEF tiles, p, stance
<1>11. p.modes \in Seq({"STANCE"})
  <2> DEFINE one == <<"STANCE">>
  <2>1. one \in Seq({"STANCE"})
    OBVIOUS
  <2>2. p.modes = (stance \o tiles) \o one
    BY <1>8
  <2> HIDE DEF one
  <2>3. stance \o tiles \in Seq({"STANCE"})
    BY <1>6, <1>10, ConcatProperties
  <2> QED
    BY <2>1, <2>2, <2>3, ConcatProperties
<1>12. Plan(p)
  <2>1. "stance" \in DOMAIN GaitMap
    BY DEF GaitMap
  <2> QED
    BY <1>1, <1>3, <2>1, GetModeSchedulePlan DEF Published, p
<1>13. ASSUME NEW s, Plan(s), s.modes \in Seq({"STANCE"})
       PROVE  ModeAtTime(s, x) = "STANCE"
  <2>1. /\ s.events \in Seq(Int) /\ Ascending(s.events)
        /\ Len(s.modes) = Len(s.events) + 1
    BY <1>13 DEF Plan, Schedule
  <2>2. EventsBefore(s.events, x) \in 0 .. Len(s.events)
    BY <2>1, Searches
  <2>3. PhaseAt(s, x) \in 1 .. Len(s.modes)
    BY <2>1, <2>2 DEF PhaseAt
  <2> QED
    BY <1>13, <2>3 DEF ModeAtTime
<1>14. initial.modes \in Seq({"STANCE"})
  BY <1>2
<1> QED
  BY <1>1, <1>11, <1>12, <1>13, <1>14 DEF initial, p

(* One step of PlanKept.                                                   *)
LEMMA SolveKeepsPlan ==
    ASSUME MotionInv, KeptInv, Solve
    PROVE  /\ SameModes(published, published', {0})
           /\ schedule = published =>
                  SameModes(published, published', 0 .. Horizon)
<1>1. due /\ published' = Published(schedule)
  BY DEF Solve
<1>2. /\ ModeAtTime(schedule, 0) = ModeAtTime(published, 0)
      /\ Last(schedule.events) >= 0
      /\ \/ Last(published.events) >= Horizon
         \/ /\ schedule = InitialSchedule /\ published = InitialSchedule
            /\ template = "stance"
  BY <1>1 DEF KeptInv
<1>3. \A x \in Int : -Horizon <= x /\ x <= Last(schedule.events) =>
          ModeAtTime(published', x) = ModeAtTime(schedule, x)
  BY <1>1, PublishedPlan
<1>4. SameModes(published, published', {0})
  <2>1. -Horizon <= 0 /\ 0 \in Int
    BY MotionAssumption
  <2>2. ModeAtTime(published', 0) = ModeAtTime(schedule, 0)
    BY <1>2, <1>3, <2>1
  <2> QED
    BY <1>2, <2>2 DEF SameModes
<1>5. ASSUME schedule = published
      PROVE  SameModes(published, published', 0 .. Horizon)
  <2>1. CASE Last(published.events) >= Horizon
    <3>1. Last(published.events) \in Int
      BY FirstEventTyped DEF MotionInv
    <3>2. \A t \in 0 .. Horizon : /\ t \in Int /\ -Horizon <= t
                                  /\ t <= Last(published.events)
      BY <2>1, <3>1, MotionAssumption
    <3> QED
      BY <1>3, <1>5, <3>2 DEF SameModes
  <2>2. CASE /\ schedule = InitialSchedule /\ published = InitialSchedule
             /\ template = "stance"
    <3>1. \A t \in 0 .. Horizon : t \in Int
      BY MotionAssumption
    <3> QED
      BY <1>1, <2>2, <3>1, FirstPlanStands DEF SameModes
  <2> QED
    BY <1>2, <2>1, <2>2
<1> QED
  BY <1>4, <1>5

(* A solve finds the feet in the contacts the previous one planned for     *)
(* this moment, and keeps the whole horizon where it inserts no gait: for  *)
(* every horizon and all solves not further apart than the time by which   *)
(* seven tenths of the horizon exceed the longest left stance.             *)
THEOREM PlanKeptHolds ==
    ASSUME PromptSolves
    PROVE  Spec => PlanKept
<1>1. Init => MotionInv /\ KeptInv
  BY MotionInvInit, KeptInvInit
<1>2. MotionInv /\ KeptInv /\ [Next]_vars => (MotionInv /\ KeptInv)'
  BY MotionInvNext, KeptInvNext
<1>3. MotionInv /\ KeptInv /\ [Next]_vars =>
          [Solve =>
              /\ SameModes(published, published', {0})
              /\ schedule = published =>
                     SameModes(published, published', 0 .. Horizon)]_vars
  BY SolveKeepsPlan
<1> QED
  BY <1>1, <1>2, <1>3, PTL DEF Spec, PlanKept

-----------------------------------------------------------------------------
(* What SwingKept rests on. A solve forgets what ended a horizon ago, so   *)
(* no foot may fly so long that its take-off is forgotten before it lands; *)
(* and flights grow only where one gait is tiled on to another. First, how *)
(* a schedule goes on when a gait is tiled on to it or inserted into it.   *)

(* The times of gait.info: of a flight, and of a stance before a flight.   *)
FlightTime == 2
RunStance  == 6

(* Flights occur in run only, between stances on different feet.           *)
GaitPhases(t, n, gait) ==
    \A b \in 1 .. n :
        /\ t.modes[b] = "FLY" =>
               /\ t.times[b + 1] - t.times[b] <= FlightTime /\ gait = "run"
               /\ \/ b \in 2 .. n - 1 /\ t.modes[b - 1] = "LF" /\ t.modes[b + 1] = "RF"
                  \/ b = n /\ n > 1 /\ t.modes[b - 1] = "RF"
        /\ t.modes[b] \in {"LF", "RF"} => t.times[b + 1] - t.times[b] <= LeftStance
        /\ b < n /\ t.modes[b] = "LF" /\ t.modes[b + 1] = "FLY" =>
               t.times[b + 1] - t.times[b] <= RunStance

(* A schedule from phase j on, where the gait is tiled.                    *)
RunsOn(p, j, gait) ==
    \A i \in j + 1 .. Len(p.events) :
        LET mode == p.modes[i]
            time == p.events[i] - p.events[i - 1]
        IN  /\ mode = "FLY" =>
                   /\ time <= FlightTime /\ gait = "run" /\ i > j + 1
                   /\ \/ p.modes[i - 1] = "LF" /\ p.modes[i + 1] = "RF" /\ i < Len(p.events)
                      \/ p.modes[i - 1] = "RF" /\ p.modes[i + 1] \in {"LF", "STANCE"}
            /\ mode \in {"LF", "RF"} => time <= LeftStance
            /\ mode = "LF" /\ p.modes[i + 1] = "FLY" => time <= RunStance

(* Every gait of gait.info is of this shape.                               *)
LEMMA GaitPhasesOfTheMap ==
    ASSUME NEW gait \in DOMAIN GaitMap
    PROVE  \E n \in {1, 2, 4} :
               Template(GaitMap[gait], n) /\ GaitPhases(GaitMap[gait], n, gait)
<1>1. CASE gait = "stance"
  BY <1>1, GaitMapTemplates DEF GaitMap, Template, GaitPhases, LeftStance
<1>2. CASE gait \in {"slow_walk", "walk"}
  <2>1. GaitPhases(GaitMap["slow_walk"], 4, "slow_walk")
    BY DEF GaitMap, GaitPhases, LeftStance
  <2>2. GaitPhases(GaitMap["walk"], 4, "walk")
    BY DEF GaitMap, GaitPhases, LeftStance
  <2>3. Len(GaitMap[gait].modes) = 4
    BY <1>2 DEF GaitMap
  <2> QED
    BY <1>2, <2>1, <2>2, <2>3, GaitMapTemplates DEF Template
<1>3. CASE gait \in {"slower_trot", "slow_trot", "trot"}
  <2>1. GaitPhases(GaitMap["slower_trot"], 2, "slower_trot")
    BY DEF GaitMap, GaitPhases, LeftStance
  <2>2. GaitPhases(GaitMap["slow_trot"], 2, "slow_trot")
    BY DEF GaitMap, GaitPhases, LeftStance
  <2>3. GaitPhases(GaitMap["trot"], 2, "trot")
    BY DEF GaitMap, GaitPhases, LeftStance
  <2>4. Len(GaitMap[gait].modes) = 2
    BY <1>3 DEF GaitMap
  <2> QED
    BY <1>3, <2>1, <2>2, <2>3, <2>4, GaitMapTemplates DEF Template
<1>4. CASE gait = "run"
  <2>1. GaitPhases(GaitMap["run"], 4, "run")
    BY DEF GaitMap, GaitPhases, LeftStance, RunStance, FlightTime
  <2>2. Len(GaitMap["run"].modes) = 4
    BY DEF GaitMap
  <2> QED
    BY <1>4, <2>1, <2>2, GaitMapTemplates DEF Template
<1> QED
  BY <1>1, <1>2, <1>3, <1>4 DEF GaitMap

(* Tiles run on as their gait does.                                        *)
LEMMA TileRuns ==
    ASSUME NEW p, NEW s, NEW t, NEW n \in {1, 2, 4}, NEW start \in Int,
           NEW r \in Nat, NEW gait,
           Len(s.events) \in Nat, Tiled(p, s, t, n, start, n * r),
           Template(t, n), GaitPhases(t, n, gait)
    PROVE  /\ RunsOn(p, Len(s.events) + 1, gait)
           /\ p.modes[Len(s.events) + 2] \in {"LF", "STANCE"}
<1> DEFINE m == Len(s.events)
           k == n * r
           time(i) == TileTime(t, n, start, i)
           mode(i) == TileMode(t, n, i)
           b(i) == ((i - 1) % n) + 1
<1>10. m \in Nat /\ k \in Nat
  OBVIOUS
<1>1. /\ m \in Nat /\ k \in Nat /\ Len(p.events) = m + 1 + k
      /\ p.events[m + 1] = start
      /\ \A i \in 1 .. k : p.events[m + 1 + i] = time(i)
      /\ \A i \in 1 .. k : p.modes[m + 1 + i] = mode(i)
      /\ p.modes[m + 1 + k + 1] = "STANCE"
  BY <1>10 DEF Tiled
<1>2. ASSUME NEW i \in 1 .. k
      PROVE  /\ b(i) \in 1 .. n /\ mode(i) = t.modes[b(i)]
             /\ time(i) - (IF i = 1 THEN start ELSE time(i - 1))
                    = t.times[b(i) + 1] - t.times[b(i)]
             /\ i = 1 => b(i) = 1
             /\ i = k => b(i) = n
             /\ i # 1 => b(i - 1) = IF b(i) = 1 THEN n ELSE b(i) - 1
             /\ i # k => b(i + 1) = IF b(i) = n THEN 1 ELSE b(i) + 1
  <2>1. i \in Nat /\ i - 1 \in Nat /\ i <= k
    <3> HIDE DEF k
    <3> QED
      BY <1>10
  <2>2. (i - 1) % n \in 0 .. n - 1
    BY <2>1
  <2>3. b(i) \in 1 .. n /\ mode(i) = t.modes[b(i)]
    BY <2>2 DEF TileMode
  <2>4. ((i - 1) % n) + 2 = b(i) + 1
    BY <2>2
  <2>5. time(i) - (IF i = 1 THEN start ELSE time(i - 1))
            = t.times[((i - 1) % n) + 2] - t.times[((i - 1) % n) + 1]
    BY TileDurations DEF TileTime
  <2>6. i = 1 => b(i) = 1
    OBVIOUS
  <2>7. i = k => b(i) = n
    <3> SUFFICES ASSUME i = k PROVE b(i) = n
      OBVIOUS
    <3>1. r > 0
      BY <2>1
    <3>2. (n * r - 1) % n = n - 1
      BY <3>1, LastTile
    <3> QED
      BY <3>2
  <2>8. i # 1 => b(i - 1) = IF b(i) = 1 THEN n ELSE b(i) - 1
    <3> SUFFICES ASSUME i # 1 PROVE b(i - 1) = IF b(i) = 1 THEN n ELSE b(i) - 1
      OBVIOUS
    <3> DEFINE c == i - 1
    <3>1. c \in Nat /\ c > 0 /\ i - 1 = c /\ (i - 1) - 1 = c - 1
      BY <2>1
    <3> HIDE DEF c
    <3>2. IF c % n = 0 THEN (c - 1) % n = n - 1 ELSE (c - 1) % n = (c % n) - 1
      BY <3>1, Predecessor
    <3>3. c % n \in 0 .. n - 1
      BY <3>1
    <3> QED
      BY <3>1, <3>2, <3>3
  <2>9. b(i + 1) = IF b(i) = n THEN 1 ELSE b(i) + 1
    <3> DEFINE c == i - 1
    <3>1. c \in Nat /\ i - 1 = c /\ (i + 1) - 1 = c + 1
      BY <2>1
    <3> HIDE DEF c
    <3>2. IF c % n = n - 1 THEN (c + 1) % n = 0 ELSE (c + 1) % n = (c % n) + 1
      BY <3>1, Successor
    <3>3. c % n \in 0 .. n - 1
      BY <3>1
    <3> QED
      BY <3>1, <3>2, <3>3
  <2> HIDE DEF k, mode, time
  <2> QED
    BY <2>3, <2>4, <2>5, <2>6, <2>7, <2>8, <2>9
<1>0. \A i \in 1 .. k : i # 1 => mode(i - 1) = t.modes[b(i - 1)]
  BY DEF TileMode
<1>9. \A i \in 1 .. k : mode(i + 1) = t.modes[b(i + 1)]
  BY DEF TileMode
<1> HIDE DEF m, k, time, mode, b
<1>3. ASSUME NEW i \in m + 2 .. m + 1 + k
      PROVE  LET a == i - (m + 1) IN
             /\ a \in 1 .. k /\ p.modes[i] = t.modes[b(a)]
             /\ p.events[i] - p.events[i - 1] = t.times[b(a) + 1] - t.times[b(a)]
             /\ a # 1 => p.modes[i - 1] = t.modes[b(a - 1)]
             /\ p.modes[i + 1] = IF a = k THEN "STANCE" ELSE t.modes[b(a + 1)]
  <2> DEFINE a == i - (m + 1)
  <2>1. a \in 1 .. k /\ i = m + 1 + a
    BY <1>10
  <2> HIDE DEF a
  <2>2. p.modes[i] = t.modes[b(a)] /\ p.events[i] = time(a)
    BY <1>1, <1>2, <2>1
  <2>3. a = 1 => p.events[i - 1] = start
    BY <1>1, <2>1
  <2>4. a # 1 => p.events[i - 1] = time(a - 1) /\ p.modes[i - 1] = t.modes[b(a - 1)]
    <3> SUFFICES ASSUME a # 1
                 PROVE  p.events[i - 1] = time(a - 1) /\ p.modes[i - 1] = t.modes[b(a - 1)]
      OBVIOUS
    <3>1. a - 1 \in 1 .. k /\ i - 1 = m + 1 + (a - 1)
      BY <1>1, <2>1
    <3> QED
      BY <1>0, <1>1, <2>1, <3>1
  <2>5. a = k => p.modes[i + 1] = "STANCE"
    <3> SUFFICES ASSUME a = k PROVE p.modes[i + 1] = "STANCE"
      OBVIOUS
    <3>1. i + 1 = m + 1 + k + 1
      BY <1>1, <2>1
    <3> QED
      BY <1>1, <3>1
  <2>6. a # k => p.modes[i + 1] = t.modes[b(a + 1)]
    <3> SUFFICES ASSUME a # k PROVE p.modes[i + 1] = t.modes[b(a + 1)]
      OBVIOUS
    <3>1. a + 1 \in 1 .. k /\ i + 1 = m + 1 + (a + 1)
      BY <1>10, <2>1
    <3> QED
      BY <1>1, <1>9, <2>1, <3>1
  <2>7. p.events[i] - p.events[i - 1] = time(a) - (IF a = 1 THEN start ELSE time(a - 1))
    BY <2>2, <2>3, <2>4
  <2>8. p.events[i] - p.events[i - 1] = t.times[b(a) + 1] - t.times[b(a)]
    BY <1>2, <2>1, <2>7
  <2> QED
    BY <2>1, <2>2, <2>4, <2>5, <2>6, <2>8 DEF a
<1>4. t.modes[1] \in {"LF", "STANCE"} /\ t.modes[n] # "LF"
  BY DEF Template
<1>5. ASSUME NEW i \in m + 2 .. m + 1 + k
      PROVE  LET time_ == p.events[i] - p.events[i - 1]
             IN  /\ p.modes[i] = "FLY" =>
                       /\ time_ <= FlightTime /\ gait = "run" /\ i > m + 2
                       /\ \/ p.modes[i - 1] = "LF" /\ p.modes[i + 1] = "RF" /\ i < m + 1 + k
                          \/ p.modes[i - 1] = "RF" /\ p.modes[i + 1] \in {"LF", "STANCE"}
                 /\ p.modes[i] \in {"LF", "RF"} => time_ <= LeftStance
                 /\ p.modes[i] = "LF" /\ p.modes[i + 1] = "FLY" => time_ <= RunStance
  <2> DEFINE a == i - (m + 1)
  <2>1. /\ a \in 1 .. k /\ p.modes[i] = t.modes[b(a)]
        /\ p.events[i] - p.events[i - 1] = t.times[b(a) + 1] - t.times[b(a)]
        /\ a # 1 => p.modes[i - 1] = t.modes[b(a - 1)]
        /\ p.modes[i + 1] = IF a = k THEN "STANCE" ELSE t.modes[b(a + 1)]
        /\ i = m + 1 + a
    <3>1. i = m + 1 + a
      BY <1>10
    <3> QED
      BY <1>3, <3>1
  <2> HIDE DEF a
  <2>2. /\ b(a) \in 1 .. n
        /\ a = 1 => b(a) = 1
        /\ a = k => b(a) = n
        /\ a # 1 => b(a - 1) = IF b(a) = 1 THEN n ELSE b(a) - 1
        /\ a # k => b(a + 1) = IF b(a) = n THEN 1 ELSE b(a) + 1
    BY <1>2, <2>1
  <2>3. PICK c \in 1 .. n : c = b(a)
    BY <2>2
  <2>4. /\ t.modes[c] = "FLY" =>
               /\ t.times[c + 1] - t.times[c] <= FlightTime /\ gait = "run"
               /\ \/ c \in 2 .. n - 1 /\ t.modes[c - 1] = "LF" /\ t.modes[c + 1] = "RF"
                  \/ c = n /\ n > 1 /\ t.modes[c - 1] = "RF"
        /\ t.modes[c] \in {"LF", "RF"} => t.times[c + 1] - t.times[c] <= LeftStance
        /\ c < n /\ t.modes[c] = "LF" /\ t.modes[c + 1] = "FLY" =>
               t.times[c + 1] - t.times[c] <= RunStance
    BY DEF GaitPhases
  <2>5. /\ p.modes[i] = t.modes[c]
        /\ p.events[i] - p.events[i - 1] = t.times[c + 1] - t.times[c]
        /\ c # 1 => a # 1 /\ p.modes[i - 1] = t.modes[c - 1]
        /\ c # n => a # k /\ p.modes[i + 1] = t.modes[c + 1]
        /\ c = n => p.modes[i + 1] \in {"STANCE", t.modes[1]}
    BY <2>1, <2>2, <2>3
  <2>6. a # 1 => i > m + 2
    BY <1>1, <2>1
  <2>7. a # k => i < m + 1 + k
    BY <1>1, <2>1
  <2>8. ASSUME p.modes[i] = "FLY"
        PROVE  /\ p.events[i] - p.events[i - 1] <= FlightTime /\ gait = "run" /\ i > m + 2
               /\ \/ p.modes[i - 1] = "LF" /\ p.modes[i + 1] = "RF" /\ i < m + 1 + k
                  \/ p.modes[i - 1] = "RF" /\ p.modes[i + 1] \in {"LF", "STANCE"}
    <3>1. CASE c \in 2 .. n - 1 /\ t.modes[c - 1] = "LF" /\ t.modes[c + 1] = "RF"
      <4>1. c # 1 /\ c # n
        BY <3>1
      <4> QED
        BY <2>4, <2>5, <2>6, <2>7, <2>8, <3>1, <4>1
    <3>2. CASE c = n /\ n > 1 /\ t.modes[c - 1] = "RF"
      <4>1. c # 1
        BY <3>2
      <4> QED
        BY <1>4, <2>4, <2>5, <2>6, <2>8, <3>2, <4>1
    <3> QED
      BY <2>4, <2>5, <2>8, <3>1, <3>2
  <2>9. p.modes[i] \in {"LF", "RF"} => p.events[i] - p.events[i - 1] <= LeftStance
    BY <2>4, <2>5
  <2>10. ASSUME p.modes[i] = "LF", p.modes[i + 1] = "FLY"
         PROVE  p.events[i] - p.events[i - 1] <= RunStance
    <3>1. c # n
      BY <1>4, <2>5, <2>10
    <3>2. c < n
      BY <3>1
    <3> QED
      BY <2>4, <2>5, <2>10, <3>1, <3>2
  <2> QED
    BY <2>8, <2>9, <2>10
<1>6. RunsOn(p, m + 1, gait)
  <2>1. (m + 1) + 1 = m + 2
    BY <1>1
  <2> QED
    BY <1>1, <1>5, <2>1 DEF RunsOn
<1>7. p.modes[m + 2] \in {"LF", "STANCE"}
  <2>1. CASE k = 0
    <3>1. m + 1 + k + 1 = m + 2
      BY <1>1, <2>1
    <3> QED
      BY <1>1, <3>1
  <2>2. CASE k # 0
    <3>1. m + 2 \in m + 2 .. m + 1 + k /\ (m + 2) - (m + 1) = 1
      BY <1>1, <2>2
    <3>2. 1 \in 1 .. k
      BY <1>1, <2>2
    <3>3. b(1) = 1
      BY <1>2, <3>2
    <3>4. p.modes[m + 2] = t.modes[b(1)]
      BY <1>3, <3>1
    <3> QED
      BY <1>4, <3>3, <3>4
  <2> QED
    BY <2>1, <2>2
<1> QED
  BY <1>6, <1>7 DEF m

(* A schedule under construction that keeps the first k phases of a plan,  *)
(* with or without a standing phase after them, and where it is tiled on.  *)
Reopens(r, s, k, start) ==
    /\ \A i \in 1 .. k - 1 : r.events[i] = s.events[i]
    /\ \A i \in 1 .. k : r.modes[i] = s.modes[i]
    /\ \/ Len(r.events) = k - 1 /\ start = s.events[k]
       \/ /\ Len(r.events) = k /\ r.events[k] = s.events[k]
          /\ r.modes[k + 1] = "STANCE"

(* The schedule p goes on from the first k phases of s in a gait.          *)
Continues(p, s, k, gait) ==
    /\ k \in 1 .. Len(s.events) /\ k <= Len(p.events)
    /\ \A i \in 1 .. k : p.events[i] = s.events[i] /\ p.modes[i] = s.modes[i]
    /\ p.modes[k + 1] \in {"LF", "STANCE"}
    /\ RunsOn(p, k, gait)

(* Tiling on continues it.                                                 *)
LEMMA TileContinues ==
    ASSUME NEW s, NEW r, OpenPlan(r), NEW k \in 1 .. Len(s.events),
           Len(s.events) \in Nat, NEW start \in Int, Reopens(r, s, k, start),
           NEW gait \in DOMAIN GaitMap, NEW final \in Int
    PROVE  Continues(TileModeSequenceTemplate(r, GaitMap[gait], start, final),
                     s, k, gait)
<1> DEFINE t == GaitMap[gait]
           p == TileModeSequenceTemplate(r, t, start, final)
           m == Len(r.events)
<1>1. PICK n \in {1, 2, 4} : Template(t, n) /\ GaitPhases(t, n, gait)
  BY GaitPhasesOfTheMap
<1> HIDE DEF t
<1>2. PICK c \in Nat : c = Repetitions(start, final, t.times[n + 1])
  <2>1. 1 \in 1 .. n + 1 /\ n + 1 \in 1 .. n + 1 /\ 1 < n + 1
    OBVIOUS
  <2>3. t.times[1] = 0 /\ t.times[1] < t.times[n + 1] /\ t.times[n + 1] \in Nat
    BY <1>1, <2>1 DEF Template
  <2> QED
    BY <2>3, RepetitionsReach
<1>3. Tiled(p, r, t, n, start, n * c)
  BY <1>1, <1>2, TileShape
<1>4. m \in Nat
  BY DEF OpenPlan
<1> HIDE DEF p
<1>5. RunsOn(p, m + 1, gait) /\ p.modes[m + 2] \in {"LF", "STANCE"}
  BY <1>1, <1>2, <1>3, <1>4, TileRuns
<1>6. PICK d \in Nat : d = n * c
  BY <1>2
<1>7. /\ Len(p.events) >= m + 1
      /\ \A i \in 1 .. m : p.events[i] = r.events[i]
      /\ p.events[m + 1] = start
      /\ \A i \in 1 .. m + 1 : p.modes[i] = r.modes[i]
  <2>1. Len(p.events) = m + 1 + d
    BY <1>3, <1>6 DEF Tiled
  <2>2. Len(p.events) >= m + 1
    <3> HIDE DEF m
    <3> QED
      BY <1>4, <2>1
  <2> QED
    BY <1>3, <2>2 DEF Tiled
<1>8. /\ \A i \in 1 .. k - 1 : r.events[i] = s.events[i]
      /\ \A i \in 1 .. k : r.modes[i] = s.modes[i]
  BY DEF Reopens
<1>9. k \in Nat /\ k >= 1
  OBVIOUS
<1> HIDE DEF m
<1>10. CASE m = k - 1 /\ start = s.events[k]
  <2>1. m + 1 = k /\ m + 2 = k + 1
    BY <1>4, <1>9, <1>10
  <2>2. \A i \in 1 .. k : p.events[i] = s.events[i] /\ p.modes[i] = s.modes[i]
    <3>1. \A i \in 1 .. k : i \in 1 .. m \/ i = m + 1
      BY <1>4, <1>9, <2>1
    <3> QED
      BY <1>7, <1>8, <1>10, <2>1, <3>1
  <2> QED
    BY <1>5, <1>7, <2>1, <2>2 DEF Continues, p, t
<1>11. CASE m = k /\ r.events[k] = s.events[k] /\ r.modes[k + 1] = "STANCE"
  <2>1. \A i \in 1 .. k : p.events[i] = s.events[i] /\ p.modes[i] = s.modes[i]
    <3>1. \A i \in 1 .. k : /\ i \in 1 .. m /\ i \in 1 .. m + 1
                            /\ i \in 1 .. k - 1 \/ i = k
      BY <1>9, <1>11
    <3> QED
      BY <1>7, <1>8, <1>11, <3>1
  <2>2. p.modes[k + 1] = "STANCE"
    <3>1. k + 1 \in 1 .. m + 1
      BY <1>9, <1>11
    <3> QED
      BY <1>7, <1>11, <3>1
  <2>3. RunsOn(p, k, gait)
    <3> SUFFICES ASSUME NEW i \in k + 1 .. Len(p.events)
                 PROVE  LET mode == p.modes[i]
                            time == p.events[i] - p.events[i - 1]
                        IN  /\ mode = "FLY" =>
                                   /\ time <= FlightTime /\ gait = "run" /\ i > k + 1
                                   /\ \/ /\ p.modes[i - 1] = "LF" /\ p.modes[i + 1] = "RF"
                                         /\ i < Len(p.events)
                                      \/ /\ p.modes[i - 1] = "RF"
                                         /\ p.modes[i + 1] \in {"LF", "STANCE"}
                            /\ mode \in {"LF", "RF"} => time <= LeftStance
                            /\ mode = "LF" /\ p.modes[i + 1] = "FLY" => time <= RunStance
      BY DEF RunsOn
    <3>1. CASE i = k + 1
      BY <2>2, <3>1
    <3>2. CASE i # k + 1
      <4>1. i \in (m + 1) + 1 .. Len(p.events) /\ i > k + 1
        BY <1>9, <1>11, <3>2
      <4> QED
        BY <1>5, <4>1 DEF RunsOn
    <3> QED
      BY <3>1, <3>2
  <2>4. k <= Len(p.events)
    BY <1>9, <1>7, <1>11
  <2> QED
    BY <2>1, <2>2, <2>3, <2>4 DEF Continues, p, t
<1> QED
  BY <1>10, <1>11 DEF Reopens, m

(* Without its last standing phase a plan is tiled on from its last event. *)
LEMMA WithoutLastReopens ==
    ASSUME NEW s, Plan(s)
    PROVE  Reopens(WithoutLast(s), s, Len(s.events), Last(s.events))
<1> DEFINE r == WithoutLast(s)
<1>1. PICK m \in Nat :
           /\ m = Len(s.events) /\ m >= 1
           /\ s.events \in [1 .. m -> Int]
           /\ \A i, j \in 1 .. m : i < j => s.events[i] < s.events[j]
  BY PlanFacts
<1>2. Extends(s, r, Last(s.events)) /\ Len(r.events) \in Nat
  BY WithoutLastOpen DEF OpenPlan
<1> HIDE DEF r
<1>3. Last(s.events) = s.events[m]
  BY <1>1 DEF Last
<1>4. /\ Len(r.events) + 1 \in 1 .. m /\ s.events[Len(r.events) + 1] = s.events[m]
      /\ \A i \in 1 .. Len(r.events) : s.events[i] = r.events[i]
      /\ \A i \in 1 .. Len(r.events) + 1 : s.modes[i] = r.modes[i]
  BY <1>1, <1>2, <1>3 DEF Extends
<1>5. Len(r.events) + 1 = m
  <2> SUFFICES ASSUME Len(r.events) + 1 # m PROVE FALSE
    OBVIOUS
  <2>1. Len(r.events) + 1 < m /\ m \in 1 .. m
    BY <1>1, <1>2, <1>4
  <2>2. s.events[Len(r.events) + 1] < s.events[m] /\ s.events[m] \in Int
    BY <1>1, <1>4, <2>1
  <2> QED
    BY <1>4, <2>2
<1>6. Len(r.events) = m - 1
  BY <1>2, <1>5
<1> QED
  BY <1>1, <1>3, <1>4, <1>5, <1>6 DEF Reopens, r

(* So does a plan that is cut for a new gait.                              *)
LEMMA TransitionReopens ==
    ASSUME NEW s, Plan(s), NEW k \in 1 .. Len(s.events), NEW start,
           start = s.events[k]
    PROVE  LET kept == Cut(s, start)
               r == AddTransition(kept, start, TransitionStance)
           IN  Reopens(r, s, k, start + TransitionTime(kept, TransitionStance))
<1> DEFINE kept == Cut(s, start)
           r == AddTransition(kept, start, TransitionStance)
           time == TransitionTime(kept, TransitionStance)
<1>1. k \in Nat /\ k >= 1 /\ start \in Int
  <2>1. s.events \in Seq(Int)
    BY DEF Plan, Schedule
  <2> QED
    BY <2>1
<1>2. /\ kept.events \in Seq(Int) /\ kept.modes \in Seq(ModeNumber)
      /\ Len(kept.events) = k - 1 /\ Len(kept.modes) = k
      /\ \A i \in 1 .. k - 1 : kept.events[i] = s.events[i]
      /\ \A i \in 1 .. k : kept.modes[i] = s.modes[i]
  BY CutOpen
<1>3. time \in Nat
  BY MotionAssumption DEF TransitionTime
<1> HIDE DEF kept, time
<1>4. CASE time > 0
  <2> DEFINE E == Append(kept.events, start)
             M == Append(kept.modes, "STANCE")
  <2>1. r = [events |-> E, modes |-> M]
    BY <1>4 DEF AddTransition, time
  <2>2. /\ Len(E) = k /\ E[k] = start
        /\ \A i \in 1 .. k - 1 : E[i] = kept.events[i]
    <3>1. /\ Len(E) = Len(kept.events) + 1
          /\ E[Len(kept.events) + 1] = start
          /\ \A i \in 1 .. Len(kept.events) : E[i] = kept.events[i]
      BY <1>1, <1>2, AppendProperties
    <3> HIDE DEF E
    <3>2. Len(kept.events) + 1 = k
      BY <1>1, <1>2
    <3> QED
      BY <1>2, <3>1, <3>2
  <2>3. /\ M[k + 1] = "STANCE"
        /\ \A i \in 1 .. k : M[i] = kept.modes[i]
    <3>1. "STANCE" \in ModeNumber
      BY DEF ModeNumber
    <3> QED
      BY <1>2, <3>1, AppendProperties
  <2> HIDE DEF E, M
  <2>4. r.events = E /\ r.modes = M
    BY <2>1
  <2> HIDE DEF r
  <2>5. Reopens(r, s, k, start + time)
    BY <1>2, <2>2, <2>3, <2>4 DEF Reopens
  <2> QED
    BY <2>5 DEF r, kept, time
<1>5. CASE ~(time > 0)
  <2>1. r = kept
    BY <1>5 DEF AddTransition, time
  <2>2. start + time = start
    BY <1>1, <1>3, <1>5
  <2> HIDE DEF r
  <2>3. Reopens(r, s, k, start + time)
    BY <1>2, <2>1, <2>2 DEF Reopens
  <2> QED
    BY <2>3 DEF r, kept, time
<1> QED
  BY <1>4, <1>5

(* What getModeSchedule returns continues what it has not forgotten.       *)
LEMMA GetModeScheduleContinues ==
    ASSUME NEW s, Plan(s), NEW gait \in DOMAIN GaitMap,
           NEW lower \in Int, NEW upper \in Int
    PROVE  LET kept == Trim(s, lower)
           IN  Continues(GetModeSchedule(s, GaitMap[gait], lower, upper), kept,
                         Len(kept.events), gait)
<1> DEFINE kept == Trim(s, lower)
           open == WithoutLast(kept)
           m == Len(kept.events)
<1>1. Plan(kept)
  BY TrimPlan
<1>2. kept.events # <<>> /\ m \in Nat /\ m \in 1 .. m /\ Last(kept.events) \in Int
  <2>1. kept.events \in Seq(Int) /\ kept.events # <<>>
    BY <1>1 DEF Plan, Schedule
  <2>2. m \in Nat /\ m >= 1
    BY <2>1
  <2> QED
    BY <2>1, <2>2 DEF Last
<1>3. OpenPlan(open) /\ Reopens(open, kept, m, Last(kept.events))
  BY <1>1, WithoutLastOpen, WithoutLastReopens
<1>4. TilingStart(kept, upper) = Last(kept.events)
  BY <1>2 DEF TilingStart
<1>5. GetModeSchedule(s, GaitMap[gait], lower, upper) =
          TileModeSequenceTemplate(open, GaitMap[gait], Last(kept.events), upper)
  BY <1>4 DEF GetModeSchedule
<1> HIDE DEF kept, open
<1>6. Continues(TileModeSequenceTemplate(open, GaitMap[gait], Last(kept.events), upper),
                kept, m, gait)
  BY <1>2, <1>3, TileContinues
<1> QED
  BY <1>5, <1>6 DEF kept

(* What insertModeSequenceTemplate returns continues the plan up to the    *)
(* event it starts from.                                                   *)
LEMMA InsertContinues ==
    ASSUME NEW s, Plan(s), NEW k \in 1 .. Len(s.events), NEW start,
           start = s.events[k], s.modes[k] # "LF",
           NEW gait \in DOMAIN GaitMap, NEW final \in Int
    PROVE  Continues(InsertModeSequenceTemplate(s, GaitMap[gait], TransitionStance,
                                                start, final),
                     s, k, gait)
<1> DEFINE kept == Cut(s, start)
           r == AddTransition(kept, start, TransitionStance)
           from == start + TransitionTime(kept, TransitionStance)
<1>1. OpenPlan(r) /\ from \in Int
  BY TransitionOpen
<1>2. Reopens(r, s, k, from)
  BY TransitionReopens
<1>3. Len(s.events) \in Nat
  BY DEF Plan, Schedule
<1>4. InsertModeSequenceTemplate(s, GaitMap[gait], TransitionStance, start, final) =
          TileModeSequenceTemplate(r, GaitMap[gait], from, final)
  BY DEF InsertModeSequenceTemplate
<1> HIDE DEF r, from
<1>5. Continues(TileModeSequenceTemplate(r, GaitMap[gait], from, final), s, k, gait)
  BY <1>1, <1>2, <1>3, TileContinues
<1> QED
  BY <1>4, <1>5

(* What is left of a plan is the plan from phase d + 1 on, but for the     *)
(* first mode.                                                             *)
From(r, s, d) ==
    LET n == Len(s.events) - d
    IN  /\ Len(r.events) = n /\ Len(r.modes) = n + 1
        /\ \A i \in 1 .. n : r.events[i] = s.events[d + i]
        /\ r.modes[1] = "STANCE"
        /\ \A i \in 2 .. n + 1 : r.modes[i] = s.modes[d + i]

(* Trim keeps the last event before its bound, if there is one.            *)
LEMMA TrimShape ==
    ASSUME NEW s, Plan(s), NEW lower \in Int
    PROVE  \E d \in 0 .. Len(s.events) - 1 :
               /\ From(Trim(s, lower), s, d)
               /\ (Trim(s, lower) = s /\ d = 0) \/ s.events[d + 1] < lower
<1> DEFINE r == Trim(s, lower)
<1>1. PICK m \in Nat :
           /\ m = Len(s.events) /\ m >= 1
           /\ s.events \in [1 .. m -> Int] /\ s.modes \in [1 .. m + 1 -> ModeNumber]
           /\ Len(s.modes) = m + 1
           /\ s.modes[1] = "STANCE"
  BY PlanFacts
<1>2. PICK k \in 0 .. m : /\ k = EventsBefore(s.events, lower)
                          /\ \A i \in 1 .. m : i <= k <=> s.events[i] < lower
  <2>1. s.events \in Seq(Int) /\ Ascending(s.events)
    BY DEF Plan, Schedule
  <2> QED
    BY <1>1, <2>1, Searches
<1>3. CASE k = 0
  <2>1. r = s
    BY <1>2, <1>3 DEF Trim
  <2>2. From(s, s, 0)
    <3>1. m - 0 = m /\ \A i \in Nat : 0 + i = i
      BY <1>1
    <3> QED
      BY <1>1, <3>1 DEF From
  <2>3. 0 \in 0 .. Len(s.events) - 1
    BY <1>1
  <2> QED
    BY <2>1, <2>2, <2>3
<1>4. CASE k # 0
  <2> DEFINE E == SubSeq(s.events, k, m)
             N == SubSeq(s.modes, k, m + 1)
             M == [N EXCEPT ![1] = "STANCE"]
             d == k - 1
  <2>0. m \in Nat /\ k \in Nat /\ 1 <= k /\ k <= m
    BY <1>1, <1>4
  <2>1. r = [events |-> E, modes |-> M]
    BY <1>1, <1>2, <1>4 DEF Trim
  <2>2. /\ Len(E) = m - k + 1
        /\ \A i \in 1 .. m - k + 1 : E[i] = s.events[k + i - 1]
    <3>1. \A i \in k .. m : s.events[i] \in Int
      BY <1>1, <2>0
    <3> QED
      BY <2>0, <3>1, SubSeqProperties
  <2>3. /\ N \in Seq(ModeNumber) /\ Len(N) = m - k + 2
        /\ \A i \in 1 .. m - k + 2 : N[i] = s.modes[k + i - 1]
    <3>0. s.modes \in [1 .. m + 1 -> ModeNumber]
      BY <1>1
    <3>1. \A i \in k .. m + 1 : s.modes[i] \in ModeNumber
      BY <2>0, <3>0
    <3>2. k <= m + 1 /\ (m + 1) - k + 1 = m - k + 2
      BY <2>0
    <3>3. /\ N \in Seq(ModeNumber) /\ Len(N) = (m + 1) - k + 1
          /\ \A i \in 1 .. (m + 1) - k + 1 : N[i] = s.modes[k + i - 1]
      BY <2>0, <3>1, <3>2, SubSeqProperties
    <3> QED
      BY <3>2, <3>3
  <2> HIDE DEF N
  <2>4. /\ Len(M) = m - k + 2 /\ M[1] = "STANCE"
        /\ \A i \in 2 .. m - k + 2 : M[i] = s.modes[k + i - 1]
    <3>1. "STANCE" \in ModeNumber /\ 1 \in 1 .. Len(N)
      BY <1>1, <1>4, <2>3 DEF ModeNumber
    <3> QED
      BY <1>1, <1>4, <2>3, <3>1, ExceptSeq
  <2> HIDE DEF E, M
  <2>5. r.events = E /\ r.modes = M
    BY <2>1
  <2> HIDE DEF r
  <2>6. /\ m - k + 1 = m - d /\ m - k + 2 = (m - d) + 1
        /\ \A i \in Int : k + i - 1 = d + i
        /\ d \in 0 .. m - 1 /\ d + 1 = k /\ k \in 1 .. m
    BY <2>0
  <2> HIDE DEF d
  <2>7. From(r, s, d)
    <3>1. Len(s.events) - d = m - d
      BY <1>1
    <3>2. \A i \in 1 .. m - k + 1 : r.events[i] = s.events[d + i]
      BY <2>2, <2>5, <2>6
    <3>3. \A i \in 2 .. m - k + 2 : r.modes[i] = s.modes[d + i]
      BY <2>4, <2>5, <2>6
    <3>4. /\ Len(r.events) = m - k + 1 /\ Len(r.modes) = m - k + 2
          /\ r.modes[1] = "STANCE"
      BY <2>2, <2>4, <2>5
    <3> QED
      BY <2>6, <3>1, <3>2, <3>3, <3>4 DEF From
  <2>8. s.events[d + 1] < lower
    BY <1>2, <2>6
  <2>9. d \in 0 .. Len(s.events) - 1
    BY <1>1, <2>6
  <2> QED
    BY <2>7, <2>8, <2>9, Zenon DEF r
<1> QED
  BY <1>3, <1>4

-----------------------------------------------------------------------------
(* A flight between two stances on the left foot, or at the end of a       *)
(* schedule, where the next gait may begin with one: what the insertion of *)
(* a gait in a flight leaves.  The right foot stays in the air all along.  *)
Junction(s, i) ==
    /\ s.modes[i - 1] = "LF" /\ s.modes[i] = "FLY"
    /\ s.modes[i + 1] = "LF" \/ i = Len(s.events)

(* No phase is longer than in gait.info.                                   *)
Paced(s) ==
    \A i \in 2 .. Len(s.events) :
        LET time == s.events[i] - s.events[i - 1]
        IN  /\ s.modes[i] = "FLY" => time <= FlightTime
            /\ s.modes[i] \in {"LF", "RF"} => time <= LeftStance
            /\ s.modes[i] = "LF" /\ s.modes[i + 1] = "FLY" => time <= RunStance

(* A flight is followed by a stance, after one on the right foot by one on *)
(* the left foot or on both.                                               *)
Alternating(s) ==
    \A i \in 1 .. Len(s.events) :
        s.modes[i] = "FLY" =>
            /\ s.modes[i + 1] # "FLY"
            /\ i > 1 /\ s.modes[i - 1] = "RF" => s.modes[i + 1] # "RF"

(* While the robot runs, no junction is later than the time since the last *)
(* change of gait allows; while it does not, no flight is.                 *)
JunctionsEarly(s, gait, since) ==
    \A i \in 2 .. Len(s.events) :
        Junction(s, i) =>
            s.events[i] <= (IF gait = "run" THEN Lead - 3 ELSE Lead + 2) - since

FlightsEarly(s, gait, since) ==
    gait # "run" =>
        \A i \in 2 .. Len(s.events) :
            s.modes[i] = "FLY" => s.events[i] <= Lead + 2 - since

(* No junction follows another one.                                        *)
JunctionsApart(s) ==
    \A i \in 4 .. Len(s.events) :
        Junction(s, i) => ~(s.modes[i - 2] = "FLY" /\ s.modes[i - 3] = "LF")

(* What bounds the flights of a schedule.                                  *)
Flights(s, gait, since) ==
    /\ Paced(s) /\ Alternating(s)
    /\ JunctionsEarly(s, gait, since) /\ FlightsEarly(s, gait, since)
    /\ JunctionsApart(s)

(* Forgetting the past changes nothing in them.                            *)
LEMMA TrimFlights ==
    ASSUME NEW s, Plan(s), NEW gait, NEW since, Flights(s, gait, since),
           NEW lower \in Int
    PROVE  Flights(Trim(s, lower), gait, since)
<1> DEFINE r == Trim(s, lower)
<1>1. PICK m \in Nat : m = Len(s.events) /\ m >= 1
  BY PlanFacts
<1>2. PICK d \in 0 .. m - 1 : From(r, s, d)
  BY <1>1, TrimShape
<1> HIDE DEF r
<1>3. PICK n \in Nat : n = m - d
  BY <1>1, <1>2
<1>4. /\ Len(r.events) = n
      /\ \A i \in 1 .. n : r.events[i] = s.events[d + i]
      /\ r.modes[1] = "STANCE"
      /\ \A i \in 2 .. n + 1 : r.modes[i] = s.modes[d + i]
  BY <1>1, <1>2, <1>3 DEF From
<1>0. m \in Nat /\ d \in Nat /\ n \in Nat /\ m = d + n
  BY <1>1, <1>2, <1>3
<1>5. ASSUME NEW i \in 2 .. n
      PROVE  /\ d + i \in 2 .. m /\ d + (i - 1) = (d + i) - 1 /\ d + (i + 1) = (d + i) + 1
             /\ i - 1 \in 1 .. n /\ i + 1 \in 2 .. n + 1 /\ i \in 1 .. n /\ i \in 2 .. n + 1
             /\ i # 2 => i - 1 \in 2 .. n + 1
             /\ i = n <=> d + i = m
  BY <1>0
<1>6. ASSUME NEW i \in 2 .. n
      PROVE  /\ r.events[i] = s.events[d + i] /\ r.events[i - 1] = s.events[(d + i) - 1]
             /\ r.modes[i] = s.modes[d + i] /\ r.modes[i + 1] = s.modes[(d + i) + 1]
             /\ i # 2 => r.modes[i - 1] = s.modes[(d + i) - 1]
             /\ i = 2 => r.modes[i - 1] = "STANCE"
  <2>1. /\ d + i \in 2 .. m /\ d + (i - 1) = (d + i) - 1 /\ d + (i + 1) = (d + i) + 1
        /\ i - 1 \in 1 .. n /\ i + 1 \in 2 .. n + 1 /\ i \in 1 .. n /\ i \in 2 .. n + 1
        /\ i # 2 => i - 1 \in 2 .. n + 1
    BY <1>5
  <2>2. r.events[i] = s.events[d + i] /\ r.modes[i] = s.modes[d + i]
    BY <1>4, <2>1
  <2>3. r.events[i - 1] = s.events[d + (i - 1)] /\ r.modes[i + 1] = s.modes[d + (i + 1)]
    BY <1>4, <2>1
  <2>4. i # 2 => r.modes[i - 1] = s.modes[d + (i - 1)]
    BY <1>4, <2>1
  <2>5. i = 2 => r.modes[i - 1] = "STANCE"
    BY <1>4
  <2> QED
    BY <2>1, <2>2, <2>3, <2>4, <2>5
<1>7. ASSUME NEW i \in 2 .. n, Junction(r, i)
      PROVE  Junction(s, d + i) /\ i # 2
  BY <1>1, <1>4, <1>5, <1>6, <1>7 DEF Junction
<1>8. Paced(r)
  <2> SUFFICES ASSUME NEW i \in 2 .. n
               PROVE  LET time == r.events[i] - r.events[i - 1]
                      IN  /\ r.modes[i] = "FLY" => time <= FlightTime
                          /\ r.modes[i] \in {"LF", "RF"} => time <= LeftStance
                          /\ r.modes[i] = "LF" /\ r.modes[i + 1] = "FLY" =>
                                 time <= RunStance
    BY <1>4 DEF Paced
  <2> DEFINE j == d + i
  <2>1. j \in 2 .. m
    BY <1>5
  <2>2. LET time == s.events[j] - s.events[j - 1]
        IN  /\ s.modes[j] = "FLY" => time <= FlightTime
            /\ s.modes[j] \in {"LF", "RF"} => time <= LeftStance
            /\ s.modes[j] = "LF" /\ s.modes[j + 1] = "FLY" => time <= RunStance
    BY <1>1, <2>1 DEF Flights, Paced
  <2>3. /\ r.events[i] = s.events[j] /\ r.events[i - 1] = s.events[j - 1]
        /\ r.modes[i] = s.modes[j] /\ r.modes[i + 1] = s.modes[j + 1]
    BY <1>6
  <2> HIDE DEF j
  <2> QED
    BY <2>2, <2>3
<1>9. Alternating(r)
  <2> SUFFICES ASSUME NEW i \in 1 .. n, r.modes[i] = "FLY"
               PROVE  /\ r.modes[i + 1] # "FLY"
                      /\ i > 1 /\ r.modes[i - 1] = "RF" => r.modes[i + 1] # "RF"
    BY <1>4 DEF Alternating
  <2>1. i \in 2 .. n
    BY <1>0, <1>4
  <2>2. d + i \in 1 .. m /\ d + i > 1
    BY <1>0, <2>1
  <2>3. s.modes[d + i] = "FLY" =>
            /\ s.modes[(d + i) + 1] # "FLY"
            /\ d + i > 1 /\ s.modes[(d + i) - 1] = "RF" => s.modes[(d + i) + 1] # "RF"
    BY <1>1, <2>2 DEF Flights, Alternating
  <2> QED
    BY <1>6, <2>1, <2>2, <2>3
<1>10. JunctionsEarly(r, gait, since)
  <2> SUFFICES ASSUME NEW i \in 2 .. n, Junction(r, i)
               PROVE  r.events[i] <=
                          (IF gait = "run" THEN Lead - 3 ELSE Lead + 2) - since
    BY <1>4 DEF JunctionsEarly
  <2>1. Junction(s, d + i) /\ d + i \in 2 .. Len(s.events)
    BY <1>1, <1>5, <1>7
  <2>2. s.events[d + i] <= (IF gait = "run" THEN Lead - 3 ELSE Lead + 2) - since
    BY <2>1 DEF Flights, JunctionsEarly
  <2> QED
    BY <1>6, <2>2
<1>11. FlightsEarly(r, gait, since)
  <2> SUFFICES ASSUME gait # "run", NEW i \in 2 .. n, r.modes[i] = "FLY"
               PROVE  r.events[i] <= Lead + 2 - since
    BY <1>4 DEF FlightsEarly
  <2>1. s.modes[d + i] = "FLY" /\ d + i \in 2 .. Len(s.events)
    BY <1>1, <1>5, <1>6
  <2>2. s.events[d + i] <= Lead + 2 - since
    BY <2>1 DEF Flights, FlightsEarly
  <2> QED
    BY <1>6, <2>2
<1>12. JunctionsApart(r)
  <2> SUFFICES ASSUME NEW i \in 4 .. n, Junction(r, i),
                      r.modes[i - 2] = "FLY", r.modes[i - 3] = "LF"
               PROVE  FALSE
    BY <1>4 DEF JunctionsApart
  <2>1. /\ i \in 2 .. n /\ d + i \in 4 .. m
        /\ i - 2 \in 2 .. n + 1 /\ i - 3 \in 1 .. n + 1
        /\ d + (i - 2) = (d + i) - 2 /\ d + (i - 3) = (d + i) - 3
    BY <1>0
  <2>2. i - 3 \in 2 .. n + 1
    <3>1. i - 3 # 1
      BY <1>4
    <3> QED
      BY <2>1, <3>1
  <2>3. s.modes[(d + i) - 2] = "FLY" /\ s.modes[(d + i) - 3] = "LF"
    BY <1>4, <2>1, <2>2
  <2>4. Junction(s, d + i)
    BY <1>7, <2>1
  <2> QED
    BY <1>1, <2>1, <2>3, <2>4 DEF Flights, JunctionsApart
<1> QED
  BY <1>8, <1>9, <1>10, <1>11, <1>12 DEF Flights, r

(* Where a gait is tiled on, no junction is made but at the last phase     *)
(* kept, and flights occur after it in run only.                           *)
LEMMA FlightsContinued ==
    ASSUME NEW p, NEW s, NEW k, NEW gait, Continues(p, s, k, gait),
           Len(s.events) \in Nat, Len(p.events) \in Nat,
           Paced(s), Alternating(s)
    PROVE  /\ Paced(p) /\ Alternating(p)
           /\ \A i \in 2 .. Len(p.events) : Junction(p, i) =>
                  /\ i \in 2 .. k /\ s.modes[i - 1] = "LF" /\ s.modes[i] = "FLY"
                  /\ i = k \/ Junction(s, i)
           /\ gait # "run" =>
                  \A i \in 2 .. Len(p.events) : p.modes[i] = "FLY" => i \in 2 .. k
<1>1. PICK m \in Nat, l \in Nat : m = Len(s.events) /\ l = Len(p.events)
  OBVIOUS
<1>2. /\ k \in 1 .. m /\ k <= l
      /\ \A i \in 1 .. k : p.events[i] = s.events[i] /\ p.modes[i] = s.modes[i]
      /\ p.modes[k + 1] \in {"LF", "STANCE"}
  BY <1>1 DEF Continues
<1>3. ASSUME NEW i \in k + 1 .. l
      PROVE  LET time == p.events[i] - p.events[i - 1]
             IN  /\ p.modes[i] = "FLY" =>
                       /\ time <= FlightTime /\ gait = "run" /\ i > k + 1
                       /\ \/ p.modes[i - 1] = "LF" /\ p.modes[i + 1] = "RF" /\ i < l
                          \/ p.modes[i - 1] = "RF" /\ p.modes[i + 1] \in {"LF", "STANCE"}
                 /\ p.modes[i] \in {"LF", "RF"} => time <= LeftStance
                 /\ p.modes[i] = "LF" /\ p.modes[i + 1] = "FLY" => time <= RunStance
  BY <1>1 DEF Continues, RunsOn
<1>0. k \in Nat /\ k >= 1 /\ k <= m
  BY <1>2
<1>4. \A i \in 1 .. l : i \in 1 .. k - 1 \/ i = k \/ i \in k + 1 .. l
  BY <1>0
<1>5. ASSUME NEW i \in 2 .. l
      PROVE  LET time == p.events[i] - p.events[i - 1]
             IN  /\ p.modes[i] = "FLY" => time <= FlightTime
                 /\ p.modes[i] \in {"LF", "RF"} => time <= LeftStance
                 /\ p.modes[i] = "LF" /\ p.modes[i + 1] = "FLY" => time <= RunStance
  <2>1. CASE i \in k + 1 .. l
    BY <1>3, <2>1
  <2>2. CASE i \notin k + 1 .. l
    <3>1. i \in 2 .. m /\ i \in 1 .. k /\ i - 1 \in 1 .. k /\ (i = k \/ i + 1 \in 1 .. k)
      BY <1>0, <2>2
    <3>2. LET time == s.events[i] - s.events[i - 1]
          IN  /\ s.modes[i] = "FLY" => time <= FlightTime
              /\ s.modes[i] \in {"LF", "RF"} => time <= LeftStance
              /\ s.modes[i] = "LF" /\ s.modes[i + 1] = "FLY" => time <= RunStance
      BY <1>1, <3>1 DEF Paced
    <3>3. /\ p.events[i] = s.events[i] /\ p.events[i - 1] = s.events[i - 1]
          /\ p.modes[i] = s.modes[i]
      BY <1>2, <3>1
    <3>4. p.modes[i + 1] = s.modes[i + 1] \/ p.modes[i + 1] # "FLY"
      BY <1>2, <3>1
    <3> QED
      BY <3>2, <3>3, <3>4
  <2> QED
    BY <2>1, <2>2
<1>6. Paced(p)
  BY <1>1, <1>5 DEF Paced
<1>7. ASSUME NEW i \in 1 .. l, p.modes[i] = "FLY"
      PROVE  /\ p.modes[i + 1] # "FLY"
             /\ i > 1 /\ p.modes[i - 1] = "RF" => p.modes[i + 1] # "RF"
  <2>1. CASE i \in k + 1 .. l
    BY <1>3, <1>7, <2>1
  <2>2. CASE i = k
    BY <1>2, <2>2
  <2>3. CASE i \in 1 .. k - 1
    <3>1. /\ i \in 1 .. m /\ i \in 1 .. k /\ i + 1 \in 1 .. k
          /\ i > 1 => i - 1 \in 1 .. k
      BY <1>0, <2>3
    <3>2. s.modes[i] = "FLY" =>
              /\ s.modes[i + 1] # "FLY"
              /\ i > 1 /\ s.modes[i - 1] = "RF" => s.modes[i + 1] # "RF"
      BY <1>1, <3>1 DEF Alternating
    <3>3. p.modes[i] = s.modes[i] /\ p.modes[i + 1] = s.modes[i + 1]
      BY <1>2, <3>1
    <3>4. i > 1 => p.modes[i - 1] = s.modes[i - 1]
      BY <1>2, <3>1
    <3> QED
      BY <1>7, <3>2, <3>3, <3>4
  <2> QED
    BY <1>4, <2>1, <2>2, <2>3
<1>8. Alternating(p)
  BY <1>1, <1>7 DEF Alternating
<1>9. ASSUME NEW i \in 2 .. l, Junction(p, i)
      PROVE  /\ i \in 2 .. k /\ s.modes[i - 1] = "LF" /\ s.modes[i] = "FLY"
             /\ i = k \/ Junction(s, i)
  <2>1. /\ p.modes[i - 1] = "LF" /\ p.modes[i] = "FLY"
        /\ p.modes[i + 1] = "LF" \/ i = l
    BY <1>1, <1>9 DEF Junction
  <2>2. i \notin k + 1 .. l
    <3> SUFFICES ASSUME i \in k + 1 .. l PROVE FALSE
      OBVIOUS
    <3>1. p.modes[i + 1] = "RF" /\ i < l
      BY <1>3, <2>1
    <3> QED
      BY <2>1, <3>1
  <2>3. i \in 2 .. k /\ i \in 1 .. k /\ i - 1 \in 1 .. k
    BY <1>0, <2>2
  <2>4. s.modes[i - 1] = "LF" /\ s.modes[i] = "FLY"
    BY <1>2, <2>1, <2>3
  <2>5. ASSUME i # k
        PROVE  Junction(s, i)
    <3>1. i + 1 \in 1 .. k /\ i # l
      BY <1>0, <1>2, <2>3, <2>5
    <3>2. s.modes[i + 1] = "LF"
      BY <1>2, <2>1, <3>1
    <3> QED
      BY <2>4, <3>2 DEF Junction
  <2> QED
    BY <2>3, <2>4, <2>5
<1>10. ASSUME gait # "run", NEW i \in 2 .. l, p.modes[i] = "FLY"
       PROVE  i \in 2 .. k
  <2>1. i \notin k + 1 .. l
    BY <1>3, <1>10
  <2> QED
    BY <1>0, <2>1
<1> QED
  BY <1>1, <1>6, <1>8, <1>9, <1>10

(* What a solve publishes: the gait goes on, and a junction that is made   *)
(* where it does was one already.                                          *)
LEMMA FlightsPublished ==
    ASSUME NEW s, Plan(s), NEW gait \in DOMAIN GaitMap, NEW since,
           Flights(s, gait, since), NEW lower \in Int, NEW upper \in Int
    PROVE  Flights(GetModeSchedule(s, GaitMap[gait], lower, upper), gait, since)
<1> DEFINE kept == Trim(s, lower)
           p == GetModeSchedule(s, GaitMap[gait], lower, upper)
<1>1. Plan(kept) /\ Flights(kept, gait, since)
  BY TrimPlan, TrimFlights
<1>2. Continues(p, kept, Len(kept.events), gait)
  BY GetModeScheduleContinues
<1>3. Len(kept.events) \in Nat /\ Len(p.events) \in Nat
  <2>1. Plan(p)
    BY GetModeSchedulePlan
  <2> QED
    BY <1>1, <2>1 DEF Plan, Schedule
<1> HIDE DEF kept, p
<1>4. PICK m \in Nat, l \in Nat : m = Len(kept.events) /\ l = Len(p.events)
  BY <1>3
<1>5. /\ Paced(p) /\ Alternating(p)
      /\ \A i \in 2 .. l : Junction(p, i) =>
             /\ i \in 2 .. m /\ kept.modes[i - 1] = "LF" /\ kept.modes[i] = "FLY"
             /\ i = m \/ Junction(kept, i)
      /\ gait # "run" =>
             \A i \in 2 .. l : p.modes[i] = "FLY" => i \in 2 .. m
  BY <1>1, <1>2, <1>4, FlightsContinued DEF Flights
<1>6. /\ m <= l
      /\ \A i \in 1 .. m : p.events[i] = kept.events[i] /\ p.modes[i] = kept.modes[i]
  BY <1>2, <1>4 DEF Continues
<1>7. ASSUME NEW i \in 2 .. l, Junction(p, i)
      PROVE  i \in 2 .. m /\ Junction(kept, i) /\ p.events[i] = kept.events[i]
  <2>1. /\ i \in 2 .. m /\ kept.modes[i - 1] = "LF" /\ kept.modes[i] = "FLY"
        /\ i = m \/ Junction(kept, i)
    BY <1>5, <1>7
  <2>2. Junction(kept, i)
    BY <1>4, <2>1 DEF Junction
  <2>3. i \in 1 .. m
    BY <2>1
  <2> QED
    BY <1>6, <2>1, <2>2, <2>3
<1>8. JunctionsEarly(p, gait, since)
  <2> SUFFICES ASSUME NEW i \in 2 .. l, Junction(p, i)
               PROVE  p.events[i] <=
                          (IF gait = "run" THEN Lead - 3 ELSE Lead + 2) - since
    BY <1>4 DEF JunctionsEarly
  <2>1. i \in 2 .. m /\ Junction(kept, i) /\ p.events[i] = kept.events[i]
    BY <1>7
  <2> QED
    BY <1>1, <1>4, <2>1 DEF Flights, JunctionsEarly
<1>9. FlightsEarly(p, gait, since)
  <2> SUFFICES ASSUME gait # "run", NEW i \in 2 .. l, p.modes[i] = "FLY"
               PROVE  p.events[i] <= Lead + 2 - since
    BY <1>4 DEF FlightsEarly
  <2>1. i \in 2 .. m
    BY <1>5
  <2>2. i \in 1 .. m
    BY <2>1
  <2>3. p.events[i] = kept.events[i] /\ kept.modes[i] = "FLY"
    BY <1>6, <2>2
  <2> QED
    BY <1>1, <1>4, <2>1, <2>3 DEF Flights, FlightsEarly
<1>10. JunctionsApart(p)
  <2> SUFFICES ASSUME NEW i \in 4 .. l, Junction(p, i),
                      p.modes[i - 2] = "FLY", p.modes[i - 3] = "LF"
               PROVE  FALSE
    BY <1>4 DEF JunctionsApart
  <2>1. i \in 2 .. l
    OBVIOUS
  <2>2. i \in 2 .. m /\ Junction(kept, i)
    BY <1>7, <2>1
  <2>3. i \in 4 .. m /\ i - 2 \in 1 .. m /\ i - 3 \in 1 .. m
    BY <2>2
  <2>4. kept.modes[i - 2] = "FLY" /\ kept.modes[i - 3] = "LF"
    BY <1>6, <2>3
  <2> QED
    BY <1>1, <1>4, <2>2, <2>3, <2>4 DEF Flights, JunctionsApart
<1> QED
  BY <1>5, <1>8, <1>9, <1>10 DEF Flights, p

(* A new gait inserted, more than 0.2 s after the last change: the gaits   *)
(* from and to run differ, so that the junctions of one run are over       *)
(* before those of the next.                                               *)
LEMMA FlightsInserted ==
    ASSUME NEW p, NEW s, NEW k, NEW old, NEW gait, Continues(p, s, k, gait),
           s.events \in Seq(Int), Len(p.events) \in Nat,
           NEW since \in Int, since > 4, Flights(s, old, since),
           gait = "run" => old # "run",
           \A i \in 1 .. k - 1 : s.events[i] <= Lead,
           s.events[k] > Lead \/ (s.modes[k + 1] = "LF" /\ s.events[k] <= Lead)
    PROVE  Flights(p, gait, 0)
<1>1. PICK m \in Nat, l \in Nat : m = Len(s.events) /\ l = Len(p.events)
  OBVIOUS
<1>2. Lead \in Int
  BY MotionAssumption DEF Lead
<1>3. /\ Paced(p) /\ Alternating(p)
      /\ \A i \in 2 .. l : Junction(p, i) =>
             /\ i \in 2 .. k /\ s.modes[i - 1] = "LF" /\ s.modes[i] = "FLY"
             /\ i = k \/ Junction(s, i)
      /\ gait # "run" =>
             \A i \in 2 .. l : p.modes[i] = "FLY" => i \in 2 .. k
  BY <1>1, FlightsContinued DEF Flights
<1>4. /\ k \in 1 .. m /\ k <= l
      /\ \A i \in 1 .. k : p.events[i] = s.events[i] /\ p.modes[i] = s.modes[i]
  BY <1>1 DEF Continues
<1>5. \A i \in 1 .. m : s.events[i] \in Int
  BY <1>1
<1>6. /\ \A i \in 2 .. m :
             LET time == s.events[i] - s.events[i - 1]
             IN  /\ s.modes[i] = "FLY" => time <= 2
                 /\ s.modes[i] = "LF" /\ s.modes[i + 1] = "FLY" => time <= 6
      /\ \A i \in 2 .. m : Junction(s, i) =>
             s.events[i] <= (IF old = "run" THEN Lead - 3 ELSE Lead + 2) - since
      /\ old # "run" => \A i \in 2 .. m : s.modes[i] = "FLY" =>
                            s.events[i] <= Lead + 2 - since
      /\ \A i \in 4 .. m : Junction(s, i) =>
             ~(s.modes[i - 2] = "FLY" /\ s.modes[i - 3] = "LF")
  BY <1>1 DEF Flights, Paced, JunctionsEarly, FlightsEarly, JunctionsApart,
              FlightTime, RunStance
<1>7. ASSUME NEW i \in 2 .. k, s.modes[i] = "FLY"
      PROVE  s.events[i] <= Lead + 2
  <2>1. i \in 2 .. m /\ i \in 1 .. m /\ i - 1 \in 1 .. m /\ i - 1 \in 1 .. k - 1
    BY <1>4
  <2>2. s.events[i] - s.events[i - 1] <= 2
    BY <1>6, <1>7, <2>1
  <2>3. s.events[i] \in Int /\ s.events[i - 1] \in Int /\ s.events[i - 1] <= Lead
    BY <1>5, <2>1
  <2> QED
    BY <1>2, <2>2, <2>3
<1>8. JunctionsEarly(p, gait, 0)
  <2> SUFFICES ASSUME NEW i \in 2 .. l, Junction(p, i)
               PROVE  p.events[i] <=
                          (IF gait = "run" THEN Lead - 3 ELSE Lead + 2) - 0
    BY <1>1 DEF JunctionsEarly
  <2>1. i \in 2 .. k /\ s.modes[i] = "FLY"
    BY <1>3
  <2>2. i \in 2 .. m /\ i \in 1 .. m /\ p.events[i] = s.events[i] /\ s.events[i] \in Int
    <3>1. i \in 1 .. k /\ i \in 1 .. m /\ i \in 2 .. m
      BY <1>4, <2>1
    <3> QED
      BY <1>4, <1>5, <3>1
  <2>3. CASE gait = "run"
    <3>1. s.events[i] <= Lead + 2 - since
      BY <1>6, <2>1, <2>2, <2>3
    <3> QED
      BY <1>2, <2>2, <2>3, <3>1
  <2>4. CASE gait # "run"
    <3>1. s.events[i] <= Lead + 2
      BY <1>7, <2>1
    <3> QED
      BY <1>2, <2>2, <2>4, <3>1
  <2> QED
    BY <2>3, <2>4
<1>9. FlightsEarly(p, gait, 0)
  <2> SUFFICES ASSUME gait # "run", NEW i \in 2 .. l, p.modes[i] = "FLY"
               PROVE  p.events[i] <= Lead + 2 - 0
    BY <1>1 DEF FlightsEarly
  <2>1. i \in 2 .. k /\ i \in 1 .. k
    BY <1>3, <1>4
  <2>2. s.modes[i] = "FLY" /\ p.events[i] = s.events[i]
    BY <1>4, <2>1
  <2>3. s.events[i] <= Lead + 2
    BY <1>7, <2>1, <2>2
  <2> QED
    BY <1>2, <2>2, <2>3
<1>10. JunctionsApart(p)
  <2> SUFFICES ASSUME NEW i \in 4 .. l, Junction(p, i),
                      p.modes[i - 2] = "FLY", p.modes[i - 3] = "LF"
               PROVE  FALSE
    BY <1>1 DEF JunctionsApart
  <2>1. /\ i \in 2 .. k /\ s.modes[i - 1] = "LF" /\ s.modes[i] = "FLY"
        /\ i = k \/ Junction(s, i)
    <3>1. i \in 2 .. l
      OBVIOUS
    <3> QED
      BY <1>3, <3>1
  <2>2. /\ i \in 4 .. m /\ i \in 2 .. m /\ i \in 1 .. m
        /\ i - 1 \in 2 .. m /\ i - 1 \in 1 .. m
        /\ i - 2 \in 2 .. m /\ i - 2 \in 1 .. m /\ i - 2 \in 1 .. k /\ i - 3 \in 1 .. k
        /\ (i - 2) + 1 = i - 1 /\ (i - 2) - 1 = i - 3
        /\ (i - 1) + 1 = i /\ (i - 1) - 1 = i - 2
    BY <1>4, <2>1
  <2>3. s.modes[i - 2] = "FLY" /\ s.modes[i - 3] = "LF"
    BY <1>4, <2>2
  <2>4. ~Junction(s, i)
    BY <1>6, <2>2, <2>3
  <2>5. i = k /\ s.events[i] > Lead
    <3>1. i = k
      BY <2>1, <2>4
    <3>2. s.modes[k + 1] # "LF"
      BY <2>1, <2>4, <3>1 DEF Junction
    <3> QED
      BY <3>1, <3>2
  <2>6. s.events[i] \in Int /\ s.events[i - 1] \in Int /\ s.events[i - 2] \in Int
    BY <1>5, <2>2
  <2>7. old = "run"
    <3> SUFFICES ASSUME old # "run" PROVE FALSE
      OBVIOUS
    <3>1. s.events[i] <= Lead + 2 - since
      BY <1>6, <2>1, <2>2
    <3> QED
      BY <1>2, <2>5, <2>6, <3>1
  <2>8. Junction(s, i - 2)
    BY <2>1, <2>2, <2>3 DEF Junction
  <2>9. s.events[i - 2] <= Lead - 3 - since
    BY <1>6, <2>2, <2>7, <2>8
  <2>10. s.events[i - 1] - s.events[i - 2] <= 6
    BY <1>6, <2>1, <2>2
  <2>11. s.events[i] - s.events[i - 1] <= 2
    BY <1>6, <2>1, <2>2
  <2>12. PICK a, b, c, d \in Int :
             a = s.events[i - 2] /\ b = s.events[i - 1] /\ c = s.events[i] /\ d = Lead
    BY <1>2, <2>6
  <2>13. a <= d - 3 - since /\ b - a <= 6 /\ c - b <= 2 /\ c > d
    BY <2>5, <2>9, <2>10, <2>11, <2>12
  <2> QED
    BY <2>13
<1> QED
  BY <1>3, <1>8, <1>9, <1>10 DEF Flights

-----------------------------------------------------------------------------
(* The flights of the schedule, bounded in every state: a run is not       *)
(* inserted again before what is left of the one before is over.           *)
FlightInv == Flights(schedule, template, sinceChange)

LEMMA FlightInvInit == Init => FlightInv
<1> SUFFICES ASSUME Init PROVE FlightInv
  OBVIOUS
<1>1. schedule.events = <<10>>
  BY DEF Init, InitialSchedule
<1>2. schedule.modes = <<"STANCE", "STANCE">>
  BY DEF Init, InitialSchedule
<1>3. Len(schedule.events) = 1 /\ schedule.modes[1] = "STANCE"
  BY <1>1, <1>2
<1> QED
  BY <1>3 DEF FlightInv, Flights, Paced, Alternating, JunctionsEarly, FlightsEarly,
              JunctionsApart

(* As time passes, flights come nearer as fast as the last change of gait  *)
(* goes away.                                                              *)
LEMMA FlightInvControl ==
    ASSUME MotionInv, FlightInv, NEW dt \in Intervals, NEW raw \in RawCommands,
           NEW vel \in BaseVelocities, Control(dt, raw, vel)
    PROVE  FlightInv'
<1>1. dt \in Nat /\ ChangeMemory \in Nat /\ sinceChange \in Nat
  BY MotionAssumption DEF MotionInv
<1>2. PICK since \in Int : since = sinceChange' /\ since <= sinceChange + dt
  <2>1. sinceChange' = Lesser(sinceChange + dt, ChangeMemory)
    BY DEF Control
  <2>2. sinceChange + dt \in Int
    BY <1>1
  <2> QED
    BY <1>1, <2>1, <2>2 DEF Lesser
<1>3. schedule' = Shift(schedule, dt) /\ template' = template
  BY DEF Control
<1>4. PICK m \in Nat : m = Len(schedule.events) /\ schedule.events \in [1 .. m -> Int]
  BY PlanFacts DEF MotionInv
<1> DEFINE E == [i \in 1 .. m |-> schedule.events[i] - dt]
<1>5. schedule' = [schedule EXCEPT !.events = E]
  BY <1>3, <1>4 DEF Shift
<1>6. schedule \in Schedule
  BY DEF MotionInv, Plan
<1>7. schedule'.events = E /\ schedule'.modes = schedule.modes
  BY <1>5, <1>6 DEF Schedule
<1>8. Len(E) = m
  BY <1>4
<1>9. \A i \in 1 .. m : E[i] = schedule.events[i] - dt /\ schedule.events[i] \in Int
  BY <1>4
<1> HIDE DEF E
<1>10. Paced(schedule)'
  <2> SUFFICES ASSUME NEW i \in 2 .. m
               PROVE  LET time == E[i] - E[i - 1]
                          mode == schedule.modes[i]
                      IN  /\ mode = "FLY" => time <= FlightTime
                          /\ mode \in {"LF", "RF"} => time <= LeftStance
                          /\ mode = "LF" /\ schedule.modes[i + 1] = "FLY" =>
                                 time <= RunStance
    BY <1>7, <1>8 DEF Paced, FlightTime, LeftStance, RunStance
  <2>1. i \in 1 .. m /\ i - 1 \in 1 .. m
    BY <1>4
  <2>2. E[i] - E[i - 1] = schedule.events[i] - schedule.events[i - 1]
    BY <1>1, <1>9, <2>1
  <2> QED
    BY <1>4, <2>2 DEF FlightInv, Flights, Paced
<1>11. Alternating(schedule)' /\ JunctionsApart(schedule)'
  BY <1>4, <1>7, <1>8 DEF FlightInv, Flights, Alternating, JunctionsApart, Junction
<1>12. Lead \in Int /\ Lead' = Lead
  BY MotionAssumption DEF Lead
<1>13. JunctionsEarly(schedule, template, sinceChange)'
  <2> DEFINE bound == IF template = "run" THEN Lead - 3 ELSE Lead + 2
  <2>1. bound \in Int
    BY <1>12
  <2> SUFFICES ASSUME NEW i \in 2 .. m, Junction(schedule, i)
               PROVE  E[i] <= bound - since
    BY <1>2, <1>3, <1>4, <1>7, <1>8, <1>12 DEF JunctionsEarly, Junction
  <2>2. schedule.events[i] <= bound - sinceChange
    BY <1>4 DEF FlightInv, Flights, JunctionsEarly
  <2>3. E[i] = schedule.events[i] - dt /\ schedule.events[i] \in Int
    BY <1>9
  <2> HIDE DEF bound
  <2> QED
    BY <1>1, <1>2, <2>1, <2>2, <2>3
<1>14. FlightsEarly(schedule, template, sinceChange)'
  <2> SUFFICES ASSUME template # "run", NEW i \in 2 .. m, schedule.modes[i] = "FLY"
               PROVE  E[i] <= Lead + 2 - since
    BY <1>2, <1>3, <1>4, <1>7, <1>8, <1>12 DEF FlightsEarly
  <2>2. schedule.events[i] <= Lead + 2 - sinceChange
    BY <1>4 DEF FlightInv, Flights, FlightsEarly
  <2>3. E[i] = schedule.events[i] - dt /\ schedule.events[i] \in Int
    BY <1>9
  <2> QED
    BY <1>1, <1>2, <1>12, <2>2, <2>3
<1> QED
  BY <1>10, <1>11, <1>13, <1>14 DEF FlightInv, Flights

(* Run is the gait of the last mode only.                                  *)
LEMMA RunIsLast ==
    ASSUME NEW mode \in 0 .. 6
    PROVE  Config(mode).gaitCommand = "run" <=> mode = 6
<1>1. /\ Config(0).gaitCommand = "stance" /\ Config(1).gaitCommand = "slow_walk"
      /\ Config(2).gaitCommand = "walk" /\ Config(3).gaitCommand = "slower_trot"
  BY DEF Config, GaitModeStates, ModeState
<1>2. /\ Config(4).gaitCommand = "slow_trot" /\ Config(5).gaitCommand = "trot"
      /\ Config(6).gaitCommand = "run"
  BY DEF Config, GaitModeStates, ModeState
<1>3. mode \in {0, 1, 2, 3, 4, 5, 6}
  OBVIOUS
<1> QED
  BY <1>1, <1>2, <1>3

(* What updateGaitSchedule inserts into and where it does.                 *)
LEMMA UpdatedContinues ==
    ASSUME MotionInv, NEW s, Plan(s), NEW gait \in DOMAIN GaitMap
    PROVE  LET current == GetModeSchedule(s, GaitMap[template], 0, 2 * Horizon)
           IN  \E k \in 1 .. Len(current.events) :
                   /\ Plan(current) /\ Plan(Updated(s, gait))
                   /\ Continues(Updated(s, gait), current, k, gait)
                   /\ current.events[k] >= Kept
                   /\ \A i \in 1 .. k - 1 : current.events[i] <= Lead
                   /\ \/ current.events[k] > Lead
                      \/ current.events[k] <= Lead /\ current.modes[k + 1] = "LF"
<1>1. /\ template \in DOMAIN GaitMap /\ elapsed \in Nat
  BY ConfigGaits, MotionAssumption DEF MotionInv, TilingEnd
<1>2. 0 \in Int /\ 2 * Horizon \in Int /\ TilingEnd - elapsed \in Int
  BY <1>1, MotionAssumption DEF TilingEnd
<1> DEFINE current == GetModeSchedule(s, GaitMap[template], 0, 2 * Horizon)
           start == NextEventTime(current, 0, Horizon)
           final == TilingEnd - elapsed
<1>3. Plan(current) /\ Last(current.events) >= 2 * Horizon
  BY <1>1, <1>2, GetModeSchedulePlan
<1>4. Updated(s, gait) = InsertModeSequenceTemplate(current, GaitMap[gait],
                             TransitionStance, start, final)
  BY DEF Updated
<1> HIDE DEF current
<1>5. PICK k \in 1 .. Len(current.events) :
           /\ start = current.events[k]
           /\ current.modes[k] # "LF" /\ current.events[k] >= Kept
           /\ \/ /\ current.events[k] > Lead
                 /\ \A i \in 1 .. k - 1 : current.events[i] <= Lead
              \/ /\ current.events[k] <= Lead
                 /\ k < Len(current.events) /\ current.modes[k + 1] = "LF"
  BY <1>3, NextEventIsOfThePlan
<1> HIDE DEF start
<1>6. final \in Int
  BY <1>2
<1> HIDE DEF final
<1>7. Plan(Updated(s, gait)) /\ Continues(Updated(s, gait), current, k, gait)
  BY <1>3, <1>4, <1>5, <1>6, InsertPlan, InsertContinues
<1>8. \A i \in 1 .. k - 1 : current.events[i] <= Lead
  <2> SUFFICES ASSUME NEW i \in 1 .. k - 1, current.events[k] <= Lead
               PROVE  current.events[i] <= Lead
    BY <1>5
  <2>1. PICK m \in Nat :
             /\ m = Len(current.events) /\ current.events \in [1 .. m -> Int]
             /\ \A a, b \in 1 .. m : a < b => current.events[a] < current.events[b]
    BY <1>3, PlanFacts
  <2>2. i \in 1 .. m /\ k \in 1 .. m /\ i < k
    BY <2>1
  <2>3. /\ current.events[i] < current.events[k]
        /\ current.events[i] \in Int /\ current.events[k] \in Int
    BY <2>1, <2>2
  <2>4. Lead \in Int
    BY MotionAssumption DEF Lead
  <2> QED
    BY <2>3, <2>4
<1> QED
  BY <1>3, <1>5, <1>7, <1>8 DEF current

(* A solve, whether it goes on in the gait or inserts another.             *)
LEMMA FlightInvSolve ==
    ASSUME MotionInv, FlightInv, Solve
    PROVE  FlightInv'
<1>1. /\ Plan(schedule) /\ template \in DOMAIN GaitMap
      /\ sinceChange \in Nat /\ currentGaitMode_ \in 0 .. 6
      /\ template = Config(currentGaitMode_).gaitCommand
  BY ConfigGaits, MotionAssumption DEF MotionInv
<1>2. 0 \in Int /\ -Horizon \in Int /\ 2 * Horizon \in Int
  BY MotionAssumption
<1>3. published' = Published(schedule)
  BY DEF Solve
<1>4. Plan(published') /\ Flights(published', template, sinceChange)
  <2>1. Plan(published')
    BY <1>3, PublishedPlan
  <2>2. Flights(published', template, sinceChange)
    BY <1>1, <1>2, <1>3, FlightsPublished DEF Published, FlightInv
  <2> QED
    BY <2>1, <2>2
<1>5. Flights(schedule', template', sinceChange')
  <2>1. CASE currentGaitMode_' = currentGaitMode_
    BY <1>4, <2>1 DEF Solve
  <2>2. CASE currentGaitMode_' # currentGaitMode_
    <3> DEFINE gait == Config(currentGaitMode_').gaitCommand
               current == GetModeSchedule(published', GaitMap[template], 0, 2 * Horizon)
    <3>1. currentGaitMode_' \in 0 .. 6 /\ gait \in DOMAIN GaitMap
      <4>1. currentGaitMode_' \in 0 .. 6
        BY ModeInTable, MotionAssumption DEF Solve, MotionInv
      <4> QED
        BY <4>1, ConfigGaits
    <3>2. gait = "run" => template # "run"
      BY <1>1, <2>2, <3>1, RunIsLast
    <3>3. sinceChange > 4
      <4>1. NextGaitMode(sinceChange, Filtered(command, age), baseVelocity)
                # currentGaitMode_
        BY <2>2 DEF Solve
      <4> QED
        BY <1>1, <4>1 DEF NextGaitMode
    <3>4. /\ sinceChange' = 0 /\ template' = gait
          /\ schedule' = Updated(published', gait)
      BY <2>2 DEF Solve, InsertedTemplate
    <3>5. Flights(current, template, sinceChange)
      BY <1>1, <1>2, <1>4, FlightsPublished
    <3> HIDE DEF gait
    <3>6. PICK k \in 1 .. Len(current.events) :
               /\ Plan(current) /\ Plan(Updated(published', gait))
               /\ Continues(Updated(published', gait), current, k, gait)
               /\ \A i \in 1 .. k - 1 : current.events[i] <= Lead
               /\ \/ current.events[k] > Lead
                  \/ current.events[k] <= Lead /\ current.modes[k + 1] = "LF"
      BY <1>4, <3>1, UpdatedContinues
    <3> HIDE DEF current
    <3>7. current.events \in Seq(Int) /\ Len(Updated(published', gait).events) \in Nat
      BY <3>6 DEF Plan, Schedule
    <3>8. Flights(Updated(published', gait), gait, 0)
      <4> DEFINE p == Updated(published', gait)
      <4>1. /\ Continues(p, current, k, gait) /\ current.events \in Seq(Int)
            /\ Len(p.events) \in Nat
        BY <3>6, <3>7
      <4> HIDE DEF p
      <4>2. \A i \in 1 .. k - 1 : current.events[i] <= Lead
        BY <3>6
      <4>3. current.events[k] > Lead \/ (current.modes[k + 1] = "LF" /\ current.events[k] <= Lead)
        BY <3>6
      <4>4. PICK old \in DOMAIN GaitMap, since \in Nat : old = template /\ since = sinceChange
        BY <1>1
      <4>5. since > 4 /\ Flights(current, old, since) /\ (gait = "run" => old # "run")
        BY <3>2, <3>3, <3>5, <4>4
      <4>6. Flights(p, gait, 0)
        BY <4>1, <4>2, <4>3, <4>5, FlightsInserted
      <4> QED
        BY <4>6 DEF p
    <3> QED
      BY <3>4, <3>8
  <2> QED
    BY <2>1, <2>2
<1> QED
  BY <1>5 DEF FlightInv, Flights, Paced, Alternating, JunctionsEarly, FlightsEarly,
              JunctionsApart, Junction, Lead, LeftStance, FlightTime, RunStance

LEMMA FlightInvNext ==
    ASSUME MotionInv, FlightInv, [Next]_vars
    PROVE  FlightInv'
<1>1. CASE \E dt \in Intervals, raw \in RawCommands, vel \in BaseVelocities :
               Control(dt, raw, vel)
  BY <1>1, FlightInvControl
<1>2. CASE Solve
  BY <1>2, FlightInvSolve
<1>3. CASE UNCHANGED vars
  <2>1. UNCHANGED <<schedule, template, sinceChange>>
    BY <1>3 DEF vars
  <2> QED
    BY <2>1 DEF FlightInv, Flights, Paced, Alternating, JunctionsEarly, FlightsEarly,
                JunctionsApart, Junction, Lead, LeftStance, FlightTime, RunStance
<1> QED
  BY <1>1, <1>2, <1>3 DEF Next

-----------------------------------------------------------------------------
(* Take-offs, by the phases of a flight.                                   *)

(* The foot that is in the air at t left the ground at the end of phase j; *)
(* t lies in phase q.                                                      *)
InAir(s, foot, t, j, q) ==
    /\ q \in 1 .. Len(s.events) /\ j \in 1 .. q - 1
    /\ s.events[q] >= t /\ \A i \in 1 .. q - 1 : s.events[i] < t
    /\ foot \in StanceFeet(s.modes[j])
    /\ \A i \in j + 1 .. q : foot \notin StanceFeet(s.modes[i])

(* Every foot in the air has left the ground.                              *)
LEMMA SwingHasTakeOff ==
    ASSUME NEW s, Plan(s), NEW foot \in Foot, NEW t \in Int,
           foot \notin StanceFeet(ModeAtTime(s, t))
    PROVE  \E j, q \in Nat : InAir(s, foot, t, j, q)
<1>1. PICK m \in Nat :
           /\ m = Len(s.events) /\ m >= 1
           /\ s.events \in [1 .. m -> Int] /\ s.modes \in [1 .. m + 1 -> ModeNumber]
           /\ s.modes[1] = "STANCE" /\ s.modes[m + 1] = "STANCE"
  BY PlanFacts
<1>2. PICK q \in Int : /\ q = PhaseAt(s, t) /\ q - 1 \in 0 .. m
                       /\ \A i \in 1 .. m : i <= q - 1 <=> s.events[i] < t
  <2>1. s.events \in Seq(Int) /\ Ascending(s.events)
    BY DEF Plan, Schedule
  <2>2. PICK b \in 0 .. m : /\ b = EventsBefore(s.events, t)
                            /\ \A i \in 1 .. m : i <= b <=> s.events[i] < t
    BY <1>1, <2>1, Searches
  <2>3. PhaseAt(s, t) = b + 1 /\ (b + 1) - 1 = b /\ b + 1 \in Int
    BY <2>2 DEF PhaseAt
  <2> QED
    BY <2>2, <2>3
<1>3. foot \notin StanceFeet(s.modes[q])
  BY <1>2 DEF ModeAtTime
<1>4. foot \in StanceFeet("STANCE")
  BY DEF StanceFeet
<1>5. q \in 2 .. m /\ q \in 1 .. m
  <2>1. q \in 1 .. m + 1 /\ q # 1 /\ q # m + 1
    BY <1>1, <1>2, <1>3, <1>4
  <2> QED
    BY <1>1, <2>1
<1> DEFINE S == {i \in 1 .. q - 1 : foot \in StanceFeet(s.modes[i])}
           j == Max(S)
<1>6. j \in S /\ \A i \in S : i <= j
  <2>1. 1 \in S
    BY <1>1, <1>4, <1>5
  <2>2. S \in SUBSET (0 .. q - 1) /\ q - 1 \in Nat
    BY <1>5
  <2> HIDE DEF S
  <2> QED
    BY <2>1, <2>2, GreatestExists
<1>7. j \in 1 .. q - 1 /\ foot \in StanceFeet(s.modes[j])
  BY <1>6
<1>8. \A i \in j + 1 .. q : foot \notin StanceFeet(s.modes[i])
  <2> SUFFICES ASSUME NEW i \in j + 1 .. q, foot \in StanceFeet(s.modes[i])
               PROVE  FALSE
    OBVIOUS
  <2>1. j \in Int /\ i \in Int /\ i # q
    BY <1>3, <1>5, <1>7
  <2>2. i \in 1 .. q - 1
    BY <1>5, <1>7, <2>1
  <2>3. i <= j
    BY <1>6, <2>2
  <2> HIDE DEF j
  <2> QED
    BY <2>1, <2>3
<1> HIDE DEF j
<1>9. s.events[q] >= t /\ \A i \in 1 .. q - 1 : s.events[i] < t
  <2>1. /\ s.events[q] \in Int /\ ~(q <= q - 1)
        /\ \A i \in 1 .. q - 1 : i \in 1 .. m /\ i <= q - 1
    BY <1>1, <1>5
  <2> QED
    BY <1>2, <1>5, <2>1
<1>10. j \in Nat /\ q \in Nat
  BY <1>5, <1>7
<1> QED
  BY <1>1, <1>5, <1>7, <1>8, <1>9, <1>10 DEF InAir

(* The planner finds it.                                                   *)
LEMMA TakeOffOfSwing ==
    ASSUME NEW s, Plan(s), NEW foot \in Foot, NEW t \in Int,
           NEW j, NEW q, InAir(s, foot, t, j, q)
    PROVE  /\ PhaseAt(s, t) = q /\ TakeOff(s.modes, foot, q) = j
           /\ foot \notin StanceFeet(ModeAtTime(s, t))
<1>1. PICK m \in Nat :
           /\ m = Len(s.events) /\ m >= 1
           /\ s.events \in [1 .. m -> Int] /\ s.modes \in [1 .. m + 1 -> ModeNumber]
           /\ \A i, l \in 1 .. m : i < l => s.events[i] < s.events[l]
  BY PlanFacts
<1>2. /\ q \in 1 .. m /\ j \in 1 .. q - 1
      /\ s.events[q] >= t /\ \A i \in 1 .. q - 1 : s.events[i] < t
      /\ foot \in StanceFeet(s.modes[j])
      /\ \A i \in j + 1 .. q : foot \notin StanceFeet(s.modes[i])
  BY <1>1 DEF InAir
<1>3. PhaseAt(s, t) = q
  <2>1. s.events \in Seq(Int) /\ Ascending(s.events)
    BY DEF Plan, Schedule
  <2>2. q - 1 \in 0 .. Len(s.events)
    BY <1>1, <1>2
  <2>3. \A i \in 1 .. Len(s.events) : i <= q - 1 <=> s.events[i] < t
    <3> SUFFICES ASSUME NEW i \in 1 .. m PROVE i <= q - 1 <=> s.events[i] < t
      BY <1>1
    <3>1. CASE i <= q - 1
      BY <1>2, <3>1
    <3>2. CASE ~(i <= q - 1)
      <4>1. i = q \/ (q \in 1 .. m /\ q < i)
        BY <1>2, <3>2
      <4>2. s.events[i] >= s.events[q] /\ s.events[i] \in Int /\ s.events[q] \in Int
        BY <1>1, <1>2, <4>1
      <4> QED
        BY <1>2, <3>2, <4>2
    <3> QED
      BY <3>1, <3>2
  <2>4. EventsBefore(s.events, t) = q - 1
    BY <2>1, <2>2, <2>3, CountIs
  <2> QED
    BY <1>2, <2>4 DEF PhaseAt
<1>4. TakeOff(s.modes, foot, q) = j
  <2> DEFINE S == {i \in InContact(s.modes, foot) : i < q} \cup {0}
  <2>1. q \in Nat /\ j \in Nat /\ j < q /\ j \in 1 .. m + 1 /\ DOMAIN s.modes = 1 .. m + 1
    BY <1>1, <1>2
  <2>2. j \in S
    BY <1>2, <2>1 DEF InContact
  <2>3. \A i \in S : i \in 0 .. q /\ i <= j
    <3> SUFFICES ASSUME NEW i \in S PROVE i \in 0 .. q /\ i <= j
      OBVIOUS
    <3>1. CASE i = 0
      BY <2>1, <3>1
    <3>2. CASE i # 0
      <4>1. i \in 1 .. m + 1 /\ i < q /\ foot \in StanceFeet(s.modes[i])
        BY <2>1, <3>2 DEF InContact
      <4>2. ~(i \in j + 1 .. q)
        BY <1>2, <4>1
      <4> QED
        BY <2>1, <4>1, <4>2
    <3> QED
      BY <3>1, <3>2
  <2>4. TakeOff(s.modes, foot, q) = Max(S)
    BY DEF TakeOff
  <2> HIDE DEF S
  <2>5. Max(S) \in S /\ j <= Max(S)
    <3>1. S \in SUBSET (0 .. q) /\ S # {}
      BY <2>2, <2>3
    <3> QED
      BY <2>1, <2>2, <3>1, GreatestExists
  <2>6. Max(S) <= j /\ Max(S) \in Int
    BY <2>3, <2>5
  <2> QED
    BY <2>1, <2>4, <2>5, <2>6
<1>5. q \in j + 1 .. q
  BY <1>1, <1>2
<1> QED
  BY <1>2, <1>3, <1>4, <1>5 DEF ModeAtTime

(* How long a foot is in the air after the first phase of its flight: at   *)
(* most for a stance of a run, a flight and a stance of another gait.      *)
AirTime == RunStance + FlightTime + LeftStance

LEMMA AirBound ==
    ASSUME NEW s, Plan(s), Paced(s), Alternating(s), JunctionsApart(s),
           NEW foot \in Foot, NEW t \in Int,
           NEW j, NEW q, InAir(s, foot, t, j, q)
    PROVE  s.events[q] - s.events[j + 1] <= AirTime
<1>1. PICK m \in Nat :
           /\ m = Len(s.events) /\ m >= 1
           /\ s.events \in [1 .. m -> Int] /\ s.modes \in [1 .. m + 1 -> ModeNumber]
           /\ \A i \in 1 .. m : s.modes[i] = s.modes[i + 1] =>
                                     s.modes[i] \in {"STANCE", "FLY"}
  BY PlanFacts
<1>2. /\ q \in 1 .. m /\ j \in 1 .. q - 1
      /\ \A i \in j + 1 .. q : foot \notin StanceFeet(s.modes[i])
  BY <1>1 DEF InAir
<1>3. PICK a \in 2 .. q : a = j + 1
  BY <1>1, <1>2
<1>4. PICK other \in {"LF", "RF"} :
           \A i \in a .. q : s.modes[i] \in {"FLY", other}
  <2>1. \A i \in a .. q : i \in 1 .. m + 1 /\ foot \notin StanceFeet(s.modes[i])
    BY <1>1, <1>2, <1>3
  <2>2. CASE foot = "right"
    <3>1. \A i \in a .. q : s.modes[i] \in {"FLY", "LF"}
      BY <1>1, <2>1, <2>2 DEF StanceFeet, ModeNumber, Foot
    <3> QED
      BY <2>2, <3>1
  <2>3. CASE foot = "left"
    <3>1. \A i \in a .. q : s.modes[i] \in {"FLY", "RF"}
      BY <1>1, <2>1, <2>3 DEF StanceFeet, ModeNumber, Foot
    <3> QED
      BY <2>3, <3>1
  <2> QED
    BY <2>2, <2>3 DEF Foot
<1>5. ASSUME NEW i \in a .. q - 1
      PROVE  \/ s.modes[i] = "FLY" /\ s.modes[i + 1] = other
             \/ s.modes[i] = other /\ s.modes[i + 1] = "FLY"
  <2>1. i \in a .. q /\ i + 1 \in a .. q /\ i \in 1 .. m
    BY <1>1, <1>2, <1>3
  <2>2. s.modes[i] \in {"FLY", other} /\ s.modes[i + 1] \in {"FLY", other}
    BY <1>4, <2>1
  <2>3. s.modes[i] = "FLY" => s.modes[i + 1] # "FLY"
    BY <1>1, <2>1 DEF Alternating
  <2>4. s.modes[i] = other => s.modes[i + 1] # other
    BY <1>1, <1>4, <2>1
  <2> QED
    BY <2>2, <2>3, <2>4
<1>6. ASSUME NEW i \in a + 1 .. q
      PROVE  /\ s.events[i] \in Int /\ s.events[i - 1] \in Int
             /\ s.modes[i] = "FLY" => s.events[i] - s.events[i - 1] <= 2
             /\ s.modes[i] = other => s.events[i] - s.events[i - 1] <= 13
             /\ s.modes[i] = "LF" /\ s.modes[i + 1] = "FLY" =>
                    s.events[i] - s.events[i - 1] <= 6
  <2>1. i \in 2 .. m /\ i \in 1 .. m /\ i - 1 \in 1 .. m
    BY <1>1, <1>2, <1>3
  <2>2. s.events[i] \in Int /\ s.events[i - 1] \in Int
    BY <1>1, <2>1
  <2>3. LET time == s.events[i] - s.events[i - 1]
        IN  /\ s.modes[i] = "FLY" => time <= 2
            /\ s.modes[i] \in {"LF", "RF"} => time <= 13
            /\ s.modes[i] = "LF" /\ s.modes[i + 1] = "FLY" => time <= 6
    BY <1>1, <2>1 DEF Paced, FlightTime, LeftStance, RunStance
  <2> QED
    BY <1>4, <2>2, <2>3
<1>7. \* five phases that begin and end with a stance of the other foot
      ASSUME NEW i \in a .. q, i + 4 <= q, s.modes[i] = other PROVE FALSE
  <2>1. /\ i + 1 \in a .. q - 1 /\ i + 2 \in a .. q - 1 /\ i + 3 \in a .. q - 1
        /\ i \in a .. q - 1
        /\ (i + 1) + 1 = i + 2 /\ (i + 2) + 1 = i + 3 /\ (i + 3) + 1 = i + 4
        /\ (i + 3) - 1 = i + 2 /\ (i + 3) - 2 = i + 1 /\ (i + 3) - 3 = i
        /\ i + 3 \in 4 .. m /\ i + 1 \in 1 .. m /\ i + 1 > 1 /\ (i + 1) - 1 = i
    BY <1>1, <1>2, <1>3, <1>7
  <2>2. s.modes[i + 1] = "FLY"
    BY <1>4, <1>5, <1>7, <2>1
  <2>3. s.modes[i + 2] = other
    BY <1>4, <1>5, <2>1, <2>2
  <2>4. s.modes[i + 3] = "FLY"
    BY <1>4, <1>5, <2>1, <2>3
  <2>5. s.modes[i + 4] = other
    BY <1>4, <1>5, <2>1, <2>4
  <2>6. CASE other = "LF"
    <3>1. Junction(s, i + 3)
      BY <2>1, <2>3, <2>4, <2>5, <2>6 DEF Junction
    <3> QED
      BY <1>1, <1>7, <2>1, <2>2, <2>6, <3>1 DEF JunctionsApart
  <2>7. CASE other = "RF"
    BY <1>1, <1>7, <2>1, <2>2, <2>3, <2>7 DEF Alternating
  <2> QED
    BY <2>6, <2>7
<1>8. \* three phases that begin and end with a stance on the right foot
      ASSUME NEW i \in a .. q, i + 2 <= q, s.modes[i] = other PROVE other = "LF"
  <2>1. /\ i + 1 \in a .. q - 1 /\ i \in a .. q - 1 /\ (i + 1) + 1 = i + 2
        /\ i + 1 \in 1 .. m /\ i + 1 > 1 /\ (i + 1) - 1 = i
    BY <1>1, <1>2, <1>3, <1>8
  <2>2. s.modes[i + 1] = "FLY"
    BY <1>4, <1>5, <1>8, <2>1
  <2>3. s.modes[i + 2] = other
    BY <1>4, <1>5, <2>1, <2>2
  <2> QED
    BY <1>1, <1>4, <1>8, <2>1, <2>2, <2>3 DEF Alternating
<1>9. AirTime = 21
  BY DEF AirTime, RunStance, FlightTime, LeftStance
<1>10. q \in Int /\ a \in Int /\ a <= q /\ s.events[a] \in Int
  <2>1. q \in Int /\ a \in Int /\ a <= q /\ a \in 1 .. m
    BY <1>1, <1>2, <1>3
  <2> QED
    BY <1>1, <2>1
<1>11. ASSUME NEW i \in a .. q - 1, s.modes[i] = "FLY"
       PROVE  /\ s.modes[i + 1] = other
              /\ s.events[i + 1] \in Int
              /\ s.events[i + 1] - s.events[i] <= 13
              /\ other = "LF" /\ i + 2 <= q => s.events[i + 1] - s.events[i] <= 6
  <2>1. i + 1 \in a + 1 .. q /\ (i + 1) - 1 = i
    BY <1>10
  <2>2. s.modes[i + 1] = other
    BY <1>4, <1>5, <1>11
  <2>3. ASSUME i + 2 <= q PROVE s.modes[(i + 1) + 1] = "FLY"
    <3>1. i + 1 \in a .. q - 1
      BY <1>10, <2>3
    <3> QED
      BY <1>4, <1>5, <2>2, <3>1
  <2> QED
    BY <1>6, <2>1, <2>2, <2>3
<1>12. ASSUME NEW i \in a .. q - 1, s.modes[i] = other
       PROVE  /\ s.modes[i + 1] = "FLY"
              /\ s.events[i + 1] \in Int
              /\ s.events[i + 1] - s.events[i] <= 2
  <2>1. i + 1 \in a + 1 .. q /\ (i + 1) - 1 = i
    BY <1>10
  <2>2. s.modes[i + 1] = "FLY"
    BY <1>4, <1>5, <1>12
  <2> QED
    BY <1>6, <2>1, <2>2
<1>13. \A i \in a .. q : s.modes[i] \in {"FLY", other} /\ other # "FLY"
  BY <1>4
<1>14. CASE s.modes[a] = other
  <2>1. ~(a + 4 <= q)
    BY <1>7, <1>10, <1>14
  <2>2. CASE q = a
    BY <1>3, <1>9, <1>10, <2>2
  <2>3. CASE q = a + 1
    <3>1. s.events[a + 1] \in Int /\ s.events[a + 1] - s.events[a] <= 2
      BY <1>10, <1>12, <1>14, <2>3
    <3> QED
      BY <1>3, <1>9, <1>10, <2>3, <3>1
  <2>4. CASE q = a + 2
    <3>1. /\ s.modes[a + 1] = "FLY"
          /\ s.events[a + 1] \in Int /\ s.events[a + 1] - s.events[a] <= 2
      BY <1>10, <1>12, <1>14, <2>4
    <3>2. s.events[a + 2] \in Int /\ s.events[a + 2] - s.events[a + 1] <= 13
      <4>1. a + 1 \in a .. q - 1 /\ (a + 1) + 1 = a + 2
        BY <1>10, <2>4
      <4> QED
        BY <1>11, <3>1, <4>1
    <3> QED
      BY <1>3, <1>9, <1>10, <2>4, <3>1, <3>2
  <2>5. CASE q = a + 3
    <3>0. /\ a \in a .. q - 1 /\ a + 1 \in a .. q - 1 /\ (a + 1) + 1 = a + 2
          /\ a + 2 \in a .. q - 1 /\ (a + 2) + 1 = a + 3 /\ (a + 1) + 2 <= q
          /\ a \in a .. q /\ a + 2 <= q
      BY <1>10, <2>5
    <3>1. /\ s.modes[a + 1] = "FLY"
          /\ s.events[a + 1] \in Int /\ s.events[a + 1] - s.events[a] <= 2
      BY <1>12, <1>14, <3>0
    <3>2. other = "LF"
      BY <1>8, <1>14, <3>0
    <3>3. /\ s.modes[a + 2] = other
          /\ s.events[a + 2] \in Int /\ s.events[a + 2] - s.events[a + 1] <= 6
      BY <1>11, <3>0, <3>1, <3>2
    <3>4. s.events[a + 3] \in Int /\ s.events[a + 3] - s.events[a + 2] <= 2
      BY <1>12, <3>0, <3>3
    <3> QED
      BY <1>3, <1>9, <1>10, <2>5, <3>1, <3>3, <3>4
  <2> QED
    BY <1>10, <2>1, <2>2, <2>3, <2>4, <2>5
<1>15. CASE s.modes[a] = "FLY"
  <2>0. a + 1 <= q => s.modes[a + 1] = other
    BY <1>10, <1>11, <1>15
  <2>1. ~(a + 5 <= q)
    <3> SUFFICES ASSUME a + 5 <= q PROVE FALSE
      OBVIOUS
    <3>1. a + 1 \in a .. q /\ (a + 1) + 4 <= q /\ a + 1 <= q
      BY <1>10
    <3> QED
      BY <1>7, <2>0, <3>1
  <2>2. CASE q = a
    BY <1>3, <1>9, <1>10, <2>2
  <2>3. CASE q = a + 1
    <3>1. s.events[a + 1] \in Int /\ s.events[a + 1] - s.events[a] <= 13
      BY <1>10, <1>11, <1>15, <2>3
    <3> QED
      BY <1>3, <1>9, <1>10, <2>3, <3>1
  <2>4. CASE q = a + 2
    <3>0. /\ a \in a .. q - 1 /\ a + 1 \in a .. q - 1 /\ (a + 1) + 1 = a + 2
      BY <1>10, <2>4
    <3>1. /\ s.modes[a + 1] = other
          /\ s.events[a + 1] \in Int /\ s.events[a + 1] - s.events[a] <= 13
      BY <1>11, <1>15, <3>0
    <3>2. s.events[a + 2] \in Int /\ s.events[a + 2] - s.events[a + 1] <= 2
      BY <1>12, <3>0, <3>1
    <3> QED
      BY <1>3, <1>9, <1>10, <2>4, <3>1, <3>2
  <2>5. CASE q >= a + 3
    <3>0. /\ a \in a .. q - 1 /\ a + 1 \in a .. q - 1 /\ (a + 1) + 1 = a + 2
          /\ a + 2 \in a .. q - 1 /\ (a + 2) + 1 = a + 3 /\ a + 2 <= q
          /\ a + 1 \in a .. q /\ (a + 1) + 2 <= q
      BY <1>10, <2>5
    <3>1. /\ s.modes[a + 1] = other
          /\ s.events[a + 1] \in Int /\ s.events[a + 1] - s.events[a] <= 13
          /\ other = "LF" => s.events[a + 1] - s.events[a] <= 6
      BY <1>11, <1>15, <3>0
    <3>2. other = "LF"
      BY <1>8, <3>0, <3>1
    <3>3. /\ s.modes[a + 2] = "FLY"
          /\ s.events[a + 2] \in Int /\ s.events[a + 2] - s.events[a + 1] <= 2
      BY <1>12, <3>0, <3>1
    <3>4. /\ s.modes[a + 3] = other
          /\ s.events[a + 3] \in Int /\ s.events[a + 3] - s.events[a + 2] <= 13
          /\ a + 4 <= q => s.events[a + 3] - s.events[a + 2] <= 6
      <4>1. (a + 2) + 2 = a + 4
        BY <1>10
      <4> QED
        BY <1>11, <3>0, <3>2, <3>3, <4>1
    <3>5. CASE q = a + 3
      BY <1>3, <1>9, <1>10, <3>1, <3>2, <3>3, <3>4, <3>5
    <3>6. CASE q = a + 4
      <4>1. s.events[a + 4] \in Int /\ s.events[a + 4] - s.events[a + 3] <= 2
        <5>1. a + 3 \in a .. q - 1 /\ (a + 3) + 1 = a + 4
          BY <1>10, <3>6
        <5> QED
          BY <1>12, <3>4, <5>1
      <4> QED
        BY <1>3, <1>9, <1>10, <3>1, <3>2, <3>3, <3>4, <3>6, <4>1
    <3> QED
      BY <1>10, <2>1, <2>5, <3>5, <3>6
  <2> QED
    BY <1>10, <2>1, <2>2, <2>3, <2>4, <2>5
<1>16. a \in a .. q
  BY <1>10
<1> QED
  BY <1>13, <1>14, <1>15, <1>16

(* The foot that is in the air at t left the ground at time x.             *)
TakesOff(s, foot, t, x) ==
    \E j, q \in Nat : InAir(s, foot, t, j, q) /\ s.events[j] = x

(* What goes on from a plan after t keeps the take-off.                    *)
LEMMA ContinuedTakeOff ==
    ASSUME NEW p, NEW s, Plan(s), Len(p.events) \in Nat,
           NEW k, NEW gait, Continues(p, s, k, gait),
           NEW foot, NEW t \in Int, s.events[k] >= t, NEW x,
           TakesOff(s, foot, t, x)
    PROVE  TakesOff(p, foot, t, x)
<1>1. PICK m \in Nat : m = Len(s.events) /\ s.events \in [1 .. m -> Int]
  BY PlanFacts
<1>2. PICK l \in Nat : l = Len(p.events)
  OBVIOUS
<1>3. /\ k \in 1 .. m /\ k <= l
      /\ \A i \in 1 .. k : p.events[i] = s.events[i] /\ p.modes[i] = s.modes[i]
  BY <1>1, <1>2 DEF Continues
<1>4. PICK j, q \in Nat : InAir(s, foot, t, j, q) /\ s.events[j] = x
  BY DEF TakesOff
<1>5. /\ q \in 1 .. m /\ j \in 1 .. q - 1
      /\ s.events[q] >= t /\ \A i \in 1 .. q - 1 : s.events[i] < t
      /\ foot \in StanceFeet(s.modes[j])
      /\ \A i \in j + 1 .. q : foot \notin StanceFeet(s.modes[i])
  BY <1>1, <1>4 DEF InAir
<1>6. q <= k
  <2> SUFFICES ASSUME k < q PROVE FALSE
    BY <1>3
  <2>1. k \in 1 .. q - 1 /\ s.events[k] \in Int
    BY <1>1, <1>3
  <2> QED
    BY <1>5, <2>1
<1>7. /\ q \in 1 .. l /\ j \in 1 .. k /\ q \in 1 .. k
      /\ \A i \in 1 .. q - 1 : i \in 1 .. k
      /\ \A i \in j + 1 .. q : i \in 1 .. k
  BY <1>3, <1>5, <1>6
<1>8. /\ p.events[q] >= t /\ \A i \in 1 .. q - 1 : p.events[i] < t
      /\ foot \in StanceFeet(p.modes[j])
      /\ \A i \in j + 1 .. q : foot \notin StanceFeet(p.modes[i])
      /\ p.events[j] = x
  BY <1>3, <1>4, <1>5, <1>7
<1>9. InAir(p, foot, t, j, q)
  BY <1>2, <1>5, <1>7, <1>8 DEF InAir
<1> QED
  BY <1>8, <1>9 DEF TakesOff

(* Forgetting the past keeps it as long as the first phase of the flight   *)
(* is not forgotten.                                                       *)
LEMMA TrimmedTakeOff ==
    ASSUME NEW s, Plan(s), NEW lower \in Int, NEW foot \in Foot, NEW t \in Int,
           NEW j, NEW q, InAir(s, foot, t, j, q), s.events[j + 1] >= lower
    PROVE  TakesOff(Trim(s, lower), foot, t, s.events[j])
<1> DEFINE r == Trim(s, lower)
<1>1. PICK m \in Nat :
           /\ m = Len(s.events) /\ m >= 1 /\ s.events \in [1 .. m -> Int]
           /\ \A i, l \in 1 .. m : i < l => s.events[i] < s.events[l]
  BY PlanFacts
<1>2. PICK d \in 0 .. m - 1 : /\ From(r, s, d)
                              /\ (r = s /\ d = 0) \/ s.events[d + 1] < lower
  BY <1>1, TrimShape
<1> HIDE DEF r
<1>3. PICK n \in Nat : n = m - d
  BY <1>1, <1>2
<1>4. /\ Len(r.events) = n
      /\ \A i \in 1 .. n : r.events[i] = s.events[d + i]
      /\ r.modes[1] = "STANCE"
      /\ \A i \in 2 .. n + 1 : r.modes[i] = s.modes[d + i]
  BY <1>1, <1>2, <1>3 DEF From
<1>5. /\ q \in 1 .. m /\ j \in 1 .. q - 1
      /\ s.events[q] >= t /\ \A i \in 1 .. q - 1 : s.events[i] < t
      /\ foot \in StanceFeet(s.modes[j])
      /\ \A i \in j + 1 .. q : foot \notin StanceFeet(s.modes[i])
  BY <1>1 DEF InAir
<1>6. d + 1 <= j
  <2>1. j + 1 \in 1 .. m /\ d + 1 \in 1 .. m
    BY <1>1, <1>2, <1>5
  <2>2. CASE d = 0
    BY <1>5, <2>2
  <2>3. CASE s.events[d + 1] < lower
    <3>1. s.events[d + 1] \in Int /\ s.events[j + 1] \in Int
      BY <1>1, <2>1
    <3>2. s.events[d + 1] < s.events[j + 1]
      BY <2>3, <3>1
    <3>3. ~(j + 1 < d + 1) /\ j # d
      BY <1>1, <2>1, <3>1, <3>2
    <3> QED
      BY <1>1, <1>2, <1>5, <3>3
  <2> QED
    BY <1>2, <2>2, <2>3
<1>7. PICK u, v \in Nat : d + u = j /\ d + v = q
  <2>1. j - d \in Nat /\ q - d \in Nat /\ d + (j - d) = j /\ d + (q - d) = q
    BY <1>1, <1>2, <1>5, <1>6
  <2> QED
    BY <2>1
<1>8. /\ v \in 1 .. n /\ u \in 1 .. v - 1 /\ u \in 1 .. n
      /\ \A i \in 1 .. v - 1 : i \in 1 .. n /\ d + i \in 1 .. q - 1
      /\ \A i \in u + 1 .. v : i \in 2 .. n + 1 /\ d + i \in j + 1 .. q
  BY <1>1, <1>2, <1>3, <1>5, <1>6, <1>7
<1>9. r.events[v] >= t /\ r.events[u] = s.events[j]
  BY <1>4, <1>5, <1>7, <1>8
<1>10. \A i \in 1 .. v - 1 : r.events[i] < t
  BY <1>4, <1>5, <1>8
<1>11. foot \in StanceFeet(r.modes[u])
  <2>1. CASE u = 1
    BY <1>4, <2>1 DEF StanceFeet
  <2>2. CASE u # 1
    <3>1. u \in 2 .. n + 1
      BY <1>8, <2>2
    <3> QED
      BY <1>4, <1>5, <1>7, <3>1
  <2> QED
    BY <2>1, <2>2
<1>12. \A i \in u + 1 .. v : foot \notin StanceFeet(r.modes[i])
  BY <1>4, <1>5, <1>8
<1>13. InAir(r, foot, t, u, v)
  BY <1>4, <1>8, <1>9, <1>10, <1>11, <1>12 DEF InAir
<1> QED
  BY <1>9, <1>13 DEF TakesOff, r

(* So does the schedule the solver is given.                               *)
LEMMA ScheduledTakeOff ==
    ASSUME NEW s, Plan(s), NEW lower \in Int, NEW upper \in Int,
           NEW gait \in DOMAIN GaitMap, NEW foot \in Foot, NEW t \in Int,
           NEW j, NEW q, InAir(s, foot, t, j, q), s.events[j + 1] >= lower
    PROVE  TakesOff(GetModeSchedule(s, GaitMap[gait], lower, upper), foot, t,
                    s.events[j])
<1> DEFINE r == Trim(s, lower)
           p == GetModeSchedule(s, GaitMap[gait], lower, upper)
<1>1. Plan(r) /\ TakesOff(r, foot, t, s.events[j])
  BY TrimPlan, TrimmedTakeOff
<1>2. Plan(p)
  BY GetModeSchedulePlan
<1>3. Continues(p, r, Len(r.events), gait)
  BY GetModeScheduleContinues
<1> HIDE DEF r, p
<1>4. Len(p.events) \in Nat
  BY <1>2, PlanFacts
<1>5. PICK n \in Nat :
           /\ n = Len(r.events) /\ n >= 1 /\ r.events \in [1 .. n -> Int]
           /\ \A i, l \in 1 .. n : i < l => r.events[i] < r.events[l]
  BY <1>1, PlanFacts
<1>6. r.events[Len(r.events)] >= t
  <2>1. PICK v \in 1 .. n : r.events[v] >= t
    BY <1>1, <1>5 DEF TakesOff, InAir
  <2>2. n \in 1 .. n /\ (v = n \/ v < n)
    BY <1>5
  <2>3. r.events[v] \in Int /\ r.events[n] \in Int /\ r.events[v] <= r.events[n]
    BY <1>5, <2>2
  <2> QED
    BY <1>5, <2>1, <2>3
<1> QED
  <2>1. TakesOff(p, foot, t, s.events[j])
    BY <1>1, <1>3, <1>4, <1>6, ContinuedTakeOff
  <2> QED
    BY <2>1 DEF p

(* The take-off the planner reads.                                         *)
LEMMA TakeOffTimes ==
    ASSUME NEW s, Plan(s), NEW foot \in Foot
    PROVE  /\ Swinging(s, foot) => TakesOff(s, foot, 0, TakeOffTime(s, foot))
           /\ \A x : TakesOff(s, foot, 0, x) =>
                         Swinging(s, foot) /\ TakeOffTime(s, foot) = x
<1>1. ASSUME NEW x, TakesOff(s, foot, 0, x)
      PROVE  Swinging(s, foot) /\ TakeOffTime(s, foot) = x
  <2>1. PICK j, q \in Nat : InAir(s, foot, 0, j, q) /\ s.events[j] = x
    BY <1>1 DEF TakesOff
  <2>2. /\ PhaseAt(s, 0) = q /\ TakeOff(s.modes, foot, q) = j
        /\ foot \notin StanceFeet(ModeAtTime(s, 0))
    BY <2>1, TakeOffOfSwing
  <2> QED
    BY <2>1, <2>2 DEF Swinging, TakeOffTime
<1>2. ASSUME Swinging(s, foot)
      PROVE  TakesOff(s, foot, 0, TakeOffTime(s, foot))
  <2>1. PICK j, q \in Nat : InAir(s, foot, 0, j, q)
    BY <1>2, SwingHasTakeOff DEF Swinging
  <2>2. TakesOff(s, foot, 0, s.events[j])
    BY <2>1 DEF TakesOff
  <2> QED
    BY <1>1, <2>2
<1> QED
  BY <1>1, <1>2

(* As time passes the take-off moves into the past.                        *)
LEMMA ShiftedTakeOff ==
    ASSUME NEW s, Plan(s), NEW dt \in Nat, NEW foot \in Foot, NEW x \in Int
    PROVE  TakesOff(Shift(s, dt), foot, 0, x) <=> TakesOff(s, foot, dt, x + dt)
<1> DEFINE r == Shift(s, dt)
<1>1. PICK m \in Nat : /\ m = Len(s.events) /\ m >= 1
                       /\ s.events \in [1 .. m -> Int]
  BY PlanFacts
<1>2. /\ Len(r.events) = m /\ r.modes = s.modes
      /\ \A i \in 1 .. m : r.events[i] = s.events[i] - dt
  <2> DEFINE E == [i \in 1 .. m |-> s.events[i] - dt]
  <2>1. r = [s EXCEPT !.events = E]
    BY <1>1 DEF Shift
  <2>2. Len(E) = m /\ \A i \in 1 .. m : E[i] = s.events[i] - dt
    BY <1>1
  <2> HIDE DEF E
  <2>3. r.events = E /\ r.modes = s.modes
    BY <2>1 DEF Plan, Schedule
  <2> QED
    BY <2>2, <2>3
<1> HIDE DEF r
<1>3. \A i \in 1 .. m : /\ r.events[i] >= 0 <=> s.events[i] >= dt
                        /\ r.events[i] < 0 <=> s.events[i] < dt
                        /\ r.events[i] = x <=> s.events[i] = x + dt
  <2> SUFFICES ASSUME NEW i \in 1 .. m
               PROVE  /\ r.events[i] >= 0 <=> s.events[i] >= dt
                      /\ r.events[i] < 0 <=> s.events[i] < dt
                      /\ r.events[i] = x <=> s.events[i] = x + dt
    OBVIOUS
  <2>1. r.events[i] = s.events[i] - dt /\ s.events[i] \in Int
    BY <1>1, <1>2
  <2> QED
    BY <2>1
<1>4. ASSUME NEW j \in Nat, NEW q \in Nat
      PROVE  InAir(r, foot, 0, j, q) /\ r.events[j] = x
                 <=> InAir(s, foot, dt, j, q) /\ s.events[j] = x + dt
  <2>1. q \in 1 .. m => q - 1 \in 0 .. m /\ \A i \in 1 .. q - 1 : i \in 1 .. m
    BY <1>1
  <2> QED
    BY <1>1, <1>2, <1>3, <2>1 DEF InAir
<1> QED
  BY <1>4 DEF TakesOff, r

-----------------------------------------------------------------------------
(* A schedule without a flight phase.                                      *)
Grounded(s) == \A i \in DOMAIN s.modes : s.modes[i] # "FLY"

(* What SwingKept needs besides: unless the robot runs, the insertion of   *)
(* a gait keeps every take-off up to Kept.                                 *)
TakeOffInv ==
    Grounded(published) =>
        \A foot \in Foot, x \in Int, t \in (IF due THEN {0} ELSE 0 .. Kept) :
            TakesOff(published, foot, t, x) => TakesOff(schedule, foot, t, x)

LEMMA TakeOffInvInit == Init => TakeOffInv
BY DEF Init, TakeOffInv

LEMMA TakeOffInvControl ==
    ASSUME PromptSolves, MotionInv, TakeOffInv, NEW dt \in Intervals,
           NEW raw \in RawCommands, NEW vel \in BaseVelocities,
           Control(dt, raw, vel)
    PROVE  TakeOffInv'
<1>1. dt \in Nat /\ dt \in 0 .. Kept
  BY KeptBound, MotionAssumption DEF PromptSolves
<1>2. /\ ~due /\ due' = TRUE
      /\ schedule' = Shift(schedule, dt) /\ published' = Shift(published, dt)
      /\ Plan(schedule) /\ Plan(published)
  BY DEF Control, MotionInv
<1>3. published'.modes = published.modes
  BY <1>2 DEF Shift, Plan, Schedule
<1>4. ASSUME Grounded(published'), NEW foot \in Foot, NEW x \in Int,
             TakesOff(published', foot, 0, x)
      PROVE  TakesOff(schedule', foot, 0, x)
  <2>1. Grounded(published)
    BY <1>3, <1>4 DEF Grounded
  <2>2. TakesOff(published, foot, dt, x + dt)
    BY <1>1, <1>2, <1>4, ShiftedTakeOff
  <2>3. x + dt \in Int
    BY <1>1
  <2>4. TakesOff(schedule, foot, dt, x + dt)
    BY <1>1, <1>2, <2>1, <2>2, <2>3 DEF TakeOffInv
  <2> QED
    BY <1>1, <1>2, <2>4, ShiftedTakeOff
<1>5. (Grounded(published) =>
           \A foot \in Foot, x \in Int :
               TakesOff(published, foot, 0, x) => TakesOff(schedule, foot, 0, x))'
  BY <1>4 DEF Grounded, TakesOff, InAir
<1> QED
  BY <1>2, <1>5 DEF TakeOffInv

(* The insertion of a gait into a schedule without a flight.               *)
LEMMA InsertionKeepsTakeOff ==
    ASSUME MotionInv, NEW s, Plan(s), Grounded(s), NEW gait \in DOMAIN GaitMap,
           NEW foot \in Foot, NEW t \in 0 .. Kept, NEW x, TakesOff(s, foot, t, x)
    PROVE  TakesOff(Updated(s, gait), foot, t, x)
<1> DEFINE current == GetModeSchedule(s, GaitMap[template], 0, 2 * Horizon)
<1>0. t \in Int /\ 0 <= t /\ t <= Kept /\ Kept \in Int
  BY KeptBound
<1>1. PICK j, q \in Nat : InAir(s, foot, t, j, q) /\ s.events[j] = x
  BY DEF TakesOff
<1>2. PICK m \in Nat : m = Len(s.events) /\ s.events \in [1 .. m -> Int]
  BY PlanFacts
<1>3. /\ q \in 1 .. m /\ j \in 1 .. q - 1 /\ s.events[q] >= t
      /\ \A i \in j + 1 .. q : foot \notin StanceFeet(s.modes[i])
  BY <1>1, <1>2 DEF InAir
<1>4. j + 1 = q
  <2>1. q - 1 \in 1 .. m /\ (q - 1) + 1 = q /\ q \in j + 1 .. q
    BY <1>2, <1>3
  <2>2. q - 1 \in DOMAIN s.events
    BY <1>2, <2>1
  <2>3. q - 1 \in InContact(s.modes, foot) \/ q \in InContact(s.modes, foot)
    BY <2>1, <2>2, SwingsAreSingle DEF Grounded
  <2>4. q - 1 \notin j + 1 .. q
    BY <1>3, <2>1, <2>3 DEF InContact
  <2> QED
    BY <1>2, <1>3, <2>4
<1>5. s.events[j + 1] >= 0
  <2>1. s.events[q] \in Int
    BY <1>2, <1>3
  <2> QED
    BY <1>0, <1>3, <1>4, <2>1
<1>6. template \in DOMAIN GaitMap
  BY ConfigGaits DEF MotionInv
<1>7. TakesOff(current, foot, t, x)
  <2>1. 0 \in Int /\ 2 * Horizon \in Int
    BY MotionAssumption
  <2> QED
    BY <1>0, <1>1, <1>5, <1>6, <2>1, ScheduledTakeOff
<1>8. PICK k \in 1 .. Len(current.events) :
           /\ Plan(current) /\ Plan(Updated(s, gait))
           /\ Continues(Updated(s, gait), current, k, gait)
           /\ current.events[k] >= Kept
  BY UpdatedContinues
<1> HIDE DEF current
<1>9. current.events[k] >= t
  <2>1. current.events[k] \in Int
    BY <1>8, PlanFacts
  <2> QED
    BY <1>0, <1>8, <2>1
<1>10. Len(Updated(s, gait).events) \in Nat
  BY <1>8, PlanFacts
<1> QED
  BY <1>0, <1>7, <1>8, <1>9, <1>10, ContinuedTakeOff

LEMMA TakeOffInvSolve ==
    ASSUME MotionInv, Solve
    PROVE  TakeOffInv'
<1>1. due' = FALSE /\ published' = Published(schedule)
  BY DEF Solve
<1>2. Plan(published')
  BY <1>1, PublishedPlan
<1>3. ASSUME Grounded(published'), NEW foot \in Foot, NEW x \in Int,
             NEW t \in 0 .. Kept, TakesOff(published', foot, t, x)
      PROVE  TakesOff(schedule', foot, t, x)
  <2>1. CASE currentGaitMode_' = currentGaitMode_
    BY <1>3, <2>1 DEF Solve
  <2>2. CASE currentGaitMode_' # currentGaitMode_
    <3> DEFINE gait == Config(currentGaitMode_').gaitCommand
    <3>1. gait \in DOMAIN GaitMap
      <4>1. currentGaitMode_' \in 0 .. 6
        BY ModeInTable, MotionAssumption DEF Solve, MotionInv
      <4> QED
        BY <4>1, ConfigGaits
    <3>2. schedule' = Updated(published', gait)
      BY <2>2 DEF Solve
    <3> HIDE DEF gait
    <3> QED
      BY <1>2, <1>3, <3>1, <3>2, InsertionKeepsTakeOff
  <2> QED
    BY <2>1, <2>2
<1>4. (Grounded(published) =>
           \A foot \in Foot, x \in Int, t \in 0 .. Kept :
               TakesOff(published, foot, t, x) => TakesOff(schedule, foot, t, x))'
  <2>1. Kept' = Kept
    BY DEF Kept, Lead, LeftStance
  <2> QED
    BY <1>3, <2>1 DEF Grounded, TakesOff, InAir
<1> QED
  BY <1>1, <1>4 DEF TakeOffInv

LEMMA TakeOffInvNext ==
    ASSUME PromptSolves, MotionInv, TakeOffInv, [Next]_vars
    PROVE  TakeOffInv'
<1>1. CASE \E dt \in Intervals, raw \in RawCommands, vel \in BaseVelocities :
               Control(dt, raw, vel)
  BY <1>1, TakeOffInvControl
<1>2. CASE Solve
  BY <1>2, TakeOffInvSolve
<1>3. CASE UNCHANGED vars
  <2>1. UNCHANGED <<schedule, published, due>>
    BY <1>3 DEF vars
  <2>2. Grounded(published') =>
            \A foot \in Foot, x \in Int, t \in (IF due' THEN {0} ELSE 0 .. Kept) :
                TakesOff(published', foot, t, x) => TakesOff(schedule', foot, t, x)
    BY <2>1 DEF TakeOffInv
  <2>3. Kept' = Kept
    BY DEF Kept, Lead, LeftStance
  <2> QED
    BY <2>2, <2>3 DEF TakeOffInv, Grounded, TakesOff, InAir
<1> QED
  BY <1>1, <1>2, <1>3 DEF Next

(* No foot is in the air for longer than the schedule reaches back: the    *)
(* horizon of task.info is at least 1.1 s.                                 *)
LongHorizon == Horizon >= AirTime

(* One step of SwingKept.                                                  *)
LEMMA SolveKeepsSwings ==
    ASSUME LongHorizon, MotionInv, FlightInv, TakeOffInv, Solve,
           NEW foot \in Foot, Swinging(published, foot),
           \/ schedule = published
           \/ ModeAtTime(published, 0) # "FLY"
              /\ \A i \in DOMAIN published.modes : published.modes[i] # "FLY"
    PROVE  TakeOffTime(published', foot) = TakeOffTime(published, foot)
<1> DEFINE x == TakeOffTime(published, foot)
<1>1. /\ due /\ published' = Published(schedule)
      /\ Plan(schedule) /\ Plan(published) /\ template \in DOMAIN GaitMap
  BY ConfigGaits DEF Solve, MotionInv
<1>2. 0 \in Int /\ -Horizon \in Int /\ 2 * Horizon \in Int
  BY MotionAssumption
<1>3. TakesOff(published, foot, 0, x)
  BY <1>1, TakeOffTimes
<1>4. TakesOff(schedule, foot, 0, x)
  <2>1. CASE schedule = published
    BY <1>3, <2>1
  <2>2. CASE Grounded(published)
    <3>1. x \in Int
      <4>1. PICK j, q \in Nat : InAir(published, foot, 0, j, q) /\ published.events[j] = x
        BY <1>3 DEF TakesOff
      <4>2. PICK m \in Nat : /\ m = Len(published.events)
                             /\ published.events \in [1 .. m -> Int]
        BY <1>1, PlanFacts
      <4>3. j \in 1 .. m
        BY <4>1, <4>2 DEF InAir
      <4> HIDE DEF x
      <4> QED
        BY <4>1, <4>2, <4>3
    <3> HIDE DEF x
    <3> QED
      BY <1>1, <1>3, <2>2, <3>1 DEF TakeOffInv
  <2> QED
    BY <2>1, <2>2 DEF Grounded
<1> HIDE DEF x
<1>5. PICK j, q \in Nat : InAir(schedule, foot, 0, j, q) /\ schedule.events[j] = x
  BY <1>4 DEF TakesOff
<1>6. schedule.events[j + 1] >= -Horizon
  <2>1. schedule.events[q] - schedule.events[j + 1] <= AirTime
    BY <1>1, <1>2, <1>5, AirBound DEF FlightInv, Flights
  <2>2. PICK m \in Nat : /\ m = Len(schedule.events)
                         /\ schedule.events \in [1 .. m -> Int]
    BY <1>1, PlanFacts
  <2>3. q \in 1 .. m /\ j + 1 \in 1 .. m /\ schedule.events[q] >= 0
    BY <1>5, <2>2 DEF InAir
  <2>4. schedule.events[q] \in Int /\ schedule.events[j + 1] \in Int
    BY <2>2, <2>3
  <2>5. AirTime \in Int /\ Horizon >= AirTime
    BY DEF LongHorizon, AirTime, RunStance, FlightTime, LeftStance
  <2> QED
    BY <2>1, <2>3, <2>4, <2>5, MotionAssumption
<1>7. TakesOff(Published(schedule), foot, 0, x)
  BY <1>1, <1>2, <1>5, <1>6, ScheduledTakeOff DEF Published
<1>8. Plan(Published(schedule))
  BY PublishedPlan
<1>9. TakeOffTime(Published(schedule), foot) = x
  BY <1>7, <1>8, TakeOffTimes
<1> QED
  BY <1>1, <1>9 DEF x

(* A foot in the air keeps the take-off its curves start from, unless a    *)
(* gait was inserted while the robot ran: for every horizon longer than a  *)
(* foot can be in the air and all solves not further apart than what the   *)
(* insertion of a gait keeps.                                              *)
THEOREM SwingKeptHolds ==
    ASSUME PromptSolves, LongHorizon
    PROVE  Spec => SwingKept
<1>1. Init => MotionInv /\ FlightInv /\ TakeOffInv
  BY MotionInvInit, FlightInvInit, TakeOffInvInit
<1>2. MotionInv /\ FlightInv /\ TakeOffInv /\ [Next]_vars =>
          (MotionInv /\ FlightInv /\ TakeOffInv)'
  BY MotionInvNext, FlightInvNext, TakeOffInvNext
<1>3. MotionInv /\ FlightInv /\ TakeOffInv /\ [Next]_vars =>
          [Solve =>
              \A foot \in Foot :
                  /\ Swinging(published, foot) /\ Swinging(published', foot)
                  /\ \/ schedule = published
                     \/ ModeAtTime(published, 0) # "FLY"
                        /\ \A i \in DOMAIN published.modes :
                               published.modes[i] # "FLY"
                  => TakeOffTime(published', foot) = TakeOffTime(published, foot)]_vars
  BY SolveKeepsSwings
<1> QED
  BY <1>1, <1>2, <1>3, PTL DEF Spec, SwingKept
=============================================================================
