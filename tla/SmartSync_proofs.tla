-------------------------- MODULE SmartSync_proofs --------------------------
(***************************************************************************)
(* The wait queues, the locks and the units of SmartSync, for any tasks    *)
(* and any bounds.                                                         *)
(***************************************************************************)
EXTENDS SmartSync, FiniteSetTheorems, WellFoundedInduction, TLAPS

-----------------------------------------------------------------------------
(* Induction on a set of numbers takes the form of its least element.      *)

LEMMA LeastNumber ==
    ASSUME NEW T, T \subseteq Nat, T # {}
    PROVE  \E n \in T : \A m \in T : n <= m
<1>1. PICK n \in T : \A m \in T : ~(<<m, n>> \in OpToRel(<, Nat))
  BY NatLessThanWellFounded, WFMin
<1>2. \A m \in T : ~(m < n)
  BY <1>1 DEF OpToRel
<1> QED BY <1>2

(* So a set of numbers with 0 and with the successor of each member below  *)
(* a bound has every number up to that bound.                              *)
LEMMA UpTo ==
    ASSUME NEW N \in Nat, NEW T, 0 \in T, \A n \in T : n \in Nat /\ n < N => n + 1 \in T
    PROVE  0 .. N \subseteq T
<1> SUFFICES ASSUME (0 .. N) \ T # {} PROVE FALSE
  OBVIOUS
<1>1. PICK n \in (0 .. N) \ T : \A m \in (0 .. N) \ T : n <= m
  <2>1. (0 .. N) \ T \subseteq Nat
    OBVIOUS
  <2> QED BY <2>1, LeastNumber
<1>2. n # 0 /\ n - 1 \in 0 .. N
  BY <1>1
<1>3. n - 1 \in T
  BY <1>1, <1>2
<1>4. (n - 1) + 1 \in T
  BY <1>1, <1>2, <1>3
<1> QED BY <1>1, <1>4

-----------------------------------------------------------------------------
(* What a walk over a list meets.                                          *)

Links == [Task -> Pointer]
NoCycle(link) == \A S \in (SUBSET Task) \ {{}} : \E t \in S : link[t] \notin S
Size == Cardinality(Task)
Step(t, link) == IF t = NoTask THEN NoTask ELSE link[t]

LEMMA SizeType == Size \in Nat
BY TaskAssumption, FS_CardinalityType DEF Size

(* The recursive function of Walk is the walk it describes. *)
LEMMA WalkSteps ==
    ASSUME NEW link \in Links, NEW h \in Pointer
    PROVE  /\ Walk(h, link) \in [0 .. Size -> Pointer]
           /\ Walk(h, link)[0] = h
           /\ \A n \in 1 .. Size : Walk(h, link)[n] = Step(Walk(h, link)[n - 1], link)
<1> DEFINE Graph(f, k) == f = [n \in 0 .. k |-> IF n = 0 THEN h ELSE Step(f[n - 1], link)]
           T == {k \in Nat : \E f : Graph(f, k)}
<1>1. 0 \in T
  <2>1. Graph([n \in 0 .. 0 |-> h], 0)
    OBVIOUS
  <2> QED BY <2>1
<1>2. ASSUME NEW k \in T PROVE k + 1 \in T
  <2>1. PICK f : Graph(f, k)
    OBVIOUS
  <2> DEFINE g == [n \in 0 .. k + 1 |-> IF n = k + 1 THEN Step(f[k], link) ELSE f[n]]
  <2>2. \A n \in 0 .. k + 1 : g[n] = IF n = 0 THEN h ELSE Step(g[n - 1], link)
    <3> TAKE n \in 0 .. k + 1
    <3>1. \A m \in 0 .. k : f[m] = IF m = 0 THEN h ELSE Step(f[m - 1], link)
      BY <2>1
    <3>2. CASE n = k + 1
      BY <3>2
    <3>3. CASE n \in 0 .. k
      BY <3>1, <3>3
    <3> QED BY <3>2, <3>3
  <2>3. Graph(g, k + 1)
    BY <2>2
  <2>4. k + 1 \in Nat /\ \E w : Graph(w, k + 1)
    <3> HIDE DEF g, Graph
    <3> QED BY <2>3
  <2> QED BY <2>4
<1>3. Size \in T
  <2> HIDE DEF T
  <2>1. 0 .. Size \subseteq T
    BY <1>1, <1>2, SizeType, UpTo
  <2> QED BY <2>1, SizeType
<1> DEFINE at == Walk(h, link)
<1>4. Graph(at, Size)
  <2>1. PICK f : Graph(f, Size)
    BY <1>3
  <2>2. at = CHOOSE w : Graph(w, Size)
    BY DEF Walk, Step, Size
  <2> QED BY <2>1, <2>2
<1> HIDE DEF at
<1>5. at[0] = h /\ \A n \in 1 .. Size : at[n] = Step(at[n - 1], link)
  BY <1>4, SizeType
<1>6. \A n \in 0 .. Size : at[n] \in Pointer
  <2> DEFINE P == {n \in Nat : n <= Size => at[n] \in Pointer}
  <2>1. 0 \in P
    BY <1>5
  <2>2. ASSUME NEW n \in P, n < Size PROVE n + 1 \in P
    <3>1. at[n] \in Pointer /\ n + 1 \in 1 .. Size
      BY <2>2, SizeType
    <3>2. at[n + 1] = Step(at[n], link)
      BY <1>5, <3>1, SizeType
    <3> QED BY <3>1, <3>2 DEF Step, Links, Pointer
  <2> HIDE DEF P
  <2>3. 0 .. Size \subseteq P
    BY <2>1, <2>2, SizeType, UpTo DEF P
  <2> QED BY <2>3 DEF P
<1> QED BY <1>4, <1>5, <1>6 DEF at

LEMMA MetType ==
    ASSUME NEW link \in Links, NEW h \in Pointer
    PROVE  /\ Met(h, link) \in SUBSET Task
           /\ h # NoTask => h \in Met(h, link)
           /\ Met(h, link) = {Walk(h, link)[n] : n \in 0 .. Size} \ {NoTask}
<1>1. DOMAIN Walk(h, link) = 0 .. Size /\ 0 \in 0 .. Size
  BY WalkSteps, SizeType
<1>2. Met(h, link) = {Walk(h, link)[n] : n \in 0 .. Size} \ {NoTask}
  BY <1>1 DEF Met
<1>3. \A n \in 0 .. Size : Walk(h, link)[n] \in Pointer
  BY WalkSteps
<1>4. h # NoTask => h \in Met(h, link)
  BY <1>1, <1>2, WalkSteps
<1> QED BY <1>2, <1>3, <1>4 DEF Pointer

(* Whatever contains the head and is closed under the links contains all. *)
LEMMA MetLeast ==
    ASSUME NEW link \in Links, NEW h \in Pointer, NEW S \in SUBSET Task,
           h \in S \cup {NoTask}, \A s \in S : link[s] \in S \cup {NoTask}
    PROVE  Met(h, link) \subseteq S
<1> DEFINE at == Walk(h, link)
           T == {n \in Nat : n <= Size => at[n] \in S \cup {NoTask}}
<1>1. 0 \in T
  BY WalkSteps
<1>2. ASSUME NEW n \in T, n < Size PROVE n + 1 \in T
  <2>1. n + 1 \in 1 .. Size /\ (n + 1) - 1 = n
    BY <1>2, SizeType
  <2>2. at[n + 1] = Step(at[n], link)
    BY <2>1, WalkSteps
  <2>3. at[n] \in S \cup {NoTask}
    BY <1>2, SizeType
  <2> QED BY <2>1, <2>2, <2>3 DEF Step
<1>3. 0 .. Size \subseteq T
  <2> HIDE DEF T
  <2> QED BY <1>1, <1>2, SizeType, UpTo
<1> QED BY <1>3, MetType

LEMMA MetNull ==
    ASSUME NEW link \in Links
    PROVE  Met(NoTask, link) = {}
<1> DEFINE S == {}
<1>1. S \in SUBSET Task /\ NoTask \in S \cup {NoTask} /\ NoTask \in Pointer
      /\ \A s \in S : link[s] \in S \cup {NoTask}
  BY DEF Pointer
<1> HIDE DEF S
<1>2. Met(NoTask, link) \subseteq S
  BY <1>1, MetLeast
<1> QED BY <1>2 DEF S

(* A walk that has ended stays so. *)
LEMMA Ended ==
    ASSUME NEW link \in Links, NEW h \in Pointer, NEW i \in 0 .. Size,
           Walk(h, link)[i] = NoTask, NEW j \in 0 .. Size, i <= j
    PROVE  Walk(h, link)[j] = NoTask
<1> DEFINE at == Walk(h, link)
           T == {n \in Nat : i <= n /\ n <= Size => at[n] = NoTask}
<1>1. 0 \in T
  OBVIOUS
<1>2. ASSUME NEW n \in T, n < Size PROVE n + 1 \in T
  <2>1. CASE i <= n
    <3>1. n + 1 \in 1 .. Size /\ (n + 1) - 1 = n
      BY <1>2, SizeType
    <3>2. at[n + 1] = Step(at[n], link)
      BY <3>1, WalkSteps
    <3>3. at[n] = NoTask
      BY <1>2, <2>1, SizeType
    <3> QED BY <3>1, <3>2, <3>3 DEF Step
  <2>2. CASE i = n + 1
    BY <1>2, <2>2
  <2>3. CASE i > n + 1
    BY <1>2, <2>3
  <2> QED BY <1>2, <2>1, <2>2, <2>3
<1>3. 0 .. Size \subseteq T
  <2> HIDE DEF T
  <2> QED BY <1>1, <1>2, SizeType, UpTo
<1> QED BY <1>3

(* Without cycles a walk over as many links as there are tasks ends: two   *)
(* places of it with the same task would bound a cycle.                    *)
LEMMA WalkEnds ==
    ASSUME NEW link \in Links, NoCycle(link), NEW h \in Pointer
    PROVE  Walk(h, link)[Size] = NoTask
<1> DEFINE at == Walk(h, link)
<1> SUFFICES ASSUME at[Size] # NoTask PROVE FALSE
  OBVIOUS
<1>1. \A k \in 0 .. Size : at[k] \in Task
  <2>1. \A k \in 0 .. Size : at[k] \in Pointer /\ at[k] # NoTask
    BY SizeType, WalkSteps, Ended
  <2> QED BY <2>1 DEF Pointer
<1>2. PICK i \in 0 .. Size, j \in 0 .. Size : i # j /\ at[i] = at[j]
  <2>1. at \in [0 .. Size -> Task]
    <3>1. at = [n \in 0 .. Size |-> at[n]]
      BY WalkSteps
    <3> HIDE DEF at
    <3> QED BY <1>1, <3>1
  <2>2. IsFiniteSet(0 .. Size) /\ Cardinality(0 .. Size) = Size + 1
    BY SizeType, FS_Interval
  <2>3. Cardinality(0 .. Size) > Cardinality(Task)
    BY <2>2, SizeType DEF Size
  <2> HIDE DEF at
  <2> QED BY <2>1, <2>2, <2>3, TaskAssumption, FS_PigeonHole
<1>3. PICK low \in 0 .. Size, high \in 0 .. Size : low < high /\ at[low] = at[high]
  BY <1>2
<1> DEFINE C == {at[k] : k \in low .. high - 1}
<1>4. C \in SUBSET Task /\ at[low] \in C
  <2>1. \A k \in low .. high - 1 : k \in 0 .. Size
    BY <1>3, SizeType
  <2>2. low \in low .. high - 1
    BY <1>3
  <2> HIDE DEF at
  <2> QED BY <1>1, <2>1, <2>2
<1>5. ASSUME NEW s \in C PROVE link[s] \in C
  <2>1. PICK k \in low .. high - 1 : s = at[k]
    OBVIOUS
  <2>2. k + 1 \in 1 .. Size /\ (k + 1) - 1 = k /\ k \in 0 .. Size
    BY <1>3, <2>1, SizeType
  <2>3. at[k + 1] = link[s]
    <3>1. at[k + 1] = Step(at[k], link)
      BY <2>2, WalkSteps
    <3>2. at[k] \in Task
      BY <1>1, <2>2
    <3> QED BY <2>1, <3>1, <3>2, TaskAssumption DEF Step
  <2>4. CASE k + 1 = high
    BY <1>3, <1>4, <2>3, <2>4
  <2>5. CASE k + 1 < high
    BY <2>1, <2>2, <2>3, <2>5
  <2> QED BY <2>1, <2>4, <2>5
<1> QED BY <1>4, <1>5 DEF NoCycle

LEMMA MetClosed ==
    ASSUME NEW link \in Links, NoCycle(link), NEW h \in Pointer
    PROVE  \A s \in Met(h, link) : link[s] \in Met(h, link) \cup {NoTask}
<1> DEFINE at == Walk(h, link)
<1> TAKE s \in Met(h, link)
<1>1. PICK k \in 0 .. Size : s = at[k] /\ at[k] # NoTask
  BY MetType
<1>2. k # Size
  BY <1>1, WalkEnds
<1>3. k + 1 \in 0 .. Size /\ k + 1 \in 1 .. Size /\ (k + 1) - 1 = k
  BY <1>1, <1>2, SizeType
<1>4. at[k + 1] = link[s]
  BY <1>1, <1>3, WalkSteps DEF Step
<1> QED BY <1>3, <1>4, MetType

(* Nobody in a list points to its head. *)
LEMMA HeadFirst ==
    ASSUME NEW link \in Links, NoCycle(link), NEW h \in Task, NEW s \in Met(h, link)
    PROVE  link[s] # h
<1> DEFINE at == Walk(h, link)
<1> SUFFICES ASSUME link[s] = h PROVE FALSE
  OBVIOUS
<1>1. h \in Pointer
  BY DEF Pointer
<1>2. PICK n \in 0 .. Size : s = at[n] /\ at[n] # NoTask
  BY <1>1, MetType
<1> DEFINE C == {at[k] : k \in 0 .. n}
<1>3. \A k \in 0 .. n : at[k] \in Task
  <2> TAKE k \in 0 .. n
  <2>1. k \in 0 .. Size /\ k <= n
    BY <1>2, SizeType
  <2>2. at[k] \in Pointer
    BY <1>1, <2>1, WalkSteps
  <2>3. at[k] # NoTask
    BY <1>1, <1>2, <2>1, Ended
  <2> QED BY <2>2, <2>3 DEF Pointer
<1>4. at[0] = h
  BY <1>1, WalkSteps
<1>5. C \in SUBSET Task /\ h \in C
  BY <1>2, <1>3, <1>4
<1>6. ASSUME NEW x \in C PROVE link[x] \in C
  <2>1. PICK k \in 0 .. n : x = at[k]
    OBVIOUS
  <2>2. CASE k = n
    BY <1>2, <1>5, <2>1, <2>2
  <2>3. CASE k < n
    <3>1. k + 1 \in 1 .. Size /\ (k + 1) - 1 = k /\ k + 1 \in 0 .. n
      BY <1>2, <2>1, <2>3, SizeType
    <3>2. at[k + 1] = link[x]
      BY <1>1, <1>3, <2>1, <3>1, WalkSteps, TaskAssumption DEF Step
    <3> QED BY <3>1, <3>2
  <2> QED BY <2>1, <2>2, <2>3
<1> QED BY <1>5, <1>6 DEF NoCycle

(* A list that is not empty has a last task. *)
LEMMA LastMet ==
    ASSUME next \in Links, NoCycle(next), NEW h \in Task
    PROVE  Last(h) \in Met(h, next) /\ next[Last(h)] = NoTask
<1>1. h \in Pointer
  BY DEF Pointer
<1>2. Met(h, next) \in SUBSET Task /\ h \in Met(h, next)
  BY <1>1, MetType, TaskAssumption
<1>3. PICK t \in Met(h, next) : next[t] \notin Met(h, next)
  BY <1>2 DEF NoCycle
<1>4. next[t] = NoTask
  BY <1>1, <1>3, MetClosed
<1>5. \E x \in Met(h, next) : next[x] = NoTask
  BY <1>4
<1> QED BY <1>5 DEF Last

(* The task chosen is one of the candidates, and none is more urgent. *)
LEMMA EarliestOf ==
    ASSUME NEW link \in Links, NEW h \in Pointer, NEW S \in SUBSET Met(h, link), S # {},
           NEW dl \in [Task -> Time]
    PROVE  /\ FirstEarliest(Walk(h, link), S, dl) \in S
           /\ \A s \in S : dl[FirstEarliest(Walk(h, link), S, dl)] <= dl[s]
<1> DEFINE at == Walk(h, link)
           here == {n \in DOMAIN at : at[n] \in S}
           Best(i) == \A j \in here : \/ dl[at[i]] < dl[at[j]]
                                      \/ dl[at[i]] = dl[at[j]] /\ i <= j
           D == {dl[at[n]] : n \in here}
<1>1. here = {n \in 0 .. Size : at[n] \in S} /\ here \subseteq Nat
  <2>1. DOMAIN at = 0 .. Size
    BY WalkSteps, SizeType
  <2>2. here = {n \in 0 .. Size : at[n] \in S}
    BY <2>1
  <2> QED BY <2>2, SizeType
<1>2. (\A s \in S : \E n \in here : at[n] = s) /\ \A n \in here : at[n] \in Task
  <2>1. S \subseteq Met(h, link) /\ Met(h, link) \subseteq Task
        /\ Met(h, link) = {at[n] : n \in 0 .. Size} \ {NoTask}
    BY MetType
  <2> HIDE DEF at, here
  <2> QED BY <1>1, <2>1
<1>3. D \subseteq Nat /\ D # {}
  BY <1>2, ModulusAssumption DEF Time
<1>4. PICK d \in D : \A x \in D : d <= x
  BY <1>3, LeastNumber
<1> DEFINE I == {n \in here : dl[at[n]] = d}
<1>5. I \subseteq Nat /\ I # {}
  BY <1>1, <1>4
<1>6. PICK i \in I : \A j \in I : i <= j
  BY <1>5, LeastNumber
<1>7. i \in here /\ Best(i)
  <2> SUFFICES ASSUME NEW j \in here
               PROVE  \/ dl[at[i]] < dl[at[j]]
                      \/ dl[at[i]] = dl[at[j]] /\ i <= j
    BY <1>6
  <2>1. dl[at[i]] = d /\ dl[at[j]] \in Nat /\ d \in Nat /\ d <= dl[at[j]]
    BY <1>3, <1>4, <1>6
  <2>2. dl[at[j]] = d => i <= j
    BY <1>6
  <2> QED BY <2>1, <2>2
<1> DEFINE c == CHOOSE k \in here : Best(k)
<1>8. c \in here /\ Best(c)
  <2> HIDE DEF here, Best
  <2> QED BY <1>7
<1>9. FirstEarliest(at, S, dl) = at[c]
  BY DEF FirstEarliest
<1>10. ASSUME NEW s \in S PROVE dl[at[c]] <= dl[s]
  <2>1. PICK n \in here : at[n] = s
    BY <1>2
  <2>2. dl[at[c]] \in Nat /\ dl[s] \in Nat
    BY <1>2, <1>8, <2>1, ModulusAssumption DEF Time
  <2>3. dl[at[c]] < dl[at[n]] \/ dl[at[c]] = dl[at[n]]
    BY <1>8
  <2> QED BY <2>1, <2>2, <2>3
<1> QED BY <1>8, <1>9, <1>10

-----------------------------------------------------------------------------
(* The links and the types.                                                *)

LEMMA TimeType ==
    /\ 0 \in Time /\ Inf \in Time
    /\ \A a, b \in Time : Plus(a, b) \in Time
BY ModulusAssumption DEF Time, Inf, Plus

LEMMA ScanType ==
    ASSUME NEW link \in Links, task_list \in Task, NEW st, NEW dl \in [Task -> Time]
    PROVE  Scan(link, st, dl) \in Task
<1> DEFINE ready == Eligible(Met(task_list, link), st, dl)
<1>1. task_list \in Pointer
  BY DEF Pointer
<1>2. ready \in SUBSET Met(task_list, link) /\ Met(task_list, link) \in SUBSET Task
  BY <1>1, MetType DEF Eligible
<1>3. CASE ready = {}
  BY <1>3, TaskAssumption DEF Scan
<1>4. CASE ready # {}
  <2> HIDE DEF ready
  <2>1. FirstEarliest(Walk(task_list, link), ready, dl) \in ready
    BY <1>1, <1>2, <1>4, EarliestOf
  <2> QED BY <1>2, <1>4, <2>1 DEF Scan, ready
<1> QED BY <1>3, <1>4

(* Appending closes no cycle, whatever the last task of the list is. *)
LEMMA AppendLinks ==
    ASSUME next \in Links, NoCycle(next), NEW t \in Task, NEW head, LinkLast(t, head)
    PROVE  next' \in Links /\ NoCycle(next')
<1>1. \A s \in Task : \/ s = t /\ next'[s] = NoTask
                      \/ s # t /\ next'[s] = t
                      \/ s # t /\ next'[s] = next[s]
  BY DEF LinkLast
<1>2. next' \in Links
  BY DEF LinkLast, Links, Pointer
<1>3. NoCycle(next')
  <2> SUFFICES ASSUME NEW S \in (SUBSET Task) \ {{}}, \A s \in S : next'[s] \in S
               PROVE  FALSE
    BY DEF NoCycle
  <2>1. t \notin S
    BY <1>1, TaskAssumption
  <2>2. \A s \in S : next[s] \in S
    BY <1>1, <2>1
  <2> QED BY <2>2 DEF NoCycle
<1> QED BY <1>2, <1>3

(* Nor does clearing a link, or skipping the task whose link is cleared. *)
LEMMA SkipLinks ==
    ASSUME NEW link \in Links, NoCycle(link), NEW t \in Task, NEW other \in Links,
           other[t] = NoTask,
           \A s \in Task \ {t} : \/ other[s] = link[s]
                                 \/ link[s] = t /\ other[s] = link[t]
    PROVE  NoCycle(other)
<1> SUFFICES ASSUME NEW S \in (SUBSET Task) \ {{}}, \A s \in S : other[s] \in S
             PROVE  FALSE
  BY DEF NoCycle
<1>1. t \notin S
  BY TaskAssumption
<1>2. CASE \E s \in S : link[s] = t
  <2>1. CASE link[t] \in S
    <3>1. \A s \in S \cup {t} : link[s] \in S \cup {t}
      BY <1>1, <2>1
    <3>2. S \cup {t} \in (SUBSET Task) \ {{}}
      OBVIOUS
    <3> QED BY <3>1, <3>2 DEF NoCycle
  <2>2. CASE link[t] \notin S
    <3>1. \A s \in S : link[s] = other[s]
      BY <1>1, <2>2
    <3> QED BY <3>1 DEF NoCycle
  <2> QED BY <2>1, <2>2
<1>3. CASE \A s \in S : link[s] # t
  BY <1>1, <1>3 DEF NoCycle
<1> QED BY <1>2, <1>3

LEMMA PopLinks ==
    ASSUME next \in Links, NoCycle(next), NEW t \in Task,
           next' = [next EXCEPT ![t] = NoTask]
    PROVE  next' \in Links /\ NoCycle(next')
<1>1. next' \in Links
  BY DEF Links, Pointer
<1>2. next'[t] = NoTask /\ \A s \in Task \ {t} : next'[s] = next[s]
  BY DEF Links, Pointer
<1>3. NoCycle(next')
  <2> SUFFICES ASSUME NEW S \in (SUBSET Task) \ {{}}, \A s \in S : next'[s] \in S
               PROVE  FALSE
    BY DEF NoCycle
  <2>1. t \notin S
    BY <1>2, TaskAssumption
  <2>2. \A s \in S : next[s] \in S
    BY <1>2, <2>1
  <2> QED BY <2>2 DEF NoCycle
<1> QED BY <1>1, <1>3

LEMMA UnlinkLinks ==
    ASSUME next \in Links, NoCycle(next), mutex_wait_list \in Pointer, NEW t \in Task,
           UnlinkWaiter(t)
    PROVE  next' \in Links /\ NoCycle(next') /\ mutex_wait_list' \in Pointer
<1>1. next' \in Links /\ mutex_wait_list' \in Pointer
  BY DEF UnlinkWaiter, Links, Pointer
<1>2. /\ next'[t] = NoTask
      /\ \A s \in Task \ {t} : \/ next'[s] = next[s]
                               \/ next[s] = t /\ next'[s] = next[t]
  BY DEF UnlinkWaiter
<1> QED BY <1>1, <1>2, SkipLinks

(* The heir of a mutex waits in its queue. *)
LEMMA HeirMet ==
    ASSUME next \in Links, mutex_wait_list \in Task, NEW dl \in [Task -> Time]
    PROVE  LET heir == FirstEarliest(Walk(mutex_wait_list, next),
                                     Met(mutex_wait_list, next), dl)
           IN  /\ heir \in Met(mutex_wait_list, next) /\ heir \in Task
               /\ \A s \in Met(mutex_wait_list, next) : dl[heir] <= dl[s]
<1>1. mutex_wait_list \in Pointer /\ mutex_wait_list # NoTask
  BY TaskAssumption DEF Pointer
<1>2. Met(mutex_wait_list, next) \in SUBSET Task /\ Met(mutex_wait_list, next) # {}
  BY <1>1, MetType
<1> QED BY <1>1, <1>2, EarliestOf

(* The choice a task has stored is a task. *)
Chosen == \A t \in Task : pc[t] = "store" => best[t] \in Task

Shape == TypeOK /\ LinksEnd /\ NoIdleResource /\ Chosen

LEMMA ShapeInit == Init => Shape
<1> SUFFICES ASSUME Init PROVE Shape
  OBVIOUS
<1>1. PICK p \in Program : /\ next = p.link
                           /\ task_list = p.head
                           /\ program = [tasks |-> Met(p.head, p.link),
                                          units |-> p.units, depth |-> p.depth]
  BY DEF Init
<1>2. /\ p.head \in Task /\ p.link \in Links /\ p.units \in Nat /\ p.depth \in Nat
      /\ NoCycle(p.link)
  BY ProgramAssumption DEF Links, NoCycle
<1>3. deadline \in [Task -> Time]
  BY TimeType, PeriodAssumption DEF Init
<1>4. current_task \in Task
  BY <1>1, <1>2, <1>3, ScanType DEF Init
<1>5. TypeOK
  <2>1. /\ state \in [Task -> {"READY", "WAITING"}] /\ arrival \in [Task -> Time]
        /\ pc \in [Task -> {"run", "queued", "blocked", "scan", "store"}]
        /\ waits_for \in [Task -> {"none", "sem", "mutex"}]
        /\ best \in [Task -> Pointer]
        /\ units \in [Task -> Nat] /\ locks \in [Task -> Nat]
    BY TimeType DEF Init, Pointer
  <2>2. /\ next \in [Task -> Pointer] /\ task_list \in Task
        /\ program \in [tasks : SUBSET Task, units : Nat, depth : Nat]
    <3>1. p.head \in Pointer /\ Met(p.head, p.link) \in SUBSET Task
      BY <1>2, MetType DEF Pointer
    <3> QED BY <1>1, <1>2, <3>1 DEF Links
  <2>3. /\ os_tick \in Time /\ next_task \in Task /\ pendsv \in BOOLEAN
        /\ sem_wait_list \in Pointer /\ owner \in Pointer /\ lock_count \in Nat
        /\ original_deadline \in Time /\ mutex_wait_list \in Pointer
        /\ woken \subseteq Task /\ spurious \in BOOLEAN
    BY <1>4, TimeType DEF Init, Pointer
  <2>4. count \in 0 .. MaxCount
    BY ProgramAssumption DEF Init
  <2> QED BY <1>3, <1>4, <2>1, <2>2, <2>3, <2>4 DEF TypeOK
<1>6. LinksEnd
  BY <1>1, <1>2 DEF LinksEnd, NoCycle
<1>7. NoIdleResource /\ Chosen
  BY DEF Init, NoIdleResource, Chosen
<1> QED BY <1>5, <1>6, <1>7 DEF Shape

(* The parts of Shape, in the form the lemmas above take them. *)
LEMMA ShapeFacts ==
    ASSUME Shape
    PROVE  /\ next \in Links /\ NoCycle(next)
           /\ task_list \in Task /\ current_task \in Task /\ deadline \in [Task -> Time]
           /\ mutex_wait_list \in Pointer /\ sem_wait_list \in Pointer
           /\ \A t \in Task : t # NoTask /\ t \in Pointer
BY TaskAssumption DEF Shape, TypeOK, LinksEnd, NoCycle, Links, Pointer

LEMMA ShapeSysTick == ASSUME Shape, SysTick PROVE Shape'
<1>1. os_tick' \in Time
  BY TimeType, ModulusAssumption DEF SysTick, Shape, TypeOK, Time, Plus
<1>2. state' \in [Task -> {"READY", "WAITING"}]
  BY DEF SysTick, Shape, TypeOK
<1>3. next_task' \in Task /\ pendsv' \in BOOLEAN
  BY ScanType, ShapeFacts DEF SysTick, Choose, Shape, TypeOK
<1>4. TypeOK'
  BY <1>1, <1>2, <1>3 DEF SysTick, Shape, TypeOK, sem, mutex, granted
<1> QED BY <1>4 DEF SysTick, Shape, LinksEnd, NoIdleResource, Chosen, sem, mutex

LEMMA ShapePendSV == ASSUME Shape, PendSV PROVE Shape'
<1>1. TypeOK'
  BY DEF PendSV, Shape, TypeOK, sem, mutex, granted
<1> QED BY <1>1 DEF PendSV, Shape, LinksEnd, NoIdleResource, Chosen, sem, mutex

LEMMA ShapeYield ==
    ASSUME Shape, NEW t \in Worker, Yield(t) \/ YieldQueued(t)
    PROVE  Shape'
<1>1. /\ t \in Task /\ YieldBody(t) /\ waits_for' = waits_for
      /\ pc' = pc \/ pc' = [pc EXCEPT ![t] = "blocked"]
  BY DEF Worker, Yield, YieldQueued, Goto
<1>2. arrival' \in [Task -> Time] /\ deadline' \in [Task -> Time]
  BY <1>1, TimeType, PeriodAssumption DEF YieldBody, Shape, TypeOK
<1>3. next_task' \in Task /\ pendsv' \in BOOLEAN
  BY <1>1, <1>2, ScanType, ShapeFacts DEF YieldBody, Choose, Shape, TypeOK
<1>4. /\ state' \in [Task -> {"READY", "WAITING"}]
      /\ pc' \in [Task -> {"run", "queued", "blocked", "scan", "store"}]
  BY <1>1 DEF YieldBody, Shape, TypeOK
<1>5. TypeOK'
  BY <1>1, <1>2, <1>3, <1>4 DEF YieldBody, Shape, TypeOK, sem, mutex, granted
<1>6. Chosen'
  BY <1>1 DEF YieldBody, Shape, TypeOK, Chosen
<1> QED BY <1>1, <1>5, <1>6 DEF YieldBody, Shape, LinksEnd, NoIdleResource, sem, mutex

LEMMA ShapeReturn == ASSUME Shape, NEW t \in Worker, Return(t) PROVE Shape'
<1>1. /\ pc' \in [Task -> {"run", "queued", "blocked", "scan", "store"}]
      /\ waits_for' \in [Task -> {"none", "sem", "mutex"}]
  BY DEF Return, Goto, Shape, TypeOK
<1>2. units' \in [Task -> Nat] /\ locks' \in [Task -> Nat]
  <2>1. /\ (IF waits_for[t] = "sem" THEN units[t] + 1 ELSE units[t]) \in Nat
        /\ (IF waits_for[t] = "mutex" THEN locks[t] + 1 ELSE locks[t]) \in Nat
    BY DEF Worker, Shape, TypeOK
  <2> QED BY <2>1 DEF Return, Shape, TypeOK
<1>3. woken' \subseteq Task /\ spurious' \in BOOLEAN
  BY DEF Return, Shape, TypeOK
<1>4. TypeOK'
  BY <1>1, <1>2, <1>3 DEF Return, Shape, TypeOK, sched, sem, mutex
<1>5. Chosen'
  BY DEF Return, Goto, Shape, TypeOK, Chosen
<1> QED BY <1>4, <1>5 DEF Return, Shape, LinksEnd, NoIdleResource, sem, mutex

LEMMA ShapeScan ==
    ASSUME Shape, NEW t \in Worker, ScanOutside(t) \/ StoreOutside(t)
    PROVE  Shape'
<1>1. t \in Task
  BY DEF Worker
<1>2. CASE ScanOutside(t)
  <2>1. Scan(next, state, deadline) \in Task
    BY ScanType, ShapeFacts
  <2>2. best' \in [Task -> Pointer] /\ Chosen'
    BY <1>1, <1>2, <2>1 DEF ScanOutside, Goto, Shape, TypeOK, Chosen, Pointer
  <2>3. pc' \in [Task -> {"run", "queued", "blocked", "scan", "store"}]
    BY <1>2 DEF ScanOutside, Goto, Shape, TypeOK
  <2>4. TypeOK'
    BY <1>2, <2>2, <2>3 DEF ScanOutside, Shape, TypeOK, sched, sem, mutex, granted
  <2> QED BY <1>2, <2>2, <2>4
            DEF ScanOutside, Shape, LinksEnd, NoIdleResource, sem, mutex
<1>3. CASE StoreOutside(t)
  <2>1. next_task' \in Task /\ pendsv' \in BOOLEAN
    BY <1>1, <1>3 DEF StoreOutside, At, Choose, Shape, TypeOK, Chosen
  <2>2. best' \in [Task -> Pointer] /\ Chosen'
    BY <1>1, <1>3 DEF StoreOutside, Goto, Shape, TypeOK, Chosen, Pointer
  <2>3. pc' \in [Task -> {"run", "queued", "blocked", "scan", "store"}]
    BY <1>3 DEF StoreOutside, Goto, Shape, TypeOK
  <2>4. TypeOK'
    BY <1>3, <2>1, <2>2, <2>3 DEF StoreOutside, Shape, TypeOK, sem, mutex, granted
  <2> QED BY <1>3, <2>2, <2>4
            DEF StoreOutside, Shape, LinksEnd, NoIdleResource, sem, mutex
<1> QED BY <1>2, <1>3

(* smart_sem_try_wait, and smart_sem_post without a queue. *)
LEMMA ShapeUnit ==
    ASSUME Shape, NEW t \in Worker, TakeUnit(t) \/ PostUnit(t)
    PROVE  Shape'
<1>1. t \in Task /\ units[t] \in Nat /\ count \in 0 .. MaxCount /\ MaxCount \in Nat
  BY ProgramAssumption DEF Worker, Shape, TypeOK
<1>2. units' \in [Task -> Nat] /\ count' \in 0 .. MaxCount
      /\ (count' > 0 => sem_wait_list = NoTask)
  <2>1. CASE TakeUnit(t)
    BY <1>1, <2>1 DEF TakeUnit, Shape, TypeOK, NoIdleResource
  <2>2. CASE PostUnit(t)
    BY <1>1, <2>2 DEF PostUnit, Shape, TypeOK
  <2> QED BY <2>1, <2>2
<1>3. UNCHANGED <<sched, state, deadline, next, sem_wait_list, mutex, pc, waits_for,
                  best, locks, woken, spurious>>
  BY DEF TakeUnit, PostUnit
<1>4. TypeOK'
  BY <1>2, <1>3 DEF Shape, TypeOK, sched, mutex
<1> QED BY <1>2, <1>3, <1>4 DEF Shape, LinksEnd, NoIdleResource, Chosen, mutex

LEMMA ShapeWait ==
    ASSUME Shape, NEW t \in Worker, SemWait(t) \/ LockWait(t)
    PROVE  Shape'
<1>1. t \in Task /\ t \in Pointer
  BY DEF Worker, Pointer
<1>2. /\ \E head : LinkLast(t, head)
      /\ \E what \in {"sem", "mutex"} : Block(t, what)
      /\ UNCHANGED <<count, owner, lock_count, original_deadline>>
  BY DEF SemWait, LockWait, sem, mutex
<1>3. next' \in Links /\ NoCycle(next')
  BY <1>1, <1>2, AppendLinks, ShapeFacts
<1>4. /\ state' \in [Task -> {"READY", "WAITING"}]
      /\ pc' \in [Task -> {"run", "queued", "blocked", "scan", "store"}]
      /\ waits_for' \in [Task -> {"none", "sem", "mutex"}]
      /\ Chosen'
  BY <1>1, <1>2 DEF Block, Goto, Shape, TypeOK, Chosen
<1>5. deadline' \in [Task -> Time]
  BY <1>1 DEF SemWait, LockWait, Shape, TypeOK
<1>6. sem_wait_list' \in Pointer /\ mutex_wait_list' \in Pointer
  BY <1>1 DEF SemWait, LockWait, Shape, TypeOK, sem, mutex
<1>7. TypeOK'
  BY <1>2, <1>3, <1>4, <1>5, <1>6 DEF Block, Shape, TypeOK, Links, sched, granted
<1>8. NoIdleResource'
  BY <1>2 DEF SemWait, LockWait, Shape, TypeOK, NoIdleResource, sem, mutex
<1> QED BY <1>3, <1>4, <1>7, <1>8 DEF Shape, LinksEnd, NoCycle

LEMMA ShapePost == ASSUME Shape, NEW t \in Worker, PostToWaiter(t) PROVE Shape'
<1>1. /\ t \in Task /\ units[t] \in Nat /\ units[t] > 0
      /\ sem_wait_list \in Task /\ count \in 0 .. MaxCount
      /\ next[sem_wait_list] \in Pointer
  BY DEF PostToWaiter, Worker, Shape, TypeOK, Pointer
<1>2. next' \in Links /\ NoCycle(next')
  BY <1>1, PopLinks, ShapeFacts DEF PostToWaiter
<1>3. /\ state' \in [Task -> {"READY", "WAITING"}]
      /\ pc' \in [Task -> {"run", "queued", "blocked", "scan", "store"}]
      /\ units' \in [Task -> Nat] /\ woken' \subseteq Task
      /\ Chosen'
  BY <1>1 DEF PostToWaiter, Goto, Shape, TypeOK, Chosen
<1>4. TypeOK'
  BY <1>1, <1>2, <1>3 DEF PostToWaiter, Shape, TypeOK, Links, sched, mutex
<1>5. NoIdleResource'
  BY <1>1 DEF PostToWaiter, Shape, NoIdleResource, mutex
<1> QED BY <1>2, <1>3, <1>4, <1>5 DEF Shape, LinksEnd, NoCycle

LEMMA ShapeLock ==
    ASSUME Shape, NEW t \in Worker, TakeLock(t) \/ Unlock(t)
    PROVE  Shape'
<1>1. t \in Task /\ t # NoTask /\ locks[t] \in Nat /\ lock_count \in Nat
  BY TaskAssumption DEF Worker, Shape, TypeOK
<1>2. locks' \in [Task -> Nat] /\ owner' \in Pointer /\ lock_count' \in Nat
  BY <1>1 DEF TakeLock, Unlock, Shape, TypeOK, Pointer
<1>3. original_deadline' \in Time /\ deadline' \in [Task -> Time]
  BY <1>1 DEF TakeLock, Unlock, Shape, TypeOK
<1>4. UNCHANGED <<sched, state, next, sem, mutex_wait_list, pc, waits_for,
                  best, units, woken, spurious>>
  BY DEF TakeLock, Unlock
<1>5. TypeOK'
  BY <1>2, <1>3, <1>4 DEF Shape, TypeOK, sched, sem
<1>6. NoIdleResource'
  BY <1>1, <1>4 DEF TakeLock, Unlock, Shape, NoIdleResource, sem
<1> QED BY <1>4, <1>5, <1>6 DEF Shape, LinksEnd, Chosen

LEMMA ShapeHandOver == ASSUME Shape, NEW t \in Worker, HandOver(t) PROVE Shape'
<1> DEFINE restored == [deadline EXCEPT ![t] = original_deadline]
           heir == FirstEarliest(Walk(mutex_wait_list, next),
                                 Met(mutex_wait_list, next), restored)
<1>1. t \in Task /\ locks[t] \in Nat /\ restored \in [Task -> Time] /\ locks[t] > 0
  BY DEF Worker, Shape, TypeOK, HandOver
<1>2. mutex_wait_list \in Task
  BY DEF HandOver, Shape, TypeOK, Pointer
<1>3. heir \in Task
  BY <1>1, <1>2, HeirMet, ShapeFacts
<1>4. /\ deadline' = restored /\ UnlinkWaiter(heir)
      /\ state' = [state EXCEPT ![heir] = "READY"]
      /\ owner' = heir /\ original_deadline' = restored[heir]
      /\ Goto(t, "scan")
      /\ locks' = [locks EXCEPT ![t] = @ - 1]
      /\ woken' = woken \cup {heir}
      /\ UNCHANGED <<sched, sem, lock_count, waits_for, best, units, spurious>>
  BY DEF HandOver
<1> HIDE DEF heir, restored
<1>5. next' \in Links /\ NoCycle(next') /\ mutex_wait_list' \in Pointer
  BY <1>3, <1>4, UnlinkLinks, ShapeFacts
<1>6. /\ state' \in [Task -> {"READY", "WAITING"}]
      /\ pc' \in [Task -> {"run", "queued", "blocked", "scan", "store"}]
      /\ locks' \in [Task -> Nat] /\ woken' \subseteq Task
      /\ Chosen'
  BY <1>1, <1>3, <1>4 DEF Goto, Shape, TypeOK, Chosen
<1>7. owner' \in Pointer /\ original_deadline' \in Time /\ owner' # NoTask
  BY <1>1, <1>3, <1>4, TaskAssumption DEF Pointer
<1>8. TypeOK'
  BY <1>1, <1>4, <1>5, <1>6, <1>7 DEF Shape, TypeOK, Links, sched, sem
<1>9. NoIdleResource'
  BY <1>4, <1>7 DEF Shape, NoIdleResource, sem
<1> QED BY <1>5, <1>6, <1>8, <1>9 DEF Shape, LinksEnd, NoCycle

LEMMA ShapeStep == Shape /\ [Next]_vars => Shape'
<1> SUFFICES ASSUME Shape, [Next]_vars PROVE Shape'
  OBVIOUS
<1>1. CASE UNCHANGED vars
  <2>1. TypeOK'
    BY <1>1 DEF Shape, TypeOK, vars, sched, sem, mutex, granted
  <2> QED BY <1>1, <2>1 DEF Shape, LinksEnd, NoIdleResource, Chosen, vars, sem, mutex
<1>2. ASSUME NEW t \in Worker, TaskStep(t) PROVE Shape'
  BY <1>2, ShapeYield, ShapeReturn, ShapeScan, ShapeUnit, ShapeWait, ShapePost, ShapeLock,
     ShapeHandOver DEF TaskStep
<1> QED BY <1>1, <1>2, ShapeSysTick, ShapePendSV DEF Next

-----------------------------------------------------------------------------
(* The queues.                                                             *)

(* Appending to a queue adds t to it and to no list apart from it. *)
LEMMA AppendQueue ==
    ASSUME Shape, NEW t \in Task, NEW head \in Pointer, LinkLast(t, head)
    PROVE  /\ Met(IF head = NoTask THEN t ELSE head, next') \subseteq Met(head, next) \cup {t}
           /\ \A other \in Pointer :
                  Met(other, next) \cap Met(head, next) = {}
                      => Met(other, next') \subseteq Met(other, next)
<1>1. next \in Links /\ NoCycle(next) /\ next' \in Links
  BY ShapeFacts, AppendLinks
<1>2. \A s \in Task : next'[s] = IF s = t THEN NoTask
                                 ELSE IF head # NoTask /\ s = Last(head) THEN t
                                 ELSE next[s]
  BY DEF LinkLast
<1> DEFINE Q == Met(head, next)
           S == Q \cup {t}
           first == IF head = NoTask THEN t ELSE head
<1>3. Q \in SUBSET Task /\ (head # NoTask => head \in Q)
      /\ \A s \in Q : next[s] \in Q \cup {NoTask}
  BY <1>1, MetType, MetClosed
<1>4. Met(first, next') \subseteq S
  <2>1. S \in SUBSET Task /\ first \in S \cup {NoTask} /\ first \in Pointer
    BY <1>3 DEF Pointer
  <2>2. \A s \in S : next'[s] \in S \cup {NoTask}
    BY <1>2, <1>3
  <2> HIDE DEF S, first
  <2> QED BY <1>1, <2>1, <2>2, MetLeast
<1>5. ASSUME NEW other \in Pointer, Met(other, next) \cap Q = {}
      PROVE  Met(other, next') \subseteq Met(other, next)
  <2> DEFINE R == Met(other, next)
  <2>1. R \in SUBSET Task /\ other \in R \cup {NoTask}
        /\ \A s \in R : next[s] \in R \cup {NoTask}
    BY <1>1, MetType, MetClosed
  <2>2. head # NoTask => Last(head) \in Q
    BY <1>1, LastMet DEF Pointer
  <2>3. \A s \in R : next'[s] \in R \cup {NoTask}
    BY <1>2, <1>5, <2>1, <2>2
  <2> HIDE DEF R
  <2>4. Met(other, next') \subseteq R
    BY <1>1, <2>1, <2>3, MetLeast
  <2> QED BY <2>4 DEF R
<1> QED BY <1>4, <1>5

(* Taking the head takes it off its queue, and adds nothing to any list. *)
LEMMA PopQueue ==
    ASSUME Shape, NEW head \in Task, next' = [next EXCEPT ![head] = NoTask]
    PROVE  /\ Met(next[head], next') \subseteq Met(head, next) \ {head}
           /\ \A other \in Pointer : Met(other, next') \subseteq Met(other, next)
<1>1. next \in Links /\ NoCycle(next) /\ next' \in Links /\ head \in Pointer
      /\ next[head] \in Pointer
  BY ShapeFacts, PopLinks DEF Links, Pointer
<1>2. \A s \in Task : next'[s] = IF s = head THEN NoTask ELSE next[s]
  BY <1>1 DEF Links
<1>3. ASSUME NEW other \in Pointer
      PROVE  Met(other, next') \subseteq Met(other, next)
  <2> DEFINE R == Met(other, next)
  <2>1. R \in SUBSET Task /\ other \in R \cup {NoTask}
        /\ \A s \in R : next[s] \in R \cup {NoTask}
    BY <1>1, MetType, MetClosed
  <2>2. \A s \in R : next'[s] \in R \cup {NoTask}
    BY <1>2, <2>1
  <2> HIDE DEF R
  <2>3. Met(other, next') \subseteq R
    BY <1>1, <2>1, <2>2, MetLeast
  <2> QED BY <2>3 DEF R
<1>4. Met(next[head], next') \subseteq Met(head, next) \ {head}
  <2> DEFINE S == Met(head, next) \ {head}
  <2>1. Met(head, next) \in SUBSET Task /\ head \in Met(head, next)
        /\ \A s \in Met(head, next) : /\ next[s] \in Met(head, next) \cup {NoTask}
                                      /\ next[s] # head
    BY <1>1, MetType, MetClosed, HeadFirst, TaskAssumption
  <2>2. S \in SUBSET Task /\ next[head] \in S \cup {NoTask}
        /\ \A s \in S : next'[s] \in S \cup {NoTask}
    BY <1>2, <2>1
  <2> HIDE DEF S
  <2>3. Met(next[head], next') \subseteq S
    BY <1>1, <2>2, MetLeast
  <2> QED BY <2>3 DEF S
<1> QED BY <1>3, <1>4

(* So does taking any task out of the queue of the mutex. *)
LEMMA UnlinkQueue ==
    ASSUME Shape, NEW t \in Met(mutex_wait_list, next), UnlinkWaiter(t)
    PROVE  /\ Met(mutex_wait_list', next') \subseteq Met(mutex_wait_list, next) \ {t}
           /\ \A other \in Pointer :
                  Met(other, next) \cap Met(mutex_wait_list, next) = {}
                      => Met(other, next') \subseteq Met(other, next)
<1> DEFINE Q == Met(mutex_wait_list, next)
           S == Q \ {t}
<1>1. next \in Links /\ NoCycle(next) /\ mutex_wait_list \in Pointer
  BY ShapeFacts
<1>2. Q \in SUBSET Task /\ mutex_wait_list \in Q \cup {NoTask}
      /\ \A s \in Q : next[s] \in Q \cup {NoTask}
  BY <1>1, MetType, MetClosed
<1>3. next' \in Links /\ mutex_wait_list' \in Pointer
  BY <1>1, <1>2, UnlinkLinks
<1>4. \A s \in Task : next'[s] = IF s = t THEN NoTask
                                 ELSE IF s \in Q /\ next[s] = t THEN next[t] ELSE next[s]
  BY DEF UnlinkWaiter
<1>5. next[t] # t
  <2>1. {t} \in (SUBSET Task) \ {{}}
    BY <1>2
  <2> QED BY <1>1, <2>1 DEF NoCycle
<1>6. Met(mutex_wait_list', next') \subseteq Q \ {t}
  <2>1. S \in SUBSET Task
    BY <1>2
  <2>2. mutex_wait_list' \in S \cup {NoTask}
    <3>1. mutex_wait_list' = IF mutex_wait_list = t THEN next[t] ELSE mutex_wait_list
      BY DEF UnlinkWaiter
    <3> QED BY <1>2, <1>5, <3>1
  <2>3. \A s \in S : next'[s] \in S \cup {NoTask}
    BY <1>2, <1>4, <1>5
  <2> HIDE DEF S
  <2>4. Met(mutex_wait_list', next') \subseteq S
    BY <1>3, <2>1, <2>2, <2>3, MetLeast
  <2> QED BY <2>4 DEF S
<1>7. ASSUME NEW other \in Pointer, Met(other, next) \cap Q = {}
      PROVE  Met(other, next') \subseteq Met(other, next)
  <2> DEFINE R == Met(other, next)
  <2>1. R \in SUBSET Task /\ other \in R \cup {NoTask}
        /\ \A s \in R : next[s] \in R \cup {NoTask}
    BY <1>1, MetType, MetClosed
  <2>2. \A s \in R : next'[s] \in R \cup {NoTask}
    BY <1>4, <1>7, <2>1
  <2> HIDE DEF R
  <2>3. Met(other, next') \subseteq R
    BY <1>3, <2>1, <2>2, MetLeast
  <2> QED BY <2>3 DEF R
<1> QED BY <1>6, <1>7

(* And nobody is lost from a list on the way.                               *)
LEMMA AppendKeeps ==
    ASSUME Shape, NEW t \in Task, NEW head \in Pointer, LinkLast(t, head),
           t \notin Met(head, next)
    PROVE  /\ Met(head, next) \cup {t} \subseteq Met(IF head = NoTask THEN t ELSE head, next')
           /\ \A other \in Pointer :
                  t \notin Met(other, next) /\ Met(other, next) \cap Met(head, next) = {}
                      => Met(other, next) \subseteq Met(other, next')
<1>1. next \in Links /\ NoCycle(next) /\ next' \in Links /\ NoCycle(next')
  BY ShapeFacts, AppendLinks
<1>2. \A s \in Task : next'[s] = IF s = t THEN NoTask
                                 ELSE IF head # NoTask /\ s = Last(head) THEN t
                                 ELSE next[s]
  BY DEF LinkLast
<1>3. head # NoTask => Last(head) \in Met(head, next) /\ next[Last(head)] = NoTask
  BY <1>1, LastMet DEF Pointer
<1>4. ASSUME NEW h \in Pointer, NEW g \in Pointer, t \notin Met(h, next),
             h = g \/ h = NoTask,
             \A s \in Met(h, next) : s = Last(head) /\ head # NoTask => next[s] = NoTask
      PROVE  Met(h, next) \subseteq Met(g, next')
  <2> DEFINE Q == Met(h, next)
             R == Met(g, next')
             S == Q \cap R
  <2>1. /\ Q \in SUBSET Task /\ R \in SUBSET Task
        /\ h \in Q \cup {NoTask} /\ g \in R \cup {NoTask}
        /\ \A s \in Q : next[s] \in Q \cup {NoTask}
        /\ \A s \in R : next'[s] \in R \cup {NoTask}
    BY <1>1, MetType, MetClosed
  <2>2. S \in SUBSET Task /\ h \in S \cup {NoTask}
    BY <1>4, <2>1
  <2>3. \A s \in S : next[s] \in S \cup {NoTask}
    BY <1>2, <1>4, <2>1
  <2> HIDE DEF S
  <2>4. Q \subseteq S
    BY <1>1, <2>2, <2>3, MetLeast
  <2> QED BY <2>4 DEF S
<1> DEFINE first == IF head = NoTask THEN t ELSE head
<1>5. first \in Pointer /\ t # NoTask /\ t \in Pointer
  BY TaskAssumption DEF Pointer
<1>6. Met(head, next) \subseteq Met(first, next')
  BY <1>3, <1>4, <1>5
<1>7. t \in Met(first, next')
  <2>1. CASE head = NoTask
    BY <1>1, <1>5, <2>1, MetType
  <2>2. CASE head # NoTask
    <3>1. Last(head) \in Met(first, next') /\ Last(head) \in Task /\ Last(head) # t
      BY <1>1, <1>3, <1>6, <2>2, MetType
    <3>2. next'[Last(head)] = t
      BY <1>2, <2>2, <3>1
    <3>3. next'[Last(head)] \in Met(first, next') \cup {NoTask}
      BY <1>1, <1>5, <3>1, MetClosed
    <3> QED BY <1>5, <3>2, <3>3
  <2> QED BY <2>1, <2>2
<1>8. ASSUME NEW other \in Pointer, t \notin Met(other, next),
             Met(other, next) \cap Met(head, next) = {}
      PROVE  Met(other, next) \subseteq Met(other, next')
  BY <1>3, <1>4, <1>8
<1> QED BY <1>6, <1>7, <1>8

LEMMA PopKeeps ==
    ASSUME Shape, NEW head \in Task, next' = [next EXCEPT ![head] = NoTask]
    PROVE  /\ Met(head, next) \ {head} \subseteq Met(next[head], next')
           /\ \A other \in Pointer : head \notin Met(other, next)
                  => Met(other, next) \subseteq Met(other, next')
<1>1. next \in Links /\ NoCycle(next) /\ next' \in Links /\ NoCycle(next')
      /\ head \in Pointer /\ next[head] \in Pointer
  BY ShapeFacts, PopLinks DEF Links, Pointer
<1>2. \A s \in Task : next'[s] = IF s = head THEN NoTask ELSE next[s]
  BY <1>1 DEF Links
<1>3. Met(head, next) \ {head} \subseteq Met(next[head], next')
  <2> DEFINE R == Met(next[head], next')
             S == R \cup {head}
  <2>1. R \in SUBSET Task /\ next[head] \in R \cup {NoTask}
        /\ \A s \in R : next'[s] \in R \cup {NoTask}
    BY <1>1, MetType, MetClosed
  <2>2. S \in SUBSET Task /\ head \in S \cup {NoTask}
        /\ \A s \in S : next[s] \in S \cup {NoTask}
    BY <1>2, <2>1
  <2> HIDE DEF S
  <2>3. Met(head, next) \subseteq S
    BY <1>1, <2>2, MetLeast
  <2> QED BY <2>3 DEF S
<1>4. ASSUME NEW other \in Pointer, head \notin Met(other, next)
      PROVE  Met(other, next) \subseteq Met(other, next')
  <2> DEFINE R == Met(other, next)
             S == R \cap Met(other, next')
  <2>1. /\ R \in SUBSET Task /\ other \in R \cup {NoTask} /\ S \in SUBSET Task
        /\ other \in Met(other, next') \cup {NoTask}
        /\ \A s \in R : next[s] \in R \cup {NoTask}
        /\ \A s \in Met(other, next') : next'[s] \in Met(other, next') \cup {NoTask}
    BY <1>1, MetType, MetClosed
  <2>2. \A s \in S : next[s] \in S \cup {NoTask}
    BY <1>2, <1>4, <2>1
  <2>3. other \in S \cup {NoTask}
    BY <2>1
  <2> HIDE DEF S
  <2>4. R \subseteq S
    BY <1>1, <2>1, <2>2, <2>3, MetLeast
  <2> QED BY <2>4 DEF S
<1> QED BY <1>3, <1>4

LEMMA UnlinkKeeps ==
    ASSUME Shape, NEW t \in Met(mutex_wait_list, next), UnlinkWaiter(t)
    PROVE  /\ Met(mutex_wait_list, next) \ {t} \subseteq Met(mutex_wait_list', next')
           /\ \A other \in Pointer :
                  Met(other, next) \cap Met(mutex_wait_list, next) = {}
                      => Met(other, next) \subseteq Met(other, next')
<1> DEFINE Q == Met(mutex_wait_list, next)
           R == Met(mutex_wait_list', next')
<1>1. next \in Links /\ NoCycle(next) /\ mutex_wait_list \in Pointer
  BY ShapeFacts
<1>2. Q \in SUBSET Task /\ mutex_wait_list \in Q \cup {NoTask}
      /\ \A s \in Q : next[s] \in Q \cup {NoTask}
  BY <1>1, MetType, MetClosed
<1>3. next' \in Links /\ NoCycle(next') /\ mutex_wait_list' \in Pointer
  BY <1>1, <1>2, UnlinkLinks
<1>4. \A s \in Task : next'[s] = IF s = t THEN NoTask
                                 ELSE IF s \in Q /\ next[s] = t THEN next[t] ELSE next[s]
  BY DEF UnlinkWaiter
<1>5. R \in SUBSET Task /\ mutex_wait_list' \in R \cup {NoTask} /\ R \subseteq Q \ {t}
      /\ \A s \in R : next'[s] \in R \cup {NoTask}
  BY <1>3, MetType, MetClosed, UnlinkQueue
<1>6. Q \ {t} \subseteq R
  <2> DEFINE S == R \cup (IF next[t] \in R \cup {NoTask} THEN {t} ELSE {})
  <2>1. S \in SUBSET Task
    BY <1>2, <1>5
  <2>2. mutex_wait_list \in S \cup {NoTask}
    <3>1. mutex_wait_list' = IF mutex_wait_list = t THEN next[t] ELSE mutex_wait_list
      BY DEF UnlinkWaiter
    <3> QED BY <1>5, <3>1
  <2>3. \A s \in S : next[s] \in S \cup {NoTask}
    BY <1>2, <1>4, <1>5
  <2> HIDE DEF S
  <2>4. Q \subseteq S
    BY <1>1, <2>1, <2>2, <2>3, MetLeast
  <2> QED BY <2>4 DEF S
<1>7. ASSUME NEW other \in Pointer, Met(other, next) \cap Q = {}
      PROVE  Met(other, next) \subseteq Met(other, next')
  <2> DEFINE O == Met(other, next)
             S == O \cap Met(other, next')
  <2>1. /\ O \in SUBSET Task /\ other \in O \cup {NoTask} /\ S \in SUBSET Task
        /\ other \in Met(other, next') \cup {NoTask}
        /\ \A s \in O : next[s] \in O \cup {NoTask}
        /\ \A s \in Met(other, next') : next'[s] \in Met(other, next') \cup {NoTask}
    BY <1>1, <1>3, MetType, MetClosed
  <2>2. \A s \in S : next[s] \in S \cup {NoTask}
    BY <1>4, <1>7, <2>1
  <2>3. other \in S \cup {NoTask}
    BY <2>1
  <2> HIDE DEF S
  <2>4. O \subseteq S
    BY <1>1, <2>1, <2>2, <2>3, MetLeast
  <2> QED BY <2>4 DEF S
<1> QED BY <1>6, <1>7

-----------------------------------------------------------------------------
(* The units of the semaphore, one token for each.                         *)

Tokens(f) == UNION {{t} \X (1 .. f[t]) : t \in Task}

LEMMA TokensFinite ==
    ASSUME NEW f \in [Task -> Nat]
    PROVE  IsFiniteSet(Tokens(f))
<1> DEFINE m == [t \in Task |-> {t} \X (1 .. f[t])]
           S == {{t} \X (1 .. f[t]) : t \in Task}
<1>1. IsFiniteSet(S)
  <2>1. m \in Surjection(Task, S)
    BY DEF Surjection
  <2> QED BY <2>1, TaskAssumption, FS_Surjection DEF ExistsSurjection
<1>2. ASSUME NEW T \in S PROVE IsFiniteSet(T)
  <2>1. PICK t \in Task : T = {t} \X (1 .. f[t])
    OBVIOUS
  <2>2. f[t] \in Int
    OBVIOUS
  <2>3. IsFiniteSet({t})
    BY FS_Singleton, Zenon
  <2>4. IsFiniteSet(1 .. f[t])
    BY <2>2, FS_Interval
  <2> QED BY <2>1, <2>3, <2>4, FS_Product
<1> HIDE DEF S
<1>3. IsFiniteSet(UNION S)
  BY <1>1, <1>2, FS_UNION
<1> QED BY <1>3 DEF Tokens, S

LEMMA TokensMore ==
    ASSUME NEW f \in [Task -> Nat], NEW t \in Task
    PROVE  Cardinality(Tokens([f EXCEPT ![t] = f[t] + 1])) = Cardinality(Tokens(f)) + 1
<1> DEFINE g == [f EXCEPT ![t] = f[t] + 1]
           x == <<t, f[t] + 1>>
<1>1. \A s, n : <<s, n>> \in Tokens(f) <=> s \in Task /\ n \in 1 .. f[s]
  BY DEF Tokens
<1>2. \A s, n : <<s, n>> \in Tokens(g) <=> s \in Task /\ n \in 1 .. g[s]
  BY DEF Tokens
<1>3. x \notin Tokens(f)
  BY <1>1
<1>4. Tokens(g) = Tokens(f) \cup {x}
  <2>1. \A y \in Tokens(g) \cup Tokens(f) : y = <<y[1], y[2]>>
    BY DEF Tokens
  <2>2. \A s, n : <<s, n>> \in Tokens(g) <=> <<s, n>> \in Tokens(f) \/ <<s, n>> = x
    <3> TAKE s, n
    <3>1. CASE s = t
      <4>1. n \in 1 .. f[t] + 1 <=> n \in 1 .. f[t] \/ n = f[t] + 1
        OBVIOUS
      <4> QED BY <1>1, <1>2, <3>1, <4>1
    <3>2. CASE s # t
      BY <1>1, <1>2, <3>2
    <3> QED BY <3>1, <3>2
  <2> HIDE DEF g, x
  <2>3. x = <<t, f[t] + 1>>
    BY DEF x
  <2> QED BY <2>1, <2>2, <2>3
<1> QED BY <1>3, <1>4, TokensFinite, FS_AddElement

Hand == [t \in Task |-> units[t] + Granted(t, "sem")]

(* The tokens that are out are counted as units are granted and given back. *)
LEMMA OutCount ==
    ASSUME TypeOK
    PROVE  /\ Hand \in [Task -> Nat]
           /\ Out = Tokens(Hand)
           /\ Cardinality(Out) \in Nat
           /\ \A t \in Task : Cardinality(Tokens([Hand EXCEPT ![t] = Hand[t] + 1]))
                                  = Cardinality(Out) + 1
<1>1. Hand \in [Task -> Nat]
  BY DEF Hand, Granted, TypeOK
<1>2. Out = Tokens(Hand)
  BY DEF Out, Tokens, Hand
<1>3. Cardinality(Out) \in Nat
  BY <1>1, <1>2, TokensFinite, FS_CardinalityType
<1> QED BY <1>1, <1>2, <1>3, TokensMore

-----------------------------------------------------------------------------
(* The accounts.                                                           *)

(* A task waits for something exactly while it is inside a blocking call. *)
Calls == \A t \in Task : pc[t] \in {"queued", "blocked"} <=> waits_for[t] # "none"

(* A queue holds tasks that wait for what it is the queue of, and have not *)
(* been served: until a blocking call returns early.                       *)
Queued(t, what) == waits_for[t] = what /\ t \notin woken

Queues ==
    ~spurious =>
        /\ \A t \in woken : waits_for[t] # "none"
        /\ \A t \in Met(mutex_wait_list, next) : Queued(t, "mutex")
        /\ \A t \in Met(sem_wait_list, next) : Queued(t, "sem")

Accounts == Calls /\ Queues /\ LocksAccountedFor /\ UnitsAccountedFor

LEMMA AccountsInit == Init => Accounts
<1> SUFFICES ASSUME Init PROVE Accounts
  OBVIOUS
<1>1. next \in Links
  BY ShapeInit, ShapeFacts
<1>2. Met(mutex_wait_list, next) = {} /\ Met(sem_wait_list, next) = {}
  BY <1>1, MetNull DEF Init
<1>3. Calls /\ Queues
  BY <1>2 DEF Init, Calls, Queues
<1>4. LocksAccountedFor
  BY TaskAssumption DEF Init, LocksAccountedFor, Granted
<1>5. UnitsAccountedFor
  <2>1. \A t \in Task : 1 .. units[t] + Granted(t, "sem") = {}
    BY DEF Init, Granted
  <2>2. Out = {}
    BY <2>1 DEF Out
  <2> QED BY <2>2, FS_EmptySet, ProgramAssumption DEF Init, UnitsAccountedFor
<1> QED BY <1>3, <1>4, <1>5 DEF Accounts

(* Steps that leave the queues and what is granted as they are. *)
LEMMA AccountsKept ==
    ASSUME Accounts, Calls',
           UNCHANGED <<next, count, sem_wait_list, owner, lock_count, mutex_wait_list,
                       waits_for, units, locks, woken, spurious>>
    PROVE  Accounts'
<1>1. Queues'
  BY DEF Accounts, Queues, Queued
<1>2. LocksAccountedFor'
  BY DEF Accounts, LocksAccountedFor, Granted
<1>3. Out' = Out
  BY DEF Out, Granted
<1>4. UnitsAccountedFor'
  BY <1>3 DEF Accounts, UnitsAccountedFor
<1> QED BY <1>1, <1>2, <1>4 DEF Accounts

LEMMA AccountsScheduler ==
    ASSUME Shape, Accounts,
           \/ SysTick \/ PendSV \/ UNCHANGED vars
           \/ \E t \in Worker : \/ Yield(t) \/ YieldQueued(t)
                                \/ ScanOutside(t) \/ StoreOutside(t)
    PROVE  Accounts'
<1>1. UNCHANGED <<next, count, sem_wait_list, owner, lock_count, mutex_wait_list,
                  waits_for, units, locks, woken, spurious>>
  BY DEF SysTick, PendSV, Yield, YieldQueued, YieldBody, ScanOutside, StoreOutside,
         vars, sem, mutex, granted
<1>2. Calls'
  <2>1. CASE UNCHANGED pc
    BY <1>1, <2>1 DEF Accounts, Calls
  <2>2. ASSUME NEW t \in Task, t \in Worker, YieldQueued(t) \/ ScanOutside(t) \/ StoreOutside(t)
        PROVE  Calls'
    BY <1>1, <2>2
       DEF YieldQueued, ScanOutside, StoreOutside, At, Goto, Accounts, Calls, Shape, TypeOK
  <2> QED BY <2>1, <2>2 DEF SysTick, PendSV, Yield, vars, Worker
<1> QED BY <1>1, <1>2, AccountsKept

(* A task between two calls waits for nothing, so it is in no queue.        *)
LEMMA Between ==
    ASSUME Shape, Accounts, ~spurious, NEW t \in Task, pc[t] = "run"
    PROVE  /\ waits_for[t] = "none" /\ t \notin woken
           /\ t \notin Met(mutex_wait_list, next) /\ t \notin Met(sem_wait_list, next)
           /\ Met(mutex_wait_list, next) \cap Met(sem_wait_list, next) = {}
BY DEF Accounts, Calls, Queues, Queued

LEMMA AccountsReturn ==
    ASSUME Shape, Shape', Accounts, NEW t \in Worker, Return(t)
    PROVE  Accounts'
<1>1. t \in Task /\ pc[t] = "blocked" /\ waits_for[t] # "none"
      /\ units[t] \in Nat /\ locks[t] \in Nat
  BY DEF Worker, Return, At, Accounts, Calls, Shape, TypeOK
<1>2. Calls'
  BY <1>1 DEF Return, Goto, Accounts, Calls, Shape, TypeOK
<1>3. ASSUME ~spurious' PROVE ~spurious /\ t \in woken
  BY <1>3 DEF Return
<1>4. Queues'
  BY <1>1, <1>3, MetType, ShapeFacts
     DEF Return, sem, mutex, Accounts, Queues, Queued, Shape, TypeOK
<1>5. LocksAccountedFor'
  BY <1>1, <1>3 DEF Return, mutex, Accounts, LocksAccountedFor, Granted, Shape, TypeOK
<1>6. UnitsAccountedFor'
  <2>1. SUFFICES ASSUME ~spurious' PROVE Out' = Out
    BY <1>3 DEF Return, sem, Accounts, UnitsAccountedFor
  <2>2. \A s \in Task : units'[s] + Granted(s, "sem")' = units[s] + Granted(s, "sem")
    BY <1>1, <1>3, <2>1 DEF Return, Granted, Shape, TypeOK
  <2> QED BY <2>2 DEF Out
<1> QED BY <1>2, <1>4, <1>5, <1>6 DEF Accounts

LEMMA OneLess ==
    ASSUME NEW f \in [Task -> Nat], NEW t \in Task, f[t] > 0
    PROVE  LET g == [f EXCEPT ![t] = f[t] - 1]
           IN  g \in [Task -> Nat] /\ f = [g EXCEPT ![t] = g[t] + 1]
<1> DEFINE g == [f EXCEPT ![t] = f[t] - 1]
           h == [g EXCEPT ![t] = g[t] + 1]
<1>1. g \in [Task -> Nat] /\ \A s \in Task : g[s] = IF s = t THEN f[t] - 1 ELSE f[s]
  OBVIOUS
<1>2. h \in [Task -> Nat] /\ \A s \in Task : h[s] = IF s = t THEN g[t] + 1 ELSE g[s]
  <2> HIDE DEF g
  <2> QED BY <1>1
<1>3. \A s \in Task : h[s] = f[s]
  <2> HIDE DEF g, h
  <2> QED BY <1>1, <1>2
<1>4. h = f
  <2> HIDE DEF h
  <2> QED BY <1>2, <1>3
<1> QED BY <1>1, <1>4

(* A unit is taken, given back, or moved from t to a task that waited. *)
LEMMA OutChange ==
    ASSUME TypeOK, TypeOK', NEW t \in Task
    PROVE  /\ Hand' = [Hand EXCEPT ![t] = Hand[t] + 1]
                  => Cardinality(Out') = Cardinality(Out) + 1
           /\ Hand[t] > 0 /\ Hand' = [Hand EXCEPT ![t] = Hand[t] - 1]
                  => Cardinality(Out') = Cardinality(Out) - 1
           /\ \A s \in Task : /\ Hand[t] > 0
                              /\ Hand' = [[Hand EXCEPT ![t] = Hand[t] - 1]
                                             EXCEPT ![s] = Hand[s] + 1]
                              /\ s # t
                  => Cardinality(Out') = Cardinality(Out)
<1>1. Hand \in [Task -> Nat] /\ Out = Tokens(Hand) /\ Cardinality(Out) \in Nat
  BY OutCount
<1>2. Hand' \in [Task -> Nat] /\ Out' = Tokens(Hand')
  <2>1. Hand' \in [Task -> Nat]
    BY DEF Hand, Granted, TypeOK
  <2>2. Out' = Tokens(Hand')
    BY DEF Out, Tokens, Hand
  <2> QED BY <2>1, <2>2
<1>3. Hand' = [Hand EXCEPT ![t] = Hand[t] + 1]
                  => Cardinality(Out') = Cardinality(Out) + 1
  BY <1>1, <1>2, TokensMore
<1> DEFINE f == [Hand EXCEPT ![t] = Hand[t] - 1]
<1>4. ASSUME Hand[t] > 0 PROVE Cardinality(Out) = Cardinality(Tokens(f)) + 1
  <2>1. f \in [Task -> Nat] /\ Hand = [f EXCEPT ![t] = f[t] + 1]
    BY <1>1, <1>4, OneLess
  <2> HIDE DEF f
  <2>2. Cardinality(Tokens([f EXCEPT ![t] = f[t] + 1])) = Cardinality(Tokens(f)) + 1
    BY <2>1, TokensMore
  <2> QED BY <1>1, <2>1, <2>2
<1>5. ASSUME Hand[t] > 0 PROVE f \in [Task -> Nat] /\ Cardinality(Tokens(f)) \in Nat
  <2>1. f \in [Task -> Nat]
    BY <1>1, <1>5
  <2> HIDE DEF f
  <2> QED BY <2>1, TokensFinite, FS_CardinalityType
<1>6. ASSUME NEW s \in Task, Hand[t] > 0, s # t,
             Hand' = [f EXCEPT ![s] = Hand[s] + 1]
      PROVE  Cardinality(Out') = Cardinality(Out)
  <2>1. Hand' = [f EXCEPT ![s] = f[s] + 1]
    BY <1>1, <1>6
  <2> HIDE DEF f
  <2>2. Cardinality(Tokens([f EXCEPT ![s] = f[s] + 1])) = Cardinality(Tokens(f)) + 1
    BY <1>5, <1>6, TokensMore
  <2> QED BY <1>2, <1>4, <1>6, <2>1, <2>2
<1>7. ASSUME Hand[t] > 0, Hand' = f
      PROVE  Cardinality(Out') = Cardinality(Out) - 1
  BY <1>2, <1>4, <1>5, <1>7
<1> QED BY <1>3, <1>6, <1>7

LEMMA HandIs ==
    ASSUME TypeOK
    PROVE  \A t \in Task : \A n :
               (\A s \in Task : Hand'[s] = IF s = t THEN n ELSE Hand[s])
                   => Hand' = [Hand EXCEPT ![t] = n]
<1> SUFFICES ASSUME NEW t \in Task, NEW n,
                    \A s \in Task : Hand'[s] = IF s = t THEN n ELSE Hand[s]
             PROVE  Hand' = [Hand EXCEPT ![t] = n]
  OBVIOUS
<1> DEFINE f == [Hand EXCEPT ![t] = n]
<1>1. f = [s \in Task |-> f[s]] /\ \A s \in Task : f[s] = IF s = t THEN n ELSE Hand[s]
  BY DEF Hand
<1>2. Hand' = [s \in Task |-> Hand'[s]]
  BY DEF Hand
<1> HIDE DEF f
<1>3. f = Hand'
  BY <1>1, <1>2
<1> QED BY <1>3 DEF f

LEMMA AccountsUnit ==
    ASSUME Shape, Shape', Accounts, NEW t \in Worker, TakeUnit(t) \/ PostUnit(t)
    PROVE  Accounts'
<1>1. /\ t \in Task /\ pc[t] = "run" /\ units[t] \in Nat /\ TypeOK /\ TypeOK'
      /\ Hand \in [Task -> Nat] /\ count \in 0 .. MaxCount /\ MaxCount \in Nat
      /\ Cardinality(Out) \in Nat
  BY OutCount, ProgramAssumption DEF Worker, TakeUnit, PostUnit, At, Shape, TypeOK
<1>2. UNCHANGED <<next, sem_wait_list, owner, lock_count, mutex_wait_list, pc, waits_for,
                  locks, woken, spurious>>
  BY DEF TakeUnit, PostUnit, mutex
<1>3. Calls' /\ Queues'
  BY <1>2 DEF Accounts, Calls, Queues, Queued
<1>4. LocksAccountedFor'
  BY <1>2 DEF Accounts, LocksAccountedFor, Granted
<1>5. UnitsAccountedFor'
  <2>1. SUFFICES ASSUME ~spurious PROVE count' + Cardinality(Out') = MaxCount
    BY <1>2 DEF UnitsAccountedFor
  <2>2. count + Cardinality(Out) = MaxCount /\ Hand[t] = units[t]
    BY <1>1, <2>1, Between DEF Accounts, UnitsAccountedFor, Hand, Granted
  <2>3. CASE TakeUnit(t)
    <3>1. \A s \in Task : Hand'[s] = IF s = t THEN Hand[t] + 1 ELSE Hand[s]
      BY <1>1, <1>2, <2>2, <2>3 DEF TakeUnit, Hand, Granted, TypeOK
    <3>2. Hand' = [Hand EXCEPT ![t] = Hand[t] + 1]
      BY <1>1, <3>1, HandIs
    <3>3. Cardinality(Out') = Cardinality(Out) + 1
      BY <1>1, <3>2, OutChange
    <3>4. count' = count - 1
      BY <2>3 DEF TakeUnit
    <3> QED BY <1>1, <2>2, <3>3, <3>4
  <2>4. CASE PostUnit(t)
    <3>1. Hand[t] > 0 /\ Hand' = [Hand EXCEPT ![t] = Hand[t] - 1]
      <4>1. \A s \in Task : Hand'[s] = IF s = t THEN Hand[t] - 1 ELSE Hand[s]
        BY <1>1, <1>2, <2>2, <2>4 DEF PostUnit, Hand, Granted, TypeOK
      <4>2. Hand[t] > 0
        BY <2>2, <2>4 DEF PostUnit
      <4> QED BY <1>1, <4>1, <4>2, HandIs
    <3>2. Cardinality(Out') = Cardinality(Out) - 1
      BY <1>1, <3>1, OutChange
    <3>3. Cardinality(Out') \in Nat
      <4>1. Hand' \in [Task -> Nat]
        BY <1>1, <3>1, OneLess
      <4>2. Out' = Tokens(Hand')
        BY DEF Out, Tokens, Hand
      <4> QED BY <4>1, <4>2, TokensFinite, FS_CardinalityType
    <3>4. count < MaxCount
      BY <1>1, <2>2, <3>2, <3>3
    <3>5. count' = count + 1
      BY <2>4, <3>4 DEF PostUnit
    <3> QED BY <1>1, <2>2, <3>2, <3>5
  <2> QED BY <2>3, <2>4
<1> QED BY <1>3, <1>4, <1>5 DEF Accounts

LEMMA AccountsWait ==
    ASSUME Shape, Shape', Accounts, NEW t \in Worker, SemWait(t) \/ LockWait(t)
    PROVE  Accounts'
<1> DEFINE what == IF SemWait(t) THEN "sem" ELSE "mutex"
<1>1. /\ t \in Task /\ t \in Pointer /\ pc[t] = "run" /\ TypeOK
      /\ sem_wait_list \in Pointer /\ mutex_wait_list \in Pointer /\ next \in Links
  BY ShapeFacts DEF Worker, SemWait, LockWait, At, Shape
<1>2. /\ UNCHANGED <<count, owner, lock_count, units, locks, woken, spurious>>
      /\ pc' = [pc EXCEPT ![t] = "queued"]
  BY DEF SemWait, LockWait, Block, Goto, sem, mutex, granted
<1>3. waits_for' \in {[waits_for EXCEPT ![t] = "sem"], [waits_for EXCEPT ![t] = "mutex"]}
  BY DEF SemWait, LockWait, Block
<1>4. Calls'
  BY <1>1, <1>2, <1>3 DEF Accounts, Calls, TypeOK
<1>5. Queues'
  <2>1. SUFFICES ASSUME ~spurious
                 PROVE  /\ \A s \in woken : waits_for'[s] # "none"
                        /\ \A s \in Met(mutex_wait_list, next)' :
                              waits_for'[s] = "mutex" /\ s \notin woken
                        /\ \A s \in Met(sem_wait_list, next)' :
                              waits_for'[s] = "sem" /\ s \notin woken
    BY <1>2 DEF Queues, Queued
  <2>2. /\ waits_for[t] = "none" /\ t \notin woken
        /\ t \notin Met(mutex_wait_list, next) /\ t \notin Met(sem_wait_list, next)
        /\ Met(mutex_wait_list, next) \cap Met(sem_wait_list, next) = {}
    BY <1>1, <2>1, Between
  <2>3. \A s \in Task \ {t} : waits_for'[s] = waits_for[s]
    BY <1>1, <1>3 DEF TypeOK
  <2>4. \A s \in woken : waits_for'[s] # "none"
    BY <1>1, <2>1, <2>2, <2>3 DEF Accounts, Queues, TypeOK
  <2>5. /\ Met(mutex_wait_list, next) \subseteq Task /\ Met(sem_wait_list, next) \subseteq Task
    BY <1>1, MetType
  <2>6. CASE SemWait(t)
    <3>1. /\ LinkLast(t, sem_wait_list) /\ mutex_wait_list' = mutex_wait_list
          /\ sem_wait_list' = IF sem_wait_list = NoTask THEN t ELSE sem_wait_list
          /\ waits_for'[t] = "sem"
      BY <1>1, <2>6 DEF SemWait, Block, mutex, TypeOK
    <3>2. /\ Met(sem_wait_list', next') \subseteq Met(sem_wait_list, next) \cup {t}
          /\ Met(mutex_wait_list', next') \subseteq Met(mutex_wait_list, next)
      BY <1>1, <2>2, <3>1, AppendQueue
    <3> QED BY <2>1, <2>2, <2>3, <2>4, <2>5, <3>1, <3>2 DEF Accounts, Queues, Queued
  <2>7. CASE LockWait(t)
    <3>1. /\ LinkLast(t, mutex_wait_list) /\ sem_wait_list' = sem_wait_list
          /\ mutex_wait_list' = IF mutex_wait_list = NoTask THEN t ELSE mutex_wait_list
          /\ waits_for'[t] = "mutex"
      BY <1>1, <2>7 DEF LockWait, Block, sem, TypeOK
    <3>2. /\ Met(mutex_wait_list', next') \subseteq Met(mutex_wait_list, next) \cup {t}
          /\ Met(sem_wait_list', next') \subseteq Met(sem_wait_list, next)
      BY <1>1, <2>2, <3>1, AppendQueue
    <3> QED BY <2>1, <2>2, <2>3, <2>4, <2>5, <3>1, <3>2 DEF Accounts, Queues, Queued
  <2> QED BY <2>6, <2>7
<1>6. ~spurious => \A s \in Task : /\ Granted(s, "mutex")' = Granted(s, "mutex")
                                   /\ Granted(s, "sem")' = Granted(s, "sem")
  <2>1. SUFFICES ASSUME ~spurious, NEW s \in Task
                 PROVE  /\ Granted(s, "mutex")' = Granted(s, "mutex")
                        /\ Granted(s, "sem")' = Granted(s, "sem")
    OBVIOUS
  <2>2. t \notin woken
    BY <1>1, <2>1, Between
  <2>3. s # t => waits_for'[s] = waits_for[s]
    BY <1>1, <1>3 DEF TypeOK
  <2> QED BY <1>2, <2>2, <2>3 DEF Granted
<1>7. LocksAccountedFor'
  BY <1>2, <1>6 DEF Accounts, LocksAccountedFor
<1>8. UnitsAccountedFor'
  <2>1. SUFFICES ASSUME ~spurious PROVE Out' = Out
    BY <1>2 DEF Accounts, UnitsAccountedFor
  <2>2. \A s \in Task : units'[s] + Granted(s, "sem")' = units[s] + Granted(s, "sem")
    BY <1>2, <1>6, <2>1
  <2> QED BY <2>2 DEF Out
<1> QED BY <1>4, <1>5, <1>7, <1>8 DEF Accounts

LEMMA AccountsPost ==
    ASSUME Shape, Shape', Accounts, NEW t \in Worker, PostToWaiter(t)
    PROVE  Accounts'
<1> DEFINE task == sem_wait_list
<1>1. /\ t \in Task /\ pc[t] = "run" /\ units[t] \in Nat /\ units[t] > 0
      /\ TypeOK /\ TypeOK' /\ Hand \in [Task -> Nat]
      /\ task \in Task /\ task \in Pointer /\ mutex_wait_list \in Pointer /\ next \in Links
  BY ShapeFacts, OutCount DEF Worker, PostToWaiter, At, Shape, TypeOK, Pointer
<1>2. /\ UNCHANGED <<count, owner, lock_count, mutex_wait_list, waits_for, locks, spurious>>
      /\ sem_wait_list' = next[task] /\ next' = [next EXCEPT ![task] = NoTask]
      /\ woken' = woken \cup {task} /\ units' = [units EXCEPT ![t] = @ - 1]
      /\ pc' = [pc EXCEPT ![t] = "scan"]
  BY DEF PostToWaiter, Goto, mutex
<1>3. Calls'
  BY <1>1, <1>2 DEF Accounts, Calls, TypeOK
<1>4. ASSUME ~spurious
      PROVE  /\ waits_for[t] = "none" /\ t \notin woken
             /\ task \in Met(sem_wait_list, next) /\ waits_for[task] = "sem"
             /\ task \notin woken /\ task # t
             /\ task \notin Met(mutex_wait_list, next)
  <2>1. task \in Met(sem_wait_list, next)
    BY <1>1, MetType, TaskAssumption
  <2> QED BY <1>1, <1>4, <2>1, Between DEF Accounts, Queues, Queued
<1>5. Queues'
  <2>1. /\ Met(sem_wait_list', next') \subseteq Met(task, next) \ {task}
        /\ Met(mutex_wait_list', next') \subseteq Met(mutex_wait_list, next)
    BY <1>1, <1>2, PopQueue
  <2> QED BY <1>2, <1>4, <2>1 DEF Accounts, Queues, Queued
<1>6. LocksAccountedFor'
  <2>1. ~spurious => \A s \in Task : Granted(s, "mutex")' = Granted(s, "mutex")
    BY <1>2, <1>4 DEF Granted
  <2> QED BY <1>2, <2>1 DEF Accounts, LocksAccountedFor
<1>7. UnitsAccountedFor'
  <2>1. SUFFICES ASSUME ~spurious PROVE Cardinality(Out') = Cardinality(Out)
    BY <1>2 DEF Accounts, UnitsAccountedFor
  <2>2. /\ Hand[t] = units[t] /\ Hand'[t] = units[t] - 1
        /\ Hand'[task] = Hand[task] + 1
        /\ \A s \in Task \ {t, task} : Hand'[s] = Hand[s]
    BY <1>1, <1>2, <1>4, <2>1 DEF Hand, Granted, TypeOK
  <2>3. Hand' = [[Hand EXCEPT ![t] = Hand[t] - 1] EXCEPT ![task] = Hand[task] + 1]
    <3> DEFINE f == [[Hand EXCEPT ![t] = Hand[t] - 1] EXCEPT ![task] = Hand[task] + 1]
    <3>1. \A s \in Task : f[s] = Hand'[s]
      BY <1>1, <1>4, <2>1, <2>2
    <3>2. f = [s \in Task |-> f[s]] /\ Hand' = [s \in Task |-> Hand'[s]]
      BY <1>1 DEF Hand
    <3> HIDE DEF f
    <3>3. f = Hand'
      BY <3>1, <3>2
    <3> QED BY <3>3 DEF f
  <2> QED BY <1>1, <1>4, <2>1, <2>2, <2>3, OutChange
<1> QED BY <1>3, <1>5, <1>6, <1>7 DEF Accounts

LEMMA AccountsLock ==
    ASSUME Shape, Shape', Accounts, NEW t \in Worker, TakeLock(t) \/ Unlock(t)
    PROVE  Accounts'
<1>1. /\ t \in Task /\ t # NoTask /\ pc[t] = "run" /\ TypeOK
  BY TaskAssumption DEF Worker, TakeLock, Unlock, At, Shape
<1>2. UNCHANGED <<next, sem, mutex_wait_list, pc, waits_for, units, woken, spurious>>
  BY DEF TakeLock, Unlock
<1>3. Calls' /\ Queues'
  BY <1>2 DEF Accounts, Calls, Queues, Queued, sem
<1>4. LocksAccountedFor'
  <2>1. SUFFICES ASSUME ~spurious, NEW s \in Task
                 PROVE  locks'[s] + Granted(s, "mutex") =
                            IF owner' = s THEN lock_count' ELSE 0
    BY <1>2 DEF LocksAccountedFor, Granted
  <2>2. /\ locks[s] + Granted(s, "mutex") = (IF owner = s THEN lock_count ELSE 0)
        /\ locks[t] + Granted(t, "mutex") = (IF owner = t THEN lock_count ELSE 0)
        /\ Granted(t, "mutex") = 0 /\ Granted(s, "mutex") \in {0, 1}
    BY <1>1, <2>1, Between DEF Accounts, LocksAccountedFor, Granted
  <2>3. /\ locks[s] \in Nat /\ locks[t] \in Nat /\ lock_count \in Nat
        /\ (owner = NoTask => lock_count = 0)
    BY <1>1, <2>1 DEF TypeOK, Shape, NoIdleResource
  <2>4. CASE TakeLock(t)
    <3>1. locks' = [locks EXCEPT ![t] = locks[t] + 1]
      BY <2>4 DEF TakeLock
    <3>2. \/ owner = NoTask /\ owner' = t /\ lock_count' = 1
          \/ owner = t /\ owner' = t /\ lock_count' = lock_count + 1
      BY <2>4 DEF TakeLock
    <3>3. locks'[s] = IF s = t THEN locks[t] + 1 ELSE locks[s]
      BY <1>1, <2>1, <3>1 DEF TypeOK
    <3> QED BY <1>1, <2>1, <2>2, <2>3, <3>2, <3>3
  <2>5. CASE Unlock(t)
    <3>1. locks' = [locks EXCEPT ![t] = locks[t] - 1] /\ locks[t] > 0
      BY <2>5 DEF Unlock
    <3>2. owner = t
      BY <2>2, <2>3, <3>1
    <3>3. \/ owner' = t /\ lock_count' = lock_count - 1
          \/ lock_count = 1 /\ lock_count' = 0 /\ owner' = NoTask
      BY <2>5, <3>2 DEF Unlock
    <3>4. locks'[s] = IF s = t THEN locks[t] - 1 ELSE locks[s]
      BY <1>1, <2>1, <3>1 DEF TypeOK
    <3> QED BY <1>1, <2>1, <2>2, <2>3, <3>2, <3>3, <3>4
  <2> QED BY <2>4, <2>5
<1>5. UnitsAccountedFor'
  <2>1. Out' = Out
    BY <1>2 DEF Out, Granted
  <2> QED BY <1>2, <2>1 DEF Accounts, UnitsAccountedFor, sem
<1> QED BY <1>3, <1>4, <1>5 DEF Accounts

LEMMA AccountsHandOver ==
    ASSUME Shape, Shape', Accounts, NEW t \in Worker, HandOver(t)
    PROVE  Accounts'
<1> DEFINE restored == [deadline EXCEPT ![t] = original_deadline]
           heir == FirstEarliest(Walk(mutex_wait_list, next),
                                 Met(mutex_wait_list, next), restored)
<1>1. /\ t \in Task /\ pc[t] = "run" /\ locks[t] \in Nat /\ TypeOK
      /\ restored \in [Task -> Time] /\ owner = t /\ lock_count = 1
      /\ mutex_wait_list \in Task /\ mutex_wait_list \in Pointer
      /\ sem_wait_list \in Pointer /\ next \in Links
  BY ShapeFacts DEF Worker, HandOver, At, Shape, TypeOK, Pointer
<1>2. heir \in Met(mutex_wait_list, next) /\ heir \in Task
  BY <1>1, HeirMet
<1>3. /\ UnlinkWaiter(heir) /\ owner' = heir /\ Goto(t, "scan")
      /\ locks' = [locks EXCEPT ![t] = @ - 1]
      /\ woken' = woken \cup {heir}
      /\ UNCHANGED <<sem, lock_count, waits_for, units, spurious>>
  BY DEF HandOver
<1> HIDE DEF heir, restored
<1>4. Calls'
  BY <1>1, <1>3 DEF Goto, Accounts, Calls, TypeOK
<1>5. ASSUME ~spurious
      PROVE  /\ waits_for[t] = "none" /\ t \notin woken
             /\ waits_for[heir] = "mutex" /\ heir \notin woken /\ heir # t
             /\ Met(mutex_wait_list, next) \cap Met(sem_wait_list, next) = {}
  BY <1>1, <1>2, <1>5, Between DEF Accounts, Queues, Queued
<1>6. Queues'
  <2>1. SUFFICES ASSUME ~spurious PROVE Queues'
    BY <1>3 DEF Queues
  <2>2. /\ Met(mutex_wait_list', next') \subseteq Met(mutex_wait_list, next) \ {heir}
        /\ Met(sem_wait_list', next') \subseteq Met(sem_wait_list, next)
    <3>1. sem_wait_list' = sem_wait_list
      BY <1>3 DEF sem
    <3>2. Met(sem_wait_list, next) \cap Met(mutex_wait_list, next) = {}
      BY <1>5, <2>1
    <3> QED BY <1>1, <1>2, <1>3, <3>1, <3>2, UnlinkQueue
  <2> QED BY <1>2, <1>3, <1>5, <2>1, <2>2 DEF Accounts, Queues, Queued
<1>7. LocksAccountedFor'
  <2>1. SUFFICES ASSUME ~spurious, NEW s \in Task
                 PROVE  locks'[s] + Granted(s, "mutex")' = IF heir = s THEN 1 ELSE 0
    BY <1>1, <1>3 DEF LocksAccountedFor
  <2>2. /\ locks[s] + Granted(s, "mutex") = (IF t = s THEN 1 ELSE 0)
        /\ locks[s] \in Nat /\ Granted(s, "mutex") \in {0, 1}
        /\ (s = t \/ s = heir => Granted(s, "mutex") = 0)
    BY <1>1, <1>5, <2>1 DEF Accounts, LocksAccountedFor, Granted, TypeOK
  <2>3. Granted(s, "mutex")' = IF s = heir THEN 1 ELSE Granted(s, "mutex")
    BY <1>3, <1>5, <2>1 DEF Granted
  <2>4. locks'[s] = IF s = t THEN locks[t] - 1 ELSE locks[s]
    BY <1>1, <1>3, <2>1 DEF TypeOK
  <2> QED BY <1>1, <1>5, <2>1, <2>2, <2>3, <2>4
<1>8. UnitsAccountedFor'
  <2>1. SUFFICES ASSUME ~spurious PROVE Out' = Out
    BY <1>3 DEF Accounts, UnitsAccountedFor, sem
  <2>2. \A s \in Task : Granted(s, "sem")' = Granted(s, "sem")
    BY <1>3, <1>5, <2>1 DEF Granted
  <2> QED BY <1>3, <2>2 DEF Out
<1> QED BY <1>4, <1>6, <1>7, <1>8 DEF Accounts

(* Nobody who waits is in no queue, until a blocking call returns early.    *)
AllQueued ==
    ~spurious => /\ Waiters("mutex") \subseteq Met(mutex_wait_list, next)
                 /\ Waiters("sem") \subseteq Met(sem_wait_list, next)

LEMMA QueuedInit == Init => AllQueued
BY DEF Init, AllQueued, Waiters

(* Steps that leave the queues: a return takes only its own task away.      *)
LEMMA QueuedKept ==
    ASSUME AllQueued, UNCHANGED <<next, sem_wait_list, mutex_wait_list>>,
           spurious => spurious', \A what \in {"mutex", "sem"} : Waiters(what)' \subseteq Waiters(what)
    PROVE  AllQueued'
BY DEF AllQueued

LEMMA QueuedStays ==
    ASSUME Shape, Accounts, AllQueued,
           \/ SysTick \/ PendSV \/ UNCHANGED vars
           \/ \E t \in Worker :
                 \/ Yield(t) \/ YieldQueued(t) \/ ScanOutside(t) \/ StoreOutside(t)
                 \/ TakeUnit(t) \/ PostUnit(t) \/ TakeLock(t) \/ Unlock(t) \/ Return(t)
    PROVE  AllQueued'
<1>1. ASSUME UNCHANGED <<next, sem_wait_list, mutex_wait_list, spurious, waits_for, woken>>
      PROVE  AllQueued'
  BY <1>1, QueuedKept DEF Waiters
<1>2. CASE SysTick
  BY <1>1, <1>2 DEF SysTick, sem, mutex, granted
<1>3. CASE PendSV
  BY <1>1, <1>3 DEF PendSV, sem, mutex, granted
<1>4. CASE UNCHANGED vars
  BY <1>1, <1>4 DEF vars, sem, mutex, granted
<1>5. ASSUME NEW t \in Worker, Yield(t) \/ YieldQueued(t) PROVE AllQueued'
  BY <1>1, <1>5 DEF Yield, YieldQueued, YieldBody, sem, mutex, granted
<1>6. ASSUME NEW t \in Worker, ScanOutside(t) \/ StoreOutside(t) PROVE AllQueued'
  BY <1>1, <1>6 DEF ScanOutside, StoreOutside, sem, mutex, granted
<1>7. ASSUME NEW t \in Worker, TakeUnit(t) \/ PostUnit(t) PROVE AllQueued'
  BY <1>1, <1>7 DEF TakeUnit, PostUnit, mutex
<1>8. ASSUME NEW t \in Worker, TakeLock(t) \/ Unlock(t) PROVE AllQueued'
  BY <1>1, <1>8 DEF TakeLock, Unlock, sem
<1>9. ASSUME NEW t \in Worker, Return(t) PROVE AllQueued'
  <2>1. /\ waits_for' = [waits_for EXCEPT ![t] = "none"] /\ woken' = woken \ {t} /\ t \in Task
        /\ waits_for \in [Task -> {"none", "sem", "mutex"}]
    BY <1>9 DEF Return, Worker, Shape, TypeOK
  <2>2. \A what \in {"mutex", "sem"} : Waiters(what)' \subseteq Waiters(what)
    BY <2>1 DEF Waiters
  <2>3. UNCHANGED <<next, sem_wait_list, mutex_wait_list>>
    BY <1>9 DEF Return, sem, mutex
  <2>4. spurious => spurious'
    BY <1>9, Zenon DEF Return
  <2> QED BY <2>2, <2>3, <2>4, QueuedKept
<1> QED BY <1>2, <1>3, <1>4, <1>5, <1>6, <1>7, <1>8, <1>9

(* A task goes to the end of the queue for what it waits for.               *)
LEMMA QueuedWait ==
    ASSUME Shape, Accounts, AllQueued, NEW t \in Worker, SemWait(t) \/ LockWait(t)
    PROVE  AllQueued'
<1>1. /\ t \in Task /\ pc[t] = "run" /\ UNCHANGED <<woken, spurious>>
      /\ sem_wait_list \in Pointer /\ mutex_wait_list \in Pointer
      /\ waits_for \in [Task -> {"none", "sem", "mutex"}]
  BY ShapeFacts DEF Worker, SemWait, LockWait, At, Block, granted, Shape, TypeOK
<1> SUFFICES ASSUME ~spurious
             PROVE  /\ Waiters("mutex")' \subseteq Met(mutex_wait_list', next')
                    /\ Waiters("sem")' \subseteq Met(sem_wait_list', next')
  BY <1>1 DEF AllQueued
<1>2. /\ t \notin Met(mutex_wait_list, next) /\ t \notin Met(sem_wait_list, next)
      /\ Met(mutex_wait_list, next) \cap Met(sem_wait_list, next) = {}
      /\ Met(sem_wait_list, next) \cap Met(mutex_wait_list, next) = {}
      /\ Waiters("mutex") \subseteq Met(mutex_wait_list, next)
      /\ Waiters("sem") \subseteq Met(sem_wait_list, next)
  BY <1>1, Between DEF AllQueued
<1>3. CASE SemWait(t)
  <2>1. /\ LinkLast(t, sem_wait_list) /\ mutex_wait_list' = mutex_wait_list
        /\ sem_wait_list' = IF sem_wait_list = NoTask THEN t ELSE sem_wait_list
        /\ waits_for' = [waits_for EXCEPT ![t] = "sem"]
    BY <1>3 DEF SemWait, Block, mutex
  <2>2. /\ Met(sem_wait_list, next) \cup {t} \subseteq Met(sem_wait_list', next')
        /\ Met(mutex_wait_list, next) \subseteq Met(mutex_wait_list', next')
    BY <1>1, <1>2, <2>1, AppendKeeps
  <2>3. Waiters("sem")' \subseteq Waiters("sem") \cup {t}
        /\ Waiters("mutex")' \subseteq Waiters("mutex")
    BY <1>1, <2>1 DEF Waiters
  <2> QED BY <1>2, <2>2, <2>3
<1>4. CASE LockWait(t)
  <2>1. /\ LinkLast(t, mutex_wait_list) /\ sem_wait_list' = sem_wait_list
        /\ mutex_wait_list' = IF mutex_wait_list = NoTask THEN t ELSE mutex_wait_list
        /\ waits_for' = [waits_for EXCEPT ![t] = "mutex"]
    BY <1>4 DEF LockWait, Block, sem
  <2>2. /\ Met(mutex_wait_list, next) \cup {t} \subseteq Met(mutex_wait_list', next')
        /\ Met(sem_wait_list, next) \subseteq Met(sem_wait_list', next')
    BY <1>1, <1>2, <2>1, AppendKeeps
  <2>3. Waiters("mutex")' \subseteq Waiters("mutex") \cup {t}
        /\ Waiters("sem")' \subseteq Waiters("sem")
    BY <1>1, <2>1 DEF Waiters
  <2> QED BY <1>2, <2>2, <2>3
<1> QED BY <1>3, <1>4

(* The task that leaves a queue is the one that is served.                  *)
LEMMA QueuedServed ==
    ASSUME Shape, Accounts, AllQueued, NEW t \in Worker, PostToWaiter(t) \/ HandOver(t)
    PROVE  AllQueued'
<1>1. /\ UNCHANGED <<waits_for, spurious>> /\ t \in Task
      /\ sem_wait_list \in Pointer /\ mutex_wait_list \in Pointer /\ next \in Links
  BY ShapeFacts DEF PostToWaiter, HandOver, Worker
<1> SUFFICES ASSUME ~spurious
             PROVE  /\ Waiters("mutex")' \subseteq Met(mutex_wait_list', next')
                    /\ Waiters("sem")' \subseteq Met(sem_wait_list', next')
  BY <1>1 DEF AllQueued
<1>2. /\ \A s \in Met(mutex_wait_list, next) : waits_for[s] = "mutex"
      /\ \A s \in Met(sem_wait_list, next) : waits_for[s] = "sem"
      /\ Waiters("mutex") \subseteq Met(mutex_wait_list, next)
      /\ Waiters("sem") \subseteq Met(sem_wait_list, next)
  BY DEF AllQueued, Accounts, Queues, Queued
<1>3. \A task : woken' = woken \cup {task} =>
          \A what : Waiters(what)' \subseteq Waiters(what) \ {task}
  BY <1>1 DEF Waiters
<1>4. CASE PostToWaiter(t)
  <2>1. /\ sem_wait_list \in Task /\ sem_wait_list' = next[sem_wait_list]
        /\ next' = [next EXCEPT ![sem_wait_list] = NoTask]
        /\ woken' = woken \cup {sem_wait_list} /\ mutex_wait_list' = mutex_wait_list
    BY <1>1, <1>4 DEF PostToWaiter, mutex, Pointer
  <2>2. sem_wait_list \in Met(sem_wait_list, next)
    BY <1>1, <2>1, MetType, TaskAssumption
  <2>3. sem_wait_list \notin Met(mutex_wait_list, next)
    BY <1>2, <2>2
  <2>4. /\ Met(sem_wait_list, next) \ {sem_wait_list} \subseteq Met(sem_wait_list', next')
        /\ Met(mutex_wait_list, next) \subseteq Met(mutex_wait_list', next')
    BY <1>1, <2>1, <2>3, PopKeeps
  <2> QED BY <1>2, <1>3, <2>1, <2>4
<1>5. CASE HandOver(t)
  <2> DEFINE restored == [deadline EXCEPT ![t] = original_deadline]
             heir == FirstEarliest(Walk(mutex_wait_list, next),
                                   Met(mutex_wait_list, next), restored)
  <2>1. /\ UnlinkWaiter(heir) /\ woken' = woken \cup {heir}
        /\ sem_wait_list' = sem_wait_list /\ mutex_wait_list \in Task
    BY <1>1, <1>5 DEF HandOver, sem, Pointer
  <2>2. restored \in [Task -> Time]
    BY <1>1 DEF Shape, TypeOK
  <2>3. heir \in Met(mutex_wait_list, next)
    BY <1>1, <2>1, <2>2, HeirMet
  <2> HIDE DEF heir
  <2>4. Met(sem_wait_list, next) \cap Met(mutex_wait_list, next) = {}
    BY <1>2
  <2>5. /\ Met(mutex_wait_list, next) \ {heir} \subseteq Met(mutex_wait_list', next')
        /\ Met(sem_wait_list, next) \subseteq Met(sem_wait_list', next')
    BY <1>1, <2>1, <2>3, <2>4, UnlinkKeeps
  <2> QED BY <1>2, <1>3, <2>1, <2>5
<1> QED BY <1>4, <1>5

LEMMA Invariance == Spec => [](Shape /\ Accounts)
<1>1. Init => Shape /\ Accounts
  BY ShapeInit, AccountsInit
<1>2. Shape /\ Accounts /\ [Next]_vars => (Shape /\ Accounts)'
  <2> SUFFICES ASSUME Shape, Accounts, [Next]_vars PROVE (Shape /\ Accounts)'
    OBVIOUS
  <2>1. Shape'
    BY ShapeStep
  <2>2. CASE SysTick \/ PendSV \/ UNCHANGED vars
    BY <2>1, <2>2, AccountsScheduler
  <2>3. ASSUME NEW t \in Worker, TaskStep(t) PROVE Accounts'
    BY <2>1, <2>3, AccountsScheduler, AccountsReturn, AccountsUnit, AccountsWait,
       AccountsPost, AccountsLock, AccountsHandOver DEF TaskStep
  <2> QED BY <2>1, <2>2, <2>3 DEF Next
<1> QED BY <1>1, <1>2, PTL DEF Spec

-----------------------------------------------------------------------------
(* The variables keep their types; in particular the semaphore's count     *)
(* stays within its maximum.                                               *)
THEOREM TypeCorrect == Spec => []TypeOK
<1>1. Shape => TypeOK
  BY DEF Shape
<1> QED BY <1>1, Invariance, PTL

(* However tasks move between the task list and the two wait queues, which *)
(* share task->next, no loop of smart_sync.c or smart_core.c over a list   *)
(* runs for ever, early returns of blocking calls included.                *)
THEOREM ListsEnd == Spec => []LinksEnd
<1>1. Shape => LinksEnd
  BY DEF Shape
<1> QED BY <1>1, Invariance, PTL

(* No task is left in the queue of a semaphore with a unit or of a mutex   *)
(* without an owner: smart_sem_post and smart_mutex_unlock hand over.      *)
THEOREM NobodyQueuesForNothing == Spec => []NoIdleResource
<1>1. Shape => NoIdleResource
  BY DEF Shape
<1> QED BY <1>1, Invariance, PTL

(* As long as no blocking call has returned early, everybody who waits is  *)
(* in the queue for what he waits for, and nobody else is; and somebody    *)
(* has what he waits for.  With mutual exclusion this is what a wake-up    *)
(* that is lost would break.                                               *)
THEOREM WaitersStayQueued == Spec => []NoWaiterLost
<1>1. Shape /\ Accounts /\ AllQueued /\ [Next]_vars => AllQueued'
  <2> SUFFICES ASSUME Shape, Accounts, AllQueued, [Next]_vars PROVE AllQueued'
    OBVIOUS
  <2>1. ASSUME NEW t \in Worker, TaskStep(t) PROVE AllQueued'
    BY <2>1, QueuedStays, QueuedWait, QueuedServed DEF TaskStep
  <2> QED BY <2>1, QueuedStays DEF Next
<1>2. Shape /\ Accounts /\ AllQueued => NoWaiterLost
  <2> SUFFICES ASSUME Shape, Accounts, AllQueued PROVE NoWaiterLost
    OBVIOUS
  <2>1. Met(mutex_wait_list, next) \subseteq Task /\ Met(sem_wait_list, next) \subseteq Task
    BY ShapeFacts, MetType
  <2> QED BY <2>1
          DEF Shape, Accounts, Queues, Queued, AllQueued, Waiters, NoWaiterLost
<1> QED BY <1>1, <1>2, QueuedInit, Invariance, PTL DEF Spec

(* As long as no blocking call has returned early, lock_count is the       *)
(* number of locks the calls have granted the owner, and nobody else has   *)
(* any, whoever smart_mutex_unlock has handed the mutex to.                *)
THEOREM LocksRight == Spec => []LocksAccountedFor
<1>1. Accounts => LocksAccountedFor
  BY DEF Accounts
<1> QED BY <1>1, Invariance, PTL

(* So the mutex excludes, until a blocking call returns early.             *)
THEOREM ExclusionUntilSpurious == Spec => [](~spurious => MutualExclusion)
<1>1. Shape /\ Accounts => (~spurious => MutualExclusion)
  <2> SUFFICES ASSUME Shape, Accounts, ~spurious, NEW s \in Task, NEW t \in Task,
                      locks[s] > 0, locks[t] > 0
               PROVE  s = t
    BY DEF MutualExclusion
  <2>1. \A u \in {s, t} : locks[u] \in Nat /\ Granted(u, "mutex") \in {0, 1}
    BY DEF Shape, TypeOK, Granted
  <2>2. \A u \in {s, t} : locks[u] + Granted(u, "mutex") = IF owner = u THEN lock_count ELSE 0
    BY DEF Accounts, LocksAccountedFor
  <2>3. owner = s /\ owner = t
    BY <2>1, <2>2
  <2> QED BY <2>3
<1> QED BY <1>1, Invariance, PTL

(* As long as no blocking call has returned early, the units tasks have,   *)
(* those handed to a waiter included, and the count make up MaxCount.      *)
THEOREM UnitsRight == Spec => []UnitsAccountedFor
<1>1. Accounts => UnitsAccountedFor
  BY DEF Accounts
<1> QED BY <1>1, Invariance, PTL

-----------------------------------------------------------------------------
(* Deadline inheritance.                                                   *)

LEMMA PlusMoves ==
    /\ \A a \in Time, p \in Time \ {0} : Plus(a, p) # a
    /\ \A a, p, r \in Time : Plus(Plus(a, p), r) = Plus(Plus(a, r), p)
BY ModulusAssumption DEF Plus, Time

(* A yield moves a task, its arrival and its deadline to the next period.  *)
LEMMA YieldInherits ==
    ASSUME Shape, NEW t \in Worker, YieldBody(t)
    PROVE  KeepsInherited /\ KeepsOwn
<1>1. /\ t \in Task /\ arrival[t] \in Time /\ Period[t] \in Time \ {0}
      /\ arrival \in [Task -> Time] /\ deadline \in [Task -> Time]
      /\ RelDeadline \in [Task -> Time]
  BY PeriodAssumption DEF Worker, Shape, TypeOK, Time
<1>2. /\ arrival' = [arrival EXCEPT ![t] = Plus(arrival[t], Period[t])]
      /\ deadline' = [deadline EXCEPT ![t] = Plus(deadline[t], Period[t])]
      /\ UNCHANGED <<owner, original_deadline>>
  BY DEF YieldBody, mutex
<1>3. arrival'[t] # arrival[t]
  BY <1>1, <1>2, PlusMoves
<1>4. KeepsOwn
  <2>1. SUFFICES ASSUME OwnDeadlines, owner = NoTask \/ arrival'[owner] = arrival[owner],
                        NEW s \in Worker
                 PROVE  Plus(arrival'[s], RelDeadline[s]) =
                            IF s = owner THEN original_deadline ELSE deadline'[s]
    BY <1>2 DEF KeepsOwn, OwnDeadlines
  <2>2. /\ s \in Task /\ t # owner
        /\ Plus(arrival[s], RelDeadline[s]) =
               IF s = owner THEN original_deadline ELSE deadline[s]
    BY <1>1, <1>3, <2>1, TaskAssumption DEF OwnDeadlines, Worker
  <2>3. CASE s = t
    <3>1. arrival'[s] = Plus(arrival[t], Period[t]) /\ deadline'[s] = Plus(deadline[t], Period[t])
      BY <1>1, <1>2, <2>3
    <3>2. deadline[t] = Plus(arrival[t], RelDeadline[t])
      BY <2>2, <2>3
    <3>3. Plus(Plus(arrival[t], Period[t]), RelDeadline[t])
              = Plus(Plus(arrival[t], RelDeadline[t]), Period[t])
      BY <1>1, PlusMoves
    <3> QED BY <2>2, <2>3, <3>1, <3>2, <3>3
  <2>4. CASE s # t
    BY <1>1, <1>2, <2>2, <2>4
  <2> QED BY <2>3, <2>4
<1> QED BY <1>3, <1>4 DEF KeepsInherited

(* The queue of the mutex is unaffected by the semaphore. *)
LEMMA SemaphoreInherits ==
    ASSUME Shape, Accounts, NEW t \in Worker, SemWait(t) \/ PostToWaiter(t)
    PROVE  KeepsInherited /\ KeepsOwn
<1>1. /\ t \in Task /\ pc[t] = "run" /\ UNCHANGED <<arrival, deadline, mutex>>
      /\ mutex_wait_list \in Pointer /\ sem_wait_list \in Pointer
  BY ShapeFacts DEF Worker, SemWait, PostToWaiter, At, Block, sched
<1>2. ASSUME ~spurious
      PROVE  Met(mutex_wait_list, next') \subseteq Met(mutex_wait_list, next)
  <2>1. Met(mutex_wait_list, next) \cap Met(sem_wait_list, next) = {}
    BY <1>1, <1>2, Between
  <2>2. CASE SemWait(t)
    BY <1>1, <2>1, <2>2, AppendQueue DEF SemWait
  <2>3. CASE PostToWaiter(t)
    <3>1. sem_wait_list \in Task /\ next' = [next EXCEPT ![sem_wait_list] = NoTask]
      BY <1>1, <2>3 DEF PostToWaiter, Pointer
    <3> QED BY <1>1, <3>1, PopQueue
  <2> QED BY <2>2, <2>3
<1>3. KeepsInherited
  BY <1>1, <1>2 DEF KeepsInherited, Inherited, mutex
<1>4. KeepsOwn
  BY <1>1 DEF KeepsOwn, OwnDeadlines, mutex
<1> QED BY <1>3, <1>4

LEMMA WaitInherits ==
    ASSUME Shape, Accounts, NEW t \in Worker, LockWait(t)
    PROVE  KeepsInherited /\ KeepsOwn
<1>1. /\ t \in Task /\ deadline \in [Task -> Time] /\ owner \in Task /\ owner # t
      /\ mutex_wait_list \in Pointer /\ next \in Links
      /\ UNCHANGED <<arrival, owner, original_deadline>>
  BY ShapeFacts DEF Worker, LockWait, Block, sched, Shape, TypeOK, Pointer
<1>2. deadline' = [deadline EXCEPT ![owner] =
                       IF deadline[t] < deadline[owner] THEN deadline[t] ELSE deadline[owner]]
  BY DEF LockWait
<1>3. \A s \in Task : /\ deadline[s] \in Int
                      /\ s # owner => deadline'[s] = deadline[s]
  BY <1>1, <1>2, ModulusAssumption DEF Time
<1>4. deadline'[owner] \in Int /\ deadline'[owner] <= deadline[owner]
      /\ deadline'[owner] <= deadline[t]
  BY <1>1, <1>2, <1>3
<1>5. KeepsInherited
  <2>1. SUFFICES ASSUME Inherited, NEW s \in Met(mutex_wait_list', next')
                 PROVE  deadline'[owner] <= deadline'[s]
    BY <1>1 DEF KeepsInherited, Inherited
  <2>2. Met(mutex_wait_list', next') \subseteq Met(mutex_wait_list, next) \cup {t}
    BY <1>1, AppendQueue DEF LockWait
  <2>3. s \in Task /\ deadline'[owner] <= deadline[s]
    BY <1>1, <1>3, <1>4, <2>1, <2>2, MetType DEF Inherited
  <2> QED BY <1>1, <1>3, <1>4, <2>3
<1>6. KeepsOwn
  <2>1. \A s \in Worker : s \in Task
    BY DEF Worker
  <2> QED BY <1>1, <1>3, <2>1 DEF KeepsOwn, OwnDeadlines
<1> QED BY <1>5, <1>6

LEMMA LockInherits ==
    ASSUME Shape, NEW t \in Worker, TakeLock(t) \/ Unlock(t)
    PROVE  \/ UNCHANGED <<deadline, mutex, next>>
           \/ KeepsInherited /\ KeepsOwn
<1>1. /\ t \in Task /\ t # NoTask /\ deadline \in [Task -> Time] /\ next \in Links
      /\ UNCHANGED <<arrival, next, mutex_wait_list>>
  BY TaskAssumption, ShapeFacts DEF Worker, TakeLock, Unlock, sched
<1>2. mutex_wait_list = NoTask => Inherited'
  BY <1>1, MetNull DEF Inherited
<1>3. CASE TakeLock(t) /\ owner = NoTask
  <2>1. owner' = t /\ original_deadline' = deadline[t] /\ deadline' = deadline
    BY <1>1, <1>3 DEF TakeLock
  <2>2. mutex_wait_list = NoTask
    BY <1>3 DEF Shape, NoIdleResource
  <2>3. \A s \in Worker : s # NoTask
    BY TaskAssumption DEF Worker
  <2> QED BY <1>1, <1>2, <1>3, <2>1, <2>2, <2>3 DEF KeepsInherited, KeepsOwn, OwnDeadlines
<1>4. CASE TakeLock(t) /\ owner = t
  BY <1>1, <1>4 DEF TakeLock, KeepsInherited, KeepsOwn, Inherited, OwnDeadlines
<1>5. CASE Unlock(t) /\ owner # t
  BY <1>5 DEF Unlock, mutex
<1>6. CASE Unlock(t) /\ owner = t /\ lock_count > 1
  <2>1. UNCHANGED <<deadline, owner, original_deadline>>
    BY <1>6 DEF Unlock, Shape, TypeOK
  <2> QED BY <1>1, <2>1 DEF KeepsInherited, KeepsOwn, Inherited, OwnDeadlines
<1>7. CASE Unlock(t) /\ owner = t /\ lock_count = 1
  <2>1. /\ mutex_wait_list = NoTask /\ owner' = NoTask
        /\ deadline' = [deadline EXCEPT ![t] = original_deadline]
    BY <1>7 DEF Unlock
  <2>2. \A s \in Worker : s # NoTask /\ s \in Task
    BY TaskAssumption DEF Worker
  <2> QED BY <1>1, <1>2, <1>7, <2>1, <2>2 DEF KeepsInherited, KeepsOwn, OwnDeadlines
<1> QED BY <1>3, <1>4, <1>5, <1>6, <1>7 DEF TakeLock, Unlock

LEMMA HandOverInherits ==
    ASSUME Shape, NEW t \in Worker, HandOver(t)
    PROVE  KeepsInherited /\ KeepsOwn
<1> DEFINE restored == [deadline EXCEPT ![t] = original_deadline]
           heir == FirstEarliest(Walk(mutex_wait_list, next),
                                 Met(mutex_wait_list, next), restored)
<1>1. /\ t \in Task /\ restored \in [Task -> Time] /\ mutex_wait_list \in Task
      /\ owner = t /\ deadline \in [Task -> Time] /\ next \in Links
  BY ShapeFacts DEF Worker, HandOver, Shape, TypeOK, Pointer
<1>2. /\ heir \in Met(mutex_wait_list, next) /\ heir \in Task
      /\ \A s \in Met(mutex_wait_list, next) : restored[heir] <= restored[s]
  BY <1>1, HeirMet
<1>3. /\ UnlinkWaiter(heir) /\ owner' = heir /\ original_deadline' = restored[heir]
      /\ deadline' = restored /\ arrival' = arrival
  BY DEF HandOver, sched
<1>4. \A s \in Task : restored[s] = IF s = t THEN original_deadline ELSE deadline[s]
  BY <1>1
<1> HIDE DEF heir, restored
<1>5. Inherited'
  <2>1. Met(mutex_wait_list', next') \subseteq Met(mutex_wait_list, next)
    BY <1>2, <1>3, UnlinkQueue
  <2> QED BY <1>2, <1>3, <2>1 DEF Inherited
<1>6. KeepsOwn
  <2>1. \A s \in Worker : s \in Task
    BY DEF Worker
  <2> QED BY <1>1, <1>3, <1>4, <2>1 DEF KeepsOwn, OwnDeadlines
<1> QED BY <1>5, <1>6 DEF KeepsInherited

(* Only a yield can leave the owner of the mutex less urgent than a task   *)
(* in its queue, until a blocking call returns early, and only a yield of  *)
(* the owner makes smart_mutex_unlock restore a deadline not its own.      *)
THEOREM Inheritance == Spec => InheritanceKept
<1>1. Shape /\ Accounts /\ [Next]_vars => [KeepsBoth]_vars
  <2> SUFFICES ASSUME Shape, Accounts, [Next]_vars
               PROVE  \/ UNCHANGED <<deadline, mutex, next>>
                      \/ KeepsInherited /\ KeepsOwn
                      \/ UNCHANGED vars
    BY DEF KeepsBoth
  <2>1. CASE SysTick \/ PendSV
    BY <2>1 DEF SysTick, PendSV
  <2>2. ASSUME NEW t \in Worker, TaskStep(t)
        PROVE  \/ UNCHANGED <<deadline, mutex, next>>
               \/ KeepsInherited /\ KeepsOwn
    <3>1. CASE Yield(t) \/ YieldQueued(t)
      BY <3>1, YieldInherits DEF Yield, YieldQueued
    <3>2. CASE Return(t) \/ ScanOutside(t) \/ StoreOutside(t) \/ TakeUnit(t) \/ PostUnit(t)
      BY <3>2 DEF Return, ScanOutside, StoreOutside, TakeUnit, PostUnit
    <3> QED BY <2>2, <3>1, <3>2, SemaphoreInherits, WaitInherits, LockInherits,
               HandOverInherits DEF TaskStep
  <2> QED BY <2>1, <2>2 DEF Next
<1> QED BY <1>1, Invariance, PTL DEF Spec, InheritanceKept
=============================================================================
