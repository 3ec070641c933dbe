-------------------------- MODULE SmartTimer_proofs --------------------------
(***************************************************************************)
(* The list of active timers and the counters of SmartTimer, for pools of  *)
(* any size and any periods, where each timer is used by one task only, as *)
(* in the repository.  With more the counters go wrong (MCTimerShared).    *)
(***************************************************************************)
EXTENDS SmartTimer, FiniteSetTheorems, TLAPS

-----------------------------------------------------------------------------
(* What follows from the links of a list, whoever set them.                *)

Links == [Timer -> Timer \cup {Null}]
Pointer == Timer \cup {Null}

(* Every set of timers is left by one of its links: there is no cycle. *)
AcyclicLinks(link) == \A S \in SUBSET Timer : S # {} => \E t \in S : link[t] \notin S

LEMMA ReachedClosed ==
    ASSUME NEW link \in Links, NEW h \in Pointer
    PROVE  /\ Reached(h, link) \subseteq Timer
           /\ h # Null => h \in Reached(h, link)
           /\ \A s \in Reached(h, link) : link[s] \in Reached(h, link) \cup {Null}
BY DEF Reached, Links, Pointer

(* Whatever contains the head and is closed under the links contains all. *)
LEMMA ReachedLeast ==
    ASSUME NEW link, NEW h, NEW S \in SUBSET Timer,
           h \in S \cup {Null}, \A s \in S : link[s] \in S \cup {Null}
    PROVE  Reached(h, link) \subseteq S
BY DEF Reached

LEMMA ReachedNull == \A link : Reached(Null, link) = {}
<1> TAKE link
<1> DEFINE S == {}
<1>1. /\ S \in SUBSET Timer /\ Null \in S \cup {Null}
      /\ \A s \in S : link[s] \in S \cup {Null}
  OBVIOUS
<1> HIDE DEF S
<1>2. Reached(Null, link) \subseteq S
  BY <1>1, ReachedLeast
<1> QED BY <1>2 DEF S

LEMMA Unfold ==
    ASSUME NEW link \in Links, NEW h \in Timer
    PROVE  Reached(h, link) = {h} \cup Reached(link[h], link)
<1>1. link[h] \in Pointer /\ h \in Pointer /\ h # Null
  BY NullAssumption DEF Links, Pointer
<1> DEFINE R == Reached(h, link)
           S == {h} \cup Reached(link[h], link)
<1>2. R \subseteq S
  <2>1. S \in SUBSET Timer
    BY <1>1, ReachedClosed
  <2>2. ASSUME NEW s \in S PROVE link[s] \in S \cup {Null}
    <3>1. CASE s = h
      BY <1>1, <3>1, ReachedClosed DEF Pointer
    <3>2. CASE s # h
      BY <1>1, <3>2, ReachedClosed DEF Pointer
    <3> QED BY <3>1, <3>2
  <2>3. h \in S \cup {Null}
    OBVIOUS
  <2> HIDE DEF S
  <2> QED BY <2>1, <2>2, <2>3, ReachedLeast
<1>3. h \in R /\ R \in SUBSET Timer /\ \A s \in R : link[s] \in R \cup {Null}
  BY <1>1, ReachedClosed
<1>4. Reached(link[h], link) \subseteq R
  BY <1>3, ReachedLeast
<1> QED BY <1>2, <1>3, <1>4

(* Links that are not met do not matter. *)
LEMMA Frame ==
    ASSUME NEW link \in Links, NEW other \in Links, NEW h \in Pointer,
           \A s \in Reached(h, link) : other[s] = link[s]
    PROVE  Reached(h, other) = Reached(h, link)
<1> DEFINE R == Reached(h, link)
           E == Reached(h, other)
<1>1. R \in SUBSET Timer /\ h \in R \cup {Null} /\ \A s \in R : link[s] \in R \cup {Null}
  BY ReachedClosed
<1>2. E \in SUBSET Timer /\ h \in E \cup {Null} /\ \A s \in E : other[s] \in E \cup {Null}
  BY ReachedClosed
<1>3. E \subseteq R
  <2>1. \A s \in R : other[s] \in R \cup {Null}
    BY <1>1
  <2> HIDE DEF R
  <2> QED BY <1>1, <2>1, ReachedLeast
<1>4. R \subseteq E
  <2>1. \A s \in E : link[s] \in E \cup {Null}
    BY <1>2, <1>3
  <2> HIDE DEF E
  <2> QED BY <1>2, <2>1, ReachedLeast
<1> QED BY <1>3, <1>4

(* Without cycles nothing is met twice. *)
LEMMA NoReturn ==
    ASSUME NEW link \in Links, AcyclicLinks(link), NEW h \in Timer
    PROVE  h \notin Reached(link[h], link)
<1> SUFFICES ASSUME h \in Reached(link[h], link) PROVE FALSE
  OBVIOUS
<1> DEFINE c == link[h]
           T == {y \in Reached(c, link) : h \in Reached(y, link)}
<1>1. c \in Timer
  BY ReachedNull DEF Links
<1>2. c \in T /\ T \in SUBSET Timer
  BY <1>1, ReachedClosed, NullAssumption DEF Pointer
<1>3. ASSUME NEW y \in T PROVE link[y] \in T
  <2>1. CASE y = h
    BY <1>2, <2>1
  <2>2. CASE y # h
    <3>1. y \in Timer /\ h \in Reached(link[y], link)
      BY <1>2, <2>2, Unfold
    <3>2. link[y] # Null
      BY <3>1, ReachedNull
    <3>3. link[y] \in Reached(c, link)
      BY <1>1, <3>2, ReachedClosed DEF Pointer
    <3> QED BY <3>1, <3>3
  <2> QED BY <2>1, <2>2
<1> QED BY <1>2, <1>3 DEF AcyclicLinks

(* A timer of a list is the successor of one timer of that list at most. *)
LEMMA OnePredecessor ==
    ASSUME NEW link \in Links, AcyclicLinks(link), NEW h \in Timer,
           NEW s \in Reached(h, link), NEW u \in Reached(h, link),
           link[s] = link[u], link[s] # Null
    PROVE  s = u
<1> SUFFICES ASSUME s # u PROVE FALSE
  OBVIOUS
<1> DEFINE T == {x \in Reached(h, link) : s \in Reached(x, link) /\ u \in Reached(x, link)}
<1>1. h \in T /\ T \in SUBSET Timer
  BY ReachedClosed, NullAssumption DEF Pointer
<1>2. ASSUME NEW x \in T PROVE link[x] \in T
  <2>1. x \in Timer
    BY <1>1
  <2>2. x # s
    <3>1. SUFFICES ASSUME x = s PROVE FALSE
      OBVIOUS
    <3>2. u \in Reached(link[u], link)
      BY <2>1, <3>1, Unfold
    <3> QED BY <1>1, <3>2, NoReturn, ReachedClosed DEF Pointer
  <2>3. x # u
    <3>1. SUFFICES ASSUME x = u PROVE FALSE
      OBVIOUS
    <3>2. s \in Reached(link[s], link)
      BY <2>1, <3>1, Unfold
    <3> QED BY <1>1, <3>2, NoReturn, ReachedClosed DEF Pointer
  <2>4. s \in Reached(link[x], link) /\ u \in Reached(link[x], link)
    BY <2>1, <2>2, <2>3, Unfold
  <2>5. link[x] # Null
    BY <2>4, ReachedNull
  <2>6. link[x] \in Reached(h, link)
    BY <2>5, ReachedClosed DEF Pointer
  <2> QED BY <2>4, <2>6
<1> QED BY <1>1, <1>2 DEF AcyclicLinks

(* A timer that is cut out: its predecessors on the list get its successor. *)
LEMMA Cut ==
    ASSUME NEW link \in Links, AcyclicLinks(link), NEW h \in Pointer, NEW t \in Timer,
           NEW other \in Links,
           \A s \in Reached(h, link) \ {t} :
               other[s] = IF link[s] = t THEN link[t] ELSE link[s]
    PROVE  Reached(IF h = t THEN link[t] ELSE h, other) = Reached(h, link) \ {t}
<1> DEFINE g == IF h = t THEN link[t] ELSE h
           R == Reached(h, link)
           E == Reached(g, other)
<1>1. R \in SUBSET Timer /\ h \in R \cup {Null} /\ \A s \in R : link[s] \in R \cup {Null}
  BY ReachedClosed
<1>2. link[t] # t /\ link[t] \in Pointer
  <2>1. {t} \in SUBSET Timer /\ {t} # {}
    OBVIOUS
  <2>2. link[t] \notin {t}
    BY <2>1 DEF AcyclicLinks
  <2> QED BY <2>2 DEF Links, Pointer
<1>3. g \in Pointer
  BY <1>2
<1>4. E \in SUBSET Timer /\ g \in E \cup {Null} /\ \A s \in E : other[s] \in E \cup {Null}
  BY <1>3, ReachedClosed
<1>5. E \subseteq R \ {t}
  <2> DEFINE S == R \ {t}
  <2>1. S \in SUBSET Timer
    BY <1>1
  <2>2. g \in S \cup {Null}
    <3> HIDE DEF R
    <3>1. CASE h = t
      BY <1>1, <1>2, <3>1, NullAssumption
    <3>2. CASE h # t
      BY <1>1, <3>2
    <3> QED BY <3>1, <3>2
  <2>3. ASSUME NEW s \in S PROVE other[s] \in S \cup {Null}
    <3>1. other[s] = IF link[s] = t THEN link[t] ELSE link[s]
      OBVIOUS
    <3>2. link[s] \in R \cup {Null} /\ (t \in R => link[t] \in R \cup {Null})
      BY <1>1
    <3> HIDE DEF R
    <3>3. CASE link[s] = t
      BY <1>2, <3>1, <3>2, <3>3, NullAssumption
    <3>4. CASE link[s] # t
      BY <3>1, <3>2, <3>4
    <3> QED BY <3>3, <3>4
  <2> HIDE DEF S, g
  <2>4. Reached(g, other) \subseteq S
    BY <2>1, <2>2, <2>3, ReachedLeast
  <2> QED BY <2>4 DEF S
<1>6. R \subseteq E \cup {t}
  <2>1. CASE link[t] \in E \cup {Null}
    <3> DEFINE S == E \cup {t}
    <3>1. S \in SUBSET Timer /\ h \in S \cup {Null}
      BY <1>4
    <3>2. \A s \in S : link[s] \in S \cup {Null}
      BY <1>4, <1>5, <2>1
    <3> HIDE DEF S
    <3>3. Reached(h, link) \subseteq S
      BY <3>1, <3>2, ReachedLeast
    <3> QED BY <3>3 DEF S
  <2>2. CASE link[t] \notin E \cup {Null}
    <3>1. h # t
      BY <1>4, <2>2
    <3>2. \A s \in E : link[s] # t /\ link[s] = other[s]
      BY <1>4, <1>5, <2>2
    <3>3. h \in E \cup {Null} /\ \A s \in E : link[s] \in E \cup {Null}
      BY <1>4, <3>1, <3>2
    <3> HIDE DEF E
    <3> QED BY <1>4, <3>3, ReachedLeast
  <2> QED BY <2>1, <2>2
<1> QED BY <1>5, <1>6

(* Links that are cleared or skip over t make no cycle. *)
LEMMA SkipAcyclic ==
    ASSUME NEW link \in Links, AcyclicLinks(link), NEW t \in Timer, NEW other \in Links,
           \A s \in Timer : \/ other[s] = link[s]
                            \/ other[s] = Null
                            \/ s # t /\ link[s] = t /\ other[s] = link[t]
    PROVE  AcyclicLinks(other)
<1> SUFFICES ASSUME NEW S \in SUBSET Timer, S # {}, \A s \in S : other[s] \in S
             PROVE  FALSE
  BY DEF AcyclicLinks
<1>1. \A s \in S : other[s] # Null
  BY NullAssumption
<1>2. PICK s \in S : link[s] \notin S
  BY DEF AcyclicLinks
<1>3. link[s] = t /\ link[t] \in S /\ t \notin S
  BY <1>1, <1>2
<1>4. \A x \in S \cup {t} : link[x] \in S \cup {t}
  BY <1>1, <1>3
<1> QED BY <1>4 DEF AcyclicLinks

(* Nor do links that are only cleared. *)
LEMMA ClearAcyclic ==
    ASSUME NEW link \in Links, AcyclicLinks(link), NEW other \in Links,
           \A s \in Timer : other[s] = link[s] \/ other[s] = Null
    PROVE  AcyclicLinks(other)
<1> SUFFICES ASSUME NEW S \in SUBSET Timer, S # {}, \A s \in S : other[s] \in S
             PROVE  FALSE
  BY DEF AcyclicLinks
<1>1. \A s \in S : link[s] \in S
  BY NullAssumption
<1> QED BY <1>1 DEF AcyclicLinks

(* A timer put in front of a list it is not on makes no cycle. *)
LEMMA PushAcyclic ==
    ASSUME NEW link \in Links, AcyclicLinks(link), NEW h \in Pointer, NEW t \in Timer,
           t \notin Reached(h, link)
    PROVE  AcyclicLinks([link EXCEPT ![t] = h])
<1> DEFINE other == [link EXCEPT ![t] = h]
<1> SUFFICES ASSUME NEW S \in SUBSET Timer, S # {}, \A s \in S : other[s] \in S
             PROVE  FALSE
  BY DEF AcyclicLinks
<1>1. \A s \in Timer : other[s] = IF s = t THEN h ELSE link[s]
  BY DEF Links
<1> HIDE DEF other
<1>2. CASE t \notin S
  BY <1>1, <1>2 DEF AcyclicLinks
<1>3. CASE t \in S
  <2> DEFINE T == S \cap Reached(h, link)
  <2>1. h \in S /\ h # Null
    BY <1>1, <1>3, NullAssumption
  <2>2. h \in T /\ T \in SUBSET Timer
    BY <2>1, ReachedClosed
  <2>3. \A x \in T : link[x] \in T
    BY <1>1, ReachedClosed, NullAssumption
  <2> QED BY <2>2, <2>3 DEF AcyclicLinks
<1> QED BY <1>2, <1>3

(* That timer is met first, then the list. *)
LEMMA PushReached ==
    ASSUME NEW link \in Links, NEW h \in Pointer, NEW t \in Timer, t \notin Reached(h, link)
    PROVE  Reached(t, [link EXCEPT ![t] = h]) = {t} \cup Reached(h, link)
<1> DEFINE other == [link EXCEPT ![t] = h]
<1>1. other \in Links /\ \A s \in Timer : other[s] = IF s = t THEN h ELSE link[s]
  BY DEF Links, Pointer
<1> HIDE DEF other
<1>2. Reached(t, other) = {t} \cup Reached(h, other)
  BY <1>1, Unfold
<1>3. Reached(h, other) = Reached(h, link)
  BY <1>1, ReachedClosed, Frame
<1> QED BY <1>2, <1>3 DEF other

(* Nothing on a list points to its head. *)
LEMMA HeadFirst ==
    ASSUME NEW link \in Links, AcyclicLinks(link), NEW h \in Timer,
           NEW s \in Reached(h, link)
    PROVE  link[s] # h
<1> SUFFICES ASSUME link[s] = h PROVE FALSE
  OBVIOUS
<1>1. s \in Timer
  BY ReachedClosed DEF Pointer
<1>2. CASE s = h
  <2>1. h \notin Reached(h, link)
    BY <1>2, NoReturn
  <2> QED BY <1>2, <2>1
<1>3. CASE s # h
  <2>1. s \in Reached(link[h], link)
    BY <1>3, Unfold
  <2>2. link[h] \in Pointer
    BY DEF Links, Pointer
  <2>3. h \in Reached(link[h], link)
    BY <2>1, <2>2, ReachedClosed, NullAssumption
  <2> QED BY <2>3, NoReturn
<1> QED BY <1>2, <1>3

(* The counters: a set of timers that gains or loses one. *)
LEMMA Counting ==
    ASSUME NEW A \in SUBSET Timer
    PROVE  /\ Cardinality(A) \in 0 .. MaxTimers
           /\ \A t \in Timer \ A : Cardinality(A \cup {t}) = Cardinality(A) + 1
           /\ \A t \in A : Cardinality(A \ {t}) = Cardinality(A) - 1
<1>1. IsFiniteSet(Timer) /\ Cardinality(Timer) = MaxTimers
  BY MaxTimersAssumption, FS_Interval DEF Timer
<1>2. IsFiniteSet(A) /\ Cardinality(A) <= MaxTimers /\ Cardinality(A) \in Nat
  BY <1>1, FS_Subset, FS_CardinalityType
<1> QED BY <1>2, FS_AddElement, FS_RemoveElement, MaxTimersAssumption

-----------------------------------------------------------------------------
(* The invariant.                                                          *)

(* At most one delete is under way on a timer. *)
Deletes == [Timer -> {0, 1}]

(* TypeOK but for the range of the counters, which follows from what they  *)
(* count.                                                                  *)
Types ==
    /\ used \in [Timer -> BOOLEAN]
    /\ type \in [Timer -> {"ONE_SHOT", "PERIODIC"}]
    /\ state \in [Timer -> {"STOPPED", "RUNNING", "EXPIRED"}]
    /\ period_ms \in [Timer -> Periods \cup {0}]
    /\ remaining_ms \in [Timer -> Nat]
    /\ next \in Links
    /\ active_timer_list \in Pointer
    /\ cursor \in Pointer
    /\ prev \in Pointer
    /\ in_callback \in BOOLEAN
    /\ deleting \in Deletes
    /\ age \in [Timer -> Nat] /\ span \in [Timer -> Nat]

(* A control block in each of its states. *)
Pool ==
    \A t \in Timer :
        /\ used[t] => period_ms[t] \in Periods
        /\ deleting[t] = 1 => used[t] /\ state[t] # "RUNNING"
        /\ ~used[t] => state[t] = "STOPPED"
        /\ state[t] = "EXPIRED" => age[t] = span[t]

(* The timers on the list have time left. *)
OnList == \A t \in Listed : used[t] /\ state[t] = "RUNNING" /\ remaining_ms[t] > 0

(* A running timer may be missing from the list only if it is periodic. *)
OneShots ==
    \A t \in Timer : state[t] = "RUNNING" /\ type[t] = "ONE_SHOT" => t \in Listed

(* The next entry of the walk, and those it has still to visit. *)
Ahead == IF in_callback THEN next[cursor] ELSE cursor
Unvisited == Reached(Ahead, next)

(***************************************************************************)
(* The walk stands on the list, prev right before the next entry.  Without *)
(* a prev what the walk has left behind are re-armed periodic timers: they *)
(* are what an expiry drops from the list.                                 *)
(***************************************************************************)
WalkInv ==
    /\ Idle => prev = Null
    /\ in_callback => /\ cursor # Null /\ cursor \notin Listed /\ deleting[cursor] = 0
                      /\ used[cursor] /\ state[cursor] = "EXPIRED"
    /\ Ahead \in Listed \cup {Null}
    /\ prev # Null => prev \in Listed /\ next[prev] = Ahead
    /\ ~Idle /\ prev = Null => \A t \in Listed \ Unvisited : type[t] = "PERIODIC"

(* A timer is behind its ticks by one until the walk has visited it. *)
Times ==
    \A t \in Listed :
        remaining_ms[t] + age[t] = IF t \in Unvisited THEN span[t] + 1 ELSE span[t]

IInv ==
    /\ Sharers = 1
    /\ Types /\ CountsAgree /\ AcyclicLinks(next)
    /\ Pool /\ OnList /\ OneShots /\ WalkInv /\ Times

LEMMA InitCase ==
    ASSUME Sharers = 1, Init
    PROVE  IInv
<1>1. Listed = {} /\ Unvisited = {}
  BY ReachedNull DEF Init, Listed, Unvisited, Ahead
<1>2. Types
  BY DEF Init, Types, Links, Pointer, Deletes
<1>3. CountsAgree
  <2>1. /\ {t \in Timer : state[t] = "RUNNING"} = {}
        /\ {t \in Timer : used[t]} = {}
    BY DEF Init
  <2> QED BY <2>1, FS_EmptySet DEF Init, CountsAgree
<1>4. AcyclicLinks(next)
  BY NullAssumption DEF Init, AcyclicLinks
<1>5. Pool /\ OnList /\ OneShots /\ Times
  BY <1>1 DEF Init, Pool, OnList, OneShots, Times
<1>6. WalkInv
  BY <1>1 DEF Init, WalkInv, Idle, Ahead
<1> QED BY <1>2, <1>3, <1>4, <1>5, <1>6 DEF IInv

(* The list and the walk of a state of the invariant. *)
LEMMA OnTheList ==
    ASSUME Types
    PROVE  /\ Listed \subseteq Timer
           /\ active_timer_list # Null => active_timer_list \in Listed
           /\ \A t \in Listed : next[t] \in Listed \cup {Null}
           /\ active_timer_list = Null => Listed = {}
BY ReachedClosed, ReachedNull DEF Types, Listed

(* A call finds no walk under way and leaves it so. *)
LEMMA CallWalk ==
    ASSUME IInv, Idle, UNCHANGED walk
    PROVE  /\ \A t \in Listed : remaining_ms[t] + age[t] = span[t]
           /\ Unvisited' = {}
           /\ WalkInv'
<1>1. ~in_callback /\ prev = Null /\ cursor = Null
  BY DEF IInv, WalkInv, Idle
<1>2. Unvisited = {}
  BY <1>1, ReachedNull DEF Unvisited, Ahead
<1>3. cursor' = Null /\ prev' = Null /\ in_callback' = FALSE
  BY <1>1 DEF walk, IInv, Types
<1>4. Ahead' = Null
  BY <1>3 DEF Ahead
<1>5. Unvisited' = {}
  BY <1>4, ReachedNull DEF Unvisited
<1> QED BY <1>2, <1>3, <1>4, <1>5 DEF IInv, Times, WalkInv, Idle

(* Taking t off the list takes off nothing else. *)
LEMMA UnlinkCase ==
    ASSUME Types, AcyclicLinks(next), NEW t \in Timer, Unlink(t, Null)
    PROVE  /\ next' \in Links /\ active_timer_list' \in Pointer
           /\ AcyclicLinks(next')
           /\ Listed' = Listed \ {t}
<1>1. next \in Links /\ active_timer_list \in Pointer /\ next[t] \in Pointer
  BY DEF Types, Links, Pointer
<1>2. /\ active_timer_list' = IF active_timer_list = t THEN next[t] ELSE active_timer_list
      /\ next' = [s \in Timer |->
                     IF s = t THEN Null
                     ELSE IF active_timer_list # t /\ s \in Listed /\ next[s] = t
                          THEN next[t] ELSE next[s]]
  BY DEF Unlink
<1>3. next' \in Links /\ active_timer_list' \in Pointer
  BY <1>1, <1>2 DEF Links, Pointer
<1>4. AcyclicLinks(next')
  BY <1>1, <1>2, <1>3, SkipAcyclic
<1>5. ASSUME NEW s \in Listed \ {t}
      PROVE  next'[s] = IF next[s] = t THEN next[t] ELSE next[s]
  <2>1. s \in Timer
    BY OnTheList
  <2>2. active_timer_list = t => next[s] # t
    BY <1>1, HeadFirst DEF Listed
  <2> QED BY <1>2, <2>1, <2>2
<1>6. Listed' = Listed \ {t}
  <2>1. Reached(active_timer_list', next') = Reached(active_timer_list, next) \ {t}
    BY <1>1, <1>2, <1>3, <1>5, Cut DEF Listed
  <2> QED BY <2>1 DEF Listed
<1> QED BY <1>3, <1>4, <1>6

(* One timer of the pool becomes RUNNING, or is it no longer. *)
Running == {t \in Timer : state[t] = "RUNNING"}
Used == {t \in Timer : used[t]}

LEMMA Counters ==
    ASSUME CountsAgree, NEW t \in Timer
    PROVE  /\ (/\ Running' = Running \cup {t} /\ t \notin Running
               /\ active_timers' = active_timers + 1
               /\ Used' = Used /\ total_timers' = total_timers) => CountsAgree'
           /\ (/\ Running' = Running \ {t} /\ t \in Running
               /\ active_timers' = active_timers - 1
               /\ Used' = Used /\ total_timers' = total_timers) => CountsAgree'
           /\ (/\ Running' = Running /\ active_timers' = active_timers
               /\ Used' = Used /\ total_timers' = total_timers) => CountsAgree'
           /\ (/\ Running' = Running /\ active_timers' = active_timers
               /\ Used' = Used \cup {t} /\ t \notin Used
               /\ total_timers' = total_timers + 1) => CountsAgree'
           /\ (/\ Running' = Running /\ active_timers' = active_timers
               /\ Used' = Used \ {t} /\ t \in Used
               /\ total_timers' = total_timers - 1) => CountsAgree'
<1>1. Running \in SUBSET Timer /\ Used \in SUBSET Timer
  BY DEF Running, Used
<1>2. active_timers = Cardinality(Running) /\ total_timers = Cardinality(Used)
  BY DEF CountsAgree, Running, Used
<1>3. CountsAgree' <=> /\ active_timers' = Cardinality(Running')
                       /\ total_timers' = Cardinality(Used')
  BY DEF CountsAgree, Running, Used
<1> QED BY <1>1, <1>2, <1>3, Counting

-----------------------------------------------------------------------------
(* The calls of the tasks.                                                 *)

LEMMA CreateCase ==
    ASSUME IInv, NEW t \in Timer, NEW kind \in {"ONE_SHOT", "PERIODIC"},
           NEW period \in Periods, Create(t, kind, period)
    PROVE  IInv'
<1>1. /\ Idle /\ ~used[t] /\ state[t] = "STOPPED" /\ deleting[t] = 0
      /\ t \notin Listed
  BY DEF Create, IInv, Types, Pool, OnList, Deletes
<1>2. Types'
  BY PeriodsAssumption DEF IInv, Create, Types, walk, ghosts, Links, Pointer
<1>3. AcyclicLinks(next')
  <2>1. next \in Links /\ next' \in Links
    BY <1>2 DEF IInv, Types
  <2>2. \A s \in Timer : next'[s] = next[s] \/ next'[s] = Null
    BY <2>1 DEF Create, Links
  <2>3. AcyclicLinks(next)
    BY DEF IInv
  <2> QED BY <2>1, <2>2, <2>3, ClearAcyclic
<1>4. Listed' = Listed
  <2>1. next \in Links /\ next' \in Links /\ active_timer_list \in Pointer
    BY <1>2 DEF IInv, Types
  <2>2. \A s \in Listed : next'[s] = next[s]
    BY <1>1, <2>1, OnTheList DEF IInv, Create, Links
  <2>3. Reached(active_timer_list, next') = Reached(active_timer_list, next)
    BY <2>1, <2>2, Frame DEF Listed
  <2> QED BY <2>3 DEF Create, Listed
<1>5. WalkInv' /\ Unvisited' = {} /\ \A s \in Listed : remaining_ms[s] + age[s] = span[s]
  BY <1>1, CallWalk DEF Create
<1>6. CountsAgree'
  <2>1. Running' = Running
    BY <1>1 DEF Running, Create, IInv, Types
  <2>2. Used' = Used \cup {t} /\ t \notin Used
    BY <1>1 DEF Used, Create, IInv, Types
  <2> QED BY <2>1, <2>2, Counters DEF IInv, Create
<1>7. Pool'
  BY <1>1 DEF IInv, Types, Create, Pool, ghosts
<1>8. OnList' /\ OneShots' /\ Times'
  BY <1>1, <1>4, <1>5, OnTheList
     DEF IInv, Types, Create, OnList, OneShots, Times, ghosts
<1> QED BY <1>2, <1>3, <1>5, <1>6, <1>7, <1>8 DEF IInv

LEMMA StartCase ==
    ASSUME IInv, NEW t \in Timer, Start(t)
    PROVE  IInv'
<1>1. /\ Idle /\ used[t] /\ deleting[t] = 0 /\ state[t] # "RUNNING"
      /\ t \notin Listed /\ period_ms[t] \in Periods
  BY DEF Start, Live, IInv, Types, Pool, OnList, Deletes
<1>2. period_ms[t] \in Nat \ {0}
  BY <1>1, PeriodsAssumption
<1>3. Types'
  BY <1>2 DEF IInv, Start, Arm, ArmAs, Types, walk, Links, Pointer
<1>4. AcyclicLinks(next')
  BY <1>1, PushAcyclic DEF IInv, Types, Start, Arm, ArmAs, Listed
<1>5. Listed' = {t} \cup Listed
  BY <1>1, PushReached DEF IInv, Types, Start, Arm, ArmAs, Listed
<1>6. WalkInv' /\ Unvisited' = {} /\ \A s \in Listed : remaining_ms[s] + age[s] = span[s]
  BY <1>1, CallWalk DEF Start
<1>7. CountsAgree'
  <2>1. Running' = Running \cup {t} /\ t \notin Running
    BY <1>1 DEF Running, Start, Arm, ArmAs, IInv, Types
  <2>2. Used' = Used
    BY DEF Used, Start
  <2> QED BY <2>1, <2>2, Counters DEF IInv, Start, Arm, ArmAs
<1>8. Pool'
  BY <1>1 DEF IInv, Types, Start, Arm, ArmAs, Pool
<1>9. OnList' /\ OneShots'
  BY <1>1, <1>2, <1>5, OnTheList DEF IInv, Types, Start, Arm, ArmAs, OnList, OneShots
<1>10. Times'
  BY <1>1, <1>2, <1>5, <1>6, OnTheList DEF IInv, Types, Start, Arm, ArmAs, Times
<1> QED BY <1>3, <1>4, <1>6, <1>7, <1>8, <1>9, <1>10 DEF IInv

(* smart_timer_stop, and smart_timer_delete, which begins with it. *)
LEMMA StopCase ==
    ASSUME IInv, NEW t \in Timer, Stop(t) \/ Delete(t)
    PROVE  IInv'
<1>1. /\ Idle /\ used[t] /\ StopBody(t)
      /\ UNCHANGED <<used, type, period_ms, remaining_ms, total_timers, walk>>
      /\ deleting' \in {deleting, [deleting EXCEPT ![t] = 1]}
  BY DEF Stop, Delete, Live, IInv, Types, Deletes
<1>2. WalkInv' /\ Unvisited' = {} /\ \A s \in Listed : remaining_ms[s] + age[s] = span[s]
  BY <1>1, CallWalk
<1>3. CASE state[t] = "RUNNING"
  <2>1. /\ Unlink(t, Null)
        /\ state' = [state EXCEPT ![t] = "STOPPED"]
        /\ active_timers' = active_timers - 1
        /\ age' = [age EXCEPT ![t] = 0]
        /\ span' = [span EXCEPT ![t] = 0]
    BY <1>1, <1>3 DEF StopBody, Forget
  <2>2. /\ next' \in Links /\ active_timer_list' \in Pointer
        /\ AcyclicLinks(next')
        /\ Listed' = Listed \ {t}
    BY <2>1, UnlinkCase DEF IInv
  <2>3. Types'
    BY <1>1, <2>1, <2>2 DEF IInv, Types, walk, Deletes
  <2>4. CountsAgree'
    <3>1. Running' = Running \ {t} /\ t \in Running
      BY <1>3, <2>1 DEF Running, IInv, Types
    <3>2. Used' = Used
      BY <1>1 DEF Used
    <3> QED BY <1>1, <2>1, <3>1, <3>2, Counters DEF IInv
  <2>5. Pool'
    BY <1>1, <2>1 DEF IInv, Types, Pool, Deletes
  <2>6. OnList' /\ OneShots' /\ Times'
    BY <1>1, <1>2, <2>1, <2>2, OnTheList DEF IInv, Types, OnList, OneShots, Times
  <2> QED BY <1>2, <2>2, <2>3, <2>4, <2>5, <2>6 DEF IInv
<1>4. CASE state[t] # "RUNNING"
  <2>1. UNCHANGED <<list, state, active_timers, ghosts>>
    BY <1>1, <1>4 DEF StopBody
  <2>2. Listed' = Listed
    BY <2>1 DEF list, Listed
  <2>3. Types' /\ AcyclicLinks(next')
    BY <1>1, <2>1 DEF IInv, Types, walk, list, ghosts, Deletes
  <2>4. CountsAgree'
    BY <1>1, <2>1 DEF IInv, CountsAgree
  <2>5. Pool'
    BY <1>1, <1>4, <2>1 DEF IInv, Types, Pool, ghosts, Deletes
  <2>6. OnList' /\ OneShots' /\ Times'
    BY <1>1, <1>2, <2>1, <2>2, OnTheList DEF IInv, Types, OnList, OneShots, Times, ghosts
  <2> QED BY <1>2, <2>3, <2>4, <2>5, <2>6 DEF IInv
<1> QED BY <1>3, <1>4

LEMMA ResetCase ==
    ASSUME IInv, NEW t \in Timer, Reset(t)
    PROVE  IInv'
<1>1. Idle /\ state[t] # "RUNNING" /\ used[t] /\ t \notin Listed
  BY DEF Reset, Live, IInv, OnList
<1>2. period_ms[t] \in Nat
  BY <1>1, PeriodsAssumption DEF IInv, Pool
<1>3. Listed' = Listed
  BY DEF Reset, list, Listed
<1>4. Types' /\ AcyclicLinks(next')
  BY <1>2 DEF IInv, Reset, Forget, Types, walk, list
<1>5. WalkInv' /\ Unvisited' = {} /\ \A s \in Listed : remaining_ms[s] + age[s] = span[s]
  BY <1>1, CallWalk DEF Reset
<1>6. CountsAgree'
  <2>1. Running' = Running /\ Used' = Used
    BY <1>1 DEF Running, Used, Reset, IInv, Types
  <2> QED BY <2>1, Counters DEF IInv, Reset, counts
<1>7. Pool'
  BY <1>1 DEF IInv, Types, Reset, Forget, Pool
<1>8. OnList' /\ OneShots' /\ Times'
  BY <1>1, <1>3, <1>5, OnTheList
     DEF IInv, Types, Reset, Forget, OnList, OneShots, Times
<1> QED BY <1>4, <1>5, <1>6, <1>7, <1>8 DEF IInv

LEMMA SetPeriodCase ==
    ASSUME IInv, NEW t \in Timer, NEW period \in Periods, SetPeriod(t, period)
    PROVE  IInv'
<1>1. Idle /\ used[t] /\ (state[t] = "STOPPED" => t \notin Listed)
  BY DEF SetPeriod, Live, IInv, OnList
<1>2. Listed' = Listed
  BY DEF SetPeriod, list, Listed
<1>3. Types' /\ AcyclicLinks(next')
  BY PeriodsAssumption DEF IInv, SetPeriod, Types, walk, list, ghosts
<1>4. WalkInv' /\ Unvisited' = {} /\ \A s \in Listed : remaining_ms[s] + age[s] = span[s]
  BY <1>1, CallWalk DEF SetPeriod
<1>5. CountsAgree'
  BY DEF IInv, CountsAgree, SetPeriod, counts
<1>6. Pool'
  BY DEF IInv, Types, SetPeriod, Pool, ghosts
<1>7. \A s \in Listed : remaining_ms'[s] = remaining_ms[s]
  BY <1>1, OnTheList DEF IInv, Types, SetPeriod
<1>8. OnList' /\ OneShots' /\ Times'
  BY <1>2, <1>4, <1>7, OnTheList
     DEF IInv, Types, SetPeriod, OnList, OneShots, Times, ghosts
<1> QED BY <1>3, <1>4, <1>5, <1>6, <1>8 DEF IInv

LEMMA FreeCase ==
    ASSUME IInv, NEW t \in Timer, Free(t)
    PROVE  IInv'
<1>1. Idle /\ deleting[t] = 1 /\ used[t] /\ state[t] # "RUNNING" /\ t \notin Listed
  BY DEF Free, IInv, Types, Pool, OnList, Deletes
<1>2. /\ next' \in Links /\ active_timer_list' \in Pointer
      /\ AcyclicLinks(next')
      /\ Listed' = Listed
  BY <1>1, UnlinkCase DEF IInv, Free
<1>3. Types'
  BY <1>1, <1>2 DEF IInv, Free, Forget, Types, walk, Deletes
<1>4. WalkInv' /\ Unvisited' = {} /\ \A s \in Listed : remaining_ms[s] + age[s] = span[s]
  BY <1>1, CallWalk DEF Free
<1>5. CountsAgree'
  <2>1. Running' = Running
    BY <1>1 DEF Running, Free, IInv, Types
  <2>2. Used' = Used \ {t} /\ t \in Used
    BY <1>1 DEF Used, Free, IInv, Types
  <2> QED BY <2>1, <2>2, Counters DEF IInv, Free
<1>6. Pool'
  BY <1>1 DEF IInv, Types, Free, Forget, Pool, Deletes
<1>7. OnList' /\ OneShots' /\ Times'
  BY <1>1, <1>2, <1>4, OnTheList
     DEF IInv, Types, Free, Forget, OnList, OneShots, Times
<1> QED BY <1>2, <1>3, <1>4, <1>5, <1>6, <1>7 DEF IInv

-----------------------------------------------------------------------------
(* The walk of the tick.                                                   *)

LEMMA BeginTickCase ==
    ASSUME IInv, BeginTick
    PROVE  IInv'
<1>1. Idle /\ ~in_callback /\ prev = Null /\ cursor = Null
  BY DEF BeginTick, IInv, WalkInv, Idle
<1>2. Listed' = Listed
  BY DEF BeginTick, list, Listed
<1>3. ~in_callback' /\ Ahead' = active_timer_list
  BY <1>1 DEF BeginTick, Ahead
<1>4. Unvisited' = Listed
  BY <1>3 DEF BeginTick, list, Unvisited, Listed
<1>5. Unvisited = {}
  BY <1>1, ReachedNull DEF Unvisited, Ahead
<1>6. Types' /\ AcyclicLinks(next')
  <2>1. age' \in [Timer -> Nat]
    BY DEF IInv, BeginTick, Types
  <2>2. cursor' \in Pointer /\ prev' \in Pointer
    BY DEF IInv, BeginTick, Types, Pointer
  <2> QED BY <2>1, <2>2 DEF IInv, BeginTick, Types, blocks, list
<1>7. CountsAgree'
  BY DEF IInv, CountsAgree, BeginTick, blocks, counts
<1>8. Pool' /\ OnList' /\ OneShots'
  BY <1>2, OnTheList
     DEF IInv, Types, BeginTick, Pool, OnList, OneShots, blocks
<1>9. WalkInv'
  BY <1>2, <1>3, <1>4, OnTheList DEF IInv, Types, BeginTick, WalkInv, Idle
<1>10. Times'
  <2>1. SUFFICES ASSUME NEW t \in Listed PROVE remaining_ms'[t] + age'[t] = span'[t] + 1
    BY <1>2, <1>4 DEF Times
  <2>2. t \in Timer /\ state[t] = "RUNNING" /\ remaining_ms[t] > 0
    BY OnTheList DEF IInv, OnList
  <2>3. remaining_ms[t] + age[t] = span[t]
    BY <1>5 DEF IInv, Times
  <2>4. remaining_ms[t] \in Nat /\ age[t] \in Nat /\ span[t] \in Nat
    BY <2>2 DEF IInv, Types
  <2>5. age[t] < span[t]
    BY <2>2, <2>3, <2>4
  <2>6. age'[t] = age[t] + 1 /\ remaining_ms'[t] = remaining_ms[t] /\ span'[t] = span[t]
    BY <2>2, <2>5 DEF BeginTick, blocks
  <2> QED BY <2>3, <2>4, <2>6
<1> QED BY <1>6, <1>7, <1>8, <1>9, <1>10 DEF IInv

(* Where a walk stands that has an entry before it. *)
LEMMA AtEntry ==
    ASSUME IInv, ~Idle, ~in_callback
    PROVE  /\ cursor \in Timer /\ cursor \in Listed
           /\ Unvisited = Reached(cursor, next)
           /\ Reached(next[cursor], next) = Unvisited \ {cursor}
           /\ cursor \in Unvisited /\ Unvisited \subseteq Listed
           /\ next[cursor] \in (Listed \ {cursor}) \cup {Null}
           /\ state[cursor] = "RUNNING" /\ remaining_ms[cursor] \in Nat \ {0}
           /\ active_timer_list \in Timer
<1>1. cursor \in Listed /\ Unvisited = Reached(cursor, next)
  BY DEF IInv, WalkInv, Idle, Unvisited, Ahead
<1>2. cursor \in Timer /\ next \in Links /\ AcyclicLinks(next)
  BY <1>1, OnTheList DEF IInv, Types
<1>3. cursor \notin Reached(next[cursor], next)
  BY <1>2, NoReturn
<1>4. Unvisited = {cursor} \cup Reached(next[cursor], next)
  BY <1>1, <1>2, Unfold
<1>5. Unvisited \subseteq Listed
  BY <1>1, <1>2, OnTheList, ReachedLeast DEF IInv
<1>6. next[cursor] # cursor
  BY <1>2, <1>3, ReachedClosed, NullAssumption DEF Links, Pointer
<1>7. next[cursor] \in Listed \cup {Null}
  BY <1>1, OnTheList DEF IInv
<1>8. state[cursor] = "RUNNING" /\ remaining_ms[cursor] \in Nat \ {0}
  BY <1>1, <1>2 DEF IInv, OnList, Types
<1>9. active_timer_list \in Timer
  BY <1>1, OnTheList DEF IInv, Types, Pointer
<1> QED BY <1>1, <1>2, <1>3, <1>4, <1>5, <1>6, <1>7, <1>8, <1>9

LEMMA CountDownCase ==
    ASSUME IInv, CountDown
    PROVE  IInv'
<1>1. ~Idle /\ ~in_callback /\ ~in_callback'
  BY DEF CountDown
<1>2. /\ Listed' = Listed /\ next' = next
      /\ Ahead' = next[cursor]
  BY <1>1 DEF CountDown, Advance, list, Listed, Ahead
<1>3. Unvisited' = Unvisited \ {cursor}
  BY <1>1, <1>2, AtEntry DEF Unvisited
<1>4. /\ remaining_ms[cursor] - 1 \in Nat \ {0}
      /\ remaining_ms' = [remaining_ms EXCEPT ![cursor] = remaining_ms[cursor] - 1]
  <2>1. remaining_ms[cursor] \in Nat \ {0} /\ Left(cursor) > 0
    BY <1>1, AtEntry DEF CountDown
  <2>2. Left(cursor) = remaining_ms[cursor] - 1
    BY <2>1 DEF Left
  <2>3. remaining_ms[cursor] - 1 \in Nat \ {0}
    BY <2>1, <2>2
  <2> QED BY <2>2, <2>3 DEF CountDown
<1>5. Types' /\ AcyclicLinks(next')
  <2>1. next[cursor] \in Pointer
    BY <1>1, AtEntry DEF IInv, Types, Links, Pointer
  <2>2. cursor' \in Pointer /\ prev' \in Pointer
    BY <2>1 DEF CountDown, Advance, IInv, Types, Pointer
  <2>3. remaining_ms' \in [Timer -> Nat]
    BY <1>4 DEF IInv, Types
  <2>4. UNCHANGED <<used, type, state, period_ms, next, active_timer_list, in_callback,
                    deleting, age, span>>
    BY <1>1 DEF CountDown, list, ghosts
  <2> QED BY <2>2, <2>3, <2>4 DEF IInv, Types
<1>6. CountsAgree' /\ Pool'
  BY DEF IInv, CountsAgree, Pool, CountDown, counts, ghosts
<1>7. OnList' /\ OneShots'
  BY <1>1, <1>2, <1>4, AtEntry, OnTheList
     DEF IInv, Types, CountDown, OnList, OneShots
<1>8. WalkInv'
  BY <1>1, <1>2, AtEntry, NullAssumption
     DEF IInv, CountDown, Advance, WalkInv, Idle
<1>9. Times'
  <2>1. SUFFICES ASSUME NEW t \in Listed
                 PROVE  remaining_ms'[t] + age[t] =
                            IF t \in Unvisited \ {cursor} THEN span[t] + 1 ELSE span[t]
    BY <1>2, <1>3 DEF Times, CountDown, ghosts
  <2>2. t \in Timer /\ remaining_ms[t] \in Nat /\ age[t] \in Nat /\ span[t] \in Nat
    BY OnTheList DEF IInv, Types
  <2>3. remaining_ms[t] + age[t] = IF t \in Unvisited THEN span[t] + 1 ELSE span[t]
    BY DEF IInv, Times
  <2>4. CASE t = cursor
    BY <1>1, <1>4, <2>2, <2>3, <2>4, AtEntry DEF IInv, Types
  <2>5. CASE t # cursor
    BY <1>4, <2>2, <2>3, <2>5 DEF IInv, Types
  <2> QED BY <2>4, <2>5
<1> QED BY <1>5, <1>6, <1>7, <1>8, <1>9 DEF IInv

(***************************************************************************)
(* What an expiry leaves on the list: everything but the expired timer     *)
(* when there is a prev, what the walk has still to visit when there is    *)
(* none; then only periodic timers are dropped.                            *)
(***************************************************************************)
LEMMA ExpireList ==
    ASSUME IInv, Expire
    PROVE  /\ next' \in Links /\ active_timer_list' \in Pointer
           /\ AcyclicLinks(next')
           /\ Listed' \subseteq Listed \ {cursor}
           /\ \A t \in (Listed \ {cursor}) \ Listed' : type[t] = "PERIODIC"
           /\ Unvisited' = Unvisited \ {cursor}
           /\ Ahead' = next[cursor] /\ Ahead' \in Listed' \cup {Null}
           /\ prev # Null => prev \in Listed' /\ next'[prev] = Ahead'
           /\ prev = Null => Listed' = Unvisited'
<1>1. /\ ~Idle /\ ~in_callback /\ in_callback' /\ cursor' = cursor /\ prev' = prev
      /\ next \in Links /\ AcyclicLinks(next)
      /\ cursor \in Timer /\ cursor \in Listed
      /\ next[cursor] \in Pointer
  BY AtEntry DEF Expire, IInv, Types, Links, Pointer
<1>2. CASE prev # Null
  <2>1. prev \in Listed /\ prev \in Timer /\ next[prev] = cursor
    BY <1>1, <1>2, OnTheList DEF IInv, WalkInv, Ahead
  <2>2. /\ next' = [next EXCEPT ![prev] = next[cursor]]
        /\ active_timer_list' = active_timer_list
    BY <1>2 DEF Expire
  <2>3. \A s \in Timer : next'[s] = IF s = prev THEN next[cursor] ELSE next[s]
    BY <1>1, <2>2 DEF Links
  <2>4. next' \in Links
    BY <1>1, <2>2 DEF Links, Pointer
  <2>5. prev # cursor
    BY <1>1, <2>1, AtEntry, NullAssumption
  <2>6. AcyclicLinks(next')
    BY <1>1, <2>1, <2>3, <2>4, <2>5, SkipAcyclic
  <2>7. active_timer_list \in Timer /\ active_timer_list # cursor
    BY <1>1, <2>1, AtEntry, HeadFirst DEF Listed
  <2>8. \A s \in Listed \ {cursor} :
            next'[s] = IF next[s] = cursor THEN next[cursor] ELSE next[s]
    <3>1. \A s \in Listed : next[s] = cursor => s = prev
      BY <1>1, <2>1, <2>7, OnePredecessor, NullAssumption DEF Listed
    <3> QED BY <2>1, <2>3, <3>1, OnTheList DEF IInv
  <2>9. Listed' = Listed \ {cursor}
    <3>1. Reached(active_timer_list, next') = Reached(active_timer_list, next) \ {cursor}
      BY <1>1, <2>4, <2>7, <2>8, Cut DEF Listed, Pointer
    <3> QED BY <2>2, <3>1 DEF Listed
  <2>10. Ahead' = next[cursor]
    BY <1>1, <2>3, <2>5 DEF Ahead
  <2>11. prev \notin Reached(next[cursor], next)
    <3>1. SUFFICES ASSUME prev \in Reached(next[cursor], next)
                   PROVE  cursor \in Reached(next[cursor], next)
      BY <1>1, NoReturn
    <3>2. next[prev] \in Reached(next[cursor], next) \cup {Null}
      BY <1>1, <3>1, ReachedClosed
    <3> QED BY <1>1, <2>1, <3>2, NullAssumption
  <2>12. Unvisited' = Unvisited \ {cursor}
    <3>1. \A s \in Reached(next[cursor], next) : next'[s] = next[s]
      BY <1>1, <2>3, <2>11, ReachedClosed
    <3>2. Reached(next[cursor], next') = Reached(next[cursor], next)
      BY <1>1, <2>4, <3>1, Frame
    <3> QED BY <1>1, <2>10, <3>2, AtEntry DEF Unvisited
  <2> QED
    BY <1>1, <1>2, <2>1, <2>2, <2>3, <2>4, <2>5, <2>6, <2>9, <2>10, <2>12, AtEntry
       DEF IInv, Types
<1>3. CASE prev = Null
  <2>1. next' = next /\ active_timer_list' = next[cursor]
    BY <1>3 DEF Expire
  <2>2. Ahead' = next[cursor]
    BY <1>1, <2>1 DEF Ahead
  <2>3. Listed' = Unvisited \ {cursor} /\ Unvisited' = Unvisited \ {cursor}
    BY <1>1, <2>1, <2>2, AtEntry DEF Listed, Unvisited
  <2>4. \A t \in (Listed \ {cursor}) \ Listed' : type[t] = "PERIODIC"
    BY <1>1, <1>3, <2>3 DEF IInv, WalkInv
  <2>5. Ahead' \in Listed' \cup {Null}
    BY <1>1, <2>1, <2>2, ReachedClosed DEF Listed
  <2> QED BY <1>1, <1>3, <2>1, <2>2, <2>3, <2>4, <2>5, AtEntry
<1> QED BY <1>2, <1>3

LEMMA ExpireCase ==
    ASSUME IInv, Expire
    PROVE  IInv'
<1>1. /\ ~Idle /\ ~in_callback /\ in_callback' /\ cursor' = cursor /\ prev' = prev
      /\ state' = [state EXCEPT ![cursor] = "EXPIRED"]
      /\ remaining_ms' = [remaining_ms EXCEPT ![cursor] = 0]
      /\ active_timers' = active_timers - 1
      /\ UNCHANGED <<used, type, period_ms, total_timers, deleting, ghosts>>
  BY DEF Expire
<1>2. Types' /\ AcyclicLinks(next')
  BY <1>1, ExpireList DEF IInv, Types, ghosts
<1>3. CountsAgree'
  <2>1. Running' = Running \ {cursor} /\ cursor \in Running
    BY <1>1, AtEntry DEF Running, IInv, Types
  <2>2. Used' = Used
    BY <1>1 DEF Used
  <2> QED BY <1>1, <2>1, <2>2, AtEntry, Counters DEF IInv
<1>4. Pool'
  <2>1. remaining_ms[cursor] = 1
    BY <1>1, AtEntry DEF Expire, Left
  <2>2. remaining_ms[cursor] + age[cursor] = span[cursor] + 1
    BY <1>1, AtEntry DEF IInv, Times
  <2>3. age[cursor] = span[cursor]
    BY <1>1, <2>1, <2>2, AtEntry DEF IInv, Types
  <2>4. used[cursor]
    BY <1>1, AtEntry DEF IInv, OnList
  <2> QED BY <1>1, <2>3, <2>4, AtEntry DEF IInv, Types, Pool, ghosts
<1>5. OnList' /\ Times'
  <2>1. \A t \in Listed' : /\ t \in Listed /\ t \in Timer /\ t # cursor
                           /\ remaining_ms'[t] = remaining_ms[t]
                           /\ state'[t] = state[t]
                           /\ (t \in Unvisited' <=> t \in Unvisited)
    BY <1>1, ExpireList, OnTheList DEF IInv, Types
  <2> QED BY <1>1, <2>1 DEF IInv, OnList, Times, ghosts
<1>6. OneShots'
  BY <1>1, AtEntry, ExpireList DEF IInv, Types, OneShots
<1>7. WalkInv'
  <2>1. used[cursor] /\ deleting[cursor] = 0
    BY <1>1, AtEntry DEF IInv, Types, OnList, Pool, Deletes
  <2> QED BY <1>1, <2>1, AtEntry, ExpireList, NullAssumption
            DEF IInv, Types, WalkInv, Idle
<1> QED BY <1>2, <1>3, <1>4, <1>5, <1>6, <1>7 DEF IInv

LEMMA AfterCallbackCase ==
    ASSUME IInv, AfterCallback
    PROVE  IInv'
<1>1. /\ ~Idle /\ in_callback /\ ~in_callback' /\ cursor \in Timer /\ cursor \notin Listed
      /\ used[cursor] /\ state[cursor] = "EXPIRED"
      /\ next[cursor] \in Listed \cup {Null}
      /\ next \in Links /\ AcyclicLinks(next) /\ active_timer_list \in Pointer
      /\ deleting[cursor] = 0
  BY DEF AfterCallback, IInv, Types, WalkInv, Idle, Ahead, Pointer
<1>2. /\ cursor' = next[cursor] /\ Ahead' = next[cursor]
      /\ prev' = IF next[cursor] = Null THEN Null ELSE prev
  BY <1>1 DEF AfterCallback, Advance, Ahead
<1>3. Unvisited = Reached(next[cursor], next) /\ Unvisited \subseteq Listed
  <2>1. Unvisited = Reached(next[cursor], next)
    BY <1>1 DEF Unvisited, Ahead
  <2> QED BY <1>1, <2>1, OnTheList, ReachedLeast DEF IInv
<1>4. \A left \in Pointer :
        next' = [next EXCEPT ![cursor] = left] =>
            /\ next' \in Links
            /\ Unvisited' = Unvisited
            /\ Reached(active_timer_list, next') = Listed
  <2>1. SUFFICES ASSUME NEW left \in Pointer, next' = [next EXCEPT ![cursor] = left]
                 PROVE  /\ next' \in Links
                        /\ Unvisited' = Unvisited
                        /\ Reached(active_timer_list, next') = Listed
    OBVIOUS
  <2>2. next' \in Links /\ \A s \in Timer \ {cursor} : next'[s] = next[s]
    BY <1>1, <2>1 DEF Links, Pointer
  <2>3. \A s \in Listed : next'[s] = next[s]
    BY <1>1, <2>2, OnTheList DEF IInv
  <2>4. Reached(active_timer_list, next') = Listed
    BY <1>1, <2>2, <2>3, Frame DEF Listed
  <2>5. next[cursor] \in Pointer
    BY <1>1 DEF Links, Pointer
  <2>6. Reached(next[cursor], next') = Reached(next[cursor], next)
    BY <1>1, <1>3, <2>2, <2>3, <2>5, Frame
  <2> QED BY <1>2, <1>3, <2>2, <2>4, <2>6 DEF Unvisited
<1>5. CASE type[cursor] = "PERIODIC"
  <2>1. Arm(cursor) /\ UNCHANGED <<used, type, period_ms, total_timers, deleting>>
    BY <1>5 DEF AfterCallback
  <2>2. /\ next' \in Links /\ Unvisited' = Unvisited
        /\ Listed' = {cursor} \cup Listed
        /\ AcyclicLinks(next')
    BY <1>1, <1>4, <2>1, PushReached, PushAcyclic DEF Arm, ArmAs, Listed
  <2>3. period_ms[cursor] \in Periods /\ period_ms[cursor] \in Nat \ {0}
    BY <1>1, PeriodsAssumption DEF IInv, Pool
  <2>4. Types'
    <3>1. cursor' \in Pointer /\ prev' \in Pointer /\ in_callback' \in BOOLEAN
      BY <1>1, <1>2 DEF IInv, Types, Links, Pointer, AfterCallback
    <3> QED BY <1>1, <2>1, <2>2, <2>3, <3>1 DEF IInv, Types, Arm, ArmAs, Pointer
  <2>5. CountsAgree'
    <3>1. Running' = Running \cup {cursor} /\ cursor \notin Running
      BY <1>1, <2>1 DEF Running, Arm, ArmAs, IInv, Types
    <3>2. Used' = Used
      BY <2>1 DEF Used
    <3> QED BY <1>1, <2>1, <3>1, <3>2, Counters DEF IInv, Arm, ArmAs
  <2>6. Pool'
    BY <1>1, <2>1, <2>3 DEF IInv, Types, Pool, Arm, ArmAs
  <2>7. OnList' /\ OneShots'
    BY <1>1, <1>5, <2>1, <2>2, <2>3, OnTheList
       DEF IInv, Types, OnList, OneShots, Arm, ArmAs
  <2>8. WalkInv'
    <3>1. ~Idle' /\ prev' = Null => ~Idle /\ prev = Null
      BY <1>1, <1>2 DEF Idle
    <3>2. prev' # Null => prev' \in Listed /\ prev' # cursor /\ next[prev'] = Ahead'
      BY <1>1, <1>2 DEF IInv, WalkInv, Ahead
    <3>3. prev' # Null => prev' \in Listed' /\ next'[prev'] = Ahead'
      BY <1>1, <2>1, <2>2, <3>2, OnTheList DEF IInv, Types, Arm, ArmAs
    <3>4. Ahead' \in Listed' \cup {Null}
      BY <1>1, <1>2, <2>2
    <3>5. Idle' => prev' = Null
      BY <1>2 DEF Idle
    <3>6. ~Idle' /\ prev' = Null => \A t \in Listed' \ Unvisited' : type'[t] = "PERIODIC"
      BY <1>5, <2>1, <2>2, <3>1 DEF IInv, WalkInv
    <3> QED BY <1>1, <3>3, <3>4, <3>5, <3>6 DEF WalkInv
  <2>9. Times'
    <3>1. SUFFICES ASSUME NEW t \in Listed'
                   PROVE  remaining_ms'[t] + age'[t] =
                              IF t \in Unvisited THEN span'[t] + 1 ELSE span'[t]
      BY <2>2 DEF Times
    <3>2. CASE t = cursor
      <4>1. /\ remaining_ms'[t] = period_ms[t] /\ age'[t] = 0
            /\ span'[t] = period_ms[t]
        BY <1>1, <2>1, <3>2 DEF Arm, ArmAs, IInv, Types
      <4> QED BY <1>1, <1>3, <2>3, <3>2, <4>1
    <3>3. CASE t # cursor
      <4>1. t \in Listed /\ t \in Timer
        BY <2>2, <3>3, OnTheList DEF IInv
      <4>2. /\ remaining_ms'[t] = remaining_ms[t] /\ age'[t] = age[t]
            /\ span'[t] = span[t]
        BY <2>1, <3>3, <4>1 DEF Arm, ArmAs, IInv, Types
      <4> QED BY <4>1, <4>2 DEF IInv, Times
    <3> QED BY <3>2, <3>3
  <2> QED BY <2>2, <2>4, <2>5, <2>6, <2>7, <2>8, <2>9 DEF IInv
<1>6. CASE type[cursor] # "PERIODIC"
  <2>1. /\ next' = [next EXCEPT ![cursor] = Null]
        /\ UNCHANGED <<used, type, state, period_ms, remaining_ms, active_timer_list,
                       counts, deleting, ghosts>>
    BY <1>6 DEF AfterCallback, counts
  <2>2. Null \in Pointer
    BY DEF Pointer
  <2>3. /\ next' \in Links /\ Unvisited' = Unvisited
        /\ Listed' = Listed
    BY <1>4, <2>1, <2>2 DEF Listed
  <2>4. AcyclicLinks(next')
    <3>1. \A s \in Timer : next'[s] = next[s] \/ next'[s] = Null
      BY <1>1, <2>1 DEF Links
    <3> QED BY <1>1, <2>3, <3>1, ClearAcyclic
  <2>5. Types'
    <3>1. cursor' \in Pointer /\ prev' \in Pointer /\ in_callback' \in BOOLEAN
      BY <1>1, <1>2 DEF IInv, Types, Links, Pointer, AfterCallback
    <3> QED BY <2>1, <2>3, <3>1 DEF IInv, Types, ghosts
  <2>6. CountsAgree' /\ Pool'
    BY <2>1 DEF IInv, CountsAgree, Pool, counts, ghosts
  <2>7. OnList' /\ OneShots' /\ Times'
    BY <2>1, <2>3 DEF IInv, OnList, OneShots, Times, ghosts
  <2>8. WalkInv'
    <3>1. prev' # Null => prev' \in Listed /\ prev' # cursor /\ next[prev'] = Ahead'
      BY <1>1, <1>2 DEF IInv, WalkInv, Ahead
    <3>2. prev' # Null => prev' \in Listed' /\ next'[prev'] = Ahead'
      BY <1>1, <2>1, <2>3, <3>1, OnTheList DEF IInv, Types
    <3>3. ~Idle' /\ prev' = Null => \A t \in Listed' \ Unvisited' : type'[t] = "PERIODIC"
      BY <1>1, <1>2, <2>1, <2>3 DEF IInv, WalkInv, Idle
    <3> QED BY <1>1, <1>2, <2>3, <3>2, <3>3 DEF WalkInv, Idle
  <2> QED BY <2>4, <2>5, <2>6, <2>7, <2>8 DEF IInv
<1> QED BY <1>5, <1>6

LEMMA Stutter == IInv /\ UNCHANGED vars => IInv'
<1> SUFFICES ASSUME IInv, UNCHANGED vars PROVE IInv'
  OBVIOUS
<1>1. Listed' = Listed /\ Unvisited' = Unvisited /\ Ahead' = Ahead
  BY DEF vars, list, walk, Listed, Unvisited, Ahead
<1>2. Types' /\ CountsAgree' /\ AcyclicLinks(next') /\ Pool'
  BY DEF IInv, Types, CountsAgree, Pool, vars, blocks, list, counts, walk, ghosts
<1>3. OnList' /\ OneShots' /\ Times'
  BY <1>1 DEF IInv, OnList, OneShots, Times, vars, blocks, ghosts
<1>4. WalkInv'
  BY <1>1 DEF IInv, WalkInv, Idle, vars, blocks, list, walk
<1> QED BY <1>2, <1>3, <1>4 DEF IInv

LEMMA InvStep == IInv /\ [Next]_vars => IInv'
<1> SUFFICES ASSUME IInv, [Next]_vars PROVE IInv'
  OBVIOUS
<1>1. CASE TickStep
  BY <1>1, BeginTickCase, CountDownCase, ExpireCase, AfterCallbackCase DEF TickStep
<1>2. ASSUME NEW t \in Timer, Call(t) PROVE IInv'
  BY <1>2, CreateCase, SetPeriodCase, StartCase, StopCase, ResetCase, FreeCase DEF Call
<1> QED BY <1>1, <1>2, Stutter DEF Next

LEMMA Invariance ==
    ASSUME Sharers = 1
    PROVE  Spec => []IInv
<1>1. Init => IInv
  BY InitCase
<1> QED BY <1>1, InvStep, PTL DEF Spec

-----------------------------------------------------------------------------
(* The variables keep their types, for any number of timers: in particular *)
(* the counters of smart_timer_get_stats stay within the pool.             *)
THEOREM TypeCorrect ==
    ASSUME Sharers = 1
    PROVE  Spec => []TypeOK
<1>1. IInv => TypeOK
  <2> SUFFICES ASSUME IInv PROVE TypeOK
    OBVIOUS
  <2>1. active_timers \in 0 .. MaxTimers /\ total_timers \in 0 .. MaxTimers
    <3>1. /\ {t \in Timer : state[t] = "RUNNING"} \in SUBSET Timer
          /\ {t \in Timer : used[t]} \in SUBSET Timer
      OBVIOUS
    <3> QED BY <3>1, Counting DEF IInv, CountsAgree
  <2> QED BY <2>1 DEF IInv, Types, TypeOK, Links, Pointer, Deletes
<1> QED BY <1>1, Invariance, PTL

(* Between two ticks the list of active timers ends, holds only live       *)
(* RUNNING timers and every one-shot timer that runs, whatever the calls   *)
(* and the walks of smart_timer_tick have done to it.                      *)
THEOREM ListStaysSound ==
    ASSUME Sharers = 1
    PROVE  Spec => []ListSound
<1>1. IInv => ListSound
  <2> SUFFICES ASSUME IInv PROVE ListSound
    OBVIOUS
  <2>1. Listed # {} => \E t \in Listed : next[t] = Null
    <3>1. Listed \in SUBSET Timer /\ \A t \in Listed : next[t] \in Listed \cup {Null}
      BY OnTheList DEF IInv
    <3> QED BY <3>1 DEF IInv, AcyclicLinks
  <2> QED BY <2>1 DEF IInv, OnList, OneShots, ListSound
<1> QED BY <1>1, Invariance, PTL

(* active_timers and total_timers count the RUNNING and the used control   *)
(* blocks, after any sequence of calls and expiries.                       *)
THEOREM StatisticsRight ==
    ASSUME Sharers = 1
    PROVE  Spec => []CountsAgree
<1>1. IInv => CountsAgree
  BY DEF IInv
<1> QED BY <1>1, Invariance, PTL

(* No tick is lost or counted twice: between two ticks what a timer on the *)
(* list has left and its age make up its period, and an expired timer is   *)
(* exactly as old as its period.                                           *)
THEOREM OnTime ==
    ASSUME Sharers = 1
    PROVE  Spec => []FiresOnTime
<1>1. IInv => FiresOnTime
  <2> SUFFICES ASSUME IInv, Idle PROVE /\ \A t \in Listed : remaining_ms[t] + age[t] = span[t]
                                       /\ \A t \in Timer : state[t] = "EXPIRED" => age[t] = span[t]
    BY DEF FiresOnTime
  <2>1. Ahead = Null
    BY DEF IInv, WalkInv, Idle, Ahead
  <2>2. Unvisited = {}
    BY <2>1, ReachedNull DEF Unvisited
  <2> QED BY <2>2 DEF IInv, Times, Pool
<1> QED BY <1>1, Invariance, PTL
=============================================================================
