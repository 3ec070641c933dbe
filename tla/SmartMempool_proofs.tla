------------------------- MODULE SmartMempool_proofs -------------------------
(* Theorems about SmartMempool, for any number of pools, blocks and clients. *)
EXTENDS SmartMempool, FiniteSetTheorems, TLAPS

(* Types, without the bounds on the counters that FreeListExact gives. *)
Types ==
    /\ free_list \in [Pool -> Block \cup {Null, Data}]
    /\ word \in [Pool -> [Block -> Block \cup {Null, Data}]]
    /\ free_count \in [Pool -> Nat]
    /\ min_free_count \in [Pool -> Nat]
    /\ ops_left \in [Pool -> Nat]
    /\ initialised \subseteq Pool
    /\ pool_registry \in Seq(Pool)
    /\ held \in [Client -> (Pool \X Block) \cup {Null}]

(***************************************************************************)
(* A pool outside `initialised' is out of use: no budget, never registered *)
(* and nothing of it held.                                                 *)
(***************************************************************************)
Untouched ==
    /\ \A p \in Pool \ initialised : ops_left[p] = 0
    /\ \A i \in DOMAIN pool_registry : pool_registry[i] \in initialised
    /\ \A c \in Client : held[c] # Null => held[c][1] \in initialised

(* How the counters of a pool are related to each other. *)
CounterInv ==
    \A p \in Pool : /\ min_free_count[p] <= free_count[p]
                    /\ ops_left[p] <= Budget(p)
                    /\ p \notin initialised => free_count[p] = 0

PoolInv == Types /\ Untouched /\ FreeListExact /\ NoSharedBlock

-----------------------------------------------------------------------------
(* A list of different blocks is no longer than the pool. *)
LEMMA ListBound ==
    ASSUME NEW n \in Nat, NEW s \in [1 .. n -> Block],
           \A i, j \in 1 .. n : s[i] = s[j] => i = j
    PROVE  n <= BlockCount
<1> SUFFICES ASSUME n > BlockCount PROVE FALSE
  BY CountAssumption
<1>1. IsFiniteSet(1 .. n) /\ Cardinality(1 .. n) = n
  BY FS_Interval
<1>2. IsFiniteSet(Block) /\ Cardinality(Block) = BlockCount
  BY FS_Interval, CountAssumption DEF Block
<1>3. \E x, y \in 1 .. n : x # y /\ s[x] = s[y]
  BY <1>1, <1>2, FS_PigeonHole
<1> QED BY <1>3

(* A pool that no step touches keeps its free list. *)
LEMMA ListKept ==
    ASSUME NEW p, NEW s, IsFreeList(p, s),
           free_list'[p] = free_list[p], word'[p] = word[p],
           free_count'[p] = free_count[p], Held(p)' = Held(p)
    PROVE  IsFreeList(p, s)'
BY DEF IsFreeList

(* A step that touches no list keeps every list. *)
LEMMA ListsKept ==
    ASSUME FreeListExact, UNCHANGED <<free_list, word, free_count, initialised, held>>
    PROVE  FreeListExact'
<1>1. \A p : Held(p)' = Held(p)
  BY DEF Held
<1>2. \A p, s : IsFreeList(p, s) => IsFreeList(p, s)'
  BY <1>1 DEF IsFreeList
<1> QED BY <1>2 DEF FreeListExact

(* A free list of another pool does not notice a step on pool p. *)
LEMMA OthersKept ==
    ASSUME Types, FreeListExact, NEW p \in Pool,
           initialised' \subseteq initialised \cup {p},
           \A q \in Pool \ {p} : /\ free_list'[q] = free_list[q]
                                 /\ word'[q] = word[q]
                                 /\ free_count'[q] = free_count[q]
                                 /\ Held(q)' = Held(q)
    PROVE  \A q \in initialised' \ {p} :
              \E s \in [1 .. free_count'[q] -> Block] : IsFreeList(q, s)'
<1> TAKE q \in initialised' \ {p}
<1>1. q \in initialised /\ q \in Pool
  BY DEF Types
<1>2. PICK s \in [1 .. free_count[q] -> Block] : IsFreeList(q, s)
  BY <1>1 DEF FreeListExact
<1>3. IsFreeList(q, s)'
  BY <1>1, <1>2, ListKept
<1> QED BY <1>1, <1>2, <1>3

LEMMA BudgetType == \A p \in Pool : Budget(p) \in Nat
BY CountAssumption, OpsAssumption DEF Budget

LEMMA InitPoolStep ==
    ASSUME PoolInv, NEW p \in Pool, InitPool(p)
    PROVE  PoolInv'
<1> USE DEF PoolInv
<1>0. BlockCount \in Nat /\ BlockCount > 0 /\ 0 \in Block
  BY CountAssumption DEF Block
<1>1. Types'
  <2>1. \A b \in Block : (IF b + 1 < BlockCount THEN b + 1 ELSE Null) \in Block \cup {Null, Data}
    BY <1>0 DEF Block
  <2>2. pool_registry' \in Seq(Pool)
    BY DEF InitPool, Types
  <2> QED BY <1>0, <2>1, <2>2, BudgetType DEF InitPool, Types
<1>2. Untouched'
  <2>1. \A i \in DOMAIN pool_registry' : pool_registry'[i] \in initialised'
    <3>1. CASE pool_registry' = pool_registry
      BY <3>1 DEF InitPool, Untouched
    <3>2. CASE pool_registry' = Append(pool_registry, p)
      BY <3>2 DEF InitPool, Untouched, Types
    <3> QED BY <3>1, <3>2 DEF InitPool
  <2> QED BY <2>1 DEF InitPool, Untouched, Types
<1>3. FreeListExact'
  <2>1. Held(p) = {} /\ \A q \in Pool : Held(q)' = Held(q)
    <3>1. \A c \in Client, b \in Block : held[c] # <<p, b>>
      <4> TAKE c \in Client, b \in Block
      <4>1. <<p, b>> # Null /\ <<p, b>>[1] = p
        BY PointerAssumption
      <4>2. p \notin initialised
        BY DEF InitPool
      <4> QED BY <4>1, <4>2 DEF Untouched
    <3> QED BY <3>1 DEF Held, InitPool
  <2> DEFINE s == [i \in 1 .. BlockCount |-> i - 1]
  <2>2. s \in [1 .. BlockCount -> Block]
    BY <1>0 DEF Block
  <2>3. free_count'[p] = BlockCount /\ free_list'[p] = 0
    BY DEF InitPool, Types
  <2>4. \A i \in 1 .. BlockCount :
           word'[p][s[i]] = IF i = BlockCount THEN Null ELSE s[i + 1]
    <3> TAKE i \in 1 .. BlockCount
    <3>1. s[i] = i - 1 /\ i - 1 \in Block
      BY <1>0 DEF Block
    <3>2. word'[p][i - 1] = IF (i - 1) + 1 < BlockCount THEN (i - 1) + 1 ELSE Null
      BY <3>1 DEF InitPool, Types
    <3>3. i # BlockCount => s[i + 1] = i
      BY <1>0
    <3> QED BY <1>0, <3>1, <3>2, <3>3
  <2>5. {s[i] : i \in 1 .. BlockCount} = Block
    <3>1. \A b \in Block : b + 1 \in 1 .. BlockCount /\ s[b + 1] = b
      BY <1>0 DEF Block
    <3> QED BY <2>2, <3>1
  <2>6. \A i, j \in 1 .. BlockCount : s[i] = s[j] => i = j
    OBVIOUS
  <2>7. s[1] = 0
    BY <1>0
  <2> HIDE DEF s
  <2>8. IsFreeList(p, s)'
    BY <1>0, <2>1, <2>3, <2>4, <2>5, <2>6, <2>7 DEF IsFreeList
  <2>9. \A q \in initialised' \ {p} :
           \E t \in [1 .. free_count'[q] -> Block] : IsFreeList(q, t)'
    BY <2>1, OthersKept DEF InitPool, Types
  <2> QED BY <2>2, <2>3, <2>8, <2>9 DEF FreeListExact
<1>4. NoSharedBlock'
  BY DEF InitPool, NoSharedBlock
<1> QED BY <1>1, <1>2, <1>3, <1>4

LEMMA AllocStep ==
    ASSUME PoolInv, NEW c \in Client, NEW p \in Pool, AllocTry(c, p)
    PROVE  PoolInv'
<1> USE DEF PoolInv
<1>1. p \in initialised
  BY DEF AllocTry, Untouched
<1>2. PICK s \in [1 .. free_count[p] -> Block] : IsFreeList(p, s)
  BY <1>1 DEF FreeListExact
<1>n. PICK n \in Nat : n = free_count[p]
  BY DEF Types
<1>b. PICK b \in Block \ Held(p) : b = free_list[p] /\ b = s[1] /\ n > 0
  <2>1. n # 0
    BY <1>2, <1>n DEF AllocTry, IsFreeList
  <2>2. free_list[p] = s[1] /\ 1 \in 1 .. n
    BY <1>2, <1>n, <2>1 DEF IsFreeList
  <2>3. s[1] \in Block \ Held(p)
    BY <1>2, <1>n, <2>2 DEF IsFreeList
  <2> QED BY <1>n, <2>1, <2>2, <2>3
<1>3. n = free_count[p] /\ s \in [1 .. n -> Block] /\ b = free_list[p] /\ b = s[1] /\ n > 0
  BY <1>n, <1>b
<1>4. held' = [held EXCEPT ![c] = <<p, b>>] /\ held[c] = Null
  BY <1>b DEF AllocTry
<1>5. \A q \in Pool : Held(q)' = IF q = p THEN Held(q) \cup {b} ELSE Held(q)
  <2> TAKE q \in Pool
  <2>1. \A d \in Client : held'[d] = IF d = c THEN <<p, b>> ELSE held[d]
    BY <1>4 DEF Types
  <2>2. \A x \in Block : held[c] # <<q, x>>
    BY <1>4, <1>3, PointerAssumption, <2>1 DEF Types, AllocTry
  <2>3. \A x \in Block :
           (\E d \in Client : held'[d] = <<q, x>>) <=>
           (\/ \E d \in Client : held[d] = <<q, x>>
            \/ q = p /\ x = b)
    BY <2>1, <2>2
  <2> QED BY <1>3, <2>3 DEF Held
<1>6. Types'
  BY <1>b, <1>3, <1>4 DEF AllocTry, Types
<1>7. Untouched'
  BY <1>1, <1>4 DEF AllocTry, Untouched, Types
<1>8. FreeListExact'
  <2> DEFINE t == [i \in 1 .. n - 1 |-> s[i + 1]]
  <2>1. t \in [1 .. n - 1 -> Block]
    BY <1>3
  <2>2. free_count'[p] = n - 1 /\ word' = word /\ free_list'[p] = word[p][b]
    BY <1>3 DEF AllocTry, Types
  <2>3. free_list'[p] = IF n - 1 = 0 THEN Null ELSE t[1]
    BY <1>2, <1>3, <2>2 DEF IsFreeList
  <2>4. \A i \in 1 .. n - 1 : word[p][t[i]] = IF i = n - 1 THEN Null ELSE t[i + 1]
    <3> TAKE i \in 1 .. n - 1
    <3>1. i + 1 \in 1 .. n /\ t[i] = s[i + 1] /\ (i + 1 = n <=> i = n - 1)
      BY <1>3
    <3>2. word[p][s[i + 1]] = IF i + 1 = n THEN Null ELSE s[(i + 1) + 1]
      BY <1>2, <1>3, <3>1 DEF IsFreeList
    <3>3. i # n - 1 => t[i + 1] = s[(i + 1) + 1]
      BY <1>3
    <3> QED BY <3>1, <3>2, <3>3
  <2>5. \A i, j \in 1 .. n - 1 : t[i] = t[j] => i = j
    <3> TAKE i, j \in 1 .. n - 1
    <3>1. i + 1 \in 1 .. n /\ j + 1 \in 1 .. n /\ t[i] = s[i + 1] /\ t[j] = s[j + 1]
      BY <1>3
    <3> QED BY <1>2, <1>3, <3>1 DEF IsFreeList
  <2>6. {t[i] : i \in 1 .. n - 1} = Block \ (Held(p) \cup {b})
    <3>1. {s[i] : i \in 1 .. n} = Block \ Held(p)
      BY <1>2, <1>3 DEF IsFreeList
    <3>2. \A i \in 1 .. n - 1 : t[i] \in Block \ Held(p) /\ t[i] # b
      <4> TAKE i \in 1 .. n - 1
      <4>1. i + 1 \in 1 .. n /\ 1 \in 1 .. n /\ i + 1 # 1 /\ t[i] = s[i + 1]
        BY <1>3
      <4>2. s[i + 1] # s[1]
        BY <1>2, <1>3, <4>1 DEF IsFreeList
      <4> QED BY <1>3, <3>1, <4>1, <4>2
    <3>3. \A x \in Block \ (Held(p) \cup {b}) : \E i \in 1 .. n - 1 : t[i] = x
      <4> TAKE x \in Block \ (Held(p) \cup {b})
      <4>1. PICK j \in 1 .. n : s[j] = x
        BY <3>1
      <4>2. j - 1 \in 1 .. n - 1 /\ t[j - 1] = s[(j - 1) + 1] /\ (j - 1) + 1 = j
        BY <1>3, <4>1
      <4> QED BY <4>1, <4>2
    <3> HIDE DEF t
    <3> QED BY <3>2, <3>3
  <2> HIDE DEF t
  <2>7. IsFreeList(p, t)'
    <3>1. Held(p)' = Held(p) \cup {b}
      BY <1>5
    <3> QED BY <3>1, <2>2, <2>3, <2>4, <2>5, <2>6 DEF IsFreeList
  <2>8. \A q \in initialised' \ {p} :
           \E r \in [1 .. free_count'[q] -> Block] : IsFreeList(q, r)'
    <3>1. \A q \in Pool \ {p} : Held(q)' = Held(q)
      BY <1>5
    <3>2. \A q \in Pool \ {p} : /\ free_list'[q] = free_list[q]
                                /\ word'[q] = word[q]
                                /\ free_count'[q] = free_count[q]
      BY DEF AllocTry, Types
    <3>3. initialised' \subseteq initialised \cup {p}
      BY DEF AllocTry
    <3> QED BY <3>1, <3>2, <3>3, OthersKept
  <2> QED BY <2>1, <2>2, <2>7, <2>8 DEF FreeListExact
<1>9. NoSharedBlock'
  <2> SUFFICES ASSUME NEW d \in Client, NEW e \in Client, d # e, held'[d] # Null
               PROVE  held'[d] # held'[e]
    BY DEF NoSharedBlock
  <2>1. \A x \in Client : held'[x] = IF x = c THEN <<p, b>> ELSE held[x]
    BY <1>4 DEF Types
  <2>2. \A x \in Client : held[x] # <<p, b>>
    BY <1>3 DEF Held
  <2> QED BY <2>1, <2>2 DEF NoSharedBlock
<1> QED BY <1>6, <1>7, <1>8, <1>9

LEMMA FreeStep ==
    ASSUME PoolInv, NEW c \in Client, NEW p \in Pool, FreeTry(c, p)
    PROVE  PoolInv'
<1> USE DEF PoolInv
<1>1. PICK b \in Block : held[c] = <<p, b>> /\ Release(p, b) /\ held' = [held EXCEPT ![c] = Null]
  BY DEF FreeTry
<1>2. p \in initialised /\ b \in Held(p)
  BY <1>1 DEF Release, Untouched, Held
<1>3. PICK s \in [1 .. free_count[p] -> Block] : IsFreeList(p, s)
  BY <1>2 DEF FreeListExact
<1>4. PICK n \in Nat : n = free_count[p]
  BY DEF Types
<1>5. /\ free_list[p] = IF n = 0 THEN Null ELSE s[1]
      /\ \A i \in 1 .. n : word[p][s[i]] = IF i = n THEN Null ELSE s[i + 1]
      /\ \A i, j \in 1 .. n : s[i] = s[j] => i = j
      /\ {s[i] : i \in 1 .. n} = Block \ Held(p)
      /\ s \in [1 .. n -> Block]
  BY <1>3, <1>4 DEF IsFreeList
<1>6. \A d \in Client : held'[d] = IF d = c THEN Null ELSE held[d]
  BY <1>1 DEF Types
<1>7. \A q \in Pool : Held(q)' = IF q = p THEN Held(q) \ {b} ELSE Held(q)
  <2> TAKE q \in Pool
  <2>1. (\A x \in Block : Null # <<q, x>>) /\ <<p, b>> # Null
    BY PointerAssumption
  <2>2. \A d \in Client \ {c} : held[d] # <<p, b>>
    BY <1>1, <2>1, PointerAssumption DEF NoSharedBlock
  <2>3. \A x \in Block :
           (\E d \in Client : held'[d] = <<q, x>>) <=>
           ((\E d \in Client : held[d] = <<q, x>>) /\ ~(q = p /\ x = b))
    <3> TAKE x \in Block
    <3>1. CASE q = p /\ x = b
      BY <1>6, <2>1, <2>2, <3>1
    <3>2. CASE ~(q = p /\ x = b)
      <4>1. <<p, b>> # <<q, x>>
        BY <3>2
      <4>2. \A d \in Client : held'[d] = <<q, x>> <=> held[d] = <<q, x>>
        BY <1>1, <1>6, <2>1, <4>1
      <4> QED BY <3>2, <4>2
    <3> QED BY <3>1, <3>2
  <2> QED BY <2>3 DEF Held
<1>8. Types'
  BY <1>1 DEF Release, Types
<1>9. Untouched'
  BY <1>1, <1>2, <1>6 DEF Release, Untouched, Types
<1>10. FreeListExact'
  <2> DEFINE t == [i \in 1 .. n + 1 |-> IF i = 1 THEN b ELSE s[i - 1]]
  <2>0. \A i \in 1 .. n + 1 : i # 1 => /\ i - 1 \in 1 .. n
                                       /\ t[i] = s[i - 1]
                                       /\ s[i - 1] \in Block \ Held(p)
    BY <1>5
  <2>1. t \in [1 .. n + 1 -> Block]
    BY <1>5
  <2>2. /\ free_count'[p] = n + 1
        /\ word'[p] = [word[p] EXCEPT ![b] = free_list[p]]
        /\ free_list'[p] = b
    BY <1>1, <1>4 DEF Release, Types
  <2>3. t[1] = b /\ free_list'[p] = t[1] /\ n + 1 # 0
    BY <2>2
  <2>4. \A i \in 1 .. n + 1 : word'[p][t[i]] = IF i = n + 1 THEN Null ELSE t[i + 1]
    <3> TAKE i \in 1 .. n + 1
    <3>1. CASE i = 1
      <4>1. word'[p][b] = free_list[p]
        BY <2>2 DEF Types
      <4>2. n # 0 => t[2] = s[1]
        OBVIOUS
      <4>3. free_list[p] = IF n = 0 THEN Null ELSE s[1]
        BY <1>5
      <4> QED BY <2>3, <3>1, <4>1, <4>2, <4>3
    <3>2. CASE i # 1
      <4>1. t[i] = s[i - 1] /\ i - 1 \in 1 .. n /\ s[i - 1] # b /\ s[i - 1] \in Block
        BY <1>2, <2>0, <3>2
      <4>2. word'[p][s[i - 1]] = word[p][s[i - 1]]
        BY <2>2, <4>1 DEF Types
      <4>3. word[p][s[i - 1]] = IF i - 1 = n THEN Null ELSE s[(i - 1) + 1]
        BY <1>5, <4>1
      <4>4. (i - 1 = n <=> i = n + 1) /\ (i - 1) + 1 = i
        OBVIOUS
      <4>5. i # n + 1 => t[i + 1] = s[i]
        BY <3>2
      <4> QED BY <4>1, <4>2, <4>3, <4>4, <4>5
    <3> QED BY <3>1, <3>2
  <2>5. \A i, j \in 1 .. n + 1 : t[i] = t[j] => i = j
    <3> TAKE i, j \in 1 .. n + 1
    <3>1. CASE i = 1 \/ j = 1
      BY <1>2, <2>0, <2>3, <3>1
    <3>2. CASE i # 1 /\ j # 1
      <4>1. s[i - 1] = s[j - 1] => i - 1 = j - 1
        BY <1>5, <2>0, <3>2
      <4> QED BY <2>0, <3>2, <4>1
    <3> QED BY <3>1, <3>2
  <2>6. {t[i] : i \in 1 .. n + 1} = Block \ (Held(p) \ {b})
    <3>1. \A i \in 1 .. n + 1 : t[i] \in Block \ (Held(p) \ {b})
      BY <2>0, <2>3
    <3>2. \A x \in Block \ (Held(p) \ {b}) : \E i \in 1 .. n + 1 : t[i] = x
      <4> TAKE x \in Block \ (Held(p) \ {b})
      <4>1. CASE x = b
        BY <2>3, <4>1
      <4>2. CASE x # b
        <5>1. PICK j \in 1 .. n : s[j] = x
          BY <1>5, <4>2
        <5>2. j + 1 \in 1 .. n + 1 /\ j + 1 # 1 /\ (j + 1) - 1 = j
          OBVIOUS
        <5> QED BY <2>0, <5>1, <5>2
      <4> QED BY <4>1, <4>2
    <3> HIDE DEF t
    <3> QED BY <3>1, <3>2
  <2> HIDE DEF t
  <2>7. IsFreeList(p, t)'
    <3>1. Held(p)' = Held(p) \ {b}
      BY <1>7
    <3> QED BY <3>1, <2>2, <2>3, <2>4, <2>5, <2>6 DEF IsFreeList
  <2>8. \A q \in initialised' \ {p} :
           \E r \in [1 .. free_count'[q] -> Block] : IsFreeList(q, r)'
    <3>1. \A q \in Pool \ {p} : Held(q)' = Held(q)
      BY <1>7
    <3>2. \A q \in Pool \ {p} : /\ free_list'[q] = free_list[q]
                                /\ word'[q] = word[q]
                                /\ free_count'[q] = free_count[q]
      BY <1>1 DEF Release, Types
    <3>3. initialised' \subseteq initialised \cup {p}
      BY <1>1 DEF Release
    <3> QED BY <3>1, <3>2, <3>3, OthersKept
  <2> QED BY <2>1, <2>2, <2>7, <2>8 DEF FreeListExact
<1>11. NoSharedBlock'
  BY <1>6 DEF NoSharedBlock
<1> QED BY <1>8, <1>9, <1>10, <1>11

LEMMA WriteStep ==
    ASSUME PoolInv, NEW c \in Client, NEW p \in Pool, NEW b \in Block, WriteBlock(c, p, b)
    PROVE  PoolInv'
<1> USE DEF PoolInv
<1>1. b \in Held(p) /\ p \in initialised
  <2>1. <<p, b>> # Null /\ <<p, b>>[1] = p
    BY PointerAssumption
  <2> QED BY <2>1 DEF WriteBlock, Held, Untouched
<1>2. \A q \in Pool : Held(q)' = Held(q)
  BY DEF WriteBlock, Held
<1>3. PICK s \in [1 .. free_count[p] -> Block] : IsFreeList(p, s)
  BY <1>1 DEF FreeListExact
<1>4. IsFreeList(p, s)'
  <2>1. \A i \in 1 .. free_count[p] : s[i] \in Block \ Held(p)
    BY <1>3 DEF IsFreeList
  <2>2. \A x \in Block \ {b} : word'[p][x] = word[p][x]
    BY DEF WriteBlock, Types
  <2>3. \A i \in 1 .. free_count[p] : word'[p][s[i]] = word[p][s[i]]
    BY <1>1, <2>1, <2>2
  <2>4. free_list'[p] = free_list[p] /\ free_count'[p] = free_count[p] /\ Held(p)' = Held(p)
    BY <1>2 DEF WriteBlock
  <2> QED BY <1>3, <2>3, <2>4 DEF IsFreeList
<1>5. FreeListExact'
  <2>1. \A q \in initialised' \ {p} :
           \E r \in [1 .. free_count'[q] -> Block] : IsFreeList(q, r)'
    <3>1. \A q \in Pool \ {p} : /\ free_list'[q] = free_list[q]
                                /\ word'[q] = word[q]
                                /\ free_count'[q] = free_count[q]
      BY DEF WriteBlock, Types
    <3>2. initialised' \subseteq initialised \cup {p}
      BY DEF WriteBlock
    <3> QED BY <1>2, <3>1, <3>2, OthersKept
  <2>2. s \in [1 .. free_count'[p] -> Block]
    BY <1>3 DEF WriteBlock
  <2> QED BY <1>4, <2>1, <2>2 DEF FreeListExact
<1> QED BY <1>5 DEF WriteBlock, Types, Untouched, NoSharedBlock

LEMMA TickStep == ASSUME PoolInv, Tick PROVE PoolInv'
<1> USE DEF PoolInv
<1>1. Types'
  BY BudgetType DEF Tick, Types
<1>2. Untouched'
  BY DEF Tick, Untouched
<1>3. FreeListExact' /\ NoSharedBlock'
  BY ListsKept DEF Tick, NoSharedBlock
<1> QED BY <1>1, <1>2, <1>3

LEMMA PoolInvariant == Spec => []PoolInv
<1>1. Init => PoolInv
  BY CountAssumption DEF Init, PoolInv, Types, Untouched, FreeListExact, NoSharedBlock
<1>2. PoolInv /\ [Next]_vars => PoolInv'
  <2>1. CASE UNCHANGED vars
    BY <2>1, ListsKept DEF vars, PoolInv, Types, Untouched, NoSharedBlock
  <2> QED BY <2>1, InitPoolStep, AllocStep, FreeStep, WriteStep, TickStep DEF Next
<1> QED BY <1>1, <1>2, PTL DEF Spec

(***************************************************************************)
(* The free list threaded through the blocks is exact: free_count          *)
(* different blocks, none of them held, ending in the null link, whatever  *)
(* the clients write into their blocks.                                    *)
(***************************************************************************)
THEOREM FreeListCorrect == Spec => []FreeListExact
<1>1. PoolInv => FreeListExact
  BY DEF PoolInv
<1> QED BY <1>1, PoolInvariant, PTL

(* No block is handed out to a second client before it has been freed. *)
THEOREM ExclusiveBlocks == Spec => []NoSharedBlock
<1>1. PoolInv => NoSharedBlock
  BY DEF PoolInv
<1> QED BY <1>1, PoolInvariant, PTL

-----------------------------------------------------------------------------
LEMMA CounterStep ==
    PoolInv /\ CounterInv /\ [Next]_vars =>
        /\ CounterInv'
        /\ \A p \in initialised : min_free_count'[p] <= min_free_count[p]
<1> SUFFICES ASSUME PoolInv, CounterInv, [Next]_vars
             PROVE  /\ CounterInv'
                    /\ \A p \in initialised : min_free_count'[p] <= min_free_count[p]
  OBVIOUS
<1> USE DEF PoolInv, Types, CounterInv
<1>0. BlockCount \in Nat
  BY CountAssumption
<1>B. \A p \in Pool : Budget(p)' = Budget(p) /\ Budget(p) \in Nat
  BY BudgetType DEF Budget
<1>1. ASSUME NEW p \in Pool, InitPool(p)
      PROVE  /\ CounterInv'
             /\ \A q \in initialised : min_free_count'[q] <= min_free_count[q]
  BY <1>0, <1>B, <1>1 DEF InitPool
<1>2. ASSUME NEW c \in Client, NEW p \in Pool, AllocTry(c, p)
      PROVE  /\ CounterInv'
             /\ \A q \in initialised : min_free_count'[q] <= min_free_count[q]
  <2>1. p \in initialised
    BY <1>2 DEF AllocTry, Untouched
  <2> QED BY <1>2, <1>B, <2>1 DEF AllocTry
<1>3. ASSUME NEW c \in Client, NEW p \in Pool, FreeTry(c, p)
      PROVE  /\ CounterInv'
             /\ \A q \in initialised : min_free_count'[q] <= min_free_count[q]
  <2>1. p \in initialised
    BY <1>3 DEF FreeTry, Release, Untouched
  <2> QED BY <1>3, <1>B, <2>1 DEF FreeTry, Release
<1>4. CASE \E c \in Client, p \in Pool, b \in Block : WriteBlock(c, p, b)
  BY <1>4, <1>B DEF WriteBlock
<1>5. CASE Tick
  BY <1>5, <1>B DEF Tick
<1>6. CASE UNCHANGED vars
  BY <1>6, <1>B DEF vars
<1> QED BY <1>1, <1>2, <1>3, <1>4, <1>5, <1>6 DEF Next

LEMMA InitCounter == Init => CounterInv
BY BudgetType DEF Init, CounterInv

(***************************************************************************)
(* Types and bounds: no counter of a pool leaves its range, so the uint16  *)
(* decrements and increments of alloc_try and free_try never wrap.         *)
(***************************************************************************)
THEOREM TypeCorrect == Spec => []TypeOK
<1>1. PoolInv /\ CounterInv => TypeOK
  <2> SUFFICES ASSUME PoolInv, CounterInv PROVE TypeOK
    OBVIOUS
  <2> USE DEF PoolInv
  <2>1. ASSUME NEW p \in Pool PROVE free_count[p] <= BlockCount
    <3>1. CASE p \in initialised
      <4>1. PICK s \in [1 .. free_count[p] -> Block] : IsFreeList(p, s)
        BY <3>1 DEF FreeListExact
      <4>2. free_count[p] \in Nat
        BY DEF Types
      <4>3. \A i, j \in 1 .. free_count[p] : s[i] = s[j] => i = j
        BY <4>1 DEF IsFreeList
      <4> QED BY <4>2, <4>3, ListBound
    <3>2. CASE p \notin initialised
      BY <3>2, CountAssumption DEF CounterInv
    <3> QED BY <3>1, <3>2
  <2>2. \A p \in Pool : free_count[p] \in 0 .. BlockCount /\ min_free_count[p] \in 0 .. BlockCount
    BY <2>1, CountAssumption DEF Types, CounterInv
  <2> QED BY <2>2 DEF TypeOK, Types, CounterInv
<1>2. PoolInv /\ CounterInv /\ [Next]_vars => CounterInv'
  BY CounterStep
<1> QED BY <1>1, <1>2, InitCounter, PoolInvariant, PTL DEF Spec

(* min_free_count is a low-water mark: it never rises and is never beaten. *)
THEOREM LowWaterCorrect == Spec => LowWaterMark
<1> DEFINE Low == \A p \in initialised :
                     /\ min_free_count'[p] <= min_free_count[p]
                     /\ min_free_count'[p] <= free_count'[p]
<1>1. PoolInv /\ CounterInv /\ [Next]_vars => CounterInv' /\ [Low]_vars
  <2> SUFFICES ASSUME PoolInv, CounterInv, [Next]_vars PROVE CounterInv' /\ Low
    OBVIOUS
  <2>1. CounterInv' /\ \A p \in initialised : min_free_count'[p] <= min_free_count[p]
    BY CounterStep
  <2>2. \A p \in initialised : p \in Pool
    BY DEF PoolInv, Types
  <2> QED BY <2>1, <2>2 DEF CounterInv
<1> QED BY <1>1, InitCounter, PoolInvariant, PTL DEF Spec, LowWaterMark
=============================================================================
