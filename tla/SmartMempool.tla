----------------------------- MODULE SmartMempool -----------------------------
(***************************************************************************)
(* The fixed-block memory pools (core/smart_mempool.c) with the clients    *)
(* that use them as the tasks of user/main.c do: a client remembers the    *)
(* one block it has allocated and retries when a call does not succeed.    *)
(*                                                                         *)
(* The free list is threaded through the blocks themselves: the first word *)
(* of a free block is the link to the next one, the first word of an       *)
(* allocated block belongs to the client.  Every call is one critical      *)
(* section, so every action is one call; a call that returns BUSY, EMPTY   *)
(* or INVALID changes nothing and is no action.                            *)
(***************************************************************************)
EXTENDS Integers, Sequences, FiniteSets

CONSTANTS
    Pool,           \* the smart_mempool_t objects
    BlockCount,     \* blocks per pool
    OpsPerTick,     \* pool |-> operations allowed per tick, 0 = BlockCount
    MaxPools,       \* SMART_MEMPOOL_MAX_POOLS
    Client,         \* the tasks that allocate
    Null,           \* the null block pointer
    Data            \* a client's data in the first word of a block

Block  == 0 .. BlockCount - 1
Budget(p) == IF OpsPerTick[p] = 0 THEN BlockCount ELSE OpsPerTick[p]

ASSUME CountAssumption == BlockCount \in Nat \ {0}
ASSUME OpsAssumption == OpsPerTick \in [Pool -> Nat]
ASSUME RegistryAssumption == MaxPools \in Nat
ASSUME PointerAssumption == /\ Null \notin Block /\ Data \notin Block /\ Null # Data
                            /\ Null \notin Pool \X Block

VARIABLES
    free_list,          \* pool |-> head of its free list
    word,               \* pool |-> block |-> first word of the block
    free_count, min_free_count, ops_left,
    initialised,        \* the pools smart_mempool_init has set up
    pool_registry,      \* the registered pools, a sequence
    held                \* client |-> <<pool, block>> or Null (task_a_block)

vars == <<free_list, word, free_count, min_free_count, ops_left, initialised,
          pool_registry, held>>

Held(p) == {b \in Block : \E c \in Client : held[c] = <<p, b>>}

Init ==
    /\ free_list = [p \in Pool |-> Null]
    /\ word = [p \in Pool |-> [b \in Block |-> Data]]
    /\ free_count = [p \in Pool |-> 0]
    /\ min_free_count = [p \in Pool |-> 0]
    /\ ops_left = [p \in Pool |-> 0]
    /\ initialised = {}
    /\ pool_registry = <<>>
    /\ held = [c \in Client |-> Null]

(***************************************************************************)
(* smart_mempool_init, called once per pool; the failure of                *)
(* smart_mempool_register when the registry is full is ignored.            *)
(***************************************************************************)
InitPool(p) ==
    /\ p \notin initialised
    /\ initialised' = initialised \cup {p}
    /\ free_count' = [free_count EXCEPT ![p] = BlockCount]
    /\ min_free_count' = [min_free_count EXCEPT ![p] = BlockCount]
    /\ ops_left' = [ops_left EXCEPT ![p] = Budget(p)]
    /\ free_list' = [free_list EXCEPT ![p] = 0]
    /\ word' = [word EXCEPT ![p] =
                  [b \in Block |-> IF b + 1 < BlockCount THEN b + 1 ELSE Null]]
    /\ pool_registry' = IF Len(pool_registry) < MaxPools
                        THEN Append(pool_registry, p) ELSE pool_registry
    /\ UNCHANGED held

(* Mutants of AllocTry: no look at the budget; no low-water mark; the head  *)
(* of the list stays.                                                       *)
AllocTryUnbudgeted(c, p) ==
    /\ held[c] = Null
    /\ free_list[p] # Null
    /\ held' = [held EXCEPT ![c] = <<p, free_list[p]>>]
    /\ free_list' = [free_list EXCEPT ![p] = word[p][@]]
    /\ free_count' = [free_count EXCEPT ![p] = @ - 1]
    /\ ops_left' = [ops_left EXCEPT ![p] = @ - 1]
    /\ UNCHANGED <<word, min_free_count, initialised, pool_registry>>
AllocTryUnmarked(c, p) == ops_left[p] > 0 /\ AllocTryUnbudgeted(c, p)
AllocTryInPlace(c, p) ==
    /\ held[c] = Null
    /\ ops_left[p] > 0 /\ free_count[p] > 0
    /\ held' = [held EXCEPT ![c] = <<p, free_list[p]>>]
    /\ free_count' = [free_count EXCEPT ![p] = @ - 1]
    /\ min_free_count' = [min_free_count EXCEPT ![p] =
                            IF free_count[p] - 1 < @ THEN free_count[p] - 1 ELSE @]
    /\ ops_left' = [ops_left EXCEPT ![p] = @ - 1]
    /\ UNCHANGED <<free_list, word, initialised, pool_registry>>

(* smart_mempool_alloc_try returning OK. *)
AllocTry(c, p) ==
    /\ held[c] = Null
    /\ ops_left[p] > 0
    /\ free_list[p] # Null
    /\ held' = [held EXCEPT ![c] = <<p, free_list[p]>>]
    /\ free_list' = [free_list EXCEPT ![p] = word[p][@]]
    /\ free_count' = [free_count EXCEPT ![p] = @ - 1]
    /\ min_free_count' = [min_free_count EXCEPT ![p] =
                            IF free_count[p] - 1 < @ THEN free_count[p] - 1 ELSE @]
    /\ ops_left' = [ops_left EXCEPT ![p] = @ - 1]
    /\ UNCHANGED <<word, initialised, pool_registry>>

(* Mutant of Release: the block keeps its first word. *)
ReleaseUnlinked(p, block) ==
    /\ ops_left[p] > 0
    /\ free_list' = [free_list EXCEPT ![p] = block]
    /\ free_count' = [free_count EXCEPT ![p] = @ + 1]
    /\ ops_left' = [ops_left EXCEPT ![p] = @ - 1]
    /\ UNCHANGED <<word, min_free_count, initialised, pool_registry>>

(* smart_mempool_free_try(p, block) returning OK for a valid block address. *)
Release(p, block) ==
    /\ ops_left[p] > 0
    /\ word' = [word EXCEPT ![p][block] = free_list[p]]
    /\ free_list' = [free_list EXCEPT ![p] = block]
    /\ free_count' = [free_count EXCEPT ![p] = @ + 1]
    /\ ops_left' = [ops_left EXCEPT ![p] = @ - 1]
    /\ UNCHANGED <<min_free_count, initialised, pool_registry>>

(***************************************************************************)
(* A client frees its block through pool q: smart_mempool_address_valid    *)
(* refuses the address unless it lies in the buffer of q.                  *)
(***************************************************************************)
FreeTry(c, q) ==
    \E b \in Block :
        /\ held[c] = <<q, b>>
        /\ Release(q, b)
        /\ held' = [held EXCEPT ![c] = Null]

(* The owner of a block writes to it. *)
WriteBlock(c, p, b) ==
    /\ held[c] = <<p, b>>
    /\ word' = [word EXCEPT ![p][b] = Data]
    /\ UNCHANGED <<free_list, free_count, min_free_count, ops_left, initialised,
                   pool_registry, held>>

(* Mutant of Tick: the loop leaves out the last registered pool. *)
TickAllButLast ==
    /\ ops_left' = [p \in Pool |->
                      IF \E i \in DOMAIN pool_registry :
                            i < Len(pool_registry) /\ pool_registry[i] = p
                      THEN Budget(p) ELSE ops_left[p]]
    /\ UNCHANGED <<free_list, word, free_count, min_free_count, initialised,
                   pool_registry, held>>

(* smart_mempool_tick, called by SysTick_Handler: only registered pools. *)
Tick ==
    /\ ops_left' = [p \in Pool |->
                      IF \E i \in DOMAIN pool_registry : pool_registry[i] = p
                      THEN Budget(p) ELSE ops_left[p]]
    /\ UNCHANGED <<free_list, word, free_count, min_free_count, initialised,
                   pool_registry, held>>

Next ==
    \/ \E p \in Pool : InitPool(p)
    \/ \E c \in Client, p \in Pool : AllocTry(c, p) \/ FreeTry(c, p)
    \/ \E c \in Client, p \in Pool, b \in Block : WriteBlock(c, p, b)
    \/ Tick

Spec == Init /\ [][Next]_vars

(* SysTick keeps coming. *)
FairSpec == Spec /\ WF_vars(Tick)

-----------------------------------------------------------------------------
TypeOK ==
    /\ free_list \in [Pool -> Block \cup {Null, Data}]
    /\ word \in [Pool -> [Block -> Block \cup {Null, Data}]]
    /\ free_count \in [Pool -> 0 .. BlockCount]
    /\ min_free_count \in [Pool -> 0 .. BlockCount]
    /\ ops_left \in [Pool -> Nat]
    /\ \A p \in Pool : ops_left[p] <= Budget(p)
    /\ initialised \subseteq Pool
    /\ pool_registry \in Seq(Pool)
    /\ held \in [Client -> (Pool \X Block) \cup {Null}]

(* s is the free list of pool p, from its head to the null link. *)
IsFreeList(p, s) ==
    LET n == free_count[p]
    IN  /\ free_list[p] = IF n = 0 THEN Null ELSE s[1]
        /\ \A i \in 1 .. n : word[p][s[i]] = IF i = n THEN Null ELSE s[i + 1]
        /\ \A i, j \in 1 .. n : s[i] = s[j] => i = j
        /\ {s[i] : i \in 1 .. n} = Block \ Held(p)

(***************************************************************************)
(* The free list of a pool runs through free_count different blocks, ends  *)
(* in the null link, and holds exactly the blocks no client holds: no      *)
(* block is lost, listed twice, or both free and in use, and no write of a *)
(* client reaches a link.                                                  *)
(***************************************************************************)
FreeListExact ==
    \A p \in initialised :
        \E s \in [1 .. free_count[p] -> Block] : IsFreeList(p, s)

(* No block is in the hands of two clients. *)
NoSharedBlock ==
    \A c, d \in Client : c # d /\ held[c] # Null => held[c] # held[d]

(***************************************************************************)
(* A pool whose budget is used up is usable again after a tick, however    *)
(* many pools were initialised, provided it found room in the registry.    *)
(***************************************************************************)
BudgetReturns ==
    \A p \in Pool :
        (\E i \in DOMAIN pool_registry : pool_registry[i] = p) ~> ops_left[p] > 0

(***************************************************************************)
(* The low-water mark is one: it is never above the present number of free *)
(* blocks and never rises once the pool is in use.                         *)
(***************************************************************************)
LowWaterMark ==
    [][\A p \in initialised :
          /\ min_free_count'[p] <= min_free_count[p]
          /\ min_free_count'[p] <= free_count'[p]]_vars
=============================================================================
