------------------------------ MODULE MemTrace ------------------------------
(***************************************************************************)
(* The pointer cache of rcunit_mtrace.c: a list of tables of TableSize      *)
(* slots that remembers every block rcu_malloc handed out and rcu_free has  *)
(* not taken back.  A cache is a sequence of tables, a table a function     *)
(* from slots to pointers; a slot is used exactly when its pointer is not   *)
(* NULL.  Sizes, counters and the disabled compaction are left out.         *)
(***************************************************************************)
EXTENDS Integers, Sequences

CONSTANT TableSize

ASSUME TableAssumption == TableSize \in Nat \ {0}

NULL == <<"null", 0>>

rcu_cre_ptr_tbl(cache) == Append(cache, [s \in 1 .. TableSize |-> NULL])

Slots(cache) == (DOMAIN cache) \X (1 .. TableSize)

\* The first slot, in the order of the two loops, that holds ptr; none when there is none.
SlotOf(cache, ptr) ==
    LET holds == {x \in Slots(cache) : cache[x[1]][x[2]] = ptr}
    IN  {x \in holds : \A y \in holds : x[1] < y[1] \/ (x[1] = y[1] /\ x[2] <= y[2])}

rcu_find_free_slot(cache) == SlotOf(cache, NULL)

rcu_srch_ptr_info(ptr, cache) == SlotOf(cache, ptr)

Store(cache, slot, ptr) == [cache EXCEPT ![slot[1]][slot[2]] = ptr]

\* grows: whether the allocation of another table succeeds, should one be needed.
rcu_cache_ptr(ptr, cache, grows) ==
    LET wide == IF rcu_find_free_slot(cache) = {} /\ grows THEN rcu_cre_ptr_tbl(cache) ELSE cache
    IN  IF rcu_srch_ptr_info(ptr, cache) # {} \/ rcu_find_free_slot(wide) = {} THEN cache
        ELSE Store(wide, CHOOSE x \in rcu_find_free_slot(wide) : TRUE, ptr)

\* Mutant: only the first table is searched.
UncacheFirstTable(ptr, cache) ==
    LET slots == {x \in rcu_srch_ptr_info(ptr, cache) : x[1] = 1}
    IN  IF slots = {} THEN cache ELSE Store(cache, CHOOSE x \in slots : TRUE, NULL)

rcu_uncache_ptr(ptr, cache) ==
    LET slots == rcu_srch_ptr_info(ptr, cache)
    IN  IF slots = {} THEN cache ELSE Store(cache, CHOOSE x \in slots : TRUE, NULL)

\* What rcu_check_mem_leak_impl and rcu_get_mtrace_results report: one entry per used slot.
Leaks(cache) == {x \in Slots(cache) : cache[x[1]][x[2]] # NULL}

rcu_init_mtrace(grows) == IF grows THEN rcu_cre_ptr_tbl(<<>>) ELSE <<>>
=============================================================================
