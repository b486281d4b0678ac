------------------------------ MODULE RcuList ------------------------------
(***************************************************************************)
(* The intrusive list of rcunit_list.c.  A memory h gives each node its     *)
(* next and prev; a list is named by its head, which is a node as well.     *)
(***************************************************************************)
EXTENDS Integers, Sequences, FiniteSets

rcu_init_list(h, list) ==
    [h EXCEPT ![list] = [next |-> list, prev |-> list]]

\* Mutant: at the front of the list.
InsertFirst(h, list, entry) ==
    LET first == h[list].next
        h1    == [h EXCEPT ![entry] = [next |-> first, prev |-> list]]
        h2    == [h1 EXCEPT ![first].prev = entry]
    IN  [h2 EXCEPT ![list].next = entry]

\* At the end of the list.  The writes are made in the order of the code.
rcu_insert_list(h, list, entry) ==
    LET last == h[list].prev
        h1   == [h EXCEPT ![entry] = [next |-> list, prev |-> last]]
        h2   == [h1 EXCEPT ![last].next = entry]
    IN  [h2 EXCEPT ![list].prev = entry]

\* The entry keeps its own pointers.
rcu_remove_list(h, entry) ==
    LET h1 == [h EXCEPT ![h[entry].prev].next = h[entry].next]
    IN  IF h[entry].next = entry THEN h
        ELSE [h1 EXCEPT ![h1[entry].next].prev = h1[entry].prev]

\* RCU_FOR_EACH_ENTRY: the entries in the order the loop visits them.  A loop that has
\* not come back to the head after as many steps as there are nodes never will; it is
\* cut off there.
Entries(h, list) ==
    LET visit[node \in DOMAIN h, steps \in Nat] ==
            IF node = list \/ steps = 0 THEN <<>>
            ELSE <<node>> \o visit[h[node].next, steps - 1]
    IN  visit[h[list].next, Cardinality(DOMAIN h)]

-----------------------------------------------------------------------------
(***************************************************************************)
(* The shape of a memory of lists: next and prev are inverse to each other  *)
(* on every node of N.                                                      *)
(***************************************************************************)
Memory(h, N) == h \in [N -> [next : N, prev : N]]

Paired(h, N) == \A n \in N : h[h[n].next].prev = n /\ h[h[n].prev].next = n
=============================================================================
