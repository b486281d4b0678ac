--------------------------- MODULE RcuListProofs ---------------------------
(***************************************************************************)
(* What rcu_init_list, rcu_insert_list and rcu_remove_list do to a memory   *)
(* of lists, for every memory and every number of lists in it.              *)
(***************************************************************************)
EXTENDS RcuList, TLAPS

\* rcu_insert_list puts an entry that is in no list (it points to itself) between the
\* old last entry and the head: it becomes the last, every other pointer stays, and
\* next and prev are still inverse to each other.
THEOREM InsertAppends ==
    ASSUME NEW N, NEW h, Memory(h, N), Paired(h, N),
           NEW list \in N, NEW entry \in N, entry # list, h[entry].next = entry,
           NEW g, g = rcu_insert_list(h, list, entry)
    PROVE  /\ Memory(g, N) /\ Paired(g, N)
           /\ g[list].prev = entry /\ g[entry].next = list
           /\ g[entry].prev = h[list].prev /\ g[h[list].prev].next = entry
           /\ \A n \in N \ {entry} : n # h[list].prev => g[n].next = h[n].next
           /\ \A n \in N \ {entry} : n # list => g[n].prev = h[n].prev
<1> DEFINE last == h[list].prev
           h1   == [h EXCEPT ![entry] = [next |-> list, prev |-> last]]
           h2   == [h1 EXCEPT ![last].next = entry]
<1>1. g = [h2 EXCEPT ![list].prev = entry]
  BY DEF rcu_insert_list
<1>2. /\ last \in N /\ h[entry].prev = entry
      /\ last # entry
  BY DEF Memory, Paired
<1>3. h1 \in [N -> [next : N, prev : N]]
  BY <1>2 DEF Memory
<1>4. h2 \in [N -> [next : N, prev : N]]
  BY <1>2, <1>3
<1>5. \A n \in N : /\ h2[n].next = IF n = last THEN entry ELSE IF n = entry THEN list ELSE h[n].next
                   /\ h2[n].prev = IF n = entry THEN last ELSE h[n].prev
  BY <1>2, <1>3 DEF Memory
<1> HIDE DEF h2
<1>6. Memory(g, N)
  BY <1>1, <1>4 DEF Memory
<1>7. \A n \in N : /\ g[n].next = h2[n].next
                   /\ g[n].prev = IF n = list THEN entry ELSE h2[n].prev
  BY <1>1, <1>4
<1> HIDE DEF h1, last
<1>8. \A n \in N : /\ g[n].next = IF n = last THEN entry ELSE IF n = entry THEN list ELSE h[n].next
                   /\ g[n].prev = IF n = list THEN entry ELSE IF n = entry THEN last ELSE h[n].prev
  BY <1>5, <1>7
<1>9. ASSUME NEW n \in N
      PROVE  g[g[n].next].prev = n /\ g[g[n].prev].next = n
  <2>1. /\ h[n].next \in N /\ h[n].prev \in N
        /\ h[h[n].next].prev = n /\ h[h[n].prev].next = n
        /\ h[last].next = list /\ h[list].prev = last
    BY DEF Memory, Paired, last
  <2>2. CASE n = entry
    BY <1>2, <1>8, <2>2
  <2>3. CASE n # entry
    <3>1. h[n].next # entry /\ h[n].prev # entry
      BY <1>2, <2>1, <2>3
    <3>2. g[g[n].next].prev = n
      BY <1>2, <1>8, <2>1, <2>3, <3>1
    <3>3. g[g[n].prev].next = n
      BY <1>2, <1>8, <2>1, <2>3, <3>1
    <3> QED
      BY <3>2, <3>3
  <2> QED
    BY <2>2, <2>3
<1> QED
  BY <1>2, <1>6, <1>8, <1>9 DEF Paired, last

\* rcu_remove_list takes the entry out of its list: its neighbours point to each other,
\* no other pointer changes, and no node but the entry itself points to it any more.
THEOREM RemoveUnlinks ==
    ASSUME NEW N, NEW h, Memory(h, N), Paired(h, N),
           NEW entry \in N, h[entry].next # entry,
           NEW g, g = rcu_remove_list(h, entry)
    PROVE  /\ Memory(g, N) /\ g[entry] = h[entry]
           /\ g[h[entry].prev].next = h[entry].next /\ g[h[entry].next].prev = h[entry].prev
           /\ \A n \in N : n # h[entry].prev => g[n].next = h[n].next
           /\ \A n \in N : n # h[entry].next => g[n].prev = h[n].prev
           /\ \A n \in N \ {entry} : /\ g[n].next \in N \ {entry} /\ g[n].prev \in N \ {entry}
                                     /\ g[g[n].next].prev = n /\ g[g[n].prev].next = n
<1> DEFINE p  == h[entry].prev
           q  == h[entry].next
           h1 == [h EXCEPT ![p].next = q]
<1>1. /\ p \in N /\ q \in N /\ p # entry /\ q # entry
      /\ h[p].next = entry /\ h[q].prev = entry
  BY DEF Memory, Paired
<1>2. h1 \in [N -> [next : N, prev : N]]
  BY <1>1 DEF Memory
<1>3. \A n \in N : /\ h1[n].next = IF n = p THEN q ELSE h[n].next
                   /\ h1[n].prev = h[n].prev
  BY <1>1 DEF Memory
<1>4. h1[entry] = h[entry]
  BY <1>1 DEF Memory
<1>5. g = [h1 EXCEPT ![q].prev = p]
  BY <1>4 DEF rcu_remove_list
<1> HIDE DEF h1, p, q
<1>6. Memory(g, N) /\ g[entry] = h1[entry]
  BY <1>1, <1>2, <1>5 DEF Memory
<1>7. \A n \in N : /\ g[n].next = IF n = p THEN q ELSE h[n].next
                   /\ g[n].prev = IF n = q THEN p ELSE h[n].prev
  BY <1>1, <1>2, <1>3, <1>5
<1>8. ASSUME NEW n \in N \ {entry}
      PROVE  /\ g[n].next \in N \ {entry} /\ g[n].prev \in N \ {entry}
             /\ g[g[n].next].prev = n /\ g[g[n].prev].next = n
  <2>1. /\ h[n].next \in N /\ h[n].prev \in N
        /\ h[h[n].next].prev = n /\ h[h[n].prev].next = n
        /\ h[entry].next = q /\ h[entry].prev = p
    BY DEF Memory, Paired, p, q
  <2>2. g[n].next \in N \ {entry} /\ g[n].prev \in N \ {entry}
    BY <1>1, <1>7, <2>1
  <2>3. g[g[n].next].prev = n
    BY <1>1, <1>7, <2>1
  <2>4. g[g[n].prev].next = n
    BY <1>1, <1>7, <2>1
  <2> QED
    BY <2>2, <2>3, <2>4
<1> QED
  BY <1>1, <1>4, <1>6, <1>7, <1>8 DEF p, q
=============================================================================
