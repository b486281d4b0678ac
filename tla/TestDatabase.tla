---------------------------- MODULE TestDatabase ----------------------------
(***************************************************************************)
(* What the test database of rcunit promises to its client: registries hold *)
(* modules, modules hold tests, and modules, tests and the machine hold     *)
(* failure records, each in the order they were added.  The database is     *)
(* always there: whatever call comes first finds the default registry with  *)
(* the default module in it, and rcu_destroy brings that state back.        *)
(***************************************************************************)
EXTENDS Sequences, SequencesExt

CONSTANTS Regs, Mods, Funcs, Recs, def_reg, def_mod, machine,
          TableLen  \* bound: modules or tests added by one call

VARIABLES regs, mods, funcs, recs

vars == <<regs, mods, funcs, recs>>

Holders == Mods \cup Funcs \cup {machine}

Init ==
    /\ regs  = <<def_reg>>
    /\ mods  = [r \in Regs |-> IF r = def_reg THEN <<def_mod>> ELSE <<>>]
    /\ funcs = [m \in Mods |-> <<>>]
    /\ recs  = [o \in Holders |-> <<>>]

\* Nothing is in two of the lists, or twice in one.
Once(lists) ==
    /\ \A l \in DOMAIN lists : IsInjective(lists[l])
    /\ \A l, k \in DOMAIN lists : l # k => ToSet(lists[l]) \cap ToSet(lists[k]) = {}

\* New registries, modules, tests and records go to the end of one list.
AddReg(r) ==
    /\ r \notin ToSet(regs)
    /\ regs' = Append(regs, r)
    /\ UNCHANGED <<mods, funcs, recs>>

\* Modules may come with new tests: a table of modules lists the tests of each.
AddMods(r, ms) ==
    /\ mods' = [mods EXCEPT ![r] = @ \o ms]
    /\ DOMAIN funcs' = Mods
    /\ \A m \in Mods : IF m \in ToSet(ms) THEN IsPrefix(funcs[m], funcs'[m])
                      ELSE funcs'[m] = funcs[m]
    /\ recs' = [o \in Holders |-> IF o \in ToSet(ms) THEN <<>> ELSE recs[o]]
    /\ Once(mods') /\ Once(funcs')
    /\ UNCHANGED regs

AddFuncs(m, fs) ==
    /\ funcs' = [funcs EXCEPT ![m] = @ \o fs]
    /\ Once(funcs')
    /\ UNCHANGED <<regs, mods, recs>>

AddRec(o, x) ==
    /\ recs' = [recs EXCEPT ![o] = Append(@, x)]
    /\ Once(recs')
    /\ UNCHANGED <<regs, mods, funcs>>

\* Modules ms disappear, with their tests and the records of both; only the records
\* of the default module, which is not deallocated, stay with it.
Emptied(ms) ==
    LET gone == UNION {ToSet(funcs[m]) : m \in ms} \cup (ms \ {def_mod})
    IN  /\ funcs' = [m \in Mods |-> IF m \in ms THEN <<>> ELSE funcs[m]]
        /\ recs'  = [o \in Holders |-> IF o \in gone THEN <<>> ELSE recs[o]]

DropMod(m) ==
    /\ mods' = [r \in Regs |-> SelectSeq(mods[r], LAMBDA x : x # m)]
    /\ Emptied({m})
    /\ UNCHANGED regs

DropReg(r) ==
    /\ regs' = SelectSeq(regs, LAMBDA x : x # r)
    /\ mods' = [mods EXCEPT ![r] = <<>>]
    /\ Emptied(ToSet(mods[r]))

Reset ==
    /\ regs'  = <<def_reg>>
    /\ mods'  = [r \in Regs |-> IF r = def_reg THEN <<def_mod>> ELSE <<>>]
    /\ funcs' = [m \in Mods |-> <<>>]
    /\ recs'  = [o \in Holders |-> <<>>]

Next ==
    \/ \E r \in Regs : AddReg(r) \/ DropReg(r)
    \/ \E r \in Regs, ms \in SeqOf(Mods, TableLen) : AddMods(r, ms)
    \/ \E m \in Mods : DropMod(m)
    \/ \E m \in Mods, fs \in SeqOf(Funcs, TableLen) : AddFuncs(m, fs)
    \/ \E o \in Holders, x \in Recs : AddRec(o, x)
    \/ Reset

Spec == Init /\ [][Next]_vars
=============================================================================
