--------------------------- MODULE LinkedDatabase ---------------------------
(***************************************************************************)
(* The test database of rcunit as the code keeps it: objects allocated with *)
(* rcu_malloc and chained by intrusive lists, started by whatever call      *)
(* comes first and torn down by rcu_destroy, with the pointer cache that    *)
(* traces every block.  A pointer is <<kind, index>>; the link field comes  *)
(* first in every struct, so a pointer to an object is the pointer to its   *)
(* link.  Index 0 is the default registry and the default module, which are *)
(* fields of the machine and are never deallocated.                         *)
(*                                                                         *)
(* An allocation has one of three outcomes: "ok"; "none", malloc returned   *)
(* NULL; "untraced", the block was handed out but no further pointer table  *)
(* could be allocated for it.                                               *)
(***************************************************************************)
EXTENDS Integers, Sequences, FiniteSets, SequencesExt, RcuList, MemTrace

CONSTANTS
    MaxRegs, MaxMods, MaxFuncs, MaxRecs,  \* bounds: how many blocks of each kind fit in memory
    MaxCalls,   \* bound: how many calls change the database
    Names,      \* names a client gives to registries and modules
    Stored(_),  \* the name kept in the object: the first 255 characters of the one given
    FuncTables, \* tables a client passes to rcu_add_test_func_tbl
    ModTables   \* tables a client passes to rcu_add_test_mod_tbl

VARIABLES
    db,     \* the machine, the blocks and the pointer cache
    view,   \* the lists of db, as loops over them find them
    calls   \* how many calls have changed db

vars == <<db, view, calls>>

Block(kind, max) == {<<kind, i>> : i \in 1 .. max}

def_reg == <<"reg", 0>>
def_mod == <<"mod", 0>>
machine == <<"machine", 0>>

Regs  == Block("reg", MaxRegs) \cup {def_reg}
Mods  == Block("mod", MaxMods) \cup {def_mod}
Funcs == Block("func", MaxFuncs)
Recs  == Block("rec", MaxRecs)

Static == {def_reg, def_mod, machine}
Blocks == (Regs \cup Mods \cup Funcs \cup Recs \cup Block("info", MaxRecs)) \ Static

Outcomes == {"ok", "none", "untraced"}

\* The list heads inside the objects.
reg_list         == <<"reg_list", machine>>
mod_list(reg)    == <<"mod_list", reg>>
func_list(mod)   == <<"func_list", mod>>
fail_rec_list(o) == <<"fail_rec_list", o>>  \* of the machine: its assert_list

info(rec) == <<"info", rec[2]>>

Heads(o) ==
    CASE o[1] = "reg"     -> {mod_list(o)}
      [] o[1] = "mod"     -> {func_list(o), fail_rec_list(o)}
      [] o[1] = "func"    -> {fail_rec_list(o)}
      [] o[1] = "machine" -> {reg_list, fail_rec_list(o)}
      [] OTHER            -> {}

Nodes == {NULL} \cup UNION {{o} \cup Heads(o) : o \in Blocks \cup Static}

\* The object whose memory holds node n.
Owner(n) == IF n[1] \in {"reg_list", "mod_list", "func_list", "fail_rec_list"} THEN n[2] ELSE n

-----------------------------------------------------------------------------
(***************************************************************************)
(* Memory.  live: allocated blocks; bad: a freed block or NULL was accessed, *)
(* or a block was freed twice; untraced: live blocks the cache has no slot   *)
(* for because a table could not be allocated; lost: blocks left allocated   *)
(* by an earlier rcu_destroy.  untraced, lost and bad are history.           *)
(***************************************************************************)

Nil == [next |-> NULL, prev |-> NULL]

Zeroed(h, objs) == [n \in Nodes |-> IF Owner(n) \in objs THEN Nil ELSE h[n]]

Access(d, nodes) == [d EXCEPT !.bad = @ \/ \E n \in nodes : Owner(n) \notin d.live]

LinkLast(d, list, entry) ==
    [Access(d, {list, entry, d.link[list].prev}) EXCEPT !.link = rcu_insert_list(@, list, entry)]

Unlink(d, entry) ==
    [Access(d, {entry, d.link[entry].next, d.link[entry].prev})
        EXCEPT !.link = rcu_remove_list(@, entry)]

InitList(d, list) == [Access(d, {list}) EXCEPT !.link = rcu_init_list(@, list)]

\* An empty list for a head that was never initialised.
List(d, list) == IF d.link[list] = Nil THEN <<>> ELSE Entries(d.link, list)

\* A call returns the database it leaves and the object it hands out.
Result(d, o) == [db |-> d, obj |-> o]

\* Mutant: the result of malloc is used without a check.
MallocUnchecked(d, blocks, out) ==
    LET free == blocks \ (d.live \cup Static)
        o    == IF out = "none" \/ free = {} THEN NULL
                ELSE CHOOSE o \in free : \A p \in free : o[2] <= p[2]
    IN  Result([d EXCEPT !.live = @ \cup {o},
                         !.tbl  = rcu_cache_ptr(o, @, out = "ok")], o)

rcu_malloc(d, blocks, out) ==
    LET free == blocks \ (d.live \cup Static)
        o    == CHOOSE o \in free : \A p \in free : o[2] <= p[2]
        full == rcu_find_free_slot(d.tbl) = {}
    IN  IF out = "none" \/ free = {} THEN Result(d, NULL)
        ELSE Result([d EXCEPT !.live = @ \cup {o},
                              !.link = Zeroed(@, {o}),
                              !.tbl  = rcu_cache_ptr(o, @, out = "ok"),
                              !.untraced = IF full /\ out = "untraced" THEN @ \cup {o} ELSE @],
                    o)

\* What was in a freed block is forgotten: reading it is an access that sets bad.
rcu_free(d, o) ==
    [Access(d, {o}) EXCEPT !.live = @ \ {o},
                           !.link = Zeroed(@, {o}),
                           !.name = [x \in DOMAIN @ |-> IF x = o THEN "" ELSE @[x]],
                           !.tbl  = rcu_uncache_ptr(o, @),
                           !.untraced = @ \ {o}]

-----------------------------------------------------------------------------
(***************************************************************************)
(* Failure records.                                                         *)
(***************************************************************************)

rcu_cre_fail_rec(d, out1, out2) ==
    LET rec == rcu_malloc(d, Recs, out1)
        str == rcu_malloc(rec.db, {info(rec.obj)}, out2)
    IN  IF rec.obj = NULL THEN rec
        ELSE IF str.obj = NULL THEN Result(rcu_free(rec.db, rec.obj), NULL)
        ELSE Result(InitList(str.db, rec.obj), rec.obj)

rcu_add_fail_rec_impl(d, list, out1, out2) ==
    LET rec == rcu_cre_fail_rec(d, out1, out2)
    IN  IF rec.obj = NULL THEN rec.db ELSE LinkLast(rec.db, list, rec.obj)

\* Mutant: a record is freed before it is taken out of the list.
DelFreesFirst(d, list) ==
    FoldLeft(LAMBDA a, x : Unlink(rcu_free(rcu_free(a, info(x)), x), x), d, List(d, list))

rcu_del_all_fail_rec_impl(d, list) ==
    FoldLeft(LAMBDA a, x : rcu_free(Unlink(rcu_free(a, info(x)), x), x), d, List(d, list))

\* Mutant: the records of the modules are forgotten.
DelFuncFailRecs(d) ==
    LET mods  == FlattenSeq([i \in DOMAIN List(d, reg_list) |->
                                List(d, mod_list(List(d, reg_list)[i]))])
        funcs == FlattenSeq([i \in DOMAIN mods |-> List(d, func_list(mods[i]))])
    IN  FoldLeft(LAMBDA a, o : rcu_del_all_fail_rec_impl(a, fail_rec_list(o)), d,
                 Append(funcs, machine))

\* The records of each module's tests, then its own; last those made outside of a test run.
rcu_del_all_fail_rec(d) ==
    LET regs  == List(d, reg_list)
        mods  == FlattenSeq([i \in DOMAIN regs |-> List(d, mod_list(regs[i]))])
        owners == FlattenSeq([i \in DOMAIN mods |-> Append(List(d, func_list(mods[i])), mods[i])])
    IN  FoldLeft(LAMBDA a, o : rcu_del_all_fail_rec_impl(a, fail_rec_list(o)), d,
                 Append(owners, machine))

-----------------------------------------------------------------------------
(***************************************************************************)
(* Modules and registries.  name "" stands for a NULL name.                 *)
(***************************************************************************)

DefaultReg == "default-reg"
DefaultMod == "default-mod"

rcu_init_mod(d, mod, name) ==
    [InitList(InitList(d, mod), func_list(mod)) EXCEPT !.name[mod] = Stored(name)]

rcu_init_reg(d, reg, name) ==
    [InitList(InitList(d, reg), mod_list(reg)) EXCEPT !.name[reg] = Stored(name)]

rcu_add_mod_to_reg(d, reg, mod) ==
    IF mod = NULL THEN d
    ELSE InitList(LinkLast(InitList(d, mod), mod_list(reg), mod), fail_rec_list(mod))

\* The first registry of the list with that name.
rcu_srch_reg_by_name(d, name) ==
    SelectSeq(List(d, reg_list), LAMBDA r : d.name[r] = name)

\* Mutant: only the pointer is looked up, not the name.
AddRegByRef(d, reg) ==
    IF reg = NULL \/ reg \in ToSet(List(d, reg_list)) THEN d
    ELSE LinkLast(InitList(d, reg), reg_list, reg)

rcu_add_test_reg(d, reg) ==
    IF \/ reg = NULL
       \/ reg \in ToSet(List(d, reg_list))
       \/ rcu_srch_reg_by_name(d, d.name[reg]) # <<>>
    THEN d
    ELSE LinkLast(InitList(d, reg), reg_list, reg)

\* rcu_init, which every call of the interface makes first.
rcu_init(d, grows) ==
    LET zero == [d EXCEPT !.link = Zeroed(@, Static)]
        head == [InitList(InitList(zero, reg_list), fail_rec_list(machine))
                    EXCEPT !.ready = TRUE, !.tbl = rcu_init_mtrace(grows)]
        regs == rcu_add_test_reg(rcu_init_reg(head, def_reg, DefaultReg), def_reg)
    IN  IF d.ready THEN d
        ELSE rcu_add_mod_to_reg(rcu_init_mod(regs, def_mod, DefaultMod), def_reg, def_mod)

rcu_cre_test_mod(d, name, out) ==
    LET mod == rcu_malloc(d, Mods, out)
    IN  IF mod.obj = NULL THEN mod
        ELSE IF name \in {"", DefaultMod} THEN Result(rcu_free(mod.db, mod.obj), NULL)
        ELSE Result(rcu_init_mod(mod.db, mod.obj, name), mod.obj)

rcu_cre_test_reg(d, name, out) ==
    LET reg == rcu_malloc(d, Regs, out)
    IN  IF reg.obj = NULL THEN reg
        ELSE IF name \in {"", DefaultReg} THEN Result(rcu_free(reg.db, reg.obj), NULL)
        ELSE Result(rcu_init_reg(reg.db, reg.obj, name), reg.obj)

rcu_srch_mod_by_name_global(d, name) ==
    {m \in Mods : \E r \in ToSet(List(d, reg_list)) :
                     m \in ToSet(List(d, mod_list(r))) /\ d.name[m] = name}

rcu_get_mod(d, name, out) ==
    LET mod == rcu_cre_test_mod(d, name, out)
    IN  IF name = "" \/ rcu_srch_mod_by_name_global(d, name) # {} THEN d
        ELSE rcu_add_mod_to_reg(mod.db, def_reg, mod.obj)

rcu_get_reg(d, name, out) ==
    LET reg == rcu_cre_test_reg(d, name, out)
    IN  IF rcu_srch_reg_by_name(d, name) # <<>> THEN d
        ELSE rcu_add_test_reg(reg.db, reg.obj)

rcu_add_test_func(d, mod, out) ==
    LET func == rcu_malloc(d, Funcs, out)
        f    == func.obj
    IN  IF f = NULL THEN d
        ELSE LinkLast(InitList(InitList(func.db, f), fail_rec_list(f)), func_list(mod), f)

\* A table is the sequence of its entries' outcomes; "invalid" is an entry without a function.
rcu_add_test_func_tbl(d, mod, tbl) ==
    FoldLeft(LAMBDA a, out : IF out = "invalid" THEN a ELSE rcu_add_test_func(a, mod, out), d, tbl)

\* An entry without a table of tests, or whose module cannot be created, is skipped.
rcu_add_test_mod_tbl(d, reg, tbl) ==
    LET Add(a, e) ==
            LET mod == rcu_cre_test_mod(a, e.name, e.out)
            IN  IF ~e.has_tbl THEN a
                ELSE IF mod.obj = NULL THEN mod.db
                ELSE rcu_add_test_func_tbl(rcu_add_mod_to_reg(mod.db, reg, mod.obj),
                                           mod.obj, e.func_tbl)
    IN  FoldLeft(Add, d, tbl)

-----------------------------------------------------------------------------
(***************************************************************************)
(* Tear-down.                                                               *)
(***************************************************************************)

rcu_destroy_test_mod(d, mod) ==
    LET empty == FoldLeft(LAMBDA a, f : rcu_free(Unlink(a, f), f), d, List(d, func_list(mod)))
        apart == Unlink(empty, mod)
    IN  IF d.name[mod] = DefaultMod THEN apart ELSE rcu_free(apart, mod)

\* Each module is unlinked here and once more, with the same effect, when it is destroyed.
rcu_destroy_test_reg(d, reg) ==
    LET empty == FoldLeft(LAMBDA a, m : rcu_destroy_test_mod(Unlink(a, m), m), d,
                          List(d, mod_list(reg)))
        apart == Unlink(empty, reg)
    IN  IF d.name[reg] = DefaultReg THEN apart ELSE rcu_free(apart, reg)

rcu_destroy_test_dbase(d) ==
    FoldLeft(LAMBDA a, r : rcu_destroy_test_reg(Unlink(a, r), r), d, List(d, reg_list))

\* A database that is not started.  rcu_init zeroes the machine, and nobody uses a
\* block that is lost, so no link or name matters.
Fresh ==
    [ready |-> FALSE, live |-> Static, tbl |-> <<>>, link |-> [n \in Nodes |-> Nil],
     name |-> [o \in Regs \cup Mods |-> ""], untraced |-> {}, lost |-> {}, bad |-> FALSE]

\* The pointer cache goes last: blocks that are still allocated are no longer traced.
rcu_destroy(d) ==
    LET empty == rcu_destroy_test_dbase(rcu_del_all_fail_rec(d))
    IN  IF ~d.ready THEN d
        ELSE [Fresh EXCEPT !.live = empty.live, !.lost = empty.live \ Static, !.bad = empty.bad]

-----------------------------------------------------------------------------
(***************************************************************************)
(* The client.  It uses a handle only while the object exists, and none     *)
(* after rcu_destroy; it adds a module once, and destroys the default       *)
(* registry and module only while they are in the database.                 *)
(***************************************************************************)

Usable(d) == (d.live \ d.lost) \cup Static

Listed(d, mod) == \E r \in Regs \cap Usable(d) : mod \in ToSet(List(d, mod_list(r)))

\* The database that the first line of every call, rcu_init, leaves.
Started == {rcu_init(db, grows) : grows \in BOOLEAN}

\* The lists that a client can reach.  A database that is not started shows what
\* rcu_init will make of it.
ViewOf(d) ==
    LET e == rcu_init(d, TRUE)
        Shown(o, list) == IF o \in Usable(e) THEN List(e, list) ELSE <<>>
    IN  [regs  |-> List(e, reg_list),
         mods  |-> [r \in Regs |-> Shown(r, mod_list(r))],
         funcs |-> [m \in Mods |-> Shown(m, func_list(m))],
         recs  |-> [o \in Mods \cup Funcs \cup {machine} |-> Shown(o, fail_rec_list(o))]]

Init == db = Fresh /\ view = ViewOf(Fresh) /\ calls = 0

\* The call ends in one of the databases ds; one that changes nothing is no step.
Return(ds) ==
    /\ calls < MaxCalls
    /\ \E d \in ds \ {db} : db' = d /\ view' = ViewOf(d)
    /\ calls' = calls + 1

GetReg ==
    \E d \in Started, name \in Names \cup {DefaultReg} :
        Return({rcu_get_reg(d, name, out) : out \in Outcomes})

GetMod ==
    \E d \in Started, name \in Names \cup {DefaultMod} :
        Return({rcu_get_mod(d, name, out) : out \in Outcomes})

CreMod ==
    \E d \in Started, name \in Names \cup {"", DefaultMod} :
        Return({rcu_cre_test_mod(d, name, out).db : out \in Outcomes})

AddMod ==
    \E d \in Started : \E reg \in Regs \cap Usable(d), mod \in (Mods \ Static) \cap Usable(d) :
        /\ ~Listed(d, mod)
        /\ Return({rcu_add_mod_to_reg(d, reg, mod)})

AddTest ==
    \E d \in Started : \E mod \in Mods \cap Usable(d) :
        Return({rcu_add_test_func(d, mod, out) : out \in Outcomes})

AddFuncTbl ==
    \E d \in Started : \E mod \in Mods \cap Usable(d) :
        Return({rcu_add_test_func_tbl(d, mod, tbl) : tbl \in FuncTables})

AddModTbl ==
    \E d \in Started : \E reg \in Regs \cap Usable(d) :
        Return({rcu_add_test_mod_tbl(d, reg, tbl) : tbl \in ModTables})

\* A failed assertion; a module has its list of records once it is in a registry.
AddFailRec ==
    \E d \in Started : \E o \in (Mods \cup Funcs \cup {machine}) \cap Usable(d) :
        /\ d.link[fail_rec_list(o)] # Nil
        /\ Return({rcu_add_fail_rec_impl(d, fail_rec_list(o), out1, out2) :
                        out1, out2 \in Outcomes})

DestroyMod ==
    \E d \in Started : \E mod \in Mods \cap Usable(d) :
        /\ Listed(d, mod) \/ mod # def_mod
        /\ Return({rcu_destroy_test_mod(d, mod)})

DestroyReg ==
    \E d \in Started : \E reg \in Regs \cap Usable(d) :
        /\ reg \in ToSet(List(d, reg_list)) \/ reg # def_reg
        /\ Return({rcu_destroy_test_reg(d, reg)})

Destroy == Return({rcu_destroy(db)})

Next ==
    \/ GetReg \/ GetMod \/ CreMod \/ AddMod \/ AddTest \/ AddFuncTbl \/ AddModTbl
    \/ AddFailRec \/ DestroyMod \/ DestroyReg \/ Destroy

Spec == Init /\ [][Next]_vars

-----------------------------------------------------------------------------
Heap(d) == d.live \ Static

\* Blocks, links, names and tables are what the structs of rcunit.h and
\* rcunit_mtrace.h hold; only allocated blocks are traced, lost or untraced.
TypeOK ==
    /\ calls \in 0 .. MaxCalls /\ db.ready \in BOOLEAN /\ db.bad \in BOOLEAN
    /\ Static \subseteq db.live /\ Heap(db) \subseteq Blocks
    /\ db.untraced \subseteq Heap(db) /\ db.lost \subseteq Heap(db)
    /\ db.link \in [Nodes -> [next : Nodes, prev : Nodes]]
    /\ \A i \in DOMAIN db.tbl : db.tbl[i] \in [1 .. TableSize -> Blocks \cup {NULL}]

\* No sequence of calls, whatever allocations fail, makes the list and memory
\* functions read or write a freed block or NULL, or free a block twice: an object is
\* out of every list before it is freed (rcu_destroy_test_mod, rcu_destroy_test_reg,
\* rcu_del_all_fail_rec_impl).
NoBadAccess == ~db.bad

\* The leak check counts exactly the blocks that are still allocated: each of them, but
\* for those that found no table, is in one slot of the cache and nothing else is
\* (rcu_malloc, rcu_free, rcu_cache_ptr, rcu_uncache_ptr).
TraceExact ==
    db.ready =>
        LET traced == Heap(db) \ (db.lost \cup db.untraced)
        IN  /\ {db.tbl[x[1]][x[2]] : x \in Leaks(db.tbl)} = traced
            /\ Cardinality(Leaks(db.tbl)) = Cardinality(traced)

\* Two registries of the machine never have the same name (rcu_add_test_reg).
RegNamesUnique ==
    LET regs == ToSet(List(db, reg_list))
    IN  \A r, s \in regs : db.name[r] = db.name[s] => r = s

\* The blocks rcu_destroy can find from the machine.
Reachable(d) ==
    LET mods  == UNION {ToSet(List(d, mod_list(r))) : r \in ToSet(List(d, reg_list))}
        funcs == UNION {ToSet(List(d, func_list(m))) : m \in mods}
        recs  == UNION {ToSet(List(d, fail_rec_list(o))) : o \in mods \cup funcs \cup {machine}}
    IN  (ToSet(List(d, reg_list)) \cup mods \cup funcs \cup recs \cup {info(x) : x \in recs}) \ Static

\* rcu_destroy frees every object that hangs from the machine, the failure records
\* of modules and tests included, and no other block.
DestroyFreesAll ==
    [][db.ready /\ ~db'.ready => db'.live = db.live \ Reachable(db)]_vars

-----------------------------------------------------------------------------
\* The linked lists stand for the sequences of TestDatabase.
Abstract == INSTANCE TestDatabase
    WITH TableLen <- 2,
         regs <- view.regs, mods <- view.mods, funcs <- view.funcs, recs <- view.recs

\* Every call of the interface has, on the chained objects, the effect that
\* TestDatabase describes on sequences: what is added comes last in one list, what is
\* destroyed leaves its list and nothing else moves.
ImplementsDatabase == Abstract!Spec
=============================================================================
