------------------------------ MODULE TestRun ------------------------------
(***************************************************************************)
(* A test run of rcunit: rcu_run_tests, rcu_run_test_reg and                *)
(* rcu_run_test_mod over a database that stays as it is (LinkedDatabase is  *)
(* about building one), with the assertion engine and the exception frames. *)
(*                                                                         *)
(* pc says which function the program is in: a loop of the framework        *)
(* ("regs", "mods", "tests"), a function of the user called by it (User),   *)
(* or main, between two runs ("idle").  A function of the user asserts,     *)
(* opens and closes RCU_TRY blocks, is hit by a signal or throws, and       *)
(* returns.  The framework runs alone between two calls of user functions.  *)
(***************************************************************************)
EXTENDS Integers, Sequences, FiniteSets

CONSTANTS
    Regs,       \* the registries of reg_list, in order
    Mods,       \* Mods[r]: the modules of mod_list of registry r
    Funcs,      \* Funcs[m]: the tests of func_list of module m
    Setups,     \* the modules and tests with an init function
    Teardowns,  \* the modules and tests with a destroy function
    NoMod, NoFunc,
    MaxCalls,   \* bound: what the functions of the user do in one run
    MaxRuns     \* bound: runs

ElementsOf(s) == {s[i] : i \in DOMAIN s}
Reg  == ElementsOf(Regs)
Mod  == UNION {ElementsOf(Mods[r]) : r \in Reg}
Func == UNION {ElementsOf(Funcs[m]) : m \in Mod}

VARIABLES
    mach,    \* the_test_machine, with ae.curr_mod and ae.curr_func
    reg,     \* rcu_registry
    mod,     \* rcu_module
    func,    \* rcu_test
    pc,      \* where the program is
    pos,     \* the cursors of the three loops
    frames,  \* the frames from g_curr_excp_frame outwards: the disposition each saved
    caught,  \* rcu_sig_handler is installed, not what the program had
    calls,   \* calls the user's functions made in this run
    runs,    \* runs started
    hist     \* what happened: see NoHistory

vars == <<mach, reg, mod, func, pc, pos, frames, caught, calls, runs, hist>>
data == <<mach, reg, mod, func, hist>>

Levels   == {"MACH", "REG", "MOD"}
RunCtx   == {"UNKNOWN", "FUNC", "FUNC_INIT", "FUNC_DESTROY", "MOD_INIT", "MOD_DESTROY"}
RunStat  == {"NOTTESTED", "TEST_SUCC", "TEST_FAILED"}
Hooks    == {"hook_started", "hook_finished", "hook_failed"}
Guarded  == {"mod_init", "func_init", "func", "func_destroy", "mod_destroy"}
User     == Hooks \cup Guarded

\* memset of rcu_init_test_mach and of the objects' own initialisation.
NewMach(hook) == [init_done |-> TRUE, run_level |-> "MACH", run_ctx |-> "UNKNOWN",
                  run_hook |-> hook, curr_mod |-> NoMod, curr_func |-> NoFunc,
                  nr_failed_reg |-> 0, nr_succ_reg |-> 0,
                  nr_failed_test |-> 0, nr_succ_test |-> 0]
NewReg  == [nr_failed_mod |-> 0, nr_succ_mod |-> 0]
NewMod  == [nr_failed_test |-> 0, nr_succ_test |-> 0, run_stat |-> "NOTTESTED",
            init_failed |-> FALSE, destroy_failed |-> FALSE]
NewFunc == [run_stat |-> "NOTTESTED", init_failed |-> FALSE, destroy_failed |-> FALSE,
            nr_fail_assert |-> 0, nr_succ_assert |-> 0]

\* due: the tests the guide wants flagged failed in this run; ever: there was one
\* since rcu_init; broken: the modules with a setup or teardown that failed since
\* rcu_init; open: the setups that completed and still want their teardown;
\* asserted: the running test made an assertion; ran: runs since rcu_init; ret and
\* failed: what the last rcu_run_tests returned, and the modules flagged failed at its
\* end; culprit: where the program was when it crashed.
NoHistory == [due |-> {}, ever |-> FALSE, broken |-> {}, open |-> {},
              asserted |-> FALSE, ran |-> 0, ret |-> "none", failed |-> {},
              culprit |-> "none"]

Init ==
    /\ mach = [NewMach(FALSE) EXCEPT !.init_done = FALSE]
    /\ reg = [r \in Reg |-> NewReg]
    /\ mod = [m \in Mod |-> NewMod]
    /\ func = [f \in Func |-> NewFunc]
    /\ pc = "idle"
    /\ pos = [r |-> 0, m |-> 0, f |-> 0]
    /\ frames = <<>>
    /\ caught = FALSE
    /\ calls = 0
    /\ runs = 0
    /\ hist = NoHistory
-----------------------------------------------------------------------------
(***************************************************************************)
(* Exception frames.                                                       *)
(***************************************************************************)

rcu_sig_catch == caught' = TRUE

rcu_sig_restore(saved) == caught' = saved

\* Link the frame, save the signal actions and install the handlers.
RCU_TRY == /\ frames' = <<caught>> \o frames
           /\ rcu_sig_catch

\* Mutant: the outer frame is not linked again.
CatchForgetsOuter == /\ frames' = <<>>
                     /\ caught' = Head(frames)

\* Mutant: the handlers stay installed.
CatchKeepsHandlers == /\ frames' = Tail(frames)
                      /\ UNCHANGED caught

\* RCU_CATCH, reached by siglongjmp or at the end of the block: unlink the frame
\* and restore the signal actions.
RCU_CATCH == /\ frames' = Tail(frames)
             /\ rcu_sig_restore(Head(frames))

\* The end of one block and the start of the next.
RCU_CATCH_TRY == UNCHANGED frames /\ rcu_sig_catch

\* RCU_THROW and rcu_sig_handler write through g_curr_excp_frame.
CanThrow  == frames # <<>>
CanSignal == caught /\ frames # <<>>

\* The frames of the user in the function that is running.
UserFrames == Len(frames) - (IF pc \in Guarded THEN 1 ELSE 0)

Crash == /\ pc' = "crashed"
         /\ hist' = [hist EXCEPT !.culprit = pc]
         /\ UNCHANGED <<mach, reg, mod, func, pos, frames, caught, runs>>
-----------------------------------------------------------------------------
(***************************************************************************)
(* What the framework does between two functions of the user.  s holds the *)
(* data as the function left them.                                         *)
(***************************************************************************)

Now == [mach |-> mach, reg |-> reg, mod |-> mod, func |-> func, hist |-> hist]
Put(s) == /\ mach' = s.mach
          /\ reg' = s.reg
          /\ mod' = s.mod
          /\ func' = s.func
          /\ hist' = s.hist

TheMod  == mach.curr_mod
TheFunc == mach.curr_func

\* Mutant: the flags of the setup and the teardown are forgotten.
CountedByStatus(s) ==
    IF s.func[TheFunc].run_stat = "TEST_FAILED"
    THEN [s EXCEPT !.mod[TheMod].nr_failed_test = @ + 1]
    ELSE [s EXCEPT !.mod[TheMod].nr_succ_test = @ + 1]

\* The tail of the loop over func_list in rcu_run_test_mod_impl.
Counted(s) ==
    LET f   == s.func[TheFunc]
        bad == f.init_failed \/ f.destroy_failed
    IN  IF bad \/ f.run_stat = "TEST_FAILED"
        THEN [s EXCEPT !.func[TheFunc].run_stat = "TEST_FAILED",
                       !.mod[TheMod].nr_failed_test = @ + 1]
        ELSE [s EXCEPT !.mod[TheMod].nr_succ_test = @ + 1]

\* rcu_run_test_func_impl returns: the next test.
EndTest(s) == /\ Put(Counted(s))
              /\ RCU_CATCH
              /\ pc' = "tests"

\* The check for a test without assertions, after the entry function.
Judged(s) ==
    LET f == s.func[TheFunc]
    IN  IF f.run_stat = "TEST_SUCC" /\ f.nr_succ_assert = 0 /\ f.nr_fail_assert = 0
        THEN [s EXCEPT !.func[TheFunc].run_stat = "TEST_FAILED"]
        ELSE s

\* Mutant: a test that failed has no teardown.
EndEntryOnSuccess(s) ==
    \/ /\ TheFunc \in Teardowns
       /\ Judged(s).func[TheFunc].run_stat = "TEST_SUCC"
       /\ Put([Judged(s) EXCEPT !.mach.run_ctx = "FUNC_DESTROY", !.hist.open = @ \ {TheFunc}])
       /\ RCU_CATCH_TRY
       /\ pc' = "func_destroy"
    \/ /\ TheFunc \notin Teardowns \/ Judged(s).func[TheFunc].run_stat # "TEST_SUCC"
       /\ EndTest(Judged(s))

\* The entry function is over: the destroy function, if there is one.
EndEntry(s) ==
    \/ /\ TheFunc \in Teardowns
       /\ Put([Judged(s) EXCEPT !.mach.run_ctx = "FUNC_DESTROY", !.hist.open = @ \ {TheFunc}])
       /\ RCU_CATCH_TRY
       /\ pc' = "func_destroy"
    \/ /\ TheFunc \notin Teardowns
       /\ EndTest(Judged(s))

\* Mutant: only the failed tests are added up.
TotalsFailedOnly(s) ==
    LET m == s.mod[TheMod]
    IN  [s EXCEPT !.mod[TheMod].run_stat = IF m.nr_failed_test = 0 THEN "TEST_SUCC"
                                                                   ELSE "TEST_FAILED",
                  !.mach.nr_failed_test = @ + m.nr_failed_test]

\* The end of rcu_run_test_mod_impl: the module's status and the totals.
Totals(s) ==
    LET m == s.mod[TheMod]
    IN  [s EXCEPT !.mod[TheMod].run_stat = IF m.nr_failed_test = 0 THEN "TEST_SUCC"
                                                                   ELSE "TEST_FAILED",
                  !.mach.nr_failed_test = @ + m.nr_failed_test,
                  !.mach.nr_succ_test = @ + m.nr_succ_test]

\* The tail of the loop over mod_list in rcu_run_test_reg_impl: a module with a
\* failed setup or teardown and its tests are flagged failed, and not counted.
RegCounted(s) ==
    LET m == s.mod[TheMod]
        r == Regs[pos.r]
    IN  IF m.init_failed \/ m.destroy_failed
        THEN [s EXCEPT !.mod[TheMod].run_stat = "TEST_FAILED",
                       !.func = [f \in Func |->
                          IF f \in ElementsOf(Funcs[TheMod])
                          THEN [@[f] EXCEPT !.run_stat = "TEST_FAILED",
                                            !.nr_fail_assert = 0, !.nr_succ_assert = 0]
                          ELSE @[f]]]
        ELSE IF m.run_stat = "TEST_FAILED"
             THEN [s EXCEPT !.reg[r].nr_failed_mod = @ + 1]
             ELSE [s EXCEPT !.reg[r].nr_succ_mod = @ + 1]

\* rcu_run_test_mod_impl is left after the teardown (ok) or by a failed setup or
\* teardown.  At module level the run hook comes before the totals.
EndMod(s, ok) ==
    \/ /\ mach.run_level = "MOD"
       /\ Put(s)
       /\ pc' = IF ok THEN "hook_finished" ELSE "hook_failed"
    \/ /\ mach.run_level # "MOD"
       /\ Put(RegCounted(IF ok THEN Totals(s) ELSE s))
       /\ pc' = "mods"

\* The end of rcu_run_test_reg_impl.
RegVerdict(s) ==
    IF s.reg[Regs[pos.r]].nr_failed_mod > 0
    THEN [s EXCEPT !.mach.nr_failed_reg = @ + 1]
    ELSE [s EXCEPT !.mach.nr_succ_reg = @ + 1]

\* The end of rcu_run_test_mach: the value it returns, and rcu_destroy.
Destroyed(s) ==
    [s EXCEPT !.mach.init_done = FALSE,
              !.hist.ret = IF s.mach.nr_failed_reg > 0 THEN "NG" ELSE "OK",
              !.hist.failed = {m \in Mod : s.mod[m].run_stat = "TEST_FAILED"}]

\* rcu_run_test_mod_impl up to the setup, or up to the loop over func_list.
EnterMod(s, m) ==
    /\ pos' = [pos EXCEPT !.m = IF s.mach.run_level = "MOD" THEN @ ELSE @ + 1, !.f = 0]
    /\ \/ /\ m \in Setups
          /\ Put([s EXCEPT !.mach.curr_mod = m, !.mach.run_ctx = "MOD_INIT"])
          /\ RCU_TRY
          /\ pc' = "mod_init"
       \/ /\ m \notin Setups
          /\ Put([s EXCEPT !.mach.curr_mod = m])
          /\ UNCHANGED <<frames, caught>>
          /\ pc' = "tests"
-----------------------------------------------------------------------------
(***************************************************************************)
(* The loops of rcu_run_tests_impl, rcu_run_test_reg_impl and               *)
(* rcu_run_test_mod_impl.                                                   *)
(***************************************************************************)

\* Mutant: one registry too many.
NextRegPast ==
    /\ pc = "regs"
    /\ pos.r <= Len(Regs)
    /\ pos' = [r |-> pos.r + 1, m |-> 0, f |-> 0]
    /\ pc' = "mods"
    /\ UNCHANGED <<data, frames, caught, calls, runs>>

NextReg ==
    /\ pc = "regs"
    /\ \/ /\ pos.r < Len(Regs)
          /\ pos' = [r |-> pos.r + 1, m |-> 0, f |-> 0]
          /\ pc' = "mods"
       \/ /\ pos.r = Len(Regs)
          /\ pc' = "hook_finished"
          /\ UNCHANGED pos
    /\ UNCHANGED <<data, frames, caught, calls, runs>>

NextMod ==
    /\ pc = "mods"
    /\ LET mods == Mods[Regs[pos.r]]
       IN  \/ /\ pos.m < Len(mods)
              /\ EnterMod(Now, mods[pos.m + 1])
           \/ /\ pos.m = Len(mods)
              /\ \/ mach.run_level = "REG" /\ pc' = "hook_finished" /\ UNCHANGED data
                 \/ mach.run_level = "MACH" /\ pc' = "regs" /\ Put(RegVerdict(Now))
              /\ UNCHANGED <<pos, frames, caught>>
    /\ UNCHANGED <<calls, runs>>

\* The head of rcu_run_test_func_impl.
EnterTest(f) ==
    LET s == [Now EXCEPT !.func[f].run_stat = "TEST_FAILED", !.mach.curr_func = f,
                         !.func[f].nr_fail_assert = 0, !.func[f].nr_succ_assert = 0,
                         !.hist.asserted = FALSE]
    IN  /\ RCU_TRY
        /\ pos' = [pos EXCEPT !.f = @ + 1]
        /\ \/ /\ f \in Setups
              /\ Put([s EXCEPT !.mach.run_ctx = "FUNC_INIT"])
              /\ pc' = "func_init"
           \/ /\ f \notin Setups
              /\ Put([s EXCEPT !.mach.run_ctx = "FUNC"])
              /\ pc' = "func"

NextTest ==
    /\ pc = "tests"
    /\ LET tests == Funcs[TheMod]
       IN  \/ /\ pos.f < Len(tests)
              /\ EnterTest(tests[pos.f + 1])
           \/ /\ pos.f = Len(tests)
              /\ TheMod \in Teardowns
              /\ Put([Now EXCEPT !.mach.run_ctx = "MOD_DESTROY", !.hist.open = @ \ {TheMod}])
              /\ RCU_TRY
              /\ pc' = "mod_destroy"
              /\ UNCHANGED pos
           \/ /\ pos.f = Len(tests)
              /\ TheMod \notin Teardowns
              /\ EndMod(Now, TRUE)
              /\ UNCHANGED <<pos, frames, caught>>
    /\ UNCHANGED <<calls, runs>>
-----------------------------------------------------------------------------
(***************************************************************************)
(* Functions of the user, and main.                                        *)
(***************************************************************************)

Due(s)    == [s EXCEPT !.hist.due = @ \cup {TheFunc}, !.hist.ever = TRUE]
Broken(s) == [s EXCEPT !.hist.broken = @ \cup {TheMod}]

\* siglongjmp to the innermost frame: to the user's own RCU_CATCH, or out of the
\* function, to that of the framework.
Jump(s) ==
    /\ UNCHANGED runs
    /\ \/ /\ UserFrames > 0
          /\ Put(s)
          /\ RCU_CATCH
          /\ UNCHANGED <<pc, pos>>
       \/ /\ UserFrames = 0
          /\ UNCHANGED pos
          /\ \/ pc = "func_init" /\ EndTest(Due(s))
             \/ pc = "func" /\ EndEntry(Due(s))
             \/ pc = "func_destroy" /\ EndTest(s)
             \/ pc \in {"mod_init", "mod_destroy"} /\ RCU_CATCH /\ EndMod(Broken(s), FALSE)

\* A function that the framework called, or main once it has added its tests.
Calls ==
    /\ \/ pc \in Guarded
       \/ pc \in Hooks /\ mach.run_hook
       \/ pc = "idle" /\ mach.init_done
    /\ calls < MaxCalls
    /\ calls' = calls + 1

\* rcu_assert_impl for a condition that holds.
AssertPass ==
    /\ Calls
    /\ LET counted == [func EXCEPT ![TheFunc].nr_succ_assert = @ + 1]
       IN  Put([Now EXCEPT !.func = IF mach.run_ctx = "FUNC" THEN counted ELSE @,
                           !.hist.asserted = @ \/ pc = "func"])
    /\ UNCHANGED <<pc, pos, frames, caught, runs>>

\* What rcu_assert_impl records of a condition that does not hold.  A failure in
\* the setup of a test is recorded as one in its teardown.
Failed(s) ==
    CASE mach.run_ctx = "MOD_INIT"    -> [s EXCEPT !.mod[TheMod].init_failed = TRUE]
      [] mach.run_ctx = "MOD_DESTROY" -> [s EXCEPT !.mod[TheMod].destroy_failed = TRUE]
      [] mach.run_ctx \in {"FUNC_INIT", "FUNC_DESTROY"} ->
            [s EXCEPT !.func[TheFunc].destroy_failed = TRUE]
      [] mach.run_ctx = "FUNC" ->
            [s EXCEPT !.func[TheFunc].nr_fail_assert = @ + 1,
                      !.func[TheFunc].run_stat = "TEST_FAILED"]
      [] OTHER -> s

\* rcu_assert_impl for a condition that does not hold.  It throws except in an
\* unknown context.
AssertFail ==
    LET t == [Failed(Now) EXCEPT !.mach.run_ctx = "UNKNOWN", !.hist.asserted = @ \/ pc = "func"]
        s == CASE pc \in {"func_init", "func_destroy"} -> Due(t)
               [] pc \in {"mod_init", "mod_destroy"} -> Broken(t)
               [] OTHER -> t
    IN  /\ Calls
        /\ \/ /\ mach.run_ctx = "UNKNOWN"
              /\ Put(s)
              /\ UNCHANGED <<pc, pos, frames, caught, runs>>
           \/ mach.run_ctx # "UNKNOWN" /\ CanThrow /\ Jump(s)
           \/ mach.run_ctx # "UNKNOWN" /\ ~CanThrow /\ Crash

\* RCU_THROW in a function of the user.
Throw == /\ Calls
         /\ \/ CanThrow /\ Jump(Now)
            \/ ~CanThrow /\ Crash

\* SIGSEGV, SIGILL, SIGFPE or SIGBUS.
Signal == /\ Calls
          /\ \/ CanSignal /\ Jump(Now)
             \/ ~CanSignal /\ Crash

\* A block of the user's own (main and the hooks have none).
Try    == /\ Calls
          /\ pc \in Guarded
          /\ RCU_TRY
          /\ UNCHANGED <<data, pc, pos, runs>>
EndTry == /\ UserFrames > 0
          /\ RCU_CATCH
          /\ UNCHANGED <<data, pc, pos, calls, runs>>

Open(s, o) == IF o \in Teardowns THEN [s EXCEPT !.hist.open = @ \cup {o}] ELSE s

\* The run hook returns (or there is none): before the run, the counters of the
\* run's level are reset.
HookReturn ==
    /\ pc \in Hooks
    /\ UserFrames = 0
    /\ LET reset == [Now EXCEPT !.mach.nr_failed_reg = 0, !.mach.nr_succ_reg = 0,
                                !.mach.nr_failed_test = 0, !.mach.nr_succ_test = 0]
           done(s) == Put(s) /\ pc' = "idle" /\ UNCHANGED <<pos, frames, caught>>
       IN  \/ /\ pc = "hook_started" /\ mach.run_level = "MACH"
              /\ pc' = "regs"
              /\ UNCHANGED <<data, pos, frames, caught>>
           \/ /\ pc = "hook_started" /\ mach.run_level = "REG"
              /\ pc' = "mods"
              /\ Put([reset EXCEPT !.reg[Regs[pos.r]] = NewReg])
              /\ UNCHANGED <<pos, frames, caught>>
           \/ /\ pc = "hook_started" /\ mach.run_level = "MOD"
              /\ EnterMod([reset EXCEPT !.mod[TheMod].nr_failed_test = 0,
                                        !.mod[TheMod].nr_succ_test = 0], TheMod)
           \/ pc = "hook_finished" /\ mach.run_level = "MACH" /\ done(Destroyed(Now))
           \/ pc = "hook_finished" /\ mach.run_level = "REG"  /\ done(RegVerdict(Now))
           \/ pc = "hook_finished" /\ mach.run_level = "MOD"  /\ done(Totals(Now))
           \/ pc = "hook_failed"   /\ done(Now)
    /\ UNCHANGED <<calls, runs>>

\* Mutant: after the setup of a test the cursor is restored, and the test comes up
\* again.
SetupRepeats ==
    /\ pc \in {"mod_init", "func_init"}
    /\ UserFrames = 0
    /\ \/ pc = "mod_init" /\ Put(Open(Now, TheMod)) /\ UNCHANGED pos
       \/ pc = "func_init" /\ UNCHANGED data /\ pos' = [pos EXCEPT !.f = @ - 1]
    /\ RCU_CATCH
    /\ pc' = "tests"
    /\ UNCHANGED <<calls, runs>>

\* The setup of a module or of a test returns.
SetupReturn ==
    /\ pc \in {"mod_init", "func_init"}
    /\ UserFrames = 0
    /\ UNCHANGED <<pos, calls, runs>>
    /\ \/ /\ pc = "mod_init"
          /\ Put(Open(Now, TheMod))
          /\ RCU_CATCH
          /\ pc' = "tests"
       \/ /\ pc = "func_init"
          /\ Put([Open(Now, TheFunc) EXCEPT !.mach.run_ctx = "FUNC"])
          /\ RCU_CATCH_TRY
          /\ pc' = "func"

\* A test or a teardown returns.
Return ==
    /\ UserFrames = 0
    /\ UNCHANGED <<pos, calls, runs>>
    /\ \/ /\ pc = "func"
          /\ LET s == [Now EXCEPT !.func[TheFunc].run_stat = "TEST_SUCC"]
             IN  EndEntry(IF hist.asserted THEN s ELSE Due(s))
       \/ pc = "func_destroy" /\ EndTest(Now)
       \/ pc = "mod_destroy" /\ RCU_CATCH /\ EndMod(Now, TRUE)

\* rcu_init, and the calls that add the tests and may set the run hook.
Register(hook) ==
    /\ pc = "idle"
    /\ ~mach.init_done
    /\ mach' = NewMach(hook)
    /\ reg' = [r \in Reg |-> NewReg]
    /\ mod' = [m \in Mod |-> NewMod]
    /\ func' = [f \in Func |-> NewFunc]
    /\ hist' = NoHistory
    /\ UNCHANGED <<pc, pos, frames, caught, calls, runs>>

\* rcu_run_test_mach, rcu_run_test_reg_unsupported and rcu_run_test_mod up to the
\* run hook.  Only the last resets the tests' run_stat.
Run(level, r, m) ==
    /\ pc = "idle"
    /\ frames = <<>>
    /\ mach.init_done
    /\ runs < MaxRuns
    /\ runs' = runs + 1
    /\ calls' = 0
    /\ pos' = [r |-> IF level = "REG" THEN r ELSE 0, m |-> 0, f |-> 0]
    /\ Put([Now EXCEPT
          !.mach.run_level = level,
          !.mach.curr_mod = IF level = "MOD" THEN m ELSE @,
          !.func = IF level = "MOD" THEN [f \in Func |-> [@[f] EXCEPT !.run_stat = "NOTTESTED"]]
                                    ELSE @,
          !.hist.due = {}, !.hist.ran = @ + 1])
    /\ pc' = "hook_started"
    /\ UNCHANGED <<frames, caught>>

\* The program has done what it wanted to.
Stop == /\ \/ pc = "crashed"
           \/ pc = "idle" /\ runs = MaxRuns
        /\ UNCHANGED vars

Framework == NextReg \/ NextMod \/ NextTest \/ HookReturn \/ SetupReturn \/ Return \/ EndTry
Next == \/ Framework
        \/ AssertPass \/ AssertFail \/ Throw \/ Signal \/ Try
        \/ \E hook \in BOOLEAN : Register(hook)
        \/ Run("MACH", 0, NoMod)
        \/ \E r \in DOMAIN Regs : Run("REG", r, NoMod)
        \/ \E m \in Mod : Run("MOD", 0, m)
        \/ Stop

Spec == Init /\ [][Next]_vars

\* The functions of the user return: they make MaxCalls calls at most, and the
\* framework waits for nothing.
FairSpec == Spec /\ WF_vars(Framework)
-----------------------------------------------------------------------------
TypeOK ==
    /\ mach \in [init_done : BOOLEAN, run_level : Levels, run_ctx : RunCtx, run_hook : BOOLEAN,
                curr_mod : Mod \cup {NoMod}, curr_func : Func \cup {NoFunc},
                nr_failed_reg : Nat, nr_succ_reg : Nat, nr_failed_test : Nat, nr_succ_test : Nat]
    /\ reg \in [Reg -> [nr_failed_mod : Nat, nr_succ_mod : Nat]]
    /\ mod \in [Mod -> [nr_failed_test : Nat, nr_succ_test : Nat, run_stat : RunStat,
                        init_failed : BOOLEAN, destroy_failed : BOOLEAN]]
    /\ func \in [Func -> [run_stat : RunStat, init_failed : BOOLEAN, destroy_failed : BOOLEAN,
                          nr_fail_assert : Nat, nr_succ_assert : Nat]]
    /\ pc \in User \cup {"idle", "regs", "mods", "tests", "crashed"}
    /\ pos \in [r : 0 .. Len(Regs), m : Nat, f : Nat]
    /\ frames \in Seq(BOOLEAN)
    /\ caught \in BOOLEAN
    /\ calls \in 0 .. MaxCalls
    /\ runs \in 0 .. MaxRuns

\* rcu_run_tests has just returned.
Returned == pc = "idle" /\ ~mach.init_done /\ hist.ret # "none"

\* A test that fails (an assertion of it or of its setup or teardown fails, an
\* exception ends it or its setup, or it has no assertion) makes rcu_run_tests
\* return RCU_E_NG, in a module whose own setup and teardown never failed; and it
\* returns RCU_E_NG for no other reason, whatever ran before since rcu_init.
VerdictSound ==
    Returned =>
        /\ (\E m \in Mod \ hist.broken : hist.due \cap ElementsOf(Funcs[m]) # {}) => hist.ret = "NG"
        /\ hist.ret = "NG" => hist.ever

\* The totals rcu_run_tests reports are those of the run, each test counted once,
\* when it is the first run and no setup or teardown of a module failed.
TotalsExact ==
    Returned /\ hist.ran = 1 /\ hist.broken = {} =>
        /\ mach.nr_failed_test = Cardinality(hist.due)
        /\ mach.nr_succ_test = Cardinality(Func \ hist.due)

\* A setup that completed has its teardown called, whichever way the tests between
\* them end: a test runs inside its own setup and its module's, and no setup is
\* left open behind it.
FixturesPaired ==
    /\ hist.open \subseteq {TheMod, TheFunc}
    /\ pc = "func" =>
          \A o \in {TheMod, TheFunc} : o \in Setups \cap Teardowns => o \in hist.open
    /\ pc \in {"func_init", "tests"} => hist.open \subseteq {TheMod}
    /\ pc \in {"idle", "regs", "mods"} => hist.open = {}

\* "RCUNIT can catch some signals thrown during a test run": nothing that a test,
\* setup or teardown does ends the program.  A run hook, or main after a run, is
\* not protected.
TestsNeverCrash == hist.culprit \notin Guarded

\* The handlers are installed while a frame is linked and only then: outside the
\* functions it calls the framework leaves the program's own signal actions.
SignalsRestored ==
    /\ caught <=> frames # <<>>
    /\ pc \in {"idle", "regs", "mods", "tests"} => frames = <<>>

\* A run ends, or a hook ends the program.
RunEnds == pc # "idle" ~> pc \in {"idle", "crashed"}
-----------------------------------------------------------------------------
\* The comment in rcu_run_test_reg_impl: "If the module's init or destroy function
\* failed, override the module's status to failed, even if all its tests completed
\* successfully."  A run with a module flagged failed is a failed run.
FailedModulesFailTheRun == Returned /\ hist.failed # {} => hist.ret = "NG"
=============================================================================
