--------------------------- MODULE TestRunProofs ---------------------------
(***************************************************************************)
(* The exception frames of rcunit, for every database of tests and every    *)
(* behaviour of the functions of the user.                                  *)
(***************************************************************************)
EXTENDS TestRun, TLAPS

\* The outermost frame saved the program's own signal actions, every other one the
\* handlers of rcunit; the handlers are installed while there is a frame.
FramesOK(f, c) ==
    /\ f \in Seq(BOOLEAN) /\ c \in BOOLEAN
    /\ c <=> f # <<>>
    /\ \A i \in 1 .. Len(f) : f[i] <=> i # Len(f)

Fields == {"due", "ever", "broken", "open", "asserted", "ran", "ret", "failed", "culprit"}

\* There is a frame exactly while a function runs that the framework protects.
IInv ==
    /\ FramesOK(frames, caught)
    /\ pc \in Guarded <=> frames # <<>>
    /\ DOMAIN hist = Fields
    /\ hist.culprit \notin Guarded

\* What the framework computes on the data leaves the history of crashes alone.
Data(s) ==
    /\ DOMAIN s = {"mach", "reg", "mod", "func", "hist"}
    /\ DOMAIN s.hist = Fields
    /\ s.hist.culprit = hist.culprit

-----------------------------------------------------------------------------
LEMMA TryFrames ==
    ASSUME FramesOK(frames, caught), RCU_TRY
    PROVE  FramesOK(frames, caught)' /\ frames' # <<>>
<1>1. frames \in Seq(BOOLEAN) /\ caught \in BOOLEAN
  BY DEF FramesOK
<1>2. /\ frames' \in Seq(BOOLEAN) /\ Len(frames') = Len(frames) + 1 /\ frames' # <<>>
      /\ \A i \in 1 .. Len(frames') : frames'[i] = IF i = 1 THEN caught ELSE frames[i - 1]
  BY <1>1 DEF RCU_TRY, rcu_sig_catch
<1>3. caught' = TRUE
  BY DEF RCU_TRY, rcu_sig_catch
<1>4. ASSUME NEW i \in 1 .. Len(frames') PROVE frames'[i] <=> i # Len(frames')
  <2>1. CASE i = 1
    <3>1. i # Len(frames') <=> frames # <<>>
      BY <1>1, <1>2, <2>1
    <3> QED
      BY <1>2, <2>1, <3>1 DEF FramesOK
  <2>2. CASE i # 1
    <3>1. i - 1 \in 1 .. Len(frames) /\ (i - 1 # Len(frames) <=> i # Len(frames'))
      BY <1>1, <1>2, <2>2
    <3>2. frames[i - 1] <=> i - 1 # Len(frames)
      BY <3>1 DEF FramesOK
    <3> QED
      BY <1>2, <2>2, <3>1, <3>2
  <2> QED
    BY <2>1, <2>2
<1> QED
  BY <1>2, <1>3, <1>4 DEF FramesOK

LEMMA CatchFrames ==
    ASSUME FramesOK(frames, caught), frames # <<>>, RCU_CATCH
    PROVE  FramesOK(frames, caught)' /\ (frames' = <<>> <=> Len(frames) = 1)
<1>1. frames \in Seq(BOOLEAN) /\ Len(frames) \in Nat \ {0}
  BY DEF FramesOK
<1>2. /\ frames' \in Seq(BOOLEAN) /\ Len(frames') = Len(frames) - 1
      /\ \A i \in 1 .. Len(frames') : frames'[i] = frames[i + 1]
  BY <1>1 DEF RCU_CATCH, rcu_sig_restore
<1>3. frames' = <<>> <=> Len(frames) = 1
  BY <1>1, <1>2
<1>4. caught' = frames[1] /\ frames[1] \in BOOLEAN
  <2>1. 1 \in 1 .. Len(frames)
    BY <1>1
  <2>2. frames[1] \in BOOLEAN
    BY <1>1, <2>1
  <2>3. Head(frames) = frames[1]
    BY <1>1, <2>1
  <2> QED
    BY <2>2, <2>3, Zenon DEF RCU_CATCH, rcu_sig_restore
<1>5. frames[1] <=> 1 # Len(frames)
  <2>1. 1 \in 1 .. Len(frames)
    BY <1>1
  <2> QED
    BY <2>1, Zenon DEF FramesOK
<1>6. ASSUME NEW i \in 1 .. Len(frames') PROVE frames'[i] <=> i # Len(frames')
  <2>1. i + 1 \in 1 .. Len(frames) /\ (i + 1 # Len(frames) <=> i # Len(frames'))
    BY <1>1, <1>2
  <2>2. frames[i + 1] <=> i + 1 # Len(frames)
    BY <2>1 DEF FramesOK
  <2> QED
    BY <1>2, <2>1, <2>2
<1> QED
  BY <1>2, <1>3, <1>4, <1>5, <1>6 DEF FramesOK

LEMMA CatchTryFrames ==
    ASSUME FramesOK(frames, caught), frames # <<>>, RCU_CATCH_TRY
    PROVE  FramesOK(frames, caught)' /\ frames' # <<>>
BY DEF RCU_CATCH_TRY, rcu_sig_catch, FramesOK

-----------------------------------------------------------------------------
LEMMA NowData == IInv => Data(Now)
BY DEF IInv, Data, Now

LEMMA PutData ==
    ASSUME IInv, NEW s, Data(s), Put(s)
    PROVE  DOMAIN hist' = Fields /\ hist'.culprit \notin Guarded
BY DEF IInv, Data, Put

LEMMA CountedData == ASSUME NEW s, Data(s) PROVE Data(Counted(s))
BY DEF Data, Counted

LEMMA JudgedData == ASSUME NEW s, Data(s) PROVE Data(Judged(s))
BY DEF Data, Judged

LEMMA TotalsData == ASSUME NEW s, Data(s) PROVE Data(Totals(s))
BY DEF Data, Totals

LEMMA RegCountedData == ASSUME NEW s, Data(s) PROVE Data(RegCounted(s))
BY DEF Data, RegCounted

LEMMA RegVerdictData == ASSUME NEW s, Data(s) PROVE Data(RegVerdict(s))
BY DEF Data, RegVerdict

LEMMA DestroyedData == ASSUME NEW s, Data(s) PROVE Data(Destroyed(s))
BY DEF Data, Destroyed, Fields

LEMMA FailedData == ASSUME NEW s, Data(s) PROVE Data(Failed(s))
BY DEF Data, Failed

LEMMA MarksData ==
    ASSUME NEW s, Data(s), NEW o PROVE Data(Due(s)) /\ Data(Broken(s)) /\ Data(Open(s, o))
BY DEF Data, Due, Broken, Open, Fields

-----------------------------------------------------------------------------
(***************************************************************************)
(* How the framework leaves a function it protects: each of these comes     *)
(* with Data(s), from a state with one frame.                               *)
(***************************************************************************)
OneFrame == IInv /\ Len(frames) = 1

LEMMA LastCatch == ASSUME OneFrame, RCU_CATCH PROVE FramesOK(frames, caught)' /\ frames' = <<>>
<1>1. frames # <<>>
  BY DEF OneFrame
<1> QED
  BY <1>1, CatchFrames DEF OneFrame, IInv

LEMMA EndTestInv == ASSUME OneFrame, NEW s, Data(s), EndTest(s) PROVE IInv'
<1>1. FramesOK(frames, caught)' /\ frames' = <<>>
  BY LastCatch DEF EndTest
<1>2. DOMAIN hist' = Fields /\ hist'.culprit \notin Guarded
  BY CountedData, PutData DEF EndTest, OneFrame
<1>3. pc' \notin Guarded
  BY DEF EndTest, Guarded
<1> QED
  BY <1>1, <1>2, <1>3 DEF IInv

LEMMA EndEntryInv == ASSUME OneFrame, NEW s, Data(s), EndEntry(s) PROVE IInv'
<1> DEFINE t == [Judged(s) EXCEPT !.mach.run_ctx = "FUNC_DESTROY", !.hist.open = @ \ {TheFunc}]
<1>1. Data(Judged(s))
  BY JudgedData
<1>2. Data(t)
  BY <1>1 DEF Data, Fields
<1>3. CASE Put(t) /\ RCU_CATCH_TRY /\ pc' = "func_destroy"
  <2>1. frames # <<>>
    BY DEF OneFrame
  <2>2. FramesOK(frames, caught)' /\ frames' # <<>>
    BY <1>3, <2>1, CatchTryFrames DEF OneFrame, IInv
  <2>3. DOMAIN hist' = Fields /\ hist'.culprit \notin Guarded
    BY <1>2, <1>3, PutData DEF OneFrame
  <2>4. pc' \in Guarded
    BY <1>3 DEF Guarded
  <2> QED
    BY <2>2, <2>3, <2>4 DEF IInv
<1>4. CASE EndTest(Judged(s))
  BY <1>1, <1>4, EndTestInv
<1> QED
  BY <1>3, <1>4 DEF EndEntry

\* The module is left without a frame, or by RCU_CATCH with the last one.
LEMMA EndModInv ==
    ASSUME IInv, NEW s, Data(s), NEW ok, EndMod(s, ok), FramesOK(frames, caught)', frames' = <<>>
    PROVE  IInv'
<1>1. Data(RegCounted(IF ok THEN Totals(s) ELSE s))
  <2>1. Data(IF ok THEN Totals(s) ELSE s)
    BY TotalsData
  <2> QED
    BY <2>1, RegCountedData
<1>2. DOMAIN hist' = Fields /\ hist'.culprit \notin Guarded
  BY <1>1, PutData DEF EndMod
<1>3. pc' \notin Guarded
  BY DEF EndMod, Guarded
<1> QED
  BY <1>2, <1>3 DEF IInv

LEMMA EnterModInv ==
    ASSUME IInv, frames = <<>>, NEW s, Data(s), NEW m, EnterMod(s, m) PROVE IInv'
<1> DEFINE t == [s EXCEPT !.mach.curr_mod = m, !.mach.run_ctx = "MOD_INIT"]
           u == [s EXCEPT !.mach.curr_mod = m]
<1>1. Data(t) /\ Data(u)
  BY DEF Data
<1>2. CASE Put(t) /\ RCU_TRY /\ pc' = "mod_init"
  <2>1. FramesOK(frames, caught)' /\ frames' # <<>>
    BY <1>2, TryFrames DEF IInv
  <2>2. DOMAIN hist' = Fields /\ hist'.culprit \notin Guarded
    BY <1>1, <1>2, PutData
  <2> QED
    BY <1>2, <2>1, <2>2 DEF IInv, Guarded
<1>3. CASE Put(u) /\ UNCHANGED <<frames, caught>> /\ pc' = "tests"
  <2>2. DOMAIN hist' = Fields /\ hist'.culprit \notin Guarded
    BY <1>1, <1>3, PutData
  <2> QED
    BY <1>3, <2>2 DEF IInv, Guarded, FramesOK
<1> QED
  BY <1>2, <1>3 DEF EnterMod

\* A protected function has a frame of the framework's; without others it has just that.
LEMMA InnerFrame ==
    ASSUME IInv, pc \in Guarded
    PROVE  /\ frames # <<>> /\ Len(frames) \in Nat \ {0}
           /\ UserFrames = 0 => OneFrame
           /\ UserFrames > 0 => Len(frames) # 1
BY DEF IInv, FramesOK, UserFrames, OneFrame

LEMMA NoUserFrames == ASSUME IInv, pc \notin Guarded PROVE frames = <<>> /\ UserFrames = 0
BY DEF IInv, UserFrames

\* siglongjmp out of a protected function, or to a frame inside it.
LEMMA JumpInv == ASSUME IInv, pc \in Guarded, NEW s, Data(s), Jump(s) PROVE IInv'
<1>1. CASE UserFrames > 0 /\ Put(s) /\ RCU_CATCH /\ UNCHANGED <<pc, pos>>
  <2>1. FramesOK(frames, caught)' /\ frames' # <<>>
    BY <1>1, InnerFrame, CatchFrames DEF IInv
  <2>2. DOMAIN hist' = Fields /\ hist'.culprit \notin Guarded
    BY <1>1, PutData
  <2> QED
    BY <1>1, <2>1, <2>2 DEF IInv
<1>2. CASE UserFrames = 0
  <2>0. OneFrame
    BY <1>2, InnerFrame
  <2>1. Data(Due(s)) /\ Data(Broken(s))
    BY MarksData
  <2>2. CASE EndTest(Due(s)) \/ EndTest(s)
    BY <2>0, <2>1, <2>2, EndTestInv
  <2>3. CASE EndEntry(Due(s))
    BY <2>0, <2>1, <2>3, EndEntryInv
  <2>4. CASE RCU_CATCH /\ EndMod(Broken(s), FALSE)
    <3>1. FramesOK(frames, caught)' /\ frames' = <<>>
      BY <2>0, <2>4, LastCatch
    <3> QED
      BY <2>1, <2>4, <3>1, EndModInv
  <2>5. ~(UserFrames > 0)
    BY <1>2
  <2> QED
    BY <2>2, <2>3, <2>4, <2>5 DEF Jump
<1> QED
  BY <1>1, <1>2 DEF Jump

-----------------------------------------------------------------------------
(***************************************************************************)
(* The actions.                                                             *)
(***************************************************************************)
LEMMA InitInv == Init => IInv
<1> SUFFICES ASSUME Init PROVE IInv
  OBVIOUS
<1>1. FramesOK(frames, caught)
  <2>1. frames = <<>> /\ caught = FALSE
    BY DEF Init
  <2>2. <<>> \in Seq(BOOLEAN) /\ \A i \in 1 .. Len(<<>>) : FALSE
    OBVIOUS
  <2> QED
    BY <2>1, <2>2, Zenon DEF FramesOK
<1>2. DOMAIN hist = Fields /\ hist.culprit = "none"
  BY DEF Init, NoHistory, Fields
<1> QED
  BY <1>1, <1>2 DEF Init, IInv, Guarded

\* A step that leaves frames alone, between two places of the same kind.
LEMMA SameFrames ==
    ASSUME IInv, UNCHANGED <<frames, caught>>, pc' \in Guarded <=> pc \in Guarded,
           DOMAIN hist' = Fields /\ hist'.culprit \notin Guarded
    PROVE  IInv'
BY DEF IInv, FramesOK

LEMMA LoopsInv == ASSUME IInv, NextReg \/ NextMod PROVE IInv'
<1>0. Data(Now) /\ Data(RegVerdict(Now))
  BY NowData, RegVerdictData
<1>1. CASE NextReg
  <2>1. UNCHANGED <<frames, caught, hist>> /\ pc = "regs" /\ pc' \in {"mods", "hook_finished"}
    BY <1>1 DEF NextReg, data
  <2> QED
    BY <2>1, SameFrames DEF Guarded, IInv
<1>2. CASE NextMod
  <2> DEFINE mods == Mods[Regs[pos.r]]
  <2>0. frames = <<>>
    BY <1>2, NoUserFrames DEF NextMod, Guarded
  <2>1. CASE EnterMod(Now, mods[pos.m + 1])
    BY <1>0, <2>0, <2>1, EnterModInv
  <2>2. CASE /\ pc' = "hook_finished" /\ UNCHANGED data
             /\ UNCHANGED <<pos, frames, caught>>
    BY <1>2, <2>2, SameFrames DEF NextMod, data, Guarded, IInv
  <2>3. CASE /\ pc' = "regs" /\ Put(RegVerdict(Now))
             /\ UNCHANGED <<pos, frames, caught>>
    <3>1. DOMAIN hist' = Fields /\ hist'.culprit \notin Guarded
      BY <1>0, <2>3, PutData
    <3> QED
      BY <1>2, <2>3, <3>1, SameFrames DEF NextMod, Guarded
  <2> QED
    BY <1>2, <2>1, <2>2, <2>3 DEF NextMod
<1> QED
  BY <1>1, <1>2

LEMMA EnterTestInv == ASSUME IInv, frames = <<>>, NEW f, EnterTest(f) PROVE IInv'
<1> DEFINE s == [Now EXCEPT !.func[f].run_stat = "TEST_FAILED", !.mach.curr_func = f,
                            !.func[f].nr_fail_assert = 0, !.func[f].nr_succ_assert = 0,
                            !.hist.asserted = FALSE]
<1>1. Data(s)
  BY NowData DEF Data, Fields
<1> HIDE DEF s
<1>2. FramesOK(frames, caught)' /\ frames' # <<>>
  BY TryFrames DEF IInv, EnterTest
<1>3. PICK ctx : Put([s EXCEPT !.mach.run_ctx = ctx])
  BY DEF EnterTest, s
<1>4. DOMAIN hist' = Fields /\ hist'.culprit \notin Guarded
  BY <1>1, <1>3, PutData DEF Data
<1>5. pc' \in Guarded
  BY DEF EnterTest, Guarded
<1> QED
  BY <1>2, <1>4, <1>5 DEF IInv

LEMMA NextTestInv == ASSUME IInv, NextTest PROVE IInv'
<1> DEFINE t == [Now EXCEPT !.mach.run_ctx = "MOD_DESTROY", !.hist.open = @ \ {TheMod}]
<1>0. frames = <<>> /\ Data(Now) /\ Data(t)
  BY NoUserFrames, NowData DEF NextTest, Guarded, Data, Fields
<1>1. CASE \E f : EnterTest(f)
  BY <1>0, <1>1, EnterTestInv
<1>2. CASE Put(t) /\ RCU_TRY /\ pc' = "mod_destroy"
  <2>1. FramesOK(frames, caught)' /\ frames' # <<>>
    BY <1>2, TryFrames DEF IInv
  <2>2. DOMAIN hist' = Fields /\ hist'.culprit \notin Guarded
    BY <1>0, <1>2, PutData
  <2> QED
    BY <1>2, <2>1, <2>2 DEF IInv, Guarded
<1>3. CASE EndMod(Now, TRUE) /\ UNCHANGED <<pos, frames, caught>>
  <2>1. FramesOK(frames, caught)' /\ frames' = <<>>
    BY <1>0, <1>3 DEF IInv, FramesOK
  <2> QED
    BY <1>0, <1>3, <2>1, EndModInv
<1> QED
  BY <1>1, <1>2, <1>3 DEF NextTest

LEMMA HookReturnInv == ASSUME IInv, HookReturn PROVE IInv'
<1> DEFINE reset == [Now EXCEPT !.mach.nr_failed_reg = 0, !.mach.nr_succ_reg = 0,
                                !.mach.nr_failed_test = 0, !.mach.nr_succ_test = 0]
           rreg == [reset EXCEPT !.reg[Regs[pos.r]] = NewReg]
           rmod == [reset EXCEPT !.mod[TheMod].nr_failed_test = 0, !.mod[TheMod].nr_succ_test = 0]
<1>1. frames = <<>> /\ pc \notin Guarded
  BY NoUserFrames DEF HookReturn, Hooks, Guarded
<1>2. Data(Now) /\ Data(rreg) /\ Data(rmod)
  BY NowData DEF Data
<1>3. Data(Destroyed(Now)) /\ Data(RegVerdict(Now)) /\ Data(Totals(Now))
  BY <1>2, DestroyedData, RegVerdictData, TotalsData
<1>4. CASE pc' = "regs" /\ UNCHANGED <<data, pos, frames, caught>>
  BY <1>1, <1>4, SameFrames DEF data, Guarded, IInv
<1>5. CASE EnterMod(rmod, TheMod)
  BY <1>1, <1>2, <1>5, EnterModInv
<1>6. CASE /\ \E s \in {rreg, Now, Destroyed(Now), RegVerdict(Now), Totals(Now)} : Put(s)
           /\ pc' \in {"mods", "idle"} /\ UNCHANGED <<pos, frames, caught>>
  <2>1. DOMAIN hist' = Fields /\ hist'.culprit \notin Guarded
    BY <1>2, <1>3, <1>6, PutData
  <2> QED
    BY <1>1, <1>6, <2>1, SameFrames DEF Guarded
<1> QED
  BY <1>4, <1>5, <1>6 DEF HookReturn

LEMMA SetupReturnInv == ASSUME IInv, SetupReturn PROVE IInv'
<1>1. OneFrame /\ frames # <<>>
  BY InnerFrame DEF SetupReturn, Guarded
<1>2. Data(Open(Now, TheMod)) /\ Data([Open(Now, TheFunc) EXCEPT !.mach.run_ctx = "FUNC"])
  <2>1. Data(Open(Now, TheMod)) /\ Data(Open(Now, TheFunc))
    BY NowData, MarksData
  <2> QED
    BY <2>1 DEF Data
<1>3. DOMAIN hist' = Fields /\ hist'.culprit \notin Guarded
  BY <1>2, PutData DEF SetupReturn
<1>4. CASE RCU_CATCH /\ pc' = "tests"
  BY <1>1, <1>3, <1>4, LastCatch DEF IInv, Guarded
<1>5. CASE RCU_CATCH_TRY /\ pc' = "func"
  BY <1>1, <1>3, <1>5, CatchTryFrames DEF IInv, Guarded
<1> QED
  BY <1>4, <1>5 DEF SetupReturn

LEMMA ReturnInv == ASSUME IInv, Return PROVE IInv'
<1> DEFINE s == [Now EXCEPT !.func[TheFunc].run_stat = "TEST_SUCC"]
           t == IF hist.asserted THEN s ELSE Due(s)
<1>1. OneFrame
  BY InnerFrame DEF Return, Guarded
<1>2. Data(Now) /\ Data(s)
  BY NowData DEF Data
<1>3. Data(t)
  BY <1>2, MarksData
<1>4. CASE EndEntry(t)
  BY <1>1, <1>3, <1>4, EndEntryInv
<1>5. CASE EndTest(Now)
  BY <1>1, <1>2, <1>5, EndTestInv
<1>6. CASE RCU_CATCH /\ EndMod(Now, TRUE)
  <2>1. FramesOK(frames, caught)' /\ frames' = <<>>
    BY <1>1, <1>6, LastCatch
  <2> QED
    BY <1>2, <1>6, <2>1, EndModInv
<1> QED
  BY <1>4, <1>5, <1>6 DEF Return

\* A crash needs a place without a frame.
LEMMA CrashInv == ASSUME IInv, pc \notin Guarded, Crash PROVE IInv'
<1>1. UNCHANGED <<frames, caught>> /\ pc' = "crashed" /\ hist' = [hist EXCEPT !.culprit = pc]
  BY DEF Crash
<1>2. DOMAIN hist' = Fields /\ hist'.culprit = pc
  BY <1>1 DEF IInv, Fields
<1> QED
  BY <1>1, <1>2, SameFrames DEF Guarded

\* In a protected function an exception has a frame to go to, and elsewhere none.
LEMMA ThrowInv ==
    ASSUME IInv, NEW s, Data(s),
           \/ CanThrow /\ Jump(s)
           \/ ~CanThrow /\ Crash
           \/ CanSignal /\ Jump(s)
           \/ ~CanSignal /\ Crash
    PROVE  IInv'
<1>1. CanThrow <=> pc \in Guarded
  BY DEF CanThrow, IInv
<1>2. CanSignal <=> pc \in Guarded
  BY DEF CanSignal, IInv, FramesOK
<1> QED
  BY <1>1, <1>2, JumpInv, CrashInv

LEMMA UserInv == ASSUME IInv, AssertPass \/ AssertFail \/ Throw \/ Signal PROVE IInv'
<1>0. Data(Now)
  BY NowData
<1>1. CASE AssertPass
  <2> DEFINE counted == [func EXCEPT ![TheFunc].nr_succ_assert = @ + 1]
             s == [Now EXCEPT !.func = IF mach.run_ctx = "FUNC" THEN counted ELSE @,
                              !.hist.asserted = @ \/ pc = "func"]
  <2>1. Put(s) /\ UNCHANGED <<pc, frames, caught>>
    BY <1>1 DEF AssertPass
  <2>2. Data(s)
    BY <1>0 DEF Data, Fields
  <2>3. DOMAIN hist' = Fields /\ hist'.culprit \notin Guarded
    BY <2>1, <2>2, PutData
  <2> QED
    BY <2>1, <2>3, SameFrames
<1>2. CASE AssertFail
  <2> DEFINE t == [Failed(Now) EXCEPT !.mach.run_ctx = "UNKNOWN", !.hist.asserted = @ \/ pc = "func"]
             s == CASE pc \in {"func_init", "func_destroy"} -> Due(t)
                    [] pc \in {"mod_init", "mod_destroy"} -> Broken(t)
                    [] OTHER -> t
  <2>1. Data(t)
    BY <1>0, FailedData DEF Data, Fields
  <2>2. Data(Due(t)) /\ Data(Broken(t))
    BY <2>1, MarksData
  <2> HIDE DEF t
  <2>3. Data(s)
    BY <2>1, <2>2
  <2>4. \/ Put(s) /\ UNCHANGED <<pc, frames, caught>>
        \/ CanThrow /\ Jump(s)
        \/ ~CanThrow /\ Crash
    BY <1>2 DEF AssertFail, t
  <2> HIDE DEF s
  <2>5. CASE Put(s) /\ UNCHANGED <<pc, frames, caught>>
    <3>1. DOMAIN hist' = Fields /\ hist'.culprit \notin Guarded
      BY <2>3, <2>5, PutData
    <3> QED
      BY <2>5, <3>1, SameFrames
  <2> QED
    BY <2>3, <2>4, <2>5, ThrowInv
<1>3. CASE Throw
  BY <1>0, <1>3, ThrowInv DEF Throw
<1>4. CASE Signal
  BY <1>0, <1>4, ThrowInv DEF Signal
<1> QED
  BY <1>1, <1>2, <1>3, <1>4

LEMMA BlocksInv == ASSUME IInv, Try \/ EndTry PROVE IInv'
<1>1. UNCHANGED <<pc, hist>>
  BY DEF Try, EndTry, data
<1>2. CASE Try
  BY <1>1, <1>2, TryFrames DEF Try, IInv
<1>3. CASE EndTry
  <2>1. pc \in Guarded
    BY <1>3, NoUserFrames DEF EndTry
  <2>2. FramesOK(frames, caught)' /\ frames' # <<>>
    BY <1>3, <2>1, InnerFrame, CatchFrames DEF EndTry, IInv
  <2> QED
    BY <1>1, <2>1, <2>2 DEF IInv
<1> QED
  BY <1>2, <1>3

LEMMA MainInv ==
    ASSUME IInv, (\E hook \in BOOLEAN : Register(hook)) \/ \E level, r, m : Run(level, r, m)
    PROVE  IInv'
<1>1. CASE \E hook \in BOOLEAN : Register(hook)
  <2>1. UNCHANGED <<pc, frames, caught>> /\ hist' = NoHistory
    BY <1>1 DEF Register
  <2>2. DOMAIN hist' = Fields /\ hist'.culprit = "none"
    BY <2>1 DEF NoHistory, Fields
  <2>3. "none" \notin Guarded
    BY DEF Guarded
  <2> QED
    BY <2>1, <2>2, <2>3, SameFrames
<1>2. ASSUME NEW level, NEW r, NEW m, Run(level, r, m) PROVE IInv'
  <2>1. pc = "idle" /\ pc' = "hook_started" /\ UNCHANGED <<frames, caught>>
    BY <1>2 DEF Run
  <2>2. hist' = [hist EXCEPT !.due = {}, !.ran = @ + 1]
    BY <1>2 DEF Run, Put, Now
  <2>3. DOMAIN hist' = Fields /\ hist'.culprit \notin Guarded
    BY <2>2 DEF IInv, Fields
  <2> QED
    BY <2>1, <2>3, SameFrames DEF Guarded
<1> QED
  BY <1>1, <1>2

LEMMA NextInv == IInv /\ [Next]_vars => IInv'
<1> SUFFICES ASSUME IInv, [Next]_vars PROVE IInv'
  OBVIOUS
<1>1. CASE UNCHANGED vars
  BY <1>1 DEF vars, IInv, FramesOK
<1>2. CASE Framework
  BY <1>2, LoopsInv, NextTestInv, HookReturnInv, SetupReturnInv, ReturnInv, BlocksInv DEF Framework
<1> QED
  BY <1>1, <1>2, UserInv, BlocksInv, MainInv DEF Next, Stop

-----------------------------------------------------------------------------
\* Whatever the database and whatever its functions do, rcunit's handlers are installed
\* only inside the functions it protects, and RCU_CATCH brings the program's own signal
\* actions back, however the blocks are nested and left.
THEOREM SignalsAlwaysRestored == Spec => []SignalsRestored
<1>1. IInv => SignalsRestored
  BY DEF IInv, FramesOK, SignalsRestored, Guarded
<1> QED
  BY <1>1, InitInv, NextInv, PTL DEF Spec

\* No exception, failed assertion or signal of a test, setup or teardown ends the
\* program: in each of them there is a frame to jump to.
THEOREM NoTestCrashes == Spec => []TestsNeverCrash
<1>1. IInv => TestsNeverCrash
  BY DEF IInv, TestsNeverCrash
<1> QED
  BY <1>1, InitInv, NextInv, PTL DEF Spec
=============================================================================
