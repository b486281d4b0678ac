----------------------------- MODULE MCTestRun -----------------------------
(***************************************************************************)
(* The default registry with the default module, which has no tests, and a  *)
(* registry with a module that has a setup and a teardown, as one of its    *)
(* two tests has.                                                          *)
(***************************************************************************)
EXTENDS TestRun, TLC

CONSTANTS def_reg, r1, def_mod, m1, t1, t2

MCRegs  == <<def_reg, r1>>
MCMods  == def_reg :> <<def_mod>> @@ r1 :> <<m1>>
MCFuncs == def_mod :> <<>> @@ m1 :> <<t1, t2>>
MCFixtures == {m1, t1}
=============================================================================
