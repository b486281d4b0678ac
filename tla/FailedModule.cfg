CONSTANTS
    def_reg = def_reg
    r1 = r1
    def_mod = def_mod
    m1 = m1
    t1 = t1
    t2 = t2
    Regs <- MCRegs
    Mods <- MCMods
    Funcs <- MCFuncs
    Setups <- MCFixtures
    Teardowns <- MCFixtures
    NoMod = NoMod
    NoFunc = NoFunc
    MaxCalls = 3
    MaxRuns = 1
SPECIFICATION Spec
INVARIANTS
    FailedModulesFailTheRun
