SPECIFICATION Spec
CONSTANTS
    p1 = p1
    b1 = b1
    b2 = b2
    Projects = {p1}
    Home = Home
    Codex = Codex
    Bodies = {b1, b2}
    Import = Import
    Edited = Edited
    Broken = Broken
    Headless = Headless
    None = None
    r1 = r1
    r2 = r2
    Procs = {r1, r2}
    MaxEvents = 3
    Entitlements <- MCEntitlements
SYMMETRY Symm
INVARIANTS BlocksTracked RemovedIsClean CleanRunSettles DoctorComplete
PROPERTY EntitledKept
