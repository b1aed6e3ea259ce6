SPECIFICATION Spec
CONSTANTS
    main = main
    work = work
    f = f
    h = h
    thunk = thunk
    empty = empty
    stub = stub
    Fns = {main, work, f, h, thunk, empty, stub}
    NoSymFns = {stub}
    Nosym = Nosym
    None = None
    Entry <- MCEntry
    CallEdges <- MCCallEdges
    TailEdges <- MCTailEdges
    Chains <- MCChains
    Targets = {None, work}
    CallForms <- AllCalls
    TailForms <- AllTails
    RetForms <- Returns
    JumpForms <- Loops
    MaxInstr = 12
    MaxDepth = 4
CHECK_DEADLOCK FALSE
INVARIANTS EventsTrue
