------------------------------ MODULE TraceGen ------------------------------
(***************************************************************************)
(* iminnt/trace_gen.py: the profile that TraceGen makes from retires.log.  *)
(*                                                                         *)
(* The log is what a RISC-V machine retired.  The machine is modelled with *)
(* its true activations, and TraceGen reads each line as it is written:    *)
(* Instruction.from_str parses it, is_call, is_tail_call and is_return     *)
(* classify it, process_instr keeps call_stack and call_starts and emits   *)
(* events.  An action is one line of the log: one turn of the loop of      *)
(* run_trace.  The profile is right when its events are the activations    *)
(* that the machine really completed.                                      *)
(***************************************************************************)
EXTENDS Naturals, Sequences

CONSTANTS
    Fns,         \* the functions of the binary
    NoSymFns,    \* those without a symbol, such as the stubs of the PLT
    Nosym,       \* NOSYM_NAME
    None,        \* prev_fn, fn_target: None
    Entry,       \* what the first instruction of a function is
    CallEdges,   \* who calls whom
    TailEdges,   \* who ends with a jump to whom
    Chains,      \* the call chains in which the log may begin
    Targets,     \* the values of fn_target
    CallForms, TailForms, RetForms, JumpForms,  \* how the log writes them
    MaxInstr, MaxDepth

\* Operands as they are written: registers, and "addr" for an expression over
\* pc.  int(a, 16) reads a5 as a number, so it is "hex" once it is parsed.
Operands == [ra |-> "x1", zero |-> "x0", t0 |-> "x5", t1 |-> "x6",
             t3 |-> "x28", t4 |-> "x29", a5 |-> "hex"]

Written == [mnem : {"add", "jal", "jalr", "j", "jr", "c.j", "c.jal", "c.jr", "c.jalr", "ret"},
            args : UNION {[1..n -> DOMAIN Operands \cup {"addr"}] : n \in 0..2}]

ASSUME TraceAssumption ==
    /\ NoSymFns \subseteq Fns /\ Nosym \notin Fns /\ None \notin Fns \cup {Nosym}
    /\ Entry \in [Fns -> {"plain", "tail", "ret"}]
    /\ CallEdges \subseteq Fns \X Fns /\ TailEdges \subseteq Fns \X Fns
    /\ \A c \in Chains : c \in Seq(Fns) /\ c # <<>>
    /\ Targets \subseteq (Fns \ NoSymFns) \cup {None}
    /\ CallForms \cup TailForms \cup RetForms \cup JumpForms \subseteq Written
    /\ MaxInstr \in Nat /\ MaxDepth \in Nat

VARIABLES
    line,        \* lines of the log so far, for the cycle of the last one
    frames,      \* the machine's activations
    fresh,       \* the next instruction is the first of its activation
    profile,     \* the activations that have ended, as they really were
    target,      \* fn_target
    active,      \* trace_active
    callStack, callStarts, events, prevFn, prevCat,
    raised       \* an exception has ended run_trace

machineVars == <<line, frames, fresh, profile>>
traceVars   == <<active, callStack, callStarts, events, prevFn, prevCat, raised>>
vars == <<machineVars, target, traceVars>>

Symbols == (Fns \ NoSymFns) \cup {Nosym}
Cats    == {"instr", "call", "tail", "return"}

\* An activation: its function, the number of its first line (0: before the
\* log), whether the profile is to have it, and the callers it is to show.
Frames  == [fn : Fns, at : Nat, traced : BOOLEAN, stack : Seq(Symbols)]
Events  == [name : Symbols, ts : Nat, end : Nat, stack : Seq(Symbols)]

TypeOK ==
    /\ line \in 0..MaxInstr
    /\ frames \in Seq(Frames) /\ frames # <<>>
    /\ fresh \in BOOLEAN /\ profile \in Seq(Events)
    /\ target \in Targets /\ active \in BOOLEAN /\ raised \in BOOLEAN
    /\ callStack \in Seq(Symbols) /\ callStarts \in Seq(Nat) /\ events \in Seq(Events)
    /\ prevFn \in Symbols \cup {None} /\ prevCat \in Cats

\* TraceGen.__init__.  The log begins somewhere in one of the call chains.
Init ==
    /\ line = 0 /\ profile = <<>> /\ fresh = FALSE
    /\ \E c \in Chains : frames = [i \in 1..Len(c) |->
                               [fn |-> c[i], at |-> 0, traced |-> FALSE, stack |-> <<>>]]
    /\ target \in Targets /\ active = (target = None) /\ raised = FALSE
    /\ callStack = <<>> /\ callStarts = <<>> /\ events = <<>>
    /\ prevFn = None /\ prevCat = "instr"

-----------------------------------------------------------------------------
(* Instruction and SymResolver.                                            *)

\* Mutant: lookup_sym without its last line returns None.
Symbol_NoReturn(f) == IF f \in NoSymFns THEN None ELSE f

\* lookup_sym for an address inside of f.
Symbol(f) == IF f \in NoSymFns THEN Nosym ELSE f

\* syms.fn_starts
FnStarts == Fns \ NoSymFns

IsInt(op) == op \in Fns \cup {"inside", "hex"}

Parse(arg, dest) == IF arg = "addr" THEN dest ELSE Operands[arg]

\* from_str: operands are parsed, then "j addr" becomes "jal x0, addr", and
\* so on.  The second expansion also sees the result of the first.  A line
\* without a cycle or a pc is None, which run_trace skips: it is left out here.
FromStr(w, dest) ==
    LET ops   == [i \in DOMAIN w.args |-> Parse(w.args[i], dest)]
        short == Len(ops) = 1 /\ w.mnem \in {"j", "jal", "jr", "jalr"}
        x0    == short /\ \/ w.mnem = "j" /\ IsInt(ops[1])
                          \/ w.mnem = "jr" /\ ~IsInt(ops[1])
        mnem  == IF x0 THEN (IF w.mnem = "j" THEN "jal" ELSE "jalr") ELSE w.mnem
        long  == IF x0 THEN <<"x0">> \o ops ELSE ops
        x1    == short /\ \/ mnem = "jal" /\ IsInt(long[1])
                          \/ mnem = "jalr" /\ ~IsInt(long[1])
    IN  [mnem |-> mnem, ops |-> IF x1 THEN <<"x1">> \o long ELSE long]

IsCall(i) ==
    \/ i.mnem = "jal" /\ i.ops[1] \in {"x1", "x5"}
    \/ /\ i.mnem = "jalr" /\ i.ops[1] \in {"x1", "x5"}
       /\ <<i.ops[1], i.ops[2]>> \notin {<<"x1", "x5">>, <<"x5", "x1">>}
    \/ i.mnem = "c.jalr" /\ \A k \in DOMAIN i.ops : i.ops[k] # "x5"
    \/ i.mnem = "c.jal"

\* In a function with symbol fn.  A register is no address, so c.jr never is one.
IsTailCall(i, fn) ==
    \/ i.mnem = "jal" /\ i.ops[1] = "x0" /\ i.ops[2] \in FnStarts
    \/ i.mnem = "c.j" /\ i.ops[1] \in FnStarts
    \/ i.mnem = "jalr" /\ i.ops[1] = "x0" /\ i.ops[2] \notin {"x1", "x5"}
    \/ i.mnem = "jalr" /\ i.ops[1] = "x6" /\ i.ops[2] = "x28" /\ fn = Nosym

IsReturn(i) ==
    \/ i.mnem = "ret"
    \/ i.mnem = "jalr" /\ i.ops[2] \in {"x1", "x5"} /\ i.ops[1] \notin {"x1", "x5"}
    \/ i.mnem = "c.jr" /\ i.ops[1] = "x1"

\* operands[1] of a jalr whose only operand has been read as a number.
IndexError(i) == i.mnem = "jalr" /\ Len(i.ops) = 1

Category(i, fn) ==
    IF IsCall(i) THEN "call"
    ELSE IF IsTailCall(i, fn) THEN "tail"
    ELSE IF IndexError(i) THEN "error"
    ELSE IF IsReturn(i) THEN "return"
    ELSE "instr"

-----------------------------------------------------------------------------
(* process_instr and the loop of run_trace.                                *)

Top(s) == s[Len(s)]
Pop(s) == SubSeq(s, 1, Len(s) - 1)

\* The cycle of the line that is being read.
Now == line + 1

Raise == raised' = TRUE /\ UNCHANGED <<active, callStack, callStarts, events, prevFn, prevCat>>

\* call_starts once the line is known to be the first of a function, or not.
Begun(fn, pf, pcat) ==
    IF fn # pf /\ pcat \in {"call", "tail"} THEN Append(callStarts, Now) ELSE callStarts

\* The branch of a call.
PushCall(fn, starts) ==
    /\ callStack' = Append(callStack, fn) /\ callStarts' = starts
    /\ UNCHANGED events

\* Mutant: a tail call leaves its caller as well.
EndFn_PopsBoth(fn, starts, cat) ==
    /\ events' = Append(events, [name |-> fn, ts |-> Top(starts), end |-> Now,
                                 stack |-> callStack])
    /\ callStarts' = Pop(starts)
    /\ callStack' = IF callStack # <<>> THEN Pop(callStack) ELSE callStack

\* Mutant: the callers are read after the return has left them.
EndFn_PopFirst(fn, starts, cat) ==
    /\ callStarts' = Pop(starts)
    /\ callStack' = IF cat = "return" /\ callStack # <<>> THEN Pop(callStack) ELSE callStack
    /\ events' = Append(events, [name |-> fn, ts |-> Top(starts), end |-> Now,
                                 stack |-> callStack'])

\* The branches of a tail call and of a return.
EndFn(fn, starts, cat) ==
    /\ events' = Append(events, [name |-> fn, ts |-> Top(starts), end |-> Now,
                                 stack |-> callStack])
    /\ callStarts' = Pop(starts)
    /\ callStack' = IF cat = "return" /\ callStack # <<>> THEN Pop(callStack) ELSE callStack

\* process_instr, in a run without debug.  pf and pcat are prev_fn and
\* prev_instr.cat.  Without debug a jump that was not seen coming, and a call
\* that stays in its function, are errors.
Process(i, fn, pf, pcat) ==
    LET cat     == Category(i, fn)
        starts  == Begun(fn, pf, pcat)
        strange == \/ pf # fn /\ pcat = "instr"
                   \/ pcat \in {"call", "tail"} /\ pf = fn /\ fn # Nosym
    IN  \/ /\ \/ cat = "call" /\ PushCall(fn, starts)
              \/ cat \in {"tail", "return"} /\ starts # <<>> /\ EndFn(fn, starts, cat)
              \/ /\ cat = "instr" /\ ~strange /\ callStarts' = starts
                 /\ UNCHANGED <<callStack, events>>
           /\ active' = ~(cat = "return" /\ fn = target)
           /\ prevFn' = fn /\ prevCat' = cat /\ UNCHANGED raised
        \/ /\ \/ cat = "error"
              \/ cat \in {"tail", "return"} /\ starts = <<>>
              \/ cat = "instr" /\ strange
           /\ Raise

\* One line of the log, retired in function f.
RunTrace(i, f) ==
    LET fn == Symbol(f)
    IN  \/ active /\ Process(i, fn, prevFn, prevCat)
        \/ ~active /\ fn = target /\ Process(i, fn, None, "call")
        \/ /\ ~active /\ fn # target
           /\ prevCat' = "instr"
           /\ UNCHANGED <<active, callStack, callStarts, events, prevFn, raised>>

-----------------------------------------------------------------------------
(* The machine.                                                            *)

Cur == Top(frames).fn

\* The activation of g that the last line calls.  A profile of fn_target has
\* its activations and what they call; one of the whole log has all that is
\* called from the function in which the log begins.
Called(g) ==
    LET traced == target = None \/ g = target \/ Top(frames).traced
    IN  [fn |-> g, at |-> Now + 1, traced |-> traced,
         stack |-> IF traced /\ g # target
                   THEN Append(Top(frames).stack, Symbol(Cur)) ELSE <<>>]

\* The activation that runs ends with this line.
Ends == profile' = IF Top(frames).traced
                   THEN Append(profile, [name |-> Symbol(Cur), ts |-> Top(frames).at,
                                         end |-> Now, stack |-> Top(frames).stack])
                   ELSE profile

\* A line of the log: the machine retires w, which goes to dest.
Retire(w, dest) ==
    /\ ~raised /\ line < MaxInstr
    /\ line' = Now
    /\ RunTrace(FromStr(w, dest), Cur)
    /\ UNCHANGED target

Plain ==
    /\ fresh => Entry[Cur] = "plain"
    /\ Retire([mnem |-> "add", args |-> <<"a5", "a5">>], "inside")
    /\ fresh' = FALSE
    /\ UNCHANGED <<frames, profile>>

\* A jump inside of the function: a loop, or the cases of a switch.
Jump(w) ==
    /\ ~fresh
    /\ Retire(w, "inside")
    /\ UNCHANGED <<frames, fresh, profile>>

CallFn(w, g) ==
    /\ ~fresh /\ Len(frames) < MaxDepth
    /\ <<Cur, g>> \in CallEdges
    /\ Retire(w, g)
    /\ frames' = Append(frames, Called(g)) /\ fresh' = TRUE
    /\ UNCHANGED profile

TailTo(w, g) ==
    /\ fresh => Entry[Cur] = "tail"
    /\ <<Cur, g>> \in TailEdges
    /\ Retire(w, g)
    /\ frames' = Append(Pop(frames), [Top(frames) EXCEPT !.fn = g, !.at = Now + 1])
    /\ fresh' = TRUE
    /\ Ends

Ret(w) ==
    /\ fresh => Entry[Cur] = "ret"
    /\ Len(frames) > 1
    /\ Retire(w, "inside")
    /\ frames' = Pop(frames) /\ fresh' = FALSE
    /\ Ends

Next ==
    \/ Plain
    \/ \E w \in JumpForms : Jump(w)
    \/ \E w \in CallForms, g \in Fns : CallFn(w, g)
    \/ \E w \in TailForms, g \in Fns : TailTo(w, g)
    \/ \E w \in RetForms : Ret(w)

Spec == Init /\ [][Next]_vars

-----------------------------------------------------------------------------
(* The logs that TraceGen can read.                                        *)

\* A jump from a to b that is taken for a plain instruction is betrayed by
\* the line that follows: it has another symbol and is plain itself.
Betrayed(a, b) == Symbol(a) # Symbol(b) /\ Entry[b] = "plain"

ClosedIn(D, t) ==
    /\ \A e \in CallEdges : e[1] \in D \cup {t} => e[2] \in D
    /\ \A e \in TailEdges : e[1] \in D => e[2] \in D

\* The functions that run inside of an activation of t.
Below(t) == {g \in Fns : \A D \in SUBSET Fns : ClosedIn(D, t) => g \in D}

\* Lines are classified as what they are, or refused, or betrayed; who calls
\* or jumps to a function of its own symbol finds a body there; fn_target is
\* not recursive, is not part of a tail call and does not run at the start.
Readable ==
    /\ \A w \in CallForms, e \in CallEdges :
        LET cat == Category(FromStr(w, e[2]), Symbol(e[1]))
        IN  cat \in {"call", "error"} \/ (cat = "instr" /\ Betrayed(e[1], e[2]))
    /\ \A w \in TailForms, e \in TailEdges :
        LET cat == Category(FromStr(w, e[2]), Symbol(e[1]))
        IN  cat \in {"tail", "error"} \/ (cat = "instr" /\ Betrayed(e[1], e[2]))
    /\ \A w \in RetForms, fn \in Symbols :
        Category(FromStr(w, "inside"), fn) \in {"return", "error"}
    /\ \A w \in JumpForms, fn \in Symbols :
        Category(FromStr(w, "inside"), fn) \in {"instr", "error"}
    /\ \A e \in CallEdges \cup TailEdges :
        Symbol(e[1]) # Symbol(e[2]) \/ (Entry[e[2]] = "plain" /\ Symbol(e[2]) # Nosym)
    /\ \A t \in Targets \ {None} :
        /\ t \notin Below(t)
        /\ \A e \in TailEdges : e[1] # t /\ e[2] # t
        /\ \A c \in Chains : \A i \in 1..Len(c) : c[i] # t

-----------------------------------------------------------------------------
(* Properties.                                                             *)

\* The last line jumped to another function and was not taken for a call: the
\* next line is going to tell.
Unseen == fresh /\ active /\ prevCat = "instr"

\* The profile is right or there is none: what process_instr takes from its
\* two stacks (a function, the cycle at which it began, the callers) is what
\* the machine did, for every line up to an exception.  No activation is
\* missing, none is invented, none has the start or the callers of another.
EventsTrue == raised \/ Unseen \/ events = profile

\* The two stacks stay in step with the machine through tail calls, stubs
\* without a symbol and fn_target going in and out of the trace: call_stack
\* has the callers of what runs, call_starts the first line of each profiled
\* activation, which are those above the n-th (but for the one whose first
\* line is yet to be read).
StacksTrue ==
    \/ raised \/ Unseen
    \/ \E n \in 1..Len(frames) :
        LET begun == Len(frames) - n - (IF fresh /\ Top(frames).traced THEN 1 ELSE 0)
        IN  /\ \A k \in 1..Len(frames) : frames[k].traced <=> k > n
            /\ callStack = Top(frames).stack
            /\ callStarts = [k \in 1..begun |-> frames[n + k].at]
=============================================================================
