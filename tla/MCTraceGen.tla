---------------------------- MODULE MCTraceGen ----------------------------
(* Instances of TraceGen for TLC: a binary with a function that calls      *)
(* itself, a thunk, an empty function and a stub without a symbol.         *)
EXTENDS TraceGen, TLC

CONSTANTS main, work, f, h, thunk, empty, stub

MCEntry == [g \in Fns |-> CASE g = thunk -> "tail" [] g = empty -> "ret" [] OTHER -> "plain"]

MCCallEdges == {<<main, work>>, <<main, f>>, <<work, f>>, <<work, thunk>>,
                <<work, stub>>, <<f, empty>>, <<f, f>>, <<h, stub>>}

MCTailEdges == {<<f, h>>, <<h, f>>, <<h, stub>>, <<thunk, f>>, <<stub, f>>, <<stub, h>>}

\* Slices that begin outside of the profiled function.
MCChains == {<<main>>, <<main, f>>}

I(mnem, args) == [mnem |-> mnem, args |-> args]

AllCalls == {I("jal", <<"ra", "addr">>), I("jal", <<"addr">>), I("jalr", <<"ra", "a5">>),
             I("jalr", <<"ra", "t4">>), I("jalr", <<"a5">>), I("jalr", <<"t4">>),
             I("c.jal", <<"addr">>), I("c.jalr", <<"t4">>)}

\* But for "jr t4".
DirectTails == {I("j", <<"addr">>), I("jal", <<"zero", "addr">>), I("c.j", <<"addr">>),
                I("jalr", <<"zero", "t4">>), I("c.jr", <<"t4">>), I("jr", <<"a5">>),
                I("jalr", <<"t1", "t3">>)}

\* But for "jr ra", which assemblers write as "ret".
Returns == {I("ret", <<>>), I("jalr", <<"zero", "ra">>), I("c.jr", <<"ra">>)}

\* But for a switch that is compiled to "jalr zero" or "jr t4".
Loops == {I("j", <<"addr">>), I("c.j", <<"addr">>), I("c.jr", <<"t4">>), I("jr", <<"a5">>)}

AllTails == DirectTails \cup {I("jr", <<"t4">>)}

\* Without "jr t4" the instance is one that TraceGen can read.
ASSUME ReadableInstance == TailForms \subseteq DirectTails => Readable
=============================================================================
