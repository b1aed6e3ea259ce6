-------------------------- MODULE TraceGen_proofs --------------------------
(***************************************************************************)
(* Proofs about TraceGen, for every binary, every way to write its jumps   *)
(* and every length of the log.                                            *)
(***************************************************************************)
EXTENDS TraceGen, SequenceTheorems, TLAPS

-----------------------------------------------------------------------------
(* Stacks.                                                                 *)

\* What Top and Pop return.
LEMMA PopProps ==
  ASSUME NEW S, NEW s \in Seq(S), s # <<>>
  PROVE  /\ Len(s) \in Nat /\ Len(s) >= 1 /\ Top(s) \in S
         /\ Pop(s) \in Seq(S) /\ Len(Pop(s)) = Len(s) - 1
         /\ \A i \in 1..(Len(s) - 1) : Pop(s)[i] = s[i]
<1>1. Len(s) \in Nat /\ Len(s) >= 1
  BY EmptySeq, LenProperties
<1>2. Top(s) \in S
  BY <1>1, ElementOfSeq DEF Top
<1>3. \A i \in 1..(Len(s) - 1) : s[i] \in S
  BY <1>1, ElementOfSeq
<1>4. PICK n \in Int : n = Len(s) - 1
  BY <1>1
<1>5. /\ Pop(s) \in Seq(S)
      /\ Len(Pop(s)) = IF 1 <= n THEN n - 1 + 1 ELSE 0
      /\ \A i \in 1..(n - 1 + 1) : Pop(s)[i] = s[1 + i - 1]
  BY <1>3, <1>4, SubSeqProperties DEF Pop
<1>6. \A i \in 1..n : i \in 1..(n - 1 + 1) /\ 1 + i - 1 = i
  BY <1>4
<1>7. \A i \in 1..n : Pop(s)[i] = s[i]
  BY <1>5, <1>6
<1>8. Len(Pop(s)) = n
  BY <1>1, <1>4, <1>5
<1> QED BY <1>1, <1>2, <1>4, <1>5, <1>7, <1>8

\* Two sequences are one if they have the same length and elements.
LEMMA PopAppend ==
  ASSUME NEW S, NEW s \in Seq(S), NEW e \in S
  PROVE  /\ Append(s, e) \in Seq(S) /\ Append(s, e) # <<>> /\ Len(Append(s, e)) = Len(s) + 1
         /\ Top(Append(s, e)) = e /\ Pop(Append(s, e)) = s
         /\ \A i \in 1..Len(s) : Append(s, e)[i] = s[i]
<1>1. /\ Append(s, e) \in Seq(S) /\ Append(s, e) # <<>> /\ Len(Append(s, e)) = Len(s) + 1
      /\ Append(s, e)[Len(s) + 1] = e /\ \A i \in 1..Len(s) : Append(s, e)[i] = s[i]
  BY AppendProperties
<1>2. Len(s) \in Nat
  BY LenProperties
<1>p. /\ Pop(Append(s, e)) \in Seq(S)
      /\ Len(Pop(Append(s, e))) = Len(Append(s, e)) - 1
      /\ \A i \in 1..(Len(Append(s, e)) - 1) : Pop(Append(s, e))[i] = Append(s, e)[i]
  BY ONLY <1>1, PopProps
<1>3. Pop(Append(s, e)) \in Seq(S) /\ Len(Pop(Append(s, e))) = Len(s)
  BY <1>1, <1>2, <1>p
<1>4. \A i \in 1..Len(s) : Pop(Append(s, e))[i] = s[i]
  BY <1>1, <1>2, <1>p
<1>5. Pop(Append(s, e)) = s
  BY <1>3, <1>4, SeqEqual
<1> QED BY <1>1, <1>5 DEF Top

-----------------------------------------------------------------------------
(* Types.                                                                  *)

LEMMA SymbolType ==
  ASSUME NEW f \in Fns
  PROVE  Symbol(f) \in Symbols
BY DEF Symbol, Symbols

LEMMA CatType ==
  ASSUME NEW i, NEW fn
  PROVE  Category(i, fn) \in Cats \cup {"error"}
BY DEF Category, Cats

MachineOK ==
    /\ line \in 0..MaxInstr
    /\ frames \in Seq(Frames) /\ frames # <<>>
    /\ fresh \in BOOLEAN /\ profile \in Seq(Events)

TraceOK ==
    /\ active \in BOOLEAN /\ raised \in BOOLEAN
    /\ callStack \in Seq(Symbols) /\ callStarts \in Seq(Nat) /\ events \in Seq(Events)
    /\ prevFn \in Symbols \cup {None} /\ prevCat \in Cats

LEMMA TypeParts ==
  /\ TypeOK <=> MachineOK /\ target \in Targets /\ TraceOK
  /\ TypeOK' <=> MachineOK' /\ target' \in Targets /\ TraceOK'
BY DEF TypeOK, MachineOK, TraceOK

LEMMA NowType ==
  ASSUME MachineOK
  PROVE  Now \in Nat /\ Now + 1 \in Nat
BY TraceAssumption DEF MachineOK, Now

\* What runs is a function of the binary.
LEMMA CurType ==
  ASSUME MachineOK
  PROVE  /\ Top(frames) \in Frames /\ Cur \in Fns /\ Symbol(Cur) \in Symbols
         /\ Top(frames).at \in Nat /\ Top(frames).traced \in BOOLEAN
         /\ Top(frames).stack \in Seq(Symbols)
<1>1. Top(frames) \in Frames
  BY PopProps DEF MachineOK
<1> QED BY <1>1, SymbolType DEF Frames, Cur

LEMMA BegunType ==
  ASSUME MachineOK, TraceOK, NEW fn, NEW pf, NEW pcat
  PROVE  Begun(fn, pf, pcat) \in Seq(Nat)
BY NowType, AppendProperties DEF TraceOK, Begun

LEMMA ProcessType ==
  ASSUME MachineOK, TraceOK, NEW i, NEW fn \in Symbols, NEW pf, NEW pcat,
         Process(i, fn, pf, pcat)
  PROVE  TraceOK'
<1> DEFINE cat == Category(i, fn)
           starts == Begun(fn, pf, pcat)
<1>1. starts \in Seq(Nat) /\ cat \in Cats \cup {"error"} /\ Now \in Nat
  BY BegunType, CatType, NowType
<1>2. CASE Raise
  BY <1>2 DEF Raise, TraceOK
<1>3. CASE /\ active' = ~(cat = "return" /\ fn = target)
           /\ prevFn' = fn /\ prevCat' = cat /\ UNCHANGED raised
  <2>1. active' \in BOOLEAN /\ prevFn' \in Symbols \cup {None} /\ raised' \in BOOLEAN
    BY <1>3 DEF TraceOK
  <2>2. CASE cat = "call" /\ PushCall(fn, starts)
    <3>1. callStack' \in Seq(Symbols) /\ callStarts' \in Seq(Nat) /\ events' \in Seq(Events)
      BY <1>1, <2>2, AppendProperties DEF PushCall, TraceOK
    <3> QED BY <1>3, <2>1, <2>2, <3>1 DEF TraceOK, Cats
  <2>3. CASE cat \in {"tail", "return"} /\ starts # <<>> /\ EndFn(fn, starts, cat)
    <3>1. Top(starts) \in Nat /\ Pop(starts) \in Seq(Nat)
      BY <1>1, <2>3, PopProps
    <3>2. [name |-> fn, ts |-> Top(starts), end |-> Now, stack |-> callStack] \in Events
      BY <1>1, <3>1 DEF Events, TraceOK
    <3>3. events' \in Seq(Events) /\ callStarts' \in Seq(Nat)
      BY <2>3, <3>1, <3>2, AppendProperties DEF EndFn, TraceOK
    <3>4. callStack' \in Seq(Symbols)
      BY <2>3, PopProps DEF EndFn, TraceOK
    <3> QED BY <1>3, <2>1, <2>3, <3>3, <3>4 DEF TraceOK, Cats
  <2>4. CASE cat = "instr" /\ callStarts' = starts /\ UNCHANGED <<callStack, events>>
    BY <1>1, <1>3, <2>1, <2>4 DEF TraceOK, Cats
  <2>5. CASE Raise
    BY <2>5 DEF Raise, TraceOK
  <2> HIDE DEF cat, starts
  <2>6. \/ cat = "call" /\ PushCall(fn, starts)
        \/ cat \in {"tail", "return"} /\ starts # <<>> /\ EndFn(fn, starts, cat)
        \/ cat = "instr" /\ callStarts' = starts /\ UNCHANGED <<callStack, events>>
        \/ Raise
    BY DEF Process, cat, starts
  <2> QED BY <2>2, <2>3, <2>4, <2>5, <2>6
<1> HIDE DEF cat, starts
<1>4. \/ Raise
      \/ /\ active' = ~(cat = "return" /\ fn = target)
         /\ prevFn' = fn /\ prevCat' = cat /\ UNCHANGED raised
  BY DEF Process, cat, starts
<1> QED BY <1>2, <1>3, <1>4

LEMMA RetireType ==
  ASSUME TypeOK, NEW w, NEW dest, Retire(w, dest)
  PROVE  TraceOK' /\ target' \in Targets /\ line' \in 0..MaxInstr
<1>0. MachineOK /\ target \in Targets /\ TraceOK
  BY TypeParts
<1>1. target' \in Targets /\ line' \in 0..MaxInstr
  BY <1>0, TraceAssumption DEF Retire, Now, MachineOK
<1> DEFINE i == FromStr(w, dest)
           fn == Symbol(Cur)
<1>2. fn \in Symbols
  BY <1>0, CurType
<1> HIDE DEF i
<1>3. RunTrace(i, Cur)
  BY DEF Retire, i
<1>4. CASE \/ Process(i, fn, prevFn, prevCat) \/ Process(i, fn, None, "call")
  BY <1>0, <1>1, <1>2, <1>4, ProcessType
<1>5. CASE prevCat' = "instr" /\ UNCHANGED <<active, callStack, callStarts, events, prevFn, raised>>
  BY <1>0, <1>1, <1>5 DEF TraceOK, Cats
<1> QED BY <1>3, <1>4, <1>5 DEF RunTrace

LEMMA EndsType ==
  ASSUME MachineOK, Ends
  PROVE  profile' \in Seq(Events)
<1>1. [name |-> Symbol(Cur), ts |-> Top(frames).at, end |-> Now, stack |-> Top(frames).stack]
        \in Events
  BY CurType, NowType DEF Events
<1> QED BY <1>1, AppendProperties DEF Ends, MachineOK

LEMMA CalledType ==
  ASSUME MachineOK, NEW g \in Fns
  PROVE  Called(g) \in Frames
<1>1. Append(Top(frames).stack, Symbol(Cur)) \in Seq(Symbols) /\ <<>> \in Seq(Symbols)
  BY CurType, AppendProperties, EmptySeq
<1>2. (target = None \/ g = target \/ Top(frames).traced) \in BOOLEAN
  OBVIOUS
<1> QED BY <1>1, <1>2, NowType DEF Called, Frames

LEMMA TypeStep ==
  ASSUME TypeOK, [Next]_vars
  PROVE  TypeOK'
<1>0. MachineOK /\ target \in Targets /\ TraceOK
  BY TypeParts
<1>r. ASSUME NEW w, NEW dest, Retire(w, dest),
             frames' \in Seq(Frames), frames' # <<>>, fresh' \in BOOLEAN, profile' \in Seq(Events)
      PROVE  TypeOK'
  BY <1>r, RetireType, TypeParts DEF MachineOK
<1>1. CASE Plain
  BY <1>0, <1>1, <1>r DEF Plain, MachineOK
<1>2. ASSUME NEW w \in JumpForms, Jump(w) PROVE TypeOK'
  BY <1>0, <1>2, <1>r DEF Jump, MachineOK
<1>3. ASSUME NEW w \in CallForms, NEW g \in Fns, CallFn(w, g) PROVE TypeOK'
  <2>1. frames' \in Seq(Frames) /\ frames' # <<>>
    BY <1>0, <1>3, CalledType, AppendProperties DEF CallFn, MachineOK
  <2> QED BY <1>0, <1>3, <1>r, <2>1 DEF CallFn, MachineOK
<1>4. ASSUME NEW w \in TailForms, NEW g \in Fns, TailTo(w, g) PROVE TypeOK'
  <2>1. [Top(frames) EXCEPT !.fn = g, !.at = Now + 1] \in Frames
    BY <1>0, CurType, NowType DEF Frames
  <2>2. Pop(frames) \in Seq(Frames)
    BY <1>0, PopProps DEF MachineOK
  <2>3. frames' \in Seq(Frames) /\ frames' # <<>>
    BY <1>4, <2>1, <2>2, AppendProperties DEF TailTo
  <2> QED BY <1>0, <1>4, <1>r, <2>3, EndsType DEF TailTo
<1>5. ASSUME NEW w \in RetForms, Ret(w) PROVE TypeOK'
  <2>1. Pop(frames) \in Seq(Frames) /\ Len(Pop(frames)) = Len(frames) - 1
        /\ Len(frames) \in Nat
    BY <1>0, PopProps DEF MachineOK
  <2>2. frames' \in Seq(Frames) /\ frames' # <<>>
    BY <1>5, <2>1, EmptySeq DEF Ret
  <2> QED BY <1>0, <1>5, <1>r, <2>2, EndsType DEF Ret
<1>6. CASE UNCHANGED vars
  BY <1>6 DEF vars, machineVars, traceVars, TypeOK
<1> QED BY <1>1, <1>2, <1>3, <1>4, <1>5, <1>6 DEF Next

LEMMA InitType ==
  ASSUME Init
  PROVE  TypeOK
<1>1. PICK c \in Chains : frames = [i \in 1..Len(c) |->
                               [fn |-> c[i], at |-> 0, traced |-> FALSE, stack |-> <<>>]]
  BY DEF Init
<1>2. c \in Seq(Fns) /\ c # <<>>
  BY TraceAssumption
<1>3. Len(c) \in Nat /\ Len(c) >= 1 /\ \A i \in 1..Len(c) : c[i] \in Fns
  BY <1>2, EmptySeq, LenProperties, ElementOfSeq
<1>4. \A i \in 1..Len(c) :
        [fn |-> c[i], at |-> 0, traced |-> FALSE, stack |-> <<>>] \in Frames
  BY <1>3, EmptySeq DEF Frames
<1>5. frames \in Seq(Frames) /\ Len(frames) = Len(c)
  BY <1>1, <1>3, <1>4, IsASeq, LenProperties
<1>6. frames # <<>>
  BY <1>3, <1>5, EmptySeq
<1>m. 0 \in 0..MaxInstr
  BY TraceAssumption
<1>7. MachineOK
  BY <1>5, <1>6, <1>m, EmptySeq DEF Init, MachineOK
<1>8. TraceOK /\ target \in Targets
  BY EmptySeq DEF Init, TraceOK, Cats
<1> QED BY <1>7, <1>8, TypeParts

\* TypeOK of the profile: whatever the log holds, call_stack has symbols,
\* call_starts cycles, and every event has a start (process_instr never
\* takes one from an empty stack without an exception).
THEOREM TypeHolds == Spec => []TypeOK
BY InitType, TypeStep, PTL DEF Spec

-----------------------------------------------------------------------------
(* The machine.                                                            *)

\* The activations above the n-th are the profiled ones.  The callers that
\* one shows are those of the activation below it and that one itself; the
\* first one of fn_target shows none, and above it fn_target does not run.
Split(n) ==
    /\ \A k \in 1..Len(frames) : frames[k].traced <=> k > n
    /\ \A k \in 1..n : frames[k].stack = <<>>
    /\ \A k \in (n + 1)..Len(frames) :
        frames[k - 1].stack = IF frames[k].stack # <<>> THEN Pop(frames[k].stack) ELSE <<>>
    /\ target # None =>
        /\ \A k \in 1..n : frames[k].fn # target
        /\ n < Len(frames) => frames[n + 1].fn = target /\ frames[n + 1].stack = <<>>
        /\ \A k \in (n + 2)..Len(frames) : frames[k].fn \in Below(target)

LEMMA FrameFacts ==
  ASSUME MachineOK
  PROVE  /\ Len(frames) \in Nat /\ Len(frames) >= 1 /\ Top(frames) = frames[Len(frames)]
         /\ \A k \in 1..Len(frames) : frames[k] \in Frames
BY PopProps, ElementOfSeq DEF MachineOK, Top

\* What is called from inside of an activation of t runs inside of it.
LEMMA BelowClosed ==
  ASSUME NEW t, NEW a, NEW b
  PROVE  /\ <<a, b>> \in CallEdges /\ a \in Below(t) \cup {t} => b \in Below(t)
         /\ <<a, b>> \in TailEdges /\ a \in Below(t) => b \in Below(t)
<1>1. <<a, b>> \in CallEdges \cup TailEdges => b \in Fns
  BY TraceAssumption
<1>2. ASSUME <<a, b>> \in CallEdges, a \in Below(t) \cup {t}, NEW D \in SUBSET Fns, ClosedIn(D, t)
      PROVE  b \in D
  <2>1. a \in D \cup {t}
    BY <1>2 DEF Below
  <2> QED BY <1>2, <2>1 DEF ClosedIn
<1>3. ASSUME <<a, b>> \in TailEdges, a \in Below(t), NEW D \in SUBSET Fns, ClosedIn(D, t)
      PROVE  b \in D
  <2>1. a \in D
    BY <1>3 DEF Below
  <2> QED BY <1>3, <2>1 DEF ClosedIn
<1> QED BY <1>1, <1>2, <1>3 DEF Below

LEMMA SymbolTarget ==
  ASSUME target \in Targets, NEW f \in Fns
  PROVE  (Symbol(f) = target <=> f = target) /\ (f = target => target # None)
BY TraceAssumption DEF Symbol

\* What runs inside of the profile of fn_target.
LEMMA CurInside ==
  ASSUME TypeOK, NEW n \in 1..Len(frames), Split(n), target # None
  PROVE  /\ n < Len(frames) => Cur \in Below(target) \cup {target}
         /\ n + 1 < Len(frames) => Cur \in Below(target)
         /\ n = Len(frames) => Cur # target
         /\ n + 1 = Len(frames) => Cur = target
<1>1. Len(frames) \in Nat /\ Cur = frames[Len(frames)].fn
  BY FrameFacts, TypeParts DEF Cur
<1> QED BY <1>1 DEF Split

LEMMA CallSplit ==
  ASSUME TypeOK, Readable, NEW n \in 1..Len(frames), Split(n), NEW g \in Fns,
         <<Cur, g>> \in CallEdges, frames' = Append(frames, Called(g)), UNCHANGED target
  PROVE  \E m \in 1..Len(frames') :
            m = (IF Called(g).traced THEN n ELSE n + 1) /\ Split(m)'
<1>0. MachineOK /\ target \in Targets
  BY TypeParts
<1> DEFINE L == Len(frames)
<1>1. /\ L \in Nat /\ L >= 1 /\ Top(frames) = frames[L] /\ Cur = frames[L].fn
      /\ frames[L].stack \in Seq(Symbols) /\ Symbol(Cur) \in Symbols
  BY <1>0, FrameFacts, CurType DEF Cur
<1>2. Len(frames') = L + 1 /\ frames'[L + 1] = Called(g) /\ \A k \in 1..L : frames'[k] = frames[k]
  BY <1>0, CalledType, AppendProperties DEF MachineOK
<1>3. /\ Called(g).fn = g
      /\ Called(g).traced <=> (target = None \/ g = target \/ frames[L].traced)
      /\ Called(g).stack = IF Called(g).traced /\ g # target
                           THEN Append(frames[L].stack, Symbol(Cur)) ELSE <<>>
  BY <1>1 DEF Called
<1>4. frames[L].traced <=> L > n
  BY <1>1 DEF Split
<1>5. Append(frames[L].stack, Symbol(Cur)) # <<>> /\ Pop(Append(frames[L].stack, Symbol(Cur))) = frames[L].stack
  BY <1>1, PopAppend
<1>6. target # None /\ L > n => g \in Below(target) /\ g # target
  <2> SUFFICES ASSUME target # None, L > n PROVE g \in Below(target) /\ g # target
    OBVIOUS
  <2>1. Cur \in Below(target) \cup {target}
    BY CurInside
  <2>2. g \in Below(target)
    BY <2>1, BelowClosed
  <2> QED BY <1>0, <2>2 DEF Readable
<1>7. CASE Called(g).traced
  <2>1. \A k \in 1..(L + 1) : frames'[k].traced <=> k > n
    BY <1>1, <1>2, <1>7 DEF Split
  <2>2. \A k \in 1..n : frames'[k].stack = <<>>
    BY <1>1, <1>2 DEF Split
  <2>3. ASSUME NEW k \in (n + 1)..(L + 1)
        PROVE  frames'[k - 1].stack = IF frames'[k].stack # <<>> THEN Pop(frames'[k].stack) ELSE <<>>
    <3>1. CASE k <= L
      <4>1. k \in (n + 1)..L /\ k \in 1..L /\ k - 1 \in 1..L
        BY <1>1, <3>1
      <4> QED BY <1>2, <4>1 DEF Split
    <3>2. CASE k = L + 1
      <4>1. frames'[k - 1] = frames[L] /\ frames'[k] = Called(g)
        BY <1>1, <1>2, <3>2
      <4>2. CASE g = target
        <5>1. n = L /\ frames[L].stack = <<>>
          BY <1>0, <1>1, <1>6, <4>2, SymbolTarget DEF Split
        <5> QED BY <1>3, <4>1, <4>2, <5>1
      <4>3. CASE g # target
        BY <1>3, <1>5, <1>7, <4>1, <4>3
      <4> QED BY <4>2, <4>3
    <3> QED BY <1>1, <3>1, <3>2
  <2>4. ASSUME target # None
        PROVE  /\ \A k \in 1..n : frames'[k].fn # target
               /\ n < L + 1 => frames'[n + 1].fn = target /\ frames'[n + 1].stack = <<>>
               /\ \A k \in (n + 2)..(L + 1) : frames'[k].fn \in Below(target)
    <3>1. \A k \in 1..n : frames'[k].fn # target
      BY <1>1, <1>2, <2>4 DEF Split
    <3>2. CASE n = L
      <4>1. g = target
        BY <1>3, <1>4, <1>7, <2>4, <3>2
      <4> QED BY <1>1, <1>2, <1>3, <3>1, <3>2, <4>1
    <3>3. CASE n < L
      <4>1. g \in Below(target)
        BY <1>6, <2>4, <3>3
      <4>2. frames'[n + 1].fn = target /\ frames'[n + 1].stack = <<>>
        BY <1>1, <1>2, <2>4, <3>3 DEF Split
      <4>a. \A k \in (n + 2)..(L + 1) : k = L + 1 \/ (k \in (n + 2)..L /\ k \in 1..L)
        BY <1>1
      <4>b. \A k \in (n + 2)..L : frames[k].fn \in Below(target)
        BY <2>4 DEF Split
      <4>3. \A k \in (n + 2)..(L + 1) : frames'[k].fn \in Below(target)
        BY <1>2, <1>3, <4>1, <4>a, <4>b
      <4> QED BY <3>1, <4>2, <4>3
    <3> QED BY <1>1, <3>2, <3>3
  <2>5. Split(n)'
    BY <1>2, <2>1, <2>2, <2>3, <2>4 DEF Split
  <2>6. n \in 1..Len(frames')
    BY <1>1, <1>2
  <2> QED BY <1>7, <2>5, <2>6
<1>8. CASE ~Called(g).traced
  <2>1. n = L /\ target # None /\ g # target
    BY <1>1, <1>3, <1>4, <1>8
  <2>2. PICK m \in 1..Len(frames') : m = n + 1 /\ m = L + 1
    BY <1>1, <1>2, <2>1
  <2>3. \A k \in 1..(L + 1) : ~frames'[k].traced /\ frames'[k].stack = <<>> /\ frames'[k].fn # target
    BY <1>1, <1>2, <1>3, <1>8, <2>1 DEF Split
  <2>4. Split(m)'
    BY <1>1, <1>2, <2>2, <2>3 DEF Split
  <2> QED BY <1>8, <2>2, <2>4
<1> QED BY <1>7, <1>8

LEMMA TailSplit ==
  ASSUME TypeOK, Readable, NEW n \in 1..Len(frames), Split(n), NEW g \in Fns,
         <<Cur, g>> \in TailEdges, UNCHANGED target,
         frames' = Append(Pop(frames), [Top(frames) EXCEPT !.fn = g, !.at = Now + 1])
  PROVE  /\ Split(n)' /\ Len(frames') = Len(frames)
         /\ \A k \in 1..(Len(frames) - 1) : frames'[k] = frames[k]
         /\ frames'[Len(frames)] = [Top(frames) EXCEPT !.fn = g, !.at = Now + 1]
<1>0. MachineOK /\ target \in Targets
  BY TypeParts
<1> DEFINE L == Len(frames)
           top == [Top(frames) EXCEPT !.fn = g, !.at = Now + 1]
<1>1. L \in Nat /\ L >= 1 /\ Top(frames) = frames[L] /\ Cur = frames[L].fn /\ Top(frames) \in Frames
  BY <1>0, FrameFacts, CurType DEF Cur
<1>2. Pop(frames) \in Seq(Frames) /\ Len(Pop(frames)) = L - 1
      /\ \A k \in 1..(L - 1) : Pop(frames)[k] = frames[k]
  BY <1>0, PopProps DEF MachineOK
<1>3. /\ top \in Frames /\ top.fn = g /\ top.traced = frames[L].traced
      /\ top.stack = frames[L].stack
  BY <1>0, <1>1, NowType DEF Frames
<1> HIDE DEF top
<1>4. Len(frames') = L - 1 + 1 /\ frames'[L - 1 + 1] = top
      /\ \A k \in 1..(L - 1) : frames'[k] = Pop(frames)[k]
  BY <1>2, <1>3, AppendProperties DEF top
<1>5. Len(frames') = L /\ frames'[L] = top /\ \A k \in 1..(L - 1) : frames'[k] = frames[k]
  BY <1>1, <1>2, <1>4
<1>6. target # None => Cur # target /\ g # target
  BY <1>0 DEF Readable
<1>7. \A k \in 1..L : frames'[k].traced = frames[k].traced /\ frames'[k].stack = frames[k].stack
  BY <1>1, <1>3, <1>5
<1>8. ASSUME target # None
      PROVE  /\ \A k \in 1..n : frames'[k].fn # target
             /\ n < L => frames'[n + 1].fn = target /\ frames'[n + 1].stack = <<>>
             /\ \A k \in (n + 2)..L : frames'[k].fn \in Below(target)
  <2>1. n + 1 # L
    BY <1>6, <1>8, CurInside
  <2>2. n + 1 < L => g \in Below(target)
    BY <1>8, CurInside, BelowClosed
  <2>3. \A k \in 1..n : frames'[k].fn # target
    BY <1>1, <1>3, <1>5, <1>6, <1>8 DEF Split
  <2>4. n < L => frames'[n + 1].fn = target /\ frames'[n + 1].stack = <<>>
    BY <1>1, <1>5, <1>8, <2>1 DEF Split
  <2>a. \A k \in (n + 2)..L : (k = L /\ n + 1 < L) \/ (k \in 1..(L - 1) /\ k \in (n + 2)..L)
    BY <1>1
  <2>b. \A k \in (n + 2)..L : frames[k].fn \in Below(target)
    BY <1>8 DEF Split
  <2>5. \A k \in (n + 2)..L : frames'[k].fn \in Below(target)
    BY <1>3, <1>5, <2>2, <2>a, <2>b
  <2> QED BY <2>3, <2>4, <2>5
<1>9. \A k \in (n + 1)..L :
        frames'[k - 1].stack = IF frames'[k].stack # <<>> THEN Pop(frames'[k].stack) ELSE <<>>
  <2> SUFFICES ASSUME NEW k \in (n + 1)..L
               PROVE  frames'[k - 1].stack = IF frames'[k].stack # <<>> THEN Pop(frames'[k].stack) ELSE <<>>
    OBVIOUS
  <2>1. k \in 1..L /\ k - 1 \in 1..L
    BY <1>1
  <2>2. frames[k - 1].stack = IF frames[k].stack # <<>> THEN Pop(frames[k].stack) ELSE <<>>
    BY DEF Split
  <2>3. frames'[k].stack = frames[k].stack /\ frames'[k - 1].stack = frames[k - 1].stack
    BY <1>7, <2>1
  <2> QED BY <2>2, <2>3, Zenon
<1>n. \A k \in 1..n : k \in 1..L /\ frames[k].stack = <<>>
  BY <1>1 DEF Split
<1>10. \A k \in 1..n : frames'[k].stack = <<>>
  BY <1>7, <1>n
<1>11. \A k \in 1..L : frames'[k].traced <=> k > n
  BY <1>7 DEF Split
<1>12. Split(n)'
  BY <1>5, <1>8, <1>9, <1>10, <1>11 DEF Split
<1> QED BY <1>5, <1>12 DEF top

LEMMA RetSplit ==
  ASSUME TypeOK, NEW n \in 1..Len(frames), Split(n), Len(frames) > 1,
         frames' = Pop(frames), UNCHANGED target
  PROVE  \E m \in 1..Len(frames') :
            /\ m = (IF n = Len(frames) THEN n - 1 ELSE n) /\ Split(m)'
            /\ Len(frames') = Len(frames) - 1
            /\ \A k \in 1..(Len(frames) - 1) : frames'[k] = frames[k]
<1>0. MachineOK /\ target \in Targets
  BY TypeParts
<1> DEFINE L == Len(frames)
<1>1. L \in Nat /\ L >= 1
  BY <1>0, FrameFacts
<1>2. Len(frames') = L - 1 /\ \A k \in 1..(L - 1) : frames'[k] = frames[k]
  BY <1>0, PopProps DEF MachineOK
<1>3. PICK m \in 1..Len(frames') : m = (IF n = L THEN n - 1 ELSE n)
  BY <1>1, <1>2
<1>4. \A k \in 1..(L - 1) : (frames'[k].traced <=> k > n) /\ (k > m <=> k > n)
  BY <1>1, <1>2, <1>3 DEF Split
<1>5. \A k \in 1..m : k \in 1..n /\ k \in 1..(L - 1)
  BY <1>1, <1>2, <1>3
<1>6. \A k \in (m + 1)..(L - 1) : k \in (n + 1)..L /\ k \in 1..(L - 1) /\ k - 1 \in 1..(L - 1)
  BY <1>1, <1>2, <1>3
<1>7. m < L - 1 => m = n /\ n < L /\ n + 1 \in 1..(L - 1)
  BY <1>1, <1>2, <1>3
<1>8. \A k \in (m + 2)..(L - 1) : k \in (n + 2)..L /\ k \in 1..(L - 1)
  BY <1>1, <1>2, <1>3
<1>9. Split(m)'
  <2>1. \A k \in 1..(L - 1) : frames'[k].traced <=> k > m
    BY <1>4
  <2>2. \A k \in 1..m : frames'[k].stack = <<>>
    BY <1>2, <1>5 DEF Split
  <2>3. \A k \in (m + 1)..(L - 1) :
          frames'[k - 1].stack = IF frames'[k].stack # <<>> THEN Pop(frames'[k].stack) ELSE <<>>
    BY <1>2, <1>6 DEF Split
  <2>4. target # None =>
          /\ \A k \in 1..m : frames'[k].fn # target
          /\ m < L - 1 => frames'[m + 1].fn = target /\ frames'[m + 1].stack = <<>>
          /\ \A k \in (m + 2)..(L - 1) : frames'[k].fn \in Below(target)
    BY <1>2, <1>5, <1>7, <1>8 DEF Split
  <2> QED BY <1>2, <2>1, <2>2, <2>3, <2>4 DEF Split
<1> QED BY <1>2, <1>3, <1>9

-----------------------------------------------------------------------------
(* TraceGen in step with the machine.                                      *)

\* The first lines of all profiled activations, and of those below the top.
Full(n) == [k \in 1..(Len(frames) - n) |-> frames[n + k].at]
Lower(n) == [k \in 1..(Len(frames) - n - 1) |-> frames[n + k].at]

\* What TraceGen knows of the line that comes: whether it is in the profile,
\* and from the last one whether it is the first of a function.
Watching ==
    /\ fresh => Top(frames).at = Now
    /\ target = None => active
    /\ target # None =>
        /\ active => Top(frames).traced
        /\ Top(frames).traced /\ ~active => fresh /\ Cur = target
    /\ active /\ fresh /\ prevCat # "instr" =>
        /\ prevCat \in {"call", "tail"} /\ Top(frames).traced
        /\ prevFn # Symbol(Cur) \/ (Entry[Cur] = "plain" /\ Symbol(Cur) # Nosym)
    /\ Unseen => prevFn # Symbol(Cur) /\ Entry[Cur] = "plain"
    /\ active /\ ~fresh => prevCat \in {"instr", "return"}

InStep(n) ==
    /\ callStack = Top(frames).stack
    /\ callStarts = IF fresh /\ Top(frames).traced THEN Lower(n) ELSE Full(n)

TInv ==
    /\ TypeOK
    /\ \E n \in 1..Len(frames) :
        /\ Split(n)
        /\ raised \/ (Watching /\ (Unseen \/ (InStep(n) /\ events = profile)))

LEMMA FullFacts ==
  ASSUME MachineOK, NEW n \in 1..Len(frames)
  PROVE  /\ n < Len(frames) =>
            /\ Full(n) = Append(Lower(n), Top(frames).at)
            /\ Full(n) # <<>> /\ Top(Full(n)) = Top(frames).at /\ Pop(Full(n)) = Lower(n)
         /\ n = Len(frames) => Full(n) = <<>>
<1> DEFINE L == Len(frames)
<1>1. L \in Nat /\ L >= 1 /\ Top(frames) = frames[L] /\ \A k \in 1..L : frames[k].at \in Nat
  BY FrameFacts DEF Frames
<1>2. CASE n < L
  <2>1. L - n \in Nat /\ L - n - 1 \in Nat
    BY <1>1, <1>2
  <2>2. \A k \in 1..(L - n) : frames[n + k].at \in Nat
    BY <1>1, <1>2
  <2>3. \A k \in 1..(L - n - 1) : frames[n + k].at \in Nat
    BY <1>1, <1>2
  <2>4. Full(n) \in Seq(Nat) /\ Len(Full(n)) = L - n
    <3>1. Full(n) \in Seq(Nat)
      BY <2>1, <2>2, IsASeq DEF Full
    <3>2. DOMAIN Full(n) = 1..(L - n) /\ DOMAIN Full(n) = 1..Len(Full(n)) /\ Len(Full(n)) \in Nat
      BY <3>1, LenProperties DEF Full
    <3> QED BY <2>1, <3>1, <3>2
  <2>5. Lower(n) \in Seq(Nat) /\ Len(Lower(n)) = L - n - 1
    <3>1. Lower(n) \in Seq(Nat)
      BY <2>1, <2>3, IsASeq DEF Lower
    <3>2. DOMAIN Lower(n) = 1..(L - n - 1) /\ DOMAIN Lower(n) = 1..Len(Lower(n))
          /\ Len(Lower(n)) \in Nat
      BY <3>1, LenProperties DEF Lower
    <3> QED BY <2>1, <3>1, <3>2
  <2>6. Top(frames).at \in Nat
    BY <1>1
  <2> DEFINE A == Append(Lower(n), Top(frames).at)
  <2>7. /\ A \in Seq(Nat) /\ A # <<>> /\ Len(A) = Len(Lower(n)) + 1
        /\ Top(A) = Top(frames).at /\ Pop(A) = Lower(n)
        /\ \A i \in 1..Len(Lower(n)) : A[i] = Lower(n)[i]
    BY <2>5, <2>6, PopAppend
  <2>8. A[L - n] = frames[L].at
    BY <1>1, <2>1, <2>5, <2>7 DEF Top
  <2>9. \A i \in 1..(L - n) : Full(n)[i] = A[i]
    <3> SUFFICES ASSUME NEW i \in 1..(L - n) PROVE Full(n)[i] = A[i]
      OBVIOUS
    <3>1. Full(n)[i] = frames[n + i].at
      BY DEF Full
    <3>2. CASE i = L - n
      <4>1. n + i = L
        BY <1>1, <3>2
      <4> QED BY <2>8, <3>1, <3>2, <4>1
    <3>3. CASE i \in 1..(L - n - 1)
      <4>1. A[i] = Lower(n)[i]
        BY <2>5, <2>7, <3>3
      <4>2. Lower(n)[i] = frames[n + i].at
        BY <3>3 DEF Lower
      <4> QED BY <3>1, <4>1, <4>2
    <3>4. i = L - n \/ i \in 1..(L - n - 1)
      BY <1>1, <2>1
    <3> QED BY <3>2, <3>3, <3>4
  <2> HIDE DEF A
  <2>10. Len(A) = L - n
    BY <2>1, <2>5, <2>7
  <2>11. Full(n) = A
    BY <2>4, <2>7, <2>9, <2>10, SeqEqual
  <2> QED BY <1>2, <2>7, <2>11 DEF A
<1>3. CASE n = L
  <2>1. 1..(L - n) = {}
    BY <1>1, <1>3
  <2> QED BY <1>3, <2>1 DEF Full
<1> QED BY <1>1, <1>2, <1>3

\* A line outside of the profile.
LEMMA OutsideFacts ==
  ASSUME TypeOK, NEW n \in 1..Len(frames), Split(n), Watching, ~active, Symbol(Cur) # target
  PROVE  ~Top(frames).traced /\ target # None /\ Cur # target /\ n = Len(frames)
<1>1. Cur # target
  BY SymbolTarget, CurType, TypeParts
<1>2. ~Top(frames).traced /\ target # None
  BY <1>1 DEF Watching
<1>3. n = Len(frames)
  BY <1>2, FrameFacts, TypeParts DEF Split
<1> QED BY <1>1, <1>2, <1>3

\* A line inside of it.
LEMMA InsideFacts ==
  ASSUME TypeOK, NEW n \in 1..Len(frames), Split(n), Watching, active \/ Symbol(Cur) = target
  PROVE  /\ target # None => Top(frames).traced /\ n < Len(frames)
         /\ ~active => fresh /\ Cur = target /\ Top(frames).traced
         /\ Top(frames).traced <=> n < Len(frames)
<1>1. Len(frames) \in Nat /\ Top(frames) = frames[Len(frames)] /\ Len(frames) >= 1
  BY FrameFacts, TypeParts
<1>2. Top(frames).traced <=> n < Len(frames)
  BY <1>1 DEF Split
<1>3. ~active => Cur = target /\ target # None
  BY SymbolTarget, CurType, TypeParts
<1>4. ~active => n < Len(frames)
  BY <1>1, <1>3, CurInside
<1> QED BY <1>2, <1>3, <1>4 DEF Watching

\* The starts, once the line is known to be the first of its function or not.
LEMMA StartsFull ==
  ASSUME TypeOK, NEW n \in 1..Len(frames), Split(n), Watching, InStep(n), ~Unseen,
         active \/ Symbol(Cur) = target, NEW pf, NEW pcat,
         IF active THEN pf = prevFn /\ pcat = prevCat ELSE pf = None /\ pcat = "call",
         ~(pf = Symbol(Cur) /\ pcat \in {"call", "tail"})
  PROVE  Begun(Symbol(Cur), pf, pcat) = Full(n)
<1>0. MachineOK
  BY TypeParts
<1>1. CASE fresh
  <2>1. Top(frames).traced /\ n < Len(frames) /\ pcat \in {"call", "tail"}
    BY <1>1, InsideFacts DEF Watching, Unseen
  <2>2. callStarts = Lower(n) /\ Top(frames).at = Now
    BY <1>1, <2>1 DEF InStep, Watching
  <2>3. Begun(Symbol(Cur), pf, pcat) = Append(callStarts, Now)
    BY <2>1 DEF Begun
  <2> QED BY <1>0, <2>1, <2>2, <2>3, FullFacts
<1>2. CASE ~fresh
  <2>1. active /\ pcat \in {"instr", "return"}
    BY <1>2, InsideFacts DEF Watching
  <2> QED BY <1>2, <2>1 DEF Begun, InStep
<1> QED BY <1>1, <1>2

\* What process_instr makes of a line of category cat.
Reads(n, cat) ==
    /\ prevFn' = Symbol(Cur) /\ prevCat' = cat /\ UNCHANGED raised
    /\ active' = ~(cat = "return" /\ Cur = target)
    /\ \/ cat = "call" /\ PushCall(Symbol(Cur), Full(n))
       \/ cat \in {"tail", "return"} /\ Full(n) # <<>> /\ EndFn(Symbol(Cur), Full(n), cat)
       \/ cat = "instr" /\ callStarts' = Full(n) /\ UNCHANGED <<callStack, events>>

LEMMA LineRead ==
  ASSUME TypeOK, NEW n \in 1..Len(frames), Split(n), Watching, InStep(n), ~Unseen,
         active \/ Symbol(Cur) = target, NEW i, RunTrace(i, Cur),
         fresh => Category(i, Symbol(Cur)) \in {"instr", "error"} \/ Entry[Cur] # "plain"
  PROVE  raised' \/ Reads(n, Category(i, Symbol(Cur)))
<1> DEFINE fn == Symbol(Cur)
           cat == Category(i, fn)
<1>0. Cur \in Fns /\ fn \in Symbols /\ target \in Targets /\ active \in BOOLEAN /\ None \notin Symbols
      /\ raised \in BOOLEAN
  BY CurType, TypeParts, TraceAssumption DEF TraceOK, Symbols
<1>1. PICK pf, pcat :
        /\ Process(i, fn, pf, pcat)
        /\ IF active THEN pf = prevFn /\ pcat = prevCat ELSE pf = None /\ pcat = "call"
  BY DEF RunTrace
<1>2. CASE pf = fn /\ pcat \in {"call", "tail"}
  <2>1. active /\ pf = prevFn /\ pcat = prevCat
    BY <1>0, <1>1, <1>2
  <2>2. fresh
    BY <1>2, <2>1 DEF Watching
  <2>3. Entry[Cur] = "plain" /\ fn # Nosym
    BY <1>2, <2>1, <2>2 DEF Watching
  <2>4. cat \in {"instr", "error"}
    BY <2>2, <2>3
  <2> HIDE DEF cat, fn
  <2>5. Raise
    BY <1>1, <1>2, <2>3, <2>4 DEF Process, cat
  <2> QED BY <2>5 DEF Raise
<1>3. CASE ~(pf = fn /\ pcat \in {"call", "tail"})
  <2>1. Begun(fn, pf, pcat) = Full(n)
    BY <1>1, <1>3, StartsFull
  <2>2. Cur = target <=> fn = target
    BY <1>0, SymbolTarget
  <2> HIDE DEF cat, fn
  <2>3. \/ Raise
        \/ /\ \/ cat = "call" /\ PushCall(fn, Full(n))
              \/ cat \in {"tail", "return"} /\ Full(n) # <<>> /\ EndFn(fn, Full(n), cat)
              \/ cat = "instr" /\ callStarts' = Full(n) /\ UNCHANGED <<callStack, events>>
           /\ active' = ~(cat = "return" /\ fn = target)
           /\ prevFn' = fn /\ prevCat' = cat /\ UNCHANGED raised
    BY <1>1, <2>1 DEF Process, cat
  <2>4. Raise => raised'
    BY DEF Raise
  <2>5. active' = ~(cat = "return" /\ fn = target) => active' = ~(cat = "return" /\ Cur = target)
    BY <2>2
  <2> QED BY <2>3, <2>4, <2>5 DEF Reads, cat, fn
<1> QED BY <1>2, <1>3

\* A line outside of the profile leaves no trace.
LEMMA LineSkipped ==
  ASSUME TypeOK, NEW i, RunTrace(i, Cur), ~active, Symbol(Cur) # target
  PROVE  /\ prevCat' = "instr" /\ active' = active
         /\ UNCHANGED <<callStack, callStarts, events, prevFn, raised>>
BY DEF RunTrace

-----------------------------------------------------------------------------
(* One step: a line of the log.                                            *)

LEMMA PlainCat ==
  ASSUME NEW fn
  PROVE  Category(FromStr([mnem |-> "add", args |-> <<"a5", "a5">>], "inside"), fn) = "instr"
<1>1. FromStr([mnem |-> "add", args |-> <<"a5", "a5">>], "inside").mnem = "add"
  BY DEF FromStr
<1> QED BY <1>1 DEF Category, IsCall, IsTailCall, IsReturn, IndexError

\* A jump that was not seen is betrayed by the line after it.
LEMMA UnseenRaises ==
  ASSUME TypeOK, Watching, Unseen, Plain
  PROVE  raised'
<1> DEFINE i == FromStr([mnem |-> "add", args |-> <<"a5", "a5">>], "inside")
           fn == Symbol(Cur)
<1>1. active /\ prevCat = "instr" /\ prevFn # fn
  BY DEF Unseen, Watching
<1>2. Category(i, fn) = "instr"
  BY PlainCat
<1> HIDE DEF i, fn
<1>3. Process(i, fn, prevFn, prevCat)
  BY <1>1 DEF Plain, Retire, RunTrace, i, fn
<1>4. Raise
  BY <1>1, <1>2, <1>3 DEF Process
<1> QED BY <1>4 DEF Raise

\* A plain line or a jump inside of the function.
LEMMA StepInside ==
  ASSUME TypeOK, NEW n \in 1..Len(frames), Split(n), Watching, InStep(n), events = profile,
         ~Unseen, NEW i, RunTrace(i, Cur), Category(i, Symbol(Cur)) \in {"instr", "error"},
         fresh' = FALSE, UNCHANGED <<frames, profile, target>>
  PROVE  raised' \/ (Watching' /\ InStep(n)' /\ events' = profile')
<1>0. UNCHANGED <<Top(frames), Cur, Full(n), Len(frames)>>
  BY DEF Top, Cur, Full
<1>1. CASE ~active /\ Symbol(Cur) # target
  <2>1. ~Top(frames).traced /\ target # None
    BY <1>1, OutsideFacts
  <2>2. UNCHANGED <<active, callStack, callStarts, events>>
    BY <1>1, LineSkipped
  <2>3. Watching'
    BY <1>0, <1>1, <2>1, <2>2 DEF Watching, Unseen
  <2>4. InStep(n)'
    BY <1>0, <2>1, <2>2 DEF InStep
  <2> QED BY <2>2, <2>3, <2>4
<1>2. CASE (active \/ Symbol(Cur) = target) /\ ~raised'
  <2>1. Reads(n, Category(i, Symbol(Cur)))
    BY <1>2, LineRead
  <2>2. /\ prevCat' = "instr" /\ active' /\ callStarts' = Full(n)
        /\ UNCHANGED <<callStack, events>>
    BY <2>1 DEF Reads
  <2>3. target # None => Top(frames).traced
    BY <1>2, InsideFacts
  <2>4. Watching'
    BY <1>0, <2>2, <2>3 DEF Watching, Unseen
  <2>5. InStep(n)'
    BY <1>0, <2>2 DEF InStep
  <2> QED BY <2>2, <2>4, <2>5
<1> QED BY <1>1, <1>2

\* A call.
LEMMA StepCall ==
  ASSUME TypeOK, Readable, NEW n \in 1..Len(frames), Split(n), Watching, InStep(n),
         events = profile, ~Unseen, NEW w \in CallForms, NEW g \in Fns, CallFn(w, g),
         NEW m \in 1..Len(frames'), m = (IF Called(g).traced THEN n ELSE n + 1), Split(m)'
  PROVE  raised' \/ (Watching' /\ (Unseen' \/ (InStep(m)' /\ events' = profile')))
<1> DEFINE i == FromStr(w, g)
           cat == Category(i, Symbol(Cur))
           L == Len(frames)
<1>0. MachineOK /\ target \in Targets /\ active \in BOOLEAN
  BY TypeParts DEF TraceOK
<1>1. /\ ~fresh /\ <<Cur, g>> \in CallEdges /\ RunTrace(i, Cur) /\ line' = Now /\ UNCHANGED target
      /\ frames' = Append(frames, Called(g)) /\ fresh' = TRUE /\ UNCHANGED profile
  BY DEF CallFn, Retire
<1>2. \/ cat \in {"call", "error"}
      \/ cat = "instr" /\ Symbol(Cur) # Symbol(g) /\ Entry[g] = "plain"
  BY <1>1 DEF Readable, Betrayed
<1>3. Symbol(Cur) # Symbol(g) \/ (Entry[g] = "plain" /\ Symbol(g) # Nosym)
  BY <1>1 DEF Readable
<1>4. /\ L \in Nat /\ L >= 1 /\ Top(frames) = frames[L] /\ Len(frames') = L + 1
      /\ Top(frames)' = Called(g) /\ Cur' = g /\ \A k \in 1..L : frames'[k] = frames[k]
  <2>1. /\ Len(frames') = L + 1 /\ frames'[L + 1] = Called(g)
        /\ \A k \in 1..L : frames'[k] = frames[k]
    BY <1>0, <1>1, CalledType, AppendProperties DEF MachineOK
  <2>2. Top(frames)' = Called(g)
    BY <2>1 DEF Top
  <2> QED BY <1>0, <2>1, <2>2, FrameFacts DEF Cur, Called
<1>5. /\ Called(g).at = Now + 1
      /\ Called(g).traced <=> (target = None \/ g = target \/ Top(frames).traced)
      /\ Called(g).stack = IF Called(g).traced /\ g # target
                           THEN Append(Top(frames).stack, Symbol(Cur)) ELSE <<>>
  BY DEF Called
<1>6. Top(frames)'.at = Now'
  BY <1>1, <1>4, <1>5 DEF Now
<1> HIDE DEF i, cat
<1>7. CASE ~active /\ Symbol(Cur) # target
  <2>1. ~Top(frames).traced /\ target # None /\ n = L
    BY <1>7, OutsideFacts
  <2>2. active' = FALSE /\ UNCHANGED <<callStack, callStarts, events>>
    BY <1>1, <1>7, LineSkipped
  <2>3. callStack = <<>> /\ callStarts = <<>>
    BY <1>0, <1>1, <1>4, <2>1, FullFacts DEF InStep, Split
  <2>4. Called(g).traced <=> g = target
    BY <1>5, <2>1
  <2>5. Watching'
    BY <1>1, <1>4, <1>6, <2>1, <2>2, <2>4 DEF Watching, Unseen
  <2>6. Called(g).stack = <<>>
    BY <1>5, <2>4
  <2>7. (Called(g).traced => Lower(m)' = <<>>) /\ (~Called(g).traced => Full(m)' = <<>>)
    <3>1. Called(g).traced => Len(frames') - m - 1 = 0
      BY <1>4, <2>1
    <3>2. ~Called(g).traced => Len(frames') - m = 0
      BY <1>4, <2>1
    <3>3. 1..0 = {}
      OBVIOUS
    <3> QED BY <3>1, <3>2, <3>3 DEF Lower, Full
  <2>8. InStep(m)'
    BY <1>1, <1>4, <2>2, <2>3, <2>6, <2>7 DEF InStep
  <2> QED BY <1>1, <2>2, <2>5, <2>8
<1>8. CASE (active \/ Symbol(Cur) = target) /\ ~raised'
  <2>1. active /\ Reads(n, cat)
    BY <1>1, <1>8, InsideFacts, LineRead DEF cat
  <2>2. active' /\ prevFn' = Symbol(Cur) /\ prevCat' = cat /\ cat \in {"call", "instr"}
    BY <1>2, <2>1 DEF Reads
  <2>3. Called(g).traced /\ m = n
    BY <1>5, <1>8, InsideFacts
  <2>4. Watching'
    BY <1>1, <1>2, <1>3, <1>4, <1>6, <2>2, <2>3 DEF Watching, Unseen
  <2>5. CASE cat = "instr"
    BY <1>1, <2>2, <2>4, <2>5 DEF Unseen
  <2>6. CASE cat = "call"
    <3>1. /\ callStack' = Append(callStack, Symbol(Cur)) /\ callStarts' = Full(n)
          /\ UNCHANGED events
      BY <2>1, <2>6 DEF Reads, PushCall
    <3>2. g # target
      <4>1. CASE target = None
        BY <1>0, <4>1, SymbolTarget
      <4>2. CASE target # None
        <5>1. Cur \in Below(target) \cup {target}
          BY <1>8, <4>2, InsideFacts, CurInside
        <5>2. g \in Below(target)
          BY <1>1, <5>1, BelowClosed
        <5> QED BY <1>0, <4>2, <5>2 DEF Readable
      <4> QED BY <4>1, <4>2
    <3>3. callStack' = Top(frames)'.stack
      BY <1>4, <1>5, <2>3, <3>1, <3>2 DEF InStep
    <3>4. Lower(n)' = Full(n)
      <4>1. Len(frames') - n - 1 = L - n
        BY <1>4
      <4>2. \A k \in 1..(L - n) : frames'[n + k] = frames[n + k]
        BY <1>4
      <4> QED BY <4>1, <4>2 DEF Lower, Full
    <3> QED BY <1>1, <1>4, <2>3, <2>4, <3>1, <3>3, <3>4 DEF InStep
  <2> QED BY <2>2, <2>5, <2>6
<1> QED BY <1>7, <1>8

\* The event that ends an activation is the one of the machine.
LEMMA EndedRight ==
  ASSUME TypeOK, NEW n \in 1..Len(frames), Split(n), InStep(n), events = profile, Ends,
         NEW cat, Full(n) # <<>>, EndFn(Symbol(Cur), Full(n), cat)
  PROVE  /\ n < Len(frames) /\ Top(frames).traced /\ events' = profile' /\ callStarts' = Lower(n)
         /\ callStack' = IF cat = "return" /\ Top(frames).stack # <<>>
                         THEN Pop(Top(frames).stack) ELSE Top(frames).stack
<1>0. MachineOK
  BY TypeParts
<1>1. n < Len(frames) /\ Top(frames).traced
  BY <1>0, FullFacts, FrameFacts DEF Split
<1>2. Top(Full(n)) = Top(frames).at /\ Pop(Full(n)) = Lower(n)
  BY <1>0, <1>1, FullFacts
<1> QED BY <1>1, <1>2 DEF EndFn, Ends, InStep

\* A tail call.
LEMMA StepTail ==
  ASSUME TypeOK, Readable, NEW n \in 1..Len(frames), Split(n), Watching, InStep(n),
         events = profile, ~Unseen, NEW w \in TailForms, NEW g \in Fns, TailTo(w, g),
         Len(frames') = Len(frames),
         \A k \in 1..(Len(frames) - 1) : frames'[k] = frames[k],
         frames'[Len(frames)] = [Top(frames) EXCEPT !.fn = g, !.at = Now + 1]
  PROVE  raised' \/ (Watching' /\ (Unseen' \/ (InStep(n)' /\ events' = profile')))
<1> DEFINE i == FromStr(w, g)
           cat == Category(i, Symbol(Cur))
           L == Len(frames)
<1>0. MachineOK /\ target \in Targets /\ active \in BOOLEAN
  BY TypeParts DEF TraceOK
<1>1. /\ fresh => Entry[Cur] = "tail"
      /\ <<Cur, g>> \in TailEdges /\ RunTrace(i, Cur) /\ line' = Now /\ UNCHANGED target
      /\ fresh' = TRUE /\ Ends
  BY DEF TailTo, Retire
<1>2. \/ cat \in {"tail", "error"}
      \/ cat = "instr" /\ Symbol(Cur) # Symbol(g) /\ Entry[g] = "plain"
  BY <1>1 DEF Readable, Betrayed
<1>3. Symbol(Cur) # Symbol(g) \/ (Entry[g] = "plain" /\ Symbol(g) # Nosym)
  BY <1>1 DEF Readable
<1>4. target # None => Cur # target /\ g # target
  BY <1>0, <1>1 DEF Readable
<1>5. L \in Nat /\ L >= 1 /\ Top(frames) = frames[L] /\ Top(frames) \in Frames
  BY <1>0, FrameFacts, CurType
<1>6. /\ Top(frames)' = [Top(frames) EXCEPT !.fn = g, !.at = Now + 1]
  BY DEF Top
<1>7. /\ Top(frames)'.fn = g /\ Top(frames)'.at = Now + 1
      /\ Top(frames)'.traced = Top(frames).traced /\ Top(frames)'.stack = Top(frames).stack
  BY <1>5, <1>6 DEF Frames
<1>8. Cur' = g /\ Top(frames)'.at = Now'
  BY <1>1, <1>7 DEF Now, Cur
<1> HIDE DEF i, cat
<1>9. CASE ~active /\ Symbol(Cur) # target
  <2>1. ~Top(frames).traced /\ target # None /\ n = L
    BY <1>9, OutsideFacts
  <2>2. active' = FALSE /\ UNCHANGED <<callStack, callStarts, events>>
    BY <1>1, <1>9, LineSkipped
  <2>3. Watching'
    BY <1>1, <1>7, <1>8, <2>1, <2>2 DEF Watching, Unseen
  <2>4. Full(n)' = Full(n)
    <3>1. Len(frames') - n = 0 /\ L - n = 0 /\ 1..0 = {}
      BY <1>5, <2>1
    <3> QED BY <3>1 DEF Full
  <2>5. InStep(n)'
    BY <1>7, <2>1, <2>2, <2>4 DEF InStep
  <2>6. UNCHANGED profile
    BY <1>1, <2>1 DEF Ends
  <2> QED BY <2>2, <2>3, <2>5, <2>6
<1>10. CASE (active \/ Symbol(Cur) = target) /\ ~raised'
  <2>1. Reads(n, cat)
    BY <1>1, <1>10, LineRead DEF cat
  <2>2. active' /\ prevFn' = Symbol(Cur) /\ prevCat' = cat /\ cat \in {"tail", "instr"}
    BY <1>2, <2>1 DEF Reads
  <2>3. target # None => Top(frames).traced
    BY <1>10, InsideFacts
  <2>4. CASE cat = "instr"
    <3>1. Watching'
      BY <1>1, <1>2, <1>7, <1>8, <2>2, <2>3, <2>4 DEF Watching, Unseen
    <3> QED BY <1>1, <2>2, <2>4, <3>1 DEF Unseen
  <2>5. CASE cat = "tail"
    <3>1. Full(n) # <<>> /\ EndFn(Symbol(Cur), Full(n), cat)
      BY <2>1, <2>5 DEF Reads
    <3>2. /\ n < L /\ Top(frames).traced /\ events' = profile' /\ callStarts' = Lower(n)
          /\ callStack' = Top(frames).stack
      BY <1>1, <2>5, <3>1, EndedRight
    <3>3. Watching'
      BY <1>1, <1>3, <1>7, <1>8, <2>2, <2>5, <3>2 DEF Watching, Unseen
    <3>4. Lower(n)' = Lower(n)
      <4>1. \A k \in 1..(L - n - 1) : n + k \in 1..(L - 1)
        BY <1>5
      <4>2. \A k \in 1..(L - n - 1) : frames'[n + k].at = frames[n + k].at
        BY <4>1
      <4> QED BY <4>2 DEF Lower
    <3>5. InStep(n)'
      BY <1>1, <1>7, <3>2, <3>4 DEF InStep
    <3> QED BY <3>2, <3>3, <3>5
  <2> QED BY <2>2, <2>4, <2>5
<1> QED BY <1>9, <1>10

\* A return.
LEMMA StepRet ==
  ASSUME TypeOK, Readable, NEW n \in 1..Len(frames), Split(n), Watching, InStep(n),
         events = profile, ~Unseen, NEW w \in RetForms, Ret(w),
         NEW m \in 1..Len(frames'), m = (IF n = Len(frames) THEN n - 1 ELSE n),
         Len(frames') = Len(frames) - 1,
         \A k \in 1..(Len(frames) - 1) : frames'[k] = frames[k]
  PROVE  raised' \/ (Watching' /\ InStep(m)' /\ events' = profile')
<1> DEFINE i == FromStr(w, "inside")
           cat == Category(i, Symbol(Cur))
           L == Len(frames)
<1>0. MachineOK /\ target \in Targets /\ active \in BOOLEAN /\ Symbol(Cur) \in Symbols
  BY TypeParts, CurType DEF TraceOK
<1>1. /\ fresh => Entry[Cur] = "ret"
      /\ L > 1 /\ RunTrace(i, Cur) /\ line' = Now /\ UNCHANGED target
      /\ fresh' = FALSE /\ Ends
  BY DEF Ret, Retire
<1>2. cat \in {"return", "error"}
  BY <1>0 DEF Readable
<1>3. L \in Nat /\ Top(frames) = frames[L] /\ Top(frames)' = frames[L - 1] /\ L - 1 \in 1..L
  <2>1. L \in Nat /\ L >= 1 /\ Top(frames) = frames[L]
    BY <1>0, FrameFacts
  <2>2. Top(frames)' = frames'[L - 1] /\ L - 1 \in 1..(L - 1)
    BY <1>1, <2>1 DEF Top
  <2> QED BY <2>1, <2>2
<1>4. /\ Top(frames)'.traced <=> n < L - 1
      /\ n = L => Top(frames)'.stack = <<>>
      /\ n < L => Top(frames)'.stack = IF Top(frames).stack # <<>>
                                       THEN Pop(Top(frames).stack) ELSE <<>>
  <2>1. n = L => L - 1 \in 1..n
    BY <1>3
  <2>2. n < L => L \in (n + 1)..L
    BY <1>3
  <2> QED BY <1>3, <2>1, <2>2 DEF Split
<1> HIDE DEF i, cat
<1>5. CASE ~active /\ Symbol(Cur) # target
  <2>1. ~Top(frames).traced /\ target # None /\ n = L
    BY <1>5, OutsideFacts
  <2>2. active' = FALSE /\ UNCHANGED <<callStack, callStarts, events>>
    BY <1>1, <1>5, LineSkipped
  <2>3. callStack = <<>> /\ callStarts = <<>>
    BY <1>0, <1>3, <2>1, FullFacts DEF InStep, Split
  <2>4. ~Top(frames)'.traced /\ Top(frames)'.stack = <<>>
    BY <1>3, <1>4, <2>1
  <2>5. Watching'
    BY <1>1, <2>1, <2>2, <2>4 DEF Watching, Unseen
  <2>6. Full(m)' = <<>>
    <3>1. Len(frames') - m = 0 /\ 1..0 = {}
      BY <1>3, <2>1
    <3> QED BY <3>1 DEF Full
  <2>7. InStep(m)'
    BY <2>2, <2>3, <2>4, <2>6 DEF InStep
  <2>8. UNCHANGED profile
    BY <1>1, <2>1 DEF Ends
  <2> QED BY <2>2, <2>5, <2>7, <2>8
<1>6. CASE (active \/ Symbol(Cur) = target) /\ ~raised'
  <2>1. Reads(n, cat)
    BY <1>1, <1>2, <1>6, LineRead DEF cat
  <2>2. /\ cat = "return" /\ prevCat' = "return" /\ active' = ~(Cur = target)
        /\ Full(n) # <<>> /\ EndFn(Symbol(Cur), Full(n), cat)
    BY <1>2, <2>1 DEF Reads
  <2>3. /\ n < L /\ Top(frames).traced /\ events' = profile' /\ callStarts' = Lower(n)
        /\ callStack' = IF Top(frames).stack # <<>> THEN Pop(Top(frames).stack) ELSE <<>>
    BY <1>1, <2>2, EndedRight
  <2>4. m = n
    BY <2>3
  <2>5. target # None => (active' <=> Top(frames)'.traced)
    <3> SUFFICES ASSUME target # None PROVE active' <=> Top(frames)'.traced
      OBVIOUS
    <3>1. n + 1 = L => Cur = target
      BY CurInside
    <3>2. n + 1 < L => Cur # target
      BY <1>0, CurInside DEF Readable
    <3>3. Cur = target <=> ~(n < L - 1)
      BY <1>3, <2>3, <3>1, <3>2
    <3> QED BY <1>4, <2>2, <3>3
  <2>6. target = None => active'
    BY <1>0, <2>2, SymbolTarget, CurType
  <2>7. Watching'
    BY <1>1, <2>2, <2>5, <2>6 DEF Watching, Unseen
  <2>8. Full(m)' = Lower(n)
    <3>1. Len(frames') - m = L - n - 1
      BY <1>3, <2>4
    <3>2. \A k \in 1..(L - n - 1) : n + k \in 1..(L - 1)
      BY <1>3
    <3>3. \A k \in 1..(L - n - 1) : frames'[n + k].at = frames[n + k].at
      BY <3>2
    <3> QED BY <2>4, <3>1, <3>3 DEF Lower, Full
  <2>9. InStep(m)'
    BY <1>1, <1>4, <2>3, <2>8 DEF InStep
  <2> QED BY <2>3, <2>7, <2>9
<1> QED BY <1>5, <1>6

-----------------------------------------------------------------------------
(* The invariant.                                                          *)

LEMMA TInvInit ==
  ASSUME Init, Readable
  PROVE  TInv
<1>0. TypeOK
  BY InitType
<1>1. PICK c \in Chains : frames = [i \in 1..Len(c) |->
                               [fn |-> c[i], at |-> 0, traced |-> FALSE, stack |-> <<>>]]
  BY DEF Init
<1>2. Len(frames) \in Nat /\ Len(frames) >= 1 /\ Top(frames) = frames[Len(frames)]
  BY <1>0, FrameFacts, TypeParts
<1>3. c \in Seq(Fns) /\ Len(c) \in Nat
  BY TraceAssumption, LenProperties
<1>4. Len(frames) = Len(c)
  <2>1. DOMAIN frames = 1..Len(frames) /\ DOMAIN frames = 1..Len(c)
    BY <1>0, <1>1, LenProperties, TypeParts DEF MachineOK
  <2> QED BY <1>2, <1>3, <2>1
<1>5. \A k \in 1..Len(frames) :
        frames[k].fn = c[k] /\ ~frames[k].traced /\ frames[k].stack = <<>>
  BY <1>1, <1>4
<1>6. target # None => \A k \in 1..Len(frames) : frames[k].fn # target
  BY <1>0, <1>4, <1>5, TypeParts DEF Readable
<1>7. PICK n \in 1..Len(frames) : n = Len(frames)
  BY <1>2
<1>8. Split(n)
  BY <1>2, <1>5, <1>6, <1>7 DEF Split
<1>9. ~Top(frames).traced /\ Top(frames).stack = <<>>
  BY <1>2, <1>5
<1>10. Watching
  BY <1>9 DEF Init, Watching, Unseen
<1>11. InStep(n) /\ events = profile
  BY <1>0, <1>7, <1>9, FullFacts, TypeParts DEF Init, InStep
<1> QED BY <1>0, <1>8, <1>10, <1>11 DEF TInv

LEMMA TInvStep ==
  ASSUME TInv, Readable, [Next]_vars
  PROVE  TInv'
<1>0. TypeOK /\ TypeOK'
  BY TypeStep DEF TInv
<1>1. PICK n \in 1..Len(frames) :
        /\ Split(n)
        /\ raised \/ (Watching /\ (Unseen \/ (InStep(n) /\ events = profile)))
  BY DEF TInv
<1>q. ASSUME NEW i, RunTrace(i, Cur), Category(i, Symbol(Cur)) \in {"instr", "error"}, ~raised,
             fresh' = FALSE, UNCHANGED <<frames, profile, target>>, Unseen => raised'
      PROVE  TInv'
  <2>1. Split(n)' /\ Len(frames') = Len(frames)
    BY <1>1, <1>q DEF Split
  <2>2. raised' \/ (Watching' /\ InStep(n)' /\ events' = profile')
    BY <1>0, <1>1, <1>q, StepInside
  <2> QED BY <1>0, <2>1, <2>2 DEF TInv
<1>2. CASE Plain
  <2> DEFINE i == FromStr([mnem |-> "add", args |-> <<"a5", "a5">>], "inside")
  <2>1. RunTrace(i, Cur) /\ ~raised /\ fresh' = FALSE /\ UNCHANGED <<frames, profile, target>>
    BY <1>2 DEF Plain, Retire
  <2>2. Category(i, Symbol(Cur)) = "instr"
    BY PlainCat
  <2>3. Unseen => raised'
    BY <1>0, <1>1, <1>2, <2>1, UnseenRaises
  <2> HIDE DEF i
  <2> QED BY <1>q, <2>1, <2>2, <2>3
<1>3. ASSUME NEW w \in JumpForms, Jump(w) PROVE TInv'
  <2> DEFINE i == FromStr(w, "inside")
  <2>1. RunTrace(i, Cur) /\ ~raised /\ ~fresh /\ UNCHANGED <<frames, fresh, profile, target>>
    BY <1>3 DEF Jump, Retire
  <2>2. Category(i, Symbol(Cur)) \in {"instr", "error"}
    BY <1>0, CurType, TypeParts DEF Readable
  <2>3. ~Unseen /\ fresh' = FALSE
    BY <1>0, <2>1 DEF Unseen, TypeOK
  <2> HIDE DEF i
  <2> QED BY <1>q, <2>1, <2>2, <2>3
<1>4. ASSUME NEW w \in CallForms, NEW g \in Fns, CallFn(w, g) PROVE TInv'
  <2>1. /\ <<Cur, g>> \in CallEdges /\ frames' = Append(frames, Called(g)) /\ UNCHANGED target
        /\ ~fresh /\ ~raised
    BY <1>4 DEF CallFn, Retire
  <2>2. PICK m \in 1..Len(frames') : m = (IF Called(g).traced THEN n ELSE n + 1) /\ Split(m)'
    BY <1>0, <1>1, <2>1, CallSplit
  <2>3. ~Unseen
    BY <2>1 DEF Unseen
  <2>4. raised' \/ (Watching' /\ (Unseen' \/ (InStep(m)' /\ events' = profile')))
    BY <1>0, <1>1, <1>4, <2>1, <2>2, <2>3, StepCall
  <2> QED BY <1>0, <2>2, <2>4 DEF TInv
<1>5. ASSUME NEW w \in TailForms, NEW g \in Fns, TailTo(w, g) PROVE TInv'
  <2>1. /\ <<Cur, g>> \in TailEdges /\ UNCHANGED target /\ ~raised
        /\ fresh => Entry[Cur] = "tail"
        /\ frames' = Append(Pop(frames), [Top(frames) EXCEPT !.fn = g, !.at = Now + 1])
    BY <1>5 DEF TailTo, Retire
  <2>2. /\ Split(n)' /\ Len(frames') = Len(frames)
        /\ \A k \in 1..(Len(frames) - 1) : frames'[k] = frames[k]
        /\ frames'[Len(frames)] = [Top(frames) EXCEPT !.fn = g, !.at = Now + 1]
    BY <1>0, <1>1, <2>1, TailSplit
  <2>3. ~Unseen
    BY <1>1, <2>1 DEF Unseen, Watching
  <2>4. raised' \/ (Watching' /\ (Unseen' \/ (InStep(n)' /\ events' = profile')))
    BY <1>0, <1>1, <1>5, <2>1, <2>2, <2>3, StepTail
  <2> QED BY <1>0, <2>2, <2>4 DEF TInv
<1>6. ASSUME NEW w \in RetForms, Ret(w) PROVE TInv'
  <2>1. /\ UNCHANGED target /\ ~raised /\ Len(frames) > 1
        /\ fresh => Entry[Cur] = "ret"
        /\ frames' = Pop(frames)
    BY <1>6 DEF Ret, Retire
  <2>2. PICK m \in 1..Len(frames') :
            /\ m = (IF n = Len(frames) THEN n - 1 ELSE n) /\ Split(m)'
            /\ Len(frames') = Len(frames) - 1
            /\ \A k \in 1..(Len(frames) - 1) : frames'[k] = frames[k]
    BY <1>0, <1>1, <2>1, RetSplit
  <2>3. ~Unseen
    BY <1>1, <2>1 DEF Unseen, Watching
  <2>4. raised' \/ (Watching' /\ InStep(m)' /\ events' = profile')
    BY <1>0, <1>1, <1>6, <2>1, <2>2, <2>3, StepRet
  <2> QED BY <1>0, <2>2, <2>4 DEF TInv
<1>7. CASE UNCHANGED vars
  <2>1. UNCHANGED <<line, frames, fresh, profile, target, active, callStack, callStarts, events,
                    prevFn, prevCat, raised>>
    BY <1>7 DEF vars, machineVars, traceVars
  <2>2. UNCHANGED <<Top(frames), Cur, Now, Full(n), Lower(n), Len(frames)>>
    BY <2>1 DEF Top, Cur, Now, Full, Lower
  <2>3. Split(n)'
    BY <1>1, <2>1, <2>2 DEF Split
  <2>4. (Unseen <=> Unseen') /\ (Watching => Watching') /\ (InStep(n) => InStep(n)')
    BY <2>1, <2>2 DEF Unseen, Watching, InStep
  <2> QED BY <1>0, <1>1, <2>1, <2>2, <2>3, <2>4 DEF TInv
<1> QED BY <1>2, <1>3, <1>4, <1>5, <1>6, <1>7 DEF Next

LEMMA TInvHolds ==
  ASSUME Readable
  PROVE  Spec => []TInv
BY TInvInit, TInvStep, PTL DEF Spec

\* EventsTrue: the events of process_instr are the activations that the
\* machine completed, with their starts and callers, for every binary and
\* every log that TraceGen can read, up to an exception.
THEOREM ProfileTrue ==
  ASSUME Readable
  PROVE  Spec => []EventsTrue
<1>1. TInv => EventsTrue
  BY DEF TInv, EventsTrue
<1> QED BY <1>1, TInvHolds, PTL

\* StacksTrue: call_stack and call_starts stay in step with the machine
\* through tail calls, stubs without a symbol and fn_target going in and out.
THEOREM StacksInStep ==
  ASSUME Readable
  PROVE  Spec => []StacksTrue
<1>1. ASSUME TInv PROVE StacksTrue
  <2>1. TypeOK
    BY <1>1 DEF TInv
  <2>2. PICK n \in 1..Len(frames) :
          /\ Split(n)
          /\ raised \/ (Watching /\ (Unseen \/ (InStep(n) /\ events = profile)))
    BY <1>1 DEF TInv
  <2>3. CASE InStep(n)
    <3>1. Len(frames) \in Nat
      BY <2>1, FrameFacts, TypeParts
    <3>2. Len(frames) - n - 0 = Len(frames) - n
      BY <3>1
    <3>3. callStarts = [k \in 1..(Len(frames) - n - (IF fresh /\ Top(frames).traced THEN 1 ELSE 0))
                          |-> frames[n + k].at]
      BY <2>3, <3>2 DEF InStep, Full, Lower
    <3> QED BY <2>2, <2>3, <3>3 DEF Split, InStep, StacksTrue
  <2> QED BY <2>2, <2>3 DEF StacksTrue
<1> QED BY <1>1, TInvHolds, PTL
=============================================================================
