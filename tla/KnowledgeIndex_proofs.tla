------------------------ MODULE KnowledgeIndex_proofs ------------------------
(***************************************************************************)
(* Proofs about KnowledgeIndex, for any number of documents, any batch     *)
(* size and any number of edits, kills, runs of init and processes.        *)
(***************************************************************************)
EXTENDS KnowledgeIndex, TLAPS

\* rebuild is under way: it has given the collection what it has not still to
\* give, and nothing else is in it but what could not be deleted.
Rebuilding ==
    pc["init"] = "add" =>
        /\ interrupted /\ wanted = got["init"]
        /\ \A d \in Docs : vectors[d] = IF leftover[d] # 0 THEN leftover[d]
                                         ELSE IF d \in todo["init"] THEN 0 ELSE wanted[d]

\* The server is being started: the present version of every file is one it
\* has had since, and so are the versions that have been read or stat'ed.
Starting ==
    /\ pc["server"] \notin {"off", "serving"} => \A d \in Docs : files[d] \in seen[d]
    /\ pc["server"] = "read" => \A d \in Docs \ todo["server"] : got["server"][d] \in seen[d]
    /\ pc["server"] = "stat" => \A d \in Docs \ todo["server"] : prints["server"][d] \in seen[d]
    /\ pc["server"] = "fresh" => \A d \in Docs : prints["server"][d] \in seen[d]

VInv == VectorWhole /\ Rebuilding
SInv == ServedIsCurrent /\ Starting
KInv == TypeOK /\ VInv /\ SInv

-----------------------------------------------------------------------------
(* Types.                                                                  *)

\* Names of processes and places.
USE DEF Procs, Labels

\* No document, no chunk: still a text and a payload.
LEMMA NothingTyped == Nothing \in Texts /\ NoIndex \in Payload
BY KnowledgeAssumption DEF Nothing, Texts, Versions, NoIndex, Payload

\* The end of a process keeps the types of what it drops.
LEMMA ExitTyped ==
  ASSUME TypeOK, NEW p \in Procs, Exit(p)
  PROVE  /\ pc' \in [Procs -> Labels] /\ todo' \in [Procs -> SUBSET Docs]
         /\ got' \in [Procs -> Texts] /\ prints' \in [Procs -> Texts]
         /\ payload' \in Payload /\ seen' \in [Docs -> SUBSET Versions]
         /\ seeding' \subseteq Procs /\ clashing' \subseteq seeding'
<1>1. /\ pc' \in [Procs -> Labels] /\ todo' \in [Procs -> SUBSET Docs]
      /\ got' \in [Procs -> Texts] /\ prints' \in [Procs -> Texts]
  BY NothingTyped DEF TypeOK, Exit, Goto
<1>2. payload' \in Payload /\ seen' \in [Docs -> SUBSET Versions]
  BY NothingTyped DEF TypeOK, Exit
<1>3. seeding' \subseteq Procs /\ clashing' \subseteq seeding'
  BY DEF TypeOK, Exit
<1> QED BY <1>1, <1>2, <1>3

\* Steps of rag.py keep the types.
LEMMA SharedTyped ==
  ASSUME TypeOK, NEW p \in Procs, Shared(p)
  PROVE  TypeOK'
<1> USE DEF diskVars, sqlVars, vectorVars, localVars, counters
<1>1. CASE ListFiles(p)
  BY <1>1, NothingTyped DEF ListFiles, Goto, Present, TypeOK
<1>2. CASE ReadFile(p)
  <2>1. PICK d \in Present : /\ got' = [got EXCEPT ![p][d] = files[d]]
                             /\ todo' = [todo EXCEPT ![p] = @ \ {d}]
    BY <1>2 DEF ReadFile
  <2>2. d \in Docs /\ files[d] \in Versions /\ got[p] \in Texts
    BY <2>1 DEF Present, TypeOK, Texts
  <2>3. [got[p] EXCEPT ![d] = files[d]] \in Texts
    BY <2>2 DEF Texts
  <2>4. got' \in [Procs -> Texts] /\ todo' \in [Procs -> SUBSET Docs]
    BY <2>1, <2>3 DEF TypeOK
  <2> QED BY <1>2, <2>4 DEF ReadFile, TypeOK
<1>3. CASE ReadFails(p)
  BY <1>3, ExitTyped DEF ReadFails, TypeOK
<1>4. CASE HaveChunks(p)
  <2>1. pc' \in [Procs -> Labels]
    BY <1>4 DEF HaveChunks, Goto, TypeOK
  <2> QED BY <1>4, <2>1 DEF HaveChunks, TypeOK
<1> QED BY <1>1, <1>2, <1>3, <1>4 DEF Shared

LEMMA IndexingTyped ==
  ASSUME TypeOK, NEW p \in {"build", "server"}, Indexing(p)
  PROVE  TypeOK'
<1> USE DEF diskVars, sqlVars, vectorVars, localVars, counters
<1>1. CASE ListPrints(p)
  BY <1>1, NothingTyped DEF ListPrints, Goto, Present, TypeOK
<1>2. CASE Stat(p)
  <2>1. PICK d \in Present : /\ prints' = [prints EXCEPT ![p][d] = files[d]]
                             /\ todo' = [todo EXCEPT ![p] = @ \ {d}]
    BY <1>2 DEF Stat
  <2>2. d \in Docs /\ files[d] \in Versions /\ prints[p] \in Texts
    BY <2>1 DEF Present, TypeOK, Texts
  <2>3. [prints[p] EXCEPT ![d] = files[d]] \in Texts
    BY <2>2 DEF Texts
  <2>4. prints' \in [Procs -> Texts] /\ todo' \in [Procs -> SUBSET Docs]
    BY <2>1, <2>3 DEF TypeOK
  <2> QED BY <1>2, <2>4 DEF Stat, TypeOK
<1>3. CASE StatFails(p)
  <2>1. CASE Exit(p)
    BY <1>3, <2>1, ExitTyped DEF StatFails, TypeOK
  <2>2. CASE Stale /\ UNCHANGED <<todo, got, seeding, clashing, seen>>
    BY <1>3, <2>2, NothingTyped DEF StatFails, Stale, Goto, TypeOK
  <2> QED BY <1>3, <2>1, <2>2 DEF StatFails
<1>4. CASE HavePrints(p)
  BY <1>4 DEF HavePrints, Goto, TypeOK
<1> QED BY <1>1, <1>2, <1>3, <1>4 DEF Indexing

\* Steps on the tables keep the types.
LEMMA TablesTyped ==
  ASSUME TypeOK, NEW p \in {"init", "server"}, Tables(p)
  PROVE  TypeOK'
<1> USE DEF diskVars, sqlVars, vectorVars, localVars, counters, AfterSchema
<1>1. CASE Schema(p)
  BY <1>1 DEF Schema, Goto, TypeOK
<1>5. CASE Create(p)
  BY <1>5 DEF Create, Goto, TypeOK
<1>2. CASE CreateFails(p) \/ CommitFails(p)
  BY <1>2, ExitTyped DEF CreateFails, CommitFails, TypeOK
<1>3. CASE Seed(p)
  BY <1>3 DEF Seed, Goto, TypeOK
<1>4. CASE Commit(p)
  BY <1>4 DEF Commit, Goto, TypeOK
<1> QED BY <1>1, <1>2, <1>3, <1>4, <1>5 DEF Tables

\* Every step keeps the types.
LEMMA NextTyped == TypeOK /\ [Next]_vars => TypeOK'
<1> SUFFICES ASSUME TypeOK, [Next]_vars PROVE TypeOK'
  OBVIOUS
<1> USE DEF diskVars, sqlVars, vectorVars, localVars, counters
<1>1. CASE BuildStep
  <2>1. CASE OpenIndex
    BY <2>1, NothingTyped DEF OpenIndex, Goto, TypeOK
  <2>2. CASE WriteIndex
    <3>1. index' \in Payload
      BY <2>2, NothingTyped DEF WriteIndex, Payload, TypeOK
    <3> QED BY <2>2, <3>1, ExitTyped DEF WriteIndex, TypeOK
  <2> QED BY <1>1, <2>1, <2>2, SharedTyped, IndexingTyped DEF BuildStep
<1>2. CASE InitStep
  <2>1. CASE Drop
    BY <2>1 DEF Drop, Goto, TypeOK
  <2>2. CASE ConnectInit
    <3>1. CASE Exit("init")
      BY <2>2, <3>1, ExitTyped DEF ConnectInit, TypeOK
    <3>2. CASE Goto("init", "chunks") /\ UNCHANGED <<localVars, seeding, clashing, seen>>
      BY <2>2, <3>2 DEF ConnectInit, Goto, TypeOK
    <3> QED BY <2>2, <3>1, <3>2 DEF ConnectInit
  <2>3. CASE Rebuild
    <3>1. todo' \in [Procs -> SUBSET Docs]
      BY <2>3 DEF Rebuild, TypeOK
    <3>2. vectors' \in Texts /\ leftover' \in Texts
      BY <2>3, NothingTyped DEF Rebuild, TypeOK
    <3> QED BY <2>3, <3>1, <3>2 DEF Rebuild, Goto, TypeOK
  <2>4. CASE AddBatch
    <3>1. PICK batch \in SUBSET todo["init"] :
            /\ vectors' = [d \in Docs |-> IF d \in batch /\ vectors[d] = 0
                                          THEN got["init"][d] ELSE vectors[d]]
            /\ todo' = [todo EXCEPT !["init"] = @ \ batch]
      BY <2>4 DEF AddBatch
    <3>2. vectors' \in Texts
      BY <3>1 DEF Texts, TypeOK
    <3>3. todo' \in [Procs -> SUBSET Docs]
      BY <3>1 DEF TypeOK
    <3> QED BY <2>4, <3>2, <3>3 DEF AddBatch, TypeOK
  <2>5. CASE RebuildDone \/ RebuildFails
    BY <2>5, ExitTyped DEF RebuildDone, RebuildFails, TypeOK
  <2> QED BY <1>2, <2>1, <2>2, <2>3, <2>4, <2>5, SharedTyped, TablesTyped DEF InitStep
<1>3. CASE ServerStep
  <2>1. CASE Count
    BY <2>1 DEF Count, Goto, TypeOK
  <2>2. CASE CountFails \/ ReadIndexRaises
    BY <2>2, ExitTyped DEF CountFails, ReadIndexRaises, TypeOK
  <2>3. CASE ReadIndex
    BY <2>3 DEF ReadIndex, Goto, TypeOK
  <2>4. CASE CheckFresh
    <3>1. payload.chunks \in Texts
      BY DEF TypeOK, Payload
    <3> QED BY <2>4, <3>1, NothingTyped DEF CheckFresh, Stale, Goto, TypeOK
  <2>5. CASE ConnectServer
    BY <2>5, NothingTyped DEF ConnectServer, Goto, TypeOK
  <2> QED BY <1>3, <2>1, <2>2, <2>3, <2>4, <2>5, SharedTyped, IndexingTyped, TablesTyped
          DEF ServerStep
<1>4. CASE StartBuild
  BY <1>4 DEF StartBuild, Goto, TypeOK
<1>9. CASE StartInit
  <2>1. inits' \in 0..MaxInits
    BY <1>9, KnowledgeAssumption DEF StartInit, TypeOK
  <2> QED BY <1>9, <2>1 DEF StartInit, Goto, TypeOK
<1>5. CASE StartServer
  BY <1>5 DEF StartServer, Goto, TypeOK, Texts
<1>6. ASSUME NEW d \in Docs, Edit(d) PROVE TypeOK'
  <2>1. PICK v \in {0, events + 2} :
          /\ files' = [files EXCEPT ![d] = v]
          /\ seen' = IF pc["server"] \in {"off", "serving"} THEN seen
                     ELSE [seen EXCEPT ![d] = @ \cup {v}]
    BY <1>6 DEF Edit
  <2>2. v \in Versions /\ events' \in 0..MaxEvents
    BY <1>6, <2>1, KnowledgeAssumption DEF Edit, Versions, TypeOK
  <2>3. files' \in Texts /\ seen' \in [Docs -> SUBSET Versions]
    BY <2>1, <2>2 DEF TypeOK, Texts
  <2> QED BY <1>6, <2>2, <2>3 DEF Edit, TypeOK
<1>7. ASSUME NEW p \in Procs, Kill(p) PROVE TypeOK'
  <2>1. events' \in 0..MaxEvents
    BY <1>7, KnowledgeAssumption DEF Kill, TypeOK
  <2> QED BY <1>7, <2>1, ExitTyped DEF Kill, TypeOK
<1>8. CASE UNCHANGED vars
  BY <1>8 DEF vars, TypeOK
<1> QED BY <1>1, <1>2, <1>3, <1>4, <1>5, <1>6, <1>7, <1>8, <1>9 DEF Next

\* The types hold at first.
LEMMA InitTyped == Init => TypeOK
<1> SUFFICES ASSUME Init PROVE TypeOK
  OBVIOUS
<1>1. files \in Texts /\ events \in 0..MaxEvents /\ inits \in 0..MaxInits
  BY KnowledgeAssumption DEF Init, Texts, Versions
<1> QED BY <1>1, NothingTyped DEF Init, TypeOK

\* Whatever the processes do in whatever order, the variables keep their types.
THEOREM TypeHolds == Spec => []TypeOK
BY InitTyped, NextTyped, PTL DEF Spec
-----------------------------------------------------------------------------
(* The vector collection.                                                  *)

\* A step that is not one of rebuild's keeps what is known of the collection.
LEMMA VectorsKept ==
  ASSUME VInv, UNCHANGED vectorVars,
         pc'["init"] = "add" => UNCHANGED <<pc["init"], todo["init"], got["init"]>>
  PROVE  VInv'
BY DEF VInv, VectorWhole, Rebuilding, vectorVars

\* A process that ends leaves the collection as it is.
LEMMA ExitVectors ==
  ASSUME TypeOK, VInv, NEW p \in Procs, Exit(p), UNCHANGED vectorVars
  PROVE  VInv'
<1>1. pc'["init"] = "add" => UNCHANGED <<pc["init"], todo["init"], got["init"]>>
  BY DEF Exit, Goto, TypeOK
<1> QED BY <1>1, VectorsKept

\* Every step keeps the collection and what is known of it together.
LEMMA NextVectors == TypeOK /\ VInv /\ [Next]_vars => VInv'
<1> SUFFICES ASSUME TypeOK, VInv, [Next]_vars PROVE VInv'
  OBVIOUS
<1> USE DEF diskVars, sqlVars, vectorVars, localVars, counters
<1>1. ASSUME NEW p \in Procs, Shared(p) PROVE VInv'
  <2>1. CASE ListFiles(p) \/ ReadFile(p) \/ HaveChunks(p)
    <3>1. pc'["init"] = "add" => UNCHANGED <<pc["init"], todo["init"], got["init"]>>
      BY <2>1 DEF ListFiles, ReadFile, HaveChunks, Goto, TypeOK
    <3> QED BY <2>1, <3>1, VectorsKept DEF ListFiles, ReadFile, HaveChunks
  <2>2. CASE ReadFails(p)
    BY <2>2, ExitVectors DEF ReadFails
  <2> QED BY <1>1, <2>1, <2>2 DEF Shared
<1>2. ASSUME NEW p \in {"build", "server"}, Indexing(p) PROVE VInv'
  <2>1. CASE ListPrints(p) \/ Stat(p) \/ HavePrints(p)
    <3>1. pc'["init"] = "add" => UNCHANGED <<pc["init"], todo["init"], got["init"]>>
      BY <2>1 DEF ListPrints, Stat, HavePrints, Goto, TypeOK
    <3> QED BY <2>1, <3>1, VectorsKept DEF ListPrints, Stat, HavePrints
  <2>2. CASE StatFails(p)
    <3>1. CASE Exit(p)
      BY <2>2, <3>1, ExitVectors DEF StatFails
    <3>2. CASE Stale /\ UNCHANGED <<todo, got>>
      <4>1. pc'["init"] = "add" => UNCHANGED <<pc["init"], todo["init"], got["init"]>>
        BY <3>2 DEF Stale, Goto, TypeOK
      <4> QED BY <2>2, <4>1, VectorsKept DEF StatFails
    <3> QED BY <2>2, <3>1, <3>2 DEF StatFails
  <2> QED BY <1>2, <2>1, <2>2 DEF Indexing
<1>3. ASSUME NEW p \in {"init", "server"}, Tables(p) PROVE VInv'
  <2>1. CASE Schema(p) \/ Create(p) \/ Seed(p) \/ Commit(p)
    <3>1. pc'["init"] = "add" => UNCHANGED <<pc["init"], todo["init"], got["init"]>>
      BY <2>1 DEF Schema, Create, Seed, Commit, Goto, TypeOK, AfterSchema
    <3> QED BY <2>1, <3>1, VectorsKept DEF Schema, Create, Seed, Commit
  <2>2. CASE CreateFails(p) \/ CommitFails(p)
    BY <2>2, ExitVectors DEF CreateFails, CommitFails
  <2> QED BY <1>3, <2>1, <2>2 DEF Tables
<1>4. CASE OpenIndex \/ Drop \/ Count \/ ReadIndex \/ CheckFresh \/ ConnectServer
  <2>1. pc'["init"] = "add" => UNCHANGED <<pc["init"], todo["init"], got["init"]>>
    BY <1>4 DEF OpenIndex, Drop, Count, ReadIndex, CheckFresh, ConnectServer, Stale, Goto, TypeOK
  <2>2. UNCHANGED vectorVars
    BY <1>4 DEF OpenIndex, Drop, Count, ReadIndex, CheckFresh, ConnectServer
  <2> QED BY <2>1, <2>2, VectorsKept
<1>5. CASE WriteIndex \/ CountFails \/ ReadIndexRaises \/ RebuildFails
  BY <1>5, ExitVectors DEF WriteIndex, CountFails, ReadIndexRaises, RebuildFails
<1>6. CASE ConnectInit
  <2>1. CASE Exit("init")
    BY <1>6, <2>1, ExitVectors DEF ConnectInit
  <2>2. CASE Goto("init", "chunks")
    <3>1. pc'["init"] = "chunks"
      BY <2>2 DEF Goto, TypeOK
    <3> QED BY <1>6, <3>1, VectorsKept DEF ConnectInit
  <2> QED BY <1>6, <2>1, <2>2 DEF ConnectInit
<1>7. CASE Rebuild
  <2>1. /\ pc'["init"] = "add" /\ interrupted'
        /\ wanted' = got["init"] /\ got' = got
        /\ todo'["init"] = {d \in Docs : got["init"][d] # 0}
    BY <1>7 DEF Rebuild, Goto, TypeOK
  <2>2. \A d \in Docs : vectors'[d] = leftover'[d]
    BY <1>7 DEF Rebuild
  <2> QED BY <2>1, <2>2 DEF VInv, VectorWhole, Rebuilding
<1>8. CASE AddBatch
  <2>1. PICK batch \in SUBSET todo["init"] :
          /\ vectors' = [d \in Docs |-> IF d \in batch /\ vectors[d] = 0
                                        THEN got["init"][d] ELSE vectors[d]]
          /\ todo' = [todo EXCEPT !["init"] = @ \ batch]
    BY <1>8 DEF AddBatch
  <2>2. /\ pc["init"] = "add" /\ interrupted /\ wanted = got["init"]
        /\ UNCHANGED <<pc, interrupted, wanted, leftover, got>>
        /\ todo'["init"] = todo["init"] \ batch
    BY <1>8, <2>1 DEF AddBatch, VInv, Rebuilding, TypeOK
  <2>3. ASSUME NEW d \in Docs
        PROVE  vectors'[d] = IF leftover'[d] # 0 THEN leftover'[d]
                             ELSE IF d \in todo'["init"] THEN 0 ELSE wanted'[d]
    <3>1. vectors[d] = IF leftover[d] # 0 THEN leftover[d]
                       ELSE IF d \in todo["init"] THEN 0 ELSE wanted[d]
      BY <2>2 DEF VInv, Rebuilding
    <3> QED BY <2>1, <2>2, <3>1
  <2> QED BY <2>2, <2>3 DEF VInv, VectorWhole, Rebuilding
<1>9. CASE RebuildDone
  <2>1. /\ pc["init"] = "add" /\ todo["init"] = {} /\ UNCHANGED <<vectors, wanted, leftover>>
        /\ pc'["init"] = "off"
    BY <1>9 DEF RebuildDone, Exit, Goto, TypeOK
  <2>2. \A d \in Docs : vectors[d] = IF leftover[d] # 0 THEN leftover[d] ELSE wanted[d]
    BY <2>1 DEF VInv, Rebuilding
  <2>3. vectors = [d \in Docs |-> IF leftover[d] # 0 THEN leftover[d] ELSE wanted[d]]
    BY <2>2 DEF TypeOK, Texts
  <2> QED BY <2>1, <2>3 DEF VInv, VectorWhole, Rebuilding
<1>10. CASE StartBuild \/ StartInit \/ StartServer
  <2>1. pc'["init"] = "add" => UNCHANGED <<pc["init"], todo["init"], got["init"]>>
    BY <1>10 DEF StartBuild, StartInit, StartServer, Goto, TypeOK
  <2> QED BY <1>10, <2>1, VectorsKept DEF StartBuild, StartInit, StartServer
<1>11. ASSUME NEW d \in Docs, Edit(d) PROVE VInv'
  BY <1>11, VectorsKept DEF Edit
<1>12. ASSUME NEW p \in Procs, Kill(p) PROVE VInv'
  BY <1>12, ExitVectors DEF Kill
<1>13. CASE UNCHANGED vars
  BY <1>13, VectorsKept DEF vars
<1> QED BY <1>1, <1>2, <1>3, <1>4, <1>5, <1>6, <1>7, <1>8, <1>9, <1>10, <1>11, <1>12, <1>13
        DEF Next, BuildStep, InitStep, ServerStep

-----------------------------------------------------------------------------
(* What the server serves.                                                 *)

\* A step that is not one of the server's, and does not edit a file.
LEMMA ServedKept ==
  ASSUME SInv, UNCHANGED <<files, seen, payload, pc["server"], todo["server"],
                           got["server"], prints["server"]>>
  PROVE  SInv'
BY DEF SInv, ServedIsCurrent, Raced, Starting

\* A server that ends serves nothing; the end of another process changes
\* nothing for it.
LEMMA ExitServed ==
  ASSUME TypeOK, SInv, NEW p \in Procs, Exit(p), UNCHANGED files
  PROVE  SInv'
<1>1. CASE p = "server"
  <2>1. pc'["server"] = "off"
    BY <1>1 DEF Exit, Goto, TypeOK
  <2> QED BY <2>1 DEF SInv, ServedIsCurrent, Starting
<1>2. CASE p # "server"
  <2>1. UNCHANGED <<seen, payload, pc["server"], todo["server"], got["server"], prints["server"]>>
    BY <1>2 DEF Exit, Goto, TypeOK
  <2> QED BY <2>1, ServedKept
<1> QED BY <1>1, <1>2

\* The server goes on to a place where nothing is known of what it has read.
LEMMA ServerMoves ==
  ASSUME TypeOK, SInv, UNCHANGED <<files, seen>>,
         pc["server"] \notin {"off", "serving"},
         pc'["server"] \notin {"read", "stat", "fresh", "connect"}
  PROVE  SInv'
BY DEF SInv, ServedIsCurrent, Starting

\* Every step of the server, of an editor and of anybody else keeps what it
\* serves current.
LEMMA NextServed == TypeOK /\ SInv /\ [Next]_vars => SInv'
<1> SUFFICES ASSUME TypeOK, SInv, [Next]_vars PROVE SInv'
  OBVIOUS
<1> USE DEF diskVars, sqlVars, vectorVars, localVars, counters
<1>1. ASSUME NEW p \in {"build", "init"}, Shared(p) PROVE SInv'
  <2>1. CASE ListFiles(p) \/ ReadFile(p) \/ HaveChunks(p)
    BY <2>1, ServedKept DEF ListFiles, ReadFile, HaveChunks, Goto, TypeOK
  <2>2. CASE ReadFails(p)
    BY <2>2, ExitServed DEF ReadFails
  <2> QED BY <1>1, <2>1, <2>2 DEF Shared
<1>2. CASE Shared("server")
  <2>1. CASE ListFiles("server")
    <3>1. /\ pc["server"] = "chunks" /\ pc'["server"] = "read" /\ UNCHANGED <<files, seen>>
          /\ todo'["server"] = Present /\ got'["server"] = Nothing
      BY <2>1 DEF ListFiles, Goto, TypeOK
    <3>2. \A d \in Docs \ Present : files[d] = 0 /\ Nothing[d] = 0 /\ files[d] \in seen[d]
      BY <3>1 DEF Present, Nothing, SInv, Starting
    <3> QED BY <3>1, <3>2 DEF SInv, Starting, ServedIsCurrent
  <2>2. CASE ReadFile("server")
    <3>1. PICK d \in Present : /\ got' = [got EXCEPT !["server"][d] = files[d]]
                               /\ todo' = [todo EXCEPT !["server"] = @ \ {d}]
      BY <2>2 DEF ReadFile
    <3>2. /\ pc["server"] = "read" /\ pc' = pc /\ UNCHANGED <<files, seen>>
          /\ todo'["server"] = todo["server"] \ {d} /\ d \in Docs /\ files[d] \in seen[d]
      BY <2>2, <3>1 DEF ReadFile, Present, TypeOK, SInv, Starting
    <3>3. \A e \in Docs : got'["server"][e] = IF e = d THEN files[d] ELSE got["server"][e]
      BY <3>1, <3>2 DEF TypeOK, Texts
    <3>4. \A e \in Docs \ todo'["server"] : got'["server"][e] \in seen[e]
      BY <3>2, <3>3 DEF SInv, Starting
    <3> QED BY <3>2, <3>4 DEF SInv, Starting, ServedIsCurrent
  <2>3. CASE ReadFails("server")
    BY <2>3, ExitServed DEF ReadFails
  <2>4. CASE HaveChunks("server")
    <3>1. /\ pc["server"] = "read" /\ todo["server"] = {}
          /\ pc'["server"] = "connect" /\ UNCHANGED <<files, seen, got, payload>>
      BY <2>4 DEF HaveChunks, Goto, TypeOK
    <3>2. \A d \in Docs : got["server"][d] \in seen[d]
      BY <3>1 DEF SInv, Starting
    <3> QED BY <3>1, <3>2 DEF SInv, Starting, ServedIsCurrent
  <2> QED BY <1>2, <2>1, <2>2, <2>3, <2>4 DEF Shared
<1>3. CASE Indexing("build")
  <2>1. CASE ListPrints("build") \/ Stat("build") \/ HavePrints("build")
    BY <2>1, ServedKept DEF ListPrints, Stat, HavePrints, Goto, TypeOK
  <2>2. CASE StatFails("build")
    BY <2>2, ExitServed DEF StatFails
  <2> QED BY <1>3, <2>1, <2>2 DEF Indexing
<1>4. CASE Indexing("server")
  <2>1. CASE ListPrints("server")
    <3>1. /\ pc["server"] = "prints" /\ pc'["server"] = "stat" /\ UNCHANGED <<files, seen>>
          /\ todo'["server"] = Present /\ prints'["server"] = Nothing
      BY <2>1 DEF ListPrints, Goto, TypeOK
    <3>2. \A d \in Docs \ Present : files[d] = 0 /\ Nothing[d] = 0 /\ files[d] \in seen[d]
      BY <3>1 DEF Present, Nothing, SInv, Starting
    <3> QED BY <3>1, <3>2 DEF SInv, Starting, ServedIsCurrent
  <2>2. CASE Stat("server")
    <3>1. PICK d \in Present : /\ prints' = [prints EXCEPT !["server"][d] = files[d]]
                               /\ todo' = [todo EXCEPT !["server"] = @ \ {d}]
      BY <2>2 DEF Stat
    <3>2. /\ pc["server"] = "stat" /\ pc' = pc /\ UNCHANGED <<files, seen>>
          /\ todo'["server"] = todo["server"] \ {d} /\ d \in Docs /\ files[d] \in seen[d]
      BY <2>2, <3>1 DEF Stat, Present, TypeOK, SInv, Starting
    <3>3. \A e \in Docs : prints'["server"][e] = IF e = d THEN files[d] ELSE prints["server"][e]
      BY <3>1, <3>2 DEF TypeOK, Texts
    <3>4. \A e \in Docs \ todo'["server"] : prints'["server"][e] \in seen[e]
      BY <3>2, <3>3 DEF SInv, Starting
    <3> QED BY <3>2, <3>4 DEF SInv, Starting, ServedIsCurrent
  <2>3. CASE StatFails("server")
    <3>1. /\ pc["server"] = "stat" /\ pc'["server"] = "chunks" /\ UNCHANGED <<files, seen>>
      BY <2>3 DEF StatFails, Stale, Goto, TypeOK
    <3> QED BY <3>1, ServerMoves
  <2>4. CASE HavePrints("server")
    <3>1. /\ pc["server"] = "stat" /\ todo["server"] = {}
          /\ pc'["server"] = "fresh" /\ UNCHANGED <<files, seen, prints>>
      BY <2>4 DEF HavePrints, Goto, TypeOK
    <3> QED BY <3>1 DEF SInv, Starting, ServedIsCurrent
  <2> QED BY <1>4, <2>1, <2>2, <2>3, <2>4 DEF Indexing
<1>5. CASE Tables("init")
  <2>1. CASE Schema("init") \/ Create("init") \/ Seed("init") \/ Commit("init")
    BY <2>1, ServedKept DEF Schema, Create, Seed, Commit, Goto, TypeOK
  <2>2. CASE CreateFails("init") \/ CommitFails("init")
    BY <2>2, ExitServed DEF CreateFails, CommitFails
  <2> QED BY <1>5, <2>1, <2>2 DEF Tables
<1>6. CASE Tables("server")
  <2>1. CASE Schema("server") \/ Create("server") \/ Seed("server") \/ Commit("server")
    <3>1. /\ pc["server"] \notin {"off", "serving"} /\ UNCHANGED <<files, seen>>
          /\ pc'["server"] \notin {"read", "stat", "fresh", "connect"}
      BY <2>1 DEF Schema, Create, Seed, Commit, Goto, TypeOK, AfterSchema
    <3> QED BY <3>1, ServerMoves
  <2>2. CASE CreateFails("server") \/ CommitFails("server")
    BY <2>2, ExitServed DEF CreateFails, CommitFails
  <2> QED BY <1>6, <2>1, <2>2 DEF Tables
<1>7. CASE OpenIndex \/ Drop \/ Rebuild \/ AddBatch \/ StartBuild \/ StartInit
  BY <1>7, ServedKept
     DEF OpenIndex, Drop, Rebuild, AddBatch, StartBuild, StartInit, Goto, TypeOK
<1>8. CASE WriteIndex \/ RebuildDone \/ RebuildFails \/ CountFails \/ ReadIndexRaises
  BY <1>8, ExitServed DEF WriteIndex, RebuildDone, RebuildFails, CountFails, ReadIndexRaises
<1>9. CASE ConnectInit
  <2>1. CASE Exit("init")
    BY <1>9, <2>1, ExitServed DEF ConnectInit
  <2>2. CASE Goto("init", "chunks") /\ UNCHANGED <<localVars, seen>>
    BY <1>9, <2>2, ServedKept DEF ConnectInit, Goto, TypeOK
  <2> QED BY <1>9, <2>1, <2>2 DEF ConnectInit
<1>10. CASE Count \/ ReadIndex \/ ConnectServer
  <2>1. CASE ConnectServer
    <3>1. pc'["server"] = "serving"
      BY <2>1 DEF ConnectServer, Goto, TypeOK
    <3> QED BY <3>1 DEF SInv, Starting, ServedIsCurrent
  <2>2. CASE Count \/ ReadIndex
    <3>1. /\ pc["server"] \notin {"off", "serving"} /\ UNCHANGED <<files, seen>>
          /\ pc'["server"] \notin {"read", "stat", "fresh", "connect"}
      BY <2>2 DEF Count, ReadIndex, Goto, TypeOK
    <3> QED BY <3>1, ServerMoves
  <2> QED BY <1>10, <2>1, <2>2
<1>11. CASE CheckFresh
  <2>1. CASE payload.sources = prints["server"]
    <3>1. /\ pc["server"] = "fresh" /\ pc'["server"] = "connect"
          /\ got'["server"] = payload.chunks /\ UNCHANGED <<files, seen, payload>>
      BY <1>11, <2>1 DEF CheckFresh, Goto, TypeOK
    <3>2. ASSUME NEW d \in Docs PROVE got'["server"][d] \in seen'[d] \/ Raced(d)'
      <4>1. payload.sources[d] \in seen[d]
        BY <2>1, <3>1 DEF SInv, Starting
      <4> QED BY <3>1, <4>1 DEF Raced
    <3> QED BY <3>1, <3>2 DEF SInv, Starting, ServedIsCurrent
  <2>2. CASE payload.sources # prints["server"]
    <3>1. pc["server"] = "fresh" /\ pc'["server"] = "chunks" /\ UNCHANGED <<files, seen>>
      BY <1>11, <2>2 DEF CheckFresh, Stale, Goto, TypeOK
    <3> QED BY <3>1, ServerMoves
  <2> QED BY <2>1, <2>2
<1>12. CASE StartServer
  <2>1. pc'["server"] = "schema" /\ \A d \in Docs : files'[d] \in seen'[d]
    BY <1>12 DEF StartServer, Goto, TypeOK
  <2> QED BY <2>1 DEF SInv, Starting, ServedIsCurrent
<1>13. ASSUME NEW d \in Docs, Edit(d) PROVE SInv'
  <2>1. CASE pc["server"] \in {"off", "serving"}
    BY <1>13, <2>1 DEF Edit, SInv, Starting, ServedIsCurrent
  <2>2. CASE pc["server"] \notin {"off", "serving"}
    <3>1. PICK v : /\ files' = [files EXCEPT ![d] = v]
                   /\ seen' = [seen EXCEPT ![d] = @ \cup {v}]
      BY <1>13, <2>2 DEF Edit
    <3>2. \A e \in Docs : files'[e] = (IF e = d THEN v ELSE files[e])
                           /\ seen'[e] = IF e = d THEN seen[e] \cup {v} ELSE seen[e]
      BY <3>1 DEF TypeOK, Texts
    <3>3. UNCHANGED <<pc, todo, got, prints, payload>>
      BY <1>13 DEF Edit
    <3> QED BY <2>2, <3>2, <3>3 DEF SInv, Starting, ServedIsCurrent, Raced
  <2> QED BY <2>1, <2>2
<1>14. ASSUME NEW p \in Procs, Kill(p) PROVE SInv'
  BY <1>14, ExitServed DEF Kill
<1>15. CASE UNCHANGED vars
  BY <1>15, ServedKept DEF vars
<1> QED BY <1>1, <1>2, <1>3, <1>4, <1>5, <1>6, <1>7, <1>8, <1>9, <1>10, <1>11, <1>12, <1>13,
           <1>14, <1>15
        DEF Next, BuildStep, InitStep, ServerStep

-----------------------------------------------------------------------------
\* The invariant holds throughout.
LEMMA KnowledgeInvariant == Spec => []KInv
<1>1. Init => VInv /\ SInv
  BY DEF Init, Nothing, VInv, VectorWhole, Rebuilding, SInv, ServedIsCurrent, Starting
<1>2. KInv /\ [Next]_vars => KInv'
  BY NextTyped, NextVectors, NextServed DEF KInv
<1>4. Init => KInv
  BY <1>1, InitTyped DEF KInv
<1> QED BY <1>2, <1>4, PTL DEF Spec

\* A rebuild that got to its end left the collection with the documents it was
\* given and no other but those of an old collection it could not delete, for any
\* number of documents and any batch size, whatever rebuilds were killed or raised
\* before it.
THEOREM CollectionWhole == Spec => []VectorWhole
<1>1. KInv => VectorWhole
  BY DEF KInv, VInv
<1> QED BY <1>1, KnowledgeInvariant, PTL

\* What KnowledgeBase.load serves of a document is a version it had since the
\* server was started, unless the index was built while the document changed.
THEOREM NothingStaleServed == Spec => []ServedIsCurrent
<1>1. KInv => ServedIsCurrent
  BY DEF KInv, SInv
<1> QED BY <1>1, KnowledgeInvariant, PTL
=============================================================================
