--------------------------- MODULE KnowledgeIndex ---------------------------
(***************************************************************************)
(* What the agent looks things up in, and the three processes that write   *)
(* and read it: build_knowledge_index.py ("build"), init_databases.py      *)
(* ("init") and the start of the server ("server": the database part of    *)
(* PipelineService.load and HybridKnowledgeBase.load).  They share the     *)
(* knowledge files, the JSON index, the SQL tables and the vector          *)
(* collection; documents are edited and processes are killed at any time.  *)
(*                                                                         *)
(* A document is its version; a version stands for mtime, size and text.   *)
(* The chunks of a document are one unit; the SQL tables are one unit.     *)
(***************************************************************************)
EXTENDS Naturals, FiniteSets

CONSTANTS
    NDocs,       \* number of paths under the knowledge directory
    BatchSize,   \* documents per add of rebuild
    MaxEvents,   \* bound on edits and killed processes together
    MaxInits,    \* bound on runs of init
    MaxProcs     \* bound on scripts and starting servers at work at a time

ASSUME KnowledgeAssumption ==
    /\ NDocs \in Nat /\ BatchSize \in Nat \ {0}
    /\ MaxEvents \in Nat /\ MaxInits \in Nat /\ MaxProcs \in Nat

Docs     == 1..NDocs                \* in the order of sorted(rglob)
Procs    == {"build", "init", "server"}
Versions == 0..(MaxEvents + 1)       \* 0: there is no such file
Texts    == [Docs -> Versions]
Nothing  == [d \in Docs |-> 0]
Payload  == [chunks : Texts, sources : Texts]
NoIndex  == [chunks |-> Nothing, sources |-> Nothing]

VARIABLES
    files,       \* the version of every document
    state,       \* of knowledge_index.json; "cut": torn inside a character,
                 \* "other": whole, but of another version or chunk_chars
    index,       \* its payload when whole
    sql,         \* the tables: "none", "empty" or "seeded"
    seeding,     \* processes in an open seed transaction
    clashing,    \* those whose rows another one has committed meanwhile
    vectors,     \* the documents of the vector collection
    interrupted, \* history: the last rebuild did not get to its end
    wanted,      \* history: the documents of the last rebuild
    leftover,    \* history: those it found when it could not delete them
    pc,          \* where each process is
    todo,        \* files it has listed and not yet visited
    got,         \* chunks it has read
    prints,      \* fingerprints it has taken
    payload,     \* server: the index it has parsed
    seen,        \* history: versions each file had while the server started
    events,      \* edits and kills so far
    inits        \* runs of init so far

diskVars   == <<files, state, index>>
sqlVars    == <<sql, seeding, clashing>>
vectorVars == <<vectors, interrupted, wanted, leftover>>
localVars  == <<todo, got, prints, payload>>
counters   == <<events, inits>>
vars == <<diskVars, sqlVars, vectorVars, localVars, pc, seen, counters>>

Labels == {"off", "schema", "create", "count", "seed", "commit", "index", "chunks", "read",
           "prints", "stat", "fresh", "open", "write", "connect", "rebuild",
           "add", "serving"}

TypeOK ==
    /\ files \in Texts
    /\ state \in {"missing", "torn", "cut", "other", "whole"} /\ index \in Payload
    /\ sql \in {"none", "empty", "seeded"}
    /\ seeding \subseteq Procs /\ clashing \subseteq seeding
    /\ vectors \in Texts /\ wanted \in Texts /\ leftover \in Texts
    /\ interrupted \in BOOLEAN
    /\ pc \in [Procs -> Labels]
    /\ todo \in [Procs -> SUBSET Docs]
    /\ got \in [Procs -> Texts] /\ prints \in [Procs -> Texts]
    /\ payload \in Payload
    /\ seen \in [Docs -> SUBSET Versions]
    /\ events \in 0..MaxEvents /\ inits \in 0..MaxInits

Init ==
    /\ files \in [Docs -> {0, 1}]
    /\ state = "missing" /\ index = NoIndex
    /\ sql = "none" /\ seeding = {} /\ clashing = {}
    /\ vectors = Nothing /\ interrupted = FALSE
    /\ wanted = Nothing /\ leftover = Nothing
    /\ pc = [p \in Procs |-> "off"]
    /\ todo = [p \in Procs |-> {}]
    /\ got = [p \in Procs |-> Nothing] /\ prints = [p \in Procs |-> Nothing]
    /\ payload = NoIndex
    /\ seen = [d \in Docs |-> {}]
    /\ events = 0 /\ inits = 0

Present == {d \in Docs : files[d] # 0}

\* Files are visited in the order of their paths.
First(S) == CHOOSE d \in S : \A e \in S : d <= e
Visits(p, d) == todo[p] # {} /\ d = First(todo[p])

Goto(p, label) == pc' = [pc EXCEPT ![p] = label]

\* A process ends, well or with an exception; its locals are dropped and an
\* open transaction is rolled back.
Exit(p) ==
    /\ Goto(p, "off")
    /\ todo' = [todo EXCEPT ![p] = {}]
    /\ got' = [got EXCEPT ![p] = Nothing]
    /\ prints' = [prints EXCEPT ![p] = Nothing]
    /\ payload' = IF p = "server" THEN NoIndex ELSE payload
    /\ seen' = IF p = "server" THEN [d \in Docs |-> {}] ELSE seen
    /\ seeding' = seeding \ {p} /\ clashing' = clashing \ {p}

-----------------------------------------------------------------------------
(* agent/rag.py                                                            *)

\* chunks_from_root: discover_knowledge_paths.
ListFiles(p) ==
    /\ pc[p] = "chunks"
    /\ Goto(p, "read")
    /\ todo' = [todo EXCEPT ![p] = Present]
    /\ got' = [got EXCEPT ![p] = Nothing]
    /\ UNCHANGED <<diskVars, sqlVars, vectorVars, prints, payload, seen, counters>>

\* chunks_from_root: one read_text.
ReadFile(p) ==
    /\ pc[p] = "read"
    /\ \E d \in Present :
        /\ Visits(p, d)
        /\ got' = [got EXCEPT ![p][d] = files[d]]
        /\ todo' = [todo EXCEPT ![p] = @ \ {d}]
    /\ UNCHANGED <<diskVars, sqlVars, vectorVars, prints, payload, pc, seen, counters>>

\* The file was removed after the listing: FileNotFoundError, which nobody
\* catches around chunks_from_root.
ReadFails(p) ==
    /\ pc[p] = "read"
    /\ \E d \in Docs \ Present : Visits(p, d)
    /\ Exit(p)
    /\ UNCHANGED <<diskVars, sql, vectorVars, counters>>

\* What follows chunks_from_root in its three callers.
HaveChunks(p) ==
    /\ pc[p] = "read" /\ todo[p] = {}
    /\ Goto(p, [build |-> "prints", server |-> "connect", init |-> "rebuild"][p])
    /\ UNCHANGED <<diskVars, sqlVars, vectorVars, localVars, seen, counters>>

\* collect_source_fingerprints: the listing.
ListPrints(p) ==
    /\ pc[p] = "prints"
    /\ Goto(p, "stat")
    /\ todo' = [todo EXCEPT ![p] = Present]
    /\ prints' = [prints EXCEPT ![p] = Nothing]
    /\ UNCHANGED <<diskVars, sqlVars, vectorVars, got, payload, seen, counters>>

\* collect_source_fingerprints: one stat.
Stat(p) ==
    /\ pc[p] = "stat"
    /\ \E d \in Present :
        /\ Visits(p, d)
        /\ prints' = [prints EXCEPT ![p][d] = files[d]]
        /\ todo' = [todo EXCEPT ![p] = @ \ {d}]
    /\ UNCHANGED <<diskVars, sqlVars, vectorVars, got, payload, pc, seen, counters>>

\* KnowledgeBase.load leaves the index and goes to the files.
Stale ==
    /\ Goto("server", "chunks")
    /\ prints' = [prints EXCEPT !["server"] = Nothing]
    /\ payload' = NoIndex

\* stat of a removed file: OSError ends the builder; KnowledgeBase.load
\* catches it and goes to the files.
StatFails(p) ==
    /\ pc[p] = "stat"
    /\ \E d \in Docs \ Present : Visits(p, d)
    /\ \/ /\ p = "build" /\ Exit(p)
       \/ /\ p = "server" /\ Stale
          /\ UNCHANGED <<todo, got, seeding, clashing, seen>>
    /\ UNCHANGED <<diskVars, sql, vectorVars, counters>>

HavePrints(p) ==
    /\ pc[p] = "stat" /\ todo[p] = {}
    /\ Goto(p, IF p = "build" THEN "open" ELSE "fresh")
    /\ UNCHANGED <<diskVars, sqlVars, vectorVars, localVars, seen, counters>>

\* build_and_save_index: write_text truncates the file ...
OpenIndex ==
    /\ pc["build"] = "open"
    /\ Goto("build", "write")
    /\ state' \in {"torn", "cut"}
    /\ index' = NoIndex
    /\ UNCHANGED <<files, sqlVars, vectorVars, localVars, seen, counters>>

\* Mutant: build_index_payload has no "sources".
WriteIndex_NoSources ==
    /\ pc["build"] = "write"
    /\ \/ state' = "whole" /\ index' = [chunks |-> got["build"]]
       \/ state' = "other" /\ index' = NoIndex
    /\ Exit("build")
    /\ UNCHANGED <<files, sql, vectorVars, counters>>

\* ... and writes it.  With another --chunk-chars than the server's, or by a
\* script of another INDEX_VERSION, nobody will use what is in it.
WriteIndex ==
    /\ pc["build"] = "write"
    /\ \/ /\ state' = "whole"
          /\ index' = [chunks |-> got["build"], sources |-> prints["build"]]
       \/ state' = "other" /\ index' = NoIndex
    /\ Exit("build")
    /\ UNCHANGED <<files, sql, vectorVars, counters>>

\* Mutant: JSONDecodeError is not caught.
ReadIndex_Strict ==
    /\ pc["server"] = "index"
    /\ \/ /\ state = "torn"
          /\ Exit("server")
       \/ /\ state \in {"missing", "other"}
          /\ Goto("server", "chunks")
          /\ UNCHANGED <<localVars, seeding, clashing, seen>>
       \/ /\ state = "whole"
          /\ Goto("server", "prints")
          /\ payload' = index
          /\ UNCHANGED <<todo, got, prints, seeding, clashing, seen>>
    /\ UNCHANGED <<diskVars, sql, vectorVars, counters>>

\* KnowledgeBase.load: a missing or torn index is as good as none, and so is
\* one that fails the first two tests of index_is_fresh.
ReadIndex ==
    /\ pc["server"] = "index"
    /\ \/ /\ state \in {"missing", "torn", "other"}
          /\ Goto("server", "chunks")
          /\ UNCHANGED payload
       \/ /\ state = "whole"
          /\ Goto("server", "prints")
          /\ payload' = index
    /\ UNCHANGED <<diskVars, sqlVars, vectorVars, todo, got, prints, seen, counters>>

\* UnicodeDecodeError is none of the exceptions that load catches.
ReadIndexRaises ==
    /\ pc["server"] = "index"
    /\ state = "cut"
    /\ Exit("server")
    /\ UNCHANGED <<diskVars, sql, vectorVars, counters>>

\* Mutant: index_is_fresh compares the paths only.
CheckFresh_Paths ==
    /\ pc["server"] = "fresh"
    /\ LET paths(t) == {d \in Docs : t[d] # 0} IN
       \/ /\ paths(payload.sources) = paths(prints["server"])
          /\ got' = [got EXCEPT !["server"] = payload.chunks]
          /\ Goto("server", "connect")
          /\ UNCHANGED <<prints, payload>>
       \/ /\ paths(payload.sources) # paths(prints["server"])
          /\ Stale
          /\ UNCHANGED got
    /\ UNCHANGED <<diskVars, sqlVars, vectorVars, todo, seen, counters>>

\* index_is_fresh compares the sources; ReadIndex has compared version and
\* chunk_chars.
CheckFresh ==
    /\ pc["server"] = "fresh"
    /\ \/ /\ payload.sources = prints["server"]
          /\ got' = [got EXCEPT !["server"] = payload.chunks]
          /\ Goto("server", "connect")
          /\ UNCHANGED <<prints, payload>>
       \/ /\ payload.sources # prints["server"]
          /\ Stale
          /\ UNCHANGED got
    /\ UNCHANGED <<diskVars, sqlVars, vectorVars, todo, seen, counters>>

-----------------------------------------------------------------------------
(* SQL tables: db/session.py, seed_data.py, and who calls them.            *)

AfterSchema(p) == IF p = "init" THEN "seed" ELSE "count"

\* create_all looks for the tables first.
Schema(p) ==
    /\ pc[p] = "schema"
    /\ Goto(p, IF sql = "none" THEN "create" ELSE AfterSchema(p))
    /\ UNCHANGED <<diskVars, sqlVars, vectorVars, localVars, seen, counters>>

\* init --reset-sql: drop_all waits for transactions that use the tables.
Drop ==
    /\ pc["init"] = "schema"
    /\ seeding = {} /\ pc["server"] # "seed"
    /\ sql' = "none"
    /\ Goto("init", "create")
    /\ UNCHANGED <<diskVars, seeding, clashing, vectorVars, localVars, seen, counters>>

Create(p) ==
    /\ pc[p] = "create" /\ sql = "none"
    /\ sql' = "empty"
    /\ Goto(p, AfterSchema(p))
    /\ UNCHANGED <<diskVars, seeding, clashing, vectorVars, localVars, seen, counters>>

\* The other process has created the tables since this one looked.
CreateFails(p) ==
    /\ pc[p] = "create" /\ sql # "none"
    /\ Exit(p)
    /\ UNCHANGED <<diskVars, sql, vectorVars, counters>>

\* PipelineService.load seeds only if there is no customer.
Count ==
    /\ pc["server"] = "count" /\ sql # "none"
    /\ Goto("server", IF sql = "empty" THEN "seed" ELSE "index")
    /\ UNCHANGED <<diskVars, sqlVars, vectorVars, localVars, seen, counters>>

\* The tables have been dropped since the server looked for them.
CountFails ==
    /\ pc["server"] = "count" /\ sql = "none"
    /\ Exit("server")
    /\ UNCHANGED <<diskVars, sql, vectorVars, counters>>

\* seed_demo_data clears the tables; the new rows are written by its commit.
Seed(p) ==
    /\ pc[p] = "seed"
    /\ seeding' = seeding \cup {p}
    /\ Goto(p, "commit")
    /\ UNCHANGED <<diskVars, sql, clashing, vectorVars, localVars, seen, counters>>

Commit(p) ==
    /\ pc[p] = "commit"
    /\ p \notin clashing
    /\ sql' = "seeded"
    /\ seeding' = seeding \ {p} /\ clashing' = seeding \ {p}
    /\ Goto(p, IF p = "server" THEN "index" ELSE "connect")
    /\ UNCHANGED <<diskVars, vectorVars, localVars, seen, counters>>

\* Two seeds overlap: the rows of the second violate the primary keys.
CommitFails(p) ==
    /\ pc[p] = "commit"
    /\ p \in clashing
    /\ Exit(p)
    /\ UNCHANGED <<diskVars, sql, vectorVars, counters>>

-----------------------------------------------------------------------------
(* The vector collection: db/vector_store.py, db/hybrid_rag.py.            *)

\* init_databases.py: it is done with --sql-only, when connect fails, and with
\* documents in the collection unless there is --force-vector.
ConnectInit ==
    /\ pc["init"] = "connect"
    /\ \E sql_only, connected, force_vector \in BOOLEAN :
        IF sql_only \/ ~connected \/ (vectors # Nothing /\ ~force_vector)
        THEN Exit("init")
        ELSE Goto("init", "chunks") /\ UNCHANGED <<localVars, seeding, clashing, seen>>
    /\ UNCHANGED <<diskVars, sql, vectorVars, counters>>

\* HybridKnowledgeBase.load opens the collection, whole or not, or does
\* without it.
ConnectServer ==
    /\ pc["server"] = "connect"
    /\ Goto("server", "serving")
    /\ prints' = [prints EXCEPT !["server"] = Nothing]
    /\ payload' = NoIndex
    /\ seen' = [d \in Docs |-> {}]
    /\ UNCHANGED <<diskVars, sqlVars, vectorVars, todo, got, counters>>

\* rebuild: delete_collection, whose failure is passed over, and
\* get_or_create_collection, which finds the old one if it is still there.
Rebuild ==
    /\ pc["init"] = "rebuild"
    /\ \/ vectors' = Nothing /\ leftover' = Nothing
       \/ UNCHANGED vectors /\ leftover' = vectors
    /\ interrupted' = TRUE /\ wanted' = got["init"]
    /\ todo' = [todo EXCEPT !["init"] = {d \in Docs : got["init"][d] # 0}]
    /\ Goto("init", "add")
    /\ UNCHANGED <<diskVars, sqlVars, got, prints, payload, seen, counters>>

\* rebuild: one add of up to BatchSize documents.  Chroma's add passes over
\* ids that the collection has.
AddBatch ==
    /\ pc["init"] = "add"
    /\ LET batch == {d \in todo["init"] : Cardinality({e \in todo["init"] : e < d}) < BatchSize}
       IN
        /\ batch # {}
        /\ vectors' = [d \in Docs |-> IF d \in batch /\ vectors[d] = 0
                                      THEN got["init"][d] ELSE vectors[d]]
        /\ todo' = [todo EXCEPT !["init"] = @ \ batch]
    /\ UNCHANGED <<diskVars, sqlVars, interrupted, wanted, leftover, got, prints,
                   payload, pc, seen, counters>>

\* rebuild returns 0 without chromadb; connect, get_or_create_collection or
\* add raises, which nobody catches.
RebuildFails ==
    /\ pc["init"] \in {"rebuild", "add"}
    /\ Exit("init")
    /\ UNCHANGED <<diskVars, sql, vectorVars, counters>>

\* Mutant: range(0, len(ids) - batch_size, batch_size).
RebuildDone_Early ==
    /\ pc["init"] = "add" /\ Cardinality(todo["init"]) <= BatchSize
    /\ interrupted' = FALSE
    /\ Exit("init")
    /\ UNCHANGED <<diskVars, sql, vectors, wanted, leftover, counters>>

RebuildDone ==
    /\ pc["init"] = "add" /\ todo["init"] = {}
    /\ interrupted' = FALSE
    /\ Exit("init")
    /\ UNCHANGED <<diskVars, sql, vectors, wanted, leftover, counters>>

-----------------------------------------------------------------------------
(* Operators, editors, and the death of processes.                         *)

\* One more may be started.
Room == Cardinality({p \in Procs : pc[p] \notin {"off", "serving"}}) < MaxProcs

StartBuild ==
    /\ pc["build"] = "off" /\ Room
    /\ Goto("build", "chunks")
    /\ UNCHANGED <<diskVars, sqlVars, vectorVars, localVars, seen, counters>>

StartInit ==
    /\ pc["init"] = "off" /\ Room /\ inits < MaxInits
    /\ inits' = inits + 1
    /\ Goto("init", "schema")
    /\ UNCHANGED <<diskVars, sqlVars, vectorVars, localVars, seen, events>>

StartServer ==
    /\ pc["server"] = "off" /\ Room
    /\ Goto("server", "schema")
    /\ seen' = [d \in Docs |-> {files[d]}]
    /\ UNCHANGED <<diskVars, sqlVars, vectorVars, localVars, counters>>

\* A file is written or removed.  Version numbers are never used again, as
\* st_mtime_ns is not.
Edit(d) ==
    /\ events < MaxEvents
    /\ events' = events + 1
    /\ \E v \in {0, events + 2} \ {files[d]} :
        /\ files' = [files EXCEPT ![d] = v]
        /\ seen' = IF pc["server"] \in {"off", "serving"} THEN seen ELSE [seen EXCEPT ![d] = @ \cup {v}]
    /\ UNCHANGED <<state, index, sqlVars, vectorVars, localVars, pc, inits>>

Kill(p) ==
    /\ pc[p] # "off" /\ events < MaxEvents
    /\ events' = events + 1
    /\ Exit(p)
    /\ UNCHANGED <<diskVars, sql, vectorVars, inits>>

Shared(p) ==
    \/ ListFiles(p) \/ ReadFile(p) \/ ReadFails(p) \/ HaveChunks(p)

Indexing(p) == ListPrints(p) \/ Stat(p) \/ StatFails(p) \/ HavePrints(p)

Tables(p) ==
    \/ Schema(p) \/ Create(p) \/ CreateFails(p)
    \/ Seed(p) \/ Commit(p) \/ CommitFails(p)

BuildStep  == Shared("build") \/ Indexing("build") \/ OpenIndex \/ WriteIndex
InitStep   == \/ Shared("init") \/ Tables("init") \/ Drop
              \/ ConnectInit \/ Rebuild \/ AddBatch \/ RebuildFails \/ RebuildDone
ServerStep == \/ Shared("server") \/ Indexing("server") \/ Tables("server")
              \/ Count \/ CountFails
              \/ ReadIndex \/ ReadIndexRaises \/ CheckFresh \/ ConnectServer

Next ==
    \/ BuildStep \/ InitStep \/ ServerStep \/ StartBuild \/ StartInit \/ StartServer
    \/ \E d \in Docs : Edit(d)
    \/ \E p \in Procs : Kill(p)

Spec == Init /\ [][Next]_vars

\* A started server runs; nobody has to start one, or build, or initialise.
FairSpec == Spec /\ WF_vars(ServerStep)

-----------------------------------------------------------------------------
(* Properties.                                                             *)

\* The chunks that the server took from an index that disagrees with itself:
\* the file was edited between its read and its stat of the same build.
Raced(d) == payload.chunks[d] # payload.sources[d]

\* What KnowledgeBase.load serves of a document is a version the document had
\* since the server was started, whatever builds, edits and kills went on,
\* with one exception: an index built during an edit passes index_is_fresh.
ServedIsCurrent ==
    pc["server"] = "connect" =>
        \A d \in Docs : got["server"][d] \in seen[d] \/ Raced(d)

\* A rebuild that got to its end leaves in the collection every document it was
\* given and no other, whatever killed or failed rebuilds before it left there,
\* with one exception: what it could not delete stays, and Chroma's add does not
\* replace it.
VectorWhole ==
    ~interrupted =>
        vectors = [d \in Docs |-> IF leftover[d] # 0 THEN leftover[d] ELSE wanted[d]]

\* Nobody edits, kills or initialises any more; builders may go on.
Settled ==
    events = MaxEvents /\ inits = MaxInits /\ pc["init"] = "off"

\* Whatever killed builders, partial seeds and earlier failures left on disk,
\* a server started over it gets to serve, with one exception: load does not
\* catch the UnicodeDecodeError of an index cut inside a character.
StartServesUncut ==
    (Settled /\ pc["server"] = "schema") ~> (pc["server"] = "serving" \/ state = "cut")
=============================================================================
