------------------------------ MODULE Insights ------------------------------
(***************************************************************************)
(* Document intelligence and the knowledge graph. A worker (a request, or  *)
(* the thread that indexing starts) generates the insight of a document:   *)
(* it commits the row as processing, calls the model, and replaces         *)
(* payload, timeline and entities in one more transaction, in which it     *)
(* also builds the graph. Generations, builds and deletions overlap; the   *)
(* database is read committed and nothing is flushed before a commit       *)
(* unless the code says so.  A generation is named by its worker.          *)
(***************************************************************************)
EXTENDS Naturals, FiniteSets, SequencesExt

CONSTANTS
    Worker, Document, Session, Name,
    Home,           \* the session of a document
    Names,          \* the entities the model finds in a document
    Scene,          \* what the workers do: functions from Worker to Job
    KnowledgeGraph, \* ENABLE_KNOWLEDGE_GRAPH
    MaxFaults, MaxChanges,
    None

\* A DocumentInsight: its payload is named by the generation that wrote it.
Row == [status : {"processing", "ready", "failed"}, payload : Worker \cup {None}]

ASSUME InsightConstants ==
    /\ Home \in [Document -> Session] /\ Names \in [Document -> SUBSET Name]
    /\ KnowledgeGraph \in BOOLEAN /\ MaxFaults \in Nat /\ MaxChanges \in Nat
    /\ IsFiniteSet(Document) /\ None \notin Worker \cup Document \cup Row

\* A job that has not begun: who asks for it and what for. The thread that
\* indexing starts never forces.
Work(kind, pc, flags, doc, session, force) ==
    [kind |-> kind, pc |-> pc, flags |-> flags, doc |-> doc, session |-> session, force |-> force, status |-> None,
     found |-> None, gone |-> {}, left |-> <<>>, seen |-> {}, sources |-> {}, shown |-> {}, texts |-> {}, from |-> None]
Generations ==
    UNION {{Work("auto", "begin", {}, d, None, FALSE), Work("generate", "begin", {}, d, None, FALSE),
            Work("generate", "begin", {}, d, None, TRUE)} : d \in Document}
Builds == {Work("build", "begin", {}, None, None, FALSE)}

VARIABLES
    docs,       \* the documents there are, all of them indexed
    insight,    \* DocumentInsight of each document: status and payload
    timeline,   \* DocumentTimeline of each document
    entities,   \* DocumentEntity rows of each document, by generation
    nodes,      \* GraphNode rows: name and document
    edges,      \* GraphEdge rows: build, document and generation
    context,    \* the cached context of GraphRAG
    job,        \* what each worker does
    faults, changes,
    raced,      \* history: documents with two generations at once
    broken      \* history: documents with a generation that died or raised

tables == <<insight, timeline, entities>>
graph == <<nodes, edges>>
inVars == <<docs, tables, graph, context, job, faults, changes, raced, broken>>

Steps == {"begin", "insert", "update", "model", "fail", "persist", "commit", "build", "ask", "next", "plan", "tools",
          "trace", "agents", "summary", "report", "gather", "write", "fail report", "keep", "done", "refused", "raised", "dead"}
InTypeOK ==
    /\ docs \subseteq Document
    /\ \A d \in Document : insight[d] \in Row \cup {None} /\ timeline[d] \in Worker \cup {None} /\ entities[d] \subseteq Worker
    /\ nodes \subseteq [name : Name, doc : Document \cup {None}]
    /\ edges \subseteq [by : Worker, of : Worker, doc : Document \cup {None}]
    /\ context \subseteq Name /\ \A w \in Worker : job[w].pc \in Steps
    /\ faults \in 0..MaxFaults /\ changes \in 0..MaxChanges

Fault == faults < MaxFaults /\ faults' = faults + 1
Change == changes < MaxChanges /\ changes' = changes + 1

At(w, pc) == job[w].pc = pc
Goes(w, pc) == job' = [job EXCEPT ![w].pc = pc]
Ended == {"done", "refused", "raised", "dead"}
Generating(d) == {w \in Worker : job[w].doc = d /\ job[w].pc \in {"insert", "update", "model", "fail", "persist", "commit"}}

\* The generation in hand is over; the analysis of a session goes on.
Finishes(w) == Goes(w, IF job[w].kind = "ask" THEN "next" ELSE "done")
\* An exception leaves the worker; what it has not committed is rolled back.
Raises(w) == Goes(w, "raised")
Breaks(w) == broken' = broken \cup {job[w].doc}

-----------------------------------------------------------------------------
(* Generation of an insight *)

Written(w, stored, new) == IF job[w].status = new THEN stored ELSE new

\* The document and the row are read; a ready insight is kept unless the
\* caller forces a new one. The thread stops without an error.
Begin(w) ==
    /\ At(w, "begin")
    /\ LET d == job[w].doc  row == insight[d] IN
       /\ IF d \notin docs THEN job' = [job EXCEPT ![w].pc = IF job[w].kind = "auto" THEN "done" ELSE "raised"]
          ELSE IF row = None THEN Goes(w, "insert")
          ELSE IF row.status = "ready" /\ ~job[w].force THEN Finishes(w)
          ELSE job' = [job EXCEPT ![w].pc = "update", ![w].found = row.status]
       /\ raced' = IF job'[w].pc \in {"insert", "update"} /\ Generating(d) # {} THEN raced \cup {d} ELSE raced
    /\ UNCHANGED <<docs, tables, graph, context, faults, changes, broken>>

\* One row for a document: the second insert violates the constraint.
Insert(w) ==
    /\ At(w, "insert")
    /\ LET d == job[w].doc IN
       IF d \in docs /\ insight[d] = None
       THEN /\ insight' = [insight EXCEPT ![d] = [status |-> "processing", payload |-> None]]
            /\ job' = [job EXCEPT ![w].pc = "model", ![w].status = "processing"]
       ELSE Raises(w) /\ UNCHANGED insight
    /\ UNCHANGED <<docs, timeline, entities, graph, context, faults, changes, raced, broken>>

\* Only a column that differs from what the worker has read is written; the
\* row may be gone.
Update(w) ==
    /\ At(w, "update")
    /\ LET d == job[w].doc IN
       IF insight[d] = None THEN Raises(w) /\ UNCHANGED insight
       ELSE /\ insight' = IF job[w].found = "processing" THEN insight ELSE [insight EXCEPT ![d].status = "processing"]
            /\ job' = [job EXCEPT ![w].pc = "model", ![w].status = insight'[d].status]
    /\ UNCHANGED <<docs, timeline, entities, graph, context, faults, changes, raced, broken>>

\* The text is loaded and the model answers with a valid payload, or not.
Analyse(w) ==
    /\ At(w, "model")
    /\ \/ job[w].doc \in docs /\ Goes(w, "persist") /\ UNCHANGED faults
       \/ job[w].doc \notin docs /\ Goes(w, "fail") /\ UNCHANGED faults
       \/ Fault /\ Goes(w, "fail")
    /\ UNCHANGED <<docs, tables, graph, context, changes, raced, broken>>

Fail(w) ==
    /\ At(w, "fail")
    /\ LET d == job[w].doc IN
       IF insight[d] = None THEN Raises(w) /\ UNCHANGED insight
       ELSE insight' = [insight EXCEPT ![d].status = Written(w, @, "failed")] /\ Finishes(w)
    /\ UNCHANGED <<docs, timeline, entities, graph, context, faults, changes, raced, broken>>

\* The old entities are deleted at once, which waits for a transaction that
\* deletes them too; the new ones and the timeline wait for the commit.
KeepsOld(d) == {}
Deleted(d) == entities[d]
Persist(w) ==
    /\ At(w, "persist")
    /\ LET d == job[w].doc IN
       /\ \A o \in Worker : At(o, "commit") /\ job[o].doc = d => job[o].gone \cap entities[d] = {}
       /\ job' = [job EXCEPT ![w].pc = "commit", ![w].found = timeline[d], ![w].gone = Deleted(d)]
    /\ UNCHANGED <<docs, tables, graph, context, faults, changes, raced, broken>>

-----------------------------------------------------------------------------
(* The graph *)

\* The nodes of the entity rows that are visible; a name that is there keeps
\* its document, each row gets its edges again.
Known(ns) == {n.name : n \in ns}
NodesOf(rows) == UNION {{[name |-> x, doc |-> r.doc] : x \in Names[r.doc]} : r \in rows}
AddedAgain(ns, rows) == ns \cup NodesOf(rows)
Added(ns, rows) ==
    LET new == {n \in NodesOf(rows) : n.name \notin Known(ns)} IN
    ns \cup {CHOOSE n \in new : n.name = x : x \in Known(new)}
EdgesOf(w, rows) == {[by |-> w, of |-> r.gen, doc |-> r.doc] : r \in {r \in rows : Cardinality(Names[r.doc]) > 1}}
Visible(ds) == UNION {{[doc |-> d, gen |-> g] : g \in entities[d]} : d \in ds}

\* The session does not flush before a query: the graph of a generation is
\* built from what others have committed, never from its own entities.
Others(w) == {r \in Visible({job[w].doc}) : r.gen \notin job[w].gone}
CommitGeneration(w) ==
    /\ At(w, "commit")
    /\ LET d == job[w].doc
           rows == IF KnowledgeGraph THEN Others(w) ELSE {}
           fails == d \notin docs \/ (job[w].found = None /\ timeline[d] # None)
       IN  IF fails THEN Raises(w) /\ Breaks(w) /\ UNCHANGED <<tables, graph>>
           ELSE /\ insight' = [insight EXCEPT ![d] = [status |-> Written(w, @.status, "ready"), payload |-> w]]
                /\ timeline' = [timeline EXCEPT ![d] = w]
                /\ entities' = [entities EXCEPT ![d] = (@ \ job[w].gone) \cup {w}]
                /\ nodes' = Added(nodes, rows) /\ edges' = edges \cup EdgesOf(w, rows)
                /\ Finishes(w) /\ UNCHANGED broken
    /\ UNCHANGED <<docs, context, faults, changes, raced>>

\* The graph of the workspace: rows and nodes are read, what is missing is
\* inserted. A node that was inserted meanwhile violates the constraint.
BuildRead(w) ==
    /\ At(w, "begin") /\ job[w].kind = "build"
    /\ job' = [job EXCEPT ![w].pc = "build", ![w].seen = Visible(docs), ![w].found = Known(nodes)]
    /\ UNCHANGED <<docs, tables, graph, context, faults, changes, raced, broken>>
BuildCommit(w) ==
    /\ At(w, "build")
    /\ LET rows == job[w].seen
           new  == {n \in NodesOf(rows) : n.name \notin job[w].found}
       IN  IF (\E r \in rows : r.doc \notin docs) \/ Known(new) \cap Known(nodes) # {}
           THEN Raises(w) /\ UNCHANGED graph
           ELSE nodes' = Added(nodes, rows) /\ edges' = edges \cup EdgesOf(w, rows) /\ Goes(w, "done")
    /\ UNCHANGED <<docs, tables, context, faults, changes, raced, broken>>

\* graph_rag_context: the cached text, or the graph as it is, cached if it is
\* not empty.
GraphContext == IF ~KnowledgeGraph THEN {} ELSE IF context # {} THEN context ELSE Known(nodes)
CachesGraph == context' = GraphContext

-----------------------------------------------------------------------------
(* Around it *)

\* The rows of the document cascade; nodes and edges lose their document.
Cascades(rows, d) == [rows EXCEPT ![d] = None]
DeleteDocument(d) ==
    /\ Change /\ d \in docs /\ docs' = docs \ {d}
    /\ insight' = Cascades(insight, d) /\ timeline' = Cascades(timeline, d) /\ entities' = [entities EXCEPT ![d] = {}]
    /\ nodes' = {IF n.doc = d THEN [n EXCEPT !.doc = None] ELSE n : n \in nodes}
    /\ edges' = {IF e.doc = d THEN [e EXCEPT !.doc = None] ELSE e : e \in edges}
    /\ UNCHANGED <<context, job, faults, raced, broken>>

Expire == Change /\ context # {} /\ context' = {} /\ UNCHANGED <<docs, tables, graph, job, faults, raced, broken>>

Die(w) ==
    /\ job[w].pc \notin Ended /\ Fault /\ Goes(w, "dead")
    /\ broken' = IF w \in UNION {Generating(d) : d \in Document} THEN broken \cup {job[w].doc} ELSE broken
    /\ UNCHANGED <<docs, tables, graph, context, changes, raced>>

InInit ==
    /\ docs = Document /\ nodes = {} /\ edges = {} /\ context = {}
    /\ insight = [d \in Document |-> None] /\ timeline = [d \in Document |-> None] /\ entities = [d \in Document |-> {}]
    /\ job \in Scene /\ faults = 0 /\ changes = 0 /\ raced = {} /\ broken = {}

Generates(w) ==
    \/ job[w].kind # "build" /\ Begin(w)
    \/ Insert(w) \/ Update(w) \/ Analyse(w) \/ Fail(w) \/ Persist(w) \/ CommitGeneration(w)
InNext ==
    \/ \E w \in Worker : Generates(w) \/ BuildRead(w) \/ BuildCommit(w) \/ Die(w)
    \/ (\E d \in Document : DeleteDocument(d)) \/ Expire

-----------------------------------------------------------------------------
(* Properties *)

\* A ready insight, its timeline and its entities are of one generation,
\* unless two of them overlapped; none is left of a document that is gone.
ReadyIsWhole ==
    \A d \in Document :
      /\ d \notin docs => insight[d] = None /\ timeline[d] = None /\ entities[d] = {}
      /\ insight[d] # None /\ insight[d].status = "ready" =>
           /\ insight[d].payload # None /\ entities[d] # {}
           /\ d \notin raced => timeline[d] = insight[d].payload /\ entities[d] = {timeline[d]}

\* A row says processing only while a worker generates, or after one died or
\* raised, or when two overlapped: then the next request generates again.
ProcessingEnds ==
    \A d \in Document :
      insight[d] # None /\ insight[d].status = "processing" => Generating(d) # {} \/ d \in broken \cup raced

\* A name is one node, of a document that has had that entity; a build that
\* succeeds leaves no entity that it read without its node.
GraphIsSound ==
    /\ \A m, n \in nodes : m.name = n.name => m = n
    /\ \A n \in nodes : n.doc # None => n.name \in Names[n.doc] /\ n.doc \in docs
    /\ context \subseteq Known(nodes)
    /\ \A w \in Worker : job[w].kind = "build" /\ At(w, "done") => Known(NodesOf(job[w].seen)) \subseteq Known(nodes)

InsightsAreWhole == ReadyIsWhole /\ ProcessingEnds

\* Once an insight is there, no generation under way, the graph has its names.
GraphFollowsInsights ==
    \A d \in Document :
      KnowledgeGraph /\ d \notin raced /\ insight[d] # None /\ insight[d].status = "ready" => Names[d] \subseteq Known(nodes)

=============================================================================
