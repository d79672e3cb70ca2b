--------------------------- MODULE ResearchProofs ---------------------------
(***************************************************************************)
(* Proofs about Insights and Research, for any scene of workers, documents *)
(* and sessions: an insight is of one generation, the graph has one node   *)
(* for a name, an answer rests on what its session held, and the rows of   *)
(* reports and traces end.                                                 *)
(***************************************************************************)
EXTENDS Research, SequenceTheorems, FiniteSetTheorems, WellFoundedInduction, TLAPS

-----------------------------------------------------------------------------
(* The inductive invariant *)

GenSteps == {"insert", "update", "model", "fail", "persist", "commit"}
Routed == {"plan", "tools", "trace", "agents", "summary", "report", "gather", "write", "fail report", "keep"}
KindSteps(kind) ==
    CASE kind \in {"auto", "generate"} -> {"begin", "done", "raised", "dead"} \cup GenSteps
      [] kind = "build" -> {"begin", "build", "done", "raised", "dead"}
      [] kind = "deep"  -> {"report", "gather", "write", "fail report", "done", "raised", "dead"}
      [] kind = "ask"   -> Steps \ {"build"}
ToolNames == {"retrieval", "memory", "calculator", "web_search", "summarizer"}
RowStatus == {"processing", "ready", "failed"}
Found == {None} \cup RowStatus \cup Worker \cup SUBSET Name

Job == [kind : {"auto", "generate", "build", "deep", "ask"}, pc : Steps, flags : SUBSET Flags,
        doc : Document \cup {None}, session : Session \cup {None}, force : BOOLEAN,
        status : RowStatus \cup {None}, found : Found, gone : SUBSET Worker,
        left : Seq(Document \cup ToolNames), seen : SUBSET [doc : Document, gen : Worker],
        sources : SUBSET Document, shown : SUBSET Name, texts : SUBSET ToolNames, from : Worker \cup {None}]

\* What a job holds fits its kind and its step.
Fits(j) ==
    /\ j.pc \in KindSteps(j.kind)
    /\ j.kind = "deep" => j.flags = {}
    /\ j.pc \in GenSteps \/ (j.pc = "begin" /\ j.kind # "build") => j.doc \in Document
    /\ j.pc = "update" => j.found \in RowStatus
    /\ j.pc \in {"model", "fail", "persist", "commit"} => j.status \in RowStatus
    /\ j.pc = "commit" => j.found \in Worker \cup {None}
    /\ j.pc = "build" => j.found \in SUBSET Name
Typed ==
    /\ TypeOK
    /\ insight \in [Document -> Row \cup {None}] /\ timeline \in [Document -> Worker \cup {None}]
    /\ entities \in [Document -> SUBSET Worker]
    /\ job \in [Worker -> Job] /\ \A w \in Worker : Fits(job[w])

\* The generation of a worker whose document nobody else generates knows the
\* row: there is none before an insert, and later it is what the worker read.
KnowsRow(w) ==
    LET j == job[w]  row == insight[j.doc] IN
    /\ j.pc \in {"model", "fail", "persist", "commit"} /\ j.doc \in docs => row # None
    /\ j.pc \in GenSteps /\ j.doc \notin raced =>
         /\ j.pc = "insert" => row = None
         /\ j.pc = "update" /\ row # None => j.found = row.status
         /\ j.pc \in {"model", "fail", "persist", "commit"} /\ row # None => j.status = "processing"
         /\ j.pc = "commit" => entities[j.doc] \subseteq j.gone
Alone == \A v, w \in Worker :
    job[v].pc \in GenSteps /\ job[w].pc \in GenSteps /\ job[v].doc = job[w].doc /\ job[v].doc \notin raced => v = w
InsightInv == InsightsAreWhole /\ Alone /\ \A w \in Worker : KnowsRow(w)

\* The context of a question is of documents its session has had; a report of
\* the cache is one that was kept, and a question about a document goes its
\* own way.
Analyses(j) == j.pc \in {"begin", "next"} \cup GenSteps
KnowsDocuments(w) ==
    LET j == job[w] IN
    j.kind = "ask" =>
      /\ j.pc = "ask" => j.sources = {} /\ j.doc = None
      /\ j.pc \notin {"ask"} \cup Ended => OfSession(j.session) \subseteq held[w]
      /\ j.from = None => j.sources \subseteq held[w]
      /\ Analyses(j) => j.left \in Seq(held[w]) /\ j.doc \in held[w] \cup {None}
Cites(w) ==
    LET c == job[w].from IN
    c # None => job[w].pc = "done" /\ job[c].pc = "done" /\ reports[c] = "ready" /\ job[w].sources \subseteq held[c]
CacheIsKept ==
    cached # None =>
      /\ job[cached].kind = "ask" /\ job[cached].pc = "done" /\ job[cached].from = None
      /\ reports[cached] = "ready" /\ job[cached].sources \subseteq held[cached]
StaysInDocuments(w) ==
    LET j == job[w] IN
    /\ j.pc \in {"ask", "plan"} => j.texts = {}
    /\ j.pc = "keep" => reports[w] = "ready"
    /\ "document" \in j.flags =>
         /\ j.pc \notin {"trace", "agents", "summary", "report", "gather", "write", "fail report", "keep"}
         /\ j.from = None /\ traces[w] = "none" /\ j.texts \subseteq {"memory"}
         /\ j.pc = "tools" => j.left \in Seq({"retrieval", "memory"})
         /\ "analysis" \notin j.flags /\ j.kind = "ask" =>
              /\ j.pc \in {"ask", "plan", "tools", "done", "refused", "dead"}
              /\ j.pc = "done" => ~ NoEvidence(j.sources, j.shown, j.texts)
AnswerInv == CacheIsKept /\ \A w \in Worker : KnowsDocuments(w) /\ Cites(w) /\ StaysInDocuments(w)

RowsInv ==
    /\ RowsEnd
    /\ \A w \in Worker :
         /\ traces[w] \in {"none", "running", "complete"}
         /\ traces[w] # "none" => job[w].kind = "ask"

ResearchInv == Typed /\ InsightInv /\ GraphIsSound /\ AnswerInv /\ RowsInv

-----------------------------------------------------------------------------
(* Jobs *)

\* A job with the fields a step gives it.
WithPc(j, pc) == [j EXCEPT !.pc = pc]
WithPcFound(j, pc, found) == [j EXCEPT !.pc = pc, !.found = found]
WithPcStatus(j, pc, status) == [j EXCEPT !.pc = pc, !.status = status]
WithPcFoundGone(j, pc, found, gone) == [j EXCEPT !.pc = pc, !.found = found, !.gone = gone]
WithPcSeenFound(j, pc, seen, found) == [j EXCEPT !.pc = pc, !.seen = seen, !.found = found]
WithPcLeft(j, pc, left) == [j EXCEPT !.pc = pc, !.left = left]
WithPcSources(j, pc, sources) == [j EXCEPT !.pc = pc, !.sources = sources]
WithPcDocLeftSources(j, pc, doc, left, sources) == [j EXCEPT !.pc = pc, !.doc = doc, !.left = left, !.sources = sources]
WithPcDocSources(j, pc, doc, sources) == [j EXCEPT !.pc = pc, !.doc = doc, !.sources = sources]
WithLeftSourcesShown(j, left, sources, shown) == [j EXCEPT !.left = left, !.sources = sources, !.shown = shown]
WithLeft(j, left) == [j EXCEPT !.left = left]
WithLeftTexts(j, left, texts) == [j EXCEPT !.left = left, !.texts = texts]
WithPcSourcesFrom(j, pc, sources, src) == [j EXCEPT !.pc = pc, !.sources = sources, !.from = src]

\* Values of their types make a job of it, and leave its other fields.
LEMMA WithPcIsJob ==
    ASSUME NEW j \in Job, NEW pc \in Steps
    PROVE  LET k == WithPc(j, pc) IN
           /\ k \in Job
           /\ k.pc = pc
           /\ k.kind = j.kind /\ k.flags = j.flags /\ k.doc = j.doc /\ k.session = j.session /\ k.force = j.force
           /\ k.status = j.status /\ k.found = j.found /\ k.gone = j.gone /\ k.left = j.left /\ k.seen = j.seen
           /\ k.sources = j.sources /\ k.shown = j.shown /\ k.texts = j.texts /\ k.from = j.from
<1>1. [j EXCEPT !.pc = pc] \in Job
  BY ZenonT(60) DEF Job
<1> QED
  BY <1>1 DEF Job, WithPc

\* The same of a job that has found something,
LEMMA WithPcFoundIsJob ==
    ASSUME NEW j \in Job, NEW pc \in Steps, NEW found \in Found
    PROVE  LET k == WithPcFound(j, pc, found) IN
           /\ k \in Job
           /\ k.pc = pc /\ k.found = found
           /\ k.kind = j.kind /\ k.flags = j.flags /\ k.doc = j.doc /\ k.session = j.session /\ k.force = j.force
           /\ k.status = j.status /\ k.gone = j.gone /\ k.left = j.left /\ k.seen = j.seen /\ k.sources = j.sources
           /\ k.shown = j.shown /\ k.texts = j.texts /\ k.from = j.from
<1>1. [j EXCEPT !.pc = pc, !.found = found] \in Job
  BY ZenonT(60) DEF Job
<1> QED
  BY <1>1 DEF Job, WithPcFound

\* of one with a row's status,
LEMMA WithPcStatusIsJob ==
    ASSUME NEW j \in Job, NEW pc \in Steps, NEW status \in RowStatus \cup {None}
    PROVE  LET k == WithPcStatus(j, pc, status) IN
           /\ k \in Job
           /\ k.pc = pc /\ k.status = status
           /\ k.kind = j.kind /\ k.flags = j.flags /\ k.doc = j.doc /\ k.session = j.session /\ k.force = j.force
           /\ k.found = j.found /\ k.gone = j.gone /\ k.left = j.left /\ k.seen = j.seen /\ k.sources = j.sources
           /\ k.shown = j.shown /\ k.texts = j.texts /\ k.from = j.from
<1>1. [j EXCEPT !.pc = pc, !.status = status] \in Job
  BY ZenonT(60) DEF Job
<1> QED
  BY <1>1 DEF Job, WithPcStatus

\* of one that is to replace entities,
LEMMA WithPcFoundGoneIsJob ==
    ASSUME NEW j \in Job, NEW pc \in Steps, NEW found \in Found, NEW gone \in SUBSET Worker
    PROVE  LET k == WithPcFoundGone(j, pc, found, gone) IN
           /\ k \in Job
           /\ k.pc = pc /\ k.found = found /\ k.gone = gone
           /\ k.kind = j.kind /\ k.flags = j.flags /\ k.doc = j.doc /\ k.session = j.session /\ k.force = j.force
           /\ k.status = j.status /\ k.left = j.left /\ k.seen = j.seen /\ k.sources = j.sources /\ k.shown = j.shown
           /\ k.texts = j.texts /\ k.from = j.from
<1>1. [j EXCEPT !.pc = pc, !.found = found, !.gone = gone] \in Job
  BY ZenonT(60) DEF Job
<1> QED
  BY <1>1 DEF Job, WithPcFoundGone

\* of a build that has read entities,
LEMMA WithPcSeenFoundIsJob ==
    ASSUME NEW j \in Job, NEW pc \in Steps, NEW seen \in SUBSET [doc : Document, gen : Worker], NEW found \in Found
    PROVE  LET k == WithPcSeenFound(j, pc, seen, found) IN
           /\ k \in Job
           /\ k.pc = pc /\ k.seen = seen /\ k.found = found
           /\ k.kind = j.kind /\ k.flags = j.flags /\ k.doc = j.doc /\ k.session = j.session /\ k.force = j.force
           /\ k.status = j.status /\ k.gone = j.gone /\ k.left = j.left /\ k.sources = j.sources /\ k.shown = j.shown
           /\ k.texts = j.texts /\ k.from = j.from
<1>1. [j EXCEPT !.pc = pc, !.seen = seen, !.found = found] \in Job
  BY ZenonT(60) DEF Job
<1> QED
  BY <1>1 DEF Job, WithPcSeenFound

\* of one with things left to do,
LEMMA WithPcLeftIsJob ==
    ASSUME NEW j \in Job, NEW pc \in Steps, NEW left \in Seq(Document \cup ToolNames)
    PROVE  LET k == WithPcLeft(j, pc, left) IN
           /\ k \in Job
           /\ k.pc = pc /\ k.left = left
           /\ k.kind = j.kind /\ k.flags = j.flags /\ k.doc = j.doc /\ k.session = j.session /\ k.force = j.force
           /\ k.status = j.status /\ k.found = j.found /\ k.gone = j.gone /\ k.seen = j.seen /\ k.sources = j.sources
           /\ k.shown = j.shown /\ k.texts = j.texts /\ k.from = j.from
<1>1. [j EXCEPT !.pc = pc, !.left = left] \in Job
  BY ZenonT(60) DEF Job
<1> QED
  BY <1>1 DEF Job, WithPcLeft

\* of a question with sources,
LEMMA WithPcSourcesIsJob ==
    ASSUME NEW j \in Job, NEW pc \in Steps, NEW sources \in SUBSET Document
    PROVE  LET k == WithPcSources(j, pc, sources) IN
           /\ k \in Job
           /\ k.pc = pc /\ k.sources = sources
           /\ k.kind = j.kind /\ k.flags = j.flags /\ k.doc = j.doc /\ k.session = j.session /\ k.force = j.force
           /\ k.status = j.status /\ k.found = j.found /\ k.gone = j.gone /\ k.left = j.left /\ k.seen = j.seen
           /\ k.shown = j.shown /\ k.texts = j.texts /\ k.from = j.from
<1>1. [j EXCEPT !.pc = pc, !.sources = sources] \in Job
  BY ZenonT(60) DEF Job
<1> QED
  BY <1>1 DEF Job, WithPcSources

\* of one that goes on to a document,
LEMMA WithPcDocLeftSourcesIsJob ==
    ASSUME NEW j \in Job, NEW pc \in Steps, NEW doc \in Document \cup {None}, NEW left \in Seq(Document \cup ToolNames), NEW sources \in SUBSET Document
    PROVE  LET k == WithPcDocLeftSources(j, pc, doc, left, sources) IN
           /\ k \in Job
           /\ k.pc = pc /\ k.doc = doc /\ k.left = left /\ k.sources = sources
           /\ k.kind = j.kind /\ k.flags = j.flags /\ k.session = j.session /\ k.force = j.force /\ k.status = j.status
           /\ k.found = j.found /\ k.gone = j.gone /\ k.seen = j.seen /\ k.shown = j.shown /\ k.texts = j.texts
           /\ k.from = j.from
<1>1. [j EXCEPT !.pc = pc, !.doc = doc, !.left = left, !.sources = sources] \in Job
  BY ZenonT(60) DEF Job
<1> QED
  BY <1>1 DEF Job, WithPcDocLeftSources

\* of one that is through with them,
LEMMA WithPcDocSourcesIsJob ==
    ASSUME NEW j \in Job, NEW pc \in Steps, NEW doc \in Document \cup {None}, NEW sources \in SUBSET Document
    PROVE  LET k == WithPcDocSources(j, pc, doc, sources) IN
           /\ k \in Job
           /\ k.pc = pc /\ k.doc = doc /\ k.sources = sources
           /\ k.kind = j.kind /\ k.flags = j.flags /\ k.session = j.session /\ k.force = j.force /\ k.status = j.status
           /\ k.found = j.found /\ k.gone = j.gone /\ k.left = j.left /\ k.seen = j.seen /\ k.shown = j.shown
           /\ k.texts = j.texts /\ k.from = j.from
<1>1. [j EXCEPT !.pc = pc, !.doc = doc, !.sources = sources] \in Job
  BY ZenonT(60) DEF Job
<1> QED
  BY <1>1 DEF Job, WithPcDocSources

\* of a retrieval and its successor,
LEMMA WithLeftSourcesShownIsJob ==
    ASSUME NEW j \in Job, NEW left \in Seq(Document \cup ToolNames), NEW sources \in SUBSET Document, NEW shown \in SUBSET Name
    PROVE  LET k == WithLeftSourcesShown(j, left, sources, shown) IN
           /\ k \in Job
           /\ k.left = left /\ k.sources = sources /\ k.shown = shown
           /\ k.kind = j.kind /\ k.pc = j.pc /\ k.flags = j.flags /\ k.doc = j.doc /\ k.session = j.session
           /\ k.force = j.force /\ k.status = j.status /\ k.found = j.found /\ k.gone = j.gone /\ k.seen = j.seen
           /\ k.texts = j.texts /\ k.from = j.from
<1>1. [j EXCEPT !.left = left, !.sources = sources, !.shown = shown] \in Job
  BY ZenonT(60) DEF Job
<1> QED
  BY <1>1 DEF Job, WithLeftSourcesShown

\* of a tool that finds nothing,
LEMMA WithLeftIsJob ==
    ASSUME NEW j \in Job, NEW left \in Seq(Document \cup ToolNames)
    PROVE  LET k == WithLeft(j, left) IN
           /\ k \in Job
           /\ k.left = left
           /\ k.kind = j.kind /\ k.pc = j.pc /\ k.flags = j.flags /\ k.doc = j.doc /\ k.session = j.session
           /\ k.force = j.force /\ k.status = j.status /\ k.found = j.found /\ k.gone = j.gone /\ k.seen = j.seen
           /\ k.sources = j.sources /\ k.shown = j.shown /\ k.texts = j.texts /\ k.from = j.from
<1>1. [j EXCEPT !.left = left] \in Job
  BY ZenonT(60) DEF Job
<1> QED
  BY <1>1 DEF Job, WithLeft

\* of one that finds a text,
LEMMA WithLeftTextsIsJob ==
    ASSUME NEW j \in Job, NEW left \in Seq(Document \cup ToolNames), NEW texts \in SUBSET ToolNames
    PROVE  LET k == WithLeftTexts(j, left, texts) IN
           /\ k \in Job
           /\ k.left = left /\ k.texts = texts
           /\ k.kind = j.kind /\ k.pc = j.pc /\ k.flags = j.flags /\ k.doc = j.doc /\ k.session = j.session
           /\ k.force = j.force /\ k.status = j.status /\ k.found = j.found /\ k.gone = j.gone /\ k.seen = j.seen
           /\ k.sources = j.sources /\ k.shown = j.shown /\ k.from = j.from
<1>1. [j EXCEPT !.left = left, !.texts = texts] \in Job
  BY ZenonT(60) DEF Job
<1> QED
  BY <1>1 DEF Job, WithLeftTexts

\* and of an answer from the cache.
LEMMA WithPcSourcesFromIsJob ==
    ASSUME NEW j \in Job, NEW pc \in Steps, NEW sources \in SUBSET Document, NEW src \in Worker \cup {None}
    PROVE  LET k == WithPcSourcesFrom(j, pc, sources, src) IN
           /\ k \in Job
           /\ k.pc = pc /\ k.sources = sources /\ k.from = src
           /\ k.kind = j.kind /\ k.flags = j.flags /\ k.doc = j.doc /\ k.session = j.session /\ k.force = j.force
           /\ k.status = j.status /\ k.found = j.found /\ k.gone = j.gone /\ k.left = j.left /\ k.seen = j.seen
           /\ k.shown = j.shown /\ k.texts = j.texts
<1>1. [j EXCEPT !.pc = pc, !.sources = sources, !.from = src] \in Job
  BY ZenonT(60) DEF Job
<1> QED
  BY <1>1 DEF Job, WithPcSourcesFrom

\* One job changes, the others stay.
LEMMA Turned ==
    ASSUME job \in [Worker -> Job], NEW w \in Worker, NEW k \in Job, job' = [job EXCEPT ![w] = k]
    PROVE  job' \in [Worker -> Job] /\ job'[w] = k /\ \A v \in Worker : v # w => job'[v] = job[v]
  OBVIOUS

\* A step of the job of a worker that is no generation's and no build's.
Aside(w) ==
    /\ UNCHANGED <<docs, insight, timeline, entities, nodes, edges, raced, broken>>
    /\ context' \in {context, GraphContext}
    /\ \A v \in Worker : v # w => job'[v] = job[v]
    /\ job[w].kind # "build" /\ job'[w].kind # "build"
    /\ job[w].pc \notin GenSteps /\ job'[w].pc \notin GenSteps

\* It leaves what others have asked and found, and its own question.
Local(w) ==
    /\ docs' \subseteq docs /\ cached' \in {cached, None} /\ job[w].pc \notin Ended
    /\ \A v \in Worker : v # w => job'[v] = job[v] /\ held'[v] = held[v] /\ reports'[v] = reports[v] /\ traces'[v] = traces[v]

\* What the others have is as it was; the cache has what it had.
LEMMA OthersKeep ==
    ASSUME Typed, AnswerInv, NEW w \in Worker, Local(w)
    PROVE  /\ CacheIsKept'
           /\ \A v \in Worker : v # w => KnowsDocuments(v)' /\ Cites(v)' /\ StaysInDocuments(v)'
<1>0. None \notin Worker /\ cached \in Worker \cup {None} /\ \A v \in Worker : job[v].from \in Worker \cup {None}
  BY InsightConstants DEF Typed, TypeOK, Job
<1>1. cached # w
  BY <1>0 DEF AnswerInv, CacheIsKept, Local, Ended
<1>2. CacheIsKept'
  BY <1>0, <1>1 DEF AnswerInv, CacheIsKept, Local
<1>3. ASSUME NEW v \in Worker, v # w PROVE KnowsDocuments(v)'
  <2>1. KnowsDocuments(v) /\ job'[v] = job[v] /\ held'[v] = held[v] /\ docs' \subseteq docs
    BY <1>3 DEF AnswerInv, Local
  <2>2. \A s : OfSession(s)' \subseteq OfSession(s)
    BY <2>1 DEF OfSession
  <2> QED
    BY <2>1, <2>2 DEF KnowsDocuments, Analyses
<1>4. ASSUME NEW v \in Worker, v # w PROVE Cites(v)'
  <2>1. Cites(v) /\ job'[v] = job[v] /\ job[v].from \in Worker \cup {None}
    BY <1>0, <1>3, <1>4 DEF AnswerInv, Local
  <2>2. CASE job[v].from = None
    BY <2>1, <2>2 DEF Cites
  <2>3. CASE job[v].from # None
    <3>1. job[v].from \in Worker /\ job[v].from # w
      BY <2>1, <2>3 DEF Cites, Local, Ended
    <3> QED
      BY <2>1, <2>3, <3>1 DEF Cites, Local
  <2> QED
    BY <2>2, <2>3
<1>5. ASSUME NEW v \in Worker, v # w PROVE StaysInDocuments(v)'
  <2>1. StaysInDocuments(v) /\ job'[v] = job[v] /\ reports'[v] = reports[v] /\ traces'[v] = traces[v]
    BY <1>5 DEF AnswerInv, Local
  <2> QED
    BY <2>1 DEF StaysInDocuments, NoEvidence
<1> QED
  BY <1>2, <1>3, <1>4, <1>5

\* The rows of the others end as before.
LEMMA OthersEnd ==
    ASSUME RowsInv, NEW w \in Worker, Local(w),
           reports'[w] = "processing" => job'[w].pc \in {"gather", "write", "fail report", "dead"},
           traces'[w] = "running" => job'[w].pc \in {"agents", "summary", "dead", "refused"},
           traces'[w] = "complete" => job'[w].pc = "done",
           traces'[w] \in {"none", "running", "complete"}, traces'[w] # "none" => job'[w].kind = "ask"
    PROVE  RowsInv'
<1>1. \A v \in Worker : v # w => job'[v] = job[v] /\ reports'[v] = reports[v] /\ traces'[v] = traces[v]
  BY DEF Local
<1> DEFINE Ends(v) == /\ reports[v] = "processing" => job[v].pc \in {"gather", "write", "fail report", "dead"}
                      /\ traces[v] = "running" => job[v].pc \in {"agents", "summary", "dead", "refused"}
                      /\ traces[v] = "complete" <=> job[v].kind = "ask" /\ job[v].pc = "done" /\ traces[v] # "none"
                      /\ traces[v] \in {"none", "running", "complete"} /\ (traces[v] # "none" => job[v].kind = "ask")
<1>2. RowsInv <=> \A v \in Worker : Ends(v)
  BY DEF RowsInv, RowsEnd, At
<1>3. RowsInv' <=> \A v \in Worker : Ends(v)'
  BY DEF RowsInv, RowsEnd, At
<1>4. \A v \in Worker : v # w => Ends(v)'
  BY <1>1, <1>2
<1>5. Ends(w)'
  OBVIOUS
<1> QED
  BY <1>3, <1>4, <1>5

\* A finite set is listed.
LEMMA Listed ==
    ASSUME NEW S, IsFiniteSet(S)
    PROVE  SetToSeq(S) \in Seq(S)
<1>1. Cardinality(S) \in Nat /\ ExistsBijection(1 .. Cardinality(S), S)
  BY FS_CardinalityType
<1>2. \E g \in [1 .. Cardinality(S) -> S] : IsInjective(g)
  BY <1>1, Zenon DEF ExistsBijection, Bijection, Injection, IsInjective
<1>3. SetToSeq(S) \in [1 .. Cardinality(S) -> S]
  BY <1>2 DEF SetToSeq
<1> QED
  BY <1>1, <1>3

\* The first documents of a list are of the list.
LEMMA FirstAre ==
    ASSUME NEW S, NEW s \in Seq(S)
    PROVE  First(PerAnalysis, s) \in Seq(S)
<1>1. PerAnalysis \in Nat /\ Len(s) \in Nat
  BY ResearchConstants
<1>2. \A n \in 0 .. Len(s) : SubSeq(s, 1, n) \in Seq(S)
  BY SubSeqProperties
<1> QED
  BY <1>1, <1>2 DEF First

\* The kinds that take a step.
LEMMA KindOfStep ==
    ASSUME Typed, NEW w \in Worker
    PROVE  /\ job[w] \in Job /\ Fits(job[w]) /\ None \notin Worker /\ None \notin Document
           /\ job[w].pc \in {"ask", "next", "plan", "tools", "trace", "agents", "summary", "keep"} => job[w].kind = "ask"
           /\ job[w].pc \in {"report", "gather", "write", "fail report"} => job[w].kind \in {"ask", "deep"}
           /\ job[w].pc \in GenSteps => job[w].kind \in {"auto", "generate", "ask"}
           /\ job[w].pc = "build" => job[w].kind = "build"
           /\ held[w] \subseteq Document /\ docs \subseteq Document /\ traces[w] \in Statuses /\ reports[w] \in Statuses
           /\ "next" \in KindSteps("ask") /\ "refused" \in KindSteps("ask")
<1>1. job[w] \in Job /\ Fits(job[w]) /\ None \notin Worker /\ None \notin Document
  BY InsightConstants DEF Typed
<1>2. job[w].pc \in KindSteps(job[w].kind) /\ job[w].kind \in {"auto", "generate", "build", "deep", "ask"} /\ job[w].pc \in Steps
  BY <1>1 DEF Fits, Job
<1>3. held[w] \subseteq Document /\ docs \subseteq Document /\ traces[w] \in Statuses /\ reports[w] \in Statuses
  BY DEF Typed, TypeOK, InTypeOK
<1>4. "next" \in KindSteps("ask") /\ "refused" \in KindSteps("ask")
  BY DEF KindSteps, Steps
<1> QED
  BY <1>1, <1>2, <1>3, <1>4 DEF KindSteps, GenSteps

\* The names of the graph.
LEMMA NamesOfGraph ==
    ASSUME Typed
    PROVE  Known(nodes) \subseteq Name /\ GraphContext \subseteq Name
  BY DEF Typed, TypeOK, InTypeOK, Known, GraphContext

\* What a step aside has to show.
LEMMA AsideKeeps ==
    ASSUME Typed, AnswerInv, RowsInv, NEW w \in Worker, Aside(w), Local(w),
           job' \in [Worker -> Job], Fits(job[w])', faults' \in 0..MaxFaults, changes' = changes,
           reports' \in [Worker -> Statuses], traces' \in [Worker -> Statuses], held' \in [Worker -> SUBSET Document],
           KnowsDocuments(w)', Cites(w)', StaysInDocuments(w)',
           reports'[w] = "processing" => job'[w].pc \in {"gather", "write", "fail report", "dead"},
           traces'[w] = "running" => job'[w].pc \in {"agents", "summary", "dead", "refused"},
           traces'[w] = "complete" => job'[w].pc = "done",
           traces'[w] \in {"none", "running", "complete"}, traces'[w] # "none" => job'[w].kind = "ask"
    PROVE  Typed' /\ AnswerInv' /\ RowsInv'
<1>1. context' \subseteq Name
  BY NamesOfGraph DEF Aside, Typed, TypeOK, InTypeOK
<1>2. \A v \in Worker : job'[v].pc \in Steps
  BY DEF Job
<1>3. InTypeOK'
  BY <1>1, <1>2 DEF Typed, TypeOK, InTypeOK, Aside
<1>4. cached' \in Worker \cup {None}
  BY DEF Local, Typed, TypeOK
<1>5. \A v \in Worker : Fits(job[v])'
  BY DEF Typed, Aside, Fits
<1>6. Typed'
  BY <1>3, <1>4, <1>5 DEF Typed, TypeOK, Aside
<1>7. AnswerInv'
  BY OthersKeep DEF AnswerInv
<1>8. RowsInv'
  BY OthersEnd
<1> QED
  BY <1>6, <1>7, <1>8

\* Ask: the documents of the session are held from here on.
LEMMA AskKeeps ==
    ASSUME Typed, AnswerInv, RowsInv, NEW w \in Worker, Ask(w)
    PROVE  Typed' /\ AnswerInv' /\ RowsInv' /\ Aside(w)
<1> DEFINE mine == OfSession(job[w].session)
           pc == Route(w)
           left == IF pc = "next" THEN First(PerAnalysis, SetToSeq(mine)) ELSE <<>>
<1>1. job[w].pc = "ask" /\ job[w].kind = "ask"
  BY KindOfStep DEF Ask, At
<1>2. mine \subseteq Document /\ IsFiniteSet(mine)
  BY InsightConstants, FS_Subset, KindOfStep DEF OfSession
<1>3. SetToSeq(mine) \in Seq(mine)
  BY <1>2, Listed
<1>4. left \in Seq(mine) /\ left \in Seq(Document \cup ToolNames)
  <2>1. left \in Seq(mine)
    <3> HIDE DEF mine, pc
    <3>1. First(PerAnalysis, SetToSeq(mine)) \in Seq(mine)
      BY <1>3, FirstAre
    <3> QED
      BY <3>1
  <2>2. mine \subseteq Document \cup ToolNames
    BY <1>2
  <2> HIDE DEF mine, left
  <2> QED
    BY <2>1, <2>2, SeqMonotonic
<1>5. pc \in {"refused", "next", "trace", "report", "plan"} /\ pc \in Steps
      /\ (pc \in {"trace", "report"} => ~ Has(w, "document"))
      /\ (pc = "next" => Has(w, "analysis"))
  BY DEF Route, Steps, IsDocument
<1>6. job' = [job EXCEPT ![w] = WithPcLeft(job[w], pc, left)]
  BY DEF Ask, Starts, WithPcLeft
<1> DEFINE k == WithPcLeft(job[w], pc, left)
<1>7. /\ k \in Job /\ k.pc = pc /\ k.left = left /\ k.kind = "ask" /\ k.doc = job[w].doc /\ k.session = job[w].session
      /\ k.flags = job[w].flags /\ k.sources = job[w].sources /\ k.from = job[w].from /\ k.texts = job[w].texts
  <2> HIDE DEF pc, left
  <2>1. job[w] \in Job
    BY KindOfStep
  <2> QED
    BY <1>1, <1>4, <1>5, <2>1, WithPcLeftIsJob
<1> HIDE DEF k
<1>8. job' \in [Worker -> Job] /\ job'[w] = k /\ \A v \in Worker : v # w => job'[v] = job[v]
  BY <1>6, <1>7, Turned DEF Typed, k
<1>9. Aside(w)
  BY <1>1, <1>5, <1>7, <1>8 DEF Aside, Ask, Only, tables, graph, GenSteps
<1>10. held' = [held EXCEPT ![w] = mine] /\ held' \in [Worker -> SUBSET Document] /\ held'[w] = mine /\ docs' = docs
  BY <1>2 DEF Ask, Only, Typed, TypeOK
<1>11. reports' = reports /\ traces' = traces /\ cached' = cached /\ faults' = faults /\ changes' = changes
  BY DEF Ask, Only, rows
<1>12. Local(w)
  BY <1>1, <1>8, <1>10, <1>11 DEF Local, Ended, Typed, TypeOK
<1>13. Fits(job[w])'
  BY <1>5, <1>7, <1>8, KindOfStep DEF Fits, KindSteps, GenSteps, Steps
<1>14. KnowsDocuments(w) /\ Cites(w) /\ StaysInDocuments(w)
  BY DEF AnswerInv
<1>18. /\ job[w].sources = {} /\ job[w].texts = {} /\ job[w].doc = None /\ job[w].from = None
      /\ (Has(w, "document") => traces[w] = "none")
  BY <1>1, <1>14 DEF KnowsDocuments, Cites, StaysInDocuments, Has
<1>19. traces[w] = "none" /\ reports[w] # "processing"
  BY <1>1 DEF RowsInv, RowsEnd, At
<1> HIDE DEF pc, left
<1>15. KnowsDocuments(w)'
  BY <1>4, <1>7, <1>8, <1>10, <1>18 DEF KnowsDocuments, OfSession, Analyses
<1>16. Cites(w)'
  BY <1>1, <1>7, <1>8, <1>18 DEF Cites
<1>17. StaysInDocuments(w)'
  BY <1>5, <1>7, <1>8, <1>11, <1>18 DEF StaysInDocuments, Has
<1> QED
  BY <1>8, <1>9, <1>10, <1>11, <1>12, <1>13, <1>15, <1>16, <1>17, <1>19, AsideKeeps DEF Typed, TypeOK, InTypeOK

\* What a step of a question or of a report under way has to show.
Moved(w) ==
    /\ job' \in [Worker -> Job] /\ reports' \in [Worker -> Statuses] /\ traces' \in [Worker -> Statuses]
    /\ \A v \in Worker : v # w => job'[v] = job[v] /\ reports'[v] = reports[v] /\ traces'[v] = traces[v]
    /\ job'[w].kind = job[w].kind /\ job'[w].flags = job[w].flags /\ job'[w].session = job[w].session

\* A question that goes on with what its session held keeps what is known of
\* answers and rows.
LEMMA GoesOn ==
    ASSUME Typed, AnswerInv, RowsInv, NEW w \in Worker, Moved(w), job[w].pc \in Routed \cup {"next"},
           Only(w), held' = held, cached' = cached, faults' \in 0..MaxFaults, context' \in {context, GraphContext},
           Fits(job'[w]), job'[w].from = None, job'[w].pc \notin GenSteps, job'[w].pc # "ask",
           job'[w].kind = "ask" => job'[w].sources \subseteq held[w],
           Analyses(job'[w]) => job'[w].left \in Seq(held[w]) /\ job'[w].doc \in held[w] \cup {None},
           job'[w].pc = "plan" => job'[w].texts = {}, job'[w].pc = "keep" => reports'[w] = "ready",
           reports'[w] = "processing" => job'[w].pc \in {"gather", "write", "fail report"},
           traces'[w] \in {"none", "running", "complete"},
           traces'[w] = "running" => job'[w].pc \in {"agents", "summary", "refused"},
           traces'[w] = "complete" => job'[w].pc = "done", traces'[w] # "none" => job'[w].kind = "ask",
           Has(w, "document") =>
             /\ job'[w].pc \in {"next", "begin", "tools", "done", "refused"} /\ traces'[w] = "none"
             /\ job'[w].texts \subseteq {"memory"}
             /\ job'[w].pc = "tools" => job'[w].left \in Seq({"retrieval", "memory"})
             /\ "analysis" \notin job[w].flags =>
                  /\ job'[w].pc \notin {"next", "begin"}
                  /\ job'[w].pc = "done" => ~ NoEvidence(job'[w].sources, job'[w].shown, job'[w].texts)
    PROVE  Typed' /\ AnswerInv' /\ RowsInv' /\ Aside(w)
<1> DEFINE k == job'[w]
<1>1. job' \in [Worker -> Job] /\ job'[w] = k /\ \A v \in Worker : v # w => job'[v] = job[v]
  BY DEF Moved
<1>2. /\ docs' = docs /\ UNCHANGED <<insight, timeline, entities, nodes, edges, raced, broken>> /\ changes' = changes
      /\ reports' \in [Worker -> Statuses] /\ traces' \in [Worker -> Statuses] /\ held' \in [Worker -> SUBSET Document]
      /\ \A v \in Worker : v # w => reports'[v] = reports[v] /\ traces'[v] = traces[v]
      /\ k.kind = job[w].kind /\ k.flags = job[w].flags /\ k.session = job[w].session
  BY DEF Only, tables, graph, Typed, TypeOK, Moved
<1>3. job[w].kind # "build" /\ job[w].pc \notin GenSteps /\ job[w].pc \notin Ended /\ job[w].pc # "ask"
  BY KindOfStep DEF Routed, GenSteps, Ended
<1>4. Aside(w)
  BY <1>1, <1>2, <1>3 DEF Aside
<1>5. Local(w)
  BY <1>1, <1>2, <1>3 DEF Local
<1>6. Fits(job[w])'
  BY <1>1 DEF Fits
<1>7. KnowsDocuments(w) /\ Cites(w) /\ StaysInDocuments(w)
  BY DEF AnswerInv
<1>8. OfSession(job[w].session)' = OfSession(k.session) /\ OfSession(k.session) = OfSession(job[w].session)
  BY <1>1, <1>2 DEF OfSession
<1>9. KnowsDocuments(w)'
  <2>1. k.kind = "ask" => OfSession(job[w].session) \subseteq held[w]
    BY <1>2, <1>3, <1>7 DEF KnowsDocuments
  <2> QED
    BY <1>1, <1>8, <2>1 DEF KnowsDocuments, Analyses
<1>10. Cites(w)'
  BY <1>1 DEF Cites
<1>11. StaysInDocuments(w)'
  BY <1>1, <1>2 DEF StaysInDocuments, Has, NoEvidence
<1> QED
  BY <1>1, <1>2, <1>4, <1>5, <1>6, <1>9, <1>10, <1>11, AsideKeeps

\* A step that leaves the rows, or changes those of its worker.
LEMMA MovesTo ==
    ASSUME Typed, NEW w \in Worker, NEW k \in Job, job' = [job EXCEPT ![w] = k],
           k.kind = job[w].kind, k.flags = job[w].flags, k.session = job[w].session
    PROVE  /\ job'[w] = k
           /\ reports' = reports /\ traces' = traces => Moved(w)
           /\ \A r \in Statuses : reports' = [reports EXCEPT ![w] = r] /\ traces' = traces => Moved(w) /\ reports'[w] = r
           /\ \A t \in Statuses : reports' = reports /\ traces' = [traces EXCEPT ![w] = t] => Moved(w) /\ traces'[w] = t
<1>1. job' \in [Worker -> Job] /\ job'[w] = k /\ \A v \in Worker : v # w => job'[v] = job[v]
  BY Turned DEF Typed
<1>2. reports \in [Worker -> Statuses] /\ traces \in [Worker -> Statuses]
  BY DEF Typed, TypeOK
<1> QED
  BY <1>1, <1>2 DEF Moved

\* What a question or a report under way knows.
LEMMA UnderWay ==
    ASSUME Typed, AnswerInv, RowsInv, NEW w \in Worker, job[w].pc \in Routed \cup {"next"}
    PROVE  /\ job[w] \in Job /\ job[w].from = None /\ job[w].pc \in KindSteps(job[w].kind) /\ held[w] \subseteq Document
           /\ OfSession(job[w].session) \subseteq Document
           /\ job[w].kind = "ask" => OfSession(job[w].session) \subseteq held[w] /\ job[w].sources \subseteq held[w]
           /\ job[w].pc = "next" => job[w].left \in Seq(held[w]) /\ job[w].doc \in held[w] \cup {None}
           /\ reports[w] \in Statuses
           /\ traces[w] \in {"none", "running"}
           /\ reports[w] = "processing" => job[w].pc \in {"gather", "write", "fail report"}
           /\ traces[w] = "running" => job[w].pc \in {"agents", "summary"}
           /\ faults \in 0..MaxFaults
           /\ Has(w, "document") =>
                /\ job[w].pc \in {"next", "plan", "tools"} /\ traces[w] = "none" /\ job[w].texts \subseteq {"memory"}
                /\ job[w].pc = "tools" => job[w].left \in Seq({"retrieval", "memory"})
                /\ "analysis" \notin job[w].flags => job[w].pc # "next"
<1>1. KnowsDocuments(w) /\ Cites(w) /\ StaysInDocuments(w)
  BY DEF AnswerInv
<1>2. job[w] \in Job /\ Fits(job[w]) /\ held[w] \subseteq Document /\ job[w].flags \subseteq Flags
      /\ (job[w].pc = "next" => job[w].kind = "ask")
      /\ (job[w].kind \in {"deep", "ask"})
  BY KindOfStep DEF Routed, Job
<1>3. job[w].pc \notin Ended /\ job[w].pc # "ask"
  BY DEF Routed, Ended
<1>4. job[w].from = None
  BY <1>1, <1>3 DEF Cites, Ended
<1>5. OfSession(job[w].session) \subseteq Document
  BY KindOfStep DEF OfSession
<1>6. /\ job[w].kind = "ask" => OfSession(job[w].session) \subseteq held[w] /\ job[w].sources \subseteq held[w]
      /\ job[w].pc = "next" => job[w].left \in Seq(held[w]) /\ job[w].doc \in held[w] \cup {None}
  BY <1>1, <1>2, <1>3, <1>4 DEF KnowsDocuments, Analyses
<1>7. /\ reports[w] \in Statuses
      /\ faults \in 0..MaxFaults
  BY DEF Typed, TypeOK, InTypeOK
<1>8. /\ traces[w] \in {"none", "running"}
      /\ reports[w] = "processing" => job[w].pc \in {"gather", "write", "fail report"}
      /\ traces[w] = "running" => job[w].pc \in {"agents", "summary"}
  BY <1>3 DEF RowsInv, RowsEnd, At, Ended
<1>9. Has(w, "document") =>
        /\ job[w].pc \in {"next", "plan", "tools"} /\ traces[w] = "none" /\ job[w].texts \subseteq {"memory"}
        /\ job[w].pc = "tools" => job[w].left \in Seq({"retrieval", "memory"})
        /\ "analysis" \notin job[w].flags => job[w].pc # "next"
  BY <1>1, <1>2 DEF StaysInDocuments, Has, Routed, Fits
<1>10. job[w].pc \in KindSteps(job[w].kind)
  BY <1>2 DEF Fits
<1> QED
  BY <1>2, <1>4, <1>5, <1>6, <1>7, <1>8, <1>9, <1>10

\* The least of a set of natural numbers is one of them, and none is below it.
LEMMA MinIsLeast ==
    ASSUME NEW S, S \subseteq Nat, S # {}
    PROVE  Min(S) \in S /\ \A y \in S : Min(S) <= y
<1>1. PICK x \in S : \A y \in S : ~ (<<y, x>> \in OpToRel(<, Nat))
  BY NatLessThanWellFounded, WFMin, Zenon
<1>2. \A y \in S : <<y, x>> \in OpToRel(<, Nat) <=> y < x
  BY DEF OpToRel
<1>3. \A y \in S : ~ (y < x)
  BY <1>1, <1>2
<1>4. \A y \in S : x <= y
  BY <1>3
<1> QED
  BY <1>1, <1>4 DEF Min

\* The analysis takes the next document of the session, or answers.
LEMMA NextDocumentKeeps ==
    ASSUME Typed, AnswerInv, RowsInv, NEW w \in Worker, NextDocument(w)
    PROVE  Typed' /\ AnswerInv' /\ RowsInv' /\ Aside(w)
<1> DEFINE sources == job[w].sources \cup Analysed(w)
<1>1. job[w].pc = "next" /\ job[w].kind = "ask" /\ None \notin Document
  BY KindOfStep DEF NextDocument, At
<1>2. /\ job[w] \in Job /\ held[w] \subseteq Document /\ sources \subseteq held[w] /\ sources \in SUBSET Document
      /\ job[w].left \in Seq(held[w]) /\ job[w].from = None /\ traces[w] = "none" /\ reports[w] # "processing"
      /\ (Has(w, "document") => "analysis" \in job[w].flags /\ job[w].texts \subseteq {"memory"})
  BY <1>1, UnderWay DEF Analysed
<1>3. Only(w) /\ held' = held /\ cached' = cached /\ faults' = faults /\ context' = context /\ reports' = reports /\ traces' = traces
  BY DEF NextDocument, rows
<1>4. "next" \in Routed \cup {"next"} /\ "done" \in Steps /\ "begin" \in Steps
      /\ "done" \in KindSteps("ask") /\ "begin" \in KindSteps("ask")
  BY DEF KindSteps, Steps
<1> HIDE DEF sources
<1>5. CASE job[w].left # <<>>
  <2> DEFINE doc == Head(job[w].left)
             left == Tail(job[w].left)
             k == WithPcDocLeftSources(job[w], "begin", doc, left, sources)
  <2>1. doc \in held[w] /\ left \in Seq(held[w])
    BY <1>2, <1>5, HeadTailProperties
  <2>2. doc \in Document /\ doc \in Document \cup {None} /\ left \in Seq(Document \cup ToolNames)
    BY <1>2, <2>1, SeqMonotonic
  <2>3. job' = [job EXCEPT ![w] = k]
    BY <1>5, Zenon DEF NextDocument, WithPcDocLeftSources, sources
  <2>4. /\ k \in Job /\ k.pc = "begin" /\ k.doc = doc /\ k.left = left /\ k.sources = sources /\ k.kind = "ask"
        /\ k.flags = job[w].flags /\ k.session = job[w].session /\ k.from = None /\ k.texts = job[w].texts
    <3> HIDE DEF doc, left
    <3>1. job[w] \in Job /\ "begin" \in Steps /\ doc \in Document \cup {None} /\ left \in Seq(Document \cup ToolNames)
          /\ sources \in SUBSET Document
      BY <1>2, <1>4, <2>2
    <3>2. k \in Job
      BY <3>1, ZenonT(60) DEF Job, WithPcDocLeftSources
    <3>3. /\ k.pc = "begin" /\ k.doc = doc /\ k.left = left /\ k.sources = sources /\ k.kind = job[w].kind
          /\ k.flags = job[w].flags /\ k.session = job[w].session /\ k.from = job[w].from /\ k.texts = job[w].texts
      BY <3>1 DEF Job, WithPcDocLeftSources
    <3> QED
      BY <1>1, <1>2, <3>2, <3>3
  <2>5. Fits(k)
    BY <1>4, <2>2, <2>4 DEF Fits, GenSteps
  <2> HIDE DEF k, doc, left
  <2> QED
    <3>1. job'[w] = k /\ Moved(w)
      BY <1>1, <1>3, <2>3, <2>4, MovesTo
    <3>2. faults' \in 0..MaxFaults
      BY <1>1, <1>3, UnderWay
    <3> QED
      BY <1>1, <1>2, <1>3, <1>4, <2>1, <2>4, <2>5, <3>1, <3>2, GoesOn DEF GenSteps, Analyses
<1>6. CASE job[w].left = <<>>
  <2> DEFINE k == WithPcDocSources(job[w], "done", None, sources)
  <2>1. job' = [job EXCEPT ![w] = k]
    BY <1>6 DEF NextDocument, WithPcDocSources, sources
  <2>2. /\ k \in Job /\ k.pc = "done" /\ k.doc = None /\ k.sources = sources /\ k.kind = "ask"
        /\ k.flags = job[w].flags /\ k.session = job[w].session /\ k.from = None /\ k.texts = job[w].texts
    BY <1>1, <1>2, <1>4, None \in Document \cup {None}, WithPcDocSourcesIsJob
  <2>3. Fits(k) /\ ~ Analyses(k)
    BY <1>4, <2>2 DEF Fits, GenSteps, Analyses
  <2> HIDE DEF k
  <2> QED
    <3>1. job'[w] = k /\ Moved(w)
      BY <1>1, <1>3, <2>1, <2>2, MovesTo
    <3>2. faults' \in 0..MaxFaults
      BY <1>1, <1>3, UnderWay
    <3> QED
      BY <1>1, <1>2, <1>3, <1>4, <2>2, <2>3, <3>1, <3>2, GoesOn DEF GenSteps
<1> QED
  BY <1>5, <1>6

\* The rules are tried in their order; a question about a document has the
\* retrieval and the memory at most.
LEMMA PlanOfTools ==
    ASSUME NEW w \in Worker
    PROVE  /\ Plan(w) \in Seq(Document \cup ToolNames)
           /\ Has(w, "document") => Plan(w) \in Seq({"retrieval", "memory"})
<1> DEFINE R == Rules(w)
           I == {i \in 1..Len(R) : R[i][1]}
<1>1. Len(R) = 8 /\ R[8][1] = TRUE /\ (Has(w, "document") => R[2][1] = TRUE)
  BY DEF Rules, IsDocument
<1>2. /\ R[1][2] \in Seq(ToolNames) /\ R[2][2] \in Seq(ToolNames) /\ R[3][2] \in Seq(ToolNames) /\ R[4][2] \in Seq(ToolNames)
      /\ R[5][2] \in Seq(ToolNames) /\ R[6][2] \in Seq(ToolNames) /\ R[7][2] \in Seq(ToolNames) /\ R[8][2] \in Seq(ToolNames)
  BY DEF Rules, ToolNames
<1>3. R[1][2] \in Seq({"retrieval", "memory"}) /\ R[2][2] \in Seq({"retrieval", "memory"})
  BY DEF Rules
<1> HIDE DEF R
<1>4. I \subseteq Nat /\ I # {} /\ Min(I) \in I
  BY <1>1, MinIsLeast
<1>5. Plan(w) = R[Min(I)][2]
  BY <1>4 DEF Plan, SelectInSeq, R
<1>6. Has(w, "document") => Min(I) <= 2
  <2>1. Has(w, "document") => 2 \in I
    BY <1>1
  <2> HIDE DEF I
  <2> QED
    BY <1>4, <2>1, MinIsLeast
<1>7. Min(I) \in {1, 2, 3, 4, 5, 6, 7, 8} /\ (Has(w, "document") => Min(I) \in {1, 2})
  BY <1>1, <1>4, <1>6
<1> HIDE DEF I
<1>8. Plan(w) \in Seq(ToolNames) /\ (Has(w, "document") => Plan(w) \in Seq({"retrieval", "memory"}))
  BY <1>2, <1>3, <1>5, <1>7
<1>9. ToolNames \subseteq Document \cup ToolNames
  OBVIOUS
<1> QED
  BY <1>8, <1>9, SeqMonotonic

\* The steps of a question fit its kind.
LEMMA AskSteps ==
    /\ Routed \cup {"next"} \subseteq Steps /\ "done" \in Steps /\ "refused" \in Steps /\ "raised" \in Steps
    /\ \A pc \in Routed \cup {"done", "refused", "raised"} : pc \in KindSteps("ask")
    /\ \A pc \in {"gather", "write", "fail report", "done", "raised"} : pc \in KindSteps("deep")
  BY DEF Routed, Steps, KindSteps

\* The plan of the tools.
LEMMA PlansKeeps ==
    ASSUME Typed, AnswerInv, RowsInv, NEW w \in Worker, Plans(w)
    PROVE  Typed' /\ AnswerInv' /\ RowsInv' /\ Aside(w)
<1> DEFINE left == Plan(w)
           k == WithPcLeft(job[w], "tools", left)
<1>1. job[w].pc = "plan" /\ job[w].kind = "ask" /\ "plan" \in Routed /\ "tools" \in Steps /\ "tools" \in KindSteps("ask")
  BY KindOfStep, AskSteps DEF Plans, At, Routed
<1>2. Only(w) /\ held' = held /\ cached' = cached /\ faults' = faults /\ context' = context /\ reports' = reports /\ traces' = traces
      /\ job' = [job EXCEPT ![w] = k]
  BY DEF Plans, rows, WithPcLeft
<1>3. left \in Seq(Document \cup ToolNames) /\ (Has(w, "document") => left \in Seq({"retrieval", "memory"}))
  BY PlanOfTools
<1>4. /\ job[w] \in Job /\ job[w].from = None /\ job[w].sources \subseteq held[w] /\ traces[w] = "none" /\ reports[w] # "processing"
      /\ job[w].texts = {} /\ faults \in 0..MaxFaults
  BY <1>1, UnderWay DEF AnswerInv, StaysInDocuments
<1> HIDE DEF left
<1>5. /\ k \in Job /\ k.pc = "tools" /\ k.left = left /\ k.sources = job[w].sources /\ k.kind = "ask"
      /\ k.flags = job[w].flags /\ k.session = job[w].session /\ k.from = None /\ k.texts = {}
  BY <1>1, <1>3, <1>4, WithPcLeftIsJob
<1>6. Fits(k) /\ ~ Analyses(k)
  BY <1>1, <1>5 DEF Fits, GenSteps, Analyses
<1> HIDE DEF k
<1>7. job'[w] = k /\ Moved(w)
  BY <1>1, <1>2, <1>5, MovesTo
<1> QED
  BY <1>1, <1>2, <1>3, <1>4, <1>5, <1>6, <1>7, GoesOn DEF GenSteps

\* A tool that has run, for a question with the documents it holds.
LEMMA ToolRan ==
    ASSUME Typed, AnswerInv, RowsInv, NEW w \in Worker, At(w, "tools"), job[w].left # <<>>, NEW k \in Job, job' = [job EXCEPT ![w] = k],
           Only(w), UNCHANGED <<rows, held>>, faults' \in 0..MaxFaults, context' \in {context, GraphContext},
           k.pc = job[w].pc, k.kind = job[w].kind, k.flags = job[w].flags, k.session = job[w].session, k.from = job[w].from,
           k.left = Tail(job[w].left), k.sources \in {job[w].sources, OfSession(job[w].session)},
           k.texts \in {job[w].texts, job[w].texts \cup {Head(job[w].left)}},
           Head(job[w].left) = "retrieval" => k.texts = job[w].texts
    PROVE  Typed' /\ AnswerInv' /\ RowsInv' /\ Aside(w)
<1>1. job[w].pc = "tools" /\ job[w].kind = "ask" /\ "tools" \in Routed /\ "tools" \in KindSteps("ask")
  BY KindOfStep, AskSteps DEF At, Routed
<1>2. held' = held /\ cached' = cached /\ reports' = reports /\ traces' = traces
  BY DEF rows
<1>3. /\ k.from = None /\ k.sources \subseteq held[w] /\ traces[w] = "none" /\ reports[w] # "processing"
      /\ Has(w, "document") => job[w].texts \subseteq {"memory"} /\ job[w].left \in Seq({"retrieval", "memory"})
  BY <1>1, UnderWay
<1>4. Has(w, "document") => k.left \in Seq({"retrieval", "memory"}) /\ Head(job[w].left) \in {"retrieval", "memory"}
  BY <1>3, HeadTailProperties
<1>5. Has(w, "document") => k.texts \subseteq {"memory"}
  BY <1>3, <1>4
<1>6. Fits(k) /\ ~ Analyses(k)
  BY <1>1, KindOfStep DEF Fits, GenSteps, Analyses
<1>7. job'[w] = k /\ Moved(w)
  BY <1>2, MovesTo
<1> QED
  BY <1>1, <1>2, <1>3, <1>4, <1>5, <1>6, <1>7, GoesOn DEF GenSteps

\* What is left of a plan.
LEMMA LeftOfPlan ==
    ASSUME Typed, AnswerInv, RowsInv, NEW w \in Worker, job[w].left # <<>>
    PROVE  job[w] \in Job /\ Tail(job[w].left) \in Seq(Document \cup ToolNames) /\ GraphContext \subseteq Name /\ OfSession(job[w].session) \subseteq Document
<1>1. job[w] \in Job /\ job[w].left \in Seq(Document \cup ToolNames)
  BY KindOfStep DEF Job
<1>2. OfSession(job[w].session) \subseteq Document
  BY KindOfStep DEF OfSession
<1> QED
  BY <1>1, <1>2, NamesOfGraph, HeadTailProperties

\* The retrieval tool.
LEMMA RetrievesKeeps ==
    ASSUME Typed, AnswerInv, RowsInv, NEW w \in Worker, Retrieves(w)
    PROVE  Typed' /\ AnswerInv' /\ RowsInv' /\ Aside(w)
<1> DEFINE left == Tail(job[w].left)
           mine == OfSession(job[w].session)
           shown == IF GraphRag THEN GraphContext ELSE {}
<1>1. At(w, "tools") /\ job[w].left # <<>> /\ Only(w) /\ UNCHANGED <<rows, held>>
  BY DEF Retrieves, Tool
<1>2. job[w] \in Job /\ left \in Seq(Document \cup ToolNames) /\ mine \in SUBSET Document /\ shown \in SUBSET Name
  BY <1>1, LeftOfPlan
<1>3. faults \in 0..MaxFaults /\ (Fault => faults' \in 0..MaxFaults)
  BY InsightConstants DEF Typed, TypeOK, InTypeOK, Fault
<1>4. ASSUME job' = [job EXCEPT ![w] = WithLeftSourcesShown(job[w], left, mine, shown)], context' \in {context, GraphContext}, faults' = faults
      PROVE  Typed' /\ AnswerInv' /\ RowsInv' /\ Aside(w)
  <2> DEFINE k == WithLeftSourcesShown(job[w], left, mine, shown)
  <2>1. k \in Job
    BY <1>2, ZenonT(60) DEF Job, WithLeftSourcesShown
  <2>2. /\ k.left = left /\ k.sources = mine /\ k.pc = job[w].pc /\ k.kind = job[w].kind /\ k.flags = job[w].flags
        /\ k.session = job[w].session /\ k.from = job[w].from /\ k.texts = job[w].texts
    BY <1>2 DEF Job, WithLeftSourcesShown
  <2> HIDE DEF k
  <2> QED
    BY <1>1, <1>3, <1>4, <2>1, <2>2, ToolRan DEF k
<1>5. ASSUME job' = [job EXCEPT ![w] = WithLeft(job[w], left)], context' = context, Fault
      PROVE  Typed' /\ AnswerInv' /\ RowsInv' /\ Aside(w)
  <2> DEFINE k == WithLeft(job[w], left)
  <2>1. k \in Job
    BY <1>2, ZenonT(60) DEF Job, WithLeft
  <2>2. /\ k.left = left /\ k.sources = job[w].sources /\ k.pc = job[w].pc /\ k.kind = job[w].kind /\ k.flags = job[w].flags
        /\ k.session = job[w].session /\ k.from = job[w].from /\ k.texts = job[w].texts
    BY <1>2 DEF Job, WithLeft
  <2> HIDE DEF k
  <2> QED
    BY <1>1, <1>3, <1>5, <2>1, <2>2, ToolRan DEF k
<1> QED
  BY <1>4, <1>5 DEF Retrieves, Ran, WithLeftSourcesShown, WithLeft

\* The other tools.
LEMMA ToolsKeep ==
    ASSUME Typed, AnswerInv, RowsInv, NEW w \in Worker, Remembers(w) \/ Calculates(w) \/ Searches(w) \/ Condenses(w)
    PROVE  Typed' /\ AnswerInv' /\ RowsInv' /\ Aside(w)
<1>1. faults \in 0..MaxFaults /\ (Fault => faults' \in 0..MaxFaults)
  BY InsightConstants DEF Typed, TypeOK, InTypeOK, Fault
<1>2. PICK name \in ToolNames \ {"retrieval"} :
        Tool(w, name) /\ Tools(w) /\ faults' \in 0..MaxFaults /\ (Finds(w, name) \/ FindsNothing(w))
  BY <1>1, Zenon DEF Remembers, Calculates, Searches, Condenses, ToolNames
<1> DEFINE left == Tail(job[w].left)
           texts == job[w].texts \cup {name}
<1>3. At(w, "tools") /\ job[w].left # <<>> /\ Head(job[w].left) = name /\ name # "retrieval"
      /\ Only(w) /\ UNCHANGED <<rows, held>> /\ context' = context
  BY <1>2 DEF Tool, Tools
<1>4. job[w] \in Job /\ left \in Seq(Document \cup ToolNames) /\ texts \in SUBSET ToolNames
  BY <1>2, <1>3, LeftOfPlan DEF Job
<1>5. CASE Finds(w, name)
  <2> DEFINE k == WithLeftTexts(job[w], left, texts)
  <2>1. job' = [job EXCEPT ![w] = k]
    <3>1. [job[w] EXCEPT !.left = left].texts = job[w].texts
      BY <1>4 DEF Job
    <3> QED
      BY <1>5, <3>1 DEF Finds, Ran, WithLeftTexts
  <2>2. k \in Job
    BY <1>4, ZenonT(60) DEF Job, WithLeftTexts
  <2>3. /\ k.left = left /\ k.sources = job[w].sources /\ k.pc = job[w].pc /\ k.kind = job[w].kind /\ k.flags = job[w].flags
        /\ k.session = job[w].session /\ k.from = job[w].from /\ k.texts = texts
    BY <1>4 DEF Job, WithLeftTexts
  <2> HIDE DEF k
  <2> QED
    BY <1>2, <1>3, <2>1, <2>2, <2>3, ToolRan
<1>6. CASE FindsNothing(w)
  <2> DEFINE k == WithLeft(job[w], left)
  <2>1. job' = [job EXCEPT ![w] = k]
    BY <1>6 DEF FindsNothing, Ran, WithLeft
  <2>2. k \in Job
    BY <1>4, ZenonT(60) DEF Job, WithLeft
  <2>3. /\ k.left = left /\ k.sources = job[w].sources /\ k.pc = job[w].pc /\ k.kind = job[w].kind /\ k.flags = job[w].flags
        /\ k.session = job[w].session /\ k.from = job[w].from /\ k.texts = job[w].texts
    BY <1>4 DEF Job, WithLeft
  <2> HIDE DEF k
  <2> QED
    BY <1>2, <1>3, <2>1, <2>2, <2>3, ToolRan
<1> QED
  BY <1>2, <1>5, <1>6

\* A step that gives a question or a report a step and sources it holds.
MovesWith(w, pc, sources) ==
    \/ job' = [job EXCEPT ![w] = WithPcSources(job[w], pc, sources)]
    \/ sources = job[w].sources /\ job' = [job EXCEPT ![w] = WithPc(job[w], pc)]

\* A fault counts.
LEMMA FaultsBound ==
    ASSUME Typed
    PROVE  faults \in 0..MaxFaults /\ (Fault => faults' \in 0..MaxFaults)
  BY InsightConstants DEF Typed, TypeOK, InTypeOK, Fault

\* A question that moves on with its sources, or its session's, does so as
\* well.
LEMMA MovesOn ==
    ASSUME Typed, AnswerInv, RowsInv, NEW w \in Worker, job[w].pc \in Routed,
           NEW pc \in {"agents", "summary", "gather", "write", "fail report", "keep", "done", "refused", "raised"},
           NEW sources, MovesWith(w, pc, sources), sources \in {job[w].sources, OfSession(job[w].session)},
           job[w].kind = "deep" => pc \in {"gather", "write", "fail report", "done", "raised"},
           ~ Has(w, "document") \/ (job[w].pc = "tools" /\ (pc = "refused" \/ (pc = "done" /\ ~ NoEvidence(sources, job[w].shown, job[w].texts)))),
           Only(w), held' = held, cached' = cached, faults' \in 0..MaxFaults, context' \in {context, GraphContext},
           reports' \in [Worker -> Statuses], traces' \in [Worker -> Statuses],
           \A v \in Worker : v # w => reports'[v] = reports[v] /\ traces'[v] = traces[v],
           pc = "keep" => reports'[w] = "ready", reports'[w] = "processing" => pc \in {"gather", "write", "fail report"},
           traces'[w] \in {"none", "running", "complete"}, traces'[w] = "running" => pc \in {"agents", "summary", "refused"},
           traces'[w] = "complete" => pc = "done", traces'[w] # "none" => job[w].kind = "ask" /\ ~ Has(w, "document")
    PROVE  Typed' /\ AnswerInv' /\ RowsInv' /\ Aside(w)
<1>0. PICK k : /\ k = WithPcSources(job[w], pc, sources) \/ (sources = job[w].sources /\ k = WithPc(job[w], pc))
               /\ job' = [job EXCEPT ![w] = k]
  BY DEF MovesWith
<1>5. pc \in Steps
  BY DEF Steps
<1>1. /\ pc \in Steps /\ job[w] \in Job /\ job[w].from = None /\ sources \in SUBSET Document /\ job[w].kind \in {"ask", "deep"}
      /\ (job[w].kind = "ask" => sources \subseteq held[w]) /\ (Has(w, "document") => job[w].texts \subseteq {"memory"})
  <2>1. job[w] \in Job /\ job[w].kind \in {"ask", "deep"}
    BY KindOfStep DEF Routed
  <2>2. job[w].sources \in SUBSET Document
    BY <2>1 DEF Job
  <2> QED
    BY <1>5, <2>1, <2>2, UnderWay
<1>2. k \in Job
  <2>1. CASE k = WithPcSources(job[w], pc, sources)
    BY <1>1, <2>1, ZenonT(60) DEF Job, WithPcSources
  <2>2. CASE k = WithPc(job[w], pc)
    BY <1>1, <2>2, ZenonT(60) DEF Job, WithPc
  <2> QED
    BY <1>0, <2>1, <2>2
<1>3. /\ k.pc = pc /\ k.sources = sources /\ k.kind = job[w].kind /\ k.flags = job[w].flags /\ k.session = job[w].session
      /\ k.from = None /\ k.texts = job[w].texts /\ k.shown = job[w].shown
  BY <1>0, <1>1 DEF Job, WithPcSources, WithPc
<1>4. Fits(k) /\ ~ Analyses(k)
  <2>1. pc \in KindSteps(job[w].kind)
    BY <1>1, AskSteps, KindOfStep DEF Routed
  <2>2. k.kind = "deep" => k.flags = {}
    BY <1>3, KindOfStep DEF Fits
  <2> QED
    BY <1>3, <2>1, <2>2 DEF Fits, Analyses, GenSteps
<1>6. job'[w] = k /\ Moved(w)
  BY <1>0, <1>2, <1>3, Turned DEF Typed, Moved
<1> QED
  BY <1>1, <1>3, <1>4, <1>6, GoesOn DEF GenSteps

\* The answer of the tools, or the refusal.
LEMMA AggregatesKeeps ==
    ASSUME Typed, AnswerInv, RowsInv, NEW w \in Worker, Aggregates(w)
    PROVE  Typed' /\ AnswerInv' /\ RowsInv' /\ Aside(w)
<1> DEFINE refused == Has(w, "document") /\ NoEvidence(job[w].sources, job[w].shown, job[w].texts)
           pc == IF refused THEN "refused" ELSE "done"
           sources == job[w].sources
<1>1. job[w].pc = "tools" /\ job[w].pc \in Routed /\ job[w].kind = "ask"
  BY KindOfStep DEF Aggregates, At, Routed
<1>2. MovesWith(w, pc, sources)
  BY DEF Aggregates, Refused, Refuses, Answers, Goes, WithPc, WithPcSources, IsDocument, MovesWith
<1>3. Only(w) /\ held' = held /\ cached' = cached /\ faults' = faults /\ context' = context /\ reports' = reports /\ traces' = traces
  BY DEF Aggregates, rows
<1>4. traces[w] = "none" /\ reports[w] # "processing" /\ faults \in 0..MaxFaults
      /\ reports \in [Worker -> Statuses] /\ traces \in [Worker -> Statuses]
  BY <1>1, UnderWay DEF Typed, TypeOK
<1>5. pc \in Steps /\ pc \in {"done", "refused"}
  BY AskSteps
<1>6. ~ Has(w, "document") \/ (job[w].pc = "tools" /\ (pc = "refused" \/ (pc = "done" /\ ~ NoEvidence(sources, job[w].shown, job[w].texts))))
  BY <1>1
<1> HIDE DEF pc, refused
<1> QED
  BY <1>1, <1>2, <1>3, <1>4, <1>5, <1>6, MovesOn

\* The trace of the multi-agent platform.
LEMMA TraceKeeps ==
    ASSUME Typed, AnswerInv, RowsInv, NEW w \in Worker, Trace(w)
    PROVE  Typed' /\ AnswerInv' /\ RowsInv' /\ Aside(w)
<1>1. job[w].pc = "trace" /\ job[w].pc \in Routed /\ job[w].kind = "ask" /\ "agents" \in Steps /\ "running" \in Statuses
  BY KindOfStep DEF Trace, At, Routed, Steps, Statuses
<1>2. MovesWith(w, "agents", job[w].sources) /\ traces' = [traces EXCEPT ![w] = "running"]
  BY DEF Trace, Goes, WithPc, MovesWith
<1>3. Only(w) /\ held' = held /\ cached' = cached /\ faults' = faults /\ context' = context /\ reports' = reports
  BY DEF Trace
<1>4. reports[w] \in Statuses /\ reports[w] # "processing" /\ faults \in 0..MaxFaults /\ ~ Has(w, "document")
      /\ reports \in [Worker -> Statuses] /\ traces \in [Worker -> Statuses]
  BY <1>1, UnderWay DEF Typed, TypeOK
<1>5. traces' \in [Worker -> Statuses] /\ traces'[w] = "running" /\ \A v \in Worker : v # w => traces'[v] = traces[v]
  BY <1>1, <1>2, <1>4
<1> QED
  BY <1>1, <1>2, <1>3, <1>4, <1>5, MovesOn

\* The specialists, or none.
LEMMA SpecialistsKeeps ==
    ASSUME Typed, AnswerInv, RowsInv, NEW w \in Worker, Specialists(w)
    PROVE  Typed' /\ AnswerInv' /\ RowsInv' /\ Aside(w)
<1>1. job[w].pc = "agents" /\ job[w].pc \in Routed /\ job[w].kind = "ask" /\ "summary" \in Steps
  BY KindOfStep DEF Specialists, At, Routed, Steps
<1>2. \/ MovesWith(w, "summary", OfSession(job[w].session))
      \/ MovesWith(w, "summary", job[w].sources)
  BY DEF Specialists, Goes, WithPc, WithPcSources, MovesWith
<1>3. Only(w) /\ held' = held /\ cached' = cached /\ context' = context /\ reports' = reports /\ traces' = traces
  BY DEF Specialists, rows
<1>4. reports[w] \in Statuses /\ reports[w] # "processing" /\ ~ Has(w, "document") /\ traces[w] \in {"none", "running"}
      /\ reports \in [Worker -> Statuses] /\ traces \in [Worker -> Statuses]
  BY <1>1, UnderWay DEF Typed, TypeOK
<1>5. faults' \in 0..MaxFaults
  BY FaultsBound DEF Specialists
<1> QED
  BY <1>1, <1>2, <1>3, <1>4, <1>5, MovesOn

\* The summary, or its error: then the trace is left.
LEMMA SummarisesKeeps ==
    ASSUME Typed, AnswerInv, RowsInv, NEW w \in Worker, Summarises(w)
    PROVE  Typed' /\ AnswerInv' /\ RowsInv' /\ Aside(w)
<1>1. job[w].pc = "summary" /\ job[w].pc \in Routed /\ job[w].kind = "ask" /\ "done" \in Steps /\ "refused" \in Steps
      /\ "complete" \in Statuses
  BY KindOfStep DEF Summarises, At, Routed, Steps, Statuses
<1>2. \/ /\ MovesWith(w, "done", job[w].sources) /\ traces' = [traces EXCEPT ![w] = "complete"]
      \/ MovesWith(w, "refused", job[w].sources) /\ traces' = traces
  BY DEF Summarises, Goes, Answers, Refuses, WithPc, WithPcSources, MovesWith
<1>3. Only(w) /\ held' = held /\ cached' = cached /\ context' \in {context, GraphContext} /\ reports' = reports
  BY DEF Summarises, CachesGraph
<1>4. reports[w] \in Statuses /\ reports[w] # "processing" /\ ~ Has(w, "document") /\ traces[w] \in {"none", "running"}
      /\ reports \in [Worker -> Statuses] /\ traces \in [Worker -> Statuses]
  BY <1>1, UnderWay DEF Typed, TypeOK
<1>5. faults' \in 0..MaxFaults
  BY FaultsBound DEF Summarises
<1>6. CASE MovesWith(w, "done", job[w].sources) /\ traces' = [traces EXCEPT ![w] = "complete"]
  <2>1. traces' \in [Worker -> Statuses] /\ traces'[w] = "complete" /\ \A v \in Worker : v # w => traces'[v] = traces[v]
    BY <1>1, <1>4, <1>6
  <2> QED
    BY <1>1, <1>3, <1>4, <1>5, <1>6, <2>1, MovesOn
<1>7. CASE MovesWith(w, "refused", job[w].sources) /\ traces' = traces
  BY <1>1, <1>3, <1>4, <1>5, <1>7, MovesOn
<1> QED
  BY <1>2, <1>6, <1>7

\* Rounds of retrieval for a report.
LEMMA GathersKeeps ==
    ASSUME Typed, AnswerInv, RowsInv, NEW w \in Worker, Gathers(w)
    PROVE  Typed' /\ AnswerInv' /\ RowsInv' /\ Aside(w)
<1>1. job[w].pc = "gather" /\ job[w].pc \in Routed /\ "write" \in Steps /\ "fail report" \in Steps
  BY DEF Gathers, At, Routed, Steps
<1>2. \/ MovesWith(w, "write", OfSession(job[w].session))
      \/ MovesWith(w, "fail report", job[w].sources)
  BY DEF Gathers, Goes, WithPc, WithPcSources, MovesWith
<1>3. Only(w) /\ held' = held /\ cached' = cached /\ context' = context /\ reports' = reports /\ traces' = traces
  BY DEF Gathers, rows
<1>4. reports[w] \in Statuses /\ ~ Has(w, "document") /\ traces[w] = "none"
      /\ reports \in [Worker -> Statuses] /\ traces \in [Worker -> Statuses]
  BY <1>1, UnderWay DEF Typed, TypeOK
<1>5. faults' \in 0..MaxFaults
  BY FaultsBound DEF Gathers
<1> QED
  BY <1>1, <1>2, <1>3, <1>4, <1>5, MovesOn

\* The report is written, or its writer raises.
LEMMA WritesKeeps ==
    ASSUME Typed, AnswerInv, RowsInv, NEW w \in Worker, Writes(w)
    PROVE  Typed' /\ AnswerInv' /\ RowsInv' /\ Aside(w)
<1> DEFINE pc == IF job[w].kind = "ask" THEN "keep" ELSE "done"
<1>1. job[w].pc = "write" /\ job[w].pc \in Routed /\ "ready" \in Statuses
  BY DEF Writes, At, Routed, Statuses
<1>2. \/ MovesWith(w, pc, job[w].sources) /\ reports' = [reports EXCEPT ![w] = "ready"]
      \/ MovesWith(w, "fail report", job[w].sources) /\ reports' = reports
  BY DEF Writes, Goes, WithPc, MovesWith
<1>3. Only(w) /\ held' = held /\ cached' = cached /\ context' = context /\ traces' = traces
  BY DEF Writes
<1>4. reports[w] \in Statuses /\ ~ Has(w, "document") /\ traces[w] = "none"
      /\ reports \in [Worker -> Statuses] /\ traces \in [Worker -> Statuses]
  BY <1>1, UnderWay DEF Typed, TypeOK
<1>5. faults' \in 0..MaxFaults
  BY FaultsBound DEF Writes
<1>6. CASE MovesWith(w, pc, job[w].sources) /\ reports' = [reports EXCEPT ![w] = "ready"]
  <2>1. reports' \in [Worker -> Statuses] /\ reports'[w] = "ready" /\ \A v \in Worker : v # w => reports'[v] = reports[v]
    BY <1>1, <1>4, <1>6
  <2>2. pc \in {"keep", "done"} /\ (job[w].kind = "deep" => pc = "done")
    OBVIOUS
  <2> HIDE DEF pc
  <2> QED
    BY <1>1, <1>3, <1>4, <1>5, <1>6, <2>1, <2>2, MovesOn
<1>7. CASE MovesWith(w, "fail report", job[w].sources) /\ reports' = reports
  BY <1>1, <1>3, <1>4, <1>5, <1>7, MovesOn
<1> QED
  BY <1>2, <1>6, <1>7

\* The report is marked as failed.
LEMMA FailReportKeeps ==
    ASSUME Typed, AnswerInv, RowsInv, NEW w \in Worker, FailReport(w)
    PROVE  Typed' /\ AnswerInv' /\ RowsInv' /\ Aside(w)
<1> DEFINE pc == IF job[w].kind = "ask" THEN "refused" ELSE "raised"
<1>1. job[w].pc = "fail report" /\ job[w].pc \in Routed /\ "failed" \in Statuses
  BY DEF FailReport, At, Routed, Statuses
<1>2. MovesWith(w, pc, job[w].sources) /\ reports' = [reports EXCEPT ![w] = "failed"]
  BY DEF FailReport, Goes, WithPc, MovesWith, MarkedFailed
<1>3. Only(w) /\ held' = held /\ cached' = cached /\ context' = context /\ traces' = traces /\ faults' = faults
  BY DEF FailReport
<1>4. reports[w] \in Statuses /\ ~ Has(w, "document") /\ traces[w] = "none" /\ faults \in 0..MaxFaults
      /\ reports \in [Worker -> Statuses] /\ traces \in [Worker -> Statuses]
  BY <1>1, UnderWay DEF Typed, TypeOK
<1>5. reports' \in [Worker -> Statuses] /\ reports'[w] = "failed" /\ \A v \in Worker : v # w => reports'[v] = reports[v]
  BY <1>1, <1>2, <1>4
<1>6. pc \in {"refused", "raised"} /\ (job[w].kind = "deep" => pc = "raised")
  OBVIOUS
<1> HIDE DEF pc
<1> QED
  BY <1>1, <1>2, <1>3, <1>4, <1>5, <1>6, MovesOn

\* A report is of the cache, or begins: its row is committed first.
LEMMA ReportKeeps ==
    ASSUME Typed, AnswerInv, RowsInv, NEW w \in Worker, Report(w)
    PROVE  Typed' /\ AnswerInv' /\ RowsInv' /\ Aside(w)
<1>1. job[w].pc = "report" /\ job[w].pc \in Routed /\ "processing" \in Statuses
  BY DEF Report, At, Routed, Statuses
<1>2. Only(w) /\ held' = held /\ cached' = cached /\ context' = context /\ traces' = traces /\ faults' = faults
  BY DEF Report
<1>3. reports[w] \in Statuses /\ reports[w] # "processing" /\ ~ Has(w, "document") /\ traces[w] = "none" /\ faults \in 0..MaxFaults
      /\ reports \in [Worker -> Statuses] /\ traces \in [Worker -> Statuses] /\ held \in [Worker -> SUBSET Document]
  BY <1>1, UnderWay DEF Typed, TypeOK
<1>4. CASE ~ Cached(w)
  <2>1. MovesWith(w, "gather", job[w].sources) /\ reports' = [reports EXCEPT ![w] = "processing"]
    BY <1>4 DEF Report, Goes, WithPc, MovesWith
  <2>2. reports' \in [Worker -> Statuses] /\ reports'[w] = "processing" /\ \A v \in Worker : v # w => reports'[v] = reports[v]
    BY <1>1, <1>3, <2>1
  <2> QED
    BY <1>1, <1>2, <1>3, <2>1, <2>2, MovesOn
<1>5. CASE Cached(w)
  <2> DEFINE k == WithPcSourcesFrom(job[w], "done", job[cached].sources, cached)
  <2>1. job' = [job EXCEPT ![w] = k] /\ reports' = reports /\ cached # None /\ job[w].kind = "ask"
    BY <1>5 DEF Report, WithPcSourcesFrom, Cached
  <2>2. /\ cached \in Worker /\ job[w] \in Job /\ job[cached] \in Job /\ job[cached].sources \in SUBSET Document
        /\ "done" \in Steps /\ "done" \in KindSteps("ask")
    BY <2>1, KindOfStep, AskSteps DEF Typed, TypeOK, Job
  <2>3. k \in Job
    BY <2>2, ZenonT(60) DEF Job, WithPcSourcesFrom
  <2>4. /\ k.pc = "done" /\ k.sources = job[cached].sources /\ k.from = cached /\ k.kind = "ask" /\ k.flags = job[w].flags
        /\ k.session = job[w].session /\ k.texts = job[w].texts
    BY <2>1, <2>2 DEF Job, WithPcSourcesFrom
  <2> HIDE DEF k
  <2>5. job' \in [Worker -> Job] /\ job'[w] = k /\ \A v \in Worker : v # w => job'[v] = job[v]
    BY <2>1, <2>3, Turned DEF Typed
  <2>6. Aside(w)
    BY <1>1, <1>2, <2>1, <2>4, <2>5 DEF Aside, Only, tables, graph, GenSteps
  <2>7. Local(w)
    BY <1>1, <1>2, <2>1, <2>5 DEF Local, Only, Ended
  <2>8. Fits(job[w])'
    BY <2>2, <2>4, <2>5 DEF Fits, GenSteps
  <2>9. cached # w /\ job[cached].pc = "done" /\ reports[cached] = "ready" /\ job[cached].sources \subseteq held[cached]
    BY <1>1, <2>1 DEF AnswerInv, CacheIsKept
  <2>10. Cites(w)'
    BY <1>2, <2>1, <2>2, <2>4, <2>5, <2>9 DEF Cites
  <2>11. KnowsDocuments(w)'
    BY <2>1, <2>2, <2>4, <2>5 DEF KnowsDocuments, Ended, Analyses, GenSteps
  <2>12. StaysInDocuments(w)'
    BY <1>3, <2>4, <2>5 DEF StaysInDocuments, Has
  <2> QED
    BY <1>2, <1>3, <2>1, <2>4, <2>5, <2>6, <2>7, <2>8, <2>10, <2>11, <2>12, AsideKeeps DEF Only
<1> QED
  BY <1>4, <1>5

\* The cache has the report that is ready.
LEMMA KeepsKeeps ==
    ASSUME Typed, AnswerInv, RowsInv, NEW w \in Worker, Keeps(w)
    PROVE  Typed' /\ AnswerInv' /\ RowsInv' /\ Aside(w)
<1> DEFINE k == WithPcSources(job[w], "done", job[w].sources)
<1>1. job[w].pc = "keep" /\ job[w].pc \in Routed /\ job[w].kind = "ask" /\ "done" \in Steps /\ "done" \in KindSteps("ask")
  BY KindOfStep, AskSteps DEF Keeps, At, Routed
<1>2. Only(w) /\ held' = held /\ cached' = w /\ context' = context /\ reports' = reports /\ traces' = traces /\ faults' = faults
      /\ job' = [job EXCEPT ![w] = k]
  BY DEF Keeps, Answers, WithPcSources
<1>3. /\ reports[w] = "ready" /\ ~ Has(w, "document") /\ traces[w] = "none" /\ faults \in 0..MaxFaults
      /\ reports \in [Worker -> Statuses] /\ traces \in [Worker -> Statuses] /\ held \in [Worker -> SUBSET Document]
      /\ job[w] \in Job /\ job[w].from = None /\ job[w].sources \subseteq held[w] /\ job[w].sources \in SUBSET Document
      /\ cached \in Worker \cup {None}
  BY <1>1, UnderWay DEF Typed, TypeOK, AnswerInv, StaysInDocuments, Job
<1>4. k \in Job
  BY <1>1, <1>3, ZenonT(60) DEF Job, WithPcSources
<1>5. /\ k.pc = "done" /\ k.sources = job[w].sources /\ k.from = None /\ k.kind = "ask" /\ k.flags = job[w].flags
      /\ k.session = job[w].session /\ k.texts = job[w].texts
  BY <1>1, <1>3 DEF Job, WithPcSources
<1> HIDE DEF k
<1>6. job' \in [Worker -> Job] /\ job'[w] = k /\ \A v \in Worker : v # w => job'[v] = job[v]
  BY <1>2, <1>4, Turned DEF Typed
<1>7. Aside(w)
  BY <1>1, <1>2, <1>5, <1>6 DEF Aside, Only, tables, graph, GenSteps
<1>8. Fits(job[w])'
  BY <1>1, <1>5, <1>6 DEF Fits, GenSteps
<1>9. Cites(w)' /\ KnowsDocuments(w)'
  BY <1>1, <1>2, <1>3, <1>5, <1>6 DEF Cites, KnowsDocuments, Ended, Analyses, GenSteps
<1>10. StaysInDocuments(w)'
  BY <1>3, <1>5, <1>6 DEF StaysInDocuments, Has
<1>11. CacheIsKept'
  BY <1>2, <1>3, <1>5, <1>6 DEF CacheIsKept
<1>12. \A v \in Worker : v # w => (KnowsDocuments(v) /\ Cites(v) /\ StaysInDocuments(v))'
  <2> TAKE v \in Worker
  <2> HAVE v # w
  <2>1. KnowsDocuments(v) /\ Cites(v) /\ StaysInDocuments(v) /\ job'[v] = job[v] /\ docs' = docs
    BY <1>2, <1>6 DEF AnswerInv, Only
  <2>2. job[v].from # None => job[v].from \in Worker /\ job[v].from # w
    BY <1>1, <2>1, KindOfStep DEF Cites, Job
  <2> QED
    BY <1>2, <1>6, <2>1, <2>2 DEF Cites, KnowsDocuments, StaysInDocuments, OfSession, NoEvidence, Analyses
<1>13. AnswerInv'
  BY <1>9, <1>10, <1>11, <1>12 DEF AnswerInv
<1>14. InTypeOK'
  BY <1>2, <1>6 DEF Only, tables, graph, Typed, TypeOK, InTypeOK, Job
<1>15. Typed'
  BY <1>2, <1>6, <1>8, <1>14 DEF Only, tables, Typed, TypeOK, Fits
<1>16. RowsInv'
  BY <1>1, <1>2, <1>3, <1>5, <1>6 DEF RowsInv, RowsEnd, At
<1> QED
  BY <1>7, <1>13, <1>15, <1>16

-----------------------------------------------------------------------------
(* Insights and the graph *)

\* A step of a generation or of a build, or the death of a worker: what the
\* question has asked and found stays.
Inside(w) ==
    /\ docs' = docs /\ UNCHANGED <<rows, held>>
    /\ job' \in [Worker -> Job] /\ \A v \in Worker : v # w => job'[v] = job[v]
    /\ LET j == job[w]  k == job'[w] IN
       /\ k.kind = j.kind /\ k.flags = j.flags /\ k.session = j.session /\ k.doc = j.doc /\ k.left = j.left
       /\ k.sources = j.sources /\ k.shown = j.shown /\ k.texts = j.texts /\ k.from = j.from
       /\ \/ k.pc = "dead" /\ j.pc \notin Ended
          \/ /\ j.pc \in {"begin", "build"} \cup GenSteps /\ k.pc \in {"build", "done", "next", "raised"} \cup GenSteps
             /\ k.pc = "next" => j.kind = "ask"
             /\ k.pc = "done" => j.kind # "ask"
             /\ j.pc = "build" => k.pc \in {"done", "raised"}

\* Such a step keeps what is known of answers and rows.
LEMMA InsideKeeps ==
    ASSUME Typed, AnswerInv, RowsInv, NEW w \in Worker, Inside(w)
    PROVE  AnswerInv' /\ RowsInv'
<1> DEFINE k == job'[w]
<1>1. /\ docs' = docs /\ held' = held /\ reports' = reports /\ traces' = traces /\ cached' = cached
      /\ \A v \in Worker : v # w => job'[v] = job[v]
  BY DEF Inside, rows
<1>2. job[w].pc \notin Ended /\ job[w].from = None
  BY DEF AnswerInv, Cites, Inside, GenSteps, Ended
<1>3. Local(w)
  BY <1>1, <1>2 DEF Local
<1>4. KnowsDocuments(w) /\ Cites(w) /\ StaysInDocuments(w)
  BY DEF AnswerInv
<1>5. /\ k.kind = job[w].kind /\ k.flags = job[w].flags /\ k.session = job[w].session /\ k.doc = job[w].doc /\ k.left = job[w].left
      /\ k.sources = job[w].sources /\ k.texts = job[w].texts /\ k.from = job[w].from
      /\ k.pc # "ask" /\ k.pc # "plan" /\ k.pc # "tools" /\ k.pc # "keep"
      /\ (Analyses(k) => Analyses(job[w]))
      /\ (k.pc = "dead" \/ job[w].pc \in {"begin", "build"} \cup GenSteps)
      /\ (job[w].kind = "ask" => k.pc # "done")
  BY DEF Inside, GenSteps, Analyses
<1>6. KnowsDocuments(w)'
  BY <1>1, <1>2, <1>4, <1>5 DEF KnowsDocuments, OfSession, Analyses, Ended, GenSteps
<1>7. Cites(w)'
  BY <1>2, <1>5 DEF Cites
<1>8. StaysInDocuments(w)'
  <2>1. k.pc \notin {"trace", "agents", "summary", "report", "gather", "write", "fail report", "keep", "ask", "plan", "tools"}
    BY DEF Inside, GenSteps
  <2>2. "document" \in job[w].flags /\ "analysis" \notin job[w].flags /\ job[w].kind = "ask" => k.pc = "dead"
    BY <1>4, <1>5 DEF StaysInDocuments, GenSteps
  <2> QED
    BY <1>1, <1>4, <1>5, <2>1, <2>2 DEF StaysInDocuments, NoEvidence
<1>9. AnswerInv'
  BY <1>3, <1>6, <1>7, <1>8, OthersKeep DEF AnswerInv
<1>10. /\ reports[w] = "processing" => job[w].pc \in {"gather", "write", "fail report"}
       /\ traces[w] = "running" => job[w].pc \in {"agents", "summary"}
       /\ traces[w] \in {"none", "running"} /\ (traces[w] # "none" => job[w].kind = "ask")
  BY <1>2 DEF RowsInv, RowsEnd, At, Ended
<1>11. RowsInv'
  BY <1>1, <1>3, <1>5, <1>10, OthersEnd DEF GenSteps
<1> QED
  BY <1>9, <1>11

\* The generations of a document.
LEMMA InGenerating ==
    ASSUME NEW w \in Worker, NEW d
    PROVE  w \in Generating(d) <=> job[w].doc = d /\ job[w].pc \in GenSteps
  BY DEF Generating, GenSteps

\* A step that is no generation's changes no insight.
Outside(w) ==
    /\ UNCHANGED <<docs, insight, timeline, entities, raced, broken>>
    /\ \A v \in Worker : v # w => job'[v] = job[v]
    /\ job[w].pc \notin GenSteps /\ job'[w].pc \notin GenSteps

\* A step of a question outside of its generation keeps what is known of
\* insights.
LEMMA OutsideInsights ==
    ASSUME InsightInv, NEW w \in Worker, Outside(w)
    PROVE  InsightInv'
<1>1. /\ docs' = docs /\ insight' = insight /\ timeline' = timeline /\ entities' = entities /\ raced' = raced /\ broken' = broken
      /\ \A v \in Worker : v # w => job'[v] = job[v]
      /\ job[w].pc \notin GenSteps /\ job'[w].pc \notin GenSteps
  BY DEF Outside
<1>2. ReadyIsWhole'
  BY <1>1 DEF InsightInv, InsightsAreWhole, ReadyIsWhole
<1>3. \A d : Generating(d)' = Generating(d)
  BY <1>1 DEF Generating, GenSteps
<1>4. ProcessingEnds'
  BY <1>1, <1>3 DEF InsightInv, InsightsAreWhole, ProcessingEnds
<1>5. Alone'
  BY <1>1 DEF InsightInv, Alone
<1>6. \A v \in Worker : KnowsRow(v)'
  <2> TAKE v \in Worker
  <2>1. CASE v = w
    BY <1>1, <2>1 DEF KnowsRow, GenSteps
  <2>2. CASE v # w
    BY <1>1, <2>2 DEF KnowsRow, InsightInv
  <2> QED
    BY <2>1, <2>2
<1> QED
  BY <1>2, <1>4, <1>5, <1>6 DEF InsightInv, InsightsAreWhole

\* One that adds no node leaves the graph sound.
LEMMA GraphStays ==
    ASSUME GraphIsSound, NEW w \in Worker, docs' = docs, nodes' = nodes, context' \in {context, GraphContext},
           \A v \in Worker : v # w => job'[v] = job[v], job'[w].kind = "build" => job'[w].pc # "done"
    PROVE  GraphIsSound'
<1>2. GraphContext \subseteq Known(nodes)
  BY DEF GraphContext, GraphIsSound
<1>3. context' \subseteq Known(nodes)'
  BY <1>2 DEF GraphIsSound, Known
<1>4. \A v \in Worker : (job[v].kind = "build" /\ At(v, "done") => Known(NodesOf(job[v].seen)) \subseteq Known(nodes))'
  BY DEF GraphIsSound, Known, NodesOf, At
<1> QED
  BY <1>3, <1>4 DEF GraphIsSound

\* A step aside is one of these.
LEMMA AsideSound ==
    ASSUME InsightInv, GraphIsSound, NEW w \in Worker, Aside(w)
    PROVE  InsightInv' /\ GraphIsSound'
<1>1. Outside(w)
  BY DEF Aside, Outside
<1> QED
  BY <1>1, OutsideInsights, GraphStays DEF Aside

\* What is promised of a document.
Whole(d) ==
    /\ d \notin docs => insight[d] = None /\ timeline[d] = None /\ entities[d] = {}
    /\ insight[d] # None /\ insight[d].status = "ready" =>
         /\ insight[d].payload # None /\ entities[d] # {}
         /\ d \notin raced => timeline[d] = insight[d].payload /\ entities[d] = {timeline[d]}
Processed(d) ==
    insight[d] # None /\ insight[d].status = "processing" => (\E v \in Worker : v \in Generating(d)) \/ d \in broken \cup raced

\* The parts of the invariant of insights, before and after a step.
LEMMA WholeProcessed ==
    /\ InsightInv <=> (\A d \in Document : Whole(d) /\ Processed(d)) /\ Alone /\ \A v \in Worker : KnowsRow(v)
    /\ InsightInv' <=> (\A d \in Document : Whole(d)' /\ Processed(d)') /\ Alone' /\ \A v \in Worker : KnowsRow(v)'
<1>1. \A d : Generating(d) \subseteq Worker /\ Generating(d)' \subseteq Worker
  BY DEF Generating
<1> QED
  BY <1>1 DEF InsightInv, InsightsAreWhole, ReadyIsWhole, ProcessingEnds, Whole, Processed

\* What a step of the generation of a document has to show.
LEMMA OneGenerates ==
    ASSUME Typed, InsightInv, NEW w \in Worker, NEW d \in Document, job[w].doc = d, job'[w].doc = d, docs' = docs,
           job[w].pc \in GenSteps \cup {"begin"}, \A v \in Worker : v # w => job'[v] = job[v],
           \A e \in Document : e # d => insight'[e] = insight[e] /\ timeline'[e] = timeline[e] /\ entities'[e] = entities[e],
           insight[d] # None => insight'[d] # None, raced' \in {raced, raced \cup {d}}, broken' \in {broken, broken \cup {d}},
           \/ insight' = insight /\ entities' = entities /\ job'[w].pc \notin GenSteps
           \/ d \notin raced' => \A v \in Generating(d) : v = w,
           Whole(d)', Processed(d)', KnowsRow(w)'
    PROVE  InsightInv'
<1>1. \A e \in Document : Whole(e)'
  <2> TAKE e \in Document
  <2>1. CASE e = d
    BY <2>1
  <2>2. CASE e # d
    BY <2>2, WholeProcessed DEF Whole
  <2> QED
    BY <2>1, <2>2
<1>2. \A e : e # d => Generating(e)' = Generating(e)
  BY DEF Generating
<1>3. \A e \in Document : Processed(e)'
  <2> TAKE e \in Document
  <2>1. CASE e = d
    BY <2>1
  <2>2. CASE e # d
    BY <1>2, <2>2, WholeProcessed DEF Processed
  <2> QED
    BY <2>1, <2>2
<1>4. Alone'
  BY InGenerating DEF Alone, InsightInv
<1>5. \A v \in Worker : KnowsRow(v)'
  <2> TAKE v \in Worker
  <2>1. CASE v = w
    BY <2>1
  <2>2. CASE v # w
    <3>1. KnowsRow(v) /\ job'[v] = job[v]
      BY <2>2 DEF InsightInv
    <3>2. job[v].pc \in GenSteps => job[v].doc \in Document
      BY DEF Typed, Fits
    <3>3. CASE job[v].pc \notin GenSteps
      BY <3>1, <3>3 DEF KnowsRow, GenSteps
    <3>4. CASE job[v].pc \in GenSteps /\ job[v].doc # d
      BY <3>1, <3>2, <3>4 DEF KnowsRow
    <3>5. CASE job[v].pc \in GenSteps /\ job[v].doc = d
      <4>1. CASE insight' = insight /\ entities' = entities
        BY <3>1, <4>1 DEF KnowsRow
      <4>2. CASE d \in raced'
        BY <3>1, <3>5, <4>2 DEF KnowsRow
      <4> QED
        BY <2>2, <3>5, <4>1, <4>2, InGenerating
    <3> QED
      BY <3>3, <3>4, <3>5
  <2> QED
    BY <2>1, <2>2
<1> QED
  BY <1>1, <1>3, <1>4, <1>5, WholeProcessed

\* The types after a step of Insights.
LEMMA InsideTyped ==
    ASSUME Typed, NEW w \in Worker, Inside(w), Fits(job'[w]),
           insight' \in [Document -> Row \cup {None}], timeline' \in [Document -> Worker \cup {None}],
           entities' \in [Document -> SUBSET Worker], nodes' \subseteq [name : Name, doc : Document \cup {None}],
           edges' \subseteq [by : Worker, of : Worker, doc : Document \cup {None}],
           context' = context, faults' \in 0..MaxFaults, changes' = changes
    PROVE  Typed'
<1>1. /\ docs' = docs /\ reports' = reports /\ traces' = traces /\ cached' = cached /\ held' = held
      /\ job' \in [Worker -> Job] /\ \A v \in Worker : v # w => job'[v] = job[v]
  BY DEF Inside, rows
<1>2. InTypeOK'
  BY <1>1 DEF Typed, TypeOK, InTypeOK, Job
<1>3. \A v \in Worker : Fits(job[v])'
  BY <1>1 DEF Typed, Fits
<1> QED
  BY <1>1, <1>2, <1>3 DEF Typed, TypeOK

\* A generation and its document.
LEMMA Generation ==
    ASSUME Typed, InsightInv, NEW w \in Worker, job[w].pc \in GenSteps \cup {"begin"}, job[w].kind # "build"
    PROVE  \E d \in Document :
           /\ job[w].doc = d /\ job[w] \in Job /\ job[w].kind \in {"auto", "generate", "ask"} /\ Fits(job[w])
           /\ insight \in [Document -> Row \cup {None}] /\ timeline \in [Document -> Worker \cup {None}]
           /\ entities \in [Document -> SUBSET Worker] /\ faults \in 0..MaxFaults
           /\ nodes \subseteq [name : Name, doc : Document \cup {None}]
           /\ edges \subseteq [by : Worker, of : Worker, doc : Document \cup {None}]
           /\ insight[d] \in Row \cup {None} /\ Whole(d) /\ Processed(d) /\ KnowsRow(w)
           /\ job[w].pc \in GenSteps /\ d \notin raced => \A v \in Generating(d) : v = w
<1> DEFINE d == job[w].doc
<1>1. job[w] \in Job /\ Fits(job[w]) /\ d \in Document /\ job[w].kind \in {"auto", "generate", "ask"}
  BY KindOfStep DEF Fits, KindSteps, GenSteps, Job
<1>2. Whole(d) /\ Processed(d) /\ KnowsRow(w) /\ Alone
  BY <1>1, WholeProcessed
<1>3. job[w].pc \in GenSteps /\ d \notin raced => \A v \in Generating(d) : v = w
  <2>1. \A v \in Generating(d) : v \in Worker
    BY DEF Generating
  <2> QED
    BY <1>2, <2>1, InGenerating DEF Alone
<1> QED
  BY <1>1, <1>2, <1>3 DEF Typed, TypeOK, InTypeOK

\* A step that is not at a row keeps what is promised of its document, and
\* the step it reaches knows the row.
LEMMA BeginKeeps ==
    ASSUME Typed, AnswerInv, RowsInv, InsightInv, GraphIsSound, NEW w \in Worker, job[w].kind # "build", Begin(w), UNCHANGED <<rows, held>>
    PROVE  Typed' /\ AnswerInv' /\ RowsInv' /\ InsightInv' /\ GraphIsSound'
<1>1. job[w].pc = "begin"
  BY DEF Begin, At
<1>2. PICK d \in Document :
      /\ job[w].doc = d /\ job[w] \in Job /\ job[w].kind \in {"auto", "generate", "ask"} /\ Fits(job[w])
      /\ insight \in [Document -> Row \cup {None}] /\ timeline \in [Document -> Worker \cup {None}]
      /\ entities \in [Document -> SUBSET Worker] /\ faults \in 0..MaxFaults
      /\ nodes \subseteq [name : Name, doc : Document \cup {None}]
      /\ edges \subseteq [by : Worker, of : Worker, doc : Document \cup {None}]
      /\ insight[d] \in Row \cup {None} /\ Whole(d) /\ Processed(d)
  BY <1>1, Generation
<1> DEFINE row == insight[d]
           over == IF job[w].kind = "auto" THEN "done" ELSE "raised"
           next == IF job[w].kind = "ask" THEN "next" ELSE "done"
<1>3. /\ docs' = docs /\ insight' = insight /\ timeline' = timeline /\ entities' = entities /\ nodes' = nodes /\ edges' = edges
      /\ context' = context /\ faults' = faults /\ changes' = changes /\ broken' = broken
      /\ raced' = IF job'[w].pc \in {"insert", "update"} /\ Generating(d) # {} THEN raced \cup {d} ELSE raced
  BY <1>2 DEF Begin, tables, graph
<1>4. row # None => row.status \in RowStatus
  BY <1>2 DEF Row, RowStatus
<1> HIDE DEF over, next
<1>5. PICK k \in Job : /\ job' = [job EXCEPT ![w] = k]
               /\ \/ d \notin docs /\ k = WithPc(job[w], over)
                  \/ d \in docs /\ row = None /\ k = WithPc(job[w], "insert")
                  \/ d \in docs /\ row # None /\ k = WithPc(job[w], next)
                  \/ d \in docs /\ row # None /\ k = WithPcFound(job[w], "update", row.status)
  <2>1. over \in {"done", "raised"} /\ next \in {"next", "done"}
    BY DEF over, next
  <2>2. \A pc \in {"done", "raised", "next", "insert"} : WithPc(job[w], pc) \in Job
    <3> TAKE pc \in {"done", "raised", "next", "insert"}
    <3>1. pc \in Steps
      BY DEF Steps
    <3> QED
      BY <1>2, <3>1, ZenonT(60) DEF Job, WithPc
  <2>3. row # None => WithPcFound(job[w], "update", row.status) \in Job
    <3>1. "update" \in Steps /\ (row # None => row.status \in Found)
      BY <1>4 DEF Steps, Found
    <3> QED
      BY <1>2, <3>1, ZenonT(60) DEF Job, WithPcFound
  <2>4. d \notin docs => job' = [job EXCEPT ![w] = WithPc(job[w], over)]
    BY <1>2, Zenon DEF Begin, WithPc, over
  <2>5. d \in docs /\ row = None => job' = [job EXCEPT ![w] = WithPc(job[w], "insert")]
    BY <1>2, Zenon DEF Begin, Goes, WithPc
  <2>6. d \in docs /\ row # None =>
          \/ job' = [job EXCEPT ![w] = WithPc(job[w], next)]
          \/ job' = [job EXCEPT ![w] = WithPcFound(job[w], "update", row.status)]
    BY <1>2, Zenon DEF Begin, Goes, Finishes, WithPc, WithPcFound, next
  <2> QED
    BY <2>1, <2>2, <2>3, <2>4, <2>5, <2>6
<1>6. job' \in [Worker -> Job] /\ job'[w] = k /\ \A v \in Worker : v # w => job'[v] = job[v]
  BY <1>5, Turned DEF Typed
<1>7. /\ k.kind = job[w].kind /\ k.flags = job[w].flags /\ k.session = job[w].session /\ k.doc = d /\ k.left = job[w].left
      /\ k.sources = job[w].sources /\ k.shown = job[w].shown /\ k.texts = job[w].texts /\ k.from = job[w].from
      /\ \/ d \notin docs /\ k.pc = over
         \/ d \in docs /\ row = None /\ k.pc = "insert"
         \/ d \in docs /\ row # None /\ k.pc = next
         \/ d \in docs /\ row # None /\ k.pc = "update" /\ k.found = row.status
  <2>1. /\ over \in Steps /\ next \in Steps /\ "insert" \in Steps /\ "update" \in Steps
        /\ (row # None => row.status \in Found)
    BY <1>4 DEF Steps, Found, over, next
  <2>2. ASSUME NEW pc \in Steps, k = WithPc(job[w], pc)
        PROVE  /\ k.kind = job[w].kind /\ k.flags = job[w].flags /\ k.session = job[w].session /\ k.doc = d /\ k.left = job[w].left
               /\ k.sources = job[w].sources /\ k.shown = job[w].shown /\ k.texts = job[w].texts /\ k.from = job[w].from
               /\ k.pc = pc
    BY <1>2, <2>2, WithPcIsJob
  <2>3. CASE d \in docs /\ row # None /\ k = WithPcFound(job[w], "update", row.status)
    <3> HIDE DEF row
    <3>1. row.status \in Found
      BY <2>1, <2>3
    <3> QED
      BY <1>2, <1>5, <2>1, <2>3, <3>1 DEF Job, WithPcFound
  <2> QED
    BY <1>5, <2>1, <2>2, <2>3
<1>8. Inside(w)
  BY <1>1, <1>2, <1>3, <1>6, <1>7 DEF Inside, rows, over, next, GenSteps
<1>9. Fits(k)
  BY <1>2, <1>4, <1>7 DEF Fits, KindSteps, GenSteps, Steps, over, next
<1>10. Typed'
  BY <1>2, <1>3, <1>6, <1>8, <1>9, InsideTyped
<1>11. AnswerInv' /\ RowsInv'
  BY <1>8, InsideKeeps
<1>12. GraphIsSound'
  BY <1>2, <1>3, <1>6, <1>7, GraphStays DEF over, next
<1>13. InsightInv'
  <2>1. Whole(d)'
    BY <1>2, <1>3 DEF Whole
  <2>2. \A v \in Worker : v \in Generating(d) => v \in Generating(d)'
    BY <1>1, <1>6 DEF Generating
  <2>3. Processed(d)'
    BY <1>2, <1>3, <2>2 DEF Processed
  <2>4. KnowsRow(w)'
    BY <1>3, <1>6, <1>7 DEF KnowsRow, GenSteps, over, next
  <2>5. d \notin raced' /\ job'[w].pc \in GenSteps => Generating(d) = {}
    BY <1>3, <1>6, <1>7 DEF GenSteps, over, next
  <2> QED
    BY <1>1, <1>2, <1>3, <1>6, <1>7, <2>1, <2>3, <2>4, <2>5, OneGenerates
<1> QED
  BY <1>10, <1>11, <1>12, <1>13

\* A worker takes a step of its generation, and keeps its question.
Kept(w) ==
    /\ job' \in [Worker -> Job] /\ \A v \in Worker : v # w => job'[v] = job[v]
    /\ LET j == job[w]  k == job'[w] IN
       /\ k.kind = j.kind /\ k.flags = j.flags /\ k.session = j.session /\ k.doc = j.doc /\ k.left = j.left
       /\ k.sources = j.sources /\ k.shown = j.shown /\ k.texts = j.texts /\ k.from = j.from
To(w, pc) == job' = [job EXCEPT ![w] = WithPc(job[w], pc)]
ToStatus(w, pc, status) == job' = [job EXCEPT ![w] = WithPcStatus(job[w], pc, status)]
ToFound(w, pc, found, gone) == job' = [job EXCEPT ![w] = WithPcFoundGone(job[w], pc, found, gone)]

\* What a job holds after a step of a generation.
LEMMA Shifts ==
    ASSUME Typed, NEW w \in Worker, NEW pc \in Steps
    PROVE  /\ To(w, pc) =>
                Kept(w) /\ job'[w].pc = pc /\ job'[w].status = job[w].status /\ job'[w].found = job[w].found /\ job'[w].gone = job[w].gone
           /\ \A status \in RowStatus \cup {None} : ToStatus(w, pc, status) =>
                Kept(w) /\ job'[w].pc = pc /\ job'[w].status = status
           /\ \A found \in Found, gone \in SUBSET Worker : ToFound(w, pc, found, gone) =>
                Kept(w) /\ job'[w].pc = pc /\ job'[w].status = job[w].status /\ job'[w].found = found /\ job'[w].gone = gone
<1>1. job[w] \in Job /\ job \in [Worker -> Job]
  BY DEF Typed
<1>2. ASSUME job' = [job EXCEPT ![w] = WithPc(job[w], pc)]
      PROVE  Kept(w) /\ job'[w].pc = pc /\ job'[w].status = job[w].status /\ job'[w].found = job[w].found /\ job'[w].gone = job[w].gone
  BY <1>1, <1>2, WithPcIsJob DEF Kept
<1>3. ASSUME NEW status \in RowStatus \cup {None}, job' = [job EXCEPT ![w] = WithPcStatus(job[w], pc, status)]
      PROVE  Kept(w) /\ job'[w].pc = pc /\ job'[w].status = status
  BY <1>1, <1>3, WithPcStatusIsJob DEF Kept
<1>4. ASSUME NEW found \in Found, NEW gone \in SUBSET Worker, job' = [job EXCEPT ![w] = WithPcFoundGone(job[w], pc, found, gone)]
      PROVE  Kept(w) /\ job'[w].pc = pc /\ job'[w].status = job[w].status /\ job'[w].found = found /\ job'[w].gone = gone
  <2> DEFINE k == WithPcFoundGone(job[w], pc, found, gone)
  <2>1. k \in Job
    BY <1>1, ZenonT(60) DEF Job, WithPcFoundGone
  <2>2. /\ k.pc = pc /\ k.status = job[w].status /\ k.found = found /\ k.gone = gone
        /\ k.kind = job[w].kind /\ k.flags = job[w].flags /\ k.session = job[w].session /\ k.doc = job[w].doc /\ k.left = job[w].left
        /\ k.sources = job[w].sources /\ k.shown = job[w].shown /\ k.texts = job[w].texts /\ k.from = job[w].from
    BY <1>1 DEF Job, WithPcFoundGone
  <2> HIDE DEF k
  <2>3. job' = [job EXCEPT ![w] = k]
    BY <1>4 DEF k
  <2> QED
    BY <1>1, <2>1, <2>2, <2>3 DEF Kept
<1> QED
  BY <1>2, <1>3, <1>4 DEF To, ToStatus, ToFound

\* What a step of a generation at its row has to show.
LEMMA RowStep ==
    ASSUME Typed, AnswerInv, RowsInv, InsightInv, GraphIsSound, NEW w \in Worker, NEW d \in Document,
           job[w].doc = d, job[w].pc \in GenSteps, Kept(w), UNCHANGED <<rows, held>>,
           UNCHANGED <<docs, timeline, entities, nodes, edges, context, changes, raced, broken>>, faults' \in 0..MaxFaults,
           insight' \in [Document -> Row \cup {None}], \A e \in Document : e # d => insight'[e] = insight[e],
           insight[d] # None => insight'[d] # None, Fits(job'[w]), job'[w].pc \in GenSteps \cup {"raised", "next", "done"},
           job'[w].pc = "next" => job[w].kind = "ask", job'[w].pc = "done" => job[w].kind # "ask",
           Whole(d)', Processed(d)', KnowsRow(w)'
    PROVE  Typed' /\ AnswerInv' /\ RowsInv' /\ InsightInv' /\ GraphIsSound'
<1>1. /\ docs' = docs /\ timeline' = timeline /\ entities' = entities /\ nodes' = nodes /\ edges' = edges /\ context' = context
      /\ changes' = changes /\ raced' = raced /\ broken' = broken
      /\ job' \in [Worker -> Job] /\ (\A v \in Worker : v # w => job'[v] = job[v]) /\ job'[w].doc = d /\ job'[w].kind = job[w].kind
  BY DEF Kept
<1>2. Inside(w)
  BY DEF Inside, Kept, GenSteps
<1>3. job[w].kind # "build"
  BY KindOfStep
<1>4. /\ timeline \in [Document -> Worker \cup {None}] /\ entities \in [Document -> SUBSET Worker]
      /\ nodes \subseteq [name : Name, doc : Document \cup {None}]
      /\ edges \subseteq [by : Worker, of : Worker, doc : Document \cup {None}]
  BY DEF Typed, TypeOK, InTypeOK
<1>5. Typed'
  BY <1>1, <1>2, <1>4, InsideTyped
<1>6. AnswerInv' /\ RowsInv'
  BY <1>2, InsideKeeps
<1>7. GraphIsSound'
  BY <1>1, <1>3, GraphStays
<1>8. d \notin raced => \A v \in Generating(d) : v = w
  BY <1>3, Generation
<1>9. InsightInv'
  BY <1>1, <1>8, OneGenerates
<1> QED
  BY <1>5, <1>6, <1>7, <1>9

\* The insert of the row.
LEMMA InsertKeeps ==
    ASSUME Typed, AnswerInv, RowsInv, InsightInv, GraphIsSound, NEW w \in Worker, Insert(w), UNCHANGED <<rows, held>>
    PROVE  Typed' /\ AnswerInv' /\ RowsInv' /\ InsightInv' /\ GraphIsSound'
<1>1. job[w].pc = "insert" /\ job[w].pc \in GenSteps /\ job[w].kind # "build"
  BY KindOfStep DEF Insert, At, GenSteps
<1>2. PICK d \in Document :
      /\ job[w].doc = d /\ job[w].kind \in {"auto", "generate", "ask"} /\ Fits(job[w])
      /\ insight \in [Document -> Row \cup {None}] /\ faults \in 0..MaxFaults
      /\ Whole(d) /\ Processed(d) /\ KnowsRow(w)
  BY <1>1, Generation
<1>3. /\ UNCHANGED <<docs, timeline, entities, nodes, edges, context, changes, raced, broken>> /\ faults' = faults
  BY DEF Insert, graph
<1>4. "model" \in Steps /\ "raised" \in Steps /\ "processing" \in RowStatus \cup {None}
  BY DEF Steps, RowStatus
<1>5. CASE d \in docs /\ insight[d] = None
  <2>1. /\ insight' = [insight EXCEPT ![d] = [status |-> "processing", payload |-> None]]
        /\ ToStatus(w, "model", "processing")
    BY <1>2, <1>5 DEF Insert, WithPcStatus, ToStatus
  <2>2. Kept(w) /\ job'[w].pc = "model" /\ job'[w].status = "processing"
    BY <1>4, <2>1, Shifts
  <2>3. [status |-> "processing", payload |-> None] \in Row /\ None \notin Row
    BY InsightConstants DEF Row
  <2>4. /\ insight' \in [Document -> Row \cup {None}] /\ (\A e \in Document : e # d => insight'[e] = insight[e])
        /\ insight'[d] = [status |-> "processing", payload |-> None] /\ insight'[d].status = "processing"
    BY <1>2, <2>1, <2>3
  <2>5. Whole(d)'
    BY <1>2, <1>3, <1>5, <2>4 DEF Whole
  <2>6. Processed(d)'
    BY <1>2, <2>2 DEF Processed, Generating, Kept
  <2>7. KnowsRow(w)'
    BY <1>2, <2>2, <2>3, <2>4 DEF KnowsRow, Kept, GenSteps
  <2>8. Fits(job'[w])
    BY <1>2, <2>2 DEF Fits, Kept, KindSteps, GenSteps, Steps, RowStatus
  <2> QED
    BY <1>1, <1>2, <1>3, <1>5, <2>2, <2>4, <2>5, <2>6, <2>7, <2>8, RowStep DEF GenSteps
<1>6. CASE ~ (d \in docs /\ insight[d] = None)
  <2>1. insight' = insight /\ To(w, "raised")
    BY <1>2, <1>6 DEF Insert, WithPc, Raises, Goes, To
  <2>2. Kept(w) /\ job'[w].pc = "raised"
    BY <1>4, <2>1, Shifts
  <2>3. insight[d] = None \/ d \in raced
    BY <1>1, <1>2, <1>6 DEF Whole, KnowsRow
  <2>4. Whole(d)' /\ Processed(d)'
    BY <1>2, <1>3, <2>1, <2>3 DEF Whole, Processed
  <2>5. KnowsRow(w)'
    BY <2>2 DEF KnowsRow, GenSteps
  <2>6. Fits(job'[w])
    BY <1>2, <2>2 DEF Fits, Kept, KindSteps, GenSteps, Steps
  <2> QED
    BY <1>1, <1>2, <1>3, <2>1, <2>2, <2>4, <2>5, <2>6, RowStep
<1> QED
  BY <1>5, <1>6

\* A step at a row that is gone raises, and promises nothing more.
LEMMA RaisesKeeps ==
    ASSUME Typed, AnswerInv, RowsInv, InsightInv, GraphIsSound, NEW w \in Worker, NEW d \in Document,
           job[w].doc = d, job[w].pc \in GenSteps, Raises(w), insight[d] = None,
           UNCHANGED <<rows, held>>, UNCHANGED <<docs, insight, timeline, entities, nodes, edges, context, faults, changes, raced, broken>>
    PROVE  Typed' /\ AnswerInv' /\ RowsInv' /\ InsightInv' /\ GraphIsSound'
<1>1. To(w, "raised") /\ "raised" \in Steps /\ job[w].kind # "build"
  BY KindOfStep DEF Raises, Goes, To, WithPc, Steps
<1>2. Kept(w) /\ job'[w].pc = "raised"
  BY <1>1, Shifts
<1>3. Whole(d) /\ Fits(job[w]) /\ job[w].kind \in {"auto", "generate", "ask"} /\ faults \in 0..MaxFaults
      /\ insight \in [Document -> Row \cup {None}]
  BY <1>1, Generation
<1>4. Whole(d)' /\ Processed(d)' /\ KnowsRow(w)' /\ Fits(job'[w])
  BY <1>2, <1>3 DEF Whole, Processed, KnowsRow, Fits, Kept, KindSteps, GenSteps, Steps
<1> QED
  BY <1>2, <1>3, <1>4, RowStep

\* The update of the row: the column is written when it differs from what the
\* worker has read.
LEMMA UpdateKeeps ==
    ASSUME Typed, AnswerInv, RowsInv, InsightInv, GraphIsSound, NEW w \in Worker, Update(w), UNCHANGED <<rows, held>>
    PROVE  Typed' /\ AnswerInv' /\ RowsInv' /\ InsightInv' /\ GraphIsSound'
<1>1. job[w].pc = "update" /\ job[w].pc \in GenSteps /\ job[w].kind # "build"
  BY KindOfStep DEF Update, At, GenSteps
<1>2. PICK d \in Document :
      /\ job[w].doc = d /\ job[w].kind \in {"auto", "generate", "ask"} /\ Fits(job[w])
      /\ insight \in [Document -> Row \cup {None}] /\ faults \in 0..MaxFaults
      /\ Whole(d) /\ Processed(d) /\ KnowsRow(w)
  BY <1>1, Generation
<1>3. UNCHANGED <<docs, timeline, entities, nodes, edges, context, changes, raced, broken>> /\ faults' = faults
  BY DEF Update, graph
<1>4. CASE insight[d] = None
  BY <1>1, <1>2, <1>3, <1>4, RaisesKeeps DEF Update
<1>5. CASE insight[d] # None
  <2> DEFINE status == insight'[d].status
  <2>1. /\ insight' = IF job[w].found = "processing" THEN insight ELSE [insight EXCEPT ![d].status = "processing"]
        /\ ToStatus(w, "model", status)
    BY <1>2, <1>5 DEF Update, WithPcStatus, ToStatus
  <2>2. insight[d] \in Row /\ None \notin Row
    BY <1>2, <1>5, InsightConstants
  <2>3. [insight[d] EXCEPT !.status = "processing"] \in Row
    BY <2>2 DEF Row
  <2>4. /\ insight' \in [Document -> Row \cup {None}] /\ (\A e \in Document : e # d => insight'[e] = insight[e])
        /\ insight'[d] \in Row /\ insight'[d] # None
        /\ (insight'[d] = insight[d] /\ job[w].found = "processing") \/ (insight'[d].status = "processing")
    BY <1>2, <2>1, <2>2, <2>3 DEF Row
  <2>5. status \in RowStatus /\ (d \notin raced => status = "processing")
    BY <1>1, <1>2, <1>5, <2>4 DEF Row, RowStatus, KnowsRow, GenSteps
  <2> HIDE DEF status
  <2>6. Kept(w) /\ job'[w].pc = "model" /\ job'[w].status = status
    <3>1. "model" \in Steps /\ status \in RowStatus \cup {None}
      BY <2>5 DEF Steps
    <3> QED
      BY <2>1, <3>1, Shifts
  <2>7. Whole(d)'
    BY <1>2, <1>3, <1>5, <2>4 DEF Whole
  <2>8. Processed(d)'
    BY <1>2, <2>6 DEF Processed, Generating, Kept
  <2>9. KnowsRow(w)'
    BY <1>2, <1>3, <2>4, <2>5, <2>6 DEF KnowsRow, Kept, GenSteps
  <2>10. Fits(job'[w])
    BY <1>2, <2>5, <2>6 DEF Fits, Kept, KindSteps, GenSteps, Steps
  <2> QED
    BY <1>1, <1>2, <1>3, <2>4, <2>6, <2>7, <2>8, <2>9, <2>10, RowStep DEF GenSteps
<1> QED
  BY <1>4, <1>5

\* The call of the model.
LEMMA AnalyseKeeps ==
    ASSUME Typed, AnswerInv, RowsInv, InsightInv, GraphIsSound, NEW w \in Worker, Analyse(w), UNCHANGED <<rows, held>>
    PROVE  Typed' /\ AnswerInv' /\ RowsInv' /\ InsightInv' /\ GraphIsSound'
<1>1. job[w].pc = "model" /\ job[w].pc \in GenSteps /\ job[w].kind # "build"
  BY KindOfStep DEF Analyse, At, GenSteps
<1>2. PICK d \in Document :
      /\ job[w].doc = d /\ job[w].kind \in {"auto", "generate", "ask"} /\ Fits(job[w])
      /\ insight \in [Document -> Row \cup {None}]
      /\ Whole(d) /\ Processed(d) /\ KnowsRow(w)
  BY <1>1, Generation
<1>3. UNCHANGED <<docs, insight, timeline, entities, nodes, edges, context, changes, raced, broken>> /\ faults' \in 0..MaxFaults
  BY FaultsBound DEF Analyse, tables, graph
<1>4. PICK pc \in {"persist", "fail"} : To(w, pc)
  BY DEF Analyse, Goes, To, WithPc
<1>5. Kept(w) /\ job'[w].pc = pc /\ job'[w].status = job[w].status
  BY <1>4, "persist" \in Steps, "fail" \in Steps, Shifts DEF Steps
<1>6. Whole(d)' /\ Processed(d)' /\ KnowsRow(w)' /\ Fits(job'[w])
  <2>1. Whole(d)'
    BY <1>2, <1>3 DEF Whole
  <2>2. Processed(d)'
    BY <1>2, <1>5 DEF Processed, Generating, Kept
  <2>3. KnowsRow(w)'
    BY <1>1, <1>2, <1>3, <1>5 DEF KnowsRow, Kept, GenSteps
  <2>4. Fits(job'[w])
    BY <1>1, <1>2, <1>5 DEF Fits, Kept, KindSteps, GenSteps, Steps
  <2> QED
    BY <2>1, <2>2, <2>3, <2>4
<1> QED
  BY <1>1, <1>2, <1>3, <1>5, <1>6, RowStep DEF GenSteps

\* The failure is written, unless the row is gone.
LEMMA FailKeeps ==
    ASSUME Typed, AnswerInv, RowsInv, InsightInv, GraphIsSound, NEW w \in Worker, Fail(w), UNCHANGED <<rows, held>>
    PROVE  Typed' /\ AnswerInv' /\ RowsInv' /\ InsightInv' /\ GraphIsSound'
<1>1. job[w].pc = "fail" /\ job[w].pc \in GenSteps /\ job[w].kind # "build"
  BY KindOfStep DEF Fail, At, GenSteps
<1>2. PICK d \in Document :
      /\ job[w].doc = d /\ job[w].kind \in {"auto", "generate", "ask"} /\ Fits(job[w])
      /\ insight \in [Document -> Row \cup {None}] /\ faults \in 0..MaxFaults
      /\ Whole(d) /\ Processed(d) /\ KnowsRow(w)
  BY <1>1, Generation
<1>3. UNCHANGED <<docs, timeline, entities, nodes, edges, context, changes, raced, broken>> /\ faults' = faults
  BY DEF Fail, graph
<1>4. CASE insight[d] = None
  BY <1>1, <1>2, <1>3, <1>4, RaisesKeeps DEF Fail
<1>5. CASE insight[d] # None
  <2> DEFINE pc == IF job[w].kind = "ask" THEN "next" ELSE "done"
             status == IF job[w].status = "failed" THEN insight[d].status ELSE "failed"
  <2>1. insight' = [insight EXCEPT ![d].status = status] /\ To(w, pc)
    BY <1>2, <1>5 DEF Fail, Written, Finishes, Goes, To, WithPc
  <2>2. insight[d] \in Row /\ None \notin Row
    BY <1>2, <1>5, InsightConstants
  <2>3. status \in RowStatus /\ (d \notin raced => status = "failed") /\ (status = insight[d].status \/ status = "failed")
    BY <1>1, <1>2, <1>5, <2>2 DEF Row, RowStatus, KnowsRow, GenSteps
  <2>4. pc \in {"next", "done"} /\ pc \in Steps /\ (pc = "next" <=> job[w].kind = "ask")
    BY DEF Steps
  <2> HIDE DEF pc, status
  <2>5. [insight[d] EXCEPT !.status = status] \in Row
    BY <2>2, <2>3 DEF Row, RowStatus
  <2>6. /\ insight' \in [Document -> Row \cup {None}] /\ (\A e \in Document : e # d => insight'[e] = insight[e])
        /\ insight'[d] \in Row /\ insight'[d] # None /\ insight'[d].status = status /\ insight'[d].payload = insight[d].payload
    BY <1>2, <2>1, <2>2, <2>5 DEF Row
  <2>7. Kept(w) /\ job'[w].pc = pc
    BY <2>1, <2>4, Shifts
  <2>8. Whole(d)'
    BY <1>2, <1>3, <1>5, <2>3, <2>6 DEF Whole
  <2>9. Processed(d)' /\ KnowsRow(w)'
    BY <1>2, <1>3, <2>3, <2>4, <2>6, <2>7 DEF Processed, KnowsRow, Kept, GenSteps
  <2>10. Fits(job'[w])
    BY <1>2, <2>4, <2>7 DEF Fits, Kept, KindSteps, GenSteps, Steps
  <2> QED
    BY <1>1, <1>2, <1>3, <2>4, <2>6, <2>7, <2>8, <2>9, <2>10, RowStep
<1> QED
  BY <1>4, <1>5

\* The old entities are deleted.
LEMMA PersistKeeps ==
    ASSUME Typed, AnswerInv, RowsInv, InsightInv, GraphIsSound, NEW w \in Worker, Persist(w), UNCHANGED <<rows, held>>
    PROVE  Typed' /\ AnswerInv' /\ RowsInv' /\ InsightInv' /\ GraphIsSound'
<1>1. job[w].pc = "persist" /\ job[w].pc \in GenSteps /\ job[w].kind # "build"
  BY KindOfStep DEF Persist, At, GenSteps
<1>2. PICK d \in Document :
      /\ job[w].doc = d /\ job[w].kind \in {"auto", "generate", "ask"} /\ Fits(job[w])
      /\ insight \in [Document -> Row \cup {None}] /\ timeline \in [Document -> Worker \cup {None}]
      /\ entities \in [Document -> SUBSET Worker] /\ faults \in 0..MaxFaults
      /\ Whole(d) /\ Processed(d) /\ KnowsRow(w)
  BY <1>1, Generation
<1>3. UNCHANGED <<docs, insight, timeline, entities, nodes, edges, context, changes, raced, broken>> /\ faults' = faults
  BY DEF Persist, tables, graph
<1>4. ToFound(w, "commit", timeline[d], entities[d])
  BY <1>2, Zenon DEF Persist, ToFound, WithPcFoundGone, Deleted
<1>5. Kept(w) /\ job'[w].pc = "commit" /\ job'[w].status = job[w].status /\ job'[w].found = timeline[d] /\ job'[w].gone = entities[d]
  <2>1. "commit" \in Steps /\ timeline[d] \in Found /\ entities[d] \in SUBSET Worker
    BY <1>2 DEF Steps, Found
  <2> QED
    BY <1>4, <2>1, Shifts
<1>6. Whole(d)'
  BY <1>2, <1>3 DEF Whole
<1>7. Processed(d)'
  BY <1>2, <1>5 DEF Processed, Generating, Kept
<1>8. KnowsRow(w)'
  BY <1>1, <1>2, <1>3, <1>5 DEF KnowsRow, Kept, GenSteps
<1>9. Fits(job'[w])
  BY <1>1, <1>2, <1>5 DEF Fits, Kept, KindSteps, GenSteps, Steps
<1> QED
  BY <1>1, <1>2, <1>3, <1>5, <1>6, <1>7, <1>8, <1>9, RowStep DEF GenSteps

\* The nodes that are added are of the rows, one for a name that was not there;
\* no name is lost and every name of the rows is known.
LEMMA AddedNodes ==
    ASSUME NEW rs, rs \subseteq [doc : Document, gen : Worker], NEW ns, ns \subseteq [name : Name, doc : Document \cup {None}],
           \A m, n \in ns : m.name = n.name => m = n
    PROVE  /\ Added(ns, rs) \subseteq [name : Name, doc : Document \cup {None}]
           /\ \A m, n \in Added(ns, rs) : m.name = n.name => m = n
           /\ \A n \in Added(ns, rs) : n \in ns \/ (\E r \in rs : n.doc = r.doc /\ n.name \in Names[r.doc])
           /\ Known(ns) \subseteq Known(Added(ns, rs)) /\ Known(NodesOf(rs)) \subseteq Known(Added(ns, rs))
<1> DEFINE new == {n \in NodesOf(rs) : n.name \notin Known(ns)}
           pick(x) == CHOOSE n \in new : n.name = x
<1>1. Names \in [Document -> SUBSET Name]
  BY InsightConstants
<1>2. \A n \in NodesOf(rs) : \E r \in rs : n.doc = r.doc /\ n.name \in Names[r.doc] /\ n \in [name : Name, doc : Document]
  BY <1>1 DEF NodesOf
<1>3. \A x \in Known(new) : pick(x) \in new /\ pick(x).name = x
  BY DEF Known
<1>4. Added(ns, rs) = ns \cup {pick(x) : x \in Known(new)}
  BY DEF Added
<1>11. \A n \in new : n \in NodesOf(rs) /\ n.name \notin Known(ns)
  OBVIOUS
<1>12. \A n \in NodesOf(rs) : n.name \in Known(ns) \/ n.name \in Known(new)
  BY DEF Known
<1> HIDE DEF pick, new
<1>5. \A n \in Added(ns, rs) : n \in ns \/ (n \in new /\ n = pick(n.name) /\ n.name \notin Known(ns))
  <2> TAKE n \in Added(ns, rs)
  <2>1. CASE n \in ns
    BY <2>1
  <2>2. CASE n \notin ns
    <3>1. PICK x \in Known(new) : n = pick(x)
      BY <1>4, <2>2
    <3>2. n \in new /\ n.name = x
      BY <1>3, <3>1
    <3> QED
      BY <1>11, <3>1, <3>2
  <2> QED
    BY <2>1, <2>2
<1>6. \A n \in Added(ns, rs) : n \in ns \/ (\E r \in rs : n.doc = r.doc /\ n.name \in Names[r.doc])
  BY <1>2, <1>5, <1>11
<1>7. Added(ns, rs) \subseteq [name : Name, doc : Document \cup {None}]
  BY <1>2, <1>5, <1>11
<1>8. \A m, n \in Added(ns, rs) : m.name = n.name => m = n
  BY <1>5 DEF Known
<1>9. Known(ns) \subseteq Known(Added(ns, rs))
  BY <1>4 DEF Known
<1>10. Known(NodesOf(rs)) \subseteq Known(Added(ns, rs))
  <2>2. \A x \in Known(new) : x \in Known(Added(ns, rs))
    BY <1>3, <1>4 DEF Known
  <2> QED
    BY <1>9, <1>12, <2>2 DEF Known
<1> QED
  BY <1>6, <1>7, <1>8, <1>9, <1>10

\* Adding the nodes of rows of documents that are there keeps the graph sound.
LEMMA GraphGrows ==
    ASSUME Typed, GraphIsSound, NEW w \in Worker, docs' = docs, context' = context,
           \A v \in Worker : v # w => job'[v] = job[v],
           NEW rs, rs \subseteq [doc : Document, gen : Worker], \A r \in rs : r.doc \in docs, nodes' = Added(nodes, rs),
           job'[w].kind = "build" /\ job'[w].pc = "done" => job'[w].seen = rs
    PROVE  GraphIsSound' /\ nodes' \subseteq [name : Name, doc : Document \cup {None}]
<1>1. nodes \subseteq [name : Name, doc : Document \cup {None}] /\ \A m, n \in nodes : m.name = n.name => m = n
  BY DEF Typed, TypeOK, InTypeOK, GraphIsSound
<1>2. /\ nodes' \subseteq [name : Name, doc : Document \cup {None}]
      /\ \A m, n \in nodes' : m.name = n.name => m = n
      /\ \A n \in nodes' : n \in nodes \/ (\E r \in rs : n.doc = r.doc /\ n.name \in Names[r.doc])
      /\ Known(nodes) \subseteq Known(nodes') /\ Known(NodesOf(rs)) \subseteq Known(nodes')
  BY <1>1, AddedNodes
<1>3. \A n \in nodes' : n.doc # None => n.name \in Names[n.doc] /\ n.doc \in docs'
  BY <1>2 DEF GraphIsSound
<1>4. context' \subseteq Known(nodes')
  BY <1>2 DEF GraphIsSound
<1>5. \A v \in Worker : job'[v].kind = "build" /\ job'[v].pc = "done" => Known(NodesOf(job'[v].seen)) \subseteq Known(nodes')
  BY <1>2 DEF GraphIsSound, At
<1> QED
  BY <1>2, <1>3, <1>4, <1>5 DEF GraphIsSound, At, Known, NodesOf

\* The edges of rows are of their documents.
LEMMA EdgesAre ==
    ASSUME NEW w \in Worker, NEW rs, rs \subseteq [doc : Document, gen : Worker]
    PROVE  EdgesOf(w, rs) \subseteq [by : Worker, of : Worker, doc : Document \cup {None}]
  BY DEF EdgesOf

\* The rows that are visible.
LEMMA VisibleAre ==
    ASSUME Typed, NEW ds, ds \subseteq docs
    PROVE  Visible(ds) \subseteq [doc : Document, gen : Worker] /\ \A r \in Visible(ds) : r.doc \in ds
  BY DEF Visible, Typed, TypeOK, InTypeOK

\* The commit of a generation.
LEMMA CommitGenerationKeeps ==
    ASSUME Typed, AnswerInv, RowsInv, InsightInv, GraphIsSound, NEW w \in Worker, CommitGeneration(w), UNCHANGED <<rows, held>>
    PROVE  Typed' /\ AnswerInv' /\ RowsInv' /\ InsightInv' /\ GraphIsSound'
<1>1. job[w].pc = "commit" /\ job[w].pc \in GenSteps /\ job[w].kind # "build"
  BY KindOfStep DEF CommitGeneration, At, GenSteps
<1>2. PICK d \in Document :
      /\ job[w].doc = d /\ job[w].kind \in {"auto", "generate", "ask"} /\ Fits(job[w])
      /\ insight \in [Document -> Row \cup {None}] /\ timeline \in [Document -> Worker \cup {None}]
      /\ entities \in [Document -> SUBSET Worker] /\ faults \in 0..MaxFaults
      /\ nodes \subseteq [name : Name, doc : Document \cup {None}]
      /\ edges \subseteq [by : Worker, of : Worker, doc : Document \cup {None}]
      /\ insight[d] \in Row \cup {None} /\ Whole(d) /\ Processed(d) /\ KnowsRow(w)
      /\ (d \notin raced => \A v \in Generating(d) : v = w)
  BY <1>1, Generation
<1>3. UNCHANGED <<docs, context, changes, raced>> /\ faults' = faults
  BY DEF CommitGeneration
<1> DEFINE fails == d \notin docs \/ (job[w].found = None /\ timeline[d] # None)
           rs == IF KnowledgeGraph THEN Others(w) ELSE {}
           pc == IF job[w].kind = "ask" THEN "next" ELSE "done"
<1>4. CASE fails
  <2>1. To(w, "raised") /\ broken' = broken \cup {d} /\ UNCHANGED <<insight, timeline, entities, nodes, edges>>
    BY <1>2, <1>4 DEF CommitGeneration, Raises, Goes, Breaks, To, WithPc, tables, graph
  <2>2. Kept(w) /\ job'[w].pc = "raised"
    BY <2>1, "raised" \in Steps, Shifts DEF Steps
  <2>3. Inside(w)
    BY <1>1, <1>3, <2>2 DEF Inside, Kept, GenSteps
  <2>4. Fits(job'[w])
    BY <1>2, <2>2 DEF Fits, Kept, KindSteps, GenSteps, Steps
  <2>5. Typed'
    BY <1>2, <1>3, <2>1, <2>3, <2>4, InsideTyped
  <2>6. GraphIsSound'
    BY <1>1, <1>3, <2>1, <2>2, GraphStays DEF Kept
  <2>7. Whole(d)' /\ Processed(d)' /\ KnowsRow(w)'
    BY <1>2, <1>3, <2>1, <2>2 DEF Whole, Processed, KnowsRow, GenSteps
  <2>8. InsightInv'
    BY <1>1, <1>2, <1>3, <2>1, <2>2, <2>7, OneGenerates DEF Kept
  <2> QED
    BY <2>3, <2>5, <2>6, <2>8, InsideKeeps
<1>5. CASE ~ fails
  <2> DEFINE status == IF job[w].status = "ready" THEN insight[d].status ELSE "ready"
  <2>1. /\ insight' = [insight EXCEPT ![d] = [status |-> status, payload |-> w]]
        /\ timeline' = [timeline EXCEPT ![d] = w]
        /\ entities' = [entities EXCEPT ![d] = (entities[d] \ job[w].gone) \cup {w}]
        /\ nodes' = Added(nodes, rs) /\ edges' = edges \cup EdgesOf(w, rs)
        /\ To(w, pc) /\ broken' = broken
    BY <1>2, <1>5 DEF CommitGeneration, Finishes, Goes, To, WithPc, Written
  <2>2. d \in docs /\ insight[d] # None /\ insight[d] \in Row /\ None \notin Row /\ None \notin Worker
    BY <1>1, <1>2, <1>5, InsightConstants DEF KnowsRow
  <2>3. status \in RowStatus /\ (d \notin raced => status = "ready")
    BY <1>1, <1>2, <2>2 DEF Row, RowStatus, KnowsRow, GenSteps
  <2>4. pc \in {"next", "done"} /\ pc \in Steps /\ (pc = "next" <=> job[w].kind = "ask")
    BY DEF Steps
  <2>5. rs \subseteq [doc : Document, gen : Worker] /\ \A r \in rs : r.doc \in docs
    <3>1. Others(w) \subseteq Visible({d})
      BY <1>2 DEF Others
    <3> QED
      BY <2>2, <3>1, VisibleAre
  <2> HIDE DEF pc, status, rs, fails
  <2>6. [status |-> status, payload |-> w] \in Row
    BY <2>3 DEF Row, RowStatus
  <2>7. /\ insight' \in [Document -> Row \cup {None}] /\ timeline' \in [Document -> Worker \cup {None}]
        /\ entities' \in [Document -> SUBSET Worker]
        /\ \A e \in Document : e # d => insight'[e] = insight[e] /\ timeline'[e] = timeline[e] /\ entities'[e] = entities[e]
        /\ insight'[d] = [status |-> status, payload |-> w] /\ insight'[d] # None /\ insight'[d].status = status /\ insight'[d].payload = w
        /\ timeline'[d] = w /\ entities'[d] = (entities[d] \ job[w].gone) \cup {w}
    BY <1>2, <2>1, <2>2, <2>6
  <2>8. Kept(w) /\ job'[w].pc = pc
    BY <2>1, <2>4, Shifts
  <2>9. Inside(w)
    BY <1>1, <1>3, <2>4, <2>8 DEF Inside, Kept, GenSteps
  <2>10. Fits(job'[w])
    BY <1>2, <2>4, <2>8 DEF Fits, Kept, KindSteps, GenSteps, Steps
  <2>11. GraphIsSound' /\ nodes' \subseteq [name : Name, doc : Document \cup {None}]
    BY <1>1, <1>3, <2>1, <2>5, <2>8, GraphGrows DEF Kept
  <2>12. edges' \subseteq [by : Worker, of : Worker, doc : Document \cup {None}]
    BY <1>2, <2>1, <2>5, EdgesAre
  <2>13. Typed'
    BY <1>2, <1>3, <2>7, <2>9, <2>10, <2>11, <2>12, InsideTyped
  <2>14. d \notin raced => entities'[d] = {w}
    BY <1>1, <1>2, <2>2, <2>7 DEF KnowsRow, GenSteps
  <2>15. Whole(d)'
    BY <1>2, <1>3, <2>2, <2>7, <2>14 DEF Whole
  <2>16. Processed(d)' /\ KnowsRow(w)'
    BY <1>3, <2>3, <2>4, <2>7, <2>8 DEF Processed, KnowsRow, GenSteps
  <2>17. InsightInv'
    BY <1>1, <1>2, <1>3, <2>1, <2>7, <2>8, <2>15, <2>16, OneGenerates DEF Kept
  <2> QED
    BY <2>9, <2>11, <2>13, <2>17, InsideKeeps
<1> QED
  BY <1>4, <1>5

\* A build reads what is there.
LEMMA BuildReadKeeps ==
    ASSUME Typed, AnswerInv, RowsInv, InsightInv, GraphIsSound, NEW w \in Worker, BuildRead(w), UNCHANGED <<rows, held>>
    PROVE  Typed' /\ AnswerInv' /\ RowsInv' /\ InsightInv' /\ GraphIsSound'
<1> DEFINE seen == Visible(docs)
           found == Known(nodes)
           k == WithPcSeenFound(job[w], "build", seen, found)
<1>1. job[w].pc = "begin" /\ job[w].kind = "build" /\ job[w] \in Job /\ Fits(job[w]) /\ docs \subseteq Document
  BY KindOfStep DEF BuildRead, At
<1>2. /\ UNCHANGED <<docs, insight, timeline, entities, nodes, edges, context, changes, raced, broken>> /\ faults' = faults
      /\ job' = [job EXCEPT ![w] = k]
  BY DEF BuildRead, tables, graph, WithPcSeenFound
<1>3. seen \in SUBSET [doc : Document, gen : Worker] /\ found \in SUBSET Name /\ found \in Found /\ "build" \in Steps
  BY VisibleAre, NamesOfGraph DEF Found, Steps
<1> HIDE DEF seen, found
<1>4. k \in Job
  BY <1>1, <1>3, ZenonT(60) DEF Job, WithPcSeenFound
<1>5. /\ k.pc = "build" /\ k.found = found
      /\ k.kind = "build" /\ k.flags = job[w].flags /\ k.session = job[w].session /\ k.doc = job[w].doc /\ k.left = job[w].left
      /\ k.sources = job[w].sources /\ k.shown = job[w].shown /\ k.texts = job[w].texts /\ k.from = job[w].from
  BY <1>1, <1>3 DEF Job, WithPcSeenFound
<1> HIDE DEF k
<1>6. job' \in [Worker -> Job] /\ job'[w] = k /\ \A v \in Worker : v # w => job'[v] = job[v]
  BY <1>2, <1>4, Turned DEF Typed
<1>7. Inside(w)
  BY <1>1, <1>2, <1>5, <1>6 DEF Inside
<1>8. Fits(job'[w])
  BY <1>3, <1>5, <1>6 DEF Fits, KindSteps, GenSteps
<1>9. Typed'
  BY <1>2, <1>7, <1>8, InsideTyped DEF Typed, TypeOK, InTypeOK
<1>10. Outside(w)
  BY <1>1, <1>2, <1>5, <1>6 DEF Outside, GenSteps
<1>11. GraphIsSound'
  BY <1>2, <1>5, <1>6, GraphStays
<1> QED
  BY <1>7, <1>9, <1>10, <1>11, InsideKeeps, OutsideInsights

\* A build commits, or raises: then the graph is as it was.
LEMMA BuildCommitKeeps ==
    ASSUME Typed, AnswerInv, RowsInv, InsightInv, GraphIsSound, NEW w \in Worker, BuildCommit(w), UNCHANGED <<rows, held>>
    PROVE  Typed' /\ AnswerInv' /\ RowsInv' /\ InsightInv' /\ GraphIsSound'
<1> DEFINE rs == job[w].seen
           fails == (\E r \in rs : r.doc \notin docs)
                    \/ Known({n \in NodesOf(rs) : n.name \notin job[w].found}) \cap Known(nodes) # {}
           pc == IF fails THEN "raised" ELSE "done"
<1>1. job[w].pc = "build" /\ job[w].kind = "build" /\ job[w] \in Job /\ Fits(job[w])
  BY KindOfStep DEF BuildCommit, At
<1>2. /\ UNCHANGED <<docs, insight, timeline, entities, context, changes, raced, broken>> /\ faults' = faults
      /\ To(w, pc)
      /\ fails => nodes' = nodes /\ edges' = edges
      /\ ~ fails => nodes' = Added(nodes, rs) /\ edges' = edges \cup EdgesOf(w, rs)
  BY DEF BuildCommit, tables, graph, Raises, Goes, To, WithPc
<1>3. rs \subseteq [doc : Document, gen : Worker] /\ (~ fails => \A r \in rs : r.doc \in docs) /\ pc \in {"raised", "done"} /\ pc \in Steps
      /\ (pc = "done" => ~ fails)
  BY <1>1 DEF Job, Steps
<1> HIDE DEF fails, pc
<1>4. Kept(w) /\ job'[w].pc = pc /\ (\A v \in Worker : v # w => job'[v] = job[v]) /\ job'[w].kind = "build"
  BY <1>1, <1>2, <1>3, Shifts DEF Kept
<1>5. job'[w].seen = rs
  BY <1>1, <1>2, <1>3, WithPcIsJob DEF To, Typed
<1>6. Inside(w)
  BY <1>1, <1>2, <1>3, <1>4 DEF Inside, Kept, GenSteps
<1>7. Fits(job'[w])
  BY <1>3, <1>4 DEF Fits, KindSteps, GenSteps
<1>8. Outside(w)
  BY <1>1, <1>2, <1>3, <1>4 DEF Outside, GenSteps
<1>9. /\ insight \in [Document -> Row \cup {None}] /\ timeline \in [Document -> Worker \cup {None}]
      /\ entities \in [Document -> SUBSET Worker] /\ faults \in 0..MaxFaults
      /\ nodes \subseteq [name : Name, doc : Document \cup {None}]
      /\ edges \subseteq [by : Worker, of : Worker, doc : Document \cup {None}]
  BY DEF Typed, TypeOK, InTypeOK
<1>10. GraphIsSound' /\ nodes' \subseteq [name : Name, doc : Document \cup {None}]
       /\ edges' \subseteq [by : Worker, of : Worker, doc : Document \cup {None}]
  <2> HIDE DEF rs
  <2>1. CASE fails
    BY <1>2, <1>3, <1>4, <1>9, <2>1, GraphStays
  <2>2. CASE ~ fails
    <3>1. GraphIsSound' /\ nodes' \subseteq [name : Name, doc : Document \cup {None}]
      BY <1>2, <1>3, <1>4, <1>5, <2>2, GraphGrows
    <3> QED
      BY <1>2, <1>3, <1>9, <2>2, <3>1, EdgesAre
  <2> QED
    BY <2>1, <2>2
<1>11. Typed'
  BY <1>2, <1>6, <1>7, <1>9, <1>10, InsideTyped
<1> QED
  BY <1>6, <1>8, <1>10, <1>11, InsideKeeps, OutsideInsights

\* A worker dies.
LEMMA DieKeeps ==
    ASSUME Typed, AnswerInv, RowsInv, InsightInv, GraphIsSound, NEW w \in Worker, Die(w), UNCHANGED <<rows, held>>
    PROVE  Typed' /\ AnswerInv' /\ RowsInv' /\ InsightInv' /\ GraphIsSound'
<1>1. job[w].pc \notin Ended /\ job[w] \in Job /\ Fits(job[w]) /\ To(w, "dead") /\ "dead" \in Steps
      /\ UNCHANGED <<docs, insight, timeline, entities, nodes, edges, context, changes, raced>> /\ faults' \in 0..MaxFaults
  BY KindOfStep, FaultsBound DEF Die, tables, graph, Goes, To, WithPc, Steps
<1>2. Kept(w) /\ job'[w].pc = "dead" /\ \A v \in Worker : v # w => job'[v] = job[v]
  BY <1>1, Shifts DEF Kept
<1>3. Inside(w)
  BY <1>1, <1>2 DEF Inside, Kept
<1>4. Fits(job'[w])
  <2>1. job[w].kind \in {"auto", "generate", "build", "deep", "ask"}
    BY <1>1 DEF Job
  <2> QED
    BY <1>1, <1>2, <2>1 DEF Fits, Kept, KindSteps, GenSteps, Steps
<1>5. Typed'
  BY <1>1, <1>3, <1>4, InsideTyped DEF Typed, TypeOK, InTypeOK
<1>6. GraphIsSound'
  BY <1>1, <1>2, GraphStays
<1>7. InsightInv'
  <2>1. CASE job[w].pc \notin GenSteps
    <3>1. broken' = broken
      BY <2>1 DEF Die, Generating, GenSteps
    <3> QED
      BY <1>1, <1>2, <2>1, <3>1, OutsideInsights DEF Outside, GenSteps
  <2>2. CASE job[w].pc \in GenSteps
    <3>1. job[w].kind # "build"
      BY <2>2, KindOfStep
    <3>2. PICK d \in Document : job[w].doc = d /\ Whole(d) /\ (d \notin raced => \A v \in Generating(d) : v = w)
      BY <2>2, <3>1, Generation
    <3>3. broken' = broken \cup {d}
      BY <2>2, <3>2, InGenerating DEF Die
    <3>4. Whole(d)' /\ Processed(d)' /\ KnowsRow(w)'
      BY <1>1, <1>2, <3>2, <3>3 DEF Whole, Processed, KnowsRow, GenSteps
    <3> QED
      BY <1>1, <1>2, <2>2, <3>2, <3>3, <3>4, OneGenerates DEF Kept
  <2> QED
    BY <2>1, <2>2
<1> QED
  BY <1>3, <1>5, <1>6, <1>7, InsideKeeps

-----------------------------------------------------------------------------
(* The theorems *)

\* The jobs, the rows and the answers stay when documents go or a cache is
\* dropped.
LEMMA QuestionsStay ==
    ASSUME AnswerInv, RowsInv, job' = job, held' = held, reports' = reports, traces' = traces, cached' \in {cached, None}, docs' \subseteq docs
    PROVE  AnswerInv' /\ RowsInv'
<1>2. CacheIsKept'
  BY DEF AnswerInv, CacheIsKept
<1>3. \A v \in Worker : KnowsDocuments(v)' /\ Cites(v)' /\ StaysInDocuments(v)'
  <2> TAKE v \in Worker
  <2>1. KnowsDocuments(v) /\ Cites(v) /\ StaysInDocuments(v)
    BY DEF AnswerInv
  <2>2. OfSession(job[v].session)' \subseteq OfSession(job[v].session)
    BY DEF OfSession
  <2>3. KnowsDocuments(v)'
    BY <2>1, <2>2 DEF KnowsDocuments, Analyses
  <2>4. Cites(v)'
    BY <2>1 DEF Cites
  <2>5. StaysInDocuments(v)'
    BY <2>1 DEF StaysInDocuments, NoEvidence
  <2> QED
    BY <2>3, <2>4, <2>5
<1>4. RowsInv'
  BY DEF RowsInv, RowsEnd, At
<1> QED
  BY <1>2, <1>3, <1>4 DEF AnswerInv

\* A deletion with its cascades keeps the invariant.
LEMMA DeleteDocumentKeeps ==
    ASSUME ResearchInv, NEW d \in Document, DeleteDocument(d), UNCHANGED <<rows, held>>
    PROVE  ResearchInv'
<1>1. /\ docs' = docs \ {d} /\ d \in docs /\ changes' \in 0..MaxChanges
      /\ insight' = [insight EXCEPT ![d] = None] /\ timeline' = [timeline EXCEPT ![d] = None] /\ entities' = [entities EXCEPT ![d] = {}]
      /\ nodes' = {IF n.doc = d THEN [n EXCEPT !.doc = None] ELSE n : n \in nodes}
      /\ edges' = {IF e.doc = d THEN [e EXCEPT !.doc = None] ELSE e : e \in edges}
      /\ job' = job /\ held' = held /\ reports' = reports /\ traces' = traces /\ cached' = cached
      /\ context' = context /\ faults' = faults /\ raced' = raced /\ broken' = broken
  BY InsightConstants DEF DeleteDocument, Cascades, Change, rows, ResearchInv, Typed, TypeOK, InTypeOK
<1>2. Typed /\ AnswerInv /\ RowsInv /\ InsightInv /\ GraphIsSound
  BY DEF ResearchInv
<1>3. /\ docs \subseteq Document
      /\ insight \in [Document -> Row \cup {None}] /\ timeline \in [Document -> Worker \cup {None}]
      /\ entities \in [Document -> SUBSET Worker]
      /\ nodes \subseteq [name : Name, doc : Document \cup {None}]
      /\ edges \subseteq [by : Worker, of : Worker, doc : Document \cup {None}]
  BY <1>2 DEF Typed, TypeOK, InTypeOK
<1>4. AnswerInv' /\ RowsInv'
  BY <1>1, <1>2, QuestionsStay
<1>5. /\ insight' \in [Document -> Row \cup {None}] /\ timeline' \in [Document -> Worker \cup {None}]
      /\ entities' \in [Document -> SUBSET Worker]
      /\ insight'[d] = None /\ timeline'[d] = None /\ entities'[d] = {}
      /\ \A e \in Document : e # d => insight'[e] = insight[e] /\ timeline'[e] = timeline[e] /\ entities'[e] = entities[e]
  BY <1>1, <1>3
<1>6. \A n \in nodes' : n \in [name : Name, doc : Document \cup {None}]
        /\ \E m \in nodes : n.name = m.name /\ n = IF m.doc = d THEN [m EXCEPT !.doc = None] ELSE m
  BY <1>1, <1>3
<1>7. edges' \subseteq [by : Worker, of : Worker, doc : Document \cup {None}]
  BY <1>1, <1>3
<1>8. InTypeOK'
  BY <1>1, <1>2, <1>3, <1>5, <1>6, <1>7 DEF Typed, TypeOK, InTypeOK
<1>9. Typed'
  BY <1>1, <1>2, <1>5, <1>8 DEF Typed, TypeOK, Fits
<1>10. GraphIsSound'
  <2>1. \A m, n \in nodes' : m.name = n.name => m = n
    BY <1>2, <1>6 DEF GraphIsSound
  <2>2. \A n \in nodes' : n.doc # None => n \in nodes /\ n.doc # d
    <3> TAKE n \in nodes'
    <3>1. PICK m \in nodes : n = IF m.doc = d THEN [m EXCEPT !.doc = None] ELSE m
      BY <1>6
    <3>2. m \in [name : Name, doc : Document \cup {None}]
      BY <1>3
    <3> QED
      BY <3>1, <3>2
  <2>3. \A n \in nodes' : n.doc # None => n.name \in Names[n.doc] /\ n.doc \in docs'
    BY <1>1, <1>2, <2>2 DEF GraphIsSound
  <2>4. \A n \in nodes : \E m \in nodes' : m.name = n.name
    <3> TAKE n \in nodes
    <3>1. n \in [name : Name, doc : Document \cup {None}]
      BY <1>3
    <3>2. (IF n.doc = d THEN [n EXCEPT !.doc = None] ELSE n) \in nodes'
      BY <1>1
    <3> QED
      BY <3>1, <3>2
  <2>5. Known(nodes) \subseteq Known(nodes')
    BY <2>4 DEF Known
  <2>6. context' \subseteq Known(nodes')
    BY <1>1, <1>2, <2>5 DEF GraphIsSound
  <2>7. \A w \in Worker : job'[w].kind = "build" /\ job'[w].pc = "done" => Known(NodesOf(job'[w].seen)) \subseteq Known(nodes')
    BY <1>1, <1>2, <2>5 DEF GraphIsSound, At
  <2> QED
    BY <2>1, <2>3, <2>6, <2>7 DEF GraphIsSound, At, Known, NodesOf
<1>11. InsightInv'
  <2>1. \A e \in Document : Whole(e)' /\ Processed(e)'
    <3> TAKE e \in Document
    <3>1. CASE e = d
      BY <1>1, <1>5, <3>1 DEF Whole, Processed
    <3>2. CASE e # d
      BY <1>1, <1>2, <1>5, <3>2, WholeProcessed DEF Whole, Processed, Generating
    <3> QED
      BY <3>1, <3>2
  <2>2. Alone'
    BY <1>1, <1>2 DEF InsightInv, Alone
  <2>3. \A w \in Worker : KnowsRow(w)'
    <3> TAKE w \in Worker
    <3>1. KnowsRow(w) /\ (job[w].pc \in GenSteps => job[w].doc \in Document)
      BY <1>2 DEF InsightInv, Typed, Fits
    <3>2. CASE job[w].pc \notin GenSteps
      BY <1>1, <3>2 DEF KnowsRow, GenSteps
    <3>3. CASE job[w].doc = d
      BY <1>1, <1>5, <3>3 DEF KnowsRow
    <3>4. CASE job[w].pc \in GenSteps /\ job[w].doc # d
      BY <1>1, <1>5, <3>1, <3>4 DEF KnowsRow
    <3> QED
      BY <3>2, <3>3, <3>4
  <2> QED
    BY <2>1, <2>2, <2>3, WholeProcessed
<1> QED
  BY <1>4, <1>9, <1>10, <1>11 DEF ResearchInv

\* The context is dropped, or the cached report; or nothing happens.
LEMMA NothingElse ==
    ASSUME ResearchInv, (Expire /\ UNCHANGED <<rows, held>>) \/ Forget \/ UNCHANGED vars
    PROVE  ResearchInv'
<1>1. /\ docs' = docs /\ insight' = insight /\ timeline' = timeline /\ entities' = entities /\ nodes' = nodes /\ edges' = edges
      /\ job' = job /\ held' = held /\ reports' = reports /\ traces' = traces /\ cached' \in {cached, None}
      /\ context' \in {context, {}} /\ faults' = faults /\ changes' \in 0..MaxChanges /\ raced' = raced /\ broken' = broken
  <2>1. CASE Expire /\ UNCHANGED <<rows, held>>
    <3>1. changes' \in 0..MaxChanges
      BY <2>1, InsightConstants DEF Expire, Change, ResearchInv, Typed, TypeOK, InTypeOK
    <3> QED
      BY <2>1, <3>1 DEF Expire, rows, tables, graph
  <2>2. CASE Forget
    <3>1. changes' \in 0..MaxChanges
      BY <2>2, InsightConstants DEF Forget, Change, ResearchInv, Typed, TypeOK, InTypeOK
    <3> QED
      BY <2>2, <3>1 DEF Forget, tables, graph
  <2>3. CASE UNCHANGED vars
    <3>1. changes \in 0..MaxChanges
      BY DEF ResearchInv, Typed, TypeOK, InTypeOK
    <3> QED
      BY <2>3, <3>1 DEF vars, inVars, rows, tables, graph
  <2> QED
    BY <2>1, <2>2, <2>3
<1>2. Typed /\ AnswerInv /\ RowsInv /\ InsightInv /\ GraphIsSound
  BY DEF ResearchInv
<1>3. AnswerInv' /\ RowsInv'
  BY <1>1, <1>2, QuestionsStay
<1>4. Typed'
  BY <1>1, <1>2 DEF Typed, TypeOK, InTypeOK, Fits
<1>5. GraphIsSound'
  BY <1>1, <1>2 DEF GraphIsSound, At, Known, NodesOf
<1>6. InsightInv'
  BY <1>1, <1>2 DEF InsightInv, InsightsAreWhole, ReadyIsWhole, ProcessingEnds, Generating, Alone, KnowsRow
<1> QED
  BY <1>3, <1>4, <1>5, <1>6 DEF ResearchInv

\* A job that has not begun is a job that fits, without results.
NotBegun(j) ==
    /\ j \in Job /\ Fits(j) /\ j.pc \in {"begin", "ask", "report"}
    /\ j.sources = {} /\ j.shown = {} /\ j.texts = {} /\ j.from = None /\ j.gone = {}
    /\ j.kind = "ask" => j.pc = "ask" /\ j.doc = None
    /\ j.kind # "ask" => j.flags = {}
    /\ j.pc = "ask" => j.kind = "ask"

\* What a scene gives a worker has not begun.
LEMMA WorkHasNotBegun ==
    ASSUME NEW j \in Generations \cup Builds \cup Questions \cup DeepReports
    PROVE  NotBegun(j)
<1>1. /\ {"begin", "ask", "report"} \subseteq Steps /\ <<>> \in Seq(Document \cup ToolNames)
      /\ None \in Found /\ {} \in SUBSET Worker /\ {} \in SUBSET [doc : Document, gen : Worker]
  BY DEF Steps, Found
<1>2. ASSUME NEW kind \in {"auto", "generate", "build", "deep", "ask"}, NEW pc \in {"begin", "ask", "report"}, NEW flags \in SUBSET Flags,
             NEW doc \in Document \cup {None}, NEW session \in Session \cup {None}, NEW force \in BOOLEAN,
             j = Work(kind, pc, flags, doc, session, force)
      PROVE  /\ j \in Job
             /\ j.kind = kind /\ j.pc = pc /\ j.flags = flags /\ j.doc = doc
             /\ j.sources = {} /\ j.shown = {} /\ j.texts = {} /\ j.from = None /\ j.gone = {}
  BY <1>1, <1>2 DEF Work, Job
<1>3. CASE j \in Generations
  <2>1. /\ j \in Job /\ j.kind \in {"auto", "generate"} /\ j.pc = "begin" /\ j.flags = {} /\ j.doc \in Document
        /\ j.sources = {} /\ j.shown = {} /\ j.texts = {} /\ j.from = None /\ j.gone = {}
    <3>1. PICK d \in Document : j \in {Work("auto", "begin", {}, d, None, FALSE), Work("generate", "begin", {}, d, None, FALSE),
                                      Work("generate", "begin", {}, d, None, TRUE)}
      BY <1>3 DEF Generations
    <3>2. CASE j = Work("auto", "begin", {}, d, None, FALSE)
      BY <1>2, <3>2
    <3>3. CASE j = Work("generate", "begin", {}, d, None, FALSE)
      BY <1>2, <3>3
    <3>4. CASE j = Work("generate", "begin", {}, d, None, TRUE)
      BY <1>2, <3>4
    <3> QED
      BY <3>1, <3>2, <3>3, <3>4
  <2> QED
    BY <2>1 DEF NotBegun, Fits, KindSteps, GenSteps
<1>4. CASE j \in Builds
  <2>1. /\ j \in Job /\ j.kind = "build" /\ j.pc = "begin" /\ j.flags = {}
        /\ j.sources = {} /\ j.shown = {} /\ j.texts = {} /\ j.from = None /\ j.gone = {}
    <3>1. j = Work("build", "begin", {}, None, None, FALSE)
      BY <1>4 DEF Builds
    <3> QED
      BY <1>2, <3>1
  <2> QED
    BY <2>1 DEF NotBegun, Fits, KindSteps, GenSteps
<1>5. CASE j \in Questions
  <2>1. /\ j \in Job /\ j.kind = "ask" /\ j.pc = "ask" /\ j.doc = None
        /\ j.sources = {} /\ j.shown = {} /\ j.texts = {} /\ j.from = None /\ j.gone = {}
    <3>1. PICK flags \in SUBSET Flags : j \in {Work("ask", "ask", flags, None, s, FALSE) : s \in Session}
      BY <1>5 DEF Questions
    <3>2. PICK s \in Session : j = Work("ask", "ask", flags, None, s, FALSE)
      BY <3>1
    <3> QED
      BY <1>2, <3>2
  <2> QED
    BY <2>1 DEF NotBegun, Fits, KindSteps, GenSteps, Steps
<1>6. CASE j \in DeepReports
  <2>1. /\ j \in Job /\ j.kind = "deep" /\ j.pc = "report" /\ j.flags = {}
        /\ j.sources = {} /\ j.shown = {} /\ j.texts = {} /\ j.from = None /\ j.gone = {}
    <3>1. PICK s \in Session : j = Work("deep", "report", {}, None, s, FALSE)
      BY <1>6 DEF DeepReports
    <3> QED
      BY <1>2, <3>1
  <2> QED
    BY <2>1 DEF NotBegun, Fits, KindSteps, GenSteps
<1> QED
  BY <1>3, <1>4, <1>5, <1>6

\* The invariant holds to begin with.
LEMMA InitSound ==
    ASSUME Init
    PROVE  ResearchInv
<1>1. /\ docs = Document /\ nodes = {} /\ edges = {} /\ context = {}
      /\ insight = [d \in Document |-> None] /\ timeline = [d \in Document |-> None] /\ entities = [d \in Document |-> {}]
      /\ faults = 0 /\ changes = 0 /\ raced = {} /\ broken = {} /\ cached = None
      /\ reports = [w \in Worker |-> "none"] /\ traces = [w \in Worker |-> "none"] /\ held = [w \in Worker |-> {}]
  BY DEF Init, InInit
<1>2. job \in [Worker -> Generations \cup Builds \cup Questions \cup DeepReports]
  BY SceneConstants DEF Init, InInit
<1>3. \A w \in Worker : NotBegun(job[w])
  BY <1>2, WorkHasNotBegun
<1>4. job \in [Worker -> Job] /\ \A w \in Worker : Fits(job[w])
  BY <1>2, <1>3 DEF NotBegun
<1>5. \A w \in Worker : job[w].pc \in Steps
  BY <1>3 DEF NotBegun, Steps
<1>6. InTypeOK
  <2>1. faults \in 0..MaxFaults /\ changes \in 0..MaxChanges
    BY <1>1, InsightConstants
  <2> QED
    BY <1>1, <1>5, <2>1 DEF InTypeOK
<1>7. Typed
  BY <1>1, <1>4, <1>6 DEF Typed, TypeOK, Statuses
<1>8. \A w \in Worker : job[w].pc \notin GenSteps
  BY <1>3 DEF NotBegun, GenSteps
<1>9. InsightInv
  BY <1>1, <1>8 DEF InsightInv, InsightsAreWhole, ReadyIsWhole, ProcessingEnds, Alone, KnowsRow, GenSteps
<1>10. GraphIsSound
  BY <1>1, <1>3 DEF GraphIsSound, At, NotBegun
<1>11. \A w \in Worker : KnowsDocuments(w) /\ Cites(w) /\ StaysInDocuments(w)
  <2> TAKE w \in Worker
  <2>1. NotBegun(job[w])
    BY <1>3
  <2>2. KnowsDocuments(w)
    BY <2>1 DEF NotBegun, KnowsDocuments, Analyses, GenSteps
  <2>3. Cites(w)
    BY <2>1 DEF NotBegun, Cites
  <2>4. StaysInDocuments(w)
    BY <1>1, <2>1 DEF NotBegun, StaysInDocuments
  <2> QED
    BY <2>2, <2>3, <2>4
<1>12. AnswerInv
  BY <1>1, <1>11 DEF AnswerInv, CacheIsKept
<1>13. RowsInv
  BY <1>1, <1>3 DEF RowsInv, RowsEnd, At, NotBegun
<1> QED
  BY <1>7, <1>9, <1>10, <1>12, <1>13 DEF ResearchInv

\* What the agent does with a question keeps the tables of Insights.
LEMMA AsksKeep ==
    ASSUME ResearchInv, NEW w \in Worker,
           \/ Ask(w) \/ NextDocument(w) \/ Trace(w) \/ Specialists(w) \/ Summarises(w)
           \/ Plans(w) \/ Retrieves(w) \/ Remembers(w) \/ Calculates(w) \/ Searches(w) \/ Condenses(w) \/ Aggregates(w)
           \/ Report(w) \/ Gathers(w) \/ Writes(w) \/ FailReport(w) \/ Keeps(w)
    PROVE  ResearchInv'
<1> USE DEF ResearchInv
<1>1. Typed' /\ AnswerInv' /\ RowsInv' /\ Aside(w)
  BY AskKeeps, NextDocumentKeeps, TraceKeeps, SpecialistsKeeps, SummarisesKeeps, PlansKeeps, RetrievesKeeps, ToolsKeep, AggregatesKeeps,
     ReportKeeps, GathersKeeps, WritesKeeps, FailReportKeeps, KeepsKeeps, Zenon
<1>2. InsightInv' /\ GraphIsSound'
  BY <1>1, AsideSound
<1> QED
  BY <1>1, <1>2

\* Every step keeps it.
LEMMA StepKeeps ==
    ASSUME ResearchInv, [Next]_vars
    PROVE  ResearchInv'
<1>1. CASE InNext /\ UNCHANGED <<rows, held>>
  <2>1. ASSUME NEW w \in Worker, Generates(w) \/ BuildRead(w) \/ BuildCommit(w) \/ Die(w)
        PROVE  ResearchInv'
    BY <1>1, <2>1, BeginKeeps, InsertKeeps, UpdateKeeps, AnalyseKeeps, FailKeeps, PersistKeeps, CommitGenerationKeeps, BuildReadKeeps,
       BuildCommitKeeps, DieKeeps, Zenon DEF ResearchInv, Generates
  <2>2. ASSUME NEW d \in Document, DeleteDocument(d)
        PROVE  ResearchInv'
    BY <1>1, <2>2, DeleteDocumentKeeps
  <2>3. CASE Expire
    BY <1>1, <2>3, NothingElse
  <2> QED
    BY <1>1, <2>1, <2>2, <2>3, Zenon DEF InNext
<1>2. ASSUME NEW w \in Worker,
             \/ Ask(w) \/ NextDocument(w) \/ Trace(w) \/ Specialists(w) \/ Summarises(w)
             \/ Plans(w) \/ Retrieves(w) \/ Remembers(w) \/ Calculates(w) \/ Searches(w) \/ Condenses(w) \/ Aggregates(w)
             \/ Report(w) \/ Gathers(w) \/ Writes(w) \/ FailReport(w) \/ Keeps(w)
      PROVE  ResearchInv'
  BY <1>2, AsksKeep, Zenon
<1>3. CASE Forget \/ UNCHANGED vars
  BY <1>3, NothingElse
<1> QED
  BY <1>1, <1>2, <1>3, Zenon DEF Next

-----------------------------------------------------------------------------
\* In every state of every scene the invariant holds: types, the generations'
\* knowledge of their row, the context of each question, the rows.
THEOREM ResearchInvariant == Spec => []ResearchInv
<1>1. Init => ResearchInv
  BY InitSound
<1>2. ResearchInv /\ [Next]_vars => ResearchInv'
  BY StepKeeps
<1> QED
  BY <1>1, <1>2, PTL DEF Spec

\* A ready insight, its timeline and its entities are of one generation unless
\* two overlapped, and a row that says processing is somebody's or a dead
\* one's: _generate_document_intelligence and _persist_intelligence.
THEOREM InsightsStayWhole == Spec => []InsightsAreWhole
<1>1. ResearchInv => InsightsAreWhole
  BY DEF ResearchInv, InsightInv
<1> QED
  BY <1>1, ResearchInvariant, PTL

\* The graph has one node for a name, of a document that has the entity, and a
\* build that succeeds leaves no entity out that it has read:
\* KnowledgeGraphService.build and the deletion of a document.
THEOREM GraphStaysSound == Spec => []GraphIsSound
<1>1. ResearchInv => GraphIsSound
  BY DEF ResearchInv
<1> QED
  BY <1>1, ResearchInvariant, PTL

\* An answer rests on documents its session held, or on a report that the cache
\* kept; a question about a document is answered from one, the graph or the
\* memory: tool_calling_agent and the tools of the orchestrator.
THEOREM AnswersStayGrounded == Spec => []AnswerIsGrounded
<1>1. ResearchInv => AnswerIsGrounded
  <2> SUFFICES ASSUME ResearchInv
               PROVE  AnswerIsGrounded
    OBVIOUS
  <2>1. TypeOK
    BY DEF ResearchInv, Typed
  <2>2. ASSUME NEW w \in Worker, Asked(w)
        PROVE  /\ job[w].from = None => job[w].sources \subseteq held[w]
               /\ job[w].from # None => reports[job[w].from] = "ready" /\ job[w].sources \subseteq held[job[w].from]
               /\ IsDocument(w) /\ ~Has(w, "analysis") => job[w].sources # {} \/ job[w].shown # {} \/ job[w].texts # {}
               /\ IsDocument(w) => job[w].from = None /\ traces[w] = "none" /\ job[w].texts \subseteq {"memory"}
    <3>1. KnowsDocuments(w) /\ Cites(w) /\ StaysInDocuments(w) /\ job[w].kind = "ask" /\ job[w].pc = "done"
      BY <2>2 DEF ResearchInv, AnswerInv, Asked, At
    <3>2. job[w].from = None => job[w].sources \subseteq held[w]
      BY <3>1 DEF KnowsDocuments
    <3>3. job[w].from # None => reports[job[w].from] = "ready" /\ job[w].sources \subseteq held[job[w].from]
      BY <3>1 DEF Cites
    <3>4. IsDocument(w) /\ ~Has(w, "analysis") => job[w].sources # {} \/ job[w].shown # {} \/ job[w].texts # {}
      BY <3>1 DEF StaysInDocuments, IsDocument, Has, NoEvidence
    <3>5. IsDocument(w) => job[w].from = None /\ traces[w] = "none" /\ job[w].texts \subseteq {"memory"}
      BY <3>1 DEF StaysInDocuments, IsDocument, Has
    <3> QED
      BY <3>2, <3>3, <3>4, <3>5
  <2> QED
    BY <2>1, <2>2 DEF AnswerIsGrounded
<1> QED
  BY <1>1, ResearchInvariant, PTL

\* A report is processing and a trace running only while its worker is at it,
\* or after that worker died or its summary failed: run_research_agent and
\* run_multi_agent_platform.
THEOREM RowsAlwaysEnd == Spec => []RowsEnd
<1>1. ResearchInv => RowsEnd
  BY DEF ResearchInv, RowsInv
<1> QED
  BY <1>1, ResearchInvariant, PTL

=============================================================================
