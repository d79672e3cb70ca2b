------------------------------ MODULE Research ------------------------------
(***************************************************************************)
(* What the chat's agent does with a question: it refuses, analyses the    *)
(* documents of the session, runs the multi-agent platform or the research *)
(* agent, or gathers context with the orchestrator's tools. Reports and    *)
(* traces are rows that are committed before the work begins. Next to it   *)
(* run the generations and builds of Insights.                             *)
(***************************************************************************)
EXTENDS Insights

CONSTANTS
    Remembered,     \* the user has a memory
    Workflows, MultiAgent, DeepResearch, GraphRag,   \* settings
    PerAnalysis     \* documents of an analysis

ASSUME ResearchConstants ==
    Remembered \in BOOLEAN /\ {Workflows, MultiAgent, DeepResearch, GraphRag} \subseteq BOOLEAN /\ PerAnalysis \in Nat \ {0}

\* What the words of a question say of it.
Flags == {"document", "analysis", "multi", "deep", "compare", "calculate", "talk", "mention", "fresh", "summary"}
Questions == UNION {{Work("ask", "ask", flags, None, s, FALSE) : s \in Session} : flags \in SUBSET Flags}
DeepReports == {Work("deep", "report", {}, None, s, FALSE) : s \in Session}

ASSUME SceneConstants == Scene \subseteq [Worker -> Generations \cup Builds \cup Questions \cup DeepReports]

VARIABLES
    reports,    \* ResearchReport of each worker
    traces,     \* AgentTrace of each worker
    cached,     \* the report in the query cache, one question being asked
    held        \* history: documents the session of a worker has had since it asked

rows == <<reports, traces, cached>>
vars == <<inVars, rows, held>>

Statuses == {"none", "processing", "ready", "failed", "running", "complete"}
TypeOK ==
    /\ InTypeOK
    /\ reports \in [Worker -> Statuses] /\ traces \in [Worker -> Statuses]
    /\ cached \in Worker \cup {None} /\ held \in [Worker -> SUBSET Document]

OfSession(s) == {d \in docs : Home[d] = s}
Has(w, flag) == flag \in job[w].flags
IsDocument(w) == Has(w, "document")
\* A step of the job that leaves the tables of Insights alone.
Only(w) == UNCHANGED <<docs, tables, graph, changes, raced, broken>>

First(n, s) == SubSeq(s, 1, IF n < Len(s) THEN n ELSE Len(s))
Starts(w, pc) ==
    job' = [job EXCEPT ![w].pc = pc,
                       ![w].left = IF pc = "next" THEN First(PerAnalysis, SetToSeq(OfSession(job[w].session))) ELSE <<>>]
Answers(w, sources) == job' = [job EXCEPT ![w].pc = "done", ![w].sources = sources]
Refuses(w) == Goes(w, "refused")

-----------------------------------------------------------------------------
(* tool_calling_agent *)

\* Where a question goes: a question about a document is never researched.
Route(w) ==
    LET any == OfSession(job[w].session) # {} IN
    IF IsDocument(w) /\ ~any THEN "refused"
    ELSE IF Workflows /\ Has(w, "analysis") /\ any THEN "next"
    ELSE IF MultiAgent /\ Has(w, "multi") /\ ~IsDocument(w) THEN "trace"
    ELSE IF DeepResearch /\ Has(w, "deep") /\ ~IsDocument(w) THEN "report"
    ELSE "plan"
Ask(w) ==
    /\ At(w, "ask")
    /\ Starts(w, Route(w)) /\ held' = [held EXCEPT ![w] = OfSession(job[w].session)]
    /\ Only(w) /\ UNCHANGED <<context, faults, rows>>

\* The insights of the session's documents, one after the other; those that
\* are ready are the answer.
Analysed(w) ==
    IF job[w].doc = None \/ insight[job[w].doc] = None \/ insight[job[w].doc].status # "ready" THEN {} ELSE {job[w].doc}
NextDocument(w) ==
    /\ At(w, "next")
    /\ LET sources == job[w].sources \cup Analysed(w)  left == job[w].left
       IN  job' = [job EXCEPT ![w] = IF left # <<>>
                   THEN [job[w] EXCEPT !.pc = "begin", !.doc = Head(left), !.left = Tail(left), !.sources = sources]
                   ELSE [job[w] EXCEPT !.pc = "done", !.doc = None, !.sources = sources]]
    /\ Only(w) /\ UNCHANGED <<context, faults, rows, held>>

-----------------------------------------------------------------------------
(* The orchestrator *)

\* The tools of a question, the first rule that fits: a question about a
\* document has neither the calculator nor the web, small talk has nothing.
\* "fresh" are the words for what is new, and the research mode.
Rules(w) ==
    LET mine == OfSession(job[w].session) IN
    << <<Has(w, "analysis") /\ mine # {}, <<"retrieval">> >>,
       <<IsDocument(w) \/ (Has(w, "compare") /\ Cardinality(mine) >= 2), <<"retrieval", "memory">> >>,
       <<Has(w, "calculate"), <<"calculator", "memory">> >>,
       <<Has(w, "talk"), <<>> >>,
       <<Has(w, "mention") /\ mine # {}, <<"retrieval", "memory">> >>,
       <<Has(w, "fresh"), <<"retrieval", "memory", "web_search">> >>,
       <<Has(w, "summary"), <<"retrieval", "memory", "summarizer">> >>,
       <<TRUE, <<"retrieval", "memory">> >> >>
Plan(w) == Rules(w)[SelectInSeq(Rules(w), LAMBDA rule : rule[1])][2]
Plans(w) ==
    /\ At(w, "plan") /\ job' = [job EXCEPT ![w].pc = "tools", ![w].left = Plan(w)]
    /\ Only(w) /\ UNCHANGED <<context, faults, rows, held>>

\* The tools run one after the other; the error of one is a result without
\* context. The retrieval tool has the documents of the session, the graph
\* before them.
Tool(w, name) == At(w, "tools") /\ job[w].left # <<>> /\ Head(job[w].left) = name
Ran(w) == [job[w] EXCEPT !.left = Tail(@)]
Retrieves(w) ==
    /\ Tool(w, "retrieval")
    /\ \/ /\ job' = [job EXCEPT ![w] = [Ran(w) EXCEPT !.sources = OfSession(job[w].session),
                                                     !.shown = IF GraphRag THEN GraphContext ELSE {}]]
          /\ context' = (IF GraphRag THEN GraphContext ELSE context) /\ UNCHANGED faults
       \/ Fault /\ job' = [job EXCEPT ![w] = Ran(w)] /\ UNCHANGED context
    /\ Only(w) /\ UNCHANGED <<rows, held>>

\* The others add a text, or nothing: no memory, a sum that does not parse, no
\* result of the web, no history.
Finds(w, name) == job' = [job EXCEPT ![w] = [Ran(w) EXCEPT !.texts = @ \cup {name}]]
FindsNothing(w) == job' = [job EXCEPT ![w] = Ran(w)]
Tools(w) == Only(w) /\ UNCHANGED <<context, rows, held>>
Remembers(w) ==
    /\ Tool(w, "memory") /\ Tools(w)
    /\ \/ Remembered /\ Finds(w, "memory") /\ UNCHANGED faults
       \/ FindsNothing(w) /\ IF Remembered THEN Fault ELSE UNCHANGED faults
Calculates(w) == Tool(w, "calculator") /\ (Finds(w, "calculator") \/ FindsNothing(w)) /\ Tools(w) /\ UNCHANGED faults
Searches(w) == Tool(w, "web_search") /\ (Finds(w, "web_search") \/ FindsNothing(w)) /\ Tools(w) /\ UNCHANGED faults
Condenses(w) == Tool(w, "summarizer") /\ (Finds(w, "summarizer") \/ FindsNothing(w)) /\ Tools(w) /\ UNCHANGED faults

\* The aggregation: any text passes for evidence.
NoEvidence(sources, shown, texts) == sources = {} /\ shown = {} /\ texts = {}
NeverRefused(sources, shown, texts) == FALSE
Refused(sources, shown, texts) == NoEvidence(sources, shown, texts)
Aggregates(w) ==
    /\ At(w, "tools") /\ job[w].left = <<>>
    /\ IF IsDocument(w) /\ Refused(job[w].sources, job[w].shown, job[w].texts) THEN Refuses(w)
       ELSE Answers(w, job[w].sources)
    /\ Only(w) /\ UNCHANGED <<context, faults, rows, held>>

-----------------------------------------------------------------------------
(* The multi-agent platform *)

Trace(w) ==
    /\ At(w, "trace") /\ traces' = [traces EXCEPT ![w] = "running"] /\ Goes(w, "agents")
    /\ Only(w) /\ UNCHANGED <<context, faults, reports, cached, held>>

\* Planner, specialists and critic have an answer for every error.
Specialists(w) ==
    /\ At(w, "agents")
    /\ \/ job' = [job EXCEPT ![w].pc = "summary", ![w].sources = OfSession(job[w].session)] /\ UNCHANGED faults
       \/ Fault /\ Goes(w, "summary")
    /\ Only(w) /\ UNCHANGED <<context, rows, held>>

\* The graph and the summary have none: the trace stays as it is.
Summarises(w) ==
    /\ At(w, "summary")
    /\ \/ /\ Answers(w, job[w].sources) /\ traces' = [traces EXCEPT ![w] = "complete"]
          /\ CachesGraph /\ UNCHANGED faults
       \/ Fault /\ Refuses(w) /\ CachesGraph /\ UNCHANGED traces
    /\ Only(w) /\ UNCHANGED <<reports, cached, held>>

-----------------------------------------------------------------------------
(* Research reports *)

\* The cache is asked for the question and the user, not for the session; the
\* pipeline of the research page has no cache.
Cached(w) == cached # None /\ job[w].kind = "ask"
Report(w) ==
    /\ At(w, "report")
    /\ IF Cached(w) THEN job' = [job EXCEPT ![w].pc = "done", ![w].sources = job[cached].sources, ![w].from = cached] /\ UNCHANGED reports
       ELSE reports' = [reports EXCEPT ![w] = "processing"] /\ Goes(w, "gather")
    /\ Only(w) /\ UNCHANGED <<context, faults, traces, cached, held>>

\* Several rounds of retrieval; an error of the store fails the report.
Gathers(w) ==
    /\ At(w, "gather")
    /\ \/ job' = [job EXCEPT ![w].pc = "write", ![w].sources = OfSession(job[w].session)] /\ UNCHANGED faults
       \/ Fault /\ Goes(w, "fail report")
    /\ Only(w) /\ UNCHANGED <<context, rows, held>>

Writes(w) ==
    /\ At(w, "write")
    /\ \/ reports' = [reports EXCEPT ![w] = "ready"] /\ Goes(w, IF job[w].kind = "ask" THEN "keep" ELSE "done") /\ UNCHANGED faults
       \/ Fault /\ Goes(w, "fail report") /\ UNCHANGED reports
    /\ Only(w) /\ UNCHANGED <<context, traces, cached, held>>

LeftProcessing(w) == reports
MarkedFailed(w) == [reports EXCEPT ![w] = "failed"]
FailReport(w) ==
    /\ At(w, "fail report") /\ reports' = MarkedFailed(w)
    /\ Goes(w, IF job[w].kind = "ask" THEN "refused" ELSE "raised")
    /\ Only(w) /\ UNCHANGED <<context, faults, traces, cached, held>>

Keeps(w) ==
    /\ At(w, "keep") /\ cached' = w /\ Answers(w, job[w].sources)
    /\ Only(w) /\ UNCHANGED <<context, faults, reports, traces, held>>

Forget ==
    /\ Change /\ cached # None /\ cached' = None
    /\ UNCHANGED <<docs, tables, graph, context, job, faults, raced, broken, reports, traces, held>>

-----------------------------------------------------------------------------
Init ==
    /\ InInit
    /\ reports = [w \in Worker |-> "none"] /\ traces = [w \in Worker |-> "none"] /\ cached = None
    /\ held = [w \in Worker |-> {}]

Next ==
    \/ InNext /\ UNCHANGED <<rows, held>>
    \/ \E w \in Worker :
         \/ Ask(w) \/ NextDocument(w) \/ Trace(w) \/ Specialists(w) \/ Summarises(w)
         \/ Plans(w) \/ Retrieves(w) \/ Remembers(w) \/ Calculates(w) \/ Searches(w) \/ Condenses(w) \/ Aggregates(w)
         \/ Report(w) \/ Gathers(w) \/ Writes(w) \/ FailReport(w) \/ Keeps(w)
    \/ Forget

Spec == Init /\ [][Next]_vars

-----------------------------------------------------------------------------
(* Properties *)

Asked(w) == job[w].kind = "ask" /\ At(w, "done")

\* An answer rests on documents the session held while it was worked on, but
\* for a report of the cache, which may be another session's; a question about
\* a document is answered from one, or from the graph or the memory, and never
\* from the web.
AnswerIsGrounded == TypeOK /\
    \A w \in Worker : Asked(w) =>
      /\ job[w].from = None => job[w].sources \subseteq held[w]
      /\ job[w].from # None => reports[job[w].from] = "ready" /\ job[w].sources \subseteq held[job[w].from]
      /\ IsDocument(w) /\ ~Has(w, "analysis") => job[w].sources # {} \/ job[w].shown # {} \/ job[w].texts # {}
      /\ IsDocument(w) => job[w].from = None /\ traces[w] = "none" /\ job[w].texts \subseteq {"memory"}

\* A report is processing, and a trace running, only while its worker is at it
\* or after that died; a trace also after the summary failed.
RowsEnd ==
    \A w \in Worker :
      /\ reports[w] = "processing" => job[w].pc \in {"gather", "write", "fail report", "dead"}
      /\ traces[w] = "running" => job[w].pc \in {"agents", "summary", "dead", "refused"}
      /\ traces[w] = "complete" <=> job[w].kind = "ask" /\ At(w, "done") /\ traces[w] # "none"

=============================================================================
