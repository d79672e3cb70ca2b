------------------------------- MODULE Models -------------------------------
(***************************************************************************)
(* Which model answers a call, what the call records, and how the calls    *)
(* share a provider: a chat turn routes to a provider object of its own,   *)
(* every other call uses the one object of the process, whose last_usage   *)
(* and resolved Ollama model it shares with the calls that run meanwhile.  *)
(***************************************************************************)
EXTENDS Naturals, FiniteSets, SequencesExt

CONSTANTS
    Call,
    Conf,           \* settings: [keys, main, routing]
    Tag,            \* the Ollama models there may be
    Requested,      \* MODEL_NAME
    Base(_),        \* the name of a tag before its colon
    MaxFaults, MaxChanges,
    None

Shared == "shared"
Error == {"unconfigured", "down", "missing", "failed"}

ASSUME ModelConstants ==
    /\ Requested \in Tag /\ None \notin Call \cup Tag \cup Error /\ Shared \notin Call
    /\ MaxFaults \in Nat /\ MaxChanges \in Nat

VARIABLES
    conf,       \* the settings of the process
    calls,      \* the calls
    objects,    \* provider objects: the shared one and one for each routed call
    installed,  \* the models of the Ollama server, in the order it lists them
    up,         \* the Ollama server answers
    records,    \* the model_usage and token_usage rows of each call
    faults, changes,
    removed     \* history: the models that have been removed

vars == <<conf, calls, objects, installed, up, records, faults, changes, removed>>
server == <<installed, up, removed>>

Idle == [pc |-> "idle", own |-> FALSE, stream |-> FALSE, asked |-> None, provider |-> None, model |-> None,
         sent |-> None, error |-> None, silent |-> FALSE, overlap |-> FALSE, lost |-> FALSE,
         found |-> None, blind |-> FALSE]   \* what the call itself resolved, and whether it saw no list
Fresh == [usage |-> None, resolved |-> None]


-----------------------------------------------------------------------------
(* The catalogue and the router *)

Catalog == [id \in {"llama-70b", "llama-fast", "deepseek-chat", "gemma-9b"} |->
               IF id = "deepseek-chat" THEN "deepseek" ELSE "groq"]
IsAvailable(provider) == provider \in conf.keys

Provider == {c.main : c \in Conf} \cup {Catalog[id] : id \in DOMAIN Catalog}
Model == DOMAIN Catalog \cup Tag \cup {"default"}
CallRecord ==
    [pc : {"idle", "sending", "listing", "storing", "returning", "sent", "streaming", "reading", "done", "gone", "refused"},
     own : BOOLEAN, stream : BOOLEAN, asked : DOMAIN Catalog \cup {"auto", None}, provider : Provider \cup {None},
     model : Model \cup {None}, sent : Model \cup {None}, error : Error \cup {None},
     silent : BOOLEAN, overlap : BOOLEAN, lost : BOOLEAN, found : Tag \cup {None}, blind : BOOLEAN]
ObjectRecord == [usage : Call \cup {None}, resolved : Tag \cup {None}]
RowRecord == [ok : BOOLEAN, usage : Call \cup {None}, model : Model \cup {None}]

\* The type invariant.
TypeOK ==
    /\ conf \in Conf /\ calls \in [Call -> CallRecord]
    /\ objects \in [Call \cup {Shared} -> ObjectRecord]
    /\ installed \in Seq(Tag) /\ IsInjective(installed) /\ removed \subseteq Tag /\ up \in BOOLEAN
    /\ records \in [Call -> Seq(RowRecord)]
    /\ faults \in 0..MaxFaults /\ changes \in 0..MaxChanges

Route(id) == [provider |-> Catalog[id], model |-> id]
DefaultToGroq == [provider |-> "groq", model |-> "llama-70b"]
FallbackDefault == [provider |-> conf.main, model |-> "default"]

\* A query is what the heuristics see in it: a coding task, a need to reason, a
\* short question; none of them is a general chat.
Hints == <<"coding", "reasoning", "fast", "general">>
ModelFor == [coding |-> "deepseek-chat", reasoning |-> "llama-70b", fast |-> "llama-fast", general |-> "llama-70b"]

Automatic(query) ==
    LET usable == {i \in DOMAIN Hints : Hints[i] \in query \cup {"general"} /\ IsAvailable(Catalog[ModelFor[Hints[i]]])} IN
    IF ~conf.routing THEN Route("llama-70b")
    ELSE IF usable # {} THEN Route(ModelFor[Hints[Min(usable)]])
    ELSE FallbackDefault

Refuses(asked) == asked # "auto" /\ (asked \notin DOMAIN Catalog \/ ~IsAvailable(Catalog[asked]))
Resolve(asked, query) == IF asked = "auto" THEN Automatic(query) ELSE Route(asked)

-----------------------------------------------------------------------------
(* Calls *)

Object(c) == IF calls[c].own THEN c ELSE Shared
Active(c) == calls[c].pc \in {"sending", "listing", "storing", "returning", "sent", "streaming", "reading"}
At(c, pc) == calls[c].pc = pc
Fault == faults < MaxFaults /\ faults' = faults + 1
Goes(c, pc) == calls' = [calls EXCEPT ![c].pc = pc]

\* The name the object has when the metrics are created; Ollama's is the
\* requested one until it is resolved.
ModelName(object, provider, model) ==
    IF provider # "ollama" THEN model
    ELSE IF object.resolved # None THEN object.resolved ELSE Requested

\* A chat turn: the router, and a new provider object.
Ask(c, asked, query) ==
    /\ At(c, "idle")
    /\ LET route == Resolve(asked, query)
           refused == Refuses(asked)
       IN  calls' = [calls EXCEPT ![c] =
             IF refused THEN [Idle EXCEPT !.pc = "refused"]
             ELSE [Idle EXCEPT !.pc = "sending", !.own = TRUE, !.stream = TRUE, !.asked = asked, !.provider = route.provider,
                               !.model = ModelName(Fresh, route.provider, route.model)]]
    /\ UNCHANGED <<conf, objects, server, records, faults, changes>>

\* Any other call: the object of the process.
UseShared(c, stream) ==
    /\ At(c, "idle")
    /\ LET others == {o \in Call : Active(o) /\ ~calls[o].own} IN
       calls' = [o \in Call |->
          IF o = c THEN [Idle EXCEPT !.pc = "sending", !.stream = stream, !.provider = conf.main,
                                     !.model = ModelName(objects[Shared], conf.main, "default"), !.overlap = (others # {})]
          ELSE IF o \in others THEN [calls[o] EXCEPT !.overlap = TRUE] ELSE calls[o]]
    /\ UNCHANGED <<conf, objects, server, records, faults, changes>>

\* The rows of one call; an error of the database is swallowed.
Row(c, ok, usage) == [ok |-> ok, usage |-> usage, model |-> calls[c].model]
OnlySuccess(c, row) == IF row.ok THEN [records EXCEPT ![c] = Append(@, row)] ELSE records
Kept(c, row) == [records EXCEPT ![c] = Append(@, row)]
Records(c, ok, usage, error) ==
    \/ /\ records' = Kept(c, Row(c, ok, usage))
       /\ calls' = [calls EXCEPT ![c].pc = "done", ![c].error = error]
       /\ UNCHANGED faults
    \/ /\ Fault /\ UNCHANGED records
       /\ calls' = [calls EXCEPT ![c].pc = "done", ![c].error = error, ![c].lost = TRUE]

Fails(c, error) == Records(c, FALSE, None, error) /\ UNCHANGED <<conf, objects, server, changes>>

\* Without its key or its address a provider raises before it sends; Ollama
\* first needs the name of a model, and takes the one its object has.
Uses(c, model) == calls' = [calls EXCEPT ![c].pc = "sent", ![c].sent = model]
Send(c) ==
    /\ At(c, "sending") /\ calls[c].provider \in conf.keys
    /\ LET resolved == objects[Object(c)].resolved IN
       \/ calls[c].provider # "ollama" /\ Uses(c, calls[c].model)
       \/ calls[c].provider = "ollama" /\ resolved # None /\ Uses(c, resolved)
       \/ calls[c].provider = "ollama" /\ resolved = None /\ Goes(c, "listing")
    /\ UNCHANGED <<conf, objects, server, records, faults, changes>>
NotConfigured(c) == At(c, "sending") /\ calls[c].provider \notin conf.keys /\ Fails(c, "unconfigured")

\* resolve_ollama_model_name: the requested model, one of its name, or the
\* first; the requested one too when the list is empty or not to be had.
ResolvedModel(listed) ==
    LET kin == {i \in DOMAIN listed : Base(listed[i]) = Base(Requested)} IN
    IF listed = <<>> \/ Requested \in Range(listed) THEN Requested
    ELSE IF kin # {} THEN listed[Min(kin)] ELSE Head(listed)

\* A call that found no name lists the models, stores the one it resolves to
\* and returns what the object has by then. Another first call may be at any of
\* these steps, and the later one overwrites.
List(c) ==
    /\ At(c, "listing")
    /\ LET listed == IF up THEN installed ELSE <<>> IN
       calls' = [calls EXCEPT ![c].pc = "storing", ![c].found = ResolvedModel(listed), ![c].blind = (listed = <<>>)]
    /\ UNCHANGED <<conf, objects, server, records, faults, changes>>
Store(c) ==
    /\ At(c, "storing") /\ Goes(c, "returning")
    /\ objects' = [objects EXCEPT ![Object(c)].resolved = calls[c].found]
    /\ UNCHANGED <<conf, server, records, faults, changes>>
Return(c) ==
    /\ At(c, "returning") /\ Uses(c, objects[Object(c)].resolved)
    /\ UNCHANGED <<conf, objects, server, records, faults, changes>>

Serves(c) == calls[c].provider # "ollama" \/ (up /\ calls[c].sent \in Range(installed))
Reports(c, o, usage) == [objects EXCEPT ![o].usage = IF usage THEN c ELSE @]

\* A completion sets the usage of the object if the response has one.
Complete(c, usage) ==
    /\ At(c, "sent") /\ ~calls[c].stream /\ Serves(c) /\ (usage => calls[c].provider # "ollama")
    /\ calls' = [calls EXCEPT ![c].pc = "reading", ![c].silent = ~usage]
    /\ objects' = Reports(c, Object(c), usage)
    /\ UNCHANGED <<conf, server, records, faults, changes>>

\* A stream forgets the usage of the call before it; Ollama has none.
NotCleared(o) == objects[o].usage
Cleared(o) == None
OpenStream(c) ==
    /\ At(c, "sent") /\ calls[c].stream /\ calls[c].provider # "ollama" /\ Goes(c, "streaming")
    /\ objects' = [objects EXCEPT ![Object(c)].usage = Cleared(Object(c))]
    /\ UNCHANGED <<conf, server, records, faults, changes>>
OpenOllama(c) ==
    /\ At(c, "sent") /\ calls[c].stream /\ calls[c].provider = "ollama" /\ Serves(c) /\ Goes(c, "streaming")
    /\ UNCHANGED <<conf, objects, server, records, faults, changes>>

LastChunk(c, usage) ==
    /\ At(c, "streaming") /\ (usage => calls[c].provider # "ollama")
    /\ calls' = [calls EXCEPT ![c].pc = "reading", ![c].silent = ~usage]
    /\ objects' = Reports(c, Object(c), usage)
    /\ UNCHANGED <<conf, server, records, faults, changes>>

\* The reader goes away: the generator is closed, which is no Exception.
Abandon(c) ==
    /\ At(c, "streaming") /\ Goes(c, "gone")
    /\ UNCHANGED <<conf, objects, server, records, faults, changes>>

\* The Ollama server is away, or does not have the model.
Raise(c) ==
    /\ At(c, "sent") /\ calls[c].provider = "ollama"
    /\ \/ ~up /\ Fails(c, "down")
       \/ up /\ calls[c].sent \notin Range(installed) /\ Fails(c, "missing")

\* The service refuses the call, is too slow or breaks its stream.
ServiceFails(c) ==
    /\ calls[c].pc \in {"sent", "streaming"} /\ Fault
    /\ records' = Kept(c, Row(c, FALSE, None)) /\ calls' = [calls EXCEPT ![c].pc = "done", ![c].error = "failed"]
    /\ UNCHANGED <<conf, objects, server, changes>>

\* What the object holds by now; tokens it does not hold are estimated.
Read(c) == At(c, "reading") /\ Records(c, TRUE, objects[Object(c)].usage, None)
           /\ UNCHANGED <<conf, objects, server, changes>>

-----------------------------------------------------------------------------
(* The Ollama server *)

Change == changes < MaxChanges /\ changes' = changes + 1 /\ UNCHANGED <<conf, calls, objects, records, faults>>
Pull(t) == Change /\ t \notin Range(installed) /\ installed' = <<t>> \o installed /\ UNCHANGED <<up, removed>>
RemoveTag(t) ==
    /\ Change /\ removed' = removed \cup {t} /\ UNCHANGED up
    /\ \E i \in DOMAIN installed : installed[i] = t /\ installed' = RemoveAt(installed, i)
Flip == Change /\ up' = ~up /\ UNCHANGED <<installed, removed>>

Init ==
    /\ conf \in Conf
    /\ calls = [c \in Call |-> Idle] /\ objects = [o \in Call \cup {Shared} |-> Fresh]
    /\ installed \in {SetToSeq(S) : S \in {T \in SUBSET Tag : IsFiniteSet(T)}} /\ up \in BOOLEAN
    /\ ("ollama" \notin {conf.main} => installed = <<>> /\ up)
    /\ records = [c \in Call |-> <<>>] /\ faults = 0 /\ changes = 0 /\ removed = {}

Next ==
    \/ \E c \in Call :
         \/ \E asked \in DOMAIN Catalog \cup {"unknown"} : Ask(c, asked, {})
         \/ \E query \in SUBSET {"coding", "reasoning", "fast"} : Ask(c, "auto", query)
         \/ \E b \in BOOLEAN : UseShared(c, b) \/ Complete(c, b) \/ LastChunk(c, b)
         \/ Send(c) \/ NotConfigured(c) \/ List(c) \/ Store(c) \/ Return(c) \/ OpenStream(c) \/ OpenOllama(c)
         \/ Abandon(c) \/ Raise(c) \/ ServiceFails(c) \/ Read(c)
    \/ "ollama" = conf.main /\ ((\E t \in Tag : Pull(t) \/ RemoveTag(t)) \/ Flip)

Spec == Init /\ [][Next]_vars

-----------------------------------------------------------------------------
(* Properties *)

Rows(c) == Range(records[c])

\* The tokens a call records are its own or an estimate. Another call's are
\* recorded only on the shared object: when calls overlap on it, or when a
\* completion comes without usage, which leaves that of an earlier call.
UsageIsOwn ==
    \A c \in Call : \A row \in Rows(c) :
      \/ row.usage = None /\ (row.ok => calls[c].silent \/ calls[c].overlap)
      \/ row.usage = c /\ ~calls[c].silent
      \/ ~calls[c].own /\ (calls[c].overlap \/ (calls[c].silent /\ ~calls[c].stream))

\* c names the model of its row when it starts and the one it sends when it has
\* resolved it. They differ when c had to resolve it, or when a first call that
\* overlaps c stored another one over that of the call o.
Renamed(c, model) ==
    \/ model = Requested
    \/ calls[c].overlap /\ \E o \in Call \ {c} : Object(o) = Object(c) /\ calls[o].found = model

\* A call that ends is recorded once, with its outcome and the model that served
\* it, unless that is an Ollama model whose name was resolved or replaced after
\* the call began. The rows are missing only when the database failed, the
\* reader left or no model was found.
CallIsRecorded ==
    \A c \in Call :
      /\ Len(records[c]) = IF At(c, "done") /\ ~calls[c].lost THEN 1 ELSE 0
      /\ \A row \in Rows(c) :
           /\ row.ok <=> calls[c].error = None
           /\ row.ok => row.model = calls[c].sent \/ (calls[c].provider = "ollama" /\ Renamed(c, row.model))

\* An automatic request goes to a provider that is configured if the default
\* one is, unless routing is off, which asks for Groq whatever has a key; a
\* model that is asked for by name is the one that answers.
RouteIsServed ==
    \A c \in Call : calls[c].own =>
      /\ calls[c].error = "unconfigured" => calls[c].asked = "auto" /\ (~conf.routing \/ conf.main \notin conf.keys)
      /\ calls[c].asked # "auto" => calls[c].sent \in {None, calls[c].asked}

\* Ollama says that the model is missing, although it has one, only after that
\* model was removed or when a first call of the same object resolved to it
\* without a list.
MissingIsExplained ==
    \A c \in Call :
      calls[c].error = "missing" =>
        \/ calls[c].sent \in removed
        \/ \E o \in Call : Object(o) = Object(c) /\ calls[o].found = calls[c].sent /\ calls[o].blind

RoutesAreSound == TypeOK /\ RouteIsServed /\ MissingIsExplained

=============================================================================
