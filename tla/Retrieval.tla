------------------------------ MODULE Retrieval ------------------------------
(***************************************************************************)
(* The retrieval tool: a question is encoded, the chunks of its scope are  *)
(* ranked by meaning and by words, the rankings fused, the best reranked   *)
(* and cited; or the documents of the session are read one by one. Each    *)
(* read of the store is a step, and between the steps documents are        *)
(* indexed, moved and deleted.  A text stands for its vector too: chunks   *)
(* of different documents may hold the same text.  Before the context goes *)
(* what the knowledge graph of the user's workspace says, whose nodes are  *)
(* told apart here by the document their entities were found in.           *)
(***************************************************************************)
EXTENDS Integers, FiniteSets, SequencesExt

CONSTANTS
    Document, Session, Place, Text,
    Body,           \* the texts of each document's chunks, in their order
    Home,           \* the session a document was uploaded to
    Mine,           \* the documents of the user who asks
    Taste,          \* the ranks a question may give texts: meaning, words, rerank
    RRFK,           \* _RRF_K
    SearchK,        \* chunks each search and the fusion keep
    SourceK,        \* sources with metadata
    RerankK,        \* chunks the reranker keeps
    SessionMax,     \* chunks read of a session
    SessionTop,     \* ... and kept by the reranker
    Few,            \* chunks that are not worth reranking
    PerDocument,    \* chunks per document of a comparison
    Enough,         \* chunks after which a comparison reads no more
    Attempts,       \* calls of the embedding API
    MaxFaults, MaxChanges,
    None

ASSUME RetrievalConstants ==
    /\ Body \in [Document -> Seq(Text)] /\ Taste \subseteq [{"sem", "words", "rerank"} -> [Text -> Nat]]
    /\ Home \in [Document -> Session] /\ Mine \subseteq Document
    /\ IsFiniteSet(Document) /\ Place # {} /\ None \notin Document \cup Session \cup Place \cup Text
    /\ {SearchK, SourceK, RerankK, SessionMax, SessionTop, PerDocument, Enough, Attempts} \subseteq Nat \ {0}
    /\ {RRFK, Few, MaxFaults, MaxChanges} \subseteq Nat

VARIABLES
    index,      \* the chunks in the vector store, in the order they were added
    rows,       \* the documents in the database, newest first
    place,      \* the collection of each row
    graph,      \* the documents whose entities are nodes of a graph
    req,        \* the request
    faults, changes,
    seen,       \* history: the chunks of its scope the request could have read
    calm        \* history: the scope held a chunk and nothing disturbed it

store == <<index, rows, place, graph>>
vars == <<index, rows, place, graph, req, faults, changes, seen, calm>>

Providers == {"openai", "huggingface"}
Cites == [label : Nat, doc : Document \cup {None}, n : Nat, text : Text]
Chunks == [doc : Document, n : Nat, text : Text, vec : Text, place : Place]
TypeOK ==
    /\ index \in Seq(Chunks) /\ rows \in Seq(Document) /\ place \in [Document -> Place] /\ graph \subseteq Document
    /\ req.provider \in Providers /\ req.taste \in Taste \cup {None} /\ req.tries \in 0..Attempts
    /\ req.out \in {"none", "answer", "error"} /\ req.context \in Seq(Cites) /\ req.names \subseteq Document
    /\ faults \in 0..MaxFaults /\ changes \in 0..MaxChanges /\ calm \in BOOLEAN

-----------------------------------------------------------------------------
(* Rankings *)

Top(s, k) == SubSeq(s, 1, IF k < Len(s) THEN k ELSE Len(s))
Texts(s) == [i \in DOMAIN s |-> s[i].text]

\* The members of s at the positions that have a key, by that key; equal keys
\* keep their order.
SortedBy(s, key) ==
    LET I == DOMAIN key
        spot(i) == Cardinality({j \in I : key[j] < key[i] \/ (key[j] = key[i] /\ j <= i)})
    IN  [k \in 1..Cardinality(I) |-> s[CHOOSE i \in I : spot(i) = k]]
Sublist(s, I) == SortedBy(s, [i \in I |-> 0])
Ranked(s, texts, rank) == SortedBy(s, [i \in DOMAIN s |-> rank[texts[i]]])

\* Only the first of equal texts.
Distinct(s) == Sublist(s, {i \in DOMAIN s : \A j \in 1..(i - 1) : s[j] # s[i]})

\* Weighted reciprocal ranks 0.65 : 0.35, over the common multiple of their
\* denominators; a text found twice counts twice.
Unit == LET product[n \in 0..SearchK] == IF n = 0 THEN 1 ELSE (RRFK + n) * product[n - 1] IN product[SearchK]
SumOf(s) == LET sum[n \in 0..Len(s)] == IF n = 0 THEN 0 ELSE s[n] + sum[n - 1] IN sum[Len(s)]
Weighed(s, t, weight) == SumOf([i \in DOMAIN s |-> IF s[i] = t THEN weight * (Unit \div (RRFK + i)) ELSE 0])
LastScore(sem, words, t) == IF t \in Range(words) THEN Weighed(words, t, 7) ELSE Weighed(sem, t, 13)
Score(sem, words, t) == Weighed(sem, t, 13) + Weighed(words, t, 7)
Fused(sem, words) ==
    LET all == Distinct(sem \o words)
    IN  Top(SortedBy(all, [i \in DOMAIN all |-> -Score(sem, words, all[i])]), SearchK)

\* rerank_documents; when it is off, all texts have one rank.
Reranked(texts, taste, k) ==
    Top(Ranked(texts, texts, taste.rerank), k)

-----------------------------------------------------------------------------
(* Embeddings *)

\* The API may answer out of order; each answer has the index of its text.
AsItArrives(response) == [i \in DOMAIN response |-> response[i].vec]
ByIndex(response) ==
    [i \in DOMAIN response |-> response[CHOOSE j \in DOMAIN response : response[j].index = i].vec]

Responses(texts) ==
    {[i \in DOMAIN texts |-> [index |-> p[i], vec |-> texts[p[i]]]] : p \in Bijection(DOMAIN texts, DOMAIN texts)}

\* Cached vectors and encoded ones, in the order of the texts; texts without a
\* vector are left out.
EncodeTexts(texts, hits, encoded) ==
    LET pending(i) == Cardinality({j \in 1..i : texts[j] \notin hits})
        result == [i \in DOMAIN texts |->
            IF texts[i] \in hits THEN texts[i]
            ELSE IF pending(i) <= Len(encoded) THEN encoded[pending(i)] ELSE None]
    IN  Sublist(result, {i \in DOMAIN result : result[i] # None})

-----------------------------------------------------------------------------
(* Scopes *)

\* The filters of user, session and collection; the collection is the one the
\* chunk was indexed with.
FilterWithoutSession(e, session, at) == e.doc \in Mine /\ (at = None \/ e.place = at)
BuildFilter(e, session, at) ==
    e.doc \in Mine /\ (session = None \/ Home[e.doc] = session) /\ (at = None \/ e.place = at)
Scoped == Sublist(index, {i \in DOMAIN index : BuildFilter(index[i], req.session, req.at)})

\* A request of a session looks at no collection.
EffectiveCollection(session, at) == IF session # None THEN None ELSE at

ListSession(session) == Sublist(rows, {i \in DOMAIN rows : rows[i] \in Mine /\ Home[rows[i]] = session})

\* What the user sees in the scope: the rows, wherever they are now.
InView(d, session, at) ==
    d \in Mine /\ (IF session # None THEN Home[d] = session ELSE at = None \/ place[d] = at)
Held(ix, session, at) == {e \in Range(ix) : InView(e.doc, session, at) /\ e.doc \in Range(rows)}

\* The chunks a question may be answered from: the user's, of the session if it
\* has one, else of the collection, which is the one they were indexed with.
Allowed(ix, session, at) ==
    {[doc |-> e.doc, n |-> e.n] : e \in {e \in Range(ix) :
        e.doc \in Mine /\ (IF session # None THEN Home[e.doc] = session ELSE at \in {None, e.place})}}

-----------------------------------------------------------------------------
(* Documents *)

Fault == faults < MaxFaults /\ faults' = faults + 1
Change == changes < MaxChanges /\ changes' = changes + 1 /\ calm' = FALSE

Entries(d, vecs) ==
    [i \in DOMAIN vecs |-> [doc |-> d, n |-> i, text |-> Body[d][i], vec |-> vecs[i], place |-> place[d]]]

Upload(d) ==
    /\ Change /\ d \notin Range(rows) /\ rows' = <<d>> \o rows
    /\ UNCHANGED <<index, place, graph, req, faults, seen>>

\* One batch of an ingestion; the store refuses a batch with fewer vectors
\* than texts.
StoreChunks(d) ==
    LET texts == Body[d] IN
    /\ d \in Range(rows) /\ d \notin {e.doc : e \in Range(index)} /\ Change
    /\ \E hits \in SUBSET Range(texts) :
         LET pending == Sublist(texts, {i \in DOMAIN texts : texts[i] \notin hits}) IN
         \/ \E response \in Responses(pending) :
              LET encoded == IF req.provider = "openai" THEN ByIndex(response) ELSE pending IN
              index' = index \o Entries(d, EncodeTexts(texts, hits, encoded)) /\ UNCHANGED faults
         \/ pending # <<>> /\ Fault /\ UNCHANGED index
    /\ seen' = (IF req.pc = "idle" THEN seen ELSE seen \cup Allowed(index', req.session, req.at)) /\ UNCHANGED <<rows, place, graph, req>>

\* The two ends of a deletion.
DeleteVectors(d) ==
    /\ Change /\ d \in {e.doc : e \in Range(index)}
    /\ index' = Sublist(index, {i \in DOMAIN index : index[i].doc # d})
    /\ UNCHANGED <<rows, place, graph, req, faults, seen>>

DeleteRow(d) ==
    /\ Change /\ d \in Range(rows) /\ d \notin {e.doc : e \in Range(index)}
    /\ rows' = Sublist(rows, {i \in DOMAIN rows : rows[i] # d})
    /\ UNCHANGED <<index, place, graph, req, faults, seen>>

\* A move changes the row alone.
Move(d, to) ==
    /\ Change /\ d \in Range(rows) /\ place[d] # to
    /\ place' = [place EXCEPT ![d] = to]
    /\ UNCHANGED <<index, rows, graph, req, faults, seen>>

\* A user builds the graph from the entities of their documents. The nodes
\* stay when a document is moved or deleted.
BuildGraph(D) ==
    /\ D \subseteq Range(rows) /\ (D \subseteq Mine \/ D \cap Mine = {}) /\ ~ D \subseteq graph
    /\ changes < MaxChanges /\ changes' = changes + 1
    /\ graph' = graph \cup D
    /\ UNCHANGED <<index, rows, place, req, faults, seen, calm>>

-----------------------------------------------------------------------------
(* The request *)

Blank == [pc |-> "idle", kind |-> "plain", each |-> FALSE, session |-> None, at |-> None, taste |-> None,
          provider |-> None, tries |-> 0, sem |-> None, words |-> <<>>, chunks |-> <<>>, left |-> <<>>,
          read |-> <<>>, sections |-> <<>>, context |-> <<>>, sources |-> <<>>, names |-> {}, out |-> "none"]
At(pc) == req.pc = pc
Goes(pc) == req' = [req EXCEPT !.pc = pc]
Has(pc, context, sources, names, out) ==
    req' = [Blank EXCEPT !.provider = req.provider, !.each = req.each, !.pc = pc,
                         !.context = context, !.sources = sources, !.names = names, !.out = out]
Answers(context, sources) == Has("graph", context, sources, {}, "none")
Returns(names) == Has("idle", req.context, req.sources, names, "answer")
Errs == Has("idle", <<>>, <<>>, {}, "error")
Quiet == UNCHANGED <<index, rows, place, graph, faults, changes, seen, calm>>

\* A question, already rewritten; a comparison of at least two documents reads
\* them one by one. What a fusion of its rankings gives is fixed by the taste.
ReadsEach(kind, session) == kind = "compare" /\ session # None /\ Len(ListSession(session)) >= 2
Ask(kind, session, at, taste) ==
    /\ At("idle") /\ req.out = "none"
    /\ LET each == ReadsEach(kind, session) IN
       /\ req' = [req EXCEPT !.pc = IF each THEN "list" ELSE "encode", !.kind = kind, !.each = each, !.taste = taste,
                             !.session = session, !.at = EffectiveCollection(session, at), !.tries = 0]
       /\ seen' = Allowed(index, session, at)
       /\ calm' = \E e \in Held(index, session, at) : session # None \/ at = None \/ e.place = place[e.doc]
    /\ UNCHANGED <<store, faults, changes>>

\* encode_query: the cache, or the API, which is called again after an error
\* that may pass, if it is the one with a loop around it.
AfterEncode == IF req.sem = None THEN "search" ELSE "cite"
Encoded ==
    /\ At("encode") /\ req' = [req EXCEPT !.pc = AfterEncode, !.tries = 0]
    /\ Quiet

NeverRetryable(status) == FALSE
Retryable(status) == status \in {"429", "503", "timeout"}
EncodeFails(status) ==
    /\ At("encode") /\ Fault
    /\ IF req.provider = "huggingface" /\ Retryable(status) /\ req.tries + 1 < Attempts
       THEN req' = [req EXCEPT !.tries = @ + 1]
       ELSE Errs
    /\ calm' = (calm /\ req.provider = "huggingface" /\ status # "401" /\ req.tries + 1 < Attempts)
    /\ UNCHANGED <<store, changes, seen>>

\* The store, the reranker or the database raises.
Breaks ==
    /\ req.pc \in {"search", "words", "cite", "check", "list", "read", "graph"} /\ Fault /\ Errs /\ calm' = FALSE
    /\ UNCHANGED <<store, changes, seen>>

SemanticSearch(k) == Top(Ranked(Scoped, [i \in DOMAIN Scoped |-> Scoped[i].vec], req.taste.sem), k)
Search ==
    /\ At("search") /\ req' = [req EXCEPT !.pc = "words", !.sem = Texts(SemanticSearch(SearchK))]
    /\ Quiet

Bm25Search == Top(Ranked(Scoped, Texts(Scoped), req.taste.words), SearchK)
Words ==
    /\ At("words")
    /\ LET words == Texts(Bm25Search) IN
       req' = [req EXCEPT !.pc = "encode", !.words = words, !.chunks = Fused(req.sem, words)]
    /\ Quiet

Cite(i, e) == [label |-> i, doc |-> e.doc, n |-> e.n, text |-> e.text]
Uncited(t) == [label |-> 0, doc |-> None, n |-> 0, text |-> t]
Cited(s) == [i \in DOMAIN s |-> Cite(i, s[i])]

\* The first source with the text of each chunk, for those that have one.
SourcesOf(texts, sources) ==
    LET first(t) == sources[CHOOSE i \in DOMAIN sources :
                              sources[i].text = t /\ \A j \in 1..(i - 1) : sources[j].text # t]
        known == Sublist(texts, {i \in DOMAIN texts : texts[i] \in Range(Texts(sources))})
    IN  [i \in DOMAIN known |-> first(known[i])]

\* The sources are searched again; without a source the chunks go uncited.
CiteDetails ==
    /\ At("cite")
    /\ LET sources == SemanticSearch(SourceK)
           chunks  == IF req.chunks = <<>> THEN Texts(sources) ELSE req.chunks
           best    == Reranked(chunks, req.taste, RerankK)
           cited   == Cited(SourcesOf(best, sources))
       IN  req' = [req EXCEPT !.pc = "check", !.sources = cited,
                              !.context = IF cited # <<>> THEN cited ELSE [i \in DOMAIN best |-> Uncited(best[i])]]
    /\ Quiet

\* A question about a document, or one without context (with its preamble the
\* shortest context is longer than 120), looks at the session's documents too.
LooksAgain == req.session # None /\ (req.kind = "document" \/ req.context = <<>>)
Check ==
    /\ At("check")
    /\ IF LooksAgain THEN Goes("list") ELSE Answers(req.context, req.sources)
    /\ Quiet

List ==
    /\ At("list")
    /\ LET found == ListSession(req.session) IN
       IF req.each /\ Len(found) < 2 THEN Answers(<<>>, <<>>)
       ELSE req' = [req EXCEPT !.pc = "read", !.left = found, !.read = <<>>, !.sections = <<>>]
    /\ Quiet

OfDocument(d) == Sublist(index, {i \in DOMAIN index : index[i].doc = d})
Limit == IF req.each THEN Enough ELSE SessionMax
Reads == At("read") /\ req.left # <<>> /\ Len(req.read) < Limit

\* A chunk that is reranked keeps its text and gets the number of its place.
Renumbered(d, texts) == [i \in DOMAIN texts |-> [doc |-> d, n |-> OfDocument(d)[i].n, text |-> texts[i]]]
ReadDocument ==
    /\ Reads
    /\ LET d == Head(req.left)
           all == Texts(OfDocument(d))
           best == IF Len(all) > PerDocument THEN Reranked(all, req.taste, PerDocument) ELSE all
       IN  req' = [req EXCEPT !.left = Tail(@),
                     !.read = IF req.each THEN @ \o Renumbered(d, best) ELSE Top(@ \o Renumbered(d, all), SessionMax),
                     !.sections = IF req.each THEN @ \o Cited(Renumbered(d, best)) ELSE @]
    /\ Quiet

\* An error of the store is taken for a document without chunks.
SkipDocument ==
    /\ Reads /\ Fault /\ calm' = FALSE /\ req' = [req EXCEPT !.left = Tail(@)]
    /\ UNCHANGED <<store, changes, seen>>

\* The comparison is done; or what was read of the session replaces the
\* context if it is longer.
Finish ==
    /\ At("read") /\ ~Reads
    /\ LET texts == Texts(req.read)
           best  == IF Len(texts) > Few THEN Reranked(texts, req.taste, SessionTop) ELSE texts
           cited == Cited(SourcesOf(best, req.read))
       IN  IF req.each THEN Answers(req.sections, Cited(Top(req.read, Enough)))
           ELSE \/ cited # <<>> /\ Answers(cited, cited)
                \/ (cited = <<>> \/ req.context # <<>>) /\ Answers(req.context, req.sources)
    /\ Quiet

\* graph_rag_context: whatever its session or collection, the question is put
\* under names from the whole graph of the user, if there is one. They may be
\* cached for its words; as no node is removed, those are of the graph still.
NamesOf(nodes) == IF nodes = {} THEN {{}} ELSE SUBSET nodes \ {{}}
Prefix ==
    /\ At("graph") /\ \E names \in NamesOf(graph \cap Mine) : Returns(names)
    /\ Quiet

-----------------------------------------------------------------------------
Init ==
    /\ rows \in {SetToSeq(D) : D \in SUBSET Document} /\ place = [d \in Document |-> CHOOSE c \in Place : TRUE]
    /\ \E D \in SUBSET Range(rows) :
         LET upTo[n \in 0..Len(rows)] ==
                 IF n = 0 THEN <<>> ELSE upTo[n - 1] \o (IF rows[n] \in D THEN Entries(rows[n], Body[rows[n]]) ELSE <<>>)
         IN  index = upTo[Len(rows)]
    /\ \E provider \in Providers :
         req = [Blank EXCEPT !.provider = provider]
    /\ faults = 0 /\ changes = 0 /\ seen = {} /\ calm = FALSE /\ graph = {}

Next ==
    \/ \E D \in SUBSET Document : BuildGraph(D)
    \/ \E d \in Document : Upload(d) \/ StoreChunks(d) \/ DeleteVectors(d) \/ DeleteRow(d) \/ \E to \in Place : Move(d, to)
    \/ \E kind \in {"plain", "document", "compare"}, session \in Session \cup {None}, at \in Place \cup {None}, taste \in Taste :
         Ask(kind, session, at, taste)
    \/ Encoded \/ Search \/ Words \/ CiteDetails \/ Check \/ List \/ ReadDocument \/ SkipDocument \/ Finish \/ Prefix \/ Breaks
    \/ \E status \in {"401", "429", "503", "timeout"} : EncodeFails(status)

Spec == Init /\ [][Next]_vars

-----------------------------------------------------------------------------
(* Properties *)

\* Whatever passage or source the answer shows was in the scope of the
\* question while it was worked on, with that text; a citation names the
\* document and, but for the reranked chunks of a comparison, the chunk.
PassagesAreHeld ==
    \A b \in Range(req.context) \cup Range(req.sources) :
      \E c \in seen :
        /\ Body[c.doc][c.n] = b.text
        /\ b.label # 0 => c.doc = b.doc /\ (c.n = b.n \/ req.each)

\* The names before them are of the user's graph: of any session and
\* collection, also of documents that are gone, and of no other user.
NamesAreOwn == req.names \subseteq graph \cap Mine
AnswerIsHeld == PassagesAreHeld /\ NamesAreOwn

\* When the scope holds a chunk, nothing changes it meanwhile and the
\* embedding API recovers in time, the answer has context besides the names.
FoundIsAnswered == calm /\ req.out # "none" => req.out = "answer" /\ req.context # <<>>

\* A text that is ahead in one ranking and not behind in the other is ahead in
\* their fusion, unless the scope holds a text twice.
FusionIsFair ==
    LET pos(s, t) == IF t \in Range(s) THEN CHOOSE i \in DOMAIN s : s[i] = t ELSE SearchK + 1
        ahead(s, a, b) == pos(s, a) < pos(s, b)
    IN  req.pc = "encode" /\ req.sem # None /\ IsInjective(req.sem) /\ IsInjective(req.words) =>
          \A a, b \in Range(req.chunks) :
            (ahead(req.sem, a, b) /\ ~ahead(req.words, b, a)) \/ (ahead(req.words, a, b) /\ ~ahead(req.sem, b, a))
              => ahead(req.chunks, a, b)

\* Every chunk is found by the vector of its own text, whatever part of its
\* batch was cached and in which order the API answered.
VectorsFit == \A e \in Range(index) : e.vec = e.text
IndexIsSound == TypeOK /\ VectorsFit

=============================================================================
