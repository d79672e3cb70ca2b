------------------------------ MODULE Sources ------------------------------
(***************************************************************************)
(* The documents of one user that come from elsewhere: a GitHub repository *)
(* synchronised by the GitHub connector, and the pages of a service of the *)
(* connector hub (Notion, Confluence, Google Drive, Dropbox).  A sync is   *)
(* asked for by a route, by a monitoring agent or through the hub, runs in *)
(* any process, and leaves files that the ingestion worker indexes and     *)
(* removes.  Every commit of a sync, every call of the remote service and  *)
(* every write of a file is an action.                                     *)
(***************************************************************************)
EXTENDS Integers, Sequences, FiniteSetsExt

CONSTANTS
    Proc,           \* API processes and agent workers that run syncs
    Files,          \* the members of the archive, or the listed pages, in order
    Kind,           \* what each member is: "source", or why it is passed over
    Batch,          \* files indexed between two commits (25 in the code)
    MaxFiles,       \* MAX_FILES_PER_SYNC
    InlineLimit,    \* documents ingested in the process without workers (5)
    Queue,          \* INGEST_IN_BACKGROUND and ingest_queue_enabled()
    Together,       \* bound: sources of both types are connected at once
    MaxStarts,      \* bound: syncs
    MaxEvents,      \* bound: pushes, connections made and removed, failing
                    \* calls, writes and statements, and deaths, together
    MaxDocs         \* bound: document records

ASSUME FilesAssumption ==
    /\ Files \in Seq(DOMAIN Kind) /\ Len(Files) > 0
    /\ \A f \in DOMAIN Kind : \E i \in 1..Len(Files) : Files[i] = f
    /\ \A i, j \in 1..Len(Files) : Files[i] = Files[j] => i = j
    /\ \A f \in DOMAIN Kind :
         Kind[f] \in {"source", "ignored path", "lock file", "extension", "too large", "blank"}
ASSUME LimitAssumption ==
    /\ Batch \in Nat \ {0} /\ MaxFiles \in Nat \ {0} /\ InlineLimit \in Nat \ {0} /\ Queue \in BOOLEAN /\ Together \in BOOLEAN
    /\ MaxStarts \in Nat /\ MaxEvents \in Nat /\ MaxDocs \in Nat

VARIABLES
    remote,     \* version of the remote content: the commit, the pages' edits
    conn,       \* GitHubConnection: which one it is, 0 when there is none
    row,        \* GitHubRepositorySync of the repository
    hub,        \* ConnectorConnection by type, 0 when there is none
    runs,       \* ConnectorSyncRun, by the sync it belongs to
    colls,      \* number of DocumentCollection rows by type
    docs,       \* DocumentRecord rows
    file,       \* staged repository files: version on disk, 0 when removed
    jobs,       \* documents with an ingestion job in the queue, or a thread
    reading,    \* versions being ingested, by document
    left,       \* history: documents that a dispatch left, or marked as
                \* queued, without a job
    s,          \* the sync each process runs
    starts, events,
    lost,       \* history: a sync ended and could not record that it had
    overlap,    \* history: two syncs of one type were under way at once
    raced       \* history: an ingestion removed a file newer than it had read

world == <<remote, conn, hub>>
store == <<docs, file, jobs, reading, left>>
hist  == <<lost, overlap, raced>>
vars  == <<world, row, runs, colls, store, s, starts, events, hist>>

Types == {"github", "pages"}
Versions == 0..(MaxEvents + 1)
Connections == 0..MaxEvents
\* What of them is indexed: the rest is counted as skipped, or blank.
Sources == {f \in DOMAIN Kind : Kind[f] = "source"}
\* The first of them from position i on; one past the end if there is none.
Upcoming(i) == Min({j \in i..Len(Files) : Files[j] \in Sources} \cup {Len(Files) + 1})
NoRow == [conn |-> 0, status |-> "none", sha |-> 0, files |-> 0]
Idle == [pc |-> "idle", type |-> "github", conn |-> 0, known |-> FALSE, sha |-> 0,
         head |-> 0, tree |-> 0, coll |-> 0, at |-> Upcoming(1), pend |-> {}, fresh |-> <<>>,
         sent |-> {}, done |-> {}, job |-> FALSE, count |-> 0, run |-> 0]
Steps == {"idle", "head", "list", "create", "announce", "download",
          "index", "flush", "dispatch", "finish", "page", "send"}

RowTypes == [conn : Connections, status : {"none", "running", "complete", "failed"},
             sha : Versions, files : 0..Len(Files)]
RunTypes == [status : {"none", "running", "complete", "failed", "gone"},
             type : Types, head : Versions]
DocTypes == [type : Types, coll : Nat, name : DOMAIN Kind, temp : Versions,
             stage : {"queued", "loading", "ready", "failed"}, text : SUBSET Versions]
SyncTypes == [pc : Steps, type : Types, conn : Connections, known : BOOLEAN,
              sha : Versions, head : Versions, tree : Versions, coll : Nat,
              at : 1..(Len(Files) + 1),
              pend : SUBSET Nat, fresh : Seq(DOMAIN Kind), sent : SUBSET Nat, done : SUBSET Nat, job : BOOLEAN,
              count : 0..Len(Files), run : 0..MaxStarts]

TypeOK ==
    /\ remote \in Versions \ {0}
    /\ conn \in Connections /\ hub \in [Types -> Connections]
    /\ row \in RowTypes
    /\ runs \in [1..MaxStarts -> RunTypes]
    /\ colls \in [Types -> Nat]
    /\ docs \in Seq(DocTypes)
    /\ file \in [DOMAIN Kind -> Versions]
    /\ jobs \subseteq 1..Len(docs) /\ left \subseteq 1..Len(docs)
    /\ reading \in [1..Len(docs) -> SUBSET Versions]
    /\ s \in [Proc -> SyncTypes]
    /\ starts \in 0..MaxStarts /\ events \in 0..MaxEvents
    /\ lost \in BOOLEAN /\ overlap \in BOOLEAN /\ raced \in BOOLEAN

Init ==
    /\ remote = 1 /\ conn = 0 /\ row = NoRow
    /\ hub = [t \in Types |-> 0]
    /\ runs = [r \in 1..MaxStarts |-> [status |-> "none", type |-> "github", head |-> 0]]
    /\ colls = [t \in Types |-> 0]
    /\ docs = <<>> /\ file = [f \in DOMAIN Kind |-> 0]
    /\ jobs = {} /\ reading = <<>> /\ left = {}
    /\ s = [p \in Proc |-> Idle]
    /\ starts = 0 /\ events = 0
    /\ lost = FALSE /\ overlap = FALSE /\ raced = FALSE

Goes(p, from, to) == s[p].pc = from /\ s' = [s EXCEPT ![p].pc = to]

Event == events < MaxEvents /\ events' = events + 1

-----------------------------------------------------------------------------
(* The remote content and the user's connections *)

Push == Event /\ remote' = remote + 1
        /\ UNCHANGED <<conn, row, hub, runs, colls, store, s, starts, hist>>

\* Syncs of the two types share the worker and nothing else.
Room(t) == Together \/ IF t = "github" THEN hub["pages"] = 0 ELSE conn = 0 /\ hub["github"] = 0

Connected == Event /\ UNCHANGED <<remote, colls, store, s, starts, hist>>

\* save_connection: a row that exists only gets the new token.
SaveConnection == conn' = IF conn = 0 THEN events + 1 ELSE conn

\* connect_github_account_from_token, after the callback or a login.
Authorize == conn = 0 /\ Room("github") /\ Connected /\ SaveConnection /\ UNCHANGED <<row, hub, runs>>

\* A connector's connect, after the service has taken the token; the GitHub
\* adapter saves a GitHubConnection as well.
HubConnect(t) ==
    /\ hub[t] = 0 /\ Room(t) /\ Connected
    /\ hub' = [hub EXCEPT ![t] = events + 1]
    /\ IF t = "github" THEN SaveConnection ELSE UNCHANGED conn
    /\ UNCHANGED <<row, runs>>

\* disconnect_github: the sync rows go first; documents stay.
Disconnect ==
    /\ conn # 0 /\ Event /\ conn' = 0 /\ row' = NoRow
    /\ UNCHANGED <<remote, hub, runs, colls, store, s, starts, hist>>

\* disconnect_connector: the database deletes the runs with the connection.
HubDisconnect(t) ==
    /\ hub[t] # 0 /\ Event /\ hub' = [hub EXCEPT ![t] = 0]
    /\ runs' = [r \in DOMAIN runs |-> IF runs[r].type = t /\ runs[r].status # "none"
                                        THEN [runs[r] EXCEPT !.status = "gone"] ELSE runs[r]]
    /\ UNCHANGED <<remote, conn, row, colls, store, s, starts, hist>>

-----------------------------------------------------------------------------
(* How a sync starts and ends *)

\* The process's session reads the sync row; an unfinished one counts as
\* having no commit.
Start(p, t, r) ==
    /\ s[p].pc = "idle" /\ starts < MaxStarts /\ starts' = starts + 1
    /\ s' = [s EXCEPT ![p] = [Idle EXCEPT
               !.pc = IF t = "github" THEN "head" ELSE "list", !.type = t, !.run = r,
               !.conn = IF t = "github" THEN conn ELSE hub[t],
               !.known = row.conn # 0,
               !.sha = IF row.status = "complete" /\ row.files > 0 THEN row.sha ELSE 0]]
    /\ UNCHANGED <<world, row, colls, store, events, hist>>

\* POST /connectors/github/sync: refused while the row says "running".
RouteSync(p) == conn # 0 /\ row.status # "running" /\ Start(p, "github", 0) /\ UNCHANGED runs

\* The github_monitor agent does not look at the row.
MonitorSync(p) == conn # 0 /\ Start(p, "github", 0) /\ UNCHANGED runs

\* Without a GitHubConnection the GitHub adapter has no repository to name.
NoRepository(t) == t = "github" /\ conn = 0

\* sync_connector commits a run first; without a repository it is complete at
\* once.
HubSync(p, t) ==
    /\ hub[t] # 0
    /\ IF NoRepository(t)
         THEN /\ s[p].pc = "idle" /\ starts < MaxStarts /\ starts' = starts + 1
              /\ UNCHANGED s
              /\ UNCHANGED <<world, row, colls, store, events, hist>>
         ELSE Start(p, t, starts + 1)
    /\ runs' = [runs EXCEPT ![starts + 1] =
                  [status |-> IF NoRepository(t) THEN "complete" ELSE "running",
                   type |-> t, head |-> 0]]

\* The sync returns or raises to its caller: sync_connector records that in the
\* run, unless the connection has gone and its runs with it.
Ends(p) == s' = [s EXCEPT ![p] = Idle]
Recorded(p, status) ==
    /\ Ends(p)
    /\ runs' = [r \in DOMAIN runs |-> IF r = s[p].run /\ runs[r].status = "running"
                                        THEN [runs[r] EXCEPT !.status = status] ELSE runs[r]]
Returns(p) == Recorded(p, "complete")
Raises(p) == Recorded(p, "failed")

\* The session cannot be used any more: nothing that follows is recorded.
Lost(p) ==
    /\ Ends(p) /\ UNCHANGED runs
    /\ lost' = (lost \/ s[p].run # 0)

\* The sync row this sync read or made is still there.
RowHere(p) == row.conn = s[p].conn

\* Mutant of MarkFailed: the row is left as it was.
MarkFailedNot(p) == Raises(p) /\ UNCHANGED <<row, lost>>

\* _mark_sync_failed: a row it knows becomes "failed"; if that row has been
\* deleted the commit raises as well.
MarkFailed(p) ==
    IF s[p].known /\ ~ RowHere(p)
      THEN Lost(p) /\ UNCHANGED row
      ELSE /\ Raises(p) /\ UNCHANGED lost
           /\ row' = IF s[p].known THEN [row EXCEPT !.status = "failed"] ELSE row

\* Of the committed records, those it has not seen to yet.
Undone(p) == s[p].sent \ s[p].done

\* The process dies, or a failing statement leaves the session unusable.
Break(p) ==
    /\ s[p].pc # "idle" /\ Event /\ Ends(p) /\ lost' = TRUE /\ left' = left \cup Undone(p)
    /\ UNCHANGED <<world, row, runs, colls, docs, file, jobs, reading, starts, overlap, raced>>

-----------------------------------------------------------------------------
(* Collections *)

UnderWay(p) == s[p].pc \notin {"idle", "head", "list"}

\* Another sync of the same type is past its first calls.
Meets(p) == overlap' = (overlap \/ \E q \in Proc \ {p} : UnderWay(q) /\ s[q].type = s[p].type)

After(t) == IF t = "github" THEN "announce" ELSE "page"

\* The query of _ensure_collection and of ensure_connector_collection: any
\* collection of the name will do.
FindCollection(p, new) ==
    LET t == s[p].type IN
    IF colls[t] = 0
      THEN s' = [s EXCEPT ![p] = [new EXCEPT !.pc = "create"]]
      ELSE \E c \in 1..colls[t] : s' = [s EXCEPT ![p] = [new EXCEPT !.pc = After(t), !.coll = c]]

\* The insert: no constraint keeps a second collection of the name out.
CreateCollection(p) ==
    /\ s[p].pc = "create"
    /\ LET t == s[p].type IN
         /\ colls' = [colls EXCEPT ![t] = @ + 1]
         /\ s' = [s EXCEPT ![p].pc = After(t), ![p].coll = colls[t] + 1]
    /\ UNCHANGED <<world, row, runs, store, starts, events, hist>>

-----------------------------------------------------------------------------
(* Files, records and jobs *)

Entry(p) == Files[s[p].at]
More(p) == s[p].at <= Len(Files)

\* Records of this name in the collection of the sync, as committed.
Found(p) == {d \in 1..Len(docs) : docs[d].name = Entry(p) /\ docs[d].coll = s[p].coll
                                  /\ docs[d].type = s[p].type}

NewDoc(p, name, temp) ==
    [type |-> s[p].type, coll |-> s[p].coll, name |-> name, temp |-> temp,
     stage |-> "queued", text |-> {}]

\* The staged file of a document.
FileOf(d) == IF docs[d].type = "github" THEN file[docs[d].name] ELSE docs[d].temp

-----------------------------------------------------------------------------
(* dispatch_documents_ingestion *)

\* A page is sent by itself, the files of a repository at the end; only pages
\* ask whether there is a queue.
Dispatching(p) == s[p].pc = "dispatch" \/ (s[p].pc = "send" /\ Queue)

\* Records are dispatched in the order of their files.
Position(d) == CHOOSE i \in DOMAIN Files : Files[i] = docs[d].name
IsNext(p, d) == d \in Undone(p) /\ \A e \in Undone(p) : Position(d) <= Position(e)

\* No worker answers: threads for the first few, after they have been marked.
StartThreads(p) ==
    /\ Dispatching(p) /\ Undone(p) # {} /\ s[p].done = {} /\ ~ s[p].job
    /\ LET first == {d \in s[p].sent : Cardinality({e \in s[p].sent : Position(e) < Position(d)}) < InlineLimit} IN
         /\ docs' = [d \in DOMAIN docs |-> IF d \in first THEN [docs[d] EXCEPT !.stage = "queued"] ELSE docs[d]]
         /\ jobs' = jobs \cup first /\ left' = (left \cup s[p].sent) \ first
    /\ s' = [s EXCEPT ![p].done = s[p].sent]
    /\ UNCHANGED <<world, row, runs, colls, file, reading, starts, events, hist>>

\* enqueue_documents_ingestion: a worker may take the job at once.
Enqueue(p) ==
    /\ Dispatching(p) /\ ~ s[p].job
    /\ \E d \in Undone(p) : IsNext(p, d) /\ jobs' = jobs \cup {d} /\ left' = left \ {d}
    /\ s' = [s EXCEPT ![p].job = TRUE]
    /\ UNCHANGED <<world, row, runs, colls, docs, file, reading, starts, events, hist>>

\* Then the record is marked, wherever the job has got to.
MarkQueued(p) ==
    /\ Dispatching(p) /\ s[p].job
    /\ \E d \in Undone(p) :
         /\ IsNext(p, d)
         /\ docs' = [docs EXCEPT ![d].stage = "queued"]
         /\ left' = IF d \in jobs THEN left ELSE left \cup {d}
         /\ s' = [s EXCEPT ![p].job = FALSE, ![p].done = @ \cup {d}]
    /\ UNCHANGED <<world, row, runs, colls, file, jobs, reading, starts, events, hist>>

\* The queue refuses a job: the sync has failed, the rest stays as committed.
DispatchFails(p) ==
    /\ Dispatching(p) /\ Undone(p) # {} /\ ~ s[p].job /\ Event
    /\ IF s[p].pc = "dispatch" THEN MarkFailed(p) ELSE Raises(p) /\ UNCHANGED <<row, lost>>
    /\ left' = left \cup Undone(p)
    /\ UNCHANGED <<world, colls, docs, file, jobs, reading, starts, overlap, raced>>

-----------------------------------------------------------------------------
(* sync_repository *)

\* The repository and its head commit are read: nothing to do if the row
\* recorded the commit as complete.
ReadHead(p) ==
    /\ s[p].pc = "head"
    /\ IF s[p].known /\ s[p].sha = remote
         THEN Returns(p) /\ UNCHANGED overlap
         ELSE /\ FindCollection(p, [s[p] EXCEPT !.head = remote])
              /\ Meets(p) /\ UNCHANGED runs
    /\ UNCHANGED <<world, row, colls, store, starts, events, lost, raced>>

\* The row is made or updated, and says "running".  The unique constraint, the
\* foreign key or a row that has gone makes the commit raise, and recording
\* that raises too.
Announce(p) ==
    /\ s[p].pc = "announce"
    /\ IF IF s[p].known THEN RowHere(p) ELSE row.conn = 0 /\ conn = s[p].conn
         THEN /\ row' = IF s[p].known THEN [row EXCEPT !.status = "running"]
                        ELSE [NoRow EXCEPT !.conn = conn, !.status = "running"]
              /\ s' = [s EXCEPT ![p].pc = "download", ![p].known = TRUE]
              /\ UNCHANGED <<runs, lost>>
         ELSE Lost(p) /\ UNCHANGED row
    /\ UNCHANGED <<world, colls, store, starts, events, overlap, raced>>

\* The archive of the branch, as it is by now, is in memory.
Download(p) ==
    /\ s[p].pc = "download" /\ RowHere(p)
    /\ s' = [s EXCEPT ![p].pc = "index", ![p].tree = remote]
    /\ UNCHANGED <<world, row, runs, colls, store, starts, events, hist>>

\* Past MAX_FILES_PER_SYNC the rest is left.
Full(p) == More(p) => s[p].count >= MaxFiles

\* The file counts, and after each batch there is a commit.
Indexes(p, pend, fresh) ==
    [s[p] EXCEPT !.pend = pend, !.fresh = fresh, !.at = Upcoming(@ + 1), !.count = @ + 1,
                 !.pc = IF (s[p].count + 1) % Batch = 0 THEN "flush" ELSE "index"]

\* Mutant of IndexFile: the record of an earlier sync is not looked for.
IndexFileAnew(p) ==
    /\ s[p].pc = "index" /\ ~ Full(p)
    /\ file' = [file EXCEPT ![Entry(p)] = s[p].tree]
    /\ s' = [s EXCEPT ![p] = Indexes(p, s[p].pend, Append(s[p].fresh, Entry(p)))]
    /\ UNCHANGED <<world, row, runs, colls, docs, jobs, reading, left, starts, events, hist>>

\* _index_github_file: the file is on disk at once, its record is committed
\* with the batch.
IndexFile(p) ==
    /\ s[p].pc = "index" /\ ~ Full(p)
    /\ file' = [file EXCEPT ![Entry(p)] = s[p].tree]
    /\ \/ \E d \in Found(p) :
            s' = [s EXCEPT ![p] = Indexes(p, s[p].pend \cup {d}, s[p].fresh)]
       \/ /\ Found(p) = {}
          /\ s' = [s EXCEPT ![p] = Indexes(p, s[p].pend, Append(s[p].fresh, Entry(p)))]
    /\ UNCHANGED <<world, row, runs, colls, docs, jobs, reading, left, starts, events, hist>>

\* The file cannot be written: it counts as skipped.
SkipFile(p) ==
    /\ Event
    /\ s[p].pc = "index" /\ ~ Full(p)
    /\ s' = [s EXCEPT ![p].at = Upcoming(@ + 1)]
    /\ UNCHANGED <<world, row, runs, colls, store, starts, hist>>

\* What the pending changes make of the records: some are queued again, some
\* are new.
Requeued(p) == [d \in DOMAIN docs |-> IF d \in s[p].pend THEN [docs[d] EXCEPT !.stage = "queued"]
                                                         ELSE docs[d]]
Inserted(p) == [i \in DOMAIN s[p].fresh |-> NewDoc(p, s[p].fresh[i], 0)]

\* A commit of pending records, after each batch and at the end.
Flush(p) ==
    /\ s[p].pc = "flush" \/ (s[p].pc = "index" /\ Full(p))
    /\ Len(docs) + Len(s[p].fresh) <= MaxDocs
    /\ docs' = Requeued(p) \o Inserted(p)
    /\ reading' = reading \o [i \in DOMAIN s[p].fresh |-> {}]
    /\ s' = [s EXCEPT ![p].pend = {}, ![p].fresh = <<>>,
                      ![p].pc = IF @ = "flush" THEN "index" ELSE "dispatch",
                      ![p].sent = @ \cup s[p].pend
                                    \cup (Len(docs) + 1)..(Len(docs) + Len(s[p].fresh))]
    /\ UNCHANGED <<world, row, runs, colls, file, jobs, left, starts, events, hist>>

\* Mutant of DispatchAll: the last record is forgotten.
DispatchFirst(p) ==
    /\ Goes(p, "dispatch", "finish") /\ Cardinality(Undone(p)) <= 1
    /\ UNCHANGED <<world, row, runs, colls, store, starts, events, hist>>

\* _dispatch_github_ingestion returns.
DispatchAll(p) ==
    /\ Goes(p, "dispatch", "finish") /\ Undone(p) = {}
    /\ UNCHANGED <<world, row, runs, colls, store, starts, events, hist>>

NothingIndexed(p) == s[p].count = 0

\* Mutant of Finish: the commit is read again for the row.
FinishLatest(p) ==
    /\ s[p].pc = "finish"
    /\ IF NothingIndexed(p) \/ ~ RowHere(p)
         THEN MarkFailed(p)
         ELSE /\ row' = [row EXCEPT !.status = "complete", !.sha = remote, !.files = s[p].count]
              /\ Returns(p) /\ UNCHANGED lost
    /\ UNCHANGED <<world, colls, store, starts, events, overlap, raced>>

\* The last commit, unless nothing was indexed or the row has gone.
Finish(p) ==
    /\ s[p].pc = "finish"
    /\ IF NothingIndexed(p) \/ ~ RowHere(p)
         THEN MarkFailed(p)
         ELSE /\ row' = [row EXCEPT !.status = "complete", !.sha = s[p].head, !.files = s[p].count]
              /\ Returns(p) /\ UNCHANGED lost
    /\ UNCHANGED <<world, colls, store, starts, events, overlap, raced>>

\* GitHub refuses a call, or the token has gone with its connection.
SyncFails(p) ==
    /\ \/ s[p].pc \in {"head", "download"} /\ Event
       \/ s[p].pc = "download" /\ ~ RowHere(p) /\ UNCHANGED events
    /\ MarkFailed(p)
    /\ UNCHANGED <<world, colls, store, starts, overlap, raced>>

-----------------------------------------------------------------------------
(* The connectors of the hub that list pages *)

\* The service lists its pages; NotionConnector.sync and its like.
ListPages(p) ==
    /\ s[p].pc = "list"
    /\ FindCollection(p, s[p])
    /\ runs' = [runs EXCEPT ![s[p].run].head = remote]
    /\ Meets(p)
    /\ UNCHANGED <<world, row, colls, store, starts, events, lost, raced>>

Sends(p, d) == s' = [s EXCEPT ![p].pc = "send", ![p].sent = {d}, ![p].done = {}]

\* The page is fetched and index_connector_text called: a record is used again
\* only while its file is there.
IndexPage(p) ==
    /\ s[p].pc = "page" /\ More(p)
    /\ \/ \E d \in Found(p) :
            /\ docs[d].temp # 0
            /\ docs' = [docs EXCEPT ![d].temp = remote, ![d].stage = "queued"]
            /\ Sends(p, d) /\ UNCHANGED reading
       \/ /\ Found(p) = {} \/ \E d \in Found(p) : docs[d].temp = 0
          /\ Len(docs) < MaxDocs
          /\ docs' = Append(docs, NewDoc(p, Entry(p), remote))
          /\ reading' = Append(reading, {})
          /\ Sends(p, Len(docs) + 1)
    /\ UNCHANGED <<world, row, runs, colls, file, jobs, left, starts, events, hist>>

\* The page is dispatched; without the queue run_ingest_document_record gets
\* the session where it expects the id, finds nothing and swallows the error.
SendPage(p) ==
    /\ s[p].pc = "send" /\ (Queue => Undone(p) = {})
    /\ left' = left \cup Undone(p)
    /\ s' = [s EXCEPT ![p].pc = "page", ![p].at = Upcoming(@ + 1), ![p].count = @ + 1, ![p].done = s[p].sent]
    /\ UNCHANGED <<world, row, runs, colls, docs, file, jobs, reading, starts, events, hist>>

PagesDone(p) ==
    /\ s[p].pc = "page" /\ ~ More(p) /\ Returns(p)
    /\ UNCHANGED <<world, row, colls, store, starts, events, hist>>

\* The service refuses the list or a page: what was indexed stays.
PagesFail(p) ==
    /\ s[p].pc \in {"list", "page"} /\ Event /\ Raises(p)
    /\ UNCHANGED <<world, row, colls, store, starts, hist>>

-----------------------------------------------------------------------------
(* Ingestion of a document (the module Ingestion has its detail) *)

\* The file is read, or gone: then the job fails and so do its retries.
IngestBegin(d) ==
    /\ d \in jobs /\ jobs' = jobs \ {d} /\ left' = left \ {d}
    /\ LET v == FileOf(d) IN
         /\ docs' = [docs EXCEPT ![d].stage = IF v = 0 THEN "failed" ELSE "loading"]
         /\ reading' = [reading EXCEPT ![d] = IF v = 0 THEN @ ELSE @ \cup {v}]
    /\ UNCHANGED <<world, row, runs, colls, file, s, starts, events, hist>>

\* The finally block removes whatever lies at the path of a ready document.
Cleans(d, v) ==
    /\ raced' = (raced \/ FileOf(d) > v)
    /\ file' = IF docs[d].type = "github" THEN [file EXCEPT ![docs[d].name] = 0] ELSE file

\* Its chunks are searchable and the document ready.
IngestEnd(d) ==
    /\ \E v \in reading[d] :
         /\ reading' = [reading EXCEPT ![d] = @ \ {v}]
         /\ docs' = [docs EXCEPT ![d].text = @ \cup {v}, ![d].stage = "ready", ![d].temp = 0]
         /\ Cleans(d, v)
    /\ left' = left \ {d}
    /\ UNCHANGED <<world, row, runs, colls, jobs, s, starts, events, lost, overlap>>

\* The file cannot be parsed, embedded or stored: the document has failed; or
\* the queue tries again, and another run may have made it ready meanwhile; or
\* the process dies.
IngestFails(d) ==
    /\ Event
    /\ \E v \in reading[d] :
         /\ reading' = [reading EXCEPT ![d] = @ \ {v}]
         /\ \/ /\ docs' = [docs EXCEPT ![d].stage = "failed"]
               /\ left' = left \ {d} /\ UNCHANGED <<file, jobs, raced>>
            \/ /\ jobs' = jobs \cup {d} /\ UNCHANGED left
               /\ IF docs[d].stage = "ready"
                    THEN docs' = [docs EXCEPT ![d].temp = 0] /\ Cleans(d, v)
                    ELSE UNCHANGED <<docs, file, raced>>
            \/ UNCHANGED <<docs, file, jobs, left, raced>>
    /\ UNCHANGED <<world, row, runs, colls, s, starts, lost, overlap>>

\* A thread dies with its process before it has begun.
ThreadDies(d) ==
    /\ Event /\ d \in jobs /\ jobs' = jobs \ {d} /\ left' = left \cup {d}
    /\ UNCHANGED <<world, row, runs, colls, docs, file, reading, s, starts, hist>>

-----------------------------------------------------------------------------

User ==
    \/ Authorize \/ Disconnect
    \/ \E t \in Types : HubConnect(t) \/ HubDisconnect(t)

Starts(p) == RouteSync(p) \/ MonitorSync(p) \/ \E t \in Types : HubSync(p, t)

SyncStep(p) ==
    \/ CreateCollection(p)
    \/ ReadHead(p) \/ Announce(p) \/ Download(p) \/ IndexFile(p)
    \/ Flush(p) \/ StartThreads(p) \/ Enqueue(p) \/ MarkQueued(p) \/ DispatchAll(p) \/ Finish(p)
    \/ ListPages(p) \/ IndexPage(p) \/ SendPage(p) \/ PagesDone(p)

SyncError(p) == SkipFile(p) \/ SyncFails(p) \/ DispatchFails(p) \/ PagesFail(p) \/ Break(p)

Ingest == \E d \in 1..Len(docs) : IngestBegin(d) \/ IngestEnd(d) \/ IngestFails(d) \/ ThreadDies(d)

Next ==
    \/ Push \/ User \/ Ingest
    \/ \E p \in Proc : Starts(p) \/ SyncStep(p) \/ SyncError(p)

Spec == Init /\ [][Next]_vars

-----------------------------------------------------------------------------
(* Properties *)

Syncing(p) == s[p].pc \notin {"idle", "head", "list", "create", "announce"}

\* "Sync already in progress for this repository": a row says "running" only
\* while a process syncs, unless one ended unrecorded; so does a run of the hub.
RunningMeansSyncing ==
    ~ lost =>
        /\ row.status = "running" =>
             \E p \in Proc : Syncing(p) /\ s[p].type = "github" /\ RowHere(p)
        /\ \A r \in DOMAIN runs : runs[r].status = "running" => \E p \in Proc : s[p].run = r

\* Syncs that do not overlap never give a file of the repository two records,
\* whatever is committed in between or fails.
OneRecordPerFile ==
    ~ overlap => \A d, e \in 1..Len(docs) :
        docs[d].type = "github" /\ docs[e].type = "github" /\ docs[d].name = docs[e].name => d = e

\* Version v of a document is searchable or being indexed, or its file is
\* there and the document is not called ready.
Reaches(d, v) ==
    \/ \E w \in docs[d].text \cup reading[d] : w >= v
    \/ docs[d].stage # "ready" /\ FileOf(d) >= v
Present(t, f, v) == \E d \in 1..Len(docs) : docs[d].type = t /\ docs[d].name = f /\ Reaches(d, v)

\* A row that is complete with a commit, which a later sync will find unchanged,
\* has as many files as it says of that commit, or of a newer one, in the
\* documents.
CompleteIsIndexed ==
    row.status = "complete" /\ ~ overlap /\ ~ raced
    => Cardinality({f \in Sources : Present("github", f, row.sha)}) >= row.files

\* A complete run of the hub has every page, as it was when listed or later,
\* even if syncs overlap.
CompleteRunIsIndexed ==
    ~ raced =>
        \A r \in DOMAIN runs : runs[r].status = "complete" /\ runs[r].type = "pages" =>
            \A f \in Sources : Present("pages", f, runs[r].head)

SamePage(d, e) ==
    docs[d].type = "pages" /\ docs[e].type = "pages" /\ docs[d].name = docs[e].name

\* A page gets a second record only after the first has been ingested.
FirstRecordIngested ==
    ~ overlap => \A d, e \in 1..Len(docs) : SamePage(d, e) /\ d < e =>
        \E c \in 1..d : SamePage(c, d) /\ docs[c].text # {}

\* Once syncs and the queue have come to rest no record is queued but those
\* that a dispatch left without a job (it was refused, or cut short, there were
\* more than threads, the page had no queue) or marked when their job was done,
\* and those whose thread died.
NothingLeftQueued ==
    jobs = {} /\ (\A p \in Proc : s[p].pc = "idle")
    => \A d \in 1..Len(docs) : docs[d].stage = "queued" => d \in left

\* What a row or a run says of a sync is so.
RunsAreTrue == TypeOK /\ RunningMeansSyncing

\* What is called complete is in the documents.
CompleteMeansIndexed == CompleteIsIndexed /\ CompleteRunIsIndexed

\* Syncs find the record they made before.
RecordsAreUnique == OneRecordPerFile /\ FirstRecordIngested

=============================================================================
