----------------------------- MODULE Ingestion -----------------------------
(***************************************************************************)
(* Durable document ingestion: the upload request that stores a file and   *)
(* commits a row, its dispatch to the RQ queue "ingest" or to a thread of  *)
(* the API process, the run that loads, chunks, embeds and stores the      *)
(* document batch by batch, RQ's retries, the failure hook and its dead    *)
(* letters, the recovery of stuck documents, the delete request, and the   *)
(* crash of a work horse, a worker or the API process between two steps.   *)
(*                                                                         *)
(* Processes are the RQ workers and the inline threads.  Every database    *)
(* commit, file operation and vector-store call is a step of its own, as   *)
(* they are separate transactions in the code.                             *)
(***************************************************************************)
EXTENDS Naturals

CONSTANTS
    Doc,            \* documents
    Path,           \* storage paths
    PathOf,         \* u<user>-s<session>-<pid>/<filename> of each document
    Worker,         \* RQ worker processes
    Thread,         \* inline ingestion threads of the API process
    Job,            \* RQ job ids, each used once
    NoDoc, NoJob,
    NumBatches,     \* vector batches of a document
    MaxRetries,     \* INGEST_JOB_MAX_RETRIES
    QueueEnabled,   \* ingest_queue_enabled()
    MaxFaults,      \* bound: faults and Redis outages in a behaviour
    MaxCopies       \* bound: copies of a vector that are told apart

ASSUME PathAssumption == PathOf \in [Doc -> Path]
ASSUME ProcessAssumption == Worker \cap Thread = {}
ASSUME NoneAssumption == NoDoc \notin Doc /\ NoJob \notin Job
ASSUME BoundAssumption == /\ NumBatches \in Nat \ {0}
                          /\ MaxRetries \in Nat
                          /\ MaxFaults \in Nat
                          /\ MaxCopies \in Nat \ {0}
ASSUME QueueAssumption == QueueEnabled \in BOOLEAN

VARIABLES
    stage,      \* DocumentRecord.indexing_stage; "absent" and "gone": no row
    chunks,     \* DocumentRecord.chunks_created, in batches
    file,       \* which paths hold a file
    copies,     \* vectors of each batch in the document collection
    dispatch,   \* where the request that dispatches the document stands
    deletion,   \* where the request that deletes the document stands
    polled,     \* documents a status request has just found stale
    recovered,  \* _inline_recovery_started of this API process
    job,        \* the RQ jobs
    dlq,        \* jobs with a letter waiting in "ingest-dlq"
    worker,     \* "off", "on", or "dead": gone but still registered in Redis
    pc, target, batch, held, seen,  \* the run of each process
    faults,     \* crashes and outages so far
    begun,      \* history: ingestion runs begun, up to 2
    raced       \* history: documents deleted under an active run

rowVars  == <<stage, chunks>>
diskVars == <<file, copies>>
apiVars  == <<dispatch, deletion, polled, recovered>>
rqVars   == <<job, dlq, worker>>
runVars  == <<pc, target, batch, held, seen>>
history  == <<faults, begun, raced>>
vars == <<rowVars, diskVars, apiVars, rqVars, runVars, history>>

Process == Worker \cup Thread
Batches == 1..NumBatches
Stages  == {"queued", "loading", "chunking", "embedding", "vector_store",
            "ready", "failed"}
JobStatus == {"free", "queued", "started", "abandoned", "finished", "failed"}
\* The points at which a run has read the file's existence but not finished.
Writing == {"load", "chunk", "embed", "add"}
Points  == Writing \cup {"idle", "begin", "final", "refresh", "clean",
                         "unwind", "return", "hook", "markfailed"}

DocTypes ==
    /\ stage \in [Doc -> Stages \cup {"absent", "gone"}]
    /\ chunks \in [Doc -> {0, NumBatches}]
    /\ file \in [Path -> BOOLEAN]
    /\ copies \in [Doc -> [Batches -> 0..MaxCopies]]
    /\ dispatch \in [Doc -> {"none", "pending", "enqueued", "done", "lost"}]
    /\ deletion \in [Doc -> {"none", "vectors", "row", "aborted", "done"}]
    /\ polled \subseteq Doc
    /\ recovered \subseteq Doc

JobRecord == [status: JobStatus, doc: Doc \cup {NoDoc}, left: 0..MaxRetries]

JobTypes ==
    /\ job \in [Job -> JobRecord]
    /\ dlq \subseteq Job
    /\ worker \in [Worker -> {"off", "on", "dead"}]

RunTypes ==
    /\ pc \in [Process -> Points]
    /\ target \in [Process -> Doc \cup {NoDoc}]
    /\ batch \in [Process -> Batches]
    /\ held \in [Process -> Job \cup {NoJob}]
    /\ seen \in [Process -> Stages \cup {"absent", "gone"}]

HistoryTypes ==
    /\ faults \in 0..MaxFaults
    /\ begun \in [Doc -> 0..2]
    /\ raced \subseteq Doc

TypeOK == DocTypes /\ JobTypes /\ RunTypes /\ HistoryTypes

Init ==
    /\ stage = [d \in Doc |-> "absent"]
    /\ chunks = [d \in Doc |-> 0]
    /\ file = [f \in Path |-> FALSE]
    /\ copies = [d \in Doc |-> [b \in Batches |-> 0]]
    /\ dispatch = [d \in Doc |-> "none"]
    /\ deletion = [d \in Doc |-> "none"]
    /\ polled = {}
    /\ recovered = {}
    /\ job = [j \in Job |-> [status |-> "free", doc |-> NoDoc, left |-> 0]]
    /\ dlq = {}
    /\ worker \in [Worker -> {"off", "on"}]
    /\ pc = [p \in Process |-> "idle"]
    /\ target = [p \in Process |-> NoDoc]
    /\ batch = [p \in Process |-> 1]
    /\ held = [p \in Process |-> NoJob]
    /\ seen = [p \in Process |-> "absent"]
    /\ faults = 0
    /\ begun = [d \in Doc |-> 0]
    /\ raced = {}

RowExists(d) == stage[d] \in Stages
HasFile(d)   == file[PathOf[d]]
\* No other document was uploaded under the same name in the same session.
Alone(d)     == \A e \in Doc : PathOf[e] = PathOf[d] => e = d

\* update_indexing_progress: nothing happens when the row is gone.
StageBecomes(d, s) ==
    stage' = IF RowExists(d) THEN [stage EXCEPT ![d] = s] ELSE stage

\* get_active_worker_count() = 0: a dead worker counts until Redis forgets it.
NoWorkerCounted == \A w \in Worker : worker[w] = "off"
\* get_active_worker_count() = -1 and every other outage or crash.
Fault == faults < MaxFaults /\ faults' = faults + 1

-----------------------------------------------------------------------------
(* Upload and dispatch: the API process. *)

\* upload_document up to the commit of the row.
Upload(d) ==
    /\ stage[d] = "absent"
    /\ stage' = [stage EXCEPT ![d] = "queued"]
    /\ file' = [file EXCEPT ![PathOf[d]] = TRUE]
    /\ dispatch' = [dispatch EXCEPT ![d] = "pending"]
    /\ UNCHANGED <<chunks, copies, deletion, polled, recovered,
                   rqVars, runVars, history>>

\* A fresh job for document d in the queue, with all its retries.
NewJob(j, d) ==
    /\ job[j].status = "free"
    /\ job' = [job EXCEPT ![j] = [status |-> "queued", doc |-> d,
                                  left |-> MaxRetries]]

\* dispatch_documents_ingestion with workers: queue.enqueue comes first ...
Enqueue(d, j) ==
    /\ QueueEnabled /\ ~ NoWorkerCounted
    /\ dispatch[d] = "pending"
    /\ NewJob(j, d)
    /\ dispatch' = [dispatch EXCEPT ![d] = "enqueued"]
    /\ UNCHANGED <<rowVars, diskVars, deletion, polled, recovered, dlq,
                   worker, runVars, history>>

\* ... and only then is the row marked "queued", whatever it says by now.
MarkQueued(d) ==
    /\ dispatch[d] = "enqueued"
    /\ StageBecomes(d, "queued")
    /\ dispatch' = [dispatch EXCEPT ![d] = "done"]
    /\ UNCHANGED <<chunks, diskVars, deletion, polled, recovered,
                   rqVars, runVars, history>>

\* run_ingest_inline_thread: a thread, holding no job, will ingest d.
ThreadStarts(t, d) ==
    /\ pc[t] = "idle"
    /\ pc' = [pc EXCEPT ![t] = "begin"]
    /\ target' = [target EXCEPT ![t] = d]
    /\ UNCHANGED <<batch, held, seen>>

\* No worker is counted, Redis is down, or the queue is disabled: the row is
\* marked "queued" before the thread (or background task) starts.
DispatchInline(d, t) ==
    /\ dispatch[d] = "pending"
    /\ \/ ~ QueueEnabled /\ UNCHANGED faults
       \/ QueueEnabled /\ NoWorkerCounted /\ UNCHANGED faults
       \/ QueueEnabled /\ Fault
    /\ StageBecomes(d, "queued")
    /\ ThreadStarts(t, d)
    /\ dispatch' = [dispatch EXCEPT ![d] = "done"]
    /\ UNCHANGED <<chunks, diskVars, deletion, polled, recovered,
                   rqVars, begun, raced>>

\* queue.enqueue raises: the request answers 500, the row stays "queued".
EnqueueFails(d) ==
    /\ QueueEnabled /\ dispatch[d] = "pending"
    /\ Fault
    /\ dispatch' = [dispatch EXCEPT ![d] = "lost"]
    /\ UNCHANGED <<rowVars, diskVars, deletion, polled, recovered, rqVars,
                   runVars, begun, raced>>

\* No chunks, not settled, and older than QUEUED_STALE_SECONDS or
\* MAX_INDEXING_SECONDS (time is left out).
Stale(d) == stage[d] \notin {"ready", "failed"} /\ chunks[d] = 0

\* get_document_status finds the document stale.
PollStale(d) ==
    /\ QueueEnabled /\ NoWorkerCounted
    /\ RowExists(d) /\ Stale(d)
    /\ polled' = polled \cup {d}
    /\ UNCHANGED <<rowVars, diskVars, dispatch, deletion, recovered, rqVars,
                   runVars, history>>

\* try_recover_stuck_queued_document, in the same request but later: it looks
\* at the worker count and the set again, not at the row.
Recover(d, t) ==
    /\ d \in polled /\ NoWorkerCounted /\ d \notin recovered
    /\ polled' = polled \ {d}
    /\ recovered' = recovered \cup {d}
    /\ ThreadStarts(t, d)
    /\ UNCHANGED <<rowVars, diskVars, dispatch, deletion, rqVars, history>>

\* The request gives up when a worker is back or someone else recovered d.
RecoverDeclines(d) ==
    /\ d \in polled /\ (~ NoWorkerCounted \/ d \in recovered)
    /\ polled' = polled \ {d}
    /\ UNCHANGED <<rowVars, diskVars, dispatch, deletion, recovered, rqVars,
                   runVars, history>>

-----------------------------------------------------------------------------
(* One ingestion run: ingest_document_record, process_document, store_chunks. *)

Goto(p, l) == pc' = [pc EXCEPT ![p] = l]

\* A worker takes a job; RQ sets it "started".
Take(w, j) ==
    /\ worker[w] = "on" /\ pc[w] = "idle" /\ job[j].status = "queued"
    /\ job' = [job EXCEPT ![j].status = "started"]
    /\ Goto(w, "begin")
    /\ target' = [target EXCEPT ![w] = job[j].doc]
    /\ held' = [held EXCEPT ![w] = j]
    /\ UNCHANGED <<rowVars, diskVars, apiVars, dlq, worker, batch, seen,
                   history>>

\* Mutant of Fails: a thread's failure is not written to the row.
FailsSilently(p) ==
    /\ seen' = [seen EXCEPT ![p] = stage[target[p]]]
    /\ Goto(p, "unwind")
    /\ UNCHANGED <<rowVars, diskVars, apiVars, rqVars, target, batch, held>>

\* The run ends in an exception.  A thread marks the document failed; a worker
\* leaves that to the failure hook.  Both then look at the stage they see.
Fails(p) ==
    LET d == target[p]
        s == IF RowExists(d) /\ p \in Thread THEN "failed" ELSE stage[d]
    IN  /\ stage' = [stage EXCEPT ![d] = s]
        /\ seen' = [seen EXCEPT ![p] = s]
        /\ Goto(p, "unwind")
        /\ UNCHANGED <<chunks, diskVars, apiVars, rqVars, target,
                       batch, held>>

\* The row is gone: skipped.  The file is gone: FileNotFoundError.
Begin(p) ==
    LET d == target[p] IN
    /\ pc[p] = "begin"
    /\ \/ /\ ~ RowExists(d)
          /\ Goto(p, "return")
          /\ UNCHANGED <<rowVars, diskVars, apiVars, rqVars, target, batch,
                         held, seen, history>>
       \/ RowExists(d) /\ ~ HasFile(d) /\ Fails(p) /\ UNCHANGED history
       \/ /\ RowExists(d) /\ HasFile(d)
          /\ StageBecomes(d, "loading")
          /\ Goto(p, "load")
          /\ begun' = [begun EXCEPT ![d] = IF @ = 2 THEN 2 ELSE @ + 1]
          /\ UNCHANGED <<chunks, diskVars, apiVars, rqVars, target,
                         batch, held, seen, faults, raced>>

\* load_document_parts reads the file; then stage "chunking".
Load(p) ==
    /\ pc[p] = "load" /\ RowExists(target[p]) /\ HasFile(target[p])
    /\ StageBecomes(target[p], "chunking")
    /\ Goto(p, "chunk")
    /\ UNCHANGED <<chunks, diskVars, apiVars, rqVars, target, batch,
                   held, seen, history>>

\* chunk_document_parts yields chunks; then stage "embedding".
Chunk(p) ==
    /\ pc[p] = "chunk"
    /\ StageBecomes(target[p], "embedding")
    /\ Goto(p, "embed")
    /\ batch' = [batch EXCEPT ![p] = 1]
    /\ UNCHANGED <<chunks, diskVars, apiVars, rqVars, target, held,
                   seen, history>>

\* encode_texts of one batch; the progress is committed before the vectors.
Embed(p) ==
    LET d == target[p] IN
    /\ pc[p] = "embed"
    /\ StageBecomes(d, "vector_store")
    /\ Goto(p, "add")
    /\ UNCHANGED <<chunks, diskVars, apiVars, rqVars, target, batch, held,
                   seen, history>>

\* Mutants of Add: the loop ends one batch early, or stores a batch again.
AddStopsEarly(p) ==
    LET d == target[p]
        b == batch[p]
    IN  /\ pc[p] = "add"
        /\ copies' = [copies EXCEPT ![d][b] =
                         IF @ = MaxCopies THEN MaxCopies ELSE @ + 1]
        /\ IF b + 1 >= NumBatches
             THEN Goto(p, "final") /\ UNCHANGED batch
             ELSE Goto(p, "embed") /\ batch' = [batch EXCEPT ![p] = b + 1]
        /\ UNCHANGED <<rowVars, file, apiVars, rqVars, target, held, seen,
                       history>>
AddRepeats(p) ==
    LET d == target[p]
        b == batch[p]
    IN  /\ pc[p] = "add"
        /\ copies' = [copies EXCEPT ![d][b] =
                         IF @ = MaxCopies THEN MaxCopies ELSE @ + 1]
        /\ Goto(p, IF b = NumBatches THEN "final" ELSE "embed")
        /\ UNCHANGED <<rowVars, file, apiVars, rqVars, target, batch, held,
                       seen, history>>

\* collection.add under fresh ids: earlier vectors of the batch stay.
Add(p) ==
    LET d == target[p]
        b == batch[p]
    IN  /\ pc[p] = "add"
        /\ copies' = [copies EXCEPT ![d][b] =
                         IF @ = MaxCopies THEN MaxCopies ELSE @ + 1]
        /\ IF b = NumBatches
             THEN Goto(p, "final") /\ UNCHANGED batch
             ELSE Goto(p, "embed") /\ batch' = [batch EXCEPT ![p] = b + 1]
        /\ UNCHANGED <<rowVars, file, apiVars, rqVars, target, held, seen,
                       history>>

\* Unreadable file, no text, an embedding or vector-store error, a timeout.
RunFails(p) == pc[p] \in Writing /\ Fails(p) /\ UNCHANGED history

\* mark_indexing_ready.
MarkReady(p) ==
    LET d == target[p] IN
    /\ pc[p] = "final"
    /\ StageBecomes(d, "ready")
    /\ chunks' = IF RowExists(d) THEN [chunks EXCEPT ![d] = NumBatches]
                                 ELSE chunks
    /\ Goto(p, "refresh")
    /\ UNCHANGED <<diskVars, apiVars, rqVars, target, batch, held, seen,
                   history>>

\* db.refresh raises when the row is gone; else it reads the stage as it is now.
Refresh(p) ==
    /\ pc[p] = "refresh"
    /\ IF RowExists(target[p])
         THEN /\ seen' = [seen EXCEPT ![p] = stage[target[p]]]
              /\ Goto(p, "clean")
              /\ UNCHANGED <<rowVars, diskVars, apiVars, rqVars, target,
                             batch, held>>
         ELSE Fails(p)
    /\ UNCHANGED history

\* Mutant of Cleanup: the file goes whatever became of the run.
CleanupAlways(p) ==
    /\ pc[p] \in {"clean", "unwind"}
    /\ file' = [file EXCEPT ![PathOf[target[p]]] = FALSE]
    /\ Goto(p, IF pc[p] = "unwind" /\ p \in Worker THEN "hook" ELSE "return")
    /\ UNCHANGED <<rowVars, copies, apiVars, rqVars, target, batch, held, seen,
                   history>>

\* The finally block: the file goes iff the stage is "ready" as this session
\* last read it; a thread's session has just committed and reads it again.
Cleanup(p) ==
    LET ready == IF pc[p] = "unwind" /\ p \in Thread
                   THEN stage[target[p]] = "ready" ELSE seen[p] = "ready"
    IN  /\ pc[p] \in {"clean", "unwind"}
        /\ file' = IF ready THEN [file EXCEPT ![PathOf[target[p]]] = FALSE]
                            ELSE file
        /\ Goto(p, IF pc[p] = "unwind" /\ p \in Worker THEN "hook" ELSE "return")
        /\ UNCHANGED <<rowVars, copies, apiVars, rqVars, target, batch, held,
                       seen, history>>

\* The processes in P have no run any more.
Rest(P) ==
    /\ pc' = [p \in Process |-> IF p \in P THEN "idle" ELSE pc[p]]
    /\ target' = [p \in Process |-> IF p \in P THEN NoDoc ELSE target[p]]
    /\ batch' = [p \in Process |-> IF p \in P THEN 1 ELSE batch[p]]
    /\ held' = [p \in Process |-> IF p \in P THEN NoJob ELSE held[p]]
    /\ seen' = [p \in Process |-> IF p \in P THEN "absent" ELSE seen[p]]

\* The thread ends, or RQ records the worker's job as finished.
Return(p) ==
    /\ pc[p] = "return"
    /\ Rest({p})
    /\ job' = IF held[p] \in Job THEN [job EXCEPT ![held[p]].status = "finished"]
                                 ELSE job
    /\ UNCHANGED <<rowVars, diskVars, apiVars, dlq, worker, history>>

-----------------------------------------------------------------------------
(* What RQ and on_ingestion_job_failure make of a failed run. *)

\* Mutant of Retried: the job is not rescheduled.
RetriedNever(j) ==
    /\ job[j].left > 0
    /\ job' = [job EXCEPT ![j].left = @ - 1]

\* RQ reschedules the job and spends one retry.
Retried(j) ==
    /\ job[j].left > 0
    /\ job' = [job EXCEPT ![j].status = "queued", ![j].left = @ - 1]

\* Mutant of Hook: the dead letter is written at the first failure.
HookAtOnce(w) ==
    /\ pc[w] = "hook"
    /\ dlq' = dlq \cup {held[w]}
    /\ Goto(w, "markfailed")
    /\ UNCHANGED <<rowVars, diskVars, apiVars, job, worker, target, batch, held,
                   seen, history>>

\* on_ingestion_job_failure: with retries left it returns and RQ retries; with
\* none it puts a letter in the dead-letter queue and goes on to MarkFailed.
Hook(w) ==
    /\ pc[w] = "hook"
    /\ \/ /\ Retried(held[w])
          /\ Rest({w})
          /\ UNCHANGED dlq
       \/ /\ job[held[w]].left = 0
          /\ dlq' = dlq \cup {held[w]}
          /\ Goto(w, "markfailed")
          /\ UNCHANGED <<job, target, batch, held, seen>>
    /\ UNCHANGED <<rowVars, diskVars, apiVars, worker, history>>

\* mark_indexing_failed; RQ then files the job as failed.
MarkFailed(w) ==
    /\ pc[w] = "markfailed"
    /\ StageBecomes(target[w], "failed")
    /\ job' = [job EXCEPT ![held[w]].status = "failed"]
    /\ Rest({w})
    /\ UNCHANGED <<chunks, diskVars, apiVars, dlq, worker, history>>

\* The forked work horse is killed (out of memory, say): RQ retries the job or
\* files it as failed, without calling the failure hook.
HorseKilled(w) ==
    /\ pc[w] # "idle" /\ Fault
    /\ \/ Retried(held[w])
       \/ /\ job[held[w]].left = 0
          /\ job' = [job EXCEPT ![held[w]].status = "failed"]
    /\ Rest({w})
    /\ UNCHANGED <<rowVars, diskVars, apiVars, dlq, worker, begun, raced>>

\* The whole worker dies; Redis keeps its registration and its started job.
WorkerDies(w) ==
    /\ worker[w] = "on" /\ Fault
    /\ worker' = [worker EXCEPT ![w] = "dead"]
    /\ job' = IF held[w] \in Job
                THEN [job EXCEPT ![held[w]].status = "abandoned"] ELSE job
    /\ Rest({w})
    /\ UNCHANGED <<rowVars, diskVars, apiVars, dlq, begun, raced>>

\* The registration's time to live runs out.
RegistrationExpires(w) ==
    /\ worker[w] = "dead"
    /\ worker' = [worker EXCEPT ![w] = "off"]
    /\ UNCHANGED <<rowVars, diskVars, apiVars, job, dlq, runVars, history>>

\* worker_supervisor runs app.worker again.
WorkerStarts(w) ==
    /\ worker[w] = "off"
    /\ worker' = [worker EXCEPT ![w] = "on"]
    /\ UNCHANGED <<rowVars, diskVars, apiVars, job, dlq, runVars, history>>

\* A live worker's registry clean-up finds an abandoned job: RQ calls the
\* hook, then retries the job or files it as failed.
Reclaim(j) ==
    /\ job[j].status = "abandoned" /\ \E w \in Worker : worker[w] = "on"
    /\ \/ Retried(j) /\ UNCHANGED <<stage, dlq>>
       \/ /\ job[j].left = 0
          /\ dlq' = dlq \cup {j}
          /\ StageBecomes(job[j].doc, "failed")
          /\ job' = [job EXCEPT ![j].status = "failed"]
    /\ UNCHANGED <<chunks, diskVars, apiVars, worker, runVars, history>>

\* The worker also serves "ingest-dlq", after "ingest": record_dead_letter
\* logs the letter and the letter is gone from the queue.
TakeDeadLetter(w, j) ==
    /\ worker[w] = "on" /\ pc[w] = "idle" /\ j \in dlq
    /\ \A k \in Job : job[k].status # "queued"
    /\ dlq' = dlq \ {j}
    /\ UNCHANGED <<rowVars, diskVars, apiVars, job, worker, runVars, history>>

\* Mutant of Requeue: the old job itself goes back to the queue.
RequeueSame(i, j) ==
    /\ QueueEnabled /\ job[i].status # "free" /\ job[j].status = "free"
    /\ job' = [job EXCEPT ![i].status = "queued", ![i].left = MaxRetries]
    /\ UNCHANGED <<rowVars, diskVars, apiVars, dlq, worker, runVars, history>>

\* requeue_failed_job: a new job for the document of an old one.  The code
\* fetches the old job whatever its status, and leaves the row alone.
Requeue(i, j) ==
    /\ QueueEnabled /\ job[i].status # "free"
    /\ NewJob(j, job[i].doc)
    /\ UNCHANGED <<rowVars, diskVars, apiVars, dlq, worker, runVars, history>>

-----------------------------------------------------------------------------
(* Delete (_delete_document_record) and the crash of the API process. *)

\* os.remove of the stored file.
DeleteFile(d) ==
    /\ RowExists(d) /\ deletion[d] \in {"none", "aborted"}
    /\ file' = [file EXCEPT ![PathOf[d]] = FALSE]
    /\ deletion' = [deletion EXCEPT ![d] = "vectors"]
    /\ UNCHANGED <<rowVars, copies, dispatch, polled, recovered, rqVars,
                   runVars, history>>

\* get and delete of the document's vectors as they are now.
DeleteVectors(d) ==
    /\ deletion[d] = "vectors"
    /\ copies' = [copies EXCEPT ![d] = [b \in Batches |-> 0]]
    /\ deletion' = [deletion EXCEPT ![d] = "row"]
    /\ raced' = IF \E p \in Process : target[p] = d /\ pc[p] \in Writing
                  THEN raced \cup {d} ELSE raced
    /\ UNCHANGED <<rowVars, file, dispatch, polled, recovered, rqVars, runVars,
                   faults, begun>>

\* db.delete and commit.
DeleteRow(d) ==
    /\ deletion[d] = "row"
    /\ stage' = [stage EXCEPT ![d] = "gone"]
    /\ deletion' = [deletion EXCEPT ![d] = "done"]
    /\ UNCHANGED <<chunks, diskVars, dispatch, polled, recovered,
                   rqVars, runVars, history>>

\* The vector store or the database raises: the row stays, half deleted.
DeleteFails(d) ==
    /\ deletion[d] \in {"vectors", "row"}
    /\ deletion' = [deletion EXCEPT ![d] = "aborted"]
    /\ UNCHANGED <<rowVars, diskVars, dispatch, polled, recovered, rqVars,
                   runVars, history>>

\* Requests and threads are lost, and the set of recovered documents with them.
ApiCrashes ==
    /\ Fault
    /\ dispatch' = [d \in Doc |-> IF dispatch[d] \in {"pending", "enqueued"}
                                    THEN "lost" ELSE dispatch[d]]
    /\ deletion' = [d \in Doc |-> IF deletion[d] \in {"vectors", "row"}
                                    THEN "aborted" ELSE deletion[d]]
    /\ polled' = {}
    /\ recovered' = {}
    /\ Rest(Thread)
    /\ UNCHANGED <<rowVars, diskVars, rqVars, begun, raced>>

-----------------------------------------------------------------------------
\* A step of the run of process p.
RunStep(p) ==
    \/ Begin(p) \/ Load(p) \/ Chunk(p) \/ Embed(p) \/ Add(p) \/ RunFails(p)
    \/ MarkReady(p) \/ Refresh(p) \/ Cleanup(p) \/ Return(p)

WorkerStep(w) ==
    \/ RunStep(w) \/ Hook(w) \/ MarkFailed(w)
    \/ \E j \in Job : Take(w, j) \/ TakeDeadLetter(w, j)

ApiStep(d) ==
    \/ MarkQueued(d)
    \/ \E j \in Job : Enqueue(d, j)
    \/ \E t \in Thread : DispatchInline(d, t)

Next ==
    \/ \E d \in Doc :
          \/ Upload(d) \/ ApiStep(d) \/ EnqueueFails(d)
          \/ PollStale(d) \/ RecoverDeclines(d)
          \/ \E t \in Thread : Recover(d, t)
          \/ DeleteFile(d) \/ DeleteVectors(d) \/ DeleteRow(d) \/ DeleteFails(d)
    \/ \E t \in Thread : RunStep(t)
    \/ \E w \in Worker :
          \/ WorkerStep(w) \/ HorseKilled(w) \/ WorkerDies(w)
          \/ RegistrationExpires(w) \/ WorkerStarts(w)
    \/ \E j \in Job : Reclaim(j) \/ \E i \in Job : Requeue(i, j)
    \/ ApiCrashes

Spec == Init /\ [][Next]_vars

-----------------------------------------------------------------------------
(* Properties *)

\* A process with a run has a document, a worker with a run has a job, a job
\* that is held is in use, and a job in use was made for a document.
Wired ==
    /\ \A p \in Process : pc[p] # "idle" => target[p] \in Doc
    /\ \A w \in Worker : pc[w] # "idle" => held[w] \in Job
    /\ \A p \in Process : held[p] \in Job => job[held[p]].status # "free"
    /\ \A j \in Job : job[j].status # "free" => job[j].doc \in Doc

\* A document that says it has chunks is searchable: every batch has a vector,
\* unless a delete request has touched the document.  (mark_indexing_ready is
\* reached only through store_chunks, and nothing else removes vectors.)
ReadyIsSearchable ==
    \A d \in Doc : RowExists(d) /\ chunks[d] > 0 /\ deletion[d] = "none"
                     => \A b \in Batches : copies[d][b] > 0

\* As long as a document is not indexed its file stays, so that a retry, a
\* requeue or a recovery can still succeed; a document that shares its path
\* with another is not so lucky.
UnindexedKeepsFile ==
    \A d \in Doc : Alone(d) /\ RowExists(d) /\ chunks[d] = 0
                     /\ deletion[d] = "none" => HasFile(d)

\* A deleted document leaves vectors behind only if a run was writing them
\* while the delete request removed them.
OrphansOnlyFromRace ==
    \A d \in Doc : Alone(d) /\ stage[d] = "gone" /\ d \notin raced
                     => \A b \in Batches : copies[d][b] = 0

\* A batch is stored twice only when the document was ingested twice: one run
\* adds each batch once, however it interleaves with others.
DuplicatesNeedTwoRuns ==
    \A d \in Doc : (\E b \in Batches : copies[d][b] > 1) => begun[d] > 1

\* A started job is held by exactly one running worker, and a running worker
\* holds a started job for its own document.
JobsHaveOneHolder ==
    /\ \A j \in Job : job[j].status = "started" =>
          \E w \in Worker : held[w] = j /\ \A v \in Worker : held[v] = j => v = w
    /\ \A w \in Worker : pc[w] # "idle" =>
          /\ held[w] \in Job
          /\ job[held[w]].status = "started" /\ job[held[w]].doc = target[w]

\* A dead letter is written, and a run comes to the point where the hook marks
\* the document failed, only when no retry is left.
DeadLettersAreExhausted ==
    /\ \A j \in dlq : job[j].left = 0 /\ job[j].status \in {"started", "abandoned", "failed"}
    /\ \A w \in Worker : pc[w] = "markfailed" => job[held[w]].left = 0

\* Mutant of StatusOf: the raw stage, as indexing-summary counts it.
StatusFromStage(d) ==
    IF stage[d] \in {"absent", "gone", "failed", "ready"} THEN stage[d]
    ELSE "indexing"

\* document_status_payload: chunks win over every stage but "failed".
StatusOf(d) ==
    IF stage[d] \in {"absent", "gone", "failed"} THEN stage[d]
    ELSE IF stage[d] = "ready" \/ chunks[d] > 0 THEN "ready"
    ELSE "indexing"

\* The queue: one holder of a job, and letters of exhausted jobs only.
QueueIsSound == TypeOK /\ JobsHaveOneHolder /\ DeadLettersAreExhausted

\* The vector store: neither orphans nor duplicates out of one run.
ChunksAreAccounted == OrphansOnlyFromRace /\ DuplicatesNeedTwoRuns

\* What the polling client sees is the promised life cycle.
Lifecycle == INSTANCE DocumentLifecycle WITH status <- [d \in Doc |-> StatusOf(d)]
ImplementsLifecycle == Lifecycle!Spec

\* Chunks once counted stay counted while the row exists: no retry, requeue,
\* late "queued" mark or failure takes an indexed document back.
ChunksNeverForgotten ==
    [][\A d \in Doc : chunks[d] > 0 => chunks'[d] = chunks[d]]_vars

\* A finished or failed job never runs again: a requeue makes a new one.
EndedJobsStayEnded ==
    [][\A j \in Job : job[j].status \in {"finished", "failed"}
                        => job'[j] = job[j]]_vars

\* What is indexed and what has ended is taken back by nothing.
NothingTakenBack == ChunksNeverForgotten /\ EndedJobsStayEnded

\* The API process and the workers keep running, the supervisor restarts a
\* worker, Redis forgets a dead one, and RQ cleans its registries.
FairSpec ==
    /\ Spec
    /\ \A d \in Doc : WF_vars(ApiStep(d))
    /\ \A t \in Thread : WF_vars(RunStep(t))
    /\ \A w \in Worker : /\ WF_vars(WorkerStep(w))
                         /\ WF_vars(WorkerStarts(w))
                         /\ WF_vars(RegistrationExpires(w))
    /\ \A j \in Job : WF_vars(Reclaim(j))

\* Every queued job ends, through retries, kills and worker crashes.
JobsEnd ==
    \A j \in Job : job[j].status = "queued"
                      ~> job[j].status \in {"finished", "failed"}

\* A document marked "queued" after its job had ended: nothing will take it up.
Stranded(d) ==
    /\ stage[d] = "queued" /\ dispatch[d] = "done"
    /\ \A j \in Job : job[j].doc = d => job[j].status \in {"finished", "failed"}
    /\ \A p \in Process : target[p] # d

\* Every accepted document settles: ready, failed or deleted, through failures
\* of runs, retries and recoveries; the late "queued" mark may strand it, and
\* so may an outage or a crash.
DocumentsSettle ==
    \A d \in Doc : StatusOf(d) = "indexing"
                      ~> StatusOf(d) \in {"ready", "failed", "gone"} \/ Stranded(d) \/ faults > 0

=============================================================================
