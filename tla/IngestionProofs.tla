-------------------------- MODULE IngestionProofs --------------------------
(* Theorems about Ingestion for every value of its constants. *)
EXTENDS Ingestion, TLAPS

-----------------------------------------------------------------------------
(* Lemmas about the operators the actions share. *)

\* Processes put to rest keep well-typed runs, and the others keep theirs.
LEMMA RestTypes ==
    ASSUME RunTypes, NEW P, Rest(P)
    PROVE  /\ RunTypes'
           /\ \A p \in Process : pc'[p] # "idle" =>
                 pc[p] # "idle" /\ target'[p] = target[p]
           /\ \A p \in Process : held'[p] \in Job => held'[p] = held[p]
           /\ \A p \in Process : pc'[p] # "idle" => held'[p] = held[p]
BY NoneAssumption, BoundAssumption
   DEF RunTypes, Rest, Process, Points, Writing, Batches, Stages

\* Moving one process to a known point.
LEMMA GotoTypes ==
    ASSUME RunTypes, NEW p, NEW l \in Points, Goto(p, l)
    PROVE  pc' \in [Process -> Points]
BY DEF RunTypes, Goto

\* A stage written through update_indexing_progress is a stage.
LEMMA StageTypes ==
    ASSUME DocTypes, NEW d, NEW s \in Stages, StageBecomes(d, s)
    PROVE  stage' \in [Doc -> Stages \cup {"absent", "gone"}]
BY DEF DocTypes, StageBecomes

\* A failing run writes and sees only stages.
LEMMA FailsTypes ==
    ASSUME DocTypes, RunTypes, NEW p \in Process, target[p] \in Doc, Fails(p)
    PROVE  stage' \in [Doc -> Stages \cup {"absent", "gone"}] /\ RunTypes'
<1> DEFINE d == target[p]
           s == IF RowExists(d) /\ p \in Thread THEN "failed" ELSE stage[d]
<1>1. s \in Stages \cup {"absent", "gone"}
  BY DEF DocTypes, Stages
<1>2. stage' = [stage EXCEPT ![d] = s] /\ seen' = [seen EXCEPT ![p] = s]
  BY DEF Fails
<1>3. UNCHANGED <<target, batch, held>> /\ pc' = [pc EXCEPT ![p] = "unwind"]
  BY DEF Fails, Goto
<1> QED
  BY <1>1, <1>2, <1>3 DEF DocTypes, RunTypes, Points, Writing

\* A run that fails keeps its target a document.
LEMMA FailsWired ==
    ASSUME RunTypes, Wired, NEW p \in Process, target[p] \in Doc, pc[p] # "idle",
           Fails(p)
    PROVE  Wired'
<1>1. /\ UNCHANGED <<target, held, job>>
      /\ pc' = [pc EXCEPT ![p] = "unwind"]
  BY DEF Fails, Goto, rqVars
<1> QED
  BY <1>1 DEF RunTypes, Wired, Process

\* Jobs in use stay in use and were made for documents.
JobsKept ==
    /\ job' \in [Job -> JobRecord]
    /\ \A k \in Job : job'[k].status # "free" => job'[k].doc \in Doc
    /\ \A k \in Job : job[k].status # "free" => job'[k].status # "free"

\* Setting the status of a job in use keeps the jobs.
LEMMA StatusTypes ==
    ASSUME job \in [Job -> JobRecord], Wired,
           NEW j \in Job, NEW s \in JobStatus \ {"free"},
           job[j].status # "free", job' = [job EXCEPT ![j].status = s]
    PROVE  JobsKept
<1>1. \A k \in Job : job[k] \in JobRecord
  OBVIOUS
<1>2. [job[j] EXCEPT !.status = s] \in JobRecord
  BY <1>1 DEF JobRecord
<1>3. \A k \in Job : job'[k] = IF k = j THEN [job[j] EXCEPT !.status = s] ELSE job[k]
  OBVIOUS
<1>4. [job[j] EXCEPT !.status = s].doc = job[j].doc
  BY <1>1 DEF JobRecord
<1>5. [job[j] EXCEPT !.status = s].status = s
  BY <1>1 DEF JobRecord
<1> QED
  BY <1>1, <1>2, <1>3, <1>4, <1>5 DEF JobsKept, Wired

\* So does a retry.
LEMMA RetriedTypes ==
    ASSUME job \in [Job -> JobRecord], Wired, NEW j \in Job,
           job[j].status # "free", Retried(j)
    PROVE  JobsKept
<1>1. \A k \in Job : job[k] \in JobRecord
  OBVIOUS
<1> DEFINE r == [job[j] EXCEPT !.status = "queued", !.left = @ - 1]
<1>2. r \in JobRecord /\ r.doc = job[j].doc /\ r.status = "queued"
  BY <1>1, BoundAssumption DEF JobRecord, JobStatus, Retried
<1>3. \A k \in Job : job'[k] = IF k = j THEN r ELSE job[k]
  BY DEF Retried
<1>4. job' = [k \in Job |-> IF k = j THEN r ELSE job[k]]
  BY DEF Retried
<1> HIDE DEF r
<1> QED
  BY <1>1, <1>2, <1>3, <1>4 DEF JobsKept, Wired

\* A new job for a document is a job of that document.
LEMMA NewJobTypes ==
    ASSUME job \in [Job -> JobRecord], Wired, NEW j \in Job, NEW d \in Doc,
           NewJob(j, d)
    PROVE  JobsKept
<1>1. [status |-> "queued", doc |-> d, left |-> MaxRetries] \in JobRecord
  BY BoundAssumption DEF JobRecord, JobStatus
<1> QED
  BY <1>1 DEF NewJob, JobsKept, Wired

-----------------------------------------------------------------------------
(* Types. *)

\* The typing invariant that is inductive: a failing run writes the row of its
\* target, so its target has to be a document.
TypeInv == TypeOK /\ Wired

\* The types hold to begin with.
LEMMA TypeInvInit == Init => TypeInv
BY ProcessAssumption, NoneAssumption, BoundAssumption
   DEF Init, TypeInv, Wired, TypeOK, DocTypes, JobTypes, JobRecord, RunTypes,
       HistoryTypes, Batches, Points, Writing, JobStatus, Stages, Process

\* Every step keeps them.
LEMMA TypeInvNext == TypeInv /\ [Next]_vars => TypeInv'
<1> USE PathAssumption, ProcessAssumption, NoneAssumption, BoundAssumption
<1> SUFFICES ASSUME TypeInv, [Next]_vars PROVE TypeInv'
  OBVIOUS
<1> USE DEF TypeInv, TypeOK, Wired, Process, 
            rowVars, diskVars, apiVars, rqVars, runVars, history
<1>1. ASSUME NEW d \in Doc, Upload(d) PROVE TypeInv'
  BY <1>1 DEF Upload, DocTypes, JobTypes, RunTypes, HistoryTypes, Points,
     Writing, JobStatus, Stages, Batches
<1>2. ASSUME NEW d \in Doc, MarkQueued(d) PROVE TypeInv'
  BY <1>2 DEF MarkQueued, StageBecomes, RowExists, DocTypes, JobTypes,
     RunTypes, HistoryTypes, Points, Writing, JobStatus, Stages, Batches
<1>3. ASSUME NEW d \in Doc, NEW j \in Job, Enqueue(d, j) PROVE TypeInv'
  <2>1. JobsKept
    BY <1>3, NewJobTypes DEF Enqueue, JobTypes
  <2>2. Wired'
    BY <1>3, <2>1 DEF Enqueue, JobsKept
  <2> QED
    BY <1>3, <2>1, <2>2
       DEF Enqueue, DocTypes, JobTypes, RunTypes, HistoryTypes, JobsKept
<1>4. ASSUME NEW d \in Doc, NEW t \in Thread, DispatchInline(d, t) PROVE TypeInv'
  <2>1. stage' \in [Doc -> Stages \cup {"absent", "gone"}]
    BY <1>4, StageTypes DEF DispatchInline, Stages
  <2>2. RunTypes'
    BY <1>4 DEF DispatchInline, ThreadStarts, RunTypes, Points
  <2>3. HistoryTypes'
    BY <1>4 DEF DispatchInline, Fault, HistoryTypes
  <2>4. Wired'
    BY <1>4 DEF DispatchInline, ThreadStarts, RunTypes
  <2> QED
    BY <1>4, <2>1, <2>2, <2>3, <2>4 DEF DispatchInline, DocTypes, JobTypes
<1>5. ASSUME NEW d \in Doc, EnqueueFails(d) PROVE TypeInv'
  BY <1>5 DEF EnqueueFails, Fault, DocTypes, JobTypes, RunTypes, HistoryTypes,
     Points, Writing, JobStatus, Stages, Batches
<1>6. ASSUME NEW d \in Doc, PollStale(d) PROVE TypeInv'
  BY <1>6 DEF PollStale, Stale, DocTypes, JobTypes, RunTypes, HistoryTypes, Points,
     Writing, JobStatus, Stages, Batches
<1>7. ASSUME NEW d \in Doc, RecoverDeclines(d) PROVE TypeInv'
  BY <1>7 DEF RecoverDeclines, DocTypes, JobTypes, RunTypes, HistoryTypes,
     Points, Writing, JobStatus, Stages, Batches
<1>8. ASSUME NEW d \in Doc, NEW t \in Thread, Recover(d, t) PROVE TypeInv'
  BY <1>8 DEF Recover, ThreadStarts, DocTypes, JobTypes, RunTypes,
     HistoryTypes, Points, Writing, JobStatus, Stages, Batches
<1>9. ASSUME NEW d \in Doc, DeleteFile(d) PROVE TypeInv'
  BY <1>9 DEF DeleteFile, DocTypes, JobTypes, RunTypes, HistoryTypes, Points,
     Writing, JobStatus, Stages, Batches
<1>10. ASSUME NEW d \in Doc, DeleteVectors(d) PROVE TypeInv'
  BY <1>10 DEF DeleteVectors, DocTypes, JobTypes, RunTypes, HistoryTypes,
     Points, Writing, JobStatus, Stages, Batches
<1>11. ASSUME NEW d \in Doc, DeleteRow(d) PROVE TypeInv'
  BY <1>11 DEF DeleteRow, DocTypes, JobTypes, RunTypes, HistoryTypes, Points,
     Writing, JobStatus, Stages, Batches
<1>12. ASSUME NEW d \in Doc, DeleteFails(d) PROVE TypeInv'
  BY <1>12 DEF DeleteFails, DocTypes, JobTypes, RunTypes, HistoryTypes,
     Points, Writing, JobStatus, Stages, Batches
<1>13. ASSUME NEW p \in Process, Begin(p) PROVE TypeInv'
  <2> DEFINE d == target[p]
  <2>0. d \in Doc
    BY <1>13 DEF Begin
  <2>1. CASE ~ RowExists(d)
    BY <1>13, <2>0, <2>1 DEF Begin, Goto, DocTypes, JobTypes, RunTypes,
       HistoryTypes,
       Points, Fails
  <2>2. CASE RowExists(d) /\ ~ HasFile(d)
    <3>1. Fails(p) /\ UNCHANGED history
      BY <1>13, <2>2 DEF Begin
    <3> QED
      BY <1>13, <2>0, <3>1, FailsTypes, FailsWired DEF Begin, Refresh,
         RunFails, Writing, Fails, DocTypes, JobTypes, HistoryTypes
  <2>3. CASE RowExists(d) /\ HasFile(d)
    <3>1. begun' \in [Doc -> 0..2]
      BY <1>13, <2>3 DEF Begin, HistoryTypes
    <3>2. stage' \in [Doc -> Stages \cup {"absent", "gone"}]
      BY <1>13, <2>3, StageTypes DEF Begin, Stages
    <3>3. pc' = [pc EXCEPT ![p] = "load"] /\ UNCHANGED <<target, batch, held, seen>>
      BY <1>13, <2>3 DEF Begin, Goto
    <3>4. RunTypes'
      BY <3>3 DEF RunTypes, Points, Writing
    <3>5. UNCHANGED <<chunks, file, copies, dispatch, deletion, polled, recovered>>
          /\ UNCHANGED <<job, dlq, worker, faults, raced>>
      BY <1>13, <2>3 DEF Begin
    <3>6. Wired'
      BY <1>13, <2>0, <3>3, <3>5 DEF Begin, RunTypes
    <3> QED
      BY <3>1, <3>2, <3>4, <3>5, <3>6 DEF DocTypes, JobTypes, HistoryTypes
  <2> QED
    BY <2>1, <2>2, <2>3
<1>14. ASSUME NEW p \in Process, Load(p) PROVE TypeInv'
  BY <1>14 DEF Load, Goto, StageBecomes, RowExists, DocTypes, JobTypes,
     RunTypes, HistoryTypes, Points, Writing, JobStatus, Stages, Batches
<1>15. ASSUME NEW p \in Process, Chunk(p) PROVE TypeInv'
  BY <1>15 DEF Chunk, Goto, StageBecomes, RowExists, DocTypes, JobTypes,
     RunTypes, HistoryTypes, Points, Writing, JobStatus, Stages, Batches
<1>16. ASSUME NEW p \in Process, Embed(p) PROVE TypeInv'
  BY <1>16 DEF Embed, Goto, StageBecomes, RowExists, DocTypes, JobTypes,
     RunTypes, HistoryTypes, Points, Writing, JobStatus, Stages, Batches
<1>17. ASSUME NEW p \in Process, Add(p) PROVE TypeInv'
  <2>1. copies' \in [Doc -> [Batches -> 0..MaxCopies]]
    <3> DEFINE d == target[p]
               b == batch[p]
               n == IF copies[d][b] = MaxCopies THEN MaxCopies ELSE copies[d][b] + 1
    <3>1. d \in Doc /\ b \in Batches
      BY <1>17 DEF Add, RunTypes
    <3>2. copies[d][b] \in 0..MaxCopies
      BY <3>1 DEF DocTypes
    <3>3. n \in 0..MaxCopies
      BY <3>2
    <3>4. copies' = [copies EXCEPT ![d][b] = n]
      BY <1>17 DEF Add
    <3> HIDE DEF d, b, n
    <3> QED
      BY <3>1, <3>3, <3>4 DEF DocTypes
  <2>2. batch' \in [Process -> Batches]
    BY <1>17 DEF Add, RunTypes, Batches
  <2>3. pc' \in [Process -> Points]
    BY <1>17 DEF Add, Goto, RunTypes, Points, Writing
  <2>4. Wired'
    BY <1>17 DEF Add, Goto, RunTypes
  <2> QED
    BY <1>17, <2>1, <2>2, <2>3, <2>4 DEF Add, DocTypes, JobTypes, RunTypes,
       HistoryTypes
<1>18. ASSUME NEW p \in Process, RunFails(p) PROVE TypeInv'
  <2>1. target[p] \in Doc
    BY <1>18 DEF RunFails, Writing
  <2>2. Fails(p) /\ UNCHANGED history
    BY <1>18 DEF RunFails
  <2> QED
    BY <1>18, <2>1, <2>2, FailsTypes, FailsWired DEF Begin, Refresh,
       RunFails, Writing, Fails, DocTypes, JobTypes, HistoryTypes
<1>19. ASSUME NEW p \in Process, MarkReady(p) PROVE TypeInv'
  BY <1>19 DEF MarkReady, Goto, StageBecomes, RowExists, DocTypes, JobTypes,
     RunTypes, HistoryTypes, Points, Writing, JobStatus, Stages, Batches
<1>20. ASSUME NEW p \in Process, Refresh(p) PROVE TypeInv'
  <2>1. target[p] \in Doc
    BY <1>20 DEF Refresh
  <2>2. CASE RowExists(target[p])
    <3>1. pc' = [pc EXCEPT ![p] = "clean"] /\ seen' = [seen EXCEPT ![p] = stage[target[p]]]
      BY <1>20, <2>2 DEF Refresh, Goto
    <3>2. UNCHANGED <<rowVars, diskVars, apiVars, rqVars, target, batch, held, history>>
      BY <1>20, <2>2 DEF Refresh
    <3>3. RunTypes'
      BY <2>1, <3>1, <3>2 DEF RunTypes, DocTypes, Points
    <3>4. Wired'
      BY <1>20, <2>1, <3>1, <3>2 DEF Refresh, RunTypes
    <3> QED
      BY <3>2, <3>3, <3>4 DEF DocTypes, JobTypes, HistoryTypes
  <2>3. CASE ~ RowExists(target[p])
    <3>1. Fails(p) /\ UNCHANGED history
      BY <1>20, <2>3 DEF Refresh
    <3> QED
      BY <1>20, <2>1, <3>1, FailsTypes, FailsWired DEF Begin, Refresh,
         RunFails, Writing, Fails, DocTypes, JobTypes, HistoryTypes
  <2> QED
    BY <2>2, <2>3
<1>21. ASSUME NEW p \in Process, Cleanup(p) PROVE TypeInv'
  BY <1>21 DEF Cleanup, Goto, DocTypes, JobTypes, RunTypes, HistoryTypes,
     Points, Writing, JobStatus, Stages, Batches
<1>22. ASSUME NEW p \in Process, Return(p) PROVE TypeInv'
  <2>1. RunTypes'
    BY <1>22, RestTypes DEF Return
  <2>2. JobsKept
    <3>1. CASE held[p] \in Job
      BY <1>22, <3>1, StatusTypes DEF Return, JobTypes, JobStatus
    <3>2. CASE held[p] \notin Job
      BY <1>22, <3>2 DEF Return, JobTypes, JobsKept
    <3> QED
      BY <3>1, <3>2
  <2>3. Wired'
    BY <1>22, <2>2, RestTypes DEF Return, JobsKept
  <2> QED
    BY <1>22, <2>1, <2>2, <2>3 DEF Return, DocTypes, JobTypes, HistoryTypes,
       JobsKept
<1>23. ASSUME NEW w \in Worker, Hook(w) PROVE TypeInv'
  <2>1. held[w] \in Job /\ job[held[w]].status # "free"
    BY <1>23 DEF Hook
  <2>2. CASE Retried(held[w]) /\ Rest({w}) /\ UNCHANGED dlq
    <3>1. RunTypes' /\ JobsKept
      BY <2>1, <2>2, RestTypes, RetriedTypes DEF JobTypes
    <3>2. Wired'
      BY <2>2, <3>1, RestTypes DEF JobsKept
    <3> QED
      BY <1>23, <2>2, <3>1, <3>2
         DEF Hook, DocTypes, JobTypes, HistoryTypes, JobsKept
  <2>3. CASE ~ (Retried(held[w]) /\ Rest({w}) /\ UNCHANGED dlq)
    <3>1. /\ dlq' = dlq \cup {held[w]} /\ pc' = [pc EXCEPT ![w] = "markfailed"]
          /\ UNCHANGED <<job, target, batch, held, seen>>
      BY <1>23, <2>3 DEF Hook, Goto
    <3>2. UNCHANGED <<rowVars, diskVars, apiVars, worker, history>>
      BY <1>23 DEF Hook
    <3>3. RunTypes' /\ JobTypes'
      BY <2>1, <3>1, <3>2 DEF RunTypes, JobTypes, Points
    <3>4. Wired'
      BY <1>23, <3>1, <3>2 DEF Hook, RunTypes
    <3> QED
      BY <3>2, <3>3, <3>4 DEF DocTypes, HistoryTypes
  <2> QED
    BY <2>2, <2>3
<1>24. ASSUME NEW w \in Worker, MarkFailed(w) PROVE TypeInv'
  <2>1. held[w] \in Job /\ job[held[w]].status # "free"
    BY <1>24 DEF MarkFailed
  <2>2. RunTypes' /\ JobsKept
    BY <1>24, <2>1, RestTypes, StatusTypes DEF MarkFailed, JobTypes, JobStatus
  <2>3. stage' \in [Doc -> Stages \cup {"absent", "gone"}]
    BY <1>24, StageTypes DEF MarkFailed, Stages
  <2>4. Wired'
    BY <1>24, <2>2, RestTypes DEF MarkFailed, JobsKept
  <2> QED
    BY <1>24, <2>2, <2>3, <2>4
       DEF MarkFailed, DocTypes, JobTypes, HistoryTypes, JobsKept
<1>25. ASSUME NEW w \in Worker, NEW j \in Job, Take(w, j) PROVE TypeInv'
  <2>1. JobsKept
    BY <1>25, StatusTypes DEF Take, JobTypes, JobStatus
  <2>2. RunTypes'
    BY <1>25 DEF Take, Goto, RunTypes, JobTypes, JobRecord, Points
  <2>3. Wired'
    BY <1>25, <2>1 DEF Take, Goto, RunTypes, JobsKept
  <2> QED
    BY <1>25, <2>1, <2>2, <2>3 DEF Take, DocTypes, JobTypes, HistoryTypes, JobsKept
<1>26. ASSUME NEW w \in Worker, NEW j \in Job, TakeDeadLetter(w, j) PROVE TypeInv'
  BY <1>26 DEF TakeDeadLetter, DocTypes, JobTypes, RunTypes, HistoryTypes,
     Points, Writing, JobStatus, Stages, Batches
<1>27. ASSUME NEW w \in Worker, HorseKilled(w) PROVE TypeInv'
  <2>1. held[w] \in Job /\ job[held[w]].status # "free"
    BY <1>27 DEF HorseKilled
  <2>2. RunTypes'
    BY <1>27, RestTypes DEF HorseKilled
  <2>3. JobsKept
    BY <1>27, <2>1, RetriedTypes, StatusTypes DEF HorseKilled, JobTypes, JobStatus
  <2>4. Wired'
    BY <1>27, <2>3, RestTypes DEF HorseKilled, JobsKept
  <2>5. HistoryTypes'
    BY <1>27 DEF HorseKilled, Fault, HistoryTypes
  <2> QED
    BY <1>27, <2>2, <2>3, <2>4, <2>5 DEF HorseKilled, DocTypes, JobTypes, JobsKept
<1>28. ASSUME NEW w \in Worker, WorkerDies(w) PROVE TypeInv'
  <2>1. RunTypes'
    BY <1>28, RestTypes DEF WorkerDies
  <2>2. JobsKept
    <3>1. CASE held[w] \in Job
      BY <1>28, <3>1, StatusTypes DEF WorkerDies, JobTypes, JobStatus
    <3>2. CASE held[w] \notin Job
      BY <1>28, <3>2 DEF WorkerDies, JobTypes, JobsKept
    <3> QED
      BY <3>1, <3>2
  <2>3. Wired'
    BY <1>28, <2>2, RestTypes DEF WorkerDies, JobsKept
  <2>4. HistoryTypes'
    BY <1>28 DEF WorkerDies, Fault, HistoryTypes
  <2> QED
    BY <1>28, <2>1, <2>2, <2>3, <2>4 DEF WorkerDies, DocTypes, JobTypes, JobsKept
<1>29. ASSUME NEW w \in Worker, RegistrationExpires(w) PROVE TypeInv'
  BY <1>29 DEF RegistrationExpires, DocTypes, JobTypes, RunTypes,
     HistoryTypes, Points, Writing, JobStatus, Stages, Batches
<1>30. ASSUME NEW w \in Worker, WorkerStarts(w) PROVE TypeInv'
  BY <1>30 DEF WorkerStarts, DocTypes, JobTypes, RunTypes, HistoryTypes,
     Points, Writing, JobStatus, Stages, Batches
<1>31. ASSUME NEW j \in Job, Reclaim(j) PROVE TypeInv'
  <2>1. JobsKept
    BY <1>31, RetriedTypes, StatusTypes DEF Reclaim, JobTypes, JobStatus
  <2>2. stage' \in [Doc -> Stages \cup {"absent", "gone"}]
    BY <1>31, StageTypes DEF Reclaim, DocTypes, Stages
  <2>3. Wired'
    BY <1>31, <2>1 DEF Reclaim, JobsKept
  <2> QED
    BY <1>31, <2>1, <2>2, <2>3
       DEF Reclaim, DocTypes, JobTypes, RunTypes, HistoryTypes, JobsKept
<1>32. ASSUME NEW i \in Job, NEW j \in Job, Requeue(i, j) PROVE TypeInv'
  <2>1. JobsKept
    BY <1>32, NewJobTypes DEF Requeue, JobTypes
  <2>2. Wired'
    BY <1>32, <2>1 DEF Requeue, JobsKept
  <2> QED
    BY <1>32, <2>1, <2>2
       DEF Requeue, DocTypes, JobTypes, RunTypes, HistoryTypes, JobsKept
<1>33. ASSUME ApiCrashes PROVE TypeInv'
  BY <1>33 DEF ApiCrashes, Rest, Fault, DocTypes, JobTypes, RunTypes,
     HistoryTypes, Points, Writing, JobStatus, Stages, Batches
<1>34. CASE UNCHANGED vars
  BY <1>34 DEF vars, DocTypes, JobTypes, RunTypes, HistoryTypes, Points,
     Writing, JobStatus, Stages, Batches
<1>35. QED
  BY <1>1, <1>2, <1>3, <1>4, <1>5, <1>6, <1>7, <1>8, <1>9, <1>10, <1>11,
     <1>12, <1>13, <1>14, <1>15, <1>16, <1>17, <1>18, <1>19, <1>20, <1>21,
     <1>22, <1>23, <1>24, <1>25, <1>26, <1>27, <1>28, <1>29, <1>30, <1>31,
     <1>32, <1>33, <1>34
     DEF Next, ApiStep, RunStep, WorkerStep, Process

\* The variables keep their types: no step of the API, a run, RQ or a crash
\* leaves a document, a job or a process in a state the code has no name for.
THEOREM TypeCorrect == Spec => []TypeOK
<1>1. TypeInv => TypeOK
  BY DEF TypeInv
<1> QED
  BY <1>1, TypeInvInit, TypeInvNext, PTL DEF Spec

-----------------------------------------------------------------------------
(* Safety: what a ready document and an unindexed document can rely on. *)

\* The stage "ready" is only written together with the chunk count, which is
\* zero for a document without a row yet.
ReadyCounted    == \A d \in Doc : stage[d] = "ready" => chunks[d] > 0
AbsentUncounted == \A d \in Doc : stage[d] = "absent" => chunks[d] = 0

\* A run that is past a batch has stored it, unless a delete request came by.
BatchesStored ==
    \A p \in Process : pc[p] # "idle" /\ deletion[target[p]] = "none" =>
        /\ pc[p] \in {"embed", "add"} =>
              \A b \in Batches : b < batch[p] => copies[target[p]][b] > 0
        /\ pc[p] = "final" => \A b \in Batches : copies[target[p]][b] > 0

\* ReadyIsSearchable, whether the row still exists or not.
CountedStored ==
    \A d \in Doc : chunks[d] > 0 /\ deletion[d] = "none"
                     => \A b \in Batches : copies[d][b] > 0

\* A run about to remove the file because it saw "ready" is right to do so.
SeenCounted ==
    \A p \in Process : pc[p] \in {"clean", "unwind"} /\ seen[p] = "ready"
                          => chunks[target[p]] > 0

DocsSafe == ReadyCounted /\ AbsentUncounted /\ CountedStored /\ UnindexedKeepsFile
RunsSafe == BatchesStored /\ SeenCounted
SafeInv  == TypeInv /\ DocsSafe /\ RunsSafe

\* A step that leaves documents and runs alone keeps the invariant.
LEMMA RunFrame ==
    ASSUME RunsSafe, UNCHANGED <<chunks, copies, deletion, pc, target, batch, seen>>
    PROVE  RunsSafe'
BY DEF RunsSafe, BatchesStored, SeenCounted

\* A step that touches neither the document nor a run keeps the safety
\* invariant.
LEMMA Frame ==
    ASSUME SafeInv, TypeInv', UNCHANGED <<stage, chunks, file, copies, deletion>>,
           UNCHANGED <<pc, target, batch, seen>>
    PROVE  SafeInv'
<1>1. DocsSafe'
  BY DEF SafeInv, DocsSafe, ReadyCounted, AbsentUncounted, CountedStored,
     UnindexedKeepsFile, RowExists, HasFile
<1> QED
  BY <1>1, RunFrame DEF SafeInv

\* A stage other than "ready" may be written over any stage.
LEMMA StageStep ==
    ASSUME SafeInv, NEW d, NEW s \in Stages \ {"ready"}, StageBecomes(d, s),
           UNCHANGED <<chunks, file, copies, deletion>>
    PROVE  DocsSafe'
BY DEF SafeInv, DocsSafe, ReadyCounted, AbsentUncounted, CountedStored,
   UnindexedKeepsFile, StageBecomes, RowExists, HasFile, Stages, TypeInv, TypeOK,
   DocTypes

\* Processes that rest, alone, keep the invariant.
LEMMA RestSeen ==
    ASSUME RunTypes, NEW P, Rest(P)
    PROVE  \A p \in Process : pc'[p] # "idle" => /\ pc'[p] = pc[p]
                                                 /\ batch'[p] = batch[p]
                                                 /\ seen'[p] = seen[p]
BY DEF RunTypes, Rest

\* A process that comes to rest keeps it as well.
LEMMA RestSafe ==
    ASSUME SafeInv, TypeInv', NEW P, Rest(P),
           UNCHANGED <<stage, chunks, file, copies, deletion>>
    PROVE  SafeInv'
<1>1. DocsSafe'
  BY DEF SafeInv, DocsSafe, ReadyCounted, AbsentUncounted, CountedStored,
     UnindexedKeepsFile, RowExists, HasFile
<1>2. RunsSafe'
  BY RestTypes, RestSeen
     DEF SafeInv, RunsSafe, BatchesStored, SeenCounted, TypeInv, TypeOK
<1> QED
  BY <1>1, <1>2 DEF SafeInv

\* A failing run, too: what it saw is the stage it left.
LEMMA FailsSafe ==
    ASSUME SafeInv, TypeInv', NEW p \in Process, pc[p] # "idle",
           target[p] \in Doc, Fails(p)
    PROVE  SafeInv'
<1> DEFINE d == target[p]
           s == IF RowExists(d) /\ p \in Thread THEN "failed" ELSE stage[d]
<1>1. /\ stage' = [stage EXCEPT ![d] = s] /\ seen' = [seen EXCEPT ![p] = s]
      /\ pc' = [pc EXCEPT ![p] = "unwind"]
      /\ UNCHANGED <<chunks, file, copies, deletion, target, batch>>
  BY DEF Fails, Goto, diskVars, apiVars
<1>2. s = "ready" => chunks[d] > 0
  BY DEF SafeInv, DocsSafe, ReadyCounted
<1>3. s = "absent" => stage[d] = "absent"
  OBVIOUS
<1>4. s \in Stages => RowExists(d)
  BY DEF RowExists
<1> HIDE DEF s
<1>5. DocsSafe'
  BY <1>1, <1>2, <1>3, <1>4
     DEF SafeInv, DocsSafe, ReadyCounted, AbsentUncounted, CountedStored,
         UnindexedKeepsFile, RowExists, HasFile, TypeInv, TypeOK, DocTypes
<1>6. RunsSafe'
  BY <1>1, <1>2 DEF SafeInv, RunsSafe, BatchesStored, SeenCounted, TypeInv,
     TypeOK, RunTypes
<1> QED
  BY <1>5, <1>6 DEF SafeInv

\* The safety invariant holds to begin with.
LEMMA SafeInvInit == Init => SafeInv
BY TypeInvInit, BoundAssumption
   DEF Init, SafeInv, DocsSafe, RunsSafe, ReadyCounted, AbsentUncounted,
       BatchesStored, CountedStored, SeenCounted, UnindexedKeepsFile, RowExists, Stages

\* Every step keeps it.
LEMMA SafeInvNext == SafeInv /\ [Next]_vars => SafeInv'
<1> USE PathAssumption, ProcessAssumption, NoneAssumption, BoundAssumption
<1> SUFFICES ASSUME SafeInv, [Next]_vars PROVE SafeInv'
  OBVIOUS
<1>0. TypeInv /\ TypeInv'
  BY TypeInvNext DEF SafeInv
<1> USE DEF SafeInv
<1>1. ASSUME NEW d \in Doc, Upload(d) PROVE SafeInv'
  BY <1>1, <1>0 DEF Upload, rowVars, diskVars, apiVars, rqVars, runVars,
     history, TypeInv, TypeOK, Wired, Process, DocsSafe, RunsSafe,
     ReadyCounted, AbsentUncounted, BatchesStored, CountedStored, SeenCounted,
     UnindexedKeepsFile, HasFile, Alone, DocTypes, RunTypes, Stages, Writing,
     RowExists, Batches
<1>2. ASSUME NEW d \in Doc, MarkQueued(d) PROVE SafeInv'
  BY <1>2, <1>0, StageStep, RunFrame DEF MarkQueued, Stages, diskVars, runVars
<1>3. ASSUME NEW d \in Doc, NEW j \in Job, Enqueue(d, j) PROVE SafeInv'
  BY <1>3, <1>0, Frame DEF Enqueue, rowVars, diskVars, apiVars, runVars
<1>4. ASSUME NEW d \in Doc, NEW t \in Thread, DispatchInline(d, t) PROVE SafeInv'
  <2>1. DocsSafe'
    BY <1>4, StageStep DEF DispatchInline, Stages, diskVars
  <2>2. RunsSafe'
    BY <1>4, <1>0 DEF DispatchInline, ThreadStarts, diskVars, TypeInv,
       TypeOK, RunTypes,
       RunsSafe, BatchesStored, SeenCounted, Process
  <2> QED
    BY <1>0, <2>1, <2>2
<1>5. ASSUME NEW d \in Doc, EnqueueFails(d) PROVE SafeInv'
  BY <1>5, <1>0, Frame DEF EnqueueFails, rowVars, diskVars, apiVars, runVars
<1>6. ASSUME NEW d \in Doc, PollStale(d) PROVE SafeInv'
  BY <1>6, <1>0, Frame DEF PollStale, Stale, rowVars, diskVars, apiVars, runVars
<1>7. ASSUME NEW d \in Doc, RecoverDeclines(d) PROVE SafeInv'
  BY <1>7, <1>0, Frame DEF RecoverDeclines, rowVars, diskVars, apiVars, runVars
<1>8. ASSUME NEW d \in Doc, NEW t \in Thread, Recover(d, t) PROVE SafeInv'
  BY <1>8, <1>0 DEF Recover, ThreadStarts, rowVars, diskVars, apiVars, rqVars,
     runVars, history, TypeInv, TypeOK, Wired, Process, DocsSafe, RunsSafe,
     ReadyCounted, AbsentUncounted, BatchesStored, CountedStored, SeenCounted,
     UnindexedKeepsFile, HasFile, Alone, DocTypes, RunTypes, Stages, Writing,
     RowExists, Batches
<1>9. ASSUME NEW d \in Doc, DeleteFile(d) PROVE SafeInv'
  BY <1>9, <1>0 DEF DeleteFile, rowVars, diskVars, apiVars, rqVars, runVars,
     history, TypeInv, TypeOK, Wired, Process, DocsSafe, RunsSafe,
     ReadyCounted, AbsentUncounted, BatchesStored, CountedStored, SeenCounted,
     UnindexedKeepsFile, HasFile, Alone, DocTypes, RunTypes, Stages, Writing,
     RowExists, Batches
<1>10. ASSUME NEW d \in Doc, DeleteVectors(d) PROVE SafeInv'
  BY <1>10, <1>0 DEF DeleteVectors, rowVars, diskVars, apiVars, rqVars,
     runVars, history, TypeInv, TypeOK, Wired, Process, DocsSafe, RunsSafe,
     ReadyCounted, AbsentUncounted, BatchesStored, CountedStored, SeenCounted,
     UnindexedKeepsFile, HasFile, Alone, DocTypes, RunTypes, Stages, Writing,
     RowExists, Batches
<1>11. ASSUME NEW d \in Doc, DeleteRow(d) PROVE SafeInv'
  BY <1>11, <1>0 DEF DeleteRow, rowVars, diskVars, apiVars, rqVars, runVars,
     history, TypeInv, TypeOK, Wired, Process, DocsSafe, RunsSafe,
     ReadyCounted, AbsentUncounted, BatchesStored, CountedStored, SeenCounted,
     UnindexedKeepsFile, HasFile, Alone, DocTypes, RunTypes, Stages, Writing,
     RowExists, Batches
<1>12. ASSUME NEW d \in Doc, DeleteFails(d) PROVE SafeInv'
  BY <1>12, <1>0 DEF DeleteFails, rowVars, diskVars, apiVars, rqVars, runVars,
     history, TypeInv, TypeOK, Wired, Process, DocsSafe, RunsSafe,
     ReadyCounted, AbsentUncounted, BatchesStored, CountedStored, SeenCounted,
     UnindexedKeepsFile, HasFile, Alone, DocTypes, RunTypes, Stages, Writing,
     RowExists, Batches
<1>13. ASSUME NEW p \in Process, Begin(p) PROVE SafeInv'
  <2>1. pc[p] # "idle" /\ target[p] \in Doc
    BY <1>13 DEF Begin, TypeInv, Wired
  <2>2. CASE ~ RowExists(target[p])
    BY <1>13, <1>0, <2>2 DEF Begin, Fails, Goto, rowVars, diskVars, apiVars,
       TypeInv,
       TypeOK, RunTypes, DocsSafe, RunsSafe, ReadyCounted, AbsentUncounted,
       BatchesStored, CountedStored, SeenCounted, UnindexedKeepsFile, RowExists, HasFile
  <2>3. CASE RowExists(target[p]) /\ ~ HasFile(target[p])
    BY <1>13, <1>0, <2>1, <2>3, FailsSafe DEF Begin
  <2>4. CASE RowExists(target[p]) /\ HasFile(target[p])
    <3>1. /\ StageBecomes(target[p], "loading") /\ Goto(p, "load")
          /\ UNCHANGED <<chunks, file, copies, deletion, target, batch, seen>>
      BY <1>13, <2>4 DEF Begin, diskVars, apiVars
    <3>2. DocsSafe'
      BY <1>0, <2>1, <3>1, StageStep DEF Stages
    <3>3. RunsSafe'
      BY <3>1 DEF Goto, RunsSafe, BatchesStored, SeenCounted, TypeInv,
         TypeOK, RunTypes
    <3> QED
      BY <1>0, <3>2, <3>3
  <2> QED
    BY <2>2, <2>3, <2>4
<1>14. ASSUME NEW p \in Process, Load(p) PROVE SafeInv'
  BY <1>14, <1>0 DEF Load, Goto, StageBecomes, RowExists, rowVars, diskVars,
     apiVars, rqVars, runVars, history, TypeInv, TypeOK, Wired, Process,
     DocsSafe, RunsSafe, ReadyCounted, AbsentUncounted, BatchesStored,
     CountedStored, SeenCounted, UnindexedKeepsFile, HasFile, Alone, DocTypes,
     RunTypes, Stages, Writing, RowExists, Batches
<1>15. ASSUME NEW p \in Process, Chunk(p) PROVE SafeInv'
  BY <1>15, <1>0 DEF Chunk, Goto, StageBecomes, RowExists, rowVars, diskVars,
     apiVars, rqVars, runVars, history, TypeInv, TypeOK, Wired, Process,
     DocsSafe, RunsSafe, ReadyCounted, AbsentUncounted, BatchesStored,
     CountedStored, SeenCounted, UnindexedKeepsFile, HasFile, Alone, DocTypes,
     RunTypes, Stages, Writing, RowExists, Batches
<1>16. ASSUME NEW p \in Process, Embed(p) PROVE SafeInv'
  <2>1. /\ StageBecomes(target[p], "vector_store") /\ Goto(p, "add") /\ pc[p] = "embed"
        /\ UNCHANGED <<chunks, file, copies, deletion, target, batch, seen>>
    BY <1>16 DEF Embed, diskVars, apiVars
  <2>2. DocsSafe'
    BY <1>0, <2>1, StageStep DEF Stages, TypeInv, Wired
  <2>3. RunsSafe'
    BY <2>1 DEF Goto, RunsSafe, BatchesStored, SeenCounted, TypeInv, TypeOK,
       RunTypes
  <2> QED
    BY <1>0, <2>2, <2>3
<1>17. ASSUME NEW p \in Process, Add(p) PROVE SafeInv'
  <2> DEFINE e == target[p]
             b == batch[p]
             n == IF copies[e][b] = MaxCopies THEN MaxCopies ELSE copies[e][b] + 1
  <2>1. e \in Doc /\ b \in Batches /\ pc[p] = "add"
    BY <1>17 DEF Add, TypeInv, TypeOK, Wired, RunTypes
  <2>2. copies[e][b] \in 0..MaxCopies
    BY <2>1 DEF TypeInv, TypeOK, DocTypes
  <2>3. n > 0
    BY <2>2
  <2>4. copies' = [copies EXCEPT ![e][b] = n]
    BY <1>17 DEF Add
  <2>5. UNCHANGED <<stage, chunks, file, deletion, target, seen>>
    BY <1>17 DEF Add, rowVars, apiVars
  <2>6. /\ copies'[e][b] > 0
        /\ \A c \in Doc, i \in Batches : copies[c][i] > 0 => copies'[c][i] > 0
    BY <2>1, <2>3, <2>4 DEF TypeInv, TypeOK, DocTypes
  <2>7. DocsSafe'
    BY <2>5, <2>6 DEF DocsSafe, ReadyCounted, AbsentUncounted, CountedStored,
       UnindexedKeepsFile, RowExists, HasFile
  <2>8. \/ b = NumBatches /\ pc' = [pc EXCEPT ![p] = "final"] /\ batch' = batch
        \/ /\ b # NumBatches /\ pc' = [pc EXCEPT ![p] = "embed"]
           /\ batch' = [batch EXCEPT ![p] = b + 1]
    BY <1>17 DEF Add, Goto
  <2>9. \A i \in Batches : i < b \/ i = b \/ b < i
    BY <2>1 DEF Batches
  <2>10. \A i \in Batches : b # NumBatches /\ i < b + 1 => i < b \/ i = b
    BY <2>1 DEF Batches
  <2>11. \A i \in Batches : b = NumBatches => i < b \/ i = b
    BY <2>1 DEF Batches
  <2>12. SeenCounted'
    BY <2>5, <2>8 DEF RunsSafe, SeenCounted, TypeInv, TypeOK, RunTypes
  <2>13. ASSUME NEW q \in Process, (pc[q] # "idle" /\ deletion[target[q]] = "none")'
         PROVE  /\ (pc[q] \in {"embed", "add"} =>
                       \A i \in Batches : i < batch[q] => copies[target[q]][i] > 0)'
                /\ (pc[q] = "final" => \A i \in Batches : copies[target[q]][i] > 0)'
    <3>1. CASE q = p
      <4>1. \A i \in Batches : i < b => copies[e][i] > 0
        BY <2>1, <2>5, <2>13, <3>1 DEF RunsSafe, BatchesStored
      <4>2. \A i \in Batches : i < b \/ i = b => copies'[e][i] > 0
        BY <2>1, <2>6, <4>1
      <4> QED
        BY <2>5, <2>8, <2>10, <2>11, <3>1, <4>2 DEF TypeInv, TypeOK, RunTypes
    <3>2. CASE q # p
      <4>1. pc'[q] = pc[q] /\ batch'[q] = batch[q] /\ target'[q] = target[q]
        BY <2>5, <2>8, <3>2 DEF TypeInv, TypeOK, RunTypes
      <4>2. target[q] \in Doc
        BY <2>13, <4>1 DEF TypeInv, Wired
      <4> QED
        BY <2>5, <2>6, <2>13, <4>1, <4>2 DEF RunsSafe, BatchesStored
    <3> QED
      BY <3>1, <3>2
  <2>14. RunsSafe'
    BY <2>12, <2>13 DEF RunsSafe, BatchesStored
  <2> QED
    BY <1>0, <2>7, <2>14
<1>18. ASSUME NEW p \in Process, RunFails(p) PROVE SafeInv'
  <2>1. pc[p] # "idle" /\ target[p] \in Doc
    BY <1>18 DEF RunFails, Writing, TypeInv, Wired
  <2> QED
    BY <1>18, <1>0, <2>1, FailsSafe DEF RunFails
<1>19. ASSUME NEW p \in Process, MarkReady(p) PROVE SafeInv'
  BY <1>19, <1>0 DEF MarkReady, Goto, StageBecomes, RowExists, rowVars,
     diskVars, apiVars, rqVars, runVars, history, TypeInv, TypeOK, Wired,
     Process, DocsSafe, RunsSafe, ReadyCounted, AbsentUncounted,
     BatchesStored, CountedStored, SeenCounted, UnindexedKeepsFile, HasFile,
     Alone, DocTypes, RunTypes, Stages, Writing, RowExists, Batches
<1>20. ASSUME NEW p \in Process, Refresh(p) PROVE SafeInv'
  <2>1. pc[p] # "idle" /\ target[p] \in Doc
    BY <1>20 DEF Refresh, TypeInv, Wired
  <2>2. CASE RowExists(target[p])
    <3>1. /\ seen' = [seen EXCEPT ![p] = stage[target[p]]] /\ Goto(p, "clean")
          /\ UNCHANGED <<stage, chunks, file, copies, deletion, target, batch>>
      BY <1>20, <2>2 DEF Refresh, rowVars, diskVars, apiVars
    <3>2. DocsSafe'
      BY <3>1 DEF DocsSafe, ReadyCounted, AbsentUncounted, CountedStored,
         UnindexedKeepsFile, RowExists, HasFile
    <3>3. RunsSafe'
      BY <2>1, <3>1 DEF Goto, DocsSafe, ReadyCounted, RunsSafe, BatchesStored,
         SeenCounted, TypeInv, TypeOK, RunTypes
    <3> QED
      BY <1>0, <3>2, <3>3
  <2>3. CASE ~ RowExists(target[p])
    BY <1>20, <1>0, <2>1, <2>3, FailsSafe DEF Refresh
  <2> QED
    BY <2>2, <2>3
<1>21. ASSUME NEW p \in Process, Cleanup(p) PROVE SafeInv'
  BY <1>21, <1>0 DEF Cleanup, Goto, rowVars, diskVars, apiVars, rqVars,
     runVars, history, TypeInv, TypeOK, Wired, Process, DocsSafe, RunsSafe,
     ReadyCounted, AbsentUncounted, BatchesStored, CountedStored, SeenCounted,
     UnindexedKeepsFile, HasFile, Alone, DocTypes, RunTypes, Stages, Writing,
     RowExists, Batches
<1>22. ASSUME NEW p \in Process, Return(p) PROVE SafeInv'
  BY <1>22, <1>0, RestSafe DEF Return, rowVars, diskVars, apiVars
<1>23. ASSUME NEW w \in Worker, Hook(w) PROVE SafeInv'
  <2>1. CASE Rest({w})
    BY <1>23, <1>0, <2>1, RestSafe DEF Hook, rowVars, diskVars, apiVars
  <2>2. CASE ~ Rest({w})
    <3>1. /\ Goto(w, "markfailed") /\ UNCHANGED <<target, batch, seen>>
          /\ UNCHANGED <<stage, chunks, file, copies, deletion>>
      BY <1>23, <2>2 DEF Hook, rowVars, diskVars, apiVars
    <3>2. DocsSafe'
      BY <3>1 DEF DocsSafe, ReadyCounted, AbsentUncounted, CountedStored,
         UnindexedKeepsFile, RowExists, HasFile
    <3>3. RunsSafe'
      BY <3>1 DEF Goto, RunsSafe, BatchesStored, SeenCounted, TypeInv,
         TypeOK, RunTypes
    <3> QED
      BY <1>0, <3>2, <3>3
  <2> QED
    BY <2>1, <2>2
<1>24. ASSUME NEW w \in Worker, MarkFailed(w) PROVE SafeInv'
  <2>1. DocsSafe'
    BY <1>24, StageStep DEF MarkFailed, Stages, diskVars, apiVars
  <2>2. RunsSafe'
    BY <1>24, RestTypes, RestSeen DEF MarkFailed, diskVars, apiVars,
       RunsSafe, BatchesStored,
       SeenCounted, TypeInv, TypeOK
  <2> QED
    BY <1>0, <2>1, <2>2
<1>25. ASSUME NEW w \in Worker, NEW j \in Job, Take(w, j) PROVE SafeInv'
  BY <1>25, <1>0 DEF Take, Goto, rowVars, diskVars, apiVars, rqVars, runVars,
     history, TypeInv, TypeOK, Wired, Process, DocsSafe, RunsSafe,
     ReadyCounted, AbsentUncounted, BatchesStored, CountedStored, SeenCounted,
     UnindexedKeepsFile, HasFile, Alone, DocTypes, RunTypes, Stages, Writing,
     RowExists, Batches
<1>26. ASSUME NEW w \in Worker, NEW j \in Job, TakeDeadLetter(w, j) PROVE SafeInv'
  BY <1>26, <1>0, Frame DEF TakeDeadLetter, rowVars, diskVars, apiVars, runVars
<1>27. ASSUME NEW w \in Worker, HorseKilled(w) PROVE SafeInv'
  BY <1>27, <1>0, RestSafe DEF HorseKilled, rowVars, diskVars, apiVars
<1>28. ASSUME NEW w \in Worker, WorkerDies(w) PROVE SafeInv'
  BY <1>28, <1>0, RestSafe DEF WorkerDies, rowVars, diskVars, apiVars
<1>29. ASSUME NEW w \in Worker, RegistrationExpires(w) PROVE SafeInv'
  BY <1>29, <1>0, Frame DEF RegistrationExpires, rowVars, diskVars, apiVars, runVars
<1>30. ASSUME NEW w \in Worker, WorkerStarts(w) PROVE SafeInv'
  BY <1>30, <1>0, Frame DEF WorkerStarts, rowVars, diskVars, apiVars, runVars
<1>31. ASSUME NEW j \in Job, Reclaim(j) PROVE SafeInv'
  <2>1. CASE UNCHANGED stage
    BY <1>31, <1>0, <2>1, Frame DEF Reclaim, rowVars, diskVars, apiVars, runVars
  <2>2. CASE StageBecomes(job[j].doc, "failed")
    BY <1>31, <1>0, <2>2, StageStep, RunFrame DEF Reclaim, Stages, diskVars,
       apiVars, runVars
  <2> QED
    BY <1>31, <2>1, <2>2 DEF Reclaim
<1>32. ASSUME NEW i \in Job, NEW j \in Job, Requeue(i, j) PROVE SafeInv'
  BY <1>32, <1>0, Frame DEF Requeue, rowVars, diskVars, apiVars, runVars
<1>33. ASSUME ApiCrashes PROVE SafeInv'
  BY <1>33, <1>0 DEF ApiCrashes, Rest, Fault, rowVars, diskVars, apiVars,
     rqVars, runVars, history, TypeInv, TypeOK, Wired, Process, DocsSafe,
     RunsSafe, ReadyCounted, AbsentUncounted, BatchesStored, CountedStored,
     SeenCounted, UnindexedKeepsFile, HasFile, Alone, DocTypes, RunTypes,
     Stages, Writing, RowExists, Batches
<1>34. CASE UNCHANGED vars
  BY <1>34, <1>0 DEF vars, rowVars, diskVars, apiVars, rqVars, runVars,
     history, DocsSafe, RunsSafe, ReadyCounted, AbsentUncounted,
     BatchesStored, CountedStored, SeenCounted, UnindexedKeepsFile, HasFile,
     Alone, DocTypes, RunTypes, Stages, Writing, RowExists, Batches
<1>35. QED
  BY <1>1, <1>2, <1>3, <1>4, <1>5, <1>6, <1>7, <1>8, <1>9, <1>10, <1>11,
     <1>12, <1>13, <1>14, <1>15, <1>16, <1>17, <1>18, <1>19, <1>20, <1>21,
     <1>22, <1>23, <1>24, <1>25, <1>26, <1>27, <1>28, <1>29, <1>30, <1>31,
     <1>32, <1>33, <1>34
     DEF Next, ApiStep, RunStep, WorkerStep, Process

\* So it always holds.
LEMMA SafeInvariant == Spec => []SafeInv
BY SafeInvInit, SafeInvNext, PTL DEF Spec

\* A document that reports chunks has every batch in the vector store, through
\* retries, concurrent runs of the same document, late "queued" marks and
\* crashes, as long as nobody asked to delete it.
THEOREM ReadyDocumentsAreSearchable == Spec => []ReadyIsSearchable
<1>1. SafeInv => ReadyIsSearchable
  BY DEF SafeInv, DocsSafe, CountedStored, ReadyIsSearchable
<1> QED
  BY <1>1, SafeInvariant, PTL

\* A document that is not indexed can still be: no run removes its file.
THEOREM UnindexedDocumentsKeepTheirFile == Spec => []UnindexedKeepsFile
<1>1. SafeInv => UnindexedKeepsFile
  BY DEF SafeInv, DocsSafe
<1> QED
  BY <1>1, SafeInvariant, PTL

-----------------------------------------------------------------------------
(* Refinement: what the polling client sees is the promised life cycle. *)

Seen == [d \in Doc |-> StatusOf(d)]

\* One document's status moves as the life cycle allows, the others stay.
LEMMA LifecycleMove ==
    ASSUME NEW d \in Doc, \A e \in Doc : e # d => StatusOf(e)' = StatusOf(e),
           \/ StatusOf(d)' = StatusOf(d)
           \/ StatusOf(d) = "absent" /\ StatusOf(d)' = "indexing"
           \/ StatusOf(d) \in {"indexing", "failed"} /\ StatusOf(d)' = "ready"
           \/ StatusOf(d) \in {"indexing", "ready"} /\ StatusOf(d)' = "failed"
           \/ StatusOf(d) = "failed" /\ StatusOf(d)' = "indexing"
           \/ /\ StatusOf(d) \in {"indexing", "ready", "failed"}
              /\ StatusOf(d)' = "gone"
    PROVE  [Lifecycle!Next]_Seen
<1>1. Seen' = [Seen EXCEPT ![d] = StatusOf(d)']
  BY DEF Seen
<1>2. Seen[d] = StatusOf(d)
  BY DEF Seen
<1>3. CASE StatusOf(d)' = StatusOf(d)
  BY <1>1, <1>2, <1>3 DEF Seen
<1>4. CASE StatusOf(d)' # StatusOf(d)
  <2>1. Lifecycle!Accept(d) \/ Lifecycle!Succeed(d) \/ Lifecycle!Fail(d)
           \/ Lifecycle!TryAgain(d) \/ Lifecycle!Remove(d)
    BY <1>1, <1>2, <1>4
       DEF Seen, Lifecycle!Accept, Lifecycle!Succeed, Lifecycle!Fail,
           Lifecycle!TryAgain, Lifecycle!Remove, Lifecycle!Moves
  <2> QED
    BY <2>1 DEF Lifecycle!Next
<1> QED
  BY <1>3, <1>4

\* A document whose delete request has come to its last step has a row.
RowsWhileDeleting ==
    \A d \in Doc : deletion[d] \in {"vectors", "row"} => RowExists(d)

\* A delete request has its row until it deletes it.
LEMMA DeletionInvariant == Spec => []RowsWhileDeleting
<1>1. Init => RowsWhileDeleting
  BY DEF Init, RowsWhileDeleting
<1>2. SafeInv /\ RowsWhileDeleting /\ [Next]_vars => RowsWhileDeleting'
  <2> SUFFICES ASSUME SafeInv, RowsWhileDeleting, [Next]_vars
               PROVE  RowsWhileDeleting'
    OBVIOUS
  <2> USE DEF SafeInv, TypeInv, TypeOK, DocTypes, RowsWhileDeleting, RowExists,
              rowVars, apiVars, Stages
  <2>1. ASSUME NEW d \in Doc, Upload(d) PROVE RowsWhileDeleting'
    BY <2>1 DEF Upload
  <2>2. ASSUME NEW d \in Doc, MarkQueued(d) PROVE RowsWhileDeleting'
    BY <2>2 DEF MarkQueued, StageBecomes, RowExists
  <2>3. ASSUME NEW d \in Doc, NEW j \in Job, Enqueue(d, j) PROVE RowsWhileDeleting'
    BY <2>3 DEF Enqueue, NewJob
  <2>4. ASSUME NEW d \in Doc, NEW t \in Thread, DispatchInline(d, t) PROVE RowsWhileDeleting'
    BY <2>4 DEF DispatchInline, StageBecomes, RowExists, ThreadStarts, Fault
  <2>5. ASSUME NEW d \in Doc, EnqueueFails(d) PROVE RowsWhileDeleting'
    BY <2>5 DEF EnqueueFails, Fault
  <2>6. ASSUME NEW d \in Doc, PollStale(d) PROVE RowsWhileDeleting'
    BY <2>6 DEF PollStale, Stale
  <2>7. ASSUME NEW d \in Doc, RecoverDeclines(d) PROVE RowsWhileDeleting'
    BY <2>7 DEF RecoverDeclines
  <2>8. ASSUME NEW d \in Doc, NEW t \in Thread, Recover(d, t) PROVE RowsWhileDeleting'
    BY <2>8 DEF Recover, ThreadStarts
  <2>9. ASSUME NEW d \in Doc, DeleteFile(d) PROVE RowsWhileDeleting'
    BY <2>9 DEF DeleteFile
  <2>10. ASSUME NEW d \in Doc, DeleteVectors(d) PROVE RowsWhileDeleting'
    BY <2>10 DEF DeleteVectors
  <2>11. ASSUME NEW d \in Doc, DeleteRow(d) PROVE RowsWhileDeleting'
    BY <2>11 DEF DeleteRow
  <2>12. ASSUME NEW d \in Doc, DeleteFails(d) PROVE RowsWhileDeleting'
    BY <2>12 DEF DeleteFails
  <2>13. ASSUME NEW p \in Process, Begin(p) PROVE RowsWhileDeleting'
    BY <2>13 DEF Begin, Fails, Goto, StageBecomes, RowExists
  <2>14. ASSUME NEW p \in Process, Load(p) PROVE RowsWhileDeleting'
    BY <2>14 DEF Load, Goto, StageBecomes, RowExists
  <2>15. ASSUME NEW p \in Process, Chunk(p) PROVE RowsWhileDeleting'
    BY <2>15 DEF Chunk, Goto, StageBecomes, RowExists
  <2>16. ASSUME NEW p \in Process, Embed(p) PROVE RowsWhileDeleting'
    BY <2>16 DEF Embed, Goto, StageBecomes, RowExists
  <2>17. ASSUME NEW p \in Process, Add(p) PROVE RowsWhileDeleting'
    BY <2>17 DEF Add, Goto
  <2>18. ASSUME NEW p \in Process, RunFails(p) PROVE RowsWhileDeleting'
    BY <2>18 DEF RunFails, Fails, Goto, RowExists
  <2>19. ASSUME NEW p \in Process, MarkReady(p) PROVE RowsWhileDeleting'
    BY <2>19 DEF MarkReady, Goto, StageBecomes, RowExists
  <2>20. ASSUME NEW p \in Process, Refresh(p) PROVE RowsWhileDeleting'
    BY <2>20 DEF Refresh, Fails, Goto, RowExists
  <2>21. ASSUME NEW p \in Process, Cleanup(p) PROVE RowsWhileDeleting'
    BY <2>21 DEF Cleanup, Goto
  <2>22. ASSUME NEW p \in Process, Return(p) PROVE RowsWhileDeleting'
    BY <2>22 DEF Return, Rest
  <2>23. ASSUME NEW w \in Worker, Hook(w) PROVE RowsWhileDeleting'
    BY <2>23 DEF Hook, Retried, Rest, Goto
  <2>24. ASSUME NEW w \in Worker, MarkFailed(w) PROVE RowsWhileDeleting'
    BY <2>24 DEF MarkFailed, StageBecomes, RowExists, Rest
  <2>25. ASSUME NEW w \in Worker, NEW j \in Job, Take(w, j) PROVE RowsWhileDeleting'
    BY <2>25 DEF Take, Goto
  <2>26. ASSUME NEW w \in Worker, NEW j \in Job, TakeDeadLetter(w, j) PROVE RowsWhileDeleting'
    BY <2>26 DEF TakeDeadLetter
  <2>27. ASSUME NEW w \in Worker, HorseKilled(w) PROVE RowsWhileDeleting'
    BY <2>27 DEF HorseKilled, Retried, Rest, Fault
  <2>28. ASSUME NEW w \in Worker, WorkerDies(w) PROVE RowsWhileDeleting'
    BY <2>28 DEF WorkerDies, Rest, Fault
  <2>29. ASSUME NEW w \in Worker, RegistrationExpires(w) PROVE RowsWhileDeleting'
    BY <2>29 DEF RegistrationExpires
  <2>30. ASSUME NEW w \in Worker, WorkerStarts(w) PROVE RowsWhileDeleting'
    BY <2>30 DEF WorkerStarts
  <2>31. ASSUME NEW j \in Job, Reclaim(j) PROVE RowsWhileDeleting'
    BY <2>31 DEF Reclaim, Retried, StageBecomes, RowExists
  <2>32. ASSUME NEW i \in Job, NEW j \in Job, Requeue(i, j) PROVE RowsWhileDeleting'
    BY <2>32 DEF Requeue, NewJob
  <2>33. ASSUME ApiCrashes PROVE RowsWhileDeleting'
    BY <2>33 DEF ApiCrashes, Rest, Fault
  <2>34. CASE UNCHANGED vars
    BY <2>34 DEF vars
  <2>35. QED
    BY <2>1, <2>2, <2>3, <2>4, <2>5, <2>6, <2>7, <2>8, <2>9, <2>10, <2>11,
       <2>12, <2>13, <2>14, <2>15, <2>16, <2>17, <2>18, <2>19, <2>20, <2>21,
       <2>22, <2>23, <2>24, <2>25, <2>26, <2>27, <2>28, <2>29, <2>30, <2>31,
       <2>32, <2>33, <2>34
       DEF Next, ApiStep, RunStep, WorkerStep, Process
<1> QED
  BY <1>1, <1>2, SafeInvariant, PTL DEF Spec

\* A step that leaves rows alone is a stutter of the life cycle.
LEMMA SameRows ==
    ASSUME UNCHANGED <<stage, chunks>>
    PROVE  [Lifecycle!Next]_Seen
BY DEF Seen, StatusOf

\* Writing a stage other than "ready": chunks keep a ready document ready,
\* unless the stage is "failed".
LEMMA StageMove ==
    ASSUME SafeInv, NEW d \in Doc, NEW s \in Stages \ {"ready"},
           StageBecomes(d, s), chunks' = chunks
    PROVE  [Lifecycle!Next]_Seen
<1>1. CASE ~ RowExists(d)
  BY <1>1, SameRows DEF StageBecomes
<1>2. CASE RowExists(d)
  <2>1. stage' = [stage EXCEPT ![d] = s]
    BY <1>2 DEF StageBecomes
  <2>2. \A e \in Doc : e # d => StatusOf(e)' = StatusOf(e)
    BY <2>1 DEF StatusOf, SafeInv, TypeInv, TypeOK, DocTypes
  <2>3. StatusOf(d) \in {"indexing", "ready", "failed"}
    BY <1>2 DEF StatusOf, RowExists, Stages
  <2>4. stage[d] = "ready" => chunks[d] > 0
    BY DEF SafeInv, DocsSafe, ReadyCounted
  <2>5. StatusOf(d)' = IF s = "failed" THEN "failed"
                       ELSE IF chunks[d] > 0 THEN "ready" ELSE "indexing"
    BY <2>1 DEF StatusOf, Stages, SafeInv, TypeInv, TypeOK, DocTypes
  <2>6. StatusOf(d) = "ready" => chunks[d] > 0
    BY <1>2, <2>4 DEF StatusOf, RowExists, Stages
  <2> QED
    BY <2>2, <2>3, <2>5, <2>6, LifecycleMove
<1> QED
  BY <1>1, <1>2

\* A failing run is a step of the life cycle.
LEMMA FailsMove ==
    ASSUME SafeInv, NEW p \in Process, target[p] \in Doc, Fails(p)
    PROVE  [Lifecycle!Next]_Seen
<1>1. chunks' = chunks
  BY DEF Fails
<1>2. CASE RowExists(target[p]) /\ p \in Thread
  BY <1>1, <1>2, StageMove DEF Fails, StageBecomes, Stages
<1>3. CASE ~ (RowExists(target[p]) /\ p \in Thread)
  BY <1>1, <1>3, SameRows DEF Fails, SafeInv, TypeInv, TypeOK, DocTypes
<1> QED
  BY <1>2, <1>3

\* The status a client polls goes only where the life cycle lets it go: in
\* particular an indexed document is never "indexing" again.
THEOREM IngestionImplementsLifecycle == Spec => ImplementsLifecycle
<1>1. Init => Lifecycle!Init
  BY DEF Init, Lifecycle!Init, StatusOf
<1>2. SafeInv /\ RowsWhileDeleting /\ [Next]_vars => [Lifecycle!Next]_Seen
  <2> SUFFICES ASSUME SafeInv, RowsWhileDeleting, [Next]_vars
               PROVE  [Lifecycle!Next]_Seen
    OBVIOUS
  <2>1. ASSUME NEW d \in Doc, Upload(d) PROVE [Lifecycle!Next]_Seen
    <3>1. stage[d] = "absent" /\ chunks[d] = 0
      BY <2>1 DEF Upload, SafeInv, DocsSafe, AbsentUncounted
    <3>2. stage' = [stage EXCEPT ![d] = "queued"] /\ chunks' = chunks
      BY <2>1 DEF Upload
    <3>3. StatusOf(d) = "absent" /\ StatusOf(d)' = "indexing"
      BY <3>1, <3>2 DEF StatusOf, SafeInv, TypeInv, TypeOK, DocTypes
    <3>4. \A e \in Doc : e # d => StatusOf(e)' = StatusOf(e)
      BY <3>2 DEF StatusOf, SafeInv, TypeInv, TypeOK, DocTypes
    <3> QED
      BY <3>3, <3>4, LifecycleMove
  <2>2. ASSUME NEW d \in Doc, MarkQueued(d) PROVE [Lifecycle!Next]_Seen
    BY <2>2, StageMove DEF MarkQueued, Stages
  <2>3. ASSUME NEW d \in Doc, NEW j \in Job, Enqueue(d, j) PROVE [Lifecycle!Next]_Seen
    BY <2>3, SameRows DEF Enqueue, rowVars
  <2>4. ASSUME NEW d \in Doc, NEW t \in Thread, DispatchInline(d, t) PROVE [Lifecycle!Next]_Seen
    BY <2>4, StageMove DEF DispatchInline, Stages
  <2>5. ASSUME NEW d \in Doc, EnqueueFails(d) PROVE [Lifecycle!Next]_Seen
    BY <2>5, SameRows DEF EnqueueFails, rowVars
  <2>6. ASSUME NEW d \in Doc, PollStale(d) PROVE [Lifecycle!Next]_Seen
    BY <2>6, SameRows DEF PollStale, Stale, rowVars
  <2>7. ASSUME NEW d \in Doc, RecoverDeclines(d) PROVE [Lifecycle!Next]_Seen
    BY <2>7, SameRows DEF RecoverDeclines, rowVars
  <2>8. ASSUME NEW d \in Doc, NEW t \in Thread, Recover(d, t) PROVE [Lifecycle!Next]_Seen
    BY <2>8, SameRows DEF Recover, rowVars
  <2>9. ASSUME NEW d \in Doc, DeleteFile(d) PROVE [Lifecycle!Next]_Seen
    BY <2>9, SameRows DEF DeleteFile, rowVars
  <2>10. ASSUME NEW d \in Doc, DeleteVectors(d) PROVE [Lifecycle!Next]_Seen
    BY <2>10, SameRows DEF DeleteVectors, rowVars
  <2>11. ASSUME NEW d \in Doc, DeleteRow(d) PROVE [Lifecycle!Next]_Seen
    <3>1. stage' = [stage EXCEPT ![d] = "gone"] /\ chunks' = chunks
      BY <2>11 DEF DeleteRow
    <3>2. \A e \in Doc : e # d => StatusOf(e)' = StatusOf(e)
      BY <3>1 DEF StatusOf, SafeInv, TypeInv, TypeOK, DocTypes
    <3>3. StatusOf(d)' = "gone"
      BY <3>1 DEF StatusOf, SafeInv, TypeInv, TypeOK, DocTypes
    <3>4. StatusOf(d) \in {"indexing", "ready", "failed", "gone"}
      BY <2>11 DEF DeleteRow, RowsWhileDeleting, StatusOf, Stages, RowExists
    <3> QED
      BY <3>2, <3>3, <3>4, LifecycleMove
  <2>12. ASSUME NEW d \in Doc, DeleteFails(d) PROVE [Lifecycle!Next]_Seen
    BY <2>12, SameRows DEF DeleteFails, rowVars
  <2>13. ASSUME NEW p \in Process, Begin(p) PROVE [Lifecycle!Next]_Seen
    <3>1. target[p] \in Doc
      BY <2>13 DEF Begin, SafeInv, TypeInv, Wired, Process
    <3>2. \/ UNCHANGED rowVars \/ Fails(p)
          \/ StageBecomes(target[p], "loading") /\ chunks' = chunks
      BY <2>13 DEF Begin
    <3> QED
      BY <3>1, <3>2, SameRows, FailsMove, StageMove DEF rowVars, Stages
  <2>14. ASSUME NEW p \in Process, Load(p) PROVE [Lifecycle!Next]_Seen
    <3>1. target[p] \in Doc
      BY <2>14 DEF Load, SafeInv, TypeInv, Wired, Process
    <3> QED
      BY <2>14, <3>1, StageMove DEF Load, Stages
  <2>15. ASSUME NEW p \in Process, Chunk(p) PROVE [Lifecycle!Next]_Seen
    <3>1. target[p] \in Doc
      BY <2>15 DEF Chunk, SafeInv, TypeInv, Wired, Process
    <3> QED
      BY <2>15, <3>1, StageMove DEF Chunk, Stages
  <2>16. ASSUME NEW p \in Process, Embed(p) PROVE [Lifecycle!Next]_Seen
    <3>1. target[p] \in Doc
      BY <2>16 DEF Embed, SafeInv, TypeInv, Wired, Process
    <3> QED
      BY <2>16, <3>1, StageMove DEF Embed, Stages
  <2>17. ASSUME NEW p \in Process, Add(p) PROVE [Lifecycle!Next]_Seen
    BY <2>17, SameRows DEF Add, rowVars
  <2>18. ASSUME NEW p \in Process, RunFails(p) PROVE [Lifecycle!Next]_Seen
    <3>1. target[p] \in Doc
      BY <2>18 DEF RunFails, Writing, SafeInv, TypeInv, Wired, Process
    <3> QED
      BY <2>18, <3>1, FailsMove DEF RunFails
  <2>19. ASSUME NEW p \in Process, MarkReady(p) PROVE [Lifecycle!Next]_Seen
    <3>1. PICK d \in Doc : d = target[p]
      BY <2>19 DEF MarkReady, SafeInv, TypeInv, Wired, Process
    <3>2. CASE ~ RowExists(d)
      BY <2>19, <3>1, <3>2, SameRows DEF MarkReady, StageBecomes
    <3>3. CASE RowExists(d)
      <4>1. /\ stage' = [stage EXCEPT ![d] = "ready"]
            /\ chunks' = [chunks EXCEPT ![d] = NumBatches]
        BY <2>19, <3>1, <3>3 DEF MarkReady, StageBecomes
      <4>2. stage'[d] = "ready"
        BY <3>1, <4>1 DEF SafeInv, TypeInv, TypeOK, DocTypes
      <4>3. StatusOf(d)' = "ready"
        BY <4>2 DEF StatusOf
      <4>4. StatusOf(d) \in {"indexing", "ready", "failed"}
        BY <3>3 DEF StatusOf, RowExists, Stages
      <4>5. \A e \in Doc : e # d => StatusOf(e)' = StatusOf(e)
        BY <4>1 DEF StatusOf, SafeInv, TypeInv, TypeOK, DocTypes
      <4> QED
        BY <3>1, <4>3, <4>4, <4>5, LifecycleMove
    <3> QED
      BY <3>2, <3>3
  <2>20. ASSUME NEW p \in Process, Refresh(p) PROVE [Lifecycle!Next]_Seen
    <3>1. target[p] \in Doc
      BY <2>20 DEF Refresh, SafeInv, TypeInv, Wired, Process
    <3> QED
      BY <2>20, <3>1, SameRows, FailsMove DEF Refresh, rowVars
  <2>21. ASSUME NEW p \in Process, Cleanup(p) PROVE [Lifecycle!Next]_Seen
    BY <2>21, SameRows DEF Cleanup, rowVars
  <2>22. ASSUME NEW p \in Process, Return(p) PROVE [Lifecycle!Next]_Seen
    BY <2>22, SameRows DEF Return, rowVars
  <2>23. ASSUME NEW w \in Worker, Hook(w) PROVE [Lifecycle!Next]_Seen
    BY <2>23, SameRows DEF Hook, rowVars
  <2>24. ASSUME NEW w \in Worker, MarkFailed(w) PROVE [Lifecycle!Next]_Seen
    <3>1. target[w] \in Doc
      BY <2>24 DEF MarkFailed, SafeInv, TypeInv, Wired, Process
    <3> QED
      BY <2>24, <3>1, StageMove DEF MarkFailed, Stages
  <2>25. ASSUME NEW w \in Worker, NEW j \in Job, Take(w, j) PROVE [Lifecycle!Next]_Seen
    BY <2>25, SameRows DEF Take, rowVars
  <2>26. ASSUME NEW w \in Worker, NEW j \in Job, TakeDeadLetter(w, j) PROVE [Lifecycle!Next]_Seen
    BY <2>26, SameRows DEF TakeDeadLetter, rowVars
  <2>27. ASSUME NEW w \in Worker, HorseKilled(w) PROVE [Lifecycle!Next]_Seen
    BY <2>27, SameRows DEF HorseKilled, rowVars
  <2>28. ASSUME NEW w \in Worker, WorkerDies(w) PROVE [Lifecycle!Next]_Seen
    BY <2>28, SameRows DEF WorkerDies, rowVars
  <2>29. ASSUME NEW w \in Worker, RegistrationExpires(w) PROVE [Lifecycle!Next]_Seen
    BY <2>29, SameRows DEF RegistrationExpires, rowVars
  <2>30. ASSUME NEW w \in Worker, WorkerStarts(w) PROVE [Lifecycle!Next]_Seen
    BY <2>30, SameRows DEF WorkerStarts, rowVars
  <2>31. ASSUME NEW j \in Job, Reclaim(j) PROVE [Lifecycle!Next]_Seen
    <3>1. job[j].doc \in Doc
      BY <2>31 DEF Reclaim, SafeInv, TypeInv, Wired
    <3> QED
      BY <2>31, <3>1, StageMove, SameRows DEF Reclaim, Stages
  <2>32. ASSUME NEW i \in Job, NEW j \in Job, Requeue(i, j) PROVE [Lifecycle!Next]_Seen
    BY <2>32, SameRows DEF Requeue, rowVars
  <2>33. ASSUME ApiCrashes PROVE [Lifecycle!Next]_Seen
    BY <2>33, SameRows DEF ApiCrashes, rowVars
  <2>34. CASE UNCHANGED vars
    BY <2>34, SameRows DEF vars, rowVars
  <2>35. QED
    BY <2>1, <2>2, <2>3, <2>4, <2>5, <2>6, <2>7, <2>8, <2>9, <2>10, <2>11,
       <2>12, <2>13, <2>14, <2>15, <2>16, <2>17, <2>18, <2>19, <2>20, <2>21,
       <2>22, <2>23, <2>24, <2>25, <2>26, <2>27, <2>28, <2>29, <2>30, <2>31,
       <2>32, <2>33, <2>34
       DEF Next, ApiStep, RunStep, WorkerStep, Process
<1>3. Spec => []RowsWhileDeleting
  BY DeletionInvariant
<1> QED
  BY <1>1, <1>2, <1>3, SafeInvariant, PTL
     DEF Spec, ImplementsLifecycle, Lifecycle!Spec, Seen

-----------------------------------------------------------------------------
(* The queue: who holds a job, and which jobs have a dead letter. *)

\* Only a running worker holds a job: threads and idle processes hold none.
ThreadsHoldNothing ==
    \A p \in Process : p \in Thread \/ pc[p] = "idle" => held[p] = NoJob

\* The letter is the last thing the hook writes before it marks the document.
LettersComeLast == \A w \in Worker : held[w] \in dlq => pc[w] = "markfailed"

QueueInv ==
    /\ ThreadsHoldNothing /\ JobsHaveOneHolder
    /\ DeadLettersAreExhausted /\ LettersComeLast

\* A step that leaves the jobs and the runs alone keeps the invariant.
LEMMA QueueFrame ==
    ASSUME QueueInv, UNCHANGED <<job, dlq, pc, target, held>>
    PROVE  QueueInv'
BY DEF QueueInv, ThreadsHoldNothing, JobsHaveOneHolder,
   DeadLettersAreExhausted, LettersComeLast

\* So does a run that goes on, short of the point after the letter.
LEMMA QueueMove ==
    ASSUME TypeInv, QueueInv, NEW p \in Process,
           pc[p] \notin {"idle", "markfailed"},
           NEW l \in Points \ {"idle", "markfailed"}, Goto(p, l),
           UNCHANGED <<job, dlq, target, held>>
    PROVE  QueueInv'
BY DEF QueueInv, ThreadsHoldNothing, JobsHaveOneHolder, Process,
   DeadLettersAreExhausted, LettersComeLast, Goto, TypeInv, TypeOK, RunTypes

\* A thread that takes up a document holds no job.
LEMMA QueueThread ==
    ASSUME TypeInv, QueueInv, NEW t \in Thread, NEW d, ThreadStarts(t, d),
           UNCHANGED <<job, dlq>>
    PROVE  QueueInv'
BY ProcessAssumption
   DEF QueueInv, ThreadsHoldNothing, JobsHaveOneHolder, Process,
       DeadLettersAreExhausted, LettersComeLast, ThreadStarts, TypeInv,
       TypeOK, RunTypes

\* A worker with a run: its job is started, nobody else's, and has a letter
\* only at the point after the hook.
LEMMA HolderFacts ==
    ASSUME TypeInv, QueueInv, NEW w \in Worker, pc[w] # "idle" \/ held[w] \in Job
    PROVE  /\ pc[w] # "idle" /\ held[w] \in Job
           /\ job[held[w]].status = "started"
           /\ job[held[w]].doc = target[w]
           /\ \A v \in Worker : held[v] = held[w] => v = w
           /\ held[w] \in dlq => pc[w] = "markfailed"
BY NoneAssumption
   DEF QueueInv, ThreadsHoldNothing, JobsHaveOneHolder, Process,
       DeadLettersAreExhausted, LettersComeLast, TypeInv

\* A job nobody holds may change as long as it does not become started, and
\* one with a letter keeps its retries spent.
LEMMA QueueUnheld ==
    ASSUME TypeInv, TypeInv', QueueInv, NEW j \in Job, job[j].status # "started",
           \A k \in Job : k # j => job'[k] = job[k],
           job'[j].status # "started",
           j \in dlq => j \notin dlq' \/ /\ job'[j].left = 0
                                         /\ job'[j].status \in {"abandoned", "failed"},
           \A k \in dlq' : k \in dlq \/ /\ k = j /\ job'[j].left = 0
                                        /\ job'[j].status \in {"abandoned", "failed"},
           UNCHANGED <<pc, target, held>>
    PROVE  QueueInv'
<1>1. \A w \in Worker : held[w] # j
  BY HolderFacts
<1>2. ThreadsHoldNothing' /\ LettersComeLast'
  BY <1>1 DEF QueueInv, ThreadsHoldNothing, LettersComeLast
<1>3. JobsHaveOneHolder'
  BY <1>1 DEF QueueInv, JobsHaveOneHolder
<1>4. DeadLettersAreExhausted'
  BY <1>1, HolderFacts DEF QueueInv, DeadLettersAreExhausted, TypeInv, TypeOK, JobTypes
<1> QED
  BY <1>2, <1>3, <1>4 DEF QueueInv

\* A worker puts its job down: the job is no longer started, and one with a
\* letter keeps its retries spent.
LEMMA QueuePutDown ==
    ASSUME TypeInv, TypeInv', QueueInv, NEW w \in Worker, Rest({w}),
           held[w] \in Job \/ pc[w] # "idle",
           \A k \in Job : k # held[w] => job'[k] = job[k],
           job'[held[w]].status # "started",
           held[w] \in dlq => /\ job'[held[w]].left = 0
                              /\ job'[held[w]].status \in {"abandoned", "failed"},
           dlq' = dlq
    PROVE  QueueInv'
<1>1. \A v \in Worker : v # w => held[v] # held[w]
  BY HolderFacts
<1>2. held'[w] = NoJob /\ pc'[w] = "idle"
  BY DEF Rest, Process
<1>3. \A p \in Process : p # w => /\ held'[p] = held[p] /\ pc'[p] = pc[p]
                                  /\ target'[p] = target[p]
  BY DEF Rest
<1>4. ThreadsHoldNothing' /\ LettersComeLast'
  BY <1>2, <1>3, NoneAssumption
     DEF QueueInv, ThreadsHoldNothing, LettersComeLast, Process, TypeInv,
         TypeOK, JobTypes
<1>5. \A j \in Job : job'[j].status = "started" =>
         \E v \in Worker : held'[v] = j /\ \A u \in Worker : held'[u] = j => u = v
  <2> SUFFICES ASSUME NEW j \in Job, job'[j].status = "started"
               PROVE  \E v \in Worker : held'[v] = j /\ \A u \in Worker : held'[u] = j => u = v
    OBVIOUS
  <2>1. j # held[w] /\ job[j].status = "started"
    OBVIOUS
  <2>2. PICK v \in Worker : held[v] = j /\ \A u \in Worker : held[u] = j => u = v
    BY <2>1 DEF QueueInv, JobsHaveOneHolder
  <2> QED
    BY <1>2, <1>3, <2>1, <2>2, NoneAssumption DEF Process
<1>6. \A v \in Worker : pc'[v] # "idle" =>
         /\ held'[v] \in Job
         /\ job'[held'[v]].status = "started" /\ job'[held'[v]].doc = target'[v]
  BY <1>1, <1>2, <1>3 DEF QueueInv, JobsHaveOneHolder, Process
<1>7. DeadLettersAreExhausted'
  BY <1>1, <1>2, <1>3, <1>6, HolderFacts
     DEF QueueInv, DeadLettersAreExhausted, Process, TypeInv, TypeOK, JobTypes
<1> QED
  BY <1>4, <1>5, <1>6, <1>7 DEF QueueInv, JobsHaveOneHolder

\* The queue is sound to begin with.
LEMMA QueueInvInit == Init => QueueInv
BY NoneAssumption
   DEF Init, QueueInv, ThreadsHoldNothing, JobsHaveOneHolder,
       DeadLettersAreExhausted, LettersComeLast, Process

\* Threads, or workers without a run, may rest without the queue noticing.
LEMMA QueueThreadsRest ==
    ASSUME TypeInv, QueueInv, NEW P, P \subseteq Thread, Rest(P),
           UNCHANGED <<job, dlq>>
    PROVE  QueueInv'
BY ProcessAssumption
   DEF QueueInv, ThreadsHoldNothing, JobsHaveOneHolder,
       DeadLettersAreExhausted, LettersComeLast, Process, Rest

\* An idle worker that comes to rest leaves the queue as it was.
LEMMA QueueIdleRests ==
    ASSUME TypeInv, QueueInv, NEW w \in Worker, pc[w] = "idle", held[w] = NoJob,
           Rest({w}), UNCHANGED <<job, dlq>>
    PROVE  QueueInv'
BY NoneAssumption
   DEF QueueInv, ThreadsHoldNothing, JobsHaveOneHolder,
       DeadLettersAreExhausted, LettersComeLast, Process, Rest

\* A failing run goes on to its clean-up.
LEMMA QueueFails ==
    ASSUME TypeInv, QueueInv, NEW p \in Process,
           pc[p] \notin {"idle", "markfailed"}, Fails(p)
    PROVE  QueueInv'
BY QueueMove DEF Fails, rqVars, Points

\* A new job is nobody's and has no letter.
LEMMA QueueNewJob ==
    ASSUME TypeInv, TypeInv', QueueInv, NEW j \in Job, NEW d, NewJob(j, d),
           UNCHANGED <<dlq, pc, target, held>>
    PROVE  QueueInv'
<1>1. \A k \in Job : k # j => job'[k] = job[k]
  BY DEF NewJob
<1>2. job[j].status = "free" /\ job'[j].status = "queued"
  BY DEF NewJob, TypeInv, TypeOK, JobTypes
<1>3. j \notin dlq
  BY <1>2 DEF QueueInv, DeadLettersAreExhausted
<1> QED
  BY <1>1, <1>2, <1>3, QueueUnheld

\* What a retry or a new status makes of one job.
LEMMA JobSet ==
    ASSUME TypeInv, NEW j \in Job, NEW s,
           Retried(j) \/ job' = [job EXCEPT ![j].status = s]
    PROVE  /\ \A k \in Job : k # j => job'[k] = job[k]
           /\ Retried(j) => job[j].left # 0 /\ job'[j].status = "queued"
           /\ job' = [job EXCEPT ![j].status = s] =>
                 job'[j].status = s /\ job'[j].left = job[j].left
<1>1. job[j] \in JobRecord
  BY DEF TypeInv, TypeOK, JobTypes
<1>2. Retried(j) => job[j].left # 0 /\ job'[j].status = "queued"
  BY <1>1 DEF Retried, JobRecord, TypeInv, TypeOK, JobTypes
<1>3. job' = [job EXCEPT ![j].status = s] =>
         job'[j].status = s /\ job'[j].left = job[j].left
  BY <1>1 DEF JobRecord, TypeInv, TypeOK, JobTypes
<1>4. \A k \in Job : k # j => job'[k] = job[k]
  BY DEF Retried, TypeInv, TypeOK, JobTypes
<1> QED
  BY <1>2, <1>3, <1>4

\* Every step keeps the queue sound.
LEMMA QueueInvNext == SafeInv /\ QueueInv /\ [Next]_vars => QueueInv'
<1> SUFFICES ASSUME SafeInv, QueueInv, [Next]_vars PROVE QueueInv'
  OBVIOUS
<1>0. TypeInv /\ TypeInv'
  BY TypeInvNext DEF SafeInv
<1> USE <1>0 DEF rqVars, runVars, Points, Writing
<1>1. ASSUME NEW d \in Doc, Upload(d) PROVE QueueInv'
  BY <1>1, QueueFrame DEF Upload
<1>2. ASSUME NEW d \in Doc, MarkQueued(d) PROVE QueueInv'
  BY <1>2, QueueFrame DEF MarkQueued
<1>3. ASSUME NEW d \in Doc, NEW j \in Job, Enqueue(d, j) PROVE QueueInv'
  BY <1>3, QueueNewJob DEF Enqueue
<1>4. ASSUME NEW d \in Doc, NEW t \in Thread, DispatchInline(d, t) PROVE QueueInv'
  BY <1>4, QueueThread DEF DispatchInline
<1>5. ASSUME NEW d \in Doc, EnqueueFails(d) PROVE QueueInv'
  BY <1>5, QueueFrame DEF EnqueueFails
<1>6. ASSUME NEW d \in Doc, PollStale(d) PROVE QueueInv'
  BY <1>6, QueueFrame DEF PollStale
<1>7. ASSUME NEW d \in Doc, RecoverDeclines(d) PROVE QueueInv'
  BY <1>7, QueueFrame DEF RecoverDeclines
<1>8. ASSUME NEW d \in Doc, NEW t \in Thread, Recover(d, t) PROVE QueueInv'
  BY <1>8, QueueThread DEF Recover
<1>9. ASSUME NEW d \in Doc, DeleteFile(d) PROVE QueueInv'
  BY <1>9, QueueFrame DEF DeleteFile
<1>10. ASSUME NEW d \in Doc, DeleteVectors(d) PROVE QueueInv'
  BY <1>10, QueueFrame DEF DeleteVectors
<1>11. ASSUME NEW d \in Doc, DeleteRow(d) PROVE QueueInv'
  BY <1>11, QueueFrame DEF DeleteRow
<1>12. ASSUME NEW d \in Doc, DeleteFails(d) PROVE QueueInv'
  BY <1>12, QueueFrame DEF DeleteFails
<1>13. ASSUME NEW p \in Process, Begin(p) PROVE QueueInv'
  BY <1>13, QueueMove, QueueFails DEF Begin
<1>14. ASSUME NEW p \in Process, Load(p) PROVE QueueInv'
  BY <1>14, QueueMove DEF Load
<1>15. ASSUME NEW p \in Process, Chunk(p) PROVE QueueInv'
  BY <1>15, QueueMove DEF Chunk
<1>16. ASSUME NEW p \in Process, Embed(p) PROVE QueueInv'
  BY <1>16, QueueMove DEF Embed
<1>17. ASSUME NEW p \in Process, Add(p) PROVE QueueInv'
  BY <1>17, QueueMove DEF Add
<1>18. ASSUME NEW p \in Process, RunFails(p) PROVE QueueInv'
  BY <1>18, QueueFails DEF RunFails
<1>19. ASSUME NEW p \in Process, MarkReady(p) PROVE QueueInv'
  BY <1>19, QueueMove DEF MarkReady
<1>20. ASSUME NEW p \in Process, Refresh(p) PROVE QueueInv'
  BY <1>20, QueueMove, QueueFails DEF Refresh
<1>21. ASSUME NEW p \in Process, Cleanup(p) PROVE QueueInv'
  BY <1>21, QueueMove DEF Cleanup
<1>22. ASSUME NEW p \in Process, Return(p) PROVE QueueInv'
  <2>1. CASE p \in Worker
    <3>1. /\ held[p] \in Job /\ held[p] \notin dlq /\ Rest({p}) /\ dlq' = dlq
          /\ job' = [job EXCEPT ![held[p]].status = "finished"]
      BY <1>22, <2>1, HolderFacts DEF Return
    <3> QED
      BY <2>1, <3>1, JobSet, QueuePutDown
  <2>2. CASE p \in Thread
    <3>1. held[p] = NoJob /\ UNCHANGED <<job, dlq>> /\ Rest({p})
      BY <1>22, <2>2, NoneAssumption
         DEF Return, QueueInv, ThreadsHoldNothing, Process
    <3> QED
      BY <2>2, <3>1, QueueThreadsRest
  <2> QED
    BY <2>1, <2>2 DEF Process
<1>23. ASSUME NEW w \in Worker, Hook(w) PROVE QueueInv'
  <2>0. /\ pc[w] = "hook" /\ held[w] \in Job /\ held[w] \notin dlq
        /\ job[held[w]].status = "started"
    BY <1>23, HolderFacts DEF Hook
  <2>1. CASE Retried(held[w]) /\ Rest({w}) /\ UNCHANGED dlq
    BY <2>0, <2>1, JobSet, QueuePutDown
  <2>2. CASE ~ (Retried(held[w]) /\ Rest({w}) /\ UNCHANGED dlq)
    <3>1. /\ job[held[w]].left = 0 /\ dlq' = dlq \cup {held[w]}
          /\ pc' = [pc EXCEPT ![w] = "markfailed"]
          /\ UNCHANGED <<job, target, held>>
      BY <1>23, <2>2 DEF Hook, Goto
    <3>2. \A v \in Worker : v # w => held[v] # held[w]
      BY <2>0, HolderFacts
    <3>3. pc'[w] = "markfailed" /\ \A p \in Process : p # w => pc'[p] = pc[p]
      BY <3>1 DEF TypeInv, TypeOK, RunTypes, Process
    <3> QED
      BY <2>0, <3>1, <3>2, <3>3, ProcessAssumption
         DEF QueueInv, ThreadsHoldNothing, JobsHaveOneHolder,
             DeadLettersAreExhausted, LettersComeLast, Process
  <2> QED
    BY <2>1, <2>2
<1>24. ASSUME NEW w \in Worker, MarkFailed(w) PROVE QueueInv'
  <2>1. /\ pc[w] = "markfailed" /\ held[w] \in Job /\ Rest({w}) /\ dlq' = dlq
        /\ job' = [job EXCEPT ![held[w]].status = "failed"]
    BY <1>24, HolderFacts DEF MarkFailed
  <2>2. job[held[w]].left = 0
    BY <2>1 DEF QueueInv, DeadLettersAreExhausted
  <2> QED
    BY <2>1, <2>2, JobSet, QueuePutDown
<1>25. ASSUME NEW w \in Worker, NEW j \in Job, Take(w, j) PROVE QueueInv'
  <2>1. /\ pc[w] = "idle" /\ job[j].status = "queued" /\ dlq' = dlq
        /\ job' = [job EXCEPT ![j].status = "started"]
        /\ pc' = [pc EXCEPT ![w] = "begin"] /\ held' = [held EXCEPT ![w] = j]
        /\ target' = [target EXCEPT ![w] = job[j].doc]
    BY <1>25 DEF Take, Goto
  <2>2. /\ pc'[w] = "begin" /\ held'[w] = j /\ target'[w] = job[j].doc
        /\ \A p \in Process : p # w => /\ pc'[p] = pc[p] /\ held'[p] = held[p]
                                       /\ target'[p] = target[p]
    BY <2>1 DEF TypeInv, TypeOK, RunTypes, Process
  <2>3. job'[j].status = "started" /\ job'[j].doc = job[j].doc
        /\ \A k \in Job : k # j => job'[k] = job[k]
    BY <2>1 DEF TypeInv, TypeOK, JobTypes, JobRecord
  <2>4. j \notin dlq /\ held[w] = NoJob /\ \A v \in Worker : held[v] # j
    BY <2>1, HolderFacts
       DEF QueueInv, DeadLettersAreExhausted, ThreadsHoldNothing, Process
  <2>5. ThreadsHoldNothing' /\ LettersComeLast'
    BY <2>1, <2>2, <2>4, ProcessAssumption
       DEF QueueInv, ThreadsHoldNothing, LettersComeLast, Process
  <2>6. JobsHaveOneHolder'
    BY <2>2, <2>3, <2>4, NoneAssumption DEF QueueInv, JobsHaveOneHolder, Process
  <2>7. DeadLettersAreExhausted'
    BY <2>1, <2>2, <2>3, <2>4, HolderFacts
       DEF QueueInv, DeadLettersAreExhausted, Process, TypeInv, TypeOK, JobTypes
  <2> QED
    BY <2>5, <2>6, <2>7 DEF QueueInv
<1>26. ASSUME NEW w \in Worker, NEW j \in Job, TakeDeadLetter(w, j) PROVE QueueInv'
  BY <1>26 DEF TakeDeadLetter, QueueInv, ThreadsHoldNothing, JobsHaveOneHolder,
     DeadLettersAreExhausted, LettersComeLast
<1>27. ASSUME NEW w \in Worker, HorseKilled(w) PROVE QueueInv'
  <2>1. /\ held[w] \in Job /\ Rest({w}) /\ dlq' = dlq
        /\ \/ Retried(held[w])
           \/ /\ job[held[w]].left = 0
              /\ job' = [job EXCEPT ![held[w]].status = "failed"]
    BY <1>27, HolderFacts DEF HorseKilled
  <2>2. held[w] \in dlq => job[held[w]].left = 0
    BY DEF QueueInv, DeadLettersAreExhausted
  <2> QED
    BY <2>1, <2>2, JobSet, QueuePutDown
<1>28. ASSUME NEW w \in Worker, WorkerDies(w) PROVE QueueInv'
  <2>1. Rest({w}) /\ dlq' = dlq
    BY <1>28 DEF WorkerDies
  <2>2. CASE held[w] \in Job
    <3>1. job' = [job EXCEPT ![held[w]].status = "abandoned"]
      BY <1>28, <2>2 DEF WorkerDies
    <3>2. held[w] \in dlq => job[held[w]].left = 0
      BY DEF QueueInv, DeadLettersAreExhausted
    <3> QED
      BY <2>1, <2>2, <3>1, <3>2, JobSet, QueuePutDown
  <2>3. CASE held[w] \notin Job
    <3>1. job' = job /\ pc[w] = "idle" /\ held[w] = NoJob
      BY <1>28, <2>3, HolderFacts
         DEF WorkerDies, QueueInv, ThreadsHoldNothing, Process
    <3> QED
      BY <2>1, <3>1, QueueIdleRests
  <2> QED
    BY <2>2, <2>3
<1>29. ASSUME NEW w \in Worker, RegistrationExpires(w) PROVE QueueInv'
  BY <1>29, QueueFrame DEF RegistrationExpires
<1>30. ASSUME NEW w \in Worker, WorkerStarts(w) PROVE QueueInv'
  BY <1>30, QueueFrame DEF WorkerStarts
<1>31. ASSUME NEW j \in Job, Reclaim(j) PROVE QueueInv'
  <2>1. job[j].status = "abandoned" /\ UNCHANGED <<pc, target, held>>
    BY <1>31 DEF Reclaim
  <2>2. CASE Retried(j) /\ UNCHANGED dlq
    <3>1. j \notin dlq
      BY <2>2, JobSet DEF QueueInv, DeadLettersAreExhausted
    <3> QED
      BY <2>1, <2>2, <3>1, JobSet, QueueUnheld
  <2>3. CASE ~ (Retried(j) /\ UNCHANGED dlq)
    <3>1. /\ job[j].left = 0 /\ dlq' = dlq \cup {j}
          /\ job' = [job EXCEPT ![j].status = "failed"]
      BY <1>31, <2>3 DEF Reclaim
    <3> QED
      BY <2>1, <3>1, JobSet, QueueUnheld
  <2> QED
    BY <2>2, <2>3
<1>32. ASSUME NEW i \in Job, NEW j \in Job, Requeue(i, j) PROVE QueueInv'
  BY <1>32, QueueNewJob DEF Requeue
<1>33. ASSUME ApiCrashes PROVE QueueInv'
  BY <1>33, QueueThreadsRest DEF ApiCrashes
<1>34. CASE UNCHANGED vars
  BY <1>34, QueueFrame DEF vars
<1>35. QED
  BY <1>1, <1>2, <1>3, <1>4, <1>5, <1>6, <1>7, <1>8, <1>9, <1>10, <1>11,
     <1>12, <1>13, <1>14, <1>15, <1>16, <1>17, <1>18, <1>19, <1>20, <1>21,
     <1>22, <1>23, <1>24, <1>25, <1>26, <1>27, <1>28, <1>29, <1>30, <1>31,
     <1>32, <1>33, <1>34
     DEF Next, ApiStep, RunStep, WorkerStep, Process

\* The queue is sound: a started job is one worker's and nobody else's, its
\* worker ingests the job's own document, and dead letters are written only
\* for jobs whose retries are spent, through kills, crashes and requeues.
THEOREM QueueStaysSound == Spec => []QueueIsSound
<1>1. TypeInv /\ QueueInv => QueueIsSound
  BY DEF QueueInv, QueueIsSound, TypeInv
<1>2. SafeInv => TypeInv
  BY DEF SafeInv
<1> QED
  BY <1>1, <1>2, QueueInvInit, QueueInvNext, SafeInvariant, PTL DEF Spec

-----------------------------------------------------------------------------
(* What is indexed and what has ended is taken back by nothing. *)

\* Only mark_indexing_ready writes the chunk count.
LEMMA WhoCountsChunks ==
    ASSUME [Next]_vars, chunks' # chunks
    PROVE  \E p \in Process : MarkReady(p)
<1> USE DEF rowVars
<1>1. ASSUME NEW d \in Doc,
             \/ Upload(d) \/ ApiStep(d) \/ EnqueueFails(d)
             \/ PollStale(d) \/ RecoverDeclines(d)
             \/ \E t \in Thread : Recover(d, t)
             \/ DeleteFile(d) \/ DeleteVectors(d) \/ DeleteRow(d) \/ DeleteFails(d)
      PROVE  chunks' = chunks
  BY <1>1 DEF Upload, ApiStep, MarkQueued, Enqueue, DispatchInline,
     EnqueueFails, PollStale, RecoverDeclines, Recover, DeleteFile,
     DeleteVectors, DeleteRow, DeleteFails
<1>2. ASSUME NEW p \in Process, RunStep(p) PROVE chunks' = chunks \/ MarkReady(p)
  BY <1>2 DEF RunStep, Begin, Load, Chunk, Embed, Add, RunFails, Refresh,
     Cleanup, Return, Fails
<1>3. ASSUME NEW w \in Worker,
             \/ Hook(w) \/ MarkFailed(w)
             \/ \E j \in Job : Take(w, j) \/ TakeDeadLetter(w, j)
             \/ HorseKilled(w) \/ WorkerDies(w)
             \/ RegistrationExpires(w) \/ WorkerStarts(w)
      PROVE  chunks' = chunks
  BY <1>3 DEF Hook, MarkFailed, Take, TakeDeadLetter, HorseKilled, WorkerDies,
     RegistrationExpires, WorkerStarts
<1>4. ASSUME NEW j \in Job, Reclaim(j) \/ \E i \in Job : Requeue(i, j)
      PROVE  chunks' = chunks
  BY <1>4 DEF Reclaim, Requeue
<1>5. ApiCrashes \/ UNCHANGED vars => chunks' = chunks
  BY DEF ApiCrashes, vars
<1> QED
  BY <1>1, <1>2, <1>3, <1>4, <1>5 DEF Next, WorkerStep, Process

\* The queue changes a job only while it is free, queued, started or abandoned.
LEMMA EndedJobStep ==
    ASSUME SafeInv, QueueInv, [Next]_vars, NEW k \in Job,
           job[k].status \in {"finished", "failed"}
    PROVE  job'[k] = job[k]
<1>0. TypeInv
  BY DEF SafeInv
<1> USE <1>0 DEF rqVars
<1>1. ASSUME NEW d \in Doc,
             \/ Upload(d) \/ EnqueueFails(d) \/ MarkQueued(d)
             \/ PollStale(d) \/ RecoverDeclines(d)
             \/ \E t \in Thread : Recover(d, t) \/ DispatchInline(d, t)
             \/ DeleteFile(d) \/ DeleteVectors(d) \/ DeleteRow(d) \/ DeleteFails(d)
      PROVE  job' = job
  BY <1>1 DEF Upload, MarkQueued, DispatchInline,
     EnqueueFails, PollStale, RecoverDeclines, Recover, DeleteFile,
     DeleteVectors, DeleteRow, DeleteFails
<1>2. ASSUME NEW j \in Job, NEW d, NewJob(j, d) PROVE job'[k] = job[k]
  BY <1>2 DEF NewJob, TypeInv, TypeOK, JobTypes
<1>3. ASSUME NEW p \in Process, RunStep(p), ~ Return(p) PROVE job' = job
  BY <1>3 DEF RunStep, Begin, Load, Chunk, Embed, Add, RunFails, Refresh,
     MarkReady, Cleanup, Fails
<1>4. ASSUME NEW p \in Process, Return(p) PROVE job'[k] = job[k]
  <2>1. held[p] # k
    BY HolderFacts, NoneAssumption DEF QueueInv, ThreadsHoldNothing, Process
  <2> QED
    BY <1>4, <2>1 DEF Return, TypeInv, TypeOK, JobTypes
<1>5. ASSUME NEW w \in Worker, pc[w] # "idle" \/ held[w] \in Job,
             \/ Retried(held[w])
             \/ \E s : job' = [job EXCEPT ![held[w]].status = s]
      PROVE  job'[k] = job[k]
  <2>1. held[w] \in Job /\ held[w] # k
    BY <1>5, HolderFacts
  <2> QED
    BY <1>5, <2>1, JobSet
<1>6. ASSUME NEW w \in Worker, Hook(w) \/ MarkFailed(w) \/ HorseKilled(w) \/ WorkerDies(w)
      PROVE  job'[k] = job[k]
  BY <1>5, <1>6 DEF Hook, MarkFailed, HorseKilled, WorkerDies
<1>7. ASSUME NEW w \in Worker, NEW j \in Job, Take(w, j) PROVE job'[k] = job[k]
  BY <1>7, JobSet DEF Take
<1>8. ASSUME NEW w \in Worker,
             \/ \E j \in Job : TakeDeadLetter(w, j)
             \/ RegistrationExpires(w) \/ WorkerStarts(w)
      PROVE  job' = job
  BY <1>8 DEF TakeDeadLetter, RegistrationExpires, WorkerStarts
<1>9. ASSUME NEW j \in Job, Reclaim(j) PROVE job'[k] = job[k]
  BY <1>9, JobSet DEF Reclaim
<1>10. ApiCrashes \/ UNCHANGED vars => job' = job
  BY DEF ApiCrashes, vars
<1> QED
  BY <1>1, <1>2, <1>3, <1>4, <1>6, <1>7, <1>8, <1>9, <1>10
     DEF Next, ApiStep, WorkerStep, RunStep, Process, Enqueue, Requeue

\* An indexed document's chunk count stays, and a job that has finished or
\* failed never changes again: a requeue makes a new job.
THEOREM NothingIsTakenBack == Spec => NothingTakenBack
<1>1. SafeInv /\ [Next]_vars => \A d \in Doc : chunks[d] > 0 => chunks'[d] = chunks[d]
  <2> SUFFICES ASSUME SafeInv, [Next]_vars, NEW d \in Doc, chunks[d] > 0
               PROVE  chunks'[d] = chunks[d]
    OBVIOUS
  <2>1. CASE chunks' = chunks
    BY <2>1
  <2>2. ASSUME NEW p \in Process, MarkReady(p) PROVE chunks'[d] = chunks[d]
    <3>1. chunks[d] = NumBatches
      BY DEF SafeInv, TypeInv, TypeOK, DocTypes
    <3> QED
      BY <2>2, <3>1 DEF MarkReady, SafeInv, TypeInv, TypeOK, DocTypes
  <2> QED
    BY <2>1, <2>2, WhoCountsChunks
<1>2. SafeInv /\ QueueInv /\ [Next]_vars =>
         \A j \in Job : job[j].status \in {"finished", "failed"} => job'[j] = job[j]
  BY EndedJobStep
<1>3. Spec => ChunksNeverForgotten
  BY <1>1, SafeInvariant, PTL DEF Spec, ChunksNeverForgotten
<1>4. Spec => EndedJobsStayEnded
  BY <1>2, QueueInvInit, QueueInvNext, SafeInvariant, PTL DEF Spec, EndedJobsStayEnded
<1> QED
  BY <1>3, <1>4, PTL DEF NothingTakenBack

-----------------------------------------------------------------------------
(* The vector store: neither orphans nor duplicates out of one run. *)

\* The steps of a delete request: no row is deleted before its last step, the
\* file of a document of its own path stays removed, and what the request has
\* removed stays removed unless a run was writing at that moment.
AbsentUntouched == \A d \in Doc : stage[d] = "absent" => deletion[d] = "none"
GoneDeleted     == \A d \in Doc : stage[d] = "gone" => deletion[d] = "done"
FileStaysRemoved ==
    \A d \in Doc : Alone(d) /\ deletion[d] # "none" => ~ HasFile(d)
VectorsStayRemoved ==
    \A d \in Doc : Alone(d) /\ deletion[d] \in {"row", "done"} /\ d \notin raced =>
        /\ \A b \in Batches : copies[d][b] = 0
        /\ \A p \in Process : target[p] = d => pc[p] \notin Writing

\* Before a run of the document has begun there is nothing of it in the store.
NoneBegun ==
    \A d \in Doc : begun[d] = 0 =>
        /\ \A b \in Batches : copies[d][b] = 0
        /\ \A p \in Process : target[p] = d => pc[p] \notin Writing

\* As long as one run has begun, one process at most is writing, and it has
\* stored each batch it is past once and no other batch.
OneBegun ==
    \A d \in Doc : begun[d] < 2 =>
        /\ \A b \in Batches : copies[d][b] < 2
        /\ \A p, q \in Process : target[p] = d /\ target[q] = d
              /\ pc[p] \in Writing /\ pc[q] \in Writing => p = q
        /\ \A p \in Process : target[p] = d =>
              /\ pc[p] \in {"load", "chunk"} => \A b \in Batches : copies[d][b] = 0
              /\ pc[p] \in {"embed", "add"} =>
                    \A b \in Batches : b >= batch[p] => copies[d][b] = 0

DeletionInv == AbsentUntouched /\ GoneDeleted /\ FileStaysRemoved
StoreInv    == VectorsStayRemoved /\ NoneBegun /\ OneBegun
ChunkInv    == DeletionInv /\ StoreInv

\* There are no vectors to begin with.
LEMMA ChunkInvInit == Init => ChunkInv
BY DEF Init, ChunkInv, DeletionInv, StoreInv, AbsentUntouched, GoneDeleted,
   FileStaysRemoved, VectorsStayRemoved, NoneBegun, OneBegun, Process, Writing

\* Stages written by a run or a request say nothing about a delete request.
LEMMA DeletionFrame ==
    ASSUME TypeInv, DeletionInv, deletion' = deletion,
           \A d \in Doc : stage'[d] = stage[d] \/ stage'[d] \in Stages,
           \A f \in Path : file'[f] => file[f]
    PROVE  DeletionInv'
BY PathAssumption
   DEF DeletionInv, AbsentUntouched, GoneDeleted, FileStaysRemoved, HasFile,
       Alone, Stages

\* The store is not concerned when no process starts writing, no vector comes
\* and no delete request moves on to the row.
LEMMA StoreFrame ==
    ASSUME StoreInv, UNCHANGED <<copies, begun, raced>>,
           \A d \in Doc : deletion'[d] \in {"row", "done"} => deletion[d] \in {"row", "done"},
           \A p \in Process : pc'[p] \in Writing =>
              /\ pc[p] = pc'[p] /\ target[p] = target'[p] /\ batch[p] = batch'[p]
    PROVE  StoreInv'
BY DEF StoreInv, VectorsStayRemoved, NoneBegun, OneBegun, Writing, Alone

\* A stage that is set is one of the stages.
LEMMA StageKept ==
    ASSUME TypeInv, NEW e, NEW s \in Stages, StageBecomes(e, s)
    PROVE  \A d \in Doc : stage'[d] = stage[d] \/ stage'[d] \in Stages
BY DEF StageBecomes, TypeInv, TypeOK, DocTypes

\* A failing run sets a stage and touches no file or vector.
LEMMA StageOfFails ==
    ASSUME TypeInv, NEW p \in Process, Fails(p)
    PROVE  /\ \A d \in Doc : stage'[d] = stage[d] \/ stage'[d] \in Stages
           /\ UNCHANGED <<file, copies, deletion, target, batch>>
           /\ Goto(p, "unwind")
BY DEF Fails, TypeInv, TypeOK, DocTypes, Stages, diskVars, apiVars

\* A run that leaves its writing part, or moves outside of it, alone.
LEMMA StoreLeave ==
    ASSUME TypeInv, StoreInv, NEW p \in Process, NEW l \in Points \ Writing,
           Goto(p, l), UNCHANGED <<copies, begun, raced, deletion, target, batch>>
    PROVE  StoreInv'
<1>1. \A q \in Process : pc'[q] \in Writing => pc[q] = pc'[q]
  BY DEF Goto, TypeInv, TypeOK, RunTypes
<1> QED
  BY <1>1, StoreFrame

\* A run that goes on inside its writing part, without storing a batch.
LEMMA StoreGoesOn ==
    ASSUME TypeInv, StoreInv, NEW p \in Process, target[p] \in Doc,
           UNCHANGED <<copies, begun, raced, deletion, target>>,
           \/ pc[p] = "load" /\ Goto(p, "chunk") /\ batch' = batch
           \/ pc[p] = "chunk" /\ Goto(p, "embed") /\ batch' = [batch EXCEPT ![p] = 1]
           \/ pc[p] = "embed" /\ Goto(p, "add") /\ batch' = batch
    PROVE  StoreInv'
<1>1. /\ pc[p] \in Writing /\ pc'[p] \in {"chunk", "embed", "add"}
      /\ \A q \in Process : q # p => pc'[q] = pc[q] /\ batch'[q] = batch[q]
      /\ pc'[p] = "chunk" => pc[p] = "load"
      /\ pc'[p] = "embed" => pc[p] = "chunk"
      /\ pc'[p] = "add" => pc[p] = "embed" /\ batch'[p] = batch[p]
  BY DEF Goto, Writing, TypeInv, TypeOK, RunTypes
<1>2. \A q \in Process : pc'[q] \in Writing <=> pc[q] \in Writing
  BY <1>1 DEF Writing
<1>3. VectorsStayRemoved' /\ NoneBegun'
  BY <1>2 DEF StoreInv, VectorsStayRemoved, NoneBegun, Alone
<1>4. OneBegun'
  <2> SUFFICES ASSUME NEW d \in Doc, begun[d] < 2 PROVE
        /\ \A b \in Batches : copies[d][b] < 2
        /\ \A q, r \in Process : target[q] = d /\ target[r] = d
              /\ pc'[q] \in Writing /\ pc'[r] \in Writing => q = r
        /\ \A q \in Process : target[q] = d =>
              /\ pc'[q] \in {"load", "chunk"} => \A b \in Batches : copies[d][b] = 0
              /\ pc'[q] \in {"embed", "add"} =>
                    \A b \in Batches : b >= batch'[q] => copies[d][b] = 0
    BY DEF OneBegun
  <2>1. /\ \A b \in Batches : copies[d][b] < 2
        /\ \A q, r \in Process : target[q] = d /\ target[r] = d
              /\ pc'[q] \in Writing /\ pc'[r] \in Writing => q = r
    BY <1>2 DEF StoreInv, OneBegun
  <2>2. ASSUME NEW q \in Process, target[q] = d
        PROVE  /\ pc'[q] \in {"load", "chunk"} => \A b \in Batches : copies[d][b] = 0
               /\ pc'[q] \in {"embed", "add"} =>
                     \A b \in Batches : b >= batch'[q] => copies[d][b] = 0
    BY <1>1, <2>2 DEF StoreInv, OneBegun
  <2> QED
    BY <2>1, <2>2
<1> QED
  BY <1>3, <1>4 DEF StoreInv

\* A run begins only on a file that is there: of a document whose removal has
\* got to the row no run begins, and a document's first run finds nothing of it.
LEMMA StoreBegins ==
    ASSUME TypeInv, ChunkInv, NEW p \in Process, target[p] \in Doc,
           pc[p] = "begin", HasFile(target[p]), Goto(p, "load"),
           begun' = [begun EXCEPT ![target[p]] = IF @ = 2 THEN 2 ELSE @ + 1],
           UNCHANGED <<copies, raced, deletion, target, batch>>
    PROVE  StoreInv'
<1> DEFINE d == target[p]
<1>1. /\ pc'[p] = "load"
      /\ \A q \in Process : q # p => pc'[q] = pc[q]
  BY DEF Goto, TypeInv, TypeOK, RunTypes
<1>2. begun[d] \in 0..2 /\ begun'[d] = (IF begun[d] = 2 THEN 2 ELSE begun[d] + 1)
  BY DEF TypeInv, TypeOK, HistoryTypes
<1>3. \A e \in Doc : e # d => begun'[e] = begun[e]
  BY DEF TypeInv, TypeOK, HistoryTypes
<1>4. begun'[d] # 0 /\ (begun'[d] < 2 => begun[d] = 0)
  BY <1>2
<1>5. ~ (Alone(d) /\ deletion[d] \in {"row", "done"})
  BY DEF ChunkInv, DeletionInv, FileStaysRemoved
<1>6. VectorsStayRemoved'
  BY <1>1, <1>5 DEF ChunkInv, StoreInv, VectorsStayRemoved, Alone
<1>7. NoneBegun'
  BY <1>1, <1>3, <1>4 DEF ChunkInv, StoreInv, NoneBegun
<1>8. OneBegun'
  <2> SUFFICES ASSUME NEW e \in Doc, begun'[e] < 2 PROVE
        /\ \A b \in Batches : copies[e][b] < 2
        /\ \A q, r \in Process : target[q] = e /\ target[r] = e
              /\ pc'[q] \in Writing /\ pc'[r] \in Writing => q = r
        /\ \A q \in Process : target[q] = e =>
              /\ pc'[q] \in {"load", "chunk"} => \A b \in Batches : copies[e][b] = 0
              /\ pc'[q] \in {"embed", "add"} =>
                    \A b \in Batches : b >= batch[q] => copies[e][b] = 0
    BY DEF OneBegun
  <2>1. CASE e = d
    <3>1. /\ \A b \in Batches : copies[d][b] = 0
          /\ \A q \in Process : target[q] = d => pc[q] \notin Writing
      BY <1>4, <2>1 DEF ChunkInv, StoreInv, NoneBegun
    <3>2. \A q \in Process : target[q] = d /\ pc'[q] \in Writing => q = p
      BY <1>1, <3>1
    <3> HIDE DEF d
    <3> QED
      BY <2>1, <3>1, <3>2
  <2>2. CASE e # d
    <3>1. begun[e] < 2 /\ \A q \in Process : target[q] = e => pc'[q] = pc[q]
      BY <1>1, <1>3, <2>2
    <3> QED
      BY <3>1 DEF ChunkInv, StoreInv, OneBegun
  <2> QED
    BY <2>1, <2>2
<1> QED
  BY <1>6, <1>7, <1>8 DEF StoreInv

\* A batch stored: by the only writer, in a place still empty, if the document
\* has seen one run only.
LEMMA StoreAdds ==
    ASSUME TypeInv, StoreInv, NEW p \in Process, target[p] \in Doc, Add(p)
    PROVE  StoreInv'
<1> DEFINE d == target[p]
           b == batch[p]
           n == IF copies[d][b] = MaxCopies THEN MaxCopies ELSE copies[d][b] + 1
<1>1. /\ pc[p] = "add" /\ copies' = [copies EXCEPT ![d][b] = n]
      /\ UNCHANGED <<target, begun, raced, deletion>>
  BY DEF Add, history, apiVars
<1>2. d \in Doc /\ b \in Batches /\ copies[d][b] \in 0..MaxCopies
  BY DEF TypeInv, TypeOK, DocTypes, RunTypes
<1>3. \A q \in Process : q # p => pc'[q] = pc[q] /\ batch'[q] = batch[q]
  BY DEF Add, Goto, TypeInv, TypeOK, RunTypes
<1>4. \/ pc'[p] = "final"
      \/ pc'[p] = "embed" /\ batch'[p] = b + 1
  BY DEF Add, Goto, TypeInv, TypeOK, RunTypes
<1>5. /\ \A e \in Doc : e # d => copies'[e] = copies[e]
      /\ copies'[d][b] = n
      /\ \A i \in Batches : i # b => copies'[d][i] = copies[d][i]
  BY <1>1, <1>2 DEF TypeInv, TypeOK, DocTypes
<1>6. d \in raced \/ ~ (Alone(d) /\ deletion[d] \in {"row", "done"})
  BY <1>1, <1>2 DEF StoreInv, VectorsStayRemoved, Writing
<1>7. begun[d] # 0
  BY <1>1, <1>2 DEF StoreInv, NoneBegun, Writing
<1>8. begun[d] < 2 => copies[d][b] = 0
  BY <1>1, <1>2 DEF StoreInv, OneBegun, Batches
<1>9. begun[d] < 2 => n < 2
  BY <1>2, <1>8, BoundAssumption
<1>10. \A q \in Process : pc'[q] \in Writing => pc[q] \in Writing
  BY <1>1, <1>3 DEF Writing
<1> HIDE DEF n
<1>11. VectorsStayRemoved'
  BY <1>1, <1>5, <1>6, <1>10 DEF StoreInv, VectorsStayRemoved, Alone
<1>12. NoneBegun'
  BY <1>1, <1>5, <1>7, <1>10 DEF StoreInv, NoneBegun
<1>13. OneBegun'
  <2> SUFFICES ASSUME NEW e \in Doc, begun[e] < 2 PROVE
        /\ \A i \in Batches : copies'[e][i] < 2
        /\ \A q, r \in Process : target[q] = e /\ target[r] = e
              /\ pc'[q] \in Writing /\ pc'[r] \in Writing => q = r
        /\ \A q \in Process : target[q] = e =>
              /\ pc'[q] \in {"load", "chunk"} => \A i \in Batches : copies'[e][i] = 0
              /\ pc'[q] \in {"embed", "add"} =>
                    \A i \in Batches : i >= batch'[q] => copies'[e][i] = 0
    BY <1>1 DEF OneBegun
  <2>1. \A q, r \in Process : target[q] = e /\ target[r] = e
              /\ pc'[q] \in Writing /\ pc'[r] \in Writing => q = r
    BY <1>10 DEF StoreInv, OneBegun
  <2>2. \A i \in Batches : copies'[e][i] < 2
    BY <1>5, <1>9 DEF StoreInv, OneBegun
  <2>3. CASE e = d
    <3>1. \A q \in Process : target[q] = d /\ pc[q] \in Writing => q = p
      BY <1>1, <2>3 DEF StoreInv, OneBegun, Writing
    <3>2. \A i \in Batches : i >= b + 1 => i # b /\ i >= b
      BY <1>2 DEF Batches
    <3>3. \A i \in Batches : i >= b + 1 => copies'[d][i] = 0
      BY <1>1, <1>2, <1>5, <2>3, <3>2 DEF StoreInv, OneBegun
    <3>4. \A q \in Process : target[q] = d /\ pc'[q] \in Writing =>
             pc'[q] = "embed" /\ batch'[q] = b + 1
      BY <1>4, <1>10, <3>1 DEF Writing
    <3> QED
      BY <2>1, <2>2, <2>3, <3>3, <3>4 DEF Writing
  <2>4. CASE e # d
    <3>1. \A q \in Process : target[q] = e => pc'[q] = pc[q] /\ batch'[q] = batch[q]
      BY <1>3, <2>4
    <3> QED
      BY <1>5, <2>1, <2>2, <2>4, <3>1 DEF StoreInv, OneBegun
  <2> QED
    BY <2>3, <2>4
<1> QED
  BY <1>11, <1>12, <1>13 DEF StoreInv

\* The delete request empties the store, and takes down whether it raced.
LEMMA StoreDeletes ==
    ASSUME TypeInv, StoreInv, NEW d \in Doc, DeleteVectors(d)
    PROVE  StoreInv'
<1>1. /\ copies' = [copies EXCEPT ![d] = [b \in Batches |-> 0]]
      /\ deletion' = [deletion EXCEPT ![d] = "row"]
      /\ raced' = IF \E p \in Process : target[p] = d /\ pc[p] \in Writing
                    THEN raced \cup {d} ELSE raced
      /\ UNCHANGED <<begun, pc, target, batch>>
  BY DEF DeleteVectors, runVars
<1>2. /\ \A b \in Batches : copies'[d][b] = 0
      /\ \A e \in Doc : e # d => copies'[e] = copies[e] /\ deletion'[e] = deletion[e]
  BY <1>1 DEF TypeInv, TypeOK, DocTypes
<1>3. VectorsStayRemoved'
  BY <1>1, <1>2 DEF StoreInv, VectorsStayRemoved, Alone
<1>4. NoneBegun' /\ OneBegun'
  BY <1>1, <1>2 DEF StoreInv, NoneBegun, OneBegun
<1> QED
  BY <1>3, <1>4 DEF StoreInv

\* Every step keeps account of the vectors.
LEMMA ChunkInvNext == SafeInv /\ ChunkInv /\ [Next]_vars => ChunkInv'
<1> SUFFICES ASSUME SafeInv, ChunkInv, [Next]_vars PROVE ChunkInv'
  OBVIOUS
<1>0. TypeInv /\ DeletionInv /\ StoreInv
  BY DEF SafeInv, ChunkInv
<1> USE <1>0 DEF ChunkInv, rowVars, diskVars, apiVars, rqVars, runVars, history,
                 Points, Writing
<1>a. ASSUME UNCHANGED <<stage, file, copies, deletion, pc, target, batch, begun, raced>>
      PROVE  ChunkInv'
  BY <1>a, DeletionFrame, StoreFrame
<1>b. ASSUME UNCHANGED <<stage, file, copies, deletion, begun, raced>>,
             NEW P, Rest(P)
      PROVE  ChunkInv'
  <2>1. \A p \in Process : pc'[p] \in Writing =>
           /\ pc[p] = pc'[p] /\ target[p] = target'[p] /\ batch[p] = batch'[p]
    BY <1>b DEF Rest
  <2> QED
    BY <1>b, <2>1, DeletionFrame, StoreFrame
<1>c. ASSUME UNCHANGED <<file, copies, deletion, begun, raced>>,
             NEW t \in Thread, NEW d, ThreadStarts(t, d),
             \A e \in Doc : stage'[e] = stage[e] \/ stage'[e] \in Stages
      PROVE  ChunkInv'
  <2>1. \A p \in Process : pc'[p] \in Writing =>
           /\ pc[p] = pc'[p] /\ target[p] = target'[p] /\ batch[p] = batch'[p]
    BY <1>c DEF ThreadStarts, Process, TypeInv, TypeOK, RunTypes
  <2> QED
    BY <1>c, <2>1, DeletionFrame, StoreFrame
<1>d. ASSUME NEW p \in Process, Fails(p), UNCHANGED history PROVE ChunkInv'
  BY <1>d, StageOfFails, DeletionFrame, StoreLeave
<1>e. \A p \in Process : pc[p] # "idle" => target[p] \in Doc
  BY DEF TypeInv, Wired
<1>1. ASSUME NEW d \in Doc, Upload(d) PROVE ChunkInv'
  <2>1. stage[d] = "absent" /\ deletion[d] = "none" /\ deletion' = deletion
    BY <1>1 DEF Upload, DeletionInv, AbsentUntouched
  <2>2. /\ stage' = [stage EXCEPT ![d] = "queued"]
        /\ file' = [file EXCEPT ![PathOf[d]] = TRUE]
    BY <1>1 DEF Upload
  <2>3. DeletionInv'
    BY <2>1, <2>2, PathAssumption
       DEF DeletionInv, AbsentUntouched, GoneDeleted, FileStaysRemoved, Alone,
           HasFile, TypeInv, TypeOK, DocTypes
  <2> QED
    BY <1>1, <2>3, StoreFrame DEF Upload
<1>2. ASSUME NEW d \in Doc, MarkQueued(d) PROVE ChunkInv'
  BY <1>2, StageKept, DeletionFrame, StoreFrame DEF MarkQueued, Stages
<1>3. ASSUME NEW d \in Doc, NEW j \in Job, Enqueue(d, j) PROVE ChunkInv'
  BY <1>3, <1>a DEF Enqueue
<1>4. ASSUME NEW d \in Doc, NEW t \in Thread, DispatchInline(d, t) PROVE ChunkInv'
  BY <1>4, <1>c, StageKept DEF DispatchInline, Stages
<1>5. ASSUME NEW d \in Doc, EnqueueFails(d) PROVE ChunkInv'
  BY <1>5, <1>a DEF EnqueueFails
<1>6. ASSUME NEW d \in Doc, PollStale(d) PROVE ChunkInv'
  BY <1>6, <1>a DEF PollStale
<1>7. ASSUME NEW d \in Doc, RecoverDeclines(d) PROVE ChunkInv'
  BY <1>7, <1>a DEF RecoverDeclines
<1>8. ASSUME NEW d \in Doc, NEW t \in Thread, Recover(d, t) PROVE ChunkInv'
  BY <1>8, <1>c DEF Recover
<1>9. ASSUME NEW d \in Doc, DeleteFile(d) PROVE ChunkInv'
  <2>1. stage[d] \notin {"absent", "gone"}
    BY <1>9 DEF DeleteFile, RowExists, Stages
  <2>2. /\ deletion' = [deletion EXCEPT ![d] = "vectors"]
        /\ file' = [file EXCEPT ![PathOf[d]] = FALSE]
        /\ UNCHANGED <<stage, copies, begun, raced, pc, target, batch>>
    BY <1>9 DEF DeleteFile
  <2>3. DeletionInv'
    BY <2>1, <2>2, PathAssumption
       DEF DeletionInv, AbsentUntouched, GoneDeleted, FileStaysRemoved, Alone,
           HasFile, TypeInv, TypeOK, DocTypes
  <2>4. StoreInv'
    BY <2>2, StoreFrame DEF TypeInv, TypeOK, DocTypes
  <2> QED
    BY <2>3, <2>4
<1>10. ASSUME NEW d \in Doc, DeleteVectors(d) PROVE ChunkInv'
  <2>1. DeletionInv'
    BY <1>10
       DEF DeleteVectors, DeletionInv, AbsentUntouched, GoneDeleted,
           FileStaysRemoved, Alone, HasFile, TypeInv, TypeOK, DocTypes
  <2> QED
    BY <1>10, <2>1, StoreDeletes
<1>11. ASSUME NEW d \in Doc, DeleteRow(d) PROVE ChunkInv'
  <2>1. DeletionInv'
    BY <1>11
       DEF DeleteRow, DeletionInv, AbsentUntouched, GoneDeleted,
           FileStaysRemoved, Alone, HasFile, TypeInv, TypeOK, DocTypes
  <2>2. StoreInv'
    BY <1>11, StoreFrame DEF DeleteRow, TypeInv, TypeOK, DocTypes
  <2> QED
    BY <2>1, <2>2
<1>12. ASSUME NEW d \in Doc, DeleteFails(d) PROVE ChunkInv'
  <2>1. DeletionInv'
    BY <1>12
       DEF DeleteFails, DeletionInv, AbsentUntouched, GoneDeleted,
           FileStaysRemoved, Alone, HasFile, TypeInv, TypeOK, DocTypes
  <2>2. StoreInv'
    BY <1>12, StoreFrame DEF DeleteFails, TypeInv, TypeOK, DocTypes
  <2> QED
    BY <2>1, <2>2
<1>13. ASSUME NEW p \in Process, Begin(p) PROVE ChunkInv'
  <2>1. pc[p] = "begin" /\ target[p] \in Doc
    BY <1>13, <1>e DEF Begin
  <2>2. CASE ~ RowExists(target[p])
    <3>1. /\ Goto(p, "return")
          /\ UNCHANGED <<stage, file, copies, deletion, target, batch, begun, raced>>
      BY <1>13, <2>2 DEF Begin
    <3> QED
      BY <3>1, DeletionFrame, StoreLeave
  <2>3. CASE RowExists(target[p]) /\ ~ HasFile(target[p])
    BY <1>13, <1>d, <2>3 DEF Begin
  <2>4. CASE RowExists(target[p]) /\ HasFile(target[p])
    <3>1. /\ StageBecomes(target[p], "loading") /\ Goto(p, "load")
          /\ begun' = [begun EXCEPT ![target[p]] = IF @ = 2 THEN 2 ELSE @ + 1]
          /\ UNCHANGED <<file, copies, raced, deletion, target, batch>>
      BY <1>13, <2>4 DEF Begin
    <3>2. StoreInv'
      BY <2>1, <2>4, <3>1, StoreBegins
    <3> QED
      BY <3>1, <3>2, StageKept, DeletionFrame DEF Stages
  <2> QED
    BY <2>2, <2>3, <2>4
<1>14. ASSUME NEW p \in Process, Load(p) PROVE ChunkInv'
  BY <1>14, <1>e, StageKept, DeletionFrame, StoreGoesOn DEF Load, Stages
<1>15. ASSUME NEW p \in Process, Chunk(p) PROVE ChunkInv'
  BY <1>15, <1>e, StageKept, DeletionFrame, StoreGoesOn DEF Chunk, Stages
<1>16. ASSUME NEW p \in Process, Embed(p) PROVE ChunkInv'
  BY <1>16, <1>e, StageKept, DeletionFrame, StoreGoesOn DEF Embed, Stages
<1>17. ASSUME NEW p \in Process, Add(p) PROVE ChunkInv'
  <2>1. DeletionInv'
    BY <1>17, DeletionFrame DEF Add
  <2>2. target[p] \in Doc
    BY <1>17, <1>e DEF Add
  <2> QED
    BY <1>17, <2>1, <2>2, StoreAdds
<1>18. ASSUME NEW p \in Process, RunFails(p) PROVE ChunkInv'
  BY <1>18, <1>d DEF RunFails
<1>19. ASSUME NEW p \in Process, MarkReady(p) PROVE ChunkInv'
  BY <1>19, StageKept, DeletionFrame, StoreLeave DEF MarkReady, Stages
<1>20. ASSUME NEW p \in Process, Refresh(p) PROVE ChunkInv'
  <2>1. CASE RowExists(target[p])
    BY <1>20, <2>1, DeletionFrame, StoreLeave DEF Refresh
  <2>2. CASE ~ RowExists(target[p])
    BY <1>20, <1>d, <2>2 DEF Refresh
  <2> QED
    BY <2>1, <2>2
<1>21. ASSUME NEW p \in Process, Cleanup(p) PROVE ChunkInv'
  <2>1. \A f \in Path : file'[f] => file[f]
    BY <1>21 DEF Cleanup, TypeInv, TypeOK, DocTypes
  <2> QED
    BY <1>21, <2>1, DeletionFrame, StoreLeave DEF Cleanup
<1>22. ASSUME NEW p \in Process, Return(p) PROVE ChunkInv'
  BY <1>22, <1>b DEF Return
<1>23. ASSUME NEW w \in Worker, Hook(w) PROVE ChunkInv'
  <2>1. CASE Rest({w})
    BY <1>23, <1>b, <2>1 DEF Hook
  <2>2. CASE Goto(w, "markfailed") /\ UNCHANGED <<target, batch>>
    BY <1>23, <2>2, DeletionFrame, StoreLeave DEF Hook, Process
  <2> QED
    BY <1>23, <2>1, <2>2 DEF Hook
<1>24. ASSUME NEW w \in Worker, MarkFailed(w) PROVE ChunkInv'
  <2>1. \A p \in Process : pc'[p] \in Writing =>
           /\ pc[p] = pc'[p] /\ target[p] = target'[p] /\ batch[p] = batch'[p]
    BY <1>24 DEF MarkFailed, Rest
  <2> QED
    BY <1>24, <2>1, StageKept, DeletionFrame, StoreFrame DEF MarkFailed, Stages
<1>25. ASSUME NEW w \in Worker, NEW j \in Job, Take(w, j) PROVE ChunkInv'
  <2>1. \A p \in Process : pc'[p] \in Writing =>
           /\ pc[p] = pc'[p] /\ target[p] = target'[p] /\ batch[p] = batch'[p]
    BY <1>25 DEF Take, Goto, TypeInv, TypeOK, RunTypes
  <2> QED
    BY <1>25, <2>1, DeletionFrame, StoreFrame DEF Take
<1>26. ASSUME NEW w \in Worker, NEW j \in Job, TakeDeadLetter(w, j) PROVE ChunkInv'
  BY <1>26, <1>a DEF TakeDeadLetter
<1>27. ASSUME NEW w \in Worker, HorseKilled(w) PROVE ChunkInv'
  BY <1>27, <1>b DEF HorseKilled
<1>28. ASSUME NEW w \in Worker, WorkerDies(w) PROVE ChunkInv'
  BY <1>28, <1>b DEF WorkerDies
<1>29. ASSUME NEW w \in Worker, RegistrationExpires(w) PROVE ChunkInv'
  BY <1>29, <1>a DEF RegistrationExpires
<1>30. ASSUME NEW w \in Worker, WorkerStarts(w) PROVE ChunkInv'
  BY <1>30, <1>a DEF WorkerStarts
<1>31. ASSUME NEW j \in Job, Reclaim(j) PROVE ChunkInv'
  <2>1. \A d \in Doc : stage'[d] = stage[d] \/ stage'[d] \in Stages
    BY <1>31, StageKept DEF Reclaim, Stages
  <2> QED
    BY <1>31, <2>1, DeletionFrame, StoreFrame DEF Reclaim
<1>32. ASSUME NEW i \in Job, NEW j \in Job, Requeue(i, j) PROVE ChunkInv'
  BY <1>32, <1>a DEF Requeue
<1>33. ASSUME ApiCrashes PROVE ChunkInv'
  <2>1. /\ Rest(Thread) /\ UNCHANGED <<stage, file, copies, begun, raced>>
        /\ deletion' = [d \in Doc |-> IF deletion[d] \in {"vectors", "row"}
                                        THEN "aborted" ELSE deletion[d]]
    BY <1>33 DEF ApiCrashes
  <2>2. \A p \in Process : pc'[p] \in Writing =>
           /\ pc[p] = pc'[p] /\ target[p] = target'[p] /\ batch[p] = batch'[p]
    BY <2>1 DEF Rest
  <2>3. StoreInv'
    BY <2>1, <2>2, StoreFrame
  <2>4. DeletionInv'
    BY <2>1 DEF DeletionInv, AbsentUntouched, GoneDeleted, FileStaysRemoved,
       Alone, HasFile
  <2> QED
    BY <2>3, <2>4
<1>34. CASE UNCHANGED vars
  BY <1>34, <1>a DEF vars
<1>35. QED
  BY <1>1, <1>2, <1>3, <1>4, <1>5, <1>6, <1>7, <1>8, <1>9, <1>10, <1>11,
     <1>12, <1>13, <1>14, <1>15, <1>16, <1>17, <1>18, <1>19, <1>20, <1>21,
     <1>22, <1>23, <1>24, <1>25, <1>26, <1>27, <1>28, <1>29, <1>30, <1>31,
     <1>32, <1>33, <1>34
     DEF Next, ApiStep, RunStep, WorkerStep, Process

\* A deleted document leaves vectors behind only when its delete request raced
\* a run that was writing them, and a batch is stored twice only when two runs
\* of the document have begun.
THEOREM ChunksStayAccounted == Spec => []ChunksAreAccounted
<1>1. TypeInv /\ ChunkInv => ChunksAreAccounted
  BY DEF ChunksAreAccounted, OrphansOnlyFromRace, DuplicatesNeedTwoRuns, ChunkInv,
     DeletionInv, GoneDeleted, StoreInv, VectorsStayRemoved, OneBegun, TypeInv,
     TypeOK, DocTypes, HistoryTypes
<1>2. SafeInv => TypeInv
  BY DEF SafeInv
<1> QED
  BY <1>1, <1>2, ChunkInvInit, ChunkInvNext, SafeInvariant, PTL DEF Spec

=============================================================================
