----------------------------- MODULE AgentProofs -----------------------------
(***************************************************************************)
(* Proofs about autonomous agents. The lock of the poll keeps its meaning  *)
(* for every interval, every life of the lock shorter than it and every    *)
(* number of workers; a failure breaks it at most until a poll is          *)
(* scheduled again. Edits, pauses and runs of an agent keep its next run,  *)
(* its executions and its config, for every period and any processes.      *)
(***************************************************************************)
EXTENDS AgentPoll, AgentRuns, TLAPS

-----------------------------------------------------------------------------
(* The poll *)

\* A worker's place moves to another one.
LEMMA GoType ==
    ASSUME PollTypeOK, NEW w \in Worker, NEW from, NEW to, Go(w, from, to),
           to \in {"off", "start", "first", "idle", "poll", "schedule", "enqueue"}
    PROVE  place' \in [Worker -> {"off", "start", "first", "idle", "poll", "schedule", "enqueue"}]
  BY DEF PollTypeOK, Go

\* A fault counts.
LEMMA DisturbType ==
    ASSUME PollTypeOK, NEW cause, Disturb(cause)
    PROVE  disturbances' \in 0..MaxDisturbances
  BY FaultsAssumption DEF PollTypeOK, Disturb

\* One more or one less poll at one moment.
LEMMA PollsType ==
    ASSUME PollTypeOK, NEW t \in PollDues
    PROVE  /\ [polls EXCEPT ![t] = @ + 1] \in [PollDues -> Nat]
           /\ polls[t] > 0 => [polls EXCEPT ![t] = @ - 1] \in [PollDues -> Nat]
  BY DEF PollTypeOK

\* The moments polls are due at.
LEMMA DuesFacts ==
    /\ 0 \in PollDues /\ 1 \in PollDues /\ Interval \in PollDues
    /\ \A t \in PollDues : t # Interval => t + 1 \in PollDues
    /\ \A t \in PollDues : t # 0 => t - 1 \in PollDues
  BY TimesAssumption DEF PollDues

\* The time that passes keeps the types.
LEMMA TickType == PollTypeOK /\ PollTick => PollTypeOK'
  <1> SUFFICES ASSUME PollTypeOK, PollTick PROVE PollTypeOK'
    OBVIOUS
  <1>1. polls' \in [PollDues -> Nat]
    BY DuesFacts DEF PollTypeOK, PollTick
  <1>2. lock' \in 0..LockTtl
    BY TimesAssumption DEF PollTypeOK, PollTick
  <1> QED
    BY <1>1, <1>2 DEF PollTypeOK, PollTick

\* Every step keeps the types.
LEMMA PollNextType == PollTypeOK /\ [PollNext]_pollVars => PollTypeOK'
  <1> SUFFICES ASSUME PollTypeOK, [PollNext]_pollVars PROVE PollTypeOK'
    OBVIOUS
  <1>1. CASE UNCHANGED pollVars
    BY <1>1 DEF pollVars, PollTypeOK
  <1>2. CASE PollTick
    BY <1>2, TickType
  <1>3. ASSUME NEW w \in Worker,
               Starts(w) \/ PollReturns(w) \/ PollRaises(w) \/ Stops(w)
        PROVE  PollTypeOK'
    BY <1>3, GoType, DisturbType DEF Starts, PollReturns, PollRaises, Stops, PollTypeOK
  <1>4. ASSUME NEW w \in Worker, TakePoll(w) PROVE PollTypeOK'
    BY <1>4, GoType, PollsType, DuesFacts DEF TakePoll, PollTypeOK
  <1>5. ASSUME NEW w \in Worker, SetLock(w) PROVE PollTypeOK'
    BY <1>5, TimesAssumption DEF SetLock, Locked, PollTypeOK
  <1>6. ASSUME NEW w \in Worker, Enqueue(w) PROVE PollTypeOK'
    BY <1>6, GoType, PollsType, DuesFacts DEF Enqueue, PollTypeOK
  <1>7. ASSUME NEW w \in Worker, RedisFails(w) PROVE PollTypeOK'
    <2>1. lock' \in 0..LockTtl
      BY <1>7, TimesAssumption DEF RedisFails, PollTypeOK
    <2> QED
      BY <1>7, <2>1, GoType, DisturbType DEF RedisFails, PollTypeOK
  <1>8. ASSUME NEW w \in Worker, Killed(w) PROVE PollTypeOK'
    BY <1>8, GoType, DisturbType DEF Killed, PollTypeOK
  <1> QED
    BY <1>1, <1>2, <1>3, <1>4, <1>5, <1>6, <1>7, <1>8 DEF PollNext, Step, Disturbed

\* The types hold at the start.
LEMMA PollInitType == PollInit => PollTypeOK
  <1> SUFFICES ASSUME PollInit PROVE PollTypeOK
    OBVIOUS
  <1>1. polls \in [PollDues -> Nat] /\ lock \in 0..LockTtl /\ disturbances \in 0..MaxDisturbances
    BY TimesAssumption, FaultsAssumption DEF PollInit
  <1>2. broken \in BOOLEAN
    BY Zenon DEF PollInit
  <1> QED
    BY <1>1, <1>2 DEF PollInit, PollTypeOK

\* Every variable keeps its type, whatever the disturbances.
THEOREM PollTypeCorrect == PollSpec => []PollTypeOK
  BY PollInitType, PollNextType, PTL DEF PollSpec

\* A step that changes neither the lock nor the polls, and takes no worker
\* away from scheduling, keeps the meaning of the lock.
LEMMA HeldStays ==
    ASSUME HeldMeansScheduled, lock' = lock, broken' = broken,
           \A t \in PollDues : polls[t] > 0 /\ t > 0 => polls'[t] > 0,
           PollTypeOK,
           \A v \in Worker : place[v] \in {"first", "enqueue"} => place'[v] \in {"first", "enqueue"}
    PROVE  HeldMeansScheduled'
  <1>1. \A t \in PollDues : t >= lock + (Interval - LockTtl) => t > 0
    BY TimesAssumption DEF PollDues, PollTypeOK
  <1> QED
    BY <1>1 DEF HeldMeansScheduled

\* A step of Go keeps every worker but one where it is.
LEMMA GoElsewhere ==
    ASSUME PollTypeOK, NEW w \in Worker, NEW from, NEW to, Go(w, from, to),
           from \notin {"first", "enqueue"}
    PROVE  \A v \in Worker : place[v] \in {"first", "enqueue"} => place'[v] \in {"first", "enqueue"}
  BY DEF PollTypeOK, Go

\* The lock means that a poll is scheduled, whenever workers start, stop and
\* poll, and however long polls wait: no chain of polls blocks itself.
THEOREM LockMeansScheduled == PollSpec => []HeldMeansScheduled
  <1>1. PollInit => HeldMeansScheduled
    BY DEF PollInit, HeldMeansScheduled
  <1>2. PollTypeOK /\ HeldMeansScheduled /\ [PollNext]_pollVars => HeldMeansScheduled'
    <2> SUFFICES ASSUME PollTypeOK, HeldMeansScheduled, [PollNext]_pollVars
                 PROVE  HeldMeansScheduled'
      OBVIOUS
    <2>1. CASE UNCHANGED pollVars
      BY <2>1 DEF pollVars, HeldMeansScheduled
    <2>2. CASE PollTick
      <3>1. CASE lock <= 1
        BY <2>2, <3>1, TimesAssumption DEF PollTick, PollTypeOK, HeldMeansScheduled
      <3>2. CASE lock > 1 /\ \E w \in Worker : place[w] \in {"first", "enqueue"}
        BY <2>2, <3>2 DEF PollTick, HeldMeansScheduled
      <3>3. ASSUME lock > 1, NEW t \in PollDues, polls[t] > 0,
                   t >= lock + (Interval - LockTtl)
            PROVE  HeldMeansScheduled'
        <4> DEFINE u == t - 1
        <4>1. /\ u \in PollDues /\ u # 0 /\ u # Interval /\ u + 1 = t
              /\ u >= (lock - 1) + (Interval - LockTtl)
          BY <3>3, TimesAssumption DEF PollDues, PollTypeOK
        <4>2. polls'[u] = polls[t] /\ lock' = lock - 1
          BY <2>2, <3>3, <4>1 DEF PollTick
        <4> QED
          BY <3>3, <4>1, <4>2 DEF HeldMeansScheduled
      <3> QED
        BY <2>2, <3>1, <3>2, <3>3, TimesAssumption DEF PollTick, HeldMeansScheduled, PollTypeOK
    <2>3. ASSUME NEW w \in Worker, Starts(w) \/ PollReturns(w) \/ Stops(w)
          PROVE  HeldMeansScheduled'
      BY <2>3, HeldStays, GoElsewhere DEF Starts, PollReturns, Stops
    <2>4. ASSUME NEW w \in Worker, TakePoll(w) PROVE HeldMeansScheduled'
      <3>1. \A t \in PollDues : polls[t] > 0 /\ t > 0 => polls'[t] > 0
        BY <2>4 DEF TakePoll, PollTypeOK
      <3> QED
        BY <2>4, <3>1, HeldStays, GoElsewhere DEF TakePoll
    <2>5. ASSUME NEW w \in Worker, SetLock(w) PROVE HeldMeansScheduled'
      <3>1. CASE lock = 0
        <4>1. place'[w] \in {"first", "enqueue"}
          BY <2>5, <3>1 DEF SetLock, Locked, PollTypeOK
        <4> QED
          BY <4>1 DEF HeldMeansScheduled
      <3>2. CASE lock # 0
        <4>1. /\ lock' = lock /\ polls' = polls /\ broken' = broken
              /\ \A v \in Worker : place[v] \in {"first", "enqueue"} => place'[v] \in {"first", "enqueue"}
          BY <2>5, <3>2 DEF SetLock, PollTypeOK
        <4> QED
          BY <4>1, HeldStays
      <3> QED
        BY <3>1, <3>2
    <2>6. ASSUME NEW w \in Worker, Enqueue(w) PROVE HeldMeansScheduled'
      <3>1. Interval \in PollDues /\ polls'[Interval] > 0 /\ lock' = lock
        BY <2>6, DuesFacts DEF Enqueue, PollTypeOK
      <3>2. Interval >= lock + (Interval - LockTtl)
        BY TimesAssumption DEF PollTypeOK
      <3> QED
        BY <3>1, <3>2 DEF HeldMeansScheduled
    <2>7. ASSUME NEW w \in Worker, PollRaises(w) \/ RedisFails(w) \/ Killed(w)
          PROVE  HeldMeansScheduled'
      BY <2>7 DEF PollRaises, RedisFails, Killed, HeldMeansScheduled
    <2> QED
      BY <2>1, <2>2, <2>3, <2>4, <2>5, <2>6, <2>7 DEF PollNext, Step, Disturbed
  <1> QED
    BY <1>1, <1>2, PollTypeCorrect, PTL DEF PollSpec

\* Both together: what the lock is and what it means.
THEOREM LockStaysSound == PollSpec => []LockIsSound
  <1>1. PollTypeOK /\ HeldMeansScheduled => LockIsSound
    BY DEF LockIsSound
  <1> QED
    BY <1>1, PollTypeCorrect, LockMeansScheduled, PTL

-----------------------------------------------------------------------------
(* The runs of an agent *)

Places == {"idle", "begin", "handler", "notify", "success", "settle", "register"}
Rows == {"none", "running", "complete", "failed"}
Views == [config : Versions, kind : {"manual", "timed"}]

\* Only the handler has a running execution.
RunningInHandler == \A p \in Process : row[p] = "running" => pc[p] = "handler"

\* A run that may write config back holds the owner's, but for a race.
HoldsConfig ==
    ~ overrun =>
        /\ config = patched
        /\ \A p \in Process : pc[p] \in {"handler", "success"} => seen[p].config = patched

Inv ==
    /\ TypeOK
    /\ patched <= requests
    /\ TimedHasNext
    /\ RunningInHandler
    /\ StuckOnlyAfterFault
    /\ HoldsConfig

\* The constants as numbers.
LEMMA Bounds ==
    /\ 0 \in Dues /\ 1 \in Dues /\ Period \in Dues /\ NextRun \subseteq Dues \ {None}
    /\ 0 \in Versions /\ MaxRequests \in Nat /\ MaxFaults \in Nat
    /\ \A t \in Dues : t > 0 => t - 1 \in Dues
    /\ \A t \in Dues : t # Period => t + 1 \in Dues
    /\ None \notin Dues
  BY PeriodAssumption, BoundsAssumption DEF Dues, NextRun, None, Versions

\* One more job at one moment.
LEMMA ScheduledType ==
    ASSUME TypeOK, NEW t \in Dues, Scheduled(t)
    PROVE  jobs' \in [Dues -> 0..MaxJobs]
  BY BoundsAssumption DEF TypeOK, Scheduled

\* Registering schedules at most one more job.
LEMMA RegisterType ==
    ASSUME TypeOK, Register
    PROVE  jobs' \in [Dues -> 0..MaxJobs]
  BY ScheduledType DEF Register, TypeOK

\* A fault counts.
LEMMA FaultType ==
    ASSUME TypeOK, Fault
    PROVE  faults' \in 0..MaxFaults /\ faults' > 0
  BY BoundsAssumption DEF TypeOK, Fault

\* The invariant holds at the start.
LEMMA InvInit == Init => Inv
  <1> SUFFICES ASSUME Init PROVE Inv
    OBVIOUS
  <1> USE DEF Init
  <1>1. /\ next \in Dues \cup {None} /\ config \in Versions /\ patched \in Versions
        /\ requests \in 0..MaxRequests /\ faults \in 0..MaxFaults /\ patched <= requests
    BY Bounds
  <1>2. jobs \in [Dues -> 0..MaxJobs]
    BY BoundsAssumption
  <1>3. seen \in [Process -> [config : Versions, kind : {"manual", "timed"}]]
    BY Bounds
  <1>4. TypeOK
    BY <1>1, <1>2, <1>3 DEF TypeOK
  <1>5. RunningInHandler /\ HoldsConfig
    BY DEF RunningInHandler, HoldsConfig
  <1> QED
    BY <1>1, <1>4, <1>5 DEF Inv, TimedHasNext, StuckOnlyAfterFault

\* Time keeps it.
LEMMA InvTick == Inv /\ Tick => Inv'
  <1> SUFFICES ASSUME Inv, Tick PROVE Inv'
    OBVIOUS
  <1> USE DEF Inv
  <1>1. next' \in Dues \cup {None} /\ (next # None => next' # None)
    BY Bounds DEF Tick, TypeOK, None, Dues
  <1>2. jobs' \in [Dues -> 0..MaxJobs]
    <2> SUFFICES ASSUME NEW t \in Dues
                 PROVE  (IF t = 0 THEN IF jobs[0] + jobs[1] > MaxJobs THEN MaxJobs ELSE jobs[0] + jobs[1]
                         ELSE IF t = Period THEN 0 ELSE jobs[t + 1]) \in 0..MaxJobs
      BY DEF Tick
    <2>1. jobs[0] \in 0..MaxJobs /\ jobs[1] \in 0..MaxJobs
      BY Bounds DEF TypeOK
    <2>2. t # Period => jobs[t + 1] \in 0..MaxJobs
      BY Bounds DEF TypeOK
    <2> QED
      BY <2>1, <2>2, BoundsAssumption
  <1>3. /\ UNCHANGED <<status, kind, config, patched, overrun, listed, request, pc, row,
                       seen, stuck, requests, faults>>
    BY DEF Tick, runs
  <1> QED
    BY <1>1, <1>2, <1>3
    DEF TypeOK, TimedHasNext, HasRow, RunningInHandler, StuckOnlyAfterFault, HoldsConfig

\* Requests of the owner keep it.
LEMMA InvRequests == Inv /\ Requests => Inv'
  <1> SUFFICES ASSUME Inv, Requests PROVE Inv'
    OBVIOUS
  <1> USE DEF Inv
  <1>1. /\ requests' \in 0..MaxRequests /\ requests' = requests + 1
        /\ requests \in Nat
        /\ UNCHANGED <<listed, pc, row, seen, faults>>
    BY BoundsAssumption
    DEF Requests, Create, Reschedule, Configure, Pause, Resume, Delete, RunNow,
        Asks, runs, TypeOK
  <1>2. CASE Configure
    <2>1. patched' = patched + 1 /\ patched' \in Versions /\ patched' <= requests'
      BY <1>1, <1>2, BoundsAssumption DEF Configure, Asks, Versions, TypeOK
    <2>2. UNCHANGED <<status, kind, next, jobs, stuck>> /\ request' = "register"
          /\ config' = patched'
          /\ overrun' = (overrun \/ \E p \in Process : pc[p] \in {"handler", "success"})
      BY <1>2 DEF Configure, Asks, runs
    <2>3. HoldsConfig'
      BY <1>1, <2>1, <2>2 DEF HoldsConfig
    <2>4. overrun' \in BOOLEAN
      BY <2>2 DEF TypeOK
    <2> QED
      BY <1>1, <2>1, <2>2, <2>3, <2>4
      DEF TypeOK, TimedHasNext, HasRow, RunningInHandler, StuckOnlyAfterFault
  <1>3. CASE Create \/ Reschedule
    <2>1. /\ status' \in {"active", "paused"} /\ kind' \in {"manual", "timed"}
          /\ next' \in Dues \cup {None} /\ (kind' = "timed" => next' # None)
          /\ request' = "register"
          /\ UNCHANGED <<config, patched, overrun, jobs, stuck>>
      BY <1>3, Bounds DEF Create, Reschedule, Asks, runs, HasRow
    <2>2. HoldsConfig'
      BY <1>1, <2>1 DEF HoldsConfig
    <2>3. patched' <= requests'
      BY <1>1, <2>1 DEF TypeOK, Versions
    <2> QED
      BY <1>1, <2>1, <2>2, <2>3
      DEF TypeOK, TimedHasNext, HasRow, RunningInHandler, StuckOnlyAfterFault
  <1>4. CASE Pause \/ Resume \/ Delete \/ RunNow
    <2>1. /\ status' \in {"active", "paused", "deleted"}
          /\ (status' \in {"active", "paused"} => HasRow)
          /\ request' \in {"none", "register", "resume"}
          /\ UNCHANGED <<kind, next, config, patched, overrun>>
      BY <1>4 DEF Pause, Resume, Delete, RunNow, Asks, HasRow, agent, TypeOK
    <2>5. (stuck' = stuck) \/ (stuck' = FALSE)
      BY <1>4 DEF Pause, Resume, Delete, RunNow, Asks, runs
    <2>6. stuck' \in BOOLEAN /\ (stuck' => stuck)
      <3>1. stuck \in BOOLEAN
        BY DEF TypeOK
      <3>2. CASE stuck' = stuck
        BY <3>1, <3>2, Zenon
      <3>3. CASE stuck' = FALSE
        BY <3>3, Zenon
      <3> QED
        BY <2>5, <3>2, <3>3
    <2>2. jobs' \in [Dues -> 0..MaxJobs]
      BY <1>4, ScheduledType, Bounds DEF Pause, Resume, Delete, RunNow, TypeOK
    <2>3. HoldsConfig'
      BY <1>1, <2>1 DEF HoldsConfig
    <2>4. patched' <= requests'
      BY <1>1, <2>1 DEF TypeOK, Versions
    <2> QED
      BY <1>1, <2>1, <2>2, <2>3, <2>4, <2>6
      DEF TypeOK, TimedHasNext, HasRow, RunningInHandler, StuckOnlyAfterFault
  <1> QED
    BY <1>2, <1>3, <1>4 DEF Requests

\* The end of a request, and the poll, keep it.
LEMMA InvRegistrations == Inv /\ (RequestEnds \/ PollStep) => Inv'
  <1> SUFFICES ASSUME Inv, RequestEnds \/ PollStep PROVE Inv'
    OBVIOUS
  <1> USE DEF Inv
  <1>1. jobs' \in [Dues -> 0..MaxJobs]
    BY RegisterType, ScheduledType, Bounds
    DEF RequestEnds, PollStep, PollLists, PollEnqueues, TypeOK
  <1>2. faults' \in 0..MaxFaults /\ (faults > 0 => faults' > 0)
    BY FaultType DEF RequestEnds, PollStep, PollLists, PollEnqueues, TypeOK
  <1>3. /\ next' \in Dues \cup {None} /\ (next # None => next' # None)
        /\ request' \in {"none", "register", "resume"} /\ listed' \in BOOLEAN
        /\ UNCHANGED <<status, kind, config, patched, overrun, pc, row, seen, stuck, requests>>
    BY Bounds DEF RequestEnds, PollStep, PollLists, PollEnqueues, agent, runs, TypeOK
  <1> QED
    BY <1>1, <1>2, <1>3
    DEF TypeOK, TimedHasNext, HasRow, RunningInHandler, StuckOnlyAfterFault, HoldsConfig

\* A process at another place, with another execution or view of the agent.
LEMMA Moved ==
    ASSUME TypeOK, NEW p \in Process,
           NEW to \in Places, pc' = [pc EXCEPT ![p] = to],
           NEW r \in Rows, row' = [row EXCEPT ![p] = r] \/ (row' = row /\ r = row[p]),
           NEW v \in Views, seen' = [seen EXCEPT ![p] = v] \/ (seen' = seen /\ v = seen[p]),
           RunningInHandler, r = "running" => to = "handler"
    PROVE  /\ pc' \in [Process -> Places] /\ row' \in [Process -> Rows]
           /\ seen' \in [Process -> Views]
           /\ RunningInHandler'
           /\ pc'[p] = to /\ seen'[p] = v
           /\ \A q \in Process \ {p} : pc'[q] = pc[q] /\ seen'[q] = seen[q]
  <1> USE DEF TypeOK, Places, Rows, Views
  <1>1. pc' \in [Process -> Places] /\ row' \in [Process -> Rows] /\ seen' \in [Process -> Views]
    OBVIOUS
  <1>2. /\ pc'[p] = to /\ seen'[p] = v /\ row'[p] = r
        /\ \A q \in Process \ {p} : pc'[q] = pc[q] /\ seen'[q] = seen[q] /\ row'[q] = row[q]
    OBVIOUS
  <1> QED
    BY <1>1, <1>2 DEF RunningInHandler

\* The steps of a run keep it.
LEMMA InvRun ==
    ASSUME Inv, NEW p \in Process, RunStep(p) \/ HandlerReads(p) \/ RunBreaks(p)
    PROVE  Inv'
  <1> USE DEF Inv
  <1> DEFINE now == [config |-> config, kind |-> kind]
  <1>0. /\ now \in Views /\ now.config = config /\ seen[p] \in Views /\ row[p] \in Rows
        /\ pc[p] \in Places
    BY DEF TypeOK, Views, Rows, Places
  <1> HIDE DEF now
  <1>1. ASSUME Take(p) PROVE Inv'
    <2>1. PICK to \in {"begin", "idle"} : pc[p] = "idle" /\ pc' = [pc EXCEPT ![p] = to]
      BY <1>1 DEF Take, Run
    <2>2. row[p] # "running"
      BY <2>1 DEF RunningInHandler
    <2>3. jobs' \in [Dues -> 0..MaxJobs]
      BY <1>1, Bounds, BoundsAssumption DEF Take, TypeOK
    <2>4. UNCHANGED <<agent, listed, request, row, seen, stuck, requests, faults>>
      BY <1>1 DEF Take
    <2>5. to \in Places
      BY DEF Places
    <2>6. /\ pc' \in [Process -> Places] /\ RunningInHandler' /\ pc'[p] = to
          /\ \A q \in Process \ {p} : pc'[q] = pc[q]
      BY <1>0, <2>1, <2>2, <2>4, <2>5, Moved
    <2>7. HoldsConfig'
      BY <2>1, <2>4, <2>6 DEF HoldsConfig, agent
    <2> QED
      BY <2>3, <2>4, <2>6, <2>7
      DEF TypeOK, TimedHasNext, HasRow, StuckOnlyAfterFault, agent, Places
  <1>2. ASSUME Begin(p) \/ HandlerReads(p) \/ Notify(p) PROVE Inv'
    <2>1. /\ seen' = [seen EXCEPT ![p] = now]
          /\ UNCHANGED <<agent, jobs, listed, request, stuck, requests, faults>>
      BY <1>2 DEF Begin, HandlerReads, Notify, Sees, now
    <2>2. PICK to \in Places, r \in Rows :
             /\ pc' = [pc EXCEPT ![p] = to]
             /\ row' = [row EXCEPT ![p] = r] \/ (row' = row /\ r = row[p])
             /\ r = "running" => to = "handler"
      <3>1. CASE Begin(p)
        <4>1. row[p] # "running"
          BY <3>1 DEF Begin, Run, RunningInHandler
        <4> QED
          BY <1>0, <3>1, <4>1 DEF Begin, Run, Places, Rows
      <3>2. CASE HandlerReads(p)
        BY <1>0, <3>2 DEF HandlerReads, Run, Places
      <3>3. CASE Notify(p)
        <4>1. row[p] # "running"
          BY <3>3 DEF Notify, Run, RunningInHandler
        <4> QED
          BY <1>0, <3>3, <4>1 DEF Notify, Run, Places
      <3> QED
        BY <1>2, <3>1, <3>2, <3>3
    <2>3. /\ pc' \in [Process -> Places] /\ row' \in [Process -> Rows]
          /\ seen' \in [Process -> Views]
          /\ RunningInHandler'
          /\ pc'[p] = to /\ seen'[p] = now
          /\ \A q \in Process \ {p} : pc'[q] = pc[q] /\ seen'[q] = seen[q]
      BY <1>0, <2>1, <2>2, Moved
    <2>4. HoldsConfig'
      BY <1>0, <2>1, <2>3 DEF HoldsConfig, agent
    <2> QED
      BY <2>1, <2>3, <2>4
      DEF TypeOK, TimedHasNext, HasRow, StuckOnlyAfterFault, agent, Places, Rows, Views
  <1>3. ASSUME HandlerReturns(p) PROVE Inv'
    <2>1. /\ pc' = [pc EXCEPT ![p] = "notify"] /\ row' = [row EXCEPT ![p] = "complete"]
          /\ UNCHANGED <<agent, jobs, listed, request, seen, stuck, requests, faults>>
      BY <1>3 DEF HandlerReturns, Run
    <2>2. "notify" \in Places /\ "complete" \in Rows
      BY DEF Places, Rows
    <2>3. /\ pc' \in [Process -> Places] /\ row' \in [Process -> Rows]
          /\ RunningInHandler' /\ pc'[p] = "notify"
          /\ \A q \in Process \ {p} : pc'[q] = pc[q]
      BY <1>0, <2>1, <2>2, Moved
    <2>4. HoldsConfig'
      BY <2>1, <2>3 DEF HoldsConfig, agent
    <2> QED
      BY <2>1, <2>3, <2>4
      DEF TypeOK, TimedHasNext, HasRow, StuckOnlyAfterFault, agent, Places, Rows
  <1>4. ASSUME HandlerRaises(p) \/ FinishSuccess(p) \/ FinishFailure(p) PROVE Inv'
    <2>1. PICK to \in {"settle", "register"}, r \in Rows \ {"running"} :
             /\ pc' = [pc EXCEPT ![p] = to]
             /\ row' = [row EXCEPT ![p] = r] \/ (row' = row /\ r = row[p])
      <3>1. HandlerRaises(p) \/ row[p] # "running"
        BY <1>4 DEF FinishSuccess, FinishFailure, Run, RunningInHandler
      <3> QED
        BY <1>0, <1>4, <3>1 DEF HandlerRaises, FinishSuccess, FinishFailure, Run, Rows
    <2>2. UNCHANGED <<status, kind, patched, overrun, jobs, listed, request, seen,
                      stuck, requests, faults>>
      BY <1>4 DEF HandlerRaises, FinishSuccess, FinishFailure
    <2>3. next' \in Dues \cup {None} /\ (next # None => next' # None)
      BY <1>4, Bounds DEF HandlerRaises, FinishSuccess, FinishFailure, Moves, TypeOK
    <2>4. config' = config
          \/ (config' = seen[p].config /\ pc[p] \in {"handler", "success"})
      BY <1>4 DEF HandlerRaises, FinishSuccess, FinishFailure, WritesBack, Run
    <2>5. to \in Places /\ seen[p].config \in Versions
      BY <1>0 DEF Places, Views
    <2>6. /\ pc' \in [Process -> Places] /\ row' \in [Process -> Rows]
          /\ RunningInHandler' /\ pc'[p] = to
          /\ \A q \in Process \ {p} : pc'[q] = pc[q]
      BY <1>0, <2>1, <2>2, <2>5, Moved
    <2>7. HoldsConfig'
      BY <2>2, <2>4, <2>6, <2>1 DEF HoldsConfig
    <2> QED
      BY <2>2, <2>3, <2>4, <2>5, <2>6, <2>7
      DEF TypeOK, TimedHasNext, HasRow, StuckOnlyAfterFault, Places, Rows
  <1>5. ASSUME RunLosesRow(p) \/ RunRegisters(p) \/ RunBreaks(p) PROVE Inv'
    <2>1. /\ pc' = [pc EXCEPT ![p] = "idle"] /\ row' = [row EXCEPT ![p] = "none"]
          /\ stuck' = (stuck \/ (row[p] = "running" /\ HasRow))
          /\ UNCHANGED <<agent, listed, request, seen, requests>>
      BY <1>5 DEF RunLosesRow, RunRegisters, RunBreaks, Leaves
    <2>2. jobs' \in [Dues -> 0..MaxJobs]
      BY <1>5, RegisterType DEF RunLosesRow, RunRegisters, RunBreaks, TypeOK
    <2>3. /\ faults' \in 0..MaxFaults /\ (faults > 0 => faults' > 0)
          /\ (stuck' => faults' > 0)
      <3>1. faults' \in 0..MaxFaults /\ (faults > 0 => faults' > 0)
        BY <1>5, FaultType DEF RunLosesRow, RunRegisters, RunBreaks, TypeOK
      <3>2. CASE RunBreaks(p)
        BY <3>1, <3>2, FaultType DEF RunBreaks
      <3>3. CASE RunLosesRow(p) \/ RunRegisters(p)
        <4>1. ~ (row[p] = "running" /\ HasRow)
          BY <3>3 DEF RunLosesRow, RunRegisters, RunningInHandler
        <4> QED
          BY <2>1, <3>1, <4>1 DEF StuckOnlyAfterFault
      <3> QED
        BY <1>5, <3>1, <3>2, <3>3
    <2>4. "idle" \in Places /\ "none" \in Rows
      BY DEF Places, Rows
    <2>5. /\ pc' \in [Process -> Places] /\ row' \in [Process -> Rows]
          /\ RunningInHandler' /\ pc'[p] = "idle"
          /\ \A q \in Process \ {p} : pc'[q] = pc[q]
      BY <1>0, <2>1, <2>4, Moved
    <2>6. HoldsConfig'
      BY <2>1, <2>5 DEF HoldsConfig, agent
    <2>7. stuck' \in BOOLEAN
      BY <2>1
    <2> QED
      BY <2>1, <2>2, <2>3, <2>5, <2>6, <2>7
      DEF TypeOK, TimedHasNext, HasRow, StuckOnlyAfterFault, agent, Places, Rows
  <1> QED
    BY <1>1, <1>2, <1>3, <1>4, <1>5 DEF RunStep

\* Every step keeps the invariant.
LEMMA InvNext == Inv /\ [Next]_vars => Inv'
  <1>1. Inv /\ UNCHANGED vars => Inv'
    BY DEF Inv, vars, agent, runs, TypeOK, TimedHasNext, HasRow, RunningInHandler,
           StuckOnlyAfterFault, HoldsConfig
  <1> QED
    BY <1>1, InvTick, InvRequests, InvRegistrations, InvRun DEF Next

\* Every variable keeps its type.
THEOREM TypeCorrect == Spec => []TypeOK
  <1>1. Inv => TypeOK
    BY DEF Inv
  <1> QED
    BY <1>1, InvInit, InvNext, PTL DEF Spec

\* The poll can always find a timed agent: edits, pauses and the last commits
\* of runs never leave it without a next run.
THEOREM TimedAgentsHaveNext == Spec => []TimedHasNext
  <1>1. Inv => TimedHasNext
    BY DEF Inv
  <1> QED
    BY <1>1, InvInit, InvNext, PTL DEF Spec

\* Only a kill or an unusable session leaves an execution running for ever.
THEOREM ExecutionsAreRecorded == Spec => []StuckOnlyAfterFault
  <1>1. Inv => StuckOnlyAfterFault
    BY DEF Inv
  <1> QED
    BY <1>1, InvInit, InvNext, PTL DEF Spec

\* Only an edit that falls into a run's read and write of config is lost.
THEOREM ConfigIsKept == Spec => []ConfigLostOnlyInRace
  <1>1. Inv => ConfigLostOnlyInRace
    BY DEF Inv, HoldsConfig, ConfigLostOnlyInRace
  <1> QED
    BY <1>1, InvInit, InvNext, PTL DEF Spec

\* What runs record and keep, and the types.
THEOREM RunsStaySound == Spec => []RunsAreSound
  <1>1. TypeOK /\ StuckOnlyAfterFault /\ ConfigLostOnlyInRace => RunsAreSound
    BY DEF RunsAreSound
  <1> QED
    BY <1>1, TypeCorrect, ExecutionsAreRecorded, ConfigIsKept, PTL

=============================================================================
