----------------------------- MODULE AgentRuns -----------------------------
(***************************************************************************)
(* One autonomous agent: the row its owner edits, pauses and deletes, the  *)
(* jobs that will run it, and the processes that run it.  Every run        *)
(* schedules the next one, the poll of AgentPoll adds a run whenever it    *)
(* finds the agent due, and every edit schedules a run as well.  Each      *)
(* commit is an action.                                                    *)
(***************************************************************************)
EXTENDS Integers, FiniteSets

CONSTANTS
    Process,        \* workers that serve the queue "agents"
    Period,         \* the longest time between two runs, in ticks
    MaxRequests,    \* bound: requests of the owner
    MaxFaults,      \* bound: kills, and errors of the database or of Redis
    MaxJobs         \* bound: jobs counted for one moment

ASSUME PeriodAssumption == Period \in Nat \ {0}
ASSUME BoundsAssumption == MaxRequests \in Nat /\ MaxFaults \in Nat /\ MaxJobs \in Nat \ {0}

VARIABLES
    status,     \* AutonomousAgent.status; "absent" and "deleted": no row
    kind,       \* schedule_kind: "manual" or "timed" (hourly, daily, weekly)
    next,       \* ticks to next_run_at, 0 when due, None when null
    config,     \* version of AutonomousAgent.config
    patched,    \* history: version of the owner's last edit of config
    overrun,    \* history: an edit of config came between a run's read and write
    jobs,       \* number of run_agent jobs due in so many ticks, 0: in the queue
    listed,     \* the agent is in the list poll_due_agents goes through
    request,    \* where the owner's request stands
    pc, row,    \* where each process stands, and the AgentExecution it writes
    seen,       \* config and schedule_kind as the session of a run holds them
    stuck,      \* an execution is "running" and no process runs it
    requests, faults

agent == <<status, kind, next, config, patched, overrun>>
runs == <<pc, row, seen, stuck>>
vars == <<agent, jobs, listed, request, runs, requests, faults>>

None == -1
Dues == 0..Period
Versions == 0..MaxRequests

TypeOK ==
    /\ status \in {"absent", "active", "paused", "deleted"}
    /\ kind \in {"manual", "timed"}
    /\ next \in Dues \cup {None}
    /\ config \in Versions /\ patched \in Versions /\ overrun \in BOOLEAN
    /\ jobs \in [Dues -> 0..MaxJobs]
    /\ listed \in BOOLEAN
    /\ request \in {"none", "register", "resume"}
    /\ pc \in [Process -> {"idle", "begin", "handler", "notify", "success",
                           "settle", "register"}]
    /\ row \in [Process -> {"none", "running", "complete", "failed"}]
    /\ seen \in [Process -> [config : Versions, kind : {"manual", "timed"}]]
    /\ stuck \in BOOLEAN
    /\ requests \in 0..MaxRequests /\ faults \in 0..MaxFaults

Init ==
    /\ status = "absent" /\ kind = "manual" /\ next = None
    /\ config = 0 /\ patched = 0 /\ overrun = FALSE
    /\ jobs = [t \in Dues |-> 0]
    /\ listed = FALSE
    /\ request = "none"
    /\ pc = [p \in Process |-> "idle"]
    /\ row = [p \in Process |-> "none"]
    /\ seen = [p \in Process |-> [config |-> 0, kind |-> "manual"]]
    /\ stuck = FALSE
    /\ requests = 0 /\ faults = 0

HasRow == status \in {"active", "paused"}

Fault == faults < MaxFaults /\ faults' = faults + 1

\* compute_next_run: up to a period from now, whatever the schedule.
NextRun == 1..Period

\* queue.enqueue or enqueue_at of a run_agent job.
Scheduled(t) == jobs' = [jobs EXCEPT ![t] = IF @ < MaxJobs THEN @ + 1 ELSE @]

\* register_agent_schedule, which reads the row again after its commit; what
\* goes wrong with Redis is only logged.
Register ==
    IF status = "active" /\ kind = "timed" /\ next # None
      THEN Scheduled(next)
      ELSE UNCHANGED jobs

-----------------------------------------------------------------------------
(* Requests of the owner *)

Asks(to) ==
    /\ request = "none" /\ request' = to
    /\ requests < MaxRequests /\ requests' = requests + 1
    /\ UNCHANGED <<listed, runs, faults>>

Create ==
    /\ status = "absent" /\ status' = "active"
    /\ kind' \in {"manual", "timed"}
    /\ IF kind' = "timed" THEN next' \in NextRun ELSE next' = None
    /\ Asks("register")
    /\ UNCHANGED <<config, patched, overrun, jobs>>

\* Mutant of Reschedule: the moment of the next run is left as it was.
RescheduleKeeps ==
    /\ HasRow
    /\ kind' \in {"manual", "timed"}
    /\ Asks("register")
    /\ UNCHANGED <<status, next, config, patched, overrun, jobs>>

\* PATCH of the schedule.
Reschedule ==
    /\ HasRow
    /\ kind' \in {"manual", "timed"}
    /\ IF kind' = "timed" THEN next' \in NextRun ELSE next' = None
    /\ Asks("register")
    /\ UNCHANGED <<status, config, patched, overrun, jobs>>

\* PATCH of config; runs that hold an older one may write it back.
Configure ==
    /\ HasRow
    /\ config' = patched + 1 /\ patched' = patched + 1
    /\ overrun' = (overrun \/ \E p \in Process : pc[p] \in {"handler", "success"})
    /\ Asks("register")
    /\ UNCHANGED <<status, kind, next, jobs>>

Pause ==
    /\ HasRow /\ status' = "paused"
    /\ Asks("register")
    /\ UNCHANGED <<kind, next, config, patched, overrun, jobs>>

Resume ==
    /\ HasRow /\ status' = "active"
    /\ Asks("resume")
    /\ UNCHANGED <<kind, next, config, patched, overrun, jobs>>

\* The row goes, and its executions with it.
Delete ==
    /\ HasRow /\ status' = "deleted" /\ stuck' = FALSE
    /\ request = "none" /\ requests < MaxRequests /\ requests' = requests + 1
    /\ UNCHANGED <<kind, next, config, patched, overrun,
                   jobs, listed, request, pc, row, seen, faults>>

\* run_agent_now does not look at the status.
RunNow ==
    /\ HasRow
    /\ Scheduled(0)
    /\ Asks("none")
    /\ UNCHANGED agent

\* The second half of a request: register_agent_schedule after the commit.
\* resume_agent gives a timed agent without a next run one.
RequestEnds ==
    /\ request # "none" /\ request' = "none"
    /\ \/ Register /\ UNCHANGED faults
       \/ Fault /\ UNCHANGED jobs
    /\ IF request = "resume" /\ kind = "timed" /\ next = None
         THEN next' \in NextRun
         ELSE UNCHANGED next
    /\ UNCHANGED <<status, kind, config, patched, overrun, listed, runs, requests>>

-----------------------------------------------------------------------------
(* The poll *)

\* Mutant of PollLists: without the filter on the status.
PollListsPaused ==
    /\ ~ listed
    /\ HasRow /\ kind = "timed" /\ next = 0
    /\ listed' = TRUE
    /\ UNCHANGED <<agent, jobs, request, runs, requests, faults>>

\* agents_due_for_run.
PollLists ==
    /\ ~ listed
    /\ status = "active" /\ kind = "timed" /\ next = 0
    /\ listed' = TRUE
    /\ UNCHANGED <<agent, jobs, request, runs, requests, faults>>

\* Mutant of PollEnqueues: the list is forgotten.
PollSkips ==
    /\ listed /\ listed' = FALSE
    /\ UNCHANGED <<agent, jobs, request, runs, requests, faults>>

\* enqueue_agent_run_now for the listed agent, whatever its row is by now.
PollEnqueues ==
    /\ listed /\ listed' = FALSE
    /\ \/ Scheduled(0) /\ UNCHANGED faults
       \/ Fault /\ UNCHANGED jobs
    /\ UNCHANGED <<agent, request, runs, requests>>

-----------------------------------------------------------------------------
(* A run: run_agent_job and execute_agent *)

Run(p, from, to) == pc[p] = from /\ pc' = [pc EXCEPT ![p] = to]

Sees(p) == seen' = [seen EXCEPT ![p] = [config |-> config, kind |-> kind]]

\* A job is taken and the agent read: one that is paused or gone raises.
Take(p) ==
    /\ jobs[0] > 0 /\ jobs' = [jobs EXCEPT ![0] = @ - 1]
    /\ Run(p, "idle", IF status = "active" THEN "begin" ELSE "idle")
    /\ UNCHANGED <<agent, listed, request, row, seen, stuck, requests, faults>>

\* The execution is inserted, unless its agent has gone, and the agent read
\* again by the handler.
Begin(p) ==
    /\ IF HasRow
         THEN Run(p, "begin", "handler") /\ row' = [row EXCEPT ![p] = "running"]
         ELSE Run(p, "begin", "idle") /\ UNCHANGED row
    /\ Sees(p)
    /\ UNCHANGED <<agent, jobs, listed, request, stuck, requests, faults>>

\* A commit of the handler, and its next look at the agent.
HandlerReads(p) ==
    /\ Run(p, "handler", "handler") /\ HasRow
    /\ Sees(p)
    /\ UNCHANGED <<agent, jobs, listed, request, row, stuck, requests, faults>>

\* The handler returns: add_memory_entry commits the complete execution.
HandlerReturns(p) ==
    /\ Run(p, "handler", "notify") /\ HasRow
    /\ row' = [row EXCEPT ![p] = "complete"]
    /\ UNCHANGED <<agent, jobs, listed, request, seen, stuck, requests, faults>>

\* The config of the run's session with runtime_status and last_error: a write
\* that changes nothing is not sent.
WritesBack(p) == config' \in {config, seen[p].config}

\* Mutant of HandlerRaises: the execution is left as it was.
HandlerRaisesSilently(p) ==
    /\ Run(p, "handler", "settle") /\ HasRow
    /\ WritesBack(p)
    /\ UNCHANGED <<status, kind, next, patched, overrun, jobs, listed, request,
                   row, seen, stuck, requests, faults>>

\* The handler raises: notify_user commits the failed execution and the config.
HandlerRaises(p) ==
    /\ Run(p, "handler", "settle") /\ HasRow
    /\ row' = [row EXCEPT ![p] = "failed"]
    /\ WritesBack(p)
    /\ UNCHANGED <<status, kind, next, patched, overrun, jobs, listed, request,
                   seen, stuck, requests, faults>>

\* notify_user commits, and the agent is read for its config.
Notify(p) ==
    /\ Run(p, "notify", "success") /\ HasRow
    /\ Sees(p)
    /\ UNCHANGED <<agent, jobs, listed, request, row, stuck, requests, faults>>

\* The moment of the next run, which is the schedule's and not the owner's.
Moves(k) == IF k = "timed" THEN next' \in NextRun ELSE UNCHANGED next

\* The last commit of a run that went well.
FinishSuccess(p) ==
    /\ Run(p, "success", "register") /\ HasRow
    /\ WritesBack(p)
    /\ Moves(seen[p].kind)
    /\ UNCHANGED <<status, kind, patched, overrun, jobs, listed, request,
                   row, seen, stuck, requests, faults>>

\* The last commit of a run that failed; the agent was read again for it.
FinishFailure(p) ==
    /\ Run(p, "settle", "register") /\ HasRow
    /\ Moves(kind)
    /\ UNCHANGED <<status, kind, config, patched, overrun, jobs, listed, request,
                   row, seen, stuck, requests, faults>>

\* A process leaves its execution as it is.
Leaves(p) ==
    /\ pc' = [pc EXCEPT ![p] = "idle"]
    /\ row' = [row EXCEPT ![p] = "none"]
    /\ stuck' = (stuck \/ (row[p] = "running" /\ HasRow))
    /\ UNCHANGED seen

\* The row has gone: the next commit of the run raises, and so does the
\* attempt to record it.
RunLosesRow(p) ==
    /\ pc[p] \in {"handler", "notify", "success", "settle"} /\ ~ HasRow
    /\ Leaves(p)
    /\ UNCHANGED <<agent, jobs, listed, request, requests, faults>>

RunRegisters(p) ==
    /\ pc[p] = "register"
    /\ Leaves(p)
    /\ \/ (IF HasRow THEN Register ELSE UNCHANGED jobs) /\ UNCHANGED faults
       \/ Fault /\ UNCHANGED jobs
    /\ UNCHANGED <<agent, listed, request, requests>>

\* The process is killed, or a failed statement leaves the session unusable,
\* so that neither except nor finally can record how the run ended.
RunBreaks(p) ==
    /\ Fault
    /\ pc[p] # "idle"
    /\ Leaves(p)
    /\ UNCHANGED <<agent, jobs, listed, request, requests>>

-----------------------------------------------------------------------------

Tick ==
    /\ next' = IF next > 0 THEN next - 1 ELSE next
    /\ jobs' = [t \in Dues |->
                  IF t = 0 THEN IF jobs[0] + jobs[1] > MaxJobs THEN MaxJobs ELSE jobs[0] + jobs[1]
                  ELSE IF t = Period THEN 0 ELSE jobs[t + 1]]
    /\ UNCHANGED <<status, kind, config, patched, overrun, listed, request, runs,
                   requests, faults>>

Requests == Create \/ Reschedule \/ Configure \/ Pause \/ Resume \/ Delete \/ RunNow

PollStep == PollLists \/ PollEnqueues

RunStep(p) ==
    \/ Take(p) \/ Begin(p) \/ HandlerReturns(p) \/ HandlerRaises(p) \/ Notify(p)
    \/ FinishSuccess(p) \/ FinishFailure(p) \/ RunLosesRow(p) \/ RunRegisters(p)

Next ==
    \/ Tick \/ Requests \/ RequestEnds \/ PollStep
    \/ \E p \in Process : RunStep(p) \/ HandlerReads(p) \/ RunBreaks(p)

Spec == Init /\ [][Next]_vars

\* Time passes, requests and runs go on, and polls go on (AgentPoll).
FairSpec ==
    /\ Spec
    /\ WF_vars(Tick) /\ WF_vars(RequestEnds) /\ WF_vars(PollStep)
    /\ \A p \in Process : WF_vars(RunStep(p))

-----------------------------------------------------------------------------
(* Properties *)

\* A timed agent always has a next run for the poll to find, paused or not,
\* however requests and the last commits of runs interleave.
TimedHasNext == HasRow /\ kind = "timed" => next # None

\* No execution stays "running" without a process unless that process was
\* killed or lost its database session.
StuckOnlyAfterFault == stuck => faults > 0

\* An edit of config is lost only when it came while a run held an older one.
ConfigLostOnlyInRace == config # patched => overrun

\* Runs record what they did, and keep what their owner did meanwhile.
RunsAreSound == TypeOK /\ StuckOnlyAfterFault /\ ConfigLostOnlyInRace

\* An agent that stays active and timed is run again and again, whatever is
\* killed and whichever jobs are lost: the poll finds it due.
TimedAgentsRun ==
    <>[](status = "active" /\ kind = "timed") => []<>(\E p \in Process : pc[p] = "handler")

\* An agent that stays paused, manual or deleted comes to rest: jobs scheduled
\* before, lists of the poll and runs under way schedule nothing new.
OthersComeToRest ==
    <>[](status # "active" \/ kind = "manual") =>
        <>[](/\ \A t \in Dues : jobs[t] = 0
             /\ \A p \in Process : pc[p] = "idle")

=============================================================================
