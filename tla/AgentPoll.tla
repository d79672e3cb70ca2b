----------------------------- MODULE AgentPoll -----------------------------
(***************************************************************************)
(* The chain of polls that wakes autonomous agents: a poll job schedules   *)
(* the next one, a worker that starts schedules the first one, and a lock  *)
(* in Redis that expires shortly before the poll is due keeps them from    *)
(* both doing so.  What a poll does with the agents is in AgentRuns.       *)
(***************************************************************************)
EXTENDS Naturals, FiniteSets

CONSTANTS
    Worker,     \* RQ worker processes
    Interval,   \* AGENT_POLL_INTERVAL_SECONDS, in ticks
    LockTtl,    \* the same less five seconds: the life of the lock, in ticks
    Faults,     \* kinds of disturbance: "restart", "kill", "redis", "database"
    MaxDisturbances  \* bound: disturbances

ASSUME TimesAssumption == /\ Interval \in Nat /\ LockTtl \in Nat
                          /\ 0 < LockTtl /\ LockTtl < Interval
ASSUME FaultsAssumption == /\ Faults \subseteq {"restart", "kill", "redis", "database"}
                           /\ MaxDisturbances \in Nat

VARIABLES
    lock,       \* what is left of the life of AGENT_POLL_LOCK_KEY, 0 without it
    polls,      \* number of poll jobs due in so many ticks
    place,      \* where each worker stands: "start" and "first" are the steps
                \* "schedule" and "enqueue" of main, before any job
    disturbances, \* those so far
    broken      \* history: a poll or a schedule has failed since a poll was last scheduled

pollVars == <<lock, polls, place, disturbances, broken>>

PollDues == 0..Interval

PollTypeOK ==
    /\ lock \in 0..LockTtl
    /\ polls \in [PollDues -> Nat]
    /\ place \in [Worker -> {"off", "start", "first", "idle", "poll", "schedule", "enqueue"}]
    /\ disturbances \in 0..MaxDisturbances
    /\ broken \in BOOLEAN

PollInit ==
    /\ lock = 0
    /\ polls = [t \in PollDues |-> 0]
    /\ place = [w \in Worker |-> "off"]
    /\ disturbances = 0
    /\ broken = FALSE

Go(w, from, to) == place[w] = from /\ place' = [place EXCEPT ![w] = to]

Disturb(kind) == kind \in Faults /\ disturbances < MaxDisturbances /\ disturbances' = disturbances + 1

\* main of the worker, up to the first schedule_next_agent_poll.
Starts(w) == Go(w, "off", "start") /\ UNCHANGED <<lock, polls, disturbances, broken>>

\* Work on the agents queue: a poll job that is due, maybe long since.
TakePoll(w) ==
    /\ Go(w, "idle", "poll")
    /\ polls[0] > 0
    /\ polls' = [polls EXCEPT ![0] = @ - 1]
    /\ UNCHANGED <<lock, disturbances, broken>>

\* poll_due_agents returns; what goes wrong with one agent is only logged.
PollReturns(w) == Go(w, "poll", "schedule") /\ UNCHANGED <<lock, polls, disturbances, broken>>

\* agents_due_for_run raises: the job fails, and nothing retries it.
PollRaises(w) == Go(w, "poll", "idle") /\ Disturb("database") /\ broken' = TRUE /\ UNCHANGED <<lock, polls>>

\* Where a worker stands when it has the lock.
Locked(w) == IF place[w] = "start" THEN "first" ELSE "enqueue"

\* Mutant of SetLock: the lock outlives the interval.
SetLockLong(w) ==
    /\ place[w] \in {"start", "schedule"}
    /\ IF lock = 0
         THEN lock' = Interval + 1 /\ place' = [place EXCEPT ![w] = Locked(w)]
         ELSE lock' = lock /\ place' = [place EXCEPT ![w] = "idle"]
    /\ UNCHANGED <<polls, disturbances, broken>>

\* Mutant of SetLock: SET without NX.
SetLockAlways(w) ==
    /\ place[w] \in {"start", "schedule"}
    /\ place' = [place EXCEPT ![w] = Locked(w)]
    /\ lock' = LockTtl
    /\ UNCHANGED <<polls, disturbances, broken>>

\* SET NX EX: who does not get the lock leaves the schedule alone.
SetLock(w) ==
    /\ place[w] \in {"start", "schedule"}
    /\ IF lock = 0
         THEN lock' = LockTtl /\ place' = [place EXCEPT ![w] = Locked(w)]
         ELSE lock' = lock /\ place' = [place EXCEPT ![w] = "idle"]
    /\ UNCHANGED <<polls, disturbances, broken>>

\* Mutant of Enqueue: the poll is due when the lock expires.
EnqueueSoon(w) ==
    /\ Go(w, "first", "idle") \/ Go(w, "enqueue", "idle")
    /\ polls' = [polls EXCEPT ![LockTtl] = @ + 1]
    /\ broken' = FALSE
    /\ UNCHANGED <<lock, disturbances>>

\* enqueue_in.
Enqueue(w) ==
    /\ Go(w, "first", "idle") \/ Go(w, "enqueue", "idle")
    /\ polls' = [polls EXCEPT ![Interval] = @ + 1]
    /\ broken' = FALSE
    /\ UNCHANGED <<lock, disturbances>>

\* A call to Redis raises, SET perhaps after Redis performed it: the function
\* returns False, and so the job or the start of the worker goes on.
RedisFails(w) ==
    /\ Disturb("redis") /\ broken' = TRUE
    /\ \/ /\ Go(w, "start", "idle") \/ Go(w, "schedule", "idle")
          /\ lock' \in {lock, IF lock = 0 THEN LockTtl ELSE lock}
       \/ (Go(w, "first", "idle") \/ Go(w, "enqueue", "idle")) /\ UNCHANGED lock
    /\ UNCHANGED polls

\* The worker dies, or the work horse in a job; RQ gives that job up.
Killed(w) ==
    /\ Disturb("kill") /\ broken' = TRUE
    /\ \/ place[w] # "off" /\ place' = [place EXCEPT ![w] = "off"]
       \/ \E from \in {"poll", "schedule", "enqueue"} : Go(w, from, "idle")
    /\ UNCHANGED <<lock, polls>>

\* A worker is stopped between two jobs, as by a deployment.
Stops(w) == Go(w, "idle", "off") /\ Disturb("restart") /\ UNCHANGED <<lock, polls, broken>>

PollTick ==
    /\ lock' = IF lock = 0 THEN 0 ELSE lock - 1
    /\ polls' = [t \in PollDues |->
                   IF t = 0 THEN polls[0] + polls[1]
                   ELSE IF t = Interval THEN 0 ELSE polls[t + 1]]
    /\ UNCHANGED <<place, disturbances, broken>>

Step(w) == TakePoll(w) \/ PollReturns(w) \/ SetLock(w) \/ Enqueue(w)

Disturbed(w) == PollRaises(w) \/ RedisFails(w) \/ Killed(w) \/ Stops(w)

PollNext == PollTick \/ \E w \in Worker : Starts(w) \/ Step(w) \/ Disturbed(w)

PollSpec == PollInit /\ [][PollNext]_pollVars

\* Time passes, workers work, and the supervisor loop starts them again.
PollFairness == WF_pollVars(PollTick) /\ \A w \in Worker : WF_pollVars(Step(w)) /\ WF_pollVars(Starts(w))

PollFairSpec == PollSpec /\ PollFairness

\* A worker has work, or could have.
Busy == \/ \E w \in Worker : place[w] \notin {"off", "idle"}
        \/ polls[0] > 0 /\ \E w \in Worker : place[w] = "idle"

-----------------------------------------------------------------------------
(* Properties *)

\* The lock stands for "already scheduled": while it is held, its holder is
\* about to schedule a poll or has scheduled one that is due only after the
\* lock has expired, so that the poll finds it free. A failure between the two
\* calls breaks this until a poll is scheduled again.
HeldMeansScheduled ==
    lock > 0 /\ ~broken =>
        \/ \E w \in Worker : place[w] \in {"first", "enqueue"}
        \/ \E t \in PollDues : polls[t] > 0 /\ t >= lock + (Interval - LockTtl)

LockIsSound == PollTypeOK /\ HeldMeansScheduled

\* Polls go on for ever once a poll is scheduled after the last failure.
PollsGoOn == []<>(\E w \in Worker : place[w] = "poll") \/ <>[]broken

OneChain ==
    \A t, u \in PollDues :
        /\ polls[t] <= 1
        /\ polls[t] > 0 /\ polls[u] > 0 => t = u

\* However many polls restarts have added, they merge into one chain when the
\* workers keep up, no time passing while they have work: of two polls one
\* finds the lock of the other.
PollsMerge == <>[][PollTick => ~Busy]_pollVars => <>[]OneChain

=============================================================================
