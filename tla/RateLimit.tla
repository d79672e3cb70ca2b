----------------------------- MODULE RateLimit -----------------------------
(***************************************************************************)
(* The sliding-window rate limiters of one bucket (a client address and a  *)
(* path scope): the deque each API process keeps in memory, the sorted set *)
(* the processes share in Redis, and the fall-back from the second to the  *)
(* first whenever Redis does not answer.                                   *)
(*                                                                         *)
(* A time stamp is modelled by its age.  A second has Second ticks, so     *)
(* that what int() cuts off a float is visible.  One check is one step: a  *)
(* process handles it without an await, Redis runs it as one pipeline.     *)
(***************************************************************************)
EXTENDS Naturals, Sequences

CONSTANTS
    Process,    \* API processes
    Limit,      \* RateLimitRule.limit
    Window,     \* RateLimitRule.window_seconds, in ticks
    Second,     \* ticks in a second
    UseRedis,   \* settings.use_redis_rate_limit
    Outages,    \* whether Redis may stop answering
    MaxBurst    \* bound: members of the sorted set

ASSUME LimitAssumption == Limit \in Nat \ {0}
ASSUME WindowAssumption == /\ Second \in Nat \ {0} /\ Window \in Nat \ {0}
                           /\ Window % Second = 0
ASSUME ModeAssumption == UseRedis \in BOOLEAN /\ Outages \in BOOLEAN
ASSUME BurstAssumption == MaxBurst \in Nat

VARIABLES
    hits,       \* _hits of each process: ages of admitted requests, oldest first
    zset,       \* ratelimit:<key> in Redis: ages of requests, oldest first
    up,         \* whether Redis answers
    inMemory,   \* history: the last Limit + 1 admissions of each process
    inRedis,    \* history: the last Limit + 1 admissions through Redis
    rejected,   \* the last answer was a 429
    wait        \* ticks until the client has waited as its Retry-After says

limitVars == <<hits, zset, up, inMemory, inRedis, rejected, wait>>

\* An age beyond the window is as good as any other.
Ages == 0..(Window + 1)

LimitsTypeOK ==
    /\ hits \in [Process -> Seq(Ages)]
    /\ zset \in Seq(Ages)
    /\ up \in BOOLEAN
    /\ inMemory \in [Process -> Seq(Ages)]
    /\ inRedis \in Seq(Ages)
    /\ rejected \in BOOLEAN
    /\ wait \in 0..Window

LimitsInit ==
    /\ hits = [p \in Process |-> <<>>]
    /\ zset = <<>>
    /\ up = TRUE
    /\ inMemory = [p \in Process |-> <<>>]
    /\ inRedis = <<>>
    /\ rejected = FALSE
    /\ wait = 0

Aged(s) == [i \in 1..Len(s) |-> IF s[i] > Window THEN s[i] ELSE s[i] + 1]

\* Mutant of Popped: members exactly a window old are dropped too soon.
PoppedSoon(s, k, old) ==
    /\ \A i \in 1..k : s[i] + 1 >= old
    /\ k < Len(s) => s[k + 1] + 1 < old

\* The first k members of s, and no more, are of age "old" or older.
Popped(s, k, old) ==
    /\ \A i \in 1..k : s[i] >= old
    /\ k < Len(s) => s[k + 1] < old

Rest(s, k) == SubSeq(s, k + 1, Len(s))

\* The last Limit + 1 of the admissions s and the one of this moment.
Noted(s) == IF Len(s) > Limit THEN Append(Tail(s), 0) ELSE Append(s, 0)

\* reset_seconds_for_window: int(max(1, ...)) seconds from now.
ResetTicks(left) ==
    IF left <= Second THEN Second ELSE Second * (left \div Second)

Admit == rejected' = FALSE /\ wait' = 0
Reject(ticks) == rejected' = TRUE /\ wait' = ticks

\* Mutant of CheckMemory: a rejected request is recorded as well.
CheckMemoryCountsAll(p) ==
    \E k \in 0..Len(hits[p]) :
        LET bucket == Rest(hits[p], k) IN
        /\ Popped(hits[p], k, Window + 1)
        /\ IF Len(bucket) >= Limit
             THEN /\ hits' = [hits EXCEPT ![p] = Append(Tail(bucket), 0)]
                  /\ Reject(ResetTicks(Window - bucket[1]))
                  /\ UNCHANGED inMemory
             ELSE /\ hits' = [hits EXCEPT ![p] = Append(bucket, 0)]
                  /\ inMemory' = [inMemory EXCEPT ![p] = Noted(@)]
                  /\ Admit
        /\ UNCHANGED <<zset, up, inRedis>>

\* InMemoryRateLimitMiddleware: time stamps before the window are popped, and
\* only an admitted request is appended.
CheckMemory(p) ==
    \E k \in 0..Len(hits[p]) :
        LET bucket == Rest(hits[p], k) IN
        /\ Popped(hits[p], k, Window + 1)
        /\ IF Len(bucket) >= Limit
             THEN /\ hits' = [hits EXCEPT ![p] = bucket]
                  /\ Reject(ResetTicks(Window - bucket[1]))
                  /\ UNCHANGED inMemory
             ELSE /\ hits' = [hits EXCEPT ![p] = Append(bucket, 0)]
                  /\ inMemory' = [inMemory EXCEPT ![p] = Noted(@)]
                  /\ Admit
        /\ UNCHANGED <<zset, up, inRedis>>

\* Mutant of CheckRedis: the member is counted before it is added.
CheckRedisLate ==
    \E k \in 0..Len(zset) :
        LET found == Rest(zset, k) IN
        /\ Popped(zset, k, Window)
        /\ zset' = Append(found, 0)
        /\ IF Len(found) <= Limit
             THEN inRedis' = Noted(inRedis) /\ Admit
             ELSE Reject(Window) /\ UNCHANGED inRedis
        /\ UNCHANGED <<hits, up, inMemory>>

\* _check_redis: the member is added whatever the answer will be; the key's
\* time to live outlasts its members.
CheckRedis ==
    \E k \in 0..Len(zset) :
        LET members == Append(Rest(zset, k), 0) IN
        /\ Popped(zset, k, Window)
        /\ zset' = members
        /\ IF Len(members) <= Limit
             THEN inRedis' = Noted(inRedis) /\ Admit
             ELSE Reject(Window) /\ UNCHANGED inRedis
        /\ UNCHANGED <<hits, up, inMemory>>

\* The middleware of process p meets a request that is not exempt.
Request(p) ==
    IF UseRedis /\ up THEN Len(zset) < MaxBurst /\ CheckRedis
                      ELSE CheckMemory(p)

RedisStops  == UseRedis /\ Outages /\ up /\ up' = FALSE
               /\ UNCHANGED <<hits, zset, inMemory, inRedis, rejected, wait>>
RedisAnswers == ~ up /\ up' = TRUE
               /\ UNCHANGED <<hits, zset, inMemory, inRedis, rejected, wait>>

Tick ==
    /\ hits' = [p \in Process |-> Aged(hits[p])]
    /\ zset' = Aged(zset)
    /\ inMemory' = [p \in Process |-> Aged(inMemory[p])]
    /\ inRedis' = Aged(inRedis)
    /\ wait' = IF wait = 0 THEN 0 ELSE wait - 1
    /\ UNCHANGED <<up, rejected>>

LimitsNext == Tick \/ RedisStops \/ RedisAnswers \/ \E p \in Process : Request(p)

LimitedSpec == LimitsInit /\ [][LimitsNext]_limitVars

\* Time passes and clients keep asking every process.
LimitedFairSpec == LimitedSpec /\ WF_limitVars(Tick) /\ \A p \in Process : WF_limitVars(Request(p))

-----------------------------------------------------------------------------
(* Properties *)

\* When admission Limit + 1 of s happens, the first of them is "old" by then.
Spread(s, old) == Len(s) = Limit + 1 /\ s[Limit + 1] = 0 => s[1] >= old

\* No process lets more than Limit requests into a window through its memory,
\* whether it is the limiter or stands in for Redis.
MemoryWindow == \A p \in Process : Spread(inMemory[p], Window + 1)

\* All processes together let no more than Limit requests into a window
\* through Redis, however often Redis fails in between.
RedisWindow == Spread(inRedis, Window)

\* The deque never holds more than the limit, so a process's memory is bounded
\* however many requests are refused.
DequeBounded == \A p \in Process : Len(hits[p]) <= Limit

\* Memory: what is admitted, what is kept, and no wait above the window.
MemoryLimits == LimitsTypeOK /\ MemoryWindow /\ DequeBounded

\* While Redis stays away, clients that keep asking are let in again and again:
\* in memory, refusals do not count against them.
AskersGetIn == <>[]~(UseRedis /\ up) => []<>~rejected

=============================================================================
