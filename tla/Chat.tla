-------------------------------- MODULE Chat --------------------------------
(***************************************************************************)
(* The turns of one chat session, next to the changes of its library: a    *)
(* question is saved, the answer is streamed and saved, the summary of the *)
(* conversation is written and the title refined, each in a transaction of *)
(* its own, while other turns run, the user renames the session or deletes *)
(* it, and the client goes away.                                           *)
(***************************************************************************)
EXTENDS Library

VARIABLES
    msgs,       \* Message rows of the session: role and turn
    sum,        \* the messages the ConversationSummary covers, 0 for no row
    title,      \* who wrote the title last
    usage,      \* turns whose answer has its ModelUsage and TokenUsage
    done,       \* history: turns that told the client "done", not "error"
    refusals,   \* history: turns that were refused, without the model
    silent,     \* history: streams without a token, done and not saved
    lost,       \* history: turns whose usage rows the database failed to write
    over,       \* history: slots whose turn has overlapped another
    lag,        \* history: the last summary is missing or of such a turn
    refined,    \* history: titles the stream has refined
    kept        \* history: the user has renamed the session after its first
                \* answer, with no refinement under way

turns == <<msgs, sum, title, usage>>
hist  == <<done, refusals, silent, lost, over, lag, refined, kept>>
vars  == <<libVars, turns, hist>>

Turns == 1..MaxRequests
Covers == 0..(2 * MaxRequests)
TypeOK ==
    /\ LibTypeOK
    /\ msgs \in Seq([role : {"user", "assistant"}, turn : Turns])
    /\ sum \in Covers /\ title \in {"first", "user", "refined"}
    /\ usage \subseteq Turns /\ done \subseteq Turns /\ refusals \subseteq Turns /\ silent \subseteq Turns
    /\ lost \subseteq Turns /\ over \subseteq Slot /\ lag \in BOOLEAN /\ kept \in BOOLEAN /\ refined \in Nat

Init ==
    /\ LibInit
    /\ msgs = <<>> /\ sum = 0 /\ title = "first" /\ usage = {}
    /\ done = {} /\ refusals = {} /\ silent = {} /\ lost = {} /\ over = {} /\ lag = FALSE /\ refined = 0 /\ kept = FALSE

-----------------------------------------------------------------------------
(* Helpers *)

Turning == {p \in Slot : req[p].op \in {"stream", "chat"}}
Answers == Cardinality({i \in DOMAIN msgs : msgs[i].role = "assistant"})
Saved(role, t) == Append(msgs, [role |-> role, turn |-> t])
Step(p, pc) == req' = [req EXCEPT ![p].pc = pc]
\* The turn tells the client that it is done.
Finishes(p) == Ends(p) /\ done' = done \cup {req[p].of}
Stops(p) == Ends(p) /\ lag' = TRUE

-----------------------------------------------------------------------------
(* Turns *)

\* The session is found, the question saved and the history read with it.
Ask(p, op) ==
    /\ Asks(p, op) /\ chat
    /\ Goes(p, op, "route", requests', 0)
    /\ msgs' = Saved("user", requests')
    /\ over' = IF Turning = {} THEN over \ {p} ELSE over \cup Turning \cup {p}
    /\ UNCHANGED <<rows, scene, faults, excuses, sum, title, usage, done, refusals, silent, lost, lag, refined, kept>>

\* tool_calling_agent refuses: its words are the answer.
RefusalGoesTo == "save"
Refuse(p) ==
    /\ At(p, "stream", "route")
    /\ req' = [req EXCEPT ![p].pc = RefusalGoesTo, ![p].new = "refusal"]
    /\ refusals' = refusals \cup {req[p].of}
    /\ UNCHANGED <<rows, scene, requests, faults, excuses, turns, done, silent, lost, over, lag, refined, kept>>

\* The model has answered. Its usage is recorded, against the session unless
\* that is gone; an error of the database is swallowed and the rows are lost.
Counts(t) == IF chat THEN usage \cup {t} ELSE usage
Recorded(t, counted) ==
    \/ usage' = counted /\ UNCHANGED <<faults, lost>>
    \/ Fault /\ lost' = lost \cup {t} /\ UNCHANGED usage
Answer(p) ==
    LET r == req[p] IN
    /\ r.op \in {"stream", "chat"} /\ r.pc = "route" /\ Step(p, "save")
    /\ Recorded(r.of, IF r.op = "stream" THEN Counts(r.of) ELSE usage \cup {r.of})
    /\ UNCHANGED <<rows, scene, requests, excuses, msgs, sum, title, done, refusals, silent, over, lag, refined, kept>>

\* A stream without a token: nothing is saved or summarised, and the client is
\* told that the turn is done.
AnswerNothing(p) ==
    /\ At(p, "stream", "route") /\ Stops(p)
    /\ done' = done \cup {req[p].of} /\ silent' = silent \cup {req[p].of}
    /\ Recorded(req[p].of, Counts(req[p].of))
    /\ UNCHANGED <<rows, scene, requests, excuses, msgs, sum, title, refusals, over, refined, kept>>

\* The model fails, the client goes away or the process dies: the question
\* stays without an answer.
Break(p) ==
    /\ p \in Turning /\ Fault /\ Stops(p)
    /\ UNCHANGED <<rows, scene, requests, excuses, turns, done, refusals, silent, lost, over, refined, kept>>

\* save_message: the session may be gone, and the error ends the stream.
Save(p) ==
    LET r == req[p] IN
    /\ p \in Turning /\ r.pc = "save"
    /\ IF chat THEN Step(p, "read") /\ msgs' = Saved("assistant", r.of) /\ UNCHANGED lag
       ELSE Stops(p) /\ UNCHANGED msgs
    /\ UNCHANGED <<rows, scene, requests, faults, excuses, sum, title, usage, done, refusals, silent, lost, over, refined, kept>>

\* generate_summary reads the messages and asks the model; a failure of the
\* model is answered with the end of the text.
ReadBut == Len(msgs) - 1
Read == Len(msgs)
ReadMessages(p) ==
    /\ p \in Turning /\ req[p].pc = "read"
    /\ req' = [req EXCEPT ![p].pc = IF msgs = <<>> THEN "count" ELSE "find", ![p].to = Read]
    /\ UNCHANGED <<rows, scene, requests, faults, excuses, turns, hist>>

\* It looks for the row: one to update, or none.
FindSummary(p) ==
    /\ p \in Turning /\ req[p].pc = "find"
    /\ Step(p, IF sum = 0 THEN "insert" ELSE "update")
    /\ UNCHANGED <<rows, scene, requests, faults, excuses, turns, hist>>

\* The update finds no row, the insert no session or a row of another turn: a
\* stream swallows the error, /chat answers it.
PutFails(p) == IF req[p].pc = "update" THEN sum = 0 ELSE ~chat \/ sum # 0
PutSummary(p) ==
    /\ p \in Turning /\ req[p].pc \in {"insert", "update"}
    /\ IF PutFails(p)
       THEN /\ lag' = TRUE /\ UNCHANGED sum
            /\ IF req[p].op = "stream" THEN Step(p, "count") ELSE Ends(p)
       ELSE /\ sum' = req[p].to /\ lag' = (p \in over) /\ Step(p, "count")
    /\ UNCHANGED <<rows, scene, requests, faults, excuses, msgs, title, usage, done, refusals, silent, lost, over, refined, kept>>

\* The stream counts the answers and loads the session: after the first answer
\* the title is refined.
ShouldRefineAlways(count) == count >= 1
ShouldRefine(count) == count = 1
CountAnswers(p) ==
    /\ p \in Turning /\ req[p].pc = "count"
    /\ IF req[p].op = "stream" /\ req[p].new # "refusal" /\ chat /\ ShouldRefine(Answers)
       THEN Step(p, "refine") /\ UNCHANGED done
       ELSE Finishes(p)
    /\ UNCHANGED <<rows, scene, requests, faults, excuses, turns, refusals, silent, lost, over, lag, refined, kept>>

\* The model has made a title; the row may be gone, which is swallowed.
RefineTitle(p) ==
    /\ At(p, "stream", "refine") /\ Finishes(p)
    /\ IF chat THEN title' = "refined" /\ refined' = refined + 1 ELSE UNCHANGED <<title, refined>>
    /\ UNCHANGED <<rows, scene, requests, faults, excuses, msgs, sum, usage, refusals, silent, lost, over, lag, kept>>

\* update_session.
Rename(p) ==
    /\ Asks(p, "rename") /\ chat /\ title' = "user"
    /\ kept' = (kept \/ Answers > 1 \/ (Answers = 1 /\ Turning = {}))
               /\ \A q \in Slot : req[q].pc # "refine"
    /\ UNCHANGED <<rows, req, scene, faults, excuses, msgs, sum, usage, done, refusals, silent, lost, over, lag, refined>>

\* refine_session_title, which a client asks for: it loads, asks the model and
\* writes.
AskRefine(p) ==
    /\ Asks(p, "refine_title") /\ chat /\ Goes(p, "refine_title", "refine", 0, 0)
    /\ UNCHANGED <<rows, scene, faults, excuses, turns, hist>>

CommitRefine(p) ==
    /\ At(p, "refine_title", "refine") /\ Ends(p)
    /\ IF chat THEN title' = "refined" /\ kept' = FALSE ELSE UNCHANGED <<title, kept>>
    /\ UNCHANGED <<rows, scene, requests, faults, excuses, msgs, sum, usage, done, refusals, silent, lost, over, lag, refined>>

\* The rows of the session go with it; the usage stays, detached.
Cascade == [msgs |-> <<>>, sum |-> 0]
DeleteSession(p) ==
    /\ CommitDelete(p) /\ msgs' = Cascade.msgs /\ sum' = Cascade.sum
    /\ UNCHANGED <<title, usage, hist>>

TurnNext ==
    \E p \in Slot :
      \/ \E op \in {"stream", "chat"} : Ask(p, op)
      \/ Refuse(p) \/ Answer(p) \/ AnswerNothing(p) \/ Break(p) \/ Save(p) \/ ReadMessages(p) \/ FindSummary(p)
      \/ PutSummary(p) \/ CountAnswers(p) \/ RefineTitle(p) \/ Rename(p) \/ AskRefine(p)
      \/ CommitRefine(p) \/ DeleteSession(p)

Next == TurnNext \/ (LibraryNext /\ UNCHANGED <<turns, hist>>)
Spec == Init /\ [][Next]_vars

-----------------------------------------------------------------------------
(* Properties *)

\* What the client was told is done is in the conversation it will read
\* again, as long as the session exists; a turn that streamed nothing has only
\* its question there.
DoneIsAnswered ==
    chat => \A t \in done : t \notin silent <=> [role |-> "assistant", turn |-> t] \in {msgs[i] : i \in DOMAIN msgs}

\* Between turns the summary covers the whole conversation, unless a turn
\* ended early or two overlapped; the next turn repairs it.
SummaryIsWhole == chat /\ Turning = {} /\ ~lag => sum = Len(msgs)

\* "Only refine once - after the first assistant reply": turns that overlap
\* may both miss the first answer, they never both take theirs for it.
RefinedAtMostOnce == refined <= 1

\* A name the user gives after the first answer stays: no later turn refines
\* it away.
NameIsKept == kept => title = "user"

\* A deleted session leaves no message, summary or document row, whichever
\* turns and uploads were under way.
DeletedIsEmpty == ~chat => msgs = <<>> /\ sum = 0 /\ Rows(docs) = {}

\* A turn that is done has its usage recorded, unless it was refused, the
\* database failed, or the session was deleted under a stream without a token.
DoneIsCounted ==
    \A t \in done : t \in usage \cup refusals \cup lost \/ (t \in silent /\ ~chat)

\* The conversation, its summary and its usage keep what turns have done.
TurnsAreKept == DoneIsAnswered /\ SummaryIsWhole /\ DoneIsCounted /\ DeletedIsEmpty

\* The title is refined once and never after a name of the user.
TitleIsKept == TypeOK /\ RefinedAtMostOnce /\ NameIsKept

=============================================================================
