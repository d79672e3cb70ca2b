------------------------------ MODULE Accounts ------------------------------
(***************************************************************************)
(* One account: the sessions of its devices (sign-in, refresh, sign-out,   *)
(* revocation) and its settings (API key, webhook, subscription, second    *)
(* factor, deletion).  A request reads in one step and commits in another; *)
(* the commit of a loaded row writes the columns the request changed and   *)
(* no others, so that two requests on one row can mix.                     *)
(***************************************************************************)
EXTENDS Integers, Sequences, FiniteSets

CONSTANTS
    Slot,           \* requests that can be under way at once
    Client,         \* browsers signed in to the account
    MaxRequests,    \* bound: requests
    MaxFaults       \* bound: lost answers, deaths and expiries, together

ASSUME ClientAssumption == Client # {} /\ 0 \notin Client
ASSUME BoundAssumption == MaxRequests \in Nat /\ MaxFaults \in Nat

VARIABLES
    user,       \* id of the row of users, 0 when there is none
    content,    \* rows of other tables refer to it without a cascade
    sess,       \* UserSessionRecord rows
    rows,       \* preferences, subscription and webhook exist
    sub, hook,  \* BillingSubscription, UserWebhook
    invoices,   \* number of BillingInvoice rows
    key,        \* the UserApiKey, 0 when there is none
    totp,       \* totp_secret and totp_enabled
    held,       \* the token pair each client holds, 0 when signed out
    req,        \* the request in each slot
    issued,     \* token pairs, keys and secrets generated so far
    requests, faults,
    shown,      \* history: the API key last shown to the user
    proved,     \* history: secrets a code was verified with
    cut,        \* history: clients whose session was ended by others, by
                \* expiry, a lost answer or two of their requests at once
    astray,     \* history: session rows that a lost answer, expiry or two
                \* requests at once may have left without a client
    mixed       \* history: rows written by a request that had loaded an
                \* older one; "key" when a key was deleted and none returned

session  == <<sess, held, cut, astray>>
settings == <<rows, sub, hook, invoices, key, totp>>
hist     == <<shown, proved, mixed>>
vars     == <<user, content, session, settings, req, issued, requests, faults, hist>>

Ensuring == {"login", "settings", "pro", "free", "cancel", "webhook", "regenerate"}
Ops == Ensuring \cup {"none", "refresh", "setup", "enable", "disable", "delete"}
Hooks == [url : BOOLEAN, on : BOOLEAN]
Secrets == [secret : Nat, enabled : BOOLEAN]
Plans == [plan : {"free", "pro"}, paid : BOOLEAN, cancel : BOOLEAN]
Free == [plan |-> "free", paid |-> FALSE, cancel |-> FALSE]
Pro == [plan |-> "pro", paid |-> TRUE, cancel |-> FALSE]
NoHook == [url |-> FALSE, on |-> FALSE]
NoSecret == [secret |-> 0, enabled |-> FALSE]
Nothing == [none |-> 0]
\* What a deletion has found to delete.
Counted == [sessions : Nat, key : Nat, invoices : Nat, rows : BOOLEAN]
Idle == [op |-> "none", c |-> 0, pc |-> "idle", id |-> 0, at |-> 0, u |-> 0, lacks |-> {},
         was |-> Nothing, new |-> Nothing]
Row == [pair : Nat, c : Client, state : {"live", "revoked", "gone"}, expired : BOOLEAN]
NewRow(pair, c) == [pair |-> pair, c |-> c, state |-> "live", expired |-> FALSE]
First == CHOOSE c \in Client : TRUE

ReqTypes ==
    [op : Ops, c : Client \cup {0}, id : Nat, at : Nat, u : Nat,
     lacks : SUBSET {"rows", "key"},
     pc : {"idle", "create", "insert", "record", "write", "key", "answer"},
     was : {Nothing} \cup Plans \cup Hooks \cup Secrets \cup Counted,
     new : {Nothing} \cup Hooks]

TypeOK ==
    /\ user \in Nat /\ content \in BOOLEAN /\ rows \in BOOLEAN
    /\ sess \in Seq(Row)
    /\ sub \in Plans /\ hook \in Hooks /\ totp \in Secrets
    /\ invoices \in Nat /\ key \in Nat /\ shown \in Nat /\ proved \subseteq Nat
    /\ held \in [Client -> Nat]
    /\ req \in [Slot -> ReqTypes]
    /\ issued \in Nat /\ requests \in 0..MaxRequests /\ faults \in 0..MaxFaults
    /\ cut \subseteq Client /\ astray \subseteq Nat
    /\ mixed \subseteq {"sub", "hook", "totp", "key"}

\* Before the first sign-in there is no user; an account kept for a while has
\* its rows and may have a verified second factor.
Init ==
    /\ \/ user = 0 /\ rows = FALSE /\ key = 0 /\ totp = NoSecret /\ content = FALSE
       \/ /\ user = 1 /\ rows = TRUE /\ key = 1 /\ content \in BOOLEAN
          /\ totp \in {NoSecret, [secret |-> 2, enabled |-> FALSE], [secret |-> 2, enabled |-> TRUE]}
    /\ proved = {2} /\ issued = 3
    /\ sub = Free /\ hook = NoHook /\ invoices = 0
    /\ sess = IF user # 0 THEN <<NewRow(3, First)>> ELSE <<>>
    /\ held = [c \in Client |-> IF user # 0 /\ c = First THEN 3 ELSE 0]
    /\ req = [p \in Slot |-> Idle] /\ requests = 0 /\ faults = 0
    /\ shown = 0 /\ cut = {} /\ astray = {} /\ mixed = {}

-----------------------------------------------------------------------------
(* Helpers *)

RowsOf(c) == {i \in DOMAIN sess : sess[i].pair = held[c] /\ held[c] # 0}
Live(c) == {i \in RowsOf(c) : sess[i].state = "live"}
Refreshing(c) == \E p \in Slot : req[p].op = "refresh" /\ req[p].c = c
Owners(is) == {sess[i].c : i \in is}
\* A request of a client that has a refresh under way.
Overlaps(c) ==
    IF Refreshing(c)
    THEN cut' = cut \cup {c} /\ astray' = astray \cup {i \in DOMAIN sess : sess[i].c = c}
    ELSE UNCHANGED <<cut, astray>>
Fault == faults < MaxFaults /\ faults' = faults + 1
Asked == requests < MaxRequests /\ requests' = requests + 1
Ends(p) == req' = [req EXCEPT ![p] = Idle]

\* A unit of work commits the columns that differ from what it loaded.
Merge(was, new, row) ==
    [f \in DOMAIN row |-> IF new[f] # was[f] THEN new[f] ELSE row[f]]
Mixes(name, was, row) == mixed' = IF was = row THEN mixed ELSE mixed \cup {name}

\* get_current_user: the subject exists and the jti is not a revoked one.  A
\* jti that was rotated away has no row, and passes.
Authenticated(c) ==
    held[c] # 0 /\ user # 0 /\ \A i \in RowsOf(c) : sess[i].state # "revoked"

\* What ensure_user_settings finds missing.
Missing == (IF rows THEN {} ELSE {"rows"}) \cup (IF key = 0 THEN {"key"} ELSE {})

\* The row a request works from once the settings are there.
Loaded(r, k) ==
    CASE r.op = "login" -> [r EXCEPT !.pc = "record"]
      [] r.op \in {"pro", "free"} -> [r EXCEPT !.pc = "write", !.was = sub]
      [] r.op = "cancel" /\ sub.plan = "pro" -> [r EXCEPT !.pc = "write", !.was = sub]
      [] r.op = "webhook" -> [r EXCEPT !.pc = "write", !.was = hook]
      [] r.op = "regenerate" -> [r EXCEPT !.pc = "write", !.id = k]
      [] OTHER -> Idle

Enters(p, r) ==
    req' = [req EXCEPT ![p] = IF Missing = {} THEN Loaded(r, key)
                              ELSE [r EXCEPT !.pc = "insert", !.lacks = Missing]]

-----------------------------------------------------------------------------
(* Sessions *)

\* The callback of the provider, up to the lookup of the user.
Login(p, c) ==
    LET r == [Idle EXCEPT !.op = "login", !.c = c, !.u = user] IN
    /\ req[p].pc = "idle" /\ held[c] = 0 /\ Asked
    /\ IF user # 0 THEN Enters(p, r) ELSE req' = [req EXCEPT ![p] = [r EXCEPT !.pc = "create"]]
    /\ UNCHANGED <<user, content, session, settings, issued, faults, hist>>

\* get_or_create_oauth_user inserts the user: the e-mail address is unique.
CreateUser(p) ==
    /\ req[p].pc = "create"
    /\ IF user # 0 THEN Ends(p) /\ UNCHANGED <<user, issued>>
       ELSE /\ user' = issued + 1 /\ issued' = issued + 1
            /\ req' = [req EXCEPT ![p].pc = "insert", ![p].lacks = Missing, ![p].u = user']
    /\ UNCHANGED <<content, session, settings, requests, faults, hist>>

\* The missing rows in one commit; user_id is unique in each table.
EnsureInsert(p) ==
    LET r == req[p]
        k == IF "key" \in r.lacks THEN issued + 1 ELSE key
    IN
    /\ r.pc = "insert"
    /\ IF user = r.u /\ r.lacks \subseteq Missing
       THEN /\ rows' = TRUE /\ key' = k
            /\ issued' = IF "key" \in r.lacks THEN k ELSE issued
            /\ req' = [req EXCEPT ![p] = Loaded([r EXCEPT !.lacks = {}], k)]
       ELSE Ends(p) /\ UNCHANGED <<rows, key, issued>>
    /\ UNCHANGED <<user, content, session, sub, hook, invoices, totp, requests, faults, hist>>

\* register_user_session, and the redirect that carries the tokens.
RecordSession(p) ==
    LET c == req[p].c IN
    /\ req[p].pc = "record" /\ Ends(p)
    /\ IF user = req[p].u
       THEN /\ issued' = issued + 1 /\ sess' = Append(sess, NewRow(issued + 1, c))
            /\ \/ /\ held' = [held EXCEPT ![c] = issued + 1]
                  /\ astray' = astray \cup Live(c)
                               \cup (IF Refreshing(c) THEN {Len(sess')} ELSE {})
                  /\ cut' = IF Refreshing(c) THEN cut \cup {c} ELSE cut \ {c}
                  /\ UNCHANGED faults
               \/ Fault /\ astray' = astray \cup {Len(sess')} /\ UNCHANGED <<held, cut>>
       ELSE UNCHANGED <<session, issued, faults>>
    /\ UNCHANGED <<user, content, settings, requests, hist>>

\* refresh_session up to the lookup; without a live row the client is told to
\* sign in again.
Refresh(p, c) ==
    LET found == {i \in Live(c) : ~sess[i].expired} IN
    /\ req[p].pc = "idle" /\ held[c] # 0 /\ Asked
    /\ IF found = {}
       THEN held' = [held EXCEPT ![c] = 0] /\ UNCHANGED req
       ELSE \E i \in found :
            /\ req' = [req EXCEPT ![p] = [Idle EXCEPT !.op = "refresh", !.c = c,
                                                      !.pc = "write", !.at = i]]
            /\ UNCHANGED held
    /\ Overlaps(c)
    /\ UNCHANGED <<user, content, sess, settings, issued, faults, hist>>

\* The new pair goes into the row that was found, revoked meanwhile or not.
RotatedWhole(row, pair) == NewRow(pair, row.c)
Rotated(row, pair) == [row EXCEPT !.pair = pair, !.expired = FALSE]

RefreshCommit(p) ==
    LET i == req[p].at IN
    /\ req[p].op = "refresh" /\ req[p].pc = "write"
    /\ IF sess[i].state = "gone" THEN Ends(p) /\ UNCHANGED <<sess, issued>>
       ELSE /\ issued' = issued + 1
            /\ sess' = [sess EXCEPT ![i] = Rotated(@, issued + 1)]
            /\ req' = [req EXCEPT ![p].pc = "answer", ![p].id = issued + 1]
    /\ UNCHANGED <<user, content, held, cut, astray, settings, requests, faults, hist>>

\* The client takes the new pair, or the answer is lost on the way.
RefreshAnswer(p) ==
    LET r == req[p] IN
    /\ r.op = "refresh" /\ r.pc = "answer" /\ Ends(p)
    /\ \/ held' = [held EXCEPT ![r.c] = r.id] /\ UNCHANGED <<cut, astray, faults>>
       \/ /\ Fault /\ UNCHANGED held
          /\ cut' = cut \cup {r.c} /\ astray' = astray \cup {r.at}
    /\ UNCHANGED <<user, content, sess, settings, issued, requests, hist>>

\* logout_session: the row that has the hash; the client forgets its tokens.
LogoutRows(c) == RowsOf(c)
Revoked(is) == [i \in DOMAIN sess |->
                  IF i \in is /\ sess[i].state = "live" THEN [sess[i] EXCEPT !.state = "revoked"]
                  ELSE sess[i]]

Logout(c) ==
    /\ held[c] # 0 /\ Asked
    /\ sess' = Revoked(LogoutRows(c)) /\ held' = [held EXCEPT ![c] = 0]
    /\ Overlaps(c)
    /\ UNCHANGED <<user, content, settings, req, issued, faults, hist>>

\* revoke_session, on a row of the list.
RevokeSession(c, i) ==
    /\ Authenticated(c) /\ Asked /\ sess[i].state # "gone"
    /\ sess' = Revoked({i}) /\ cut' = cut \cup Owners({i})
    /\ UNCHANGED <<user, content, held, astray, settings, req, issued, faults, hist>>

\* revoke_other_sessions: every live row but the one with the caller's jti.
OthersAll(c) == {i \in DOMAIN sess : sess[i].state = "live"}
OthersThan(c) == {i \in DOMAIN sess : sess[i].state = "live" /\ sess[i].pair # held[c]}

RevokeOthers(c) ==
    /\ Authenticated(c) /\ Asked
    /\ sess' = Revoked(OthersThan(c))
    /\ cut' = cut \cup (Owners(OthersThan(c)) \ {c}) \cup (IF Refreshing(c) THEN {c} ELSE {})
    /\ UNCHANGED <<user, content, held, astray, settings, req, issued, faults, hist>>

Expire(i) ==
    /\ Fault /\ sess[i].state = "live" /\ ~sess[i].expired
    /\ sess' = [sess EXCEPT ![i].expired = TRUE]
    /\ cut' = cut \cup Owners({i}) /\ astray' = astray \cup {i}
    /\ UNCHANGED <<user, content, held, settings, req, issued, requests, hist>>

-----------------------------------------------------------------------------
(* Settings *)

\* A request on the settings: authenticated, the rows ensured, its row loaded.
Ask(p, c, op) ==
    /\ req[p].pc = "idle" /\ Authenticated(c) /\ Asked
    /\ \E new \in (IF op = "webhook" THEN {h \in Hooks : h.on => h.url} ELSE {Nothing}) :
         Enters(p, [Idle EXCEPT !.op = op, !.c = c, !.u = user, !.new = new])
    /\ UNCHANGED <<user, content, session, settings, issued, faults, hist>>

\* change_billing_plan and cancel_subscription.
NewPlan(op, was) == CASE op = "pro" -> Pro
                      [] op = "free" -> Free
                      [] op = "cancel" -> [was EXCEPT !.cancel = TRUE]

\* Every change to the paid plan adds three invoices, in the same commit.
Seeded(op) == IF op = "pro" THEN 3 ELSE 0

ChangePlan(p) ==
    LET r == req[p] IN
    /\ r.op \in {"pro", "free", "cancel"} /\ r.pc = "write" /\ Ends(p)
    /\ IF rows /\ user = r.u
       THEN /\ sub' = Merge(r.was, NewPlan(r.op, r.was), sub) /\ Mixes("sub", r.was, sub)
            /\ invoices' = invoices + Seeded(r.op)
       ELSE UNCHANGED <<sub, invoices, mixed>>
    /\ UNCHANGED <<user, content, session, rows, hook, key, totp, issued, requests, faults,
                   shown, proved>>

\* update_webhook: enabled only with an address.
WebhookSet(new) == new
UpdateWebhook(p) ==
    LET r == req[p] IN
    /\ r.op = "webhook" /\ r.pc = "write" /\ Ends(p)
    /\ IF rows /\ user = r.u
       THEN hook' = Merge(r.was, WebhookSet(r.new), hook) /\ Mixes("hook", r.was, hook)
       ELSE UNCHANGED <<hook, mixed>>
    /\ UNCHANGED <<user, content, session, rows, sub, invoices, key, totp, issued, requests,
                   faults, shown, proved>>

\* regenerate_api_key: the old key goes in a commit of its own.
DeleteKey(p) ==
    LET r == req[p] IN
    /\ r.op = "regenerate" /\ r.pc = "write"
    /\ key' = IF key = r.id THEN 0 ELSE key
    /\ req' = [req EXCEPT ![p].pc = "key"]
    /\ UNCHANGED <<user, content, session, rows, sub, hook, invoices, totp, issued, requests,
                   faults, hist>>

\* The insert fails when the user or the place for the key is gone.
CreateKey(p) ==
    /\ req[p].pc = "key" /\ Ends(p)
    /\ IF user = req[p].u /\ key = 0
       THEN key' = issued + 1 /\ shown' = issued + 1 /\ issued' = issued + 1 /\ UNCHANGED mixed
       ELSE mixed' = mixed \cup {"key"} /\ UNCHANGED <<key, shown, issued>>
    /\ UNCHANGED <<user, content, session, rows, sub, hook, invoices, totp, requests, faults,
                   proved>>

\* The second factor, with the user row as the request has loaded it.
MayBeginAlways(t) == TRUE
MayBegin(t) == ~t.enabled
TwoFactor(p, c, op) ==
    /\ req[p].pc = "idle" /\ Authenticated(c) /\ Asked
    /\ CASE op = "setup" -> MayBegin(totp)
         [] op = "enable" -> totp.secret # 0
         [] op = "disable" -> totp.enabled /\ totp.secret # 0
    /\ req' = [req EXCEPT ![p] = [Idle EXCEPT !.op = op, !.c = c, !.u = user, !.pc = "write", !.was = totp]]
    /\ UNCHANGED <<user, content, session, settings, issued, faults, hist>>

\* begin_two_factor_setup, enable_two_factor (a code of the secret it loaded
\* was right) and disable_two_factor.
NewTotp(op, was, fresh) == CASE op = "setup" -> [was EXCEPT !.secret = fresh]
                             [] op = "enable" -> [was EXCEPT !.enabled = TRUE]
                             [] op = "disable" -> NoSecret

TwoFactorCommit(p) ==
    LET r == req[p] IN
    /\ r.op \in {"setup", "enable", "disable"} /\ r.pc = "write" /\ Ends(p)
    /\ IF user = r.u
       THEN /\ totp' = Merge(r.was, NewTotp(r.op, r.was, issued + 1), totp)
            /\ Mixes("totp", r.was, totp)
            /\ proved' = IF r.op = "enable" THEN proved \cup {r.was.secret} ELSE proved
            /\ issued' = IF r.op = "setup" THEN issued + 1 ELSE issued
       ELSE UNCHANGED <<totp, mixed, proved, issued>>
    /\ UNCHANGED <<user, content, session, rows, sub, hook, invoices, key, requests, faults,
                   shown>>

\* delete_account: the deletes of the dependent rows, up to the user's.
Delete(p, c) ==
    /\ req[p].pc = "idle" /\ Authenticated(c) /\ Asked
    /\ req' = [req EXCEPT ![p] =
         [Idle EXCEPT !.op = "delete", !.c = c, !.u = user, !.pc = "write",
                      !.was = [sessions |-> Len(sess), key |-> key, invoices |-> invoices,
                               rows |-> rows]]]
    /\ UNCHANGED <<user, content, session, settings, issued, faults, hist>>

\* A row added since, or one no delete covers, still refers to the user: the
\* database refuses, and all of it is rolled back.
ReferredNot(was) == content
Referred(was) ==
    content \/ Len(sess) > was.sessions \/ key \notin {0, was.key}
    \/ invoices > was.invoices \/ (rows /\ ~was.rows)

DeleteCommit(p) ==
    LET was == req[p].was IN
    /\ req[p].op = "delete" /\ req[p].pc = "write" /\ Ends(p)
    /\ IF user = req[p].u /\ ~Referred(was)
       THEN /\ user' = 0 /\ rows' = FALSE /\ key' = (IF key = was.key THEN 0 ELSE key)
            /\ invoices' = invoices - was.invoices
            /\ sub' = Free /\ hook' = NoHook /\ totp' = NoSecret
            /\ sess' = [i \in DOMAIN sess |-> IF i <= was.sessions
                                              THEN [sess[i] EXCEPT !.state = "gone"] ELSE sess[i]]
            /\ cut' = Client /\ shown' = 0
       ELSE UNCHANGED <<user, rows, key, invoices, sub, hook, totp, sess, cut, shown>>
    /\ UNCHANGED <<content, held, astray, issued, requests, faults, proved, mixed>>

\* The process dies: a request ends where it is.
Die(p) ==
    /\ req[p].pc # "idle" /\ Fault /\ Ends(p)
    /\ mixed' = IF req[p].pc = "key" THEN mixed \cup {"key"} ELSE mixed
    /\ IF req[p].pc = "answer"
       THEN cut' = cut \cup {req[p].c} /\ astray' = astray \cup {req[p].at}
       ELSE UNCHANGED <<cut, astray>>
    /\ UNCHANGED <<user, content, sess, held, settings, issued, requests, shown, proved>>

-----------------------------------------------------------------------------
(* Specification *)

NextSession ==
    \/ \E p \in Slot :
         \/ CreateUser(p) \/ EnsureInsert(p) \/ RecordSession(p)
         \/ RefreshCommit(p) \/ RefreshAnswer(p) \/ Die(p)
         \/ \E c \in Client : Login(p, c) \/ Refresh(p, c)
    \/ \E c \in Client : Logout(c) \/ RevokeOthers(c)
                         \/ \E i \in DOMAIN sess : RevokeSession(c, i)
    \/ \E i \in DOMAIN sess : Expire(i)

NextSettings ==
    \E p \in Slot :
      \/ \E c \in Client : \/ \E op \in Ensuring \ {"login"} : Ask(p, c, op)
                           \/ \E op \in {"setup", "enable", "disable"} : TwoFactor(p, c, op)
                           \/ Delete(p, c)
      \/ ChangePlan(p) \/ UpdateWebhook(p) \/ DeleteKey(p) \/ CreateKey(p)
      \/ TwoFactorCommit(p) \/ DeleteCommit(p)

Next == NextSession \/ NextSettings
Spec == Init /\ [][Next]_vars

-----------------------------------------------------------------------------
(* Properties *)

\* A client that holds tokens can go on refreshing them: its row is live and
\* has its pair, unless others ended the session, an answer was lost, or two
\* of its own requests overlapped.
HeldIsCurrent ==
    \A c \in Client : held[c] # 0 /\ c \notin cut /\ ~Refreshing(c) => Live(c) # {}

\* A session that the list shows belongs to a client: signing out ends the
\* row, and no rotation leaves one behind, but for the same exceptions.
LiveIsHeld ==
    \A i \in DOMAIN sess : sess[i].state = "live" /\ i \notin astray =>
      held[sess[i].c] = sess[i].pair \/ Refreshing(sess[i].c)

\* A revoked session stays revoked, whatever refresh was under way.
RevokedForGood ==
    [][\A i \in DOMAIN sess : sess[i].state # "live" => sess'[i].state # "live"]_vars

\* The key the user was shown last is the key that is stored, unless a
\* regeneration could not finish.
ShownKeyIsStored ==
    shown # 0 /\ "key" \notin mixed /\ (\A p \in Slot : req[p].pc # "key") => key = shown

\* A second factor that is on can be answered: its secret was verified, unless
\* two requests overlapped on the user row.
EnabledIsProved == totp.enabled /\ "totp" \notin mixed => totp.secret \in proved \ {0}

\* The subscription is one of those the code composes, and an account that was
\* charged has its invoices, unless two requests overlapped on the row.
PlanIsWhole ==
    "sub" \notin mixed =>
      /\ sub \in {Free, Pro, [Pro EXCEPT !.cancel = TRUE]}
      /\ sub.plan = "pro" => invoices >= 3

\* An enabled webhook has an address, unless two requests overlapped on it.
HookHasUrl == hook.on /\ "hook" \notin mixed => hook.url

\* A deleted account leaves no session, key, invoice or settings behind,
\* whichever requests were under way.
DeletedLeavesNothing ==
    user = 0 => ~rows /\ key = 0 /\ invoices = 0 /\ \A i \in DOMAIN sess : sess[i].state = "gone"

\* Clients and the session list agree.
SessionsHold == TypeOK /\ HeldIsCurrent /\ LiveIsHeld

\* The rows of the settings agree with one another and with what was shown.
SettingsAgree == ShownKeyIsStored /\ EnabledIsProved /\ PlanIsWhole /\ HookHasUrl

=============================================================================
