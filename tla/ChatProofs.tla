----------------------------- MODULE ChatProofs -----------------------------
(***************************************************************************)
(* Proofs about Chat and Library, for any number of requests at once, any  *)
(* scenes, requests and faults: documents, collections and folders stay    *)
(* whole, the conversation keeps what turns have done, and the title is    *)
(* refined once and never after a name of the user.                        *)
(***************************************************************************)
EXTENDS Chat, FiniteSetTheorems, FunctionTheorems, SequenceTheorems, TLAPS

-----------------------------------------------------------------------------
(* The inductive invariant of the library *)

TurnOps == {"stream", "chat"}
Ops == TurnOps \cup
    {"none", "upload", "delete_document", "move_document", "rename_collection", "delete_collection",
     "create_folder", "organize", "delete_session", "refine_title"}
TurnSteps == {"route", "save", "read", "find", "insert", "update", "count", "refine"}
Steps == TurnSteps \cup {"idle", "default", "index", "unlink", "row", "commit", "move", "clean"}
Words == Names \cup {"", "pin", "unpin", "refusal"}
Request == [op : Ops, pc : Steps, of : Nat, to : Nat, new : Words, found : SUBSET Nat]

LibTyped ==
    /\ chat \in BOOLEAN /\ docs \in Seq(Docs) /\ colls \in Seq(Named) /\ folders \in Seq(Named)
    /\ place \in [folder : Nat, pinned : BOOLEAN] /\ place.folder <= Len(folders)
    /\ req \in [Slot -> Request] /\ scene \in Scenes
    /\ requests \in 0..MaxRequests /\ faults \in 0..MaxFaults
    /\ astray \subseteq DOMAIN docs /\ hollow \subseteq DOMAIN docs /\ odd \in BOOLEAN

\* What a request holds fits the step it is at.
Fits(r) ==
    /\ r.op \in TurnOps => r.pc \in TurnSteps
    /\ r.pc = "default" => r.op \in {"upload", "delete_collection"}
    /\ r.op \in {"create_folder", "rename_collection"} => r.new \in Names
    /\ r.found \subseteq DOMAIN docs
    /\ (r.op \in {"delete_document", "move_document"} \/ (r.op = "upload" /\ r.pc = "index"))
         => r.of \in DOMAIN docs
    /\ r.op \in {"rename_collection", "delete_collection"} => r.of \in DOMAIN colls
    /\ r.op = "delete_collection" /\ r.pc = "move" => r.to \in DOMAIN colls
LibForms == \A p \in Slot : Fits(req[p])

\* Externals without a row will be removed or are known, and a row without its
\* externals goes or is known; nothing listed is in the hands of a clean-up.
Cleans(p, d) == At(p, "delete_session", "clean") /\ d \in req[p].found
Removes(p, d) == At(p, "delete_document", "row") /\ req[p].of = d
ExternalsKept == \A d \in DOMAIN docs :
    docs[d].ext /\ ~ docs[d].row => d \in astray \/ \E p \in Slot : Cleans(p, d)
RowsKept == \A d \in DOMAIN docs :
    docs[d].row /\ ~ docs[d].ext => d \in hollow \/ \E p \in Slot : Removes(p, d)
RemovedIsKnown == \A p \in Slot, d \in DOMAIN docs : Removes(p, d) /\ docs[d].ext => d \in astray
CleanedIsGone == \A p \in Slot, d \in DOMAIN docs : Cleans(p, d) => ~ docs[d].row
NothingListed == ~ chat => \A d \in DOMAIN docs : ~ docs[d].row
DocInv == ExternalsKept /\ RowsKept /\ RemovedIsKnown /\ CleanedIsGone /\ NothingListed

\* A request that adds the Default is alone and there is none; a deletion has
\* found it, and spares it; a renaming changes it for itself only.
IsDefault(c) == colls[c].name = "Default"
Adds(p) == req[p].pc = "default"
OneDefault == \A c, e \in DOMAIN colls : c \in Defaults /\ e \in Defaults => c = e
DefaultStays == (\E c \in DOMAIN colls : IsDefault(c) \/ ~ colls[c].row) => \E c \in DOMAIN colls : c \in Defaults
AddsAlone == \A p, q \in Slot :
    Adds(p) => (\A c \in DOMAIN colls : c \notin Defaults) /\ (Adds(q) => p = q)
NamesDefault == \A p \in Slot :
    req[p].op = "rename_collection" => (IsDefault(req[p].of) <=> req[p].new = "Default")
SparesDefault == \A p \in Slot :
    req[p].op = "delete_collection" =>
        ~ IsDefault(req[p].of) /\ (req[p].pc = "move" => IsDefault(req[p].to))
DefaultKept == OneDefault /\ DefaultStays /\ AddsAlone /\ NamesDefault /\ SparesDefault
CollInv == DocumentIsPlaced /\ (~ odd => DefaultKept)

LibInv == LibTyped /\ LibForms /\ DocInv /\ CollInv /\ FolderIsThere

-----------------------------------------------------------------------------
(* The inductive invariants of the turns *)

Past == {"read", "find", "insert", "update", "count", "refine"}
Before == {"route", "save", "read", "find", "insert", "update"}
IsSaved(role, t) == \E i \in DOMAIN msgs : msgs[i] = [role |-> role, turn |-> t]

\* Each turn has a number of its own and saves each message once.
TurnNumbers ==
    /\ \A p \in Turning : req[p].of \in 1..requests /\ req[p].of \notin done
    /\ \A p, q \in Turning : req[p].of = req[q].of => p = q
    /\ done \subseteq 1..requests
SavedOnce ==
    /\ \A i \in DOMAIN msgs : msgs[i].turn <= requests
    /\ \A i, j \in DOMAIN msgs : msgs[i] = msgs[j] => i = j
    /\ \A p \in Turning : req[p].pc \in {"route", "save"} => ~ IsSaved("assistant", req[p].of)
TurnTyped ==
    /\ TypeOK
    /\ \A p \in Turning : req[p].pc \in {"find", "insert", "update"} => req[p].to \in Covers
    /\ TurnNumbers /\ SavedOnce

\* A turn past its save has its answer saved while the session exists, and its
\* usage, its refusal or the loss of the rows from then on.
AnswerKept == \A p \in Turning :
    /\ chat /\ req[p].pc \in Past => IsSaved("assistant", req[p].of)
    /\ req[p].pc \in Past \/ (chat /\ req[p].pc = "save") => req[p].of \in usage \cup refusals \cup lost

\* A turn that has not overlapped is alone, reads the whole conversation and
\* its summary covers it.
Alone == \A p \in Turning : p \notin over => Turning = {p}
ReadsAll == \A p \in Turning :
    chat /\ p \notin over /\ req[p].pc \in {"find", "insert", "update"} => req[p].to = Len(msgs)
SumKept ==
    chat /\ ~ lag => sum = Len(msgs) \/ \E p \in Turning : req[p].pc \in Before
SumInv == Alone /\ ReadsAll /\ SumKept

SilentIsDone == silent \subseteq done
TurnInv == AnswerKept /\ SilentIsDone /\ DoneIsAnswered /\ DoneIsCounted /\ SumInv /\ DeletedIsEmpty

\* The turn with the first answer is the one that refines the title.
Leads(s, t) == \E i \in DOMAIN s :
    s[i] = [role |-> "assistant", turn |-> t] /\ \A j \in DOMAIN s : j < i => s[j].role = "user"
IsFirst(t) == Leads(msgs, t)
RefinedKept ==
    /\ refined \in {0, 1}
    /\ chat => \A p \in Turning : req[p].pc = "refine" => IsFirst(req[p].of)
    /\ chat /\ refined = 1 => \E t \in done : IsFirst(t)

\* A name that stays was given after an answer, and the next one is the second.
Answered == \E i \in DOMAIN msgs : msgs[i].role = "assistant"
AnsweredTwice == \E i, j \in DOMAIN msgs :
    i # j /\ msgs[i].role = "assistant" /\ msgs[j].role = "assistant"
NameKept ==
    kept => /\ title = "user"
            /\ chat => /\ Answered
                       /\ \A p \in Turning : req[p].pc \in Past => AnsweredTwice /\ req[p].pc # "refine"

TitleInv == RefinedKept /\ NameKept

-----------------------------------------------------------------------------
(* Sequences, small sets and requests *)

\* A sequence gains an element at its end.
LEMMA Appended ==
    ASSUME NEW S, NEW q \in Seq(S), NEW e \in S, NEW r, r = Append(q, e)
    PROVE  /\ r \in Seq(S) /\ Len(q) \in Nat /\ Len(r) = Len(q) + 1
           /\ DOMAIN q = 1..Len(q) /\ DOMAIN r = 1..(Len(q) + 1)
           /\ \A i \in DOMAIN q : i \in DOMAIN r /\ r[i] = q[i] /\ i # Len(q) + 1
           /\ r[Len(q) + 1] = e
<1>1. Len(q) \in Nat /\ DOMAIN q = 1..Len(q)
  BY LenProperties
<1>2. /\ Append(q, e) \in Seq(S)
      /\ Len(Append(q, e)) = Len(q) + 1
      /\ \A i \in 1 .. Len(q) : Append(q, e)[i] = q[i]
      /\ Append(q, e)[Len(q) + 1] = e
  BY AppendProperties
<1>3. DOMAIN r = 1..Len(r)
  BY <1>2, LenProperties
<1> QED
  BY <1>1, <1>2, <1>3

\* A function over the positions of a sequence is one.
LEMMA Changed ==
    ASSUME NEW S, NEW q \in Seq(S), NEW r, DOMAIN r = DOMAIN q, r = [i \in DOMAIN q |-> r[i]],
           \A i \in DOMAIN q : r[i] \in S
    PROVE  r \in Seq(S) /\ Len(r) = Len(q)
<1>1. Len(q) \in Nat /\ DOMAIN q = 1..Len(q)
  BY LenProperties
<1>2. r \in [1..Len(q) -> S]
  BY <1>1
<1>3. r \in Seq(S)
  BY <1>1, <1>2
<1>4. DOMAIN r = 1..Len(r) /\ Len(r) \in Nat
  BY <1>3, LenProperties
<1> QED
  BY <1>1, <1>3, <1>4

\* What positions of a sequence hold.
LEMMA Positions ==
    ASSUME NEW S, NEW q \in Seq(S)
    PROVE  /\ Len(q) \in Nat /\ DOMAIN q = 1..Len(q) /\ \A i \in DOMAIN q : q[i] \in S
  BY LenProperties, ElementOfSeq

\* A finite set without two elements has at most one.
LEMMA AtMostOne ==
    ASSUME NEW S, IsFiniteSet(S)
    PROVE  /\ (\A x, y \in S : x = y) <=> Cardinality(S) <= 1
           /\ Cardinality(S) = 1 <=> \E x \in S : S = {x}
           /\ Cardinality(S) \in Nat /\ (Cardinality(S) = 0 <=> S = {})
<1>1. Cardinality(S) \in Nat /\ (Cardinality(S) = 0 <=> S = {}) /\ (Cardinality(S) = 1 <=> \E x : S = {x})
  BY FS_CardinalityType, FS_EmptySet, FS_Singleton
<1>2. (\A x, y \in S : x = y) <=> S = {} \/ \E x \in S : S = {x}
  OBVIOUS
<1>3. Cardinality(S) <= 1 <=> Cardinality(S) = 0 \/ Cardinality(S) = 1
  BY <1>1
<1> QED
  BY <1>1, <1>2, <1>3


\* One request changes, the others stay as they are.
Turned(p, op, pc, of, to, new, found) ==
    /\ req' \in [Slot -> Request]
    /\ req'[p].op = op /\ req'[p].pc = pc /\ req'[p].of = of /\ req'[p].to = to
    /\ req'[p].new = new /\ req'[p].found = found
    /\ \A q \in Slot : q # p => req'[q] = req[q]

\* A request that is replaced leaves the others as they are.
LEMMA TurnsOne ==
    ASSUME req \in [Slot -> Request], NEW p \in Slot, NEW r \in Request, req' = [req EXCEPT ![p] = r]
    PROVE  Turned(p, r.op, r.pc, r.of, r.to, r.new, r.found)
  BY DEF Turned

\* A request that goes to a step holds what the step names.
LEMMA GoesTurns ==
    ASSUME req \in [Slot -> Request], NEW p \in Slot, NEW op \in Ops, NEW pc \in Steps,
           NEW of \in Nat, NEW to \in Nat, Goes(p, op, pc, of, to)
    PROVE  Turned(p, op, pc, of, to, "", {})
<1> DEFINE r == [Idle EXCEPT !.op = op, !.pc = pc, !.of = of, !.to = to]
<1>1. r.op = op /\ r.pc = pc /\ r.of = of /\ r.to = to /\ r.new = "" /\ r.found = {}
  BY DEF Idle
<1>2. r \in Request
  BY Zenon DEF Idle, Request, Words
<1>3. req' = [req EXCEPT ![p] = r]
  BY DEF Goes
<1> HIDE DEF r
<1> QED
  BY <1>1, <1>2, <1>3, TurnsOne

\* A request that reads a row to write it holds the new value.
LEMMA WritesTurns ==
    ASSUME req \in [Slot -> Request], NEW p \in Slot, NEW op \in Ops, NEW of \in Nat, NEW new \in Words,
           Writes(p, op, of, new)
    PROVE  Turned(p, op, "commit", of, 0, new, {})
<1> DEFINE r == [Idle EXCEPT !.op = op, !.pc = "commit", !.of = of, !.new = new]
<1>1. r.op = op /\ r.pc = "commit" /\ r.of = of /\ r.to = 0 /\ r.new = new /\ r.found = {}
  BY DEF Idle
<1>2. r \in Request
  BY Zenon DEF Idle, Request, Steps
<1>3. req' = [req EXCEPT ![p] = r]
  BY DEF Writes
<1> HIDE DEF r
<1> QED
  BY <1>1, <1>2, <1>3, TurnsOne

\* The idle request is one, and holds nothing.
LEMMA IdleTyped ==
    /\ Idle \in Request
    /\ Idle.op = "none" /\ Idle.pc = "idle" /\ Idle.of = 0 /\ Idle.to = 0 /\ Idle.new = "" /\ Idle.found = {}
<1>1. Idle \in Request
  BY Zenon DEF Idle, Request, Ops, Steps, Words
<1>2. Idle.op = "none" /\ Idle.pc = "idle" /\ Idle.of = 0 /\ Idle.to = 0 /\ Idle.new = "" /\ Idle.found = {}
  BY DEF Idle
<1> QED
  BY <1>1, <1>2

\* A request that ends is idle.
LEMMA EndsTurns ==
    ASSUME req \in [Slot -> Request], NEW p \in Slot, Ends(p)
    PROVE  Turned(p, "none", "idle", 0, 0, "", {})
<1>1. Turned(p, Idle.op, Idle.pc, Idle.of, Idle.to, Idle.new, Idle.found)
  BY IdleTyped, TurnsOne DEF Ends
<1> QED
  BY <1>1, IdleTyped

\* A request that goes to its next step keeps what it holds.
LEMMA StepTurns ==
    ASSUME req \in [Slot -> Request], NEW p \in Slot, NEW pc \in Steps, req' = [req EXCEPT ![p].pc = pc]
    PROVE  Turned(p, req[p].op, pc, req[p].of, req[p].to, req[p].new, req[p].found)
<1> DEFINE r == [req[p] EXCEPT !.pc = pc]
<1>1. req[p] \in Request
  OBVIOUS
<1>2. r \in Request
  BY <1>1, ZenonT(60) DEF Request
<1>3. /\ r.op = req[p].op /\ r.pc = pc /\ r.of = req[p].of /\ r.to = req[p].to
      /\ r.new = req[p].new /\ r.found = req[p].found
  BY <1>1 DEF Request
<1>4. req' = [req EXCEPT ![p] = r]
  OBVIOUS
<1> HIDE DEF r
<1> QED
  BY <1>2, <1>3, <1>4, TurnsOne

-----------------------------------------------------------------------------
(* What a step leaves alone *)

Others(p) == \A q \in Slot : q # p => req'[q] = req[q]
Clears(r) == (r.op = "delete_session" /\ r.pc = "clean") \/ (r.op = "delete_document" /\ r.pc = "row")

\* Only the request that a step changes can come to hold something else.
LEMMA FormsFrame ==
    ASSUME LibForms, NEW p \in Slot, Others(p), DOMAIN docs \subseteq DOMAIN docs', DOMAIN colls \subseteq DOMAIN colls',
           Fits(req[p])'
    PROVE  LibForms'
<1> SUFFICES ASSUME NEW q \in Slot PROVE Fits(req[q])'
  BY DEF LibForms
<1>1. CASE q = p
  BY <1>1
<1>2. CASE q # p
  <2>1. req'[q] = req[q] /\ Fits(req[q])
    BY <1>2 DEF Others, LibForms
  <2> QED
    BY <2>1 DEF Fits
<1> QED
  BY <1>1, <1>2

\* A step that touches no document, of a request that removes none, keeps what
\* is known of them.
LEMMA DocFrame ==
    ASSUME DocInv, NEW p \in Slot, Others(p), UNCHANGED <<docs, astray, hollow>>, chat' = chat,
           ~ Clears(req[p]), ~ Clears(req'[p])
    PROVE  DocInv'
<1>1. \A q \in Slot, d \in DOMAIN docs : (Cleans(q, d)' <=> Cleans(q, d)) /\ (Removes(q, d)' <=> Removes(q, d))
  <2> SUFFICES ASSUME NEW q \in Slot, NEW d \in DOMAIN docs
               PROVE  (Cleans(q, d)' <=> Cleans(q, d)) /\ (Removes(q, d)' <=> Removes(q, d))
    OBVIOUS
  <2>1. CASE q = p
    BY <2>1 DEF Cleans, Removes, At, Clears
  <2>2. CASE q # p
    BY <2>2 DEF Cleans, Removes, At, Others
  <2> QED
    BY <2>1, <2>2
<1> QED
  BY <1>1 DEF DocInv, ExternalsKept, RowsKept, RemovedIsKnown, CleanedIsGone, NothingListed

\* What a request holds of the collections is sound.
SoundColl(p) ==
    /\ Adds(p) => (\A c \in DOMAIN colls : c \notin Defaults) /\ \A q \in Slot : Adds(q) => p = q
    /\ req[p].op = "rename_collection" => (IsDefault(req[p].of) <=> req[p].new = "Default")
    /\ req[p].op = "delete_collection" =>
         ~ IsDefault(req[p].of) /\ (req[p].pc = "move" => IsDefault(req[p].to))

\* A step that leaves the collections alone keeps the Default one.
LEMMA DefaultFrame ==
    ASSUME ~ odd => DefaultKept, NEW p \in Slot, Others(p), colls' = colls,
           ~ odd' => ~ odd /\ SoundColl(p)'
    PROVE  ~ odd' => DefaultKept'
<1> SUFFICES ASSUME ~ odd' PROVE DefaultKept'
  OBVIOUS
<1>1. DefaultKept /\ SoundColl(p)'
  OBVIOUS
<1>2. Defaults' = Defaults
  BY DEF Defaults, Rows
<1>3. OneDefault' /\ DefaultStays'
  BY <1>1, <1>2 DEF DefaultKept, OneDefault, DefaultStays, IsDefault
<1>4. AddsAlone'
  <2> SUFFICES ASSUME NEW q \in Slot, NEW r \in Slot, Adds(q)'
               PROVE  ((\A c \in DOMAIN colls : c \notin Defaults) /\ (Adds(r) => q = r))'
    BY DEF AddsAlone
  <2>1. CASE q = p
    BY <1>1, <2>1 DEF SoundColl
  <2>2. CASE q # p
    BY <1>1, <1>2, <2>2 DEF SoundColl, DefaultKept, AddsAlone, Adds, Others
  <2> QED
    BY <2>1, <2>2
<1>5. NamesDefault'
  BY <1>1 DEF SoundColl, DefaultKept, NamesDefault, IsDefault, Others
<1>6. SparesDefault'
  BY <1>1 DEF SoundColl, DefaultKept, SparesDefault, IsDefault, Others
<1> QED
  BY <1>3, <1>4, <1>5, <1>6 DEF DefaultKept

\* Documents stay in a collection while neither of the two changes.
LEMMA PlacedFrame ==
    ASSUME DocumentIsPlaced, UNCHANGED <<docs, colls>>
    PROVE  DocumentIsPlaced'
  BY DEF DocumentIsPlaced, Owned, Rows, Stored

\* A request that holds nothing of the collections is sound of them.
LEMMA ApartFromColls ==
    ASSUME NEW p \in Slot, req'[p].pc # "default", req'[p].op \notin {"rename_collection", "delete_collection"}
    PROVE  SoundColl(p)'
  BY DEF SoundColl, Adds

\* The session's folder stays there while neither of the two changes.
LEMMA FolderFrame ==
    ASSUME FolderIsThere, UNCHANGED <<folders, place>>
    PROVE  FolderIsThere'
  BY DEF FolderIsThere, Rows

\* A step that touches no row: it asks, fails or finds.
LEMMA AskFrame ==
    ASSUME LibInv, NEW p \in Slot, Others(p), req' \in [Slot -> Request],
           UNCHANGED <<rows, scene, astray, hollow>>,
           requests' \in 0..MaxRequests, faults' \in 0..MaxFaults,
           ~ Clears(req[p]), ~ Clears(req'[p]), Fits(req[p])',
           odd' \in BOOLEAN, ~ odd' => ~ odd /\ SoundColl(p)'
    PROVE  LibInv'
<1>1. LibTyped'
  BY DEF LibInv, LibTyped, rows
<1>2. LibForms'
  BY FormsFrame DEF LibInv, rows
<1>3. DocInv'
  BY DocFrame DEF LibInv, rows
<1>4. CollInv'
  BY DefaultFrame, PlacedFrame DEF LibInv, rows, CollInv
<1>5. FolderIsThere'
  BY FolderFrame DEF LibInv, rows
<1> QED
  BY <1>1, <1>2, <1>3, <1>4, <1>5 DEF LibInv

\* A step of a request that touches no row keeps the invariant of the library.
LEMMA RowsFrame ==
    ASSUME LibInv, NEW p \in Slot, Others(p), req' \in [Slot -> Request], UNCHANGED <<rows, scene, excuses>>,
           requests' \in 0..MaxRequests, faults' \in 0..MaxFaults,
           ~ Clears(req[p]), ~ Clears(req'[p]), Fits(req[p])',
           req'[p].pc # "default", req'[p].op \notin {"rename_collection", "delete_collection"}
    PROVE  LibInv'
<1>1. SoundColl(p)' /\ odd' = odd /\ odd \in BOOLEAN
  BY ApartFromColls DEF LibInv, LibTyped, excuses
<1> QED
  BY <1>1, AskFrame DEF excuses

\* What the invariant says of the types, taken apart.
LEMMA LibFacts ==
    ASSUME LibInv
    PROVE  /\ docs \in Seq(Docs) /\ colls \in Seq(Named) /\ folders \in Seq(Named)
           /\ Len(docs) \in Nat /\ DOMAIN docs = 1..Len(docs)
           /\ Len(colls) \in Nat /\ DOMAIN colls = 1..Len(colls)
           /\ Len(folders) \in Nat /\ DOMAIN folders = 1..Len(folders)
           /\ \A d \in DOMAIN docs : docs[d] \in Docs /\ docs[d].coll \in Nat /\ docs[d].row \in BOOLEAN /\ docs[d].ext \in BOOLEAN
           /\ \A c \in DOMAIN colls : colls[c] \in Named /\ colls[c].name \in Names /\ colls[c].row \in BOOLEAN
           /\ \A f \in DOMAIN folders : folders[f] \in Named /\ folders[f].name \in Names /\ folders[f].row \in BOOLEAN
           /\ req \in [Slot -> Request]
           /\ \A p \in Slot : req[p].of \in Nat /\ req[p].to \in Nat /\ req[p].op \in Ops /\ req[p].pc \in Steps /\ req[p].new \in Words
           /\ requests \in Nat /\ faults \in Nat /\ odd \in BOOLEAN /\ chat \in BOOLEAN
<1>1. /\ docs \in Seq(Docs) /\ colls \in Seq(Named) /\ folders \in Seq(Named) /\ req \in [Slot -> Request]
      /\ requests \in 0..MaxRequests /\ faults \in 0..MaxFaults /\ odd \in BOOLEAN /\ chat \in BOOLEAN
  BY DEF LibInv, LibTyped
<1>2. Len(docs) \in Nat /\ DOMAIN docs = 1..Len(docs) /\ \A d \in DOMAIN docs : docs[d] \in Docs
  BY <1>1, Positions
<1>3. Len(colls) \in Nat /\ DOMAIN colls = 1..Len(colls) /\ \A d \in DOMAIN colls : colls[d] \in Named
  BY <1>1, Positions
<1>4. Len(folders) \in Nat /\ DOMAIN folders = 1..Len(folders) /\ \A d \in DOMAIN folders : folders[d] \in Named
  BY <1>1, Positions
<1>5. \A d \in DOMAIN docs : docs[d].coll \in Nat /\ docs[d].row \in BOOLEAN /\ docs[d].ext \in BOOLEAN
  BY <1>2 DEF Docs
<1>6. \A c \in DOMAIN colls : colls[c].name \in Names /\ colls[c].row \in BOOLEAN
  BY <1>3 DEF Named
<1>7. \A c \in DOMAIN folders : folders[c].name \in Names /\ folders[c].row \in BOOLEAN
  BY <1>4 DEF Named
<1>8. \A p \in Slot : req[p].of \in Nat /\ req[p].to \in Nat /\ req[p].op \in Ops /\ req[p].pc \in Steps /\ req[p].new \in Words
  BY <1>1 DEF Request
<1>9. requests \in Nat /\ faults \in Nat
  BY <1>1, BoundAssumption
<1> QED
  BY <1>1, <1>2, <1>3, <1>4, <1>5, <1>6, <1>7, <1>8, <1>9

-----------------------------------------------------------------------------
(* Steps of the library *)

\* An empty library is whole.
LEMMA LibraryInit == LibInit => LibInv
<1> SUFFICES ASSUME LibInit PROVE LibInv
  OBVIOUS
<1>1. /\ chat = TRUE /\ scene \in Scenes /\ requests = 0 /\ faults = 0 /\ astray = {} /\ hollow = {} /\ odd = FALSE
      /\ \A p \in Slot : req[p] = Idle
  BY DEF LibInit
<1>2. req \in [Slot -> Request]
  BY IdleTyped DEF LibInit
<1>3. \A p \in Slot : req[p].op = "none" /\ req[p].pc = "idle" /\ req[p].found = {}
  BY <1>1, IdleTyped
<1>4. CASE docs = <<>> /\ colls = <<>> /\ folders = <<>> /\ place = [folder |-> 0, pinned |-> FALSE]
  <2>1. /\ docs \in Seq(Docs) /\ colls \in Seq(Named) /\ folders \in Seq(Named) /\ Len(folders) = 0
        /\ DOMAIN docs = {} /\ DOMAIN colls = {} /\ DOMAIN folders = {}
    BY <1>4, EmptySeq
  <2>2. LibTyped
    <3>1. place \in [folder : Nat, pinned : BOOLEAN] /\ place.folder = 0
      BY <1>4
    <3>2. 0 \in 0..MaxRequests /\ 0 \in 0..MaxFaults
      BY BoundAssumption
    <3>3. place.folder <= Len(folders)
      BY <2>1, <3>1
    <3>4. requests \in 0..MaxRequests /\ faults \in 0..MaxFaults
      BY <1>1, <3>2
    <3>5. astray \subseteq DOMAIN docs /\ hollow \subseteq DOMAIN docs
      BY <1>1
    <3> QED
      BY <1>1, <1>2, <2>1, <3>1, <3>3, <3>4, <3>5, Zenon DEF LibTyped
  <2>3. LibForms
    BY <1>3, <2>1 DEF LibForms, Fits, TurnOps
  <2>4. DocInv
    BY <1>1, <2>1 DEF DocInv, ExternalsKept, RowsKept, RemovedIsKnown, CleanedIsGone, NothingListed
  <2>5. CollInv
    BY <1>3, <2>1 DEF CollInv, DocumentIsPlaced, DefaultKept, OneDefault, DefaultStays, AddsAlone, Adds,
                      NamesDefault, SparesDefault
  <2>6. FolderIsThere
    BY <1>4, <2>1 DEF FolderIsThere, Rows
  <2> QED
    BY <2>2, <2>3, <2>4, <2>5, <2>6 DEF LibInv
<1>5. CASE /\ docs = <<[coll |-> 2, row |-> TRUE, ext |-> TRUE]>>
           /\ colls = <<[name |-> "Default", row |-> TRUE], [name |-> "Other", row |-> TRUE]>>
           /\ folders = <<[name |-> "Other", row |-> TRUE]>>
           /\ place = [folder |-> 1, pinned |-> FALSE]
  <2>1. /\ [coll |-> 2, row |-> TRUE, ext |-> TRUE] \in Docs
        /\ [name |-> "Default", row |-> TRUE] \in Named /\ [name |-> "Other", row |-> TRUE] \in Named
    BY DEF Docs, Named, Names
  <2>2. docs \in Seq(Docs) /\ Len(docs) = 1 /\ docs[1] = [coll |-> 2, row |-> TRUE, ext |-> TRUE]
    BY <1>5, <2>1
  <2>3. /\ colls \in Seq(Named) /\ Len(colls) = 2
        /\ colls[1] = [name |-> "Default", row |-> TRUE] /\ colls[2] = [name |-> "Other", row |-> TRUE]
    BY <1>5, <2>1
  <2>4. folders \in Seq(Named) /\ Len(folders) = 1 /\ folders[1] = [name |-> "Other", row |-> TRUE]
    BY <1>5, <2>1
  <2>5. DOMAIN docs = 1..1 /\ DOMAIN colls = 1..2 /\ DOMAIN folders = 1..1
    BY <2>2, <2>3, <2>4, Positions
  <2>6. LibTyped
    <3>1. place \in [folder : Nat, pinned : BOOLEAN] /\ place.folder = 1
      BY <1>5
    <3>2. 0 \in 0..MaxRequests /\ 0 \in 0..MaxFaults
      BY BoundAssumption
    <3>3. place.folder <= Len(folders)
      BY <2>4, <3>1
    <3>4. requests \in 0..MaxRequests /\ faults \in 0..MaxFaults
      BY <1>1, <3>2
    <3>5. astray \subseteq DOMAIN docs /\ hollow \subseteq DOMAIN docs
      BY <1>1
    <3> QED
      BY <1>1, <1>2, <2>2, <2>3, <2>4, <3>1, <3>3, <3>4, <3>5, Zenon DEF LibTyped
  <2>7. LibForms
    BY <1>3 DEF LibForms, Fits, TurnOps
  <2>8. DocInv
    <3>1. \A d \in DOMAIN docs : docs[d].row /\ docs[d].ext
      BY <2>2, <2>5
    <3>2. \A p \in Slot, d \in DOMAIN docs : ~ Cleans(p, d) /\ ~ Removes(p, d)
      BY <1>3 DEF Cleans, Removes, At
    <3> QED
      BY <1>1, <3>1, <3>2 DEF DocInv, ExternalsKept, RowsKept, RemovedIsKnown, CleanedIsGone, NothingListed
  <2>9. CollInv
    <3>1. \A c \in DOMAIN colls : c \in {1, 2}
      BY <2>5
    <3>2. colls[1].name = "Default" /\ colls[1].row /\ colls[2].name = "Other" /\ colls[2].row
      BY <2>3
    <3>3. 1 \in DOMAIN colls /\ 2 \in DOMAIN colls
      BY <2>5
    <3>4. Defaults = {1}
      BY <3>1, <3>2, <3>3 DEF Defaults, Rows
    <3>5. DocumentIsPlaced
      BY <2>2, <2>5, <3>2, <3>3 DEF DocumentIsPlaced, Owned, Rows
    <3>6. OneDefault /\ DefaultStays
      BY <3>3, <3>4 DEF OneDefault, DefaultStays
    <3>7. AddsAlone /\ NamesDefault /\ SparesDefault
      BY <1>3 DEF AddsAlone, Adds, NamesDefault, SparesDefault
    <3> QED
      BY <3>5, <3>6, <3>7 DEF CollInv, DefaultKept
  <2>10. FolderIsThere
    BY <1>5, <2>4, <2>5 DEF FolderIsThere, Rows
  <2> QED
    BY <2>6, <2>7, <2>8, <2>9, <2>10 DEF LibInv
<1> QED
  BY <1>4, <1>5 DEF LibInit

\* A request that asks has an idle slot, and no bound is passed.
LEMMA Asked ==
    ASSUME LibInv, NEW p \in Slot, NEW op, Asks(p, op)
    PROVE  /\ req[p].pc = "idle" /\ op \in scene /\ ~ Clears(req[p])
           /\ requests' \in 0..MaxRequests /\ requests' = requests + 1
           /\ req[p].op \notin TurnOps
<1>1. req[p].pc = "idle" /\ op \in scene /\ requests < MaxRequests /\ requests' = requests + 1
  BY DEF Asks
<1>2. ~ Clears(req[p])
  BY <1>1 DEF Clears
<1>3. req[p].op \notin TurnOps
  BY <1>1 DEF LibInv, LibForms, Fits, TurnSteps
<1>4. requests \in 0..MaxRequests
  BY DEF LibInv, LibTyped
<1>5. requests' \in 0..MaxRequests
  BY <1>1, <1>4, BoundAssumption
<1> QED
  BY <1>1, <1>2, <1>3, <1>5

\* An upload that begins keeps the library's invariant (upload_document).
LEMMA AskUploadLib ==
    ASSUME LibInv, NEW p \in Slot, NEW c \in 0..Len(colls), AskUpload(p, c)
    PROVE  LibInv'
<1>0. /\ req[p].pc = "idle" /\ ~ Clears(req[p]) /\ requests' \in 0..MaxRequests /\ UNCHANGED <<rows, scene, astray, hollow>>
      /\ faults' \in 0..MaxFaults
  BY Asked DEF AskUpload, LibInv, LibTyped
<1>f. /\ req \in [Slot -> Request] /\ Len(colls) \in Nat /\ DOMAIN colls = 1..Len(colls) /\ odd \in BOOLEAN
  BY LibFacts
<1>1. ASSUME NEW d \in Nat, Goes(p, "upload", "insert", d, 0), odd' = odd
      PROVE  LibInv'
  <2>0. "upload" \in Ops /\ "insert" \in Steps /\ 0 \in Nat
    BY DEF Ops, Steps, TurnSteps
  <2>1. Turned(p, "upload", "insert", d, 0, "", {})
    BY <2>0, <1>1, <1>f, GoesTurns
  <2>2. Fits(req[p])' /\ ~ Clears(req'[p]) /\ SoundColl(p)'
    BY <2>1 DEF Turned, Fits, Clears, SoundColl, Adds, TurnOps
  <2> QED
    BY <1>0, <1>1, <1>f, <2>1, <2>2, AskFrame DEF Turned, Others
<1>2. CASE Owned(c) /\ Goes(p, "upload", "insert", c, 0) /\ UNCHANGED odd
  BY <1>1, <1>2, <1>f
<1>3. CASE Defaults = {} /\ Goes(p, "upload", "default", 0, 0) /\ odd' = (odd \/ Missing(p))
  <2>0. "upload" \in Ops /\ "default" \in Steps /\ 0 \in Nat
    BY DEF Ops, Steps, TurnSteps
  <2>1. Turned(p, "upload", "default", 0, 0, "", {})
    BY <2>0, <1>3, <1>f, GoesTurns
  <2>2. Fits(req[p])' /\ ~ Clears(req'[p])
    BY <2>1 DEF Turned, Fits, Clears, TurnOps
  <2>3. odd' \in BOOLEAN /\ (~ odd' => ~ odd /\ ~ Missing(p))
    BY <1>3, <1>f
  <2>4. Defaults' = {}
    BY <1>0, <1>3 DEF rows, Defaults, Rows
  <2>5. ~ odd' => SoundColl(p)'
    BY <2>1, <2>3, <2>4 DEF Turned, SoundColl, Adds, Missing
  <2> QED
    BY <1>0, <2>1, <2>2, <2>3, <2>5, AskFrame DEF Turned, Others
<1>4. CASE UNCHANGED odd /\ \E d \in Defaults : Goes(p, "upload", "insert", d, 0)
  <2>1. PICK d \in Defaults : Goes(p, "upload", "insert", d, 0)
    BY <1>4
  <2>2. d \in Nat
    BY <2>1, <1>f DEF Defaults, Rows
  <2> QED
    BY <1>1, <1>4, <2>1, <2>2
<1> QED
  BY <1>2, <1>3, <1>4 DEF AskUpload

\* The asks that only note what they are about.
LEMMA AsksLib ==
    ASSUME LibInv, NEW p \in Slot,
           \/ \E d \in DOMAIN docs : AskDeleteDocument(p, d) \/ \E c \in Rows(colls) : MoveDocument(p, d, c)
           \/ \E name \in Names : CreateFolder(p, name)
           \/ \E f \in 0..Len(folders), pin \in {"pin", "unpin"} : AskOrganize(p, f, pin)
    PROVE  LibInv'
<1>f. /\ req \in [Slot -> Request] /\ DOMAIN colls = 1..Len(colls) /\ DOMAIN docs = 1..Len(docs)
      /\ Len(folders) \in Nat /\ Len(docs) \in Nat /\ Len(colls) \in Nat
  BY LibFacts
<1>0. ASSUME NEW op \in {"delete_document", "move_document", "create_folder", "organize"}, NEW pc \in {"unlink", "commit"},
             NEW of, NEW to, NEW new \in Words, Asks(p, op),
             Turned(p, op, pc, of, to, new, {}), UNCHANGED <<rows, scene, faults, excuses>>,
             op = "create_folder" => new \in Names,
             op \in {"delete_document", "move_document"} => of \in DOMAIN docs
      PROVE  LibInv'
  <2>1. ~ Clears(req[p]) /\ requests' \in 0..MaxRequests /\ faults' \in 0..MaxFaults
    BY <1>0, Asked DEF LibInv, LibTyped
  <2>2. Fits(req[p])' /\ ~ Clears(req'[p]) /\ req'[p].pc # "default"
        /\ req'[p].op \notin {"rename_collection", "delete_collection"}
    BY <1>0 DEF Turned, Fits, Clears, TurnOps, rows
  <2> QED
    BY <1>0, <2>1, <2>2, RowsFrame DEF Turned, Others
<1>1. ASSUME NEW d \in DOMAIN docs, AskDeleteDocument(p, d) PROVE LibInv'
  <2>0. "delete_document" \in Ops /\ "unlink" \in Steps /\ 0 \in Nat
    BY DEF Ops, Steps, TurnSteps
  <2>1. Turned(p, "delete_document", "unlink", d, 0, "", {})
    <3>1. d \in Nat /\ Goes(p, "delete_document", "unlink", d, 0)
      BY <1>1, <1>f DEF AskDeleteDocument
    <3> QED
      BY <2>0, <3>1, <1>f, GoesTurns
  <2> QED
    BY <1>0, <1>1, <2>1 DEF AskDeleteDocument, Words
<1>2. ASSUME NEW d \in DOMAIN docs, NEW c \in Rows(colls), MoveDocument(p, d, c) PROVE LibInv'
  <2>0. "move_document" \in Ops /\ "commit" \in Steps /\ 0 \in Nat
    BY DEF Ops, Steps, TurnSteps
  <2>1. Turned(p, "move_document", "commit", d, c, "", {})
    <3>1. d \in Nat /\ c \in Nat /\ Goes(p, "move_document", "commit", d, c)
      BY <1>2, <1>f DEF MoveDocument, Rows
    <3> QED
      BY <2>0, <3>1, <1>f, GoesTurns
  <2> QED
    BY <1>0, <1>2, <2>1 DEF MoveDocument, Words
<1>3. ASSUME NEW name \in Names, CreateFolder(p, name) PROVE LibInv'
  <2>0. "create_folder" \in Ops /\ "commit" \in Steps /\ 0 \in Nat
    BY DEF Ops, Steps, TurnSteps
  <2>1. Turned(p, "create_folder", "commit", 0, 0, name, {}) /\ name \in Words
    BY <2>0, <1>3, <1>f, WritesTurns DEF CreateFolder, Words
  <2> QED
    BY <1>0, <1>3, <2>1 DEF CreateFolder
<1>4. ASSUME NEW f \in 0..Len(folders), NEW pin \in {"pin", "unpin"}, AskOrganize(p, f, pin) PROVE LibInv'
  <2>0. "organize" \in Ops /\ "commit" \in Steps /\ 0 \in Nat
    BY DEF Ops, Steps, TurnSteps
  <2>1. Turned(p, "organize", "commit", f, 0, pin, {}) /\ pin \in Words
    <3>1. f \in Nat
      BY <1>f
    <3>2. pin \in Words
      BY DEF Words
    <3>3. Writes(p, "organize", f, pin)
      BY <1>4 DEF AskOrganize
    <3> QED
      BY <2>0, <3>1, <3>2, <3>3, <1>f, WritesTurns
  <2> QED
    BY <1>0, <1>4, <2>1 DEF AskOrganize
<1> QED
  BY <1>1, <1>2, <1>3, <1>4

\* So does the read of a collection to be renamed,
LEMMA AskRenameLib ==
    ASSUME LibInv, NEW p \in Slot, NEW c \in Rows(colls), NEW name \in Names, RenameCollection(p, c, name)
    PROVE  LibInv'
<1>0. /\ ~ Clears(req[p]) /\ requests' \in 0..MaxRequests /\ UNCHANGED <<rows, scene, astray, hollow>>
      /\ faults' \in 0..MaxFaults
  BY Asked DEF RenameCollection, LibInv, LibTyped
<1>f. /\ req \in [Slot -> Request] /\ Len(colls) \in Nat /\ DOMAIN colls = 1..Len(colls) /\ odd \in BOOLEAN
  BY LibFacts
<1>1. Turned(p, "rename_collection", "commit", c, 0, name, {})
  <2>1. "rename_collection" \in Ops /\ name \in Words
    BY DEF Ops, Words
  <2>2. c \in Nat /\ c \in DOMAIN colls
    BY <1>f DEF Rows
  <2>3. Writes(p, "rename_collection", c, name)
    BY DEF RenameCollection
  <2> QED
    BY <1>f, <2>1, <2>2, <2>3, WritesTurns
<1>2. Fits(req[p])' /\ ~ Clears(req'[p])
  <2>1. c \in DOMAIN colls /\ colls' = colls
    BY <1>0 DEF Rows, rows
  <2> QED
    BY <1>1, <2>1 DEF Turned, Fits, Clears, TurnOps
<1>3. odd' \in BOOLEAN /\ (~ odd' => ~ odd /\ ~ (name = "Default" /\ colls[c].name # name))
  BY <1>f DEF RenameCollection
<1>4. ~ odd' => SoundColl(p)'
  <2>1. MayRename(c, name) /\ colls' = colls
    BY <1>0 DEF RenameCollection, rows
  <2> QED
    BY <1>1, <1>3, <2>1 DEF Turned, SoundColl, Adds, IsDefault, MayRename
<1> QED
  BY <1>0, <1>1, <1>2, <1>3, <1>4, AskFrame DEF Turned, Others

\* of a collection to be deleted,
LEMMA AskDeleteCollectionLib ==
    ASSUME LibInv, NEW p \in Slot, NEW c \in Rows(colls), DeleteCollection(p, c)
    PROVE  LibInv'
<1>0. /\ ~ Clears(req[p]) /\ requests' \in 0..MaxRequests /\ UNCHANGED <<rows, scene, astray, hollow>>
      /\ faults' \in 0..MaxFaults
  BY Asked DEF DeleteCollection, LibInv, LibTyped
<1>f. /\ req \in [Slot -> Request] /\ Len(colls) \in Nat /\ DOMAIN colls = 1..Len(colls) /\ odd \in BOOLEAN
  BY LibFacts
<1>c. /\ c \in Nat /\ c \in DOMAIN colls /\ colls' = colls /\ ~ IsDefault(c)
      /\ "delete_collection" \in Ops /\ "move" \in Steps /\ "default" \in Steps /\ 0 \in Nat
  BY <1>0, <1>f DEF Rows, rows, DeleteCollection, MayDelete, IsDefault, Ops, Steps
<1>1. CASE Defaults = {} /\ Goes(p, "delete_collection", "default", c, 0) /\ odd' = (odd \/ Missing(p))
  <2>1. Turned(p, "delete_collection", "default", c, 0, "", {})
    BY <1>1, <1>c, <1>f, GoesTurns
  <2>2. Fits(req[p])' /\ ~ Clears(req'[p])
    BY <2>1, <1>c DEF Turned, Fits, Clears, TurnOps
  <2>3. odd' \in BOOLEAN /\ (~ odd' => ~ odd /\ ~ Missing(p))
    BY <1>1, <1>f
  <2>4. Defaults' = {}
    BY <1>0, <1>1 DEF rows, Defaults, Rows
  <2>5. ~ odd' => SoundColl(p)'
    BY <2>1, <2>3, <2>4, <1>c DEF Turned, SoundColl, Adds, Missing, IsDefault
  <2> QED
    BY <1>0, <2>1, <2>2, <2>3, <2>5, AskFrame DEF Turned, Others
<1>2. CASE UNCHANGED odd /\ \E d \in Defaults : Goes(p, "delete_collection", "move", c, d)
  <2>0. PICK d \in Defaults : Goes(p, "delete_collection", "move", c, d)
    BY <1>2
  <2>d. d \in Nat /\ d \in DOMAIN colls /\ colls[d].name = "Default"
    BY <1>f DEF Defaults, Rows
  <2>1. Turned(p, "delete_collection", "move", c, d, "", {})
    BY <2>0, <2>d, <1>c, <1>f, GoesTurns
  <2>2. Fits(req[p])' /\ ~ Clears(req'[p])
    BY <2>1, <2>d, <1>c DEF Turned, Fits, Clears, TurnOps
  <2>3. SoundColl(p)'
    BY <2>1, <2>d, <1>c DEF Turned, SoundColl, Adds, IsDefault
  <2> QED
    BY <1>0, <1>2, <1>f, <2>1, <2>2, <2>3, AskFrame DEF Turned, Others
<1> QED
  BY <1>1, <1>2 DEF DeleteCollection

\* and of the documents of a session to be deleted.
LEMMA AskDeleteLib ==
    ASSUME LibInv, NEW p \in Slot, AskDelete(p)
    PROVE  LibInv'
<1>0. /\ ~ Clears(req[p]) /\ requests' \in 0..MaxRequests /\ UNCHANGED <<rows, scene, excuses>>
      /\ faults' \in 0..MaxFaults
  BY Asked DEF AskDelete, LibInv, LibTyped
<1>f. /\ req \in [Slot -> Request] /\ Len(docs) \in Nat /\ DOMAIN docs = 1..Len(docs)
  BY LibFacts
<1> DEFINE r == [Idle EXCEPT !.op = "delete_session", !.pc = "commit", !.found = Rows(docs)]
<1>1. r.op = "delete_session" /\ r.pc = "commit" /\ r.found = Rows(docs)
  BY DEF Idle
<1>2. r \in Request
  <2>1. "delete_session" \in Ops /\ "commit" \in Steps /\ Rows(docs) \in SUBSET Nat
    BY <1>f DEF Ops, Steps, Rows
  <2> QED
    BY <2>1, Zenon DEF Idle, Request, Words
<1>3. req' = [req EXCEPT ![p] = r]
  BY DEF AskDelete
<1> HIDE DEF r
<1>4. Turned(p, r.op, r.pc, r.of, r.to, r.new, r.found)
  BY <1>f, <1>2, <1>3, TurnsOne
<1>5. Fits(req[p])' /\ ~ Clears(req'[p]) /\ req'[p].pc # "default"
      /\ req'[p].op \notin {"rename_collection", "delete_collection"}
  BY <1>0, <1>1, <1>4 DEF Turned, Fits, Clears, TurnOps, rows, Rows
<1> QED
  BY <1>0, <1>4, <1>5, RowsFrame DEF Turned, Others

\* A request that ends, with no row touched and nothing to clear.
LEMMA EndLib ==
    ASSUME LibInv, NEW p \in Slot, Ends(p), ~ Clears(req[p]), UNCHANGED <<rows, scene, excuses>>,
           requests' \in 0..MaxRequests, faults' \in 0..MaxFaults
    PROVE  LibInv'
<1>1. Turned(p, "none", "idle", 0, 0, "", {})
  BY LibFacts, EndsTurns
<1>2. Fits(req[p])' /\ ~ Clears(req'[p]) /\ req'[p].pc # "default"
      /\ req'[p].op \notin {"rename_collection", "delete_collection"}
  BY <1>1 DEF Turned, Fits, Clears, TurnOps
<1> QED
  BY <1>1, <1>2, RowsFrame DEF Turned, Others

\* A fault counts.
LEMMA Faulted ==
    ASSUME LibInv, Fault
    PROVE  faults' \in 0..MaxFaults
  BY BoundAssumption DEF LibInv, LibTyped, Fault

\* A deletion of a session whose commit fails leaves the rows as they were.
LEMMA FailDeleteLib ==
    ASSUME LibInv, NEW p \in Slot, FailDelete(p)
    PROVE  LibInv'
<1>1. faults' \in 0..MaxFaults /\ requests' \in 0..MaxRequests
  BY Faulted DEF FailDelete, LibInv, LibTyped
<1>2. ~ Clears(req[p])
  BY DEF FailDelete, At, Clears
<1> QED
  BY <1>1, <1>2, EndLib DEF FailDelete

\* A step of one request leaves alone what others are about to clean up or
\* remove.
LEMMA OthersClear ==
    ASSUME NEW p \in Slot, Others(p)
    PROVE  \A q \in Slot, d \in Nat : q # p => (Cleans(q, d)' <=> Cleans(q, d)) /\ (Removes(q, d)' <=> Removes(q, d))
  BY DEF Others, Cleans, Removes, At

\* Only requests that delete have something to clean up or remove.
LEMMA ClearsAlone ==
    ASSUME NEW p \in Slot
    PROVE  /\ ~ Clears(req[p]) => \A d \in Nat : ~ Cleans(p, d) /\ ~ Removes(p, d)
           /\ ~ Clears(req'[p]) => \A d \in Nat : ~ Cleans(p, d)' /\ ~ Removes(p, d)'
  BY DEF Cleans, Removes, At, Clears

\* A step that changes documents and nothing else of the rows.
LEMMA DocStep ==
    ASSUME LibInv, NEW p \in Slot, Others(p), req' \in [Slot -> Request],
           UNCHANGED <<colls, folders, place, scene, requests, odd>>, faults' \in 0..MaxFaults,
           chat' \in BOOLEAN, docs' \in Seq(Docs), DOMAIN docs \subseteq DOMAIN docs',
           astray' \subseteq DOMAIN docs', hollow' \subseteq DOMAIN docs',
           DocInv', DocumentIsPlaced', Fits(req[p])',
           req'[p].pc # "default", req'[p].op \notin {"rename_collection", "delete_collection"}
    PROVE  LibInv'
<1>1. LibTyped'
  BY DEF LibInv, LibTyped
<1>2. LibForms'
  BY FormsFrame DEF LibInv
<1>3. CollInv'
  BY DefaultFrame, ApartFromColls DEF LibInv, CollInv
<1>4. FolderIsThere'
  BY FolderFrame DEF LibInv
<1> QED
  BY <1>1, <1>2, <1>3, <1>4 DEF LibInv

\* The insert of a document's row keeps the library's invariant, if its
\* collection is gone too.
LEMMA InsertLib ==
    ASSUME LibInv, NEW p \in Slot, InsertDocument(p)
    PROVE  LibInv'
<1>f. /\ req \in [Slot -> Request] /\ docs \in Seq(Docs) /\ Len(docs) \in Nat /\ DOMAIN docs = 1..Len(docs)
      /\ chat \in BOOLEAN /\ req[p].of \in Nat
  BY LibFacts
<1>u. UNCHANGED <<colls, folders, place, scene, requests, odd>> /\ chat' = chat /\ faults' \in 0..MaxFaults /\ hollow' = hollow
  BY DEF InsertDocument, LibInv, LibTyped
<1> DEFINE n == Len(docs) + 1
           c == req[p].of
           e == [coll |-> c, row |-> Refers(c), ext |-> TRUE]
<1>1. e \in Docs /\ e.coll = c /\ e.row = Refers(c) /\ e.ext = TRUE
  BY <1>f DEF Docs, Refers, Owned
<1>2. docs' = Append(docs, e)
  BY DEF InsertDocument
<1> HIDE DEF e
<1>3. /\ docs' \in Seq(Docs) /\ DOMAIN docs' = 1..n /\ docs'[n] = e
      /\ \A i \in DOMAIN docs : i \in DOMAIN docs' /\ docs'[i] = docs[i] /\ i # n
  BY <1>1, <1>2, <1>f, Appended
<1>4. DOMAIN docs' = DOMAIN docs \cup {n} /\ n \in Nat /\ DOMAIN docs \subseteq Nat
  BY <1>3, <1>f
<1> HIDE DEF n, c
<1>5. \/ Refers(c) /\ Turned(p, "upload", "index", n, 0, "", {}) /\ astray' = astray
      \/ ~ Refers(c) /\ Turned(p, "none", "idle", 0, 0, "", {}) /\ astray' = astray \cup {n}
  <2>1. "upload" \in Ops /\ "index" \in Steps /\ 0 \in Nat
    BY DEF Ops, Steps
  <2>2. CASE Refers(c)
    <3>1. Goes(p, "upload", "index", n, 0) /\ astray' = astray
      BY <2>2 DEF InsertDocument, n, c
    <3> QED
      BY <2>1, <2>2, <3>1, <1>4, <1>f, GoesTurns
  <2>3. CASE ~ Refers(c)
    <3>1. Ends(p) /\ astray' = astray \cup {n}
      BY <2>3 DEF InsertDocument, n, c
    <3> QED
      BY <2>3, <3>1, <1>f, EndsTurns
  <2> QED
    BY <2>2, <2>3
<1>6. Others(p) /\ req' \in [Slot -> Request] /\ ~ Clears(req'[p]) /\ Fits(req[p])' /\ req'[p].pc # "default"
      /\ req'[p].op \notin {"rename_collection", "delete_collection"}
  BY <1>5, <1>4 DEF Turned, Others, Clears, Fits, TurnOps
<1>7. ~ Clears(req[p])
  BY DEF InsertDocument, At, Clears
<1>8. \A q \in Slot, d \in Nat : (Cleans(q, d)' <=> Cleans(q, d)) /\ (Removes(q, d)' <=> Removes(q, d))
  BY <1>6, <1>7, OthersClear, ClearsAlone
<1>9. \A q \in Slot : ~ Cleans(q, n) /\ ~ Removes(q, n)
  BY <1>3, <1>4 DEF LibInv, LibForms, Fits, Cleans, Removes, At
<1>10. DocInv'
  <2>0. DocInv /\ (n \in astray' \/ docs'[n].row) /\ docs'[n].ext /\ astray \subseteq astray'
    BY <1>1, <1>3, <1>5 DEF LibInv
  <2>1. ExternalsKept'
    BY <2>0, <1>3, <1>4, <1>8 DEF DocInv, ExternalsKept
  <2>2. RowsKept'
    BY <2>0, <1>3, <1>4, <1>8, <1>u DEF DocInv, RowsKept
  <2>3. RemovedIsKnown'
    BY <2>0, <1>3, <1>4, <1>8, <1>9 DEF DocInv, RemovedIsKnown
  <2>4. CleanedIsGone'
    BY <2>0, <1>3, <1>4, <1>8, <1>9 DEF DocInv, CleanedIsGone
  <2>5. NothingListed'
    BY <2>0, <1>1, <1>3, <1>4, <1>u DEF DocInv, NothingListed, Refers
  <2> QED
    BY <2>1, <2>2, <2>3, <2>4, <2>5 DEF DocInv
<1>11. DocumentIsPlaced'
  BY <1>1, <1>3, <1>4, <1>u DEF DocumentIsPlaced, Stored, Owned, Rows, Refers, LibInv, CollInv
<1>12. astray' \subseteq DOMAIN docs' /\ hollow' \subseteq DOMAIN docs'
  BY <1>4, <1>5, <1>u DEF LibInv, LibTyped
<1> QED
  BY <1>u, <1>f, <1>3, <1>4, <1>6, <1>10, <1>11, <1>12, DocStep

\* One document changes in place.
LEMMA DocChanged ==
    ASSUME LibInv, NEW d \in DOMAIN docs, NEW e \in Docs, docs' = [docs EXCEPT ![d] = e]
    PROVE  /\ docs' \in Seq(Docs) /\ DOMAIN docs' = DOMAIN docs /\ docs'[d] = e
           /\ \A i \in DOMAIN docs : i # d => docs'[i] = docs[i]
<1>1. docs \in Seq(Docs) /\ \A i \in DOMAIN docs : docs[i] \in Docs
  BY LibFacts
<1>2. /\ DOMAIN docs' = DOMAIN docs /\ docs'[d] = e /\ \A i \in DOMAIN docs : i # d => docs'[i] = docs[i]
      /\ docs' = [i \in DOMAIN docs |-> docs'[i]]
  OBVIOUS
<1>3. \A i \in DOMAIN docs : docs'[i] \in Docs
  BY <1>1, <1>2
<1> QED
  BY <1>1, <1>2, <1>3, Changed

\* A document with one field changed is one.
LEMMA DocFields ==
    ASSUME NEW e \in Docs, NEW b \in BOOLEAN
    PROVE  /\ [e EXCEPT !.ext = b] \in Docs /\ [e EXCEPT !.ext = b].ext = b
           /\ [e EXCEPT !.ext = b].row = e.row /\ [e EXCEPT !.ext = b].coll = e.coll
           /\ [e EXCEPT !.row = b] \in Docs /\ [e EXCEPT !.row = b].row = b
           /\ [e EXCEPT !.row = b].ext = e.ext /\ [e EXCEPT !.row = b].coll = e.coll
<1>1. [e EXCEPT !.ext = b] \in Docs /\ [e EXCEPT !.row = b] \in Docs
  BY ZenonT(60) DEF Docs
<1> QED
  BY <1>1 DEF Docs

\* A document that is moved is one, in the other collection.
LEMMA DocMoved ==
    ASSUME NEW e \in Docs, NEW c \in Nat
    PROVE  /\ [e EXCEPT !.coll = c] \in Docs /\ [e EXCEPT !.coll = c].coll = c
           /\ [e EXCEPT !.coll = c].ext = e.ext /\ [e EXCEPT !.coll = c].row = e.row
<1>1. [e EXCEPT !.coll = c] \in Docs
  BY ZenonT(60) DEF Docs
<1> QED
  BY <1>1 DEF Docs

\* Where the ends of requests leave theirs.
LEMMA Ended ==
    ASSUME LibInv, NEW p \in Slot, Ends(p)
    PROVE  /\ Others(p) /\ req' \in [Slot -> Request] /\ req'[p].op = "none" /\ req'[p].pc = "idle" /\ req'[p].found = {}
           /\ ~ Clears(req'[p]) /\ Fits(req[p])'
           /\ req'[p].pc # "default" /\ req'[p].op \notin {"rename_collection", "delete_collection"}
<1>1. Turned(p, "none", "idle", 0, 0, "", {})
  BY LibFacts, EndsTurns
<1> QED
  BY <1>1 DEF Turned, Others, Fits, Clears, TurnOps

\* The chunks of an upload keep it: their document has a row or is known to be
\* astray.
LEMMA ChunksLib ==
    ASSUME LibInv, NEW p \in Slot, WriteChunks(p)
    PROVE  LibInv'
<1> DEFINE d == req[p].of
<1>0. /\ Ends(p) /\ UNCHANGED <<chat, colls, folders, place, scene, requests, faults, hollow, odd>>
      /\ ~ Clears(req[p])
      /\ \/ docs' = [docs EXCEPT ![d].ext = TRUE]
            /\ astray' = IF Stored(d) /\ ~Deleting(d) THEN astray ELSE astray \cup {d}
         \/ ~Stored(d) /\ UNCHANGED <<docs, astray>>
  BY DEF WriteChunks, At, Clears
<1>1. d \in DOMAIN docs /\ DOMAIN docs \subseteq Nat /\ docs[d] \in Docs /\ faults \in 0..MaxFaults /\ chat \in BOOLEAN
      /\ requests \in 0..MaxRequests
  BY LibFacts DEF LibInv, LibForms, Fits, WriteChunks, At, LibTyped
<1>2. /\ Others(p) /\ req' \in [Slot -> Request] /\ req'[p].op = "none" /\ req'[p].pc = "idle"
      /\ ~ Clears(req'[p]) /\ Fits(req[p])'
      /\ req'[p].pc # "default" /\ req'[p].op \notin {"rename_collection", "delete_collection"}
  BY <1>0, Ended
<1>3. \A q \in Slot, i \in Nat : (Cleans(q, i)' <=> Cleans(q, i)) /\ (Removes(q, i)' <=> Removes(q, i))
  BY <1>0, <1>2, OthersClear, ClearsAlone
<1>4. CASE docs' = [docs EXCEPT ![d].ext = TRUE]
           /\ astray' = IF Stored(d) /\ ~Deleting(d) THEN astray ELSE astray \cup {d}
  <2> DEFINE e == [docs[d] EXCEPT !.ext = TRUE]
  <2>1. docs' = [docs EXCEPT ![d] = e]
    BY <1>4
  <2>2. e \in Docs /\ e.ext = TRUE /\ e.row = docs[d].row /\ e.coll = docs[d].coll
    BY <1>1, DocFields
  <2> HIDE DEF e, d
  <2>3. /\ docs' \in Seq(Docs) /\ DOMAIN docs' = DOMAIN docs /\ docs'[d] = e
        /\ \A i \in DOMAIN docs : i # d => docs'[i] = docs[i]
    BY <1>1, <2>1, <2>2, DocChanged
  <2>4. /\ astray \subseteq astray' /\ astray' \subseteq DOMAIN docs
        /\ (docs[d].row /\ ~ Deleting(d)) \/ d \in astray'
    BY <1>1, <1>4 DEF Stored, LibInv, LibTyped
  <2>5. \A q \in Slot : Removes(q, d) => Deleting(d)
    BY DEF Removes, Deleting
  <2>6. \A i \in DOMAIN docs : docs'[i].row = docs[i].row /\ docs'[i].coll = docs[i].coll /\ (i # d => docs'[i].ext = docs[i].ext)
    BY <2>2, <2>3
  <2>7. docs'[d].ext = TRUE
    BY <2>2, <2>3
  <2>8. DocInv
    BY DEF LibInv
  <2>9. DocInv'
    <3>1. ExternalsKept'
      BY <2>3, <2>4, <2>6, <2>8, <1>1, <1>3 DEF DocInv, ExternalsKept
    <3>2. RowsKept'
      BY <2>3, <2>6, <2>7, <2>8, <1>0, <1>1, <1>3 DEF DocInv, RowsKept
    <3>3. RemovedIsKnown'
      BY <2>3, <2>4, <2>5, <2>6, <2>8, <1>1, <1>3 DEF DocInv, RemovedIsKnown
    <3>4. CleanedIsGone' /\ NothingListed'
      BY <2>3, <2>6, <2>8, <1>0, <1>1, <1>3 DEF DocInv, CleanedIsGone, NothingListed
    <3> QED
      BY <3>1, <3>2, <3>3, <3>4 DEF DocInv
  <2>10. DocumentIsPlaced'
    BY <2>3, <2>6, <1>0 DEF LibInv, CollInv, DocumentIsPlaced, Stored, Owned, Rows
  <2>11. hollow' \subseteq DOMAIN docs'
    BY <1>0, <2>3 DEF LibInv, LibTyped
  <2> QED
    BY <1>0, <1>1, <1>2, <2>3, <2>4, <2>9, <2>10, <2>11, DocStep
<1>5. CASE UNCHANGED <<docs, astray>>
  BY <1>0, <1>1, <1>2, <1>5, RowsFrame DEF rows, excuses
<1> QED
  BY <1>0, <1>4, <1>5

\* A deletion that removes file and chunks first leaves a row that it is going
\* to delete,
LEMMA UnlinkLib ==
    ASSUME LibInv, NEW p \in Slot, Unlink(p)
    PROVE  LibInv'
<1>d. PICK d \in Nat : d = req[p].of
  BY LibFacts
<1> DEFINE e == [docs[d] EXCEPT !.ext = FALSE]
<1>0. /\ UNCHANGED <<chat, colls, folders, place, scene, requests, astray, odd>>
      /\ ~ Clears(req[p]) /\ docs' = [docs EXCEPT ![d] = e]
      /\ \/ Goes(p, "delete_document", "row", d, 0) /\ UNCHANGED <<faults, hollow>>
         \/ Fault /\ Ends(p) /\ hollow' = hollow \cup {d}
  BY <1>d DEF Unlink, At, Clears
<1>1. d \in DOMAIN docs /\ DOMAIN docs \subseteq Nat /\ docs[d] \in Docs /\ faults \in 0..MaxFaults /\ chat \in BOOLEAN
      /\ req \in [Slot -> Request] /\ d \in Nat
  BY <1>d, LibFacts DEF LibInv, LibForms, Fits, Unlink, At, LibTyped
<1>2. e \in Docs /\ e.ext = FALSE /\ e.row = docs[d].row /\ e.coll = docs[d].coll
  BY <1>1, DocFields
<1> HIDE DEF e
<1>3. /\ docs' \in Seq(Docs) /\ DOMAIN docs' = DOMAIN docs /\ docs'[d] = e
      /\ \A i \in DOMAIN docs : i # d => docs'[i] = docs[i]
  BY <1>0, <1>1, <1>2, DocChanged
<1>4. \A i \in DOMAIN docs : docs'[i].row = docs[i].row /\ docs'[i].coll = docs[i].coll /\ (i # d => docs'[i].ext = docs[i].ext)
  BY <1>2, <1>3
<1>5. docs'[d].ext = FALSE
  BY <1>2, <1>3
<1>6. /\ Others(p) /\ req' \in [Slot -> Request] /\ Fits(req[p])' /\ faults' \in 0..MaxFaults
      /\ req'[p].pc # "default" /\ req'[p].op \notin {"rename_collection", "delete_collection"}
      /\ hollow \subseteq hollow' /\ hollow' \subseteq DOMAIN docs'
      /\ \A i \in Nat : ~ Cleans(p, i)' /\ (Removes(p, i)' => i = d)
      /\ d \in hollow' \/ Removes(p, d)'
  <2>1. hollow \subseteq DOMAIN docs /\ DOMAIN docs' = DOMAIN docs
    BY <1>3 DEF LibInv, LibTyped
  <2>2. CASE Goes(p, "delete_document", "row", d, 0) /\ UNCHANGED <<faults, hollow>>
    <3>1. "delete_document" \in Ops /\ "row" \in Steps /\ 0 \in Nat
      BY DEF Ops, Steps
    <3>2. Turned(p, "delete_document", "row", d, 0, "", {})
      BY <1>1, <2>2, <3>1, GoesTurns
    <3> QED
      BY <1>1, <2>1, <2>2, <3>2 DEF Turned, Others, Fits, Cleans, Removes, At, TurnOps
  <2>3. CASE Fault /\ Ends(p) /\ hollow' = hollow \cup {d}
    <3>1. /\ Others(p) /\ req' \in [Slot -> Request] /\ ~ Clears(req'[p]) /\ Fits(req[p])'
          /\ req'[p].pc # "default" /\ req'[p].op \notin {"rename_collection", "delete_collection"}
      BY <2>3, Ended
    <3>2. faults' \in 0..MaxFaults
      BY <2>3, Faulted
    <3> QED
      BY <1>1, <2>1, <2>3, <3>1, <3>2, ClearsAlone
  <2> QED
    BY <1>0, <2>2, <2>3
<1>7. /\ \A q \in Slot, i \in Nat : q # p => (Cleans(q, i)' <=> Cleans(q, i)) /\ (Removes(q, i)' <=> Removes(q, i))
      /\ \A i \in Nat : ~ Cleans(p, i) /\ ~ Removes(p, i)
  BY <1>0, <1>6, OthersClear, ClearsAlone
<1>8. DocInv'
  <2>0. DocInv
    BY DEF LibInv
  <2>1. ExternalsKept'
    BY <2>0, <1>0, <1>1, <1>3, <1>4, <1>5, <1>7 DEF DocInv, ExternalsKept
  <2>2. RowsKept'
    BY <2>0, <1>1, <1>3, <1>4, <1>6, <1>7 DEF DocInv, RowsKept
  <2>3. RemovedIsKnown'
    BY <2>0, <1>0, <1>1, <1>3, <1>4, <1>5, <1>6, <1>7 DEF DocInv, RemovedIsKnown
  <2>4. CleanedIsGone' /\ NothingListed'
    BY <2>0, <1>0, <1>1, <1>3, <1>4, <1>6, <1>7 DEF DocInv, CleanedIsGone, NothingListed
  <2> QED
    BY <2>1, <2>2, <2>3, <2>4 DEF DocInv
<1>9. DocumentIsPlaced'
  BY <1>0, <1>3, <1>4 DEF LibInv, CollInv, DocumentIsPlaced, Stored, Owned, Rows
<1>10. astray' \subseteq DOMAIN docs'
  BY <1>0, <1>3 DEF LibInv, LibTyped
<1> QED
  BY <1>0, <1>1, <1>3, <1>6, <1>8, <1>9, <1>10, DocStep

\* and deletes it.
LEMMA DeleteRowLib ==
    ASSUME LibInv, NEW p \in Slot, DeleteRow(p)
    PROVE  LibInv'
<1>d. PICK d \in Nat : d = req[p].of
  BY LibFacts
<1> DEFINE e == [docs[d] EXCEPT !.row = FALSE]
<1>0. /\ UNCHANGED <<chat, colls, folders, place, scene, requests, faults, excuses>>
      /\ Ends(p) /\ docs' = [docs EXCEPT ![d] = e] /\ Removes(p, d)
  BY <1>d DEF DeleteRow, Dropped, Removes
<1>1. d \in DOMAIN docs /\ DOMAIN docs \subseteq Nat /\ docs[d] \in Docs /\ faults \in 0..MaxFaults /\ chat \in BOOLEAN
  BY <1>d, LibFacts DEF LibInv, LibForms, Fits, DeleteRow, At, LibTyped
<1>2. e \in Docs /\ e.row = FALSE /\ e.ext = docs[d].ext
  BY <1>1, DocFields
<1> HIDE DEF e
<1>3. /\ docs' \in Seq(Docs) /\ DOMAIN docs' = DOMAIN docs /\ docs'[d] = e
      /\ \A i \in DOMAIN docs : i # d => docs'[i] = docs[i]
  BY <1>0, <1>1, <1>2, DocChanged
<1>4. \A i \in DOMAIN docs : docs'[i].ext = docs[i].ext /\ (docs'[i].row => i # d /\ docs'[i] = docs[i])
                             /\ (i # d => docs'[i] = docs[i])
  BY <1>2, <1>3
<1>5. /\ Others(p) /\ req' \in [Slot -> Request] /\ ~ Clears(req'[p]) /\ Fits(req[p])'
      /\ req'[p].pc # "default" /\ req'[p].op \notin {"rename_collection", "delete_collection"}
  BY <1>0, Ended
<1>6. /\ \A q \in Slot, i \in Nat : q # p => (Cleans(q, i)' <=> Cleans(q, i)) /\ (Removes(q, i)' <=> Removes(q, i))
      /\ \A i \in Nat : ~ Cleans(p, i)' /\ ~ Removes(p, i)'
  BY <1>5, OthersClear, ClearsAlone
<1>7. \A i \in Nat : ~ Cleans(p, i) /\ (Removes(p, i) => i = d)
  BY <1>0 DEF Cleans, Removes, At
<1>8. DocInv'
  <2>0. DocInv /\ UNCHANGED <<chat, astray, hollow>>
    BY <1>0 DEF LibInv, excuses
  <2>1. docs[d].ext => d \in astray
    BY <1>0, <1>1, <2>0 DEF DocInv, RemovedIsKnown
  <2>2. ExternalsKept'
    BY <2>0, <2>1, <1>1, <1>3, <1>4, <1>6, <1>7 DEF DocInv, ExternalsKept
  <2>3. RowsKept'
    BY <2>0, <1>1, <1>3, <1>4, <1>6, <1>7 DEF DocInv, RowsKept
  <2>4. RemovedIsKnown'
    BY <2>0, <1>1, <1>3, <1>4, <1>6 DEF DocInv, RemovedIsKnown
  <2>5. CleanedIsGone' /\ NothingListed'
    BY <2>0, <1>1, <1>3, <1>4, <1>6 DEF DocInv, CleanedIsGone, NothingListed
  <2> QED
    BY <2>2, <2>3, <2>4, <2>5 DEF DocInv
<1>9. DocumentIsPlaced'
  BY <1>0, <1>3, <1>4 DEF LibInv, CollInv, DocumentIsPlaced, Stored, Owned, Rows
<1>10. astray' \subseteq DOMAIN docs' /\ hollow' \subseteq DOMAIN docs' /\ odd' = odd
  BY <1>0, <1>3 DEF LibInv, LibTyped, excuses
<1> QED
  BY <1>0, <1>1, <1>3, <1>5, <1>8, <1>9, <1>10, DocStep

\* The documents keep their rows and externals.
LEMMA SameDocs ==
    ASSUME DocInv, NEW p \in Slot, Others(p), ~ Clears(req[p]), ~ Clears(req'[p]),
           UNCHANGED <<chat, astray, hollow>>, DOMAIN docs \subseteq Nat, DOMAIN docs' = DOMAIN docs,
           \A i \in DOMAIN docs : docs'[i].row = docs[i].row /\ docs'[i].ext = docs[i].ext
    PROVE  DocInv'
<1>1. \A q \in Slot, d \in Nat : (Cleans(q, d)' <=> Cleans(q, d)) /\ (Removes(q, d)' <=> Removes(q, d))
  BY OthersClear, ClearsAlone
<1>2. ExternalsKept' /\ RowsKept'
  BY <1>1 DEF DocInv, ExternalsKept, RowsKept
<1>3. RemovedIsKnown' /\ CleanedIsGone' /\ NothingListed'
  BY <1>1 DEF DocInv, RemovedIsKnown, CleanedIsGone, NothingListed
<1> QED
  BY <1>2, <1>3 DEF DocInv

\* A document moves to a collection that exists.
LEMMA CommitMoveLib ==
    ASSUME LibInv, NEW p \in Slot, CommitMove(p)
    PROVE  LibInv'
<1>d. PICK d \in Nat, c \in Nat : d = req[p].of /\ c = req[p].to
  BY LibFacts
<1> DEFINE e == [docs[d] EXCEPT !.coll = c]
<1>0. /\ UNCHANGED <<chat, colls, folders, place, scene, requests, faults, excuses>>
      /\ Ends(p) /\ docs' = IF Stored(d) /\ Owned(c) THEN [docs EXCEPT ![d] = e] ELSE docs
      /\ ~ Clears(req[p])
  BY <1>d DEF CommitMove, At, Clears
<1>1. d \in DOMAIN docs /\ DOMAIN docs \subseteq Nat /\ docs[d] \in Docs /\ faults \in 0..MaxFaults /\ chat \in BOOLEAN
      /\ requests \in 0..MaxRequests
  BY <1>d, LibFacts DEF LibInv, LibForms, Fits, CommitMove, At, LibTyped
<1>2. e \in Docs /\ e.row = docs[d].row /\ e.ext = docs[d].ext /\ e.coll = c
  BY <1>1, DocMoved
<1> HIDE DEF e
<1>3. CASE Stored(d) /\ Owned(c)
  <2>1. docs' = [docs EXCEPT ![d] = e]
    BY <1>0, <1>3
  <2>2. /\ docs' \in Seq(Docs) /\ DOMAIN docs' = DOMAIN docs /\ docs'[d] = e
        /\ \A i \in DOMAIN docs : i # d => docs'[i] = docs[i]
    BY <2>1, <1>1, <1>2, DocChanged
  <2>3. /\ Others(p) /\ req' \in [Slot -> Request] /\ ~ Clears(req'[p]) /\ Fits(req[p])'
        /\ req'[p].pc # "default" /\ req'[p].op \notin {"rename_collection", "delete_collection"}
    BY <1>0, Ended
  <2>4. UNCHANGED <<chat, astray, hollow, odd, colls>> /\ DocInv
    BY <1>0 DEF excuses, LibInv
  <2>5. \A i \in DOMAIN docs : docs'[i].row = docs[i].row /\ docs'[i].ext = docs[i].ext
    BY <1>2, <2>2
  <2>6. DocInv'
    BY <1>0, <1>1, <2>2, <2>3, <2>4, <2>5, SameDocs
  <2>7. DocumentIsPlaced'
    BY <1>2, <1>3, <2>2, <2>4 DEF LibInv, CollInv, DocumentIsPlaced, Stored, Owned, Rows
  <2>8. astray' \subseteq DOMAIN docs' /\ hollow' \subseteq DOMAIN docs'
    BY <2>2, <2>4 DEF LibInv, LibTyped
  <2> QED
    BY <1>0, <1>1, <2>2, <2>3, <2>4, <2>6, <2>7, <2>8, DocStep
<1>4. CASE ~ (Stored(d) /\ Owned(c))
  BY <1>0, <1>1, <1>4, EndLib DEF rows
<1> QED
  BY <1>3, <1>4

\* The deleted session takes its rows along; what they leave outside is to be
\* cleaned up,
LEMMA CommitDeleteLib ==
    ASSUME LibInv, NEW p \in Slot, CommitDelete(p)
    PROVE  LibInv'
<1>0. /\ UNCHANGED <<colls, folders, place, scene, requests, faults, hollow, odd>>
      /\ At(p, "delete_session", "commit") /\ chat' = FALSE
      /\ docs' = [d \in DOMAIN docs |-> [docs[d] EXCEPT !.row = FALSE]]
      /\ astray' = astray \cup (Rows(docs) \ req[p].found)
      /\ req' = [req EXCEPT ![p].pc = "clean"]
      /\ ~ Clears(req[p])
  BY DEF CommitDelete, At, Clears
<1>1. /\ docs \in Seq(Docs) /\ DOMAIN docs \subseteq Nat /\ (\A d \in DOMAIN docs : docs[d] \in Docs)
      /\ faults \in 0..MaxFaults /\ req \in [Slot -> Request]
  BY LibFacts DEF LibInv, LibTyped
<1>2. \A d \in DOMAIN docs : /\ docs'[d] = [docs[d] EXCEPT !.row = FALSE] /\ docs'[d] \in Docs
                             /\ docs'[d].row = FALSE /\ docs'[d].ext = docs[d].ext
  BY <1>0, <1>1, DocFields
<1>3. DOMAIN docs' = DOMAIN docs /\ docs' = [d \in DOMAIN docs |-> docs'[d]]
  BY <1>0
<1>4. docs' \in Seq(Docs)
  BY <1>1, <1>2, <1>3, Changed
<1>5. Turned(p, "delete_session", "clean", req[p].of, req[p].to, req[p].new, req[p].found)
  BY <1>0, <1>1, StepTurns DEF Steps, At
<1>6. /\ Others(p) /\ req' \in [Slot -> Request] /\ Fits(req[p])'
      /\ req'[p].pc # "default" /\ req'[p].op \notin {"rename_collection", "delete_collection"}
      /\ \A i \in Nat : (Cleans(p, i)' <=> i \in req[p].found) /\ ~ Removes(p, i)'
  <2>1. req[p].found \subseteq DOMAIN docs
    BY DEF LibInv, LibForms, Fits
  <2> QED
    BY <1>3, <1>5, <2>1 DEF Turned, Others, Fits, TurnOps, Cleans, Removes, At
<1>7. /\ \A q \in Slot, i \in Nat : q # p => (Cleans(q, i)' <=> Cleans(q, i)) /\ (Removes(q, i)' <=> Removes(q, i))
      /\ \A i \in Nat : ~ Cleans(p, i) /\ ~ Removes(p, i)
  BY <1>0, <1>6, OthersClear, ClearsAlone
<1>8. DocInv'
  <2>0. DocInv
    BY DEF LibInv
  <2>1. ExternalsKept'
    <3> SUFFICES ASSUME NEW d \in DOMAIN docs, docs[d].ext
                 PROVE  d \in astray' \/ \E q \in Slot : Cleans(q, d)'
      BY <1>2, <1>3 DEF ExternalsKept
    <3>1. CASE docs[d].row
      BY <1>0, <1>1, <1>6, <3>1 DEF Rows
    <3>2. CASE ~ docs[d].row
      <4>1. d \in astray \/ \E q \in Slot : Cleans(q, d)
        BY <2>0, <3>2 DEF DocInv, ExternalsKept
      <4> QED
        BY <1>0, <1>1, <1>7, <4>1
    <3> QED
      BY <3>1, <3>2
  <2>2. RowsKept' /\ CleanedIsGone' /\ NothingListed'
    BY <1>2, <1>3 DEF RowsKept, CleanedIsGone, NothingListed
  <2>3. RemovedIsKnown'
    BY <2>0, <1>0, <1>1, <1>2, <1>3, <1>6, <1>7 DEF DocInv, RemovedIsKnown
  <2> QED
    BY <2>1, <2>2, <2>3 DEF DocInv
<1>9. DocumentIsPlaced'
  BY <1>2, <1>3 DEF DocumentIsPlaced, Stored
<1>10. astray' \subseteq DOMAIN docs' /\ hollow' \subseteq DOMAIN docs'
  BY <1>0, <1>3 DEF LibInv, LibTyped, Rows
<1> QED
  BY <1>0, <1>1, <1>3, <1>4, <1>6, <1>8, <1>9, <1>10, DocStep

\* and is cleaned up.
LEMMA CleanUpLib ==
    ASSUME LibInv, NEW p \in Slot, CleanUp(p)
    PROVE  LibInv'
<1>f. PICK found \in SUBSET Nat : found = req[p].found
  <2>1. req[p] \in Request
    BY LibFacts
  <2> QED
    BY <2>1 DEF Request
<1>0. /\ UNCHANGED <<chat, colls, folders, place, scene, requests, hollow, odd>>
      /\ At(p, "delete_session", "clean") /\ Ends(p)
      /\ \/ docs' = Cleaned(found) /\ UNCHANGED <<faults, astray>>
         \/ Fault /\ UNCHANGED docs /\ astray' = astray \cup found
  BY <1>f DEF CleanUp
<1>1. /\ docs \in Seq(Docs) /\ DOMAIN docs \subseteq Nat /\ (\A d \in DOMAIN docs : docs[d] \in Docs)
      /\ faults \in 0..MaxFaults /\ req \in [Slot -> Request] /\ found \subseteq DOMAIN docs
      /\ DocInv /\ chat \in BOOLEAN
  BY <1>f, LibFacts DEF LibInv, LibTyped, LibForms, Fits
<1>2. /\ Others(p) /\ req' \in [Slot -> Request] /\ ~ Clears(req'[p]) /\ Fits(req[p])'
      /\ req'[p].pc # "default" /\ req'[p].op \notin {"rename_collection", "delete_collection"}
  BY <1>0, Ended
<1>3. /\ \A q \in Slot, i \in Nat : q # p => (Cleans(q, i)' <=> Cleans(q, i)) /\ (Removes(q, i)' <=> Removes(q, i))
      /\ \A i \in Nat : ~ Cleans(p, i)' /\ ~ Removes(p, i)' /\ ~ Removes(p, i) /\ (Cleans(p, i) <=> i \in found)
  BY <1>0, <1>2, <1>f, OthersClear, ClearsAlone DEF Cleans, Removes, At
<1>4. /\ docs' \in Seq(Docs) /\ DOMAIN docs' = DOMAIN docs /\ astray \subseteq astray' /\ faults' \in 0..MaxFaults
      /\ astray' \subseteq DOMAIN docs'
      /\ \A d \in DOMAIN docs : /\ docs'[d].row = docs[d].row /\ docs'[d].coll = docs[d].coll
                                /\ d \notin found => docs'[d] = docs[d]
                                /\ d \in found /\ docs'[d].ext => d \in astray'
                                /\ docs'[d].ext => docs[d].ext
  <2>0. astray \subseteq DOMAIN docs
    BY DEF LibInv, LibTyped
  <2>1. CASE docs' = Cleaned(found) /\ UNCHANGED <<faults, astray>>
    <3>1. \A d \in DOMAIN docs : docs'[d] = IF d \in found THEN [docs[d] EXCEPT !.ext = FALSE] ELSE docs[d]
      BY <2>1 DEF Cleaned
    <3>2. \A d \in DOMAIN docs : LET e == [docs[d] EXCEPT !.ext = FALSE] IN
            e \in Docs /\ e.ext = FALSE /\ e.row = docs[d].row /\ e.coll = docs[d].coll
      BY <1>1, DocFields
    <3>3. \A d \in DOMAIN docs : /\ docs'[d] \in Docs /\ docs'[d].row = docs[d].row /\ docs'[d].coll = docs[d].coll
                                 /\ (d \notin found => docs'[d] = docs[d]) /\ (d \in found => docs'[d].ext = FALSE)
      BY <1>1, <3>1, <3>2
    <3>4. DOMAIN docs' = DOMAIN docs /\ docs' = [d \in DOMAIN docs |-> docs'[d]]
      BY <2>1 DEF Cleaned
    <3>5. docs' \in Seq(Docs)
      BY <1>1, <3>3, <3>4, Changed
    <3> QED
      BY <1>1, <2>0, <2>1, <3>3, <3>4, <3>5
  <2>2. CASE Fault /\ UNCHANGED docs /\ astray' = astray \cup found
    <3>1. faults' \in 0..MaxFaults
      BY <2>2, Faulted
    <3> QED
      BY <1>1, <2>0, <2>2, <3>1
  <2> QED
    BY <1>0, <2>1, <2>2
<1>5. \A d \in found : ~ docs[d].row
  BY <1>1, <1>3 DEF DocInv, CleanedIsGone
<1>6. DocInv'
  <2>1. ExternalsKept'
    <3> SUFFICES ASSUME NEW d \in DOMAIN docs, docs'[d].ext, ~ docs'[d].row
                 PROVE  d \in astray' \/ \E q \in Slot : Cleans(q, d)'
      BY <1>4 DEF ExternalsKept
    <3>1. CASE d \in found
      BY <1>4, <3>1
    <3>2. CASE d \notin found
      <4>1. d \in astray \/ \E q \in Slot : Cleans(q, d)
        BY <1>1, <1>4, <3>2 DEF DocInv, ExternalsKept
      <4>2. ~ Cleans(p, d)
        BY <1>1, <1>3, <3>2
      <4> QED
        BY <1>1, <1>3, <1>4, <4>1, <4>2
    <3> QED
      BY <3>1, <3>2
  <2>2. RowsKept'
    <3> SUFFICES ASSUME NEW d \in DOMAIN docs, ~ docs'[d].ext, docs'[d].row
                 PROVE  d \in hollow' \/ \E q \in Slot : Removes(q, d)'
      BY <1>4 DEF RowsKept
    <3>1. d \notin found
      BY <1>4, <1>5
    <3>2. d \in hollow \/ \E q \in Slot : Removes(q, d)
      BY <1>1, <1>4, <3>1 DEF DocInv, RowsKept
    <3> QED
      BY <1>0, <1>1, <1>3, <3>2
  <2>3. RemovedIsKnown'
    BY <1>1, <1>3, <1>4 DEF DocInv, RemovedIsKnown
  <2>4. CleanedIsGone' /\ NothingListed'
    BY <1>0, <1>1, <1>3, <1>4 DEF DocInv, CleanedIsGone, NothingListed
  <2> QED
    BY <2>1, <2>2, <2>3, <2>4 DEF DocInv
<1>7. DocumentIsPlaced'
  BY <1>0, <1>4 DEF LibInv, CollInv, DocumentIsPlaced, Stored, Owned, Rows
<1>8. hollow' \subseteq DOMAIN docs'
  BY <1>0, <1>4 DEF LibInv, LibTyped
<1> QED
  BY <1>0, <1>1, <1>2, <1>4, <1>6, <1>7, <1>8, DocStep

\* What a request that dies leaves half-way is known.
LEMMA DieLib ==
    ASSUME LibInv, NEW p \in Slot, Die(p)
    PROVE  LibInv'
<1>0. /\ Fault /\ Ends(p) /\ UNCHANGED <<rows, scene, requests, odd>>
      /\ astray' = astray \cup req[p].found
      /\ hollow' = IF At(p, "delete_document", "row") THEN hollow \cup {req[p].of} ELSE hollow
  BY DEF Die
<1>1. /\ docs \in Seq(Docs) /\ DOMAIN docs \subseteq Nat /\ docs' = docs
      /\ faults' \in 0..MaxFaults /\ req[p].found \subseteq DOMAIN docs
      /\ DocInv /\ chat \in BOOLEAN /\ (At(p, "delete_document", "row") => req[p].of \in DOMAIN docs)
      /\ astray \subseteq DOMAIN docs /\ hollow \subseteq DOMAIN docs
  BY <1>0, LibFacts, Faulted DEF LibInv, LibTyped, LibForms, Fits, At, rows
<1>2. /\ Others(p) /\ req' \in [Slot -> Request] /\ ~ Clears(req'[p]) /\ Fits(req[p])'
      /\ req'[p].pc # "default" /\ req'[p].op \notin {"rename_collection", "delete_collection"}
  BY <1>0, Ended
<1>3. /\ \A q \in Slot, i \in Nat : q # p => (Cleans(q, i)' <=> Cleans(q, i)) /\ (Removes(q, i)' <=> Removes(q, i))
      /\ \A i \in Nat : /\ ~ Cleans(p, i)' /\ ~ Removes(p, i)'
                        /\ Cleans(p, i) => i \in req[p].found
                        /\ Removes(p, i) => i \in hollow'
  BY <1>0, <1>2, OthersClear, ClearsAlone DEF Cleans, Removes, At
<1>4. astray \subseteq astray' /\ hollow \subseteq hollow' /\ req[p].found \subseteq astray'
  BY <1>0
<1>5. ExternalsKept'
  BY <1>1, <1>3, <1>4 DEF DocInv, ExternalsKept
<1>6. RowsKept'
  BY <1>1, <1>3, <1>4 DEF DocInv, RowsKept
<1>7. RemovedIsKnown' /\ CleanedIsGone' /\ NothingListed'
  BY <1>0, <1>1, <1>3, <1>4 DEF DocInv, RemovedIsKnown, CleanedIsGone, NothingListed, rows
<1>8. DocInv'
  BY <1>5, <1>6, <1>7 DEF DocInv
<1>9. DocumentIsPlaced'
  BY <1>0, PlacedFrame DEF LibInv, CollInv, rows
<1>10. astray' \subseteq DOMAIN docs' /\ hollow' \subseteq DOMAIN docs'
  BY <1>0, <1>1
<1> QED
  BY <1>0, <1>1, <1>2, <1>8, <1>9, <1>10, DocStep DEF rows

\* A step that changes collections and no other row.
LEMMA CollStep ==
    ASSUME LibInv, NEW p \in Slot, Others(p), req' \in [Slot -> Request], ~ Clears(req[p]), ~ Clears(req'[p]),
           UNCHANGED <<chat, docs, folders, place, scene, astray, hollow>>, requests' \in 0..MaxRequests, faults' = faults,
           odd' \in BOOLEAN, colls' \in Seq(Named), DOMAIN colls \subseteq DOMAIN colls',
           CollInv', Fits(req[p])'
    PROVE  LibInv'
<1>1. LibTyped'
  BY DEF LibInv, LibTyped
<1>2. LibForms'
  BY FormsFrame DEF LibInv
<1>3. DocInv'
  BY DocFrame DEF LibInv
<1>4. FolderIsThere'
  BY FolderFrame DEF LibInv
<1> QED
  BY <1>1, <1>2, <1>3, <1>4 DEF LibInv

\* A collection is added; no other request holds it.
LEMMA CollAdded ==
    ASSUME LibInv, NEW e \in Named, colls' = Append(colls, e)
    PROVE  /\ colls' \in Seq(Named) /\ DOMAIN colls' = DOMAIN colls \cup {Len(colls) + 1}
           /\ colls'[Len(colls) + 1] = e /\ Len(colls) + 1 \notin DOMAIN colls /\ Len(colls) + 1 \in Nat
           /\ \A c \in DOMAIN colls : colls'[c] = colls[c]
           /\ Defaults' = Defaults \cup (IF e.row /\ e.name = "Default" THEN {Len(colls) + 1} ELSE {})
<1>1. colls \in Seq(Named)
  BY LibFacts
<1>2. /\ colls' \in Seq(Named) /\ Len(colls) \in Nat /\ DOMAIN colls = 1..Len(colls)
      /\ DOMAIN colls' = 1..(Len(colls) + 1) /\ colls'[Len(colls) + 1] = e
      /\ \A c \in DOMAIN colls : colls'[c] = colls[c]
  BY <1>1, Appended
<1>3. DOMAIN colls' = DOMAIN colls \cup {Len(colls) + 1} /\ Len(colls) + 1 \notin DOMAIN colls
  BY <1>2
<1>4. \A c : c \in Defaults <=> c \in DOMAIN colls /\ colls[c].row /\ colls[c].name = "Default"
  BY DEF Defaults, Rows
<1>5. \A c : c \in Defaults' <=> c \in DOMAIN colls' /\ colls'[c].row /\ colls'[c].name = "Default"
  BY DEF Defaults, Rows
<1>6. \A c : c \in Defaults' <=> c \in Defaults \/ (c = Len(colls) + 1 /\ e.row /\ e.name = "Default")
  BY <1>2, <1>3, <1>4, <1>5
<1>7. Defaults' = Defaults \cup (IF e.row /\ e.name = "Default" THEN {Len(colls) + 1} ELSE {})
  BY <1>6
<1> QED
  BY <1>2, <1>3, <1>7

\* Documents stay in a collection while collections are only added.
LEMMA PlacedGrows ==
    ASSUME DocumentIsPlaced, docs' = docs, DOMAIN colls \subseteq DOMAIN colls', \A c \in DOMAIN colls : colls[c].row => colls'[c].row
    PROVE  DocumentIsPlaced'
  BY DEF DocumentIsPlaced, Stored, Owned, Rows

\* The Default collection is added once, unless two requests do so at once.
LEMMA AddDefaultLib ==
    ASSUME LibInv, NEW p \in Slot, AddDefault(p)
    PROVE  LibInv'
<1>r. PICK op \in Ops, of \in Nat : op = req[p].op /\ of = req[p].of
  BY LibFacts
<1>n. PICK n \in Nat : n = Len(colls) + 1
  BY LibFacts
<1> DEFINE e == [name |-> "Default", row |-> TRUE]
<1>0. /\ req[p].pc = "default" /\ colls' = Append(colls, e)
      /\ IF op = "upload" THEN Goes(p, op, "insert", n, 0) ELSE Goes(p, op, "move", of, n)
      /\ UNCHANGED <<chat, docs, folders, place, scene, requests, faults, excuses>>
  BY <1>r, <1>n DEF AddDefault
<1>1. e \in Named /\ e.name = "Default" /\ e.row = TRUE
  BY DEF Named, Names
<1> HIDE DEF e
<1>2. /\ colls' \in Seq(Named) /\ DOMAIN colls' = DOMAIN colls \cup {n} /\ colls'[n] = e /\ n \notin DOMAIN colls
      /\ \A c \in DOMAIN colls : colls'[c] = colls[c]
      /\ Defaults' = Defaults \cup {n}
  BY <1>n, <1>0, <1>1, CollAdded
<1>3. /\ req \in [Slot -> Request] /\ requests \in 0..MaxRequests /\ odd \in BOOLEAN /\ odd' = odd
      /\ op \in {"upload", "delete_collection"} /\ (op = "delete_collection" => of \in DOMAIN colls)
      /\ ~ Clears(req[p])
  BY <1>0, <1>r DEF LibInv, LibTyped, LibForms, Fits, excuses, Clears
<1>4. \/ op = "upload" /\ Turned(p, "upload", "insert", n, 0, "", {})
      \/ op = "delete_collection" /\ Turned(p, "delete_collection", "move", of, n, "", {})
  <2>1. "insert" \in Steps /\ "move" \in Steps /\ 0 \in Nat /\ "upload" \in Ops /\ "delete_collection" \in Ops
    BY DEF Steps, TurnSteps, Ops
  <2>2. CASE op = "upload"
    <3>1. Goes(p, "upload", "insert", n, 0)
      BY <1>0, <2>2
    <3> QED
      BY <1>3, <2>1, <2>2, <3>1, GoesTurns
  <2>3. CASE op = "delete_collection"
    <3>1. Goes(p, "delete_collection", "move", of, n)
      BY <1>0, <2>3
    <3> QED
      BY <1>3, <2>1, <2>3, <3>1, GoesTurns
  <2> QED
    BY <1>3, <2>2, <2>3
<1>5. /\ Others(p) /\ req' \in [Slot -> Request] /\ ~ Clears(req'[p]) /\ Fits(req[p])'
      /\ req'[p].pc # "default" /\ req'[p].op # "rename_collection"
      /\ req'[p].op = "delete_collection" => req'[p].of = of /\ req'[p].to = n /\ op = "delete_collection"
  BY <1>2, <1>3, <1>4 DEF Turned, Others, Clears, Fits, TurnOps
<1>6. DocumentIsPlaced'
  <2>1. docs' = docs /\ DocumentIsPlaced
    BY <1>0 DEF LibInv, CollInv
  <2> QED
    BY <1>2, <2>1, PlacedGrows
<1>7. ASSUME ~ odd PROVE DefaultKept'
  <2>0. DefaultKept
    BY <1>7 DEF LibInv, CollInv
  <2>1. (\A c \in DOMAIN colls : c \notin Defaults) /\ \A q \in Slot : q # p => req[q].pc # "default"
    BY <1>0, <2>0 DEF DefaultKept, AddsAlone, Adds
  <2>2. Defaults' = {n}
    BY <1>2, <2>1 DEF Defaults, Rows
  <2>3. OneDefault' /\ DefaultStays'
    BY <1>2, <2>2 DEF OneDefault, DefaultStays
  <2>4. AddsAlone'
    BY <1>5, <2>1 DEF AddsAlone, Adds, Others
  <2>5. NamesDefault'
    <3> SUFFICES ASSUME NEW q \in Slot, req'[q].op = "rename_collection"
                 PROVE  colls'[req'[q].of].name = "Default" <=> req'[q].new = "Default"
      BY DEF NamesDefault, IsDefault
    <3>1. req'[q] = req[q]
      BY <1>5 DEF Others
    <3>2. req[q].of \in DOMAIN colls /\ (colls[req[q].of].name = "Default" <=> req[q].new = "Default")
      BY <2>0, <3>1 DEF LibInv, LibForms, Fits, DefaultKept, NamesDefault, IsDefault
    <3> QED
      BY <1>2, <3>1, <3>2
  <2>6. SparesDefault'
    <3> SUFFICES ASSUME NEW q \in Slot, req'[q].op = "delete_collection"
                 PROVE  /\ colls'[req'[q].of].name # "Default"
                        /\ req'[q].pc = "move" => colls'[req'[q].to].name = "Default"
      BY DEF SparesDefault, IsDefault
    <3>1. CASE q = p
      <4>1. req[p].op = "delete_collection" /\ req[p].of = of /\ of \in DOMAIN colls
        BY <1>3, <1>5, <1>r, <3>1
      <4>2. colls[of].name # "Default"
        BY <2>0, <4>1 DEF DefaultKept, SparesDefault, IsDefault
      <4> QED
        BY <1>1, <1>2, <1>5, <3>1, <4>1, <4>2
    <3>2. CASE q # p
      <4>1. req'[q] = req[q]
        BY <1>5, <3>2 DEF Others
      <4>2. /\ req[q].of \in DOMAIN colls /\ colls[req[q].of].name # "Default"
            /\ req[q].pc = "move" => req[q].to \in DOMAIN colls /\ colls[req[q].to].name = "Default"
        BY <2>0, <4>1 DEF LibInv, LibForms, Fits, DefaultKept, SparesDefault, IsDefault
      <4> QED
        BY <1>2, <4>1, <4>2
    <3> QED
      BY <3>1, <3>2
  <2> QED
    BY <2>3, <2>4, <2>5, <2>6 DEF DefaultKept
<1>8. CollInv'
  BY <1>3, <1>6, <1>7 DEF CollInv
<1>9. UNCHANGED <<chat, docs, folders, place, scene, astray, hollow>> /\ faults' = faults /\ requests' = requests
  BY <1>0 DEF excuses
<1> QED
  BY <1>2, <1>3, <1>5, <1>8, <1>9, CollStep

\* The Default stays what it is, and no request comes to hold a collection.
LEMMA DefaultsKept ==
    ASSUME LibForms, DefaultKept, NEW p \in Slot, Others(p),
           req'[p] = req[p] \/ (req'[p].pc # "default" /\ req'[p].op \notin {"rename_collection", "delete_collection"}),
           Defaults' = Defaults, Defaults \subseteq DOMAIN colls, DOMAIN colls \subseteq DOMAIN colls',
           \A c \in DOMAIN colls : colls'[c].name = "Default" <=> colls[c].name = "Default",
           (\E c \in DOMAIN colls' : colls'[c].name = "Default" \/ ~ colls'[c].row)
             => (\E c \in DOMAIN colls : colls[c].name = "Default" \/ ~ colls[c].row) \/ Defaults # {}
    PROVE  DefaultKept'
<1>1. OneDefault'
  BY DEF DefaultKept, OneDefault
<1>2. DefaultStays'
  BY DEF DefaultKept, DefaultStays, IsDefault
<1>3. \A q \in Slot : req'[q] = req[q] \/ (req'[q].pc # "default" /\ req'[q].op \notin {"rename_collection", "delete_collection"})
  BY DEF Others
<1>4. AddsAlone'
  BY <1>3 DEF DefaultKept, AddsAlone, Adds
<1>5. NamesDefault'
  <2> SUFFICES ASSUME NEW q \in Slot, req'[q].op = "rename_collection"
               PROVE  colls'[req'[q].of].name = "Default" <=> req'[q].new = "Default"
    BY DEF NamesDefault, IsDefault
  <2>1. req'[q] = req[q]
    BY <1>3
  <2>2. req[q].of \in DOMAIN colls /\ (colls[req[q].of].name = "Default" <=> req[q].new = "Default")
    BY <2>1 DEF LibForms, Fits, DefaultKept, NamesDefault, IsDefault
  <2> QED
    BY <2>1, <2>2
<1>6. SparesDefault'
  <2> SUFFICES ASSUME NEW q \in Slot, req'[q].op = "delete_collection"
               PROVE  /\ colls'[req'[q].of].name # "Default"
                      /\ req'[q].pc = "move" => colls'[req'[q].to].name = "Default"
    BY DEF SparesDefault, IsDefault
  <2>1. req'[q] = req[q]
    BY <1>3
  <2>2. /\ req[q].of \in DOMAIN colls /\ colls[req[q].of].name # "Default"
        /\ req[q].pc = "move" => req[q].to \in DOMAIN colls /\ colls[req[q].to].name = "Default"
    BY <2>1 DEF LibForms, Fits, DefaultKept, SparesDefault, IsDefault
  <2> QED
    BY <2>1, <2>2
<1> QED
  BY <1>1, <1>2, <1>4, <1>5, <1>6 DEF DefaultKept

\* A new collection keeps the invariant.
LEMMA CreateCollectionLib ==
    ASSUME LibInv, NEW p \in Slot, NEW name \in Names, CreateCollection(p, name)
    PROVE  LibInv'
<1>n. PICK n \in Nat : n = Len(colls) + 1
  BY LibFacts
<1> DEFINE e == [name |-> name, row |-> TRUE]
<1>0. /\ colls' = Append(colls, e) /\ odd' = (odd \/ name = "Default") /\ Asks(p, "create_collection")
      /\ UNCHANGED <<chat, docs, folders, place, req, scene, faults, astray, hollow>>
  BY DEF CreateCollection
<1>1. e \in Named /\ e.name = name /\ e.row = TRUE
  BY DEF Named
<1> HIDE DEF e
<1>2. /\ colls' \in Seq(Named) /\ DOMAIN colls' = DOMAIN colls \cup {n} /\ colls'[n] = e /\ n \notin DOMAIN colls
      /\ \A c \in DOMAIN colls : colls'[c] = colls[c]
      /\ Defaults' = Defaults \cup (IF e.row /\ e.name = "Default" THEN {n} ELSE {})
  BY <1>n, <1>0, <1>1, CollAdded
<1>3. /\ Others(p) /\ req' \in [Slot -> Request] /\ req'[p] = req[p] /\ ~ Clears(req[p]) /\ ~ Clears(req'[p])
      /\ requests' \in 0..MaxRequests /\ odd \in BOOLEAN /\ odd' \in BOOLEAN
  BY <1>0, LibFacts, Asked DEF Others
<1>4. Fits(req[p])'
  <2>1. Fits(req[p]) /\ docs' = docs /\ req'[p] = req[p]
    BY <1>0 DEF LibInv, LibForms
  <2> QED
    BY <1>2, <2>1 DEF Fits
<1>5. DocumentIsPlaced'
  BY <1>0, <1>2, PlacedGrows DEF LibInv, CollInv
<1>6. ASSUME ~ odd' PROVE DefaultKept'
  <2>1. ~ odd /\ name # "Default"
    BY <1>0, <1>3, <1>6
  <2>2. LibForms /\ DefaultKept
    BY <2>1 DEF LibInv, CollInv
  <2>3. Defaults' = Defaults
    BY <1>1, <1>2, <2>1
  <2>4. Defaults \subseteq DOMAIN colls /\ DOMAIN colls \subseteq DOMAIN colls'
    BY <1>2 DEF Defaults, Rows
  <2>5. \A c \in DOMAIN colls : colls'[c].name = "Default" <=> colls[c].name = "Default"
    BY <1>2
  <2>6. (\E c \in DOMAIN colls' : colls'[c].name = "Default" \/ ~ colls'[c].row)
             => (\E c \in DOMAIN colls : colls[c].name = "Default" \/ ~ colls[c].row)
    BY <1>1, <1>2, <2>1
  <2> QED
    BY <1>3, <2>2, <2>3, <2>4, <2>5, <2>6, DefaultsKept
<1>7. CollInv'
  BY <1>5, <1>6 DEF CollInv
<1> QED
  BY <1>0, <1>2, <1>3, <1>4, <1>7, CollStep

\* One collection changes in place.
LEMMA CollChanged ==
    ASSUME LibInv, NEW c \in DOMAIN colls, NEW e \in Named, colls' = [colls EXCEPT ![c] = e]
    PROVE  /\ colls' \in Seq(Named) /\ DOMAIN colls' = DOMAIN colls /\ colls'[c] = e
           /\ \A i \in DOMAIN colls : i # c => colls'[i] = colls[i]
<1>1. colls \in Seq(Named) /\ \A i \in DOMAIN colls : colls[i] \in Named
  BY LibFacts
<1>2. /\ DOMAIN colls' = DOMAIN colls /\ colls'[c] = e /\ \A i \in DOMAIN colls : i # c => colls'[i] = colls[i]
      /\ colls' = [i \in DOMAIN colls |-> colls'[i]]
  OBVIOUS
<1>3. \A i \in DOMAIN colls : colls'[i] \in Named
  BY <1>1, <1>2
<1> QED
  BY <1>1, <1>2, <1>3, Changed

\* A named row that is renamed or deleted is one.
LEMMA NamedFields ==
    ASSUME NEW e \in Named, NEW name \in Names
    PROVE  /\ [e EXCEPT !.name = name] \in Named /\ [e EXCEPT !.name = name].name = name
           /\ [e EXCEPT !.name = name].row = e.row
           /\ [e EXCEPT !.row = FALSE] \in Named /\ [e EXCEPT !.row = FALSE].row = FALSE
           /\ [e EXCEPT !.row = FALSE].name = e.name
<1>1. [e EXCEPT !.name = name] \in Named /\ [e EXCEPT !.row = FALSE] \in Named
  BY ZenonT(60) DEF Named
<1> QED
  BY <1>1 DEF Named

\* The commit of a rename keeps the invariant.
LEMMA CommitNameLib ==
    ASSUME LibInv, NEW p \in Slot, CommitName(p)
    PROVE  LibInv'
<1>c. PICK c \in Nat, name \in Names : c = req[p].of /\ name = req[p].new
  BY LibFacts DEF CommitName, LibInv, LibForms, Fits
<1> DEFINE e == [colls[c] EXCEPT !.name = name]
<1>0. /\ req[p].op = "rename_collection" /\ Ends(p)
      /\ colls' = IF Owned(c) THEN [colls EXCEPT ![c] = e] ELSE colls
      /\ UNCHANGED <<chat, docs, folders, place, scene, requests, faults, excuses>>
      /\ ~ Clears(req[p])
  BY <1>c DEF CommitName, Clears
<1>1. /\ c \in DOMAIN colls /\ colls[c] \in Named /\ requests \in 0..MaxRequests /\ faults \in 0..MaxFaults /\ odd \in BOOLEAN
  BY <1>c, <1>0, LibFacts DEF LibInv, LibForms, Fits, LibTyped
<1>2. e \in Named /\ e.name = name /\ e.row = colls[c].row
  BY <1>1, NamedFields
<1> HIDE DEF e
<1>3. CASE Owned(c)
  <2>1. /\ colls' \in Seq(Named) /\ DOMAIN colls' = DOMAIN colls /\ colls'[c] = e
        /\ \A i \in DOMAIN colls : i # c => colls'[i] = colls[i]
    BY <1>0, <1>1, <1>2, <1>3, CollChanged
  <2>2. /\ Others(p) /\ req' \in [Slot -> Request] /\ ~ Clears(req'[p]) /\ Fits(req[p])'
        /\ req'[p].pc # "default" /\ req'[p].op \notin {"rename_collection", "delete_collection"}
    BY <1>0, Ended
  <2>3. DocumentIsPlaced'
    BY <1>0, <1>2, <2>1, PlacedGrows DEF LibInv, CollInv
  <2>4. ASSUME ~ odd' PROVE DefaultKept'
    <3>1. LibForms /\ DefaultKept
      BY <1>0, <2>4 DEF LibInv, CollInv, excuses
    <3>2. colls[c].name = "Default" <=> name = "Default"
      BY <1>c, <1>0, <3>1 DEF DefaultKept, NamesDefault, IsDefault
    <3>3. \A i \in DOMAIN colls : (colls'[i].name = "Default" <=> colls[i].name = "Default") /\ colls'[i].row = colls[i].row
      BY <1>2, <2>1, <3>2
    <3>4. Defaults' = Defaults /\ Defaults \subseteq DOMAIN colls
      BY <2>1, <3>3 DEF Defaults, Rows
    <3> QED
      BY <2>1, <2>2, <3>1, <3>3, <3>4, DefaultsKept
  <2>5. CollInv'
    BY <2>3, <2>4 DEF CollInv
  <2>6. UNCHANGED <<chat, docs, folders, place, scene, astray, hollow>> /\ faults' = faults /\ requests' = requests /\ odd' = odd
    BY <1>0 DEF excuses
  <2> QED
    BY <1>0, <1>1, <2>1, <2>2, <2>5, <2>6, CollStep
<1>4. CASE ~ Owned(c)
  BY <1>0, <1>1, <1>4, EndLib DEF rows
<1> QED
  BY <1>3, <1>4

\* A collection that is deleted moves its documents to the Default one first.
LEMMA MoveAndDeleteLib ==
    ASSUME LibInv, NEW p \in Slot, MoveAndDelete(p)
    PROVE  LibInv'
<1>c. PICK of \in Nat, to \in Nat : of = req[p].of /\ to = req[p].to
  BY LibFacts
<1> DEFINE e == [colls[of] EXCEPT !.row = FALSE]
<1>0. /\ req[p].op = "delete_collection" /\ req[p].pc = "move" /\ Ends(p)
      /\ \/ /\ Owned(to) /\ (to = of => \A d \in Rows(docs) : docs[d].coll # of)
            /\ docs' = Moved(of, to) /\ colls' = [colls EXCEPT ![of] = e]
         \/ UNCHANGED <<docs, colls>>
      /\ UNCHANGED <<chat, folders, place, scene, requests, faults, excuses>>
      /\ ~ Clears(req[p])
  BY <1>c DEF MoveAndDelete, At, Clears
<1>1. /\ of \in DOMAIN colls /\ colls[of] \in Named /\ requests \in 0..MaxRequests /\ faults \in 0..MaxFaults
      /\ odd \in BOOLEAN /\ chat \in BOOLEAN
      /\ docs \in Seq(Docs) /\ DOMAIN docs \subseteq Nat /\ \A d \in DOMAIN docs : docs[d] \in Docs
  BY <1>c, <1>0, LibFacts DEF LibInv, LibForms, Fits, LibTyped
<1>2. e \in Named /\ e.name = colls[of].name /\ e.row = FALSE
  <2>1. "Default" \in Names
    BY DEF Names
  <2> QED
    BY <1>1, <2>1, NamedFields
<1> HIDE DEF e
<1>3. CASE /\ Owned(to) /\ (to = of => \A d \in Rows(docs) : docs[d].coll # of)
           /\ docs' = Moved(of, to) /\ colls' = [colls EXCEPT ![of] = e]
  <2>1. /\ colls' \in Seq(Named) /\ DOMAIN colls' = DOMAIN colls /\ colls'[of] = e
        /\ \A i \in DOMAIN colls : i # of => colls'[i] = colls[i]
    BY <1>1, <1>2, <1>3, CollChanged
  <2>2. /\ Others(p) /\ req' \in [Slot -> Request] /\ ~ Clears(req'[p]) /\ Fits(req[p])'
        /\ req'[p].pc # "default" /\ req'[p].op \notin {"rename_collection", "delete_collection"}
    BY <1>0, Ended
  <2>3. \A d \in DOMAIN docs : docs'[d] = IF docs[d].coll = of /\ docs[d].row THEN [docs[d] EXCEPT !.coll = to] ELSE docs[d]
    BY <1>3 DEF Moved, Stored
  <2>4. \A d \in DOMAIN docs : LET f == [docs[d] EXCEPT !.coll = to] IN
          f \in Docs /\ f.coll = to /\ f.row = docs[d].row /\ f.ext = docs[d].ext
    BY <1>1, DocMoved
  <2>5. \A d \in DOMAIN docs : /\ docs'[d] \in Docs /\ docs'[d].row = docs[d].row /\ docs'[d].ext = docs[d].ext
                               /\ docs'[d].coll = IF docs[d].coll = of /\ docs[d].row THEN to ELSE docs[d].coll
    BY <1>1, <2>3, <2>4
  <2>6. DOMAIN docs' = DOMAIN docs /\ docs' = [d \in DOMAIN docs |-> docs'[d]]
    BY <1>3 DEF Moved
  <2>7. docs' \in Seq(Docs)
    BY <1>1, <2>5, <2>6, Changed
  <2>8. DocInv'
    BY <1>0, <1>1, <2>2, <2>5, <2>6, SameDocs DEF LibInv, excuses
  <2>9. DocumentIsPlaced'
    <3> SUFFICES ASSUME NEW d \in DOMAIN docs, docs[d].row
                 PROVE  docs'[d].coll \in DOMAIN colls /\ colls'[docs'[d].coll].row
      BY <2>1, <2>5, <2>6 DEF DocumentIsPlaced, Stored, Owned, Rows
    <3>1. docs[d].coll \in DOMAIN colls /\ colls[docs[d].coll].row
      BY DEF LibInv, CollInv, DocumentIsPlaced, Stored, Owned, Rows
    <3>2. to \in DOMAIN colls /\ colls[to].row
      BY <1>3 DEF Owned, Rows
    <3>3. to = of => docs[d].coll # of
      BY <1>3 DEF Rows
    <3> QED
      BY <2>1, <2>5, <3>1, <3>2, <3>3
  <2>10. ASSUME ~ odd' PROVE DefaultKept'
    <3>1. LibForms /\ DefaultKept
      BY <1>0, <2>10 DEF LibInv, CollInv, excuses
    <3>2. colls[of].name # "Default" /\ colls[to].name = "Default"
      BY <1>c, <1>0, <3>1 DEF DefaultKept, SparesDefault, IsDefault
    <3>3. to \in Defaults
      BY <1>3, <3>2 DEF Defaults, Owned
    <3>4. \A i \in DOMAIN colls : (colls'[i].name = "Default" <=> colls[i].name = "Default")
      BY <1>2, <2>1
    <3>5. \A i \in DOMAIN colls : colls'[i].name = "Default" => colls'[i].row = colls[i].row
      BY <1>2, <2>1, <3>2
    <3>6. Defaults' = Defaults /\ Defaults \subseteq DOMAIN colls
      BY <2>1, <3>4, <3>5 DEF Defaults, Rows
    <3> QED
      BY <2>1, <2>2, <3>1, <3>3, <3>4, <3>6, DefaultsKept
  <2>11. CollInv'
    BY <2>9, <2>10 DEF CollInv
  <2>12. LibTyped'
    BY <1>0, <2>1, <2>2, <2>6, <2>7 DEF LibInv, LibTyped, excuses
  <2>13. LibForms'
    BY <2>1, <2>2, <2>6, FormsFrame DEF LibInv
  <2>14. FolderIsThere'
    BY <1>0, FolderFrame DEF LibInv
  <2> QED
    BY <2>8, <2>11, <2>12, <2>13, <2>14 DEF LibInv
<1>4. CASE UNCHANGED <<docs, colls>>
  BY <1>0, <1>1, <1>4, EndLib DEF rows
<1> QED
  BY <1>0, <1>3, <1>4

\* A step that changes folders, and what refers to them.
LEMMA FolderStep ==
    ASSUME LibInv, NEW p \in Slot, Others(p), req' \in [Slot -> Request], ~ Clears(req[p]), ~ Clears(req'[p]),
           UNCHANGED <<chat, docs, colls, scene, faults, excuses>>, requests' \in 0..MaxRequests,
           folders' \in Seq(Named), place' \in [folder : Nat, pinned : BOOLEAN], place'.folder <= Len(folders'),
           FolderIsThere', Fits(req[p])',
           req'[p] = req[p] \/ (req'[p].pc # "default" /\ req'[p].op \notin {"rename_collection", "delete_collection"})
    PROVE  LibInv'
<1>1. LibTyped'
  BY DEF LibInv, LibTyped, excuses
<1>2. LibForms'
  BY FormsFrame DEF LibInv
<1>3. DocInv'
  BY DocFrame DEF LibInv, excuses
<1>4. CollInv'
  <2>1. DocumentIsPlaced'
    BY PlacedFrame DEF LibInv, CollInv
  <2>2. odd' = odd /\ colls' = colls
    BY DEF excuses
  <2>3. ASSUME ~ odd' PROVE DefaultKept'
    <3>1. DefaultKept /\ LibForms
      BY <2>2, <2>3 DEF LibInv, CollInv
    <3>2. Defaults' = Defaults /\ Defaults \subseteq DOMAIN colls
      BY <2>2 DEF Defaults, Rows
    <3> QED
      BY <2>2, <3>1, <3>2, DefaultsKept
  <2> QED
    BY <2>1, <2>3 DEF CollInv
<1> QED
  BY <1>1, <1>2, <1>3, <1>4 DEF LibInv

\* The session is filed under a folder that exists.
LEMMA CommitFolderLib ==
    ASSUME LibInv, NEW p \in Slot, CommitFolder(p)
    PROVE  LibInv'
<1>c. PICK name \in Names : name = req[p].new
  BY DEF CommitFolder, LibInv, LibForms, Fits
<1> DEFINE e == [name |-> name, row |-> TRUE]
<1>0. /\ req[p].op = "create_folder" /\ Ends(p) /\ folders' = (IF Taken(name) THEN folders ELSE Append(folders, e))
      /\ UNCHANGED <<chat, docs, colls, place, scene, requests, faults, excuses>>
      /\ ~ Clears(req[p])
  BY <1>c DEF CommitFolder, Clears
<1>1. e \in Named /\ e.name = name /\ e.row = TRUE
  BY DEF Named
<1> HIDE DEF e
<1>2. /\ requests \in 0..MaxRequests /\ faults \in 0..MaxFaults
      /\ place \in [folder : Nat, pinned : BOOLEAN] /\ place.folder <= Len(folders) /\ place.folder \in Nat
      /\ folders \in Seq(Named)
  BY DEF LibInv, LibTyped
<1>3. CASE ~ Taken(name)
  <2>1. folders' = Append(folders, e)
    BY <1>0, <1>3
  <2>2. /\ folders' \in Seq(Named) /\ Len(folders) \in Nat /\ Len(folders') = Len(folders) + 1
        /\ DOMAIN folders = 1..Len(folders) /\ DOMAIN folders' = 1..(Len(folders) + 1)
        /\ \A i \in DOMAIN folders : i \in DOMAIN folders' /\ folders'[i] = folders[i]
        /\ folders'[Len(folders) + 1] = e
    BY <1>1, <1>2, <2>1, Appended
  <2>3. /\ Others(p) /\ req' \in [Slot -> Request] /\ ~ Clears(req'[p]) /\ Fits(req[p])'
        /\ req'[p].pc # "default" /\ req'[p].op \notin {"rename_collection", "delete_collection"}
    BY <1>0, Ended
  <2>4. DOMAIN folders' = DOMAIN folders \cup {Len(folders) + 1}
    BY <2>2
  <2>5. \A f \in DOMAIN folders : folders[f].row => folders[f].name # name
    BY <1>3 DEF Taken, Rows
  <2>6. FolderIsThere'
    <3>1. (place.folder # 0 => place.folder \in Rows(folders))'
      BY <1>0, <2>2, <2>4 DEF LibInv, FolderIsThere, Rows
    <3>2. \A f, g \in DOMAIN folders' : folders'[f].row /\ folders'[g].row /\ folders'[f].name = folders'[g].name => f = g
      BY <1>1, <2>2, <2>4, <2>5 DEF LibInv, FolderIsThere, Rows
    <3> QED
      BY <3>1, <3>2 DEF FolderIsThere, Rows
  <2> QED
    BY <1>0, <1>2, <2>2, <2>3, <2>6, FolderStep
<1>4. CASE Taken(name)
  BY <1>0, <1>2, <1>4, EndLib DEF rows
<1> QED
  BY <1>3, <1>4

\* One folder changes in place.
LEMMA FolderChanged ==
    ASSUME LibInv, NEW f \in DOMAIN folders, NEW e \in Named, folders' = [folders EXCEPT ![f] = e]
    PROVE  /\ folders' \in Seq(Named) /\ DOMAIN folders' = DOMAIN folders /\ folders'[f] = e
           /\ Len(folders') = Len(folders)
           /\ \A i \in DOMAIN folders : i # f => folders'[i] = folders[i]
<1>1. folders \in Seq(Named) /\ \A i \in DOMAIN folders : folders[i] \in Named
  BY LibFacts
<1>2. /\ DOMAIN folders' = DOMAIN folders /\ folders'[f] = e /\ \A i \in DOMAIN folders : i # f => folders'[i] = folders[i]
      /\ folders' = [i \in DOMAIN folders |-> folders'[i]]
  OBVIOUS
<1>3. \A i \in DOMAIN folders : folders'[i] \in Named
  BY <1>1, <1>2
<1> QED
  BY <1>1, <1>2, <1>3, Changed

\* What the invariant says of the session's place.
LEMMA PlaceFacts ==
    ASSUME LibInv
    PROVE  /\ place \in [folder : Nat, pinned : BOOLEAN] /\ place.folder <= Len(folders) /\ place.folder \in Nat
           /\ place.pinned \in BOOLEAN /\ folders \in Seq(Named) /\ Len(folders) \in Nat
           /\ requests \in 0..MaxRequests /\ faults \in 0..MaxFaults
  BY LibFacts DEF LibInv, LibTyped

\* A renamed folder stays one.
LEMMA RenameFolderLib ==
    ASSUME LibInv, NEW p \in Slot, NEW f \in Rows(folders), NEW name \in Names, RenameFolder(p, f, name)
    PROVE  LibInv'
<1> DEFINE e == [folders[f] EXCEPT !.name = name]
<1>0. /\ Asks(p, "rename_folder") /\ folders' = (IF Taken(name) THEN folders ELSE [folders EXCEPT ![f] = e])
      /\ UNCHANGED <<chat, docs, colls, place, req, scene, faults, excuses>>
  BY DEF RenameFolder
<1>1. f \in DOMAIN folders /\ folders[f] \in Named /\ folders[f].row
  BY LibFacts DEF Rows
<1>2. e \in Named /\ e.name = name /\ e.row = folders[f].row
  <2>1. folders[f] \in Named /\ name \in Names
    BY <1>1
  <2> QED
    BY <2>1, NamedFields
<1> HIDE DEF e
<1>3. /\ Others(p) /\ req' \in [Slot -> Request] /\ req'[p] = req[p] /\ ~ Clears(req[p]) /\ ~ Clears(req'[p])
      /\ requests' \in 0..MaxRequests
  BY <1>0, LibFacts, Asked DEF Others
<1>4. Fits(req[p])'
  <2>1. Fits(req[p]) /\ docs' = docs /\ colls' = colls /\ req'[p] = req[p]
    BY <1>0 DEF LibInv, LibForms
  <2> QED
    BY <2>1 DEF Fits
<1>5. /\ folders' \in Seq(Named) /\ DOMAIN folders' = DOMAIN folders /\ Len(folders') = Len(folders) /\ FolderIsThere'
  <2>1. CASE Taken(name)
    BY <1>0, <2>1, PlaceFacts, FolderFrame DEF LibInv
  <2>2. CASE ~ Taken(name)
    <3>1. /\ folders' \in Seq(Named) /\ DOMAIN folders' = DOMAIN folders /\ folders'[f] = e
          /\ Len(folders') = Len(folders)
          /\ \A i \in DOMAIN folders : i # f => folders'[i] = folders[i]
      BY <1>0, <1>1, <1>2, <2>2, FolderChanged
    <3>2. \A i \in DOMAIN folders : folders[i].row => folders[i].name # name
      BY <2>2 DEF Taken, Rows
    <3>3. \A i \in DOMAIN folders : folders'[i].row = folders[i].row
      BY <1>2, <3>1
    <3>4. (place.folder # 0 => place.folder \in Rows(folders))'
      BY <1>0, <3>1, <3>3 DEF LibInv, FolderIsThere, Rows
    <3>5. \A i, j \in DOMAIN folders' : folders'[i].row /\ folders'[j].row /\ folders'[i].name = folders'[j].name => i = j
      BY <1>2, <3>1, <3>2, <3>3 DEF LibInv, FolderIsThere, Rows
    <3> QED
      BY <3>1, <3>4, <3>5 DEF FolderIsThere, Rows
  <2> QED
    BY <2>1, <2>2
<1> QED
  BY <1>0, <1>3, <1>4, <1>5, PlaceFacts, FolderStep

\* A folder that is deleted lets go of the session.
LEMMA DeleteFolderLib ==
    ASSUME LibInv, NEW p \in Slot, NEW f \in Rows(folders), DeleteFolder(p, f)
    PROVE  LibInv'
<1> DEFINE e == [folders[f] EXCEPT !.row = FALSE]
<1>0. /\ Asks(p, "delete_folder") /\ folders' = [folders EXCEPT ![f] = e]
      /\ place' = IF place.folder = f THEN [place EXCEPT !.folder = 0] ELSE place
      /\ UNCHANGED <<chat, docs, colls, req, scene, faults, excuses>>
  BY DEF DeleteFolder, Detached
<1>1. f \in DOMAIN folders /\ folders[f] \in Named
  BY LibFacts DEF Rows
<1>2. e \in Named /\ e.row = FALSE
  <2>1. "Default" \in Names
    BY DEF Names
  <2> QED
    BY <1>1, <2>1, NamedFields
<1> HIDE DEF e
<1>3. /\ Others(p) /\ req' \in [Slot -> Request] /\ req'[p] = req[p] /\ ~ Clears(req[p]) /\ ~ Clears(req'[p])
      /\ requests' \in 0..MaxRequests
  BY <1>0, LibFacts, Asked DEF Others
<1>4. Fits(req[p])'
  <2>1. Fits(req[p]) /\ docs' = docs /\ colls' = colls /\ req'[p] = req[p]
    BY <1>0 DEF LibInv, LibForms
  <2> QED
    BY <2>1 DEF Fits
<1>5. /\ folders' \in Seq(Named) /\ DOMAIN folders' = DOMAIN folders /\ folders'[f] = e
      /\ Len(folders') = Len(folders)
      /\ \A i \in DOMAIN folders : i # f => folders'[i] = folders[i]
  BY <1>0, <1>1, <1>2, FolderChanged
<1>6. /\ place' \in [folder : Nat, pinned : BOOLEAN] /\ place'.folder <= Len(folders')
      /\ place'.folder = 0 \/ (place'.folder = place.folder /\ place.folder # f)
  <2>1. CASE place.folder = f
    <3>1. place' = [place EXCEPT !.folder = 0]
      BY <1>0, <2>1
    <3>2. place' = [folder |-> 0, pinned |-> place.pinned]
      BY <3>1, PlaceFacts
    <3> QED
      BY <1>5, <3>2, PlaceFacts
  <2>2. CASE place.folder # f
    BY <1>0, <1>5, <2>2, PlaceFacts
  <2> QED
    BY <2>1, <2>2
<1>7. FolderIsThere'
  <2>1. (place.folder # 0 => place.folder \in Rows(folders))'
    BY <1>5, <1>6 DEF LibInv, FolderIsThere, Rows
  <2>2. \A i \in DOMAIN folders : folders'[i].row => i # f /\ folders'[i] = folders[i]
    BY <1>2, <1>5
  <2>3. \A i, j \in DOMAIN folders' : folders'[i].row /\ folders'[j].row /\ folders'[i].name = folders'[j].name => i = j
    BY <1>5, <2>2 DEF LibInv, FolderIsThere, Rows
  <2> QED
    BY <2>1, <2>3 DEF FolderIsThere, Rows
<1> QED
  BY <1>0, <1>3, <1>4, <1>5, <1>6, <1>7, FolderStep

\* A session that is pinned or filed keeps the invariant.
LEMMA OrganizeLib ==
    ASSUME LibInv, NEW p \in Slot, Organize(p)
    PROVE  LibInv'
<1>f. PICK f \in Nat : f = req[p].of
  BY LibFacts
<1>0. /\ req[p].op = "organize" /\ Ends(p)
      /\ place' = IF chat /\ FolderIsRow(f) THEN [folder |-> f, pinned |-> req[p].new = "pin"] ELSE place
      /\ UNCHANGED <<chat, docs, colls, folders, scene, requests, faults, excuses>>
      /\ ~ Clears(req[p])
  BY <1>f DEF Organize, Clears
<1>1. /\ Others(p) /\ req' \in [Slot -> Request] /\ ~ Clears(req'[p]) /\ Fits(req[p])'
      /\ req'[p].pc # "default" /\ req'[p].op \notin {"rename_collection", "delete_collection"}
  BY <1>0, Ended
<1>2. place' \in [folder : Nat, pinned : BOOLEAN] /\ place'.folder <= Len(folders) /\ FolderIsThere'
  <2>0. DOMAIN folders = 1..Len(folders)
    BY LibFacts
  <2>1. CASE chat /\ FolderIsRow(f)
    <3>1. place' = [folder |-> f, pinned |-> req[p].new = "pin"]
      BY <1>0, <2>1
    <3>2. place' \in [folder : Nat, pinned : BOOLEAN] /\ place'.folder = f
      BY <3>1
    <3>3. f = 0 \/ (f \in Rows(folders) /\ f <= Len(folders))
      BY <2>0, <2>1 DEF FolderIsRow, Rows
    <3>4. FolderIsThere'
      BY <1>0, <3>2, <3>3 DEF LibInv, FolderIsThere, Rows
    <3> QED
      BY <3>2, <3>3, <3>4, PlaceFacts
  <2>2. CASE ~ (chat /\ FolderIsRow(f))
    BY <1>0, <2>2, PlaceFacts, FolderFrame DEF LibInv
  <2> QED
    BY <2>1, <2>2
<1> QED
  BY <1>0, <1>1, <1>2, PlaceFacts, FolderStep

\* Every step of the library keeps its invariant.
LEMMA LibraryStep == LibInv /\ LibraryNext => LibInv'
<1> SUFFICES ASSUME LibInv, LibraryNext PROVE LibInv'
  OBVIOUS
<1> PICK p \in Slot :
      \/ \E c \in 0..Len(colls) : AskUpload(p, c)
      \/ AddDefault(p) \/ InsertDocument(p) \/ WriteChunks(p) \/ Unlink(p) \/ DeleteRow(p)
      \/ \E d \in DOMAIN docs : \/ AskDeleteDocument(p, d)
                                \/ \E c \in Rows(colls) : MoveDocument(p, d, c)
      \/ CommitMove(p) \/ CommitName(p) \/ MoveAndDelete(p)
      \/ \E name \in Names : \/ CreateCollection(p, name) \/ CreateFolder(p, name)
                             \/ \E c \in Rows(colls) : RenameCollection(p, c, name)
                             \/ \E f \in Rows(folders) : RenameFolder(p, f, name)
      \/ \E c \in Rows(colls) : DeleteCollection(p, c)
      \/ \E f \in Rows(folders) : DeleteFolder(p, f)
      \/ \E f \in 0..Len(folders), pin \in {"pin", "unpin"} : AskOrganize(p, f, pin)
      \/ CommitFolder(p) \/ Organize(p)
      \/ AskDelete(p) \/ FailDelete(p) \/ CleanUp(p) \/ Die(p)
  BY DEF LibraryNext
<1>1. CASE (\E c \in 0..Len(colls) : AskUpload(p, c)) \/ AddDefault(p) \/ InsertDocument(p) \/ WriteChunks(p)
  BY <1>1, AskUploadLib, AddDefaultLib, InsertLib, ChunksLib
<1>2. CASE Unlink(p) \/ DeleteRow(p) \/ CommitMove(p) \/ CommitName(p) \/ MoveAndDelete(p)
  BY <1>2, UnlinkLib, DeleteRowLib, CommitMoveLib, CommitNameLib, MoveAndDeleteLib
<1>3. CASE \E d \in DOMAIN docs : AskDeleteDocument(p, d) \/ \E c \in Rows(colls) : MoveDocument(p, d, c)
  BY <1>3, AsksLib
<1>4. CASE \E name \in Names : \/ CreateCollection(p, name) \/ CreateFolder(p, name)
                               \/ \E c \in Rows(colls) : RenameCollection(p, c, name)
                               \/ \E f \in Rows(folders) : RenameFolder(p, f, name)
  <2> PICK name \in Names : \/ CreateCollection(p, name) \/ CreateFolder(p, name)
                            \/ \E c \in Rows(colls) : RenameCollection(p, c, name)
                            \/ \E f \in Rows(folders) : RenameFolder(p, f, name)
    BY <1>4
  <2>1. CASE CreateCollection(p, name)
    BY <2>1, CreateCollectionLib
  <2>2. CASE CreateFolder(p, name)
    BY <2>2, AsksLib
  <2>3. CASE \E c \in Rows(colls) : RenameCollection(p, c, name)
    BY <2>3, AskRenameLib
  <2>4. CASE \E f \in Rows(folders) : RenameFolder(p, f, name)
    BY <2>4, RenameFolderLib
  <2> QED
    BY <2>1, <2>2, <2>3, <2>4
<1>5. CASE (\E c \in Rows(colls) : DeleteCollection(p, c)) \/ \E f \in Rows(folders) : DeleteFolder(p, f)
  BY <1>5, AskDeleteCollectionLib, DeleteFolderLib
<1>6. CASE \E f \in 0..Len(folders), pin \in {"pin", "unpin"} : AskOrganize(p, f, pin)
  BY <1>6, AsksLib
<1>7. CASE CommitFolder(p) \/ Organize(p) \/ AskDelete(p) \/ FailDelete(p) \/ CleanUp(p) \/ Die(p)
  BY <1>7, CommitFolderLib, OrganizeLib, AskDeleteLib, FailDeleteLib, CleanUpLib, DieLib
<1> QED
  BY <1>1, <1>2, <1>3, <1>4, <1>5, <1>6, <1>7

-----------------------------------------------------------------------------
(* Steps of the library and turns leave each other alone *)

\* The request that changes is none of a turn.
Outside(p) ==
    /\ req[p].op \notin TurnOps /\ req'[p].op \notin TurnOps /\ Others(p)
    /\ requests' \in {requests, requests + 1} /\ chat' = chat

\* Whatever a request does, it leaves the others alone.
LEMMA ChangesOnlyOne ==
    ASSUME req \in [Slot -> Request], NEW p \in Slot
    PROVE  /\ \A op, pc, of, to : Goes(p, op, pc, of, to) => Others(p) /\ req'[p].op = op
           /\ \A op, of, new : Writes(p, op, of, new) => Others(p) /\ req'[p].op = op
           /\ Ends(p) => Others(p) /\ req'[p].op = "none"
           /\ req' = req => Others(p) /\ req'[p].op = req[p].op
<1>1. ASSUME NEW op, NEW pc, NEW of, NEW to, Goes(p, op, pc, of, to) PROVE Others(p) /\ req'[p].op = op
  BY <1>1 DEF Goes, Idle, Others
<1>2. ASSUME NEW op, NEW of, NEW new, Writes(p, op, of, new) PROVE Others(p) /\ req'[p].op = op
  BY <1>2 DEF Writes, Idle, Others
<1>3. ASSUME Ends(p) PROVE Others(p) /\ req'[p].op = "none"
  BY <1>3 DEF Ends, Idle, Others
<1>4. ASSUME req' = req PROVE Others(p) /\ req'[p].op = req[p].op
  BY <1>4 DEF Others
<1> QED
  BY <1>1, <1>2, <1>3, <1>4

\* A step of the library is one of a request outside of the turns.
LEMMA LibraryOutside ==
    ASSUME LibInv, LibraryNext
    PROVE  \E p \in Slot : Outside(p)
<1> PICK p \in Slot :
      \/ \E c \in 0..Len(colls) : AskUpload(p, c)
      \/ AddDefault(p) \/ InsertDocument(p) \/ WriteChunks(p) \/ Unlink(p) \/ DeleteRow(p)
      \/ \E d \in DOMAIN docs : \/ AskDeleteDocument(p, d)
                                \/ \E c \in Rows(colls) : MoveDocument(p, d, c)
      \/ CommitMove(p) \/ CommitName(p) \/ MoveAndDelete(p)
      \/ \E name \in Names : \/ CreateCollection(p, name) \/ CreateFolder(p, name)
                             \/ \E c \in Rows(colls) : RenameCollection(p, c, name)
                             \/ \E f \in Rows(folders) : RenameFolder(p, f, name)
      \/ \E c \in Rows(colls) : DeleteCollection(p, c)
      \/ \E f \in Rows(folders) : DeleteFolder(p, f)
      \/ \E f \in 0..Len(folders), pin \in {"pin", "unpin"} : AskOrganize(p, f, pin)
      \/ CommitFolder(p) \/ Organize(p)
      \/ AskDelete(p) \/ FailDelete(p) \/ CleanUp(p) \/ Die(p)
  BY DEF LibraryNext
<1>t. /\ req \in [Slot -> Request]
      /\ req[p].pc = "default" => req[p].op \in {"upload", "delete_collection"}
  BY DEF LibInv, LibTyped, LibForms, Fits
<1>a. \A op : Asks(p, op) => req[p].op \notin TurnOps /\ requests' = requests + 1
  BY Asked
<1>1. ASSUME NEW c \in 0..Len(colls), AskUpload(p, c) PROVE Outside(p)
  <2>1. Asks(p, "upload") /\ chat' = chat /\ \E pc, of : Goes(p, "upload", pc, of, 0)
    BY <1>1 DEF AskUpload, rows
  <2> QED
    BY <1>a, <1>t, <2>1, ChangesOnlyOne DEF Outside, TurnOps
<1>2. ASSUME AddDefault(p) PROVE Outside(p)
  <2>1. /\ req[p].op \in {"upload", "delete_collection"} /\ chat' = chat /\ requests' = requests
        /\ \E pc, of, to : Goes(p, req[p].op, pc, of, to)
    BY <1>2, <1>t DEF AddDefault
  <2> QED
    BY <1>t, <2>1, ChangesOnlyOne DEF Outside, TurnOps
<1>3. ASSUME InsertDocument(p) \/ WriteChunks(p) \/ Unlink(p) \/ DeleteRow(p) \/ CommitMove(p) \/ MoveAndDelete(p)
             \/ FailDelete(p) \/ CleanUp(p)
      PROVE  Outside(p)
  <2>1. req[p].op \in {"upload", "delete_document", "move_document", "delete_collection", "delete_session"}
        /\ chat' = chat /\ requests' = requests
    BY <1>3 DEF InsertDocument, WriteChunks, Unlink, DeleteRow, CommitMove, MoveAndDelete, FailDelete, CleanUp, At, rows
  <2>2. Ends(p) \/ (\E pc, of : Goes(p, "upload", pc, of, 0)) \/ \E pc, of : Goes(p, "delete_document", pc, of, 0)
    BY <1>3 DEF InsertDocument, WriteChunks, Unlink, DeleteRow, CommitMove, MoveAndDelete, FailDelete, CleanUp
  <2> QED
    BY <1>t, <2>1, <2>2, ChangesOnlyOne DEF Outside, TurnOps
<1>4. ASSUME CommitName(p) \/ CommitFolder(p) \/ Organize(p) \/ Die(p) PROVE Outside(p)
  <2>1. req[p].op \in {"rename_collection", "create_folder", "organize", "delete_document", "delete_session", "upload"}
        /\ chat' = chat /\ requests' = requests /\ Ends(p)
    BY <1>4 DEF CommitName, CommitFolder, Organize, Die, rows
  <2> QED
    BY <1>t, <2>1, ChangesOnlyOne DEF Outside, TurnOps
<1>5. ASSUME NEW d \in DOMAIN docs, AskDeleteDocument(p, d) \/ \E c \in Rows(colls) : MoveDocument(p, d, c)
      PROVE  Outside(p)
  <2>1. /\ chat' = chat /\ (Asks(p, "delete_document") \/ Asks(p, "move_document"))
        /\ \E op \in {"delete_document", "move_document"} : \E pc, to : Goes(p, op, pc, d, to)
    BY <1>5 DEF AskDeleteDocument, MoveDocument, rows
  <2> QED
    BY <1>a, <1>t, <2>1, ChangesOnlyOne DEF Outside, TurnOps
<1>6. ASSUME NEW name \in Names, \/ CreateCollection(p, name)
                                 \/ \E f \in Rows(folders) : RenameFolder(p, f, name)
      PROVE  Outside(p)
  <2>1. chat' = chat /\ (Asks(p, "create_collection") \/ Asks(p, "rename_folder")) /\ req' = req
    BY <1>6 DEF CreateCollection, RenameFolder
  <2> QED
    BY <1>a, <1>t, <2>1, ChangesOnlyOne DEF Outside
<1>7. ASSUME NEW name \in Names, \/ CreateFolder(p, name) \/ \E c \in Rows(colls) : RenameCollection(p, c, name)
      PROVE  Outside(p)
  <2>1. /\ chat' = chat /\ (Asks(p, "create_folder") \/ Asks(p, "rename_collection"))
        /\ \E op \in {"create_folder", "rename_collection"} : \E of : Writes(p, op, of, name)
    BY <1>7 DEF CreateFolder, RenameCollection, rows
  <2> QED
    BY <1>a, <1>t, <2>1, ChangesOnlyOne DEF Outside, TurnOps
<1>8. ASSUME NEW c \in Rows(colls), DeleteCollection(p, c) PROVE Outside(p)
  <2>1. chat' = chat /\ Asks(p, "delete_collection") /\ \E pc, to : Goes(p, "delete_collection", pc, c, to)
    BY <1>8 DEF DeleteCollection, rows
  <2> QED
    BY <1>a, <1>t, <2>1, ChangesOnlyOne DEF Outside, TurnOps
<1>9. ASSUME NEW f \in Rows(folders), DeleteFolder(p, f) PROVE Outside(p)
  <2>1. chat' = chat /\ Asks(p, "delete_folder") /\ req' = req
    BY <1>9 DEF DeleteFolder
  <2> QED
    BY <1>a, <1>t, <2>1, ChangesOnlyOne DEF Outside
<1>10. ASSUME NEW f \in 0..Len(folders), NEW pin \in {"pin", "unpin"}, AskOrganize(p, f, pin) PROVE Outside(p)
  <2>1. chat' = chat /\ Asks(p, "organize") /\ Writes(p, "organize", f, pin)
    BY <1>10 DEF AskOrganize, rows
  <2> QED
    BY <1>a, <1>t, <2>1, ChangesOnlyOne DEF Outside, TurnOps
<1>11. ASSUME AskDelete(p) PROVE Outside(p)
  <2>1. chat' = chat /\ Asks(p, "delete_session") /\ Others(p) /\ req'[p].op = "delete_session"
    BY <1>11, <1>t DEF AskDelete, rows, Others, Idle
  <2> QED
    BY <1>a, <2>1 DEF Outside, TurnOps
<1> QED
  BY <1>1, <1>2, <1>3, <1>4, <1>5, <1>6, <1>7, <1>8, <1>9, <1>10, <1>11

\* A step outside of the turns leaves the turns as they are.
LEMMA OutsideTurns ==
    ASSUME NEW p \in Slot, Outside(p)
    PROVE  Turning' = Turning /\ \A q \in Turning : req'[q] = req[q] /\ q # p
<1>1. \A q \in Slot : req'[q].op \in TurnOps <=> req[q].op \in TurnOps
  BY DEF Outside, Others
<1> QED
  BY <1>1 DEF Turning, TurnOps, Outside, Others

-----------------------------------------------------------------------------
(* What the steps of a turn do to its request *)

Moves(p, pc) == Turned(p, req[p].op, pc, req[p].of, req[p].to, req[p].new, req[p].found)
Rests(p) == Turned(p, "none", "idle", 0, 0, "", {})

\* A request that steps moves on, one that ends rests.
LEMMA MovesOrRests ==
    ASSUME LibInv, NEW p \in Slot
    PROVE  /\ \A pc \in Steps : Step(p, pc) => Moves(p, pc)
           /\ Ends(p) => Rests(p)
<1>1. req \in [Slot -> Request]
  BY LibFacts
<1>2. ASSUME NEW pc \in Steps, Step(p, pc) PROVE Moves(p, pc)
  BY <1>1, <1>2, StepTurns DEF Step, Moves
<1>3. ASSUME Ends(p) PROVE Rests(p)
  BY <1>1, <1>3, EndsTurns DEF Rests
<1> QED
  BY <1>2, <1>3

\* A question makes a turn with the number of the request.
LEMMA AskTurned ==
    ASSUME LibInv, NEW p \in Slot, NEW op \in TurnOps, Ask(p, op)
    PROVE  Turned(p, op, "route", requests + 1, 0, "", {}) /\ p \notin Turning /\ ~ Clears(req[p])
<1>1. Asks(p, op) /\ Goes(p, op, "route", requests', 0)
  BY DEF Ask
<1>2. requests' = requests + 1 /\ ~ Clears(req[p]) /\ req[p].op \notin TurnOps
  BY <1>1, Asked
<1>3. requests + 1 \in Nat /\ req \in [Slot -> Request]
  BY LibFacts
<1>4. op \in Ops /\ "route" \in Steps /\ 0 \in Nat
  BY DEF Ops, Steps, TurnSteps
<1>5. Goes(p, op, "route", requests + 1, 0)
  BY <1>1, <1>2
<1>6. Turned(p, op, "route", requests + 1, 0, "", {})
  BY <1>3, <1>4, <1>5, GoesTurns
<1> QED
  BY <1>2, <1>6 DEF Turning, TurnOps

\* A refusal is saved like an answer.
LEMMA RefuseTurned ==
    ASSUME LibInv, NEW p \in Slot, Refuse(p)
    PROVE  Turned(p, "stream", "save", req[p].of, req[p].to, "refusal", req[p].found)
<1> DEFINE r == [req[p] EXCEPT !.pc = "save", !.new = "refusal"]
<1>1. req \in [Slot -> Request] /\ req[p] \in Request /\ req[p].op = "stream"
  BY LibFacts DEF Refuse, At
<1>2. "save" \in Steps /\ "refusal" \in Words
  BY DEF Steps, TurnSteps, Words
<1>3. r \in Request
  BY <1>1, <1>2 DEF Request
<1>4. /\ r.op = "stream" /\ r.pc = "save" /\ r.of = req[p].of /\ r.to = req[p].to
      /\ r.new = "refusal" /\ r.found = req[p].found
  BY <1>1 DEF Request
<1>5. req' = [req EXCEPT ![p] = r]
  BY DEF Refuse, RefusalGoesTo
<1> HIDE DEF r
<1>6. Turned(p, r.op, r.pc, r.of, r.to, r.new, r.found)
  BY <1>1, <1>3, <1>5, TurnsOne
<1> QED
  BY <1>4, <1>6

\* A summary covers the messages that were read.
LEMMA ReadTurned ==
    ASSUME LibInv, NEW p \in Slot, msgs \in Seq([role : {"user", "assistant"}, turn : Turns]), ReadMessages(p)
    PROVE  Turned(p, req[p].op, IF msgs = <<>> THEN "count" ELSE "find", req[p].of, Len(msgs), req[p].new, req[p].found)
<1> DEFINE pc == IF msgs = <<>> THEN "count" ELSE "find"
           r == [req[p] EXCEPT !.pc = pc, !.to = Len(msgs)]
<1>1. req \in [Slot -> Request] /\ req[p] \in Request
  BY LibFacts
<1>2. pc \in Steps /\ Len(msgs) \in Nat
  BY LenProperties DEF Steps, TurnSteps
<1>3. req' = [req EXCEPT ![p] = r]
  BY DEF ReadMessages, Read
<1> HIDE DEF pc
<1>4. r \in Request
  BY <1>1, <1>2 DEF Request
<1>5. /\ r.op = req[p].op /\ r.pc = pc /\ r.of = req[p].of /\ r.to = Len(msgs)
      /\ r.new = req[p].new /\ r.found = req[p].found
  BY <1>1 DEF Request
<1> HIDE DEF r
<1>6. Turned(p, r.op, r.pc, r.of, r.to, r.new, r.found)
  BY <1>1, <1>3, <1>4, TurnsOne
<1> USE DEF pc
<1> QED
  BY <1>5, <1>6

InTurn(op, pc) ==
    op \in {"none", "stream", "chat", "refine_title"} /\ (pc \in TurnSteps \/ (pc = "idle" /\ op = "none"))

\* A step of a turn, of a renaming or of a refinement leaves the library alone.
LEMMA TurnedLib ==
    ASSUME LibInv, NEW p \in Slot, Others(p), req' \in [Slot -> Request], InTurn(req'[p].op, req'[p].pc),
           req'[p].found \subseteq DOMAIN docs, ~ Clears(req[p]),
           UNCHANGED <<rows, scene, excuses>>, requests' \in 0..MaxRequests, faults' \in 0..MaxFaults
    PROVE  LibInv'
<1>2. docs' = docs
  BY DEF rows
<1>4. Fits(req[p])'
  BY <1>2 DEF Fits, TurnOps, TurnSteps, InTurn
<1>5. ~ Clears(req'[p]) /\ req'[p].pc # "default" /\ req'[p].op \notin {"rename_collection", "delete_collection"}
  BY DEF Clears, TurnSteps, InTurn
<1> QED
  BY <1>4, <1>5, RowsFrame

\* Rows of usage are recorded or lost with a fault, and none is taken back.
LEMMA RecordedTyped ==
    ASSUME LibInv, NEW t, NEW counted, Recorded(t, counted)
    PROVE  faults' \in 0..MaxFaults
<1>1. faults \in 0..MaxFaults
  BY DEF LibInv, LibTyped
<1> QED
  BY <1>1, Faulted DEF Recorded

\* What has been counted or lost stays, and one of the two becomes of the rows.
LEMMA RecordedOnce ==
    ASSUME NEW t, NEW counted, usage \subseteq counted, counted \subseteq usage \cup {t}, Recorded(t, counted)
    PROVE  /\ usage \subseteq usage' /\ lost \subseteq lost'
           /\ usage' \subseteq usage \cup {t} /\ lost' \subseteq lost \cup {t}
           /\ t \in counted => t \in usage' \cup lost'
  BY DEF Recorded

\* Every step of a turn keeps the invariant of the library.
LEMMA TurnStep ==
    ASSUME LibInv, msgs \in Seq([role : {"user", "assistant"}, turn : Turns]), TurnNext
    PROVE  LibInv'
<1> PICK p \in Slot :
      \/ \E op \in {"stream", "chat"} : Ask(p, op)
      \/ Refuse(p) \/ Answer(p) \/ AnswerNothing(p) \/ Break(p) \/ Save(p) \/ ReadMessages(p) \/ FindSummary(p)
      \/ PutSummary(p) \/ CountAnswers(p) \/ RefineTitle(p) \/ Rename(p) \/ AskRefine(p)
      \/ CommitRefine(p) \/ DeleteSession(p)
  BY DEF TurnNext
<1>t. /\ req \in [Slot -> Request] /\ req[p].found \subseteq DOMAIN docs /\ {} \subseteq DOMAIN docs
      /\ requests \in 0..MaxRequests /\ faults \in 0..MaxFaults
  BY DEF LibInv, LibTyped, LibForms, Fits
<1>o. p \in Turning => req[p].op \in {"stream", "chat"} /\ ~ Clears(req[p])
  BY DEF Turning, Clears
<1>s. /\ {"save", "read", "find", "insert", "update", "count", "refine"} \subseteq TurnSteps
      /\ TurnSteps \subseteq Steps
  BY DEF TurnSteps, Steps
<1>1. ASSUME NEW op \in {"stream", "chat"}, Ask(p, op) PROVE LibInv'
  <2>1. op \in TurnOps /\ Asks(p, op) /\ UNCHANGED <<rows, scene, excuses>> /\ faults' = faults
    BY <1>1 DEF Ask, TurnOps
  <2>2. Turned(p, op, "route", requests + 1, 0, "", {}) /\ ~ Clears(req[p])
    BY <1>1, <2>1, AskTurned
  <2>3. requests' \in 0..MaxRequests
    BY <2>1, Asked
  <2>4. InTurn(op, "route")
    BY DEF TurnSteps, InTurn
  <2> QED
    BY <1>t, <2>1, <2>2, <2>3, <2>4, TurnedLib DEF Turned, Others
<1>2. ASSUME Refuse(p) PROVE LibInv'
  <2>1. UNCHANGED <<rows, scene, excuses>> /\ faults' = faults /\ requests' = requests /\ p \in Turning
    BY <1>2 DEF Refuse, Turning, At
  <2>2. InTurn("stream", "save")
    BY DEF TurnSteps, InTurn
  <2> QED
    BY <1>t, <1>o, <1>2, <2>1, <2>2, RefuseTurned, TurnedLib DEF Turned, Others
<1>3. ASSUME \E pc \in TurnSteps : Moves(p, pc), p \in Turning, UNCHANGED <<rows, scene, excuses>>,
             faults' = faults, requests' = requests
      PROVE  LibInv'
  <2>1. \A pc \in TurnSteps : InTurn(req[p].op, pc)
    BY <1>o, <1>3 DEF InTurn
  <2> QED
    BY <1>t, <1>o, <1>3, <2>1, TurnedLib DEF Moves, Turned, Others
<1>4. ASSUME Rests(p), p \in Turning \/ ~ Clears(req[p]), UNCHANGED <<rows, scene, excuses>>,
             faults' \in 0..MaxFaults, requests' = requests
      PROVE  LibInv'
  <2>1. InTurn("none", "idle") /\ ~ Clears(req[p]) /\ requests' \in 0..MaxRequests
    BY <1>t, <1>o, <1>4 DEF InTurn
  <2>2. Turned(p, "none", "idle", 0, 0, "", {})
    BY <1>4 DEF Rests
  <2> QED
    BY <1>t, <1>4, <2>1, <2>2, TurnedLib DEF Turned, Others
<1>5. ASSUME Save(p) \/ FindSummary(p) \/ PutSummary(p) \/ CountAnswers(p) \/ RefineTitle(p)
      PROVE  LibInv'
  <2>1. UNCHANGED <<rows, scene, excuses>> /\ faults' = faults /\ requests' = requests /\ p \in Turning
    BY <1>5 DEF Save, FindSummary, PutSummary, CountAnswers, RefineTitle, Turning, At
  <2>2. Ends(p) \/ \E pc \in {"save", "read", "find", "insert", "update", "count", "refine"} : Step(p, pc)
    BY <1>5 DEF Save, FindSummary, PutSummary, CountAnswers, RefineTitle, Stops, Finishes
  <2> QED
    BY <1>t, <1>s, <1>3, <1>4, <2>1, <2>2, MovesOrRests
<1>6. ASSUME Break(p) PROVE LibInv'
  <2>1. UNCHANGED <<rows, scene, excuses>> /\ requests' = requests /\ p \in Turning /\ Ends(p) /\ Fault
    BY <1>6 DEF Break, Stops
  <2> QED
    BY <1>4, <2>1, MovesOrRests, Faulted
<1>7. ASSUME ReadMessages(p) PROVE LibInv'
  <2>1. UNCHANGED <<rows, scene, excuses>> /\ faults' = faults /\ requests' = requests /\ p \in Turning
    BY <1>7 DEF ReadMessages
  <2>2. InTurn(req[p].op, IF msgs = <<>> THEN "count" ELSE "find") /\ ~ Clears(req[p])
    BY <1>o, <1>s, <2>1 DEF InTurn
  <2>3. Turned(p, req[p].op, IF msgs = <<>> THEN "count" ELSE "find", req[p].of, Len(msgs), req[p].new, req[p].found)
    BY <1>7, ReadTurned
  <2>4. requests' \in 0..MaxRequests /\ faults' \in 0..MaxFaults
    BY <1>t, <2>1
  <2> QED
    BY <1>t, <2>1, <2>2, <2>3, <2>4, TurnedLib DEF Turned, Others
<1>8. ASSUME Rename(p) PROVE LibInv'
  <2>1. UNCHANGED <<rows, scene, excuses>> /\ faults' = faults /\ Asks(p, "rename") /\ req' = req
    BY <1>8 DEF Rename
  <2>2. /\ requests' \in 0..MaxRequests /\ ~ Clears(req[p]) /\ req[p].pc = "idle"
        /\ Others(p) /\ req' \in [Slot -> Request] /\ ~ Clears(req'[p])
    BY <1>t, <2>1, Asked DEF Others
  <2>3. Fits(req[p])'
    BY <2>1 DEF LibInv, LibForms, Fits, rows
  <2>4. odd' \in BOOLEAN /\ (~ odd' => ~ odd /\ SoundColl(p)')
    BY <2>1 DEF LibInv, LibTyped, CollInv, DefaultKept, SoundColl, AddsAlone, NamesDefault, SparesDefault, Adds,
                Defaults, Rows, IsDefault, rows, excuses
  <2> QED
    BY <1>t, <2>1, <2>2, <2>3, <2>4, AskFrame DEF excuses
<1>9. ASSUME AskRefine(p) PROVE LibInv'
  <2>1. /\ UNCHANGED <<rows, scene, excuses>> /\ faults' = faults /\ Asks(p, "refine_title")
        /\ Goes(p, "refine_title", "refine", 0, 0)
    BY <1>9 DEF AskRefine
  <2>2. requests' \in 0..MaxRequests /\ ~ Clears(req[p])
    BY <2>1, Asked
  <2>3. "refine_title" \in Ops /\ "refine" \in Steps /\ 0 \in Nat
    BY DEF Ops, Steps, TurnSteps
  <2>4. Turned(p, "refine_title", "refine", 0, 0, "", {})
    BY <1>t, <2>1, <2>3, GoesTurns
  <2>5. InTurn("refine_title", "refine") /\ faults' \in 0..MaxFaults
    BY <1>t, <2>1 DEF InTurn, TurnSteps
  <2> QED
    BY <1>t, <2>1, <2>2, <2>4, <2>5, TurnedLib DEF Turned, Others
<1>10. ASSUME CommitRefine(p) PROVE LibInv'
  <2>1. /\ UNCHANGED <<rows, scene, excuses>> /\ faults' = faults /\ requests' = requests
        /\ Ends(p) /\ ~ Clears(req[p])
    BY <1>10 DEF CommitRefine, Clears, At
  <2> QED
    BY <1>t, <1>4, <2>1, MovesOrRests
<1>11. ASSUME DeleteSession(p) PROVE LibInv'
  BY <1>11, CommitDeleteLib DEF DeleteSession
<1>12. ASSUME Answer(p) PROVE LibInv'
  <2>1. /\ UNCHANGED <<rows, scene, excuses>> /\ requests' = requests /\ p \in Turning /\ Step(p, "save")
        /\ \E counted : Recorded(req[p].of, counted)
    BY <1>12 DEF Answer, Turning
  <2>2. faults' \in 0..MaxFaults
    BY <1>t, <2>1, RecordedTyped
  <2>3. "save" \in TurnSteps /\ Moves(p, "save")
    BY <1>t, <1>s, <2>1, MovesOrRests
  <2>4. InTurn(req[p].op, "save") /\ requests' \in 0..MaxRequests
    BY <1>t, <1>o, <2>1, <2>3 DEF InTurn
  <2> QED
    BY <1>t, <1>o, <2>1, <2>2, <2>3, <2>4, TurnedLib DEF Moves, Turned, Others
<1>13. ASSUME AnswerNothing(p) PROVE LibInv'
  <2>1. /\ UNCHANGED <<rows, scene, excuses>> /\ requests' = requests /\ p \in Turning /\ Ends(p)
        /\ \E counted : Recorded(req[p].of, counted)
    BY <1>13 DEF AnswerNothing, Stops, Turning, At
  <2>2. faults' \in 0..MaxFaults
    BY <1>t, <2>1, RecordedTyped
  <2> QED
    BY <1>4, <2>1, <2>2, MovesOrRests
<1> QED
  BY <1>1, <1>2, <1>12, <1>13, <1>5, <1>6, <1>7, <1>8, <1>9, <1>10, <1>11

-----------------------------------------------------------------------------
(* The turns that are under way after a step *)

Message == [role : {"user", "assistant"}, turn : Turns]

Enters(p) ==
    /\ p \in Slot /\ p \notin Turning /\ Turning' = Turning \cup {p} /\ Others(p)
    /\ req'[p].pc = "route" /\ req'[p].of = requests + 1
Stays(p, pc, to) ==
    /\ p \in Turning /\ Turning' = Turning /\ Others(p)
    /\ req'[p].pc = pc /\ req'[p].of = req[p].of /\ req'[p].to = to
Leaves(p) == p \in Turning /\ Turning' = Turning \ {p} /\ Others(p)
Same == Turning' = Turning /\ \A q \in Turning : req'[q] = req[q]

\* Which requests are turns after a step of one of them.
LEMMA TurningAfter ==
    ASSUME NEW p \in Slot, Others(p)
    PROVE  /\ req'[p].op \in TurnOps => Turning' = Turning \cup {p}
           /\ req'[p].op \notin TurnOps => Turning' = Turning \ {p}
           /\ req[p].op \in TurnOps <=> p \in Turning
           /\ req[p].op \notin TurnOps /\ req'[p].op \notin TurnOps => Same
  BY DEF Turning, Others, TurnOps, Same

\* A turn that moves on stays a turn.
LEMMA MovesStays ==
    ASSUME NEW p \in Turning, NEW pc, Moves(p, pc)
    PROVE  Stays(p, pc, req[p].to)
<1>1. p \in Slot /\ req[p].op \in TurnOps
  BY DEF Turning, TurnOps
<1>2. /\ Others(p) /\ req'[p].op = req[p].op /\ req'[p].pc = pc /\ req'[p].of = req[p].of /\ req'[p].to = req[p].to
  BY DEF Moves, Turned, Others
<1> QED
  BY <1>1, <1>2, TurningAfter DEF Stays

\* A turn that ends is one no more; other requests leave the turns alone.
LEMMA RestsLeaves ==
    ASSUME NEW p \in Slot, Rests(p)
    PROVE  /\ Others(p)
           /\ p \in Turning => Leaves(p)
           /\ p \notin Turning => Same
<1>2. Others(p) /\ req'[p].op = "none"
  BY DEF Rests, Turned, Others
<1> QED
  BY <1>2, TurningAfter DEF Leaves, TurnOps

\* What each step of a turn does to the set of turns: enter, stay or leave.
LEMMA TurnEffects ==
    ASSUME LibInv, msgs \in Seq(Message), NEW p \in Slot
    PROVE  /\ \A op \in {"stream", "chat"} : Ask(p, op) => Enters(p)
           /\ Refuse(p) \/ Answer(p) => Stays(p, "save", req[p].to)
           /\ AnswerNothing(p) \/ Break(p) \/ RefineTitle(p) => Leaves(p)
           /\ Save(p) => IF chat THEN Stays(p, "read", req[p].to) ELSE Leaves(p)
           /\ ReadMessages(p) => Stays(p, IF msgs = <<>> THEN "count" ELSE "find", Len(msgs))
           /\ FindSummary(p) => Stays(p, IF sum = 0 THEN "insert" ELSE "update", req[p].to)
           /\ PutSummary(p) => Stays(p, "count", req[p].to) \/ (PutFails(p) /\ Leaves(p))
           /\ CountAnswers(p) => (Stays(p, "refine", req[p].to) /\ done' = done /\ chat /\ Answers = 1)
                                  \/ (Leaves(p) /\ done' = done \cup {req[p].of})
           /\ Rename(p) \/ AskRefine(p) \/ CommitRefine(p) \/ DeleteSession(p) => Same
<1>1. ASSUME NEW op \in {"stream", "chat"}, Ask(p, op) PROVE Enters(p)
  <2>1. op \in TurnOps
    BY DEF TurnOps
  <2>2. Turned(p, op, "route", requests + 1, 0, "", {}) /\ p \notin Turning
    BY <1>1, <2>1, AskTurned
  <2>3. Others(p) /\ req'[p].op = op /\ req'[p].pc = "route" /\ req'[p].of = requests + 1
    BY <2>2 DEF Turned, Others
  <2> QED
    BY <2>1, <2>2, <2>3, TurningAfter DEF Enters
<1>s. {"save", "read", "find", "insert", "update", "count", "refine"} \subseteq Steps
  BY DEF TurnSteps, Steps
<1>m. \A pc \in Steps : Step(p, pc) /\ p \in Turning => Stays(p, pc, req[p].to)
  BY MovesOrRests, MovesStays
<1>e. Ends(p) /\ p \in Turning => Leaves(p)
  BY MovesOrRests, RestsLeaves
<1>2. ASSUME Refuse(p) PROVE Stays(p, "save", req[p].to)
  <2>1. Turned(p, "stream", "save", req[p].of, req[p].to, "refusal", req[p].found) /\ p \in Turning
    BY <1>2, RefuseTurned DEF Refuse, At, Turning
  <2>2. /\ Others(p) /\ req'[p].op = "stream" /\ req'[p].pc = "save" /\ req'[p].of = req[p].of
        /\ req'[p].to = req[p].to
    BY <2>1 DEF Turned, Others
  <2> QED
    BY <2>1, <2>2, TurningAfter DEF Stays, TurnOps
<1>3. ASSUME Answer(p) PROVE Stays(p, "save", req[p].to)
  BY <1>3, <1>s, <1>m DEF Answer, Turning
<1>4. ASSUME AnswerNothing(p) \/ Break(p) \/ RefineTitle(p) PROVE Leaves(p)
  <2>1. Ends(p) /\ p \in Turning
    BY <1>4 DEF AnswerNothing, Break, RefineTitle, At, Turning, Finishes, Stops
  <2> QED
    BY <1>e, <2>1
<1>5. ASSUME Save(p) PROVE IF chat THEN Stays(p, "read", req[p].to) ELSE Leaves(p)
  BY <1>5, <1>s, <1>m, <1>e DEF Save, Stops
<1>6. ASSUME ReadMessages(p) PROVE Stays(p, IF msgs = <<>> THEN "count" ELSE "find", Len(msgs))
  <2> DEFINE pc == IF msgs = <<>> THEN "count" ELSE "find"
  <2>1. Turned(p, req[p].op, pc, req[p].of, Len(msgs), req[p].new, req[p].found) /\ p \in Turning
    BY <1>6, ReadTurned DEF ReadMessages, Message
  <2> HIDE DEF pc
  <2>2. /\ Others(p) /\ req'[p].op = req[p].op /\ req'[p].pc = pc /\ req'[p].of = req[p].of
        /\ req'[p].to = Len(msgs)
    BY <2>1 DEF Turned, Others
  <2>3. Stays(p, pc, Len(msgs))
    BY <2>1, <2>2, TurningAfter DEF Stays
  <2> QED
    BY <2>3 DEF pc
<1>7. ASSUME FindSummary(p) PROVE Stays(p, IF sum = 0 THEN "insert" ELSE "update", req[p].to)
  <2>1. p \in Turning /\ Step(p, IF sum = 0 THEN "insert" ELSE "update")
    BY <1>7 DEF FindSummary
  <2>2. (IF sum = 0 THEN "insert" ELSE "update") \in Steps
    BY <1>s
  <2> QED
    BY <1>m, <2>1, <2>2
<1>8. ASSUME PutSummary(p) PROVE Stays(p, "count", req[p].to) \/ (PutFails(p) /\ Leaves(p))
  <2>1. p \in Turning /\ (Step(p, "count") \/ (PutFails(p) /\ Ends(p)))
    BY <1>8 DEF PutSummary
  <2> QED
    BY <1>s, <1>m, <1>e, <2>1
<1>9. ASSUME CountAnswers(p) PROVE \/ Stays(p, "refine", req[p].to) /\ done' = done /\ chat /\ Answers = 1
                                   \/ Leaves(p) /\ done' = done \cup {req[p].of}
  <2>1. p \in Turning /\ \/ Step(p, "refine") /\ done' = done /\ chat /\ Answers = 1
                         \/ Ends(p) /\ done' = done \cup {req[p].of}
    BY <1>9 DEF CountAnswers, Finishes, ShouldRefine
  <2> QED
    BY <1>s, <1>m, <1>e, <2>1
<1>10. ASSUME Rename(p) PROVE Same
  BY <1>10 DEF Rename, Same, Turning
<1>11. ASSUME AskRefine(p) PROVE Same
  <2>1. Goes(p, "refine_title", "refine", 0, 0) /\ Asks(p, "refine_title")
    BY <1>11 DEF AskRefine
  <2>2. Others(p) /\ req'[p].op = "refine_title"
    BY <2>1, LibFacts, ChangesOnlyOne
  <2>3. req[p].op \notin TurnOps
    BY <2>1, Asked
  <2> QED
    BY <2>2, <2>3, TurningAfter DEF TurnOps
<1>12. ASSUME CommitRefine(p) PROVE Same
  <2>1. Ends(p) /\ req[p].op = "refine_title"
    BY <1>12 DEF CommitRefine, At
  <2> QED
    BY <2>1, MovesOrRests, RestsLeaves DEF Turning
<1>13. ASSUME DeleteSession(p) PROVE Same
  <2>1. req' = [req EXCEPT ![p].pc = "clean"] /\ req[p].op = "delete_session"
    BY <1>13 DEF DeleteSession, CommitDelete, At
  <2>2. "clean" \in Steps /\ req \in [Slot -> Request]
    BY LibFacts DEF Steps
  <2>3. Turned(p, req[p].op, "clean", req[p].of, req[p].to, req[p].new, req[p].found)
    BY <2>1, <2>2, StepTurns
  <2>4. Others(p) /\ req'[p].op = "delete_session"
    BY <2>1, <2>3 DEF Turned, Others
  <2> QED
    BY <2>1, <2>4, TurningAfter DEF TurnOps
<1> QED
  BY <1>1, <1>2, <1>3, <1>4, <1>5, <1>6, <1>7, <1>8, <1>9, <1>10, <1>11, <1>12, <1>13

\* The numbers of the turns tell the messages apart, so there are at most two
\* for each.
LEMMA MessagesBounded ==
    ASSUME msgs \in Seq(Message), \A i, j \in DOMAIN msgs : msgs[i] = msgs[j] => i = j
    PROVE  Len(msgs) \in Covers
<1>1. Len(msgs) \in Nat /\ DOMAIN msgs = 1..Len(msgs) /\ \A i \in DOMAIN msgs : msgs[i] \in Message
  BY Positions
<1>2. MaxRequests \in Nat
  BY BoundAssumption
<1> DEFINE n == Len(msgs)
           f == [i \in 1..n |-> IF msgs[i].role = "user" THEN msgs[i].turn ELSE MaxRequests + msgs[i].turn]
<1>3. \A i \in 1..n : msgs[i].role \in {"user", "assistant"} /\ msgs[i].turn \in 1..MaxRequests
                      /\ msgs[i] = [role |-> msgs[i].role, turn |-> msgs[i].turn]
  BY <1>1 DEF Message, Turns
<1>f. \A i \in 1..n : (msgs[i].role = "user" => f[i] = msgs[i].turn)
                      /\ (msgs[i].role = "assistant" => f[i] = MaxRequests + msgs[i].turn)
  BY <1>3
<1>g. DOMAIN f = 1..n /\ f = [i \in 1..n |-> f[i]]
  OBVIOUS
<1> HIDE DEF f
<1>4. f \in [1..n -> 1..(2 * MaxRequests)]
  <2>1. ASSUME NEW i \in 1..n PROVE f[i] \in 1..(2 * MaxRequests)
    <3>1. msgs[i].turn \in 1..MaxRequests /\ (f[i] = msgs[i].turn \/ f[i] = MaxRequests + msgs[i].turn)
      BY <1>3, <1>f
    <3> DEFINE v == f[i]
               t == msgs[i].turn
    <3>2. t \in 1..MaxRequests /\ (v = t \/ v = MaxRequests + t)
      BY <3>1
    <3> HIDE DEF v, t
    <3>3. v \in 1..(2 * MaxRequests)
      BY <1>2, <3>2
    <3> QED
      BY <3>3 DEF v
  <2> QED
    BY <1>g, <2>1
<1>5. ASSUME NEW i \in 1..n, NEW j \in 1..n, f[i] = f[j] PROVE i = j
  <2>1. msgs[i].role = msgs[j].role /\ msgs[i].turn = msgs[j].turn
    <3>1. /\ msgs[i].turn \in 1..MaxRequests /\ msgs[j].turn \in 1..MaxRequests
          /\ msgs[i].role \in {"user", "assistant"} /\ msgs[j].role \in {"user", "assistant"}
      BY <1>3
    <3> DEFINE s == msgs[i].turn
               t == msgs[j].turn
    <3>2. s \in 1..MaxRequests /\ t \in 1..MaxRequests
      BY <3>1
    <3>3. /\ msgs[i].role = "user" => f[i] = s
          /\ msgs[i].role = "assistant" => f[i] = MaxRequests + s
          /\ msgs[j].role = "user" => f[j] = t
          /\ msgs[j].role = "assistant" => f[j] = MaxRequests + t
      BY <1>f
    <3> HIDE DEF s, t
    <3>4. msgs[i].role = msgs[j].role /\ s = t
      BY <1>2, <1>5, <3>1, <3>2, <3>3
    <3> QED
      BY <3>4 DEF s, t
  <2>2. msgs[i] = msgs[j]
    BY <1>3, <2>1
  <2> QED
    BY <1>1, <2>2
<1>6. f \in Injection(1..n, 1..(2 * MaxRequests))
  BY <1>4, <1>5 DEF Injection, IsInjective
<1>7. IsFiniteSet(1..(2 * MaxRequests)) /\ Cardinality(1..(2 * MaxRequests)) = 2 * MaxRequests
  BY <1>2, FS_Interval
<1>8. Cardinality(1..n) = n
  <2>1. n \in Nat
    BY <1>1
  <2> HIDE DEF n
  <2> QED
    BY <2>1, FS_Interval
<1>9. Cardinality(1..n) <= Cardinality(1..(2 * MaxRequests))
  BY <1>6, <1>7, FS_Injection
<1> QED
  BY <1>1, <1>2, <1>7, <1>8, <1>9 DEF Covers

-----------------------------------------------------------------------------
(* Types, numbers and messages *)

Typed ==
    /\ msgs \in Seq(Message) /\ sum \in Covers /\ title \in {"first", "user", "refined"}
    /\ usage \subseteq Turns /\ done \subseteq Turns /\ refusals \subseteq Turns /\ over \subseteq Slot
    /\ silent \subseteq Turns /\ lost \subseteq Turns
    /\ lag \in BOOLEAN /\ kept \in BOOLEAN /\ refined \in Nat
ReadsCovered == \A p \in Turning : req[p].pc \in {"find", "insert", "update"} => req[p].to \in Covers

\* The library's invariant has its types.
LEMMA LibTypes == LibInv => LibTypeOK
<1> SUFFICES ASSUME LibInv PROVE LibTypeOK
  OBVIOUS
<1>1. LibTyped /\ LibForms
  BY DEF LibInv
<1>2. place \in [folder : 0..Len(folders), pinned : BOOLEAN]
  <2>1. place \in [folder : Nat, pinned : BOOLEAN] /\ place.folder <= Len(folders) /\ Len(folders) \in Nat
    BY <1>1, LibFacts DEF LibTyped
  <2> QED
    BY <2>1
<1>3. \A p \in Slot : req[p].found \subseteq DOMAIN docs /\ req[p].of \in Nat /\ req[p].to \in Nat
  BY <1>1, LibFacts DEF LibForms, Fits
<1> QED
  BY <1>1, <1>2, <1>3 DEF LibTyped, LibTypeOK

\* The typing of turns and its parts.
LEMMA TypedParts ==
    /\ TurnTyped => Typed /\ ReadsCovered /\ TurnNumbers /\ SavedOnce
    /\ LibInv /\ Typed /\ ReadsCovered /\ TurnNumbers /\ SavedOnce => TurnTyped
  BY LibTypes DEF TurnTyped, TypeOK, Typed, ReadsCovered, Message

\* Turns keep numbers of their own while they stay, leave, or one enters.
LEMMA NumbersFrame ==
    ASSUME TurnNumbers, requests \in Nat, requests' \in {requests, requests + 1}
    PROVE  /\ Same /\ done' = done => TurnNumbers'
           /\ \A p \in Slot : \A pc, to : Stays(p, pc, to) /\ done' = done => TurnNumbers'
           /\ \A p \in Slot : Leaves(p) /\ done' \in {done, done \cup {req[p].of}} => TurnNumbers'
           /\ \A p \in Slot : Enters(p) /\ done' = done /\ requests' = requests + 1 => TurnNumbers'
<1>0. 1..requests \subseteq 1..requests' /\ requests + 1 \notin 1..requests
      /\ (requests' = requests + 1 => requests + 1 \in 1..requests')
  OBVIOUS
<1>1. ASSUME Same, done' = done PROVE TurnNumbers'
  BY <1>0, <1>1 DEF TurnNumbers, Same
<1>2. ASSUME NEW p \in Slot, NEW pc, NEW to, Stays(p, pc, to), done' = done PROVE TurnNumbers'
  <2>1. Turning' = Turning /\ \A q \in Turning : req'[q].of = req[q].of
    BY <1>2 DEF Stays, Others, Turning
  <2> QED
    BY <1>0, <1>2, <2>1 DEF TurnNumbers
<1>3. ASSUME NEW p \in Slot, Leaves(p), done' \in {done, done \cup {req[p].of}} PROVE TurnNumbers'
  <2>1. Turning' = Turning \ {p} /\ p \in Turning /\ \A q \in Turning' : req'[q].of = req[q].of
    BY <1>3 DEF Leaves, Others, Turning
  <2> QED
    BY <1>0, <1>3, <2>1 DEF TurnNumbers
<1>4. ASSUME NEW p \in Slot, Enters(p), done' = done, requests' = requests + 1 PROVE TurnNumbers'
  <2>1. Turning' = Turning \cup {p} /\ p \notin Turning /\ req'[p].of = requests + 1
        /\ \A q \in Turning : req'[q].of = req[q].of
    BY <1>4 DEF Enters, Others, Turning
  <2> QED
    BY <1>0, <1>4, <2>1 DEF TurnNumbers
<1> QED
  BY <1>1, <1>2, <1>3, <1>4

\* A message is its role and its turn.
LEMMA MessageFields ==
    ASSUME msgs \in Seq(Message)
    PROVE  \A i \in DOMAIN msgs : /\ msgs[i] \in Message /\ msgs[i].role \in {"user", "assistant"}
                                 /\ msgs[i].turn \in Nat /\ msgs[i] = [role |-> msgs[i].role, turn |-> msgs[i].turn]
<1>1. \A i \in DOMAIN msgs : msgs[i] \in Message
  BY Positions
<1>2. \A m \in Message : m.role \in {"user", "assistant"} /\ m.turn \in Turns /\ m = [role |-> m.role, turn |-> m.turn]
  BY DEF Message
<1>3. Turns \subseteq Nat
  BY BoundAssumption DEF Turns
<1> QED
  BY <1>1, <1>2, <1>3

\* What is saved after one more message.
LEMMA SavedAfter ==
    ASSUME msgs \in Seq(Message), NEW m \in Message, msgs' = Append(msgs, m)
    PROVE  \A role, t : IsSaved(role, t)' <=> IsSaved(role, t) \/ m = [role |-> role, turn |-> t]
<1>1. /\ Len(msgs) \in Nat /\ DOMAIN msgs = 1..Len(msgs) /\ DOMAIN msgs' = 1..(Len(msgs) + 1)
      /\ \A i \in DOMAIN msgs : i \in DOMAIN msgs' /\ msgs'[i] = msgs[i] /\ i # Len(msgs) + 1
      /\ msgs'[Len(msgs) + 1] = m
  BY Appended
<1>2. \A i \in DOMAIN msgs' : i \in DOMAIN msgs \/ i = Len(msgs) + 1
  BY <1>1
<1>3. Len(msgs) + 1 \in DOMAIN msgs'
  BY <1>1
<1> QED
  BY <1>1, <1>2, <1>3 DEF IsSaved

\* What is saved while no message is added.
LEMMA SavedSame ==
    ASSUME msgs' = msgs
    PROVE  \A role, t : IsSaved(role, t)' <=> IsSaved(role, t)
  BY DEF IsSaved

Saves(p) == req[p].pc \in {"route", "save"}

\* Each message is saved once while none is added and no turn comes to save
\* one.
LEMMA SavedFrame ==
    ASSUME SavedOnce, requests \in Nat, requests' \in {requests, requests + 1}, msgs' = msgs \/ msgs' = <<>>,
           msgs \in Seq(Message),
           \A p \in Turning' : \/ p \in Turning /\ req'[p].of = req[p].of /\ (Saves(p)' => Saves(p))
                               \/ ~ Saves(p)'
    PROVE  SavedOnce'
<1>1. DOMAIN msgs' \subseteq DOMAIN msgs /\ \A i \in DOMAIN msgs' : msgs'[i] = msgs[i]
  OBVIOUS
<1>2. \A i \in DOMAIN msgs : msgs[i].turn \in Nat
  BY MessageFields
<1>3. \A i \in DOMAIN msgs' : msgs'[i].turn <= requests'
  BY <1>1, <1>2 DEF SavedOnce
<1>4. \A i, j \in DOMAIN msgs' : msgs'[i] = msgs'[j] => i = j
  BY <1>1 DEF SavedOnce
<1>5. \A role, t : IsSaved(role, t)' => IsSaved(role, t)
  BY <1>1 DEF IsSaved
<1>6. \A p \in Turning' : Saves(p)' => ~ IsSaved("assistant", req[p].of)'
  BY <1>5 DEF SavedOnce, Saves, IsSaved
<1> QED
  BY <1>3, <1>4, <1>6 DEF SavedOnce, Saves

\* A turn that saves a message that was not there saves it once.
LEMMA SavedMore ==
    ASSUME SavedOnce, requests \in Nat, requests' \in {requests, requests + 1}, msgs \in Seq(Message),
           NEW role \in {"user", "assistant"}, NEW t \in 1..requests', t \in Turns,
           ~ IsSaved(role, t), msgs' = Append(msgs, [role |-> role, turn |-> t]),
           \A p \in Turning' : Saves(p)' => /\ ~ IsSaved("assistant", req'[p].of)
                                            /\ ~ (role = "assistant" /\ req'[p].of = t)
    PROVE  SavedOnce' /\ msgs' \in Seq(Message)
<1> DEFINE m == [role |-> role, turn |-> t]
<1>0. m \in Message /\ m.role = role /\ m.turn = t
  BY DEF Message
<1>1. /\ Len(msgs) \in Nat /\ DOMAIN msgs = 1..Len(msgs) /\ DOMAIN msgs' = 1..(Len(msgs) + 1)
      /\ \A i \in DOMAIN msgs : i \in DOMAIN msgs' /\ msgs'[i] = msgs[i] /\ i # Len(msgs) + 1
      /\ msgs'[Len(msgs) + 1] = m /\ msgs' \in Seq(Message)
  BY <1>0, Appended
<1>2. \A i \in DOMAIN msgs' : i \in DOMAIN msgs \/ i = Len(msgs) + 1
  BY <1>1
<1>3. \A r, u : IsSaved(r, u)' <=> IsSaved(r, u) \/ m = [role |-> r, turn |-> u]
  BY <1>0, SavedAfter
<1>4. \A i \in DOMAIN msgs' : msgs'[i].turn <= requests'
  <2>1. \A i \in DOMAIN msgs : msgs[i].turn \in Nat /\ msgs[i].turn <= requests
    BY MessageFields DEF SavedOnce
  <2>2. \A i \in DOMAIN msgs : msgs'[i].turn <= requests'
    BY <1>1, <2>1
  <2>3. msgs'[Len(msgs) + 1].turn <= requests'
    BY <1>0, <1>1
  <2> QED
    BY <1>2, <2>2, <2>3
<1>5. \A i \in DOMAIN msgs : msgs[i] # m
  BY DEF IsSaved
<1>6. \A i, j \in DOMAIN msgs' : msgs'[i] = msgs'[j] => i = j
  BY <1>1, <1>2, <1>5 DEF SavedOnce
<1>7. \A p \in Turning' : Saves(p)' => ~ IsSaved("assistant", req[p].of)'
  <2> SUFFICES ASSUME NEW p \in Turning', Saves(p)', NEW i \in DOMAIN msgs',
                      msgs'[i] = [role |-> "assistant", turn |-> req'[p].of]
               PROVE  FALSE
    BY DEF IsSaved
  <2>1. CASE i \in DOMAIN msgs
    BY <1>1, <2>1 DEF IsSaved
  <2>2. CASE i = Len(msgs) + 1
    BY <1>0, <1>1, <2>2
  <2> QED
    BY <1>2, <2>1, <2>2
<1> QED
  BY <1>1, <1>4, <1>6, <1>7 DEF SavedOnce, Saves

\* What turns have read stays covered by the conversation.
LEMMA ReadsFrame ==
    ASSUME ReadsCovered
    PROVE  /\ Same => ReadsCovered'
           /\ \A p \in Slot : \A pc, to : Stays(p, pc, to) /\ (pc \in {"find", "insert", "update"} => to \in Covers)
                                        => ReadsCovered'
           /\ \A p \in Slot : Leaves(p) \/ Enters(p) => ReadsCovered'
<1>1. ASSUME Same PROVE ReadsCovered'
  BY <1>1 DEF ReadsCovered, Same
<1>2. ASSUME NEW p \in Slot, NEW pc, NEW to, Stays(p, pc, to), pc \in {"find", "insert", "update"} => to \in Covers
      PROVE  ReadsCovered'
  BY <1>2 DEF ReadsCovered, Stays, Others, Turning
<1>3. ASSUME NEW p \in Slot, Leaves(p) \/ Enters(p) PROVE ReadsCovered'
  BY <1>3 DEF ReadsCovered, Leaves, Enters, Others, Turning
<1> QED
  BY <1>1, <1>2, <1>3

\* The parts of the typing make it up after a step.
LEMMA TypedNext == LibInv' /\ Typed' /\ ReadsCovered' /\ TurnNumbers' /\ SavedOnce' => TurnTyped'
<1>1. LibInv /\ Typed /\ ReadsCovered /\ TurnNumbers /\ SavedOnce => TurnTyped
  BY TypedParts
<1> QED
  BY <1>1, PTL

\* A question is saved once, under a new number.
LEMMA AskTyped ==
    ASSUME LibInv, TurnTyped, LibInv', NEW p \in Slot, NEW op \in {"stream", "chat"}, Ask(p, op)
    PROVE  TurnTyped'
<1>0. Typed /\ ReadsCovered /\ TurnNumbers /\ SavedOnce /\ requests \in Nat /\ msgs \in Seq(Message)
  BY TypedParts, LibFacts DEF Typed
<1>1. /\ requests' = requests + 1 /\ msgs' = Append(msgs, [role |-> "user", turn |-> requests'])
      /\ over' = IF Turning = {} THEN over \ {p} ELSE over \cup Turning \cup {p}
      /\ UNCHANGED <<sum, title, usage, done, refusals, silent, lost, lag, refined, kept>>
  BY DEF Ask, Asks, Saved
<1>2. Enters(p)
  BY <1>0, TurnEffects
<1>3. TurnNumbers' /\ ReadsCovered'
  BY <1>0, <1>1, <1>2, NumbersFrame, ReadsFrame
<1>4. requests' \in Turns /\ requests' \in 1..requests'
  <2>1. requests' \in 0..MaxRequests
    BY DEF LibInv, LibTyped
  <2> QED
    BY <1>0, <1>1, <2>1 DEF Turns
<1>5. \A role : ~ IsSaved(role, requests')
  <2>1. \A i \in DOMAIN msgs : msgs[i].turn # requests'
    BY <1>0, <1>1, MessageFields DEF SavedOnce
  <2> QED
    BY <2>1 DEF IsSaved
<1>6. \A q \in Turning' : Saves(q)' => ~ IsSaved("assistant", req'[q].of)
  BY <1>0, <1>1, <1>2, <1>5 DEF Enters, Others, Turning, SavedOnce, Saves
<1>7. SavedOnce' /\ msgs' \in Seq(Message)
  BY <1>0, <1>1, <1>4, <1>5, <1>6, SavedMore
<1>8. over' \subseteq Slot
  BY <1>0, <1>1 DEF Typed, Turning
<1>9. Typed'
  BY <1>0, <1>1, <1>7, <1>8 DEF Typed
<1> QED
  BY <1>3, <1>7, <1>9, TypedNext

\* An answer is saved once (the stream's last step).
LEMMA SaveTyped ==
    ASSUME LibInv, TurnTyped, LibInv', NEW p \in Slot, Save(p)
    PROVE  TurnTyped'
<1>0. Typed /\ ReadsCovered /\ TurnNumbers /\ SavedOnce /\ requests \in Nat /\ msgs \in Seq(Message)
  BY TypedParts, LibFacts DEF Typed
<1>1. /\ requests' = requests /\ p \in Turning /\ req[p].pc = "save"
      /\ UNCHANGED <<sum, title, usage, done, refusals, silent, lost, over, refined, kept>>
      /\ IF chat THEN msgs' = Append(msgs, [role |-> "assistant", turn |-> req[p].of]) /\ lag' = lag
         ELSE msgs' = msgs /\ lag' = TRUE
      /\ IF chat THEN Stays(p, "read", req[p].to) ELSE Leaves(p)
  BY <1>0, TurnEffects DEF Save, Stops, Saved
<1>2. TurnNumbers' /\ ReadsCovered'
  BY <1>0, <1>1, NumbersFrame, ReadsFrame
<1>3. SavedOnce' /\ msgs' \in Seq(Message)
  <2>1. CASE chat
    <3>1. req[p].of \in 1..requests' /\ req[p].of \in Turns /\ ~ IsSaved("assistant", req[p].of)
      <4>1. requests \in 0..MaxRequests /\ req[p].of \in 1..requests
        BY <1>0, <1>1 DEF LibInv, LibTyped, TurnNumbers
      <4>2. 1..requests \subseteq Turns
        BY <4>1, BoundAssumption DEF Turns
      <4> QED
        BY <1>0, <1>1, <4>1, <4>2 DEF SavedOnce
    <3>2. ASSUME NEW q \in Turning', Saves(q)'
          PROVE  ~ IsSaved("assistant", req'[q].of) /\ req'[q].of # req[p].of
      <4>1. q \in Turning /\ q # p /\ req'[q] = req[q]
        BY <1>1, <2>1, <3>2 DEF Stays, Others, Turning, Saves
      <4>2. Saves(q)
        BY <3>2, <4>1 DEF Saves
      <4> QED
        BY <1>0, <1>1, <4>1, <4>2 DEF SavedOnce, TurnNumbers, Saves
    <3> QED
      BY <1>0, <1>1, <2>1, <3>1, <3>2, SavedMore
  <2>2. CASE ~ chat
    <3>1. \A q \in Turning' : q \in Turning /\ req'[q] = req[q]
      BY <1>1, <2>2 DEF Leaves, Others, Turning
    <3>2. \A q \in Turning' : q \in Turning /\ req'[q].of = req[q].of /\ (Saves(q)' => Saves(q))
      BY <3>1 DEF Saves
    <3> QED
      BY <1>0, <1>1, <2>2, <3>2, SavedFrame
  <2> QED
    BY <2>1, <2>2
<1>4. lag' \in BOOLEAN
  BY <1>0, <1>1 DEF Typed
<1>5. Typed'
  BY <1>0, <1>1, <1>3, <1>4 DEF Typed
<1> QED
  BY <1>2, <1>3, <1>5, TypedNext

\* A step that saves no message.
LEMMA QuietTyped ==
    ASSUME LibInv, TurnTyped, LibInv', NEW p \in Slot, msgs' = msgs \/ msgs' = <<>>,
           requests' \in {requests, requests + 1}, sum' \in Covers, title' \in {"first", "user", "refined"},
           usage' \subseteq Turns, refusals' \subseteq Turns, silent' \subseteq Turns, lost' \subseteq Turns, over' = over,
           lag' \in BOOLEAN, kept' \in BOOLEAN, refined' \in Nat,
           \/ Same /\ done' = done
           \/ Leaves(p) /\ done' \in {done, done \cup {req[p].of}}
           \/ /\ \E pc, to : /\ Stays(p, pc, to) /\ (pc \in {"find", "insert", "update"} => to \in Covers)
                             /\ (pc \in {"route", "save"} => Saves(p))
              /\ done' = done
    PROVE  TurnTyped'
<1>0. Typed /\ ReadsCovered /\ TurnNumbers /\ SavedOnce /\ requests \in Nat /\ msgs \in Seq(Message)
  BY TypedParts, LibFacts DEF Typed
<1>1. TurnNumbers' /\ ReadsCovered'
  BY <1>0, NumbersFrame, ReadsFrame
<1>2. \A q \in Turning' : q \in Turning /\ req'[q].of = req[q].of /\ (Saves(q)' => Saves(q))
  <2>1. CASE Same
    BY <2>1 DEF Same, Saves
  <2>2. CASE Leaves(p)
    BY <2>2 DEF Leaves, Others, Turning, Saves
  <2>3. ASSUME NEW pc, NEW to, Stays(p, pc, to), pc \in {"route", "save"} => Saves(p)
        PROVE  \A q \in Turning' : q \in Turning /\ req'[q].of = req[q].of /\ (Saves(q)' => Saves(q))
    BY <2>3 DEF Stays, Others, Turning, Saves
  <2> QED
    BY <2>1, <2>2, <2>3
<1>3. SavedOnce'
  BY <1>0, <1>2, SavedFrame
<1>4. done' \subseteq Turns
  <2>1. \A q \in Turning : req[q].of \in Turns
    <3>1. requests \in 0..MaxRequests /\ \A q \in Turning : req[q].of \in 1..requests
      BY <1>0 DEF LibInv, LibTyped, TurnNumbers
    <3> QED
      BY <3>1, BoundAssumption DEF Turns
  <2> QED
    BY <1>0, <2>1 DEF Leaves, Typed
<1>5. msgs' \in Seq(Message)
  <2>1. <<>> \in Seq(Message)
    BY EmptySeq
  <2> QED
    BY <1>0, <2>1
<1>6. Typed'
  BY <1>0, <1>4, <1>5 DEF Typed
<1> QED
  BY <1>1, <1>3, <1>6, TypedNext

\* A step that leaves the turns and what they have done alone.
Aside == Same /\ UNCHANGED <<turns, hist>> /\ chat' = chat /\ requests' \in {requests, requests + 1}

\* A step of the library keeps the typing of turns.
LEMMA AsideTyped ==
    ASSUME LibInv, TurnTyped, LibInv', Aside
    PROVE  TurnTyped'
<1>0. Typed /\ ReadsCovered /\ TurnNumbers /\ SavedOnce /\ requests \in Nat /\ msgs \in Seq(Message)
  BY TypedParts, LibFacts DEF Typed
<1>1. Typed'
  BY <1>0 DEF Aside, Typed, turns, hist
<1>2. TurnNumbers' /\ ReadsCovered'
  BY <1>0, NumbersFrame, ReadsFrame DEF Aside, hist
<1>3. SavedOnce'
  <2>1. \A q \in Turning' : q \in Turning /\ req'[q].of = req[q].of /\ (Saves(q)' => Saves(q))
    BY DEF Aside, Same, Saves
  <2> QED
    BY <1>0, <2>1, SavedFrame DEF Aside, turns
<1> QED
  BY <1>1, <1>2, <1>3, TypedNext

\* The steps of turns, listed.
LEMMA TurnActions ==
    ASSUME TurnNext
    PROVE  \E p \in Slot :
      \/ \E op \in {"stream", "chat"} : Ask(p, op)
      \/ Refuse(p) \/ Answer(p) \/ AnswerNothing(p) \/ Break(p) \/ Save(p) \/ ReadMessages(p) \/ FindSummary(p)
      \/ PutSummary(p) \/ CountAnswers(p) \/ RefineTitle(p) \/ Rename(p) \/ AskRefine(p)
      \/ CommitRefine(p) \/ DeleteSession(p)
  BY DEF TurnNext

\* Every step of a turn keeps the typing of turns.
LEMMA TurnTypedStep ==
    ASSUME LibInv, TurnTyped, LibInv', TurnNext
    PROVE  TurnTyped'
<1> PICK p \in Slot :
      \/ \E op \in {"stream", "chat"} : Ask(p, op)
      \/ Refuse(p) \/ Answer(p) \/ AnswerNothing(p) \/ Break(p) \/ Save(p) \/ ReadMessages(p) \/ FindSummary(p)
      \/ PutSummary(p) \/ CountAnswers(p) \/ RefineTitle(p) \/ Rename(p) \/ AskRefine(p)
      \/ CommitRefine(p) \/ DeleteSession(p)
  BY TurnActions
<1>0. Typed /\ ReadsCovered /\ TurnNumbers /\ SavedOnce /\ requests \in Nat /\ msgs \in Seq(Message)
  BY TypedParts, LibFacts DEF Typed
<1>f. /\ sum \in Covers /\ title \in {"first", "user", "refined"} /\ usage \subseteq Turns /\ refusals \subseteq Turns
      /\ silent \subseteq Turns /\ lost \subseteq Turns /\ lag \in BOOLEAN /\ kept \in BOOLEAN /\ refined \in Nat
  BY <1>0 DEF Typed
<1>n. p \in Turning => req[p].of \in Turns
  <2>1. requests \in 0..MaxRequests /\ \A q \in Turning : req[q].of \in 1..requests
    BY <1>0 DEF LibInv, LibTyped, TurnNumbers
  <2> QED
    BY <2>1, BoundAssumption DEF Turns
<1>1. ASSUME NEW op \in {"stream", "chat"}, Ask(p, op) PROVE TurnTyped'
  BY <1>1, AskTyped
<1>2. ASSUME Refuse(p) PROVE TurnTyped'
  <2>1. /\ msgs' = msgs /\ requests' = requests /\ refusals' = refusals \cup {req[p].of} /\ p \in Turning
        /\ UNCHANGED <<sum, title, usage, done, silent, lost, over, lag, refined, kept>> /\ Saves(p)
    BY <1>2 DEF Refuse, At, turns, Turning, Saves
  <2>2. Stays(p, "save", req[p].to)
    BY <1>0, <1>2, TurnEffects
  <2> QED
    BY <1>f, <1>n, <2>1, <2>2, QuietTyped
<1>3. ASSUME Answer(p) PROVE TurnTyped'
  <2>1. /\ msgs' = msgs /\ requests' = requests /\ p \in Turning /\ Saves(p)
        /\ UNCHANGED <<sum, title, done, refusals, silent, over, lag, refined, kept>>
    BY <1>3 DEF Answer, Turning, Saves
  <2>r. usage' \subseteq usage \cup {req[p].of} /\ lost' \subseteq lost \cup {req[p].of}
    BY <1>3 DEF Answer, Counts, Recorded
  <2>2. Stays(p, "save", req[p].to)
    BY <1>0, <1>3, TurnEffects
  <2> QED
    BY <1>f, <1>n, <2>1, <2>r, <2>2, QuietTyped
<1>4. ASSUME Break(p) PROVE TurnTyped'
  <2>1. /\ msgs' = msgs /\ requests' = requests /\ lag' = TRUE
        /\ UNCHANGED <<sum, title, usage, done, refusals, silent, lost, over, refined, kept>>
    BY <1>4 DEF Break, Stops, turns
  <2>2. Leaves(p)
    BY <1>0, <1>4, TurnEffects
  <2> QED
    BY <1>f, <2>1, <2>2, QuietTyped
<1>5. ASSUME Save(p) PROVE TurnTyped'
  BY <1>5, SaveTyped
<1>6. ASSUME ReadMessages(p) PROVE TurnTyped'
  <2>1. msgs' = msgs /\ requests' = requests
        /\ UNCHANGED <<sum, title, usage, done, refusals, silent, lost, over, lag, refined, kept>>
    BY <1>6 DEF ReadMessages, turns, hist
  <2>2. Stays(p, IF msgs = <<>> THEN "count" ELSE "find", Len(msgs))
    BY <1>0, <1>6, TurnEffects
  <2>3. Len(msgs) \in Covers
    BY <1>0, MessagesBounded DEF SavedOnce
  <2>4. (IF msgs = <<>> THEN "count" ELSE "find") \notin {"route", "save"}
    OBVIOUS
  <2> QED
    BY <1>f, <2>1, <2>2, <2>3, <2>4, QuietTyped
<1>7. ASSUME FindSummary(p) PROVE TurnTyped'
  <2>1. /\ msgs' = msgs /\ requests' = requests /\ req[p].pc = "find" /\ p \in Turning
        /\ UNCHANGED <<sum, title, usage, done, refusals, silent, lost, over, lag, refined, kept>>
    BY <1>7 DEF FindSummary, turns, hist
  <2>2. Stays(p, IF sum = 0 THEN "insert" ELSE "update", req[p].to)
    BY <1>0, <1>7, TurnEffects
  <2>3. req[p].to \in Covers
    BY <1>0, <2>1 DEF ReadsCovered
  <2>4. (IF sum = 0 THEN "insert" ELSE "update") \notin {"route", "save"}
    OBVIOUS
  <2> QED
    BY <1>f, <2>1, <2>2, <2>3, <2>4, QuietTyped
<1>8. ASSUME PutSummary(p) PROVE TurnTyped'
  <2>1. /\ msgs' = msgs /\ requests' = requests /\ req[p].pc \in {"insert", "update"} /\ p \in Turning
        /\ (sum' = sum \/ sum' = req[p].to)
        /\ UNCHANGED <<title, usage, done, refusals, silent, lost, over, refined, kept>>
    BY <1>8 DEF PutSummary
  <2>b. lag' \in BOOLEAN
    <3>1. (p \in over) \in BOOLEAN
      OBVIOUS
    <3>2. lag' = TRUE \/ lag' = (p \in over)
      BY <1>8 DEF PutSummary
    <3> QED
      BY Zenon, <3>1, <3>2
  <2>2. Stays(p, "count", req[p].to) \/ Leaves(p)
    BY <1>0, <1>8, TurnEffects
  <2>3. req[p].to \in Covers
    BY <1>0, <2>1 DEF ReadsCovered
  <2> QED
    BY <1>f, <2>1, <2>b, <2>2, <2>3, QuietTyped
<1>9. ASSUME CountAnswers(p) PROVE TurnTyped'
  <2>1. /\ msgs' = msgs /\ requests' = requests
        /\ UNCHANGED <<sum, title, usage, refusals, silent, lost, over, lag, refined, kept>>
    BY <1>9 DEF CountAnswers, turns
  <2>2. (Stays(p, "refine", req[p].to) /\ done' = done) \/ (Leaves(p) /\ done' = done \cup {req[p].of})
    BY <1>0, <1>9, TurnEffects
  <2> QED
    BY <1>f, <2>1, <2>2, QuietTyped
<1>10. ASSUME RefineTitle(p) PROVE TurnTyped'
  <2>1. /\ msgs' = msgs /\ requests' = requests /\ done' = done \cup {req[p].of}
        /\ title' \in {title, "refined"} /\ refined' \in {refined, refined + 1}
        /\ UNCHANGED <<sum, usage, refusals, silent, lost, over, lag, kept>>
    BY <1>10 DEF RefineTitle, Finishes
  <2>2. Leaves(p)
    BY <1>0, <1>10, TurnEffects
  <2> QED
    BY <1>f, <2>1, <2>2, QuietTyped
<1>11. ASSUME Rename(p) PROVE TurnTyped'
  <2>1. /\ msgs' = msgs /\ requests' = requests + 1 /\ title' = "user" /\ kept' \in BOOLEAN
        /\ UNCHANGED <<sum, usage, done, refusals, silent, lost, over, lag, refined>>
    BY <1>11 DEF Rename, Asks
  <2>2. Same
    BY <1>0, <1>11, TurnEffects
  <2> QED
    BY <1>f, <2>1, <2>2, QuietTyped
<1>12. ASSUME AskRefine(p) PROVE TurnTyped'
  <2>1. Same
    BY <1>0, <1>12, TurnEffects
  <2>2. Aside
    BY <1>12, <2>1 DEF AskRefine, Asks, Aside, rows
  <2> QED
    BY <2>2, AsideTyped
<1>13. ASSUME CommitRefine(p) PROVE TurnTyped'
  <2>1. /\ msgs' = msgs /\ requests' = requests /\ title' \in {title, "refined"} /\ kept' \in {kept, FALSE}
        /\ UNCHANGED <<sum, usage, done, refusals, silent, lost, over, lag, refined>>
    BY <1>13 DEF CommitRefine
  <2>2. Same
    BY <1>0, <1>13, TurnEffects
  <2> QED
    BY <1>f, <2>1, <2>2, QuietTyped
<1>14. ASSUME DeleteSession(p) PROVE TurnTyped'
  <2>1. /\ msgs' = <<>> /\ requests' = requests /\ sum' = 0
        /\ UNCHANGED <<title, usage, done, refusals, silent, lost, over, lag, refined, kept>>
    BY <1>14 DEF DeleteSession, CommitDelete, Cascade, hist
  <2>2. Same
    BY <1>0, <1>14, TurnEffects
  <2>3. 0 \in Covers
    BY BoundAssumption DEF Covers
  <2> QED
    BY <1>f, <2>1, <2>2, <2>3, QuietTyped
<1>15. ASSUME AnswerNothing(p) PROVE TurnTyped'
  <2>1. /\ msgs' = msgs /\ requests' = requests /\ lag' = TRUE /\ p \in Turning
        /\ done' = done \cup {req[p].of} /\ silent' = silent \cup {req[p].of}
        /\ UNCHANGED <<sum, title, refusals, over, refined, kept>>
    BY <1>15 DEF AnswerNothing, Stops, At, Turning
  <2>r. usage' \subseteq usage \cup {req[p].of} /\ lost' \subseteq lost \cup {req[p].of}
    BY <1>15 DEF AnswerNothing, Counts, Recorded
  <2>2. Leaves(p)
    BY <1>0, <1>15, TurnEffects
  <2> QED
    BY <1>f, <1>n, <2>1, <2>r, <2>2, QuietTyped
<1> QED
  BY <1>1, <1>2, <1>3, <1>4, <1>5, <1>6, <1>7, <1>8, <1>9, <1>10, <1>11, <1>12, <1>13, <1>14, <1>15

-----------------------------------------------------------------------------
(* What is done is answered and counted *)

AnswerInv == AnswerKept /\ SilentIsDone /\ DoneIsAnswered /\ DoneIsCounted
Grows == \A i \in DOMAIN msgs : i \in DOMAIN msgs' /\ msgs'[i] = msgs[i]
IsKept(p) ==
    /\ chat /\ req[p].pc \in Past => IsSaved("assistant", req[p].of)
    /\ req[p].pc \in Past \/ (chat /\ req[p].pc = "save") => req[p].of \in usage \cup refusals \cup lost

\* A step tells no client that a turn is done; or it tells one, of an answer
\* that is saved or of a stream without a token.
Untold == UNCHANGED <<done, silent>>
ToldSaved(p) == req[p].pc \in Past /\ silent' = silent
ToldSilent(p) ==
    /\ silent' = silent \cup {req[p].of} /\ msgs' = msgs /\ ~ IsSaved("assistant", req[p].of)
    /\ chat' => req[p].of \in usage' \cup lost'
Told(p) == done' = done \cup {req[p].of} /\ (ToldSaved(p) \/ ToldSilent(p))

\* A step of one turn keeps what is known of the answers of the others.
LEMMA AnswerFrame ==
    ASSUME AnswerInv, chat' => chat /\ Grows, usage \subseteq usage', refusals \subseteq refusals', lost \subseteq lost',
           NEW p \in Slot, Others(p), p \in Turning' => IsKept(p)',
           \A t \in done : chat' /\ IsSaved("assistant", t)' => IsSaved("assistant", t),
           Untold \/ (p \in Turning /\ req[p].of \notin done /\ Told(p))
    PROVE  AnswerInv'
<1>1. \A role, t : chat' /\ IsSaved(role, t) => \E i \in DOMAIN msgs' : msgs'[i] = [role |-> role, turn |-> t]
  BY DEF IsSaved, Grows
<1>2. AnswerKept'
  <2> SUFFICES ASSUME NEW q \in Turning' PROVE IsKept(q)'
    BY DEF AnswerKept, IsKept
  <2>1. CASE q = p
    BY <2>1
  <2>2. CASE q # p
    <3>1. q \in Turning /\ req'[q] = req[q]
      BY <2>2 DEF Turning, Others
    <3>2. IsKept(q)
      BY <3>1 DEF AnswerInv, AnswerKept, IsKept
    <3> QED
      BY <1>1, <3>1, <3>2 DEF IsKept, IsSaved
  <2> QED
    BY <2>1, <2>2
<1>i. AnswerKept /\ silent \subseteq done /\ DoneIsAnswered /\ DoneIsCounted
  BY DEF AnswerInv, SilentIsDone
<1>d. \A t \in done : t \in silent' <=> t \in silent
  BY DEF Untold, Told, ToldSaved, ToldSilent
<1>3. DoneIsAnswered'
  <2> SUFFICES ASSUME chat', NEW t \in done' PROVE t \notin silent' <=> IsSaved("assistant", t)'
    BY DEF DoneIsAnswered, IsSaved
  <2>1. CASE t \in done
    <3>1. t \notin silent <=> IsSaved("assistant", t)
      BY <1>i, <2>1 DEF DoneIsAnswered, IsSaved
    <3>2. IsSaved("assistant", t) => IsSaved("assistant", t)'
      BY <1>1 DEF IsSaved
    <3> QED
      BY <1>d, <2>1, <3>1, <3>2
  <2>2. CASE t \notin done
    <3>1. t = req[p].of /\ p \in Turning /\ req[p].of \notin done /\ Told(p)
      BY <2>2 DEF Untold, Told
    <3>2. CASE ToldSaved(p)
      <4>1. IsSaved("assistant", t)
        BY <1>i, <3>1, <3>2 DEF AnswerKept, ToldSaved
      <4>2. IsSaved("assistant", t)'
        BY <1>1, <4>1 DEF IsSaved
      <4>3. t \notin silent'
        BY <1>i, <3>1, <3>2 DEF ToldSaved
      <4> QED
        BY <4>2, <4>3
    <3>3. CASE ToldSilent(p)
      BY <3>1, <3>3 DEF ToldSilent, IsSaved
    <3> QED
      BY <3>1, <3>2, <3>3 DEF Told
  <2> QED
    BY <2>1, <2>2
<1>4. DoneIsCounted'
  <2> SUFFICES ASSUME NEW t \in done' PROVE t \in usage' \cup refusals' \cup lost' \/ (t \in silent' /\ ~ chat')
    BY DEF DoneIsCounted
  <2>1. CASE t \in done
    BY <1>i, <1>d, <2>1 DEF DoneIsCounted
  <2>2. CASE t \notin done
    <3>1. t = req[p].of /\ p \in Turning /\ Told(p)
      BY <2>2 DEF Untold, Told
    <3>2. CASE ToldSaved(p)
      BY <1>i, <3>1, <3>2 DEF AnswerKept, ToldSaved
    <3>3. CASE ToldSilent(p)
      BY <3>1, <3>3 DEF ToldSilent
    <3> QED
      BY <3>1, <3>2, <3>3 DEF Told
  <2> QED
    BY <2>1, <2>2
<1>5. SilentIsDone'
  BY <1>i DEF SilentIsDone, Untold, Told, ToldSaved, ToldSilent
<1> QED
  BY <1>2, <1>3, <1>4, <1>5 DEF AnswerInv

\* A step of the library does so too.
LEMMA AsideAnswered ==
    ASSUME AnswerInv, Aside
    PROVE  AnswerInv'
<1>1. UNCHANGED <<msgs, usage, done, refusals, silent, lost, chat>> /\ Same
  BY DEF Aside, turns, hist
<1>2. AnswerKept'
  BY <1>1 DEF AnswerInv, AnswerKept, Same, IsSaved
<1> QED
  BY <1>1, <1>2 DEF AnswerInv, DoneIsAnswered, DoneIsCounted, SilentIsDone

\* What is done is saved, counted and not lost, at every step of a turn.
LEMMA AnswerStep ==
    ASSUME LibInv, TurnTyped, AnswerInv, TurnNext
    PROVE  AnswerInv'
<1> PICK p \in Slot :
      \/ \E op \in {"stream", "chat"} : Ask(p, op)
      \/ Refuse(p) \/ Answer(p) \/ AnswerNothing(p) \/ Break(p) \/ Save(p) \/ ReadMessages(p) \/ FindSummary(p)
      \/ PutSummary(p) \/ CountAnswers(p) \/ RefineTitle(p) \/ Rename(p) \/ AskRefine(p)
      \/ CommitRefine(p) \/ DeleteSession(p)
  BY TurnActions
<1>0. msgs \in Seq(Message)
  BY TypedParts DEF Typed
<1>d. p \in Turning => req[p].of \notin done
  BY TypedParts DEF TurnNumbers
<1>g. msgs' = msgs => Grows /\ \A role, t : IsSaved(role, t)' => IsSaved(role, t)
  BY DEF Grows, IsSaved
<1>a. \A m \in Message : msgs' = Append(msgs, m) =>
         /\ Grows /\ \E i \in DOMAIN msgs' : msgs'[i] = m
  <2> SUFFICES ASSUME NEW m \in Message, msgs' = Append(msgs, m)
               PROVE  Grows /\ \E i \in DOMAIN msgs' : msgs'[i] = m
    OBVIOUS
  <2>1. /\ Len(msgs) \in Nat /\ DOMAIN msgs' = 1..(Len(msgs) + 1)
        /\ \A i \in DOMAIN msgs : i \in DOMAIN msgs' /\ msgs'[i] = msgs[i]
        /\ msgs'[Len(msgs) + 1] = m
    BY <1>0, Appended
  <2>2. Len(msgs) + 1 \in DOMAIN msgs'
    BY <2>1
  <2> QED
    BY <2>1, <2>2 DEF Grows
<1>k. p \in Turning => IsKept(p)
  BY DEF AnswerInv, AnswerKept, IsKept
<1>n. p \in Turning => req[p].of \in Turns
  <2>1. requests \in 0..MaxRequests /\ \A q \in Turning : req[q].of \in 1..requests
    BY TypedParts DEF LibInv, LibTyped, TurnNumbers
  <2> QED
    BY <2>1, BoundAssumption DEF Turns
<1>1. ASSUME NEW op \in {"stream", "chat"}, Ask(p, op) PROVE AnswerInv'
  <2>1. /\ chat' = chat /\ msgs' = Append(msgs, [role |-> "user", turn |-> requests'])
        /\ UNCHANGED <<usage, refusals, done, silent, lost>> /\ requests' = requests + 1 /\ requests < MaxRequests
    BY <1>1 DEF Ask, Asks, Saved, rows
  <2>2. Enters(p)
    BY <1>0, <1>1, TurnEffects
  <2>3. [role |-> "user", turn |-> requests'] \in Message
    BY <2>1, LibFacts, BoundAssumption DEF Message, Turns
  <2>4. Others(p) /\ IsKept(p)'
    BY <2>2 DEF Enters, IsKept, Past
  <2>5. \A t : IsSaved("assistant", t)' => IsSaved("assistant", t)
    BY <1>0, <2>1, <2>3, SavedAfter
  <2> QED
    BY <1>a, <2>1, <2>3, <2>4, <2>5, AnswerFrame DEF Untold
<1>2. ASSUME Refuse(p) PROVE AnswerInv'
  <2>1. /\ chat' = chat /\ UNCHANGED <<msgs, usage, done, silent, lost>> /\ refusals' = refusals \cup {req[p].of}
    BY <1>2 DEF Refuse, rows, turns
  <2>2. Stays(p, "save", req[p].to)
    BY <1>0, <1>2, TurnEffects
  <2>3. Others(p) /\ IsKept(p)'
    BY <2>1, <2>2 DEF Stays, IsKept, Past
  <2> QED
    BY <1>g, <2>1, <2>3, AnswerFrame DEF Untold
<1>3. ASSUME Answer(p) PROVE AnswerInv'
  <2>r. /\ chat' = chat /\ UNCHANGED <<msgs, done, silent, refusals>>
        /\ Recorded(req[p].of, IF req[p].op = "stream" THEN Counts(req[p].of) ELSE usage \cup {req[p].of})
    BY <1>3 DEF Answer, rows
  <2>1. /\ chat' = chat /\ UNCHANGED <<msgs, done, silent, refusals>> /\ usage \subseteq usage' /\ lost \subseteq lost'
        /\ chat => req[p].of \in usage' \cup lost'
    BY <2>r DEF Recorded, Counts
  <2>2. Stays(p, "save", req[p].to)
    BY <1>0, <1>3, TurnEffects
  <2>3. Others(p) /\ IsKept(p)'
    BY <2>1, <2>2 DEF Stays, IsKept, Past
  <2> QED
    BY <1>g, <2>1, <2>3, AnswerFrame DEF Untold
<1>4. ASSUME Leaves(p), chat' = chat, msgs' = msgs, UNCHANGED <<usage, refusals, silent, lost>>,
             done' = done \/ (done' = done \cup {req[p].of} /\ req[p].pc \in Past)
      PROVE  AnswerInv'
  <2>1. Others(p) /\ p \notin Turning' /\ p \in Turning
    BY <1>4 DEF Leaves
  <2> QED
    BY <1>d, <1>g, <1>4, <2>1, AnswerFrame DEF Untold, Told, ToldSaved
<1>5. ASSUME NEW pc \in Past, NEW to, Stays(p, pc, to), req[p].pc \in Past,
             chat' = chat, msgs' = msgs, UNCHANGED <<usage, refusals, done, silent, lost>>
      PROVE  AnswerInv'
  <2>1. Others(p) /\ p \in Turning /\ req'[p].pc \in Past /\ req'[p].of = req[p].of
    BY <1>5 DEF Stays
  <2>2. IsKept(p)'
    BY <1>k, <1>5, <2>1 DEF IsKept, IsSaved
  <2> QED
    BY <1>g, <1>5, <2>1, <2>2, AnswerFrame DEF Untold
<1>6. ASSUME Break(p) PROVE AnswerInv'
  <2>1. chat' = chat /\ UNCHANGED <<msgs, usage, refusals, done, silent, lost>>
    BY <1>6 DEF Break, turns, rows
  <2>2. Leaves(p)
    BY <1>0, <1>6, TurnEffects
  <2> QED
    BY <1>4, <2>1, <2>2
<1>7. ASSUME Save(p) PROVE AnswerInv'
  <2>1. /\ chat' = chat /\ UNCHANGED <<usage, refusals, done, silent, lost>> /\ p \in Turning /\ req[p].pc = "save"
        /\ IF chat THEN msgs' = Append(msgs, [role |-> "assistant", turn |-> req[p].of]) ELSE msgs' = msgs
    BY <1>7 DEF Save, Saved, rows
  <2>2. IF chat THEN Stays(p, "read", req[p].to) ELSE Leaves(p)
    BY <1>0, <1>7, TurnEffects
  <2>3. CASE chat
    <3>1. [role |-> "assistant", turn |-> req[p].of] \in Message
      BY <1>n, <2>1 DEF Message
    <3>2. Grows /\ \E i \in DOMAIN msgs' : msgs'[i] = [role |-> "assistant", turn |-> req[p].of]
      BY <1>a, <2>1, <2>3, <3>1
    <3>3. Others(p) /\ req'[p].of = req[p].of /\ req'[p].pc = "read" /\ req[p].of \in usage \cup refusals \cup lost
      BY <1>k, <2>1, <2>2, <2>3 DEF Stays, IsKept
    <3>4. IsKept(p)'
      BY <2>1, <3>2, <3>3 DEF IsKept, IsSaved
    <3>5. \A t \in done : IsSaved("assistant", t)' => IsSaved("assistant", t)
      <4> SUFFICES ASSUME NEW t \in done, IsSaved("assistant", t)' PROVE IsSaved("assistant", t)
        OBVIOUS
      <4>1. req[p].of # t
        BY <1>d, <2>1
      <4>2. [role |-> "assistant", turn |-> req[p].of] # [role |-> "assistant", turn |-> t]
        BY <4>1
      <4> QED
        BY <1>0, <2>1, <2>3, <3>1, <4>2, SavedAfter
    <3> QED
      BY <2>1, <3>2, <3>3, <3>4, <3>5, AnswerFrame DEF Untold
  <2>4. CASE ~ chat
    BY <1>4, <2>1, <2>2, <2>4
  <2> QED
    BY <2>3, <2>4
<1>8. ASSUME ReadMessages(p) \/ FindSummary(p) PROVE AnswerInv'
  <2>1. chat' = chat /\ UNCHANGED <<msgs, usage, refusals, done, silent, lost>> /\ req[p].pc \in Past
    BY <1>8 DEF ReadMessages, FindSummary, turns, rows, hist, Past
  <2>2. \E pc \in Past, to \in Nat : Stays(p, pc, to)
    <3>1. req[p].to \in Nat /\ Len(msgs) \in Nat
      BY <1>0, LibFacts, Positions
    <3>2. (IF msgs = <<>> THEN "count" ELSE "find") \in Past /\ (IF sum = 0 THEN "insert" ELSE "update") \in Past
      BY DEF Past
    <3> QED
      BY <1>0, <1>8, <3>1, <3>2, TurnEffects
  <2> QED
    BY <1>5, <2>1, <2>2
<1>9. ASSUME PutSummary(p) \/ CountAnswers(p) \/ RefineTitle(p) PROVE AnswerInv'
  <2>1. /\ chat' = chat /\ UNCHANGED <<msgs, usage, refusals, silent, lost>> /\ req[p].pc \in Past
        /\ done' = done \/ done' = done \cup {req[p].of}
    BY <1>9 DEF PutSummary, CountAnswers, RefineTitle, Finishes, At, turns, rows, Past
  <2>2. \/ Leaves(p)
        \/ done' = done /\ \E pc \in Past : Stays(p, pc, req[p].to)
    <3>1. "count" \in Past /\ "refine" \in Past
      BY DEF Past
    <3>2. PutSummary(p) => done' = done
      BY DEF PutSummary
    <3> QED
      BY <1>0, <1>9, <3>1, <3>2, TurnEffects
  <2> QED
    BY <1>4, <1>5, <2>1, <2>2
<1>10. ASSUME Rename(p) \/ AskRefine(p) \/ CommitRefine(p) PROVE AnswerInv'
  <2>1. UNCHANGED <<msgs, usage, done, refusals, silent, lost, chat>>
    BY <1>10 DEF Rename, AskRefine, CommitRefine, turns, hist, rows
  <2>2. Same
    BY <1>0, <1>10, TurnEffects
  <2>3. AnswerKept'
    BY <2>1, <2>2 DEF AnswerInv, AnswerKept, Same, IsSaved
  <2> QED
    BY <2>1, <2>3 DEF AnswerInv, DoneIsAnswered, DoneIsCounted, SilentIsDone
<1>11. ASSUME DeleteSession(p) PROVE AnswerInv'
  <2>1. ~ chat' /\ UNCHANGED <<usage, done, refusals, silent, lost>>
    BY <1>11 DEF DeleteSession, CommitDelete, hist
  <2>2. Same
    BY <1>0, <1>11, TurnEffects
  <2>3. AnswerKept'
    BY <2>1, <2>2 DEF AnswerInv, AnswerKept, Same
  <2> QED
    BY <2>1, <2>3 DEF AnswerInv, DoneIsAnswered, DoneIsCounted, SilentIsDone
<1>12. ASSUME AnswerNothing(p) PROVE AnswerInv'
  <2>1. /\ chat' = chat /\ UNCHANGED <<msgs, refusals>> /\ p \in Turning /\ req[p].pc = "route"
        /\ done' = done \cup {req[p].of} /\ silent' = silent \cup {req[p].of}
        /\ Recorded(req[p].of, Counts(req[p].of))
    BY <1>12 DEF AnswerNothing, At, Turning, rows
  <2>2. usage \subseteq usage' /\ lost \subseteq lost' /\ (chat => req[p].of \in usage' \cup lost')
    BY <2>1 DEF Recorded, Counts
  <2>3. ~ IsSaved("assistant", req[p].of)
    BY <2>1, TypedParts DEF SavedOnce
  <2>4. ToldSilent(p)
    BY <1>g, <2>1, <2>2, <2>3 DEF ToldSilent
  <2>5. Others(p) /\ p \notin Turning'
    BY <1>0, <1>12, TurnEffects DEF Leaves
  <2> QED
    BY <1>d, <1>g, <2>1, <2>2, <2>4, <2>5, AnswerFrame DEF Told
<1> QED
  BY <1>1, <1>2, <1>3, <1>12, <1>6, <1>7, <1>8, <1>9, <1>10, <1>11

-----------------------------------------------------------------------------
(* The summary, and what a deleted session leaves *)

\* A turn that has not overlapped is still alone when turns stay or leave.
LEMMA AloneFrame ==
    ASSUME Alone, over' = over
    PROVE  /\ Same => Alone'
           /\ \A p \in Slot : Leaves(p) => Alone'
           /\ \A p \in Slot : \A pc, to : Stays(p, pc, to) => Alone'
<1>1. ASSUME Turning' \subseteq Turning PROVE Alone'
  BY <1>1 DEF Alone
<1> QED
  BY <1>1 DEF Same, Leaves, Stays

\* What such a turn has read is still the whole conversation.
LEMMA ReadsAllFrame ==
    ASSUME ReadsAll, chat' => chat, over' = over, msgs' = msgs
    PROVE  /\ Same => ReadsAll'
           /\ \A p \in Slot : Leaves(p) => ReadsAll'
           /\ \A p \in Slot : \A pc, to :
                Stays(p, pc, to) /\ (chat /\ p \notin over /\ pc \in {"find", "insert", "update"} => to = Len(msgs))
                  => ReadsAll'
<1>1. ASSUME Same PROVE ReadsAll'
  BY <1>1 DEF ReadsAll, Same
<1>2. ASSUME NEW p \in Slot, Leaves(p) PROVE ReadsAll'
  BY <1>2 DEF ReadsAll, Leaves, Others, Turning
<1>3. ASSUME NEW p \in Slot, NEW pc, NEW to, Stays(p, pc, to),
             chat /\ p \notin over /\ pc \in {"find", "insert", "update"} => to = Len(msgs)
      PROVE  ReadsAll'
  BY <1>3 DEF ReadsAll, Stays, Others, Turning
<1> QED
  BY <1>1, <1>2, <1>3

\* A step that writes neither message nor summary.
LEMMA SumFrame ==
    ASSUME SumKept, chat' => chat, lag' = lag, UNCHANGED <<msgs, sum>>
    PROVE  /\ Same => SumKept'
           /\ \A p \in Slot : Leaves(p) /\ req[p].pc \notin Before => SumKept'
           /\ \A p \in Slot : \A pc, to : Stays(p, pc, to) /\ (req[p].pc \in Before /\ chat => pc \in Before) => SumKept'
<1>1. ASSUME Same PROVE SumKept'
  BY <1>1 DEF SumKept, Same
<1>2. ASSUME NEW p \in Slot, Leaves(p), req[p].pc \notin Before PROVE SumKept'
  BY <1>2 DEF SumKept, Leaves, Others, Turning
<1>3. ASSUME NEW p \in Slot, NEW pc, NEW to, Stays(p, pc, to), req[p].pc \in Before /\ chat => pc \in Before
      PROVE  SumKept'
  BY <1>3 DEF SumKept, Stays, Others, Turning
<1> QED
  BY <1>1, <1>2, <1>3

\* A step of the library leaves the summary alone.
LEMMA AsideSummed ==
    ASSUME SumInv, Aside
    PROVE  SumInv'
  BY AloneFrame, ReadsAllFrame, SumFrame DEF Aside, turns, hist, SumInv

\* The summary covers the conversation, at every step of a turn.
LEMMA SumStep ==
    ASSUME LibInv, TurnTyped, AnswerInv, SumInv, TurnNext
    PROVE  SumInv'
<1> PICK p \in Slot :
      \/ \E op \in {"stream", "chat"} : Ask(p, op)
      \/ Refuse(p) \/ Answer(p) \/ AnswerNothing(p) \/ Break(p) \/ Save(p) \/ ReadMessages(p) \/ FindSummary(p)
      \/ PutSummary(p) \/ CountAnswers(p) \/ RefineTitle(p) \/ Rename(p) \/ AskRefine(p)
      \/ CommitRefine(p) \/ DeleteSession(p)
  BY TurnActions
<1>0. msgs \in Seq(Message) /\ Alone /\ ReadsAll /\ SumKept
  BY TypedParts DEF Typed, SumInv
<1>b. /\ Before = {"route", "save", "read", "find", "insert", "update"}
      /\ "count" \notin Before /\ "refine" \notin Before
  BY DEF Before
<1>1. ASSUME NEW op \in {"stream", "chat"}, Ask(p, op) PROVE SumInv'
  <2>1. over' = IF Turning = {} THEN over \ {p} ELSE over \cup Turning \cup {p}
    BY <1>1 DEF Ask
  <2>2. Enters(p)
    BY <1>0, <1>1, TurnEffects
  <2>3. Turning' = Turning \cup {p} /\ req'[p].pc = "route" /\ p \in Turning'
    BY <2>2 DEF Enters
  <2>4. \A q \in Turning' : q \notin over' => q = p /\ Turning = {}
    BY <2>1, <2>3
  <2>5. Alone'
    BY <2>3, <2>4 DEF Alone
  <2>6. ReadsAll'
    BY <2>3, <2>4 DEF ReadsAll
  <2>7. SumKept'
    BY <1>b, <2>3 DEF SumKept
  <2> QED
    BY <2>5, <2>6, <2>7 DEF SumInv
<1>2. ASSUME Refuse(p) \/ Answer(p) PROVE SumInv'
  <2>1. UNCHANGED <<chat, msgs, sum, over, lag>>
    BY <1>2 DEF Refuse, Answer, rows, turns, hist
  <2>2. Stays(p, "save", req[p].to)
    BY <1>0, <1>2, TurnEffects
  <2>3. ReadsAll'
    BY <1>0, <2>1, <2>2, ReadsAllFrame
  <2>4. SumKept'
    BY <1>0, <1>b, <2>1, <2>2, SumFrame
  <2> QED
    BY <1>0, <2>1, <2>2, <2>3, <2>4, AloneFrame DEF SumInv
<1>3. ASSUME AnswerNothing(p) \/ Break(p) PROVE SumInv'
  <2>1. UNCHANGED <<chat, msgs, over>> /\ lag' = TRUE
    BY <1>3 DEF AnswerNothing, Break, Stops, rows, turns
  <2>2. Leaves(p)
    BY <1>0, <1>3, TurnEffects
  <2> QED
    BY <1>0, <2>1, <2>2, AloneFrame, ReadsAllFrame DEF SumInv, SumKept
<1>4. ASSUME Save(p) PROVE SumInv'
  <2>1. /\ UNCHANGED <<chat, sum, over>> /\ p \in Turning
        /\ chat => lag' = lag
        /\ ~ chat => msgs' = msgs
    BY <1>4 DEF Save, rows
  <2>2. IF chat THEN Stays(p, "read", req[p].to) ELSE Leaves(p)
    BY <1>0, <1>4, TurnEffects
  <2>3. CASE chat
    <3>1. Turning' = Turning /\ req'[p].pc = "read"
      BY <2>2, <2>3 DEF Stays
    <3>2. \A q \in Turning' : q \notin over' => q = p
      BY <1>0, <2>1, <3>1 DEF Alone
    <3>3. ReadsAll'
      BY <3>1, <3>2 DEF ReadsAll
    <3>4. SumKept'
      BY <1>b, <2>1, <3>1 DEF SumKept
    <3> QED
      BY <1>0, <2>1, <2>2, <2>3, <3>3, <3>4, AloneFrame DEF SumInv
  <2>4. CASE ~ chat
    BY <1>0, <2>1, <2>2, <2>4, AloneFrame, ReadsAllFrame DEF SumInv, SumKept
  <2> QED
    BY <2>3, <2>4
<1>5. ASSUME ReadMessages(p) PROVE SumInv'
  <2>1. UNCHANGED <<chat, msgs, sum, over, lag>> /\ p \in Turning /\ req[p].pc = "read"
    BY <1>5 DEF ReadMessages, rows, turns, hist
  <2>2. Stays(p, IF msgs = <<>> THEN "count" ELSE "find", Len(msgs))
    BY <1>0, <1>5, TurnEffects
  <2>3. chat => msgs # <<>>
    <3>1. chat => IsSaved("assistant", req[p].of)
      BY <2>1 DEF AnswerInv, AnswerKept, Past
    <3> QED
      BY <3>1 DEF IsSaved
  <2>4. ReadsAll'
    BY <1>0, <2>1, <2>2, ReadsAllFrame
  <2>5. SumKept'
    BY <1>0, <1>b, <2>1, <2>2, <2>3, SumFrame
  <2> QED
    BY <1>0, <2>1, <2>2, <2>4, <2>5, AloneFrame DEF SumInv
<1>6. ASSUME FindSummary(p) PROVE SumInv'
  <2>1. UNCHANGED <<chat, msgs, sum, over, lag>> /\ p \in Turning /\ req[p].pc = "find"
    BY <1>6 DEF FindSummary, rows, turns, hist
  <2>2. Stays(p, IF sum = 0 THEN "insert" ELSE "update", req[p].to)
    BY <1>0, <1>6, TurnEffects
  <2>3. chat /\ p \notin over => req[p].to = Len(msgs)
    BY <1>0, <2>1 DEF ReadsAll
  <2>4. (IF sum = 0 THEN "insert" ELSE "update") \in Before
    BY <1>b
  <2>5. ReadsAll'
    BY <1>0, <2>1, <2>2, <2>3, ReadsAllFrame
  <2>6. SumKept'
    BY <1>0, <2>1, <2>2, <2>4, SumFrame
  <2> QED
    BY <1>0, <2>1, <2>2, <2>5, <2>6, AloneFrame DEF SumInv
<1>7. ASSUME PutSummary(p) PROVE SumInv'
  <2>1. /\ UNCHANGED <<chat, msgs, over>> /\ p \in Turning /\ req[p].pc \in {"insert", "update"}
        /\ PutFails(p) => lag' = TRUE
        /\ ~ PutFails(p) => sum' = req[p].to /\ (lag' <=> p \in over)
    BY <1>7 DEF PutSummary, rows
  <2>2. Stays(p, "count", req[p].to) \/ (PutFails(p) /\ Leaves(p))
    BY <1>0, <1>7, TurnEffects
  <2>3. ReadsAll' /\ Alone'
    BY <1>0, <2>1, <2>2, ReadsAllFrame, AloneFrame
  <2>4. SumKept'
    <3>1. chat /\ p \notin over => req[p].to = Len(msgs)
      BY <1>0, <2>1 DEF ReadsAll
    <3> QED
      BY <2>1, <3>1 DEF SumKept
  <2> QED
    BY <2>3, <2>4 DEF SumInv
<1>8. ASSUME CountAnswers(p) \/ RefineTitle(p) PROVE SumInv'
  <2>1. UNCHANGED <<chat, msgs, sum, over, lag>> /\ req[p].pc \notin Before
    BY <1>8, <1>b DEF CountAnswers, RefineTitle, At, rows, turns
  <2>2. Leaves(p) \/ Stays(p, "refine", req[p].to)
    BY <1>0, <1>8, TurnEffects
  <2>3. ReadsAll' /\ Alone'
    BY <1>0, <2>1, <2>2, ReadsAllFrame, AloneFrame
  <2>4. SumKept'
    BY <1>0, <2>1, <2>2, SumFrame
  <2> QED
    BY <2>3, <2>4 DEF SumInv
<1>9. ASSUME Rename(p) \/ AskRefine(p) \/ CommitRefine(p) PROVE SumInv'
  <2>1. UNCHANGED <<chat, msgs, sum, over, lag>>
    BY <1>9 DEF Rename, AskRefine, CommitRefine, rows, turns, hist
  <2>2. Same
    BY <1>0, <1>9, TurnEffects
  <2> QED
    BY <1>0, <2>1, <2>2, AloneFrame, ReadsAllFrame, SumFrame DEF SumInv
<1>10. ASSUME DeleteSession(p) PROVE SumInv'
  <2>1. chat' = FALSE /\ over' = over
    BY <1>10 DEF DeleteSession, CommitDelete, hist
  <2>2. Same
    BY <1>0, <1>10, TurnEffects
  <2> QED
    BY <1>0, <2>1, <2>2, AloneFrame DEF SumInv, ReadsAll, SumKept
<1> QED
  BY <1>1, <1>2, <1>3, <1>4, <1>5, <1>6, <1>7, <1>8, <1>9, <1>10

\* A deleted session stays empty.
LEMMA DeletedStep ==
    ASSUME LibInv', DeletedIsEmpty, (TurnNext \/ Aside)
    PROVE  DeletedIsEmpty'
<1>1. ~ chat' => Rows(docs)' = {}
  BY DEF LibInv, DocInv, NothingListed, Rows
<1>2. ASSUME Aside PROVE ~ chat' => msgs' = <<>> /\ sum' = 0
  BY <1>2 DEF Aside, turns, DeletedIsEmpty
<1>3. ASSUME TurnNext, ~ chat' PROVE msgs' = <<>> /\ sum' = 0
  <2> PICK p \in Slot :
        \/ \E op \in {"stream", "chat"} : Ask(p, op)
        \/ Refuse(p) \/ Answer(p) \/ AnswerNothing(p) \/ Break(p) \/ Save(p) \/ ReadMessages(p) \/ FindSummary(p)
        \/ PutSummary(p) \/ CountAnswers(p) \/ RefineTitle(p) \/ Rename(p) \/ AskRefine(p)
        \/ CommitRefine(p) \/ DeleteSession(p)
    BY <1>3, TurnActions
  <2>1. CASE DeleteSession(p)
    BY <2>1 DEF DeleteSession, Cascade
  <2>2. ASSUME ~ DeleteSession(p) PROVE chat' = chat
    BY <2>2 DEF Ask, Refuse, Answer, AnswerNothing, Break, Save, ReadMessages, FindSummary, PutSummary, CountAnswers,
                RefineTitle, Rename, AskRefine, CommitRefine, rows
  <2>3. ASSUME ~ chat, ~ DeleteSession(p) PROVE UNCHANGED <<msgs, sum>>
    <3>1. msgs = <<>> /\ sum = 0
      BY <2>3 DEF DeletedIsEmpty
    <3>2. ~ \E op \in {"stream", "chat"} : Ask(p, op)
      BY <2>3 DEF Ask
    <3>3. CASE PutSummary(p)
      BY <2>3, <3>1, <3>3 DEF PutSummary, PutFails
    <3>4. CASE Save(p)
      BY <2>3, <3>4 DEF Save
    <3> QED
      BY <2>3, <3>2, <3>3, <3>4 DEF Refuse, Answer, AnswerNothing, Break, ReadMessages, FindSummary, CountAnswers,
                RefineTitle, Rename, AskRefine, CommitRefine, turns
  <2> QED
    BY <1>3, <2>1, <2>2, <2>3 DEF DeletedIsEmpty
<1> QED
  BY <1>1, <1>2, <1>3 DEF DeletedIsEmpty

-----------------------------------------------------------------------------
(* The title *)

IsAnswer == {i \in DOMAIN msgs : msgs[i].role = "assistant"}

\* One answer is the first; of more than one, the conversation has been
\* answered twice.
LEMMA CountedAnswers ==
    ASSUME msgs \in Seq(Message)
    PROVE  /\ Answers = 1 => Answered /\ ~ AnsweredTwice /\ \A t : IsSaved("assistant", t) => IsFirst(t)
           /\ Answers > 1 => Answered /\ AnsweredTwice
<1>1. Len(msgs) \in Nat /\ DOMAIN msgs = 1..Len(msgs)
  BY Positions
<1>2. IsFiniteSet(IsAnswer)
  <2>1. IsFiniteSet(DOMAIN msgs)
    BY <1>1, FS_Interval
  <2>2. IsAnswer \subseteq DOMAIN msgs
    BY DEF IsAnswer
  <2> QED
    BY <2>1, <2>2, FS_Subset
<1>3. /\ (\A x, y \in IsAnswer : x = y) <=> Cardinality(IsAnswer) <= 1
      /\ Cardinality(IsAnswer) = 1 <=> \E x \in IsAnswer : IsAnswer = {x}
      /\ Cardinality(IsAnswer) \in Nat
  BY <1>2, AtMostOne
<1>4. Answers = Cardinality(IsAnswer)
  BY DEF Answers, IsAnswer
<1>5. ASSUME Answers = 1
      PROVE  Answered /\ ~ AnsweredTwice /\ \A t : IsSaved("assistant", t) => IsFirst(t)
  <2> PICK x \in IsAnswer : IsAnswer = {x}
    BY <1>3, <1>4, <1>5
  <2>1. \A i \in DOMAIN msgs : msgs[i].role = "assistant" <=> i = x
    BY DEF IsAnswer
  <2>2. x \in DOMAIN msgs
    BY DEF IsAnswer
  <2>3. ASSUME NEW t, NEW i \in DOMAIN msgs, msgs[i] = [role |-> "assistant", turn |-> t] PROVE IsFirst(t)
    <3>1. i = x
      BY <2>1, <2>3
    <3>2. \A j \in DOMAIN msgs : j < i => msgs[j].role = "user"
      BY <1>1, <2>1, <3>1, MessageFields
    <3> QED
      BY <2>3, <3>2 DEF IsFirst, Leads
  <2> QED
    BY <2>1, <2>2, <2>3 DEF Answered, AnsweredTwice, IsSaved
<1>6. ASSUME Answers > 1 PROVE Answered /\ AnsweredTwice
  <2> PICK x \in IsAnswer, y \in IsAnswer : x # y
    BY <1>3, <1>4, <1>6
  <2> QED
    BY DEF IsAnswer, Answered, AnsweredTwice
<1> QED
  BY <1>5, <1>6

\* Only one turn has the first answer.
LEMMA OneFirst ==
    ASSUME msgs \in Seq(Message), NEW t, NEW u, IsFirst(t), IsFirst(u)
    PROVE  t = u
<1>1. Len(msgs) \in Nat /\ DOMAIN msgs = 1..Len(msgs)
  BY Positions
<1> PICK i \in DOMAIN msgs : /\ msgs[i] = [role |-> "assistant", turn |-> t]
                             /\ \A j \in DOMAIN msgs : j < i => msgs[j].role = "user"
  BY DEF IsFirst, Leads
<1> PICK j \in DOMAIN msgs : /\ msgs[j] = [role |-> "assistant", turn |-> u]
                             /\ \A k \in DOMAIN msgs : k < j => msgs[k].role = "user"
  BY DEF IsFirst, Leads
<1>2. ~ (i < j) /\ ~ (j < i)
  OBVIOUS
<1>3. i = j
  BY <1>1, <1>2
<1> QED
  BY <1>3

\* What the conversation has, it keeps while it grows.
Keeps ==
    /\ \A t : IsFirst(t) => Leads(msgs', t)
    /\ Answered => Answered'
    /\ AnsweredTwice => AnsweredTwice'

\* Answers are kept while no message is added,
LEMMA KeepsSame == msgs' = msgs => Keeps
  BY DEF Keeps, IsFirst, Answered, AnsweredTwice

\* and when one is.
LEMMA KeepsMore ==
    ASSUME msgs \in Seq(Message), NEW m \in Message, msgs' = Append(msgs, m)
    PROVE  Keeps /\ (m.role = "assistant" => Answered' /\ (Answered => AnsweredTwice'))
<1>1. /\ Len(msgs) \in Nat /\ DOMAIN msgs = 1..Len(msgs) /\ DOMAIN msgs' = 1..(Len(msgs) + 1)
      /\ \A i \in DOMAIN msgs : i \in DOMAIN msgs' /\ msgs'[i] = msgs[i] /\ i # Len(msgs) + 1
      /\ msgs'[Len(msgs) + 1] = m
  BY Appended
<1>2. Len(msgs) + 1 \in DOMAIN msgs'
  BY <1>1
<1>3. \A i \in DOMAIN msgs : \A j \in DOMAIN msgs' : j < i => j \in DOMAIN msgs
  BY <1>1
<1>4. \A t : IsFirst(t) => Leads(msgs', t)
  BY <1>1, <1>3 DEF IsFirst, Leads
<1>5. (Answered => Answered') /\ (AnsweredTwice => AnsweredTwice')
  BY <1>1 DEF Answered, AnsweredTwice
<1>6. m.role = "assistant" => Answered' /\ (Answered => AnsweredTwice')
  BY <1>1, <1>2 DEF Answered, AnsweredTwice
<1> QED
  BY <1>4, <1>5, <1>6 DEF Keeps

\* What a turn of a step has to show of the title.
FitsTitle(p) ==
    chat => /\ req[p].pc = "refine" => Leads(msgs, req[p].of)
            /\ kept /\ req[p].pc \in Past => AnsweredTwice /\ req[p].pc # "refine"

\* A step of one turn that leaves the title alone keeps what is known of it.
LEMMA TitleFrame ==
    ASSUME TitleInv, chat' => chat /\ Keeps, UNCHANGED <<title, kept, refined>>, done \subseteq done',
           NEW p \in Slot, Others(p), p \in Turning' => FitsTitle(p)'
    PROVE  TitleInv'
<1>1. \A q \in Turning' : q # p => q \in Turning /\ req'[q] = req[q]
  BY DEF Turning, Others
<1>2. RefinedKept'
  <2>1. ASSUME chat', NEW q \in Turning', req'[q].pc = "refine" PROVE Leads(msgs', req'[q].of)
    <3>1. CASE q = p
      BY <2>1, <3>1 DEF FitsTitle
    <3>2. CASE q # p
      <4>1. IsFirst(req[q].of) /\ req'[q].of = req[q].of
        BY <1>1, <2>1, <3>2 DEF TitleInv, RefinedKept
      <4> QED
        BY <2>1, <4>1 DEF Keeps
    <3> QED
      BY <3>1, <3>2
  <2>2. chat' /\ refined' = 1 => \E t \in done' : Leads(msgs', t)
    BY DEF TitleInv, RefinedKept, Keeps
  <2> QED
    BY <2>1, <2>2 DEF TitleInv, RefinedKept, IsFirst
<1>3. NameKept'
  <2> SUFFICES ASSUME kept'
               PROVE  /\ title' = "user"
                      /\ chat' => /\ Answered'
                                  /\ \A q \in Turning' : req'[q].pc \in Past => AnsweredTwice' /\ req'[q].pc # "refine"
    BY DEF NameKept
  <2>1. title' = "user" /\ (chat' => Answered')
    BY DEF TitleInv, NameKept, Keeps
  <2>2. ASSUME chat', NEW q \in Turning', req'[q].pc \in Past PROVE AnsweredTwice' /\ req'[q].pc # "refine"
    BY <1>1, <2>2 DEF TitleInv, NameKept, Keeps, FitsTitle
  <2> QED
    BY <2>1, <2>2
<1> QED
  BY <1>2, <1>3 DEF TitleInv

\* So does a step that touches neither messages nor turns,
LEMMA SameTitle ==
    ASSUME TitleInv, chat' => chat /\ msgs' = msgs, UNCHANGED <<title, kept, refined, done>>, Same
    PROVE  TitleInv'
<1>1. RefinedKept'
  BY DEF TitleInv, RefinedKept, Same, IsFirst, Leads
<1>2. NameKept'
  BY DEF TitleInv, NameKept, Same, Answered, AnsweredTwice
<1> QED
  BY <1>1, <1>2 DEF TitleInv

\* and one of the library.
LEMMA AsideTitle == TitleInv /\ Aside => TitleInv'
  BY SameTitle DEF Aside, turns, hist

\* A title is refined once and not over a name that was kept, at every step of
\* a turn.
LEMMA TitleStep ==
    ASSUME LibInv, TurnTyped, AnswerInv, TitleInv, TurnNext
    PROVE  TitleInv'
<1> PICK p \in Slot :
      \/ \E op \in {"stream", "chat"} : Ask(p, op)
      \/ Refuse(p) \/ Answer(p) \/ AnswerNothing(p) \/ Break(p) \/ Save(p) \/ ReadMessages(p) \/ FindSummary(p)
      \/ PutSummary(p) \/ CountAnswers(p) \/ RefineTitle(p) \/ Rename(p) \/ AskRefine(p)
      \/ CommitRefine(p) \/ DeleteSession(p)
  BY TurnActions
<1>0. msgs \in Seq(Message)
  BY TypedParts DEF Typed
<1>p. /\ Past = {"read", "find", "insert", "update", "count", "refine"}
      /\ "route" \notin Past /\ "save" \notin Past
  BY DEF Past
<1>n. p \in Turning => req[p].of \in Turns
  <2>1. requests \in 0..MaxRequests /\ \A q \in Turning : req[q].of \in 1..requests
    BY TypedParts DEF LibInv, LibTyped, TurnNumbers
  <2> QED
    BY <2>1, BoundAssumption DEF Turns
<1>1. ASSUME NEW op \in {"stream", "chat"}, Ask(p, op) PROVE TitleInv'
  <2>1. /\ chat' = chat /\ msgs' = Append(msgs, [role |-> "user", turn |-> requests'])
        /\ UNCHANGED <<title, kept, refined, done>> /\ requests' = requests + 1 /\ requests < MaxRequests
    BY <1>1 DEF Ask, Asks, Saved, rows
  <2>2. Enters(p)
    BY <1>0, <1>1, TurnEffects
  <2>3. [role |-> "user", turn |-> requests'] \in Message
    BY <2>1, LibFacts, BoundAssumption DEF Message, Turns
  <2>4. Keeps
    BY <1>0, <2>1, <2>3, KeepsMore
  <2>5. Others(p) /\ FitsTitle(p)'
    BY <1>p, <2>2 DEF Enters, FitsTitle
  <2> QED
    BY <2>1, <2>4, <2>5, TitleFrame
<1>2. ASSUME Refuse(p) \/ Answer(p) PROVE TitleInv'
  <2>1. chat' = chat /\ msgs' = msgs /\ UNCHANGED <<title, kept, refined, done>>
    BY <1>2 DEF Refuse, Answer, rows, turns, hist
  <2>2. Stays(p, "save", req[p].to)
    BY <1>0, <1>2, TurnEffects
  <2>3. Others(p) /\ FitsTitle(p)'
    BY <1>p, <2>2 DEF Stays, FitsTitle
  <2> QED
    BY <2>1, <2>3, KeepsSame, TitleFrame
<1>3. ASSUME Leaves(p), chat' = chat, msgs' = msgs, UNCHANGED <<title, kept, refined>>, done \subseteq done'
      PROVE  TitleInv'
  <2>1. Others(p) /\ p \notin Turning'
    BY <1>3 DEF Leaves
  <2> QED
    BY <1>3, <2>1, KeepsSame, TitleFrame
<1>4. ASSUME AnswerNothing(p) \/ Break(p) PROVE TitleInv'
  <2>1. chat' = chat /\ msgs' = msgs /\ UNCHANGED <<title, kept, refined>> /\ done \subseteq done'
    BY <1>4 DEF AnswerNothing, Break, rows, turns
  <2>2. Leaves(p)
    BY <1>0, <1>4, TurnEffects
  <2> QED
    BY <1>3, <2>1, <2>2
<1>5. ASSUME Save(p) PROVE TitleInv'
  <2>1. /\ chat' = chat /\ UNCHANGED <<title, kept, refined, done>> /\ p \in Turning
        /\ IF chat THEN msgs' = Append(msgs, [role |-> "assistant", turn |-> req[p].of]) ELSE msgs' = msgs
    BY <1>5 DEF Save, Saved, rows
  <2>2. IF chat THEN Stays(p, "read", req[p].to) ELSE Leaves(p)
    BY <1>0, <1>5, TurnEffects
  <2>3. CASE chat
    <3>1. [role |-> "assistant", turn |-> req[p].of] \in Message
      BY <1>n, <2>1 DEF Message
    <3>2. Keeps /\ (Answered => AnsweredTwice')
      BY <1>0, <2>1, <2>3, <3>1, KeepsMore
    <3>3. Others(p) /\ req'[p].pc = "read"
      BY <2>2, <2>3 DEF Stays
    <3>4. FitsTitle(p)'
      BY <2>1, <2>3, <3>2, <3>3 DEF FitsTitle, TitleInv, NameKept
    <3> QED
      BY <2>1, <2>3, <3>2, <3>3, <3>4, TitleFrame
  <2>4. CASE ~ chat
    BY <1>3, <2>1, <2>2, <2>4
  <2> QED
    BY <2>3, <2>4
\* The turn goes on after its save, and does not refine.
<1>6. ASSUME NEW pc \in Past, NEW to, pc # "refine", Stays(p, pc, to), req[p].pc \in Past,
             chat' = chat, msgs' = msgs, UNCHANGED <<title, kept, refined, done>>
      PROVE  TitleInv'
  <2>1. Others(p) /\ p \in Turning /\ req'[p].pc = pc
    BY <1>6 DEF Stays
  <2>2. kept /\ chat => AnsweredTwice
    BY <1>6, <2>1 DEF TitleInv, NameKept
  <2>3. FitsTitle(p)'
    BY <1>6, <2>1, <2>2 DEF FitsTitle, AnsweredTwice
  <2> QED
    BY <1>6, <2>1, <2>3, KeepsSame, TitleFrame
<1>7. ASSUME ReadMessages(p) \/ FindSummary(p) PROVE TitleInv'
  <2>1. chat' = chat /\ msgs' = msgs /\ UNCHANGED <<title, kept, refined, done>> /\ req[p].pc \in Past
    BY <1>7, <1>p DEF ReadMessages, FindSummary, rows, turns, hist
  <2>2. \E pc \in Past \ {"refine"} : \E to : Stays(p, pc, to)
    <3>1. /\ (IF msgs = <<>> THEN "count" ELSE "find") \in Past \ {"refine"}
          /\ (IF sum = 0 THEN "insert" ELSE "update") \in Past \ {"refine"}
      BY <1>p
    <3> QED
      BY <1>0, <1>7, <3>1, TurnEffects
  <2> QED
    BY <1>6, <2>1, <2>2
<1>8. ASSUME PutSummary(p) PROVE TitleInv'
  <2>1. chat' = chat /\ msgs' = msgs /\ UNCHANGED <<title, kept, refined, done>> /\ req[p].pc \in Past
    BY <1>8, <1>p DEF PutSummary, rows
  <2>2. Stays(p, "count", req[p].to) \/ Leaves(p)
    BY <1>0, <1>8, TurnEffects
  <2>3. "count" \in Past
    BY <1>p
  <2> QED
    BY <1>3, <1>6, <2>1, <2>2, <2>3
<1>9. ASSUME CountAnswers(p) PROVE TitleInv'
  <2>1. /\ chat' = chat /\ msgs' = msgs /\ UNCHANGED <<title, kept, refined>> /\ req[p].pc \in Past /\ p \in Turning
    BY <1>9, <1>p DEF CountAnswers, rows, turns
  <2>2. \/ Stays(p, "refine", req[p].to) /\ done' = done /\ chat /\ Answers = 1
        \/ Leaves(p) /\ done' = done \cup {req[p].of}
    BY <1>0, <1>9, TurnEffects
  <2>3. ASSUME Stays(p, "refine", req[p].to), done' = done, chat, Answers = 1 PROVE TitleInv'
    <3>1. IsSaved("assistant", req[p].of)
      BY <2>1, <2>3 DEF AnswerInv, AnswerKept
    <3>2. IsFirst(req[p].of) /\ ~ AnsweredTwice
      BY <1>0, <2>3, <3>1, CountedAnswers
    <3>3. ~ kept
      BY <2>1, <2>3, <3>2 DEF TitleInv, NameKept
    <3>4. Others(p) /\ req'[p].of = req[p].of
      BY <2>3 DEF Stays
    <3>5. FitsTitle(p)'
      BY <2>1, <3>2, <3>3, <3>4 DEF FitsTitle, IsFirst
    <3> QED
      BY <2>1, <2>3, <3>4, <3>5, KeepsSame, TitleFrame
  <2> QED
    BY <1>3, <2>1, <2>2, <2>3
<1>10. ASSUME RefineTitle(p) PROVE TitleInv'
  <2>1. /\ chat' = chat /\ msgs' = msgs /\ kept' = kept /\ req[p].pc = "refine" /\ p \in Turning
        /\ done' = done \cup {req[p].of}
        /\ IF chat THEN title' = "refined" /\ refined' = refined + 1 ELSE title' = title /\ refined' = refined
    BY <1>10 DEF RefineTitle, Finishes, At, rows, Turning
  <2>2. Leaves(p)
    BY <1>0, <1>10, TurnEffects
  <2>3. CASE ~ chat
    BY <1>3, <2>1, <2>2, <2>3
  <2>4. CASE chat
    <3>1. IsFirst(req[p].of)
      BY <2>1, <2>4 DEF TitleInv, RefinedKept
    <3>2. req[p].of \notin done
      BY <2>1, TypedParts DEF TurnNumbers
    <3>3. refined = 0
      <4>1. refined # 1
        BY <1>0, <2>4, <3>1, <3>2, OneFirst DEF TitleInv, RefinedKept
      <4> QED
        BY <4>1 DEF TitleInv, RefinedKept
    <3>4. ~ kept
      BY <1>p, <2>1, <2>4 DEF TitleInv, NameKept
    <3>5. NameKept'
      BY <2>1, <3>4 DEF NameKept
    <3>6. \A q \in Turning' : q \in Turning /\ req'[q] = req[q]
      BY <2>2 DEF Leaves, Others, Turning
    <3>7. \A q \in Turning' : req'[q].pc = "refine" => Leads(msgs', req'[q].of)
      BY <2>1, <2>4, <3>6 DEF TitleInv, RefinedKept, IsFirst
    <3>8. Leads(msgs', req[p].of) /\ req[p].of \in done' /\ refined' = 1
      BY <2>1, <2>4, <3>1, <3>3 DEF IsFirst
    <3>9. RefinedKept'
      BY <3>7, <3>8 DEF RefinedKept, IsFirst
    <3> QED
      BY <3>5, <3>9 DEF TitleInv
  <2> QED
    BY <2>3, <2>4
<1>11. ASSUME Rename(p) PROVE TitleInv'
  <2>1. /\ chat' = chat /\ chat /\ msgs' = msgs /\ req' = req /\ UNCHANGED <<refined, done>> /\ title' = "user"
        /\ kept' => kept \/ Answers > 1 \/ (Answers = 1 /\ Turning = {})
        /\ kept' => \A q \in Slot : req[q].pc # "refine"
    BY <1>11 DEF Rename, rows
  <2>2. RefinedKept'
    BY <2>1 DEF TitleInv, RefinedKept, Turning, IsFirst, Leads
  <2>3. ASSUME kept' PROVE Answered /\ \A q \in Turning : req[q].pc \in Past => AnsweredTwice /\ req[q].pc # "refine"
    <3>1. \A q \in Turning : req[q].pc # "refine"
      BY <2>1, <2>3 DEF Turning
    <3>2. CASE kept
      BY <2>1, <3>2 DEF TitleInv, NameKept
    <3>3. CASE Answers > 1
      BY <1>0, <3>1, <3>3, CountedAnswers
    <3>4. CASE Answers = 1 /\ Turning = {}
      BY <1>0, <3>4, CountedAnswers
    <3> QED
      BY <2>1, <2>3, <3>2, <3>3, <3>4
  <2>4. NameKept'
    BY <2>1, <2>3 DEF NameKept, Answered, AnsweredTwice, Turning
  <2> QED
    BY <2>2, <2>4 DEF TitleInv
<1>12. ASSUME AskRefine(p) PROVE TitleInv'
  <2>1. UNCHANGED <<chat, msgs, title, kept, refined, done>>
    BY <1>12 DEF AskRefine, rows, turns, hist
  <2>2. Same
    BY <1>0, <1>12, TurnEffects
  <2> QED
    BY <2>1, <2>2, SameTitle
<1>13. ASSUME CommitRefine(p) PROVE TitleInv'
  <2>1. /\ UNCHANGED <<chat, msgs, refined, done>>
        /\ (~ kept' \/ (title' = title /\ kept' = kept))
    BY <1>13 DEF CommitRefine, rows
  <2>2. Same
    BY <1>0, <1>13, TurnEffects
  <2>3. CASE ~ kept'
    BY <2>1, <2>2, <2>3 DEF TitleInv, RefinedKept, NameKept, Same, IsFirst, Leads
  <2>4. CASE title' = title /\ kept' = kept
    BY <2>1, <2>2, <2>4, SameTitle
  <2> QED
    BY <2>1, <2>3, <2>4
<1>14. ASSUME DeleteSession(p) PROVE TitleInv'
  <2>1. chat' = FALSE /\ UNCHANGED <<title, kept, refined, done>>
    BY <1>14 DEF DeleteSession, CommitDelete, hist
  <2>2. Same
    BY <1>0, <1>14, TurnEffects
  <2> QED
    BY <2>1, <2>2, SameTitle
<1> QED
  BY <1>1, <1>2, <1>4, <1>5, <1>7, <1>8, <1>9, <1>10, <1>11, <1>12, <1>13, <1>14

-----------------------------------------------------------------------------
(* Every state *)

ChatInv == LibInv /\ TurnTyped /\ TurnInv /\ TitleInv

\* The parts of the invariant of turns.
LEMMA TurnInvParts == TurnInv <=> AnswerInv /\ SumInv /\ DeletedIsEmpty
  BY DEF TurnInv, AnswerInv

\* The invariant holds of an empty session.
LEMMA ChatInitially == Init => ChatInv
<1> SUFFICES ASSUME Init PROVE ChatInv
  OBVIOUS
<1>1. /\ LibInit /\ msgs = <<>> /\ sum = 0 /\ title = "first" /\ usage = {} /\ done = {} /\ refusals = {}
      /\ silent = {} /\ lost = {} /\ over = {} /\ lag = FALSE /\ refined = 0 /\ kept = FALSE /\ requests = 0 /\ chat = TRUE
      /\ req = [p \in Slot |-> Idle]
  BY DEF Init, LibInit
<1>2. LibInv
  BY <1>1, LibraryInit
<1>3. Turning = {}
  BY <1>1, IdleTyped DEF Turning
<1>4. TurnTyped
  <2>1. Typed
    <3>1. <<>> \in Seq(Message) /\ 0 \in Covers
      BY EmptySeq, BoundAssumption DEF Covers
    <3> QED
      BY <1>1, <3>1 DEF Typed
  <2>2. ReadsCovered /\ TurnNumbers /\ SavedOnce
    BY <1>1, <1>3 DEF ReadsCovered, TurnNumbers, SavedOnce
  <2> QED
    BY <1>2, <2>1, <2>2, TypedParts
<1>5. Len(<<>>) = 0
  BY EmptySeq
<1>6. TurnInv
  BY <1>1, <1>3, <1>5 DEF TurnInv, AnswerKept, SilentIsDone, DoneIsAnswered, DoneIsCounted, SumInv, Alone, ReadsAll, SumKept,
                          DeletedIsEmpty
<1>7. TitleInv
  BY <1>1, <1>3 DEF TitleInv, RefinedKept, NameKept
<1> QED
  BY <1>2, <1>4, <1>6, <1>7 DEF ChatInv

\* A step of the library alone leaves the turns aside.
LEMMA LibraryAside ==
    ASSUME LibInv, LibraryNext, UNCHANGED <<turns, hist>>
    PROVE  Aside
<1> PICK p \in Slot : Outside(p)
  BY LibraryOutside
<1>1. Same /\ chat' = chat /\ requests' \in {requests, requests + 1}
  BY OutsideTurns DEF Same, Outside
<1> QED
  BY <1>1 DEF Aside

\* The library's invariant survives steps that leave the library alone.
LEMMA LibraryStill ==
    ASSUME LibInv, UNCHANGED libVars
    PROVE  LibInv'
<1>1. LibTyped' /\ FolderIsThere'
  BY DEF LibInv, LibTyped, FolderIsThere, Rows, libVars, rows, excuses
<1>2. LibForms'
  BY DEF LibInv, LibForms, Fits, libVars, rows, excuses
<1>3. DocInv'
  BY DEF LibInv, DocInv, ExternalsKept, RowsKept, RemovedIsKnown, CleanedIsGone, NothingListed, Cleans, Removes, At,
         libVars, rows, excuses
<1>4. CollInv'
  BY DEF LibInv, CollInv, DocumentIsPlaced, Stored, Owned, Rows, DefaultKept, OneDefault, DefaultStays, AddsAlone,
         NamesDefault, SparesDefault, Adds, IsDefault, Defaults, libVars, rows, excuses
<1> QED
  BY <1>1, <1>2, <1>3, <1>4 DEF LibInv

\* Every step keeps the invariant.
LEMMA ChatStep == ChatInv /\ [Next]_vars => ChatInv'
<1> SUFFICES ASSUME ChatInv, [Next]_vars PROVE ChatInv'
  OBVIOUS
<1>0. LibInv /\ TurnTyped /\ AnswerInv /\ SumInv /\ DeletedIsEmpty /\ TitleInv
  BY TurnInvParts DEF ChatInv
<1>q. ASSUME LibInv', TurnTyped', AnswerInv', SumInv', DeletedIsEmpty', TitleInv' PROVE ChatInv'
  BY <1>q DEF ChatInv, TurnInv, AnswerInv
<1>1. ASSUME TurnNext PROVE ChatInv'
  <2>1. msgs \in Seq([role : {"user", "assistant"}, turn : Turns])
    BY <1>0 DEF TurnTyped, TypeOK
  <2>2. LibInv'
    BY <1>0, <1>1, <2>1, TurnStep
  <2> QED
    BY <1>0, <1>1, <1>q, <2>2, TurnTypedStep, AnswerStep, SumStep, DeletedStep, TitleStep
<1>2. ASSUME LibInv', Aside PROVE ChatInv'
  BY <1>0, <1>2, <1>q, AsideTyped, AsideAnswered, AsideSummed, DeletedStep, AsideTitle
<1>3. ASSUME LibraryNext, UNCHANGED <<turns, hist>> PROVE ChatInv'
  BY <1>0, <1>2, <1>3, LibraryStep, LibraryAside
<1>4. ASSUME UNCHANGED vars PROVE ChatInv'
  <2>1. LibInv'
    BY <1>0, <1>4, LibraryStill DEF vars
  <2>2. Aside
    BY <1>4 DEF vars, libVars, rows, Aside, Same, Turning
  <2> QED
    BY <1>2, <2>1, <2>2
<1> QED
  BY <1>1, <1>3, <1>4 DEF Next

\* The library's invariant is what the run checks, and more.
LEMMA WholeLibrary == LibInv => LibraryIsWhole
<1> SUFFICES ASSUME LibInv PROVE LibraryIsWhole
  OBVIOUS
<1>1. NothingLeftBehind
  BY DEF LibInv, DocInv, ExternalsKept, Cleans, At, NothingLeftBehind, AtRest, Stored
<1>2. ListedIsStored
  BY DEF LibInv, DocInv, RowsKept, Removes, At, ListedIsStored, AtRest, Stored
<1>3. DocumentIsPlaced /\ FolderIsThere
  BY DEF LibInv, CollInv
<1>4. DefaultIsOne
  <2> SUFFICES ASSUME ~ odd
               PROVE  /\ Cardinality(Defaults) <= 1
                      /\ (\E c \in DOMAIN colls : colls[c].name = "Default" \/ ~colls[c].row) => Defaults # {}
    BY DEF DefaultIsOne
  <2>1. OneDefault /\ DefaultStays
    BY DEF LibInv, CollInv, DefaultKept
  <2>2. Defaults \subseteq DOMAIN colls
    BY DEF Defaults, Rows
  <2>3. IsFiniteSet(Defaults)
    <3>1. IsFiniteSet(DOMAIN colls)
      BY LibFacts, FS_Interval
    <3> QED
      BY <2>2, <3>1, FS_Subset
  <2>4. Cardinality(Defaults) <= 1
    BY <2>1, <2>2, <2>3, AtMostOne DEF OneDefault
  <2> QED
    BY <2>1, <2>4 DEF DefaultStays, IsDefault
<1> QED
  BY <1>1, <1>2, <1>3, <1>4 DEF LibraryIsWhole

\* So is the invariant of turns,
LEMMA KeptTurns == ChatInv => TurnsAreKept
  BY DEF ChatInv, TurnInv, SumInv, SumKept, SummaryIsWhole, TurnsAreKept

\* and that of the title.
LEMMA KeptTitle == ChatInv => TitleIsKept
  BY DEF ChatInv, TurnTyped, TitleInv, RefinedKept, NameKept, TitleIsKept, RefinedAtMostOnce, NameIsKept

\* Every state of every behaviour satisfies the invariants.
LEMMA ChatAlways == Spec => []ChatInv
<1>1. Init => ChatInv
  BY ChatInitially
<1>2. ChatInv /\ [Next]_vars => ChatInv'
  BY ChatStep
<1> QED
  BY <1>1, <1>2, PTL DEF Spec

\* Whatever requests of one session run at once, fail half-way or die, its
\* documents, their files and chunks, the collections and the folders refer to
\* one another, apart from what the history variables excuse.
THEOREM LibraryStaysWhole == Spec => []LibraryIsWhole
<1>1. ChatInv => LibraryIsWhole
  BY WholeLibrary DEF ChatInv
<1> QED
  BY <1>1, ChatAlways, PTL

\* Whatever turns overlap, break off or lose their session, what a client was
\* told is done is answered and counted, the summary covers the conversation
\* between turns that end and do not overlap, and a deleted session is empty.
THEOREM TurnsStayKept == Spec => []TurnsAreKept
  BY KeptTurns, ChatAlways, PTL

\* The stream refines the title at most once, whichever turns overlap, and
\* never after a name that the user gave once there was an answer.
THEOREM TitleStaysKept == Spec => []TitleIsKept
  BY KeptTitle, ChatAlways, PTL

=============================================================================
