---------------------------- MODULE SourcesProofs ----------------------------
(***************************************************************************)
(* Proofs about Sources, for any number of processes, members, syncs and   *)
(* faults: what a row or a run says of a sync is so, syncs find the        *)
(* records they made before, what is called complete is in the documents,  *)
(* and nothing is left queued, but for the overlaps, races, unrecorded     *)
(* ends and records left by a dispatch that the histories name.            *)
(***************************************************************************)
EXTENDS Sources, FiniteSetTheorems, FunctionTheorems, SequenceTheorems, WellFoundedInduction, TLAPS

-----------------------------------------------------------------------------
(* The inductive invariants *)

Indexing == {"index", "flush", "dispatch", "finish"}
GithubSteps == {"head", "announce", "download"} \cup Indexing
PageSteps == {"list", "page", "send"}

\* What a sync holds fits the step it is at.
Shape(p) ==
    /\ s[p].pc = "idle" => s[p] = Idle
    /\ s[p].pc \in GithubSteps => s[p].type = "github"
    /\ s[p].pc \in PageSteps => s[p].type = "pages"
    /\ s[p].pc # "idle" /\ s[p].type = "pages" => s[p].run # 0
    /\ s[p].run <= starts
    /\ s[p].count < s[p].at
    /\ s[p].at <= Len(Files) => Entry(p) \in Sources
    /\ s[p].pc = "send" => s[p].at <= Len(Files)
    /\ s[p].pc \in {"download"} \cup Indexing => s[p].known
    /\ UnderWay(p) /\ s[p].type = "github" => s[p].head \in 1..remote
    /\ s[p].pc \in Indexing => s[p].tree \in s[p].head .. remote
    /\ s[p].pc \notin {"index", "flush"} => s[p].pend = {} /\ s[p].fresh = <<>>
    /\ s[p].pc \notin Indexing \cup {"page", "send"} => s[p].sent = {} /\ s[p].count = 0
    /\ s[p].pend \cup s[p].sent \subseteq 1..Len(docs)
    /\ s[p].pc \notin {"dispatch", "finish", "page", "send"} => s[p].done = {}
    /\ s[p].pc \in {"finish", "page"} => Undone(p) = {}

SourceInv == TypeOK /\ remote <= events + 1 /\ \A p \in Proc : Shape(p)

\* The run of a sync is its own, and unfinished until the sync ends.
RunHeld(p) ==
    s[p].run # 0 =>
        /\ runs[s[p].run].type = s[p].type /\ runs[s[p].run].status \in {"running", "gone"}
        /\ \A q \in Proc \ {p} : s[q].run # s[p].run

RunInv == RunningMeansSyncing /\ \A p \in Proc : RunHeld(p)

\* Syncs that do not overlap use one collection of each type.
Apart ==
    \A p, q \in Proc : p # q /\ UnderWay(p) /\ UnderWay(q) => s[p].type # s[q].type
OneCollection ==
    /\ \A t \in Types : colls[t] <= 1
    /\ \A p \in Proc : UnderWay(p) =>
         IF s[p].pc = "create" THEN colls[s[p].type] = 0 ELSE colls[s[p].type] = 1 /\ s[p].coll = 1
    /\ \A d \in 1..Len(docs) : docs[d].coll = 1

IsNamed(d, t, f) == docs[d].type = t /\ docs[d].name = f
Passed(p, f) == \E j \in 1..(s[p].at - 1) : Files[j] = f

\* The records a sync is about to insert are of different files, which it has
\* passed and, without an overlap, which have no record.
FreshIsNew(p) ==
    /\ \A i, j \in DOMAIN s[p].fresh : s[p].fresh[i] = s[p].fresh[j] => i = j
    /\ \A i \in DOMAIN s[p].fresh : Passed(p, s[p].fresh[i]) /\ s[p].fresh[i] \in Sources
    /\ ~ overlap => \A i \in DOMAIN s[p].fresh, d \in 1..Len(docs) : ~ IsNamed(d, "github", s[p].fresh[i])

\* A page loses its file, and a document becomes ready, by an ingestion only.
PageHasText == \A d \in 1..Len(docs) :
    (docs[d].type = "pages" /\ docs[d].temp = 0) \/ docs[d].stage = "ready" => docs[d].text # {}

RecordInv ==
    /\ ~ overlap => Apart /\ OneCollection
    /\ \A p \in Proc : FreshIsNew(p)
    /\ PageHasText /\ RecordsAreUnique

\* The files that the count of a sync stands for.
Covers(p) == {f \in Sources : \/ \E i \in DOMAIN s[p].fresh : s[p].fresh[i] = f
                              \/ \E d \in s[p].pend \cup s[p].sent : docs[d].name = f}
CountKept(p) ==
    s[p].pc \in Indexing =>
        /\ s[p].count <= Cardinality(Covers(p))
        /\ \A f \in Covers(p) : Passed(p, f)
        /\ \A d \in s[p].pend \cup s[p].sent : docs[d].type = "github"

\* What is being read is still in the file of a document that nothing calls
\* ready, or searchable in a version as new.
Outlives(d, w) ==
    \/ docs[d].stage # "ready" /\ FileOf(d) >= w
    \/ \E u \in docs[d].text : u >= w
Exact(d) == docs[d].type = "pages" \/ ~ overlap
ReadInv ==
    /\ \A f \in DOMAIN Kind : file[f] <= remote
    /\ \A d \in 1..Len(docs) : docs[d].temp <= remote
    /\ ~ overlap => \A p \in Proc, f \in DOMAIN Kind : s[p].pc \in Indexing => file[f] <= s[p].tree
    /\ ~ raced => \A d \in 1..Len(docs) : Exact(d) => \A w \in reading[d] : Outlives(d, w)

\* Every file that is counted is on disk or searchable; once its record is
\* committed, it reaches the documents.
HasText(d, v) == \E w \in docs[d].text : w >= v
Backed(f, v) == file[f] >= v \/ \E d \in 1..Len(docs) : IsNamed(d, "github", f) /\ HasText(d, v)
FilesKept(p) ==
    s[p].pc \in Indexing =>
        /\ \A f \in Covers(p) : Backed(f, s[p].tree)
        /\ \A f \in Sources : (\E d \in s[p].sent : docs[d].name = f) => Present("github", f, s[p].tree)

FileInv ==
    /\ \A p \in Proc : CountKept(p)
    /\ ~ overlap /\ ~ raced => \A p \in Proc : FilesKept(p)
    /\ CompleteIsIndexed

\* The pages a sync has passed, and the one it sends, reach the documents as
\* they were when it listed them or later.
HeadKept(p) ==
    /\ UnderWay(p) /\ s[p].type = "pages" => runs[s[p].run].head \in 1..remote
    /\ s[p].pc \in {"head", "list", "create"} => \A f \in Sources : ~ Passed(p, f)
PagesKept(p) ==
    s[p].pc \in {"page", "send"} =>
        \A f \in Sources : Passed(p, f) => Present("pages", f, runs[s[p].run].head)
SendKept(p) ==
    s[p].pc = "send" => \E d \in s[p].sent :
        d \in 1..Len(docs) /\ IsNamed(d, "pages", Entry(p)) /\ Reaches(d, runs[s[p].run].head)

PageInv ==
    /\ \A r \in DOMAIN runs : runs[r].status = "complete" /\ runs[r].type = "pages" => runs[r].head # 0
    /\ \A p \in Proc : HeadKept(p)
    /\ ~ raced => \A p \in Proc : PagesKept(p) /\ SendKept(p)
    /\ CompleteRunIsIndexed

\* A queued record has a job, was left without one, or a sync is still to ask
\* for one.
QueuedInv ==
    \A d \in 1..Len(docs) : docs[d].stage = "queued" =>
        d \in jobs \/ d \in left \/ \E p \in Proc : d \in Undone(p)

-----------------------------------------------------------------------------
(* The members, in order *)

\* The least element of a set of numbers is in it, and none is less.
LEMMA MinIsLeast ==
    ASSUME NEW S, S \subseteq Nat, S # {}
    PROVE  Min(S) \in S /\ \A y \in S : Min(S) <= y
<1>1. PICK x \in S : \A y \in S : ~ (<<y, x>> \in OpToRel(<, Nat))
  BY NatLessThanWellFounded, WFMin, Zenon
<1>2. \A y \in S : <<y, x>> \in OpToRel(<, Nat) <=> y < x
  BY DEF OpToRel
<1>3. \A y \in S : ~ (y < x)
  BY <1>1, <1>2
<1>4. \A y \in S : x <= y
  BY <1>3
<1> QED
  BY <1>1, <1>4 DEF Min

\* The files of the archive are some of its members, and there is one.
LEMMA FilesAreMembers ==
    /\ Len(Files) \in Nat /\ Len(Files) > 0
    /\ \A i \in 1..Len(Files) : Files[i] \in DOMAIN Kind
<1> DEFINE K == DOMAIN Kind
<1>1. Files \in Seq(K) /\ Len(Files) > 0
  BY FilesAssumption, Zenon
<1> HIDE DEF K
<1>2. Len(Files) \in Nat /\ \A i \in 1..Len(Files) : Files[i] \in K
  BY <1>1
<1> QED
  BY <1>1, <1>2 DEF K

\* A sync goes on to the next member that is indexed, and passes no other.
LEMMA UpcomingIsNext ==
    ASSUME NEW i \in 1..(Len(Files) + 1)
    PROVE  /\ Upcoming(i) \in i..(Len(Files) + 1)
           /\ Upcoming(i) <= Len(Files) => Files[Upcoming(i)] \in Sources
           /\ \A j \in i..(Upcoming(i) - 1) : Files[j] \notin Sources
<1> DEFINE S == {j \in i..Len(Files) : Files[j] \in Sources} \cup {Len(Files) + 1}
<1>1. Len(Files) \in Nat
  BY FilesAreMembers
<1>2. S \subseteq i..(Len(Files) + 1) /\ S \subseteq Nat /\ S # {}
  BY <1>1
<1>3. Upcoming(i) \in S /\ \A y \in S : Upcoming(i) <= y
  <2> HIDE DEF S
  <2>1. Upcoming(i) = Min(S)
    BY DEF Upcoming, S
  <2> QED
    BY <1>2, <2>1, MinIsLeast
<1>4. ASSUME NEW j \in i..(Upcoming(i) - 1), Files[j] \in Sources PROVE FALSE
  <2>1. j \in S
    BY <1>1, <1>2, <1>3, <1>4
  <2> QED
    BY <1>1, <1>2, <1>3, <2>1
<1> QED
  BY <1>1, <1>2, <1>3, <1>4

\* There are finitely many members, and all of them are listed.
LEMMA MembersAreListed ==
    /\ Len(Files) \in Nat /\ Len(Files) > 0
    /\ \A i \in 1..Len(Files) : Files[i] \in DOMAIN Kind
    /\ \A i, j \in 1..Len(Files) : Files[i] = Files[j] => i = j
    /\ Sources \subseteq DOMAIN Kind
    /\ IsFiniteSet(Sources)
<1>1. Len(Files) \in Nat /\ Len(Files) > 0 /\ \A i \in 1..Len(Files) : Files[i] \in DOMAIN Kind
  BY FilesAreMembers
<1>2. IsFiniteSet(DOMAIN Kind)
  <2> DEFINE K == DOMAIN Kind
  <2>1. Files \in Seq(K) /\ \A f \in K : \E i \in 1..Len(Files) : Files[i] = f
    BY FilesAssumption, Zenon
  <2> HIDE DEF K
  <2>2. Files \in [1..Len(Files) -> K]
    BY <2>1, LenProperties
  <2>3. Files \in Surjection(1..Len(Files), K)
    BY <2>1, <2>2 DEF Surjection
  <2>4. IsFiniteSet(1..Len(Files))
    BY <1>1, FS_Interval
  <2>5. IsFiniteSet(K)
    BY <2>3, <2>4, FS_Surjection
  <2> QED
    BY <2>5 DEF K
<1>3. Sources \subseteq DOMAIN Kind
  BY DEF Sources
<1>4. IsFiniteSet(Sources)
  BY <1>2, <1>3, FS_Subset
<1> QED
  BY <1>1, <1>3, <1>4, FilesAssumption

\* No sync.
LEMMA IdleIsTyped ==
    Idle \in SyncTypes /\ Idle.pc = "idle" /\ Idle.run = 0 /\ Idle.type = "github"
<1>1. Upcoming(1) \in 1..(Len(Files) + 1)
  BY UpcomingIsNext, MembersAreListed
<1>2. MaxEvents \in Nat /\ MaxStarts \in Nat
  BY LimitAssumption
<1> QED
  BY <1>1, <1>2 DEF Idle, SyncTypes, Steps, Types, Connections, Versions

-----------------------------------------------------------------------------
(* What each step makes of the sync that takes it *)

Turns(p, r) == r \in SyncTypes /\ s' = [s EXCEPT ![p] = r]

SameSync(r, q) == r.type = q.type /\ r.conn = q.conn /\ r.run = q.run
SameHead(r, q) == r.known = q.known /\ r.head = q.head /\ r.tree = q.tree /\ r.coll = q.coll
SameDocs(r, q) == r.pend = q.pend /\ r.fresh = q.fresh /\ r.sent = q.sent
SameWork(r, q) == SameDocs(r, q) /\ r.done = q.done
SamePlace(r, q) == r.at = q.at /\ r.count = q.count

\* A sync that is replaced leaves the others as they are.
LEMMA TurnsOnlyOne ==
    ASSUME TypeOK, NEW p \in Proc, NEW r, Turns(p, r)
    PROVE  /\ s' \in [Proc -> SyncTypes] /\ s'[p] = r
           /\ \A q \in Proc : q # p => s'[q] = s[q]
  BY DEF TypeOK, Turns

Indexed(r, q, pend, fresh) ==
    /\ SameSync(r, q) /\ SameHead(r, q) /\ r.pc \in {"index", "flush"}
    /\ r.pend = pend /\ r.fresh = fresh /\ r.sent = q.sent /\ r.done = q.done
    /\ r.at = Upcoming(q.at + 1) /\ r.count = q.count + 1

\* What a sync holds after it has indexed a file or page.
LEMMA IndexesTurns ==
    ASSUME TypeOK, NEW p \in Proc, s[p].at <= Len(Files), s[p].count < s[p].at,
           NEW pend \in SUBSET Nat, NEW fresh \in Seq(DOMAIN Kind),
           s' = [s EXCEPT ![p] = Indexes(p, pend, fresh)]
    PROVE  \E r : Turns(p, r) /\ Indexed(r, s[p], pend, fresh)
<1> DEFINE pc == IF (s[p].count + 1) % Batch = 0 THEN "flush" ELSE "index"
           r == [s[p] EXCEPT !.pend = pend, !.fresh = fresh, !.at = Upcoming(s[p].at + 1),
                             !.count = s[p].count + 1, !.pc = pc]
<1>1. s[p] \in SyncTypes /\ s[p].at \in 1..(Len(Files) + 1) /\ s[p].count \in 0..Len(Files)
  BY DEF TypeOK, SyncTypes
<1>2. Indexes(p, pend, fresh) = r
  BY DEF Indexes
<1>3. s[p].at + 1 \in 1..(Len(Files) + 1) /\ s[p].count + 1 \in 0..Len(Files)
  BY <1>1, FilesAreMembers
<1>4. Upcoming(s[p].at + 1) \in 1..(Len(Files) + 1)
  BY <1>3, UpcomingIsNext, FilesAreMembers
<1>5. pc \in {"index", "flush"} /\ pc \in Steps
  BY DEF Steps
<1> HIDE DEF pc
<1>6. r \in SyncTypes
  BY <1>1, <1>3, <1>4, <1>5, ZenonT(60) DEF SyncTypes
<1>7. /\ SameSync(r, s[p]) /\ SameHead(r, s[p]) /\ r.pc = pc /\ r.sent = s[p].sent /\ r.done = s[p].done
      /\ r.pend = pend /\ r.fresh = fresh
      /\ r.at = Upcoming(s[p].at + 1) /\ r.count = s[p].count + 1
  BY <1>1 DEF SyncTypes, SameSync, SameHead
<1> HIDE DEF r
<1> QED
  BY <1>2, <1>5, <1>6, <1>7 DEF Turns, Indexed

Begun(r, t, k) ==
    /\ r.type = t /\ r.run = k /\ r.pc = IF t = "github" THEN "head" ELSE "list"
    /\ r.pend = {} /\ r.fresh = <<>> /\ r.sent = {} /\ r.done = {} /\ r.at = Idle.at /\ r.count = 0

\* A sync starts with nothing done.
LEMMA StartTurns ==
    ASSUME TypeOK, NEW p \in Proc, NEW t \in Types, NEW k \in 0..MaxStarts, Start(p, t, k)
    PROVE  \E r : Turns(p, r) /\ Begun(r, t, k)
<1> DEFINE pc == IF t = "github" THEN "head" ELSE "list"
           c == IF t = "github" THEN conn ELSE hub[t]
           sha == IF row.status = "complete" /\ row.files > 0 THEN row.sha ELSE 0
           r == [Idle EXCEPT !.pc = pc, !.type = t, !.run = k, !.conn = c, !.known = row.conn # 0,
                             !.sha = sha]
<1>1. Idle \in SyncTypes
  BY IdleIsTyped
<1>2. c \in Connections /\ sha \in Versions /\ (row.conn # 0) \in BOOLEAN /\ pc \in Steps
  BY LimitAssumption DEF TypeOK, RowTypes, Versions, Steps
<1>3. s' = [s EXCEPT ![p] = r]
  BY DEF Start
<1> HIDE DEF pc, c, sha
<1>4. r \in SyncTypes
  BY <1>1, <1>2, ZenonT(60) DEF SyncTypes
<1>5. /\ r.type = t /\ r.run = k /\ r.pc = pc /\ r.pend = {} /\ r.fresh = <<>> /\ r.sent = {}
      /\ r.done = {} /\ r.at = Idle.at /\ r.count = 0
  BY DEF Idle
<1> HIDE DEF r
<1> QED
  BY <1>3, <1>4, <1>5 DEF Turns, Begun, pc

\* The collection is one that is there, or is to be made.
LEMMA FindTurns ==
    ASSUME TypeOK, NEW p \in Proc, NEW new \in SyncTypes, FindCollection(p, new)
    PROVE  \E r : /\ Turns(p, r) /\ SameSync(r, new)
                  /\ r.known = new.known /\ r.head = new.head /\ r.tree = new.tree
                  /\ SameWork(r, new) /\ SamePlace(r, new)
                  /\ \/ colls[s[p].type] = 0 /\ r.pc = "create"
                     \/ r.coll \in 1..colls[s[p].type] /\ r.pc = After(s[p].type)
<1>1. CASE colls[s[p].type] = 0
  <2> DEFINE r == [new EXCEPT !.pc = "create"]
  <2>1. s' = [s EXCEPT ![p] = r]
    BY <1>1 DEF FindCollection
  <2>2. r \in SyncTypes
    BY ZenonT(60) DEF SyncTypes, Steps
  <2>3. /\ SameSync(r, new) /\ r.known = new.known /\ r.head = new.head /\ r.tree = new.tree
        /\ SameWork(r, new) /\ SamePlace(r, new) /\ r.pc = "create"
    BY DEF SyncTypes, SameSync, SameWork, SameDocs, SamePlace
  <2> HIDE DEF r
  <2> QED
    BY <1>1, <2>1, <2>2, <2>3 DEF Turns
<1>2. CASE colls[s[p].type] # 0
  <2>1. s[p].type \in Types /\ colls[s[p].type] \in Nat
    BY DEF TypeOK, SyncTypes
  <2>2. PICK c \in 1..colls[s[p].type] :
          s' = [s EXCEPT ![p] = [new EXCEPT !.pc = After(s[p].type), !.coll = c]]
    BY <1>2 DEF FindCollection
  <2> DEFINE pc == After(s[p].type)
             r == [new EXCEPT !.pc = pc, !.coll = c]
  <2>3. pc \in Steps /\ c \in Nat
    BY <2>1 DEF After, Steps
  <2>4. s' = [s EXCEPT ![p] = r]
    BY <2>2
  <2> HIDE DEF pc
  <2>5. r \in SyncTypes
    BY <2>3, ZenonT(60) DEF SyncTypes
  <2>6. /\ SameSync(r, new) /\ r.known = new.known /\ r.head = new.head /\ r.tree = new.tree
        /\ SameWork(r, new) /\ SamePlace(r, new) /\ r.pc = pc /\ r.coll = c
    BY DEF SyncTypes, SameSync, SameWork, SameDocs, SamePlace
  <2> HIDE DEF r
  <2> QED
    BY <2>4, <2>5, <2>6 DEF Turns, pc
<1> QED
  BY <1>1, <1>2

\* What it holds after it has made its collection.
LEMMA CreateTurns ==
    ASSUME TypeOK, NEW p \in Proc, CreateCollection(p)
    PROVE  \E r : /\ Turns(p, r) /\ SameSync(r, s[p])
                  /\ r.known = s[p].known /\ r.head = s[p].head /\ r.tree = s[p].tree
                  /\ SameWork(r, s[p]) /\ SamePlace(r, s[p])
                  /\ r.pc = After(s[p].type) /\ r.coll = colls[s[p].type] + 1
<1>1. s[p] \in SyncTypes /\ s[p].type \in Types /\ colls[s[p].type] + 1 \in Nat
  BY DEF TypeOK, SyncTypes
<1> DEFINE pc == After(s[p].type)
           c == colls[s[p].type] + 1
           r == [s[p] EXCEPT !.pc = pc, !.coll = c]
<1>2. s' = [s EXCEPT ![p] = r]
  BY DEF CreateCollection
<1>3. pc \in Steps /\ c \in Nat
  BY <1>1 DEF After, Steps
<1> HIDE DEF pc, c
<1>4. r \in SyncTypes
  BY <1>1, <1>3, ZenonT(60) DEF SyncTypes
<1>5. /\ SameSync(r, s[p]) /\ r.known = s[p].known /\ r.head = s[p].head /\ r.tree = s[p].tree
      /\ SameWork(r, s[p]) /\ SamePlace(r, s[p]) /\ r.pc = pc /\ r.coll = c
  BY <1>1 DEF SyncTypes, SameSync, SameWork, SameDocs, SamePlace
<1> HIDE DEF r
<1> QED
  BY <1>2, <1>4, <1>5 DEF Turns, pc, c

\* Announce, when the row can be written.
LEMMA AnnounceTurns ==
    ASSUME TypeOK, NEW p \in Proc, s' = [s EXCEPT ![p].pc = "download", ![p].known = TRUE]
    PROVE  \E r : /\ Turns(p, r) /\ SameSync(r, s[p]) /\ SameWork(r, s[p]) /\ SamePlace(r, s[p])
                  /\ r.head = s[p].head /\ r.tree = s[p].tree /\ r.coll = s[p].coll
                  /\ r.pc = "download" /\ r.known = TRUE
<1> DEFINE r == [s[p] EXCEPT !.pc = "download", !.known = TRUE]
<1>1. s[p] \in SyncTypes
  BY DEF TypeOK
<1>2. s' = [s EXCEPT ![p] = r]
  OBVIOUS
<1>3. r \in SyncTypes
  BY <1>1, ZenonT(60) DEF SyncTypes, Steps
<1>4. /\ SameSync(r, s[p]) /\ SameWork(r, s[p]) /\ SamePlace(r, s[p])
      /\ r.head = s[p].head /\ r.tree = s[p].tree /\ r.coll = s[p].coll
      /\ r.pc = "download" /\ r.known = TRUE
  BY <1>1 DEF SyncTypes, SameSync, SameWork, SameDocs, SamePlace
<1> HIDE DEF r
<1> QED
  BY <1>2, <1>3, <1>4 DEF Turns

\* What it holds after the download of the archive.
LEMMA DownloadTurns ==
    ASSUME TypeOK, NEW p \in Proc, s' = [s EXCEPT ![p].pc = "index", ![p].tree = remote]
    PROVE  \E r : /\ Turns(p, r) /\ SameSync(r, s[p]) /\ SameWork(r, s[p]) /\ SamePlace(r, s[p])
                  /\ r.known = s[p].known /\ r.head = s[p].head /\ r.coll = s[p].coll
                  /\ r.pc = "index" /\ r.tree = remote
<1> DEFINE r == [s[p] EXCEPT !.pc = "index", !.tree = remote]
<1>1. s[p] \in SyncTypes /\ remote \in Versions
  BY DEF TypeOK
<1>2. s' = [s EXCEPT ![p] = r]
  OBVIOUS
<1>3. r \in SyncTypes
  BY <1>1, ZenonT(60) DEF SyncTypes, Steps
<1>4. /\ SameSync(r, s[p]) /\ SameWork(r, s[p]) /\ SamePlace(r, s[p])
      /\ r.known = s[p].known /\ r.head = s[p].head /\ r.coll = s[p].coll
      /\ r.pc = "index" /\ r.tree = remote
  BY <1>1 DEF SyncTypes, SameSync, SameWork, SameDocs, SamePlace
<1> HIDE DEF r
<1> QED
  BY <1>2, <1>3, <1>4 DEF Turns

\* What it holds after a member that it passes over.
LEMMA SkipTurns ==
    ASSUME TypeOK, NEW p \in Proc, s[p].at <= Len(Files),
           s' = [s EXCEPT ![p].at = Upcoming(@ + 1)]
    PROVE  \E r : /\ Turns(p, r) /\ SameSync(r, s[p]) /\ SameHead(r, s[p]) /\ SameWork(r, s[p])
                  /\ r.pc = s[p].pc /\ r.count = s[p].count /\ r.at = Upcoming(s[p].at + 1)
<1> DEFINE at == Upcoming(s[p].at + 1)
           r == [s[p] EXCEPT !.at = at]
<1>1. s[p] \in SyncTypes /\ s[p].at \in 1..(Len(Files) + 1)
  BY DEF TypeOK, SyncTypes
<1>2. at \in 1..(Len(Files) + 1)
  <2>1. s[p].at + 1 \in 1..(Len(Files) + 1)
    BY <1>1, FilesAreMembers
  <2> QED
    BY <2>1, UpcomingIsNext, FilesAreMembers
<1>3. s' = [s EXCEPT ![p] = r]
  OBVIOUS
<1> HIDE DEF at
<1>4. r \in SyncTypes
  BY <1>1, <1>2, ZenonT(60) DEF SyncTypes
<1>5. /\ SameSync(r, s[p]) /\ SameHead(r, s[p]) /\ SameWork(r, s[p])
      /\ r.pc = s[p].pc /\ r.count = s[p].count /\ r.at = at
  BY <1>1 DEF SyncTypes, SameSync, SameHead, SameWork, SameDocs
<1> HIDE DEF r
<1> QED
  BY <1>3, <1>4, <1>5 DEF Turns, at

Sent(p) == s[p].sent \cup s[p].pend \cup (Len(docs) + 1)..(Len(docs) + Len(s[p].fresh))

\* What it holds after a flush of the pending records.
LEMMA FlushTurns ==
    ASSUME TypeOK, NEW p \in Proc, Flush(p)
    PROVE  \E r : /\ Turns(p, r) /\ SameSync(r, s[p]) /\ SameHead(r, s[p]) /\ SamePlace(r, s[p])
                  /\ r.pend = {} /\ r.fresh = <<>> /\ r.sent = Sent(p) /\ r.done = s[p].done
                  /\ r.pc = IF s[p].pc = "flush" THEN "index" ELSE "dispatch"
<1> DEFINE pc == IF s[p].pc = "flush" THEN "index" ELSE "dispatch"
           sent == Sent(p)
           none == <<>>
           r == [s[p] EXCEPT !.pend = {}, !.fresh = none, !.pc = pc, !.sent = sent]
<1>1. s[p] \in SyncTypes /\ s[p].sent \in SUBSET Nat /\ s[p].pend \in SUBSET Nat
  BY DEF TypeOK, SyncTypes
<1>2. Len(docs) \in Nat /\ Len(s[p].fresh) \in Nat
  <2>1. s[p].fresh \in Seq(DOMAIN Kind) /\ docs \in Seq(DocTypes)
    BY <1>1 DEF TypeOK, SyncTypes
  <2> QED
    BY <2>1, LenProperties
<1>3. sent \in SUBSET Nat /\ pc \in Steps /\ none \in Seq(DOMAIN Kind)
  <2>1. none \in Seq(DOMAIN Kind)
    BY EmptySeq
  <2>2. (Len(docs) + 1)..(Len(docs) + Len(s[p].fresh)) \subseteq Nat
    BY <1>2
  <2>3. sent \in SUBSET Nat
    BY <1>1, <2>2 DEF Sent
  <2>4. pc \in Steps
    BY DEF Steps
  <2> QED
    BY <2>1, <2>3, <2>4
<1>4. s' = [s EXCEPT ![p] = r]
  BY DEF Flush, Sent
<1> HIDE DEF pc, sent, none
<1>5. r \in SyncTypes
  BY <1>1, <1>3, ZenonT(60) DEF SyncTypes
<1>6. /\ SameSync(r, s[p]) /\ SameHead(r, s[p]) /\ SamePlace(r, s[p])
      /\ r.pend = {} /\ r.fresh = none /\ r.sent = sent /\ r.done = s[p].done /\ r.pc = pc
  BY <1>1 DEF SyncTypes, SameSync, SameHead, SamePlace
<1> HIDE DEF r
<1> QED
  BY <1>4, <1>5, <1>6 DEF Turns, pc, sent, none

\* What it holds after the dispatch of the last ones.
LEMMA DispatchTurns ==
    ASSUME TypeOK, NEW p \in Proc, DispatchAll(p)
    PROVE  \E r : /\ Turns(p, r) /\ SameSync(r, s[p]) /\ SameHead(r, s[p])
                  /\ SameWork(r, s[p]) /\ SamePlace(r, s[p]) /\ r.pc = "finish"
<1> DEFINE r == [s[p] EXCEPT !.pc = "finish"]
<1>1. s[p] \in SyncTypes
  BY DEF TypeOK
<1>2. s' = [s EXCEPT ![p] = r]
  BY DEF DispatchAll, Goes
<1>3. r \in SyncTypes
  BY <1>1, ZenonT(60) DEF SyncTypes, Steps
<1>4. /\ SameSync(r, s[p]) /\ SameHead(r, s[p]) /\ SameWork(r, s[p]) /\ SamePlace(r, s[p])
      /\ r.pc = "finish"
  BY <1>1 DEF SyncTypes, SameSync, SameHead, SameWork, SameDocs, SamePlace
<1> HIDE DEF r
<1> QED
  BY <1>2, <1>3, <1>4 DEF Turns

\* What it holds when a page's record is about to be sent.
LEMMA SendsTurns ==
    ASSUME TypeOK, NEW p \in Proc, NEW d \in Nat, Sends(p, d)
    PROVE  \E r : /\ Turns(p, r) /\ SameSync(r, s[p]) /\ SameHead(r, s[p]) /\ SamePlace(r, s[p])
                  /\ r.pend = s[p].pend /\ r.fresh = s[p].fresh /\ r.sent = {d} /\ r.done = {} /\ r.pc = "send"
<1> DEFINE r == [s[p] EXCEPT !.pc = "send", !.sent = {d}, !.done = {}]
<1>1. s[p] \in SyncTypes /\ {d} \in SUBSET Nat /\ {} \in SUBSET Nat
  BY DEF TypeOK
<1>2. s' = [s EXCEPT ![p] = r]
  BY DEF Sends
<1>3. r \in SyncTypes
  BY <1>1, ZenonT(60) DEF SyncTypes, Steps
<1>4. /\ SameSync(r, s[p]) /\ SameHead(r, s[p]) /\ SamePlace(r, s[p])
      /\ r.pend = s[p].pend /\ r.fresh = s[p].fresh /\ r.sent = {d} /\ r.done = {} /\ r.pc = "send"
  BY <1>1 DEF SyncTypes, SameSync, SameHead, SamePlace
<1> HIDE DEF r
<1> QED
  BY <1>2, <1>3, <1>4 DEF Turns

\* What it holds after that.
LEMMA SendPageTurns ==
    ASSUME TypeOK, NEW p \in Proc, s[p].at <= Len(Files), s[p].count < s[p].at, SendPage(p)
    PROVE  \E r : /\ Turns(p, r) /\ SameSync(r, s[p]) /\ SameHead(r, s[p]) /\ SameDocs(r, s[p])
                  /\ r.done = r.sent /\ r.pc = "page" /\ r.at = Upcoming(s[p].at + 1) /\ r.count = s[p].count + 1
<1> DEFINE at == Upcoming(s[p].at + 1)
           n == s[p].count + 1
           r == [s[p] EXCEPT !.pc = "page", !.at = at, !.count = n, !.done = s[p].sent]
<1>1. s[p] \in SyncTypes /\ s[p].at \in 1..(Len(Files) + 1) /\ s[p].count \in 0..Len(Files)
  BY DEF TypeOK, SyncTypes
<1>2. at \in 1..(Len(Files) + 1) /\ n \in 0..Len(Files)
  <2>1. s[p].at + 1 \in 1..(Len(Files) + 1) /\ n \in 0..Len(Files)
    BY <1>1, FilesAreMembers
  <2> QED
    BY <2>1, UpcomingIsNext, FilesAreMembers
<1>3. s' = [s EXCEPT ![p] = r]
  BY DEF SendPage
<1> HIDE DEF at, n
<1>4. r \in SyncTypes
  <2>1. s[p].sent \in SUBSET Nat
    BY <1>1 DEF SyncTypes
  <2> QED
    BY <1>1, <1>2, <2>1, ZenonT(60) DEF SyncTypes, Steps
<1>5. /\ SameSync(r, s[p]) /\ SameHead(r, s[p]) /\ SameDocs(r, s[p])
      /\ r.done = r.sent /\ r.pc = "page" /\ r.at = at /\ r.count = n
  BY <1>1 DEF SyncTypes, SameSync, SameHead, SameDocs
<1> HIDE DEF r
<1> QED
  BY <1>3, <1>4, <1>5 DEF Turns, at, n

Dispatches(p) == StartThreads(p) \/ Enqueue(p) \/ MarkQueued(p)

\* What it holds after a step of a dispatch.
LEMMA DispatchesTurns ==
    ASSUME TypeOK, NEW p \in Proc, Dispatches(p)
    PROVE  \E r : /\ Turns(p, r) /\ SameSync(r, s[p]) /\ SameHead(r, s[p])
                  /\ SameDocs(r, s[p]) /\ SamePlace(r, s[p]) /\ r.pc = s[p].pc
<1>1. s[p] \in SyncTypes /\ s[p].sent \in SUBSET Nat /\ s[p].done \in SUBSET Nat /\ s[p].job \in BOOLEAN
  BY DEF TypeOK, SyncTypes
<1>2. ASSUME NEW done \in SUBSET Nat, NEW job \in BOOLEAN, NEW r,
             r = [s[p] EXCEPT !.done = done, !.job = job], s' = [s EXCEPT ![p] = r]
      PROVE  /\ Turns(p, r) /\ SameSync(r, s[p]) /\ SameHead(r, s[p])
             /\ SameDocs(r, s[p]) /\ SamePlace(r, s[p]) /\ r.pc = s[p].pc
  <2>1. r \in SyncTypes
    BY <1>1, <1>2, ZenonT(60) DEF SyncTypes
  <2>2. SameSync(r, s[p]) /\ SameHead(r, s[p]) /\ SameDocs(r, s[p]) /\ SamePlace(r, s[p]) /\ r.pc = s[p].pc
    BY <1>1, <1>2 DEF SyncTypes, SameSync, SameHead, SameDocs, SamePlace
  <2> QED
    BY <1>2, <2>1, <2>2 DEF Turns
<1>3. \E done \in SUBSET Nat, job \in BOOLEAN : s' = [s EXCEPT ![p] = [s[p] EXCEPT !.done = done, !.job = job]]
  <2>1. CASE StartThreads(p)
    <3>1. s' = [s EXCEPT ![p] = [s[p] EXCEPT !.done = s[p].sent]]
      BY <2>1 DEF StartThreads
    <3>2. [s[p] EXCEPT !.done = s[p].sent] = [s[p] EXCEPT !.done = s[p].sent, !.job = s[p].job]
      BY <1>1 DEF SyncTypes
    <3> QED
      BY <1>1, <3>1, <3>2
  <2>2. CASE Enqueue(p)
    <3>1. s' = [s EXCEPT ![p] = [s[p] EXCEPT !.job = TRUE]]
      BY <2>2 DEF Enqueue
    <3>2. [s[p] EXCEPT !.job = TRUE] = [s[p] EXCEPT !.done = s[p].done, !.job = TRUE]
      BY <1>1 DEF SyncTypes
    <3> QED
      BY <1>1, <3>1, <3>2
  <2>3. CASE MarkQueued(p)
    <3>1. PICK d \in Undone(p) : s' = [s EXCEPT ![p].job = FALSE, ![p].done = @ \cup {d}]
      BY <2>3 DEF MarkQueued
    <3>2. s[p].done \cup {d} \in SUBSET Nat
      BY <1>1 DEF Undone
    <3>3. s' = [s EXCEPT ![p] = [s[p] EXCEPT !.done = s[p].done \cup {d}, !.job = FALSE]]
      <4>1. s' = [s EXCEPT ![p] = [s[p] EXCEPT !.job = FALSE, !.done = s[p].done \cup {d}]]
        BY <3>1
      <4>2. [s[p] EXCEPT !.job = FALSE, !.done = s[p].done \cup {d}]
              = [s[p] EXCEPT !.done = s[p].done \cup {d}, !.job = FALSE]
        BY <1>1 DEF SyncTypes
      <4> QED
        BY <4>1, <4>2
    <3> QED
      BY <3>2, <3>3
  <2> QED
    BY <2>1, <2>2, <2>3 DEF Dispatches
<1> QED
  BY <1>2, <1>3

-----------------------------------------------------------------------------
(* What each step makes of the records *)

SameRecord(d) ==
    docs'[d].type = docs[d].type /\ docs'[d].coll = docs[d].coll /\ docs'[d].name = docs[d].name

RecordsTyped ==
    docs' \in Seq(DocTypes) /\ reading' \in [1..Len(docs') -> SUBSET Versions]

\* The types of records and of what syncs hold, taken apart.
LEMMA RecordTypes ==
    ASSUME TypeOK
    PROVE  /\ Len(docs) \in Nat /\ docs \in [1..Len(docs) -> DocTypes]
           /\ reading \in Seq(SUBSET Versions) /\ Len(reading) = Len(docs)
           /\ \A p \in Proc : s[p] \in SyncTypes /\ s[p].fresh \in Seq(DOMAIN Kind)
           /\ \A p \in Proc : /\ Len(s[p].fresh) \in Nat /\ DOMAIN s[p].fresh = 1..Len(s[p].fresh)
                              /\ \A i \in 1..Len(s[p].fresh) : s[p].fresh[i] \in DOMAIN Kind
<1>1. docs \in Seq(DocTypes) /\ reading \in [1..Len(docs) -> SUBSET Versions]
  BY DEF TypeOK
<1>2. Len(docs) \in Nat /\ docs \in [1..Len(docs) -> DocTypes]
  BY <1>1, LenProperties
<1>3. reading \in Seq(SUBSET Versions) /\ Len(reading) = Len(docs)
  BY <1>1, <1>2, IsASeq
<1>4. ASSUME NEW p \in Proc PROVE s[p] \in SyncTypes /\ s[p].fresh \in Seq(DOMAIN Kind)
  BY DEF TypeOK, SyncTypes
<1>5. ASSUME NEW p \in Proc
      PROVE  /\ Len(s[p].fresh) \in Nat /\ DOMAIN s[p].fresh = 1..Len(s[p].fresh)
             /\ \A i \in 1..Len(s[p].fresh) : s[p].fresh[i] \in DOMAIN Kind
  BY <1>4, LenProperties
<1> QED
  BY <1>2, <1>3, <1>4, <1>5

\* A new record is one, queued and without text.
LEMMA NewDocTyped ==
    ASSUME TypeOK, NEW p \in Proc, NEW f \in DOMAIN Kind, NEW temp \in Versions
    PROVE  /\ NewDoc(p, f, temp) \in DocTypes
           /\ NewDoc(p, f, temp).type = s[p].type /\ NewDoc(p, f, temp).coll = s[p].coll
           /\ NewDoc(p, f, temp).name = f /\ NewDoc(p, f, temp).temp = temp
           /\ NewDoc(p, f, temp).stage = "queued" /\ NewDoc(p, f, temp).text = {}
<1>1. s[p].type \in Types /\ s[p].coll \in Nat
  BY RecordTypes DEF SyncTypes
<1> QED
  BY <1>1 DEF NewDoc, DocTypes

\* A commit queues the pending records and appends one for each new file.
LEMMA FlushRecords ==
    ASSUME TypeOK, NEW p \in Proc, Flush(p)
    PROVE  /\ RecordsTyped /\ Len(docs') = Len(docs) + Len(s[p].fresh)
           /\ \A d \in 1..Len(docs) :
                /\ SameRecord(d) /\ docs'[d].temp = docs[d].temp /\ docs'[d].text = docs[d].text
                /\ reading'[d] = reading[d]
                /\ docs'[d].stage = IF d \in s[p].pend THEN "queued" ELSE docs[d].stage
           /\ \A i \in 1..Len(s[p].fresh) :
                docs'[Len(docs) + i] = NewDoc(p, s[p].fresh[i], 0) /\ reading'[Len(docs) + i] = {}
<1> DEFINE m == Len(docs)
           n == Len(s[p].fresh)
           none == [i \in 1..n |-> {}]
<1>1. m \in Nat /\ n \in Nat /\ docs \in [1..m -> DocTypes] /\ DOMAIN docs = 1..m
      /\ DOMAIN s[p].fresh = 1..n /\ reading \in Seq(SUBSET Versions) /\ Len(reading) = m
  BY RecordTypes
<1>2. ASSUME NEW d \in 1..m
      PROVE  /\ Requeued(p)[d] \in DocTypes
             /\ Requeued(p)[d].type = docs[d].type /\ Requeued(p)[d].coll = docs[d].coll
             /\ Requeued(p)[d].name = docs[d].name /\ Requeued(p)[d].temp = docs[d].temp
             /\ Requeued(p)[d].text = docs[d].text
             /\ Requeued(p)[d].stage = IF d \in s[p].pend THEN "queued" ELSE docs[d].stage
  <2>1. docs[d] \in DocTypes
    BY <1>1
  <2>2. Requeued(p)[d] = IF d \in s[p].pend THEN [docs[d] EXCEPT !.stage = "queued"] ELSE docs[d]
    BY <1>1 DEF Requeued
  <2> QED
    BY <2>1, <2>2 DEF DocTypes
<1>3. Requeued(p) \in Seq(DocTypes) /\ Len(Requeued(p)) = m
  <2>1. Requeued(p) \in [1..m -> DocTypes]
    <3>1. Requeued(p) = [d \in 1..m |-> Requeued(p)[d]]
      BY <1>1 DEF Requeued
    <3> QED
      BY <1>2, <3>1
  <2> QED
    BY <1>1, <2>1
<1>4. Inserted(p) \in Seq(DocTypes) /\ Len(Inserted(p)) = n
      /\ \A i \in 1..n : Inserted(p)[i] = NewDoc(p, s[p].fresh[i], 0)
  <2>1. \A i \in 1..n : Inserted(p)[i] = NewDoc(p, s[p].fresh[i], 0)
    BY <1>1 DEF Inserted
  <2>2. 0 \in Versions
    BY LimitAssumption DEF Versions
  <2>3. \A i \in 1..n : NewDoc(p, s[p].fresh[i], 0) \in DocTypes
    BY <2>2, NewDocTyped, RecordTypes
  <2>4. Inserted(p) \in [1..n -> DocTypes]
    <3>1. Inserted(p) = [i \in 1..n |-> Inserted(p)[i]]
      BY <1>1 DEF Inserted
    <3> QED
      BY <2>1, <2>3, <3>1
  <2> QED
    BY <1>1, <2>1, <2>4
<1>5. none \in Seq(SUBSET Versions) /\ Len(none) = n /\ \A i \in 1..n : none[i] = {}
  <2>1. none \in [1..n -> SUBSET Versions] /\ \A i \in 1..n : none[i] = {}
    OBVIOUS
  <2> QED
    BY <1>1, <2>1
<1>6. docs' = Requeued(p) \o Inserted(p) /\ reading' = reading \o none
  BY <1>1 DEF Flush
<1> HIDE DEF m, n, none
<1>7. /\ docs' \in Seq(DocTypes) /\ Len(docs') = m + n
      /\ \A d \in 1..m : docs'[d] = Requeued(p)[d]
      /\ \A i \in 1..n : docs'[m + i] = Inserted(p)[i]
  <2> DEFINE a == Requeued(p)
             b == Inserted(p)
  <2>1. a \in Seq(DocTypes) /\ b \in Seq(DocTypes) /\ Len(a) = m /\ Len(b) = n /\ docs' = a \o b
    BY <1>3, <1>4, <1>6
  <2> HIDE DEF a, b
  <2>2. /\ a \o b \in Seq(DocTypes) /\ Len(a \o b) = Len(a) + Len(b)
        /\ \A i \in 1..Len(a) + Len(b) : (a \o b)[i] = IF i <= Len(a) THEN a[i] ELSE b[i - Len(a)]
    BY <2>1, ConcatProperties
  <2>3. \A i \in 1..m + n : docs'[i] = IF i <= m THEN a[i] ELSE b[i - m]
    BY <2>1, <2>2
  <2>4. \A d \in 1..m : docs'[d] = a[d]
    BY <1>1, <2>3
  <2>5. ASSUME NEW i \in 1..n PROVE docs'[m + i] = b[i]
    <3>1. m + i \in 1..m + n /\ ~ (m + i <= m) /\ (m + i) - m = i
      BY <1>1
    <3> QED
      BY <2>3, <3>1
  <2> QED
    BY <2>1, <2>2, <2>4, <2>5 DEF a, b
<1>8. /\ reading' \in Seq(SUBSET Versions) /\ Len(reading') = m + n
      /\ \A d \in 1..m : reading'[d] = reading[d]
      /\ \A i \in 1..n : reading'[m + i] = {}
  <2>2. /\ reading \o none \in Seq(SUBSET Versions)
        /\ Len(reading \o none) = Len(reading) + Len(none)
        /\ \A i \in 1..Len(reading) + Len(none) :
             (reading \o none)[i] = IF i <= Len(reading) THEN reading[i] ELSE none[i - Len(reading)]
    BY <1>1, <1>5, ConcatProperties
  <2>3. \A i \in 1..m + n : reading'[i] = IF i <= m THEN reading[i] ELSE none[i - m]
    BY <1>1, <1>5, <1>6, <2>2
  <2>4. \A d \in 1..m : reading'[d] = reading[d]
    BY <1>1, <2>3
  <2>5. ASSUME NEW i \in 1..n PROVE reading'[m + i] = {}
    <3>1. m + i \in 1..m + n /\ ~ (m + i <= m) /\ (m + i) - m = i
      BY <1>1
    <3> QED
      BY <1>5, <2>3, <3>1
  <2> QED
    BY <1>1, <1>5, <1>6, <2>2, <2>4, <2>5
<1>9. RecordsTyped
  BY <1>7, <1>8, LenProperties DEF RecordsTyped
<1>10. \A d \in 1..m : /\ SameRecord(d) /\ docs'[d].temp = docs[d].temp /\ docs'[d].text = docs[d].text
                       /\ reading'[d] = reading[d]
                       /\ docs'[d].stage = IF d \in s[p].pend THEN "queued" ELSE docs[d].stage
  BY <1>2, <1>7, <1>8 DEF SameRecord
<1> QED
  BY <1>4, <1>7, <1>8, <1>9, <1>10 DEF m, n

\* A page is written over the file of a record, or gets a new record.
LEMMA PageRecords ==
    ASSUME TypeOK, NEW p \in Proc, s[p].at <= Len(Files), IndexPage(p)
    PROVE  \E d \in 1..Len(docs') :
             /\ RecordsTyped /\ Sends(p, d)
             /\ \A e \in 1..Len(docs) : /\ SameRecord(e) /\ reading'[e] = reading[e]
                                        /\ docs'[e].text = docs[e].text
                                        /\ e # d => docs'[e] = docs[e]
             /\ docs'[d].type = s[p].type /\ docs'[d].coll = s[p].coll /\ docs'[d].name = Entry(p)
             /\ docs'[d].temp = remote /\ docs'[d].stage = "queued"
             /\ \/ d \in Found(p) /\ docs[d].temp # 0 /\ Len(docs') = Len(docs)
                \/ /\ d = Len(docs) + 1 /\ Len(docs') = d /\ reading'[d] = {} /\ docs'[d].text = {}
                   /\ Found(p) = {} \/ \E e \in Found(p) : docs[e].temp = 0
<1>1. /\ Len(docs) \in Nat /\ docs \in [1..Len(docs) -> DocTypes] /\ docs \in Seq(DocTypes)
      /\ reading \in [1..Len(docs) -> SUBSET Versions] /\ reading \in Seq(SUBSET Versions)
      /\ Len(reading) = Len(docs) /\ remote \in Versions
  BY RecordTypes DEF TypeOK
<1>2. Found(p) \subseteq 1..Len(docs)
  BY DEF Found
<1>3. ASSUME NEW d \in Found(p), docs[d].temp # 0,
             docs' = [docs EXCEPT ![d].temp = remote, ![d].stage = "queued"],
             Sends(p, d), UNCHANGED reading
      PROVE  d \in 1..Len(docs') /\ RecordsTyped /\ Len(docs') = Len(docs)
             /\ (\A e \in 1..Len(docs) : /\ SameRecord(e) /\ reading'[e] = reading[e]
                                         /\ docs'[e].text = docs[e].text
                                         /\ e # d => docs'[e] = docs[e])
             /\ docs'[d].type = s[p].type /\ docs'[d].coll = s[p].coll /\ docs'[d].name = Entry(p)
             /\ docs'[d].temp = remote /\ docs'[d].stage = "queued"
  <2> DEFINE r == [docs[d] EXCEPT !.temp = remote, !.stage = "queued"]
  <2>1. d \in 1..Len(docs) /\ docs[d] \in DocTypes
    BY <1>1, <1>2
  <2>2. /\ r \in DocTypes /\ r.type = docs[d].type /\ r.coll = docs[d].coll /\ r.name = docs[d].name
        /\ r.text = docs[d].text /\ r.temp = remote /\ r.stage = "queued"
    BY <1>1, <2>1 DEF DocTypes
  <2>3. docs' = [docs EXCEPT ![d] = r]
    BY <1>3
  <2> HIDE DEF r
  <2>4. docs' \in [1..Len(docs) -> DocTypes] /\ docs'[d] = r
        /\ \A e \in 1..Len(docs) : e # d => docs'[e] = docs[e]
    BY <1>1, <2>1, <2>2, <2>3
  <2>5. docs' \in Seq(DocTypes) /\ Len(docs') = Len(docs)
    BY <1>1, <2>4
  <2>6. RecordsTyped
    BY <1>1, <1>3, <2>5 DEF RecordsTyped
  <2>7. \A e \in 1..Len(docs) : SameRecord(e) /\ docs'[e].text = docs[e].text
    BY <2>2, <2>4 DEF SameRecord
  <2> QED
    BY <1>3, <2>1, <2>2, <2>4, <2>5, <2>6, <2>7 DEF Found
<1>4. ASSUME docs' = Append(docs, NewDoc(p, Entry(p), remote)), reading' = Append(reading, {}),
             NEW d, d = Len(docs) + 1
      PROVE  /\ d \in 1..Len(docs') /\ RecordsTyped /\ Len(docs') = d
             /\ \A e \in 1..Len(docs) : /\ SameRecord(e) /\ reading'[e] = reading[e]
                                        /\ docs'[e].text = docs[e].text
                                        /\ docs'[e] = docs[e]
             /\ docs'[d].type = s[p].type /\ docs'[d].coll = s[p].coll /\ docs'[d].name = Entry(p)
             /\ docs'[d].temp = remote /\ docs'[d].stage = "queued"
             /\ reading'[d] = {} /\ docs'[d].text = {}
  <2> DEFINE r == NewDoc(p, Entry(p), remote)
  <2>0. s[p].at \in 1..Len(Files)
    BY RecordTypes, FilesAreMembers DEF SyncTypes
  <2>1. /\ r \in DocTypes /\ r.type = s[p].type /\ r.coll = s[p].coll
        /\ r.name = Entry(p) /\ r.temp = remote /\ r.stage = "queued" /\ r.text = {}
    BY <1>1, <2>0, NewDocTyped, FilesAreMembers DEF Entry
  <2> HIDE DEF r
  <2>2. docs' = Append(docs, r)
    BY <1>4 DEF r
  <2>3. docs' \in Seq(DocTypes) /\ Len(docs') = d /\ docs'[d] = r
        /\ \A e \in 1..Len(docs) : docs'[e] = docs[e]
    BY <1>1, <1>4, <2>1, <2>2, AppendProperties
  <2>4. /\ reading' \in Seq(SUBSET Versions) /\ Len(reading') = d /\ reading'[d] = {}
        /\ \A e \in 1..Len(docs) : reading'[e] = reading[e]
    <3>1. {} \in SUBSET Versions
      OBVIOUS
    <3> QED
      BY <1>1, <1>4, <3>1, AppendProperties
  <2>5. RecordsTyped
    BY <2>3, <2>4, LenProperties DEF RecordsTyped
  <2>6. \A e \in 1..Len(docs) : SameRecord(e) /\ docs'[e].text = docs[e].text
    BY <2>3 DEF SameRecord
  <2> QED
    BY <1>1, <1>4, <2>1, <2>3, <2>4, <2>5, <2>6
<1>5. CASE \E d \in Found(p) : /\ docs[d].temp # 0
                               /\ docs' = [docs EXCEPT ![d].temp = remote, ![d].stage = "queued"]
                               /\ Sends(p, d) /\ UNCHANGED reading
  <2>1. PICK d \in Found(p) : /\ docs[d].temp # 0
                              /\ docs' = [docs EXCEPT ![d].temp = remote, ![d].stage = "queued"]
                              /\ Sends(p, d) /\ UNCHANGED reading
    BY <1>5
  <2> QED
    BY <1>3, <2>1
<1>6. CASE /\ Found(p) = {} \/ \E d \in Found(p) : docs[d].temp = 0
           /\ docs' = Append(docs, NewDoc(p, Entry(p), remote))
           /\ reading' = Append(reading, {}) /\ Sends(p, Len(docs) + 1)
  BY <1>4, <1>6
<1> QED
  BY <1>5, <1>6 DEF IndexPage

\* A record's file is of some version.
LEMMA FileTyped ==
    ASSUME TypeOK, NEW d \in 1..Len(docs)
    PROVE  FileOf(d) \in Versions /\ docs[d] \in DocTypes /\ reading[d] \in SUBSET Versions
  BY RecordTypes DEF TypeOK, FileOf, DocTypes

\* A job reads the file of its document.
LEMMA BeginRecords ==
    ASSUME TypeOK, NEW d \in 1..Len(docs), IngestBegin(d)
    PROVE  /\ RecordsTyped /\ Len(docs') = Len(docs)
           /\ \A e \in 1..Len(docs) :
                /\ SameRecord(e) /\ docs'[e].text = docs[e].text /\ docs'[e].temp = docs[e].temp
                /\ e # d => docs'[e] = docs[e] /\ reading'[e] = reading[e]
           /\ docs'[d].stage # "queued"
           /\ reading'[d] = IF FileOf(d) = 0 THEN reading[d] ELSE reading[d] \cup {FileOf(d)}
<1> DEFINE stage == IF FileOf(d) = 0 THEN "failed" ELSE "loading"
           read == IF FileOf(d) = 0 THEN reading[d] ELSE reading[d] \cup {FileOf(d)}
           r == [docs[d] EXCEPT !.stage = stage]
<1>1. /\ Len(docs) \in Nat /\ docs \in [1..Len(docs) -> DocTypes]
      /\ reading \in [1..Len(docs) -> SUBSET Versions]
      /\ FileOf(d) \in Versions /\ docs[d] \in DocTypes /\ reading[d] \in SUBSET Versions
  BY RecordTypes, FileTyped DEF TypeOK
<1>2. docs' = [docs EXCEPT ![d] = r] /\ reading' = [reading EXCEPT ![d] = read]
  BY DEF IngestBegin
<1>3. stage \in {"failed", "loading"} /\ read \in SUBSET Versions
  BY <1>1
<1> HIDE DEF stage
<1>4. /\ r \in DocTypes /\ r.type = docs[d].type /\ r.coll = docs[d].coll /\ r.name = docs[d].name
      /\ r.text = docs[d].text /\ r.temp = docs[d].temp /\ r.stage # "queued"
  BY <1>1, <1>3 DEF DocTypes
<1> HIDE DEF r, read
<1>5. docs' \in [1..Len(docs) -> DocTypes] /\ docs'[d] = r
      /\ \A e \in 1..Len(docs) : e # d => docs'[e] = docs[e]
  BY <1>1, <1>2, <1>4
<1>6. docs' \in Seq(DocTypes) /\ Len(docs') = Len(docs)
  BY <1>1, <1>5
<1>7. reading' \in [1..Len(docs) -> SUBSET Versions] /\ reading'[d] = read
      /\ \A e \in 1..Len(docs) : e # d => reading'[e] = reading[e]
  BY <1>1, <1>2, <1>3
<1>8. RecordsTyped
  BY <1>6, <1>7 DEF RecordsTyped
<1>9. \A e \in 1..Len(docs) : SameRecord(e) /\ docs'[e].text = docs[e].text /\ docs'[e].temp = docs[e].temp
  BY <1>4, <1>5 DEF SameRecord
<1> QED
  BY <1>4, <1>5, <1>6, <1>7, <1>8, <1>9 DEF read

\* What it has read is searchable, and the file is removed.
LEMMA EndRecords ==
    ASSUME TypeOK, NEW d \in 1..Len(docs), IngestEnd(d)
    PROVE  \E v \in reading[d] :
             /\ RecordsTyped /\ Len(docs') = Len(docs) /\ v \in Versions
             /\ \A e \in 1..Len(docs) :
                  SameRecord(e) /\ (e # d => docs'[e] = docs[e] /\ reading'[e] = reading[e])
             /\ docs'[d].stage = "ready" /\ docs'[d].text = docs[d].text \cup {v} /\ docs'[d].temp = 0
             /\ reading'[d] = reading[d] \ {v} /\ Cleans(d, v)
<1>1. /\ Len(docs) \in Nat /\ docs \in [1..Len(docs) -> DocTypes]
      /\ reading \in [1..Len(docs) -> SUBSET Versions]
      /\ FileOf(d) \in Versions /\ docs[d] \in DocTypes /\ reading[d] \in SUBSET Versions
  BY RecordTypes, FileTyped DEF TypeOK
<1>2. PICK v \in reading[d] :
        /\ reading' = [reading EXCEPT ![d] = @ \ {v}]
        /\ docs' = [docs EXCEPT ![d].text = @ \cup {v}, ![d].stage = "ready", ![d].temp = 0]
        /\ Cleans(d, v)
  BY DEF IngestEnd
<1> DEFINE text == docs[d].text \cup {v}
           read == reading[d] \ {v}
           r == [docs[d] EXCEPT !.text = text, !.stage = "ready", !.temp = 0]
<1>3. docs' = [docs EXCEPT ![d] = r] /\ reading' = [reading EXCEPT ![d] = read]
  BY <1>2
<1>4. text \in SUBSET Versions /\ read \in SUBSET Versions /\ v \in Versions /\ 0 \in Versions
  BY <1>1, LimitAssumption DEF DocTypes, Versions
<1> HIDE DEF text
<1>5. /\ r \in DocTypes /\ r.type = docs[d].type /\ r.coll = docs[d].coll /\ r.name = docs[d].name
      /\ r.text = text /\ r.temp = 0 /\ r.stage = "ready"
  BY <1>1, <1>4 DEF DocTypes
<1> HIDE DEF r, read
<1>6. docs' \in [1..Len(docs) -> DocTypes] /\ docs'[d] = r
      /\ \A e \in 1..Len(docs) : e # d => docs'[e] = docs[e]
  BY <1>1, <1>3, <1>5
<1>7. docs' \in Seq(DocTypes) /\ Len(docs') = Len(docs)
  BY <1>1, <1>6
<1>8. reading' \in [1..Len(docs) -> SUBSET Versions] /\ reading'[d] = read
      /\ \A e \in 1..Len(docs) : e # d => reading'[e] = reading[e]
  BY <1>1, <1>3, <1>4
<1>9. RecordsTyped
  BY <1>7, <1>8 DEF RecordsTyped
<1>10. \A e \in 1..Len(docs) : SameRecord(e)
  BY <1>5, <1>6 DEF SameRecord
<1>11. docs'[d].stage = "ready" /\ docs'[d].text = docs[d].text \cup {v} /\ docs'[d].temp = 0
       /\ reading'[d] = reading[d] \ {v}
  BY <1>5, <1>6, <1>8 DEF text, read
<1> QED
  BY <1>2, <1>4, <1>6, <1>7, <1>8, <1>9, <1>10, <1>11

\* An ingestion that fails leaves what was searchable, and the file of all but
\* a document that another run has made ready.
LEMMA FailRecords ==
    ASSUME TypeOK, NEW d \in 1..Len(docs), IngestFails(d)
    PROVE  \E v \in reading[d] :
             /\ RecordsTyped /\ Len(docs') = Len(docs) /\ v \in Versions
             /\ \A e \in 1..Len(docs) : /\ SameRecord(e) /\ docs'[e].text = docs[e].text
                                        /\ e # d => docs'[e] = docs[e] /\ reading'[e] = reading[e]
             /\ reading'[d] = reading[d] \ {v}
             /\ \/ /\ docs'[d].stage = "failed" /\ docs'[d].temp = docs[d].temp
                   /\ UNCHANGED <<file, raced>>
                \/ /\ docs[d].stage = "ready" /\ docs'[d].stage = "ready" /\ docs'[d].temp = 0
                   /\ Cleans(d, v) /\ d \in jobs'
                \/ docs' = docs /\ UNCHANGED <<file, raced>>
<1>1. /\ Len(docs) \in Nat /\ docs \in [1..Len(docs) -> DocTypes]
      /\ reading \in [1..Len(docs) -> SUBSET Versions]
      /\ docs[d] \in DocTypes /\ reading[d] \in SUBSET Versions /\ 0 \in Versions
  BY RecordTypes, FileTyped, LimitAssumption DEF TypeOK, Versions
<1>2. PICK v \in reading[d] :
        /\ reading' = [reading EXCEPT ![d] = @ \ {v}]
        /\ \/ docs' = [docs EXCEPT ![d].stage = "failed"] /\ UNCHANGED <<file, raced>>
           \/ /\ docs[d].stage = "ready" /\ docs' = [docs EXCEPT ![d].temp = 0] /\ Cleans(d, v)
              /\ d \in jobs'
           \/ UNCHANGED <<docs, file, raced>>
  BY DEF IngestFails
<1> DEFINE read == reading[d] \ {v}
<1>3. read \in SUBSET Versions /\ v \in Versions /\ reading' = [reading EXCEPT ![d] = read]
  BY <1>1, <1>2
<1> HIDE DEF read
<1>4. /\ reading' \in [1..Len(docs) -> SUBSET Versions] /\ reading'[d] = read
      /\ \A e \in 1..Len(docs) : e # d => reading'[e] = reading[e]
  BY <1>1, <1>3
<1>5. ASSUME NEW r \in DocTypes, docs' = [docs EXCEPT ![d] = r], r.type = docs[d].type,
             r.coll = docs[d].coll, r.name = docs[d].name, r.text = docs[d].text
      PROVE  /\ RecordsTyped /\ Len(docs') = Len(docs) /\ docs'[d] = r
             /\ \A e \in 1..Len(docs) : /\ SameRecord(e) /\ docs'[e].text = docs[e].text
                                        /\ e # d => docs'[e] = docs[e] /\ reading'[e] = reading[e]
  <2>1. docs' \in [1..Len(docs) -> DocTypes] /\ docs'[d] = r
        /\ \A e \in 1..Len(docs) : e # d => docs'[e] = docs[e]
    BY <1>1, <1>5
  <2>2. docs' \in Seq(DocTypes) /\ Len(docs') = Len(docs)
    BY <1>1, <2>1
  <2>3. RecordsTyped
    BY <1>4, <2>2 DEF RecordsTyped
  <2>4. \A e \in 1..Len(docs) : SameRecord(e) /\ docs'[e].text = docs[e].text
    BY <1>5, <2>1 DEF SameRecord
  <2> QED
    BY <1>4, <2>1, <2>2, <2>3, <2>4
<1>6. CASE docs' = [docs EXCEPT ![d].stage = "failed"] /\ UNCHANGED <<file, raced>>
  <2> DEFINE r == [docs[d] EXCEPT !.stage = "failed"]
  <2>1. /\ r \in DocTypes /\ r.type = docs[d].type /\ r.coll = docs[d].coll /\ r.name = docs[d].name
        /\ r.text = docs[d].text /\ r.stage = "failed" /\ r.temp = docs[d].temp
    BY <1>1 DEF DocTypes
  <2>2. docs' = [docs EXCEPT ![d] = r]
    BY <1>6
  <2> HIDE DEF r
  <2> QED
    BY <1>3, <1>4, <1>5, <1>6, <2>1, <2>2 DEF read
<1>7. CASE docs[d].stage = "ready" /\ docs' = [docs EXCEPT ![d].temp = 0] /\ Cleans(d, v) /\ d \in jobs'
  <2> DEFINE r == [docs[d] EXCEPT !.temp = 0]
  <2>1. /\ r \in DocTypes /\ r.type = docs[d].type /\ r.coll = docs[d].coll /\ r.name = docs[d].name
        /\ r.text = docs[d].text /\ r.stage = docs[d].stage /\ r.temp = 0
    BY <1>1 DEF DocTypes
  <2>2. docs' = [docs EXCEPT ![d] = r]
    BY <1>7
  <2> HIDE DEF r
  <2> QED
    BY <1>3, <1>4, <1>5, <1>7, <2>1, <2>2 DEF read
<1>8. CASE UNCHANGED <<docs, file, raced>>
  <2>1. docs' = [docs EXCEPT ![d] = docs[d]]
    BY <1>1, <1>8
  <2> QED
    BY <1>1, <1>3, <1>4, <1>5, <1>8, <2>1 DEF read
<1> QED
  BY <1>2, <1>6, <1>7, <1>8

\* A dispatch marks records as queued and leaves the rest of them.
LEMMA DispatchesRecords ==
    ASSUME TypeOK, NEW p \in Proc, Dispatches(p)
    PROVE  /\ RecordsTyped /\ Len(docs') = Len(docs)
           /\ \A d \in 1..Len(docs) :
                /\ SameRecord(d) /\ docs'[d].temp = docs[d].temp /\ docs'[d].text = docs[d].text
                /\ docs'[d].stage \in {docs[d].stage, "queued"}
           /\ UNCHANGED <<world, row, runs, colls, file, reading, starts, events, hist>>
<1>1. /\ Len(docs) \in Nat /\ docs \in [1..Len(docs) -> DocTypes] /\ DOMAIN docs = 1..Len(docs)
      /\ reading \in [1..Len(docs) -> SUBSET Versions]
  BY RecordTypes DEF TypeOK
<1>2. UNCHANGED <<world, row, runs, colls, file, reading, starts, events, hist>>
  BY DEF Dispatches, StartThreads, Enqueue, MarkQueued
<1> DEFINE r(d) == [docs[d] EXCEPT !.stage = "queued"]
<1>3. \A d \in 1..Len(docs) :
        /\ r(d) \in DocTypes /\ r(d).type = docs[d].type /\ r(d).coll = docs[d].coll /\ r(d).name = docs[d].name
        /\ r(d).text = docs[d].text /\ r(d).temp = docs[d].temp /\ r(d).stage = "queued"
  BY <1>1 DEF DocTypes
<1>4. docs' \in [1..Len(docs) -> DocTypes] /\ \A d \in 1..Len(docs) : docs'[d] \in {docs[d], r(d)}
  <2>1. CASE StartThreads(p)
    <3>1. PICK first : docs' = [d \in DOMAIN docs |-> IF d \in first THEN r(d) ELSE docs[d]]
      BY <2>1 DEF StartThreads
    <3> QED
      BY <1>1, <1>3, <3>1
  <2>2. CASE Enqueue(p)
    BY <1>1, <2>2 DEF Enqueue
  <2>3. CASE MarkQueued(p)
    <3>1. PICK d \in Undone(p) : docs' = [docs EXCEPT ![d].stage = "queued"]
      BY <2>3 DEF MarkQueued
    <3>2. docs' = [docs EXCEPT ![d] = r(d)]
      BY <3>1
    <3> QED
      BY <1>1, <1>3, <3>2
  <2> QED
    BY <2>1, <2>2, <2>3 DEF Dispatches
<1> HIDE DEF r
<1>5. docs' \in Seq(DocTypes) /\ Len(docs') = Len(docs)
  BY <1>1, <1>4
<1>6. RecordsTyped
  BY <1>1, <1>2, <1>5 DEF RecordsTyped
<1>7. \A d \in 1..Len(docs) :
        /\ SameRecord(d) /\ docs'[d].temp = docs[d].temp /\ docs'[d].text = docs[d].text
        /\ docs'[d].stage \in {docs[d].stage, "queued"}
  BY <1>3, <1>4 DEF SameRecord
<1> QED
  BY <1>2, <1>5, <1>6, <1>7

-----------------------------------------------------------------------------
(* How a sync ends *)

\* A sync that ends is idle.
LEMMA EndsTurns ==
    ASSUME TypeOK, NEW p \in Proc, Ends(p)
    PROVE  Turns(p, Idle)
  BY IdleIsTyped DEF Ends, Turns

\* Only the run of the sync is changed, and only if it was running.
RunsSettled(p, status) ==
    /\ runs' \in [1..MaxStarts -> RunTypes]
    /\ \A r \in 1..MaxStarts :
         /\ runs'[r].type = runs[r].type /\ runs'[r].head = runs[r].head
         /\ runs'[r].status = IF r = s[p].run /\ runs[r].status = "running" THEN status
                                                                             ELSE runs[r].status

\* A run whose end is recorded is settled, and its sync idle.
LEMMA RecordedRuns ==
    ASSUME TypeOK, NEW p \in Proc, NEW status \in {"complete", "failed"}, Recorded(p, status)
    PROVE  RunsSettled(p, status) /\ Turns(p, Idle)
<1>1. runs \in [1..MaxStarts -> RunTypes] /\ DOMAIN runs = 1..MaxStarts
  BY DEF TypeOK
<1>2. ASSUME NEW r \in 1..MaxStarts
      PROVE  /\ runs'[r] \in RunTypes
             /\ runs'[r].type = runs[r].type /\ runs'[r].head = runs[r].head
             /\ runs'[r].status = IF r = s[p].run /\ runs[r].status = "running" THEN status
                                                                               ELSE runs[r].status
  <2>1. runs[r] \in RunTypes
    BY <1>1
  <2>2. runs'[r] = IF r = s[p].run /\ runs[r].status = "running"
                     THEN [runs[r] EXCEPT !.status = status] ELSE runs[r]
    BY <1>1 DEF Recorded
  <2> QED
    BY <2>1, <2>2 DEF RunTypes
<1>3. runs' \in [1..MaxStarts -> RunTypes]
  <2>1. runs' = [r \in 1..MaxStarts |-> runs'[r]]
    BY <1>1 DEF Recorded
  <2> QED
    BY <1>2, <2>1
<1>4. Turns(p, Idle)
  BY EndsTurns DEF Recorded
<1> QED
  BY <1>2, <1>3, <1>4 DEF RunsSettled

\* A sync that fails says so in the row it knows and in its run, or cannot.
LEMMA FailureMarked ==
    ASSUME TypeOK, NEW p \in Proc, MarkFailed(p)
    PROVE  /\ Turns(p, Idle) /\ runs' \in [1..MaxStarts -> RunTypes] /\ row' \in RowTypes
           /\ lost' \in BOOLEAN
           /\ \/ /\ s[p].known /\ ~ RowHere(p) /\ row' = row /\ runs' = runs
                 /\ lost' = (lost \/ s[p].run # 0)
              \/ /\ s[p].known => RowHere(p)
                 /\ lost' = lost /\ RunsSettled(p, "failed")
                 /\ row' = IF s[p].known THEN [row EXCEPT !.status = "failed"] ELSE row
<1>0. row \in RowTypes /\ lost \in BOOLEAN /\ runs \in [1..MaxStarts -> RunTypes]
  BY DEF TypeOK
<1>1. CASE s[p].known /\ ~ RowHere(p)
  <2>1. Lost(p) /\ row' = row
    BY <1>1 DEF MarkFailed
  <2>2. Turns(p, Idle) /\ runs' = runs /\ lost' = (lost \/ s[p].run # 0)
    BY <2>1, EndsTurns DEF Lost
  <2> QED
    BY <1>0, <1>1, <2>1, <2>2
<1>2. CASE ~ (s[p].known /\ ~ RowHere(p))
  <2>1. /\ Raises(p) /\ lost' = lost
        /\ row' = IF s[p].known THEN [row EXCEPT !.status = "failed"] ELSE row
    BY <1>2 DEF MarkFailed
  <2>2. RunsSettled(p, "failed") /\ Turns(p, Idle)
    BY <2>1, RecordedRuns DEF Raises
  <2>3. row' \in RowTypes
    BY <1>0, <2>1 DEF RowTypes
  <2> QED
    BY <1>0, <1>2, <2>1, <2>2, <2>3 DEF RunsSettled
<1> QED
  BY <1>1, <1>2

-----------------------------------------------------------------------------
(* The types, and what a sync holds at each step *)

\* A sync that is left alone keeps its shape while versions and records grow.
LEMMA ShapeStays ==
    ASSUME TypeOK, NEW q \in Proc, Shape(q), s'[q] = s[q], starts <= starts', remote <= remote',
           Len(docs) <= Len(docs'), starts' \in Nat, remote' \in Nat, Len(docs') \in Nat
    PROVE  Shape(q)'
<1>1. s[q] \in SyncTypes /\ starts \in Nat /\ remote \in Nat /\ Len(docs) \in Nat
  BY RecordTypes, LimitAssumption DEF TypeOK, Versions
<1>2. /\ s[q].run \in Nat /\ s[q].head \in Nat /\ s[q].tree \in Nat
      /\ s[q].pend \subseteq Nat /\ s[q].sent \subseteq Nat
  <2>1. /\ s[q].run \in 0..MaxStarts /\ s[q].head \in Versions /\ s[q].tree \in Versions
        /\ s[q].pend \in SUBSET Nat /\ s[q].sent \in SUBSET Nat
    BY <1>1 DEF SyncTypes
  <2>2. MaxStarts \in Nat /\ MaxEvents \in Nat
    BY LimitAssumption
  <2> QED
    BY <2>1, <2>2 DEF Versions
<1>3. s[q].run <= starts'
  BY <1>1, <1>2 DEF Shape
<1>4. 1..remote \subseteq 1..remote' /\ s[q].head .. remote \subseteq s[q].head .. remote'
      /\ 1..Len(docs) \subseteq 1..Len(docs')
  BY <1>1, <1>2
<1> QED
  BY <1>3, <1>4 DEF Shape, Entry, UnderWay, Undone

\* The idle sync has its shape.
LEMMA IdleShape ==
    ASSUME NEW p \in Proc, s'[p] = Idle, starts' \in Nat
    PROVE  Shape(p)'
<1>1. /\ Idle.pc = "idle" /\ Idle.run = 0 /\ Idle.count = 0 /\ Idle.at = Upcoming(1)
      /\ Idle.pend = {} /\ Idle.fresh = <<>> /\ Idle.sent = {} /\ Idle.done = {}
  BY DEF Idle
<1>2. Upcoming(1) \in 1..(Len(Files) + 1) /\ (Upcoming(1) <= Len(Files) => Files[Upcoming(1)] \in Sources)
  BY UpcomingIsNext, FilesAreMembers
<1> QED
  BY <1>1, <1>2 DEF Shape, Entry, UnderWay, GithubSteps, PageSteps, Indexing, Undone

\* A step of one sync that leaves it in shape leaves all in shape.
LEMMA ShapesKept ==
    ASSUME SourceInv, NEW p \in Proc, NEW r, Turns(p, r), Shape(p)',
           starts <= starts', starts' \in Nat, remote' = remote,
           Len(docs) <= Len(docs'), Len(docs') \in Nat
    PROVE  s' \in [Proc -> SyncTypes] /\ \A q \in Proc : Shape(q)'
<1>1. TypeOK /\ remote \in Nat
  BY LimitAssumption DEF SourceInv, TypeOK, Versions
<1>2. s' \in [Proc -> SyncTypes] /\ \A q \in Proc : q # p => s'[q] = s[q]
  BY <1>1, TurnsOnlyOne
<1>3. ASSUME NEW q \in Proc, q # p PROVE Shape(q)'
  BY <1>1, <1>2, <1>3, ShapeStays DEF SourceInv
<1> QED
  BY <1>2, <1>3

\* The same for a sync that ends.
LEMMA EndedShapes ==
    ASSUME SourceInv, NEW p \in Proc, Turns(p, Idle), starts' = starts, remote' = remote, docs' = docs
    PROVE  s' \in [Proc -> SyncTypes] /\ \A q \in Proc : Shape(q)'
<1>1. TypeOK /\ starts \in Nat /\ Len(docs) \in Nat
  BY RecordTypes, LimitAssumption DEF SourceInv, TypeOK
<1>2. Shape(p)'
  BY <1>1, TurnsOnlyOne, IdleShape
<1> QED
  BY <1>1, <1>2, ShapesKept

\* The types and shapes hold to begin with.
LEMMA SourceInit == Init => SourceInv
<1> SUFFICES ASSUME Init PROVE SourceInv
  OBVIOUS
<1>1. MaxEvents \in Nat /\ MaxStarts \in Nat
  BY LimitAssumption
<1>2. \A p \in Proc : s[p] = Idle
  BY DEF Init
<1>3. s \in [Proc -> SyncTypes]
  BY IdleIsTyped DEF Init
<1>4. docs \in Seq(DocTypes) /\ Len(docs) = 0 /\ reading \in [1..Len(docs) -> SUBSET Versions]
  BY EmptySeq DEF Init
<1>5. row \in RowTypes
  BY <1>1, FilesAreMembers DEF Init, NoRow, RowTypes, Connections, Versions
<1>6. runs \in [1..MaxStarts -> RunTypes]
  BY <1>1 DEF Init, RunTypes, Types, Versions
<1>7. TypeOK
  <2>1. remote \in Versions \ {0} /\ 0 \in Versions /\ 0 \in Connections
    BY <1>1 DEF Init, Versions, Connections
  <2>2. /\ conn = 0 /\ hub = [t \in Types |-> 0] /\ colls = [t \in Types |-> 0]
        /\ file = [f \in DOMAIN Kind |-> 0] /\ jobs = {} /\ left = {} /\ starts = 0 /\ events = 0
        /\ lost = FALSE /\ overlap = FALSE /\ raced = FALSE
    BY DEF Init
  <2>3. starts \in 0..MaxStarts /\ events \in 0..MaxEvents
    BY <1>1, <2>2
  <2> QED
    BY <1>3, <1>4, <1>5, <1>6, <2>1, <2>2, <2>3 DEF TypeOK
<1>8. ASSUME NEW p \in Proc PROVE Shape(p)
  <2>1. /\ s[p] = Idle /\ Idle.pc = "idle" /\ Idle.run = 0 /\ Idle.count = 0 /\ Idle.at = Upcoming(1)
        /\ Idle.pend = {} /\ Idle.fresh = <<>> /\ Idle.sent = {} /\ Idle.done = {} /\ starts = 0
    BY <1>2 DEF Idle, Init
  <2>2. Upcoming(1) \in 1..(Len(Files) + 1) /\ (Upcoming(1) <= Len(Files) => Files[Upcoming(1)] \in Sources)
    BY UpcomingIsNext, FilesAreMembers
  <2> QED
    BY <2>1, <2>2 DEF Shape, Entry, UnderWay, GithubSteps, PageSteps, Indexing, Undone
<1> QED
  BY <1>7, <1>8 DEF Init, SourceInv

\* Nothing but the remote content and the user's connections changes.
LEMMA WorldSource ==
    ASSUME SourceInv, Push \/ User
    PROVE  SourceInv'
<1>1. /\ TypeOK /\ remote \in Nat /\ starts \in Nat /\ Len(docs) \in Nat /\ events \in 0..MaxEvents
      /\ remote <= events + 1 /\ MaxEvents \in Nat
  BY RecordTypes, LimitAssumption DEF SourceInv, TypeOK, Versions
<1>2. /\ UNCHANGED <<colls, docs, file, jobs, reading, left, s, starts, lost, overlap, raced>>
      /\ events' = events + 1 /\ events < MaxEvents
      /\ remote' \in {remote, remote + 1} /\ conn' \in {conn, 0, events + 1}
  BY DEF Push, User, Authorize, Disconnect, HubConnect, HubDisconnect, Connected, Event, SaveConnection,
         store, hist
<1>3. hub' \in [Types -> Connections] /\ row' \in RowTypes /\ runs' \in [1..MaxStarts -> RunTypes]
  <2>0. /\ hub \in [Types -> Connections] /\ row \in RowTypes /\ runs \in [1..MaxStarts -> RunTypes]
        /\ events + 1 \in Connections /\ 0 \in Connections
    BY <1>1, <1>2 DEF TypeOK, Connections
  <2>1. CASE Push \/ Authorize
    BY <2>0, <2>1 DEF Push, Authorize
  <2>2. CASE Disconnect
    <3>1. NoRow \in RowTypes
      BY <1>1, FilesAreMembers DEF NoRow, RowTypes, Connections, Versions
    <3> QED
      BY <2>0, <2>2, <3>1 DEF Disconnect
  <2>3. ASSUME NEW t \in Types, HubConnect(t) PROVE hub' \in [Types -> Connections] /\ row' = row /\ runs' = runs
    BY <2>0, <2>3 DEF HubConnect
  <2>4. ASSUME NEW t \in Types, HubDisconnect(t)
        PROVE  hub' \in [Types -> Connections] /\ row' = row /\ runs' \in [1..MaxStarts -> RunTypes]
    <3>1. \A r \in 1..MaxStarts : [runs[r] EXCEPT !.status = "gone"] \in RunTypes /\ runs[r] \in RunTypes
      BY <2>0 DEF RunTypes
    <3>2. runs' = [r \in 1..MaxStarts |-> IF runs[r].type = t /\ runs[r].status # "none"
                                           THEN [runs[r] EXCEPT !.status = "gone"] ELSE runs[r]]
      BY <2>0, <2>4 DEF HubDisconnect
    <3>3. runs' \in [1..MaxStarts -> RunTypes]
      BY <3>1, <3>2
    <3> QED
      BY <2>0, <2>4, <3>3 DEF HubDisconnect
  <2> QED
    BY <2>0, <2>1, <2>2, <2>3, <2>4 DEF User
<1>4. TypeOK' /\ remote' <= events' + 1
  <2>1. remote' \in Versions \ {0} /\ conn' \in Connections /\ events' \in 0..MaxEvents
        /\ remote' <= events' + 1
    BY <1>1, <1>2 DEF TypeOK, Versions, Connections
  <2> QED
    BY <1>1, <1>2, <1>3, <2>1 DEF TypeOK
<1>5. ASSUME NEW q \in Proc PROVE Shape(q)'
  <2>1. Shape(q) /\ s'[q] = s[q] /\ starts' = starts /\ remote <= remote' /\ docs' = docs /\ remote' \in Nat
    BY <1>1, <1>2 DEF SourceInv
  <2> QED
    BY <1>1, <2>1, ShapeStays
<1> QED
  BY <1>4, <1>5 DEF SourceInv

\* A sync starts, or the hub finds nothing to sync.
LEMMA StartShape ==
    ASSUME SourceInv, NEW p \in Proc, NEW t \in Types, NEW k \in 0..MaxStarts, Start(p, t, k),
           k <= starts + 1, t = "pages" => k # 0
    PROVE  /\ s' \in [Proc -> SyncTypes] /\ (\A q \in Proc : Shape(q)')
           /\ starts' = starts + 1 /\ starts' \in 0..MaxStarts
           /\ UNCHANGED <<world, row, colls, store, events, hist>>
<1>1. /\ TypeOK /\ starts \in 0..MaxStarts /\ Len(docs) \in Nat /\ MaxStarts \in Nat
  BY RecordTypes, LimitAssumption DEF SourceInv, TypeOK
<1>2. PICK r : Turns(p, r) /\ Begun(r, t, k)
  BY <1>1, StartTurns
<1>3. s'[p] = r
  BY <1>1, <1>2, TurnsOnlyOne
<1>4. starts' = starts + 1 /\ starts' \in 0..MaxStarts
      /\ UNCHANGED <<world, row, colls, store, events, hist>>
  BY <1>1 DEF Start
<1>5. Shape(p)'
  <2>1. /\ Idle.at \in 1..(Len(Files) + 1)
        /\ Idle.at <= Len(Files) => Files[Idle.at] \in Sources
    BY UpcomingIsNext, FilesAreMembers DEF Idle
  <2>2. t \in {"github", "pages"}
    BY DEF Types
  <2> QED
    BY <1>1, <1>2, <1>3, <1>4, <2>1, <2>2 DEF Begun, Shape, Entry, UnderWay, GithubSteps, PageSteps, Indexing, Undone
<1> QED
  BY <1>1, <1>2, <1>4, <1>5, ShapesKept DEF world, store

\* A sync that starts has its shape.
LEMMA StartSource ==
    ASSUME SourceInv, NEW p \in Proc, Starts(p)
    PROVE  SourceInv'
<1>1. /\ TypeOK /\ starts \in 0..MaxStarts /\ Len(docs) \in Nat /\ MaxStarts \in Nat
      /\ runs \in [1..MaxStarts -> RunTypes] /\ 0 \in Versions /\ remote \in Nat
  BY RecordTypes, LimitAssumption DEF SourceInv, TypeOK, Versions
<1>2. ASSUME /\ s' \in [Proc -> SyncTypes] /\ (\A q \in Proc : Shape(q)') /\ starts' \in 0..MaxStarts
             /\ UNCHANGED <<world, row, colls, store, events, hist>>
             /\ runs' \in [1..MaxStarts -> RunTypes]
      PROVE  SourceInv'
  BY <1>1, <1>2 DEF SourceInv, TypeOK, world, store, hist
<1>3. CASE RouteSync(p) \/ MonitorSync(p)
  <2>1. Start(p, "github", 0) /\ runs' = runs
    BY <1>3 DEF RouteSync, MonitorSync
  <2>2. /\ s' \in [Proc -> SyncTypes] /\ (\A q \in Proc : Shape(q)') /\ starts' \in 0..MaxStarts
        /\ UNCHANGED <<world, row, colls, store, events, hist>>
    BY <1>1, <2>1, StartShape DEF Types
  <2> QED
    BY <1>1, <1>2, <2>1, <2>2
<1>4. ASSUME NEW t \in Types, HubSync(p, t) PROVE SourceInv'
  <2>1. starts < MaxStarts
    BY <1>4 DEF HubSync, Start
  <2> DEFINE status == IF NoRepository(t) THEN "complete" ELSE "running"
             r == [status |-> status, type |-> t, head |-> 0]
  <2>2. status \in {"running", "complete"} /\ runs' = [runs EXCEPT ![starts + 1] = r]
    BY <1>4 DEF HubSync
  <2> HIDE DEF status
  <2>3. r \in RunTypes
    BY <1>1, <2>2 DEF RunTypes
  <2> HIDE DEF r
  <2>4. runs' \in [1..MaxStarts -> RunTypes]
    BY <1>1, <2>2, <2>3
  <2>5. CASE NoRepository(t)
    <3>1. /\ starts' = starts + 1 /\ s' = s
          /\ UNCHANGED <<world, row, colls, store, events, hist>>
      BY <1>4, <2>5 DEF HubSync
    <3>2. ASSUME NEW q \in Proc PROVE Shape(q)'
      <4>1. Shape(q) /\ s'[q] = s[q] /\ starts <= starts' /\ starts' \in Nat /\ remote' = remote /\ docs' = docs
        BY <1>1, <3>1 DEF SourceInv, world, store
      <4> QED
        BY <1>1, <4>1, ShapeStays
    <3>3. starts' \in 0..MaxStarts /\ s' \in [Proc -> SyncTypes]
      BY <1>1, <2>1, <3>1 DEF TypeOK
    <3> QED
      BY <1>2, <2>4, <3>1, <3>2, <3>3
  <2>6. CASE ~ NoRepository(t)
    <3>1. Start(p, t, starts + 1) /\ starts + 1 \in 0..MaxStarts /\ starts + 1 # 0
      BY <1>1, <1>4, <2>1, <2>6 DEF HubSync
    <3>2. /\ s' \in [Proc -> SyncTypes] /\ (\A q \in Proc : Shape(q)') /\ starts' \in 0..MaxStarts
          /\ UNCHANGED <<world, row, colls, store, events, hist>>
      BY <1>1, <3>1, StartShape
    <3> QED
      BY <1>2, <2>4, <3>2
  <2> QED
    BY <2>5, <2>6
<1> QED
  BY <1>3, <1>4 DEF Starts

\* The numbers a sync holds and their bounds.
LEMMA SyncNumbers ==
    ASSUME SourceInv, NEW p \in Proc
    PROVE  /\ TypeOK /\ Shape(p) /\ s[p] \in SyncTypes /\ s[p].type \in Types
           /\ MaxStarts \in Nat /\ MaxEvents \in Nat /\ starts \in 0..MaxStarts /\ events \in 0..MaxEvents
           /\ remote \in Versions \ {0} /\ remote \in Nat \ {0} /\ remote <= events + 1
           /\ Len(docs) \in Nat /\ Len(s[p].fresh) \in Nat
           /\ s[p].at \in 1..(Len(Files) + 1) /\ s[p].count \in 0..Len(Files) /\ s[p].run \in 0..MaxStarts
           /\ s[p].head \in Nat /\ s[p].tree \in Nat /\ s[p].tree \in Versions
           /\ s[p].pend \in SUBSET Nat /\ s[p].sent \in SUBSET Nat /\ s[p].fresh \in Seq(DOMAIN Kind)
<1>1. TypeOK /\ Shape(p) /\ remote <= events + 1 /\ MaxStarts \in Nat /\ MaxEvents \in Nat
  BY LimitAssumption DEF SourceInv
<1>2. s[p] \in SyncTypes /\ Len(docs) \in Nat /\ Len(s[p].fresh) \in Nat
  BY <1>1, RecordTypes
<1>3. /\ starts \in 0..MaxStarts /\ events \in 0..MaxEvents /\ remote \in Versions \ {0}
  BY <1>1 DEF TypeOK
<1>4. /\ s[p].type \in Types /\ s[p].head \in Versions /\ s[p].tree \in Versions
      /\ s[p].at \in 1..(Len(Files) + 1) /\ s[p].count \in 0..Len(Files) /\ s[p].run \in 0..MaxStarts
      /\ s[p].pend \in SUBSET Nat /\ s[p].sent \in SUBSET Nat /\ s[p].fresh \in Seq(DOMAIN Kind)
  BY <1>2 DEF SyncTypes
<1>5. Versions \subseteq Nat
  BY <1>1 DEF Versions
<1> QED
  BY <1>1, <1>2, <1>3, <1>4, <1>5

\* A sync that goes past a member finds the next one to index.
LEMMA NextPlace ==
    ASSUME SourceInv, NEW p \in Proc, s[p].at <= Len(Files)
    PROVE  /\ s[p].at \in 1..Len(Files) /\ Entry(p) \in Sources /\ Entry(p) \in DOMAIN Kind
           /\ Upcoming(s[p].at + 1) \in (s[p].at + 1)..(Len(Files) + 1)
           /\ Upcoming(s[p].at + 1) <= Len(Files) => Files[Upcoming(s[p].at + 1)] \in Sources
           /\ \A j \in (s[p].at + 1)..(Upcoming(s[p].at + 1) - 1) : Files[j] \notin Sources
           /\ s[p].count < s[p].at /\ s[p].count < Upcoming(s[p].at + 1)
           /\ s[p].count + 1 < Upcoming(s[p].at + 1)
<1>1. s[p].at \in 1..Len(Files) /\ s[p].at + 1 \in 1..(Len(Files) + 1)
  BY SyncNumbers, FilesAreMembers
<1>2. Entry(p) \in Sources
  BY SyncNumbers DEF Shape
<1>3. s[p].count < s[p].at /\ s[p].count \in Nat /\ s[p].at \in Nat
  BY SyncNumbers DEF Shape
<1> DEFINE u == Upcoming(s[p].at + 1)
<1>4. /\ u \in (s[p].at + 1)..(Len(Files) + 1) /\ (u <= Len(Files) => Files[u] \in Sources)
      /\ \A j \in (s[p].at + 1)..(u - 1) : Files[j] \notin Sources
  BY <1>1, UpcomingIsNext
<1> HIDE DEF u
<1>5. s[p].count < u /\ s[p].count + 1 < u
  BY <1>1, <1>3, <1>4, FilesAreMembers
<1> QED
  BY <1>1, <1>2, <1>3, <1>4, <1>5, FilesAreMembers DEF Entry, u

\* A file is indexed with a record that is there or with a new one.
LEMMA IndexFileTurns ==
    ASSUME SourceInv, NEW p \in Proc, IndexFile(p)
    PROVE  \E pend \in SUBSET Nat, fresh \in Seq(DOMAIN Kind) : s' = [s EXCEPT ![p] = Indexes(p, pend, fresh)]
<1>0. s[p].at <= Len(Files) /\ s[p].fresh \in Seq(DOMAIN Kind)
  BY SyncNumbers DEF IndexFile, Full, More
<1>1. \/ \E d \in Found(p) : s' = [s EXCEPT ![p] = Indexes(p, s[p].pend \cup {d}, s[p].fresh)]
      \/ s' = [s EXCEPT ![p] = Indexes(p, s[p].pend, Append(s[p].fresh, Entry(p)))]
  BY DEF IndexFile
<1>2. Found(p) \subseteq Nat /\ s[p].pend \in SUBSET Nat
  BY SyncNumbers DEF Found
<1>3. Append(s[p].fresh, Entry(p)) \in Seq(DOMAIN Kind)
  BY <1>0, NextPlace, AppendProperties
<1>4. ASSUME NEW d \in Found(p) PROVE s[p].pend \cup {d} \in SUBSET Nat
  BY <1>2
<1> QED
  BY <1>0, <1>1, <1>2, <1>3, <1>4

\* What a sync at the files of the archive has to hold.
LEMMA IndexingShape ==
    ASSUME NEW p \in Proc, s'[p].pc \in Indexing, s'[p].type = "github", s'[p].run <= starts',
           s'[p].count < s'[p].at, s'[p].at <= Len(Files) => Files[s'[p].at] \in Sources,
           s'[p].known, s'[p].head \in 1..remote', s'[p].tree \in s'[p].head .. remote',
           s'[p].pc \notin {"index", "flush"} => s'[p].pend = {} /\ s'[p].fresh = <<>>,
           s'[p].pend \cup s'[p].sent \subseteq 1..Len(docs'),
           s'[p].pc \in {"index", "flush"} => s'[p].done = {}, s'[p].pc = "finish" => Undone(p)' = {}
    PROVE  Shape(p)'
  BY DEF Shape, Entry, UnderWay, GithubSteps, PageSteps, Indexing

\* And a sync at the pages.
LEMMA PagingShape ==
    ASSUME NEW p \in Proc, s'[p].pc \in {"page", "send"}, s'[p].type = "pages", s'[p].run <= starts', s'[p].run # 0,
           s'[p].count < s'[p].at, s'[p].at <= Len(Files) => Files[s'[p].at] \in Sources,
           s'[p].pc = "send" => s'[p].at <= Len(Files), s'[p].pend = {}, s'[p].fresh = <<>>, s'[p].sent \subseteq 1..Len(docs'),
           s'[p].pc = "page" => Undone(p)' = {}
    PROVE  Shape(p)'
  BY DEF Shape, Entry, UnderWay, GithubSteps, PageSteps, Indexing

\* The sync steps that leave the records, the runs and the row to others.
LEMMA SyncSource ==
    ASSUME SourceInv, NEW p \in Proc
    PROVE  /\ CreateCollection(p) => SourceInv'
           /\ Download(p) => SourceInv'
           /\ IndexFile(p) => SourceInv'
           /\ SkipFile(p) => SourceInv'
           /\ DispatchAll(p) => SourceInv'
           /\ SendPage(p) => SourceInv'
<1>0. TypeOK /\ Shape(p)
  BY SyncNumbers
<1>1. /\ jobs \subseteq 1..Len(docs) /\ left \subseteq 1..Len(docs) /\ file \in [DOMAIN Kind -> Versions] /\ colls \in [Types -> Nat]
  BY <1>0 DEF TypeOK
\* Whatever else is as it was.
<1>4. ASSUME NEW r, Turns(p, r), Shape(p)', UNCHANGED <<remote, conn, hub, row, runs, docs, reading, starts, lost, overlap, raced>>,
             colls' \in [Types -> Nat], file' \in [DOMAIN Kind -> Versions], jobs' \subseteq 1..Len(docs),
             left' \subseteq 1..Len(docs),
             events' \in {events, events + 1}, events' \in 0..MaxEvents
      PROVE  SourceInv'
  <2>0. starts' = starts /\ starts \in Nat /\ docs' = docs /\ Len(docs) \in Nat /\ remote' = remote
    BY <1>4, SyncNumbers
  <2>1. s' \in [Proc -> SyncTypes] /\ \A q \in Proc : Shape(q)'
    BY <1>4, <2>0, ShapesKept
  <2>2. TypeOK'
    BY <1>0, <1>4, <2>0, <2>1 DEF TypeOK
  <2>3. remote' <= events' + 1
    BY <1>4, <2>0, SyncNumbers
  <2> QED
    BY <2>1, <2>2, <2>3 DEF SourceInv
<1>5. ASSUME CreateCollection(p) PROVE SourceInv'
  <2>1. PICK r : /\ Turns(p, r) /\ SameSync(r, s[p])
                 /\ r.known = s[p].known /\ r.head = s[p].head /\ r.tree = s[p].tree
                 /\ SameWork(r, s[p]) /\ SamePlace(r, s[p])
                 /\ r.pc = After(s[p].type) /\ r.coll = colls[s[p].type] + 1
    BY <1>0, <1>5, CreateTurns
  <2>2. s'[p] = r /\ s[p].pc = "create" /\ s[p].type \in Types
    BY <1>0, <1>5, <2>1, TurnsOnlyOne, SyncNumbers DEF CreateCollection
  <2>3. Shape(p)'
    <3>1. starts' = starts /\ remote' = remote /\ docs' = docs
      BY <1>5 DEF CreateCollection, world, store
    <3> QED
      BY <1>0, <2>1, <2>2, <3>1 DEF Shape, Types, After, Entry, UnderWay, Undone, GithubSteps, PageSteps, Indexing, SameSync, SameWork, SameDocs,
           SamePlace
  <2>4. colls' \in [Types -> Nat]
    BY <1>1, <1>5, <2>2 DEF CreateCollection
  <2> QED
    BY <1>1, <1>4, <1>5, <2>1, <2>3, <2>4, SyncNumbers DEF CreateCollection, world, store, hist
<1>6. ASSUME Download(p) PROVE SourceInv'
  <2>1. PICK r : /\ Turns(p, r) /\ SameSync(r, s[p]) /\ SameWork(r, s[p]) /\ SamePlace(r, s[p])
                 /\ r.known = s[p].known /\ r.head = s[p].head /\ r.coll = s[p].coll
                 /\ r.pc = "index" /\ r.tree = remote
    BY <1>0, <1>6, DownloadTurns DEF Download
  <2>2. s'[p] = r /\ s[p].pc = "download" /\ starts' = starts /\ remote' = remote /\ docs' = docs
    BY <1>0, <1>6, <2>1, TurnsOnlyOne DEF Download, world, store
  <2>3. s[p].head \in 1..remote /\ s[p].type = "github" /\ s[p].known
    BY <1>0, <2>2 DEF Shape, GithubSteps, UnderWay
  <2>4. s[p].sent = {} /\ s[p].done = {} /\ s[p].pend = {} /\ s[p].fresh = <<>> /\ s[p].run <= starts
        /\ s[p].count < s[p].at /\ (s[p].at <= Len(Files) => Files[s[p].at] \in Sources)
    BY <1>0, <2>2 DEF Shape, Entry, Indexing
  <2>5. remote \in s[p].head .. remote
    BY <2>3, SyncNumbers
  <2>6. Shape(p)'
    BY <2>1, <2>2, <2>3, <2>4, <2>5, IndexingShape DEF SameSync, SameWork, SameDocs, SamePlace, Indexing
  <2> QED
    BY <1>1, <1>4, <1>6, <2>1, <2>6, SyncNumbers DEF Download, world, store, hist
\* At the files: what the sync keeps.
<1>7. s[p].pc \in Indexing =>
        /\ s[p].type = "github" /\ s[p].run <= starts /\ s[p].known /\ s[p].head \in 1..remote
        /\ s[p].tree \in s[p].head .. remote /\ s[p].pend \subseteq 1..Len(docs) /\ s[p].sent \subseteq 1..Len(docs)
        /\ s[p].count < s[p].at /\ (s[p].pc \in {"index", "flush"} => s[p].done = {})
  BY <1>0 DEF Shape, GithubSteps, Indexing, UnderWay
<1>8. ASSUME IndexFile(p) PROVE SourceInv'
  <2>0. /\ s[p].pc = "index" /\ s[p].at <= Len(Files)
        /\ UNCHANGED <<world, row, runs, colls, docs, jobs, reading, left, starts, events, hist>>
        /\ file' = [file EXCEPT ![Entry(p)] = s[p].tree]
    BY <1>8 DEF IndexFile, Full, More
  <2>1. \E pend \in SUBSET (1..Len(docs)), fresh \in Seq(DOMAIN Kind) :
          s' = [s EXCEPT ![p] = Indexes(p, pend, fresh)]
    <3>1. s[p].pend \subseteq 1..Len(docs) /\ Found(p) \subseteq 1..Len(docs)
      BY <1>7, <2>0 DEF Found, Indexing
    <3>2. s[p].fresh \in Seq(DOMAIN Kind) /\ Append(s[p].fresh, Entry(p)) \in Seq(DOMAIN Kind)
      BY <2>0, SyncNumbers, NextPlace, AppendProperties
    <3>3. CASE \E d \in Found(p) : s' = [s EXCEPT ![p] = Indexes(p, s[p].pend \cup {d}, s[p].fresh)]
      BY <3>1, <3>2, <3>3
    <3>4. CASE s' = [s EXCEPT ![p] = Indexes(p, s[p].pend, Append(s[p].fresh, Entry(p)))]
      BY <3>1, <3>2, <3>4
    <3> QED
      BY <1>8, <3>3, <3>4 DEF IndexFile
  <2>2. PICK pend \in SUBSET (1..Len(docs)), fresh \in Seq(DOMAIN Kind) :
          s' = [s EXCEPT ![p] = Indexes(p, pend, fresh)]
    BY <2>1
  <2>3. PICK r : Turns(p, r) /\ Indexed(r, s[p], pend, fresh)
    <3>1. pend \in SUBSET Nat /\ s[p].count < s[p].at
      BY <1>7, <2>0 DEF Indexing
    <3> QED
      BY <1>0, <2>0, <2>2, <3>1, IndexesTurns
  <2>4. s'[p] = r /\ starts' = starts /\ remote' = remote /\ docs' = docs
    BY <1>0, <2>0, <2>3, TurnsOnlyOne DEF world
  <2>5. r.count < r.at /\ (r.at <= Len(Files) => Files[r.at] \in Sources)
    BY <2>0, <2>3, NextPlace DEF Indexed
  <2>6. Shape(p)'
    BY <1>7, <2>0, <2>3, <2>4, <2>5, IndexingShape DEF Indexed, SameSync, SameHead, Indexing
  <2>7. file' \in [DOMAIN Kind -> Versions]
    BY <1>1, <2>0, SyncNumbers
  <2> QED
    BY <1>1, <1>4, <2>0, <2>3, <2>6, <2>7, SyncNumbers DEF world, hist
<1>9. ASSUME SkipFile(p) PROVE SourceInv'
  <2>0. /\ s[p].pc = "index" /\ s[p].at <= Len(Files)
        /\ s' = [s EXCEPT ![p].at = Upcoming(@ + 1)] /\ events' = events + 1 /\ events < MaxEvents
        /\ UNCHANGED <<world, row, runs, colls, store, starts, hist>>
    BY <1>9 DEF SkipFile, Full, More, Event
  <2>3. PICK r : /\ Turns(p, r) /\ SameSync(r, s[p]) /\ SameHead(r, s[p]) /\ SameWork(r, s[p])
                 /\ r.pc = s[p].pc /\ r.count = s[p].count /\ r.at = Upcoming(s[p].at + 1)
    BY <1>0, <2>0, SkipTurns
  <2>4. s'[p] = r /\ starts' = starts /\ remote' = remote /\ docs' = docs
    BY <1>0, <2>0, <2>3, TurnsOnlyOne DEF world, store
  <2>5. r.count < r.at /\ (r.at <= Len(Files) => Files[r.at] \in Sources)
    BY <2>0, <2>3, NextPlace
  <2>6. Shape(p)'
    BY <1>7, <2>0, <2>3, <2>4, <2>5, IndexingShape DEF SameSync, SameHead, SameWork, SameDocs, Indexing
  <2>7. events' \in 0..MaxEvents
    BY <2>0, SyncNumbers
  <2> QED
    BY <1>1, <1>4, <2>0, <2>3, <2>6, <2>7 DEF world, store, hist
<1>10. ASSUME DispatchAll(p) PROVE SourceInv'
  <2>1. PICK r : /\ Turns(p, r) /\ SameSync(r, s[p]) /\ SameHead(r, s[p])
                 /\ SameWork(r, s[p]) /\ SamePlace(r, s[p]) /\ r.pc = "finish"
    BY <1>0, <1>10, DispatchTurns
  <2>2. s'[p] = r /\ s[p].pc = "dispatch" /\ starts' = starts /\ remote' = remote /\ docs' = docs
        /\ Undone(p) = {}
    BY <1>0, <1>10, <2>1, TurnsOnlyOne DEF DispatchAll, Goes, world, store
  <2>3. s[p].pend = {} /\ s[p].fresh = <<>> /\ (s[p].at <= Len(Files) => Files[s[p].at] \in Sources)
    BY <1>0, <2>2 DEF Shape, Entry
  <2>4. Shape(p)'
    BY <1>7, <2>1, <2>2, <2>3, IndexingShape DEF SameSync, SameHead, SameWork, SameDocs, SamePlace, Indexing, Undone
  <2> QED
    BY <1>1, <1>4, <1>10, <2>1, <2>4, SyncNumbers DEF DispatchAll, world, store, hist
<1>11. ASSUME SendPage(p), s[p].at <= Len(Files) PROVE SourceInv'
  <2>0. /\ s[p].pc = "send" /\ s[p].type = "pages" /\ s[p].run # 0 /\ s[p].run <= starts /\ s[p].count < s[p].at
        /\ s[p].pend = {} /\ s[p].fresh = <<>> /\ s[p].sent \subseteq 1..Len(docs)
    BY <1>0, <1>11 DEF SendPage, Shape, PageSteps
  <2>1. PICK r : /\ Turns(p, r) /\ SameSync(r, s[p]) /\ SameHead(r, s[p]) /\ SameDocs(r, s[p])
                 /\ r.done = r.sent /\ r.pc = "page" /\ r.at = Upcoming(s[p].at + 1) /\ r.count = s[p].count + 1
    BY <1>0, <1>11, <2>0, SendPageTurns
  <2>2. s'[p] = r /\ starts' = starts /\ remote' = remote /\ docs' = docs
    BY <1>0, <1>11, <2>1, TurnsOnlyOne DEF SendPage, world
  <2>3. r.count < r.at /\ (r.at <= Len(Files) => Files[r.at] \in Sources)
    BY <1>11, <2>1, NextPlace
  <2>4. Shape(p)'
    BY <2>0, <2>1, <2>2, <2>3, PagingShape DEF SameSync, SameDocs, Undone
  <2>5. left' \subseteq 1..Len(docs)
    BY <1>1, <1>11, <2>0 DEF SendPage, Undone
  <2> QED
    BY <1>1, <1>4, <1>11, <2>1, <2>4, <2>5, SyncNumbers DEF SendPage, world, hist
<1>12. SendPage(p) => s[p].at <= Len(Files)
  BY <1>0 DEF Shape, SendPage
<1> QED
  BY <1>5, <1>6, <1>8, <1>9, <1>10, <1>11, <1>12

\* A sync ends, whatever it can record of that.
LEMMA EndSource ==
    ASSUME SourceInv, NEW p \in Proc
    PROVE  /\ (ReadHead(p) /\ s[p].known /\ s[p].sha = remote) => SourceInv'
           /\ (Announce(p) /\ Lost(p) /\ row' = row) => SourceInv'
           /\ Finish(p) => SourceInv'
           /\ SyncFails(p) => SourceInv'
           /\ DispatchFails(p) => SourceInv'
           /\ PagesDone(p) => SourceInv'
           /\ PagesFail(p) => SourceInv'
           /\ Break(p) => SourceInv'
<1>0. TypeOK /\ lost \in BOOLEAN /\ left \subseteq 1..Len(docs) /\ Undone(p) \subseteq 1..Len(docs)
  BY SyncNumbers DEF TypeOK, Shape, Undone
<1>1. ASSUME Turns(p, Idle), UNCHANGED <<world, colls, docs, file, jobs, reading, starts, overlap, raced>>,
             left' \in {left, left \cup Undone(p)},
             runs' \in [1..MaxStarts -> RunTypes], row' \in RowTypes, lost' \in BOOLEAN,
             events' \in {events, events + 1}, events' \in 0..MaxEvents
      PROVE  SourceInv'
  <2>1. s' \in [Proc -> SyncTypes] /\ \A q \in Proc : Shape(q)'
    BY <1>1, EndedShapes DEF world
  <2>2. TypeOK'
    BY <1>0, <1>1, <2>1 DEF TypeOK, world
  <2>3. remote' <= events' + 1
    BY <1>1, SyncNumbers DEF world
  <2> QED
    BY <2>1, <2>2, <2>3 DEF SourceInv
<1>2. runs \in [1..MaxStarts -> RunTypes] /\ row \in RowTypes /\ events \in 0..MaxEvents
  BY <1>0 DEF TypeOK
<1>3. ASSUME ReadHead(p), s[p].known, s[p].sha = remote PROVE SourceInv'
  <2>1. Recorded(p, "complete") /\ UNCHANGED <<world, row, colls, store, starts, events, lost, overlap, raced>>
    BY <1>3 DEF ReadHead, Returns
  <2>2. RunsSettled(p, "complete") /\ Turns(p, Idle)
    BY <1>0, <2>1, RecordedRuns
  <2> QED
    BY <1>0, <1>1, <1>2, <2>1, <2>2 DEF RunsSettled, store
<1>4. ASSUME Announce(p), Lost(p), row' = row PROVE SourceInv'
  <2>1. Turns(p, Idle) /\ runs' = runs /\ lost' = (lost \/ s[p].run # 0)
        /\ UNCHANGED <<world, colls, store, starts, events, overlap, raced>>
    BY <1>0, <1>4, EndsTurns DEF Lost, Announce
  <2> QED
    BY <1>0, <1>1, <1>2, <1>4, <2>1 DEF store
<1>5. ASSUME MarkFailed(p), UNCHANGED <<world, colls, docs, file, jobs, reading, starts, overlap, raced>>,
             left' \in {left, left \cup Undone(p)},
             events' \in {events, events + 1}, events' \in 0..MaxEvents
      PROVE  SourceInv'
  BY <1>0, <1>1, <1>5, FailureMarked
<1>6. ASSUME Finish(p) PROVE SourceInv'
  <2>0. UNCHANGED <<world, colls, store, starts, events, overlap, raced>>
    BY <1>6 DEF Finish
  <2>1. CASE MarkFailed(p)
    BY <1>2, <1>5, <2>0, <2>1 DEF store
  <2>2. CASE /\ row' = [row EXCEPT !.status = "complete", !.sha = s[p].head, !.files = s[p].count]
             /\ Returns(p) /\ UNCHANGED lost
    <3>1. RunsSettled(p, "complete") /\ Turns(p, Idle)
      BY <1>0, <2>2, RecordedRuns DEF Returns
    <3>2. s[p].head \in Versions /\ s[p].count \in 0..Len(Files)
      BY SyncNumbers DEF SyncTypes
    <3>3. row' \in RowTypes
      BY <1>2, <2>2, <3>2 DEF RowTypes
    <3> QED
      BY <1>0, <1>1, <1>2, <2>0, <2>2, <3>1, <3>3 DEF RunsSettled, store
  <2> QED
    BY <1>6, <2>1, <2>2 DEF Finish
<1>7. ASSUME SyncFails(p) PROVE SourceInv'
  <2>1. /\ MarkFailed(p) /\ UNCHANGED <<world, colls, store, starts, overlap, raced>>
        /\ events' \in {events, events + 1} /\ (events' = events \/ events < MaxEvents)
    BY <1>7 DEF SyncFails, Event
  <2>2. events' \in 0..MaxEvents
    BY <1>2, <2>1, LimitAssumption
  <2> QED
    BY <1>5, <2>1, <2>2 DEF store
<1>8. ASSUME PagesDone(p) PROVE SourceInv'
  <2>1. Recorded(p, "complete") /\ UNCHANGED <<world, row, colls, store, starts, events, hist>>
    BY <1>8 DEF PagesDone, Returns
  <2>2. RunsSettled(p, "complete") /\ Turns(p, Idle)
    BY <1>0, <2>1, RecordedRuns
  <2> QED
    BY <1>0, <1>1, <1>2, <2>1, <2>2 DEF RunsSettled, hist, store
<1>9. ASSUME PagesFail(p) PROVE SourceInv'
  <2>1. /\ Recorded(p, "failed") /\ UNCHANGED <<world, row, colls, store, starts, hist>>
        /\ events' = events + 1 /\ events < MaxEvents
    BY <1>9 DEF PagesFail, Raises, Event
  <2>2. RunsSettled(p, "failed") /\ Turns(p, Idle)
    BY <1>0, <2>1, RecordedRuns
  <2>3. events' \in 0..MaxEvents
    BY <1>2, <2>1, LimitAssumption
  <2> QED
    BY <1>0, <1>1, <1>2, <2>1, <2>2, <2>3 DEF RunsSettled, hist, store
<1>10. ASSUME Break(p) PROVE SourceInv'
  <2>1. /\ Ends(p) /\ lost' = TRUE /\ left' = left \cup Undone(p)
        /\ UNCHANGED <<world, row, runs, colls, docs, file, jobs, reading, starts, overlap, raced>>
        /\ events' = events + 1 /\ events < MaxEvents
    BY <1>10 DEF Break, Event
  <2>2. Turns(p, Idle)
    BY <1>0, <2>1, EndsTurns
  <2>3. events' \in 0..MaxEvents
    BY <1>2, <2>1, LimitAssumption
  <2> QED
    BY <1>0, <1>1, <1>2, <2>1, <2>2, <2>3
<1>11. ASSUME DispatchFails(p) PROVE SourceInv'
  <2>1. /\ left' = left \cup Undone(p)
        /\ UNCHANGED <<world, colls, docs, file, jobs, reading, starts, overlap, raced>>
        /\ events' = events + 1 /\ events < MaxEvents
    BY <1>11 DEF DispatchFails, Event
  <2>2. events' \in 0..MaxEvents
    BY <1>2, <2>1, LimitAssumption
  <2>3. CASE MarkFailed(p)
    BY <1>5, <2>1, <2>2, <2>3
  <2>4. CASE Raises(p) /\ UNCHANGED <<row, lost>>
    <3>1. RunsSettled(p, "failed") /\ Turns(p, Idle)
      BY <1>0, <2>4, RecordedRuns DEF Raises
    <3> QED
      BY <1>0, <1>1, <1>2, <2>1, <2>2, <2>4, <3>1 DEF RunsSettled
  <2> QED
    BY <1>11, <2>3, <2>4 DEF DispatchFails
<1> QED
  BY <1>3, <1>4, <1>6, <1>7, <1>8, <1>9, <1>10, <1>11

\* The first calls of a sync, and its announcement in the row.
LEMMA CallSource ==
    ASSUME SourceInv, NEW p \in Proc
    PROVE  /\ ReadHead(p) => SourceInv'
           /\ ListPages(p) => SourceInv'
           /\ Announce(p) => SourceInv'
<1>0. TypeOK /\ Shape(p) /\ s[p] \in SyncTypes /\ s[p].type \in Types
      /\ (Meets(p) => overlap' \in BOOLEAN)
  BY SyncNumbers DEF TypeOK, Meets
<1>1. ASSUME NEW r, Turns(p, r), Shape(p)', UNCHANGED <<world, colls, store, starts, events, raced>>,
             runs' \in [1..MaxStarts -> RunTypes], row' \in RowTypes, lost' \in BOOLEAN, overlap' \in BOOLEAN
      PROVE  SourceInv'
  <2>0. starts' = starts /\ starts \in Nat /\ docs' = docs /\ Len(docs) \in Nat /\ remote' = remote
        /\ starts <= starts' /\ Len(docs) <= Len(docs')
    BY <1>1, SyncNumbers DEF world, store
  <2>1. s' \in [Proc -> SyncTypes] /\ \A q \in Proc : Shape(q)'
    BY <1>1, <2>0, ShapesKept
  <2>2. TypeOK'
    BY <1>0, <1>1, <2>1, SyncNumbers DEF TypeOK, world, store
  <2>3. remote' <= events' + 1
    BY <1>1, <2>0, SyncNumbers
  <2> QED
    BY <2>1, <2>2, <2>3 DEF SourceInv
<1>2. runs \in [1..MaxStarts -> RunTypes] /\ row \in RowTypes /\ lost \in BOOLEAN /\ conn \in Connections
      /\ overlap \in BOOLEAN
  BY SyncNumbers DEF TypeOK
<1>3. ASSUME ReadHead(p), ~ (s[p].known /\ s[p].sha = remote) PROVE SourceInv'
  <2> DEFINE new == [s[p] EXCEPT !.head = remote]
  <2>1. /\ FindCollection(p, new) /\ Meets(p) /\ runs' = runs /\ s[p].pc = "head"
        /\ UNCHANGED <<world, row, colls, store, starts, events, lost, raced>>
    BY <1>3 DEF ReadHead
  <2>2. new \in SyncTypes
    <3>1. remote \in Versions
      BY SyncNumbers
    <3> QED
      BY <1>0, <3>1, SyncNumbers, ZenonT(60) DEF SyncTypes
  <2>3. SameSync(new, s[p]) /\ new.known = s[p].known /\ new.head = remote
        /\ SameWork(new, s[p]) /\ SamePlace(new, s[p])
    BY <1>0, SyncNumbers DEF SyncTypes, SameSync, SameWork, SameDocs, SamePlace
  <2> HIDE DEF new
  <2>4. PICK r : /\ Turns(p, r) /\ SameSync(r, new)
                  /\ r.known = new.known /\ r.head = new.head /\ r.tree = new.tree
                  /\ SameWork(r, new) /\ SamePlace(r, new)
                  /\ \/ colls[s[p].type] = 0 /\ r.pc = "create"
                     \/ r.coll \in 1..colls[s[p].type] /\ r.pc = After(s[p].type)
    <3>1. TypeOK
      BY SyncNumbers
    <3> QED
      BY <2>1, <2>2, <3>1, FindTurns
  <2>5. s'[p] = r /\ r.pc \in {"create", "announce"} /\ s[p].type = "github" /\ remote' = remote /\ starts' = starts
        /\ docs' = docs /\ s[p].sent = {} /\ s[p].done = {} /\ s[p].pend = {} /\ s[p].fresh = <<>> /\ s[p].run <= starts
        /\ s[p].count = 0
        /\ s[p].count < s[p].at /\ (s[p].at <= Len(Files) => Files[s[p].at] \in Sources)
    BY <2>1, <2>4, TurnsOnlyOne, SyncNumbers DEF After, Shape, GithubSteps, Entry, world, store, Indexing
  <2>6. remote \in 1..remote
    BY SyncNumbers
  <2>7. Shape(p)'
    BY <2>3, <2>4, <2>5, <2>6 DEF SameSync, SameWork, SameDocs, SamePlace, Shape, GithubSteps, PageSteps, Indexing, Entry,
       UnderWay, Undone
  <2> QED
    BY <1>0, <1>1, <1>2, <2>1, <2>4, <2>7
<1>4. ASSUME ListPages(p) PROVE SourceInv'
  <2>1. /\ FindCollection(p, s[p]) /\ Meets(p) /\ s[p].pc = "list"
        /\ runs' = [runs EXCEPT ![s[p].run].head = remote]
        /\ UNCHANGED <<world, row, colls, store, starts, events, lost, raced>>
    BY <1>4 DEF ListPages
  <2>2. PICK r : /\ Turns(p, r) /\ SameSync(r, s[p])
                  /\ r.known = s[p].known /\ r.head = s[p].head /\ r.tree = s[p].tree
                  /\ SameWork(r, s[p]) /\ SamePlace(r, s[p])
                  /\ \/ colls[s[p].type] = 0 /\ r.pc = "create"
                     \/ r.coll \in 1..colls[s[p].type] /\ r.pc = After(s[p].type)
    <3>1. TypeOK /\ s[p] \in SyncTypes
      BY SyncNumbers
    <3> QED
      BY <2>1, <3>1, FindTurns
  <2>3. s'[p] = r /\ r.pc \in {"create", "page"} /\ s[p].type = "pages" /\ remote' = remote /\ starts' = starts
        /\ docs' = docs /\ s[p].sent = {} /\ s[p].done = {} /\ s[p].pend = {} /\ s[p].fresh = <<>> /\ s[p].run <= starts
        /\ s[p].count = 0 /\ s[p].run # 0
        /\ s[p].count < s[p].at /\ (s[p].at <= Len(Files) => Files[s[p].at] \in Sources)
    BY <2>1, <2>2, TurnsOnlyOne, SyncNumbers DEF After, Shape, PageSteps, Entry, world, store, Indexing
  <2>4. Shape(p)'
    BY <2>2, <2>3 DEF SameSync, SameWork, SameDocs, SamePlace, Shape, GithubSteps, PageSteps, Indexing, Entry,
       UnderWay, Undone
  <2>5. runs' \in [1..MaxStarts -> RunTypes]
    <3>1. remote \in Versions /\ s[p].run \in 1..MaxStarts
      BY <2>3, SyncNumbers
    <3>2. [runs[s[p].run] EXCEPT !.head = remote] \in RunTypes
      BY <1>2, <3>1 DEF RunTypes
    <3>3. runs' = [runs EXCEPT ![s[p].run] = [runs[s[p].run] EXCEPT !.head = remote]]
      BY <2>1
    <3> QED
      BY <1>2, <3>1, <3>2, <3>3
  <2> QED
    BY <1>0, <1>1, <1>2, <2>1, <2>2, <2>4, <2>5
<1>5. ASSUME Announce(p) PROVE SourceInv'
  <2>1. CASE Lost(p) /\ row' = row
    BY <1>5, <2>1, EndSource
  <2>2. CASE /\ row' = IF s[p].known THEN [row EXCEPT !.status = "running"]
                        ELSE [NoRow EXCEPT !.conn = conn, !.status = "running"]
             /\ s' = [s EXCEPT ![p].pc = "download", ![p].known = TRUE]
             /\ UNCHANGED <<runs, lost>>
    <3>1. PICK r : /\ Turns(p, r) /\ SameSync(r, s[p]) /\ SameWork(r, s[p]) /\ SamePlace(r, s[p])
                  /\ r.head = s[p].head /\ r.tree = s[p].tree /\ r.coll = s[p].coll
                  /\ r.pc = "download" /\ r.known = TRUE
      <4>1. TypeOK
        BY SyncNumbers
      <4> QED
        BY <2>2, <4>1, AnnounceTurns
    <3>2. s'[p] = r /\ s[p].pc = "announce" /\ starts' = starts /\ remote' = remote /\ docs' = docs
          /\ UNCHANGED <<world, colls, store, starts, events, overlap, raced>>
      BY <1>5, <3>1, TurnsOnlyOne, SyncNumbers DEF Announce, world, store
    <3>3. s[p].head \in 1..remote /\ s[p].type = "github" /\ s[p].pend = {} /\ s[p].fresh = <<>>
          /\ s[p].sent = {} /\ s[p].done = {} /\ s[p].count = 0 /\ s[p].run <= starts
          /\ s[p].count < s[p].at /\ (s[p].at <= Len(Files) => Files[s[p].at] \in Sources)
      BY <3>2, SyncNumbers DEF Shape, GithubSteps, Indexing, UnderWay, Entry
    <3>4. Shape(p)'
      BY <3>1, <3>2, <3>3 DEF SameSync, SameWork, SameDocs, SamePlace, Shape, GithubSteps, PageSteps, Indexing, Entry,
         UnderWay, Undone
    <3>5. row' \in RowTypes
      <4>1. NoRow \in RowTypes
        BY FilesAreMembers, SyncNumbers DEF NoRow, RowTypes, Connections, Versions
      <4> QED
        BY <1>2, <2>2, <4>1 DEF RowTypes
    <3> QED
      BY <1>1, <1>2, <2>2, <3>1, <3>2, <3>4, <3>5
  <2> QED
    BY <1>5, <2>1, <2>2 DEF Announce
<1> QED
  BY <1>3, <1>4, <1>5, EndSource

\* The steps that write records.
LEMMA RecordSource ==
    ASSUME SourceInv
    PROVE  /\ \A p \in Proc : Flush(p) => SourceInv'
           /\ \A p \in Proc : IndexPage(p) => SourceInv'
           /\ \A p \in Proc : Dispatches(p) => SourceInv'
           /\ Ingest => SourceInv'
<1>0. /\ TypeOK /\ Len(docs) \in Nat /\ jobs \subseteq 1..Len(docs) /\ left \subseteq 1..Len(docs)
      /\ file \in [DOMAIN Kind -> Versions]
      /\ raced \in BOOLEAN /\ starts \in Nat /\ remote \in Nat /\ remote <= events + 1
      /\ events \in 0..MaxEvents /\ MaxEvents \in Nat
  <2>1. TypeOK /\ remote <= events + 1 /\ MaxEvents \in Nat /\ MaxStarts \in Nat
    BY LimitAssumption DEF SourceInv
  <2>2. /\ jobs \subseteq 1..Len(docs) /\ left \subseteq 1..Len(docs) /\ file \in [DOMAIN Kind -> Versions]
        /\ raced \in BOOLEAN /\ starts \in 0..MaxStarts /\ remote \in Versions \ {0} /\ events \in 0..MaxEvents
    BY <2>1 DEF TypeOK
  <2>3. Len(docs) \in Nat /\ starts \in Nat /\ remote \in Nat
    BY <2>1, <2>2, RecordTypes DEF Versions
  <2> QED
    BY <2>1, <2>2, <2>3
<1>1. ASSUME RecordsTyped, Len(docs) <= Len(docs'), jobs' \subseteq 1..Len(docs), file' \in [DOMAIN Kind -> Versions],
             left' \subseteq 1..Len(docs), events' \in {events, events + 1}, events' \in 0..MaxEvents,
             UNCHANGED <<world, row, runs, colls, starts, lost, overlap>>, raced' \in BOOLEAN,
             s' \in [Proc -> SyncTypes], \A q \in Proc : Shape(q)'
      PROVE  SourceInv'
  <2>1. 1..Len(docs) \subseteq 1..Len(docs')
    <3>1. Len(docs') \in Nat
      BY <1>1, LenProperties DEF RecordsTyped
    <3> QED
      BY <1>0, <1>1, <3>1
  <2>2. TypeOK'
    BY <1>0, <1>1, <2>1 DEF TypeOK, RecordsTyped, world
  <2>3. remote' <= events' + 1
    <3>1. remote' = remote /\ events \in Nat /\ (events' = events \/ events' = events + 1)
      BY <1>0, <1>1 DEF world
    <3> QED
      BY <1>0, <3>1
  <2> QED
    BY <1>1, <2>2, <2>3 DEF SourceInv
<1>2. ASSUME NEW p \in Proc, Flush(p) PROVE SourceInv'
  <2>1. /\ RecordsTyped /\ Len(docs') = Len(docs) + Len(s[p].fresh)
    BY <1>0, <1>2, FlushRecords
  <2>2. PICK r : /\ Turns(p, r) /\ SameSync(r, s[p]) /\ SameHead(r, s[p]) /\ SamePlace(r, s[p])
                 /\ r.pend = {} /\ r.fresh = <<>> /\ r.sent = Sent(p) /\ r.done = {}
                 /\ r.pc = IF s[p].pc = "flush" THEN "index" ELSE "dispatch"
    <3>1. s[p].done = {}
      BY <1>2, SyncNumbers DEF Flush, Shape
    <3> QED
      BY <1>0, <1>2, <3>1, FlushTurns
  <2>3. /\ s'[p] = r /\ s[p].pc \in {"index", "flush"}
        /\ UNCHANGED <<world, row, runs, colls, file, jobs, left, starts, events, hist>>
    BY <1>0, <1>2, <2>2, TurnsOnlyOne DEF Flush
  <2>4. /\ s[p].type = "github" /\ s[p].run <= starts /\ s[p].known /\ s[p].head \in 1..remote
        /\ s[p].tree \in s[p].head .. remote /\ s[p].pend \subseteq 1..Len(docs) /\ s[p].sent \subseteq 1..Len(docs)
        /\ s[p].count < s[p].at /\ (s[p].at <= Len(Files) => Files[s[p].at] \in Sources)
    BY <2>3, SyncNumbers DEF Shape, GithubSteps, Indexing, UnderWay, Entry
  <2>5. Len(docs) <= Len(docs') /\ Sent(p) \subseteq 1..Len(docs')
    <3>1. Len(s[p].fresh) \in Nat
      BY SyncNumbers
    <3> QED
      BY <1>0, <2>1, <2>4, <3>1 DEF Sent
  <2>6. Shape(p)'
    BY <2>2, <2>3, <2>4, <2>5, IndexingShape DEF SameSync, SameHead, SamePlace, Indexing, world
  <2>7. s' \in [Proc -> SyncTypes] /\ \A q \in Proc : Shape(q)'
    <3>1. Len(docs') \in Nat
      BY <1>0, <2>1, SyncNumbers
    <3> QED
      BY <1>0, <2>2, <2>3, <2>5, <2>6, <3>1, ShapesKept DEF world
  <2> QED
    BY <1>0, <1>1, <2>1, <2>3, <2>5, <2>7 DEF hist
<1>3. ASSUME NEW p \in Proc, IndexPage(p) PROVE SourceInv'
  <2>0. /\ s[p].pc = "page" /\ s[p].at <= Len(Files)
        /\ UNCHANGED <<world, row, runs, colls, file, jobs, left, starts, events, hist>>
    BY <1>3 DEF IndexPage, More
  <2>1. PICK d \in 1..Len(docs') :
             /\ RecordsTyped /\ Sends(p, d)
             /\ \/ d \in Found(p) /\ docs[d].temp # 0 /\ Len(docs') = Len(docs)
                \/ d = Len(docs) + 1 /\ Len(docs') = d
    BY <1>0, <1>3, <2>0, PageRecords
  <2>2. d \in Nat /\ Len(docs) <= Len(docs') /\ Len(docs') \in Nat
    BY <1>0, <2>1
  <2>3. PICK r : /\ Turns(p, r) /\ SameSync(r, s[p]) /\ SameHead(r, s[p]) /\ SamePlace(r, s[p])
                  /\ r.pend = s[p].pend /\ r.fresh = s[p].fresh /\ r.sent = {d} /\ r.done = {} /\ r.pc = "send"
    <3>1. TypeOK /\ d \in Nat /\ Sends(p, d)
      BY <1>0, <2>1, <2>2
    <3> QED
      BY <3>1, SendsTurns
  <2>4. s'[p] = r /\ starts' = starts /\ remote' = remote
    BY <1>0, <2>0, <2>3, TurnsOnlyOne DEF world
  <2>5. /\ s[p].type = "pages" /\ s[p].run # 0 /\ s[p].run <= starts /\ s[p].count < s[p].at
        /\ s[p].pend = {} /\ s[p].fresh = <<>> /\ (s[p].at <= Len(Files) => Files[s[p].at] \in Sources)
    BY <2>0, SyncNumbers DEF Shape, PageSteps, Entry
  <2>6. Shape(p)'
    BY <2>0, <2>1, <2>3, <2>4, <2>5, PagingShape DEF SameSync, SamePlace
  <2>7. s' \in [Proc -> SyncTypes] /\ \A q \in Proc : Shape(q)'
    BY <1>0, <2>2, <2>3, <2>4, <2>6, ShapesKept
  <2> QED
    BY <1>0, <1>1, <2>0, <2>1, <2>2, <2>7 DEF hist
\* The steps that leave the syncs alone.
<1>4. ASSUME RecordsTyped, Len(docs') = Len(docs), s' = s, jobs' \subseteq 1..Len(docs),
             file' \in [DOMAIN Kind -> Versions], left' \subseteq 1..Len(docs),
             events' \in {events, events + 1}, events' \in 0..MaxEvents,
             UNCHANGED <<world, row, runs, colls, starts, lost, overlap>>, raced' \in BOOLEAN
      PROVE  SourceInv'
  <2>1. ASSUME NEW q \in Proc PROVE Shape(q)'
    <3>1. Shape(q) /\ s'[q] = s[q] /\ starts <= starts' /\ remote <= remote' /\ Len(docs) <= Len(docs')
          /\ starts' \in Nat /\ remote' \in Nat /\ Len(docs') \in Nat
      BY <1>0, <1>4 DEF SourceInv, world
    <3> QED
      BY <1>0, <3>1, ShapeStays
  <2>2. s' \in [Proc -> SyncTypes] /\ Len(docs) <= Len(docs')
    BY <1>0, <1>4 DEF TypeOK
  <2> QED
    BY <1>1, <1>4, <2>1, <2>2
<1>5. ASSUME NEW d \in 1..Len(docs), NEW v, Cleans(d, v)
      PROVE  raced' \in BOOLEAN /\ file' \in [DOMAIN Kind -> Versions]
  <2>1. 0 \in Versions
    BY LimitAssumption DEF Versions
  <2> QED
    BY <1>0, <1>5, <2>1 DEF Cleans
<1>6. ASSUME NEW d \in 1..Len(docs), IngestBegin(d) PROVE SourceInv'
  <2>1. RecordsTyped /\ Len(docs') = Len(docs)
    BY <1>0, <1>6, BeginRecords
  <2>2. /\ UNCHANGED <<world, row, runs, colls, file, s, starts, events, hist>>
        /\ jobs' \subseteq 1..Len(docs) /\ left' \subseteq 1..Len(docs)
    BY <1>0, <1>6 DEF IngestBegin
  <2> QED
    BY <1>0, <1>4, <2>1, <2>2 DEF hist
<1>7. ASSUME NEW d \in 1..Len(docs), IngestEnd(d) PROVE SourceInv'
  <2>1. PICK v \in reading[d] : RecordsTyped /\ Len(docs') = Len(docs) /\ Cleans(d, v)
    BY <1>0, <1>7, EndRecords
  <2>2. /\ UNCHANGED <<world, row, runs, colls, jobs, s, starts, events, lost, overlap>>
        /\ left' \subseteq 1..Len(docs)
    BY <1>0, <1>7 DEF IngestEnd
  <2> QED
    BY <1>0, <1>4, <1>5, <2>1, <2>2
<1>8. ASSUME NEW d \in 1..Len(docs), IngestFails(d) PROVE SourceInv'
  <2>1. PICK v \in reading[d] : RecordsTyped /\ Len(docs') = Len(docs)
                                 /\ (Cleans(d, v) \/ UNCHANGED <<file, raced>>)
    BY <1>0, <1>8, FailRecords
  <2>2. /\ UNCHANGED <<world, row, runs, colls, s, starts, lost, overlap>>
        /\ jobs' \subseteq 1..Len(docs) /\ left' \subseteq 1..Len(docs) /\ events < MaxEvents
        /\ events' = events + 1
    BY <1>0, <1>8 DEF IngestFails, Event
  <2>3. events' \in 0..MaxEvents
    BY <1>0, <2>2, LimitAssumption
  <2>4. raced' \in BOOLEAN /\ file' \in [DOMAIN Kind -> Versions]
    BY <1>0, <1>5, <2>1
  <2> QED
    BY <1>4, <2>1, <2>2, <2>3, <2>4
<1>9. ASSUME NEW d \in 1..Len(docs), ThreadDies(d) PROVE SourceInv'
  <2>1. /\ UNCHANGED <<world, row, runs, colls, docs, file, reading, s, starts, hist>>
        /\ jobs' \subseteq 1..Len(docs) /\ left' \subseteq 1..Len(docs) /\ events < MaxEvents
        /\ events' = events + 1
    BY <1>0, <1>9 DEF ThreadDies, Event
  <2>2. events' \in 0..MaxEvents
    BY <1>0, <2>1, LimitAssumption
  <2>3. RecordsTyped /\ Len(docs') = Len(docs)
    BY <1>0, <2>1 DEF RecordsTyped, TypeOK
  <2> QED
    BY <1>0, <1>4, <2>1, <2>2, <2>3 DEF hist
<1>10. ASSUME NEW p \in Proc, Dispatches(p) PROVE SourceInv'
  <2>1. /\ RecordsTyped /\ Len(docs') = Len(docs)
        /\ UNCHANGED <<world, row, runs, colls, file, reading, starts, events, hist>>
    BY <1>0, <1>10, DispatchesRecords
  <2>2. PICK r : /\ Turns(p, r) /\ SameSync(r, s[p]) /\ SameHead(r, s[p])
                 /\ SameDocs(r, s[p]) /\ SamePlace(r, s[p]) /\ r.pc = s[p].pc
    BY <1>0, <1>10, DispatchesTurns
  <2>3. /\ s'[p] = r /\ s[p].pc \in {"dispatch", "send"} /\ Shape(p) /\ starts' = starts /\ remote' = remote
        /\ Undone(p) \subseteq 1..Len(docs) /\ s[p].sent \subseteq 1..Len(docs)
    <3>1. s[p].pc \in {"dispatch", "send"}
      BY <1>10 DEF Dispatches, StartThreads, Enqueue, MarkQueued, Dispatching
    <3>2. s'[p] = r /\ starts' = starts /\ remote' = remote
      BY <1>0, <2>1, <2>2, TurnsOnlyOne DEF world
    <3>3. Shape(p)
      BY SyncNumbers
    <3>4. s[p].sent \subseteq 1..Len(docs)
      BY <3>3 DEF Shape
    <3> QED
      BY <3>1, <3>2, <3>3, <3>4 DEF Undone
  <2>4. Shape(p)'
    BY <2>1, <2>2, <2>3 DEF Shape, Entry, UnderWay, GithubSteps, PageSteps, Indexing, SameSync, SameHead, SameDocs,
       SamePlace
  <2>5. s' \in [Proc -> SyncTypes] /\ \A q \in Proc : Shape(q)'
    BY <1>0, <2>1, <2>2, <2>3, <2>4, ShapesKept
  <2>6. jobs' \subseteq 1..Len(docs) /\ left' \subseteq 1..Len(docs)
    BY <1>0, <1>10, <2>3 DEF Dispatches, StartThreads, Enqueue, MarkQueued
  <2> QED
    BY <1>0, <1>1, <2>1, <2>5, <2>6 DEF hist
<1> QED
  BY <1>2, <1>3, <1>6, <1>7, <1>8, <1>9, <1>10 DEF Ingest

\* Every step keeps types and shapes.
LEMMA SourceStep == SourceInv /\ [Next]_vars => SourceInv'
<1> SUFFICES ASSUME SourceInv, [Next]_vars PROVE SourceInv'
  OBVIOUS
<1>1. CASE UNCHANGED vars
  BY <1>1 DEF vars, world, store, hist, SourceInv, TypeOK, Shape, Entry, UnderWay, Undone
<1>2. CASE Push \/ User
  BY <1>2, WorldSource
<1>3. CASE Ingest
  BY <1>3, RecordSource
<1>4. ASSUME NEW p \in Proc, Starts(p) PROVE SourceInv'
  BY <1>4, StartSource
<1>5. ASSUME NEW p \in Proc, SyncStep(p) PROVE SourceInv'
  BY <1>5, SyncSource, CallSource, EndSource, RecordSource DEF SyncStep, Dispatches
<1>6. ASSUME NEW p \in Proc, SyncError(p) PROVE SourceInv'
  BY <1>6, SyncSource, EndSource DEF SyncError
<1> QED
  BY <1>1, <1>2, <1>3, <1>4, <1>5, <1>6 DEF Next

\* Every reachable state is type correct, and every sync holds what its step
\* needs.
THEOREM SourceInvariant == Spec => []SourceInv
  BY SourceInit, SourceStep, PTL DEF Spec

-----------------------------------------------------------------------------
(* What the row and the runs say of syncs *)

IsAtRow(p) == Syncing(p) /\ s[p].type = "github" /\ RowHere(p)

\* A step of p in which runs change as p's own run may, or go with their
\* connection; the row says that it runs only of a sync that does.
RunsMove(p) ==
    /\ \A q \in Proc : q # p => s'[q] = s[q]
    /\ s'[p].run \in {0, s[p].run} /\ (s'[p].run # 0 => s'[p].type = s[p].type)
    /\ \A r \in 1..MaxStarts :
         /\ runs'[r].type = runs[r].type
         /\ \/ runs'[r].status = runs[r].status
            \/ /\ runs[r].status = "running" /\ runs'[r].status # "running"
               /\ runs'[r].status = "gone" \/ (r = s[p].run /\ s'[p].run = 0)
    /\ s'[p].run = 0 /\ s[p].run # 0 => lost' \/ runs'[s[p].run].status # "running"
RowMoves(p) ==
    /\ lost => lost'
    /\ row'.status = "running" =>
         \/ lost' \/ IsAtRow(p)'
         \/ row' = row /\ ~ IsAtRow(p)

\* A step that settles or leaves its own run and row keeps what runs say.
LEMMA RunsKept ==
    ASSUME SourceInv, RunInv, NEW p \in Proc, RunsMove(p), RowMoves(p), DOMAIN runs' = DOMAIN runs
    PROVE  RunInv'
<1>1. DOMAIN runs = 1..MaxStarts /\ lost \in BOOLEAN
  BY DEF SourceInv, TypeOK
<1>2. \A q \in Proc : s[q].run \in 0..MaxStarts
  BY SyncNumbers
<1>3. ASSUME NEW q \in Proc PROVE RunHeld(q)'
  <2>1. CASE s'[q].run = 0
    BY <2>1 DEF RunHeld
  <2>2. CASE s'[q].run # 0
    <3>1. s'[q].run = s[q].run /\ s'[q].type = s[q].type /\ s[q].run \in 1..MaxStarts /\ RunHeld(q)
      BY <1>2, <2>2 DEF RunsMove, RunInv
    <3>2. \A o \in Proc \ {q} : s'[o].run # s[q].run
      BY <1>2, <3>1 DEF RunsMove, RunHeld
    <3>3. runs[s[q].run].type = s[q].type /\ runs[s[q].run].status \in {"running", "gone"}
      BY <3>1 DEF RunHeld
    <3>4. q # p => s[p].run # s[q].run
      BY <3>1 DEF RunHeld
    <3>5. runs'[s[q].run].type = s[q].type /\ runs'[s[q].run].status \in {"running", "gone"}
      BY <2>2, <3>1, <3>3, <3>4 DEF RunsMove
    <3> QED
      BY <3>1, <3>2, <3>5 DEF RunHeld
  <2> QED
    BY <2>1, <2>2
<1>4. ASSUME ~ lost', row'.status = "running"
      PROVE  \E q \in Proc : Syncing(q)' /\ s'[q].type = "github" /\ RowHere(q)'
  <2>1. ~ lost
    BY <1>4 DEF RowMoves
  <2>2. CASE IsAtRow(p)'
    BY <2>2 DEF IsAtRow
  <2>3. CASE row' = row /\ ~ IsAtRow(p)
    <3>1. PICK q \in Proc : Syncing(q) /\ s[q].type = "github" /\ RowHere(q)
      BY <1>4, <2>1, <2>3 DEF RunInv, RunningMeansSyncing
    <3>2. q # p /\ s'[q] = s[q]
      BY <2>3, <3>1 DEF IsAtRow, RunsMove
    <3> QED
      BY <2>3, <3>1, <3>2 DEF Syncing, RowHere
  <2> QED
    BY <1>4, <2>2, <2>3 DEF RowMoves
<1>5. ASSUME ~ lost', NEW r \in DOMAIN runs', runs'[r].status = "running"
      PROVE  \E q \in Proc : s'[q].run = r
  <2>1. ~ lost /\ r \in 1..MaxStarts
    BY <1>1, <1>5 DEF RowMoves
  <2>2. runs[r].status = "running"
    BY <1>5, <2>1 DEF RunsMove
  <2>3. PICK q \in Proc : s[q].run = r
    BY <1>1, <2>1, <2>2 DEF RunInv, RunningMeansSyncing
  <2>4. CASE q # p
    BY <2>3, <2>4 DEF RunsMove
  <2>5. CASE q = p
    <3>1. s'[p].run # 0
      BY <1>5, <2>1, <2>3, <2>5 DEF RunsMove
    <3> QED
      BY <2>3, <2>5, <3>1 DEF RunsMove
  <2> QED
    BY <2>4, <2>5
<1> QED
  BY <1>3, <1>4, <1>5 DEF RunInv, RunningMeansSyncing

\* A step that changes neither, of a sync that goes on.
LEMMA GoingOnKeepsRuns ==
    ASSUME SourceInv, RunInv, NEW p \in Proc, NEW r, Turns(p, r), SameSync(r, s[p]),
           Syncing(p) => r.pc \in {"index", "flush", "dispatch", "finish", "page", "send", "download"},
           row' = row, lost' = lost, DOMAIN runs' = DOMAIN runs,
           \A k \in 1..MaxStarts : runs'[k].type = runs[k].type /\ runs'[k].status = runs[k].status
    PROVE  RunInv'
<1>1. TypeOK /\ s'[p] = r /\ \A q \in Proc : q # p => s'[q] = s[q]
  BY TurnsOnlyOne, SyncNumbers
<1>2. RunsMove(p)
  BY <1>1 DEF RunsMove, SameSync
<1>3. IsAtRow(p) => IsAtRow(p)'
  BY <1>1 DEF IsAtRow, SameSync, RowHere, Syncing
<1>4. RowMoves(p)
  BY <1>3 DEF RowMoves
<1> QED
  BY <1>2, <1>4, RunsKept

\* A sync that ends and records it, or cannot.
LEMMA EndedKeepsRuns ==
    ASSUME SourceInv, RunInv, NEW p \in Proc, Turns(p, Idle),
           DOMAIN runs' = DOMAIN runs,
           \/ \E status \in {"complete", "failed"} : RunsSettled(p, status) /\ lost' = lost
           \/ runs' = runs /\ lost' = (lost \/ s[p].run # 0)
           \/ runs' = runs /\ lost' = TRUE,
           row'.status = "running" /\ ~ lost' => row' = row /\ ~ IsAtRow(p)
    PROVE  RunInv'
<1>1. TypeOK /\ s'[p] = Idle /\ (\A q \in Proc : q # p => s'[q] = s[q]) /\ Idle.run = 0
      /\ s[p].run \in 0..MaxStarts /\ MaxStarts \in Nat
  BY TurnsOnlyOne, SyncNumbers, IdleIsTyped
<1>2. lost => lost'
  OBVIOUS
<1>3. \A r \in 1..MaxStarts :
         /\ runs'[r].type = runs[r].type
         /\ \/ runs'[r].status = runs[r].status
            \/ runs[r].status = "running" /\ runs'[r].status # "running" /\ r = s[p].run
  BY DEF RunsSettled
<1>4. s[p].run # 0 => lost' \/ runs'[s[p].run].status # "running"
  <2> SUFFICES ASSUME s[p].run # 0, ~ lost' PROVE runs'[s[p].run].status # "running"
    OBVIOUS
  <2>1. s[p].run \in 1..MaxStarts
    BY <1>1
  <2>2. PICK status \in {"complete", "failed"} : RunsSettled(p, status)
    BY <1>1, <2>1
  <2>3. runs'[s[p].run].status = IF runs[s[p].run].status = "running" THEN status ELSE runs[s[p].run].status
    BY <2>1, <2>2 DEF RunsSettled
  <2> QED
    BY <2>3
<1>5. RunsMove(p)
  BY <1>1, <1>3, <1>4 DEF RunsMove
<1>6. RowMoves(p)
  BY <1>2 DEF RowMoves
<1> QED
  BY <1>5, <1>6, RunsKept

\* No run says anything to begin with.
LEMMA RunInit == Init => RunInv
<1> SUFFICES ASSUME Init PROVE RunInv
  OBVIOUS
<1>1. \A p \in Proc : s[p].run = 0
  BY DEF Init, Idle
<1>2. row.status = "none" /\ \A r \in DOMAIN runs : runs[r].status = "none"
  BY DEF Init, NoRow
<1> QED
  BY <1>1, <1>2 DEF RunInv, RunHeld, RunningMeansSyncing

\* Connections that come and go take their row and runs with them.
LEMMA WorldRuns ==
    ASSUME SourceInv, RunInv, Push \/ User \/ Ingest
    PROVE  RunInv'
<1>1. runs \in [1..MaxStarts -> RunTypes] /\ DOMAIN runs = 1..MaxStarts
      /\ \A q \in Proc : s[q].run \in 0..MaxStarts
  BY SyncNumbers DEF SourceInv, TypeOK
<1>2. s' = s /\ lost' = lost /\ (row' = row \/ row'.status = "none")
  <2>1. CASE Push \/ Authorize \/ Ingest
    BY <2>1 DEF Push, Authorize, Connected, Ingest, IngestBegin, IngestEnd, IngestFails, ThreadDies, hist
  <2>2. CASE Disconnect
    BY <2>2 DEF Disconnect, NoRow, hist
  <2>3. ASSUME NEW t \in Types, HubConnect(t) \/ HubDisconnect(t) PROVE s' = s /\ lost' = lost /\ row' = row
    BY <2>3 DEF HubConnect, HubDisconnect, Connected, hist
  <2> QED
    BY <2>1, <2>2, <2>3 DEF User
<1>3. /\ DOMAIN runs' = 1..MaxStarts
      /\ \A r \in 1..MaxStarts : /\ runs'[r].type = runs[r].type
                                 /\ runs'[r].status \in {runs[r].status, "gone"}
  <2>1. CASE Push \/ Authorize \/ Ingest \/ Disconnect \/ \E t \in Types : HubConnect(t)
    <3>1. runs' = runs
      BY <2>1 DEF Push, Authorize, Connected, Ingest, IngestBegin, IngestEnd, IngestFails, ThreadDies, Disconnect, HubConnect
    <3> QED
      BY <1>1, <3>1
  <2>2. ASSUME NEW t \in Types, HubDisconnect(t)
        PROVE  /\ DOMAIN runs' = 1..MaxStarts
               /\ \A r \in 1..MaxStarts : /\ runs'[r].type = runs[r].type
                                          /\ runs'[r].status \in {runs[r].status, "gone"}
    <3>1. runs' = [r \in 1..MaxStarts |-> IF runs[r].type = t /\ runs[r].status # "none"
                                           THEN [runs[r] EXCEPT !.status = "gone"] ELSE runs[r]]
      BY <1>1, <2>2 DEF HubDisconnect
    <3>2. \A r \in 1..MaxStarts : runs[r] \in RunTypes
      BY <1>1
    <3> QED
      BY <3>1, <3>2 DEF RunTypes
  <2> QED
    BY <2>1, <2>2 DEF User
<1>4. ASSUME NEW q \in Proc PROVE RunHeld(q)'
  <2> SUFFICES ASSUME s[q].run # 0
               PROVE  /\ runs'[s[q].run].type = s[q].type /\ runs'[s[q].run].status \in {"running", "gone"}
                      /\ \A o \in Proc \ {q} : s[o].run # s[q].run
    BY <1>2 DEF RunHeld
  <2>1. s[q].run \in 1..MaxStarts /\ RunHeld(q)
    BY <1>1 DEF RunInv
  <2> QED
    BY <1>3, <2>1 DEF RunHeld
<1>5. RunningMeansSyncing'
  <2> SUFFICES ASSUME ~ lost
               PROVE  /\ row'.status = "running" =>
                           \E p \in Proc : Syncing(p)' /\ s'[p].type = "github" /\ RowHere(p)'
                      /\ \A r \in DOMAIN runs' : runs'[r].status = "running" => \E p \in Proc : s'[p].run = r
    BY <1>2 DEF RunningMeansSyncing
  <2>1. /\ row.status = "running" => \E p \in Proc : Syncing(p) /\ s[p].type = "github" /\ RowHere(p)
        /\ \A r \in DOMAIN runs : runs[r].status = "running" => \E p \in Proc : s[p].run = r
    BY DEF RunInv, RunningMeansSyncing
  <2>2. row'.status = "running" => row' = row
    BY <1>2
  <2>3. \A r \in DOMAIN runs' : runs'[r].status = "running" => runs[r].status = "running" /\ r \in DOMAIN runs
    BY <1>1, <1>3
  <2> QED
    BY <1>2, <2>1, <2>2, <2>3 DEF Syncing, RowHere
<1> QED
  BY <1>4, <1>5 DEF RunInv

\* A sync that the hub starts gets a run that no sync has.
LEMMA StartRuns ==
    ASSUME SourceInv, RunInv, NEW p \in Proc, Starts(p)
    PROVE  RunInv'
<1>1. /\ TypeOK /\ Shape(p) /\ runs \in [1..MaxStarts -> RunTypes] /\ DOMAIN runs = 1..MaxStarts
      /\ starts \in 0..MaxStarts /\ MaxStarts \in Nat
      /\ \A q \in Proc : s[q].run \in 0..MaxStarts /\ s[q].run <= starts
  BY SyncNumbers DEF SourceInv, TypeOK, Shape
<1>2. ASSUME NEW t \in Types, NEW k \in 0..MaxStarts, Start(p, t, k)
      PROVE  /\ s[p].run = 0 /\ ~ Syncing(p) /\ s'[p].type = t /\ s'[p].run = k
             /\ (\A q \in Proc : q # p => s'[q] = s[q]) /\ row' = row /\ lost' = lost
  <2>1. PICK r : Turns(p, r) /\ Begun(r, t, k)
    BY <1>1, <1>2, StartTurns
  <2>2. s'[p] = r /\ \A q \in Proc : q # p => s'[q] = s[q]
    BY <1>1, <2>1, TurnsOnlyOne
  <2>3. s[p].run = 0 /\ ~ Syncing(p)
    BY <1>1, <1>2, IdleIsTyped DEF Start, Shape, Syncing
  <2> QED
    BY <1>2, <2>1, <2>2, <2>3 DEF Begun, Start, hist
<1>3. CASE RouteSync(p) \/ MonitorSync(p)
  <2>1. Start(p, "github", 0) /\ runs' = runs
    BY <1>3 DEF RouteSync, MonitorSync
  <2>2. /\ s[p].run = 0 /\ ~ Syncing(p) /\ s'[p].run = 0
        /\ (\A q \in Proc : q # p => s'[q] = s[q]) /\ row' = row /\ lost' = lost
    BY <1>1, <1>2, <2>1 DEF Types
  <2>3. RunsMove(p) /\ RowMoves(p)
    BY <2>1, <2>2 DEF RunsMove, RowMoves, IsAtRow
  <2> QED
    BY <2>1, <2>3, RunsKept
<1>4. ASSUME NEW t \in Types, HubSync(p, t) PROVE RunInv'
  <2>1. starts < MaxStarts /\ row' = row /\ lost' = lost
    BY <1>4 DEF HubSync, Start, hist
  <2>2. s[p].run = 0 /\ ~ Syncing(p)
    <3>1. s[p].pc = "idle"
      BY <1>4 DEF HubSync, Start
    <3> QED
      BY <1>1, <3>1, IdleIsTyped DEF Shape, Syncing
  <2>3. /\ DOMAIN runs' = 1..MaxStarts
        /\ \A r \in 1..MaxStarts : r # starts + 1 => runs'[r] = runs[r]
        /\ runs'[starts + 1].type = t
        /\ runs'[starts + 1].status = IF NoRepository(t) THEN "complete" ELSE "running"
    <3>1. starts + 1 \in 1..MaxStarts
      BY <1>1, <2>1
    <3> QED
      BY <1>1, <1>4, <3>1 DEF HubSync
  <2>4. /\ \A q \in Proc : q # p => s'[q] = s[q]
        /\ IF NoRepository(t) THEN s'[p] = s[p] ELSE s'[p].run = starts + 1 /\ s'[p].type = t
    <3>1. CASE NoRepository(t)
      BY <1>4, <3>1 DEF HubSync
    <3>2. CASE ~ NoRepository(t)
      <4>1. Start(p, t, starts + 1) /\ starts + 1 \in 0..MaxStarts
        BY <1>1, <1>4, <2>1, <3>2 DEF HubSync
      <4> QED
        BY <1>2, <3>2, <4>1
    <3> QED
      BY <3>1, <3>2
  <2>5. ASSUME NEW q \in Proc PROVE RunHeld(q)'
    <3>1. CASE q = p /\ ~ NoRepository(t)
      <4>1. s'[q].run = starts + 1 /\ s'[q].type = t /\ \A o \in Proc \ {q} : s'[o].run # starts + 1
        BY <1>1, <2>4, <3>1
      <4> QED
        BY <2>3, <3>1, <4>1 DEF RunHeld
    <3>2. CASE ~ (q = p /\ ~ NoRepository(t))
      <4>1. s'[q] = s[q] /\ RunHeld(q)
        BY <2>4, <3>2 DEF RunInv
      <4>2. CASE s[q].run = 0
        BY <4>1, <4>2 DEF RunHeld
      <4>3. CASE s[q].run # 0
        <5>1. s[q].run \in 1..MaxStarts /\ s[q].run # starts + 1
          BY <1>1, <4>3
        <5>2. \A o \in Proc \ {q} : s'[o].run # s[q].run
          BY <1>1, <2>2, <2>4, <4>1, <4>3, <5>1 DEF RunHeld
        <5> QED
          BY <2>3, <4>1, <4>3, <5>1, <5>2 DEF RunHeld
      <4> QED
        BY <4>2, <4>3
    <3> QED
      BY <3>1, <3>2
  <2>6. RunningMeansSyncing'
    <3> SUFFICES ASSUME ~ lost
                 PROVE  /\ row.status = "running" =>
                             \E q \in Proc : Syncing(q)' /\ s'[q].type = "github" /\ RowHere(q)'
                        /\ \A r \in DOMAIN runs' : runs'[r].status = "running" => \E q \in Proc : s'[q].run = r
      BY <2>1 DEF RunningMeansSyncing
    <3>1. /\ row.status = "running" => \E q \in Proc : Syncing(q) /\ s[q].type = "github" /\ RowHere(q)
          /\ \A r \in DOMAIN runs : runs[r].status = "running" => \E q \in Proc : s[q].run = r
      BY DEF RunInv, RunningMeansSyncing
    <3>2. ASSUME row.status = "running"
          PROVE  \E q \in Proc : Syncing(q)' /\ s'[q].type = "github" /\ RowHere(q)'
      <4>1. PICK q \in Proc : Syncing(q) /\ s[q].type = "github" /\ RowHere(q)
        BY <3>1, <3>2
      <4>2. s'[q] = s[q]
        BY <2>2, <2>4, <4>1
      <4> QED
        BY <2>1, <4>1, <4>2 DEF Syncing, RowHere
    <3>3. ASSUME NEW r \in DOMAIN runs', runs'[r].status = "running" PROVE \E q \in Proc : s'[q].run = r
      <4>1. CASE r = starts + 1
        BY <2>3, <2>4, <3>3, <4>1
      <4>2. CASE r # starts + 1
        <5>1. r \in 1..MaxStarts /\ r # 0 /\ runs[r].status = "running"
          BY <1>1, <2>3, <3>3, <4>2
        <5>2. PICK q \in Proc : s[q].run = r
          BY <1>1, <3>1, <5>1
        <5> QED
          BY <2>2, <2>4, <5>1, <5>2
      <4> QED
        BY <4>1, <4>2
    <3> QED
      BY <3>2, <3>3
  <2> QED
    BY <2>5, <2>6 DEF RunInv
<1> QED
  BY <1>3, <1>4 DEF Starts

\* The steps after which a sync goes on, the announcement apart.
LEMMA GoingRuns ==
    ASSUME SourceInv, RunInv, NEW p \in Proc
    PROVE  /\ CreateCollection(p) => RunInv'
           /\ ReadHead(p) /\ ~ Returns(p) => RunInv'
           /\ ListPages(p) => RunInv'
           /\ Download(p) => RunInv'
           /\ IndexFile(p) => RunInv'
           /\ SkipFile(p) => RunInv'
           /\ Flush(p) => RunInv'
           /\ DispatchAll(p) => RunInv'
           /\ IndexPage(p) => RunInv'
           /\ SendPage(p) => RunInv'
           /\ Dispatches(p) => RunInv'
<1>0. TypeOK /\ Shape(p) /\ runs \in [1..MaxStarts -> RunTypes] /\ s[p] \in SyncTypes
      /\ s[p].fresh \in Seq(DOMAIN Kind)
  BY SyncNumbers DEF TypeOK
<1>1. ASSUME NEW r, Turns(p, r), SameSync(r, s[p]), UNCHANGED <<row, runs, lost>>,
             Syncing(p) => r.pc \in {"index", "flush", "dispatch", "finish", "page", "send", "download"}
      PROVE  RunInv'
  BY <1>1, GoingOnKeepsRuns
<1>2. ASSUME CreateCollection(p) PROVE RunInv'
  <2>1. PICK r : Turns(p, r) /\ SameSync(r, s[p])
    BY <1>0, <1>2, CreateTurns
  <2>2. UNCHANGED <<row, runs, lost>> /\ ~ Syncing(p)
    BY <1>2 DEF CreateCollection, Syncing, hist
  <2> QED
    BY <1>1, <2>1, <2>2
<1>3. ASSUME ReadHead(p), ~ Returns(p) PROVE RunInv'
  <2> DEFINE new == [s[p] EXCEPT !.head = remote]
  <2>1. /\ FindCollection(p, new) /\ UNCHANGED <<row, runs, lost>> /\ ~ Syncing(p)
    BY <1>3 DEF ReadHead, Syncing
  <2>2. new \in SyncTypes
    <3>1. remote \in Versions
      BY SyncNumbers
    <3> QED
      BY <1>0, <3>1, ZenonT(60) DEF SyncTypes
  <2>3. SameSync(new, s[p])
    BY <1>0 DEF SyncTypes, SameSync
  <2> HIDE DEF new
  <2>4. PICK r : Turns(p, r) /\ SameSync(r, new)
    BY <1>0, <2>1, <2>2, FindTurns
  <2> QED
    BY <1>1, <2>1, <2>3, <2>4 DEF SameSync
<1>4. ASSUME ListPages(p) PROVE RunInv'
  <2>1. PICK r : Turns(p, r) /\ SameSync(r, s[p])
    BY <1>0, <1>4, FindTurns DEF ListPages
  <2>2. /\ runs' = [runs EXCEPT ![s[p].run].head = remote]
        /\ UNCHANGED <<row, lost>> /\ ~ Syncing(p)
    BY <1>4 DEF ListPages, Syncing
  <2>3. /\ DOMAIN runs' = DOMAIN runs
        /\ \A k \in 1..MaxStarts : runs'[k].type = runs[k].type /\ runs'[k].status = runs[k].status
    <3>1. \A k \in 1..MaxStarts : runs[k] \in RunTypes
      BY <1>0
    <3> QED
      BY <1>0, <2>2, <3>1 DEF RunTypes
  <2> QED
    BY <2>1, <2>2, <2>3, GoingOnKeepsRuns
<1>5. ASSUME Download(p) PROVE RunInv'
  <2>1. s' = [s EXCEPT ![p].pc = "index", ![p].tree = remote] /\ UNCHANGED <<row, runs, lost>>
    BY <1>5 DEF Download, hist
  <2>2. PICK r : Turns(p, r) /\ SameSync(r, s[p]) /\ r.pc = "index"
    BY <1>0, <2>1, DownloadTurns
  <2> QED
    BY <1>1, <2>1, <2>2
<1>6. ASSUME IndexFile(p) PROVE RunInv'
  <2>1. /\ UNCHANGED <<row, runs, lost>> /\ s[p].at <= Len(Files) /\ s[p].count < s[p].at
    BY <1>0, <1>6 DEF IndexFile, Full, More, Shape, hist
  <2>2. PICK pend \in SUBSET Nat, fresh \in Seq(DOMAIN Kind) : s' = [s EXCEPT ![p] = Indexes(p, pend, fresh)]
    BY <1>6, IndexFileTurns
  <2>3. PICK r : Turns(p, r) /\ Indexed(r, s[p], pend, fresh)
    BY <1>0, <2>1, <2>2, IndexesTurns
  <2> QED
    BY <1>1, <2>1, <2>3 DEF Indexed
<1>7. ASSUME SkipFile(p) PROVE RunInv'
  <2>1. /\ s[p].at <= Len(Files) /\ s' = [s EXCEPT ![p].at = Upcoming(@ + 1)] /\ UNCHANGED <<row, runs, lost>>
        /\ s[p].pc = "index"
    BY <1>7 DEF SkipFile, Full, More, hist
  <2>2. PICK r : Turns(p, r) /\ SameSync(r, s[p]) /\ r.pc = s[p].pc
    BY <1>0, <2>1, SkipTurns
  <2> QED
    BY <1>1, <2>1, <2>2
<1>8. ASSUME Flush(p) PROVE RunInv'
  <2>1. UNCHANGED <<row, runs, lost>>
    BY <1>8 DEF Flush, hist
  <2>2. PICK r : Turns(p, r) /\ SameSync(r, s[p]) /\ r.pc = IF s[p].pc = "flush" THEN "index" ELSE "dispatch"
    BY <1>0, <1>8, FlushTurns
  <2> QED
    BY <1>1, <2>1, <2>2
<1>9. ASSUME DispatchAll(p) PROVE RunInv'
  <2>1. UNCHANGED <<row, runs, lost>>
    BY <1>9 DEF DispatchAll, hist
  <2>2. PICK r : Turns(p, r) /\ SameSync(r, s[p]) /\ r.pc = "finish"
    BY <1>0, <1>9, DispatchTurns
  <2> QED
    BY <1>1, <2>1, <2>2
<1>10. ASSUME IndexPage(p) PROVE RunInv'
  <2>1. UNCHANGED <<row, runs, lost>> /\ s[p].at <= Len(Files)
    BY <1>10 DEF IndexPage, More, hist
  <2>2. PICK d \in 1..Len(docs') : RecordsTyped /\ Sends(p, d)
    BY <1>0, <1>10, <2>1, PageRecords
  <2>3. PICK r : Turns(p, r) /\ SameSync(r, s[p]) /\ r.pc = "send"
    BY <1>0, <2>2, SendsTurns
  <2> QED
    BY <1>1, <2>1, <2>3
<1>11. ASSUME SendPage(p) PROVE RunInv'
  <2>1. UNCHANGED <<row, runs, lost>> /\ s[p].at <= Len(Files) /\ s[p].count < s[p].at
    BY <1>0, <1>11 DEF SendPage, Shape, hist
  <2>2. PICK r : Turns(p, r) /\ SameSync(r, s[p]) /\ r.pc = "page"
    BY <1>0, <1>11, <2>1, SendPageTurns
  <2> QED
    BY <1>1, <2>1, <2>2
<1>12. ASSUME Dispatches(p) PROVE RunInv'
  <2>1. UNCHANGED <<row, runs, lost>> /\ s[p].pc \in {"dispatch", "send"}
    BY <1>12 DEF Dispatches, StartThreads, Enqueue, MarkQueued, Dispatching, hist
  <2>2. PICK r : Turns(p, r) /\ SameSync(r, s[p]) /\ r.pc = s[p].pc
    BY <1>0, <1>12, DispatchesTurns
  <2> QED
    BY <1>1, <2>1, <2>2
<1> QED
  BY <1>2, <1>3, <1>4, <1>5, <1>6, <1>7, <1>8, <1>9, <1>10, <1>11, <1>12

\* The row is announced, or a sync ends.
LEMMA AnnounceRuns ==
    ASSUME SourceInv, RunInv, NEW p \in Proc, Announce(p)
    PROVE  RunInv'
<1>0. TypeOK
  BY SyncNumbers
<1>1. CASE Lost(p) /\ row' = row
  <2>1. Turns(p, Idle) /\ runs' = runs /\ lost' = (lost \/ s[p].run # 0)
    BY <1>0, <1>1, EndsTurns DEF Lost
  <2>2. ~ IsAtRow(p)
    BY DEF Announce, IsAtRow, Syncing
  <2> QED
    BY <1>1, <2>1, <2>2, EndedKeepsRuns
<1>2. CASE /\ IF s[p].known THEN RowHere(p) ELSE row.conn = 0 /\ conn = s[p].conn
           /\ row' = IF s[p].known THEN [row EXCEPT !.status = "running"]
                        ELSE [NoRow EXCEPT !.conn = conn, !.status = "running"]
           /\ s' = [s EXCEPT ![p].pc = "download", ![p].known = TRUE]
           /\ UNCHANGED <<runs, lost>>
  <2>1. PICK r : Turns(p, r) /\ SameSync(r, s[p]) /\ r.pc = "download"
    BY <1>0, <1>2, AnnounceTurns
  <2>2. s'[p] = r /\ \A q \in Proc : q # p => s'[q] = s[q]
    BY <1>0, <2>1, TurnsOnlyOne
  <2>3. s[p].type = "github"
    BY SyncNumbers DEF Announce, Shape, GithubSteps
  <2>4. row'.conn = s[p].conn
    <3>1. row.conn \in Connections /\ row \in RowTypes
      BY <1>0 DEF TypeOK, RowTypes
    <3> QED
      BY <1>2, <3>1 DEF RowHere, NoRow, RowTypes
  <2>5. IsAtRow(p)'
    BY <2>1, <2>2, <2>3, <2>4 DEF IsAtRow, Syncing, RowHere, SameSync
  <2>6. RunsMove(p)
    BY <1>2, <2>1, <2>2 DEF RunsMove, SameSync
  <2>7. RowMoves(p)
    BY <1>2, <2>5 DEF RowMoves
  <2> QED
    BY <1>2, <2>6, <2>7, RunsKept
<1> QED
  BY <1>1, <1>2 DEF Announce

\* Every end of a sync settles its run, or is lost.
LEMMA EndRuns ==
    ASSUME SourceInv, RunInv, NEW p \in Proc
    PROVE  /\ ReadHead(p) /\ Returns(p) => RunInv'
           /\ Finish(p) => RunInv'
           /\ SyncFails(p) => RunInv'
           /\ DispatchFails(p) => RunInv'
           /\ PagesDone(p) => RunInv'
           /\ PagesFail(p) => RunInv'
           /\ Break(p) => RunInv'
<1>0. TypeOK /\ Shape(p) /\ DOMAIN runs = 1..MaxStarts
  BY SyncNumbers DEF TypeOK
<1>1. ASSUME NEW status \in {"complete", "failed"}, Recorded(p, status), lost' = lost,
             row'.status = "running" => row' = row /\ ~ IsAtRow(p)
      PROVE  RunInv'
  <2>1. RunsSettled(p, status) /\ Turns(p, Idle)
    BY <1>0, <1>1, RecordedRuns
  <2>2. DOMAIN runs' = DOMAIN runs
    BY <1>0, <2>1 DEF RunsSettled
  <2> QED
    BY <1>1, <2>1, <2>2, EndedKeepsRuns
<1>2. ASSUME MarkFailed(p), s[p].pc \in {"head", "download", "dispatch", "finish"} PROVE RunInv'
  <2>1. /\ Turns(p, Idle)
        /\ \/ /\ s[p].known /\ ~ RowHere(p) /\ row' = row /\ runs' = runs
              /\ lost' = (lost \/ s[p].run # 0)
           \/ /\ lost' = lost /\ RunsSettled(p, "failed")
              /\ row' = IF s[p].known THEN [row EXCEPT !.status = "failed"] ELSE row
    BY <1>0, <1>2, FailureMarked
  <2>2. ~ s[p].known => s[p].pc = "head"
    BY <1>0, <1>2 DEF Shape, Indexing
  <2>3. row \in RowTypes
    BY <1>0 DEF TypeOK
  <2>4. s[p].known => [row EXCEPT !.status = "failed"].status = "failed"
    BY <2>3 DEF RowTypes
  <2>5. row'.status = "running" => row' = row /\ ~ IsAtRow(p)
    BY <2>1, <2>2, <2>4 DEF IsAtRow, Syncing
  <2>6. DOMAIN runs' = DOMAIN runs
    BY <1>0, <2>1 DEF RunsSettled
  <2> QED
    BY <2>1, <2>5, <2>6, EndedKeepsRuns
<1>3. ASSUME ReadHead(p), Returns(p) PROVE RunInv'
  <2>1. lost' = lost /\ row' = row /\ ~ IsAtRow(p)
    BY <1>3 DEF ReadHead, IsAtRow, Syncing
  <2> QED
    BY <1>1, <1>3, <2>1 DEF Returns
<1>4. ASSUME Finish(p) PROVE RunInv'
  <2>1. CASE MarkFailed(p)
    BY <1>2, <1>4, <2>1 DEF Finish
  <2>2. CASE /\ row' = [row EXCEPT !.status = "complete", !.sha = s[p].head, !.files = s[p].count]
             /\ Returns(p) /\ UNCHANGED lost
    <3>1. row'.status = "complete"
      <4>1. row \in RowTypes
        BY <1>0 DEF TypeOK
      <4> QED
        BY <2>2, <4>1 DEF RowTypes
    <3> QED
      BY <1>1, <2>2, <3>1 DEF Returns
  <2> QED
    BY <1>4, <2>1, <2>2 DEF Finish
<1>5. ASSUME SyncFails(p) PROVE RunInv'
  BY <1>2, <1>5 DEF SyncFails
<1>6. ASSUME PagesDone(p) PROVE RunInv'
  <2>1. /\ Recorded(p, "complete") /\ lost' = lost /\ row' = row /\ s[p].pc = "page"
    BY <1>6 DEF PagesDone, Returns, hist
  <2>2. ~ IsAtRow(p)
    BY <1>0, <2>1 DEF Shape, PageSteps, IsAtRow
  <2> QED
    BY <1>1, <2>1, <2>2
<1>7. ASSUME PagesFail(p) PROVE RunInv'
  <2>1. /\ Recorded(p, "failed") /\ lost' = lost /\ row' = row /\ s[p].pc \in {"list", "page"}
    BY <1>7 DEF PagesFail, Raises, hist
  <2>2. ~ IsAtRow(p)
    BY <1>0, <2>1 DEF Shape, PageSteps, IsAtRow
  <2> QED
    BY <1>1, <2>1, <2>2
<1>8. ASSUME Break(p) PROVE RunInv'
  <2>1. /\ Ends(p) /\ lost' = TRUE /\ row' = row /\ runs' = runs
    BY <1>8 DEF Break
  <2>2. Turns(p, Idle)
    BY <1>0, <2>1, EndsTurns
  <2>4. RunsMove(p) /\ RowMoves(p)
    <3>1. s'[p] = Idle /\ (\A q \in Proc : q # p => s'[q] = s[q]) /\ Idle.run = 0
      BY <1>0, <2>2, TurnsOnlyOne, IdleIsTyped
    <3> QED
      BY <2>1, <3>1 DEF RunsMove, RowMoves
  <2> QED
    BY <2>1, <2>4, RunsKept
<1>9. ASSUME DispatchFails(p) PROVE RunInv'
  <2>1. CASE s[p].pc = "dispatch"
    BY <1>2, <1>9, <2>1 DEF DispatchFails
  <2>2. CASE s[p].pc # "dispatch"
    <3>1. /\ Recorded(p, "failed") /\ lost' = lost /\ row' = row /\ s[p].pc = "send"
      BY <1>9, <2>2 DEF DispatchFails, Dispatching, Raises
    <3>2. ~ IsAtRow(p)
      BY <1>0, <3>1 DEF Shape, PageSteps, IsAtRow
    <3> QED
      BY <1>1, <3>1, <3>2
  <2> QED
    BY <2>1, <2>2
<1> QED
  BY <1>3, <1>4, <1>5, <1>6, <1>7, <1>8, <1>9

\* Every step keeps the runs true.
LEMMA RunStep == SourceInv /\ RunInv /\ [Next]_vars => RunInv'
<1> SUFFICES ASSUME SourceInv, RunInv, [Next]_vars PROVE RunInv'
  OBVIOUS
<1>1. CASE UNCHANGED vars
  BY <1>1 DEF vars, hist, RunInv, RunHeld, RunningMeansSyncing, Syncing, RowHere
<1>2. CASE Push \/ User \/ Ingest
  BY <1>2, WorldRuns
<1>3. ASSUME NEW p \in Proc, Starts(p) PROVE RunInv'
  BY <1>3, StartRuns
<1>4. ASSUME NEW p \in Proc, SyncStep(p) PROVE RunInv'
  BY <1>4, GoingRuns, AnnounceRuns, EndRuns DEF SyncStep, Dispatches
<1>5. ASSUME NEW p \in Proc, SyncError(p) PROVE RunInv'
  BY <1>5, GoingRuns, EndRuns DEF SyncError
<1> QED
  BY <1>1, <1>2, <1>3, <1>4, <1>5 DEF Next

\* What a row or a run of the hub says of a sync is so in every reachable state,
\* unless a sync has ended and could not record it.
THEOREM RunsStayTrue == Spec => []RunsAreTrue
<1>1. Init => SourceInv /\ RunInv
  BY SourceInit, RunInit
<1>2. SourceInv /\ RunInv /\ [Next]_vars => SourceInv' /\ RunInv'
  BY SourceStep, RunStep
<1>3. SourceInv /\ RunInv => RunsAreTrue
  BY DEF SourceInv, RunInv, RunsAreTrue
<1> QED
  BY <1>1, <1>2, <1>3, PTL DEF Spec

-----------------------------------------------------------------------------
(* Queued records *)

Waits(d) == d \in jobs \cup left \/ \E p \in Proc : d \in Undone(p)

\* A queued record keeps its job, its place among those left, or the sync that
\* will ask for one.
LEMMA QueuedKept ==
    ASSUME QueuedInv,
           \A q \in Proc : \A d \in Undone(q) : Waits(d)',
           \A d \in 1..Len(docs') : docs'[d].stage = "queued" =>
              \/ d \in 1..Len(docs) /\ docs[d].stage = "queued" /\ (d \in jobs \cup left => d \in jobs' \cup left')
              \/ Waits(d)'
    PROVE  QueuedInv'
<1> SUFFICES ASSUME NEW d \in 1..Len(docs'), docs'[d].stage = "queued" PROVE Waits(d)'
  BY DEF QueuedInv, Waits
<1>1. CASE d \in 1..Len(docs) /\ docs[d].stage = "queued" /\ (d \in jobs \cup left => d \in jobs' \cup left')
  <2>1. d \in jobs \cup left \/ \E q \in Proc : d \in Undone(q)
    BY <1>1 DEF QueuedInv
  <2>2. d \in jobs' \cup left' => Waits(d)'
    BY DEF Waits
  <2> QED
    BY <1>1, <2>1, <2>2
<1> QED
  BY <1>1

\* A step of a sync that sees to what it leaves undone.
LEMMA QueuedByOne ==
    ASSUME TypeOK, QueuedInv, NEW p \in Proc, NEW r, Turns(p, r),
           jobs \cup left \subseteq jobs' \cup left',
           Undone(p) \subseteq jobs' \cup left' \cup (r.sent \ r.done),
           \A d \in 1..Len(docs') : docs'[d].stage = "queued" =>
              \/ d \in 1..Len(docs) /\ docs[d].stage = "queued"
              \/ d \in jobs' \cup left' \cup (r.sent \ r.done)
    PROVE  QueuedInv'
<1>1. s'[p] = r /\ \A q \in Proc : q # p => s'[q] = s[q]
  BY TurnsOnlyOne
<1>2. Undone(p)' = r.sent \ r.done /\ \A q \in Proc : q # p => Undone(q)' = Undone(q)
  BY <1>1 DEF Undone
<1>3. \A d \in jobs' \cup left' \cup (r.sent \ r.done) : Waits(d)'
  BY <1>2 DEF Waits
<1>4. ASSUME NEW q \in Proc, NEW d \in Undone(q) PROVE Waits(d)'
  <2>1. CASE q = p
    BY <1>3, <2>1
  <2>2. CASE q # p
    <3>1. d \in Undone(q)'
      BY <1>2, <2>2
    <3> QED
      BY <3>1 DEF Waits
  <2> QED
    BY <2>1, <2>2
<1>5. ASSUME NEW d \in 1..Len(docs'), docs'[d].stage = "queued"
      PROVE  \/ d \in 1..Len(docs) /\ docs[d].stage = "queued" /\ (d \in jobs \cup left => d \in jobs' \cup left')
             \/ Waits(d)'
  BY <1>3, <1>5
<1> QED
  BY <1>4, <1>5, QueuedKept

\* Pushes and connections leave the queue alone.
LEMMA WorldQueued ==
    ASSUME SourceInv, QueuedInv, Push \/ User
    PROVE  QueuedInv'
<1>1. s' = s /\ docs' = docs /\ jobs' = jobs /\ left' = left
  BY DEF Push, User, Authorize, Disconnect, HubConnect, HubDisconnect, Connected, store
<1> QED
  BY <1>1 DEF QueuedInv, Undone

\* A job that is taken has its record under way.
LEMMA IngestQueued ==
    ASSUME SourceInv, QueuedInv, Ingest
    PROVE  QueuedInv'
<1>1. TypeOK
  BY DEF SourceInv
<1>2. PICK d \in 1..Len(docs) : IngestBegin(d) \/ IngestEnd(d) \/ IngestFails(d) \/ ThreadDies(d)
  BY DEF Ingest
<1>3. s' = s /\ (\A e \in jobs \cup left : e # d => e \in jobs' \cup left')
  BY <1>2 DEF IngestBegin, IngestEnd, IngestFails, ThreadDies
<1>4. /\ Len(docs') = Len(docs) /\ (docs'[d].stage = "queued" => docs[d].stage = "queued")
      /\ (docs'[d].stage = "queued" /\ d \in jobs \cup left => d \in jobs' \cup left')
      /\ \A e \in 1..Len(docs) : e # d => docs'[e] = docs[e]
  <2>1. CASE IngestBegin(d)
    BY <1>1, <2>1, BeginRecords
  <2>2. CASE IngestEnd(d)
    BY <1>1, <2>2, EndRecords
  <2>3. CASE IngestFails(d)
    <3>1. /\ Len(docs') = Len(docs) /\ (docs'[d].stage \in {"failed", "ready"} \/ docs' = docs)
          /\ \A e \in 1..Len(docs) : e # d => docs'[e] = docs[e]
      BY <1>1, <2>3, FailRecords
    <3>2. docs'[d].stage = "failed" \/ jobs \cup left \subseteq jobs' \cup left'
      <4>1. docs \in [1..Len(docs) -> DocTypes]
        BY <1>1, RecordTypes
      <4>2. [docs EXCEPT ![d].stage = "failed"][d].stage = "failed"
        BY <4>1 DEF DocTypes
      <4> QED
        BY <2>3, <4>2 DEF IngestFails
    <3> QED
      BY <3>1, <3>2
  <2>4. CASE ThreadDies(d)
    BY <2>4 DEF ThreadDies
  <2> QED
    BY <1>2, <2>1, <2>2, <2>3, <2>4
<1>5. \A e \in 1..Len(docs') : docs'[e].stage = "queued" =>
         e \in 1..Len(docs) /\ docs[e].stage = "queued" /\ (e \in jobs \cup left => e \in jobs' \cup left')
  BY <1>3, <1>4
<1>6. ASSUME NEW q \in Proc, NEW e \in Undone(q) PROVE Waits(e)'
  <2>1. e \in Undone(q)'
    BY <1>3, <1>6 DEF Undone
  <2> QED
    BY <2>1 DEF Waits
<1> QED
  BY <1>5, <1>6, QueuedKept

\* A sync that starts asks for nothing yet.
LEMMA StartQueued ==
    ASSUME SourceInv, QueuedInv, NEW p \in Proc, Starts(p)
    PROVE  QueuedInv'
<1>1. TypeOK
  BY DEF SourceInv
<1>2. docs' = docs /\ jobs' = jobs /\ left' = left
  BY DEF Starts, RouteSync, MonitorSync, HubSync, Start, store
<1>3. \A q \in Proc : s'[q] = s[q] \/ (q = p /\ s[p].pc = "idle")
  BY <1>1 DEF Starts, RouteSync, MonitorSync, HubSync, Start, TypeOK
<1>4. ASSUME NEW q \in Proc, NEW d \in Undone(q) PROVE Waits(d)'
  <2>1. s[q].pc # "idle"
    BY <1>4, SyncNumbers DEF Shape, Undone, Idle
  <2>2. d \in Undone(q)'
    BY <1>3, <1>4, <2>1 DEF Undone
  <2> QED
    BY <2>2 DEF Waits
<1> QED
  BY <1>2, <1>4, QueuedKept

\* The steps of a sync that queue nothing, or a record it will ask for.
LEMMA SyncQueued ==
    ASSUME SourceInv, QueuedInv, NEW p \in Proc
    PROVE  /\ CreateCollection(p) => QueuedInv'
           /\ ReadHead(p) => QueuedInv'
           /\ ListPages(p) => QueuedInv'
           /\ Announce(p) => QueuedInv'
           /\ Download(p) => QueuedInv'
           /\ IndexFile(p) => QueuedInv'
           /\ SkipFile(p) => QueuedInv'
           /\ DispatchAll(p) => QueuedInv'
           /\ SendPage(p) => QueuedInv'
<1>0. TypeOK /\ Shape(p) /\ s[p] \in SyncTypes /\ s[p].fresh \in Seq(DOMAIN Kind)
  BY SyncNumbers
<1>1. ASSUME NEW r, Turns(p, r), UNCHANGED <<docs, jobs, left>>,
             s[p].pc \in {"create", "head", "list", "announce", "download"} \/ Undone(p) \subseteq r.sent \ r.done
      PROVE  QueuedInv'
  <2>1. s[p].pc \in {"create", "head", "list", "announce", "download"} => Undone(p) = {}
    BY <1>0 DEF Shape, Undone, Indexing
  <2>2. jobs \cup left \subseteq jobs' \cup left' /\ Undone(p) \subseteq r.sent \ r.done
    BY <1>1, <2>1
  <2> QED
    BY <1>0, <1>1, <2>2, QueuedByOne
<1>3. ASSUME CreateCollection(p) PROVE QueuedInv'
  <2>1. PICK r : Turns(p, r)
    BY <1>0, <1>3, CreateTurns
  <2>2. s[p].pc = "create" /\ UNCHANGED <<docs, jobs, left>>
    BY <1>3 DEF CreateCollection, store
  <2> QED
    BY <1>1, <2>1, <2>2
<1>4. ASSUME NEW new \in SyncTypes, FindCollection(p, new), UNCHANGED <<docs, jobs, left>>,
             s[p].pc \in {"head", "list"}
      PROVE  QueuedInv'
  <2>1. PICK r : Turns(p, r)
    BY <1>0, <1>4, FindTurns
  <2> QED
    BY <1>1, <1>4, <2>1
<1>5. ASSUME ReadHead(p) PROVE QueuedInv'
  <2>1. s[p].pc = "head" /\ UNCHANGED <<docs, jobs, left>>
    BY <1>5 DEF ReadHead, store
  <2>2. CASE Returns(p)
    <3>1. Turns(p, Idle)
      BY <1>0, <2>2, EndsTurns DEF Returns, Recorded
    <3> QED
      BY <1>1, <2>1, <3>1
  <2>3. CASE FindCollection(p, [s[p] EXCEPT !.head = remote])
    <3>1. [s[p] EXCEPT !.head = remote] \in SyncTypes
      <4>1. remote \in Versions
        BY SyncNumbers
      <4> QED
        BY <1>0, <4>1, ZenonT(60) DEF SyncTypes
    <3> QED
      BY <1>4, <2>1, <2>3, <3>1
  <2> QED
    BY <1>5, <2>2, <2>3 DEF ReadHead
<1>6. ASSUME ListPages(p) PROVE QueuedInv'
  BY <1>0, <1>4, <1>6 DEF ListPages, store
<1>7. ASSUME Announce(p) PROVE QueuedInv'
  <2>1. s[p].pc = "announce" /\ UNCHANGED <<docs, jobs, left>>
    BY <1>7 DEF Announce, store
  <2>2. PICK r : Turns(p, r)
    <3>1. CASE Lost(p)
      BY <1>0, <3>1, EndsTurns DEF Lost
    <3>2. CASE s' = [s EXCEPT ![p].pc = "download", ![p].known = TRUE]
      BY <1>0, <3>2, AnnounceTurns
    <3> QED
      BY <1>7, <3>1, <3>2 DEF Announce
  <2> QED
    BY <1>1, <2>1, <2>2
<1>8. ASSUME Download(p) PROVE QueuedInv'
  <2>1. s' = [s EXCEPT ![p].pc = "index", ![p].tree = remote] /\ UNCHANGED <<docs, jobs, left>>
        /\ s[p].pc = "download"
    BY <1>8 DEF Download, store
  <2>2. PICK r : Turns(p, r)
    BY <1>0, <2>1, DownloadTurns
  <2> QED
    BY <1>1, <2>1, <2>2
<1>9. ASSUME IndexFile(p) PROVE QueuedInv'
  <2>1. /\ UNCHANGED <<docs, jobs, left>> /\ s[p].at <= Len(Files) /\ s[p].count < s[p].at /\ s[p].pc = "index"
    BY <1>0, <1>9 DEF IndexFile, Full, More, Shape
  <2>2. PICK pend \in SUBSET Nat, fresh \in Seq(DOMAIN Kind) : s' = [s EXCEPT ![p] = Indexes(p, pend, fresh)]
    BY <1>9, IndexFileTurns
  <2>3. PICK r : Turns(p, r) /\ Indexed(r, s[p], pend, fresh)
    BY <1>0, <2>1, <2>2, IndexesTurns
  <2> QED
    BY <1>1, <2>1, <2>3 DEF Indexed, Undone
<1>10. ASSUME SkipFile(p) PROVE QueuedInv'
  <2>1. /\ s[p].at <= Len(Files) /\ s' = [s EXCEPT ![p].at = Upcoming(@ + 1)] /\ UNCHANGED <<docs, jobs, left>>
        /\ s[p].pc = "index"
    BY <1>10 DEF SkipFile, Full, More, store
  <2>2. PICK r : Turns(p, r) /\ SameWork(r, s[p]) /\ r.pc = s[p].pc
    BY <1>0, <2>1, SkipTurns
  <2> QED
    BY <1>1, <2>1, <2>2 DEF SameWork, SameDocs, Undone
<1>11. ASSUME DispatchAll(p) PROVE QueuedInv'
  <2>1. PICK r : Turns(p, r)
    BY <1>0, <1>11, DispatchTurns
  <2>2. UNCHANGED <<docs, jobs, left>> /\ Undone(p) = {}
    BY <1>11 DEF DispatchAll, store
  <2> QED
    BY <1>1, <2>1, <2>2
<1>12. ASSUME SendPage(p) PROVE QueuedInv'
  <2>1. s[p].at <= Len(Files) /\ s[p].count < s[p].at
    BY <1>0, <1>12 DEF SendPage, Shape
  <2>2. PICK r : Turns(p, r)
    BY <1>0, <1>12, <2>1, SendPageTurns
  <2>3. docs' = docs /\ jobs' = jobs /\ left' = left \cup Undone(p)
    BY <1>12 DEF SendPage
  <2>4. jobs \cup left \subseteq jobs' \cup left' /\ Undone(p) \subseteq jobs' \cup left'
    BY <2>3
  <2> QED
    BY <1>0, <2>2, <2>3, <2>4, QueuedByOne
<1> QED
  BY <1>3, <1>5, <1>6, <1>7, <1>8, <1>9, <1>10, <1>11, <1>12

\* Each record of a dispatch gets its job before it is marked, or is left.
LEMMA DispatchQueued ==
    ASSUME SourceInv, QueuedInv, NEW p \in Proc, Dispatches(p)
    PROVE  QueuedInv'
<1>1. TypeOK /\ s \in [Proc -> SyncTypes] /\ s[p] \in SyncTypes
  BY SyncNumbers DEF TypeOK
<1>2. PICK r : Turns(p, r) /\ SameDocs(r, s[p])
  BY <1>1, DispatchesTurns
<1>3. s'[p] = r /\ r.sent = s[p].sent
  BY <1>1, <1>2, TurnsOnlyOne DEF SameDocs
<1>4. Len(docs') = Len(docs) /\ docs \in [1..Len(docs) -> DocTypes] /\ DOMAIN docs = 1..Len(docs)
  BY <1>1, DispatchesRecords, RecordTypes
<1>5. CASE StartThreads(p)
  <2>1. PICK first \in SUBSET s[p].sent :
          /\ docs' = [d \in DOMAIN docs |-> IF d \in first THEN [docs[d] EXCEPT !.stage = "queued"] ELSE docs[d]]
          /\ jobs' = jobs \cup first /\ left' = (left \cup s[p].sent) \ first
    BY <1>5 DEF StartThreads
  <2>2. jobs \cup left \subseteq jobs' \cup left' /\ Undone(p) \subseteq jobs' \cup left'
    BY <2>1 DEF Undone
  <2>3. \A d \in 1..Len(docs') : docs'[d].stage = "queued" => docs[d].stage = "queued" \/ d \in jobs'
    BY <1>4, <2>1
  <2> QED
    BY <1>1, <1>2, <1>4, <2>2, <2>3, QueuedByOne
<1>6. CASE Enqueue(p)
  <2>1. PICK d \in Undone(p) : jobs' = jobs \cup {d} /\ left' = left \ {d}
    BY <1>6 DEF Enqueue
  <2>2. docs' = docs /\ r.done = s[p].done
    BY <1>1, <1>3, <1>6 DEF Enqueue, SyncTypes
  <2>3. jobs \cup left \subseteq jobs' \cup left' /\ Undone(p) \subseteq r.sent \ r.done
    BY <1>3, <2>1, <2>2 DEF Undone
  <2> QED
    BY <1>1, <1>2, <2>2, <2>3, QueuedByOne
<1>7. CASE MarkQueued(p)
  <2>1. PICK d \in Undone(p) :
          /\ docs' = [docs EXCEPT ![d].stage = "queued"]
          /\ left' = IF d \in jobs THEN left ELSE left \cup {d}
          /\ s' = [s EXCEPT ![p].job = FALSE, ![p].done = @ \cup {d}]
    BY <1>7 DEF MarkQueued
  <2>2. jobs' = jobs /\ r.done = s[p].done \cup {d}
    BY <1>1, <1>3, <1>7, <2>1 DEF MarkQueued, SyncTypes
  <2>3. d \in jobs' \cup left' /\ jobs \cup left \subseteq jobs' \cup left'
    BY <2>1, <2>2
  <2>4. Undone(p) \subseteq jobs' \cup left' \cup (r.sent \ r.done)
    BY <1>3, <2>2, <2>3 DEF Undone
  <2>5. \A e \in 1..Len(docs') : docs'[e].stage = "queued" => docs[e].stage = "queued" \/ e \in jobs' \cup left'
    BY <1>4, <2>1, <2>3
  <2> QED
    BY <1>1, <1>2, <1>4, <2>3, <2>4, <2>5, QueuedByOne
<1> QED
  BY <1>5, <1>6, <1>7 DEF Dispatches

\* A commit leaves what it queues to the dispatch that follows.
LEMMA RecordQueued ==
    ASSUME SourceInv, QueuedInv, NEW p \in Proc
    PROVE  /\ Flush(p) => QueuedInv'
           /\ IndexPage(p) => QueuedInv'
<1>0. TypeOK /\ Shape(p) /\ Len(docs) \in Nat /\ Len(s[p].fresh) \in Nat
  BY SyncNumbers
<1>1. ASSUME Flush(p) PROVE QueuedInv'
  <2>1. PICK r : Turns(p, r) /\ r.sent = Sent(p) /\ r.done = s[p].done
    BY <1>0, <1>1, FlushTurns
  <2>2. jobs' = jobs /\ left' = left /\ r.done = {}
    BY <1>0, <1>1, <2>1 DEF Flush, Shape
  <2>3. /\ Len(docs') = Len(docs) + Len(s[p].fresh)
        /\ \A d \in 1..Len(docs) : docs'[d].stage = IF d \in s[p].pend THEN "queued" ELSE docs[d].stage
    BY <1>0, <1>1, FlushRecords
  <2>4. Undone(p) \subseteq r.sent \ r.done
    BY <2>1, <2>2 DEF Undone, Sent
  <2>5. ASSUME NEW d \in 1..Len(docs'), docs'[d].stage = "queued"
        PROVE  \/ d \in 1..Len(docs) /\ docs[d].stage = "queued"
               \/ d \in r.sent \ r.done
    <3>1. CASE d \in s[p].pend
      BY <2>1, <2>2, <3>1 DEF Sent
    <3>2. CASE d \in 1..Len(docs) /\ d \notin s[p].pend
      BY <2>3, <2>5, <3>2
    <3>3. CASE d \notin 1..Len(docs)
      <4>1. d \in (Len(docs) + 1)..(Len(docs) + Len(s[p].fresh))
        BY <1>0, <2>3, <2>5, <3>3
      <4> QED
        BY <2>1, <2>2, <4>1 DEF Sent
    <3> QED
      BY <3>1, <3>2, <3>3
  <2>6. jobs \cup left \subseteq jobs' \cup left'
    BY <2>2
  <2> QED
    BY <1>0, <2>1, <2>4, <2>5, <2>6, QueuedByOne
<1>2. ASSUME IndexPage(p) PROVE QueuedInv'
  <2>1. s[p].pc = "page" /\ s[p].at <= Len(Files) /\ jobs' = jobs /\ left' = left
    BY <1>2 DEF IndexPage, More
  <2>2. PICK d \in 1..Len(docs') :
          /\ Sends(p, d)
          /\ \A e \in 1..Len(docs) : e # d => docs'[e] = docs[e]
          /\ \/ d \in Found(p) /\ docs[d].temp # 0 /\ Len(docs') = Len(docs)
             \/ d = Len(docs) + 1 /\ Len(docs') = d
    BY <1>0, <1>2, <2>1, PageRecords
  <2>3. PICK r : Turns(p, r) /\ r.sent = {d} /\ r.done = {}
    <3>1. d \in Nat /\ Sends(p, d) /\ TypeOK
      BY <1>0, <2>2
    <3> QED
      BY <3>1, SendsTurns
  <2>4. Undone(p) = {}
    BY <1>0, <2>1 DEF Shape
  <2>5. ASSUME NEW e \in 1..Len(docs'), e # d
        PROVE  e \in 1..Len(docs) /\ docs'[e] = docs[e]
    BY <1>0, <2>2, <2>5
  <2>6. \A e \in 1..Len(docs') : docs'[e].stage = "queued" =>
          (e \in 1..Len(docs) /\ docs[e].stage = "queued") \/ e \in r.sent \ r.done
    BY <2>3, <2>5
  <2>7. jobs \cup left \subseteq jobs' \cup left' /\ Undone(p) \subseteq r.sent \ r.done
    BY <2>1, <2>4
  <2> QED
    BY <1>0, <2>3, <2>6, <2>7, QueuedByOne
<1> QED
  BY <1>1, <1>2

\* A sync that ends has nothing undone, or leaves it.
LEMMA EndQueued ==
    ASSUME SourceInv, QueuedInv, NEW p \in Proc
    PROVE  /\ Finish(p) => QueuedInv'
           /\ SyncFails(p) => QueuedInv'
           /\ DispatchFails(p) => QueuedInv'
           /\ PagesDone(p) => QueuedInv'
           /\ PagesFail(p) => QueuedInv'
           /\ Break(p) => QueuedInv'
<1>0. TypeOK /\ Shape(p)
  BY SyncNumbers
<1>1. ASSUME Ends(p), docs' = docs, jobs' = jobs,
             \/ left' = left \cup Undone(p)
             \/ left' = left /\ s[p].pc \in {"head", "download", "finish", "list", "page"}
      PROVE  QueuedInv'
  <2>1. Turns(p, Idle)
    BY <1>0, <1>1, EndsTurns
  <2>2. s[p].pc \in {"head", "download", "finish", "list", "page"} => Undone(p) = {}
    BY <1>0 DEF Shape, Undone, Indexing
  <2>3. jobs \cup left \subseteq jobs' \cup left' /\ Undone(p) \subseteq jobs' \cup left'
    BY <1>1, <2>2
  <2> QED
    BY <1>0, <1>1, <2>1, <2>3, QueuedByOne
<1>2. MarkFailed(p) \/ Raises(p) \/ Returns(p) => Ends(p)
  BY DEF MarkFailed, Lost, Raises, Returns, Recorded
<1>3. ASSUME Finish(p) PROVE QueuedInv'
  BY <1>1, <1>2, <1>3 DEF Finish, store
<1>4. ASSUME SyncFails(p) PROVE QueuedInv'
  BY <1>1, <1>2, <1>4 DEF SyncFails, store
<1>5. ASSUME PagesDone(p) PROVE QueuedInv'
  BY <1>1, <1>2, <1>5 DEF PagesDone, store
<1>6. ASSUME PagesFail(p) PROVE QueuedInv'
  BY <1>1, <1>2, <1>6 DEF PagesFail, store
<1>7. ASSUME Break(p) PROVE QueuedInv'
  BY <1>1, <1>7 DEF Break
<1>8. ASSUME DispatchFails(p) PROVE QueuedInv'
  BY <1>1, <1>2, <1>8 DEF DispatchFails
<1> QED
  BY <1>3, <1>4, <1>5, <1>6, <1>7, <1>8

\* Every step keeps a queued record's job.
LEMMA QueuedStep == SourceInv /\ QueuedInv /\ [Next]_vars => QueuedInv'
<1> SUFFICES ASSUME SourceInv, QueuedInv, [Next]_vars PROVE QueuedInv'
  OBVIOUS
<1>1. CASE UNCHANGED vars
  BY <1>1 DEF vars, store, QueuedInv, Undone
<1>2. CASE Push \/ User \/ Ingest
  BY <1>2, WorldQueued, IngestQueued
<1>3. ASSUME NEW p \in Proc, Starts(p) PROVE QueuedInv'
  BY <1>3, StartQueued
<1>4. ASSUME NEW p \in Proc, SyncStep(p) PROVE QueuedInv'
  BY <1>4, SyncQueued, DispatchQueued, RecordQueued, EndQueued DEF SyncStep, Dispatches
<1>5. ASSUME NEW p \in Proc, SyncError(p) PROVE QueuedInv'
  BY <1>5, SyncQueued, EndQueued DEF SyncError
<1> QED
  BY <1>1, <1>2, <1>3, <1>4, <1>5 DEF Next

\* Once syncs and the queue have come to rest nothing is left queued but what a
\* dispatch left without a job, or marked after it.
THEOREM QueueIsDrained == Spec => []NothingLeftQueued
<1>1. Init => SourceInv /\ QueuedInv
  BY SourceInit, EmptySeq DEF Init, QueuedInv
<1>2. SourceInv /\ QueuedInv /\ [Next]_vars => SourceInv' /\ QueuedInv'
  BY SourceStep, QueuedStep
<1>3. SourceInv /\ QueuedInv => NothingLeftQueued
  <2> SUFFICES ASSUME SourceInv, QueuedInv, jobs = {}, \A p \in Proc : s[p].pc = "idle",
                      NEW d \in 1..Len(docs), docs[d].stage = "queued"
               PROVE  d \in left
    BY DEF NothingLeftQueued
  <2>1. \A p \in Proc : Undone(p) = {}
    BY SyncNumbers DEF Shape, Undone, Idle
  <2> QED
    BY <2>1 DEF QueuedInv
<1> QED
  BY <1>1, <1>2, <1>3, PTL DEF Spec

-----------------------------------------------------------------------------
(* One record of each file *)

NoNewGithub ==
    \A d \in 1..Len(docs') : docs'[d].type = "github" =>
        d \in 1..Len(docs) /\ docs[d].type = "github" /\ docs'[d].name = docs[d].name

\* What a sync is about to insert stays new while no file of the repository is
\* added.
LEMMA FreshKept ==
    ASSUME SourceInv, NEW q \in Proc, FreshIsNew(q), s'[q].fresh = s[q].fresh,
           s'[q].at \in Nat, s[q].at <= s'[q].at, overlap => overlap', NoNewGithub
    PROVE  FreshIsNew(q)'
<1>1. s[q].at \in Nat
  BY SyncNumbers
<1>2. \A f : Passed(q, f) => Passed(q, f)'
  BY <1>1 DEF Passed
<1>3. \A d \in 1..Len(docs') : \A f : IsNamed(d, "github", f)' => d \in 1..Len(docs) /\ IsNamed(d, "github", f)
  BY DEF NoNewGithub, IsNamed
<1> QED
  BY <1>2, <1>3 DEF FreshIsNew

\* A sync without fresh records has nothing that could be old.
LEMMA FreshEmpty ==
    ASSUME NEW q \in Proc, s'[q].fresh = <<>>
    PROVE  FreshIsNew(q)'
<1>1. DOMAIN <<>> = {}
  OBVIOUS
<1> QED
  BY <1>1 DEF FreshIsNew

\* Records only get more text, and a page loses its file, or a document becomes
\* ready, with that.
TextKept ==
    /\ Len(docs') = Len(docs)
    /\ \A d \in 1..Len(docs) :
         /\ SameRecord(d) /\ docs[d].text \subseteq docs'[d].text
         /\ \/ docs'[d].temp = docs[d].temp /\ (docs'[d].stage = "ready" => docs[d].stage = "ready")
            \/ docs'[d].text # {}

\* Records stay unique while none is added.
LEMMA UniqueKept ==
    ASSUME SourceInv, TextKept, overlap => overlap', PageHasText, RecordsAreUnique
    PROVE  PageHasText' /\ RecordsAreUnique' /\ NoNewGithub
<1>1. Len(docs) \in Nat
  BY RecordTypes DEF SourceInv
<1>2. PageHasText'
  BY DEF TextKept, PageHasText, SameRecord
<1>3. OneRecordPerFile'
  BY DEF TextKept, RecordsAreUnique, OneRecordPerFile, SameRecord
<1>4. FirstRecordIngested'
  <2> SUFFICES ASSUME ~ overlap', NEW d \in 1..Len(docs), NEW e \in 1..Len(docs), SamePage(d, e)', d < e
               PROVE  \E c \in 1..d : SamePage(c, d)' /\ docs'[c].text # {}
    BY DEF FirstRecordIngested, TextKept
  <2>1. SamePage(d, e)
    BY DEF TextKept, SameRecord, SamePage
  <2>2. PICK c \in 1..d : SamePage(c, d) /\ docs[c].text # {}
    BY <2>1 DEF RecordsAreUnique, FirstRecordIngested
  <2>3. c \in 1..Len(docs)
    BY <1>1
  <2> QED
    BY <2>2, <2>3 DEF TextKept, SameRecord, SamePage
<1>5. NoNewGithub
  BY DEF NoNewGithub, TextKept, SameRecord
<1> QED
  BY <1>2, <1>3, <1>4, <1>5 DEF RecordsAreUnique

\* A step of one sync that goes on in its collection with what it was about to
\* insert, or has ended.
LEMMA TurnKeepsRecords ==
    ASSUME SourceInv, RecordInv, NEW p \in Proc, NEW r, Turns(p, r), UNCHANGED <<docs, colls, overlap>>,
           r.fresh = <<>> \/ (r.fresh = s[p].fresh /\ s[p].at <= r.at),
           r.pc \in {"idle", "head", "list"}
             \/ (UnderWay(p) /\ s[p].pc # "create" /\ r.pc # "create" /\ r.type = s[p].type /\ r.coll = s[p].coll)
    PROVE  RecordInv'
<1>0. TypeOK
  BY SyncNumbers
<1>1. s'[p] = r /\ (\A q \in Proc : q # p => s'[q] = s[q]) /\ r.at \in Nat
  <2>1. s'[p] = r /\ \A q \in Proc : q # p => s'[q] = s[q]
    BY <1>0, TurnsOnlyOne
  <2>2. r.at \in 1..(Len(Files) + 1)
    BY DEF Turns, SyncTypes
  <2> QED
    BY <2>1, <2>2, FilesAreMembers
<1>2. TextKept
  BY DEF TextKept, SameRecord
<1>3. PageHasText' /\ RecordsAreUnique' /\ NoNewGithub
  BY <1>2, UniqueKept DEF RecordInv
<1>4. ASSUME NEW q \in Proc PROVE FreshIsNew(q)'
  <2>1. CASE q # p
    <3>1. s'[q] = s[q] /\ s[q].at \in Nat
      BY <1>1, <2>1, SyncNumbers
    <3> QED
      BY <1>3, <3>1, FreshKept DEF RecordInv
  <2>2. CASE q = p /\ r.fresh = <<>>
    BY <1>1, <2>2, FreshEmpty
  <2>3. CASE q = p /\ r.fresh = s[p].fresh /\ s[p].at <= r.at
    BY <1>1, <1>3, <2>3, FreshKept DEF RecordInv
  <2> QED
    BY <2>1, <2>2, <2>3
<1>5. ASSUME ~ overlap' PROVE Apart' /\ OneCollection'
  <2>1. Apart /\ OneCollection
    BY <1>5 DEF RecordInv
  <2>2. \A q \in Proc : UnderWay(q)' => /\ UnderWay(q) /\ s'[q].type = s[q].type
                                        /\ q = p => s[p].pc # "create" /\ s'[p].pc # "create" /\ s'[p].coll = s[p].coll
    BY <1>1 DEF UnderWay
  <2>3. Apart'
    BY <2>1, <2>2 DEF Apart
  <2>4. OneCollection'
    BY <1>1, <2>1, <2>2 DEF OneCollection
  <2> QED
    BY <2>3, <2>4
<1> QED
  BY <1>3, <1>4, <1>5 DEF RecordInv

\* A sync gets its collection; if none other of its type is under way it is the
\* one there is.
LEMMA FindRecords ==
    ASSUME SourceInv, RecordInv, NEW p \in Proc, NEW new \in SyncTypes, FindCollection(p, new), Meets(p),
           new.type = s[p].type, new.fresh = <<>>, UNCHANGED <<docs, colls>>
    PROVE  RecordInv'
<1>0. TypeOK /\ s[p].type \in Types /\ colls \in [Types -> Nat]
  BY SyncNumbers DEF TypeOK
<1>1. PICK r : /\ Turns(p, r) /\ SameSync(r, new)
               /\ r.known = new.known /\ r.head = new.head /\ r.tree = new.tree
               /\ SameWork(r, new) /\ SamePlace(r, new)
               /\ \/ colls[s[p].type] = 0 /\ r.pc = "create"
                  \/ r.coll \in 1..colls[s[p].type] /\ r.pc = After(s[p].type)
  BY <1>0, FindTurns
<1>2. s'[p] = r /\ \A q \in Proc : q # p => s'[q] = s[q]
  BY <1>0, <1>1, TurnsOnlyOne
<1>3. r.type = s[p].type /\ r.fresh = <<>> /\ r.pc \in {"create", "announce", "page"}
  BY <1>1 DEF SameSync, SameWork, SameDocs, After
<1>4. TextKept /\ (overlap => overlap')
  BY DEF TextKept, SameRecord, Meets
<1>5. PageHasText' /\ RecordsAreUnique' /\ NoNewGithub
  BY <1>4, UniqueKept DEF RecordInv
<1>6. ASSUME NEW q \in Proc PROVE FreshIsNew(q)'
  <2>1. CASE q # p
    <3>1. s'[q] = s[q] /\ s[q].at \in Nat
      BY <1>2, <2>1, SyncNumbers
    <3> QED
      BY <1>4, <1>5, <3>1, FreshKept DEF RecordInv
  <2>2. CASE q = p
    BY <1>2, <1>3, <2>2, FreshEmpty
  <2> QED
    BY <2>1, <2>2
<1>7. ASSUME ~ overlap' PROVE Apart' /\ OneCollection'
  <2>1. Apart /\ OneCollection /\ \A q \in Proc \ {p} : UnderWay(q) => s[q].type # s[p].type
    BY <1>4, <1>7 DEF RecordInv, Meets
  <2>2. \A q \in Proc \ {p} : UnderWay(q)' => UnderWay(q) /\ s'[q] = s[q]
    BY <1>2 DEF UnderWay
  <2>3. Apart'
    BY <1>2, <1>3, <2>1, <2>2 DEF Apart
  <2>4. IF s'[p].pc = "create" THEN colls[s[p].type] = 0 ELSE colls[s[p].type] = 1 /\ s'[p].coll = 1
    <3>1. colls[s[p].type] \in Nat /\ colls[s[p].type] <= 1
      BY <1>0, <2>1 DEF OneCollection
    <3>2. CASE r.pc = "create"
      BY <1>1, <1>2, <3>1, <3>2 DEF After
    <3>3. CASE r.pc # "create"
      <4>1. r.coll \in 1..colls[s[p].type]
        BY <1>1, <3>3
      <4> QED
        BY <1>2, <3>1, <3>3, <4>1
    <3> QED
      BY <3>2, <3>3
  <2>5. OneCollection'
    BY <1>2, <1>3, <2>1, <2>2, <2>4 DEF OneCollection
  <2> QED
    BY <2>3, <2>5
<1> QED
  BY <1>5, <1>6, <1>7 DEF RecordInv

\* A collection of its own has no records yet.
LEMMA CreateRecords ==
    ASSUME SourceInv, RecordInv, NEW p \in Proc, CreateCollection(p)
    PROVE  RecordInv'
<1>0. TypeOK /\ s[p].type \in Types /\ colls \in [Types -> Nat]
  BY SyncNumbers DEF TypeOK
<1>1. PICK r : /\ Turns(p, r) /\ SameSync(r, s[p])
                  /\ r.known = s[p].known /\ r.head = s[p].head /\ r.tree = s[p].tree
                  /\ SameWork(r, s[p]) /\ SamePlace(r, s[p])
                  /\ r.pc = After(s[p].type) /\ r.coll = colls[s[p].type] + 1
  BY <1>0, CreateTurns
<1>2. s'[p] = r /\ \A q \in Proc : q # p => s'[q] = s[q]
  BY <1>0, <1>1, TurnsOnlyOne
<1>3. r.type = s[p].type /\ r.fresh = s[p].fresh /\ r.at = s[p].at /\ r.pc \in {"announce", "page"}
  BY <1>1 DEF SameSync, SameWork, SameDocs, SamePlace, After
<1>4. /\ s[p].pc = "create" /\ UNCHANGED <<docs, overlap>>
      /\ colls' = [colls EXCEPT ![s[p].type] = @ + 1]
  BY DEF CreateCollection, store, hist
<1>5. TextKept
  BY <1>4 DEF TextKept, SameRecord
<1>6. PageHasText' /\ RecordsAreUnique' /\ NoNewGithub
  BY <1>4, <1>5, UniqueKept DEF RecordInv
<1>7. ASSUME NEW q \in Proc PROVE FreshIsNew(q)'
  <2>1. s'[q].fresh = s[q].fresh /\ s'[q].at = s[q].at /\ s[q].at \in Nat
    <3>1. s[q].at \in 1..(Len(Files) + 1) /\ Len(Files) \in Nat
      BY SyncNumbers, FilesAreMembers
    <3> QED
      BY <1>2, <1>3, <3>1
  <2> QED
    BY <1>4, <1>6, <2>1, FreshKept DEF RecordInv
<1>8. ASSUME ~ overlap' PROVE Apart' /\ OneCollection'
  <2>1. Apart /\ OneCollection
    BY <1>4, <1>8 DEF RecordInv
  <2>2. \A q \in Proc : UnderWay(q)' => UnderWay(q) /\ s'[q].type = s[q].type
    BY <1>2, <1>3, <1>4 DEF UnderWay
  <2>3. Apart'
    BY <2>1, <2>2 DEF Apart
  <2>4. colls[s[p].type] = 0 /\ UnderWay(p)
    BY <1>4, <2>1 DEF OneCollection, UnderWay
  <2>5. /\ colls'[s[p].type] = 1 /\ s'[p].coll = 1
        /\ \A t \in Types : t # s[p].type => colls'[t] = colls[t]
    BY <1>0, <1>1, <1>2, <1>4, <2>4
  <2>6. \A q \in Proc \ {p} : UnderWay(q)' => s[q].type # s[p].type /\ s[q].type \in Types
    BY <2>1, <2>2, <2>4, SyncNumbers DEF Apart
  <2>7. ASSUME NEW q \in Proc, UnderWay(q)'
        PROVE  IF s'[q].pc = "create" THEN colls'[s'[q].type] = 0 ELSE colls'[s'[q].type] = 1 /\ s'[q].coll = 1
    <3>1. CASE q = p
      BY <1>2, <1>3, <2>5, <3>1
    <3>2. CASE q # p
      <4>1. s'[q] = s[q] /\ colls'[s[q].type] = colls[s[q].type] /\ UnderWay(q)
        BY <1>2, <2>2, <2>5, <2>6, <2>7, <3>2
      <4> QED
        BY <2>1, <4>1 DEF OneCollection
    <3> QED
      BY <3>1, <3>2
  <2>8. \A t \in Types : colls'[t] <= 1
    BY <2>1, <2>5 DEF OneCollection
  <2>9. \A d \in 1..Len(docs') : docs'[d].coll = 1
    BY <1>4, <2>1 DEF OneCollection
  <2> QED
    BY <2>3, <2>7, <2>8, <2>9 DEF OneCollection
<1> QED
  BY <1>6, <1>7, <1>8 DEF RecordInv

IndexedWith(p, r) ==
    \/ \E d \in Found(p) : Indexed(r, s[p], s[p].pend \cup {d}, s[p].fresh)
    \/ Found(p) = {} /\ Indexed(r, s[p], s[p].pend, Append(s[p].fresh, Entry(p)))

\* The member goes to a record that is there, or to a new one if there is none.
LEMMA IndexedTurns ==
    ASSUME SourceInv, NEW p \in Proc, IndexFile(p)
    PROVE  /\ \E r : Turns(p, r) /\ IndexedWith(p, r)
           /\ s[p].pc = "index" /\ s[p].at <= Len(Files) /\ s[p].count < MaxFiles
<1>0. TypeOK /\ s[p].fresh \in Seq(DOMAIN Kind)
  BY SyncNumbers
<1>1. s[p].pc = "index" /\ s[p].at <= Len(Files) /\ ~ (s[p].count >= MaxFiles)
  BY DEF IndexFile, Full, More
<1>2. s[p].count < MaxFiles
  <2>1. s[p].count \in Nat /\ MaxFiles \in Nat
    BY SyncNumbers, FilesAreMembers, LimitAssumption
  <2> QED
    BY <1>1, <2>1
<1>3. s[p].count < s[p].at
  BY <1>1, NextPlace
<1>4. ASSUME NEW d \in Found(p), s' = [s EXCEPT ![p] = Indexes(p, s[p].pend \cup {d}, s[p].fresh)]
      PROVE  \E r : Turns(p, r) /\ Indexed(r, s[p], s[p].pend \cup {d}, s[p].fresh)
  <2>1. s[p].pend \cup {d} \in SUBSET Nat
    BY SyncNumbers DEF Found
  <2> QED
    BY <1>0, <1>1, <1>3, <1>4, <2>1, IndexesTurns
<1>5. ASSUME s' = [s EXCEPT ![p] = Indexes(p, s[p].pend, Append(s[p].fresh, Entry(p)))]
      PROVE  \E r : Turns(p, r) /\ Indexed(r, s[p], s[p].pend, Append(s[p].fresh, Entry(p)))
  <2>1. Append(s[p].fresh, Entry(p)) \in Seq(DOMAIN Kind)
    BY <1>0, <1>1, NextPlace, AppendProperties
  <2>2. s[p].pend \in SUBSET Nat
    BY SyncNumbers
  <2> QED
    BY <1>0, <1>1, <1>3, <1>5, <2>1, <2>2, IndexesTurns
<1>6. \/ \E d \in Found(p) : s' = [s EXCEPT ![p] = Indexes(p, s[p].pend \cup {d}, s[p].fresh)]
      \/ Found(p) = {} /\ s' = [s EXCEPT ![p] = Indexes(p, s[p].pend, Append(s[p].fresh, Entry(p)))]
  BY DEF IndexFile
<1>7. \E r : Turns(p, r) /\ IndexedWith(p, r)
  <2>1. CASE \E d \in Found(p) : s' = [s EXCEPT ![p] = Indexes(p, s[p].pend \cup {d}, s[p].fresh)]
    <3>1. PICK d \in Found(p) : s' = [s EXCEPT ![p] = Indexes(p, s[p].pend \cup {d}, s[p].fresh)]
      BY <2>1
    <3>2. PICK r : Turns(p, r) /\ Indexed(r, s[p], s[p].pend \cup {d}, s[p].fresh)
      BY <1>4, <3>1
    <3> QED
      BY <3>2 DEF IndexedWith
  <2>2. CASE Found(p) = {} /\ s' = [s EXCEPT ![p] = Indexes(p, s[p].pend, Append(s[p].fresh, Entry(p)))]
    BY <1>5, <2>2 DEF IndexedWith
  <2> QED
    BY <1>6, <2>1, <2>2
<1> QED
  BY <1>1, <1>2, <1>7

\* A sync that indexes the member it is at has passed it.
LEMMA IndexedPasses ==
    ASSUME SourceInv, NEW p \in Proc, s[p].at <= Len(Files), s'[p].at = Upcoming(s[p].at + 1)
    PROVE  /\ s[p].at < s'[p].at /\ s'[p].at \in Nat
           /\ ~ Passed(p, Entry(p))
           /\ \A f \in Sources : Passed(p, f)' <=> (Passed(p, f) \/ f = Entry(p))
<1>1. /\ s[p].at \in 1..Len(Files) /\ Entry(p) = Files[s[p].at]
      /\ s'[p].at \in (s[p].at + 1)..(Len(Files) + 1)
      /\ \A j \in (s[p].at + 1)..(s'[p].at - 1) : Files[j] \notin Sources
  BY NextPlace DEF Entry
<1>2. /\ Len(Files) \in Nat /\ \A i, j \in 1..Len(Files) : Files[i] = Files[j] => i = j
  BY MembersAreListed
<1>3. s[p].at < s'[p].at /\ s'[p].at \in Nat
  BY <1>1, <1>2
<1>4. ASSUME NEW j \in 1..(s[p].at - 1), Files[j] = Entry(p) PROVE FALSE
  BY <1>1, <1>2, <1>4
<1>5. ASSUME NEW f \in Sources, NEW j \in 1..(s'[p].at - 1), Files[j] = f
      PROVE  Passed(p, f) \/ f = Entry(p)
  <2>1. j \in 1..(s[p].at - 1) \/ j = s[p].at \/ j \in (s[p].at + 1)..(s'[p].at - 1)
    BY <1>1, <1>2
  <2> QED
    BY <1>1, <1>5, <2>1 DEF Passed
<1>6. 1..(s[p].at - 1) \subseteq 1..(s'[p].at - 1) /\ s[p].at \in 1..(s'[p].at - 1)
  BY <1>1, <1>2
<1> QED
  BY <1>1, <1>3, <1>4, <1>5, <1>6 DEF Passed

\* A sync that indexes finds the record it made before.
LEMMA IndexRecords ==
    ASSUME SourceInv, RecordInv, NEW p \in Proc, IndexFile(p)
    PROVE  RecordInv'
<1>0. TypeOK /\ s[p].fresh \in Seq(DOMAIN Kind) /\ UNCHANGED <<docs, colls, overlap>>
  BY SyncNumbers DEF IndexFile, hist
<1>1. PICK r : Turns(p, r) /\ IndexedWith(p, r)
  BY IndexedTurns
<1>2. s[p].pc = "index" /\ s[p].at <= Len(Files) /\ s[p].type = "github"
  BY IndexedTurns, SyncNumbers DEF Shape, GithubSteps, Indexing
<1>3. s'[p] = r /\ (\A q \in Proc : q # p => s'[q] = s[q]) /\ r.at = Upcoming(s[p].at + 1)
      /\ r.pc \in {"index", "flush"} /\ r.type = s[p].type /\ r.coll = s[p].coll
  BY <1>0, <1>1, TurnsOnlyOne DEF IndexedWith, Indexed, SameSync, SameHead
<1>4. s[p].at <= r.at
  BY <1>2, <1>3, IndexedPasses, SyncNumbers
<1>5. CASE r.fresh = s[p].fresh
  BY <1>0, <1>1, <1>2, <1>3, <1>4, <1>5, TurnKeepsRecords DEF UnderWay
<1>6. CASE Found(p) = {} /\ r.fresh = Append(s[p].fresh, Entry(p))
  <2>1. /\ Entry(p) \in DOMAIN Kind /\ Entry(p) \in Sources
        /\ DOMAIN s[p].fresh = 1..Len(s[p].fresh) /\ Len(s[p].fresh) \in Nat
    BY <1>0, <1>2, NextPlace, RecordTypes
  <2>2. /\ DOMAIN r.fresh = 1..(Len(s[p].fresh) + 1)
        /\ \A i \in 1..Len(s[p].fresh) : r.fresh[i] = s[p].fresh[i]
        /\ r.fresh[Len(s[p].fresh) + 1] = Entry(p)
    BY <1>0, <1>6, <2>1, AppendProperties
  <2>3. TextKept /\ NoNewGithub /\ PageHasText' /\ RecordsAreUnique'
    BY <1>0, UniqueKept DEF TextKept, SameRecord, RecordInv
  <2>4. FreshIsNew(p)'
    <3>1. FreshIsNew(p) /\ ~ Passed(p, Entry(p)) /\ \A f \in Sources : Passed(p, f)' <=> (Passed(p, f) \/ f = Entry(p))
      BY <1>2, <1>3, IndexedPasses DEF RecordInv
    <3>2. ASSUME NEW i \in DOMAIN r.fresh
          PROVE  \/ i \in DOMAIN s[p].fresh /\ r.fresh[i] = s[p].fresh[i]
                 \/ i = Len(s[p].fresh) + 1 /\ r.fresh[i] = Entry(p)
      BY <2>1, <2>2, <3>2
    <3>3. \A i, j \in DOMAIN r.fresh : r.fresh[i] = r.fresh[j] => i = j
      BY <3>1, <3>2 DEF FreshIsNew
    <3>4. \A i \in DOMAIN r.fresh : r.fresh[i] \in Sources /\ Passed(p, r.fresh[i])'
      BY <2>1, <3>1, <3>2 DEF FreshIsNew
    <3>5. ASSUME ~ overlap', NEW i \in DOMAIN r.fresh, NEW d \in 1..Len(docs), IsNamed(d, "github", r.fresh[i])
          PROVE  FALSE
      <4>1. CASE i \in DOMAIN s[p].fresh /\ r.fresh[i] = s[p].fresh[i]
        BY <1>0, <3>1, <3>5, <4>1 DEF FreshIsNew
      <4>2. CASE r.fresh[i] = Entry(p)
        <5>1. OneCollection
          BY <1>0, <3>5 DEF RecordInv
        <5>2. docs[d].coll = s[p].coll
          BY <1>2, <5>1 DEF OneCollection, UnderWay
        <5>3. d \in Found(p)
          BY <1>2, <3>5, <4>2, <5>2 DEF Found, IsNamed
        <5> QED
          BY <1>6, <5>3
      <4> QED
        BY <3>2, <4>1, <4>2
    <3> QED
      BY <1>0, <1>3, <3>3, <3>4, <3>5 DEF FreshIsNew, IsNamed
  <2>5. ASSUME NEW q \in Proc, q # p PROVE FreshIsNew(q)'
    <3>1. s'[q] = s[q] /\ s[q].at \in Nat
      BY <1>3, <2>5, SyncNumbers
    <3> QED
      BY <1>0, <2>3, <3>1, FreshKept DEF RecordInv
  <2>6. ASSUME ~ overlap' PROVE Apart' /\ OneCollection'
    <3>1. Apart /\ OneCollection
      BY <1>0, <2>6 DEF RecordInv
    <3>2. \A q \in Proc : UnderWay(q)' => /\ UnderWay(q) /\ s'[q].type = s[q].type
                                          /\ q = p => s[p].pc # "create" /\ s'[p].pc # "create" /\ s'[p].coll = s[p].coll
      BY <1>2, <1>3 DEF UnderWay
    <3>3. Apart'
      BY <3>1, <3>2 DEF Apart
    <3>4. OneCollection'
      BY <1>0, <1>3, <3>1, <3>2 DEF OneCollection
    <3> QED
      BY <3>3, <3>4
  <2> QED
    BY <2>3, <2>4, <2>5, <2>6 DEF RecordInv
<1> QED
  BY <1>1, <1>5, <1>6 DEF IndexedWith, Indexed

\* A commit inserts records of files that have none.
LEMMA FlushUnique ==
    ASSUME SourceInv, RecordInv, NEW p \in Proc, Flush(p)
    PROVE  RecordInv'
<1> DEFINE m == Len(docs)
           n == Len(s[p].fresh)
<1>0. TypeOK /\ m \in Nat /\ n \in Nat /\ DOMAIN s[p].fresh = 1..n
  BY SyncNumbers, RecordTypes
<1>1. PICK r : Turns(p, r) /\ SameSync(r, s[p]) /\ SameHead(r, s[p]) /\ r.fresh = <<>>
               /\ r.pc = IF s[p].pc = "flush" THEN "index" ELSE "dispatch"
  BY <1>0, FlushTurns
<1>2. s'[p] = r /\ (\A q \in Proc : q # p => s'[q] = s[q]) /\ r.type = s[p].type /\ r.coll = s[p].coll
  BY <1>0, <1>1, TurnsOnlyOne DEF SameSync, SameHead
<1>3. s[p].pc \in {"index", "flush"} /\ s[p].type = "github" /\ UNCHANGED <<colls, overlap>> /\ UnderWay(p)
  BY SyncNumbers DEF Flush, Shape, GithubSteps, Indexing, hist, UnderWay
<1>4. Len(docs') = m + n
  BY <1>0, FlushRecords
<1>5. ASSUME NEW d \in 1..m
      PROVE  /\ SameRecord(d) /\ docs'[d].temp = docs[d].temp /\ docs'[d].text = docs[d].text
             /\ docs'[d].stage = "ready" => docs[d].stage = "ready"
  BY <1>0, FlushRecords
<1>6. ASSUME NEW i \in 1..n
      PROVE  /\ docs'[m + i].type = "github" /\ docs'[m + i].coll = s[p].coll /\ docs'[m + i].name = s[p].fresh[i]
             /\ docs'[m + i].stage = "queued"
  <2>2. docs'[m + i] = NewDoc(p, s[p].fresh[i], 0)
    <3> HIDE DEF m, n
    <3>1. \A j \in 1..Len(s[p].fresh) :
            docs'[Len(docs) + j] = NewDoc(p, s[p].fresh[j], 0) /\ reading'[Len(docs) + j] = {}
      BY <1>0, FlushRecords
    <3> QED
      BY <3>1 DEF m, n
  <2> QED
    BY <1>3, <2>2 DEF NewDoc
<1>7. ASSUME NEW d \in 1..Len(docs')
      PROVE  d \in 1..m \/ \E i \in 1..n : d = m + i
  <2>1. CASE d \in 1..m
    BY <2>1
  <2>2. CASE d \notin 1..m
    <3>1. d - m \in 1..n /\ d = m + (d - m)
      BY <1>0, <1>4, <2>2
    <3> QED
      BY <3>1
  <2> QED
    BY <2>1, <2>2
<1>8. ASSUME NEW d \in 1..Len(docs'), docs'[d].type = "pages" \/ docs'[d].stage = "ready" PROVE d \in 1..m
  BY <1>6, <1>7, <1>8
<1> HIDE DEF m, n
<1>9. PageHasText'
  BY <1>5, <1>8 DEF PageHasText, RecordInv, SameRecord, m
<1>10. OneRecordPerFile'
  <2> SUFFICES ASSUME ~ overlap', NEW d \in 1..Len(docs'), NEW e \in 1..Len(docs'),
                      docs'[d].type = "github", docs'[e].type = "github", docs'[d].name = docs'[e].name
               PROVE  d = e
    BY DEF OneRecordPerFile
  <2>0. ~ overlap /\ FreshIsNew(p)
    BY <1>3 DEF RecordInv
  <2>1. ASSUME NEW x \in 1..m, NEW i \in 1..n, docs'[x].type = "github", docs'[x].name = s[p].fresh[i]
        PROVE  FALSE
    <3>1. IsNamed(x, "github", s[p].fresh[i])
      BY <1>5, <2>1 DEF IsNamed, SameRecord
    <3> QED
      BY <1>0, <2>0, <2>1, <3>1 DEF FreshIsNew, m
  <2>2. CASE d \in 1..m /\ e \in 1..m
    BY <1>5, <2>0, <2>2 DEF RecordInv, RecordsAreUnique, OneRecordPerFile, SameRecord, m
  <2>3. CASE d \in 1..m /\ e \notin 1..m
    BY <1>6, <1>7, <2>1, <2>3
  <2>4. CASE d \notin 1..m /\ e \in 1..m
    BY <1>6, <1>7, <2>1, <2>4
  <2>5. CASE d \notin 1..m /\ e \notin 1..m
    <3>1. PICK i \in 1..n, j \in 1..n : d = m + i /\ e = m + j
      BY <1>7, <2>5
    <3>2. s[p].fresh[i] = s[p].fresh[j]
      BY <1>6, <3>1
    <3>3. i = j
      BY <1>0, <2>0, <3>2 DEF FreshIsNew
    <3> QED
      BY <3>1, <3>3
  <2> QED
    BY <2>2, <2>3, <2>4, <2>5
<1>11. FirstRecordIngested'
  <2> SUFFICES ASSUME ~ overlap', NEW d \in 1..Len(docs'), NEW e \in 1..Len(docs'), SamePage(d, e)', d < e
               PROVE  \E c \in 1..d : SamePage(c, d)' /\ docs'[c].text # {}
    BY DEF FirstRecordIngested
  <2>1. d \in 1..m /\ e \in 1..m /\ SamePage(d, e)
    BY <1>5, <1>8 DEF SamePage, SameRecord
  <2>2. PICK c \in 1..d : SamePage(c, d) /\ docs[c].text # {}
    BY <1>3, <2>1 DEF RecordInv, RecordsAreUnique, FirstRecordIngested, m
  <2>3. c \in 1..m
    BY <1>0, <2>1
  <2> QED
    BY <1>5, <2>1, <2>2, <2>3 DEF SamePage, SameRecord
<1>12. ASSUME ~ overlap' PROVE Apart' /\ OneCollection'
  <2>1. Apart /\ OneCollection
    BY <1>3, <1>12 DEF RecordInv
  <2>2. \A q \in Proc : UnderWay(q)' => /\ UnderWay(q) /\ s'[q].type = s[q].type
                                        /\ q = p => s[p].pc # "create" /\ s'[p].pc # "create" /\ s'[p].coll = s[p].coll
    BY <1>1, <1>2, <1>3 DEF UnderWay
  <2>3. Apart'
    BY <2>1, <2>2 DEF Apart
  <2>4. s[p].coll = 1
    BY <1>3, <2>1 DEF OneCollection
  <2>5. \A d \in 1..Len(docs') : docs'[d].coll = 1
    BY <1>5, <1>6, <1>7, <2>1, <2>4 DEF OneCollection, SameRecord, m
  <2>6. OneCollection'
    BY <1>2, <1>3, <2>1, <2>2, <2>5 DEF OneCollection
  <2> QED
    BY <2>3, <2>6
<1>13. ASSUME NEW q \in Proc PROVE FreshIsNew(q)'
  <2>1. CASE q = p
    BY <1>1, <1>2, <2>1, FreshEmpty
  <2>2. CASE q # p /\ s[q].fresh = <<>>
    BY <1>2, <2>2, FreshEmpty
  <2>3. CASE q # p /\ s[q].fresh # <<>>
    <3>1. s[q].pc \in {"index", "flush"} /\ s[q].type = "github" /\ UnderWay(q)
      BY <2>3, SyncNumbers DEF Shape, GithubSteps, Indexing, UnderWay
    <3>2. overlap
      BY <1>3, <2>3, <3>1 DEF RecordInv, Apart
    <3>3. FreshIsNew(q) /\ s'[q] = s[q]
      BY <1>2, <2>3 DEF RecordInv
    <3> QED
      BY <1>3, <3>2, <3>3 DEF FreshIsNew, Passed
  <2> QED
    BY <2>1, <2>2, <2>3
<1> QED
  BY <1>9, <1>10, <1>11, <1>12, <1>13 DEF RecordInv, RecordsAreUnique

\* A page gets a second record only when the file of a record has gone.
LEMMA PageUnique ==
    ASSUME SourceInv, RecordInv, NEW p \in Proc, IndexPage(p)
    PROVE  RecordInv'
<1>0. TypeOK /\ Len(docs) \in Nat /\ remote \in Nat \ {0}
  BY SyncNumbers
<1>1. s[p].pc = "page" /\ s[p].at <= Len(Files) /\ UNCHANGED <<colls, overlap>>
      /\ s[p].type = "pages" /\ UnderWay(p) /\ s[p].fresh = <<>>
  BY SyncNumbers DEF IndexPage, More, hist, Shape, PageSteps, UnderWay
<1>2. PICK d \in 1..Len(docs') :
             /\ RecordsTyped /\ Sends(p, d)
             /\ \A e \in 1..Len(docs) : /\ SameRecord(e) /\ reading'[e] = reading[e]
                                        /\ docs'[e].text = docs[e].text
                                        /\ e # d => docs'[e] = docs[e]
             /\ docs'[d].type = s[p].type /\ docs'[d].coll = s[p].coll /\ docs'[d].name = Entry(p)
             /\ docs'[d].temp = remote /\ docs'[d].stage = "queued"
             /\ \/ d \in Found(p) /\ docs[d].temp # 0 /\ Len(docs') = Len(docs)
                \/ /\ d = Len(docs) + 1 /\ Len(docs') = d /\ reading'[d] = {} /\ docs'[d].text = {}
                   /\ Found(p) = {} \/ \E e \in Found(p) : docs[e].temp = 0
  BY <1>0, <1>1, PageRecords
<1>3. PICK r : /\ Turns(p, r) /\ SameSync(r, s[p]) /\ SameHead(r, s[p]) /\ SamePlace(r, s[p])
               /\ r.pend = s[p].pend /\ r.fresh = s[p].fresh /\ r.sent = {d} /\ r.done = {} /\ r.pc = "send"
  <2>1. d \in Nat /\ Sends(p, d) /\ TypeOK
    BY <1>0, <1>2
  <2> QED
    BY <2>1, SendsTurns
<1>4. s'[p] = r /\ (\A q \in Proc : q # p => s'[q] = s[q]) /\ r.type = s[p].type /\ r.coll = s[p].coll
  BY <1>0, <1>3, TurnsOnlyOne DEF SameSync, SameHead
<1>5. \A e \in 1..Len(docs') : e # d => e \in 1..Len(docs) /\ docs'[e] = docs[e]
  BY <1>0, <1>2
<1>6. NoNewGithub
  BY <1>1, <1>2, <1>5 DEF NoNewGithub
<1>7. ASSUME NEW q \in Proc PROVE FreshIsNew(q)'
  <2>1. CASE q = p
    BY <1>1, <1>3, <1>4, <2>1, FreshEmpty
  <2>2. CASE q # p
    <3>1. s'[q] = s[q] /\ s[q].at \in Nat
      BY <1>4, <2>2, SyncNumbers
    <3> QED
      BY <1>1, <1>6, <3>1, FreshKept DEF RecordInv
  <2> QED
    BY <2>1, <2>2
<1>8. PageHasText'
  <2>1. \A e \in 1..Len(docs') : e # d => e \in 1..Len(docs) /\ docs'[e] = docs[e]
    BY <1>5
  <2>2. docs'[d].temp # 0 /\ docs'[d].stage # "ready"
    BY <1>0, <1>2
  <2> QED
    BY <2>1, <2>2 DEF PageHasText, RecordInv
<1>9. OneRecordPerFile'
  BY <1>1, <1>2, <1>5 DEF OneRecordPerFile, RecordInv, RecordsAreUnique
<1>10. ASSUME ~ overlap' PROVE Apart' /\ OneCollection'
  <2>1. Apart /\ OneCollection
    BY <1>1, <1>10 DEF RecordInv
  <2>2. \A q \in Proc : UnderWay(q)' => /\ UnderWay(q) /\ s'[q].type = s[q].type
                                        /\ q = p => s[p].pc # "create" /\ s'[p].pc # "create" /\ s'[p].coll = s[p].coll
    BY <1>1, <1>3, <1>4 DEF UnderWay
  <2>3. Apart'
    BY <2>1, <2>2 DEF Apart
  <2>4. s[p].coll = 1
    BY <1>1, <2>1 DEF OneCollection
  <2>5. \A e \in 1..Len(docs') : docs'[e].coll = 1
    BY <1>2, <1>5, <2>1, <2>4 DEF OneCollection
  <2>6. OneCollection'
    BY <1>1, <1>4, <2>1, <2>2, <2>5 DEF OneCollection
  <2> QED
    BY <2>3, <2>6
<1>11. FirstRecordIngested'
  <2> SUFFICES ASSUME ~ overlap', NEW x \in 1..Len(docs'), NEW e \in 1..Len(docs'), SamePage(x, e)', x < e
               PROVE  \E c \in 1..x : SamePage(c, x)' /\ docs'[c].text # {}
    BY DEF FirstRecordIngested
  <2>0. ~ overlap /\ OneCollection /\ FirstRecordIngested
    BY <1>1 DEF RecordInv, RecordsAreUnique
  <2>1. x \in 1..Len(docs)
    BY <1>0, <1>2
  <2>2. ASSUME NEW c \in 1..x, SamePage(c, x), docs[c].text # {}
        PROVE  \E y \in 1..x : SamePage(y, x)' /\ docs'[y].text # {}
    <3>1. c \in 1..Len(docs)
      BY <1>0, <2>1
    <3>2. SamePage(c, x)' /\ docs'[c].text # {}
      BY <1>2, <2>1, <2>2, <3>1 DEF SamePage, SameRecord
    <3> QED
      BY <3>2
  <2>3. CASE e \in 1..Len(docs)
    <3>1. SamePage(x, e)
      BY <1>2, <2>1, <2>3 DEF SamePage, SameRecord
    <3>2. PICK c \in 1..x : SamePage(c, x) /\ docs[c].text # {}
      BY <2>0, <2>1, <2>3, <3>1 DEF FirstRecordIngested
    <3> QED
      BY <2>2, <3>2
  <2>4. CASE e \notin 1..Len(docs)
    <3>1. e = d /\ d = Len(docs) + 1
      BY <1>0, <1>2, <1>5, <2>4
    <3>2. docs[x].type = "pages" /\ docs[x].name = Entry(p) /\ docs[x].coll = s[p].coll
      BY <1>1, <1>2, <2>0, <2>1, <3>1 DEF SamePage, SameRecord, OneCollection
    <3>3. x \in Found(p)
      BY <1>1, <2>1, <3>2 DEF Found
    <3>4. d \notin Found(p)
      BY <1>0, <3>1 DEF Found
    <3>5. PICK c \in Found(p) : docs[c].temp = 0
      BY <1>2, <3>3, <3>4
    <3>6. c \in 1..Len(docs) /\ docs[c].type = "pages" /\ docs[c].name = Entry(p) /\ docs[c].text # {}
      BY <1>1, <3>5 DEF Found, RecordInv, PageHasText
    <3>7. SamePage(c, x) /\ SamePage(x, c)
      BY <3>2, <3>6 DEF SamePage
    <3>8. CASE c <= x
      <4>1. c \in 1..x
        BY <1>0, <2>1, <3>6, <3>8
      <4> QED
        BY <2>2, <3>6, <3>7, <4>1
    <3>9. CASE x < c
      <4>1. PICK y \in 1..x : SamePage(y, x) /\ docs[y].text # {}
        BY <2>0, <2>1, <3>6, <3>7, <3>9 DEF FirstRecordIngested
      <4> QED
        BY <2>2, <4>1
    <3> QED
      BY <1>0, <2>1, <3>6, <3>8, <3>9
  <2> QED
    BY <2>3, <2>4
<1> QED
  BY <1>7, <1>8, <1>9, <1>10, <1>11 DEF RecordInv, RecordsAreUnique

\* Pushes, connections and ingestions add no record.
LEMMA WorldRecords ==
    ASSUME SourceInv, RecordInv, Push \/ User \/ Ingest
    PROVE  RecordInv'
<1>0. TypeOK
  BY DEF SourceInv
<1>1. UNCHANGED <<colls, s, overlap>>
  <2>1. CASE Push \/ User
    BY <2>1 DEF Push, User, Authorize, Disconnect, HubConnect, HubDisconnect, Connected, hist
  <2>2. CASE Ingest
    BY <2>2 DEF Ingest, IngestBegin, IngestEnd, IngestFails, ThreadDies, hist
  <2> QED
    BY <2>1, <2>2
<1>2. TextKept
  <2>1. CASE Push \/ User
    <3>1. docs' = docs
      BY <2>1 DEF Push, User, Authorize, Disconnect, HubConnect, HubDisconnect, Connected, store
    <3> QED
      BY <3>1 DEF TextKept, SameRecord
  <2>2. ASSUME NEW d \in 1..Len(docs), IngestBegin(d) PROVE TextKept
    <3>1. /\ Len(docs') = Len(docs)
          /\ \A e \in 1..Len(docs) :
               /\ SameRecord(e) /\ docs'[e].text = docs[e].text /\ docs'[e].temp = docs[e].temp
               /\ e # d => docs'[e] = docs[e]
      BY <1>0, <2>2, BeginRecords
    <3>2. docs'[d].stage # "ready"
      <4>1. docs \in [1..Len(docs) -> DocTypes] /\ docs' = [docs EXCEPT ![d].stage = IF FileOf(d) = 0 THEN "failed" ELSE "loading"]
        BY <1>0, <2>2, RecordTypes DEF IngestBegin
      <4> QED
        BY <4>1 DEF DocTypes
    <3> QED
      BY <3>1, <3>2 DEF TextKept
  <2>3. ASSUME NEW d \in 1..Len(docs), IngestEnd(d) PROVE TextKept
    <3>1. PICK v \in reading[d] :
             /\ Len(docs') = Len(docs)
             /\ \A e \in 1..Len(docs) : SameRecord(e) /\ (e # d => docs'[e] = docs[e])
             /\ docs'[d].text = docs[d].text \cup {v}
      BY <1>0, <2>3, EndRecords
    <3> QED
      BY <3>1 DEF TextKept
  <2>4. ASSUME NEW d \in 1..Len(docs), IngestFails(d) PROVE TextKept
    <3>1. /\ Len(docs') = Len(docs)
          /\ \A e \in 1..Len(docs) : /\ SameRecord(e) /\ docs'[e].text = docs[e].text
                                     /\ e # d => docs'[e] = docs[e]
          /\ \/ docs'[d].stage = "failed" /\ docs'[d].temp = docs[d].temp
             \/ docs[d].stage = "ready"
             \/ docs' = docs
      BY <1>0, <2>4, FailRecords
    <3>2. docs[d].stage = "ready" => docs[d].text # {}
      BY DEF RecordInv, PageHasText
    <3> QED
      BY <3>1, <3>2 DEF TextKept
  <2>5. ASSUME NEW d \in 1..Len(docs), ThreadDies(d) PROVE TextKept
    BY <2>5 DEF ThreadDies, TextKept, SameRecord
  <2> QED
    BY <2>1, <2>2, <2>3, <2>4, <2>5 DEF Ingest
<1>3. PageHasText' /\ RecordsAreUnique' /\ NoNewGithub
  BY <1>1, <1>2, UniqueKept DEF RecordInv
<1>4. ASSUME NEW q \in Proc PROVE FreshIsNew(q)'
  <2>1. s'[q] = s[q] /\ s[q].at \in Nat
    BY <1>1, SyncNumbers
  <2> QED
    BY <1>1, <1>3, <2>1, FreshKept DEF RecordInv
<1>5. ASSUME ~ overlap' PROVE Apart' /\ OneCollection'
  BY <1>1, <1>2, <1>5 DEF RecordInv, Apart, OneCollection, UnderWay, TextKept, SameRecord
<1> QED
  BY <1>3, <1>4, <1>5 DEF RecordInv

\* The other steps of a sync add none either.
LEMMA SyncRecords ==
    ASSUME SourceInv, RecordInv, NEW p \in Proc
    PROVE  /\ Starts(p) => RecordInv'
           /\ ReadHead(p) => RecordInv'
           /\ ListPages(p) => RecordInv'
           /\ Announce(p) => RecordInv'
           /\ Download(p) => RecordInv'
           /\ SkipFile(p) => RecordInv'
           /\ DispatchAll(p) => RecordInv'
           /\ SendPage(p) => RecordInv'
<1>0. TypeOK /\ Shape(p) /\ s[p] \in SyncTypes /\ MaxStarts \in Nat
  BY SyncNumbers
<1>1. ASSUME NEW r, Turns(p, r), UNCHANGED <<docs, colls, overlap>>, SameDocs(r, s[p]), s[p].at <= r.at,
             r.type = s[p].type, r.coll = s[p].coll, UnderWay(p), s[p].pc # "create", r.pc # "create"
      PROVE  RecordInv'
  BY <1>1, TurnKeepsRecords DEF SameDocs
<1>2. ASSUME Ends(p), UNCHANGED <<docs, colls, overlap>> PROVE RecordInv'
  <2>1. Turns(p, Idle) /\ Idle.fresh = <<>> /\ Idle.pc = "idle"
    BY <1>0, <1>2, EndsTurns DEF Idle
  <2> QED
    BY <1>2, <2>1, TurnKeepsRecords
<1>3. ASSUME NEW t \in Types, NEW k \in 0..MaxStarts, Start(p, t, k) PROVE RecordInv'
  <2>1. PICK r : Turns(p, r) /\ Begun(r, t, k)
    BY <1>0, <1>3, StartTurns
  <2>2. UNCHANGED <<docs, colls, overlap>> /\ r.fresh = <<>> /\ r.pc \in {"idle", "head", "list"}
    BY <1>3, <2>1 DEF Start, Begun, store, hist
  <2> QED
    BY <2>1, <2>2, TurnKeepsRecords
<1>4. ASSUME Starts(p) PROVE RecordInv'
  <2>1. CASE RouteSync(p) \/ MonitorSync(p)
    BY <1>0, <1>3, <2>1 DEF RouteSync, MonitorSync, Types
  <2>2. ASSUME NEW t \in Types, HubSync(p, t) PROVE RecordInv'
    <3>1. CASE NoRepository(t)
      <4>1. UNCHANGED <<s, docs, colls, overlap>>
        BY <2>2, <3>1 DEF HubSync, store, hist
      <4> QED
        BY <4>1 DEF RecordInv, Apart, OneCollection, UnderWay, FreshIsNew, Passed, IsNamed, PageHasText,
                    RecordsAreUnique, OneRecordPerFile, FirstRecordIngested, SamePage
    <3>2. CASE ~ NoRepository(t)
      <4>1. Start(p, t, starts + 1) /\ starts < MaxStarts
        BY <2>2, <3>2 DEF HubSync, Start
      <4>2. starts + 1 \in 0..MaxStarts
        BY <4>1, SyncNumbers
      <4> QED
        BY <1>3, <4>1, <4>2
    <3> QED
      BY <3>1, <3>2
  <2> QED
    BY <1>4, <2>1, <2>2 DEF Starts
<1>5. ASSUME ReadHead(p) PROVE RecordInv'
  <2>1. CASE Returns(p) /\ UNCHANGED overlap
    BY <1>2, <1>5, <2>1 DEF ReadHead, Returns, Recorded, store
  <2>2. CASE FindCollection(p, [s[p] EXCEPT !.head = remote]) /\ Meets(p)
    <3> DEFINE new == [s[p] EXCEPT !.head = remote]
    <3>1. UNCHANGED <<docs, colls>> /\ s[p].pc = "head"
      BY <1>5 DEF ReadHead, store
    <3>2. new \in SyncTypes
      <4>1. remote \in Versions
        BY SyncNumbers
      <4> QED
        BY <1>0, <4>1, ZenonT(60) DEF SyncTypes
    <3>3. new.type = s[p].type /\ new.fresh = <<>>
      BY <1>0, <3>1 DEF SyncTypes, Shape
    <3>4. FindCollection(p, new) /\ Meets(p)
      BY <2>2
    <3> HIDE DEF new
    <3> QED
      BY <3>1, <3>2, <3>3, <3>4, FindRecords
  <2> QED
    BY <1>5, <2>1, <2>2 DEF ReadHead
<1>6. ASSUME ListPages(p) PROVE RecordInv'
  <2>1. UNCHANGED <<docs, colls>> /\ s[p].fresh = <<>> /\ FindCollection(p, s[p]) /\ Meets(p)
    BY <1>0, <1>6 DEF ListPages, store, Shape
  <2> QED
    BY <1>0, <2>1, FindRecords
<1>7. ASSUME Announce(p) PROVE RecordInv'
  <2>1. UNCHANGED <<docs, colls, overlap>> /\ s[p].pc = "announce"
    BY <1>7 DEF Announce, store
  <2>2. CASE Lost(p)
    BY <1>2, <2>1, <2>2 DEF Lost
  <2>3. CASE s' = [s EXCEPT ![p].pc = "download", ![p].known = TRUE]
    <3>1. PICK r : /\ Turns(p, r) /\ SameSync(r, s[p]) /\ SameWork(r, s[p]) /\ SamePlace(r, s[p])
                  /\ r.head = s[p].head /\ r.tree = s[p].tree /\ r.coll = s[p].coll
                  /\ r.pc = "download" /\ r.known = TRUE
      BY <1>0, <2>3, AnnounceTurns
    <3>2. r.type = s[p].type /\ s[p].at <= r.at
      BY <3>1, SyncNumbers, FilesAreMembers DEF SameSync, SamePlace
    <3> QED
      BY <1>1, <2>1, <3>1, <3>2 DEF UnderWay, SameWork
  <2> QED
    BY <1>7, <2>2, <2>3 DEF Announce
<1>8. ASSUME Download(p) PROVE RecordInv'
  <2>1. s' = [s EXCEPT ![p].pc = "index", ![p].tree = remote] /\ UNCHANGED <<docs, colls, overlap>>
        /\ s[p].pc = "download"
    BY <1>8 DEF Download, store, hist
  <2>2. PICK r : /\ Turns(p, r) /\ SameSync(r, s[p]) /\ SameWork(r, s[p]) /\ SamePlace(r, s[p])
                 /\ r.known = s[p].known /\ r.head = s[p].head /\ r.coll = s[p].coll
                 /\ r.pc = "index" /\ r.tree = remote
    BY <1>0, <2>1, DownloadTurns
  <2>3. r.type = s[p].type /\ s[p].at <= r.at
    BY <2>2, SyncNumbers, FilesAreMembers DEF SameSync, SamePlace
  <2> QED
    BY <1>1, <2>1, <2>2, <2>3 DEF UnderWay, SameWork
<1>9. ASSUME SkipFile(p) PROVE RecordInv'
  <2>1. /\ s[p].at <= Len(Files) /\ s' = [s EXCEPT ![p].at = Upcoming(@ + 1)]
        /\ UNCHANGED <<docs, colls, overlap>> /\ s[p].pc = "index"
    BY <1>9 DEF SkipFile, Full, More, store, hist
  <2>2. PICK r : /\ Turns(p, r) /\ SameSync(r, s[p]) /\ SameHead(r, s[p]) /\ SameWork(r, s[p])
                 /\ r.pc = s[p].pc /\ r.count = s[p].count /\ r.at = Upcoming(s[p].at + 1)
    BY <1>0, <2>1, SkipTurns
  <2>3. r.type = s[p].type /\ r.coll = s[p].coll /\ s[p].at <= r.at
    <3>1. Upcoming(s[p].at + 1) \in (s[p].at + 1)..(Len(Files) + 1) /\ s[p].at \in 1..Len(Files)
      BY <2>1, NextPlace
    <3> QED
      BY <2>2, <3>1 DEF SameSync, SameHead
  <2> QED
    BY <1>1, <2>1, <2>2, <2>3 DEF UnderWay, SameWork
<1>10. ASSUME DispatchAll(p) PROVE RecordInv'
  <2>1. UNCHANGED <<docs, colls, overlap>> /\ s[p].pc = "dispatch"
    BY <1>10 DEF DispatchAll, Goes, store, hist
  <2>2. PICK r : /\ Turns(p, r) /\ SameSync(r, s[p]) /\ SameHead(r, s[p])
                 /\ SameWork(r, s[p]) /\ SamePlace(r, s[p]) /\ r.pc = "finish"
    BY <1>0, <1>10, DispatchTurns
  <2>3. r.type = s[p].type /\ r.coll = s[p].coll /\ s[p].at <= r.at
    BY <2>2, SyncNumbers, FilesAreMembers DEF SameSync, SameHead, SamePlace
  <2> QED
    BY <1>1, <2>1, <2>2, <2>3 DEF UnderWay, SameWork
<1>11. ASSUME SendPage(p) PROVE RecordInv'
  <2>1. UNCHANGED <<docs, colls, overlap>> /\ s[p].pc = "send" /\ s[p].at <= Len(Files) /\ s[p].count < s[p].at
    BY <1>0, <1>11 DEF SendPage, hist, Shape
  <2>2. PICK r : /\ Turns(p, r) /\ SameSync(r, s[p]) /\ SameHead(r, s[p]) /\ SameDocs(r, s[p])
                 /\ r.pc = "page" /\ r.at = Upcoming(s[p].at + 1) /\ r.count = s[p].count + 1
    BY <1>0, <1>11, <2>1, SendPageTurns
  <2>3. r.type = s[p].type /\ r.coll = s[p].coll /\ s[p].at <= r.at
    <3>1. Upcoming(s[p].at + 1) \in (s[p].at + 1)..(Len(Files) + 1) /\ s[p].at \in 1..Len(Files)
      BY <2>1, NextPlace
    <3> QED
      BY <2>2, <3>1 DEF SameSync, SameHead
  <2> QED
    BY <1>1, <2>1, <2>2, <2>3 DEF UnderWay, SameWork
<1> QED
  BY <1>4, <1>5, <1>6, <1>7, <1>8, <1>9, <1>10, <1>11

\* Records that are marked by a dispatch are those there were.
LEMMA DispatchUnique ==
    ASSUME SourceInv, RecordInv, NEW p \in Proc, Dispatches(p)
    PROVE  RecordInv'
<1>0. TypeOK
  BY SyncNumbers
<1>1. PICK r : /\ Turns(p, r) /\ SameSync(r, s[p]) /\ SameHead(r, s[p])
               /\ SameDocs(r, s[p]) /\ SamePlace(r, s[p]) /\ r.pc = s[p].pc
  BY <1>0, DispatchesTurns
<1>2. ASSUME NEW q \in Proc
      PROVE  /\ s'[q].pc = s[q].pc /\ s'[q].type = s[q].type /\ s'[q].coll = s[q].coll
             /\ s'[q].fresh = s[q].fresh /\ s'[q].at = s[q].at
  BY <1>0, <1>1, TurnsOnlyOne DEF SameSync, SameHead, SameDocs, SamePlace
<1>3. /\ Len(docs') = Len(docs) /\ UNCHANGED <<colls, overlap>>
      /\ \A d \in 1..Len(docs) : /\ SameRecord(d) /\ docs'[d].temp = docs[d].temp /\ docs'[d].text = docs[d].text
                                 /\ docs'[d].stage \in {docs[d].stage, "queued"}
  BY <1>0, DispatchesRecords DEF hist
<1>4. TextKept
  BY <1>3 DEF TextKept
<1>5. PageHasText' /\ RecordsAreUnique' /\ NoNewGithub
  BY <1>3, <1>4, UniqueKept DEF RecordInv
<1>6. ASSUME NEW q \in Proc PROVE FreshIsNew(q)'
  <2>1. s'[q].fresh = s[q].fresh /\ s'[q].at = s[q].at /\ s[q].at \in Nat
    BY <1>2, SyncNumbers
  <2>2. s'[q].at \in Nat /\ s[q].at <= s'[q].at
    BY <2>1
  <2> QED
    BY <1>3, <1>5, <2>1, <2>2, FreshKept DEF RecordInv
<1>7. ASSUME ~ overlap' PROVE Apart' /\ OneCollection'
  <2>1. Apart /\ OneCollection
    BY <1>3, <1>7 DEF RecordInv
  <2>2. Apart'
    BY <1>2, <2>1 DEF Apart, UnderWay
  <2>3. OneCollection'
    BY <1>2, <1>3, <2>1 DEF OneCollection, UnderWay, SameRecord
  <2> QED
    BY <2>2, <2>3
<1> QED
  BY <1>5, <1>6, <1>7 DEF RecordInv

\* A sync that ends adds none.
LEMMA EndedRecords ==
    ASSUME SourceInv, RecordInv, NEW p \in Proc,
           Finish(p) \/ SyncFails(p) \/ DispatchFails(p) \/ PagesDone(p) \/ PagesFail(p) \/ Break(p)
    PROVE  RecordInv'
<1>1. MarkFailed(p) => Ends(p)
  BY DEF MarkFailed, Lost, Raises, Recorded
<1>2. Ends(p) /\ UNCHANGED <<docs, colls, overlap>>
  BY <1>1 DEF Finish, SyncFails, DispatchFails, PagesDone, PagesFail, Break, Returns, Raises, Recorded, store, hist
<1>3. Turns(p, Idle) /\ Idle.fresh = <<>> /\ Idle.pc = "idle"
  BY <1>2, EndsTurns DEF Idle, SourceInv
<1> QED
  BY <1>2, <1>3, TurnKeepsRecords

\* Every step keeps the records unique.
LEMMA RecordStep == SourceInv /\ RecordInv /\ [Next]_vars => RecordInv'
<1> SUFFICES ASSUME SourceInv, RecordInv, [Next]_vars PROVE RecordInv'
  OBVIOUS
<1>1. CASE UNCHANGED vars
  BY <1>1 DEF vars, store, hist, RecordInv, Apart, OneCollection, UnderWay, FreshIsNew, Passed, IsNamed, PageHasText,
              RecordsAreUnique, OneRecordPerFile, FirstRecordIngested, SamePage
<1>2. CASE Push \/ User \/ Ingest
  BY <1>2, WorldRecords
<1>3. ASSUME NEW p \in Proc, Starts(p) PROVE RecordInv'
  BY <1>3, SyncRecords
<1>4. ASSUME NEW p \in Proc, SyncStep(p) PROVE RecordInv'
  BY <1>4, SyncRecords, EndedRecords, CreateRecords, IndexRecords, FlushUnique, PageUnique, DispatchUnique
     DEF SyncStep, Dispatches
<1>5. ASSUME NEW p \in Proc, SyncError(p) PROVE RecordInv'
  BY <1>5, SyncRecords, EndedRecords DEF SyncError
<1> QED
  BY <1>1, <1>2, <1>3, <1>4, <1>5 DEF Next

\* There is no record to begin with.
LEMMA RecordInit == Init => RecordInv
<1> SUFFICES ASSUME Init PROVE RecordInv
  OBVIOUS
<1>1. (\A p \in Proc : s[p].pc = "idle" /\ s[p].fresh = <<>>) /\ docs = <<>> /\ \A t \in Types : colls[t] = 0
  BY DEF Init, Idle
<1>2. DOMAIN <<>> = {} /\ Len(docs) = 0
  BY <1>1, EmptySeq
<1> QED
  BY <1>1, <1>2 DEF RecordInv, Apart, OneCollection, UnderWay, FreshIsNew, PageHasText,
                    RecordsAreUnique, OneRecordPerFile, FirstRecordIngested

\* Syncs that do not overlap find the record they made before: no file of the
\* repository has two, and no page whose first record has not been ingested.
THEOREM RecordsStayUnique == Spec => []RecordsAreUnique
<1>1. Init => SourceInv /\ RecordInv
  BY SourceInit, RecordInit
<1>2. SourceInv /\ RecordInv /\ [Next]_vars => SourceInv' /\ RecordInv'
  BY SourceStep, RecordStep
<1>3. RecordInv => RecordsAreUnique
  BY DEF RecordInv
<1> QED
  BY <1>1, <1>2, <1>3, PTL DEF Spec

-----------------------------------------------------------------------------
(* What is searchable or about to be *)

\* The versions of records are numbers.
LEMMA DocNumbers ==
    ASSUME TypeOK, NEW d \in 1..Len(docs)
    PROVE  /\ FileOf(d) \in Nat /\ docs[d].temp \in Nat /\ docs[d].text \subseteq Nat /\ reading[d] \subseteq Nat
           /\ docs[d].type \in Types
<1>1. Versions \subseteq Nat
  BY LimitAssumption DEF Versions
<1>2. FileOf(d) \in Versions /\ docs[d] \in DocTypes /\ reading[d] \in SUBSET Versions
  BY FileTyped
<1> QED
  BY <1>1, <1>2 DEF DocTypes

\* A record's file gets no older while it is not called ready, or what was in
\* the file is searchable.
Moves(e) ==
    /\ docs[e].text \subseteq docs'[e].text
    /\ \/ (docs'[e].stage = "ready" => docs[e].stage = "ready") /\ FileOf(e)' \in Nat /\ FileOf(e) <= FileOf(e)'
       \/ \E u \in docs'[e].text : u >= FileOf(e)
Begins(e) == \A w \in reading'[e] : w \in reading[e] \/ Outlives(e, w)'

\* What a step makes of the documents and the staged files.
RecordsStay ==
    /\ Len(docs') \in Nat /\ Len(docs) <= Len(docs') /\ \A e \in 1..Len(docs) : SameRecord(e)
    /\ \A e \in 1..Len(docs') : e \notin 1..Len(docs) => reading'[e] = {}
    /\ raced => raced'
    /\ overlap => overlap'
DocsMove ==
    /\ ~ raced' => \A e \in 1..Len(docs) : Exact(e)' => Moves(e) /\ Begins(e)
    /\ ~ overlap' => \A f \in DOMAIN Kind : file[f] <= file'[f] \/ \E d \in 1..Len(docs) : IsNamed(d, "github", f)

\* A record that only gets more text, a newer file, or queued again, moves.
LEMMA GrowthMoves ==
    ASSUME TypeOK, NEW e \in 1..Len(docs), docs[e].text \subseteq docs'[e].text,
           docs'[e].stage = "ready" => docs[e].stage = "ready", reading'[e] = reading[e],
           (FileOf(e)' \in Nat /\ FileOf(e) <= FileOf(e)') \/ FileOf(e)' = FileOf(e)
    PROVE  Moves(e) /\ Begins(e)
<1>1. FileOf(e) \in Nat
  BY DocNumbers
<1>2. FileOf(e)' \in Nat /\ FileOf(e) <= FileOf(e)'
  BY <1>1
<1> QED
  BY <1>2 DEF Moves, Begins

\* The files of the repository are numbers too.
LEMMA FilesAreNumbers ==
    ASSUME TypeOK, NEW f \in DOMAIN Kind
    PROVE  file[f] \in Nat
  BY LimitAssumption DEF TypeOK, Versions

\* Most steps leave all of it.
LEMMA QuietMoves ==
    ASSUME SourceInv, UNCHANGED <<docs, file, reading, raced>>, overlap => overlap'
    PROVE  RecordsStay /\ DocsMove
<1>1. TypeOK /\ Len(docs) \in Nat
  BY RecordTypes DEF SourceInv
<1>2. RecordsStay
  BY <1>1 DEF RecordsStay, SameRecord
<1>3. ASSUME NEW e \in 1..Len(docs) PROVE Moves(e) /\ Begins(e)
  <2>1. FileOf(e)' = FileOf(e)
    BY DEF FileOf
  <2> QED
    BY <1>1, <2>1, GrowthMoves
<1>4. \A f \in DOMAIN Kind : file[f] <= file'[f]
  BY <1>1, FilesAreNumbers
<1> QED
  BY <1>2, <1>3, <1>4 DEF DocsMove

\* Which steps those are.
QuietStep(p) ==
    \/ Starts(p) \/ CreateCollection(p) \/ ReadHead(p) \/ Announce(p) \/ Download(p) \/ DispatchAll(p) \/ Finish(p)
    \/ ListPages(p) \/ SendPage(p) \/ PagesDone(p)
    \/ SkipFile(p) \/ SyncFails(p) \/ DispatchFails(p) \/ PagesFail(p) \/ Break(p)

LEMMA QuietSteps ==
    ASSUME NEW p \in Proc, QuietStep(p)
    PROVE  UNCHANGED <<docs, file, reading, raced, remote>> /\ (overlap => overlap')
<1>1. CASE Starts(p)
  BY <1>1 DEF Starts, RouteSync, MonitorSync, HubSync, Start, world, store, hist
<1>2. CASE CreateCollection(p)
  BY <1>2 DEF CreateCollection, world, store, hist
<1>3. CASE ReadHead(p)
  BY <1>3 DEF ReadHead, Returns, Meets, world, store
<1>4. CASE Announce(p)
  BY <1>4 DEF Announce, Lost, world, store
<1>5. CASE Download(p)
  BY <1>5 DEF Download, world, store, hist
<1>6. CASE DispatchAll(p)
  BY <1>6 DEF DispatchAll, world, store, hist
<1>7. CASE Finish(p)
  BY <1>7 DEF Finish, world, store
<1>8. CASE ListPages(p)
  BY <1>8 DEF ListPages, Meets, world, store
<1>9. CASE SendPage(p)
  BY <1>9 DEF SendPage, world, hist
<1>10. CASE PagesDone(p)
  BY <1>10 DEF PagesDone, world, store, hist
<1>11. CASE SkipFile(p)
  BY <1>11 DEF SkipFile, world, store, hist
<1>12. CASE SyncFails(p)
  BY <1>12 DEF SyncFails, world, store
<1>13. CASE DispatchFails(p)
  BY <1>13 DEF DispatchFails, world
<1>14. CASE PagesFail(p)
  BY <1>14 DEF PagesFail, world, store, hist
<1>15. CASE Break(p)
  BY <1>15 DEF Break, world
<1> QED
  BY <1>1, <1>2, <1>3, <1>4, <1>5, <1>6, <1>7, <1>8, <1>9, <1>10, <1>11, <1>12, <1>13, <1>14, <1>15 DEF QuietStep

\* An ingestion begins with what is in the file.
LEMMA BeginMoves ==
    ASSUME SourceInv, NEW d \in 1..Len(docs), IngestBegin(d)
    PROVE  RecordsStay /\ DocsMove
<1>1. TypeOK /\ Len(docs) \in Nat
  BY RecordTypes DEF SourceInv
<1>2. /\ Len(docs') = Len(docs)
      /\ \A e \in 1..Len(docs) :
           /\ SameRecord(e) /\ docs'[e].text = docs[e].text /\ docs'[e].temp = docs[e].temp
           /\ e # d => docs'[e] = docs[e] /\ reading'[e] = reading[e]
      /\ reading'[d] = IF FileOf(d) = 0 THEN reading[d] ELSE reading[d] \cup {FileOf(d)}
  BY <1>1, BeginRecords
<1>3. UNCHANGED <<file, raced, overlap>>
  BY DEF IngestBegin, hist
<1>4. docs'[d].stage # "ready"
  <2>1. docs \in [1..Len(docs) -> DocTypes] /\ docs' = [docs EXCEPT ![d].stage = IF FileOf(d) = 0 THEN "failed" ELSE "loading"]
    BY <1>1, RecordTypes DEF IngestBegin
  <2> QED
    BY <2>1 DEF DocTypes
<1>5. \A e \in 1..Len(docs) : FileOf(e)' = FileOf(e) /\ FileOf(e) \in Nat
  BY <1>1, <1>2, <1>3, DocNumbers DEF FileOf, SameRecord
<1>6. ASSUME NEW e \in 1..Len(docs) PROVE Moves(e) /\ Begins(e)
  <2>1. CASE e # d
    <3>1. reading'[e] = reading[e] /\ docs'[e].text = docs[e].text /\ docs'[e].stage = docs[e].stage
      BY <1>2, <2>1
    <3> QED
      BY <1>1, <1>5, <3>1, GrowthMoves
  <2>2. CASE e = d
    <3>1. Moves(d)
      BY <1>2, <1>4, <1>5 DEF Moves
    <3>2. Outlives(d, FileOf(d))'
      BY <1>4, <1>5 DEF Outlives
    <3>3. Begins(d)
      <4> SUFFICES ASSUME NEW w \in reading'[d], w \notin reading[d] PROVE Outlives(d, w)'
        BY DEF Begins
      <4>1. w = FileOf(d)
        BY <1>2
      <4> QED
        BY <1>4, <1>5, <4>1 DEF Outlives
    <3> QED
      BY <2>2, <3>1, <3>3
  <2> QED
    BY <2>1, <2>2
<1>7. RecordsStay
  BY <1>1, <1>2, <1>3 DEF RecordsStay
<1>8. \A f \in DOMAIN Kind : file[f] <= file'[f]
  BY <1>1, <1>3, FilesAreNumbers
<1> QED
  BY <1>6, <1>7, <1>8 DEF DocsMove

\* The file that is removed has been read, unless that is a race; it is that of
\* no other record.
LEMMA CleanMoves ==
    ASSUME SourceInv, RecordInv, ReadInv, NEW d \in 1..Len(docs), NEW v \in reading[d], Cleans(d, v), overlap' = overlap,
           Len(docs') = Len(docs), docs[d].text \subseteq docs'[d].text, reading'[d] \subseteq reading[d],
           \A e \in 1..Len(docs) : SameRecord(e) /\ (e # d => docs'[e] = docs[e] /\ reading'[e] = reading[e]),
           \/ v \in docs'[d].text
           \/ docs[d].stage = "ready"
    PROVE  RecordsStay /\ DocsMove
<1>1. TypeOK /\ Len(docs) \in Nat /\ file \in [DOMAIN Kind -> Versions]
  BY RecordTypes DEF SourceInv, TypeOK
<1>2. /\ raced' = (raced \/ FileOf(d) > v)
      /\ file' = IF docs[d].type = "github" THEN [file EXCEPT ![docs[d].name] = 0] ELSE file
  BY DEF Cleans
<1>3. RecordsStay
  <2>1. Len(docs') \in Nat /\ Len(docs) <= Len(docs') /\ (\A e \in 1..Len(docs) : SameRecord(e))
    BY <1>1
  <2>2. \A e \in 1..Len(docs') : e \notin 1..Len(docs) => reading'[e] = {}
    OBVIOUS
  <2>3. (raced => raced') /\ (overlap => overlap')
    BY <1>2
  <2> QED
    BY <2>1, <2>2, <2>3 DEF RecordsStay
<1>4. ASSUME ~ raced', NEW e \in 1..Len(docs), Exact(e)', e # d PROVE Moves(e) /\ Begins(e)
  <2>1. docs'[e] = docs[e] /\ reading'[e] = reading[e]
    BY <1>4
  <2>2. FileOf(e)' = FileOf(e)
    <3>1. CASE docs[e].type = "github" /\ docs[d].type = "github"
      <4>1. ~ overlap
        BY <1>4, <2>1, <3>1 DEF Exact
      <4>2. docs[e].name # docs[d].name
        BY <1>4, <3>1, <4>1 DEF RecordInv, RecordsAreUnique, OneRecordPerFile
      <4> QED
        BY <1>2, <2>1, <4>2 DEF FileOf
    <3>2. CASE ~ (docs[e].type = "github" /\ docs[d].type = "github")
      BY <1>2, <2>1, <3>2 DEF FileOf
    <3> QED
      BY <3>1, <3>2
  <2> QED
    BY <1>1, <2>1, <2>2, GrowthMoves
<1>5. ASSUME ~ raced', Exact(d)' PROVE Moves(d) /\ Begins(d)
  <2>1. v \in Nat /\ FileOf(d) \in Nat /\ docs[d].text \subseteq Nat
    BY <1>1, DocNumbers
  <2>2. ~ raced /\ v >= FileOf(d)
    <3>1. ~ raced /\ ~ (FileOf(d) > v)
      BY <1>2, <1>5
    <3> QED
      BY <2>1, <3>1
  <2>3. \E u \in docs'[d].text : u >= FileOf(d)
    <3>1. CASE v \in docs'[d].text
      BY <2>2, <3>1
    <3>2. CASE docs[d].stage = "ready"
      <4>1. Exact(d)
        BY <1>5 DEF Exact, SameRecord
      <4>2. PICK u \in docs[d].text : u >= v
        BY <2>2, <3>2, <4>1 DEF ReadInv, Outlives
      <4>3. u >= FileOf(d)
        BY <2>1, <2>2, <4>2
      <4> QED
        BY <4>2, <4>3
    <3> QED
      BY <3>1, <3>2
  <2>4. Begins(d)
    BY DEF Begins
  <2> QED
    BY <2>3, <2>4 DEF Moves
<1>6. ASSUME NEW f \in DOMAIN Kind PROVE file[f] <= file'[f] \/ \E e \in 1..Len(docs) : IsNamed(e, "github", f)
  <2>1. CASE docs[d].type = "github" /\ docs[d].name = f
    BY <2>1 DEF IsNamed
  <2>2. CASE ~ (docs[d].type = "github" /\ docs[d].name = f)
    <3>1. file'[f] = file[f]
      BY <1>2, <2>2
    <3> QED
      BY <1>1, <3>1, FilesAreNumbers
  <2> QED
    BY <2>1, <2>2
<1> QED
  BY <1>3, <1>4, <1>5, <1>6 DEF DocsMove

\* An ingestion that ends or fails.
LEMMA IngestMoves ==
    ASSUME SourceInv, RecordInv, ReadInv, NEW d \in 1..Len(docs), IngestEnd(d) \/ IngestFails(d)
    PROVE  RecordsStay /\ DocsMove
<1>1. TypeOK /\ Len(docs) \in Nat
  BY RecordTypes DEF SourceInv
<1>2. overlap' = overlap
  BY DEF IngestEnd, IngestFails
<1>3. CASE IngestEnd(d)
  <2>1. PICK v \in reading[d] :
          /\ Len(docs') = Len(docs)
          /\ \A e \in 1..Len(docs) : SameRecord(e) /\ (e # d => docs'[e] = docs[e] /\ reading'[e] = reading[e])
          /\ docs'[d].text = docs[d].text \cup {v} /\ reading'[d] = reading[d] \ {v} /\ Cleans(d, v)
    BY <1>1, <1>3, EndRecords
  <2>2. docs[d].text \subseteq docs'[d].text /\ reading'[d] \subseteq reading[d] /\ v \in docs'[d].text
    BY <2>1
  <2> QED
    BY <1>2, <2>1, <2>2, CleanMoves
<1>4. CASE IngestFails(d)
  <2>1. PICK v \in reading[d] :
          /\ Len(docs') = Len(docs)
          /\ \A e \in 1..Len(docs) : /\ SameRecord(e) /\ docs'[e].text = docs[e].text
                                     /\ e # d => docs'[e] = docs[e] /\ reading'[e] = reading[e]
          /\ reading'[d] = reading[d] \ {v}
          /\ \/ /\ docs'[d].stage = "failed" /\ docs'[d].temp = docs[d].temp
                /\ UNCHANGED <<file, raced>>
             \/ /\ docs[d].stage = "ready" /\ docs'[d].stage = "ready" /\ docs'[d].temp = 0
                /\ Cleans(d, v) /\ d \in jobs'
             \/ docs' = docs /\ UNCHANGED <<file, raced>>
    BY <1>1, <1>4, FailRecords
  <2>2. docs[d].text \subseteq docs'[d].text /\ reading'[d] \subseteq reading[d]
    BY <2>1
  <2>3. CASE docs[d].stage = "ready" /\ Cleans(d, v)
    BY <1>2, <2>1, <2>2, <2>3, CleanMoves
  <2>4. CASE UNCHANGED <<file, raced>> /\ ((docs'[d].stage = "failed" /\ docs'[d].temp = docs[d].temp) \/ docs' = docs)
    <3>1. RecordsStay
      BY <1>1, <1>2, <2>1, <2>4 DEF RecordsStay
    <3>2. ASSUME NEW e \in 1..Len(docs) PROVE Moves(e) /\ Begins(e)
      <4>1. FileOf(e)' = FileOf(e) /\ FileOf(e) \in Nat
        BY <1>1, <2>1, <2>4, DocNumbers DEF FileOf, SameRecord
      <4>2. docs'[e].stage = "ready" => docs[e].stage = "ready"
        BY <2>1, <2>4
      <4>3. Moves(e)
        BY <2>1, <4>1, <4>2 DEF Moves
      <4>4. Begins(e)
        BY <2>1, <2>2 DEF Begins
      <4> QED
        BY <4>3, <4>4
    <3>3. \A f \in DOMAIN Kind : file[f] <= file'[f]
      BY <1>1, <2>4, FilesAreNumbers
    <3> QED
      BY <3>1, <3>2, <3>3 DEF DocsMove
  <2> QED
    BY <2>1, <2>3, <2>4
<1> QED
  BY <1>3, <1>4

\* A file that is indexed is no older than the one it replaces, unless two syncs
\* of the repository overlap.
LEMMA IndexMoves ==
    ASSUME SourceInv, ReadInv, NEW p \in Proc, IndexFile(p)
    PROVE  RecordsStay /\ DocsMove
<1>1. TypeOK /\ Len(docs) \in Nat /\ file \in [DOMAIN Kind -> Versions] /\ s[p].tree \in Nat
  BY SyncNumbers DEF TypeOK
<1>2. /\ UNCHANGED <<docs, reading, raced, overlap>> /\ s[p].pc = "index"
      /\ file' = [file EXCEPT ![Entry(p)] = s[p].tree]
  BY DEF IndexFile, hist
<1>3. RecordsStay
  BY <1>1, <1>2 DEF RecordsStay, SameRecord
<1>4. ASSUME ~ overlap', NEW f \in DOMAIN Kind PROVE file'[f] \in Nat /\ file[f] <= file'[f]
  <2>1. file[f] \in Nat /\ file[f] <= s[p].tree
    BY <1>1, <1>2, <1>4, FilesAreNumbers DEF ReadInv, Indexing
  <2>2. file'[f] \in {file[f], s[p].tree}
    BY <1>1, <1>2
  <2> QED
    BY <1>1, <2>1, <2>2
<1>5. ASSUME NEW e \in 1..Len(docs), Exact(e)' PROVE Moves(e) /\ Begins(e)
  <2>1. (FileOf(e)' \in Nat /\ FileOf(e) <= FileOf(e)') \/ FileOf(e)' = FileOf(e)
    <3>1. CASE docs[e].type = "github"
      <4>1. docs[e].name \in DOMAIN Kind
        BY <1>1, RecordTypes DEF DocTypes
      <4>2. ~ overlap'
        BY <1>2, <1>5, <3>1 DEF Exact
      <4> QED
        BY <1>2, <1>4, <3>1, <4>1, <4>2 DEF FileOf
    <3>2. CASE docs[e].type # "github"
      BY <1>2, <3>2 DEF FileOf
    <3> QED
      BY <3>1, <3>2
  <2> QED
    BY <1>1, <1>2, <2>1, GrowthMoves
<1> QED
  BY <1>3, <1>4, <1>5 DEF DocsMove

\* Records that are made or queued again keep their files; a page gets the
\* newest.
LEMMA QueuedMoves ==
    ASSUME SourceInv, ReadInv, NEW p \in Proc, Flush(p) \/ IndexPage(p) \/ Dispatches(p)
    PROVE  RecordsStay /\ DocsMove
<1>1. TypeOK /\ Len(docs) \in Nat /\ Len(s[p].fresh) \in Nat /\ remote \in Nat
  BY SyncNumbers
<1>2. UNCHANGED <<file, raced, overlap>>
  BY DEF Flush, IndexPage, Dispatches, StartThreads, Enqueue, MarkQueued, hist
<1>3. \A f \in DOMAIN Kind : file[f] <= file'[f]
  BY <1>1, <1>2, FilesAreNumbers
<1>4. ASSUME NEW e \in 1..Len(docs), SameRecord(e), docs'[e].text = docs[e].text, reading'[e] = reading[e],
             docs'[e].stage = "ready" => docs[e].stage = "ready", docs'[e].temp \in {docs[e].temp, remote}
      PROVE  Moves(e) /\ Begins(e)
  <2>1. (FileOf(e)' \in Nat /\ FileOf(e) <= FileOf(e)') \/ FileOf(e)' = FileOf(e)
    <3>1. CASE docs[e].type = "github"
      BY <1>2, <1>4, <3>1 DEF FileOf, SameRecord
    <3>2. CASE docs[e].type # "github"
      <4>1. FileOf(e) = docs[e].temp /\ FileOf(e)' = docs'[e].temp
        BY <1>4, <3>2 DEF FileOf, SameRecord
      <4>2. docs[e].temp <= remote
        BY DEF ReadInv
      <4> QED
        BY <1>1, <1>4, <4>1, <4>2
    <3> QED
      BY <3>1, <3>2
  <2> QED
    BY <1>1, <1>4, <2>1, GrowthMoves
<1>5. CASE Flush(p)
  <2> DEFINE m == Len(docs)
             n == Len(s[p].fresh)
  <2>1. /\ Len(docs') = m + n
        /\ \A e \in 1..m :
             /\ SameRecord(e) /\ docs'[e].temp = docs[e].temp /\ docs'[e].text = docs[e].text
             /\ reading'[e] = reading[e]
             /\ docs'[e].stage = IF e \in s[p].pend THEN "queued" ELSE docs[e].stage
        /\ \A i \in 1..n : reading'[m + i] = {}
    BY <1>1, <1>5, FlushRecords
  <2>2. ASSUME NEW e \in 1..Len(docs'), e \notin 1..Len(docs) PROVE reading'[e] = {}
    <3> HIDE DEF m, n
    <3>1. e - m \in 1..n /\ e = m + (e - m)
      BY <1>1, <2>1, <2>2 DEF m, n
    <3> QED
      BY <2>1, <3>1
  <2>3. RecordsStay
    BY <1>1, <1>2, <2>1, <2>2 DEF RecordsStay
  <2>4. \A e \in 1..Len(docs) : Moves(e) /\ Begins(e)
    BY <1>4, <2>1
  <2> QED
    BY <1>3, <2>3, <2>4 DEF DocsMove
<1>6. CASE IndexPage(p)
  <2>1. PICK d \in 1..Len(docs') :
          /\ \A e \in 1..Len(docs) : /\ SameRecord(e) /\ reading'[e] = reading[e]
                                     /\ docs'[e].text = docs[e].text
                                     /\ e # d => docs'[e] = docs[e]
          /\ docs'[d].temp = remote /\ docs'[d].stage = "queued"
          /\ \/ d \in Found(p) /\ docs[d].temp # 0 /\ Len(docs') = Len(docs)
             \/ d = Len(docs) + 1 /\ Len(docs') = d /\ reading'[d] = {}
    <3>1. s[p].at <= Len(Files)
      BY <1>6 DEF IndexPage, More
    <3> QED
      BY <1>1, <1>6, <3>1, PageRecords
  <2>2. \A e \in 1..Len(docs') : e \notin 1..Len(docs) => e = d /\ reading'[d] = {}
    BY <1>1, <2>1
  <2>3. Len(docs') \in Nat /\ Len(docs) <= Len(docs')
    BY <1>1, <2>1
  <2>4. RecordsStay
    BY <1>2, <2>1, <2>2, <2>3 DEF RecordsStay
  <2>5. \A e \in 1..Len(docs) : Moves(e) /\ Begins(e)
    BY <1>4, <2>1
  <2> QED
    BY <1>3, <2>4, <2>5 DEF DocsMove
<1>7. CASE Dispatches(p)
  <2>1. /\ Len(docs') = Len(docs) /\ reading' = reading
        /\ \A e \in 1..Len(docs) :
             /\ SameRecord(e) /\ docs'[e].temp = docs[e].temp /\ docs'[e].text = docs[e].text
             /\ docs'[e].stage \in {docs[e].stage, "queued"}
    BY <1>1, <1>7, DispatchesRecords
  <2>2. RecordsStay
    BY <1>1, <1>2, <2>1 DEF RecordsStay
  <2>3. \A e \in 1..Len(docs) : Moves(e) /\ Begins(e)
    BY <1>4, <2>1
  <2> QED
    BY <1>3, <2>2, <2>3 DEF DocsMove
<1> QED
  BY <1>5, <1>6, <1>7

\* No step takes more of the documents than that.
LEMMA StepMoves == SourceInv /\ RecordInv /\ ReadInv /\ [Next]_vars => RecordsStay /\ DocsMove
<1> SUFFICES ASSUME SourceInv, RecordInv, ReadInv, [Next]_vars PROVE RecordsStay /\ DocsMove
  OBVIOUS
<1>1. CASE UNCHANGED vars
  BY <1>1, QuietMoves DEF vars, store, hist
<1>2. CASE Push \/ User
  <2>1. UNCHANGED <<docs, file, reading, raced>> /\ (overlap => overlap')
    BY <1>2 DEF Push, User, Authorize, Disconnect, HubConnect, HubDisconnect, Connected, store, hist
  <2> QED
    BY <2>1, QuietMoves
<1>3. CASE Ingest
  <2>1. PICK d \in 1..Len(docs) : IngestBegin(d) \/ IngestEnd(d) \/ IngestFails(d) \/ ThreadDies(d)
    BY <1>3 DEF Ingest
  <2>2. CASE ThreadDies(d)
    <3>1. UNCHANGED <<docs, file, reading, raced>> /\ (overlap => overlap')
      BY <2>2 DEF ThreadDies, hist
    <3> QED
      BY <3>1, QuietMoves
  <2> QED
    BY <2>1, <2>2, BeginMoves, IngestMoves
<1>4. ASSUME NEW p \in Proc, QuietStep(p) PROVE RecordsStay /\ DocsMove
  BY <1>4, QuietSteps, QuietMoves
<1>5. ASSUME NEW p \in Proc, Starts(p) \/ SyncStep(p) \/ SyncError(p) PROVE RecordsStay /\ DocsMove
  <2>1. QuietStep(p) \/ IndexFile(p) \/ Flush(p) \/ IndexPage(p) \/ Dispatches(p)
    BY <1>5 DEF SyncStep, SyncError, QuietStep, Dispatches
  <2> QED
    BY <1>4, <2>1, IndexMoves, QueuedMoves
<1> QED
  BY <1>1, <1>2, <1>3, <1>5 DEF Next

\* What a record or a document backs with its file or text, it goes on to back.
LEMMA OutlivesStay ==
    ASSUME TypeOK, TypeOK', NEW e \in 1..Len(docs), e \in 1..Len(docs'), Moves(e), NEW v \in Nat, Outlives(e, v)
    PROVE  Outlives(e, v)'
<1>1. FileOf(e) \in Nat /\ docs[e].text \subseteq Nat
  BY DocNumbers
<1>2. docs'[e].text \subseteq Nat
  <2>1. docs' \in Seq(DocTypes)
    BY DEF TypeOK
  <2>2. docs'[e] \in DocTypes
    BY <2>1, ElementOfSeq
  <2> QED
    BY <2>2, LimitAssumption DEF DocTypes, Versions
<1>3. CASE \E u \in docs[e].text : u >= v
  BY <1>3 DEF Outlives, Moves
<1>4. CASE docs[e].stage # "ready" /\ FileOf(e) >= v
  <2>1. CASE (docs'[e].stage = "ready" => docs[e].stage = "ready") /\ FileOf(e)' \in Nat /\ FileOf(e) <= FileOf(e)'
    <3>1. FileOf(e)' >= v /\ docs'[e].stage # "ready"
      BY <1>1, <1>4, <2>1
    <3> QED
      BY <3>1 DEF Outlives
  <2>2. CASE \E u \in docs'[e].text : u >= FileOf(e)
    <3>1. PICK u \in docs'[e].text : u >= FileOf(e)
      BY <2>2
    <3>2. u >= v
      BY <1>1, <1>2, <1>4, <3>1
    <3> QED
      BY <3>1, <3>2 DEF Outlives
  <2> QED
    BY <2>1, <2>2 DEF Moves
<1> QED
  BY <1>3, <1>4 DEF Outlives

\* A version that a record reaches is backed, even while it is being read.
LEMMA ReachesOutlives ==
    ASSUME TypeOK, ReadInv, ~ raced, NEW e \in 1..Len(docs), Exact(e), NEW v \in Nat, Reaches(e, v)
    PROVE  Outlives(e, v)
<1>1. FileOf(e) \in Nat /\ docs[e].text \subseteq Nat /\ reading[e] \subseteq Nat
  BY DocNumbers
<1>2. CASE \E w \in reading[e] : w >= v
  <2>1. PICK w \in reading[e] : w >= v
    BY <1>2
  <2>2. Outlives(e, w)
    BY <2>1 DEF ReadInv
  <2>3. CASE docs[e].stage # "ready" /\ FileOf(e) >= w
    <3>1. FileOf(e) >= v
      BY <1>1, <2>1, <2>3
    <3> QED
      BY <2>3, <3>1 DEF Outlives
  <2>4. CASE \E u \in docs[e].text : u >= w
    <3>1. PICK u \in docs[e].text : u >= w
      BY <2>4
    <3>2. u >= v
      BY <1>1, <2>1, <3>1
    <3> QED
      BY <3>1, <3>2 DEF Outlives
  <2> QED
    BY <2>2, <2>3, <2>4 DEF Outlives
<1>3. CASE (\E w \in docs[e].text : w >= v) \/ (docs[e].stage # "ready" /\ FileOf(e) >= v)
  BY <1>3 DEF Outlives
<1> QED
  BY <1>2, <1>3 DEF Reaches

-----------------------------------------------------------------------------
(* What is being read outlives its ingestion *)

\* A sync is at the files of the tree it was at, or of the newest.
TreeMoves(q) ==
    s'[q].pc \in Indexing => s'[q].tree = remote \/ (s[q].pc \in Indexing /\ s'[q].tree = s[q].tree)

\* A sync that is replaced by one that is.
LEMMA TurnMovesTrees ==
    ASSUME TypeOK, NEW p \in Proc, NEW r, Turns(p, r),
           r.pc \in Indexing => r.tree = remote \/ (s[p].pc \in Indexing /\ r.tree = s[p].tree)
    PROVE  \A q \in Proc : TreeMoves(q)
  BY TurnsOnlyOne DEF TreeMoves

\* Every step of a sync is of that kind.
LEMMA SyncMovesTrees ==
    ASSUME SourceInv, NEW p \in Proc, Starts(p) \/ SyncStep(p) \/ SyncError(p)
    PROVE  \A q \in Proc : TreeMoves(q)
<1>0. TypeOK /\ Shape(p) /\ s[p] \in SyncTypes /\ MaxStarts \in Nat /\ s[p].type \in Types
  BY SyncNumbers
<1>1. ASSUME Ends(p) PROVE \A q \in Proc : TreeMoves(q)
  <2>1. Turns(p, Idle) /\ Idle.pc \notin Indexing
    BY <1>0, <1>1, EndsTurns, IdleIsTyped DEF Indexing
  <2> QED
    BY <1>0, <2>1, TurnMovesTrees
<1>2. ASSUME MarkFailed(p) \/ Raises(p) \/ Returns(p) \/ Lost(p) PROVE \A q \in Proc : TreeMoves(q)
  BY <1>1, <1>2 DEF MarkFailed, Lost, Raises, Returns, Recorded
<1>3. ASSUME NEW new \in SyncTypes, FindCollection(p, new) PROVE \A q \in Proc : TreeMoves(q)
  <2>1. PICK r : Turns(p, r) /\ (r.pc = "create" \/ r.pc = After(s[p].type))
    BY <1>0, <1>3, FindTurns
  <2>2. r.pc \notin Indexing
    BY <2>1 DEF After, Indexing
  <2> QED
    BY <1>0, <2>1, <2>2, TurnMovesTrees
<1>4. ASSUME NEW t \in Types, NEW k \in 0..MaxStarts, Start(p, t, k) PROVE \A q \in Proc : TreeMoves(q)
  <2>1. PICK r : Turns(p, r) /\ Begun(r, t, k)
    BY <1>0, <1>4, StartTurns
  <2>2. r.pc \notin Indexing
    BY <2>1 DEF Begun, Indexing
  <2> QED
    BY <1>0, <2>1, <2>2, TurnMovesTrees
<1>5. CASE Starts(p)
  <2>1. CASE RouteSync(p) \/ MonitorSync(p)
    BY <1>0, <1>4, <2>1 DEF RouteSync, MonitorSync, Types
  <2>2. ASSUME NEW t \in Types, HubSync(p, t) PROVE \A q \in Proc : TreeMoves(q)
    <3>1. CASE NoRepository(t)
      BY <2>2, <3>1 DEF HubSync, TreeMoves
    <3>2. CASE ~ NoRepository(t)
      <4>1. Start(p, t, starts + 1) /\ starts < MaxStarts
        BY <2>2, <3>2 DEF HubSync, Start
      <4>2. starts + 1 \in 0..MaxStarts
        BY <4>1, SyncNumbers
      <4> QED
        BY <1>4, <4>1, <4>2
    <3> QED
      BY <3>1, <3>2
  <2> QED
    BY <1>5, <2>1, <2>2 DEF Starts
<1>6. CASE ReadHead(p)
  <2>1. CASE Returns(p)
    BY <1>2, <2>1
  <2>2. CASE FindCollection(p, [s[p] EXCEPT !.head = remote])
    <3> DEFINE new == [s[p] EXCEPT !.head = remote]
    <3>1. new \in SyncTypes
      <4>1. remote \in Versions
        BY SyncNumbers
      <4> QED
        BY <1>0, <4>1, ZenonT(60) DEF SyncTypes
    <3>2. FindCollection(p, new)
      BY <2>2
    <3> HIDE DEF new
    <3> QED
      BY <1>3, <3>1, <3>2
  <2> QED
    BY <1>6, <2>1, <2>2 DEF ReadHead
<1>7. CASE ListPages(p)
  BY <1>0, <1>3, <1>7 DEF ListPages
<1>8. CASE CreateCollection(p)
  <2>1. PICK r : Turns(p, r) /\ r.pc = After(s[p].type)
    BY <1>0, <1>8, CreateTurns
  <2>2. r.pc \notin Indexing
    BY <2>1 DEF After, Indexing
  <2> QED
    BY <1>0, <2>1, <2>2, TurnMovesTrees
<1>9. CASE Announce(p)
  <2>1. CASE s' = [s EXCEPT ![p].pc = "download", ![p].known = TRUE]
    <3>1. PICK r : Turns(p, r) /\ r.pc = "download"
      BY <1>0, <2>1, AnnounceTurns
    <3>2. r.pc \notin Indexing
      BY <3>1 DEF Indexing
    <3> QED
      BY <1>0, <3>1, <3>2, TurnMovesTrees
  <2> QED
    BY <1>2, <1>9, <2>1 DEF Announce
<1>10. CASE Download(p)
  <2>1. s' = [s EXCEPT ![p].pc = "index", ![p].tree = remote]
    BY <1>10 DEF Download
  <2>2. PICK r : Turns(p, r) /\ r.tree = remote
    BY <1>0, <2>1, DownloadTurns
  <2> QED
    BY <1>0, <2>2, TurnMovesTrees
<1>11. CASE IndexFile(p)
  <2>1. PICK r : Turns(p, r) /\ IndexedWith(p, r)
    BY <1>11, IndexedTurns
  <2>2. r.tree = s[p].tree
    BY <2>1 DEF IndexedWith, Indexed, SameHead
  <2>3. s[p].pc \in Indexing
    BY <1>11 DEF IndexFile, Indexing
  <2> QED
    BY <1>0, <2>1, <2>2, <2>3, TurnMovesTrees
<1>12. CASE SkipFile(p)
  <2>1. s[p].at <= Len(Files) /\ s' = [s EXCEPT ![p].at = Upcoming(@ + 1)] /\ s[p].pc \in Indexing
    BY <1>12 DEF SkipFile, Full, More, Indexing
  <2>2. PICK r : Turns(p, r) /\ SameHead(r, s[p])
    BY <1>0, <2>1, SkipTurns
  <2>3. r.tree = s[p].tree
    BY <2>2 DEF SameHead
  <2> QED
    BY <1>0, <2>1, <2>2, <2>3, TurnMovesTrees
<1>13. CASE Flush(p)
  <2>1. PICK r : Turns(p, r) /\ SameHead(r, s[p])
    BY <1>0, <1>13, FlushTurns
  <2>2. r.tree = s[p].tree /\ s[p].pc \in Indexing
    BY <1>13, <2>1 DEF SameHead, Flush, Indexing
  <2> QED
    BY <1>0, <2>1, <2>2, TurnMovesTrees
<1>14. CASE Dispatches(p)
  <2>1. PICK r : Turns(p, r) /\ SameHead(r, s[p]) /\ r.pc = s[p].pc
    BY <1>0, <1>14, DispatchesTurns
  <2>2. r.tree = s[p].tree
    BY <2>1 DEF SameHead
  <2> QED
    BY <1>0, <2>1, <2>2, TurnMovesTrees
<1>15. CASE DispatchAll(p)
  <2>1. PICK r : Turns(p, r) /\ SameHead(r, s[p])
    BY <1>0, <1>15, DispatchTurns
  <2>2. r.tree = s[p].tree /\ s[p].pc \in Indexing
    BY <1>15, <2>1 DEF SameHead, DispatchAll, Goes, Indexing
  <2> QED
    BY <1>0, <2>1, <2>2, TurnMovesTrees
<1>16. CASE IndexPage(p)
  <2>1. s[p].at <= Len(Files)
    BY <1>16 DEF IndexPage, More
  <2>2. PICK d \in 1..Len(docs') : Sends(p, d)
    BY <1>0, <1>16, <2>1, PageRecords
  <2>3. d \in Nat
    OBVIOUS
  <2>4. PICK r : Turns(p, r) /\ r.pc = "send"
    BY <1>0, <2>2, <2>3, SendsTurns
  <2>5. r.pc \notin Indexing
    BY <2>4 DEF Indexing
  <2> QED
    BY <1>0, <2>4, <2>5, TurnMovesTrees
<1>17. CASE SendPage(p)
  <2>1. s[p].at <= Len(Files) /\ s[p].count < s[p].at
    BY <1>0, <1>17 DEF SendPage, Shape
  <2>2. PICK r : Turns(p, r) /\ r.pc = "page"
    BY <1>0, <1>17, <2>1, SendPageTurns
  <2>3. r.pc \notin Indexing
    BY <2>2 DEF Indexing
  <2> QED
    BY <1>0, <2>2, <2>3, TurnMovesTrees
<1>18. CASE Finish(p) \/ SyncFails(p) \/ DispatchFails(p) \/ PagesDone(p) \/ PagesFail(p) \/ Break(p)
  <2>1. MarkFailed(p) \/ Raises(p) \/ Returns(p) \/ Ends(p)
    BY <1>18 DEF Finish, SyncFails, DispatchFails, PagesDone, PagesFail, Break
  <2> QED
    BY <1>1, <1>2, <2>1
<1> QED
  BY <1>5, <1>6, <1>7, <1>8, <1>9, <1>10, <1>11, <1>12, <1>13, <1>14, <1>15, <1>16, <1>17, <1>18
     DEF SyncStep, SyncError, Dispatches

\* Files on disk are those there were, unless one is removed or a sync writes
\* it; a page's file is the same, removed, or the newest.
OlderFiles == \A f \in DOMAIN Kind : file'[f] \in {0, file[f]}
TempMoves == \A d \in 1..Len(docs') : docs'[d].temp \in {0, remote} \/ (d \in 1..Len(docs) /\ docs'[d].temp = docs[d].temp)
FilesMove ==
    /\ remote' \in Nat /\ remote <= remote' /\ TempMoves
    /\ OlderFiles \/ \E p \in Proc : IndexFile(p)
    /\ \A q \in Proc : TreeMoves(q)
    /\ overlap => overlap'

\* A file that is cleaned is removed, if at all.
LEMMA CleansOlder ==
    ASSUME TypeOK, NEW d, NEW v, Cleans(d, v)
    PROVE  OlderFiles
  BY DEF Cleans, OlderFiles, TypeOK

\* Every step moves files so.
LEMMA StepMovesFiles ==
    ASSUME SourceInv, SourceInv', [Next]_vars, RecordsStay
    PROVE  FilesMove
<1>0. /\ TypeOK /\ Len(docs) \in Nat /\ remote \in Nat /\ remote' \in Nat /\ (overlap => overlap')
      /\ file \in [DOMAIN Kind -> Versions]
  <2>1. TypeOK /\ Len(docs) \in Nat
    BY RecordTypes DEF SourceInv
  <2>2. remote \in Nat /\ remote' \in Nat
    BY LimitAssumption DEF SourceInv, TypeOK, Versions
  <2> QED
    BY <2>1, <2>2 DEF RecordsStay, TypeOK
<1>1. ASSUME s' = s PROVE \A q \in Proc : TreeMoves(q)
  BY <1>1 DEF TreeMoves
<1>2. ASSUME docs' = docs PROVE TempMoves
  BY <1>2 DEF TempMoves
<1>3. ASSUME file' = file PROVE OlderFiles
  BY <1>3 DEF OlderFiles
<1>4. CASE UNCHANGED vars
  <2>1. s' = s /\ docs' = docs /\ file' = file /\ remote' = remote
    BY <1>4 DEF vars, world, store
  <2> QED
    BY <1>0, <1>1, <1>2, <1>3, <2>1 DEF FilesMove
<1>5. CASE Push \/ User
  <2>1. s' = s /\ docs' = docs /\ file' = file /\ remote' \in {remote, remote + 1}
    BY <1>5 DEF Push, User, Authorize, Disconnect, HubConnect, HubDisconnect, Connected, store
  <2> QED
    BY <1>0, <1>1, <1>2, <1>3, <2>1 DEF FilesMove
<1>6. CASE Ingest
  <2>1. PICK d \in 1..Len(docs) : IngestBegin(d) \/ IngestEnd(d) \/ IngestFails(d) \/ ThreadDies(d)
    BY <1>6 DEF Ingest
  <2>2. s' = s /\ remote' = remote
    BY <2>1 DEF IngestBegin, IngestEnd, IngestFails, ThreadDies, world
  <2>3. CASE IngestBegin(d)
    <3>1. file' = file
      BY <2>3 DEF IngestBegin
    <3>2. Len(docs') = Len(docs) /\ \A e \in 1..Len(docs) : docs'[e].temp = docs[e].temp
      BY <1>0, <2>3, BeginRecords
    <3>3. TempMoves
      BY <3>2 DEF TempMoves
    <3> QED
      BY <1>0, <1>1, <1>3, <2>2, <3>1, <3>3 DEF FilesMove
  <2>4. CASE IngestEnd(d)
    <3>1. PICK v \in reading[d] :
             /\ Len(docs') = Len(docs) /\ (\A e \in 1..Len(docs) : e # d => docs'[e] = docs[e])
             /\ docs'[d].temp = 0 /\ Cleans(d, v)
      BY <1>0, <2>4, EndRecords
    <3>2. TempMoves
      BY <3>1 DEF TempMoves
    <3> QED
      BY <1>0, <1>1, <2>2, <3>1, <3>2, CleansOlder DEF FilesMove
  <2>5. CASE IngestFails(d)
    <3>1. PICK v \in reading[d] :
             /\ Len(docs') = Len(docs) /\ (\A e \in 1..Len(docs) : e # d => docs'[e] = docs[e])
             /\ \/ docs'[d].temp = docs[d].temp /\ file' = file
                \/ docs'[d].temp = 0 /\ Cleans(d, v)
                \/ docs' = docs /\ file' = file
      BY <1>0, <2>5, FailRecords
    <3>2. TempMoves
      BY <3>1 DEF TempMoves
    <3>3. OlderFiles
      BY <1>0, <1>3, <3>1, CleansOlder
    <3> QED
      BY <1>0, <1>1, <2>2, <3>2, <3>3 DEF FilesMove
  <2>6. CASE ThreadDies(d)
    <3>1. docs' = docs /\ file' = file
      BY <2>6 DEF ThreadDies
    <3> QED
      BY <1>0, <1>1, <1>2, <1>3, <2>2, <3>1 DEF FilesMove
  <2> QED
    BY <2>1, <2>3, <2>4, <2>5, <2>6
<1>7. ASSUME NEW p \in Proc, Starts(p) \/ SyncStep(p) \/ SyncError(p) PROVE FilesMove
  <2>0. \A q \in Proc : TreeMoves(q)
    BY <1>7, SyncMovesTrees
  <2>1. CASE QuietStep(p)
    <3>1. docs' = docs /\ file' = file /\ remote' = remote
      BY <2>1, QuietSteps
    <3> QED
      BY <1>0, <1>2, <1>3, <2>0, <3>1 DEF FilesMove
  <2>2. CASE IndexFile(p)
    <3>1. docs' = docs /\ remote' = remote
      BY <2>2 DEF IndexFile, world
    <3> QED
      BY <1>0, <1>2, <2>0, <2>2, <3>1 DEF FilesMove
  <2>3. CASE Flush(p)
    <3> DEFINE m == Len(docs)
               n == Len(s[p].fresh)
    <3>1. /\ Len(docs') = m + n /\ (\A d \in 1..m : docs'[d].temp = docs[d].temp)
          /\ \A i \in 1..n : docs'[m + i] = NewDoc(p, s[p].fresh[i], 0)
      BY <1>0, <2>3, FlushRecords
    <3>2. m \in Nat /\ n \in Nat
      BY SyncNumbers
    <3> HIDE DEF m, n
    <3>3. ASSUME NEW i \in 1..n PROVE docs'[m + i].temp = 0
      <4>1. docs'[m + i] = NewDoc(p, s[p].fresh[i], 0)
        BY <3>1
      <4>2. NewDoc(p, s[p].fresh[i], 0).temp = 0
        BY DEF NewDoc
      <4> QED
        BY <4>1, <4>2
    <3>4. TempMoves
      <4> SUFFICES ASSUME NEW d \in 1..(m + n) PROVE docs'[d].temp = 0 \/ (d \in 1..m /\ docs'[d].temp = docs[d].temp)
        BY <3>1 DEF TempMoves, m
      <4>1. CASE d \in 1..m
        BY <3>1, <4>1
      <4>2. CASE d \notin 1..m
        <5>1. d - m \in 1..n /\ d = m + (d - m)
          BY <3>2, <4>2
        <5> QED
          BY <3>3, <5>1
      <4> QED
        BY <4>1, <4>2
    <3>5. file' = file /\ remote' = remote
      BY <2>3 DEF Flush, world
    <3> QED
      BY <1>0, <1>3, <2>0, <3>4, <3>5 DEF FilesMove
  <2>4. CASE IndexPage(p)
    <3>1. s[p].at <= Len(Files)
      BY <2>4 DEF IndexPage, More
    <3>2. PICK d \in 1..Len(docs') :
             /\ \A e \in 1..Len(docs) : e # d => docs'[e] = docs[e]
             /\ docs'[d].temp = remote
             /\ (d \in Found(p) /\ Len(docs') = Len(docs)) \/ (d = Len(docs) + 1 /\ Len(docs') = d)
      BY <1>0, <2>4, <3>1, PageRecords
    <3>3. \A e \in 1..Len(docs') : e = d \/ (e \in 1..Len(docs) /\ docs'[e] = docs[e])
      BY <1>0, <3>2
    <3>4. TempMoves
      BY <3>2, <3>3 DEF TempMoves
    <3>5. file' = file /\ remote' = remote
      BY <2>4 DEF IndexPage, world
    <3> QED
      BY <1>0, <1>3, <2>0, <3>4, <3>5 DEF FilesMove
  <2>5. CASE Dispatches(p)
    <3>1. /\ Len(docs') = Len(docs) /\ (\A d \in 1..Len(docs) : docs'[d].temp = docs[d].temp)
          /\ UNCHANGED <<world, file>>
      BY <1>0, <2>5, DispatchesRecords
    <3>2. TempMoves /\ remote' = remote
      BY <3>1 DEF TempMoves, world
    <3> QED
      BY <1>0, <1>3, <2>0, <3>1, <3>2 DEF FilesMove
  <2> QED
    BY <1>7, <2>1, <2>2, <2>3, <2>4, <2>5 DEF SyncStep, SyncError, QuietStep, Dispatches
<1> QED
  BY <1>4, <1>5, <1>6, <1>7 DEF Next

\* Every step keeps what is being read in the file of its document or
\* searchable, and files no newer than the content.
LEMMA ReadStep == SourceInv /\ SourceInv' /\ RecordInv /\ ReadInv /\ [Next]_vars => ReadInv'
<1> SUFFICES ASSUME SourceInv, SourceInv', RecordInv, ReadInv, [Next]_vars PROVE ReadInv'
  OBVIOUS
<1>0. /\ TypeOK /\ TypeOK' /\ remote \in Nat /\ \A f \in DOMAIN Kind : file[f] \in Nat
  BY LimitAssumption, FilesAreNumbers DEF SourceInv, TypeOK, Versions
<1>1. RecordsStay /\ DocsMove
  BY StepMoves
<1>2. FilesMove
  BY <1>1, StepMovesFiles
<1>3. ASSUME NEW p \in Proc, IndexFile(p)
      PROVE  /\ file' = [file EXCEPT ![Entry(p)] = s[p].tree] /\ s[p].pc \in Indexing
             /\ s[p].tree \in Nat /\ s[p].tree <= remote
  <2>1. file' = [file EXCEPT ![Entry(p)] = s[p].tree] /\ s[p].pc \in Indexing
    BY <1>3 DEF IndexFile, Indexing
  <2>2. s[p].tree \in s[p].head .. remote /\ s[p].tree \in Nat /\ s[p].head \in Nat
    BY <2>1, SyncNumbers DEF Shape
  <2> QED
    BY <1>0, <2>1, <2>2
<1>4. ASSUME NEW f \in DOMAIN Kind PROVE file'[f] <= remote' /\ file'[f] \in Nat
  <2>1. file[f] <= remote /\ remote <= remote' /\ remote' \in Nat
    BY <1>2 DEF ReadInv, FilesMove
  <2>2. CASE OlderFiles
    BY <1>0, <2>1, <2>2 DEF OlderFiles
  <2>3. ASSUME NEW p \in Proc, IndexFile(p) PROVE file'[f] <= remote' /\ file'[f] \in Nat
    <3>1. s[p].tree \in Nat /\ s[p].tree <= remote /\ file'[f] \in {file[f], s[p].tree}
      BY <1>0, <1>3, <2>3 DEF TypeOK
    <3> QED
      BY <1>0, <2>1, <3>1
  <2> QED
    BY <1>2, <2>2, <2>3 DEF FilesMove
<1>5. ASSUME NEW d \in 1..Len(docs') PROVE docs'[d].temp <= remote'
  <2>1. remote <= remote' /\ remote' \in Nat
    BY <1>2 DEF FilesMove
  <2>2. CASE docs'[d].temp \in {0, remote}
    BY <1>0, <2>1, <2>2
  <2>3. CASE d \in 1..Len(docs) /\ docs'[d].temp = docs[d].temp
    <3>1. docs[d].temp \in Nat /\ docs[d].temp <= remote
      BY <1>0, <2>3, DocNumbers DEF ReadInv
    <3> QED
      BY <1>0, <2>1, <2>3, <3>1
  <2> QED
    BY <1>2, <2>2, <2>3 DEF FilesMove, TempMoves
<1>6. ASSUME ~ overlap', NEW q \in Proc, NEW f \in DOMAIN Kind, s'[q].pc \in Indexing PROVE file'[f] <= s'[q].tree
  <2>1. ~ overlap /\ TreeMoves(q) /\ file[f] <= remote
    BY <1>2, <1>6 DEF FilesMove, ReadInv
  <2>2. CASE OlderFiles
    <3>1. CASE s'[q].tree = remote
      BY <1>0, <2>1, <2>2, <3>1 DEF OlderFiles
    <3>2. CASE s[q].pc \in Indexing /\ s'[q].tree = s[q].tree
      <4>1. file[f] <= s[q].tree /\ s[q].tree \in Nat
        BY <2>1, <3>2, SyncNumbers DEF ReadInv
      <4> QED
        BY <1>0, <2>2, <3>2, <4>1 DEF OlderFiles
    <3> QED
      BY <1>6, <2>1, <3>1, <3>2 DEF TreeMoves
  <2>3. ASSUME NEW p \in Proc, IndexFile(p) PROVE file'[f] <= s'[q].tree
    <3>1. s[p].tree \in Nat /\ s[p].tree <= remote /\ file'[f] \in {file[f], s[p].tree} /\ s[p].pc \in Indexing
      BY <1>0, <1>3, <2>3 DEF TypeOK
    <3>2. CASE s'[q].tree = remote
      BY <1>0, <2>1, <3>1, <3>2
    <3>3. CASE s[q].pc \in Indexing /\ s'[q].tree = s[q].tree
      <4>1. p = q
        <5>1. s[p].type = "github" /\ s[q].type = "github" /\ UnderWay(p) /\ UnderWay(q)
          BY <3>1, <3>3, SyncNumbers DEF Shape, GithubSteps, UnderWay, Indexing
        <5> QED
          BY <2>1, <5>1 DEF RecordInv, Apart
      <4>2. file[f] <= s[q].tree
        BY <2>1, <3>3 DEF ReadInv
      <4> QED
        BY <3>1, <3>3, <4>1, <4>2
    <3> QED
      BY <1>6, <2>1, <3>2, <3>3 DEF TreeMoves
  <2> QED
    BY <1>2, <2>2, <2>3 DEF FilesMove
<1>7. ASSUME ~ raced', NEW d \in 1..Len(docs'), Exact(d)', NEW w \in reading'[d] PROVE Outlives(d, w)'
  <2>1. d \in 1..Len(docs) /\ ~ raced
    BY <1>1, <1>7 DEF RecordsStay
  <2>2. Moves(d) /\ Begins(d) /\ SameRecord(d)
    BY <1>1, <1>7, <2>1 DEF DocsMove, RecordsStay
  <2>3. CASE w \in reading[d]
    <3>1. Exact(d)
      BY <1>1, <1>7, <2>2 DEF Exact, SameRecord, RecordsStay
    <3>2. Outlives(d, w) /\ w \in Nat
      BY <1>0, <2>1, <2>3, <3>1, DocNumbers DEF ReadInv
    <3> QED
      BY <1>0, <1>7, <2>1, <2>2, <3>2, OutlivesStay
  <2> QED
    BY <1>7, <2>2, <2>3 DEF Begins
<1> QED
  BY <1>4, <1>5, <1>6, <1>7 DEF ReadInv

\* Nothing is being read to begin with.
LEMMA ReadInit == Init => ReadInv
<1> SUFFICES ASSUME Init PROVE ReadInv
  OBVIOUS
<1>1. /\ \A p \in Proc : s[p] = Idle
      /\ docs = <<>> /\ remote = 1 /\ \A f \in DOMAIN Kind : file[f] = 0
  BY DEF Init
<1>2. Len(docs) = 0 /\ Idle.pc = "idle"
  BY <1>1, EmptySeq, IdleIsTyped
<1> QED
  BY <1>1, <1>2 DEF ReadInv, Indexing

-----------------------------------------------------------------------------
(* What is in the documents stays *)

\* From step to step every record keeps the versions it reaches, and every file
\* that is counted its copy on disk or its text.
ReachesKept(t) == \A d \in 1..Len(docs), v \in Nat : docs[d].type = t /\ Reaches(d, v) => Reaches(d, v)'
PresentKept(t) == \A f \in Sources, v \in Nat : Present(t, f, v) => Present(t, f, v)'
BackedKept == \A f \in Sources, v \in Nat : Backed(f, v) => Backed(f, v)'
Carried ==
    /\ RecordsStay /\ remote' \in Nat /\ remote <= remote'
    /\ ~ raced' => ReachesKept("pages") /\ PresentKept("pages")
    /\ ~ raced' /\ ~ overlap' => ReachesKept("github") /\ PresentKept("github") /\ BackedKept

\* A version that records of a type go on to reach stays present.
LEMMA PresentStays ==
    ASSUME RecordsStay, Len(docs) \in Nat, NEW t, ReachesKept(t)
    PROVE  PresentKept(t)
<1> SUFFICES ASSUME NEW f \in Sources, NEW v \in Nat, Present(t, f, v) PROVE Present(t, f, v)'
  BY DEF PresentKept
<1>1. PICK d \in 1..Len(docs) : docs[d].type = t /\ docs[d].name = f /\ Reaches(d, v)
  BY DEF Present
<1>2. SameRecord(d) /\ d \in 1..Len(docs')
  BY DEF RecordsStay
<1>3. Reaches(d, v)'
  BY <1>1 DEF ReachesKept
<1> QED
  BY <1>1, <1>2, <1>3 DEF Present, SameRecord

\* A step loses nothing, but for races and overlaps.
LEMMA StepCarries ==
    ASSUME SourceInv, SourceInv', RecordInv, ReadInv, [Next]_vars
    PROVE  Carried
<1>0. TypeOK /\ TypeOK' /\ Len(docs) \in Nat
  BY RecordTypes DEF SourceInv
<1>1. RecordsStay /\ DocsMove
  BY StepMoves
<1>2. FilesMove
  BY <1>1, StepMovesFiles
<1>3. ASSUME ~ raced', NEW d \in 1..Len(docs), Exact(d)', NEW v \in Nat, Reaches(d, v) PROVE Reaches(d, v)'
  <2>1. SameRecord(d) /\ d \in 1..Len(docs') /\ Moves(d)
    BY <1>0, <1>1, <1>3 DEF RecordsStay, DocsMove
  <2>2. Exact(d) /\ ~ raced
    BY <1>1, <1>3, <2>1 DEF Exact, SameRecord, RecordsStay
  <2>3. Outlives(d, v)
    BY <1>0, <1>3, <2>2, ReachesOutlives
  <2>4. Outlives(d, v)'
    BY <1>0, <2>1, <2>3, OutlivesStay
  <2> QED
    BY <2>4 DEF Outlives, Reaches
<1>4. ASSUME ~ raced' PROVE ReachesKept("pages")
  <2>1. \A d \in 1..Len(docs) : docs[d].type = "pages" => Exact(d)'
    BY <1>1 DEF RecordsStay, SameRecord, Exact
  <2> QED
    BY <1>3, <1>4, <2>1 DEF ReachesKept
<1>5. ASSUME ~ raced', ~ overlap' PROVE ReachesKept("github")
  <2>1. \A d \in 1..Len(docs) : Exact(d)'
    BY <1>5 DEF Exact
  <2> QED
    BY <1>3, <1>5, <2>1 DEF ReachesKept
<1>6. ASSUME ~ raced', ~ overlap' PROVE BackedKept
  <2> SUFFICES ASSUME NEW f \in Sources, NEW v \in Nat, Backed(f, v) PROVE Backed(f, v)'
    BY DEF BackedKept
  <2>0. f \in DOMAIN Kind /\ file[f] \in Nat /\ file'[f] \in Nat
    <3>1. f \in DOMAIN Kind /\ file'[f] \in Versions
      BY <1>0 DEF Sources, TypeOK
    <3> QED
      BY <1>0, <3>1, FilesAreNumbers, LimitAssumption DEF Versions
  <2>1. ASSUME NEW d \in 1..Len(docs), IsNamed(d, "github", f), Outlives(d, v) \/ HasText(d, v) \/ FileOf(d) >= v
        PROVE  Backed(f, v)'
    <3>1. SameRecord(d) /\ d \in 1..Len(docs') /\ Moves(d)
      <4>1. Exact(d)'
        BY <1>6 DEF Exact
      <4> QED
        BY <1>0, <1>1, <1>6, <4>1 DEF RecordsStay, DocsMove
    <3>2. IsNamed(d, "github", f)' /\ FileOf(d) = file[f] /\ FileOf(d)' = file'[f]
      BY <2>1, <3>1 DEF IsNamed, SameRecord, FileOf
    <3>3. docs[d].text \subseteq docs'[d].text /\ docs'[d].text \subseteq Nat
      <4>1. docs'[d] \in DocTypes
        BY <1>0, <3>1, ElementOfSeq DEF TypeOK
      <4> QED
        BY <3>1, <4>1, LimitAssumption DEF Moves, DocTypes, Versions
    <3>4. CASE HasText(d, v)
      <4>1. HasText(d, v)'
        BY <3>3, <3>4 DEF HasText
      <4> QED
        BY <3>1, <3>2, <4>1 DEF Backed
    <3>5. CASE FileOf(d) >= v
      <4>1. CASE file[f] <= file'[f]
        <5>1. file'[f] >= v
          BY <2>0, <3>2, <3>5, <4>1
        <5> QED
          BY <5>1 DEF Backed
      <4>2. ASSUME NEW u \in docs'[d].text, u >= FileOf(d) PROVE Backed(f, v)'
        <5>1. u >= v /\ u \in docs'[d].text
          BY <2>0, <3>2, <3>3, <3>5, <4>2
        <5>2. HasText(d, v)'
          BY <5>1 DEF HasText
        <5> QED
          BY <3>1, <3>2, <5>2 DEF Backed
      <4> QED
        BY <3>1, <3>2, <4>1, <4>2 DEF Moves
    <3> QED
      BY <2>1, <3>4, <3>5 DEF Outlives, HasText
  <2>2. CASE file[f] >= v
    <3>1. CASE file[f] <= file'[f]
      <4>1. file'[f] >= v
        BY <2>0, <2>2, <3>1
      <4> QED
        BY <4>1 DEF Backed
    <3>2. ASSUME NEW d \in 1..Len(docs), IsNamed(d, "github", f) PROVE Backed(f, v)'
      <4>1. FileOf(d) = file[f]
        BY <3>2 DEF IsNamed, FileOf
      <4> QED
        BY <2>1, <2>2, <3>2, <4>1
    <3> QED
      BY <1>1, <1>6, <2>0, <3>1, <3>2 DEF DocsMove
  <2> QED
    BY <2>1, <2>2 DEF Backed
<1>7. remote' \in Nat /\ remote <= remote'
  BY <1>2 DEF FilesMove
<1>8. ASSUME ~ raced' PROVE PresentKept("pages")
  BY <1>0, <1>1, <1>4, <1>8, PresentStays
<1>9. ASSUME ~ raced', ~ overlap' PROVE PresentKept("github")
  BY <1>0, <1>1, <1>5, <1>9, PresentStays
<1> QED
  BY <1>1, <1>4, <1>5, <1>6, <1>7, <1>8, <1>9 DEF Carried

-----------------------------------------------------------------------------
(* The pages of a complete run *)

\* q is no further with its pages than it was, and its run says no less.
PageStays(q) ==
    /\ UnderWay(q)' /\ s'[q].type = "pages" =>
         /\ UnderWay(q) /\ s[q].type = "pages" /\ s'[q].run = s[q].run
         /\ runs'[s[q].run].head = runs[s[q].run].head
         /\ s'[q].pc \in {"page", "send"} =>
              s'[q].pc = s[q].pc /\ s'[q].at = s[q].at /\ s'[q].sent = s[q].sent
    /\ s'[q].pc \in {"head", "list", "create"} =>
         (s[q].pc \in {"head", "list", "create"} /\ s'[q].at = s[q].at) \/ s'[q].at = Idle.at

\* What a sync has of its pages in the next state.
PagesAre(q) ==
    /\ HeadKept(q)'
    /\ ~ raced' => PagesKept(q)' /\ SendKept(q)'

\* A sync that stays where it is keeps the pages it has passed.
LEMMA PagesStay ==
    ASSUME SourceInv, SourceInv', PageInv, Carried, NEW q \in Proc, PageStays(q)
    PROVE  PagesAre(q)
<1>1. /\ Shape(q) /\ HeadKept(q) /\ (~ raced => PagesKept(q) /\ SendKept(q)) /\ remote \in Nat
      /\ RecordsStay /\ remote <= remote' /\ remote' \in Nat
  BY SyncNumbers DEF PageInv, Carried
<1>2. HeadKept(q)'
  <2>1. ASSUME UnderWay(q)', s'[q].type = "pages" PROVE runs'[s'[q].run].head \in 1..remote'
    <3>1. runs[s[q].run].head \in 1..remote /\ runs'[s'[q].run].head = runs[s[q].run].head
      BY <1>1, <2>1 DEF PageStays, HeadKept
    <3> QED
      BY <1>1, <3>1
  <2>2. ASSUME s'[q].pc \in {"head", "list", "create"} PROVE \A f \in Sources : ~ Passed(q, f)'
    <3>1. CASE s[q].pc \in {"head", "list", "create"} /\ s'[q].at = s[q].at
      BY <1>1, <3>1 DEF HeadKept, Passed
    <3>2. CASE s'[q].at = Idle.at
      <4>1. Idle.at \in 1..(Len(Files) + 1) /\ \A j \in 1..(Idle.at - 1) : Files[j] \notin Sources
        BY UpcomingIsNext, FilesAreMembers DEF Idle
      <4> QED
        BY <3>2, <4>1 DEF Passed
    <3> QED
      BY <2>2, <3>1, <3>2 DEF PageStays
  <2> QED
    BY <2>1, <2>2 DEF HeadKept
<1>3. ASSUME ~ raced', s'[q].pc \in {"page", "send"}, s'[q].type = "pages"
      PROVE  PagesKept(q)' /\ SendKept(q)'
  <2>1. UnderWay(q) /\ s[q].type = "pages" /\ runs[s[q].run].head \in Nat \ {0}
    <3>1. UnderWay(q) /\ s[q].type = "pages"
      BY <1>3 DEF PageStays, UnderWay
    <3>2. runs[s[q].run].head \in 1..remote
      BY <1>1, <3>1 DEF HeadKept
    <3> QED
      BY <1>1, <3>1, <3>2
  <2>2. PICK h \in Nat \ {0} : h = runs[s[q].run].head
    BY <2>1
  <2>3. /\ UnderWay(q) /\ s[q].type = "pages" /\ s'[q].run = s[q].run /\ runs'[s'[q].run].head = h
        /\ s'[q].pc = s[q].pc /\ s'[q].at = s[q].at /\ s'[q].sent = s[q].sent
    BY <1>3, <2>2 DEF PageStays, UnderWay
  <2>4. PagesKept(q) /\ SendKept(q) /\ PresentKept("pages") /\ ReachesKept("pages")
    BY <1>1, <1>3 DEF RecordsStay, Carried
  <2>5. PagesKept(q)'
    <3> SUFFICES ASSUME NEW f \in Sources, Passed(q, f) PROVE Present("pages", f, h)'
      BY <2>3 DEF PagesKept, Passed
    <3>1. Present("pages", f, h)
      BY <1>3, <2>3, <2>2, <2>4 DEF PagesKept
    <3>2. \A w \in Nat : Present("pages", f, w) => Present("pages", f, w)'
      BY <2>4 DEF PresentKept
    <3> QED
      BY <2>2, <3>1, <3>2
  <2>6. SendKept(q)'
    <3> SUFFICES ASSUME s[q].pc = "send"
                 PROVE  \E d \in s[q].sent : d \in 1..Len(docs') /\ IsNamed(d, "pages", Entry(q))' /\ Reaches(d, h)'
      BY <2>3 DEF SendKept
    <3>1. PICK d \in s[q].sent : d \in 1..Len(docs) /\ IsNamed(d, "pages", Entry(q)) /\ Reaches(d, h)
      BY <2>2, <2>4 DEF SendKept
    <3>2. d \in 1..Len(docs') /\ SameRecord(d)
      BY <1>1, <3>1 DEF RecordsStay
    <3>3. IsNamed(d, "pages", Entry(q))'
      BY <2>3, <3>1, <3>2 DEF SameRecord, IsNamed, Entry
    <3>4. Reaches(d, h)'
      <4>1. \A w \in Nat : Reaches(d, w) => Reaches(d, w)'
        BY <2>4, <3>1 DEF ReachesKept, IsNamed
      <4> QED
        BY <2>2, <3>1, <4>1
    <3> QED
      BY <3>1, <3>2, <3>3, <3>4
  <2> QED
    BY <2>5, <2>6
<1>4. s'[q].pc \in {"page", "send"} => s'[q].type = "pages"
  BY DEF SourceInv, Shape, PageSteps
<1> QED
  BY <1>2, <1>3, <1>4 DEF PagesAre, PagesKept, SendKept

\* A run that is complete was so, or has every page.
RunHas(r) ==
    runs'[r].status = "complete" /\ runs'[r].type = "pages" =>
        \/ runs[r].status = "complete" /\ runs[r].type = "pages" /\ runs'[r].head = runs[r].head
        \/ /\ runs'[r].head # 0
           /\ ~ raced' => \A f \in Sources : Present("pages", f, runs[r].head)'

\* A step after which every run and sync has its pages keeps the invariant of
\* pages.
LEMMA PageHold ==
    ASSUME SourceInv, SourceInv', PageInv, Carried,
           \A r \in 1..MaxStarts : RunHas(r),
           \A q \in Proc : PageStays(q) \/ PagesAre(q)
    PROVE  PageInv'
<1>0. /\ DOMAIN runs = 1..MaxStarts /\ DOMAIN runs' = 1..MaxStarts /\ remote' \in Nat
      /\ \A r \in 1..MaxStarts : runs[r].head \in Nat
  <2>1. runs \in [1..MaxStarts -> RunTypes] /\ runs' \in [1..MaxStarts -> RunTypes] /\ remote' \in Versions
    BY DEF SourceInv, TypeOK
  <2>2. Versions \subseteq Nat
    BY LimitAssumption DEF Versions
  <2>3. \A r \in 1..MaxStarts : runs[r].head \in Versions
    BY <2>1 DEF RunTypes
  <2> QED
    BY <2>1, <2>2, <2>3
<1>1. \A q \in Proc : PagesAre(q)
  BY <1>0, PagesStay
<1>2. \A r \in DOMAIN runs' : runs'[r].status = "complete" /\ runs'[r].type = "pages" => runs'[r].head # 0
  BY <1>0 DEF RunHas, PageInv
<1>3. CompleteRunIsIndexed'
  <2> SUFFICES ASSUME ~ raced', NEW r \in 1..MaxStarts, runs'[r].status = "complete", runs'[r].type = "pages",
                      NEW f \in Sources
               PROVE  \E d \in 1..Len(docs') : IsNamed(d, "pages", f)' /\ Reaches(d, runs[r].head)'
    BY <1>0 DEF CompleteRunIsIndexed, Present, IsNamed
  <2>1. CASE runs[r].status = "complete" /\ runs[r].type = "pages" /\ runs'[r].head = runs[r].head
    <3>1. (\E h \in Nat : h = runs[r].head) /\ ~ raced /\ PresentKept("pages")
      BY <1>0 DEF Carried, RecordsStay
    <3> PICK h \in Nat : h = runs[r].head
      BY <3>1
    <3>2. PICK d \in 1..Len(docs) : docs[d].type = "pages" /\ docs[d].name = f /\ Reaches(d, runs[r].head)
      BY <1>0, <2>1, <3>1 DEF PageInv, CompleteRunIsIndexed, Present
    <3>3. Present("pages", f, h)
      BY <3>2 DEF Present
    <3>4. Present("pages", f, h)'
      BY <3>1, <3>3 DEF PresentKept
    <3>5. PICK e \in 1..Len(docs') : IsNamed(e, "pages", f)' /\ Reaches(e, h)'
      BY <3>4 DEF Present, IsNamed
    <3>6. Reaches(e, runs[r].head)'
      BY <2>1, <3>5 DEF Reaches
    <3> QED
      BY <3>5, <3>6
  <2>2. CASE Present("pages", f, runs[r].head)'
    BY <2>2 DEF Present, IsNamed
  <2> QED
    BY <2>1, <2>2 DEF RunHas
<1> QED
  BY <1>1, <1>2, <1>3 DEF PageInv, PagesAre

\* A step of one sync that leaves the runs of the others.
LEMMA TurnKeepsPages ==
    ASSUME SourceInv, SourceInv', PageInv, Carried, NEW p \in Proc, NEW r, Turns(p, r),
           \A q \in Proc : q # p /\ s[q].type = "pages" /\ UnderWay(q) => runs'[s[q].run].head = runs[s[q].run].head,
           \A k \in 1..MaxStarts : RunHas(k),
           PageStays(p) \/ PagesAre(p)
    PROVE  PageInv'
<1>1. \A q \in Proc : q # p => s'[q] = s[q]
  BY TurnsOnlyOne DEF SourceInv
<1>2. \A q \in Proc : q # p => PageStays(q)
  BY <1>1 DEF PageStays, UnderWay
<1>3. \A q \in Proc : PageStays(q) \/ PagesAre(q)
  BY <1>2
<1> QED
  BY <1>3, PageHold

\* Pushes, connections and ingestions keep it.
LEMMA WorldPages ==
    ASSUME SourceInv, SourceInv', PageInv, Carried, Push \/ User \/ Ingest
    PROVE  PageInv'
<1>0. /\ runs \in [1..MaxStarts -> RunTypes] /\ DOMAIN runs = 1..MaxStarts
      /\ \A q \in Proc : s[q].run \in 0..MaxStarts
  <2>1. runs \in [1..MaxStarts -> RunTypes]
    BY DEF SourceInv, TypeOK
  <2> QED
    BY <2>1, SyncNumbers
<1>1. s' = s
  BY DEF Push, User, Authorize, Disconnect, HubConnect, HubDisconnect, Connected, Ingest, IngestBegin, IngestEnd,
         IngestFails, ThreadDies
<1>2. \A r \in 1..MaxStarts : /\ runs'[r].head = runs[r].head
                              /\ runs'[r].type = runs[r].type
                              /\ runs'[r].status \in {runs[r].status, "gone"}
  <2>1. CASE Push \/ Authorize \/ Ingest \/ Disconnect \/ \E t \in Types : HubConnect(t)
    BY <2>1 DEF Push, Authorize, Connected, Ingest, IngestBegin, IngestEnd, IngestFails, ThreadDies, Disconnect, HubConnect
  <2>2. ASSUME NEW t \in Types, HubDisconnect(t), NEW r \in 1..MaxStarts
        PROVE  runs'[r].head = runs[r].head /\ runs'[r].type = runs[r].type /\ runs'[r].status \in {runs[r].status, "gone"}
    <3>1. runs'[r] = IF runs[r].type = t /\ runs[r].status # "none" THEN [runs[r] EXCEPT !.status = "gone"] ELSE runs[r]
      BY <1>0, <2>2 DEF HubDisconnect
    <3>2. runs[r] \in RunTypes
      BY <1>0
    <3> QED
      BY <3>1, <3>2 DEF RunTypes
  <2> QED
    BY <2>1, <2>2 DEF User
<1>3. \A r \in 1..MaxStarts : RunHas(r)
  BY <1>2 DEF RunHas
<1>4. \A q \in Proc : UnderWay(q) /\ s[q].type = "pages" => s[q].run \in 1..MaxStarts
  BY <1>0, SyncNumbers DEF Shape, UnderWay
<1>5. \A q \in Proc : PageStays(q)
  BY <1>1, <1>2, <1>4 DEF PageStays, UnderWay
<1> QED
  BY <1>3, <1>5, PageHold

\* A sync that starts is at none of its pages; its run has no list yet.
LEMMA StartPages ==
    ASSUME SourceInv, SourceInv', PageInv, Carried, NEW p \in Proc, Starts(p)
    PROVE  PageInv'
<1>0. /\ TypeOK /\ starts \in 0..MaxStarts /\ MaxStarts \in Nat /\ runs \in [1..MaxStarts -> RunTypes]
      /\ \A q \in Proc : s[q].run \in 0..MaxStarts /\ Shape(q) /\ s[q].run <= starts
  <2>1. TypeOK /\ starts \in 0..MaxStarts /\ MaxStarts \in Nat
    BY SyncNumbers
  <2>2. runs \in [1..MaxStarts -> RunTypes]
    BY <2>1 DEF TypeOK
  <2>3. ASSUME NEW q \in Proc PROVE s[q].run \in 0..MaxStarts /\ Shape(q) /\ s[q].run <= starts
    <3>1. s[q].run \in 0..MaxStarts /\ Shape(q)
      BY SyncNumbers
    <3> QED
      BY <3>1 DEF Shape
  <2> QED
    BY <2>1, <2>2, <2>3
<1>1. ASSUME NEW t \in Types, NEW k \in 0..MaxStarts, Start(p, t, k),
             \A q \in Proc : q # p /\ s[q].type = "pages" /\ UnderWay(q) => runs'[s[q].run].head = runs[s[q].run].head,
             \A r \in 1..MaxStarts : RunHas(r)
      PROVE  PageInv'
  <2>1. PICK r : Turns(p, r) /\ Begun(r, t, k)
    BY <1>0, <1>1, StartTurns
  <2>2. s'[p] = r /\ ~ UnderWay(p)' /\ s'[p].at = Idle.at
    <3>1. s'[p] = r
      BY <1>0, <2>1, TurnsOnlyOne
    <3> QED
      BY <2>1, <3>1 DEF Begun, UnderWay
  <2>3. PageStays(p)
    BY <2>2 DEF PageStays
  <2> QED
    BY <1>1, <2>1, <2>3, TurnKeepsPages
<1>2. CASE RouteSync(p) \/ MonitorSync(p)
  <2>1. Start(p, "github", 0) /\ runs' = runs
    BY <1>2 DEF RouteSync, MonitorSync
  <2>2. \A r \in 1..MaxStarts : RunHas(r)
    BY <2>1 DEF RunHas
  <2> QED
    BY <1>0, <1>1, <2>1, <2>2 DEF Types
<1>3. ASSUME NEW t \in Types, HubSync(p, t) PROVE PageInv'
  <2>1. starts < MaxStarts
    BY <1>3 DEF HubSync, Start
  <2>2. starts + 1 \in 1..MaxStarts
    BY <1>0, <2>1
  <2>3. /\ \A r \in 1..MaxStarts : r # starts + 1 => runs'[r] = runs[r]
        /\ runs'[starts + 1].type = t
        /\ runs'[starts + 1].status = IF NoRepository(t) THEN "complete" ELSE "running"
    BY <1>0, <1>3, <2>2 DEF HubSync
  <2>4. \A r \in 1..MaxStarts : RunHas(r)
    BY <2>3 DEF RunHas, NoRepository
  <2>5. \A q \in Proc : q # p /\ s[q].type = "pages" /\ UnderWay(q) => runs'[s[q].run].head = runs[s[q].run].head
    <3> SUFFICES ASSUME NEW q \in Proc, s[q].type = "pages", UnderWay(q) PROVE runs'[s[q].run] = runs[s[q].run]
      OBVIOUS
    <3>1. s[q].run \in 0..MaxStarts /\ s[q].run # 0 /\ s[q].run <= starts
      BY <1>0 DEF Shape, UnderWay
    <3>2. s[q].run \in 1..MaxStarts /\ s[q].run # starts + 1
      BY <1>0, <3>1
    <3> QED
      BY <2>3, <3>2
  <2>6. CASE NoRepository(t)
    <3>1. UNCHANGED s
      BY <1>3, <2>6 DEF HubSync
    <3>2. Turns(p, s[p])
      <4>1. s \in [Proc -> SyncTypes]
        BY <1>0 DEF TypeOK
      <4> QED
        BY <3>1, <4>1 DEF Turns
    <3>3. PageStays(p)
      <4>1. s[p].pc = "idle"
        BY <1>3, <2>6 DEF HubSync
      <4> QED
        BY <3>1, <4>1 DEF PageStays, UnderWay
    <3> QED
      BY <2>4, <2>5, <3>1, <3>2, <3>3, TurnKeepsPages
  <2>7. CASE ~ NoRepository(t)
    <3>1. Start(p, t, starts + 1) /\ starts + 1 \in 0..MaxStarts
      BY <1>3, <2>2, <2>7 DEF HubSync
    <3> QED
      BY <1>1, <2>4, <2>5, <3>1
  <2> QED
    BY <2>6, <2>7
<1> QED
  BY <1>2, <1>3 DEF Starts

\* A sync that ends: a run that completes is its own, and has every page.
LEMMA EndedPages ==
    ASSUME SourceInv, SourceInv', PageInv, Carried, NEW p \in Proc, Turns(p, Idle),
           \/ runs' = runs
           \/ RunsSettled(p, "failed")
           \/ /\ RunsSettled(p, "complete")
              /\ s[p].run \in 1..MaxStarts => runs[s[p].run].type = s[p].type
              /\ s[p].type = "pages" =>
                   /\ runs[s[p].run].head # 0
                   /\ ~ raced => \A f \in Sources : Present("pages", f, runs[s[p].run].head)
    PROVE  PageInv'
<1>0. TypeOK /\ Idle.pc = "idle" /\ s'[p] = Idle
  BY TurnsOnlyOne, IdleIsTyped DEF SourceInv
<1>1. PageStays(p)
  BY <1>0 DEF PageStays, UnderWay
<1>2. \A r \in 1..MaxStarts : runs'[r].head = runs[r].head
  BY DEF RunsSettled
<1>3. \A q \in Proc : q # p /\ s[q].type = "pages" /\ UnderWay(q) => runs'[s[q].run].head = runs[s[q].run].head
  <2> SUFFICES ASSUME NEW q \in Proc, s[q].type = "pages", UnderWay(q) PROVE s[q].run \in 1..MaxStarts
    BY <1>2
  <2>1. s[q].run \in 0..MaxStarts /\ s[q].run # 0
    BY SyncNumbers DEF Shape, UnderWay
  <2> QED
    BY <2>1
<1>4. \A r \in 1..MaxStarts : RunHas(r)
  <2> SUFFICES ASSUME NEW r \in 1..MaxStarts, runs'[r].status = "complete", runs'[r].type = "pages",
                      ~ (runs[r].status = "complete" /\ runs[r].type = "pages" /\ runs'[r].head = runs[r].head)
               PROVE  /\ runs'[r].head # 0
                      /\ ~ raced' => \A f \in Sources : Present("pages", f, runs[r].head)'
    BY DEF RunHas
  <2>1. /\ RunsSettled(p, "complete") /\ r = s[p].run
        /\ s[p].run \in 1..MaxStarts => runs[s[p].run].type = s[p].type
        /\ s[p].type = "pages" =>
                   /\ runs[s[p].run].head # 0
                   /\ ~ raced => \A f \in Sources : Present("pages", f, runs[s[p].run].head)
    BY DEF RunsSettled
  <2>2. s[p].type = "pages" /\ runs'[r].head = runs[r].head /\ runs[r].head # 0
    BY <2>1 DEF RunsSettled
  <2>3. ASSUME ~ raced', NEW f \in Sources PROVE Present("pages", f, runs[r].head)'
    <3>1. (\E h \in Nat : h = runs[r].head) /\ ~ raced /\ PresentKept("pages")
      <4>1. runs[r].head \in Versions
        BY <1>0 DEF TypeOK, RunTypes
      <4> QED
        BY <2>3, <4>1, LimitAssumption DEF Carried, RecordsStay, Versions
    <3> PICK h \in Nat : h = runs[r].head
      BY <3>1
    <3>2. Present("pages", f, h)
      BY <2>1, <2>2, <3>1
    <3>3. Present("pages", f, h)'
      BY <3>1, <3>2 DEF PresentKept
    <3>4. PICK d \in 1..Len(docs') : IsNamed(d, "pages", f)' /\ Reaches(d, h)'
      BY <3>3 DEF Present, IsNamed
    <3>5. Reaches(d, runs[r].head)'
      BY <2>2, <3>4 DEF Reaches
    <3> QED
      BY <3>4, <3>5 DEF Present, IsNamed
  <2> QED
    BY <2>2, <2>3
<1> QED
  BY <1>1, <1>3, <1>4, TurnKeepsPages

\* So does every end of a sync: a complete run has every page.
LEMMA EndPages ==
    ASSUME SourceInv, SourceInv', RunInv, PageInv, Carried, NEW p \in Proc
    PROVE  /\ ReadHead(p) /\ Returns(p) => PageInv'
           /\ Announce(p) /\ Lost(p) => PageInv'
           /\ Finish(p) => PageInv'
           /\ SyncFails(p) => PageInv'
           /\ DispatchFails(p) => PageInv'
           /\ PagesDone(p) => PageInv'
           /\ PagesFail(p) => PageInv'
           /\ Break(p) => PageInv'
<1>0. TypeOK /\ Shape(p) /\ s[p] \in SyncTypes
  BY SyncNumbers
<1>1. s[p].run \in 1..MaxStarts => runs[s[p].run].type = s[p].type
  BY DEF RunInv, RunHeld
<1>2. ASSUME Returns(p), s[p].type = "github" PROVE PageInv'
  <2>1. RunsSettled(p, "complete") /\ Turns(p, Idle)
    BY <1>0, <1>2, RecordedRuns DEF Returns
  <2> QED
    BY <1>1, <1>2, <2>1, EndedPages
<1>3. ASSUME Raises(p) PROVE PageInv'
  <2>1. RunsSettled(p, "failed") /\ Turns(p, Idle)
    BY <1>0, <1>3, RecordedRuns DEF Raises
  <2> QED
    BY <2>1, EndedPages
<1>4. ASSUME Ends(p), runs' = runs PROVE PageInv'
  <2>1. Turns(p, Idle)
    BY <1>0, <1>4, EndsTurns
  <2> QED
    BY <1>4, <2>1, EndedPages
<1>5. ASSUME MarkFailed(p) PROVE PageInv'
  BY <1>3, <1>4, <1>5 DEF MarkFailed, Lost
<1>6. ASSUME ReadHead(p), Returns(p) PROVE PageInv'
  <2>1. s[p].type = "github"
    BY <1>0, <1>6 DEF ReadHead, Shape, GithubSteps
  <2> QED
    BY <1>2, <1>6, <2>1
<1>7. ASSUME Announce(p), Lost(p) PROVE PageInv'
  BY <1>4, <1>7 DEF Lost
<1>8. ASSUME Finish(p) PROVE PageInv'
  <2>1. s[p].type = "github"
    BY <1>0, <1>8 DEF Finish, Shape, GithubSteps, Indexing
  <2>2. MarkFailed(p) \/ Returns(p)
    BY <1>8 DEF Finish
  <2> QED
    BY <1>2, <1>5, <2>1, <2>2
<1>9. ASSUME SyncFails(p) \/ DispatchFails(p) PROVE PageInv'
  BY <1>3, <1>5, <1>9 DEF SyncFails, DispatchFails
<1>10. ASSUME PagesFail(p) PROVE PageInv'
  BY <1>3, <1>10 DEF PagesFail
<1>11. ASSUME Break(p) PROVE PageInv'
  BY <1>4, <1>11 DEF Break
<1>12. ASSUME PagesDone(p) PROVE PageInv'
  <2>1. s[p].pc = "page" /\ ~ (s[p].at <= Len(Files)) /\ Returns(p)
    BY <1>12 DEF PagesDone, More
  <2>2. RunsSettled(p, "complete") /\ Turns(p, Idle)
    BY <1>0, <2>1, RecordedRuns DEF Returns
  <2>3. UnderWay(p) /\ s[p].type = "pages" /\ HeadKept(p) /\ (~ raced => PagesKept(p))
    BY <1>0, <2>1 DEF Shape, PageSteps, UnderWay, PageInv
  <2>4. ASSUME NEW f \in Sources PROVE Passed(p, f)
    <3>1. s[p].at = Len(Files) + 1 /\ Len(Files) \in Nat
      BY <2>1, SyncNumbers, MembersAreListed
    <3>2. \E i \in 1..Len(Files) : Files[i] = f
      BY MembersAreListed, FilesAssumption
    <3> QED
      BY <3>1, <3>2 DEF Passed
  <2>5. runs[s[p].run].head # 0
    <3>1. runs[s[p].run].head \in 1..remote
      BY <2>3 DEF HeadKept
    <3> QED
      BY <3>1
  <2>6. ~ raced => \A f \in Sources : Present("pages", f, runs[s[p].run].head)
    BY <2>1, <2>3, <2>4 DEF PagesKept
  <2> QED
    BY <1>1, <2>1, <2>2, <2>5, <2>6, EndedPages
<1> QED
  BY <1>6, <1>7, <1>8, <1>9, <1>10, <1>11, <1>12

\* The steps of a sync of the repository leave every page where it was.
LEMMA GithubPages ==
    ASSUME SourceInv, SourceInv', PageInv, Carried, NEW p \in Proc
    PROVE  /\ Announce(p) /\ ~ Lost(p) => PageInv'
           /\ Download(p) => PageInv'
           /\ IndexFile(p) => PageInv'
           /\ SkipFile(p) => PageInv'
           /\ Flush(p) => PageInv'
           /\ DispatchAll(p) => PageInv'
           /\ s[p].type = "github" /\ Dispatches(p) => PageInv'
<1>0. TypeOK /\ Shape(p) /\ s[p] \in SyncTypes /\ Shape(p)'
  BY SyncNumbers DEF SourceInv
<1>1. ASSUME runs' = runs PROVE \A k \in 1..MaxStarts : RunHas(k)
  BY <1>1 DEF RunHas
<1>2. ASSUME NEW r, Turns(p, r), SameSync(r, s[p]), s[p].pc \in {"announce", "download"} \cup Indexing,
             r.pc \in {"announce", "download"} \cup Indexing
      PROVE  PageStays(p)
  <2>1. s'[p] = r
    BY <1>0, <1>2, TurnsOnlyOne
  <2>2. s'[p].type = "github" /\ s'[p].pc \notin {"head", "list", "create"}
    BY <1>0, <1>2, <2>1 DEF SameSync, Shape, GithubSteps, Indexing
  <2> QED
    BY <2>2 DEF PageStays
<1>3. ASSUME NEW r, Turns(p, r), SameSync(r, s[p]), s[p].pc \in {"announce", "download"} \cup Indexing,
             r.pc \in {"announce", "download"} \cup Indexing, runs' = runs
      PROVE  PageInv'
  BY <1>1, <1>2, <1>3, TurnKeepsPages
<1>4. ASSUME Announce(p), ~ Lost(p) PROVE PageInv'
  <2>1. s' = [s EXCEPT ![p].pc = "download", ![p].known = TRUE] /\ s[p].pc = "announce"
        /\ runs' = runs
    BY <1>4 DEF Announce
  <2>2. PICK r : /\ Turns(p, r) /\ SameSync(r, s[p]) /\ SameWork(r, s[p]) /\ SamePlace(r, s[p])
                  /\ r.head = s[p].head /\ r.tree = s[p].tree /\ r.coll = s[p].coll
                  /\ r.pc = "download" /\ r.known = TRUE
    BY <1>0, <2>1, AnnounceTurns
  <2> QED
    BY <1>3, <2>1, <2>2
<1>5. ASSUME Download(p) PROVE PageInv'
  <2>1. s' = [s EXCEPT ![p].pc = "index", ![p].tree = remote] /\ s[p].pc = "download"
        /\ runs' = runs
    BY <1>5 DEF Download
  <2>2. PICK r : /\ Turns(p, r) /\ SameSync(r, s[p]) /\ SameWork(r, s[p]) /\ SamePlace(r, s[p])
                 /\ r.known = s[p].known /\ r.head = s[p].head /\ r.coll = s[p].coll
                 /\ r.pc = "index" /\ r.tree = remote
    BY <1>0, <2>1, DownloadTurns
  <2> QED
    BY <1>3, <2>1, <2>2 DEF Indexing
<1>6. ASSUME IndexFile(p) PROVE PageInv'
  <2>1. PICK r : Turns(p, r) /\ IndexedWith(p, r)
    BY <1>6, IndexedTurns
  <2>2. s[p].pc = "index" /\ runs' = runs
    BY <1>6 DEF IndexFile
  <2>3. SameSync(r, s[p]) /\ r.pc \in {"index", "flush"}
    BY <2>1 DEF IndexedWith, Indexed
  <2> QED
    BY <1>3, <2>1, <2>2, <2>3 DEF Indexing
<1>7. ASSUME SkipFile(p) PROVE PageInv'
  <2>1. /\ s[p].at <= Len(Files) /\ s' = [s EXCEPT ![p].at = Upcoming(@ + 1)] /\ s[p].pc = "index"
        /\ runs' = runs
    BY <1>7 DEF SkipFile, Full, More
  <2>2. PICK r : /\ Turns(p, r) /\ SameSync(r, s[p]) /\ SameHead(r, s[p]) /\ SameWork(r, s[p])
                 /\ r.pc = s[p].pc /\ r.count = s[p].count /\ r.at = Upcoming(s[p].at + 1)
    BY <1>0, <2>1, SkipTurns
  <2> QED
    BY <1>3, <2>1, <2>2 DEF Indexing
<1>8. ASSUME DispatchAll(p) PROVE PageInv'
  <2>1. s[p].pc = "dispatch" /\ runs' = runs
    BY <1>8 DEF DispatchAll, Goes
  <2>2. PICK r : /\ Turns(p, r) /\ SameSync(r, s[p]) /\ SameHead(r, s[p])
                 /\ SameWork(r, s[p]) /\ SamePlace(r, s[p]) /\ r.pc = "finish"
    BY <1>0, <1>8, DispatchTurns
  <2> QED
    BY <1>3, <2>1, <2>2 DEF Indexing
<1>9. ASSUME Flush(p) PROVE PageInv'
  <2>1. s[p].pc \in {"index", "flush"} /\ runs' = runs
    BY <1>9 DEF Flush
  <2>2. PICK r : /\ Turns(p, r) /\ SameSync(r, s[p])
                 /\ r.pc = IF s[p].pc = "flush" THEN "index" ELSE "dispatch"
    BY <1>0, <1>9, FlushTurns
  <2> QED
    BY <1>3, <2>1, <2>2 DEF Indexing
<1>10. ASSUME s[p].type = "github", Dispatches(p) PROVE PageInv'
  <2>1. s[p].pc \in Indexing /\ runs' = runs
    BY <1>0, <1>10, DispatchesRecords DEF Dispatches, StartThreads, Enqueue, MarkQueued, Dispatching, Shape, PageSteps, Indexing
  <2>2. PICK r : Turns(p, r) /\ SameSync(r, s[p]) /\ r.pc = s[p].pc
    BY <1>0, <1>10, DispatchesTurns
  <2> QED
    BY <1>3, <2>1, <2>2
<1> QED
  BY <1>4, <1>5, <1>6, <1>7, <1>8, <1>9, <1>10

\* A dispatch of pages leaves each sync at the page it sends.
LEMMA DispatchedPages ==
    ASSUME SourceInv, SourceInv', PageInv, Carried, NEW p \in Proc, Dispatches(p), s[p].type = "pages"
    PROVE  PageInv'
<1>0. TypeOK /\ Shape(p)
  BY SyncNumbers
<1>1. s[p].pc = "send" /\ runs' = runs
  BY <1>0, DispatchesRecords DEF Dispatches, StartThreads, Enqueue, MarkQueued, Dispatching, Shape, GithubSteps, Indexing
<1>2. PICK r : /\ Turns(p, r) /\ SameSync(r, s[p]) /\ SameHead(r, s[p])
               /\ SameDocs(r, s[p]) /\ SamePlace(r, s[p]) /\ r.pc = s[p].pc
  BY <1>0, DispatchesTurns
<1>3. s'[p] = r /\ r.type = "pages" /\ r.run = s[p].run /\ r.at = s[p].at /\ r.sent = s[p].sent /\ r.pc = "send"
  BY <1>0, <1>1, <1>2, TurnsOnlyOne DEF SameSync, SameDocs, SamePlace
<1>4. PageStays(p)
  BY <1>1, <1>3 DEF PageStays, UnderWay
<1>5. \A k \in 1..MaxStarts : RunHas(k)
  BY <1>1 DEF RunHas
<1> QED
  BY <1>1, <1>2, <1>4, <1>5, TurnKeepsPages

\* A sync that lists its pages has passed none of them.
LEMMA FindPages ==
    ASSUME SourceInv, SourceInv', RunInv, PageInv, Carried, NEW p \in Proc
    PROVE  /\ ReadHead(p) /\ ~ Returns(p) => PageInv'
           /\ ListPages(p) => PageInv'
           /\ CreateCollection(p) => PageInv'
<1>0. TypeOK /\ Shape(p) /\ s[p] \in SyncTypes /\ s[p].at \in 1..(Len(Files) + 1) /\ remote \in Nat \ {0}
      /\ runs \in [1..MaxStarts -> RunTypes]
  BY SyncNumbers DEF TypeOK
<1>1. ASSUME runs' = runs PROVE \A k \in 1..MaxStarts : RunHas(k)
  BY <1>1 DEF RunHas
<1>2. ASSUME ReadHead(p), ~ Returns(p) PROVE PageInv'
  <2> DEFINE new == [s[p] EXCEPT !.head = remote]
  <2>1. /\ FindCollection(p, new) /\ s[p].pc = "head" /\ s[p].type = "github"
        /\ runs' = runs
    BY <1>0, <1>2 DEF ReadHead, Shape, GithubSteps
  <2>2. new \in SyncTypes
    <3>1. remote \in Versions
      BY SyncNumbers
    <3> QED
      BY <1>0, <3>1, ZenonT(60) DEF SyncTypes
  <2>3. new.type = "github" /\ new.at = s[p].at
    BY <1>0, <2>1 DEF SyncTypes
  <2> HIDE DEF new
  <2>4. PICK r : /\ Turns(p, r) /\ SameSync(r, new)
                 /\ r.known = new.known /\ r.head = new.head /\ r.tree = new.tree
                 /\ SameWork(r, new) /\ SamePlace(r, new)
                 /\ \/ colls[s[p].type] = 0 /\ r.pc = "create"
                    \/ r.coll \in 1..colls[s[p].type] /\ r.pc = After(s[p].type)
    BY <1>0, <2>1, <2>2, FindTurns
  <2>5. s'[p] = r /\ r.type = "github" /\ r.at = s[p].at
    BY <1>0, <2>3, <2>4, TurnsOnlyOne DEF SameSync, SamePlace
  <2>6. PageStays(p)
    BY <2>1, <2>5 DEF PageStays
  <2> QED
    BY <1>1, <2>1, <2>4, <2>6, TurnKeepsPages
<1>3. ASSUME ListPages(p) PROVE PageInv'
  <2>1. /\ FindCollection(p, s[p]) /\ s[p].pc = "list" /\ s[p].type = "pages"
        /\ UNCHANGED remote /\ runs' = [runs EXCEPT ![s[p].run].head = remote]
    BY <1>0, <1>3 DEF ListPages, world, store, Shape, PageSteps
  <2>2. PICK r : /\ Turns(p, r) /\ SameSync(r, s[p])
                 /\ r.known = s[p].known /\ r.head = s[p].head /\ r.tree = s[p].tree
                 /\ SameWork(r, s[p]) /\ SamePlace(r, s[p])
                 /\ \/ colls[s[p].type] = 0 /\ r.pc = "create"
                    \/ r.coll \in 1..colls[s[p].type] /\ r.pc = After(s[p].type)
    BY <1>0, <2>1, FindTurns
  <2>3. s'[p] = r /\ r.type = "pages" /\ r.at = s[p].at /\ r.run = s[p].run /\ r.pc \in {"create", "page"}
    BY <1>0, <2>1, <2>2, TurnsOnlyOne DEF SameSync, SamePlace, After
  <2>4. /\ s[p].run \in 1..MaxStarts /\ runs[s[p].run].status \in {"running", "gone"}
        /\ \A q \in Proc \ {p} : s[q].run # s[p].run
    <3>1. s[p].run # 0 /\ s[p].run \in 0..MaxStarts
      BY <2>1, SyncNumbers DEF Shape
    <3> QED
      BY <3>1 DEF RunInv, RunHeld
  <2>5. /\ runs'[s[p].run].head = remote
        /\ runs'[s[p].run].status = runs[s[p].run].status
        /\ \A k \in 1..MaxStarts : k # s[p].run => runs'[k] = runs[k]
    <3>1. runs[s[p].run] \in RunTypes
      BY <1>0, <2>4
    <3> QED
      BY <1>0, <2>1, <2>4, <3>1 DEF RunTypes
  <2>6. \A k \in 1..MaxStarts : RunHas(k)
    BY <2>4, <2>5 DEF RunHas
  <2>7. \A q \in Proc : q # p /\ s[q].type = "pages" /\ UnderWay(q) => runs'[s[q].run].head = runs[s[q].run].head
    <3> SUFFICES ASSUME NEW q \in Proc, q # p, s[q].type = "pages", UnderWay(q)
                 PROVE  s[q].run \in 1..MaxStarts /\ s[q].run # s[p].run
      BY <2>5
    <3>1. s[q].run # 0 /\ s[q].run \in 0..MaxStarts
      BY SyncNumbers DEF Shape, UnderWay
    <3> QED
      BY <2>4, <3>1
  <2>8. \A f \in Sources : ~ Passed(p, f)
    BY <2>1 DEF PageInv, HeadKept
  <2>9. \A f \in Sources : ~ Passed(p, f)'
    BY <2>3, <2>8 DEF Passed
  <2>10. runs'[s'[p].run].head \in 1..remote'
    BY <1>0, <2>1, <2>3, <2>5
  <2>11. PagesAre(p)
    BY <2>3, <2>9, <2>10 DEF PagesAre, HeadKept, PagesKept, SendKept
  <2> QED
    BY <2>1, <2>2, <2>6, <2>7, <2>11, TurnKeepsPages
<1>4. ASSUME CreateCollection(p) PROVE PageInv'
  <2>1. s[p].pc = "create" /\ UNCHANGED <<remote, runs>> /\ UnderWay(p)
    BY <1>4 DEF CreateCollection, world, store, hist, UnderWay
  <2>2. PICK r : /\ Turns(p, r) /\ SameSync(r, s[p])
                 /\ r.known = s[p].known /\ r.head = s[p].head /\ r.tree = s[p].tree
                 /\ SameWork(r, s[p]) /\ SamePlace(r, s[p])
                 /\ r.pc = After(s[p].type) /\ r.coll = colls[s[p].type] + 1
    BY <1>0, <1>4, CreateTurns
  <2>3. s'[p] = r /\ r.type = s[p].type /\ r.at = s[p].at /\ r.run = s[p].run /\ r.pc = After(s[p].type)
    BY <1>0, <2>2, TurnsOnlyOne DEF SameSync, SamePlace
  <2>4. (\A f \in Sources : ~ Passed(p, f)) /\ HeadKept(p)
    BY <2>1 DEF PageInv, HeadKept
  <2>5. \A f \in Sources : ~ Passed(p, f)'
    BY <2>3, <2>4 DEF Passed
  <2>6. s'[p].type = "pages" => runs'[s'[p].run].head \in 1..remote'
    BY <2>1, <2>3, <2>4 DEF HeadKept
  <2>7. PagesAre(p)
    BY <2>3, <2>5, <2>6 DEF PagesAre, HeadKept, PagesKept, SendKept, After
  <2> QED
    BY <1>1, <2>1, <2>2, <2>7, TurnKeepsPages
<1> QED
  BY <1>2, <1>3, <1>4

\* The page being sent has a file as new as the list.
LEMMA IndexedPages ==
    ASSUME SourceInv, SourceInv', PageInv, Carried, NEW p \in Proc, IndexPage(p)
    PROVE  PageInv'
<1>0. TypeOK /\ Shape(p) /\ s[p] \in SyncTypes /\ remote \in Nat /\ Len(docs) \in Nat
      /\ s[p].run \in 0..MaxStarts
  BY SyncNumbers
<1>1. s[p].pc = "page" /\ s[p].at <= Len(Files) /\ UNCHANGED <<remote, runs>>
      /\ s[p].type = "pages" /\ UnderWay(p)
  BY <1>0 DEF IndexPage, More, world, Shape, PageSteps, UnderWay
<1>2. PICK d \in 1..Len(docs') :
             /\ RecordsTyped /\ Sends(p, d)
             /\ \A e \in 1..Len(docs) : /\ SameRecord(e) /\ reading'[e] = reading[e]
                                        /\ docs'[e].text = docs[e].text
                                        /\ e # d => docs'[e] = docs[e]
             /\ docs'[d].type = s[p].type /\ docs'[d].coll = s[p].coll /\ docs'[d].name = Entry(p)
             /\ docs'[d].temp = remote /\ docs'[d].stage = "queued"
             /\ \/ d \in Found(p) /\ docs[d].temp # 0 /\ Len(docs') = Len(docs)
                \/ /\ d = Len(docs) + 1 /\ Len(docs') = d /\ reading'[d] = {} /\ docs'[d].text = {}
                   /\ Found(p) = {} \/ \E e \in Found(p) : docs[e].temp = 0
  BY <1>0, <1>1, PageRecords
<1>3. PICK r : /\ Turns(p, r) /\ SameSync(r, s[p]) /\ SameHead(r, s[p]) /\ SamePlace(r, s[p])
               /\ r.pend = s[p].pend /\ r.fresh = s[p].fresh /\ r.sent = {d} /\ r.done = {} /\ r.pc = "send"
  <2>1. Sends(p, d) /\ d \in Nat
    BY <1>2
  <2> QED
    BY <1>0, <2>1, SendsTurns
<1>4. /\ s'[p] = r /\ r.type = "pages" /\ r.run = s[p].run /\ r.at = s[p].at /\ r.sent = {d} /\ r.pc = "send"
  BY <1>0, <1>1, <1>3, TurnsOnlyOne DEF SameSync, SamePlace
<1>8. \A k \in 1..MaxStarts : RunHas(k)
  BY <1>1 DEF RunHas
<1>9. runs[s[p].run].head \in 1..remote
  BY <1>1 DEF PageInv, HeadKept
<1>10. PICK h \in 1..remote : h = runs[s[p].run].head
  BY <1>9
<1>11. HeadKept(p)'
  BY <1>1, <1>4, <1>9 DEF HeadKept
<1>12. ASSUME ~ raced' PROVE PagesKept(p)' /\ SendKept(p)'
  <2>1. PresentKept("pages") /\ ~ raced
    BY <1>12 DEF Carried, RecordsStay
  <2>2. ASSUME NEW f \in Sources, Passed(p, f) PROVE Present("pages", f, h)'
    <3>1. Present("pages", f, h)
      BY <1>1, <1>10, <2>1, <2>2 DEF PageInv, PagesKept
    <3>2. h \in Nat
      BY <1>0
    <3> QED
      BY <2>1, <3>1, <3>2 DEF PresentKept
  <2>3. PagesKept(p)'
    BY <1>1, <1>4, <1>10, <2>2 DEF PagesKept, Passed
  <2>4. IsNamed(d, "pages", Entry(p))' /\ Reaches(d, h)'
    <3>1. Entry(p)' = Entry(p)
      BY <1>4 DEF Entry
    <3>2. docs'[d].temp >= h
      BY <1>0, <1>2, <1>10
    <3>3. FileOf(d)' = docs'[d].temp
      BY <1>1, <1>2 DEF FileOf
    <3> QED
      BY <1>1, <1>2, <3>1, <3>2, <3>3 DEF IsNamed, Reaches
  <2>5. SendKept(p)'
    BY <1>1, <1>2, <1>4, <1>10, <2>4 DEF SendKept
  <2> QED
    BY <2>3, <2>5
<1>13. PagesAre(p)
  BY <1>11, <1>12 DEF PagesAre
<1> QED
  BY <1>1, <1>3, <1>8, <1>13, TurnKeepsPages

\* A page that has been sent is passed.
LEMMA SentPages ==
    ASSUME SourceInv, SourceInv', PageInv, Carried, NEW p \in Proc, SendPage(p)
    PROVE  PageInv'
<1>0. TypeOK /\ Shape(p) /\ s[p] \in SyncTypes /\ remote \in Nat /\ Len(docs) \in Nat
  BY SyncNumbers
<1>1. /\ s[p].pc = "send" /\ s[p].at <= Len(Files) /\ s[p].count < s[p].at /\ s[p].type = "pages" /\ UnderWay(p)
      /\ UNCHANGED <<remote, runs>>
  BY <1>0 DEF SendPage, world, Shape, PageSteps, UnderWay
<1>2. PICK r : /\ Turns(p, r) /\ SameSync(r, s[p]) /\ SameHead(r, s[p]) /\ SameDocs(r, s[p])
               /\ r.done = r.sent /\ r.pc = "page" /\ r.at = Upcoming(s[p].at + 1) /\ r.count = s[p].count + 1
  BY <1>0, <1>1, SendPageTurns
<1>3. s'[p].pc = "page" /\ s'[p].type = "pages" /\ s'[p].run = s[p].run /\ s'[p].at = Upcoming(s[p].at + 1)
  BY <1>0, <1>1, <1>2, TurnsOnlyOne DEF SameSync
<1>4. \A f \in Sources : Passed(p, f)' <=> (Passed(p, f) \/ f = Entry(p))
  BY <1>1, <1>3, IndexedPasses
<1>5. HeadKept(p)'
  <2>1. runs[s[p].run].head \in 1..remote
    BY <1>1 DEF PageInv, HeadKept
  <2> QED
    BY <1>1, <1>3, <2>1 DEF HeadKept
<1>6. ASSUME ~ raced' PROVE PagesKept(p)'
  <2>1. PresentKept("pages") /\ ~ raced /\ PagesKept(p) /\ SendKept(p)
    BY <1>6 DEF Carried, RecordsStay, PageInv
  <2> PICK h \in Nat : h = runs[s[p].run].head
    <3>1. runs[s[p].run].head \in 1..remote
      BY <1>1 DEF PageInv, HeadKept
    <3> QED
      BY <1>0, <3>1
  <2>2. ASSUME NEW f \in Sources, Passed(p, f)' PROVE Present("pages", f, h)'
    <3>1. Present("pages", f, h)
      <4>1. CASE Passed(p, f)
        BY <1>1, <2>1, <4>1 DEF PagesKept
      <4>2. CASE f = Entry(p)
        BY <1>1, <2>1, <4>2 DEF SendKept, IsNamed, Present
      <4> QED
        BY <1>4, <2>2, <4>1, <4>2
    <3> QED
      BY <2>1, <3>1 DEF PresentKept
  <2> QED
    BY <1>1, <1>3, <2>2 DEF PagesKept
<1>7. SendKept(p)'
  BY <1>3 DEF SendKept
<1>8. PagesAre(p)
  BY <1>5, <1>6, <1>7 DEF PagesAre
<1>9. \A k \in 1..MaxStarts : RunHas(k)
  BY <1>1 DEF RunHas
<1> QED
  BY <1>1, <1>2, <1>8, <1>9, TurnKeepsPages

\* Every step keeps the pages of runs and syncs.
LEMMA PageStep ==
    SourceInv /\ SourceInv' /\ RunInv /\ RecordInv /\ ReadInv /\ PageInv /\ [Next]_vars => PageInv'
<1> SUFFICES ASSUME SourceInv, SourceInv', RunInv, RecordInv, ReadInv, PageInv, [Next]_vars PROVE PageInv'
  OBVIOUS
<1>0. Carried
  BY StepCarries
<1>1. CASE UNCHANGED vars
  <2>1. \A r \in 1..MaxStarts : RunHas(r)
    BY <1>1 DEF vars, RunHas
  <2>2. \A q \in Proc : PageStays(q)
    BY <1>1 DEF vars, PageStays, UnderWay
  <2> QED
    BY <1>0, <2>1, <2>2, PageHold
<1>2. CASE Push \/ User \/ Ingest
  BY <1>0, <1>2, WorldPages
<1>3. ASSUME NEW p \in Proc, Starts(p) PROVE PageInv'
  BY <1>0, <1>3, StartPages
<1>4. ASSUME NEW p \in Proc, SyncStep(p) PROVE PageInv'
  <2>1. CASE Dispatches(p)
    <3>1. s[p].type = "github" \/ s[p].type = "pages"
      BY SyncNumbers DEF Types
    <3> QED
      BY <1>0, <2>1, <3>1, GithubPages, DispatchedPages
  <2>2. CASE ~ Dispatches(p)
    BY <1>0, <1>4, <2>2, FindPages, GithubPages, IndexedPages, SentPages, EndPages DEF SyncStep, Dispatches
  <2> QED
    BY <2>1, <2>2
<1>5. ASSUME NEW p \in Proc, SyncError(p) PROVE PageInv'
  BY <1>0, <1>5, GithubPages, EndPages DEF SyncError
<1> QED
  BY <1>1, <1>2, <1>3, <1>4, <1>5 DEF Next

\* No page is passed to begin with.
LEMMA PageInit == Init => PageInv
<1> SUFFICES ASSUME Init PROVE PageInv
  OBVIOUS
<1>1. /\ \A p \in Proc : s[p] = Idle
      /\ docs = <<>> /\ \A r \in DOMAIN runs : runs[r].status = "none"
  BY DEF Init
<1>2. Len(docs) = 0
  BY <1>1, EmptySeq
<1>3. Idle.pc = "idle"
  BY IdleIsTyped
<1> QED
  BY <1>1, <1>2, <1>3 DEF PageInv, HeadKept, PagesKept, SendKept, UnderWay, CompleteRunIsIndexed

\* A run of the hub that is complete has every page, as it was when it was
\* listed or newer, in the documents: searchable, being read, or in the file of a
\* document that is not called ready, for any number of syncs, overlapping or
\* not, whether or not jobs are queued, refused or failing, as long as no
\* ingestion removes an unread file.
THEOREM CompleteRunsAreIndexed == Spec => []CompleteRunIsIndexed
<1>1. Init => SourceInv /\ RunInv /\ RecordInv /\ ReadInv /\ PageInv
  BY SourceInit, RunInit, RecordInit, ReadInit, PageInit
<1>2. SourceInv /\ RunInv /\ RecordInv /\ ReadInv /\ PageInv /\ [Next]_vars
        => SourceInv' /\ RunInv' /\ RecordInv' /\ ReadInv' /\ PageInv'
  BY SourceStep, RunStep, RecordStep, ReadStep, PageStep
<1>3. PageInv => CompleteRunIsIndexed
  BY DEF PageInv
<1> QED
  BY <1>1, <1>2, <1>3, PTL DEF Spec

-----------------------------------------------------------------------------
(* The files of a complete row *)

\* q is at the files of the archive as it was, or has skipped some.
WorkStays(q) ==
    s'[q].pc \in Indexing =>
        /\ s[q].pc \in Indexing
        /\ s'[q].fresh = s[q].fresh /\ s'[q].pend = s[q].pend /\ s'[q].sent = s[q].sent
        /\ s'[q].count = s[q].count /\ s'[q].tree = s[q].tree /\ s[q].at <= s'[q].at

\* What a sync has of its files in the next state.
FilesAre(q) == CountKept(q)' /\ (~ overlap' /\ ~ raced' => FilesKept(q)')

\* A sync that stays where it is keeps its count and what it covers,
LEMMA CountStays ==
    ASSUME SourceInv, SourceInv', FileInv, RecordsStay, NEW q \in Proc, WorkStays(q)
    PROVE  /\ CountKept(q)'
           /\ s'[q].pc \in Indexing =>
                /\ Covers(q)' = Covers(q)
                /\ \A d \in s[q].sent : docs'[d].name = docs[d].name
<1> SUFFICES ASSUME s'[q].pc \in Indexing
             PROVE  CountKept(q)' /\ Covers(q)' = Covers(q) /\ \A d \in s[q].sent : docs'[d].name = docs[d].name
  BY DEF CountKept
<1>1. /\ s[q].pc \in Indexing /\ CountKept(q)
      /\ s'[q].fresh = s[q].fresh /\ s'[q].pend = s[q].pend /\ s'[q].sent = s[q].sent
      /\ s'[q].count = s[q].count /\ s[q].at <= s'[q].at
  BY DEF WorkStays, FileInv
<1>2. s[q].pend \cup s[q].sent \subseteq 1..Len(docs) /\ s[q].at \in Nat
  BY SyncNumbers, MembersAreListed DEF Shape
<1>3. \A d \in s[q].pend \cup s[q].sent : docs'[d].name = docs[d].name /\ docs'[d].type = docs[d].type
  BY <1>2 DEF RecordsStay, SameRecord
<1>4. Covers(q)' = Covers(q)
  BY <1>1, <1>3 DEF Covers
<1>5. ASSUME NEW f, Passed(q, f) PROVE Passed(q, f)'
  <2>1. s'[q].at \in Nat
    <3>1. s'[q] \in SyncTypes
      BY DEF SourceInv, TypeOK
    <3> QED
      BY <3>1, MembersAreListed DEF SyncTypes
  <2>2. 1..(s[q].at - 1) \subseteq 1..(s'[q].at - 1)
    BY <1>1, <1>2, <2>1
  <2> QED
    BY <1>5, <2>2 DEF Passed
<1>6. CountKept(q)'
  BY <1>1, <1>3, <1>4, <1>5 DEF CountKept
<1> QED
  BY <1>3, <1>4, <1>6

\* A sync at its files holds a version of them.
LEMMA TreeIsVersion ==
    ASSUME SourceInv, NEW q \in Proc, s[q].pc \in Indexing
    PROVE  /\ s[q].tree \in Nat \ {0} /\ s[q].head \in Nat \ {0} /\ s[q].head <= s[q].tree
           /\ s[q].type = "github" /\ UnderWay(q)
<1>1. /\ s[q].pc \in GithubSteps /\ UnderWay(q) /\ Shape(q)
      /\ s[q].head \in Nat /\ s[q].tree \in Nat /\ remote \in Nat
  BY SyncNumbers DEF GithubSteps, Indexing, UnderWay
<1>2. s[q].type = "github"
  BY <1>1 DEF Shape
<1>3. s[q].head \in 1..remote /\ s[q].tree \in s[q].head .. remote
  BY <1>1, <1>2 DEF Shape
<1> QED
  BY <1>1, <1>2, <1>3

\* and the files of the records it counts.
LEMMA FilesStay ==
    ASSUME SourceInv, SourceInv', FileInv, Carried, NEW q \in Proc, WorkStays(q)
    PROVE  FilesAre(q)
<1>0. RecordsStay
  BY DEF Carried
<1>1. ASSUME ~ overlap', ~ raced', s'[q].pc \in Indexing
      PROVE  /\ \A f \in Covers(q)' : Backed(f, s[q].tree)'
             /\ \A f \in Sources : (\E d \in s'[q].sent : docs'[d].name = f) => Present("github", f, s[q].tree)'
  <2>1. /\ Covers(q)' = Covers(q) /\ s[q].pc \in Indexing /\ s'[q].sent = s[q].sent /\ s'[q].tree = s[q].tree
        /\ \A d \in s[q].sent : docs'[d].name = docs[d].name
    BY <1>0, <1>1, CountStays DEF WorkStays
  <2>2. FilesKept(q) /\ BackedKept /\ PresentKept("github")
    BY <1>0, <1>1 DEF Carried, RecordsStay, FileInv
  <2> PICK v \in Nat : v = s[q].tree
    BY <2>1, TreeIsVersion
  <2>3. ASSUME NEW f \in Covers(q) PROVE Backed(f, v)'
    <3>1. Backed(f, v) /\ f \in Sources
      BY <2>1, <2>2 DEF FilesKept, Covers
    <3> QED
      BY <2>2, <3>1 DEF BackedKept
  <2>4. ASSUME NEW f \in Sources, NEW d \in s[q].sent, docs[d].name = f PROVE Present("github", f, v)'
    <3>1. Present("github", f, v)
      BY <2>1, <2>2, <2>4 DEF FilesKept
    <3> QED
      BY <2>2, <3>1 DEF PresentKept
  <2> QED
    BY <2>1, <2>3, <2>4
<1>2. CountKept(q)'
  BY <1>0, CountStays
<1> QED
  BY <1>1, <1>2 DEF FilesAre, FilesKept

\* The files that a complete row may count.
Reached(sha) == {f \in Sources : Present("github", f, sha)}

\* Those of them that were there are.
LEMMA ReachedStay ==
    ASSUME Carried, ~ raced', ~ overlap', NEW sha \in Nat
    PROVE  /\ Reached(sha)' \subseteq Sources /\ Reached(sha) \subseteq Reached(sha)'
  BY DEF Reached, Carried, PresentKept

\* A set of files has no more than one that contains it.
LEMMA FilesAreFinite ==
    ASSUME NEW T \in SUBSET Sources, NEW S \in SUBSET T
    PROVE  Cardinality(S) \in Nat /\ Cardinality(T) \in Nat /\ Cardinality(S) <= Cardinality(T)
<1>1. IsFiniteSet(T)
  BY MembersAreListed, FS_Subset
<1>2. IsFiniteSet(S) /\ Cardinality(S) <= Cardinality(T)
  BY <1>1, FS_Subset
<1> QED
  BY <1>1, <1>2, FS_CardinalityType

\* A step after which counts and files are kept keeps the invariant of files.
LEMMA FileHold ==
    ASSUME SourceInv, SourceInv', FileInv, Carried,
           row' = row \/ row'.status # "complete" \/ CompleteIsIndexed',
           \A q \in Proc : WorkStays(q) \/ FilesAre(q)
    PROVE  FileInv'
<1>1. \A q \in Proc : FilesAre(q)
  BY FilesStay
<1>2. CompleteIsIndexed'
  <2> SUFFICES ASSUME row' = row, row.status = "complete", ~ overlap', ~ raced'
               PROVE  Cardinality({f \in Sources : Present("github", f, row.sha)'}) >= row.files
    BY DEF CompleteIsIndexed
  <2>1. row.sha \in Nat /\ row.files \in Nat
    <3>1. row \in RowTypes
      BY DEF SourceInv, TypeOK
    <3> QED
      BY <3>1, LimitAssumption, MembersAreListed DEF RowTypes, Versions
  <2> PICK v \in Nat : v = row.sha
    BY <2>1
  <2>2. Cardinality(Reached(v)) >= row.files
    BY DEF Carried, RecordsStay, FileInv, CompleteIsIndexed, Reached
  <2>3. /\ Cardinality(Reached(v)) \in Nat /\ Cardinality(Reached(v)') \in Nat
        /\ Cardinality(Reached(v)) <= Cardinality(Reached(v)')
    BY ReachedStay, FilesAreFinite
  <2>4. Cardinality(Reached(v)') >= row.files
    BY <2>1, <2>2, <2>3
  <2> QED
    BY <2>4 DEF Reached
<1> QED
  BY <1>1, <1>2 DEF FileInv, FilesAre

\* A step of one sync.
LEMMA TurnKeepsFiles ==
    ASSUME SourceInv, SourceInv', FileInv, Carried, NEW p \in Proc, NEW r, Turns(p, r),
           row' = row \/ row'.status # "complete" \/ CompleteIsIndexed',
           WorkStays(p) \/ FilesAre(p)
    PROVE  FileInv'
<1>1. (\A q \in Proc : q # p => s'[q] = s[q]) /\ \A q \in Proc : s[q].at \in Nat
  BY TurnsOnlyOne, SyncNumbers, MembersAreListed DEF SourceInv
<1>2. \A q \in Proc : q # p => WorkStays(q)
  BY <1>1 DEF WorkStays
<1>3. \A q \in Proc : WorkStays(q) \/ FilesAre(q)
  BY <1>2
<1> QED
  BY <1>3, FileHold

\* A push, a connection or an ingestion.
LEMMA WorldFiles ==
    ASSUME SourceInv, SourceInv', FileInv, Carried, Push \/ User \/ Ingest
    PROVE  FileInv'
<1>0. \A q \in Proc : s[q].at \in Nat
  BY SyncNumbers, MembersAreListed
<1>1. s' = s /\ (row' = row \/ row'.status = "none")
  <2>1. CASE Push \/ Authorize \/ Ingest
    BY <2>1 DEF Push, Authorize, Connected, Ingest, IngestBegin, IngestEnd, IngestFails, ThreadDies
  <2>2. CASE Disconnect
    BY <2>2 DEF Disconnect, NoRow
  <2>3. ASSUME NEW t \in Types, HubConnect(t) \/ HubDisconnect(t) PROVE s' = s /\ row' = row
    BY <2>3 DEF HubConnect, HubDisconnect, Connected
  <2> QED
    BY <2>1, <2>2, <2>3 DEF User
<1>2. \A q \in Proc : WorkStays(q)
  BY <1>0, <1>1 DEF WorkStays
<1> QED
  BY <1>1, <1>2, FileHold

\* A sync that is not at the files after its step has none to keep.
LEMMA AwayKeepsFiles ==
    ASSUME SourceInv, SourceInv', FileInv, Carried, NEW p \in Proc, NEW r, Turns(p, r), r.pc \notin Indexing,
           row' = row \/ row'.status # "complete" \/ CompleteIsIndexed'
    PROVE  FileInv'
<1>1. s'[p] = r
  BY TurnsOnlyOne DEF SourceInv
<1>2. WorkStays(p)
  BY <1>1 DEF WorkStays
<1> QED
  BY <1>2, TurnKeepsFiles

\* A sync that starts has counted nothing.
LEMMA StartFiles ==
    ASSUME SourceInv, SourceInv', FileInv, Carried, NEW p \in Proc, Starts(p)
    PROVE  FileInv'
<1>0. TypeOK /\ starts \in 0..MaxStarts /\ MaxStarts \in Nat /\ s \in [Proc -> SyncTypes]
  BY SyncNumbers DEF TypeOK
<1>1. ASSUME NEW t \in Types, NEW k \in 0..MaxStarts, Start(p, t, k) PROVE FileInv'
  <2>1. PICK r : Turns(p, r) /\ Begun(r, t, k)
    BY <1>0, <1>1, StartTurns
  <2>2. row' = row
    BY <1>1 DEF Start
  <2>3. r.pc \notin Indexing
    BY <2>1 DEF Begun, Indexing
  <2> QED
    BY <2>1, <2>2, <2>3, AwayKeepsFiles
<1>2. CASE RouteSync(p) \/ MonitorSync(p)
  BY <1>0, <1>1, <1>2 DEF RouteSync, MonitorSync, Types
<1>3. ASSUME NEW t \in Types, HubSync(p, t) PROVE FileInv'
  <2>1. CASE NoRepository(t)
    <3>1. UNCHANGED <<s, row>> /\ s[p].pc = "idle"
      BY <1>3, <2>1 DEF HubSync
    <3>2. Turns(p, s[p])
      BY <1>0, <3>1 DEF Turns
    <3>3. s[p].pc \notin Indexing
      BY <3>1 DEF Indexing
    <3> QED
      BY <3>1, <3>2, <3>3, AwayKeepsFiles
  <2>2. CASE ~ NoRepository(t)
    <3>1. Start(p, t, starts + 1) /\ starts < MaxStarts
      BY <1>3, <2>2 DEF HubSync, Start
    <3>2. starts + 1 \in 0..MaxStarts
      BY <1>0, <3>1
    <3> QED
      BY <1>1, <3>1, <3>2
  <2> QED
    BY <2>1, <2>2
<1> QED
  BY <1>2, <1>3 DEF Starts

\* The steps of a sync before it is at the files, and of a sync of pages.
LEMMA AwayFiles ==
    ASSUME SourceInv, SourceInv', FileInv, Carried, NEW p \in Proc
    PROVE  /\ ReadHead(p) => FileInv'
           /\ ListPages(p) => FileInv'
           /\ CreateCollection(p) => FileInv'
           /\ SendPage(p) => FileInv'
           /\ IndexPage(p) => FileInv'
           /\ Dispatches(p) => FileInv'
           /\ DispatchAll(p) => FileInv'
<1>0. TypeOK /\ Shape(p) /\ s[p] \in SyncTypes
  BY SyncNumbers
<1>1. ASSUME Ends(p), row' = row PROVE FileInv'
  <2>1. Turns(p, Idle) /\ Idle.pc \notin Indexing
    BY <1>0, <1>1, EndsTurns, IdleIsTyped DEF Indexing
  <2> QED
    BY <1>1, <2>1, AwayKeepsFiles
<1>2. ASSUME NEW new \in SyncTypes, FindCollection(p, new), row' = row PROVE FileInv'
  <2>1. PICK r : Turns(p, r) /\ (r.pc = "create" \/ r.pc = After(s[p].type))
    BY <1>0, <1>2, FindTurns
  <2>2. r.pc \notin Indexing
    BY <2>1 DEF After, Indexing
  <2> QED
    BY <1>2, <2>1, <2>2, AwayKeepsFiles
<1>4. ASSUME ReadHead(p) PROVE FileInv'
  <2>1. row' = row
    BY <1>4 DEF ReadHead
  <2>2. CASE Returns(p)
    BY <1>1, <2>1, <2>2 DEF Returns, Recorded
  <2>3. CASE FindCollection(p, [s[p] EXCEPT !.head = remote])
    <3> DEFINE new == [s[p] EXCEPT !.head = remote]
    <3>1. new \in SyncTypes
      <4>1. remote \in Versions
        BY SyncNumbers
      <4> QED
        BY <1>0, <4>1, ZenonT(60) DEF SyncTypes
    <3>2. FindCollection(p, new)
      BY <2>3
    <3> HIDE DEF new
    <3> QED
      BY <1>2, <2>1, <3>1, <3>2
  <2> QED
    BY <1>4, <2>2, <2>3 DEF ReadHead
<1>5. ASSUME ListPages(p) PROVE FileInv'
  BY <1>0, <1>2, <1>5 DEF ListPages
<1>6. ASSUME CreateCollection(p) PROVE FileInv'
  <2>1. row' = row
    BY <1>6 DEF CreateCollection
  <2>2. PICK r : Turns(p, r) /\ r.pc = After(s[p].type)
    BY <1>0, <1>6, CreateTurns
  <2>3. r.pc \notin Indexing
    BY <2>2 DEF After, Indexing
  <2> QED
    BY <2>1, <2>2, <2>3, AwayKeepsFiles
<1>7. ASSUME SendPage(p) PROVE FileInv'
  <2>1. row' = row /\ s[p].at <= Len(Files) /\ s[p].count < s[p].at
    BY <1>0, <1>7 DEF SendPage, Shape
  <2>2. PICK r : Turns(p, r) /\ r.pc = "page"
    BY <1>0, <1>7, <2>1, SendPageTurns
  <2>3. r.pc \notin Indexing
    BY <2>2 DEF Indexing
  <2> QED
    BY <2>1, <2>2, <2>3, AwayKeepsFiles
<1>8. ASSUME IndexPage(p) PROVE FileInv'
  <2>1. row' = row /\ s[p].at <= Len(Files)
    BY <1>8 DEF IndexPage, More
  <2>2. PICK d \in 1..Len(docs') : Sends(p, d)
    BY <1>0, <1>8, <2>1, PageRecords
  <2>3. d \in Nat
    OBVIOUS
  <2>4. PICK r : Turns(p, r) /\ r.pc = "send"
    BY <1>0, <2>2, <2>3, SendsTurns
  <2>5. r.pc \notin Indexing
    BY <2>4 DEF Indexing
  <2> QED
    BY <2>1, <2>4, <2>5, AwayKeepsFiles
<1>9. ASSUME NEW r, Turns(p, r), SameHead(r, s[p]), SameDocs(r, s[p]), SamePlace(r, s[p]),
             r.pc \in Indexing => s[p].pc \in Indexing, row' = row
      PROVE  FileInv'
  <2>1. s'[p] = r /\ s[p].at \in Nat
    BY <1>0, <1>9, TurnsOnlyOne, SyncNumbers, MembersAreListed
  <2>2. WorkStays(p)
    BY <1>9, <2>1 DEF WorkStays, SameHead, SameDocs, SamePlace
  <2> QED
    BY <1>9, <2>2, TurnKeepsFiles
<1>10. ASSUME Dispatches(p) PROVE FileInv'
  <2>1. PICK r : /\ Turns(p, r) /\ SameSync(r, s[p]) /\ SameHead(r, s[p])
                 /\ SameDocs(r, s[p]) /\ SamePlace(r, s[p]) /\ r.pc = s[p].pc
    BY <1>0, <1>10, DispatchesTurns
  <2>2. row' = row
    BY <1>0, <1>10, DispatchesRecords
  <2> QED
    BY <1>9, <2>1, <2>2
<1>11. ASSUME DispatchAll(p) PROVE FileInv'
  <2>1. PICK r : /\ Turns(p, r) /\ SameSync(r, s[p]) /\ SameHead(r, s[p])
                 /\ SameWork(r, s[p]) /\ SamePlace(r, s[p]) /\ r.pc = "finish"
    BY <1>0, <1>11, DispatchTurns
  <2>2. row' = row /\ s[p].pc \in Indexing
    BY <1>11 DEF DispatchAll, Goes, Indexing
  <2> QED
    BY <1>9, <2>1, <2>2 DEF SameWork
<1> QED
  BY <1>4, <1>5, <1>6, <1>7, <1>8, <1>10, <1>11

\* A sync that ends without a commit of its row leaves it, or has it failed.
LEMMA EndedFiles ==
    ASSUME SourceInv, SourceInv', FileInv, Carried, NEW p \in Proc
    PROVE  /\ SyncFails(p) => FileInv'
           /\ DispatchFails(p) => FileInv'
           /\ PagesDone(p) => FileInv'
           /\ PagesFail(p) => FileInv'
           /\ Break(p) => FileInv'
           /\ MarkFailed(p) => FileInv'
<1>0. TypeOK
  BY SyncNumbers
<1>1. ASSUME Ends(p), row' = row \/ row'.status # "complete" PROVE FileInv'
  <2>1. Turns(p, Idle) /\ Idle.pc \notin Indexing
    BY <1>0, <1>1, EndsTurns, IdleIsTyped DEF Indexing
  <2> QED
    BY <1>1, <2>1, AwayKeepsFiles
<1>2. ASSUME MarkFailed(p) PROVE FileInv'
  <2>1. row' = row \/ row' = [row EXCEPT !.status = "failed"]
    BY <1>2 DEF MarkFailed
  <2>2. row' = row \/ row'.status # "complete"
    <3>1. row \in RowTypes
      BY <1>0 DEF TypeOK
    <3> QED
      BY <2>1, <3>1 DEF RowTypes
  <2>3. Ends(p)
    BY <1>2 DEF MarkFailed, Lost, Raises, Recorded
  <2> QED
    BY <1>1, <1>2, <2>2, <2>3
<1>3. SyncFails(p) => FileInv'
  BY <1>2 DEF SyncFails
<1>4. PagesDone(p) => FileInv'
  BY <1>1 DEF PagesDone, Returns, Recorded
<1>5. PagesFail(p) => FileInv'
  BY <1>1 DEF PagesFail, Raises, Recorded
<1>6. Break(p) => FileInv'
  BY <1>1 DEF Break
<1>7. DispatchFails(p) => FileInv'
  BY <1>1, <1>2 DEF DispatchFails, Raises, Recorded
<1> QED
  BY <1>2, <1>3, <1>4, <1>5, <1>6, <1>7

\* The steps of a sync of the repository that count no file.
LEMMA UncountedFiles ==
    ASSUME SourceInv, SourceInv', FileInv, Carried, NEW p \in Proc
    PROVE  /\ Announce(p) => FileInv'
           /\ Download(p) => FileInv'
           /\ SkipFile(p) => FileInv'
<1>0. TypeOK /\ Shape(p) /\ s[p] \in SyncTypes
  BY SyncNumbers
<1>1. ASSUME Announce(p) PROVE FileInv'
  <2>2. CASE Lost(p) /\ row' = row
    <3>1. Turns(p, Idle) /\ Idle.pc \notin Indexing
      BY <1>0, <2>2, EndsTurns, IdleIsTyped DEF Lost, Indexing
    <3> QED
      BY <2>2, <3>1, AwayKeepsFiles
  <2>3. CASE /\ row' = IF s[p].known THEN [row EXCEPT !.status = "running"]
                        ELSE [NoRow EXCEPT !.conn = conn, !.status = "running"]
             /\ s' = [s EXCEPT ![p].pc = "download", ![p].known = TRUE]
    <3>1. PICK r : /\ Turns(p, r) /\ SameSync(r, s[p]) /\ SameWork(r, s[p]) /\ SamePlace(r, s[p])
                   /\ r.head = s[p].head /\ r.tree = s[p].tree /\ r.coll = s[p].coll
                   /\ r.pc = "download" /\ r.known = TRUE
      BY <1>0, <2>3, AnnounceTurns
    <3>2. row'.status = "running"
      <4>1. row \in RowTypes
        BY <1>0 DEF TypeOK
      <4> QED
        BY <2>3, <4>1 DEF RowTypes, NoRow
    <3>3. r.pc \notin Indexing
      BY <3>1 DEF Indexing
    <3> QED
      BY <3>1, <3>2, <3>3, AwayKeepsFiles
  <2> QED
    BY <1>1, <2>2, <2>3 DEF Announce
<1>2. ASSUME Download(p) PROVE FileInv'
  <2>1. s' = [s EXCEPT ![p].pc = "index", ![p].tree = remote] /\ s[p].pc = "download"
        /\ row' = row
    BY <1>2 DEF Download
  <2>2. PICK r : /\ Turns(p, r) /\ SameSync(r, s[p]) /\ SameWork(r, s[p]) /\ SamePlace(r, s[p])
                 /\ r.known = s[p].known /\ r.head = s[p].head /\ r.coll = s[p].coll
                 /\ r.pc = "index" /\ r.tree = remote
    BY <1>0, <2>1, DownloadTurns
  <2>3. /\ s'[p].pend = {} /\ s'[p].fresh = <<>> /\ s'[p].sent = {} /\ s'[p].count = 0
    BY <1>0, <2>1, <2>2, TurnsOnlyOne DEF Shape, Indexing, SameWork, SamePlace
  <2>4. Covers(p)' = {}
    <3>1. DOMAIN <<>> = {}
      OBVIOUS
    <3> QED
      BY <2>3, <3>1 DEF Covers
  <2>5. Cardinality({}) = 0
    BY FS_EmptySet
  <2>6. CountKept(p)' /\ FilesKept(p)'
    BY <2>3, <2>4, <2>5 DEF CountKept, FilesKept
  <2> QED
    BY <2>1, <2>2, <2>6, TurnKeepsFiles DEF FilesAre
<1>3. ASSUME SkipFile(p) PROVE FileInv'
  <2>1. /\ s[p].at <= Len(Files) /\ s' = [s EXCEPT ![p].at = Upcoming(@ + 1)] /\ s[p].pc = "index"
        /\ row' = row
    BY <1>3 DEF SkipFile, Full, More
  <2>2. PICK r : /\ Turns(p, r) /\ SameSync(r, s[p]) /\ SameHead(r, s[p]) /\ SameWork(r, s[p])
                 /\ r.pc = s[p].pc /\ r.count = s[p].count /\ r.at = Upcoming(s[p].at + 1)
    BY <1>0, <2>1, SkipTurns
  <2>3. s'[p] = r
    BY <1>0, <2>2, TurnsOnlyOne
  <2>4. s[p].at < s'[p].at
    BY <2>1, <2>2, <2>3, IndexedPasses
  <2>5. s[p].at \in Nat /\ s'[p].at \in Nat
    BY <2>1, <2>2, <2>3, IndexedPasses, SyncNumbers
  <2>6. WorkStays(p)
    BY <2>1, <2>2, <2>3, <2>4, <2>5 DEF WorkStays, SameHead, SameWork, SameDocs, Indexing
  <2> QED
    BY <2>1, <2>2, <2>6, TurnKeepsFiles
<1> QED
  BY <1>1, <1>2, <1>3

\* A commit turns the files that are counted into records, or leaves them so.
LEMMA FlushedFiles ==
    ASSUME SourceInv, SourceInv', FileInv, Carried, NEW p \in Proc, Flush(p)
    PROVE  FileInv'
<1> DEFINE m == Len(docs)
           n == Len(s[p].fresh)
<1>0. TypeOK /\ Shape(p) /\ m \in Nat /\ n \in Nat /\ DOMAIN s[p].fresh = 1..n
  BY SyncNumbers, RecordTypes
<1>1. s[p].pc \in {"index", "flush"} /\ UNCHANGED <<overlap, raced, file, row>>
  BY DEF Flush, hist
<1>2. PICK r : /\ Turns(p, r) /\ SameSync(r, s[p]) /\ SameHead(r, s[p]) /\ SamePlace(r, s[p])
               /\ r.pend = {} /\ r.fresh = <<>> /\ r.sent = Sent(p) /\ r.done = s[p].done
               /\ r.pc = IF s[p].pc = "flush" THEN "index" ELSE "dispatch"
  BY <1>0, FlushTurns
<1>3. /\ s'[p].pc \in {"index", "dispatch"} /\ s'[p].pend = {} /\ s'[p].fresh = <<>> /\ s'[p].sent = Sent(p)
      /\ s'[p].at = s[p].at /\ s'[p].count = s[p].count /\ s'[p].tree = s[p].tree /\ r.pc = s'[p].pc
  BY <1>0, <1>2, TurnsOnlyOne DEF SameHead, SamePlace
<1>4. s[p].type = "github" /\ s[p].tree \in Nat \ {0} /\ CountKept(p) /\ (~ overlap /\ ~ raced => FilesKept(p))
      /\ s[p].pend \cup s[p].sent \subseteq 1..m
  BY <1>0, <1>1, TreeIsVersion DEF Indexing, FileInv, Shape
<1>5. /\ RecordsTyped /\ Len(docs') = m + n
      /\ \A d \in 1..m :
           /\ SameRecord(d) /\ docs'[d].temp = docs[d].temp /\ docs'[d].text = docs[d].text
           /\ reading'[d] = reading[d]
           /\ docs'[d].stage = IF d \in s[p].pend THEN "queued" ELSE docs[d].stage
      /\ \A i \in 1..n : docs'[m + i] = NewDoc(p, s[p].fresh[i], 0) /\ reading'[m + i] = {}
  BY <1>0, FlushRecords
<1>6. Sent(p) = s[p].sent \cup s[p].pend \cup (m + 1)..(m + n)
  BY DEF Sent
<1> HIDE DEF m, n
<1>8. ASSUME NEW i \in 1..n PROVE docs'[m + i].name = s[p].fresh[i] /\ docs'[m + i].type = "github"
  <2>1. docs'[m + i] = NewDoc(p, s[p].fresh[i], 0)
    BY <1>5
  <2>2. NewDoc(p, s[p].fresh[i], 0).name = s[p].fresh[i] /\ NewDoc(p, s[p].fresh[i], 0).type = s[p].type
    BY DEF NewDoc
  <2> QED
    BY <1>4, <2>1, <2>2
<1>9. \A d \in (m + 1)..(m + n) : d - m \in 1..n /\ d = m + (d - m)
  BY <1>0
<1>10. \A i \in 1..n : m + i \in (m + 1)..(m + n)
  BY <1>0
<1>11. \A d \in s[p].pend \cup s[p].sent : docs'[d].name = docs[d].name /\ docs'[d].type = docs[d].type
  BY <1>4, <1>5 DEF SameRecord
<1>12. Covers(p)' = Covers(p)
  <2>1. Covers(p)' = {f \in Sources : \E d \in Sent(p) : docs'[d].name = f}
    <3>1. DOMAIN <<>> = {}
      OBVIOUS
    <3> QED
      BY <1>3, <3>1 DEF Covers
  <2>2. ASSUME NEW f \in Sources, NEW d \in Sent(p), docs'[d].name = f PROVE f \in Covers(p)
    <3>1. CASE d \in s[p].pend \cup s[p].sent
      BY <1>11, <2>2, <3>1 DEF Covers
    <3>2. CASE d \in (m + 1)..(m + n)
      <4>1. d - m \in DOMAIN s[p].fresh /\ s[p].fresh[d - m] = f
        BY <1>0, <1>8, <1>9, <2>2, <3>2
      <4> QED
        BY <4>1 DEF Covers
    <3> QED
      BY <1>6, <3>1, <3>2
  <2>3. ASSUME NEW f \in Covers(p) PROVE f \in Sources /\ \E d \in Sent(p) : docs'[d].name = f
    <3>1. CASE \E d \in s[p].pend \cup s[p].sent : docs[d].name = f
      BY <1>6, <1>11, <2>3, <3>1 DEF Covers
    <3>2. CASE \E i \in DOMAIN s[p].fresh : s[p].fresh[i] = f
      <4>1. PICK i \in 1..n : s[p].fresh[i] = f
        BY <1>0, <3>2
      <4>2. m + i \in Sent(p) /\ docs'[m + i].name = f
        BY <1>6, <1>8, <1>10, <4>1
      <4> QED
        BY <2>3, <4>2 DEF Covers
    <3> QED
      BY <2>3, <3>1, <3>2 DEF Covers
  <2> QED
    BY <2>1, <2>2, <2>3
<1>13. CountKept(p)'
  <2>1. \A d \in Sent(p) : docs'[d].type = "github"
    <3> SUFFICES ASSUME NEW d \in Sent(p) PROVE docs'[d].type = "github"
      OBVIOUS
    <3>1. CASE d \in s[p].pend \cup s[p].sent
      BY <1>1, <1>4, <1>11, <3>1 DEF CountKept, Indexing
    <3>2. CASE d \in (m + 1)..(m + n)
      BY <1>8, <1>9, <3>2
    <3> QED
      BY <1>6, <3>1, <3>2
  <2>2. \A f \in Covers(p) : Passed(p, f)'
    BY <1>1, <1>3, <1>4 DEF CountKept, Indexing, Passed
  <2>3. s'[p].count <= Cardinality(Covers(p))
    BY <1>1, <1>3, <1>4 DEF CountKept, Indexing
  <2> QED
    BY <1>3, <1>12, <2>1, <2>2, <2>3 DEF CountKept
<1>14. ASSUME ~ overlap', ~ raced' PROVE FilesKept(p)'
  <2> PICK v \in Nat \ {0} : v = s[p].tree
    BY <1>4
  <2>1. FilesKept(p) /\ BackedKept /\ PresentKept("github")
    BY <1>1, <1>4, <1>14 DEF Carried
  <2>2. ASSUME NEW f \in Covers(p) PROVE Backed(f, v)' /\ f \in Sources
    <3>1. Backed(f, v) /\ f \in Sources
      BY <1>1, <2>1 DEF FilesKept, Indexing, Covers
    <3> QED
      BY <2>1, <3>1 DEF BackedKept
  <2>3. ASSUME NEW f \in Sources, NEW d \in Sent(p), docs'[d].name = f PROVE Present("github", f, v)'
    <3>1. CASE d \in s[p].sent
      <4>1. docs[d].name = f
        BY <1>11, <2>3, <3>1
      <4>2. Present("github", f, v)
        BY <1>1, <2>1, <3>1, <4>1 DEF FilesKept, Indexing
      <4> QED
        BY <2>1, <4>2 DEF PresentKept
    <3>2. CASE d \in s[p].pend \cup (m + 1)..(m + n)
      <4>1. d \in 1..Len(docs') /\ IsNamed(d, "github", f)' /\ docs'[d].stage = "queued"
        <5>1. CASE d \in s[p].pend
          <6>1. d \in 1..m /\ d \in 1..(m + n)
            BY <1>0, <1>4, <5>1
          <6>2. docs[d].type = "github" /\ docs'[d].type = docs[d].type
            BY <1>1, <1>4, <1>11, <5>1 DEF CountKept, Indexing
          <6> QED
            BY <1>5, <2>3, <5>1, <6>1, <6>2 DEF IsNamed
        <5>2. CASE d \in (m + 1)..(m + n)
          <6>1. d - m \in 1..n /\ d = m + (d - m) /\ d \in 1..(m + n)
            BY <1>0, <1>9, <5>2
          <6>2. docs'[d] = NewDoc(p, s[p].fresh[d - m], 0) /\ docs'[d].type = "github"
            BY <1>5, <1>8, <6>1
          <6>3. docs'[d].stage = "queued"
            BY <6>2 DEF NewDoc
          <6> QED
            BY <1>5, <2>3, <6>1, <6>2, <6>3 DEF IsNamed
        <5> QED
          BY <3>2, <5>1, <5>2
      <4>2. Backed(f, v)'
        <5>1. f \in Covers(p)
          <6>1. f \in Covers(p)'
            BY <1>3, <2>3 DEF Covers
          <6> QED
            BY <1>12, <6>1
        <5> QED
          BY <2>2, <5>1
      <4>3. CASE file'[f] >= v
        <5>1. FileOf(d)' = file'[f]
          BY <4>1 DEF FileOf, IsNamed
        <5>2. Reaches(d, v)'
          BY <4>1, <4>3, <5>1 DEF Reaches
        <5> QED
          BY <4>1, <5>2 DEF Present, IsNamed
      <4>4. CASE \E e \in 1..Len(docs') : IsNamed(e, "github", f)' /\ HasText(e, v)'
        <5>1. PICK e \in 1..Len(docs') : IsNamed(e, "github", f)' /\ HasText(e, v)'
          BY <4>4
        <5>2. Reaches(e, v)'
          BY <5>1 DEF HasText, Reaches
        <5> QED
          BY <5>1, <5>2 DEF Present, IsNamed
      <4> QED
        BY <4>2, <4>3, <4>4 DEF Backed
    <3> QED
      BY <1>6, <2>3, <3>1, <3>2
  <2> QED
    BY <1>3, <1>12, <2>2, <2>3 DEF FilesKept
<1> QED
  BY <1>1, <1>2, <1>13, <1>14, TurnKeepsFiles DEF FilesAre

\* One more file is counted, and on disk.
LEMMA IndexedCovers ==
    ASSUME SourceInv, FileInv, NEW p \in Proc, NEW r, Turns(p, r), IndexedWith(p, r), s[p].pc = "index",
           s[p].at <= Len(Files), UNCHANGED docs
    PROVE  /\ Covers(p)' = Covers(p) \cup {Entry(p)} /\ CountKept(p)'
           /\ s'[p].pc \in {"index", "flush"} /\ s'[p].tree = s[p].tree
<1>0. TypeOK /\ Shape(p) /\ s[p].fresh \in Seq(DOMAIN Kind) /\ s[p].pend \cup s[p].sent \subseteq 1..Len(docs)
      /\ Entry(p) \in DOMAIN Kind /\ Entry(p) \in Sources /\ s[p].count \in Nat
  <2>1. TypeOK /\ Shape(p) /\ s[p].fresh \in Seq(DOMAIN Kind) /\ s[p].count \in 0..Len(Files)
    BY SyncNumbers
  <2>2. s[p].pend \cup s[p].sent \subseteq 1..Len(docs)
    BY <2>1 DEF Shape
  <2>3. Entry(p) \in DOMAIN Kind /\ Entry(p) \in Sources
    BY NextPlace
  <2>4. s[p].count \in Nat
    BY <2>1, MembersAreListed
  <2> QED
    BY <2>1, <2>2, <2>3, <2>4
<1>1. s'[p] = r
  BY <1>0, TurnsOnlyOne
<1>2. /\ s'[p].at = Upcoming(s[p].at + 1) /\ s'[p].count = s[p].count + 1 /\ s'[p].sent = s[p].sent
      /\ s'[p].tree = s[p].tree /\ s'[p].pc \in {"index", "flush"}
  BY <1>1 DEF IndexedWith, Indexed, SameHead
<1>3. CountKept(p) /\ s[p].type = "github" /\ s[p].pc \in Indexing
  BY <1>0 DEF FileInv, Shape, GithubSteps, Indexing
<1>4. /\ ~ Passed(p, Entry(p))
      /\ \A f \in Sources : Passed(p, f)' <=> (Passed(p, f) \/ f = Entry(p))
  BY <1>2, IndexedPasses
<1>5. /\ Covers(p)' = Covers(p) \cup {Entry(p)}
      /\ \A d \in s'[p].pend \cup s'[p].sent : docs[d].type = "github"
  <2>1. ASSUME NEW d \in Found(p), Indexed(r, s[p], s[p].pend \cup {d}, s[p].fresh)
        PROVE  /\ Covers(p)' = Covers(p) \cup {Entry(p)}
               /\ \A e \in s'[p].pend \cup s'[p].sent : docs[e].type = "github"
    <3>1. s'[p].pend = s[p].pend \cup {d} /\ s'[p].fresh = s[p].fresh /\ docs[d].name = Entry(p) /\ docs[d].type = "github"
      BY <1>1, <1>3, <2>1 DEF Indexed, Found
    <3>2. Covers(p)' = Covers(p) \cup {Entry(p)}
      BY <1>0, <1>2, <3>1 DEF Covers
    <3> QED
      BY <1>2, <1>3, <3>1, <3>2 DEF CountKept
  <2>2. ASSUME Indexed(r, s[p], s[p].pend, Append(s[p].fresh, Entry(p)))
        PROVE  /\ Covers(p)' = Covers(p) \cup {Entry(p)}
               /\ \A e \in s'[p].pend \cup s'[p].sent : docs[e].type = "github"
    <3> DEFINE u == s[p].fresh
               e == Entry(p)
               w == Append(u, e)
    <3>1. s'[p].pend = s[p].pend /\ s'[p].fresh = w
      BY <1>1, <2>2 DEF Indexed
    <3>2. /\ Len(u) \in Nat /\ DOMAIN u = 1..Len(u)
          /\ Len(w) = Len(u) + 1 /\ DOMAIN w = 1..(Len(u) + 1)
          /\ \A i \in 1..Len(u) : w[i] = u[i]
          /\ w[Len(u) + 1] = e
      <4>1. u \in Seq(DOMAIN Kind) /\ e \in DOMAIN Kind
        BY <1>0
      <4> HIDE DEF u, e
      <4>2. w \in Seq(DOMAIN Kind) /\ Len(w) = Len(u) + 1
            /\ (\A i \in 1..Len(u) : w[i] = u[i]) /\ w[Len(u) + 1] = e
        BY <4>1, AppendProperties
      <4> HIDE DEF w
      <4> QED
        BY <4>1, <4>2, LenProperties
    <3> HIDE DEF u, w
    <3>3. \A f : (\E i \in DOMAIN w : w[i] = f) <=> (\E i \in DOMAIN u : u[i] = f) \/ f = e
      <4>1. ASSUME NEW f, NEW i \in DOMAIN w, w[i] = f PROVE (\E j \in DOMAIN u : u[j] = f) \/ f = e
        <5>1. i \in 1..Len(u) \/ i = Len(u) + 1
          BY <3>2
        <5> QED
          BY <3>2, <4>1, <5>1
      <4>2. ASSUME NEW i \in DOMAIN u PROVE i \in DOMAIN w /\ w[i] = u[i]
        BY <3>2
      <4>3. Len(u) + 1 \in DOMAIN w
        BY <3>2
      <4> QED
        BY <3>2, <4>1, <4>2, <4>3
    <3>4. Covers(p)' = Covers(p) \cup {Entry(p)}
      BY <1>0, <1>2, <3>1, <3>3 DEF Covers, u
    <3> QED
      BY <1>2, <1>3, <3>1, <3>4 DEF CountKept
  <2> QED
    BY <2>1, <2>2 DEF IndexedWith
<1>6. s[p].count + 1 <= Cardinality(Covers(p) \cup {Entry(p)})
  <2>1. IsFiniteSet(Covers(p))
    BY MembersAreListed, FS_Subset DEF Covers
  <2>2. Entry(p) \notin Covers(p)
    BY <1>3, <1>4 DEF CountKept
  <2>3. Cardinality(Covers(p) \cup {Entry(p)}) = Cardinality(Covers(p)) + 1 /\ Cardinality(Covers(p)) \in Nat
    BY <2>1, <2>2, FS_AddElement, FS_CardinalityType
  <2>4. s[p].count <= Cardinality(Covers(p))
    BY <1>3 DEF CountKept
  <2> QED
    BY <1>0, <2>3, <2>4
<1>7. \A f \in Covers(p) : f \in Sources /\ Passed(p, f)
  BY <1>3 DEF CountKept, Covers
<1>8. CountKept(p)'
  BY <1>0, <1>2, <1>4, <1>5, <1>6, <1>7 DEF CountKept
<1> QED
  BY <1>2, <1>5, <1>8

\* A file that is indexed is counted once and stands on disk.
LEMMA IndexedFiles ==
    ASSUME SourceInv, SourceInv', FileInv, Carried, NEW p \in Proc, IndexFile(p)
    PROVE  FileInv'
<1>0. TypeOK /\ file \in [DOMAIN Kind -> Versions]
  BY SyncNumbers DEF TypeOK
<1>1. s[p].pc = "index" /\ UNCHANGED <<overlap, raced, docs, row>> /\ s[p].at <= Len(Files)
      /\ file' = [file EXCEPT ![Entry(p)] = s[p].tree]
  BY DEF IndexFile, hist, Full, More
<1>2. PICK r : Turns(p, r) /\ IndexedWith(p, r)
  BY IndexedTurns
<1>3. /\ Covers(p)' = Covers(p) \cup {Entry(p)} /\ CountKept(p)'
      /\ s'[p].pc \in {"index", "flush"} /\ s'[p].tree = s[p].tree
  BY <1>1, <1>2, IndexedCovers
<1>4. s'[p].sent = s[p].sent
  BY <1>0, <1>2, TurnsOnlyOne DEF IndexedWith, Indexed
<1>5. ASSUME ~ overlap', ~ raced' PROVE FilesKept(p)'
  <2> PICK v \in Nat \ {0} : v = s[p].tree
    BY <1>1, TreeIsVersion DEF Indexing
  <2>1. FilesKept(p) /\ BackedKept /\ PresentKept("github") /\ s[p].pc \in Indexing
    BY <1>1, <1>5 DEF Carried, FileInv, Indexing
  <2>2. ASSUME NEW f \in Covers(p)' PROVE Backed(f, v)'
    <3>1. CASE f = Entry(p)
      <4>1. Entry(p) \in DOMAIN Kind
        BY <1>1, NextPlace
      <4>2. file'[f] = v
        BY <1>0, <1>1, <3>1, <4>1
      <4> QED
        BY <4>2 DEF Backed
    <3>2. CASE f \in Covers(p)
      <4>1. Backed(f, v) /\ f \in Sources
        BY <2>1, <3>2 DEF FilesKept, Covers
      <4> QED
        BY <2>1, <4>1 DEF BackedKept
    <3> QED
      BY <1>3, <2>2, <3>1, <3>2
  <2>3. ASSUME NEW f \in Sources, NEW d \in s[p].sent, docs[d].name = f PROVE Present("github", f, v)'
    <3>1. Present("github", f, v)
      BY <2>1, <2>3 DEF FilesKept
    <3> QED
      BY <2>1, <3>1 DEF PresentKept
  <2> QED
    BY <1>1, <1>3, <1>4, <2>2, <2>3 DEF FilesKept
<1> QED
  BY <1>1, <1>2, <1>3, <1>5, TurnKeepsFiles DEF FilesAre

\* A row becomes complete when all files that were counted have their records.
LEMMA FinishedFiles ==
    ASSUME SourceInv, SourceInv', FileInv, Carried, NEW p \in Proc, Finish(p)
    PROVE  FileInv'
<1>0. TypeOK /\ Shape(p) /\ s[p].pc = "finish" /\ s[p].pc \in Indexing /\ UNCHANGED <<overlap, raced>>
      /\ row \in RowTypes
  BY SyncNumbers DEF Finish, TypeOK, Indexing
<1>1. CASE MarkFailed(p)
  BY <1>1, EndedFiles
<1>2. CASE /\ row' = [row EXCEPT !.status = "complete", !.sha = s[p].head, !.files = s[p].count]
           /\ Returns(p)
  <2>1. row'.sha = s[p].head /\ row'.files = s[p].count
    BY <1>0, <1>2 DEF RowTypes
  <2>2. Turns(p, Idle) /\ Idle.pc \notin Indexing
    BY <1>0, <1>2, EndsTurns, IdleIsTyped DEF Returns, Recorded, Indexing
  <2>3. /\ s[p].tree \in Nat /\ s[p].head \in Nat /\ s[p].head <= s[p].tree
        /\ s[p].count <= Cardinality(Covers(p)) /\ s[p].count \in Nat
        /\ s[p].pend = {} /\ s[p].fresh = <<>> /\ s[p].sent \subseteq 1..Len(docs)
    BY <1>0, TreeIsVersion, SyncNumbers, MembersAreListed DEF FileInv, CountKept, Shape
  <2>4. CompleteIsIndexed'
    <3> SUFFICES ASSUME ~ overlap', ~ raced'
                 PROVE  Cardinality({f \in Sources : Present("github", f, row.sha)'}) >= s[p].count
      BY <2>1 DEF CompleteIsIndexed
    <3> PICK v \in Nat : v = s[p].tree
      BY <2>3
    <3> PICK h \in Nat : h = s[p].head
      BY <2>3
    <3>1. FilesKept(p) /\ PresentKept("github")
      BY <1>0 DEF Carried, FileInv
    <3>2. ASSUME NEW f \in Covers(p) PROVE f \in Sources /\ Present("github", f, h)'
      <4>1. f \in Sources /\ \E d \in s[p].sent : docs[d].name = f
        <5>1. DOMAIN <<>> = {}
          OBVIOUS
        <5> QED
          BY <2>3, <3>2, <5>1 DEF Covers
      <4>2. Present("github", f, v)
        BY <1>0, <3>1, <4>1 DEF FilesKept
      <4>3. PICK d \in 1..Len(docs) : docs[d].type = "github" /\ docs[d].name = f /\ Reaches(d, v)
        BY <4>2 DEF Present
      <4>4. Reaches(d, h)
        <5>1. FileOf(d) \in Nat /\ docs[d].text \cup reading[d] \subseteq Nat
          BY <1>0, <4>3, DocNumbers
        <5>2. \A w \in Nat : w >= v => w >= h
          BY <2>3
        <5> QED
          BY <4>3, <5>1, <5>2 DEF Reaches
      <4>5. Present("github", f, h)
        BY <4>3, <4>4 DEF Present
      <4> QED
        BY <3>1, <4>1, <4>5 DEF PresentKept
    <3> DEFINE S == Covers(p)
               T == {f \in Sources : Present("github", f, h)'}
    <3>3. S \in SUBSET T /\ T \in SUBSET Sources
      BY <3>2
    <3> HIDE DEF S, T
    <3>4. Cardinality(S) \in Nat /\ Cardinality(T) \in Nat /\ Cardinality(S) <= Cardinality(T)
      BY <3>3, FilesAreFinite
    <3>5. Cardinality(T) >= s[p].count
      BY <2>3, <3>4 DEF S
    <3>6. {f \in Sources : Present("github", f, row.sha)'} = T
      BY <2>1 DEF T, Present, Reaches
    <3> QED
      BY <3>5, <3>6
  <2> QED
    BY <2>2, <2>4, AwayKeepsFiles
<1> QED
  BY <1>1, <1>2 DEF Finish

\* Every step keeps counts and files: a complete row has them all.
LEMMA FileStep ==
    SourceInv /\ SourceInv' /\ RecordInv /\ ReadInv /\ FileInv /\ [Next]_vars => FileInv'
<1> SUFFICES ASSUME SourceInv, SourceInv', RecordInv, ReadInv, FileInv, [Next]_vars PROVE FileInv'
  OBVIOUS
<1>0. Carried
  BY StepCarries
<1>1. CASE UNCHANGED vars
  <2>1. UNCHANGED <<row, s>>
    BY <1>1 DEF vars
  <2>2. \A q \in Proc : WorkStays(q)
    BY <2>1, SyncNumbers, MembersAreListed DEF WorkStays
  <2> QED
    BY <1>0, <2>1, <2>2, FileHold
<1>2. CASE Push \/ User \/ Ingest
  BY <1>0, <1>2, WorldFiles
<1>3. ASSUME NEW p \in Proc, Starts(p) PROVE FileInv'
  BY <1>0, <1>3, StartFiles
<1>4. ASSUME NEW p \in Proc, SyncStep(p) PROVE FileInv'
  BY <1>0, <1>4, AwayFiles, UncountedFiles, IndexedFiles, FlushedFiles, FinishedFiles, EndedFiles
     DEF SyncStep, Dispatches
<1>5. ASSUME NEW p \in Proc, SyncError(p) PROVE FileInv'
  BY <1>0, <1>5, UncountedFiles, EndedFiles DEF SyncError
<1> QED
  BY <1>1, <1>2, <1>3, <1>4, <1>5 DEF Next

\* Nothing is counted to begin with.
LEMMA FileInit == Init => FileInv
<1> SUFFICES ASSUME Init PROVE FileInv
  OBVIOUS
<1>1. (\A p \in Proc : s[p] = Idle) /\ row.status = "none" /\ Idle.pc = "idle"
  BY IdleIsTyped DEF Init, NoRow
<1> QED
  BY <1>1 DEF FileInv, CountKept, FilesKept, Indexing, CompleteIsIndexed

\* A row that is complete has, of the commit it names, as many files as it says in
\* the documents, and a complete run of the hub every page: searchable, being
\* read, or in the file of a document that is not called ready.  That is so for any
\* number of processes, files and faults, with or without a queue, whatever
\* dispatches are refused and ingestions fail, but for the overlaps and races
\* that the histories name.
THEOREM CompleteIsKept == Spec => []CompleteMeansIndexed
<1>1. Init => SourceInv /\ RunInv /\ RecordInv /\ ReadInv /\ PageInv /\ FileInv
  BY SourceInit, RunInit, RecordInit, ReadInit, PageInit, FileInit
<1>2. SourceInv /\ RunInv /\ RecordInv /\ ReadInv /\ PageInv /\ FileInv /\ [Next]_vars
        => SourceInv' /\ RunInv' /\ RecordInv' /\ ReadInv' /\ PageInv' /\ FileInv'
  BY SourceStep, RunStep, RecordStep, ReadStep, PageStep, FileStep
<1>3. PageInv /\ FileInv => CompleteMeansIndexed
  BY DEF PageInv, FileInv, CompleteMeansIndexed
<1> QED
  BY <1>1, <1>2, <1>3, PTL DEF Spec

=============================================================================
