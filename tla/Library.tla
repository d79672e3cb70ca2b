------------------------------ MODULE Library ------------------------------
(***************************************************************************)
(* One chat session and what hangs on it: documents, their collections,    *)
(* the folder of the session, and the deletions.  A request reads in one   *)
(* step and commits in another; the database enforces the foreign keys.    *)
(* A document is a row and its externals (stored file and vector chunks):  *)
(* the two are written and removed apart, and their order differs.         *)
(***************************************************************************)
EXTENDS Integers, Sequences, FiniteSets

CONSTANTS
    Slot,           \* requests that can be under way at once
    Scenes,         \* bound: the sets of operations sent in one behaviour
    MaxRequests,    \* bound: requests
    MaxFaults       \* bound: errors of a store, deaths and disconnects

ASSUME BoundAssumption == MaxRequests \in Nat /\ MaxFaults \in Nat

VARIABLES
    chat,       \* the row of chat_sessions exists
    docs,       \* DocumentRecord: collection, row, externals stored
    colls,      \* DocumentCollection: name, row
    folders,    \* ChatFolder: name, row
    place,      \* folder_id (0 for none) and is_pinned of the session
    req,        \* the request in each slot
    scene,      \* the operations of this behaviour
    requests, faults,
    astray,     \* history: documents that lost their row before their
                \* externals were written or while they were being removed
    hollow,     \* history: documents whose deletion stopped half-way
    odd         \* history: a Default was made, renamed or removed by name, or
                \* two requests missed it at once

rows    == <<chat, docs, colls, folders, place>>
excuses == <<astray, hollow, odd>>
libVars == <<rows, req, scene, requests, faults, excuses>>

Names == {"Default", "Other"}
Docs == [coll : Nat, row : BOOLEAN, ext : BOOLEAN]
Named == [name : Names, row : BOOLEAN]
Idle == [op |-> "none", pc |-> "idle", of |-> 0, to |-> 0, new |-> "", found |-> {}]

LibTypeOK ==
    /\ chat \in BOOLEAN /\ docs \in Seq(Docs) /\ colls \in Seq(Named) /\ folders \in Seq(Named)
    /\ place \in [folder : 0..Len(folders), pinned : BOOLEAN]
    /\ DOMAIN req = Slot /\ scene \in Scenes
    /\ \A p \in Slot : req[p].found \subseteq DOMAIN docs /\ req[p].of \in Nat /\ req[p].to \in Nat
    /\ requests \in 0..MaxRequests /\ faults \in 0..MaxFaults
    /\ astray \subseteq DOMAIN docs /\ hollow \subseteq DOMAIN docs /\ odd \in BOOLEAN

\* A session just created, or one with a document in a collection of its own.
LibInit ==
    /\ chat = TRUE /\ scene \in Scenes
    /\ \/ docs = <<>> /\ colls = <<>> /\ folders = <<>> /\ place = [folder |-> 0, pinned |-> FALSE]
       \/ /\ docs = <<[coll |-> 2, row |-> TRUE, ext |-> TRUE]>>
          /\ colls = <<[name |-> "Default", row |-> TRUE], [name |-> "Other", row |-> TRUE]>>
          /\ folders = <<[name |-> "Other", row |-> TRUE]>>
          /\ place = [folder |-> 1, pinned |-> FALSE]
    /\ req = [p \in Slot |-> Idle] /\ requests = 0 /\ faults = 0
    /\ astray = {} /\ hollow = {} /\ odd = FALSE

-----------------------------------------------------------------------------
(* Helpers *)

Rows(t) == {i \in DOMAIN t : t[i].row}
Stored(d) == docs[d].row
Owned(c) == c \in Rows(colls)
Defaults == {c \in Rows(colls) : colls[c].name = "Default"}
Fault == faults < MaxFaults /\ faults' = faults + 1
\* A request of the scene, in an idle slot.
Asks(p, op) ==
    /\ req[p].pc = "idle" /\ op \in scene
    /\ requests < MaxRequests /\ requests' = requests + 1
Goes(p, op, pc, of, to) ==
    req' = [req EXCEPT ![p] = [Idle EXCEPT !.op = op, !.pc = pc, !.of = of, !.to = to]]
At(p, op, pc) == req[p].op = op /\ req[p].pc = pc
Ends(p) == req' = [req EXCEPT ![p] = Idle]
Writes(p, op, of, new) ==
    req' = [req EXCEPT ![p] = [Idle EXCEPT !.op = op, !.pc = "commit", !.of = of, !.new = new]]
\* The lookup of the Default finds nothing, and the request goes on to add it.
Missing(p) == \E q \in Slot \ {p} : req[q].pc = "default"

-----------------------------------------------------------------------------
(* Documents *)

\* upload_document up to the collection, which a request may leave out.
AskUpload(p, c) ==
    /\ Asks(p, "upload") /\ chat
    /\ \/ Owned(c) /\ Goes(p, "upload", "insert", c, 0) /\ UNCHANGED odd
       \/ /\ c = 0
          /\ IF Defaults = {}
             THEN Goes(p, "upload", "default", 0, 0) /\ odd' = (odd \/ Missing(p))
             ELSE UNCHANGED odd /\ \E d \in Defaults : Goes(p, "upload", "insert", d, 0)
    /\ UNCHANGED <<rows, scene, faults, astray, hollow>>

\* The Default is added in a commit of its own; nothing makes it unique.
AddDefault(p) ==
    LET r == req[p]
        new == Len(colls) + 1
    IN
    /\ r.pc = "default"
    /\ colls' = Append(colls, [name |-> "Default", row |-> TRUE])
    /\ IF r.op = "upload" THEN Goes(p, r.op, "insert", new, 0) ELSE Goes(p, r.op, "move", r.of, new)
    /\ UNCHANGED <<chat, docs, folders, place, scene, requests, faults, excuses>>

\* The file is stored, then the row refers to the session and the collection:
\* when one of them is gone the insert fails and the file stays.
Refers(c) == chat /\ Owned(c)
InsertDocument(p) ==
    /\ At(p, "upload", "insert")
    /\ docs' = Append(docs, [coll |-> req[p].of, row |-> Refers(req[p].of), ext |-> TRUE])
    /\ IF Refers(req[p].of) THEN Goes(p, "upload", "index", Len(docs) + 1, 0) /\ UNCHANGED astray
       ELSE Ends(p) /\ astray' = astray \cup {Len(docs) + 1}
    /\ UNCHANGED <<chat, colls, folders, place, scene, requests, faults, hollow, odd>>

Deleting(d) == \E q \in Slot : At(q, "delete_document", "row") /\ req[q].of = d

\* The ingestion writes the chunks: a run that has begun does not look at the
\* row again before it does.
WriteChunks(p) ==
    LET d == req[p].of IN
    /\ At(p, "upload", "index") /\ Ends(p)
    /\ \/ docs' = [docs EXCEPT ![d].ext = TRUE]
          /\ astray' = IF Stored(d) /\ ~Deleting(d) THEN astray ELSE astray \cup {d}
       \/ ~Stored(d) /\ UNCHANGED <<docs, astray>>
    /\ UNCHANGED <<chat, colls, folders, place, scene, requests, faults, hollow, odd>>

AskDeleteDocument(p, d) ==
    /\ Asks(p, "delete_document") /\ Stored(d)
    /\ Goes(p, "delete_document", "unlink", d, 0)
    /\ UNCHANGED <<rows, scene, faults, excuses>>

\* _delete_document_record: the file and the chunks first; an error of the
\* vector store leaves the row.
Unlink(p) ==
    LET d == req[p].of IN
    /\ At(p, "delete_document", "unlink")
    /\ docs' = [docs EXCEPT ![d].ext = FALSE]
    /\ \/ Goes(p, "delete_document", "row", d, 0) /\ UNCHANGED <<faults, hollow>>
       \/ Fault /\ Ends(p) /\ hollow' = hollow \cup {d}
    /\ UNCHANGED <<chat, colls, folders, place, scene, requests, astray, odd>>

Dropped(d) == [docs EXCEPT ![d].row = FALSE]
DeleteRow(p) ==
    /\ At(p, "delete_document", "row") /\ Ends(p)
    /\ docs' = Dropped(req[p].of)
    /\ UNCHANGED <<chat, colls, folders, place, scene, requests, faults, excuses>>

MoveDocument(p, d, c) ==
    /\ Asks(p, "move_document") /\ Stored(d) /\ Owned(c) /\ Goes(p, "move_document", "commit", d, c)
    /\ UNCHANGED <<rows, scene, faults, excuses>>

CommitMove(p) ==
    LET r == req[p] IN
    /\ At(p, "move_document", "commit") /\ Ends(p)
    /\ docs' = IF Stored(r.of) /\ Owned(r.to) THEN [docs EXCEPT ![r.of].coll = r.to] ELSE docs
    /\ UNCHANGED <<chat, colls, folders, place, scene, requests, faults, excuses>>

-----------------------------------------------------------------------------
(* Collections *)

CreateCollection(p, name) ==
    /\ Asks(p, "create_collection")
    /\ colls' = Append(colls, [name |-> name, row |-> TRUE])
    /\ odd' = (odd \/ name = "Default")
    /\ UNCHANGED <<chat, docs, folders, place, req, scene, faults, astray, hollow>>

\* update_collection_name: the Default keeps its name, any other may take it.
MayRename(c, name) == colls[c].name = "Default" => name = "Default"
RenameCollection(p, c, name) ==
    /\ Asks(p, "rename_collection") /\ Owned(c) /\ MayRename(c, name)
    /\ Writes(p, "rename_collection", c, name)
    /\ odd' = (odd \/ (name = "Default" /\ colls[c].name # name))
    /\ UNCHANGED <<rows, scene, faults, astray, hollow>>

CommitName(p) ==
    LET c == req[p].of IN
    /\ req[p].op = "rename_collection" /\ Ends(p)
    /\ colls' = IF Owned(c) THEN [colls EXCEPT ![c].name = req[p].new] ELSE colls
    /\ UNCHANGED <<chat, docs, folders, place, scene, requests, faults, excuses>>

\* delete_collection: refused for the Default, which is looked up or added.
MayDelete(c) == colls[c].name # "Default"
DeleteCollection(p, c) ==
    /\ Asks(p, "delete_collection") /\ Owned(c) /\ MayDelete(c)
    /\ IF Defaults = {}
       THEN Goes(p, "delete_collection", "default", c, 0) /\ odd' = (odd \/ Missing(p))
       ELSE UNCHANGED odd /\ \E d \in Defaults : Goes(p, "delete_collection", "move", c, d)
    /\ UNCHANGED <<rows, scene, faults, astray, hollow>>

\* One transaction: the documents move to the Default and the row goes, or,
\* when a document arrives in between, all of it is rolled back.
Moved(c, to) == [d \in DOMAIN docs |-> IF docs[d].coll = c /\ Stored(d)
                                       THEN [docs[d] EXCEPT !.coll = to] ELSE docs[d]]
Arrives(c) == \E q \in Slot : \/ At(q, "upload", "insert") /\ req[q].of = c
                              \/ At(q, "move_document", "commit") /\ req[q].to = c
MoveAndDelete(p) ==
    LET r == req[p] IN
    /\ At(p, "delete_collection", "move") /\ Ends(p)
    /\ \/ /\ Owned(r.to) /\ (r.to = r.of => \A d \in Rows(docs) : docs[d].coll # r.of)
          /\ docs' = Moved(r.of, r.to) /\ colls' = [colls EXCEPT ![r.of].row = FALSE]
       \/ (~Owned(r.to) \/ r.to = r.of \/ Arrives(r.of)) /\ UNCHANGED <<docs, colls>>
    /\ UNCHANGED <<chat, folders, place, scene, requests, faults, excuses>>

-----------------------------------------------------------------------------
(* Folders *)

Taken(name) == \E f \in Rows(folders) : folders[f].name = name

\* create_folder answers the folder it finds, or goes on to add one; the name
\* is unique, the second of two fails.
CreateFolder(p, name) ==
    /\ Asks(p, "create_folder") /\ ~Taken(name)
    /\ Writes(p, "create_folder", 0, name)
    /\ UNCHANGED <<rows, scene, faults, excuses>>

CommitFolder(p) ==
    LET name == req[p].new IN
    /\ req[p].op = "create_folder" /\ Ends(p)
    /\ folders' = IF Taken(name) THEN folders ELSE Append(folders, [name |-> name, row |-> TRUE])
    /\ UNCHANGED <<chat, docs, colls, place, scene, requests, faults, excuses>>

\* update_folder: a name that is taken makes the commit fail.
RenameFolder(p, f, name) ==
    /\ Asks(p, "rename_folder") /\ f \in Rows(folders)
    /\ folders' = IF Taken(name) THEN folders ELSE [folders EXCEPT ![f].name = name]
    /\ UNCHANGED <<chat, docs, colls, place, req, scene, faults, excuses>>

\* delete_folder: the session is taken out and the row goes in one commit.
Detached(f) == IF place.folder = f THEN [place EXCEPT !.folder = 0] ELSE place
DeleteFolder(p, f) ==
    /\ Asks(p, "delete_folder") /\ f \in Rows(folders)
    /\ folders' = [folders EXCEPT ![f].row = FALSE] /\ place' = Detached(f)
    /\ UNCHANGED <<chat, docs, colls, req, scene, faults, excuses>>

\* update_session_organization: the folder is looked up after the pin is set,
\* and one commit writes both or none.
AskOrganize(p, f, pin) ==
    /\ Asks(p, "organize") /\ chat /\ (f # 0 => f \in Rows(folders))
    /\ Writes(p, "organize", f, pin)
    /\ UNCHANGED <<rows, scene, faults, excuses>>

FolderIsRow(f) == f = 0 \/ f \in Rows(folders)
Organize(p) ==
    LET f == req[p].of IN
    /\ req[p].op = "organize" /\ Ends(p)
    /\ place' = IF chat /\ FolderIsRow(f) THEN [folder |-> f, pinned |-> req[p].new = "pin"] ELSE place
    /\ UNCHANGED <<chat, docs, colls, folders, scene, requests, faults, excuses>>

-----------------------------------------------------------------------------
(* The session *)

\* delete_chat_session lists the documents whose externals it will remove.
AskDelete(p) ==
    /\ Asks(p, "delete_session") /\ chat
    /\ req' = [req EXCEPT ![p] = [Idle EXCEPT !.op = "delete_session", !.pc = "commit",
                                              !.found = Rows(docs)]]
    /\ UNCHANGED <<rows, scene, faults, excuses>>

\* One transaction deletes the rows; those added since go with the session.
CommitDelete(p) ==
    /\ At(p, "delete_session", "commit")
    /\ chat' = FALSE /\ docs' = [d \in DOMAIN docs |-> [docs[d] EXCEPT !.row = FALSE]]
    /\ astray' = astray \cup (Rows(docs) \ req[p].found)
    /\ req' = [req EXCEPT ![p].pc = "clean"]
    /\ UNCHANGED <<colls, folders, place, scene, requests, faults, hollow, odd>>

\* The database refuses: all of it is rolled back.
FailDelete(p) ==
    /\ At(p, "delete_session", "commit") /\ Fault /\ Ends(p)
    /\ UNCHANGED <<rows, scene, requests, excuses>>

\* _cleanup_document_externals for each; its errors are swallowed.
CleanedOne(found) == [d \in DOMAIN docs |-> IF d \in found /\ d = 1
                                            THEN [docs[d] EXCEPT !.ext = FALSE] ELSE docs[d]]
Cleaned(found) == [d \in DOMAIN docs |-> IF d \in found THEN [docs[d] EXCEPT !.ext = FALSE] ELSE docs[d]]
CleanUp(p) ==
    /\ At(p, "delete_session", "clean") /\ Ends(p)
    /\ \/ docs' = Cleaned(req[p].found) /\ UNCHANGED <<faults, astray>>
       \/ Fault /\ UNCHANGED docs /\ astray' = astray \cup req[p].found
    /\ UNCHANGED <<chat, colls, folders, place, scene, requests, hollow, odd>>

\* The process dies under a request.
Die(p) ==
    /\ req[p].op \in {"delete_document", "delete_session", "upload"} /\ Fault /\ Ends(p)
    /\ astray' = astray \cup req[p].found
    /\ hollow' = IF At(p, "delete_document", "row") THEN hollow \cup {req[p].of} ELSE hollow
    /\ UNCHANGED <<rows, scene, requests, odd>>

LibraryNext ==
    \E p \in Slot :
      \/ \E c \in 0..Len(colls) : AskUpload(p, c)
      \/ AddDefault(p) \/ InsertDocument(p) \/ WriteChunks(p) \/ Unlink(p) \/ DeleteRow(p)
      \/ \E d \in DOMAIN docs : \/ AskDeleteDocument(p, d)
                                \/ \E c \in Rows(colls) : MoveDocument(p, d, c)
      \/ CommitMove(p) \/ CommitName(p) \/ MoveAndDelete(p)
      \/ \E name \in Names : \/ CreateCollection(p, name) \/ CreateFolder(p, name)
                             \/ \E c \in Rows(colls) : RenameCollection(p, c, name)
                             \/ \E f \in Rows(folders) : RenameFolder(p, f, name)
      \/ \E c \in Rows(colls) : DeleteCollection(p, c)
      \/ \E f \in Rows(folders) : DeleteFolder(p, f)
      \/ \E f \in 0..Len(folders), pin \in {"pin", "unpin"} : AskOrganize(p, f, pin)
      \/ CommitFolder(p) \/ Organize(p)
      \/ AskDelete(p) \/ FailDelete(p) \/ CleanUp(p) \/ Die(p)

-----------------------------------------------------------------------------
(* Properties *)

AtRest == \A p \in Slot : req[p].pc = "idle"

\* When nothing is under way, a document without a row has no file and no
\* chunks, but for those that lost their row while they were written or
\* removed.
NothingLeftBehind == AtRest => \A d \in DOMAIN docs : docs[d].ext => Stored(d) \/ d \in astray

\* A document that is listed has its externals, unless its deletion stopped
\* half-way.
ListedIsStored == AtRest => \A d \in DOMAIN docs : Stored(d) => docs[d].ext \/ d \in hollow

\* A document is always in a collection of the user, whatever collections are
\* deleted while it is uploaded or moved.
DocumentIsPlaced == \A d \in DOMAIN docs : Stored(d) => Owned(docs[d].coll)

\* There is one Default and it stays, unless a user names another collection
\* so or two requests miss it at once.
DefaultIsOne == ~odd => /\ Cardinality(Defaults) <= 1
                        /\ (\E c \in DOMAIN colls : colls[c].name = "Default" \/ ~colls[c].row)
                              => Defaults # {}

\* The folder of the session exists, and no two folders share a name.
FolderIsThere ==
    /\ place.folder # 0 => place.folder \in Rows(folders)
    /\ \A f, g \in Rows(folders) : folders[f].name = folders[g].name => f = g

\* Documents, their externals, collections and folders refer to one another.
LibraryIsWhole == NothingLeftBehind /\ ListedIsStored /\ DocumentIsPlaced /\ DefaultIsOne /\ FolderIsThere

=============================================================================
