---------------------------- MODULE ModelsProofs ----------------------------
(***************************************************************************)
(* Proofs about Models, for any number of calls, any settings and any      *)
(* models of the Ollama server: the tokens a call records are its own but  *)
(* for the overlaps that are named, a call that ends is recorded once, and *)
(* a call reaches the model it was routed to.                              *)
(***************************************************************************)
EXTENDS Models, SequenceTheorems, FiniteSetTheorems, WellFoundedInduction, TLAPS

-----------------------------------------------------------------------------
(* Operators *)

\* The least of a set of natural numbers is one of them.
LEMMA MinIsMember ==
    ASSUME NEW S, S \subseteq Nat, S # {}
    PROVE  Min(S) \in S
<1>1. PICK x \in S : \A y \in S : ~ (<<y, x>> \in OpToRel(<, Nat))
  BY NatLessThanWellFounded, WFMin, Zenon
<1>2. \A y \in S : <<y, x>> \in OpToRel(<, Nat) <=> y < x
  BY DEF OpToRel
<1>3. \A y \in S : ~ (y < x)
  BY <1>1, <1>2
<1>4. \A y \in S : x <= y
  BY <1>3
<1> QED
  BY <1>1, <1>4 DEF Min

\* resolve_ollama_model_name answers a model of the list it was given, unless
\* the list was empty.
LEMMA ResolvedIsListed ==
    ASSUME ModelConstants, NEW listed \in Seq(Tag)
    PROVE  /\ ResolvedModel(listed) \in Tag
           /\ listed # <<>> => ResolvedModel(listed) \in Range(listed)
<1> DEFINE kin == {i \in DOMAIN listed : Base(listed[i]) = Base(Requested)}
<1>1. \A i \in DOMAIN listed : i \in Nat /\ listed[i] \in Tag
  BY LenProperties
<1>2. kin # {} => Min(kin) \in DOMAIN listed
  <2>1. kin \subseteq Nat
    BY <1>1
  <2> QED
    BY <2>1, MinIsMember
<1>3. listed # <<>> => 1 \in DOMAIN listed /\ Head(listed) = listed[1]
  OBVIOUS
<1> HIDE DEF kin
<1>4. ResolvedModel(listed) =
        IF listed = <<>> \/ Requested \in Range(listed) THEN Requested
        ELSE IF kin # {} THEN listed[Min(kin)] ELSE Head(listed)
  BY DEF ResolvedModel, kin
<1>5. Requested \in Tag
  BY DEF ModelConstants
<1> QED
  BY <1>1, <1>2, <1>3, <1>4, <1>5 DEF Range

\* Removing an element of a sequence without repetitions leaves the others.
LEMMA RemovedAt ==
    ASSUME NEW S, NEW s \in Seq(S), IsInjective(s), NEW i \in DOMAIN s
    PROVE  /\ RemoveAt(s, i) \in Seq(S)
           /\ IsInjective(RemoveAt(s, i))
           /\ Range(s) \subseteq Range(RemoveAt(s, i)) \cup {s[i]}
<1> DEFINE a == SubSeq(s, 1, i - 1)
           b == SubSeq(s, i + 1, Len(s))
           r == RemoveAt(s, i)
<1>1. /\ Len(s) \in Nat /\ DOMAIN s = 1 .. Len(s) /\ i \in 1 .. Len(s)
      /\ \A j \in 1 .. Len(s) : s[j] \in S
  BY LenProperties
<1>2. /\ a \in Seq(S) /\ Len(a) = i - 1
      /\ \A j \in 1 .. i - 1 : a[j] = s[j]
  <2>1. \A j \in 1 .. i - 1 : s[j] \in S
    BY <1>1
  <2>2. i - 1 \in Int
    BY <1>1
  <2> QED
    BY <1>1, <2>1, <2>2, SubSeqProperties
<1>3. /\ b \in Seq(S) /\ Len(b) = Len(s) - i
      /\ \A j \in 1 .. Len(s) - i : b[j] = s[i + j]
  <2>1. \A j \in i + 1 .. Len(s) : s[j] \in S
    BY <1>1
  <2>2. i + 1 \in Int /\ Len(s) \in Int
    BY <1>1
  <2>3. /\ b \in Seq(S) /\ Len(b) = IF i + 1 <= Len(s) THEN Len(s) - (i + 1) + 1 ELSE 0
        /\ \A j \in 1 .. Len(s) - (i + 1) + 1 : b[j] = s[(i + 1) + j - 1]
    BY <2>1, <2>2, SubSeqProperties
  <2>4. Len(s) - (i + 1) + 1 = Len(s) - i /\ (~ i + 1 <= Len(s) => Len(s) - i = 0)
    BY <1>1
  <2>5. \A j \in 1 .. Len(s) - i : (i + 1) + j - 1 = i + j
    BY <1>1
  <2> QED
    BY <2>3, <2>4, <2>5
<1> HIDE DEF a, b
<1>4. r = a \o b
  BY DEF RemoveAt, a, b
<1> HIDE DEF r
<1>5. /\ r \in Seq(S) /\ Len(r) = Len(s) - 1 /\ DOMAIN r = 1 .. Len(s) - 1
      /\ \A j \in 1 .. Len(s) - 1 : r[j] = IF j < i THEN s[j] ELSE s[j + 1]
  <2>1. /\ r \in Seq(S) /\ Len(r) = Len(a) + Len(b)
        /\ \A j \in 1 .. Len(a) + Len(b) : r[j] = IF j <= Len(a) THEN a[j] ELSE b[j - Len(a)]
    BY <1>2, <1>3, <1>4, ConcatProperties
  <2>2. Len(r) = Len(s) - 1 /\ DOMAIN r = 1 .. Len(s) - 1
    BY <1>1, <1>2, <1>3, <2>1, LenProperties
  <2>3. ASSUME NEW j \in 1 .. Len(s) - 1 PROVE r[j] = IF j < i THEN s[j] ELSE s[j + 1]
    <3>1. j \in 1 .. Len(a) + Len(b)
      BY <1>1, <1>2, <1>3
    <3>2. CASE j < i
      <4>1. j <= Len(a) /\ j \in 1 .. i - 1
        BY <1>1, <1>2, <3>2
      <4> QED
        BY <1>2, <2>1, <3>1, <3>2, <4>1
    <3>3. CASE ~ j < i
      <4>1. ~ j <= Len(a) /\ j - Len(a) \in 1 .. Len(s) - i /\ i + (j - Len(a)) = j + 1
        BY <1>1, <1>2, <3>3
      <4> QED
        BY <1>3, <2>1, <3>1, <3>3, <4>1
    <3> QED
      BY <3>2, <3>3
  <2> QED
    BY <2>1, <2>2, <2>3
<1>6. IsInjective(r)
  <2> SUFFICES ASSUME NEW j \in 1 .. Len(s) - 1, NEW l \in 1 .. Len(s) - 1, r[j] = r[l]
               PROVE  j = l
    BY <1>5 DEF IsInjective
  <2> DEFINE at(k) == IF k < i THEN k ELSE k + 1
  <2>1. \A k \in 1 .. Len(s) - 1 : at(k) \in 1 .. Len(s) /\ r[k] = s[at(k)]
    BY <1>1, <1>5
  <2>2. at(j) = at(l)
    BY <1>1, <2>1 DEF IsInjective
  <2> QED
    BY <1>1, <2>2
<1>7. ASSUME NEW x \in Range(s) PROVE x \in Range(r) \cup {s[i]}
  <2>1. PICK j \in 1 .. Len(s) : x = s[j]
    BY <1>1 DEF Range
  <2>2. CASE j < i
    <3>1. j \in 1 .. Len(s) - 1 /\ r[j] = s[j]
      BY <1>1, <1>5, <2>2
    <3> QED
      BY <1>5, <2>1, <3>1 DEF Range
  <2>3. CASE j > i
    <3>1. j - 1 \in 1 .. Len(s) - 1 /\ r[j - 1] = s[j]
      BY <1>1, <1>5, <2>3
    <3> QED
      BY <1>5, <2>1, <3>1 DEF Range
  <2> QED
    BY <1>1, <2>1, <2>2, <2>3
<1> QED
  BY <1>5, <1>6, <1>7 DEF r

\* A model that is pulled comes before the others.
LEMMA Pulled ==
    ASSUME NEW S, NEW s \in Seq(S), IsInjective(s), NEW t \in S, t \notin Range(s)
    PROVE  /\ <<t>> \o s \in Seq(S)
           /\ IsInjective(<<t>> \o s)
           /\ Range(s) \subseteq Range(<<t>> \o s)
<1> DEFINE r == <<t>> \o s
<1>1. Len(s) \in Nat /\ DOMAIN s = 1 .. Len(s)
  BY LenProperties
<1>2. <<t>> \in Seq(S) /\ Len(<<t>>) = 1 /\ <<t>>[1] = t
  OBVIOUS
<1>3. /\ r \in Seq(S) /\ Len(r) = 1 + Len(s)
      /\ \A j \in 1 .. 1 + Len(s) : r[j] = IF j <= 1 THEN <<t>>[j] ELSE s[j - 1]
  BY <1>2, ConcatProperties
<1>4. DOMAIN r = 1 .. 1 + Len(s)
  BY <1>3, LenProperties
<1> HIDE DEF r
<1>5. \A j \in 1 .. 1 + Len(s) : r[j] = IF j = 1 THEN t ELSE s[j - 1]
  BY <1>1, <1>2, <1>3
<1>6. \A j \in 1 .. Len(s) : s[j] # t
  BY <1>1 DEF Range
<1>7. IsInjective(r)
  <2> SUFFICES ASSUME NEW j \in 1 .. 1 + Len(s), NEW l \in 1 .. 1 + Len(s), r[j] = r[l]
               PROVE  j = l
    BY <1>4 DEF IsInjective
  <2>1. ASSUME NEW k \in 1 .. 1 + Len(s), k # 1
        PROVE  k - 1 \in 1 .. Len(s) /\ r[k] = s[k - 1] /\ r[k] # t
    <3>1. k - 1 \in 1 .. Len(s)
      BY <1>1, <2>1
    <3>2. r[k] = s[k - 1]
      BY <1>5, <2>1
    <3> QED
      BY <1>6, <3>1, <3>2
  <2>2. r[1] = t
    BY <1>1, <1>5
  <2>3. CASE j = 1 \/ l = 1
    BY <2>1, <2>2, <2>3
  <2>4. CASE j # 1 /\ l # 1
    <3>1. s[j - 1] = s[l - 1] /\ j - 1 \in 1 .. Len(s) /\ l - 1 \in 1 .. Len(s)
      BY <2>1, <2>4
    <3>2. j - 1 = l - 1
      BY <1>1, <3>1 DEF IsInjective
    <3> QED
      BY <3>2
  <2> QED
    BY <2>3, <2>4
<1>8. \A j \in 1 .. Len(s) : j + 1 \in DOMAIN r /\ r[j + 1] = s[j]
  BY <1>1, <1>4, <1>5
<1>9. Range(s) \subseteq Range(r)
  BY <1>1, <1>8 DEF Range
<1> QED
  BY <1>3, <1>7, <1>9 DEF r

\* The models of the server at the start are listed without repetitions.
LEMMA ListedOnce ==
    ASSUME NEW S, IsFiniteSet(S)
    PROVE  SetToSeq(S) \in Seq(S) /\ IsInjective(SetToSeq(S))
<1>1. Cardinality(S) \in Nat /\ ExistsBijection(1 .. Cardinality(S), S)
  BY FS_CardinalityType
<1>2. PICK f \in [1 .. Cardinality(S) -> S] : \A i, j \in 1 .. Cardinality(S) : f[i] = f[j] => i = j
  BY <1>1, Zenon DEF ExistsBijection, Bijection, Injection, IsInjective
<1>3. \E g \in [1 .. Cardinality(S) -> S] : IsInjective(g)
  BY <1>2 DEF IsInjective
<1>4. SetToSeq(S) \in [1 .. Cardinality(S) -> S] /\ IsInjective(SetToSeq(S))
  BY <1>3 DEF SetToSeq
<1> QED
  BY <1>1, <1>4

-----------------------------------------------------------------------------
(* The inductive invariant *)

Waiting == {"sending", "listing", "storing", "returning"}
Served  == {"sent", "streaming", "reading"}

\* What the router decided for a turn stays true while the turn goes on.
RouteKept(c) ==
    LET k == calls[c] IN
    /\ k.own => k.stream
    /\ k.own /\ k.asked # "auto" =>
         /\ k.provider \in conf.keys /\ k.provider # "ollama"
         /\ k.sent \in {None, k.asked} /\ k.model = k.asked
    /\ k.own /\ k.provider \notin conf.keys => ~conf.routing \/ conf.main \notin conf.keys
    /\ k.error = "unconfigured" => k.provider \notin conf.keys

\* The name a call will record is what its object resolved or is asked for, or
\* one that an overlapping call has replaced; what it sends, a call resolved.
Replaced(c, model) == model # None /\ Renamed(c, model)
ModelKept(c) ==
    LET k == calls[c]
        o == objects[Object(c)]
    IN  /\ k.pc \in Waiting /\ k.provider = "ollama" =>
             \/ k.model = Requested
             \/ k.pc = "sending" /\ o.resolved # None /\ (k.model = o.resolved \/ Replaced(c, k.model))
        /\ k.pc \in Waiting \ {"sending"} => k.provider = "ollama"
        /\ k.pc \in {"idle", "sending", "listing"} => k.found = None
        /\ k.pc = "storing" => k.found # None
        /\ k.pc = "returning" => o.resolved # None
        /\ k.pc \in Served => k.sent = k.model \/ (k.provider = "ollama" /\ Replaced(c, k.model))
        /\ (k.pc \in Served /\ k.provider = "ollama") \/ k.error = "missing" =>
             k.sent # None /\ \E d \in Call : Object(d) = Object(c) /\ calls[d].found = k.sent
        /\ k.error = "missing" =>
             k.sent \in removed \/ \E d \in Call : Object(d) = Object(c) /\ calls[d].found = k.sent /\ calls[d].blind

\* What a call resolved while it saw the list is there or was removed, and what
\* an object holds was resolved by one of its calls.
FoundKept ==
    \A c \in Call :
      calls[c].found # None /\ ~calls[c].blind => calls[c].found \in Range(installed) \cup removed
ResolvedKept ==
    \A o \in Call \cup {Shared} :
      objects[o].resolved # None => \E c \in Call : Object(c) = o /\ calls[c].found = objects[o].resolved

\* A call has its one row at the end, and an error only then.
RowsKept(c) ==
    LET k == calls[c] IN
    /\ k.pc # "done" => records[c] = <<>> /\ k.error = None /\ ~k.lost
    /\ k.pc = "done" /\ k.lost => records[c] = <<>>
    /\ k.pc = "done" /\ ~k.lost =>
         \E row \in RowRecord :
           /\ records[c] = <<row>>
           /\ row.ok <=> k.error = None
           /\ row.ok => row.model = k.sent \/ (k.provider = "ollama" /\ Replaced(c, row.model))
           /\ \/ row.usage = None /\ (row.ok => k.silent \/ k.overlap)
              \/ row.usage = c /\ ~k.silent
              \/ ~k.own /\ (k.overlap \/ (k.silent /\ ~k.stream))

\* The calls that share the object of the process know of each other.
OverlapsKnown ==
    \A c, d \in Call :
      c # d /\ Active(c) /\ Active(d) /\ ~calls[c].own /\ ~calls[d].own => calls[c].overlap

\* A call that has an object of its own, or the shared one to itself, finds
\* its own usage in it; a completion may find that of the call before it.
UsageKept(c) ==
    LET k == calls[c]
        u == objects[Object(c)].usage
    IN  /\ k.own /\ k.pc \in Waiting \cup {"sent", "streaming"} => u = None
        /\ k.pc = "streaming" => u = None \/ (~k.own /\ k.overlap)
        /\ k.pc = "reading" =>
             \/ u = None /\ (k.silent \/ k.overlap)
             \/ u = c /\ ~k.silent
             \/ ~k.own /\ (k.overlap \/ (k.silent /\ ~k.stream))

\* A provider object that no turn has yet is new; Ollama reports no usage, so
\* the object of a process whose provider is Ollama never holds any.
ObjectsKept ==
    /\ \A c \in Call : calls[c].pc = "idle" => ~calls[c].own /\ objects[c] = Fresh
    /\ \A c \in Call : Active(c) /\ ~calls[c].own => calls[c].provider = conf.main
    /\ conf.main = "ollama" => objects[Shared].usage = None

CallKept(c) == RouteKept(c) /\ ModelKept(c) /\ RowsKept(c) /\ UsageKept(c)

ModelsInv == TypeOK /\ (\A c \in Call : CallKept(c)) /\ FoundKept /\ ResolvedKept /\ OverlapsKnown /\ ObjectsKept

-----------------------------------------------------------------------------
(* Types *)

\* The router names a provider of the catalogue or the default one.
LEMMA RouteIsSound ==
    ASSUME conf \in Conf, NEW query,
           NEW asked \in DOMAIN Catalog \cup {"auto", "unknown"}, ~ Refuses(asked)
    PROVE  LET r == Resolve(asked, query) IN
           /\ r.provider \in Provider /\ r.model \in Model
           /\ r.provider # "ollama" => r.model \in DOMAIN Catalog \cup {"default"}
           /\ asked # "auto" => asked \in DOMAIN Catalog /\ r.provider \in conf.keys /\ r.provider # "ollama" /\ r.model = asked
           /\ r.provider \notin conf.keys => ~ conf.routing \/ conf.main \notin conf.keys
<1>1. /\ DOMAIN Catalog = {"llama-70b", "llama-fast", "deepseek-chat", "gemma-9b"}
      /\ \A id \in DOMAIN Catalog : Catalog[id] \in {"deepseek", "groq"} /\ Catalog[id] \in Provider
      /\ conf.main \in Provider
  BY DEF Catalog, Provider
<1>2. CASE asked # "auto"
  BY <1>1, <1>2 DEF Refuses, Resolve, Route, IsAvailable, Model
<1>3. CASE asked = "auto"
  <2> DEFINE usable == {i \in DOMAIN Hints : Hints[i] \in query \cup {"general"} /\ IsAvailable(Catalog[ModelFor[Hints[i]]])}
             hint == Hints[Min(usable)]
  <2>1. DOMAIN Hints = 1 .. 4 /\ \A i \in 1 .. 4 : Hints[i] \in {"coding", "reasoning", "fast", "general"}
    BY DEF Hints
  <2>2. \A h \in {"coding", "reasoning", "fast", "general"} : ModelFor[h] \in DOMAIN Catalog
    BY <1>1 DEF ModelFor
  <2>3. CASE ~ conf.routing
    BY <1>1, <1>3, <2>3 DEF Resolve, Automatic, Route, Model
  <2>4. CASE conf.routing /\ usable # {}
    <3>1. Min(usable) \in usable
      BY <2>1, <2>4, MinIsMember
    <3>2. hint \in {"coding", "reasoning", "fast", "general"} /\ IsAvailable(Catalog[ModelFor[hint]])
      BY <2>1, <3>1
    <3> HIDE DEF hint, usable
    <3>3. Resolve(asked, query) = Route(ModelFor[hint])
      BY <1>3, <2>4 DEF Resolve, Automatic, hint, usable
    <3> QED
      BY <1>1, <1>3, <2>2, <3>2, <3>3 DEF Route, Model, IsAvailable
  <2>5. CASE conf.routing /\ usable = {}
    <3>1. Resolve(asked, query) = FallbackDefault
      BY <1>3, <2>5 DEF Resolve, Automatic
    <3> HIDE DEF usable
    <3> QED
      BY <1>1, <1>3, <3>1 DEF FallbackDefault, Model
  <2> QED
    BY <2>3, <2>4, <2>5
<1> QED
  BY <1>2, <1>3

\* A provider object names a model.
LEMMA ModelNameTyped ==
    ASSUME ModelConstants, NEW object, object.resolved \in Tag \cup {None},
           NEW provider, NEW model \in Model
    PROVE  ModelName(object, provider, model) \in Model
BY DEF ModelName, ModelConstants, Model

\* The types hold at the start.
LEMMA TypeInit == ModelConstants /\ Init => TypeOK
<1> SUFFICES ASSUME ModelConstants, Init PROVE TypeOK
  OBVIOUS
<1>1. PICK S \in {T \in SUBSET Tag : IsFiniteSet(T)} : installed = SetToSeq(S)
  BY DEF Init
<1>2. installed \in Seq(S) /\ IsInjective(installed) /\ S \subseteq Tag
  BY <1>1, ListedOnce
<1>3. installed \in Seq(Tag)
  BY <1>2, SeqMonotonic
<1>4. Idle \in CallRecord
  BY DEF Idle, CallRecord
<1>5. calls \in [Call -> CallRecord]
  BY <1>4 DEF Init
<1>6. objects \in [Call \cup {Shared} -> ObjectRecord]
  BY DEF Init, Fresh, ObjectRecord
<1>7. records \in [Call -> Seq(RowRecord)]
  BY DEF Init
<1> QED
  BY <1>2, <1>3, <1>5, <1>6, <1>7 DEF Init, TypeOK, ModelConstants

\* A step that gives fields of a call values of their types keeps it a call.
LEMMA CallGoes ==
    ASSUME NEW f \in [Call -> CallRecord], NEW c \in Call, NEW pc \in {"listing", "returning", "streaming", "gone"}
    PROVE  [f EXCEPT ![c].pc = pc] \in [Call -> CallRecord]
<1>1. [f[c] EXCEPT !.pc = pc] \in CallRecord
  BY ZenonT(60) DEF CallRecord
<1>2. [f EXCEPT ![c].pc = pc] = [f EXCEPT ![c] = [f[c] EXCEPT !.pc = pc]]
  BY DEF CallRecord
<1> QED
  BY <1>1, <1>2

LEMMA CallSent ==
    ASSUME NEW f \in [Call -> CallRecord], NEW c \in Call, NEW sent \in Model \cup {None}
    PROVE  [f EXCEPT ![c].pc = "sent", ![c].sent = sent] \in [Call -> CallRecord]
<1>1. [f[c] EXCEPT !.pc = "sent", !.sent = sent] \in CallRecord
  BY ZenonT(60) DEF CallRecord
<1>2. [f EXCEPT ![c].pc = "sent", ![c].sent = sent] = [f EXCEPT ![c] = [f[c] EXCEPT !.pc = "sent", !.sent = sent]]
  BY DEF CallRecord
<1> QED
  BY <1>1, <1>2

LEMMA CallSilent ==
    ASSUME NEW f \in [Call -> CallRecord], NEW c \in Call, NEW silent \in BOOLEAN
    PROVE  [f EXCEPT ![c].pc = "reading", ![c].silent = silent] \in [Call -> CallRecord]
<1>1. [f[c] EXCEPT !.pc = "reading", !.silent = silent] \in CallRecord
  BY ZenonT(60) DEF CallRecord
<1>2. [f EXCEPT ![c].pc = "reading", ![c].silent = silent] = [f EXCEPT ![c] = [f[c] EXCEPT !.pc = "reading", !.silent = silent]]
  BY DEF CallRecord
<1> QED
  BY <1>1, <1>2

LEMMA CallEnds ==
    ASSUME NEW f \in [Call -> CallRecord], NEW c \in Call, NEW error \in Error \cup {None}
    PROVE  [f EXCEPT ![c].pc = "done", ![c].error = error] \in [Call -> CallRecord]
<1>1. [f[c] EXCEPT !.pc = "done", !.error = error] \in CallRecord
  BY ZenonT(60) DEF CallRecord
<1>2. [f EXCEPT ![c].pc = "done", ![c].error = error] = [f EXCEPT ![c] = [f[c] EXCEPT !.pc = "done", !.error = error]]
  BY DEF CallRecord
<1> QED
  BY <1>1, <1>2

LEMMA CallLost ==
    ASSUME NEW f \in [Call -> CallRecord], NEW c \in Call, NEW error \in Error \cup {None}
    PROVE  [f EXCEPT ![c].pc = "done", ![c].error = error, ![c].lost = TRUE] \in [Call -> CallRecord]
<1>1. [f[c] EXCEPT !.pc = "done", !.error = error, !.lost = TRUE] \in CallRecord
  BY ZenonT(60) DEF CallRecord
<1>2. [f EXCEPT ![c].pc = "done", ![c].error = error, ![c].lost = TRUE] = [f EXCEPT ![c] = [f[c] EXCEPT !.pc = "done", !.error = error, !.lost = TRUE]]
  BY DEF CallRecord
<1> QED
  BY <1>1, <1>2

LEMMA CallFound ==
    ASSUME NEW f \in [Call -> CallRecord], NEW c \in Call, NEW found \in Tag \cup {None}, NEW blind \in BOOLEAN
    PROVE  [f EXCEPT ![c].pc = "storing", ![c].found = found, ![c].blind = blind] \in [Call -> CallRecord]
<1>1. [f[c] EXCEPT !.pc = "storing", !.found = found, !.blind = blind] \in CallRecord
  BY ZenonT(60) DEF CallRecord
<1>2. [f EXCEPT ![c].pc = "storing", ![c].found = found, ![c].blind = blind] = [f EXCEPT ![c] = [f[c] EXCEPT !.pc = "storing", !.found = found, !.blind = blind]]
  BY DEF CallRecord
<1> QED
  BY <1>1, <1>2

\* The same for the fields of an object.
LEMMA ObjectSet ==
    ASSUME NEW f \in [Call \cup {Shared} -> ObjectRecord], NEW o \in Call \cup {Shared}
    PROVE  /\ \A usage \in Call \cup {None} : [f EXCEPT ![o].usage = usage] \in [Call \cup {Shared} -> ObjectRecord]
           /\ \A tag \in Tag \cup {None} : [f EXCEPT ![o].resolved = tag] \in [Call \cup {Shared} -> ObjectRecord]
<1>1. ASSUME NEW usage \in Call \cup {None} PROVE [f EXCEPT ![o].usage = usage] \in [Call \cup {Shared} -> ObjectRecord]
  <2>1. [f[o] EXCEPT !.usage = usage] \in ObjectRecord
    BY Zenon DEF ObjectRecord
  <2>2. [f EXCEPT ![o].usage = usage] = [f EXCEPT ![o] = [f[o] EXCEPT !.usage = usage]]
    BY DEF ObjectRecord
  <2> QED
    BY <2>1, <2>2
<1>2. ASSUME NEW tag \in Tag \cup {None} PROVE [f EXCEPT ![o].resolved = tag] \in [Call \cup {Shared} -> ObjectRecord]
  <2>1. [f[o] EXCEPT !.resolved = tag] \in ObjectRecord
    BY Zenon DEF ObjectRecord
  <2>2. [f EXCEPT ![o].resolved = tag] = [f EXCEPT ![o] = [f[o] EXCEPT !.resolved = tag]]
    BY DEF ObjectRecord
  <2> QED
    BY <2>1, <2>2
<1> QED
  BY <1>1, <1>2

\* Every step keeps the types.
LEMMA TypeNext == ModelConstants /\ TypeOK /\ [Next]_vars => TypeOK'
<1> SUFFICES ASSUME ModelConstants, TypeOK, [Next]_vars PROVE TypeOK'
  OBVIOUS
<1>t. /\ conf \in Conf /\ calls \in [Call -> CallRecord] /\ objects \in [Call \cup {Shared} -> ObjectRecord]
      /\ records \in [Call -> Seq(RowRecord)] /\ faults \in 0 .. MaxFaults /\ changes \in 0 .. MaxChanges
      /\ installed \in Seq(Tag) /\ IsInjective(installed) /\ removed \subseteq Tag /\ up \in BOOLEAN
  BY DEF TypeOK
<1>0. /\ \A c \in Call : Object(c) \in Call \cup {Shared}
      /\ \A o \in Call \cup {Shared} :
           objects[o].usage \in Call \cup {None} /\ objects[o].resolved \in Tag \cup {None}
      /\ \A c \in Call : calls[c] \in CallRecord /\ calls[c].model \in Model \cup {None} /\ calls[c].found \in Tag \cup {None}
  BY <1>t DEF Object, ObjectRecord, CallRecord
<1>f. ASSUME Fault PROVE faults' \in 0 .. MaxFaults
  BY <1>f, <1>t DEF Fault, ModelConstants
<1>c. ASSUME Change PROVE changes' \in 0 .. MaxChanges
  BY <1>c, <1>t DEF Change, ModelConstants
<1>r. ASSUME NEW c \in Call, NEW ok \in BOOLEAN, NEW usage \in Call \cup {None}
      PROVE  Kept(c, Row(c, ok, usage)) \in [Call -> Seq(RowRecord)]
  <2>1. Row(c, ok, usage) \in RowRecord
    BY <1>0 DEF Row, RowRecord
  <2>2. Append(records[c], Row(c, ok, usage)) \in Seq(RowRecord)
    BY <1>t, <2>1
  <2> QED
    BY <1>t, <2>2 DEF Kept
<1>s. ASSUME NEW c \in Call, NEW ok \in BOOLEAN, NEW usage \in Call \cup {None}, NEW error \in Error \cup {None},
             Records(c, ok, usage, error)
      PROVE  /\ faults' \in 0 .. MaxFaults /\ calls' \in [Call -> CallRecord]
             /\ records' \in [Call -> Seq(RowRecord)]
  <2>1. CASE records' = Kept(c, Row(c, ok, usage)) /\ calls' = [calls EXCEPT ![c].pc = "done", ![c].error = error] /\ UNCHANGED faults
    BY <1>r, <1>t, <2>1, CallEnds
  <2>2. CASE Fault /\ UNCHANGED records /\ calls' = [calls EXCEPT ![c].pc = "done", ![c].error = error, ![c].lost = TRUE]
    BY <1>f, <1>t, <2>2, CallLost
  <2> QED
    BY <1>s, <2>1, <2>2 DEF Records
<1>g. ASSUME NEW c \in Call, NEW error \in Error, Fails(c, error) PROVE TypeOK'
  BY <1>g, <1>s, <1>t DEF Fails, server, TypeOK
<1>u. ASSUME NEW c \in Call, NEW b \in BOOLEAN PROVE Reports(c, Object(c), b) \in [Call \cup {Shared} -> ObjectRecord]
  BY <1>0, <1>t, ObjectSet DEF Reports
<1>p. ASSUME NEW c \in Call, NEW pc \in {"listing", "returning", "streaming", "gone"}, Goes(c, pc)
      PROVE  calls' \in [Call -> CallRecord]
  BY <1>p, <1>t, CallGoes DEF Goes
<1>w. ASSUME NEW c \in Call, NEW model \in Model \cup {None}, Uses(c, model)
      PROVE  calls' \in [Call -> CallRecord]
  BY <1>t, <1>w, CallSent DEF Uses
<1>x. Tag \subseteq Model
  BY DEF Model
<1>1. ASSUME NEW c \in Call, NEW asked \in DOMAIN Catalog \cup {"auto", "unknown"},
             NEW query, Ask(c, asked, query) PROVE TypeOK'
  <2>1. [Idle EXCEPT !.pc = "refused"] \in CallRecord
    BY DEF Idle, CallRecord
  <2>2. ASSUME ~ Refuses(asked)
        PROVE  LET route == Resolve(asked, query) IN
               [Idle EXCEPT !.pc = "sending", !.own = TRUE, !.stream = TRUE, !.asked = asked, !.provider = route.provider,
                            !.model = ModelName(Fresh, route.provider, route.model)] \in CallRecord
    <3> DEFINE route == Resolve(asked, query)
    <3>1. route.provider \in Provider /\ route.model \in Model /\ asked \in DOMAIN Catalog \cup {"auto"}
      BY <1>t, <2>2, RouteIsSound
    <3> HIDE DEF route
    <3>2. ModelName(Fresh, route.provider, route.model) \in Model
      BY <3>1, ModelNameTyped DEF Fresh
    <3>3. [Idle EXCEPT !.pc = "sending", !.own = TRUE, !.stream = TRUE, !.asked = asked, !.provider = route.provider,
                       !.model = ModelName(Fresh, route.provider, route.model)] \in CallRecord
      BY <3>1, <3>2 DEF Idle, CallRecord
    <3> QED
      BY <3>3 DEF route
  <2>3. calls' \in [Call -> CallRecord]
    BY <1>1, <1>t, <2>1, <2>2 DEF Ask
  <2> QED
    BY <1>1, <1>t, <2>3 DEF Ask, server, TypeOK
<1>2. ASSUME NEW c \in Call, NEW b \in BOOLEAN, UseShared(c, b) PROVE TypeOK'
  <2>1. ModelName(objects[Shared], conf.main, "default") \in Model
    BY <1>0, ModelNameTyped DEF Model
  <2>2. conf.main \in Provider
    BY <1>t DEF Provider
  <2>3. \A v \in BOOLEAN : [Idle EXCEPT !.pc = "sending", !.stream = b, !.provider = conf.main,
                            !.model = ModelName(objects[Shared], conf.main, "default"), !.overlap = v] \in CallRecord
    BY <2>1, <2>2 DEF Idle, CallRecord
  <2>4. \A o \in Call : [calls[o] EXCEPT !.overlap = TRUE] \in CallRecord
    BY <1>0, ZenonT(60) DEF CallRecord
  <2>5. calls' \in [Call -> CallRecord]
    BY <1>2, <1>0, <2>3, <2>4 DEF UseShared
  <2> QED
    BY <1>2, <1>t, <2>5 DEF UseShared, server, TypeOK
<1>3. ASSUME NEW c \in Call, NEW b \in BOOLEAN, Complete(c, b) PROVE TypeOK'
  <2>1. calls' \in [Call -> CallRecord]
    BY <1>3, <1>t, CallSilent DEF Complete
  <2>2. objects' \in [Call \cup {Shared} -> ObjectRecord]
    BY <1>3, <1>u DEF Complete
  <2> QED
    BY <1>3, <1>t, <2>1, <2>2 DEF Complete, server, TypeOK
<1>4. ASSUME NEW c \in Call, NEW b \in BOOLEAN, LastChunk(c, b) PROVE TypeOK'
  <2>1. calls' \in [Call -> CallRecord]
    BY <1>4, <1>t, CallSilent DEF LastChunk
  <2>2. objects' \in [Call \cup {Shared} -> ObjectRecord]
    BY <1>4, <1>u DEF LastChunk
  <2> QED
    BY <1>4, <1>t, <2>1, <2>2 DEF LastChunk, server, TypeOK
<1>5. ASSUME NEW c \in Call, Send(c) PROVE TypeOK'
  <2>1. calls' \in [Call -> CallRecord]
    BY <1>0, <1>5, <1>p, <1>w, <1>x DEF Send
  <2> QED
    BY <1>5, <1>t, <2>1 DEF Send, server, TypeOK
<1>6. ASSUME NEW c \in Call, NotConfigured(c) PROVE TypeOK'
  BY <1>6, <1>g DEF NotConfigured, Error
<1>7. ASSUME NEW c \in Call, List(c) \/ Store(c) \/ Return(c) PROVE TypeOK'
  <2>1. CASE List(c)
    <3> DEFINE listed == IF up THEN installed ELSE <<>>
    <3>0. listed \in Seq(Tag)
      BY <1>t
    <3>1. ResolvedModel(listed) \in Tag
      BY <3>0, ResolvedIsListed
    <3>2. (listed = <<>>) \in BOOLEAN
      OBVIOUS
    <3>3. calls' = [calls EXCEPT ![c].pc = "storing", ![c].found = ResolvedModel(listed), ![c].blind = (listed = <<>>)]
      BY <2>1 DEF List
    <3> HIDE DEF listed
    <3>4. calls' \in [Call -> CallRecord]
      BY <1>t, <3>1, <3>2, <3>3, CallFound
    <3> QED
      BY <1>t, <2>1, <3>4 DEF List, server, TypeOK
  <2>2. CASE Store(c)
    <3>1. objects' \in [Call \cup {Shared} -> ObjectRecord]
      BY <1>0, <1>t, <2>2, ObjectSet DEF Store
    <3> QED
      BY <1>p, <1>t, <2>2, <3>1 DEF Store, server, TypeOK
  <2>3. CASE Return(c)
    <3>1. calls' \in [Call -> CallRecord]
      BY <1>0, <1>w, <1>x, <2>3 DEF Return
    <3> QED
      BY <1>t, <2>3, <3>1 DEF Return, server, TypeOK
  <2> QED
    BY <1>7, <2>1, <2>2, <2>3
<1>8. ASSUME NEW c \in Call, OpenStream(c) PROVE TypeOK'
  <2>1. objects' \in [Call \cup {Shared} -> ObjectRecord]
    BY <1>8, <1>0, <1>t, ObjectSet DEF OpenStream, Cleared
  <2> QED
    BY <1>8, <1>p, <1>t, <2>1 DEF OpenStream, server, TypeOK
<1>9. ASSUME NEW c \in Call, OpenOllama(c) PROVE TypeOK'
  BY <1>9, <1>p, <1>t DEF OpenOllama, server, TypeOK
<1>10. ASSUME NEW c \in Call, Abandon(c) PROVE TypeOK'
  BY <1>10, <1>p, <1>t DEF Abandon, server, TypeOK
<1>11. ASSUME NEW c \in Call, Raise(c) PROVE TypeOK'
  BY <1>11, <1>g DEF Raise, Error
<1>12. ASSUME NEW c \in Call, ServiceFails(c) PROVE TypeOK'
  <2>1. calls' \in [Call -> CallRecord]
    BY <1>12, <1>t, CallEnds DEF ServiceFails, Error
  <2> QED
    BY <1>12, <1>f, <1>r, <1>t, <2>1 DEF ServiceFails, server, TypeOK
<1>13. ASSUME NEW c \in Call, Read(c) PROVE TypeOK'
  BY <1>13, <1>0, <1>s, <1>t DEF Read, server, TypeOK
<1>14. ASSUME NEW t \in Tag, Pull(t) PROVE TypeOK'
  BY <1>14, <1>c, <1>t, Pulled DEF Pull, Change, TypeOK
<1>15. ASSUME NEW t \in Tag, RemoveTag(t) PROVE TypeOK'
  <2>1. PICK i \in DOMAIN installed : installed' = RemoveAt(installed, i)
    BY <1>15 DEF RemoveTag
  <2>2. installed' \in Seq(Tag) /\ IsInjective(installed')
    BY <1>t, <2>1, RemovedAt
  <2> QED
    BY <1>15, <1>c, <1>t, <2>2 DEF RemoveTag, Change, TypeOK
<1>16. ASSUME Flip PROVE TypeOK'
  BY <1>16, <1>c, <1>t DEF Flip, Change, TypeOK
<1>17. CASE UNCHANGED vars
  BY <1>17, <1>t DEF vars, TypeOK
<1> QED
  BY <1>1, <1>2, <1>3, <1>4, <1>5, <1>6, <1>7, <1>8, <1>9, <1>10, <1>11, <1>12, <1>13, <1>14, <1>15, <1>16, <1>17
     DEF Next

-----------------------------------------------------------------------------
(* Frames *)

\* A step takes back nothing that a call has resolved.
Remembered ==
    \A c \in Call : calls[c].found # None =>
      calls'[c].own = calls[c].own /\ calls'[c].found = calls[c].found /\ calls'[c].blind = calls[c].blind

LEMMA FoundStays ==
    ASSUME Remembered
    PROVE  \A c \in Call : calls[c].found # None =>
             Object(c)' = Object(c) /\ calls'[c].found = calls[c].found /\ calls'[c].blind = calls[c].blind
BY DEF Remembered, Object

LEMMA ReplacedStays ==
    ASSUME Remembered, NEW c \in Call, NEW model, Replaced(c, model),
           Object(c)' = Object(c), calls[c].overlap => calls'[c].overlap
    PROVE  Replaced(c, model)'
<1>1. CASE model = Requested
  BY <1>1 DEF Replaced, Renamed
<1>2. CASE model # Requested
  <2>1. PICK d \in Call \ {c} : Object(d) = Object(c) /\ calls[d].found = model
    BY <1>2 DEF Replaced, Renamed
  <2>2. Object(d)' = Object(d) /\ calls'[d].found = model
    BY <2>1 DEF Remembered, Object, Replaced
  <2> QED
    BY <1>2, <2>1, <2>2 DEF Replaced, Renamed
<1> QED
  BY <1>1, <1>2

\* A call keeps what it knows of its model while the object keeps its own; and
\* when the object's is overwritten, if the calls of the object overlap.
LEMMA ModelFrame ==
    ASSUME ModelConstants, ResolvedKept, Remembered, NEW d \in Call, ModelKept(d), removed \subseteq removed',
           \/ calls'[d].pc = calls[d].pc
           \/ calls[d].pc \in Served /\ calls'[d].pc \in Served \cup {"gone"},
           calls'[d].own = calls[d].own, calls'[d].provider = calls[d].provider,
           calls'[d].model = calls[d].model, calls'[d].sent = calls[d].sent, calls'[d].error = calls[d].error,
           calls'[d].found = calls[d].found, calls[d].overlap => calls'[d].overlap,
           \/ objects'[Object(d)].resolved = objects[Object(d)].resolved
           \/ objects'[Object(d)].resolved # None /\ (Active(d) => calls[d].overlap)
    PROVE  ModelKept(d)'
<1> DEFINE k == calls[d]
           x == Object(d)
<1>1. Object(d)' = Object(d) /\ Object(d) \in Call \cup {Shared}
  BY DEF Object
<1>2. ASSUME k.pc \in Waiting, k.provider = "ollama", k.model # Requested
      PROVE  /\ k.pc = "sending" /\ objects'[x].resolved # None
             /\ k.model = objects'[x].resolved \/ Replaced(d, k.model)'
  <2>1. /\ k.pc = "sending" /\ objects[x].resolved # None /\ k.found = None
        /\ k.model = objects[x].resolved \/ Replaced(d, k.model)
    BY <1>2 DEF ModelKept
  <2>2. CASE Replaced(d, k.model)
    <3>1. Replaced(d, k.model)'
      BY <1>1, <2>2, ReplacedStays DEF Replaced, Renamed
    <3> QED
      BY <2>1, <3>1
  <2>3. CASE objects'[x].resolved = objects[x].resolved
    BY <2>1, <2>2, <2>3
  <2>4. CASE k.model = objects[x].resolved /\ objects'[x].resolved # None /\ (Active(d) => k.overlap)
    <3>1. PICK c \in Call : Object(c) = x /\ calls[c].found = k.model
      BY <1>1, <2>1, <2>4 DEF ResolvedKept
    <3>2. k.model # None /\ c # d
      BY <2>1, <2>4, <3>1
    <3>3. k.overlap
      BY <2>1, <2>4 DEF Active
    <3>4. Replaced(d, k.model)
      BY <3>1, <3>2, <3>3 DEF Replaced, Renamed
    <3> QED
      BY <2>1, <2>2, <2>4, <3>4
  <2> QED
    BY <2>1, <2>3, <2>4, <2>2
<1>3. ASSUME k.pc \in Served, k.sent # k.model
      PROVE  k.provider = "ollama" /\ Replaced(d, calls[d].model)'
  <2>1. k.provider = "ollama" /\ Replaced(d, k.model)
    BY <1>3 DEF ModelKept
  <2> QED
    BY <1>1, <2>1, ReplacedStays DEF Replaced, Renamed
<1>4. ASSUME (k.pc \in Served /\ k.provider = "ollama") \/ k.error = "missing"
      PROVE  k.sent # None /\ \E c \in Call : Object(c)' = x /\ calls'[c].found = k.sent
  <2>1. k.sent # None /\ \E c \in Call : Object(c) = x /\ calls[c].found = k.sent
    BY <1>4 DEF ModelKept
  <2> QED
    BY <2>1, FoundStays
<1>5. ASSUME k.error = "missing"
      PROVE  k.sent \in removed' \/ \E c \in Call : Object(c)' = x /\ calls'[c].found = k.sent /\ calls'[c].blind
  <2>1. k.sent # None /\ (k.sent \in removed \/ \E c \in Call : Object(c) = x /\ calls[c].found = k.sent /\ calls[c].blind)
    BY <1>5 DEF ModelKept
  <2> QED
    BY <2>1, FoundStays
<1>6. /\ k.pc \in Waiting \ {"sending"} => k.provider = "ollama"
      /\ k.pc \in {"idle", "sending", "listing"} => k.found = None
      /\ k.pc = "storing" => k.found # None
      /\ k.pc = "returning" => objects[x].resolved # None
  BY DEF ModelKept
<1>7. k.pc = "returning" => objects'[x].resolved # None
  BY <1>6
<1>8. /\ calls'[d].pc \in Served => k.pc \in Served
      /\ calls'[d].pc \in {"idle", "sending", "listing", "storing", "returning"} => calls'[d].pc = k.pc
  BY DEF Served
<1> HIDE DEF x
<1> QED
  BY <1>1, <1>2, <1>3, <1>4, <1>5, <1>6, <1>7, <1>8 DEF ModelKept, x, Waiting

\* The rows of a call say the same of it as long as it is known to overlap.
LEMMA RowsFrame ==
    ASSUME Remembered, NEW d \in Call, RowsKept(d), records'[d] = records[d], Object(d)' = Object(d),
           calls'[d].pc = calls[d].pc, calls'[d].own = calls[d].own, calls'[d].provider = calls[d].provider,
           calls'[d].sent = calls[d].sent, calls'[d].error = calls[d].error, calls'[d].lost = calls[d].lost,
           calls'[d].silent = calls[d].silent, calls'[d].stream = calls[d].stream, calls[d].overlap => calls'[d].overlap
    PROVE  RowsKept(d)'
<1>1. ASSUME calls[d].pc = "done", ~ calls[d].lost
      PROVE  \E row \in RowRecord :
               /\ records[d] = <<row>>
               /\ row.ok <=> calls[d].error = None
               /\ row.ok => row.model = calls[d].sent \/ (calls[d].provider = "ollama" /\ Replaced(d, row.model)')
               /\ \/ row.usage = None /\ (row.ok => calls[d].silent \/ calls'[d].overlap)
                  \/ row.usage = d /\ ~ calls[d].silent
                  \/ ~ calls[d].own /\ (calls'[d].overlap \/ (calls[d].silent /\ ~ calls[d].stream))
  <2>1. PICK row \in RowRecord :
               /\ records[d] = <<row>>
               /\ row.ok <=> calls[d].error = None
               /\ row.ok => row.model = calls[d].sent \/ (calls[d].provider = "ollama" /\ Replaced(d, row.model))
               /\ \/ row.usage = None /\ (row.ok => calls[d].silent \/ calls[d].overlap)
                  \/ row.usage = d /\ ~ calls[d].silent
                  \/ ~ calls[d].own /\ (calls[d].overlap \/ (calls[d].silent /\ ~ calls[d].stream))
    BY <1>1 DEF RowsKept
  <2>2. row.ok => row.model = calls[d].sent \/ (calls[d].provider = "ollama" /\ Replaced(d, row.model)')
    BY <2>1, ReplacedStays
  <2> QED
    BY <2>1, <2>2
<1> QED
  BY <1>1 DEF RowsKept

\* A call that a step leaves alone keeps its part of the invariant when its
\* object changes only under calls that know of each other.
LEMMA CallFrame ==
    ASSUME ModelConstants, TypeOK, ResolvedKept, Remembered,
           NEW d \in Call, CallKept(d), conf' = conf, removed \subseteq removed',
           calls'[d] = calls[d], records'[d] = records[d],
           \/ objects'[Object(d)].resolved = objects[Object(d)].resolved
           \/ objects'[Object(d)].resolved # None /\ (Active(d) => calls[d].overlap),
           \/ objects'[Object(d)].usage = objects[Object(d)].usage
           \/ ~ Active(d)
           \/ ~ calls[d].own /\ calls[d].overlap
    PROVE  CallKept(d)'
<1>1. Object(d)' = Object(d)
  BY DEF Object
<1>2. calls[d] \in CallRecord
  BY DEF TypeOK
<1>3. RouteKept(d)'
  BY DEF CallKept, RouteKept
<1>4. ModelKept(d)'
  BY ModelFrame DEF CallKept
<1>5. RowsKept(d)'
  BY <1>1, RowsFrame DEF CallKept
<1>6. UsageKept(d)'
  BY <1>1, <1>2 DEF CallKept, UsageKept, Active, Waiting, CallRecord
<1> QED
  BY <1>3, <1>4, <1>5, <1>6 DEF CallKept

\* A step of a call that has begun: it is enough that the call keeps its own
\* part, lists and stores its model in turn, and treats the usage as above.
LEMMA Turn ==
    ASSUME ModelConstants, ModelsInv, TypeOK', NEW c \in Call, Active(c), CallKept(c)',
           UNCHANGED <<conf, installed, removed>>,
           calls'[c].pc # "idle", calls'[c].own = calls[c].own,
           calls'[c].overlap = calls[c].overlap, calls'[c].provider = calls[c].provider,
           \A d \in Call \ {c} : calls'[d] = calls[d] /\ records'[d] = records[d],
           \A o \in (Call \cup {Shared}) \ {Object(c)} : objects'[o] = objects[o],
           \/ calls'[c].found = calls[c].found /\ calls'[c].blind = calls[c].blind
           \/ calls[c].found = None /\ (calls'[c].blind \/ calls'[c].found \in Range(installed)),
           \/ objects'[Object(c)].resolved = objects[Object(c)].resolved
           \/ calls[c].found # None /\ objects'[Object(c)].resolved = calls[c].found,
           \/ objects'[Object(c)].usage \in {None, objects[Object(c)].usage}
           \/ calls[c].provider # "ollama"
    PROVE  ModelsInv'
<1>0. /\ TypeOK /\ FoundKept /\ ResolvedKept /\ OverlapsKnown /\ ObjectsKept
      /\ \A d \in Call : CallKept(d)
      /\ \A d \in Call : Object(d) \in Call \cup {Shared} /\ calls[d] \in CallRecord
      /\ \A d \in Call : calls[d].own \in BOOLEAN
      /\ Shared \notin Call
  BY DEF ModelsInv, TypeOK, Object, ModelConstants, CallRecord
<1>r. Remembered
  BY DEF Remembered
<1>x. \A d \in Call : Object(d)' = Object(d)
  BY DEF Object
<1>1. ASSUME NEW d \in Call \ {c} PROVE CallKept(d)'
  <2>1. CASE Object(d) # Object(c)
    BY <1>0, <1>r, <2>1, CallFrame
  <2>2. CASE Object(d) = Object(c)
    <3>1. ~ calls[c].own /\ ~ calls[d].own
      BY <1>0, <2>2 DEF Object
    <3>2. Active(d) => calls[d].overlap
      BY <1>0, <3>1 DEF OverlapsKnown
    <3> QED
      BY <1>0, <1>r, <2>2, <3>1, <3>2, CallFrame
  <2> QED
    BY <2>1, <2>2
<1>2. FoundKept'
  <2>1. ASSUME NEW d \in Call, calls'[d].found # None, ~ calls'[d].blind
        PROVE  calls'[d].found \in Range(installed) \cup removed
    <3>1. CASE d # c
      BY <1>0, <2>1, <3>1 DEF FoundKept
    <3>2. CASE d = c
      BY <1>0, <2>1, <3>2 DEF FoundKept
    <3> QED
      BY <3>1, <3>2
  <2> QED
    BY <2>1 DEF FoundKept
<1>5. ResolvedKept'
  <2>1. ASSUME NEW o \in Call \cup {Shared}, objects'[o].resolved # None
        PROVE  \E d \in Call : Object(d)' = o /\ calls'[d].found = objects'[o].resolved
    <3>1. CASE objects'[o].resolved = objects[o].resolved
      <4>1. \E d \in Call : Object(d) = o /\ calls[d].found = objects'[o].resolved
        BY <1>0, <2>1, <3>1 DEF ResolvedKept
      <4> QED
        BY <1>r, <2>1, <4>1, FoundStays
    <3>2. CASE objects'[o].resolved # objects[o].resolved
      <4>1. o = Object(c) /\ calls[c].found # None /\ objects'[o].resolved = calls[c].found
        BY <3>2
      <4>2. calls'[c].found = calls[c].found
        BY <4>1
      <4> QED
        BY <1>x, <4>1, <4>2
    <3> QED
      BY <3>1, <3>2
  <2> QED
    BY <2>1 DEF ResolvedKept
<1>3. OverlapsKnown'
  <2>1. \A d \in Call : Active(d)' => Active(d)
    BY DEF Active
  <2>2. \A d \in Call : calls'[d].own = calls[d].own /\ calls'[d].overlap = calls[d].overlap
    OBVIOUS
  <2>3. ASSUME NEW d \in Call, NEW e \in Call, d # e, Active(d)', Active(e)', ~ calls'[d].own, ~ calls'[e].own
        PROVE  calls'[d].overlap
    BY <1>0, <2>1, <2>2, <2>3 DEF OverlapsKnown
  <2> QED
    BY <2>3 DEF OverlapsKnown
<1>4. ObjectsKept'
  <2>1. ASSUME NEW d \in Call, calls'[d].pc = "idle" PROVE ~ calls'[d].own /\ objects'[d] = Fresh
    <3>1. d # c /\ calls[d].pc = "idle"
      BY <2>1
    <3>2. d # Object(c)
      BY <1>0, <3>1 DEF Object
    <3> QED
      BY <1>0, <3>1, <3>2 DEF ObjectsKept
  <2>2. ASSUME NEW d \in Call, Active(d)', ~ calls'[d].own PROVE calls'[d].provider = conf.main
    BY <1>0, <2>2 DEF ObjectsKept, Active
  <2>3. ASSUME conf.main = "ollama" PROVE objects'[Shared].usage = None
    <3>1. CASE Object(c) = Shared
      <4>1. ~ calls[c].own
        BY <1>0, <3>1 DEF Object
      <4>2. calls[c].provider = "ollama" /\ objects[Shared].usage = None
        BY <1>0, <2>3, <4>1 DEF ObjectsKept
      <4> QED
        BY <3>1, <4>2
    <3>2. CASE Object(c) # Shared
      BY <1>0, <2>3, <3>2 DEF ObjectsKept
    <3> QED
      BY <3>1, <3>2
  <2> QED
    BY <2>1, <2>2, <2>3 DEF ObjectsKept
<1> QED
  BY <1>1, <1>2, <1>3, <1>4, <1>5 DEF ModelsInv

\* The end of a call, whatever its rows: the row says what is known of the
\* outcome, of the model and of the usage.
LEMMA EndKept ==
    ASSUME ModelConstants, ModelsInv, TypeOK', NEW c \in Call, Active(c),
           NEW ok \in BOOLEAN, NEW usage \in Call \cup {None}, NEW error \in Error \cup {None},
           \/ /\ records' = Kept(c, Row(c, ok, usage))
              /\ calls' = [calls EXCEPT ![c].pc = "done", ![c].error = error]
           \/ /\ UNCHANGED records
              /\ calls' = [calls EXCEPT ![c].pc = "done", ![c].error = error, ![c].lost = TRUE],
           UNCHANGED <<conf, objects, installed, removed>>,
           ok <=> error = None,
           ok => calls[c].pc = "reading" /\ usage = objects[Object(c)].usage,
           ~ ok => usage = None,
           error = "unconfigured" => calls[c].provider \notin conf.keys,
           error = "missing" => /\ calls[c].pc = "sent" /\ calls[c].provider = "ollama"
                                /\ calls[c].sent \notin Range(installed)
    PROVE  ModelsInv'
<1>0. /\ TypeOK /\ FoundKept /\ ResolvedKept /\ CallKept(c) /\ calls[c] \in CallRecord /\ calls \in [Call -> CallRecord]
      /\ Object(c) \in Call \cup {Shared} /\ records \in [Call -> Seq(RowRecord)]
  BY DEF ModelsInv, TypeOK, Object
<1>1. /\ calls'[c].pc = "done" /\ calls'[c].error = error
      /\ calls'[c].own = calls[c].own /\ calls'[c].stream = calls[c].stream /\ calls'[c].asked = calls[c].asked
      /\ calls'[c].provider = calls[c].provider /\ calls'[c].model = calls[c].model /\ calls'[c].sent = calls[c].sent
      /\ calls'[c].silent = calls[c].silent /\ calls'[c].overlap = calls[c].overlap
      /\ calls'[c].found = calls[c].found /\ calls'[c].blind = calls[c].blind
      /\ \A d \in Call \ {c} : calls'[d] = calls[d] /\ records'[d] = records[d]
  <2>1. CASE records' = Kept(c, Row(c, ok, usage)) /\ calls' = [calls EXCEPT ![c].pc = "done", ![c].error = error]
    BY <1>0, <2>1 DEF Kept, CallRecord
  <2>2. CASE UNCHANGED records /\ calls' = [calls EXCEPT ![c].pc = "done", ![c].error = error, ![c].lost = TRUE]
    BY <1>0, <2>2 DEF CallRecord
  <2> QED
    BY <2>1, <2>2
<1>2. calls[c].pc \in Waiting \cup Served /\ calls[c].pc \notin {"idle", "done"}
  BY DEF Active, Waiting, Served
<1>3. records[c] = <<>> /\ ~ calls[c].lost
  BY <1>0, <1>2 DEF CallKept, RowsKept
<1>4. \/ records'[c] = <<Row(c, ok, usage)>> /\ ~ calls'[c].lost
      \/ records'[c] = <<>> /\ calls'[c].lost
  <2>1. CASE records' = Kept(c, Row(c, ok, usage)) /\ calls' = [calls EXCEPT ![c].pc = "done", ![c].error = error]
    <3>1. calls'[c].lost = calls[c].lost
      BY <1>0, <2>1 DEF CallRecord
    <3>2. records'[c] = Append(records[c], Row(c, ok, usage))
      BY <1>0, <2>1 DEF Kept
    <3> QED
      BY <1>3, <3>1, <3>2
  <2>2. CASE UNCHANGED records /\ calls' = [calls EXCEPT ![c].pc = "done", ![c].error = error, ![c].lost = TRUE]
    BY <1>0, <1>3, <2>2 DEF CallRecord
  <2> QED
    BY <2>1, <2>2
<1>5. Object(c)' = Object(c)
  BY <1>1 DEF Object
<1>6. RouteKept(c)'
  BY <1>0, <1>1 DEF CallKept, RouteKept
<1>r. Remembered
  BY <1>1 DEF Remembered
<1>7. ModelKept(c)'
  <2>1. ASSUME error = "missing"
        PROVE  /\ calls[c].sent # None
               /\ \E d \in Call : Object(d)' = Object(c) /\ calls'[d].found = calls[c].sent
               /\ \/ calls[c].sent \in removed
                  \/ \E d \in Call : Object(d)' = Object(c) /\ calls'[d].found = calls[c].sent /\ calls'[d].blind
    <3>1. calls[c].pc \in Served /\ calls[c].provider = "ollama" /\ calls[c].sent \notin Range(installed)
      BY <2>1 DEF Served
    <3>2. calls[c].sent # None /\ \E d \in Call : Object(d) = Object(c) /\ calls[d].found = calls[c].sent
      BY <1>0, <3>1 DEF CallKept, ModelKept
    <3>3. \/ calls[c].sent \in removed
          \/ \E d \in Call : Object(d) = Object(c) /\ calls[d].found = calls[c].sent /\ calls[d].blind
      BY <1>0, <3>1, <3>2 DEF FoundKept
    <3> QED
      BY <1>r, <3>2, <3>3, FoundStays
  <2> QED
    BY <1>1, <1>5, <2>1 DEF ModelKept, Waiting, Served
<1>8. RowsKept(c)'
  <2>1. Row(c, ok, usage) \in RowRecord
    BY <1>0 DEF Row, RowRecord, CallRecord
  <2>2. /\ Row(c, ok, usage).ok = ok /\ Row(c, ok, usage).usage = usage
        /\ Row(c, ok, usage).model = calls[c].model
    BY DEF Row
  <2>3. ok => calls[c].model = calls[c].sent \/ (calls[c].provider = "ollama" /\ Replaced(c, calls[c].model)')
    <3>1. ok => calls[c].model = calls[c].sent \/ (calls[c].provider = "ollama" /\ Replaced(c, calls[c].model))
      BY <1>0 DEF CallKept, ModelKept, Served
    <3> QED
      BY <1>1, <1>5, <1>r, <3>1, ReplacedStays
  <2>4. \/ usage = None /\ (ok => calls[c].silent \/ calls[c].overlap)
        \/ usage = c /\ ~ calls[c].silent
        \/ ~ calls[c].own /\ (calls[c].overlap \/ (calls[c].silent /\ ~ calls[c].stream))
    BY <1>0 DEF CallKept, UsageKept
  <2> QED
    BY <1>1, <1>4, <2>1, <2>2, <2>3, <2>4 DEF RowsKept
<1>9. UsageKept(c)'
  BY <1>1 DEF UsageKept, Waiting
<1>10. CallKept(c)'
  BY <1>6, <1>7, <1>8, <1>9 DEF CallKept
<1> QED
  BY <1>0, <1>1, <1>10, Turn

\* Each step of the calls keeps the invariant.
LEMMA CallSteps ==
    ASSUME ModelConstants, ModelsInv, TypeOK', NEW c \in Call
    PROVE  /\ \A b \in BOOLEAN : Complete(c, b) \/ LastChunk(c, b) => ModelsInv'
           /\ \/ Send(c) \/ NotConfigured(c) \/ List(c) \/ Store(c) \/ Return(c) \/ OpenStream(c) \/ OpenOllama(c)
              \/ Abandon(c) \/ Raise(c) \/ ServiceFails(c) \/ Read(c)
              => ModelsInv'
<1>0. /\ TypeOK /\ ResolvedKept /\ CallKept(c) /\ calls[c] \in CallRecord /\ calls \in [Call -> CallRecord]
      /\ Object(c) \in Call \cup {Shared} /\ objects \in [Call \cup {Shared} -> ObjectRecord]
      /\ objects[Object(c)] \in ObjectRecord
      /\ RouteKept(c) /\ ModelKept(c) /\ RowsKept(c) /\ UsageKept(c)
  BY DEF ModelsInv, TypeOK, Object, CallKept
\* The usage of the object alone is changed.
<1>v. ASSUME NEW u \in Call \cup {None}, objects' = [objects EXCEPT ![Object(c)].usage = u]
      PROVE  /\ objects'[Object(c)].usage = u
             /\ objects'[Object(c)].resolved = objects[Object(c)].resolved
             /\ \A o \in (Call \cup {Shared}) \ {Object(c)} : objects'[o] = objects[o]
  BY <1>0, <1>v DEF ObjectRecord
\* A step to a pc that keeps every other field.
<1>p. ASSUME NEW pc, Goes(c, pc)
      PROVE  /\ calls'[c].pc = pc
             /\ calls'[c].own = calls[c].own /\ calls'[c].stream = calls[c].stream /\ calls'[c].asked = calls[c].asked
             /\ calls'[c].provider = calls[c].provider /\ calls'[c].model = calls[c].model /\ calls'[c].sent = calls[c].sent
             /\ calls'[c].silent = calls[c].silent /\ calls'[c].overlap = calls[c].overlap
             /\ calls'[c].error = calls[c].error /\ calls'[c].lost = calls[c].lost
             /\ calls'[c].found = calls[c].found /\ calls'[c].blind = calls[c].blind
             /\ \A d \in Call \ {c} : calls'[d] = calls[d]
  BY <1>0, <1>p DEF Goes, CallRecord
<1>q. ASSUME NEW b \in BOOLEAN, calls' = [calls EXCEPT ![c].pc = "reading", ![c].silent = ~ b]
      PROVE  /\ calls'[c].pc = "reading" /\ calls'[c].silent = ~ b
             /\ calls'[c].own = calls[c].own /\ calls'[c].stream = calls[c].stream /\ calls'[c].asked = calls[c].asked
             /\ calls'[c].provider = calls[c].provider /\ calls'[c].model = calls[c].model /\ calls'[c].sent = calls[c].sent
             /\ calls'[c].overlap = calls[c].overlap
             /\ calls'[c].error = calls[c].error /\ calls'[c].lost = calls[c].lost
             /\ calls'[c].found = calls[c].found /\ calls'[c].blind = calls[c].blind
             /\ \A d \in Call \ {c} : calls'[d] = calls[d]
  BY <1>0, <1>q DEF CallRecord
\* A served call keeps what it knows of its model.
<1>m. ASSUME calls[c].pc \in Served, calls'[c].pc \in Served \cup {"gone"}, removed' = removed,
             calls'[c].own = calls[c].own, calls'[c].provider = calls[c].provider, calls'[c].model = calls[c].model,
             calls'[c].sent = calls[c].sent, calls'[c].error = calls[c].error, calls'[c].overlap = calls[c].overlap,
             calls'[c].found = calls[c].found, calls'[c].blind = calls[c].blind,
             \A d \in Call \ {c} : calls'[d] = calls[d],
             objects'[Object(c)].resolved = objects[Object(c)].resolved
      PROVE  ModelKept(c)'
  <2>1. Remembered
    BY <1>m DEF Remembered
  <2> QED
    BY <1>0, <1>m, <2>1, ModelFrame
<1>1. ASSUME NEW b \in BOOLEAN, Complete(c, b) \/ LastChunk(c, b) PROVE ModelsInv'
  <2> DEFINE u == IF b THEN c ELSE objects[Object(c)].usage
  <2>1. /\ calls[c].pc \in {"sent", "streaming"} /\ (calls[c].pc = "sent" => ~ calls[c].stream)
        /\ b => calls[c].provider # "ollama"
        /\ calls' = [calls EXCEPT ![c].pc = "reading", ![c].silent = ~ b]
        /\ objects' = [objects EXCEPT ![Object(c)].usage = u]
        /\ UNCHANGED <<conf, installed, removed, records>>
    BY <1>1 DEF Complete, LastChunk, Reports, At, server
  <2>2. u \in Call \cup {None} /\ (b => u = c) /\ (~ b => u = objects[Object(c)].usage)
    BY <1>0 DEF ObjectRecord
  <2> HIDE DEF u
  <2>f. /\ calls'[c].pc = "reading" /\ calls'[c].silent = ~ b
        /\ calls'[c].own = calls[c].own /\ calls'[c].stream = calls[c].stream /\ calls'[c].asked = calls[c].asked
        /\ calls'[c].provider = calls[c].provider /\ calls'[c].model = calls[c].model /\ calls'[c].sent = calls[c].sent
        /\ calls'[c].overlap = calls[c].overlap
        /\ calls'[c].error = calls[c].error /\ calls'[c].lost = calls[c].lost
        /\ calls'[c].found = calls[c].found /\ calls'[c].blind = calls[c].blind
        /\ \A d \in Call \ {c} : calls'[d] = calls[d]
    BY <1>q, <2>1
  <2>o. /\ objects'[Object(c)].usage = u
        /\ objects'[Object(c)].resolved = objects[Object(c)].resolved
    BY <1>v, <2>1, <2>2
  <2>3. Object(c)' = Object(c)
    BY <2>f DEF Object
  <2>4. RouteKept(c)' /\ RowsKept(c)'
    BY <1>0, <1>q, <2>1 DEF RouteKept, RowsKept
  <2>5. ModelKept(c)'
    BY <1>m, <2>f, <2>o, <2>1 DEF Served
  <2>6. UsageKept(c)'
    BY <1>0, <2>f, <2>o, <2>1, <2>2, <2>3 DEF UsageKept, RouteKept, Waiting
  <2>7. CallKept(c)' /\ Active(c)
    BY <2>1, <2>4, <2>5, <2>6 DEF CallKept, Active
  <2> QED
    BY <1>0, <1>q, <1>v, <2>1, <2>2, <2>7, Turn
\* The name of a model is all that is new in the call.
<1>u. ASSUME NEW model, Uses(c, model)
      PROVE  /\ calls'[c].pc = "sent" /\ calls'[c].sent = model
             /\ calls'[c].own = calls[c].own /\ calls'[c].stream = calls[c].stream /\ calls'[c].asked = calls[c].asked
             /\ calls'[c].provider = calls[c].provider /\ calls'[c].model = calls[c].model
             /\ calls'[c].silent = calls[c].silent /\ calls'[c].overlap = calls[c].overlap
             /\ calls'[c].error = calls[c].error /\ calls'[c].lost = calls[c].lost
             /\ calls'[c].found = calls[c].found /\ calls'[c].blind = calls[c].blind
             /\ \A d \in Call \ {c} : calls'[d] = calls[d]
             /\ Object(c)' = Object(c)
  BY <1>0, <1>u DEF Uses, CallRecord, Object
\* Ollama gets the model that the object holds, which one of its calls resolved.
<1>w. ASSUME calls[c].pc \in {"sending", "returning"}, calls[c].provider = "ollama",
             objects[Object(c)].resolved # None, Uses(c, objects[Object(c)].resolved),
             UNCHANGED <<conf, objects, installed, removed, records>>
      PROVE  ModelsInv'
  <2> DEFINE tag == objects[Object(c)].resolved
  <2>1. calls[c].error = None /\ records[c] = <<>> /\ ~ calls[c].lost
    BY <1>0, <1>w DEF RowsKept
  <2>2. Remembered
    BY <1>u, <1>w DEF Remembered
  <2>3. \E d \in Call : Object(d)' = Object(c) /\ calls'[d].found = tag
    BY <1>0, <1>w, <2>2, FoundStays DEF ResolvedKept
  <2>4. tag = calls[c].model \/ Replaced(c, calls[c].model)'
    <3>1. tag = calls[c].model \/ Replaced(c, calls[c].model)
      BY <1>0, <1>w DEF ModelKept, Waiting, Replaced, Renamed, ModelConstants
    <3> QED
      BY <1>u, <1>w, <2>2, <3>1, ReplacedStays
  <2> HIDE DEF tag
  <2>u. /\ calls'[c].pc = "sent" /\ calls'[c].sent = tag
        /\ calls'[c].own = calls[c].own /\ calls'[c].stream = calls[c].stream /\ calls'[c].asked = calls[c].asked
        /\ calls'[c].provider = calls[c].provider /\ calls'[c].model = calls[c].model
        /\ calls'[c].silent = calls[c].silent /\ calls'[c].overlap = calls[c].overlap
        /\ calls'[c].error = calls[c].error /\ calls'[c].lost = calls[c].lost
        /\ calls'[c].found = calls[c].found /\ calls'[c].blind = calls[c].blind
        /\ \A d \in Call \ {c} : calls'[d] = calls[d]
        /\ Object(c)' = Object(c)
    BY <1>u, <1>w DEF tag
  <2>5. RouteKept(c)' /\ RowsKept(c)'
    BY <1>0, <1>w, <2>1, <2>u DEF RouteKept, RowsKept, Error, ModelConstants
  <2>6. ModelKept(c)'
    <3>1. tag # None
      BY <1>w DEF tag
    <3>2. calls'[c].error # "missing"
      BY <2>1, <2>u DEF Error, ModelConstants
    <3>3. calls[c].model = calls'[c].model
      BY <2>u
    <3> QED
      BY <1>w, <2>3, <2>4, <2>u, <3>1, <3>2, <3>3 DEF ModelKept, Waiting, Served
  <2>7. UsageKept(c)'
    BY <1>0, <1>w, <2>u DEF UsageKept, Waiting
  <2>8. CallKept(c)' /\ Active(c)
    BY <1>w, <2>5, <2>6, <2>7 DEF CallKept, Active
  <2> QED
    BY <1>w, <2>u, <2>8, Turn
<1>2. ASSUME Send(c) PROVE ModelsInv'
  <2>1. /\ calls[c].pc = "sending" /\ calls[c].provider \in conf.keys
        /\ UNCHANGED <<conf, objects, installed, removed, records>>
    BY <1>2 DEF Send, At, server
  <2>e. calls[c].error = None
    BY <1>0, <2>1 DEF RowsKept
  <2>2. CASE calls[c].provider = "ollama" /\ objects[Object(c)].resolved = None /\ Goes(c, "listing")
    <3>2. Object(c)' = Object(c)
      BY <1>p, <2>2 DEF Object
    <3>3. RouteKept(c)' /\ RowsKept(c)' /\ UsageKept(c)'
      BY <1>0, <1>p, <2>1, <2>2, <3>2 DEF RouteKept, RowsKept, UsageKept, Waiting
    <3>4. ModelKept(c)'
      BY <1>0, <1>p, <2>1, <2>2, <2>e, <3>2 DEF ModelKept, Waiting, Served, Error, ModelConstants
    <3>5. CallKept(c)' /\ Active(c)
      BY <2>1, <3>3, <3>4 DEF CallKept, Active
    <3> QED
      BY <1>p, <2>1, <2>2, <3>5, Turn
  <2>3. CASE calls[c].provider # "ollama" /\ Uses(c, calls[c].model)
    <3>5. RouteKept(c)' /\ RowsKept(c)' /\ UsageKept(c)'
      BY <1>0, <1>u, <2>1, <2>3, <2>e DEF RouteKept, RowsKept, UsageKept, Waiting, Served, Error, ModelConstants
    <3>6. ModelKept(c)'
      BY <1>0, <1>u, <2>1, <2>3, <2>e DEF ModelKept, Waiting, Served, Error, ModelConstants
    <3>7. CallKept(c)' /\ Active(c)
      BY <2>1, <3>5, <3>6 DEF CallKept, Active
    <3> QED
      BY <1>u, <2>1, <2>3, <3>7, Turn
  <2>4. CASE calls[c].provider = "ollama" /\ objects[Object(c)].resolved # None /\ Uses(c, objects[Object(c)].resolved)
    BY <1>w, <2>1, <2>4
  <2> QED
    BY <1>2, <2>2, <2>3, <2>4 DEF Send
<1>3. ASSUME NotConfigured(c) PROVE ModelsInv'
  <2>1. /\ Active(c) /\ calls[c].provider \notin conf.keys /\ Records(c, FALSE, None, "unconfigured")
        /\ UNCHANGED <<conf, objects, installed, removed>>
    BY <1>3 DEF NotConfigured, Fails, At, Active, server
  <2> QED
    BY <2>1, EndKept DEF Records, Error, ModelConstants
<1>4. ASSUME List(c) \/ Store(c) \/ Return(c) PROVE ModelsInv'
  <2>1. /\ calls[c].pc \in {"listing", "storing", "returning"} /\ Active(c) /\ calls[c].provider = "ollama"
        /\ calls[c].model = Requested /\ calls[c].error = None /\ calls[c].error # "missing"
        /\ UNCHANGED <<conf, installed, removed, records>>
    BY <1>0, <1>4 DEF List, Store, Return, At, server, ModelKept, RowsKept, Waiting, Active, Error, ModelConstants
  <2>2. CASE List(c)
    <3> DEFINE listed == IF up THEN installed ELSE <<>>
               found == ResolvedModel(listed)
               blind == (listed = <<>>)
    <3>1. listed \in Seq(Tag) /\ (listed # <<>> => Range(listed) = Range(installed))
      BY <1>0 DEF TypeOK
    <3>2. found \in Tag /\ (blind \/ found \in Range(installed))
      BY <3>1, ResolvedIsListed
    <3>3. found # None /\ blind \in BOOLEAN
      BY <3>2 DEF ModelConstants
    <3>4. calls' = [calls EXCEPT ![c].pc = "storing", ![c].found = found, ![c].blind = blind]
      BY <2>2 DEF List
    <3>5. calls[c].pc = "listing" /\ objects' = objects /\ calls[c].found = None
      BY <1>0, <2>2 DEF List, At, ModelKept
    <3> HIDE DEF listed, found, blind
    <3>6. /\ calls'[c].pc = "storing" /\ calls'[c].found = found /\ calls'[c].blind = blind
          /\ calls'[c].own = calls[c].own /\ calls'[c].stream = calls[c].stream /\ calls'[c].asked = calls[c].asked
          /\ calls'[c].provider = calls[c].provider /\ calls'[c].model = calls[c].model /\ calls'[c].sent = calls[c].sent
          /\ calls'[c].silent = calls[c].silent /\ calls'[c].overlap = calls[c].overlap
          /\ calls'[c].error = calls[c].error /\ calls'[c].lost = calls[c].lost
          /\ \A d \in Call \ {c} : calls'[d] = calls[d]
      BY <1>0, <3>4 DEF CallRecord
    <3>7. Object(c)' = Object(c)
      BY <3>6 DEF Object
    <3>8. RouteKept(c)' /\ RowsKept(c)' /\ UsageKept(c)'
      BY <1>0, <2>1, <3>5, <3>6, <3>7 DEF RouteKept, RowsKept, UsageKept, Waiting
    <3>9. ModelKept(c)'
      BY <1>0, <2>1, <3>3, <3>5, <3>6 DEF ModelKept, Waiting, Served
    <3>10. CallKept(c)'
      BY <3>8, <3>9 DEF CallKept
    <3> QED
      BY <2>1, <3>2, <3>5, <3>6, <3>10, Turn
  <2>3. CASE Store(c)
    <3>1. /\ calls[c].pc = "storing" /\ Goes(c, "returning") /\ calls[c].found # None
          /\ objects' = [objects EXCEPT ![Object(c)].resolved = calls[c].found]
      BY <1>0, <2>3 DEF Store, At, ModelKept
    <3>2. /\ objects'[Object(c)].resolved = calls[c].found /\ objects'[Object(c)].usage = objects[Object(c)].usage
          /\ \A o \in (Call \cup {Shared}) \ {Object(c)} : objects'[o] = objects[o]
      BY <1>0, <3>1 DEF ObjectRecord
    <3>3. Object(c)' = Object(c)
      BY <1>p, <3>1 DEF Object
    <3>4. RouteKept(c)' /\ RowsKept(c)' /\ UsageKept(c)'
      BY <1>0, <1>p, <2>1, <3>1, <3>2, <3>3 DEF RouteKept, RowsKept, UsageKept, Waiting
    <3>5. ModelKept(c)'
      BY <1>0, <1>p, <2>1, <3>1, <3>2, <3>3 DEF ModelKept, Waiting, Served
    <3>6. CallKept(c)'
      BY <3>4, <3>5 DEF CallKept
    <3> QED
      BY <1>p, <2>1, <3>1, <3>2, <3>6, Turn
  <2>4. CASE Return(c)
    <3>1. calls[c].pc = "returning" /\ Uses(c, objects[Object(c)].resolved) /\ objects' = objects
      BY <2>4 DEF Return, At
    <3>2. objects[Object(c)].resolved # None
      BY <1>0, <3>1 DEF ModelKept
    <3> QED
      BY <1>w, <2>1, <3>1, <3>2
  <2> QED
    BY <1>4, <2>2, <2>3, <2>4
<1>5. ASSUME OpenStream(c) PROVE ModelsInv'
  <2>1. /\ calls[c].pc = "sent" /\ calls[c].provider # "ollama" /\ Goes(c, "streaming")
        /\ objects' = [objects EXCEPT ![Object(c)].usage = None]
        /\ UNCHANGED <<conf, installed, removed, records>>
    BY <1>5 DEF OpenStream, Cleared, At, server
  <2>2. Object(c)' = Object(c)
    BY <1>p, <2>1 DEF Object
  <2>3. ModelKept(c)'
    BY <1>m, <1>p, <1>v, <2>1 DEF Served
  <2>4. CallKept(c)' /\ Active(c)
    BY <1>0, <1>p, <1>v, <2>1, <2>2, <2>3
       DEF CallKept, Active, RouteKept, RowsKept, UsageKept, Waiting
  <2> QED
    BY <1>p, <1>v, <2>1, <2>4, Turn
<1>6. ASSUME OpenOllama(c) PROVE ModelsInv'
  <2>1. /\ calls[c].pc = "sent" /\ calls[c].provider = "ollama" /\ Goes(c, "streaming")
        /\ UNCHANGED <<conf, objects, installed, removed, records>>
    BY <1>6 DEF OpenOllama, At, server
  <2>2. Object(c)' = Object(c)
    BY <1>p, <2>1 DEF Object
  <2>3. objects[Object(c)].usage = None
    <3>1. CASE calls[c].own
      BY <1>0, <2>1, <3>1 DEF UsageKept
    <3>2. CASE ~ calls[c].own
      BY <2>1, <3>2 DEF ModelsInv, ObjectsKept, Active, Object
    <3> QED
      BY <3>1, <3>2
  <2>4. ModelKept(c)'
    BY <1>m, <1>p, <2>1 DEF Served
  <2>5. CallKept(c)' /\ Active(c)
    BY <1>0, <1>p, <2>1, <2>2, <2>3, <2>4
       DEF CallKept, Active, RouteKept, RowsKept, UsageKept, Waiting
  <2> QED
    BY <1>p, <2>1, <2>5, Turn
<1>7. ASSUME Abandon(c) PROVE ModelsInv'
  <2>1. /\ calls[c].pc = "streaming" /\ Goes(c, "gone")
        /\ UNCHANGED <<conf, objects, installed, removed, records>>
    BY <1>7 DEF Abandon, At, server
  <2>2. Object(c)' = Object(c)
    BY <1>p, <2>1 DEF Object
  <2>3. ModelKept(c)'
    BY <1>m, <1>p, <2>1 DEF Served
  <2>4. CallKept(c)' /\ Active(c)
    BY <1>0, <1>p, <2>1, <2>2, <2>3
       DEF CallKept, Active, RouteKept, RowsKept, UsageKept, Waiting
  <2> QED
    BY <1>p, <2>1, <2>4, Turn
<1>8. ASSUME Raise(c) PROVE ModelsInv'
  <2>1. CASE Fails(c, "down")
    BY <1>8, <2>1, EndKept DEF Raise, Fails, Records, At, Active, server, Error, ModelConstants
  <2>2. CASE calls[c].sent \notin Range(installed) /\ Fails(c, "missing")
    BY <1>8, <2>2, EndKept DEF Raise, Fails, Records, At, Active, server, Error, ModelConstants
  <2> QED
    BY <1>8, <2>1, <2>2 DEF Raise
<1>9. ASSUME ServiceFails(c) PROVE ModelsInv'
  BY <1>9, EndKept DEF ServiceFails, Active, server, Error, ModelConstants
<1>10. ASSUME Read(c) PROVE ModelsInv'
  <2>1. /\ calls[c].pc = "reading" /\ Active(c) /\ objects[Object(c)].usage \in Call \cup {None}
        /\ Records(c, TRUE, objects[Object(c)].usage, None)
        /\ UNCHANGED <<conf, objects, installed, removed>>
    BY <1>0, <1>10 DEF Read, At, Active, server, ObjectRecord
  <2> QED
    BY <2>1, EndKept DEF Records, Error, ModelConstants
<1> QED
  BY <1>1, <1>2, <1>3, <1>4, <1>5, <1>6, <1>7, <1>8, <1>9, <1>10

\* A routed turn starts on a new object, with what the router decided.
LEMMA AskKeeps ==
    ASSUME ModelConstants, ModelsInv, TypeOK', NEW c \in Call, NEW query,
           NEW asked \in DOMAIN Catalog \cup {"auto", "unknown"}, Ask(c, asked, query)
    PROVE  ModelsInv'
<1> DEFINE route == Resolve(asked, query)
           name == ModelName(Fresh, route.provider, route.model)
<1>0. /\ TypeOK /\ FoundKept /\ ResolvedKept /\ OverlapsKnown /\ ObjectsKept
      /\ \A d \in Call : CallKept(d)
      /\ calls \in [Call -> CallRecord] /\ Shared \notin Call
      /\ calls[c].pc = "idle" /\ ~ calls[c].own /\ objects[c] = Fresh
      /\ UNCHANGED <<conf, objects, installed, removed, records>>
  BY DEF ModelsInv, TypeOK, Ask, At, ObjectsKept, server, ModelConstants
<1>1. \A d \in Call \ {c} : calls'[d] = calls[d]
  BY <1>0 DEF Ask
<1>2. /\ ~ calls'[c].lost /\ ~ calls'[c].overlap /\ calls'[c].error = None /\ calls'[c].sent = None
      /\ calls'[c].found = None
      /\ \/ calls'[c].pc = "refused" /\ ~ calls'[c].own
         \/ /\ calls'[c].pc = "sending" /\ calls'[c].own /\ calls'[c].stream /\ ~ Refuses(asked)
            /\ calls'[c].asked = asked /\ calls'[c].provider = route.provider /\ calls'[c].model = name
  <2>1. CASE Refuses(asked)
    BY <1>0, <2>1 DEF Ask, Idle
  <2>2. CASE ~ Refuses(asked)
    <3> HIDE DEF route, name
    <3>1. calls'[c] = [Idle EXCEPT !.pc = "sending", !.own = TRUE, !.stream = TRUE, !.asked = asked,
                                   !.provider = route.provider, !.model = name]
      BY <1>0, <2>2 DEF Ask, route, name
    <3> QED
      BY <2>2, <3>1 DEF Idle
  <2> QED
    BY <2>1, <2>2
<1>3. ~ Refuses(asked) =>
        /\ asked # "auto" => route.provider \in conf.keys /\ route.provider # "ollama" /\ route.model = asked
        /\ route.provider \notin conf.keys => ~ conf.routing \/ conf.main \notin conf.keys
        /\ name = IF route.provider # "ollama" THEN route.model ELSE Requested
  BY <1>0, RouteIsSound DEF TypeOK, ModelName, Fresh
<1> HIDE DEF route, name
<1>r. Remembered /\ calls[c].found = None
  <2>1. calls[c].found = None
    BY <1>0 DEF CallKept, ModelKept
  <2> QED
    BY <1>1, <2>1 DEF Remembered
<1>4. records[c] = <<>>
  BY <1>0 DEF CallKept, RowsKept
<1>5. RouteKept(c)' /\ RowsKept(c)'
  BY <1>0, <1>2, <1>3, <1>4 DEF RouteKept, RowsKept, Error, ModelConstants
<1>6. ModelKept(c)'
  BY <1>2, <1>3 DEF ModelKept, Waiting, Served, Error, ModelConstants
<1>7. UsageKept(c)'
  <2>1. calls'[c].own => Object(c)' = c
    BY DEF Object
  <2> QED
    BY <1>0, <1>2, <2>1 DEF UsageKept, Waiting, Fresh
<1>8. \A d \in Call : CallKept(d)'
  <2>1. ASSUME NEW d \in Call \ {c} PROVE CallKept(d)'
    BY <1>0, <1>1, <1>r, <2>1, CallFrame
  <2> QED
    BY <1>5, <1>6, <1>7, <2>1 DEF CallKept
<1>9. FoundKept' /\ ResolvedKept'
  <2>1. FoundKept'
    BY <1>0, <1>1, <1>2 DEF FoundKept
  <2>2. ResolvedKept'
    BY <1>0, <1>r, FoundStays DEF ResolvedKept
  <2> QED
    BY <2>1, <2>2
<1>10. OverlapsKnown'
  <2>1. Active(c)' => calls'[c].own
    BY <1>2 DEF Active
  <2> QED
    BY <1>0, <1>1, <2>1 DEF OverlapsKnown, Active
<1>11. ObjectsKept'
  BY <1>0, <1>1, <1>2 DEF ObjectsKept, Active
<1> QED
  BY <1>8, <1>9, <1>10, <1>11 DEF ModelsInv

\* A call of the shared object and the calls that use it learn of each other.
LEMMA UseSharedKeeps ==
    ASSUME ModelConstants, ModelsInv, TypeOK', NEW c \in Call, NEW stream \in BOOLEAN, UseShared(c, stream)
    PROVE  ModelsInv'
<1> DEFINE others == {o \in Call : Active(o) /\ ~ calls[o].own}
<1>0. /\ TypeOK /\ FoundKept /\ ResolvedKept /\ OverlapsKnown /\ ObjectsKept
      /\ \A d \in Call : CallKept(d)
      /\ calls \in [Call -> CallRecord] /\ Shared \notin Call
      /\ calls[c].pc = "idle" /\ ~ calls[c].own
      /\ UNCHANGED <<conf, objects, installed, removed, records>>
  BY DEF ModelsInv, TypeOK, UseShared, At, ObjectsKept, server, ModelConstants
<1>1. \A d \in Call \ {c} : calls'[d] = IF d \in others THEN [calls[d] EXCEPT !.overlap = TRUE] ELSE calls[d]
  BY <1>0 DEF UseShared
<1>2. /\ calls'[c].pc = "sending" /\ ~ calls'[c].own /\ calls'[c].stream = stream /\ calls'[c].provider = conf.main
      /\ calls'[c].model = ModelName(objects[Shared], conf.main, "default")
      /\ calls'[c].overlap = (others # {})
      /\ ~ calls'[c].lost /\ calls'[c].error = None /\ calls'[c].sent = None /\ calls'[c].found = None
  <2>1. calls'[c] = [Idle EXCEPT !.pc = "sending", !.stream = stream, !.provider = conf.main,
                                 !.model = ModelName(objects[Shared], conf.main, "default"), !.overlap = (others # {})]
    BY <1>0 DEF UseShared
  <2> HIDE DEF others
  <2> QED
    BY <2>1 DEF Idle
<1>3. ASSUME NEW d \in Call \ {c}
      PROVE  /\ calls'[d].pc = calls[d].pc /\ calls'[d].own = calls[d].own /\ calls'[d].stream = calls[d].stream
             /\ calls'[d].asked = calls[d].asked /\ calls'[d].provider = calls[d].provider
             /\ calls'[d].model = calls[d].model /\ calls'[d].sent = calls[d].sent
             /\ calls'[d].error = calls[d].error /\ calls'[d].silent = calls[d].silent
             /\ calls'[d].lost = calls[d].lost
             /\ calls'[d].found = calls[d].found /\ calls'[d].blind = calls[d].blind
             /\ calls'[d].overlap = (calls[d].overlap \/ d \in others)
  <2> HIDE DEF others
  <2>1. calls[d] \in CallRecord
    BY <1>0
  <2>2. CASE d \in others
    BY <1>1, <2>1, <2>2 DEF CallRecord
  <2>3. CASE d \notin others
    BY <1>1, <2>1, <2>3 DEF CallRecord
  <2> QED
    BY <2>2, <2>3
<1>r. Remembered /\ calls[c].found = None
  <2>1. calls[c].found = None
    BY <1>0 DEF CallKept, ModelKept
  <2> QED
    BY <1>3, <2>1 DEF Remembered
<1>4. ASSUME NEW d \in Call \ {c} PROVE CallKept(d)'
  <2>1. CallKept(d) /\ calls[d].overlap \in BOOLEAN
    BY <1>0 DEF CallRecord
  <2>2. Object(d)' = Object(d)
    BY <1>3 DEF Object
  <2>3. (calls[d].overlap => calls'[d].overlap) /\ (calls'[d].overlap => calls[d].overlap \/ ~ calls[d].own)
    BY <1>3
  <2>4. RouteKept(d)'
    BY <1>0, <1>3, <2>1 DEF CallKept, RouteKept
  <2>5. ModelKept(d)'
    BY <1>0, <1>3, <1>r, <2>1, <2>3, ModelFrame DEF CallKept
  <2>6. RowsKept(d)'
    BY <1>0, <1>3, <1>r, <2>1, <2>2, <2>3, RowsFrame DEF CallKept
  <2>7. UsageKept(d)'
    BY <1>0, <1>3, <2>1, <2>2, <2>3 DEF CallKept, UsageKept, Waiting
  <2> QED
    BY <2>4, <2>5, <2>6, <2>7 DEF CallKept
<1>5. records[c] = <<>>
  BY <1>0 DEF CallKept, RowsKept
<1>6. Object(c)' = Shared
  BY <1>2 DEF Object
<1>7. CallKept(c)'
  <2>1. RouteKept(c)' /\ RowsKept(c)' /\ UsageKept(c)'
    BY <1>0, <1>2, <1>5 DEF RouteKept, RowsKept, UsageKept, Waiting, Error, ModelConstants
  <2>2. ModelKept(c)'
    BY <1>0, <1>2, <1>6 DEF ModelKept, ModelName, Waiting, Served, Error, ModelConstants
  <2> QED
    BY <2>1, <2>2 DEF CallKept
<1>8. FoundKept' /\ ResolvedKept'
  <2>1. FoundKept'
    BY <1>0, <1>2, <1>3 DEF FoundKept
  <2>2. ResolvedKept'
    BY <1>0, <1>r, FoundStays DEF ResolvedKept
  <2> QED
    BY <2>1, <2>2
<1>9. OverlapsKnown'
  <2>1. ASSUME NEW d \in Call, NEW e \in Call, d # e, Active(d)', Active(e)', ~ calls'[d].own, ~ calls'[e].own
        PROVE  calls'[d].overlap
    <3>1. \A x \in Call \ {c} : Active(x)' <=> Active(x)
      BY <1>3 DEF Active
    <3>2. CASE d = c
      <4>1. e \in others
        BY <1>3, <2>1, <3>1, <3>2
      <4> HIDE DEF others
      <4> QED
        BY <1>2, <3>2, <4>1
    <3>3. CASE d # c
      <4>1. d \in others
        BY <1>3, <2>1, <3>1, <3>3
      <4> HIDE DEF others
      <4> QED
        BY <1>3, <3>3, <4>1
    <3> QED
      BY <3>2, <3>3
  <2> QED
    BY <2>1 DEF OverlapsKnown
<1>10. ObjectsKept'
  <2> HIDE DEF others
  <2> QED
    BY <1>0, <1>2, <1>3 DEF ObjectsKept, Active
<1> QED
  BY <1>4, <1>7, <1>8, <1>9, <1>10 DEF ModelsInv

\* A change of the Ollama server takes no model away that is not remembered.
LEMMA ChangeKeeps ==
    ASSUME ModelConstants, ModelsInv, TypeOK', Change, removed \subseteq removed',
           Range(installed) \cup removed \subseteq Range(installed') \cup removed'
    PROVE  ModelsInv'
<1>0. /\ TypeOK /\ FoundKept /\ ResolvedKept /\ OverlapsKnown /\ ObjectsKept
      /\ \A d \in Call : CallKept(d)
      /\ UNCHANGED <<conf, calls, objects, records>>
  BY DEF ModelsInv, Change
<1>r. Remembered
  BY <1>0 DEF Remembered
<1>1. \A d \in Call : CallKept(d)'
  BY <1>0, <1>r, CallFrame
<1>2. FoundKept' /\ ResolvedKept'
  <2>1. ASSUME NEW c \in Call, calls'[c].found # None, ~ calls'[c].blind
        PROVE  calls'[c].found \in Range(installed') \cup removed'
    BY <1>0, <2>1 DEF FoundKept
  <2>2. ResolvedKept'
    BY <1>0, <1>r, FoundStays DEF ResolvedKept
  <2> QED
    BY <2>1, <2>2 DEF FoundKept
<1>3. OverlapsKnown' /\ ObjectsKept'
  BY <1>0 DEF OverlapsKnown, ObjectsKept, Active
<1> QED
  BY <1>1, <1>2, <1>3 DEF ModelsInv

\* Nothing has begun at the start.
LEMMA ModelsInvInit == ModelConstants /\ Init => ModelsInv
<1> SUFFICES ASSUME ModelConstants, Init PROVE ModelsInv
  OBVIOUS
<1>1. /\ \A c \in Call : calls[c] = Idle /\ records[c] = <<>>
      /\ \A o \in Call \cup {Shared} : objects[o] = Fresh
  BY DEF Init
<1>2. ASSUME NEW c \in Call PROVE CallKept(c)
  <2>1. objects[Object(c)] = Fresh
    BY <1>1 DEF Object
  <2> QED
    BY <1>1, <2>1
       DEF CallKept, RouteKept, ModelKept, RowsKept, UsageKept, Waiting, Served, Idle, Fresh, Error, ModelConstants
<1>3. FoundKept /\ ResolvedKept
  BY <1>1 DEF FoundKept, ResolvedKept, Fresh, Idle
<1>4. \A c \in Call : ~ Active(c) /\ ~ calls[c].own
  BY <1>1 DEF Active, Idle
<1>5. objects[Shared].usage = None
  BY <1>1 DEF Fresh
<1>6. OverlapsKnown /\ ObjectsKept
  BY <1>1, <1>4, <1>5 DEF OverlapsKnown, ObjectsKept
<1> QED
  BY <1>2, <1>3, <1>6, TypeInit DEF ModelsInv

\* Every step of the calls and of the server keeps the invariant.
LEMMA ModelsInvNext == ModelConstants /\ ModelsInv /\ [Next]_vars => ModelsInv'
<1> SUFFICES ASSUME ModelConstants, ModelsInv, [Next]_vars PROVE ModelsInv'
  OBVIOUS
<1>0. TypeOK /\ TypeOK'
  BY TypeNext DEF ModelsInv
<1>1. ASSUME NEW c \in Call, NEW asked \in DOMAIN Catalog \cup {"auto", "unknown"}, NEW query, Ask(c, asked, query)
      PROVE  ModelsInv'
  BY <1>0, <1>1, AskKeeps
<1>2. ASSUME NEW c \in Call, NEW b \in BOOLEAN, UseShared(c, b) \/ Complete(c, b) \/ LastChunk(c, b)
      PROVE  ModelsInv'
  BY <1>0, <1>2, UseSharedKeeps, CallSteps
<1>3. ASSUME NEW c \in Call,
             \/ Send(c) \/ NotConfigured(c) \/ List(c) \/ Store(c) \/ Return(c) \/ OpenStream(c) \/ OpenOllama(c)
             \/ Abandon(c) \/ Raise(c) \/ ServiceFails(c) \/ Read(c)
      PROVE  ModelsInv'
  BY <1>0, <1>3, CallSteps
<1>4. ASSUME NEW t \in Tag, Pull(t) PROVE ModelsInv'
  <2>1. Range(installed) \subseteq Range(installed')
    BY <1>0, <1>4, Pulled DEF Pull, TypeOK
  <2> QED
    BY <1>0, <1>4, <2>1, ChangeKeeps DEF Pull
<1>5. ASSUME NEW t \in Tag, RemoveTag(t) PROVE ModelsInv'
  <2>1. PICK i \in DOMAIN installed : installed[i] = t /\ installed' = RemoveAt(installed, i)
    BY <1>5 DEF RemoveTag
  <2>2. Range(installed) \subseteq Range(installed') \cup {t}
    BY <1>0, <2>1, RemovedAt DEF TypeOK
  <2> QED
    BY <1>0, <1>5, <2>2, ChangeKeeps DEF RemoveTag
<1>6. ASSUME Flip PROVE ModelsInv'
  BY <1>0, <1>6, ChangeKeeps DEF Flip
<1>7. CASE UNCHANGED vars
  <2>r. Remembered
    BY <1>7 DEF vars, Remembered
  <2>1. \A d \in Call : CallKept(d)'
    BY <1>0, <1>7, <2>r, CallFrame DEF vars, ModelsInv
  <2>2. ResolvedKept'
    BY <1>7, <2>r, FoundStays DEF vars, ModelsInv, ResolvedKept
  <2> QED
    BY <1>0, <1>7, <2>1, <2>2 DEF vars, ModelsInv, FoundKept, OverlapsKnown, ObjectsKept, Active
<1> QED
  BY <1>1, <1>2, <1>3, <1>4, <1>5, <1>6, <1>7 DEF Next

\* The invariant holds in every reachable state.
LEMMA ModelsInvariant == Spec => []ModelsInv
<1> QED
  BY ModelConstants, ModelsInvInit, ModelsInvNext, PTL DEF Spec

-----------------------------------------------------------------------------
(* What follows from it *)

\* The tokens that a call records are its own or an estimate, but for calls
\* that overlapped on the shared object and completions without usage on it.
THEOREM UsageStaysOwn == Spec => []UsageIsOwn
<1>1. ModelsInv => UsageIsOwn
  <2> SUFFICES ASSUME ModelsInv, NEW c \in Call, NEW row \in Rows(c)
               PROVE  \/ row.usage = None /\ (row.ok => calls[c].silent \/ calls[c].overlap)
                      \/ row.usage = c /\ ~ calls[c].silent
                      \/ ~ calls[c].own /\ (calls[c].overlap \/ (calls[c].silent /\ ~ calls[c].stream))
    BY DEF UsageIsOwn
  <2>1. RowsKept(c)
    BY DEF ModelsInv, CallKept
  <2>2. records[c] # <<>>
    BY DEF Rows, Range
  <2>3. calls[c].pc = "done" /\ ~ calls[c].lost
    BY <2>1, <2>2 DEF RowsKept
  <2>4. PICK r : records[c] = <<r>> /\
                   (\/ r.usage = None /\ (r.ok => calls[c].silent \/ calls[c].overlap)
                    \/ r.usage = c /\ ~ calls[c].silent
                    \/ ~ calls[c].own /\ (calls[c].overlap \/ (calls[c].silent /\ ~ calls[c].stream)))
    BY <2>1, <2>3 DEF RowsKept
  <2>5. row = r
    BY <2>4 DEF Rows, Range
  <2> QED
    BY <2>4, <2>5
<1> QED
  BY <1>1, ModelsInvariant, PTL

\* A call that ends is recorded once, with its outcome and its model, unless
\* the database failed.
THEOREM CallsAreRecorded == Spec => []CallIsRecorded
<1>1. ModelsInv => CallIsRecorded
  <2> SUFFICES ASSUME ModelsInv, NEW c \in Call
               PROVE  /\ Len(records[c]) = IF At(c, "done") /\ ~ calls[c].lost THEN 1 ELSE 0
                      /\ \A row \in Rows(c) :
                           /\ row.ok <=> calls[c].error = None
                           /\ row.ok => row.model = calls[c].sent \/ (calls[c].provider = "ollama" /\ Renamed(c, row.model))
    BY DEF CallIsRecorded
  <2>1. RowsKept(c)
    BY DEF ModelsInv, CallKept
  <2>2. CASE At(c, "done") /\ ~ calls[c].lost
    <3>1. PICK r : /\ records[c] = <<r>> /\ (r.ok <=> calls[c].error = None)
                   /\ r.ok => r.model = calls[c].sent \/ (calls[c].provider = "ollama" /\ Renamed(c, r.model))
      BY <2>1, <2>2 DEF RowsKept, At, Replaced
    <3>2. Len(records[c]) = 1 /\ \A row \in Rows(c) : row = r
      BY <3>1 DEF Rows, Range
    <3> QED
      BY <2>2, <3>1, <3>2
  <2>3. CASE ~ (At(c, "done") /\ ~ calls[c].lost)
    <3>1. records[c] = <<>>
      BY <2>1, <2>3 DEF RowsKept, At
    <3>2. Len(records[c]) = 0 /\ Rows(c) = {}
      BY <3>1 DEF Rows, Range
    <3> QED
      BY <2>3, <3>2
  <2> QED
    BY <2>2, <2>3
<1> QED
  BY <1>1, ModelsInvariant, PTL

\* A routed call reaches a provider that is configured and the model that was
\* asked for, and Ollama misses a model only after it was removed or when the
\* models could not be listed.
THEOREM RoutesStaySound == Spec => []RoutesAreSound
<1>1. ModelsInv => RouteIsServed
  <2> SUFFICES ASSUME ModelsInv, NEW c \in Call, calls[c].own
               PROVE  /\ calls[c].error = "unconfigured" =>
                           calls[c].asked = "auto" /\ (~ conf.routing \/ conf.main \notin conf.keys)
                      /\ calls[c].asked # "auto" => calls[c].sent \in {None, calls[c].asked}
    BY DEF RouteIsServed
  <2>1. RouteKept(c)
    BY DEF ModelsInv, CallKept
  <2> QED
    BY <2>1 DEF RouteKept
<1>2. ModelsInv => MissingIsExplained
  BY Zenon DEF ModelsInv, CallKept, ModelKept, MissingIsExplained
<1>3. ModelsInv => RoutesAreSound
  BY <1>1, <1>2 DEF ModelsInv, RoutesAreSound
<1> QED
  BY <1>3, ModelsInvariant, PTL

=============================================================================
