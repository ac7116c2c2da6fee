---------------------------- MODULE AssetRefs_proofs ----------------------------
(***************************************************************************)
(* Proofs about AssetRefs, for any number of checksums, files, applicants, *)
(* requests and faults.  The collector is safe because of what it may rely *)
(* on between its statements: the row it has deleted is one that nobody    *)
(* else's transaction refers to, and the foreign keys keep it that way     *)
(* until the commit.  It is complete when left alone: what its query finds *)
(* stays an orphan, and each orphan is collected by its savepoint.         *)
(***************************************************************************)
EXTENDS AssetRefs, TLAPS

-------------------------------------------------------------------------------
(* Types *)

UploadPcs == {"check", "put", "register", "reference"}

\* Where a request stands says what it carries.
PhaseOK(t) ==
    /\ t.pc \in UploadPcs =>
          t.gone = {} /\ t.sum \in Sums
          /\ t.kind \in {"create", "replace", "document"}
    /\ t.pc \in {"collect", "purge"} =>
          \/ t.kind = "replace" /\ t.sum \in Sums
          \/ t.kind = "delete" /\ t.sum = NoSum

Phases == \A r \in Requests : PhaseOK(req[r])

LEMMA IdleType == Idle \in RequestStates /\ PhaseOK(Idle) /\ Idle.pc = "idle"
BY DEF Idle, RequestStates, PhaseOK, UploadPcs

\* A step of one request gives that request a new state and no other.
LEMMA ReqUpdate ==
  ASSUME AssetTypeOK, Phases, NEW r \in Requests, NEW t \in RequestStates,
         PhaseOK(t), req' = [req EXCEPT ![r] = t]
  PROVE  /\ req' \in [Requests -> RequestStates]
         /\ Phases'
         /\ req'[r] = t
         /\ \A q \in Requests : q # r => req'[q] = req[q]
<1>1. req \in [Requests -> RequestStates]
  BY DEF AssetTypeOK
<1>2. req'[r] = t /\ \A q \in Requests : q # r => req'[q] = req[q]
  BY <1>1
<1>3. Phases'
  <2>1. ASSUME NEW q \in Requests PROVE PhaseOK(req'[q])
    <3>1. CASE q = r
      BY <1>2, <3>1
    <3>2. CASE q # r
      BY <1>2, <3>2 DEF Phases
    <3> QED BY <3>1, <3>2
  <2> QED BY <2>1 DEF Phases, PhaseOK
<1> QED BY <1>1, <1>2, <1>3

\* What a step of r does to the requests, in the cases that occur.
Becomes(r, t) == req' = [req EXCEPT ![r] = t] /\ t \in RequestStates /\ PhaseOK(t)

LEMMA BecomesTyped ==
  ASSUME AssetTypeOK, Phases, NEW r \in Requests, NEW t, Becomes(r, t)
  PROVE  /\ req' \in [Requests -> RequestStates]
         /\ Phases'
         /\ req'[r] = t
         /\ \A q \in Requests : q # r => req'[q] = req[q]
BY ReqUpdate DEF Becomes

LEMMA GotoBecomes ==
  ASSUME AssetTypeOK, Phases, NEW r \in Requests,
         NEW p \in {"check", "put", "register", "reference", "remove"},
         p \in UploadPcs => req[r].pc \in UploadPcs, Goto(r, p)
  PROVE  Becomes(r, [req[r] EXCEPT !.pc = p])
<1>1. req[r] \in RequestStates /\ PhaseOK(req[r])
  BY DEF AssetTypeOK, Phases
<1> DEFINE t == [req[r] EXCEPT !.pc = p]
<1>2. /\ t \in RequestStates /\ t.pc = p /\ t.kind = req[r].kind
      /\ t.sum = req[r].sum /\ t.gone = req[r].gone
  BY <1>1, SMT DEF RequestStates
<1>3. req' = [req EXCEPT ![r] = t]
  BY DEF Goto
<1> HIDE DEF t
<1>4. PhaseOK(t)
  BY <1>1, <1>2 DEF PhaseOK, UploadPcs
<1> QED BY <1>2, <1>3, <1>4 DEF Becomes, t

LEMMA FinishBecomes ==
  ASSUME NEW r \in Requests, Finish(r) PROVE Becomes(r, Idle)
BY IdleType DEF Finish, Becomes

Collecting(t, p, T, K) == [t EXCEPT !.pc = p, !.todo = T, !.gone = K]

LEMMA ThreeFields ==
  ASSUME NEW t \in RequestStates, NEW p \in {"collect", "purge", "remove"},
         NEW T \in SUBSET Keys, NEW K \in SUBSET Keys
  PROVE  /\ Collecting(t, p, T, K) \in RequestStates
         /\ Collecting(t, p, T, K).pc = p
         /\ Collecting(t, p, T, K).kind = t.kind
         /\ Collecting(t, p, T, K).sum = t.sum
         /\ Collecting(t, p, T, K).slots = t.slots
         /\ Collecting(t, p, T, K).todo = T
         /\ Collecting(t, p, T, K).gone = K
<1> DEFINE v == [t EXCEPT !.pc = p]
<1>2. /\ v \in RequestStates /\ v.pc = p /\ v.kind = t.kind
      /\ v.sum = t.sum /\ v.slots = t.slots
  BY SMT DEF RequestStates
<1> HIDE DEF v
<1> DEFINE w == [v EXCEPT !.todo = T]
<1>3. /\ w \in RequestStates /\ w.pc = v.pc /\ w.kind = v.kind
      /\ w.sum = v.sum /\ w.slots = v.slots /\ w.todo = T
  BY <1>2, SMT DEF RequestStates
<1> HIDE DEF w
<1> DEFINE u == [w EXCEPT !.gone = K]
<1>4. /\ u \in RequestStates /\ u.pc = w.pc /\ u.kind = w.kind
      /\ u.sum = w.sum /\ u.slots = w.slots /\ u.todo = w.todo /\ u.gone = K
  BY <1>3, SMT DEF RequestStates
<1>5. u = Collecting(t, p, T, K)
  BY DEF v, w, Collecting
<1> HIDE DEF u
<1> QED BY <1>2, <1>3, <1>4, <1>5

\* A request goes on in its transaction with other checksums left to collect and
\* perhaps more rows deleted.
LEMMA CollectBecomes ==
  ASSUME AssetTypeOK, Phases, NEW r \in Requests,
         NEW p \in {"collect", "purge", "remove"}, NEW T \in SUBSET Keys,
         NEW K \in SUBSET Keys,
         req' = [req EXCEPT ![r] = Collecting(req[r], p, T, K)],
         \/ p = "remove"
         \/ Open(r)
         \/ req[r].kind = "replace" /\ req[r].sum \in Sums
  PROVE  Becomes(r, Collecting(req[r], p, T, K))
<1>1. req[r] \in RequestStates /\ PhaseOK(req[r])
  BY DEF AssetTypeOK, Phases
<1> DEFINE t == Collecting(req[r], p, T, K)
<1>2. /\ t \in RequestStates /\ t.pc = p /\ t.kind = req[r].kind
      /\ t.sum = req[r].sum
  BY <1>1, ThreeFields
<1> HIDE DEF t
<1>3. PhaseOK(t)
  BY <1>1, <1>2 DEF PhaseOK, UploadPcs, Open
<1> QED BY <1>2, <1>3 DEF Becomes, t

\* The assignments of the transactions in that form.
LEMMA StageForm ==
  ASSUME AssetTypeOK, NEW r \in Requests, NEW p, NEW T,
         req' = [req EXCEPT ![r].pc = p, ![r].todo = T]
  PROVE  req' = [req EXCEPT ![r] = Collecting(req[r], p, T, req[r].gone)]
<1>1. req \in [Requests -> RequestStates] /\ req[r] \in RequestStates
  BY DEF AssetTypeOK
<1>2. [req[r] EXCEPT !.pc = p, !.todo = T] = Collecting(req[r], p, T, req[r].gone)
  BY <1>1 DEF Collecting, RequestStates
<1> QED BY <1>1, <1>2

LEMMA GoneForm ==
  ASSUME AssetTypeOK, NEW r \in Requests, NEW K,
         req' = [req EXCEPT ![r].gone = K]
  PROVE  req' = [req EXCEPT ![r] = Collecting(req[r], req[r].pc, req[r].todo, K)]
<1>1. req \in [Requests -> RequestStates] /\ req[r] \in RequestStates
  BY DEF AssetTypeOK
<1>2. [req[r] EXCEPT !.gone = K] = Collecting(req[r], req[r].pc, req[r].todo, K)
  BY <1>1 DEF Collecting, RequestStates
<1> QED BY <1>1, <1>2

LEMMA TodoForm ==
  ASSUME AssetTypeOK, NEW r \in Requests, NEW T,
         req' = [req EXCEPT ![r].todo = T]
  PROVE  req' = [req EXCEPT ![r] = Collecting(req[r], req[r].pc, T, req[r].gone)]
<1>1. req \in [Requests -> RequestStates] /\ req[r] \in RequestStates
  BY DEF AssetTypeOK
<1>2. [req[r] EXCEPT !.todo = T] = Collecting(req[r], req[r].pc, T, req[r].gone)
  BY <1>1 DEF Collecting, RequestStates
<1> QED BY <1>1, <1>2

\* What the requests become, action by action.
LEMMA StartForm ==
  ASSUME AssetTypeOK, NEW r \in Requests, NEW c \in Sums, NEW s \in Slots,
         NEW kind \in {"create", "replace", "document"},
         StartUpload(r, kind, c, s)
  PROVE  \E t : Becomes(r, t) /\ t.pc \in {"put", "check"}
<1> DEFINE t == [pc |-> IF kind = "document" THEN "put" ELSE "check",
                 kind |-> kind, sum |-> c, slots |-> {s},
                 todo |-> {}, gone |-> {}]
<1>1. req' = [req EXCEPT ![r] = t]
  BY DEF StartUpload
<1>2. t \in RequestStates
  BY DEF RequestStates
<1>3. PhaseOK(t) /\ t.pc \in {"put", "check"}
  BY DEF PhaseOK, UploadPcs
<1> QED BY <1>1, <1>2, <1>3 DEF Becomes

LEMMA BeginDeleteForm ==
  ASSUME AssetTypeOK, NEW r \in Requests, NEW S \in SUBSET Slots, BeginDelete(r, S)
  PROVE  \E t : /\ Becomes(r, t) /\ t.pc = "collect" /\ t.kind = "delete"
                /\ t.sum = NoSum /\ t.gone = {} /\ t.slots \subseteq S
<1> DEFINE touched == {s \in S : live[s] # NoSum}
           t == [pc |-> "collect", kind |-> "delete", sum |-> NoSum,
                 slots |-> touched, todo |-> {}, gone |-> {}]
<1>1. req' = [req EXCEPT ![r] = t]
  BY DEF BeginDelete
<1>2. t \in RequestStates
  BY DEF RequestStates, AssetTypeOK
<1>3. /\ PhaseOK(t) /\ t.pc = "collect" /\ t.kind = "delete" /\ t.sum = NoSum
      /\ t.gone = {} /\ t.slots \subseteq S
  BY DEF PhaseOK, UploadPcs
<1> QED BY <1>1, <1>2, <1>3 DEF Becomes

LEMMA BeginReplaceForm ==
  ASSUME AssetTypeOK, Phases, NEW r \in Requests, BeginReplace(r)
  PROVE  \E t : /\ Becomes(r, t) /\ t.pc = "collect" /\ t.kind = "replace"
                /\ t.sum = req[r].sum /\ t.sum \in Sums /\ t.gone = {}
                /\ t.slots = req[r].slots
<1> DEFINE t == [req[r] EXCEPT !.pc = "collect"]
<1>1. req[r] \in RequestStates /\ PhaseOK(req[r])
  BY DEF AssetTypeOK, Phases
<1>2. req[r].gone = {} /\ req[r].sum \in Sums /\ req[r].kind = "replace"
  BY <1>1 DEF BeginReplace, PhaseOK, UploadPcs
<1>3. /\ t \in RequestStates /\ t.pc = "collect" /\ t.kind = req[r].kind
      /\ t.sum = req[r].sum /\ t.gone = req[r].gone /\ t.slots = req[r].slots
  BY <1>1, SMT DEF RequestStates
<1>4. req' = [req EXCEPT ![r] = t]
  BY DEF BeginReplace, Goto
<1> HIDE DEF t
<1>5. PhaseOK(t)
  BY <1>2, <1>3 DEF PhaseOK, UploadPcs
<1> QED BY <1>2, <1>3, <1>4, <1>5 DEF Becomes

LEMMA CollectOrphansForm ==
  ASSUME AssetTypeOK, Phases, NEW r \in Requests, CollectOrphans(r)
  PROVE  \E t : /\ Becomes(r, t) /\ t.pc = "purge" /\ t.kind = req[r].kind
                /\ t.sum = req[r].sum /\ t.gone = req[r].gone
                /\ t.slots = req[r].slots
<1> DEFINE T == Orphans(r)
           t == Collecting(req[r], "purge", T, req[r].gone)
<1>1. req[r] \in RequestStates
  BY DEF AssetTypeOK
<1>2. req[r].gone \in SUBSET Keys
  BY <1>1 DEF RequestStates
<1>3. T \in SUBSET Keys
  BY DEF Orphans
<1>7. req' = [req EXCEPT ![r].pc = "purge", ![r].todo = T]
  BY DEF CollectOrphans
<1> HIDE DEF T
<1>4. req' = [req EXCEPT ![r] = t]
  BY <1>7, StageForm
<1>5. Becomes(r, t)
  <2>1. Open(r)
    BY DEF CollectOrphans, Open
  <2> QED BY <1>2, <1>3, <1>4, <2>1, CollectBecomes
<1>6. /\ t.pc = "purge" /\ t.kind = req[r].kind /\ t.sum = req[r].sum
      /\ t.slots = req[r].slots /\ t.gone = req[r].gone
  BY <1>1, <1>2, <1>3, ThreeFields
<1> HIDE DEF t
<1> QED BY <1>5, <1>6

\* A row is deleted when its savepoint finds it in place and unreferenced.
LEMMA PurgeForm ==
  ASSUME AssetTypeOK, Phases, NEW r \in Requests, NEW k \in Keys,
         PurgeOrphanedStorageAsset(r, k)
  PROVE  \E t : /\ Becomes(r, t) /\ t.pc = "purge" /\ t.kind = req[r].kind
                /\ t.sum = req[r].sum /\ t.slots = req[r].slots
                /\ \/ t.gone = req[r].gone
                   \/ /\ t.gone = req[r].gone \cup {k}
                      /\ ~MustWait(r, k[1]) /\ asset[k[1]] # "none"
                      /\ ~SeenReferenced(r, k[1])
<1> DEFINE T == req[r].todo \ {k}
           K == req[r].gone \cup {k}
           t == Collecting(req[r], req[r].pc, T, req[r].gone)
           u == Collecting(req[r], req[r].pc, T, K)
<1>1. req[r] \in RequestStates
  BY DEF AssetTypeOK
<1>2. /\ req[r].gone \in SUBSET Keys /\ T \in SUBSET Keys
      /\ req[r].pc = "purge" /\ Open(r)
  BY <1>1 DEF RequestStates, PurgeOrphanedStorageAsset, Open
<1>3. \/ req' = [req EXCEPT ![r].todo = T]
      \/ /\ req' = [req EXCEPT ![r] = [req[r] EXCEPT !.todo = T, !.gone = K]]
         /\ ~MustWait(r, k[1]) /\ asset[k[1]] # "none" /\ ~SeenReferenced(r, k[1])
  <2>1. \/ SkipPurge(r, k)
        \/ /\ Purged(r, k) /\ ~MustWait(r, k[1]) /\ asset[k[1]] # "none"
           /\ ~SeenReferenced(r, k[1])
    BY Zenon DEF PurgeOrphanedStorageAsset
  <2>2. SkipPurge(r, k) => req' = [req EXCEPT ![r].todo = T]
    BY DEF SkipPurge
  <2>3. Purged(r, k) =>
        req' = [req EXCEPT ![r] = [req[r] EXCEPT !.todo = T, !.gone = K]]
    BY Zenon DEF Purged
  <2> QED BY <2>1, <2>2, <2>3, Zenon
<1> HIDE DEF T
<1>4. CASE req' = [req EXCEPT ![r].todo = T]
  <2>1. req' = [req EXCEPT ![r] = t]
    BY <1>4, TodoForm
  <2>2. Becomes(r, t)
    BY <1>2, <2>1, CollectBecomes
  <2>3. /\ t.pc = "purge" /\ t.kind = req[r].kind /\ t.sum = req[r].sum
        /\ t.slots = req[r].slots /\ t.gone = req[r].gone
    BY <1>1, <1>2, ThreeFields
  <2> HIDE DEF t
  <2> QED BY <2>2, <2>3
<1>5. CASE /\ req' = [req EXCEPT ![r] = [req[r] EXCEPT !.todo = T, !.gone = K]]
           /\ ~MustWait(r, k[1]) /\ asset[k[1]] # "none" /\ ~SeenReferenced(r, k[1])
  <2>1. K \in SUBSET Keys
    BY <1>2
  <2> HIDE DEF K
  <2>2. req' = [req EXCEPT ![r] = u]
    <3>1. req' = [req EXCEPT ![r] = [req[r] EXCEPT !.todo = T, !.gone = K]]
      BY <1>5, Zenon
    <3>2. [req[r] EXCEPT !.todo = T, !.gone = K] = u
      BY <1>1 DEF Collecting, RequestStates
    <3> HIDE DEF u
    <3> QED BY <3>1, <3>2
  <2>3. Becomes(r, u)
    BY <1>2, <2>1, <2>2, CollectBecomes
  <2>4. /\ u.pc = "purge" /\ u.kind = req[r].kind /\ u.sum = req[r].sum
        /\ u.slots = req[r].slots /\ u.gone = K
    BY <1>1, <1>2, <2>1, ThreeFields
  <2> HIDE DEF u
  <2> QED BY <1>5, <2>3, <2>4 DEF K
<1> QED BY <1>3, <1>4, <1>5

LEMMA RemoveObjectForm ==
  ASSUME AssetTypeOK, Phases, NEW r \in Requests, NEW k \in Keys, RemoveObject(r, k)
  PROVE  \E t : /\ Becomes(r, t) /\ t.pc = "remove"
                /\ t.gone = req[r].gone \ {k}
<1> DEFINE K == req[r].gone \ {k}
           t == Collecting(req[r], req[r].pc, req[r].todo, K)
<1>1. req[r] \in RequestStates
  BY DEF AssetTypeOK
<1>2. /\ K \in SUBSET Keys /\ req[r].todo \in SUBSET Keys
      /\ req[r].pc = "remove"
  BY <1>1 DEF RequestStates, RemoveObject
<1>7. req' = [req EXCEPT ![r].gone = K]
  BY DEF RemoveObject
<1> HIDE DEF K
<1>3. req' = [req EXCEPT ![r] = t]
  BY <1>7, GoneForm
<1>4. Becomes(r, t)
  BY <1>2, <1>3, CollectBecomes
<1>5. t.pc = "remove" /\ t.gone = K
  BY <1>1, <1>2, ThreeFields
<1> HIDE DEF t
<1> QED BY <1>4, <1>5 DEF K

-------------------------------------------------------------------------------
(* What every step keeps, and the type theorem *)

\* The variables apart from the requests.
RestOK ==
    /\ asset \in [Sums -> Buckets \cup {"none"}]
    /\ objects \subseteq Keys /\ overtaken \subseteq Keys
    /\ live \in [Slots -> Sums \cup {NoSum}]
    /\ active \in [Docs -> SUBSET Sums] /\ past \in [Docs -> SUBSET Sums]
    /\ ops \in 0..MaxOps /\ faults \in 0..MaxFaults
    /\ disturbed \in [Requests -> BOOLEAN]

LEMMA TypeParts == AssetTypeOK <=> RestOK /\ req \in [Requests -> RequestStates]
BY DEF AssetTypeOK, RestOK

LEMMA KeyOfTyped ==
  ASSUME AssetTypeOK, Phases, NEW r \in Requests, req[r].pc \in UploadPcs
  PROVE  /\ req[r].sum \in Sums /\ req[r].gone = {}
         /\ KeyOf(r) = <<req[r].sum, BucketOf(req[r].kind)>> /\ KeyOf(r) \in Keys
         /\ BucketOf(req[r].kind) \in Buckets
BY DEF Phases, PhaseOK, KeyOf, BucketOf, Buckets, Keys

\* Counters and history stay in range.
LEMMA CountersOK ==
  ASSUME RestOK
  PROVE  /\ Operation => ops' \in 0..MaxOps
         /\ Fault => faults' \in 0..MaxFaults
         /\ NoFault => faults' \in 0..MaxFaults
         /\ Disturbs => disturbed' \in [Requests -> BOOLEAN]
         /\ \A r \in Requests : Begins(r) \/ Ends(r)
                                   => disturbed' \in [Requests -> BOOLEAN]
<1>1. Operation => ops' \in 0..MaxOps
  BY AssetConstants DEF RestOK, Operation
<1>2. (Fault => faults' \in 0..MaxFaults) /\ (NoFault => faults' \in 0..MaxFaults)
  BY AssetConstants DEF RestOK, Fault, NoFault
<1>3. Disturbs => disturbed' \in [Requests -> BOOLEAN]
  BY Zenon DEF Disturbs
<1>4. ASSUME NEW r \in Requests, Begins(r)
      PROVE  disturbed' \in [Requests -> BOOLEAN]
  BY <1>4, Zenon DEF Begins
<1>5. ASSUME NEW r \in Requests, Ends(r)
      PROVE  disturbed' \in [Requests -> BOOLEAN]
  BY <1>5 DEF RestOK, Ends
<1> QED BY <1>1, <1>2, <1>3, <1>4, <1>5

LEMMA UploadTypes ==
  ASSUME AssetTypeOK, Phases, NEW r \in Requests, Upload(r)
  PROVE  RestOK' /\ \E t : Becomes(r, t)
<1>1. RestOK
  BY TypeParts
<1>2. ASSUME NEW kind \in {"create", "replace", "document"}, NEW c \in Sums,
             NEW s \in Slots, StartUpload(r, kind, c, s)
      PROVE  RestOK' /\ \E t : Becomes(r, t)
  <2>1. \E t : Becomes(r, t)
    BY <1>2, StartForm
  <2>2. RestOK'
    BY <1>1, <1>2, CountersOK DEF RestOK, StartUpload, UploadRest, vars
  <2> QED BY <2>1, <2>2
<1>3. CASE CheckAsset(r)
  <2>1. \E p \in {"put", "reference"} : Goto(r, p)
    BY <1>3 DEF CheckAsset
  <2>2. \E t : Becomes(r, t)
    BY <1>3, <2>1, GotoBecomes DEF CheckAsset, UploadPcs
  <2>3. RestOK'
    BY <1>1, <1>3, CountersOK DEF RestOK, CheckAsset, UploadRest
  <2> QED BY <2>2, <2>3
<1>4. CASE PutObject(r)
  <2>1. \E t : Becomes(r, t)
    BY <1>4, GotoBecomes DEF PutObject, UploadPcs
  <2>2. KeyOf(r) \in Keys
    BY <1>4, KeyOfTyped DEF PutObject, UploadPcs
  <2>3. RestOK'
    BY <1>1, <1>4, <2>2, CountersOK DEF RestOK, PutObject, UploadRest
  <2> QED BY <2>1, <2>3
<1>5. CASE RegisterAsset(r)
  <2>1. \E t : Becomes(r, t)
    BY <1>5, GotoBecomes DEF RegisterAsset, UploadPcs
  <2>2. KeyOf(r) \in Keys /\ req[r].sum \in Sums /\ BucketOf(req[r].kind) \in Buckets
    BY <1>5, KeyOfTyped DEF RegisterAsset, UploadPcs
  <2>3. asset' \in [Sums -> Buckets \cup {"none"}] /\ overtaken' \subseteq Keys
    BY <1>1, <1>5, <2>2 DEF RestOK, RegisterAsset, Registered
  <2>4. RestOK'
    BY <1>1, <1>5, <2>3, CountersOK DEF RestOK, RegisterAsset, UploadRest
  <2> QED BY <2>1, <2>4
<1>6. CASE CreateAssetRef(r)
  <2>1. \E t : Becomes(r, t)
    BY <1>6, FinishBecomes DEF CreateAssetRef
  <2>2. req[r].sum \in Sums
    BY <1>6, KeyOfTyped DEF CreateAssetRef, UploadPcs
  <2>3. live' \in [Slots -> Sums \cup {NoSum}]
    BY <1>1, <1>6, <2>2 DEF RestOK, CreateAssetRef
  <2>4. RestOK'
    BY <1>1, <1>6, <2>3, CountersOK DEF RestOK, CreateAssetRef
  <2> QED BY <2>1, <2>4
<1>7. CASE AbandonUpload(r)
  <2>1. \E t : Becomes(r, t)
    BY <1>7, FinishBecomes DEF AbandonUpload
  <2>2. RestOK'
    BY <1>1, <1>7, CountersOK DEF RestOK, AbandonUpload, UploadRest
  <2> QED BY <2>1, <2>2
<1> QED BY <1>2, <1>3, <1>4, <1>5, <1>6, <1>7 DEF Upload

LEMMA PostSlots ==
  /\ \A b \in Blogs : {b} \X Files \in SUBSET Slots
  /\ \A s \in Posts : {s} \in SUBSET Slots
BY DEF Slots, Posts

LEMMA TransactionTypes ==
  ASSUME AssetTypeOK, Phases, NEW r \in Requests, Transaction(r)
  PROVE  RestOK' /\ \E t : Becomes(r, t)
<1>1. RestOK
  BY TypeParts
<1>2. CASE BeginReplace(r)
  <2>1. \E t : Becomes(r, t)
    BY <1>2, BeginReplaceForm
  <2>2. RestOK'
    BY <1>1, <1>2, CountersOK DEF RestOK, BeginReplace, TxRest
  <2> QED BY <2>1, <2>2
<1>3. ASSUME NEW S \in SUBSET Slots, BeginDelete(r, S)
      PROVE  RestOK' /\ \E t : Becomes(r, t)
  <2>1. \E t : Becomes(r, t)
    BY <1>3, BeginDeleteForm
  <2>2. RestOK'
    BY <1>1, <1>3, CountersOK DEF RestOK, BeginDelete, TxRest
  <2> QED BY <2>1, <2>2
<1>4. CASE CollectOrphans(r)
  <2>1. \E t : Becomes(r, t)
    BY <1>4, CollectOrphansForm
  <2>2. RestOK'
    BY <1>1, <1>4, CountersOK DEF RestOK, CollectOrphans, TxRest
  <2> QED BY <2>1, <2>2
<1>5. ASSUME NEW k \in Keys, PurgeOrphanedStorageAsset(r, k)
      PROVE  RestOK' /\ \E t : Becomes(r, t)
  <2>1. \E t : Becomes(r, t)
    BY <1>5, PurgeForm
  <2>2. RestOK'
    BY <1>1, <1>5, CountersOK DEF RestOK, PurgeOrphanedStorageAsset, TxRest
  <2> QED BY <2>1, <2>2
<1>6. CASE Commit(r)
  <2>1. \E t : Becomes(r, t)
    BY <1>6, FinishBecomes, GotoBecomes DEF Commit, UploadPcs
  <2>2. req[r].sum \in Sums \cup {NoSum}
    BY DEF AssetTypeOK, RequestStates
  <2>3. /\ asset' \in [Sums -> Buckets \cup {"none"}]
        /\ live' \in [Slots -> Sums \cup {NoSum}]
    BY <1>1, <1>6, <2>2 DEF RestOK, Commit
  <2>4. RestOK'
    BY <1>1, <1>6, <2>3, CountersOK DEF RestOK, Commit, TxRest
  <2> QED BY <2>1, <2>4
<1>7. CASE Crash(r)
  <2>1. \E t : Becomes(r, t)
    BY <1>7, FinishBecomes DEF Crash
  <2>2. RestOK'
    BY <1>1, <1>7, CountersOK DEF RestOK, Crash, database
  <2> QED BY <2>1, <2>2
<1>8. CASE \E b \in Blogs : BeginDelete(r, {b} \X Files)
  BY <1>3, <1>8, PostSlots
<1>9. CASE \E s \in Posts : BeginDelete(r, {s})
  BY <1>3, <1>9, PostSlots
<1> QED BY <1>2, <1>4, <1>5, <1>6, <1>7, <1>8, <1>9 DEF Transaction

LEMMA RemovalTypes ==
  ASSUME AssetTypeOK, Phases, NEW r \in Requests, Removal(r)
  PROVE  RestOK' /\ \E t : Becomes(r, t)
<1>1. RestOK
  BY TypeParts
<1>2. CASE RemovedAll(r)
  <2>1. \E t : Becomes(r, t)
    BY <1>2, FinishBecomes DEF RemovedAll
  <2>2. RestOK'
    BY <1>1, <1>2, CountersOK DEF RestOK, RemovedAll, database
  <2> QED BY <2>1, <2>2
<1>3. ASSUME NEW k \in Keys, RemoveObject(r, k)
      PROVE  RestOK' /\ \E t : Becomes(r, t)
  <2>1. \E t : Becomes(r, t)
    BY <1>3, RemoveObjectForm
  <2>2. objects' \subseteq Keys /\ overtaken' \subseteq Keys
    BY <1>1, <1>3 DEF RestOK, RemoveObject
  <2>3. RestOK'
    BY <1>1, <1>3, <2>2, CountersOK DEF RestOK, RemoveObject, database
  <2> QED BY <2>1, <2>3
<1> QED BY <1>2, <1>3 DEF Removal

LEMMA VerifyTypes ==
  ASSUME AssetTypeOK, Phases, NEW d \in Docs, Verify(d)
  PROVE  RestOK' /\ req' = req
<1>1. RestOK
  BY TypeParts
<1>2. ASSUME NEW C \in SUBSET Sums, SubmitVerificationRequest(d, C)
      PROVE  RestOK' /\ req' = req
  BY <1>1, <1>2, CountersOK DEF RestOK, SubmitVerificationRequest, VerificationRest
<1>3. CASE CancelVerificationRequest(d)
  BY <1>1, <1>3, CountersOK DEF RestOK, CancelVerificationRequest, VerificationRest
<1>4. CASE ReviewVerificationRequest(d)
  BY <1>1, <1>4, CountersOK DEF RestOK, ReviewVerificationRequest, VerificationRest
<1>5. CASE DeleteAccount(d)
  BY <1>1, <1>5, CountersOK DEF RestOK, DeleteAccount, VerificationRest
<1> QED BY <1>2, <1>3, <1>4, <1>5 DEF Verify

LEMMA TypeInit == Init => AssetTypeOK /\ Phases
BY AssetConstants, IdleType DEF Init, AssetTypeOK, Phases

LEMMA TypeStep == AssetTypeOK /\ Phases /\ [Next]_vars => (AssetTypeOK /\ Phases)'
<1> SUFFICES ASSUME AssetTypeOK, Phases, [Next]_vars
             PROVE  (AssetTypeOK /\ Phases)'
  OBVIOUS
<1>1. ASSUME NEW r \in Requests, RestOK' /\ \E t : Becomes(r, t)
      PROVE  (AssetTypeOK /\ Phases)'
  BY <1>1, BecomesTyped DEF AssetTypeOK, RestOK
<1>2. ASSUME NEW r \in Requests, Upload(r) \/ Transaction(r) \/ Removal(r)
      PROVE  (AssetTypeOK /\ Phases)'
  BY <1>1, <1>2, UploadTypes, TransactionTypes, RemovalTypes
<1>3. ASSUME NEW d \in Docs, Verify(d)
      PROVE  (AssetTypeOK /\ Phases)'
  BY <1>3, VerifyTypes DEF AssetTypeOK, RestOK, Phases, PhaseOK
<1>4. CASE UNCHANGED vars
  BY <1>4 DEF vars, database, AssetTypeOK, Phases, PhaseOK
<1> QED BY <1>2, <1>3, <1>4 DEF Next

\* Every variable holds a value of its kind, for every value of the constants.
THEOREM TypeCorrect == Spec => []AssetTypeOK
<1>1. Init => AssetTypeOK /\ Phases
  BY TypeInit
<1>2. AssetTypeOK /\ Phases /\ [Next]_vars => (AssetTypeOK /\ Phases)'
  BY TypeStep
<1> QED BY <1>1, <1>2, PTL DEF Spec

-------------------------------------------------------------------------------
(* No reference is left without its asset *)

\* A row deleted by an open transaction is referred to by nobody that could
\* commit: not by what is committed, not by an open replacement.
GoneUnreferenced ==
    \A r \in Requests : Open(r) =>
       \A k \in req[r].gone :
          /\ ~SeenReferenced(r, k[1])
          /\ \A q \in Requests \ {r} : ~BeingReferencedBy(q, k[1])

\* The row a replacement refers to is there to stay.
ReplacementHasAsset ==
    \A r \in Requests :
       Open(r) /\ req[r].kind = "replace" => asset[req[r].sum] # "none"

\* No two open transactions touch one slot.
SlotsApart ==
    \A r \in Requests : \A q \in Requests \ {r} :
       Open(r) /\ Open(q) => req[r].slots \cap req[q].slots = {}

RowInv == /\ ReferencedHasAsset /\ GoneUnreferenced
          /\ ReplacementHasAsset /\ SlotsApart

\* Steps that add no reference, drop no asset and open no transaction.
LEMMA Calm ==
  ASSUME AssetTypeOK, Phases, RowInv,
         \A c \in Sums : asset[c] # "none" => asset'[c] # "none",
         live' = live, \A c \in Sums : Pointed(c)' => Pointed(c),
         \A q \in Requests : Open(q)' =>
            /\ Open(q)
            /\ req'[q].kind = req[q].kind /\ req'[q].sum = req[q].sum
            /\ req'[q].slots = req[q].slots /\ req'[q].gone = req[q].gone
  PROVE  RowInv'
<1>1. \A r \in Requests : \A k \in req[r].gone : k \in Keys /\ k[1] \in Sums
  BY DEF AssetTypeOK, RequestStates, Keys
<1>3. ReferencedHasAsset'
  BY DEF RowInv, ReferencedHasAsset, Referenced
<1>4. GoneUnreferenced'
  <2> SUFFICES ASSUME NEW r \in Requests, Open(r)', NEW k \in req'[r].gone
               PROVE  /\ ~SeenReferenced(r, k[1])'
                      /\ \A q \in Requests \ {r} : ~BeingReferencedBy(q, k[1])'
    BY DEF GoneUnreferenced
  <2>1. Open(r) /\ k \in req[r].gone /\ k[1] \in Sums
    BY <1>1
  <2>2. ~SeenReferenced(r, k[1])
    BY <2>1 DEF RowInv, GoneUnreferenced
  <2>3. ~SeenReferenced(r, k[1])'
    BY <2>1, <2>2 DEF SeenReferenced
  <2>4. ASSUME NEW q \in Requests \ {r} PROVE ~BeingReferencedBy(q, k[1])'
    <3>1. ~BeingReferencedBy(q, k[1])
      BY <2>1 DEF RowInv, GoneUnreferenced
    <3> QED BY <3>1 DEF BeingReferencedBy
  <2> QED BY <2>3, <2>4
<1>5. ReplacementHasAsset'
  <2> SUFFICES ASSUME NEW r \in Requests, Open(r)', req'[r].kind = "replace"
               PROVE  asset'[req'[r].sum] # "none"
    BY DEF ReplacementHasAsset
  <2>1. Open(r) /\ req[r].kind = "replace" /\ req'[r].sum = req[r].sum
    OBVIOUS
  <2>2. req[r].sum \in Sums
    BY <2>1 DEF Phases, PhaseOK, Open
  <2> QED BY <2>1, <2>2 DEF RowInv, ReplacementHasAsset
<1>6. SlotsApart'
  BY DEF RowInv, SlotsApart
<1> QED BY <1>3, <1>4, <1>5, <1>6 DEF RowInv

\* A request that only moves on, outside a transaction or within it, and adds no
\* reference.
LEMMA CalmMove ==
  ASSUME AssetTypeOK, Phases, RowInv, NEW r \in Requests, NEW t, Becomes(r, t),
         \/ t.pc \notin {"collect", "purge"}
         \/ /\ Open(r)
            /\ t.kind = req[r].kind /\ t.sum = req[r].sum
            /\ t.slots = req[r].slots /\ t.gone = req[r].gone,
         \A c \in Sums : asset[c] # "none" => asset'[c] # "none",
         live' = live, active' = active, past' = past
  PROVE  RowInv'
<1>1. /\ req'[r] = t
      /\ \A q \in Requests : q # r => req'[q] = req[q]
  BY BecomesTyped
<1>2. \A q \in Requests : Open(q)' =>
            /\ Open(q)
            /\ req'[q].kind = req[q].kind /\ req'[q].sum = req[q].sum
            /\ req'[q].slots = req[q].slots /\ req'[q].gone = req[q].gone
  BY <1>1 DEF Open
<1>3. \A c \in Sums : Pointed(c)' => Pointed(c)
  BY DEF Pointed
<1> QED BY <1>2, <1>3, Calm

LEMMA UploadRows ==
  ASSUME AssetTypeOK, Phases, RowInv, NEW r \in Requests, Upload(r)
  PROVE  RowInv'
<1>1. ASSUME NEW kind \in {"create", "replace", "document"}, NEW c \in Sums,
             NEW s \in Slots, StartUpload(r, kind, c, s)
      PROVE  RowInv'
  <2>1. PICK t : Becomes(r, t) /\ t.pc \in {"put", "check"}
    BY <1>1, StartForm
  <2> QED BY <1>1, <2>1, CalmMove DEF StartUpload, UploadRest
<1>2. CASE CheckAsset(r)
  <2>1. PICK p \in {"put", "reference"} : Goto(r, p)
    BY <1>2 DEF CheckAsset
  <2>2. Becomes(r, [req[r] EXCEPT !.pc = p])
    BY <1>2, <2>1, GotoBecomes DEF CheckAsset, UploadPcs
  <2>3. [req[r] EXCEPT !.pc = p].pc \notin {"collect", "purge"}
    BY DEF AssetTypeOK, RequestStates
  <2> QED BY <1>2, <2>2, <2>3, CalmMove DEF CheckAsset, UploadRest
<1>3. CASE PutObject(r)
  <2>1. Becomes(r, [req[r] EXCEPT !.pc = "register"])
    BY <1>3, GotoBecomes DEF PutObject, UploadPcs
  <2>2. [req[r] EXCEPT !.pc = "register"].pc \notin {"collect", "purge"}
    BY DEF AssetTypeOK, RequestStates
  <2> QED BY <1>3, <2>1, <2>2, CalmMove DEF PutObject, UploadRest
<1>4. CASE RegisterAsset(r)
  <2>1. Becomes(r, [req[r] EXCEPT !.pc = "reference"])
    BY <1>4, GotoBecomes DEF RegisterAsset, UploadPcs
  <2>2. [req[r] EXCEPT !.pc = "reference"].pc \notin {"collect", "purge"}
    BY DEF AssetTypeOK, RequestStates
  <2>3. \A c \in Sums : asset[c] # "none" => asset'[c] # "none"
    BY <1>4 DEF RegisterAsset, Registered, AssetTypeOK
  <2> QED BY <1>4, <2>1, <2>2, <2>3, CalmMove DEF RegisterAsset, UploadRest
<1>5. CASE CreateAssetRef(r)
  <2> DEFINE c == req[r].sum
  <2>1. c \in Sums /\ ~Open(r) /\ ~BeingDeleted(c)
    BY <1>5, KeyOfTyped DEF CreateAssetRef, UploadPcs, Open
  <2>2. /\ req'[r] = Idle
        /\ \A q \in Requests : q # r => req'[q] = req[q]
    BY <1>5, FinishBecomes, BecomesTyped DEF CreateAssetRef
  <2>3. \A q \in Requests : Open(q)' => q # r /\ Open(q) /\ req'[q] = req[q]
    BY <2>2, IdleType DEF Open
  <2>4. /\ asset' = asset
        /\ \A d \in Sums : Pointed(d)' <=> Pointed(d)
        /\ \A s \in Slots : live'[s] = live[s] \/ (live'[s] = c /\ asset[c] # "none")
    BY <1>5 DEF CreateAssetRef, AssetTypeOK, Pointed
  <2>5. ReferencedHasAsset'
    BY <2>4 DEF RowInv, ReferencedHasAsset, Referenced
  <2>6. GoneUnreferenced'
    <3> SUFFICES ASSUME NEW q \in Requests, Open(q)', NEW k \in req'[q].gone
                 PROVE  /\ ~SeenReferenced(q, k[1])'
                        /\ \A p \in Requests \ {q} : ~BeingReferencedBy(p, k[1])'
      BY DEF GoneUnreferenced
    <3>1. /\ Open(q) /\ req'[q] = req[q] /\ k \in req[q].gone /\ k[1] \in Sums
          /\ ~SeenReferenced(q, k[1])
      BY <2>3 DEF AssetTypeOK, RequestStates, Keys, RowInv, GoneUnreferenced
    <3>2. k[1] # c
      BY <2>1, <3>1 DEF BeingDeleted
    <3>3. ~SeenReferenced(q, k[1])'
      BY <2>4, <3>1, <3>2 DEF SeenReferenced
    <3>4. ASSUME NEW p \in Requests \ {q} PROVE ~BeingReferencedBy(p, k[1])'
      <4>1. ~BeingReferencedBy(p, k[1])
        BY <3>1 DEF RowInv, GoneUnreferenced
      <4> QED BY <2>3, <4>1 DEF BeingReferencedBy
    <3> QED BY <3>3, <3>4
  <2>7. ReplacementHasAsset'
    BY <2>3, <2>4 DEF RowInv, ReplacementHasAsset
  <2>8. SlotsApart'
    BY <2>3 DEF RowInv, SlotsApart
  <2> QED BY <2>5, <2>6, <2>7, <2>8 DEF RowInv
<1>6. CASE AbandonUpload(r)
  BY <1>6, FinishBecomes, IdleType, CalmMove DEF AbandonUpload, UploadRest
<1> QED BY <1>1, <1>2, <1>3, <1>4, <1>5, <1>6 DEF Upload

\* A transaction that begins with nothing deleted yet.
LEMMA Opens ==
  ASSUME AssetTypeOK, Phases, RowInv, NEW r \in Requests, NEW t, Becomes(r, t),
         ~Open(r), t.gone = {},
         t.kind = "replace" => /\ t.sum \in Sums /\ asset[t.sum] # "none"
                               /\ ~BeingDeleted(t.sum),
         \A s \in t.slots : ~SlotLocked(s),
         asset' = asset, live' = live, active' = active, past' = past
  PROVE  RowInv'
<1>1. req'[r] = t /\ \A q \in Requests : q # r => req'[q] = req[q]
  BY BecomesTyped
<1>2. \A q \in Requests : q # r => (Open(q)' <=> Open(q))
  BY <1>1 DEF Open
<1>3. ReferencedHasAsset'
  BY DEF RowInv, ReferencedHasAsset, Referenced, Pointed
<1>4. GoneUnreferenced'
  <2> SUFFICES ASSUME NEW q \in Requests, Open(q)', NEW k \in req'[q].gone
               PROVE  /\ ~SeenReferenced(q, k[1])'
                      /\ \A p \in Requests \ {q} : ~BeingReferencedBy(p, k[1])'
    BY DEF GoneUnreferenced
  <2>1. /\ q # r /\ Open(q) /\ req'[q] = req[q] /\ k \in req[q].gone
        /\ k[1] \in Sums /\ ~SeenReferenced(q, k[1])
    BY <1>1, <1>2 DEF AssetTypeOK, RequestStates, Keys, RowInv, GoneUnreferenced
  <2>2. ~SeenReferenced(q, k[1])'
    BY <2>1 DEF SeenReferenced, Pointed
  <2>3. ASSUME NEW p \in Requests \ {q} PROVE ~BeingReferencedBy(p, k[1])'
    <3>1. ~BeingReferencedBy(p, k[1])
      BY <2>1 DEF RowInv, GoneUnreferenced
    <3>2. CASE p = r
      BY <1>1, <2>1, <3>2 DEF BeingReferencedBy, BeingDeleted
    <3>3. CASE p # r
      BY <1>1, <1>2, <3>1, <3>3 DEF BeingReferencedBy
    <3> QED BY <3>2, <3>3
  <2> QED BY <2>2, <2>3
<1>5. ReplacementHasAsset'
  BY <1>1, <1>2 DEF RowInv, ReplacementHasAsset
<1>6. SlotsApart'
  <2> SUFFICES ASSUME NEW p \in Requests, NEW q \in Requests \ {p},
                      Open(p)', Open(q)'
               PROVE  req'[p].slots \cap req'[q].slots = {}
    BY DEF SlotsApart
  <2>1. \A s \in t.slots : \A o \in Requests : Open(o) => s \notin req[o].slots
    BY DEF SlotLocked
  <2>2. CASE p = r
    BY <1>1, <1>2, <2>1, <2>2
  <2>3. CASE q = r
    BY <1>1, <1>2, <2>1, <2>3
  <2>4. CASE p # r /\ q # r
    BY <1>1, <1>2, <2>4 DEF RowInv, SlotsApart
  <2> QED BY <2>2, <2>3, <2>4
<1> QED BY <1>3, <1>4, <1>5, <1>6 DEF RowInv

\* The savepoint deletes a row that nobody refers to.
LEMMA PurgeRows ==
  ASSUME AssetTypeOK, Phases, RowInv, NEW r \in Requests, NEW e \in Keys,
         PurgeOrphanedStorageAsset(r, e)
  PROVE  RowInv'
<1>1. PICK t : /\ Becomes(r, t) /\ t.pc = "purge" /\ t.kind = req[r].kind
               /\ t.sum = req[r].sum /\ t.slots = req[r].slots
               /\ \/ t.gone = req[r].gone
                  \/ /\ t.gone = req[r].gone \cup {e}
                     /\ ~MustWait(r, e[1]) /\ asset[e[1]] # "none"
                     /\ ~SeenReferenced(r, e[1])
  BY PurgeForm
<1>2. Open(r) /\ asset' = asset /\ live' = live /\ active' = active /\ past' = past
  BY DEF PurgeOrphanedStorageAsset, Open, TxRest
<1>3. CASE t.gone = req[r].gone
  BY <1>1, <1>2, <1>3, CalmMove
<1>4. CASE /\ t.gone = req[r].gone \cup {e}
           /\ ~MustWait(r, e[1]) /\ asset[e[1]] # "none" /\ ~SeenReferenced(r, e[1])
  <2>1. req'[r] = t /\ \A q \in Requests : q # r => req'[q] = req[q]
    BY <1>1, BecomesTyped
  <2>2. \A q \in Requests : /\ Open(q)' <=> Open(q)
                            /\ req'[q].kind = req[q].kind
                            /\ req'[q].sum = req[q].sum
                            /\ req'[q].slots = req[q].slots
    BY <1>1, <1>2, <2>1 DEF Open
  <2>3. \A q \in Requests, k \in Keys :
           /\ SeenReferenced(q, k[1])' <=> SeenReferenced(q, k[1])
           /\ BeingReferencedBy(q, k[1])' <=> BeingReferencedBy(q, k[1])
    BY <1>2, <2>2 DEF SeenReferenced, BeingReferencedBy, Pointed
  <2>4. \A q \in Requests \ {r} : ~BeingReferencedBy(q, e[1])
    BY <1>4 DEF MustWait, Holds
  <2>5. GoneUnreferenced'
    <3> SUFFICES ASSUME NEW q \in Requests, Open(q)', NEW k \in req'[q].gone
                 PROVE  /\ ~SeenReferenced(q, k[1])'
                        /\ \A p \in Requests \ {q} : ~BeingReferencedBy(p, k[1])'
      BY DEF GoneUnreferenced
    <3>1. k \in Keys /\ Open(q)
      BY <1>1, <2>1, <2>2, BecomesTyped DEF RequestStates, AssetTypeOK
    <3>2. CASE k \in req[q].gone
      BY <2>3, <3>1, <3>2 DEF RowInv, GoneUnreferenced
    <3>3. CASE k \notin req[q].gone
      <4>1. q = r /\ k[1] = e[1]
        BY <1>4, <2>1, <3>3
      <4> QED BY <1>4, <2>3, <2>4, <3>1, <4>1
    <3> QED BY <3>2, <3>3
  <2>6. ReferencedHasAsset'
    BY <1>2 DEF RowInv, ReferencedHasAsset, Referenced, Pointed
  <2>7. ReplacementHasAsset'
    BY <1>2, <2>2 DEF RowInv, ReplacementHasAsset
  <2>8. SlotsApart'
    BY <2>2 DEF RowInv, SlotsApart
  <2> QED BY <2>5, <2>6, <2>7, <2>8 DEF RowInv
<1> QED BY <1>1, <1>3, <1>4

\* The commit: what was marked is unreferenced, what was deleted is gone, and
\* neither is anybody else's.
LEMMA CommitRows ==
  ASSUME AssetTypeOK, Phases, RowInv, NEW r \in Requests, Commit(r)
  PROVE  RowInv'
<1>1. Open(r) /\ PhaseOK(req[r]) /\ req[r] \in RequestStates
  BY DEF Commit, Open, Phases, AssetTypeOK
<1>2. \/ req[r].kind = "replace" /\ req[r].sum \in Sums
      \/ req[r].kind = "delete" /\ req[r].sum = NoSum /\ NoSum \notin Sums
  BY <1>1, AssetConstants DEF PhaseOK, Open
<1>3. \E t : Becomes(r, t) /\ t.pc \in {"idle", "remove"}
  <2>1. CASE req[r].kind = "delete"
    <3>1. Becomes(r, [req[r] EXCEPT !.pc = "remove"])
      BY <2>1, GotoBecomes DEF Commit, UploadPcs
    <3>2. [req[r] EXCEPT !.pc = "remove"].pc = "remove"
      BY <1>1 DEF RequestStates
    <3> QED BY <3>1, <3>2
  <2>2. CASE req[r].kind # "delete"
    BY <2>2, FinishBecomes, IdleType DEF Commit
  <2> QED BY <2>1, <2>2
<1>4. /\ ~Open(r)'
      /\ \A q \in Requests : q # r => req'[q] = req[q] /\ (Open(q)' <=> Open(q))
  BY <1>3, BecomesTyped DEF Open
<1>5. /\ \A c \in Sums : asset'[c] =
            IF \E k \in req[r].gone : k[1] = c THEN "none" ELSE asset[c]
      /\ \A s \in Slots : live'[s] =
            IF s \in req[r].slots THEN req[r].sum ELSE live[s]
      /\ active' = active /\ past' = past
  BY DEF Commit, TxRest
<1>6. ASSUME NEW c \in Sums, SeenReferenced(r, c)
      PROVE  asset[c] # "none" => asset'[c] # "none"
  BY <1>1, <1>5, <1>6 DEF RowInv, GoneUnreferenced
<1>7. ReferencedHasAsset'
  <2> SUFFICES ASSUME NEW c \in Sums, Referenced(c)' PROVE asset'[c] # "none"
    BY DEF ReferencedHasAsset
  <2>1. CASE Pointed(c)'
    <3>1. Pointed(c)
      BY <1>5, <2>1 DEF Pointed
    <3> QED BY <1>6, <3>1 DEF SeenReferenced, RowInv, ReferencedHasAsset, Referenced
  <2>2. ASSUME NEW s \in Slots, live'[s] = c PROVE asset'[c] # "none"
    <3>1. CASE s \in req[r].slots
      <4>1. c = req[r].sum /\ req[r].kind = "replace"
        BY <1>2, <1>5, <2>2, <3>1
      <4> QED BY <1>1, <1>6, <4>1 DEF SeenReferenced, RowInv, ReplacementHasAsset
    <3>2. CASE s \notin req[r].slots
      <4>1. live[s] = c
        BY <1>5, <2>2, <3>2
      <4> QED BY <1>6, <3>2, <4>1
              DEF SeenReferenced, RowInv, ReferencedHasAsset, Referenced
    <3> QED BY <3>1, <3>2
  <2> QED BY <2>1, <2>2 DEF Referenced
<1>8. GoneUnreferenced'
  <2> SUFFICES ASSUME NEW q \in Requests, Open(q)', NEW k \in req'[q].gone
               PROVE  /\ ~SeenReferenced(q, k[1])'
                      /\ \A p \in Requests \ {q} : ~BeingReferencedBy(p, k[1])'
    BY DEF GoneUnreferenced
  <2>1. /\ q # r /\ Open(q) /\ req'[q] = req[q] /\ k \in req[q].gone
        /\ k[1] \in Sums /\ ~SeenReferenced(q, k[1])
        /\ \A p \in Requests \ {q} : ~BeingReferencedBy(p, k[1])
    BY <1>4 DEF AssetTypeOK, RequestStates, Keys, RowInv, GoneUnreferenced
  <2>2. k[1] # req[r].sum
    BY <1>1, <1>2, <2>1 DEF BeingReferencedBy
  <2>3. ~SeenReferenced(q, k[1])'
    BY <1>5, <2>1, <2>2 DEF SeenReferenced, Pointed
  <2>4. ASSUME NEW p \in Requests \ {q} PROVE ~BeingReferencedBy(p, k[1])'
    <3>1. CASE p = r
      BY <1>4, <3>1 DEF BeingReferencedBy
    <3>2. CASE p # r
      BY <1>4, <2>1, <3>2 DEF BeingReferencedBy
    <3> QED BY <3>1, <3>2
  <2> QED BY <2>3, <2>4
<1>9. ReplacementHasAsset'
  <2> SUFFICES ASSUME NEW q \in Requests, Open(q)', req'[q].kind = "replace"
               PROVE  asset'[req'[q].sum] # "none"
    BY DEF ReplacementHasAsset
  <2>1. q # r /\ Open(q) /\ req'[q] = req[q] /\ req[q].kind = "replace"
    BY <1>4
  <2>2. req[q].sum \in Sums /\ asset[req[q].sum] # "none"
    BY <2>1 DEF Phases, PhaseOK, Open, RowInv, ReplacementHasAsset
  <2>3. ~\E k \in req[r].gone : k[1] = req[q].sum
    BY <1>1, <2>1 DEF RowInv, GoneUnreferenced, BeingReferencedBy
  <2> QED BY <1>5, <2>1, <2>2, <2>3
<1>10. SlotsApart'
  BY <1>4 DEF RowInv, SlotsApart
<1> QED BY <1>7, <1>8, <1>9, <1>10 DEF RowInv

LEMMA TransactionRows ==
  ASSUME AssetTypeOK, Phases, RowInv, NEW r \in Requests, Transaction(r)
  PROVE  RowInv'
<1>1. CASE BeginReplace(r)
  <2>1. PICK t : /\ Becomes(r, t) /\ t.pc = "collect" /\ t.kind = "replace"
                 /\ t.sum = req[r].sum /\ t.sum \in Sums /\ t.gone = {}
                 /\ t.slots = req[r].slots
    BY <1>1, BeginReplaceForm
  <2> QED BY <1>1, <2>1, Opens DEF BeginReplace, TxRest, Open
<1>2. ASSUME NEW S \in SUBSET Slots, BeginDelete(r, S) PROVE RowInv'
  <2>1. PICK t : /\ Becomes(r, t) /\ t.pc = "collect" /\ t.kind = "delete"
                 /\ t.sum = NoSum /\ t.gone = {} /\ t.slots \subseteq S
    BY <1>2, BeginDeleteForm
  <2>2. ~Open(r)
    BY <1>2, IdleType DEF BeginDelete, Open
  <2> QED BY <1>2, <2>1, <2>2, Opens DEF BeginDelete, TxRest
<1>3. CASE CollectOrphans(r)
  <2>1. PICK t : /\ Becomes(r, t) /\ t.pc = "purge" /\ t.kind = req[r].kind
                 /\ t.sum = req[r].sum /\ t.gone = req[r].gone
                 /\ t.slots = req[r].slots
    BY <1>3, CollectOrphansForm
  <2> QED BY <1>3, <2>1, CalmMove DEF CollectOrphans, TxRest, Open
<1>4. CASE Crash(r)
  BY <1>4, FinishBecomes, IdleType, CalmMove DEF Crash, database
<1>5. CASE \E b \in Blogs : BeginDelete(r, {b} \X Files)
  BY <1>2, <1>5, PostSlots
<1>6. CASE \E s \in Posts : BeginDelete(r, {s})
  BY <1>2, <1>6, PostSlots
<1> QED BY <1>1, <1>3, <1>4, <1>5, <1>6, PurgeRows, CommitRows DEF Transaction

LEMMA RemovalRows ==
  ASSUME AssetTypeOK, Phases, RowInv, NEW r \in Requests, Removal(r)
  PROVE  RowInv'
<1>1. CASE RemovedAll(r)
  BY <1>1, FinishBecomes, IdleType, CalmMove DEF RemovedAll, database
<1>2. ASSUME NEW k \in Keys, RemoveObject(r, k) PROVE RowInv'
  <2>1. PICK t : Becomes(r, t) /\ t.pc = "remove"
    BY <1>2, RemoveObjectForm
  <2> QED BY <1>2, <2>1, CalmMove DEF RemoveObject, database
<1> QED BY <1>1, <1>2 DEF Removal

\* A verification request may only point at rows that are there to stay.
LEMMA VerifyRows ==
  ASSUME AssetTypeOK, Phases, RowInv, NEW d \in Docs, Verify(d)
  PROVE  RowInv'
<1>1. req' = req
  BY VerifyTypes
<1>2. \A q \in Requests : Open(q)' =>
            /\ Open(q)
            /\ req'[q].kind = req[q].kind /\ req'[q].sum = req[q].sum
            /\ req'[q].slots = req[q].slots /\ req'[q].gone = req[q].gone
  BY <1>1 DEF Open
<1>3. ASSUME NEW C \in SUBSET Sums, SubmitVerificationRequest(d, C)
      PROVE  RowInv'
  <2>1. /\ asset' = asset /\ live' = live
        /\ \A c \in C : asset[c] # "none" /\ ~BeingDeleted(c)
    BY <1>3 DEF SubmitVerificationRequest, VerificationRest
  <2>2. \A c \in Sums : Pointed(c)' => Pointed(c) \/ c \in C
    BY <1>3 DEF SubmitVerificationRequest, Pointed, AssetTypeOK
  <2>3. ReferencedHasAsset'
    BY <2>1, <2>2 DEF RowInv, ReferencedHasAsset, Referenced
  <2>4. GoneUnreferenced'
    <3> SUFFICES ASSUME NEW q \in Requests, Open(q)', NEW k \in req'[q].gone
                 PROVE  /\ ~SeenReferenced(q, k[1])'
                        /\ \A p \in Requests \ {q} : ~BeingReferencedBy(p, k[1])'
      BY DEF GoneUnreferenced
    <3>1. /\ Open(q) /\ k \in req[q].gone /\ k[1] \in Sums
          /\ ~SeenReferenced(q, k[1])
          /\ \A p \in Requests \ {q} : ~BeingReferencedBy(p, k[1])
      BY <1>1, <1>2 DEF AssetTypeOK, RequestStates, Keys, RowInv, GoneUnreferenced
    <3>2. k[1] \notin C
      BY <2>1, <3>1 DEF BeingDeleted
    <3>3. ~SeenReferenced(q, k[1])'
      BY <1>1, <2>1, <2>2, <3>1, <3>2 DEF SeenReferenced
    <3> QED BY <1>1, <3>1, <3>3 DEF BeingReferencedBy, Open
  <2>5. ReplacementHasAsset' /\ SlotsApart'
    BY <1>1, <2>1 DEF RowInv, ReplacementHasAsset, SlotsApart, Open
  <2> QED BY <2>3, <2>4, <2>5 DEF RowInv
<1>4. ASSUME asset' = asset, live' = live, \A c \in Sums : Pointed(c)' => Pointed(c)
      PROVE  RowInv'
  BY <1>2, <1>4, Calm
<1>5. CASE CancelVerificationRequest(d)
  <2>1. \A c \in Sums : Pointed(c)' => Pointed(c)
    BY <1>5 DEF CancelVerificationRequest, Pointed, AssetTypeOK
  <2> QED BY <1>4, <1>5, <2>1 DEF CancelVerificationRequest, VerificationRest
<1>6. CASE ReviewVerificationRequest(d)
  <2>1. \A c \in Sums : Pointed(c)' => Pointed(c)
    BY <1>6 DEF ReviewVerificationRequest, Pointed, AssetTypeOK
  <2> QED BY <1>4, <1>6, <2>1 DEF ReviewVerificationRequest, VerificationRest
<1>7. CASE DeleteAccount(d)
  <2>1. \A c \in Sums : Pointed(c)' => Pointed(c)
    BY <1>7 DEF DeleteAccount, Pointed, AssetTypeOK
  <2> QED BY <1>4, <1>7, <2>1 DEF DeleteAccount, VerificationRest
<1> QED BY <1>3, <1>5, <1>6, <1>7 DEF Verify

LEMMA RowInit == Init => RowInv
BY AssetConstants, IdleType DEF Init, RowInv, ReferencedHasAsset, Referenced,
   Pointed, GoneUnreferenced, ReplacementHasAsset, SlotsApart, Open

LEMMA RowStep ==
  AssetTypeOK /\ Phases /\ RowInv /\ [Next]_vars => RowInv'
<1> SUFFICES ASSUME AssetTypeOK, Phases, RowInv, [Next]_vars PROVE RowInv'
  OBVIOUS
<1>1. ASSUME NEW r \in Requests, Upload(r) \/ Transaction(r) \/ Removal(r)
      PROVE  RowInv'
  BY <1>1, UploadRows, TransactionRows, RemovalRows
<1>2. CASE UNCHANGED vars
  BY <1>2, Calm DEF vars, database, Open, Pointed
<1> QED BY <1>1, <1>2, VerifyRows DEF Next

\* Whatever references and verification requests come while collections run, none
\* is left pointing at an asset that was collected.
THEOREM NothingReferencedIsCollected == Spec => []ReferencedHasAsset
<1>1. Init => AssetTypeOK /\ Phases /\ RowInv
  BY TypeInit, RowInit
<1>2. AssetTypeOK /\ Phases /\ RowInv /\ [Next]_vars
         => (AssetTypeOK /\ Phases /\ RowInv)'
  BY TypeStep, RowStep
<1>3. RowInv => ReferencedHasAsset
  BY DEF RowInv
<1> QED BY <1>1, <1>2, <1>3, PTL DEF Spec

-------------------------------------------------------------------------------
(* The canonical key of an asset in use *)

\* A step registers an asset that was absent, or collects one.
LEMMA AssetChanges ==
  ASSUME AssetTypeOK, [Next]_vars, NEW c \in Sums
  PROVE  asset'[c] = asset[c] \/ asset[c] = "none" \/ asset'[c] = "none"
<1>1. ASSUME NEW r \in Requests, Upload(r)
      PROVE  asset'[c] = asset[c] \/ asset[c] = "none"
  <2>1. asset' = asset \/ asset' = Registered(r)
    BY <1>1 DEF Upload, StartUpload, CheckAsset, PutObject, RegisterAsset,
                CreateAssetRef, AbandonUpload
  <2> QED BY <2>1 DEF Registered, AssetTypeOK
<1>2. ASSUME NEW r \in Requests, Transaction(r)
      PROVE  asset'[c] = asset[c] \/ asset'[c] = "none"
  <2>1. asset' = asset \/ Commit(r)
    BY <1>2 DEF Transaction, BeginReplace, BeginDelete, CollectOrphans,
                PurgeOrphanedStorageAsset, Crash, database
  <2> QED BY <2>1 DEF Commit
<1>3. ASSUME NEW r \in Requests, Removal(r) PROVE asset' = asset
  BY <1>3 DEF Removal, RemovedAll, RemoveObject, database
<1>4. ASSUME NEW d \in Docs, Verify(d) PROVE asset' = asset
  BY <1>4 DEF Verify, SubmitVerificationRequest, CancelVerificationRequest,
              ReviewVerificationRequest, DeleteAccount, VerificationRest
<1>5. CASE UNCHANGED vars
  BY <1>5 DEF vars, database
<1> QED BY <1>1, <1>2, <1>3, <1>4, <1>5 DEF Next

\* The canonical key of an asset in use never changes, whoever uploads the same
\* bytes to whichever bucket.
THEOREM KeysStay == Spec => CanonicalKeyStays
<1>1. Init => AssetTypeOK /\ Phases /\ RowInv
  BY TypeInit, RowInit
<1>2. AssetTypeOK /\ Phases /\ RowInv /\ [Next]_vars
         => (AssetTypeOK /\ Phases /\ RowInv)'
  BY TypeStep, RowStep
<1>3. AssetTypeOK /\ RowInv /\ RowInv' /\ [Next]_vars
         => \A c \in Sums :
               Referenced(c) /\ Referenced(c)' => asset'[c] = asset[c]
  <2>1. ASSUME AssetTypeOK, RowInv, RowInv', [Next]_vars,
               NEW c \in Sums, Referenced(c), Referenced(c)'
        PROVE  asset'[c] = asset[c]
    <3>1. asset[c] # "none" /\ asset'[c] # "none"
      BY <2>1 DEF RowInv, ReferencedHasAsset
    <3> QED BY <2>1, <3>1, AssetChanges
  <2> QED BY <2>1
<1> QED BY <1>1, <1>2, <1>3, PTL DEF Spec, CanonicalKeyStays

-------------------------------------------------------------------------------
(* The object behind the canonical key *)

Kept == objects \cup overtaken

CanonicalStored == \A c \in Sums : asset[c] # "none" => <<c, asset[c]>> \in Kept

\* An upload about to register its key has stored the object.
RegistersStored ==
    \A q \in Requests : req[q].pc = "register" => KeyOf(q) \in Kept

\* An object about to be removed is nobody's, or was uploaded again meanwhile.
RemovalsAreStale ==
    \A q \in Requests : req[q].pc = "remove" =>
       \A k \in req[q].gone : asset[k[1]] # k[2] \/ k \in overtaken

ObjectInv == CanonicalStored /\ RegistersStored /\ RemovalsAreStale

\* What is to be shown of a step of one request.
LEMMA ObjectUpdate ==
  ASSUME AssetTypeOK, Phases, ObjectInv, NEW r \in Requests, NEW t, Becomes(r, t),
         \A c \in Sums : asset'[c] # "none" => <<c, asset'[c]>> \in Kept',
         \A q \in Requests \ {r} :
            /\ req[q].pc = "register" => KeyOf(q) \in Kept'
            /\ req[q].pc = "remove" => \A k \in req[q].gone :
                  asset'[k[1]] # k[2] \/ k \in overtaken',
         t.pc = "register" => <<t.sum, BucketOf(t.kind)>> \in Kept',
         t.pc = "remove" => \A k \in t.gone :
                  asset'[k[1]] # k[2] \/ k \in overtaken'
  PROVE  ObjectInv'
<1>1. req'[r] = t /\ \A q \in Requests : q # r => req'[q] = req[q]
  BY BecomesTyped
<1>2. \A q \in Requests : q # r => KeyOf(q)' = KeyOf(q)
  BY <1>1 DEF KeyOf
<1>3. KeyOf(r)' = <<t.sum, BucketOf(t.kind)>>
  BY <1>1 DEF KeyOf
<1>4. CanonicalStored'
  BY DEF CanonicalStored
<1>5. RegistersStored'
  BY <1>1, <1>2, <1>3 DEF RegistersStored
<1>6. RemovalsAreStale'
  BY <1>1 DEF RemovalsAreStale
<1> QED BY <1>4, <1>5, <1>6 DEF ObjectInv

\* A step that keeps the objects and registers nothing.
LEMMA ObjectCalm ==
  ASSUME AssetTypeOK, Phases, ObjectInv, NEW r \in Requests, NEW t, Becomes(r, t),
         Kept \subseteq Kept', overtaken \subseteq overtaken',
         \A c \in Sums : asset'[c] = asset[c] \/ asset'[c] = "none",
         t.pc = "register" => <<t.sum, BucketOf(t.kind)>> \in Kept',
         t.pc = "remove" => \A k \in t.gone :
                  asset'[k[1]] # k[2] \/ k \in overtaken'
  PROVE  ObjectInv'
<1>1. \A c \in Sums : asset'[c] # "none" => <<c, asset'[c]>> \in Kept'
  BY DEF ObjectInv, CanonicalStored
<1>2. \A q \in Requests : \A k \in req[q].gone : k[1] \in Sums /\ k[2] # "none"
  BY DEF AssetTypeOK, RequestStates, Keys, Buckets
<1>3. ASSUME NEW q \in Requests \ {r}
      PROVE  /\ req[q].pc = "register" => KeyOf(q) \in Kept'
             /\ req[q].pc = "remove" => \A k \in req[q].gone :
                   asset'[k[1]] # k[2] \/ k \in overtaken'
  BY <1>2 DEF ObjectInv, RegistersStored, RemovalsAreStale
<1> QED BY <1>1, <1>3, ObjectUpdate

LEMMA KeptUnchanged ==
  ASSUME UNCHANGED <<objects, overtaken>> PROVE Kept' = Kept
BY DEF Kept

LEMMA UploadObjects ==
  ASSUME AssetTypeOK, Phases, ObjectInv, NEW r \in Requests, Upload(r)
  PROVE  ObjectInv'
<1>1. ASSUME NEW kind \in {"create", "replace", "document"}, NEW c \in Sums,
             NEW s \in Slots, StartUpload(r, kind, c, s)
      PROVE  ObjectInv'
  <2>1. PICK t : Becomes(r, t) /\ t.pc \in {"put", "check"}
    BY <1>1, StartForm
  <2> QED BY <1>1, <2>1, KeptUnchanged, ObjectCalm DEF StartUpload
<1>2. CASE CheckAsset(r)
  <2>1. PICK p \in {"put", "reference"} : Goto(r, p)
    BY <1>2 DEF CheckAsset
  <2>2. Becomes(r, [req[r] EXCEPT !.pc = p])
    BY <1>2, <2>1, GotoBecomes DEF CheckAsset, UploadPcs
  <2>3. [req[r] EXCEPT !.pc = p].pc \notin {"register", "remove"}
    BY DEF AssetTypeOK, RequestStates
  <2> QED BY <1>2, <2>2, <2>3, KeptUnchanged, ObjectCalm DEF CheckAsset
<1>3. CASE PutObject(r)
  <2>1. Becomes(r, [req[r] EXCEPT !.pc = "register"])
    BY <1>3, GotoBecomes DEF PutObject, UploadPcs
  <2>2. LET t == [req[r] EXCEPT !.pc = "register"]
        IN  t.pc = "register" /\ t.sum = req[r].sum /\ t.kind = req[r].kind
    BY DEF AssetTypeOK, RequestStates
  <2>3. Kept \subseteq Kept' /\ KeyOf(r) \in Kept'
    BY <1>3 DEF PutObject, Kept
  <2> QED BY <1>3, <2>1, <2>2, <2>3, ObjectCalm DEF PutObject, KeyOf
<1>4. CASE RegisterAsset(r)
  <2> DEFINE t == [req[r] EXCEPT !.pc = "reference"]
  <2>1. Becomes(r, t)
    BY <1>4, GotoBecomes DEF RegisterAsset, UploadPcs
  <2>2. t.pc = "reference"
    BY DEF AssetTypeOK, RequestStates
  <2>3. /\ req[r].sum \in Sums /\ KeyOf(r) = <<req[r].sum, BucketOf(req[r].kind)>>
        /\ KeyOf(r) \in Kept /\ objects' = objects /\ overtaken \subseteq overtaken'
    BY <1>4, KeyOfTyped
       DEF RegisterAsset, UploadPcs, ObjectInv, RegistersStored
  <2> HIDE DEF t
  <2>4. CASE asset' = asset
    BY <2>1, <2>2, <2>3, <2>4, ObjectCalm DEF Kept
  <2>5. CASE asset' # asset
    <3>1. /\ asset' = [asset EXCEPT ![req[r].sum] = BucketOf(req[r].kind)]
          /\ ToBeRemoved(KeyOf(r)) => KeyOf(r) \in overtaken'
      BY <1>4, <2>5 DEF RegisterAsset, Registered
    <3>2. \A c \in Sums : \/ asset'[c] = asset[c]
                          \/ c = req[r].sum /\ <<c, asset'[c]>> = KeyOf(r)
      BY <2>3, <3>1 DEF AssetTypeOK
    <3>3. \A c \in Sums : asset'[c] # "none" => <<c, asset'[c]>> \in Kept'
      BY <2>3, <3>2 DEF ObjectInv, CanonicalStored, Kept
    <3>4. ASSUME NEW q \in Requests \ {r}, req[q].pc = "remove", NEW k \in req[q].gone
          PROVE  asset'[k[1]] # k[2] \/ k \in overtaken'
      <4>1. k \in Keys /\ k[1] \in Sums /\ k = <<k[1], k[2]>>
        BY DEF AssetTypeOK, RequestStates, Keys
      <4>2. CASE asset'[k[1]] = asset[k[1]]
        BY <2>3, <3>4, <4>2 DEF ObjectInv, RemovalsAreStale
      <4>3. CASE <<k[1], asset'[k[1]]>> = KeyOf(r) /\ asset'[k[1]] = k[2]
        BY <3>1, <3>4, <4>1, <4>3 DEF ToBeRemoved
      <4> QED BY <3>2, <4>1, <4>2, <4>3
    <3>5. ASSUME NEW q \in Requests \ {r}, req[q].pc = "register"
          PROVE  KeyOf(q) \in Kept'
      BY <2>3, <3>5 DEF ObjectInv, RegistersStored, Kept
    <3> QED BY <2>1, <2>2, <3>3, <3>4, <3>5, ObjectUpdate
  <2> QED BY <2>4, <2>5
<1>5. CASE CreateAssetRef(r)
  BY <1>5, FinishBecomes, IdleType, KeptUnchanged, ObjectCalm DEF CreateAssetRef
<1>6. CASE AbandonUpload(r)
  BY <1>6, FinishBecomes, IdleType, KeptUnchanged, ObjectCalm DEF AbandonUpload
<1> QED BY <1>1, <1>2, <1>3, <1>4, <1>5, <1>6 DEF Upload

LEMMA TransactionObjects ==
  ASSUME AssetTypeOK, Phases, ObjectInv, NEW r \in Requests, Transaction(r)
  PROVE  ObjectInv'
<1>1. CASE BeginReplace(r)
  BY <1>1, BeginReplaceForm, KeptUnchanged, ObjectCalm DEF BeginReplace, TxRest
<1>2. ASSUME NEW S \in SUBSET Slots, BeginDelete(r, S) PROVE ObjectInv'
  BY <1>2, BeginDeleteForm, KeptUnchanged, ObjectCalm DEF BeginDelete, TxRest
<1>3. CASE CollectOrphans(r)
  BY <1>3, CollectOrphansForm, KeptUnchanged, ObjectCalm DEF CollectOrphans, TxRest
<1>4. ASSUME NEW k \in Keys, PurgeOrphanedStorageAsset(r, k) PROVE ObjectInv'
  <2>1. PICK t : Becomes(r, t) /\ t.pc = "purge"
    BY <1>4, PurgeForm
  <2> QED BY <1>4, <2>1, KeptUnchanged, ObjectCalm
          DEF PurgeOrphanedStorageAsset, TxRest
<1>5. CASE Commit(r)
  <2>1. /\ \A c \in Sums : asset'[c] =
              IF \E k \in req[r].gone : k[1] = c THEN "none" ELSE asset[c]
        /\ UNCHANGED <<objects, overtaken>>
    BY <1>5 DEF Commit, TxRest
  <2>2. \A c \in Sums : asset'[c] = asset[c] \/ asset'[c] = "none"
    BY <2>1
  <2>3. ASSUME NEW k \in req[r].gone PROVE asset'[k[1]] # k[2]
    BY <2>1 DEF AssetTypeOK, RequestStates, Keys, Buckets
  <2>4. CASE req[r].kind = "delete"
    <3> DEFINE t == [req[r] EXCEPT !.pc = "remove"]
    <3>1. Becomes(r, t)
      BY <1>5, <2>4, GotoBecomes DEF Commit, UploadPcs
    <3>2. t.pc = "remove" /\ t.gone = req[r].gone
      BY DEF AssetTypeOK, RequestStates
    <3> HIDE DEF t
    <3> QED BY <2>1, <2>2, <2>3, <3>1, <3>2, KeptUnchanged, ObjectCalm
  <2>5. CASE req[r].kind # "delete"
    BY <1>5, <2>1, <2>2, <2>5, FinishBecomes, IdleType, KeptUnchanged, ObjectCalm
       DEF Commit
  <2> QED BY <2>4, <2>5
<1>6. CASE Crash(r)
  BY <1>6, FinishBecomes, IdleType, KeptUnchanged, ObjectCalm DEF Crash, database
<1>7. CASE \E b \in Blogs : BeginDelete(r, {b} \X Files)
  BY <1>2, <1>7, PostSlots
<1>8. CASE \E s \in Posts : BeginDelete(r, {s})
  BY <1>2, <1>8, PostSlots
<1> QED BY <1>1, <1>3, <1>4, <1>5, <1>6, <1>7, <1>8 DEF Transaction

LEMMA RemovalObjects ==
  ASSUME AssetTypeOK, Phases, ObjectInv, NEW r \in Requests, Removal(r)
  PROVE  ObjectInv'
<1>1. CASE RemovedAll(r)
  BY <1>1, FinishBecomes, IdleType, KeptUnchanged, ObjectCalm
     DEF RemovedAll, database
<1>2. ASSUME NEW k \in Keys, RemoveObject(r, k) PROVE ObjectInv'
  <2>1. PICK t : Becomes(r, t) /\ t.pc = "remove" /\ t.gone = req[r].gone \ {k}
    BY <1>2, RemoveObjectForm
  <2>2. /\ asset' = asset /\ req[r].pc = "remove" /\ k \in req[r].gone
        /\ \/ UNCHANGED <<objects, overtaken>>
           \/ /\ objects' = objects \ {k}
              /\ overtaken' =
                   IF \E q \in Requests : req[q].pc = "register" /\ KeyOf(q) = k
                   THEN overtaken \cup {k} ELSE overtaken
    BY <1>2 DEF RemoveObject, database
  <2>3. overtaken \subseteq overtaken' /\ Kept \ {k} \subseteq Kept'
    BY <2>2 DEF Kept
  <2>4. ASSUME NEW c \in Sums, asset'[c] # "none"
        PROVE  <<c, asset'[c]>> \in Kept'
    <3>1. <<c, asset[c]>> \in Kept
      BY <2>2, <2>4 DEF ObjectInv, CanonicalStored
    <3>2. CASE <<c, asset[c]>> = k
      <4>1. k \in overtaken
        BY <2>2, <3>2 DEF ObjectInv, RemovalsAreStale
      <4> QED BY <2>2, <2>3, <3>2, <4>1 DEF Kept
    <3>3. CASE <<c, asset[c]>> # k
      BY <2>2, <2>3, <3>1, <3>3
    <3> QED BY <3>2, <3>3
  <2>5. ASSUME NEW q \in Requests \ {r}, req[q].pc = "register"
        PROVE  KeyOf(q) \in Kept'
    <3>1. KeyOf(q) \in Kept
      BY <2>5 DEF ObjectInv, RegistersStored
    <3> QED BY <2>2, <2>3, <2>5, <3>1 DEF Kept
  <2>6. ASSUME NEW q \in Requests, req[q].pc = "remove", NEW e \in req[q].gone
        PROVE  asset'[e[1]] # e[2] \/ e \in overtaken'
    BY <2>2, <2>3, <2>6 DEF ObjectInv, RemovalsAreStale
  <2> QED BY <2>1, <2>2, <2>4, <2>5, <2>6, ObjectUpdate
<1> QED BY <1>1, <1>2 DEF Removal

LEMMA ObjectStep ==
  AssetTypeOK /\ Phases /\ ObjectInv /\ [Next]_vars => ObjectInv'
<1> SUFFICES ASSUME AssetTypeOK, Phases, ObjectInv, [Next]_vars PROVE ObjectInv'
  OBVIOUS
<1>1. ASSUME NEW r \in Requests, Upload(r) \/ Transaction(r) \/ Removal(r)
      PROVE  ObjectInv'
  BY <1>1, UploadObjects, TransactionObjects, RemovalObjects
<1>2. ASSUME UNCHANGED <<asset, objects, overtaken, req>> PROVE ObjectInv'
  BY <1>2 DEF ObjectInv, CanonicalStored, RegistersStored, RemovalsAreStale,
              Kept, KeyOf
<1>3. ASSUME NEW d \in Docs, Verify(d) PROVE ObjectInv'
  <2>1. UNCHANGED <<asset, objects, overtaken, req>>
    BY <1>3 DEF Verify, SubmitVerificationRequest, CancelVerificationRequest,
                ReviewVerificationRequest, DeleteAccount, VerificationRest
  <2> QED BY <1>2, <2>1
<1>4. CASE UNCHANGED vars
  BY <1>2, <1>4 DEF vars, database
<1> QED BY <1>1, <1>3, <1>4 DEF Next

LEMMA ObjectInit == Init => ObjectInv
BY IdleType DEF Init, ObjectInv, CanonicalStored, RegistersStored, RemovalsAreStale

\* What is referenced has its object, unless its removal and an upload of the same
\* bytes crossed.
THEOREM ReferencedIsStored == Spec => []ReferencedHasObject
<1>1. Init => AssetTypeOK /\ Phases /\ RowInv /\ ObjectInv
  BY TypeInit, RowInit, ObjectInit
<1>2. AssetTypeOK /\ Phases /\ RowInv /\ ObjectInv /\ [Next]_vars
         => (AssetTypeOK /\ Phases /\ RowInv /\ ObjectInv)'
  BY TypeStep, RowStep, ObjectStep
<1>3. RowInv /\ ObjectInv => ReferencedHasObject
  BY DEF RowInv, ObjectInv, ReferencedHasAsset, CanonicalStored, Kept,
         ReferencedHasObject
<1> QED BY <1>1, <1>2, <1>3, PTL DEF Spec
-------------------------------------------------------------------------------
(* The last reference collects *)

\* Nothing but the deletions and replacements of r themselves changed references
\* while its transaction was open, and no call failed.
Undisturbed(r) == Open(r) /\ ~disturbed[r] /\ faults = 0

\* Two open transactions have disturbed each other, whichever began first.
OpenAlone ==
    \A r \in Requests : Undisturbed(r) =>
       \A q \in Requests \ {r} : ~Open(q)

\* From the query on, a checksum the transaction gives up is still referenced
\* elsewhere, or is an orphan still to collect or collected already.
CollectsAll ==
    \A r \in Requests : Undisturbed(r) /\ req[r].pc = "purge" =>
       \A s \in req[r].slots, c \in Sums :
          live[s] = c => \/ SeenReferenced(r, c)
                         \/ <<c, asset[c]>> \in req[r].todo \cup req[r].gone

CollectInv == OpenAlone /\ CollectsAll

FaultsGrow == faults \in Nat /\ faults' \in Nat /\ (faults' = 0 => faults = 0)

LEMMA FaultsCounted ==
  ASSUME AssetTypeOK, NoFault \/ Fault
  PROVE  FaultsGrow
<1>1. faults \in Nat
  BY AssetConstants DEF AssetTypeOK
<1> QED BY <1>1 DEF NoFault, Fault, FaultsGrow

\* Steps that open no transaction and leave what the undisturbed one reads.
LEMMA CollectCalm ==
  ASSUME AssetTypeOK, RowInv, CollectInv,
         \A q \in Requests : Open(q)' => Open(q),
         \A q \in Requests : Undisturbed(q)' =>
            /\ Undisturbed(q) /\ req'[q] = req[q]
            /\ live' = live /\ active' = active /\ past' = past
            /\ \A c \in Sums : asset[c] # "none" => asset'[c] = asset[c]
  PROVE  CollectInv'
<1>1. OpenAlone'
  <2> SUFFICES ASSUME NEW r \in Requests, Undisturbed(r)', NEW q \in Requests \ {r}
               PROVE  ~Open(q)'
    BY DEF OpenAlone
  <2>1. Undisturbed(r)
    OBVIOUS
  <2> QED BY <2>1 DEF CollectInv, OpenAlone
<1>2. CollectsAll'
  <2> SUFFICES ASSUME NEW r \in Requests, Undisturbed(r)', req'[r].pc = "purge",
                      NEW s \in req'[r].slots, NEW c \in Sums, live'[s] = c
               PROVE  \/ SeenReferenced(r, c)'
                      \/ <<c, asset'[c]>> \in req'[r].todo \cup req'[r].gone
    BY DEF CollectsAll
  <2>1. /\ Undisturbed(r) /\ req'[r] = req[r]
        /\ live' = live /\ active' = active /\ past' = past
        /\ \A d \in Sums : asset[d] # "none" => asset'[d] = asset[d]
    OBVIOUS
  <2>2. \/ SeenReferenced(r, c)
        \/ <<c, asset[c]>> \in req[r].todo \cup req[r].gone
    BY <2>1 DEF CollectInv, CollectsAll
  <2>3. s \in Slots
    BY <2>1 DEF AssetTypeOK, RequestStates
  <2>4. asset[c] # "none"
    BY <2>1, <2>3 DEF RowInv, ReferencedHasAsset, Referenced
  <2>5. SeenReferenced(r, c) => SeenReferenced(r, c)'
    BY <2>1 DEF SeenReferenced, Pointed
  <2> QED BY <2>1, <2>2, <2>4, <2>5
<1> QED BY <1>1, <1>2 DEF CollectInv

\* A request that goes on, or ends, outside any transaction.
LEMMA CollectMove ==
  ASSUME AssetTypeOK, Phases, RowInv, CollectInv, NEW r \in Requests, NEW t,
         Becomes(r, t), t.pc \notin {"collect", "purge"}, FaultsGrow,
         \A c \in Sums : asset[c] # "none" => asset'[c] = asset[c],
         \A q \in Requests : q # r /\ Open(q) /\ ~disturbed'[q] =>
            /\ ~disturbed[q]
            /\ live' = live /\ active' = active /\ past' = past
  PROVE  CollectInv'
<1>1. req'[r] = t /\ \A q \in Requests : q # r => req'[q] = req[q]
  BY BecomesTyped
<1>2. \A q \in Requests : Open(q)' => q # r /\ Open(q) /\ req'[q] = req[q]
  BY <1>1 DEF Open
<1>3. \A q \in Requests : Undisturbed(q)' => q # r /\ Undisturbed(q) /\ req'[q] = req[q]
  BY <1>2 DEF Undisturbed, FaultsGrow
<1> QED BY <1>2, <1>3, CollectCalm DEF Undisturbed

LEMMA UploadCollects ==
  ASSUME AssetTypeOK, Phases, RowInv, CollectInv, NEW r \in Requests, Upload(r)
  PROVE  CollectInv'
<1>0. FaultsGrow
  BY FaultsCounted DEF Upload, StartUpload, CheckAsset, PutObject, RegisterAsset,
                       CreateAssetRef, AbandonUpload
<1>1. ASSUME NEW kind \in {"create", "replace", "document"}, NEW c \in Sums,
             NEW s \in Slots, StartUpload(r, kind, c, s)
      PROVE  CollectInv'
  <2>1. PICK t : Becomes(r, t) /\ t.pc \in {"put", "check"}
    BY <1>1, StartForm
  <2> QED BY <1>0, <1>1, <2>1, CollectMove DEF StartUpload, UploadRest
<1>2. CASE CheckAsset(r)
  <2>1. PICK p \in {"put", "reference"} : Goto(r, p)
    BY <1>2 DEF CheckAsset
  <2>2. Becomes(r, [req[r] EXCEPT !.pc = p])
    BY <1>2, <2>1, GotoBecomes DEF CheckAsset, UploadPcs
  <2>3. [req[r] EXCEPT !.pc = p].pc \notin {"collect", "purge"}
    BY DEF AssetTypeOK, RequestStates
  <2> QED BY <1>0, <1>2, <2>2, <2>3, CollectMove DEF CheckAsset, UploadRest
<1>3. CASE PutObject(r)
  <2>1. Becomes(r, [req[r] EXCEPT !.pc = "register"])
    BY <1>3, GotoBecomes DEF PutObject, UploadPcs
  <2>2. [req[r] EXCEPT !.pc = "register"].pc \notin {"collect", "purge"}
    BY DEF AssetTypeOK, RequestStates
  <2> QED BY <1>0, <1>3, <2>1, <2>2, CollectMove DEF PutObject, UploadRest
<1>4. CASE RegisterAsset(r)
  <2>1. Becomes(r, [req[r] EXCEPT !.pc = "reference"])
    BY <1>4, GotoBecomes DEF RegisterAsset, UploadPcs
  <2>2. [req[r] EXCEPT !.pc = "reference"].pc \notin {"collect", "purge"}
    BY DEF AssetTypeOK, RequestStates
  <2>3. \A c \in Sums : asset[c] # "none" => asset'[c] = asset[c]
    BY <1>4 DEF RegisterAsset, Registered, AssetTypeOK
  <2> QED BY <1>0, <1>4, <2>1, <2>2, <2>3, CollectMove DEF RegisterAsset, UploadRest
<1>5. CASE CreateAssetRef(r)
  <2>1. Becomes(r, Idle)
    BY <1>5, FinishBecomes DEF CreateAssetRef
  <2>2. \A q \in Requests : q # r /\ Open(q) /\ ~disturbed'[q] =>
           ~disturbed[q] /\ live' = live
    BY <1>5 DEF CreateAssetRef, Disturbs
  <2>3. asset' = asset /\ active' = active /\ past' = past
    BY <1>5 DEF CreateAssetRef
  <2> QED BY <1>0, <2>1, <2>2, <2>3, IdleType, CollectMove
<1>6. CASE AbandonUpload(r)
  BY <1>0, <1>6, FinishBecomes, IdleType, CollectMove DEF AbandonUpload, UploadRest
<1> QED BY <1>1, <1>2, <1>3, <1>4, <1>5, <1>6 DEF Upload

\* A transaction that begins beside another is disturbed, and disturbs it.
LEMMA OpensCollecting ==
  ASSUME AssetTypeOK, Phases, CollectInv, NEW r \in Requests, NEW t, Becomes(r, t),
         ~Open(r), t.pc = "collect", Begins(r)
  PROVE  CollectInv'
<1>1. req'[r] = t /\ \A q \in Requests : q # r => req'[q] = req[q]
  BY BecomesTyped
<1>2. \A q \in Requests : q # r => (Open(q)' <=> Open(q))
  BY <1>1 DEF Open
<1>3. \A q \in Requests : Undisturbed(q)' => q = r /\ \A p \in Requests : ~Open(p)
  BY <1>2 DEF Undisturbed, Begins
<1>4. OpenAlone'
  BY <1>2, <1>3 DEF OpenAlone
<1>5. CollectsAll'
  BY <1>1, <1>3 DEF CollectsAll
<1> QED BY <1>4, <1>5 DEF CollectInv

\* The query finds every checksum that nothing else refers to.
LEMMA OrphansFound ==
  ASSUME AssetTypeOK, Phases, RowInv, CollectInv, NEW r \in Requests,
         CollectOrphans(r)
  PROVE  CollectInv'
<1> DEFINE T == Orphans(r)
           t == Collecting(req[r], "purge", T, req[r].gone)
<1>1. /\ req[r] \in RequestStates /\ Open(r)
      /\ req[r].gone \in SUBSET Keys /\ T \in SUBSET Keys
  BY DEF AssetTypeOK, RequestStates, Orphans, CollectOrphans, Open
<1>2. req' = [req EXCEPT ![r].pc = "purge", ![r].todo = T]
  BY DEF CollectOrphans
<1>3. /\ t.pc = "purge" /\ t.kind = req[r].kind /\ t.sum = req[r].sum
      /\ t.slots = req[r].slots /\ t.todo = T /\ t.gone = req[r].gone
  BY <1>1, ThreeFields
<1> HIDE DEF T
<1>4. req' = [req EXCEPT ![r] = t]
  BY <1>2, StageForm
<1> HIDE DEF t
<1>5. req'[r] = t /\ \A q \in Requests : q # r => req'[q] = req[q]
  BY <1>4 DEF AssetTypeOK
<1>6. /\ asset' = asset /\ live' = live /\ active' = active /\ past' = past
      /\ disturbed' = disturbed /\ faults' = faults
  BY DEF CollectOrphans, TxRest, NoFault
<1>7. \A q \in Requests : Open(q)' <=> Open(q)
  BY <1>1, <1>3, <1>5 DEF Open
<1>8. \A q \in Requests : Undisturbed(q)' => Undisturbed(q) /\ q = r
  BY <1>1, <1>6, <1>7 DEF Undisturbed, CollectInv, OpenAlone
<1>9. OpenAlone'
  BY <1>7, <1>8 DEF CollectInv, OpenAlone
<1>10. CollectsAll'
  <2> SUFFICES ASSUME NEW s \in req'[r].slots, NEW c \in Sums, live'[s] = c
               PROVE  \/ SeenReferenced(r, c)'
                      \/ <<c, asset'[c]>> \in req'[r].todo \cup req'[r].gone
    BY <1>8 DEF CollectsAll
  <2>1. s \in req[r].slots /\ s \in Slots /\ live[s] = c
    BY <1>1, <1>3, <1>5, <1>6 DEF RequestStates
  <2>2. asset[c] \in Buckets
    BY <2>1 DEF RowInv, ReferencedHasAsset, Referenced, AssetTypeOK
  <2>3. <<c, asset[c]>> \in Keys
    BY <2>2 DEF Keys
  <2>4. SeenReferenced(r, c) \/ <<c, asset[c]>> \in Orphans(r)
    BY <2>1, <2>3 DEF Orphans
  <2>5. SeenReferenced(r, c) => SeenReferenced(r, c)'
    BY <1>3, <1>5, <1>6 DEF SeenReferenced, Pointed
  <2> QED BY <1>3, <1>5, <1>6, <2>4, <2>5 DEF T
<1> QED BY <1>9, <1>10 DEF CollectInv

\* A savepoint only leaves an orphan out when it is referenced again, or gone,
\* or when another transaction or a fault is to blame.
LEMMA PurgeKeeps ==
  ASSUME AssetTypeOK, NEW r \in Requests, NEW k \in Keys,
         PurgeOrphanedStorageAsset(r, k)
  PROVE  /\ \A q \in Requests : q # r => req'[q] = req[q]
         /\ req'[r].pc = "purge" /\ req'[r].kind = req[r].kind
         /\ req'[r].sum = req[r].sum /\ req'[r].slots = req[r].slots
         /\ \A e \in req[r].todo \cup req[r].gone :
               \/ e \in req'[r].todo \cup req'[r].gone
               \/ /\ e = k
                  /\ \/ asset[k[1]] = "none" \/ SeenReferenced(r, k[1])
                     \/ Deadlocked(r, k[1]) \/ Fault
<1> DEFINE T == req[r].todo \ {k}
           K == req[r].gone \cup {k}
           t == Collecting(req[r], req[r].pc, T, req[r].gone)
           u == Collecting(req[r], req[r].pc, T, K)
           Left == \/ asset[k[1]] = "none" \/ SeenReferenced(r, k[1])
                   \/ Deadlocked(r, k[1]) \/ Fault
<1>1. req[r] \in RequestStates /\ req \in [Requests -> RequestStates]
  BY DEF AssetTypeOK
<1>2. /\ req[r].gone \in SUBSET Keys /\ T \in SUBSET Keys /\ K \in SUBSET Keys
      /\ req[r].pc = "purge"
  BY <1>1 DEF RequestStates, PurgeOrphanedStorageAsset
<1>3. \/ SkipPurge(r, k) /\ Left
      \/ Purged(r, k)
  BY Zenon DEF PurgeOrphanedStorageAsset
<1>4. CASE SkipPurge(r, k) /\ Left
  <2> HIDE DEF Left
  <2>1. req' = [req EXCEPT ![r].todo = T]
    BY <1>4 DEF SkipPurge
  <2>2. req' = [req EXCEPT ![r] = t]
    BY <2>1, TodoForm
  <2>3. /\ t.pc = "purge" /\ t.kind = req[r].kind /\ t.sum = req[r].sum
        /\ t.slots = req[r].slots /\ t.todo = T /\ t.gone = req[r].gone
    BY <1>1, <1>2, ThreeFields
  <2> HIDE DEF t
  <2>4. req'[r] = t /\ \A q \in Requests : q # r => req'[q] = req[q]
    BY <1>1, <2>2
  <2>5. \A e \in req[r].todo \cup req[r].gone :
           e \in req'[r].todo \cup req'[r].gone \/ e = k
    BY <2>3, <2>4
  <2>6. Left
    BY <1>4
  <2> QED BY <2>3, <2>4, <2>5, <2>6 DEF Left
<1>5. CASE Purged(r, k)
  <2>1. req' = [req EXCEPT ![r] = [req[r] EXCEPT !.todo = T, !.gone = K]]
    BY <1>5, Zenon DEF Purged
  <2>2. [req[r] EXCEPT !.todo = T, !.gone = K] = u
    BY <1>1 DEF Collecting, RequestStates
  <2>3. /\ u.pc = "purge" /\ u.kind = req[r].kind /\ u.sum = req[r].sum
        /\ u.slots = req[r].slots /\ u.todo = T /\ u.gone = K
    BY <1>1, <1>2, ThreeFields
  <2> HIDE DEF u
  <2>4. req'[r] = u /\ \A q \in Requests : q # r => req'[q] = req[q]
    BY <1>1, <2>1, <2>2
  <2>5. \A e \in req[r].todo \cup req[r].gone : e \in req'[r].todo \cup req'[r].gone
    BY <2>3, <2>4
  <2> QED BY <2>3, <2>4, <2>5
<1> QED BY <1>3, <1>4, <1>5

LEMMA PurgeCollects ==
  ASSUME AssetTypeOK, Phases, RowInv, CollectInv, NEW r \in Requests,
         NEW k \in Keys, PurgeOrphanedStorageAsset(r, k)
  PROVE  CollectInv'
<1>1. /\ \A q \in Requests : q # r => req'[q] = req[q]
      /\ req'[r].pc = "purge" /\ req'[r].kind = req[r].kind
      /\ req'[r].sum = req[r].sum /\ req'[r].slots = req[r].slots
  BY PurgeKeeps
<1>2. /\ asset' = asset /\ live' = live /\ active' = active /\ past' = past
      /\ disturbed' = disturbed /\ Open(r) /\ req[r].pc = "purge"
  BY DEF PurgeOrphanedStorageAsset, TxRest, Open
<1>3. FaultsGrow
  BY FaultsCounted DEF PurgeOrphanedStorageAsset
<1>4. \A q \in Requests : Open(q)' <=> Open(q)
  BY <1>1, <1>2 DEF Open
<1>5. \A q \in Requests : Undisturbed(q)' => Undisturbed(q) /\ q = r
  BY <1>2, <1>3, <1>4 DEF Undisturbed, FaultsGrow, CollectInv, OpenAlone
<1>6. OpenAlone'
  BY <1>4, <1>5 DEF CollectInv, OpenAlone
<1>7. CollectsAll'
  <2> SUFFICES ASSUME Undisturbed(r)', NEW s \in req'[r].slots, NEW c \in Sums,
                      live'[s] = c
               PROVE  \/ SeenReferenced(r, c)'
                      \/ <<c, asset'[c]>> \in req'[r].todo \cup req'[r].gone
    BY <1>5 DEF CollectsAll
  <2>1. s \in req[r].slots /\ s \in Slots /\ live[s] = c /\ Undisturbed(r)
    BY <1>1, <1>2, <1>5 DEF AssetTypeOK, RequestStates
  <2>2. \/ SeenReferenced(r, c)
        \/ <<c, asset[c]>> \in req[r].todo \cup req[r].gone
    BY <1>2, <2>1 DEF CollectInv, CollectsAll
  <2>3. SeenReferenced(r, c) => SeenReferenced(r, c)'
    BY <1>1, <1>2 DEF SeenReferenced, Pointed
  <2>4. asset[c] # "none"
    BY <2>1 DEF RowInv, ReferencedHasAsset, Referenced
  <2>5. ~Deadlocked(r, k[1])
    <3>1. \A q \in Requests \ {r} : ~Open(q)
      BY <2>1 DEF CollectInv, OpenAlone
    <3> QED BY <3>1 DEF Deadlocked, Holds, BeingReferencedBy
  <2>6. ~Fault
    BY AssetConstants DEF Undisturbed, Fault, AssetTypeOK
  <2>7. CASE <<c, asset[c]>> \in req[r].todo \cup req[r].gone
    <3>1. \/ <<c, asset[c]>> \in req'[r].todo \cup req'[r].gone
          \/ /\ <<c, asset[c]>> = k
             /\ asset[k[1]] = "none" \/ SeenReferenced(r, k[1])
      BY <2>5, <2>6, <2>7, PurgeKeeps
    <3>2. <<c, asset[c]>> = k => k[1] = c
      OBVIOUS
    <3> QED BY <1>2, <2>3, <2>4, <3>1, <3>2
  <2> QED BY <2>2, <2>3, <2>7
<1> QED BY <1>6, <1>7 DEF CollectInv

LEMMA TransactionCollects ==
  ASSUME AssetTypeOK, Phases, RowInv, CollectInv, NEW r \in Requests,
         Transaction(r)
  PROVE  CollectInv'
<1>1. CASE BeginReplace(r)
  <2>1. PICK t : Becomes(r, t) /\ t.pc = "collect"
    BY <1>1, BeginReplaceForm
  <2> QED BY <1>1, <2>1, OpensCollecting DEF BeginReplace, Open
<1>2. ASSUME NEW S \in SUBSET Slots, BeginDelete(r, S) PROVE CollectInv'
  <2>1. PICK t : Becomes(r, t) /\ t.pc = "collect"
    BY <1>2, BeginDeleteForm
  <2>2. ~Open(r)
    BY <1>2, IdleType DEF BeginDelete, Open
  <2> QED BY <1>2, <2>1, <2>2, OpensCollecting DEF BeginDelete
<1>3. CASE Crash(r)
  <2>1. Becomes(r, Idle) /\ asset' = asset /\ live' = live
        /\ active' = active /\ past' = past
    BY <1>3, FinishBecomes DEF Crash, database
  <2>2. \A q \in Requests : q # r => disturbed'[q] = disturbed[q]
    BY <1>3 DEF Crash, Ends, AssetTypeOK
  <2>3. FaultsGrow
    BY <1>3, FaultsCounted DEF Crash
  <2> QED BY <2>1, <2>2, <2>3, IdleType, CollectMove
<1>4. CASE Commit(r)
  <2>1. Open(r) /\ faults' = faults
    BY <1>4 DEF Commit, Open, NoFault
  <2>2. \A q \in Requests : q # r => req'[q] = req[q] /\ disturbed'[q] = disturbed[q]
    BY <1>4 DEF Commit, Goto, Finish, Ends, AssetTypeOK
  <2>3. ~Open(r)'
    <3>1. req'[r].pc \in {"remove", "idle"}
      BY <1>4, IdleType DEF Commit, Goto, Finish, AssetTypeOK, RequestStates
    <3> QED BY <3>1 DEF Open
  <2>4. \A q \in Requests : Open(q)' => q # r /\ Open(q)
    BY <2>2, <2>3 DEF Open
  <2>5. \A q \in Requests : ~Undisturbed(q)'
    BY <2>1, <2>2, <2>4 DEF Undisturbed, CollectInv, OpenAlone
  <2> QED BY <2>5 DEF CollectInv, OpenAlone, CollectsAll
<1>5. CASE \E b \in Blogs : BeginDelete(r, {b} \X Files)
  BY <1>2, <1>5, PostSlots
<1>6. CASE \E s \in Posts : BeginDelete(r, {s})
  BY <1>2, <1>6, PostSlots
<1> QED BY <1>1, <1>3, <1>4, <1>5, <1>6, OrphansFound, PurgeCollects DEF Transaction

LEMMA RemovalCollects ==
  ASSUME AssetTypeOK, Phases, RowInv, CollectInv, NEW r \in Requests, Removal(r)
  PROVE  CollectInv'
<1>1. CASE RemovedAll(r)
  <2>1. FaultsGrow
    BY <1>1, FaultsCounted DEF RemovedAll
  <2> QED BY <1>1, <2>1, FinishBecomes, IdleType, CollectMove DEF RemovedAll, database
<1>2. ASSUME NEW k \in Keys, RemoveObject(r, k) PROVE CollectInv'
  <2>1. PICK t : Becomes(r, t) /\ t.pc = "remove"
    BY <1>2, RemoveObjectForm
  <2>2. FaultsGrow
    BY <1>2, FaultsCounted DEF RemoveObject
  <2> QED BY <1>2, <2>1, <2>2, CollectMove DEF RemoveObject, database
<1> QED BY <1>1, <1>2 DEF Removal

\* Every step of a verification request disturbs whatever is open.
LEMMA VerifyCollects ==
  ASSUME AssetTypeOK, RowInv, CollectInv, NEW d \in Docs, Verify(d)
  PROVE  CollectInv'
<1>1. Disturbs /\ req' = req
  BY DEF Verify, SubmitVerificationRequest, CancelVerificationRequest,
         ReviewVerificationRequest, DeleteAccount, VerificationRest
<1>2. \A q \in Requests : (Open(q)' <=> Open(q)) /\ ~Undisturbed(q)'
  BY <1>1 DEF Disturbs, Open, Undisturbed
<1> QED BY <1>2 DEF CollectInv, OpenAlone, CollectsAll

LEMMA CollectInit == Init => CollectInv
BY IdleType DEF Init, CollectInv, OpenAlone, CollectsAll, Undisturbed, Open

LEMMA CollectStep ==
  AssetTypeOK /\ Phases /\ RowInv /\ CollectInv /\ [Next]_vars => CollectInv'
<1> SUFFICES ASSUME AssetTypeOK, Phases, RowInv, CollectInv, [Next]_vars
             PROVE  CollectInv'
  OBVIOUS
<1>1. CASE UNCHANGED vars
  BY <1>1, CollectCalm DEF vars, database, Open, Undisturbed
<1> QED BY <1>1, UploadCollects, TransactionCollects, RemovalCollects, VerifyCollects
        DEF Next

\* What the commit gives up and nothing else refers to is collected.
LEMMA CommitCollects ==
  ASSUME AssetTypeOK, Phases, CollectInv, NEW r \in Requests, Commit(r),
         ~disturbed[r], faults = 0, NEW c \in Sums, NEW s \in req[r].slots,
         live[s] = c
  PROVE  Referenced(c)' \/ asset'[c] = "none"
<1>1. Undisturbed(r) /\ req[r].pc = "purge" /\ req[r].todo = {} /\ PhaseOK(req[r])
  BY DEF Commit, Undisturbed, Open, Phases
<1>2. s \in Slots
  BY DEF AssetTypeOK, RequestStates
<1>3. SeenReferenced(r, c) \/ <<c, asset[c]>> \in req[r].gone
  BY <1>1 DEF CollectInv, CollectsAll
<1>4. /\ asset'[c] = IF \E k \in req[r].gone : k[1] = c THEN "none" ELSE asset[c]
      /\ \A x \in Slots : live'[x] = IF x \in req[r].slots THEN req[r].sum ELSE live[x]
      /\ active' = active /\ past' = past
  BY DEF Commit, TxRest
<1>5. CASE <<c, asset[c]>> \in req[r].gone
  <2>1. \E k \in req[r].gone : k[1] = c
    BY <1>5
  <2> QED BY <1>4, <2>1
<1>6. CASE SeenReferenced(r, c)
  BY <1>2, <1>4, <1>6 DEF SeenReferenced, Referenced, Pointed
<1> QED BY <1>3, <1>5, <1>6

\* A transaction that gives up the last reference to an asset collects it: its
\* query and its savepoints leave no orphan behind on their own.  It takes
\* another transaction, a new reference or pointer, or a failed call.
THEOREM LastReferenceIsCollected == Spec => LastReferenceCollects
<1>1. Init => AssetTypeOK /\ Phases /\ RowInv /\ CollectInv
  BY TypeInit, RowInit, CollectInit
<1>2. AssetTypeOK /\ Phases /\ RowInv /\ CollectInv /\ [Next]_vars
         => (AssetTypeOK /\ Phases /\ RowInv /\ CollectInv)'
  BY TypeStep, RowStep, CollectStep
<1>3. AssetTypeOK /\ Phases /\ CollectInv /\ [Next]_vars
         => [\A r \in Requests :
               Commit(r) /\ ~disturbed[r] /\ faults = 0 =>
                 \A c \in Sums :
                   (\E s \in req[r].slots : live[s] = c)
                      => Referenced(c)' \/ asset'[c] = "none"]_vars
  BY CommitCollects
<1> QED BY <1>1, <1>2, <1>3, PTL DEF Spec, LastReferenceCollects

===============================================================================
