------------------------------- MODULE AssetRefs -------------------------------
(***************************************************************************)
(* The content-addressed assets of storage v2: uploads that reference an   *)
(* asset by its checksum, replacements and deletions that collect an asset *)
(* with its last reference, verification requests that point at documents, *)
(* and the objects in MinIO.                                               *)
(*                                                                         *)
(* PostgreSQL runs READ COMMITTED.  A deletion or a replacement is split   *)
(* where it reads: its transaction marks the references, looks for         *)
(* orphans, deletes them one by one and commits; the gateway, or the       *)
(* consumer, removes the objects after that.  An upload is a sequence of   *)
(* calls.                                                                  *)
(***************************************************************************)
EXTENDS Naturals, FiniteSets

CONSTANTS
    Sums,       \* checksums
    NoSum,
    Blogs, Files,
    Docs,       \* one file of one applicant's verification
    Requests,   \* requests to the gateway and messages to the consumer
    MaxOps,     \* bound: uploads, deletions and steps of applicants
    MaxFaults   \* bound: failed calls and crashes

ASSUME AssetConstants ==
    /\ NoSum \notin Sums
    /\ (Blogs \X Files) \cap Docs = {}
    /\ MaxOps \in Nat /\ MaxFaults \in Nat

\* owner_id and file_name of a blog's image; purpose and owner follow.
Posts == Blogs \X Files
Slots == Posts \cup Docs

\* The bucket is part of what an object key says.
Buckets == {"public", "private"}
Keys == Sums \X Buckets

VARIABLES
    asset,     \* asset[c]: bucket of the canonical object_key, or "none"
    objects,   \* what MinIO holds
    live,      \* live[s]: checksum of the live reference of slot s
    active,    \* active[d]: checksums of the undecided verification request
    past,      \* past[d]: checksums of the decided ones
    req,       \* req[r]: the state of one request
    ops, faults,
    overtaken, \* history: keys removed although an upload had come between
    disturbed  \* history: others changed references while r had a transaction

database == <<asset, live, active, past>>
vars == <<database, objects, req, ops, faults, overtaken, disturbed>>

\* slots: the references touched; todo: the orphans found and still to collect;
\* gone: those whose row is deleted by the open transaction, and after it the
\* objects to remove.
RequestStates ==
    [pc : {"idle", "check", "put", "register", "reference",
           "collect", "purge", "remove"},
     kind : {"none", "create", "replace", "document", "delete"},
     sum : Sums \cup {NoSum}, slots : SUBSET Slots, todo : SUBSET Keys,
     gone : SUBSET Keys]

Idle == [pc |-> "idle", kind |-> "none", sum |-> NoSum, slots |-> {},
         todo |-> {}, gone |-> {}]

Init ==
    /\ asset = [c \in Sums |-> "none"]
    /\ objects = {}
    /\ live = [s \in Slots |-> NoSum]
    /\ active = [d \in Docs |-> {}] /\ past = [d \in Docs |-> {}]
    /\ req = [r \in Requests |-> Idle]
    /\ ops = 0 /\ faults = 0
    /\ overtaken = {}
    /\ disturbed = [r \in Requests |-> FALSE]

Operation == ops < MaxOps /\ ops' = ops + 1
Fault     == faults < MaxFaults /\ faults' = faults + 1
NoFault   == UNCHANGED faults

Finish(r)   == req' = [req EXCEPT ![r] = Idle]
Goto(r, pc) == req' = [req EXCEPT ![r].pc = pc]

-------------------------------------------------------------------------------
(* Rows, transactions and locks *)

Open(r) == req[r].pc \in {"collect", "purge"}

\* References or pointers change under the transactions that are open.
Disturbs == disturbed' = [q \in Requests |-> disturbed[q] \/ Open(q)]

BucketOf(kind) == IF kind = "document" THEN "private" ELSE "public"

\* The row of c is deleted by an open transaction: statements that need the
\* row, or insert it again, wait for the commit.
BeingDeleted(c) == \E r \in Requests :
                      Open(r) /\ \E k \in req[r].gone : k[1] = c

\* An open replacement has inserted a reference to c: its foreign key holds a
\* lock on the row of c.
BeingReferencedBy(q, c) == Open(q) /\ req[q].kind = "replace" /\ req[q].sum = c

SlotLocked(s) == \E r \in Requests : Open(r) /\ s \in req[r].slots

Pointed(c) == \E d \in Docs : c \in active[d] \cup past[d]

Referenced(c) == (\E s \in Slots : live[s] = c) \/ Pointed(c)

\* Fault: the references r has marked itself still count.
BugSeesItsOwn(r, c) ==
    \/ \E s \in Slots : live[s] = c
    \/ req[r].kind = "replace" /\ req[r].sum = c
    \/ Pointed(c)

\* What a statement of r sees: its own changes and what others committed.
SeenReferenced(r, c) ==
    \/ \E s \in Slots \ req[r].slots : live[s] = c
    \/ req[r].kind = "replace" /\ req[r].sum = c
    \/ Pointed(c)

-------------------------------------------------------------------------------
(* Uploads: of a blog's image, of another in its place, of a document *)

UploadRest == UNCHANGED <<live, active, past, disturbed>>

\* File names of new images are unique: no other request uses the slot.
StartUpload(r, kind, c, s) ==
    /\ Operation /\ req[r] = Idle
    /\ IF kind = "document" THEN s \in Docs ELSE s \in Posts
    /\ kind = "create" =>
          live[s] = NoSum /\ \A q \in Requests : s \notin req[q].slots
    /\ req' = [req EXCEPT ![r] =
                 [pc |-> IF kind = "document" THEN "put" ELSE "check",
                  kind |-> kind, sum |-> c, slots |-> {s},
                  todo |-> {}, gone |-> {}]]
    /\ NoFault /\ UNCHANGED <<asset, objects, overtaken>>
    /\ UploadRest

\* A check that fails is answered as "absent".
CheckAsset(r) ==
    /\ req[r].pc = "check"
    /\ \/ /\ NoFault
          /\ Goto(r, IF asset[req[r].sum] = "none" THEN "put" ELSE "reference")
       \/ Fault /\ Goto(r, "put")
    /\ UNCHANGED <<asset, objects, overtaken, ops>>
    /\ UploadRest

KeyOf(r) == <<req[r].sum, BucketOf(req[r].kind)>>

\* Fault: an upload that failed is registered all the same.
BugIgnoresPutError(r) ==
    /\ req[r].pc = "put"
    /\ \/ objects' = objects \cup {KeyOf(r)} /\ NoFault
       \/ UNCHANGED objects /\ Fault
    /\ Goto(r, "register")
    /\ UNCHANGED <<asset, overtaken, ops>>
    /\ UploadRest

PutObject(r) ==
    /\ req[r].pc = "put"
    /\ objects' = objects \cup {KeyOf(r)}
    /\ Goto(r, "register")
    /\ NoFault /\ UNCHANGED <<asset, overtaken, ops>>
    /\ UploadRest

\* Fault: the kind of the upload is stored for its bucket.
BugStoresKind(r) ==
    IF asset[req[r].sum] = "none"
    THEN [asset EXCEPT ![req[r].sum] = req[r].kind] ELSE asset

\* Fault: ON CONFLICT DO UPDATE.
BugLastKeyWins(r) == [asset EXCEPT ![req[r].sum] = BucketOf(req[r].kind)]

\* The first object_key of a checksum stays the canonical one.
Registered(r) ==
    IF asset[req[r].sum] = "none"
    THEN [asset EXCEPT ![req[r].sum] = BucketOf(req[r].kind)] ELSE asset

ToBeRemoved(k) == \E q \in Requests : req[q].pc = "remove" /\ k \in req[q].gone

\* A document goes on to its reference even when the registration failed.
RegisterAsset(r) ==
    /\ req[r].pc = "register" /\ ~BeingDeleted(req[r].sum)
    /\ \/ /\ NoFault /\ asset' = Registered(r)
          /\ overtaken' = IF asset' # asset /\ ToBeRemoved(KeyOf(r))
                          THEN overtaken \cup {KeyOf(r)} ELSE overtaken
       \/ /\ Fault /\ req[r].kind = "document"
          /\ UNCHANGED <<asset, overtaken>>
    /\ Goto(r, "reference")
    /\ UNCHANGED <<objects, ops>>
    /\ UploadRest

\* Inserted or restored; already there; refused because the slot refers to
\* something else; or refused because the asset is gone.
CreateAssetRef(r) ==
    LET c == req[r].sum IN
    /\ req[r].pc = "reference" /\ req[r].kind # "replace"
    /\ ~BeingDeleted(c)
    /\ \A s \in req[r].slots : live[s] = NoSum => ~SlotLocked(s)
    /\ live' = [s \in Slots |->
                  IF s \in req[r].slots /\ live[s] = NoSum /\ asset[c] # "none"
                  THEN c ELSE live[s]]
    /\ Finish(r)
    /\ IF live' # live THEN Disturbs ELSE UNCHANGED disturbed
    /\ NoFault
    /\ UNCHANGED <<asset, active, past, objects, ops, overtaken>>

\* The client leaves, or a call fails, before the reference is made.
AbandonUpload(r) ==
    /\ req[r].pc \in {"check", "put", "register", "reference"}
    /\ Finish(r)
    /\ NoFault /\ UNCHANGED <<asset, objects, overtaken, ops>>
    /\ UploadRest

-------------------------------------------------------------------------------
(* The transactions of DeleteAssetRef and ReplaceAssetRef *)

TxRest == UNCHANGED <<objects, overtaken, active, past>>

\* Two transactions that are open at once disturb each other.
Begins(r) ==
    disturbed' = [q \in Requests |-> IF q = r THEN \E p \in Requests : Open(p)
                                     ELSE disturbed[q] \/ Open(q)]

Ends(r) == disturbed' = [disturbed EXCEPT ![r] = FALSE]

\* The live reference of the slot, if any, is deleted and the new one inserted;
\* the old one is marked only now, so nothing is seen of it before the commit.
BeginReplace(r) ==
    LET c == req[r].sum IN
    /\ req[r].pc = "reference" /\ req[r].kind = "replace"
    /\ asset[c] # "none" /\ ~BeingDeleted(c)
    /\ \A s \in req[r].slots : ~SlotLocked(s)
    /\ Goto(r, "collect")
    /\ Begins(r)
    /\ NoFault /\ UNCHANGED <<asset, live, ops>>
    /\ TxRest

\* One file of a blog, or all of them; references already deleted do not count.
BeginDelete(r, S) ==
    LET touched == {s \in S : live[s] # NoSum} IN
    /\ Operation /\ req[r] = Idle
    /\ touched # {} /\ \A s \in S : ~SlotLocked(s)
    /\ req' = [req EXCEPT ![r] =
                 [pc |-> "collect", kind |-> "delete", sum |-> NoSum,
                  slots |-> touched, todo |-> {}, gone |-> {}]]
    /\ Begins(r)
    /\ NoFault /\ UNCHANGED <<asset, live>>
    /\ TxRest

Orphans(r) == {k \in Keys : /\ \E s \in req[r].slots : live[s] = k[1]
                            /\ asset[k[1]] = k[2]
                            /\ ~SeenReferenced(r, k[1])}

\* One query finds the orphans among the checksums touched, and their keys.
CollectOrphans(r) ==
    /\ req[r].pc = "collect"
    /\ req' = [req EXCEPT ![r].pc = "purge", ![r].todo = Orphans(r)]
    /\ NoFault /\ UNCHANGED <<asset, live, ops, disturbed>>
    /\ TxRest

Purged(r, k) ==
    LET t == req[r]
    IN  req' = [req EXCEPT ![r] = [t EXCEPT !.todo = t.todo \ {k},
                                            !.gone = t.gone \cup {k}]]
SkipPurge(r, k) == req' = [req EXCEPT ![r].todo = @ \ {k}]

\* q holds, or has deleted, the row of c.
Holds(q, c) == \/ BeingReferencedBy(q, c)
               \/ Open(q) /\ \E k \in req[q].gone : k[1] = c

\* r waits for that row; when each waits for a row of the other, PostgreSQL
\* fails one of the statements.
MustWait(r, c)   == \E q \in Requests \ {r} : Holds(q, c)
Deadlocked(r, c) == \E q \in Requests \ {r} :
                       /\ Holds(q, c)
                       /\ req[q].pc = "purge" /\ \E e \in req[q].todo : Holds(r, e[1])

\* Fault: nothing refuses the deletion of a row that is referenced again.
BugNoForeignKeys(r, k) ==
    LET c == k[1] IN
    /\ req[r].pc = "purge" /\ k \in req[r].todo
    /\ \/ ~MustWait(r, c) /\ asset[c] # "none" /\ Purged(r, k) /\ NoFault
       \/ ~MustWait(r, c) /\ asset[c] = "none" /\ SkipPurge(r, k) /\ NoFault
       \/ SkipPurge(r, k) /\ Fault
    /\ UNCHANGED <<asset, live, ops, disturbed>>
    /\ TxRest

\* In a savepoint: the soft-deleted references go, then the row, under whatever
\* key it is by now.  The foreign keys refuse when a reference or a pointer has
\* come since; a refusal, another failure, or a row that is gone already leaves
\* this orphan out.
PurgeOrphanedStorageAsset(r, k) ==
    LET c == k[1] IN
    /\ req[r].pc = "purge" /\ k \in req[r].todo
    /\ \/ /\ ~MustWait(r, c) /\ asset[c] # "none" /\ ~SeenReferenced(r, c)
          /\ Purged(r, k) /\ NoFault
       \/ /\ ~MustWait(r, c) /\ (asset[c] = "none" \/ SeenReferenced(r, c))
          /\ SkipPurge(r, k) /\ NoFault
       \/ Deadlocked(r, c) /\ SkipPurge(r, k) /\ NoFault
       \/ SkipPurge(r, k) /\ Fault
    /\ UNCHANGED <<asset, live, ops, disturbed>>
    /\ TxRest

\* The objects of a replacement's orphans are told to nobody.
Commit(r) ==
    /\ req[r].pc = "purge" /\ req[r].todo = {}
    /\ asset' = [c \in Sums |->
                   IF \E k \in req[r].gone : k[1] = c THEN "none" ELSE asset[c]]
    /\ live' = [s \in Slots |-> IF s \in req[r].slots THEN req[r].sum ELSE live[s]]
    /\ IF req[r].kind = "delete" THEN Goto(r, "remove") ELSE Finish(r)
    /\ Ends(r)
    /\ NoFault /\ UNCHANGED ops
    /\ TxRest

\* After the commit; a failure is logged and leaves the object.
RemoveObject(r, k) ==
    /\ req[r].pc = "remove" /\ k \in req[r].gone
    /\ req' = [req EXCEPT ![r].gone = @ \ {k}]
    /\ \/ /\ NoFault /\ objects' = objects \ {k}
          /\ overtaken' =
                IF \E q \in Requests : req[q].pc = "register" /\ KeyOf(q) = k
                THEN overtaken \cup {k} ELSE overtaken
       \/ Fault /\ UNCHANGED <<objects, overtaken>>
    /\ UNCHANGED <<database, ops, disturbed>>

RemovedAll(r) ==
    /\ req[r].pc = "remove" /\ req[r].gone = {}
    /\ Finish(r)
    /\ NoFault /\ UNCHANGED <<database, objects, ops, overtaken, disturbed>>

\* The process dies: its transaction rolls back, objects to remove stay.
Crash(r) ==
    /\ req[r].pc \in {"collect", "purge", "remove"}
    /\ Fault /\ Finish(r) /\ Ends(r)
    /\ UNCHANGED <<database, objects, ops, overtaken>>

-------------------------------------------------------------------------------
(* Verification requests, in the users service *)

VerificationRest == /\ Disturbs
                    /\ UNCHANGED <<asset, live, objects, req, faults, overtaken>>

\* At most one is undecided.  The check that every asset exists adds nothing:
\* the foreign keys make it again.
SubmitVerificationRequest(d, C) ==
    /\ Operation
    /\ C # {} /\ active[d] = {}
    /\ \A c \in C : asset[c] # "none" /\ ~BeingDeleted(c)
    /\ active' = [active EXCEPT ![d] = C] /\ UNCHANGED past
    /\ VerificationRest

CancelVerificationRequest(d) ==
    /\ Operation
    /\ active[d] # {}
    /\ active' = [active EXCEPT ![d] = {}] /\ UNCHANGED past
    /\ VerificationRest

\* A decided request keeps its checksums.
ReviewVerificationRequest(d) ==
    /\ Operation
    /\ active[d] # {}
    /\ past' = [past EXCEPT ![d] = @ \cup active[d]]
    /\ active' = [active EXCEPT ![d] = {}]
    /\ VerificationRest

\* The requests go with the account of their author.
DeleteAccount(d) ==
    /\ Operation
    /\ active[d] \cup past[d] # {}
    /\ active' = [active EXCEPT ![d] = {}] /\ past' = [past EXCEPT ![d] = {}]
    /\ VerificationRest

-------------------------------------------------------------------------------
Upload(r) ==
    \/ \E kind \in {"create", "replace", "document"}, c \in Sums, s \in Slots :
          StartUpload(r, kind, c, s)
    \/ CheckAsset(r) \/ PutObject(r) \/ RegisterAsset(r)
    \/ CreateAssetRef(r) \/ AbandonUpload(r)

Transaction(r) ==
    \/ BeginReplace(r)
    \/ \E b \in Blogs : BeginDelete(r, {b} \X Files)
    \/ \E s \in Posts : BeginDelete(r, {s})
    \/ CollectOrphans(r)
    \/ \E k \in Keys : PurgeOrphanedStorageAsset(r, k)
    \/ Commit(r) \/ Crash(r)

Removal(r) == RemovedAll(r) \/ \E k \in Keys : RemoveObject(r, k)

Verify(d) ==
    \/ \E C \in SUBSET Sums : SubmitVerificationRequest(d, C)
    \/ CancelVerificationRequest(d) \/ ReviewVerificationRequest(d)
    \/ DeleteAccount(d)

Next == \/ \E r \in Requests : Upload(r) \/ Transaction(r) \/ Removal(r)
        \/ \E d \in Docs : Verify(d)

Spec == Init /\ [][Next]_vars

-------------------------------------------------------------------------------
(* Properties *)

\* Every variable holds a value of its kind.
AssetTypeOK ==
    /\ asset \in [Sums -> Buckets \cup {"none"}]
    /\ objects \subseteq Keys /\ overtaken \subseteq Keys
    /\ live \in [Slots -> Sums \cup {NoSum}]
    /\ active \in [Docs -> SUBSET Sums] /\ past \in [Docs -> SUBSET Sums]
    /\ req \in [Requests -> RequestStates]
    /\ ops \in 0..MaxOps /\ faults \in 0..MaxFaults
    /\ disturbed \in [Requests -> BOOLEAN]

\* Whatever references and verification requests come while a collection runs,
\* none is left pointing at an asset that was collected (database.go 198-227:
\* the foreign keys make the collector skip).
ReferencedHasAsset ==
    \A c \in Sums : Referenced(c) => asset[c] # "none"

\* Nor at an asset whose object is gone, but for one race: the object is removed
\* after the commit, and an upload of the same bytes may have come between.
ReferencedHasObject ==
    \A c \in Sums :
       Referenced(c) /\ <<c, asset[c]>> \notin overtaken
          => <<c, asset[c]>> \in objects

\* The canonical key of an asset in use never changes, whoever uploads the same
\* bytes to whichever bucket: the key an upload was given remains the asset's key.
CanonicalKeyStays ==
    [][\A c \in Sums :
          Referenced(c) /\ Referenced(c)' => asset'[c] = asset[c]]_vars

\* A transaction that gives up the last reference to an asset collects it,
\* unless others changed references meanwhile or a statement failed
\* (storage-v2-strip-gc-visibility-design.md 1.2).
LastReferenceCollects ==
    [][\A r \in Requests :
          Commit(r) /\ ~disturbed[r] /\ faults = 0 =>
             \A c \in Sums :
                (\E s \in req[r].slots : live[s] = c)
                   => Referenced(c)' \/ asset'[c] = "none"]_vars
===============================================================================
