------------------------------- MODULE BlogIndex -------------------------------
(***************************************************************************)
(* The blog service and its search index: the handlers that publish,       *)
(* schedule, withdraw, archive and delete a blog, the autosave streams of  *)
(* the editors, and the scheduler that every instance runs.                *)
(*                                                                         *)
(* A scheduler searches for due blogs (the search lags behind the index),  *)
(* publishes each with the sequence number it found as a precondition, and *)
(* announces the publication.  What becomes of the messages is the subject *)
(* of BlogPipeline; here a message is only sent or not.                    *)
(***************************************************************************)
EXTENDS Integers

CONSTANTS
    Blogs,
    Instances,        \* processes of the blog service
    Streams,          \* autosave connections of editors
    MaxRetries,       \* scheduler.MaxRetries
    MaxFailedCycles,  \* scheduler.MaxFailedCycles
    MaxTime,          \* bound: the clock runs from 0 to MaxTime
    MaxOps,           \* bound: requests and edits of users
    MaxFaults         \* bound: failed calls, lost answers and crashes

ASSUME BlogConstants ==
    /\ Blogs # {}
    /\ MaxRetries \in Nat \ {0} /\ MaxFailedCycles \in Nat \ {0}
    /\ MaxTime \in Nat /\ MaxOps \in Nat /\ MaxFaults \in Nat

VARIABLES
    doc,         \* doc[b]: the document of b in the index
    searchable,  \* searchable[b]: the version of doc[b] a search sees
    clock,
    stream,      \* stream[s]: the state of one DraftBlogV2 call
    sched,       \* sched[i]: the state of the scheduler of instance i
    ops, faults, \* how much of the bounds is used
    created,     \* history: was b announced since it was last deleted
    wasPublished,\* history: the index once held b as published
    fulfilled    \* history: scheduled publications of b committed

docVars == <<doc, wasPublished, fulfilled>>
vars == <<docVars, searchable, clock, stream, sched, ops, faults, created>>

NoTime == MaxTime + 1

\* is_draft and is_scheduled as one status; schedule_time as a point of the
\* clock; failed_attempts absent is 0.  Every write takes a new _seq_no.
Documents == [status : {"absent", "draft", "scheduled", "published"},
              at : 0..NoTime, archived : BOOLEAN, failed : Nat, seq : Nat]

Hits == [blog : Blogs, seq : Nat]

NewDocument == [status |-> "absent", at |-> NoTime, archived |-> FALSE,
                failed |-> 0, seq |-> 0]

\* pc "first": the BLOG_CREATE of this stream is out, its document is not
\* written yet.
StreamStates == [pc : {"closed", "check", "create", "first", "save", "open"},
                 blog : Blogs]

\* batch: the hits of the cycle still to do; hit, attempt: the one being done.
SchedStates == [pc : {"idle", "publish", "count", "announce"},
                batch : SUBSET Hits, hit : Hits, attempt : 0..MaxRetries]

\* created: "no", the broker took no BLOG_CREATE since the last deletion; "yes",
\* it did; "overrun", it did not, but that deletion came upon a stream that was
\* past its BLOG_CREATE.
Announcements == {"no", "yes", "overrun"}

SomeBlog == CHOOSE b \in Blogs : TRUE
Closed   == [pc |-> "closed", blog |-> SomeBlog]
NoHit    == [blog |-> SomeBlog, seq |-> 0]
Idle     == [pc |-> "idle", batch |-> {}, hit |-> NoHit, attempt |-> 0]

Init ==
    /\ doc = [b \in Blogs |-> NewDocument]
    /\ searchable = doc
    /\ clock = 0
    /\ stream = [s \in Streams |-> Closed]
    /\ sched = [i \in Instances |-> Idle]
    /\ ops = 0 /\ faults = 0
    /\ created = [b \in Blogs |-> "no"]
    /\ wasPublished = [b \in Blogs |-> FALSE]
    /\ fulfilled = [b \in Blogs |-> 0]

Request     == ops < MaxOps /\ ops' = ops + 1
Fault       == faults < MaxFaults /\ faults' = faults + 1
NoFault     == UNCHANGED faults
Exists(b)   == doc[b].status # "absent"

-------------------------------------------------------------------------------
(* Writes of the index *)

\* Replaces the document of b by d under the next sequence number.
Write(b, d) ==
    /\ doc' = [doc EXCEPT ![b] = [d EXCEPT !.seq = doc[b].seq + 1]]
    /\ wasPublished' = [wasPublished EXCEPT ![b] = @ \/ d.status = "published"]

PublishBlogById(b) == Write(b, [doc[b] EXCEPT !.status = "published"])

\* failed_attempts stays as it is.
ScheduleBlogById(b, t) ==
    Write(b, [doc[b] EXCEPT !.status = "scheduled", !.at = t])

MoveBlogToDraft(b) ==
    Write(b, [doc[b] EXCEPT !.status = "draft", !.at = NoTime])

AchieveAPublishedBlogById(b) == Write(b, [doc[b] EXCEPT !.archived = TRUE])

DeleteABlogById(b) == Write(b, NewDocument)

\* An index request replaces the whole document by the editor's draft.
IndexDraft(b) == Write(b, [NewDocument EXCEPT !.status = "draft"])

\* The search index catches up with the writes.
Refresh(b) ==
    /\ searchable[b] # doc[b]
    /\ searchable' = [searchable EXCEPT ![b] = doc[b]]
    /\ UNCHANGED <<docVars, clock, stream, sched, ops, faults, created>>

Tick ==
    /\ clock < MaxTime
    /\ clock' = clock + 1
    /\ UNCHANGED <<docVars, searchable, stream, sched, ops, faults, created>>

-------------------------------------------------------------------------------
(* Handlers.  The existence check before an update adds nothing: the update  *)
(* of a missing document fails by itself.  When the answer to the write is   *)
(* lost the handler reports an error although the document has changed.      *)

Answered == NoFault \/ Fault

HandlerRest == UNCHANGED <<searchable, clock, stream, sched, created, fulfilled>>

PublishBlog(b) ==
    Request /\ Exists(b) /\ PublishBlogById(b) /\ Answered /\ HandlerRest

\* Any time is accepted, the past included.
ScheduleBlog(b) ==
    /\ Request /\ Exists(b)
    /\ \E t \in 0..MaxTime : ScheduleBlogById(b, t)
    /\ Answered /\ HandlerRest

MoveBlogToDraftStatus(b) ==
    Request /\ Exists(b) /\ MoveBlogToDraft(b) /\ Answered /\ HandlerRest

ArchiveBlogById(b) ==
    Request /\ Exists(b) /\ AchieveAPublishedBlogById(b) /\ NoFault /\ HandlerRest

\* A stream that will write b without another BLOG_CREATE.
Writing(b) == \E s \in Streams : /\ stream[s].blog = b
                                /\ stream[s].pc \in {"first", "save", "open"}

\* A document that is already gone counts as deleted.
DeleteABlogByBlogId(b) ==
    /\ Request
    /\ IF Exists(b) THEN DeleteABlogById(b) ELSE UNCHANGED <<doc, wasPublished>>
    /\ created' = [created EXCEPT ![b] = IF Writing(b) THEN "overrun" ELSE "no"]
    /\ Answered
    /\ UNCHANGED <<searchable, clock, stream, sched, fulfilled>>

-------------------------------------------------------------------------------
(* DraftBlogV2, one stream per editor *)

StreamRest == UNCHANGED <<searchable, clock, sched, fulfilled>>
NoWrite    == UNCHANGED <<doc, wasPublished>>

Goto(s, pc) == stream' = [stream EXCEPT ![s].pc = pc]
Close(s)    == stream' = [stream EXCEPT ![s] = Closed]

OpenStream(s, b) ==
    /\ Request /\ stream[s] = Closed
    /\ stream' = [stream EXCEPT ![s] = [pc |-> "check", blog |-> b]]
    /\ NoFault /\ NoWrite /\ UNCHANGED created
    /\ StreamRest

\* The first message asks whether the blog exists and is a draft; a failed
\* question counts as "does not exist".
CheckExistence(s) ==
    LET status == doc[stream[s].blog].status IN
    /\ stream[s].pc = "check"
    /\ \/ status = "absent"    /\ Goto(s, "create") /\ NoFault
       \/ status = "published" /\ Close(s)          /\ NoFault
       \/ status \in {"draft", "scheduled"} /\ Goto(s, "save") /\ NoFault
       \/ Goto(s, "create") /\ Fault
    /\ NoWrite /\ UNCHANGED <<created, ops>>
    /\ StreamRest

\* Fault: the stream goes on although the broker did not confirm.
BugSavesUnannounced(s, stored) ==
    LET b == stream[s].blog IN
    /\ stream[s].pc = "create"
    /\ created' = [created EXCEPT ![b] = IF stored THEN "yes" ELSE @]
    /\ Goto(s, "first")
    /\ IF stored THEN NoFault ELSE Fault
    /\ NoWrite /\ UNCHANGED ops
    /\ StreamRest

\* BLOG_CREATE is sent synchronously before the first write of the index;
\* without a confirmation the stream ends, whether the broker stored it or not.
PublishCreate(s, stored) ==
    LET b == stream[s].blog IN
    /\ stream[s].pc = "create"
    /\ created' = [created EXCEPT ![b] = IF stored THEN "yes" ELSE @]
    /\ \/ stored /\ Goto(s, "first") /\ NoFault
       \/ Close(s) /\ Fault
    /\ NoWrite /\ UNCHANGED ops
    /\ StreamRest

\* Whatever the document is by now, it is replaced by the draft.  A write that
\* fails, or whose answer is lost, ends the stream; a refusal by the version
\* check of preserveMissingDraftScope is the same as the editor leaving.
SaveBlog(s) ==
    /\ stream[s].pc \in {"first", "save"}
    /\ \/ IndexDraft(stream[s].blog) /\ Goto(s, "open") /\ NoFault
       \/ IndexDraft(stream[s].blog) /\ Close(s) /\ Fault
    /\ UNCHANGED <<created, ops>>
    /\ StreamRest

\* An autosave with changed content; one without is answered and not written.
NextEdit(s) ==
    /\ Request /\ stream[s].pc = "open"
    /\ Goto(s, "save")
    /\ NoFault /\ NoWrite /\ UNCHANGED created
    /\ StreamRest

CloseStream(s) ==
    /\ stream[s] # Closed
    /\ Close(s)
    /\ NoFault /\ NoWrite /\ UNCHANGED <<created, ops>>
    /\ StreamRest

-------------------------------------------------------------------------------
(* The scheduler of instance i *)

SchedRest == UNCHANGED <<searchable, clock, stream, ops, created>>

Due(d) == /\ d.status = "scheduled" /\ ~d.archived
          /\ d.at <= clock /\ d.failed < MaxFailedCycles

\* Fault: the sequence number is read anew instead of taken from the hit.
BugNumberReadLater == {[blog |-> b, seq |-> doc[b].seq] :
                          b \in {c \in Blogs : Due(searchable[c])}}

DueHits == {[blog |-> b, seq |-> searchable[b].seq] :
               b \in {c \in Blogs : Due(searchable[c])}}

\* The search of a polling cycle, which starts when the last one is done.
GetDueScheduledBlogs(i) ==
    /\ sched[i] = Idle
    /\ DueHits # {}
    /\ sched' = [sched EXCEPT ![i].batch = DueHits]
    /\ NoFault /\ UNCHANGED docVars
    /\ SchedRest

\* The cycle goes on with the next hit.
NextDueBlog(i) ==
    /\ sched[i].pc = "idle"
    /\ \E h \in sched[i].batch :
          sched' = [sched EXCEPT ![i] =
                      [pc |-> "publish", batch |-> @.batch \ {h}, hit |-> h,
                       attempt |-> 1]]
    /\ NoFault /\ UNCHANGED docVars
    /\ SchedRest

Continue(i, pc) == sched' = [sched EXCEPT ![i].pc = pc]

\* Done with this hit, on with the batch.
Skip(i) == sched' = [sched EXCEPT ![i] = [Idle EXCEPT !.batch = sched[i].batch]]

\* Fault: one attempt too many.
BugRetriesOnceMore(i) ==
    IF sched[i].attempt <= MaxRetries
    THEN sched' = [sched EXCEPT ![i].attempt = @ + 1]
    ELSE Continue(i, "count")

\* An attempt failed with something else than a version conflict.
RetryOrGiveUp(i) ==
    IF sched[i].attempt < MaxRetries
    THEN sched' = [sched EXCEPT ![i].attempt = @ + 1]
    ELSE Continue(i, "count")

\* Fault: an unconditional update.
BugNoPrecondition(i) == sched[i] = sched[i]

\* The precondition if_seq_no of the conditional update.
SeqNoMatches(i) == doc[sched[i].hit.blog].seq = sched[i].hit.seq

CommitPublication(i) ==
    LET b == sched[i].hit.blog IN
    /\ Exists(b) /\ SeqNoMatches(i)
    /\ Write(b, [doc[b] EXCEPT !.status = "published", !.at = NoTime,
                               !.failed = 0])
    /\ fulfilled' = [fulfilled EXCEPT ![b] = @ + 1]

\* Fault: a version conflict counts as published.
BugConflictIsSuccess(i) ==
    LET b == sched[i].hit.blog IN
    /\ sched[i].pc = "publish"
    /\ \/ CommitPublication(i) /\ Continue(i, "announce") /\ NoFault
       \/ /\ Exists(b) /\ ~SeqNoMatches(i)
          /\ Continue(i, "announce") /\ NoFault /\ UNCHANGED docVars
       \/ RetryOrGiveUp(i) /\ Fault /\ UNCHANGED docVars
    /\ SchedRest

\* One attempt: published; refused because the document changed; refused
\* because it is gone; published without the answer coming back; or failed
\* before it began (the group check, the request).
PublishScheduledBlog(i) ==
    LET b == sched[i].hit.blog IN
    /\ sched[i].pc = "publish"
    /\ \/ CommitPublication(i) /\ Continue(i, "announce") /\ NoFault
       \/ Exists(b) /\ ~SeqNoMatches(i) /\ Skip(i) /\ NoFault /\ UNCHANGED docVars
       \/ ~Exists(b) /\ RetryOrGiveUp(i) /\ NoFault /\ UNCHANGED docVars
       \/ CommitPublication(i) /\ RetryOrGiveUp(i) /\ Fault
       \/ RetryOrGiveUp(i) /\ Fault /\ UNCHANGED docVars
    /\ SchedRest

\* The failed cycle is counted on the document, whatever it has become.
IncrementScheduleFailedAttempts(i) ==
    LET b == sched[i].hit.blog IN
    /\ sched[i].pc = "count"
    /\ \/ /\ Exists(b)
          /\ Write(b, [doc[b] EXCEPT !.failed = @ + 1])
          /\ NoFault /\ UNCHANGED fulfilled
       \/ ~Exists(b) /\ NoFault /\ UNCHANGED docVars
       \/ Fault /\ UNCHANGED docVars
    /\ Skip(i)
    /\ SchedRest

\* After the commit the users service is told; a failure is logged only.
AnnouncePublication(i) ==
    /\ sched[i].pc = "announce"
    /\ Skip(i)
    /\ Answered /\ UNCHANGED docVars
    /\ SchedRest

\* A blog-service process dies and is started again: the cycle of its scheduler
\* is lost, its streams end as by CloseStream.
CrashBlogService(i) ==
    /\ Fault
    /\ sched' = [sched EXCEPT ![i] = Idle]
    /\ UNCHANGED <<docVars, searchable, clock, stream, ops, created>>

-------------------------------------------------------------------------------
Handle(b) == \/ PublishBlog(b) \/ ScheduleBlog(b) \/ ArchiveBlogById(b)
             \/ MoveBlogToDraftStatus(b) \/ DeleteABlogByBlogId(b)

Edit(s) == \/ \E b \in Blogs : OpenStream(s, b)
           \/ \E stored \in BOOLEAN : PublishCreate(s, stored)
           \/ CheckExistence(s) \/ SaveBlog(s) \/ NextEdit(s) \/ CloseStream(s)

Schedule(i) == \/ GetDueScheduledBlogs(i) \/ NextDueBlog(i)
               \/ PublishScheduledBlog(i)
               \/ IncrementScheduleFailedAttempts(i) \/ AnnouncePublication(i)

Next ==
    \/ Tick
    \/ \E b \in Blogs : Refresh(b) \/ Handle(b)
    \/ \E s \in Streams : Edit(s)
    \/ \E i \in Instances : Schedule(i) \/ CrashBlogService(i)

\* The index is refreshed every second, and the schedulers poll on a timer for
\* as long as their processes run.
Fairness == /\ \A b \in Blogs : WF_vars(Refresh(b))
            /\ \A i \in Instances : WF_vars(Schedule(i))

Spec == Init /\ [][Next]_vars /\ Fairness

-------------------------------------------------------------------------------
(* Properties *)

\* Every variable holds a value of its kind.
TypeOK ==
    /\ doc \in [Blogs -> Documents]
    /\ searchable \in [Blogs -> Documents]
    /\ clock \in 0..MaxTime
    /\ stream \in [Streams -> StreamStates]
    /\ sched \in [Instances -> SchedStates]
    /\ ops \in 0..MaxOps /\ faults \in 0..MaxFaults
    /\ created \in [Blogs -> Announcements]
    /\ wasPublished \in [Blogs -> BOOLEAN]
    /\ fulfilled \in [Blogs -> Nat]

\* A search sees the document as it is, or an earlier version of it.
SearchLags ==
    \A b \in Blogs :
       /\ searchable[b].seq <= doc[b].seq
       /\ searchable[b].seq = doc[b].seq => searchable[b] = doc[b]

StaleOrDue(h) == /\ h.seq <= doc[h.blog].seq
                 /\ h.seq = doc[h.blog].seq => Due(doc[h.blog])

\* However long ago a scheduler found a blog, and whatever others did since:
\* when the sequence number it holds still matches, the blog is still due.
HitsAreStaleOrDue ==
    \A i \in Instances :
       /\ \A h \in sched[i].batch : StaleOrDue(h)
       /\ sched[i].pc = "publish" => StaleOrDue(sched[i].hit)

\* The order an author has standing, as the index holds it.
Order == [b \in Blogs |->
    LET d == doc[b] IN
    IF d.status # "scheduled" \/ d.archived \/ d.failed >= MaxFailedCycles
    THEN "none"
    ELSE IF d.at <= clock THEN "due" ELSE "waiting"]

Contract == INSTANCE ScheduleContract WITH order <- Order

\* The schedulers keep the contract: each order is carried out at most once
\* over all instances, never early, never after it was changed or archived,
\* and no due order waits for ever (scheduler.go, publishBlogWithRetry).
ImplementsContract == Contract!Spec

\* The part of the contract that says what may never happen.
ImplementsContractSafely == Contract!Init /\ [][Contract!Next]_(Contract!vars)

\* A document is in the index only if the broker took a BLOG_CREATE for it since
\* it was last deleted: DraftBlogV2 publishes before it writes, and ends the
\* stream otherwise.  The one gap is a stream that was open when the blog was
\* deleted: it writes on without asking again (service_v2.go 129-131).
EveryDocumentWasAnnounced ==
    \A b \in Blogs : Exists(b) => created[b] # "no"

===============================================================================
