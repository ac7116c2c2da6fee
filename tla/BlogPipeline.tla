----------------------------- MODULE BlogPipeline -----------------------------
(***************************************************************************)
(* A blog across two stores: the document in the index of the blog service *)
(* (BlogIndex) and the row of the users service, which follows through     *)
(* messages.                                                               *)
(*                                                                         *)
(* A handler writes the index first and leaves its message to a goroutine, *)
(* so messages of successive calls reach the queue in any order; a stream  *)
(* sends BLOG_CREATE before its first write, and a scheduler announces a   *)
(* publication after its commit.  One consumer applies the queue in order. *)
(***************************************************************************)
EXTENDS BlogIndex, Sequences, SequencesExt

VARIABLES
    outbox,      \* outbox[m]: goroutines that have yet to send m
    queue,       \* the queue of the users service
    row,         \* row[b]: blog.status in Postgres, or "none"
    consumerUp,  \* is the process of the users service running
    raced,       \* history: two messages about b were on their way at once
    astray       \* history: a change of b and its message were parted for good

indexVars == vars
mailVars  == <<outbox, queue>>
userVars  == <<row, consumerUp>>
history   == <<raced, astray>>
pipeVars  == <<indexVars, mailVars, userVars, history>>

Acts == {"CREATE", "UPDATE", "PUBLISH", "SCHEDULE", "DELETE"}
Messages == [blog : Blogs, act : Acts]
Message(b, act) == [blog |-> b, act |-> act]

PipeInit ==
    /\ Init
    /\ outbox = [m \in Messages |-> 0]
    /\ queue = <<>>
    /\ row = [b \in Blogs |-> "none"]
    /\ consumerUp = TRUE
    /\ raced = [b \in Blogs |-> FALSE]
    /\ astray = [b \in Blogs |-> FALSE]

-------------------------------------------------------------------------------
(* What the blog service tells the users service *)

\* The scheduler of i committed a publication of b and has yet to tell.
Announces(i, b) == sched[i].pc = "announce" /\ sched[i].hit.blog = b

\* Somebody is between a change of b and the message about it.
Unfinished(b) ==
    \/ \E act \in Acts : outbox[Message(b, act)] > 0
    \/ \E i \in Instances : Announces(i, b)
    \/ \E s \in Streams : stream[s].pc = "first" /\ stream[s].blog = b

NotesRace(b) == raced' = [raced EXCEPT ![b] = @ \/ Unfinished(b)]

NotesLoss(b, lost) == astray' = [astray EXCEPT ![b] = @ \/ lost]

\* The goroutine a handler starts once its write was answered.
Tell(m) ==
    LET answered == faults' = faults IN
    /\ outbox' = IF answered THEN [outbox EXCEPT ![m] = @ + 1] ELSE outbox
    /\ NotesRace(m.blog) /\ NotesLoss(m.blog, ~answered)
    /\ UNCHANGED <<queue, userVars>>

\* Fault: the scheduling handler sends the message of the draft handler.
BugScheduleTellsUpdate(b) == ScheduleBlog(b) /\ Tell(Message(b, "UPDATE"))

TellPublish(b)  == PublishBlog(b) /\ Tell(Message(b, "PUBLISH"))
TellSchedule(b) == ScheduleBlog(b) /\ Tell(Message(b, "SCHEDULE"))
TellDraft(b)    == MoveBlogToDraftStatus(b) /\ Tell(Message(b, "UPDATE"))
TellDelete(b)   == DeleteABlogByBlogId(b) /\ Tell(Message(b, "DELETE"))

\* Fault: a goroutine sends although none is left to send.
BugSendsAgain(m) ==
    /\ outbox' = [outbox EXCEPT ![m] = @ - 1]
    /\ queue' = Append(queue, m) /\ NoFault
    /\ UNCHANGED <<docVars, searchable, clock, stream, sched, ops, created,
                   userVars, history>>

\* PublishReliable in a goroutine: stored, stored twice because a confirmation
\* was lost, or given up after the retries.
SendFromGoroutine(m) ==
    /\ outbox[m] > 0
    /\ outbox' = [outbox EXCEPT ![m] = @ - 1]
    /\ \/ queue' = Append(queue, m) /\ NoFault
       \/ queue' = queue \o <<m, m>> /\ Fault
       \/ queue' = queue /\ Fault
    /\ NotesLoss(m.blog, queue' = queue)
    /\ UNCHANGED <<docVars, searchable, clock, stream, sched, ops, created,
                   userVars, raced>>

\* A BLOG_CREATE that is stored without the stream hearing of it is a row without
\* a document.
TellCreate(s, stored) ==
    LET b == stream[s].blog IN
    /\ PublishCreate(s, stored)
    /\ queue' = IF stored THEN Append(queue, Message(b, "CREATE")) ELSE queue
    /\ NotesRace(b) /\ NotesLoss(b, stored /\ faults' # faults)
    /\ UNCHANGED <<outbox, userVars>>

\* A save that creates the document its BLOG_CREATE announced, or that keeps a
\* draft a draft, needs no message; any other changes the status silently.
SaveAndTellNobody(s) ==
    LET b == stream[s].blog
        told == \/ doc[b].status = "draft"
                \/ doc[b].status = "absent" /\ stream[s].pc = "first"
    IN
    /\ SaveBlog(s)
    /\ NotesLoss(b, ~told)
    /\ UNCHANGED <<mailVars, userVars, raced>>

\* A stream that ends between BLOG_CREATE and its first write.
LeaveStream(s) ==
    LET b == stream[s].blog IN
    /\ CloseStream(s)
    /\ NotesLoss(b, stream[s].pc = "first")
    /\ UNCHANGED <<mailVars, userVars, raced>>

\* A scheduler commits first and tells afterwards; of a commit it got no answer to
\* it tells nobody.
AttemptPublication(i) ==
    LET b == sched[i].hit.blog IN
    /\ PublishScheduledBlog(i)
    /\ IF doc' # doc THEN NotesRace(b) ELSE UNCHANGED raced
    /\ NotesLoss(b, doc' # doc /\ faults' # faults)
    /\ UNCHANGED <<mailVars, userVars>>

TellPublication(i) ==
    LET m == Message(sched[i].hit.blog, "PUBLISH") IN
    /\ AnnouncePublication(i)
    /\ IF faults' = faults THEN queue' = Append(queue, m)
       ELSE queue' \in {queue, queue \o <<m, m>>}
    /\ NotesLoss(m.blog, queue' = queue)
    /\ UNCHANGED <<outbox, userVars, raced>>

\* With the process go some of the goroutines, and the publication its scheduler
\* was about to announce.
CrashWithGoroutines(i) ==
    /\ CrashBlogService(i)
    /\ \E lost \in SUBSET {m \in Messages : outbox[m] > 0} :
          /\ outbox' = [m \in Messages |-> IF m \in lost THEN 0 ELSE outbox[m]]
          /\ astray' = [b \in Blogs |-> \/ astray[b] \/ Announces(i, b)
                                       \/ \E m \in lost : m.blog = b]
    /\ UNCHANGED <<queue, userVars, raced>>

\* The steps of the index that no message belongs to.
Untold ==
    /\ \/ Tick
       \/ \E b \in Blogs : Refresh(b) \/ ArchiveBlogById(b)
       \/ \E s \in Streams : \/ \E b \in Blogs : OpenStream(s, b)
                             \/ CheckExistence(s) \/ NextEdit(s)
       \/ \E i \in Instances : \/ GetDueScheduledBlogs(i) \/ NextDueBlog(i)
                               \/ IncrementScheduleFailedAttempts(i)
    /\ UNCHANGED <<mailVars, userVars, history>>

-------------------------------------------------------------------------------
(* The consumer of the users service *)

UserRest == UNCHANGED <<docVars, searchable, clock, stream, sched, ops, created,
                        outbox, raced>>

\* BLOG_CREATE of a row that exists and BLOG_DELETE of one that does not are
\* errors.
Rejected(m) == \/ m.act = "CREATE" /\ row[m.blog] # "none"
               \/ m.act = "DELETE" /\ row[m.blog] = "none"

\* BLOG_UPDATE without a row dereferences the nil GetBlogByBlogId returns.
Panics(m) == m.act = "UPDATE" /\ row[m.blog] = "none"

\* The row after the transaction of m; publishing or scheduling without a row
\* updates nothing.
RowAfter(m) ==
    CASE m.act = "DELETE" -> "none"
      [] m.act \in {"CREATE", "UPDATE"} -> "Draft"
      [] m.act = "PUBLISH" /\ row[m.blog] # "none" -> "Published"
      [] m.act = "SCHEDULE" /\ row[m.blog] # "none" -> "Scheduled"
      [] OTHER -> "none"

ApplyMessage(m) == row' = [row EXCEPT ![m.blog] = RowAfter(m)]

Delivered == consumerUp /\ queue # <<>>

\* One delivery: applied and acknowledged; refused, or failed by the database,
\* and nacked into the dead letter queue, which nobody reads; or applied with
\* the acknowledgement lost, and delivered again.
ProcessMessage ==
    LET m == Head(queue) IN
    /\ Delivered /\ ~Panics(m)
    /\ \/ ~Rejected(m) /\ ApplyMessage(m) /\ queue' = Tail(queue) /\ NoFault
       \/ Rejected(m) /\ UNCHANGED row /\ queue' = Tail(queue) /\ NoFault
       \/ UNCHANGED row /\ queue' = Tail(queue) /\ Fault
       \/ ~Rejected(m) /\ ApplyMessage(m) /\ UNCHANGED queue /\ Fault
    /\ NotesLoss(m.blog, faults' # faults /\ queue' # queue)
    /\ UNCHANGED consumerUp
    /\ UserRest

\* The panic ends the process with the message unacknowledged.
PanicOnMessage ==
    /\ Delivered /\ Panics(Head(queue))
    /\ consumerUp' = FALSE
    /\ UNCHANGED <<queue, row, faults, astray>>
    /\ UserRest

\* docker-compose restarts the process, and the broker delivers again.
RestartUsersService ==
    /\ ~consumerUp
    /\ consumerUp' = TRUE
    /\ UNCHANGED <<queue, row, faults, astray>>
    /\ UserRest

Consume == ProcessMessage \/ PanicOnMessage \/ RestartUsersService

-------------------------------------------------------------------------------
PipeNext ==
    \/ Untold
    \/ \E b \in Blogs : \/ TellPublish(b) \/ TellSchedule(b) \/ TellDraft(b)
                        \/ TellDelete(b)
    \/ \E m \in Messages : SendFromGoroutine(m)
    \/ \E s \in Streams : \/ \E stored \in BOOLEAN : TellCreate(s, stored)
                          \/ SaveAndTellNobody(s) \/ LeaveStream(s)
    \/ \E i \in Instances : \/ AttemptPublication(i) \/ TellPublication(i)
                            \/ CrashWithGoroutines(i)
    \/ Consume

PipeSpec == PipeInit /\ [][PipeNext]_pipeVars

-------------------------------------------------------------------------------
(* Properties *)

\* Every variable of the mail and of the users service holds a value of its
\* kind.
PipeTypeOK ==
    /\ outbox \in [Messages -> 0..MaxOps]
    /\ queue \in Seq(Messages)
    /\ row \in [Blogs -> {"none", "Draft", "Published", "Scheduled"}]
    /\ consumerUp \in BOOLEAN
    /\ raced \in [Blogs -> BOOLEAN] /\ astray \in [Blogs -> BOOLEAN]

\* The users service is told, or holds, "published" only of a blog the index
\* did publish: no handler and no scheduler announces what was refused.
AnnouncedWasPublished ==
    \A b \in Blogs :
       LET m == Message(b, "PUBLISH") IN
       row[b] = "Published" \/ Contains(queue, m) \/ outbox[m] > 0
          => wasPublished[b]

RowStatus(b) ==
    CASE doc[b].status = "absent"    -> "none"
      [] doc[b].status = "draft"     -> "Draft"
      [] doc[b].status = "published" -> "Published"
      [] doc[b].status = "scheduled" -> "Scheduled"

Quiet(b) == ~Unfinished(b) /\ \A k \in DOMAIN queue : queue[k].blog # b

\* Once every message about a blog is processed, row and document agree, whatever
\* was sent twice, delivered twice or retried, and whoever crashed: they can only
\* part by messages that overlapped, by a save that tells nobody, or when a change
\* and its message were parted by a lost answer, a send given up, a crash before
\* the send, a delivery dropped or a stream that announced and left without its
\* first write (service.go 954-963, service_v2.go 209-235).
StoresAgree ==
    \A b \in Blogs :
       Quiet(b) /\ ~raced[b] /\ ~astray[b] => row[b] = RowStatus(b)

===============================================================================
