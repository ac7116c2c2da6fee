--------------------------- MODULE BlogIndex_proofs ---------------------------
(***************************************************************************)
(* Proofs about BlogIndex, for any number of blogs, instances, streams and *)
(* faults.  The schedulers keep the safety part of ScheduleContract because*)
(* of one invariant: a hit, however old, names a sequence number the       *)
(* document has left behind, or the document is still the due one it was   *)
(* when the search found it.                                               *)
(***************************************************************************)
EXTENDS BlogIndex, TLAPS

-------------------------------------------------------------------------------
(* Types *)

LEMMA SomeBlogType == SomeBlog \in Blogs
BY BlogConstants DEF SomeBlog

LEMMA DocumentsType == NewDocument \in Documents
BY BlogConstants, SMT DEF NewDocument, Documents, NoTime

LEMMA IdleType == Idle \in SchedStates /\ Closed \in StreamStates
<1>1. NoHit \in Hits
  BY SomeBlogType DEF NoHit, Hits
<1>2. Idle \in SchedStates
  BY <1>1, BlogConstants DEF Idle, SchedStates
<1>3. Closed \in StreamStates
  BY SomeBlogType DEF Closed, StreamStates
<1> QED BY <1>2, <1>3

\* A write leaves a document of its type under the next sequence number, and
\* touches no other document.
LEMMA WriteEffect ==
  ASSUME TypeOK, NEW b \in Blogs, NEW d \in Documents, Write(b, d)
  PROVE  /\ doc' \in [Blogs -> Documents]
         /\ wasPublished' \in [Blogs -> BOOLEAN]
         /\ doc'[b] = [d EXCEPT !.seq = doc[b].seq + 1]
         /\ doc'[b].seq = doc[b].seq + 1
         /\ \A c \in Blogs : c # b => doc'[c] = doc[c]
<1> DEFINE e == [d EXCEPT !.seq = doc[b].seq + 1]
<1>1. doc \in [Blogs -> Documents] /\ wasPublished \in [Blogs -> BOOLEAN]
  BY DEF TypeOK
<1>2. doc[b] \in Documents
  BY <1>1
<1>3. doc[b].seq + 1 \in Nat
  BY <1>2, SMT DEF Documents
<1>4. e \in Documents /\ e.seq = doc[b].seq + 1
  BY <1>3, SMT DEF Documents
<1>5. doc' = [doc EXCEPT ![b] = e]
  BY DEF Write
<1>6. doc' \in [Blogs -> Documents] /\ doc'[b] = e
  BY <1>1, <1>4, <1>5
<1>7. \A c \in Blogs : c # b => doc'[c] = doc[c]
  BY <1>1, <1>5
<1>8. wasPublished' \in [Blogs -> BOOLEAN]
  <2> DEFINE w == wasPublished[b] \/ d.status = "published"
  <2>1. wasPublished' = [wasPublished EXCEPT ![b] = w]
    BY DEF Write
  <2>2. w \in BOOLEAN
    OBVIOUS
  <2> HIDE DEF w
  <2> QED BY <1>1, <2>1, <2>2
<1> QED BY <1>4, <1>6, <1>7, <1>8

\* Changing one field of a document gives a document.
LEMMA FieldUpdates ==
  ASSUME NEW d \in Documents
  PROVE  /\ \A v \in {"absent", "draft", "scheduled", "published"} :
               [d EXCEPT !.status = v] \in Documents
         /\ \A t \in 0..NoTime : [d EXCEPT !.at = t] \in Documents
         /\ [d EXCEPT !.archived = TRUE] \in Documents
         /\ \A n \in Nat : [d EXCEPT !.failed = n] \in Documents
<1>1. ASSUME NEW v \in {"absent", "draft", "scheduled", "published"}
      PROVE  [d EXCEPT !.status = v] \in Documents
  BY SMT DEF Documents
<1>2. ASSUME NEW t \in 0..NoTime PROVE [d EXCEPT !.at = t] \in Documents
  BY SMT DEF Documents
<1>3. [d EXCEPT !.archived = TRUE] \in Documents
  <2>1. \A x \in BOOLEAN : [d EXCEPT !.archived = x] \in Documents
    BY SMT DEF Documents
  <2> QED BY <2>1, Zenon
<1>4. ASSUME NEW n \in Nat PROVE [d EXCEPT !.failed = n] \in Documents
  BY SMT DEF Documents
<1> QED BY <1>1, <1>2, <1>3, <1>4

\* What each operation writes is a document.
LEMMA WrittenDocuments ==
  ASSUME TypeOK, NEW b \in Blogs, NEW t \in 0..MaxTime
  PROVE  /\ [doc[b] EXCEPT !.status = "published"] \in Documents
         /\ [doc[b] EXCEPT !.status = "scheduled", !.at = t] \in Documents
         /\ [doc[b] EXCEPT !.status = "draft", !.at = NoTime] \in Documents
         /\ [doc[b] EXCEPT !.archived = TRUE] \in Documents
         /\ [NewDocument EXCEPT !.status = "draft"] \in Documents
         /\ [doc[b] EXCEPT !.status = "published", !.at = NoTime,
                           !.failed = 0] \in Documents
         /\ [doc[b] EXCEPT !.failed = @ + 1] \in Documents
<1>1. doc[b] \in Documents
  BY DEF TypeOK
<1>2. t \in 0..NoTime /\ NoTime \in 0..NoTime /\ 0 \in Nat
  BY BlogConstants, SMT DEF NoTime
<1>3. doc[b].failed + 1 \in Nat
  BY <1>1, SMT DEF Documents
<1> DEFINE Set(v) == [doc[b] EXCEPT !.status = v]
<1>4. /\ Set("published") \in Documents
      /\ Set("scheduled") \in Documents
      /\ Set("draft") \in Documents
  BY <1>1, FieldUpdates
<1>5. [Set("scheduled") EXCEPT !.at = t] \in Documents
  BY <1>2, <1>4, FieldUpdates
<1>6. [Set("draft") EXCEPT !.at = NoTime] \in Documents
  BY <1>2, <1>4, FieldUpdates
<1>7. [[Set("published") EXCEPT !.at = NoTime] EXCEPT !.failed = 0] \in Documents
  <2>1. [Set("published") EXCEPT !.at = NoTime] \in Documents
    BY <1>2, <1>4, FieldUpdates
  <2> QED BY <1>2, <2>1, FieldUpdates
<1>8. [doc[b] EXCEPT !.archived = TRUE] \in Documents
  BY <1>1, FieldUpdates
<1>9. [NewDocument EXCEPT !.status = "draft"] \in Documents
  BY DocumentsType, FieldUpdates
<1>10. [doc[b] EXCEPT !.failed = @ + 1] \in Documents
  BY <1>1, <1>3, FieldUpdates
<1> QED BY <1>4, <1>5, <1>6, <1>7, <1>8, <1>9, <1>10

\* Every step writes at most one document, as Write describes, and leaves the
\* history of scheduled publications alone; only a scheduler's commit adds to
\* it.  The rest of a proof need not look at the operations again.
Writes(b) == \E d \in Documents : Write(b, d)

LEMMA HandleWrites ==
  ASSUME TypeOK, NEW b \in Blogs, Handle(b)
  PROVE  /\ Writes(b) \/ UNCHANGED <<doc, wasPublished>>
         /\ UNCHANGED <<searchable, clock, stream, sched, fulfilled>>
         /\ UNCHANGED created \/ DeleteABlogByBlogId(b)
         /\ created' \in [Blogs -> Announcements]
         /\ ops' \in 0..MaxOps /\ faults' \in 0..MaxFaults
<1> USE DEF HandlerRest, Answered, Request, Fault, NoFault
<1>0. /\ ops \in 0..MaxOps /\ faults \in 0..MaxFaults
      /\ MaxOps \in Nat /\ MaxFaults \in Nat /\ 0 \in 0..MaxTime
      /\ created \in [Blogs -> Announcements]
  BY BlogConstants, SMT DEF TypeOK
<1>1. CASE PublishBlog(b)
  <2>1. Writes(b)
    BY <1>0, <1>1, WrittenDocuments
       DEF PublishBlog, PublishBlogById, Writes
  <2> QED BY <1>0, <1>1, <2>1, SMT DEF PublishBlog
<1>2. CASE ScheduleBlog(b)
  <2>1. PICK t \in 0..MaxTime : ScheduleBlogById(b, t)
    BY <1>2 DEF ScheduleBlog
  <2>2. Writes(b)
    BY <2>1, WrittenDocuments DEF ScheduleBlogById, Writes
  <2> QED BY <1>0, <1>2, <2>2, SMT DEF ScheduleBlog
<1>3. CASE ArchiveBlogById(b)
  <2>1. Writes(b)
    BY <1>0, <1>3, WrittenDocuments
       DEF ArchiveBlogById, AchieveAPublishedBlogById, Writes
  <2> QED BY <1>0, <1>3, <2>1, SMT DEF ArchiveBlogById
<1>4. CASE MoveBlogToDraftStatus(b)
  <2>1. Writes(b)
    BY <1>0, <1>4, WrittenDocuments
       DEF MoveBlogToDraftStatus, MoveBlogToDraft, Writes
  <2> QED BY <1>0, <1>4, <2>1, SMT DEF MoveBlogToDraftStatus
<1>5. CASE DeleteABlogByBlogId(b)
  <2>1. Writes(b) \/ UNCHANGED <<doc, wasPublished>>
    BY <1>5, DocumentsType
       DEF DeleteABlogByBlogId, DeleteABlogById, Writes
  <2>2. created' \in [Blogs -> Announcements]
    <3> DEFINE w == IF Writing(b) THEN "overrun" ELSE "no"
    <3>1. created' = [created EXCEPT ![b] = w]
      BY <1>5 DEF DeleteABlogByBlogId
    <3>2. w \in Announcements
      BY DEF Announcements
    <3> HIDE DEF w
    <3> QED BY <1>0, <3>1, <3>2
  <2> QED BY <1>0, <1>5, <2>1, <2>2, SMT DEF DeleteABlogByBlogId
<1> QED BY <1>1, <1>2, <1>3, <1>4, <1>5 DEF Handle

\* What the other variables are after a step of an editor's stream.
LEMMA EditWrites ==
  ASSUME TypeOK, NEW s \in Streams, Edit(s)
  PROVE  /\ \/ \E b \in Blogs : Writes(b)
            \/ UNCHANGED <<doc, wasPublished>>
         /\ UNCHANGED <<searchable, clock, sched, fulfilled>>
         /\ stream' \in [Streams -> StreamStates]
         /\ created' \in [Blogs -> Announcements]
         /\ ops' \in 0..MaxOps /\ faults' \in 0..MaxFaults
<1> USE DEF StreamRest, NoWrite, Request, Fault, NoFault
<1>0. /\ ops \in 0..MaxOps /\ faults \in 0..MaxFaults
      /\ MaxOps \in Nat /\ MaxFaults \in Nat
      /\ stream \in [Streams -> StreamStates] /\ created \in [Blogs -> Announcements]
  BY BlogConstants DEF TypeOK
<1>a. stream[s].blog \in Blogs
  BY <1>0 DEF StreamStates
<1>b. ASSUME NEW pc \in {"closed", "check", "create", "first", "save", "open"},
             Goto(s, pc)
      PROVE  stream' \in [Streams -> StreamStates]
  BY <1>0, <1>b, SMT DEF Goto, StreamStates
<1>c. ASSUME Close(s) PROVE stream' \in [Streams -> StreamStates]
  BY <1>0, <1>c, IdleType DEF Close
<1>1. CASE \E b \in Blogs : OpenStream(s, b)
  <2>1. stream' \in [Streams -> StreamStates]
    BY <1>0, <1>1, SMT DEF OpenStream, StreamStates
  <2> QED BY <1>0, <1>1, <2>1, SMT DEF OpenStream
<1>2. CASE \E stored \in BOOLEAN : PublishCreate(s, stored)
  <2>1. PICK stored \in BOOLEAN : PublishCreate(s, stored)
    BY <1>2
  <2>2. created' \in [Blogs -> Announcements]
    <3> DEFINE w == IF stored THEN "yes" ELSE created[stream[s].blog]
    <3>1. created' = [created EXCEPT ![stream[s].blog] = w]
      BY <2>1 DEF PublishCreate
    <3>2. w \in Announcements
      BY <1>0, <1>a DEF Announcements
    <3> HIDE DEF w
    <3> QED BY <1>0, <3>1, <3>2
  <2>3. stream' \in [Streams -> StreamStates]
    BY <1>b, <1>c, <2>1 DEF PublishCreate
  <2> QED BY <1>0, <2>1, <2>2, <2>3, SMT DEF PublishCreate
<1>3. CASE CheckExistence(s)
  <2>1. stream' \in [Streams -> StreamStates]
    BY <1>b, <1>c, <1>3 DEF CheckExistence
  <2> QED BY <1>0, <1>3, <2>1, SMT DEF CheckExistence
<1>4. CASE SaveBlog(s)
  <2>1. stream' \in [Streams -> StreamStates]
    BY <1>b, <1>c, <1>4 DEF SaveBlog
  <2>2. Writes(stream[s].blog)
    <3>1. 0 \in 0..MaxTime
      BY BlogConstants, SMT
    <3>2. IndexDraft(stream[s].blog)
      BY <1>4 DEF SaveBlog
    <3> QED BY <1>a, <3>1, <3>2, WrittenDocuments DEF IndexDraft, Writes
  <2> QED BY <1>0, <1>a, <1>4, <2>1, <2>2, SMT DEF SaveBlog
<1>5. CASE NextEdit(s)
  <2>1. stream' \in [Streams -> StreamStates]
    BY <1>b, <1>5 DEF NextEdit
  <2> QED BY <1>0, <1>5, <2>1, SMT DEF NextEdit
<1>6. CASE CloseStream(s)
  <2>1. stream' \in [Streams -> StreamStates]
    BY <1>c, <1>6 DEF CloseStream
  <2> QED BY <1>0, <1>6, <2>1, SMT DEF CloseStream
<1> QED BY <1>1, <1>2, <1>3, <1>4, <1>5, <1>6 DEF Edit

\* What the scheduler does to its own state.
LEMMA SchedulerStates ==
  ASSUME TypeOK, NEW i \in Instances
  PROVE  /\ \A pc \in {"idle", "publish", "count", "announce"} :
               Continue(i, pc) => sched' \in [Instances -> SchedStates]
         /\ Skip(i) => sched' \in [Instances -> SchedStates]
         /\ RetryOrGiveUp(i) => sched' \in [Instances -> SchedStates]
         /\ sched' = [sched EXCEPT ![i] = Idle]
               => sched' \in [Instances -> SchedStates]
<1>0. /\ sched \in [Instances -> SchedStates] /\ sched[i] \in SchedStates
      /\ MaxRetries \in Nat
  BY BlogConstants DEF TypeOK
<1>1. ASSUME NEW pc \in {"idle", "publish", "count", "announce"},
             Continue(i, pc)
      PROVE  sched' \in [Instances -> SchedStates]
  <2>1. [sched[i] EXCEPT !.pc = pc] \in SchedStates
    BY <1>0, SMT DEF SchedStates
  <2> QED BY <1>0, <1>1, <2>1 DEF Continue
<1>2. ASSUME Skip(i) PROVE sched' \in [Instances -> SchedStates]
  <2>1. sched[i].batch \in SUBSET Hits
    BY <1>0, SMT DEF SchedStates
  <2>2. [Idle EXCEPT !.batch = sched[i].batch] \in SchedStates
    BY <2>1, IdleType, SMT DEF SchedStates
  <2> QED BY <1>0, <1>2, <2>2 DEF Skip
<1>3. ASSUME RetryOrGiveUp(i) PROVE sched' \in [Instances -> SchedStates]
  <2>1. CASE sched[i].attempt < MaxRetries
    <3>1. sched[i].attempt + 1 \in 0..MaxRetries
      BY <1>0, <2>1, SMT DEF SchedStates
    <3>2. [sched[i] EXCEPT !.attempt = sched[i].attempt + 1] \in SchedStates
      BY <1>0, <3>1, SMT DEF SchedStates
    <3> QED BY <1>0, <1>3, <2>1, <3>2 DEF RetryOrGiveUp
  <2>2. CASE ~(sched[i].attempt < MaxRetries)
    BY <1>1, <1>3, <2>2 DEF RetryOrGiveUp
  <2> QED BY <2>1, <2>2
<1> QED BY <1>0, <1>1, <1>2, <1>3, IdleType

\* The hits of a search name blogs and sequence numbers.
LEMMA DueHitsType ==
  ASSUME TypeOK PROVE DueHits \subseteq Hits
<1>1. \A b \in Blogs : searchable[b].seq \in Nat
  BY SMT DEF TypeOK, Documents
<1> QED BY <1>1, SMT DEF DueHits, Hits

\* Apart from the commit of a publication, a scheduler changes at most the
\* failure count of a document.
LEMMA ScheduleWrites ==
  ASSUME TypeOK, NEW i \in Instances, Schedule(i)
  PROVE  /\ \/ (\E b \in Blogs : Writes(b)) /\ UNCHANGED fulfilled
            \/ CommitPublication(i) /\ sched[i].pc = "publish"
            \/ UNCHANGED docVars
         /\ UNCHANGED <<searchable, clock, stream, ops, created>>
         /\ sched' \in [Instances -> SchedStates]
         /\ faults' \in 0..MaxFaults
<1> USE DEF SchedRest, Fault, NoFault, Answered, docVars
<1>0. /\ faults \in 0..MaxFaults /\ MaxFaults \in Nat /\ 0 \in 0..MaxTime
      /\ sched \in [Instances -> SchedStates] /\ sched[i] \in SchedStates
      /\ MaxRetries \in Nat \ {0}
  BY BlogConstants, SMT DEF TypeOK
<1>a. sched[i].hit.blog \in Blogs /\ sched[i].batch \in SUBSET Hits
  BY <1>0, SMT DEF SchedStates, Hits
<1>1. CASE GetDueScheduledBlogs(i)
  <2>1. [sched[i] EXCEPT !.batch = DueHits] \in SchedStates
    BY <1>0, DueHitsType, SMT DEF SchedStates
  <2>2. sched' \in [Instances -> SchedStates]
    BY <1>0, <1>1, <2>1 DEF GetDueScheduledBlogs
  <2> QED BY <1>0, <1>1, <2>2, SMT DEF GetDueScheduledBlogs
<1>2. CASE NextDueBlog(i)
  <2>1. PICK h \in sched[i].batch :
           sched' = [sched EXCEPT ![i] =
                      [pc |-> "publish", batch |-> @.batch \ {h}, hit |-> h,
                       attempt |-> 1]]
    BY <1>2 DEF NextDueBlog
  <2>2. h \in Hits /\ sched[i].batch \ {h} \in SUBSET Hits
        /\ 1 \in 0..MaxRetries
    BY <1>0, <1>a, SMT
  <2>3. [pc |-> "publish", batch |-> sched[i].batch \ {h}, hit |-> h,
         attempt |-> 1] \in SchedStates
    BY <2>2, SMT DEF SchedStates
  <2>4. sched' \in [Instances -> SchedStates]
    BY <1>0, <2>1, <2>3
  <2> QED BY <1>0, <1>2, <2>4, SMT DEF NextDueBlog
<1>3. CASE PublishScheduledBlog(i)
  <2>1. sched' \in [Instances -> SchedStates]
    BY <1>3, SchedulerStates DEF PublishScheduledBlog
  <2>2. CommitPublication(i) \/ UNCHANGED docVars
    BY <1>3 DEF PublishScheduledBlog
  <2>3. sched[i].pc = "publish"
    BY <1>3 DEF PublishScheduledBlog
  <2>4. UNCHANGED <<searchable, clock, stream, ops, created>>
    BY <1>3 DEF PublishScheduledBlog
  <2>5. faults' \in 0..MaxFaults
    BY <1>0, <1>3, SMT DEF PublishScheduledBlog
  <2> QED BY <2>1, <2>2, <2>3, <2>4, <2>5
<1>4. CASE IncrementScheduleFailedAttempts(i)
  <2>1. sched' \in [Instances -> SchedStates]
    BY <1>4, SchedulerStates DEF IncrementScheduleFailedAttempts
  <2>2. \/ Writes(sched[i].hit.blog) /\ UNCHANGED fulfilled
        \/ UNCHANGED docVars
    BY <1>0, <1>a, <1>4, WrittenDocuments
       DEF IncrementScheduleFailedAttempts, Writes
  <2>3. UNCHANGED <<searchable, clock, stream, ops, created>>
    BY <1>4 DEF IncrementScheduleFailedAttempts
  <2>4. faults' \in 0..MaxFaults
    BY <1>0, <1>4, SMT DEF IncrementScheduleFailedAttempts
  <2> QED BY <1>a, <2>1, <2>2, <2>3, <2>4
<1>5. CASE AnnouncePublication(i)
  <2>1. sched' \in [Instances -> SchedStates]
    BY <1>5, SchedulerStates DEF AnnouncePublication
  <2> QED BY <1>0, <1>5, <2>1, SMT DEF AnnouncePublication
<1> QED BY <1>1, <1>2, <1>3, <1>4, <1>5 DEF Schedule

\* A committed publication.
LEMMA CommitWrites ==
  ASSUME TypeOK, NEW i \in Instances, CommitPublication(i)
  PROVE  /\ sched[i].hit.blog \in Blogs
         /\ Writes(sched[i].hit.blog)
         /\ doc'[sched[i].hit.blog].status = "published"
         /\ SeqNoMatches(i)
         /\ fulfilled' = [fulfilled EXCEPT ![sched[i].hit.blog] = @ + 1]
         /\ fulfilled' \in [Blogs -> Nat]
<1> DEFINE b == sched[i].hit.blog
           d == [doc[b] EXCEPT !.status = "published", !.at = NoTime,
                               !.failed = 0]
<1>1. b \in Blogs /\ 0 \in 0..MaxTime /\ doc[b] \in Documents
      /\ fulfilled \in [Blogs -> Nat]
  <2>1. sched[i].hit.blog \in Blogs
    BY SMT DEF TypeOK, SchedStates, Hits
  <2> QED BY <2>1, BlogConstants, SMT DEF TypeOK
<1>2. d \in Documents
  BY <1>1, WrittenDocuments
<1>3. Write(b, d)
  BY DEF CommitPublication
<1>4. doc'[b] = [d EXCEPT !.seq = doc[b].seq + 1]
  BY <1>1, <1>2, <1>3, WriteEffect
<1>5. d.status = "published"
  BY <1>1, SMT DEF Documents
<1>6. doc'[b].status = "published"
  <2> HIDE DEF d
  <2> QED BY <1>2, <1>4, <1>5, SMT DEF Documents
<1>7. fulfilled' = [fulfilled EXCEPT ![b] = @ + 1]
  BY DEF CommitPublication
<1>8. fulfilled' \in [Blogs -> Nat]
  BY <1>1, <1>7, SMT
<1> QED BY <1>1, <1>2, <1>3, <1>6, <1>7, <1>8 DEF CommitPublication, Writes

\* A step does one of six things to the documents; this is all the proofs below
\* need to know of Next.
StepKinds ==
  \/ (\E b \in Blogs : Writes(b)) /\ UNCHANGED <<searchable, clock, fulfilled>>
  \/ \E i \in Instances :
        /\ CommitPublication(i) /\ sched[i].pc = "publish"
        /\ UNCHANGED <<searchable, clock>>
  \/ UNCHANGED <<doc, wasPublished, fulfilled, searchable, clock>>
  \/ Tick
  \/ \E b \in Blogs : Refresh(b)

LEMMA EveryStep ==
  ASSUME TypeOK, [Next]_vars
  PROVE  StepKinds
<1> USE DEF StepKinds
<1>1. CASE Tick
  BY <1>1
<1>2. ASSUME NEW b \in Blogs, Refresh(b) PROVE StepKinds
  BY <1>2
<1>3. ASSUME NEW b \in Blogs, Handle(b) PROVE StepKinds
  BY <1>3, HandleWrites
<1>4. ASSUME NEW s \in Streams, Edit(s) PROVE StepKinds
  BY <1>4, EditWrites
<1>5. ASSUME NEW i \in Instances, Schedule(i) PROVE StepKinds
  BY <1>5, ScheduleWrites DEF docVars
<1>6. ASSUME NEW i \in Instances, CrashBlogService(i) PROVE StepKinds
  BY <1>6 DEF CrashBlogService, docVars
<1>7. CASE UNCHANGED vars
  BY <1>7 DEF vars, docVars
<1> QED BY <1>1, <1>2, <1>3, <1>4, <1>5, <1>6, <1>7 DEF Next

LEMMA WritesEffect ==
  ASSUME TypeOK, NEW b \in Blogs, Writes(b)
  PROVE  /\ doc' \in [Blogs -> Documents]
         /\ wasPublished' \in [Blogs -> BOOLEAN]
         /\ doc'[b].seq = doc[b].seq + 1
         /\ \A c \in Blogs : c # b => doc'[c] = doc[c]
<1>1. PICK d \in Documents : Write(b, d)
  BY DEF Writes
<1> QED BY <1>1, WriteEffect

LEMMA TypeInit == Init => TypeOK
<1> SUFFICES ASSUME Init PROVE TypeOK
  OBVIOUS
<1>1. doc \in [Blogs -> Documents] /\ searchable \in [Blogs -> Documents]
  BY DocumentsType DEF Init
<1>2. stream \in [Streams -> StreamStates] /\ sched \in [Instances -> SchedStates]
  BY IdleType DEF Init
<1>3. /\ clock \in 0..MaxTime /\ ops \in 0..MaxOps /\ faults \in 0..MaxFaults
      /\ created \in [Blogs -> Announcements] /\ wasPublished \in [Blogs -> BOOLEAN]
      /\ fulfilled \in [Blogs -> Nat]
  BY BlogConstants, SMT DEF Init, Announcements
<1> QED BY <1>1, <1>2, <1>3 DEF TypeOK

LEMMA TypeStep == TypeOK /\ [Next]_vars => TypeOK'
<1> SUFFICES ASSUME TypeOK, [Next]_vars PROVE TypeOK'
  OBVIOUS
<1>0. /\ doc \in [Blogs -> Documents] /\ searchable \in [Blogs -> Documents]
      /\ clock \in 0..MaxTime /\ MaxTime \in Nat
      /\ wasPublished \in [Blogs -> BOOLEAN]
      /\ stream \in [Streams -> StreamStates] /\ sched \in [Instances -> SchedStates]
      /\ ops \in 0..MaxOps /\ faults \in 0..MaxFaults /\ MaxFaults \in Nat
      /\ created \in [Blogs -> Announcements] /\ fulfilled \in [Blogs -> Nat]
  BY BlogConstants DEF TypeOK
<1>1. /\ doc' \in [Blogs -> Documents] /\ searchable' \in [Blogs -> Documents]
      /\ clock' \in 0..MaxTime /\ wasPublished' \in [Blogs -> BOOLEAN]
      /\ fulfilled' \in [Blogs -> Nat]
  <2>1. StepKinds
    BY EveryStep
  <2>2. CASE (\E b \in Blogs : Writes(b)) /\ UNCHANGED <<searchable, clock, fulfilled>>
    BY <1>0, <2>2, WritesEffect
  <2>3. ASSUME NEW i \in Instances, CommitPublication(i),
               UNCHANGED <<searchable, clock>>
        PROVE  /\ doc' \in [Blogs -> Documents]
               /\ wasPublished' \in [Blogs -> BOOLEAN]
               /\ fulfilled' \in [Blogs -> Nat]
    BY <2>3, CommitWrites, WritesEffect
  <2>4. CASE UNCHANGED <<doc, wasPublished, fulfilled, searchable, clock>>
    BY <1>0, <2>4
  <2>5. CASE Tick
    BY <1>0, <2>5, SMT DEF Tick, docVars
  <2>6. ASSUME NEW b \in Blogs, Refresh(b)
        PROVE  /\ searchable' \in [Blogs -> Documents]
               /\ UNCHANGED <<doc, wasPublished, fulfilled, clock>>
    BY <1>0, <2>6 DEF Refresh, docVars
  <2> QED BY <1>0, <2>1, <2>2, <2>3, <2>4, <2>5, <2>6 DEF StepKinds
<1> DEFINE Rest == /\ stream' \in [Streams -> StreamStates]
                   /\ sched' \in [Instances -> SchedStates]
                   /\ ops' \in 0..MaxOps /\ faults' \in 0..MaxFaults
                   /\ created' \in [Blogs -> Announcements]
<1>2. Rest
  <2>1. CASE Tick
    BY <1>0, <2>1 DEF Tick
  <2>2. ASSUME NEW b \in Blogs, Refresh(b) PROVE Rest
    BY <1>0, <2>2 DEF Refresh
  <2>3. ASSUME NEW b \in Blogs, Handle(b) PROVE Rest
    BY <1>0, <2>3, HandleWrites
  <2>4. ASSUME NEW s \in Streams, Edit(s) PROVE Rest
    BY <1>0, <2>4, EditWrites
  <2>5. ASSUME NEW i \in Instances, Schedule(i) PROVE Rest
    BY <1>0, <2>5, ScheduleWrites
  <2>6. ASSUME NEW i \in Instances, CrashBlogService(i) PROVE Rest
    <3>1. sched' \in [Instances -> SchedStates]
      BY <2>6, SchedulerStates DEF CrashBlogService
    <3>2. faults' \in 0..MaxFaults
      BY <1>0, <2>6, SMT DEF CrashBlogService, Fault
    <3> QED BY <1>0, <2>6, <3>1, <3>2 DEF CrashBlogService
  <2>7. CASE UNCHANGED vars
    BY <1>0, <2>7 DEF vars
  <2> QED BY <2>1, <2>2, <2>3, <2>4, <2>5, <2>6, <2>7 DEF Next
<1> QED BY <1>1, <1>2 DEF TypeOK

\* Every reachable state is of the declared types.
THEOREM TypeCorrect == Spec => []TypeOK
BY TypeInit, TypeStep, PTL DEF Spec

-------------------------------------------------------------------------------
(* The hits of the schedulers *)

\* Once due, a hit stays so until the document is written, and a write leaves
\* it behind.
LEMMA StaleOrDueStep ==
  ASSUME TypeOK, StepKinds, NEW h \in Hits, StaleOrDue(h)
  PROVE  StaleOrDue(h)'
<1>0. /\ doc \in [Blogs -> Documents] /\ h.blog \in Blogs /\ h.seq \in Nat
      /\ doc[h.blog] \in Documents /\ doc[h.blog].seq \in Nat
      /\ clock \in 0..MaxTime /\ MaxTime \in Nat
  <2>1. doc \in [Blogs -> Documents] /\ h.blog \in Blogs /\ h.seq \in Nat
    BY SMT DEF TypeOK, Hits
  <2> QED BY <2>1, BlogConstants, SMT DEF TypeOK, Documents
<1>1. ASSUME NEW b \in Blogs, Writes(b), UNCHANGED clock
      PROVE  StaleOrDue(h)'
  <2>1. CASE h.blog = b
    <3>1. doc'[h.blog].seq = doc[h.blog].seq + 1
      BY <1>1, <2>1, WritesEffect
    <3>2. h.seq <= doc'[h.blog].seq /\ h.seq # doc'[h.blog].seq
      BY <1>0, <3>1, SMT DEF StaleOrDue
    <3> QED BY <3>2 DEF StaleOrDue
  <2>2. CASE h.blog # b
    <3>1. doc'[h.blog] = doc[h.blog]
      BY <1>0, <1>1, <2>2, WritesEffect
    <3> QED BY <1>1, <3>1 DEF StaleOrDue, Due
  <2> QED BY <2>1, <2>2
<1>2. ASSUME UNCHANGED doc, clock' >= clock, clock' \in Nat
      PROVE  StaleOrDue(h)'
  <2>1. Due(doc[h.blog]) => Due(doc[h.blog])'
    <3>1. doc[h.blog].at \in Nat
      BY <1>0, BlogConstants, SMT DEF Documents, NoTime
    <3> QED BY <1>0, <1>2, <3>1, SMT DEF Due
  <2> QED BY <1>2, <2>1 DEF StaleOrDue
<1>3. CASE UNCHANGED <<doc, clock>>
  BY <1>3 DEF StaleOrDue, Due
<1>4. ASSUME NEW i \in Instances, CommitPublication(i), UNCHANGED clock
      PROVE  StaleOrDue(h)'
  BY <1>1, <1>4, CommitWrites
<1>5. CASE Tick
  BY <1>0, <1>2, <1>5, SMT DEF Tick, docVars
<1>6. ASSUME NEW b \in Blogs, Refresh(b) PROVE StaleOrDue(h)'
  BY <1>3, <1>6 DEF Refresh, docVars
<1> QED BY <1>1, <1>3, <1>4, <1>5, <1>6 DEF StepKinds

LEMMA SearchLagsStep ==
  ASSUME TypeOK, StepKinds, SearchLags PROVE SearchLags'
<1>0. /\ doc \in [Blogs -> Documents] /\ searchable \in [Blogs -> Documents]
      /\ \A b \in Blogs : doc[b].seq \in Nat /\ searchable[b].seq \in Nat
  BY SMT DEF TypeOK, Documents
<1>1. ASSUME NEW b \in Blogs, Writes(b), UNCHANGED searchable
      PROVE  SearchLags'
  <2> SUFFICES ASSUME NEW c \in Blogs
               PROVE  /\ searchable'[c].seq <= doc'[c].seq
                      /\ searchable'[c].seq = doc'[c].seq
                            => searchable'[c] = doc'[c]
    BY DEF SearchLags
  <2>1. CASE c = b
    <3>1. doc'[c].seq = doc[c].seq + 1
      BY <1>1, <2>1, WritesEffect
    <3> QED BY <1>0, <1>1, <3>1, SMT DEF SearchLags
  <2>2. CASE c # b
    BY <1>1, <2>2, WritesEffect DEF SearchLags
  <2> QED BY <2>1, <2>2
<1>2. CASE UNCHANGED <<doc, searchable>>
  BY <1>2 DEF SearchLags
<1>3. ASSUME NEW i \in Instances, CommitPublication(i), UNCHANGED searchable
      PROVE  SearchLags'
  BY <1>1, <1>3, CommitWrites
<1>4. CASE Tick
  BY <1>2, <1>4 DEF Tick, docVars
<1>5. ASSUME NEW b \in Blogs, Refresh(b) PROVE SearchLags'
  <2>1. doc' = doc /\ searchable' = [searchable EXCEPT ![b] = doc[b]]
    BY <1>5 DEF Refresh, docVars
  <2> QED BY <1>0, <2>1, SMT DEF SearchLags
<1> QED BY <1>1, <1>2, <1>3, <1>4, <1>5 DEF StepKinds

\* Where the hits of instance i come from: its batch, the hit it was at, or a
\* search of this step.
OldHits(i) ==
  /\ \A h \in sched'[i].batch : h \in sched[i].batch \/ h \in DueHits
  /\ sched'[i].pc = "publish" =>
       \/ sched'[i].hit \in sched[i].batch
       \/ sched[i].pc = "publish" /\ sched'[i].hit = sched[i].hit

LEMMA HitsOrigin ==
  ASSUME TypeOK, [Next]_vars, NEW i \in Instances
  PROVE  OldHits(i)
<1>0. sched \in [Instances -> SchedStates]
  BY DEF TypeOK
<1>1. CASE sched' = sched
  BY <1>1 DEF OldHits
<1>2. ASSUME NEW j \in Instances, Schedule(j) \/ CrashBlogService(j),
             sched' # sched
      PROVE  OldHits(i)
  <2>1. CASE GetDueScheduledBlogs(j)
    <3>1. sched' = [sched EXCEPT ![j].batch = DueHits] /\ sched[j] = Idle
      BY <2>1 DEF GetDueScheduledBlogs
    <3>2. CASE i = j
      <4>1. sched'[i] = [sched[i] EXCEPT !.batch = DueHits]
        BY <1>0, <3>1, <3>2
      <4>2. sched'[i].batch = DueHits /\ sched'[i].pc = "idle"
        BY <3>1, <3>2, <4>1 DEF Idle
      <4> QED BY <4>2 DEF OldHits
    <3>3. CASE i # j
      BY <1>0, <3>1, <3>3 DEF OldHits
    <3> QED BY <3>2, <3>3
  <2>2. CASE NextDueBlog(j)
    <3>1. PICK h \in sched[j].batch :
             sched' = [sched EXCEPT ![j] =
                        [pc |-> "publish", batch |-> @.batch \ {h}, hit |-> h,
                         attempt |-> 1]]
      BY <2>2 DEF NextDueBlog
    <3>2. CASE i = j
      BY <1>0, <3>1, <3>2 DEF OldHits
    <3>3. CASE i # j
      BY <1>0, <3>1, <3>3 DEF OldHits
    <3> QED BY <3>2, <3>3
  <2>3. ASSUME Skip(j) \/ sched' = [sched EXCEPT ![j] = Idle]
        PROVE  OldHits(i)
    BY <1>0, <2>3 DEF Skip, Idle, OldHits
  <2>4. ASSUME NEW pc \in {"announce", "count"}, Continue(j, pc)
        PROVE  OldHits(i)
    <3>1. CASE i = j
      <4>1. sched'[i] = [sched[i] EXCEPT !.pc = pc] /\ sched[i] \in SchedStates
        BY <1>0, <2>4, <3>1 DEF Continue
      <4>2. sched'[i].batch = sched[i].batch /\ sched'[i].pc # "publish"
        BY <4>1, SMT DEF SchedStates
      <4> QED BY <4>2 DEF OldHits
    <3>2. CASE i # j
      BY <1>0, <2>4, <3>2 DEF Continue, OldHits
    <3> QED BY <3>1, <3>2
  <2>5. ASSUME RetryOrGiveUp(j), sched[j].pc = "publish" PROVE OldHits(i)
    <3>1. CASE sched' = [sched EXCEPT ![j].attempt = @ + 1]
      <4>1. CASE i = j
        <5>1. /\ sched'[i] = [sched[i] EXCEPT !.attempt = sched[i].attempt + 1]
              /\ sched[i] \in SchedStates
          BY <1>0, <3>1, <4>1
        <5>2. sched'[i].batch = sched[i].batch /\ sched'[i].hit = sched[i].hit
          BY <5>1, SMT DEF SchedStates
        <5> QED BY <2>5, <4>1, <5>2 DEF OldHits
      <4>2. CASE i # j
        BY <1>0, <3>1, <4>2 DEF OldHits
      <4> QED BY <4>1, <4>2
    <3> QED BY <2>4, <2>5, <3>1 DEF RetryOrGiveUp
  <2>6. CASE PublishScheduledBlog(j)
    BY <2>3, <2>4, <2>5, <2>6 DEF PublishScheduledBlog
  <2>7. CASE IncrementScheduleFailedAttempts(j)
    BY <2>3, <2>7 DEF IncrementScheduleFailedAttempts
  <2>8. CASE AnnouncePublication(j)
    BY <2>3, <2>8 DEF AnnouncePublication
  <2>9. CASE CrashBlogService(j)
    BY <2>3, <2>9 DEF CrashBlogService
  <2> QED BY <1>2, <2>1, <2>2, <2>6, <2>7, <2>8, <2>9 DEF Schedule
<1>3. ASSUME NEW b \in Blogs, Handle(b) PROVE sched' = sched
  BY <1>3, HandleWrites
<1>4. ASSUME NEW s \in Streams, Edit(s) PROVE sched' = sched
  BY <1>4, EditWrites
<1>5. Tick \/ (\E b \in Blogs : Refresh(b)) \/ UNCHANGED vars => sched' = sched
  BY DEF Tick, Refresh, vars
<1> QED BY <1>1, <1>2, <1>3, <1>4, <1>5 DEF Next

HitInv == TypeOK /\ SearchLags /\ HitsAreStaleOrDue

LEMMA HitInvInit == Init => HitInv
<1> SUFFICES ASSUME Init PROVE HitInv
  OBVIOUS
<1>1. TypeOK
  BY TypeInit
<1>2. SearchLags
  <2>1. searchable = doc /\ \A b \in Blogs : doc[b].seq = 0
    BY DEF Init, NewDocument
  <2>2. 0 <= 0
    BY SMT
  <2> QED BY <2>1, <2>2, Zenon DEF SearchLags
<1>3. HitsAreStaleOrDue
  BY DEF Init, Idle, HitsAreStaleOrDue
<1> QED BY <1>1, <1>2, <1>3 DEF HitInv

LEMMA HitInvStep == HitInv /\ [Next]_vars => HitInv'
<1> SUFFICES ASSUME HitInv, [Next]_vars PROVE HitInv'
  OBVIOUS
<1>0. TypeOK /\ SearchLags /\ HitsAreStaleOrDue /\ StepKinds
  BY EveryStep DEF HitInv
<1>1. TypeOK' /\ SearchLags'
  BY <1>0, TypeStep, SearchLagsStep
<1>2. \A h \in DueHits : h \in Hits /\ StaleOrDue(h)
  <2> SUFFICES ASSUME NEW h \in DueHits PROVE h \in Hits /\ StaleOrDue(h)
    OBVIOUS
  <2>1. h \in Hits
    BY <1>0, DueHitsType
  <2>2. PICK b \in Blogs : /\ Due(searchable[b])
                           /\ h = [blog |-> b, seq |-> searchable[b].seq]
    BY DEF DueHits
  <2>3. h.blog = b /\ h.seq = searchable[b].seq
    BY <2>2
  <2> QED BY <1>0, <2>1, <2>2, <2>3 DEF SearchLags, StaleOrDue
<1>3. HitsAreStaleOrDue'
  <2> SUFFICES ASSUME NEW i \in Instances
               PROVE  /\ \A h \in sched'[i].batch : StaleOrDue(h)'
                      /\ (sched[i].pc = "publish" => StaleOrDue(sched[i].hit))'
    BY DEF HitsAreStaleOrDue
  <2>1. OldHits(i)
    BY <1>0, HitsOrigin
  <2>2. sched[i].batch \subseteq Hits /\ sched[i].hit \in Hits
    BY <1>0, SMT DEF TypeOK, SchedStates
  <2>3. \A h \in Hits : StaleOrDue(h) => StaleOrDue(h)'
    BY <1>0, StaleOrDueStep
  <2>4. /\ \A h \in sched[i].batch : StaleOrDue(h)
        /\ sched[i].pc = "publish" => StaleOrDue(sched[i].hit)
    BY <1>0 DEF HitsAreStaleOrDue
  <2>5. \A h \in sched'[i].batch : StaleOrDue(h)'
    BY <1>2, <2>1, <2>2, <2>3, <2>4 DEF OldHits
  <2>6. (sched[i].pc = "publish" => StaleOrDue(sched[i].hit))'
    <3> SUFFICES ASSUME sched'[i].pc = "publish"
                 PROVE  StaleOrDue(sched[i].hit)'
      OBVIOUS
    <3>1. \E h \in Hits : h = sched'[i].hit /\ StaleOrDue(h)
      BY <2>1, <2>2, <2>4 DEF OldHits
    <3>2. \E h \in Hits : h = sched'[i].hit /\ StaleOrDue(h)'
      BY <2>3, <3>1
    <3> QED BY <3>2 DEF StaleOrDue, Due
  <2> QED BY <2>5, <2>6
<1> QED BY <1>1, <1>3 DEF HitInv

\* Whatever a scheduler found, and however long ago: if the sequence number it
\* holds still matches, the blog is still due.
THEOREM HitsStayStaleOrDue == Spec => []HitsAreStaleOrDue
<1>1. HitInv => HitsAreStaleOrDue
  BY DEF HitInv
<1> QED BY <1>1, HitInvInit, HitInvStep, PTL DEF Spec

-------------------------------------------------------------------------------
(* The contract *)

\* What a document stands for as an order.
OrderOf(d) ==
  IF d.status # "scheduled" \/ d.archived \/ d.failed >= MaxFailedCycles
  THEN "none"
  ELSE IF d.at <= clock THEN "due" ELSE "waiting"

LEMMA OrderIsOrderOf ==
  /\ Order = [b \in Blogs |-> OrderOf(doc[b])]
  /\ Order' = [b \in Blogs |-> OrderOf(doc[b])']
BY DEF Order, OrderOf

\* Writing one document withdraws its order, places one, or changes nothing.
LEMMA WriteIsContractStep ==
  ASSUME TypeOK, NEW b \in Blogs, Writes(b), UNCHANGED <<clock, fulfilled>>
  PROVE  [Contract!Next]_(Contract!vars)
<1> DEFINE x == OrderOf(doc[b])'
<1>1. Order' = [Order EXCEPT ![b] = x]
  <2>1. \A c \in Blogs : c # b => OrderOf(doc[c])' = OrderOf(doc[c])
    BY WritesEffect DEF OrderOf
  <2> QED BY <2>1, OrderIsOrderOf
<1>2. x \in {"none", "due", "waiting"}
  BY DEF OrderOf
<1>3. Order[b] \in {"none", "due", "waiting"} /\ Order \in [Blogs -> {"none", "due", "waiting"}]
  BY OrderIsOrderOf DEF OrderOf
<1> HIDE DEF x
<1>4. CASE x \in {"due", "waiting"}
  <2>1. Contract!Place(b)
    BY <1>1, <1>4 DEF Contract!Place
  <2> QED BY <2>1 DEF Contract!Next
<1>5. CASE x = "none" /\ Order[b] # "none"
  <2>1. Contract!Withdraw(b)
    BY <1>1, <1>5 DEF Contract!Withdraw
  <2> QED BY <2>1 DEF Contract!Next
<1>6. CASE x = "none" /\ Order[b] = "none"
  <2>1. Order' = Order
    BY <1>1, <1>3, <1>6
  <2> QED BY <2>1 DEF Contract!vars
<1> QED BY <1>2, <1>4, <1>5, <1>6

\* A committed publication carries out the order that is due.
LEMMA CommitFulfils ==
  ASSUME HitInv, NEW i \in Instances, CommitPublication(i),
         sched[i].pc = "publish", UNCHANGED clock
  PROVE  Contract!Next
<1>1. TypeOK /\ StaleOrDue(sched[i].hit)
  BY DEF HitInv, HitsAreStaleOrDue
<1>2. PICK b \in Blogs :
         /\ b = sched[i].hit.blog /\ Writes(b) /\ SeqNoMatches(i)
         /\ doc'[b].status = "published"
         /\ fulfilled' = [fulfilled EXCEPT ![b] = @ + 1]
  BY <1>1, CommitWrites
<1>3. Due(doc[b])
  BY <1>1, <1>2 DEF StaleOrDue, SeqNoMatches
<1>4. doc[b].failed \in Nat /\ MaxFailedCycles \in Nat
  BY <1>1, <1>2, BlogConstants, SMT DEF TypeOK, Documents
<1>5. Order[b] = "due"
  <2>1. ~(doc[b].failed >= MaxFailedCycles)
    BY <1>3, <1>4, SMT DEF Due
  <2>2. OrderOf(doc[b]) = "due"
    BY <1>3, <2>1 DEF OrderOf, Due
  <2> QED BY <1>2, <2>2, OrderIsOrderOf
<1>6. Order' = [Order EXCEPT ![b] = "none"]
  <2>1. \A c \in Blogs : c # b => OrderOf(doc[c])' = OrderOf(doc[c])
    BY <1>1, <1>2, WritesEffect DEF OrderOf
  <2>2. OrderOf(doc[b])' = "none"
    BY <1>2 DEF OrderOf
  <2> QED BY <1>2, <2>1, <2>2, OrderIsOrderOf
<1>7. Contract!Fulfil(b)
  BY <1>2, <1>5, <1>6 DEF Contract!Fulfil
<1> QED BY <1>2, <1>7 DEF Contract!Next

\* Time only ripens orders.
LEMMA TickIsContractStep ==
  ASSUME TypeOK, Tick PROVE [Contract!Next]_(Contract!vars)
<1> DEFINE S == {b \in Blogs : Order[b] = "waiting" /\ Order'[b] = "due"}
<1>1. UNCHANGED <<doc, fulfilled>> /\ clock' = clock + 1 /\ clock \in Nat
  BY BlogConstants, SMT DEF Tick, docVars, TypeOK
<1>2. ASSUME NEW b \in Blogs
      PROVE  OrderOf(doc[b])' = IF b \in S THEN "due" ELSE OrderOf(doc[b])
  <2>1. doc[b].at \in Nat
    BY BlogConstants, SMT DEF TypeOK, Documents, NoTime
  <2>2. Order[b] = OrderOf(doc[b]) /\ Order'[b] = OrderOf(doc[b])'
    BY OrderIsOrderOf
  <2>3. doc[b].at <= clock => doc[b].at <= clock'
    BY <1>1, <2>1, SMT
  <2> QED BY <1>1, <2>2, <2>3 DEF OrderOf
<1>3. Order' = [b \in Blogs |-> IF b \in S THEN "due" ELSE Order[b]]
  BY <1>2, OrderIsOrderOf
<1>4. S \in SUBSET {b \in Blogs : Order[b] = "waiting"}
  OBVIOUS
<1> HIDE DEF S
<1>5. Contract!Ripen
  BY <1>1, <1>3, <1>4 DEF Contract!Ripen
<1> QED BY <1>5 DEF Contract!Next

LEMMA InitIsContractInit == Init => Contract!Init
<1> SUFFICES ASSUME Init PROVE Contract!Init
  OBVIOUS
<1>1. \A b \in Blogs : OrderOf(doc[b]) = "none"
  BY DEF Init, NewDocument, OrderOf
<1>2. Order = [b \in Blogs |-> "none"]
  BY <1>1, OrderIsOrderOf
<1> QED BY <1>2 DEF Init, Contract!Init

LEMMA StepIsContractStep ==
  HitInv /\ [Next]_vars => [Contract!Next]_(Contract!vars)
<1> SUFFICES ASSUME HitInv, [Next]_vars
             PROVE  [Contract!Next]_(Contract!vars)
  OBVIOUS
<1>1. TypeOK /\ StepKinds
  BY EveryStep DEF HitInv
<1>2. ASSUME UNCHANGED <<doc, fulfilled, clock>>
      PROVE  [Contract!Next]_(Contract!vars)
  <2>1. Order' = Order
    BY <1>2, OrderIsOrderOf DEF OrderOf
  <2> QED BY <1>2, <2>1 DEF Contract!vars
<1>3. ASSUME NEW b \in Blogs, Refresh(b)
      PROVE  [Contract!Next]_(Contract!vars)
  BY <1>2, <1>3 DEF Refresh, docVars
<1> QED BY <1>1, <1>2, <1>3, WriteIsContractStep, CommitFulfils,
           TickIsContractStep DEF StepKinds

\* The schedulers of any number of instances, with a search that lags as it
\* likes and any faults, never carry out an order twice, early, or after it
\* was changed: the index implements the safety part of ScheduleContract.
THEOREM ContractKept == Spec => ImplementsContractSafely
BY InitIsContractInit, StepIsContractStep, HitInvInit, HitInvStep, PTL
DEF Spec, ImplementsContractSafely

-------------------------------------------------------------------------------
(* Announcements: why the invariant holds is that a stream past its           *)
(* BLOG_CREATE, or past the question that found the document, is about a blog *)
(* announced since its last deletion, or overrun by it.                       *)

AnnouncedInv ==
    /\ TypeOK /\ EveryDocumentWasAnnounced
    /\ \A s \in Streams :
          stream[s].pc \in {"first", "save", "open"} => created[stream[s].blog] # "no"

\* Only a stream brings a document into the index: every other write is of one
\* that is there, or deletes it.
LEMMA NoBirth ==
  ASSUME TypeOK, NEW b \in Blogs, NEW d, Write(b, d),
         Exists(b) \/ d = NewDocument
  PROVE  \A c \in Blogs : Exists(c)' => Exists(c)
<1>1. doc \in [Blogs -> Documents]
  BY DEF TypeOK
<1>2. ASSUME NEW c \in Blogs, c # b PROVE Exists(c)' => Exists(c)
  BY <1>1, <1>2 DEF Write, Exists
<1>3. CASE Exists(b)
  BY <1>2, <1>3
<1>4. CASE d = NewDocument
  <2>1. doc'[b] = [d EXCEPT !.seq = doc[b].seq + 1]
    BY <1>1 DEF Write
  <2>2. ~Exists(b)'
    BY <1>4, <2>1 DEF Exists, NewDocument
  <2> QED BY <1>2, <2>2
<1> QED BY <1>3, <1>4

LEMMA HandlersBearNothing ==
  ASSUME TypeOK, NEW b \in Blogs, Handle(b)
  PROVE  \A c \in Blogs : Exists(c)' => Exists(c)
<1>1. CASE PublishBlog(b)
  BY <1>1, NoBirth DEF PublishBlog, PublishBlogById
<1>2. CASE ScheduleBlog(b)
  BY <1>2, NoBirth DEF ScheduleBlog, ScheduleBlogById
<1>3. CASE ArchiveBlogById(b)
  BY <1>3, NoBirth DEF ArchiveBlogById, AchieveAPublishedBlogById
<1>4. CASE MoveBlogToDraftStatus(b)
  BY <1>4, NoBirth DEF MoveBlogToDraftStatus, MoveBlogToDraft
<1>5. CASE DeleteABlogByBlogId(b)
  <2>1. CASE UNCHANGED <<doc, wasPublished>>
    BY <2>1 DEF Exists
  <2>2. CASE DeleteABlogById(b)
    BY <2>2, NoBirth DEF DeleteABlogById
  <2> QED BY <1>5, <2>1, <2>2 DEF DeleteABlogByBlogId
<1> QED BY <1>1, <1>2, <1>3, <1>4, <1>5 DEF Handle

LEMMA SchedulersBearNothing ==
  ASSUME TypeOK, NEW i \in Instances, Schedule(i)
  PROVE  \A c \in Blogs : Exists(c)' => Exists(c)
<1>1. sched[i].hit.blog \in Blogs
  BY SMT DEF TypeOK, SchedStates, Hits
<1>2. CASE UNCHANGED docVars
  BY <1>2 DEF docVars, Exists
<1>3. CASE CommitPublication(i)
  BY <1>1, <1>3, NoBirth DEF CommitPublication
<1>4. CASE /\ IncrementScheduleFailedAttempts(i)
           /\ Exists(sched[i].hit.blog)
           /\ Write(sched[i].hit.blog,
                    [doc[sched[i].hit.blog] EXCEPT !.failed = @ + 1])
  BY <1>1, <1>4, NoBirth
<1>5. \/ UNCHANGED docVars \/ CommitPublication(i)
      \/ /\ IncrementScheduleFailedAttempts(i)
         /\ Exists(sched[i].hit.blog)
         /\ Write(sched[i].hit.blog,
                  [doc[sched[i].hit.blog] EXCEPT !.failed = @ + 1])
  BY DEF Schedule, GetDueScheduledBlogs, NextDueBlog, PublishScheduledBlog,
         IncrementScheduleFailedAttempts, AnnouncePublication
<1> QED BY <1>2, <1>3, <1>4, <1>5

LEMMA EditsKeepAnnounced ==
  ASSUME AnnouncedInv, NEW s \in Streams, Edit(s)
  PROVE  /\ EveryDocumentWasAnnounced'
         /\ \A r \in Streams : stream'[r].pc \in {"first", "save", "open"}
                                  => created'[stream'[r].blog] # "no"
<1> USE DEF AnnouncedInv, EveryDocumentWasAnnounced, Exists
<1>0. /\ doc \in [Blogs -> Documents] /\ stream \in [Streams -> StreamStates]
      /\ created \in [Blogs -> Announcements] /\ stream[s].blog \in Blogs
      /\ \A r \in Streams : stream[r].blog \in Blogs
  <2>1. stream \in [Streams -> StreamStates]
    BY DEF TypeOK
  <2>2. \A r \in Streams : stream[r].blog \in Blogs
    BY <2>1 DEF StreamStates
  <2> QED BY <2>1, <2>2 DEF TypeOK
\* What is known of the streams suffices whenever no announcement is taken back
\* and this stream ends up elsewhere or is about a blog announced.
<1>1. ASSUME \A b \in Blogs : created[b] # "no" => created'[b] # "no",
             NEW t \in StreamStates, stream' = [stream EXCEPT ![s] = t],
             t.pc \in {"first", "save", "open"} => created'[t.blog] # "no"
      PROVE  \A r \in Streams : stream'[r].pc \in {"first", "save", "open"}
                                   => created'[stream'[r].blog] # "no"
  <2> TAKE r \in Streams
  <2>1. CASE r = s
    BY <1>0, <1>1, <2>1
  <2>2. CASE r # s
    BY <1>0, <1>1, <2>2
  <2> QED BY <2>1, <2>2
<1>a. \A pc \in {"check", "create", "first", "save", "open"} :
         /\ [stream[s] EXCEPT !.pc = pc] \in StreamStates
         /\ [stream[s] EXCEPT !.pc = pc].pc = pc
         /\ [stream[s] EXCEPT !.pc = pc].blog = stream[s].blog
  BY <1>0, SMT DEF StreamStates
<1>b. ASSUME NEW pc \in {"check", "create", "first", "save", "open"}, Goto(s, pc),
             \A b \in Blogs : created[b] # "no" => created'[b] # "no",
             pc \in {"first", "save", "open"} => created'[stream[s].blog] # "no"
      PROVE  \A r \in Streams : stream'[r].pc \in {"first", "save", "open"}
                                   => created'[stream'[r].blog] # "no"
  <2>1. stream' = [stream EXCEPT ![s] = [stream[s] EXCEPT !.pc = pc]]
    BY <1>b DEF Goto
  <2> QED BY <1>1, <1>a, <1>b, <2>1
<1>c. ASSUME Close(s), \A b \in Blogs : created[b] # "no" => created'[b] # "no"
      PROVE  \A r \in Streams : stream'[r].pc \in {"first", "save", "open"}
                                   => created'[stream'[r].blog] # "no"
  BY <1>1, <1>c, IdleType DEF Close, Closed
<1>2. CASE \E b \in Blogs : OpenStream(s, b)
  <2>1. PICK b \in Blogs : OpenStream(s, b)
    BY <1>2
  <2>2. doc' = doc /\ created' = created
    BY <2>1 DEF OpenStream, NoWrite
  <2>3. [pc |-> "check", blog |-> b] \in StreamStates
    BY DEF StreamStates
  <2>4. stream' = [stream EXCEPT ![s] = [pc |-> "check", blog |-> b]]
    BY <2>1 DEF OpenStream
  <2> QED BY <1>1, <2>2, <2>3, <2>4
<1>3. CASE \E stored \in BOOLEAN : PublishCreate(s, stored)
  <2>1. PICK stored \in BOOLEAN : PublishCreate(s, stored)
    BY <1>3
  <2>2. /\ doc' = doc
        /\ \A b \in Blogs : created[b] # "no" => created'[b] # "no"
        /\ stored => created'[stream[s].blog] # "no"
    BY <1>0, <2>1 DEF PublishCreate, NoWrite
  <2>3. Close(s) \/ (Goto(s, "first") /\ stored)
    BY <2>1 DEF PublishCreate
  <2> QED BY <1>b, <1>c, <2>2, <2>3
<1>4. CASE CheckExistence(s)
  <2>1. doc' = doc /\ created' = created
    BY <1>4 DEF CheckExistence, NoWrite
  <2>2. \/ Goto(s, "create") \/ Close(s)
        \/ Goto(s, "save") /\ doc[stream[s].blog].status \in {"draft", "scheduled"}
    BY <1>4 DEF CheckExistence
  <2>3. doc[stream[s].blog].status \in {"draft", "scheduled"}
           => created[stream[s].blog] # "no"
    BY <1>0
  <2> QED BY <1>b, <1>c, <2>1, <2>2, <2>3
<1>5. CASE SaveBlog(s)
  <2>1. created' = created /\ created[stream[s].blog] # "no"
    BY <1>5 DEF SaveBlog
  <2>2. IndexDraft(stream[s].blog) /\ (Goto(s, "open") \/ Close(s))
    BY <1>5 DEF SaveBlog
  <2>3. \A b \in Blogs : b # stream[s].blog => doc'[b] = doc[b]
    BY <1>0, <2>2 DEF IndexDraft, Write
  <2> QED BY <1>b, <1>c, <2>1, <2>2, <2>3
<1>6. CASE NextEdit(s)
  <2>1. doc' = doc /\ created' = created /\ Goto(s, "save") /\ stream[s].pc = "open"
    BY <1>6 DEF NextEdit, NoWrite
  <2> QED BY <1>b, <2>1
<1>7. CASE CloseStream(s)
  <2>1. doc' = doc /\ created' = created /\ Close(s)
    BY <1>7 DEF CloseStream, NoWrite
  <2> QED BY <1>c, <2>1
<1> QED BY <1>2, <1>3, <1>4, <1>5, <1>6, <1>7 DEF Edit

\* A deletion takes the document with the announcement, and what the streams
\* still write is on record as overrun.
LEMMA DeletionKeepsAnnounced ==
  ASSUME AnnouncedInv, NEW b \in Blogs, DeleteABlogByBlogId(b)
  PROVE  /\ EveryDocumentWasAnnounced'
         /\ \A r \in Streams : stream'[r].pc \in {"first", "save", "open"}
                                  => created'[stream'[r].blog] # "no"
<1>0. /\ doc \in [Blogs -> Documents] /\ created \in [Blogs -> Announcements]
      /\ \A r \in Streams : stream[r].blog \in Blogs
  <2>1. stream \in [Streams -> StreamStates]
    BY DEF AnnouncedInv, TypeOK
  <2>2. \A r \in Streams : stream[r].blog \in Blogs
    BY <2>1 DEF StreamStates
  <2> QED BY <2>2 DEF AnnouncedInv, TypeOK
<1> DEFINE w == IF Writing(b) THEN "overrun" ELSE "no"
<1>1. /\ created' = [created EXCEPT ![b] = w] /\ stream' = stream
      /\ DeleteABlogById(b) \/ (UNCHANGED <<doc, wasPublished>> /\ ~Exists(b))
  BY DEF DeleteABlogByBlogId
<1>2. ~Exists(b)' /\ \A c \in Blogs : c # b => doc'[c] = doc[c]
  BY <1>0, <1>1 DEF DeleteABlogById, Write, Exists, NewDocument
<1>3. created'[b] = w /\ \A c \in Blogs : c # b => created'[c] = created[c]
  BY <1>0, <1>1
<1>4. EveryDocumentWasAnnounced'
  BY <1>2, <1>3 DEF AnnouncedInv, EveryDocumentWasAnnounced, Exists
<1>5. ASSUME NEW r \in Streams, stream'[r].pc \in {"first", "save", "open"}
      PROVE  created'[stream'[r].blog] # "no"
  <2>1. CASE stream[r].blog = b
    <3>1. Writing(b)
      BY <1>1, <1>5, <2>1 DEF Writing
    <3> QED BY <1>1, <1>3, <2>1, <3>1
  <2>2. CASE stream[r].blog # b
    BY <1>0, <1>1, <1>3, <1>5, <2>2 DEF AnnouncedInv
  <2> QED BY <2>1, <2>2
<1> QED BY <1>4, <1>5

LEMMA AnnouncedInit == Init => AnnouncedInv
BY TypeInit DEF Init, AnnouncedInv, EveryDocumentWasAnnounced, Exists,
                NewDocument, Closed

LEMMA AnnouncedStep == AnnouncedInv /\ [Next]_vars => AnnouncedInv'
<1> SUFFICES ASSUME AnnouncedInv, [Next]_vars PROVE AnnouncedInv'
  OBVIOUS
<1>0. TypeOK /\ TypeOK'
  BY TypeStep DEF AnnouncedInv
<1>1. ASSUME \A c \in Blogs : Exists(c)' => Exists(c), UNCHANGED <<stream, created>>
      PROVE  AnnouncedInv'
  BY <1>0, <1>1 DEF AnnouncedInv, EveryDocumentWasAnnounced
<1>2. ASSUME UNCHANGED <<doc, stream, created>> PROVE AnnouncedInv'
  BY <1>0, <1>2 DEF AnnouncedInv, EveryDocumentWasAnnounced, Exists
<1>3. CASE Tick
  BY <1>2, <1>3 DEF Tick, docVars
<1>4. ASSUME NEW b \in Blogs, Refresh(b) PROVE AnnouncedInv'
  BY <1>2, <1>4 DEF Refresh, docVars
<1>5. ASSUME NEW b \in Blogs, Handle(b) PROVE AnnouncedInv'
  <2>1. CASE UNCHANGED created
    BY <1>0, <1>1, <1>5, <2>1, HandleWrites, HandlersBearNothing
  <2>2. CASE DeleteABlogByBlogId(b)
    BY <1>0, <2>2, DeletionKeepsAnnounced DEF AnnouncedInv
  <2> QED BY <1>0, <1>5, <2>1, <2>2, HandleWrites
<1>6. ASSUME NEW s \in Streams, Edit(s) PROVE AnnouncedInv'
  BY <1>0, <1>6, EditsKeepAnnounced DEF AnnouncedInv
<1>7. ASSUME NEW i \in Instances, Schedule(i) PROVE AnnouncedInv'
  BY <1>0, <1>1, <1>7, ScheduleWrites, SchedulersBearNothing
<1>8. ASSUME NEW i \in Instances, CrashBlogService(i) PROVE AnnouncedInv'
  BY <1>2, <1>8 DEF CrashBlogService, docVars
<1>9. CASE UNCHANGED vars
  BY <1>2, <1>9 DEF vars, docVars
<1> QED BY <1>3, <1>4, <1>5, <1>6, <1>7, <1>8, <1>9 DEF Next

\* No document is in the index unless the broker took its BLOG_CREATE since the
\* blog was last deleted, or that deletion came upon a stream past its own
\* BLOG_CREATE (EveryDocumentWasAnnounced).
THEOREM AnnouncedBeforeWritten == Spec => []EveryDocumentWasAnnounced
<1>1. AnnouncedInv => EveryDocumentWasAnnounced
  BY DEF AnnouncedInv
<1> QED BY <1>1, AnnouncedInit, AnnouncedStep, PTL DEF Spec
===============================================================================
