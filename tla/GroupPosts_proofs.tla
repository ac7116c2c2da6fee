--------------------------- MODULE GroupPosts_proofs ---------------------------
(***************************************************************************)
(* Proofs about GroupPosts, for any number of blogs, requests, editors and *)
(* failures.  What was read at some time (by an editor, by the scheduler,  *)
(* by a search) is either what the document still is, or carries a         *)
(* sequence number the document has left behind; and a blog a message has  *)
(* to reach is a hit of the running update or the message is still on its  *)
(* way.                                                                    *)
(***************************************************************************)
EXTENDS GroupPosts, TLAPS

-------------------------------------------------------------------------------
(* Types *)

Statuses == {"absent", "draft", "scheduled", "published"}

LEMMA SomeBlogType == SomeBlog \in Blogs
BY PostConstants DEF SomeBlog

LEMMA NothingTypes ==
  /\ NoScope \in Scopes /\ NoRequest \in RequestStates
  /\ NoSave \in SaveStates /\ NotDue \in SchedStates
<1>1. NoScope \in Scopes
  BY DEF NoScope, Scopes, Audiences
<1>2. NoRequest \in RequestStates
  BY <1>1, SomeBlogType DEF NoRequest, RequestStates
<1>3. NoSave \in SaveStates
  BY <1>1, SomeBlogType DEF NoSave, SaveStates, Fields
<1>4. NotDue \in SchedStates
  BY <1>1, SomeBlogType DEF NotDue, SchedStates
<1> QED BY <1>1, <1>2, <1>3, <1>4

LEMMA FilledType ==
  ASSUME NEW kept, NEW old \in Scopes, NEW given \in Scopes
  PROVE  Filled(kept, old, given) \in Scopes
BY SMT DEF Filled, Scopes

\* A write leaves a document of its type under the next sequence number, and
\* touches no other document.
LEMMA WriteEffect ==
  ASSUME doc \in [Blogs -> Documents], NEW b \in Blogs,
         NEW status \in Statuses, NEW scope \in Scopes,
         Write(b, status, scope)
  PROVE  /\ doc' \in [Blogs -> Documents]
         /\ doc'[b] = [status |-> status, scope |-> scope,
                       seq |-> doc[b].seq + 1]
         /\ \A c \in Blogs : c # b => doc'[c] = doc[c]
<1> DEFINE d == [status |-> status, scope |-> scope, seq |-> doc[b].seq + 1]
<1>1. doc[b].seq + 1 \in Nat
  BY SMT DEF Documents
<1>2. d \in Documents
  BY <1>1, SMT DEF Documents, Statuses
<1>3. doc' = [doc EXCEPT ![b] = d]
  BY DEF Write
<1> HIDE DEF d
<1>4. doc' \in [Blogs -> Documents] /\ doc'[b] = d
      /\ \A c \in Blogs : c # b => doc'[c] = doc[c]
  BY <1>2, <1>3
<1> QED BY <1>4 DEF d

LEMMA Detached ==
  ASSUME NEW s \in Scopes
  PROVE  /\ [s EXCEPT !.grouped = FALSE] = [grouped |-> FALSE, audience |-> s.audience]
         /\ [s EXCEPT !.grouped = FALSE] \in Scopes
<1>1. \A x \in BOOLEAN :
         /\ [s EXCEPT !.grouped = x] = [grouped |-> x, audience |-> s.audience]
         /\ [s EXCEPT !.grouped = x] \in Scopes
  BY SMT DEF Scopes
<1> QED BY <1>1, Zenon

LEMMA Coerced ==
  ASSUME NEW s \in Scopes
  PROVE  /\ [s EXCEPT !.audience = "group_only"]
               = [grouped |-> s.grouped, audience |-> "group_only"]
         /\ [s EXCEPT !.audience = "group_only"] \in Scopes
BY SMT DEF Scopes, Audiences

\* What a request, an editor, the scheduler or an update writes is a scope.
LEMMA ScopeAfterType ==
  ASSUME NEW m, NEW s \in Scopes
  PROVE  ScopeAfter(m, s) \in Scopes
BY Detached, Coerced DEF ScopeAfter

\* Every step writes at most one document.
Writes == \E b \in Blogs, status \in Statuses, scope \in Scopes :
             Write(b, status, scope)

LEMMA DocumentTypes ==
  ASSUME PostTypeOK
  PROVE  /\ doc \in [Blogs -> Documents]
         /\ \A b \in Blogs : /\ doc[b] \in Documents /\ doc[b].scope \in Scopes
                             /\ doc[b].status \in Statuses /\ doc[b].seq \in Nat
BY SMT DEF PostTypeOK, Documents, Statuses

LEMMA WriteOrNot ==
  ASSUME PostTypeOK, [Next]_vars
  PROVE  Writes \/ UNCHANGED doc
<1> USE DocumentTypes, NothingTypes DEF Statuses
<1>1. CASE Group
  BY <1>1 DEF Group, UpdateGroup, DeleteGroup, ChangeMembership, GroupRest
<1>2. CASE Consume
  <2>1. ASSUME NEW h \in update.todo, UpdateHit(h)
        PROVE  Writes \/ UNCHANGED doc
    <3>1. h.blog \in Blogs
      BY <2>1, SMT DEF PostTypeOK, Hits
    <3>2. ScopeAfter(update.act, doc[h.blog].scope) \in Scopes
      BY <3>1, ScopeAfterType
    <3> QED BY <2>1, <3>1, <3>2 DEF UpdateHit, Writes
  <2> QED BY <1>2, <2>1 DEF Consume, StartUpdate, LoseMessage, DuplicateMessage,
                            FinishUpdate, AbortUpdate
<1>3. ASSUME NEW b \in Blogs, Handle(b) PROVE Writes \/ UNCHANGED doc
  <2>1. CASE MoveBlogToDraft(b) \/ DeleteABlogById(b)
    BY <2>1 DEF MoveBlogToDraft, DeleteABlogById, Writes
  <2>2. CASE \E scope \in Scopes : SaveWithScope(b, scope)
    BY <2>2 DEF SaveWithScope, Writes
  <2>3. ASSUME NEW r \in Requests, NEW status, NEW asked,
               AuthorizeRequest(r, b, status, asked)
        PROVE  UNCHANGED doc
    BY <2>3 DEF AuthorizeRequest
  <2>4. ASSUME NEW e \in Editors, NEW kept, NEW given, ReadScope(e, b, kept, given)
        PROVE  UNCHANGED doc
    BY <2>4 DEF ReadScope
  <2>5. CASE FindDueBlog(b) \/ Refresh(b)
    BY <2>5 DEF FindDueBlog, Refresh
  <2> QED BY <1>3, <2>1, <2>2, <2>3, <2>4, <2>5 DEF Handle
<1>4. ASSUME NEW r \in Requests, WriteRequest(r) PROVE Writes \/ UNCHANGED doc
  <2>1. /\ req[r].blog \in Blogs /\ req[r].status \in Statuses
        /\ req[r].scope \in Scopes
    BY SMT DEF PostTypeOK, RequestStates
  <2> QED BY <1>4, <2>1 DEF WriteRequest, Writes
<1>5. ASSUME NEW e \in Editors, WriteDraft(e) PROVE Writes \/ UNCHANGED doc
  <2>1. save[e].blog \in Blogs /\ save[e].scope \in Scopes
    BY SMT DEF PostTypeOK, SaveStates
  <2> QED BY <1>5, <2>1 DEF WriteDraft, Writes
<1>6. CASE MustClearScheduledGroup
  BY <1>6 DEF MustClearScheduledGroup
<1>7. CASE PublishScheduledBlog
  <2>1. sched.blog \in Blogs
    BY SMT DEF PostTypeOK, SchedStates
  <2>2. [doc[sched.blog].scope EXCEPT !.grouped = FALSE] \in Scopes
    BY <2>1, Detached
  <2> QED BY <1>7, <2>1, <2>2 DEF PublishScheduledBlog, Writes
<1>8. CASE UNCHANGED vars
  BY <1>8 DEF vars
<1> QED BY <1>1, <1>2, <1>3, <1>4, <1>5, <1>6, <1>7, <1>8 DEF Next

\* So sequence numbers only grow, and a document that changes takes a new one.
Grows == /\ doc' \in [Blogs -> Documents]
         /\ \A b \in Blogs : doc'[b] = doc[b] \/ doc'[b].seq = doc[b].seq + 1

LEMMA DocumentsGrow ==
  ASSUME PostTypeOK, [Next]_vars
  PROVE  Grows
<1>1. CASE Writes
  <2>1. PICK b \in Blogs, status \in Statuses, scope \in Scopes :
           Write(b, status, scope)
    BY <1>1 DEF Writes
  <2>2. /\ doc' \in [Blogs -> Documents]
        /\ doc'[b] = [status |-> status, scope |-> scope, seq |-> doc[b].seq + 1]
        /\ \A c \in Blogs : c # b => doc'[c] = doc[c]
    BY <2>1, DocumentTypes, WriteEffect
  <2> QED BY <2>2, SMT DEF Grows
<1>2. CASE UNCHANGED doc
  BY <1>2, DocumentTypes DEF Grows
<1> QED BY <1>1, <1>2, WriteOrNot

\* Everything but the documents.
RestTypeOK ==
  /\ group \in {"open", "closed", "deleted"} /\ member \in BOOLEAN
  /\ searchable \in [Blogs -> Documents]
  /\ req \in [Requests -> RequestStates]
  /\ save \in [Editors -> SaveStates]
  /\ sched \in SchedStates
  /\ mail \in [Messages -> Nat]
  /\ update \in [act : Messages \cup {"none"}, todo : SUBSET Hits]
  /\ ops \in 0..MaxOps /\ faults \in 0..MaxFaults
  /\ late \in [Blogs -> BOOLEAN]

LEMMA BoundTypes ==
  ASSUME PostTypeOK
  PROVE  /\ Operation => ops' \in 0..MaxOps
         /\ Fault => faults' \in 0..MaxFaults
         /\ \A b \in Blogs, x \in BOOLEAN :
               [late EXCEPT ![b] = x] \in [Blogs -> BOOLEAN]
BY PostConstants, SMT DEF PostTypeOK, Operation, Fault

LEMMA MailTypes ==
  ASSUME PostTypeOK, NEW m \in Messages
  PROVE  /\ [mail EXCEPT ![m] = @ + 1] \in [Messages -> Nat]
         /\ mail[m] > 0 => [mail EXCEPT ![m] = @ - 1] \in [Messages -> Nat]
BY SMT DEF PostTypeOK, Messages

LEMMA GroupTypes ==
  ASSUME PostTypeOK, Group
  PROVE  RestTypeOK'
<1> USE BoundTypes, MailTypes DEF PostTypeOK, RestTypeOK, GroupRest, NoFault
<1>1. ASSUME NEW v \in {"open", "closed"}, UpdateGroup(v) PROVE RestTypeOK'
  BY <1>1 DEF UpdateGroup, Messages
<1>2. CASE DeleteGroup
  BY <1>2 DEF DeleteGroup, Messages
<1>3. CASE ChangeMembership
  BY <1>3 DEF ChangeMembership
<1> QED BY <1>1, <1>2, <1>3 DEF Group

LEMMA ConsumeTypes ==
  ASSUME PostTypeOK, Consume
  PROVE  RestTypeOK'
<1> USE BoundTypes, MailTypes
        DEF PostTypeOK, RestTypeOK, MailRest, NoFault, NobodyReached
<1>1. ASSUME NEW m \in Messages, StartUpdate(m) PROVE RestTypeOK'
  <2> DEFINE T == {[blog |-> b, seq |-> searchable[b].seq] :
                     b \in {c \in Blogs : Matches(m, searchable[c])}}
  <2>1. T \in SUBSET Hits
    BY SMT DEF Hits, Documents
  <2> HIDE DEF T
  <2>2. [act |-> m, todo |-> T]
           \in [act : Messages \cup {"none"}, todo : SUBSET Hits]
    BY <2>1
  <2>3. update' = [act |-> m, todo |-> T]
    BY <1>1 DEF StartUpdate, T
  <2> QED BY <1>1, <2>2, <2>3 DEF StartUpdate
<1>2. ASSUME NEW m \in Messages, LoseMessage(m) \/ DuplicateMessage(m)
      PROVE  RestTypeOK'
  BY <1>2 DEF LoseMessage, DuplicateMessage
<1>3. ASSUME NEW h \in update.todo, UpdateHit(h) PROVE RestTypeOK'
  <2>1. h.blog \in Blogs
    BY SMT DEF Hits
  <2>2. update' \in [act : Messages \cup {"none"}, todo : SUBSET Hits]
    BY <1>3, SMT DEF UpdateHit
  <2> QED BY <1>3, <2>1, <2>2 DEF UpdateHit
<1>4. NoUpdate \in [act : Messages \cup {"none"}, todo : SUBSET Hits]
  BY DEF NoUpdate
<1>5. CASE FinishUpdate \/ AbortUpdate
  BY <1>4, <1>5 DEF FinishUpdate, AbortUpdate
<1> QED BY <1>1, <1>2, <1>3, <1>5 DEF Consume

LEMMA HandleTypes ==
  ASSUME PostTypeOK, NEW b \in Blogs, Handle(b)
  PROVE  RestTypeOK'
<1> USE BoundTypes, NothingTypes
        DEF PostTypeOK, RestTypeOK, HandlerRest, WriteRest, MailRest, SchedRest,
            NoFault
<1>1. ASSUME NEW r \in Requests, NEW status \in {"scheduled", "published"},
             NEW asked \in Scopes, AuthorizeRequest(r, b, status, asked)
      PROVE  RestTypeOK'
  <2> DEFINE s == IF asked.grouped
                  THEN [grouped |-> TRUE, audience |-> Coerce(asked.audience, group)]
                  ELSE NoScope
             q == [pc |-> "authorized", blog |-> b, status |-> status,
                   scope |-> s, asOf |-> group]
  <2>1. s \in Scopes
    BY SMT DEF Scopes, Coerce, Audiences
  <2> HIDE DEF s
  <2>2. q \in RequestStates
    BY <2>1 DEF RequestStates
  <2>3. req' = [req EXCEPT ![r] = q]
    BY <1>1 DEF AuthorizeRequest, s
  <2> HIDE DEF q
  <2> QED BY <1>1, <2>2, <2>3 DEF AuthorizeRequest
<1>2. CASE MoveBlogToDraft(b) \/ DeleteABlogById(b)
  BY <1>2 DEF MoveBlogToDraft, DeleteABlogById
<1>3. CASE \E scope \in Scopes : SaveWithScope(b, scope)
  BY <1>3 DEF SaveWithScope
<1>4. ASSUME NEW e \in Editors, NEW kept \in SUBSET Fields, NEW given \in Scopes,
             ReadScope(e, b, kept, given)
      PROVE  RestTypeOK'
  <2> DEFINE s == Filled(kept, doc[b].scope, given)
             x == Exists(b)
             v == [pc |-> "write", blog |-> b, found |-> x,
                   seq |-> doc[b].seq, kept |-> kept, scope |-> s]
  <2>1. s \in Scopes
    BY DocumentTypes, FilledType
  <2>2. x \in BOOLEAN
    BY DEF Exists
  <2> HIDE DEF s, x
  <2>3. v \in SaveStates
    BY <2>1, <2>2, DocumentTypes DEF SaveStates
  <2>4. save' = [save EXCEPT ![e] = v]
    BY <1>4 DEF ReadScope, s, x
  <2> HIDE DEF v
  <2> QED BY <1>4, <2>3, <2>4 DEF ReadScope
<1>5. CASE FindDueBlog(b)
  <2>1. searchable[b].seq \in Nat /\ searchable[b].scope \in Scopes
    BY SMT DEF Documents
  <2>2. sched' \in SchedStates
    BY <1>5, <2>1 DEF FindDueBlog, SchedStates
  <2> QED BY <1>5, <2>2 DEF FindDueBlog
<1>6. CASE Refresh(b)
  BY <1>6 DEF Refresh
<1> QED BY <1>1, <1>2, <1>3, <1>4, <1>5, <1>6 DEF Handle

LEMMA WriterTypes ==
  ASSUME PostTypeOK,
         \/ \E r \in Requests : WriteRequest(r)
         \/ \E e \in Editors : WriteDraft(e)
         \/ MustClearScheduledGroup \/ PublishScheduledBlog
  PROVE  RestTypeOK'
<1> USE BoundTypes, NothingTypes
        DEF PostTypeOK, RestTypeOK, WriteRest, SchedRest, NoFault
<1>1. ASSUME NEW r \in Requests, WriteRequest(r) PROVE RestTypeOK'
  <2>1. req[r].blog \in Blogs /\ req[r].scope.grouped \in BOOLEAN
    BY SMT DEF RequestStates, Scopes
  <2>2. (req[r].scope.grouped /\ group # req[r].asOf) \in BOOLEAN
    OBVIOUS
  <2>3. late' \in [Blogs -> BOOLEAN]
    BY <1>1, <2>1, <2>2 DEF WriteRequest
  <2> QED BY <1>1, <2>3 DEF WriteRequest
<1>2. ASSUME NEW e \in Editors, WriteDraft(e) PROVE RestTypeOK'
  BY <1>2 DEF WriteDraft
<1>3. CASE MustClearScheduledGroup
  <2> DEFINE c == sched.scope.grouped /\ (group = "deleted" \/ ~member)
  <2>0. /\ [sched EXCEPT !.pc = "publish"] \in SchedStates
        /\ \A t \in SchedStates, x \in BOOLEAN :
              [t EXCEPT !.clear = x] \in SchedStates
    BY SMT DEF SchedStates
  <2>1. \A x \in BOOLEAN :
           [[sched EXCEPT !.pc = "publish"] EXCEPT !.clear = x] \in SchedStates
    BY <2>0, Zenon
  <2>2. c \in BOOLEAN
    OBVIOUS
  <2>3. sched' = [sched EXCEPT !.pc = "publish", !.clear = c] \/ sched' = NotDue
    BY <1>3 DEF MustClearScheduledGroup
  <2> HIDE DEF c
  <2>4. sched' \in SchedStates
    BY <2>1, <2>2, <2>3, Zenon
  <2> QED BY <1>3, <2>4 DEF MustClearScheduledGroup
<1>4. CASE PublishScheduledBlog
  <2>1. [sched EXCEPT !.pc = "check"] \in SchedStates
    BY SMT DEF SchedStates
  <2> QED BY <1>4, <2>1 DEF PublishScheduledBlog
<1> QED BY <1>1, <1>2, <1>3, <1>4

LEMMA TypeStep ==
  ASSUME PostTypeOK, [Next]_vars
  PROVE  PostTypeOK'
<1>1. RestTypeOK'
  <2>1. CASE UNCHANGED vars
    BY <2>1 DEF vars, PostTypeOK, RestTypeOK
  <2> QED BY <2>1, GroupTypes, ConsumeTypes, HandleTypes, WriterTypes DEF Next
<1>2. doc' \in [Blogs -> Documents]
  BY DocumentsGrow DEF Grows
<1> QED BY <1>1, <1>2 DEF PostTypeOK, RestTypeOK

LEMMA TypeInit == Init => PostTypeOK
<1> SUFFICES ASSUME Init PROVE PostTypeOK
  OBVIOUS
<1>1. [status |-> "absent", scope |-> NoScope, seq |-> 0] \in Documents
  BY NothingTypes DEF Documents
<1>2. doc \in [Blogs -> Documents] /\ searchable \in [Blogs -> Documents]
  BY <1>1 DEF Init
<1>3. mail \in [Messages -> Nat] /\ late \in [Blogs -> BOOLEAN]
  BY DEF Init
<1>4. update \in [act : Messages \cup {"none"}, todo : SUBSET Hits]
  BY DEF Init, NoUpdate
<1>5. ops \in 0..MaxOps /\ faults \in 0..MaxFaults
  BY PostConstants, SMT DEF Init
<1> QED BY <1>2, <1>3, <1>4, <1>5, NothingTypes DEF Init, PostTypeOK

\* Every reachable state is well typed, for any numbers of blogs, requests and
\* editors.
THEOREM TypeCorrect == Spec => []PostTypeOK
BY TypeInit, TypeStep, PTL DEF Spec

-------------------------------------------------------------------------------
(* What was read *)

\* A search sees the document as it is, or an earlier version of it.
SearchLags ==
  \A b \in Blogs :
     /\ searchable[b].seq <= doc[b].seq
     /\ searchable[b].seq = doc[b].seq => searchable[b] = doc[b]

\* An editor that read a document holds the scope it still has in the kept
\* fields, or a sequence number from before.
ReadHolds(s) ==
  s.pc = "write" /\ s.found =>
     /\ s.seq <= doc[s.blog].seq
     /\ s.seq = doc[s.blog].seq =>
           /\ Exists(s.blog)
           /\ s.scope = Filled(s.kept, doc[s.blog].scope, s.scope)

SaveInv == \A e \in Editors : ReadHolds(save[e])

\* So does the scheduler with the blog it found scheduled.
SchedInv ==
  sched.pc # "idle" =>
     /\ sched.seq <= doc[sched.blog].seq
     /\ sched.seq = doc[sched.blog].seq => doc[sched.blog].status = "scheduled"

\* An authorization to publish into the group is no older than the group, and
\* is for members if the group was closed.
Authorized(q) ==
  q.pc = "authorized" /\ q.scope.grouped =>
     /\ q.asOf # "deleted"
     /\ q.asOf = "closed" => q.scope.audience = "group_only"

ReqInv == \A r \in Requests : Authorized(req[r])

ReadInv == SearchLags /\ SaveInv /\ SchedInv /\ ReqInv

LEMMA NothingHolds == ReadHolds(NoSave)' /\ Authorized(NoRequest)'
BY DEF ReadHolds, NoSave, Authorized, NoRequest

\* How the copies and the reads may change in a step.
ReadsMove ==
  /\ \A b \in Blogs :
        \/ searchable'[b] = searchable[b]
        \/ searchable'[b] = doc[b] /\ doc'[b] = doc[b]
  /\ \A e \in Editors : save'[e] = save[e] \/ ReadHolds(save[e])'
  /\ \A r \in Requests : req'[r] = req[r] \/ Authorized(req[r])'
  /\ \/ sched' = NotDue \/ sched' = sched
     \/ /\ sched'.blog = sched.blog /\ sched'.seq = sched.seq
        /\ sched.pc # "idle"
     \/ /\ sched'.blog \in Blogs /\ doc' = doc
        /\ searchable[sched'.blog].status = "scheduled"
        /\ sched'.seq = searchable[sched'.blog].seq

LEMMA StillReads ==
  ASSUME UNCHANGED <<searchable, req, save, sched>>
  PROVE  ReadsMove
BY DEF ReadsMove

LEMMA AuthorizeMoves ==
  ASSUME PostTypeOK, NEW b \in Blogs, NEW r \in Requests, NEW status,
         NEW asked \in Scopes, AuthorizeRequest(r, b, status, asked)
  PROVE  ReadsMove
<1> DEFINE s == IF asked.grouped
                THEN [grouped |-> TRUE, audience |-> Coerce(asked.audience, group)]
                ELSE NoScope
           q == [pc |-> "authorized", blog |-> b, status |-> status,
                 scope |-> s, asOf |-> group]
<1>1. /\ s.grouped => group # "deleted"
      /\ s.grouped /\ group = "closed" => s.audience = "group_only"
  BY DEF AuthorizeRequest, NoScope, Coerce
<1>2. req' = [req EXCEPT ![r] = q]
  BY DEF AuthorizeRequest
<1> HIDE DEF s
<1>3. /\ q.pc = "authorized" /\ q.scope = s /\ q.asOf = group
  OBVIOUS
<1> HIDE DEF q
<1>5. \A p \in Requests : req'[p] = IF p = r THEN q ELSE req[p]
  BY <1>2 DEF PostTypeOK
<1>6. \A p \in Requests : req'[p] = req[p] \/ Authorized(req[p])'
  <2>1. Authorized(req[r])'
    BY <1>1, <1>3, <1>5 DEF Authorized
  <2> QED BY <1>5, <2>1
<1>7. UNCHANGED <<searchable, save, sched>>
  BY DEF AuthorizeRequest, WriteRest
<1> QED BY <1>6, <1>7 DEF ReadsMove

LEMMA FilledTwice ==
  ASSUME NEW kept, NEW old \in Scopes, NEW given \in Scopes
  PROVE  Filled(kept, old, given) = Filled(kept, old, Filled(kept, old, given))
BY SMT DEF Filled, Scopes

LEMMA ReadMoves ==
  ASSUME PostTypeOK, NEW b \in Blogs, NEW e \in Editors, NEW kept,
         NEW given \in Scopes, ReadScope(e, b, kept, given)
  PROVE  ReadsMove
<1> DEFINE s == Filled(kept, doc[b].scope, given)
           x == Exists(b)
           v == [pc |-> "write", blog |-> b, found |-> x,
                 seq |-> doc[b].seq, kept |-> kept, scope |-> s]
<1>1. s = Filled(kept, doc[b].scope, s)
  BY DocumentTypes, FilledTwice
<1>2. save' = [save EXCEPT ![e] = v]
  BY DEF ReadScope
<1>3. doc' = doc
  BY DEF ReadScope
<1> HIDE DEF s
<1>4. /\ v.blog = b /\ v.found = x /\ v.seq = doc[b].seq
      /\ v.kept = kept /\ v.scope = s
  OBVIOUS
<1> HIDE DEF v
<1>5. \A p \in Editors : save'[p] = IF p = e THEN v ELSE save[p]
  BY <1>2 DEF PostTypeOK
<1>6. ReadHolds(save[e])'
  <2>1. save'[e] = v /\ doc[b].seq \in Nat
    BY <1>5, DocumentTypes
  <2>2. CASE x
    BY <1>1, <1>3, <1>4, <2>1, <2>2, SMT DEF ReadHolds, Exists
  <2>3. CASE ~x
    BY <1>4, <2>1, <2>3 DEF ReadHolds
  <2> QED BY <2>2, <2>3
<1>7. \A p \in Editors : save'[p] = save[p] \/ ReadHolds(save[p])'
  BY <1>5, <1>6
<1>8. UNCHANGED <<searchable, req, sched>>
  BY DEF ReadScope, WriteRest
<1> QED BY <1>7, <1>8 DEF ReadsMove

LEMMA ReadsMoveAlways ==
  ASSUME PostTypeOK, [Next]_vars
  PROVE  ReadsMove
<1>1. CASE Group
  <2>1. UNCHANGED <<searchable, req, save, sched>>
    BY <1>1 DEF Group, UpdateGroup, DeleteGroup, ChangeMembership, GroupRest
  <2> QED BY <2>1, StillReads
<1>2. CASE Consume
  <2>1. CASE FinishUpdate
    BY <2>1 DEF FinishUpdate, MailRest, ReadsMove
  <2>2. ASSUME ~FinishUpdate PROVE UNCHANGED <<searchable, req, save, sched>>
    BY <1>2, <2>2 DEF Consume, StartUpdate, LoseMessage, DuplicateMessage,
                      UpdateHit, AbortUpdate, MailRest
  <2> QED BY <2>1, <2>2, StillReads
<1>3. ASSUME NEW b \in Blogs, Handle(b) PROVE ReadsMove
  <2>1. CASE \/ MoveBlogToDraft(b) \/ DeleteABlogById(b)
             \/ \E scope \in Scopes : SaveWithScope(b, scope)
    <3>1. UNCHANGED <<searchable, req, save, sched>>
      BY <2>1 DEF MoveBlogToDraft, DeleteABlogById, SaveWithScope, HandlerRest,
                  WriteRest
    <3> QED BY <3>1, StillReads
  <2>2. CASE FindDueBlog(b)
    BY <2>2 DEF FindDueBlog, SchedRest, WriteRest, ReadsMove
  <2>3. CASE Refresh(b)
    <3>1. /\ searchable' = [searchable EXCEPT ![b] = doc[b]]
          /\ UNCHANGED <<doc, req, save, sched>>
      BY <2>3 DEF Refresh, MailRest
    <3>2. searchable \in [Blogs -> Documents]
      BY DEF PostTypeOK
    <3> QED BY <3>1, <3>2 DEF ReadsMove
  <2> QED BY <1>3, <2>1, <2>2, <2>3, AuthorizeMoves, ReadMoves DEF Handle
<1>4. ASSUME NEW r \in Requests, WriteRequest(r) PROVE ReadsMove
  <2>1. /\ req' = [req EXCEPT ![r] = NoRequest]
        /\ UNCHANGED <<searchable, save, sched>>
    BY <1>4 DEF WriteRequest, WriteRest
  <2>2. \A p \in Requests : req'[p] = IF p = r THEN NoRequest ELSE req[p]
    BY <2>1 DEF PostTypeOK
  <2>3. Authorized(req[r])'
    BY <2>2 DEF Authorized, NoRequest
  <2> QED BY <2>1, <2>2, <2>3 DEF ReadsMove
<1>5. ASSUME NEW e \in Editors, WriteDraft(e) PROVE ReadsMove
  <2>1. /\ save' = [save EXCEPT ![e] = NoSave]
        /\ UNCHANGED <<searchable, req, sched>>
    BY <1>5 DEF WriteDraft, WriteRest
  <2>2. \A p \in Editors : save'[p] = IF p = e THEN NoSave ELSE save[p]
    BY <2>1 DEF PostTypeOK
  <2>3. ReadHolds(save[e])'
    BY <2>2 DEF ReadHolds, NoSave
  <2> QED BY <2>1, <2>2, <2>3 DEF ReadsMove
<1>6. CASE MustClearScheduledGroup
  <2>1. UNCHANGED <<searchable, req, save>>
    BY <1>6 DEF MustClearScheduledGroup, SchedRest, WriteRest
  <2>2. \/ sched' = NotDue
        \/ sched'.blog = sched.blog /\ sched'.seq = sched.seq /\ sched.pc # "idle"
    BY <1>6 DEF MustClearScheduledGroup, PostTypeOK, SchedStates
  <2> QED BY <2>1, <2>2 DEF ReadsMove
<1>7. CASE PublishScheduledBlog
  <2>1. UNCHANGED <<searchable, req, save>>
    BY <1>7 DEF PublishScheduledBlog, SchedRest, WriteRest
  <2>2. \/ sched' = NotDue
        \/ sched'.blog = sched.blog /\ sched'.seq = sched.seq /\ sched.pc # "idle"
    BY <1>7 DEF PublishScheduledBlog, PostTypeOK, SchedStates
  <2> QED BY <2>1, <2>2 DEF ReadsMove
<1>8. CASE UNCHANGED vars
  BY <1>8, StillReads DEF vars
<1> QED BY <1>1, <1>2, <1>3, <1>4, <1>5, <1>6, <1>7, <1>8 DEF Next

LEMMA ReadStep ==
  ASSUME PostTypeOK, ReadInv, [Next]_vars
  PROVE  ReadInv'
<1>1. ReadsMove /\ Grows /\ PostTypeOK'
  BY ReadsMoveAlways, DocumentsGrow, TypeStep
<1>2. \A b \in Blogs : doc[b].seq \in Nat /\ doc'[b].seq \in Nat
                        /\ searchable[b].seq \in Nat
  BY <1>1, SMT DEF PostTypeOK, Documents, Grows
<1>3. SearchLags'
  BY <1>1, <1>2, SMT DEF ReadInv, SearchLags, ReadsMove, Grows
<1>4. SaveInv'
  <2> SUFFICES ASSUME NEW e \in Editors PROVE ReadHolds(save[e])'
    BY DEF SaveInv
  <2>1. CASE save'[e] = save[e]
    <3>1. save[e].blog \in Blogs /\ save[e].seq \in Nat
      BY SMT DEF PostTypeOK, SaveStates
    <3>2. ReadHolds(save[e])
      BY DEF ReadInv, SaveInv
    <3>3. doc'[save[e].blog] = doc[save[e].blog]
          \/ doc'[save[e].blog].seq = doc[save[e].blog].seq + 1
      BY <1>1, <3>1 DEF Grows
    <3> QED BY <1>2, <2>1, <3>1, <3>2, <3>3, SMT DEF ReadHolds, Exists
  <2> QED BY <1>1, <2>1 DEF ReadsMove
<1>5. SchedInv'
  <2>1. CASE \/ sched' = sched
             \/ /\ sched'.blog = sched.blog /\ sched'.seq = sched.seq
                /\ sched.pc # "idle"
    <3>1. sched.blog \in Blogs /\ sched.seq \in Nat
      BY SMT DEF PostTypeOK, SchedStates
    <3>2. doc'[sched.blog] = doc[sched.blog]
          \/ doc'[sched.blog].seq = doc[sched.blog].seq + 1
      BY <1>1, <3>1 DEF Grows
    <3> QED BY <1>2, <2>1, <3>1, <3>2, SMT DEF ReadInv, SchedInv
  <2>2. CASE sched' = NotDue
    BY <2>2 DEF SchedInv, NotDue
  <2>3. CASE /\ sched'.blog \in Blogs /\ doc' = doc
             /\ searchable[sched'.blog].status = "scheduled"
             /\ sched'.seq = searchable[sched'.blog].seq
    BY <1>2, <2>3, SMT DEF ReadInv, SearchLags, SchedInv
  <2> QED BY <1>1, <2>1, <2>2, <2>3 DEF ReadsMove
<1>6. ReqInv'
  <2> SUFFICES ASSUME NEW r \in Requests PROVE Authorized(req[r])'
    BY DEF ReqInv
  <2>1. CASE req'[r] = req[r]
    BY <2>1 DEF ReadInv, ReqInv, Authorized
  <2> QED BY <1>1, <2>1 DEF ReadsMove
<1> QED BY <1>3, <1>4, <1>5, <1>6 DEF ReadInv

LEMMA ReadInit == Init => ReadInv
<1> SUFFICES ASSUME Init PROVE ReadInv
  OBVIOUS
<1>1. PostTypeOK
  BY TypeInit
<1>2. SearchLags
  <2>1. searchable = doc
    BY DEF Init
  <2>2. \A b \in Blogs : searchable[b] = doc[b] /\ doc[b].seq \in Nat
    BY <1>1, <2>1, DocumentTypes
  <2>3. \A n \in Nat : n <= n
    BY SMT
  <2> QED BY <2>2, <2>3, Zenon DEF SearchLags
<1>3. SaveInv
  BY DEF Init, SaveInv, ReadHolds, NoSave
<1>4. SchedInv
  BY DEF Init, SchedInv, NotDue
<1>5. ReqInv
  BY DEF Init, ReqInv, Authorized, NoRequest
<1> QED BY <1>2, <1>3, <1>4, <1>5 DEF ReadInv

LEMMA ReadsAlways == Spec => [](PostTypeOK /\ ReadInv)
BY TypeInit, ReadInit, TypeStep, ReadStep, PTL DEF Spec

-------------------------------------------------------------------------------
(* Scopes *)

LEMMA KeptAtWrite ==
  ASSUME PostTypeOK, ReadInv, NEW e \in Editors, WriteDraft(e),
         doc'[save[e].blog] # doc[save[e].blog]
  PROVE  IF Exists(save[e].blog)
         THEN doc'[save[e].blog].scope
                = Filled(save[e].kept, doc[save[e].blog].scope,
                         doc'[save[e].blog].scope)
         ELSE ~save[e].found
<1>1. save[e].blog \in Blogs /\ save[e].scope \in Scopes
  BY SMT DEF PostTypeOK, SaveStates
<1>2. /\ Unchanged(e) /\ Write(save[e].blog, "draft", save[e].scope)
      /\ save[e].pc = "write"
  <2>1. save[e].pc = "write"
    BY DEF WriteDraft
  <2>2. CASE Unchanged(e)
    BY <2>1, <2>2 DEF WriteDraft
  <2>3. CASE ~Unchanged(e)
    BY <2>3 DEF WriteDraft
  <2> QED BY <2>2, <2>3
<1>3. doc'[save[e].blog] = [status |-> "draft", scope |-> save[e].scope,
                            seq |-> doc[save[e].blog].seq + 1]
  BY <1>1, <1>2, DocumentTypes, WriteEffect DEF Statuses
<1>4. doc'[save[e].blog].scope = save[e].scope
  BY <1>3
<1>5. ReadHolds(save[e])
  BY DEF ReadInv, SaveInv
<1> QED BY <1>2, <1>4, <1>5 DEF Unchanged, ReadHolds

\* A draft that leaves part of the scope out keeps that part, for any number of
\* editors: SavesKeepScope holds of every step.
THEOREM SavesKeep == Spec => SavesKeepScope
<1>1. PostTypeOK /\ ReadInv /\ [Next]_vars =>
        [\A e \in Editors :
           LET b == save[e].blog IN
           WriteDraft(e) /\ doc'[b] # doc[b] =>
             IF Exists(b)
             THEN doc'[b].scope = Filled(save[e].kept, doc[b].scope, doc'[b].scope)
             ELSE ~save[e].found]_vars
  BY KeptAtWrite
<1> QED BY <1>1, ReadsAlways, PTL DEF Spec, SavesKeepScope

Shut(b)   == Exists(b) /\ doc[b].scope.audience = "group_only"
Opened(b) == doc'[b].status # "absent" /\ doc'[b].scope.audience = "public"

\* The only document a write can open is the one it replaces.
LEMMA OpensAt ==
  ASSUME PostTypeOK, NEW b \in Blogs, Shut(b), Opened(b), NEW x \in Blogs,
         NEW status \in Statuses, NEW scope \in Scopes, Write(x, status, scope)
  PROVE  x = b /\ doc'[b].scope = scope /\ scope.audience = "public"
<1>1. /\ doc'[x] = [status |-> status, scope |-> scope, seq |-> doc[x].seq + 1]
      /\ \A c \in Blogs : c # x => doc'[c] = doc[c]
  BY DocumentTypes, WriteEffect
<1>2. x = b
  BY <1>1 DEF Shut, Opened
<1>3. doc'[b].scope = scope
  BY <1>1, <1>2
<1> QED BY <1>2, <1>3 DEF Opened

LEMMA RequestsOpen ==
  ASSUME PostTypeOK, ReadInv, NEW b \in Blogs, Shut(b), Opened(b),
         NEW r \in Requests, WriteRequest(r)
  PROVE  AuthorOpens(b)
<1>1. /\ req[r].blog \in Blogs /\ req[r].status \in Statuses
      /\ req[r].scope \in Scopes /\ req[r].asOf \in {"open", "closed", "deleted"}
  BY SMT DEF PostTypeOK, RequestStates, Statuses
<1>2. Authorized(req[r]) /\ req[r].pc = "authorized"
  BY DEF ReadInv, ReqInv, WriteRequest
<1>3. req[r].blog = b /\ doc'[b].scope = req[r].scope
  <2>1. CASE ~Exists(req[r].blog)
    BY <2>1 DEF WriteRequest, Shut, Opened
  <2>2. CASE Exists(req[r].blog)
    <3>1. Write(req[r].blog, req[r].status, req[r].scope)
      BY <2>2 DEF WriteRequest
    <3> QED BY <1>1, <3>1, OpensAt
  <2> QED BY <2>1, <2>2
<1>4. req[r].scope.grouped => req[r].asOf = "open"
  BY <1>1, <1>2, <1>3 DEF Authorized, Opened
<1> QED BY <1>3, <1>4 DEF AuthorOpens

LEMMA DraftsOpen ==
  ASSUME PostTypeOK, ReadInv, NEW b \in Blogs, Shut(b), Opened(b),
         NEW e \in Editors, WriteDraft(e)
  PROVE  AuthorOpens(b)
<1>1. save[e].blog \in Blogs /\ save[e].scope \in Scopes
  BY SMT DEF PostTypeOK, SaveStates
<1>2. Unchanged(e) /\ Write(save[e].blog, "draft", save[e].scope)
  BY DEF WriteDraft, Shut, Opened
<1>3. save[e].blog = b /\ doc'[b].scope = save[e].scope
  BY <1>1, <1>2, OpensAt DEF Statuses
<1>4. ReadHolds(save[e]) /\ save[e].pc = "write"
  BY DEF ReadInv, SaveInv, WriteDraft
<1>5. save[e].scope = Filled(save[e].kept, doc[b].scope, save[e].scope)
  BY <1>2, <1>3, <1>4 DEF Unchanged, ReadHolds, Shut
<1>6. "audience" \notin save[e].kept
  BY <1>3, <1>5 DEF Filled, Shut, Opened
<1> QED BY <1>3, <1>6 DEF AuthorOpens

LEMMA NobodyElseOpens ==
  ASSUME PostTypeOK, ReadInv, [Next]_vars, NEW b \in Blogs, Shut(b), Opened(b)
  PROVE  AuthorOpens(b)
<1>1. ASSUME UNCHANGED doc PROVE FALSE
  BY <1>1 DEF Shut, Opened
<1>2. CASE Group
  BY <1>1, <1>2 DEF Group, UpdateGroup, DeleteGroup, ChangeMembership, GroupRest
<1>3. CASE Consume
  <2>1. ASSUME NEW h \in update.todo, UpdateHit(h) PROVE FALSE
    <3>1. h.blog \in Blogs
      BY <2>1, SMT DEF PostTypeOK, Hits
    <3> DEFINE s == doc[h.blog].scope
    <3>2. /\ s \in Scopes /\ ScopeAfter(update.act, s) \in Scopes
          /\ doc[h.blog].status \in Statuses
      BY <3>1, ScopeAfterType, DocumentTypes
    <3>3. /\ ScopeAfter(update.act, s).audience \in {s.audience, "group_only"}
      BY <3>2, Detached, Coerced DEF ScopeAfter
    <3>4. Write(h.blog, doc[h.blog].status, ScopeAfter(update.act, s))
      BY <1>1, <2>1 DEF UpdateHit
    <3> HIDE DEF s
    <3>5. h.blog = b /\ doc'[b].scope = ScopeAfter(update.act, s)
      BY <3>1, <3>2, <3>4, OpensAt
    <3> QED BY <3>3, <3>5 DEF Shut, Opened, s
  <2> QED BY <1>1, <1>3, <2>1 DEF Consume, StartUpdate, LoseMessage,
                                  DuplicateMessage, FinishUpdate, AbortUpdate
<1>4. ASSUME NEW c \in Blogs, Handle(c) PROVE AuthorOpens(b)
  <2>1. CASE MoveBlogToDraft(c)
    <3>1. Write(c, "draft", doc[c].scope)
      BY <2>1 DEF MoveBlogToDraft
    <3>2. doc[c].scope \in Scopes
      BY DocumentTypes
    <3>3. c = b /\ doc[c].scope.audience = "public"
      BY <3>1, <3>2, OpensAt DEF Statuses
    <3> QED BY <3>3 DEF Shut
  <2>2. CASE DeleteABlogById(c)
    <3>1. Write(c, "absent", NoScope)
      BY <2>2 DEF DeleteABlogById
    <3>2. c = b
      BY <3>1, NothingTypes, OpensAt DEF Statuses
    <3>3. doc'[c].status = "absent"
      <4>1. doc'[c] = [status |-> "absent", scope |-> NoScope, seq |-> doc[c].seq + 1]
        BY <3>1, NothingTypes, DocumentTypes, WriteEffect DEF Statuses
      <4> QED BY <4>1
    <3> QED BY <3>2, <3>3 DEF Opened
  <2>3. ASSUME NEW scope \in Scopes, SaveWithScope(c, scope) PROVE AuthorOpens(b)
    <3>1. Write(c, "draft", scope)
      BY <2>3 DEF SaveWithScope
    <3>2. c = b
      BY <3>1, OpensAt DEF Statuses
    <3> QED BY <2>3, <3>2 DEF AuthorOpens
  <2>4. ASSUME NEW r \in Requests, NEW status, NEW asked,
               AuthorizeRequest(r, c, status, asked)
        PROVE  FALSE
    BY <1>1, <2>4 DEF AuthorizeRequest
  <2>5. ASSUME NEW e \in Editors, NEW kept, NEW given, ReadScope(e, c, kept, given)
        PROVE  FALSE
    BY <1>1, <2>5 DEF ReadScope
  <2>6. CASE FindDueBlog(c) \/ Refresh(c)
    BY <1>1, <2>6 DEF FindDueBlog, Refresh
  <2> QED BY <1>4, <2>1, <2>2, <2>3, <2>4, <2>5, <2>6 DEF Handle
<1>5. CASE MustClearScheduledGroup
  BY <1>1, <1>5 DEF MustClearScheduledGroup
<1>6. CASE PublishScheduledBlog
  <2> DEFINE c == sched.blog
             cleared == [doc[c].scope EXCEPT !.grouped = FALSE]
  <2>1. c \in Blogs
    BY SMT DEF PostTypeOK, SchedStates
  <2>2. cleared \in Scopes /\ cleared.audience = doc[c].scope.audience
    BY <2>1, DocumentTypes, Detached
  <2>3. Write(c, "published", cleared) \/ Write(c, "published", doc[c].scope)
    BY <1>1, <1>6 DEF PublishScheduledBlog
  <2> HIDE DEF c, cleared
  <2>4. doc[c].scope \in Scopes
    BY <2>1, DocumentTypes
  <2>5. c = b /\ doc[c].scope.audience = "public"
    <3>1. CASE Write(c, "published", cleared)
      BY <2>1, <2>2, <3>1, OpensAt DEF Statuses
    <3>2. CASE Write(c, "published", doc[c].scope)
      BY <2>1, <2>4, <3>2, OpensAt DEF Statuses
    <3> QED BY <2>3, <3>1, <3>2
  <2> QED BY <2>5 DEF Shut
<1>7. CASE UNCHANGED vars
  BY <1>1, <1>7 DEF vars
<1> QED BY <1>2, <1>3, <1>4, <1>5, <1>6, <1>7, RequestsOpen, DraftsOpen DEF Next

\* What is for the group only becomes public by its author alone, for any
\* number of requests, editors, messages and failures: OnlyAuthorsOpen.
THEOREM AuthorsAloneOpen == Spec => OnlyAuthorsOpen
<1>1. ASSUME PostTypeOK, ReadInv, [Next]_vars, NEW b \in Blogs,
             Exists(b), doc[b].scope.audience = "group_only",
             Exists(b)', doc'[b].scope.audience = "public"
      PROVE  AuthorOpens(b)
  <2>1. Shut(b) /\ Opened(b)
    BY <1>1 DEF Shut, Opened, Exists
  <2> QED BY <1>1, <2>1, NobodyElseOpens
<1>2. PostTypeOK /\ ReadInv /\ [Next]_vars =>
        [\A b \in Blogs :
           (/\ Exists(b) /\ doc[b].scope.audience = "group_only"
            /\ Exists(b)' /\ doc'[b].scope.audience = "public")
           => AuthorOpens(b)]_vars
  BY <1>1
<1> QED BY <1>2, ReadsAlways, PTL DEF Spec, OnlyAuthorsOpen

-------------------------------------------------------------------------------
(* The messages reach the posts *)

\* A blog that a message of kind m has to change is a hit of the update.
Reaches(m, b) == update.act = m /\ \E h \in update.todo : h.blog = b

\* ScopeFollowsGroup, with "the message is on its way" refined to "it waits, or
\* its update has b still to do": that is inductive.
Reached(b) ==
  Posted(b) /\ ~late[b] =>
     /\ group = "closed" =>
           \/ mail["coerce"] > 0 \/ Reaches("coerce", b)
           \/ doc[b].scope.audience = "group_only"
     /\ group = "deleted" => mail["detach"] > 0 \/ Reaches("detach", b)

ReachInv == \A b \in Blogs : Reached(b)

LEMMA ReachSuffices == ReachInv => ScopeFollowsGroup
BY DEF ReachInv, Reached, Reaches, ScopeFollowsGroup, OnItsWay

\* What a document, the group and the messages are decides Reached(b).
LEMMA ReachFrame ==
  ASSUME NEW b \in Blogs, Reached(b), doc'[b] = doc[b], late'[b] = late[b],
         UNCHANGED <<group, mail, update>>
  PROVE  Reached(b)'
BY DEF Reached, Reaches, Posted

LEMMA Apart ==
  ASSUME PostTypeOK, NEW x \in Blogs, NEW status \in Statuses,
         NEW scope \in Scopes, Write(x, status, scope)
  PROVE  /\ doc'[x].status = status /\ doc'[x].scope = scope
         /\ \A c \in Blogs : c # x => doc'[c] = doc[c]
<1>1. /\ doc'[x] = [status |-> status, scope |-> scope, seq |-> doc[x].seq + 1]
      /\ \A c \in Blogs : c # x => doc'[c] = doc[c]
  BY DocumentTypes, WriteEffect
<1> QED BY <1>1

LEMMA GroupReaches ==
  ASSUME PostTypeOK, NEW b \in Blogs, Reached(b), Group
  PROVE  Reached(b)'
<1>1. UNCHANGED <<doc, late, update>>
  BY DEF Group, UpdateGroup, DeleteGroup, ChangeMembership, GroupRest
<1>2. mail \in [Messages -> Nat]
  BY DEF PostTypeOK
<1>3. ASSUME NEW v \in {"open", "closed"}, UpdateGroup(v) PROVE Reached(b)'
  <2>1. CASE v = "closed"
    <3>1. mail' = [mail EXCEPT !["coerce"] = mail["coerce"] + 1] /\ group' = "closed"
      BY <1>3, <2>1 DEF UpdateGroup
    <3>2. mail'["coerce"] > 0
      BY <1>2, <3>1, SMT DEF Messages
    <3> QED BY <3>1, <3>2 DEF Reached
  <2>2. CASE v = "open"
    BY <1>3, <2>2 DEF UpdateGroup, Reached
  <2> QED BY <2>1, <2>2
<1>4. CASE DeleteGroup
  <2>1. mail' = [mail EXCEPT !["detach"] = mail["detach"] + 1] /\ group' = "deleted"
    BY <1>4 DEF DeleteGroup
  <2>2. mail'["detach"] > 0
    BY <1>2, <2>1, SMT DEF Messages
  <2> QED BY <2>1, <2>2 DEF Reached
<1>5. CASE ChangeMembership
  BY <1>1, <1>5, ReachFrame DEF ChangeMembership
<1> QED BY <1>3, <1>4, <1>5 DEF Group

LEMMA RequestReaches ==
  ASSUME PostTypeOK, ReadInv, NEW b \in Blogs, Reached(b),
         NEW r \in Requests, WriteRequest(r)
  PROVE  Reached(b)'
<1>1. /\ req[r].blog \in Blogs /\ req[r].status \in Statuses
      /\ req[r].scope \in Scopes /\ req[r].asOf \in {"open", "closed", "deleted"}
  BY SMT DEF PostTypeOK, RequestStates, Statuses
<1>2. Authorized(req[r]) /\ req[r].pc = "authorized"
  BY DEF ReadInv, ReqInv, WriteRequest
<1>3. UNCHANGED <<group, mail, update>>
  BY DEF WriteRequest, WriteRest
<1>4. CASE ~Exists(req[r].blog)
  BY <1>3, <1>4, ReachFrame DEF WriteRequest
<1>5. CASE Exists(req[r].blog)
  <2>1. /\ Write(req[r].blog, req[r].status, req[r].scope)
        /\ late' = [late EXCEPT ![req[r].blog] =
                      req[r].scope.grouped /\ group # req[r].asOf]
    BY <1>5 DEF WriteRequest
  <2>2. /\ doc'[req[r].blog].scope = req[r].scope
        /\ \A c \in Blogs : c # req[r].blog => doc'[c] = doc[c]
    BY <1>1, <2>1, Apart
  <2>3. CASE b = req[r].blog
    <3>1. late'[b] = (req[r].scope.grouped /\ group # req[r].asOf)
      BY <2>1, <2>3, Zenon DEF PostTypeOK
    <3>2. ASSUME Posted(b)', ~late'[b]
          PROVE  group = req[r].asOf /\ req[r].scope.grouped
      BY <2>2, <2>3, <3>1, <3>2 DEF Posted
    <3> QED BY <1>2, <1>3, <2>2, <2>3, <3>2 DEF Authorized, Reached
  <2>4. CASE b # req[r].blog
    <3>1. late'[b] = late[b]
      BY <2>1, <2>4, Zenon DEF PostTypeOK
    <3> QED BY <1>3, <2>2, <2>4, <3>1, ReachFrame
  <2> QED BY <2>3, <2>4
<1> QED BY <1>4, <1>5

LEMMA DraftReaches ==
  ASSUME PostTypeOK, NEW b \in Blogs, Reached(b), NEW x \in Blogs,
         NEW status \in {"draft", "absent"}, NEW scope \in Scopes,
         Write(x, status, scope), UNCHANGED <<group, mail, update, late>>
  PROVE  Reached(b)'
<1>1. /\ doc'[x].status = status
      /\ \A c \in Blogs : c # x => doc'[c] = doc[c]
  BY Apart DEF Statuses
<1>2. CASE b = x
  BY <1>1, <1>2 DEF Reached, Posted
<1> QED BY <1>1, <1>2, ReachFrame

LEMMA HandlersReach ==
  ASSUME PostTypeOK, NEW b \in Blogs, Reached(b), NEW c \in Blogs, Handle(c)
  PROVE  Reached(b)'
<1>1. UNCHANGED <<group, mail, update, late>>
  BY DEF Handle, AuthorizeRequest, MoveBlogToDraft, DeleteABlogById,
         SaveWithScope, ReadScope, FindDueBlog, Refresh, HandlerRest, SchedRest,
         MailRest, WriteRest
<1>2. CASE MoveBlogToDraft(c)
  <2>1. Write(c, "draft", doc[c].scope) /\ doc[c].scope \in Scopes
    BY <1>2, DocumentTypes DEF MoveBlogToDraft
  <2> QED BY <1>1, <2>1, DraftReaches
<1>3. CASE DeleteABlogById(c)
  <2>1. Write(c, "absent", NoScope)
    BY <1>3 DEF DeleteABlogById
  <2> QED BY <1>1, <2>1, NothingTypes, DraftReaches
<1>4. ASSUME NEW scope \in Scopes, SaveWithScope(c, scope) PROVE Reached(b)'
  <2>1. Write(c, "draft", scope)
    BY <1>4 DEF SaveWithScope
  <2> QED BY <1>1, <2>1, DraftReaches
<1>5. CASE doc' = doc
  BY <1>1, <1>5, ReachFrame
<1>6. CASE \/ \E r \in Requests, status \in {"scheduled", "published"},
                 asked \in Scopes : AuthorizeRequest(r, c, status, asked)
           \/ \E e \in Editors, kept \in SUBSET Fields, given \in Scopes :
                 ReadScope(e, c, kept, given)
           \/ FindDueBlog(c) \/ Refresh(c)
  <2>1. doc' = doc
    BY <1>6 DEF AuthorizeRequest, ReadScope, FindDueBlog, Refresh
  <2> QED BY <1>5, <2>1
<1> QED BY <1>2, <1>3, <1>4, <1>6 DEF Handle

LEMMA EditorReaches ==
  ASSUME PostTypeOK, NEW b \in Blogs, Reached(b), NEW e \in Editors, WriteDraft(e)
  PROVE  Reached(b)'
<1>1. UNCHANGED <<group, mail, update, late>>
  BY DEF WriteDraft, WriteRest
<1>2. save[e].blog \in Blogs /\ save[e].scope \in Scopes
  BY SMT DEF PostTypeOK, SaveStates
<1>3. CASE Unchanged(e)
  <2>1. Write(save[e].blog, "draft", save[e].scope)
    BY <1>3 DEF WriteDraft
  <2> QED BY <1>1, <1>2, <2>1, DraftReaches
<1>4. CASE ~Unchanged(e)
  BY <1>1, <1>4, ReachFrame DEF WriteDraft
<1> QED BY <1>3, <1>4

LEMMA SchedulerReaches ==
  ASSUME PostTypeOK, ReadInv, NEW b \in Blogs, Reached(b), PublishScheduledBlog
  PROVE  Reached(b)'
<1> DEFINE c == sched.blog
           cleared == [doc[c].scope EXCEPT !.grouped = FALSE]
<1>1. UNCHANGED <<group, mail, update, late>>
  BY DEF PublishScheduledBlog, SchedRest, WriteRest
<1>2. c \in Blogs /\ sched.pc = "publish"
  BY SMT DEF PostTypeOK, SchedStates, PublishScheduledBlog
<1>3. cleared \in Scopes /\ cleared.grouped = FALSE /\ doc[c].scope \in Scopes
  <2>1. doc[c].scope \in Scopes
    BY <1>2, DocumentTypes
  <2>2. /\ cleared \in Scopes
        /\ cleared = [grouped |-> FALSE, audience |-> doc[c].scope.audience]
    BY <2>1, Detached
  <2> HIDE DEF cleared
  <2> QED BY <2>1, <2>2
<1>4. \/ doc' = doc
      \/ /\ doc[c].seq = sched.seq
         /\ Write(c, "published", cleared) \/ Write(c, "published", doc[c].scope)
  BY DEF PublishScheduledBlog
<1>5. doc[c].seq = sched.seq => doc[c].status = "scheduled"
  BY <1>2 DEF ReadInv, SchedInv
<1> HIDE DEF c, cleared
<1>6. CASE doc' = doc
  BY <1>1, <1>6, ReachFrame
<1>7. CASE Write(c, "published", cleared)
  <2>1. doc'[c].scope = cleared /\ \A x \in Blogs : x # c => doc'[x] = doc[x]
    BY <1>2, <1>3, <1>7, Apart DEF Statuses
  <2>2. CASE b = c
    BY <1>3, <2>1, <2>2 DEF Reached, Posted
  <2> QED BY <1>1, <2>1, <2>2, ReachFrame
<1>8. CASE doc[c].seq = sched.seq /\ Write(c, "published", doc[c].scope)
  <2>1. /\ doc'[c].scope = doc[c].scope /\ doc[c].status = "scheduled"
        /\ \A x \in Blogs : x # c => doc'[x] = doc[x]
    BY <1>2, <1>3, <1>5, <1>8, Apart DEF Statuses
  <2>2. CASE b = c
    BY <1>1, <2>1, <2>2 DEF Reached, Reaches, Posted
  <2> QED BY <1>1, <2>1, <2>2, ReachFrame
<1> QED BY <1>4, <1>6, <1>7, <1>8

LEMMA StartReaches ==
  ASSUME PostTypeOK, NEW b \in Blogs, Reached(b), NEW m \in Messages,
         StartUpdate(m)
  PROVE  Reached(b)'
<1> SUFFICES ASSUME Posted(b)', ~late'[b]
             PROVE  /\ group' = "closed" =>
                         \/ mail'["coerce"] > 0 \/ Reaches("coerce", b)'
                         \/ doc'[b].scope.audience = "group_only"
                    /\ group' = "deleted" =>
                         mail'["detach"] > 0 \/ Reaches("detach", b)'
  BY DEF Reached
<1>1. UNCHANGED <<group, doc>> /\ update = NoUpdate
  BY DEF StartUpdate, MailRest
<1>2. late'[b] = (late[b] \/ searchable[b] # doc[b])
  BY Zenon DEF StartUpdate
<1>3. ~late[b] /\ searchable[b] = doc[b] /\ Posted(b)
  BY <1>1, <1>2 DEF Posted
<1>4. ~Reaches("coerce", b) /\ ~Reaches("detach", b)
  BY <1>1 DEF Reaches, NoUpdate
<1>5. /\ group = "closed" =>
           mail["coerce"] > 0 \/ doc[b].scope.audience = "group_only"
      /\ group = "deleted" => mail["detach"] > 0
  BY <1>3, <1>4 DEF Reached
<1>6. \A n \in Messages : n # m => mail'[n] = mail[n]
  BY DEF StartUpdate, PostTypeOK
<1>7. ASSUME Matches(m, doc[b]) PROVE Reaches(m, b)'
  <2> DEFINE todo == {[blog |-> c, seq |-> searchable[c].seq] :
                        c \in {x \in Blogs : Matches(m, searchable[x])}}
  <2>1. update' = [act |-> m, todo |-> todo]
    BY DEF StartUpdate
  <2>2. [blog |-> b, seq |-> searchable[b].seq] \in todo
    BY <1>3, <1>7
  <2> HIDE DEF todo
  <2> QED BY <2>1, <2>2 DEF Reaches
<1>8. Matches(m, doc[b]) \/ (m = "coerce" /\ doc[b].scope.audience = "group_only")
  BY <1>3 DEF Matches, Posted
<1> QED BY <1>1, <1>5, <1>6, <1>7, <1>8 DEF Messages

LEMMA HitReaches ==
  ASSUME PostTypeOK, NEW b \in Blogs, Reached(b), NEW h \in update.todo,
         UpdateHit(h)
  PROVE  Reached(b)'
<1>1. UNCHANGED <<group, mail>>
  BY DEF UpdateHit, MailRest
<1>2. update'.act = update.act /\ update'.todo = update.todo \ {h}
  BY DEF UpdateHit, PostTypeOK
<1>3. h.blog \in Blogs
  BY SMT DEF PostTypeOK, Hits
<1>4. CASE doc[h.blog].seq = h.seq
  <2> DEFINE s == ScopeAfter(update.act, doc[h.blog].scope)
  <2>1. /\ doc[h.blog].scope \in Scopes /\ doc[h.blog].status \in Statuses
        /\ s \in Scopes
    BY <1>3, ScopeAfterType, DocumentTypes
  <2>2. /\ update.act = "coerce" => s.audience = "group_only"
        /\ update.act # "coerce" => ~s.grouped
    BY <2>1, Detached, Coerced DEF ScopeAfter
  <2>3. Write(h.blog, doc[h.blog].status, s) /\ UNCHANGED late
    BY <1>4 DEF UpdateHit
  <2> HIDE DEF s
  <2>4. /\ doc'[h.blog].scope = s /\ doc'[h.blog].status = doc[h.blog].status
        /\ \A c \in Blogs : c # h.blog => doc'[c] = doc[c]
    BY <1>3, <2>1, <2>3, Apart
  <2>5. CASE b = h.blog /\ update.act # "coerce"
    BY <2>2, <2>4, <2>5 DEF Reached, Posted
  <2>6. CASE b = h.blog /\ update.act = "coerce"
    <3>1. doc'[b].scope.audience = "group_only"
      BY <2>2, <2>4, <2>6
    <3>2. ASSUME Posted(b)', ~late'[b], group' = "deleted" PROVE mail'["detach"] > 0
      <4>1. s.grouped /\ ~late[b] /\ doc[b].status \in {"scheduled", "published"}
        BY <2>3, <2>4, <2>6, <3>2 DEF Posted
      <4>2. doc[b].scope.grouped
        BY <2>1, <2>6, <4>1, Coerced DEF ScopeAfter, s
      <4> QED BY <1>1, <2>6, <3>2, <4>1, <4>2 DEF Reached, Reaches, Posted
    <3> QED BY <3>1, <3>2 DEF Reached
  <2>7. CASE b # h.blog
    BY <1>1, <1>2, <2>3, <2>4, <2>7 DEF Reached, Reaches, Posted
  <2> QED BY <2>5, <2>6, <2>7
<1>5. CASE doc[h.blog].seq # h.seq
  <2>1. late' = [late EXCEPT ![h.blog] = TRUE] /\ doc' = doc
    BY <1>5 DEF UpdateHit
  <2>2. CASE b = h.blog
    <3>1. late'[b]
      BY <2>1, <2>2, Zenon DEF PostTypeOK
    <3> QED BY <3>1 DEF Reached
  <2>3. CASE b # h.blog
    <3>1. late'[b] = late[b]
      BY <2>1, <2>3, Zenon DEF PostTypeOK
    <3> QED BY <1>1, <1>2, <2>1, <2>3, <3>1 DEF Reached, Reaches, Posted
  <2> QED BY <2>2, <2>3
<1> QED BY <1>4, <1>5

LEMMA ConsumerReaches ==
  ASSUME PostTypeOK, NEW b \in Blogs, Reached(b), Consume
  PROVE  Reached(b)'
<1>1. ASSUME NEW m \in Messages, LoseMessage(m) \/ AbortUpdate PROVE Reached(b)'
  <2>1. late'[b]
    BY <1>1 DEF LoseMessage, AbortUpdate, NobodyReached
  <2> QED BY <2>1 DEF Reached
<1>2. ASSUME NEW m \in Messages, DuplicateMessage(m) PROVE Reached(b)'
  <2>1. UNCHANGED <<group, doc, late, update>>
    BY <1>2 DEF DuplicateMessage, MailRest
  <2>2. mail \in [Messages -> Nat] /\ mail' = [mail EXCEPT ![m] = mail[m] + 1]
    BY <1>2 DEF DuplicateMessage, PostTypeOK
  <2>3. /\ mail["coerce"] > 0 => mail'["coerce"] > 0
        /\ mail["detach"] > 0 => mail'["detach"] > 0
    BY <2>2, SMT DEF Messages
  <2> QED BY <2>1, <2>3 DEF Reached, Reaches, Posted
<1>3. CASE FinishUpdate
  <2>1. UNCHANGED <<group, doc, late, mail>> /\ update.todo = {}
    BY <1>3 DEF FinishUpdate, MailRest
  <2> QED BY <2>1 DEF Reached, Reaches, Posted
<1>4. CASE AbortUpdate
  <2>1. late'[b]
    BY <1>4 DEF AbortUpdate, NobodyReached
  <2> QED BY <2>1 DEF Reached
<1> QED BY <1>1, <1>2, <1>3, <1>4, StartReaches, HitReaches DEF Consume

LEMMA ReachStep ==
  ASSUME PostTypeOK, ReadInv, ReachInv, [Next]_vars
  PROVE  ReachInv'
<1> SUFFICES ASSUME NEW b \in Blogs PROVE Reached(b)'
  BY DEF ReachInv
<1>1. Reached(b)
  BY DEF ReachInv
<1>2. CASE MustClearScheduledGroup
  <2>1. UNCHANGED <<group, doc, late, mail, update>>
    BY <1>2 DEF MustClearScheduledGroup, SchedRest, WriteRest
  <2> QED BY <1>1, <2>1, ReachFrame
<1>3. CASE UNCHANGED vars
  BY <1>1, <1>3, ReachFrame DEF vars
<1> QED BY <1>1, <1>2, <1>3, GroupReaches, ConsumerReaches, HandlersReach,
           RequestReaches, EditorReaches, SchedulerReaches DEF Next

LEMMA ReachInit == Init => ReachInv
BY DEF Init, ReachInv, Reached, Posted

\* Once the messages are through, the posts of a group follow its visibility,
\* but for those the messages missed, for any number of blogs, requests and
\* messages: ScopeFollowsGroup.
THEOREM PostsFollow == Spec => []ScopeFollowsGroup
<1>1. Spec => []ReachInv
  BY ReadsAlways, ReachInit, ReachStep, PTL DEF Spec
<1> QED BY <1>1, ReachSuffices, PTL

===============================================================================
