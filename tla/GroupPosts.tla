------------------------------- MODULE GroupPosts -------------------------------
(***************************************************************************)
(* The blogs of one group across four services: the group and its          *)
(* visibility (groups), the authorization of a publication (gateway), the  *)
(* scope of a document, that is, its group and its audience (blog), and    *)
(* the scheduler that publishes later.                                     *)
(*                                                                         *)
(* A group that becomes private, or that is deleted, tells the blog        *)
(* service by a message, and the consumer changes the documents by one     *)
(* update_by_query: it searches, and then rewrites each hit unless the     *)
(* document changed since.  Visibility "closed" stands for private and     *)
(* unlisted, which the code treats alike.  The rows of the users service,  *)
(* which get the same scope by messages, have no reader and are left out.  *)
(***************************************************************************)
EXTENDS Naturals

CONSTANTS
    Blogs,
    Requests,   \* publish and schedule requests at the gateway
    Editors,    \* saves of drafts under way
    MaxOps,     \* bound: requests of users
    MaxFaults   \* bound: failures

ASSUME PostConstants ==
    /\ Blogs # {}
    /\ MaxOps \in Nat /\ MaxFaults \in Nat

VARIABLES
    group,      \* visibility of the group, or "deleted"
    member,     \* is the author an active member of it
    doc,        \* doc[b]: the document of b in the index
    searchable, \* searchable[b]: the version of doc[b] a search sees
    req,        \* req[r]: what the gateway has authorized
    save,       \* save[e]: a draft that keeps part of the scope it read
    sched,      \* the blog the scheduler is publishing
    mail,       \* mail[m]: messages of kind m on their way
    update,     \* the update_by_query that is running
    ops, faults,
    late        \* history: the last message did not reach b, or b was written
                \* on an authorization from before it

vars == <<group, member, doc, searchable, req, save, sched, mail, update,
          ops, faults, late>>

Audiences == {"public", "group_only"}
Fields    == {"grouped", "audience"}  \* group_slug and audience

\* grouped: the document has the slug of the group.
Scopes    == [grouped : BOOLEAN, audience : Audiences]
NoScope   == [grouped |-> FALSE, audience |-> "public"]
Documents == [status : {"absent", "draft", "scheduled", "published"},
              scope : Scopes, seq : Nat]

SomeBlog == CHOOSE b \in Blogs : TRUE

RequestStates == [pc : {"idle", "authorized"}, blog : Blogs,
                  status : {"scheduled", "published"}, scope : Scopes,
                  asOf : {"open", "closed", "deleted"}]
NoRequest == [pc |-> "idle", blog |-> SomeBlog, status |-> "published",
              scope |-> NoScope, asOf |-> "open"]

SaveStates == [pc : {"idle", "write"}, blog : Blogs, found : BOOLEAN, seq : Nat,
               scope : Scopes, kept : SUBSET Fields]
NoSave == [pc |-> "idle", blog |-> SomeBlog, found |-> FALSE, seq |-> 0,
           scope |-> NoScope, kept |-> {}]

SchedStates == [pc : {"idle", "check", "publish"}, blog : Blogs, seq : Nat,
                scope : Scopes, clear : BOOLEAN]
NotDue == [pc |-> "idle", blog |-> SomeBlog, seq |-> 0, scope |-> NoScope,
           clear |-> FALSE]

\* GROUP_AUDIENCE_COERCE and GROUP_DELETE
Messages == {"coerce", "detach"}
Hits     == [blog : Blogs, seq : Nat]
NoUpdate == [act |-> "none", todo |-> {}]

Init ==
    /\ group = "open" /\ member = TRUE
    /\ doc = [b \in Blogs |-> [status |-> "absent", scope |-> NoScope, seq |-> 0]]
    /\ searchable = doc
    /\ req = [r \in Requests |-> NoRequest]
    /\ save = [e \in Editors |-> NoSave]
    /\ sched = NotDue
    /\ mail = [m \in Messages |-> 0]
    /\ update = NoUpdate
    /\ ops = 0 /\ faults = 0
    /\ late = [b \in Blogs |-> FALSE]

Operation == ops < MaxOps /\ ops' = ops + 1
Fault     == faults < MaxFaults /\ faults' = faults + 1
NoFault   == UNCHANGED faults
Exists(b) == doc[b].status # "absent"

Write(b, status, scope) ==
    doc' = [doc EXCEPT ![b] = [status |-> status, scope |-> scope,
                               seq |-> doc[b].seq + 1]]

-------------------------------------------------------------------------------
(* The group *)

GroupRest == UNCHANGED <<doc, searchable, req, save, sched, update, faults, late>>

\* Every save of the settings of a closed group tells the blog service.
UpdateGroup(visibility) ==
    /\ Operation /\ group # "deleted"
    /\ group' = visibility
    /\ mail' = IF visibility = "closed" THEN [mail EXCEPT !["coerce"] = @ + 1]
               ELSE mail
    /\ UNCHANGED member
    /\ GroupRest

DeleteGroup ==
    /\ Operation /\ group # "deleted"
    /\ group' = "deleted" /\ member' = FALSE
    /\ mail' = [mail EXCEPT !["detach"] = @ + 1]
    /\ GroupRest

\* The author leaves, or is removed; joins, or is admitted.
ChangeMembership ==
    /\ Operation /\ group # "deleted"
    /\ member' = ~member
    /\ UNCHANGED <<group, mail>>
    /\ GroupRest

-------------------------------------------------------------------------------
(* Publishing and scheduling: the gateway asks groups, then calls blog *)

WriteRest == UNCHANGED <<group, member, searchable, mail, update>>

\* Fault: the arguments are taken in the other order.
BugSwapsArguments(audience, visibility) == visibility

Coerce(audience, visibility) ==
    IF visibility = "closed" THEN "group_only" ELSE audience

\* Without a group the audience is public whatever was asked for.
AuthorizeRequest(r, b, status, asked) ==
    /\ Operation /\ req[r] = NoRequest
    /\ asked.grouped => group # "deleted" /\ member
    /\ req' = [req EXCEPT ![r] =
                 [pc |-> "authorized", blog |-> b, status |-> status,
                  scope |-> IF asked.grouped
                            THEN [grouped |-> TRUE,
                                  audience |-> Coerce(asked.audience, group)]
                            ELSE NoScope,
                  asOf |-> group]]
    /\ NoFault
    /\ UNCHANGED <<doc, save, sched, late>>
    /\ WriteRest

\* PublishBlogById or ScheduleBlogById: unconditional, whatever the group has
\* become since.  A missing document is an error.
WriteRequest(r) ==
    LET b == req[r].blog IN
    /\ req[r].pc = "authorized"
    /\ IF Exists(b)
       THEN /\ Write(b, req[r].status, req[r].scope)
            /\ late' = [late EXCEPT ![b] =
                           req[r].scope.grouped /\ group # req[r].asOf]
       ELSE UNCHANGED <<doc, late>>
    /\ req' = [req EXCEPT ![r] = NoRequest]
    /\ NoFault
    /\ UNCHANGED <<save, sched, ops>>
    /\ WriteRest

HandlerRest == /\ NoFault
               /\ UNCHANGED <<req, save, sched, late>>
               /\ WriteRest

MoveBlogToDraft(b) ==
    Operation /\ Exists(b) /\ Write(b, "draft", doc[b].scope) /\ HandlerRest

DeleteABlogById(b) ==
    Operation /\ Exists(b) /\ Write(b, "absent", NoScope) /\ HandlerRest

-------------------------------------------------------------------------------
(* SaveBlog: the whole document is replaced by the editor's draft *)

\* An editor that sends both fields of the scope needs no read.
SaveWithScope(b, scope) == Operation /\ Write(b, "draft", scope) /\ HandlerRest

Filled(kept, old, given) ==
    [grouped  |-> IF "grouped" \in kept THEN old.grouped ELSE given.grouped,
     audience |-> IF "audience" \in kept THEN old.audience ELSE given.audience]

\* preserveMissingDraftScope: what the editor left out is read.
ReadScope(e, b, kept, given) ==
    /\ Operation /\ save[e] = NoSave
    /\ kept # {}
    /\ save' = [save EXCEPT ![e] =
                  [pc |-> "write", blog |-> b, found |-> Exists(b),
                   seq |-> doc[b].seq, kept |-> kept,
                   scope |-> Filled(kept, doc[b].scope, given)]]
    /\ NoFault
    /\ UNCHANGED <<doc, req, sched, late>>
    /\ WriteRest

\* Fault: the write goes through whatever happened since the read.
BugNoPrecondition(e) == save[e] = save[e]

\* if_seq_no of what was read, or op_type create.
Unchanged(e) ==
    LET b == save[e].blog IN
    IF save[e].found THEN doc[b].seq = save[e].seq ELSE ~Exists(b)

WriteDraft(e) ==
    /\ save[e].pc = "write"
    /\ IF Unchanged(e) THEN Write(save[e].blog, "draft", save[e].scope)
       ELSE UNCHANGED doc
    /\ save' = [save EXCEPT ![e] = NoSave]
    /\ NoFault
    /\ UNCHANGED <<req, sched, ops, late>>
    /\ WriteRest

-------------------------------------------------------------------------------
(* The scheduler *)

SchedRest == /\ UNCHANGED <<req, save, ops, late>>
             /\ WriteRest

\* The time of a scheduled blog may have come at any moment.
FindDueBlog(b) ==
    /\ sched = NotDue
    /\ searchable[b].status = "scheduled"
    /\ sched' = [pc |-> "check", blog |-> b, seq |-> searchable[b].seq,
                 scope |-> searchable[b].scope, clear |-> FALSE]
    /\ NoFault /\ UNCHANGED doc
    /\ SchedRest

\* Only membership and the existence of the group are looked at.
MustClearScheduledGroup ==
    /\ sched.pc = "check"
    /\ \/ /\ sched' = [sched EXCEPT
                         !.pc = "publish",
                         !.clear = sched.scope.grouped
                                   /\ (group = "deleted" \/ ~member)]
          /\ NoFault
       \/ sched' = NotDue /\ Fault
    /\ UNCHANGED doc
    /\ SchedRest

\* The scope stays as it is in the document, but for a group that is cleared.
PublishScheduledBlog ==
    LET b == sched.blog
        scope == IF sched.clear THEN [doc[b].scope EXCEPT !.grouped = FALSE]
                 ELSE doc[b].scope
        commit == doc[b].seq = sched.seq /\ Write(b, "published", scope)
    IN
    /\ sched.pc = "publish"
    /\ \/ commit /\ sched' = NotDue /\ NoFault
       \/ doc[b].seq # sched.seq /\ UNCHANGED doc /\ sched' = NotDue /\ NoFault
       \/ /\ commit \/ UNCHANGED doc
          /\ sched' = [sched EXCEPT !.pc = "check"] /\ Fault
    /\ SchedRest

-------------------------------------------------------------------------------
(* Messages about the group, and the consumer of the blog service *)

MailRest == UNCHANGED <<group, member, req, save, sched, ops>>

NobodyReached == late' = [b \in Blogs |-> TRUE]

\* Given up by its goroutine, lost with a process (deliveries are acknowledged
\* before they are handled), or handled with an error, which is only logged.
LoseMessage(m) ==
    /\ mail[m] > 0 /\ Fault
    /\ mail' = [mail EXCEPT ![m] = @ - 1]
    /\ NobodyReached
    /\ UNCHANGED <<doc, searchable, update>>
    /\ MailRest

\* A lost confirmation makes PublishReliable send again.
DuplicateMessage(m) ==
    /\ mail[m] > 0 /\ Fault
    /\ mail' = [mail EXCEPT ![m] = @ + 1]
    /\ UNCHANGED <<doc, searchable, update, late>>
    /\ MailRest

\* Fault: only what is published already is looked for.
BugSkipsScheduled(m, d) == d.status = "published" /\ d.scope.grouped

Matches(m, d) == /\ d.status # "absent" /\ d.scope.grouped
                 /\ m = "coerce" => d.scope.audience # "group_only"

\* One message at a time, in any order: each is sent by a goroutine.
StartUpdate(m) ==
    /\ mail[m] > 0 /\ update = NoUpdate
    /\ mail' = [mail EXCEPT ![m] = @ - 1]
    /\ update' = [act |-> m,
                  todo |-> {[blog |-> b, seq |-> searchable[b].seq] :
                              b \in {c \in Blogs : Matches(m, searchable[c])}}]
    /\ late' = [b \in Blogs |-> late[b] \/ searchable[b] # doc[b]]
    /\ NoFault /\ UNCHANGED <<doc, searchable>>
    /\ MailRest

\* Fault: a detached blog becomes public.
BugDetachOpens(m, scope) ==
    IF m = "coerce" THEN [scope EXCEPT !.audience = "group_only"]
    ELSE NoScope

ScopeAfter(m, scope) ==
    IF m = "coerce" THEN [scope EXCEPT !.audience = "group_only"]
    ELSE [scope EXCEPT !.grouped = FALSE]

\* Conflicts are skipped ("proceed").
UpdateHit(h) ==
    LET b == h.blog IN
    /\ h \in update.todo
    /\ IF doc[b].seq = h.seq
       THEN /\ Write(b, doc[b].status, ScopeAfter(update.act, doc[b].scope))
            /\ UNCHANGED late
       ELSE late' = [late EXCEPT ![b] = TRUE] /\ UNCHANGED doc
    /\ update' = [update EXCEPT !.todo = @ \ {h}]
    /\ NoFault /\ UNCHANGED <<mail, searchable>>
    /\ MailRest

\* The query asks for a refresh at its end.
FinishUpdate ==
    /\ update # NoUpdate /\ update.todo = {}
    /\ update' = NoUpdate
    /\ searchable' = doc
    /\ NoFault /\ UNCHANGED <<doc, mail, late>>
    /\ MailRest

\* The query fails half-way, or its process dies.
AbortUpdate ==
    /\ update # NoUpdate /\ Fault
    /\ update' = NoUpdate
    /\ NobodyReached
    /\ UNCHANGED <<doc, searchable, mail>>
    /\ MailRest

Refresh(b) ==
    /\ searchable[b] # doc[b]
    /\ searchable' = [searchable EXCEPT ![b] = doc[b]]
    /\ NoFault /\ UNCHANGED <<doc, mail, update, late>>
    /\ MailRest

-------------------------------------------------------------------------------
Group == \/ \E v \in {"open", "closed"} : UpdateGroup(v)
         \/ DeleteGroup \/ ChangeMembership

Handle(b) == \/ \E r \in Requests, status \in {"scheduled", "published"},
                   asked \in Scopes : AuthorizeRequest(r, b, status, asked)
             \/ MoveBlogToDraft(b) \/ DeleteABlogById(b)
             \/ \E scope \in Scopes : SaveWithScope(b, scope)
             \/ \E e \in Editors, kept \in SUBSET Fields, given \in Scopes :
                   ReadScope(e, b, kept, given)
             \/ FindDueBlog(b) \/ Refresh(b)

Consume == \/ \E m \in Messages : StartUpdate(m) \/ LoseMessage(m)
                                  \/ DuplicateMessage(m)
           \/ \E h \in update.todo : UpdateHit(h)
           \/ FinishUpdate \/ AbortUpdate

Next == \/ Group \/ Consume
        \/ \E b \in Blogs : Handle(b)
        \/ \E r \in Requests : WriteRequest(r)
        \/ \E e \in Editors : WriteDraft(e)
        \/ MustClearScheduledGroup \/ PublishScheduledBlog

Spec == Init /\ [][Next]_vars

-------------------------------------------------------------------------------
(* Properties *)

\* Every variable holds a value of its kind.
PostTypeOK ==
    /\ group \in {"open", "closed", "deleted"} /\ member \in BOOLEAN
    /\ doc \in [Blogs -> Documents] /\ searchable \in [Blogs -> Documents]
    /\ req \in [Requests -> RequestStates]
    /\ save \in [Editors -> SaveStates]
    /\ sched \in SchedStates
    /\ mail \in [Messages -> Nat]
    /\ update \in [act : Messages \cup {"none"}, todo : SUBSET Hits]
    /\ ops \in 0..MaxOps /\ faults \in 0..MaxFaults
    /\ late \in [Blogs -> BOOLEAN]

\* A blog of the group that readers see, or will see when its time comes.
Posted(b) == doc[b].status \in {"scheduled", "published"} /\ doc[b].scope.grouped

OnItsWay(m) == mail[m] > 0 \/ update.act = m

\* Once the messages are through, a closed group has no public posts and a
\* deleted one no posts at all, unless the message missed the blog or the blog
\* was written on an older authorization (group-scoped-blogs-design.md 6 and 9).
ScopeFollowsGroup ==
    \A b \in Blogs :
       Posted(b) /\ ~late[b] =>
          /\ group = "closed" =>
                OnItsWay("coerce") \/ doc[b].scope.audience = "group_only"
          /\ group = "deleted" => OnItsWay("detach")

\* The author publishes on an authorization from while the group was open, or
\* saves a draft that says whom it is for.
AuthorOpens(b) ==
    \/ \E r \in Requests : /\ WriteRequest(r) /\ req[r].blog = b
                           /\ req[r].scope.grouped => req[r].asOf = "open"
    \/ \E scope \in Scopes : SaveWithScope(b, scope)
    \/ \E e \in Editors : /\ WriteDraft(e) /\ save[e].blog = b
                          /\ "audience" \notin save[e].kept

\* What is for the group only becomes public by its author alone: never by the
\* scheduler, by a message, by a draft that leaves the audience out, or by a
\* publication authorized before the group closed (Coerce, coerce messages).
OnlyAuthorsOpen ==
    [][\A b \in Blogs :
          (/\ Exists(b) /\ doc[b].scope.audience = "group_only"
           /\ Exists(b)' /\ doc'[b].scope.audience = "public")
          => AuthorOpens(b)]_vars

\* A draft that leaves part of the scope out keeps that part as it is at the
\* moment of the write, whoever changed it since the read, and never replaces a
\* draft it did not see (preserveMissingDraftScope).
SavesKeepScope ==
    [][\A e \in Editors :
          LET b == save[e].blog IN
          WriteDraft(e) /\ doc'[b] # doc[b] =>
             IF Exists(b)
             THEN doc'[b].scope = Filled(save[e].kept, doc[b].scope, doc'[b].scope)
             ELSE ~save[e].found]_vars
===============================================================================
