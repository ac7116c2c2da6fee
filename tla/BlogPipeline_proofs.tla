-------------------------- MODULE BlogPipeline_proofs --------------------------
(***************************************************************************)
(* Proofs about BlogPipeline, for any number of blogs, instances, streams, *)
(* requests and faults.                                                    *)
(*                                                                         *)
(* Why the two stores agree is a statement about the future of the queue:  *)
(* processing what is queued about a blog takes its row to the status the  *)
(* document had before the one change whose message is still to be sent,   *)
(* and that message takes it to the status the document has.  The statuses *)
(* the row goes through are a function on the positions of the queue.      *)
(***************************************************************************)
EXTENDS BlogPipeline, BlogIndex_proofs, SequenceTheorems

-------------------------------------------------------------------------------
(* The future of a row *)

RowStatuses == {"none", "Draft", "Published", "Scheduled"}

\* The row of b after message m, when it was s before; a refused message leaves
\* it as it is.
After(b, s, m) ==
  IF m.blog # b THEN s
  ELSE CASE m.act = "DELETE" -> "none"
         [] m.act = "UPDATE" -> "Draft"
         [] m.act = "CREATE" -> IF s = "none" THEN "Draft" ELSE s
         [] m.act = "PUBLISH" -> IF s = "none" THEN "none" ELSE "Published"
         [] m.act = "SCHEDULE" -> IF s = "none" THEN "none" ELSE "Scheduled"

\* f is the course of the row of b through the messages of q; the second part
\* says outright that only messages about b change it.
Course(b, q, f) ==
  /\ \A k \in 1 .. Len(q) : f[k + 1] = After(b, f[k], q[k])
  /\ \A i, j \in 1 .. Len(q) + 1 :
       i <= j /\ (\A k \in i .. j - 1 : q[k].blog # b) => f[i] = f[j]

\* Processing q takes the row of b from s to t.
Leads(b, s, q, t) ==
  \E f \in [1 .. Len(q) + 1 -> RowStatuses] :
    f[1] = s /\ f[Len(q) + 1] = t /\ Course(b, q, f)

-------------------------------------------------------------------------------
(* The inductive invariant *)

First(s, b) == stream[s].pc = "first" /\ stream[s].blog = b

NoneOut(b) == \A act \in Acts : outbox[Message(b, act)] = 0
NoneAnnounces(b) == \A i \in Instances : ~Announces(i, b)
NoneFirst(b) == \A s \in Streams : ~First(s, b)

\* One change of b at most awaits its message, and the message brings the row
\* from t to the status of the document.
Settled(b, t) ==
  NoneOut(b) /\ NoneAnnounces(b) /\ NoneFirst(b) /\ t = RowStatus(b)

OneOut(b, t) ==
  /\ NoneAnnounces(b) /\ NoneFirst(b)
  /\ \E act \in Acts :
       /\ outbox[Message(b, act)] = 1
       /\ \A other \in Acts : other # act => outbox[Message(b, other)] = 0
       /\ After(b, t, Message(b, act)) = RowStatus(b)

OneAnnounces(b, t) ==
  /\ NoneOut(b) /\ NoneFirst(b)
  /\ \E i \in Instances :
       /\ Announces(i, b)
       /\ \A j \in Instances : j # i => ~Announces(j, b)
       /\ After(b, t, Message(b, "PUBLISH")) = RowStatus(b)

OneFirst(b, t) ==
  /\ NoneOut(b) /\ NoneAnnounces(b)
  /\ \E s \in Streams :
       /\ First(s, b)
       /\ \A u \in Streams : u # s => ~First(u, b)
       /\ t = IF doc[b].status = "absent" THEN "Draft" ELSE RowStatus(b)

InStep(b, t) == Settled(b, t) \/ OneOut(b, t) \/ OneAnnounces(b, t) \/ OneFirst(b, t)

Agreement(b) == \E t \in RowStatuses : Leads(b, row[b], queue, t) /\ InStep(b, t)

Agreements == \A b \in Blogs : ~raced[b] /\ ~astray[b] => Agreement(b)

Announced ==
  \A b \in Blogs :
    \/ wasPublished[b]
    \/ /\ row[b] # "Published" /\ outbox[Message(b, "PUBLISH")] = 0 /\ NoneAnnounces(b)
       /\ doc[b].status # "published"
       /\ \A k \in DOMAIN queue : queue[k] # Message(b, "PUBLISH")

OutboxWithinOps == \A m \in Messages : outbox[m] <= ops

PipeInv == TypeOK /\ PipeTypeOK /\ OutboxWithinOps /\ Announced /\ Agreements

-------------------------------------------------------------------------------
(* Lemmas about the course of a row                                          *)

LEMMA AfterType ==
  ASSUME NEW b, NEW s \in RowStatuses, NEW m \in Messages
  PROVE  After(b, s, m) \in RowStatuses
BY DEF After, RowStatuses, Messages, Acts

LEMMA LeadsNowhere ==
  ASSUME NEW b, NEW s \in RowStatuses
  PROVE  Leads(b, s, <<>>, s)
<1> DEFINE f == [k \in 1 .. Len(<<>>) + 1 |-> s]
<1>1. Len(<<>>) = 0
  OBVIOUS
<1>2. f \in [1 .. Len(<<>>) + 1 -> RowStatuses] /\ f[1] = s /\ f[Len(<<>>) + 1] = s
  BY <1>1
<1>3. Course(b, <<>>, f)
  BY <1>1 DEF Course
<1> QED BY <1>2, <1>3 DEF Leads

\* A message put at the end of the queue changes the row last.
LEMMA LeadsAppend ==
  ASSUME NEW b, NEW s \in RowStatuses, NEW t \in RowStatuses, NEW q \in Seq(Messages),
         NEW m \in Messages, Leads(b, s, q, t)
  PROVE  Leads(b, s, Append(q, m), After(b, t, m))
<1> DEFINE n == Len(q)
           p == Append(q, m)
<1>1. PICK f \in [1 .. n + 1 -> RowStatuses] : f[1] = s /\ f[n + 1] = t /\ Course(b, q, f)
  BY DEF Leads
<1> DEFINE g == [k \in 1 .. n + 2 |-> IF k = n + 2 THEN After(b, t, m) ELSE f[k]]
<1>2. n \in Nat /\ Len(p) = n + 1 /\ p[n + 1] = m /\ \A k \in 1 .. n : p[k] = q[k]
  BY AppendProperties, LenProperties
<1> HIDE DEF n, p
<1>3. /\ g \in [1 .. n + 2 -> RowStatuses] /\ g[n + 2] = After(b, t, m)
      /\ \A k \in 1 .. n + 1 : g[k] = f[k]
  <2>1. After(b, t, m) \in RowStatuses
    BY AfterType
  <2>2. \A k \in 1 .. n + 2 : k # n + 2 => k \in 1 .. n + 1
    BY <1>2
  <2>3. \A k \in 1 .. n + 1 : k # n + 2 /\ k \in 1 .. n + 2
    BY <1>2
  <2>4. n + 2 \in 1 .. n + 2
    BY <1>2
  <2> QED BY <1>1, <2>1, <2>2, <2>3, <2>4
<1> HIDE DEF g
<1>4. ASSUME NEW k \in 1 .. n + 1 PROVE g[k + 1] = After(b, g[k], p[k])
  <2>1. CASE k = n + 1
    BY <1>1, <1>2, <1>3, <2>1
  <2>2. CASE k \in 1 .. n
    <3>1. k + 1 \in 1 .. n + 1 /\ f[k + 1] = After(b, f[k], q[k])
      BY <1>1, <1>2, <2>2 DEF Course, n
    <3> QED BY <1>2, <1>3, <2>2, <3>1
  <2> QED BY <1>2, <2>1, <2>2
<1>5. ASSUME NEW i \in 1 .. n + 2, NEW j \in 1 .. n + 2, i <= j,
             \A k \in i .. j - 1 : p[k].blog # b
      PROVE  g[i] = g[j]
  <2>1. \A c, d \in 1 .. n + 1 : c <= d /\ (\A k \in c .. d - 1 : q[k].blog # b) => f[c] = f[d]
    BY <1>1 DEF Course, n
  <2>2. CASE j \in 1 .. n + 1
    <3>1. i \in 1 .. n + 1 /\ \A k \in i .. j - 1 : k \in 1 .. n
      BY <1>2, <1>5, <2>2
    <3>2. \A k \in i .. j - 1 : q[k].blog # b
      BY <1>2, <1>5, <3>1
    <3> QED BY <1>3, <1>5, <2>1, <2>2, <3>1, <3>2
  <2>3. CASE j = n + 2 /\ i = n + 2
    BY <2>3
  <2>4. CASE j = n + 2 /\ i \in 1 .. n + 1
    <3>1. n + 1 \in i .. j - 1 /\ n + 1 \in 1 .. n + 1 /\ i <= n + 1
      BY <1>2, <2>4
    <3>2. \A k \in i .. (n + 1) - 1 : k \in i .. j - 1 /\ k \in 1 .. n
      BY <1>2, <2>4
    <3>3. \A k \in i .. (n + 1) - 1 : q[k].blog # b
      BY <1>2, <1>5, <3>2
    <3>4. f[i] = f[n + 1]
      BY <2>1, <2>4, <3>1, <3>3
    <3>5. After(b, t, m) = t
      BY <1>2, <1>5, <3>1 DEF After
    <3> QED BY <1>1, <1>3, <2>4, <3>1, <3>4, <3>5
  <2> QED BY <1>2, <2>2, <2>3, <2>4
<1>6. Course(b, p, g)
  <2>1. Len(p) = n + 1 /\ Len(p) + 1 = n + 2
    BY <1>2
  <2> QED BY <1>4, <1>5, <2>1 DEF Course
<1>7. g \in [1 .. Len(p) + 1 -> RowStatuses] /\ g[1] = s /\ g[Len(p) + 1] = After(b, t, m)
  <2>1. Len(p) + 1 = n + 2 /\ 1 \in 1 .. n + 1
    BY <1>2
  <2> QED BY <1>1, <1>3, <2>1
<1> QED BY <1>6, <1>7 DEF Leads, p

\* The consumer takes the first message and the rest leads where it led before.
LEMMA LeadsTail ==
  ASSUME NEW b, NEW s \in RowStatuses, NEW t \in RowStatuses, NEW q \in Seq(Messages),
         q # <<>>, Leads(b, s, q, t)
  PROVE  Leads(b, After(b, s, Head(q)), Tail(q), t)
<1> DEFINE n == Len(q)
           p == Tail(q)
<1>1. PICK f \in [1 .. n + 1 -> RowStatuses] : f[1] = s /\ f[n + 1] = t /\ Course(b, q, f)
  BY DEF Leads
<1> DEFINE g == [k \in 1 .. n |-> f[k + 1]]
<1>2. n \in Nat \ {0} /\ Len(p) = n - 1 /\ Head(q) = q[1] /\ \A k \in 1 .. n - 1 : p[k] = q[k + 1]
  BY EmptySeq, HeadTailProperties, LenProperties
<1> HIDE DEF n, p
<1>3. \A k \in 1 .. n : k + 1 \in 1 .. n + 1
  BY <1>2
<1>4. g \in [1 .. n -> RowStatuses] /\ \A k \in 1 .. n : g[k] = f[k + 1]
  BY <1>1, <1>3
<1> HIDE DEF g
<1>5. ASSUME NEW k \in 1 .. n - 1 PROVE g[k + 1] = After(b, g[k], p[k])
  <2>1. k \in 1 .. n /\ k + 1 \in 1 .. n
    BY <1>2
  <2>2. f[(k + 1) + 1] = After(b, f[k + 1], q[k + 1])
    BY <1>1, <2>1 DEF Course, n
  <2> QED BY <1>2, <1>4, <2>1, <2>2
<1>6. ASSUME NEW i \in 1 .. n, NEW j \in 1 .. n, i <= j, \A k \in i .. j - 1 : p[k].blog # b
      PROVE  g[i] = g[j]
  <2>1. \A c, d \in 1 .. n + 1 : c <= d /\ (\A k \in c .. d - 1 : q[k].blog # b) => f[c] = f[d]
    BY <1>1 DEF Course, n
  <2>2. i + 1 <= j + 1 /\ i + 1 \in 1 .. n + 1 /\ j + 1 \in 1 .. n + 1
    BY <1>2, <1>6
  <2>3. ASSUME NEW k \in i + 1 .. (j + 1) - 1 PROVE q[k].blog # b
    <3>1. k - 1 \in i .. j - 1 /\ k - 1 \in 1 .. n - 1 /\ (k - 1) + 1 = k
      BY <1>2, <1>6, <2>3
    <3> QED BY <1>2, <1>6, <3>1
  <2>4. f[i + 1] = f[j + 1]
    BY <2>1, <2>2, <2>3
  <2> QED BY <1>4, <2>4
<1>7. Len(p) + 1 = n
  BY <1>2
<1>8. Course(b, p, g)
  BY <1>2, <1>5, <1>6, <1>7 DEF Course
<1>9. g[1] = After(b, s, Head(q)) /\ g[n] = t
  <2>1. 1 \in 1 .. n /\ n \in 1 .. n
    BY <1>2
  <2>2. f[1 + 1] = After(b, f[1], q[1])
    BY <1>1, <2>1 DEF Course, n
  <2> QED BY <1>1, <1>2, <1>4, <2>1, <2>2
<1> QED BY <1>4, <1>7, <1>8, <1>9 DEF Leads, p

\* A message stored once or twice has the same effect: the row after it does not
\* change when it comes again.
LEMMA AfterAgain ==
  ASSUME NEW b, NEW s \in RowStatuses, NEW m \in Messages
  PROVE  After(b, After(b, s, m), m) = After(b, s, m)
BY DEF After, RowStatuses, Messages, Acts

LEMMA LeadsSent ==
  ASSUME NEW b, NEW s \in RowStatuses, NEW t \in RowStatuses, NEW q \in Seq(Messages),
         NEW m \in Messages, Leads(b, s, q, t), NEW p \in {Append(q, m), q \o <<m, m>>}
  PROVE  Leads(b, s, p, After(b, t, m))
<1>1. PICK u \in RowStatuses : u = After(b, t, m)
  BY AfterType
<1>2. Append(q, m) \in Seq(Messages) /\ Leads(b, s, Append(q, m), u)
  BY <1>1, AppendProperties, LeadsAppend
<1>3. After(b, u, m) = u
  BY <1>1, AfterAgain
<1>4. Leads(b, s, Append(Append(q, m), m), After(b, u, m))
  BY <1>2, LeadsAppend
<1>5. q \o <<m, m>> = Append(Append(q, m), m)
  <2>1. <<m>> \in Seq(Messages) /\ <<m, m>> = Append(<<m>>, m)
    OBVIOUS
  <2>2. <<m, m>> = <<m>> \o <<m>>
    BY <2>1, AppendIsConcat
  <2>3. q \o (<<m>> \o <<m>>) = (q \o <<m>>) \o <<m>>
    BY <2>1, ConcatAssociative
  <2>4. q \o <<m>> = Append(q, m) /\ Append(q, m) \o <<m>> = Append(Append(q, m), m)
    BY <1>2, AppendIsConcat
  <2> QED BY <2>2, <2>3, <2>4
<1> QED BY <1>1, <1>2, <1>3, <1>4, <1>5

\* The first message is applied and stays in front of the queue.
LEMMA LeadsAgain ==
  ASSUME NEW b, NEW s \in RowStatuses, NEW t \in RowStatuses, NEW q \in Seq(Messages),
         q # <<>>, Leads(b, s, q, t)
  PROVE  Leads(b, After(b, s, Head(q)), q, t)
<1> DEFINE n == Len(q)
<1>1. PICK f \in [1 .. n + 1 -> RowStatuses] : f[1] = s /\ f[n + 1] = t /\ Course(b, q, f)
  BY DEF Leads
<1>2. n \in Nat \ {0} /\ Head(q) = q[1] /\ q[1] \in Messages
  BY EmptySeq, HeadTailProperties, LenProperties
<1>3. /\ \A k \in 1 .. n : f[k + 1] = After(b, f[k], q[k])
      /\ \A i, j \in 1 .. n + 1 : i <= j /\ (\A k \in i .. j - 1 : q[k].blog # b) => f[i] = f[j]
  BY <1>1 DEF Course
<1>4. SUFFICES \E g \in [1 .. n + 1 -> RowStatuses] :
                 /\ g[1] = After(b, s, q[1]) /\ g[n + 1] = t
                 /\ \A k \in 1 .. n : g[k + 1] = After(b, g[k], q[k])
                 /\ \A i, j \in 1 .. n + 1 :
                      i <= j /\ (\A k \in i .. j - 1 : q[k].blog # b) => g[i] = g[j]
  BY <1>2 DEF Leads, Course
<1> HIDE DEF n
<1> DEFINE g == [k \in 1 .. n + 1 |-> IF k = 1 THEN f[2] ELSE f[k]]
<1>5. 1 \in 1 .. n /\ 1 \in 1 .. n + 1 /\ 2 \in 1 .. n + 1 /\ n + 1 \in 1 .. n + 1 /\ n + 1 # 1
  BY <1>2
<1>6. f[2] = After(b, s, q[1])
  <2>1. f[1 + 1] = After(b, f[1], q[1])
    BY <1>3, <1>5
  <2> QED BY <1>1, <2>1
<1>7. /\ g \in [1 .. n + 1 -> RowStatuses] /\ g[1] = f[2]
      /\ \A k \in 1 .. n + 1 : k # 1 => g[k] = f[k]
  BY <1>1, <1>5
<1> HIDE DEF g
<1>8. ASSUME NEW k \in 1 .. n PROVE g[k + 1] = After(b, g[k], q[k])
  <2>1. k \in 1 .. n + 1 /\ k + 1 \in 1 .. n + 1 /\ k + 1 # 1
    BY <1>2
  <2>2. CASE k = 1
    <3>1. After(b, f[2], q[1]) = f[2]
      BY <1>2, <1>6, AfterAgain
    <3> QED BY <1>7, <2>1, <2>2, <3>1
  <2>3. CASE k # 1
    BY <1>3, <1>7, <2>1, <2>3
  <2> QED BY <2>2, <2>3
<1>9. ASSUME NEW i \in 1 .. n + 1, NEW j \in 1 .. n + 1, i <= j,
             \A k \in i .. j - 1 : q[k].blog # b
      PROVE  g[i] = g[j]
  <2>1. CASE i # 1
    <3>1. j # 1
      BY <1>2, <1>9, <2>1
    <3> QED BY <1>3, <1>7, <1>9, <2>1, <3>1
  <2>2. CASE i = 1 /\ j = 1
    BY <2>2
  <2>3. CASE i = 1 /\ j # 1
    <3>1. 2 <= j /\ \A k \in 2 .. j - 1 : k \in i .. j - 1
      BY <1>2, <2>3
    <3>2. \A c, d \in 1 .. n + 1 :
             c <= d /\ (\A k \in c .. d - 1 : q[k].blog # b) => f[c] = f[d]
      BY <1>3
    <3>3. \A k \in 2 .. j - 1 : q[k].blog # b
      BY <1>9, <3>1
    <3>4. f[2] = f[j]
      BY <1>5, <1>9, <3>1, <3>2, <3>3
    <3> QED BY <1>7, <2>3, <3>4
  <2> QED BY <2>1, <2>2, <2>3
<1> QED BY <1>1, <1>5, <1>6, <1>7, <1>8, <1>9

\* Without a message about b the row stays what it is.
LEMMA LeadsQuiet ==
  ASSUME NEW b, NEW s, NEW t, NEW q \in Seq(Messages), Leads(b, s, q, t),
         \A k \in DOMAIN q : q[k].blog # b
  PROVE  s = t
<1>1. PICK f : f[1] = s /\ f[Len(q) + 1] = t /\ Course(b, q, f)
  BY DEF Leads
<1>2. Len(q) \in Nat /\ DOMAIN q = 1 .. Len(q)
  BY LenProperties
<1>3. 1 \in 1 .. Len(q) + 1 /\ Len(q) + 1 \in 1 .. Len(q) + 1 /\ 1 <= Len(q) + 1
  BY <1>2
<1>4. \A k \in 1 .. (Len(q) + 1) - 1 : q[k].blog # b
  BY <1>2
<1> QED BY <1>1, <1>3, <1>4 DEF Course

-------------------------------------------------------------------------------
(* The steps of the pipeline seen from the index                             *)

\* A call of the pipeline that fails outside the index uses up a fault.
FaultElsewhere ==
  /\ faults < MaxFaults /\ faults' = faults + 1
  /\ UNCHANGED <<docVars, searchable, clock, stream, sched, ops, created>>

IndexStep == [Next]_vars \/ FaultElsewhere

LEMMA UntoldIsIndexStep == Untold => Next
BY DEF Untold, Next, Handle, Edit, Schedule

LEMMA ConsumeIsIndexStep ==
  ASSUME Consume
  PROVE  /\ UNCHANGED vars \/ FaultElsewhere
         /\ UNCHANGED <<outbox, raced>>
BY DEF Consume, ProcessMessage, PanicOnMessage, RestartUsersService, UserRest, Fault, NoFault,
       FaultElsewhere, vars, docVars

LEMMA SendIsIndexStep ==
  ASSUME NEW m \in Messages, SendFromGoroutine(m)
  PROVE  UNCHANGED vars \/ FaultElsewhere
BY DEF SendFromGoroutine, Fault, NoFault, FaultElsewhere, vars

LEMMA PipeIsIndexStep == [PipeNext]_pipeVars => IndexStep
<1> SUFFICES ASSUME [PipeNext]_pipeVars PROVE IndexStep
  OBVIOUS
<1>1. CASE Untold
  BY <1>1, UntoldIsIndexStep DEF IndexStep
<1>2. ASSUME NEW b \in Blogs, TellPublish(b) \/ TellSchedule(b) \/ TellDraft(b) \/ TellDelete(b)
      PROVE  IndexStep
  <2>1. Handle(b)
    BY <1>2 DEF TellPublish, TellSchedule, TellDraft, TellDelete, Handle
  <2> QED BY <2>1 DEF IndexStep, Next
<1>3. ASSUME NEW m \in Messages, SendFromGoroutine(m) PROVE IndexStep
  BY <1>3, SendIsIndexStep DEF IndexStep
<1>4. ASSUME NEW s \in Streams, (\E stored \in BOOLEAN : TellCreate(s, stored))
                                \/ SaveAndTellNobody(s) \/ LeaveStream(s)
      PROVE  IndexStep
  <2>1. Edit(s)
    BY <1>4 DEF TellCreate, SaveAndTellNobody, LeaveStream, Edit
  <2> QED BY <2>1 DEF IndexStep, Next
<1>5. ASSUME NEW i \in Instances, AttemptPublication(i) \/ TellPublication(i) PROVE IndexStep
  <2>1. Schedule(i)
    BY <1>5 DEF AttemptPublication, TellPublication, Schedule
  <2> QED BY <2>1 DEF IndexStep, Next
<1>6. ASSUME NEW i \in Instances, CrashWithGoroutines(i) PROVE IndexStep
  BY <1>6 DEF CrashWithGoroutines, IndexStep, Next
<1>7. CASE Consume
  BY <1>7, ConsumeIsIndexStep DEF IndexStep
<1>8. CASE UNCHANGED pipeVars
  BY <1>8 DEF IndexStep, pipeVars, indexVars
<1> QED BY <1>1, <1>2, <1>3, <1>4, <1>5, <1>6, <1>7, <1>8 DEF PipeNext

LEMMA FaultElsewhereKeepsTypes == TypeOK /\ FaultElsewhere => TypeOK'
<1> SUFFICES ASSUME TypeOK, FaultElsewhere PROVE TypeOK'
  OBVIOUS
<1>1. faults' \in 0..MaxFaults
  BY BlogConstants, SMT DEF TypeOK, FaultElsewhere
<1> QED BY <1>1 DEF TypeOK, FaultElsewhere, docVars

LEMMA IndexTypeStep == TypeOK /\ IndexStep => TypeOK'
BY TypeStep, FaultElsewhereKeepsTypes DEF IndexStep

-------------------------------------------------------------------------------
(* Types *)

LEMMA MessageType ==
  ASSUME NEW b \in Blogs, NEW act \in Acts
  PROVE  /\ Message(b, act) \in Messages
         /\ Message(b, act).blog = b /\ Message(b, act).act = act
BY DEF Message, Messages

LEMMA MessageShape ==
  ASSUME NEW m \in Messages
  PROVE  m.blog \in Blogs /\ m.act \in Acts /\ m = Message(m.blog, m.act)
BY DEF Message, Messages

PipeTypes == PipeTypeOK /\ OutboxWithinOps

LEMMA PipeTypesInit == PipeInit => PipeTypes
<1> SUFFICES ASSUME PipeInit PROVE PipeTypes
  OBVIOUS
<1>1. ops = 0 /\ outbox = [m \in Messages |-> 0] /\ queue = <<>>
  BY DEF PipeInit, Init
<1>2. outbox \in [Messages -> 0..MaxOps] /\ OutboxWithinOps
  BY <1>1, BlogConstants DEF OutboxWithinOps
<1>3. queue \in Seq(Messages)
  BY <1>1
<1>4. row \in [Blogs -> {"none", "Draft", "Published", "Scheduled"}] /\ consumerUp \in BOOLEAN
  BY DEF PipeInit
<1>5. raced \in [Blogs -> BOOLEAN] /\ astray \in [Blogs -> BOOLEAN]
  <2>1. \A v \in BOOLEAN : [b \in Blogs |-> v] \in [Blogs -> BOOLEAN]
    OBVIOUS
  <2> QED BY <2>1, Zenon DEF PipeInit
<1> QED BY <1>2, <1>3, <1>4, <1>5 DEF PipeTypes, PipeTypeOK

\* A history variable stays a Boolean.
LEMMA HistoryType ==
  ASSUME NEW h \in [Blogs -> BOOLEAN], NEW b \in Blogs, NEW v \in BOOLEAN
  PROVE  [h EXCEPT ![b] = h[b] \/ v] \in [Blogs -> BOOLEAN]
<1>1. \A w \in BOOLEAN : [h EXCEPT ![b] = w] \in [Blogs -> BOOLEAN]
  OBVIOUS
<1>2. (h[b] \/ v) \in BOOLEAN
  OBVIOUS
<1> QED BY <1>1, <1>2, Zenon

LEMMA RacedType ==
  ASSUME PipeTypeOK, NEW b \in Blogs, NotesRace(b)
  PROVE  raced' \in [Blogs -> BOOLEAN]
<1> DEFINE v == Unfinished(b)
<1>1. v \in BOOLEAN
  BY DEF Unfinished
<1>2. raced \in [Blogs -> BOOLEAN] /\ raced' = [raced EXCEPT ![b] = raced[b] \/ v]
  BY DEF PipeTypeOK, NotesRace
<1> HIDE DEF v
<1> QED BY <1>1, <1>2, HistoryType

\* What a loss leaves in the record.
LEMMA LossNoted ==
  ASSUME PipeTypeOK, NEW c \in Blogs, NEW v \in BOOLEAN, NotesLoss(c, v)
  PROVE  /\ astray' \in [Blogs -> BOOLEAN]
         /\ \A b \in Blogs : ~astray'[b] => ~astray[b] /\ (c = b => ~v)
<1>1. astray \in [Blogs -> BOOLEAN] /\ astray' = [astray EXCEPT ![c] = astray[c] \/ v]
  BY DEF PipeTypeOK, NotesLoss
<1>2. astray' \in [Blogs -> BOOLEAN]
  BY <1>1, HistoryType
<1>3. ASSUME NEW b \in Blogs PROVE ~astray'[b] => ~astray[b] /\ (c = b => ~v)
  <2>1. c = b => astray'[b] = (astray[b] \/ v)
    BY <1>1
  <2>2. c # b => astray'[b] = astray[b]
    BY <1>1
  <2> QED BY <2>1, <2>2, Zenon
<1> QED BY <1>2, <1>3

\* What a crash loses it leaves in the record too.
LEMMA CrashNoted ==
  ASSUME PipeTypeOK, NEW i \in Instances, CrashWithGoroutines(i)
  PROVE  /\ astray' \in [Blogs -> BOOLEAN]
         /\ \A b \in Blogs :
              ~astray'[b] => /\ ~astray[b] /\ ~Announces(i, b)
                             /\ \A m \in Messages : m.blog = b => outbox'[m] = outbox[m]
<1>1. PICK lost \in SUBSET Messages :
         /\ outbox' = [m \in Messages |-> IF m \in lost THEN 0 ELSE outbox[m]]
         /\ astray' = [b \in Blogs |-> \/ astray[b] \/ Announces(i, b)
                                      \/ \E m \in lost : m.blog = b]
  BY DEF CrashWithGoroutines
<1> DEFINE w(b) == astray[b] \/ Announces(i, b) \/ \E m \in lost : m.blog = b
<1>2. astray' = [b \in Blogs |-> w(b)]
  BY <1>1
<1>3. \A b \in Blogs : w(b) \in BOOLEAN
  OBVIOUS
<1>4. ASSUME NEW b \in Blogs, ~w(b)
      PROVE  /\ ~astray[b] /\ ~Announces(i, b)
             /\ \A m \in Messages : m.blog = b => outbox'[m] = outbox[m]
  BY <1>1, <1>4
<1> HIDE DEF w
<1>5. astray' \in [Blogs -> BOOLEAN] /\ \A b \in Blogs : astray'[b] = w(b)
  BY <1>2, <1>3, Zenon
<1>6. ASSUME NEW b \in Blogs, ~astray'[b] PROVE ~w(b)
  BY <1>5, <1>6, Zenon
<1> QED BY <1>4, <1>5, <1>6

\* Whatever the step, astray stays a record, and nothing is struck from it.
LEMMA AstrayStep ==
  ASSUME TypeOK, PipeTypeOK, [PipeNext]_pipeVars
  PROVE  /\ astray' \in [Blogs -> BOOLEAN]
         /\ \A b \in Blogs : ~astray'[b] => ~astray[b]
<1> DEFINE Kept == /\ astray' \in [Blogs -> BOOLEAN]
                   /\ \A b \in Blogs : ~astray'[b] => ~astray[b]
<1>1. ASSUME astray' = astray PROVE Kept
  BY <1>1 DEF PipeTypeOK
<1>2. ASSUME NEW c \in Blogs, NEW v \in BOOLEAN, NotesLoss(c, v) PROVE Kept
  BY <1>2, LossNoted
<1>3. /\ \A s \in Streams : stream[s].blog \in Blogs
      /\ \A i \in Instances : sched[i].hit.blog \in Blogs
  BY DEF TypeOK, StreamStates, SchedStates, Hits
<1>4. ASSUME Untold \/ UNCHANGED pipeVars PROVE Kept
  BY <1>1, <1>4 DEF Untold, pipeVars, history
<1>5. ASSUME NEW b \in Blogs, TellPublish(b) \/ TellSchedule(b) \/ TellDraft(b) \/ TellDelete(b)
      PROVE  Kept
  <2>1. PICK act \in Acts : Tell(Message(b, act))
    BY <1>5 DEF TellPublish, TellSchedule, TellDraft, TellDelete, Acts
  <2>2. PICK v \in BOOLEAN : v = ~(faults' = faults)
    OBVIOUS
  <2>3. Message(b, act).blog = b
    BY MessageType
  <2>4. NotesLoss(b, v)
    BY <2>1, <2>2, <2>3 DEF Tell, NotesLoss
  <2> QED BY <1>2, <2>4
<1>6. ASSUME NEW m \in Messages, SendFromGoroutine(m) PROVE Kept
  <2>1. PICK v \in BOOLEAN : v = (queue' = queue)
    OBVIOUS
  <2>2. NotesLoss(m.blog, v)
    BY <1>6, <2>1 DEF SendFromGoroutine, NotesLoss
  <2> QED BY <1>2, <2>2, MessageShape
<1>7. ASSUME NEW s \in Streams, NEW stored \in BOOLEAN, TellCreate(s, stored) PROVE Kept
  <2>1. PICK v \in BOOLEAN : v = (stored /\ faults' # faults)
    OBVIOUS
  <2>2. NotesLoss(stream[s].blog, v)
    BY <1>7, <2>1 DEF TellCreate, NotesLoss
  <2> QED BY <1>2, <1>3, <2>2
<1>8. ASSUME NEW s \in Streams, SaveAndTellNobody(s) PROVE Kept
  <2>1. PICK c \in Blogs : c = stream[s].blog
    BY <1>3
  <2>2. PICK v \in BOOLEAN : v = ~(\/ doc[c].status = "draft"
                                   \/ doc[c].status = "absent" /\ stream[s].pc = "first")
    OBVIOUS
  <2>3. NotesLoss(c, v)
    BY <1>8, <2>1, <2>2 DEF SaveAndTellNobody, NotesLoss
  <2> QED BY <1>2, <2>3
<1>9. ASSUME NEW s \in Streams, LeaveStream(s) PROVE Kept
  <2>1. PICK v \in BOOLEAN : v = (stream[s].pc = "first")
    OBVIOUS
  <2>2. NotesLoss(stream[s].blog, v)
    BY <1>9, <2>1 DEF LeaveStream, NotesLoss
  <2> QED BY <1>2, <1>3, <2>2
<1>10. ASSUME NEW i \in Instances, AttemptPublication(i) PROVE Kept
  <2>1. PICK v \in BOOLEAN : v = (doc' # doc /\ faults' # faults)
    OBVIOUS
  <2>2. NotesLoss(sched[i].hit.blog, v)
    BY <1>10, <2>1 DEF AttemptPublication, NotesLoss
  <2> QED BY <1>2, <1>3, <2>2
<1>11. ASSUME NEW i \in Instances, TellPublication(i) PROVE Kept
  <2>1. PICK v \in BOOLEAN : v = (queue' = queue)
    OBVIOUS
  <2>2. Message(sched[i].hit.blog, "PUBLISH").blog = sched[i].hit.blog
    BY <1>3, MessageType DEF Acts
  <2>3. NotesLoss(sched[i].hit.blog, v)
    BY <1>11, <2>1, <2>2 DEF TellPublication, NotesLoss
  <2> QED BY <1>2, <1>3, <2>3
<1>12. ASSUME NEW i \in Instances, CrashWithGoroutines(i) PROVE Kept
  BY <1>12, CrashNoted
<1>13. ASSUME Consume PROVE Kept
  <2>1. CASE ProcessMessage
    <3>1. PICK m \in Messages : m = Head(queue)
      BY <2>1, HeadTailProperties DEF ProcessMessage, Delivered, PipeTypeOK
    <3>2. PICK v \in BOOLEAN : v = (faults' # faults /\ queue' # queue)
      OBVIOUS
    <3>3. NotesLoss(m.blog, v)
      BY <2>1, <3>1, <3>2 DEF ProcessMessage, NotesLoss
    <3> QED BY <1>2, <3>3, MessageShape
  <2>2. CASE PanicOnMessage \/ RestartUsersService
    BY <1>1, <2>2 DEF PanicOnMessage, RestartUsersService
  <2> QED BY <1>13, <2>1, <2>2 DEF Consume
<1> HIDE DEF Kept
<1>14. Kept
  BY <1>4, <1>5, <1>6, <1>7, <1>8, <1>9, <1>10, <1>11, <1>12, <1>13 DEF PipeNext
<1> QED BY <1>14 DEF Kept

LEMMA QueueTypes ==
  ASSUME PipeTypeOK, NEW m \in Messages
  PROVE  Append(queue, m) \in Seq(Messages) /\ queue \o <<m, m>> \in Seq(Messages)
<1>1. queue \in Seq(Messages) /\ <<m, m>> \in Seq(Messages)
  BY DEF PipeTypeOK
<1> QED BY <1>1, AppendProperties, ConcatProperties

Handled(b) == TellPublish(b) \/ TellSchedule(b) \/ TellDraft(b) \/ TellDelete(b)

\* A handler: one request, one write of the document, one goroutine with the
\* message, unless the answer to the write was lost.
LEMMA HandledEffect ==
  ASSUME NEW b \in Blogs, Handled(b)
  PROVE  /\ Handle(b) /\ ops < MaxOps /\ ops' = ops + 1
         /\ \E act \in {"PUBLISH", "SCHEDULE", "UPDATE", "DELETE"} :
              /\ Tell(Message(b, act))
              /\ \/ act = "PUBLISH" /\ PublishBlog(b)
                 \/ act = "SCHEDULE" /\ ScheduleBlog(b)
                 \/ act = "UPDATE" /\ MoveBlogToDraftStatus(b)
                 \/ act = "DELETE" /\ DeleteABlogByBlogId(b)
<1>1. Handle(b)
  BY DEF Handled, TellPublish, TellSchedule, TellDraft, TellDelete, Handle
<1>2. Request
  BY DEF Handled, TellPublish, TellSchedule, TellDraft, TellDelete, PublishBlog, ScheduleBlog,
         MoveBlogToDraftStatus, DeleteABlogByBlogId
<1> QED BY <1>1, <1>2 DEF Handled, TellPublish, TellSchedule, TellDraft, TellDelete, Request

LEMMA OpsGrow ==
  ASSUME TypeOK, [PipeNext]_pipeVars
  PROVE  ops \in Nat /\ ops' \in Nat /\ ops <= ops' /\ ops' <= MaxOps
<1>1. ops \in 0..MaxOps /\ ops' \in 0..MaxOps
  BY PipeIsIndexStep, IndexTypeStep DEF TypeOK
<1>2. ops' = ops \/ ops' = ops + 1
  <2>1. IndexStep
    BY PipeIsIndexStep
  <2>2. ASSUME NEW b \in Blogs, Handle(b) PROVE ops' = ops + 1
    BY <2>2 DEF Handle, PublishBlog, ScheduleBlog, ArchiveBlogById, MoveBlogToDraftStatus,
                DeleteABlogByBlogId, Request
  <2>3. ASSUME NEW s \in Streams, Edit(s) PROVE ops' = ops \/ ops' = ops + 1
    BY <2>3 DEF Edit, OpenStream, PublishCreate, CheckExistence, SaveBlog, NextEdit, CloseStream,
                Request
  <2>4. ASSUME NEW i \in Instances, Schedule(i) \/ CrashBlogService(i) PROVE ops' = ops
    <3>1. CASE Schedule(i)
      BY <3>1, ScheduleWrites
    <3>2. CASE CrashBlogService(i)
      BY <3>2 DEF CrashBlogService
    <3> QED BY <2>4, <3>1, <3>2
  <2>5. Tick \/ (\E b \in Blogs : Refresh(b)) \/ FaultElsewhere \/ UNCHANGED vars => ops' = ops
    BY DEF Tick, Refresh, FaultElsewhere, vars
  <2> QED BY <2>1, <2>2, <2>3, <2>4, <2>5 DEF IndexStep, Next
<1> QED BY <1>1, <1>2, BlogConstants

LEMMA PipeTypesStep == TypeOK /\ PipeTypes /\ [PipeNext]_pipeVars => PipeTypes'
<1> SUFFICES ASSUME TypeOK, PipeTypes, [PipeNext]_pipeVars PROVE PipeTypes'
  OBVIOUS
<1>0. /\ PipeTypeOK /\ OutboxWithinOps /\ MaxOps \in Nat
      /\ ops \in Nat /\ ops' \in Nat /\ ops <= ops' /\ ops' <= MaxOps
      /\ outbox \in [Messages -> 0..MaxOps] /\ \A m \in Messages : outbox[m] <= ops
      /\ queue \in Seq(Messages) /\ row \in [Blogs -> RowStatuses] /\ consumerUp \in BOOLEAN
      /\ raced \in [Blogs -> BOOLEAN] /\ astray' \in [Blogs -> BOOLEAN]
  BY BlogConstants, OpsGrow, AstrayStep DEF PipeTypes, PipeTypeOK, OutboxWithinOps, RowStatuses
<1> DEFINE OutboxOK == outbox' \in [Messages -> 0..MaxOps] /\ \A m \in Messages : outbox'[m] <= ops'
<1>1. UNCHANGED outbox => OutboxOK
  BY <1>0
<1>2. ASSUME OutboxOK, queue' \in Seq(Messages), row' \in [Blogs -> RowStatuses],
             consumerUp' \in BOOLEAN, raced' \in [Blogs -> BOOLEAN]
      PROVE  PipeTypes'
  BY <1>0, <1>2 DEF PipeTypes, PipeTypeOK, OutboxWithinOps, RowStatuses
<1>3. CASE Untold
  BY <1>0, <1>1, <1>2, <1>3 DEF Untold, mailVars, userVars, history
<1>4. ASSUME NEW b \in Blogs, Handled(b) PROVE PipeTypes'
  <2>1. PICK act \in Acts : Tell(Message(b, act)) /\ ops' = ops + 1
    BY <1>4, HandledEffect DEF Acts
  <2> DEFINE m == Message(b, act)
  <2>2. m \in Messages /\ m.blog = b
    BY MessageType
  <2> HIDE DEF m
  <2>3. OutboxOK
    <3>1. CASE outbox' = outbox
      BY <1>1, <3>1
    <3>2. CASE outbox' = [outbox EXCEPT ![m] = outbox[m] + 1]
      <4>1. outbox[m] + 1 \in 0..MaxOps /\ outbox[m] + 1 <= ops'
        BY <1>0, <2>1, <2>2
      <4> QED BY <1>0, <2>2, <3>2, <4>1
    <3> QED BY <2>1, <3>1, <3>2 DEF Tell, m
  <2>4. NotesRace(b) /\ UNCHANGED <<queue, row, consumerUp>>
    BY <2>1, <2>2 DEF Tell, userVars, m
  <2>5. raced' \in [Blogs -> BOOLEAN]
    BY <1>0, <2>4, RacedType
  <2> QED BY <1>0, <1>2, <2>3, <2>4, <2>5
<1>5. ASSUME NEW m \in Messages, SendFromGoroutine(m) PROVE PipeTypes'
  <2>1. OutboxOK
    <3>1. outbox' = [outbox EXCEPT ![m] = outbox[m] - 1] /\ outbox[m] > 0
      BY <1>5 DEF SendFromGoroutine
    <3>2. outbox[m] - 1 \in 0..MaxOps /\ outbox[m] - 1 <= ops'
      BY <1>0, <3>1
    <3> QED BY <1>0, <3>1, <3>2
  <2>2. queue' \in Seq(Messages)
    BY <1>0, <1>5, QueueTypes DEF SendFromGoroutine
  <2> QED BY <1>0, <1>2, <1>5, <2>1, <2>2 DEF SendFromGoroutine, userVars
<1>6. ASSUME NEW s \in Streams, NEW stored \in BOOLEAN, TellCreate(s, stored) PROVE PipeTypes'
  <2>1. PICK b \in Blogs : b = stream[s].blog
    BY DEF TypeOK, StreamStates
  <2>2. Message(b, "CREATE") \in Messages
    BY MessageType DEF Acts
  <2>3. queue' \in Seq(Messages)
    BY <1>0, <1>6, <2>1, <2>2, QueueTypes DEF TellCreate
  <2>4. NotesRace(b) /\ UNCHANGED <<outbox, row, consumerUp>>
    BY <1>6, <2>1 DEF TellCreate, userVars
  <2>5. raced' \in [Blogs -> BOOLEAN]
    BY <1>0, <2>4, RacedType
  <2> QED BY <1>0, <1>1, <1>2, <2>3, <2>4, <2>5
<1>7. ASSUME NEW s \in Streams, SaveAndTellNobody(s) \/ LeaveStream(s) PROVE PipeTypes'
  BY <1>0, <1>1, <1>2, <1>7 DEF SaveAndTellNobody, LeaveStream, mailVars, userVars
<1>8. ASSUME NEW i \in Instances, AttemptPublication(i) PROVE PipeTypes'
  <2>1. PICK b \in Blogs : b = sched[i].hit.blog
    BY DEF TypeOK, SchedStates, Hits
  <2>2. NotesRace(b) \/ UNCHANGED raced
    BY <1>8, <2>1 DEF AttemptPublication
  <2>3. raced' \in [Blogs -> BOOLEAN]
    BY <1>0, <2>2, RacedType
  <2> QED BY <1>0, <1>1, <1>2, <1>8, <2>3 DEF AttemptPublication, mailVars, userVars
<1>9. ASSUME NEW i \in Instances, TellPublication(i) PROVE PipeTypes'
  <2>1. PICK b \in Blogs : b = sched[i].hit.blog
    BY DEF TypeOK, SchedStates, Hits
  <2>2. Message(b, "PUBLISH") \in Messages
    BY MessageType DEF Acts
  <2>3. queue' \in Seq(Messages)
    BY <1>0, <1>9, <2>1, <2>2, QueueTypes DEF TellPublication
  <2> QED BY <1>0, <1>1, <1>2, <1>9, <2>3 DEF TellPublication, userVars
<1>10. ASSUME NEW i \in Instances, CrashWithGoroutines(i) PROVE PipeTypes'
  <2>1. PICK lost \in SUBSET Messages :
           outbox' = [m \in Messages |-> IF m \in lost THEN 0 ELSE outbox[m]]
    BY <1>10 DEF CrashWithGoroutines
  <2>2. OutboxOK
    BY <1>0, <2>1
  <2> QED BY <1>0, <1>2, <1>10, <2>2 DEF CrashWithGoroutines, userVars
<1>11. CASE Consume
  <2>1. UNCHANGED <<outbox, raced>>
    BY <1>11, ConsumeIsIndexStep
  <2>2. /\ queue' \in Seq(Messages) /\ row' \in [Blogs -> RowStatuses] /\ consumerUp' \in BOOLEAN
    <3>1. CASE ProcessMessage
      <4>1. queue # <<>> /\ Tail(queue) \in Seq(Messages) /\ Head(queue) \in Messages
        BY <1>0, <3>1, HeadTailProperties DEF ProcessMessage, Delivered
      <4>2. \A m \in Messages : RowAfter(m) \in RowStatuses /\ m.blog \in Blogs
        BY DEF RowAfter, RowStatuses, Messages, Acts
      <4>3. row' = row \/ row' = [row EXCEPT ![Head(queue).blog] = RowAfter(Head(queue))]
        BY <3>1 DEF ProcessMessage, ApplyMessage
      <4>4. row' \in [Blogs -> RowStatuses]
        BY <1>0, <4>1, <4>2, <4>3
      <4> QED BY <1>0, <3>1, <4>1, <4>4 DEF ProcessMessage
    <3>2. CASE PanicOnMessage
      BY <1>0, <3>2, Zenon DEF PanicOnMessage
    <3>3. CASE RestartUsersService
      BY <1>0, <3>3, Zenon DEF RestartUsersService
    <3> QED BY <1>11, <3>1, <3>2, <3>3 DEF Consume
  <2> QED BY <1>0, <1>1, <1>2, <2>1, <2>2
<1>12. CASE UNCHANGED pipeVars
  BY <1>0, <1>1, <1>2, <1>12 DEF pipeVars, mailVars, userVars, history
<1> QED BY <1>3, <1>4, <1>5, <1>6, <1>7, <1>8, <1>9, <1>10, <1>11, <1>12 DEF PipeNext, Handled

-------------------------------------------------------------------------------
(* What the schedulers and the documents do, as the messages see it          *)

\* The program counters and the hit of a scheduler after one of its steps.
LEMMA SchedulerPCs ==
  ASSUME TypeOK, NEW i \in Instances
  PROVE  /\ \A pc \in {"idle", "publish", "count", "announce"} :
              Continue(i, pc) => sched'[i].pc = pc /\ sched'[i].hit = sched[i].hit
         /\ Skip(i) => sched'[i].pc = "idle"
         /\ RetryOrGiveUp(i) => sched'[i].pc \in {sched[i].pc, "count"}
         /\ Continue(i, "announce") \/ Skip(i) \/ RetryOrGiveUp(i)
              => \A j \in Instances : j # i => sched'[j] = sched[j]
<1>1. sched \in [Instances -> SchedStates] /\ sched[i] \in SchedStates
  BY DEF TypeOK
<1>2. ASSUME NEW pc \in {"idle", "publish", "count", "announce"}, Continue(i, pc)
      PROVE  /\ sched'[i].pc = pc /\ sched'[i].hit = sched[i].hit
             /\ \A j \in Instances : j # i => sched'[j] = sched[j]
  BY <1>1, <1>2 DEF Continue, SchedStates
<1>3. ASSUME Skip(i)
      PROVE  sched'[i].pc = "idle" /\ \A j \in Instances : j # i => sched'[j] = sched[j]
  <2>1. [Idle EXCEPT !.batch = sched[i].batch].pc = "idle"
    BY DEF Idle
  <2>2. sched' = [sched EXCEPT ![i] = [Idle EXCEPT !.batch = sched[i].batch]]
    BY <1>3 DEF Skip
  <2> QED BY <1>1, <2>1, <2>2
<1>4. ASSUME RetryOrGiveUp(i)
      PROVE  /\ sched'[i].pc \in {sched[i].pc, "count"}
             /\ \A j \in Instances : j # i => sched'[j] = sched[j]
  <2>1. CASE Continue(i, "count")
    BY <1>2, <2>1
  <2>2. CASE sched' = [sched EXCEPT ![i].attempt = @ + 1]
    BY <1>1, <2>2 DEF SchedStates
  <2> QED BY <1>4, <2>1, <2>2 DEF RetryOrGiveUp
<1> QED BY <1>2, <1>3, <1>4

\* Only a committed publication makes a scheduler announce, and only the
\* announcement ends that.
LEMMA SchedulerMoves ==
  ASSUME TypeOK, NEW i \in Instances, Schedule(i)
  PROVE  /\ \A j \in Instances : j # i => sched'[j] = sched[j]
         /\ AnnouncePublication(i) => sched[i].pc = "announce" /\ sched'[i].pc = "idle"
         /\ ~AnnouncePublication(i) => sched[i].pc # "announce"
         /\ sched'[i].pc = "announce" =>
              /\ sched'[i].hit = sched[i].hit
              /\ PublishScheduledBlog(i) /\ CommitPublication(i) /\ NoFault
<1>1. sched \in [Instances -> SchedStates] /\ sched[i] \in SchedStates
  BY DEF TypeOK
<1>2. CASE GetDueScheduledBlogs(i)
  <2>1. sched[i].pc = "idle"
    BY <1>2 DEF GetDueScheduledBlogs, Idle
  <2>2. sched'[i].pc = "idle" /\ \A j \in Instances : j # i => sched'[j] = sched[j]
    BY <1>1, <1>2, <2>1 DEF GetDueScheduledBlogs, SchedStates
  <2> QED BY <2>1, <2>2 DEF AnnouncePublication
<1>3. CASE NextDueBlog(i)
  <2>1. PICK h : sched' = [sched EXCEPT ![i] = [pc |-> "publish", batch |-> sched[i].batch \ {h},
                                                hit |-> h, attempt |-> 1]]
    BY <1>3 DEF NextDueBlog
  <2>2. sched'[i].pc = "publish" /\ \A j \in Instances : j # i => sched'[j] = sched[j]
    BY <1>1, <2>1
  <2> QED BY <1>3, <2>2 DEF NextDueBlog, AnnouncePublication
<1>4. CASE PublishScheduledBlog(i)
  BY <1>4, SchedulerPCs DEF PublishScheduledBlog, AnnouncePublication
<1>5. CASE IncrementScheduleFailedAttempts(i)
  BY <1>5, SchedulerPCs DEF IncrementScheduleFailedAttempts, AnnouncePublication
<1>6. CASE AnnouncePublication(i)
  BY <1>6, SchedulerPCs DEF AnnouncePublication
<1> QED BY <1>2, <1>3, <1>4, <1>5, <1>6 DEF Schedule

LEMMA CrashMoves ==
  ASSUME TypeOK, NEW i \in Instances, CrashBlogService(i)
  PROVE  sched'[i].pc = "idle" /\ \A j \in Instances : j # i => sched'[j] = sched[j]
BY DEF TypeOK, CrashBlogService, Idle

\* A blog counts as published for good once a document was.
LEMMA WriteKeepsPublished ==
  ASSUME TypeOK, NEW b \in Blogs, Writes(b), NEW c \in Blogs
  PROVE  /\ wasPublished[c] => wasPublished'[c]
         /\ doc'[c].status = "published" => wasPublished'[c] \/ doc[c].status = "published"
<1>1. PICK d \in Documents : Write(b, d)
  BY DEF Writes
<1>2. doc \in [Blogs -> Documents] /\ wasPublished \in [Blogs -> BOOLEAN]
  BY DEF TypeOK
<1>3. doc'[b].status = d.status /\ (c # b => doc'[c] = doc[c])
  <2>1. doc'[b] = [d EXCEPT !.seq = doc[b].seq + 1] /\ (c # b => doc'[c] = doc[c])
    BY <1>1, WriteEffect
  <2>2. [d EXCEPT !.seq = doc[b].seq + 1].status = d.status
    BY DEF Documents
  <2> QED BY <2>1, <2>2
<1>4. wasPublished'[b] = (wasPublished[b] \/ d.status = "published")
  <2> DEFINE w == wasPublished[b] \/ d.status = "published"
  <2>1. wasPublished' = [wasPublished EXCEPT ![b] = w]
    BY <1>1 DEF Write
  <2> HIDE DEF w
  <2>2. wasPublished'[b] = w
    BY <1>2, <2>1
  <2> QED BY <2>2 DEF w
<1>5. c # b => wasPublished'[c] = wasPublished[c]
  BY <1>1, <1>2 DEF Write
<1>6. CASE c = b
  BY <1>3, <1>4, <1>6, Zenon
<1>7. CASE c # b
  BY <1>3, <1>5, <1>7, Zenon
<1> QED BY <1>6, <1>7

LEMMA PublishedStays ==
  ASSUME TypeOK, IndexStep, NEW b \in Blogs
  PROVE  /\ wasPublished[b] => wasPublished'[b]
         /\ doc'[b].status = "published" => wasPublished'[b] \/ doc[b].status = "published"
<1>1. \/ \E c \in Blogs : Writes(c)
      \/ UNCHANGED <<doc, wasPublished>>
  <2>1. CASE FaultElsewhere
    BY <2>1 DEF FaultElsewhere, docVars
  <2>2. CASE [Next]_vars
    <3>1. StepKinds
      BY <2>2, EveryStep
    <3> QED BY <3>1, CommitWrites DEF StepKinds, Tick, Refresh, docVars
  <2> QED BY <2>1, <2>2 DEF IndexStep
<1> QED BY <1>1, WriteKeepsPublished

\* Who announces a blog has published it.
LEMMA AnnouncesPublished ==
  ASSUME TypeOK, IndexStep, NEW i \in Instances, NEW b \in Blogs, Announces(i, b)'
  PROVE  Announces(i, b) \/ doc'[b].status = "published"
<1>1. CASE sched' = sched
  BY <1>1 DEF Announces
<1>2. ASSUME NEW j \in Instances, Schedule(j)
      PROVE  Announces(i, b) \/ doc'[b].status = "published"
  <2>1. CASE i # j
    BY <1>2, <2>1, SchedulerMoves DEF Announces
  <2>2. CASE i = j
    BY <1>2, <2>2, SchedulerMoves, CommitWrites DEF Announces
  <2> QED BY <2>1, <2>2
<1>3. ASSUME NEW j \in Instances, CrashBlogService(j)
      PROVE  Announces(i, b) \/ doc'[b].status = "published"
  BY <1>3, CrashMoves DEF Announces
<1>4. \/ sched' = sched
      \/ \E j \in Instances : Schedule(j) \/ CrashBlogService(j)
  <2>1. ASSUME NEW c \in Blogs, Handle(c) PROVE sched' = sched
    BY <2>1, HandleWrites
  <2>2. ASSUME NEW s \in Streams, Edit(s) PROVE sched' = sched
    BY <2>2, EditWrites
  <2> QED BY <2>1, <2>2 DEF IndexStep, Next, FaultElsewhere, Tick, Refresh, vars
<1> QED BY <1>1, <1>2, <1>3, <1>4

-------------------------------------------------------------------------------
(* Announced is inductive                                                    *)

\* The messages a queue holds after one was added, or the first was taken.
LEMMA QueueMembers ==
  ASSUME NEW q \in Seq(Messages), NEW m \in Messages
  PROVE  /\ \A k \in DOMAIN Append(q, m) :
              Append(q, m)[k] = m \/ \E i \in DOMAIN q : Append(q, m)[k] = q[i]
         /\ \A k \in DOMAIN (q \o <<m, m>>) :
              (q \o <<m, m>>)[k] = m \/ \E i \in DOMAIN q : (q \o <<m, m>>)[k] = q[i]
         /\ q # <<>> => /\ \A k \in DOMAIN Tail(q) : \E i \in DOMAIN q : Tail(q)[k] = q[i]
                        /\ \E i \in DOMAIN q : Head(q) = q[i]
<1>1. Len(q) \in Nat /\ DOMAIN q = 1 .. Len(q)
  BY LenProperties
<1>2. ASSUME NEW k \in DOMAIN Append(q, m)
      PROVE  Append(q, m)[k] = m \/ \E i \in DOMAIN q : Append(q, m)[k] = q[i]
  <2>1. k \in 1 .. Len(q) + 1
    BY <1>2, AppendProperties, LenProperties
  <2>2. k \in 1 .. Len(q) \/ k = Len(q) + 1
    BY <1>1, <2>1
  <2> QED BY <1>1, <2>2, AppendProperties
<1>3. ASSUME NEW k \in DOMAIN (q \o <<m, m>>)
      PROVE  (q \o <<m, m>>)[k] = m \/ \E i \in DOMAIN q : (q \o <<m, m>>)[k] = q[i]
  <2> DEFINE p == <<m, m>>
  <2>1. p \in Seq(Messages) /\ Len(p) = 2 /\ p[1] = m /\ p[2] = m
    OBVIOUS
  <2> HIDE DEF p
  <2>2. q \o p \in Seq(Messages) /\ Len(q \o p) = Len(q) + 2
    <3>1. q \o p \in Seq(Messages) /\ Len(q \o p) = Len(q) + Len(p)
      BY <2>1, ConcatProperties
    <3> QED BY <2>1, <3>1
  <2>3. k \in 1 .. Len(q) + 2
    BY <1>3, <2>2, LenProperties DEF p
  <2>4. k \in 1 .. Len(q) \/ k = Len(q) + 1 \/ k = Len(q) + 2
    BY <1>1, <2>3
  <2>5. \A i \in 1 .. Len(q) + Len(p) : (q \o p)[i] = IF i <= Len(q) THEN q[i] ELSE p[i - Len(q)]
    BY <2>1, ConcatProperties
  <2>6. CASE k \in 1 .. Len(q)
    <3>1. (q \o p)[k] = q[k]
      BY <1>1, <2>1, <2>3, <2>5, <2>6
    <3> QED BY <1>1, <2>6, <3>1 DEF p
  <2>7. CASE k = Len(q) + 1 \/ k = Len(q) + 2
    <3>1. (q \o p)[k] = m
      <4>1. k - Len(q) \in {1, 2} /\ ~(k <= Len(q))
        BY <1>1, <2>7
      <4> QED BY <2>1, <2>3, <2>5, <4>1
    <3> QED BY <3>1 DEF p
  <2> QED BY <2>4, <2>6, <2>7
<1>4. ASSUME q # <<>>
      PROVE  /\ \A k \in DOMAIN Tail(q) : \E i \in DOMAIN q : Tail(q)[k] = q[i]
             /\ \E i \in DOMAIN q : Head(q) = q[i]
  <2>1. /\ Len(q) # 0 /\ Head(q) = q[1] /\ DOMAIN Tail(q) = 1 .. Len(q) - 1
        /\ \A k \in 1 .. Len(q) - 1 : Tail(q)[k] = q[k + 1]
    BY <1>4, EmptySeq, HeadTailProperties, LenProperties
  <2>2. \A k \in 1 .. Len(q) - 1 : k + 1 \in 1 .. Len(q)
    BY <1>1
  <2>3. 1 \in 1 .. Len(q)
    BY <1>1, <2>1
  <2> QED BY <1>1, <2>1, <2>2, <2>3
<1> QED BY <1>2, <1>3, <1>4

\* What each handler makes of the status of its document.
LEMMA HandlerStatus ==
  ASSUME TypeOK, NEW b \in Blogs
  PROVE  /\ PublishBlog(b) => doc'[b].status = "published"
         /\ ScheduleBlog(b) => doc'[b].status = "scheduled"
         /\ MoveBlogToDraftStatus(b) => doc'[b].status = "draft"
         /\ DeleteABlogByBlogId(b) => doc'[b].status = "absent"
         /\ ArchiveBlogById(b) => doc'[b].status = doc[b].status
<1>1. doc[b] \in Documents
  BY DEF TypeOK
<1>2. ASSUME NEW d \in Documents, Write(b, d) PROVE doc'[b].status = d.status
  <2>1. doc'[b] = [d EXCEPT !.seq = doc[b].seq + 1]
    BY <1>2, WriteEffect
  <2>2. [d EXCEPT !.seq = doc[b].seq + 1].status = d.status
    BY DEF Documents
  <2> QED BY <2>1, <2>2
<1>3. ASSUME PublishBlog(b) PROVE doc'[b].status = "published"
  <2> DEFINE d == [doc[b] EXCEPT !.status = "published"]
  <2>1. d \in Documents /\ d.status = "published"
    BY <1>1 DEF Documents
  <2>2. Write(b, d)
    BY <1>3 DEF PublishBlog, PublishBlogById
  <2> HIDE DEF d
  <2> QED BY <1>2, <2>1, <2>2
<1>4. ASSUME ScheduleBlog(b) PROVE doc'[b].status = "scheduled"
  <2>1. PICK t \in 0..MaxTime : ScheduleBlogById(b, t)
    BY <1>4 DEF ScheduleBlog
  <2> DEFINE d == [doc[b] EXCEPT !.status = "scheduled", !.at = t]
  <2>2. d \in Documents
    BY WrittenDocuments
  <2>3. d.status = "scheduled"
    BY <1>1 DEF Documents
  <2>4. Write(b, d)
    BY <2>1 DEF ScheduleBlogById
  <2> HIDE DEF d
  <2> QED BY <1>2, <2>2, <2>3, <2>4
<1>5. ASSUME MoveBlogToDraftStatus(b) PROVE doc'[b].status = "draft"
  <2> DEFINE d == [doc[b] EXCEPT !.status = "draft", !.at = NoTime]
  <2>1. d \in Documents
    <3>1. 0 \in 0..MaxTime
      BY BlogConstants
    <3> QED BY <3>1, WrittenDocuments
  <2>2. d.status = "draft"
    BY <1>1 DEF Documents
  <2>3. Write(b, d)
    BY <1>5 DEF MoveBlogToDraftStatus, MoveBlogToDraft
  <2> HIDE DEF d
  <2> QED BY <1>2, <2>1, <2>2, <2>3
<1>6. ASSUME DeleteABlogByBlogId(b) PROVE doc'[b].status = "absent"
  <2>1. CASE Exists(b)
    <3>1. Write(b, NewDocument)
      BY <1>6, <2>1 DEF DeleteABlogByBlogId, DeleteABlogById
    <3> QED BY <1>2, <3>1, DocumentsType DEF NewDocument
  <2>2. CASE ~Exists(b)
    BY <1>6, <2>2 DEF DeleteABlogByBlogId, Exists
  <2> QED BY <2>1, <2>2
<1>7. ASSUME ArchiveBlogById(b) PROVE doc'[b].status = doc[b].status
  <2> DEFINE d == [doc[b] EXCEPT !.archived = TRUE]
  <2>1. d \in Documents
    BY <1>1, FieldUpdates
  <2>2. d.status = doc[b].status
    BY <1>1 DEF Documents
  <2>3. Write(b, d)
    BY <1>7 DEF ArchiveBlogById, AchieveAPublishedBlogById
  <2> HIDE DEF d
  <2> QED BY <1>2, <2>1, <2>2, <2>3
<1> QED BY <1>3, <1>4, <1>5, <1>6, <1>7

LEMMA MailAnnouncedInit == PipeInit => Announced
<1> SUFFICES ASSUME PipeInit, NEW b \in Blogs
             PROVE  /\ row[b] # "Published" /\ outbox[Message(b, "PUBLISH")] = 0 /\ NoneAnnounces(b)
                    /\ doc[b].status # "published"
                    /\ \A k \in DOMAIN queue : queue[k] # Message(b, "PUBLISH")
  BY DEF Announced
<1>1. row[b] # "Published"
  BY DEF PipeInit
<1>2. outbox[Message(b, "PUBLISH")] = 0
  BY MessageType DEF PipeInit, Acts
<1>3. NoneAnnounces(b)
  BY DEF PipeInit, Init, Idle, NoneAnnounces, Announces
<1>4. doc[b].status # "published"
  BY DEF PipeInit, Init, NewDocument
<1>5. DOMAIN queue = {}
  <2>1. queue = <<>>
    BY DEF PipeInit
  <2> QED BY <2>1
<1> QED BY <1>1, <1>2, <1>3, <1>4, <1>5

LEMMA MailAnnouncedStep ==
  TypeOK /\ PipeTypes /\ Announced /\ [PipeNext]_pipeVars => Announced'
<1> SUFFICES ASSUME TypeOK, PipeTypes, Announced, [PipeNext]_pipeVars, NEW b \in Blogs,
                    ~wasPublished'[b]
             PROVE  /\ row'[b] # "Published" /\ outbox'[Message(b, "PUBLISH")] = 0
                    /\ NoneAnnounces(b)'
                    /\ doc'[b].status # "published"
                    /\ \A k \in DOMAIN queue' : queue'[k] # Message(b, "PUBLISH")
  BY DEF Announced
<1> DEFINE P == Message(b, "PUBLISH")
<1>0. P \in Messages /\ P.blog = b /\ P.act = "PUBLISH"
  BY MessageType DEF Acts
<1>1. IndexStep
  BY PipeIsIndexStep
<1>2. /\ ~wasPublished[b] /\ doc'[b].status # "published"
      /\ row[b] # "Published" /\ outbox[P] = 0 /\ NoneAnnounces(b)
      /\ doc[b].status # "published" /\ \A k \in DOMAIN queue : queue[k] # P
  BY <1>1, PublishedStays DEF Announced
<1>3. NoneAnnounces(b)'
  BY <1>1, <1>2, AnnouncesPublished DEF NoneAnnounces
<1>4. /\ outbox \in [Messages -> 0..MaxOps] /\ queue \in Seq(Messages)
      /\ row \in [Blogs -> RowStatuses]
  BY DEF PipeTypes, PipeTypeOK, RowStatuses
<1> DEFINE OutboxOK == outbox'[P] = 0
           QueueOK == \A k \in DOMAIN queue' : queue'[k] # P
           RowOK == row'[b] # "Published"
<1>5. (outbox' = outbox => OutboxOK) /\ (queue' = queue => QueueOK) /\ (row' = row => RowOK)
  BY <1>2
<1>6. ASSUME NEW m \in Messages, m # P,
             queue' \in {queue, Append(queue, m), queue \o <<m, m>>}
      PROVE  QueueOK
  <2>1. SUFFICES ASSUME NEW k \in DOMAIN queue', queue'[k] = P PROVE FALSE
    OBVIOUS
  <2>2. queue'[k] = m \/ \E i \in DOMAIN queue : queue'[k] = queue[i]
    <3>1. CASE queue' = queue
      BY <2>1, <3>1, Zenon
    <3>2. CASE queue' = Append(queue, m)
      BY <1>4, <3>2, QueueMembers, Zenon
    <3>3. CASE queue' = queue \o <<m, m>>
      BY <1>4, <3>3, QueueMembers, Zenon
    <3> QED BY <1>6, <3>1, <3>2, <3>3
  <2> QED BY <1>2, <1>6, <2>1, <2>2, Zenon
<1> HIDE DEF P
<1>7. OutboxOK /\ QueueOK /\ RowOK
  <2>1. CASE Untold
    BY <1>5, <2>1 DEF Untold, mailVars, userVars
  <2>2. ASSUME NEW c \in Blogs, Handled(c) PROVE OutboxOK /\ QueueOK /\ RowOK
    <3>1. PICK act \in {"PUBLISH", "SCHEDULE", "UPDATE", "DELETE"} :
             Tell(Message(c, act)) /\ (act = "PUBLISH" => PublishBlog(c))
      BY <2>2, HandledEffect
    <3>2. Message(c, act) # P
      <4>1. Message(c, act).blog = c /\ Message(c, act).act = act
        BY MessageType DEF Acts
      <4>2. c = b /\ act = "PUBLISH" => doc'[b].status = "published"
        BY <3>1, HandlerStatus
      <4> QED BY <1>0, <1>2, <4>1, <4>2
    <3>3. /\ outbox' = outbox
             \/ outbox' = [outbox EXCEPT ![Message(c, act)] = outbox[Message(c, act)] + 1]
          /\ queue' = queue /\ row' = row
      BY <3>1 DEF Tell, userVars
    <3>4. OutboxOK
      BY <1>0, <1>2, <1>4, <3>2, <3>3
    <3> QED BY <1>5, <3>3, <3>4
  <2>3. ASSUME NEW m \in Messages, SendFromGoroutine(m) PROVE OutboxOK /\ QueueOK /\ RowOK
    <3>1. m # P
      BY <1>2, <2>3 DEF SendFromGoroutine
    <3>2. /\ outbox' = [outbox EXCEPT ![m] = outbox[m] - 1] /\ row' = row
          /\ queue' \in {queue, Append(queue, m), queue \o <<m, m>>}
      BY <2>3 DEF SendFromGoroutine, userVars
    <3>3. OutboxOK
      BY <1>0, <1>2, <1>4, <3>1, <3>2
    <3> QED BY <1>5, <1>6, <3>1, <3>2, <3>3
  <2>4. ASSUME NEW s \in Streams, NEW stored \in BOOLEAN, TellCreate(s, stored)
        PROVE  OutboxOK /\ QueueOK /\ RowOK
    <3>1. PICK c \in Blogs : c = stream[s].blog
      BY DEF TypeOK, StreamStates
    <3>2. Message(c, "CREATE") \in Messages /\ Message(c, "CREATE") # P
      <4>1. Message(c, "CREATE") \in Messages /\ Message(c, "CREATE").act = "CREATE"
        BY MessageType DEF Acts
      <4> QED BY <1>0, <4>1
    <3>3. /\ outbox' = outbox /\ row' = row
          /\ queue' \in {queue, Append(queue, Message(c, "CREATE"))}
      BY <2>4, <3>1 DEF TellCreate, userVars
    <3> QED BY <1>5, <1>6, <3>2, <3>3
  <2>5. ASSUME NEW s \in Streams, SaveAndTellNobody(s) \/ LeaveStream(s)
        PROVE  OutboxOK /\ QueueOK /\ RowOK
    BY <1>5, <2>5 DEF SaveAndTellNobody, LeaveStream, mailVars, userVars
  <2>6. ASSUME NEW i \in Instances, AttemptPublication(i) PROVE OutboxOK /\ QueueOK /\ RowOK
    BY <1>5, <2>6 DEF AttemptPublication, mailVars, userVars
  <2>7. ASSUME NEW i \in Instances, TellPublication(i) PROVE OutboxOK /\ QueueOK /\ RowOK
    <3>1. PICK c \in Blogs : c = sched[i].hit.blog
      BY DEF TypeOK, SchedStates, Hits
    <3>2. Message(c, "PUBLISH") \in Messages /\ Message(c, "PUBLISH") # P
      <4>1. Message(c, "PUBLISH") \in Messages /\ Message(c, "PUBLISH").blog = c
        BY MessageType DEF Acts
      <4>2. Announces(i, c)
        BY <2>7, <3>1 DEF TellPublication, AnnouncePublication, Announces
      <4>3. c # b
        BY <1>2, <4>2 DEF NoneAnnounces
      <4> QED BY <1>0, <4>1, <4>3
    <3>3. /\ outbox' = outbox /\ row' = row
          /\ queue' \in {queue, Append(queue, Message(c, "PUBLISH")),
                         queue \o <<Message(c, "PUBLISH"), Message(c, "PUBLISH")>>}
      BY <2>7, <3>1 DEF TellPublication, userVars
    <3> QED BY <1>5, <1>6, <3>2, <3>3
  <2>8. ASSUME NEW i \in Instances, CrashWithGoroutines(i) PROVE OutboxOK /\ QueueOK /\ RowOK
    <3>1. PICK lost \in SUBSET Messages :
             outbox' = [m \in Messages |-> IF m \in lost THEN 0 ELSE outbox[m]]
      BY <2>8 DEF CrashWithGoroutines
    <3>2. OutboxOK
      BY <1>0, <1>2, <3>1
    <3> QED BY <1>5, <2>8, <3>2 DEF CrashWithGoroutines, userVars
  <2>9. CASE ProcessMessage
    <3>1. queue # <<>> /\ Head(queue) \in Messages
      BY <1>4, <2>9, HeadTailProperties DEF ProcessMessage, Delivered
    <3>2. Head(queue) # P
      BY <1>0, <1>2, <1>4, <3>1, QueueMembers
    <3>3. /\ outbox' = outbox /\ queue' \in {queue, Tail(queue)}
          /\ row' = row \/ row' = [row EXCEPT ![Head(queue).blog] = RowAfter(Head(queue))]
      BY <2>9 DEF ProcessMessage, UserRest, ApplyMessage
    <3>4. QueueOK
      <4>1. CASE queue' = queue
        BY <1>5, <4>1
      <4>2. CASE queue' = Tail(queue)
        <5>1. \A k \in DOMAIN queue' : \E i \in DOMAIN queue : queue'[k] = queue[i]
          BY <1>0, <1>4, <3>1, <4>2, QueueMembers, Zenon
        <5> QED BY <1>2, <5>1, Zenon
      <4> QED BY <3>3, <4>1, <4>2
    <3>5. RowOK
      <4>1. CASE Head(queue).blog # b
        BY <1>2, <1>4, <3>3, <4>1
      <4>2. CASE Head(queue).blog = b
        <5>1. Head(queue).act # "PUBLISH"
          BY <3>1, <3>2, <4>2, MessageShape DEF P
        <5>2. RowAfter(Head(queue)) # "Published"
          BY <5>1 DEF RowAfter
        <5> QED BY <1>2, <1>4, <3>3, <4>2, <5>2
      <4> QED BY <4>1, <4>2
    <3> QED BY <1>5, <3>3, <3>4, <3>5
  <2>10. CASE PanicOnMessage \/ RestartUsersService
    BY <1>5, <2>10, Zenon DEF PanicOnMessage, RestartUsersService, UserRest
  <2>11. CASE UNCHANGED pipeVars
    BY <1>5, <2>11 DEF pipeVars, mailVars, userVars
  <2> QED BY <2>1, <2>2, <2>3, <2>4, <2>5, <2>6, <2>7, <2>8, <2>9, <2>10, <2>11
          DEF PipeNext, Handled, Consume
<1> QED BY <1>2, <1>3, <1>7 DEF P

LEMMA AnnouncedImplies ==
  ASSUME PipeTypes, Announced PROVE AnnouncedWasPublished
<1> SUFFICES ASSUME NEW b \in Blogs,
                    row[b] = "Published" \/ Contains(queue, Message(b, "PUBLISH"))
                      \/ outbox[Message(b, "PUBLISH")] > 0,
                    ~wasPublished[b]
             PROVE  FALSE
  BY DEF AnnouncedWasPublished
<1>1. DOMAIN queue = 1 .. Len(queue)
  BY LenProperties DEF PipeTypes, PipeTypeOK
<1> QED BY <1>1 DEF Announced, Contains

-------------------------------------------------------------------------------
(* Agreements is inductive                                                   *)

\* The row that fits a document of status st.
RowOf(st) == CASE st = "absent"    -> "none"
               [] st = "draft"     -> "Draft"
               [] st = "published" -> "Published"
               [] st = "scheduled" -> "Scheduled"

LEMMA RowStatusIsRowOf ==
  ASSUME NEW b
  PROVE  RowStatus(b) = RowOf(doc[b].status) /\ RowStatus(b)' = RowOf(doc'[b].status)
BY DEF RowStatus, RowOf

LEMMA RowOfValues ==
  /\ RowOf("absent") = "none" /\ RowOf("draft") = "Draft"
  /\ RowOf("published") = "Published" /\ RowOf("scheduled") = "Scheduled"
BY DEF RowOf

LEMMA StatusValues ==
  ASSUME TypeOK, NEW b \in Blogs
  PROVE  /\ doc[b].status \in {"absent", "draft", "scheduled", "published"}
         /\ RowStatus(b) \in RowStatuses
         /\ RowStatus(b) = "none" <=> doc[b].status = "absent"
<1>1. doc[b].status \in {"absent", "draft", "scheduled", "published"}
  BY DEF TypeOK, Documents
<1> QED BY <1>1, RowStatusIsRowOf, RowOfValues DEF RowStatuses

\* The parts of the state Agreement(b) looks at, each left as it was.
OutKept(b) == \A act \in Acts : outbox'[Message(b, act)] = outbox[Message(b, act)]
AnnouncersKept(b) == \A i \in Instances : Announces(i, b)' <=> Announces(i, b)
FirstsKept(b) == \A s \in Streams : First(s, b)' <=> First(s, b)
QueueKept(b) == \A t \in RowStatuses : Leads(b, row[b], queue, t) => Leads(b, row'[b], queue', t)

LEMMA AgreementKept ==
  ASSUME NEW b \in Blogs, Agreement(b), OutKept(b), AnnouncersKept(b), FirstsKept(b),
         doc'[b].status = doc[b].status, QueueKept(b)
  PROVE  Agreement(b)'
<1>1. PICK t \in RowStatuses : Leads(b, row[b], queue, t) /\ InStep(b, t)
  BY DEF Agreement
<1>2. Leads(b, row'[b], queue', t)
  BY <1>1 DEF QueueKept
<1>3. RowStatus(b)' = RowStatus(b)
  BY RowStatusIsRowOf
<1>4. (NoneOut(b) => NoneOut(b)') /\ (NoneAnnounces(b) => NoneAnnounces(b)')
      /\ (NoneFirst(b) => NoneFirst(b)')
  BY DEF OutKept, AnnouncersKept, FirstsKept, NoneOut, NoneAnnounces, NoneFirst
<1>5. InStep(b, t)'
  <2>1. CASE Settled(b, t)
    BY <1>3, <1>4, <2>1 DEF Settled, InStep
  <2>2. CASE OneOut(b, t)
    <3>1. OneOut(b, t)'
      BY <1>3, <1>4, <2>2 DEF OneOut, OutKept
    <3> QED BY <3>1 DEF InStep
  <2>3. CASE OneAnnounces(b, t)
    <3>1. OneAnnounces(b, t)'
      BY <1>3, <1>4, <2>3 DEF OneAnnounces, AnnouncersKept
    <3> QED BY <3>1 DEF InStep
  <2>4. CASE OneFirst(b, t)
    <3>1. OneFirst(b, t)'
      BY <1>3, <1>4, <2>4 DEF OneFirst, FirstsKept
    <3> QED BY <3>1 DEF InStep
  <2> QED BY <1>1, <2>1, <2>2, <2>3, <2>4 DEF InStep
<1> QED BY <1>2, <1>5 DEF Agreement

\* A change of b while nothing about b is unfinished starts from agreement.
LEMMA SettledNow ==
  ASSUME NEW b \in Blogs, Agreement(b), NoneOut(b), NoneAnnounces(b), NoneFirst(b)
  PROVE  Leads(b, row[b], queue, RowStatus(b)) /\ RowStatus(b) \in RowStatuses
<1>1. PICK t \in RowStatuses : Leads(b, row[b], queue, t) /\ InStep(b, t)
  BY DEF Agreement
<1>2. t = RowStatus(b)
  <2>1. ~OneOut(b, t)
    BY DEF OneOut, NoneOut
  <2>2. ~OneAnnounces(b, t) /\ ~OneFirst(b, t)
    BY DEF OneAnnounces, OneFirst, NoneAnnounces, NoneFirst
  <2> QED BY <1>1, <2>1, <2>2 DEF InStep, Settled
<1> QED BY <1>1, <1>2

LEMMA NotRaced ==
  ASSUME PipeTypes, NEW b \in Blogs, NotesRace(b), ~raced'[b]
  PROVE  NoneOut(b) /\ NoneAnnounces(b) /\ NoneFirst(b)
<1>1. ~Unfinished(b)
  <2> DEFINE v == Unfinished(b)
  <2>1. raced \in [Blogs -> BOOLEAN] /\ raced' = [raced EXCEPT ![b] = raced[b] \/ v]
    BY DEF PipeTypes, PipeTypeOK, NotesRace
  <2> HIDE DEF v
  <2>2. raced'[b] = (raced[b] \/ v)
    BY <2>1
  <2>3. ~v
    BY <2>2
  <2> QED BY <2>3 DEF v
<1>2. NoneOut(b)
  <2>1. ASSUME NEW act \in Acts PROVE outbox[Message(b, act)] = 0
    <3>1. outbox[Message(b, act)] \in 0..MaxOps /\ ~(outbox[Message(b, act)] > 0)
      BY <1>1, MessageType DEF PipeTypes, PipeTypeOK, Unfinished
    <3> QED BY <3>1, BlogConstants
  <2> QED BY <2>1 DEF NoneOut
<1> QED BY <1>1, <1>2 DEF Unfinished, NoneAnnounces, NoneFirst, Announces, First

\* The queue leads where it led before when nothing moved, or a message about
\* another blog was added.
LEMMA QueueStays ==
  ASSUME NEW b \in Blogs, row' = row, queue' = queue
  PROVE  QueueKept(b)
BY DEF QueueKept

LEMMA QueueGrowsElsewhere ==
  ASSUME PipeTypes, NEW b \in Blogs, NEW m \in Messages, m.blog # b, row' = row,
         queue' \in {queue, Append(queue, m), queue \o <<m, m>>}
  PROVE  QueueKept(b)
<1>1. CASE queue' = queue
  BY <1>1, QueueStays
<1>2. CASE queue' \in {Append(queue, m), queue \o <<m, m>>}
  <2>1. SUFFICES ASSUME NEW t \in RowStatuses, Leads(b, row[b], queue, t)
                 PROVE  Leads(b, row'[b], queue', t)
    BY DEF QueueKept
  <2>2. After(b, t, m) = t
    BY DEF After
  <2>3. row[b] \in RowStatuses /\ queue \in Seq(Messages)
    BY DEF PipeTypes, PipeTypeOK, RowStatuses
  <2>4. Leads(b, row[b], queue', After(b, t, m))
    BY <1>2, <2>1, <2>3, LeadsSent
  <2> QED BY <2>2, <2>4
<1> QED BY <1>1, <1>2

\* Nothing was lost of a blog that is not on record as astray.
LEMMA NotLost ==
  ASSUME PipeTypes, NEW c \in Blogs, NEW v \in BOOLEAN, NotesLoss(c, v), NEW b \in Blogs,
         ~astray'[b]
  PROVE  ~astray[b] /\ (c = b => ~v)
BY LossNoted DEF PipeTypes

LEMMA HandledAgrees ==
  ASSUME TypeOK, PipeTypes, NEW c \in Blogs, Handled(c),
         NEW b \in Blogs, Agreement(b), ~raced'[b], ~astray'[b]
  PROVE  Agreement(b)'
<1>1. PICK act \in {"PUBLISH", "SCHEDULE", "UPDATE", "DELETE"} :
         /\ Handle(c) /\ Tell(Message(c, act))
         /\ \/ act = "PUBLISH" /\ PublishBlog(c)
            \/ act = "SCHEDULE" /\ ScheduleBlog(c)
            \/ act = "UPDATE" /\ MoveBlogToDraftStatus(c)
            \/ act = "DELETE" /\ DeleteABlogByBlogId(c)
  BY HandledEffect
<1>2. PICK m \in Messages : m = Message(c, act) /\ act \in Acts /\ m.blog = c /\ m.act = act
  BY MessageType DEF Acts
<1>3. /\ queue' = queue /\ row' = row
      /\ outbox' = outbox \/ outbox' = [outbox EXCEPT ![m] = outbox[m] + 1]
      /\ c = b => outbox' = [outbox EXCEPT ![m] = outbox[m] + 1]
  <2>1. PICK v \in BOOLEAN : v = ~(faults' = faults)
    OBVIOUS
  <2>2. NotesLoss(c, v)
    BY <1>1, <1>2, <2>1 DEF Tell, NotesLoss
  <2>3. c = b => faults' = faults
    BY <2>1, <2>2, NotLost
  <2> QED BY <1>1, <1>2, <2>3 DEF Tell, userVars
<1>4. NotesRace(c)
  BY <1>1, <1>2 DEF Tell
<1>5. sched' = sched /\ stream' = stream
  BY <1>1, HandleWrites
<1>6. AnnouncersKept(b) /\ FirstsKept(b)
  BY <1>5 DEF AnnouncersKept, FirstsKept, Announces, First
<1>7. outbox \in [Messages -> 0..MaxOps]
  BY DEF PipeTypes, PipeTypeOK
<1>8. CASE c # b
  <2>1. OutKept(b)
    <3>1. ASSUME NEW a \in Acts PROVE outbox'[Message(b, a)] = outbox[Message(b, a)]
      <4>1. Message(b, a) \in Messages /\ Message(b, a).blog = b
        BY MessageType
      <4> QED BY <1>2, <1>3, <1>7, <1>8, <4>1
    <3> QED BY <3>1 DEF OutKept
  <2>2. doc'[b] = doc[b]
    <3>1. Writes(c) \/ UNCHANGED doc
      BY <1>1, HandleWrites
    <3> QED BY <1>8, <3>1, WriteEffect DEF Writes
  <2>3. QueueKept(b)
    BY <1>3, QueueStays
  <2> QED BY <1>6, <2>1, <2>2, <2>3, AgreementKept
<1>9. CASE c = b
  <2>0. PICK t : t = RowStatus(b)
    OBVIOUS
  <2>1. NoneOut(b) /\ NoneAnnounces(b) /\ NoneFirst(b)
    BY <1>4, <1>9, NotRaced
  <2>2. t \in RowStatuses /\ Leads(b, row[b], queue, t)
    BY <2>0, <2>1, SettledNow
  <2>3. NoneAnnounces(b)' /\ NoneFirst(b)'
    BY <1>6, <2>1 DEF AnnouncersKept, FirstsKept, NoneAnnounces, NoneFirst
  <2>4. outbox'[Message(b, act)] = 1
    <3>1. outbox[m] = 0
      BY <1>2, <1>9, <2>1 DEF NoneOut
    <3>2. outbox'[m] = 1
      BY <1>2, <1>3, <1>7, <1>9, <3>1
    <3> QED BY <1>2, <1>9, <3>2
  <2>5. ASSUME NEW other \in Acts, other # act PROVE outbox'[Message(b, other)] = 0
    <3>1. Message(b, other) \in Messages /\ Message(b, other).act = other
      BY MessageType
    <3>2. outbox[Message(b, other)] = 0
      BY <2>1 DEF NoneOut
    <3> QED BY <1>2, <1>3, <1>7, <1>9, <2>5, <3>1, <3>2
  <2>6. After(b, t, Message(b, act)) = RowStatus(b)'
    <3>1. After(b, t, m) = CASE act = "DELETE" -> "none"
                             [] act = "UPDATE" -> "Draft"
                             [] act = "CREATE" -> IF t = "none" THEN "Draft" ELSE t
                             [] act = "PUBLISH" -> IF t = "none" THEN "none" ELSE "Published"
                             [] act = "SCHEDULE" -> IF t = "none" THEN "none" ELSE "Scheduled"
      BY <1>2, <1>9 DEF After
    <3>2. act \in {"PUBLISH", "SCHEDULE"} => t # "none"
      <4>1. act \in {"PUBLISH", "SCHEDULE"} => Exists(b)
        BY <1>1, <1>9 DEF PublishBlog, ScheduleBlog
      <4> QED BY <2>0, <4>1, StatusValues DEF Exists
    <3>3. doc'[b].status = CASE act = "DELETE" -> "absent" [] act = "UPDATE" -> "draft"
                             [] act = "PUBLISH" -> "published" [] act = "SCHEDULE" -> "scheduled"
      BY <1>1, <1>9, HandlerStatus
    <3>4. RowStatus(b)' = RowOf(doc'[b].status)
      BY RowStatusIsRowOf
    <3>5. After(b, t, m) = RowStatus(b)'
      BY <3>1, <3>2, <3>3, <3>4, RowOfValues
    <3> QED BY <1>2, <1>9, <3>5
  <2>7. OneOut(b, t)'
    BY <1>2, <2>3, <2>4, <2>5, <2>6 DEF OneOut
  <2>8. Leads(b, row[b], queue, t)'
    BY <1>3, <2>2
  <2> QED BY <2>2, <2>7, <2>8 DEF Agreement, InStep
<1> QED BY <1>8, <1>9

LEMMA SendAgrees ==
  ASSUME TypeOK, PipeTypes, NEW m \in Messages, SendFromGoroutine(m),
         NEW b \in Blogs, Agreement(b), ~astray'[b]
  PROVE  Agreement(b)'
<1>1. /\ outbox[m] > 0 /\ outbox' = [outbox EXCEPT ![m] = outbox[m] - 1]
      /\ queue' \in {queue, Append(queue, m), queue \o <<m, m>>} /\ row' = row
      /\ UNCHANGED <<doc, stream, sched>>
  BY DEF SendFromGoroutine, userVars, docVars
<1>2. AnnouncersKept(b) /\ FirstsKept(b)
  BY <1>1 DEF AnnouncersKept, FirstsKept, Announces, First
<1>3. outbox \in [Messages -> 0..MaxOps] /\ row[b] \in RowStatuses /\ queue \in Seq(Messages)
  BY DEF PipeTypes, PipeTypeOK, RowStatuses
<1>4. CASE m.blog # b
  <2>1. ASSUME NEW a \in Acts PROVE outbox'[Message(b, a)] = outbox[Message(b, a)]
    <3>1. Message(b, a) \in Messages /\ Message(b, a).blog = b
      BY MessageType
    <3> QED BY <1>1, <1>3, <1>4, <3>1
  <2>2. OutKept(b)
    BY <2>1 DEF OutKept
  <2>3. QueueKept(b)
    BY <1>1, <1>4, QueueGrowsElsewhere
  <2> QED BY <1>1, <1>2, <2>2, <2>3, AgreementKept
<1>5. CASE m.blog = b
  <2>0. queue' \in {Append(queue, m), queue \o <<m, m>>}
    <3>1. PICK v \in BOOLEAN : v = (queue' = queue)
      OBVIOUS
    <3>2. NotesLoss(b, v)
      BY <1>5, <3>1 DEF SendFromGoroutine, NotesLoss
    <3>3. ~v
      BY <3>2, NotLost
    <3> QED BY <1>1, <3>1, <3>3
  <2>1. m.act \in Acts /\ m = Message(b, m.act)
    BY <1>5, MessageShape
  <2>2. PICK t \in RowStatuses : Leads(b, row[b], queue, t) /\ InStep(b, t)
    BY DEF Agreement
  <2>3. OneOut(b, t)
    <3>1. ~NoneOut(b)
      <4>1. outbox[Message(b, m.act)] > 0
        BY <1>1, <2>1
      <4> QED BY <2>1, <4>1 DEF NoneOut
    <3> QED BY <2>2, <3>1 DEF InStep, Settled, OneAnnounces, OneFirst
  <2>4. PICK act \in Acts : /\ outbox[Message(b, act)] = 1
                            /\ \A other \in Acts : other # act => outbox[Message(b, other)] = 0
                            /\ After(b, t, Message(b, act)) = RowStatus(b)
    BY <2>3 DEF OneOut
  <2>5. m = Message(b, act)
    <3>1. m.act = act
      <4>1. outbox[Message(b, m.act)] > 0
        BY <1>1, <2>1
      <4> QED BY <2>1, <2>4, <4>1
    <3> QED BY <2>1, <3>1
  <2>6. NoneOut(b)'
    <3>1. ASSUME NEW a \in Acts PROVE outbox'[Message(b, a)] = 0
      <4>1. Message(b, a) \in Messages /\ Message(b, a).act = a
        BY MessageType
      <4>2. CASE a = act
        BY <1>1, <1>3, <2>4, <2>5, <4>2
      <4>3. CASE a # act
        <5>1. Message(b, act).act = act
          BY MessageType
        <5> QED BY <1>1, <1>3, <2>4, <2>5, <4>1, <4>3, <5>1
      <4> QED BY <4>2, <4>3
    <3> QED BY <3>1 DEF NoneOut
  <2>7. NoneAnnounces(b)' /\ NoneFirst(b)'
    BY <1>2, <2>3 DEF AnnouncersKept, FirstsKept, NoneAnnounces, NoneFirst, OneOut
  <2> DEFINE u == After(b, t, m)
  <2>8. u \in RowStatuses /\ Leads(b, row[b], queue, u)'
    BY <1>1, <1>3, <2>0, <2>2, AfterType, LeadsSent
  <2>9. u = RowStatus(b)'
    <3>1. RowStatus(b)' = RowStatus(b)
      BY <1>1, RowStatusIsRowOf
    <3> QED BY <2>4, <2>5, <3>1
  <2> HIDE DEF u
  <2>10. Settled(b, u)'
    BY <2>6, <2>7, <2>9 DEF Settled
  <2> QED BY <2>8, <2>10 DEF Agreement, InStep
<1> QED BY <1>4, <1>5

\* A step of stream s moves no other stream, and leaves the blog of s.
LEMMA StreamMoves ==
  ASSUME TypeOK, NEW s \in Streams
  PROVE  /\ \A pc \in {"closed", "check", "create", "first", "save", "open"} :
              Goto(s, pc) => /\ stream'[s].pc = pc /\ stream'[s].blog = stream[s].blog
                             /\ \A u \in Streams : u # s => stream'[u] = stream[u]
         /\ Close(s) => /\ stream'[s].pc = "closed"
                        /\ \A u \in Streams : u # s => stream'[u] = stream[u]
<1>1. stream \in [Streams -> StreamStates] /\ stream[s] \in StreamStates
  BY DEF TypeOK
<1>2. ASSUME NEW pc \in {"closed", "check", "create", "first", "save", "open"}, Goto(s, pc)
      PROVE  /\ stream'[s].pc = pc /\ stream'[s].blog = stream[s].blog
             /\ \A u \in Streams : u # s => stream'[u] = stream[u]
  BY <1>1, <1>2 DEF Goto, StreamStates
<1>3. ASSUME Close(s)
      PROVE  stream'[s].pc = "closed" /\ \A u \in Streams : u # s => stream'[u] = stream[u]
  BY <1>1, <1>3 DEF Close, Closed
<1> QED BY <1>2, <1>3

LEMMA TellCreateAgrees ==
  ASSUME TypeOK, PipeTypes, NEW s \in Streams, NEW stored \in BOOLEAN, TellCreate(s, stored),
         NEW b \in Blogs, Agreement(b), ~raced'[b], ~astray'[b]
  PROVE  Agreement(b)'
<1>1. PICK c \in Blogs : c = stream[s].blog
  BY DEF TypeOK, StreamStates
<1>2. PICK m \in Messages : m = Message(c, "CREATE") /\ m.blog = c /\ m.act = "CREATE"
  BY MessageType DEF Acts
<1>3. /\ PublishCreate(s, stored) /\ NotesRace(c) /\ stream[s].pc = "create"
      /\ UNCHANGED <<doc, sched, outbox, row>>
      /\ queue' = IF stored THEN Append(queue, m) ELSE queue
  BY <1>1, <1>2 DEF TellCreate, PublishCreate, NoWrite, StreamRest, userVars
<1>4. OutKept(b) /\ AnnouncersKept(b)
  BY <1>3 DEF OutKept, AnnouncersKept, Announces
<1>5. \/ stored /\ Goto(s, "first")
      \/ Close(s) /\ faults' # faults
  <2>1. faults \in Nat
    BY BlogConstants DEF TypeOK
  <2> QED BY <1>3, <2>1 DEF PublishCreate, Fault
<1>6. /\ \A u \in Streams : u # s => stream'[u] = stream[u]
      /\ stream'[s].pc \in {"first", "closed"}
      /\ stream'[s].pc = "first" => stored /\ stream'[s].blog = c
  BY <1>1, <1>5, StreamMoves
<1>7. CASE c # b
  <2>1. FirstsKept(b)
    BY <1>3, <1>6, <1>7 DEF FirstsKept, First
  <2>2. queue' \in {queue, Append(queue, m), queue \o <<m, m>>}
    BY <1>3
  <2>3. QueueKept(b)
    BY <1>2, <1>3, <1>7, <2>2, QueueGrowsElsewhere
  <2> QED BY <1>3, <1>4, <2>1, <2>3, AgreementKept
<1>8. CASE c = b /\ ~stored
  <2>1. FirstsKept(b)
    BY <1>3, <1>6, <1>8 DEF FirstsKept, First
  <2>2. QueueKept(b)
    BY <1>3, <1>8, QueueStays
  <2> QED BY <1>3, <1>4, <2>1, <2>2, AgreementKept
<1>9. CASE c = b /\ stored
  <2>0. PICK t : t = RowStatus(b)
    OBVIOUS
  <2>a. stream'[s].pc = "first" /\ stream'[s].blog = c
    <3>1. PICK v \in BOOLEAN : v = (stored /\ faults' # faults)
      OBVIOUS
    <3>2. NotesLoss(c, v)
      BY <1>1, <3>1 DEF TellCreate, NotesLoss
    <3>3. faults' = faults
      BY <1>9, <3>1, <3>2, NotLost
    <3> QED BY <1>1, <1>5, <3>3, StreamMoves
  <2>1. NoneOut(b) /\ NoneAnnounces(b) /\ NoneFirst(b)
    BY <1>3, <1>9, NotRaced
  <2>2. t \in RowStatuses /\ Leads(b, row[b], queue, t)
    BY <2>0, <2>1, SettledNow
  <2>3. row[b] \in RowStatuses /\ queue \in Seq(Messages)
    BY DEF PipeTypes, PipeTypeOK, RowStatuses
  <2>4. PICK u \in RowStatuses : u = After(b, t, m)
    BY <2>2, AfterType
  <2>5. Leads(b, row[b], queue, u)'
    BY <1>3, <1>9, <2>2, <2>3, <2>4, LeadsAppend
  <2>6. u = IF doc'[b].status = "absent" THEN "Draft" ELSE RowStatus(b)'
    <3>1. u = IF t = "none" THEN "Draft" ELSE t
      BY <1>2, <1>9, <2>4 DEF After
    <3>2. doc' = doc
      BY <1>3
    <3>3. RowStatus(b)' = t /\ (t = "none" <=> doc[b].status = "absent")
      BY <2>0, <3>2, RowStatusIsRowOf, StatusValues
    <3> QED BY <3>1, <3>2, <3>3
  <2>7. NoneOut(b)' /\ NoneAnnounces(b)'
    BY <1>4, <2>1 DEF OutKept, AnnouncersKept, NoneOut, NoneAnnounces
  <2>8. First(s, b)' /\ \A v \in Streams : v # s => ~First(v, b)'
    BY <1>6, <1>9, <2>a, <2>1 DEF NoneFirst, First
  <2>9. OneFirst(b, u)'
    BY <2>6, <2>7, <2>8 DEF OneFirst
  <2> QED BY <2>5, <2>9 DEF Agreement, InStep
<1> QED BY <1>7, <1>8, <1>9

LEMMA SaveAgrees ==
  ASSUME TypeOK, PipeTypes, NEW s \in Streams, SaveAndTellNobody(s),
         NEW b \in Blogs, Agreement(b), ~astray'[b]
  PROVE  Agreement(b)'
<1>1. PICK c \in Blogs : c = stream[s].blog
  BY DEF TypeOK, StreamStates
<1>2. /\ stream[s].pc \in {"first", "save"} /\ IndexDraft(c)
      /\ Goto(s, "open") \/ Close(s)
      /\ UNCHANGED <<sched, outbox, queue, row>>
  BY <1>1 DEF SaveAndTellNobody, SaveBlog, StreamRest, mailVars, userVars
<1>3. c = b => \/ doc[b].status = "draft"
               \/ doc[b].status = "absent" /\ stream[s].pc = "first"
  <2>1. PICK v \in BOOLEAN : v = ~(\/ doc[c].status = "draft"
                                   \/ doc[c].status = "absent" /\ stream[s].pc = "first")
    OBVIOUS
  <2>2. NotesLoss(c, v)
    BY <1>1, <2>1 DEF SaveAndTellNobody, NotesLoss
  <2>3. c = b => ~v
    BY <2>2, NotLost
  <2> QED BY <2>1, <2>3
<1>4. stream'[s].pc # "first" /\ \A u \in Streams : u # s => stream'[u] = stream[u]
  BY <1>2, StreamMoves
<1>5. OutKept(b) /\ AnnouncersKept(b) /\ QueueKept(b)
  BY <1>2, QueueStays DEF OutKept, AnnouncersKept, Announces
<1>6. (c # b => doc'[b] = doc[b]) /\ doc'[c].status = "draft"
  <2>1. PICK d \in Documents : d = [NewDocument EXCEPT !.status = "draft"]
    BY DocumentsType, FieldUpdates
  <2>2. d.status = "draft"
    BY <2>1 DEF NewDocument
  <2>3. Write(c, d)
    BY <1>2, <2>1 DEF IndexDraft
  <2>4. doc'[c] = [d EXCEPT !.seq = doc[c].seq + 1] /\ (c # b => doc'[b] = doc[b])
    BY <2>3, WriteEffect
  <2>5. [d EXCEPT !.seq = doc[c].seq + 1].status = d.status
    BY DEF Documents
  <2> QED BY <2>2, <2>4, <2>5
<1>7. CASE c # b \/ stream[s].pc = "save"
  <2>1. FirstsKept(b)
    BY <1>1, <1>4, <1>7 DEF FirstsKept, First
  <2>2. doc'[b].status = doc[b].status
    BY <1>3, <1>6, <1>7
  <2> QED BY <1>5, <2>1, <2>2, AgreementKept
<1>8. CASE c = b /\ stream[s].pc = "first"
  <2>1. First(s, b)
    BY <1>1, <1>8 DEF First
  <2>2. PICK t \in RowStatuses : Leads(b, row[b], queue, t) /\ InStep(b, t)
    BY DEF Agreement
  <2>3. OneFirst(b, t)
    <3>1. ~NoneFirst(b)
      BY <2>1 DEF NoneFirst
    <3> QED BY <2>2, <3>1 DEF InStep, Settled, OneOut, OneAnnounces
  <2>4. NoneOut(b)' /\ NoneAnnounces(b)'
    BY <1>5, <2>3 DEF OutKept, AnnouncersKept, NoneOut, NoneAnnounces, OneFirst
  <2>5. NoneFirst(b)'
    <3>1. \A u \in Streams : u # s => ~First(u, b)
      BY <2>1, <2>3 DEF OneFirst
    <3> QED BY <1>4, <3>1 DEF NoneFirst, First
  <2>6. t = RowStatus(b)'
    <3>1. RowStatus(b)' = "Draft"
      BY <1>6, <1>8, RowStatusIsRowOf, RowOfValues
    <3>2. t = IF doc[b].status = "absent" THEN "Draft" ELSE RowStatus(b)
      BY <2>3 DEF OneFirst
    <3>3. doc[b].status = "draft" => RowStatus(b) = "Draft"
      BY RowStatusIsRowOf, RowOfValues
    <3> QED BY <1>3, <1>8, <3>1, <3>2, <3>3
  <2>7. Settled(b, t)'
    BY <2>4, <2>5, <2>6 DEF Settled
  <2>8. Leads(b, row[b], queue, t)'
    BY <1>2, <2>2
  <2> QED BY <2>7, <2>8 DEF Agreement, InStep
<1> QED BY <1>2, <1>7, <1>8

LEMMA LeaveAgrees ==
  ASSUME TypeOK, PipeTypes, NEW s \in Streams, LeaveStream(s),
         NEW b \in Blogs, Agreement(b), ~astray'[b]
  PROVE  Agreement(b)'
<1>1. PICK c \in Blogs : c = stream[s].blog
  BY DEF TypeOK, StreamStates
<1>2. Close(s) /\ UNCHANGED <<doc, sched, outbox, queue, row>>
  BY DEF LeaveStream, CloseStream, NoWrite, StreamRest, mailVars, userVars
<1>3. c = b => stream[s].pc # "first"
  <2>1. PICK v \in BOOLEAN : v = (stream[s].pc = "first")
    OBVIOUS
  <2>2. NotesLoss(c, v)
    BY <1>1, <2>1 DEF LeaveStream, NotesLoss
  <2>3. c = b => ~v
    BY <2>2, NotLost
  <2> QED BY <2>1, <2>3
<1>4. FirstsKept(b)
  BY <1>1, <1>2, <1>3, StreamMoves DEF FirstsKept, First
<1>5. OutKept(b) /\ AnnouncersKept(b) /\ QueueKept(b)
  BY <1>2, QueueStays DEF OutKept, AnnouncersKept, Announces
<1> QED BY <1>2, <1>4, <1>5, AgreementKept

\* What a commit makes of its document, and that nobody mistakes it for none.
LEMMA CommitEffect ==
  ASSUME TypeOK, NEW i \in Instances, CommitPublication(i), NEW c \in Blogs,
         c = sched[i].hit.blog
  PROVE  /\ doc'[c].status = "published" /\ doc' # doc /\ Exists(c)
         /\ \A b \in Blogs : b # c => doc'[b] = doc[b]
<1>1. PICK d \in Documents : d = [doc[c] EXCEPT !.status = "published", !.at = NoTime, !.failed = 0]
  <2>1. 0 \in 0..MaxTime
    BY BlogConstants
  <2> QED BY <2>1, WrittenDocuments
<1>2. d.status = "published"
  <2>1. doc[c] \in Documents
    BY DEF TypeOK
  <2> QED BY <1>1, <2>1 DEF Documents
<1>3. Write(c, d)
  BY <1>1 DEF CommitPublication
<1>4. /\ doc'[c] = [d EXCEPT !.seq = doc[c].seq + 1] /\ doc'[c].seq = doc[c].seq + 1
      /\ \A b \in Blogs : b # c => doc'[b] = doc[b]
  BY <1>3, WriteEffect
<1>5. [d EXCEPT !.seq = doc[c].seq + 1].status = d.status
  BY DEF Documents
<1>6. doc[c].seq \in Nat
  BY DEF TypeOK, Documents
<1>7. doc' # doc
  <2>1. doc'[c].seq # doc[c].seq
    BY <1>4, <1>6
  <2> QED BY <2>1
<1>8. Exists(c)
  BY DEF CommitPublication
<1> QED BY <1>2, <1>4, <1>5, <1>7, <1>8

LEMMA AttemptAgrees ==
  ASSUME TypeOK, PipeTypes, NEW i \in Instances, AttemptPublication(i),
         NEW b \in Blogs, Agreement(b), ~raced'[b], ~astray'[b]
  PROVE  Agreement(b)'
<1>1. PICK c \in Blogs : c = sched[i].hit.blog
  BY DEF TypeOK, SchedStates, Hits
<1>2. /\ PublishScheduledBlog(i) /\ sched[i].pc = "publish"
      /\ UNCHANGED <<stream, outbox, queue, row>>
  BY DEF AttemptPublication, PublishScheduledBlog, SchedRest, mailVars, userVars
<1>3. OutKept(b) /\ FirstsKept(b) /\ QueueKept(b)
  BY <1>2, QueueStays DEF OutKept, FirstsKept, First
<1>4. \A j \in Instances : j # i => sched'[j] = sched[j]
  BY <1>2, SchedulerMoves DEF Schedule
<1>5. CASE ~(CommitPublication(i) /\ Continue(i, "announce"))
  <2>1. /\ Skip(i) \/ RetryOrGiveUp(i)
        /\ UNCHANGED doc \/ (CommitPublication(i) /\ Fault)
    BY <1>2, <1>5 DEF PublishScheduledBlog, docVars
  <2>2. sched'[i].pc # "announce"
    BY <1>2, <2>1, SchedulerPCs
  <2>3. AnnouncersKept(b)
    BY <1>2, <1>4, <2>2 DEF AnnouncersKept, Announces
\* A commit whose answer was lost is of another blog, or on record as astray.
  <2>4. doc'[b].status = doc[b].status
    <3>1. CASE UNCHANGED doc
      BY <3>1
    <3>2. CASE CommitPublication(i) /\ Fault
      <4>1. doc' # doc /\ \A x \in Blogs : x # c => doc'[x] = doc[x]
        BY <1>1, <3>2, CommitEffect
      <4>2. faults' # faults
        <5>1. faults \in Nat
          BY BlogConstants DEF TypeOK
        <5> QED BY <3>2, <5>1 DEF Fault
      <4>3. PICK v \in BOOLEAN : v = (doc' # doc /\ faults' # faults)
        OBVIOUS
      <4>4. NotesLoss(c, v)
        BY <1>1, <4>3 DEF AttemptPublication, NotesLoss
      <4>5. c # b
        BY <4>1, <4>2, <4>3, <4>4, NotLost
      <4> QED BY <4>1, <4>5
    <3> QED BY <2>1, <3>1, <3>2
  <2> QED BY <1>3, <2>3, <2>4, AgreementKept
<1>6. CASE CommitPublication(i) /\ Continue(i, "announce")
  <2>1. doc'[c].status = "published" /\ doc' # doc /\ Exists(c)
        /\ \A x \in Blogs : x # c => doc'[x] = doc[x]
    BY <1>1, <1>6, CommitEffect
  <2>2. sched'[i].pc = "announce" /\ sched'[i].hit.blog = c
    <3>1. sched'[i].pc = "announce" /\ sched'[i].hit = sched[i].hit
      BY <1>6, SchedulerPCs
    <3> QED BY <1>1, <3>1
  <2>3. CASE c # b
    <3>1. AnnouncersKept(b)
      BY <1>2, <1>4, <2>2, <2>3 DEF AnnouncersKept, Announces
    <3> QED BY <1>3, <2>1, <2>3, <3>1, AgreementKept
  <2>4. CASE c = b
    <3>0. PICK t : t = RowStatus(b)
      OBVIOUS
    <3>1. NotesRace(b)
      BY <1>1, <2>1, <2>4 DEF AttemptPublication
    <3>2. NoneOut(b) /\ NoneAnnounces(b) /\ NoneFirst(b)
      BY <3>1, NotRaced
    <3>3. t \in RowStatuses /\ Leads(b, row[b], queue, t)
      BY <3>0, <3>2, SettledNow
    <3>4. NoneOut(b)' /\ NoneFirst(b)'
      BY <1>3, <3>2 DEF OutKept, FirstsKept, NoneOut, NoneFirst
    <3>5. Announces(i, b)' /\ \A j \in Instances : j # i => ~Announces(j, b)'
      BY <1>4, <2>2, <2>4, <3>2 DEF NoneAnnounces, Announces
    <3>6. After(b, t, Message(b, "PUBLISH")) = RowStatus(b)'
      <4>1. RowStatus(b)' = "Published"
        BY <2>1, <2>4, RowStatusIsRowOf, RowOfValues
      <4>2. t # "none"
        BY <2>1, <2>4, <3>0, StatusValues DEF Exists
      <4>3. Message(b, "PUBLISH").blog = b /\ Message(b, "PUBLISH").act = "PUBLISH"
        BY MessageType DEF Acts
      <4> QED BY <4>1, <4>2, <4>3 DEF After
    <3>7. OneAnnounces(b, t)'
      BY <3>4, <3>5, <3>6 DEF OneAnnounces
    <3>8. Leads(b, row[b], queue, t)'
      BY <1>2, <3>3
    <3> QED BY <3>3, <3>7, <3>8 DEF Agreement, InStep
  <2> QED BY <2>3, <2>4
<1> QED BY <1>5, <1>6

LEMMA TellPublicationAgrees ==
  ASSUME TypeOK, PipeTypes, NEW i \in Instances, TellPublication(i),
         NEW b \in Blogs, Agreement(b), ~astray'[b]
  PROVE  Agreement(b)'
<1>1. PICK c \in Blogs : c = sched[i].hit.blog
  BY DEF TypeOK, SchedStates, Hits
<1>2. PICK m \in Messages : m = Message(c, "PUBLISH") /\ m.blog = c
  BY MessageType DEF Acts
<1>3. /\ AnnouncePublication(i)
      /\ queue' \in {queue, Append(queue, m), queue \o <<m, m>>}
      /\ UNCHANGED <<doc, stream, outbox, row>>
  BY <1>1, <1>2 DEF TellPublication, AnnouncePublication, docVars, SchedRest, userVars
<1>4. sched[i].pc = "announce" /\ sched'[i].pc = "idle"
      /\ \A j \in Instances : j # i => sched'[j] = sched[j]
  BY <1>3, SchedulerMoves DEF Schedule
<1>5. OutKept(b) /\ FirstsKept(b)
  BY <1>3 DEF OutKept, FirstsKept, First
<1>6. CASE c # b
  <2>1. AnnouncersKept(b)
    BY <1>1, <1>4, <1>6 DEF AnnouncersKept, Announces
  <2>2. QueueKept(b)
    BY <1>2, <1>3, <1>6, QueueGrowsElsewhere
  <2> QED BY <1>3, <1>5, <2>1, <2>2, AgreementKept
<1>7. CASE c = b
  <2>1. Announces(i, b)
    BY <1>1, <1>4, <1>7 DEF Announces
  <2>2. PICK t \in RowStatuses : Leads(b, row[b], queue, t) /\ InStep(b, t)
    BY DEF Agreement
  <2>3. OneAnnounces(b, t)
    <3>1. ~NoneAnnounces(b)
      BY <2>1 DEF NoneAnnounces
    <3> QED BY <2>2, <3>1 DEF InStep, Settled, OneOut, OneFirst
  <2>4. NoneOut(b)' /\ NoneFirst(b)'
    BY <1>5, <2>3 DEF OutKept, FirstsKept, NoneOut, NoneFirst, OneAnnounces
  <2>5. NoneAnnounces(b)'
    <3>1. \A j \in Instances : j # i => ~Announces(j, b)
      BY <2>1, <2>3 DEF OneAnnounces
    <3> QED BY <1>4, <3>1 DEF NoneAnnounces, Announces
  <2>6. row[b] \in RowStatuses /\ queue \in Seq(Messages)
    BY DEF PipeTypes, PipeTypeOK, RowStatuses
  <2>7. PICK u \in RowStatuses : u = After(b, t, m)
    BY <2>2, AfterType
  <2>8. Leads(b, row[b], queue, u)'
    <3>1. PICK v \in BOOLEAN : v = (queue' = queue)
      OBVIOUS
    <3>2. NotesLoss(c, v)
      BY <1>1, <1>2, <3>1 DEF TellPublication, NotesLoss
    <3>3. ~v
      BY <1>7, <3>2, NotLost
    <3>4. queue' \in {Append(queue, m), queue \o <<m, m>>}
      BY <1>3, <3>1, <3>3
    <3> QED BY <1>3, <2>2, <2>6, <2>7, <3>4, LeadsSent
  <2>9. u = RowStatus(b)'
    <3>1. RowStatus(b)' = RowStatus(b)
      BY <1>3, RowStatusIsRowOf
    <3>2. After(b, t, Message(b, "PUBLISH")) = RowStatus(b)
      BY <2>3 DEF OneAnnounces
    <3> QED BY <1>2, <1>7, <2>7, <3>1, <3>2
  <2>10. Settled(b, u)'
    BY <2>4, <2>5, <2>9 DEF Settled
  <2> QED BY <2>8, <2>10 DEF Agreement, InStep
<1> QED BY <1>6, <1>7

\* No other step of the index changes a status, or moves anybody to or from a
\* message that is still to be sent.
LEMMA UntoldAgrees ==
  ASSUME TypeOK, PipeTypes, Untold, NEW b \in Blogs, Agreement(b)
  PROVE  Agreement(b)'
<1>1. OutKept(b) /\ QueueKept(b)
  BY QueueStays DEF Untold, mailVars, userVars, OutKept
<1>2. CASE Tick \/ \E c \in Blogs : Refresh(c)
  <2>1. UNCHANGED <<doc, stream, sched>>
    BY <1>2 DEF Tick, Refresh, docVars
  <2>2. AnnouncersKept(b) /\ FirstsKept(b)
    BY <2>1 DEF AnnouncersKept, FirstsKept, Announces, First
  <2> QED BY <1>1, <2>1, <2>2, AgreementKept
<1>3. ASSUME NEW c \in Blogs, ArchiveBlogById(c) PROVE Agreement(b)'
  <2>1. UNCHANGED <<stream, sched>>
    BY <1>3 DEF ArchiveBlogById, HandlerRest
  <2>2. AnnouncersKept(b) /\ FirstsKept(b)
    BY <2>1 DEF AnnouncersKept, FirstsKept, Announces, First
  <2>3. doc'[b].status = doc[b].status
    <3>1. CASE c = b
      BY <1>3, <3>1, HandlerStatus
    <3>2. CASE c # b
      <4>1. Writes(c) \/ UNCHANGED doc
        BY <1>3, HandleWrites DEF Handle
      <4> QED BY <3>2, <4>1, WriteEffect DEF Writes
    <3> QED BY <3>1, <3>2
  <2> QED BY <1>1, <2>2, <2>3, AgreementKept
<1>4. ASSUME NEW s \in Streams,
             (\E c \in Blogs : OpenStream(s, c)) \/ CheckExistence(s) \/ NextEdit(s)
      PROVE  Agreement(b)'
  <2>1. UNCHANGED <<doc, sched>>
    BY <1>4 DEF OpenStream, CheckExistence, NextEdit, NoWrite, StreamRest
  <2>2. /\ stream[s].pc # "first" /\ stream'[s].pc # "first"
        /\ \A u \in Streams : u # s => stream'[u] = stream[u]
    <3>1. ASSUME NEW c \in Blogs, OpenStream(s, c)
          PROVE  /\ stream[s].pc # "first" /\ stream'[s].pc # "first"
                 /\ \A u \in Streams : u # s => stream'[u] = stream[u]
      <4>1. stream[s].pc = "closed" /\ stream \in [Streams -> StreamStates]
        BY <3>1 DEF OpenStream, Closed, TypeOK
      <4> QED BY <3>1, <4>1 DEF OpenStream
    <3>2. CASE CheckExistence(s)
      BY <3>2, StreamMoves DEF CheckExistence
    <3>3. CASE NextEdit(s)
      BY <3>3, StreamMoves DEF NextEdit
    <3> QED BY <1>4, <3>1, <3>2, <3>3
  <2>3. AnnouncersKept(b) /\ FirstsKept(b)
    BY <2>1, <2>2 DEF AnnouncersKept, FirstsKept, Announces, First
  <2> QED BY <1>1, <2>1, <2>3, AgreementKept
<1>5. ASSUME NEW i \in Instances,
             \/ GetDueScheduledBlogs(i) \/ NextDueBlog(i) \/ IncrementScheduleFailedAttempts(i)
      PROVE  Agreement(b)'
  <2>1. Schedule(i) /\ sched[i].pc # "announce" /\ sched[i].pc # "publish"
    BY <1>5 DEF Schedule, GetDueScheduledBlogs, NextDueBlog, IncrementScheduleFailedAttempts, Idle
  <2>2. sched'[i].pc # "announce" /\ \A j \in Instances : j # i => sched'[j] = sched[j]
    BY <2>1, SchedulerMoves DEF PublishScheduledBlog
  <2>3. stream' = stream
    BY <2>1, ScheduleWrites
  <2>4. AnnouncersKept(b) /\ FirstsKept(b)
    BY <2>1, <2>2, <2>3 DEF AnnouncersKept, FirstsKept, Announces, First
  <2>5. doc'[b].status = doc[b].status
    <3>1. CASE doc' = doc
      BY <3>1
    <3>2. CASE doc' # doc
      <4>1. PICK c \in Blogs : Write(c, [doc[c] EXCEPT !.failed = @ + 1])
        <5>1. sched[i].hit.blog \in Blogs
          BY DEF TypeOK, SchedStates, Hits
        <5> QED BY <1>5, <3>2, <5>1
                DEF GetDueScheduledBlogs, NextDueBlog, IncrementScheduleFailedAttempts, docVars
      <4>2. PICK d \in Documents : d = [doc[c] EXCEPT !.failed = @ + 1]
        <5>1. 0 \in 0..MaxTime
          BY BlogConstants
        <5> QED BY <5>1, WrittenDocuments
      <4>3. doc'[c] = [d EXCEPT !.seq = doc[c].seq + 1] /\ (b # c => doc'[b] = doc[b])
        BY <4>1, <4>2, WriteEffect
      <4>4. d.status = doc[c].status
        <5>1. doc[c] \in Documents
          BY DEF TypeOK
        <5> QED BY <4>2, <5>1 DEF Documents
      <4>5. [d EXCEPT !.seq = doc[c].seq + 1].status = d.status
        BY DEF Documents
      <4> QED BY <4>3, <4>4, <4>5
    <3> QED BY <3>1, <3>2
  <2> QED BY <1>1, <2>4, <2>5, AgreementKept
<1> QED BY <1>2, <1>3, <1>4, <1>5 DEF Untold

\* A crash that parts no change of b from its message changes nothing for b.
LEMMA CrashAgrees ==
  ASSUME TypeOK, PipeTypes, NEW i \in Instances, CrashWithGoroutines(i),
         NEW b \in Blogs, Agreement(b), ~astray'[b]
  PROVE  Agreement(b)'
<1>1. /\ ~Announces(i, b)
      /\ \A m \in Messages : m.blog = b => outbox'[m] = outbox[m]
  BY CrashNoted DEF PipeTypes
<1>2. CrashBlogService(i) /\ UNCHANGED <<doc, stream, queue, row>>
  BY DEF CrashWithGoroutines, CrashBlogService, docVars, userVars
<1>3. OutKept(b)
  BY <1>1, MessageType DEF OutKept
<1>4. AnnouncersKept(b)
  BY <1>1, <1>2, CrashMoves DEF AnnouncersKept, Announces
<1>5. FirstsKept(b) /\ QueueKept(b)
  BY <1>2, QueueStays DEF FirstsKept, First
<1> QED BY <1>2, <1>3, <1>4, <1>5, AgreementKept

\* The consumer takes the course of the row one message on, or half a step: the
\* row has moved and the message is still there.
LEMMA ProcessAgrees ==
  ASSUME TypeOK, PipeTypes, ProcessMessage, NEW b \in Blogs, Agreement(b), ~astray'[b]
  PROVE  Agreement(b)'
<1> DEFINE m == Head(queue)
<1>1. UNCHANGED <<doc, stream, sched, outbox>>
  BY DEF ProcessMessage, UserRest, docVars
<1>2. OutKept(b) /\ AnnouncersKept(b) /\ FirstsKept(b)
  BY <1>1 DEF OutKept, AnnouncersKept, FirstsKept, Announces, First
<1>3. /\ row \in [Blogs -> RowStatuses] /\ queue \in Seq(Messages) /\ queue # <<>>
  BY DEF PipeTypes, PipeTypeOK, RowStatuses, ProcessMessage, Delivered
<1>4. m \in Messages /\ m.blog \in Blogs /\ m.act \in Acts
  BY <1>3, HeadTailProperties, MessageShape
<1>5. m.blog = b => \/ ~Rejected(m) /\ ApplyMessage(m) /\ queue' \in {queue, Tail(queue)}
                    \/ Rejected(m) /\ row' = row /\ queue' = Tail(queue)
  <2>1. SUFFICES ASSUME m.blog = b, ~(queue' = Tail(queue) /\ row' = row /\ Fault)
                 PROVE  \/ ~Rejected(m) /\ ApplyMessage(m) /\ queue' \in {queue, Tail(queue)}
                        \/ Rejected(m) /\ row' = row /\ queue' = Tail(queue)
    <3>1. ASSUME m.blog = b, queue' = Tail(queue), Fault PROVE FALSE
      <4>1. Tail(queue) # queue
        BY <1>3, EmptySeq, HeadTailProperties, LenProperties
      <4>2. faults' # faults
        <5>1. faults \in Nat
          BY BlogConstants DEF TypeOK
        <5> QED BY <3>1, <5>1 DEF Fault
      <4>3. PICK v \in BOOLEAN : v = (faults' # faults /\ queue' # queue)
        OBVIOUS
      <4>4. NotesLoss(b, v)
        BY <3>1, <4>3 DEF ProcessMessage, NotesLoss
      <4> QED BY <3>1, <4>1, <4>2, <4>3, <4>4, NotLost
    <3> QED BY <3>1
  <2> QED BY <2>1 DEF ProcessMessage
<1>6. m.blog # b => row'[b] = row[b] /\ queue' \in {queue, Tail(queue)}
  BY <1>3, <1>4 DEF ProcessMessage, ApplyMessage
<1> HIDE DEF m
<1>7. row'[b] = After(b, row[b], m) /\ queue' \in {queue, Tail(queue)}
  <2>1. CASE m.blog # b
    BY <1>6, <2>1 DEF After
  <2>2. CASE m.blog = b /\ Rejected(m)
    BY <1>5, <2>2 DEF Rejected, After
  <2>3. CASE m.blog = b /\ ~Rejected(m)
    <3>1. row'[b] = RowAfter(m)
      BY <1>3, <1>5, <2>3 DEF ApplyMessage
    <3>2. RowAfter(m) = After(b, row[b], m)
      BY <1>4, <2>3 DEF RowAfter, After, Rejected, Acts
    <3> QED BY <1>5, <2>3, <3>1, <3>2
  <2> QED BY <2>1, <2>2, <2>3
<1>8. QueueKept(b)
  <2>1. SUFFICES ASSUME NEW t \in RowStatuses, Leads(b, row[b], queue, t)
                 PROVE  Leads(b, row'[b], queue', t)
    BY DEF QueueKept
  <2>2. row[b] \in RowStatuses
    BY <1>3
  <2>3. Leads(b, After(b, row[b], m), Tail(queue), t)
    BY <1>3, <2>1, <2>2, LeadsTail DEF m
  <2>4. Leads(b, After(b, row[b], m), queue, t)
    BY <1>3, <2>1, <2>2, LeadsAgain DEF m
  <2> QED BY <1>7, <2>3, <2>4
<1> QED BY <1>1, <1>2, <1>8, AgreementKept

\* Races and losses are remembered.
LEMMA HistoryRemembered ==
  ASSUME TypeOK, PipeTypes, [PipeNext]_pipeVars, NEW b \in Blogs
  PROVE  (~raced'[b] => ~raced[b]) /\ (~astray'[b] => ~astray[b])
<1>0. raced \in [Blogs -> BOOLEAN]
  BY DEF PipeTypes, PipeTypeOK
<1>1. ASSUME NEW c \in Blogs, NotesRace(c) PROVE ~raced'[b] => ~raced[b]
  <2> DEFINE v == Unfinished(c)
  <2>1. raced' = [raced EXCEPT ![c] = raced[c] \/ v]
    BY <1>1 DEF NotesRace
  <2> HIDE DEF v
  <2>2. c = b => raced'[b] = (raced[b] \/ v)
    BY <1>0, <2>1
  <2>3. c # b => raced'[b] = raced[b]
    BY <1>0, <2>1
  <2> QED BY <2>2, <2>3, Zenon
<1>2. ASSUME NEW c \in Blogs, Handled(c) PROVE ~raced'[b] => ~raced[b]
  <2>1. PICK act \in Acts : Tell(Message(c, act))
    BY <1>2, HandledEffect DEF Acts
  <2>2. NotesRace(c)
    BY <2>1, MessageType DEF Tell
  <2> QED BY <1>1, <2>2
<1>3. ASSUME NEW s \in Streams, NEW stored \in BOOLEAN, TellCreate(s, stored)
      PROVE  ~raced'[b] => ~raced[b]
  <2>1. stream[s].blog \in Blogs /\ NotesRace(stream[s].blog)
    BY <1>3 DEF TellCreate, TypeOK, StreamStates
  <2> QED BY <1>1, <2>1
<1>4. ASSUME NEW i \in Instances, AttemptPublication(i) PROVE ~raced'[b] => ~raced[b]
  <2>1. sched[i].hit.blog \in Blogs
    BY DEF TypeOK, SchedStates, Hits
  <2>2. NotesRace(sched[i].hit.blog) \/ raced' = raced
    BY <1>4 DEF AttemptPublication
  <2> QED BY <1>1, <2>1, <2>2
<1>5. ASSUME \/ Untold \/ Consume \/ UNCHANGED pipeVars
             \/ \E m \in Messages : SendFromGoroutine(m)
             \/ \E s \in Streams : SaveAndTellNobody(s) \/ LeaveStream(s)
             \/ \E i \in Instances : TellPublication(i) \/ CrashWithGoroutines(i)
      PROVE  raced' = raced
  BY <1>5, ConsumeIsIndexStep
     DEF Untold, SendFromGoroutine, SaveAndTellNobody, LeaveStream, TellPublication,
         CrashWithGoroutines, pipeVars, history
<1>6. ~raced'[b] => ~raced[b]
  BY <1>2, <1>3, <1>4, <1>5 DEF PipeNext, Handled
<1> QED BY <1>6, AstrayStep DEF PipeTypes

LEMMA AgreementsInit == PipeInit => Agreements
<1> SUFFICES ASSUME PipeInit, NEW b \in Blogs PROVE Agreement(b)
  BY DEF Agreements
<1>1. /\ outbox = [m \in Messages |-> 0] /\ queue = <<>> /\ row[b] = "none"
      /\ doc[b].status = "absent"
      /\ \A s \in Streams : stream[s].pc = "closed"
      /\ \A i \in Instances : sched[i].pc = "idle"
  BY DEF PipeInit, Init, NewDocument, Closed, Idle
<1>2. NoneOut(b) /\ NoneAnnounces(b) /\ NoneFirst(b)
  BY <1>1, MessageType DEF NoneOut, NoneAnnounces, NoneFirst, Announces, First
<1>3. RowStatus(b) = "none"
  BY <1>1, RowStatusIsRowOf, RowOfValues
<1>4. "none" \in RowStatuses
  BY DEF RowStatuses
<1>5. Leads(b, "none", <<>>, "none")
  BY <1>4, LeadsNowhere
<1>6. Leads(b, row[b], queue, "none") /\ InStep(b, "none")
  BY <1>1, <1>2, <1>3, <1>5 DEF InStep, Settled
<1> QED BY <1>4, <1>6 DEF Agreement

LEMMA AgreementsStep ==
  TypeOK /\ PipeTypes /\ Agreements /\ [PipeNext]_pipeVars => Agreements'
<1> SUFFICES ASSUME TypeOK, PipeTypes, Agreements, [PipeNext]_pipeVars,
                    NEW b \in Blogs, ~raced'[b], ~astray'[b]
             PROVE  Agreement(b)'
  BY DEF Agreements
<1>1. Agreement(b)
  BY HistoryRemembered DEF Agreements
<1>2. CASE Untold
  BY <1>1, <1>2, UntoldAgrees
<1>3. ASSUME NEW c \in Blogs, Handled(c) PROVE Agreement(b)'
  BY <1>1, <1>3, HandledAgrees
<1>4. ASSUME NEW m \in Messages, SendFromGoroutine(m) PROVE Agreement(b)'
  BY <1>1, <1>4, SendAgrees
<1>5. ASSUME NEW s \in Streams, NEW stored \in BOOLEAN, TellCreate(s, stored) PROVE Agreement(b)'
  BY <1>1, <1>5, TellCreateAgrees
<1>6. ASSUME NEW s \in Streams, SaveAndTellNobody(s) PROVE Agreement(b)'
  BY <1>1, <1>6, SaveAgrees
<1>7. ASSUME NEW s \in Streams, LeaveStream(s) PROVE Agreement(b)'
  BY <1>1, <1>7, LeaveAgrees
<1>8. ASSUME NEW i \in Instances, AttemptPublication(i) PROVE Agreement(b)'
  BY <1>1, <1>8, AttemptAgrees
<1>9. ASSUME NEW i \in Instances, TellPublication(i) PROVE Agreement(b)'
  BY <1>1, <1>9, TellPublicationAgrees
<1>10. ASSUME NEW i \in Instances, CrashWithGoroutines(i) PROVE Agreement(b)'
  BY <1>1, <1>10, CrashAgrees
<1>11. CASE Consume
  <2>1. CASE ProcessMessage
    BY <1>1, <2>1, ProcessAgrees
  <2>2. CASE PanicOnMessage \/ RestartUsersService
    <3>1. UNCHANGED <<doc, stream, sched, outbox, queue, row>>
      BY <2>2 DEF PanicOnMessage, RestartUsersService, UserRest, docVars
    <3>2. OutKept(b) /\ AnnouncersKept(b) /\ FirstsKept(b) /\ QueueKept(b)
      BY <3>1, QueueStays DEF OutKept, AnnouncersKept, FirstsKept, Announces, First
    <3> QED BY <1>1, <3>1, <3>2, AgreementKept
  <2> QED BY <1>11, <2>1, <2>2 DEF Consume
<1>12. CASE UNCHANGED pipeVars
  <2>1. UNCHANGED <<doc, stream, sched, outbox, queue, row>>
    BY <1>12 DEF pipeVars, indexVars, vars, docVars, mailVars, userVars
  <2>2. OutKept(b) /\ AnnouncersKept(b) /\ FirstsKept(b) /\ QueueKept(b)
    BY <2>1, QueueStays DEF OutKept, AnnouncersKept, FirstsKept, Announces, First
  <2> QED BY <1>1, <2>1, <2>2, AgreementKept
<1> QED BY <1>2, <1>3, <1>4, <1>5, <1>6, <1>7, <1>8, <1>9, <1>10, <1>11, <1>12
        DEF PipeNext, Handled

-------------------------------------------------------------------------------
(* The theorems                                                              *)

LEMMA PipeInvInit == PipeInit => PipeInv
<1>1. PipeInit => TypeOK
  BY TypeInit DEF PipeInit
<1> QED BY <1>1, PipeTypesInit, MailAnnouncedInit, AgreementsInit DEF PipeInv, PipeTypes

LEMMA PipeInvStep == PipeInv /\ [PipeNext]_pipeVars => PipeInv'
<1> SUFFICES ASSUME PipeInv, [PipeNext]_pipeVars PROVE PipeInv'
  OBVIOUS
<1>1. TypeOK /\ PipeTypes /\ Announced /\ Agreements
  BY DEF PipeInv, PipeTypes
<1>2. TypeOK'
  BY <1>1, PipeIsIndexStep, IndexTypeStep
<1>3. PipeTypes'
  BY <1>1, PipeTypesStep
<1>4. Announced' /\ Agreements'
  BY <1>1, MailAnnouncedStep, AgreementsStep
<1> QED BY <1>2, <1>3, <1>4 DEF PipeInv, PipeTypes

\* The mail between the services and the rows of the users service hold values
\* of their kinds, and no more messages wait to be sent than calls were made.
THEOREM PipeTypesCorrect == PipeSpec => []PipeTypeOK
<1>1. PipeInv => PipeTypeOK
  BY DEF PipeInv
<1> QED BY <1>1, PipeInvInit, PipeInvStep, PTL DEF PipeSpec

\* No handler and no scheduler announces a publication that the index refused:
\* whatever is lost, repeated or reordered, the users service hears of, and
\* holds as published, only blogs the index once published.
THEOREM OnlyPublishedIsAnnounced == PipeSpec => []AnnouncedWasPublished
<1>1. PipeInv => AnnouncedWasPublished
  BY AnnouncedImplies DEF PipeInv, PipeTypes
<1> QED BY <1>1, PipeInvInit, PipeInvStep, PTL DEF PipeSpec

\* The two stores agree on every blog about which nothing is on its way, whatever
\* was retried, sent or delivered twice, and whoever crashed, unless two messages
\* about it overlapped or a change and its message were parted for good.
THEOREM StoresAgreeWhenQuiet == PipeSpec => []StoresAgree
<1>1. PipeInv => StoresAgree
  <2> SUFFICES ASSUME PipeInv, NEW b \in Blogs, Quiet(b), ~raced[b], ~astray[b]
               PROVE  row[b] = RowStatus(b)
    BY DEF StoresAgree
  <2>1. Agreement(b) /\ PipeTypes
    BY DEF PipeInv, Agreements, PipeTypes
  <2>2. NoneOut(b) /\ NoneAnnounces(b) /\ NoneFirst(b)
    <3>1. ASSUME NEW act \in Acts PROVE outbox[Message(b, act)] = 0
      <4>1. outbox[Message(b, act)] \in 0..MaxOps /\ ~(outbox[Message(b, act)] > 0)
        BY <2>1, MessageType DEF PipeTypes, PipeTypeOK, Quiet, Unfinished
      <4> QED BY <4>1, BlogConstants
    <3> QED BY <3>1 DEF Quiet, Unfinished, NoneOut, NoneAnnounces, NoneFirst, Announces, First
  <2>3. Leads(b, row[b], queue, RowStatus(b))
    BY <2>1, <2>2, SettledNow
  <2>4. queue \in Seq(Messages) /\ \A k \in DOMAIN queue : queue[k].blog # b
    BY <2>1 DEF PipeTypes, PipeTypeOK, Quiet
  <2> QED BY <2>3, <2>4, LeadsQuiet
<1> QED BY <1>1, PipeInvInit, PipeInvStep, PTL DEF PipeSpec

-------------------------------------------------------------------------------
(* What BlogIndex promises alone it promises with the mail: a step of the    *)
(* pipeline is a step of the index, or uses up a fault outside of it.        *)

LEMMA HitInvPipeStep == HitInv /\ [PipeNext]_pipeVars => HitInv'
<1> SUFFICES ASSUME HitInv, [PipeNext]_pipeVars PROVE HitInv'
  OBVIOUS
<1>1. CASE [Next]_vars
  BY <1>1, HitInvStep
<1>2. CASE FaultElsewhere
  <2>1. TypeOK'
    BY <1>2, FaultElsewhereKeepsTypes DEF HitInv
  <2>2. UNCHANGED <<doc, searchable, clock, sched>>
    BY <1>2 DEF FaultElsewhere, docVars
  <2> QED BY <2>1, <2>2 DEF HitInv, SearchLags, HitsAreStaleOrDue, StaleOrDue, Due
<1> QED BY <1>1, <1>2, PipeIsIndexStep DEF IndexStep

LEMMA PipeStepIsContractStep ==
  HitInv /\ [PipeNext]_pipeVars => [Contract!Next]_(Contract!vars)
<1> SUFFICES ASSUME HitInv, [PipeNext]_pipeVars PROVE [Contract!Next]_(Contract!vars)
  OBVIOUS
<1>1. CASE [Next]_vars
  BY <1>1, StepIsContractStep
<1>2. CASE FaultElsewhere
  <2>1. Order' = Order
    BY <1>2, OrderIsOrderOf DEF FaultElsewhere, docVars, OrderOf
  <2> QED BY <1>2, <2>1 DEF FaultElsewhere, docVars, Contract!vars
<1> QED BY <1>1, <1>2, PipeIsIndexStep DEF IndexStep

\* The schedulers keep their contract when they also announce what they publish:
\* a lost or repeated message never makes an order be carried out twice, early,
\* or after it was changed.
THEOREM ContractKeptWithMail == PipeSpec => ImplementsContractSafely
<1>1. PipeInit => HitInv /\ Contract!Init
  BY HitInvInit, InitIsContractInit DEF PipeInit
<1> QED BY <1>1, HitInvPipeStep, PipeStepIsContractStep, PTL
        DEF PipeSpec, ImplementsContractSafely

================================================================================
