--------------------------- MODULE MessageBus_proofs ---------------------------
(***************************************************************************)
(* Proofs about MessageBus, for any number of goroutines, connections,     *)
(* attempts, lost connections and timeouts.  Everything rests on pubMu:    *)
(* whoever publishes or waits on a connection holds its mutex, a           *)
(* connection somebody refers to is never reused, and as long as no wait   *)
(* timed out a connection carries the one publish of the goroutine waiting *)
(* on it, or nothing.                                                      *)
(***************************************************************************)
EXTENDS MessageBus, SequenceTheorems, FiniteSetTheorems, TLAPS

-------------------------------------------------------------------------------
(* The inductive invariant *)

OnConnection == {"lock", "draining", "publish", "wait", "reconnect", "dialling"}
HoldsMutex == {"draining", "publish", "wait"}

Waits(p, g) == pub[p].pc = "wait" /\ pub[p].conn = g

\* The members of the two queues of a connection
Unanswered(g) == {conns[g].inflight[k] : k \in DOMAIN conns[g].inflight}
Answered(g) == {conns[g].confirms[k].msg : k \in DOMAIN conns[g].confirms}

References ==
  /\ \A p \in Publishers : pub[p].pc \in OnConnection => pub[p].conn \in Conns
  /\ \A c \in Consumers : cons[c].pc # "start" => cons[c].conn \in Conns

MutexHeld ==
  \A p \in Publishers : pub[p].pc \in HoldsMutex => conns[pub[p].conn].holder = p

ReconnectsAlone ==
  /\ \A p \in Publishers : pub[p].pc = "dialling" => writer = p
  /\ \A c \in Consumers : cons[c].pc = "dialling" => writer = c

AcksAreStored ==
  \A g \in Conns : \A k \in DOMAIN conns[g].confirms :
    conns[g].confirms[k].ack => conns[g].confirms[k].msg \in stored

ClosedIsSilent == \A g \in Conns : ~conns[g].open => conns[g].inflight = <<>>

Quiet(g) == conns[g].inflight = <<>> /\ conns[g].confirms = <<>>
CarriesOnly(g, p) ==
  \/ conns[g].inflight = <<p>> /\ conns[g].confirms = <<>>
  \/ /\ conns[g].inflight = <<>>
     /\ \E ack \in BOOLEAN : conns[g].confirms = <<[msg |-> p, ack |-> ack]>>

OneOutstanding ==
  timeouts = 0 =>
    \A g \in Conns : Quiet(g) \/ \E p \in Publishers : Waits(p, g) /\ CarriesOnly(g, p)

IInv ==
  /\ TypeOK /\ References /\ MutexHeld /\ ReconnectsAlone
  /\ ConfirmOutstanding /\ AcksAreStored /\ ClosedIsSilent /\ OneOutstanding /\ OkMeansStored

-------------------------------------------------------------------------------
(* Types *)

Connections == [open : BOOLEAN, holder : Publishers \cup {Nobody},
                inflight : Seq(Publishers), confirms : Seq(Confirmations)]
PublisherPCs ==
  {"start", "lock", "draining", "publish", "wait", "reconnect", "dialling", "ok", "error"}
PublisherStates ==
  [pc : PublisherPCs, conn : Conns \cup {Nobody}, attempt : 1 .. MaxRetries, round : 1 .. 2]
ConsumerStates ==
  [pc : {"start", "register", "consuming", "reconnect", "dialling"}, conn : Conns \cup {Nobody}]

LEMMA TypeParts ==
  TypeOK <=> /\ current \in Conns
             /\ writer \in Publishers \cup Consumers \cup {Nobody}
             /\ conns \in [Conns -> Connections]
             /\ pub \in [Publishers -> PublisherStates]
             /\ cons \in [Consumers -> ConsumerStates]
             /\ stored \subseteq Publishers
             /\ failures \in 0 .. MaxFailures /\ timeouts \in 0 .. MaxTimeouts
BY DEF TypeOK, Connections, PublisherStates, PublisherPCs, ConsumerStates

\* What a one-point update of a function does.
LEMMA Update ==
  ASSUME NEW S, NEW T, NEW f \in [S -> T], NEW a \in S, NEW v \in T
  PROVE  /\ [f EXCEPT ![a] = v] \in [S -> T]
         /\ [f EXCEPT ![a] = v][a] = v
         /\ \A b \in S : b # a => [f EXCEPT ![a] = v][b] = f[b]
OBVIOUS

\* A goroutine refers to one connection at most and there are more connections
\* than goroutines, so that a dial always finds an unused one.
LEMMA UnusedExists ==
  ASSUME TypeOK
  PROVE  Unused \in Conns /\ Unused # current /\ Referrers(Unused) = {}
<1> DEFINE G == Publishers \cup Consumers
           S == Conns \ {current}
<1>1. \E g \in Conns : g # current /\ Referrers(g) = {}
  <2> SUFFICES ASSUME \A g \in S : Referrers(g) # {} PROVE FALSE
    OBVIOUS
  <2> DEFINE f == [g \in S |-> CHOOSE x : x \in Referrers(g)]
  <2>1. \A g \in S : f[g] \in Referrers(g)
    OBVIOUS
  <2>2. \A g \in S : Referrers(g) \subseteq G
    BY DEF Referrers
  <2>3. f \in [S -> G]
    BY <2>1, <2>2
  <2>4. IsFiniteSet(S) /\ Cardinality(S) = Cardinality(Conns) - 1
    BY FS_RemoveElement, ConnsAssumption DEF TypeOK
  <2>5. Cardinality(Conns) \in Nat /\ Cardinality(G) \in Nat
    BY FS_CardinalityType, ConnsAssumption
  <2>6. IsFiniteSet(G) /\ Cardinality(G) < Cardinality(S)
    BY <2>4, <2>5, ConnsAssumption
  <2> HIDE DEF f
  <2>7. PICK x, y \in S : x # y /\ f[x] = f[y]
    BY <2>3, <2>4, <2>6, FS_PigeonHole
  <2>8. f[x] \in Referrers(x) /\ f[x] \in Referrers(y)
    BY <2>1, <2>7
  <2> QED BY <2>7, <2>8, GoroutinesAssumption DEF Referrers
<1> QED BY <1>1 DEF Unused


\* The states a failed attempt and a success leave the goroutine in.
LEMMA AttemptOver ==
  ASSUME TypeOK, NEW p \in Publishers, pub[p].conn \in Conns,
         NEW new \in {NextAttempt(p), Succeeded(p)}
  PROVE  /\ new \in [Publishers -> PublisherStates]
         /\ \A q \in Publishers : q # p => new[q] = pub[q]
         /\ new[p].pc \in {"lock", "reconnect", "ok", "error"}
         /\ new[p].pc \in {"lock", "reconnect"} => new[p].conn = pub[p].conn
         /\ new = NextAttempt(p) => new[p].pc # "ok"
<1>1. pub \in [Publishers -> PublisherStates] /\ pub[p] \in PublisherStates
  BY TypeParts
<1> DEFINE last == p \in Plain \/ pub[p].attempt = MaxRetries
           again == [pub[p] EXCEPT !.pc = "lock", !.attempt = pub[p].attempt + 1]
           stale == [pub[p] EXCEPT !.pc = "reconnect"]
           error == [pub[p] EXCEPT !.pc = "error", !.conn = Nobody]
           ok == [pub[p] EXCEPT !.pc = "ok", !.conn = Nobody]
<1>2. ~last => pub[p].attempt + 1 \in 1 .. MaxRetries
  BY <1>1, BoundAssumption, SMT DEF PublisherStates
<1>3. /\ ~last => again \in PublisherStates /\ again.pc = "lock" /\ again.conn = pub[p].conn
      /\ stale \in PublisherStates /\ stale.pc = "reconnect" /\ stale.conn = pub[p].conn
      /\ error \in PublisherStates /\ error.pc = "error"
      /\ ok \in PublisherStates /\ ok.pc = "ok"
  <2>1. /\ {"lock", "reconnect", "error", "ok"} \subseteq PublisherPCs
        /\ pub[p].attempt \in 1 .. MaxRetries
    BY <1>1 DEF PublisherPCs, PublisherStates
  <2>2. ~last => again \in PublisherStates /\ again.pc = "lock" /\ again.conn = pub[p].conn
    <3> DEFINE n == pub[p].attempt + 1
    <3> HIDE DEF n
    <3>1. \A m \in 1 .. MaxRetries :
            LET t == [pub[p] EXCEPT !.pc = "lock", !.attempt = m]
            IN  t \in PublisherStates /\ t.pc = "lock" /\ t.conn = pub[p].conn
      BY <1>1, <2>1 DEF PublisherStates
    <3> QED BY <1>2, <3>1
  <2>3. stale \in PublisherStates /\ stale.pc = "reconnect" /\ stale.conn = pub[p].conn
    BY <1>1, <2>1 DEF PublisherStates
  <2>4. error \in PublisherStates /\ error.pc = "error"
    BY <1>1, <2>1 DEF PublisherStates
  <2>5. ok \in PublisherStates /\ ok.pc = "ok"
    BY <1>1, <2>1 DEF PublisherStates
  <2> QED BY <2>2, <2>3, <2>4, <2>5
<1>4. Succeeded(p) = [pub EXCEPT ![p] = ok]
  BY DEF Succeeded
<1>5. NextAttempt(p) =
        [pub EXCEPT ![p] = IF ~last THEN again ELSE IF pub[p].round = 1 THEN stale ELSE error]
  BY DEF NextAttempt
<1> HIDE DEF last, again, stale, error, ok
<1>6. \/ NextAttempt(p) \in {[pub EXCEPT ![p] = v] : v \in {stale, error}}
      \/ ~last /\ NextAttempt(p) = [pub EXCEPT ![p] = again]
  BY <1>5
<1>7. CASE new = [pub EXCEPT ![p] = ok] /\ new = Succeeded(p)
  BY <1>1, <1>3, <1>4, <1>6, <1>7
<1>8. CASE new = [pub EXCEPT ![p] = stale]
  BY <1>1, <1>3, <1>8
<1>9. CASE new = [pub EXCEPT ![p] = error]
  BY <1>1, <1>3, <1>9
<1>10. CASE ~last /\ new = [pub EXCEPT ![p] = again]
  BY <1>1, <1>3, <1>10
<1> QED BY <1>4, <1>6, <1>7, <1>8, <1>9, <1>10

-------------------------------------------------------------------------------
(* What the steps do to a connection and to a publisher                     *)

ConnBecomes(g, open, holder, inflight, confirms) ==
  /\ conns' \in [Conns -> Connections]
  /\ \A h \in Conns : h # g => conns'[h] = conns[h]
  /\ conns'[g].open = open /\ conns'[g].holder = holder
  /\ conns'[g].inflight = inflight /\ conns'[g].confirms = confirms

PubBecomes(p, pc, g) ==
  /\ pub' \in [Publishers -> PublisherStates]
  /\ \A q \in Publishers : q # p => pub'[q] = pub[q]
  /\ pub'[p].pc = pc
  /\ pc \in OnConnection => pub'[p].conn = g

LEMMA DrainEffect ==
  ASSUME TypeOK, NEW p \in Publishers, NEW g \in Conns, Drain(p, g)
  PROVE  ConnBecomes(g, conns[g].open, p, conns[g].inflight,
                     IF conns[g].open THEN <<>> ELSE conns[g].confirms)
<1>1. conns \in [Conns -> Connections] /\ conns[g] \in Connections
  BY TypeParts
<1> DEFINE new(c) == [conns[g] EXCEPT !.holder = p, !.confirms = c]
<1>2. \A c \in Seq(Confirmations) :
        /\ new(c) \in Connections /\ new(c).open = conns[g].open /\ new(c).holder = p
        /\ new(c).inflight = conns[g].inflight /\ new(c).confirms = c
  BY <1>1 DEF Connections
<1>3. <<>> \in Seq(Confirmations) /\ conns[g].confirms \in Seq(Confirmations)
  BY <1>1 DEF Connections
<1>4. CASE conns[g].open
  <2>1. conns' = [conns EXCEPT ![g] = new(<<>>)]
    BY <1>1, <1>4 DEF Drain
  <2> QED BY <1>1, <1>2, <1>3, <1>4, <2>1 DEF ConnBecomes
<1>5. CASE ~conns[g].open
  <2>1. conns' = [conns EXCEPT ![g] = new(conns[g].confirms)]
    BY <1>1, <1>5 DEF Drain
  <2> QED BY <1>1, <1>2, <1>3, <1>5, <2>1 DEF ConnBecomes
<1> QED BY <1>4, <1>5

LEMMA HolderEffect ==
  ASSUME TypeOK, NEW x \in Publishers \cup {Nobody}, NEW g \in Conns,
         conns' = [conns EXCEPT ![g].holder = x]
  PROVE  ConnBecomes(g, conns[g].open, x, conns[g].inflight, conns[g].confirms)
<1>1. conns \in [Conns -> Connections] /\ conns[g] \in Connections
  BY TypeParts
<1> DEFINE new == [conns[g] EXCEPT !.holder = x]
<1>2. /\ new \in Connections /\ new.open = conns[g].open /\ new.holder = x
      /\ new.inflight = conns[g].inflight /\ new.confirms = conns[g].confirms
  BY <1>1 DEF Connections
<1> QED BY <1>1, <1>2 DEF ConnBecomes

LEMMA TakeEffect ==
  ASSUME TypeOK, NEW g \in Conns, conns[g].confirms # <<>>,
         conns' = [Released(g) EXCEPT ![g].confirms = Tail(@)]
  PROVE  ConnBecomes(g, conns[g].open, Nobody, conns[g].inflight, Tail(conns[g].confirms))
<1>1. conns \in [Conns -> Connections] /\ conns[g] \in Connections
  BY TypeParts
<1> DEFINE new == [conns[g] EXCEPT !.holder = Nobody, !.confirms = Tail(conns[g].confirms)]
<1>2. Tail(conns[g].confirms) \in Seq(Confirmations)
  BY <1>1, HeadTailProperties DEF Connections
<1>3. /\ new \in Connections /\ new.open = conns[g].open /\ new.holder = Nobody
      /\ new.inflight = conns[g].inflight /\ new.confirms = Tail(conns[g].confirms)
  BY <1>1, <1>2 DEF Connections
<1>4. conns' = [conns EXCEPT ![g] = new]
  BY <1>1 DEF Released, Connections
<1> QED BY <1>1, <1>3, <1>4 DEF ConnBecomes

LEMMA PublishEffect ==
  ASSUME TypeOK, NEW p \in Publishers, NEW g \in Conns,
         conns' = [conns EXCEPT ![g].inflight = Append(@, p)]
  PROVE  ConnBecomes(g, conns[g].open, conns[g].holder, Append(conns[g].inflight, p),
                     conns[g].confirms)
<1>1. conns \in [Conns -> Connections] /\ conns[g] \in Connections
  BY TypeParts
<1> DEFINE new == [conns[g] EXCEPT !.inflight = Append(conns[g].inflight, p)]
<1>2. Append(conns[g].inflight, p) \in Seq(Publishers)
  BY <1>1, AppendProperties DEF Connections
<1>3. /\ new \in Connections /\ new.open = conns[g].open /\ new.holder = conns[g].holder
      /\ new.inflight = Append(conns[g].inflight, p) /\ new.confirms = conns[g].confirms
  BY <1>1, <1>2 DEF Connections
<1>4. conns' = [conns EXCEPT ![g] = new]
  BY <1>1 DEF Connections
<1> QED BY <1>1, <1>3, <1>4 DEF ConnBecomes

LEMMA CloseEffect ==
  ASSUME TypeOK, NEW g \in Conns, conns' = Closed(g)
  PROVE  ConnBecomes(g, FALSE, conns[g].holder, <<>>, conns[g].confirms)
<1>1. conns \in [Conns -> Connections] /\ conns[g] \in Connections
  BY TypeParts
<1> DEFINE new == [conns[g] EXCEPT !.open = FALSE, !.inflight = <<>>]
<1>2. \A b \in BOOLEAN : [conns[g] EXCEPT !.open = b, !.inflight = <<>>] \in Connections
  BY <1>1, EmptySeq DEF Connections
<1>3. new \in Connections
  BY <1>2, Zenon
<1>4. /\ new.open = FALSE /\ new.holder = conns[g].holder
      /\ new.inflight = <<>> /\ new.confirms = conns[g].confirms
  BY <1>1 DEF Connections
<1>5. conns' = [conns EXCEPT ![g] = new]
  BY <1>1 DEF Closed, Connections
<1> QED BY <1>1, <1>3, <1>4, <1>5 DEF ConnBecomes

LEMMA FreshType == Fresh \in Connections
<1>1. \A b \in BOOLEAN :
        [open |-> b, holder |-> Nobody, inflight |-> <<>>, confirms |-> <<>>] \in Connections
  BY EmptySeq DEF Connections
<1> QED BY <1>1, Zenon DEF Fresh

LEMMA DialEffect ==
  ASSUME TypeOK, Dial
  PROVE  /\ Unused \in Conns /\ Unused # current /\ Referrers(Unused) = {}
         /\ current' = Unused /\ writer' = Nobody
         /\ ConnBecomes(Unused, TRUE, Nobody, <<>>, <<>>)
<1>1. conns \in [Conns -> Connections]
  BY TypeParts
<1>2. Unused \in Conns /\ Unused # current /\ Referrers(Unused) = {}
  BY UnusedExists
<1>3. conns' = [conns EXCEPT ![Unused] = Fresh] /\ current' = Unused /\ writer' = Nobody
  BY DEF Dial
<1> DEFINE g == Unused
<1> HIDE DEF g
<1>4. ConnBecomes(g, TRUE, Nobody, <<>>, <<>>)
  <2>1. Fresh.open = TRUE /\ Fresh.holder = Nobody /\ Fresh.inflight = <<>> /\ Fresh.confirms = <<>>
    BY DEF Fresh
  <2> QED BY <1>1, <1>2, <1>3, <2>1, FreshType DEF g, ConnBecomes
<1> QED BY <1>2, <1>3, <1>4 DEF g

LEMMA ConfirmEffect ==
  ASSUME TypeOK, NEW g \in Conns, NEW ack \in BOOLEAN, BrokerConfirms(g, ack)
  PROVE  LET msg == Head(conns[g].inflight)
         IN  /\ msg \in Publishers /\ [msg |-> msg, ack |-> ack] \in Confirmations
             /\ ConnBecomes(g, conns[g].open, conns[g].holder, Tail(conns[g].inflight),
                            Append(conns[g].confirms, [msg |-> msg, ack |-> ack]))
<1> DEFINE msg == Head(conns[g].inflight)
           conf == [msg |-> msg, ack |-> ack]
           new == [conns[g] EXCEPT !.inflight = Tail(conns[g].inflight),
                                   !.confirms = Append(conns[g].confirms, conf)]
<1>1. conns \in [Conns -> Connections] /\ conns[g] \in Connections
  BY TypeParts
<1>2. /\ msg \in Publishers /\ Tail(conns[g].inflight) \in Seq(Publishers)
  BY <1>1, HeadTailProperties DEF Connections, BrokerConfirms
<1>3. conf \in Confirmations
  BY <1>2, Zenon DEF Confirmations
<1> HIDE DEF conf
<1>4. Append(conns[g].confirms, conf) \in Seq(Confirmations)
  BY <1>1, <1>3, AppendProperties DEF Connections
<1>5. /\ new \in Connections /\ new.open = conns[g].open /\ new.holder = conns[g].holder
      /\ new.inflight = Tail(conns[g].inflight) /\ new.confirms = Append(conns[g].confirms, conf)
  BY <1>1, <1>2, <1>4 DEF Connections
<1>6. conns' = [conns EXCEPT ![g] = new]
  BY <1>1 DEF BrokerConfirms, Connections, conf
<1> HIDE DEF new
<1>7. ConnBecomes(g, conns[g].open, conns[g].holder, Tail(conns[g].inflight),
                  Append(conns[g].confirms, conf))
  BY <1>1, <1>5, <1>6 DEF ConnBecomes
<1> QED BY <1>2, <1>3, <1>7 DEF conf

-------------------------------------------------------------------------------
(* Every kind of step preserves the invariant                                *)

LEMMA TypePartsNext ==
  TypeOK' <=> /\ current' \in Conns
              /\ writer' \in Publishers \cup Consumers \cup {Nobody}
              /\ conns' \in [Conns -> Connections]
              /\ pub' \in [Publishers -> PublisherStates]
              /\ cons' \in [Consumers -> ConsumerStates]
              /\ stored' \subseteq Publishers
              /\ failures' \in 0 .. MaxFailures /\ timeouts' \in 0 .. MaxTimeouts
BY DEF TypeOK, Connections, PublisherStates, PublisherPCs, ConsumerStates

LEMMA Nobodies ==
  /\ \A p \in Publishers : p # Nobody
  /\ \A c \in Consumers : c # Nobody /\ c \notin Publishers
BY GoroutinesAssumption

\* A step of a publisher that neither holds nor takes a mutex.
LEMMA StepOutside ==
  ASSUME IInv, NEW p \in Publishers, NEW g \in Conns, NEW pc \in {"lock"},
         pub[p].pc \notin HoldsMutex, PubBecomes(p, pc, g),
         UNCHANGED <<current, writer, conns, cons, stored, failures, timeouts>>
  PROVE  IInv'
<1> USE DEF IInv, PubBecomes
<1>1. TypeOK'
  BY TypeParts, TypePartsNext
<1>2. References'
  BY DEF References, OnConnection
<1>3. MutexHeld'
  BY DEF MutexHeld, HoldsMutex
<1>4. ReconnectsAlone'
  BY DEF ReconnectsAlone
<1>5. ConfirmOutstanding'
  BY DEF ConfirmOutstanding
<1>6. AcksAreStored' /\ ClosedIsSilent'
  BY DEF AcksAreStored, ClosedIsSilent
<1>7. OneOutstanding'
  <2>1. \A h \in Conns, q \in Publishers :
           /\ Waits(q, h) => Waits(q, h)'
           /\ CarriesOnly(h, q) => CarriesOnly(h, q)'
           /\ Quiet(h) => Quiet(h)'
    BY DEF Waits, HoldsMutex, CarriesOnly, Quiet
  <2> QED BY <2>1 DEF OneOutstanding
<1>8. OkMeansStored'
  BY DEF OkMeansStored, Publishers
<1> QED BY <1>1, <1>2, <1>3, <1>4, <1>5, <1>6, <1>7, <1>8

\* A publisher takes the free mutex of its connection.
LEMMA StepAcquire ==
  ASSUME IInv, NEW p \in Publishers, NEW g \in Conns, NEW pc \in {"draining", "publish"},
         g = pub[p].conn, pub[p].pc = "lock", conns[g].holder = Nobody,
         PubBecomes(p, pc, g),
         NEW confirms \in {conns[g].confirms, <<>>},
         ConnBecomes(g, conns[g].open, p, conns[g].inflight, confirms),
         UNCHANGED <<current, writer, cons, stored, failures, timeouts>>
  PROVE  IInv'
<1> USE DEF IInv, PubBecomes, ConnBecomes
<1>0. \A q \in Publishers : pub[q].pc \in HoldsMutex => q # p /\ pub[q].conn # g
  BY Nobodies DEF MutexHeld, HoldsMutex
<1>1. TypeOK'
  BY TypeParts, TypePartsNext
<1>2. References'
  BY DEF References, OnConnection
<1>3. MutexHeld'
  BY <1>0 DEF MutexHeld, HoldsMutex, References, OnConnection
<1>4. ReconnectsAlone'
  BY DEF ReconnectsAlone
<1>5. ConfirmOutstanding'
  BY <1>0 DEF ConfirmOutstanding, HoldsMutex, References, OnConnection
<1>6. AcksAreStored' /\ ClosedIsSilent'
  BY DEF AcksAreStored, ClosedIsSilent
<1>7. OneOutstanding'
  <2>1. \A q \in Publishers : ~Waits(q, g)
    BY <1>0 DEF Waits, HoldsMutex
  <2>2. \A h \in Conns, q \in Publishers : h # g =>
           /\ Waits(q, h) => Waits(q, h)'
           /\ CarriesOnly(h, q) => CarriesOnly(h, q)'
           /\ Quiet(h) => Quiet(h)'
    BY DEF Waits, CarriesOnly, Quiet
  <2>3. Quiet(g) => Quiet(g)'
    BY DEF Quiet
  <2> QED BY <2>1, <2>2, <2>3 DEF OneOutstanding
<1>8. OkMeansStored'
  BY DEF OkMeansStored, Publishers
<1> QED BY <1>1, <1>2, <1>3, <1>4, <1>5, <1>6, <1>7, <1>8

\* The holder of the mutex publishes on an open connection and waits.
LEMMA StepPublish ==
  ASSUME IInv, NEW p \in Publishers, NEW g \in Conns,
         g = pub[p].conn, conns[g].open, pub[p].pc = "publish", PubBecomes(p, "wait", g),
         ConnBecomes(g, conns[g].open, conns[g].holder, Append(conns[g].inflight, p),
                     conns[g].confirms),
         UNCHANGED <<current, writer, cons, stored, failures, timeouts>>
  PROVE  IInv'
<1> USE DEF IInv, PubBecomes, ConnBecomes
<1>0. \A q \in Publishers : pub[q].pc \in HoldsMutex /\ q # p => pub[q].conn # g
  BY DEF MutexHeld, HoldsMutex
<1>1. TypeOK'
  BY TypeParts, TypePartsNext
<1>2. References'
  BY DEF References, OnConnection
<1>3. MutexHeld'
  BY <1>0 DEF MutexHeld, HoldsMutex, References, OnConnection
<1>4. ReconnectsAlone'
  BY DEF ReconnectsAlone
<1>5. ConfirmOutstanding'
  <2>1. p \in {conns'[g].inflight[k] : k \in DOMAIN conns'[g].inflight}
    <3>1. conns[g].inflight \in Seq(Publishers)
      BY TypeParts DEF Connections
    <3> DEFINE n == Len(conns[g].inflight) + 1
    <3>2. /\ Append(conns[g].inflight, p)[n] = p
          /\ n \in DOMAIN Append(conns[g].inflight, p)
      <4>1. Append(conns[g].inflight, p) \in Seq(Publishers)
        BY <3>1, AppendProperties
      <4>2. Len(Append(conns[g].inflight, p)) = n /\ Len(conns[g].inflight) \in Nat
        BY <3>1, AppendProperties, LenProperties
      <4> QED BY <3>1, <4>1, <4>2, AppendProperties, LenProperties
    <3> QED BY <3>2
  <2>2. pub'[p].conn = g
    BY DEF OnConnection
  <2>3. \A q \in Publishers :
           q # p /\ pub[q].pc = "wait" => conns'[pub[q].conn] = conns[pub[q].conn]
    BY <1>0 DEF HoldsMutex, References, OnConnection
  <2>4. ASSUME NEW q \in Publishers, q # p, pub'[q].pc = "wait", conns'[pub'[q].conn].open
        PROVE  q \in {conns'[pub'[q].conn].inflight[k] :
                         k \in DOMAIN conns'[pub'[q].conn].inflight} \cup
                     {conns'[pub'[q].conn].confirms[k].msg :
                         k \in DOMAIN conns'[pub'[q].conn].confirms}
    BY <2>3, <2>4 DEF ConfirmOutstanding
  <2> QED BY <2>1, <2>2, <2>4 DEF ConfirmOutstanding
<1>6. AcksAreStored' /\ ClosedIsSilent'
  BY DEF AcksAreStored, ClosedIsSilent
<1>7. OneOutstanding'
  <2>1. \A q \in Publishers : ~Waits(q, g)
    BY <1>0 DEF Waits, HoldsMutex
  <2>2. \A h \in Conns, q \in Publishers : h # g =>
           /\ Waits(q, h) => Waits(q, h)'
           /\ CarriesOnly(h, q) => CarriesOnly(h, q)'
           /\ Quiet(h) => Quiet(h)'
    BY DEF Waits, CarriesOnly, Quiet
  <2>3. Waits(p, g)'
    BY DEF Waits, OnConnection
  <2>4. Quiet(g) => CarriesOnly(g, p)'
    <3>1. Append(<<>>, p) = <<p>>
      OBVIOUS
    <3> QED BY <3>1 DEF Quiet, CarriesOnly
  <2> QED BY <2>1, <2>2, <2>3, <2>4 DEF OneOutstanding
<1>8. OkMeansStored'
  BY DEF OkMeansStored, Publishers
<1> QED BY <1>1, <1>2, <1>3, <1>4, <1>5, <1>6, <1>7, <1>8

\* The holder of the mutex gives it back, with a confirmation or without.
LEMMA StepRelease ==
  ASSUME IInv, NEW p \in Publishers, NEW g \in Conns,
         NEW pc \in {"lock", "reconnect", "ok", "error"},
         g = pub[p].conn, pub[p].pc \in HoldsMutex, PubBecomes(p, pc, g),
         NEW confirms \in Seq(Confirmations),
         \A k \in DOMAIN confirms :
           \E i \in DOMAIN conns[g].confirms : confirms[k] = conns[g].confirms[i],
         ConnBecomes(g, conns[g].open, Nobody, conns[g].inflight, confirms),
         timeouts' \in 0 .. MaxTimeouts, timeouts' = 0 => timeouts = 0 /\ Quiet(g)',
         pc = "ok" /\ p \in Reliable /\ timeouts' = 0 => p \in stored,
         UNCHANGED <<current, writer, cons, stored, failures>>
  PROVE  IInv'
<1> USE DEF IInv, PubBecomes, ConnBecomes
<1>0. \A q \in Publishers : pub[q].pc \in HoldsMutex /\ q # p => pub[q].conn # g
  BY DEF MutexHeld, HoldsMutex
<1>1. TypeOK'
  BY TypeParts, TypePartsNext
<1>2. References'
  BY DEF References, OnConnection
<1>3. MutexHeld'
  BY <1>0 DEF MutexHeld, HoldsMutex, References, OnConnection
<1>4. ReconnectsAlone'
  BY DEF ReconnectsAlone
<1>5. ConfirmOutstanding'
  <2>1. \A q \in Publishers :
           q # p /\ pub[q].pc = "wait" => conns'[pub[q].conn] = conns[pub[q].conn]
    BY <1>0 DEF HoldsMutex, References, OnConnection
  <2> QED BY <2>1 DEF ConfirmOutstanding
<1>6. AcksAreStored' /\ ClosedIsSilent'
  BY DEF AcksAreStored, ClosedIsSilent
<1>7. OneOutstanding'
  <2>1. \A h \in Conns, q \in Publishers : h # g =>
           /\ Waits(q, h) => Waits(q, h)'
           /\ CarriesOnly(h, q) => CarriesOnly(h, q)'
           /\ Quiet(h) => Quiet(h)'
    BY DEF Waits, CarriesOnly, Quiet
  <2> QED BY <2>1 DEF OneOutstanding
<1>8. OkMeansStored'
  BY DEF OkMeansStored, Publishers
<1> QED BY <1>1, <1>2, <1>3, <1>4, <1>5, <1>6, <1>7, <1>8

\* The publishers that hold a mutex, and those that succeeded, take no part in
\* a step of anybody else.
Bystanders ==
  \A q \in Publishers :
    \/ pub'[q] = pub[q]
    \/ pub[q].pc \notin HoldsMutex /\ pub'[q].pc \notin HoldsMutex \cup {"ok"}

\* A connection is closed, by the goroutine that reconnects or by the network.
LEMMA StepClose ==
  ASSUME IInv, NEW g \in Conns, TypeOK', References', ReconnectsAlone', Bystanders,
         ConnBecomes(g, FALSE, conns[g].holder, <<>>, conns[g].confirms),
         UNCHANGED <<stored, timeouts>>
  PROVE  IInv'
<1> USE DEF IInv, ConnBecomes
<1>1. \A q \in Publishers : /\ pub[q].pc \in HoldsMutex => pub'[q] = pub[q]
                            /\ pub'[q].pc \in HoldsMutex \cup {"ok"} => pub'[q] = pub[q]
  BY DEF Bystanders
<1>3. MutexHeld'
  BY <1>1 DEF MutexHeld, HoldsMutex, References, OnConnection
<1>5. ConfirmOutstanding'
  BY <1>1 DEF ConfirmOutstanding, HoldsMutex, References, OnConnection
<1>6. AcksAreStored' /\ ClosedIsSilent'
  BY DEF AcksAreStored, ClosedIsSilent
<1>7. OneOutstanding'
  <2>1. \A h \in Conns, q \in Publishers : Waits(q, h) => Waits(q, h)'
    BY <1>1 DEF Waits, HoldsMutex
  <2>2. \A h \in Conns : Quiet(h) => Quiet(h)'
    BY DEF Quiet
  <2>3. \A h \in Conns, q \in Publishers : CarriesOnly(h, q) => CarriesOnly(h, q)' \/ Quiet(h)'
    BY DEF CarriesOnly, Quiet
  <2> QED BY <2>1, <2>2, <2>3 DEF OneOutstanding
<1>8. OkMeansStored'
  BY <1>1 DEF OkMeansStored, Publishers
<1> QED BY <1>3, <1>5, <1>6, <1>7, <1>8

\* A connection nobody refers to is dialled anew.
LEMMA StepDial ==
  ASSUME IInv, NEW g \in Conns, Referrers(g) = {},
         TypeOK', References', ReconnectsAlone', Bystanders,
         ConnBecomes(g, TRUE, Nobody, <<>>, <<>>),
         UNCHANGED <<stored, timeouts>>
  PROVE  IInv'
<1> USE DEF IInv, ConnBecomes
<1>1. \A q \in Publishers : /\ pub[q].pc \in HoldsMutex => pub'[q] = pub[q]
                            /\ pub'[q].pc \in HoldsMutex \cup {"ok"} => pub'[q] = pub[q]
  BY DEF Bystanders
<1>2. \A q \in Publishers : pub[q].conn # g
  BY DEF Referrers
<1>3. MutexHeld'
  BY <1>1, <1>2 DEF MutexHeld, HoldsMutex, References, OnConnection
<1>5. ConfirmOutstanding'
  BY <1>1, <1>2 DEF ConfirmOutstanding, HoldsMutex, References, OnConnection
<1>6. AcksAreStored' /\ ClosedIsSilent'
  BY DEF AcksAreStored, ClosedIsSilent
<1>7. OneOutstanding'
  <2>1. \A h \in Conns, q \in Publishers : Waits(q, h) => Waits(q, h)'
    BY <1>1 DEF Waits, HoldsMutex
  <2>2. \A h \in Conns : Quiet(h) => Quiet(h)'
    BY DEF Quiet
  <2>3. \A h \in Conns, q \in Publishers : CarriesOnly(h, q) => CarriesOnly(h, q)' \/ Quiet(h)'
    BY DEF CarriesOnly, Quiet
  <2> QED BY <2>1, <2>2, <2>3 DEF OneOutstanding
<1>8. OkMeansStored'
  BY <1>1 DEF OkMeansStored, Publishers
<1> QED BY <1>3, <1>5, <1>6, <1>7, <1>8

\* A step that leaves the connections alone and moves only consumer loops.
LEMMA StepConsumer ==
  ASSUME IInv, TypeOK', References', ReconnectsAlone',
         UNCHANGED <<conns, pub, stored, timeouts>>
  PROVE  IInv'
<1> USE DEF IInv
<1>1. MutexHeld' /\ AcksAreStored' /\ ClosedIsSilent' /\ OkMeansStored'
  BY DEF MutexHeld, AcksAreStored, ClosedIsSilent, OkMeansStored
<1>2. ConfirmOutstanding'
  BY DEF ConfirmOutstanding
<1>3. OneOutstanding'
  BY DEF OneOutstanding, Waits, CarriesOnly, Quiet
<1> QED BY <1>1, <1>2, <1>3

\* The broker answers the first publish of a connection.
LEMMA StepBroker ==
  ASSUME IInv, NEW g \in Conns, NEW ack \in BOOLEAN, BrokerConfirms(g, ack)
  PROVE  IInv'
<1> DEFINE msg == Head(conns[g].inflight)
           conf == [msg |-> msg, ack |-> ack]
<1> USE DEF IInv
<1>0. /\ UNCHANGED <<current, writer, pub, cons, failures, timeouts>>
      /\ conns[g].inflight # <<>>
      /\ stored' = IF ack THEN stored \cup {msg} ELSE stored
  BY DEF BrokerConfirms
<1>1. /\ msg \in Publishers /\ conf \in Confirmations /\ conf.msg = msg /\ conf.ack = ack
      /\ ConnBecomes(g, conns[g].open, conns[g].holder, Tail(conns[g].inflight),
                     Append(conns[g].confirms, conf))
  BY ConfirmEffect
<1>2. conns[g].inflight \in Seq(Publishers) /\ conns[g].confirms \in Seq(Confirmations)
  BY TypeParts DEF Connections
<1> HIDE DEF conf
<1>3. /\ \A k \in DOMAIN conns[g].confirms : k \in DOMAIN conns'[g].confirms
           /\ conns'[g].confirms[k] = conns[g].confirms[k]
      /\ \E k \in DOMAIN conns'[g].confirms : conns'[g].confirms[k] = conf
      /\ \A k \in DOMAIN conns'[g].confirms :
           \/ conns'[g].confirms[k] = conf
           \/ \E i \in DOMAIN conns[g].confirms : conns'[g].confirms[k] = conns[g].confirms[i]
  <2> DEFINE n == Len(conns[g].confirms)
  <2>1. conns'[g].confirms = Append(conns[g].confirms, conf)
    BY <1>1 DEF ConnBecomes
  <2>2. /\ n \in Nat /\ DOMAIN conns[g].confirms = 1 .. n
        /\ DOMAIN conns'[g].confirms = 1 .. n + 1
    BY <1>1, <1>2, <2>1, AppendProperties, LenProperties
  <2>3. /\ conns'[g].confirms[n + 1] = conf
        /\ \A k \in 1 .. n : conns'[g].confirms[k] = conns[g].confirms[k]
    BY <1>1, <1>2, <2>1, AppendProperties
  <2> HIDE DEF n
  <2>4. n + 1 \in 1 .. n + 1 /\ \A k \in 1 .. n + 1 : k \in 1 .. n \/ k = n + 1
    BY <2>2
  <2>5. \A k \in 1 .. n : k \in 1 .. n + 1
    BY <2>2
  <2> QED BY <2>2, <2>3, <2>4, <2>5, Zenon
<1>4. \A k \in DOMAIN conns[g].inflight :
        \/ conns[g].inflight[k] = msg
        \/ \E i \in DOMAIN conns'[g].inflight : conns'[g].inflight[i] = conns[g].inflight[k]
  <2> DEFINE s == conns[g].inflight
  <2>1. conns'[g].inflight = Tail(s)
    BY <1>1 DEF ConnBecomes
  <2>2. /\ Len(s) \in Nat /\ DOMAIN s = 1 .. Len(s) /\ s[1] = msg
        /\ DOMAIN Tail(s) = 1 .. Len(s) - 1
        /\ \A i \in 1 .. Len(s) - 1 : Tail(s)[i] = s[i + 1]
    BY <1>0, <1>2, HeadTailProperties, LenProperties
  <2>3. \A k \in 2 .. Len(s) : k - 1 \in 1 .. Len(s) - 1 /\ (k - 1) + 1 = k
    BY <2>2
  <2>4. \A k \in 2 .. Len(s) : k - 1 \in DOMAIN Tail(s) /\ Tail(s)[k - 1] = s[k]
    BY <2>2, <2>3
  <2>5. \A k \in 1 .. Len(s) : k = 1 \/ k \in 2 .. Len(s)
    BY <2>2
  <2> HIDE DEF msg
  <2> QED BY <2>1, <2>2, <2>4, <2>5
<1>5. TypeOK'
  BY <1>0, <1>1, TypeParts, TypePartsNext DEF ConnBecomes
<1>6. References' /\ ReconnectsAlone'
  BY <1>0 DEF References, ReconnectsAlone
<1>7. MutexHeld'
  BY <1>0, <1>1 DEF MutexHeld, ConnBecomes, References, HoldsMutex, OnConnection
<1>8. ConfirmOutstanding'
  <2>1. \A h \in Conns : Unanswered(h) \cup Answered(h) \subseteq Unanswered(h)' \cup Answered(h)'
    <3>1. \A h \in Conns : h # g => conns'[h] = conns[h]
      BY <1>1 DEF ConnBecomes
    <3>2. Answered(g) \subseteq Answered(g)' /\ msg \in Answered(g)'
      BY <1>1, <1>3 DEF Answered
    <3>3. Unanswered(g) \subseteq Unanswered(g)' \cup {msg}
      BY <1>4 DEF Unanswered
    <3>4. \A h \in Conns : h # g => Answered(h)' = Answered(h) /\ Unanswered(h)' = Unanswered(h)
      BY <3>1 DEF Answered, Unanswered
    <3> QED BY <3>2, <3>3, <3>4
  <2>2. \A h \in Conns : conns'[h].open => conns[h].open
    BY <1>1 DEF ConnBecomes
  <2>3. ASSUME NEW p \in Publishers, NEW h \in Conns, Waits(p, h), conns'[h].open
        PROVE  p \in Unanswered(h)' \cup Answered(h)'
    <3>1. p \in Unanswered(h) \cup Answered(h)
      BY <2>2, <2>3 DEF ConfirmOutstanding, Answered, Unanswered, Waits
    <3> QED BY <2>1, <3>1
  <2>4. pub' = pub /\ \A p \in Publishers : pub[p].pc = "wait" => pub[p].conn \in Conns
    BY <1>0 DEF References, OnConnection
  <2> QED BY <2>3, <2>4 DEF ConfirmOutstanding, Answered, Unanswered, Waits
<1>9. AcksAreStored'
  <2>1. stored \subseteq stored' /\ (conf.ack => conf.msg \in stored')
    BY <1>0, <1>1
  <2>2. \A h \in Conns : h # g => conns'[h] = conns[h]
    BY <1>1 DEF ConnBecomes
  <2> QED BY <1>3, <2>1, <2>2 DEF AcksAreStored
<1>10. OneOutstanding'
  <2> SUFFICES ASSUME timeouts = 0, NEW h \in Conns
               PROVE  Quiet(h)' \/ \E p \in Publishers : Waits(p, h)' /\ CarriesOnly(h, p)'
    BY <1>0 DEF OneOutstanding
  <2>1. \A p \in Publishers : Waits(p, h) => Waits(p, h)'
    BY <1>0 DEF Waits
  <2>2. CASE h # g
    BY <1>1, <2>1, <2>2 DEF OneOutstanding, ConnBecomes, Quiet, CarriesOnly
  <2>3. CASE h = g
    <3>1. PICK p \in Publishers :
            Waits(p, g) /\ conns[g].inflight = <<p>> /\ conns[g].confirms = <<>>
      BY <1>0, <2>3 DEF OneOutstanding, Quiet, CarriesOnly
    <3>2. msg = p /\ Tail(conns[g].inflight) = <<>>
      BY <3>1
    <3>3. conns'[g].inflight = <<>> /\ conns'[g].confirms = <<conf>>
      BY <1>1, <3>1, <3>2 DEF ConnBecomes
    <3>4. \E a \in BOOLEAN : conns'[g].confirms = <<[msg |-> p, ack |-> a]>>
      BY <3>2, <3>3 DEF conf
    <3> QED BY <2>1, <2>3, <3>1, <3>3, <3>4 DEF CarriesOnly
  <2> QED BY <2>2, <2>3
<1>11. OkMeansStored'
  BY <1>0 DEF OkMeansStored
<1>12. ClosedIsSilent'
  BY <1>1 DEF ClosedIsSilent, ConnBecomes, BrokerConfirms
<1> QED BY <1>5, <1>6, <1>7, <1>8, <1>9, <1>10, <1>11, <1>12

-------------------------------------------------------------------------------
(* The steps of the specification                                            *)

LEMMA InitIInv == Init => IInv
<1> SUFFICES ASSUME Init PROVE IInv
  OBVIOUS
<1> USE DEF Init
<1>1. TypeOK
  <2>1. current \in Conns
    <3>1. Conns # {}
      <4>1. Cardinality({}) = 0 /\ Cardinality(Publishers \cup Consumers) \in Nat
        BY FS_EmptySet, FS_CardinalityType, ConnsAssumption
      <4>2. ASSUME Conns = {} PROVE FALSE
        BY <4>1, <4>2, ConnsAssumption
      <4> QED BY <4>2
    <3> QED BY <3>1
  <2>2. conns \in [Conns -> Connections]
    BY FreshType
  <2>3. pub \in [Publishers -> PublisherStates]
    BY BoundAssumption DEF PublisherStates, PublisherPCs
  <2>4. cons \in [Consumers -> ConsumerStates]
    BY DEF ConsumerStates
  <2>5. failures \in 0 .. MaxFailures /\ timeouts \in 0 .. MaxTimeouts
    BY BoundAssumption
  <2> QED BY <2>1, <2>2, <2>3, <2>4, <2>5, TypeParts
<1>2. References /\ MutexHeld /\ ReconnectsAlone /\ ConfirmOutstanding /\ OkMeansStored
  BY DEF References, MutexHeld, ReconnectsAlone, ConfirmOutstanding, OkMeansStored,
         OnConnection, HoldsMutex, Publishers
<1>3. \A g \in Conns : conns[g].inflight = <<>> /\ conns[g].confirms = <<>>
  BY DEF Fresh
<1>4. AcksAreStored /\ ClosedIsSilent
  BY <1>3 DEF AcksAreStored, ClosedIsSilent
<1>5. OneOutstanding
  BY <1>3 DEF OneOutstanding, Quiet
<1> QED BY <1>1, <1>2, <1>4, <1>5 DEF IInv

\* The update of one publisher, as the step lemmas name it.
LEMMA PubUpdate ==
  ASSUME TypeOK, NEW p \in Publishers, NEW g \in Conns, NEW new \in PublisherStates,
         pub' = [pub EXCEPT ![p] = new], new.pc \in OnConnection => new.conn = g
  PROVE  PubBecomes(p, new.pc, g)
BY TypeParts DEF PubBecomes

\* A step that only moves the program counter of a publisher.
LEMMA PubMoves ==
  ASSUME TypeOK, NEW p \in Publishers, NEW g \in Conns, NEW pc \in PublisherPCs,
         pub' = [pub EXCEPT ![p].pc = pc], pub[p].conn = g
  PROVE  PubBecomes(p, pc, g)
<1> DEFINE new == [pub[p] EXCEPT !.pc = pc]
<1>1. pub[p] \in PublisherStates
  BY TypeParts
<1>2. new \in PublisherStates /\ new.pc = pc /\ new.conn = g
  BY <1>1 DEF PublisherStates
<1>3. pub' = [pub EXCEPT ![p] = new]
  OBVIOUS
<1> HIDE DEF new
<1> QED BY <1>2, <1>3, PubUpdate

LEMMA PCs ==
  /\ OnConnection \subseteq PublisherPCs /\ HoldsMutex \subseteq OnConnection
  /\ {"draining", "publish", "wait"} = HoldsMutex
BY DEF OnConnection, PublisherPCs, HoldsMutex

LEMMA StepSnapshot ==
  ASSUME IInv, NEW p \in Publishers, ConnSnapshot(p)
  PROVE  IInv'
<1> DEFINE new == [pub[p] EXCEPT !.pc = "lock", !.conn = current]
<1>1. TypeOK /\ current \in Conns /\ pub[p] \in PublisherStates
  BY TypeParts DEF IInv
<1>2. new \in PublisherStates /\ new.pc = "lock" /\ new.conn = current
  BY <1>1 DEF PublisherStates, PublisherPCs
<1>3. pub' = [pub EXCEPT ![p] = new]
  BY DEF ConnSnapshot
<1> HIDE DEF new
<1>4. PubBecomes(p, "lock", current)
  BY <1>1, <1>2, <1>3, PubUpdate
<1>5. /\ pub[p].pc \notin HoldsMutex
      /\ UNCHANGED <<current, writer, conns, cons, stored, failures, timeouts>>
  BY DEF ConnSnapshot, HoldsMutex
<1> QED BY <1>1, <1>4, <1>5, StepOutside

LEMMA StepSkip ==
  ASSUME IInv, NEW p \in Publishers, SkipReconnect(p)
  PROVE  IInv'
<1> DEFINE new == [pc |-> "lock", conn |-> current, attempt |-> 1, round |-> 2]
<1>1. TypeOK /\ current \in Conns
  BY TypeParts DEF IInv
<1>2. new \in PublisherStates /\ new.pc = "lock" /\ new.conn = current
  BY <1>1, BoundAssumption DEF PublisherStates, PublisherPCs
<1>3. pub' = [pub EXCEPT ![p] = new]
  BY DEF SkipReconnect, SecondRound
<1> HIDE DEF new
<1>4. PubBecomes(p, "lock", current)
  BY <1>1, <1>2, <1>3, PubUpdate
<1>5. /\ pub[p].pc \notin HoldsMutex
      /\ UNCHANGED <<current, writer, conns, cons, stored, failures, timeouts>>
  BY DEF SkipReconnect, HoldsMutex
<1> QED BY <1>1, <1>4, <1>5, StepOutside

LEMMA StepLock ==
  ASSUME IInv, NEW p \in Publishers, AcquireReliable(p) \/ AcquirePlain(p)
  PROVE  IInv'
<1> DEFINE g == pub[p].conn
<1>1. TypeOK /\ g \in Conns
  BY DEF IInv, References, OnConnection, AcquireReliable, AcquirePlain
<1>2. /\ pub[p].pc = "lock" /\ conns[g].holder = Nobody
      /\ UNCHANGED <<current, writer, cons, stored, failures, timeouts>>
  BY DEF AcquireReliable, AcquirePlain
<1>3. "draining" \in PublisherPCs /\ "publish" \in PublisherPCs
  BY DEF PublisherPCs
<1>4. CASE AcquireReliable(p)
  <2>1. Drain(p, g) /\ pub' = [pub EXCEPT ![p].pc = IF conns[g].open THEN "publish" ELSE "draining"]
    BY <1>4 DEF AcquireReliable
  <2>2. ConnBecomes(g, conns[g].open, p, conns[g].inflight,
                    IF conns[g].open THEN <<>> ELSE conns[g].confirms)
    BY <1>1, <2>1, DrainEffect
  <2>3. CASE conns[g].open
    <3>1. pub' = [pub EXCEPT ![p].pc = "publish"]
      BY <2>1, <2>3
    <3>2. PubBecomes(p, "publish", g)
      BY <1>1, <1>3, <3>1, PubMoves
    <3>3. ConnBecomes(g, conns[g].open, p, conns[g].inflight, <<>>)
      BY <2>2, <2>3
    <3> QED BY <1>1, <1>2, <3>2, <3>3, StepAcquire
  <2>4. CASE ~conns[g].open
    <3>1. pub' = [pub EXCEPT ![p].pc = "draining"]
      BY <2>1, <2>4
    <3>2. PubBecomes(p, "draining", g)
      BY <1>1, <1>3, <3>1, PubMoves
    <3>3. ConnBecomes(g, conns[g].open, p, conns[g].inflight, conns[g].confirms)
      BY <2>2, <2>4
    <3> QED BY <1>1, <1>2, <3>2, <3>3, StepAcquire
  <2> QED BY <2>3, <2>4
<1>5. CASE AcquirePlain(p)
  <2>1. PubBecomes(p, "publish", g)
    BY <1>1, <1>3, <1>5, PubMoves DEF AcquirePlain
  <2>2. ConnBecomes(g, conns[g].open, p, conns[g].inflight, conns[g].confirms)
    BY <1>1, <1>5, HolderEffect DEF AcquirePlain
  <2> QED BY <1>1, <1>2, <2>1, <2>2, StepAcquire
<1> QED BY <1>4, <1>5

LEMMA StepPublishes ==
  ASSUME IInv, NEW p \in Publishers, Publish(p)
  PROVE  IInv'
<1> DEFINE g == pub[p].conn
<1>1. TypeOK /\ g \in Conns
  BY DEF IInv, References, OnConnection, Publish
<1>2. PubBecomes(p, "wait", g)
  BY <1>1, PubMoves DEF Publish, PublisherPCs
<1>3. ConnBecomes(g, conns[g].open, conns[g].holder,
                  Append(conns[g].inflight, p), conns[g].confirms)
  BY <1>1, PublishEffect DEF Publish
<1>4. /\ pub[p].pc = "publish" /\ conns[g].open
      /\ UNCHANGED <<current, writer, cons, stored, failures, timeouts>>
  BY DEF Publish
<1> QED BY <1>1, <1>2, <1>3, <1>4, StepPublish

\* A failed attempt and a success both give the mutex back.
LEMMA AttemptEnds ==
  ASSUME IInv, NEW p \in Publishers, pub[p].conn \in Conns,
         NEW new \in {NextAttempt(p), Succeeded(p)}, pub' = new
  PROVE  /\ PubBecomes(p, pub'[p].pc, pub[p].conn)
         /\ pub'[p].pc \in {"lock", "reconnect", "ok", "error"}
         /\ new = NextAttempt(p) => pub'[p].pc # "ok"
BY AttemptOver DEF IInv, PubBecomes, OnConnection

\* Nobody else waits on the connection whose mutex is held.
LEMMA NobodyElseWaits ==
  ASSUME IInv, NEW p \in Publishers, pub[p].pc \in HoldsMutex
  PROVE  \A q \in Publishers : Waits(q, pub[p].conn) => q = p
BY DEF IInv, MutexHeld, HoldsMutex, Waits

LEMMA StepPublishFails ==
  ASSUME IInv, NEW p \in Publishers, PublishFails(p)
  PROVE  IInv'
<1>0. PICK g \in Conns : g = pub[p].conn
  BY DEF IInv, References, OnConnection, PublishFails
<1>1. TypeOK /\ g \in Conns /\ pub[p].pc \in HoldsMutex
  BY <1>0 DEF IInv, References, OnConnection, HoldsMutex, PublishFails
<1>2. /\ ConnBecomes(g, conns[g].open, Nobody, conns[g].inflight, conns[g].confirms)
      /\ conns[g].confirms \in Seq(Confirmations)
  <2>1. conns' = [conns EXCEPT ![g].holder = Nobody]
    BY <1>0 DEF PublishFails, Unlock, Released
  <2> QED BY <1>0, <1>1, <2>1, HolderEffect, TypeParts DEF Connections
<1>3. /\ PubBecomes(p, pub'[p].pc, g) /\ pub'[p].pc \in {"lock", "reconnect", "ok", "error"}
      /\ pub'[p].pc # "ok"
  BY <1>0, <1>1, AttemptEnds DEF PublishFails
<1>4. timeouts = 0 => Quiet(g)'
  <2>1. \A q \in Publishers : ~Waits(q, g)
    BY <1>0, <1>1, NobodyElseWaits DEF Waits, PublishFails
  <2> QED BY <1>0, <1>1, <1>2, <2>1 DEF IInv, OneOutstanding, Quiet, ConnBecomes
<1>5. /\ timeouts' \in 0 .. MaxTimeouts /\ timeouts' = timeouts
      /\ UNCHANGED <<current, writer, cons, stored, failures>>
  BY <1>0, <1>1, TypeParts DEF PublishFails
<1> DEFINE pc == pub'[p].pc
<1> HIDE DEF pc
<1> QED BY <1>0, <1>1, <1>2, <1>3, <1>4, <1>5, StepRelease DEF pc

LEMMA StepTakeConfirm ==
  ASSUME IInv, NEW p \in Publishers, TakeConfirm(p)
  PROVE  IInv'
<1>0. PICK g \in Conns : g = pub[p].conn
  BY DEF IInv, References, OnConnection, TakeConfirm
<1> DEFINE confirms == conns[g].confirms
<1>1. /\ TypeOK /\ g \in Conns /\ pub[p].pc \in HoldsMutex /\ Waits(p, g) /\ confirms # <<>>
      /\ UNCHANGED <<current, writer, cons, stored, failures, timeouts>>
  BY <1>0 DEF IInv, References, OnConnection, HoldsMutex, TakeConfirm, Waits
<1>2. ConnBecomes(g, conns[g].open, Nobody, conns[g].inflight, Tail(confirms))
  BY <1>0, <1>1, TakeEffect DEF TakeConfirm
<1>3. confirms \in Seq(Confirmations)
  BY <1>0, <1>1, TypeParts DEF Connections
<1>4. /\ Tail(confirms) \in Seq(Confirmations)
      /\ \A k \in DOMAIN Tail(confirms) : \E i \in DOMAIN confirms : Tail(confirms)[k] = confirms[i]
      /\ Head(confirms) = confirms[1] /\ 1 \in DOMAIN confirms
  <2>1. /\ Tail(confirms) \in Seq(Confirmations) /\ Len(confirms) \in Nat
        /\ DOMAIN confirms = 1 .. Len(confirms) /\ DOMAIN Tail(confirms) = 1 .. Len(confirms) - 1
        /\ \A k \in 1 .. Len(confirms) - 1 : Tail(confirms)[k] = confirms[k + 1]
    BY <1>0, <1>1, <1>3, HeadTailProperties, LenProperties
  <2>2. \A k \in 1 .. Len(confirms) - 1 : k + 1 \in 1 .. Len(confirms)
    BY <2>1
  <2>3. 1 \in 1 .. Len(confirms) /\ Head(confirms) = confirms[1]
    BY <1>0, <1>1, <1>3, <2>1, EmptySeq
  <2> QED BY <2>1, <2>2, <2>3
<1>5. pub' \in {NextAttempt(p), Succeeded(p)}
  BY DEF TakeConfirm, AfterConfirm
<1>6. PubBecomes(p, pub'[p].pc, g) /\ pub'[p].pc \in {"lock", "reconnect", "ok", "error"}
  BY <1>0, <1>1, <1>5, AttemptEnds
<1>7. timeouts = 0 => CarriesOnly(g, p) /\ conns[g].inflight = <<>>
  BY <1>0, <1>1, NobodyElseWaits DEF IInv, OneOutstanding, Quiet, CarriesOnly
<1>8. timeouts = 0 => Quiet(g)' /\ Head(confirms).msg = p
  <2> SUFFICES ASSUME timeouts = 0 PROVE Quiet(g)' /\ Head(confirms).msg = p
    OBVIOUS
  <2>1. PICK ack \in BOOLEAN : confirms = <<[msg |-> p, ack |-> ack]>>
    BY <1>0, <1>1, <1>7 DEF CarriesOnly
  <2>2. Tail(confirms) = <<>> /\ Head(confirms).msg = p
    BY <2>1
  <2> QED BY <1>2, <1>7, <2>2 DEF Quiet, ConnBecomes
<1>9. pub'[p].pc = "ok" /\ p \in Reliable /\ timeouts = 0 => p \in stored
  <2> SUFFICES ASSUME pub'[p].pc = "ok", p \in Reliable, timeouts = 0 PROVE p \in stored
    OBVIOUS
  <2>1. Head(confirms).ack
    <3>1. p \notin Plain /\ pub' = AfterConfirm(p, Head(confirms).ack)
      BY <1>0, GoroutinesAssumption DEF TakeConfirm
    <3>2. pub' # NextAttempt(p)
      BY <1>0, <1>1, AttemptEnds
    <3> QED BY <3>1, <3>2 DEF AfterConfirm
  <2> QED BY <1>0, <1>1, <1>4, <1>8, <2>1 DEF IInv, AcksAreStored
<1>10. timeouts' \in 0 .. MaxTimeouts
  BY <1>0, <1>1, TypeParts
<1> DEFINE pc == pub'[p].pc
           rest == Tail(confirms)
<1>11. /\ rest \in Seq(Confirmations)
       /\ \A k \in DOMAIN rest : \E i \in DOMAIN conns[g].confirms : rest[k] = conns[g].confirms[i]
       /\ ConnBecomes(g, conns[g].open, Nobody, conns[g].inflight, rest)
  BY <1>2, <1>4
<1>12. timeouts' = 0 => timeouts = 0 /\ Quiet(g)'
  BY <1>1, <1>8
<1>13. pc = "ok" /\ p \in Reliable /\ timeouts' = 0 => p \in stored
  BY <1>1, <1>9
<1> HIDE DEF pc, rest, confirms
<1> QED BY <1>0, <1>1, <1>6, <1>10, <1>11, <1>12, <1>13, StepRelease DEF pc

LEMMA StepChannelClosed ==
  ASSUME IInv, NEW p \in Publishers, ChannelClosed(p)
  PROVE  IInv'
<1>0. PICK g \in Conns : g = pub[p].conn
  BY DEF IInv, References, OnConnection, ChannelClosed
<1>1. TypeOK /\ g \in Conns /\ pub[p].pc \in HoldsMutex
  BY <1>0 DEF IInv, References, OnConnection, HoldsMutex, ChannelClosed
<1>2. /\ ConnBecomes(g, conns[g].open, Nobody, conns[g].inflight, conns[g].confirms)
      /\ conns[g].confirms \in Seq(Confirmations)
  <2>1. conns' = [conns EXCEPT ![g].holder = Nobody]
    BY <1>0 DEF ChannelClosed, Unlock, Released
  <2> QED BY <1>0, <1>1, <2>1, HolderEffect, TypeParts DEF Connections
<1>3. pub' \in {NextAttempt(p), Succeeded(p)} /\ (p \in Reliable => pub' = NextAttempt(p))
  BY GoroutinesAssumption DEF ChannelClosed, AfterConfirm
<1>4. /\ PubBecomes(p, pub'[p].pc, g) /\ pub'[p].pc \in {"lock", "reconnect", "ok", "error"}
      /\ p \in Reliable => pub'[p].pc # "ok"
  BY <1>0, <1>1, <1>3, AttemptEnds
<1>5. Quiet(g)'
  BY <1>0, <1>1, <1>2 DEF IInv, ClosedIsSilent, ChannelClosed, Quiet, ConnBecomes
<1>6. /\ timeouts' \in 0 .. MaxTimeouts /\ timeouts' = timeouts
      /\ UNCHANGED <<current, writer, cons, stored, failures>>
  BY <1>0, <1>1, TypeParts DEF ChannelClosed
<1> DEFINE pc == pub'[p].pc
<1> HIDE DEF pc
<1> QED BY <1>0, <1>1, <1>2, <1>4, <1>5, <1>6, StepRelease DEF pc

LEMMA StepTimeout ==
  ASSUME IInv, NEW p \in Publishers, Timeout(p)
  PROVE  IInv'
<1>0. PICK g \in Conns : g = pub[p].conn
  BY DEF IInv, References, OnConnection, Timeout
<1>1. TypeOK /\ g \in Conns /\ pub[p].pc \in HoldsMutex
  BY <1>0 DEF IInv, References, OnConnection, HoldsMutex, Timeout
<1>2. /\ ConnBecomes(g, conns[g].open, Nobody, conns[g].inflight, conns[g].confirms)
      /\ conns[g].confirms \in Seq(Confirmations)
  <2>1. conns' = [conns EXCEPT ![g].holder = Nobody]
    BY <1>0 DEF Timeout, Unlock, Released
  <2> QED BY <1>0, <1>1, <2>1, HolderEffect, TypeParts DEF Connections
<1>3. PubBecomes(p, pub'[p].pc, g) /\ pub'[p].pc \in {"lock", "reconnect", "ok", "error"}
  BY <1>0, <1>1, AttemptEnds DEF Timeout
<1>4. /\ timeouts' \in 0 .. MaxTimeouts /\ timeouts' # 0
      /\ UNCHANGED <<current, writer, cons, stored, failures>>
  BY <1>0, <1>1, TypeParts, BoundAssumption DEF Timeout
<1> DEFINE pc == pub'[p].pc
<1> HIDE DEF pc
<1> QED BY <1>0, <1>1, <1>2, <1>3, <1>4, StepRelease DEF pc

\* Closing the current connection keeps the invariant, whoever does it.
LEMMA StepReconnect ==
  ASSUME IInv, NEW p \in Publishers, ReconnectIfStale(p)
  PROVE  IInv'
<1>1. TypeOK /\ current \in Conns
  BY TypeParts DEF IInv
<1>2. /\ pub[p].pc = "reconnect" /\ pub[p].conn = current /\ writer = Nobody /\ writer' = p
      /\ conns' = Closed(current)
      /\ UNCHANGED <<current, cons, stored, failures, timeouts>>
  BY DEF ReconnectIfStale, ReconnectLocked
<1>3. PubBecomes(p, "dialling", current)
  BY <1>1, <1>2, PubMoves DEF ReconnectIfStale, PublisherPCs
<1>4. ConnBecomes(current, FALSE, conns[current].holder, <<>>, conns[current].confirms)
  BY <1>1, <1>2, CloseEffect
<1>5. TypeOK'
  BY <1>1, <1>2, <1>3, <1>4, TypeParts, TypePartsNext DEF PubBecomes, ConnBecomes
<1>6. References'
  BY <1>1, <1>2, <1>3 DEF IInv, References, OnConnection, PubBecomes
<1>7. ReconnectsAlone'
  BY <1>2, <1>3, Nobodies DEF IInv, ReconnectsAlone, PubBecomes
<1>8. Bystanders
  BY <1>2, <1>3 DEF Bystanders, PubBecomes, HoldsMutex
<1> QED BY <1>1, <1>2, <1>4, <1>5, <1>6, <1>7, <1>8, StepClose

LEMMA StepPublisherDials ==
  ASSUME IInv, NEW p \in Publishers, PublisherDials(p)
  PROVE  IInv'
<1> DEFINE g == Unused
           new == [pc |-> "lock", conn |-> g, attempt |-> 1, round |-> 2]
<1>1. TypeOK /\ writer = p /\ pub[p].pc = "dialling"
  BY DEF IInv, ReconnectsAlone, PublisherDials
<1>2. /\ g \in Conns /\ Referrers(g) = {} /\ current' = g /\ writer' = Nobody
      /\ ConnBecomes(g, TRUE, Nobody, <<>>, <<>>)
  BY <1>1, DialEffect DEF PublisherDials
<1>3. UNCHANGED <<cons, stored, failures, timeouts>> /\ pub' = [pub EXCEPT ![p] = new]
  BY DEF PublisherDials, SecondRound
<1>4. g \in Conns
  BY <1>2
<1> HIDE DEF g
<1>5. new \in PublisherStates /\ new.pc = "lock" /\ new.conn = g
  BY <1>2, BoundAssumption DEF PublisherStates, PublisherPCs
<1> HIDE DEF new
<1>6. PubBecomes(p, "lock", g)
  BY <1>1, <1>3, <1>4, <1>5, PubUpdate
<1>7. TypeOK'
  BY <1>1, <1>2, <1>3, <1>6, TypeParts, TypePartsNext DEF PubBecomes, ConnBecomes
<1>8. References'
  BY <1>2, <1>3, <1>6 DEF IInv, References, OnConnection, PubBecomes
<1>9. ReconnectsAlone'
  BY <1>1, <1>2, <1>3, <1>6, Nobodies DEF IInv, ReconnectsAlone, PubBecomes
<1>10. Bystanders
  BY <1>1, <1>6 DEF Bystanders, PubBecomes, HoldsMutex
<1> QED BY <1>2, <1>3, <1>7, <1>8, <1>9, <1>10, StepDial

\* One consumer loop moves to a state of its type.
LEMMA ConsUpdate ==
  ASSUME TypeOK, NEW c \in Consumers, NEW new \in ConsumerStates, cons' = [cons EXCEPT ![c] = new]
  PROVE  /\ cons' \in [Consumers -> ConsumerStates]
         /\ cons'[c] = new
         /\ \A d \in Consumers : d # c => cons'[d] = cons[d]
BY TypeParts

LEMMA ConsMoves ==
  ASSUME TypeOK, NEW c \in Consumers,
         NEW pc \in {"register", "consuming", "reconnect", "dialling"},
         cons' = [cons EXCEPT ![c].pc = pc]
  PROVE  /\ cons' \in [Consumers -> ConsumerStates]
         /\ cons'[c].pc = pc /\ cons'[c].conn = cons[c].conn
         /\ \A d \in Consumers : d # c => cons'[d] = cons[d]
<1> DEFINE new == [cons[c] EXCEPT !.pc = pc]
<1>1. cons[c] \in ConsumerStates
  BY TypeParts
<1>2. new \in ConsumerStates /\ new.pc = pc /\ new.conn = cons[c].conn
  BY <1>1 DEF ConsumerStates
<1>3. cons' = [cons EXCEPT ![c] = new]
  OBVIOUS
<1> HIDE DEF new
<1> QED BY <1>2, <1>3, ConsUpdate

LEMMA StepConsumes ==
  ASSUME IInv, NEW c \in Consumers, GetChannel(c) \/ Consume(c) \/ DeliveriesClosed(c)
  PROVE  IInv'
<1>1. TypeOK /\ current \in Conns
  BY TypeParts DEF IInv
<1>2. UNCHANGED <<current, writer, conns, pub, stored, failures, timeouts>>
  BY DEF GetChannel, Consume, DeliveriesClosed
<1>3. /\ cons' \in [Consumers -> ConsumerStates]
      /\ \A d \in Consumers : d # c => cons'[d] = cons[d]
      /\ cons'[c].pc # "dialling" /\ cons'[c].conn \in Conns
  <2>1. CASE GetChannel(c)
    <3>1. [pc |-> "register", conn |-> current] \in ConsumerStates
      BY <1>1 DEF ConsumerStates
    <3> QED BY <1>1, <2>1, <3>1, ConsUpdate DEF GetChannel
  <2>2. CASE Consume(c)
    <3>1. cons[c].conn \in Conns
      BY <2>2 DEF IInv, References, Consume
    <3>2. cons' = [cons EXCEPT ![c].pc = "consuming"] \/ cons' = [cons EXCEPT ![c].pc = "reconnect"]
      BY <2>2 DEF Consume
    <3> QED BY <1>1, <3>1, <3>2, ConsMoves
  <2>3. CASE DeliveriesClosed(c)
    <3>1. cons[c].conn \in Conns
      BY <2>3 DEF IInv, References, DeliveriesClosed
    <3> QED BY <1>1, <2>3, <3>1, ConsMoves DEF DeliveriesClosed
  <2> QED BY <2>1, <2>2, <2>3
<1>4. TypeOK'
  BY <1>1, <1>2, <1>3, TypeParts, TypePartsNext
<1>5. References'
  BY <1>2, <1>3 DEF IInv, References
<1>6. ReconnectsAlone'
  BY <1>2, <1>3 DEF IInv, ReconnectsAlone
<1> QED BY <1>2, <1>4, <1>5, <1>6, StepConsumer

LEMMA StepConsumerReconnects ==
  ASSUME IInv, NEW c \in Consumers, Reconnect(c)
  PROVE  IInv'
<1>1. TypeOK /\ current \in Conns
  BY TypeParts DEF IInv
<1>2. /\ cons[c].pc = "reconnect" /\ writer = Nobody /\ writer' = c
      /\ conns' = Closed(current) /\ cons' = [cons EXCEPT ![c].pc = "dialling"]
      /\ UNCHANGED <<current, pub, stored, failures, timeouts>>
  BY DEF Reconnect, ReconnectLocked
<1>3. /\ cons' \in [Consumers -> ConsumerStates]
      /\ cons'[c].pc = "dialling" /\ cons'[c].conn = cons[c].conn
      /\ \A d \in Consumers : d # c => cons'[d] = cons[d]
  BY <1>1, <1>2, ConsMoves
<1>4. ConnBecomes(current, FALSE, conns[current].holder, <<>>, conns[current].confirms)
  BY <1>1, <1>2, CloseEffect
<1>5. TypeOK'
  BY <1>1, <1>2, <1>3, <1>4, TypeParts, TypePartsNext DEF ConnBecomes
<1>6. References'
  BY <1>2, <1>3 DEF IInv, References
<1>7. ReconnectsAlone'
  BY <1>2, <1>3, Nobodies DEF IInv, ReconnectsAlone
<1>8. Bystanders
  BY <1>2 DEF Bystanders
<1> QED BY <1>1, <1>2, <1>4, <1>5, <1>6, <1>7, <1>8, StepClose

LEMMA StepConsumerDials ==
  ASSUME IInv, NEW c \in Consumers, ConsumerDials(c)
  PROVE  IInv'
<1> DEFINE g == Unused
<1>1. TypeOK /\ writer = c
  BY DEF IInv, ReconnectsAlone, ConsumerDials
<1>2. /\ g \in Conns /\ Referrers(g) = {} /\ current' = g /\ writer' = Nobody
      /\ ConnBecomes(g, TRUE, Nobody, <<>>, <<>>)
  BY <1>1, DialEffect DEF ConsumerDials
<1>3. /\ UNCHANGED <<pub, stored, failures, timeouts>>
      /\ cons' = [cons EXCEPT ![c] = [pc |-> "start", conn |-> Nobody]]
  BY DEF ConsumerDials
<1> HIDE DEF g
<1>4. [pc |-> "start", conn |-> Nobody] \in ConsumerStates
  BY DEF ConsumerStates
<1>5. /\ cons' \in [Consumers -> ConsumerStates] /\ cons'[c].pc = "start"
      /\ \A d \in Consumers : d # c => cons'[d] = cons[d]
  BY <1>1, <1>3, <1>4, ConsUpdate
<1>6. TypeOK'
  BY <1>1, <1>2, <1>3, <1>5, TypeParts, TypePartsNext DEF ConnBecomes
<1>7. References'
  BY <1>3, <1>5 DEF IInv, References
<1>8. ReconnectsAlone'
  BY <1>1, <1>2, <1>3, <1>5, Nobodies DEF IInv, ReconnectsAlone
<1>9. Bystanders
  BY <1>3 DEF Bystanders
<1> QED BY <1>2, <1>3, <1>6, <1>7, <1>8, <1>9, StepDial

LEMMA StepConnectionFails ==
  ASSUME IInv, ConnectionFails
  PROVE  IInv'
<1>1. TypeOK /\ current \in Conns
  BY TypeParts DEF IInv
<1>2. /\ conns' = Closed(current) /\ failures' \in 0 .. MaxFailures
      /\ UNCHANGED <<current, writer, pub, cons, stored, timeouts>>
  BY <1>1, BoundAssumption, TypeParts DEF ConnectionFails
<1>3. ConnBecomes(current, FALSE, conns[current].holder, <<>>, conns[current].confirms)
  BY <1>1, <1>2, CloseEffect
<1>4. TypeOK'
  BY <1>1, <1>2, <1>3, TypeParts, TypePartsNext DEF ConnBecomes
<1>5. References' /\ ReconnectsAlone' /\ Bystanders
  BY <1>2 DEF IInv, References, ReconnectsAlone, Bystanders
<1> QED BY <1>1, <1>2, <1>3, <1>4, <1>5, StepClose

LEMMA NextIInv == IInv /\ [Next]_vars => IInv'
<1> SUFFICES ASSUME IInv, [Next]_vars PROVE IInv'
  OBVIOUS
<1>1. ASSUME NEW p \in Publishers, PublisherStep(p) PROVE IInv'
  BY <1>1, StepSnapshot, StepLock, StepPublishes, StepPublishFails, StepTakeConfirm,
     StepChannelClosed, StepSkip, StepReconnect, StepPublisherDials DEF PublisherStep
<1>2. ASSUME NEW p \in Publishers, Timeout(p) PROVE IInv'
  BY <1>2, StepTimeout
<1>3. ASSUME NEW c \in Consumers, ConsumerStep(c) PROVE IInv'
  BY <1>3, StepConsumes, StepConsumerReconnects, StepConsumerDials DEF ConsumerStep
<1>4. ASSUME NEW g \in Conns, Broker(g) PROVE IInv'
  BY <1>4, StepBroker DEF Broker
<1>5. CASE ConnectionFails
  BY <1>5, StepConnectionFails
<1>6. CASE UNCHANGED vars
  <2>1. /\ UNCHANGED <<current, writer, conns, pub, cons, stored, failures, timeouts>>
    BY <1>6 DEF vars
  <2>2. TypeOK' /\ References' /\ ReconnectsAlone'
    BY <2>1 DEF IInv, TypeOK, References, ReconnectsAlone
  <2> QED BY <2>1, <2>2, StepConsumer
<1> QED BY <1>1, <1>2, <1>3, <1>4, <1>5, <1>6 DEF Next

LEMMA SpecIInv == Spec => []IInv
<1> QED BY InitIInv, NextIInv, PTL DEF Spec

-------------------------------------------------------------------------------
(* The theorems                                                              *)

\* Every goroutine of the bus stays within its attempts and its two rounds,
\* and every connection it is handed exists, however many others reconnect.
THEOREM BusTypes == Spec => []TypeOK
<1> QED BY SpecIInv, PTL DEF IInv

\* PublishReliable reports success only for a message the broker accepted, as
\* long as no wait for a confirmation timed out, however often connections are
\* lost, whoever reconnects and whoever shares the connection.
THEOREM PublishedIsStored == Spec => []OkMeansStored
<1> QED BY SpecIInv, PTL DEF IInv

\* Whoever waits on an open connection has a confirmation of its own message
\* in flight or delivered, even after waits that timed out: pubMu and the drain
\* never cost a waiter the answer it waits for.
THEOREM WaitersAreAnswered == Spec => []ConfirmOutstanding
<1> QED BY SpecIInv, PTL DEF IInv

\* pubMu: of the goroutines on one connection only one publishes or waits, also
\* when the connection was dialled again under an old name.
OnePublisher ==
  \A p, q \in Publishers :
    pub[p].pc \in HoldsMutex /\ pub[q].pc \in HoldsMutex /\ pub[p].conn = pub[q].conn => p = q

THEOREM PublishersExclusive == Spec => []OnePublisher
<1>1. IInv => OnePublisher
  BY DEF IInv, MutexHeld, OnePublisher
<1> QED BY <1>1, SpecIInv, PTL

\* reconnectLocked: at most one goroutine, publisher or consumer loop, dials.
OneDialler ==
  /\ \A p, q \in Publishers : pub[p].pc = "dialling" /\ pub[q].pc = "dialling" => p = q
  /\ \A c, d \in Consumers : cons[c].pc = "dialling" /\ cons[d].pc = "dialling" => c = d
  /\ \A p \in Publishers, c \in Consumers : ~(pub[p].pc = "dialling" /\ cons[c].pc = "dialling")

THEOREM DiallersExclusive == Spec => []OneDialler
<1>1. IInv => OneDialler
  BY Nobodies DEF IInv, ReconnectsAlone, OneDialler
<1> QED BY <1>1, SpecIInv, PTL

================================================================================
