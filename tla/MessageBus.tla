------------------------------ MODULE MessageBus ------------------------------
(***************************************************************************)
(* The RabbitMQ client every service shares (package rabbitmq): one        *)
(* ConnManager of one process, the goroutines that publish through it, and *)
(* the consumer loops that register on its channel and reconnect it.       *)
(*                                                                         *)
(* A connection generation is an element of Conns: m.generation is only    *)
(* compared for equality, so a connection nobody refers to any more is     *)
(* reused as the next one.  The AMQP library is external: a publish is     *)
(* confirmed by the broker in order, each confirmation is delivered to the *)
(* one listener confirmCh, and the listener is closed with its channel.    *)
(***************************************************************************)
EXTENDS Naturals, Sequences, FiniteSets

CONSTANTS
  Reliable, Plain,     \* goroutines in PublishReliable, and in PublishMessage
  Consumers,           \* consumer loops of the process
  Nobody,
  Conns,               \* connections, enough of them that one is always unused
  MaxRetries,          \* attempts of one PublishReliable on one connection
  MaxFailures,         \* bound: connections lost to the broker or the network
  MaxTimeouts          \* bound: waits for a confirmation that time out

Publishers == Reliable \cup Plain

ASSUME GoroutinesAssumption ==
  /\ Reliable \cap Plain = {} /\ Publishers \cap Consumers = {}
  /\ Nobody \notin Publishers \cup Consumers
ASSUME ConnsAssumption ==
  /\ IsFiniteSet(Conns) /\ IsFiniteSet(Publishers \cup Consumers)
  /\ Cardinality(Conns) > Cardinality(Publishers \cup Consumers) + 1
ASSUME BoundAssumption == MaxRetries \in Nat \ {0} /\ MaxFailures \in Nat /\ MaxTimeouts \in Nat

VARIABLES
  current,     \* m.conn and m.generation
  writer,      \* who holds m.mu for writing: it is in reconnectLocked
  conns,       \* by connection: channel open, pubMu, unanswered publishes, confirmCh
  pub,         \* the publishing goroutines, each with one message of its own
  cons,        \* the consumer loops
  stored,      \* the messages the broker accepted, named by their publisher
  failures, timeouts

vars == <<current, writer, conns, pub, cons, stored, failures, timeouts>>

Fresh == [open |-> TRUE, holder |-> Nobody, inflight |-> <<>>, confirms |-> <<>>]
Confirmations == [msg : Publishers, ack : BOOLEAN]

(* Goroutines that hold a reference to connection g *)
Referrers(g) == {p \in Publishers : pub[p].conn = g} \cup {c \in Consumers : cons[c].conn = g}
Unused == CHOOSE g \in Conns : g # current /\ Referrers(g) = {}

(* The library closes confirmCh together with the channel *)
Closed(g) == [conns EXCEPT ![g].open = FALSE, ![g].inflight = <<>>]
Released(g) == [conns EXCEPT ![g].holder = Nobody]

-----------------------------------------------------------------------------
(* Conn.PublishReliable and Conn.PublishMessage within ConnManager's.       *)
(* Definitions named Bug... are faulty variants of the definition that      *)
(* follows them; no specification uses them.                                *)

ConnSnapshot(p) ==
  /\ pub[p].pc = "start" /\ writer = Nobody
  /\ pub' = [pub EXCEPT ![p] = [@ EXCEPT !.pc = "lock", !.conn = current]]
  /\ UNCHANGED <<current, writer, conns, cons, stored, failures, timeouts>>

(* pubMu, then the drain of confirmCh.  A receive from a closed channel    *)
(* always succeeds, so on a closed connection the drain never ends.        *)
Drain(p, g) ==
  conns' = [conns EXCEPT ![g].holder = p, ![g].confirms = IF conns[g].open THEN <<>> ELSE @]

AcquireReliable(p) ==
  LET g == pub[p].conn
  IN  /\ p \in Reliable /\ pub[p].pc = "lock" /\ conns[g].holder = Nobody
      /\ Drain(p, g)
      /\ pub' = [pub EXCEPT ![p].pc = IF conns[g].open THEN "publish" ELSE "draining"]
      /\ UNCHANGED <<current, writer, cons, stored, failures, timeouts>>

BugPlainIgnoresMutex(p) ==
  /\ p \in Plain /\ pub[p].pc = "lock"
  /\ pub' = [pub EXCEPT ![p].pc = "publish"]
  /\ UNCHANGED <<current, writer, conns, cons, stored, failures, timeouts>>
AcquirePlain(p) ==
  LET g == pub[p].conn
  IN  /\ p \in Plain /\ pub[p].pc = "lock" /\ conns[g].holder = Nobody
      /\ conns' = [conns EXCEPT ![g].holder = p]
      /\ pub' = [pub EXCEPT ![p].pc = "publish"]
      /\ UNCHANGED <<current, writer, cons, stored, failures, timeouts>>

Publish(p) ==
  LET g == pub[p].conn
  IN  /\ pub[p].pc = "publish" /\ conns[g].open
      /\ conns' = [conns EXCEPT ![g].inflight = Append(@, p)]
      /\ pub' = [pub EXCEPT ![p].pc = "wait"]
      /\ UNCHANGED <<current, writer, cons, stored, failures, timeouts>>

(* An attempt failed: PublishReliable tries MaxRetries times, PublishMessage *)
(* once; then the manager reconnects if stale and runs it once more          *)
BugAttemptTooMany(p) ==
  LET last == p \in Plain \/ pub[p].attempt > MaxRetries
  IN  [pub EXCEPT ![p] = IF ~last THEN [@ EXCEPT !.pc = "lock", !.attempt = pub[p].attempt + 1]
                         ELSE IF pub[p].round = 1 THEN [@ EXCEPT !.pc = "reconnect"]
                         ELSE [@ EXCEPT !.pc = "error", !.conn = Nobody]]
NextAttempt(p) ==
  LET last == p \in Plain \/ pub[p].attempt = MaxRetries
  IN  [pub EXCEPT ![p] = IF ~last THEN [@ EXCEPT !.pc = "lock", !.attempt = pub[p].attempt + 1]
                         ELSE IF pub[p].round = 1 THEN [@ EXCEPT !.pc = "reconnect"]
                         ELSE [@ EXCEPT !.pc = "error", !.conn = Nobody]]

Unlock(p) == conns' = Released(pub[p].conn)

PublishFails(p) ==
  /\ pub[p].pc = "publish" /\ ~conns[pub[p].conn].open
  /\ Unlock(p) /\ pub' = NextAttempt(p)
  /\ UNCHANGED <<current, writer, cons, stored, failures, timeouts>>

(* <-c.confirmCh: whatever confirmation is next, or the zero Confirmation  *)
(* of a closed channel                                                     *)
Succeeded(p) == [pub EXCEPT ![p] = [@ EXCEPT !.pc = "ok", !.conn = Nobody]]
BugAcceptsNack(p, ack) == Succeeded(p)
AfterConfirm(p, ack) == IF p \in Plain \/ ack THEN Succeeded(p) ELSE NextAttempt(p)

TakeConfirm(p) ==
  LET g == pub[p].conn
      confirms == conns[g].confirms
  IN  /\ pub[p].pc = "wait" /\ confirms # <<>>
      /\ conns' = [Released(g) EXCEPT ![g].confirms = Tail(@)]
      /\ pub' = AfterConfirm(p, Head(confirms).ack)
      /\ UNCHANGED <<current, writer, cons, stored, failures, timeouts>>

ChannelClosed(p) ==
  LET g == pub[p].conn
  IN  /\ pub[p].pc = "wait" /\ conns[g].confirms = <<>> /\ ~conns[g].open
      /\ Unlock(p) /\ pub' = AfterConfirm(p, FALSE)
      /\ UNCHANGED <<current, writer, cons, stored, failures, timeouts>>

(* 5 s for PublishReliable; 2 s for PublishMessage, which does not mind *)
Timeout(p) ==
  /\ pub[p].pc = "wait" /\ timeouts < MaxTimeouts
  /\ timeouts' = timeouts + 1
  /\ Unlock(p)
  /\ pub' = IF p \in Plain THEN Succeeded(p) ELSE NextAttempt(p)
  /\ UNCHANGED <<current, writer, cons, stored, failures>>

-----------------------------------------------------------------------------
(* Reconnection *)

(* reconnectLocked: the old connection is closed, whatever its state ... *)
ReconnectLocked(x) ==
  /\ writer = Nobody
  /\ writer' = x
  /\ conns' = Closed(current)

(* ... and dialled again until that succeeds *)
Dial ==
  /\ current' = Unused
  /\ conns' = [conns EXCEPT ![Unused] = Fresh]
  /\ writer' = Nobody

SecondRound(p, g) == [pub EXCEPT ![p] = [pc |-> "lock", conn |-> g, attempt |-> 1, round |-> 2]]

(* reconnectIfStale: somebody else has reconnected already, or p does it *)
SkipReconnect(p) ==
  /\ pub[p].pc = "reconnect" /\ writer = Nobody
  /\ pub[p].conn # current
  /\ pub' = SecondRound(p, current)
  /\ UNCHANGED <<current, writer, conns, cons, stored, failures, timeouts>>

ReconnectIfStale(p) ==
  /\ pub[p].pc = "reconnect"
  /\ pub[p].conn = current
  /\ ReconnectLocked(p)
  /\ pub' = [pub EXCEPT ![p].pc = "dialling"]
  /\ UNCHANGED <<current, cons, stored, failures, timeouts>>

PublisherDials(p) ==
  /\ pub[p].pc = "dialling"
  /\ Dial
  /\ pub' = SecondRound(p, Unused)
  /\ UNCHANGED <<cons, stored, failures, timeouts>>

-----------------------------------------------------------------------------
(* The consumer loops: mgr.Channel(), Consume, range over the deliveries,  *)
(* and mgr.Reconnect(), which reconnects without looking at the generation *)

GetChannel(c) ==
  /\ cons[c].pc = "start" /\ writer = Nobody
  /\ cons' = [cons EXCEPT ![c] = [pc |-> "register", conn |-> current]]
  /\ UNCHANGED <<current, writer, conns, pub, stored, failures, timeouts>>

Consume(c) ==
  /\ cons[c].pc = "register"
  /\ cons' = [cons EXCEPT ![c].pc = IF conns[cons[c].conn].open THEN "consuming" ELSE "reconnect"]
  /\ UNCHANGED <<current, writer, conns, pub, stored, failures, timeouts>>

BugStopsConsuming(c) ==
  /\ cons[c].pc = "consuming" /\ ~conns[cons[c].conn].open
  /\ cons' = [cons EXCEPT ![c].pc = "stopped"]
  /\ UNCHANGED <<current, writer, conns, pub, stored, failures, timeouts>>
DeliveriesClosed(c) ==
  /\ cons[c].pc = "consuming" /\ ~conns[cons[c].conn].open
  /\ cons' = [cons EXCEPT ![c].pc = "reconnect"]
  /\ UNCHANGED <<current, writer, conns, pub, stored, failures, timeouts>>

Reconnect(c) ==
  /\ cons[c].pc = "reconnect"
  /\ ReconnectLocked(c)
  /\ cons' = [cons EXCEPT ![c].pc = "dialling"]
  /\ UNCHANGED <<current, pub, stored, failures, timeouts>>

ConsumerDials(c) ==
  /\ cons[c].pc = "dialling"
  /\ Dial
  /\ cons' = [cons EXCEPT ![c] = [pc |-> "start", conn |-> Nobody]]
  /\ UNCHANGED <<pub, stored, failures, timeouts>>

-----------------------------------------------------------------------------
(* The broker answers the publishes of a connection in order; a message it *)
(* refuses, or whose answer is lost with the connection, counts as not     *)
(* stored                                                                  *)
BrokerConfirms(g, ack) ==
  /\ conns[g].open /\ conns[g].inflight # <<>>
  /\ LET msg == Head(conns[g].inflight)
     IN  /\ conns' = [conns EXCEPT ![g].inflight = Tail(@),
                                   ![g].confirms = Append(@, [msg |-> msg, ack |-> ack])]
         /\ stored' = IF ack THEN stored \cup {msg} ELSE stored
  /\ UNCHANGED <<current, writer, pub, cons, failures, timeouts>>

ConnectionFails ==
  /\ failures < MaxFailures /\ conns[current].open
  /\ conns' = Closed(current)
  /\ failures' = failures + 1
  /\ UNCHANGED <<current, writer, pub, cons, stored, timeouts>>

-----------------------------------------------------------------------------
Init ==                                                   \* NewConnManager
  /\ current = CHOOSE g \in Conns : TRUE
  /\ writer = Nobody
  /\ conns = [g \in Conns |-> Fresh]
  /\ pub = [p \in Publishers |-> [pc |-> "start", conn |-> Nobody, attempt |-> 1, round |-> 1]]
  /\ cons = [c \in Consumers |-> [pc |-> "start", conn |-> Nobody]]
  /\ stored = {} /\ failures = 0 /\ timeouts = 0

PublisherStep(p) ==
  \/ ConnSnapshot(p) \/ AcquireReliable(p) \/ AcquirePlain(p) \/ Publish(p) \/ PublishFails(p)
  \/ TakeConfirm(p) \/ ChannelClosed(p) \/ SkipReconnect(p) \/ ReconnectIfStale(p)
  \/ PublisherDials(p)

ConsumerStep(c) ==
  \/ GetChannel(c) \/ Consume(c) \/ DeliveriesClosed(c) \/ Reconnect(c)
  \/ ConsumerDials(c)

Broker(g) == \E ack \in BOOLEAN : BrokerConfirms(g, ack)

Next == \/ \E p \in Publishers : PublisherStep(p) \/ Timeout(p)
        \/ \E c \in Consumers : ConsumerStep(c)
        \/ \E g \in Conns : Broker(g)
        \/ ConnectionFails

(* Every goroutine runs on, an open connection answers, dialling succeeds   *)
(* in the end; nothing makes a connection fail or a wait time out.          *)
Fairness == /\ \A p \in Publishers : WF_vars(PublisherStep(p))
            /\ \A c \in Consumers : WF_vars(ConsumerStep(c))
            /\ \A g \in Conns : WF_vars(Broker(g))

Spec == Init /\ [][Next]_vars /\ Fairness

-----------------------------------------------------------------------------
(* Properties *)

(* Every goroutine stays within its attempts and its two rounds *)
TypeOK ==
  /\ current \in Conns
  /\ writer \in Publishers \cup Consumers \cup {Nobody}
  /\ conns \in [Conns -> [open : BOOLEAN, holder : Publishers \cup {Nobody},
                          inflight : Seq(Publishers), confirms : Seq(Confirmations)]]
  /\ pub \in [Publishers ->
               [pc : {"start", "lock", "draining", "publish", "wait", "reconnect", "dialling",
                      "ok", "error"},
                conn : Conns \cup {Nobody}, attempt : 1 .. MaxRetries, round : 1 .. 2]]
  /\ cons \in [Consumers ->
                [pc : {"start", "register", "consuming", "reconnect", "dialling"},
                 conn : Conns \cup {Nobody}]]
  /\ stored \subseteq Publishers
  /\ failures \in 0 .. MaxFailures /\ timeouts \in 0 .. MaxTimeouts

(* PublishReliable reports success only for a message the broker accepted, *)
(* through lost connections, refusals, retries and reconnects by others,   *)
(* as long as no wait for a confirmation has timed out.                    *)
OkMeansStored == timeouts = 0 => \A p \in Reliable : pub[p].pc = "ok" => p \in stored

(* Whoever waits for a confirmation on an open connection has one coming:  *)
(* nobody else took it and no drain threw it away, even when earlier waits *)
(* left confirmations behind.                                              *)
ConfirmOutstanding ==
  \A p \in Publishers :
    LET c == conns[pub[p].conn]
    IN  pub[p].pc = "wait" /\ c.open =>
          p \in {c.inflight[k] : k \in DOMAIN c.inflight} \cup
                {c.confirms[k].msg : k \in DOMAIN c.confirms}

(* In a process with one consumer loop, it outlives lost connections and   *)
(* the reconnects of the publishers: in the end it is registered on an     *)
(* open connection for good.                                               *)
ConsumptionResumes ==
  <>[](\A c \in Consumers : cons[c].pc = "consuming" /\ conns[cons[c].conn].open)

-----------------------------------------------------------------------------
(* What the comments of the code say and the code does not keep *)

(* rabbitmq.go: PublishReliable "reconnects once and retries so a transient *)
(* connection blip doesn't lose the message": it returns in the end.        *)
PublishReturns == \A p \in Publishers : pub[p].pc = "lock" ~> pub[p].pc \in {"ok", "error"}

=============================================================================
