--------------------------- MODULE EventRSVP_proofs ---------------------------
(***************************************************************************)
(* Theorems about EventRSVP, for every set of users and tiers, every       *)
(* capacity, coupon, number of orders and number of refund goroutines.     *)
(***************************************************************************)
EXTENDS EventRSVP, FiniteSetTheorems, TLAPS

USE DEF Orders

Statuses == Active \cup {"none", "cancelled"}

-----------------------------------------------------------------------------
(* Type correctness *)

LEMMA StatusFacts ==
  /\ Active = {"confirmed", "pending_payment", "waitlisted", "pending_host_review"}
  /\ Occupied = {"confirmed", "pending_payment"}
  /\ Statuses = {"confirmed", "pending_payment", "waitlisted", "pending_host_review",
                 "none", "cancelled"}
BY DEF Active, Occupied, Statuses

LEMMA ConstantTypes ==
  /\ NoRow \in Rows /\ NoTxn \in Txns
  /\ NoTierEdit \in TierEditRecords /\ NoEventEdit \in EventEditRecords
  /\ IdleJob \in JobRecords /\ UnusedOrder \in OrderRecords
BY BoundAssumption
DEF NoRow, Rows, NoTxn, Txns, NoTierEdit, TierEditRecords, NoEventEdit, EventEditRecords,
    NoOffer, Offers, IdleJob, JobRecords, UnusedOrder, OrderRecords

(* A row keeps its type when some of its columns get values of theirs *)
LEMMA SetStatusType ==
  ASSUME NEW r \in Rows, NEW s \in Statuses
  PROVE  [r EXCEPT !.status = s] \in Rows
BY DEF Rows, Statuses

LEMMA SetStatusAndCouponType ==
  ASSUME NEW r \in Rows, NEW s \in Statuses, NEW c \in BOOLEAN
  PROVE  [r EXCEPT !.status = s, !.coupon = c] \in Rows
BY DEF Rows, Statuses

LEMMA LeaveSeatType ==
  ASSUME NEW r \in Rows PROVE LeaveSeat(r) \in Rows
BY SetStatusAndCouponType, StatusFacts DEF LeaveSeat

LEMMA SetPaymentType ==
  ASSUME NEW r \in Rows, NEW o \in 0 .. MaxOrders
  PROVE  /\ [r EXCEPT !.order = o] \in Rows
         /\ [r EXCEPT !.status = "confirmed", !.payment = o, !.captured = TRUE] \in Rows
BY DEF Rows, Active, Occupied

LEMMA SetRefundType ==
  ASSUME NEW r \in Rows PROVE [r EXCEPT !.refund = TRUE] \in Rows
BY DEF Rows

LEMMA ApplyStatusType ==
  ASSUME NEW review, NEW full, NEW amount
  PROVE  DecideApplyStatus(review, full, amount) \in Active
BY DEF DecideApplyStatus, Active, Occupied

LEMMA TypeInit == Init => TypeOK
<1> SUFFICES ASSUME Init PROVE TypeOK
  OBVIOUS
<1>1. /\ rows \in [Users -> Rows] /\ txn \in Txns
      /\ tierEdit \in TierEditRecords /\ eventEdit \in EventEditRecords
      /\ orders \in [Orders -> OrderRecords] /\ jobs \in [Jobs -> JobRecords]
  BY ConstantTypes DEF Init
<1> QED
  BY <1>1, TiersAssumption, EventAssumption DEF Init, TypeOK

(* A new order, and a goroutine that starts, keep the types *)
LEMMA StartTypes ==
  ASSUME TypeOK, NEW u \in Users
  PROVE  /\ StartCheckout(u) => orders' \in [Orders -> OrderRecords]
         /\ StartRefundAll => jobs' \in [Jobs -> JobRecords]
<1>1. ASSUME StartCheckout(u) PROVE orders' \in [Orders -> OrderRecords]
  <2>1. [user |-> u, state |-> "requested"] \in OrderRecords
    BY DEF OrderRecords
  <2>2. PICK o \in Orders : orders' = [orders EXCEPT ![o] = [user |-> u, state |-> "requested"]]
    BY <1>1 DEF StartCheckout
  <2>3. orders \in [Orders -> OrderRecords]
    BY DEF TypeOK
  <2> QED
    BY <2>1, <2>2, <2>3
<1>2. ASSUME StartRefundAll PROVE jobs' \in [Jobs -> JobRecords]
  BY <1>2 DEF StartRefundAll, TypeOK, JobRecords
<1> QED
  BY <1>1, <1>2

LEMMA ResumeType ==
  ASSUME NEW due \in SUBSET Orders PROVE Resume(due) \in JobRecords
BY BoundAssumption, ConstantTypes DEF Resume, JobRecords

LEMMA UserSets ==
  ASSUME NEW S \in SUBSET Users
  PROVE  IsFiniteSet(S) /\ Cardinality(S) \in Nat
BY UsersAssumption, FS_Subset, FS_CardinalityType

LEMMA ApplyRSVPSeatType ==
  ASSUME TypeOK, txn.op = "rsvp", NEW r \in Rows
  PROVE  ApplyRSVPSeat(r) \in Rows
<1>1. SeatStatus \in Statuses
  BY ApplyStatusType DEF SeatStatus, Statuses
<1>2. WantsCoupon \in BOOLEAN
  BY DEF WantsCoupon
<1>3. txn.tier \in Tiers \cup {NoTier}
  BY DEF TypeOK, Txns, NoTxn
<1>4. 1 + Cardinality({v \in Users : rows[v].status # "none"}) \in Nat
  BY UserSets
<1> QED
  BY <1>1, <1>2, <1>3, <1>4, BoundAssumption DEF ApplyRSVPSeat, Rows, Statuses

LEMMA ReleaseCouponType ==
  ASSUME NEW held, NEW uses \in Nat PROVE ReleaseCoupon(held, uses) \in Nat
BY DEF ReleaseCoupon

LEMMA TypeAttendee == TypeOK /\ Attendee => TypeOK'
<1> SUFFICES ASSUME TypeOK, Attendee PROVE TypeOK'
  OBVIOUS
<1> USE DEF eventVars, tierVars, seatVars, moneyVars
<1>1. ASSUME NEW u \in Users, NEW t \in Tiers, NEW code \in Codes, BeginRSVP(u, t, code)
      PROVE  TypeOK'
  <2>1. txn' \in Txns
    BY <1>1, CouponAssumption DEF BeginRSVP, TypeOK, Txns, Rows
  <2> QED
    BY <1>1, <2>1 DEF BeginRSVP, TypeOK
<1>2. ASSUME NEW u \in Users, BeginCancel(u) PROVE TypeOK'
  <2>1. Refundable(rows[u]) \in BOOLEAN
    BY DEF Refundable
  <2>2. rows[u].status \in Active
    BY <1>2 DEF BeginCancel
  <2>3. txn' \in Txns
    BY <1>2, <2>1, <2>2 DEF BeginCancel, Txns, NoOffer, Offers
  <2> QED
    BY <1>2, <2>3 DEF BeginCancel, TypeOK
<1>3. CASE CommitRSVP
  <2>1. txn.user \in Users
    BY <1>3 DEF CommitRSVP, TypeOK, Txns, NoTxn
  <2>2. rows' \in [Users -> Rows]
    BY <1>3, <2>1, ApplyRSVPSeatType DEF CommitRSVP, TypeOK
  <2>3. couponUses' \in Nat
    <3>1. UsesAfterRelease \in Nat
      BY ReleaseCouponType DEF UsesAfterRelease, TypeOK
    <3> QED
      BY <1>3, <3>1 DEF CommitRSVP
  <2>4. orders' \in [Orders -> OrderRecords]
    BY <1>3, <2>1, StartTypes DEF CommitRSVP, TypeOK
  <2> QED
    BY <1>3, <2>2, <2>3, <2>4, ConstantTypes DEF CommitRSVP, TypeOK, Txns
<1>4. CASE CommitCancel
  <2>1. txn.user \in Users
    BY <1>4 DEF CommitCancel, TypeOK, Txns, NoTxn
  <2> DEFINE left == [rows EXCEPT ![txn.user] = LeaveSeat(@)]
  <2>2. left \in [Users -> Rows]
    BY <2>1, LeaveSeatType DEF TypeOK
  <2>3. ASSUME PromoteFromWaitlist(left) PROVE rows' \in [Users -> Rows]
    <3> HIDE DEF left
    <3>1. CASE Waitlist \ {txn.user} = {}
      BY <2>2, <2>3, <3>1 DEF PromoteFromWaitlist
    <3>2. CASE Waitlist \ {txn.user} # {}
      <4>1. PICK w \in Waitlist \ {txn.user} :
              rows' = [left EXCEPT ![w].status =
                         IF tiers[rows[w].tier].price > 0 THEN "pending_payment" ELSE "confirmed"]
        BY <2>3, <3>2 DEF PromoteFromWaitlist
      <4> DEFINE s == IF tiers[rows[w].tier].price > 0 THEN "pending_payment" ELSE "confirmed"
      <4>2. w \in Users /\ s \in Statuses
        BY StatusFacts DEF Waitlist
      <4>3. [left[w] EXCEPT !.status = s] \in Rows
        BY <2>2, <4>2, SetStatusType
      <4> QED
        BY <2>2, <4>1, <4>2, <4>3
    <3> QED
      BY <3>1, <3>2
  <2>4. rows' \in [Users -> Rows]
    BY <1>4, <2>2, <2>3 DEF CommitCancel
  <2>5. couponUses' \in Nat
    BY <1>4, ReleaseCouponType DEF CommitCancel, TypeOK
  <2>6. jobs' \in [Jobs -> JobRecords]
    BY <1>4, <2>1, StartTypes DEF CommitCancel, TypeOK
  <2> QED
    BY <1>4, <2>4, <2>5, <2>6, ConstantTypes DEF CommitCancel, TypeOK, Txns
<1>5. CASE Rollback
  BY <1>5 DEF Rollback, TypeOK, Txns
<1> QED
  BY <1>1, <1>2, <1>3, <1>4, <1>5 DEF Attendee

LEMMA CancelRowsType == TypeOK => CancelRows \in [Users -> Rows]
BY SetStatusType, StatusFacts DEF CancelRows, TypeOK

LEMMA TypeHost == TypeOK /\ Host => TypeOK'
<1> SUFFICES ASSUME TypeOK, Host PROVE TypeOK'
  OBVIOUS
<1> USE DEF eventVars, tierVars, seatVars, moneyVars
<1>1. ASSUME NEW u \in Users, RejectRSVP(u) PROVE TypeOK'
  <2>1. rows' \in [Users -> Rows]
    BY <1>1, LeaveSeatType DEF RejectRSVP, TypeOK
  <2> QED
    BY <1>1, <2>1 DEF RejectRSVP, TypeOK
<1>2. ASSUME NEW u \in Users, ApproveRSVP(u) PROVE TypeOK'
  <2> DEFINE offer  == tiers[rows[u].tier]
             wanted == rows[u].coupon /\ offer.price > 0
             usable == wanted /\ ValidCoupon(couponUses)
             status == DecideApproveStatus(ApplyDiscount(offer.price, usable))
             coupon == IF wanted THEN usable ELSE rows[u].coupon
  <2>1. /\ rows' = [rows EXCEPT ![u].status = status, ![u].coupon = coupon]
        /\ couponUses' = IF usable THEN couponUses + 1 ELSE couponUses
        /\ IF status = "pending_payment" THEN StartCheckout(u) ELSE UNCHANGED orders
        /\ UNCHANGED <<eventVars, tierVars, txn, ledger, jobs>>
    BY <1>2 DEF ApproveRSVP
  <2>2. status \in Statuses
    BY StatusFacts DEF DecideApproveStatus
  <2>3. coupon \in BOOLEAN
    BY DEF TypeOK, Rows
  <2> HIDE DEF status, coupon, usable
  <2>4. rows' \in [Users -> Rows]
    BY <2>1, <2>2, <2>3, SetStatusAndCouponType DEF TypeOK
  <2>5. couponUses' \in Nat
    BY <2>1 DEF TypeOK
  <2>6. orders' \in [Orders -> OrderRecords]
    BY <2>1, StartTypes DEF TypeOK
  <2> QED
    BY <2>1, <2>4, <2>5, <2>6 DEF TypeOK
<1>3. ASSUME NEW s \in {"published", "cancelled"}, BeginSetStatus(s) PROVE TypeOK'
  BY <1>3 DEF BeginSetStatus, TypeOK
<1>4. CASE CommitSetStatus
  <2>1. rows' \in [Users -> Rows]
    BY <1>4, CancelRowsType DEF CommitSetStatus, TypeOK
  <2>2. jobs' \in [Jobs -> JobRecords]
    BY <1>4 DEF CommitSetStatus, StartRefundAll, TypeOK, JobRecords
  <2> QED
    BY <1>4, <2>1, <2>2 DEF CommitSetStatus, TypeOK
<1>5. ASSUME NEW c \in CapacityEdits \cup {capacity}, NEW review \in ReviewEdits,
             BeginUpdateEvent(c, review)
      PROVE  TypeOK'
  <2>1. c \in Nat /\ review \in SUBSET BOOLEAN
    BY EventAssumption DEF TypeOK
  <2> QED
    BY <1>5, <2>1 DEF BeginUpdateEvent, TypeOK, EventEditRecords
<1>6. CASE CommitUpdateEvent
  <2>1. eventEdit.capacity \in Nat /\ NoEventEdit \in EventEditRecords
    BY ConstantTypes DEF TypeOK, EventEditRecords
  <2>2. Cardinality(Occupants) \in Nat
    BY UserSets DEF Occupants
  <2>3. capacity' \in Nat /\ seatLimit' \in Nat
    BY <1>6, <2>1, <2>2 DEF CommitUpdateEvent
  <2>4. hostReview' \in BOOLEAN
    <3>1. hostReview' = IF eventEdit.review = {} THEN hostReview ELSE TRUE \in eventEdit.review
      BY <1>6 DEF CommitUpdateEvent
    <3>2. hostReview \in BOOLEAN
      BY DEF TypeOK
    <3>3. CASE eventEdit.review = {}
      BY <3>1, <3>2, <3>3
    <3>4. CASE eventEdit.review # {}
      <4>1. hostReview' = (TRUE \in eventEdit.review)
        BY <3>1, <3>4
      <4> QED
        BY <4>1
    <3> QED
      BY <3>3, <3>4
  <2> QED
    BY <1>6, <2>1, <2>3, <2>4 DEF CommitUpdateEvent, TypeOK
<1>7. ASSUME NEW t \in Tiers, NEW offer \in TierEdits, BeginUpdateTier(t, offer) PROVE TypeOK'
  BY <1>7, TiersAssumption DEF BeginUpdateTier, TypeOK, TierEditRecords
<1>8. CASE CommitUpdateTier
  BY <1>8, ConstantTypes DEF CommitUpdateTier, TypeOK, TierEditRecords
<1> QED
  BY <1>1, <1>2, <1>3, <1>4, <1>5, <1>6, <1>7, <1>8 DEF Host

LEMMA TypeAdmin == TypeOK /\ Admin => TypeOK'
BY CancelRowsType DEF Admin, AdminCancelEvent, AdminUnpublishEvent, TypeOK,
   eventVars, tierVars, seatVars, moneyVars

LEMMA TypeCheckout == TypeOK /\ Checkout => TypeOK'
<1> SUFFICES ASSUME TypeOK, NEW o \in Orders,
                    \/ CreateOrder(o) \/ CreateOrderFails(o) \/ ReleaseReservation(o)
                    \/ AttachPaymentOrder(o) \/ AttachFails(o)
                    \/ Pay(o) \/ ConfirmPayment(o) \/ FailPayment(o)
             PROVE  TypeOK'
  BY DEF Checkout
<1> USE DEF eventVars, tierVars, seatVars, moneyVars
<1> DEFINE u == orders[o].user
<1>1. orders[o].state # "unused" => u \in Users
  BY DEF TypeOK, OrderRecords, UnusedOrder
<1>2. o \in 0 .. MaxOrders
  BY BoundAssumption
<1>3. CASE CreateOrder(o) \/ CreateOrderFails(o) \/ AttachFails(o) \/ Pay(o)
  <2>1. orders' \in [Orders -> OrderRecords]
    BY <1>1, <1>3 DEF CreateOrder, CreateOrderFails, AttachFails, Pay, SetOrder, TypeOK,
                      OrderRecords, UnusedOrder
  <2> QED
    BY <1>3, <2>1 DEF CreateOrder, CreateOrderFails, AttachFails, Pay, TypeOK
<1>4. CASE ReleaseReservation(o)
  <2>1. orders' \in [Orders -> OrderRecords]
    BY <1>1, <1>4 DEF ReleaseReservation, SetOrder, TypeOK, OrderRecords, UnusedOrder
  <2>2. u \in Users
    BY <1>1, <1>4 DEF ReleaseReservation
  <2> DEFINE s == IF rows[u].status = "pending_payment" THEN "cancelled" ELSE rows[u].status
  <2>3. s \in Statuses
    BY <2>2, StatusFacts DEF TypeOK, Rows, Statuses
  <2>4. rows' = [rows EXCEPT ![u] = [rows[u] EXCEPT !.status = s]]
    BY <1>4 DEF ReleaseReservation
  <2> HIDE DEF s
  <2>5. rows' \in [Users -> Rows]
    BY <2>2, <2>3, <2>4, SetStatusType DEF TypeOK
  <2> QED
    BY <1>4, <2>1, <2>5 DEF ReleaseReservation, TypeOK
<1>5. CASE AttachPaymentOrder(o)
  <2>1. orders' \in [Orders -> OrderRecords]
    BY <1>1, <1>5 DEF AttachPaymentOrder, SetOrder, TypeOK, OrderRecords, UnusedOrder
  <2>2. u \in Users
    BY <1>1, <1>5 DEF AttachPaymentOrder
  <2>3. rows' \in [Users -> Rows]
    BY <1>2, <1>5, <2>2, SetPaymentType DEF AttachPaymentOrder, TypeOK
  <2> QED
    BY <1>5, <2>1, <2>3 DEF AttachPaymentOrder, TypeOK
<1>6. CASE ConfirmPayment(o)
  <2>1. u \in Users
    BY <1>1, <1>6 DEF ConfirmPayment
  <2>2. rows' = [rows EXCEPT ![u] = [rows[u] EXCEPT !.status = "confirmed", !.payment = o,
                                                   !.captured = TRUE]]
    BY <1>6 DEF ConfirmPayment
  <2>3. rows' \in [Users -> Rows]
    BY <1>2, <2>1, <2>2, SetPaymentType DEF TypeOK
  <2>4. ledger' \in [Orders -> {"none", "captured", "refunded"}]
    BY <1>6 DEF ConfirmPayment, TypeOK
  <2> QED
    BY <1>6, <2>3, <2>4 DEF ConfirmPayment, TypeOK
<1>7. CASE FailPayment(o)
  <2>1. u \in Users
    BY <1>1, <1>7 DEF FailPayment
  <2>2. rows' \in [Users -> Rows]
    BY <1>7, <2>1, SetStatusType, StatusFacts DEF FailPayment, TypeOK
  <2> QED
    BY <1>7, <2>2 DEF FailPayment, TypeOK
<1> QED
  BY <1>3, <1>4, <1>5, <1>6, <1>7

LEMMA TypeRefunds == TypeOK /\ Refunds => TypeOK'
<1> SUFFICES ASSUME TypeOK, NEW j \in Jobs,
                    \/ ListRefunds(j) \/ MarkRefunded(j) \/ MarkFails(j)
                    \/ \E p \in Orders : \/ RefundSucceeds(j, p)
                                         \/ \E done \in BOOLEAN : RefundFails(j, p, done)
             PROVE  TypeOK'
  BY DEF Refunds
<1> USE DEF eventVars, tierVars, seatVars, moneyVars
<1>1. ASSUME NEW due \in SUBSET Orders, jobs' = [jobs EXCEPT ![j] = Resume(due)]
      PROVE  jobs' \in [Jobs -> JobRecords]
  BY <1>1, ResumeType DEF TypeOK
<1>2. jobs[j].due \in SUBSET Orders
  BY DEF TypeOK, JobRecords
<1>3. CASE ListRefunds(j)
  <2>1. PendingRefunds \in SUBSET Orders
    BY DEF PendingRefunds, TypeOK, Rows
  <2> QED
    BY <1>1, <1>3, <2>1 DEF ListRefunds, TypeOK
<1>4. CASE MarkRefunded(j)
  <2>1. rows' \in [Users -> Rows]
    BY <1>4, SetRefundType DEF MarkRefunded, TypeOK
  <2>2. ledger' \in [Orders -> {"none", "captured", "refunded"}]
    BY <1>4 DEF MarkRefunded, TypeOK
  <2>3. jobs' \in [Jobs -> JobRecords]
    BY <1>1, <1>2, <1>4 DEF MarkRefunded
  <2> QED
    BY <1>4, <2>1, <2>2, <2>3 DEF MarkRefunded, TypeOK
<1>5. CASE MarkFails(j)
  BY <1>1, <1>2, <1>5 DEF MarkFails, TypeOK
<1>6. ASSUME NEW p \in Orders, RefundSucceeds(j, p) PROVE TypeOK'
  <2>1. orders' \in [Orders -> OrderRecords]
    BY <1>6 DEF RefundSucceeds, SetOrder, TypeOK, OrderRecords, UnusedOrder
  <2>2. [pc |-> "marking", due |-> jobs[j].due \ {p}, paying |-> p] \in JobRecords
    BY <1>2, BoundAssumption DEF JobRecords
  <2> QED
    BY <1>6, <2>1, <2>2 DEF RefundSucceeds, TypeOK
<1>7. ASSUME NEW p \in Orders, NEW done \in BOOLEAN, RefundFails(j, p, done) PROVE TypeOK'
  <2>1. orders' \in [Orders -> OrderRecords]
    BY <1>7 DEF RefundFails, SetOrder, TypeOK, OrderRecords, UnusedOrder
  <2>2. jobs[j].due \ {p} \in SUBSET Orders
    BY <1>2
  <2> QED
    BY <1>1, <1>7, <2>1, <2>2 DEF RefundFails, TypeOK
<1> QED
  BY <1>3, <1>4, <1>5, <1>6, <1>7

LEMMA TypeEnvironment == TypeOK /\ Environment => TypeOK'
<1> SUFFICES ASSUME TypeOK, Environment PROVE TypeOK'
  OBVIOUS
<1> USE DEF eventVars, tierVars, seatVars, moneyVars
<1>1. CASE EndTimePasses \/ ArchivePastEvents
  BY <1>1 DEF EndTimePasses, ArchivePastEvents, TypeOK
<1>2. CASE Crash
  <2>1. orders' \in [Orders -> OrderRecords]
    BY <1>2 DEF Crash, TypeOK, OrderRecords, UnusedOrder
  <2> QED
    BY <1>2, <2>1, ConstantTypes DEF Crash, TypeOK
<1> QED
  BY <1>1, <1>2 DEF Environment

LEMMA TypeStep == TypeOK /\ [Next]_vars => TypeOK'
<1>1. TypeOK /\ UNCHANGED vars => TypeOK'
  BY DEF vars, eventVars, tierVars, seatVars, moneyVars, TypeOK
<1> QED
  BY <1>1, TypeAttendee, TypeHost, TypeAdmin, TypeCheckout, TypeRefunds, TypeEnvironment DEF Next

(* Every reachable state is well typed *)
THEOREM TypeCorrect == Spec => []TypeOK
BY TypeInit, TypeStep, PTL DEF Spec
-----------------------------------------------------------------------------
(***************************************************************************)
(* Seats.  NoOversell is not inductive: CommitCancel promotes a waiter     *)
(* without counting, so while a cancellation of a seat is open there must  *)
(* be room for one more besides the leaver's own seat, even if             *)
(* FailPayment or ReleaseReservation vacates that seat first.              *)
(***************************************************************************)
SeatInv ==
  /\ capacity <= seatLimit /\ (capacity = 0 => seatLimit = 0)
  /\ NoOversell
  /\ txn.op = "cancel" => txn.seen \in Active
  /\ txn.op = "cancel" /\ txn.seen \in Occupied /\ seatLimit > 0
       => Cardinality(Occupants \ {txn.user}) + 1 <= seatLimit
  /\ txn # NoTxn => eventStatus # "cancelled"
  /\ CancelledIsEmpty

LEMMA SmallerSet ==
  ASSUME NEW S \in SUBSET Users, NEW T \in SUBSET S
  PROVE  Cardinality(T) <= Cardinality(S)
BY UserSets, FS_Subset

LEMMA OneMore ==
  ASSUME NEW S \in SUBSET Users, NEW u \in Users
  PROVE  Cardinality(S \cup {u}) <= Cardinality(S) + 1
BY UserSets, FS_AddElement

LEMMA OneLess ==
  ASSUME NEW S \in SUBSET Users, NEW u \in S
  PROVE  Cardinality(S \ {u}) + 1 = Cardinality(S)
BY UserSets, FS_RemoveElement

(* A step that seats nobody *)
Quiet ==
  /\ UNCHANGED <<capacity, seatLimit>>
  /\ txn' \in {txn, NoTxn}
  /\ \A u \in Users : /\ rows'[u].status \in Occupied => rows[u].status \in Occupied
                      /\ rows'[u].status \in Active => rows[u].status \in Active
  /\ eventStatus' = "cancelled" /\ eventStatus # "cancelled"
       => txn' = NoTxn /\ \A u \in Users : rows'[u].status \notin Active

LEMMA QuietKeepsSeats == TypeOK /\ SeatInv /\ Quiet => SeatInv'
<1> SUFFICES ASSUME TypeOK, SeatInv, Quiet PROVE SeatInv'
  OBVIOUS
<1>0. \A u \in Users : /\ rows'[u].status \in Occupied => rows[u].status \in Occupied
                       /\ rows'[u].status \in Active => rows[u].status \in Active
  BY DEF Quiet
<1>1. Occupants' \subseteq Occupants /\ Occupants \subseteq Users
  BY <1>0 DEF Occupants
<1>2. Cardinality(Occupants') <= Cardinality(Occupants)
  BY <1>1, SmallerSet
<1>3. Cardinality(Occupants' \ {txn.user}) <= Cardinality(Occupants \ {txn.user})
  <2>1. Occupants' \ {txn.user} \in SUBSET (Occupants \ {txn.user})
    BY <1>1
  <2> QED
    BY <1>1, <2>1, SmallerSet
<1>4. /\ Cardinality(Occupants) \in Nat /\ Cardinality(Occupants') \in Nat
      /\ Cardinality(Occupants \ {txn.user}) \in Nat /\ Cardinality(Occupants' \ {txn.user}) \in Nat
  BY <1>1, UserSets
<1>5. NoOversell'
  BY <1>2, <1>4 DEF NoOversell, SeatInv, Quiet, TypeOK
<1>6. (txn.op = "cancel" /\ txn.seen \in Occupied /\ seatLimit > 0
        => Cardinality(Occupants \ {txn.user}) + 1 <= seatLimit)'
  <2>1. CASE txn' = txn
    BY <1>3, <1>4, <2>1 DEF SeatInv, Quiet, TypeOK
  <2>2. CASE txn' = NoTxn
    BY <2>2 DEF NoTxn
  <2> QED
    BY <2>1, <2>2 DEF Quiet
<1>7. (txn # NoTxn => eventStatus # "cancelled")' /\ (txn.op = "cancel" => txn.seen \in Active)'
  BY DEF SeatInv, Quiet, NoTxn
<1>8. CancelledIsEmpty'
  <2>1. CASE eventStatus = "cancelled"
    <3>1. \A u \in Users : rows[u].status \notin Active
      BY <2>1 DEF SeatInv, CancelledIsEmpty
    <3> QED
      BY <1>0, <3>1 DEF CancelledIsEmpty
  <2>2. CASE eventStatus # "cancelled" /\ eventStatus' = "cancelled"
    <3>1. \A u \in Users : rows'[u].status \notin Active
      BY <2>2 DEF Quiet
    <3> QED
      BY <3>1 DEF CancelledIsEmpty
  <2> QED
    BY <2>1, <2>2 DEF CancelledIsEmpty
<1> QED
  BY <1>5, <1>6, <1>7, <1>8 DEF SeatInv, Quiet

(* A step that seats at most the user u, when there is room beside u *)
LEMMA RoomKeepsSeats ==
  ASSUME TypeOK, SeatInv, NEW u \in Users,
         UNCHANGED <<capacity, seatLimit, eventStatus>>, txn' = NoTxn,
         eventStatus # "cancelled",
         \A v \in Users \ {u} : rows'[v].status \in Occupied => rows[v].status \in Occupied,
         \/ rows'[u].status \in Occupied => rows[u].status \in Occupied
         \/ seatLimit > 0 => Cardinality(Occupants \ {u}) + 1 <= seatLimit
  PROVE  SeatInv'
<1>1. Occupants \in SUBSET Users /\ Occupants' \in SUBSET Users /\ Occupants \ {u} \in SUBSET Users
  BY DEF Occupants
<1>2. /\ Cardinality(Occupants) \in Nat /\ Cardinality(Occupants') \in Nat
      /\ Cardinality(Occupants \ {u}) \in Nat /\ Cardinality((Occupants \ {u}) \cup {u}) \in Nat
  BY <1>1, UserSets
<1>3. CASE rows'[u].status \in Occupied => rows[u].status \in Occupied
  <2>1. Occupants' \in SUBSET Occupants
    BY <1>3 DEF Occupants
  <2> QED
    BY <1>1, <1>2, <2>1, SmallerSet DEF SeatInv, NoOversell, NoTxn, TypeOK, CancelledIsEmpty
<1>4. CASE seatLimit > 0 => Cardinality(Occupants \ {u}) + 1 <= seatLimit
  <2>1. Occupants' \in SUBSET ((Occupants \ {u}) \cup {u})
    BY DEF Occupants
  <2>2. Cardinality(Occupants') <= Cardinality((Occupants \ {u}) \cup {u})
    BY <1>1, <2>1, SmallerSet
  <2>3. Cardinality((Occupants \ {u}) \cup {u}) <= Cardinality(Occupants \ {u}) + 1
    BY <1>1, OneMore
  <2> QED
    BY <1>2, <1>4, <2>2, <2>3 DEF SeatInv, NoOversell, NoTxn, TypeOK, CancelledIsEmpty
<1> QED
  BY <1>3, <1>4

LEMMA SeatInit == Init => SeatInv
<1> SUFFICES ASSUME Init PROVE SeatInv
  OBVIOUS
<1>1. Occupants = {}
  BY DEF Init, Occupants, NoRow, Occupied
<1>2. Cardinality(Occupants) = 0
  BY <1>1, FS_EmptySet
<1> QED
  BY <1>2, EventAssumption DEF Init, SeatInv, NoOversell, CancelledIsEmpty, NoTxn

(* What "not exhausted" gives the user who is about to be seated *)
LEMMA RoomForUser ==
  ASSUME TypeOK, SeatInv, NEW u \in Users, NEW t, NEW tierCap, ~SeatsExhausted(u, t, tierCap)
  PROVE  seatLimit > 0 => Cardinality(Occupants \ {u}) + 1 <= seatLimit
<1>1. Cardinality(Occupants \ {u}) \in Nat
  BY UserSets DEF Occupants
<1> QED
  BY <1>1 DEF SeatsExhausted, SeatInv, TypeOK

LEMMA SeatAttendee == TypeOK /\ SeatInv /\ Attendee => SeatInv'
<1> SUFFICES ASSUME TypeOK, SeatInv, Attendee PROVE SeatInv'
  OBVIOUS
<1> USE DEF eventVars, tierVars, seatVars, moneyVars
<1>1. ASSUME NEW u \in Users, NEW t \in Tiers, NEW code \in Codes, BeginRSVP(u, t, code)
      PROVE  SeatInv'
  <2>1. /\ UNCHANGED <<capacity, seatLimit, eventStatus, rows>>
        /\ eventStatus = "published" /\ txn'.op = "rsvp"
    BY <1>1 DEF BeginRSVP
  <2> QED
    BY <2>1 DEF SeatInv, NoOversell, CancelledIsEmpty, Occupants
<1>2. ASSUME NEW u \in Users, BeginCancel(u) PROVE SeatInv'
  <2>1. /\ UNCHANGED <<capacity, seatLimit, eventStatus, rows>>
        /\ eventStatus # "cancelled" /\ txn'.user = u /\ txn'.seen = rows[u].status
        /\ rows[u].status \in Active
    BY <1>2 DEF BeginCancel, EventHasEnded
  <2>2. rows[u].status \in Occupied => Cardinality(Occupants \ {u}) + 1 = Cardinality(Occupants)
    BY OneLess DEF Occupants
  <2> QED
    BY <2>1, <2>2 DEF SeatInv, NoOversell, CancelledIsEmpty, Occupants
<1>3. CASE CommitRSVP
  <2>1. txn.user \in Users /\ txn # NoTxn
    BY <1>3 DEF CommitRSVP, TypeOK, Txns, NoTxn
  <2>2. \A v \in Users \ {txn.user} : rows'[v] = rows[v]
    BY <1>3, <2>1 DEF CommitRSVP, TypeOK
  <2>3. rows'[txn.user].status = SeatStatus
    BY <1>3, <2>1 DEF CommitRSVP, TypeOK, ApplyRSVPSeat
  <2>4. SeatStatus \in Occupied => ~SeatsExhausted(txn.user, txn.tier, txn.offer.cap)
    BY DEF SeatStatus, DecideApplyStatus, Occupied
  <2>5. \/ rows'[txn.user].status \notin Occupied
        \/ seatLimit > 0 => Cardinality(Occupants \ {txn.user}) + 1 <= seatLimit
    BY <2>1, <2>3, <2>4, RoomForUser
  <2>6. eventStatus # "cancelled" /\ txn' = NoTxn /\ UNCHANGED <<capacity, seatLimit, eventStatus>>
    BY <1>3, <2>1 DEF CommitRSVP, SeatInv
  <2> QED
    BY <2>1, <2>2, <2>5, <2>6, RoomKeepsSeats
<1>4. CASE CommitCancel
  <2>1. txn.user \in Users /\ txn # NoTxn /\ txn.seen \in Statuses
    BY <1>4 DEF CommitCancel, TypeOK, Txns, NoTxn, Statuses
  <2>2. eventStatus # "cancelled" /\ txn' = NoTxn /\ UNCHANGED <<capacity, seatLimit, eventStatus>>
    BY <1>4, <2>1 DEF CommitCancel, SeatInv
  <2> DEFINE left == [rows EXCEPT ![txn.user] = LeaveSeat(@)]
  <2>3. /\ left[txn.user].status = "cancelled"
        /\ \A v \in Users \ {txn.user} : left[v] = rows[v]
        /\ left \in [Users -> Rows]
    BY <2>1, LeaveSeatType DEF LeaveSeat, TypeOK, Rows
  <2>4. CASE rows' = left
    BY <2>1, <2>2, <2>3, <2>4, RoomKeepsSeats, StatusFacts
  <2>5. ASSUME txn.seen \in Occupied, NEW w \in Waitlist \ {txn.user}, NEW s,
               rows' = [left EXCEPT ![w].status = s]
        PROVE  SeatInv'
    <3>1. w \in Users /\ w # txn.user /\ rows[w].status = "waitlisted"
      BY DEF Waitlist
    <3>2. \A v \in Users \ {w} : rows'[v].status \in Occupied => v \in Occupants \ {txn.user}
      BY <2>1, <2>3, <2>5, <3>1, StatusFacts DEF Occupants
    <3>3. Occupants' \in SUBSET ((Occupants \ {txn.user}) \cup {w})
      BY <3>2 DEF Occupants
    <3>4. Occupants \ {txn.user} \in SUBSET Users
      BY DEF Occupants
    <3>5. Cardinality(Occupants') <= Cardinality(Occupants \ {txn.user}) + 1
      <4>1. (Occupants \ {txn.user}) \cup {w} \in SUBSET Users
        BY <3>1, <3>4
      <4>2. Cardinality(Occupants') <= Cardinality((Occupants \ {txn.user}) \cup {w})
        BY <3>3, <4>1, SmallerSet
      <4>3. Cardinality((Occupants \ {txn.user}) \cup {w}) <= Cardinality(Occupants \ {txn.user}) + 1
        BY <3>1, <3>4, OneMore
      <4>4. Occupants' \in SUBSET Users
        BY <3>3, <4>1
      <4> QED
        BY <3>4, <4>1, <4>2, <4>3, <4>4, UserSets
    <3>6. Cardinality(Occupants') \in Nat /\ Cardinality(Occupants \ {txn.user}) \in Nat
      BY UserSets DEF Occupants
    <3>7. NoOversell'
      BY <1>4, <2>2, <2>5, <3>5, <3>6 DEF CommitCancel, NoOversell, SeatInv, TypeOK
    <3> QED
      BY <2>2, <3>7 DEF SeatInv, CancelledIsEmpty, NoTxn
  <2>6. txn.seen \in Active
    BY <1>4 DEF CommitCancel, SeatInv
  <2>7. CASE ~RsvpFreesNoSeat(txn.seen) /\ Waitlist \ {txn.user} # {}
    <3>1. txn.seen \in Occupied
      BY <2>6, <2>7, StatusFacts DEF RsvpFreesNoSeat
    <3>2. PromoteFromWaitlist(left)
      BY <1>4, <2>7 DEF CommitCancel
    <3>3. PICK w \in Waitlist \ {txn.user} :
            rows' = [left EXCEPT ![w].status =
                       IF tiers[rows[w].tier].price > 0 THEN "pending_payment" ELSE "confirmed"]
      BY <2>7, <3>2 DEF PromoteFromWaitlist
    <3> HIDE DEF left
    <3> QED
      BY <2>5, <3>1, <3>3
  <2>8. CASE RsvpFreesNoSeat(txn.seen) \/ Waitlist \ {txn.user} = {}
    BY <1>4, <2>4, <2>8 DEF CommitCancel, PromoteFromWaitlist
  <2> QED
    BY <2>7, <2>8
<1>5. CASE Rollback
  <2>1. Quiet
    BY <1>5 DEF Rollback, Quiet
  <2> QED
    BY <2>1, QuietKeepsSeats
<1> QED
  BY <1>1, <1>2, <1>3, <1>4, <1>5 DEF Attendee

LEMMA CancelRowsEmpty ==
  ASSUME TypeOK, rows' = CancelRows
  PROVE  \A u \in Users : rows'[u].status \notin Active
<1> SUFFICES ASSUME NEW u \in Users PROVE rows'[u].status \notin Active
  OBVIOUS
<1>1. CASE rows[u].status \in Active
  <2>1. rows'[u] = [rows[u] EXCEPT !.status = "cancelled"]
    BY <1>1 DEF CancelRows
  <2> QED
    BY <2>1, StatusFacts DEF TypeOK, Rows
<1>2. CASE rows[u].status \notin Active
  BY <1>2 DEF CancelRows
<1> QED
  BY <1>1, <1>2

LEMMA SeatHost == TypeOK /\ SeatInv /\ Host => SeatInv'
<1> SUFFICES ASSUME TypeOK, SeatInv, Host PROVE SeatInv'
  OBVIOUS
<1> USE DEF eventVars, tierVars, seatVars, moneyVars
<1>1. ASSUME NEW u \in Users, RejectRSVP(u) PROVE SeatInv'
  <2>1. rows' = [rows EXCEPT ![u] = LeaveSeat(rows[u])] /\ rows \in [Users -> Rows]
    BY <1>1 DEF RejectRSVP, TypeOK
  <2>2. rows'[u].status = "cancelled" /\ \A v \in Users \ {u} : rows'[v] = rows[v]
    BY <2>1 DEF LeaveSeat, Rows
  <2>3. UNCHANGED <<capacity, seatLimit, eventStatus, txn>>
    BY <1>1 DEF RejectRSVP
  <2>4. Quiet
    BY <2>2, <2>3, StatusFacts DEF Quiet
  <2> QED
    BY <2>4, QuietKeepsSeats
<1>2. ASSUME NEW u \in Users, ApproveRSVP(u) PROVE SeatInv'
  <2>1. /\ txn = NoTxn /\ ~EventHasEnded
        /\ ~SeatsExhausted(u, rows[u].tier, tiers[rows[u].tier].cap)
        /\ UNCHANGED <<capacity, seatLimit, eventStatus, txn>>
    BY <1>2 DEF ApproveRSVP, Review
  <2>2. \A v \in Users \ {u} : rows'[v] = rows[v]
    BY <1>2 DEF ApproveRSVP, TypeOK
  <2>3. seatLimit > 0 => Cardinality(Occupants \ {u}) + 1 <= seatLimit
    BY <2>1, RoomForUser
  <2> QED
    BY <2>1, <2>2, <2>3, RoomKeepsSeats DEF EventHasEnded
<1>3. ASSUME NEW s \in {"published", "cancelled"}, BeginSetStatus(s) PROVE SeatInv'
  <2>1. Quiet
    BY <1>3 DEF BeginSetStatus, Quiet
  <2> QED
    BY <2>1, QuietKeepsSeats
<1>4. CASE CommitSetStatus
  <2>1. UNCHANGED <<capacity, seatLimit, txn>> /\ txn = NoTxn
    BY <1>4 DEF CommitSetStatus
  <2>2. CASE statusEdit = "cancelled"
    <3>1. \A u \in Users : rows'[u].status \notin Active
      BY <1>4, <2>2, CancelRowsEmpty DEF CommitSetStatus
    <3>2. Quiet
      BY <2>1, <3>1, StatusFacts DEF Quiet
    <3> QED
      BY <3>2, QuietKeepsSeats
  <2>3. CASE statusEdit # "cancelled"
    <3>1. eventStatus' # "cancelled" /\ UNCHANGED rows
      BY <1>4, <2>3 DEF CommitSetStatus
    <3>2. Quiet
      BY <2>1, <3>1 DEF Quiet
    <3> QED
      BY <3>2, QuietKeepsSeats
  <2> QED
    BY <2>2, <2>3
<1>5. ASSUME NEW c \in CapacityEdits \cup {capacity}, NEW review \in ReviewEdits,
             BeginUpdateEvent(c, review)
      PROVE  SeatInv'
  <2>1. Quiet
    BY <1>5 DEF BeginUpdateEvent, Quiet
  <2> QED
    BY <2>1, QuietKeepsSeats
<1>6. CASE CommitUpdateEvent
  <2>1. eventEdit.capacity \in Nat /\ Cardinality(Occupants) \in Nat
    BY UserSets DEF TypeOK, EventEditRecords, Occupants
  <2>2. /\ capacity' = eventEdit.capacity /\ txn = NoTxn
        /\ UNCHANGED <<txn, rows, eventStatus>>
        /\ seatLimit' = IF capacity' \in 1 .. Cardinality(Occupants)
                        THEN Cardinality(Occupants) ELSE capacity'
    BY <1>6 DEF CommitUpdateEvent
  <2> QED
    BY <2>1, <2>2 DEF SeatInv, NoOversell, CancelledIsEmpty, Occupants, NoTxn
<1>7. ASSUME NEW t \in Tiers, NEW offer \in TierEdits, BeginUpdateTier(t, offer) PROVE SeatInv'
  <2>1. Quiet
    BY <1>7 DEF BeginUpdateTier, Quiet
  <2> QED
    BY <2>1, QuietKeepsSeats
<1>8. CASE CommitUpdateTier
  <2>1. Quiet
    BY <1>8 DEF CommitUpdateTier, Quiet
  <2> QED
    BY <2>1, QuietKeepsSeats
<1> QED
  BY <1>1, <1>2, <1>3, <1>4, <1>5, <1>6, <1>7, <1>8 DEF Host

LEMMA SeatAdmin == TypeOK /\ SeatInv /\ Admin => SeatInv'
<1> SUFFICES ASSUME TypeOK, SeatInv, Admin PROVE SeatInv'
  OBVIOUS
<1> USE DEF eventVars, tierVars, seatVars, moneyVars
<1>1. CASE AdminCancelEvent
  <2>1. \A u \in Users : rows'[u].status \notin Active
    BY <1>1, CancelRowsEmpty DEF AdminCancelEvent
  <2>2. UNCHANGED <<capacity, seatLimit, txn>> /\ txn = NoTxn
    BY <1>1 DEF AdminCancelEvent
  <2>3. Quiet
    BY <2>1, <2>2, StatusFacts DEF Quiet
  <2> QED
    BY <2>3, QuietKeepsSeats
<1>2. CASE AdminUnpublishEvent
  <2>1. Quiet
    BY <1>2 DEF AdminUnpublishEvent, Quiet
  <2> QED
    BY <2>1, QuietKeepsSeats
<1> QED
  BY <1>1, <1>2 DEF Admin

LEMMA CheckoutIsQuiet == TypeOK /\ Checkout => Quiet
<1> SUFFICES ASSUME TypeOK, NEW o \in Orders,
                    \/ CreateOrder(o) \/ CreateOrderFails(o) \/ ReleaseReservation(o)
                    \/ AttachPaymentOrder(o) \/ AttachFails(o)
                    \/ Pay(o) \/ ConfirmPayment(o) \/ FailPayment(o)
             PROVE  Quiet
  BY DEF Checkout
<1> USE DEF eventVars, tierVars, seatVars, moneyVars
<1> DEFINE u == orders[o].user
<1>1. rows \in [Users -> Rows]
  BY DEF TypeOK
<1>2. UNCHANGED <<capacity, seatLimit, eventStatus, txn>>
  BY DEF CreateOrder, CreateOrderFails, ReleaseReservation, AttachPaymentOrder, AttachFails,
         Pay, ConfirmPayment, FailPayment
<1>3. \A v \in Users : rows'[v].status # rows[v].status
                       => /\ rows[v].status = "pending_payment"
                          /\ rows'[v].status \in {"confirmed", "cancelled"}
  <2>1. CASE CreateOrder(o) \/ CreateOrderFails(o) \/ AttachFails(o) \/ Pay(o)
    BY <2>1 DEF CreateOrder, CreateOrderFails, AttachFails, Pay
  <2>2. CASE ReleaseReservation(o)
    BY <1>1, <2>2 DEF ReleaseReservation, Rows
  <2>3. CASE AttachPaymentOrder(o)
    BY <1>1, <2>3 DEF AttachPaymentOrder, Rows
  <2>4. CASE ConfirmPayment(o)
    BY <1>1, <2>4 DEF ConfirmPayment, Rows
  <2>5. CASE FailPayment(o)
    BY <1>1, <2>5 DEF FailPayment, Rows
  <2> QED
    BY <2>1, <2>2, <2>3, <2>4, <2>5
<1> QED
  BY <1>2, <1>3, StatusFacts DEF Quiet

LEMMA RefundsAreQuiet == TypeOK /\ Refunds => Quiet
<1> SUFFICES ASSUME TypeOK, NEW j \in Jobs,
                    \/ ListRefunds(j) \/ MarkRefunded(j) \/ MarkFails(j)
                    \/ \E p \in Orders : \/ RefundSucceeds(j, p)
                                         \/ \E done \in BOOLEAN : RefundFails(j, p, done)
             PROVE  Quiet
  BY DEF Refunds
<1> USE DEF eventVars, tierVars, seatVars, moneyVars
<1>1. UNCHANGED <<capacity, seatLimit, eventStatus, txn>>
  BY DEF ListRefunds, MarkRefunded, MarkFails, RefundSucceeds, RefundFails
<1>2. \A u \in Users : rows'[u].status = rows[u].status
  <2>1. CASE MarkRefunded(j)
    BY <2>1 DEF MarkRefunded, TypeOK, Rows
  <2>2. CASE ~MarkRefunded(j)
    BY <2>2 DEF ListRefunds, MarkFails, RefundSucceeds, RefundFails
  <2> QED
    BY <2>1, <2>2
<1> QED
  BY <1>1, <1>2 DEF Quiet

LEMMA EnvironmentIsQuiet == TypeOK /\ Environment => Quiet
BY DEF Environment, EndTimePasses, ArchivePastEvents, Crash, Quiet,
       eventVars, tierVars, seatVars, moneyVars

LEMMA SeatStep == TypeOK /\ SeatInv /\ [Next]_vars => SeatInv'
<1>1. UNCHANGED vars => Quiet
  BY DEF vars, eventVars, tierVars, seatVars, moneyVars, Quiet
<1> QED
  BY <1>1, SeatAttendee, SeatHost, SeatAdmin, CheckoutIsQuiet, RefundsAreQuiet,
     EnvironmentIsQuiet, QuietKeepsSeats DEF Next

(* The inductive invariant of the seats holds in every reachable state     *)
THEOREM SeatsCorrect == Spec => []SeatInv
BY SeatInit, SeatStep, TypeInit, TypeStep, PTL DEF Spec

(* No interleaving of the handlers and webhooks seats more attendees than  *)
(* the event's capacity, or than an edit of the capacity found seated.     *)
THEOREM NeverOversold == Spec => []NoOversell
<1>1. SeatInv => NoOversell
  BY DEF SeatInv
<1> QED
  BY <1>1, SeatsCorrect, PTL

(* Once an event is cancelled nobody holds, awaits or waits for a seat.    *)
THEOREM CancelledHoldsNobody == Spec => []CancelledIsEmpty
<1>1. SeatInv => CancelledIsEmpty
  BY DEF SeatInv
<1> QED
  BY <1>1, SeatsCorrect, PTL

-----------------------------------------------------------------------------
(***************************************************************************)
(* Money.  A refund goroutine works from a list it read earlier.  That the *)
(* payments on it cannot return to a confirmed row rests on: a payment and *)
(* an order stay with their user; a row awaiting a payment names no        *)
(* payment; and an order the ledger knows is the payment of its row, so    *)
(* the webhook cannot confirm it twice.                                    *)
(***************************************************************************)
Owed(j) == jobs[j].due \cup ({jobs[j].paying} \ {0})

PaymentsOwned ==
  \A u \in Users : rows[u].payment # 0 =>
     /\ rows[u].status \in {"confirmed", "cancelled"}
     /\ orders[rows[u].payment].user = u
     /\ ledger[rows[u].payment] # "none"

OrdersOwned ==
  \A u \in Users : rows[u].order # 0 =>
     /\ orders[rows[u].order].user = u
     /\ orders[rows[u].order].state \in {"open", "paid", "refunded"}
     /\ ledger[rows[u].order] # "none" => rows[u].payment = rows[u].order

OwedIsCancelled ==
  \A j \in Jobs : \A p \in Owed(j) :
     /\ ledger[p] # "none"
     /\ \A u \in Users : rows[u].payment = p => rows[u].status = "cancelled"

MarkingIsRefunded ==
  \A j \in Jobs : jobs[j].paying # 0 => orders[jobs[j].paying].state = "refunded"

MoneyInv == /\ PaymentsOwned /\ OrdersOwned /\ OwedIsCancelled /\ MarkingIsRefunded
            /\ SeatedMoneyHeld /\ LedgerAgrees

(* The open transaction against the row it read: no payment has arrived    *)
TxnInv ==
  /\ txn.op = "rsvp" => rows[txn.user].status \in {"none", "cancelled", "pending_payment"}
  /\ txn.op = "cancel" /\ Refundable(rows[txn.user]) => txn.refundable

LEMMA MoneyInit == Init => MoneyInv
<1> SUFFICES ASSUME Init PROVE MoneyInv
  OBVIOUS
<1>1. \A u \in Users : rows[u].payment = 0 /\ rows[u].order = 0
  BY DEF Init, NoRow
<1>2. \A j \in Jobs : jobs[j].paying = 0 /\ Owed(j) = {}
  BY DEF Init, IdleJob, Owed
<1>3. \A o \in Orders : ledger[o] = "none" /\ orders[o].state = "unused"
  BY DEF Init, UnusedOrder
<1> QED
  BY <1>1, <1>2, <1>3 DEF MoneyInv, PaymentsOwned, OrdersOwned, OwedIsCancelled,
                          MarkingIsRefunded, SeatedMoneyHeld, LedgerAgrees

(* What MoneyInv says of the rows, orders and goroutines it is about *)
LEMMA MoneyRanges ==
  ASSUME TypeOK
  PROVE  /\ \A u \in Users : rows[u].payment # 0 => rows[u].payment \in Orders
         /\ \A u \in Users : rows[u].order # 0 => rows[u].order \in Orders
         /\ \A j \in Jobs : Owed(j) \subseteq Orders
         /\ \A j \in Jobs : jobs[j].paying # 0 => jobs[j].paying \in Orders
BY BoundAssumption DEF TypeOK, Rows, JobRecords, Owed

(* A step that opens, pays and refunds no order and starts no refund *)
OrdersKept ==
  /\ \A o \in Orders : /\ orders[o].state \in {"open", "paid", "refunded"} => orders'[o] = orders[o]
                       /\ orders[o].state \notin {"open", "paid", "refunded"}
                            => orders'[o].state \notin {"open", "paid", "refunded"}
  /\ UNCHANGED ledger
  /\ \A j \in Jobs : Owed(j)' \subseteq Owed(j) /\ jobs'[j].paying \in {0, jobs[j].paying}

RowsKept ==
  \A u \in Users : \/ rows'[u].payment = 0 /\ rows'[u].order = 0
                   \/ /\ rows'[u].payment = rows[u].payment /\ rows'[u].order = rows[u].order
                      /\ rows[u].payment # 0 => rows'[u].status \in {rows[u].status, "cancelled"}

LEMMA KeptKeepsMoney == TypeOK /\ MoneyInv /\ OrdersKept /\ RowsKept => MoneyInv'
<1> SUFFICES ASSUME TypeOK, MoneyInv, OrdersKept, RowsKept PROVE MoneyInv'
  OBVIOUS
<1>1. \A o \in Orders : ledger[o] # "none" => orders[o].state \in {"paid", "refunded"}
  BY DEF MoneyInv, LedgerAgrees, TypeOK
<1>2. /\ ledger' = ledger
      /\ \A o \in Orders : ledger[o] # "none" => orders'[o] = orders[o]
      /\ \A o \in Orders : orders[o].state \in {"open", "paid", "refunded"} => orders'[o] = orders[o]
      /\ \A o \in Orders : orders'[o].state = "refunded" => orders[o].state = "refunded"
  BY <1>1 DEF OrdersKept
<1>3. \A u \in Users : rows'[u].payment # 0 =>
        /\ rows'[u].payment = rows[u].payment /\ rows[u].payment \in Orders
        /\ rows'[u].status \in {rows[u].status, "cancelled"}
  BY MoneyRanges DEF RowsKept
<1>4. \A u \in Users : rows'[u].order # 0 =>
        /\ rows'[u].order = rows[u].order /\ rows[u].order \in Orders
        /\ rows'[u].payment = rows[u].payment
  BY MoneyRanges DEF RowsKept
<1>5. PaymentsOwned'
  BY <1>2, <1>3 DEF PaymentsOwned, MoneyInv
<1>6. OrdersOwned'
  BY <1>2, <1>4 DEF OrdersOwned, MoneyInv
<1>7. OwedIsCancelled'
  <2> SUFFICES ASSUME NEW j \in Jobs, NEW p \in Owed(j)'
               PROVE  /\ ledger'[p] # "none"
                      /\ \A u \in Users : rows'[u].payment = p => rows'[u].status = "cancelled"
    BY DEF OwedIsCancelled
  <2>1. p \in Owed(j) /\ p \in Orders /\ p # 0
    BY MoneyRanges, BoundAssumption DEF OrdersKept
  <2> QED
    BY <1>2, <1>3, <2>1 DEF MoneyInv, OwedIsCancelled
<1>8. MarkingIsRefunded'
  <2> SUFFICES ASSUME NEW j \in Jobs, jobs'[j].paying # 0
               PROVE  orders'[jobs'[j].paying].state = "refunded"
    BY DEF MarkingIsRefunded
  <2>1. jobs'[j].paying = jobs[j].paying /\ jobs[j].paying \in Orders
    BY MoneyRanges DEF OrdersKept
  <2> QED
    BY <1>2, <2>1 DEF MoneyInv, MarkingIsRefunded
<1>9. SeatedMoneyHeld'
  BY <1>2, <1>3 DEF MoneyInv, SeatedMoneyHeld
<1>10. LedgerAgrees'
  BY <1>1, <1>2 DEF MoneyInv, LedgerAgrees
<1> QED
  BY <1>5, <1>6, <1>7, <1>8, <1>9, <1>10 DEF MoneyInv

(* Rows of which only the status changes, and not of a paid one unless it  *)
(* is cancelled, and rows that are written anew                            *)
LEMMA StatusKeepsRow ==
  ASSUME NEW r \in Rows, NEW s
  PROVE  /\ [r EXCEPT !.status = s].status = s
         /\ [r EXCEPT !.status = s].payment = r.payment
         /\ [r EXCEPT !.status = s].order = r.order
         /\ LeaveSeat(r).status = "cancelled"
         /\ LeaveSeat(r).payment = r.payment /\ LeaveSeat(r).order = r.order
BY DEF Rows, LeaveSeat

LEMMA UnchangedOrdersKept ==
  ASSUME UNCHANGED <<orders, ledger>>, jobs' = jobs \/ StartRefundAll, TypeOK
  PROVE  OrdersKept
<1>1. \A j \in Jobs : jobs'[j].due = jobs[j].due /\ jobs'[j].paying = jobs[j].paying
  BY DEF StartRefundAll, TypeOK, JobRecords
<1> QED
  BY <1>1 DEF OrdersKept, Owed

LEMMA CheckoutOrdersKept ==
  ASSUME UNCHANGED <<ledger, jobs>>, NEW u \in Users, StartCheckout(u), TypeOK
  PROVE  OrdersKept
<1>1. PICK o \in Orders : /\ orders[o].state = "unused"
                         /\ orders' = [orders EXCEPT ![o] = [user |-> u, state |-> "requested"]]
  <2>1. PICK o \in Orders : /\ \A p \in Orders : orders[p].state = "unused" <=> p >= o
                           /\ orders' = [orders EXCEPT ![o] = [user |-> u, state |-> "requested"]]
    BY DEF StartCheckout
  <2>2. orders[o].state = "unused"
    BY <2>1
  <2> QED
    BY <2>1, <2>2
<1>2. \A p \in Orders : /\ p # o => orders'[p] = orders[p]
                        /\ orders'[o].state = "requested"
  BY <1>1 DEF TypeOK
<1> QED
  BY <1>1, <1>2 DEF OrdersKept, Owed

LEMMA MoneyAttendee == TypeOK /\ MoneyInv /\ Attendee => MoneyInv'
<1> SUFFICES ASSUME TypeOK, MoneyInv, Attendee PROVE MoneyInv'
  OBVIOUS
<1> USE DEF eventVars, tierVars, seatVars, moneyVars
<1>1. CASE UNCHANGED <<rows, moneyVars>>
  <2>1. OrdersKept /\ RowsKept
    BY <1>1, UnchangedOrdersKept DEF RowsKept
  <2> QED
    BY <2>1, KeptKeepsMoney
<1>2. CASE CommitRSVP
  <2>1. txn.user \in Users
    BY <1>2 DEF CommitRSVP, TypeOK, Txns, NoTxn
  <2>2. OrdersKept
    BY <1>2, <2>1, UnchangedOrdersKept, CheckoutOrdersKept DEF CommitRSVP
  <2>3. rows'[txn.user].payment = 0 /\ rows'[txn.user].order = 0
    BY <1>2, <2>1 DEF CommitRSVP, TypeOK, ApplyRSVPSeat
  <2>4. \A v \in Users \ {txn.user} : rows'[v] = rows[v]
    BY <1>2, <2>1 DEF CommitRSVP, TypeOK
  <2>5. RowsKept
    BY <2>3, <2>4 DEF RowsKept
  <2> QED
    BY <2>2, <2>5, KeptKeepsMoney
<1>3. CASE CommitCancel
  <2>1. txn.user \in Users /\ rows \in [Users -> Rows]
    BY <1>3 DEF CommitCancel, TypeOK, Txns, NoTxn
  <2>2. OrdersKept
    BY <1>3, UnchangedOrdersKept DEF CommitCancel
  <2> DEFINE left == [rows EXCEPT ![txn.user] = LeaveSeat(@)]
  <2>3. \A v \in Users : /\ left[v].payment = rows[v].payment /\ left[v].order = rows[v].order
                         /\ left[v].status \in {rows[v].status, "cancelled"}
                         /\ v # txn.user => left[v] = rows[v]
    BY <2>1, StatusKeepsRow
  <2>4. left \in [Users -> Rows]
    BY <2>1, LeaveSeatType
  <2>5. CASE rows' = left
    <3>1. RowsKept
      BY <2>3, <2>5 DEF RowsKept
    <3> QED
      BY <2>2, <3>1, KeptKeepsMoney
  <2>6. ASSUME NEW w \in Waitlist \ {txn.user}, NEW s, rows' = [left EXCEPT ![w].status = s]
        PROVE  MoneyInv'
    <3>1. w \in Users /\ rows[w].payment = 0
      BY DEF Waitlist, MoneyInv, PaymentsOwned
    <3>2. /\ rows'[w].payment = left[w].payment /\ rows'[w].order = left[w].order
          /\ \A v \in Users \ {w} : rows'[v] = left[v]
      BY <2>4, <2>6, <3>1, StatusKeepsRow
    <3>3. RowsKept
      BY <2>3, <3>1, <3>2 DEF RowsKept
    <3> QED
      BY <2>2, <3>3, KeptKeepsMoney
  <2>7. CASE ~RsvpFreesNoSeat(txn.seen) /\ Waitlist \ {txn.user} # {}
    <3>1. PICK w \in Waitlist \ {txn.user} :
            rows' = [left EXCEPT ![w].status =
                       IF tiers[rows[w].tier].price > 0 THEN "pending_payment" ELSE "confirmed"]
      BY <1>3, <2>7 DEF CommitCancel, PromoteFromWaitlist
    <3> HIDE DEF left
    <3> QED
      BY <2>6, <3>1
  <2> QED
    BY <1>3, <2>5, <2>7 DEF CommitCancel, PromoteFromWaitlist
<1> QED
  BY <1>1, <1>2, <1>3 DEF Attendee, BeginRSVP, BeginCancel, Rollback

LEMMA MoneyHostAdminEnvironment ==
  TypeOK /\ MoneyInv /\ (Host \/ Admin \/ Environment) => MoneyInv'
<1> SUFFICES ASSUME TypeOK, MoneyInv, Host \/ Admin \/ Environment PROVE MoneyInv'
  OBVIOUS
<1> USE DEF eventVars, tierVars, seatVars, moneyVars
<1>0. rows \in [Users -> Rows]
  BY DEF TypeOK
<1>1. ASSUME UNCHANGED rows PROVE RowsKept
  BY <1>1 DEF RowsKept
<1>2. ASSUME rows' = CancelRows PROVE RowsKept
  <2> SUFFICES ASSUME NEW u \in Users
               PROVE  /\ rows'[u].payment = rows[u].payment /\ rows'[u].order = rows[u].order
                      /\ rows'[u].status \in {rows[u].status, "cancelled"}
    BY DEF RowsKept
  <2>1. rows'[u] \in {rows[u], [rows[u] EXCEPT !.status = "cancelled"]}
    BY <1>2 DEF CancelRows
  <2>2. rows[u] \in Rows
    BY <1>0
  <2>3. CASE rows'[u] = [rows[u] EXCEPT !.status = "cancelled"]
    BY <2>2, <2>3, StatusKeepsRow
  <2> QED
    BY <2>1, <2>3
<1>3. ASSUME NEW u \in Users, RejectRSVP(u) PROVE MoneyInv'
  <2>1. RowsKept
    BY <1>0, <1>3, StatusKeepsRow DEF RejectRSVP, RowsKept
  <2>2. OrdersKept
    BY <1>3, UnchangedOrdersKept DEF RejectRSVP
  <2> QED
    BY <2>1, <2>2, KeptKeepsMoney
<1>4. ASSUME NEW u \in Users, ApproveRSVP(u) PROVE MoneyInv'
  <2>1. rows[u].payment = 0
    BY <1>4 DEF ApproveRSVP, Review, MoneyInv, PaymentsOwned
  <2>2. PICK s, c : rows' = [rows EXCEPT ![u] = [rows[u] EXCEPT !.status = s, !.coupon = c]]
    BY <1>4 DEF ApproveRSVP
  <2>3. /\ rows'[u].payment = rows[u].payment /\ rows'[u].order = rows[u].order
        /\ \A v \in Users \ {u} : rows'[v] = rows[v]
    BY <1>0, <2>2 DEF Rows
  <2>4. RowsKept
    BY <2>1, <2>3 DEF RowsKept
  <2>5. UNCHANGED <<ledger, jobs>> /\ (StartCheckout(u) \/ UNCHANGED orders)
    BY <1>4 DEF ApproveRSVP
  <2>6. OrdersKept
    BY <2>5, UnchangedOrdersKept, CheckoutOrdersKept
  <2> QED
    BY <2>4, <2>6, KeptKeepsMoney
<1>5. ASSUME CommitSetStatus PROVE MoneyInv'
  <2>1. RowsKept
    BY <1>1, <1>2, <1>5 DEF CommitSetStatus
  <2>2. OrdersKept
    BY <1>5, UnchangedOrdersKept DEF CommitSetStatus
  <2> QED
    BY <2>1, <2>2, KeptKeepsMoney
<1>6. ASSUME AdminCancelEvent PROVE MoneyInv'
  <2>1. RowsKept /\ OrdersKept
    BY <1>2, <1>6, UnchangedOrdersKept DEF AdminCancelEvent
  <2> QED
    BY <2>1, KeptKeepsMoney
<1>7. ASSUME Crash PROVE MoneyInv'
  <2>1. RowsKept
    BY <1>1, <1>7 DEF Crash
  <2>2. \A j \in Jobs : Owed(j)' = {} /\ jobs'[j].paying = 0
    BY <1>7 DEF Crash, IdleJob, Owed
  <2>3. OrdersKept
    BY <1>7, <2>2 DEF Crash, OrdersKept, TypeOK, OrderRecords, UnusedOrder
  <2> QED
    BY <2>1, <2>3, KeptKeepsMoney
<1>8. ASSUME UNCHANGED <<rows, moneyVars>> PROVE MoneyInv'
  <2>1. RowsKept /\ OrdersKept
    BY <1>1, <1>8, UnchangedOrdersKept
  <2> QED
    BY <2>1, KeptKeepsMoney
<1> QED
  BY <1>3, <1>4, <1>5, <1>6, <1>7, <1>8
  DEF Host, Admin, Environment, BeginSetStatus, BeginUpdateEvent, CommitUpdateEvent,
      BeginUpdateTier, CommitUpdateTier,
      AdminUnpublishEvent, EndTimePasses, ArchivePastEvents

LEMMA MoneyCheckout == TypeOK /\ MoneyInv /\ Checkout => MoneyInv'
<1> SUFFICES ASSUME TypeOK, MoneyInv, NEW o \in Orders,
                    \/ CreateOrder(o) \/ CreateOrderFails(o) \/ ReleaseReservation(o)
                    \/ AttachPaymentOrder(o) \/ AttachFails(o)
                    \/ Pay(o) \/ ConfirmPayment(o) \/ FailPayment(o)
             PROVE  MoneyInv'
  BY DEF Checkout
<1> USE DEF eventVars, tierVars, seatVars, moneyVars
<1> DEFINE u == orders[o].user
<1>0. /\ rows \in [Users -> Rows] /\ orders \in [Orders -> OrderRecords]
      /\ ledger \in [Orders -> {"none", "captured", "refunded"}]
  BY DEF TypeOK
<1>1. orders[o].state # "unused" => u \in Users
  BY <1>0 DEF OrderRecords, UnusedOrder
<1>2. o # 0
  BY BoundAssumption
<1>3. ASSUME NEW s, SetOrder(o, s)
      PROVE  /\ orders'[o].state = s /\ orders'[o].user = u
             /\ \A p \in Orders \ {o} : orders'[p] = orders[p]
  BY <1>0, <1>3 DEF SetOrder, OrderRecords, UnusedOrder
<1>4. ASSUME UNCHANGED jobs PROVE \A j \in Jobs : Owed(j)' = Owed(j)
  BY <1>4 DEF Owed
<1>5. CASE CreateOrder(o) \/ CreateOrderFails(o) \/ AttachFails(o)
  <2>1. /\ orders[o].state \in {"requested", "created"} /\ UNCHANGED <<rows, ledger, jobs>>
        /\ SetOrder(o, "created") \/ SetOrder(o, "releasing") \/ SetOrder(o, "dead")
    BY <1>5 DEF CreateOrder, CreateOrderFails, AttachFails
  <2>2. orders'[o].state \in {"created", "releasing", "dead"} /\ \A p \in Orders \ {o} : orders'[p] = orders[p]
    BY <1>3, <2>1
  <2>3. OrdersKept
    BY <1>4, <2>1, <2>2 DEF OrdersKept
  <2>4. RowsKept
    BY <2>1 DEF RowsKept
  <2> QED
    BY <2>3, <2>4, KeptKeepsMoney
<1>6. CASE ReleaseReservation(o)
  <2>1. u \in Users
    BY <1>1, <1>6 DEF ReleaseReservation
  <2>2. orders'[o].state = "dead" /\ \A p \in Orders \ {o} : orders'[p] = orders[p]
    BY <1>3, <1>6 DEF ReleaseReservation
  <2>3. OrdersKept
    BY <1>4, <1>6, <2>2 DEF ReleaseReservation, OrdersKept
  <2>4. rows' = [rows EXCEPT ![u] = [rows[u] EXCEPT !.status =
                   IF rows[u].status = "pending_payment" THEN "cancelled" ELSE rows[u].status]]
    BY <1>6 DEF ReleaseReservation
  <2>5. RowsKept
    BY <1>0, <2>1, <2>4, StatusKeepsRow DEF RowsKept
  <2> QED
    BY <2>3, <2>5, KeptKeepsMoney
<1>7. CASE FailPayment(o)
  <2>1. u \in Users
    BY <1>1, <1>7 DEF FailPayment
  <2>2. rows' = [rows EXCEPT ![u] = [rows[u] EXCEPT !.status = "cancelled"]]
    BY <1>7 DEF FailPayment
  <2>3. RowsKept
    BY <1>0, <2>1, <2>2, StatusKeepsRow DEF RowsKept
  <2>4. OrdersKept
    BY <1>7, UnchangedOrdersKept DEF FailPayment
  <2> QED
    BY <2>3, <2>4, KeptKeepsMoney
<1>8. CASE AttachPaymentOrder(o)
  <2>1. u \in Users /\ orders[o].state = "created" /\ UNCHANGED <<ledger, jobs>>
    BY <1>1, <1>8 DEF AttachPaymentOrder
  <2>2. ledger[o] = "none"
    BY <1>0, <2>1 DEF MoneyInv, LedgerAgrees
  <2>3. orders'[o].state = "open" /\ orders'[o].user = u /\ \A p \in Orders \ {o} : orders'[p] = orders[p]
    BY <1>3, <1>8 DEF AttachPaymentOrder
  <2>4. /\ rows'[u].order = o /\ rows'[u].payment = rows[u].payment /\ rows'[u].status = rows[u].status
        /\ \A v \in Users \ {u} : rows'[v] = rows[v]
    BY <1>0, <1>8, <2>1 DEF AttachPaymentOrder, Rows
  <2>5. \A v \in Users : rows'[v].payment = rows[v].payment /\ rows'[v].status = rows[v].status
    BY <2>4
  <2>6. \A v \in Users : rows[v].payment # 0 => rows[v].payment \in Orders \ {o}
    BY <2>2, MoneyRanges DEF MoneyInv, PaymentsOwned
  <2>7. PaymentsOwned'
    BY <2>1, <2>3, <2>5, <2>6 DEF MoneyInv, PaymentsOwned
  <2>8. OrdersOwned'
    <3> SUFFICES ASSUME NEW v \in Users, rows'[v].order # 0
                 PROVE  /\ orders'[rows'[v].order].user = v
                        /\ orders'[rows'[v].order].state \in {"open", "paid", "refunded"}
                        /\ ledger'[rows'[v].order] # "none" => rows'[v].payment = rows'[v].order
      BY DEF OrdersOwned
    <3>1. CASE v = u
      BY <2>1, <2>2, <2>3, <2>4, <3>1
    <3>2. CASE v # u
      <4>1. rows'[v] = rows[v] /\ rows[v].order \in Orders
        BY <2>4, <3>2, MoneyRanges
      <4>2. rows[v].order # o
        BY <2>1, <4>1 DEF MoneyInv, OrdersOwned
      <4> QED
        BY <2>1, <2>3, <4>1, <4>2 DEF MoneyInv, OrdersOwned
    <3> QED
      BY <3>1, <3>2
  <2>9. OwedIsCancelled' /\ MarkingIsRefunded'
    <3>1. \A j \in Jobs : jobs[j].paying # 0 => jobs[j].paying \in Orders /\ jobs[j].paying # o
      BY <2>1, MoneyRanges DEF MoneyInv, MarkingIsRefunded
    <3> QED
      BY <1>4, <2>1, <2>3, <2>5, <3>1 DEF MoneyInv, OwedIsCancelled, MarkingIsRefunded
  <2>10. SeatedMoneyHeld' /\ LedgerAgrees'
    BY <2>1, <2>2, <2>3, <2>5, <2>6 DEF MoneyInv, SeatedMoneyHeld, LedgerAgrees
  <2> QED
    BY <2>7, <2>8, <2>9, <2>10 DEF MoneyInv
<1>9. CASE Pay(o)
  <2>1. orders[o].state = "open" /\ UNCHANGED <<rows, ledger, jobs>>
    BY <1>9 DEF Pay
  <2>2. ledger[o] = "none"
    BY <1>0, <2>1 DEF MoneyInv, LedgerAgrees
  <2>3. orders'[o].state = "paid" /\ orders'[o].user = u /\ \A p \in Orders \ {o} : orders'[p] = orders[p]
    BY <1>3, <1>9 DEF Pay
  <2>4. PaymentsOwned' /\ OrdersOwned'
    BY <2>1, <2>3, MoneyRanges DEF MoneyInv, PaymentsOwned, OrdersOwned
  <2>5. OwedIsCancelled' /\ MarkingIsRefunded'
    <3>1. \A j \in Jobs : jobs[j].paying # 0 => jobs[j].paying \in Orders /\ jobs[j].paying # o
      BY <2>1, MoneyRanges DEF MoneyInv, MarkingIsRefunded
    <3> QED
      BY <1>4, <2>1, <2>3, <3>1 DEF MoneyInv, OwedIsCancelled, MarkingIsRefunded
  <2>6. SeatedMoneyHeld' /\ LedgerAgrees'
    BY <2>1, <2>2, <2>3, MoneyRanges DEF MoneyInv, SeatedMoneyHeld, LedgerAgrees
  <2> QED
    BY <2>4, <2>5, <2>6 DEF MoneyInv
<1>10. CASE ConfirmPayment(o)
  <2>1. /\ u \in Users /\ rows[u].order = o /\ rows[u].status = "pending_payment"
        /\ orders[o].state \in {"paid", "refunded"} /\ UNCHANGED <<orders, jobs>>
        /\ rows' = [rows EXCEPT ![u] = [rows[u] EXCEPT !.status = "confirmed", !.payment = o,
                                                       !.captured = TRUE]]
        /\ ledger' = [ledger EXCEPT ![o] = IF ledger[o] = "none" THEN "captured" ELSE ledger[o]]
    BY <1>1, <1>10 DEF ConfirmPayment
  <2>2. rows[u].payment = 0
    BY <2>1 DEF MoneyInv, PaymentsOwned
  <2>3. ledger[o] = "none"
    BY <1>2, <2>1, <2>2 DEF MoneyInv, OrdersOwned
  <2>4. orders[o].state = "paid"
    BY <2>1, <2>3 DEF MoneyInv, LedgerAgrees
  <2>5. /\ rows'[u].status = "confirmed" /\ rows'[u].payment = o /\ rows'[u].order = o
        /\ \A v \in Users \ {u} : rows'[v] = rows[v]
    BY <1>0, <2>1 DEF Rows
  <2>6. ledger'[o] = "captured" /\ \A p \in Orders \ {o} : ledger'[p] = ledger[p]
    BY <1>0, <2>1, <2>3
  <2>7. \A v \in Users : rows[v].payment # 0 => rows[v].payment \in Orders \ {o}
    BY <2>3, MoneyRanges DEF MoneyInv, PaymentsOwned
  <2>8. PaymentsOwned' /\ SeatedMoneyHeld'
    BY <2>1, <2>4, <2>5, <2>6, <2>7 DEF MoneyInv, PaymentsOwned, SeatedMoneyHeld
  <2>9. OrdersOwned'
    <3>1. \A v \in Users \ {u} : rows[v].order # 0 => rows[v].order \in Orders \ {o}
      BY <2>1, MoneyRanges DEF MoneyInv, OrdersOwned
    <3>2. orders[o].user = u
      OBVIOUS
    <3> QED
      BY <2>1, <2>5, <2>6, <3>1, <3>2 DEF MoneyInv, OrdersOwned
  <2>10. OwedIsCancelled'
    <3>1. \A j \in Jobs : \A p \in Owed(j) : p \in Orders \ {o}
      BY <2>3, MoneyRanges DEF MoneyInv, OwedIsCancelled
    <3> QED
      BY <1>4, <2>1, <2>5, <2>6, <3>1 DEF MoneyInv, OwedIsCancelled
  <2>11. MarkingIsRefunded' /\ LedgerAgrees'
    BY <2>1, <2>4, <2>6 DEF MoneyInv, MarkingIsRefunded, LedgerAgrees
  <2> QED
    BY <2>8, <2>9, <2>10, <2>11 DEF MoneyInv
<1> QED
  BY <1>5, <1>6, <1>7, <1>8, <1>9, <1>10

(* A step of one refund goroutine: no row changes status, payment or order; *)
(* money is only given back of payments that are owed, and marked only once *)
(* given back; what a goroutine owes, it owed or is in PendingRefunds.      *)
RefundStep(j) ==
  /\ \A u \in Users : /\ rows'[u].status = rows[u].status
                      /\ rows'[u].payment = rows[u].payment /\ rows'[u].order = rows[u].order
  /\ \A o \in Orders : /\ orders'[o].user = orders[o].user
                       /\ orders'[o] # orders[o] => /\ o \in Owed(j) /\ orders'[o].state = "refunded"
                       /\ ledger'[o] # ledger[o] => /\ o = jobs[j].paying /\ ledger[o] # "none"
                                                    /\ ledger'[o] = "refunded"
  /\ \A i \in Jobs \ {j} : jobs'[i] = jobs[i]
  /\ Owed(j)' \subseteq Owed(j) \cup PendingRefunds
  /\ jobs'[j].paying # 0 => orders'[jobs'[j].paying].state = "refunded"

LEMMA RefundKeepsMoney ==
  ASSUME TypeOK, MoneyInv, NEW j \in Jobs, RefundStep(j)
  PROVE  MoneyInv'
<1>1. \A u \in Users : /\ rows'[u].status = rows[u].status
                       /\ rows'[u].payment = rows[u].payment /\ rows'[u].order = rows[u].order
  BY DEF RefundStep
<1>2. \A o \in Orders : /\ orders'[o].user = orders[o].user
                        /\ orders'[o] # orders[o] => /\ o \in Owed(j) /\ orders'[o].state = "refunded"
                        /\ ledger'[o] # ledger[o] => /\ o = jobs[j].paying /\ ledger[o] # "none"
                                                     /\ ledger'[o] = "refunded"
  BY DEF RefundStep
<1>3. \A o \in Orders : ledger'[o] # "none" <=> ledger[o] # "none"
  BY <1>2
<1>4. \A o \in Orders : orders[o].state = "refunded" => orders'[o].state = "refunded"
  BY <1>2
<1>5. PaymentsOwned'
  BY <1>1, <1>2, <1>3, MoneyRanges DEF MoneyInv, PaymentsOwned
<1>6. OrdersOwned'
  <2> SUFFICES ASSUME NEW u \in Users, rows[u].order # 0
               PROVE  /\ orders'[rows[u].order].user = u
                      /\ orders'[rows[u].order].state \in {"open", "paid", "refunded"}
                      /\ ledger'[rows[u].order] # "none" => rows[u].payment = rows[u].order
    BY <1>1 DEF OrdersOwned
  <2> QED
    BY <1>2, <1>3, MoneyRanges DEF MoneyInv, OrdersOwned
<1>7. OwedIsCancelled'
  <2>1. \A p \in PendingRefunds : \E u \in Users :
          p = rows[u].payment /\ p # 0 /\ rows[u].status = "cancelled"
    BY DEF PendingRefunds
  <2>2. \A p \in PendingRefunds :
          /\ p \in Orders /\ ledger[p] # "none"
          /\ \A u \in Users : rows[u].payment = p => rows[u].status = "cancelled"
    BY <2>1, MoneyRanges DEF MoneyInv, PaymentsOwned
  <2> SUFFICES ASSUME NEW i \in Jobs, NEW p \in Owed(i)'
               PROVE  /\ ledger'[p] # "none"
                      /\ \A u \in Users : rows[u].payment = p => rows[u].status = "cancelled"
    BY <1>1 DEF OwedIsCancelled
  <2>3. i # j => Owed(i)' = Owed(i)
    BY DEF RefundStep, Owed
  <2>4. p \in Owed(i) \/ p \in PendingRefunds
    BY <2>3 DEF RefundStep
  <2>5. /\ p \in Orders /\ ledger[p] # "none"
        /\ \A u \in Users : rows[u].payment = p => rows[u].status = "cancelled"
    BY <2>2, <2>4, MoneyRanges DEF MoneyInv, OwedIsCancelled
  <2> QED
    BY <1>3, <2>5
<1>8. MarkingIsRefunded'
  <2> SUFFICES ASSUME NEW i \in Jobs, jobs'[i].paying # 0
               PROVE  orders'[jobs'[i].paying].state = "refunded"
    BY DEF MarkingIsRefunded
  <2>1. CASE i = j
    BY <2>1 DEF RefundStep
  <2>2. CASE i # j
    <3>1. jobs'[i].paying = jobs[i].paying /\ jobs[i].paying \in Orders
      BY <2>2, MoneyRanges DEF RefundStep
    <3> QED
      BY <1>4, <3>1 DEF MoneyInv, MarkingIsRefunded
  <2> QED
    BY <2>1, <2>2
<1>9. SeatedMoneyHeld'
  <2> SUFFICES ASSUME NEW u \in Users, rows[u].status = "confirmed", rows[u].payment # 0
               PROVE  /\ ledger'[rows[u].payment] = "captured"
                      /\ orders'[rows[u].payment].state = "paid"
    BY <1>1 DEF SeatedMoneyHeld
  <2> DEFINE p == rows[u].payment
  <2>1. p \in Orders /\ ledger[p] = "captured" /\ orders[p].state = "paid"
    BY MoneyRanges DEF MoneyInv, SeatedMoneyHeld
  <2>2. p \notin Owed(j)
    BY DEF MoneyInv, OwedIsCancelled
  <2>3. p # jobs[j].paying
    BY <2>2 DEF Owed
  <2> QED
    BY <1>2, <2>1, <2>2, <2>3
<1>10. LedgerAgrees'
  <2> SUFFICES ASSUME NEW o \in Orders
               PROVE  /\ ledger'[o] = "refunded" => orders'[o].state = "refunded"
                      /\ ledger'[o] = "captured" => orders'[o].state \in {"paid", "refunded"}
                      /\ orders'[o].state = "refunded" => ledger'[o] # "none"
    BY DEF LedgerAgrees
  <2>1. o \in Owed(j) => ledger[o] # "none"
    BY DEF MoneyInv, OwedIsCancelled
  <2>2. o = jobs[j].paying => orders'[o].state = "refunded"
    BY <1>4, BoundAssumption DEF MoneyInv, MarkingIsRefunded
  <2> QED
    BY <1>2, <1>3, <2>1, <2>2 DEF MoneyInv, LedgerAgrees
<1> QED
  BY <1>5, <1>6, <1>7, <1>8, <1>9, <1>10 DEF MoneyInv

LEMMA MoneyRefunds == TypeOK /\ MoneyInv /\ Refunds => MoneyInv'
<1> SUFFICES ASSUME TypeOK, MoneyInv, NEW j \in Jobs,
                    \/ ListRefunds(j) \/ MarkRefunded(j) \/ MarkFails(j)
                    \/ \E p \in Orders : \/ RefundSucceeds(j, p)
                                         \/ \E done \in BOOLEAN : RefundFails(j, p, done)
             PROVE  RefundStep(j)
  BY RefundKeepsMoney DEF Refunds
<1> USE DEF eventVars, tierVars, seatVars, moneyVars
<1>0. /\ rows \in [Users -> Rows] /\ jobs \in [Jobs -> JobRecords]
      /\ orders \in [Orders -> OrderRecords]
      /\ ledger \in [Orders -> {"none", "captured", "refunded"}]
  BY DEF TypeOK
<1>1. ASSUME NEW due, jobs' = [jobs EXCEPT ![j] = Resume(due)], due \subseteq Owed(j) \cup PendingRefunds
      PROVE  /\ \A i \in Jobs \ {j} : jobs'[i] = jobs[i]
             /\ Owed(j)' \subseteq Owed(j) \cup PendingRefunds
             /\ jobs'[j].paying = 0
  <2>1. jobs'[j] = Resume(due) /\ \A i \in Jobs \ {j} : jobs'[i] = jobs[i]
    BY <1>0, <1>1
  <2>2. Resume(due).due = due /\ Resume(due).paying = 0
    BY DEF Resume, IdleJob
  <2> QED
    BY <1>1, <2>1, <2>2 DEF Owed
<1>2. ASSUME NEW p \in Orders, SetOrder(p, "refunded")
      PROVE  /\ orders'[p].state = "refunded" /\ orders'[p].user = orders[p].user
             /\ \A o \in Orders \ {p} : orders'[o] = orders[o]
  BY <1>0, <1>2 DEF SetOrder, OrderRecords, UnusedOrder
<1>3. CASE ListRefunds(j)
  BY <1>1, <1>3 DEF ListRefunds, RefundStep
<1>4. CASE MarkFails(j)
  BY <1>1, <1>4 DEF MarkFails, RefundStep, Owed
<1>5. CASE MarkRefunded(j)
  <2> DEFINE p == jobs[j].paying
  <2>1. \A u \in Users : /\ rows'[u].status = rows[u].status
                         /\ rows'[u].payment = rows[u].payment /\ rows'[u].order = rows[u].order
    BY <1>0, <1>5 DEF MarkRefunded, Rows
  <2>2. \A o \in Orders : ledger'[o] # ledger[o] => /\ o = p /\ ledger[o] # "none"
                                                    /\ ledger'[o] = "refunded"
    BY <1>0, <1>5 DEF MarkRefunded
  <2>3. /\ \A i \in Jobs \ {j} : jobs'[i] = jobs[i]
        /\ Owed(j)' \subseteq Owed(j) \cup PendingRefunds /\ jobs'[j].paying = 0
    BY <1>1, <1>5 DEF MarkRefunded, Owed
  <2>4. UNCHANGED orders
    BY <1>5 DEF MarkRefunded
  <2> QED
    BY <2>1, <2>2, <2>3, <2>4 DEF RefundStep
<1>6. ASSUME NEW p \in Orders, RefundSucceeds(j, p) PROVE RefundStep(j)
  <2>1. p \in Owed(j) /\ UNCHANGED <<rows, ledger>> /\ SetOrder(p, "refunded")
    BY <1>6 DEF RefundSucceeds, Owed
  <2>2. /\ jobs'[j].due = jobs[j].due \ {p} /\ jobs'[j].paying = p
        /\ \A i \in Jobs \ {j} : jobs'[i] = jobs[i]
    BY <1>0, <1>6 DEF RefundSucceeds
  <2>3. Owed(j)' \subseteq Owed(j)
    BY <2>1, <2>2 DEF Owed
  <2> QED
    BY <1>2, <2>1, <2>2, <2>3 DEF RefundStep
<1>7. ASSUME NEW p \in Orders, NEW done \in BOOLEAN, RefundFails(j, p, done) PROVE RefundStep(j)
  <2>1. /\ p \in Owed(j) /\ UNCHANGED <<rows, ledger>>
        /\ SetOrder(p, "refunded") \/ UNCHANGED orders
    BY <1>7 DEF RefundFails, Owed
  <2>2. /\ \A i \in Jobs \ {j} : jobs'[i] = jobs[i]
        /\ Owed(j)' \subseteq Owed(j) \cup PendingRefunds /\ jobs'[j].paying = 0
    BY <1>1, <1>7 DEF RefundFails, Owed
  <2>3. CASE UNCHANGED orders
    BY <2>1, <2>2, <2>3 DEF RefundStep
  <2>4. CASE SetOrder(p, "refunded")
    BY <1>2, <2>1, <2>2, <2>4 DEF RefundStep
  <2> QED
    BY <2>1, <2>3, <2>4
<1> QED
  BY <1>3, <1>4, <1>5, <1>6, <1>7

LEMMA MoneyStep == TypeOK /\ MoneyInv /\ [Next]_vars => MoneyInv'
<1>1. ASSUME TypeOK, MoneyInv, UNCHANGED vars PROVE MoneyInv'
  <2>1. UNCHANGED <<rows, orders, ledger, jobs>>
    BY <1>1 DEF vars, seatVars, moneyVars
  <2>2. OrdersKept /\ RowsKept
    BY <1>1, <2>1, UnchangedOrdersKept DEF RowsKept
  <2> QED
    BY <1>1, <2>2, KeptKeepsMoney
<1> QED
  BY <1>1, MoneyAttendee, MoneyHostAdminEnvironment, MoneyCheckout, MoneyRefunds DEF Next

(* The inductive invariant of the money: payments and orders stay with     *)
(* their user and refunds are of cancelled rows only.                      *)
THEOREM MoneyCorrect == Spec => []MoneyInv
BY MoneyInit, MoneyStep, TypeInit, TypeStep, PTL DEF Spec

(* No refund goroutine, however old its list of payments, gives back the   *)
(* money of an attendee who is confirmed.                                  *)
THEOREM SeatedMoneyIsHeld == Spec => []SeatedMoneyHeld
<1>1. MoneyInv => SeatedMoneyHeld
  BY DEF MoneyInv
<1> QED
  BY <1>1, MoneyCorrect, PTL

(* event_payments says captured or refunded only of payments that Razorpay *)
(* captured or refunded, and Razorpay refunds only payments it knows.      *)
THEOREM LedgerNeverLies == Spec => []LedgerAgrees
<1>1. MoneyInv => LedgerAgrees
  BY DEF MoneyInv
<1> QED
  BY <1>1, MoneyCorrect, PTL


-----------------------------------------------------------------------------
(***************************************************************************)
(* Steps.  CancelRSVP decides to refund from the row it read before it     *)
(* wrote; ConfirmPayment, which could make that reading stale, waits for   *)
(* the events row the transaction holds.                                   *)
(***************************************************************************)

(* A step that leaves the open transaction, and what it read, as they are *)
TxnKept ==
  \/ txn' = NoTxn
  \/ /\ txn' = txn
     /\ \A u \in Users : /\ rows'[u].payment = rows[u].payment
                         /\ rows'[u].status # rows[u].status
                              => rows[u].status = "pending_payment" /\ rows'[u].status = "cancelled"

LEMMA KeptKeepsTxn == TypeOK /\ TxnInv /\ TxnKept => TxnInv'
<1> SUFFICES ASSUME TypeOK, TxnInv, TxnKept, txn' # NoTxn PROVE TxnInv'
  BY DEF TxnInv, NoTxn
<1>1. txn' = txn /\ \A u \in Users :
        /\ rows'[u].payment = rows[u].payment
        /\ rows'[u].status # rows[u].status
             => rows[u].status = "pending_payment" /\ rows'[u].status = "cancelled"
  BY DEF TxnKept
<1>2. txn.user \in Users
  BY <1>1 DEF TypeOK, Txns
<1> QED
  BY <1>1, <1>2 DEF TxnInv, Refundable

LEMMA CheckoutKeepsTxn == TypeOK /\ Checkout => TxnKept
<1> SUFFICES ASSUME TypeOK, NEW o \in Orders,
                    \/ CreateOrder(o) \/ CreateOrderFails(o) \/ ReleaseReservation(o)
                    \/ AttachPaymentOrder(o) \/ AttachFails(o)
                    \/ Pay(o) \/ ConfirmPayment(o) \/ FailPayment(o)
             PROVE  TxnKept
  BY DEF Checkout
<1> USE DEF eventVars, tierVars, seatVars, moneyVars
<1> DEFINE u == orders[o].user
<1>0. rows \in [Users -> Rows]
  BY DEF TypeOK
<1>1. CASE CreateOrder(o) \/ CreateOrderFails(o) \/ AttachFails(o) \/ Pay(o) \/ ConfirmPayment(o)
  BY <1>1 DEF CreateOrder, CreateOrderFails, AttachFails, Pay, ConfirmPayment, TxnKept
<1>2. CASE AttachPaymentOrder(o)
  BY <1>0, <1>2 DEF AttachPaymentOrder, TxnKept, Rows
<1>3. CASE ReleaseReservation(o) \/ FailPayment(o)
  <2>1. u \in Users
    BY <1>3 DEF ReleaseReservation, FailPayment, TypeOK, OrderRecords, UnusedOrder
  <2>2. rows' = [rows EXCEPT ![u] = [rows[u] EXCEPT !.status =
                   IF rows[u].status = "pending_payment" THEN "cancelled" ELSE rows[u].status]]
    BY <1>3 DEF ReleaseReservation, FailPayment
  <2>3. txn' = txn
    BY <1>3 DEF ReleaseReservation, FailPayment
  <2> QED
    BY <1>0, <2>1, <2>2, <2>3, StatusKeepsRow DEF TxnKept
<1> QED
  BY <1>1, <1>2, <1>3

LEMMA RefundsKeepTxn == TypeOK /\ Refunds => TxnKept
<1> SUFFICES ASSUME TypeOK, NEW j \in Jobs,
                    \/ ListRefunds(j) \/ MarkRefunded(j) \/ MarkFails(j)
                    \/ \E p \in Orders : \/ RefundSucceeds(j, p)
                                         \/ \E done \in BOOLEAN : RefundFails(j, p, done)
             PROVE  TxnKept
  BY DEF Refunds
<1> USE DEF eventVars, tierVars, seatVars, moneyVars
<1>1. CASE MarkRefunded(j)
  BY <1>1 DEF MarkRefunded, TypeOK, Rows, TxnKept
<1>2. CASE ~MarkRefunded(j)
  BY <1>2 DEF ListRefunds, MarkFails, RefundSucceeds, RefundFails, TxnKept
<1> QED
  BY <1>1, <1>2

LEMMA TxnStep == TypeOK /\ TxnInv /\ [Next]_vars => TxnInv'
<1> SUFFICES ASSUME TypeOK, TxnInv, [Next]_vars PROVE TxnInv'
  OBVIOUS
<1> USE DEF eventVars, tierVars, seatVars, moneyVars
<1>1. ASSUME NEW u \in Users, NEW t \in Tiers, NEW code \in Codes, BeginRSVP(u, t, code)
      PROVE  TxnInv'
  <2>1. rows[u].status \in {"none", "cancelled", "pending_payment"}
    BY <1>1, StatusFacts DEF BeginRSVP, RsvpAlreadyRecorded, TypeOK, Rows
  <2> QED
    BY <1>1, <2>1 DEF BeginRSVP, TxnInv
<1>2. ASSUME NEW u \in Users, BeginCancel(u) PROVE TxnInv'
  BY <1>2 DEF BeginCancel, TxnInv, Refundable
<1>3. Refunds \/ Checkout => TxnKept
  BY CheckoutKeepsTxn, RefundsKeepTxn
<1>4. UNCHANGED <<rows, txn>> => TxnKept
  BY DEF TxnKept
<1>5. CASE UNCHANGED vars
  BY <1>4, <1>5, KeptKeepsTxn DEF vars
<1>6. CASE CommitRSVP \/ CommitCancel \/ Rollback \/ Crash
  BY <1>6, KeptKeepsTxn DEF CommitRSVP, CommitCancel, Rollback, Crash, TxnKept
<1>7. CASE Admin \/ EndTimePasses \/ ArchivePastEvents
  BY <1>4, <1>7, KeptKeepsTxn
  DEF Admin, AdminCancelEvent, AdminUnpublishEvent, EndTimePasses, ArchivePastEvents, TxnKept
<1>8. CASE Host
  <2>1. TxnKept
    BY <1>4, <1>8 DEF Host, RejectRSVP, ApproveRSVP, Review, BeginSetStatus, CommitSetStatus,
                      BeginUpdateEvent, CommitUpdateEvent, BeginUpdateTier, CommitUpdateTier, TxnKept
  <2> QED
    BY <2>1, KeptKeepsTxn
<1> QED
  BY <1>1, <1>2, <1>3, <1>5, <1>6, <1>7, <1>8, KeptKeepsTxn DEF Next, Attendee, Environment

(* A row that is confirmed with a payment loses its seat with a refundAll, *)
(* or to the platform admin                                                *)
LostSeatRefunds ==
  \A u \in Users :
     /\ rows[u].status = "confirmed" /\ rows[u].payment # 0
     /\ rows'[u].status # "confirmed"
     => AdminCancelEvent \/ \E j \in Jobs : jobs'[j].pc = "listing"

LEMMA StartIsListing ==
  ASSUME TypeOK, StartRefundAll PROVE \E j \in Jobs : jobs'[j].pc = "listing"
BY DEF StartRefundAll, TypeOK, JobRecords

LEMMA LostSeatStep == TypeOK /\ TxnInv /\ [Next]_vars => LostSeatRefunds
<1> SUFFICES ASSUME TypeOK, TxnInv, [Next]_vars, NEW u \in Users,
                    rows[u].status = "confirmed", rows[u].payment # 0,
                    rows'[u].status # "confirmed"
             PROVE  AdminCancelEvent \/ \E j \in Jobs : jobs'[j].pc = "listing"
  BY DEF LostSeatRefunds
<1> USE DEF eventVars, tierVars, seatVars, moneyVars
<1>0. rows \in [Users -> Rows] /\ rows' # rows
  BY DEF TypeOK
<1>1. CASE CommitRSVP
  <2>1. rows'[u] = rows[u]
    BY <1>0, <1>1 DEF CommitRSVP, TxnInv
  <2> QED
    BY <2>1
<1>2. CASE CommitCancel
  <2> DEFINE left == [rows EXCEPT ![txn.user] = LeaveSeat(@)]
  <2>1. rows' = left \/ PromoteFromWaitlist(left)
    BY <1>2 DEF CommitCancel
  <2>2. ASSUME u # txn.user PROVE FALSE
    <3>1. left[u] = rows[u]
      BY <1>0, <2>2
    <3>2. u \notin Waitlist
      BY DEF Waitlist
    <3>3. left \in [Users -> Rows]
      BY <1>0, <1>2, LeaveSeatType DEF CommitCancel, TypeOK, Txns, NoTxn
    <3>4. ASSUME NEW w \in Waitlist, NEW s, rows' = [left EXCEPT ![w].status = s]
          PROVE  rows'[u] = rows[u]
      BY <3>1, <3>2, <3>3, <3>4
    <3> HIDE DEF left
    <3>5. rows' = left \/ \E w \in Waitlist : \E s : rows' = [left EXCEPT ![w].status = s]
      BY <2>1 DEF PromoteFromWaitlist
    <3> QED
      BY <3>1, <3>4, <3>5
  <2>3. txn.refundable
    BY <1>2, <2>2 DEF CommitCancel, TxnInv, Refundable
  <2> QED
    BY <1>2, <2>3, StartIsListing DEF CommitCancel
<1>3. CASE CommitSetStatus
  BY <1>0, <1>3, StartIsListing DEF CommitSetStatus
<1>4. ASSUME NEW v \in Users, RejectRSVP(v) \/ ApproveRSVP(v) PROVE FALSE
  <2>1. v # u
    BY <1>4 DEF RejectRSVP, ApproveRSVP, Review
  <2> QED
    BY <1>0, <1>4, <2>1 DEF RejectRSVP, ApproveRSVP
<1>5. CASE Checkout \/ Refunds
  <2>1. txn' = txn
    BY <1>5 DEF Checkout, Refunds, CreateOrder, CreateOrderFails, ReleaseReservation,
                AttachPaymentOrder, AttachFails, Pay, ConfirmPayment, FailPayment, ListRefunds,
                MarkRefunded, MarkFails, RefundSucceeds, RefundFails
  <2>2. ~ \E o \in Orders : ConfirmPayment(o)
    <3> SUFFICES ASSUME NEW o \in Orders, ConfirmPayment(o) PROVE FALSE
      OBVIOUS
    <3> QED
      BY <1>0 DEF ConfirmPayment, Rows
  <2>3. Checkout => \A v \in Users : rows'[v].status # rows[v].status
                       => rows[v].status = "pending_payment"
    <3> SUFFICES ASSUME NEW o \in Orders,
                        \/ CreateOrder(o) \/ CreateOrderFails(o) \/ ReleaseReservation(o)
                        \/ AttachPaymentOrder(o) \/ AttachFails(o) \/ Pay(o) \/ FailPayment(o),
                        NEW v \in Users, rows'[v].status # rows[v].status
                 PROVE  rows[v].status = "pending_payment"
      BY <2>2 DEF Checkout
    <3> QED
      BY <1>0 DEF CreateOrder, CreateOrderFails, ReleaseReservation, AttachPaymentOrder,
                  AttachFails, Pay, FailPayment, Rows
  <2>4. Refunds => \A v \in Users : rows'[v].status = rows[v].status
    <3> SUFFICES ASSUME NEW j \in Jobs, MarkRefunded(j) PROVE \A v \in Users : rows'[v].status = rows[v].status
      BY DEF Refunds, ListRefunds, MarkFails, RefundSucceeds, RefundFails
    <3> QED
      BY <1>0 DEF MarkRefunded, Rows
  <2> QED
    BY <1>5, <2>3, <2>4
<1>6. UNCHANGED rows \/ AdminCancelEvent \/ CommitRSVP \/ CommitCancel \/ CommitSetStatus
      \/ (\E v \in Users : RejectRSVP(v) \/ ApproveRSVP(v)) \/ Checkout \/ Refunds
  BY DEF Next, Attendee, Host, Admin, Environment, BeginRSVP, BeginCancel, Rollback, BeginSetStatus,
         BeginUpdateEvent, CommitUpdateEvent, BeginUpdateTier, CommitUpdateTier,
         AdminUnpublishEvent, EndTimePasses,
         ArchivePastEvents, Crash, vars
<1> QED
  BY <1>0, <1>1, <1>2, <1>3, <1>4, <1>5, <1>6

(* Whoever loses a paid seat loses it to a step that starts refundAll, or  *)
(* to the platform admin: the payment webhook cannot slip in between the   *)
(* handler's decision whether to refund and its write.                     *)
THEOREM RefundFollows == Spec => RefundFollowsLostSeat
<1>1. Init => TxnInv
  BY DEF Init, NoTxn, TxnInv
<1>2. TypeOK /\ TxnInv /\ [Next]_vars => [LostSeatRefunds]_vars
  BY LostSeatStep
<1>3. Spec => [][LostSeatRefunds]_vars
  BY <1>1, <1>2, TxnStep, TypeInit, TypeStep, PTL DEF Spec
<1> QED
  BY <1>3 DEF RefundFollowsLostSeat, LostSeatRefunds

(* What ReviewGate asks of one step *)
Reviewed ==
  \A u \in Users :
     hostReview /\ rows[u].status \notin Occupied /\ rows'[u].status \in Occupied
     => \/ rows[u].status \in {"pending_host_review", "waitlisted"}
        \/ txn.op = "rsvp" /\ txn.user = u /\ txn.seen = "pending_payment"

LEMMA ReviewedStep == TypeOK /\ [Next]_vars => Reviewed
<1> SUFFICES ASSUME TypeOK, [Next]_vars, NEW u \in Users, hostReview,
                    rows[u].status \notin Occupied, rows'[u].status \in Occupied,
                    rows[u].status \notin {"pending_host_review", "waitlisted"}
             PROVE  txn.op = "rsvp" /\ txn.user = u /\ txn.seen = "pending_payment"
  BY DEF Reviewed
<1> USE DEF eventVars, tierVars, seatVars, moneyVars
<1>0. rows \in [Users -> Rows] /\ ~Quiet /\ rows' # rows
  BY DEF TypeOK, Quiet
<1>1. CASE CommitRSVP
  <2>1. u = txn.user
    BY <1>0, <1>1 DEF CommitRSVP
  <2>2. rows'[u].status = SeatStatus
    BY <1>0, <1>1, <2>1 DEF CommitRSVP, ApplyRSVPSeat
  <2>3. ~EffectiveHostReview(hostReview, txn.seen)
    BY <2>2, StatusFacts DEF SeatStatus, DecideApplyStatus
  <2> QED
    BY <1>1, <2>1, <2>3 DEF CommitRSVP, EffectiveHostReview
<1>2. ASSUME CommitCancel PROVE FALSE
  <2> DEFINE left == [rows EXCEPT ![txn.user] = LeaveSeat(@)]
  <2>1. rows' = left \/ \E w \in Waitlist : \E s : rows' = [left EXCEPT ![w].status = s]
    BY <1>2 DEF CommitCancel, PromoteFromWaitlist
  <2>2. left[u].status \notin Occupied /\ left \in [Users -> Rows]
    BY <1>0, <1>2, LeaveSeatType, StatusKeepsRow, StatusFacts DEF CommitCancel, TypeOK, Txns, NoTxn
  <2>3. u \notin Waitlist
    BY DEF Waitlist
  <2> HIDE DEF left
  <2> QED
    BY <2>1, <2>2, <2>3
<1>3. ASSUME NEW v \in Users, RejectRSVP(v) \/ ApproveRSVP(v) PROVE FALSE
  <2>1. v # u
    BY <1>3 DEF RejectRSVP, ApproveRSVP, Review
  <2> QED
    BY <1>0, <1>3, <2>1 DEF RejectRSVP, ApproveRSVP
<1>4. ASSUME rows' = CancelRows PROVE FALSE
  BY <1>0, <1>4, StatusFacts, StatusKeepsRow DEF CancelRows
<1>5. CommitRSVP \/ CommitCancel \/ \E v \in Users : RejectRSVP(v) \/ ApproveRSVP(v)
  BY <1>0, <1>4, CheckoutIsQuiet, RefundsAreQuiet, EnvironmentIsQuiet
  DEF Next, Attendee, Host, Admin, BeginRSVP, BeginCancel, Rollback, BeginSetStatus, CommitSetStatus,
      BeginUpdateEvent, CommitUpdateEvent, BeginUpdateTier, CommitUpdateTier,
      AdminCancelEvent, AdminUnpublishEvent, vars
<1> QED
  BY <1>1, <1>2, <1>3, <1>5

(* While requires_host_review is set nobody reaches a seat around the host *)
THEOREM NoSeatUnreviewed == Spec => ReviewGate
<1>1. Spec => [][Reviewed]_vars
  BY ReviewedStep, TypeInit, TypeStep, PTL DEF Spec
<1> QED
  BY <1>1 DEF ReviewGate, Reviewed

-----------------------------------------------------------------------------
(* What EndedIsFinal asks of one step *)
StaysEnded ==
  /\ Unrevivable => Unrevivable'
  /\ Unchangeable => /\ capacity' = capacity
                     /\ eventEdit'.open => eventEdit'.capacity = capacity

(* Whoever leaves the event and its open edits alone leaves it ended *)
LEMMA EventKeptStays ==
  UNCHANGED <<eventStatus, capacity, statusEdit, eventEdit>> => StaysEnded
BY DEF StaysEnded, Unrevivable, Unchangeable

LEMMA StaysEndedStep == TypeOK /\ [Next]_vars => StaysEnded
<1> SUFFICES ASSUME TypeOK, [Next]_vars PROVE StaysEnded
  OBVIOUS
<1>1. CASE Attendee
  BY <1>1, EventKeptStays
  DEF Attendee, BeginRSVP, CommitRSVP, BeginCancel, CommitCancel, Rollback, eventVars
<1>2. CASE Host
  <2>1. ASSUME NEW u \in Users, RejectRSVP(u) \/ ApproveRSVP(u) PROVE StaysEnded
    BY <2>1, EventKeptStays DEF RejectRSVP, ApproveRSVP, Review, eventVars
  <2>2. ASSUME NEW s \in {"published", "cancelled"}, BeginSetStatus(s) PROVE StaysEnded
    BY <2>2 DEF BeginSetStatus, StaysEnded, Unrevivable, Unchangeable
  <2>3. CASE CommitSetStatus
    BY <2>3 DEF CommitSetStatus, StaysEnded, Unrevivable, Unchangeable, TypeOK
  <2>4. ASSUME NEW c, NEW review, BeginUpdateEvent(c, review) PROVE StaysEnded
    BY <2>4 DEF BeginUpdateEvent, StaysEnded, Unrevivable, Unchangeable
  <2>5. CASE CommitUpdateEvent
    BY <2>5 DEF CommitUpdateEvent, NoEventEdit, StaysEnded, Unrevivable, Unchangeable
  <2>6. ASSUME \/ \E t \in Tiers, offer \in TierEdits : BeginUpdateTier(t, offer)
               \/ CommitUpdateTier
        PROVE  StaysEnded
    BY <2>6, EventKeptStays DEF BeginUpdateTier, CommitUpdateTier, eventVars
  <2> QED
    BY <1>2, <2>1, <2>2, <2>3, <2>4, <2>5, <2>6 DEF Host
<1>3. CASE Admin
  BY <1>3 DEF Admin, AdminCancelEvent, AdminUnpublishEvent, StaysEnded, Unrevivable, Unchangeable
<1>4. CASE Checkout
  BY <1>4, EventKeptStays
  DEF Checkout, CreateOrder, CreateOrderFails, ReleaseReservation, AttachPaymentOrder,
      AttachFails, Pay, ConfirmPayment, FailPayment, eventVars
<1>5. CASE Refunds
  BY <1>5, EventKeptStays
  DEF Refunds, ListRefunds, MarkRefunded, MarkFails, RefundSucceeds, RefundFails, eventVars
<1>6. CASE Environment
  BY <1>6 DEF Environment, EndTimePasses, ArchivePastEvents, Crash, NoEventEdit, StaysEnded,
              Unrevivable, Unchangeable
<1>7. CASE UNCHANGED vars
  BY <1>7, EventKeptStays DEF vars, eventVars
<1> QED
  BY <1>1, <1>2, <1>3, <1>4, <1>5, <1>6, <1>7 DEF Next

(* A cancelled event with no publication in flight is cancelled for good,  *)
(* and an ended one with no edit of it in flight keeps its capacity.       *)
THEOREM EndIsFinal == Spec => EndedIsFinal
<1>1. Spec => [][StaysEnded]_vars
  BY StaysEndedStep, TypeInit, TypeStep, PTL DEF Spec
<1> QED
  BY <1>1 DEF EndedIsFinal, StaysEnded

===============================================================================
