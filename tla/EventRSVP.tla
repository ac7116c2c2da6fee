------------------------------ MODULE EventRSVP ------------------------------
(***************************************************************************)
(* Seats and money of ONE event of the_monkeys_events.                     *)
(*                                                                         *)
(* The persistent state is PostgreSQL: the events row, its ticket tiers,   *)
(* its one coupon, its event_attendees rows (one per user, never deleted   *)
(* here) and its event_payments ledger.  Around it run request handlers,   *)
(* the refund goroutines they leave behind, and the Razorpay gateway.      *)
(*                                                                         *)
(* Grain of atomicity.  CreateRSVP, CancelRSVP, ReviewRSVP and the two     *)
(* admin handlers hold SELECT ... FOR UPDATE on the events row, so at most *)
(* one of them is open (txn).  The first two are split where they use a    *)
(* value read earlier without a lock: BeginX reads, CommitX writes.        *)
(* UpdateEvent, SetEventStatus and UpdateTicketTier lock nothing before    *)
(* they write, and are split likewise, one of each in flight.  While       *)
(* txn is open, statements that need the events row wait: every UPDATE     *)
(* events, and the INSERT INTO event_payments of ConfirmPayment, whose     *)
(* foreign key takes a KEY SHARE lock.  Statements on attendee and tier    *)
(* rows (FailPayment, AttachPaymentOrder, MarkRefunded, UpdateTicketTier,  *)
(* ReleaseReservation) do not wait, and interleave.                        *)
(***************************************************************************)
EXTENDS Integers, FiniteSets

CONSTANTS
  Users, NoUser,              \* accounts that may respond to the event
  Tiers, NoTier, InitTiers,   \* ticket tiers and what each offers at first
  TierEdits,                  \* offers an organizer may change a tier to
  InitCapacity, CapacityEdits,\* event capacity (0: unlimited) and its edits
  InitReview, ReviewEdits,    \* requires_host_review and its edits ({}: omitted)
  Codes,                      \* whether a request may carry the coupon code
  CouponPercent, CouponLimit, \* discount_percent and max_uses (0: unlimited)
  MaxOrders,                  \* bound: payment orders opened in a behaviour
  Jobs                        \* bound: refund goroutines alive at once

Offers == [price : Nat, cap : Nat]      \* a tier: price in paise, capacity

ASSUME UsersAssumption == IsFiniteSet(Users) /\ NoUser \notin Users
ASSUME TiersAssumption == /\ NoTier \notin Tiers
                          /\ InitTiers \in [Tiers -> Offers]
                          /\ TierEdits \subseteq Offers
ASSUME EventAssumption == /\ InitCapacity \in Nat /\ CapacityEdits \subseteq Nat
                          /\ InitReview \in BOOLEAN /\ ReviewEdits \subseteq SUBSET BOOLEAN
ASSUME CouponAssumption == /\ Codes \subseteq BOOLEAN /\ CouponLimit \in Nat
                           /\ CouponPercent \in 1 .. 100
ASSUME BoundAssumption == MaxOrders \in Nat

VARIABLES
  eventStatus, over,    \* events.status, and whether end_time has passed
  capacity, hostReview, \* events.capacity, events.requires_host_review
  seatLimit,            \* ghost: the most seats the last edit of capacity
                        \* allows to be taken (seats are not revoked by it)
  tiers, tierEdit,      \* event_ticket_tiers; an UpdateTicketTier past its check
  statusEdit,           \* a SetEventStatus that has read the old status
  eventEdit,            \* an UpdateEvent past its checks
  rows,                 \* event_attendees, by user
  couponUses,           \* event_coupons.current_uses
  txn,                  \* the open transaction that holds the events row
  orders,               \* Razorpay orders (a payment has its order's number)
  ledger,               \* event_payments.status, by payment
  jobs                  \* goroutines running refundAll

eventVars == <<eventStatus, over, capacity, hostReview, seatLimit, statusEdit, eventEdit>>
tierVars == <<tiers, tierEdit>>
seatVars == <<rows, couponUses, txn>>
moneyVars == <<orders, ledger, jobs>>
vars == <<eventVars, tierVars, seatVars, moneyVars>>

Orders == 1 .. MaxOrders
Occupied == {"confirmed", "pending_payment"}      \* the statuses that take a seat
Active == Occupied \cup {"waitlisted", "pending_host_review"}
Rows == [status : Active \cup {"none", "cancelled"}, tier : Tiers \cup {NoTier},
         coupon : BOOLEAN, order : 0 .. MaxOrders, payment : 0 .. MaxOrders,
         captured : BOOLEAN, refund : BOOLEAN, since : Nat]
NoRow == [status |-> "none", tier |-> NoTier, coupon |-> FALSE, order |-> 0,
          payment |-> 0, captured |-> FALSE, refund |-> FALSE, since |-> 0]
NoOffer == [price |-> 0, cap |-> 0]
NoTxn == [op |-> "none", user |-> NoUser, seen |-> "none", tier |-> NoTier,
          offer |-> NoOffer, code |-> FALSE, refundable |-> FALSE]
NoTierEdit == [tier |-> NoTier, offer |-> NoOffer]
NoEventEdit == [open |-> FALSE, capacity |-> 0, review |-> {}]
IdleJob == [pc |-> "idle", due |-> {}, paying |-> 0]
UnusedOrder == [user |-> NoUser, state |-> "unused"]
Txns == {NoTxn} \cup
        [op : {"rsvp", "cancel"}, user : Users, seen : Active \cup {"none", "cancelled"},
         tier : Tiers \cup {NoTier}, offer : Offers, code : BOOLEAN, refundable : BOOLEAN]
TierEditRecords == [tier : Tiers \cup {NoTier}, offer : Offers]
EventEditRecords == [open : BOOLEAN, capacity : Nat, review : SUBSET BOOLEAN]
OrderRecords == {UnusedOrder} \cup
                [user : Users, state : {"requested", "releasing", "created",
                                        "open", "dead", "paid", "refunded"}]
JobRecords == [pc : {"idle", "listing", "running", "marking"},
               due : SUBSET Orders, paying : 0 .. MaxOrders]

Occupants == {u \in Users : rows[u].status \in Occupied}
OccupantsOf(t) == {u \in Occupants : rows[u].tier = t}
Waitlist == {u \in Users : rows[u].status = "waitlisted"}
EventHasEnded == eventStatus \in {"completed", "cancelled"} \/ over

-----------------------------------------------------------------------------
(* The decisions of host_review.go and the arithmetic of coupons and seats. *)
(* Definitions named Bug... are faulty variants of the definition that      *)
(* follows them; no specification uses them.                                *)

DecideApplyStatus(review, full, amount) ==
  CASE review -> "pending_host_review"
    [] ~review /\ full -> "waitlisted"
    [] ~review /\ ~full /\ amount > 0 -> "pending_payment"
    [] OTHER -> "confirmed"
DecideApproveStatus(amount) == IF amount > 0 THEN "pending_payment" ELSE "confirmed"
BugReviewOnlyTheFirstTime(review, seen) == review /\ seen = "none"
EffectiveHostReview(review, seen) == review /\ seen # "pending_payment"
RsvpAlreadyRecorded(s) == s \in {"confirmed", "waitlisted", "pending_host_review"}
BugReviewedHoldBudget(s) == s # "waitlisted"
CouponHoldsBudget(s) == s \notin {"waitlisted", "pending_host_review"}
BugApplicantsFreeSeats(s) == s = "waitlisted"
RsvpFreesNoSeat(s) == s \in {"waitlisted", "pending_host_review"}

(* applyDiscount, rounding half a paisa up; the coupon is never a surcharge *)
ApplyDiscount(price, useCoupon) ==
  IF useCoupon THEN (price * (100 - CouponPercent) + 50) \div 100 ELSE price
BugOneUseTooMany(uses) == CouponLimit = 0 \/ uses <= CouponLimit
ValidCoupon(uses) == CouponLimit = 0 \/ uses < CouponLimit
ReleaseCoupon(held, uses) == IF held /\ uses > 0 THEN uses - 1 ELSE uses

BugCountsOnlyConfirmed(u, t, tierCap) ==
  \/ capacity > 0 /\ Cardinality({v \in Users \ {u} : rows[v].status = "confirmed"}) >= capacity
  \/ tierCap > 0 /\ Cardinality(OccupantsOf(t) \ {u}) >= tierCap
SeatsExhausted(u, t, tierCap) ==
  \/ capacity > 0 /\ Cardinality(Occupants \ {u}) >= capacity
  \/ tierCap > 0 /\ Cardinality(OccupantsOf(t) \ {u}) >= tierCap

BugRefundsAnyStatus ==
  {rows[u].payment : u \in {v \in Users : rows[v].payment # 0 /\ ~rows[v].refund}}
(* PendingRefunds: the payments refundAll would try to return *)
PendingRefunds ==
  {rows[u].payment : u \in {v \in Users : /\ rows[v].status = "cancelled"
                                          /\ rows[v].payment # 0
                                          /\ ~rows[v].refund /\ rows[v].captured}}

(* startCheckout up to its request to the gateway: the next unused order *)
StartCheckout(u) ==
  \E o \in Orders : /\ \A p \in Orders : orders[p].state = "unused" <=> p >= o
                    /\ orders' = [orders EXCEPT ![o] = [user |-> u, state |-> "requested"]]

(* go refundAll(...) of CancelRSVP and CancelEvent *)
StartRefundAll ==
  \E j \in Jobs : /\ jobs[j] = IdleJob
                  /\ jobs' = [jobs EXCEPT ![j].pc = "listing"]

-----------------------------------------------------------------------------
(* CreateRSVP and the checkout RSVPEvent starts after it *)

BeginRSVP(u, t, code) ==
  /\ txn = NoTxn
  /\ eventStatus = "published" /\ ~over
  /\ ~RsvpAlreadyRecorded(rows[u].status)
  /\ txn' = [op |-> "rsvp", user |-> u, seen |-> rows[u].status, tier |-> t,
             offer |-> tiers[t], code |-> code, refundable |-> FALSE]
  /\ UNCHANGED <<eventVars, tierVars, rows, couponUses, moneyVars>>

(* What applyRSVPSeat computes from the open transaction *)
WantsCoupon == txn.code /\ txn.offer.price > 0
UsesAfterRelease == ReleaseCoupon(rows[txn.user].coupon, couponUses)
SeatStatus ==
  DecideApplyStatus(EffectiveHostReview(hostReview, txn.seen),
                    SeatsExhausted(txn.user, txn.tier, txn.offer.cap),
                    ApplyDiscount(txn.offer.price, WantsCoupon))

ApplyRSVPSeat(r) ==
  [status |-> SeatStatus, tier |-> txn.tier, coupon |-> WantsCoupon, order |-> 0, payment |-> 0,
   captured |-> r.captured, refund |-> r.refund,
   since |-> IF r.status # "none" THEN r.since
             ELSE 1 + Cardinality({v \in Users : rows[v].status # "none"})]

CommitRSVP ==
  /\ txn.op = "rsvp"
  /\ WantsCoupon => ValidCoupon(UsesAfterRelease)
  /\ rows' = [rows EXCEPT ![txn.user] = ApplyRSVPSeat(@)]
  /\ couponUses' = IF WantsCoupon /\ CouponHoldsBudget(SeatStatus)
                   THEN UsesAfterRelease + 1 ELSE UsesAfterRelease
  /\ IF SeatStatus = "pending_payment" THEN StartCheckout(txn.user) ELSE UNCHANGED orders
  /\ txn' = NoTxn
  /\ UNCHANGED <<eventVars, tierVars, ledger, jobs>>

(* An error return of the open transaction: an exhausted coupon, or the    *)
(* deadlock with ConfirmPayment in which PostgreSQL picks it as the victim *)
Rollback ==
  /\ txn # NoTxn
  /\ txn' = NoTxn
  /\ UNCHANGED <<eventVars, tierVars, rows, couponUses, moneyVars>>

-----------------------------------------------------------------------------
(* CancelRSVP *)

Refundable(r) == r.status = "confirmed" /\ r.payment # 0

BeginCancel(u) ==
  /\ txn = NoTxn
  /\ ~EventHasEnded
  /\ rows[u].status \in Active
  /\ txn' = [op |-> "cancel", user |-> u, seen |-> rows[u].status, tier |-> NoTier,
             offer |-> NoOffer, code |-> FALSE, refundable |-> Refundable(rows[u])]
  /\ UNCHANGED <<eventVars, tierVars, rows, couponUses, moneyVars>>

BugMisspeltStatus(r) == [r EXCEPT !.status = "canceled", !.coupon = FALSE]
LeaveSeat(r) == [r EXCEPT !.status = "cancelled", !.coupon = FALSE]

(* promoteFromWaitlist: the oldest waitlisted row of the event gets the    *)
(* seat; neither the capacity nor the tier is looked at                    *)
PromoteFromWaitlist(left) ==
  IF Waitlist \ {txn.user} = {} THEN rows' = left
  ELSE \E w \in Waitlist \ {txn.user} :
         /\ \A v \in Waitlist \ {txn.user} : rows[w].since <= rows[v].since
         /\ rows' = [left EXCEPT ![w].status =
                       IF tiers[rows[w].tier].price > 0 THEN "pending_payment" ELSE "confirmed"]

CommitCancel ==
  /\ txn.op = "cancel"
  /\ LET left == [rows EXCEPT ![txn.user] = LeaveSeat(@)]
     IN  IF RsvpFreesNoSeat(txn.seen) THEN rows' = left ELSE PromoteFromWaitlist(left)
  /\ couponUses' = IF CouponHoldsBudget(txn.seen)
                   THEN ReleaseCoupon(rows[txn.user].coupon, couponUses) ELSE couponUses
  /\ IF txn.refundable THEN StartRefundAll ELSE UNCHANGED jobs
  /\ txn' = NoTxn
  /\ UNCHANGED <<eventVars, tierVars, orders, ledger>>

-----------------------------------------------------------------------------
(* ReviewRSVP (the row itself is locked too, so it is one step) *)

Review(u) == /\ txn = NoTxn
             /\ ~EventHasEnded
             /\ rows[u].status = "pending_host_review"

RejectRSVP(u) ==
  /\ Review(u)
  /\ rows' = [rows EXCEPT ![u] = LeaveSeat(@)]
  /\ UNCHANGED <<eventVars, tierVars, couponUses, txn, moneyVars>>

ApproveRSVP(u) ==
  LET offer  == tiers[rows[u].tier]
      wanted == rows[u].coupon /\ offer.price > 0
      usable == wanted /\ ValidCoupon(couponUses)
      status == DecideApproveStatus(ApplyDiscount(offer.price, usable))
  IN  /\ Review(u)
      /\ ~SeatsExhausted(u, rows[u].tier, offer.cap)
      /\ rows' = [rows EXCEPT ![u].status = status,
                              ![u].coupon = IF wanted THEN usable ELSE @]
      /\ couponUses' = IF usable THEN couponUses + 1 ELSE couponUses
      /\ IF status = "pending_payment" THEN StartCheckout(u) ELSE UNCHANGED orders
      /\ UNCHANGED <<eventVars, tierVars, txn, ledger, jobs>>

-----------------------------------------------------------------------------
(* Checkout, webhooks and refunds.  An order is requested, then created at *)
(* the gateway, then attached to its row and open: only now does the       *)
(* client learn its number and can pay it.                                 *)

SetOrder(o, s) == orders' = [orders EXCEPT ![o].state = s]

CreateOrder(o) ==
  /\ orders[o].state = "requested"
  /\ SetOrder(o, "created")
  /\ UNCHANGED <<eventVars, tierVars, seatVars, ledger, jobs>>

(* createOrder failed (or payments are not configured) ...                 *)
CreateOrderFails(o) ==
  /\ orders[o].state = "requested"
  /\ SetOrder(o, "releasing")
  /\ UNCHANGED <<eventVars, tierVars, seatVars, ledger, jobs>>

(* ... so whatever the row's order, a reservation of that row is released  *)
ReleaseReservation(o) ==
  /\ orders[o].state = "releasing"
  /\ SetOrder(o, "dead")
  /\ rows' = [rows EXCEPT ![orders[o].user].status =
                IF @ = "pending_payment" THEN "cancelled" ELSE @]
  /\ UNCHANGED <<eventVars, tierVars, couponUses, txn, ledger, jobs>>

(* AttachPaymentOrder updates the row by id, whatever became of it *)
AttachPaymentOrder(o) ==
  /\ orders[o].state = "created"
  /\ SetOrder(o, "open")
  /\ rows' = [rows EXCEPT ![orders[o].user].order = o]
  /\ UNCHANGED <<eventVars, tierVars, couponUses, txn, ledger, jobs>>

AttachFails(o) ==
  /\ orders[o].state = "created"
  /\ SetOrder(o, "dead")
  /\ UNCHANGED <<eventVars, tierVars, seatVars, ledger, jobs>>

(* The attendee pays an open order at the gateway *)
Pay(o) ==
  /\ orders[o].state = "open"
  /\ SetOrder(o, "paid")
  /\ UNCHANGED <<eventVars, tierVars, seatVars, ledger, jobs>>

BugNoForeignKey(o) ==    \* a ledger that does not reference the events row
  /\ orders[o].state \in {"paid", "refunded"}
  /\ LET u == orders[o].user
     IN  /\ rows[u].order = o /\ rows[u].status = "pending_payment"
         /\ rows' = [rows EXCEPT ![u].status = "confirmed", ![u].payment = o,
                                 ![u].captured = TRUE]
         /\ ledger' = [ledger EXCEPT ![o] = IF @ = "none" THEN "captured" ELSE @]
  /\ UNCHANGED <<eventVars, tierVars, couponUses, txn, orders, jobs>>

(* webhook payment.captured, delivered any number of times *)
ConfirmPayment(o) ==
  /\ txn = NoTxn
  /\ orders[o].state \in {"paid", "refunded"}
  /\ LET u == orders[o].user
     IN  /\ rows[u].order = o /\ rows[u].status = "pending_payment"
         /\ rows' = [rows EXCEPT ![u].status = "confirmed", ![u].payment = o,
                                 ![u].captured = TRUE]
         /\ ledger' = [ledger EXCEPT ![o] = IF @ = "none" THEN "captured" ELSE @]
  /\ UNCHANGED <<eventVars, tierVars, couponUses, txn, orders, jobs>>

(* webhook payment.failed: an attempt on the order failed, perhaps before  *)
(* one that succeeded, perhaps delivered after it                          *)
FailPayment(o) ==
  /\ orders[o].state \in {"open", "paid", "refunded"}
  /\ LET u == orders[o].user
     IN  /\ rows[u].order = o /\ rows[u].status = "pending_payment"
         /\ rows' = [rows EXCEPT ![u].status = "cancelled"]
  /\ UNCHANGED <<eventVars, tierVars, couponUses, txn, moneyVars>>

(* refundAll, one action per call it makes *)
Resume(due) == IF due = {} THEN IdleJob ELSE [pc |-> "running", due |-> due, paying |-> 0]

ListRefunds(j) ==
  /\ jobs[j].pc = "listing"
  /\ jobs' = [jobs EXCEPT ![j] = Resume(PendingRefunds)]
  /\ UNCHANGED <<eventVars, tierVars, seatVars, orders, ledger>>

(* the gateway refunds a payment once *)
RefundSucceeds(j, p) ==
  /\ jobs[j].pc = "running" /\ p \in jobs[j].due
  /\ orders[p].state = "paid"
  /\ SetOrder(p, "refunded")
  /\ jobs' = [jobs EXCEPT ![j] = [pc |-> "marking", due |-> @.due \ {p}, paying |-> p]]
  /\ UNCHANGED <<eventVars, tierVars, seatVars, ledger>>

BugMarksFailedRefund(j, p, done) ==
  /\ jobs[j].pc = "running" /\ p \in jobs[j].due
  /\ IF done THEN orders[p].state = "paid" /\ SetOrder(p, "refunded") ELSE UNCHANGED orders
  /\ jobs' = [jobs EXCEPT ![j] = [pc |-> "marking", due |-> @.due \ {p}, paying |-> p]]
  /\ UNCHANGED <<eventVars, tierVars, seatVars, ledger>>

(* refused, unreachable, or (TRUE) done while the 15 s client gave up *)
RefundFails(j, p, done) ==
  /\ jobs[j].pc = "running" /\ p \in jobs[j].due
  /\ IF done THEN orders[p].state = "paid" /\ SetOrder(p, "refunded") ELSE UNCHANGED orders
  /\ jobs' = [jobs EXCEPT ![j] = Resume(@.due \ {p})]
  /\ UNCHANGED <<eventVars, tierVars, seatVars, ledger>>

MarkRefunded(j) ==
  LET p == jobs[j].paying
  IN  /\ jobs[j].pc = "marking"
      /\ rows' = [u \in Users |-> IF rows[u].payment = p
                                  THEN [rows[u] EXCEPT !.refund = TRUE] ELSE rows[u]]
      /\ ledger' = [ledger EXCEPT ![p] = IF @ = "none" THEN @ ELSE "refunded"]
      /\ jobs' = [jobs EXCEPT ![j] = Resume(@.due)]
      /\ UNCHANGED <<eventVars, tierVars, couponUses, txn, orders>>

MarkFails(j) ==
  /\ jobs[j].pc = "marking"
  /\ jobs' = [jobs EXCEPT ![j] = Resume(@.due)]
  /\ UNCHANGED <<eventVars, tierVars, seatVars, orders, ledger>>

-----------------------------------------------------------------------------
(* The event's lifecycle *)

(* Fault: a cancelled event is published like any other. *)
BugRepublishes(s) ==
  /\ statusEdit = "none" /\ eventStatus # s
  /\ statusEdit' = s
  /\ UNCHANGED <<eventStatus, over, capacity, hostReview, seatLimit, eventEdit, tierVars, seatVars, moneyVars>>

(* SetEventStatus reads the status without a lock ... *)
BeginSetStatus(s) ==
  /\ statusEdit = "none"
  /\ eventStatus \notin {s, "cancelled"}
  /\ statusEdit' = s
  /\ UNCHANGED <<eventStatus, over, capacity, hostReview, seatLimit, eventEdit, tierVars, seatVars, moneyVars>>

BugForgetsApplicants ==
  [u \in Users |-> IF rows[u].status \in {"confirmed", "waitlisted", "pending_payment"}
                   THEN [rows[u] EXCEPT !.status = "cancelled"] ELSE rows[u]]
CancelRows == [u \in Users |-> IF rows[u].status \in Active
                               THEN [rows[u] EXCEPT !.status = "cancelled"] ELSE rows[u]]

(* ... and writes by id, whatever it has become; CancelEvent then refunds *)
CommitSetStatus ==
  /\ statusEdit # "none" /\ txn = NoTxn
  /\ eventStatus' = statusEdit
  /\ statusEdit' = "none"
  /\ IF statusEdit = "cancelled" THEN rows' = CancelRows /\ StartRefundAll
                                 ELSE UNCHANGED <<rows, jobs>>
  /\ UNCHANGED <<over, capacity, hostReview, seatLimit, eventEdit, tierVars, couponUses, txn,
                 orders, ledger>>

AdminCancelEvent ==
  /\ txn = NoTxn /\ eventStatus # "cancelled"
  /\ eventStatus' = "cancelled"
  /\ rows' = CancelRows
  /\ UNCHANGED <<over, capacity, hostReview, seatLimit, statusEdit, eventEdit, tierVars, couponUses, txn,
                 moneyVars>>

AdminUnpublishEvent ==
  /\ txn = NoTxn /\ eventStatus = "published"
  /\ ~ \E u \in Users : rows[u].status = "confirmed" /\ rows[u].captured
  /\ eventStatus' = "draft"
  /\ UNCHANGED <<over, capacity, hostReview, seatLimit, statusEdit, eventEdit, tierVars, seatVars,
                 moneyVars>>

ArchivePastEvents ==
  /\ txn = NoTxn /\ eventStatus = "published" /\ over
  /\ eventStatus' = "completed"
  /\ UNCHANGED <<over, capacity, hostReview, seatLimit, statusEdit, eventEdit, tierVars, seatVars,
                 moneyVars>>

EndTimePasses ==
  /\ ~over /\ over' = TRUE
  /\ UNCHANGED <<eventStatus, capacity, hostReview, seatLimit, statusEdit, eventEdit, tierVars, seatVars,
                 moneyVars>>

(* UpdateEvent reads the event without a lock: an ended event keeps its    *)
(* capacity.  review is the new requires_host_review, or {} when omitted.  *)
BeginUpdateEvent(c, review) ==
  /\ eventEdit = NoEventEdit
  /\ EventHasEnded => c = capacity
  /\ eventEdit' = [open |-> TRUE, capacity |-> c, review |-> review]
  /\ UNCHANGED <<eventStatus, over, capacity, hostReview, seatLimit, statusEdit,
                 tierVars, seatVars, moneyVars>>

(* ... and writes by id; it does not look at the seats taken *)
CommitUpdateEvent ==
  /\ eventEdit.open /\ txn = NoTxn
  /\ capacity' = eventEdit.capacity
  /\ hostReview' = IF eventEdit.review = {} THEN hostReview ELSE TRUE \in eventEdit.review
  /\ LET taken == Cardinality(Occupants)
     IN  seatLimit' = IF capacity' \in 1 .. taken THEN taken ELSE capacity'
  /\ eventEdit' = NoEventEdit
  /\ UNCHANGED <<eventStatus, over, statusEdit, tierVars, seatVars, moneyVars>>

(* UpdateTicketTier counts the tier's bookings, then writes, with no lock *)
BeginUpdateTier(t, offer) ==
  /\ tierEdit = NoTierEdit
  /\ offer.cap > 0 => Cardinality(OccupantsOf(t)) <= offer.cap
  /\ tierEdit' = [tier |-> t, offer |-> offer]
  /\ UNCHANGED <<eventVars, tiers, seatVars, moneyVars>>

CommitUpdateTier ==
  /\ tierEdit # NoTierEdit
  /\ tiers' = [tiers EXCEPT ![tierEdit.tier] = tierEdit.offer]
  /\ tierEdit' = NoTierEdit
  /\ UNCHANGED <<eventVars, seatVars, moneyVars>>

(* The service stops: transactions roll back, checkouts in flight and      *)
(* refund goroutines are gone                                              *)
Crash ==
  /\ txn' = NoTxn /\ tierEdit' = NoTierEdit /\ eventEdit' = NoEventEdit
  /\ statusEdit' = "none"
  /\ orders' = [o \in Orders |-> IF orders[o].state \in {"requested", "releasing", "created"}
                                 THEN [orders[o] EXCEPT !.state = "dead"] ELSE orders[o]]
  /\ jobs' = [j \in Jobs |-> IdleJob]
  /\ UNCHANGED <<eventStatus, over, capacity, hostReview, seatLimit, tiers, rows, couponUses, ledger>>

-----------------------------------------------------------------------------
Init ==
  /\ eventStatus = "draft" /\ over = FALSE
  /\ capacity = InitCapacity /\ seatLimit = InitCapacity /\ hostReview = InitReview
  /\ tiers = InitTiers /\ tierEdit = NoTierEdit
  /\ statusEdit = "none" /\ eventEdit = NoEventEdit
  /\ rows = [u \in Users |-> NoRow]
  /\ couponUses = 0 /\ txn = NoTxn
  /\ orders = [o \in Orders |-> UnusedOrder]
  /\ ledger = [o \in Orders |-> "none"]
  /\ jobs = [j \in Jobs |-> IdleJob]

Attendee == \/ \E u \in Users, t \in Tiers, code \in Codes : BeginRSVP(u, t, code)
            \/ \E u \in Users : BeginCancel(u)
            \/ CommitRSVP \/ CommitCancel \/ Rollback

Host == \/ \E u \in Users : RejectRSVP(u) \/ ApproveRSVP(u)
        \/ \E s \in {"published", "cancelled"} : BeginSetStatus(s)
        \/ CommitSetStatus
        \/ \E c \in CapacityEdits \cup {capacity}, review \in ReviewEdits :
             BeginUpdateEvent(c, review)
        \/ CommitUpdateEvent
        \/ \E t \in Tiers, offer \in TierEdits : BeginUpdateTier(t, offer)
        \/ CommitUpdateTier

Admin == AdminCancelEvent \/ AdminUnpublishEvent

Checkout == \E o \in Orders : \/ CreateOrder(o) \/ CreateOrderFails(o) \/ ReleaseReservation(o)
                              \/ AttachPaymentOrder(o) \/ AttachFails(o)
                              \/ Pay(o) \/ ConfirmPayment(o) \/ FailPayment(o)

Refunds == \E j \in Jobs : \/ ListRefunds(j) \/ MarkRefunded(j) \/ MarkFails(j)
                           \/ \E p \in Orders : \/ RefundSucceeds(j, p)
                                                \/ \E done \in BOOLEAN : RefundFails(j, p, done)

Environment == EndTimePasses \/ ArchivePastEvents \/ Crash

Next == Attendee \/ Host \/ Admin \/ Checkout \/ Refunds \/ Environment

Spec == Init /\ [][Next]_vars

-----------------------------------------------------------------------------
(* Properties *)

(* Every column, transaction, order and goroutine keeps to its values *)
TypeOK ==
  /\ eventStatus \in {"draft", "published", "completed", "cancelled"}
  /\ over \in BOOLEAN /\ hostReview \in BOOLEAN
  /\ capacity \in Nat /\ seatLimit \in Nat
  /\ tiers \in [Tiers -> Offers]
  /\ tierEdit \in TierEditRecords
  /\ statusEdit \in {"none", "published", "cancelled"}
  /\ eventEdit \in EventEditRecords
  /\ rows \in [Users -> Rows]
  /\ couponUses \in Nat
  /\ txn \in Txns
  /\ orders \in [Orders -> OrderRecords]
  /\ ledger \in [Orders -> {"none", "captured", "refunded"}]
  /\ jobs \in [Jobs -> JobRecords]

(* The event is never oversold: no interleaving of RSVPs, cancellations     *)
(* with promotion, approvals, failed payments and released reservations     *)
(* seats more than the capacity, or than were already seated when an edit   *)
(* took the capacity below them.                                            *)
NoOversell == seatLimit > 0 => Cardinality(Occupants) <= seatLimit

(* A cancelled event holds nobody: cancelling releases every RSVP and no    *)
(* RSVP, approval, promotion or late payment brings one back.               *)
CancelledIsEmpty ==
  eventStatus = "cancelled" => \A u \in Users : rows[u].status \notin Active

(* While the host reviews guests nobody reaches a seat around the review:   *)
(* only an applicant under review, someone already on the waitlist, or a    *)
(* user whose RSVP found their own unpaid reservation is seated.            *)
ReviewGate ==
  [][\A u \in Users :
       hostReview /\ rows[u].status \notin Occupied /\ rows'[u].status \in Occupied
       => \/ rows[u].status \in {"pending_host_review", "waitlisted"}
          \/ txn.op = "rsvp" /\ txn.user = u /\ txn.seen = "pending_payment"]_vars

(* The money of a seat that is taken has not been given back: no refund     *)
(* goroutine, however late, returns the payment of a confirmed attendee.    *)
SeatedMoneyHeld ==
  \A u \in Users : rows[u].status = "confirmed" /\ rows[u].payment # 0 =>
     ledger[rows[u].payment] = "captured" /\ orders[rows[u].payment].state = "paid"

(* The ledger never claims what the gateway did not do, and a refund at the *)
(* gateway is always of a payment the ledger knows.                         *)
LedgerAgrees ==
  \A o \in Orders : /\ ledger[o] = "refunded" => orders[o].state = "refunded"
                    /\ ledger[o] = "captured" => orders[o].state \in {"paid", "refunded"}
                    /\ orders[o].state = "refunded" => ledger[o] # "none"

(* A paid seat is lost only by a step that starts refundAll; the one way    *)
(* that does not is the admin's cancellation, which leaves it to a later    *)
(* cancellation of the event's host.                                        *)
RefundFollowsLostSeat ==
  [][\A u \in Users :
       /\ rows[u].status = "confirmed" /\ rows[u].payment # 0
       /\ rows'[u].status # "confirmed"
       => AdminCancelEvent \/ \E j \in Jobs : jobs'[j].pc = "listing"]_vars

(* The counted uses of the coupon stay within max_uses, through approvals   *)
(* and RSVPs that reuse a failed reservation's row.                         *)
CouponWithinLimit == CouponLimit > 0 => couponUses <= CouponLimit

(* Each counted use is backed by a row that will give it back, whatever     *)
(* sequence of RSVPs, failures, cancellations, rejections and approvals ran.*)
CouponUsesBacked == couponUses <= Cardinality({u \in Users : rows[u].coupon})

(* No publication is in flight, or no edit that changes the capacity *)
Unrevivable  == eventStatus = "cancelled" /\ statusEdit # "published"
Unchangeable == EventHasEnded /\ (eventEdit.open => eventEdit.capacity = capacity)

(* A cancelled event stays cancelled and an ended one keeps its capacity,   *)
(* whatever the host, the admin and the archiver do, but for one window: a  *)
(* publication or an edit that read the event before it ended writes it by  *)
(* id (events.go 643-657 and 312-407).  Once neither is in flight, nothing  *)
(* more changes, and no new one gets past its check.                        *)
EndedIsFinal ==
  [][ /\ Unrevivable => Unrevivable'
      /\ Unchangeable => /\ capacity' = capacity
                         /\ eventEdit'.open => eventEdit'.capacity = capacity ]_vars

-----------------------------------------------------------------------------
(* What the comments of the code say and the code does not keep *)

(* attendees.go: capacity is evaluated under a row lock "so concurrent      *)
(* requests cannot oversell", and a full tier waitlists its attendee.       *)
TierNotOversold ==
  \A t \in Tiers : tiers[t].cap > 0 => Cardinality(OccupantsOf(t)) <= tiers[t].cap

(* attendees.go: "Driving refunds off this query makes the payout           *)
(* retryable": captured money that is not refunded is either the money of a *)
(* seat, or in PendingRefunds, or in the hands of a refundAll.              *)
RefundStaysPayable ==
  \A o \in Orders : ledger[o] = "captured" /\ orders[o].state = "paid" =>
     \/ \E u \in Users : rows[u].status = "confirmed" /\ rows[u].payment = o
     \/ o \in PendingRefunds
     \/ \E j \in Jobs : o \in jobs[j].due

=============================================================================
