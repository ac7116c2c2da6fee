-------------------------- MODULE EventCoupon_proofs --------------------------
(***************************************************************************)
(* Theorems about the coupon of EventRSVP, for every set of users, every   *)
(* limit and percentage.                                                   *)
(*                                                                         *)
(* A row that holds the coupon and has a status that counts is a holder;   *)
(* the uses counted never exceed the holders.  They may stay below: a row  *)
(* promoted from the waitlist, or cancelled with the whole event while it  *)
(* waited, becomes a holder without being counted.                         *)
(***************************************************************************)
EXTENDS EventRSVP_proofs

Holds(u) == rows[u].coupon /\ CouponHoldsBudget(rows[u].status)
Holders == {u \in Users : Holds(u)}

\* CancelRSVP gives back a use, or none, by the status it read before it wrote.
ReadingIsFresh ==
  txn.op = "cancel" /\ ~CouponHoldsBudget(txn.seen) => rows[txn.user].status = txn.seen

CouponInv ==
  /\ couponUses <= Cardinality(Holders)
  /\ CouponWithinLimit
  /\ ReadingIsFresh

-------------------------------------------------------------------------------
(* Counting the holders *)

LEMMA HoldersFinite ==
  /\ Holders \in SUBSET Users /\ Cardinality(Holders) \in Nat
  /\ \A u : Cardinality(Holders \ {u}) \in Nat
<1>1. Holders \in SUBSET Users
  BY DEF Holders
<1>2. \A u : Holders \ {u} \in SUBSET Users
  BY <1>1
<1> QED BY <1>1, <1>2, UserSets

\* Releasing the coupon of u leaves no more uses than there are other holders.
LEMMA ReleasedUses ==
  ASSUME TypeOK, couponUses <= Cardinality(Holders), NEW u \in Users,
         NEW k, k = ReleaseCoupon(rows[u].coupon, couponUses)
  PROVE  k \in Nat /\ k <= couponUses /\ k <= Cardinality(Holders \ {u})
<1>1. couponUses \in Nat /\ Cardinality(Holders) \in Nat /\ Cardinality(Holders \ {u}) \in Nat
  BY HoldersFinite DEF TypeOK
<1>2. CASE rows[u].coupon
  <2>1. k = IF couponUses > 0 THEN couponUses - 1 ELSE couponUses
    BY <1>2 DEF ReleaseCoupon
  <2>2. CASE u \in Holders
    <3>1. Cardinality(Holders \ {u}) + 1 = Cardinality(Holders)
      BY <2>2, HoldersFinite, OneLess
    <3> QED BY <1>1, <2>1, <3>1
  <2>3. CASE u \notin Holders
    <3>1. Holders \ {u} = Holders
      BY <2>3
    <3> QED BY <1>1, <2>1, <3>1
  <2> QED BY <2>2, <2>3
<1>3. CASE ~rows[u].coupon
  <2>1. k = couponUses
    BY <1>3 DEF ReleaseCoupon
  <2>2. Holders \ {u} = Holders
    BY <1>3 DEF Holders, Holds
  <2> QED BY <1>1, <2>1, <2>2
<1> QED BY <1>2, <1>3

\* The number of holders after a step, from who still is one.
LEMMA HoldersAfter ==
  ASSUME NEW S \in SUBSET Users, \A v \in S : Holds(v)'
  PROVE  Cardinality(Holders') \in Nat /\ Cardinality(S) <= Cardinality(Holders')
<1>1. Holders' \in SUBSET Users /\ S \in SUBSET Holders'
  BY DEF Holders
<1> QED BY <1>1, UserSets, SmallerSet

\* A step that leaves the count alone and takes the coupon from no holder.
HoldersKept ==
  /\ couponUses' = couponUses
  /\ \A u \in Users : Holds(u) => Holds(u)'

LEMMA KeptKeepsCoupons ==
  ASSUME TypeOK, CouponInv, HoldersKept
  PROVE  couponUses' <= Cardinality(Holders') /\ CouponWithinLimit'
<1>1. Cardinality(Holders) <= Cardinality(Holders') /\ Cardinality(Holders') \in Nat
  <2>1. \A v \in Holders : Holds(v)'
    BY DEF Holders, HoldersKept
  <2> QED BY <2>1, HoldersFinite, HoldersAfter
<1>2. couponUses <= Cardinality(Holders)
  BY DEF CouponInv
<1>3. couponUses \in Nat /\ Cardinality(Holders) \in Nat
  BY HoldersFinite DEF TypeOK
<1>4. couponUses' <= Cardinality(Holders')
  BY <1>1, <1>2, <1>3 DEF HoldersKept
<1>5. CouponWithinLimit'
  BY DEF CouponInv, CouponWithinLimit, HoldersKept
<1> QED BY <1>4, <1>5

\* A cancellation that stays open keeps a status that does not count: only the
\* statuses that wait for money change under it.
LEMMA TxnKeptKeepsReading == TypeOK /\ ReadingIsFresh /\ TxnKept => ReadingIsFresh'
<1> SUFFICES ASSUME TypeOK, ReadingIsFresh, TxnKept, txn' # NoTxn PROVE ReadingIsFresh'
  BY DEF ReadingIsFresh, NoTxn
<1>1. txn' = txn /\ \A u \in Users :
        rows'[u].status # rows[u].status
          => rows[u].status = "pending_payment" /\ rows'[u].status = "cancelled"
  BY DEF TxnKept
<1>2. txn.user \in Users
  BY <1>1 DEF TypeOK, Txns
<1>3. CouponHoldsBudget("pending_payment")
  BY DEF CouponHoldsBudget
<1> QED BY <1>1, <1>2, <1>3 DEF ReadingIsFresh

-------------------------------------------------------------------------------
(* The steps *)

LEMMA CouponInit == Init => CouponInv
<1> SUFFICES ASSUME Init PROVE CouponInv
  OBVIOUS
<1>1. couponUses = 0 /\ txn.op # "cancel"
  BY DEF Init, NoTxn
<1>2. Cardinality(Holders) \in Nat
  BY HoldersFinite
<1> QED BY <1>1, <1>2, CouponAssumption DEF CouponInv, CouponWithinLimit, ReadingIsFresh

\* An RSVP gives back the use of the row it reuses before it takes one.
LEMMA CommitRSVPCoupon ==
  ASSUME TypeOK, CouponInv, CommitRSVP PROVE CouponInv'
<1>0. PICK u \in Users : u = txn.user
  BY DEF CommitRSVP, TypeOK, Txns, NoTxn
<1>1. rows \in [Users -> Rows]
  BY DEF TypeOK
<1>2. /\ rows' = [rows EXCEPT ![u] = ApplyRSVPSeat(rows[u])] /\ txn' = NoTxn
      /\ WantsCoupon => ValidCoupon(UsesAfterRelease)
      /\ couponUses' = IF WantsCoupon /\ CouponHoldsBudget(SeatStatus)
                       THEN UsesAfterRelease + 1 ELSE UsesAfterRelease
  BY <1>0 DEF CommitRSVP
<1>3. /\ UsesAfterRelease \in Nat /\ UsesAfterRelease <= couponUses
      /\ UsesAfterRelease <= Cardinality(Holders \ {u})
  BY <1>0, ReleasedUses DEF UsesAfterRelease, CouponInv
<1>4. /\ \A v \in Holders \ {u} : Holds(v)'
      /\ Holds(u)' <=> WantsCoupon /\ CouponHoldsBudget(SeatStatus)
  <2>1. \A v \in Users : v # u => rows'[v] = rows[v]
    BY <1>1, <1>2
  <2>2. rows'[u] = ApplyRSVPSeat(rows[u])
    BY <1>1, <1>2
  <2>3. rows'[u].coupon = WantsCoupon /\ rows'[u].status = SeatStatus
    BY <2>2 DEF ApplyRSVPSeat
  <2> QED BY <2>1, <2>3, Zenon DEF Holders, Holds
<1>5. Holders \ {u} \in SUBSET Users /\ (Holders \ {u}) \cup {u} \in SUBSET Users
  BY HoldersFinite
<1>6. couponUses' <= Cardinality(Holders')
  <2>1. CASE WantsCoupon /\ CouponHoldsBudget(SeatStatus)
    <3>1. Cardinality((Holders \ {u}) \cup {u}) <= Cardinality(Holders')
          /\ Cardinality(Holders') \in Nat
      <4>1. \A v \in (Holders \ {u}) \cup {u} : Holds(v)'
        BY <1>4, <2>1
      <4> QED BY <1>5, <4>1, HoldersAfter
    <3>2. Cardinality((Holders \ {u}) \cup {u}) = Cardinality(Holders \ {u}) + 1
      BY <1>5, UserSets, FS_AddElement
    <3>3. couponUses' = UsesAfterRelease + 1
      BY <1>2, <2>1
    <3> QED BY <1>3, <3>1, <3>2, <3>3, HoldersFinite
  <2>2. CASE ~(WantsCoupon /\ CouponHoldsBudget(SeatStatus))
    <3>1. Cardinality(Holders \ {u}) <= Cardinality(Holders') /\ Cardinality(Holders') \in Nat
      BY <1>4, <1>5, HoldersAfter
    <3>2. couponUses' = UsesAfterRelease
      BY <1>2, <2>2
    <3> QED BY <1>3, <3>1, <3>2, HoldersFinite
  <2> QED BY <2>1, <2>2
<1>7. CouponWithinLimit'
  <2>1. CouponLimit > 0 => couponUses <= CouponLimit
    BY DEF CouponInv, CouponWithinLimit
  <2>2. WantsCoupon => CouponLimit = 0 \/ UsesAfterRelease < CouponLimit
    BY <1>2 DEF ValidCoupon
  <2>3. couponUses \in Nat /\ CouponLimit \in Nat
    BY CouponAssumption DEF TypeOK
  <2>4. CASE couponUses' = UsesAfterRelease
    BY <1>3, <2>1, <2>3, <2>4 DEF CouponWithinLimit
  <2>5. CASE couponUses' = UsesAfterRelease + 1 /\ WantsCoupon
    BY <1>3, <2>2, <2>3, <2>5 DEF CouponWithinLimit
  <2> QED BY <1>2, <2>4, <2>5
<1>8. ReadingIsFresh'
  BY <1>2 DEF ReadingIsFresh, NoTxn
<1> QED BY <1>6, <1>7, <1>8 DEF CouponInv

\* Leaving takes the row out of the holders, and whoever moves up keeps theirs.
LEMMA CommitCancelCoupon ==
  ASSUME TypeOK, CouponInv, CommitCancel PROVE CouponInv'
<1>0. PICK u \in Users : u = txn.user
  BY DEF CommitCancel, TypeOK, Txns, NoTxn
<1>1. rows \in [Users -> Rows] /\ couponUses \in Nat
  BY DEF TypeOK
<1> DEFINE left == [rows EXCEPT ![u] = LeaveSeat(rows[u])]
<1>2. /\ txn' = NoTxn
      /\ rows' = left \/ PromoteFromWaitlist(left)
      /\ couponUses' = IF CouponHoldsBudget(txn.seen)
                       THEN ReleaseCoupon(rows[u].coupon, couponUses) ELSE couponUses
  BY <1>0 DEF CommitCancel
<1>3. \A v \in Users : v # u => /\ rows'[v].coupon = rows[v].coupon
                                /\ rows'[v].status = rows[v].status
                                     \/ rows'[v].status \in {"pending_payment", "confirmed"}
  <2>1. left \in [Users -> Rows] /\ \A v \in Users : v # u => left[v] = rows[v]
    BY <1>1, LeaveSeatType
  <2> HIDE DEF left
  <2>2. CASE rows' = left
    BY <2>1, <2>2
  <2>3. ASSUME NEW w \in Users, NEW s \in {"pending_payment", "confirmed"},
               rows' = [left EXCEPT ![w].status = s], NEW v \in Users, v # u
        PROVE  /\ rows'[v].coupon = rows[v].coupon
               /\ rows'[v].status = rows[v].status
                    \/ rows'[v].status \in {"pending_payment", "confirmed"}
    <3>1. left[v] = rows[v] /\ rows[v] \in Rows
      BY <1>1, <2>1, <2>3
    <3>2. [rows[v] EXCEPT !.status = s].coupon = rows[v].coupon
          /\ [rows[v] EXCEPT !.status = s].status = s
      BY <3>1 DEF Rows
    <3>3. rows'[v] = left[v] \/ rows'[v] = [left[v] EXCEPT !.status = s]
      BY <2>1, <2>3
    <3> QED BY <2>3, <3>1, <3>2, <3>3
  <2>4. rows' = left \/ \E w \in Users, s \in {"pending_payment", "confirmed"} :
                          rows' = [left EXCEPT ![w].status = s]
    BY <1>2 DEF PromoteFromWaitlist, Waitlist
  <2> QED BY <2>2, <2>3, <2>4
<1>4. \A v \in Holders \ {u} : Holds(v)'
  BY <1>3 DEF Holders, Holds, CouponHoldsBudget
<1>5. Cardinality(Holders \ {u}) <= Cardinality(Holders') /\ Cardinality(Holders') \in Nat
      /\ Cardinality(Holders \ {u}) \in Nat
  BY <1>4, HoldersFinite, HoldersAfter
<1>6. couponUses' \in Nat /\ couponUses' <= couponUses /\ couponUses' <= Cardinality(Holders \ {u})
  <2>1. CASE CouponHoldsBudget(txn.seen)
    BY <1>2, <2>1, ReleasedUses DEF CouponInv
  <2>2. CASE ~CouponHoldsBudget(txn.seen)
    <3>1. rows[u].status = txn.seen
      BY <1>0, <2>2 DEF CommitCancel, CouponInv, ReadingIsFresh
    <3>2. Holders \ {u} = Holders
      BY <2>2, <3>1 DEF Holders, Holds
    <3> QED BY <1>1, <1>2, <2>2, <3>2 DEF CouponInv
  <2> QED BY <2>1, <2>2
<1>7. CouponWithinLimit'
  BY <1>1, <1>6, CouponAssumption DEF CouponInv, CouponWithinLimit
<1>8. ReadingIsFresh'
  BY <1>2 DEF ReadingIsFresh, NoTxn
<1>9. couponUses' <= Cardinality(Holders')
  BY <1>5, <1>6
<1> QED BY <1>7, <1>8, <1>9 DEF CouponInv

\* An application does not count; approving it counts a use within the limit, or
\* takes the coupon from the row.
LEMMA ReviewCoupon ==
  ASSUME TypeOK, CouponInv, NEW u \in Users, RejectRSVP(u) \/ ApproveRSVP(u)
  PROVE  couponUses' <= Cardinality(Holders') /\ CouponWithinLimit'
<1>1. rows \in [Users -> Rows] /\ couponUses \in Nat /\ couponUses <= Cardinality(Holders)
  BY DEF TypeOK, CouponInv
<1>2. u \notin Holders
  BY DEF RejectRSVP, ApproveRSVP, Review, Holders, Holds, CouponHoldsBudget
<1>3. Holders \ {u} = Holders
  BY <1>2
<1>4. \A v \in Users : v # u => rows'[v] = rows[v]
  BY <1>1 DEF RejectRSVP, ApproveRSVP
<1>5. \A v \in Holders : Holds(v)'
  BY <1>2, <1>4 DEF Holders, Holds
<1>6. CASE couponUses' = couponUses
  <2>1. HoldersKept
    BY <1>5, <1>6 DEF HoldersKept, Holders
  <2> QED BY <2>1, KeptKeepsCoupons
<1>7. CASE couponUses' # couponUses
  <2> DEFINE offer == tiers[rows[u].tier]
             wanted == rows[u].coupon /\ offer.price > 0
             usable == wanted /\ ValidCoupon(couponUses)
  <2>1. /\ usable /\ couponUses' = couponUses + 1
        /\ rows' = [rows EXCEPT
               ![u].status = DecideApproveStatus(ApplyDiscount(offer.price, usable)),
               ![u].coupon = IF wanted THEN usable ELSE rows[u].coupon]
    BY <1>7 DEF RejectRSVP, ApproveRSVP
  <2>2. Holds(u)'
    <3>1. PICK s \in {"pending_payment", "confirmed"} :
             s = DecideApproveStatus(ApplyDiscount(offer.price, usable))
      BY DEF DecideApproveStatus
    <3>2. PICK c \in BOOLEAN : c = usable
      OBVIOUS
    <3>3. c /\ rows' = [rows EXCEPT ![u].status = s, ![u].coupon = c]
      BY <2>1, <3>1, <3>2
    <3> HIDE DEF offer, wanted, usable
    <3>4. rows'[u].status = s /\ rows'[u].coupon = c
      BY <1>1, <3>3 DEF Rows
    <3> QED BY <3>1, <3>3, <3>4 DEF Holds, CouponHoldsBudget
  <2>3. couponUses < CouponLimit \/ CouponLimit = 0
    BY <2>1 DEF ValidCoupon
  <2>4. Cardinality(Holders \cup {u}) <= Cardinality(Holders') /\ Cardinality(Holders') \in Nat
    <3>1. \A v \in Holders \cup {u} : Holds(v)'
      BY <1>5, <2>2
    <3>2. Holders \cup {u} \in SUBSET Users
      BY HoldersFinite
    <3> QED BY <3>1, <3>2, HoldersAfter
  <2>5. Cardinality(Holders \cup {u}) = Cardinality(Holders) + 1
    BY <1>2, HoldersFinite, UserSets, FS_AddElement
  <2> HIDE DEF offer, wanted, usable
  <2>6. couponUses' <= Cardinality(Holders')
    BY <1>1, <2>1, <2>4, <2>5, HoldersFinite
  <2>7. CouponWithinLimit'
    BY <1>1, <2>1, <2>3, CouponAssumption DEF CouponWithinLimit
  <2> QED BY <2>6, <2>7
<1> QED BY <1>6, <1>7

LEMMA CancelRowsKeepCoupons ==
  ASSUME TypeOK, rows' = CancelRows, couponUses' = couponUses PROVE HoldersKept
<1> SUFFICES ASSUME NEW u \in Users, Holds(u) PROVE Holds(u)'
  BY DEF HoldersKept
<1>1. rows[u] \in Rows /\ rows'[u] \in {rows[u], [rows[u] EXCEPT !.status = "cancelled"]}
  BY DEF TypeOK, CancelRows
<1>2. [rows[u] EXCEPT !.status = "cancelled"].status = "cancelled"
      /\ [rows[u] EXCEPT !.status = "cancelled"].coupon = rows[u].coupon
  BY <1>1 DEF Rows
<1> QED BY <1>1, <1>2 DEF Holds, CouponHoldsBudget

\* Payments, webhooks and refunds take no coupon from a row.
LEMMA CheckoutKeepsCoupons ==
  ASSUME TypeOK, Checkout \/ Refunds PROVE HoldersKept
<1> USE DEF eventVars, tierVars, seatVars, moneyVars
<1>0. rows \in [Users -> Rows]
  BY DEF TypeOK
<1>1. ASSUME NEW o \in Orders, AttachPaymentOrder(o) PROVE HoldersKept
  <2>1. \A u \in Users : rows'[u].coupon = rows[u].coupon /\ rows'[u].status = rows[u].status
    BY <1>0, <1>1 DEF AttachPaymentOrder, Rows
  <2> QED BY <1>1, <2>1 DEF AttachPaymentOrder, HoldersKept, Holds
<1>2. ASSUME NEW o \in Orders, ReleaseReservation(o) PROVE HoldersKept
  <2>1. \A u \in Users : /\ rows'[u].coupon = rows[u].coupon
                         /\ rows'[u].status \in {rows[u].status, "cancelled"}
    BY <1>0, <1>2 DEF ReleaseReservation, Rows
  <2> QED BY <1>2, <2>1 DEF ReleaseReservation, HoldersKept, Holds, CouponHoldsBudget
<1>3. ASSUME NEW o \in Orders, ConfirmPayment(o) \/ FailPayment(o) PROVE HoldersKept
  <2>1. \A u \in Users : /\ rows'[u].coupon = rows[u].coupon
                         /\ rows'[u].status \in {rows[u].status, "cancelled", "confirmed"}
    BY <1>0, <1>3 DEF ConfirmPayment, FailPayment, Rows
  <2> QED BY <1>3, <2>1 DEF ConfirmPayment, FailPayment, HoldersKept, Holds, CouponHoldsBudget
<1>4. ASSUME NEW j \in Jobs, MarkRefunded(j) PROVE HoldersKept
  <2>1. \A u \in Users : rows'[u].coupon = rows[u].coupon /\ rows'[u].status = rows[u].status
    BY <1>0, <1>4 DEF MarkRefunded, Rows
  <2> QED BY <1>4, <2>1 DEF MarkRefunded, HoldersKept, Holds
<1>5. ASSUME UNCHANGED <<rows, couponUses>> PROVE HoldersKept
  BY <1>5 DEF HoldersKept, Holds
<1>6. CASE Checkout
  BY <1>1, <1>2, <1>3, <1>5, <1>6
  DEF Checkout, CreateOrder, CreateOrderFails, AttachFails, Pay
<1>7. CASE Refunds
  BY <1>4, <1>5, <1>7 DEF Refunds, ListRefunds, MarkFails, RefundSucceeds, RefundFails
<1> QED BY <1>6, <1>7

LEMMA CouponStep == TypeOK /\ CouponInv /\ [Next]_vars => CouponInv'
<1> SUFFICES ASSUME TypeOK, CouponInv, [Next]_vars PROVE CouponInv'
  OBVIOUS
<1> USE DEF eventVars, tierVars, seatVars, moneyVars
<1>0. ReadingIsFresh
  BY DEF CouponInv
<1>1. ASSUME HoldersKept, ReadingIsFresh' PROVE CouponInv'
  BY <1>1, KeptKeepsCoupons DEF CouponInv
<1>2. UNCHANGED <<rows, couponUses>> => HoldersKept
  BY DEF HoldersKept, Holds
<1>3. ASSUME NEW u \in Users, NEW t \in Tiers, NEW code \in Codes, BeginRSVP(u, t, code)
      PROVE  CouponInv'
  BY <1>1, <1>2, <1>3 DEF BeginRSVP, ReadingIsFresh
<1>4. ASSUME NEW u \in Users, BeginCancel(u) PROVE CouponInv'
  BY <1>1, <1>2, <1>4 DEF BeginCancel, ReadingIsFresh
<1>5. CASE CommitRSVP
  BY <1>5, CommitRSVPCoupon
<1>6. CASE CommitCancel
  BY <1>6, CommitCancelCoupon
<1>7. CASE Rollback \/ Crash
  BY <1>1, <1>2, <1>7 DEF Rollback, Crash, ReadingIsFresh, NoTxn
<1>8. ASSUME NEW u \in Users, RejectRSVP(u) \/ ApproveRSVP(u) PROVE CouponInv'
  <2>1. ReadingIsFresh'
    BY <1>8 DEF RejectRSVP, ApproveRSVP, Review, ReadingIsFresh, NoTxn
  <2> QED BY <1>8, <2>1, ReviewCoupon DEF CouponInv
<1>9. CASE CommitSetStatus \/ AdminCancelEvent
  <2>1. ReadingIsFresh'
    BY <1>9 DEF CommitSetStatus, AdminCancelEvent, ReadingIsFresh, NoTxn
  <2>2. HoldersKept
    BY <1>2, <1>9, CancelRowsKeepCoupons DEF CommitSetStatus, AdminCancelEvent
  <2> QED BY <1>1, <2>1, <2>2
<1>10. CASE Checkout \/ Refunds
  <2>1. ReadingIsFresh'
    BY <1>0, <1>10, CheckoutKeepsTxn, RefundsKeepTxn, TxnKeptKeepsReading
  <2> QED BY <1>1, <1>10, <2>1, CheckoutKeepsCoupons
<1>11. ASSUME UNCHANGED <<rows, couponUses, txn>> PROVE CouponInv'
  BY <1>0, <1>1, <1>2, <1>11 DEF ReadingIsFresh
<1>12. CASE AdminUnpublishEvent \/ EndTimePasses \/ ArchivePastEvents \/ CommitUpdateTier
             \/ (\E s \in {"published", "cancelled"} : BeginSetStatus(s))
             \/ (\E c \in CapacityEdits \cup {capacity}, review \in ReviewEdits :
                   BeginUpdateEvent(c, review))
             \/ CommitUpdateEvent
             \/ (\E t \in Tiers, offer \in TierEdits : BeginUpdateTier(t, offer))
  BY <1>11, <1>12 DEF AdminUnpublishEvent, EndTimePasses, ArchivePastEvents, CommitUpdateTier,
                      BeginSetStatus, BeginUpdateEvent, CommitUpdateEvent, BeginUpdateTier
<1>13. CASE UNCHANGED vars
  BY <1>11, <1>13 DEF vars
<1> QED BY <1>3, <1>4, <1>5, <1>6, <1>7, <1>8, <1>9, <1>10, <1>12, <1>13
        DEF Next, Attendee, Host, Admin, Environment

-------------------------------------------------------------------------------
(* The theorems *)

\* The inductive invariant of the coupon holds in every reachable state.
THEOREM CouponCorrect == Spec => []CouponInv
BY CouponInit, CouponStep, TypeInit, TypeStep, PTL DEF Spec

\* The coupon is never used more often than max_uses, through RSVPs that reuse a
\* failed reservation's row, approvals, and cancellations that race a webhook.
THEOREM CouponStaysWithinLimit == Spec => []CouponWithinLimit
<1>1. CouponInv => CouponWithinLimit
  BY DEF CouponInv
<1> QED BY <1>1, CouponCorrect, PTL

\* No use is counted for ever: behind each is a row with the coupon, whose
\* cancellation gives it back.
THEOREM CountedUsesAreHeld == Spec => []CouponUsesBacked
<1>1. TypeOK /\ CouponInv => CouponUsesBacked
  <2> SUFFICES ASSUME TypeOK, CouponInv PROVE CouponUsesBacked
    OBVIOUS
  <2> DEFINE S == {u \in Users : rows[u].coupon}
  <2>1. S \in SUBSET Users /\ Holders \in SUBSET S
    BY DEF Holders, Holds
  <2>2. Cardinality(Holders) <= Cardinality(S) /\ Cardinality(S) \in Nat
    BY <2>1, SmallerSet, UserSets
  <2>3. couponUses \in Nat /\ couponUses <= Cardinality(Holders) /\ Cardinality(Holders) \in Nat
    BY HoldersFinite DEF TypeOK, CouponInv
  <2>4. couponUses <= Cardinality(S)
    BY <2>2, <2>3
  <2> QED BY <2>4 DEF CouponUsesBacked
<1> QED BY <1>1, CouponCorrect, TypeCorrect, PTL

===============================================================================
