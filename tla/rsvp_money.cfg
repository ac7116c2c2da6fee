SPECIFICATION Spec
CONSTANTS
  Users = {u1, u2}
  NoUser = NoUser
  Standard = standard
  Vip = vip
  Tiers = {standard}
  NoTier = NoTier
  InitTiers <- PaidTier
  TierEdits <- NoEdits
  InitCapacity = 1
  CapacityEdits <- NoEdits
  InitReview = FALSE
  ReviewEdits = {{TRUE}}
  Codes = {FALSE, TRUE}
  CouponPercent = 50
  CouponLimit = 1
  MaxOrders = 2
  Jobs = {j1, j2}
SYMMETRY Symmetry
INVARIANTS NoOversell SeatedMoneyHeld LedgerAgrees CouponWithinLimit CouponUsesBacked
PROPERTIES RefundFollowsLostSeat
