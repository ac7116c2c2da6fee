SPECIFICATION Spec
CONSTANTS
  Users = {u1}
  NoUser = NoUser
  Standard = standard
  Vip = vip
  Tiers = {standard}
  NoTier = NoTier
  InitTiers <- PaidTier
  TierEdits <- NoEdits
  InitCapacity = 1
  CapacityEdits <- NoEdits
  InitReview = FALSE
  ReviewEdits <- NoEdits
  Codes = {FALSE}
  CouponPercent = 50
  CouponLimit = 0
  MaxOrders = 2
  Jobs = {j1}
SYMMETRY Symmetry
INVARIANTS RefundStaysPayable
