SPECIFICATION Spec
CONSTANTS
  Users = {u1, u2, u3}
  NoUser = NoUser
  Standard = standard
  Vip = vip
  Tiers = {standard, vip}
  NoTier = NoTier
  InitTiers <- FreeTiers
  TierEdits <- NoEdits
  InitCapacity = 2
  CapacityEdits <- NoEdits
  InitReview = FALSE
  ReviewEdits <- NoEdits
  Codes = {FALSE}
  CouponPercent = 50
  CouponLimit = 0
  MaxOrders = 0
  Jobs = {j1}
SYMMETRY Symmetry
INVARIANTS TierNotOversold
