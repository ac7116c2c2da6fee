SPECIFICATION Spec
CONSTANTS
  Users = {u1, u2, u3}
  NoUser = NoUser
  Standard = standard
  Vip = vip
  Tiers = {standard, vip}
  NoTier = NoTier
  InitTiers <- FreeTiers
  TierEdits <- FreeEdits
  InitCapacity = 2
  CapacityEdits = {1, 2}
  InitReview = FALSE
  ReviewEdits = {{}, {TRUE}, {FALSE}}
  Codes = {FALSE}
  CouponPercent = 50
  CouponLimit = 0
  MaxOrders = 0
  Jobs = {j1}
SYMMETRY Symmetry
INVARIANTS TypeOK NoOversell CancelledIsEmpty
PROPERTIES ReviewGate EndedIsFinal
