----------------------------- MODULE MCEventRSVP -----------------------------
(* Instances of EventRSVP for TLC.  Users, and jobs, are interchangeable: nothing  *)
(* orders them but the rank of their rows, which is part of the state.      *)
EXTENDS EventRSVP, TLC

CONSTANTS Standard, Vip

Symmetry == Permutations(Users) \cup Permutations(Jobs)

(* Two free tiers, one of them with a single ticket, and an edit of tiers *)
FreeTiers == Standard :> [price |-> 0, cap |-> 0] @@ Vip :> [price |-> 0, cap |-> 1]
FreeEdits == {[price |-> 0, cap |-> 1]}

FreeTier == Standard :> [price |-> 0, cap |-> 0]

(* One paid tier; the coupon halves its price, and the seat is still paid *)
PaidTier == Standard :> [price |-> 99, cap |-> 0]

NoEdits == {}
NoReviewEdits == {}
==============================================================================
