----------------------------- MODULE MCMessageBus -----------------------------
(* Instances of MessageBus for TLC; no symmetry, for the liveness properties. *)
EXTENDS MessageBus

NoGoroutine == {}
===============================================================================
