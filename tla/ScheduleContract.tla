--------------------------- MODULE ScheduleContract ---------------------------
(***************************************************************************)
(* What the blog service promises to an author who schedules a blog,       *)
(* whatever index, search lag, retries and number of instances lie behind: *)
(* an order to publish is carried out at most once, never before its time, *)
(* never after it was withdrawn, and no order that is due stays undecided. *)
(* BlogIndex is shown to implement this contract.                          *)
(***************************************************************************)
EXTENDS Naturals

CONSTANT Blogs

VARIABLES
    order,      \* order[b]: the standing order of the author for blog b
    fulfilled   \* fulfilled[b]: how many orders of b the service carried out

vars == <<order, fulfilled>>

Init ==
    /\ order = [b \in Blogs |-> "none"]
    /\ fulfilled = [b \in Blogs |-> 0]

\* The author asks for a publication, now or later; a new order replaces the
\* standing one.
Place(b) ==
    /\ \E when \in {"waiting", "due"} : order' = [order EXCEPT ![b] = when]
    /\ UNCHANGED fulfilled

\* The order ends without a publication by the service: cancelled, edited,
\* published by hand, archived, deleted, or given up after too many failures.
Withdraw(b) ==
    /\ order[b] # "none"
    /\ order' = [order EXCEPT ![b] = "none"]
    /\ UNCHANGED fulfilled

\* Time passes, and the orders whose time it is become due.
Ripen ==
    /\ \E S \in SUBSET {b \in Blogs : order[b] = "waiting"} :
          order' = [b \in Blogs |-> IF b \in S THEN "due" ELSE order[b]]
    /\ UNCHANGED fulfilled

\* The service carries out an order that is due, which ends it.
Fulfil(b) ==
    /\ order[b] = "due"
    /\ order' = [order EXCEPT ![b] = "none"]
    /\ fulfilled' = [fulfilled EXCEPT ![b] = @ + 1]

Next == Ripen \/ \E b \in Blogs : Place(b) \/ Withdraw(b) \/ Fulfil(b)

\* No order stays due for ever.
Decided == \A b \in Blogs : order[b] = "due" ~> order[b] # "due"

Spec == Init /\ [][Next]_vars /\ Decided
===============================================================================
