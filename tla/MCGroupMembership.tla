-------------------------- MODULE MCGroupMembership --------------------------
(* Instances of GroupMembership for TLC: the accounts other than the         *)
(* organizer's are interchangeable, and so are the links.                    *)
EXTENDS GroupMembership, TLC

Symmetry == Permutations(Users \ {Organizer}) \cup Permutations(Invites)

NoLeavers == {}
==============================================================================
