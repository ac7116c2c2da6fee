------------------------ MODULE GroupMembership_proofs ------------------------
(***************************************************************************)
(* Theorems about GroupMembership, for every set of accounts and links,    *)
(* every limit and role a link may carry.                                  *)
(***************************************************************************)
EXTENDS GroupMembership, FiniteSetTheorems, TLAPS

USE DEF groupVars, memberVars, inviteVars

-----------------------------------------------------------------------------
(* Type correctness *)

LEMMA RoleTypes ==
  /\ NoMember \in Members /\ NoInvite \in InviteRecords /\ NoAccept \in Accepts
  /\ \A role \in AssignableRoles :
       /\ [status |-> "active", role |-> role] \in Members
       /\ PermissionsForRole(role) \in SUBSET OrganizerPermissions
  /\ [status |-> "active", role |-> "organizer"] \in Members
  /\ [status |-> "active", role |-> "member"] \in Members
  /\ [status |-> "pending", role |-> "member"] \in Members
BY DEF NoMember, Members, NoInvite, InviteRecords, NoAccept, Accepts, AssignableRoles,
       PermissionsForRole, OrganizerPermissions, ModeratorPermissions

LEMMA SetStatusType ==
  ASSUME NEW m \in Members, NEW s \in {"left", "removed", "banned"}
  PROVE  [m EXCEPT !.status = s] \in Members
BY DEF Members

LEMMA AdjustType ==
  ASSUME TypeOK, NEW delta \in Int, AdjustMemberCount(delta)
  PROVE  memberCount' \in Nat
BY DEF AdjustMemberCount, TypeOK

LEMMA EvictType ==
  ASSUME TypeOK, NEW u \in Users, NEW s \in {"left", "removed", "banned"}, Evict(u, s)
  PROVE  /\ members' \in [Users -> Members]
         /\ grants' \in [Users -> SUBSET OrganizerPermissions]
         /\ memberCount' \in Nat
<1>1. members' \in [Users -> Members]
  BY SetStatusType DEF Evict, TypeOK
<1>2. grants' \in [Users -> SUBSET OrganizerPermissions]
  BY DEF Evict, TypeOK
<1>3. memberCount' \in Nat
  BY AdjustType DEF Evict, TypeOK
<1> QED
  BY <1>1, <1>2, <1>3

(* An AcceptInvite under way has a caller *)
LEMMA AcceptUser ==
  ASSUME TypeOK, NEW i \in Invites, accepts[i] # NoAccept
  PROVE  accepts[i].user \in Users /\ accepts[i].pc \in {"checked", "absent", "locked"}
BY DEF TypeOK, Accepts

LEMMA CommitFacts ==
  ASSUME TypeOK, NEW i \in Invites, CommitAccept(i)
  PROVE  /\ accepts[i] # NoAccept /\ accepts[i].user \in Users
         /\ accepts[i].pc \in {"absent", "locked"}
         /\ invites[i].role \in AssignableRoles
BY AcceptUser DEF CommitAccept, TypeOK, InviteRecords, NoAccept

LEMMA TypeInit == Init => TypeOK
BY RoleTypes, UsersAssumption DEF Init, TypeOK

LEMMA TypeVisitor ==
  ASSUME TypeOK, NEW u \in Users, JoinGroup(u) \/ LeaveGroup(u) PROVE TypeOK'
<1>1. CASE JoinGroup(u)
  <2>1. members' \in [Users -> Members] /\ requests' \subseteq Users
    BY <1>1, RoleTypes DEF JoinGroup, TypeOK
  <2>2. memberCount' \in Nat
    BY <1>1, AdjustType DEF JoinGroup, TypeOK
  <2> QED
    BY <1>1, <2>1, <2>2 DEF JoinGroup, TypeOK
<1>2. CASE LeaveGroup(u)
  BY <1>2, EvictType DEF LeaveGroup, TypeOK
<1> QED
  BY <1>1, <1>2

LEMMA TypeStaff == TypeOK /\ Staff => TypeOK'
<1> SUFFICES ASSUME TypeOK, Staff PROVE TypeOK'
  OBVIOUS
<1>1. ASSUME NEW a \in Users, NEW u \in Users, NEW role \in StaffRoles,
             UpdateMemberRole(a, u, role)
      PROVE  TypeOK'
  <2>1. role \in AssignableRoles
    BY RoleAssumption
  <2>2. [members[u] EXCEPT !.role = role] \in Members
    BY <2>1 DEF TypeOK, Members
  <2> QED
    BY <1>1, <2>1, <2>2, RoleTypes DEF UpdateMemberRole, TypeOK
<1>2. ASSUME NEW a \in Users, NEW u \in Users, NEW role \in StaffRoles, AddMember(a, u, role)
      PROVE  TypeOK'
  <2>1. role \in AssignableRoles
    BY RoleAssumption
  <2>2. memberCount' \in Nat
    BY <1>2, AdjustType DEF AddMember
  <2> QED
    BY <1>2, <2>1, <2>2, RoleTypes DEF AddMember, TypeOK
<1>3. ASSUME NEW a \in Users, NEW u \in Users, RemoveMember(a, u) PROVE TypeOK'
  BY <1>3, EvictType DEF RemoveMember, TypeOK
<1>4. ASSUME NEW a \in Users, NEW u \in Users, BanMember(a, u) PROVE TypeOK'
  BY <1>4, EvictType DEF BanMember, TypeOK
<1>5. ASSUME NEW a \in Users, NEW u \in Users, ApproveJoinRequest(a, u) PROVE TypeOK'
  <2>1. memberCount' \in Nat
    BY <1>5, AdjustType DEF ApproveJoinRequest, TypeOK
  <2> QED
    BY <1>5, <2>1, RoleTypes DEF ApproveJoinRequest, TypeOK
<1>6. ASSUME NEW a \in Users, NEW u \in Users, RejectJoinRequest(a, u) PROVE TypeOK'
  <2>1. members[u] \in Members
    BY DEF TypeOK
  <2>2. [members[u] EXCEPT !.status = "removed"] \in Members
    BY <2>1, SetStatusType
  <2>3. members' \in [Users -> Members]
    BY <1>6, <2>2 DEF RejectJoinRequest, TypeOK
  <2> QED
    BY <1>6, <2>3 DEF RejectJoinRequest, TypeOK
<1> QED
  BY <1>1, <1>2, <1>3, <1>4, <1>5, <1>6 DEF Staff

LEMMA TypeLinks == TypeOK /\ Links => TypeOK'
<1> SUFFICES ASSUME TypeOK, NEW i \in Invites,
                    \/ \E a \in Users : \/ RevokeInvite(a, i)
                                        \/ \E role \in InviteRoles, limit \in InviteLimits :
                                             CreateInvite(a, i, role, limit)
                    \/ \E u \in Users : BeginAccept(u, i)
                    \/ InviteExpires(i) \/ ReadMembership(i) \/ CommitAccept(i) \/ AbortAccept(i)
             PROVE  TypeOK'
  BY DEF Links
<1>1. ASSUME NEW a \in Users, RevokeInvite(a, i) PROVE TypeOK'
  BY <1>1 DEF RevokeInvite, TypeOK, InviteRecords
<1>2. ASSUME NEW a \in Users, NEW role \in InviteRoles, NEW limit \in InviteLimits,
             CreateInvite(a, i, role, limit)
      PROVE  TypeOK'
  <2>1. [creator |-> a, role |-> role, limit |-> limit, uses |-> 0, live |-> TRUE]
          \in InviteRecords
    BY RoleAssumption, InviteAssumption DEF InviteRecords
  <2> QED
    BY <1>2, <2>1 DEF CreateInvite, TypeOK
<1>3. ASSUME NEW u \in Users, BeginAccept(u, i) PROVE TypeOK'
  BY <1>3 DEF BeginAccept, TypeOK, Accepts
<1>4. CASE InviteExpires(i)
  BY <1>4 DEF InviteExpires, TypeOK, InviteRecords
<1>5. CASE ReadMembership(i)
  <2>1. accepts[i] \in [user : Users, pc : {"checked", "absent", "locked"}]
    BY <1>5 DEF ReadMembership, TypeOK, Accepts, NoAccept
  <2>2. accepts' \in [Invites -> Accepts]
    BY <1>5, <2>1 DEF ReadMembership, TypeOK, Accepts
  <2> QED
    BY <1>5, <2>2 DEF ReadMembership, TypeOK
<1>6. CASE CommitAccept(i)
  <2>1. memberCount' \in Nat
    BY <1>6, AdjustType DEF CommitAccept
  <2>2. invites' \in [Invites -> InviteRecords]
    BY <1>6 DEF CommitAccept, TypeOK, InviteRecords
  <2>3. members' \in [Users -> Members] /\ grants' \in [Users -> SUBSET OrganizerPermissions]
    BY <1>6, CommitFacts, RoleTypes DEF CommitAccept, TypeOK
  <2> QED
    BY <1>6, <2>1, <2>2, <2>3, RoleTypes DEF CommitAccept, TypeOK
<1>7. CASE AbortAccept(i)
  BY <1>7, RoleTypes DEF AbortAccept, TypeOK
<1> QED
  BY <1>1, <1>2, <1>3, <1>4, <1>5, <1>6, <1>7

LEMMA TypeRest == TypeOK /\ (Settings \/ Departure) => TypeOK'
<1> SUFFICES ASSUME TypeOK, Settings \/ Departure PROVE TypeOK'
  OBVIOUS
<1>1. ASSUME NEW a \in Users, NEW s \in GroupStatuses, SetGroupStatus(a, s) PROVE TypeOK'
  BY <1>1, StatusAssumption DEF SetGroupStatus, TypeOK
<1>2. ASSUME NEW a \in Users, NEW v \in {"public", "private"}, UpdateGroup(a, v) PROVE TypeOK'
  BY <1>2 DEF UpdateGroup, TypeOK
<1>3. CASE AdminSuspendGroup
  BY <1>3 DEF AdminSuspendGroup, TypeOK
<1>4. ASSUME NEW u \in Leavers, RemoveUserFromGroups(u) PROVE TypeOK'
  BY <1>4, RoleTypes DEF RemoveUserFromGroups, TypeOK
<1>5. ASSUME NEW u \in Leavers, DeleteAccount(u) PROVE TypeOK'
  <2>1. bans' \in [Users -> Users \cup {NoUser}] /\ invites' \in [Invites -> InviteRecords]
    BY <1>5, RoleTypes DEF DeleteAccount, TypeOK
  <2> QED
    BY <1>5, <2>1, RoleTypes DEF DeleteAccount, TypeOK
<1> QED
  BY <1>1, <1>2, <1>3, <1>4, <1>5 DEF Settings, Departure

LEMMA TypeStep == TypeOK /\ [Next]_vars => TypeOK'
<1> SUFFICES ASSUME TypeOK, [Next]_vars PROVE TypeOK'
  OBVIOUS
<1>1. CASE Next
  BY <1>1, TypeVisitor, TypeStaff, TypeLinks, TypeRest DEF Next, Visitor
<1>2. CASE UNCHANGED vars
  BY <1>2 DEF vars, TypeOK
<1> QED
  BY <1>1, <1>2

(* The variables of GroupMembership always have their types. *)
THEOREM TypeCorrect == Spec => []TypeOK
<1>1. Init => TypeOK
  BY TypeInit
<1>2. TypeOK /\ [Next]_vars => TypeOK'
  BY TypeStep
<1> QED
  BY <1>1, <1>2, PTL DEF Spec

-----------------------------------------------------------------------------
(* The counter, and the links *)

LEMMA ActiveSets ==
  ASSUME NEW S \in SUBSET Users
  PROVE  IsFiniteSet(S) /\ Cardinality(S) \in Nat
BY UsersAssumption, FS_Subset, FS_CardinalityType

(* The three ways a step keeps CountCoversMembers: it admits nobody, admits *)
(* one user and counts up, or evicts an active user and counts down         *)
LEMMA CountSame ==
  ASSUME CountCoversMembers, ActiveMembers' \subseteq ActiveMembers, memberCount' = memberCount,
         TypeOK
  PROVE  CountCoversMembers'
<1>1. IsFiniteSet(ActiveMembers) /\ Cardinality(ActiveMembers) \in Nat
  BY ActiveSets DEF ActiveMembers
<1>2. Cardinality(ActiveMembers') <= Cardinality(ActiveMembers) /\ Cardinality(ActiveMembers') \in Nat
  BY <1>1, FS_Subset, FS_CardinalityType
<1> QED
  BY <1>1, <1>2 DEF CountCoversMembers, TypeOK

LEMMA CountUp ==
  ASSUME CountCoversMembers, TypeOK, NEW u \in Users,
         ActiveMembers' \subseteq ActiveMembers \cup {u}, AdjustMemberCount(1)
  PROVE  CountCoversMembers'
<1>1. IsFiniteSet(ActiveMembers) /\ Cardinality(ActiveMembers) \in Nat
  BY ActiveSets DEF ActiveMembers
<1>2. /\ IsFiniteSet(ActiveMembers \cup {u})
      /\ Cardinality(ActiveMembers \cup {u}) <= Cardinality(ActiveMembers) + 1
      /\ Cardinality(ActiveMembers \cup {u}) \in Nat
  <2>1. /\ IsFiniteSet(ActiveMembers \cup {u})
        /\ Cardinality(ActiveMembers \cup {u}) =
             IF u \in ActiveMembers THEN Cardinality(ActiveMembers)
                                    ELSE Cardinality(ActiveMembers) + 1
    BY <1>1, FS_AddElement
  <2> QED
    BY <1>1, <2>1
<1>3. /\ Cardinality(ActiveMembers') <= Cardinality(ActiveMembers \cup {u})
      /\ Cardinality(ActiveMembers') \in Nat
  BY <1>2, FS_Subset, FS_CardinalityType
<1> QED
  BY <1>1, <1>2, <1>3 DEF CountCoversMembers, AdjustMemberCount, TypeOK

LEMMA CountDown ==
  ASSUME CountCoversMembers, TypeOK, NEW u \in ActiveMembers,
         ActiveMembers' \subseteq ActiveMembers \ {u}, AdjustMemberCount(-1)
  PROVE  CountCoversMembers'
<1>1. IsFiniteSet(ActiveMembers) /\ Cardinality(ActiveMembers) \in Nat
  BY ActiveSets DEF ActiveMembers
<1>2. /\ IsFiniteSet(ActiveMembers \ {u})
      /\ Cardinality(ActiveMembers \ {u}) = Cardinality(ActiveMembers) - 1
  BY <1>1, FS_RemoveElement
<1>3. /\ Cardinality(ActiveMembers') <= Cardinality(ActiveMembers \ {u})
      /\ Cardinality(ActiveMembers') \in Nat
  BY <1>2, FS_Subset, FS_CardinalityType
<1> QED
  BY <1>1, <1>2, <1>3 DEF CountCoversMembers, AdjustMemberCount, TypeOK

LEMMA CountEvict ==
  ASSUME CountCoversMembers, TypeOK, NEW u \in Users, NEW s \in {"left", "removed", "banned"},
         Evict(u, s)
  PROVE  CountCoversMembers'
<1>1. ActiveMembers' = ActiveMembers \ {u}
  BY DEF Evict, ActiveMembers, TypeOK, Members
<1>2. CASE members[u].status = "active"
  BY <1>1, <1>2, CountDown DEF Evict, ActiveMembers
<1>3. CASE members[u].status # "active"
  BY <1>1, <1>3, CountSame DEF Evict
<1> QED
  BY <1>2, <1>3

(* Steps that leave memberCount alone and activate nobody *)
LEMMA CountQuiet ==
  ASSUME CountCoversMembers, TypeOK, UNCHANGED memberCount,
         \A u \in Users : members'[u].status = "active" => members[u].status = "active"
  PROVE  CountCoversMembers'
BY CountSame DEF ActiveMembers

LEMMA CountStaff == TypeOK /\ CountCoversMembers /\ Staff => CountCoversMembers'
<1> SUFFICES ASSUME TypeOK, CountCoversMembers, Staff PROVE CountCoversMembers'
  OBVIOUS
<1>1. ASSUME NEW a \in Users, NEW u \in Users, NEW role \in StaffRoles,
             UpdateMemberRole(a, u, role)
      PROVE  CountCoversMembers'
  BY <1>1, CountQuiet DEF UpdateMemberRole, TypeOK, Members
<1>2. ASSUME NEW a \in Users, NEW u \in Users, NEW role \in StaffRoles, AddMember(a, u, role)
      PROVE  CountCoversMembers'
  <2>1. ActiveMembers' \subseteq ActiveMembers \cup {u}
    BY <1>2 DEF AddMember, ActiveMembers, TypeOK
  <2> QED
    BY <1>2, <2>1, CountUp DEF AddMember
<1>3. ASSUME NEW a \in Users, NEW u \in Users, RemoveMember(a, u) PROVE CountCoversMembers'
  BY <1>3, CountEvict DEF RemoveMember
<1>4. ASSUME NEW a \in Users, NEW u \in Users, BanMember(a, u) PROVE CountCoversMembers'
  BY <1>4, CountEvict DEF BanMember
<1>5. ASSUME NEW a \in Users, NEW u \in Users, ApproveJoinRequest(a, u)
      PROVE  CountCoversMembers'
  <2>1. ActiveMembers' = ActiveMembers \cup {u}
    BY <1>5 DEF ApproveJoinRequest, ActiveMembers, TypeOK
  <2>2. CASE members[u].status # "active"
    BY <1>5, <2>1, <2>2, CountUp DEF ApproveJoinRequest
  <2>3. CASE members[u].status = "active"
    BY <1>5, <2>1, <2>3, CountSame DEF ApproveJoinRequest, ActiveMembers
  <2> QED
    BY <2>2, <2>3
<1>6. ASSUME NEW a \in Users, NEW u \in Users, RejectJoinRequest(a, u)
      PROVE  CountCoversMembers'
  <2>1. \A v \in Users : members'[v].status = "active" => members[v].status = "active"
    BY <1>6 DEF RejectJoinRequest, TypeOK, Members
  <2> QED
    BY <1>6, <2>1, CountQuiet DEF RejectJoinRequest
<1> QED
  BY <1>1, <1>2, <1>3, <1>4, <1>5, <1>6 DEF Staff

LEMMA CountStep == TypeOK /\ CountCoversMembers /\ [Next]_vars => CountCoversMembers'
<1> SUFFICES ASSUME TypeOK, CountCoversMembers, [Next]_vars PROVE CountCoversMembers'
  OBVIOUS
<1>1. ASSUME NEW u \in Users, JoinGroup(u) PROVE CountCoversMembers'
  <2>1. CASE visibility = "public"
    <3>1. ActiveMembers' \subseteq ActiveMembers \cup {u}
      BY <1>1, <2>1 DEF JoinGroup, ActiveMembers, TypeOK
    <3> QED
      BY <1>1, <2>1, <3>1, CountUp DEF JoinGroup
  <2>2. CASE visibility # "public"
    BY <1>1, <2>2, CountQuiet DEF JoinGroup, TypeOK
  <2> QED
    BY <2>1, <2>2
<1>2. ASSUME NEW u \in Users, LeaveGroup(u) PROVE CountCoversMembers'
  BY <1>2, CountEvict DEF LeaveGroup
<1>3. ASSUME NEW i \in Invites, CommitAccept(i) PROVE CountCoversMembers'
  <2>1. ActiveMembers' \subseteq ActiveMembers \cup {accepts[i].user}
    BY <1>3, CommitFacts DEF CommitAccept, ActiveMembers, TypeOK
  <2> QED
    BY <1>3, <2>1, CommitFacts, CountUp DEF CommitAccept
<1>4. ASSUME NEW u \in Leavers, RemoveUserFromGroups(u) \/ DeleteAccount(u)
      PROVE  CountCoversMembers'
  BY <1>4, CountQuiet DEF RemoveUserFromGroups, DeleteAccount, TypeOK, NoMember
<1>5. ASSUME UNCHANGED memberVars PROVE CountCoversMembers'
  BY <1>5 DEF CountCoversMembers, ActiveMembers
<1>6. Links => UNCHANGED memberVars \/ \E i \in Invites : CommitAccept(i)
  BY DEF Links, RevokeInvite, CreateInvite, BeginAccept, InviteExpires, ReadMembership, AbortAccept
<1>7. Settings => UNCHANGED memberVars
  BY DEF Settings, SetGroupStatus, UpdateGroup, AdminSuspendGroup
<1> QED
  BY <1>1, <1>2, <1>3, <1>4, <1>5, <1>6, <1>7, CountStaff DEF Next, Visitor, Departure, vars

(* member_count never falls below the number of active members.            *)
THEOREM CounterCovers == Spec => []CountCoversMembers
<1>1. Init => CountCoversMembers
  <2> SUFFICES ASSUME Init PROVE CountCoversMembers
    OBVIOUS
  <2>1. ActiveMembers = {Organizer}
    BY UsersAssumption DEF Init, ActiveMembers, NoMember
  <2>2. Cardinality(ActiveMembers) = 1
    BY <2>1, FS_Singleton
  <2> QED
    BY <2>2 DEF Init, CountCoversMembers
<1>2. TypeOK /\ CountCoversMembers /\ [Next]_vars => CountCoversMembers'
  BY CountStep
<1> QED
  BY <1>1, <1>2, TypeCorrect, PTL DEF Spec

(* An AcceptInvite holds the row of a link that exists and has a use left;  *)
(* the row lock is what keeps it so until the commit                        *)
LinkInv ==
  \A i \in Invites :
    /\ invites[i].live \/ accepts[i] # NoAccept => invites[i].creator # NoUser
    /\ invites[i].limit > 0 => invites[i].uses <= invites[i].limit
    /\ accepts[i] # NoAccept /\ invites[i].limit > 0 => invites[i].uses < invites[i].limit

LEMMA LinkLinks == TypeOK /\ LinkInv /\ Links => LinkInv'
<1> SUFFICES ASSUME TypeOK, LinkInv, NEW i \in Invites,
                    \/ \E a \in Users : \/ RevokeInvite(a, i)
                                        \/ \E role \in InviteRoles, limit \in InviteLimits :
                                             CreateInvite(a, i, role, limit)
                    \/ \E u \in Users : BeginAccept(u, i)
                    \/ InviteExpires(i) \/ ReadMembership(i) \/ CommitAccept(i) \/ AbortAccept(i)
             PROVE  LinkInv'
  BY DEF Links
<1> USE DEF TypeOK, InviteRecords
<1>1. ASSUME NEW a \in Users, RevokeInvite(a, i) PROVE LinkInv'
  BY <1>1 DEF RevokeInvite, LinkInv
<1>2. ASSUME NEW a \in Users, NEW role \in InviteRoles, NEW limit \in InviteLimits,
             CreateInvite(a, i, role, limit)
      PROVE  LinkInv'
  <2>1. accepts[i] = NoAccept
    BY <1>2 DEF CreateInvite, LinkInv, NoInvite
  <2>2. a # NoUser /\ limit \in Nat
    BY UsersAssumption, InviteAssumption
  <2> QED
    BY <1>2, <2>1, <2>2 DEF CreateInvite, LinkInv
<1>3. ASSUME NEW u \in Users, BeginAccept(u, i) PROVE LinkInv'
  BY <1>3 DEF BeginAccept, InviteIsActive, LinkInv
<1>4. CASE InviteExpires(i)
  BY <1>4 DEF InviteExpires, LinkInv
<1>5. CASE ReadMembership(i)
  <2>1. accepts[i] # NoAccept
    BY <1>5 DEF ReadMembership, NoAccept
  <2> QED
    BY <1>5, <2>1 DEF ReadMembership, LinkInv
<1>6. CASE CommitAccept(i)
  <2>1. accepts[i] # NoAccept
    BY <1>6, CommitFacts
  <2>2. /\ invites' = [invites EXCEPT ![i].uses = @ + 1]
        /\ accepts' = [accepts EXCEPT ![i] = NoAccept]
    BY <1>6 DEF CommitAccept
  <2>3. \A j \in Invites : j # i => invites'[j] = invites[j] /\ accepts'[j] = accepts[j]
    BY <2>2
  <2>4. /\ invites'[i].live = invites[i].live /\ invites'[i].limit = invites[i].limit
        /\ invites'[i].creator = invites[i].creator
        /\ invites'[i].uses = invites[i].uses + 1 /\ accepts'[i] = NoAccept
    BY <2>2
  <2>5. invites[i].uses \in Nat /\ invites[i].limit \in Nat
    OBVIOUS
  <2> QED
    BY <2>1, <2>3, <2>4, <2>5 DEF LinkInv
<1>7. CASE AbortAccept(i)
  BY <1>7 DEF AbortAccept, LinkInv
<1> QED
  BY <1>1, <1>2, <1>3, <1>4, <1>5, <1>6, <1>7

LEMMA LinkStep == TypeOK /\ LinkInv /\ [Next]_vars => LinkInv'
<1> SUFFICES ASSUME TypeOK, LinkInv, [Next]_vars PROVE LinkInv'
  OBVIOUS
<1>1. CASE Links
  BY <1>1, LinkLinks
<1>2. ASSUME UNCHANGED inviteVars PROVE LinkInv'
  BY <1>2 DEF LinkInv
<1>3. ASSUME NEW u \in Leavers, DeleteAccount(u) PROVE LinkInv'
  BY <1>3 DEF DeleteAccount, LinkInv, NoInvite, TypeOK
<1>4. ASSUME NEW u \in Leavers, RemoveUserFromGroups(u) PROVE LinkInv'
  BY <1>2, <1>4 DEF RemoveUserFromGroups
<1>5. Visitor \/ Settings => UNCHANGED inviteVars
  BY DEF Visitor, JoinGroup, LeaveGroup, Settings, SetGroupStatus, UpdateGroup, AdminSuspendGroup
<1>6. Staff => UNCHANGED inviteVars
  BY DEF Staff, UpdateMemberRole, AddMember, RemoveMember, BanMember, ApproveJoinRequest,
         RejectJoinRequest
<1> QED
  BY <1>1, <1>2, <1>3, <1>4, <1>5, <1>6 DEF Next, Departure, vars

(* A link is used at most max_uses times.                                  *)
THEOREM LinksAreLimited == Spec => []InviteWithinLimit
<1>1. Init => LinkInv
  BY DEF Init, LinkInv, NoInvite
<1>2. TypeOK /\ LinkInv /\ [Next]_vars => LinkInv'
  BY LinkStep
<1>3. LinkInv => InviteWithinLimit
  BY DEF LinkInv, InviteWithinLimit
<1> QED
  BY <1>1, <1>2, <1>3, TypeCorrect, PTL DEF Spec

-----------------------------------------------------------------------------
(* The organizer, the permission rows and the applicants *)

(* What keeps the organizer out of the queue of applicants, and out of an   *)
(* AcceptInvite that has read the membership                                *)
OrganizerInv ==
  /\ OrganizerStays
  /\ Organizer \notin requests
  /\ \A i \in Invites : accepts[i].pc \in {"absent", "locked"} => accepts[i].user # Organizer

RosterInv == OrganizerInv /\ GrantsOnlyActive /\ NoStuckApplicant

LEMMA RosterInit == Init => RosterInv
BY UsersAssumption DEF Init, RosterInv, OrganizerInv, OrganizerStays, Banned, GrantsOnlyActive,
   NoStuckApplicant, NoMember, NoAccept

LEMMA RosterEvict ==
  ASSUME TypeOK, RosterInv, NEW u \in Users, u # Organizer,
         NEW s \in {"left", "removed", "banned"}, Evict(u, s),
         UNCHANGED <<requests, accepts>>, bans'[Organizer] = bans[Organizer]
  PROVE  RosterInv'
<1>1. \A v \in Users : /\ members'[v] = IF v = u THEN [members[v] EXCEPT !.status = s] ELSE members[v]
                       /\ grants'[v] = IF v = u THEN {} ELSE grants[v]
  BY DEF Evict, TypeOK
<1>2. members'[u].status = s
  BY <1>1 DEF TypeOK, Members
<1>3. OrganizerInv'
  BY <1>1, UsersAssumption DEF RosterInv, OrganizerInv, OrganizerStays, Banned
<1>4. GrantsOnlyActive'
  BY <1>1 DEF RosterInv, GrantsOnlyActive
<1>5. NoStuckApplicant'
  BY <1>1, <1>2 DEF RosterInv, NoStuckApplicant
<1> QED
  BY <1>3, <1>4, <1>5 DEF RosterInv

(* A user other than the organizer is activated, or set back to having     *)
(* neither a membership nor permission rows                                *)
LEMMA RosterReplace ==
  ASSUME TypeOK, RosterInv, NEW u \in Users, u # Organizer,
         \A v \in Users : v # u => members'[v] = members[v] /\ grants'[v] = grants[v],
         members'[u].status = "active" \/ (grants'[u] = {} /\ members'[u].status # "pending"),
         requests' = requests \ {u}, bans'[Organizer] = bans[Organizer],
         \A i \in Invites : accepts'[i] = accepts[i] \/ accepts'[i] = NoAccept
  PROVE  RosterInv'
<1>1. OrganizerInv'
  BY UsersAssumption DEF RosterInv, OrganizerInv, OrganizerStays, Banned, NoAccept, TypeOK
<1>2. GrantsOnlyActive'
  BY DEF RosterInv, GrantsOnlyActive, TypeOK
<1>3. NoStuckApplicant'
  BY DEF RosterInv, NoStuckApplicant, TypeOK
<1> QED
  BY <1>1, <1>2, <1>3 DEF RosterInv

LEMMA RosterStaff == TypeOK /\ RosterInv /\ Staff => RosterInv'
<1> SUFFICES ASSUME TypeOK, RosterInv, Staff PROVE RosterInv'
  OBVIOUS
<1>1. ASSUME NEW a \in Users, NEW u \in Users, NEW role \in StaffRoles,
             UpdateMemberRole(a, u, role)
      PROVE  RosterInv'
  <2>1. OrganizerInv'
    BY <1>1, UsersAssumption
    DEF UpdateMemberRole, RosterInv, OrganizerInv, OrganizerStays, Banned, TypeOK
  <2>2. \A v \in Users : members'[v].status = members[v].status
    BY <1>1 DEF UpdateMemberRole, TypeOK, Members
  <2>3. GrantsOnlyActive' /\ NoStuckApplicant'
    BY <1>1, <2>2 DEF UpdateMemberRole, RosterInv, GrantsOnlyActive, NoStuckApplicant, TypeOK
  <2> QED
    BY <2>1, <2>3 DEF RosterInv
<1>2. ASSUME NEW a \in Users, NEW u \in Users, NEW role \in StaffRoles, AddMember(a, u, role)
      PROVE  RosterInv'
  <2>1. /\ \A v \in Users : v # u => members'[v] = members[v] /\ grants'[v] = grants[v]
        /\ members'[u].status = "active"
    BY <1>2 DEF AddMember, TypeOK
  <2> QED
    BY <1>2, <2>1, RosterReplace DEF AddMember
<1>3. ASSUME NEW a \in Users, NEW u \in Users, RemoveMember(a, u) PROVE RosterInv'
  BY <1>3, RosterEvict DEF RemoveMember
<1>4. ASSUME NEW a \in Users, NEW u \in Users, BanMember(a, u) PROVE RosterInv'
  <2>1. bans'[Organizer] = bans[Organizer]
    BY <1>4, UsersAssumption DEF BanMember, TypeOK
  <2> QED
    BY <1>4, <2>1, RosterEvict DEF BanMember
<1>5. ASSUME NEW a \in Users, NEW u \in Users, ApproveJoinRequest(a, u) PROVE RosterInv'
  <2>1. u # Organizer
    BY <1>5 DEF ApproveJoinRequest, RosterInv, OrganizerInv
  <2>2. /\ \A v \in Users : v # u => members'[v] = members[v] /\ grants'[v] = grants[v]
        /\ members'[u].status = "active"
    BY <1>5 DEF ApproveJoinRequest, TypeOK
  <2> QED
    BY <1>5, <2>1, <2>2, RosterReplace DEF ApproveJoinRequest
<1>6. ASSUME NEW a \in Users, NEW u \in Users, RejectJoinRequest(a, u) PROVE RosterInv'
  <2>1. \A v \in Users : v # u \/ members[v].status # "pending" => members'[v] = members[v]
    BY <1>6 DEF RejectJoinRequest, TypeOK
  <2>2. members'[u].status # "pending"
    BY <1>6 DEF RejectJoinRequest, TypeOK, Members
  <2>3. OrganizerInv'
    BY <1>6, <2>1, UsersAssumption
    DEF RejectJoinRequest, RosterInv, OrganizerInv, OrganizerStays, Banned
  <2>4. GrantsOnlyActive'
    BY <1>6, <2>1 DEF RejectJoinRequest, RosterInv, GrantsOnlyActive
  <2>5. NoStuckApplicant'
    BY <1>6, <2>1, <2>2 DEF RejectJoinRequest, RosterInv, NoStuckApplicant
  <2> QED
    BY <2>3, <2>4, <2>5 DEF RosterInv
<1> QED
  BY <1>1, <1>2, <1>3, <1>4, <1>5, <1>6 DEF Staff

LEMMA RosterVisitor ==
  ASSUME TypeOK, RosterInv, NEW u \in Users, JoinGroup(u) \/ LeaveGroup(u) PROVE RosterInv'
<1>1. CASE JoinGroup(u)
  <2>1. OrganizerInv'
    BY <1>1, UsersAssumption DEF JoinGroup, RosterInv, OrganizerInv, OrganizerStays, Banned, TypeOK
  <2>2. GrantsOnlyActive'
    BY <1>1 DEF JoinGroup, RosterInv, GrantsOnlyActive, TypeOK
  <2>3. NoStuckApplicant'
    BY <1>1 DEF JoinGroup, RosterInv, NoStuckApplicant, TypeOK
  <2> QED
    BY <2>1, <2>2, <2>3 DEF RosterInv
<1>2. CASE LeaveGroup(u)
  BY <1>2, RosterEvict DEF LeaveGroup
<1> QED
  BY <1>1, <1>2

LEMMA RosterDeparture ==
  ASSUME TypeOK, RosterInv, NEW u \in Leavers, RemoveUserFromGroups(u) \/ DeleteAccount(u)
  PROVE  RosterInv'
<1>1. u \in Users /\ u # Organizer
  BY UsersAssumption
<1>2. bans'[Organizer] = bans[Organizer] \/ bans'[Organizer] = NoUser
  BY UsersAssumption DEF RemoveUserFromGroups, DeleteAccount
<1>3. bans'[Organizer] = bans[Organizer]
  BY <1>2 DEF RosterInv, OrganizerInv, OrganizerStays, Banned
<1>4. /\ \A v \in Users : v # u => members'[v] = members[v] /\ grants'[v] = grants[v]
      /\ grants'[u] = {} /\ members'[u].status = "none"
  BY <1>1 DEF RemoveUserFromGroups, DeleteAccount, NoMember, TypeOK
<1>5. requests' = requests \ {u} /\ accepts' = accepts
  BY DEF RemoveUserFromGroups, DeleteAccount
<1> QED
  BY <1>1, <1>3, <1>4, <1>5, RosterReplace

LEMMA RosterLinks == TypeOK /\ RosterInv /\ Links => RosterInv'
<1> SUFFICES ASSUME TypeOK, RosterInv, Links PROVE RosterInv'
  OBVIOUS
<1>1. ASSUME NEW i \in Invites, CommitAccept(i) PROVE RosterInv'
  <2>1. accepts[i].user \in Users /\ accepts[i].user # Organizer
    BY <1>1, CommitFacts DEF RosterInv, OrganizerInv
  <2>2. \A j \in Invites : accepts'[j] = accepts[j] \/ accepts'[j] = NoAccept
    BY <1>1 DEF CommitAccept, TypeOK
  <2>3. LET u == accepts[i].user
        IN  /\ \A v \in Users : v # u => members'[v] = members[v] /\ grants'[v] = grants[v]
            /\ members'[u].status = "active" /\ requests' = requests \ {u}
    BY <1>1, <2>1 DEF CommitAccept, TypeOK
  <2>4. bans' = bans
    BY <1>1 DEF CommitAccept
  <2> QED
    BY <2>1, <2>2, <2>3, <2>4, RosterReplace
<1>2. ASSUME UNCHANGED memberVars,
             \A i \in Invites : accepts'[i].pc \in {"absent", "locked"} =>
                                  accepts'[i].user # Organizer
      PROVE  RosterInv'
  BY <1>2 DEF RosterInv, OrganizerInv, OrganizerStays, Banned, GrantsOnlyActive, NoStuckApplicant
<1>3. ASSUME NEW i \in Invites, ReadMembership(i) PROVE RosterInv'
  <2>1. accepts[i].user # Organizer
    BY <1>3 DEF ReadMembership, RosterInv, OrganizerInv, OrganizerStays
  <2>2. \A j \in Invites : accepts'[j].user = accepts[j].user
    BY <1>3 DEF ReadMembership, TypeOK, Accepts, NoAccept
  <2>3. \A j \in Invites : j # i => accepts'[j] = accepts[j]
    BY <1>3 DEF ReadMembership, TypeOK
  <2> QED
    BY <1>2, <1>3, <2>1, <2>2, <2>3 DEF ReadMembership, RosterInv, OrganizerInv
<1>4. ASSUME NEW i \in Invites, AbortAccept(i) \/ \E u \in Users : BeginAccept(u, i)
      PROVE  RosterInv'
  <2>1. \A j \in Invites : accepts'[j] = accepts[j] \/ accepts'[j].pc \in {"none", "checked"}
    BY <1>4 DEF AbortAccept, BeginAccept, NoAccept, TypeOK
  <2>2. UNCHANGED memberVars
    BY <1>4 DEF AbortAccept, BeginAccept
  <2> QED
    BY <1>2, <2>1, <2>2 DEF RosterInv, OrganizerInv
<1>5. ASSUME UNCHANGED memberVars, UNCHANGED accepts PROVE RosterInv'
  BY <1>2, <1>5 DEF RosterInv, OrganizerInv
<1>6. ASSUME NEW i \in Invites,
             InviteExpires(i) \/ \E a \in Users :
               RevokeInvite(a, i) \/ \E role \in InviteRoles, limit \in InviteLimits :
                                       CreateInvite(a, i, role, limit)
      PROVE  RosterInv'
  BY <1>5, <1>6 DEF InviteExpires, RevokeInvite, CreateInvite
<1> QED
  BY <1>1, <1>3, <1>4, <1>6 DEF Links

LEMMA RosterStep == TypeOK /\ RosterInv /\ [Next]_vars => RosterInv'
<1> SUFFICES ASSUME TypeOK, RosterInv, [Next]_vars PROVE RosterInv'
  OBVIOUS
<1>1. ASSUME UNCHANGED <<memberVars, inviteVars>> PROVE RosterInv'
  BY <1>1 DEF RosterInv, OrganizerInv, OrganizerStays, Banned, GrantsOnlyActive, NoStuckApplicant
<1>2. Settings => UNCHANGED <<memberVars, inviteVars>>
  BY DEF Settings, SetGroupStatus, UpdateGroup, AdminSuspendGroup
<1> QED
  BY <1>1, <1>2, RosterStaff, RosterVisitor, RosterDeparture, RosterLinks
  DEF Next, Visitor, Departure, vars

LEMMA RosterCorrect == Spec => []RosterInv
<1>1. TypeOK /\ RosterInv /\ [Next]_vars => RosterInv'
  BY RosterStep
<1> QED
  BY <1>1, RosterInit, TypeCorrect, PTL DEF Spec

(* The organizer is never evicted, demoted or banned.                      *)
THEOREM OrganizerIsSafe == Spec => []OrganizerStays
<1>1. RosterInv => OrganizerStays
  BY DEF RosterInv, OrganizerInv
<1> QED
  BY <1>1, RosterCorrect, PTL

(* Permission rows are held by active members only.                        *)
THEOREM GrantsEndWithMembership == Spec => []GrantsOnlyActive
<1>1. RosterInv => GrantsOnlyActive
  BY DEF RosterInv
<1> QED
  BY <1>1, RosterCorrect, PTL

(* A pending member always has a pending request.                          *)
THEOREM ApplicantsAreDecidable == Spec => []NoStuckApplicant
<1>1. RosterInv => NoStuckApplicant
  BY DEF RosterInv
<1> QED
  BY <1>1, RosterCorrect, PTL

-----------------------------------------------------------------------------
(* Bans *)

BanStep ==
  \A u \in Users :
    Banned(u) /\ members[u].status # "active" /\ members'[u].status = "active"
    => u \in requests \/ \E i \in Invites : accepts[i].user = u

LEMMA BanNext == TypeOK /\ [Next]_vars => BanStep
<1> SUFFICES ASSUME TypeOK, [Next]_vars, NEW u \in Users,
                    Banned(u), members[u].status # "active", members'[u].status = "active"
             PROVE  u \in requests \/ \E i \in Invites : accepts[i].user = u
  BY DEF BanStep
<1> USE DEF TypeOK, Members
<1>1. ASSUME NEW v \in Users, JoinGroup(v) PROVE FALSE
  BY <1>1 DEF JoinGroup
<1>2. ASSUME NEW v \in Users, NEW s \in {"left", "removed", "banned"}, Evict(v, s) PROVE FALSE
  BY <1>2 DEF Evict
<1>3. ASSUME NEW a \in Users, NEW v \in Users, NEW role \in StaffRoles,
             UpdateMemberRole(a, v, role) \/ AddMember(a, v, role)
      PROVE  FALSE
  BY <1>3 DEF UpdateMemberRole, AddMember, MayBeAdded
<1>4. ASSUME NEW a \in Users, NEW v \in Users, RejectJoinRequest(a, v) PROVE FALSE
  BY <1>4 DEF RejectJoinRequest
<1>5. ASSUME NEW a \in Users, NEW v \in Users, ApproveJoinRequest(a, v) PROVE u \in requests
  BY <1>5 DEF ApproveJoinRequest
<1>6. ASSUME NEW i \in Invites, CommitAccept(i) PROVE \E j \in Invites : accepts[j].user = u
  BY <1>6 DEF CommitAccept
<1>7. ASSUME NEW v \in Leavers, RemoveUserFromGroups(v) \/ DeleteAccount(v) PROVE FALSE
  BY <1>7 DEF RemoveUserFromGroups, DeleteAccount, NoMember
<1>8. ~UNCHANGED members
  OBVIOUS
<1>9. /\ Settings \/ UNCHANGED vars => UNCHANGED members
      /\ Links => UNCHANGED members \/ \E i \in Invites : CommitAccept(i)
  BY DEF Settings, SetGroupStatus, UpdateGroup, AdminSuspendGroup, Links, RevokeInvite,
         CreateInvite, BeginAccept, InviteExpires, ReadMembership, AbortAccept, vars
<1>10. /\ \A v \in Users : LeaveGroup(v) => Evict(v, "left")
       /\ \A a, v \in Users : /\ RemoveMember(a, v) => Evict(v, "removed")
                              /\ BanMember(a, v) => Evict(v, "banned")
  BY DEF LeaveGroup, RemoveMember, BanMember
<1> QED
  BY <1>1, <1>2, <1>3, <1>4, <1>5, <1>6, <1>7, <1>8, <1>9, <1>10
  DEF Next, Visitor, Staff, Departure

(* No step readmits a banned user, but the approval of a pending request   *)
(* and the commit of an AcceptInvite under way.                            *)
THEOREM BansHold == Spec => BanIsFinal
<1>1. TypeOK /\ [Next]_vars => [BanStep]_vars
  BY BanNext
<1> QED
  BY <1>1, TypeCorrect, PTL DEF Spec, BanIsFinal, BanStep

=============================================================================
