---------------------------- MODULE GroupMembership ----------------------------
(***************************************************************************)
(* Membership of ONE group of the_monkeys_groups: its members, their       *)
(* permission rows, join requests, bans, invite links and the counter      *)
(* groups.member_count, all of them rows of PostgreSQL.                    *)
(*                                                                         *)
(* Grain of atomicity.  Most handlers take SELECT ... FOR UPDATE on the    *)
(* groups row (lockGroup) and are one action each, from the check of the   *)
(* actor's permission to the commit; so are UpdateMemberRole and           *)
(* RejectJoinRequest, which the lock on the member or request row          *)
(* serializes.  AcceptInvite locks the invite row only, and is split at    *)
(* its reads: BeginAccept checks the link and the bans, ReadMembership     *)
(* locks the member row if there is one, CommitAccept writes.  While it    *)
(* holds a member row, other handlers wait for that row.                   *)
(***************************************************************************)
EXTENDS Integers, FiniteSets

CONSTANTS
  Users, NoUser,       \* accounts, and the absence of one
  Organizer,           \* groups.organizer_id
  Leavers,             \* bound: the accounts that may be deleted
  Invites,             \* bound: the invite links that exist at once
  StaffRoles,          \* bound: the roles organizers assign
  InviteRoles,         \* bound: the roles a link may carry
  InviteLimits,        \* bound: the max_uses a link may carry (0: unlimited)
  MaxCount,            \* bound: member_count from which RemoveUserFromGroups stops
  GroupStatuses        \* bound: the statuses SetGroupStatus is called with

ASSUME UsersAssumption == /\ IsFiniteSet(Users) /\ NoUser \notin Users
                          /\ Organizer \in Users
                          /\ Leavers \subseteq Users \ {Organizer}

AssignableRoles == {"co_organizer", "moderator", "member"}
ASSUME RoleAssumption == StaffRoles \cup InviteRoles \subseteq AssignableRoles
ASSUME InviteAssumption == InviteLimits \subseteq Nat
ASSUME CountAssumption == MaxCount \in Nat
ASSUME StatusAssumption == GroupStatuses \subseteq {"draft", "published", "archived", "suspended"}

VARIABLES
  accounts,            \* user_account
  groupStatus,         \* groups.status
  visibility,          \* groups.visibility, "private" standing for unlisted too
  memberCount,         \* groups.member_count
  members,             \* group_members, by user
  grants,              \* group_permissions, by user
  requests,            \* the users whose group_join_requests row is pending
  bans,                \* group_bans: who banned the user, if anyone
  invites,             \* group_invites
  accepts              \* by invite, the AcceptInvite that has its row locked

groupVars == <<groupStatus, visibility>>
memberVars == <<memberCount, members, grants, requests, bans>>
inviteVars == <<invites, accepts>>
vars == <<accounts, groupVars, memberVars, inviteVars>>

OrganizerPermissions == {"edit_group", "manage_members", "manage_events", "manage_discussions",
                         "manage_dues", "manage_roles", "view_group_analytics", "delete_group"}
ModeratorPermissions == {"manage_members", "manage_discussions"}
PermissionsForRole(role) == CASE role = "co_organizer" -> OrganizerPermissions
                              [] role = "moderator" -> ModeratorPermissions
                              [] OTHER -> {}

NoMember == [status |-> "none", role |-> "member"]
Members == [status : {"none", "active", "pending", "left", "removed", "banned"},
            role : AssignableRoles \cup {"organizer"}]
NoInvite == [creator |-> NoUser, role |-> "member", limit |-> 0, uses |-> 0, live |-> FALSE]
InviteRecords == [creator : Users \cup {NoUser}, role : AssignableRoles,
                  limit : Nat, uses : Nat, live : BOOLEAN]
NoAccept == [user |-> NoUser, pc |-> "none"]
Accepts == {NoAccept} \cup [user : Users, pc : {"checked", "absent", "locked"}]

ActiveMembers == {u \in Users : members[u].status = "active"}
Banned(u) == bans[u] # NoUser

(* authorizeGroup; the organizer holds every permission *)
Authorized(a, permission) == a \in accounts /\ (a = Organizer \/ permission \in grants[a])

(* No AcceptInvite has the member row of u locked *)
RowFree(u) == \A i \in Invites : accepts[i] # [user |-> u, pc |-> "locked"]

(* adjustMemberCount; the CHECK on the column fails the transaction *)
AdjustMemberCount(delta) == memberCount + delta >= 0 /\ memberCount' = memberCount + delta

-----------------------------------------------------------------------------
(* members.go.  Definitions named Bug... are faulty variants of the         *)
(* definition that follows them; no specification uses them.                *)

JoinGroup(u) ==
  /\ u \in accounts /\ u # Organizer /\ groupStatus = "published" /\ ~Banned(u)
  /\ RowFree(u) /\ members[u].status \notin {"active", "pending"}
  /\ IF visibility = "public"
     THEN /\ members' = [members EXCEPT ![u] = [status |-> "active", role |-> "member"]]
          /\ AdjustMemberCount(1) /\ UNCHANGED requests
     ELSE /\ members' = [members EXCEPT ![u] = [status |-> "pending", role |-> "member"]]
          /\ requests' = requests \cup {u} /\ UNCHANGED memberCount
  /\ UNCHANGED <<accounts, groupVars, grants, bans, inviteVars>>

BugEvictCountsApplicants(u, s) ==
  /\ members' = [members EXCEPT ![u].status = s]
  /\ grants' = [grants EXCEPT ![u] = {}]
  /\ AdjustMemberCount(-1)
BugEvictKeepsGrants(u, s) ==
  /\ members' = [members EXCEPT ![u].status = s]
  /\ UNCHANGED grants
  /\ IF members[u].status = "active" THEN AdjustMemberCount(-1) ELSE UNCHANGED memberCount
BugEvictMisspells(u, s) ==
  /\ members' = [members EXCEPT ![u].status = IF s = "left" THEN "leaving" ELSE s]
  /\ grants' = [grants EXCEPT ![u] = {}]
  /\ IF members[u].status = "active" THEN AdjustMemberCount(-1) ELSE UNCHANGED memberCount
(* The end that LeaveGroup, RemoveMember and BanMember share *)
Evict(u, s) ==
  /\ members' = [members EXCEPT ![u].status = s]
  /\ grants' = [grants EXCEPT ![u] = {}]
  /\ IF members[u].status = "active" THEN AdjustMemberCount(-1) ELSE UNCHANGED memberCount

LeaveGroup(u) ==
  /\ u \in accounts /\ u # Organizer
  /\ RowFree(u) /\ members[u].status \in {"active", "pending", "banned"}
  /\ Evict(u, "left")
  /\ UNCHANGED <<accounts, groupVars, requests, bans, inviteVars>>

UpdateMemberRole(a, u, role) ==
  /\ Authorized(a, "manage_roles") /\ u \in accounts /\ u # Organizer
  /\ RowFree(u) /\ members[u].status = "active"
  /\ members' = [members EXCEPT ![u].role = role]
  /\ grants' = [grants EXCEPT ![u] = PermissionsForRole(role)]
  /\ UNCHANGED <<accounts, groupVars, memberCount, requests, bans, inviteVars>>

BugRemoveOrganizer(a, u) ==
  /\ Authorized(a, "manage_members") /\ u \in accounts
  /\ RowFree(u) /\ members[u].status \in {"active", "pending", "banned"}
  /\ Evict(u, "removed")
  /\ UNCHANGED <<accounts, groupVars, requests, bans, inviteVars>>
RemoveMember(a, u) ==
  /\ Authorized(a, "manage_members") /\ u \in accounts /\ u # Organizer
  /\ RowFree(u) /\ members[u].status \in {"active", "pending", "banned"}
  /\ Evict(u, "removed")
  /\ UNCHANGED <<accounts, groupVars, requests, bans, inviteVars>>

(* BanMember needs no membership, and leaves a join request as it is *)
BanMember(a, u) ==
  /\ Authorized(a, "manage_members") /\ u \in accounts /\ u # Organizer
  /\ RowFree(u)
  /\ bans' = [bans EXCEPT ![u] = a]
  /\ Evict(u, "banned")
  /\ UNCHANGED <<accounts, groupVars, requests, inviteVars>>

(* ApproveJoinRequest looks at neither the bans nor the permission rows *)
ApproveJoinRequest(a, u) ==
  /\ Authorized(a, "manage_members") /\ u \in accounts
  /\ RowFree(u) /\ u \in requests
  /\ requests' = requests \ {u}
  /\ members' = [members EXCEPT ![u] = [status |-> "active", role |-> "member"]]
  /\ IF members[u].status # "active" THEN AdjustMemberCount(1) ELSE UNCHANGED memberCount
  /\ UNCHANGED <<accounts, groupVars, grants, bans, inviteVars>>

BugRejectKeepsPlaceholder(a, u) ==
  /\ Authorized(a, "manage_members") /\ u \in accounts /\ u \in requests
  /\ requests' = requests \ {u}
  /\ UNCHANGED <<accounts, groupVars, memberCount, members, grants, bans, inviteVars>>
RejectJoinRequest(a, u) ==
  /\ Authorized(a, "manage_members") /\ u \in accounts /\ u \in requests
  /\ requests' = requests \ {u}
  /\ IF members[u].status = "pending"
     THEN RowFree(u) /\ members' = [members EXCEPT ![u].status = "removed"]
     ELSE UNCHANGED members
  /\ UNCHANGED <<accounts, groupVars, memberCount, grants, bans, inviteVars>>

-----------------------------------------------------------------------------
(* invites.go *)

BugAddsTheBanned(u) == members[u].status # "active"
MayBeAdded(u) == ~Banned(u) /\ members[u].status # "active"

AddMember(a, u, role) ==
  /\ Authorized(a, "manage_members") /\ u \in accounts /\ u # Organizer
  /\ RowFree(u) /\ MayBeAdded(u)
  /\ members' = [members EXCEPT ![u] = [status |-> "active", role |-> role]]
  /\ grants' = [grants EXCEPT ![u] = PermissionsForRole(role)]
  /\ requests' = requests \ {u}
  /\ AdjustMemberCount(1)
  /\ UNCHANGED <<accounts, groupVars, bans, inviteVars>>

CreateInvite(a, i, role, limit) ==
  /\ Authorized(a, "manage_members")
  /\ invites[i] = NoInvite
  /\ invites' = [invites EXCEPT ![i] = [creator |-> a, role |-> role, limit |-> limit,
                                        uses |-> 0, live |-> TRUE]]
  /\ UNCHANGED <<accounts, groupVars, memberVars, accepts>>

(* An UPDATE of the invite row: it waits for an AcceptInvite of the link *)
RevokeInvite(a, i) ==
  /\ Authorized(a, "manage_members")
  /\ invites[i].live /\ accepts[i] = NoAccept
  /\ invites' = [invites EXCEPT ![i].live = FALSE]
  /\ UNCHANGED <<accounts, groupVars, memberVars, accepts>>

(* expires_at passes: nobody waits for it *)
InviteExpires(i) ==
  /\ invites[i].live
  /\ invites' = [invites EXCEPT ![i].live = FALSE]
  /\ UNCHANGED <<accounts, groupVars, memberVars, accepts>>

BugOneUseMore(invite) == invite.live /\ (invite.limit > 0 => invite.uses <= invite.limit)
InviteIsActive(invite) == invite.live /\ (invite.limit > 0 => invite.uses < invite.limit)

BeginAccept(u, i) ==
  /\ u \in accounts /\ accepts[i] = NoAccept
  /\ InviteIsActive(invites[i]) /\ groupStatus = "published" /\ ~Banned(u)
  /\ accepts' = [accepts EXCEPT ![i] = [user |-> u, pc |-> "checked"]]
  /\ UNCHANGED <<accounts, groupVars, memberVars, invites>>

(* currentMemberStatus: a row that exists is locked from here on *)
ReadMembership(i) ==
  LET u == accepts[i].user
  IN  /\ accepts[i].pc = "checked"
      /\ RowFree(u) /\ members[u].status # "active"
      /\ accepts' = [accepts EXCEPT ![i].pc =
                       IF members[u].status = "none" THEN "absent" ELSE "locked"]
      /\ UNCHANGED <<accounts, groupVars, memberVars, invites>>

(* ON CONFLICT DO UPDATE: a row inserted since by another handler is       *)
(* overwritten; the foreign keys refuse an account deleted meanwhile       *)
CommitAccept(i) ==
  LET u == accepts[i].user
  IN  /\ \/ accepts[i].pc = "locked"
         \/ accepts[i].pc = "absent" /\ RowFree(u)
      /\ u \in accounts
      /\ members' = [members EXCEPT ![u] = [status |-> "active", role |-> invites[i].role]]
      /\ grants' = [grants EXCEPT ![u] = PermissionsForRole(invites[i].role)]
      /\ invites' = [invites EXCEPT ![i].uses = @ + 1]
      /\ requests' = requests \ {u}
      /\ AdjustMemberCount(1)
      /\ accepts' = [accepts EXCEPT ![i] = NoAccept]
      /\ UNCHANGED <<accounts, groupVars, bans>>

(* Already a member, an error, a crash, or the victim of a deadlock *)
AbortAccept(i) ==
  /\ accepts[i] # NoAccept
  /\ accepts' = [accepts EXCEPT ![i] = NoAccept]
  /\ UNCHANGED <<accounts, groupVars, memberVars, invites>>

-----------------------------------------------------------------------------
(* groups.go, admin.go and account_delete.go *)

SetGroupStatus(a, s) ==
  /\ Authorized(a, "edit_group")
  /\ groupStatus' = s
  /\ UNCHANGED <<accounts, visibility, memberVars, inviteVars>>

UpdateGroup(a, v) ==
  /\ Authorized(a, "edit_group")
  /\ visibility' = v
  /\ UNCHANGED <<accounts, groupStatus, memberVars, inviteVars>>

AdminSuspendGroup ==
  /\ groupStatus' = "suspended"
  /\ UNCHANGED <<accounts, visibility, memberVars, inviteVars>>

(* RemoveUserFromGroups: member_count keeps counting the member *)
RemoveUserFromGroups(u) ==
  /\ memberCount < MaxCount
  /\ u \in accounts /\ RowFree(u)
  /\ members' = [members EXCEPT ![u] = NoMember]
  /\ grants' = [grants EXCEPT ![u] = {}]
  /\ requests' = requests \ {u}
  /\ UNCHANGED <<accounts, groupVars, memberCount, bans, inviteVars>>

(* The row of user_account is deleted, and with it, ON DELETE CASCADE, the  *)
(* bans of the account and by it, and its invites                           *)
DeleteAccount(u) ==
  /\ u \in accounts /\ RowFree(u)
  /\ \A i \in Invites : invites[i].creator = u => accepts[i] = NoAccept
  /\ accounts' = accounts \ {u}
  /\ members' = [members EXCEPT ![u] = NoMember]
  /\ grants' = [grants EXCEPT ![u] = {}]
  /\ requests' = requests \ {u}
  /\ bans' = [v \in Users |-> IF v = u \/ bans[v] = u THEN NoUser ELSE bans[v]]
  /\ invites' = [i \in Invites |-> IF invites[i].creator = u THEN NoInvite ELSE invites[i]]
  /\ UNCHANGED <<groupVars, memberCount, accepts>>

-----------------------------------------------------------------------------
Init ==                     \* CreateGroup
  /\ accounts = Users
  /\ groupStatus = "draft" /\ visibility \in {"public", "private"}
  /\ memberCount = 1
  /\ members = [u \in Users |-> IF u = Organizer THEN [status |-> "active", role |-> "organizer"]
                                                 ELSE NoMember]
  /\ grants = [u \in Users |-> {}]
  /\ requests = {}
  /\ bans = [u \in Users |-> NoUser]
  /\ invites = [i \in Invites |-> NoInvite]
  /\ accepts = [i \in Invites |-> NoAccept]

Visitor == \E u \in Users : JoinGroup(u) \/ LeaveGroup(u)

Staff == \E a, u \in Users :
           \/ \E role \in StaffRoles : UpdateMemberRole(a, u, role) \/ AddMember(a, u, role)
           \/ RemoveMember(a, u) \/ BanMember(a, u)
           \/ ApproveJoinRequest(a, u) \/ RejectJoinRequest(a, u)

Settings == \/ \E a \in Users : \/ \E s \in GroupStatuses : SetGroupStatus(a, s)
                                \/ \E v \in {"public", "private"} : UpdateGroup(a, v)
            \/ AdminSuspendGroup

Links == \E i \in Invites :
           \/ \E a \in Users : \/ RevokeInvite(a, i)
                               \/ \E role \in InviteRoles, limit \in InviteLimits :
                                    CreateInvite(a, i, role, limit)
           \/ \E u \in Users : BeginAccept(u, i)
           \/ InviteExpires(i) \/ ReadMembership(i) \/ CommitAccept(i) \/ AbortAccept(i)

Departure == \E u \in Leavers : RemoveUserFromGroups(u) \/ DeleteAccount(u)

Next == Visitor \/ Staff \/ Settings \/ Links \/ Departure

Spec == Init /\ [][Next]_vars

-----------------------------------------------------------------------------
(* Properties *)

(* Every column keeps to its values; the CHECK on member_count holds *)
TypeOK ==
  /\ accounts \subseteq Users /\ requests \subseteq Users
  /\ groupStatus \in {"draft", "published", "archived", "suspended"}
  /\ visibility \in {"public", "private"}
  /\ memberCount \in Nat
  /\ members \in [Users -> Members]
  /\ grants \in [Users -> SUBSET OrganizerPermissions]
  /\ bans \in [Users -> Users \cup {NoUser}]
  /\ invites \in [Invites -> InviteRecords]
  /\ accepts \in [Invites -> Accepts]

(* member_count never falls below the members there are, though AcceptInvite*)
(* and account deletion move members without the group lock: the CHECK on   *)
(* the counter can therefore never refuse an eviction.                      *)
CountCoversMembers == Cardinality(ActiveMembers) <= memberCount

(* A link admits at most max_uses callers, however many accept at once,     *)
(* abort, or race its revocation or its creator's departure.                *)
InviteWithinLimit == \A i \in Invites : invites[i].limit > 0 => invites[i].uses <= invites[i].limit

(* Permission rows never outlive the membership they came with: whoever was *)
(* evicted, left or was deleted moderates nothing, also after coming back   *)
(* by another way.                                                          *)
GrantsOnlyActive == \A u \in Users : grants[u] # {} => members[u].status = "active"

(* Whoever is shown as pending still has the request an organizer decides   *)
(* on: no sequence leaves an applicant that nobody can admit or refuse.     *)
NoStuckApplicant == \A u \in Users : members[u].status = "pending" => u \in requests

(* The organizer stays an active organizer and is never banned, whatever    *)
(* the members they empowered do.                                           *)
OrganizerStays == /\ members[Organizer] = [status |-> "active", role |-> "organizer"]
                  /\ ~Banned(Organizer)

(* A ban keeps its user out, but for a join request that was pending and an *)
(* AcceptInvite already past its check of the bans.                         *)
BanIsFinal ==
  [][\A u \in Users :
       Banned(u) /\ members[u].status # "active" /\ members'[u].status = "active"
       => u \in requests \/ \E i \in Invites : accepts[i].user = u]_vars

-----------------------------------------------------------------------------
(* What the comments of the code say and the code does not keep *)

(* members.go: BanMember "records a ban, evicts the member" and "Banned     *)
(* callers are refused": no banned user is an active member.                *)
BannedStaysOut == \A u \in Users : Banned(u) => members[u].status # "active"

=============================================================================
