SPECIFICATION Spec
CONSTANTS
  Users = {owner, u1, u2}
  NoUser = NoUser
  Organizer = owner
  Leavers = {u1, u2}
  Invites = {i1}
  StaffRoles = {"member", "co_organizer"}
  InviteRoles = {"moderator"}
  InviteLimits = {1}
  MaxCount = 3
  GroupStatuses = {"published"}
SYMMETRY Symmetry
INVARIANTS TypeOK CountCoversMembers InviteWithinLimit GrantsOnlyActive  OrganizerStays
PROPERTIES BanIsFinal
