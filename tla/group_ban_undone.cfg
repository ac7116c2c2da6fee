SPECIFICATION Spec
CONSTANTS
  Users = {owner, u1}
  NoUser = NoUser
  Organizer = owner
  Leavers <- NoLeavers
  Invites = {i1}
  StaffRoles = {"member"}
  InviteRoles = {"member"}
  InviteLimits = {1}
  MaxCount = 0
  GroupStatuses = {"published"}
INVARIANTS BannedStaysOut
