CONSTANTS
  r1 = r1
  r2 = r2
  Requests <- Clients
  Tokens <- MCTokens
  Roles <- MCRoles
  Headers <- MCHeaders
  Bodies <- MCBodies
  Names = {"get_profile", "admin_rotate_key"}
  AdminNames = {"admin_rotate_key"}
  NoBody = NoBody
SPECIFICATION Spec
INVARIANT UnknownCallersAreRefused
CHECK_DEADLOCK FALSE
