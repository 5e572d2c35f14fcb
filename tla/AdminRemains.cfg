SPECIFICATION AccessSpec
CONSTANTS
  Users = {ada, bea}
  StaffRoles = {staff}
  Admin = Admin
  Slots = {s1, s2}
  NULL = NULL
CHECK_DEADLOCK FALSE
INVARIANTS AdminRemains
