SPECIFICATION Spec
CONSTANTS
  Users = {admin, user}
  Primary = admin
  Groups = {admins, full_users}
  SP_ADMIN_GROUPS = {admins}
  SP_DEFAULT_GROUPS = {full_users}
  Clients = {a, b}
  Starter = starter
  MaxRequests = 2
  MaxFaults = 1
  MaxRestarts = 1
INVARIANTS AccountsInv DeletedIsGone StoresAgree
SYMMETRY ClientSymmetry
CHECK_DEADLOCK FALSE
