SPECIFICATION Spec
CONSTANTS
  Users = {ann, bob}
  Bootstrap = ann
  MaxPending = 2
CHECK_DEADLOCK FALSE
INVARIANTS IInv InvitedAreNew
PROPERTIES RolesChangeByRequest LastAdminDisabledByFormer LastClientAdminGoes
