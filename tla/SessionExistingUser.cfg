CONSTANTS
  Users = {u1}
  NoUser = NoUser
  Slots = {s1}
  FirebaseAuthEnabled = TRUE
SPECIFICATION Spec
PROPERTIES
  ResyncLogoutMeansGone
