\* The configuration without Firebase: the log-in buttons let a guest in.
CONSTANTS
  Users = {u1, u2}
  NoUser = NoUser
  Slots = {s1, s2}
  FirebaseAuthEnabled = FALSE
SPECIFICATION FormsSpec
PROPERTIES
  KeepsPromise
