\* Two users, two calls outstanding at a time: every race of two logins, with
\* the forms of the profile tab.
CONSTANTS
  Users = {u1, u2}
  NoUser = NoUser
  Slots = {s1, s2}
  FirebaseAuthEnabled = TRUE
SPECIFICATION FormsSpec
SYMMETRY Symmetry
INVARIANTS
  ScreenMatchesStore
  OneUserEverywhere
  PrincipalMatchesUser
  TokensOnlyForProvenUsers
  FormBelongsToSession
PROPERTIES
  NoSilentSwitch
  KeepsPromise
