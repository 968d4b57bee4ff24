\* One user and two calls are enough for every way a call can end; TLC takes
\* no symmetry here. Three pages have a first, a middle and a last one.
CONSTANTS
  Users = {u1}
  NoUser = NoUser
  Slots = {s1, s2}
  FirebaseAuthEnabled = TRUE
  LastPage = 2
SPECIFICATION FairWalkSpec
PROPERTIES
  CompletedWhenSeen
  BlankScreenEnds
  SignInAnswered
  PushFollowsSession
