\* Two uploads and a removal meet in every order; one photo is there before.
CONSTANTS
  Uploads = {u1, u2}
  Removals = {r1}
  Old = {old}
  NoPhotos = NoPhotos
  NoPicture = NoPicture
  Keep = Keep
  SignIn = SignIn
  MaxWrites = 2
SPECIFICATION FairSpec
INVARIANTS
  ChangesSurvive
  PictureIsListed
PROPERTIES
  CallsEnd
