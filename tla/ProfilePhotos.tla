---------------------------- MODULE ProfilePhotos ----------------------------
(***************************************************************************)
(* The photos of one user: ATCProfileFirebaseUpdater's uploadPhoto and     *)
(* removePhoto over the user's Firestore record. Both write the whole list *)
(* back, computed from the ATCUser object they were called with; that      *)
(* object is the one the session began with, and no write changes it.      *)
(*                                                                         *)
(* The app's own screens do not call the two operations yet. They are      *)
(* modelled under a screen that calls them as the account details form     *)
(* calls update: with dsProvider.user, and as the only owner of its        *)
(* updater (the provider makes a new one for each screen).                 *)
(***************************************************************************)
EXTENDS Naturals, SequencesExt

CONSTANTS
  Uploads,    \* the uploads made, each named like the URL it is given
  Removals,   \* the removals made
  Old,        \* the photos there from the start
  NoPhotos,   \* the record has no list of photos
  NoPicture,  \* the profile picture is not one of the photos
  Keep,       \* a write that leaves the profile picture alone
  SignIn,     \* the writer of a Facebook login's record
  MaxWrites   \* bound: writes on their way at a time

ASSUME CallsAssumption ==
  /\ Uploads \cap Removals = {}
  /\ SignIn \notin Uploads \cup Removals
ASSUME PhotosAssumption ==
  /\ Uploads \cap Old = {}
  /\ \A list \in SUBSET (Uploads \cup Old) : list # NoPhotos
  /\ {NoPicture, Keep} \cap (Uploads \cup Old) = {}
  /\ NoPicture # Keep

Calls  == Uploads \cup Removals
Photos == Uploads \cup Old
Lists  == {NoPhotos} \cup SUBSET Photos

\* What a call is doing. Only "answered" has called its completion.
CallStates == {"new", "uploading", "writing", "answered", "failed", "dropped", "ignored", "killed"}

Contents == [photos : Lists, picture : Photos \cup {NoPicture}]
Writes   == [photos : SUBSET Photos, picture : Photos \cup {NoPicture, Keep}, by : Calls \cup {SignIn}]

VARIABLES
  record,     \* users/<uid> as the server has it
  writes,     \* setData calls that have not reached the server
  inside,     \* the user is signed in and sees the tabs
  open,       \* the screen with the photos is open
  local,      \* user.photos of the session's ATCUser
  call,       \* what each call is doing
  wanted,     \* history: the photos the user should have
  touched,    \* history: a change was asked for with the session's ATCUser
  repeated,   \* history: two changes were asked for with one ATCUser
  facebook,   \* history: the user has signed in with Facebook
  rejected,   \* history: the server refused a write
  unpictured  \* history: a photo that was a profile picture was removed

history == <<wanted, touched, repeated, facebook, rejected, unpictured>>
vars    == <<record, writes, inside, open, local, call, history>>

TypeOK ==
  /\ record \in Contents
  /\ writes \in Seq(Writes)
  /\ <<inside, open>> \in BOOLEAN \X BOOLEAN
  /\ local \in Lists
  /\ call \in [Calls -> CallStates]
  /\ wanted \in SUBSET Photos
  /\ <<touched, repeated, facebook, rejected, unpictured>> \in
       BOOLEAN \X BOOLEAN \X BOOLEAN \X BOOLEAN \X BOOLEAN

\* user.photos ?? []
Elements(list) == IF list = NoPhotos THEN {} ELSE list

\* A user who is signed out, with or without photos.
Init ==
  /\ record \in [photos : {NoPhotos} \cup SUBSET Old, picture : Old \cup {NoPicture}]
  /\ record.picture \in Elements(record.photos) \cup {NoPicture}
  /\ writes = <<>>
  /\ inside = FALSE
  /\ open = FALSE
  /\ local = record.photos
  /\ call = [c \in Calls |-> "new"]
  /\ wanted = Elements(record.photos)
  /\ touched = FALSE
  /\ repeated = FALSE
  /\ facebook = FALSE
  /\ rejected = FALSE
  /\ unpictured = FALSE

\* The photos a query of this device answers with, its own writes included.
Visible == IF writes = <<>> THEN record.photos ELSE Last(writes).photos

Write(photos, picture, by) ==
  /\ Len(writes) < MaxWrites
  /\ writes' = Append(writes, [photos |-> photos, picture |-> picture, by |-> by])

\* A sign-in with e-mail or the resync at launch makes an ATCUser of the record.
Enter ==
  /\ ~inside
  /\ inside' = TRUE
  /\ local' = Visible
  /\ touched' = FALSE
  /\ UNCHANGED <<record, writes, open, call, wanted, repeated, facebook, rejected, unpictured>>

\* atcUser has no photos and Facebook's avatar, and all of it is saved.
EnterWithFacebook ==
  /\ ~inside
  /\ inside' = TRUE
  /\ local' = {}
  /\ Write({}, NoPicture, SignIn)
  /\ touched' = FALSE
  /\ facebook' = TRUE
  /\ UNCHANGED <<record, open, call, wanted, repeated, rejected, unpictured>>

Open ==
  /\ inside
  /\ ~open
  /\ open' = TRUE
  /\ UNCHANGED <<record, writes, inside, local, call, history>>

\* The updater goes with its screen: uploadImage's completion holds it weakly.
Close ==
  /\ open
  /\ open' = FALSE
  /\ call' = [c \in Calls |-> IF call[c] = "uploading" THEN "dropped" ELSE call[c]]
  /\ UNCHANGED <<record, writes, inside, local, history>>

\* Logging out, from the profile tab, where the screen is closed.
Logout ==
  /\ inside
  /\ ~open
  /\ inside' = FALSE
  /\ UNCHANGED <<record, writes, open, local, call, history>>

\* Losing the process. Firestore keeps the writes, but not their completions.
Kill ==
  /\ inside
  /\ inside' = FALSE
  /\ open' = FALSE
  /\ call' = [c \in Calls |-> IF call[c] \in {"uploading", "writing"} THEN "killed" ELSE call[c]]
  /\ UNCHANGED <<record, writes, local, history>>

Touch ==
  /\ touched' = TRUE
  /\ repeated' = (repeated \/ touched)

\* uploadPhoto up to putData.
TapUpload(u) ==
  /\ open
  /\ call[u] = "new"
  /\ call' = [call EXCEPT ![u] = "uploading"]
  /\ Touch
  /\ UNCHANGED <<record, writes, inside, open, local, wanted, facebook, rejected, unpictured>>

\* Mutant: the new URL is written without the photos there were.
MutantFileStoredAlone(u, isProfilePhoto) ==
  /\ call[u] = "uploading"
  /\ call' = [call EXCEPT ![u] = "writing"]
  /\ Write({u}, IF isProfilePhoto THEN u ELSE Keep, u)
  /\ wanted' = wanted \cup {u}
  /\ UNCHANGED <<record, inside, open, local, touched, repeated, facebook, rejected, unpictured>>

\* Mutant: the profile picture is written without being added to the photos.
MutantFileStoredApart(u, isProfilePhoto) ==
  /\ call[u] = "uploading"
  /\ call' = [call EXCEPT ![u] = "writing"]
  /\ Write(IF isProfilePhoto THEN Elements(local) ELSE Elements(local) \cup {u},
           IF isProfilePhoto THEN u ELSE Keep, u)
  /\ wanted' = wanted \cup {u}
  /\ UNCHANGED <<record, inside, open, local, touched, repeated, facebook, rejected, unpictured>>

\* uploadPhoto's handler with the URL of the stored file.
FileStored(u, isProfilePhoto) ==
  /\ call[u] = "uploading"
  /\ call' = [call EXCEPT ![u] = "writing"]
  /\ Write(Elements(local) \cup {u}, IF isProfilePhoto THEN u ELSE Keep, u)
  /\ wanted' = wanted \cup {u}
  /\ UNCHANGED <<record, inside, open, local, touched, repeated, facebook, rejected, unpictured>>

\* uploadImage completes with nil: no JPEG, no file, or no URL for it. The
\* handler returns without a word.
FileFailed(u) ==
  /\ call[u] = "uploading"
  /\ call' = [call EXCEPT ![u] = "failed"]
  /\ UNCHANGED <<record, writes, inside, open, local, history>>

IsPicture(url) ==
  \/ record.picture = url
  \/ \E i \in DOMAIN writes : writes[i].picture = url

\* removePhoto of a photo the screen shows.
TapRemove(r, url) ==
  /\ open
  /\ call[r] = "new"
  /\ url \in Elements(local)
  /\ call' = [call EXCEPT ![r] = "writing"]
  /\ Write(Elements(local) \ {url}, Keep, r)
  /\ wanted' = wanted \ {url}
  /\ Touch
  /\ unpictured' = (unpictured \/ IsPicture(url))
  /\ UNCHANGED <<record, inside, open, local, facebook, rejected>>

\* removePhoto for a user without a list, of an old profile picture say.
RemoveIgnored(r) ==
  /\ open
  /\ call[r] = "new"
  /\ local = NoPhotos
  /\ call' = [call EXCEPT ![r] = "ignored"]
  /\ UNCHANGED <<record, writes, inside, open, local, history>>

\* Mutant: the operation's completion is not called when the write is through.
MutantAnsweredNever(by) == call

\* setData's completion, which calls the operation's, whatever the error.
Answered(by) ==
  IF by \in Calls /\ call[by] = "writing" THEN [call EXCEPT ![by] = "answered"] ELSE call

WriteApplied ==
  /\ writes # <<>>
  /\ LET w == Head(writes)
     IN /\ record' = [photos |-> w.photos,
                      picture |-> IF w.picture = Keep THEN record.picture ELSE w.picture]
        /\ call' = Answered(w.by)
  /\ writes' = Tail(writes)
  /\ UNCHANGED <<inside, open, local, history>>

WriteRejected ==
  /\ writes # <<>>
  /\ call' = Answered(Head(writes).by)
  /\ writes' = Tail(writes)
  /\ rejected' = TRUE
  /\ UNCHANGED <<record, inside, open, local, wanted, touched, repeated, facebook, unpictured>>

Next ==
  \/ Enter \/ EnterWithFacebook \/ Open \/ Close \/ Logout \/ Kill
  \/ \E u \in Uploads : TapUpload(u) \/ FileFailed(u)
  \/ \E u \in Uploads, isProfilePhoto \in BOOLEAN : FileStored(u, isProfilePhoto)
  \/ \E r \in Removals : RemoveIgnored(r) \/ \E url \in Photos : TapRemove(r, url)
  \/ WriteApplied \/ WriteRejected

Spec == Init /\ [][Next]_vars

\* Storage and Firestore answer; FileStored may be the only outcome they give,
\* so their answers are taken together.
FileAnswered(u) == FileFailed(u) \/ \E isProfilePhoto \in BOOLEAN : FileStored(u, isProfilePhoto)

FairSpec ==
  /\ Spec
  /\ \A u \in Uploads : WF_vars(FileAnswered(u))
  /\ WF_vars(WriteApplied \/ WriteRejected)

----------------------------------------------------------------------------
\* When the writes are through, the record has the photos that were uploaded
\* and not removed, if no session asked for two changes (the second is computed
\* from the list of before the first), nobody signed in with Facebook (which
\* empties the list) and the server took every write.
ChangesSurvive ==
  writes = <<>> /\ ~repeated /\ ~facebook /\ ~rejected => Elements(record.photos) = wanted

\* The profile picture is one of the photos, unless it was removed from them
\* (removePhoto leaves profilePictureURL), two changes met in one session or a
\* write was refused.
PictureIsListed ==
  ~unpictured /\ ~repeated /\ ~rejected =>
    record.picture \in Elements(record.photos) \cup {NoPicture}

\* Every call ends, and with its completion, but for four ways that leave the
\* caller without a word: a file that could not be stored, a screen left before
\* it was, a user without a list, a lost process.
CallsEnd ==
  \A c \in Calls :
    call[c] # "new" ~> call[c] \in {"answered", "failed", "dropped", "ignored", "killed"}

=============================================================================
