------------------------------ MODULE Session ------------------------------
(***************************************************************************)
(* The signed-in session of one installation of the app: the device store  *)
(* (ATCPersistentStore), the container that swaps the walkthrough, the     *)
(* onboarding screens and the tabs (ATCHostViewController), the coordinator *)
(* and the login and sign-up managers, the manager that registers for push *)
(* messages, and the Firebase services they call.                          *)
(*                                                                         *)
(* A remote call occupies a slot from the tap that starts it until its     *)
(* completion handler has run on the main queue. The service answers in a  *)
(* step of its own (Answer), so answers and handlers interleave with taps, *)
(* with each other and with the death of the process.                      *)
(***************************************************************************)
EXTENDS Naturals

CONSTANTS
  Users,               \* user ids that Firebase may hand out
  NoUser,              \* the nil ATCUser
  Slots,               \* as many remote calls may be outstanding at a time
  FirebaseAuthEnabled  \* ATCOnboardingServerConfigurationProtocol's flag

ASSUME NoUserAssumption == NoUser \notin Users
ASSUME FlagAssumption == FirebaseAuthEnabled \in BOOLEAN

MaybeUser == Users \cup {NoUser}

Views == {"walkthrough", "onboarding", "tabs"}
Forms == {"landing", "login", "signUp"}
Fields == {"userID", "fcmToken"}

Ops == {"signIn", "fetch", "signUp", "dialog", "facebook", "resync"}
Replies == {"none", "ok", "missing", "error"}

\* An empty slot.
Idle == [op |-> "idle", user |-> NoUser, reply |-> "none"]
Call(o, u) == [op |-> o, user |-> u, reply |-> "none"]
Calls == [op : Ops, user : Users, reply : Replies] \cup {Idle}

VARIABLES
  running,         \* the process is alive and its root view has loaded
  storedUser,      \* UserDefaults, kUserKey
  walkthroughDone, \* UserDefaults, kWalkthroughCompletedKey
  authUser,        \* Firebase Auth's current user, kept in the keychain
  fcmToken,        \* Firebase Messaging holds a registration token
  accounts,        \* Firebase Auth: the users that have an account
  docs,            \* Firestore: the fields present in users/<uid>
  shown,           \* the views attached to the host controller's view
  form,            \* top of the onboarding navigation stack
  alert,           \* a login or sign-up error alert is on screen
  hostUser,        \* ATCHostViewController.user
  appUser,         \* dsProvider.user and profileVC.user
  pushUser,        \* pushManager?.user
  flips,           \* flip transitions whose completion has not run
  call,            \* the outstanding remote calls, per slot
  proved,          \* history: users who proved their credentials here
  overlapped,      \* history: a call was started with another outstanding
  fetchFailed      \* history: a user fetch failed since the last launch

disk   == <<storedUser, walkthroughDone, authUser, fcmToken>>
server == <<accounts, docs>>
ui     == <<shown, form, alert>>
people == <<hostUser, appUser, pushUser>>
vars   == <<running, disk, server, ui, people, flips, call,
            proved, overlapped, fetchFailed>>

TypeOK ==
  /\ running \in BOOLEAN
  /\ storedUser \in MaybeUser
  /\ walkthroughDone \in BOOLEAN
  /\ authUser \in MaybeUser
  /\ fcmToken \in BOOLEAN
  /\ accounts \in SUBSET Users
  /\ docs \in [Users -> SUBSET Fields]
  /\ shown \in SUBSET Views
  /\ form \in Forms
  /\ alert \in BOOLEAN
  /\ hostUser \in MaybeUser
  /\ appUser \in MaybeUser
  /\ pushUser \in MaybeUser
  /\ flips \in Nat
  /\ call \in [Slots -> Calls]
  /\ proved \in SUBSET Users
  /\ overlapped \in BOOLEAN
  /\ fetchFailed \in BOOLEAN

----------------------------------------------------------------------------
(* A fresh installation. Some users already signed up on another device,   *)
(* so they have an account and a record.                                   *)

Init ==
  /\ running = FALSE
  /\ storedUser = NoUser
  /\ walkthroughDone = FALSE
  /\ authUser = NoUser
  /\ fcmToken = FALSE
  /\ accounts \in SUBSET Users
  /\ docs = [u \in Users |-> IF u \in accounts THEN {"userID"} ELSE {}]
  /\ shown = {}
  /\ form = "landing"
  /\ alert = FALSE
  /\ hostUser = NoUser
  /\ appUser = NoUser
  /\ pushUser = NoUser
  /\ flips = 0
  /\ call = [s \in Slots |-> Idle]
  /\ proved = {}
  /\ overlapped = FALSE
  /\ fetchFailed = FALSE

Free(s) == call' = [call EXCEPT ![s] = Idle]

AddField(u, f) == docs' = [docs EXCEPT ![u] = @ \cup {f}]

\* A call the service has answered, waiting for its handler.
Answered(s, o, r) == running /\ call[s].op = o /\ call[s].reply = r

----------------------------------------------------------------------------
(* The host controller.                                                    *)

\* Mutant: the onboarding view is not removed from under the tabs.
MutantPresentOverForm ==
  /\ shown' = shown \cup {"tabs"}
  /\ flips' = flips + 1

\* Mutant: the tabs are added outside the transition, whose completion is lost.
MutantPresentWithoutFlip ==
  /\ shown' = (shown \ {"onboarding"}) \cup {"tabs"}
  /\ UNCHANGED flips

\* presentLoggedInViewControllers: the tabs replace the onboarding view and
\* the flip that carries them starts.
Present ==
  /\ shown' = (shown \ {"onboarding"}) \cup {"tabs"}
  /\ flips' = flips + 1

\* hostViewController(_:didLogin:) and (_:didSync:), whose bodies are equal.
HandOver(u) == appUser' = u

\* Mutant: a second completion does not replace the stored user.
MutantEnterStoresOnce(u) ==
  /\ hostUser' = u
  /\ Present
  /\ IF u # NoUser
       THEN storedUser' = (IF storedUser = NoUser THEN u ELSE storedUser) /\ HandOver(u)
       ELSE UNCHANGED <<storedUser, appUser>>

\* coordinatorDidCompleteOnboarding and coordinatorDidResyncCredentials: the
\* caller's user becomes the host's, the tabs are presented, and a user who
\* is not nil is stored and handed to the app's own controllers.
Enter(u) ==
  /\ hostUser' = u
  /\ Present
  /\ IF u # NoUser
       THEN storedUser' = u /\ HandOver(u)
       ELSE UNCHANGED <<storedUser, appUser>>

\* Mutant: the logout forgets store.logout().
MutantLeaveKeepsStore ==
  /\ shown' = (shown \ {"tabs"}) \cup {"onboarding"}
  /\ UNCHANGED storedUser

\* didRequestLogout: only the store is cleared; the users held in memory,
\* Firebase Auth's user and the push manager stay.
Leave ==
  /\ storedUser' = NoUser
  /\ shown' = (shown \ {"tabs"}) \cup {"onboarding"}

\* viewDidLoad with a stored user: nothing is shown until the resync ends.
LaunchResync ==
  /\ ~running
  /\ storedUser # NoUser
  /\ running' = TRUE
  /\ IF FirebaseAuthEnabled
       THEN /\ \E s \in Slots : call' = [call EXCEPT ![s] = Call("resync", storedUser)]
            /\ UNCHANGED <<storedUser, shown, hostUser, appUser, flips>>
       ELSE Enter(storedUser) /\ UNCHANGED call
  /\ UNCHANGED <<walkthroughDone, authUser, fcmToken, server, form, alert,
                 pushUser, proved, overlapped, fetchFailed>>

\* viewDidLoad without one.
LaunchFresh ==
  /\ ~running
  /\ storedUser = NoUser
  /\ running' = TRUE
  /\ shown' = IF walkthroughDone THEN {"onboarding"} ELSE {"walkthrough"}
  /\ UNCHANGED <<disk, server, form, alert, people, flips, call,
                 proved, overlapped, fetchFailed>>

\* walkthroughViewControllerDidFinishFlow
FinishWalkthrough ==
  /\ running
  /\ "walkthrough" \in shown
  /\ walkthroughDone' = TRUE
  /\ shown' = (shown \ {"walkthrough"}) \cup {"onboarding"}
  /\ UNCHANGED <<running, storedUser, authUser, fcmToken, server, form, alert,
                 people, flips, call, proved, overlapped, fetchFailed>>

\* Mutant: the push manager is made once and kept.
MutantFlipDoneLazy ==
  /\ running
  /\ flips > 0
  /\ flips' = flips - 1
  /\ IF hostUser # NoUser /\ pushUser = NoUser
       THEN /\ pushUser' = hostUser
            /\ IF fcmToken THEN AddField(hostUser, "fcmToken") ELSE UNCHANGED docs
       ELSE UNCHANGED <<pushUser, docs>>
  /\ UNCHANGED <<running, disk, accounts, ui, hostUser, appUser, call,
                 proved, overlapped, fetchFailed>>

\* The completion of UIView.transition: the push manager is made for the
\* user the host has by then, and registers its token if there is one.
FlipDone ==
  /\ running
  /\ flips > 0
  /\ flips' = flips - 1
  /\ IF hostUser # NoUser
       THEN /\ pushUser' = hostUser
            /\ IF fcmToken THEN AddField(hostUser, "fcmToken") ELSE UNCHANGED docs
       ELSE UNCHANGED <<pushUser, docs>>
  /\ UNCHANGED <<running, disk, accounts, ui, hostUser, appUser, call,
                 proved, overlapped, fetchFailed>>

\* messaging(_:didReceiveRegistrationToken:)
TokenReceived ==
  /\ running
  /\ fcmToken' = TRUE
  /\ IF pushUser # NoUser THEN AddField(pushUser, "fcmToken") ELSE UNCHANGED docs
  /\ UNCHANGED <<running, storedUser, walkthroughDone, authUser, accounts, ui,
                 people, flips, call, proved, overlapped, fetchFailed>>

----------------------------------------------------------------------------
(* The user. UIKit takes no touch while a transition runs (the option that *)
(* would allow it is not given), an alert is up or a dialog covers the app. *)

CanTap(view) ==
  /\ running
  /\ view \in shown
  /\ flips = 0
  /\ ~alert
  /\ \A s \in Slots : call[s].op # "dialog"

\* Starting a call from a tap.
Start(o, u) ==
  /\ \E s \in Slots : call[s] = Idle /\ call' = [call EXCEPT ![s] = Call(o, u)]
  /\ overlapped' = (overlapped \/ \E s \in Slots : call[s] # Idle)

\* landingScreenManagerDidTapLogIn and ...DidTapSignUp push a screen, the
\* navigation bar's back button pops it.
Navigate ==
  /\ CanTap("onboarding")
  /\ form' \in IF form = "landing" THEN {"login", "signUp"} ELSE {"landing"}
  /\ UNCHANGED <<running, disk, server, shown, alert, people, flips, call,
                 proved, overlapped, fetchFailed>>

DismissAlert ==
  /\ running
  /\ alert
  /\ alert' = FALSE
  /\ UNCHANGED <<running, disk, server, shown, form, people, flips, call,
                 proved, overlapped, fetchFailed>>

\* didTapLoginButton, didTapSignUpButton with Firebase
TapCredentials(u) ==
  /\ FirebaseAuthEnabled
  /\ CanTap("onboarding")
  /\ \/ form = "login" /\ Start("signIn", u)
     \/ form = "signUp" /\ Start("signUp", u)
  /\ UNCHANGED <<running, disk, server, ui, people, flips, proved, fetchFailed>>

\* The same two buttons without Firebase: the flow completes with no user.
TapGuest ==
  /\ ~FirebaseAuthEnabled
  /\ CanTap("onboarding")
  /\ form # "landing"
  /\ Enter(NoUser)
  /\ UNCHANGED <<running, walkthroughDone, authUser, fcmToken, server, form, alert,
                 pushUser, call, proved, overlapped, fetchFailed>>

\* didTapFacebookButton opens Facebook's own dialog.
TapFacebook(u) ==
  /\ CanTap("onboarding")
  /\ form = "login"
  /\ Start("dialog", u)
  /\ UNCHANGED <<running, disk, server, ui, people, flips, proved, fetchFailed>>

\* The Logout item of the profile screen posts kLogoutNotificationName.
TapLogout ==
  /\ CanTap("tabs")
  /\ Leave
  /\ UNCHANGED <<running, walkthroughDone, authUser, fcmToken, server, form, alert,
                 people, flips, call, proved, overlapped, fetchFailed>>

----------------------------------------------------------------------------
(* Firebase and Facebook answer an outstanding call. An account may have   *)
(* been made although the answer was lost: the app then sees an error.     *)

Answer(s) ==
  LET u == call[s].user IN
  /\ call[s] # Idle
  /\ call[s].reply = "none"
  /\ accounts' \in IF call[s].op \in {"signUp", "facebook"}
                    THEN {accounts, accounts \cup {u}}
                    ELSE {accounts}
  /\ \E r \in Replies \ {"none"} :
       /\ call' = [call EXCEPT ![s].reply = r]
       /\ r = "missing" => call[s].op \in {"fetch", "resync"} /\ "userID" \notin docs[u]
       /\ r = "ok" => CASE call[s].op = "signIn" -> u \in accounts
                        [] call[s].op = "signUp" -> u \in accounts' \ accounts
                        [] call[s].op = "facebook" -> u \in accounts'
                        [] call[s].op \in {"fetch", "resync"} -> "userID" \in docs[u]
                        [] OTHER -> TRUE
  /\ UNCHANGED <<running, disk, docs, ui, people, flips, proved, overlapped, fetchFailed>>

----------------------------------------------------------------------------
(* The completion handlers, each on the main queue.                        *)

\* The error alert is presented by the form's own controller, which UIKit
\* refuses unless that form is on screen.
ShowError(f) == alert' = (alert \/ ("onboarding" \in shown /\ form = f))

\* Mutant: a user already signed in to Firebase Auth is kept.
MutantProvedKeepsFirst(u) ==
  /\ authUser' = IF authUser = NoUser THEN u ELSE authUser
  /\ proved' = proved \cup {u}

Proved(u) == authUser' = u /\ proved' = proved \cup {u}

\* didTapLoginButton's first handler: Firebase accepted the credentials, the
\* user's record is fetched next.
SignInAccepted(s) ==
  /\ Answered(s, "signIn", "ok")
  /\ Proved(call[s].user)
  /\ call' = [call EXCEPT ![s] = Call("fetch", call[s].user)]
  /\ UNCHANGED <<running, storedUser, walkthroughDone, fcmToken, server, ui,
                 people, flips, overlapped, fetchFailed>>

\* Mutant: the handler completes the flow without looking at the result.
MutantRejectedEnters(s) ==
  /\ Answered(s, "signIn", "error") \/ Answered(s, "signUp", "error")
       \/ Answered(s, "facebook", "error")
  /\ Free(s)
  /\ Enter(call[s].user)
  /\ UNCHANGED <<running, walkthroughDone, authUser, fcmToken, server, form, alert,
                 pushUser, proved, overlapped, fetchFailed>>

\* showLoginError, showSignUpError
CredentialsRejected(s) ==
  /\ \/ Answered(s, "signIn", "error") /\ ShowError("login")
     \/ Answered(s, "signUp", "error") /\ ShowError("signUp")
     \/ Answered(s, "facebook", "error") /\ ShowError("login")
  /\ Free(s)
  /\ UNCHANGED <<running, disk, server, shown, form, people, flips, proved,
                 overlapped, fetchFailed>>

\* Mutant: without a record the flow does not complete.
MutantFetchNeedsRecord(s) ==
  /\ Answered(s, "fetch", "ok") \/ Answered(s, "fetch", "missing")
  /\ Free(s)
  /\ IF call[s].reply = "ok"
       THEN Enter(call[s].user)
       ELSE UNCHANGED <<storedUser, shown, hostUser, appUser, flips>>
  /\ UNCHANGED <<running, walkthroughDone, authUser, fcmToken, server, form, alert,
                 pushUser, proved, overlapped, fetchFailed>>

\* didTapLoginButton's second handler: the record found or, without one, the
\* user made from the credentials; both carry the same uid.
FetchCompleted(s) ==
  /\ Answered(s, "fetch", "ok") \/ Answered(s, "fetch", "missing")
  /\ Free(s)
  /\ Enter(call[s].user)
  /\ UNCHANGED <<running, walkthroughDone, authUser, fcmToken, server, form, alert,
                 pushUser, proved, overlapped, fetchFailed>>

\* fetchUser returns on an error without calling its completion.
FetchDropped(s) ==
  /\ Answered(s, "fetch", "error") \/ Answered(s, "resync", "error")
  /\ Free(s)
  /\ fetchFailed' = TRUE
  /\ UNCHANGED <<running, disk, server, ui, people, flips, proved, overlapped>>

\* didTapSignUpButton's handler and didLoginWithFacebook's: the record is
\* saved before the flow completes.
AccountReady(s) ==
  /\ Answered(s, "signUp", "ok") \/ Answered(s, "facebook", "ok")
  /\ Proved(call[s].user)
  /\ AddField(call[s].user, "userID")
  /\ Free(s)
  /\ Enter(call[s].user)
  /\ UNCHANGED <<running, walkthroughDone, fcmToken, accounts, form, alert,
                 pushUser, overlapped, fetchFailed>>

\* Mutant: without Firebase, Facebook's user is let in as it is.
MutantDialogEnters(s) ==
  /\ Answered(s, "dialog", "ok") \/ Answered(s, "dialog", "error")
  /\ Free(s)
  /\ IF call[s].reply = "ok"
       THEN Enter(call[s].user)
       ELSE UNCHANGED <<storedUser, shown, hostUser, appUser, flips>>
  /\ UNCHANGED <<running, walkthroughDone, authUser, fcmToken, server, form, alert,
                 pushUser, proved, overlapped, fetchFailed>>

\* didTapFacebookButton's handler. Without Firebase, requestFacebookUser
\* never calls its completion: the login ends here.
DialogClosed(s) ==
  /\ Answered(s, "dialog", "ok") \/ Answered(s, "dialog", "error")
  /\ IF call[s].reply = "ok" /\ FirebaseAuthEnabled
       THEN call' = [call EXCEPT ![s] = Call("facebook", call[s].user)]
       ELSE Free(s)
  /\ UNCHANGED <<running, disk, server, ui, people, flips, proved,
                 overlapped, fetchFailed>>

\* coordinatorDidResyncCredentials
ResyncFound(s) ==
  /\ Answered(s, "resync", "ok")
  /\ Free(s)
  /\ Enter(call[s].user)
  /\ UNCHANGED <<running, walkthroughDone, authUser, fcmToken, server, form, alert,
                 pushUser, proved, overlapped, fetchFailed>>

\* Mutant: nothing is posted when the record is missing.
MutantMissingIgnored(s) ==
  /\ Answered(s, "resync", "missing")
  /\ Free(s)
  /\ UNCHANGED <<running, disk, server, ui, people, flips, proved, overlapped, fetchFailed>>

\* resyncPersistentUser without a record posts the logout notification.
ResyncMissing(s) ==
  /\ Answered(s, "resync", "missing")
  /\ Free(s)
  /\ Leave
  /\ UNCHANGED <<running, walkthroughDone, authUser, fcmToken, server, form, alert,
                 people, flips, proved, overlapped, fetchFailed>>

Handler(s) ==
  \/ SignInAccepted(s) \/ CredentialsRejected(s)
  \/ FetchCompleted(s) \/ FetchDropped(s)
  \/ AccountReady(s) \/ DialogClosed(s)
  \/ ResyncFound(s) \/ ResyncMissing(s)

----------------------------------------------------------------------------
(* The environment.                                                        *)

\* The process dies; what was on the way never reaches a handler. A call
\* already sent may still be carried out by its service (Answer before Kill).
Kill ==
  /\ running
  /\ running' = FALSE
  /\ shown' = {}
  /\ form' = "landing"
  /\ alert' = FALSE
  /\ hostUser' = NoUser
  /\ appUser' = NoUser
  /\ pushUser' = NoUser
  /\ flips' = 0
  /\ call' = [s \in Slots |-> Idle]
  /\ fetchFailed' = FALSE
  /\ UNCHANGED <<disk, server, proved, overlapped>>

\* An operator removes a user, account and record, from the Firebase console.
DeleteUser(u) ==
  /\ u \in accounts
  /\ accounts' = accounts \ {u}
  /\ docs' = [docs EXCEPT ![u] = {}]
  /\ UNCHANGED <<running, disk, ui, people, flips, call, proved, overlapped, fetchFailed>>

Next ==
  \/ LaunchResync \/ LaunchFresh \/ FinishWalkthrough
  \/ FlipDone \/ TokenReceived
  \/ Navigate \/ DismissAlert \/ TapGuest \/ TapLogout
  \/ \E u \in Users : TapCredentials(u) \/ TapFacebook(u) \/ DeleteUser(u)
  \/ \E s \in Slots : Answer(s) \/ Handler(s)
  \/ Kill

Spec == Init /\ [][Next]_vars

\* The services answer, the main queue runs its handlers and the animations
\* end; no user, operator or crash is ever obliged to act.
Fairness ==
  /\ WF_vars(FlipDone)
  /\ \A s \in Slots : WF_vars(Answer(s)) /\ WF_vars(Handler(s))

FairSpec == Spec /\ Fairness

----------------------------------------------------------------------------
(* Properties.                                                             *)

\* What is on screen and what is on disk agree in every state a crash could
\* freeze: one view at a time; the tabs belong to the stored user, so a
\* restart takes the same user back; the walkthrough and the onboarding are
\* shown only when nobody is stored, and the screen is blank only while the
\* stored user is being resynced (viewDidLoad, didRequestLogout,
\* coordinatorDidCompleteOnboarding).
ScreenMatchesStore ==
  /\ \A v, w \in shown : v = w
  /\ "tabs" \in shown => storedUser = hostUser
  /\ shown \cap {"walkthrough", "onboarding"} # {} => storedUser = NoUser
  /\ running /\ shown = {} => storedUser # NoUser

\* The four places that remember the signed-in user never disagree while a
\* session is on screen, except the push manager during the flip that will
\* replace it (coordinatorDidCompleteOnboarding, hostViewController(didLogin:)
\* and (didSync:), the transition's completion).
OneUserEverywhere ==
  "tabs" \in shown /\ hostUser # NoUser =>
    /\ appUser = hostUser
    /\ flips = 0 => pushUser = hostUser

\* Unless a login was started while another was outstanding, the requests of
\* the session go out under the session's user: Firebase Auth's current user
\* is the host's. Logging out does not sign out of Firebase Auth and
\* relaunching does not sign in, so this spans sessions and launches.
PrincipalMatchesUser ==
  ~overlapped /\ "tabs" \in shown /\ hostUser # NoUser => authUser = hostUser

\* updateFirestorePushTokenIfNeeded writes this device's token only into the
\* records of users who proved their credentials on this device, also when a
\* token arrives after a logout or between two sessions.
TokensOnlyForProvenUsers ==
  \A u \in Users : "fcmToken" \in docs[u] => u \in proved

\* Why the four properties above hold: how the calls on their way constrain
\* the screen, the store and Firebase Auth's user.
CallsFitScreen ==
  \A s \in Slots :
    /\ call[s] # Idle => running
    /\ call[s].op = "resync" =>
         /\ shown = {}
         /\ call[s].user = storedUser
         /\ \A t \in Slots : t # s => call[t] = Idle
    /\ call[s].op \notin {"idle", "resync"} => shown \cap {"onboarding", "tabs"} # {}

NothingOnScreenWhenDead == ~running => shown = {}

FlipsOnlyUnderTabs == "tabs" \notin shown => flips = 0

OneCallUnlessOverlapped ==
  ~overlapped =>
    /\ \A s, t \in Slots : call[s] # Idle /\ call[t] # Idle => s = t
    /\ "tabs" \in shown => \A s \in Slots : call[s] = Idle
    /\ storedUser # NoUser => authUser = storedUser
    /\ \A s \in Slots : call[s].op = "fetch" => authUser = call[s].user

EverybodyProved ==
  /\ {storedUser, hostUser, pushUser} \subseteq proved \cup {NoUser}
  /\ \A s \in Slots : call[s].op = "fetch" => call[s].user \in proved

NobodyWithoutFirebase ==
  ~FirebaseAuthEnabled =>
    /\ storedUser = NoUser
    /\ hostUser = NoUser
    /\ \A s \in Slots : call[s].op \in {"idle", "dialog"}

\* The inductive invariant of the proofs. Its last conjuncts carry the calls:
\* a resync runs alone on the blank screen for the stored user, and a login
\* with nothing else outstanding leaves none behind when the tabs appear.
IInv ==
  /\ TypeOK
  /\ ScreenMatchesStore
  /\ OneUserEverywhere
  /\ TokensOnlyForProvenUsers
  /\ CallsFitScreen
  /\ NothingOnScreenWhenDead
  /\ FlipsOnlyUnderTabs
  /\ OneCallUnlessOverlapped
  /\ EverybodyProved
  /\ NobodyWithoutFirebase

\* Unless logins overlapped, nobody's session turns into somebody else's: the
\* user behind the tabs changes only across a logout or a restart.
NoSilentSwitch ==
  [][~overlapped /\ "tabs" \in shown /\ "tabs" \in shown' => hostUser' = hostUser]_vars

\* The session keeps the abstract promise.
Promise ==
  INSTANCE SessionPromise WITH
    place    <- IF ~running THEN "closed"
                ELSE IF "tabs" \in shown THEN "inside" ELSE "outside",
    occupant <- IF "tabs" \in shown THEN hostUser ELSE NoUser,
    account  <- storedUser

KeepsPromise == Promise!PromiseSpec

\* resyncPersistentUser's comment on its logout: "User is no longer existing".
ResyncLogoutMeansGone ==
  [][\A s \in Slots : ResyncMissing(s) => call[s].user \notin accounts]_vars

\* A launch with a stored user does not stay on the blank screen, unless the
\* fetch of the user failed: then fetchUser never calls back.
BlankScreenEnds ==
  running /\ shown = {} ~> shown # {} \/ fetchFailed \/ ~running

\* Tapping Log In ends with the tabs or an alert, unless the user left the
\* login form or the fetch of the user failed (again without a callback).
SignInAnswered ==
  \A s \in Slots :
    call[s].op = "signIn" ~>
      "tabs" \in shown \/ alert \/ form # "login" \/ fetchFailed \/ ~running

\* The push manager is made for the session's user once the flip has ended,
\* however many completions and flips are on their way.
PushFollowsSession ==
  \A u \in Users :
    "tabs" \in shown /\ hostUser = u ~> "tabs" \notin shown \/ hostUser # u \/ pushUser = u

=============================================================================
