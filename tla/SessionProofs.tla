--------------------------- MODULE SessionProofs ---------------------------
(***************************************************************************)
(* Theorems about Session, about the forms of its profile tab and about    *)
(* the pages of its walkthrough, for any set of users, any number of calls *)
(* and any number of pages.                                                *)
(***************************************************************************)
EXTENDS SessionForms, SessionWalkthrough, TLAPS

(* TypeOK is inductive by itself. *)

LEMMA StartTyped ==
  ASSUME TypeOK, NEW o \in Ops, NEW u \in Users, Start(o, u)
  PROVE  call' \in [Slots -> Calls] /\ overlapped' \in BOOLEAN
  BY DEF TypeOK, Start, Call, Calls, Ops, Replies

\* Every field of an outstanding call has its type.
LEMMA OutstandingTyped ==
  ASSUME TypeOK, NEW s \in Slots, call[s].op \in Ops
  PROVE  call[s].user \in Users /\ call[s].reply \in Replies
  BY NoUserAssumption DEF TypeOK, Calls, Idle, Ops, Replies

\* Present, Enter and Leave keep the types of what they assign.
LEMMA EnterTyped ==
  ASSUME TypeOK, NEW u \in MaybeUser, Enter(u)
  PROVE  /\ hostUser' \in MaybeUser /\ appUser' \in MaybeUser
         /\ storedUser' \in MaybeUser
         /\ shown' \in SUBSET Views /\ flips' \in Nat
  BY DEF TypeOK, Enter, Present, HandOver, Views

LEMMA FreeTyped ==
  ASSUME TypeOK, NEW s \in Slots, Free(s)
  PROVE  call' \in [Slots -> Calls]
  BY DEF TypeOK, Free, Calls

LEMMA AddFieldTyped ==
  ASSUME TypeOK, NEW u \in Users, NEW f \in Fields, AddField(u, f)
  PROVE  docs' \in [Users -> SUBSET Fields]
  BY DEF TypeOK, AddField

(* Every step keeps the types. *)
LEMMA TypeStep ==
  ASSUME TypeOK, [Next]_vars
  PROVE  TypeOK'
<1> USE DEF disk, server, ui, people
<1>1. CASE LaunchResync
  <2>1. storedUser \in Users
    BY <1>1 DEF LaunchResync, TypeOK, MaybeUser
  <2>2. CASE FirebaseAuthEnabled
    BY <1>1, <2>1, <2>2 DEF LaunchResync, TypeOK, Call, Calls, Ops, Replies
  <2>3. CASE ~FirebaseAuthEnabled
    BY <1>1, <2>1, <2>3, EnterTyped DEF LaunchResync, TypeOK, MaybeUser
  <2> QED BY <2>2, <2>3
<1>2. CASE LaunchFresh
  BY <1>2 DEF LaunchFresh, TypeOK, Views
<1>3. CASE FinishWalkthrough
  BY <1>3 DEF FinishWalkthrough, TypeOK, Views
<1>4. CASE FlipDone
  <2>1. flips' \in Nat
    BY <1>4 DEF FlipDone, TypeOK
  <2>2. hostUser # NoUser => hostUser \in Users
    BY DEF TypeOK, MaybeUser
  <2>3. docs' \in [Users -> SUBSET Fields]
    BY <1>4, <2>2, AddFieldTyped DEF FlipDone, TypeOK, Fields
  <2> QED BY <1>4, <2>1, <2>3 DEF FlipDone, TypeOK
<1>5. CASE TokenReceived
  <2>1. pushUser # NoUser => pushUser \in Users
    BY DEF TypeOK, MaybeUser
  <2>2. docs' \in [Users -> SUBSET Fields]
    BY <1>5, <2>1, AddFieldTyped DEF TokenReceived, TypeOK, Fields
  <2> QED BY <1>5, <2>2 DEF TokenReceived, TypeOK
<1>6. CASE Navigate
  BY <1>6 DEF Navigate, TypeOK, Forms
<1>7. CASE DismissAlert
  BY <1>7 DEF DismissAlert, TypeOK
<1>8. CASE TapGuest
  BY <1>8, EnterTyped DEF TapGuest, TypeOK, MaybeUser
<1>9. CASE TapLogout
  BY <1>9 DEF TapLogout, Leave, TypeOK, MaybeUser, Views
<1>10. ASSUME NEW u \in Users, TapCredentials(u) PROVE TypeOK'
  BY <1>10, StartTyped DEF TapCredentials, TypeOK, Ops
<1>11. ASSUME NEW u \in Users, TapFacebook(u) PROVE TypeOK'
  BY <1>11, StartTyped DEF TapFacebook, TypeOK, Ops
<1>12. ASSUME NEW u \in Users, DeleteUser(u) PROVE TypeOK'
  BY <1>12 DEF DeleteUser, TypeOK
<1>13. ASSUME NEW s \in Slots, Answer(s) PROVE TypeOK'
  <2>1. call[s] \in [op : Ops, user : Users, reply : Replies]
    BY <1>13 DEF Answer, TypeOK, Calls
  <2>2. call' \in [Slots -> Calls]
    BY <1>13, <2>1 DEF Answer, TypeOK, Calls
  <2>3. accounts' \in SUBSET Users
    BY <1>13, <2>1 DEF Answer, TypeOK
  <2> QED BY <1>13, <2>2, <2>3 DEF Answer, TypeOK
<1>14. ASSUME NEW s \in Slots, Handler(s) PROVE TypeOK'
  <2> USE <1>14
  <2>0. /\ call[s].op \in Ops => call[s].user \in Users /\ call[s].user \in MaybeUser
        /\ {"signIn", "fetch", "signUp", "dialog", "facebook", "resync"} \subseteq Ops
    BY OutstandingTyped DEF Ops, MaybeUser
  <2>1. CASE SignInAccepted(s)
    BY <2>0, <2>1 DEF SignInAccepted, Answered, Proved, Call, Calls, Replies, TypeOK
  <2>2. CASE CredentialsRejected(s)
    BY <2>2, FreeTyped DEF CredentialsRejected, ShowError, TypeOK
  <2>3. CASE FetchCompleted(s)
    BY <2>0, <2>3, FreeTyped, EnterTyped DEF FetchCompleted, Answered, TypeOK
  <2>4. CASE FetchDropped(s)
    BY <2>4, FreeTyped DEF FetchDropped, TypeOK
  <2>5. CASE AccountReady(s)
    <3>1. call[s].user \in Users /\ call[s].user \in MaybeUser
      BY <2>0, <2>5 DEF AccountReady, Answered
    <3>2. docs' \in [Users -> SUBSET Fields]
      BY <2>5, <3>1, AddFieldTyped DEF AccountReady, Fields
    <3> QED BY <2>5, <3>1, <3>2, FreeTyped, EnterTyped DEF AccountReady, Proved, TypeOK
  <2>6. CASE DialogClosed(s)
    BY <2>0, <2>6, FreeTyped DEF DialogClosed, Answered, Call, Calls, Replies, TypeOK
  <2>7. CASE ResyncFound(s)
    BY <2>0, <2>7, FreeTyped, EnterTyped DEF ResyncFound, Answered, TypeOK
  <2>8. CASE ResyncMissing(s)
    BY <2>8, FreeTyped DEF ResyncMissing, Leave, TypeOK, MaybeUser, Views
  <2> QED BY <2>1, <2>2, <2>3, <2>4, <2>5, <2>6, <2>7, <2>8 DEF Handler
<1>15. CASE Kill
  BY <1>15 DEF Kill, TypeOK, MaybeUser, Calls, Forms
<1>16. CASE UNCHANGED vars
  BY <1>16 DEF vars, TypeOK
<1> QED
  BY <1>1, <1>2, <1>3, <1>4, <1>5, <1>6, <1>7, <1>8, <1>9, <1>10, <1>11, <1>12,
     <1>13, <1>14, <1>15, <1>16 DEF Next

LEMMA TypeInit == Init => TypeOK
<1> SUFFICES ASSUME Init PROVE TypeOK
  OBVIOUS
<1>1. docs \in [Users -> SUBSET Fields]
  <2>1. \A u \in Users : (IF u \in accounts THEN {"userID"} ELSE {}) \in SUBSET Fields
    BY DEF Fields
  <2> QED BY <2>1 DEF Init
<1>2. call \in [Slots -> Calls]
  BY DEF Init, Calls
<1> QED BY <1>1, <1>2 DEF Init, TypeOK, MaybeUser, Views, Forms

\* Every variable keeps its type in every step of the session: in particular
\* no completion ever runs for a flip that was not started.
THEOREM TypeCorrect == Spec => []TypeOK
<1> QED BY TypeInit, TypeStep, PTL DEF Spec

----------------------------------------------------------------------------
(* IInv is inductive. TypeOK' comes from TypeStep, and each action says    *)
(* what it does to the other conjuncts.                                    *)

LEMMA IInvInit == Init => IInv
<1> SUFFICES ASSUME Init PROVE IInv
  OBVIOUS
<1>1. \A u \in Users : "fcmToken" \notin docs[u]
  BY DEF Init
<1> QED
  BY TypeInit, <1>1 DEF IInv, Init, Idle, ScreenMatchesStore, OneUserEverywhere,
     TokensOnlyForProvenUsers, CallsFitScreen, NothingOnScreenWhenDead, FlipsOnlyUnderTabs,
     OneCallUnlessOverlapped, EverybodyProved, NobodyWithoutFirebase

\* What a completed login has in common, whichever handler ends it: the call
\* is freed, its user enters, and only the fields of that user's record and
\* the set of proved users may grow.
EnterFacts(s) ==
  /\ running /\ running' = running
  /\ call[s].op \in {"fetch", "signUp", "facebook"}
  /\ Free(s)
  /\ Enter(call[s].user)
  /\ proved \subseteq proved'
  /\ docs' \in {docs, [docs EXCEPT ![call[s].user] = @ \cup {"userID"}]}
  /\ UNCHANGED <<pushUser, overlapped>>

\* A completed login keeps IInv, if its user is proved and is Firebase Auth's
\* user unless logins overlapped.
LEMMA EnterKeeps ==
  ASSUME IInv, TypeOK', NEW s \in Slots, EnterFacts(s),
         call[s].user \in proved',
         ~overlapped => authUser' = call[s].user
  PROVE  IInv'
<1> USE DEF IInv
<1>1. call[s].user \in Users /\ call[s].user # NoUser
  BY OutstandingTyped, NoUserAssumption DEF EnterFacts, Ops
<1>2. /\ hostUser' = call[s].user /\ storedUser' = call[s].user /\ appUser' = call[s].user
      /\ shown' = (shown \ {"onboarding"}) \cup {"tabs"} /\ flips' = flips + 1
      /\ running' /\ call' = [call EXCEPT ![s] = Idle]
  BY <1>1 DEF EnterFacts, Enter, Present, HandOver, Free
<1>3. /\ call'[s] = Idle
      /\ \A t \in Slots : t # s => call'[t] = call[t]
  BY <1>2 DEF TypeOK
<1>4. "walkthrough" \notin shown /\ \A t \in Slots : call[t].op # "resync"
  BY DEF EnterFacts, CallsFitScreen, ScreenMatchesStore, Idle
<1>5. shown' = {"tabs"}
  BY <1>2, <1>4 DEF TypeOK, Views
<1>6. ScreenMatchesStore' /\ NothingOnScreenWhenDead' /\ FlipsOnlyUnderTabs'
  BY <1>2, <1>5 DEF ScreenMatchesStore, NothingOnScreenWhenDead, FlipsOnlyUnderTabs
<1>7. OneUserEverywhere'
  <2>1. flips' # 0
    BY <1>2 DEF TypeOK
  <2> QED BY <1>2, <2>1 DEF OneUserEverywhere
<1>8. TokensOnlyForProvenUsers'
  BY <1>1 DEF EnterFacts, TokensOnlyForProvenUsers, TypeOK
<1>9. CallsFitScreen'
  BY <1>2, <1>3, <1>4, <1>5 DEF CallsFitScreen, Idle
<1>10. OneCallUnlessOverlapped'
  <2>1. ~overlapped => \A t \in Slots : t # s => call[t] = Idle
    BY DEF EnterFacts, OneCallUnlessOverlapped, Idle
  <2> QED BY <1>2, <1>3, <2>1 DEF OneCallUnlessOverlapped, Idle, EnterFacts
<1>11. EverybodyProved'
  BY <1>2, <1>3 DEF EnterFacts, EverybodyProved, Idle
<1>12. NobodyWithoutFirebase'
  <2>1. FirebaseAuthEnabled
    BY DEF EnterFacts, NobodyWithoutFirebase
  <2> QED BY <2>1 DEF NobodyWithoutFirebase
<1> QED
  BY <1>6, <1>7, <1>8, <1>9, <1>10, <1>11, <1>12

LEMMA IInvStep ==
  ASSUME IInv, [Next]_vars
  PROVE  IInv'
<1> USE DEF disk, server, ui, people, IInv
<1>0. TypeOK'
  BY TypeStep
<1>1. CASE LaunchResync
  BY <1>0, <1>1 DEF LaunchResync, Enter, Present, HandOver, Call, Idle, TypeOK,
     ScreenMatchesStore, OneUserEverywhere, TokensOnlyForProvenUsers, CallsFitScreen,
     NothingOnScreenWhenDead, FlipsOnlyUnderTabs, OneCallUnlessOverlapped,
     EverybodyProved, NobodyWithoutFirebase
<1>2. CASE LaunchFresh
  <2>1. /\ shown = {} /\ flips = 0
        /\ \A s \in Slots : call[s] = Idle
    BY <1>2 DEF LaunchFresh, NothingOnScreenWhenDead, FlipsOnlyUnderTabs, CallsFitScreen
  <2>2. /\ "tabs" \notin shown'
        /\ shown' \cap {"walkthrough", "onboarding"} # {}
        /\ \A v, w \in shown' : v = w
        /\ storedUser' = NoUser /\ flips' = 0 /\ call' = call
    BY <1>2, <2>1 DEF LaunchFresh
  <2>3. ScreenMatchesStore' /\ OneUserEverywhere' /\ FlipsOnlyUnderTabs'
    BY <2>2 DEF ScreenMatchesStore, OneUserEverywhere, FlipsOnlyUnderTabs
  <2>4. CallsFitScreen'
    BY <2>1, <2>2 DEF CallsFitScreen, Idle
  <2>5. OneCallUnlessOverlapped'
    BY <1>2, <2>1, <2>2 DEF LaunchFresh, OneCallUnlessOverlapped, Idle
  <2> QED
    BY <1>0, <1>2, <2>3, <2>4, <2>5 DEF LaunchFresh, TokensOnlyForProvenUsers,
       NothingOnScreenWhenDead, EverybodyProved, NobodyWithoutFirebase
<1>3. CASE FinishWalkthrough
  BY <1>0, <1>3 DEF FinishWalkthrough, TypeOK,
     ScreenMatchesStore, OneUserEverywhere, TokensOnlyForProvenUsers, CallsFitScreen,
     NothingOnScreenWhenDead, FlipsOnlyUnderTabs, OneCallUnlessOverlapped,
     EverybodyProved, NobodyWithoutFirebase
<1>4. CASE FlipDone
  BY <1>0, <1>4 DEF FlipDone, AddField, TypeOK,
     ScreenMatchesStore, OneUserEverywhere, TokensOnlyForProvenUsers, CallsFitScreen,
     NothingOnScreenWhenDead, FlipsOnlyUnderTabs, OneCallUnlessOverlapped,
     EverybodyProved, NobodyWithoutFirebase
<1>5. CASE TokenReceived
  BY <1>0, <1>5 DEF TokenReceived, AddField, TypeOK,
     ScreenMatchesStore, OneUserEverywhere, TokensOnlyForProvenUsers, CallsFitScreen,
     NothingOnScreenWhenDead, FlipsOnlyUnderTabs, OneCallUnlessOverlapped,
     EverybodyProved, NobodyWithoutFirebase
<1>6. CASE Navigate
  BY <1>0, <1>6 DEF Navigate, TypeOK,
     ScreenMatchesStore, OneUserEverywhere, TokensOnlyForProvenUsers, CallsFitScreen,
     NothingOnScreenWhenDead, FlipsOnlyUnderTabs, OneCallUnlessOverlapped,
     EverybodyProved, NobodyWithoutFirebase
<1>7. CASE DismissAlert
  BY <1>0, <1>7 DEF DismissAlert, TypeOK,
     ScreenMatchesStore, OneUserEverywhere, TokensOnlyForProvenUsers, CallsFitScreen,
     NothingOnScreenWhenDead, FlipsOnlyUnderTabs, OneCallUnlessOverlapped,
     EverybodyProved, NobodyWithoutFirebase
<1>8. CASE TapGuest
  <2>1. /\ "onboarding" \in shown /\ storedUser = NoUser /\ shown = {"onboarding"}
    BY <1>8 DEF TapGuest, CanTap, ScreenMatchesStore
  <2>2. /\ shown' = {"tabs"} /\ hostUser' = NoUser
        /\ storedUser' = NoUser /\ running
        /\ UNCHANGED <<running, call, appUser, docs, proved, pushUser, overlapped, authUser>>
    BY <1>8, <2>1 DEF TapGuest, CanTap, Enter, Present
  <2>3. \A s \in Slots : call[s].op # "resync"
    BY <2>1 DEF CallsFitScreen
  <2>4. CallsFitScreen'
    BY <2>2, <2>3 DEF CallsFitScreen
  <2>5. ~FirebaseAuthEnabled
    BY <1>8 DEF TapGuest
  <2>6. \A s \in Slots : call[s] = Idle
    <3>1. \A s \in Slots : call[s].op = "idle"
      BY <1>8, <2>5 DEF TapGuest, CanTap, NobodyWithoutFirebase
    <3> QED BY <3>1 DEF TypeOK, Calls, Ops
  <2>7. OneCallUnlessOverlapped'
    BY <2>2, <2>6 DEF OneCallUnlessOverlapped, Idle
  <2> QED
    BY <1>0, <2>2, <2>4, <2>7 DEF ScreenMatchesStore, OneUserEverywhere,
       TokensOnlyForProvenUsers, NothingOnScreenWhenDead, FlipsOnlyUnderTabs,
       EverybodyProved, NobodyWithoutFirebase
<1>9. CASE TapLogout
  BY <1>0, <1>9 DEF TapLogout, Leave, CanTap, TypeOK,
     ScreenMatchesStore, OneUserEverywhere, TokensOnlyForProvenUsers, CallsFitScreen,
     NothingOnScreenWhenDead, FlipsOnlyUnderTabs, OneCallUnlessOverlapped,
     EverybodyProved, NobodyWithoutFirebase
<1>10. ASSUME NEW u \in Users, TapCredentials(u) PROVE IInv'
  BY <1>0, <1>10 DEF TapCredentials, Start, Call, Idle, CanTap, TypeOK,
     ScreenMatchesStore, OneUserEverywhere, TokensOnlyForProvenUsers, CallsFitScreen,
     NothingOnScreenWhenDead, FlipsOnlyUnderTabs, OneCallUnlessOverlapped,
     EverybodyProved, NobodyWithoutFirebase
<1>11. ASSUME NEW u \in Users, TapFacebook(u) PROVE IInv'
  <2>1. PICK s \in Slots : call[s] = Idle /\ call' = [call EXCEPT ![s] = Call("dialog", u)]
    BY <1>11 DEF TapFacebook, Start
  <2>2. /\ running /\ "onboarding" \in shown /\ storedUser = NoUser /\ "tabs" \notin shown
        /\ UNCHANGED <<running, disk, server, ui, people, flips, proved>>
    BY <1>11 DEF TapFacebook, CanTap, ScreenMatchesStore
  <2>3. /\ call' \in [Slots -> Calls]
        /\ call'[s] = Call("dialog", u)
        /\ \A t \in Slots : t # s => call'[t] = call[t]
    BY <1>0, <2>1 DEF TypeOK
  <2>4. CallsFitScreen'
    BY <2>2, <2>3 DEF CallsFitScreen, Call
  <2>5. OneCallUnlessOverlapped'
    <3>1. ~overlapped' => \A t \in Slots : call[t] = Idle
      BY <1>11 DEF TapFacebook, Start
    <3> QED BY <2>2, <2>3, <3>1 DEF OneCallUnlessOverlapped, Call, Idle
  <2>6. EverybodyProved' /\ NobodyWithoutFirebase'
    BY <2>2, <2>3 DEF EverybodyProved, NobodyWithoutFirebase, Call
  <2> QED
    BY <1>0, <2>2, <2>4, <2>5, <2>6 DEF ScreenMatchesStore, OneUserEverywhere,
       TokensOnlyForProvenUsers, NothingOnScreenWhenDead, FlipsOnlyUnderTabs
<1>12. ASSUME NEW u \in Users, DeleteUser(u) PROVE IInv'
  BY <1>0, <1>12 DEF DeleteUser, TypeOK,
     ScreenMatchesStore, OneUserEverywhere, TokensOnlyForProvenUsers, CallsFitScreen,
     NothingOnScreenWhenDead, FlipsOnlyUnderTabs, OneCallUnlessOverlapped,
     EverybodyProved, NobodyWithoutFirebase
<1>13. ASSUME NEW s \in Slots, Answer(s) PROVE IInv'
  BY <1>0, <1>13 DEF Answer, Calls, Idle, TypeOK,
     ScreenMatchesStore, OneUserEverywhere, TokensOnlyForProvenUsers, CallsFitScreen,
     NothingOnScreenWhenDead, FlipsOnlyUnderTabs, OneCallUnlessOverlapped,
     EverybodyProved, NobodyWithoutFirebase
<1>14. ASSUME NEW s \in Slots, SignInAccepted(s) PROVE IInv'
  BY <1>0, <1>14 DEF SignInAccepted, Answered, Proved, Call, Idle, TypeOK,
     ScreenMatchesStore, OneUserEverywhere, TokensOnlyForProvenUsers, CallsFitScreen,
     NothingOnScreenWhenDead, FlipsOnlyUnderTabs, OneCallUnlessOverlapped,
     EverybodyProved, NobodyWithoutFirebase
<1>15. ASSUME NEW s \in Slots, CredentialsRejected(s) PROVE IInv'
  BY <1>0, <1>15 DEF CredentialsRejected, Answered, ShowError, Free, Idle, TypeOK,
     ScreenMatchesStore, OneUserEverywhere, TokensOnlyForProvenUsers, CallsFitScreen,
     NothingOnScreenWhenDead, FlipsOnlyUnderTabs, OneCallUnlessOverlapped,
     EverybodyProved, NobodyWithoutFirebase
<1>16. ASSUME NEW s \in Slots, FetchCompleted(s) PROVE IInv'
  <2>1. call[s].op = "fetch" /\ running /\ call[s].user \in proved
    BY <1>16 DEF FetchCompleted, Answered, EverybodyProved
  <2>2. EnterFacts(s)
    BY <1>16, <2>1 DEF EnterFacts, FetchCompleted
  <2> QED
    BY <1>0, <1>16, <2>1, <2>2, EnterKeeps DEF FetchCompleted, OneCallUnlessOverlapped
<1>17. ASSUME NEW s \in Slots, FetchDropped(s) PROVE IInv'
  BY <1>0, <1>17 DEF FetchDropped, Answered, Free, Idle, TypeOK,
     ScreenMatchesStore, OneUserEverywhere, TokensOnlyForProvenUsers, CallsFitScreen,
     NothingOnScreenWhenDead, FlipsOnlyUnderTabs, OneCallUnlessOverlapped,
     EverybodyProved, NobodyWithoutFirebase
<1>18. ASSUME NEW s \in Slots, AccountReady(s) PROVE IInv'
  <2>1. call[s].op \in {"signUp", "facebook"} /\ running
    BY <1>18 DEF AccountReady, Answered
  <2>2. EnterFacts(s)
    BY <1>18, <2>1 DEF EnterFacts, AccountReady, Proved, AddField
  <2>3. authUser' = call[s].user /\ call[s].user \in proved'
    BY <1>18 DEF AccountReady, Proved
  <2> QED
    BY <1>0, <2>1, <2>2, <2>3, EnterKeeps
<1>19. ASSUME NEW s \in Slots, DialogClosed(s) PROVE IInv'
  BY <1>0, <1>19 DEF DialogClosed, Answered, Free, Call, Idle, TypeOK,
     ScreenMatchesStore, OneUserEverywhere, TokensOnlyForProvenUsers, CallsFitScreen,
     NothingOnScreenWhenDead, FlipsOnlyUnderTabs, OneCallUnlessOverlapped,
     EverybodyProved, NobodyWithoutFirebase
<1>20. ASSUME NEW s \in Slots, ResyncFound(s) PROVE IInv'
  BY <1>0, <1>20 DEF ResyncFound, Answered, Enter, Present, HandOver, Free, Idle, TypeOK,
     ScreenMatchesStore, OneUserEverywhere, TokensOnlyForProvenUsers, CallsFitScreen,
     NothingOnScreenWhenDead, FlipsOnlyUnderTabs, OneCallUnlessOverlapped,
     EverybodyProved, NobodyWithoutFirebase
<1>21. ASSUME NEW s \in Slots, ResyncMissing(s) PROVE IInv'
  BY <1>0, <1>21 DEF ResyncMissing, Answered, Leave, Free, Idle, TypeOK,
     ScreenMatchesStore, OneUserEverywhere, TokensOnlyForProvenUsers, CallsFitScreen,
     NothingOnScreenWhenDead, FlipsOnlyUnderTabs, OneCallUnlessOverlapped,
     EverybodyProved, NobodyWithoutFirebase
<1>22. CASE Kill
  BY <1>0, <1>22 DEF Kill, Idle, TypeOK,
     ScreenMatchesStore, OneUserEverywhere, TokensOnlyForProvenUsers, CallsFitScreen,
     NothingOnScreenWhenDead, FlipsOnlyUnderTabs, OneCallUnlessOverlapped,
     EverybodyProved, NobodyWithoutFirebase
<1>23. CASE UNCHANGED vars
  BY <1>0, <1>23 DEF vars, TypeOK,
     ScreenMatchesStore, OneUserEverywhere, TokensOnlyForProvenUsers, CallsFitScreen,
     NothingOnScreenWhenDead, FlipsOnlyUnderTabs, OneCallUnlessOverlapped,
     EverybodyProved, NobodyWithoutFirebase
<1> QED
  BY <1>1, <1>2, <1>3, <1>4, <1>5, <1>6, <1>7, <1>8, <1>9, <1>10, <1>11, <1>12, <1>13, <1>14, <1>15, <1>16, <1>17, <1>18, <1>19, <1>20, <1>21, <1>22, <1>23
     DEF Next, Handler

LEMMA InvariantHolds == Spec => []IInv
<1> QED BY IInvInit, IInvStep, PTL DEF Spec

----------------------------------------------------------------------------
(* The properties.                                                         *)

\* Screen and store agree in every reachable state, so the state a crash
\* freezes is always one from which the next launch resumes correctly.
THEOREM ScreenAndStore == Spec => []ScreenMatchesStore
<1>1. IInv => ScreenMatchesStore
  BY DEF IInv
<1> QED BY <1>1, InvariantHolds, PTL

\* Host, app and push manager agree on the user behind the tabs.
THEOREM SameUser == Spec => []OneUserEverywhere
<1>1. IInv => OneUserEverywhere
  BY DEF IInv
<1> QED BY <1>1, InvariantHolds, PTL

\* Without overlapping logins, Firebase Auth's user is the session's.
THEOREM Principal == Spec => []PrincipalMatchesUser
<1>1. IInv => PrincipalMatchesUser
  BY DEF IInv, PrincipalMatchesUser, ScreenMatchesStore, OneCallUnlessOverlapped
<1> QED BY <1>1, InvariantHolds, PTL

\* Push tokens reach only the records of users who proved themselves here.
THEOREM Tokens == Spec => []TokensOnlyForProvenUsers
<1>1. IInv => TokensOnlyForProvenUsers
  BY DEF IInv
<1> QED BY <1>1, InvariantHolds, PTL

\* The actions that leave the host's user alone.
LEMMA HostUserKept ==
  ASSUME IInv, Next, "tabs" \in shown, "tabs" \in shown', ~overlapped
  PROVE  hostUser' = hostUser
<1> USE DEF disk, server, ui, people, IInv
<1>1. running /\ \A s \in Slots : call[s] = Idle
  BY DEF NothingOnScreenWhenDead, OneCallUnlessOverlapped
<1>2. "onboarding" \notin shown /\ "walkthrough" \notin shown
  BY DEF ScreenMatchesStore
<1>3. CASE LaunchResync \/ LaunchFresh \/ TapGuest
  BY <1>1, <1>2, <1>3 DEF LaunchResync, LaunchFresh, TapGuest, CanTap
<1>4. CASE FinishWalkthrough \/ FlipDone \/ TokenReceived \/ Navigate \/ DismissAlert \/ TapLogout
  BY <1>4 DEF FinishWalkthrough, FlipDone, TokenReceived, Navigate, DismissAlert, TapLogout
<1>5. CASE \E u \in Users : TapCredentials(u) \/ TapFacebook(u) \/ DeleteUser(u)
  BY <1>5 DEF TapCredentials, TapFacebook, DeleteUser
<1>6. CASE \E s \in Slots : Answer(s) \/ Handler(s)
  <2>0. \A s \in Slots : ~Answer(s)
    BY <1>1 DEF Answer
  <2>1. \A s \in Slots : call[s].op = "idle"
    BY <1>1 DEF Idle
  <2>2. PICK s \in Slots : Handler(s)
    BY <1>6, <2>0
  <2>3. CASE SignInAccepted(s) \/ FetchCompleted(s) \/ AccountReady(s)
    BY <2>1, <2>3 DEF SignInAccepted, FetchCompleted, AccountReady, Answered
  <2>4. CASE CredentialsRejected(s) \/ FetchDropped(s) \/ DialogClosed(s)
    BY <2>1, <2>4 DEF CredentialsRejected, FetchDropped, DialogClosed, Answered
  <2>5. CASE ResyncFound(s) \/ ResyncMissing(s)
    BY <2>1, <2>5 DEF ResyncFound, ResyncMissing, Answered
  <2> QED BY <2>2, <2>3, <2>4, <2>5 DEF Handler
<1>7. CASE Kill
  BY <1>7 DEF Kill
<1> QED BY <1>3, <1>4, <1>5, <1>6, <1>7 DEF Next

\* A session never turns into another user's without a logout, a restart or
\* overlapping logins.
THEOREM SilentSwitch == Spec => NoSilentSwitch
<1>1. IInv /\ [Next]_vars
        => [~overlapped /\ "tabs" \in shown /\ "tabs" \in shown' => hostUser' = hostUser]_vars
  BY HostUserKept
<1> QED BY <1>1, InvariantHolds, PTL DEF Spec, NoSilentSwitch

\* A blank screen has its reason: a resync on its way, or a fetch that failed.
BlankHasReason == running /\ shown = {} => fetchFailed \/ \E s \in Slots : call[s].op = "resync"

LEMMA BlankStep == IInv /\ BlankHasReason /\ [Next]_vars => BlankHasReason'
<1> SUFFICES ASSUME IInv, BlankHasReason, [Next]_vars, running', shown' = {}
             PROVE  fetchFailed' \/ \E s \in Slots : call'[s].op = "resync"
  BY DEF BlankHasReason
<1> USE DEF disk, server, ui, people, IInv
<1>1. CASE LaunchResync
  <2>1. PICK s \in Slots : call' = [call EXCEPT ![s] = Call("resync", storedUser)]
    BY <1>1 DEF LaunchResync, Enter, Present
  <2>2. call'[s].op = "resync"
    BY <2>1 DEF TypeOK, Call
  <2> QED BY <2>2
<1>2. CASE LaunchFresh \/ FinishWalkthrough \/ TapGuest \/ TapLogout
  BY <1>2 DEF LaunchFresh, FinishWalkthrough, TapGuest, TapLogout, Enter, Present, Leave
<1>3. CASE FlipDone \/ TokenReceived \/ Navigate \/ DismissAlert \/ UNCHANGED vars
  BY <1>3 DEF FlipDone, TokenReceived, Navigate, DismissAlert, vars, BlankHasReason
<1>4. ASSUME NEW u \in Users, TapCredentials(u) \/ TapFacebook(u) PROVE FALSE
  BY <1>4 DEF TapCredentials, TapFacebook, CanTap
<1>5. ASSUME NEW u \in Users, DeleteUser(u)
      PROVE  fetchFailed' \/ \E s \in Slots : call'[s].op = "resync"
  BY <1>5 DEF DeleteUser, BlankHasReason
<1>6. ASSUME NEW s \in Slots, Answer(s)
      PROVE  fetchFailed' \/ \E t \in Slots : call'[t].op = "resync"
  <2>1. \A t \in Slots : call'[t].op = call[t].op
    BY <1>6 DEF Answer, TypeOK, Calls, Idle
  <2> QED BY <1>6, <2>1 DEF Answer, BlankHasReason
<1>7. ASSUME NEW s \in Slots,
             \/ SignInAccepted(s) \/ CredentialsRejected(s) \/ DialogClosed(s)
      PROVE  fetchFailed' \/ \E t \in Slots : call'[t].op = "resync"
  <2>1. call[s].op \in {"signIn", "signUp", "facebook", "dialog"} /\ shown = {} /\ running
    BY <1>7 DEF SignInAccepted, CredentialsRejected, DialogClosed, Answered
  <2> QED BY <2>1 DEF CallsFitScreen
<1>8. ASSUME NEW s \in Slots,
             FetchCompleted(s) \/ AccountReady(s) \/ ResyncFound(s) \/ ResyncMissing(s)
      PROVE  FALSE
  BY <1>8 DEF FetchCompleted, AccountReady, ResyncFound, ResyncMissing, Enter, Present, Leave
<1>9. ASSUME NEW s \in Slots, FetchDropped(s) PROVE fetchFailed'
  BY <1>9 DEF FetchDropped
<1>10. ~Kill
  BY DEF Kill
<1> QED BY <1>1, <1>2, <1>3, <1>4, <1>5, <1>6, <1>7, <1>8, <1>9, <1>10 DEF Next, Handler

\* The screen is blank only while a resync is on its way or after a fetch failed
\* without a word: the half of BlankScreenEnds that does not depend on the
\* services (viewDidLoad, resyncPersistentUser).
THEOREM BlankIsExplained == Spec => []BlankHasReason
<1>1. Init => BlankHasReason
  BY DEF Init, BlankHasReason
<1> QED BY <1>1, BlankStep, InvariantHolds, PTL DEF Spec

----------------------------------------------------------------------------
(* The refinement: every step of the session is one of the promise or a    *)
(* stutter.                                                                *)

LEMMA PromiseStart == Init => Promise!PromiseInit
  BY DEF Init, Promise!PromiseInit

\* Entering with a user who is, or is being, proved is the promise's EnterAs.
LEMMA EnterIsPromised ==
  ASSUME IInv, NEW u \in Users, Enter(u), running, running' = running,
         proved' \in {proved, proved \cup {u}}, u \in proved'
  PROVE  Promise!PromiseNext
<1>1. u # NoUser
  BY NoUserAssumption
<1>2. /\ hostUser' = u /\ storedUser' = u /\ "tabs" \in shown' /\ running'
  BY <1>1 DEF Enter, Present
<1> QED BY <1>2 DEF Promise!PromiseNext, Promise!EnterAs

\* Dropping the tabs and the stored user is the promise's LeaveSession.
LEMMA LeaveIsPromised ==
  ASSUME Leave, running, running' = running, proved' = proved
  PROVE  Promise!PromiseNext
  BY DEF Leave, Promise!PromiseNext, Promise!LeaveSession

LEMMA PromiseStep ==
  ASSUME IInv, Next
  PROVE  Promise!PromiseNext \/ UNCHANGED Promise!promiseVars
<1> USE DEF disk, server, ui, people, IInv
<1>1. CASE LaunchResync
  <2>1. FirebaseAuthEnabled
    BY <1>1 DEF LaunchResync, NobodyWithoutFirebase
  <2> QED
    BY <1>1, <2>1 DEF LaunchResync, NothingOnScreenWhenDead, Promise!PromiseNext, Promise!Open
<1>2. CASE LaunchFresh
  BY <1>2 DEF LaunchFresh, NothingOnScreenWhenDead, Promise!PromiseNext, Promise!Open
<1>3. CASE FinishWalkthrough
  <2>1. "tabs" \notin shown /\ "tabs" \notin shown'
    BY <1>3 DEF FinishWalkthrough, ScreenMatchesStore
  <2> QED BY <1>3, <2>1 DEF FinishWalkthrough, Promise!promiseVars
<1>4. CASE FlipDone \/ TokenReceived \/ Navigate \/ DismissAlert
  BY <1>4 DEF FlipDone, TokenReceived, Navigate, DismissAlert, Promise!promiseVars
<1>5. CASE TapGuest
  BY <1>5 DEF TapGuest, CanTap, Enter, Present, ScreenMatchesStore,
     Promise!PromiseNext, Promise!EnterAsGuest
<1>6. CASE TapLogout
  BY <1>6, LeaveIsPromised DEF TapLogout, CanTap
<1>7. CASE \E u \in Users : TapCredentials(u) \/ TapFacebook(u) \/ DeleteUser(u)
  BY <1>7 DEF TapCredentials, TapFacebook, DeleteUser, Promise!promiseVars
<1>8. ASSUME NEW s \in Slots, Answer(s) PROVE UNCHANGED Promise!promiseVars
  BY <1>8 DEF Answer, Promise!promiseVars
<1>9. ASSUME NEW s \in Slots, Handler(s)
      PROVE  Promise!PromiseNext \/ UNCHANGED Promise!promiseVars
  <2>1. /\ call[s].op \in Ops => call[s].user \in Users
        /\ {"signIn", "fetch", "signUp", "facebook", "resync"} \subseteq Ops
    BY OutstandingTyped DEF Ops
  <2>2. CASE SignInAccepted(s)
    BY <2>1, <2>2 DEF SignInAccepted, Answered, Proved, Promise!PromiseNext, Promise!Prove
  <2>3. CASE CredentialsRejected(s) \/ FetchDropped(s) \/ DialogClosed(s)
    BY <2>3 DEF CredentialsRejected, FetchDropped, DialogClosed, Promise!promiseVars
  <2>4. CASE FetchCompleted(s)
    BY <2>1, <2>4, EnterIsPromised DEF FetchCompleted, Answered, EverybodyProved
  <2>5. CASE AccountReady(s)
    BY <2>1, <2>5, EnterIsPromised DEF AccountReady, Answered, Proved
  <2>6. CASE ResyncFound(s)
    <3>1. call[s].op = "resync" /\ call[s].user \in Users
      BY <2>1, <2>6 DEF ResyncFound, Answered
    <3>2. call[s].user \in proved
      BY <3>1, NoUserAssumption DEF CallsFitScreen, EverybodyProved
    <3> QED BY <2>6, <3>1, <3>2, EnterIsPromised DEF ResyncFound, Answered
  <2>7. CASE ResyncMissing(s)
    BY <2>7, LeaveIsPromised DEF ResyncMissing, Answered
  <2> QED BY <1>9, <2>2, <2>3, <2>4, <2>5, <2>6, <2>7 DEF Handler
<1>10. CASE Kill
  BY <1>10 DEF Kill, Promise!PromiseNext, Promise!Close
<1> QED
  BY <1>1, <1>2, <1>3, <1>4, <1>5, <1>6, <1>7, <1>8, <1>9, <1>10 DEF Next

\* The session implements the promise: who is inside is who a restart takes
\* back, and nobody is inside under a name never proved on this device.
THEOREM Refinement == Spec => KeepsPromise
<1>1. IInv /\ [Next]_vars => [Promise!PromiseNext]_(Promise!promiseVars)
  <2> SUFFICES ASSUME IInv, [Next]_vars
               PROVE  Promise!PromiseNext \/ UNCHANGED Promise!promiseVars
    OBVIOUS
  <2>1. CASE Next
    BY <2>1, PromiseStep
  <2>2. CASE UNCHANGED vars
    BY <2>2 DEF vars, disk, ui, people, Promise!promiseVars
  <2> QED BY <2>1, <2>2
<1> QED
  BY <1>1, PromiseStart, InvariantHolds, PTL DEF Spec, KeepsPromise, Promise!PromiseSpec

----------------------------------------------------------------------------
(* The forms of the profile tab.                                           *)

LEMMA FormsStepIsSessionStep == [FormsNext]_formVars => [Next]_vars
<1> SUFFICES ASSUME [FormsNext]_formVars PROVE [Next]_vars
  OBVIOUS
<1>1. CASE OpenForm \/ CloseForm
  BY <1>1 DEF OpenForm, CloseForm
<1>2. CASE LogoutOnProfile \/ KillForms
  BY <1>2 DEF LogoutOnProfile, KillForms, Next
<1>3. CASE SessionStep
  BY <1>3 DEF SessionStep, Next
<1>4. CASE UNCHANGED formVars
  BY <1>4 DEF formVars
<1> QED BY <1>1, <1>2, <1>3, <1>4 DEF FormsNext

\* The session with its forms is a session: all of the above holds of it.
THEOREM FormsAreSession == FormsSpec => Spec
<1>1. FormsInit => Init
  BY DEF FormsInit
<1> QED BY <1>1, FormsStepIsSessionStep, PTL DEF FormsSpec, Spec

\* Only a logout or the end of the process takes the tabs away.
LEMMA TabsStay ==
  ASSUME IInv, SessionStep, "tabs" \in shown
  PROVE  "tabs" \in shown'
<1> USE DEF disk, server, ui, people, IInv
<1>1. running /\ \A s \in Slots : call[s].op # "resync"
  BY DEF NothingOnScreenWhenDead, CallsFitScreen
<1>2. CASE LaunchResync \/ LaunchFresh
  BY <1>1, <1>2 DEF LaunchResync, LaunchFresh
<1>3. CASE FinishWalkthrough \/ FlipDone \/ TokenReceived \/ Navigate \/ DismissAlert
  BY <1>3 DEF FinishWalkthrough, FlipDone, TokenReceived, Navigate, DismissAlert
<1>4. CASE TapGuest
  BY <1>4 DEF TapGuest, Enter, Present
<1>5. CASE \E u \in Users : TapCredentials(u) \/ TapFacebook(u) \/ DeleteUser(u)
  BY <1>5 DEF TapCredentials, TapFacebook, DeleteUser
<1>6. ASSUME NEW s \in Slots, Answer(s) PROVE "tabs" \in shown'
  BY <1>6 DEF Answer
<1>7. ASSUME NEW s \in Slots, Handler(s) PROVE "tabs" \in shown'
  <2>1. CASE SignInAccepted(s) \/ CredentialsRejected(s) \/ FetchDropped(s) \/ DialogClosed(s)
    BY <2>1 DEF SignInAccepted, CredentialsRejected, FetchDropped, DialogClosed
  <2>2. CASE FetchCompleted(s) \/ AccountReady(s)
    BY <2>2 DEF FetchCompleted, AccountReady, Enter, Present
  <2>3. CASE ResyncFound(s) \/ ResyncMissing(s)
    BY <1>1, <2>3 DEF ResyncFound, ResyncMissing, Answered
  <2> QED BY <1>7, <2>1, <2>2, <2>3 DEF Handler
<1> QED BY <1>2, <1>3, <1>4, <1>5, <1>6, <1>7 DEF SessionStep

\* overlapped, once true, stays so.
LEMMA OverlapStays == ASSUME Next, overlapped PROVE overlapped'
<1> USE DEF disk, server, ui, people
<1>1. CASE LaunchResync \/ LaunchFresh \/ FinishWalkthrough \/ FlipDone \/ TokenReceived
  BY <1>1 DEF LaunchResync, LaunchFresh, FinishWalkthrough, FlipDone, TokenReceived
<1>2. CASE Navigate \/ DismissAlert \/ TapGuest \/ TapLogout \/ Kill
  BY <1>2 DEF Navigate, DismissAlert, TapGuest, TapLogout, Kill
<1>3. CASE \E u \in Users : TapCredentials(u) \/ TapFacebook(u) \/ DeleteUser(u)
  BY <1>3 DEF TapCredentials, TapFacebook, DeleteUser, Start
<1>4. CASE \E s \in Slots : Answer(s) \/ Handler(s)
  BY <1>4 DEF Answer, Handler, SignInAccepted, CredentialsRejected, FetchCompleted,
     FetchDropped, AccountReady, DialogClosed, ResyncFound, ResyncMissing
<1> QED BY <1>1, <1>2, <1>3, <1>4 DEF Next

\* Only without Firebase is there a guest, and then the app never had a user.
GuestsLeaveNoUser ==
  IF FirebaseAuthEnabled THEN "tabs" \in shown => hostUser # NoUser ELSE appUser = NoUser

LEMMA EnterNamesHost ==
  ASSUME NEW u \in Users, Enter(u), FirebaseAuthEnabled
  PROVE  GuestsLeaveNoUser'
<1>1. hostUser' = u /\ u # NoUser
  BY NoUserAssumption DEF Enter
<1> QED BY <1>1 DEF GuestsLeaveNoUser

LEMMA GuestStep ==
  ASSUME IInv, GuestsLeaveNoUser, [Next]_vars
  PROVE  GuestsLeaveNoUser'
<1> USE DEF disk, server, ui, people, IInv
<1>1. CASE LaunchResync
  <2>1. FirebaseAuthEnabled
    BY <1>1 DEF LaunchResync, NobodyWithoutFirebase
  <2> QED BY <1>1, <2>1 DEF LaunchResync, NothingOnScreenWhenDead, GuestsLeaveNoUser
<1>2. CASE LaunchFresh \/ Kill
  BY <1>2 DEF LaunchFresh, Kill, GuestsLeaveNoUser
<1>3. CASE FinishWalkthrough \/ FlipDone \/ TokenReceived \/ Navigate \/ DismissAlert
  BY <1>3 DEF FinishWalkthrough, FlipDone, TokenReceived, Navigate, DismissAlert, GuestsLeaveNoUser
<1>4. CASE TapGuest
  BY <1>4 DEF TapGuest, Enter, GuestsLeaveNoUser
<1>5. CASE TapLogout
  BY <1>5 DEF TapLogout, Leave, GuestsLeaveNoUser
<1>6. CASE \E u \in Users : TapCredentials(u) \/ TapFacebook(u) \/ DeleteUser(u)
  BY <1>6 DEF TapCredentials, TapFacebook, DeleteUser, GuestsLeaveNoUser
<1>7. ASSUME NEW s \in Slots, Answer(s) PROVE GuestsLeaveNoUser'
  BY <1>7 DEF Answer, GuestsLeaveNoUser
<1>8. ASSUME NEW s \in Slots, Handler(s) PROVE GuestsLeaveNoUser'
  <2>1. call[s].op \in Ops => call[s].user \in Users
    BY OutstandingTyped
  <2>2. {"signIn", "fetch", "signUp", "facebook", "resync"} \subseteq Ops
    BY DEF Ops
  <2>3. CASE SignInAccepted(s) \/ CredentialsRejected(s) \/ FetchDropped(s) \/ DialogClosed(s)
    BY <2>3 DEF SignInAccepted, CredentialsRejected, FetchDropped, DialogClosed, GuestsLeaveNoUser
  <2>4. CASE ResyncMissing(s)
    BY <2>4 DEF ResyncMissing, Leave, GuestsLeaveNoUser
  <2>5. CASE FetchCompleted(s) \/ AccountReady(s) \/ ResyncFound(s)
    <3>1. /\ call[s].op \in {"fetch", "signUp", "facebook", "resync"}
          /\ Enter(call[s].user)
      BY <2>5 DEF FetchCompleted, AccountReady, ResyncFound, Answered
    <3>2. FirebaseAuthEnabled
      BY <3>1 DEF NobodyWithoutFirebase
    <3> QED BY <2>1, <2>2, <3>1, <3>2, EnterNamesHost
  <2> QED BY <1>8, <2>3, <2>4, <2>5 DEF Handler
<1>9. CASE UNCHANGED vars
  BY <1>9 DEF vars, GuestsLeaveNoUser
<1> QED BY <1>1, <1>2, <1>3, <1>4, <1>5, <1>6, <1>7, <1>8, <1>9 DEF Next

LEMMA FormStep ==
  ASSUME IInv, IInv', GuestsLeaveNoUser, formUser \in MaybeUser, FormBelongsToSession, [FormsNext]_formVars
  PROVE  formUser' \in MaybeUser /\ FormBelongsToSession'
<1> USE DEF FormBelongsToSession
<1>1. CASE OpenForm
  <2>1. UNCHANGED vars /\ formUser' = appUser /\ "tabs" \in shown /\ running
    BY <1>1 DEF OpenForm, CanTap
  <2>2. appUser \in MaybeUser
    BY DEF IInv, TypeOK
  <2>3. UNCHANGED <<shown, overlapped, hostUser, authUser>>
    BY <2>1 DEF vars, disk, ui, people
  <2>4. CASE hostUser # NoUser
    <3>1. appUser = hostUser
      BY <2>1, <2>4 DEF IInv, OneUserEverywhere
    <3>2. ~overlapped => authUser = hostUser
      BY <2>1, <2>4 DEF IInv, ScreenMatchesStore, OneCallUnlessOverlapped
    <3> QED BY <2>1, <2>2, <2>3, <3>1, <3>2
  <2>5. CASE hostUser = NoUser
    <3>1. appUser = NoUser
      BY <2>1, <2>5 DEF GuestsLeaveNoUser
    <3> QED BY <2>1, <2>2, <3>1
  <2> QED BY <2>4, <2>5
<1>2. CASE CloseForm \/ LogoutOnProfile \/ KillForms
  BY <1>2 DEF CloseForm, LogoutOnProfile, KillForms, MaybeUser
<1>3. CASE SessionStep
  <2>1. formUser' = formUser /\ Next
    BY <1>3 DEF SessionStep, Next
  <2>2. CASE formUser = NoUser
    BY <2>1, <2>2
  <2>3. CASE formUser # NoUser
    <3>1. "tabs" \in shown /\ "tabs" \in shown'
      BY <1>3, <2>3, TabsStay
    <3>2. ASSUME ~overlapped' PROVE formUser' = hostUser' /\ formUser' = authUser'
      <4>1. ~overlapped
        BY <2>1, <3>2, OverlapStays
      <4>2. hostUser' = hostUser /\ formUser' = hostUser'
        BY <2>1, <2>3, <3>1, <4>1, HostUserKept
      <4>3. authUser' = hostUser'
        BY <2>1, <2>3, <3>1, <3>2, <4>2 DEF IInv, ScreenMatchesStore, OneCallUnlessOverlapped
      <4> QED BY <4>2, <4>3
    <3> QED BY <2>1, <3>1, <3>2
  <2> QED BY <2>2, <2>3
<1>4. CASE UNCHANGED formVars
  BY <1>4 DEF formVars, vars, disk, ui, people
<1> QED BY <1>1, <1>2, <1>3, <1>4 DEF FormsNext

\* A form never outlives its session, for any number of users and calls.
THEOREM FormOwner == FormsSpec => []FormBelongsToSession
<1> DEFINE FInv == GuestsLeaveNoUser /\ formUser \in MaybeUser /\ FormBelongsToSession
<1>1. FormsInit => FInv
  BY DEF FormsInit, Init, FormBelongsToSession, MaybeUser, GuestsLeaveNoUser
<1>2. IInv /\ IInv' /\ FInv /\ [FormsNext]_formVars => FInv'
  BY FormStep, GuestStep, FormsStepIsSessionStep
<1>3. FInv => FormBelongsToSession
  OBVIOUS
<1> HIDE DEF FInv
<1> QED BY <1>1, <1>2, <1>3, FormsAreSession, InvariantHolds, PTL DEF FormsSpec

----------------------------------------------------------------------------
(* The pages of the walkthrough.                                           *)

\* Pages come in one after the other, so those up to the current one were seen.
PagesInv ==
  /\ page \in Pages
  /\ pending \in {page} \cup (Neighbours(page) \ {Fake})
  /\ DotTellsPage
  /\ 0..page \subseteq seen
  /\ seen \subseteq Pages

LEMMA NeighbourFacts ==
  ASSUME NEW p \in Pages, NEW q \in Neighbours(p) \ {Fake}
  PROVE  q \in Pages /\ q \in {p - 1, p + 1}
  BY PagesAssumption DEF Pages, Neighbours, Fake

LEMMA FirstPageInv == FirstPage => PagesInv'
  BY PagesAssumption DEF FirstPage, PagesInv, Pages, DotTellsPage

LEMMA PagesStep ==
  ASSUME PagesInv, [WalkNext]_walkVars
  PROVE  PagesInv'
<1> USE PagesAssumption DEF PagesInv, DotTellsPage
<1>1. ASSUME NEW p \in Pages, Swipe(p) PROVE PagesInv'
  <2>1. UNCHANGED <<page, dot, tapped, seen>> /\ pending' = p /\ p \in Neighbours(page) \ {Fake}
    BY <1>1 DEF Swipe
  <2>2. Neighbours(page)' = Neighbours(page)
    BY <2>1 DEF Neighbours
  <2> QED BY <2>1, <2>2
<1>2. CASE SwipeToFake
  BY <1>2 DEF SwipeToFake
<1>3. CASE Arrive
  <2>1. /\ page' = pending /\ pending' = page' /\ dot' = page'
        /\ seen' = seen \cup {pending}
        /\ pending \in Neighbours(page) \ {Fake}
    BY <1>3 DEF Arrive
  <2>2. pending \in Pages /\ pending \in {page - 1, page + 1}
    BY <2>1, NeighbourFacts
  <2>3. 0..page' \subseteq seen'
    BY <2>1, <2>2 DEF Pages
  <2> QED BY <2>1, <2>2, <2>3
<1>4. CASE TakenBack
  BY <1>4 DEF TakenBack
<1>5. CASE TapDots
  <2>1. UNCHANGED <<page, pending, seen>> /\ tapped'
    BY <1>5 DEF TapDots
  <2>2. Neighbours(page)' = Neighbours(page)
    BY <2>1 DEF Neighbours
  <2> QED BY <2>1, <2>2
<1>6. CASE KillPages
  BY <1>6, FirstPageInv DEF KillPages
<1>7. CASE OtherStep \/ UNCHANGED walkVars
  <2>1. UNCHANGED pageVars
    BY <1>7 DEF OtherStep, walkVars
  <2>2. Neighbours(page)' = Neighbours(page)
    BY <2>1 DEF Neighbours, pageVars
  <2> QED BY <2>1, <2>2 DEF pageVars
<1> QED BY <1>1, <1>2, <1>3, <1>4, <1>5, <1>6, <1>7 DEF WalkNext

LEMMA PagesHold == WalkSpec => []PagesInv
<1>1. WalkInit => PagesInv
  BY PagesAssumption DEF WalkInit, PagesInv, Pages, DotTellsPage
<1> QED BY <1>1, PagesStep, PTL DEF WalkSpec

\* The dots tell the page for any number of pages.
THEOREM DotIsTrue == WalkSpec => []DotTellsPage
<1>1. PagesInv => DotTellsPage
  BY DEF PagesInv
<1> QED BY <1>1, PagesHold, PTL

\* Only SwipeToFake completes the walkthrough.
LEMMA OthersKeepWalkthrough ==
  ASSUME [WalkNext]_walkVars, ~SwipeToFake
  PROVE  walkthroughDone' = walkthroughDone
<1> USE DEF disk, vars
<1>1. CASE (\E p \in Pages : Swipe(p)) \/ Arrive \/ TakenBack \/ TapDots \/ KillPages
  BY <1>1 DEF Swipe, Arrive, TakenBack, TapDots, KillPages, Kill
<1>2. CASE OtherStep
  <2>1. CASE LaunchResync \/ LaunchFresh \/ FlipDone \/ TokenReceived
    BY <2>1 DEF LaunchResync, LaunchFresh, FlipDone, TokenReceived
  <2>2. CASE Navigate \/ DismissAlert \/ TapGuest \/ TapLogout
    BY <2>2 DEF Navigate, DismissAlert, TapGuest, TapLogout
  <2>3. CASE \E u \in Users : TapCredentials(u) \/ TapFacebook(u) \/ DeleteUser(u)
    BY <2>3 DEF TapCredentials, TapFacebook, DeleteUser
  <2>4. CASE \E s \in Slots : Answer(s) \/ Handler(s)
    BY <2>4 DEF Answer, Handler, SignInAccepted, CredentialsRejected, FetchCompleted,
       FetchDropped, AccountReady, DialogClosed, ResyncFound, ResyncMissing
  <2> QED BY <1>2, <2>1, <2>2, <2>3, <2>4 DEF OtherStep
<1>3. CASE UNCHANGED walkVars
  BY <1>3 DEF walkVars
<1> QED BY <1>1, <1>2, <1>3 DEF WalkNext

\* Nobody completes the walkthrough without having seen every page.
THEOREM NoPageSkipped == WalkSpec => CompletedWhenSeen
<1>1. PagesInv /\ [WalkNext]_walkVars => [walkthroughDone' # walkthroughDone => seen = Pages]_walkVars
  <2> SUFFICES ASSUME PagesInv, SwipeToFake PROVE seen = Pages
    BY OthersKeepWalkthrough
  <2>1. page = LastPage
    BY PagesAssumption DEF SwipeToFake, Neighbours, PagesInv, Fake, Pages
  <2> QED BY <2>1, PagesAssumption DEF PagesInv, Pages
<1> QED BY <1>1, PagesHold, PTL DEF WalkSpec, CompletedWhenSeen

=============================================================================
