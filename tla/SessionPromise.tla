--------------------------- MODULE SessionPromise ---------------------------
(***************************************************************************)
(* What the app promises about a session, with no screens, no calls and no *)
(* store: who is inside, who would be taken back inside after a restart,   *)
(* and that nobody gets inside under a name they never proved.             *)
(***************************************************************************)
CONSTANTS Users, NoUser

VARIABLES
  place,    \* "closed", "outside" or "inside"
  occupant, \* the user inside; NoUser for a guest and when nobody is
  account,  \* the user a restart would take back inside
  proved    \* the users who proved their credentials on this device

promiseVars == <<place, occupant, account, proved>>

PromiseInit ==
  /\ place = "closed"
  /\ occupant = NoUser
  /\ account = NoUser
  /\ proved = {}

Open ==
  /\ place = "closed"
  /\ place' = "outside"
  /\ UNCHANGED <<occupant, account, proved>>

Close ==
  /\ place # "closed"
  /\ place' = "closed"
  /\ occupant' = NoUser
  /\ UNCHANGED <<account, proved>>

Prove(u) ==
  /\ place # "closed"
  /\ proved' = proved \cup {u}
  /\ UNCHANGED <<place, occupant, account>>

\* Entering and becoming the one a restart takes back are one step.
EnterAs(u) ==
  /\ proved' \in {proved, proved \cup {u}}
  /\ u \in proved'
  /\ place' = "inside"
  /\ occupant' = u
  /\ account' = u

EnterAsGuest ==
  /\ account = NoUser
  /\ place' = "inside"
  /\ occupant' = NoUser
  /\ UNCHANGED <<account, proved>>

\* Leaving also forgets the account; it may happen before anyone is inside,
\* when the account turns out to be gone.
LeaveSession ==
  /\ place # "closed"
  /\ place' = "outside"
  /\ occupant' = NoUser
  /\ account' = NoUser
  /\ UNCHANGED proved

PromiseNext ==
  \/ Open \/ Close \/ EnterAsGuest \/ LeaveSession
  \/ \E u \in Users : Prove(u) \/ EnterAs(u)

PromiseSpec == PromiseInit /\ [][PromiseNext]_promiseVars

=============================================================================
