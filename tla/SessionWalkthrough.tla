------------------------- MODULE SessionWalkthrough -------------------------
(***************************************************************************)
(* The pages of the walkthrough (ATCWalkthroughViewController) in front of *)
(* the session. A page controller asks for the neighbours of a page, says  *)
(* when a swipe begins and when it has settled; behind the last page lies  *)
(* a false one, and beginning to swipe to it ends the walkthrough.         *)
(***************************************************************************)
EXTENDS Session

CONSTANT LastPage  \* the index of the last page; the first is page 0

ASSUME PagesAssumption == LastPage \in Nat

Pages == 0..LastPage
Fake  == LastPage + 1  \* fakeVC

VARIABLES
  page,    \* the page controller's current page
  pending, \* the page a swipe is bringing in, the current one when at rest
  dot,     \* pageControl.currentPage
  tapped,  \* history: the dots were touched since the last page came in
  seen     \* history: the pages that were on screen since the launch

pageVars == <<page, pending, dot, tapped, seen>>
walkVars == <<vars, pageVars>>

FirstPage ==
  /\ page' = 0
  /\ pending' = 0
  /\ dot' = 0
  /\ tapped' = FALSE
  /\ seen' = {0}

WalkInit ==
  /\ Init
  /\ page = 0
  /\ pending = 0
  /\ dot = 0
  /\ tapped = FALSE
  /\ seen = {0}

\* Mutant: the false page follows the last page but one.
MutantNeighboursShort(p) ==
  (IF p = 0 THEN {} ELSE {p - 1}) \cup
  (IF p + 2 > LastPage THEN {Fake} ELSE {p + 1})

\* viewControllerBefore and viewControllerAfter
Neighbours(p) ==
  (IF p = 0 THEN {} ELSE {p - 1}) \cup
  (IF p + 1 > LastPage THEN {Fake} ELSE {p + 1})

\* willTransitionTo for a page. A finger that turns round in mid-swipe brings
\* in the other neighbour.
Swipe(p) ==
  /\ running
  /\ "walkthrough" \in shown
  /\ p \in Neighbours(page) \ {pending, Fake}
  /\ pending' = p
  /\ UNCHANGED <<vars, page, dot, tapped, seen>>

\* willTransitionTo for fakeVC: the page controller is removed, before anyone
\* knows whether the swipe would have been taken back.
SwipeToFake ==
  /\ Fake \in Neighbours(page)
  /\ FinishWalkthrough
  /\ pending' = page
  /\ UNCHANGED <<page, dot, tapped, seen>>

\* didFinishAnimating with completed.
Arrive ==
  /\ running
  /\ "walkthrough" \in shown
  /\ pending # page
  /\ page' = pending
  /\ dot' = pending
  /\ tapped' = FALSE
  /\ seen' = seen \cup {pending}
  /\ UNCHANGED <<vars, pending>>

\* didFinishAnimating without: the swipe was taken back.
TakenBack ==
  /\ running
  /\ "walkthrough" \in shown
  /\ pending # page
  /\ pending' = page
  /\ UNCHANGED <<vars, page, dot, tapped, seen>>

\* The dots are a control that moves when touched; nothing listens to it.
TapDots ==
  /\ running
  /\ "walkthrough" \in shown
  /\ dot' \in {dot - 1, dot + 1} \cap Pages
  /\ tapped' = TRUE
  /\ UNCHANGED <<vars, page, pending, seen>>

KillPages == Kill /\ FirstPage

\* Nothing else touches the pages.
OtherStep ==
  /\ \/ LaunchResync \/ LaunchFresh
     \/ FlipDone \/ TokenReceived
     \/ Navigate \/ DismissAlert \/ TapGuest \/ TapLogout
     \/ \E u \in Users : TapCredentials(u) \/ TapFacebook(u) \/ DeleteUser(u)
     \/ \E s \in Slots : Answer(s) \/ Handler(s)
  /\ UNCHANGED pageVars

WalkNext ==
  \/ \E p \in Pages : Swipe(p)
  \/ SwipeToFake \/ Arrive \/ TakenBack \/ TapDots
  \/ KillPages \/ OtherStep

WalkSpec == WalkInit /\ [][WalkNext]_walkVars

\* Nobody is obliged to swipe.
FairWalkSpec == WalkSpec /\ Fairness

----------------------------------------------------------------------------
\* The dots tell the page, also after swipes that were taken back or turned
\* round, unless somebody touched the dots themselves.
DotTellsPage == ~tapped => dot = page

\* Nobody is spared a page: the walkthrough is marked as completed, which is
\* for ever, only when every page was on screen since the launch, however the
\* swipes went and however often the app was ended in between.
CompletedWhenSeen == [][walkthroughDone' # walkthroughDone => seen = Pages]_walkVars

=============================================================================
