------------------------------- MODULE WatchSet -------------------------------
(***************************************************************************)
(* What a watchlist promises: a set of assets from which the star of the   *)
(* asset being viewed takes that asset, or to which it adds it, and which  *)
(* nothing else changes.                                                   *)
(***************************************************************************)
CONSTANTS Assets, NoAsset

VARIABLES
  watched,  \* the assets on the watchlist
  viewed    \* the asset on screen

watchVars == <<watched, viewed>>

WatchInit == watched = {} /\ viewed = NoAsset

View ==
  /\ viewed' \in Assets \cup {NoAsset}
  /\ UNCHANGED watched

Toggle ==
  /\ viewed \in Assets
  /\ watched' = IF viewed \in watched THEN watched \ {viewed} ELSE watched \cup {viewed}
  /\ UNCHANGED viewed

WatchNext == View \/ Toggle

WatchSpec == WatchInit /\ [][WatchNext]_watchVars

=============================================================================
