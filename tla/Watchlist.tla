------------------------------ MODULE Watchlist ------------------------------
(***************************************************************************)
(* The watchlist: an array of assets archived under one UserDefaults key   *)
(* (ATCDiskPersistenceStore), the star on an asset's screen that edits it  *)
(* (AssetDetailsViewController) and the screen that lists it               *)
(* (WatchlistViewController). The list is read once, when its screen is    *)
(* made, and is not read again when the user comes back to it from an      *)
(* asset. The screens are pushed on one navigation stack, the list below   *)
(* the asset.                                                              *)
(*                                                                         *)
(* An asset is its ticker, by which the store compares assets.             *)
(***************************************************************************)
EXTENDS Integers, Sequences

CONSTANTS
  Assets,   \* the tickers
  NoAsset,  \* no asset's screen is open
  NoList    \* nothing was ever written under the key

ASSUME NoAssetAssumption == NoAsset \notin Assets
ASSUME NoListAssumption == NoList \notin Seq(Assets)

VARIABLES
  stored,   \* UserDefaults, asset_watchlist
  listed,   \* the list's screen is open
  rows,     \* its data source; NoList when it has none
  spinner,  \* its activity indicator is animating
  asset,    \* the asset whose screen is on top
  filled,   \* the star of that screen is the filled one
  flipped,  \* history: assets whose star was tapped an odd number of times
            \* since the list was last opened
  tapped,   \* history: a star was ever tapped
  unused    \* history: none had been when the list was last opened

list == <<listed, rows, spinner>>
star == <<asset, filled>>
history == <<flipped, tapped, unused>>
vars == <<stored, list, star, history>>

MaybeList == Seq(Assets) \cup {NoList}

TypeOK ==
  /\ stored \in MaybeList
  /\ listed \in BOOLEAN
  /\ rows \in MaybeList
  /\ spinner \in BOOLEAN
  /\ asset \in Assets \cup {NoAsset}
  /\ filled \in BOOLEAN
  /\ flipped \subseteq Assets
  /\ tapped \in BOOLEAN
  /\ unused \in BOOLEAN

Init ==
  /\ stored = NoList
  /\ listed = FALSE
  /\ rows = NoList
  /\ spinner = FALSE
  /\ asset = NoAsset
  /\ filled = FALSE
  /\ flipped = {}
  /\ tapped = FALSE
  /\ unused = TRUE

----------------------------------------------------------------------------
(* The store.                                                              *)

Positions(s, a) == {i \in 1..Len(s) : s[i] = a}

Elements(s) == IF s = NoList THEN {} ELSE {s[i] : i \in 1..Len(s)}

\* contains(object:)
Contains(s, a) == s # NoList /\ Positions(s, a) # {}

\* append(object:)
Add(s, a) == IF s = NoList THEN <<a>> ELSE Append(s, a)

Without(s, i) == SubSeq(s, 1, i - 1) \o SubSeq(s, i + 1, Len(s))

\* Mutant: the index is counted from one and used from zero.
MutantRemoveNext(s, a) ==
  LET i == CHOOSE i \in Positions(s, a) : \A j \in Positions(s, a) : j <= i
  IN  Without(s, IF i = Len(s) THEN 1 ELSE i + 1)

\* remove(object:) takes out the last asset with the same ticker.
Remove(s, a) ==
  Without(s, CHOOSE i \in Positions(s, a) : \A j \in Positions(s, a) : j <= i)

----------------------------------------------------------------------------
(* The screens.                                                            *)

\* The histories: taps are counted from here.
Opened ==
  /\ flipped' = {}
  /\ unused' = ~tapped
  /\ UNCHANGED tapped

\* Mutant: a list that was emptied is taken for one that was never written.
MutantOpenListEmptyIsNil ==
  /\ ~listed
  /\ asset = NoAsset
  /\ listed' = TRUE
  /\ rows' = IF stored = <<>> THEN NoList ELSE stored
  /\ spinner' = (rows' = NoList)
  /\ Opened
  /\ UNCHANGED <<stored, star>>

\* WatchlistViewController.init reads the store; viewDidLoad starts the
\* spinner, which the data source's didLoadFirst stops, if there is one.
OpenList ==
  /\ ~listed
  /\ asset = NoAsset
  /\ listed' = TRUE
  /\ rows' = stored
  /\ spinner' = (rows' = NoList)
  /\ Opened
  /\ UNCHANGED <<stored, star>>

\* configureWatchlistButton, on the way to an asset from the list or, when it
\* is not open, from the lists and searches of all assets.
OpenAsset(a) ==
  /\ asset = NoAsset
  /\ listed => a \in Elements(rows)
  /\ asset' = a
  /\ filled' = Contains(stored, a)
  /\ UNCHANGED <<stored, list, history>>

Tapped ==
  /\ flipped' = IF asset \in flipped THEN flipped \ {asset} ELSE flipped \cup {asset}
  /\ tapped' = TRUE
  /\ UNCHANGED unused

\* Mutant: the store works on the array that the open list has read.
MutantTapStarCached ==
  LET known == IF rows # NoList THEN rows ELSE stored
  IN  /\ asset # NoAsset
      /\ stored' = IF Contains(stored, asset)
                     THEN Remove(known, asset) ELSE Add(known, asset)
      /\ filled' = Contains(stored', asset)
      /\ Tapped
      /\ UNCHANGED <<list, asset>>

\* didTapWatchlistButton
TapStar ==
  /\ asset # NoAsset
  /\ stored' = IF Contains(stored, asset)
                 THEN Remove(stored, asset) ELSE Add(stored, asset)
  /\ filled' = Contains(stored', asset)
  /\ Tapped
  /\ UNCHANGED <<list, asset>>

\* The navigation bar's back button pops the top screen.
Back ==
  /\ listed \/ asset # NoAsset
  /\ IF asset # NoAsset
       THEN asset' = NoAsset /\ filled' = FALSE /\ UNCHANGED list
       ELSE listed' = FALSE /\ rows' = NoList /\ spinner' = FALSE /\ UNCHANGED star
  /\ UNCHANGED <<stored, history>>

\* The process dies with its screens; what is stored stays.
Kill ==
  /\ listed' = FALSE
  /\ rows' = NoList
  /\ spinner' = FALSE
  /\ asset' = NoAsset
  /\ filled' = FALSE
  /\ UNCHANGED <<stored, history>>

Next == OpenList \/ TapStar \/ Back \/ Kill \/ \E a \in Assets : OpenAsset(a)

Spec == Init /\ [][Next]_vars

----------------------------------------------------------------------------
(* Properties.                                                             *)

\* No asset is on the list twice, so the one place remove(object:) takes out
\* is all there is of it.
EachOnce ==
  stored # NoList => \A i, j \in 1..Len(stored) : stored[i] = stored[j] => i = j

\* The star tells what is stored, on every screen and after every tap, also
\* on a screen opened from a row that the list should no longer have.
StarTellsTruth == asset # NoAsset => (filled <=> asset \in Elements(stored))

\* The open list is never short of an asset that is on the watchlist, although
\* it is not read again: its rows are the assets stored and, besides, exactly
\* those whose star was taken away since it was opened and not given back.
ListLagsByTaps ==
  listed => /\ flipped \subseteq Elements(rows)
            /\ Elements(stored) = Elements(rows) \ flipped

\* The spinner, which nothing stops when the list has no data source, runs only
\* for a user who had never tapped a star when the list was opened, and not for
\* one who has taken every asset off the list again, in this launch or another.
SpinnerMeansUnused == listed => (spinner <=> unused)

\* What the two rest on: an asset seen while the list is open was opened from
\* one of its rows, and the key is empty only before the first tap.
OpenedFromRow == listed /\ asset # NoAsset => asset \in Elements(rows)
WrittenByTap == stored = NoList <=> ~tapped

\* The inductive invariant.
IInv ==
  /\ TypeOK
  /\ EachOnce
  /\ StarTellsTruth
  /\ ListLagsByTaps
  /\ SpinnerMeansUnused
  /\ OpenedFromRow
  /\ WrittenByTap

\* The array is a set to its user: a tap adds or removes the asset of the
\* screen and no other.
Watch == INSTANCE WatchSet WITH watched <- Elements(stored), viewed <- asset

IsWatchSet == Watch!WatchSpec

=============================================================================
