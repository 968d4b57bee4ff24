------------------------------- MODULE Paging -------------------------------
(***************************************************************************)
(* One screen that shows a paged REST feed: the data source                *)
(* (ATCGenericRestAPIDataSource), the collection view controller that      *)
(* drives it (ATCGenericCollectionViewController) and the collection view, *)
(* which counts its rows itself and checks every insertion against that    *)
(* count.                                                                  *)
(*                                                                         *)
(* The feed is outside the repository: items are numbered in the order of  *)
(* publication, pages run from the newest item backwards, and a refresh    *)
(* asks for the newest page again. Items published between two requests    *)
(* push older ones onto later pages, which is why the data source drops    *)
(* duplicates. A request is answered in a step of its own and its handler  *)
(* runs on the main queue later.                                           *)
(***************************************************************************)
EXTENDS Integers, SequencesExt

CONSTANTS
  PageSize,    \* items the service puts on a page
  MaxItem,     \* bound: items ever published
  MaxPage      \* bound: pages a screen asks for

ASSUME BoundsAssumption == PageSize \in Nat \ {0} /\ MaxItem \in Nat /\ MaxPage \in Nat

Kinds == {"first", "bottom", "top"}
Replies == {"unsent", "waiting", "list", "notAList", "error"}

VARIABLES
  published,      \* the service: items 1..published exist
  loaded,         \* viewDidLoad has run
  store,          \* ATCGenericRestAPIDataSource.store
  currentPage,    \* .currentPage
  ended,          \* .bottomStreamLoadingEnded
  loadingBottom,  \* .isLoadingBottom
  loadingTop,     \* .isLoadingTop
  request,        \* the outstanding request of each kind
  rows,           \* the rows the collection view believes it has
  stale,          \* reloadData was called and the layout pass is to come
  spinner,        \* activityIndicator is animating
  refreshing,     \* refreshControl is refreshing
  overlapped,     \* history: a request was sent with another outstanding
  malformed,      \* history: an answer was JSON but not a list
  failed,         \* history: the kinds whose request failed
  newest,         \* history: the newest item when page 0 was answered
  reached         \* history: items newest..reached+1 were on answered pages

flags   == <<ended, loadingBottom, loadingTop>>
view    == <<rows, stale, spinner, refreshing>>
history == <<overlapped, malformed, failed, newest, reached>>
vars    == <<published, loaded, store, currentPage, flags, request, view, history>>

Unsent == [page |-> 0, reply |-> "unsent", at |-> 0]

TypeOK ==
  /\ published \in 0..MaxItem
  /\ loaded \in BOOLEAN
  /\ store \in Seq(1..MaxItem)
  /\ currentPage \in Nat
  /\ <<ended, loadingBottom, loadingTop>> \in BOOLEAN \X BOOLEAN \X BOOLEAN
  /\ request \in [Kinds -> [page : Nat, reply : Replies, at : 0..MaxItem]]
  /\ rows \in Nat
  /\ <<stale, spinner, refreshing>> \in BOOLEAN \X BOOLEAN \X BOOLEAN
  /\ overlapped \in BOOLEAN
  /\ malformed \in BOOLEAN
  /\ failed \subseteq Kinds
  /\ newest \in 0..MaxItem
  /\ reached \in 0..MaxItem

\* A screen is opened with a data source of its own and lives until it is left.
Init ==
  /\ published \in 0..MaxItem
  /\ loaded = FALSE
  /\ store = <<>>
  /\ currentPage = 0
  /\ ended = FALSE
  /\ loadingBottom = FALSE
  /\ loadingTop = FALSE
  /\ request = [k \in Kinds |-> Unsent]
  /\ rows = 0
  /\ stale = FALSE
  /\ spinner = FALSE
  /\ refreshing = FALSE
  /\ overlapped = FALSE
  /\ malformed = FALSE
  /\ failed = {}
  /\ newest = 0
  /\ reached = 0

----------------------------------------------------------------------------
(* The service and the network.                                            *)

\* The n items that exist, without those on the pages before page p.
Left(p, n) == IF n > p * PageSize THEN n - p * PageSize ELSE 0

\* Page p of the feed when n items exist, newest item first.
Page(p, n) == [i \in 1..Left(p, n) - Left(p + 1, n) |-> Left(p, n) + 1 - i]

Publish ==
  /\ published < MaxItem
  /\ published' = published + 1
  /\ UNCHANGED <<loaded, store, currentPage, flags, request, view, history>>

Answer(k) ==
  /\ request[k].reply = "waiting"
  /\ \E r \in {"list", "notAList", "error"} :
       request' = [request EXCEPT ![k] =
                     [page |-> request[k].page, reply |-> r, at |-> published]]
  /\ UNCHANGED <<published, loaded, store, currentPage, flags, view, history>>

----------------------------------------------------------------------------
(* The data source.                                                        *)

Outstanding(k) == request[k] # Unsent

Send(k, p) ==
  /\ request' = [request EXCEPT ![k] = [page |-> p, reply |-> "waiting", at |-> 0]]
  /\ overlapped' = (overlapped \/ \E j \in Kinds : Outstanding(j))
  /\ UNCHANGED <<malformed, failed, newest, reached>>

\* retrieveListFromJSON: JSON that is not a list is a success without objects.
Objects(k) ==
  IF request[k].reply = "list" THEN Page(request[k].page, request[k].at) ELSE <<>>

\* Mutant: without findStreamObject.
MutantUnseenKeepsAll(k) == Objects(k)

\* Mutant: a page that was seen in part is taken for seen.
MutantUnseenWholePages(k) ==
  IF \E i \in DOMAIN Objects(k) : Objects(k)[i] \in Range(store) THEN <<>> ELSE Objects(k)

\* The store, as the loop over an answer's objects has extended it, holds x.
FindStreamObject(x, added) == x \in Range(store \o added)

\* The loop over the objects of an answer: those that are not found.
Unseen(k) ==
  LET results[i \in 0..Len(Objects(k))] ==
        IF i = 0 THEN <<>>
        ELSE IF FindStreamObject(Objects(k)[i], results[i - 1]) THEN results[i - 1]
        ELSE Append(results[i - 1], Objects(k)[i])
  IN results[Len(Objects(k))]

\* The handler of an answer that is not an error runs.
Succeeds(k) ==
  /\ request[k].reply \in {"list", "notAList"}
  /\ request' = [request EXCEPT ![k] = Unsent]
  /\ store' = store \o Unseen(k)
  /\ malformed' = (malformed \/ request[k].reply = "notAList")
  /\ UNCHANGED <<published, loaded, overlapped, failed>>

\* History: pages in sequence reach further down the feed.
Reach(k) ==
  IF Objects(k) = <<>> THEN UNCHANGED <<newest, reached>>
  ELSE /\ newest' = IF newest = 0 THEN Head(Objects(k)) ELSE newest
       /\ reached' = IF newest = 0 \/ Last(Objects(k)) <= reached
                       THEN Last(Objects(k)) - 1 ELSE reached

----------------------------------------------------------------------------
(* The controller and the collection view.                                 *)

ViewDidLoad ==
  /\ ~loaded
  /\ loaded' = TRUE
  /\ spinner' = TRUE
  /\ Send("first", 0)
  /\ UNCHANGED <<published, store, currentPage, flags, rows, stale, refreshing>>

\* didPullToRefresh. The control does not fire again while it is refreshing.
\* loadTop's own guard is therefore never the one that stops a refresh.
PullToRefresh ==
  /\ loaded
  /\ ~refreshing
  /\ ~loadingTop
  /\ refreshing' = TRUE
  /\ loadingTop' = TRUE
  /\ Send("top", 0)
  /\ UNCHANGED <<published, loaded, store, currentPage, ended, loadingBottom,
                 rows, stale, spinner>>

\* The layout pass after reloadData asks for the number of rows again.
Layout ==
  /\ stale
  /\ stale' = FALSE
  /\ rows' = Len(store)
  /\ UNCHANGED <<published, loaded, store, currentPage, flags, request, spinner,
                 refreshing, history>>

\* willDisplay of the last row calls loadBottom.
LastRowDisplayed ==
  /\ rows > 0
  /\ ~stale
  /\ rows >= Len(store)
  /\ ~loadingBottom
  /\ ~ended
  /\ currentPage < MaxPage
  /\ loadingBottom' = TRUE
  /\ Send("bottom", currentPage)
  /\ UNCHANGED <<published, loaded, store, currentPage, ended, loadingTop, view>>

----------------------------------------------------------------------------
(* The completion handlers of the three requests.                          *)

\* Mutant: an answer without anything new is taken for the end.
MutantEndIfNothingNew(k) == ended' = (ended \/ Unseen(k) = <<>>)

EndIfEmpty(k) == ended' = (ended \/ Objects(k) = <<>>)

\* Mutant: rows are inserted for all the objects of the page.
MutantInsertObjects(k) ==
  /\ rows' = (IF stale THEN Len(store') ELSE rows) + Len(Objects(k))
  /\ stale' = FALSE

\* The controller's didLoadBottom. The store has grown before
\* performBatchUpdates is called: a collection view whose reload is still to
\* come reloads there first, and then counts the inserted rows a second time.
InsertRows(k) ==
  /\ rows' = (IF stale THEN Len(store') ELSE rows) + Len(Unseen(k))
  /\ stale' = FALSE

\* Mutant: the page is counted down (currentPage is unsigned).
MutantFirstCountsDown ==
  /\ Succeeds("first")
  /\ Reach("first")
  /\ currentPage' = currentPage - 1
  /\ EndIfEmpty("first")
  /\ spinner' = FALSE
  /\ stale' = TRUE
  /\ UNCHANGED <<loadingBottom, loadingTop, rows, refreshing>>

\* loadFirst's handler and the controller's didLoadFirst.
FirstLoaded ==
  /\ Succeeds("first")
  /\ Reach("first")
  /\ currentPage' = 1
  /\ EndIfEmpty("first")
  /\ spinner' = FALSE
  /\ stale' = TRUE
  /\ UNCHANGED <<loadingBottom, loadingTop, rows, refreshing>>

\* Mutant: isLoadingBottom is not reset.
MutantBottomKeepsFlag ==
  /\ Succeeds("bottom")
  /\ Reach("bottom")
  /\ currentPage' = currentPage + 1
  /\ EndIfEmpty("bottom")
  /\ InsertRows("bottom")
  /\ UNCHANGED <<loadingBottom, loadingTop, spinner, refreshing>>

\* loadBottom's handler and the controller's didLoadBottom.
BottomLoaded ==
  /\ Succeeds("bottom")
  /\ Reach("bottom")
  /\ currentPage' = currentPage + 1
  /\ EndIfEmpty("bottom")
  /\ loadingBottom' = FALSE
  /\ InsertRows("bottom")
  /\ UNCHANGED <<loadingTop, spinner, refreshing>>

\* Mutant: the refresh control is left spinning.
MutantTopKeepsRefreshing ==
  /\ Succeeds("top")
  /\ loadingTop' = FALSE
  /\ stale' = TRUE
  /\ UNCHANGED <<currentPage, ended, loadingBottom, rows, spinner, refreshing, newest, reached>>

\* loadTop's handler and the controller's didLoadTop.
TopLoaded ==
  /\ Succeeds("top")
  /\ loadingTop' = FALSE
  /\ refreshing' = FALSE
  /\ stale' = TRUE
  /\ UNCHANGED <<currentPage, ended, loadingBottom, rows, spinner, newest, reached>>

\* All three handlers ignore an error: no flag is reset, nobody is told.
ErrorIgnored(k) ==
  /\ request[k].reply = "error"
  /\ request' = [request EXCEPT ![k] = Unsent]
  /\ failed' = failed \cup {k}
  /\ UNCHANGED <<published, loaded, store, currentPage, flags, view, overlapped,
                 malformed, newest, reached>>

Handler(k) ==
  \/ k = "first" /\ FirstLoaded
  \/ k = "bottom" /\ BottomLoaded
  \/ k = "top" /\ TopLoaded
  \/ ErrorIgnored(k)

\* A collection view that counts other rows than its data source has raises an
\* exception, which ends the process.
Consistent == stale \/ rows = Len(store)

Next ==
  /\ Consistent
  /\ \/ ViewDidLoad \/ PullToRefresh \/ Layout \/ LastRowDisplayed \/ Publish
     \/ \E k \in Kinds : Answer(k) \/ Handler(k)

Spec == Init /\ [][Next]_vars

\* The service or the network's own timeout answers the two requests that a
\* spinner stands for, the main queue runs their handlers; no user and no author
\* ever has to act, and loadBottom's request may hang for ever.
Fairness ==
  \A k \in {"first", "top"} :
    WF_vars(Consistent /\ Answer(k)) /\ WF_vars(Consistent /\ Handler(k))

FairSpec == Spec /\ Fairness

----------------------------------------------------------------------------
(* Properties.                                                             *)

\* However the pages shift and whichever requests overtake each other, no item
\* is in the list twice (findStreamObject in all three handlers).
NoDuplicates == \A i, j \in DOMAIN store : store[i] = store[j] => i = j

\* Unless requests overlapped, every insertion agrees with the rows the
\* collection view already has, so it raises no exception (didLoadBottom
\* inserts results, not objects, after the store has grown).
InsertionsFit == ~overlapped => Consistent

\* Unless requests overlapped, the pages leave no hole: every item between the
\* newest one of page 0 and the oldest one of any page is in the list,
\* although the feed grew between the requests (currentPage in loadFirst and
\* loadBottom).
NoHole == ~overlapped => \A i \in reached + 1 .. newest : i \in Range(store)

\* Unless requests overlapped or an answer was not a list, the end of the
\* stream is declared only when everything down to the oldest item is in the
\* list (bottomStreamLoadingEnded).
EndMeansComplete ==
  ~overlapped /\ ~malformed /\ ended => \A i \in 1..newest : i \in Range(store)

\* A guard flag is set exactly while its request is outstanding, and after it
\* failed: nothing else disables scrolling or refreshing for good, and no
\* second request of a kind is sent before the first is handled.
FlagsFollowRequests ==
  /\ loadingBottom <=> Outstanding("bottom") \/ "bottom" \in failed
  /\ loadingTop <=> Outstanding("top") \/ "top" \in failed

\* Both spinners stop, unless their request failed or an insertion crashed.
SpinnersStop ==
  /\ spinner ~> ~spinner \/ "first" \in failed \/ ~Consistent
  /\ refreshing ~> ~refreshing \/ "top" \in failed \/ ~Consistent

=============================================================================
