# FinanceApp in TLA+

This directory holds the verification project of FinanceApp, an iOS finance app
(`src/FinanceApp/FinanceApp`) built on a shared library (`src/Core`). The app has
no tests. What it does over time, rather than what it draws, lives in a handful
of places: signing in and out, paging lists, joining remote queries, editing a
profile and its photos, keeping a watchlist, searching, laying out lists and two
small controls. Those are modelled here, checked with TLC on
small instances and, where marked, proved with TLAPS for every value of the
constants.

Compiled code only: the Xcode project takes Core from `src/Core`. The older copy
in `src/FinanceApp/Core`, the dated archive of the app, the Pods and SnapKit are
not modelled. By lines the repository is almost all Pods (gRPC, BoringSSL, leveldb,
Firebase): what they do is part of the models only as the app's calls and callbacks
see it, marked external.

## The system

Every object below runs on the main thread. What makes the system concurrent is
that remote calls, transitions and the user's taps interleave: a closure stored
by one event runs some events later, over a state it has not seen.

| Component | State | Operations | Talks to | Hard behaviour |
|---|---|---|---|---|
| Session container (`ATCHostViewController`, `FinanceHostViewController`) | the view on screen, `user`, `pushManager`, the app's copies of the user | launch, end of the walkthrough, completed onboarding, resync, logout, flip transition | store, coordinator, push manager | several completions for one screen; the push manager is made in a transition's completion; logout clears only the store |
| Device store (`ATCPersistentStore`) | `kUserKey`, `kWalkthroughCompletedKey` | mark, read, log out | container | survives crashes, must agree with the screen at each of them |
| Onboarding (`ATCLoginScreenManager`, `ATCSignUpScreenManager`, `ATCOnboardingCoordinator`) | the navigation stack, an alert | log in, sign up, Facebook, resync | Firebase Auth, Firestore, Facebook, container | calls overlap; errors without callbacks; account and record are written separately |
| Push registration (`ATCPushNotificationManager`) | the user it was made for | register, token received | Firestore | tokens arrive between sessions |
| Paged list (`ATCGenericRestAPIDataSource`, `ATCGenericCollectionViewController`) | `store`, `currentPage`, three flags; spinners and the collection view's rows | first, bottom, top, reload, insert | a paged REST service | answers in any order, a feed that grows, errors, insertions checked against a row count |
| Social graph (`ATCFirebaseSocialGraphManager`) | the captured list of one call | fetchFriends | Firestore | a join by counting |
| Profile (`FinanceAccountDetailsViewController`, `ATCProfileFirebaseUpdater`, `ATCUser`) | the form, the user it was made with, the record | open, type, save, sign in | Firestore | a copy that a save does not refresh; whole-record writes; writes queued on the device |
| Profile photos (`ATCProfileFirebaseUpdater`) | the photos captured by an upload or a removal, the record's list and picture | upload, remove | Firebase storage, Firestore | a list read before an upload and written after it |
| Watchlist (`ATCDiskPersistenceStore`, `AssetDetailsViewController`, `WatchlistViewController`) | an archived array, a star, the list's rows | append, remove, contains, open, tap | store | a snapshot that goes stale; removal of one match only |
| Search (`ATCGenericSearchViewController`, `ATCFirebaseSearchDataSource`) | the text, the results | open, type, cancel | Firestore | a query per keystroke, answers in any order, a limit before the filter |
| Liquid layout (`ATCLiquidCollectionViewLayout`, the container adapters and cells) | the cells' cache, content height | prepare, invalidate, reload, insert, change bounds, inner lists loaded | list screens | a cache judged by a width and a number; cells whose height another list decides |
| Walkthrough (`ATCWalkthroughViewController`) | the page, the dots | swipe, settle, take back, end | container | ends when a swipe begins; the dots follow when it settles |
| Date range picker (`CalendarDateRangePickerViewController`) | start, end, Done; each cell's date | tap, scroll, Done | its delegate | a tap is answered by a reused cell |
| Trading keypad (`AssetTradingViewController`; not modelled) | the field, the labels, the Trade button | key, back arrow, trade | text field | the field can be edited without the screen's knowledge |
| Notification ages (`TimeFormatHelper`, `FinanceNotificationRowAdapter`) | a label | configure | clock | roundings in sequence; a label drawn long ago |
| Firestore lists, drawer, charts, settings, static screens | see `PROJECT.json` | | | without state, or not used |

What makes each of them correct:

- session: what is on screen, on disk and in memory names the same user in every
  state a crash could freeze; nobody gets inside under a name not proved; nobody's
  session turns into somebody else's; launches and logins end visibly;
- paged list: no item twice, none missed, the end declared truthfully, insertions
  that fit, flags and spinners that follow the requests;
- social graph: the caller is answered once, with everything;
- profile: what the user last saved is what the record becomes; photos added are
  there, photos removed are not, and the picture is one of them;
- search: the results on screen are those of the text on screen, or at least of one
  text;
- layout: the cells drawn are those of the data there is, they never overlap, and one
  can scroll to the last and no farther;
- watchlist: an array used as a set, a star that tells the truth, a list that is never
  short of what is stored;
- walkthrough: the dots tell the page, and nobody is spared one;
- picker, ages: what is handed over is what was tapped, and no age is overstated.

## Modules

| Module | Models | Used by |
|---|---|---|
| `SessionPromise` | what a session promises, without screens, calls or store | `Session` (refinement) |
| `Session` | container, store, onboarding, push registration | runs `session*`, `SessionProofs` |
| `SessionForms` | `Session` with the stack of the profile tab | `MCSession`, `SessionProofs` |
| `MCSession` | the symmetry of users and slots for TLC | run `session` |
| `SessionWalkthrough` | `Session` behind the pages of the walkthrough | run `session_liveness`, `SessionProofs` |
| `Paging` | one list screen with its data source and the service | run `paging`, `PagingProofs` |
| `FriendsFetch` | one call of `fetchFriends` | run `friends`, `StandaloneProofs` |
| `ProfileRecord` | the form, the updater and the record of one user | run `profile`, `ProfileRecordProofs` |
| `ProfilePhotos` | uploads and removals of photos and the record under them | run `profile_photos`, `ProfilePhotosProofs` |
| `Search` | the search screen over a Firestore collection | `MCSearch`, `SearchProofs` |
| `MCSearch` | the documents, texts and matches for TLC | run `search` |
| `ListLayout` | one list under the liquid layout, and the lists inside its cells | `MCListLayout`, `ListLayoutProofs` |
| `MCListLayout` | items, widths and adapters for TLC | run `list_layout` |
| `WatchSet` | what a watchlist promises: a set that a tap toggles | `Watchlist` (refinement) |
| `Watchlist` | the archived array, the star and the list's screen | run `watchlist`, `WatchlistProofs` |
| `DateRangePicker` | the calendar, its cells and the range | `Controls` |
| `TimeAgo` | `timeAgoString` and a label that keeps its text | `Controls` |
| `Controls` | one of these two screens, opened alone | `MCControls`, `StandaloneProofs` |
| `MCControls` | a calendar of two months and the ages around every threshold for TLC | run `controls` |
| `*Proofs` | theorems and proofs of the module they extend | |

### Session

A remote call occupies a slot of `call`, from the tap that starts it until its
handler has run. `Answer` is the service, `Handler` the closure; between the two
anything may happen. A login is the chain `signIn`, `fetch`; a Facebook login is
`dialog`, `facebook`; sign-up and resync are single calls. `Answer` may carry out
a sign-up and still reply with an error (the answer was lost), and a call that was
sent may be carried out without ever being answered (`Answer`, then `Kill`).

| Code | Model |
|---|---|
| views attached to the host's view | `shown` |
| `user`; `dsProvider.user` and `profileVC.user`; `pushManager?.user` | `hostUser`, `appUser`, `pushUser` |
| the two UserDefaults keys | `storedUser`, `walkthroughDone` |
| `viewDidLoad` | `LaunchResync`, `LaunchFresh` |
| `coordinatorDidCompleteOnboarding`, `coordinatorDidResyncCredentials` (equal bodies) | `Enter`, called from every handler that completes a flow |
| `presentLoggedInViewControllers` and its completion | `Present`, `FlipDone` |
| `didRequestLogout` | `Leave`, from `TapLogout` and `ResyncMissing` |
| the buttons | `TapCredentials`, `TapGuest`, `TapFacebook` |
| `fetchUser`'s early return on an error | `FetchDropped` |
| keychain and token of Firebase | `authUser`, `fcmToken` (both survive `Kill`) |

The order of statements inside one handler is kept where another event could see
it; a handler itself is one step, since it runs on the main thread and iOS does not
end the process between two of its statements without also losing a UserDefaults
write that is not yet flushed. Touches are not delivered while a flip runs, an
alert is up or Facebook's dialog covers the app (`CanTap`).

`proved`, `overlapped` and `fetchFailed` are history variables: they remember
who proved credentials, whether two calls ever overlapped, and whether a fetch
failed since the launch. Properties with an exception use them to say it exactly.

### SessionForms and SessionWalkthrough

Both extend `Session` with one part of the interface and leave its actions as they are.
`formUser` is the user of the settings or account details screen on the profile tab's
stack: such a screen keeps the user it was made with, and a logout detaches the tabs
without clearing their stacks. The other tabs push no screen that holds a user. In
`SessionWalkthrough`, `page` is the page controller's, `pending` the page a swipe is
bringing in and `dot` the control's; `Fake` is the page behind the last one, and
`SwipeToFake` is the whole of `willTransitionTo` for it, `Session`'s `FinishWalkthrough`
included. `tapped` and `seen` are history.

### Paging

The service is external: items are numbered in order of publication, page 0 holds
the newest, and `Publish` moves items to later pages. `request[k]` is the
outstanding request of each kind, `rows` what the collection view counted last and
`stale` that a reload awaits its layout pass. `Consistent` is UIKit's check of an
insertion; a state in which it fails is the end of the process, so `Next` stops
there. `Unseen` is the loop of the handlers that appends what `findStreamObject` does
not find; `Page` counts from `Left`, the items that are not on the pages before. The
code compares descriptions of objects and the model the items themselves: two items of a
feed are assumed to describe themselves differently.

### FriendsFetch

Documents are the unit, not users: two documents may name one user, and the code
counts documents. `broken` collects, as history, the documents that cannot be
counted (no `user2`, no record, no answer). The viewer has a uid: without one
`fetchFriends` returns at once and nothing begins.

### ProfileRecord

`record` is what the server has, `writes` what is on its way; a device reads its
own pending writes (`Visible`). `wanted` is, per field, what the user last saved in
a row he had changed. The form's gender row is required and never stored; choosing
it is part of `TapSave`.

### ProfilePhotos

An upload captures the updater and the user it was started with: `FileStored` writes the
photos that user had plus the new one, `TapRemove` those less the removed one. `work` of an
operation runs from the tap to the end of its completion, or of the possibility of one: the
updater is held weakly and dies with the screen, and both operations return early without
calling back. The app's own screens do not call the two operations; the model has a screen
that calls them as the account details form calls `update`, with the session's user and an
updater of its own. The record's writes are queued as in `ProfileRecord`, and a Facebook
login writes a record without photos. Storing the file is external.

### Watchlist

`stored` is the archived array or `NoList`, which differs from the empty array:
the list's screen has a data source for the second and none for the first. Screens
are pushed on one stack, the list under the asset: only the portfolio tab leads to
assets and to the list, and from the open list one gets to an asset through its rows.
`flipped`, `tapped` and `unused` are history: which stars were tapped an odd number of
times since the list was opened, whether one ever was, and whether none had been then.

### Search

A query occupies a slot of `query` from the keystroke that sends it until its
handler has run; its text travels with it, as the closure captures it. Documents are
numbered in Firestore's order, so a list of results is a set. `matches(keyword:)` is
the constant `Matching`. `raced`, `changed` and `failed` say what happened since a
query was last sent with none on its way. Closing the screen releases its data source,
which the closures hold weakly; each screen is given a new one.

### ListLayout

`data` is what the data source holds, `rows` the number of rows of each list inside a
cell, `cache` the layout's cells. `invalid` awaits a layout pass (`LayoutPass`, which
runs `prepare()`); properties speak of the states after one, since nothing is drawn
before. The loop of `prepare()` is a recursive function (`Arranged`, its body `Placed`).
An inner list is `attached` from the first time its cell is configured; a list is
inside one other, as in the app, though `reloadCollectionView` would go on further up.
Which cells are on screen is left open: any cell that is laid out may be configured.
Lengths are numbers; the adapters are the constants `CellWidth` and `RowHeight`.

### DateRangePicker, TimeAgo and Controls

The two share no state with anything else. `Controls` is a behaviour of the one that was
opened, the other waiting in a fixed state, so its states are the sum of theirs. The picker
is given no range or an ordered one of allowed days, as its caller has to.

`cell` says of each reused cell for which item it stands and which date it still has; how a
day is drawn is left out. A tap takes the date, as `didSelectItemAt` does, while `tapped`
collects what the item showed. Which cell UIKit takes from its queue, and which item it
gives to which cell at a reload, is left open. In `TimeAgo` seconds are whole, as the code
rounds them first, and negative if clocks differ; `toldAt` is when the label was computed.

## Runs

| Run | Instance | States | Shows |
|---|---|---|---|
| `session` | 2 users, 2 slots, Firebase on, with the profile tab's forms, symmetric | 673 323 | `ScreenMatchesStore`, `OneUserEverywhere`, `PrincipalMatchesUser`, `TokensOnlyForProvenUsers`, `FormBelongsToSession`, `NoSilentSwitch`, `KeepsPromise` |
| `session_guest` | the same with Firebase off | 176 | `KeepsPromise`: only guests, nothing stored |
| `session_liveness` | 1 user, 2 slots, 3 pages of walkthrough | 158 526 | `CompletedWhenSeen`, `BlankScreenEnds`, `SignInAnswered`, `PushFollowsSession` |
| `session_existing_user` | 1 user, 1 slot | violation | see Finding |
| `paging` | pages of 2, 3 items, 3 pages | 236 001 | `NoDuplicates`, `InsertionsFit`, `NoHole`, `EndMeansComplete`, `FlagsFollowRequests`, `SpinnersStop` |
| `friends` | 4 documents | 258 | `OnceWithAll`, `Answered` |
| `profile` | 2 fields, 2 values, 2 writes on their way | 3 174 400 | `EditsSurvive`, `FormIsCurrent` |
| `profile_photos` | 2 uploads, a removal, an old photo, 2 writes on their way | 440 602 | `ChangesSurvive`, `PictureIsListed`, `CallsEnd` |
| `search` | 3 documents, 3 texts, 2 slots, limit 2 | 494 912 | `SettledShowsText`, `ResultsArrive` |
| `list_layout` | 4 items of which 2 are inner lists, up to 3 shown, 2 widths, 2 rows | 786 082 | `LayoutIsCurrent`, `CellsStack`, `ContentFits` |
| `watchlist` | 4 assets | 15 064 | `ListLagsByTaps`, `SpinnerMeansUnused`, `IsWatchSet` |
| `controls` | 6 items and 3 cells of a calendar; 13 ages, 7 steps | 885 824 | `DoneOffersRange`, `RangeWasTapped`; `AgeIsTrue`, `NeverSoundsNewer` |

Why the bounds are enough. Two users make a session somebody else's, two slots make every
pair of calls overlap; a third would be in a situation one of the two is already in. The
paging instance has a full page, a half one and an empty one to meet the end, and room for
two items published in between; no kind of request is ever outstanding twice (`GuardFlags`
proves it), and the first is sent once. Four documents cover none, one and several of each
fate. In the profile one field is required and provided by Facebook and one is neither, and
two queued writes may be reordered with sign-ins. Four assets put a removal at the head, in
the middle and at the end. In the search, one of the texts matches only the document beyond
the limit, and two slots let any answer be overtaken. In the layout, one item makes two
columns at one width and three at the other, so that both the first item and the width
decide; three items fill a column twice; two rows let an inner list shrink, vanish and grow
from something. Photos: two uploads and a removal meet in every order, with two writes
queued. Walkthrough: a first, a middle and a last page, so that one could be skipped.
Calendar: a blank before and between the days of two months, and fewer cells than items.
Ages: both sides of each threshold, and steps that cross several at a time.

Deadlock is checked except in `friends`, where the call is over, in `paging`, where a
screen whose requests failed really stops, and in `controls`, where the bound on the
passing of time stops the notifications.

What the properties taught about the code, where they state an exception:

- logins that overlap (`overlapped`) can put one user on screen while Firebase Auth
  has another, and can replace one user's session by another's without a logout;
- `fetchFailed`: a failed fetch leaves a launch on a blank screen and a login on its
  form, because `fetchUser` returns without calling its completion;
- overlapping requests of a list can leave holes and inconsistent insertions, since
  `currentPage` and the row count are read when the answer is handled; an answer
  that is not a list declares the end of the stream;
- a request that failed keeps its flag: scrolling or refreshing is off until the
  screen is left;
- when queries for different texts overlap, the results of an earlier one may stay on
  screen; a failed query leaves those that were there;
- rows inserted at the bottom of a list inside a cell do not reach the cell's height;
- a list loaded again with as many items in less space can be scrolled into the void,
  since `invalidateCache` keeps the content's height;
- one bad friendship document silences all the good ones;
- a second form opened after a save in the same session shows and saves the values
  from before; a Facebook login empties what Facebook does not provide;
- a second change of the photos in the same session writes the list from before the
  first; a Facebook login empties the list, and a refused write takes its change with it;
- overlapping logins aside, a form saves under its own user; with them, a form of one
  user may be on screen over another's session;
- the walkthrough's dots move when they are touched, without the page (`tapped`);
- a tap on a weekday or a blank of the calendar may pick the day its cell had before;
- Done stays on when a range is begun anew, and then does nothing;
- a day is as long as sixty hours once hours are not told any more: ages of more than a
  day are told too recent, beginning with "0 days ago";
- an open watchlist keeps showing the assets whose star is taken away on a screen opened
  from it, and its spinner runs for as long as it is open if no star was ever tapped before.

Where a hazard of `PROJECT.json` is what the code does, and not only what it might, the
properties listed with it name the case as their exception and show that nothing else leads
there; the hazard's note says so.

### Fairness

`Session`: weak fairness of `FlipDone` (a transition's completion is always called), of
`Answer` (the SDKs time out, which is an error answer) and of `Handler` (the main queue runs
what is posted to it). Taps, operators and crashes are never obliged to happen.
`SessionWalkthrough` adds none: nobody has to swipe. `Paging`: answers and handlers of the
two requests a spinner stands for, only while the process lives (`Consistent`); the request
for more rows may hang for ever. `FriendsFetch`: the query and each lookup call back, with
an error if they must. `Search`: Firestore answers each query, handlers run.
`ProfilePhotos`: the storage ends each upload with a file or an error, Firestore confirms or
refuses each write, completions run. The other modules have safety properties only.

### Finding

`resyncPersistentUser` logs the user out when the query finds no record; its
comment says "User is no longer existing" (`ATCFirebaseLoginManager.swift:64`). Run
`session_existing_user` shows a user whose account exists being logged out: the
sign-up was carried out, but the record, which is written by the handler of its
answer, never was; a later log-in succeeds with the user made from the credentials
and is stored; the next launch resyncs, finds no record and logs out. A failing
fetch, by contrast, does not reach this code at all.

## Proofs

All proofs are checked by `tlapm` to the last leaf. They assume only the named
assumptions of the modules: the markers for nobody, nothing and no list differ from users,
assets, photos, pictures and lists, the Firebase flag is Boolean, `Docs` is finite,
documents are numbers, the empty text is a text and no typed value, the limit is a number or
`NoLimit`, uploads, removals and old photos are different things, the fields of a form are
among the record's, page sizes are positive, the bounds are numbers, the last page of the
walkthrough has a number, and no cell is wider than its list.

Every invariant and action property that a run checks is proved, but for the liveness
properties. Type invariants are checked by TLC, too, where the values are computed
(`Paging`, `ListLayout`, `Controls`). Other theorems state what no run checks, because the
runs check properties that contain it or need it: `OneText`, `JoinSilence`, `ListedOnce`,
`StarIsTrue`, `DotIsTrue`, `CellsNeverOverlap`. Four more state of a liveness property the
part that is a matter of states: whoever waits, waits for something. A blank screen has a
resync on its way (`BlankIsExplained`), a spinner a request (`SpinnersStandForRequests`), a
photo operation a queued write (`CallersAreQueued`), and a screen of other results a query
for its text (`MissingIsAwaited`), each with the exceptions its liveness property names. What
is left to fairness is that the thing waited for comes.

Induction: the library's induction theorems take an operator as a parameter, which the
provers cannot instantiate. `PagingProofs` and `ListLayoutProofs` use the least element of a
set of numbers instead (`LeastNumber`, from the library's well-founded relations), which is
a statement about sets (`SetInduction`). From it follows `Iteration`: a recursive function
on `0..n` whose step is defined everywhere satisfies its own equations, so that
a loop of the code, written as such a function, can be followed from one pass to the next.

**SessionProofs.** The four invariants of the session are not inductive: to know
that a resync's completion may show the tabs for the stored user one must know that
nothing else ran meanwhile; to know that a token goes to a proved user one must know
it of every user that could become the push manager's. `IInv` in `Session` adds

- `CallsFitScreen`: a resync runs alone, on the blank screen, for the stored user;
  any other call implies that the onboarding or the tabs are shown; calls die with
  the process;
- `OneCallUnlessOverlapped`: without an overlap at most one call is outstanding,
  none under the tabs, a stored user is Firebase Auth's, and so is a fetched one;
- `EverybodyProved`: the stored, the host's and the push manager's user, and every
  fetched one, proved their credentials;
- `FlipsOnlyUnderTabs`, `NothingOnScreenWhenDead`, `NobodyWithoutFirebase`.

The preservation proof has one step per action. From `[]IInv` follow the theorems
`TypeCorrect`, `ScreenAndStore`, `SameUser`, `Principal` and `Tokens`; the action
property `SilentSwitch` uses `IInv` before a step; and `Refinement` maps each action
to a step of `SessionPromise` or a stutter, so that the promise holds for any number
of users and of overlapping calls.

**Forms and pages (in SessionProofs).** `FormsAreSession` maps every step of
`SessionForms` to one of `Session` or a stutter, so that `IInv` holds there, too;
`FormOwner` adds that a form is only pushed while the tabs are on screen and gone before
they can be left, since the one Logout item is on the screen under it. `DotIsTrue` and
`NoPageSkipped` hold for any number of pages: the pages seen are an initial segment that
contains the current page, and the false page is a neighbour of the last one only.

**PagingProofs.** That a flag is reset when a request succeeds is right only if none of
its kind has failed before; `FailureIsFinal` says so, because the flag that a failure
leaves set keeps every later request from being sent. `NoItemTwice` holds of any overlap: it
is what the handlers' loop does (`UnseenFacts`), whatever page it is given. The other three
are about requests that come one at a time. The feed grows between them, but only at its
top, which moves items to later pages and never to earlier ones: what the next page and the
ones after it hold reaches at least up to the oldest item read (`NextPageJoins`). Hence the
list has no hole (`PagesJoin`) and a page that ends the feed leaves nothing below it
(`EndIsTheEnd`). A request for the bottom is only on its way while no reload awaits its
layout pass (`BottomIsNext`), so that rows are inserted into a view that has counted the
others (`RowsAgree`).

**ListLayoutProofs.** A kept cache is the one of the data and rows of now at the width
it was computed for, or there are more items than it has cells (`CacheIsKnown`); after a
pass width and number are those of now (`PassLeavesNothing`). Together they give
`CacheNeverStale`, whatever `prepare()` computes. For what it computes, `LaidFirst` and
`LaidNext` carry an invariant through the loop (`Laid`): the cells so far stand in their
columns, and the offset of each column is the end of its lowest cell, which is one of the
last as many cells as there are columns. A few lemmas about remainders say which those are.
`ColumnsFilled`, `EndsAtLowestCell` and `CellsNeverOverlap` follow; the exception of the
second, a list loaded again with as many items, is where the code keeps the height of before.

**ProfileRecordProofs and ProfilePhotosProofs.** Both follow one idea: a device
reads its own queued writes, so what has to agree with the user's wishes is not the
record but what the device would read (`Visible`: the last write on its way, or else the
record). `WriteFacts` says that a write appended becomes it, `TakenFacts` that a write
taken off the front and applied leaves it as it is, for a queue of any length.
`CopiesAgree` adds that the session's copy, and the rows of a form not typed in, are what
was last saved until the session saves; `ListsAgree` that the session's list is what the
user wants until it was used, or while the upload it was used for is on its way
(`UploadsBelongToSession`: there is one). From them follow `SavesSurvive`,
`FormShowsSaved` and `PhotosSurvive`. `PictureListed` needs more than the last write: a
picture is set by one write and has to be in the list of every later one, since the record
goes through all of them (`Listed`), until a Facebook login replaces both. No step of it
asks what the user wants, which is why it makes no exception of that login.

**SearchProofs.** `Inv` is `IInv` of `Search` with the results written as the handler
computes them; `ResultsAreFirstMatches` shows that the two forms agree, so that no
induction over a cardinality is needed. To know that the last answer is one for the text
on screen one must know it of every query on its way (`QueriesFitText`), and that its
documents are the collection's (`AnswersFitCollection`).

**WatchlistProofs.** `IInv` joins the properties of the array, the star and the list;
the lemmas `AddFacts`, `WithoutFacts` and `RemoveFacts` say what appending and taking
out the last match do to the elements and the uniqueness of a sequence of any
length. `ImplementsSet` proves that the array implements `WatchSet`: that the code
removes the last match only is harmless because no asset is ever there twice, and it
is never there twice because a tap asks `contains` first. That an open list is never short
of an asset (`ListLags`) needs `OpenedFromRow`: the star that is tapped over an open list is
that of one of its rows. `SpinnerJustified` rests on `WrittenByTap`: no sequence of taps
brings the key back to where it was before the first.

**StandaloneProofs.** The three parts without common state. A cell that stands for a day has
that day's date, whatever item it showed before (`CellsKnowTheirDay`), which is the reason
why only taps on blanks go wrong. The label's arithmetic is stated of any number of seconds:
each rounding is off by half a unit at most, and the five in a row are monotone; `AgesGrow`
is an action property.  Of `fetchFriends`,
`IInv` says that each document is looked up, found or broken, and that the completion has
been called if and only if all were found; `JoinCompletesOnce` and `JoinSilence` follow for
any finite set of documents, with the library's facts about cardinalities for the comparison
of counts.

Only model-checked: the seven liveness properties (`BlankScreenEnds`, `SignInAnswered`,
`PushFollowsSession`, `SpinnersStop`, `Answered`, `CallsEnd`, `ResultsArrive`), since
reasoning under fairness is outside the prover's reach, and the finding of
`session_existing_user`, which is a counterexample.

## Not modelled

- The Firestore list and map sources: one query whose answer is handed on once; their
  `loadTop` and `loadBottom` are empty, and no screen of this app uses them.
- The archive of `ATCUser`, which encodes the user name and does not decode it: of a
  restored user only the uid is used, by the resync that follows.
- The drawer style, the Shopify source, the push sender and `signIn(email:pass:)`, which
  this app does not use; `fetchUsers` and `fetchUser` of the social graph, single queries.
- Settings, which keep nothing; charts, adapters, cells and static data, which draw
  constants; local data sources, which answer in the same call.
- The trading keypad: after each key, `updateLabels` computes credit and Trade button from the
  text, by what `Double(_:)` parses; the screen has no other state. That an edit by other
  means leaves both as they were is listed as a hazard.
- Whose watchlist it is: the archive has no user in it and a logout does not touch it, so
  the next user of the device finds it. No part of the session reads or writes it.
- Everything under `Pods`, SnapKit, and the two copies that are not compiled.

## Plan

Done, in this order: `Session` with `SessionPromise`, `Paging`, `FriendsFetch`,
`ProfileRecord`, `Watchlist` with `WatchSet`, `Search`, `ListLayout`, `ProfilePhotos`,
`SessionForms`, `SessionWalkthrough`, `DateRangePicker`, `TimeAgo`, and
the proofs described above.

What would come next, in order of worth:

1. A refinement of `ProfilePhotos` to a set of photos, for the sessions in which
   `ChangesSurvive` makes no exception.
2. A refinement of `Paging` to a feed read from its newest item downwards, for requests that
   do not overlap.
3. That a search never shows more documents than its limit, as a theorem about finite sets.
