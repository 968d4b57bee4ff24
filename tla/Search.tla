------------------------------- MODULE Search -------------------------------
(***************************************************************************)
(* The search screen (ATCGenericSearchViewController) over a Firestore     *)
(* collection (ATCFirebaseSearchDataSource). Every change of the text asks *)
(* for the whole collection; each answer, in whatever order they come, is  *)
(* cut to the limit, filtered by the text it was asked for, and replaces   *)
(* the results.                                                            *)
(*                                                                         *)
(* Documents are numbered in the order in which Firestore returns them, so *)
(* a list of results is the set of its documents.                          *)
(***************************************************************************)
EXTENDS Integers, FiniteSets

CONSTANTS
  Documents,  \* the documents that may be in the collection
  Texts,      \* what may be typed
  Blank,      \* the empty text
  Matching,   \* matches(keyword:), as the documents each text matches
  Limit,      \* the data source's limit
  NoLimit,    \* its limit when nil
  Slots       \* bound: queries on their way at a time

ASSUME DocumentsAssumption == Documents \subseteq Nat
ASSUME TextsAssumption == Blank \in Texts
ASSUME MatchingAssumption == Matching \in [Texts -> SUBSET Documents]
ASSUME LimitAssumption == Limit \in Nat \cup {NoLimit} /\ NoLimit \notin Nat

VARIABLES
  collection,  \* the collection at the server
  open,        \* the screen is open
  text,        \* searchBar.text
  query,       \* the queries on their way, per slot
  shown,       \* localDataSource.items
  asked,       \* history: the texts searched for since the screen was opened
  raced,       \* history: queries for different texts were on their way together
  changed,     \* history: the collection changed
  failed       \* history: a query failed; all three since the last search that
               \* was sent with none on its way

history == <<asked, raced, changed, failed>>
vars    == <<collection, open, text, query, shown, history>>

Idle == [for |-> Blank, reply |-> "idle", found |-> {}]
Queries == [for : Texts, reply : {"waiting", "ok", "error"}, found : SUBSET Documents] \cup {Idle}

TypeOK ==
  /\ collection \subseteq Documents
  /\ <<open, raced, changed, failed>> \in BOOLEAN \X BOOLEAN \X BOOLEAN \X BOOLEAN
  /\ text \in Texts
  /\ query \in [Slots -> Queries]
  /\ shown \subseteq Documents
  /\ asked \subseteq Texts

Init ==
  /\ collection \in SUBSET Documents
  /\ open = FALSE
  /\ text = Blank
  /\ query = [s \in Slots |-> Idle]
  /\ shown = {}
  /\ asked = {}
  /\ raced = FALSE
  /\ changed = FALSE
  /\ failed = FALSE

----------------------------------------------------------------------------
(* The data source.                                                        *)

\* items.prefix(limit)
Prefix(docs) ==
  IF Limit = NoLimit THEN docs
  ELSE {d \in docs : Cardinality({e \in docs : e < d}) < Limit}

\* Mutant: the filter comes before the limit.
MutantFilterFirst(t, docs) == Prefix(docs \cap Matching[t])

Results(t, docs) == Prefix(docs) \cap Matching[t]

OnTheirWay == {s \in Slots : query[s] # Idle}

\* search(text:)
Search(t) ==
  /\ \E s \in Slots \ OnTheirWay :
       query' = [query EXCEPT ![s] = [for |-> t, reply |-> "waiting", found |-> {}]]
  /\ asked' = asked \cup {t}
  /\ raced' = (OnTheirWay # {} /\ (raced \/ \E s \in OnTheirWay : query[s].for # t))
  /\ changed' = (OnTheirWay # {} /\ changed)
  /\ failed' = (OnTheirWay # {} /\ failed)

----------------------------------------------------------------------------
(* The screen.                                                             *)

\* viewDidLoad asks for the empty text.
Open ==
  /\ ~open
  /\ open' = TRUE
  /\ text' = Blank
  /\ shown' = {}
  /\ asked' = {Blank}
  /\ \E s \in Slots : query' = [query EXCEPT ![s] = [Idle EXCEPT !.reply = "waiting"]]
  /\ raced' = FALSE
  /\ changed' = FALSE
  /\ failed' = FALSE
  /\ UNCHANGED collection

\* Mutant: the query goes out for the text before the change.
MutantTypeLags(t) ==
  /\ open
  /\ text' = t
  /\ Search(text)
  /\ UNCHANGED <<collection, open, shown>>

\* updateSearchResults, called for each change of the text and whenever the
\* search bar becomes active, as it does each time the screen appears.
UpdateSearchResults(t) ==
  /\ open
  /\ text' = t
  /\ Search(t)
  /\ UNCHANGED <<collection, open, shown>>

\* The cancel block dismisses the screen. The closures of its queries hold
\* the data source weakly: what they find is dropped.
Cancel ==
  /\ open
  /\ open' = FALSE
  /\ query' = [s \in Slots |-> Idle]
  /\ UNCHANGED <<collection, text, shown, history>>

----------------------------------------------------------------------------
(* Firestore and the handlers.                                             *)

Answer(s) ==
  /\ query[s].reply = "waiting"
  /\ \E r \in {"ok", "error"} :
       query' = [query EXCEPT ![s] = [for |-> query[s].for, reply |-> r,
                                      found |-> IF r = "ok" THEN collection ELSE {}]]
  /\ UNCHANGED <<collection, open, text, shown, history>>

\* The handler of an answer, and the screen's didFetchResults.
Deliver(s) ==
  /\ query[s].reply = "ok"
  /\ query' = [query EXCEPT ![s] = Idle]
  /\ shown' = Results(query[s].for, query[s].found)
  /\ UNCHANGED <<collection, open, text, history>>

\* An error is dropped.
Drop(s) ==
  /\ query[s].reply = "error"
  /\ query' = [query EXCEPT ![s] = Idle]
  /\ failed' = TRUE
  /\ UNCHANGED <<collection, open, text, shown, asked, raced, changed>>

\* Others write to the collection.
Change ==
  /\ \E d \in Documents : collection' \in {collection \cup {d}, collection \ {d}}
  /\ changed' = TRUE
  /\ UNCHANGED <<open, text, query, shown, asked, raced, failed>>

Next ==
  \/ Open \/ Cancel \/ Change
  \/ \E t \in Texts : UpdateSearchResults(t)
  \/ \E s \in Slots : Answer(s) \/ Deliver(s) \/ Drop(s)

Spec == Init /\ [][Next]_vars

\* Firestore answers, with an error if it must, and the handlers run.
FairSpec ==
  /\ Spec
  /\ \A s \in Slots : WF_vars(Answer(s)) /\ WF_vars(Deliver(s) \/ Drop(s))

----------------------------------------------------------------------------
(* Properties.                                                             *)

\* When the answers are in, the results are those of the text on screen: the
\* matches among the first documents of the collection, no other and all of
\* them. The exceptions are queries for different texts on their way together,
\* a failed query and a collection that changed meanwhile; the next search that
\* is sent alone makes up for each of them.
SettledShowsText ==
  open /\ OnTheirWay = {} /\ ~raced /\ ~failed /\ ~changed =>
    shown = {d \in collection \cap Matching[text] :
               Limit # NoLimit => Cardinality({e \in collection : e < d}) < Limit}

\* Even when answers overtake each other the results are those of one text
\* that was typed on this screen, over one state of the collection: results
\* of two texts are never mixed, nor do those of an earlier screen appear.
OneTextShown ==
  shown = {} \/ \E t \in asked : \E docs \in SUBSET Documents : shown = Results(t, docs)

\* Why SettledShowsText holds.
QueriesFitText ==
  open /\ ~raced => \A s \in OnTheirWay : query[s].for = text

AnswersFitCollection ==
  ~changed => \A s \in Slots : query[s].reply = "ok" => query[s].found = collection

QueriesAreAsked == \A s \in OnTheirWay : query[s].for \in asked

NobodyAsksWhenClosed == ~open => OnTheirWay = {}

IInv ==
  /\ TypeOK
  /\ SettledShowsText
  /\ OneTextShown
  /\ QueriesFitText
  /\ AnswersFitCollection
  /\ QueriesAreAsked
  /\ NobodyAsksWhenClosed

\* A text that stays and is searched for without a race, a failure or a change
\* has its results shown in the end.
ResultsArrive ==
  \A t \in Texts :
    open /\ text = t ~>
      \/ ~open \/ text # t \/ raced \/ failed \/ changed
      \/ shown = Results(t, collection)

=============================================================================
