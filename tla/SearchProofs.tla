----------------------------- MODULE SearchProofs -----------------------------
(***************************************************************************)
(* Theorems about Search for any documents, texts, limit and number of     *)
(* queries on their way.                                                   *)
(***************************************************************************)
EXTENDS Search, TLAPS

\* Cutting to the limit and then filtering gives the matches among the first
\* documents.
LEMMA ResultsAreFirstMatches ==
  ASSUME NEW t \in Texts, NEW docs
  PROVE  Results(t, docs) =
           {d \in docs \cap Matching[t] :
              Limit # NoLimit => Cardinality({e \in docs : e < d}) < Limit}
<1>1. CASE Limit = NoLimit
  BY <1>1 DEF Results, Prefix
<1>2. CASE Limit # NoLimit
  BY <1>2 DEF Results, Prefix
<1> QED BY <1>1, <1>2

LEMMA ResultsAreDocuments ==
  ASSUME NEW t \in Texts, NEW docs \in SUBSET Documents
  PROVE  Results(t, docs) \in SUBSET Documents
<1>1. Results(t, docs) \subseteq docs
  BY DEF Results, Prefix
<1> QED BY <1>1

\* SettledShowsText with the results as the handler computes them.
Settled ==
  open /\ OnTheirWay = {} /\ ~raced /\ ~failed /\ ~changed =>
    shown = Results(text, collection)

LEMMA SettledMeansFirstMatches ==
  ASSUME TypeOK
  PROVE  Settled <=> SettledShowsText
BY ResultsAreFirstMatches DEF Settled, SettledShowsText, TypeOK

\* The invariant with Settled in place of SettledShowsText.
Inv ==
  /\ TypeOK
  /\ Settled
  /\ OneTextShown
  /\ QueriesFitText
  /\ AnswersFitCollection
  /\ QueriesAreAsked
  /\ NobodyAsksWhenClosed

\* A slot is on its way exactly if its reply is not that of the empty slot.
LEMMA OnTheirWayFact ==
  ASSUME TypeOK, NEW s \in Slots
  PROVE  s \in OnTheirWay <=> query[s].reply # "idle"
BY DEF TypeOK, OnTheirWay, Queries, Idle

LEMMA InvInit == Init => Inv
<1> SUFFICES ASSUME Init PROVE Inv
  OBVIOUS
<1>1. OnTheirWay = {}
  BY DEF Init, OnTheirWay
<1>2. TypeOK
  BY TextsAssumption DEF Init, TypeOK, Queries
<1>3. AnswersFitCollection
  BY DEF Init, AnswersFitCollection, Idle
<1> QED
  BY <1>1, <1>2, <1>3
  DEF Init, Inv, Settled, OneTextShown, QueriesFitText, QueriesAreAsked, NobodyAsksWhenClosed

\* A text that is searched for is asked, and alone or among its equals unless
\* the search raced.
LEMMA SearchStep ==
  ASSUME Inv, NEW t \in Texts, UpdateSearchResults(t)
  PROVE  Inv'
<1> USE DEF Inv
<1>1. PICK s \in Slots \ OnTheirWay :
        query' = [query EXCEPT ![s] = [for |-> t, reply |-> "waiting", found |-> {}]]
  BY DEF UpdateSearchResults, Search
<1> DEFINE new == [for |-> t, reply |-> "waiting", found |-> {}]
<1>2. /\ open /\ open' = open /\ text' = t /\ shown' = shown /\ collection' = collection
      /\ asked' = asked \cup {t}
      /\ raced' = (OnTheirWay # {} /\ (raced \/ \E r \in OnTheirWay : query[r].for # t))
      /\ changed' = (OnTheirWay # {} /\ changed)
      /\ failed' = (OnTheirWay # {} /\ failed)
  BY DEF UpdateSearchResults, Search
<1>3. new \in Queries /\ new # Idle
  BY DEF Queries, Idle
<1>4. query' \in [Slots -> Queries]
  BY <1>1, <1>3 DEF TypeOK
<1>5. /\ query'[s] = new
      /\ \A r \in Slots : r # s => query'[r] = query[r]
  BY <1>1 DEF TypeOK
<1>6. OnTheirWay' = OnTheirWay \cup {s}
  BY <1>3, <1>5 DEF OnTheirWay
<1>7. TypeOK'
  BY <1>2, <1>4 DEF TypeOK
<1>8. Settled' /\ NobodyAsksWhenClosed'
  BY <1>2, <1>6 DEF Settled, NobodyAsksWhenClosed
<1>9. OneTextShown'
  BY <1>2 DEF OneTextShown
<1>10. QueriesFitText'
  <2> SUFFICES ASSUME ~raced', NEW r \in OnTheirWay' PROVE query'[r].for = t
    BY <1>2 DEF QueriesFitText
  <2>1. CASE r = s
    BY <2>1, <1>5
  <2>2. CASE r # s
    <3>1. r \in OnTheirWay
      BY <2>2, <1>6
    <3>2. query[r].for = t /\ r \in Slots
      BY <3>1, <1>2 DEF OnTheirWay
    <3> QED BY <3>2, <2>2, <1>5
  <2> QED BY <2>1, <2>2
<1>11. AnswersFitCollection'
  <2> SUFFICES ASSUME ~changed', NEW r \in Slots, query'[r].reply = "ok"
               PROVE  query'[r].found = collection
    BY <1>2 DEF AnswersFitCollection
  <2>1. r # s /\ query'[r] = query[r]
    BY <1>5
  <2>2. r \in OnTheirWay
    BY <2>1, OnTheirWayFact
  <2> QED BY <1>2, <2>1, <2>2 DEF AnswersFitCollection
<1>12. QueriesAreAsked'
  <2> SUFFICES ASSUME NEW r \in OnTheirWay' PROVE query'[r].for \in asked'
    BY DEF QueriesAreAsked
  <2>1. CASE r = s
    BY <2>1, <1>2, <1>5
  <2>2. CASE r # s
    <3>1. r \in OnTheirWay /\ r \in Slots
      BY <2>2, <1>6 DEF OnTheirWay
    <3>2. query'[r] = query[r] /\ query[r].for \in asked
      BY <3>1, <2>2, <1>5 DEF QueriesAreAsked
    <3> QED BY <3>2, <1>2
  <2> QED BY <2>1, <2>2
<1> QED BY <1>7, <1>8, <1>9, <1>10, <1>11, <1>12

\* A slot that becomes idle leaves the others as they are.
LEMMA EndOfQuery ==
  ASSUME Inv, NEW s \in Slots, query' = [query EXCEPT ![s] = Idle],
         UNCHANGED <<collection, open, text, asked, raced, changed>>
  PROVE  /\ query' \in [Slots -> Queries]
         /\ OnTheirWay' = OnTheirWay \ {s}
         /\ QueriesFitText'
         /\ AnswersFitCollection'
         /\ QueriesAreAsked'
         /\ NobodyAsksWhenClosed'
<1> USE DEF Inv
<1>1. /\ query'[s] = Idle
      /\ \A r \in Slots : r # s => query'[r] = query[r]
  BY DEF TypeOK
<1>2. query' \in [Slots -> Queries]
  BY DEF TypeOK, Queries
<1>3. OnTheirWay' = OnTheirWay \ {s}
  BY <1>1 DEF OnTheirWay
<1>4. \A r \in OnTheirWay' : r \in OnTheirWay /\ query'[r] = query[r]
  BY <1>1, <1>3 DEF OnTheirWay
<1>5. QueriesFitText' /\ QueriesAreAsked' /\ NobodyAsksWhenClosed'
  BY <1>3, <1>4 DEF QueriesFitText, QueriesAreAsked, NobodyAsksWhenClosed
<1>6. AnswersFitCollection'
  BY <1>1 DEF AnswersFitCollection, Idle
<1> QED BY <1>2, <1>3, <1>5, <1>6

LEMMA OpenStep ==
  ASSUME Inv, Open
  PROVE  Inv'
<1> USE DEF Inv
<1> DEFINE new == [Idle EXCEPT !.reply = "waiting"]
<1>1. PICK s \in Slots : query' = [query EXCEPT ![s] = new]
  BY DEF Open
<1>2. /\ ~open /\ open' = TRUE /\ text' = Blank /\ shown' = {} /\ asked' = {Blank}
      /\ raced' = FALSE /\ changed' = FALSE /\ failed' = FALSE
      /\ collection' = collection
  BY DEF Open
<1>3. new \in Queries /\ new # Idle /\ new.for = Blank /\ new.reply = "waiting"
  BY TextsAssumption DEF Queries, Idle
<1>4. /\ query'[s] = new
      /\ \A r \in Slots : r # s => query'[r] = query[r]
  BY <1>1 DEF TypeOK
<1>5. \A r \in Slots : r # s => query'[r] = Idle
  BY <1>2, <1>4 DEF NobodyAsksWhenClosed, OnTheirWay
<1>6. OnTheirWay' = {s}
  BY <1>3, <1>4, <1>5 DEF OnTheirWay
<1>7. TypeOK'
  <2>1. query' \in [Slots -> Queries]
    BY <1>1, <1>3 DEF TypeOK
  <2> QED BY <1>2, <2>1, TextsAssumption DEF TypeOK
<1>8. Settled' /\ NobodyAsksWhenClosed' /\ OneTextShown'
  BY <1>2, <1>6 DEF Settled, NobodyAsksWhenClosed, OneTextShown
<1>9. QueriesFitText' /\ QueriesAreAsked'
  BY <1>2, <1>3, <1>4, <1>6 DEF QueriesFitText, QueriesAreAsked
<1>10. AnswersFitCollection'
  BY <1>3, <1>4, <1>5 DEF AnswersFitCollection, Idle
<1> QED BY <1>7, <1>8, <1>9, <1>10

LEMMA CancelStep ==
  ASSUME Inv, Cancel
  PROVE  Inv'
<1> USE DEF Inv
<1>1. /\ open' = FALSE
      /\ query' = [s \in Slots |-> Idle]
      /\ UNCHANGED <<collection, text, shown, asked, raced, changed, failed>>
  BY DEF Cancel, history
<1>2. OnTheirWay' = {}
  BY <1>1 DEF OnTheirWay
<1>3. TypeOK'
  BY <1>1 DEF TypeOK, Queries
<1>4. AnswersFitCollection'
  BY <1>1 DEF AnswersFitCollection, Idle
<1> QED
  BY <1>1, <1>2, <1>3, <1>4
  DEF Settled, OneTextShown, QueriesFitText, QueriesAreAsked, NobodyAsksWhenClosed

LEMMA AnswerStep ==
  ASSUME Inv, NEW s \in Slots, Answer(s)
  PROVE  Inv'
<1> USE DEF Inv
<1>1. PICK r \in {"ok", "error"} :
        query' = [query EXCEPT ![s] = [for |-> query[s].for, reply |-> r,
                                       found |-> IF r = "ok" THEN collection ELSE {}]]
  BY DEF Answer
<1>2. /\ query[s].reply = "waiting"
      /\ UNCHANGED <<collection, open, text, shown, asked, raced, changed, failed>>
  BY DEF Answer, history
<1> DEFINE new == [for |-> query[s].for, reply |-> r,
                   found |-> IF r = "ok" THEN collection ELSE {}]
<1>3. query[s] \in [for : Texts, reply : {"waiting", "ok", "error"}, found : SUBSET Documents]
  BY <1>2 DEF TypeOK, Queries, Idle
<1>4. query' = [query EXCEPT ![s] = new]
  BY <1>1
<1>5. /\ query'[s] = new
      /\ \A q \in Slots : q # s => query'[q] = query[q]
  BY <1>4 DEF TypeOK
<1>6. new \in Queries /\ new # Idle
  BY <1>3 DEF Queries, Idle, TypeOK
<1>7. TypeOK'
  <2>1. query' \in [Slots -> Queries]
    BY <1>4, <1>6 DEF TypeOK
  <2> QED BY <1>2, <2>1 DEF TypeOK
<1>8. s \in OnTheirWay
  BY <1>2, OnTheirWayFact
<1>9. OnTheirWay' = OnTheirWay
  BY <1>5, <1>6, <1>8 DEF OnTheirWay
<1>10. \A q \in OnTheirWay : query'[q].for = query[q].for
  BY <1>5 DEF OnTheirWay
<1>11. Settled' /\ OneTextShown'
  BY <1>2, <1>8, <1>9 DEF Settled, OneTextShown
<1>12. QueriesFitText' /\ QueriesAreAsked' /\ NobodyAsksWhenClosed'
  BY <1>2, <1>9, <1>10 DEF QueriesFitText, QueriesAreAsked, NobodyAsksWhenClosed
<1>13. AnswersFitCollection'
  <2> SUFFICES ASSUME ~changed, NEW q \in Slots, query'[q].reply = "ok"
               PROVE  query'[q].found = collection
    BY <1>2 DEF AnswersFitCollection
  <2>1. CASE q = s
    BY <2>1, <1>5
  <2>2. CASE q # s
    BY <2>2, <1>5 DEF AnswersFitCollection
  <2> QED BY <2>1, <2>2
<1> QED BY <1>7, <1>11, <1>12, <1>13

\* The answer that leaves nothing on its way is one for the text on screen.
LEMMA DeliverStep ==
  ASSUME Inv, NEW s \in Slots, Deliver(s)
  PROVE  Inv'
<1> USE DEF Inv
<1> DEFINE new == Results(query[s].for, query[s].found)
<1>1. /\ query[s].reply = "ok"
      /\ query' = [query EXCEPT ![s] = Idle]
      /\ shown' = new
      /\ UNCHANGED <<collection, open, text, asked, raced, changed, failed>>
  BY DEF Deliver, history
<1>2. query[s].for \in Texts /\ query[s].found \in SUBSET Documents
  BY <1>1 DEF TypeOK, Queries, Idle
<1>3. s \in OnTheirWay
  BY <1>1, OnTheirWayFact
<1>4. /\ query' \in [Slots -> Queries]
      /\ QueriesFitText' /\ AnswersFitCollection' /\ QueriesAreAsked' /\ NobodyAsksWhenClosed'
  BY <1>1, EndOfQuery
<1>5. TypeOK'
  BY <1>1, <1>2, <1>4, ResultsAreDocuments DEF TypeOK
<1>6. OneTextShown'
  BY <1>1, <1>2, <1>3 DEF OneTextShown, QueriesAreAsked, Results, Prefix
<1>7. Settled'
  <2> SUFFICES ASSUME open, ~raced, ~changed PROVE new = Results(text, collection)
    BY <1>1 DEF Settled, Results, Prefix
  <2>1. query[s].for = text
    BY <1>3 DEF QueriesFitText
  <2>2. query[s].found = collection
    BY <1>1 DEF AnswersFitCollection
  <2> QED BY <2>1, <2>2
<1> QED BY <1>4, <1>5, <1>6, <1>7

LEMMA DropStep ==
  ASSUME Inv, NEW s \in Slots, Drop(s)
  PROVE  Inv'
<1> USE DEF Inv
<1>1. /\ query' = [query EXCEPT ![s] = Idle]
      /\ failed' = TRUE
      /\ UNCHANGED <<collection, open, text, shown, asked, raced, changed>>
  BY DEF Drop
<1>2. /\ query' \in [Slots -> Queries]
      /\ QueriesFitText' /\ AnswersFitCollection' /\ QueriesAreAsked' /\ NobodyAsksWhenClosed'
  BY <1>1, EndOfQuery
<1> QED BY <1>1, <1>2 DEF TypeOK, Settled, OneTextShown

LEMMA ChangeStep ==
  ASSUME Inv, Change
  PROVE  Inv'
<1>1. /\ collection' \in SUBSET Documents
      /\ changed' = TRUE
      /\ UNCHANGED <<open, text, query, shown, asked, raced, failed>>
  BY DEF Change, Inv, TypeOK
<1> QED
  BY <1>1
  DEF Inv, TypeOK, Settled, OneTextShown, QueriesFitText, AnswersFitCollection,
      QueriesAreAsked, NobodyAsksWhenClosed, OnTheirWay

LEMMA InvNext == Inv /\ [Next]_vars => Inv'
<1> SUFFICES ASSUME Inv, [Next]_vars PROVE Inv'
  OBVIOUS
<1>1. CASE Open BY <1>1, OpenStep
<1>2. CASE Cancel BY <1>2, CancelStep
<1>3. CASE Change BY <1>3, ChangeStep
<1>4. ASSUME NEW t \in Texts, UpdateSearchResults(t) PROVE Inv'
  BY <1>4, SearchStep
<1>5. ASSUME NEW s \in Slots, Answer(s) PROVE Inv'
  BY <1>5, AnswerStep
<1>6. ASSUME NEW s \in Slots, Deliver(s) PROVE Inv'
  BY <1>6, DeliverStep
<1>7. ASSUME NEW s \in Slots, Drop(s) PROVE Inv'
  BY <1>7, DropStep
<1>8. CASE UNCHANGED vars
  BY <1>8
  DEF vars, history, Inv, TypeOK, Settled, OneTextShown, QueriesFitText,
      AnswersFitCollection, QueriesAreAsked, NobodyAsksWhenClosed, OnTheirWay
<1> QED BY <1>1, <1>2, <1>3, <1>4, <1>5, <1>6, <1>7, <1>8 DEF Next

\* Every reachable state is well typed.
THEOREM TypeCorrect == Spec => []TypeOK
<1>1. Inv => TypeOK BY DEF Inv
<1> QED BY <1>1, InvInit, InvNext, PTL DEF Spec

\* Once the answers are in, and nothing raced, failed or changed, the screen
\* shows all the matches of its text among the documents within the limit.
THEOREM SettledResults == Spec => []SettledShowsText
<1>1. Inv => SettledShowsText BY SettledMeansFirstMatches DEF Inv
<1> QED BY <1>1, InvInit, InvNext, PTL DEF Spec

\* However the answers overtake each other, the results are those of one text
\* typed on this screen.
THEOREM OneText == Spec => []OneTextShown
<1>1. Inv => OneTextShown BY DEF Inv
<1> QED BY <1>1, InvInit, InvNext, PTL DEF Spec

\* A screen whose results are not those of its text and collection has a query
\* for that text on its way, unless something raced, failed or changed: the half
\* of ResultsArrive that does not depend on Firestore (updateSearchResults).
THEOREM MissingIsAwaited ==
  Spec => [](open /\ ~raced /\ ~failed /\ ~changed /\ shown # Results(text, collection)
               => \E s \in OnTheirWay : query[s].for = text)
<1>1. Inv => (open /\ ~raced /\ ~failed /\ ~changed /\ shown # Results(text, collection)
                => \E s \in OnTheirWay : query[s].for = text)
  BY DEF Inv, Settled, QueriesFitText
<1> QED BY <1>1, InvInit, InvNext, PTL DEF Spec

=============================================================================
