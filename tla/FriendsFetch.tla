----------------------------- MODULE FriendsFetch -----------------------------
(***************************************************************************)
(* One call of ATCFirebaseSocialGraphManager.fetchFriends: a query for the *)
(* user's friendship documents, then one lookup per document, whose        *)
(* callbacks come in any order and join by counting: the callback that     *)
(* makes friends.count equal to documents.count calls the completion.      *)
(*                                                                         *)
(* A friend is kept as the document he comes from: two documents may well  *)
(* name the same user, and the list then holds him twice.                  *)
(***************************************************************************)
EXTENDS Naturals, FiniteSets

CONSTANT Docs  \* the documents that may be in the friendships collection

ASSUME DocsAssumption == IsFiniteSet(Docs)

VARIABLES
  stage,      \* "called", "joining", or "over" when the query has failed
  documents,  \* querySnapshot.documents
  lookups,    \* documents whose getDocument callback is outstanding
  friends,    \* the captured list, by document
  completed,  \* how often completion has been called
  delivered,  \* the list it was last called with
  broken      \* history: documents without user2, a record or an answer

vars == <<stage, documents, lookups, friends, completed, delivered, broken>>

TypeOK ==
  /\ stage \in {"called", "joining", "over"}
  /\ documents \subseteq Docs
  /\ lookups \subseteq documents
  /\ friends \subseteq documents
  /\ completed \in Nat
  /\ delivered \subseteq documents
  /\ broken \subseteq documents

Init ==
  /\ stage = "called"
  /\ documents = {}
  /\ lookups = {}
  /\ friends = {}
  /\ completed = 0
  /\ delivered = {}
  /\ broken = {}

Complete(list) == completed' = completed + 1 /\ delivered' = list

\* The query answers. A document whose user2 is not a string is passed over,
\* without a callback that could count it.
QueryAnswered ==
  /\ stage = "called"
  /\ stage' = "joining"
  /\ documents' \in SUBSET Docs
  /\ lookups' \in SUBSET documents'
  /\ broken' = documents' \ lookups'
  /\ IF documents' = {} THEN Complete({}) ELSE UNCHANGED <<completed, delivered>>
  /\ UNCHANGED friends

\* An error, or no snapshot: fetchFriends returns.
QueryFailed ==
  /\ stage = "called"
  /\ stage' = "over"
  /\ UNCHANGED <<documents, lookups, friends, completed, delivered, broken>>

\* Mutant: one less than all is taken for all.
MutantCountsShort(d) ==
  /\ d \in lookups
  /\ lookups' = lookups \ {d}
  /\ friends' = friends \cup {d}
  /\ IF Cardinality(friends') + 1 >= Cardinality(documents)
       THEN Complete(friends') ELSE UNCHANGED <<completed, delivered>>
  /\ UNCHANGED <<stage, documents, broken>>

\* Mutant: the count is compared before the friend is appended.
MutantCountsBefore(d) ==
  /\ d \in lookups
  /\ lookups' = lookups \ {d}
  /\ friends' = friends \cup {d}
  /\ IF Cardinality(friends) = Cardinality(documents)
       THEN Complete(friends') ELSE UNCHANGED <<completed, delivered>>
  /\ UNCHANGED <<stage, documents, broken>>

\* A lookup's callback with the friend's record.
LookupFound(d) ==
  /\ d \in lookups
  /\ lookups' = lookups \ {d}
  /\ friends' = friends \cup {d}
  /\ IF Cardinality(friends') = Cardinality(documents)
       THEN Complete(friends') ELSE UNCHANGED <<completed, delivered>>
  /\ UNCHANGED <<stage, documents, broken>>

\* A lookup's callback without one, for an error or a user who is gone.
LookupEmpty(d) ==
  /\ d \in lookups
  /\ lookups' = lookups \ {d}
  /\ broken' = broken \cup {d}
  /\ UNCHANGED <<stage, documents, friends, completed, delivered>>

Next ==
  \/ QueryAnswered
  \/ QueryFailed
  \/ \E d \in Docs : LookupFound(d) \/ LookupEmpty(d)

Spec == Init /\ [][Next]_vars

\* Firestore calls back, with an error if it must.
FairSpec ==
  /\ Spec
  /\ WF_vars(QueryAnswered \/ QueryFailed)
  /\ \A d \in Docs : WF_vars(LookupFound(d) \/ LookupEmpty(d))

----------------------------------------------------------------------------
\* In whatever order the callbacks come, completion is called at most once,
\* and then with every friendship of the user.
OnceWithAll ==
  /\ completed <= 1
  /\ completed = 1 => delivered = documents

\* The caller is left without an answer exactly when some document had no
\* user2, no record or no answer: the lookups are over and one bad document
\* has silenced all the good ones.
SilentOnlyIfBroken ==
  stage = "joining" /\ lookups = {} => (completed = 0 <=> broken # {})

\* Every document is in exactly one place: looked up, found or broken.
Partition ==
  /\ stage = "joining" => documents = lookups \cup friends \cup broken
  /\ stage # "joining" => documents = {}
  /\ lookups \cap friends = {}
  /\ lookups \cap broken = {}
  /\ friends \cap broken = {}

\* The inductive invariant: completion has been called if and only if the join
\* has found every document.
IInv ==
  /\ TypeOK
  /\ Partition
  /\ completed = IF stage = "joining" /\ friends = documents THEN 1 ELSE 0
  /\ completed = 1 => delivered = documents

\* Unless the query failed or a document was broken, the call is answered.
Answered == <>(completed = 1 \/ stage = "over" \/ broken # {})

=============================================================================
