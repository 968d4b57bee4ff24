---------------------------- MODULE PagingProofs ----------------------------
(***************************************************************************)
(* Proofs, for any page size and any bounds, of what Paging states of one  *)
(* feed: the guard flags of ATCGenericRestAPIDataSource follow their       *)
(* requests; no item is listed twice; and while requests do not overlap,   *)
(* the rows agree with the store, the pages join and the end is the end.   *)
(*                                                                         *)
(* FlagsFollowRequests is not inductive. A handler that succeeds resets    *)
(* the flag, which is right only if no earlier request of the kind has     *)
(* failed; and none has, because the flag a failure leaves set keeps every *)
(* later request of its kind from being sent.                              *)
(*                                                                         *)
(* NoHole and EndMeansComplete rest on where the next page begins, also    *)
(* when the feed has grown since the last one: NextPageJoins, further down.*)
(***************************************************************************)
EXTENDS Paging, WellFoundedInduction, TLAPS

\* The two kinds that have a guard flag: loadFirst has none.
Guarded == {"bottom", "top"}

RequestType ==
  /\ published \in 0..MaxItem
  /\ currentPage \in Nat
  /\ failed \subseteq Kinds
  /\ <<ended, loadingBottom, loadingTop>> \in BOOLEAN \X BOOLEAN \X BOOLEAN
  /\ request \in [Kinds -> [page : Nat, reply : Replies, at : 0..MaxItem]]

\* A failure is the last thing that happens to the requests of its kind.
FailureIsFinal == \A k \in Guarded : ~(Outstanding(k) /\ k \in failed)

FlagInv == RequestType /\ FailureIsFinal /\ FlagsFollowRequests

\* Sending fills one slot of the right type, with a request that is not Unsent.
LEMMA Sent ==
  ASSUME RequestType, NEW k \in Kinds, NEW p \in Nat, Send(k, p)
  PROVE  /\ request' \in [Kinds -> [page : Nat, reply : Replies, at : 0..MaxItem]]
         /\ Outstanding(k)'
         /\ \A j \in Kinds \ {k} : request'[j] = request[j]
         /\ failed' = failed
<1>1. [page |-> p, reply |-> "waiting", at |-> 0]
        \in [page : Nat, reply : Replies, at : 0..MaxItem]
  BY BoundsAssumption DEF Replies
<1>2. [page |-> p, reply |-> "waiting", at |-> 0].reply # Unsent.reply
  BY DEF Unsent
<1> QED BY <1>1, <1>2 DEF Send, RequestType, Outstanding

\* Handling empties one slot and leaves the others.
LEMMA Handled ==
  ASSUME RequestType, NEW k \in Kinds, request' = [request EXCEPT ![k] = Unsent]
  PROVE  /\ request' \in [Kinds -> [page : Nat, reply : Replies, at : 0..MaxItem]]
         /\ ~Outstanding(k)'
         /\ \A j \in Kinds \ {k} : request'[j] = request[j]
<1>1. Unsent \in [page : Nat, reply : Replies, at : 0..MaxItem]
  BY BoundsAssumption DEF Unsent, Replies
<1> QED BY <1>1 DEF RequestType, Outstanding, Unsent

LEMMA FlagInit == Init => FlagInv
<1>1. Unsent \in [page : Nat, reply : Replies, at : 0..MaxItem]
  BY BoundsAssumption DEF Unsent, Replies
<1> SUFFICES ASSUME Init PROVE FlagInv
  OBVIOUS
<1>2. request = [k \in Kinds |-> Unsent] /\ failed = {}
  BY DEF Init
<1>3. RequestType
  BY <1>1, <1>2 DEF Init, RequestType
<1>4. \A k \in Kinds : ~Outstanding(k)
  BY <1>2 DEF Outstanding
<1>5. FlagsFollowRequests
  BY <1>2, <1>4 DEF Init, FlagsFollowRequests, Kinds
<1> QED BY <1>2, <1>3, <1>5 DEF FlagInv, FailureIsFinal

LEMMA FlagStep == FlagInv /\ [Next]_vars => FlagInv'
<1> SUFFICES ASSUME FlagInv, [Next]_vars PROVE FlagInv'
  OBVIOUS
<1> USE DEF FlagInv
<1> "first" \in Kinds /\ "bottom" \in Kinds /\ "top" \in Kinds
    /\ Guarded \subseteq Kinds
  BY DEF Kinds, Guarded
<1>1. CASE ViewDidLoad
  <2>1. Send("first", 0) /\ UNCHANGED <<published, currentPage, flags>>
    BY <1>1 DEF ViewDidLoad
  <2> QED BY <2>1, Sent DEF RequestType, FailureIsFinal, FlagsFollowRequests,
            Outstanding, Guarded, flags
<1>2. CASE PullToRefresh
  <2>1. /\ Send("top", 0)
        /\ ~loadingTop /\ loadingTop' = TRUE
        /\ UNCHANGED <<published, currentPage, ended, loadingBottom>>
    BY <1>2 DEF PullToRefresh
  <2>2. "top" \notin failed
    BY <2>1 DEF FlagsFollowRequests
  <2>3. /\ request' \in [Kinds -> [page : Nat, reply : Replies, at : 0..MaxItem]]
        /\ Outstanding("top")'
        /\ request'["bottom"] = request["bottom"]
        /\ failed' = failed
    BY <2>1, Sent
  <2>4. RequestType'
    BY <2>1, <2>3 DEF RequestType
  <2> QED BY <2>1, <2>2, <2>3, <2>4 DEF FailureIsFinal, FlagsFollowRequests,
            Outstanding, Guarded
<1>3. CASE LastRowDisplayed
  <2>1. /\ Send("bottom", currentPage)
        /\ ~loadingBottom /\ loadingBottom' = TRUE
        /\ UNCHANGED <<published, currentPage, ended, loadingTop>>
    BY <1>3 DEF LastRowDisplayed
  <2>2. "bottom" \notin failed
    BY <2>1 DEF FlagsFollowRequests
  <2>3. currentPage \in Nat
    BY DEF RequestType
  <2>4. /\ request' \in [Kinds -> [page : Nat, reply : Replies, at : 0..MaxItem]]
        /\ Outstanding("bottom")'
        /\ request'["top"] = request["top"]
        /\ failed' = failed
    BY <2>1, <2>3, Sent
  <2>5. RequestType'
    BY <2>1, <2>4 DEF RequestType
  <2> QED BY <2>1, <2>2, <2>4, <2>5 DEF FailureIsFinal, FlagsFollowRequests,
            Outstanding, Guarded
<1>4. CASE FirstLoaded
  <2>1. /\ request' = [request EXCEPT !["first"] = Unsent]
        /\ currentPage' = 1
        /\ ended' \in BOOLEAN
        /\ UNCHANGED <<published, failed, loadingBottom, loadingTop>>
    BY <1>4 DEF FirstLoaded, Succeeds, EndIfEmpty
  <2> QED BY <2>1, Handled DEF RequestType, FailureIsFinal, FlagsFollowRequests,
            Outstanding, Guarded
<1>5. CASE BottomLoaded
  <2>1. /\ request["bottom"].reply \in {"list", "notAList"}
        /\ request' = [request EXCEPT !["bottom"] = Unsent]
        /\ currentPage' = currentPage + 1
        /\ ended' \in BOOLEAN
        /\ loadingBottom' = FALSE
        /\ UNCHANGED <<published, failed, loadingTop>>
    BY <1>5 DEF BottomLoaded, Succeeds, EndIfEmpty
  <2>2. Outstanding("bottom")
    BY <2>1 DEF Outstanding, Unsent
  <2>3. "bottom" \notin failed
    BY <2>2 DEF FailureIsFinal, Guarded
  <2>4. /\ request' \in [Kinds -> [page : Nat, reply : Replies, at : 0..MaxItem]]
        /\ ~Outstanding("bottom")'
        /\ request'["top"] = request["top"]
    BY <2>1, Handled
  <2>5. currentPage' \in Nat
    BY <2>1 DEF RequestType
  <2>6. <<ended', loadingBottom', loadingTop'>> \in BOOLEAN \X BOOLEAN \X BOOLEAN
    BY <2>1 DEF RequestType
  <2>7. RequestType'
    BY <2>1, <2>4, <2>5, <2>6 DEF RequestType
  <2> QED BY <2>1, <2>3, <2>4, <2>7 DEF FailureIsFinal, FlagsFollowRequests,
            Outstanding, Guarded
<1>6. CASE TopLoaded
  <2>1. /\ request["top"].reply \in {"list", "notAList"}
        /\ request' = [request EXCEPT !["top"] = Unsent]
        /\ loadingTop' = FALSE
        /\ UNCHANGED <<published, failed, currentPage, ended, loadingBottom>>
    BY <1>6 DEF TopLoaded, Succeeds
  <2>2. Outstanding("top")
    BY <2>1 DEF Outstanding, Unsent
  <2>3. "top" \notin failed
    BY <2>2 DEF FailureIsFinal, Guarded
  <2> QED BY <2>1, <2>3, Handled DEF RequestType, FailureIsFinal,
            FlagsFollowRequests, Outstanding, Guarded
<1>7. ASSUME NEW k \in Kinds, Answer(k) PROVE FlagInv'
  <2>1. PICK r \in {"list", "notAList", "error"} :
          request' = [request EXCEPT ![k] =
                        [page |-> request[k].page, reply |-> r, at |-> published]]
    BY <1>7 DEF Answer
  <2>2. request[k].page \in Nat /\ published \in 0..MaxItem
    BY DEF RequestType
  <2>3. request' \in [Kinds -> [page : Nat, reply : Replies, at : 0..MaxItem]]
    BY <2>1, <2>2 DEF RequestType, Replies
  <2>4. \A j \in Kinds : Outstanding(j)' <=> Outstanding(j)
    <3>1. [page |-> request[k].page, reply |-> r, at |-> published].reply # Unsent.reply
      BY DEF Unsent
    <3>2. request[k].reply # Unsent.reply
      BY <1>7 DEF Answer, Unsent
    <3> QED BY <2>1, <3>1, <3>2 DEF Outstanding, RequestType
  <2> QED BY <1>7, <2>3, <2>4 DEF Answer, RequestType, FailureIsFinal,
            FlagsFollowRequests, Guarded, flags, history
<1>8. ASSUME NEW k \in Kinds, ErrorIgnored(k) PROVE FlagInv'
  <2>1. /\ request[k].reply = "error"
        /\ request' = [request EXCEPT ![k] = Unsent]
        /\ failed' = failed \cup {k}
        /\ UNCHANGED <<published, currentPage, flags>>
    BY <1>8 DEF ErrorIgnored
  <2>2. Outstanding(k)
    BY <2>1 DEF Outstanding, Unsent
  <2> QED BY <2>1, <2>2, Handled DEF RequestType, FailureIsFinal,
            FlagsFollowRequests, Outstanding, Guarded, flags
<1>9. CASE Layout \/ Publish \/ UNCHANGED vars
  <2>1. /\ UNCHANGED <<request, failed, currentPage, flags>>
        /\ published' \in 0..MaxItem
    BY <1>9, BoundsAssumption DEF Layout, Publish, vars, history, RequestType
  <2> QED BY <2>1 DEF RequestType, FailureIsFinal, FlagsFollowRequests, Outstanding, flags
<1> QED BY <1>1, <1>2, <1>3, <1>4, <1>5, <1>6, <1>7, <1>8, <1>9 DEF Next, Handler

\* A guard flag of the data source is set exactly while its request is on its
\* way, and for good once it failed (isLoadingBottom, isLoadingTop).
THEOREM GuardFlags == Spec => []FlagsFollowRequests
<1>1. FlagInv => FlagsFollowRequests
  BY DEF FlagInv
<1> QED BY FlagInit, FlagStep, <1>1, PTL DEF Spec

----------------------------------------------------------------------------
(* Induction. Every non-empty set of natural numbers has a least element,   *)
(* so a set with 0 and the successor of each of its members has them all;   *)
(* so a loop over n elements has a result after each of them.               *)

LEMMA LeastNumber ==
  ASSUME NEW T, T \subseteq Nat, T # {}
  PROVE  \E x \in T : \A y \in T : x <= y
<1> DEFINE R == OpToRel(<, Nat)
<1>1. IsWellFoundedOn(R, Nat)
  BY NatLessThanWellFounded, Zenon
<1>2. \A x, y \in Nat : y < x => <<y, x>> \in R
  BY DEF OpToRel
<1> HIDE DEF R
<1>3. PICK x \in T : \A y \in T : ~(<<y, x>> \in R)
  BY <1>1, WFMin
<1>4. ASSUME NEW y \in T PROVE x <= y
  <2>1. x \in Nat /\ y \in Nat /\ ~(y < x)
    BY <1>2, <1>3
  <2> QED BY <2>1
<1> QED BY <1>4

LEMMA SetInduction ==
  ASSUME NEW S, 0 \in S, \A n \in Nat : n \in S => n + 1 \in S
  PROVE  Nat \subseteq S
<1> DEFINE T == Nat \ S
<1> SUFFICES ASSUME T # {} PROVE FALSE
  OBVIOUS
<1>1. PICK x \in T : \A y \in T : x <= y
  <2> HIDE DEF T
  <2>1. T \subseteq Nat
    BY DEF T
  <2> QED BY <2>1, LeastNumber
<1>2. x # 0 /\ x \in Nat
  OBVIOUS
<1>3. x - 1 \in Nat /\ x - 1 \notin T
  BY <1>1, <1>2
<1> QED BY <1>3

\* What a loop does to a result in S at each of its n elements, and the results.
Bodies(S, n) == [S \X (1..n) -> S]
IsLoop(f, S, n, base, body) ==
  f \in [0..n -> S] /\ f[0] = base /\ \A i \in 1..n : f[i] = body[<<f[i - 1], i>>]

LEMMA Iteration ==
  ASSUME NEW S, NEW n \in Nat, NEW base \in S, NEW body \in Bodies(S, n)
  PROVE  \E f : IsLoop(f, S, n, base, body)
<1> body \in [S \X (1..n) -> S]
  BY DEF Bodies
<1> DEFINE Good(m, f) == f[0] = base /\ \A i \in 1..m : f[i] = body[<<f[i - 1], i>>]
           Done == {m \in Nat : m <= n => \E f \in [0..m -> S] : Good(m, f)}
<1>1. 0 \in Done
  <2>1. [i \in 0..0 |-> base] \in [0..0 -> S] /\ Good(0, [i \in 0..0 |-> base])
    OBVIOUS
  <2> QED BY <2>1
<1>2. ASSUME NEW m \in Nat, m \in Done PROVE m + 1 \in Done
  <2> SUFFICES ASSUME m + 1 <= n PROVE \E f \in [0..m + 1 -> S] : Good(m + 1, f)
    OBVIOUS
  <2>1. PICK f \in [0..m -> S] : Good(m, f)
    BY <1>2
  <2> DEFINE v == body[<<f[m], m + 1>>]
             g == [i \in 0..m + 1 |-> IF i = m + 1 THEN v ELSE f[i]]
  <2>2. v \in S
    OBVIOUS
  <2>3. g \in [0..m + 1 -> S]
    <3> HIDE DEF v
    <3> QED BY <2>2
  <2>4. ASSUME NEW i \in 1..m + 1 PROVE g[i] = body[<<g[i - 1], i>>]
    <3>1. CASE i = m + 1
      <4>1. g[i] = v /\ i - 1 = m /\ g[i - 1] = f[m]
        BY <3>1
      <4> QED BY <3>1, <4>1
    <3>2. CASE i # m + 1
      <4>1. i \in 1..m /\ i - 1 \in 0..m
        BY <3>2
      <4>2. g[i] = f[i] /\ g[i - 1] = f[i - 1]
        BY <4>1
      <4> QED BY <2>1, <4>1, <4>2
    <3> QED BY <3>1, <3>2
  <2>5. g[0] = base
    BY <2>1
  <2>6. Good(m + 1, g)
    <3> HIDE DEF g
    <3> QED BY <2>4, <2>5
  <2> HIDE DEF g
  <2> QED BY <2>3, <2>6
<1>3. n \in Done
  <2> HIDE DEF Done
  <2> QED BY <1>1, <1>2, SetInduction
<1> QED BY <1>3 DEF IsLoop

----------------------------------------------------------------------------
(* The loop over the objects of an answer.                                 *)

LEMMA Appended ==
  ASSUME NEW A, NEW s \in Seq(A), NEW r \in Seq(A), NEW x \in A
  PROVE  /\ Append(r, x) \in Seq(A)
         /\ Range(s \o Append(r, x)) = Range(s \o r) \cup {x}
         /\ IsInjective(s \o r) /\ x \notin Range(s \o r) => IsInjective(s \o Append(r, x))
<1> DEFINE q == s \o r  t == s \o Append(r, x)  n == Len(q)
<1>1. /\ q \in Seq(A) /\ n \in Nat /\ DOMAIN q = 1..n
      /\ t \in Seq(A) /\ Len(t) = n + 1 /\ DOMAIN t = 1..n + 1
      /\ t[n + 1] = x
      /\ Append(r, x) \in Seq(A)
  OBVIOUS
<1>2. \A i \in 1..n : t[i] = q[i]
  OBVIOUS
<1> HIDE DEF q, t, n
<1>3. Range(t) = Range(q) \cup {x}
  <2>1. Range(t) \subseteq Range(q) \cup {x}
    BY <1>1, <1>2 DEF Range
  <2>2. x \in Range(t)
    BY <1>1 DEF Range
  <2>3. Range(q) \subseteq Range(t)
    <3>1. ASSUME NEW i \in 1..n PROVE q[i] \in Range(t)
      <4>1. i \in 1..n + 1 /\ t[i] = q[i]
        BY <1>1, <1>2
      <4> QED BY <1>1, <4>1 DEF Range
    <3> QED BY <1>1, <3>1 DEF Range
  <2> QED BY <2>1, <2>2, <2>3
<1>4. ASSUME IsInjective(q), x \notin Range(q) PROVE IsInjective(t)
  <2>1. \A i \in 1..n : t[i] # x
    BY <1>1, <1>2, <1>4 DEF Range
  <2> QED BY <1>1, <1>2, <1>4, <2>1 DEF IsInjective
<1> QED BY <1>1, <1>3, <1>4 DEF q, t

LEMMA UnseenFacts ==
  ASSUME NEW k \in Kinds, NEW A, Objects(k) \in Seq(A), store \in Seq(A)
  PROVE  /\ Unseen(k) \in Seq(A)
         /\ Range(store \o Unseen(k)) = Range(store) \cup Range(Objects(k))
         /\ IsInjective(store) => IsInjective(store \o Unseen(k))
<1> DEFINE objects == Objects(k)
           n == Len(objects)
           Step(r, i) == IF FindStreamObject(objects[i], r) THEN r ELSE Append(r, objects[i])
           Loop(f) == [i \in 0..n |-> IF i = 0 THEN <<>> ELSE Step(f[i - 1], i)]
           results == CHOOSE f : f = Loop(f)
           Seen(i) == Range(store) \cup {objects[j] : j \in 1..i}
           Good == {i \in Nat : i <= n =>
                      /\ results[i] \in Seq(A)
                      /\ Range(store \o results[i]) = Seen(i)
                      /\ IsInjective(store) => IsInjective(store \o results[i])}
<1>1. n \in Nat /\ DOMAIN objects = 1..n /\ \A i \in 1..n : objects[i] \in A
  OBVIOUS
<1>2. Unseen(k) = results[n]
  BY DEF Unseen
<1> HIDE DEF objects, n
<1>3. results = Loop(results)
  <2> DEFINE Body == [p \in Seq(A) \X (1..n) |-> Step(p[1], p[2])]
  <2>1. Body \in [Seq(A) \X (1..n) -> Seq(A)]
    <3>1. ASSUME NEW r \in Seq(A), NEW i \in 1..n PROVE Step(r, i) \in Seq(A)
      BY <1>1, Appended
    <3> HIDE DEF Step
    <3> QED BY <3>1
  <2>2. PICK f : IsLoop(f, Seq(A), n, <<>>, Body)
    <3>1. <<>> \in Seq(A) /\ Body \in Bodies(Seq(A), n)
      BY <2>1 DEF Bodies
    <3> HIDE DEF Body
    <3> QED BY <1>1, <3>1, Iteration
  <2>3. ASSUME NEW i \in 1..n PROVE f[i] = Step(f[i - 1], i)
    <3> HIDE DEF Step
    <3>1. f[i - 1] \in Seq(A)
      BY <1>1, <2>2 DEF IsLoop
    <3> QED BY <2>2, <3>1 DEF IsLoop
  <2>4. f = Loop(f)
    <3> HIDE DEF Step
    <3> QED BY <1>1, <2>2, <2>3 DEF IsLoop
  <2> HIDE DEF Loop
  <2> QED BY <2>4
<1> HIDE DEF results
<1>4. results[0] = <<>> /\ \A i \in 1..n : results[i] = Step(results[i - 1], i)
  <2> HIDE DEF Step
  <2> QED BY <1>1, <1>3
<1>5. 0 \in Good
  <2>1. store \o results[0] = store /\ results[0] \in Seq(A)
    BY <1>4
  <2>2. Seen(0) = Range(store)
    OBVIOUS
  <2> HIDE DEF Seen
  <2> QED BY <2>1, <2>2
<1>6. ASSUME NEW m \in Nat, m \in Good PROVE m + 1 \in Good
  <2> SUFFICES ASSUME m + 1 <= n PROVE m + 1 \in Good
    OBVIOUS
  <2> DEFINE r == results[m]  x == objects[m + 1]
  <2>1. /\ r \in Seq(A) /\ Range(store \o r) = Seen(m)
        /\ IsInjective(store) => IsInjective(store \o r)
    BY <1>1, <1>6
  <2>2. results[m + 1] = Step(r, m + 1) /\ x \in A
    BY <1>1, <1>4
  <2>3. Seen(m + 1) = Seen(m) \cup {x}
    <3>1. 1..m + 1 = 1..m \cup {m + 1}
      OBVIOUS
    <3> QED BY <3>1
  <2> HIDE DEF Seen, r, x
  <2>4. CASE x \in Range(store \o r)
    <3>1. results[m + 1] = r
      BY <2>2, <2>4 DEF x, FindStreamObject
    <3>2. Seen(m + 1) = Seen(m)
      BY <2>1, <2>3, <2>4
    <3> QED BY <2>1, <3>1, <3>2
  <2>5. CASE x \notin Range(store \o r)
    <3>1. results[m + 1] = Append(r, x)
      BY <2>2, <2>5 DEF x, FindStreamObject
    <3>2. /\ Append(r, x) \in Seq(A)
          /\ Range(store \o Append(r, x)) = Range(store \o r) \cup {x}
          /\ IsInjective(store \o r) /\ x \notin Range(store \o r) => IsInjective(store \o Append(r, x))
      BY <2>1, <2>2, Appended
    <3>3. Range(store \o results[m + 1]) = Seen(m + 1)
      BY <2>1, <2>3, <3>1, <3>2
    <3>4. results[m + 1] \in Seq(A)
      BY <3>1, <3>2
    <3>5. IsInjective(store) => IsInjective(store \o results[m + 1])
      BY <2>1, <2>5, <3>1, <3>2
    <3> QED BY <3>3, <3>4, <3>5
  <2> QED BY <2>4, <2>5
<1>7. n \in Good
  <2> HIDE DEF Good
  <2> QED BY <1>1, <1>5, <1>6, SetInduction
<1>8. Seen(n) = Range(store) \cup Range(objects)
  BY <1>1 DEF Range
<1> QED BY <1>1, <1>2, <1>7, <1>8 DEF objects

----------------------------------------------------------------------------
(* The pages.                                                              *)

\* Items that precede a page are never fewer for having published more.
LEMMA LeftFacts ==
  ASSUME NEW p \in Nat, NEW n \in Nat
  PROVE  /\ Left(p, n) \in 0..n
         /\ Left(0, n) = n
         /\ Left(p + 1, n) <= Left(p, n)
         /\ Left(p + 1, n) = Left(p, n) <=> Left(p, n) = 0
         /\ \A m \in Nat : n <= m => Left(p, n) <= Left(p, m)
<1> DEFINE q == p * PageSize
<1>1. PageSize \in Nat \ {0}
  BY BoundsAssumption
<1>2. q \in Nat /\ (p + 1) * PageSize = q + PageSize /\ 0 * PageSize = 0
  BY <1>1
<1>3. /\ \A m : Left(p, m) = IF m > q THEN m - q ELSE 0
      /\ Left(p + 1, n) = IF n > q + PageSize THEN n - (q + PageSize) ELSE 0
      /\ Left(0, n) = IF n > 0 THEN n - 0 ELSE 0
  BY <1>2 DEF Left
<1> HIDE DEF q
<1> QED BY <1>1, <1>2, <1>3

LEMMA ListOf ==
  ASSUME NEW S, NEW n \in Nat, NEW f \in [1..n -> S]
  PROVE  f \in Seq(S) /\ Len(f) = n /\ DOMAIN f = 1..n
OBVIOUS

\* A page holds the items from Left(p, n) down to the first of the next page.
LEMMA PageFacts ==
  ASSUME NEW p \in Nat, NEW n \in 0..MaxItem
  PROVE  /\ Page(p, n) \in Seq(1..MaxItem)
         /\ Range(Page(p, n)) = Left(p + 1, n) + 1..Left(p, n)
         /\ Page(p, n) = <<>> <=> Left(p, n) = 0
         /\ Left(p, n) # 0 => /\ Head(Page(p, n)) = Left(p, n)
                              /\ Last(Page(p, n)) = Left(p + 1, n) + 1
<1> DEFINE first == Left(p, n)  rest == Left(p + 1, n)  len == first - rest
<1>1. /\ n \in Nat /\ MaxItem \in Nat /\ n <= MaxItem
      /\ first \in 0..n /\ rest \in 0..n /\ rest <= first
      /\ rest = first <=> first = 0
  BY BoundsAssumption, LeftFacts
<1>2. Page(p, n) = [i \in 1..len |-> first + 1 - i]
  BY DEF Page
<1> HIDE DEF first, rest
<1>3. len \in Nat /\ \A i \in 1..len : first + 1 - i \in 1..MaxItem
  BY <1>1
<1>4. Page(p, n) \in Seq(1..MaxItem) /\ Len(Page(p, n)) = len /\ DOMAIN Page(p, n) = 1..len
  <2> HIDE DEF len
  <2>1. Page(p, n) \in [1..len -> 1..MaxItem]
    BY <1>2, <1>3
  <2> QED BY <1>3, <2>1, ListOf
<1>5. \A i \in 1..len : Page(p, n)[i] = first + 1 - i
  BY <1>2
<1>6. Range(Page(p, n)) = rest + 1..first
  <2>1. ASSUME NEW x \in rest + 1..first PROVE x \in Range(Page(p, n))
    <3>1. first + 1 - x \in 1..len /\ x = first + 1 - (first + 1 - x)
      BY <1>1
    <3>2. Page(p, n)[first + 1 - x] = x
      BY <1>1, <1>5, <3>1
    <3> QED BY <1>4, <3>1, <3>2 DEF Range
  <2>2. \A i \in 1..len : first + 1 - i \in rest + 1..first
    BY <1>1
  <2>3. Range(Page(p, n)) \subseteq rest + 1..first
    BY <1>4, <1>5, <2>2 DEF Range
  <2> QED BY <2>1, <2>3
<1>7. Page(p, n) = <<>> <=> first = 0
  <2>1. Page(p, n) = <<>> <=> len = 0
    BY <1>3, <1>4
  <2> QED BY <1>1, <2>1
<1>8. ASSUME first # 0 PROVE Head(Page(p, n)) = first /\ Last(Page(p, n)) = rest + 1
  <2>1. 1 \in 1..len /\ len \in 1..len /\ first + 1 - len = rest + 1 /\ first + 1 - 1 = first
    BY <1>1, <1>8
  <2>2. Page(p, n)[1] = first /\ Page(p, n)[len] = rest + 1
    BY <1>5, <2>1
  <2> HIDE DEF len
  <2> QED BY <1>4, <2>1, <2>2 DEF Last
<1> QED BY <1>4, <1>6, <1>7, <1>8 DEF first, rest

----------------------------------------------------------------------------
(* What the handlers do, and types.                                        *)

LEMMA ObjectsFacts ==
  ASSUME TypeOK, NEW k \in Kinds
  PROVE  LET p == request[k].page
             n == request[k].at
         IN /\ Objects(k) \in Seq(1..MaxItem)
            /\ request[k].reply = "list" /\ Objects(k) = <<>> => Left(p, n) = 0
            /\ Objects(k) # <<>> =>
                 /\ request[k].reply = "list"
                 /\ Left(p, n) # 0
                 /\ Range(Objects(k)) = Left(p + 1, n) + 1..Left(p, n)
                 /\ Head(Objects(k)) = Left(p, n)
                 /\ Last(Objects(k)) = Left(p + 1, n) + 1
<1> DEFINE p == request[k].page  n == request[k].at
<1>1. p \in Nat /\ n \in 0..MaxItem
  BY DEF TypeOK
<1>2. Objects(k) = IF request[k].reply = "list" THEN Page(p, n) ELSE <<>>
  BY DEF Objects
<1> HIDE DEF p, n
<1>3. CASE request[k].reply = "list"
  BY <1>1, <1>2, <1>3, PageFacts DEF p, n
<1>4. CASE request[k].reply # "list"
  BY <1>2, <1>4
<1> QED BY <1>3, <1>4

LEMMA Succeeded ==
  ASSUME TypeOK, NEW k \in Kinds, Succeeds(k)
  PROVE  /\ store' \in Seq(1..MaxItem)
         /\ Len(store') = Len(store) + Len(Unseen(k))
         /\ Len(Unseen(k)) \in Nat
         /\ Range(store)' = Range(store) \cup Range(Objects(k))
         /\ NoDuplicates => NoDuplicates'
<1>1. store \in Seq(1..MaxItem) /\ Objects(k) \in Seq(1..MaxItem)
  BY ObjectsFacts DEF TypeOK
<1>2. /\ Unseen(k) \in Seq(1..MaxItem)
      /\ Range(store \o Unseen(k)) = Range(store) \cup Range(Objects(k))
      /\ IsInjective(store) => IsInjective(store \o Unseen(k))
  BY <1>1, UnseenFacts
<1>3. store' = store \o Unseen(k)
  BY DEF Succeeds
<1>4. NoDuplicates => NoDuplicates'
  <2>1. IsInjective(store) => IsInjective(store')
    BY <1>2, <1>3
  <2> QED BY <2>1 DEF NoDuplicates, IsInjective
<1>5. Range(store)' = Range(store')
  BY DEF Range
<1> QED BY <1>1, <1>2, <1>3, <1>4, <1>5

LEMMA ReachFacts ==
  ASSUME TypeOK, NEW k \in Kinds, Reach(k)
  PROVE  LET p == request[k].page
             n == request[k].at
         IN /\ newest' \in 0..MaxItem /\ reached' \in 0..MaxItem
            /\ Objects(k) = <<>> => newest' = newest /\ reached' = reached
            /\ Objects(k) # <<>> =>
                 /\ newest' = IF newest = 0 THEN Left(p, n) ELSE newest
                 /\ reached' = IF newest = 0 \/ Left(p + 1, n) + 1 <= reached
                                 THEN Left(p + 1, n) ELSE reached
<1> DEFINE p == request[k].page  n == request[k].at
<1>1. p \in Nat /\ n \in 0..MaxItem /\ newest \in 0..MaxItem /\ reached \in 0..MaxItem
  BY DEF TypeOK
<1>2. n \in Nat /\ n <= MaxItem /\ Left(p, n) \in 0..n /\ Left(p + 1, n) \in 0..n
  <2> HIDE DEF p, n
  <2>1. n \in Nat /\ n <= MaxItem /\ p + 1 \in Nat
    BY <1>1, BoundsAssumption
  <2> QED BY <1>1, <2>1, LeftFacts
<1>3. CASE Objects(k) = <<>>
  BY <1>1, <1>3 DEF Reach
<1>4. CASE Objects(k) # <<>>
  <2>1. Head(Objects(k)) = Left(p, n) /\ Last(Objects(k)) = Left(p + 1, n) + 1
    BY <1>4, ObjectsFacts
  <2>2. /\ newest' = IF newest = 0 THEN Head(Objects(k)) ELSE newest
        /\ reached' = IF newest = 0 \/ Last(Objects(k)) <= reached
                        THEN Last(Objects(k)) - 1 ELSE reached
    BY <1>4 DEF Reach
  <2> HIDE DEF p, n
  <2>3. /\ newest' = IF newest = 0 THEN Left(p, n) ELSE newest
        /\ reached' = IF newest = 0 \/ Left(p + 1, n) + 1 <= reached
                        THEN Left(p + 1, n) ELSE reached
    BY <1>2, <2>1, <2>2
  <2>4. newest' \in 0..MaxItem /\ reached' \in 0..MaxItem
    BY <1>1, <1>2, <2>3, BoundsAssumption
  <2> QED BY <1>4, <2>3, <2>4 DEF p, n
<1> QED BY <1>3, <1>4

LEMMA Requests ==
  ASSUME TypeOK
  PROVE  RequestType /\ "first" \in Kinds /\ "bottom" \in Kinds /\ "top" \in Kinds
BY DEF TypeOK, RequestType, Kinds

LEMMA AnswerFacts ==
  ASSUME TypeOK, NEW k \in Kinds, Answer(k)
  PROVE  /\ request' \in [Kinds -> [page : Nat, reply : Replies, at : 0..MaxItem]]
         /\ request'[k].page = request[k].page /\ request'[k].at = published
         /\ Outstanding(k) /\ Outstanding(k)'
         /\ \A j \in Kinds \ {k} : request'[j] = request[j]
<1>1. PICK r \in {"list", "notAList", "error"} :
        request' = [request EXCEPT ![k] =
                      [page |-> request[k].page, reply |-> r, at |-> published]]
  BY DEF Answer
<1>2. request[k].page \in Nat /\ published \in 0..MaxItem
  BY DEF TypeOK
<1>3. request' \in [Kinds -> [page : Nat, reply : Replies, at : 0..MaxItem]]
  BY <1>1, <1>2 DEF TypeOK, Replies
<1>4. request[k].reply # Unsent.reply
  BY DEF Answer, Unsent
<1>5. [page |-> request[k].page, reply |-> r, at |-> published].reply # Unsent.reply
  BY DEF Unsent
<1> QED BY <1>1, <1>3, <1>4, <1>5 DEF TypeOK, Outstanding

LEMMA TypeInit == Init => TypeOK
<1> SUFFICES ASSUME Init PROVE TypeOK
  OBVIOUS
<1>1. request \in [Kinds -> [page : Nat, reply : Replies, at : 0..MaxItem]]
  BY FlagInit DEF FlagInv, RequestType
<1>2. store \in Seq(1..MaxItem) /\ failed \subseteq Kinds
  BY DEF Init
<1>3. /\ published \in 0..MaxItem /\ newest \in 0..MaxItem /\ reached \in 0..MaxItem
      /\ currentPage \in Nat /\ rows \in Nat
  BY BoundsAssumption DEF Init
<1>4. /\ loaded \in BOOLEAN /\ overlapped \in BOOLEAN /\ malformed \in BOOLEAN
      /\ <<ended, loadingBottom, loadingTop>> \in BOOLEAN \X BOOLEAN \X BOOLEAN
      /\ <<stale, spinner, refreshing>> \in BOOLEAN \X BOOLEAN \X BOOLEAN
  BY DEF Init
<1> QED BY <1>1, <1>2, <1>3, <1>4 DEF TypeOK

LEMMA TypeStep == TypeOK /\ [Next]_vars => TypeOK'
<1> SUFFICES ASSUME TypeOK, [Next]_vars PROVE TypeOK'
  OBVIOUS
<1> USE Requests
<1>0. store \in Seq(1..MaxItem) /\ Len(store) \in Nat /\ rows \in Nat /\ currentPage \in Nat
  BY DEF TypeOK
<1>1. CASE ViewDidLoad
  <2>1. Send("first", 0)
    BY <1>1 DEF ViewDidLoad
  <2> QED BY <1>1, <2>1, Sent DEF ViewDidLoad, Send, TypeOK, flags
<1>2. CASE PullToRefresh
  <2>1. Send("top", 0)
    BY <1>2 DEF PullToRefresh
  <2> QED BY <1>2, <2>1, Sent DEF PullToRefresh, Send, TypeOK, flags
<1>3. CASE LastRowDisplayed
  <2>1. Send("bottom", currentPage)
    BY <1>3 DEF LastRowDisplayed
  <2> QED BY <1>0, <1>3, <2>1, Sent DEF LastRowDisplayed, Send, TypeOK, flags, view
<1>4. CASE Layout
  BY <1>0, <1>4 DEF Layout, TypeOK, flags, history
<1>5. CASE Publish
  BY <1>5, BoundsAssumption DEF Publish, TypeOK, flags, view, history
<1>6. ASSUME NEW k \in Kinds, Answer(k) PROVE TypeOK'
  BY <1>6, AnswerFacts DEF Answer, TypeOK, flags, view, history
<1>7. CASE FirstLoaded
  <2>1. Succeeds("first") /\ Reach("first")
    BY <1>7 DEF FirstLoaded
  <2>2. request' \in [Kinds -> [page : Nat, reply : Replies, at : 0..MaxItem]]
    BY <2>1, Handled DEF Succeeds
  <2> QED BY <1>7, <2>1, <2>2, Succeeded, ReachFacts DEF FirstLoaded, Succeeds, EndIfEmpty, TypeOK
<1>8. CASE BottomLoaded
  <2>1. Succeeds("bottom") /\ Reach("bottom")
    BY <1>8 DEF BottomLoaded
  <2>2. request' \in [Kinds -> [page : Nat, reply : Replies, at : 0..MaxItem]]
    BY <2>1, Handled DEF Succeeds
  <2>3. rows' \in Nat /\ stale' = FALSE
    BY <1>0, <1>8, <2>1, Succeeded DEF BottomLoaded, InsertRows
  <2>4. newest' \in 0..MaxItem /\ reached' \in 0..MaxItem /\ currentPage' \in Nat
    BY <1>0, <1>8, <2>1, ReachFacts DEF BottomLoaded
  <2>5. store' \in Seq(1..MaxItem)
    BY <2>1, Succeeded
  <2>6. /\ ended' \in BOOLEAN /\ loadingBottom' \in BOOLEAN /\ malformed' \in BOOLEAN
        /\ UNCHANGED <<published, loaded, loadingTop, spinner, refreshing, overlapped, failed>>
    BY <1>8, <2>1 DEF BottomLoaded, Succeeds, EndIfEmpty
  <2> QED BY <2>2, <2>3, <2>4, <2>5, <2>6 DEF TypeOK
<1>9. CASE TopLoaded
  <2>1. Succeeds("top")
    BY <1>9 DEF TopLoaded
  <2>2. request' \in [Kinds -> [page : Nat, reply : Replies, at : 0..MaxItem]]
    BY <2>1, Handled DEF Succeeds
  <2> QED BY <1>9, <2>1, <2>2, Succeeded DEF TopLoaded, Succeeds, TypeOK
<1>10. ASSUME NEW k \in Kinds, ErrorIgnored(k) PROVE TypeOK'
  <2>1. request' \in [Kinds -> [page : Nat, reply : Replies, at : 0..MaxItem]]
    BY <1>10, Handled DEF ErrorIgnored
  <2> QED BY <1>10, <2>1 DEF ErrorIgnored, TypeOK, flags, view
<1>11. CASE UNCHANGED vars
  BY <1>11 DEF vars, flags, view, history, TypeOK
<1> QED BY <1>1, <1>2, <1>3, <1>4, <1>5, <1>6, <1>7, <1>8, <1>9, <1>10, <1>11 DEF Next, Handler

----------------------------------------------------------------------------
(* Requests in turn. While no two of them overlap, the page that is asked   *)
(* for begins no lower than the pages before it reached: the feed grows     *)
(* only at its top, which moves its items down, never up.                   *)

Pristine ==
  ~loaded => /\ newest = 0 /\ rows = 0 /\ ~stale /\ ~ended
             /\ \A k \in Kinds : ~Outstanding(k)

Dated == \A k \in Kinds : request[k].at <= published

OneAtATime == \A j, k \in Kinds : Outstanding(j) /\ Outstanding(k) => j = k

FirstIsFirst == Outstanding("first") => newest = 0 /\ ~ended /\ request["first"].page = 0

BottomIsNext == Outstanding("bottom") => ~stale /\ ~ended /\ request["bottom"].page = currentPage

NextPageJoins ==
  newest # 0 =>
    /\ request["bottom"].reply = "list" => reached <= Left(currentPage, request["bottom"].at)
    /\ ~ended => reached <= Left(currentPage, published)
    /\ ended /\ ~malformed => reached = 0

Whole == \A i \in reached + 1..newest : i \in Range(store)

InTurn == Consistent /\ OneAtATime /\ FirstIsFirst /\ BottomIsNext /\ NextPageJoins /\ Whole

PagingInv == TypeOK /\ NoDuplicates /\ Pristine /\ Dated /\ (~overlapped => InTurn)

LEMMA PagingInit == Init => PagingInv
<1> SUFFICES ASSUME Init PROVE PagingInv
  OBVIOUS
<1> USE Requests, TypeInit
<1>1. store = <<>> /\ Len(store) = 0 /\ DOMAIN store = {}
  BY DEF Init
<1>2. /\ TypeOK /\ \A k \in Kinds : request[k] = Unsent
      /\ newest = 0 /\ rows = 0 /\ ~stale /\ ~ended /\ reached = 0 /\ published \in Nat
  BY BoundsAssumption DEF Init
<1>3. NoDuplicates
  BY <1>1 DEF NoDuplicates
<1>4. \A k \in Kinds : ~Outstanding(k)
  BY <1>2 DEF Outstanding
<1>5. Dated
  BY <1>2 DEF Dated, Unsent
<1>6. Consistent
  BY <1>1, <1>2 DEF Consistent
<1>7. Whole
  BY <1>2 DEF Whole
<1>8. Pristine /\ OneAtATime /\ FirstIsFirst /\ BottomIsNext /\ NextPageJoins
  BY <1>2, <1>4 DEF Pristine, OneAtATime, FirstIsFirst, BottomIsNext, NextPageJoins
<1> QED BY <1>2, <1>3, <1>5, <1>6, <1>7, <1>8 DEF PagingInv, InTurn

\* A request that is sent while none is outstanding.
LEMMA SentInTurn ==
  ASSUME TypeOK, Dated, NEW k \in Kinds, NEW p \in Nat, Send(k, p), UNCHANGED published
  PROVE  /\ Dated'
         /\ ~overlapped' => /\ ~overlapped
                            /\ \A j \in Kinds : ~Outstanding(j)
                            /\ request'[k] = [page |-> p, reply |-> "waiting", at |-> 0]
                            /\ \A j \in Kinds \ {k} : request'[j] = Unsent /\ ~Outstanding(j)'
         /\ newest' = newest /\ reached' = reached /\ malformed' = malformed
<1>1. request' = [request EXCEPT ![k] = [page |-> p, reply |-> "waiting", at |-> 0]]
  BY DEF Send
<1>2. request \in [Kinds -> [page : Nat, reply : Replies, at : 0..MaxItem]] /\ published \in Nat
  BY BoundsAssumption DEF TypeOK
<1>3. request'[k] = [page |-> p, reply |-> "waiting", at |-> 0]
      /\ \A j \in Kinds \ {k} : request'[j] = request[j]
  BY <1>1, <1>2
<1>4. Dated'
  BY <1>2, <1>3 DEF Dated
<1>5. ~overlapped' => ~overlapped /\ \A j \in Kinds : request[j] = Unsent
  BY DEF Send, Outstanding
<1> QED BY <1>3, <1>4, <1>5 DEF Send, Outstanding

LEMMA ViewDidLoadStep ==
  ASSUME PagingInv, ViewDidLoad, TypeOK'
  PROVE  PagingInv'
<1> USE Requests DEF PagingInv
<1>1. /\ ~loaded /\ loaded' /\ Send("first", 0)
      /\ UNCHANGED <<published, store, currentPage, ended, loadingBottom, loadingTop, rows, stale, refreshing>>
  BY DEF ViewDidLoad, flags
<1>2. NoDuplicates' /\ Range(store)' = Range(store)
  BY <1>1 DEF NoDuplicates, Range
<1>3. Pristine'
  BY <1>1 DEF Pristine
<1>4. Dated'
  BY <1>1, SentInTurn
<1>5. ASSUME ~overlapped' PROVE InTurn'
  <2>1. /\ ~overlapped /\ request'["first"] = [page |-> 0, reply |-> "waiting", at |-> 0]
        /\ \A j \in Kinds \ {"first"} : request'[j] = Unsent /\ ~Outstanding(j)'
        /\ newest' = newest /\ reached' = reached /\ malformed' = malformed
    BY <1>1, <1>5, SentInTurn
  <2>2. newest = 0 /\ ~ended
    BY <1>1 DEF Pristine
  <2>3. Consistent'
    BY <1>1, <2>1 DEF Consistent, InTurn
  <2>4. OneAtATime' /\ BottomIsNext'
    BY <2>1 DEF OneAtATime, BottomIsNext
  <2>5. FirstIsFirst' /\ NextPageJoins'
    BY <1>1, <2>1, <2>2 DEF FirstIsFirst, NextPageJoins
  <2>6. Whole'
    BY <1>2, <2>1 DEF Whole, InTurn
  <2> QED BY <2>3, <2>4, <2>5, <2>6 DEF InTurn
<1> QED BY <1>2, <1>3, <1>4, <1>5

LEMMA PullToRefreshStep ==
  ASSUME PagingInv, PullToRefresh, TypeOK'
  PROVE  PagingInv'
<1> USE Requests DEF PagingInv
<1>1. /\ loaded /\ loaded' /\ Send("top", 0)
      /\ UNCHANGED <<published, store, currentPage, ended, rows, stale>>
  BY DEF PullToRefresh
<1>2. NoDuplicates' /\ Range(store)' = Range(store) /\ Pristine'
  BY <1>1 DEF NoDuplicates, Range, Pristine
<1>3. Dated'
  BY <1>1, SentInTurn
<1>4. ASSUME ~overlapped' PROVE InTurn'
  <2>1. /\ ~overlapped
        /\ \A j \in Kinds \ {"top"} : request'[j] = Unsent /\ ~Outstanding(j)'
        /\ newest' = newest /\ reached' = reached /\ malformed' = malformed
    BY <1>1, <1>4, SentInTurn
  <2>2. request'["bottom"].reply # "list" /\ ~Outstanding("first")' /\ ~Outstanding("bottom")'
    BY <2>1 DEF Unsent
  <2>3. Consistent' /\ Whole'
    BY <1>1, <1>2, <2>1 DEF Consistent, Whole, InTurn
  <2>4. OneAtATime' /\ FirstIsFirst' /\ BottomIsNext'
    BY <2>1, <2>2 DEF OneAtATime, FirstIsFirst, BottomIsNext
  <2>5. NextPageJoins'
    BY <1>1, <2>1, <2>2 DEF NextPageJoins, InTurn
  <2> QED BY <2>3, <2>4, <2>5 DEF InTurn
<1> QED BY <1>2, <1>3, <1>4

LEMMA LastRowDisplayedStep ==
  ASSUME PagingInv, LastRowDisplayed, TypeOK'
  PROVE  PagingInv'
<1> USE Requests DEF PagingInv
<1>1. /\ rows > 0 /\ ~stale /\ ~ended /\ Send("bottom", currentPage) /\ currentPage \in Nat
      /\ UNCHANGED <<published, loaded, store, currentPage, ended, rows, stale>>
  BY DEF LastRowDisplayed, view, TypeOK
<1>2. loaded /\ Pristine'
  BY <1>1 DEF Pristine
<1>3. NoDuplicates' /\ Range(store)' = Range(store)
  BY <1>1 DEF NoDuplicates, Range
<1>4. Dated'
  BY <1>1, SentInTurn
<1>5. ASSUME ~overlapped' PROVE InTurn'
  <2>1. /\ ~overlapped
        /\ request'["bottom"] = [page |-> currentPage, reply |-> "waiting", at |-> 0]
        /\ \A j \in Kinds \ {"bottom"} : request'[j] = Unsent /\ ~Outstanding(j)'
        /\ newest' = newest /\ reached' = reached /\ malformed' = malformed
    BY <1>1, <1>5, SentInTurn
  <2>2. Consistent' /\ Whole'
    BY <1>1, <1>3, <2>1 DEF Consistent, Whole, InTurn
  <2>3. OneAtATime' /\ FirstIsFirst' /\ BottomIsNext'
    BY <1>1, <2>1 DEF OneAtATime, FirstIsFirst, BottomIsNext
  <2>4. NextPageJoins'
    BY <1>1, <2>1 DEF NextPageJoins, InTurn
  <2> QED BY <2>2, <2>3, <2>4 DEF InTurn
<1> QED BY <1>2, <1>3, <1>4, <1>5

LEMMA LayoutStep ==
  ASSUME PagingInv, Layout, TypeOK'
  PROVE  PagingInv'
<1> USE DEF PagingInv
<1>1. /\ stale /\ stale' = FALSE /\ rows' = Len(store)
      /\ UNCHANGED <<published, loaded, store, currentPage, ended, request, overlapped, malformed, newest, reached>>
  BY DEF Layout, flags, history
<1>2. NoDuplicates' /\ Range(store)' = Range(store) /\ Pristine' /\ Dated'
  BY <1>1 DEF NoDuplicates, Range, Pristine, Dated
<1>3. \A k \in Kinds : Outstanding(k)' <=> Outstanding(k)
  BY <1>1 DEF Outstanding
<1>4. InTurn => InTurn'
  BY <1>1, <1>2, <1>3, Requests
  DEF InTurn, Consistent, OneAtATime, FirstIsFirst, BottomIsNext, NextPageJoins, Whole
<1> QED BY <1>1, <1>2, <1>4

LEMMA PublishStep ==
  ASSUME PagingInv, Publish, TypeOK'
  PROVE  PagingInv'
<1> USE DEF PagingInv
<1>1. /\ published' = published + 1
      /\ UNCHANGED <<loaded, store, currentPage, ended, request, rows, stale, overlapped, malformed, newest, reached>>
  BY DEF Publish, flags, view, history
<1>2. /\ published \in Nat /\ published' \in Nat /\ currentPage \in Nat /\ reached \in Nat
      /\ \A k \in Kinds : request[k].at \in Nat
  BY BoundsAssumption, <1>1 DEF TypeOK
<1>3. NoDuplicates' /\ Range(store)' = Range(store) /\ Pristine' /\ Dated'
  BY <1>1, <1>2 DEF NoDuplicates, Range, Pristine, Dated, Outstanding
<1>4. \A k \in Kinds : Outstanding(k)' <=> Outstanding(k)
  BY <1>1 DEF Outstanding
<1>5. /\ Left(currentPage, published) <= Left(currentPage, published')
      /\ Left(currentPage, published) \in Nat /\ Left(currentPage, published') \in Nat
  <2>1. Left(currentPage, published) \in 0..published /\ Left(currentPage, published') \in 0..published'
    BY <1>2, LeftFacts
  <2>2. \A m \in Nat : published <= m => Left(currentPage, published) <= Left(currentPage, m)
    BY <1>2, LeftFacts
  <2> QED BY <1>1, <1>2, <2>1, <2>2
<1>6. NextPageJoins => NextPageJoins'
  BY <1>1, <1>2, <1>5 DEF NextPageJoins
<1>7. InTurn => InTurn'
  BY <1>1, <1>3, <1>4, <1>6, Requests
  DEF InTurn, Consistent, OneAtATime, FirstIsFirst, BottomIsNext, Whole
<1> QED BY <1>1, <1>3, <1>7

LEMMA AnswerStep ==
  ASSUME PagingInv, NEW k \in Kinds, Answer(k), TypeOK'
  PROVE  PagingInv'
<1> USE DEF PagingInv
<1>1. UNCHANGED <<published, loaded, store, currentPage, ended, rows, stale, overlapped, malformed, newest, reached>>
  BY DEF Answer, flags, view, history
<1>2. /\ request'[k].page = request[k].page /\ request'[k].at = published
      /\ \A j \in Kinds \ {k} : request'[j] = request[j]
      /\ \A j \in Kinds : Outstanding(j)' <=> Outstanding(j)
      /\ Outstanding(k)
  BY AnswerFacts DEF Outstanding
<1>3. \A j \in Kinds : request'[j].page = request[j].page
  BY <1>2
<1>4. Dated'
  <2>1. published <= published
    BY BoundsAssumption DEF TypeOK
  <2> QED BY <1>1, <1>2, <2>1 DEF Dated
<1>5. NoDuplicates' /\ Range(store)' = Range(store) /\ Pristine'
  BY <1>1, <1>2 DEF NoDuplicates, Range, Pristine
<1>6. InTurn => NextPageJoins'
  <2>1. CASE k = "bottom"
    BY <1>1, <1>2, <2>1 DEF InTurn, BottomIsNext, NextPageJoins
  <2>2. CASE k # "bottom"
    BY <1>1, <1>2, <2>2, Requests DEF InTurn, NextPageJoins
  <2> QED BY <2>1, <2>2
<1>7. InTurn => InTurn'
  BY <1>1, <1>2, <1>3, <1>5, <1>6, Requests
  DEF InTurn, Consistent, OneAtATime, FirstIsFirst, BottomIsNext, Whole
<1> QED BY <1>1, <1>4, <1>5, <1>7

LEMMA ErrorIgnoredStep ==
  ASSUME PagingInv, NEW k \in Kinds, ErrorIgnored(k), TypeOK'
  PROVE  PagingInv'
<1> USE DEF PagingInv
<1>1. UNCHANGED <<published, loaded, store, currentPage, ended, rows, stale, overlapped, malformed, newest, reached>>
  BY DEF ErrorIgnored, flags, view
<1>2. request'[k] = Unsent /\ \A j \in Kinds \ {k} : request'[j] = request[j]
  BY DEF ErrorIgnored, TypeOK
<1>3. \A j \in Kinds : Outstanding(j)' => Outstanding(j) /\ request'[j] = request[j]
  BY <1>2 DEF Outstanding
<1>4. Dated'
  <2>1. published \in Nat /\ Unsent.at = 0
    BY BoundsAssumption DEF TypeOK, Unsent
  <2> QED BY <1>1, <1>2, <2>1 DEF Dated
<1>5. NoDuplicates' /\ Range(store)' = Range(store) /\ Pristine'
  BY <1>1, <1>3 DEF NoDuplicates, Range, Pristine
<1>6. request'["bottom"].reply = "list" => request'["bottom"] = request["bottom"]
  BY <1>2, Requests DEF Unsent
<1>7. InTurn => InTurn'
  BY <1>1, <1>3, <1>5, <1>6, Requests
  DEF InTurn, Consistent, OneAtATime, FirstIsFirst, BottomIsNext, NextPageJoins, Whole
<1> QED BY <1>1, <1>4, <1>5, <1>7

\* A handler that succeeds empties its slot and lets the store grow.
LEMMA HandlerFacts ==
  ASSUME PagingInv, NEW k \in Kinds, Succeeds(k)
  PROVE  /\ loaded /\ loaded' /\ overlapped' = overlapped /\ published' = published
         /\ NoDuplicates' /\ Pristine' /\ Dated'
         /\ Range(store)' = Range(store) \cup Range(Objects(k))
         /\ Outstanding(k) /\ request'[k] = Unsent
         /\ \A j \in Kinds \ {k} : request'[j] = request[j]
         /\ ~overlapped => \A j \in Kinds : ~Outstanding(j)' /\ request'[j].reply # "list"
<1> USE DEF PagingInv
<1>1. /\ request[k].reply \in {"list", "notAList"} /\ request' = [request EXCEPT ![k] = Unsent]
      /\ UNCHANGED <<published, loaded, overlapped>>
  BY DEF Succeeds
<1>2. Outstanding(k)
  BY <1>1 DEF Outstanding, Unsent
<1>3. loaded /\ loaded'
  BY <1>1, <1>2 DEF Pristine
<1>4. request'[k] = Unsent /\ \A j \in Kinds \ {k} : request'[j] = request[j]
  BY <1>1 DEF TypeOK
<1>5. Dated'
  <2>1. published \in Nat /\ Unsent.at = 0
    BY BoundsAssumption DEF TypeOK, Unsent
  <2> QED BY <1>1, <1>4, <2>1 DEF Dated
<1>6. ASSUME ~overlapped, NEW j \in Kinds PROVE ~Outstanding(j)' /\ request'[j].reply # "list"
  <2>1. j # k => ~Outstanding(j)
    BY <1>2, <1>6 DEF InTurn, OneAtATime
  <2>2. request'[j] = Unsent
    BY <1>4, <2>1 DEF Outstanding
  <2> QED BY <2>2 DEF Outstanding, Unsent
<1>7. NoDuplicates' /\ Range(store)' = Range(store) \cup Range(Objects(k))
  BY Succeeded
<1> QED BY <1>1, <1>2, <1>3, <1>4, <1>5, <1>6, <1>7 DEF Pristine

LEMMA FirstLoadedStep ==
  ASSUME PagingInv, FirstLoaded, TypeOK'
  PROVE  PagingInv'
<1> USE Requests DEF PagingInv
<1> DEFINE n == request["first"].at
<1>1. /\ Succeeds("first") /\ Reach("first") /\ EndIfEmpty("first")
      /\ currentPage' = 1 /\ stale' = TRUE
  BY DEF FirstLoaded
<1>2. /\ overlapped' = overlapped /\ published' = published /\ NoDuplicates' /\ Pristine' /\ Dated'
      /\ Range(store)' = Range(store) \cup Range(Objects("first")) /\ Outstanding("first")
      /\ ~overlapped => \A j \in Kinds : ~Outstanding(j)' /\ request'[j].reply # "list"
  BY <1>1, HandlerFacts
<1>3. ASSUME ~overlapped' PROVE InTurn'
  <2>1. newest = 0 /\ ~ended /\ request["first"].page = 0
    BY <1>2, <1>3 DEF InTurn, FirstIsFirst
  <2>2. \A j \in Kinds : ~Outstanding(j)' /\ request'[j].reply # "list"
    BY <1>2, <1>3
  <2>3. n \in Nat /\ published \in Nat /\ n <= published
    BY BoundsAssumption DEF TypeOK, Dated
  <2>4. CASE Objects("first") = <<>>
    <3>1. newest' = 0
      BY <1>1, <2>1, <2>4, ReachFacts
    <3>2. Whole'
      <4>1. reached' \in Nat
        BY BoundsAssumption DEF TypeOK
      <4>2. \A a \in Nat : \A i \in a + 1..0 : FALSE
        OBVIOUS
      <4>3. \A i \in reached' + 1..newest' : FALSE
        BY <3>1, <4>1, <4>2
      <4> QED BY <4>3 DEF Whole
    <3> QED BY <1>1, <2>2, <3>1, <3>2
            DEF InTurn, Consistent, OneAtATime, FirstIsFirst, BottomIsNext, NextPageJoins
  <2>5. CASE Objects("first") # <<>>
    <3>1. newest' = Left(0, n) /\ reached' = Left(0 + 1, n)
      BY <1>1, <2>1, <2>5, ReachFacts
    <3>2. Range(Objects("first")) = Left(0 + 1, n) + 1..Left(0, n)
      BY <2>1, <2>5, ObjectsFacts
    <3>3. Whole'
      BY <1>2, <3>1, <3>2 DEF Whole
    <3>4. ended' = FALSE
      BY <1>1, <2>1, <2>5 DEF EndIfEmpty, TypeOK
    <3>5. reached' <= Left(currentPage', published')
      <4>1. Left(1, n) <= Left(1, published)
        BY <2>3, LeftFacts
      <4> QED BY <1>1, <1>2, <3>1, <4>1
    <3>6. NextPageJoins'
      BY <2>2, <3>4, <3>5 DEF NextPageJoins
    <3> QED BY <1>1, <2>2, <3>3, <3>6 DEF InTurn, Consistent, OneAtATime, FirstIsFirst, BottomIsNext
  <2> QED BY <2>4, <2>5
<1> QED BY <1>2, <1>3

LEMMA BottomLoadedStep ==
  ASSUME PagingInv, BottomLoaded, TypeOK'
  PROVE  PagingInv'
<1> USE Requests DEF PagingInv
<1> DEFINE p == request["bottom"].page  n == request["bottom"].at
<1>1. /\ Succeeds("bottom") /\ Reach("bottom") /\ EndIfEmpty("bottom") /\ InsertRows("bottom")
      /\ currentPage' = currentPage + 1
  BY DEF BottomLoaded
<1>2. /\ overlapped' = overlapped /\ published' = published /\ NoDuplicates' /\ Pristine' /\ Dated'
      /\ Range(store)' = Range(store) \cup Range(Objects("bottom")) /\ Outstanding("bottom")
      /\ ~overlapped => \A j \in Kinds : ~Outstanding(j)' /\ request'[j].reply # "list"
  BY <1>1, HandlerFacts
<1>3. ASSUME ~overlapped' PROVE InTurn'
  <2>1. ~stale /\ ~ended /\ p = currentPage
    BY <1>2, <1>3 DEF InTurn, BottomIsNext
  <2>2. \A j \in Kinds : ~Outstanding(j)' /\ request'[j].reply # "list"
    BY <1>2, <1>3
  <2>3. /\ n \in Nat /\ published \in Nat /\ n <= published /\ p \in Nat
        /\ reached \in Nat /\ newest \in Nat
    BY BoundsAssumption DEF TypeOK, Dated
  <2>4. Consistent'
    <3>1. rows = Len(store) /\ rows' = rows + Len(Unseen("bottom")) /\ stale' = FALSE
      BY <1>1, <1>2, <1>3, <2>1 DEF InsertRows, InTurn, Consistent
    <3>2. Len(store') = Len(store) + Len(Unseen("bottom"))
      BY <1>1, Succeeded
    <3> QED BY <3>1, <3>2 DEF Consistent
  <2>5. newest # 0 /\ request["bottom"].reply = "list" => reached <= Left(p, n)
    BY <1>2, <1>3, <2>1 DEF InTurn, NextPageJoins
  <2>6. Whole
    BY <1>2, <1>3 DEF InTurn
  <2>7. CASE Objects("bottom") = <<>>
    <3>1. newest' = newest /\ reached' = reached /\ ended' = TRUE
      BY <1>1, <2>7, ReachFacts DEF EndIfEmpty
    <3>2. Whole'
      BY <1>2, <2>6, <3>1 DEF Whole
    <3>3. newest # 0 /\ ~malformed' => reached = 0
      <4>1. ~malformed' => request["bottom"].reply = "list"
        BY <1>1 DEF Succeeds
      <4>2. request["bottom"].reply = "list" => Left(p, n) = 0
        BY <2>7, ObjectsFacts
      <4> QED BY <2>3, <2>5, <4>1, <4>2
    <3>4. NextPageJoins'
      BY <2>2, <3>1, <3>3 DEF NextPageJoins
    <3> QED BY <2>2, <2>4, <3>2, <3>4 DEF InTurn, OneAtATime, FirstIsFirst, BottomIsNext
  <2>8. CASE Objects("bottom") # <<>>
    <3>1. /\ newest' = IF newest = 0 THEN Left(p, n) ELSE newest
          /\ reached' = IF newest = 0 \/ Left(p + 1, n) + 1 <= reached
                          THEN Left(p + 1, n) ELSE reached
      BY <1>1, <2>8, ReachFacts
    <3>2. /\ Range(Objects("bottom")) = Left(p + 1, n) + 1..Left(p, n)
          /\ request["bottom"].reply = "list"
      BY <2>8, ObjectsFacts
    <3>3. ended' = FALSE
      BY <1>1, <2>1, <2>8 DEF EndIfEmpty, TypeOK
    <3> HIDE DEF p, n
    <3>4. Left(p, n) \in Nat /\ Left(p + 1, n) \in Nat
      <4>1. Left(p, n) \in 0..n /\ p + 1 \in Nat
        BY <2>3, LeftFacts
      <4>2. Left(p + 1, n) \in 0..n
        BY <2>3, <4>1, LeftFacts
      <4> QED BY <2>3, <4>1, <4>2
    <3>5. \A i \in reached' + 1..newest' : i \in Range(store) \/ i \in Left(p + 1, n) + 1..Left(p, n)
      BY <2>3, <2>5, <2>6, <3>1, <3>2, <3>4 DEF Whole
    <3>6. Whole'
      BY <1>2, <3>2, <3>5 DEF Whole
    <3>7. reached' <= Left(p + 1, published)
      <4>1. p + 1 \in Nat
        BY <2>3
      <4>2. Left(p + 1, n) <= Left(p + 1, published) /\ Left(p + 1, published) \in 0..published
        BY <2>3, <4>1, LeftFacts
      <4> QED BY <2>3, <3>1, <3>4, <4>2
    <3>8. NextPageJoins'
      BY <1>1, <1>2, <2>1, <2>2, <3>3, <3>7 DEF NextPageJoins
    <3> QED BY <2>2, <2>4, <3>6, <3>8 DEF InTurn, OneAtATime, FirstIsFirst, BottomIsNext
  <2> QED BY <2>7, <2>8
<1> QED BY <1>2, <1>3

LEMMA TopLoadedStep ==
  ASSUME PagingInv, TopLoaded, TypeOK'
  PROVE  PagingInv'
<1> USE Requests DEF PagingInv
<1>1. /\ Succeeds("top") /\ stale' = TRUE
      /\ UNCHANGED <<currentPage, ended, newest, reached>>
  BY DEF TopLoaded
<1>2. /\ overlapped' = overlapped /\ published' = published /\ NoDuplicates' /\ Pristine' /\ Dated'
      /\ Range(store)' = Range(store) \cup Range(Objects("top"))
      /\ ~overlapped => \A j \in Kinds : ~Outstanding(j)' /\ request'[j].reply # "list"
  BY <1>1, HandlerFacts
<1>3. ASSUME ~overlapped' PROVE InTurn'
  <2>1. \A j \in Kinds : ~Outstanding(j)' /\ request'[j].reply # "list"
    BY <1>2, <1>3
  <2>2. ~malformed' => ~malformed
    BY <1>1 DEF Succeeds
  <2>3. InTurn
    BY <1>2, <1>3
  <2>4. NextPageJoins'
    BY <1>1, <1>2, <2>1, <2>2, <2>3 DEF InTurn, NextPageJoins
  <2>5. Whole'
    BY <1>1, <1>2, <2>3 DEF InTurn, Whole
  <2> QED BY <1>1, <2>1, <2>4, <2>5 DEF InTurn, Consistent, OneAtATime, FirstIsFirst, BottomIsNext
<1> QED BY <1>2, <1>3

LEMMA PagingStep == PagingInv /\ [Next]_vars => PagingInv'
<1> SUFFICES ASSUME PagingInv, [Next]_vars PROVE PagingInv'
  OBVIOUS
<1>1. TypeOK'
  BY TypeStep DEF PagingInv
<1>2. CASE UNCHANGED vars
  <2>1. \A k \in Kinds : Outstanding(k)' <=> Outstanding(k)
    BY <1>2 DEF vars, Outstanding
  <2>2. Range(store)' = Range(store)
    BY <1>2 DEF vars, Range
  <2> QED BY <1>1, <1>2, <2>1, <2>2, Requests
          DEF vars, flags, view, history, PagingInv, NoDuplicates, Pristine, Dated, InTurn, Consistent,
              OneAtATime, FirstIsFirst, BottomIsNext, NextPageJoins, Whole
<1> QED BY <1>1, <1>2, ViewDidLoadStep, PullToRefreshStep, LayoutStep, LastRowDisplayedStep,
           PublishStep, AnswerStep, FirstLoadedStep, BottomLoadedStep, TopLoadedStep, ErrorIgnoredStep
        DEF Next, Handler

\* Every variable of the feed keeps its type, for any page size and any bounds.
THEOREM TypeCorrect == Spec => []TypeOK
BY TypeInit, TypeStep, PTL DEF Spec

\* No item is in the list twice, whichever requests overtake each other and
\* however far the pages shift (findStreamObject in the three handlers).
THEOREM NoItemTwice == Spec => []NoDuplicates
<1>1. PagingInv => NoDuplicates
  BY DEF PagingInv
<1> QED BY PagingInit, PagingStep, <1>1, PTL DEF Spec

\* Unless requests overlapped, the collection view never counts other rows
\* than its data source has (didLoadBottom's performBatchUpdates).
THEOREM RowsAgree == Spec => []InsertionsFit
<1>1. PagingInv => InsertionsFit
  BY DEF PagingInv, InTurn, InsertionsFit
<1> QED BY PagingInit, PagingStep, <1>1, PTL DEF Spec

\* Unless requests overlapped, the pages leave no hole in the list (currentPage
\* in loadFirst and loadBottom).
THEOREM PagesJoin == Spec => []NoHole
<1>1. PagingInv => NoHole
  BY DEF PagingInv, InTurn, Whole, NoHole
<1> QED BY PagingInit, PagingStep, <1>1, PTL DEF Spec

\* Unless requests overlapped or an answer was not a list, a feed that has
\* ended is complete (bottomStreamLoadingEnded).
THEOREM EndIsTheEnd == Spec => []EndMeansComplete
<1>1. ASSUME PagingInv PROVE EndMeansComplete
  <2> SUFFICES ASSUME ~overlapped, ~malformed, ended, NEW i \in 1..newest PROVE i \in Range(store)
    BY DEF EndMeansComplete
  <2>1. newest \in Nat
    BY <1>1, BoundsAssumption DEF PagingInv, TypeOK
  <2>2. reached = 0
    BY <1>1, <2>1 DEF PagingInv, InTurn, NextPageJoins
  <2> QED BY <1>1, <2>1, <2>2 DEF PagingInv, InTurn, Whole
<1> QED BY PagingInit, PagingStep, <1>1, PTL DEF Spec

----------------------------------------------------------------------------
(* The spinners.                                                           *)

SpinnersHaveRequests ==
  /\ spinner => Outstanding("first") \/ "first" \in failed
  /\ refreshing => Outstanding("top") \/ "top" \in failed

SpinnersInv == refreshing = loadingTop /\ (spinner => Outstanding("first") \/ "first" \in failed)

LEMMA SpinnersStep == TypeOK /\ SpinnersInv /\ [Next]_vars => SpinnersInv'
<1> SUFFICES ASSUME TypeOK, SpinnersInv, [Next]_vars PROVE SpinnersInv'
  OBVIOUS
<1> USE Requests DEF SpinnersInv
<1>1. CASE ViewDidLoad
  <2>1. Send("first", 0) /\ UNCHANGED <<refreshing, loadingTop>>
    BY <1>1 DEF ViewDidLoad, flags
  <2> QED BY <2>1, Sent
<1>2. CASE PullToRefresh
  <2>1. Send("top", 0) /\ refreshing' = TRUE /\ loadingTop' = TRUE /\ spinner' = spinner
    BY <1>2 DEF PullToRefresh
  <2>2. request'["first"] = request["first"] /\ failed' = failed
    BY <2>1, Sent
  <2> QED BY <2>1, <2>2 DEF Outstanding
<1>3. CASE LastRowDisplayed
  <2>1. Send("bottom", currentPage) /\ UNCHANGED <<refreshing, loadingTop, spinner>> /\ currentPage \in Nat
    BY <1>3 DEF LastRowDisplayed, view, TypeOK
  <2>2. request'["first"] = request["first"] /\ failed' = failed
    BY <2>1, Sent
  <2> QED BY <2>1, <2>2 DEF Outstanding
<1>4. ASSUME NEW k \in Kinds, Answer(k) PROVE SpinnersInv'
  <2>1. UNCHANGED <<refreshing, loadingTop, spinner, failed>>
    BY <1>4 DEF Answer, flags, view, history
  <2>2. Outstanding("first") => Outstanding("first")'
    BY <1>4, AnswerFacts DEF Outstanding
  <2> QED BY <2>1, <2>2
<1>5. CASE FirstLoaded
  BY <1>5 DEF FirstLoaded
<1>6. CASE BottomLoaded
  <2>1. request' = [request EXCEPT !["bottom"] = Unsent]
        /\ UNCHANGED <<refreshing, loadingTop, spinner, failed>>
    BY <1>6 DEF BottomLoaded, Succeeds
  <2>2. request'["first"] = request["first"]
    BY <2>1, Handled
  <2> QED BY <2>1, <2>2 DEF Outstanding
<1>7. CASE TopLoaded
  <2>1. request' = [request EXCEPT !["top"] = Unsent]
        /\ refreshing' = FALSE /\ loadingTop' = FALSE /\ UNCHANGED <<spinner, failed>>
    BY <1>7 DEF TopLoaded, Succeeds
  <2>2. request'["first"] = request["first"]
    BY <2>1, Handled
  <2> QED BY <2>1, <2>2 DEF Outstanding
<1>8. ASSUME NEW k \in Kinds, ErrorIgnored(k) PROVE SpinnersInv'
  <2>1. request' = [request EXCEPT ![k] = Unsent] /\ failed' = failed \cup {k}
        /\ UNCHANGED <<refreshing, loadingTop, spinner>>
    BY <1>8 DEF ErrorIgnored, flags, view
  <2>2. k # "first" => request'["first"] = request["first"]
    BY <2>1, Handled
  <2> QED BY <2>1, <2>2 DEF Outstanding
<1>9. CASE Layout \/ Publish \/ UNCHANGED vars
  <2>1. UNCHANGED <<request, failed, refreshing, loadingTop, spinner>>
    BY <1>9 DEF Layout, Publish, vars, flags, view, history
  <2> QED BY <2>1 DEF Outstanding
<1> QED BY <1>1, <1>2, <1>3, <1>4, <1>5, <1>6, <1>7, <1>8, <1>9 DEF Next, Handler

\* A spinner that turns stands for a request on its way or one that failed:
\* the half of SpinnersStop that does not depend on the service (viewDidLoad,
\* didPullToRefresh and their handlers).
THEOREM SpinnersStandForRequests == Spec => []SpinnersHaveRequests
<1>1. Init => SpinnersInv
  BY DEF Init, SpinnersInv
<1>2. SpinnersInv /\ FlagInv => SpinnersHaveRequests
  BY DEF SpinnersInv, FlagInv, FlagsFollowRequests, SpinnersHaveRequests
<1> QED BY TypeInit, TypeStep, FlagInit, FlagStep, SpinnersStep, <1>1, <1>2, PTL DEF Spec

=============================================================================
