--------------------------- MODULE WatchlistProofs ---------------------------
(***************************************************************************)
(* Theorems about Watchlist for any set of assets.                         *)
(***************************************************************************)
EXTENDS Watchlist, SequenceTheorems, TLAPS

Distinct(s) == \A i, j \in 1..Len(s) : s[i] = s[j] => i = j

(* The operations of the store.                                            *)

LEMMA ListIsSeq ==
  ASSUME NEW s \in MaybeList, s # NoList
  PROVE  s \in Seq(Assets)
  BY DEF MaybeList

LEMMA SeqIsList ==
  ASSUME NEW s \in Seq(Assets)
  PROVE  s # NoList /\ s \in MaybeList
  BY NoListAssumption DEF MaybeList

\* contains(object:) answers whether the asset is an element.
LEMMA ContainsFact ==
  ASSUME NEW s \in MaybeList, NEW a
  PROVE  Contains(s, a) <=> a \in Elements(s)
  BY DEF Contains, Elements, Positions

\* append(object:) adds the asset, and no second copy of an absent one.
LEMMA AddFacts ==
  ASSUME NEW s \in MaybeList, s # NoList => Distinct(s),
         NEW a \in Assets, a \notin Elements(s)
  PROVE  /\ Add(s, a) \in Seq(Assets)
         /\ Distinct(Add(s, a))
         /\ Elements(Add(s, a)) = Elements(s) \cup {a}
<1>1. CASE s = NoList
  <2>1. Add(s, a) = <<a>> /\ <<a>> \in Seq(Assets)
    BY <1>1 DEF Add
  <2>2. Distinct(<<a>>)
    BY DEF Distinct
  <2>3. Elements(<<a>>) = {a}
    <3>1. <<a>> # NoList
      BY <2>1, SeqIsList
    <3>2. {<<a>>[i] : i \in 1..Len(<<a>>)} = {a}
      OBVIOUS
    <3> QED BY <3>1, <3>2 DEF Elements
  <2>4. Elements(s) = {}
    BY <1>1 DEF Elements
  <2> QED BY <2>1, <2>2, <2>3, <2>4
<1>2. CASE s # NoList
  <2> DEFINE t == Append(s, a)
  <2>1. s \in Seq(Assets) /\ Add(s, a) = t
    BY <1>2, ListIsSeq DEF Add
  <2>2. /\ t \in Seq(Assets)
        /\ Len(t) = Len(s) + 1
        /\ \A i \in 1..Len(s) : t[i] = s[i]
        /\ t[Len(s) + 1] = a
        /\ Len(s) \in Nat
    BY <2>1
  <2> HIDE DEF t
  <2>3. \A i \in 1..Len(s) : s[i] # a
    BY <1>2 DEF Elements
  <2>4. Distinct(t)
    BY <1>2, <2>2, <2>3 DEF Distinct
  <2>5. t # NoList
    BY <2>2, SeqIsList
  <2>6. Elements(t) = Elements(s) \cup {a}
    BY <1>2, <2>2, <2>5 DEF Elements
  <2> QED BY <2>1, <2>2, <2>4, <2>6
<1> QED BY <1>1, <1>2

\* Taking out position i moves what follows it down by one.
LEMMA WithoutFacts ==
  ASSUME NEW s \in Seq(Assets), NEW i \in 1..Len(s)
  PROVE  /\ Without(s, i) \in Seq(Assets)
         /\ Len(Without(s, i)) = Len(s) - 1
         /\ \A j \in 1..Len(s) - 1 :
              Without(s, i)[j] = IF j < i THEN s[j] ELSE s[j + 1]
<1> DEFINE l == SubSeq(s, 1, i - 1)
           r == SubSeq(s, i + 1, Len(s))
<1>1. /\ l \in Seq(Assets) /\ Len(l) = i - 1
      /\ \A j \in 1..i - 1 : l[j] = s[j]
  <2>1. \A j \in 1..i - 1 : s[j] \in Assets
    BY ElementOfSeq
  <2>2. /\ l \in Seq(Assets)
        /\ Len(l) = IF 1 <= i - 1 THEN i - 1 - 1 + 1 ELSE 0
        /\ \A j \in 1..i - 1 - 1 + 1 : l[j] = s[1 + j - 1]
    BY <2>1, SubSeqProperties, i - 1 \in Int
  <2> QED BY <2>2
<1>2. /\ r \in Seq(Assets) /\ Len(r) = Len(s) - i
      /\ \A j \in 1..Len(s) - i : r[j] = s[i + j]
  <2>1. \A j \in i + 1..Len(s) : s[j] \in Assets
    BY ElementOfSeq
  <2>2. /\ r \in Seq(Assets)
        /\ Len(r) = IF i + 1 <= Len(s) THEN Len(s) - (i + 1) + 1 ELSE 0
        /\ \A j \in 1..Len(s) - (i + 1) + 1 : r[j] = s[i + 1 + j - 1]
    BY <2>1, SubSeqProperties, i + 1 \in Int, Len(s) \in Int
  <2> QED BY <2>2
<1> HIDE DEF l, r
<1>3. /\ l \o r \in Seq(Assets)
      /\ Len(l \o r) = Len(l) + Len(r)
      /\ \A j \in 1..Len(l) + Len(r) :
           (l \o r)[j] = IF j <= Len(l) THEN l[j] ELSE r[j - Len(l)]
  BY <1>1, <1>2, ConcatProperties
<1>4. Without(s, i) = l \o r
  BY DEF Without, l, r
<1> SUFFICES /\ l \o r \in Seq(Assets)
             /\ Len(l \o r) = Len(s) - 1
             /\ \A j \in 1..Len(s) - 1 :
                  (l \o r)[j] = IF j < i THEN s[j] ELSE s[j + 1]
  BY <1>4
<1>5. Len(l) + Len(r) = Len(s) - 1
  BY <1>1, <1>2
<1>6. ASSUME NEW j \in 1..Len(s) - 1
      PROVE  (l \o r)[j] = IF j < i THEN s[j] ELSE s[j + 1]
  <2>1. CASE j < i
    BY <1>1, <1>3, <1>5, <2>1
  <2>2. CASE j >= i
    <3>1. (l \o r)[j] = r[j - (i - 1)] /\ j - (i - 1) \in 1..Len(s) - i
      BY <1>1, <1>3, <1>5, <2>2
    <3>2. r[j - (i - 1)] = s[i + (j - (i - 1))]
      BY <1>2, <3>1
    <3>3. i + (j - (i - 1)) = j + 1
      OBVIOUS
    <3> QED BY <2>2, <3>1, <3>2, <3>3
  <2>3. j \in Int /\ i \in Int
    OBVIOUS
  <2>4. j < i \/ j >= i
    BY <2>3
  <2> QED BY <2>1, <2>2, <2>4
<1> QED BY <1>3, <1>5, <1>6

\* remove(object:) leaves nothing of the asset and everything else.
LEMMA RemoveFacts ==
  ASSUME NEW s \in Seq(Assets), Distinct(s), NEW a \in Elements(s)
  PROVE  /\ Remove(s, a) \in Seq(Assets)
         /\ Distinct(Remove(s, a))
         /\ Elements(Remove(s, a)) = Elements(s) \ {a}
<1>1. PICK i \in 1..Len(s) : s[i] = a
  BY DEF Elements
<1>2. Positions(s, a) = {i}
  BY <1>1 DEF Positions, Distinct
<1>3. (CHOOSE k \in Positions(s, a) : \A j \in Positions(s, a) : j <= k) = i
  BY <1>2
<1> DEFINE t == Remove(s, a)
<1>4. t = Without(s, i)
  BY <1>3 DEF Remove
<1> HIDE DEF t
<1>5. /\ t \in Seq(Assets) /\ Len(t) = Len(s) - 1 /\ Len(s) \in Nat
      /\ \A j \in 1..Len(s) - 1 : t[j] = IF j < i THEN s[j] ELSE s[j + 1]
  <2>1. /\ Without(s, i) \in Seq(Assets)
        /\ Len(Without(s, i)) = Len(s) - 1
        /\ \A j \in 1..Len(s) - 1 :
             Without(s, i)[j] = IF j < i THEN s[j] ELSE s[j + 1]
    BY WithoutFacts
  <2> QED BY <1>4, <2>1
<1>6. Distinct(t)
  <2> SUFFICES ASSUME NEW j \in 1..Len(s) - 1, NEW k \in 1..Len(s) - 1, t[j] = t[k]
               PROVE  j = k
    BY <1>5 DEF Distinct
  <2> DEFINE from(x) == IF x < i THEN x ELSE x + 1
  <2>1. from(j) \in 1..Len(s) /\ from(k) \in 1..Len(s)
    BY <1>5
  <2>2. t[j] = s[from(j)] /\ t[k] = s[from(k)]
    BY <1>5
  <2>3. from(j) = from(k)
    BY <2>1, <2>2 DEF Distinct
  <2> QED BY <2>3
<1>7. Elements(t) = {t[j] : j \in 1..Len(t)} /\ Elements(s) = {s[j] : j \in 1..Len(s)}
  BY <1>5, SeqIsList DEF Elements
<1>8. ASSUME NEW x \in Elements(t) PROVE x \in Elements(s) /\ x # a
  <2>1. PICK j \in 1..Len(s) - 1 : x = t[j]
    BY <1>5, <1>7, <1>8
  <2>2. PICK k \in 1..Len(s) : k # i /\ x = s[k]
    BY <1>5, <2>1
  <2> QED BY <1>1, <1>7, <2>2 DEF Distinct
<1>9. ASSUME NEW x \in Elements(s), x # a PROVE x \in Elements(t)
  <2>1. PICK k \in 1..Len(s) : x = s[k]
    BY <1>7
  <2>2. k # i
    BY <1>1, <1>9, <2>1
  <2>3. CASE k < i
    BY <1>5, <1>7, <2>1, <2>3
  <2>4. CASE k > i
    <3>1. k - 1 \in 1..Len(s) - 1 /\ t[k - 1] = s[k]
      BY <1>5, <2>4
    <3> QED BY <1>5, <1>7, <2>1, <3>1
  <2> QED BY <2>2, <2>3, <2>4
<1> QED BY <1>5, <1>6, <1>8, <1>9 DEF t

----------------------------------------------------------------------------
(* The inductive invariant.                                                *)

LEMMA IInvInit == Init => IInv
  BY DEF Init, IInv, TypeOK, EachOnce, StarTellsTruth, ListLagsByTaps,
         SpinnerMeansUnused, OpenedFromRow, WrittenByTap, MaybeList

\* A tap keeps the list a list of distinct assets and toggles its asset.
LEMMA TapStarFacts ==
  ASSUME IInv, TapStar
  PROVE  /\ asset \in Assets
         /\ stored' \in Seq(Assets)
         /\ Distinct(stored')
         /\ Elements(stored') = IF asset \in Elements(stored)
                                  THEN Elements(stored) \ {asset}
                                  ELSE Elements(stored) \cup {asset}
<1>1. asset \in Assets /\ stored \in MaybeList /\ (stored # NoList => Distinct(stored))
  BY DEF IInv, TypeOK, EachOnce, TapStar, Distinct
<1>2. CASE asset \in Elements(stored)
  <2>1. stored # NoList
    BY <1>2 DEF Elements
  <2>2. stored' = Remove(stored, asset)
    BY <1>1, <1>2, ContainsFact DEF TapStar
  <2> QED BY <1>1, <1>2, <2>1, <2>2, ListIsSeq, RemoveFacts
<1>3. CASE asset \notin Elements(stored)
  <2>1. stored' = Add(stored, asset)
    BY <1>1, <1>3, ContainsFact DEF TapStar
  <2> QED BY <1>1, <1>3, <2>1, AddFacts
<1> QED BY <1>2, <1>3

LEMMA IInvStep == IInv /\ [Next]_vars => IInv'
<1> SUFFICES ASSUME IInv, [Next]_vars PROVE IInv'
  OBVIOUS
<1> USE DEF list, star, history
<1>1. CASE OpenList
  <2>1. TypeOK' /\ EachOnce' /\ StarTellsTruth'
    BY <1>1 DEF OpenList, Opened, IInv, TypeOK, EachOnce, StarTellsTruth
  <2>2. ListLagsByTaps' /\ OpenedFromRow'
    BY <1>1 DEF OpenList, Opened, ListLagsByTaps, OpenedFromRow, Elements
  <2>3. SpinnerMeansUnused' /\ WrittenByTap'
    BY <1>1 DEF OpenList, Opened, IInv, SpinnerMeansUnused, WrittenByTap
  <2> QED BY <2>1, <2>2, <2>3 DEF IInv
<1>2. ASSUME NEW a \in Assets, OpenAsset(a) PROVE IInv'
  <2>1. filled' <=> a \in Elements(stored)
    BY <1>2, ContainsFact DEF OpenAsset, IInv, TypeOK
  <2>2. filled' \in BOOLEAN
    BY <1>2 DEF OpenAsset, Contains
  <2>3. TypeOK' /\ EachOnce' /\ StarTellsTruth'
    BY <1>2, <2>1, <2>2
    DEF OpenAsset, IInv, TypeOK, EachOnce, StarTellsTruth, Elements
  <2>4. ListLagsByTaps' /\ SpinnerMeansUnused' /\ OpenedFromRow' /\ WrittenByTap'
    BY <1>2
    DEF OpenAsset, IInv, ListLagsByTaps, SpinnerMeansUnused, OpenedFromRow,
        WrittenByTap, Elements
  <2> QED BY <2>3, <2>4 DEF IInv
<1>3. CASE TapStar
  <2>1. /\ asset \in Assets /\ asset' = asset
        /\ stored' \in Seq(Assets) /\ Distinct(stored') /\ stored' \in MaybeList
        /\ stored' # NoList
    BY <1>3, TapStarFacts, SeqIsList DEF TapStar
  <2>2. filled' <=> asset' \in Elements(stored')
    BY <1>3, <2>1, ContainsFact DEF TapStar
  <2>3. TypeOK'
    BY <1>3, <2>1 DEF TapStar, Tapped, IInv, TypeOK, Contains
  <2>4. EachOnce'
    BY <2>1 DEF EachOnce, Distinct
  <2>5. StarTellsTruth'
    BY <2>2 DEF StarTellsTruth, Elements
  <2>6. ListLagsByTaps'
    <3> SUFFICES ASSUME listed' PROVE ListLagsByTaps'
      BY DEF ListLagsByTaps
    <3>1. listed /\ rows' = rows /\ Elements(rows') = Elements(rows)
      BY <1>3 DEF TapStar, Elements
    <3>2. /\ flipped \subseteq Elements(rows)
          /\ Elements(stored) = Elements(rows) \ flipped
          /\ asset \in Elements(rows)
      BY <1>3, <3>1 DEF TapStar, IInv, ListLagsByTaps, OpenedFromRow
    <3>3. Elements(stored') = IF asset \in Elements(stored)
                                THEN Elements(stored) \ {asset}
                                ELSE Elements(stored) \cup {asset}
      BY <1>3, TapStarFacts
    <3>4. flipped' = IF asset \in flipped THEN flipped \ {asset}
                                          ELSE flipped \cup {asset}
      BY <1>3 DEF TapStar, Tapped
    <3>5. flipped' \subseteq Elements(rows)
      BY <3>2, <3>4
    <3>6. Elements(stored') = Elements(rows) \ flipped'
      BY <3>2, <3>3, <3>4
    <3> QED BY <3>1, <3>5, <3>6 DEF ListLagsByTaps
  <2>7. SpinnerMeansUnused' /\ OpenedFromRow' /\ WrittenByTap'
    BY <1>3, <2>1
    DEF TapStar, Tapped, IInv, SpinnerMeansUnused, OpenedFromRow, WrittenByTap, Elements
  <2> QED BY <2>3, <2>4, <2>5, <2>6, <2>7 DEF IInv
<1>4. CASE Back
  <2>1. TypeOK' /\ EachOnce' /\ StarTellsTruth'
    BY <1>4 DEF Back, IInv, TypeOK, EachOnce, StarTellsTruth, Elements, MaybeList
  <2>2. ListLagsByTaps' /\ SpinnerMeansUnused' /\ OpenedFromRow' /\ WrittenByTap'
    BY <1>4
    DEF Back, IInv, ListLagsByTaps, SpinnerMeansUnused, OpenedFromRow,
        WrittenByTap, Elements
  <2> QED BY <2>1, <2>2 DEF IInv
<1>5. CASE Kill
  BY <1>5
  DEF Kill, IInv, TypeOK, EachOnce, StarTellsTruth, ListLagsByTaps,
      SpinnerMeansUnused, OpenedFromRow, WrittenByTap, MaybeList
<1>6. CASE UNCHANGED vars
  <2>1. TypeOK' /\ EachOnce' /\ StarTellsTruth'
    BY <1>6 DEF vars, IInv, TypeOK, EachOnce, StarTellsTruth, Elements
  <2>2. ListLagsByTaps' /\ SpinnerMeansUnused' /\ OpenedFromRow' /\ WrittenByTap'
    BY <1>6
    DEF vars, IInv, ListLagsByTaps, SpinnerMeansUnused, OpenedFromRow,
        WrittenByTap, Elements
  <2> QED BY <2>1, <2>2 DEF IInv
<1> QED BY <1>1, <1>2, <1>3, <1>4, <1>5, <1>6 DEF Next

LEMMA InvariantHolds == Spec => []IInv
<1> QED BY IInvInit, IInvStep, PTL DEF Spec

\* Every variable of the watchlist keeps its type.
THEOREM TypeCorrect == Spec => []TypeOK
<1>1. IInv => TypeOK
  BY DEF IInv
<1> QED BY <1>1, InvariantHolds, PTL

\* The watchlist never holds an asset twice, so remove(object:), which takes
\* out one place, takes out the asset.
THEOREM ListedOnce == Spec => []EachOnce
<1>1. IInv => EachOnce
  BY DEF IInv
<1> QED BY <1>1, InvariantHolds, PTL

\* The star never lies about the store.
THEOREM StarIsTrue == Spec => []StarTellsTruth
<1>1. IInv => StarTellsTruth
  BY DEF IInv
<1> QED BY <1>1, InvariantHolds, PTL

\* An open list lags behind the store by exactly the stars tapped since it was
\* opened, and only in one direction: it may show too much, never too little.
THEOREM ListLags == Spec => []ListLagsByTaps
<1>1. IInv => ListLagsByTaps
  BY DEF IInv
<1> QED BY <1>1, InvariantHolds, PTL

\* The spinner that never stops is shown only to who never used a star: append
\* and remove never leave the key as it was before the first of them.
THEOREM SpinnerJustified == Spec => []SpinnerMeansUnused
<1>1. IInv => SpinnerMeansUnused
  BY DEF IInv
<1> QED BY <1>1, InvariantHolds, PTL

\* The archived array implements a set: Init maps to the empty set, a tap to
\* a toggle of the viewed asset, and every other step leaves the set alone.
THEOREM ImplementsSet == Spec => IsWatchSet
<1>1. Init => Watch!WatchInit
  BY DEF Init, Watch!WatchInit, Elements
<1>2. IInv /\ [Next]_vars => [Watch!WatchNext]_(Watch!watchVars)
  <2> SUFFICES ASSUME IInv, [Next]_vars
               PROVE  Watch!View \/ Watch!Toggle \/ UNCHANGED Watch!watchVars
    BY DEF Watch!WatchNext
  <2> USE DEF list, star
  <2>1. CASE TapStar
    BY <2>1, TapStarFacts DEF TapStar, Watch!Toggle
  <2>2. CASE OpenList
    BY <2>2 DEF OpenList, Watch!watchVars, Elements
  <2>3. ASSUME NEW a \in Assets, OpenAsset(a) PROVE Watch!View
    BY <2>3 DEF OpenAsset, Watch!View, Elements
  <2>4. CASE Back
    BY <2>4 DEF Back, IInv, TypeOK, Watch!View, Elements
  <2>5. CASE Kill
    BY <2>5 DEF Kill, Watch!View, Elements
  <2>6. CASE UNCHANGED vars
    BY <2>6 DEF vars, Watch!watchVars, Elements
  <2> QED BY <2>1, <2>2, <2>3, <2>4, <2>5, <2>6 DEF Next
<1> QED BY <1>1, <1>2, InvariantHolds, PTL DEF Spec, IsWatchSet, Watch!WatchSpec

=============================================================================
