------------------------- MODULE ProfilePhotosProofs -------------------------
(***************************************************************************)
(* ChangesSurvive and PictureIsListed of ProfilePhotos, for any numbers of *)
(* uploads, removals and writes on their way, and that a call that waits   *)
(* for its write has one in the queue.                                     *)
(***************************************************************************)
EXTENDS ProfilePhotos, TLAPS

Clean == ~repeated /\ ~facebook /\ ~rejected

\* An upload on its way is the change its session was used for.
UploadsBelongToSession ==
  /\ open => inside
  /\ \A u \in Uploads : call[u] = "uploading" => open /\ touched
  /\ \A u, v \in Uploads : call[u] = "uploading" /\ call[v] = "uploading" => u = v \/ repeated

\* What the device reads is what the user wants, and so is what the session's
\* object holds as long as it was not used, or only for an upload on its way.
ListsAgree ==
  Clean =>
    /\ Elements(Visible) = wanted
    /\ inside /\ ~touched => Elements(local) = wanted
    /\ (\E u \in Uploads : call[u] = "uploading") => Elements(local) = wanted

IInv == TypeOK /\ UploadsBelongToSession /\ ListsAgree

USE CallsAssumption, PhotosAssumption

\* A write appended is what the device reads.
LEMMA WriteFacts ==
  ASSUME TypeOK, NEW photos \in SUBSET Photos, NEW picture \in Photos \cup {NoPicture, Keep},
         NEW by \in Calls \cup {SignIn}, Write(photos, picture, by)
  PROVE  /\ writes' \in Seq(Writes)
         /\ Visible' = photos
PROOF
<1> DEFINE w == [photos |-> photos, picture |-> picture, by |-> by]
<1>1. w \in Writes
  BY DEF Writes
<1>2. writes' = Append(writes, w) /\ writes \in Seq(Writes)
  BY DEF Write, TypeOK
<1>3. writes' \in Seq(Writes) /\ writes' # <<>> /\ Last(writes') = w
  BY <1>1, <1>2 DEF Last
<1> QED
  BY <1>3 DEF Visible

\* A write taken off the queue: unless it is refused, the device reads the same.
LEMMA TakenFacts ==
  ASSUME TypeOK, writes # <<>>, writes' = Tail(writes)
  PROVE  /\ writes' \in Seq(Writes)
         /\ Head(writes) \in Writes
         /\ record'.photos = Head(writes).photos => Visible' = Visible
PROOF
<1>1. writes \in Seq(Writes)
  BY DEF TypeOK
<1>2. writes' \in Seq(Writes) /\ Head(writes) \in Writes
  BY <1>1
<1>3. CASE writes' = <<>>
  <2>1. Len(writes) = 1
    <3>1. Len(Tail(writes)) = Len(writes) - 1 /\ Len(writes) \in Nat
      BY <1>1
    <3>2. Tail(writes) = <<>> /\ Len(<<>>) = 0
      BY <1>3
    <3>3. Len(writes) - 1 = 0
      BY <3>1, <3>2, Zenon
    <3>4. \A n \in Nat : n - 1 = 0 => n = 1
      OBVIOUS
    <3> QED
      BY <3>1, <3>3, <3>4, Zenon
  <2>2. Last(writes) = Head(writes)
    BY <1>1, <2>1 DEF Last
  <2> QED
    BY <1>2, <1>3, <2>2 DEF Visible
<1>4. CASE writes' # <<>>
  <2>1. Last(writes') = Last(writes)
    BY <1>1, <1>4 DEF Last
  <2> QED
    BY <1>2, <1>4, <2>1 DEF Visible
<1> QED
  BY <1>3, <1>4

LEMMA ElementsFacts ==
  /\ \A list \in Lists : Elements(list) \in SUBSET Photos
  /\ \A set \in SUBSET Photos : Elements(set) = set
  BY DEF Elements, Lists, Photos

LEMMA InitHolds == Init => IInv
PROOF
<1> SUFFICES ASSUME Init PROVE IInv
  OBVIOUS
<1>1. record \in Contents /\ record.photos \in Lists
  BY DEF Init, Contents, Lists, Photos
<1>2. TypeOK
  <2>1. wanted \in SUBSET Photos /\ local \in Lists /\ writes \in Seq(Writes)
    BY <1>1, ElementsFacts DEF Init
  <2>2. call \in [Calls -> CallStates]
    BY DEF Init, CallStates
  <2> QED
    BY <1>1, <2>1, <2>2 DEF Init, TypeOK
<1>3. UploadsBelongToSession
  BY DEF Init, UploadsBelongToSession, Calls
<1>4. ListsAgree
  BY DEF Init, ListsAgree, Visible, Calls
<1> QED
  BY <1>2, <1>3, <1>4 DEF IInv

LEMMA Preserved == IInv /\ [Next]_vars => IInv'
PROOF
<1> SUFFICES ASSUME IInv, [Next]_vars PROVE IInv'
  OBVIOUS
<1> USE DEF IInv
<1>0. Visible \in Lists
  <2>1. CASE writes = <<>>
    BY <2>1 DEF TypeOK, Visible, Contents
  <2>2. CASE writes # <<>>
    <3>1. writes \in Seq(Writes) /\ Len(writes) \in 1..Len(writes)
      BY <2>2 DEF TypeOK
    <3>2. Last(writes) \in Writes
      BY <3>1 DEF Last
    <3> QED
      BY <2>2, <3>2 DEF Visible, Writes, Lists
  <2> QED
    BY <2>1, <2>2
<1>1. CASE Enter
  <2>1. TypeOK'
    BY <1>0, <1>1 DEF Enter, TypeOK
  <2>2. UploadsBelongToSession'
    BY <1>1 DEF Enter, UploadsBelongToSession
  <2>3. ListsAgree'
    BY <1>1 DEF Enter, ListsAgree, Clean, Visible, UploadsBelongToSession
  <2> QED
    BY <2>1, <2>2, <2>3
<1>2. CASE EnterWithFacebook
  <2>1. writes' \in Seq(Writes)
    BY <1>2, WriteFacts DEF EnterWithFacebook
  <2>2. TypeOK'
    BY <1>2, <2>1 DEF EnterWithFacebook, TypeOK, Lists
  <2>3. UploadsBelongToSession'
    BY <1>2 DEF EnterWithFacebook, UploadsBelongToSession
  <2>4. ListsAgree'
    BY <1>2 DEF EnterWithFacebook, ListsAgree, Clean
  <2> QED
    BY <2>2, <2>3, <2>4
<1>3. CASE Open
  BY <1>3 DEF Open, TypeOK, UploadsBelongToSession, ListsAgree, Clean, Visible, history
<1>4. CASE Close
  <2>1. call' \in [Calls -> CallStates] /\ \A u \in Uploads : call'[u] # "uploading"
    BY <1>4 DEF Close, TypeOK, CallStates, Calls
  <2>2. TypeOK'
    BY <1>4, <2>1 DEF Close, TypeOK, history
  <2>3. UploadsBelongToSession' /\ ListsAgree'
    BY <1>4, <2>1 DEF Close, UploadsBelongToSession, ListsAgree, Clean, Visible, history
  <2> QED
    BY <2>2, <2>3
<1>5. CASE Logout
  BY <1>5 DEF Logout, TypeOK, UploadsBelongToSession, ListsAgree, Clean, Visible, history
<1>6. CASE Kill
  <2>1. call' \in [Calls -> CallStates] /\ \A u \in Uploads : call'[u] # "uploading"
    BY <1>6 DEF Kill, TypeOK, CallStates, Calls
  <2>2. TypeOK'
    BY <1>6, <2>1 DEF Kill, TypeOK, history
  <2>3. UploadsBelongToSession' /\ ListsAgree'
    BY <1>6, <2>1 DEF Kill, UploadsBelongToSession, ListsAgree, Clean, Visible, history
  <2> QED
    BY <2>2, <2>3
<1>7. ASSUME NEW u \in Uploads, TapUpload(u) PROVE IInv'
  <2>1. call' = [call EXCEPT ![u] = "uploading"] /\ call \in [Calls -> CallStates] /\ u \in Calls
    BY <1>7 DEF TapUpload, TypeOK, Calls
  <2>2. TypeOK'
    BY <1>7, <2>1 DEF TapUpload, TypeOK, CallStates, Touch
  <2>3. UploadsBelongToSession'
    BY <1>7, <2>1 DEF TapUpload, UploadsBelongToSession, Touch, TypeOK, Calls
  <2>4. ListsAgree'
    BY <1>7, <2>1 DEF TapUpload, ListsAgree, Clean, Visible, Touch, UploadsBelongToSession, TypeOK
  <2> QED
    BY <2>2, <2>3, <2>4
<1>8. ASSUME NEW u \in Uploads, NEW isProfilePhoto \in BOOLEAN, FileStored(u, isProfilePhoto)
      PROVE  IInv'
  <2> DEFINE photos == Elements(local) \cup {u}
             picture == IF isProfilePhoto THEN u ELSE Keep
  <2>1. photos \in SUBSET Photos /\ picture \in Photos \cup {NoPicture, Keep} /\ u \in Calls
    BY ElementsFacts DEF TypeOK, Photos, Calls
  <2>2. Write(photos, picture, u)
    BY <1>8 DEF FileStored
  <2>3. writes' \in Seq(Writes) /\ Visible' = photos
    BY <2>1, <2>2, WriteFacts
  <2>4. call' = [call EXCEPT ![u] = "writing"] /\ call \in [Calls -> CallStates]
    BY <1>8 DEF FileStored, TypeOK
  <2>5. TypeOK'
    BY <1>8, <2>1, <2>3, <2>4 DEF FileStored, TypeOK, CallStates, Photos
  <2>6. UploadsBelongToSession'
    BY <1>8, <2>1, <2>4 DEF FileStored, UploadsBelongToSession, Calls
  <2>7. Elements(Visible') = photos
    BY <2>1, <2>3, ElementsFacts
  <2>8. ASSUME Clean' PROVE Elements(local) = wanted /\ \A v \in Uploads : call'[v] # "uploading"
    BY <1>8, <2>1, <2>4, <2>8 DEF FileStored, ListsAgree, Clean, UploadsBelongToSession, Calls
  <2>9. ListsAgree'
    BY <1>8, <2>7, <2>8 DEF FileStored, ListsAgree, UploadsBelongToSession, Elements
  <2> QED
    BY <2>5, <2>6, <2>9
<1>9. ASSUME NEW u \in Uploads, FileFailed(u) PROVE IInv'
  <2>1. call' = [call EXCEPT ![u] = "failed"] /\ call \in [Calls -> CallStates] /\ u \in Calls
    BY <1>9 DEF FileFailed, TypeOK, Calls
  <2>2. TypeOK'
    BY <1>9, <2>1 DEF FileFailed, TypeOK, CallStates, history
  <2>3. UploadsBelongToSession' /\ ListsAgree'
    BY <1>9, <2>1 DEF FileFailed, UploadsBelongToSession, ListsAgree, Clean, Visible, history, Calls
  <2> QED
    BY <2>2, <2>3
<1>10. ASSUME NEW r \in Removals, NEW url \in Photos, TapRemove(r, url) PROVE IInv'
  <2> DEFINE photos == Elements(local) \ {url}
  <2>1. photos \in SUBSET Photos /\ r \in Calls
    BY ElementsFacts DEF TypeOK, Calls
  <2>2. Write(photos, Keep, r)
    BY <1>10 DEF TapRemove
  <2>3. writes' \in Seq(Writes) /\ Visible' = photos
    BY <2>1, <2>2, WriteFacts
  <2>4. call' = [call EXCEPT ![r] = "writing"] /\ call \in [Calls -> CallStates]
    BY <1>10 DEF TapRemove, TypeOK
  <2>5. TypeOK'
    BY <1>10, <2>1, <2>3, <2>4 DEF TapRemove, TypeOK, CallStates, Touch, IsPicture
  <2>6. UploadsBelongToSession'
    BY <1>10, <2>1, <2>4 DEF TapRemove, UploadsBelongToSession, Touch, Calls
  <2>7. Elements(Visible') = photos
    BY <2>1, <2>3, ElementsFacts
  <2>8. ASSUME Clean' PROVE Elements(local) = wanted /\ \A v \in Uploads : call'[v] # "uploading"
    BY <1>10, <2>1, <2>4, <2>8 DEF TapRemove, Touch, ListsAgree, Clean, UploadsBelongToSession, Calls, TypeOK
  <2>9. ListsAgree'
    BY <1>10, <2>7, <2>8 DEF TapRemove, ListsAgree, Touch, Elements
  <2> QED
    BY <2>5, <2>6, <2>9
<1>11. ASSUME NEW r \in Removals, RemoveIgnored(r) PROVE IInv'
  <2>1. call' = [call EXCEPT ![r] = "ignored"] /\ call \in [Calls -> CallStates] /\ r \in Calls
    BY <1>11 DEF RemoveIgnored, TypeOK, Calls
  <2>2. TypeOK'
    BY <1>11, <2>1 DEF RemoveIgnored, TypeOK, CallStates, history
  <2>3. UploadsBelongToSession' /\ ListsAgree'
    BY <1>11, <2>1 DEF RemoveIgnored, UploadsBelongToSession, ListsAgree, Clean, Visible, history, Calls
  <2> QED
    BY <2>2, <2>3
<1>12. ASSUME NEW by \in Calls \cup {SignIn}, call' = Answered(by)
       PROVE  /\ call' \in [Calls -> CallStates]
              /\ \A u \in Uploads : call'[u] = "uploading" <=> call[u] = "uploading"
  BY <1>12 DEF Answered, TypeOK, CallStates, Calls
<1>13. CASE WriteApplied
  <2>1. writes' \in Seq(Writes) /\ Head(writes) \in Writes
    BY <1>13, TakenFacts DEF WriteApplied
  <2>2. record' \in Contents /\ record'.photos = Head(writes).photos
    BY <1>13, <2>1 DEF WriteApplied, Writes, Contents, TypeOK, Lists
  <2>3. Visible' = Visible
    BY <1>13, <2>2, TakenFacts DEF WriteApplied
  <2>4. call' = Answered(Head(writes).by) /\ Head(writes).by \in Calls \cup {SignIn}
    BY <1>13, <2>1 DEF WriteApplied, Writes
  <2>5. /\ call' \in [Calls -> CallStates]
        /\ \A u \in Uploads : call'[u] = "uploading" <=> call[u] = "uploading"
    BY <1>12, <2>4
  <2>6. TypeOK'
    BY <1>13, <2>1, <2>2, <2>5 DEF WriteApplied, TypeOK, history
  <2>7. UploadsBelongToSession' /\ ListsAgree'
    BY <1>13, <2>3, <2>5 DEF WriteApplied, UploadsBelongToSession, ListsAgree, Clean, history, Elements
  <2> QED
    BY <2>6, <2>7
<1>14. CASE WriteRejected
  <2>1. writes' \in Seq(Writes) /\ Head(writes) \in Writes
    BY <1>14, TakenFacts DEF WriteRejected
  <2>2. call' = Answered(Head(writes).by) /\ Head(writes).by \in Calls \cup {SignIn}
    BY <1>14, <2>1 DEF WriteRejected, Writes
  <2>3. /\ call' \in [Calls -> CallStates]
        /\ \A u \in Uploads : call'[u] = "uploading" <=> call[u] = "uploading"
    BY <1>12, <2>2
  <2>4. TypeOK'
    BY <1>14, <2>1, <2>3 DEF WriteRejected, TypeOK
  <2>5. UploadsBelongToSession' /\ ListsAgree'
    BY <1>14, <2>3 DEF WriteRejected, UploadsBelongToSession, ListsAgree, Clean
  <2> QED
    BY <2>4, <2>5
<1>15. CASE UNCHANGED vars
  BY <1>15 DEF vars, history, TypeOK, UploadsBelongToSession, ListsAgree, Clean, Visible
<1> QED
  BY <1>1, <1>2, <1>3, <1>4, <1>5, <1>6, <1>7, <1>8, <1>9, <1>10, <1>11, <1>13, <1>14, <1>15
  DEF Next

LEMMA Invariant == Spec => []IInv
  BY InitHolds, Preserved, PTL DEF Spec

\* Every variable of the model keeps its type.
THEOREM TypeCorrect == Spec => []TypeOK
  BY Invariant, PTL DEF IInv

\* Unless two changes met in one session, Facebook emptied the list or the
\* server refused a write, the record ends up with the photos the user wants
\* (uploadPhoto and removePhoto write back a list that nobody else changed).
THEOREM PhotosSurvive == Spec => []ChangesSurvive
PROOF
<1>1. IInv => ChangesSurvive
  BY DEF IInv, ListsAgree, Clean, ChangesSurvive, Visible
<1> QED
  BY <1>1, Invariant, PTL

----------------------------------------------------------------------------
(* PictureIsListed. The record's picture has to be in the list after each  *)
(* of the writes on their way, not only now: every picture stays in all    *)
(* lists written after it, until a Facebook login replaces picture and     *)
(* list. And a list written is one the device reads with one change.       *)

\* The list and the picture after the first j writes on their way; the picture
\* may be one that its write leaves alone.
ListAfter(j) == IF j = 0 THEN Elements(record.photos) ELSE writes[j].photos
PictureBy(i) == IF i = 0 THEN record.picture ELSE writes[i].picture

Intact == ~unpictured /\ ~repeated /\ ~rejected

Listed ==
  /\ \A k \in 1..Len(writes) : writes[k].by = SignIn => writes[k].picture = NoPicture
  /\ \A j \in 0..Len(writes) : \A i \in 0..j :
       \/ PictureBy(i) \in ListAfter(j) \cup {NoPicture, Keep}
       \/ \E k \in i + 1..j : writes[k].by = SignIn

ListIsVisible ==
  /\ inside /\ ~touched => Elements(local) = Elements(Visible)
  /\ (\E u \in Uploads : call[u] = "uploading") => Elements(local) = Elements(Visible)

PictureInv == Intact => Listed /\ ListIsVisible

\* What the device reads is the list after all the writes.
LEMMA VisibleIsLast ==
  ASSUME TypeOK
  PROVE  Elements(Visible) = ListAfter(Len(writes))
<1>1. writes \in Seq(Writes)
  BY DEF TypeOK
<1>2. CASE writes = <<>>
  BY <1>2 DEF Visible, ListAfter
<1>3. CASE writes # <<>>
  <2>1. Len(writes) \in 1..Len(writes) /\ Len(writes) # 0
    BY <1>1, <1>3
  <2>2. Visible = writes[Len(writes)].photos /\ writes[Len(writes)] \in Writes
    BY <1>1, <1>3, <2>1 DEF Visible, Last
  <2>3. Visible \in SUBSET Photos
    BY <2>2 DEF Writes
  <2> QED BY <2>1, <2>2, <2>3, ElementsFacts DEF ListAfter
<1> QED BY <1>2, <1>3

\* A write joins the queue. It is a Facebook login's, or keeps every picture
\* there is in the list.
LEMMA ListedAppended ==
  ASSUME TypeOK, Listed, NEW w \in Writes, writes' = Append(writes, w), record' = record,
         w.by = SignIn => w.picture = NoPicture,
         w.picture \in w.photos \cup {NoPicture, Keep},
         \/ w.by = SignIn
         \/ \A i \in 0..Len(writes) :
              PictureBy(i) \in Elements(Visible) => PictureBy(i) \in w.photos
  PROVE  Listed'
<1>0. PICK n \in Nat : n = Len(writes)
  BY DEF TypeOK
<1>1. /\ writes \in Seq(Writes) /\ n \in Nat
      /\ Len(writes') = n + 1
      /\ writes'[n + 1] = w
      /\ \A i \in 1..n : writes'[i] = writes[i]
  BY <1>0 DEF TypeOK
<1>2. /\ \A i \in 0..n : PictureBy(i)' = PictureBy(i) /\ ListAfter(i)' = ListAfter(i)
      /\ PictureBy(n + 1)' = w.picture /\ ListAfter(n + 1)' = w.photos
  <2>1. PictureBy(0)' = PictureBy(0) /\ ListAfter(0)' = ListAfter(0)
    BY DEF PictureBy, ListAfter, Elements
  <2>2. \A i \in 1..n : PictureBy(i)' = PictureBy(i) /\ ListAfter(i)' = ListAfter(i)
    BY <1>1 DEF PictureBy, ListAfter
  <2>3. PictureBy(n + 1)' = w.picture /\ ListAfter(n + 1)' = w.photos
    BY <1>1 DEF PictureBy, ListAfter
  <2> QED BY <1>1, <2>1, <2>2, <2>3
<1>3. \A k \in 1..n + 1 : writes'[k].by = SignIn => writes'[k].picture = NoPicture
  BY <1>0, <1>1 DEF Listed
<1>4. ASSUME NEW j \in 0..n + 1, NEW i \in 0..j
      PROVE  \/ PictureBy(i)' \in ListAfter(j)' \cup {NoPicture, Keep}
             \/ \E k \in i + 1..j : writes'[k].by = SignIn
  <2>1. CASE j \in 0..n
    <3>1. i \in 0..n /\ \A k \in i + 1..j : k \in 1..n
      BY <1>1, <2>1
    <3>2. \/ PictureBy(i) \in ListAfter(j) \cup {NoPicture, Keep}
          \/ \E k \in i + 1..j : writes[k].by = SignIn
      BY <1>0, <2>1 DEF Listed
    <3>3. PictureBy(i)' = PictureBy(i) /\ ListAfter(j)' = ListAfter(j)
      BY <1>2, <2>1, <3>1
    <3>4. \A k \in i + 1..j : writes'[k] = writes[k]
      BY <1>1, <3>1
    <3> QED BY <3>2, <3>3, <3>4
  <2>2. CASE j = n + 1 /\ i = n + 1
    BY <1>2, <2>2
  <2>3. CASE j = n + 1 /\ i \in 0..n
    <3>1. CASE w.by = SignIn
      <4>1. n + 1 \in i + 1..j
        BY <1>1, <2>3
      <4>2. writes'[n + 1].by = SignIn
        BY <1>1, <3>1
      <4> QED BY <4>1, <4>2
    <3>2. CASE w.by # SignIn
      <4>1. \/ PictureBy(i) \in ListAfter(n) \cup {NoPicture, Keep}
            \/ \E k \in i + 1..n : writes[k].by = SignIn
        BY <1>0, <1>1, <2>3 DEF Listed
      <4>2. CASE PictureBy(i) \in ListAfter(n)
        <5>1. PictureBy(i) \in w.photos
          BY <1>0, <2>3, <3>2, <4>2, VisibleIsLast
        <5> QED BY <1>2, <2>3, <5>1
      <4>3. CASE PictureBy(i) \in {NoPicture, Keep}
        BY <1>2, <2>3, <4>3
      <4>4. CASE \E k \in i + 1..n : writes[k].by = SignIn
        <5>1. PICK k \in i + 1..n : writes[k].by = SignIn
          BY <4>4
        <5>2. k \in i + 1..j /\ k \in 1..n
          BY <1>1, <2>3
        <5> QED BY <1>1, <5>1, <5>2
      <4> QED BY <4>1, <4>2, <4>3, <4>4
    <3> QED BY <3>1, <3>2
  <2> QED BY <1>1, <2>1, <2>2, <2>3
<1> QED BY <1>1, <1>3, <1>4 DEF Listed

\* The oldest write reaches the record.
LEMMA ListedApplied ==
  ASSUME TypeOK, Listed, WriteApplied
  PROVE  Listed'
<1> DEFINE n == Len(writes)  w == Head(writes)
<1>1. /\ writes \in Seq(Writes) /\ n \in Nat \ {0}
      /\ w = writes[1] /\ w \in Writes
      /\ Len(writes') = n - 1
      /\ \A i \in 1..n - 1 : writes'[i] = writes[i + 1]
  BY DEF TypeOK, WriteApplied
<1>2. record'.photos = w.photos /\ record'.picture = IF w.picture = Keep THEN record.picture ELSE w.picture
  BY DEF WriteApplied
<1>3. Elements(w.photos) = w.photos
  BY <1>1, ElementsFacts DEF Writes
<1>4. \A j \in 0..n - 1 : ListAfter(j)' = ListAfter(j + 1)
  <2>1. ListAfter(0)' = ListAfter(1)
    BY <1>1, <1>2, <1>3 DEF ListAfter, Elements
  <2>2. \A j \in 1..n - 1 : ListAfter(j)' = ListAfter(j + 1)
    BY <1>1 DEF ListAfter
  <2> QED BY <1>1, <2>1, <2>2
<1>5. \A i \in 1..n - 1 : PictureBy(i)' = PictureBy(i + 1)
  BY <1>1 DEF PictureBy
<1>6. \/ PictureBy(0)' = PictureBy(1)
      \/ PictureBy(0)' = PictureBy(0) /\ w.picture = Keep
  BY <1>1, <1>2 DEF PictureBy
<1>7. \A k \in 1..n - 1 : writes'[k].by = SignIn => writes'[k].picture = NoPicture
  BY <1>1 DEF Listed
<1>8. ASSUME NEW j \in 0..n - 1, NEW i \in 0..j
      PROVE  \/ PictureBy(i)' \in ListAfter(j)' \cup {NoPicture, Keep}
             \/ \E k \in i + 1..j : writes'[k].by = SignIn
  <2>0. j + 1 \in 0..n /\ i + 1 \in 0..j + 1 /\ 0 \in 0..j + 1 /\ ListAfter(j)' = ListAfter(j + 1)
    BY <1>1, <1>4
  <2>1. CASE PictureBy(i)' = PictureBy(i + 1)
    <3>1. \/ PictureBy(i + 1) \in ListAfter(j + 1) \cup {NoPicture, Keep}
          \/ \E k \in (i + 1) + 1..j + 1 : writes[k].by = SignIn
      BY <2>0 DEF Listed
    <3>2. ASSUME NEW k \in (i + 1) + 1..j + 1, writes[k].by = SignIn
          PROVE  \E m \in i + 1..j : writes'[m].by = SignIn
      <4>1. k - 1 \in i + 1..j /\ k - 1 \in 1..n - 1 /\ (k - 1) + 1 = k
        BY <1>1
      <4> QED BY <1>1, <3>2, <4>1
    <3> QED BY <2>0, <2>1, <3>1, <3>2
  <2>2. CASE i = 0 /\ PictureBy(0)' = PictureBy(0) /\ w.picture = Keep
    <3>1. \/ PictureBy(0) \in ListAfter(j + 1) \cup {NoPicture, Keep}
          \/ \E k \in 0 + 1..j + 1 : writes[k].by = SignIn
      BY <2>0 DEF Listed
    <3>2. w.by # SignIn
      <4>1. 1 \in 1..Len(writes)
        BY <1>1
      <4> QED BY <1>1, <2>2, <4>1, PhotosAssumption DEF Listed
    <3>3. ASSUME NEW k \in 0 + 1..j + 1, writes[k].by = SignIn
          PROVE  \E m \in i + 1..j : writes'[m].by = SignIn
      <4>1. k # 1
        BY <1>1, <3>2, <3>3
      <4>2. k - 1 \in i + 1..j /\ k - 1 \in 1..n - 1 /\ (k - 1) + 1 = k
        BY <1>1, <2>2, <4>1
      <4> QED BY <1>1, <3>3, <4>2
    <3> QED BY <2>0, <2>2, <3>1, <3>3
  <2> QED BY <1>5, <1>6, <2>1, <2>2
<1> QED BY <1>1, <1>7, <1>8 DEF Listed

LEMMA ListedUnchanged ==
  ASSUME Listed, UNCHANGED <<record, writes>>
  PROVE  Listed' /\ Elements(Visible)' = Elements(Visible)
<1>1. \A i : PictureBy(i)' = PictureBy(i) /\ ListAfter(i)' = ListAfter(i)
  BY DEF PictureBy, ListAfter, Elements
<1> QED BY <1>1 DEF Listed, Visible, Elements

LEMMA PictureStart == Init => PictureInv
<1> SUFFICES ASSUME Init PROVE Listed /\ ListIsVisible
  BY DEF PictureInv
<1>1. writes = <<>> /\ Len(writes) = 0
  BY DEF Init
<1>2. record.picture \in Elements(record.photos) \cup {NoPicture}
  BY DEF Init
<1>3. Listed
  BY <1>1, <1>2 DEF Listed, PictureBy, ListAfter
<1>4. ListIsVisible
  BY DEF Init, ListIsVisible, Calls
<1> QED BY <1>3, <1>4

LEMMA PictureStep == IInv /\ PictureInv /\ [Next]_vars => PictureInv'
<1> SUFFICES ASSUME IInv, PictureInv, [Next]_vars, Intact' PROVE Listed' /\ ListIsVisible'
  BY DEF PictureInv
<1> USE DEF IInv
<1>0. Intact /\ Listed /\ ListIsVisible
  <2>1. Intact
    <3> SUFFICES (repeated => repeated') /\ (rejected => rejected') /\ (unpictured => unpictured')
      BY DEF Intact
    <3>0. {touched, repeated, unpictured} \subseteq BOOLEAN
      BY DEF TypeOK
    <3>1. CASE Enter
      BY <3>1 DEF Enter
    <3>2. CASE EnterWithFacebook
      BY <3>2 DEF EnterWithFacebook
    <3>3. CASE Open \/ Close \/ Logout \/ Kill \/ UNCHANGED vars
      BY <3>3 DEF Open, Close, Logout, Kill, history, vars
    <3>4. ASSUME NEW u \in Uploads, TapUpload(u) \/ FileFailed(u)
          PROVE  (repeated => repeated') /\ (rejected => rejected') /\ (unpictured => unpictured')
      BY <3>0, <3>4 DEF TapUpload, FileFailed, Touch, history
    <3>5. ASSUME NEW u \in Uploads, NEW isProfilePhoto \in BOOLEAN, FileStored(u, isProfilePhoto)
          PROVE  (repeated => repeated') /\ (rejected => rejected') /\ (unpictured => unpictured')
      BY <3>5 DEF FileStored
    <3>6. ASSUME NEW r \in Removals, RemoveIgnored(r) \/ \E url \in Photos : TapRemove(r, url)
          PROVE  (repeated => repeated') /\ (rejected => rejected') /\ (unpictured => unpictured')
      <4>1. CASE RemoveIgnored(r)
        BY <4>1 DEF RemoveIgnored, history
      <4>2. ASSUME NEW url \in Photos, TapRemove(r, url)
            PROVE  (repeated => repeated') /\ (rejected => rejected') /\ (unpictured => unpictured')
        <5>1. repeated' = (repeated \/ touched) /\ rejected' = rejected
          BY <4>2 DEF TapRemove, Touch
        <5>2. unpictured' = (unpictured \/ IsPicture(url)) /\ IsPicture(url) \in BOOLEAN
          BY <4>2 DEF TapRemove, IsPicture
        <5> QED BY <3>0, <5>1, <5>2
      <4> QED BY <3>6, <4>1, <4>2
    <3>7. CASE WriteApplied \/ WriteRejected
      BY <3>7 DEF WriteApplied, WriteRejected, history
    <3> QED BY <3>1, <3>2, <3>3, <3>4, <3>5, <3>6, <3>7 DEF Next
  <2> QED BY <2>1 DEF PictureInv
<1>1. CASE Enter
  <2>1. Listed' /\ Elements(Visible)' = Elements(Visible)
    BY <1>0, <1>1, ListedUnchanged DEF Enter
  <2>2. \A u \in Uploads : call'[u] # "uploading"
    BY <1>1 DEF Enter, UploadsBelongToSession
  <2>3. Elements(local)' = Elements(Visible)
    BY <1>1 DEF Enter, Elements
  <2> QED BY <2>1, <2>2, <2>3 DEF ListIsVisible
<1>2. CASE EnterWithFacebook
  <2> DEFINE w == [photos |-> {}, picture |-> NoPicture, by |-> SignIn]
  <2>1. w \in Writes /\ writes' = Append(writes, w) /\ record' = record
    BY <1>2 DEF EnterWithFacebook, Write, Writes
  <2>2. Listed'
    BY <1>0, <2>1, ListedAppended
  <2>3. Elements(Visible') = {} /\ Elements(local') = {}
    BY <1>2, WriteFacts DEF EnterWithFacebook, Elements
  <2>4. \A u \in Uploads : call'[u] # "uploading"
    BY <1>2 DEF EnterWithFacebook, UploadsBelongToSession
  <2> QED BY <2>2, <2>3, <2>4 DEF ListIsVisible, Elements
<1>3. CASE Open \/ UNCHANGED vars
  <2>1. UNCHANGED <<record, writes, inside, local, call, touched>>
    BY <1>3 DEF Open, vars, history
  <2>2. Listed' /\ Elements(Visible)' = Elements(Visible)
    BY <1>0, <2>1, ListedUnchanged
  <2> QED BY <1>0, <2>1, <2>2 DEF ListIsVisible, Elements
<1>4. CASE Close \/ Logout \/ Kill
  <2>1. UNCHANGED <<record, writes, local, touched>>
    BY <1>4 DEF Close, Logout, Kill, history
  <2>2. Listed' /\ Elements(Visible)' = Elements(Visible)
    BY <1>0, <2>1, ListedUnchanged
  <2>3. \A u \in Uploads : call'[u] = "uploading" => call[u] = "uploading"
    BY <1>4 DEF Close, Logout, Kill, TypeOK, Calls
  <2>4. inside' => inside
    BY <1>4 DEF Close, Logout, Kill
  <2> QED BY <1>0, <2>1, <2>2, <2>3, <2>4 DEF ListIsVisible, Elements
<1>5. ASSUME NEW u \in Uploads, TapUpload(u) PROVE Listed' /\ ListIsVisible'
  <2>1. UNCHANGED <<record, writes, local>> /\ touched' = TRUE /\ inside
    BY <1>5 DEF TapUpload, UploadsBelongToSession, Touch
  <2>2. Listed' /\ Elements(Visible)' = Elements(Visible)
    BY <1>0, <2>1, ListedUnchanged
  <2>3. Elements(local) = Elements(Visible)
    BY <1>0, <1>5, <2>1 DEF TapUpload, Touch, Intact, ListIsVisible
  <2> QED BY <2>1, <2>2, <2>3 DEF ListIsVisible, Elements
<1>6. ASSUME NEW u \in Uploads, NEW isProfilePhoto \in BOOLEAN, FileStored(u, isProfilePhoto)
      PROVE  Listed' /\ ListIsVisible'
  <2> DEFINE photos == Elements(local) \cup {u}
             picture == IF isProfilePhoto THEN u ELSE Keep
             w == [photos |-> photos, picture |-> picture, by |-> u]
  <2>1. photos \in SUBSET Photos /\ picture \in Photos \cup {NoPicture, Keep} /\ u \in Calls
    BY ElementsFacts DEF TypeOK, Photos, Calls
  <2>2. w \in Writes /\ writes' = Append(writes, w) /\ record' = record /\ local' = local
    BY <1>6, <2>1 DEF FileStored, Write, Writes
  <2>3. Elements(local) = Elements(Visible)
    BY <1>0, <1>6 DEF FileStored, ListIsVisible
  <2>4. u # SignIn
    BY CallsAssumption
  <2>5. Listed'
    BY <1>0, <2>2, <2>3, <2>4, ListedAppended
  <2>6. ~(inside' /\ ~touched')
    BY <1>6 DEF FileStored, UploadsBelongToSession
  <2>7. \A v \in Uploads : call'[v] # "uploading"
    BY <1>0, <1>6, <2>1 DEF FileStored, UploadsBelongToSession, TypeOK, Intact
  <2> QED BY <2>5, <2>6, <2>7 DEF ListIsVisible
<1>7. ASSUME NEW c \in Calls,
             \/ c \in Uploads /\ FileFailed(c)
             \/ c \in Removals /\ RemoveIgnored(c)
      PROVE  Listed' /\ ListIsVisible'
  <2>1. UNCHANGED <<record, writes, inside, local, touched>>
    BY <1>7 DEF FileFailed, RemoveIgnored, history
  <2>2. Listed' /\ Elements(Visible)' = Elements(Visible)
    BY <1>0, <2>1, ListedUnchanged
  <2>3. \A u \in Uploads : call'[u] = "uploading" => call[u] = "uploading"
    BY <1>7 DEF FileFailed, RemoveIgnored, TypeOK, Calls
  <2> QED BY <1>0, <2>1, <2>2, <2>3 DEF ListIsVisible, Elements
<1>8. ASSUME NEW r \in Removals, NEW url \in Photos, TapRemove(r, url)
      PROVE  Listed' /\ ListIsVisible'
  <2> DEFINE photos == Elements(local) \ {url}
             w == [photos |-> photos, picture |-> Keep, by |-> r]
  <2>1. photos \in SUBSET Photos /\ r \in Calls /\ r # SignIn
    BY ElementsFacts, CallsAssumption DEF TypeOK, Calls
  <2>2. w \in Writes /\ writes' = Append(writes, w) /\ record' = record
    BY <1>8, <2>1 DEF TapRemove, Write, Writes
  <2>3. inside /\ ~touched /\ touched' = TRUE
    BY <1>0, <1>8 DEF TapRemove, Touch, Intact, UploadsBelongToSession
  <2>4. Elements(local) = Elements(Visible)
    BY <1>0, <2>3 DEF ListIsVisible
  <2>5. \A i \in 0..Len(writes) : PictureBy(i) # url
    <3>1. ~IsPicture(url)
      BY <1>8 DEF TapRemove, Intact
    <3>2. DOMAIN writes = 1..Len(writes) /\ Len(writes) \in Nat
      BY DEF TypeOK
    <3> QED BY <3>1, <3>2 DEF IsPicture, PictureBy
  <2>6. Listed'
    BY <1>0, <2>1, <2>2, <2>4, <2>5, ListedAppended
  <2>7. \A v \in Uploads : call'[v] # "uploading"
    BY <1>8, <2>1, <2>3 DEF TapRemove, UploadsBelongToSession, TypeOK, Calls
  <2> QED BY <2>3, <2>6, <2>7 DEF ListIsVisible
<1>9. CASE WriteApplied
  <2>1. Listed'
    BY <1>0, <1>9, ListedApplied
  <2>2. Head(writes) \in Writes /\ record'.photos = Head(writes).photos
    BY <1>9, TakenFacts DEF WriteApplied
  <2>3. Visible' = Visible
    BY <1>9, <2>2, TakenFacts DEF WriteApplied
  <2>4. \A u \in Uploads : call'[u] = "uploading" => call[u] = "uploading"
    BY <1>9 DEF WriteApplied, Answered, TypeOK, Calls
  <2>5. UNCHANGED <<inside, local, touched>>
    BY <1>9 DEF WriteApplied, history
  <2> QED BY <1>0, <2>1, <2>3, <2>4, <2>5 DEF ListIsVisible, Elements
<1>10. ~WriteRejected
  BY DEF WriteRejected, Intact
<1> QED BY <1>1, <1>2, <1>3, <1>4, <1>5, <1>6, <1>7, <1>8, <1>9, <1>10 DEF Next, Calls

\* The profile picture is one of the photos, for any numbers of uploads, removals,
\* sessions and queued writes, but for the three exceptions PictureIsListed names
\* (uploadPhoto writes the picture and the list together).
THEOREM PictureListed == Spec => []PictureIsListed
<1>1. IInv /\ PictureInv => PictureIsListed
  <2> SUFFICES ASSUME IInv, PictureInv, Intact
               PROVE  record.picture \in Elements(record.photos) \cup {NoPicture}
    BY DEF PictureIsListed, Intact
  <2>1. Len(writes) \in Nat /\ record.picture \in Photos \cup {NoPicture}
    BY DEF IInv, TypeOK, Contents
  <2>2. record.picture # Keep
    BY <2>1 DEF Photos
  <2>3. 0 \in 0..Len(writes) /\ 0 \in 0..0 /\ ~ \E k \in 0 + 1..0 : TRUE
    BY <2>1
  <2>4. PictureBy(0) \in ListAfter(0) \cup {NoPicture, Keep}
    BY <2>3 DEF PictureInv, Listed
  <2> QED BY <2>2, <2>4 DEF PictureBy, ListAfter
<1> QED BY <1>1, PictureStart, PictureStep, Invariant, PTL DEF Spec

----------------------------------------------------------------------------
(* The half of CallsEnd that does not depend on Firestore.                 *)

\* A caller that waits for its write has that write in the queue.
WritingIsQueued ==
  \A c \in Calls : call[c] = "writing" => \E i \in 1..Len(writes) : writes[i].by = c

LEMMA WritingKept ==
  ASSUME TypeOK, WritingIsQueued, UNCHANGED writes,
         \A c \in Calls : call'[c] = "writing" => call[c] = "writing"
  PROVE  WritingIsQueued'
BY DEF WritingIsQueued

LEMMA WritingAppended ==
  ASSUME TypeOK, WritingIsQueued, NEW photos, NEW picture, NEW by,
         Write(photos, picture, by),
         \A c \in Calls : call'[c] = "writing" => call[c] = "writing" \/ c = by
  PROVE  WritingIsQueued'
<1> DEFINE w == [photos |-> photos, picture |-> picture, by |-> by]
<1>1. /\ Len(writes) \in Nat
      /\ Len(writes') = Len(writes) + 1
      /\ writes'[Len(writes) + 1].by = by
      /\ \A i \in 1..Len(writes) : writes'[i] = writes[i]
  <2>1. writes \in Seq(Writes) /\ writes' = Append(writes, w) /\ w.by = by
    BY DEF TypeOK, Write
  <2> QED BY <2>1
<1>2. ASSUME NEW c \in Calls, call'[c] = "writing"
      PROVE  \E i \in 1..Len(writes') : writes'[i].by = c
  <2>1. CASE c = by
    BY <1>1, <2>1
  <2>2. CASE call[c] = "writing"
    <3>1. PICK i \in 1..Len(writes) : writes[i].by = c
      BY <2>2 DEF WritingIsQueued
    <3> QED BY <1>1, <3>1
  <2> QED BY <1>2, <2>1, <2>2
<1> QED BY <1>2 DEF WritingIsQueued

\* The oldest write leaves the queue, and its caller is answered.
LEMMA WritingTaken ==
  ASSUME TypeOK, WritingIsQueued, writes # <<>>, writes' = Tail(writes),
         call' = Answered(Head(writes).by)
  PROVE  WritingIsQueued'
<1>1. /\ Len(writes) \in Nat \ {0}
      /\ Head(writes) = writes[1]
      /\ Len(writes') = Len(writes) - 1
      /\ \A i \in 1..Len(writes) - 1 : writes'[i] = writes[i + 1]
  BY DEF TypeOK
<1>2. ASSUME NEW c \in Calls, call'[c] = "writing"
      PROVE  \E i \in 1..Len(writes') : writes'[i].by = c
  <2>1. call[c] = "writing" /\ c # Head(writes).by
    BY <1>2 DEF Answered, TypeOK
  <2>2. PICK i \in 1..Len(writes) : writes[i].by = c
    BY <2>1 DEF WritingIsQueued
  <2>3. i # 1
    BY <1>1, <2>1, <2>2
  <2>4. i - 1 \in 1..Len(writes') /\ i - 1 \in 1..Len(writes) - 1 /\ (i - 1) + 1 = i
    BY <1>1, <2>2, <2>3
  <2> QED BY <1>1, <2>2, <2>4
<1> QED BY <1>2 DEF WritingIsQueued

LEMMA WritingStep == TypeOK /\ WritingIsQueued /\ [Next]_vars => WritingIsQueued'
<1> SUFFICES ASSUME TypeOK, WritingIsQueued, [Next]_vars PROVE WritingIsQueued'
  OBVIOUS
<1>1. CASE Enter \/ Open \/ Close \/ Logout \/ Kill \/ UNCHANGED vars
  <2>1. UNCHANGED writes
    BY <1>1 DEF Enter, Open, Close, Logout, Kill, history, vars
  <2>2. \A c \in Calls : call'[c] = "writing" => call[c] = "writing"
    BY <1>1 DEF Enter, Open, Close, Logout, Kill, history, vars
  <2> QED BY <2>1, <2>2, WritingKept
<1>2. CASE EnterWithFacebook
  BY <1>2, WritingAppended DEF EnterWithFacebook
<1>3. ASSUME NEW c \in Calls,
             \/ c \in Uploads /\ (TapUpload(c) \/ FileFailed(c))
             \/ c \in Removals /\ RemoveIgnored(c)
      PROVE  WritingIsQueued'
  <2>1. UNCHANGED writes
    BY <1>3 DEF TapUpload, FileFailed, RemoveIgnored
  <2>2. \A d \in Calls : call'[d] = "writing" => call[d] = "writing"
    BY <1>3 DEF TapUpload, FileFailed, RemoveIgnored, TypeOK
  <2> QED BY <2>1, <2>2, WritingKept
<1>4. ASSUME NEW u \in Uploads, NEW isProfilePhoto \in BOOLEAN, FileStored(u, isProfilePhoto)
      PROVE  WritingIsQueued'
  <2>1. \A c \in Calls : call'[c] = "writing" => call[c] = "writing" \/ c = u
    BY <1>4 DEF FileStored, TypeOK
  <2> QED BY <1>4, <2>1, WritingAppended DEF FileStored
<1>5. ASSUME NEW r \in Removals, NEW url \in Photos, TapRemove(r, url)
      PROVE  WritingIsQueued'
  <2>1. \A c \in Calls : call'[c] = "writing" => call[c] = "writing" \/ c = r
    BY <1>5 DEF TapRemove, TypeOK
  <2> QED BY <1>5, <2>1, WritingAppended DEF TapRemove
<1>6. CASE WriteApplied \/ WriteRejected
  BY <1>6, WritingTaken DEF WriteApplied, WriteRejected
<1> QED BY <1>1, <1>2, <1>3, <1>4, <1>5, <1>6 DEF Next, Calls

\* A call that waits for its write is never forgotten: the write is in the queue,
\* and its completion calls the operation's (setData in uploadPhoto, removePhoto).
THEOREM CallersAreQueued == Spec => []WritingIsQueued
<1>1. Init => WritingIsQueued
  BY DEF Init, WritingIsQueued
<1>2. IInv => TypeOK
  BY DEF IInv
<1> QED BY <1>1, <1>2, WritingStep, Invariant, PTL DEF Spec

=============================================================================
