------------------------- MODULE ProfileRecordProofs -------------------------
(***************************************************************************)
(* EditsSurvive and FormIsCurrent of ProfileRecord, for any fields, values *)
(* and number of writes on their way.                                      *)
(***************************************************************************)
EXTENDS ProfileRecord, TLAPS

Clean == ~reopened /\ ~facebook /\ ~rejected

\* What the device reads is what was last saved; the session's copy is that
\* until the first save, and the rows not typed in are it too.
CopiesAgree ==
  /\ open => inside
  /\ Clean =>
       /\ Visible = wanted
       /\ inside /\ ~saved => local = wanted
       /\ open => \A f \in Fields \ typed : form[f] = wanted[f]

IInv == TypeOK /\ CopiesAgree

USE FieldsAssumption, ValuesAssumption

\* A write appended is what the device reads.
LEMMA WriteFacts ==
  ASSUME TypeOK, NEW contents \in Contents, Write(contents)
  PROVE  writes' \in Seq(Contents) /\ Visible' = contents
PROOF
<1>1. writes' = Append(writes, contents) /\ writes \in Seq(Contents)
  BY DEF Write, TypeOK
<1>2. writes' \in Seq(Contents) /\ writes' # <<>> /\ Last(writes') = contents
  BY <1>1 DEF Last
<1> QED
  BY <1>2 DEF Visible

\* A write taken off the queue: when it is applied, the device reads the same.
LEMMA TakenFacts ==
  ASSUME TypeOK, writes # <<>>, writes' = Tail(writes)
  PROVE  /\ writes' \in Seq(Contents)
         /\ Head(writes) \in Contents
         /\ record' = Head(writes) => Visible' = Visible
PROOF
<1>1. writes \in Seq(Contents)
  BY DEF TypeOK
<1>2. writes' \in Seq(Contents) /\ Head(writes) \in Contents
  BY <1>1
<1>3. CASE writes' = <<>>
  <2>1. Len(Tail(writes)) = Len(writes) - 1 /\ Len(writes) \in Nat
    BY <1>1
  <2>2. Tail(writes) = <<>> /\ Len(<<>>) = 0
    BY <1>3
  <2>3. Len(writes) - 1 = 0
    BY <2>1, <2>2, Zenon
  <2>4. \A n \in Nat : n - 1 = 0 => n = 1
    OBVIOUS
  <2>5. Len(writes) = 1
    BY <2>1, <2>3, <2>4, Zenon
  <2>6. Last(writes) = Head(writes)
    BY <1>1, <2>5 DEF Last
  <2> QED
    BY <1>2, <1>3, <2>6 DEF Visible
<1>4. CASE writes' # <<>>
  <2>1. Last(writes') = Last(writes)
    BY <1>1, <1>4 DEF Last
  <2> QED
    BY <1>2, <1>4, <2>1 DEF Visible
<1> QED
  BY <1>3, <1>4

LEMMA InitHolds == Init => IInv
PROOF
<1> SUFFICES ASSUME Init PROVE IInv
  OBVIOUS
<1>1. record \in Contents
  BY DEF Init, Contents
<1>2. TypeOK
  <2>1. /\ writes \in Seq(Contents) /\ typed \subseteq Fields
        /\ local \in Contents /\ form \in Contents /\ wanted \in Contents
    BY <1>1 DEF Init
  <2> QED
    BY <1>1, <2>1 DEF Init, TypeOK
<1>3. CopiesAgree
  BY DEF Init, CopiesAgree, Visible
<1> QED
  BY <1>2, <1>3 DEF IInv

LEMMA Preserved == IInv /\ [Next]_vars => IInv'
PROOF
<1> SUFFICES ASSUME IInv, [Next]_vars PROVE IInv'
  OBVIOUS
<1> USE DEF IInv
<1>0. Visible \in Contents
  <2>1. CASE writes = <<>>
    BY <2>1 DEF TypeOK, Visible
  <2>2. CASE writes # <<>>
    <3>1. writes \in Seq(Contents) /\ Len(writes) \in 1..Len(writes)
      BY <2>2 DEF TypeOK
    <3> QED
      BY <2>2, <3>1 DEF Visible, Last
  <2> QED
    BY <2>1, <2>2
<1>1. CASE Enter
  <2>1. TypeOK'
    BY <1>0, <1>1 DEF Enter, TypeOK
  <2>2. CopiesAgree'
    BY <1>1 DEF Enter, CopiesAgree, Clean, Visible
  <2> QED
    BY <2>1, <2>2
<1>2. CASE EnterWithFacebook
  <2>1. local' \in Contents /\ Write(local')
    BY <1>2 DEF EnterWithFacebook, Contents
  <2>2. writes' \in Seq(Contents)
    BY <2>1, WriteFacts
  <2>3. TypeOK'
    BY <1>2, <2>1, <2>2 DEF EnterWithFacebook, TypeOK
  <2>4. CopiesAgree'
    BY <1>2 DEF EnterWithFacebook, CopiesAgree, Clean
  <2> QED
    BY <2>3, <2>4
<1>3. CASE Leave
  BY <1>3 DEF Leave, TypeOK, CopiesAgree, Clean, Visible, history
<1>4. CASE OpenForm
  <2>1. TypeOK'
    BY <1>4 DEF OpenForm, TypeOK
  <2>2. CopiesAgree'
    BY <1>4 DEF OpenForm, CopiesAgree, Clean, Visible
  <2> QED
    BY <2>1, <2>2
<1>5. CASE TapSave
  <2>1. form \in Contents /\ Write(form)
    BY <1>5 DEF TapSave, TypeOK
  <2>2. writes' \in Seq(Contents) /\ Visible' = form
    BY <2>1, WriteFacts
  <2>3. wanted' \in Contents
    BY <1>5 DEF TapSave, TypeOK, Contents
  <2>4. TypeOK'
    BY <1>5, <2>2, <2>3 DEF TapSave, TypeOK
  <2>5. ASSUME Clean' PROVE \A f \in Fields : form[f] = wanted'[f]
    BY <1>5, <2>5 DEF TapSave, CopiesAgree, Clean
  <2>6. ASSUME Clean' PROVE Visible' = wanted'
    BY <2>1, <2>2, <2>3, <2>5, <2>6 DEF Contents
  <2>7. CopiesAgree'
    BY <1>5, <2>5, <2>6 DEF TapSave, CopiesAgree
  <2> QED
    BY <2>4, <2>7
<1>6. CASE CloseForm
  BY <1>6 DEF CloseForm, TypeOK, CopiesAgree, Clean, Visible, history
<1>7. ASSUME NEW g \in Fields, Type(g) PROVE IInv'
  <2>1. PICK v \in (Values \cup {Blank}) \ {form[g]} : form' = [form EXCEPT ![g] = v]
    BY <1>7 DEF Type
  <2>2. TypeOK'
    BY <1>7, <2>1 DEF Type, TypeOK, Contents
  <2>3. CopiesAgree'
    BY <1>7, <2>1 DEF Type, CopiesAgree, Clean, Visible, TypeOK, Contents
  <2> QED
    BY <2>2, <2>3
<1>8. CASE WriteApplied
  <2>1. writes' \in Seq(Contents) /\ record' \in Contents /\ Visible' = Visible
    BY <1>8, TakenFacts DEF WriteApplied
  <2>2. TypeOK'
    BY <1>8, <2>1 DEF WriteApplied, TypeOK, history
  <2>3. CopiesAgree'
    BY <1>8, <2>1 DEF WriteApplied, CopiesAgree, Clean, history
  <2> QED
    BY <2>2, <2>3
<1>9. CASE WriteRejected
  <2>1. writes' \in Seq(Contents)
    BY <1>9, TakenFacts DEF WriteRejected
  <2>2. TypeOK'
    BY <1>9, <2>1 DEF WriteRejected, TypeOK
  <2>3. CopiesAgree'
    BY <1>9 DEF WriteRejected, CopiesAgree, Clean
  <2> QED
    BY <2>2, <2>3
<1>10. CASE UNCHANGED vars
  BY <1>10 DEF vars, history, TypeOK, CopiesAgree, Clean, Visible
<1> QED
  BY <1>1, <1>2, <1>3, <1>4, <1>5, <1>6, <1>7, <1>8, <1>9, <1>10 DEF Next

LEMMA Invariant == Spec => []IInv
  BY InitHolds, Preserved, PTL DEF Spec

\* Every variable of the model keeps its type.
THEOREM TypeCorrect == Spec => []TypeOK
  BY Invariant, PTL DEF IInv

\* The record becomes what the user last saved, through sign-ins, restarts and
\* queued writes, with the three exceptions of EditsSurvive (viewDidLoad's row
\* values, update's four fields, setData).
THEOREM SavesSurvive == Spec => []EditsSurvive
PROOF
<1>1. IInv => EditsSurvive
  BY DEF IInv, CopiesAgree, Clean, EditsSurvive, Visible
<1> QED
  BY <1>1, Invariant, PTL

\* The rows of the open form that were not typed in show what was last saved,
\* with the same exceptions.
THEOREM FormShowsSaved == Spec => []FormIsCurrent
PROOF
<1>1. IInv => FormIsCurrent
  BY DEF IInv, CopiesAgree, Clean, FormIsCurrent
<1> QED
  BY <1>1, Invariant, PTL

=============================================================================
