---------------------------- MODULE ProfileRecord ----------------------------
(***************************************************************************)
(* The profile of one user, who is edited in the account details form      *)
(* (FinanceAccountDetailsViewController) and kept in his Firestore record. *)
(* The form is filled from the copy the app read when the session began    *)
(* (dsProvider.user), and a save writes every field of the form            *)
(* (ATCProfileFirebaseUpdater.update); nothing brings the saved values     *)
(* back into that copy before the next sign-in or resync. A Facebook login *)
(* also writes every field, from what Facebook provides.                   *)
(*                                                                         *)
(* Firestore keeps the writes of one device in order, over restarts too,   *)
(* and lets the device read its own pending writes.                        *)
(***************************************************************************)
EXTENDS Naturals, SequencesExt

CONSTANTS
  Fields,     \* the four fields of the form
  Required,   \* those that didTapDone refuses to leave blank
  Provided,   \* those a Facebook account provides
  Values,     \* what a user may type
  Blank,      \* the empty string
  Facebook,   \* the value of the fields Facebook provides
  MaxWrites   \* bound: writes on their way at a time

ASSUME FieldsAssumption == Required \subseteq Fields /\ Provided \subseteq Fields
ASSUME ValuesAssumption == Blank \notin Values \cup {Facebook}

Contents == [Fields -> Values \cup {Blank, Facebook}]

VARIABLES
  record,     \* users/<uid> as the server has it
  writes,     \* setData calls that have not reached the server
  inside,     \* the user is signed in and sees the tabs
  local,      \* dsProvider.user
  open,       \* the account details form is open
  form,       \* the values of its rows
  typed,      \* history: the rows changed since the form was opened
  wanted,     \* history: the value of each field the user last saved
  saved,      \* history: a save was tapped since the sign-in
  reopened,   \* history: a form was opened after that
  facebook,   \* history: the user has signed in with Facebook
  rejected    \* history: the server refused a write

history == <<typed, wanted, saved, reopened, facebook, rejected>>
vars    == <<record, writes, inside, local, open, form, history>>

TypeOK ==
  /\ record \in Contents
  /\ writes \in Seq(Contents)
  /\ <<inside, open>> \in BOOLEAN \X BOOLEAN
  /\ local \in Contents
  /\ form \in Contents
  /\ typed \subseteq Fields
  /\ wanted \in Contents
  /\ <<saved, reopened, facebook, rejected>> \in BOOLEAN \X BOOLEAN \X BOOLEAN \X BOOLEAN

\* The user has signed up, perhaps leaving fields blank, and is signed out.
Init ==
  /\ record \in [Fields -> Values \cup {Blank}]
  /\ writes = <<>>
  /\ inside = FALSE
  /\ local = record
  /\ open = FALSE
  /\ form = record
  /\ typed = {}
  /\ wanted = record
  /\ saved = FALSE
  /\ reopened = FALSE
  /\ facebook = FALSE
  /\ rejected = FALSE

\* What a query of this device answers.
Visible == IF writes = <<>> THEN record ELSE Last(writes)

Write(contents) ==
  /\ Len(writes) < MaxWrites
  /\ writes' = Append(writes, contents)

\* Mutant: the query asks the server only, past the writes on their way.
MutantEnterReadsServer ==
  /\ ~inside
  /\ inside' = TRUE
  /\ local' = record
  /\ saved' = FALSE
  /\ UNCHANGED <<record, writes, open, form, typed, wanted, reopened, facebook, rejected>>

\* A sign-in with e-mail or the resync at launch reads the record.
Enter ==
  /\ ~inside
  /\ inside' = TRUE
  /\ local' = Visible
  /\ saved' = FALSE
  /\ UNCHANGED <<record, writes, open, form, typed, wanted, reopened, facebook, rejected>>

\* didLoginWithFacebook's handler: atcUser knows Facebook's fields only, and
\* saveUserToServerIfNeeded merges the others as empty strings.
EnterWithFacebook ==
  /\ ~inside
  /\ inside' = TRUE
  /\ local' = [f \in Fields |-> IF f \in Provided THEN Facebook ELSE Blank]
  /\ Write(local')
  /\ facebook' = TRUE
  /\ saved' = FALSE
  /\ UNCHANGED <<record, open, form, typed, wanted, reopened, rejected>>

\* Logging out or losing the process.
Leave ==
  /\ inside
  /\ inside' = FALSE
  /\ open' = FALSE
  /\ UNCHANGED <<record, writes, local, form, history>>

\* Mutant: the rows are not filled.
MutantOpenFormEmpty ==
  /\ inside
  /\ ~open
  /\ open' = TRUE
  /\ form' = [f \in Fields |-> Blank]
  /\ typed' = {}
  /\ reopened' = (reopened \/ saved)
  /\ UNCHANGED <<record, writes, inside, local, wanted, saved, facebook, rejected>>

\* viewDidLoad fills the rows from the user the form was made with.
OpenForm ==
  /\ inside
  /\ ~open
  /\ open' = TRUE
  /\ form' = local
  /\ typed' = {}
  /\ reopened' = (reopened \/ saved)
  /\ UNCHANGED <<record, writes, inside, local, wanted, saved, facebook, rejected>>

Type(f) ==
  /\ open
  /\ \E v \in (Values \cup {Blank}) \ {form[f]} : form' = [form EXCEPT ![f] = v]
  /\ typed' = typed \cup {f}
  /\ UNCHANGED <<record, writes, inside, local, open, wanted, saved, reopened, facebook, rejected>>

\* didTapDone with the required fields filled in; without, it shows an alert.
\* A gender is required too, but its row starts unset whenever the form opens
\* and is never written, so choosing it is part of this step. The form is
\* pushed, not presented, so the dismiss after a success closes nothing: the
\* user goes on editing or leaves by himself.
TapSave ==
  /\ open
  /\ \A f \in Required : form[f] # Blank
  /\ Write(form)
  /\ wanted' = [f \in Fields |-> IF f \in typed THEN form[f] ELSE wanted[f]]
  /\ saved' = TRUE
  /\ UNCHANGED <<record, inside, local, open, form, typed, reopened, facebook, rejected>>

CloseForm ==
  /\ open
  /\ open' = FALSE
  /\ UNCHANGED <<record, writes, inside, local, form, history>>

WriteApplied ==
  /\ writes # <<>>
  /\ record' = Head(writes)
  /\ writes' = Tail(writes)
  /\ UNCHANGED <<inside, local, open, form, history>>

\* The updater's completion gets FALSE and the form shows nothing.
WriteRejected ==
  /\ writes # <<>>
  /\ writes' = Tail(writes)
  /\ rejected' = TRUE
  /\ UNCHANGED <<record, inside, local, open, form, typed, wanted, saved, reopened, facebook>>

Next ==
  \/ Enter \/ EnterWithFacebook \/ Leave
  \/ OpenForm \/ TapSave \/ CloseForm
  \/ \E f \in Fields : Type(f)
  \/ WriteApplied \/ WriteRejected

Spec == Init /\ [][Next]_vars

----------------------------------------------------------------------------
\* Whatever is edited, saved, left and resynced, every field ends up as the
\* user last saved it, with three exceptions: a form opened after another save
\* of the same session, a Facebook login, and a write the server refuses
\* (viewDidLoad's row values, update's four fields, setData).
EditsSurvive ==
  writes = <<>> /\ ~reopened /\ ~facebook /\ ~rejected => record = wanted

\* An untouched row of the open form shows what the device would read, with
\* the same exceptions.
FormIsCurrent ==
  open /\ ~reopened /\ ~facebook /\ ~rejected =>
    \A f \in Fields \ typed : form[f] = wanted[f]

=============================================================================
