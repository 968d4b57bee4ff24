---------------------------- MODULE SessionForms ----------------------------
(***************************************************************************)
(* The session and the navigation stack of its profile tab. The settings   *)
(* and account details screens keep the user they were pushed with, while  *)
(* logging out only detaches the tabs: their stacks stay as they are and   *)
(* the next session finds them.                                            *)
(***************************************************************************)
EXTENDS Session

\* The user of the form pushed on the profile screen, NoUser at the screen
\* itself, where the Logout item is.
VARIABLE formUser

formVars == <<vars, formUser>>

FormsInit ==
  /\ Init
  /\ formUser = NoUser

\* selectionBlock of the profile screen, for "Settings" and "Account Details".
OpenForm ==
  /\ CanTap("tabs")
  /\ formUser = NoUser
  /\ formUser' = appUser
  /\ UNCHANGED vars

\* The back button, or Done of the form.
CloseForm ==
  /\ CanTap("tabs")
  /\ formUser' = NoUser
  /\ UNCHANGED vars

\* Mutant: the forms have a Logout item, too.
MutantLogoutOnForm ==
  /\ TapLogout
  /\ UNCHANGED formUser

\* The profile screen is the only one with a Logout item.
LogoutOnProfile ==
  /\ formUser = NoUser
  /\ TapLogout
  /\ UNCHANGED formUser

\* The screens die with the process.
KillForms ==
  /\ Kill
  /\ formUser' = NoUser

\* Nothing else touches the stack.
SessionStep ==
  /\ \/ LaunchResync \/ LaunchFresh \/ FinishWalkthrough
     \/ FlipDone \/ TokenReceived
     \/ Navigate \/ DismissAlert \/ TapGuest
     \/ \E u \in Users : TapCredentials(u) \/ TapFacebook(u) \/ DeleteUser(u)
     \/ \E s \in Slots : Answer(s) \/ Handler(s)
  /\ UNCHANGED formUser

FormsNext == OpenForm \/ CloseForm \/ LogoutOnProfile \/ KillForms \/ SessionStep

FormsSpec == FormsInit /\ [][FormsNext]_formVars

----------------------------------------------------------------------------
\* A form on the profile tab's stack never outlives its session, although no
\* logout clears the stack; and unless logins overlapped, what it saves goes
\* to the record of the session's user under that user's own credentials.
FormBelongsToSession ==
  formUser # NoUser =>
    /\ "tabs" \in shown
    /\ ~overlapped => formUser = hostUser /\ formUser = authUser

=============================================================================
