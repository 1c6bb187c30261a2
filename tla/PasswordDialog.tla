--------------------------- MODULE PasswordDialog ----------------------------
(***************************************************************************)
(* The dialog that changes a password (um-password-dialog.c) inside the    *)
(* user-accounts panel (um-user-panel.c), composed with the passwd handler *)
(* of RunPasswd.  The panel keeps one dialog and hands it from user to     *)
(* user; only for the account of the current user does the dialog drive a  *)
(* passwd handler, whose callbacks arrive whenever passwd answers: after   *)
(* the dialog has been hidden, and after it has been opened for another    *)
(* user.                                                                   *)
(*                                                                         *)
(* A callback runs inside the step of RunPasswd that makes it, `called`    *)
(* tells which.  The variable old_password_ok of RunPasswd is the field of *)
(* the dialog.  Texts are passwords or Empty.                              *)
(***************************************************************************)
EXTENDS RunPasswd

CONSTANTS
  Empty,       \* the text of an empty entry; finish_password_change's " " counts as one
  Strong       \* the passwords pw_strength finds good enough

ASSUME DialogAssumption ==
  /\ Empty \notin Passwords \cup {None}
  /\ Strong \subseteq Passwords

VARIABLES
  selected,        \* the user selected in the panel: "self" is the current user
  password_mode,   \* what the accounts service says of the current user
  user,            \* um->user, "none" for NULL
  visible, sensitive, ok_button,
  mode,            \* the row of the action combo
  old_shown,       \* the entry for the current password is visible
  old_password_entry, password_entry, verify_entry

entries    == <<old_password_entry, password_entry, verify_entry>>
dialogVars == <<selected, password_mode, user, visible, sensitive, ok_button,
                mode, old_shown, entries>>
allVars == <<vars, dialogVars>>

Texts == Passwords \cup {Empty}
Modes == {"normal", "set_at_login", "no_password"}
Users == {"self", "other"}

\* What the dialog's steps leave alone when they do not touch the handler.
HandlerUnchanged ==
  /\ called' = NoCall
  /\ UNCHANGED <<handlerVars, str, processVars, account, pending, spawns>>

DialogInit ==
  /\ Init
  /\ selected \in Users
  /\ password_mode = IF account = None THEN "none" ELSE "regular"
  /\ user = "none"
  /\ visible = FALSE
  /\ sensitive = TRUE
  /\ ok_button = FALSE
  /\ mode = "normal"
  /\ old_shown = FALSE
  /\ old_password_entry = Empty
  /\ password_entry = Empty
  /\ verify_entry = Empty

\* update_sensitivity in normal mode: may the OK button be pressed?
CanChange(ok, password, verify) ==
  password \in Strong /\ password = verify /\ ok

(***************************************************************************)
(* um_password_dialog_set_user: every entry is cleared; a handler of the   *)
(* current user is destroyed, with its passwd, and created anew; one that  *)
(* is left from the current user stays when another user is set.           *)
(***************************************************************************)

SetUser(u) ==
  /\ user' = u
  /\ old_password_entry' = Empty
  /\ password_entry' = Empty
  /\ verify_entry' = Empty
  /\ ok_button' = FALSE
  /\ mode' = "normal"
  /\ old_shown' = (u = "self" /\ password_mode = "regular")
  /\ old_password_ok' = ~(u = "self" /\ password_mode = "regular")
  /\ IF u = "self" THEN PasswdDestroyInit ELSE HandlerUnchanged

\* finish_password_change ends with um_password_dialog_set_user (um, NULL).
Finish ==
  /\ visible' = FALSE
  /\ user' = "none"
  /\ old_password_entry' = Empty
  /\ password_entry' = Empty
  /\ verify_entry' = Empty
  /\ ok_button' = FALSE
  /\ mode' = "normal"
  /\ UNCHANGED old_shown

\* Clearing the entry of the current password tells old_password_entry_changed.
OldPasswordOkAfterClearing(ok) == ok /\ old_password_entry = Empty

(***************************************************************************)
(* The panel.                                                              *)
(***************************************************************************)

\* change_password: the dialog is modal, so it is not open yet.
OpenDialog ==
  /\ ~visible
  /\ SetUser(selected)
  /\ visible' = TRUE
  /\ UNCHANGED <<selected, password_mode, sensitive>>

\* user_changed of the selected user, or a change of the permission: show_user
\* and on_permission_changed set the dialog's user again, open or not.
RefreshPanel ==
  /\ SetUser(selected)
  /\ UNCHANGED <<selected, password_mode, visible, sensitive>>

SelectUser ==
  /\ ~visible
  /\ selected' \in Users \ {selected}
  /\ SetUser(selected')
  /\ UNCHANGED <<password_mode, visible, sensitive>>

(***************************************************************************)
(* The entries and buttons.                                                *)
(***************************************************************************)

Usable == visible /\ sensitive

\* old_password_entry_changed: what was typed is not the password passwd accepted.
ButtonLeftOn       == ok_button      \* mutant: the button is not updated
ButtonAfterEditing == FALSE

TypeOldPassword ==
  /\ Usable /\ mode = "normal" /\ old_shown
  /\ old_password_entry' \in Texts \ {old_password_entry}
  /\ old_password_ok' = FALSE
  /\ ok_button' = ButtonAfterEditing
  /\ HandlerUnchanged
  /\ UNCHANGED <<selected, password_mode, user, visible, sensitive, mode, old_shown,
                 password_entry, verify_entry>>

TypeNewPassword ==
  /\ Usable /\ mode = "normal"
  /\ \/ /\ password_entry' \in Texts \ {password_entry}
        /\ UNCHANGED verify_entry
     \/ /\ verify_entry' \in Texts \ {verify_entry}
        /\ UNCHANGED password_entry
  /\ ok_button' = CanChange(old_password_ok, password_entry', verify_entry')
  /\ HandlerUnchanged
  /\ UNCHANGED <<selected, password_mode, user, visible, sensitive, mode, old_shown,
                 old_password_entry, old_password_ok>>

\* generate_one_password
GeneratePassword ==
  /\ Usable /\ mode = "normal"
  /\ password_entry' \in Strong
  /\ verify_entry' = Empty
  /\ ok_button' = FALSE
  /\ HandlerUnchanged
  /\ UNCHANGED <<selected, password_mode, user, visible, sensitive, mode, old_shown,
                 old_password_entry, old_password_ok>>

\* old_password_entry_activate and old_password_entry_focus_out
SubmitOldPassword ==
  /\ Usable /\ old_shown /\ old_password_entry # Empty
  /\ PasswdAuthenticate(old_password_entry) \/ AuthenticateIgnored
  /\ UNCHANGED <<dialogVars, old_password_ok>>

\* action_changed; the combo is visible with the permission to administer users.
ChooseAction ==
  /\ Usable
  /\ mode' \in Modes \ {mode}
  /\ ok_button' = \/ mode' # "normal"
                  \/ CanChange(old_password_ok, password_entry, verify_entry)
  /\ HandlerUnchanged
  /\ UNCHANGED <<selected, password_mode, user, visible, sensitive, old_shown,
                 entries, old_password_ok>>

\* accept_password_dialog hides the dialog at once, whether passwd is done or not.
SensitiveDuringChange == UNCHANGED sensitive        \* mutant: the dialog stays usable
InsensitiveDuringChange == sensitive' = FALSE

AcceptNormal ==
  /\ mode = "normal"
  /\ IF user = "self"
     THEN /\ PasswdChangePassword(password_entry)
          /\ InsensitiveDuringChange
          /\ password_mode' = "regular"
     ELSE /\ HandlerUnchanged
          /\ UNCHANGED <<sensitive, password_mode>>

\* The accounts service deletes the password in these modes.
AcceptOtherMode ==
  /\ mode # "normal"
  /\ called' = NoCall
  /\ IF user = "self"
     THEN account' = None /\ password_mode' = "none"
     ELSE UNCHANGED <<account, password_mode>>
  /\ UNCHANGED <<handlerVars, str, processVars, pending, spawns, sensitive>>

Accept ==
  /\ Usable /\ ok_button
  /\ AcceptNormal \/ AcceptOtherMode
  /\ Finish
  /\ old_password_ok' = OldPasswordOkAfterClearing(old_password_ok)
  /\ UNCHANGED selected

Cancel ==
  /\ Usable
  /\ Finish
  /\ old_password_ok' = OldPasswordOkAfterClearing(old_password_ok)
  /\ HandlerUnchanged
  /\ UNCHANGED <<selected, password_mode, sensitive>>

\* The window's close button works on an insensitive dialog too, and only hides it.
Close ==
  /\ visible
  /\ visible' = FALSE
  /\ HandlerUnchanged
  /\ UNCHANGED <<selected, password_mode, user, sensitive, ok_button, mode, old_shown,
                 entries, old_password_ok>>

\* The panel is left (um_password_dialog_free) and entered again.
ReenterPanel ==
  /\ PasswdDestroyInit
  /\ selected' \in Users
  /\ user' = "none"
  /\ visible' = FALSE
  /\ sensitive' = TRUE
  /\ ok_button' = FALSE
  /\ mode' = "normal"
  /\ old_shown' = FALSE
  /\ old_password_entry' = Empty
  /\ password_entry' = Empty
  /\ verify_entry' = Empty
  /\ old_password_ok' = FALSE
  /\ UNCHANGED password_mode

(***************************************************************************)
(* The callbacks of the handler.                                           *)
(***************************************************************************)

NotCalled ==
  /\ called' = NoCall
  /\ UNCHANGED <<dialogVars, old_password_ok>>

AuthCb ==
  /\ called'.cb = "auth"
  /\ old_password_ok' = (called'.error = "none")
  /\ ok_button' = IF mode = "normal"
                  THEN CanChange(old_password_ok', password_entry, verify_entry)
                  ELSE ok_button
  /\ UNCHANGED <<selected, password_mode, user, visible, sensitive, mode, old_shown, entries>>

\* password_changed_cb without an error closes the dialog, whoever it is open for.
PasswordChanged ==
  /\ called' = ChangeCall("none")
  /\ sensitive' = TRUE
  /\ Finish
  /\ old_password_ok' = OldPasswordOkAfterClearing(old_password_ok)
  /\ UNCHANGED <<selected, password_mode>>

PasswordRejected ==
  /\ called' = ChangeCall("REJECTED")
  /\ sensitive' = TRUE
  /\ password_entry' = Empty
  /\ verify_entry' = Empty
  /\ ok_button' = (ok_button /\ mode # "normal")
  /\ UNCHANGED <<selected, password_mode, user, visible, mode, old_shown,
                 old_password_entry, old_password_ok>>

PasswordAuthFailed ==
  /\ called' = ChangeCall("AUTH_FAILED")
  /\ sensitive' = TRUE
  /\ old_password_entry' = Empty
  /\ old_password_ok' = OldPasswordOkAfterClearing(old_password_ok)
  /\ ok_button' = (ok_button /\ old_password_entry = Empty)
  /\ UNCHANGED <<selected, password_mode, user, visible, mode, old_shown,
                 password_entry, verify_entry>>

HandlerCallback ==
  NotCalled \/ AuthCb \/ PasswordChanged \/ PasswordRejected \/ PasswordAuthFailed

DialogReadStdout == IoWatchStdout /\ HandlerCallback
DialogReapChild  == ChildWatch /\ HandlerCallback

DialogExternal ==
  /\ PasswdProcess
  /\ UNCHANGED <<dialogVars, old_password_ok>>

DialogNext ==
  \/ OpenDialog \/ RefreshPanel \/ SelectUser \/ ReenterPanel
  \/ TypeOldPassword \/ TypeNewPassword \/ GeneratePassword
  \/ SubmitOldPassword \/ ChooseAction
  \/ Accept \/ Cancel \/ Close
  \/ DialogReadStdout \/ DialogReapChild
  \/ DialogExternal

DialogFairness ==
  /\ WF_allVars(DialogReadStdout)
  /\ WF_allVars(DialogReapChild)
  /\ WF_allVars(DialogExternal)

DialogSpec == DialogInit /\ [][DialogNext]_allVars /\ DialogFairness

-----------------------------------------------------------------------------
(***************************************************************************)
(* Properties.                                                             *)
(***************************************************************************)

\* The types of the dialog's variables.
DialogTypeOK ==
  /\ TypeOK
  /\ selected \in Users
  /\ password_mode \in {"regular", "none"}
  /\ user \in Users \cup {"none"}
  /\ visible \in BOOLEAN /\ sensitive \in BOOLEAN /\ ok_button \in BOOLEAN
  /\ mode \in Modes
  /\ old_shown \in BOOLEAN
  /\ {old_password_entry, password_entry, verify_entry} \subseteq Texts

\* The OK button can only be pressed in normal mode for what update_sensitivity
\* demands of the texts and of the answer of passwd at this moment, although it is
\* set from a dozen handlers and from callbacks that arrive later.
OkButtonIsCurrent ==
  /\ DialogTypeOK
  /\ (visible /\ ok_button /\ mode = "normal") =>
       CanChange(old_password_ok, password_entry, verify_entry)

\* While the handler owes an answer no step of the dialog asks it for another
\* change: the dialog cannot be used until the callback has run.
OneChangeAtATime == pending # None => ~sensitive

\* "we can safely kill passwd as it has completed its task" (run-passwd.c, stop_passwd):
\* a running passwd is killed only when no change is awaited from it.
KilledOnlyWhenDone ==
  [][(phase \in Alive /\ phase' = "absent") => (pending = None)]_allVars
=============================================================================
