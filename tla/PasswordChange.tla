---------------------------- MODULE PasswordChange ----------------------------
(***************************************************************************)
(* What the passwd handler promises to its caller (run-passwd.h), without  *)
(* prompts, pipes and states: a caller asks for one change of the password *)
(* at a time, the account gets that password and no other, and the caller  *)
(* is told how it went.                                                    *)
(***************************************************************************)

CONSTANTS
  Passwords,   \* the passwords an account may have
  None         \* no password

VARIABLES
  account,   \* the password of the account
  pending,   \* the new password the caller waits for
  set,       \* the password that the handler's passwd has given to the account
  report     \* what the last step tells the caller: "none" is nothing

vars == <<account, pending, set, report>>

Failures == {"AUTH_FAILED", "REJECTED"}
Made == pending # None /\ set = pending

Init ==
  /\ account \in Passwords \cup {None}
  /\ pending = None
  /\ set = None
  /\ report = "none"

\* The caller asks for a change: nothing is left of an earlier one.
Ask ==
  /\ pending = None /\ set = None
  /\ pending' \in Passwords
  /\ report' = "none"
  /\ UNCHANGED <<account, set>>

\* The account gets the password that was asked for, and is given no other.
Change ==
  /\ pending # None /\ set = None
  /\ account' = pending
  /\ set' = pending
  /\ report' = "none"
  /\ UNCHANGED pending

\* The caller is told of the change when it was made,
Succeed ==
  /\ Made
  /\ pending' = None
  /\ set' \in {set, None}
  /\ report' = "changed"
  /\ UNCHANGED account

\* and of a failure only when it was not.
Fail ==
  /\ pending # None /\ ~Made
  /\ pending' = None
  /\ report' \in Failures
  /\ UNCHANGED <<account, set>>

\* The caller gives the handler up, and with it the request.
Withdraw ==
  /\ pending' = None
  /\ set' = None
  /\ report' = "none"
  /\ UNCHANGED account

\* A passwd that is done goes away, not before the caller has been told.
Release ==
  /\ ~Made
  /\ set' = None
  /\ report' = "none"
  /\ UNCHANGED <<account, pending>>

\* Somebody else changes the password.
ChangeElsewhere ==
  /\ account' \in Passwords
  /\ report' = "none"
  /\ UNCHANGED <<pending, set>>

\* Work the caller does not see.
Work ==
  /\ report' = "none"
  /\ UNCHANGED <<account, pending, set>>

Next ==
  \/ Ask \/ Change \/ Succeed \/ Fail \/ Withdraw \/ Release
  \/ ChangeElsewhere \/ Work

\* A change that was made does not stay untold.
Spec == Init /\ [][Next]_vars /\ WF_vars(Succeed)
=============================================================================
