------------------------------ MODULE RunPasswd ------------------------------
(***************************************************************************)
(* The passwd handler of the user-accounts panel (run-passwd.c): it drives *)
(* /usr/bin/passwd through a pair of pipes, guessing from the prompts it   *)
(* reads which answer to write next, and tells its caller through two      *)
(* callbacks whether the current password was accepted and whether the     *)
(* password was changed.                                                   *)
(*                                                                         *)
(* Three actors interleave: the caller (the password dialog), the main     *)
(* loop's watches on the child's output and on its exit, and the passwd    *)
(* process with its PAM stack, which is not in the repository and is       *)
(* modelled from the prompts and messages the code looks for.              *)
(*                                                                         *)
(* Text is abstracted to the keywords the code searches for.  A message of *)
(* passwd is a sequence of fragments, a fragment the set of keywords that  *)
(* become complete when it has been read; one read of at most BUFSIZE      *)
(* bytes takes one or several fragments.                                   *)
(***************************************************************************)
EXTENDS Naturals, Sequences

CONSTANTS
  Passwords,   \* the passwords a user may type or have
  Weak,        \* those the PAM stack refuses as a new password
  None,        \* no password: NULL, or an account that has none
  MaxSpawns    \* bound: how often passwd is started in a behaviour

ASSUME ConstantsAssumption ==
  /\ Weak \subseteq Passwords
  /\ None \notin Passwords
  /\ MaxSpawns \in Nat

VARIABLES
  \* struct PasswdHandler
  current_password, running, stdin_queue, backend_state, changing_password,
  auth_cb, chpasswd_cb,
  \* the persistent buffer of io_watch_stdout, shared by all handlers
  str,
  \* the passwd process, its pipes, and the account it changes
  phase, verified, typed, stdin_pipe, stdout_pipe, account,
  \* the caller: whether it holds the current password for right, the new password
  \* it waits for, and the callback run by the last step
  old_password_ok, pending, called,
  spawns

handlerVars == <<current_password, running, stdin_queue, backend_state,
                 changing_password, auth_cb, chpasswd_cb>>
processVars == <<phase, verified, typed, stdin_pipe, stdout_pipe>>
vars == <<handlerVars, str, processVars, account, pending, called, spawns,
          old_password_ok>>

States == {"NONE", "AUTH", "NEW", "RETYPE", "DONE", "ERR"}

Keywords == {"assword", "new", "incorrect", "error", "failure", "reject",
             "unchanged", "success"}
\* "error" stands for wrong and error, which only the AUTH state looks for;
\* "reject" for the reasons a new password is refused with; "unchanged" also
\* stands for match.
AuthKeywords   == {"assword", "failure", "error"}
RetypeKeywords == {"success", "reject", "unchanged", "failure"}

Fragments == SUBSET Keywords

NoCall == [cb |-> "none", error |-> "none"]
AuthCall(error)   == [cb |-> "auth", error |-> error]
ChangeCall(error) == [cb |-> "chpasswd", error |-> error]
Calls == {NoCall}
         \cup [cb : {"auth"}, error : {"none", "AUTH_FAILED"}]
         \cup [cb : {"chpasswd"}, error : {"none", "AUTH_FAILED", "REJECTED"}]

Phases == {"absent", "starting", "asks_current", "asks_new", "asks_retype",
           "updated", "reported", "exited_ok", "exited_err"}
Alive     == Phases \ {"absent", "exited_ok", "exited_err"}
Committed == {"updated", "reported", "exited_ok"}

Init ==
  /\ current_password = None
  /\ running = FALSE
  /\ stdin_queue = <<>>
  /\ backend_state = "NONE"
  /\ changing_password = FALSE
  /\ auth_cb = FALSE
  /\ chpasswd_cb = FALSE
  /\ str = {}
  /\ phase = "absent"
  /\ verified = None
  /\ typed = None
  /\ stdin_pipe = <<>>
  /\ stdout_pipe = <<>>
  /\ account \in Passwords \cup {None}
  /\ old_password_ok = (account = None)
  /\ pending = None
  /\ called = NoCall
  /\ spawns = 0

(***************************************************************************)
(* Helpers of the handler.                                                 *)
(***************************************************************************)

\* is_string_complete: does one of the wanted keywords occur in the text?
IsStringComplete(text, wanted) == text \cap wanted # {}

\* A pop of an empty queue yields NULL and changes nothing.
Popped(queue) == IF queue = <<>> THEN <<>> ELSE Tail(queue)
IoQueuePop(queue, channel) ==
  IF queue = <<>> THEN channel ELSE Append(channel, Head(queue))

StateKept  == backend_state      \* mutant: the state is not reset
StateFreed == "NONE"

\* free_passwd_resources: what it does to the handler and to the pipes it closes.
FreePasswdResources ==
  /\ running' = FALSE
  /\ backend_state' = StateFreed
  /\ stdin_pipe' = <<>>
  /\ stdout_pipe' = <<>>
  /\ phase' = "absent"
  /\ verified' = None
  /\ typed' = None

\* Mutant: the child is not killed and finds the answers that were written.
StopUnkilled ==
  /\ running' = FALSE
  /\ backend_state' = StateFreed
  /\ stdout_pipe' = <<>>
  /\ UNCHANGED <<stdin_pipe, phase, verified, typed>>

\* stop_passwd kills the child, if there is one, before it frees the rest.
StopPasswd == FreePasswdResources

\* spawn_passwd after stop_passwd, when the child could be started.
SpawnPasswd ==
  /\ spawns < MaxSpawns
  /\ spawns' = spawns + 1
  /\ running' = TRUE
  /\ backend_state' = "NONE"
  /\ stdout_pipe' = <<>>
  /\ phase' = "starting"
  /\ verified' = None
  /\ typed' = None

(***************************************************************************)
(* The calls of run-passwd.h.                                              *)
(***************************************************************************)

\* passwd_authenticate while a change is under way returns at once.
AuthenticateIgnored ==
  /\ changing_password
  /\ called' = NoCall
  /\ UNCHANGED <<handlerVars, str, processVars, account, pending, spawns>>

MayAlwaysAuthenticate == TRUE       \* mutant: a change does not hold it back
MayAuthenticate == ~changing_password

PasswdAuthenticate(password) ==
  /\ MayAuthenticate
  /\ chpasswd_cb' = FALSE
  /\ current_password' = password
  /\ auth_cb' = TRUE
  /\ called' = NoCall
  /\ \/ /\ SpawnPasswd
        /\ stdin_queue' = <<password>>
        /\ stdin_pipe' = <<>>
     \/ /\ StopPasswd                        \* spawn_passwd failed
        /\ stdin_queue' = <<>>
        /\ UNCHANGED spawns
  /\ UNCHANGED <<changing_password, str, account, pending>>

\* passwd_change_password when the backend has to be started (again).
ChangeFromRestart(new) ==
  LET queue == stdin_queue \o <<current_password, new, new>> IN
  \/ /\ SpawnPasswd
     /\ IF current_password # None
        THEN /\ stdin_queue' = Tail(queue)
             /\ stdin_pipe' = <<Head(queue)>>
        ELSE /\ stdin_queue' = queue
             /\ stdin_pipe' = <<>>
  \/ /\ StopPasswd                           \* spawn_passwd failed
     /\ UNCHANGED <<stdin_queue, spawns>>

\* passwd_change_password when it goes on with the backend that runs.
ChangeInSession(new) ==
  LET queue == stdin_queue \o <<new, new>> IN
  /\ IF current_password # None
     THEN /\ stdin_queue' = Tail(queue)
          /\ stdin_pipe' = Append(stdin_pipe, Head(queue))
     ELSE /\ stdin_queue' = queue
          /\ UNCHANGED stdin_pipe
  /\ UNCHANGED <<running, backend_state, phase, verified, typed, stdout_pipe, spawns>>

NeedsRestart == backend_state = "ERR" \/ ~running

\* The caller asks for one change at a time: the dialog is insensitive meanwhile.
PasswdChangePassword(new) ==
  /\ pending = None
  /\ pending' = new
  /\ changing_password' = TRUE
  /\ chpasswd_cb' = TRUE
  /\ called' = NoCall
  /\ IF NeedsRestart
     THEN ChangeFromRestart(new)
     ELSE ChangeInSession(new)
  /\ UNCHANGED <<current_password, auth_cb, str, account>>

\* passwd_destroy, then passwd_init: a fresh handler, but the same static buffer.
PasswdDestroyInit ==
  /\ StopPasswd
  /\ current_password' = None
  /\ stdin_queue' = <<>>
  /\ changing_password' = FALSE
  /\ auth_cb' = FALSE
  /\ chpasswd_cb' = FALSE
  /\ pending' = None
  /\ called' = NoCall
  /\ UNCHANGED <<str, account, spawns>>

(***************************************************************************)
(* The main loop's watches.                                                *)
(***************************************************************************)

Call(call) ==
  /\ called' = call
  /\ pending' = IF call.cb = "chpasswd" THEN None ELSE pending

PopToBackend ==
  /\ stdin_queue' = Popped(stdin_queue)
  /\ stdin_pipe' = IoQueuePop(stdin_queue, stdin_pipe)

\* PASSWD_STATE_NONE: the first prompt tells whether the account has a password.
ReadInNone(text) ==
  /\ backend_state = "NONE"
  /\ IF ~IsStringComplete(text, {"assword"})
     THEN /\ str' = text
          /\ UNCHANGED <<backend_state, stdin_queue, stdin_pipe>>
     ELSE /\ str' = {}
          /\ IF IsStringComplete(text, {"new"})
             THEN /\ backend_state' = "NEW"
                  /\ stdin_queue' = Popped(Popped(stdin_queue))
                  /\ stdin_pipe' = IoQueuePop(Popped(stdin_queue), stdin_pipe)
             ELSE /\ backend_state' = "AUTH"
                  /\ PopToBackend
  /\ Call(NoCall)
  /\ UNCHANGED changing_password

AcceptedUnlessIncorrect(text) ==    \* mutant: no new prompt is needed
  "incorrect" \notin text
Accepted(text) == "assword" \in text /\ "incorrect" \notin text

\* PASSWD_STATE_AUTH: accepted, or refused; a refusal leaves the state as it is.
ReadInAuth(text) ==
  /\ backend_state = "AUTH"
  /\ IF ~IsStringComplete(text, AuthKeywords)
     THEN /\ str' = text
          /\ Call(NoCall)
          /\ UNCHANGED <<backend_state, changing_password>>
     ELSE /\ str' = {}
          /\ IF Accepted(text)
             THEN /\ backend_state' = "NEW"
                  /\ Call(IF auth_cb THEN AuthCall("none") ELSE NoCall)
                  /\ UNCHANGED changing_password
             ELSE /\ changing_password' = FALSE
                  /\ Call(IF chpasswd_cb THEN ChangeCall("AUTH_FAILED")
                          ELSE IF auth_cb THEN AuthCall("AUTH_FAILED") ELSE NoCall)
                  /\ UNCHANGED backend_state
  /\ UNCHANGED <<stdin_queue, stdin_pipe>>

\* PASSWD_STATE_NEW: any further prompt is taken for the retype prompt.
ReadInNew(text) ==
  /\ backend_state = "NEW"
  /\ IF IsStringComplete(text, {"assword"})
     THEN /\ str' = {}
          /\ backend_state' = "RETYPE"
          /\ PopToBackend
     ELSE /\ str' = text
          /\ UNCHANGED <<backend_state, stdin_queue, stdin_pipe>>
  /\ Call(NoCall)
  /\ UNCHANGED changing_password

RetypeError(text) ==
  IF text \cap {"reject", "unchanged"} # {} THEN "REJECTED" ELSE "AUTH_FAILED"

StateStillRetype  == "RETYPE"       \* mutant: a refusal does not end the dialogue
StateAfterRefusal == "ERR"

\* PASSWD_STATE_RETYPE: the verdict on the new password.
ReadInRetype(text) ==
  /\ backend_state = "RETYPE"
  /\ IF ~IsStringComplete(text, RetypeKeywords)
     THEN /\ str' = text
          /\ Call(NoCall)
          /\ UNCHANGED <<backend_state, changing_password>>
     ELSE /\ str' = {}
          /\ IF "success" \in text
             THEN /\ backend_state' = "DONE"
                  /\ Call(IF chpasswd_cb THEN ChangeCall("none") ELSE NoCall)
                  /\ UNCHANGED changing_password
             ELSE /\ backend_state' = StateAfterRefusal
                  /\ changing_password' = FALSE
                  /\ Call(IF chpasswd_cb THEN ChangeCall(RetypeError(text)) ELSE NoCall)
  /\ UNCHANGED <<stdin_queue, stdin_pipe>>

\* PASSWD_STATE_DONE and PASSWD_STATE_ERR: output is thrown away.
ReadInDefault ==
  /\ backend_state \in {"DONE", "ERR"}
  /\ str' = {}
  /\ Call(NoCall)
  /\ UNCHANGED <<backend_state, changing_password, stdin_queue, stdin_pipe>>

IoWatchStdout ==
  /\ running
  /\ \E n \in 1 .. Len(stdout_pipe) :
       LET text == str \cup UNION {stdout_pipe[i] : i \in 1 .. n} IN
       /\ stdout_pipe' = SubSeq(stdout_pipe, n + 1, Len(stdout_pipe))
       /\ \/ ReadInNone(text)
          \/ ReadInAuth(text)
          \/ ReadInNew(text)
          \/ ReadInRetype(text)
          \/ ReadInDefault
  /\ UNCHANGED <<current_password, running, auth_cb, chpasswd_cb,
                 phase, verified, typed, account, spawns>>

AnyExitChanged == backend_state = "RETYPE"   \* mutant: whatever the exit status
NoExitChanged  == FALSE                      \* mutant: an exit is never news
ExitChanged    == phase = "exited_ok" /\ backend_state = "RETYPE"

\* child_watch_cb: may run before the rest of the output has been read.
ChildWatch ==
  /\ running
  /\ phase \in {"exited_ok", "exited_err"}
  /\ Call(IF ExitChanged /\ chpasswd_cb THEN ChangeCall("none") ELSE NoCall)
  /\ FreePasswdResources
  /\ UNCHANGED <<current_password, stdin_queue, changing_password, auth_cb,
                 chpasswd_cb, str, account, spawns>>

(***************************************************************************)
(* The passwd process and its PAM stack (external).                        *)
(***************************************************************************)

Prompt        == << {"assword"} >>
NewPrompt     == << {"new"}, {"assword"} >>     \* also "Retype new password: "
AuthFailure   == << {"error"}, {"unchanged"} >>  \* and passwd gives up
Refusal       == << {"reject"} >>
NotRecognised == << {"failure"} >>
Updated       == << {"success"} >>

Says(message) == stdout_pipe' = stdout_pipe \o message

notProcess == <<handlerVars, str, pending, spawns>>

PasswdStarts ==
  /\ phase = "starting"
  /\ IF account # None
     THEN phase' = "asks_current" /\ Says(Prompt)
     ELSE phase' = "asks_new" /\ Says(NewPrompt)
  /\ UNCHANGED <<verified, typed, stdin_pipe, account>>

PasswdReads ==
  /\ stdin_pipe # <<>>
  /\ stdin_pipe' = Tail(stdin_pipe)

PasswdReadsCurrent ==
  /\ phase = "asks_current"
  /\ PasswdReads
  /\ \/ /\ Head(stdin_pipe) = account
        /\ phase' = "asks_new"
        /\ verified' = account
        /\ Says(NewPrompt)
     \/ /\ Head(stdin_pipe) # account
        /\ phase' = "exited_err"
        /\ Says(AuthFailure)
        /\ UNCHANGED verified
  /\ UNCHANGED <<typed, account>>

\* A refused password: passwd gives up, or asks for a new one again.
PasswdRefuses ==
  \/ phase' = "exited_err" /\ Says(Refusal \o AuthFailure)
  \/ phase' = "asks_new" /\ Says(Refusal \o NewPrompt)

PasswdReadsNew ==
  /\ phase = "asks_new"
  /\ PasswdReads
  /\ \/ /\ Head(stdin_pipe) \in Weak          \* PAM may judge it here or later
        /\ PasswdRefuses
        /\ UNCHANGED typed
     \/ /\ phase' = "asks_retype"
        /\ typed' = Head(stdin_pipe)
        /\ Says(NewPrompt)
  /\ UNCHANGED <<verified, account>>

PasswdReadsRetype ==
  /\ phase = "asks_retype"
  /\ PasswdReads
  /\ \/ /\ Head(stdin_pipe) # typed \/ typed \in Weak
        /\ PasswdRefuses
        /\ UNCHANGED account
     \/ /\ Head(stdin_pipe) = typed /\ typed \notin Weak
        /\ verified # account                \* changed since it was typed
        /\ phase' = "exited_err" /\ Says(NotRecognised)
        /\ UNCHANGED account
     \/ /\ Head(stdin_pipe) = typed /\ typed \notin Weak
        /\ verified = account
        /\ phase' = "updated"
        /\ account' = typed
        /\ UNCHANGED stdout_pipe
  /\ UNCHANGED <<verified, typed>>

PasswdReports ==
  /\ phase = "updated"
  /\ phase' = "reported"
  /\ Says(Updated)
  /\ UNCHANGED <<verified, typed, stdin_pipe, account>>

PasswdExits ==
  /\ phase = "reported"
  /\ phase' = "exited_ok"
  /\ UNCHANGED <<verified, typed, stdin_pipe, stdout_pipe, account>>

PasswdProcess ==
  /\ \/ PasswdStarts
     \/ PasswdReadsCurrent
     \/ PasswdReadsNew
     \/ PasswdReadsRetype
     \/ PasswdReports
     \/ PasswdExits
  /\ called' = NoCall
  /\ UNCHANGED notProcess

\* Somebody else changes the password of the account.
AccountChangedElsewhere ==
  /\ account # None
  /\ account' \in Passwords \ {account}
  /\ called' = NoCall
  /\ UNCHANGED <<handlerVars, str, processVars, pending, spawns>>

(***************************************************************************)
(* A caller with the discipline of the password dialog: a change is asked  *)
(* for only while the caller holds the current password for right, which   *)
(* it does when the handler said so, or when the account has no password.  *)
(***************************************************************************)

Destroy ==
  /\ PasswdDestroyInit
  /\ old_password_ok' = (account = None)

\* The entry for the current password is shown when the account has one.
Authenticate ==
  /\ account # None
  /\ \/ AuthenticateIgnored
     \/ \E password \in Passwords : PasswdAuthenticate(password)
  /\ UNCHANGED old_password_ok

ChangePassword ==
  /\ old_password_ok
  /\ \E new \in Passwords : PasswdChangePassword(new)
  /\ UNCHANGED old_password_ok

\* The user edits the current password he had typed.
EditOldPassword ==
  /\ old_password_ok' = FALSE
  /\ called' = NoCall
  /\ UNCHANGED <<handlerVars, str, processVars, account, pending, spawns>>

Callback ==
  old_password_ok' =
    CASE called'.cb = "auth"     -> called'.error = "none"
      [] called'.cb = "chpasswd" -> old_password_ok /\ called'.error = "REJECTED"
      [] OTHER                   -> old_password_ok

ReadStdout == IoWatchStdout /\ Callback
ReapChild  == ChildWatch /\ Callback

External ==
  /\ PasswdProcess \/ AccountChangedElsewhere
  /\ UNCHANGED old_password_ok

Next ==
  \/ Authenticate
  \/ ChangePassword
  \/ Destroy
  \/ EditOldPassword
  \/ ReadStdout
  \/ ReapChild
  \/ External

\* The main loop dispatches a ready source eventually, and passwd goes on when
\* it has an answer to read.  The caller owes nothing.
Fairness ==
  /\ WF_vars(ReadStdout)
  /\ WF_vars(ReapChild)
  /\ WF_vars(PasswdProcess /\ UNCHANGED old_password_ok)

Spec == Init /\ [][Next]_vars /\ Fairness
-----------------------------------------------------------------------------
(***************************************************************************)
(* Properties.                                                             *)
(***************************************************************************)

FlagsOK ==
  /\ running \in BOOLEAN
  /\ changing_password \in BOOLEAN
  /\ auth_cb \in BOOLEAN
  /\ chpasswd_cb \in BOOLEAN
  /\ old_password_ok \in BOOLEAN

ValuesOK ==
  /\ current_password \in Passwords \cup {None}
  /\ stdin_queue \in Seq(Passwords \cup {None})
  /\ backend_state \in States
  /\ str \in Fragments
  /\ phase \in Phases
  /\ verified \in Passwords \cup {None}
  /\ typed \in Passwords \cup {None}
  /\ stdin_pipe \in Seq(Passwords \cup {None})
  /\ stdout_pipe \in Seq(Fragments)
  /\ account \in Passwords \cup {None}
  /\ pending \in Passwords \cup {None}
  /\ called \in Calls
  /\ spawns \in 0 .. MaxSpawns

BackendReleased ==
  ~running => /\ backend_state = "NONE"
              /\ phase = "absent"
              /\ stdin_pipe = <<>>
              /\ stdout_pipe = <<>>

\* The types, and that what belongs to a backend is released together: without
\* a backend there is no state of a dialogue, no process and no pipe.
TypeOK == FlagsOK /\ ValuesOK /\ BackendReleased

\* The handler tells its caller that the password was changed only when passwd
\* has changed it, and to the very password this caller asked for, whatever
\* sessions, leftovers of the queue and stale text went before.
ChangeReportIsTrue ==
  [][called' = ChangeCall("none") => phase \in Committed /\ typed = pending]_vars

\* A request to change the password is answered at most once, and the change
\* callback never runs for a request that was not made: passwd's output comes
\* in pieces, several of which look like a verdict.
AnswersOnlyWhenPending ==
  [][called'.cb = "chpasswd" => pending # None]_vars

\* The handler accepts the current password only when passwd has accepted it,
\* and it is the one of the latest passwd_authenticate.
AuthReportIsTrue ==
  [][called' = AuthCall("none") => verified = current_password /\ verified # None]_vars

\* While a change is awaited no call but passwd_destroy kills or replaces the
\* passwd that works on it (the early return of passwd_authenticate).
NeverKillsChange ==
  [][(pending # None /\ pending' = pending /\ phase \in Alive)
       => (phase' # "absent" /\ spawns' = spawns)]_vars

\* A password that passwd has changed for a waiting caller is reported to him,
\* even when passwd exits before its last words have been read.
SuccessIsReported ==
  (phase \in Committed /\ pending # None) ~> (pending = None)

\* "Our IO watcher should now handle the rest" (run-passwd.c): as long as passwd
\* runs, a request to change the password does not stay without an answer.
ChangeIsHandled ==
  (pending # None) ~> (pending = None \/ ~running)

\* What the module promises, without its dialogue: the password that passwd has
\* given to the account, and what the last step tells the caller.
SetPassword == IF phase \in Committed THEN typed ELSE None
Report ==
  IF called.cb # "chpasswd" THEN "none"
  ELSE IF called.error = "none" THEN "changed"
  ELSE called.error

Promise == INSTANCE PasswordChange WITH set <- SetPassword, report <- Report

\* The dialogue with passwd implements the promise of run-passwd.h: whatever was
\* left in queues and pipes by sessions before, the account is given only the
\* password that is waited for, a failure is told only when it was not, and a
\* passwd that did its work does not go before the caller has been told.
KeepsPromise == Promise!Spec
=============================================================================
