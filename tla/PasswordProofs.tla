---------------------------- MODULE PasswordProofs ----------------------------
(***************************************************************************)
(* Proofs about the change of a password: the passwd handler (its type     *)
(* correctness, that no call other than passwd_destroy kills a passwd      *)
(* whose answer is awaited, and that what it tells its caller is true),    *)
(* and the dialog that calls it (the OK button never outlives the answer   *)
(* it rests on, and nothing can be asked while a change is under way).     *)
(*                                                                         *)
(* The two belong together: accept_password_dialog hands its entry to the  *)
(* handler as it is, and only what the button demands of the entry makes   *)
(* that a password the handler may be given.                               *)
(*                                                                         *)
(* Flags are kept apart from the other variables throughout: no leaf needs *)
(* Boolean-valued variables together with sequences or numbers.            *)
(***************************************************************************)
EXTENDS PasswordDialog, SequenceTheorems, TLAPS

Answers == Passwords \cup {None}

-----------------------------------------------------------------------------
\* What a pop leaves of a queue of answers, and what it writes, are answers.
LEMMA PopType ==
  ASSUME NEW q \in Seq(Answers), NEW c \in Seq(Answers)
  PROVE  /\ Popped(q) \in Seq(Answers)
         /\ IoQueuePop(q, c) \in Seq(Answers)
BY DEF Popped, IoQueuePop

\* The text of a read: what the buffer held, and the fragments that were read.
LEMMA TextType ==
  ASSUME NEW s \in Fragments, NEW out \in Seq(Fragments), NEW n \in 1 .. Len(out)
  PROVE  s \cup UNION {out[i] : i \in 1 .. n} \in Fragments
<1>1. ASSUME NEW i \in 1 .. n PROVE out[i] \in Fragments
  <2>1. i \in 1 .. Len(out)
    OBVIOUS
  <2> QED BY <2>1
<1>2. ASSUME NEW k \in UNION {out[i] : i \in 1 .. n} PROVE k \in Keywords
  BY <1>1 DEF Fragments
<1> QED BY <1>2 DEF Fragments

\* Each message of passwd is a sequence of fragments.
LEMMA MessageTypes ==
  /\ Prompt \in Seq(Fragments) /\ NewPrompt \in Seq(Fragments)
  /\ AuthFailure \in Seq(Fragments) /\ Refusal \in Seq(Fragments)
  /\ NotRecognised \in Seq(Fragments) /\ Updated \in Seq(Fragments)
<1>1. /\ {"assword"} \in Fragments /\ {"new"} \in Fragments /\ {"error"} \in Fragments
      /\ {"unchanged"} \in Fragments /\ {"reject"} \in Fragments
      /\ {"failure"} \in Fragments /\ {"success"} \in Fragments
  BY DEF Fragments, Keywords
<1> QED BY <1>1 DEF Prompt, NewPrompt, AuthFailure, Refusal, NotRecognised, Updated

\* The callbacks the handler can make.
LEMMA CallTypes ==
  /\ NoCall \in Calls
  /\ AuthCall("none") \in Calls /\ AuthCall("AUTH_FAILED") \in Calls
  /\ ChangeCall("none") \in Calls /\ ChangeCall("AUTH_FAILED") \in Calls
  /\ ChangeCall("REJECTED") \in Calls
BY DEF NoCall, AuthCall, ChangeCall, Calls

\* A backend that is started, or stopped, starts without a dialogue and with empty pipes.
LEMMA SpawnValues ==
  ASSUME ValuesOK, SpawnPasswd
  PROVE  /\ running'
         /\ spawns' \in 0 .. MaxSpawns
         /\ backend_state' \in States /\ phase' \in Phases
         /\ verified' \in Answers /\ typed' \in Answers
         /\ stdout_pipe' \in Seq(Fragments)
<1>1. spawns' \in 0 .. MaxSpawns
  BY ConstantsAssumption DEF ValuesOK, SpawnPasswd
<1>2. running' /\ stdout_pipe' \in Seq(Fragments)
  BY DEF SpawnPasswd
<1> QED BY <1>1, <1>2 DEF SpawnPasswd, States, Phases, Answers

\* stop_passwd leaves well-typed variables and nothing of the backend.
LEMMA StopValues ==
  ASSUME StopPasswd
  PROVE  /\ running' \in BOOLEAN /\ BackendReleased'
         /\ backend_state' \in States /\ phase' \in Phases
         /\ verified' \in Answers /\ typed' \in Answers
         /\ stdin_pipe' \in Seq(Answers) /\ stdout_pipe' \in Seq(Fragments)
<1>1. running' \in BOOLEAN
  BY DEF StopPasswd, FreePasswdResources
<1>2. BackendReleased'
  BY DEF StopPasswd, FreePasswdResources, StateFreed, BackendReleased
<1>3. stdin_pipe' \in Seq(Answers) /\ stdout_pipe' \in Seq(Fragments)
  BY DEF StopPasswd, FreePasswdResources
<1> QED BY <1>1, <1>2, <1>3
        DEF StopPasswd, FreePasswdResources, StateFreed, States, Phases, Answers

-----------------------------------------------------------------------------
\* The state passwd_init leaves, with no process and nothing awaited, is well typed.
LEMMA InitTypeOK == Init => TypeOK
<1> SUFFICES ASSUME Init PROVE TypeOK
  OBVIOUS
<1>1. FlagsOK
  <2>1. old_password_ok \in BOOLEAN
    <3>1. old_password_ok = (account = None)
      BY DEF Init
    <3> QED BY <3>1
  <2> QED BY <2>1 DEF Init, FlagsOK
<1>2. ValuesOK
  <2>1. 0 \in 0 .. MaxSpawns
    BY ConstantsAssumption
  <2> QED BY <2>1, CallTypes DEF Init, ValuesOK, States, Fragments, Phases
<1>3. BackendReleased
  BY DEF Init, BackendReleased
<1> QED BY <1>1, <1>2, <1>3 DEF TypeOK

\* A step that leaves the handler, the buffer, passwd and what is awaited alone; the
\* account and the caller's own flag may change.
LEMMA FrameTypeOK ==
  ASSUME TypeOK, called' = NoCall, account' \in Answers, old_password_ok' \in BOOLEAN,
         UNCHANGED <<handlerVars, str, processVars, pending, spawns>>
  PROVE  TypeOK'
<1> USE DEF TypeOK, handlerVars, processVars
<1>1. FlagsOK'
  BY DEF FlagsOK
<1>2. ValuesOK'
  BY CallTypes DEF ValuesOK, Answers
<1>3. BackendReleased'
  BY DEF BackendReleased
<1> QED BY <1>1, <1>2, <1>3

\* passwd_authenticate, whether it starts passwd or fails to.
LEMMA PasswdAuthenticateTypeOK ==
  ASSUME TypeOK, NEW password \in Passwords, PasswdAuthenticate(password),
         old_password_ok' \in BOOLEAN
  PROVE  TypeOK'
<1> USE DEF TypeOK
<1>1. /\ current_password' = password /\ called' = NoCall
      /\ UNCHANGED <<str, account, pending>>
  BY DEF PasswdAuthenticate
<1>2. /\ changing_password' \in BOOLEAN /\ auth_cb' \in BOOLEAN
      /\ chpasswd_cb' \in BOOLEAN
  BY DEF PasswdAuthenticate, FlagsOK
<1>3. CASE SpawnPasswd /\ stdin_queue' = <<password>> /\ stdin_pipe' = <<>>
  <2>1. FlagsOK' /\ BackendReleased'
    BY <1>2, <1>3, SpawnValues DEF FlagsOK, BackendReleased
  <2>2. ValuesOK'
    BY <1>1, <1>3, SpawnValues, CallTypes DEF ValuesOK, Answers
  <2> QED BY <2>1, <2>2
<1>4. CASE StopPasswd /\ stdin_queue' = <<>> /\ UNCHANGED spawns
  <2>1. FlagsOK' /\ BackendReleased'
    BY <1>2, <1>4, StopValues DEF FlagsOK
  <2>2. ValuesOK'
    BY <1>1, <1>4, StopValues, CallTypes DEF ValuesOK, Answers
  <2> QED BY <2>1, <2>2
<1> QED BY <1>3, <1>4 DEF PasswdAuthenticate

\* passwd_change_password, in a new session or in the one that runs.
LEMMA PasswdChangePasswordTypeOK ==
  ASSUME TypeOK, NEW new \in Passwords, PasswdChangePassword(new),
         old_password_ok' \in BOOLEAN
  PROVE  TypeOK'
<1> USE DEF TypeOK
<1>1. /\ pending' = new /\ called' = NoCall
      /\ UNCHANGED <<current_password, str, account>>
  BY DEF PasswdChangePassword
<1>2. /\ changing_password' \in BOOLEAN /\ auth_cb' \in BOOLEAN
      /\ chpasswd_cb' \in BOOLEAN
  BY DEF PasswdChangePassword, FlagsOK
<1>3. CASE ChangeFromRestart(new)
  <2> DEFINE queue == stdin_queue \o <<current_password, new, new>>
  <2>1. queue \in Seq(Answers) /\ queue # <<>>
    BY DEF ValuesOK, Answers
  <2>2. Tail(queue) \in Seq(Answers) /\ <<Head(queue)>> \in Seq(Answers)
    BY <2>1
  <2>3. CASE StopPasswd /\ UNCHANGED <<stdin_queue, spawns>>
    <3>1. FlagsOK' /\ BackendReleased'
      BY <1>2, <2>3, StopValues DEF FlagsOK
    <3>2. ValuesOK'
      BY <1>1, <2>3, StopValues, CallTypes DEF ValuesOK, Answers
    <3> QED BY <3>1, <3>2 DEF TypeOK
  <2>4. CASE /\ SpawnPasswd
             /\ IF current_password # None
                THEN stdin_queue' = Tail(queue) /\ stdin_pipe' = <<Head(queue)>>
                ELSE stdin_queue' = queue /\ stdin_pipe' = <<>>
    <3>1. stdin_queue' \in Seq(Answers) /\ stdin_pipe' \in Seq(Answers)
      <4> HIDE DEF queue
      <4>1. CASE current_password # None
        BY <2>2, <2>4, <4>1
      <4>2. CASE current_password = None
        <5>1. stdin_queue' = queue /\ stdin_pipe' = <<>>
          BY <2>4, <4>2
        <5> QED BY <2>1, <5>1
      <4> QED BY <4>1, <4>2
    <3>2. FlagsOK' /\ BackendReleased'
      BY <1>2, <2>4, SpawnValues DEF FlagsOK, BackendReleased
    <3>3. ValuesOK'
      BY <1>1, <2>4, <3>1, SpawnValues, CallTypes DEF ValuesOK, Answers
    <3> QED BY <3>2, <3>3 DEF TypeOK
  <2> QED BY <1>3, <2>3, <2>4 DEF ChangeFromRestart
<1>4. CASE running /\ ChangeInSession(new)
  <2> DEFINE queue == stdin_queue \o <<new, new>>
  <2>1. queue \in Seq(Answers) /\ queue # <<>>
    BY DEF ValuesOK, Answers
  <2>2. Tail(queue) \in Seq(Answers) /\ Head(queue) \in Answers
    BY <2>1
  <2>3. stdin_queue' \in Seq(Answers) /\ stdin_pipe' \in Seq(Answers)
    <3>1. stdin_pipe \in Seq(Answers)
      BY DEF ValuesOK, Answers
    <3>2. IF current_password # None
          THEN stdin_queue' = Tail(queue) /\ stdin_pipe' = Append(stdin_pipe, Head(queue))
          ELSE stdin_queue' = queue /\ stdin_pipe' = stdin_pipe
      BY <1>4 DEF ChangeInSession
    <3> HIDE DEF queue
    <3>3. CASE current_password # None
      <4>1. Append(stdin_pipe, Head(queue)) \in Seq(Answers)
        BY <2>2, <3>1
      <4> QED BY <2>2, <3>2, <3>3, <4>1
    <3>4. CASE current_password = None
      BY <2>1, <3>1, <3>2, <3>4
    <3> QED BY <3>3, <3>4
  <2>4. UNCHANGED <<backend_state, phase, verified, typed, stdout_pipe, spawns>>
    BY <1>4 DEF ChangeInSession
  <2>5. FlagsOK' /\ BackendReleased'
    BY <1>2, <1>4 DEF FlagsOK, BackendReleased, ChangeInSession
  <2>6. ValuesOK'
    BY <1>1, <2>3, <2>4, CallTypes DEF ValuesOK, Answers
  <2> QED BY <2>5, <2>6 DEF TypeOK
<1> QED BY <1>3, <1>4 DEF PasswdChangePassword, NeedsRestart

\* passwd_destroy followed by passwd_init.
LEMMA PasswdDestroyInitTypeOK ==
  ASSUME TypeOK, PasswdDestroyInit, old_password_ok' \in BOOLEAN
  PROVE  TypeOK'
<1> USE DEF TypeOK
<1>1. StopPasswd
  BY DEF PasswdDestroyInit
<1>2. FlagsOK' /\ BackendReleased'
  BY <1>1, StopValues DEF FlagsOK, PasswdDestroyInit
<1>3. ValuesOK'
  BY <1>1, StopValues, CallTypes DEF ValuesOK, Answers, PasswdDestroyInit
<1> QED BY <1>2, <1>3

-----------------------------------------------------------------------------
\* A callback leaves the caller with well-typed variables.
LEMMA CallType ==
  ASSUME ValuesOK, NEW call \in Calls, Call(call)
  PROVE  called' \in Calls /\ pending' \in Answers
BY DEF ValuesOK, Call, Answers

\* The caller's callback leaves its flag a truth value.
LEMMA CallbackType ==
  ASSUME FlagsOK, Callback
  PROVE  old_password_ok' \in BOOLEAN
<1>1. CASE called'.cb = "auth"
  <2>1. old_password_ok' = (called'.error = "none")
    BY <1>1 DEF Callback
  <2> QED BY <2>1
<1>2. CASE called'.cb = "chpasswd"
  <2>1. old_password_ok' = (old_password_ok /\ called'.error = "REJECTED")
    BY <1>2 DEF Callback
  <2> QED BY <2>1
<1>3. CASE called'.cb \notin {"auth", "chpasswd"}
  <2>1. old_password_ok' = old_password_ok
    BY <1>3 DEF Callback
  <2> QED BY <2>1 DEF FlagsOK
<1> QED BY <1>1, <1>2, <1>3

\* The five branches of io_watch_stdout assign what the switch may assign.
Branches(text) ==
  \/ ReadInNone(text) \/ ReadInAuth(text) \/ ReadInNew(text)
  \/ ReadInRetype(text) \/ ReadInDefault

\* The branches of io_watch_stdout, for the flag changing_password.
LEMMA BranchFlag ==
  ASSUME FlagsOK, NEW text, Branches(text)
  PROVE  changing_password' \in BOOLEAN
BY DEF FlagsOK, Branches, ReadInNone, ReadInAuth, ReadInNew, ReadInRetype, ReadInDefault

\* The branches of io_watch_stdout, for the variables that are no flags.
LEMMA BranchValues ==
  ASSUME ValuesOK, NEW text \in Fragments, Branches(text)
  PROVE  /\ str' \in Fragments
         /\ backend_state' \in States
         /\ stdin_queue' \in Seq(Answers)
         /\ stdin_pipe' \in Seq(Answers)
         /\ called' \in Calls
         /\ pending' \in Answers
<1> USE DEF States
<1>1. {} \in Fragments
  BY DEF Fragments
<1>2. /\ stdin_queue \in Seq(Answers) /\ stdin_pipe \in Seq(Answers)
      /\ Popped(stdin_queue) \in Seq(Answers)
      /\ IoQueuePop(stdin_queue, stdin_pipe) \in Seq(Answers)
      /\ Popped(Popped(stdin_queue)) \in Seq(Answers)
      /\ IoQueuePop(Popped(stdin_queue), stdin_pipe) \in Seq(Answers)
  BY PopType DEF ValuesOK, Answers
<1>3. CASE ReadInNone(text)
  BY <1>1, <1>2, <1>3, CallTypes, CallType DEF ReadInNone, PopToBackend, ValuesOK
<1>4. CASE ReadInAuth(text)
  <2>1. \E call \in Calls : Call(call)
    BY <1>4, CallTypes DEF ReadInAuth
  <2> QED BY <1>1, <1>2, <1>4, <2>1, CallType DEF ReadInAuth, ValuesOK
<1>5. CASE ReadInNew(text)
  BY <1>1, <1>2, <1>5, CallTypes, CallType DEF ReadInNew, PopToBackend, ValuesOK
<1>6. CASE ReadInRetype(text)
  <2>1. \E call \in Calls : Call(call)
    BY <1>6, CallTypes DEF ReadInRetype, RetypeError
  <2> QED BY <1>1, <1>2, <1>6, <2>1, CallType
          DEF ReadInRetype, StateAfterRefusal, ValuesOK
<1>7. CASE ReadInDefault
  BY <1>1, <1>2, <1>7, CallTypes, CallType DEF ReadInDefault, ValuesOK
<1> QED BY <1>3, <1>4, <1>5, <1>6, <1>7 DEF Branches

\* io_watch_stdout as a whole.
LEMMA IoWatchStdoutTypeOK ==
  ASSUME TypeOK, IoWatchStdout, old_password_ok' \in BOOLEAN
  PROVE  TypeOK'
<1> USE DEF TypeOK
<1>1. PICK n \in 1 .. Len(stdout_pipe) :
        /\ stdout_pipe' = SubSeq(stdout_pipe, n + 1, Len(stdout_pipe))
        /\ Branches(str \cup UNION {stdout_pipe[i] : i \in 1 .. n})
  BY DEF IoWatchStdout, Branches
<1> DEFINE text == str \cup UNION {stdout_pipe[i] : i \in 1 .. n}
<1>2. text \in Fragments
  BY TextType DEF ValuesOK
<1>3. Branches(text)
  BY <1>1
<1> HIDE DEF text
<1>4. stdout_pipe' \in Seq(Fragments)
  BY <1>1 DEF ValuesOK
<1>5. /\ UNCHANGED <<current_password, phase, verified, typed, account, spawns>>
      /\ running' /\ UNCHANGED <<auth_cb, chpasswd_cb>>
  BY DEF IoWatchStdout
<1>6. FlagsOK' /\ BackendReleased'
  BY <1>3, <1>5, BranchFlag DEF FlagsOK, BackendReleased, IoWatchStdout
<1>7. ValuesOK'
  <2> HIDE <1>1
  <2> QED BY <1>2, <1>3, <1>4, <1>5, BranchValues DEF ValuesOK, Answers
<1> QED BY <1>6, <1>7

\* child_watch_cb, which releases the backend.
LEMMA ChildWatchTypeOK ==
  ASSUME TypeOK, ChildWatch, old_password_ok' \in BOOLEAN
  PROVE  TypeOK'
<1> USE DEF TypeOK
<1>1. StopPasswd
  BY DEF ChildWatch, StopPasswd
<1>2. called' \in Calls /\ pending' \in Answers
  <2>1. \E call \in Calls : Call(call)
    BY CallTypes DEF ChildWatch
  <2> QED BY <2>1, CallType
<1>3. FlagsOK' /\ BackendReleased'
  BY <1>1, StopValues DEF FlagsOK, ChildWatch
<1>4. ValuesOK'
  BY <1>1, <1>2, StopValues DEF ValuesOK, Answers, ChildWatch
<1> QED BY <1>3, <1>4

-----------------------------------------------------------------------------
\* Whatever passwd says, what it leaves in the output pipe are fragments.
LEMMA SaysType ==
  ASSUME ValuesOK, NEW message \in Seq(Fragments), Says(message)
  PROVE  stdout_pipe' \in Seq(Fragments)
BY DEF ValuesOK, Says

\* A step of passwd, for its own variables and the two pipes.
LEMMA ProcessValues ==
  ASSUME ValuesOK, PasswdProcess
  PROVE  /\ phase' \in Phases /\ phase # "absent"
         /\ verified' \in Answers /\ typed' \in Answers
         /\ account' \in Answers
         /\ stdin_pipe' \in Seq(Answers) /\ stdout_pipe' \in Seq(Fragments)
<1> USE DEF Phases
<1>1. /\ verified \in Answers /\ typed \in Answers /\ account \in Answers
      /\ stdin_pipe \in Seq(Answers) /\ stdout_pipe \in Seq(Fragments)
  BY DEF ValuesOK, Answers
<1>2. ASSUME PasswdReads
      PROVE  stdin_pipe' \in Seq(Answers) /\ Head(stdin_pipe) \in Answers
  BY <1>1, <1>2 DEF PasswdReads
<1>3. ASSUME PasswdRefuses
      PROVE  phase' \in Phases /\ stdout_pipe' \in Seq(Fragments)
  <2>1. Refusal \o AuthFailure \in Seq(Fragments) /\ Refusal \o NewPrompt \in Seq(Fragments)
    BY MessageTypes
  <2> QED BY <1>3, <2>1, SaysType DEF PasswdRefuses
<1>4. CASE PasswdStarts
  BY <1>1, <1>4, MessageTypes, SaysType DEF PasswdStarts
<1>5. CASE PasswdReadsCurrent
  BY <1>1, <1>2, <1>5, MessageTypes, SaysType DEF PasswdReadsCurrent
<1>6. CASE PasswdReadsNew
  BY <1>1, <1>2, <1>3, <1>6, MessageTypes, SaysType DEF PasswdReadsNew
<1>7. CASE PasswdReadsRetype
  BY <1>1, <1>2, <1>3, <1>7, MessageTypes, SaysType DEF PasswdReadsRetype
<1>8. CASE PasswdReports
  BY <1>1, <1>8, MessageTypes, SaysType DEF PasswdReports
<1>9. CASE PasswdExits
  BY <1>1, <1>9 DEF PasswdExits
<1> QED BY <1>4, <1>5, <1>6, <1>7, <1>8, <1>9 DEF PasswdProcess

\* What passwd does keeps the handler well typed.
LEMMA PasswdProcessTypeOK ==
  ASSUME TypeOK, PasswdProcess, old_password_ok' \in BOOLEAN
  PROVE  TypeOK'
<1> USE DEF TypeOK
<1>1. /\ UNCHANGED <<current_password, running, stdin_queue, backend_state, str,
                     pending, spawns>>
      /\ UNCHANGED <<changing_password, auth_cb, chpasswd_cb>>
      /\ called' = NoCall
  BY DEF PasswdProcess, notProcess, handlerVars
<1>2. running
  BY ProcessValues DEF BackendReleased
<1>3. FlagsOK' /\ BackendReleased'
  BY <1>1, <1>2 DEF FlagsOK, BackendReleased
<1>4. ValuesOK'
  BY <1>1, ProcessValues, CallTypes DEF ValuesOK, Answers
<1> QED BY <1>3, <1>4

\* A step that changes nothing.
LEMMA StutterTypeOK == TypeOK /\ UNCHANGED vars => TypeOK'
<1> SUFFICES ASSUME FlagsOK, ValuesOK, BackendReleased, UNCHANGED vars PROVE TypeOK'
  BY DEF TypeOK
<1> USE DEF vars, handlerVars, processVars
<1>1. FlagsOK' /\ BackendReleased'
  BY DEF FlagsOK, BackendReleased
<1>2. ValuesOK'
  BY DEF ValuesOK
<1> QED BY <1>1, <1>2 DEF TypeOK

\* Every step keeps the handler well typed.
LEMMA TypeOKStep == TypeOK /\ [Next]_vars => TypeOK'
<1> SUFFICES ASSUME TypeOK, [Next]_vars PROVE TypeOK'
  OBVIOUS
<1>1. old_password_ok \in BOOLEAN /\ account \in Answers
  BY DEF TypeOK, FlagsOK, ValuesOK, Answers
<1>2. CASE Authenticate
  <2>1. old_password_ok' \in BOOLEAN
    BY <1>1, <1>2 DEF Authenticate
  <2>2. CASE AuthenticateIgnored
    BY <1>1, <2>1, <2>2, FrameTypeOK DEF AuthenticateIgnored
  <2>3. CASE \E password \in Passwords : PasswdAuthenticate(password)
    BY <2>1, <2>3, PasswdAuthenticateTypeOK
  <2> QED BY <1>2, <2>2, <2>3 DEF Authenticate
<1>3. CASE ChangePassword
  BY <1>1, <1>3, PasswdChangePasswordTypeOK DEF ChangePassword
<1>4. CASE Destroy
  <2>1. old_password_ok' = (account = None)
    BY <1>4 DEF Destroy
  <2>2. old_password_ok' \in BOOLEAN
    BY <2>1
  <2> QED BY <1>4, <2>2, PasswdDestroyInitTypeOK DEF Destroy
<1>5. CASE EditOldPassword
  BY <1>1, <1>5, FrameTypeOK DEF EditOldPassword
<1>6. CASE ReadStdout
  BY <1>6, CallbackType, IoWatchStdoutTypeOK DEF ReadStdout, TypeOK
<1>7. CASE ReapChild
  BY <1>7, CallbackType, ChildWatchTypeOK DEF ReapChild, TypeOK
<1>8. CASE External
  <2>1. CASE PasswdProcess
    BY <1>1, <1>8, <2>1, PasswdProcessTypeOK DEF External
  <2>2. CASE AccountChangedElsewhere
    BY <1>1, <1>8, <2>2, FrameTypeOK DEF External, AccountChangedElsewhere, Answers
  <2> QED BY <1>8, <2>1, <2>2 DEF External
<1>9. CASE UNCHANGED vars
  BY <1>9, StutterTypeOK
<1> QED BY <1>2, <1>3, <1>4, <1>5, <1>6, <1>7, <1>8, <1>9 DEF Next

\* Every reachable state of the handler is well typed, and without a backend
\* nothing of one is left: no dialogue state, no process, no text in a pipe.
THEOREM TypeCorrect == Spec => []TypeOK
BY InitTypeOK, TypeOKStep, PTL DEF Spec

-----------------------------------------------------------------------------
(***************************************************************************)
(* No call but passwd_destroy kills a passwd whose answer is awaited.  The *)
(* reason is an invariant: while a change is awaited the flag that makes   *)
(* passwd_authenticate return early is up.                                 *)
(***************************************************************************)

ChangeIsFlagged == pending # None => changing_password /\ chpasswd_cb

AwaitInv == TypeOK /\ ChangeIsFlagged

\* A branch of io_watch_stdout takes the flag down only when it answers.
LEMMA BranchFlagged ==
  ASSUME ChangeIsFlagged, NEW text, Branches(text)
  PROVE  pending' # None => changing_password' /\ chpasswd_cb
<1> USE DEF ChangeIsFlagged, Call, NoCall, AuthCall, ChangeCall
<1>1. CASE ReadInNone(text)
  BY <1>1 DEF ReadInNone
<1>2. CASE ReadInAuth(text)
  BY <1>2 DEF ReadInAuth
<1>3. CASE ReadInNew(text)
  BY <1>3 DEF ReadInNew
<1>4. CASE ReadInRetype(text)
  BY <1>4 DEF ReadInRetype
<1>5. CASE ReadInDefault
  BY <1>5 DEF ReadInDefault
<1> QED BY <1>1, <1>2, <1>3, <1>4, <1>5 DEF Branches

\* The invariant is inductive.
LEMMA AwaitInvStep == AwaitInv /\ [Next]_vars => ChangeIsFlagged'
<1> SUFFICES ASSUME ChangeIsFlagged, [Next]_vars PROVE ChangeIsFlagged'
  BY DEF AwaitInv
<1> USE DEF ChangeIsFlagged
<1>1. CASE Authenticate
  <2>1. CASE AuthenticateIgnored
    BY <2>1 DEF AuthenticateIgnored, handlerVars
  <2>2. CASE \E password \in Passwords : PasswdAuthenticate(password)
    <3>1. pending = None
      BY <2>2 DEF PasswdAuthenticate, MayAuthenticate
    <3> QED BY <2>2, <3>1 DEF PasswdAuthenticate
  <2> QED BY <1>1, <2>1, <2>2 DEF Authenticate
<1>2. CASE ChangePassword
  BY <1>2 DEF ChangePassword, PasswdChangePassword
<1>3. CASE Destroy
  BY <1>3 DEF Destroy, PasswdDestroyInit
<1>4. CASE EditOldPassword
  BY <1>4 DEF EditOldPassword, handlerVars
<1>5. CASE ReadStdout
  <2>1. PICK text : Branches(text)
    BY <1>5 DEF ReadStdout, IoWatchStdout, Branches
  <2> QED BY <1>5, <2>1, BranchFlagged DEF ReadStdout, IoWatchStdout
<1>6. CASE ReapChild
  BY <1>6 DEF ReapChild, ChildWatch, Call
<1>7. CASE External
  BY <1>7 DEF External, PasswdProcess, notProcess, AccountChangedElsewhere, handlerVars
<1>8. CASE UNCHANGED vars
  BY <1>8 DEF vars, handlerVars
<1> QED BY <1>1, <1>2, <1>3, <1>4, <1>5, <1>6, <1>7, <1>8 DEF Next

\* While a change is awaited, and stays so, the passwd at work on it is neither
\* killed nor replaced by another one, by any call or event.
THEOREM NeverKills == Spec => NeverKillsChange
<1> DEFINE Kept == (pending # None /\ pending' = pending /\ phase \in Alive)
                     => (phase' # "absent" /\ spawns' = spawns)
<1>1. Init => AwaitInv
  <2>1. Init => ChangeIsFlagged
    BY DEF Init, ChangeIsFlagged
  <2> QED BY <2>1, InitTypeOK DEF AwaitInv
<1>2. AwaitInv /\ [Next]_vars => [Kept]_vars
  <2> SUFFICES ASSUME AwaitInv, Next, pending # None, pending' = pending, phase \in Alive
               PROVE  phase' # "absent" /\ spawns' = spawns
    OBVIOUS
  <2>1. phase # "absent" /\ phase \notin {"exited_ok", "exited_err"}
    BY DEF Alive
  <2>2. CASE Authenticate
    BY <2>1, <2>2 DEF Authenticate, AuthenticateIgnored, PasswdAuthenticate, MayAuthenticate,
                AwaitInv, ChangeIsFlagged, processVars
  <2>3. CASE ChangePassword
    BY <2>3 DEF ChangePassword, PasswdChangePassword
  <2>4. CASE Destroy
    BY <2>4 DEF Destroy, PasswdDestroyInit
  <2>5. CASE EditOldPassword
    BY <2>1, <2>5 DEF EditOldPassword, processVars
  <2>6. CASE ReadStdout
    BY <2>1, <2>6 DEF ReadStdout, IoWatchStdout
  <2>7. CASE ReapChild
    BY <2>1, <2>7 DEF ReapChild, ChildWatch
  <2>8. CASE External
    <3>1. CASE PasswdProcess
      BY <2>1, <3>1 DEF PasswdProcess, notProcess, PasswdStarts, PasswdReadsCurrent,
           PasswdReadsNew, PasswdReadsRetype, PasswdReports, PasswdExits, PasswdRefuses
    <3>2. CASE AccountChangedElsewhere
      BY <2>1, <3>2 DEF AccountChangedElsewhere, processVars
    <3> QED BY <2>8, <3>1, <3>2 DEF External
  <2> QED BY <2>2, <2>3, <2>4, <2>5, <2>6, <2>7, <2>8 DEF Next
<1>3. Spec => []AwaitInv
  <2>1. AwaitInv /\ [Next]_vars => AwaitInv'
    BY TypeOKStep, AwaitInvStep DEF AwaitInv
  <2> QED BY <1>1, <2>1, PTL DEF Spec
<1> QED BY <1>2, <1>3, PTL DEF Spec, NeverKillsChange

-----------------------------------------------------------------------------
(***************************************************************************)
(* What the passwd handler tells its caller is true: proofs of the reports *)
(* of RunPasswd, and that the dialogue implements the promise of           *)
(* PasswordChange, safety part.                                            *)
(*                                                                         *)
(* The handler never looks at the account.  That its word can be relied on *)
(* rests on counting: passwd needs a number of answers before it changes   *)
(* the password, the handler writes at most one for each prompt it sees,   *)
(* and nothing it does by mistake (stale text in the static buffer taken   *)
(* for a prompt, an answer dropped, a prompt taken for another) makes it   *)
(* write more.  So when the password has been changed every answer that    *)
(* was due has been written, which the handler does only in the state in   *)
(* which it waits for the verdict, and the last two were the password that *)
(* was asked for.                                                          *)
(***************************************************************************)

(***************************************************************************)
(* The inductive invariant.                                                *)
(***************************************************************************)

Backend == phase # "absent"
InDialogue == Backend /\ backend_state \in {"NONE", "AUTH", "NEW", "RETYPE"}

\* The watches are there only while there is a process to watch.
WatchedOK == running => Backend

\* Is one of the words in what passwd has said?
Has(said, words) == \E i \in 1 .. Len(said) : said[i] \cap words # {}
Refusals == {"reject", "unchanged", "failure"}

\* The answers the handler still writes by itself, and the one that a request adds.
ToWrite ==
  IF backend_state = "NONE" THEN 2
  ELSE IF backend_state \in {"AUTH", "NEW"} THEN 1 ELSE 0
ToAsk == IF pending = None THEN 1 ELSE 0

\* The answers passwd still needs before it changes the password.
Needed ==
  IF phase = "asks_current" \/ (phase = "starting" /\ account # None) THEN 3
  ELSE IF phase \in {"starting", "asks_new"} THEN 2
  ELSE IF phase = "asks_retype" THEN 1 ELSE 0

\* The handler does not write more answers than passwd needs, and one that has
\* refused something will be short of answers.
AnswersFit ==
  (InDialogue /\ phase # "exited_err") =>
    /\ Len(stdin_pipe) + ToWrite + ToAsk <= Needed
    /\ Has(stdout_pipe, Refusals) => Len(stdin_pipe) + ToWrite + ToAsk < Needed

\* After a verdict: a refused passwd will not change the password any more.
Concluded ==
  /\ backend_state = "ERR" =>
       /\ pending = None /\ stdin_queue = <<>>
       /\ phase # "exited_err" => Len(stdin_pipe) < Needed
  /\ backend_state = "DONE" => pending = None /\ phase \in Committed

\* Text is kept in the buffer only while none of the words of the state is in it.
BufferOK ==
  /\ backend_state = "AUTH" => str \cap AuthKeywords = {}
  /\ backend_state = "NEW" => "assword" \notin str
  /\ backend_state = "RETYPE" => str \cap RetypeKeywords = {}
  /\ "incorrect" \notin str

\* passwd tells of success when it has changed the password, and gives up after
\* the messages that say so.
OutputOK ==
  \A i \in 1 .. Len(stdout_pipe) :
    /\ "incorrect" \notin stdout_pipe[i]
    /\ "success" \in stdout_pipe[i] => phase \in {"reported", "exited_ok"}
    /\ stdout_pipe[i] \cap {"error", "failure"} # {} =>
         /\ phase = "exited_err"
         /\ \A j \in i + 1 .. Len(stdout_pipe) : stdout_pipe[j] = {"unchanged"}

\* The queue while a change is awaited: the rest of its answers.
QueueOK ==
  (Backend /\ pending # None) =>
    /\ backend_state = "NONE" /\ current_password = None =>
         stdin_queue = <<None, pending, pending>> /\ stdin_pipe = <<>>
    /\ backend_state = "NONE" /\ current_password # None =>
         stdin_queue = <<pending, pending>>
    /\ backend_state = "AUTH" => stdin_queue = <<pending>>
    /\ backend_state = "NEW" => stdin_queue = <<pending>> \/ stdin_queue = <<>>
    /\ backend_state = "RETYPE" => stdin_queue = <<>>

\* The answers written and not read: after the first they are the new password.
PipeOK ==
  (Backend /\ pending # None /\ phase # "exited_err") =>
    /\ \A i \in 2 .. Len(stdin_pipe) : stdin_pipe[i] = pending
    /\ (phase = "asks_retype" /\ stdin_pipe # <<>>) => stdin_pipe[1] = pending
    /\ phase \in Committed => typed = pending

\* A dialogue without a request is one that passwd_authenticate started, or one in
\* which the current password was refused.
AuthSessionOK ==
  (InDialogue /\ pending = None) =>
    /\ backend_state # "RETYPE" /\ current_password # None
    /\ backend_state = "NONE" =>
         /\ stdin_pipe = <<>> /\ stdin_queue = <<current_password>>
         /\ \/ phase = "starting" /\ stdout_pipe = <<>>
            \/ phase = "asks_current" /\ stdout_pipe = Prompt
    /\ backend_state = "AUTH" =>
         \/ /\ phase = "asks_current" /\ stdout_pipe = <<>>
            /\ stdin_pipe = <<current_password>> /\ stdin_queue = <<>>
         \/ /\ phase = "asks_new" /\ stdin_pipe = <<>> /\ stdin_queue = <<>>
            /\ stdout_pipe = NewPrompt \/ stdout_pipe = Tail(NewPrompt)
         \/ phase = "exited_err" /\ ~Has(stdout_pipe, {"assword"})
    /\ backend_state = "NEW" =>
         /\ phase \in {"asks_current", "asks_new"}
         /\ stdin_queue = <<>> /\ stdin_pipe = <<>> /\ stdout_pipe = <<>>

\* A change without a current password: the account has none either, so that the
\* first prompt is never taken for the one of the current password.
NoCurrentOK ==
  (Backend /\ current_password = None) =>
    /\ backend_state # "AUTH"
    /\ backend_state = "NONE" =>
         /\ account = None
         /\ \/ phase = "starting" /\ stdout_pipe = <<>>
            \/ /\ phase = "asks_new"
               /\ \/ "new" \in str
                  \/ stdout_pipe # <<>> /\ "new" \in stdout_pipe[1]

\* A change with a current password: it is the first answer,
FirstAnswerDue ==
  (Backend /\ current_password # None /\ backend_state = "NONE" /\ pending # None) =>
    \/ phase = "starting" /\ stdout_pipe = <<>> /\ stdin_pipe = <<current_password>>
    \/ phase = "asks_current" /\ stdout_pipe = Prompt /\ stdin_pipe = <<current_password>>
    \/ /\ stdin_pipe = <<>> /\ stdout_pipe # <<>> /\ stdout_pipe[1] = {"assword"}
       /\ \/ phase = "asks_new" /\ verified = current_password
          \/ /\ phase = "exited_err"
             /\ \A i \in 2 .. Len(stdout_pipe) : "assword" \notin stdout_pipe[i]

\* and when the handler waits for what passwd thinks of it, a new prompt means
\* that it was accepted.
FirstAnswerJudged ==
  (Backend /\ backend_state = "AUTH") =>
    \/ /\ phase = "asks_current" /\ ~Has(stdout_pipe, {"assword"})
       /\ stdin_pipe # <<>> /\ stdin_pipe[1] = current_password
    \/ phase \notin {"starting", "asks_current"} /\ verified = current_password
    \/ phase = "exited_err" /\ ~Has(stdout_pipe, {"assword"})

\* The caller, his flag and the flags of the handler.
CallerOK ==
  /\ current_password # None => account # None
  /\ auth_cb => current_password # None
  /\ backend_state = "DONE" => ~old_password_ok
  /\ (old_password_ok /\ current_password = None /\ phase \notin Committed) => account = None
  /\ (old_password_ok /\ pending = None) =>
       \/ stdin_queue = <<>>
       \/ Backend /\ backend_state = "NONE" /\ stdin_queue = <<current_password>>
  /\ (InDialogue /\ pending = None /\ chpasswd_cb) =>
       /\ backend_state = "AUTH" =>
            ~old_password_ok /\ phase = "exited_err" /\ ~Has(stdout_pipe, AuthKeywords)
       /\ backend_state # "NONE"

DialogueInv ==
  /\ WatchedOK /\ AnswersFit /\ Concluded /\ BufferOK /\ OutputOK
  /\ QueueOK /\ PipeOK /\ AuthSessionOK /\ NoCurrentOK
  /\ FirstAnswerDue /\ FirstAnswerJudged /\ CallerOK

ReportInv == TypeOK /\ ChangeIsFlagged /\ DialogueInv
-----------------------------------------------------------------------------
(***************************************************************************)
(* Sequences.                                                              *)
(***************************************************************************)

\* What is left of a pipe when its first n messages have been read.
LEMMA ReadFacts ==
  ASSUME NEW S, NEW q \in Seq(S), NEW n \in 1 .. Len(q)
  PROVE  LET rest == SubSeq(q, n + 1, Len(q)) IN
         /\ rest \in Seq(S)
         /\ Len(rest) = Len(q) - n
         /\ \A i \in 1 .. Len(rest) : i + n \in 1 .. Len(q) /\ rest[i] = q[i + n]
OBVIOUS

\* What is left of a pipe when one answer has been taken from it.
LEMMA TakeFacts ==
  ASSUME NEW S, NEW q \in Seq(S), q # <<>>
  PROVE  /\ Head(q) = q[1] /\ Head(q) \in S
         /\ Tail(q) \in Seq(S)
         /\ Len(Tail(q)) = Len(q) - 1 /\ Len(q) \in Nat /\ Len(q) >= 1
         /\ \A i \in 1 .. Len(q) - 1 : Tail(q)[i] = q[i + 1]
<1>1. Len(q) \in Nat /\ Len(q) >= 1
  OBVIOUS
<1>2. Head(q) = q[1] /\ Head(q) \in S /\ Tail(q) \in Seq(S) /\ Len(Tail(q)) = Len(q) - 1
  OBVIOUS
<1> QED BY <1>1, <1>2

\* A pipe with a message added.
LEMMA SayFacts ==
  ASSUME NEW S, NEW q \in Seq(S), NEW m \in Seq(S)
  PROVE  LET all == q \o m IN
         /\ all \in Seq(S)
         /\ Len(all) = Len(q) + Len(m)
         /\ \A i \in 1 .. Len(q) : all[i] = q[i]
         /\ \A i \in Len(q) + 1 .. Len(all) : i - Len(q) \in 1 .. Len(m) /\ all[i] = m[i - Len(q)]
         /\ q = <<>> => all = m
OBVIOUS

\* A pipe with an answer added.
LEMMA WriteFacts ==
  ASSUME NEW S, NEW q \in Seq(S), NEW e \in S
  PROVE  /\ Append(q, e) \in Seq(S)
         /\ Len(Append(q, e)) = Len(q) + 1 /\ Len(q) \in Nat
         /\ \A i \in 1 .. Len(q) : Append(q, e)[i] = q[i]
         /\ Append(q, e)[Len(q) + 1] = e
         /\ Append(q, e) # <<>>
OBVIOUS

\* Short sequences, whatever is in them.
LEMMA ShortSequences ==
  ASSUME NEW a, NEW b, NEW c
  PROVE  /\ Tail(<<a>>) = <<>> /\ Tail(<<a, b>>) = <<b>> /\ Tail(<<a, b, c>>) = <<b, c>>
         /\ <<>> \o <<a, b, c>> = <<a, b, c>>
         /\ <<>> \o <<a, b>> = <<a, b>>
         /\ Append(<<>>, a) = <<a>>
         /\ <<a>> # <<>> /\ <<a, b>> # <<>> /\ <<a, b, c>> # <<>>
<1>1. Tail(<<a>>) = <<>>
  OBVIOUS
<1>2. Tail(<<a, b>>) = <<b>>
  OBVIOUS
<1>3. Tail(<<a, b, c>>) = <<b, c>>
  OBVIOUS
<1>4. Append(<<>>, a) = <<a>>
  OBVIOUS
<1>5. <<>> \o <<a, b, c>> = <<a, b, c>>
  OBVIOUS
<1>6. <<>> \o <<a, b>> = <<a, b>>
  OBVIOUS
<1>7. <<a>> # <<>> /\ <<a, b>> # <<>> /\ <<a, b, c>> # <<>>
  OBVIOUS
<1> QED BY <1>1, <1>2, <1>3, <1>4, <1>5, <1>6, <1>7

\* The rest of an answer and a message of two.
LEMMA TailOfThree ==
  ASSUME NEW a, NEW b, NEW c
  PROVE  Tail(<<a>> \o <<b, c>>) = <<b, c>>
<1> DEFINE q == <<a>> \o <<b, c>>
<1>1. q \in Seq({a, b, c}) /\ q # <<>> /\ Len(q) = 3 /\ q[2] = b /\ q[3] = c
  <2>1. <<a>> \in Seq({a, b, c}) /\ <<b, c>> \in Seq({a, b, c})
    OBVIOUS
  <2>2. q \in Seq({a, b, c})
    BY <2>1
  <2>3. Len(q) = 3 /\ q[2] = b /\ q[3] = c
    OBVIOUS
  <2> QED BY <2>2, <2>3
<1> HIDE DEF q
<1>2. Tail(q) \in Seq({a, b, c}) /\ Len(Tail(q)) = Len(q) - 1
  BY <1>1, TakeFacts
<1>3. Len(Tail(q)) = 2
  BY <1>1, <1>2
<1>4. \A i \in 1 .. 2 : Tail(q)[i] = q[i + 1]
  BY <1>1, TakeFacts
<1>5. <<b, c>> \in Seq({a, b, c}) /\ Len(<<b, c>>) = 2 /\ <<b, c>>[1] = b /\ <<b, c>>[2] = c
  OBVIOUS
<1>6. \A i \in 1 .. 2 : Tail(q)[i] = <<b, c>>[i]
  BY <1>1, <1>4, <1>5
<1>7. Tail(q) = <<b, c>>
  BY <1>2, <1>3, <1>5, <1>6, SeqEqual
<1> QED BY <1>7 DEF q

\* The messages of passwd, fragment by fragment.
LEMMA MessageFacts ==
  /\ Len(Prompt) = 1 /\ Prompt[1] = {"assword"}
  /\ Len(NewPrompt) = 2 /\ NewPrompt[1] = {"new"} /\ NewPrompt[2] = {"assword"}
  /\ Tail(NewPrompt) = Prompt
  /\ Len(AuthFailure) = 2 /\ AuthFailure[1] = {"error"} /\ AuthFailure[2] = {"unchanged"}
  /\ LET m == Refusal \o AuthFailure IN
     /\ m \in Seq(Fragments) /\ Len(m) = 3
     /\ m[1] = {"reject"} /\ m[2] = {"error"} /\ m[3] = {"unchanged"}
  /\ LET m == Refusal \o NewPrompt IN
     /\ m \in Seq(Fragments) /\ Len(m) = 3
     /\ m[1] = {"reject"} /\ m[2] = {"new"} /\ m[3] = {"assword"}
  /\ Len(NotRecognised) = 1 /\ NotRecognised[1] = {"failure"}
  /\ Len(Updated) = 1 /\ Updated[1] = {"success"}
<1>1. Tail(NewPrompt) = Prompt
  BY ShortSequences DEF NewPrompt, Prompt
<1>2. ASSUME NEW a, NEW b, NEW c
      PROVE  LET m == <<a>> \o <<b, c>> IN Len(m) = 3 /\ m[1] = a /\ m[2] = b /\ m[3] = c
  OBVIOUS
<1>3. Refusal \o AuthFailure \in Seq(Fragments) /\ Refusal \o NewPrompt \in Seq(Fragments)
  BY MessageTypes
<1>4. /\ Len(Prompt) = 1 /\ Prompt[1] = {"assword"}
      /\ Len(NotRecognised) = 1 /\ NotRecognised[1] = {"failure"}
      /\ Len(Updated) = 1 /\ Updated[1] = {"success"}
  BY DEF Prompt, NotRecognised, Updated
<1>5. /\ Len(NewPrompt) = 2 /\ NewPrompt[1] = {"new"} /\ NewPrompt[2] = {"assword"}
      /\ Len(AuthFailure) = 2 /\ AuthFailure[1] = {"error"} /\ AuthFailure[2] = {"unchanged"}
  BY DEF NewPrompt, AuthFailure
<1>6. LET m == Refusal \o AuthFailure IN
      Len(m) = 3 /\ m[1] = {"reject"} /\ m[2] = {"error"} /\ m[3] = {"unchanged"}
  BY <1>2 DEF Refusal, AuthFailure
<1>7. LET m == Refusal \o NewPrompt IN
      Len(m) = 3 /\ m[1] = {"reject"} /\ m[2] = {"new"} /\ m[3] = {"assword"}
  BY <1>2 DEF Refusal, NewPrompt
<1> QED BY <1>1, <1>3, <1>4, <1>5, <1>6, <1>7

-----------------------------------------------------------------------------
(***************************************************************************)
(* The steps of passwd keep the invariant.                                 *)
(***************************************************************************)

\* What a step of passwd leaves alone.
HandlerWaits ==
  /\ UNCHANGED <<current_password, stdin_queue, backend_state, str, pending>>
  /\ UNCHANGED <<running, old_password_ok, auth_cb, chpasswd_cb>>

\* The pipes of a well-typed state.
LEMMA PipeTypes ==
  ASSUME TypeOK
  PROVE  /\ stdin_queue \in Seq(Answers) /\ stdin_pipe \in Seq(Answers)
         /\ stdout_pipe \in Seq(Fragments)
         /\ Len(stdin_queue) \in Nat /\ Len(stdin_pipe) \in Nat /\ Len(stdout_pipe) \in Nat
         /\ backend_state \in States /\ phase \in Phases
BY DEF TypeOK, ValuesOK, Answers

\* passwd says something: what was in the pipe stays in front of it.
LEMMA SaysFacts ==
  ASSUME TypeOK, NEW m \in Seq(Fragments), Says(m)
  PROVE  /\ stdout_pipe' \in Seq(Fragments)
         /\ Len(stdout_pipe) \in Nat /\ Len(m) \in Nat
         /\ Len(stdout_pipe') = Len(stdout_pipe) + Len(m)
         /\ \A i \in 1 .. Len(stdout_pipe) : stdout_pipe'[i] = stdout_pipe[i]
         /\ \A i \in 1 .. Len(stdout_pipe') : i \notin 1 .. Len(stdout_pipe) =>
              i - Len(stdout_pipe) \in 1 .. Len(m) /\ stdout_pipe'[i] = m[i - Len(stdout_pipe)]
         /\ stdout_pipe = <<>> => stdout_pipe' = m
         /\ \A words : Has(stdout_pipe', words) => Has(stdout_pipe, words) \/ Has(m, words)
<1>1. /\ stdout_pipe' \in Seq(Fragments)
      /\ Len(stdout_pipe) \in Nat /\ Len(m) \in Nat
      /\ Len(stdout_pipe') = Len(stdout_pipe) + Len(m)
      /\ \A i \in 1 .. Len(stdout_pipe) : stdout_pipe'[i] = stdout_pipe[i]
      /\ \A i \in 1 .. Len(stdout_pipe') : i \notin 1 .. Len(stdout_pipe) =>
           i - Len(stdout_pipe) \in 1 .. Len(m) /\ stdout_pipe'[i] = m[i - Len(stdout_pipe)]
      /\ stdout_pipe = <<>> => stdout_pipe' = m
  BY PipeTypes, SayFacts DEF Says
<1>2. ASSUME NEW words, NEW i \in 1 .. Len(stdout_pipe'), stdout_pipe'[i] \cap words # {}
      PROVE  Has(stdout_pipe, words) \/ Has(m, words)
  BY <1>1, <1>2 DEF Has
<1> QED BY <1>1, <1>2 DEF Has

\* The words of a prompt.
LEMMA PromptWords ==
  ASSUME NEW m \in {Prompt, NewPrompt}
  PROVE  /\ m \in Seq(Fragments)
         /\ \A i \in 1 .. Len(m) : m[i] \in {{"assword"}, {"new"}}
         /\ ~Has(m, Refusals)
<1>1. \A i \in 1 .. Len(m) : m[i] \in {{"assword"}, {"new"}}
  BY MessageFacts
<1>2. m \in Seq(Fragments)
  BY MessageTypes
<1>3. ~Has(m, Refusals)
  BY <1>1 DEF Has, Refusals
<1> QED BY <1>1, <1>2, <1>3

\* passwd prints its first prompt.
LEMMA PasswdStartsInv ==
  ASSUME ReportInv, PasswdStarts, HandlerWaits
  PROVE  DialogueInv'
<1> USE DEF ReportInv, DialogueInv
<1>1. /\ phase = "starting" /\ Backend /\ Backend'
      /\ UNCHANGED <<verified, typed, stdin_pipe, account>>
      /\ UNCHANGED <<current_password, stdin_queue, backend_state, str, pending>>
  BY DEF PasswdStarts, HandlerWaits, Backend
<1>2. \/ account # None /\ phase' = "asks_current" /\ Says(Prompt)
      \/ account = None /\ phase' = "asks_new" /\ Says(NewPrompt)
  BY DEF PasswdStarts
<1>m. PICK m \in {Prompt, NewPrompt} :
        /\ Says(m)
        /\ \/ account # None /\ phase' = "asks_current" /\ m = Prompt
           \/ account = None /\ phase' = "asks_new" /\ m = NewPrompt
  BY <1>2
<1>3. /\ stdout_pipe = <<>> =>
           \/ phase' = "asks_current" /\ stdout_pipe' = Prompt
           \/ phase' = "asks_new" /\ stdout_pipe' = NewPrompt
      /\ Len(stdout_pipe) \in Nat /\ Len(stdout_pipe') \in Nat
      /\ \A i \in 1 .. Len(stdout_pipe) : stdout_pipe'[i] = stdout_pipe[i]
      /\ \A i \in 1 .. Len(stdout_pipe') : i \notin 1 .. Len(stdout_pipe) =>
           stdout_pipe'[i] \in {{"assword"}, {"new"}}
      /\ Has(stdout_pipe', Refusals) => Has(stdout_pipe, Refusals)
  <2>1. m \in Seq(Fragments) /\ ~Has(m, Refusals)
    BY PromptWords
  <2>2. \A i \in 1 .. Len(m) : m[i] \in {{"assword"}, {"new"}}
    BY PromptWords
  <2>3. /\ Len(stdout_pipe) \in Nat /\ Len(stdout_pipe') \in Nat
        /\ \A i \in 1 .. Len(stdout_pipe) : stdout_pipe'[i] = stdout_pipe[i]
    BY <1>m, <2>1, SaysFacts
  <2>4. \A i \in 1 .. Len(stdout_pipe') : i \notin 1 .. Len(stdout_pipe) =>
           stdout_pipe'[i] \in {{"assword"}, {"new"}}
    BY <1>m, <2>1, <2>2, SaysFacts
  <2>5. stdout_pipe = <<>> => stdout_pipe' = m
    BY <1>m, <2>1, SaysFacts
  <2>6. Has(stdout_pipe', Refusals) => Has(stdout_pipe, Refusals)
    BY <1>m, <2>1, SaysFacts
  <2> QED BY <1>m, <2>3, <2>4, <2>5, <2>6
<1>4. WatchedOK'
  BY <1>1 DEF WatchedOK
<1>5. AnswersFit'
  BY <1>1, <1>2, <1>3 DEF AnswersFit, ToWrite, ToAsk, Needed, InDialogue
<1>6. Concluded'
  BY <1>1, <1>2 DEF Concluded, Needed, Committed
<1>7. BufferOK'
  BY <1>1 DEF BufferOK
<1>8. OutputOK'
  BY <1>1, <1>2, <1>3 DEF OutputOK
<1>9. QueueOK' /\ PipeOK'
  BY <1>1, <1>2 DEF QueueOK, PipeOK, Committed
<1>10. AuthSessionOK'
  BY <1>1, <1>2, <1>3 DEF AuthSessionOK, InDialogue, CallerOK
<1>11. NoCurrentOK'
  BY <1>1, <1>2, <1>3 DEF NoCurrentOK, NewPrompt
<1>12. FirstAnswerDue' /\ FirstAnswerJudged'
  BY <1>1, <1>2, <1>3 DEF CallerOK, FirstAnswerDue, FirstAnswerJudged
<1>13. CallerOK'
  BY <1>1, <1>2 DEF CallerOK, HandlerWaits, Committed, InDialogue
<1> QED BY <1>4, <1>5, <1>6, <1>7, <1>8, <1>9, <1>10, <1>11, <1>12, <1>13

\* passwd takes an answer.
LEMMA ReadsFacts ==
  ASSUME TypeOK, PasswdReads
  PROVE  /\ stdin_pipe # <<>> /\ Head(stdin_pipe) = stdin_pipe[1]
         /\ Head(stdin_pipe) \in Answers
         /\ Len(stdin_pipe) \in Nat /\ Len(stdin_pipe) >= 1
         /\ Len(stdin_pipe') = Len(stdin_pipe) - 1
         /\ \A i \in 1 .. Len(stdin_pipe') : stdin_pipe'[i] = stdin_pipe[i + 1]
         /\ \A x : stdin_pipe = <<x>> => stdin_pipe' = <<>> /\ stdin_pipe[1] = x
<1>1. /\ stdin_pipe \in Seq(Answers) /\ stdin_pipe # <<>> /\ stdin_pipe' = Tail(stdin_pipe)
  BY PipeTypes DEF PasswdReads
<1>2. \A x : stdin_pipe = <<x>> => stdin_pipe' = <<>> /\ stdin_pipe[1] = x
  BY <1>1, ShortSequences
<1> QED BY <1>1, <1>2, TakeFacts

\* How many answers can be to be written.
LEMMA ToCount == ToWrite \in 0 .. 2 /\ ToAsk \in 0 .. 1
BY DEF ToWrite, ToAsk

\* The answers that are to be written are the handler's business alone.
LEMMA CountFacts ==
  ASSUME HandlerWaits
  PROVE  /\ ToWrite' = ToWrite /\ ToAsk' = ToAsk
         /\ ToWrite \in 0 .. 2 /\ ToAsk \in 0 .. 1
BY ToCount DEF HandlerWaits, ToWrite, ToAsk

\* passwd accepts the current password, or gives up.
LEMMA PasswdReadsCurrentInv ==
  ASSUME ReportInv, PasswdReadsCurrent, HandlerWaits
  PROVE  DialogueInv'
<1> USE DEF ReportInv, DialogueInv
<1>1. /\ phase = "asks_current" /\ Backend /\ Backend' /\ PasswdReads
      /\ UNCHANGED <<typed, account>>
      /\ UNCHANGED <<current_password, stdin_queue, backend_state, str, pending>>
  BY DEF PasswdReadsCurrent, PasswdReads, HandlerWaits, Backend
<1>2. /\ stdin_pipe # <<>> /\ Head(stdin_pipe) = stdin_pipe[1]
      /\ Len(stdin_pipe) \in Nat /\ Len(stdin_pipe) >= 1
      /\ Len(stdin_pipe') = Len(stdin_pipe) - 1
      /\ \A i \in 1 .. Len(stdin_pipe') : stdin_pipe'[i] = stdin_pipe[i + 1]
      /\ stdin_pipe = <<current_password>> =>
           stdin_pipe' = <<>> /\ stdin_pipe[1] = current_password
  BY <1>1, ReadsFacts
<1>3. \A i \in 1 .. Len(stdout_pipe) : 
        stdout_pipe[i] \cap {"error", "failure"} = {} /\ "success" \notin stdout_pipe[i]
  BY <1>1 DEF OutputOK
<1>4. ASSUME NEW m \in {NewPrompt, AuthFailure}, Says(m)
      PROVE  /\ Len(stdout_pipe) \in Nat /\ Len(stdout_pipe') = Len(stdout_pipe) + 2
             /\ \A i \in 1 .. Len(stdout_pipe) : stdout_pipe'[i] = stdout_pipe[i]
             /\ stdout_pipe'[Len(stdout_pipe) + 1] = m[1]
             /\ stdout_pipe'[Len(stdout_pipe) + 2] = m[2]
             /\ stdout_pipe = <<>> => stdout_pipe' = m
  <2>1. m \in Seq(Fragments) /\ Len(m) = 2
    BY MessageTypes, MessageFacts
  <2>2. /\ Len(stdout_pipe) \in Nat /\ Len(stdout_pipe') = Len(stdout_pipe) + 2
        /\ \A i \in 1 .. Len(stdout_pipe) : stdout_pipe'[i] = stdout_pipe[i]
        /\ stdout_pipe = <<>> => stdout_pipe' = m
    BY <1>4, <2>1, SaysFacts
  <2>3. /\ stdout_pipe'[Len(stdout_pipe) + 1] = m[1]
        /\ stdout_pipe'[Len(stdout_pipe) + 2] = m[2]
    BY <1>4, <2>1, <2>2, SaysFacts
  <2> QED BY <2>2, <2>3
<1>5. CASE /\ stdin_pipe[1] = account
           /\ phase' = "asks_new" /\ verified' = account /\ Says(NewPrompt)
  <2>1. /\ Len(stdout_pipe) \in Nat /\ Len(stdout_pipe') = Len(stdout_pipe) + 2
        /\ \A i \in 1 .. Len(stdout_pipe) : stdout_pipe'[i] = stdout_pipe[i]
        /\ stdout_pipe'[Len(stdout_pipe) + 1] = {"new"}
        /\ stdout_pipe'[Len(stdout_pipe) + 2] = {"assword"}
        /\ stdout_pipe = <<>> => stdout_pipe' = NewPrompt
    BY <1>4, <1>5, MessageFacts
  <2>2. Has(stdout_pipe', Refusals) => Has(stdout_pipe, Refusals)
    BY <2>1 DEF Has, Refusals
  <2>3. WatchedOK'
    BY <1>1 DEF WatchedOK
  <2>4. AnswersFit'
    <3>2. Needed = 3 /\ Needed' = 2
      BY <1>1, <1>5 DEF Needed
    <3>1. InDialogue' => InDialogue /\ phase # "exited_err"
      BY <1>1 DEF InDialogue
    <3> QED BY <1>2, <2>2, <3>2, <3>1, CountFacts DEF AnswersFit
  <2>5. Concluded'
    BY <1>1, <1>2, <1>5 DEF Concluded, Needed, Committed
  <2>6. BufferOK' 
    BY <1>1 DEF BufferOK
  <2>7. OutputOK'
    BY <1>1, <1>3, <1>5, <2>1 DEF OutputOK
  <2>8. QueueOK' /\ PipeOK'
    BY <1>1, <1>2, <1>5 DEF QueueOK, PipeOK, Committed
  <2>9. AuthSessionOK'
    BY <1>1, <1>2, <1>5, <2>1 DEF AuthSessionOK, InDialogue
  <2>10. NoCurrentOK'
    BY <1>1, <1>2, <1>5 DEF NoCurrentOK
  <2>11. FirstAnswerDue'
    BY <1>1, <1>2, <1>5, <2>1, MessageFacts DEF FirstAnswerDue
  <2>12. FirstAnswerJudged'
    BY <1>1, <1>2, <1>5 DEF FirstAnswerJudged
  <2>13. CallerOK'
    BY <1>1, <1>2, <1>5 DEF CallerOK, HandlerWaits, Committed, InDialogue
  <2> QED BY <2>3, <2>4, <2>5, <2>6, <2>7, <2>8, <2>9, <2>10, <2>11, <2>12, <2>13
<1>6. CASE phase' = "exited_err" /\ Says(AuthFailure) /\ UNCHANGED verified
  <2>1. /\ Len(stdout_pipe) \in Nat /\ Len(stdout_pipe') = Len(stdout_pipe) + 2
        /\ \A i \in 1 .. Len(stdout_pipe) : stdout_pipe'[i] = stdout_pipe[i]
        /\ stdout_pipe'[Len(stdout_pipe) + 1] = {"error"}
        /\ stdout_pipe'[Len(stdout_pipe) + 2] = {"unchanged"}
        /\ stdout_pipe = <<>> => stdout_pipe' = AuthFailure
    BY <1>4, <1>6, MessageFacts
  <2>2. Has(stdout_pipe', {"assword"}) => Has(stdout_pipe, {"assword"})
    BY <2>1 DEF Has
  <2>3. WatchedOK' /\ AnswersFit'
    BY <1>1, <1>6 DEF WatchedOK, AnswersFit
  <2>5. Concluded'
    BY <1>1, <1>6 DEF Concluded, Committed
  <2>6. BufferOK'
    BY <1>1 DEF BufferOK
  <2>7. OutputOK'
    BY <1>1, <1>3, <1>6, <2>1 DEF OutputOK
  <2>8. QueueOK' /\ PipeOK'
    BY <1>1, <1>2, <1>6 DEF QueueOK, PipeOK, Committed
  <2>9. AuthSessionOK'
    <3>1. stdout_pipe = <<>> => ~Has(stdout_pipe, {"assword"})
      BY DEF Has
    <3> QED BY <1>1, <1>2, <1>6, <2>2, <3>1 DEF AuthSessionOK, InDialogue
  <2>10. NoCurrentOK'
    BY <1>1, <1>2, <1>6 DEF NoCurrentOK
  <2>11. FirstAnswerDue'
    BY <1>1, <1>2, <1>6, <2>1, MessageFacts DEF FirstAnswerDue
  <2>12. FirstAnswerJudged'
    BY <1>1, <1>2, <1>6, <2>2 DEF FirstAnswerJudged
  <2>13. CallerOK'
    BY <1>1, <1>2, <1>6 DEF CallerOK, HandlerWaits, Committed, InDialogue
  <2> QED BY <2>3, <2>5, <2>6, <2>7, <2>8, <2>9, <2>10, <2>11, <2>12, <2>13
<1> QED BY <1>2, <1>5, <1>6 DEF PasswdReadsCurrent

\* passwd that takes an answer after the first has one that was asked for: the
\* handler is past the first prompt, and somebody waits for what it does.
LEMMA NewAnswerFacts ==
  ASSUME ReportInv, phase \in {"asks_new", "asks_retype"}, PasswdReads
  PROVE  /\ backend_state # "NONE"
         /\ InDialogue => pending # None
         /\ backend_state = "AUTH" => verified = current_password
         /\ stdin_pipe # <<>>
<1> USE DEF ReportInv, DialogueInv
<1>1. stdin_pipe # <<>> /\ Backend
  BY DEF PasswdReads, Backend
<1>2. InDialogue => pending # None
  BY <1>1 DEF AuthSessionOK, InDialogue
<1>3. backend_state # "NONE"
  <2> SUFFICES ASSUME backend_state = "NONE" PROVE FALSE
    OBVIOUS
  <2>1. pending # None
    BY <1>1, <1>2 DEF InDialogue
  <2>2. current_password # None
    BY <1>1, <2>1 DEF QueueOK
  <2> QED BY <1>1, <2>1, <2>2 DEF FirstAnswerDue
<1>4. backend_state = "AUTH" => verified = current_password
  BY <1>1 DEF FirstAnswerJudged
<1> QED BY <1>1, <1>2, <1>3, <1>4

\* The conjuncts about the first answer and about a dialogue without a request say
\* nothing of a passwd that is past the first answer.
LEMMA PastFirstAnswer ==
  ASSUME ReportInv, phase \in {"asks_new", "asks_retype"}, PasswdReads, HandlerWaits,
         phase' \notin {"absent", "starting", "asks_current"}, UNCHANGED verified
  PROVE  /\ WatchedOK' /\ BufferOK' /\ QueueOK' /\ AuthSessionOK' /\ NoCurrentOK'
         /\ FirstAnswerDue' /\ FirstAnswerJudged'
<1> USE DEF ReportInv, DialogueInv
<1>1. /\ Backend /\ Backend'
      /\ UNCHANGED <<current_password, stdin_queue, backend_state, str, pending, verified>>
  BY DEF HandlerWaits, Backend
<1>2. /\ backend_state # "NONE"
      /\ InDialogue => pending # None
      /\ backend_state = "AUTH" => verified = current_password
  BY NewAnswerFacts
<1>3. WatchedOK' /\ BufferOK'
  BY <1>1 DEF WatchedOK, BufferOK
<1>4. QueueOK'
  BY <1>1, <1>2 DEF QueueOK
<1>5. AuthSessionOK'
  BY <1>1, <1>2 DEF AuthSessionOK, InDialogue
<1>6. NoCurrentOK'
  BY <1>1, <1>2 DEF NoCurrentOK
<1>7. FirstAnswerDue' /\ FirstAnswerJudged'
  BY <1>1, <1>2 DEF FirstAnswerDue, FirstAnswerJudged
<1> QED BY <1>3, <1>4, <1>5, <1>6, <1>7

\* The caller's part of the invariant: what it says of a passwd past the first answer.
LEMMA PastFirstCaller ==
  ASSUME ReportInv, phase \in {"asks_new", "asks_retype"}, PasswdReads, HandlerWaits,
         phase' # "absent", current_password # None => account' # None,
         account' = account \/ phase' \in Committed
  PROVE  CallerOK'
<1> USE DEF ReportInv, DialogueInv
<1>1. /\ Backend /\ Backend' /\ phase \notin Committed
      /\ UNCHANGED <<current_password, stdin_queue, backend_state, pending>>
  BY DEF HandlerWaits, Backend, Committed
<1>2. backend_state # "NONE" /\ (InDialogue => pending # None) /\ InDialogue' = InDialogue
  BY <1>1, NewAnswerFacts DEF InDialogue
<1> QED BY <1>1, <1>2 DEF CallerOK, HandlerWaits

\* A refusal: passwd gives up, or asks for a new password again; it needs at least
\* as many answers as before and has taken one.
LEMMA PasswdRefusesInv ==
  ASSUME ReportInv, phase \in {"asks_new", "asks_retype"}, PasswdReads, PasswdRefuses,
         HandlerWaits, UNCHANGED <<verified, account>>
  PROVE  DialogueInv'
<1> USE DEF ReportInv, DialogueInv
<1>1. /\ Backend /\ Backend' /\ phase' \in {"exited_err", "asks_new"}
      /\ UNCHANGED <<current_password, stdin_queue, backend_state, pending>>
  BY DEF HandlerWaits, Backend, PasswdRefuses
<1>2. /\ Len(stdin_pipe) \in Nat /\ Len(stdin_pipe) >= 1
      /\ Len(stdin_pipe') = Len(stdin_pipe) - 1
      /\ \A i \in 1 .. Len(stdin_pipe') : stdin_pipe'[i] = stdin_pipe[i + 1]
  BY ReadsFacts
<1>3. /\ WatchedOK' /\ BufferOK' /\ QueueOK' /\ AuthSessionOK' /\ NoCurrentOK'
      /\ FirstAnswerDue' /\ FirstAnswerJudged'
  BY <1>1, PastFirstAnswer
<1>4. CallerOK'
  BY <1>1, PastFirstCaller DEF CallerOK
<1>5. AnswersFit'
  <2>1. Needed \in 1 .. 2 /\ (phase' = "asks_new" => Needed' = 2)
    BY DEF Needed
  <2>2. InDialogue' => InDialogue /\ phase # "exited_err"
    BY <1>1 DEF InDialogue
  <2>3. ASSUME InDialogue', phase' = "asks_new"
        PROVE  Len(stdin_pipe') + ToWrite' + ToAsk' < Needed'
    BY <1>2, <2>1, <2>2, <2>3, CountFacts DEF AnswersFit
  <2> QED BY <1>1, <1>2, <2>1, <2>3, CountFacts DEF AnswersFit
<1>6. Concluded'
  BY <1>1, <1>2 DEF Concluded, Needed, Committed
<1>7. PipeOK'
  BY <1>1, <1>2 DEF PipeOK, Committed
<1>8. OutputOK'
  <2>1. \A i \in 1 .. Len(stdout_pipe) :
          stdout_pipe[i] \cap {"error", "failure"} = {} /\ "success" \notin stdout_pipe[i]
          /\ "incorrect" \notin stdout_pipe[i]
    BY DEF OutputOK
  <2>2. ASSUME NEW m \in Seq(Fragments), Says(m), Len(m) = 3
        PROVE  /\ Len(stdout_pipe) \in Nat /\ Len(stdout_pipe') = Len(stdout_pipe) + 3
               /\ \A i \in 1 .. Len(stdout_pipe) : stdout_pipe'[i] = stdout_pipe[i]
               /\ stdout_pipe'[Len(stdout_pipe) + 1] = m[1]
               /\ stdout_pipe'[Len(stdout_pipe) + 2] = m[2]
               /\ stdout_pipe'[Len(stdout_pipe) + 3] = m[3]
    <3>1. /\ Len(stdout_pipe) \in Nat /\ Len(stdout_pipe') = Len(stdout_pipe) + 3
          /\ \A i \in 1 .. Len(stdout_pipe) : stdout_pipe'[i] = stdout_pipe[i]
      BY <2>2, SaysFacts
    <3>2. /\ stdout_pipe'[Len(stdout_pipe) + 1] = m[1]
          /\ stdout_pipe'[Len(stdout_pipe) + 2] = m[2]
          /\ stdout_pipe'[Len(stdout_pipe) + 3] = m[3]
      BY <2>2, <3>1, SaysFacts
    <3> QED BY <3>1, <3>2
  <2>3. CASE phase' = "exited_err" /\ Says(Refusal \o AuthFailure)
    <3>1. /\ Len(stdout_pipe) \in Nat /\ Len(stdout_pipe') = Len(stdout_pipe) + 3
          /\ \A i \in 1 .. Len(stdout_pipe) : stdout_pipe'[i] = stdout_pipe[i]
          /\ stdout_pipe'[Len(stdout_pipe) + 1] = {"reject"}
          /\ stdout_pipe'[Len(stdout_pipe) + 2] = {"error"}
          /\ stdout_pipe'[Len(stdout_pipe) + 3] = {"unchanged"}
      BY <2>2, <2>3, MessageFacts
    <3> QED BY <2>1, <2>3, <3>1 DEF OutputOK
  <2>4. CASE phase' = "asks_new" /\ Says(Refusal \o NewPrompt)
    <3>1. /\ Len(stdout_pipe) \in Nat /\ Len(stdout_pipe') = Len(stdout_pipe) + 3
          /\ \A i \in 1 .. Len(stdout_pipe) : stdout_pipe'[i] = stdout_pipe[i]
          /\ stdout_pipe'[Len(stdout_pipe) + 1] = {"reject"}
          /\ stdout_pipe'[Len(stdout_pipe) + 2] = {"new"}
          /\ stdout_pipe'[Len(stdout_pipe) + 3] = {"assword"}
      BY <2>2, <2>4, MessageFacts
    <3> QED BY <2>1, <2>4, <3>1 DEF OutputOK
  <2> QED BY <2>3, <2>4 DEF PasswdRefuses
<1> QED BY <1>3, <1>4, <1>5, <1>6, <1>7, <1>8

\* passwd takes the new password.
LEMMA PasswdReadsNewInv ==
  ASSUME ReportInv, PasswdReadsNew, HandlerWaits
  PROVE  DialogueInv'
<1> USE DEF ReportInv, DialogueInv
<1>1. /\ phase = "asks_new" /\ Backend /\ PasswdReads
      /\ UNCHANGED <<current_password, stdin_queue, backend_state, pending>>
      /\ UNCHANGED <<verified, account>>
  BY DEF PasswdReadsNew, HandlerWaits, Backend
<1>2. CASE PasswdRefuses
  BY <1>1, <1>2, PasswdRefusesInv
<1>3. CASE phase' = "asks_retype" /\ Says(NewPrompt)
  <2>1. /\ Len(stdin_pipe) \in Nat /\ Len(stdin_pipe) >= 1
        /\ Len(stdin_pipe') = Len(stdin_pipe) - 1
        /\ \A i \in 1 .. Len(stdin_pipe') : stdin_pipe'[i] = stdin_pipe[i + 1]
    BY <1>1, ReadsFacts
  <2>2. /\ WatchedOK' /\ BufferOK' /\ QueueOK' /\ AuthSessionOK' /\ NoCurrentOK'
        /\ FirstAnswerDue' /\ FirstAnswerJudged'
    BY <1>1, <1>3, PastFirstAnswer
  <2>3. CallerOK'
    BY <1>1, <1>3, PastFirstCaller DEF CallerOK
  <2>4. /\ Len(stdout_pipe) \in Nat /\ Len(stdout_pipe') \in Nat
        /\ \A i \in 1 .. Len(stdout_pipe) : stdout_pipe'[i] = stdout_pipe[i]
    BY <1>3, SaysFacts, MessageTypes
  <2>5. \A i \in 1 .. Len(stdout_pipe') : i \notin 1 .. Len(stdout_pipe) =>
          stdout_pipe'[i] \in {{"assword"}, {"new"}}
    BY <1>3, SaysFacts, PromptWords
  <2>6. Has(stdout_pipe', Refusals) => Has(stdout_pipe, Refusals)
    BY <1>3, SaysFacts, PromptWords
  <2>7. AnswersFit'
    <3>1. Needed = 2 /\ Needed' = 1
      BY <1>1, <1>3 DEF Needed
    <3>2. InDialogue' => InDialogue /\ phase # "exited_err"
      BY <1>1 DEF InDialogue
    <3> QED BY <2>1, <2>6, <3>1, <3>2, CountFacts DEF AnswersFit
  <2>8. Concluded'
    BY <1>1, <1>3, <2>1 DEF Concluded, Needed, Committed
  <2>9. PipeOK'
    <3>1. stdin_pipe' # <<>> => 1 \in 1 .. Len(stdin_pipe')
      BY <2>1, ReadsFacts, PipeTypes DEF PasswdReads
    <3> QED BY <1>1, <1>3, <2>1, <3>1 DEF PipeOK, Committed
  <2>10. OutputOK'
    <3>1. \A i \in 1 .. Len(stdout_pipe) :
            stdout_pipe[i] \cap {"error", "failure"} = {} /\ "success" \notin stdout_pipe[i]
            /\ "incorrect" \notin stdout_pipe[i]
      BY <1>1 DEF OutputOK
    <3> QED BY <2>4, <2>5, <3>1 DEF OutputOK
  <2> QED BY <2>2, <2>3, <2>7, <2>8, <2>9, <2>10
<1> QED BY <1>2, <1>3 DEF PasswdReadsNew

\* passwd takes the new password again: it refuses it, finds that the current one is
\* no longer right, or changes the password.  It can change it only when all the
\* answers it needed have been written, so that the handler waits for the verdict,
\* and then both of the last two were the password that was asked for.
LEMMA PasswdReadsRetypeInv ==
  ASSUME ReportInv, PasswdReadsRetype, HandlerWaits
  PROVE  DialogueInv'
<1> USE DEF ReportInv, DialogueInv
<1>1. /\ phase = "asks_retype" /\ Backend /\ PasswdReads
      /\ UNCHANGED <<current_password, stdin_queue, backend_state, pending>>
      /\ UNCHANGED <<verified, typed>>
  BY DEF PasswdReadsRetype, HandlerWaits, Backend
<1>2. /\ Len(stdin_pipe) \in Nat /\ Len(stdin_pipe) >= 1 /\ stdin_pipe # <<>>
      /\ Len(stdin_pipe') = Len(stdin_pipe) - 1 /\ Head(stdin_pipe) = stdin_pipe[1]
      /\ \A i \in 1 .. Len(stdin_pipe') : stdin_pipe'[i] = stdin_pipe[i + 1]
  BY <1>1, ReadsFacts
<1>3. \A i \in 1 .. Len(stdout_pipe) :
        stdout_pipe[i] \cap {"error", "failure"} = {} /\ "success" \notin stdout_pipe[i]
        /\ "incorrect" \notin stdout_pipe[i]
  BY <1>1 DEF OutputOK
<1>4. CASE PasswdRefuses /\ UNCHANGED account
  BY <1>1, <1>4, PasswdRefusesInv
<1>5. CASE phase' = "exited_err" /\ Says(NotRecognised) /\ UNCHANGED account
  <2>1. /\ WatchedOK' /\ BufferOK' /\ QueueOK' /\ AuthSessionOK' /\ NoCurrentOK'
        /\ FirstAnswerDue' /\ FirstAnswerJudged'
    BY <1>1, <1>5, PastFirstAnswer
  <2>2. CallerOK'
    BY <1>1, <1>5, PastFirstCaller DEF CallerOK
  <2>3. /\ Len(stdout_pipe) \in Nat /\ Len(stdout_pipe') = Len(stdout_pipe) + 1
        /\ \A i \in 1 .. Len(stdout_pipe) : stdout_pipe'[i] = stdout_pipe[i]
    BY <1>5, SaysFacts, MessageTypes, MessageFacts
  <2>4. stdout_pipe'[Len(stdout_pipe) + 1] = {"failure"}
    BY <1>5, <2>3, SaysFacts, MessageTypes, MessageFacts
  <2>5. OutputOK'
    BY <1>3, <1>5, <2>3, <2>4 DEF OutputOK
  <2>6. AnswersFit' /\ PipeOK'
    BY <1>5 DEF AnswersFit, PipeOK
  <2>7. Concluded'
    BY <1>1, <1>5 DEF Concluded, Committed
  <2> QED BY <2>1, <2>2, <2>5, <2>6, <2>7
<1>6. CASE /\ stdin_pipe[1] = typed /\ phase' = "updated" /\ account' = typed
           /\ UNCHANGED stdout_pipe
  <2>1. Needed = 1 /\ Needed' = 0
    BY <1>1, <1>6 DEF Needed
  <2>2. backend_state = "RETYPE" /\ pending # None /\ ~Has(stdout_pipe, Refusals)
    <3>1. backend_state \notin {"ERR", "DONE"}
      BY <1>1, <1>2, <2>1 DEF Concluded, Committed
    <3>2. InDialogue /\ phase # "exited_err"
      BY <1>1, <3>1, PipeTypes DEF InDialogue, States
    <3>3. ToWrite = 0 /\ ToAsk = 0 /\ ~Has(stdout_pipe, Refusals)
      BY <1>2, <2>1, <3>2, ToCount DEF AnswersFit
    <3> QED BY <3>2, <3>3 DEF ToWrite, ToAsk, InDialogue
  <2>3. typed = pending
    BY <1>1, <1>2, <1>6, <2>2 DEF PipeOK
  <2>4. /\ WatchedOK' /\ BufferOK' /\ QueueOK' /\ AuthSessionOK' /\ NoCurrentOK'
        /\ FirstAnswerDue' /\ FirstAnswerJudged'
    BY <1>1, <1>6, PastFirstAnswer
  <2>5. CallerOK'
    BY <1>1, <1>6, <2>2, <2>3, PastFirstCaller DEF Committed
  <2>6. AnswersFit'
    <3>1. ToWrite' = 0 /\ ToAsk' = 0
      BY <1>1, <2>2 DEF ToWrite, ToAsk
    <3>2. Len(stdin_pipe) + ToWrite + ToAsk <= 1
      BY <1>1, <2>1, <2>2 DEF AnswersFit, InDialogue
    <3>3. Len(stdin_pipe') = 0
      BY <1>2, <3>2, ToCount
    <3> QED BY <1>6, <2>1, <2>2, <3>1, <3>3 DEF AnswersFit
  <2>7. Concluded' /\ PipeOK' /\ OutputOK'
    BY <1>1, <1>2, <1>3, <1>6, <2>2, <2>3 DEF Concluded, PipeOK, OutputOK
  <2> QED BY <2>4, <2>5, <2>6, <2>7
<1> QED BY <1>2, <1>4, <1>5, <1>6 DEF PasswdReadsRetype

\* passwd reports the change, and exits.
LEMMA PasswdEndsInv ==
  ASSUME ReportInv, PasswdReports \/ PasswdExits, HandlerWaits
  PROVE  DialogueInv'
<1> USE DEF ReportInv, DialogueInv
<1>1. /\ phase \in {"updated", "reported"} /\ phase' \in {"reported", "exited_ok"}
      /\ Backend /\ Backend'
      /\ UNCHANGED <<verified, typed, stdin_pipe, account>>
      /\ UNCHANGED <<current_password, stdin_queue, backend_state, str, pending>>
  BY DEF PasswdReports, PasswdExits, HandlerWaits, Backend
<1>2. Len(stdout_pipe) \in Nat /\ Len(stdout_pipe') \in Nat
  BY PipeTypes, SaysFacts, MessageTypes DEF PasswdReports, PasswdExits
<1>3. /\ \A i \in 1 .. Len(stdout_pipe) : stdout_pipe'[i] = stdout_pipe[i]
      /\ Has(stdout_pipe', Refusals) => Has(stdout_pipe, Refusals)
  <2>1. ~Has(Updated, Refusals)
    BY DEF Updated, Has, Refusals
  <2> QED BY <2>1, SaysFacts, MessageTypes DEF PasswdReports, PasswdExits
<1>4. \A i \in 1 .. Len(stdout_pipe') : i \notin 1 .. Len(stdout_pipe) =>
        stdout_pipe'[i] = {"success"}
  <2>1. CASE PasswdReports
    BY <2>1, SaysFacts, MessageTypes, MessageFacts DEF PasswdReports
  <2>2. CASE PasswdExits
    BY <2>2 DEF PasswdExits
  <2> QED BY <2>1, <2>2
<1>5. WatchedOK' /\ BufferOK'
  BY <1>1 DEF WatchedOK, BufferOK
<1>6. AnswersFit'
  <2>1. Needed = 0 /\ Needed' = 0
    BY <1>1 DEF Needed
  <2>2. InDialogue' => InDialogue
    BY <1>1 DEF InDialogue
  <2> QED BY <1>1, <1>3, <2>1, <2>2, CountFacts DEF AnswersFit
<1>7. Concluded'
  BY <1>1 DEF Concluded, Needed, Committed
<1>8. OutputOK'
  <2>1. \A i \in 1 .. Len(stdout_pipe) :
          stdout_pipe[i] \cap {"error", "failure"} = {} /\ "incorrect" \notin stdout_pipe[i]
    BY <1>1 DEF OutputOK
  <2> QED BY <1>1, <1>2, <1>3, <1>4, <2>1 DEF OutputOK
<1>9. QueueOK' /\ PipeOK'
  BY <1>1 DEF QueueOK, PipeOK, Committed
<1>10. AuthSessionOK'
  BY <1>1 DEF AuthSessionOK, InDialogue
<1>11. NoCurrentOK' /\ FirstAnswerDue' /\ FirstAnswerJudged'
  BY <1>1 DEF NoCurrentOK, FirstAnswerDue, FirstAnswerJudged
<1>12. CallerOK'
  BY <1>1 DEF CallerOK, HandlerWaits, Committed, InDialogue
<1> QED BY <1>5, <1>6, <1>7, <1>8, <1>9, <1>10, <1>11, <1>12

\* All that passwd does, whatever the handler waits for.
LEMMA PasswdProcessInv ==
  ASSUME ReportInv, PasswdProcess, UNCHANGED old_password_ok
  PROVE  DialogueInv'
<1>1. HandlerWaits
  BY DEF PasswdProcess, notProcess, handlerVars, HandlerWaits
<1> QED BY <1>1, PasswdStartsInv, PasswdReadsCurrentInv, PasswdReadsNewInv,
           PasswdReadsRetypeInv, PasswdEndsInv DEF PasswdProcess

\* Somebody else changes the password: an account without one does not get one.
LEMMA AccountChangedElsewhereInv ==
  ASSUME ReportInv, AccountChangedElsewhere, UNCHANGED old_password_ok
  PROVE  DialogueInv'
<1> USE DEF ReportInv, DialogueInv
<1>1. /\ account # None /\ account' # None
      /\ UNCHANGED <<current_password, stdin_queue, backend_state, str, pending>>
      /\ UNCHANGED <<phase, verified, typed, stdin_pipe, stdout_pipe>>
      /\ UNCHANGED <<running, old_password_ok, auth_cb, chpasswd_cb>>
  BY ConstantsAssumption DEF AccountChangedElsewhere, handlerVars, processVars
<1>2. AnswersFit' /\ Concluded'
  <2>1. Needed' = Needed /\ ToWrite' = ToWrite /\ ToAsk' = ToAsk
    BY <1>1 DEF Needed, ToWrite, ToAsk
  <2> QED BY <1>1, <2>1 DEF AnswersFit, Concluded, InDialogue, Backend
<1>3. WatchedOK' /\ BufferOK' /\ OutputOK' /\ QueueOK' /\ PipeOK'
  BY <1>1 DEF WatchedOK, BufferOK, OutputOK, QueueOK, PipeOK, Backend
<1>4. AuthSessionOK' /\ NoCurrentOK' /\ FirstAnswerDue' /\ FirstAnswerJudged'
  BY <1>1 DEF AuthSessionOK, NoCurrentOK, FirstAnswerDue, FirstAnswerJudged, InDialogue, Backend
<1>5. CallerOK'
  BY <1>1 DEF CallerOK, InDialogue, Backend
<1> QED BY <1>2, <1>3, <1>4, <1>5

-----------------------------------------------------------------------------
(***************************************************************************)
(* The calls of run-passwd.h keep the invariant.                           *)
(***************************************************************************)

\* A step that leaves the handler, passwd and the account alone; the caller may only
\* come to doubt the current password.
LEMMA FrameInv ==
  ASSUME ReportInv, UNCHANGED <<handlerVars, str, processVars, account, pending>>,
         old_password_ok' => old_password_ok
  PROVE  DialogueInv'
<1> USE DEF ReportInv, DialogueInv
<1>1. /\ UNCHANGED <<current_password, stdin_queue, backend_state, str, pending, account>>
      /\ UNCHANGED <<phase, verified, typed, stdin_pipe, stdout_pipe>>
      /\ UNCHANGED <<running, auth_cb, chpasswd_cb>>
  BY DEF handlerVars, processVars
<1>2. AnswersFit' /\ Concluded'
  <2>1. Needed' = Needed /\ ToWrite' = ToWrite /\ ToAsk' = ToAsk
    BY <1>1 DEF Needed, ToWrite, ToAsk
  <2> QED BY <1>1, <2>1 DEF AnswersFit, Concluded, InDialogue, Backend
<1>3. WatchedOK' /\ BufferOK' /\ OutputOK' /\ QueueOK' /\ PipeOK'
  BY <1>1 DEF WatchedOK, BufferOK, OutputOK, QueueOK, PipeOK, Backend
<1>4. AuthSessionOK' /\ NoCurrentOK' /\ FirstAnswerDue' /\ FirstAnswerJudged'
  BY <1>1 DEF AuthSessionOK, NoCurrentOK, FirstAnswerDue, FirstAnswerJudged, InDialogue, Backend
<1>5. CallerOK'
  BY <1>1 DEF CallerOK, InDialogue, Backend
<1> QED BY <1>2, <1>3, <1>4, <1>5

\* Without a backend only the caller's part says anything.
LEMMA StoppedInv ==
  ASSUME ReportInv, StopPasswd, UNCHANGED str, CallerOK'
  PROVE  DialogueInv'
<1> USE DEF ReportInv, DialogueInv
<1>1. /\ ~Backend' /\ running' = FALSE /\ backend_state' = "NONE" /\ stdout_pipe' = <<>>
  BY DEF StopPasswd, FreePasswdResources, StateFreed, Backend
<1>2. WatchedOK' /\ AnswersFit' /\ Concluded' /\ BufferOK'
  BY <1>1 DEF WatchedOK, AnswersFit, Concluded, BufferOK, InDialogue
<1>3. OutputOK'
  BY <1>1 DEF OutputOK
<1>4. QueueOK' /\ PipeOK' /\ AuthSessionOK' /\ NoCurrentOK' /\ FirstAnswerDue' /\ FirstAnswerJudged'
  BY <1>1 DEF QueueOK, PipeOK, AuthSessionOK, NoCurrentOK, FirstAnswerDue,
              FirstAnswerJudged, InDialogue
<1> QED BY <1>2, <1>3, <1>4

\* A backend that was just started has said nothing; what it needs, and what has been
\* queued for it, depend on who started it.
LEMMA SpawnedInv ==
  ASSUME ReportInv, SpawnPasswd, UNCHANGED str, AnswersFit', QueueOK', PipeOK',
         AuthSessionOK', NoCurrentOK', FirstAnswerDue', CallerOK'
  PROVE  DialogueInv'
<1> USE DEF ReportInv, DialogueInv
<1>1. Backend' /\ phase' = "starting" /\ backend_state' = "NONE" /\ stdout_pipe' = <<>>
  BY DEF SpawnPasswd, Backend
<1>2. WatchedOK' /\ Concluded' /\ BufferOK' /\ FirstAnswerJudged'
  BY <1>1 DEF WatchedOK, Concluded, BufferOK, FirstAnswerJudged
<1>3. OutputOK'
  BY <1>1 DEF OutputOK
<1> QED BY <1>2, <1>3

\* passwd_authenticate: no change is awaited, and the account has a password, so that
\* the one answer that is queued and the two of a later request are three.
LEMMA PasswdAuthenticateInv ==
  ASSUME ReportInv, NEW password \in Passwords, PasswdAuthenticate(password),
         account # None, UNCHANGED old_password_ok
  PROVE  DialogueInv'
<1> USE DEF ReportInv, DialogueInv
<1>1. /\ pending = None /\ current_password' = password /\ password # None
      /\ UNCHANGED <<str, account, pending>>
  BY ConstantsAssumption DEF PasswdAuthenticate, MayAuthenticate, ChangeIsFlagged
<1>2. chpasswd_cb' = FALSE
  BY DEF PasswdAuthenticate
<1>3. CASE SpawnPasswd /\ stdin_queue' = <<password>> /\ stdin_pipe' = <<>>
  <2>1. Backend' /\ phase' = "starting" /\ backend_state' = "NONE" /\ stdout_pipe' = <<>>
    BY <1>3 DEF SpawnPasswd, Backend
  <2>2. AnswersFit'
    <3>1. Needed' = 3 /\ ToWrite' = 2 /\ ToAsk' = 1
      BY <1>1, <2>1 DEF Needed, ToWrite, ToAsk
    <3>2. Len(stdin_pipe') = 0
      BY <1>3
    <3>3. ~Has(stdout_pipe', Refusals)
      BY <2>1 DEF Has
    <3> QED BY <3>1, <3>2, <3>3 DEF AnswersFit
  <2>3. QueueOK' /\ PipeOK' /\ NoCurrentOK' /\ FirstAnswerDue'
    BY <1>1 DEF QueueOK, PipeOK, NoCurrentOK, FirstAnswerDue
  <2>4. AuthSessionOK'
    BY <1>1, <1>3, <2>1 DEF AuthSessionOK
  <2>5. CallerOK'
    BY <1>1, <1>2, <1>3, <2>1 DEF CallerOK
  <2> QED BY <1>1, <1>3, <2>2, <2>3, <2>4, <2>5, SpawnedInv
<1>4. CASE StopPasswd /\ stdin_queue' = <<>>
  <2>1. backend_state' = "NONE"
    BY <1>4 DEF StopPasswd, FreePasswdResources, StateFreed
  <2>2. CallerOK'
    BY <1>1, <1>2, <1>4, <2>1 DEF CallerOK
  <2> QED BY <1>1, <1>4, <2>2, StoppedInv
<1> QED BY <1>3, <1>4 DEF PasswdAuthenticate

\* passwd_destroy, and a new handler.
LEMMA PasswdDestroyInitInv ==
  ASSUME ReportInv, PasswdDestroyInit, old_password_ok' = (account = None)
  PROVE  DialogueInv'
<1>1. /\ StopPasswd /\ backend_state' = "NONE" /\ stdin_queue' = <<>>
      /\ current_password' = None /\ auth_cb' = FALSE /\ chpasswd_cb' = FALSE
      /\ UNCHANGED <<str, account>>
  BY DEF PasswdDestroyInit, StopPasswd, FreePasswdResources, StateFreed
<1>2. CallerOK'
  BY <1>1 DEF CallerOK
<1> QED BY <1>1, <1>2, StoppedInv

\* What a caller that asks for a change finds: nothing is queued but the password of
\* a passwd_authenticate whose first prompt has not come, and without a current
\* password the account has none.
LEMMA AskingFacts ==
  ASSUME ReportInv, old_password_ok, pending = None
  PROVE  /\ NeedsRestart => /\ stdin_queue = <<>>
                            /\ current_password = None <=> account = None
         /\ backend_state # "DONE"
         /\ (~NeedsRestart /\ Backend) => InDialogue
<1> USE DEF ReportInv, DialogueInv
<1>1. backend_state # "DONE"
  BY DEF CallerOK
<1>2. (~NeedsRestart /\ Backend) => InDialogue
  BY <1>1, PipeTypes DEF NeedsRestart, InDialogue, States
<1>3. ASSUME NeedsRestart
      PROVE  stdin_queue = <<>> /\ phase \notin Committed
  <2>1. CASE backend_state = "ERR"
    <3>1. Len(stdin_pipe) \in Nat /\ (phase # "exited_err" => Len(stdin_pipe) < Needed)
      BY <2>1, PipeTypes DEF Concluded
    <3>2. phase \in Committed => Needed = 0
      BY DEF Committed, Needed
    <3>3. phase \notin Committed
      BY <3>1, <3>2 DEF Committed
    <3> QED BY <2>1, <3>3 DEF Concluded
  <2>2. CASE ~running
    <3>1. phase = "absent" /\ ~Backend
      BY <2>2 DEF TypeOK, BackendReleased, Backend
    <3> QED BY <3>1 DEF CallerOK, Committed
  <2> QED BY <1>3, <2>1, <2>2 DEF NeedsRestart
<1>4. NeedsRestart => (current_password = None <=> account = None)
  BY <1>3 DEF CallerOK
<1> QED BY <1>1, <1>2, <1>3, <1>4

\* The caller's part, when it has just asked.
LEMMA AskedCaller ==
  ASSUME ReportInv, old_password_ok, pending' # None,
         UNCHANGED <<current_password, account, auth_cb, old_password_ok>>,
         backend_state' # "DONE",
         phase' = phase \/ (current_password = None => account = None)
  PROVE  CallerOK'
BY DEF ReportInv, DialogueInv, CallerOK

\* passwd_change_password that starts passwd: its answers are as many as passwd needs.
LEMMA ChangeFromRestartInv ==
  ASSUME ReportInv, old_password_ok, pending = None, NEW new \in Passwords,
         pending' = new, NeedsRestart, ChangeFromRestart(new),
         UNCHANGED <<current_password, auth_cb, str, account, old_password_ok>>
  PROVE  DialogueInv'
<1> USE DEF ReportInv, DialogueInv
<1>1. /\ stdin_queue = <<>> /\ pending' # None
      /\ current_password = None <=> account = None
  BY AskingFacts, ConstantsAssumption
<1>2. CASE StopPasswd /\ UNCHANGED <<stdin_queue, spawns>>
  <2>1. backend_state' = "NONE"
    BY <1>2 DEF StopPasswd, FreePasswdResources, StateFreed
  <2>2. CallerOK'
    BY <1>1, <2>1, AskedCaller
  <2> QED BY <1>2, <2>2, StoppedInv
<1>3. CASE /\ SpawnPasswd
           /\ current_password # None =>
                stdin_queue' = <<new, new>> /\ stdin_pipe' = <<current_password>>
           /\ current_password = None =>
                stdin_queue' = <<None, new, new>> /\ stdin_pipe' = <<>>
  <2>1. Backend' /\ phase' = "starting" /\ backend_state' = "NONE" /\ stdout_pipe' = <<>>
    BY <1>3 DEF SpawnPasswd, Backend
  <2>2. AnswersFit'
    <3>1. ToWrite' = 2 /\ ToAsk' = 0
      BY <1>1, <2>1 DEF ToWrite, ToAsk
    <3>2. Needed' \in Nat /\ Len(stdin_pipe') \in Nat /\ Len(stdin_pipe') + 2 = Needed'
      <4>1. CASE current_password = None
        <5>1. Needed' = 2 /\ Len(stdin_pipe') = 0
          BY <1>1, <1>3, <2>1, <4>1 DEF Needed
        <5> QED BY <5>1
      <4>2. CASE current_password # None
        <5>1. Needed' = 3 /\ Len(stdin_pipe') = 1
          BY <1>1, <1>3, <2>1, <4>2 DEF Needed
        <5> QED BY <5>1
      <4> QED BY <4>1, <4>2
    <3>3. ~Has(stdout_pipe', Refusals)
      BY <2>1 DEF Has
    <3>4. Len(stdin_pipe') + ToWrite' + ToAsk' <= Needed'
      BY <3>1, <3>2
    <3> QED BY <3>3, <3>4 DEF AnswersFit
  <2>3. QueueOK' /\ NoCurrentOK' /\ FirstAnswerDue'
    BY <1>1, <1>3, <2>1 DEF QueueOK, NoCurrentOK, FirstAnswerDue
  <2>4. PipeOK'
    <3>1. \A i \in 2 .. Len(stdin_pipe') : FALSE
      BY <1>3
    <3> QED BY <2>1, <3>1 DEF PipeOK, Committed
  <2>5. AuthSessionOK'
    BY <1>1 DEF AuthSessionOK
  <2>6. CallerOK'
    BY <1>1, <2>1, AskedCaller
  <2> QED BY <1>3, <2>2, <2>3, <2>4, <2>5, <2>6, SpawnedInv
<1>4. LET queue == stdin_queue \o <<current_password, new, new>> IN
      /\ queue = <<current_password, new, new>>
      /\ Tail(queue) = <<new, new>> /\ Head(queue) = current_password
  <2>1. stdin_queue \o <<current_password, new, new>> = <<current_password, new, new>>
    BY <1>1, ShortSequences
  <2>2. Tail(<<current_password, new, new>>) = <<new, new>>
    BY ShortSequences
  <2>3. Head(<<current_password, new, new>>) = current_password
    OBVIOUS
  <2> QED BY <2>1, <2>2, <2>3
<1> QED BY <1>2, <1>3, <1>4 DEF ChangeFromRestart

\* passwd_change_password that goes on with the passwd of a passwd_authenticate.
LEMMA ChangeInSessionInv ==
  ASSUME ReportInv, old_password_ok, pending = None, NEW new \in Passwords,
         pending' = new, ~NeedsRestart, ChangeInSession(new),
         UNCHANGED <<current_password, auth_cb, str, account, old_password_ok>>
  PROVE  DialogueInv'
<1> USE DEF ReportInv, DialogueInv
<1>1. /\ UNCHANGED <<running, backend_state, phase, verified, typed, stdout_pipe>>
      /\ UNCHANGED <<current_password, str, account>>
      /\ new # None /\ Backend' = Backend
  BY ConstantsAssumption DEF ChangeInSession, Backend
<1>2. WatchedOK' /\ BufferOK' /\ OutputOK' /\ NoCurrentOK'
  BY <1>1 DEF WatchedOK, BufferOK, OutputOK, NoCurrentOK
<1>3. AuthSessionOK'
  BY <1>1 DEF AuthSessionOK
<1>4. CallerOK'
  BY <1>1, AskingFacts, AskedCaller
<1>5. Concluded'
  BY <1>1, AskingFacts DEF Concluded, NeedsRestart
<1>6. CASE ~Backend
  BY <1>1, <1>2, <1>3, <1>4, <1>5, <1>6 DEF AnswersFit, InDialogue, QueueOK, PipeOK,
     FirstAnswerDue, FirstAnswerJudged
<1>7. CASE Backend
  <2>1. InDialogue /\ current_password # None /\ backend_state \in {"NONE", "AUTH", "NEW"}
    BY <1>7, AskingFacts DEF AuthSessionOK, InDialogue
  <2>2. \/ backend_state = "NONE" /\ stdin_queue = <<current_password>> /\ stdin_pipe = <<>>
        \/ backend_state # "NONE" /\ stdin_queue = <<>>
    BY <2>1 DEF AuthSessionOK, CallerOK
  <2>3. LET queue == stdin_queue \o <<new, new>> IN
        \/ /\ backend_state = "NONE"
           /\ Tail(queue) = <<new, new>> /\ Head(queue) = current_password
        \/ /\ backend_state # "NONE"
           /\ Tail(queue) = <<new>> /\ Head(queue) = new
    <3>1. CASE backend_state = "NONE" /\ stdin_queue = <<current_password>>
      <4> DEFINE queue == <<current_password>> \o <<new, new>>
      <4>1. Head(queue) = current_password
        OBVIOUS
      <4>2. Tail(queue) = <<new, new>>
        BY TailOfThree
      <4> QED BY <3>1, <4>1, <4>2
    <3>2. CASE backend_state # "NONE" /\ stdin_queue = <<>>
      <4>1. stdin_queue \o <<new, new>> = <<new, new>>
        BY <3>2, ShortSequences
      <4>2. Tail(<<new, new>>) = <<new>> /\ Head(<<new, new>>) = new
        BY ShortSequences
      <4> QED BY <3>2, <4>1, <4>2
    <3> QED BY <2>2, <3>1, <3>2
  <2>4. \/ /\ backend_state = "NONE" /\ stdin_queue' = <<new, new>>
           /\ stdin_pipe' = Append(stdin_pipe, current_password)
        \/ /\ backend_state # "NONE" /\ stdin_queue' = <<new>>
           /\ stdin_pipe' = Append(stdin_pipe, new)
    BY <2>1, <2>3 DEF ChangeInSession
  <2>5. /\ Len(stdin_pipe) \in Nat /\ Len(stdin_pipe') = Len(stdin_pipe) + 1
        /\ \A i \in 1 .. Len(stdin_pipe) : stdin_pipe'[i] = stdin_pipe[i]
        /\ stdin_pipe' # <<>>
        /\ backend_state # "NONE" => stdin_pipe'[Len(stdin_pipe) + 1] = new
    <3>1. stdin_pipe \in Seq(Answers) /\ new \in Answers /\ current_password \in Answers
      BY PipeTypes DEF Answers, TypeOK, ValuesOK
    <3> QED BY <2>4, <3>1, WriteFacts
  <2>6. backend_state = "NONE" => stdin_pipe' = <<current_password>>
    BY <2>2, <2>4, ShortSequences
  <2>7. AnswersFit'
    <3>1. ToAsk = 1 /\ ToAsk' = 0 /\ ToWrite' = ToWrite /\ Needed' = Needed
      BY <1>1 DEF ToAsk, ToWrite, Needed
    <3> QED BY <1>1, <2>1, <2>5, <3>1, ToCount DEF AnswersFit
  <2>8. QueueOK'
    BY <1>1, <2>1, <2>4 DEF QueueOK
  <2>9. FirstAnswerDue'
    BY <1>1, <2>1, <2>6 DEF FirstAnswerDue, AuthSessionOK
  <2>10. FirstAnswerJudged'
    <3>1. stdin_pipe # <<>> => 1 \in 1 .. Len(stdin_pipe)
      BY <2>5, PipeTypes
    <3> QED BY <1>1, <2>5, <3>1 DEF FirstAnswerJudged
  <2>11. PipeOK'
    <3>1. phase \notin Committed /\ phase # "asks_retype"
          /\ (phase # "exited_err" => stdin_pipe = <<>> \/ stdin_pipe = <<current_password>>)
      BY <2>1 DEF AuthSessionOK, Committed
    <3>2. ASSUME phase # "exited_err", NEW i \in 2 .. Len(stdin_pipe')
          PROVE  stdin_pipe'[i] = new
      <4>1. Len(stdin_pipe) <= 1
        <5>1. stdin_pipe = <<>> => Len(stdin_pipe) = 0
          OBVIOUS
        <5>2. stdin_pipe = <<current_password>> => Len(stdin_pipe) = 1
          OBVIOUS
        <5> QED BY <2>5, <3>1, <3>2, <5>1, <5>2
      <4>2. backend_state # "NONE" /\ i = Len(stdin_pipe) + 1
        BY <2>2, <2>5, <3>2, <4>1
      <4> QED BY <2>5, <4>2
    <3> QED BY <1>1, <3>1, <3>2 DEF PipeOK
  <2> QED BY <1>2, <1>3, <1>4, <1>5, <2>7, <2>8, <2>9, <2>10, <2>11
<1> QED BY <1>6, <1>7

\* passwd_change_password by a caller that holds the current password for right.
LEMMA PasswdChangePasswordInv ==
  ASSUME ReportInv, old_password_ok, NEW new \in Passwords, PasswdChangePassword(new),
         UNCHANGED old_password_ok
  PROVE  DialogueInv'
<1>1. /\ pending = None /\ pending' = new
      /\ UNCHANGED <<current_password, auth_cb, str, account>>
      /\ IF NeedsRestart THEN ChangeFromRestart(new) ELSE ChangeInSession(new)
  BY DEF PasswdChangePassword
<1> QED BY <1>1, ChangeFromRestartInv, ChangeInSessionInv

-----------------------------------------------------------------------------
(***************************************************************************)
(* The watches of the main loop keep the invariant.                        *)
(***************************************************************************)

\* What every branch of io_watch_stdout has in common: n fragments are read, and
\* become the text together with what the buffer held.
Reading(n, text) ==
  /\ running
  /\ n \in 1 .. Len(stdout_pipe)
  /\ stdout_pipe' = SubSeq(stdout_pipe, n + 1, Len(stdout_pipe))
  /\ text = str \cup UNION {stdout_pipe[i] : i \in 1 .. n}
  /\ UNCHANGED <<current_password, phase, verified, typed, account>>
  /\ UNCHANGED <<running, auth_cb, chpasswd_cb>>

\* The words of the text, and what is left to read.
LEMMA ReadingFacts ==
  ASSUME TypeOK, NEW n, NEW text, Reading(n, text)
  PROVE  /\ n \in Nat /\ n >= 1 /\ n <= Len(stdout_pipe) /\ Len(stdout_pipe) \in Nat
         /\ stdout_pipe # <<>> /\ Len(stdout_pipe') = Len(stdout_pipe) - n
         /\ \A i \in 1 .. Len(stdout_pipe') :
              i + n \in 1 .. Len(stdout_pipe) /\ stdout_pipe'[i] = stdout_pipe[i + n]
         /\ \A words : Has(stdout_pipe', words) => Has(stdout_pipe, words)
         /\ \A i \in 1 .. n : i \in 1 .. Len(stdout_pipe) /\ stdout_pipe[i] \subseteq text
         /\ str \subseteq text
         /\ \A word \in text : word \in str \/ \E i \in 1 .. n : word \in stdout_pipe[i]
         /\ Len(stdout_pipe) = n => stdout_pipe' = <<>>
<1>1. /\ stdout_pipe \in Seq(Fragments) /\ n \in 1 .. Len(stdout_pipe)
      /\ stdout_pipe' = SubSeq(stdout_pipe, n + 1, Len(stdout_pipe))
  BY PipeTypes DEF Reading
<1>2. /\ n \in Nat /\ n >= 1 /\ n <= Len(stdout_pipe) /\ Len(stdout_pipe) \in Nat
      /\ stdout_pipe # <<>>
  BY <1>1
<1>3. /\ Len(stdout_pipe') = Len(stdout_pipe) - n
      /\ \A i \in 1 .. Len(stdout_pipe') :
           i + n \in 1 .. Len(stdout_pipe) /\ stdout_pipe'[i] = stdout_pipe[i + n]
  BY <1>1, ReadFacts
<1>4. \A words : Has(stdout_pipe', words) => Has(stdout_pipe, words)
  BY <1>3 DEF Has
<1>5. text = str \cup UNION {stdout_pipe[i] : i \in 1 .. n}
  BY DEF Reading
<1>6. \A i \in 1 .. n : i \in 1 .. Len(stdout_pipe) /\ stdout_pipe[i] \subseteq text
  BY <1>2, <1>5
<1>7. str \subseteq text
  BY <1>5
<1>8. \A word \in text : word \in str \/ \E i \in 1 .. n : word \in stdout_pipe[i]
  BY <1>5
<1>9. Len(stdout_pipe) = n => stdout_pipe' = <<>>
  BY <1>1, SubSeqEmpty
<1> QED BY <1>2, <1>3, <1>4, <1>6, <1>7, <1>8, <1>9

\* Reading a whole prompt, or the first part of the prompt for a new password.
LEMMA ReadingPrompt ==
  ASSUME TypeOK, NEW n, NEW text, Reading(n, text)
  PROVE  /\ stdout_pipe = Prompt => "assword" \in text /\ stdout_pipe' = <<>>
         /\ stdout_pipe = NewPrompt =>
              \/ n = 1 /\ stdout_pipe' = Prompt
              \/ "assword" \in text /\ stdout_pipe' = <<>>
<1>1. stdout_pipe = Prompt => "assword" \in text /\ stdout_pipe' = <<>>
  <2> SUFFICES ASSUME stdout_pipe = Prompt PROVE "assword" \in text /\ stdout_pipe' = <<>>
    OBVIOUS
  <2>1. Len(stdout_pipe) = 1 /\ "assword" \in stdout_pipe[1]
    BY MessageFacts
  <2>2. n = 1
    BY <2>1, ReadingFacts
  <2> QED BY <2>1, <2>2, ReadingFacts
<1>2. ASSUME stdout_pipe = NewPrompt
      PROVE  \/ n = 1 /\ stdout_pipe' = Prompt
             \/ "assword" \in text /\ stdout_pipe' = <<>>
  <2>1. Len(stdout_pipe) = 2 /\ "assword" \in stdout_pipe[2] /\ stdout_pipe # <<>>
    BY <1>2, MessageFacts, ReadingFacts
  <2>2. n = 1 \/ n = 2
    BY <2>1, ReadingFacts
  <2>3. CASE n = 1
    <3>1. stdout_pipe \in Seq(Fragments) /\ stdout_pipe' = SubSeq(stdout_pipe, 2, Len(stdout_pipe))
      BY <2>3, PipeTypes DEF Reading
    <3>2. stdout_pipe' = Tail(stdout_pipe)
      BY <2>1, <3>1, TailIsSubSeq
    <3> QED BY <1>2, <2>3, <3>2, MessageFacts
  <2>4. CASE n = 2
    BY <2>1, <2>4, ReadingFacts
  <2> QED BY <2>2, <2>3, <2>4
<1> QED BY <1>1, <1>2

\* What holds after any branch: there is a backend, and what passwd has said and
\* nobody has read is as it was, but for its beginning.
LEMMA ReadingFrame ==
  ASSUME ReportInv, NEW n, NEW text, Reading(n, text)
  PROVE  /\ Backend /\ Backend' /\ WatchedOK' /\ OutputOK' /\ Needed' = Needed
         /\ "incorrect" \notin text
<1> USE DEF ReportInv, DialogueInv
<1>1. Backend /\ Backend' /\ UNCHANGED phase
  BY DEF WatchedOK, Backend, Reading
<1>2. WatchedOK' /\ Needed' = Needed
  BY <1>1 DEF WatchedOK, Needed, Reading
<1>3. OutputOK'
  <2>1. ASSUME NEW i \in 1 .. Len(stdout_pipe')
        PROVE  /\ "incorrect" \notin stdout_pipe'[i]
               /\ "success" \in stdout_pipe'[i] => phase \in {"reported", "exited_ok"}
    <3>1. i + n \in 1 .. Len(stdout_pipe) /\ stdout_pipe'[i] = stdout_pipe[i + n]
      BY ReadingFacts
    <3> QED BY <3>1 DEF OutputOK
  <2>2. ASSUME NEW i \in 1 .. Len(stdout_pipe'),
               stdout_pipe'[i] \cap {"error", "failure"} # {}
        PROVE  /\ phase = "exited_err"
               /\ \A j \in i + 1 .. Len(stdout_pipe') : stdout_pipe'[j] = {"unchanged"}
    <3>1. /\ i + n \in 1 .. Len(stdout_pipe) /\ n \in Nat
          /\ stdout_pipe[i + n] \cap {"error", "failure"} # {}
      BY <2>2, ReadingFacts
    <3>2. /\ phase = "exited_err"
          /\ \A j \in i + n + 1 .. Len(stdout_pipe) : stdout_pipe[j] = {"unchanged"}
      BY <3>1 DEF OutputOK
    <3>3. ASSUME NEW j \in i + 1 .. Len(stdout_pipe')
          PROVE  stdout_pipe'[j] = {"unchanged"}
      <4>1. j \in 1 .. Len(stdout_pipe') /\ j + n \in i + n + 1 .. Len(stdout_pipe)
        BY <3>1, ReadingFacts
      <4> QED BY <3>2, <4>1, ReadingFacts
    <3> QED BY <3>2, <3>3
  <2> QED BY <1>1, <2>1, <2>2 DEF OutputOK
<1>4. "incorrect" \notin text
  BY ReadingFacts DEF OutputOK, BufferOK
<1> QED BY <1>1, <1>2, <1>3, <1>4

\* What the callbacks do to the caller's flag.
LEMMA CallbackFacts ==
  ASSUME Callback
  PROVE  /\ called' = NoCall => old_password_ok' = old_password_ok
         /\ (\/ called' = ChangeCall("none") \/ called' = ChangeCall("AUTH_FAILED")
             \/ called' = AuthCall("AUTH_FAILED")) => ~old_password_ok'
         /\ called' = ChangeCall("REJECTED") => (old_password_ok' => old_password_ok)
<1>1. called' = NoCall => old_password_ok' = old_password_ok
  BY DEF Callback, NoCall
<1>2. ASSUME called' = ChangeCall("none") \/ called' = ChangeCall("AUTH_FAILED")
      PROVE  ~old_password_ok'
  <2>1. called'.cb = "chpasswd" /\ called'.error # "REJECTED"
    BY <1>2 DEF ChangeCall
  <2>2. old_password_ok' = (old_password_ok /\ called'.error = "REJECTED")
    BY <2>1 DEF Callback
  <2> QED BY <2>1, <2>2
<1>3. ASSUME called' = AuthCall("AUTH_FAILED") PROVE ~old_password_ok'
  <2>1. called'.cb = "auth" /\ called'.error # "none"
    BY <1>3 DEF AuthCall
  <2>2. old_password_ok' = (called'.error = "none")
    BY <2>1 DEF Callback
  <2> QED BY <2>1, <2>2
<1>4. ASSUME called' = ChangeCall("REJECTED") PROVE old_password_ok' => old_password_ok
  <2>1. called'.cb = "chpasswd"
    BY <1>4 DEF ChangeCall
  <2>2. old_password_ok' = (old_password_ok /\ called'.error = "REJECTED")
    BY <2>1 DEF Callback
  <2> QED BY <2>2
<1> QED BY <1>1, <1>2, <1>3, <1>4

\* Text that is kept in the buffer: nothing else changes but what is left to read.
LEMMA KeptInv ==
  ASSUME ReportInv, NEW n, NEW text, Reading(n, text), Callback, Call(NoCall),
         UNCHANGED <<backend_state, stdin_queue, stdin_pipe>>,
         BufferOK', NoCurrentOK', AuthSessionOK', FirstAnswerDue'
  PROVE  DialogueInv'
<1> USE DEF ReportInv, DialogueInv
<1>1. /\ Backend /\ Backend' /\ WatchedOK' /\ OutputOK' /\ Needed' = Needed
      /\ UNCHANGED <<current_password, phase, verified, typed, account, pending>>
      /\ UNCHANGED <<backend_state, stdin_queue, stdin_pipe>>
  BY ReadingFrame DEF Reading, Call, NoCall
<1>2. UNCHANGED <<running, auth_cb, chpasswd_cb, old_password_ok>>
  BY CallbackFacts DEF Reading, Call
<1>3. \A words : Has(stdout_pipe', words) => Has(stdout_pipe, words)
  BY ReadingFacts
<1>4. AnswersFit' /\ Concluded'
  <2>1. ToWrite' = ToWrite /\ ToAsk' = ToAsk
    BY <1>1 DEF ToWrite, ToAsk
  <2> QED BY <1>1, <1>3, <2>1 DEF AnswersFit, Concluded, InDialogue
<1>5. QueueOK' /\ PipeOK'
  BY <1>1 DEF QueueOK, PipeOK
<1>6. FirstAnswerJudged'
  BY <1>1, <1>3 DEF FirstAnswerJudged
<1>7. CallerOK'
  BY <1>1, <1>2, <1>3 DEF CallerOK, InDialogue
<1> QED BY <1>1, <1>4, <1>5, <1>6, <1>7

\* What the first prompt finds.  In a session without a request it is the prompt for
\* the current password; a change without a current password has the word that tells
\* so in the text; and one with it has not had a whole prompt before.
LEMMA FirstPromptFacts ==
  ASSUME ReportInv, NEW n, NEW text, Reading(n, text), backend_state = "NONE"
  PROVE  /\ pending = None =>
              /\ current_password # None /\ "assword" \in text /\ phase = "asks_current"
              /\ stdin_queue = <<current_password>> /\ stdin_pipe = <<>> /\ stdout_pipe' = <<>>
              /\ ~chpasswd_cb
         /\ current_password = None =>
              account = None /\ phase = "asks_new" /\ "new" \in text
         /\ (pending # None /\ current_password # None) =>
              /\ "assword" \in text /\ stdin_queue = <<pending, pending>>
              /\ \/ /\ phase = "asks_current" /\ stdout_pipe' = <<>>
                    /\ stdin_pipe = <<current_password>>
                 \/ phase = "asks_new" /\ verified = current_password
                 \/ phase = "exited_err" /\ ~Has(stdout_pipe', {"assword"})
<1> USE DEF ReportInv, DialogueInv
<1>1. Backend /\ InDialogue /\ stdout_pipe # <<>>
  BY ReadingFrame, ReadingFacts DEF InDialogue
<1>2. ASSUME pending = None
      PROVE  /\ current_password # None /\ "assword" \in text /\ phase = "asks_current"
             /\ stdin_queue = <<current_password>> /\ stdin_pipe = <<>> /\ stdout_pipe' = <<>>
             /\ ~chpasswd_cb
  <2>1. /\ current_password # None /\ stdout_pipe = Prompt /\ phase = "asks_current"
        /\ stdin_queue = <<current_password>> /\ stdin_pipe = <<>>
    BY <1>1, <1>2 DEF AuthSessionOK
  <2>2. ~chpasswd_cb
    BY <1>1, <1>2 DEF CallerOK
  <2> QED BY <2>1, <2>2, ReadingPrompt
<1>3. ASSUME current_password = None
      PROVE  account = None /\ phase = "asks_new" /\ "new" \in text
  <2>1. /\ account = None /\ phase = "asks_new"
        /\ "new" \in str \/ "new" \in stdout_pipe[1]
    BY <1>1, <1>3 DEF NoCurrentOK
  <2>2. 1 \in 1 .. n
    BY ReadingFacts
  <2> QED BY <2>1, <2>2, ReadingFacts
<1>4. ASSUME pending # None, current_password # None
      PROVE  /\ "assword" \in text /\ stdin_queue = <<pending, pending>>
             /\ \/ /\ phase = "asks_current" /\ stdout_pipe' = <<>>
                   /\ stdin_pipe = <<current_password>>
                \/ phase = "asks_new" /\ verified = current_password
                \/ phase = "exited_err" /\ ~Has(stdout_pipe', {"assword"})
  <2>1. stdin_queue = <<pending, pending>>
    BY <1>1, <1>4 DEF QueueOK
  <2>2. CASE stdout_pipe = Prompt /\ phase = "asks_current" /\ stdin_pipe = <<current_password>>
    BY <2>1, <2>2, ReadingPrompt
  <2>3. CASE /\ stdout_pipe[1] = {"assword"}
             /\ \/ phase = "asks_new" /\ verified = current_password
                \/ /\ phase = "exited_err"
                   /\ \A i \in 2 .. Len(stdout_pipe) : "assword" \notin stdout_pipe[i]
    <3>1. "assword" \in text
      <4>1. 1 \in 1 .. n
        BY ReadingFacts
      <4> QED BY <2>3, <4>1, ReadingFacts
    <3>2. ASSUME \A i \in 2 .. Len(stdout_pipe) : "assword" \notin stdout_pipe[i]
          PROVE  ~Has(stdout_pipe', {"assword"})
      <4>1. ASSUME NEW i \in 1 .. Len(stdout_pipe') PROVE "assword" \notin stdout_pipe'[i]
        <5>1. i + n \in 2 .. Len(stdout_pipe) /\ stdout_pipe'[i] = stdout_pipe[i + n]
          BY ReadingFacts
        <5> QED BY <3>2, <5>1
      <4> QED BY <4>1 DEF Has
    <3> QED BY <2>1, <2>3, <3>1, <3>2
  <2> QED BY <1>1, <1>4, <2>2, <2>3 DEF FirstAnswerDue
<1> QED BY <1>2, <1>3, <1>4

\* What is popped, from the queues that are met.
LEMMA PopFacts ==
  ASSUME NEW pipe
  PROVE  /\ Popped(<<>>) = <<>> /\ IoQueuePop(<<>>, pipe) = pipe
         /\ \A x : Popped(<<x>>) = <<>> /\ IoQueuePop(<<x>>, pipe) = Append(pipe, x)
         /\ \A x, y : Popped(<<x, y>>) = <<y>> /\ IoQueuePop(<<x, y>>, pipe) = Append(pipe, x)
         /\ \A x, y, z : Popped(<<x, y, z>>) = <<y, z>>
<1>1. Popped(<<>>) = <<>> /\ IoQueuePop(<<>>, pipe) = pipe
  BY DEF Popped, IoQueuePop
<1>2. ASSUME NEW x
      PROVE  Popped(<<x>>) = <<>> /\ IoQueuePop(<<x>>, pipe) = Append(pipe, x)
  <2>1. <<x>> # <<>> /\ Tail(<<x>>) = <<>> /\ Head(<<x>>) = x
    BY ShortSequences
  <2> QED BY <2>1 DEF Popped, IoQueuePop
<1>3. ASSUME NEW x, NEW y
      PROVE  Popped(<<x, y>>) = <<y>> /\ IoQueuePop(<<x, y>>, pipe) = Append(pipe, x)
  <2>1. <<x, y>> # <<>> /\ Tail(<<x, y>>) = <<y>> /\ Head(<<x, y>>) = x
    BY ShortSequences
  <2> QED BY <2>1 DEF Popped, IoQueuePop
<1>4. ASSUME NEW x, NEW y, NEW z PROVE Popped(<<x, y, z>>) = <<y, z>>
  <2>1. <<x, y, z>> # <<>> /\ Tail(<<x, y, z>>) = <<y, z>>
    BY ShortSequences
  <2> QED BY <2>1 DEF Popped
<1> QED BY <1>1, <1>2, <1>3, <1>4

\* A prompt was taken for one that an answer is due to: the handler goes on to the
\* next state, and writes at most one answer, the new password if one is asked for.
Prompted ==
  /\ str' = {}
  /\ \/ backend_state = "NONE" /\ backend_state' \in {"AUTH", "NEW"}
     \/ backend_state = "NEW" /\ backend_state' = "RETYPE"
  /\ \/ stdin_pipe' = stdin_pipe
     \/ \E x \in Answers : /\ stdin_pipe' = Append(stdin_pipe, x)
                           /\ pending # None => x = pending

\* The handler's count of answers goes down with each that it writes.
LEMMA PromptedInv ==
  ASSUME ReportInv, NEW n, NEW text, Reading(n, text), Call(NoCall), Prompted
  PROVE  AnswersFit' /\ Concluded' /\ BufferOK' /\ PipeOK'
<1> USE DEF ReportInv, DialogueInv
<1>1. /\ Backend /\ Backend' /\ Needed' = Needed
      /\ UNCHANGED <<phase, typed, pending>>
  BY ReadingFrame DEF Reading, Call, NoCall
<1>2. /\ stdin_pipe' \in Seq(Answers)
      /\ Len(stdin_pipe) \in Nat /\ Len(stdin_pipe') \in Nat
      /\ Len(stdin_pipe') <= Len(stdin_pipe) + 1
      /\ \A i \in 1 .. Len(stdin_pipe) : stdin_pipe'[i] = stdin_pipe[i]
      /\ \A i \in 1 .. Len(stdin_pipe') :
           (i \notin 1 .. Len(stdin_pipe) /\ pending # None) => stdin_pipe'[i] = pending
  <2>1. CASE stdin_pipe' = stdin_pipe
    BY <2>1, PipeTypes
  <2>2. ASSUME NEW x \in Answers, stdin_pipe' = Append(stdin_pipe, x),
               pending # None => x = pending
        PROVE  <1>2
    <3>1. /\ stdin_pipe' \in Seq(Answers)
          /\ Len(stdin_pipe) \in Nat /\ Len(stdin_pipe') = Len(stdin_pipe) + 1
          /\ \A i \in 1 .. Len(stdin_pipe) : stdin_pipe'[i] = stdin_pipe[i]
          /\ stdin_pipe'[Len(stdin_pipe) + 1] = x
      BY <2>2, PipeTypes, WriteFacts
    <3>2. \A i \in 1 .. Len(stdin_pipe') :
            i \notin 1 .. Len(stdin_pipe) => i = Len(stdin_pipe) + 1
      BY <3>1
    <3> QED BY <2>2, <3>1, <3>2
  <2> QED BY <2>1, <2>2 DEF Prompted
<1>3. InDialogue /\ ToWrite \in Nat /\ ToWrite' \in Nat /\ ToWrite' + 1 = ToWrite
      /\ ToAsk' = ToAsk /\ ToAsk \in Nat
  BY <1>1 DEF Prompted, InDialogue, ToWrite, ToAsk
<1>4. AnswersFit'
  <2>1. SUFFICES ASSUME phase # "exited_err" PROVE AnswersFit'
    BY <1>1 DEF AnswersFit
  <2>2. Needed \in Nat
    BY DEF Needed
  <2>3. /\ Len(stdin_pipe) + ToWrite + ToAsk <= Needed
        /\ Has(stdout_pipe, Refusals) => Len(stdin_pipe) + ToWrite + ToAsk < Needed
    BY <1>3, <2>1 DEF AnswersFit
  <2>4. Len(stdin_pipe') + ToWrite' + ToAsk' <= Len(stdin_pipe) + ToWrite + ToAsk
    <3>1. Len(stdin_pipe) \in Nat /\ Len(stdin_pipe') \in Nat
          /\ Len(stdin_pipe') <= Len(stdin_pipe) + 1
      BY <1>2
    <3>2. ToWrite \in Nat /\ ToWrite' \in Nat /\ ToWrite = ToWrite' + 1
      BY <1>3
    <3>3. ToAsk' = ToAsk /\ ToAsk \in Nat
      BY <1>3
    <3> QED BY <3>1, <3>2, <3>3
  <2>5. /\ Len(stdin_pipe') + ToWrite' + ToAsk' <= Needed
        /\ Has(stdout_pipe, Refusals) => Len(stdin_pipe') + ToWrite' + ToAsk' < Needed
    BY <1>2, <1>3, <2>2, <2>3, <2>4
  <2>6. Has(stdout_pipe', Refusals) => Has(stdout_pipe, Refusals)
    BY ReadingFacts
  <2> QED BY <1>1, <2>5, <2>6 DEF AnswersFit
<1>5. Concluded'
  BY DEF Prompted, Concluded
<1>6. BufferOK'
  <2>1. str' = {} /\ backend_state' \in {"AUTH", "NEW", "RETYPE"}
    BY DEF Prompted
  <2> QED BY <2>1 DEF BufferOK
<1>7. PipeOK'
  <2> SUFFICES ASSUME pending # None, phase # "exited_err" PROVE PipeOK'
    BY <1>1 DEF PipeOK
  <2>1. /\ \A i \in 2 .. Len(stdin_pipe) : stdin_pipe[i] = pending
        /\ (phase = "asks_retype" /\ stdin_pipe # <<>>) => stdin_pipe[1] = pending
        /\ phase \in Committed => typed = pending
    BY <1>1 DEF PipeOK
  <2>2. \A i \in 2 .. Len(stdin_pipe') : stdin_pipe'[i] = pending
    BY <1>2, <2>1
  <2>3. (phase = "asks_retype" /\ stdin_pipe' # <<>>) => stdin_pipe'[1] = pending
    <3>1. stdin_pipe' # <<>> => 1 \in 1 .. Len(stdin_pipe')
      BY <1>2
    <3>2. 1 \in 1 .. Len(stdin_pipe) => stdin_pipe # <<>>
      BY PipeTypes
    <3> QED BY <1>2, <2>1, <3>1, <3>2
  <2> QED BY <1>1, <2>1, <2>2, <2>3 DEF PipeOK
<1> QED BY <1>4, <1>5, <1>6, <1>7

\* PASSWD_STATE_NONE: the first prompt.
LEMMA ReadInNoneInv ==
  ASSUME ReportInv, NEW n, NEW text, Reading(n, text), Callback, ReadInNone(text)
  PROVE  DialogueInv'
<1> USE DEF ReportInv, DialogueInv
<1>1. /\ backend_state = "NONE" /\ Backend /\ Backend' /\ WatchedOK' /\ OutputOK'
      /\ Call(NoCall) /\ InDialogue
      /\ UNCHANGED <<current_password, phase, verified, typed, account, pending>>
  BY ReadingFrame DEF ReadInNone, Reading, Call, NoCall, InDialogue
<1>2. UNCHANGED <<running, auth_cb, chpasswd_cb, old_password_ok>>
  BY <1>1, CallbackFacts DEF Reading, Call
<1>3. CASE "assword" \notin text
  <2>1. str' = text /\ UNCHANGED <<backend_state, stdin_queue, stdin_pipe>>
    BY <1>3 DEF ReadInNone, IsStringComplete
  <2>2. current_password = None /\ pending # None /\ account = None
        /\ phase = "asks_new" /\ "new" \in text
    BY <1>1, <1>3, FirstPromptFacts
  <2>3. BufferOK'
    BY <1>1, <2>1, ReadingFrame DEF BufferOK
  <2>4. NoCurrentOK' /\ AuthSessionOK' /\ FirstAnswerDue'
    BY <1>1, <2>1, <2>2 DEF NoCurrentOK, AuthSessionOK, FirstAnswerDue
  <2> QED BY <1>1, <2>1, <2>3, <2>4, KeptInv
<1>4. CASE "assword" \in text /\ "new" \in text
  <2>1. /\ str' = {} /\ backend_state' = "NEW"
        /\ stdin_queue' = Popped(Popped(stdin_queue))
        /\ stdin_pipe' = IoQueuePop(Popped(stdin_queue), stdin_pipe)
    BY <1>4 DEF ReadInNone, IsStringComplete
  <2>2. \/ /\ pending = None /\ current_password # None /\ phase = "asks_current"
           /\ stdin_queue = <<current_password>> /\ stdin_pipe = <<>> /\ stdout_pipe' = <<>>
        \/ pending # None /\ current_password = None /\ stdin_queue = <<None, pending, pending>>
        \/ pending # None /\ current_password # None /\ stdin_queue = <<pending, pending>>
    BY <1>1, FirstPromptFacts DEF QueueOK
  <2>3. \/ pending = None /\ stdin_queue' = <<>> /\ stdin_pipe' = stdin_pipe
        \/ /\ pending # None /\ (stdin_queue' = <<pending>> \/ stdin_queue' = <<>>)
           /\ stdin_pipe' = Append(stdin_pipe, pending)
    <3>1. CASE pending = None /\ stdin_queue = <<current_password>>
      BY <2>1, <3>1, PopFacts
    <3>2. CASE pending # None /\ stdin_queue = <<None, pending, pending>>
      <4>1. Popped(stdin_queue) = <<pending, pending>>
        BY <3>2, PopFacts
      <4>2. /\ Popped(<<pending, pending>>) = <<pending>>
            /\ IoQueuePop(<<pending, pending>>, stdin_pipe) = Append(stdin_pipe, pending)
        BY PopFacts
      <4> QED BY <2>1, <3>2, <4>1, <4>2
    <3>3. CASE pending # None /\ stdin_queue = <<pending, pending>>
      BY <2>1, <3>3, PopFacts
    <3> QED BY <2>2, <3>1, <3>2, <3>3
  <2>4. Prompted
    <3>1. pending \in Answers
      BY DEF TypeOK, ValuesOK, Answers
    <3> QED BY <1>1, <2>1, <2>3, <3>1 DEF Prompted
  <2>5. AnswersFit' /\ Concluded' /\ BufferOK' /\ PipeOK'
    BY <1>1, <2>4, PromptedInv
  <2>6. QueueOK'
    BY <1>1, <2>1, <2>3 DEF QueueOK
  <2>7. AuthSessionOK'
    BY <1>1, <2>1, <2>2, <2>3 DEF AuthSessionOK
  <2>8. NoCurrentOK' /\ FirstAnswerDue' /\ FirstAnswerJudged'
    BY <2>1 DEF NoCurrentOK, FirstAnswerDue, FirstAnswerJudged
  <2>9. CallerOK'
    BY <1>1, <1>2, <2>1, <2>3 DEF CallerOK
  <2> QED BY <1>1, <2>5, <2>6, <2>7, <2>8, <2>9
<1>5. CASE "assword" \in text /\ "new" \notin text
  <2>1. /\ str' = {} /\ backend_state' = "AUTH"
        /\ stdin_queue' = Popped(stdin_queue)
        /\ stdin_pipe' = IoQueuePop(stdin_queue, stdin_pipe)
    BY <1>5 DEF ReadInNone, IsStringComplete, PopToBackend
  <2>2. /\ current_password # None
        /\ \/ /\ pending = None /\ phase = "asks_current" /\ ~chpasswd_cb
              /\ stdin_queue = <<current_password>> /\ stdin_pipe = <<>> /\ stdout_pipe' = <<>>
           \/ /\ pending # None /\ stdin_queue = <<pending, pending>>
              /\ \/ /\ phase = "asks_current" /\ stdout_pipe' = <<>>
                    /\ stdin_pipe = <<current_password>>
                 \/ phase = "asks_new" /\ verified = current_password
                 \/ phase = "exited_err" /\ ~Has(stdout_pipe', {"assword"})
    BY <1>1, <1>5, FirstPromptFacts
  <2>3. \/ /\ pending = None /\ stdin_queue' = <<>>
           /\ stdin_pipe' = Append(stdin_pipe, current_password)
        \/ /\ pending # None /\ stdin_queue' = <<pending>>
           /\ stdin_pipe' = Append(stdin_pipe, pending)
    <3>1. CASE pending = None /\ stdin_queue = <<current_password>>
      BY <2>1, <3>1, PopFacts
    <3>2. CASE pending # None /\ stdin_queue = <<pending, pending>>
      BY <2>1, <3>2, PopFacts
    <3> QED BY <2>2, <3>1, <3>2
  <2>0. pending \in Answers /\ current_password \in Answers
    BY DEF TypeOK, ValuesOK, Answers
  <2>4. Prompted
    BY <1>1, <2>1, <2>3, <2>0 DEF Prompted
  <2>5. AnswersFit' /\ Concluded' /\ BufferOK' /\ PipeOK'
    BY <1>1, <2>4, PromptedInv
  <2>6. QueueOK'
    BY <1>1, <2>1, <2>3 DEF QueueOK
  <2>7. AuthSessionOK'
    <3>1. pending = None => stdin_pipe' = <<current_password>>
      BY <2>2, <2>3, ShortSequences
    <3> QED BY <1>1, <2>1, <2>2, <2>3, <3>1 DEF AuthSessionOK
  <2>8. NoCurrentOK' /\ FirstAnswerDue'
    BY <1>1, <2>1, <2>2 DEF NoCurrentOK, FirstAnswerDue
  <2>9. FirstAnswerJudged'
    <3>1. CASE phase = "asks_current"
      <4>1. stdout_pipe' = <<>>
        BY <2>2, <3>1
      <4>2. ~Has(stdout_pipe', {"assword"})
        BY <4>1 DEF Has
      <4>3. stdin_pipe' # <<>> /\ stdin_pipe'[1] = current_password
        <5>1. CASE pending = None
          <6>1. stdin_pipe' = <<current_password>>
            BY <2>2, <2>3, <5>1, ShortSequences
          <6> QED BY <6>1, ShortSequences
        <5>2. CASE pending # None
          <6>1. stdin_pipe = <<current_password>> /\ stdin_pipe' = Append(stdin_pipe, pending)
            BY <2>2, <2>3, <3>1, <5>2
          <6>2. 1 \in 1 .. Len(stdin_pipe) /\ stdin_pipe[1] = current_password
            BY <6>1
          <6> QED BY <2>0, <6>1, <6>2, PipeTypes, WriteFacts
        <5> QED BY <5>1, <5>2
      <4> QED BY <1>1, <3>1, <4>2, <4>3 DEF FirstAnswerJudged
    <3>2. CASE phase # "asks_current"
      BY <1>1, <2>2, <3>2 DEF FirstAnswerJudged
    <3> QED BY <3>1, <3>2
  <2>10. CallerOK'
    BY <1>1, <1>2, <2>1, <2>2, <2>3 DEF CallerOK
  <2> QED BY <1>1, <2>5, <2>6, <2>7, <2>8, <2>9, <2>10
<1> QED BY <1>3, <1>4, <1>5

\* PASSWD_STATE_AUTH, accepted: a new prompt means that passwd has taken the current
\* password for right.
LEMMA AcceptedFacts ==
  ASSUME ReportInv, NEW n, NEW text, Reading(n, text), backend_state = "AUTH",
         "assword" \in text
  PROVE  /\ current_password # None /\ verified = current_password
         /\ phase \notin {"starting", "asks_current"}
         /\ pending = None => /\ phase = "asks_new" /\ stdin_pipe = <<>> /\ stdin_queue = <<>>
                              /\ stdout_pipe' = <<>>
<1> USE DEF ReportInv, DialogueInv
<1>1. Backend /\ InDialogue
  BY ReadingFrame DEF InDialogue
<1>2. current_password # None
  BY <1>1 DEF NoCurrentOK
<1>3. PICK i \in 1 .. n : "assword" \in stdout_pipe[i]
  BY ReadingFacts DEF BufferOK, AuthKeywords
<1>4. Has(stdout_pipe, {"assword"})
  BY <1>3, ReadingFacts DEF Has
<1>5. verified = current_password /\ phase \notin {"starting", "asks_current"}
  BY <1>1, <1>4 DEF FirstAnswerJudged
<1>6. ASSUME pending = None
      PROVE  /\ phase = "asks_new" /\ stdin_pipe = <<>> /\ stdin_queue = <<>>
             /\ stdout_pipe' = <<>>
  <2>1. /\ phase = "asks_new" /\ stdin_pipe = <<>> /\ stdin_queue = <<>>
        /\ stdout_pipe = NewPrompt \/ stdout_pipe = Prompt
    BY <1>1, <1>4, <1>5, <1>6, MessageFacts DEF AuthSessionOK
  <2>2. stdout_pipe = NewPrompt => stdout_pipe' = <<>>
    <3> SUFFICES ASSUME stdout_pipe = NewPrompt, n = 1 PROVE FALSE
      BY ReadingPrompt
    <3>1. i = 1 /\ stdout_pipe[1] = {"new"}
      BY MessageFacts
    <3> QED BY <1>3, <3>1
  <2> QED BY <2>1, <2>2, ReadingPrompt
<1> QED BY <1>2, <1>5, <1>6

\* PASSWD_STATE_AUTH, refused: passwd has given up, and nothing it still says is a
\* prompt or a word of refusal of the current password.
LEMMA RefusedFacts ==
  ASSUME ReportInv, NEW n, NEW text, Reading(n, text), backend_state = "AUTH",
         "assword" \notin text, text \cap AuthKeywords # {}
  PROVE  phase = "exited_err" /\ ~Has(stdout_pipe', AuthKeywords)
<1> USE DEF ReportInv, DialogueInv
<1>1. PICK i \in 1 .. n : stdout_pipe[i] \cap {"error", "failure"} # {}
  BY ReadingFacts DEF BufferOK, AuthKeywords
<1>2. i \in 1 .. Len(stdout_pipe)
  BY ReadingFacts
<1>3. phase = "exited_err" /\ \A j \in i + 1 .. Len(stdout_pipe) : stdout_pipe[j] = {"unchanged"}
  BY <1>1, <1>2 DEF OutputOK
<1>4. ASSUME NEW k \in 1 .. Len(stdout_pipe') PROVE stdout_pipe'[k] \cap AuthKeywords = {}
  <2>1. stdout_pipe'[k] = stdout_pipe[k + n] /\ k + n \in i + 1 .. Len(stdout_pipe)
    BY ReadingFacts
  <2> QED BY <1>3, <2>1 DEF AuthKeywords
<1> QED BY <1>3, <1>4 DEF Has

\* PASSWD_STATE_AUTH as a whole.
LEMMA ReadInAuthInv ==
  ASSUME ReportInv, NEW n, NEW text, Reading(n, text), Callback, ReadInAuth(text)
  PROVE  DialogueInv'
<1> USE DEF ReportInv, DialogueInv
<1>1. /\ backend_state = "AUTH" /\ Backend /\ Backend' /\ WatchedOK' /\ OutputOK'
      /\ Needed' = Needed /\ InDialogue /\ current_password # None /\ "incorrect" \notin text
      /\ UNCHANGED <<current_password, phase, verified, typed, account, stdin_queue, stdin_pipe>>
  BY ReadingFrame DEF ReadInAuth, Reading, InDialogue, NoCurrentOK
<1>2. UNCHANGED <<running, auth_cb, chpasswd_cb>>
  BY DEF Reading
<1>3. \A words : Has(stdout_pipe', words) => Has(stdout_pipe, words)
  BY ReadingFacts
<1>4. CASE text \cap AuthKeywords = {}
  <2>1. str' = text /\ Call(NoCall) /\ UNCHANGED backend_state
    BY <1>4 DEF ReadInAuth, IsStringComplete
  <2>2. BufferOK'
    BY <1>1, <1>4, <2>1 DEF BufferOK
  <2>3. NoCurrentOK' /\ FirstAnswerDue'
    BY <1>1, <2>1 DEF NoCurrentOK, FirstAnswerDue
  <2>4. AuthSessionOK'
    <3>1. pending' = pending
      BY <2>1 DEF Call, NoCall
    <3>2. "assword" \notin text
      BY <1>4 DEF AuthKeywords
    <3> QED BY <1>1, <1>3, <2>1, <3>1, <3>2, MessageFacts, ReadingFacts, ReadingPrompt
            DEF AuthSessionOK, InDialogue
  <2> QED BY <1>1, <2>1, <2>2, <2>3, <2>4, KeptInv
<1>5. CASE "assword" \in text
  <2>1. Accepted(text) /\ text \cap AuthKeywords # {}
    BY <1>1, <1>5 DEF Accepted, AuthKeywords
  <2>2. /\ str' = {} /\ backend_state' = "NEW" /\ UNCHANGED pending
    BY <2>1 DEF ReadInAuth, IsStringComplete, Call, NoCall, AuthCall
  <2>3. pending = None => /\ phase = "asks_new" /\ stdin_pipe = <<>> /\ stdin_queue = <<>>
                          /\ stdout_pipe' = <<>>
    BY <1>1, <1>5, AcceptedFacts
  <2>4. AnswersFit' /\ Concluded'
    <3>1. ToWrite' = ToWrite /\ ToAsk' = ToAsk
      BY <1>1, <2>2 DEF ToWrite, ToAsk
    <3> QED BY <1>1, <1>3, <2>2, <3>1 DEF AnswersFit, Concluded
  <2>5. BufferOK'
    BY <2>2 DEF BufferOK
  <2>6. QueueOK' /\ PipeOK'
    BY <1>1, <2>2 DEF QueueOK, PipeOK
  <2>7. AuthSessionOK'
    BY <1>1, <2>2, <2>3 DEF AuthSessionOK
  <2>8. NoCurrentOK' /\ FirstAnswerDue' /\ FirstAnswerJudged'
    BY <1>1, <2>2 DEF NoCurrentOK, FirstAnswerDue, FirstAnswerJudged
  <2>9. CallerOK'
    BY <1>1, <1>2, <2>2, <2>3 DEF CallerOK
  <2> QED BY <1>1, <2>4, <2>5, <2>6, <2>7, <2>8, <2>9
<1>6. CASE "assword" \notin text /\ text \cap AuthKeywords # {}
  <2>1. phase = "exited_err" /\ ~Has(stdout_pipe', AuthKeywords)
    BY <1>1, <1>6, RefusedFacts
  <2>2. /\ str' = {} /\ UNCHANGED backend_state
        /\ Call(IF chpasswd_cb THEN ChangeCall("AUTH_FAILED")
                ELSE IF auth_cb THEN AuthCall("AUTH_FAILED") ELSE NoCall)
    BY <1>6 DEF ReadInAuth, IsStringComplete, Accepted
  <2>3. pending' = None
    <3>1. CASE chpasswd_cb
      BY <2>2, <3>1 DEF Call, ChangeCall
    <3>2. CASE ~chpasswd_cb
      BY <2>2, <3>2 DEF Call, AuthCall, NoCall, ChangeIsFlagged
    <3> QED BY <3>1, <3>2
  <2>4. \/ ~old_password_ok'
        \/ ~chpasswd_cb /\ pending = None /\ old_password_ok' = old_password_ok
    <3>1. CASE chpasswd_cb
      BY <2>2, <3>1, CallbackFacts DEF Call
    <3>2. CASE ~chpasswd_cb /\ auth_cb
      BY <2>2, <3>2, CallbackFacts DEF Call
    <3>3. CASE ~chpasswd_cb /\ ~auth_cb
      <4>1. called' = NoCall
        BY <2>2, <3>3 DEF Call
      <4>2. pending = None
        BY <3>3 DEF ChangeIsFlagged
      <4> QED BY <3>3, <4>1, <4>2, CallbackFacts
    <3> QED BY <3>1, <3>2, <3>3
  <2>5. ~Has(stdout_pipe', {"assword"})
    BY <2>1 DEF Has, AuthKeywords
  <2>6. AnswersFit' /\ Concluded'
    BY <1>1, <2>1, <2>2 DEF AnswersFit, Concluded
  <2>7. BufferOK'
    BY <2>2 DEF BufferOK
  <2>8. QueueOK' /\ PipeOK'
    BY <2>3 DEF QueueOK, PipeOK
  <2>9. AuthSessionOK'
    BY <1>1, <2>1, <2>2, <2>5 DEF AuthSessionOK
  <2>10. NoCurrentOK' /\ FirstAnswerDue' /\ FirstAnswerJudged'
    BY <1>1, <2>1, <2>2, <2>5 DEF NoCurrentOK, FirstAnswerDue, FirstAnswerJudged
  <2>11. CallerOK'
    BY <1>1, <1>2, <2>1, <2>2, <2>3, <2>4 DEF CallerOK
  <2> QED BY <1>1, <2>6, <2>7, <2>8, <2>9, <2>10, <2>11
<1> QED BY <1>4, <1>5, <1>6

\* PASSWD_STATE_NEW: whatever prompt comes is taken for the one that asks again.
LEMMA ReadInNewInv ==
  ASSUME ReportInv, NEW n, NEW text, Reading(n, text), Callback, ReadInNew(text)
  PROVE  DialogueInv'
<1> USE DEF ReportInv, DialogueInv
<1>1. /\ backend_state = "NEW" /\ Backend /\ Backend' /\ WatchedOK' /\ OutputOK'
      /\ InDialogue /\ Call(NoCall) /\ "incorrect" \notin text
      /\ UNCHANGED <<current_password, phase, verified, typed, account, pending>>
  BY ReadingFrame DEF ReadInNew, Reading, InDialogue, Call, NoCall
<1>2. UNCHANGED <<running, auth_cb, chpasswd_cb, old_password_ok>>
  BY <1>1, CallbackFacts DEF Reading, Call
<1>3. pending # None
  BY <1>1, ReadingFacts DEF AuthSessionOK
<1>4. CASE "assword" \notin text
  <2>1. str' = text /\ UNCHANGED <<backend_state, stdin_queue, stdin_pipe>>
    BY <1>4 DEF ReadInNew, IsStringComplete
  <2>2. BufferOK'
    BY <1>1, <1>4, <2>1 DEF BufferOK
  <2>3. NoCurrentOK' /\ AuthSessionOK' /\ FirstAnswerDue'
    BY <1>1, <1>3, <2>1 DEF NoCurrentOK, AuthSessionOK, FirstAnswerDue
  <2> QED BY <1>1, <2>1, <2>2, <2>3, KeptInv
<1>5. CASE "assword" \in text
  <2>1. /\ str' = {} /\ backend_state' = "RETYPE"
        /\ stdin_queue' = Popped(stdin_queue)
        /\ stdin_pipe' = IoQueuePop(stdin_queue, stdin_pipe)
    BY <1>5 DEF ReadInNew, IsStringComplete, PopToBackend
  <2>2. /\ stdin_queue' = <<>>
        /\ stdin_pipe' = stdin_pipe \/ stdin_pipe' = Append(stdin_pipe, pending)
    <3>1. CASE stdin_queue = <<>>
      BY <2>1, <3>1, PopFacts
    <3>2. CASE stdin_queue = <<pending>>
      BY <2>1, <3>2, PopFacts
    <3> QED BY <1>1, <1>3, <3>1, <3>2 DEF QueueOK
  <2>3. Prompted
    <3>1. pending \in Answers
      BY DEF TypeOK, ValuesOK, Answers
    <3> QED BY <1>1, <2>1, <2>2, <3>1 DEF Prompted
  <2>4. AnswersFit' /\ Concluded' /\ BufferOK' /\ PipeOK'
    BY <1>1, <2>3, PromptedInv
  <2>5. QueueOK' /\ AuthSessionOK'
    BY <1>1, <1>3, <2>1, <2>2 DEF QueueOK, AuthSessionOK
  <2>6. NoCurrentOK' /\ FirstAnswerDue' /\ FirstAnswerJudged'
    BY <2>1 DEF NoCurrentOK, FirstAnswerDue, FirstAnswerJudged
  <2>7. CallerOK'
    BY <1>1, <1>2, <1>3, <2>1 DEF CallerOK
  <2> QED BY <1>1, <2>4, <2>5, <2>6, <2>7
<1> QED BY <1>4, <1>5

\* PASSWD_STATE_RETYPE: the verdicts, and what they mean.  Success is only what a
\* passwd says that has changed the password to what was asked for; one that has
\* refused something needs more answers than it will get.
LEMMA VerdictFacts ==
  ASSUME ReportInv, NEW n, NEW text, Reading(n, text), backend_state = "RETYPE"
  PROVE  /\ pending # None /\ chpasswd_cb /\ stdin_queue = <<>>
         /\ "success" \in text => phase \in {"reported", "exited_ok"} /\ typed = pending
         /\ (text \cap RetypeKeywords # {} /\ "success" \notin text) =>
              (phase # "exited_err" => Len(stdin_pipe) < Needed)
<1> USE DEF ReportInv, DialogueInv
<1>1. Backend /\ InDialogue
  BY ReadingFrame DEF InDialogue
<1>2. pending # None /\ chpasswd_cb /\ stdin_queue = <<>>
  BY <1>1 DEF AuthSessionOK, QueueOK, ChangeIsFlagged
<1>3. ASSUME "success" \in text
      PROVE  phase \in {"reported", "exited_ok"} /\ typed = pending
  <2>1. PICK i \in 1 .. n : "success" \in stdout_pipe[i]
    BY <1>3, ReadingFacts DEF BufferOK, RetypeKeywords
  <2>2. phase \in {"reported", "exited_ok"}
    BY <2>1, ReadingFacts DEF OutputOK
  <2> QED BY <1>1, <1>2, <2>2 DEF PipeOK, Committed
<1>4. ASSUME text \cap RetypeKeywords # {}, "success" \notin text, phase # "exited_err"
      PROVE  Len(stdin_pipe) < Needed
  <2>1. PICK i \in 1 .. n : stdout_pipe[i] \cap Refusals # {}
    BY <1>4, ReadingFacts DEF BufferOK, RetypeKeywords, Refusals
  <2>2. Has(stdout_pipe, Refusals)
    BY <2>1, ReadingFacts DEF Has
  <2>3. ToWrite = 0 /\ ToAsk = 0
    BY <1>2 DEF ToWrite, ToAsk
  <2>4. Len(stdin_pipe) + ToWrite + ToAsk < Needed /\ Len(stdin_pipe) \in Nat
    BY <1>1, <1>4, <2>2, PipeTypes DEF AnswersFit
  <2> QED BY <2>3, <2>4
<1> QED BY <1>2, <1>3, <1>4

\* PASSWD_STATE_RETYPE as a whole.
LEMMA ReadInRetypeInv ==
  ASSUME ReportInv, NEW n, NEW text, Reading(n, text), Callback, ReadInRetype(text)
  PROVE  DialogueInv'
<1> USE DEF ReportInv, DialogueInv
<1>1. /\ backend_state = "RETYPE" /\ Backend /\ Backend' /\ WatchedOK' /\ OutputOK'
      /\ Needed' = Needed /\ "incorrect" \notin text
      /\ UNCHANGED <<current_password, phase, verified, typed, account, stdin_queue, stdin_pipe>>
  BY ReadingFrame DEF ReadInRetype, Reading
<1>2. UNCHANGED <<running, auth_cb, chpasswd_cb>>
  BY DEF Reading
<1>3. pending # None /\ chpasswd_cb /\ stdin_queue = <<>>
  BY <1>1, VerdictFacts
<1>4. CASE text \cap RetypeKeywords = {}
  <2>1. str' = text /\ Call(NoCall) /\ UNCHANGED backend_state
    BY <1>4 DEF ReadInRetype, IsStringComplete
  <2>2. BufferOK'
    BY <1>1, <1>4, <2>1 DEF BufferOK
  <2>3. NoCurrentOK' /\ AuthSessionOK' /\ FirstAnswerDue'
    <3>1. pending' = pending
      BY <2>1 DEF Call, NoCall
    <3> QED BY <1>1, <1>3, <2>1, <3>1 DEF NoCurrentOK, AuthSessionOK, FirstAnswerDue
  <2> QED BY <1>1, <2>1, <2>2, <2>3, KeptInv
<1>5. CASE text \cap RetypeKeywords # {}
  <2>1. /\ str' = {} /\ backend_state' \in {"DONE", "ERR"} /\ pending' = None
        /\ (old_password_ok' => old_password_ok)
        /\ backend_state' = "DONE" =>
             "success" \in text /\ ~old_password_ok'
        /\ backend_state' = "ERR" => "success" \notin text
    <3>1. CASE "success" \in text
      <4>1. str' = {} /\ backend_state' = "DONE" /\ Call(ChangeCall("none"))
        BY <1>3, <1>5, <3>1 DEF ReadInRetype, IsStringComplete
      <4>2. pending' = None
        BY <4>1 DEF Call, ChangeCall
      <4>3. ~old_password_ok'
        BY <4>1, CallbackFacts DEF Call
      <4> QED BY <3>1, <4>1, <4>2, <4>3
    <3>2. CASE "success" \notin text
      <4>1. str' = {} /\ backend_state' = "ERR" /\ Call(ChangeCall(RetypeError(text)))
        BY <1>3, <1>5, <3>2 DEF ReadInRetype, IsStringComplete, StateAfterRefusal
      <4>2. pending' = None
        BY <4>1 DEF Call, ChangeCall
      <4>3. old_password_ok' => old_password_ok
        <5>1. called' = ChangeCall("REJECTED") \/ called' = ChangeCall("AUTH_FAILED")
          BY <4>1 DEF Call, RetypeError
        <5> QED BY <5>1, CallbackFacts
      <4> QED BY <3>2, <4>1, <4>2, <4>3
    <3> QED BY <3>1, <3>2
  <2>2. Concluded'
    BY <1>1, <1>3, <1>5, <2>1, VerdictFacts DEF Concluded, Committed
  <2>3. AnswersFit' /\ AuthSessionOK'
    BY <2>1 DEF AnswersFit, AuthSessionOK, InDialogue
  <2>4. BufferOK'
    BY <2>1 DEF BufferOK
  <2>5. QueueOK' /\ PipeOK'
    BY <2>1 DEF QueueOK, PipeOK
  <2>6. NoCurrentOK' /\ FirstAnswerDue' /\ FirstAnswerJudged'
    BY <2>1 DEF NoCurrentOK, FirstAnswerDue, FirstAnswerJudged
  <2>7. CallerOK'
    BY <1>1, <1>2, <1>3, <2>1 DEF CallerOK, InDialogue
  <2> QED BY <1>1, <2>2, <2>3, <2>4, <2>5, <2>6, <2>7
<1> QED BY <1>4, <1>5

\* PASSWD_STATE_DONE and PASSWD_STATE_ERR.
LEMMA ReadInDefaultInv ==
  ASSUME ReportInv, NEW n, NEW text, Reading(n, text), Callback, ReadInDefault
  PROVE  DialogueInv'
<1> USE DEF ReportInv, DialogueInv
<1>1. /\ backend_state \in {"DONE", "ERR"} /\ str' = {} /\ Call(NoCall)
      /\ UNCHANGED <<backend_state, stdin_queue, stdin_pipe>>
  BY DEF ReadInDefault
<1>2. BufferOK' /\ NoCurrentOK' /\ FirstAnswerDue'
  BY <1>1 DEF BufferOK, NoCurrentOK, FirstAnswerDue
<1>3. AuthSessionOK'
  BY <1>1 DEF AuthSessionOK, InDialogue
<1> QED BY <1>1, <1>2, <1>3, KeptInv

\* io_watch_stdout as a whole.
LEMMA ReadStdoutInv ==
  ASSUME ReportInv, ReadStdout
  PROVE  DialogueInv'
<1>1. PICK n \in 1 .. Len(stdout_pipe) :
        /\ stdout_pipe' = SubSeq(stdout_pipe, n + 1, Len(stdout_pipe))
        /\ Branches(str \cup UNION {stdout_pipe[i] : i \in 1 .. n})
  BY DEF ReadStdout, IoWatchStdout, Branches
<1>2. PICK text : text = str \cup UNION {stdout_pipe[i] : i \in 1 .. n}
  OBVIOUS
<1>3. Reading(n, text) /\ Branches(text) /\ Callback
  <2>1. /\ UNCHANGED <<current_password, phase, verified, typed, account>>
        /\ UNCHANGED <<running, auth_cb, chpasswd_cb>> /\ running /\ Callback
    BY DEF ReadStdout, IoWatchStdout
  <2> QED BY <1>1, <1>2, <2>1 DEF Reading
<1> QED BY <1>3, ReadInNoneInv, ReadInAuthInv, ReadInNewInv, ReadInRetypeInv, ReadInDefaultInv
        DEF Branches

\* What an exit finds: when passwd has done its work the caller has been told or is
\* told now, and his current password is not the right one any more.
LEMMA ExitFacts ==
  ASSUME ReportInv, phase \in {"exited_ok", "exited_err"}
  PROVE  /\ phase = "exited_ok" =>
              \/ backend_state = "RETYPE" /\ pending # None /\ chpasswd_cb
              \/ backend_state = "DONE" /\ ~old_password_ok
         /\ (backend_state = "RETYPE" /\ phase = "exited_ok") =>
              pending # None /\ typed = pending /\ chpasswd_cb
         /\ (backend_state = "NONE" /\ pending = None) => FALSE
<1> USE DEF ReportInv, DialogueInv
<1>1. Backend /\ phase # "starting" /\ phase # "asks_current" /\ backend_state \in States
  BY PipeTypes DEF Backend
<1>2. ASSUME phase = "exited_ok"
      PROVE  \/ backend_state = "RETYPE" /\ pending # None /\ chpasswd_cb
             \/ backend_state = "DONE" /\ ~old_password_ok
  <2>1. Needed = 0 /\ Len(stdin_pipe) \in Nat
    BY <1>2, PipeTypes DEF Needed
  <2>2. CASE InDialogue
    <3>1. Len(stdin_pipe) + ToWrite + ToAsk <= 0
      BY <1>2, <2>1, <2>2 DEF AnswersFit
    <3>2. ToWrite = 0 /\ ToAsk = 0
      BY <2>1, <3>1, ToCount
    <3> QED BY <2>2, <3>2 DEF ToWrite, ToAsk, InDialogue, ChangeIsFlagged
  <2>3. CASE backend_state = "ERR"
    BY <1>2, <2>1, <2>3 DEF Concluded
  <2>4. CASE backend_state = "DONE"
    BY <2>4 DEF CallerOK
  <2> QED BY <1>1, <2>2, <2>3, <2>4 DEF InDialogue, States
<1>3. ASSUME backend_state = "RETYPE", phase = "exited_ok"
      PROVE  pending # None /\ typed = pending /\ chpasswd_cb
  <2>1. pending # None /\ chpasswd_cb
    BY <1>2, <1>3
  <2> QED BY <1>1, <1>3, <2>1 DEF PipeOK, Committed
<1>4. (backend_state = "NONE" /\ pending = None) => FALSE
  BY <1>1 DEF AuthSessionOK, InDialogue
<1> QED BY <1>2, <1>3, <1>4

\* child_watch_cb, and the callback it may run.
LEMMA ReapChildInv ==
  ASSUME ReportInv, ReapChild
  PROVE  DialogueInv'
<1> USE DEF ReportInv, DialogueInv
<1>1. /\ phase \in {"exited_ok", "exited_err"} /\ StopPasswd /\ Callback
      /\ UNCHANGED <<current_password, stdin_queue, str, account>>
      /\ UNCHANGED <<auth_cb, chpasswd_cb>>
      /\ Call(IF ExitChanged /\ chpasswd_cb THEN ChangeCall("none") ELSE NoCall)
  BY DEF ReapChild, ChildWatch, StopPasswd
<1>2. backend_state' = "NONE" /\ ~Backend'
  BY <1>1 DEF StopPasswd, FreePasswdResources, StateFreed, Backend
<1>3. \/ /\ ~old_password_ok'
      \/ /\ old_password_ok' = old_password_ok /\ pending' = pending
         /\ phase = "exited_ok" => ~old_password_ok
  <2>1. CASE ExitChanged /\ chpasswd_cb
    <3>1. called' = ChangeCall("none")
      BY <1>1, <2>1 DEF Call
    <3> QED BY <1>1, <3>1, CallbackFacts
  <2>2. CASE ~(ExitChanged /\ chpasswd_cb)
    <3>1. called' = NoCall /\ pending' = pending
      BY <1>1, <2>2 DEF Call, NoCall
    <3>2. phase = "exited_ok" => ~old_password_ok
      BY <1>1, <2>2, ExitFacts DEF ExitChanged
    <3> QED BY <1>1, <3>1, <3>2, CallbackFacts
  <2> QED BY <2>1, <2>2
<1>4. CallerOK'
  <2>1. phase = "exited_err" => phase \notin Committed
    BY DEF Committed
  <2>2. (backend_state = "NONE" /\ pending = None) => FALSE
    BY <1>1, ExitFacts
  <2> QED BY <1>1, <1>2, <1>3, <2>1, <2>2 DEF CallerOK, InDialogue
<1> QED BY <1>1, <1>4, StoppedInv

-----------------------------------------------------------------------------
(***************************************************************************)
(* The invariant is inductive.                                             *)
(***************************************************************************)

\* The invariant holds of a handler that was just initialised.
LEMMA DialogueInvInit == Init => DialogueInv
<1> SUFFICES ASSUME Init PROVE DialogueInv
  OBVIOUS
<1> USE DEF Init
<1>1. ~Backend /\ ~InDialogue /\ backend_state = "NONE" /\ pending = None
  BY DEF Backend, InDialogue
<1>2. WatchedOK /\ AnswersFit /\ Concluded /\ BufferOK
  BY <1>1 DEF WatchedOK, AnswersFit, Concluded, BufferOK
<1>3. OutputOK
  BY DEF OutputOK
<1>4. QueueOK /\ PipeOK /\ AuthSessionOK /\ NoCurrentOK /\ FirstAnswerDue /\ FirstAnswerJudged
  BY <1>1 DEF QueueOK, PipeOK, AuthSessionOK, NoCurrentOK, FirstAnswerDue, FirstAnswerJudged
<1>5. CallerOK
  BY <1>1 DEF CallerOK
<1> QED BY <1>2, <1>3, <1>4, <1>5 DEF DialogueInv

\* Every step keeps it.
LEMMA DialogueInvStep == ReportInv /\ [Next]_vars => DialogueInv'
<1> SUFFICES ASSUME ReportInv, [Next]_vars PROVE DialogueInv'
  OBVIOUS
<1>1. CASE Authenticate
  <2>1. CASE AuthenticateIgnored
    BY <1>1, <2>1, FrameInv DEF Authenticate, AuthenticateIgnored
  <2>2. CASE \E password \in Passwords : PasswdAuthenticate(password)
    BY <1>1, <2>2, PasswdAuthenticateInv DEF Authenticate
  <2> QED BY <1>1, <2>1, <2>2 DEF Authenticate
<1>2. CASE ChangePassword
  BY <1>2, PasswdChangePasswordInv DEF ChangePassword
<1>3. CASE Destroy
  BY <1>3, PasswdDestroyInitInv DEF Destroy
<1>4. CASE EditOldPassword
  BY <1>4, FrameInv DEF EditOldPassword
<1>5. CASE ReadStdout
  BY <1>5, ReadStdoutInv
<1>6. CASE ReapChild
  BY <1>6, ReapChildInv
<1>7. CASE External
  BY <1>7, PasswdProcessInv, AccountChangedElsewhereInv DEF External
<1>8. CASE UNCHANGED vars
  BY <1>8, FrameInv DEF vars
<1> QED BY <1>1, <1>2, <1>3, <1>4, <1>5, <1>6, <1>7, <1>8 DEF Next

\* The whole invariant, with the types and the flag it relies on.
LEMMA ReportInvariant == Spec => []ReportInv
<1>1. Init => ReportInv
  <2>1. Init => ChangeIsFlagged
    BY DEF Init, ChangeIsFlagged
  <2> QED BY <2>1, InitTypeOK, DialogueInvInit DEF ReportInv
<1>2. ReportInv /\ [Next]_vars => ReportInv'
  <2>1. ReportInv => AwaitInv
    BY DEF ReportInv, AwaitInv
  <2> QED BY <2>1, TypeOKStep, AwaitInvStep, DialogueInvStep DEF ReportInv
<1> QED BY <1>1, <1>2, PTL DEF Spec

-----------------------------------------------------------------------------
(***************************************************************************)
(* What a step tells the caller.                                           *)
(***************************************************************************)

\* The callback of passwd_authenticate runs: a request is not touched, and passwd has
\* accepted the current password if it says so.
AuthTold ==
  /\ called' = AuthCall("none") \/ called' = AuthCall("AUTH_FAILED")
  /\ pending' = pending
  /\ called' = AuthCall("none") => verified = current_password /\ verified # None

\* The callback of passwd_change_password runs for a request that was made, with
\* success when passwd has made the change and with failure when it has not.
SuccessTold ==
  /\ called' = ChangeCall("none")
  /\ pending # None /\ pending' = None
  /\ phase \in Committed /\ typed = pending

FailureTold ==
  /\ called' = ChangeCall("AUTH_FAILED") \/ called' = ChangeCall("REJECTED")
  /\ pending # None /\ pending' = None
  /\ phase \notin Committed

\* No callback runs.
NothingTold == called' = NoCall /\ pending' = pending

\* The kinds of calls are told apart by their fields.
LEMMA CallKinds ==
  /\ NoCall.cb = "none"
  /\ \A error : AuthCall(error).cb = "auth" /\ AuthCall(error).error = error
  /\ \A error : ChangeCall(error).cb = "chpasswd" /\ ChangeCall(error).error = error
  /\ ChangeCall("none") # ChangeCall("AUTH_FAILED")
  /\ ChangeCall("none") # ChangeCall("REJECTED")
  /\ AuthCall("none") # AuthCall("AUTH_FAILED")
BY DEF NoCall, AuthCall, ChangeCall

\* PASSWD_STATE_AUTH: the change callback runs only for a request, because a handler
\* that has refused the current password hears no further word of refusal.
LEMMA AuthStateReports ==
  ASSUME ReportInv, NEW n, NEW text, Reading(n, text), ReadInAuth(text)
  PROVE  NothingTold \/ AuthTold \/ FailureTold
<1> USE DEF ReportInv, DialogueInv
<1>1. backend_state = "AUTH" /\ InDialogue /\ "incorrect" \notin text
  BY ReadingFrame DEF ReadInAuth, InDialogue
<1>2. CASE text \cap AuthKeywords = {}
  BY <1>2 DEF ReadInAuth, IsStringComplete, Call, NoCall, NothingTold
<1>3. CASE "assword" \in text
  <2>1. Accepted(text) /\ text \cap AuthKeywords # {}
    BY <1>1, <1>3 DEF Accepted, AuthKeywords
  <2>2. Call(IF auth_cb THEN AuthCall("none") ELSE NoCall)
    BY <2>1 DEF ReadInAuth, IsStringComplete
  <2>3. current_password # None /\ verified = current_password
    BY <1>1, <1>3, AcceptedFacts
  <2>4. pending' = pending
    BY <2>2, CallKinds DEF Call
  <2> QED BY <2>2, <2>3, <2>4 DEF Call, AuthTold, NothingTold
<1>4. CASE "assword" \notin text /\ text \cap AuthKeywords # {}
  <2>1. phase = "exited_err"
    BY <1>1, <1>4, RefusedFacts
  <2>2. Call(IF chpasswd_cb THEN ChangeCall("AUTH_FAILED")
             ELSE IF auth_cb THEN AuthCall("AUTH_FAILED") ELSE NoCall)
    BY <1>4 DEF ReadInAuth, IsStringComplete, Accepted
  <2>3. CASE chpasswd_cb
    <3>1. called' = ChangeCall("AUTH_FAILED") /\ pending' = None
      BY <2>2, <2>3, CallKinds DEF Call
    <3>2. ASSUME pending = None PROVE FALSE
      <4>1. ~Has(stdout_pipe, AuthKeywords)
        BY <1>1, <2>3, <3>2 DEF CallerOK
      <4>2. PICK i \in 1 .. n : stdout_pipe[i] \cap AuthKeywords # {}
        BY <1>1, <1>4, ReadingFacts DEF BufferOK
      <4> QED BY <4>1, <4>2, ReadingFacts DEF Has
    <3> QED BY <2>1, <3>1, <3>2 DEF FailureTold, Committed
  <2>4. CASE ~chpasswd_cb
    <3>1. \/ called' = AuthCall("AUTH_FAILED") /\ pending' = pending
          \/ NothingTold
      BY <2>2, <2>4, CallKinds DEF Call, NothingTold
    <3> QED BY <3>1, CallKinds DEF AuthTold
  <2> QED BY <2>3, <2>4
<1> QED BY <1>2, <1>3, <1>4

\* PASSWD_STATE_RETYPE: the verdict is the one of passwd.
LEMMA RetypeStateReports ==
  ASSUME ReportInv, NEW n, NEW text, Reading(n, text), ReadInRetype(text)
  PROVE  NothingTold \/ SuccessTold \/ FailureTold
<1>1. /\ backend_state = "RETYPE" /\ pending # None /\ chpasswd_cb
      /\ "success" \in text => phase \in {"reported", "exited_ok"} /\ typed = pending
  BY VerdictFacts DEF ReadInRetype
<1>2. CASE text \cap RetypeKeywords = {}
  BY <1>2 DEF ReadInRetype, IsStringComplete, Call, NoCall, NothingTold
<1>3. CASE "success" \in text
  <2>1. Call(ChangeCall("none"))
    BY <1>1, <1>3 DEF ReadInRetype, IsStringComplete, RetypeKeywords
  <2> QED BY <1>1, <1>3, <2>1, CallKinds DEF Call, SuccessTold, Committed
<1>4. CASE text \cap RetypeKeywords # {} /\ "success" \notin text
  <2>1. Call(ChangeCall(RetypeError(text)))
    BY <1>1, <1>4 DEF ReadInRetype, IsStringComplete
  <2>2. called' = ChangeCall("AUTH_FAILED") \/ called' = ChangeCall("REJECTED")
    BY <2>1 DEF Call, RetypeError
  <2>3. pending' = None
    BY <2>1, CallKinds DEF Call
  <2>4. phase \notin Committed
    <3>1. phase # "exited_err" => Len(stdin_pipe) < Needed
      BY <1>1, <1>4, VerdictFacts
    <3>2. phase \in Committed => Needed = 0 /\ phase # "exited_err"
      BY DEF Needed, Committed
    <3>3. Len(stdin_pipe) \in Nat
      BY PipeTypes DEF ReportInv
    <3> QED BY <3>1, <3>2, <3>3
  <2> QED BY <1>1, <2>2, <2>3, <2>4 DEF FailureTold
<1> QED BY <1>2, <1>3, <1>4

\* What io_watch_stdout tells.
LEMMA StdoutReports ==
  ASSUME ReportInv, ReadStdout
  PROVE  NothingTold \/ AuthTold \/ SuccessTold \/ FailureTold
<1>1. PICK n \in 1 .. Len(stdout_pipe) :
        /\ stdout_pipe' = SubSeq(stdout_pipe, n + 1, Len(stdout_pipe))
        /\ Branches(str \cup UNION {stdout_pipe[i] : i \in 1 .. n})
  BY DEF ReadStdout, IoWatchStdout, Branches
<1>2. PICK text : text = str \cup UNION {stdout_pipe[i] : i \in 1 .. n}
  OBVIOUS
<1>3. Reading(n, text) /\ Branches(text)
  <2>1. /\ UNCHANGED <<current_password, phase, verified, typed, account>>
        /\ UNCHANGED <<running, auth_cb, chpasswd_cb>> /\ running
    BY DEF ReadStdout, IoWatchStdout
  <2> QED BY <1>1, <1>2, <2>1 DEF Reading
<1>4. ReadInNone(text) \/ ReadInNew(text) \/ ReadInDefault => NothingTold
  BY CallKinds DEF ReadInNone, ReadInNew, ReadInDefault, Call, NothingTold
<1> QED BY <1>3, <1>4, AuthStateReports, RetypeStateReports DEF Branches

\* What child_watch_cb tells.
LEMMA ExitReports ==
  ASSUME ReportInv, ReapChild
  PROVE  \/ SuccessTold
         \/ NothingTold /\ (phase \notin Committed \/ pending = None)
<1>1. /\ phase \in {"exited_ok", "exited_err"}
      /\ Call(IF ExitChanged /\ chpasswd_cb THEN ChangeCall("none") ELSE NoCall)
  BY DEF ReapChild, ChildWatch
<1>2. CASE ExitChanged /\ chpasswd_cb
  <2>1. pending # None /\ typed = pending /\ phase \in Committed
    BY <1>1, <1>2, ExitFacts DEF ExitChanged, Committed
  <2>2. Call(ChangeCall("none"))
    BY <1>1, <1>2
  <2> QED BY <2>1, <2>2, CallKinds DEF Call, SuccessTold
<1>3. CASE ~(ExitChanged /\ chpasswd_cb)
  <2>1. Call(NoCall)
    BY <1>1, <1>3
  <2>2. NothingTold
    BY <2>1, CallKinds DEF Call, NothingTold
  <2>3. phase = "exited_ok" => backend_state = "DONE"
    BY <1>1, <1>3, ExitFacts DEF ExitChanged
  <2>4. phase \notin Committed \/ pending = None
    BY <1>1, <2>3 DEF Committed, ReportInv, DialogueInv, Concluded
  <2> QED BY <2>2, <2>4
<1> QED BY <1>2, <1>3

\* Only the two watches run a callback.
LEMMA StepReports ==
  ASSUME ReportInv, Next
  PROVE  called' = NoCall \/ AuthTold \/ SuccessTold \/ FailureTold
<1>1. Authenticate => called' = NoCall
  BY DEF Authenticate, AuthenticateIgnored, PasswdAuthenticate
<1>2. ChangePassword => called' = NoCall
  BY DEF ChangePassword, PasswdChangePassword
<1>3. Destroy \/ EditOldPassword => called' = NoCall
  BY DEF Destroy, PasswdDestroyInit, EditOldPassword
<1>4. External => called' = NoCall
  BY DEF External, PasswdProcess, AccountChangedElsewhere
<1> QED BY <1>1, <1>2, <1>3, <1>4, StdoutReports, ExitReports DEF Next, NothingTold

\* The handler reports a change only when passwd has made it, to the very password
\* that this caller asked for.
THEOREM ChangeReports == Spec => ChangeReportIsTrue
<1> DEFINE True == called' = ChangeCall("none") => phase \in Committed /\ typed = pending
<1>1. ReportInv /\ [Next]_vars => [True]_vars
  <2> SUFFICES ASSUME ReportInv, Next PROVE True
    OBVIOUS
  <2>1. called' = ChangeCall("none") => SuccessTold
    BY StepReports, CallKinds DEF AuthTold, FailureTold
  <2> QED BY <2>1 DEF SuccessTold
<1> QED BY <1>1, ReportInvariant, PTL DEF Spec, ChangeReportIsTrue

\* The change callback runs only while a request is waiting, and takes it away: for
\* every request once, and never for none.
THEOREM AnswersOnce == Spec => AnswersOnlyWhenPending
<1> DEFINE Asked == called'.cb = "chpasswd" => pending # None
<1>1. ReportInv /\ [Next]_vars => [Asked]_vars
  <2> SUFFICES ASSUME ReportInv, Next, called'.cb = "chpasswd" PROVE pending # None
    OBVIOUS
  <2>1. SuccessTold \/ FailureTold
    BY StepReports, CallKinds DEF AuthTold
  <2> QED BY <2>1 DEF SuccessTold, FailureTold
<1> QED BY <1>1, ReportInvariant, PTL DEF Spec, AnswersOnlyWhenPending

\* The handler takes the current password for right only when passwd has, and it is
\* the one of the latest passwd_authenticate.
THEOREM AuthReports == Spec => AuthReportIsTrue
<1> DEFINE Right == called' = AuthCall("none") => verified = current_password /\ verified # None
<1>1. ReportInv /\ [Next]_vars => [Right]_vars
  <2> SUFFICES ASSUME ReportInv, Next, called' = AuthCall("none")
               PROVE  verified = current_password /\ verified # None
    OBVIOUS
  <2>1. AuthTold
    BY StepReports, CallKinds DEF SuccessTold, FailureTold
  <2> QED BY <2>1 DEF AuthTold
<1> QED BY <1>1, ReportInvariant, PTL DEF Spec, AuthReportIsTrue

-----------------------------------------------------------------------------
(***************************************************************************)
(* The dialogue implements the promise: the safety part of KeepsPromise.   *)
(* Every step of the handler, of passwd and of the caller is a step of     *)
(* PasswordChange, or changes nothing of it.                               *)
(***************************************************************************)

\* What the mapping reads from the last step, and from passwd.
LEMMA MappedReport ==
  /\ called = NoCall => Report = "none"
  /\ called' = NoCall => Report' = "none"
  /\ AuthTold => Report' = "none"
  /\ called' = ChangeCall("none") => Report' = "changed"
  /\ called' = ChangeCall("AUTH_FAILED") => Report' = "AUTH_FAILED"
  /\ called' = ChangeCall("REJECTED") => Report' = "REJECTED"
<1>1. called.cb = "none" => Report = "none"
  BY DEF Report
<1>2. called'.cb # "chpasswd" => Report' = "none"
  BY DEF Report
<1>3. called'.cb = "chpasswd" /\ called'.error = "none" => Report' = "changed"
  BY DEF Report
<1>4. called'.cb = "chpasswd" /\ called'.error # "none" => Report' = called'.error
  BY DEF Report
<1>5. called = NoCall => Report = "none"
  BY <1>1, CallKinds
<1>6. called' = NoCall => Report' = "none"
  BY <1>2, CallKinds
<1>7. AuthTold => Report' = "none"
  BY <1>2, CallKinds DEF AuthTold
<1>8. called' = ChangeCall("none") => Report' = "changed"
  BY <1>3, CallKinds
<1>9. /\ called' = ChangeCall("AUTH_FAILED") => Report' = "AUTH_FAILED"
      /\ called' = ChangeCall("REJECTED") => Report' = "REJECTED"
  BY <1>4, CallKinds
<1> QED BY <1>5, <1>6, <1>7, <1>8, <1>9

LEMMA MappedPassword ==
  /\ phase \notin Committed => SetPassword = None
  /\ phase \in Committed => SetPassword = typed
  /\ phase' \notin Committed => SetPassword' = None
  /\ phase' \in Committed => SetPassword' = typed'
  /\ UNCHANGED <<phase, typed>> => SetPassword' = SetPassword
BY DEF SetPassword, Committed

\* When passwd has changed the password, a caller who is not waiting any more does
\* not hold his current password for right.
LEMMA CommittedFacts ==
  ASSUME ReportInv, phase \in Committed, pending = None
  PROVE  ~old_password_ok
<1> USE DEF ReportInv, DialogueInv
<1>1. Backend /\ backend_state \in States /\ Needed = 0 /\ Len(stdin_pipe) \in Nat
  BY PipeTypes DEF Backend, Needed, Committed
<1>2. ASSUME InDialogue PROVE FALSE
  <2>1. Len(stdin_pipe) + ToWrite + ToAsk <= 0
    BY <1>1, <1>2 DEF AnswersFit, Committed
  <2>2. ToAsk = 1
    BY DEF ToAsk
  <2> QED BY <1>1, <2>1, <2>2, ToCount
<1>3. backend_state # "ERR"
  BY <1>1 DEF Concluded, Committed
<1>4. backend_state = "DONE"
  BY <1>1, <1>2, <1>3 DEF InDialogue, States
<1> QED BY <1>4 DEF CallerOK

\* The answer that makes passwd change the password is the one that was asked for.
LEMMA RetypedFacts ==
  ASSUME ReportInv, phase = "asks_retype", stdin_pipe # <<>>
  PROVE  pending # None /\ Head(stdin_pipe) = pending
<1> USE DEF ReportInv, DialogueInv
<1>1. /\ Backend /\ backend_state \in States /\ Needed = 1
      /\ Len(stdin_pipe) \in Nat /\ Len(stdin_pipe) >= 1 /\ Head(stdin_pipe) = stdin_pipe[1]
  BY PipeTypes DEF Backend, Needed
<1>2. InDialogue
  <2>1. backend_state # "ERR"
    BY <1>1 DEF Concluded
  <2>2. backend_state # "DONE"
    BY DEF Concluded, Committed
  <2> QED BY <1>1, <2>1, <2>2 DEF InDialogue, States
<1>3. pending # None
  <2>1. Len(stdin_pipe) + ToWrite + ToAsk <= 1
    BY <1>1, <1>2 DEF AnswersFit
  <2>2. ToAsk # 1
    BY <1>1, <2>1, ToCount
  <2> QED BY <2>2 DEF ToAsk
<1> QED BY <1>1, <1>3 DEF PipeOK

\* The steps of passwd.
LEMMA ProcessPromise ==
  ASSUME ReportInv, PasswdProcess
  PROVE  Promise!Work \/ Promise!Change
<1>1. Report' = "none" /\ pending' = pending
  BY MappedReport DEF PasswdProcess, notProcess
<1>2. ASSUME PasswdStarts \/ PasswdReadsCurrent \/ PasswdReadsNew PROVE Promise!Work
  <2>1. phase \notin Committed /\ phase' \notin Committed /\ account' = account
    BY <1>2 DEF PasswdStarts, PasswdReadsCurrent, PasswdReadsNew, PasswdRefuses, Committed
  <2> QED BY <1>1, <2>1, MappedPassword DEF Promise!Work
<1>3. ASSUME PasswdReports \/ PasswdExits PROVE Promise!Work
  <2>1. phase \in Committed /\ phase' \in Committed /\ UNCHANGED <<typed, account>>
    BY <1>3 DEF PasswdReports, PasswdExits, Committed
  <2> QED BY <1>1, <2>1, MappedPassword DEF Promise!Work
<1>4. ASSUME PasswdReadsRetype PROVE Promise!Work \/ Promise!Change
  <2>1. phase = "asks_retype" /\ stdin_pipe # <<>> /\ typed' = typed
    BY <1>4 DEF PasswdReadsRetype, PasswdReads
  <2>2. SetPassword = None
    BY <2>1, MappedPassword DEF Committed
  <2>3. CASE phase' = "updated"
    <3>1. account' = typed /\ Head(stdin_pipe) = typed
      BY <1>4, <2>3 DEF PasswdReadsRetype, PasswdRefuses
    <3>2. pending # None /\ typed = pending
      BY <2>1, <3>1, RetypedFacts
    <3>3. SetPassword' = pending
      BY <2>1, <2>3, <3>2, MappedPassword DEF Committed
    <3> QED BY <1>1, <2>2, <3>1, <3>2, <3>3 DEF Promise!Change
  <2>4. CASE phase' # "updated"
    <3>1. phase' \notin Committed /\ account' = account
      BY <1>4, <2>4 DEF PasswdReadsRetype, PasswdRefuses, Committed
    <3> QED BY <1>1, <2>2, <3>1, MappedPassword DEF Promise!Work
  <2> QED BY <2>3, <2>4
<1> QED BY <1>2, <1>3, <1>4 DEF PasswdProcess

\* The calls of the caller.
LEMMA AuthenticatePromise ==
  ASSUME ReportInv, Authenticate
  PROVE  Promise!Work \/ Promise!Release
<1>1. CASE AuthenticateIgnored
  <2>1. Report' = "none" /\ UNCHANGED <<phase, typed, account, pending>>
    BY <1>1, MappedReport DEF AuthenticateIgnored, processVars
  <2> QED BY <2>1, MappedPassword DEF Promise!Work
<1>2. CASE \E password \in Passwords : PasswdAuthenticate(password)
  <2>1. Report' = "none" /\ UNCHANGED <<account, pending>> /\ ~changing_password
    BY <1>2, MappedReport DEF PasswdAuthenticate, MayAuthenticate
  <2>2. phase' \notin Committed
    BY <1>2 DEF PasswdAuthenticate, SpawnPasswd, StopPasswd, FreePasswdResources, Committed
  <2>3. pending = None
    BY <2>1 DEF ReportInv, ChangeIsFlagged
  <2> QED BY <2>1, <2>2, <2>3, MappedPassword DEF Promise!Release, Promise!Made
<1> QED BY <1>1, <1>2 DEF Authenticate

LEMMA AskPromise ==
  ASSUME ReportInv, ChangePassword
  PROVE  Promise!Ask
<1>1. /\ old_password_ok /\ pending = None /\ pending' \in Passwords /\ account' = account
      /\ Report' = "none"
  BY MappedReport DEF ChangePassword, PasswdChangePassword
<1>2. phase \notin Committed
  BY <1>1, CommittedFacts
<1>3. phase' = phase \/ phase' \in {"starting", "absent"}
  BY DEF ChangePassword, PasswdChangePassword, ChangeFromRestart, ChangeInSession,
         SpawnPasswd, StopPasswd, FreePasswdResources
<1>4. SetPassword = None /\ SetPassword' = None
  BY <1>2, <1>3, MappedPassword DEF Committed
<1> QED BY <1>1, <1>4 DEF Promise!Ask

LEMMA WithdrawPromise ==
  ASSUME Destroy
  PROVE  Promise!Withdraw
<1>1. pending' = None /\ account' = account /\ Report' = "none" /\ phase' \notin Committed
  BY MappedReport
     DEF Destroy, PasswdDestroyInit, StopPasswd, FreePasswdResources, Committed
<1> QED BY <1>1, MappedPassword DEF Promise!Withdraw

\* The watches.
LEMMA StdoutPromise ==
  ASSUME ReportInv, ReadStdout
  PROVE  Promise!Work \/ Promise!Succeed \/ Promise!Fail
<1>1. account' = account /\ SetPassword' = SetPassword
  BY MappedPassword DEF ReadStdout, IoWatchStdout
<1>2. CASE NothingTold \/ AuthTold
  BY <1>1, <1>2, MappedReport DEF NothingTold, AuthTold, Promise!Work
<1>3. CASE SuccessTold
  BY <1>1, <1>3, MappedReport, MappedPassword DEF SuccessTold, Promise!Succeed, Promise!Made
<1>4. CASE FailureTold
  <2>1. Report' \in {"AUTH_FAILED", "REJECTED"}
    BY <1>4, MappedReport DEF FailureTold
  <2> QED BY <1>1, <1>4, <2>1, MappedPassword
          DEF FailureTold, Promise!Fail, Promise!Made, Promise!Failures
<1> QED BY <1>2, <1>3, <1>4, StdoutReports

LEMMA ExitPromise ==
  ASSUME ReportInv, ReapChild
  PROVE  Promise!Succeed \/ Promise!Release
<1>1. account' = account /\ SetPassword' = None
  BY MappedPassword DEF ReapChild, ChildWatch, FreePasswdResources, Committed
<1>2. CASE SuccessTold
  BY <1>1, <1>2, MappedReport, MappedPassword DEF SuccessTold, Promise!Succeed, Promise!Made
<1>3. CASE NothingTold /\ (phase \notin Committed \/ pending = None)
  BY <1>1, <1>3, MappedReport, MappedPassword DEF NothingTold, Promise!Release, Promise!Made
<1> QED BY <1>2, <1>3, ExitReports

\* The rest: the caller edits an entry, or the account is changed elsewhere.
LEMMA FramePromise ==
  /\ EditOldPassword => Promise!Work
  /\ AccountChangedElsewhere => Promise!ChangeElsewhere
  /\ UNCHANGED vars => UNCHANGED Promise!vars
<1>1. EditOldPassword => Promise!Work
  BY MappedReport, MappedPassword DEF EditOldPassword, processVars, Promise!Work
<1>2. AccountChangedElsewhere => Promise!ChangeElsewhere
  BY MappedReport, MappedPassword
     DEF AccountChangedElsewhere, processVars, Promise!ChangeElsewhere
<1>3. UNCHANGED vars => UNCHANGED Promise!vars
  <2>1. UNCHANGED vars => UNCHANGED <<phase, typed, account, pending, called>>
    BY DEF vars, processVars
  <2>2. called' = called => Report' = Report
    BY DEF Report
  <2> QED BY <2>1, <2>2, MappedPassword DEF Promise!vars
<1> QED BY <1>1, <1>2, <1>3

\* Whatever was left in queues and pipes by sessions before, the account is given by
\* this handler only the password that is waited for, success is told only when it
\* was given and failure only when it was not, and a passwd that did its work does
\* not go before the caller has been told.  That it is told in the end is the
\* fairness part of KeepsPromise, which is model-checked.
THEOREM DialogueImplementsPromise ==
  Spec => Promise!Init /\ [][Promise!Next]_(Promise!vars)
<1>1. Init => Promise!Init
  <2> SUFFICES ASSUME Init PROVE Promise!Init
    OBVIOUS
  <2>1. SetPassword = None /\ Report = "none"
    BY MappedReport, MappedPassword DEF Init, Committed
  <2> QED BY <2>1 DEF Init, Promise!Init
<1>2. ReportInv /\ [Next]_vars => [Promise!Next]_(Promise!vars)
  <2> SUFFICES ASSUME ReportInv, [Next]_vars PROVE Promise!Next \/ UNCHANGED Promise!vars
    OBVIOUS
  <2>1. Authenticate \/ ChangePassword \/ Destroy => Promise!Next
    BY AuthenticatePromise, AskPromise, WithdrawPromise DEF Promise!Next
  <2>2. ReadStdout \/ ReapChild => Promise!Next
    BY StdoutPromise, ExitPromise DEF Promise!Next
  <2>3. EditOldPassword \/ External => Promise!Next
    BY FramePromise, ProcessPromise DEF External, Promise!Next
  <2> QED BY <2>1, <2>2, <2>3, FramePromise DEF Next
<1> QED BY <1>1, <1>2, ReportInvariant, PTL DEF Spec

-----------------------------------------------------------------------------
(***************************************************************************)
(* The dialog.                                                             *)
(***************************************************************************)

\* The part of the type invariant that is about the dialog's own variables,
\* flags kept apart from the rest.
DialogFlagsOK ==
  /\ visible \in BOOLEAN /\ sensitive \in BOOLEAN /\ ok_button \in BOOLEAN
  /\ old_shown \in BOOLEAN

DialogValuesOK ==
  /\ selected \in Users
  /\ password_mode \in {"regular", "none"}
  /\ user \in Users \cup {"none"}
  /\ mode \in Modes
  /\ old_password_entry \in Texts /\ password_entry \in Texts /\ verify_entry \in Texts

\* The condition the OK button stands for, while the dialog is open in normal mode.
ButtonEarned ==
  (visible /\ ok_button /\ mode = "normal") =>
    CanChange(old_password_ok, password_entry, verify_entry)

\* The type invariant, by its parts.
LEMMA DialogTypes == DialogTypeOK <=> TypeOK /\ DialogFlagsOK /\ DialogValuesOK
BY DEF DialogTypeOK, DialogFlagsOK, DialogValuesOK

\* The type invariant and the condition of the button are inductive only together.
DialogInv == TypeOK /\ DialogFlagsOK /\ DialogValuesOK /\ ButtonEarned

-----------------------------------------------------------------------------
\* Truth values that are computed.
LEMMA Computed ==
  ASSUME old_password_ok \in BOOLEAN, ok_button \in BOOLEAN
  PROVE  /\ \A ok \in BOOLEAN : \A p, v : CanChange(ok, p, v) \in BOOLEAN
         /\ OldPasswordOkAfterClearing(old_password_ok) \in BOOLEAN
<1>1. ASSUME NEW ok \in BOOLEAN, NEW p, NEW v PROVE CanChange(ok, p, v) \in BOOLEAN
  BY DEF CanChange
<1>2. OldPasswordOkAfterClearing(old_password_ok) \in BOOLEAN
  BY DEF OldPasswordOkAfterClearing
<1> QED BY <1>1, <1>2

\* um_password_dialog_set_user, whichever user it is for: the handler stays well typed,
\* the button is off and no request is added to what is awaited.
LEMMA SetUserStep ==
  ASSUME TypeOK, NEW u \in Users, SetUser(u)
  PROVE  /\ TypeOK'
         /\ user' = u /\ mode' = "normal"
         /\ ok_button' = FALSE /\ old_shown' \in BOOLEAN
         /\ old_password_entry' \in Texts /\ password_entry' \in Texts
         /\ verify_entry' \in Texts
         /\ pending' # None => pending # None
<1>1. user' = u /\ mode' = "normal" /\ ok_button' = FALSE
  BY DEF SetUser
<1>2. /\ old_password_entry' \in Texts /\ password_entry' \in Texts
      /\ verify_entry' \in Texts
  BY DEF SetUser, Texts
<1>3. old_shown' \in BOOLEAN
  <2>1. old_shown' = (u = "self" /\ password_mode = "regular")
    BY DEF SetUser
  <2> QED BY <2>1
<1>4. old_password_ok' \in BOOLEAN
  <2>1. old_password_ok' = ~(u = "self" /\ password_mode = "regular")
    BY DEF SetUser
  <2> QED BY <2>1
<1>5. CASE PasswdDestroyInit
  <2>1. TypeOK'
    BY <1>4, <1>5, PasswdDestroyInitTypeOK
  <2>2. pending' = None
    BY <1>5 DEF PasswdDestroyInit
  <2> QED BY <1>1, <1>2, <1>3, <2>1, <2>2
<1>6. CASE HandlerUnchanged
  <2>1. account' \in Answers
    BY <1>6 DEF HandlerUnchanged, TypeOK, ValuesOK, Answers
  <2>2. TypeOK'
    BY <1>4, <1>6, <2>1, FrameTypeOK DEF HandlerUnchanged
  <2>3. pending' = pending
    BY <1>6 DEF HandlerUnchanged
  <2> QED BY <1>1, <1>2, <1>3, <2>2, <2>3
<1> QED BY <1>5, <1>6 DEF SetUser

\* A step of the dialog that does not touch the handler keeps it well typed.
LEMMA HandlerUnchangedTypeOK ==
  ASSUME TypeOK, HandlerUnchanged, old_password_ok' \in BOOLEAN
  PROVE  TypeOK'
<1>1. account' \in Answers
  BY DEF HandlerUnchanged, TypeOK, ValuesOK, Answers
<1> QED BY <1>1, FrameTypeOK DEF HandlerUnchanged

\* The end of finish_password_change: the dialog is closed, for nobody, and empty.
LEMMA FinishValues ==
  ASSUME Finish
  PROVE  /\ visible' = FALSE /\ ok_button' = FALSE /\ old_shown' = old_shown
         /\ user' = "none" /\ mode' = "normal"
         /\ old_password_entry' \in Texts /\ password_entry' \in Texts
         /\ verify_entry' \in Texts
BY DEF Finish, Texts

\* accept_password_dialog in normal mode: the entry is a password, since the button
\* was on for it.
LEMMA AcceptTypeOK ==
  ASSUME TypeOK, ButtonEarned, Accept, old_password_ok' \in BOOLEAN
  PROVE  TypeOK'
<1>1. CASE AcceptNormal
  <2>1. password_entry \in Passwords
    BY <1>1, DialogAssumption DEF Accept, AcceptNormal, Usable, ButtonEarned, CanChange
  <2>2. CASE user = "self"
    BY <1>1, <2>1, <2>2, PasswdChangePasswordTypeOK DEF AcceptNormal
  <2>3. CASE user # "self"
    BY <1>1, <2>3, HandlerUnchangedTypeOK DEF AcceptNormal
  <2> QED BY <2>2, <2>3
<1>2. CASE AcceptOtherMode
  <2>1. account' \in Answers
    BY <1>2 DEF AcceptOtherMode, TypeOK, ValuesOK, Answers
  <2> QED BY <1>2, <2>1, FrameTypeOK DEF AcceptOtherMode
<1> QED BY <1>1, <1>2 DEF Accept

-----------------------------------------------------------------------------
\* The callbacks leave the dialog's own variables well typed, and the flag
\* that tells whether the current password is right a truth value.
LEMMA HandlerCallbackTypes ==
  ASSUME TypeOK, DialogFlagsOK, DialogValuesOK, HandlerCallback
  PROVE  old_password_ok' \in BOOLEAN /\ DialogFlagsOK' /\ DialogValuesOK'
<1>1. old_password_ok \in BOOLEAN /\ ok_button \in BOOLEAN
  BY DEF TypeOK, FlagsOK, DialogFlagsOK
<1>2. Empty \in Texts
  BY DEF Texts
<1>3. CASE NotCalled
  BY <1>1, <1>3 DEF NotCalled, DialogFlagsOK, DialogValuesOK, dialogVars, entries
<1>4. CASE AuthCb
  <2>1. old_password_ok' \in BOOLEAN
    <3>1. old_password_ok' = (called'.error = "none")
      BY <1>4 DEF AuthCb
    <3> QED BY <3>1
  <2>2. ok_button' \in BOOLEAN
    <3>1. ok_button' \in {ok_button, CanChange(old_password_ok', password_entry, verify_entry)}
      BY <1>4 DEF AuthCb
    <3> QED BY <1>1, <2>1, <3>1, Computed
  <2>3. DialogFlagsOK'
    BY <1>4, <2>2 DEF AuthCb, DialogFlagsOK
  <2>4. DialogValuesOK'
    BY <1>4 DEF AuthCb, DialogValuesOK, entries
  <2> QED BY <2>1, <2>3, <2>4
<1>5. CASE PasswordChanged
  <2>1. old_password_ok' \in BOOLEAN
    BY <1>1, <1>5, Computed DEF PasswordChanged
  <2>2. DialogFlagsOK'
    BY <1>5, FinishValues DEF PasswordChanged, DialogFlagsOK
  <2>3. DialogValuesOK'
    BY <1>5, FinishValues DEF PasswordChanged, DialogValuesOK, Modes
  <2> QED BY <2>1, <2>2, <2>3
<1>6. CASE PasswordRejected
  <2>1. ok_button' \in BOOLEAN
    <3>1. ok_button' = (ok_button /\ mode # "normal")
      BY <1>6 DEF PasswordRejected
    <3> QED BY <3>1
  <2>2. DialogFlagsOK'
    BY <1>6, <2>1 DEF PasswordRejected, DialogFlagsOK
  <2>3. DialogValuesOK'
    BY <1>2, <1>6 DEF PasswordRejected, DialogValuesOK
  <2> QED BY <1>1, <1>6, <2>2, <2>3 DEF PasswordRejected
<1>7. CASE PasswordAuthFailed
  <2>1. ok_button' \in BOOLEAN
    <3>1. ok_button' = (ok_button /\ old_password_entry = Empty)
      BY <1>7 DEF PasswordAuthFailed
    <3> QED BY <3>1
  <2>2. DialogFlagsOK'
    BY <1>7, <2>1 DEF PasswordAuthFailed, DialogFlagsOK
  <2>3. DialogValuesOK'
    BY <1>2, <1>7 DEF PasswordAuthFailed, DialogValuesOK
  <2>4. old_password_ok' \in BOOLEAN
    BY <1>1, <1>7, Computed DEF PasswordAuthFailed
  <2> QED BY <2>2, <2>3, <2>4
<1> QED BY <1>3, <1>4, <1>5, <1>6, <1>7 DEF HandlerCallback

-----------------------------------------------------------------------------
\* The variables of the dialog and of its handler keep their types, given that the
\* button is on only for what it demands.
LEMMA DialogTypeStep ==
  TypeOK /\ DialogFlagsOK /\ DialogValuesOK /\ ButtonEarned /\ [DialogNext]_allVars
    => TypeOK' /\ DialogFlagsOK' /\ DialogValuesOK'
<1> SUFFICES ASSUME TypeOK, DialogFlagsOK, DialogValuesOK, ButtonEarned, [DialogNext]_allVars
             PROVE  TypeOK' /\ DialogFlagsOK' /\ DialogValuesOK'
  OBVIOUS
<1>1. old_password_ok \in BOOLEAN /\ ok_button \in BOOLEAN
  BY DEF TypeOK, FlagsOK, DialogFlagsOK
<1>2. OldPasswordOkAfterClearing(old_password_ok) \in BOOLEAN
  BY <1>1, Computed
<1>3. selected \in Users
  BY DEF DialogValuesOK
<1>4. CASE OpenDialog
  BY <1>3, <1>4, SetUserStep DEF OpenDialog, DialogFlagsOK, DialogValuesOK, Modes
<1>5. CASE RefreshPanel
  BY <1>3, <1>5, SetUserStep DEF RefreshPanel, DialogFlagsOK, DialogValuesOK, Modes
<1>6. CASE SelectUser
  <2>1. selected' \in Users /\ SetUser(selected')
    BY <1>6 DEF SelectUser
  <2> QED BY <1>6, <2>1, SetUserStep DEF SelectUser, DialogFlagsOK, DialogValuesOK, Modes
<1>7. CASE ReenterPanel
  <2>1. TypeOK'
    BY <1>7, PasswdDestroyInitTypeOK DEF ReenterPanel
  <2>2. DialogFlagsOK' /\ DialogValuesOK'
    BY <1>7 DEF ReenterPanel, DialogFlagsOK, DialogValuesOK, Texts, Modes
  <2> QED BY <2>1, <2>2
<1>8. CASE TypeOldPassword
  <2>1. TypeOK'
    BY <1>8, HandlerUnchangedTypeOK DEF TypeOldPassword
  <2>2. DialogFlagsOK' /\ DialogValuesOK'
    BY <1>8 DEF TypeOldPassword, ButtonAfterEditing, DialogFlagsOK, DialogValuesOK
  <2> QED BY <2>1, <2>2
<1>9. CASE TypeNewPassword
  <2>1. TypeOK'
    BY <1>1, <1>9, HandlerUnchangedTypeOK DEF TypeNewPassword
  <2>2. ok_button' \in BOOLEAN
    <3>1. ok_button' = CanChange(old_password_ok, password_entry', verify_entry')
      BY <1>9 DEF TypeNewPassword
    <3> QED BY <1>1, <3>1, Computed
  <2>3. DialogFlagsOK'
    BY <1>9, <2>2 DEF TypeNewPassword, DialogFlagsOK
  <2>4. DialogValuesOK'
    BY <1>9 DEF TypeNewPassword, DialogValuesOK
  <2> QED BY <2>1, <2>3, <2>4
<1>10. CASE GeneratePassword
  <2>1. TypeOK'
    BY <1>1, <1>10, HandlerUnchangedTypeOK DEF GeneratePassword
  <2>2. DialogFlagsOK' /\ DialogValuesOK'
    BY <1>10, DialogAssumption DEF GeneratePassword, DialogFlagsOK, DialogValuesOK, Texts
  <2> QED BY <2>1, <2>2
<1>11. CASE SubmitOldPassword
  <2>1. DialogFlagsOK' /\ DialogValuesOK' /\ old_password_ok' \in BOOLEAN
    BY <1>1, <1>11 DEF SubmitOldPassword, DialogFlagsOK, DialogValuesOK, dialogVars, entries
  <2>2. CASE PasswdAuthenticate(old_password_entry)
    <3>1. old_password_entry \in Passwords
      BY <1>11 DEF SubmitOldPassword, DialogValuesOK, Texts
    <3> QED BY <2>1, <2>2, <3>1, PasswdAuthenticateTypeOK
  <2>3. CASE AuthenticateIgnored
    <3>1. account' \in Answers
      BY <2>3 DEF AuthenticateIgnored, TypeOK, ValuesOK, Answers
    <3> QED BY <2>1, <2>3, <3>1, FrameTypeOK DEF AuthenticateIgnored
  <2> QED BY <1>11, <2>2, <2>3 DEF SubmitOldPassword
<1>12. CASE ChooseAction
  <2>1. TypeOK'
    BY <1>1, <1>12, HandlerUnchangedTypeOK DEF ChooseAction
  <2>2. ok_button' \in BOOLEAN
    <3>1. ok_button' = (\/ mode' # "normal"
                        \/ CanChange(old_password_ok, password_entry, verify_entry))
      BY <1>12 DEF ChooseAction
    <3> QED BY <3>1
  <2>3. DialogFlagsOK'
    BY <1>12, <2>2 DEF ChooseAction, DialogFlagsOK
  <2>4. DialogValuesOK'
    BY <1>12 DEF ChooseAction, DialogValuesOK, entries
  <2> QED BY <2>1, <2>3, <2>4
<1>13. CASE Accept
  <2>1. old_password_ok' \in BOOLEAN
    BY <1>2, <1>13 DEF Accept
  <2>2. TypeOK'
    BY <1>13, <2>1, AcceptTypeOK
  <2>3. sensitive' \in BOOLEAN /\ password_mode' \in {"regular", "none"}
    <3>1. CASE AcceptNormal
      BY <3>1 DEF AcceptNormal, InsensitiveDuringChange, DialogFlagsOK, DialogValuesOK
    <3>2. CASE AcceptOtherMode
      BY <3>2 DEF AcceptOtherMode, DialogFlagsOK, DialogValuesOK
    <3> QED BY <1>13, <3>1, <3>2 DEF Accept
  <2>4. DialogFlagsOK'
    BY <1>13, <2>3, FinishValues DEF Accept, DialogFlagsOK
  <2>5. DialogValuesOK'
    BY <1>13, <2>3, FinishValues DEF Accept, DialogValuesOK, Modes
  <2> QED BY <2>2, <2>4, <2>5
<1>14. CASE Cancel
  <2>1. TypeOK'
    BY <1>2, <1>14, HandlerUnchangedTypeOK DEF Cancel
  <2>2. DialogFlagsOK' /\ DialogValuesOK'
    BY <1>14, FinishValues DEF Cancel, DialogFlagsOK, DialogValuesOK, Modes
  <2> QED BY <2>1, <2>2
<1>15. CASE Close
  <2>1. TypeOK'
    BY <1>1, <1>15, HandlerUnchangedTypeOK DEF Close
  <2>2. DialogFlagsOK' /\ DialogValuesOK'
    BY <1>15 DEF Close, DialogFlagsOK, DialogValuesOK, entries
  <2> QED BY <2>1, <2>2
<1>16. CASE DialogReadStdout
  BY <1>16, HandlerCallbackTypes, IoWatchStdoutTypeOK DEF DialogReadStdout
<1>17. CASE DialogReapChild
  BY <1>17, HandlerCallbackTypes, ChildWatchTypeOK DEF DialogReapChild
<1>18. CASE DialogExternal
  <2>1. TypeOK'
    BY <1>1, <1>18, PasswdProcessTypeOK DEF DialogExternal
  <2>2. DialogFlagsOK' /\ DialogValuesOK'
    BY <1>18 DEF DialogExternal, DialogFlagsOK, DialogValuesOK, dialogVars, entries
  <2> QED BY <2>1, <2>2
<1>19. CASE UNCHANGED allVars
  <2>1. TypeOK'
    BY <1>19, StutterTypeOK DEF allVars
  <2>2. DialogFlagsOK' /\ DialogValuesOK'
    BY <1>19 DEF allVars, DialogFlagsOK, DialogValuesOK, dialogVars, entries
  <2> QED BY <2>1, <2>2
<1> QED BY <1>4, <1>5, <1>6, <1>7, <1>8, <1>9, <1>10, <1>11, <1>12, <1>13, <1>14,
           <1>15, <1>16, <1>17, <1>18, <1>19 DEF DialogNext

-----------------------------------------------------------------------------
\* Whatever its handlers do, the button of an open dialog in normal mode is on only
\* for two equal strong texts and an accepted current password.
LEMMA ButtonStep ==
  ButtonEarned /\ [DialogNext]_allVars => ButtonEarned'
<1> SUFFICES ASSUME ButtonEarned, [DialogNext]_allVars,
                    visible', ok_button', mode' = "normal"
             PROVE  CanChange(old_password_ok', password_entry', verify_entry')
  BY DEF ButtonEarned, CanChange
<1>1. CASE OpenDialog \/ RefreshPanel \/ SelectUser
  BY <1>1 DEF OpenDialog, RefreshPanel, SelectUser, SetUser
<1>2. CASE ReenterPanel
  BY <1>2 DEF ReenterPanel
<1>3. CASE TypeOldPassword
  BY <1>3 DEF TypeOldPassword, ButtonAfterEditing
<1>4. CASE TypeNewPassword
  <2>1. CanChange(old_password_ok, password_entry', verify_entry')
    BY <1>4 DEF TypeNewPassword
  <2> QED BY <1>4, <2>1 DEF TypeNewPassword
<1>5. CASE GeneratePassword
  BY <1>5 DEF GeneratePassword
<1>6. CASE SubmitOldPassword
  BY <1>6 DEF SubmitOldPassword, ButtonEarned, CanChange, dialogVars, entries
<1>7. CASE ChooseAction
  <2>1. CanChange(old_password_ok, password_entry, verify_entry)
    BY <1>7 DEF ChooseAction
  <2> QED BY <1>7, <2>1 DEF ChooseAction, entries
<1>8. CASE Accept \/ Cancel
  BY <1>8, FinishValues DEF Accept, Cancel
<1>9. CASE Close
  BY <1>9 DEF Close
<1>10. CASE HandlerCallback
  <2>1. CASE NotCalled
    BY <2>1 DEF NotCalled, ButtonEarned, CanChange, dialogVars, entries
  <2>2. CASE AuthCb
    <3>1. mode = "normal"
      BY <2>2 DEF AuthCb
    <3>2. CanChange(old_password_ok', password_entry, verify_entry)
      BY <2>2, <3>1 DEF AuthCb
    <3> QED BY <2>2, <3>2 DEF AuthCb, entries
  <2>3. CASE PasswordChanged
    BY <2>3, FinishValues DEF PasswordChanged
  <2>4. CASE PasswordRejected
    BY <2>4 DEF PasswordRejected
  <2>5. CASE PasswordAuthFailed
    <3>1. ok_button /\ old_password_entry = Empty
      BY <2>5 DEF PasswordAuthFailed
    <3>2. visible /\ mode = "normal"
      BY <2>5 DEF PasswordAuthFailed
    <3>3. CanChange(old_password_ok, password_entry, verify_entry)
      BY <3>1, <3>2 DEF ButtonEarned
    <3>4. old_password_ok'
      BY <2>5, <3>1, <3>3 DEF PasswordAuthFailed, OldPasswordOkAfterClearing, CanChange
    <3> QED BY <2>5, <3>3, <3>4 DEF PasswordAuthFailed, CanChange
  <2> QED BY <1>10, <2>1, <2>2, <2>3, <2>4, <2>5 DEF HandlerCallback
<1>11. CASE DialogExternal
  BY <1>11 DEF DialogExternal, ButtonEarned, CanChange, dialogVars, entries
<1>12. CASE UNCHANGED allVars
  BY <1>12 DEF allVars, vars, ButtonEarned, CanChange, dialogVars, entries
<1> QED BY <1>1, <1>2, <1>3, <1>4, <1>5, <1>6, <1>7, <1>8, <1>9, <1>10, <1>11, <1>12
        DEF DialogNext, DialogReadStdout, DialogReapChild

\* A callback of the handler takes back what is awaited exactly when it answers a change.
LEMMA CallAnswers ==
  ASSUME IoWatchStdout \/ ChildWatch
  PROVE  pending' = IF called'.cb = "chpasswd" THEN None ELSE pending
<1>1. ASSUME NEW call, Call(call)
      PROVE  pending' = IF called'.cb = "chpasswd" THEN None ELSE pending
  BY <1>1 DEF Call
<1>2. CASE IoWatchStdout
  <2>1. PICK text : Branches(text)
    BY <1>2 DEF IoWatchStdout, Branches
  <2>2. \E call : Call(call)
    BY <2>1 DEF Branches, ReadInNone, ReadInAuth, ReadInNew, ReadInRetype, ReadInDefault
  <2> QED BY <1>1, <2>2
<1>3. CASE ChildWatch
  <2>1. \E call : Call(call)
    BY <1>3 DEF ChildWatch
  <2> QED BY <1>1, <2>1
<1> QED BY <1>2, <1>3

\* The dialog is given back to the user only by the answer to his change, or with a
\* new handler.
LEMMA OneChangeStep ==
  OneChangeAtATime /\ [DialogNext]_allVars => OneChangeAtATime'
<1> SUFFICES ASSUME OneChangeAtATime, [DialogNext]_allVars, pending' # None
             PROVE  ~sensitive'
  BY DEF OneChangeAtATime
<1> USE DEF OneChangeAtATime
<1>1. ASSUME SetUser(user') PROVE pending # None
  BY <1>1 DEF SetUser, PasswdDestroyInit, HandlerUnchanged
<1>2. CASE OpenDialog \/ RefreshPanel \/ SelectUser
  <2>1. SetUser(user') /\ sensitive' = sensitive
    BY <1>2 DEF OpenDialog, RefreshPanel, SelectUser, SetUser
  <2> QED BY <1>1, <2>1
<1>3. CASE ReenterPanel
  BY <1>3 DEF ReenterPanel, PasswdDestroyInit
<1>4. CASE TypeOldPassword \/ TypeNewPassword \/ GeneratePassword \/ ChooseAction \/ Close
  BY <1>4 DEF TypeOldPassword, TypeNewPassword, GeneratePassword, ChooseAction, Close,
              HandlerUnchanged
<1>5. CASE SubmitOldPassword
  BY <1>5 DEF SubmitOldPassword, PasswdAuthenticate, AuthenticateIgnored, dialogVars
<1>6. CASE Accept
  <2>1. CASE AcceptNormal
    BY <2>1 DEF AcceptNormal, InsensitiveDuringChange, HandlerUnchanged
  <2>2. CASE AcceptOtherMode
    BY <2>2 DEF AcceptOtherMode
  <2> QED BY <1>6, <2>1, <2>2 DEF Accept
<1>7. CASE Cancel
  BY <1>7 DEF Cancel, HandlerUnchanged
<1>8. CASE DialogReadStdout \/ DialogReapChild
  <2>1. called'.cb # "chpasswd" /\ pending # None
    BY <1>8, CallAnswers DEF DialogReadStdout, DialogReapChild
  <2>2. NotCalled \/ AuthCb
    BY <1>8, <2>1 DEF DialogReadStdout, DialogReapChild, HandlerCallback, ChangeCall,
                      PasswordChanged, PasswordRejected, PasswordAuthFailed
  <2> QED BY <2>1, <2>2 DEF NotCalled, AuthCb, dialogVars
<1>9. CASE DialogExternal
  BY <1>9 DEF DialogExternal, PasswdProcess, notProcess, dialogVars
<1>10. CASE UNCHANGED allVars
  BY <1>10 DEF allVars, vars, dialogVars
<1> QED BY <1>2, <1>3, <1>4, <1>5, <1>6, <1>7, <1>8, <1>9, <1>10 DEF DialogNext

-----------------------------------------------------------------------------
\* What um_password_dialog_new leaves.
LEMMA DialogInitInv == DialogInit => DialogInv /\ OneChangeAtATime
<1> SUFFICES ASSUME DialogInit PROVE DialogInv /\ OneChangeAtATime
  OBVIOUS
<1>1. TypeOK
  BY InitTypeOK DEF DialogInit
<1>2. DialogFlagsOK /\ DialogValuesOK
  BY DEF DialogInit, DialogFlagsOK, DialogValuesOK, Texts, Modes
<1>3. ButtonEarned
  BY DEF DialogInit, ButtonEarned
<1>4. OneChangeAtATime
  BY DEF DialogInit, Init, OneChangeAtATime
<1> QED BY <1>1, <1>2, <1>3, <1>4 DEF DialogInv

\* In every reachable state the variables have their types, and the OK button of an
\* open dialog in normal mode is on only for two equal strong texts, and while the
\* dialog holds the current password for right.
THEOREM ButtonCurrent == DialogSpec => []OkButtonIsCurrent
<1>1. DialogInv /\ [DialogNext]_allVars => DialogInv'
  BY DialogTypeStep, ButtonStep DEF DialogInv
<1>2. DialogInv => OkButtonIsCurrent
  BY DialogTypes DEF DialogInv, OkButtonIsCurrent, ButtonEarned
<1> QED BY DialogInitInv, <1>1, <1>2, PTL DEF DialogSpec

\* In every reachable state of the dialog in which a change is awaited the dialog is
\* insensitive: the handler is never asked for a second change.
THEOREM OneChange == DialogSpec => []OneChangeAtATime
BY DialogInitInv, OneChangeStep, PTL DEF DialogSpec

=============================================================================
