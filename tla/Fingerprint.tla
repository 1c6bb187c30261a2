------------------------------ MODULE Fingerprint ------------------------------
(***************************************************************************)
(* Fingerprint login (um-fingerprint-dialog.c): the label of the panel,    *)
(* the question before fingerprints are deleted and the assistant that     *)
(* enrolls a finger.                                                       *)
(*                                                                         *)
(* fprintd is called synchronously; its signals are read between, from the *)
(* main loop and from those of error dialogs, and may be about a capture   *)
(* that was given up.  The page of the capture is prepared again each time *)
(* the user comes back to it.                                              *)
(***************************************************************************)
EXTENDS Integers, Sequences

CONSTANTS
  Fingers,   \* what may be chosen on the first page; the first is chosen there
  First,
  Stages,    \* how often a finger is scanned
  MaxActions, MaxChanges

VARIABLES
  panel,   \* the label, the assistant and its data
  calls,   \* signals of the device that were not read
  world    \* the device, fprintd's prints and the counters

vars == <<panel, calls, world>>

None == "none"

-----------------------------------------------------------------------------
(***************************************************************************)
(* Calls to the device.  A claim is ours, somebody else's or nobody's.     *)
(***************************************************************************)
Claim(s) == [s EXCEPT !.w.claim = "ours", !.p.state = "CLAIMED"]
CanStart(s) == s.w.claim = "ours" /\ s.w.enroll = None
EnrollStart(s) ==
  IF CanStart(s) THEN [s EXCEPT !.w.enroll = "scanning", !.w.finger = s.p.finger, !.w.scans = 0] ELSE s
EnrollStop(s) == IF s.w.claim = "ours" THEN [s EXCEPT !.w.enroll = None] ELSE s
Release(s) == IF s.w.claim = "ours" THEN [s EXCEPT !.w.claim = None, !.w.enroll = None] ELSE s

\* Mutant: only what is claimed and idle is given back.
LetGoClaimed(s) ==
  [(IF s.p.state = "CLAIMED" THEN Release(s) ELSE s) EXCEPT !.p.state = "NONE"]

\* What is held is given back, one state after the other.
LetGo(s) ==
  LET t == IF s.p.state = "ENROLLING" THEN EnrollStop(s) ELSE s
  IN [(IF s.p.state = "NONE" THEN s ELSE Release(t)) EXCEPT !.p.state = "NONE"]
\* Handlers of the signals go with the proxy of the device.
EnrollDataDestroy(s) ==
  [LetGo(s) EXCEPT !.p = [@ EXCEPT !.page = None, !.state = "NONE", !.finger = First, !.done = 0,
                                   !.handlers = 0, !.complete = FALSE, !.dialog = None],
                   !.c = <<>>]

\* The label, and whether a click on it deletes; without a device both stay.
SetFingerprintLabel(s) ==
  IF ~s.w.device THEN s
  ELSE [s EXCEPT !.p.disable = (s.w.prints # {}), !.p.label = (s.w.prints # {}), !.w.foreign = FALSE]

-----------------------------------------------------------------------------
(***************************************************************************)
(* A signal of the device; after a failure the capture begins again.       *)
(***************************************************************************)
EnrollResult(s, signal) ==
  LET completed == signal.result = "enroll-completed"
      counted == [s EXCEPT !.p.done = IF completed \/ signal.result = "enroll-stage-passed" THEN @ + 1 ELSE @,
                           !.p.complete = @ \/ completed]
      stopped == [EnrollStop(counted) EXCEPT !.p.state = "CLAIMED"]
  IN IF ~signal.done THEN counted
     ELSE IF completed THEN stopped
     ELSE [EnrollStart(stopped) EXCEPT !.p.state = "ENROLLING"]
\* Each time the page was prepared a handler was connected, and none is disconnected.  Those after the
\* first count the stage once more, and stop and start again what the first one stopped and started.
DeviceSignal(s, signal) ==
  LET once == EnrollResult(s, signal) IN
  IF s.p.handlers = 0 THEN s ELSE [once EXCEPT !.p.done = s.p.done + s.p.handlers * (@ - s.p.done)]

\* The pages; those but the capture give the device back.  An attempt that fails shows an error,
\* and the assistant goes when that is closed.
Failed(s) == [s EXCEPT !.p.dialog = "error"]
PrepareEnroll(s, stages, starts) ==
  LET t == Claim([s EXCEPT !.p.page = "enroll"])
      u == [t EXCEPT !.p.handlers = @ + 1]
  IN IF s.w.claim # None \/ ~s.w.device THEN Failed([s EXCEPT !.p.page = "enroll"])
     ELSE IF ~stages THEN Failed(t)
     ELSE IF ~starts THEN Failed(u)
     ELSE [EnrollStart(u) EXCEPT !.p.state = "ENROLLING"]
PrepareOther(s, page) == LetGo([s EXCEPT !.p.page = page])

-----------------------------------------------------------------------------
Init ==
  \E prints \in {{}, {First}} :
    /\ panel = [label |-> prints # {}, disable |-> prints # {}, dialog |-> None, page |-> None, state |-> "NONE",
                finger |-> First, done |-> 0, handlers |-> 0, complete |-> FALSE]
    /\ calls = <<>>
    /\ world = [device |-> TRUE, claim |-> None, enroll |-> None, finger |-> First, scans |-> 0, prints |-> prints,
                foreign |-> FALSE, taken |-> FALSE, acts |-> 0, changes |-> 0]

State == [p |-> panel, c |-> calls, w |-> world]
Becomes(s) == panel' = s.p /\ calls' = s.c /\ world' = s.w
ByUser(s) == world.acts < MaxActions /\ Becomes([s EXCEPT !.w.acts = @ + 1])
ByOthers(s) == world.changes < MaxChanges /\ Becomes([s EXCEPT !.w.changes = @ + 1])
At(page) == panel.dialog = None /\ panel.page = page

-----------------------------------------------------------------------------
(***************************************************************************)
(* What the user does.                                                     *)
(***************************************************************************)
ButtonClicked ==
  /\ At(None)
  /\ ByUser(IF panel.disable THEN [State EXCEPT !.p.dialog = "question"]
            ELSE IF ~world.device THEN Failed(State)
            ELSE [State EXCEPT !.p.page = "intro"])
\* The prints are deleted unless somebody else has the device; the label tells what is left.
QuestionAnswered(delete) ==
  /\ panel.dialog = "question"
  /\ LET s == [State EXCEPT !.p.dialog = None]
         deleted == IF world.device /\ world.claim = None THEN [s EXCEPT !.w.prints = {}] ELSE s
     IN Becomes(IF delete THEN SetFingerprintLabel(deleted) ELSE s)
FingerSelected(finger) ==
  At("intro") /\ finger # panel.finger /\ ByUser([State EXCEPT !.p.finger = finger])
Forward == At("intro") /\ ByUser(PrepareEnroll(State, TRUE, TRUE))
ForwardFails(stages) == At("intro") /\ ByOthers(PrepareEnroll(State, stages, FALSE))
\* The page stays complete once a finger was captured.
ForwardToSummary == At("enroll") /\ panel.complete /\ Becomes(PrepareOther(State, "summary"))
Back == At("enroll") /\ ByUser(PrepareOther(State, "intro"))
AssistantCancelled ==
  panel.page # None /\ panel.dialog = None /\ Becomes(SetFingerprintLabel(EnrollDataDestroy(State)))
\* The label is not set after an error.
ErrorClosed ==
  /\ panel.dialog = "error"
  /\ LET s == EnrollDataDestroy(State)
     IN Becomes([s EXCEPT !.w.foreign = @ \/ (panel.label # (world.prints # {}))])

-----------------------------------------------------------------------------
(***************************************************************************)
(* The device, fprintd and the panel behind.                               *)
(***************************************************************************)
SignalRead ==
  calls # <<>> /\ panel.page # None /\ Becomes(DeviceSignal([State EXCEPT !.c = Tail(@)], Head(calls)))

Scanning == world.claim = "ours" /\ world.enroll = "scanning"
Emit(s, result, done) == [s EXCEPT !.c = Append(@, [result |-> result, done |-> done])]
StagePassed ==
  Scanning /\ world.scans + 1 < Stages /\ Becomes(Emit([State EXCEPT !.w.scans = @ + 1], "enroll-stage-passed", FALSE))
ScanFails(result, done) ==
  Scanning /\ ByOthers(Emit([State EXCEPT !.w.enroll = IF done THEN "ended" ELSE @], result, done))
EnrollCompletes ==
  /\ Scanning /\ world.scans + 1 = Stages
  /\ Becomes(Emit([State EXCEPT !.w.enroll = "ended", !.w.prints = @ \cup {world.finger}], "enroll-completed", TRUE))
DeviceGone ==
  world.device /\ ByOthers([State EXCEPT !.w.device = FALSE, !.w.claim = None, !.w.enroll = None])
OthersClaim == world.device /\ world.claim = None /\ ByOthers([State EXCEPT !.w.claim = "other"])
OthersRelease == world.claim = "other" /\ Becomes([State EXCEPT !.w.claim = None])
PrintsChanged ==
  /\ world.device /\ world.claim = None
  /\ ByOthers([State EXCEPT !.w.prints = IF @ = {} THEN {First} ELSE {}, !.w.foreign = TRUE, !.w.taken = TRUE])
\* The accounts service tells of a change, and the details are shown again.
ShowUser == Becomes(SetFingerprintLabel(State))

Next ==
  \/ ButtonClicked
  \/ \E delete \in BOOLEAN : QuestionAnswered(delete)
  \/ \E finger \in Fingers : FingerSelected(finger)
  \/ Forward
  \/ \E stages \in BOOLEAN : ForwardFails(stages)
  \/ ForwardToSummary \/ Back \/ AssistantCancelled \/ ErrorClosed
  \/ SignalRead
  \/ StagePassed \/ ScanFails("enroll-retry-scan", FALSE) \/ ScanFails("enroll-failed", TRUE)
  \/ EnrollCompletes
  \/ DeviceGone \/ OthersClaim \/ OthersRelease \/ PrintsChanged \/ ShowUser
Spec == Init /\ [][Next]_vars

-----------------------------------------------------------------------------
(***************************************************************************)
(* Properties.                                                             *)
(***************************************************************************)
\* The state of the assistant is never less than what it holds of the device, though late signals and
\* nested main loops change it, so that the device is given back however the assistant ends.
DeviceIsReleased ==
  /\ world.claim = "ours" => panel.page # None /\ panel.state # "NONE"
  /\ world.claim = "ours" /\ world.enroll # None => panel.state = "ENROLLING"

\* The finger that is captured is the one that was chosen.
EnrollsTheFingerChosen ==
  world.claim = "ours" /\ world.enroll # None => world.finger = panel.finger /\ panel.page = "enroll"

\* Without an assistant or a question the label tells whether there are prints, and a click deletes
\* only if it says so, unless others changed them or an attempt ended with an error.  Who comes to the
\* summary has a print.
LabelTellsPrints ==
  /\ panel.label = panel.disable
  /\ world.device /\ At(None) /\ ~world.foreign => panel.label = (world.prints # {})
  /\ panel.complete => world.prints # {} \/ world.taken
=============================================================================
