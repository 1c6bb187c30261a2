------------------------ MODULE PrinterDialogsProofs ------------------------
(***************************************************************************)
(* Proofs about the modal dialogs of the printers panel: no answer comes   *)
(* to a handler whose data is gone, the buttons of the jobs dialog match   *)
(* the job they work on, and what the user adds is the device selected.    *)
(***************************************************************************)
EXTENDS PrinterDialogs, FiniteSetTheorems, SequenceTheorems, WellFoundedInduction, TLAPS

-----------------------------------------------------------------------------
(***************************************************************************)
(* The dialog that looks for printers: what it waits for is cancelled when *)
(* it is hidden, and the addition outlives it only in states that do not   *)
(* need it.                                                                *)
(***************************************************************************)

Waits == pending.dests \/ pending.backend > 0 \/ pending.groups # <<>> \/ pending.hosts # {}

\* The dialog is a record of the same fields always.
DialogIsRecord == DOMAIN dialog = DOMAIN NewDialog

\* Before the user has pressed Add there is no addition, and one that goes on still has
\* its dialog, hidden, unless it was cancelled.
Idle == {"none", "done", "abandoned"}
AdditionOK ==
  /\ dialog.shown => dialog.open /\ add.pc = "none"
  /\ (add.pc \notin Idle /\ ~add.cancelled) => dialog.open

\* The calls of the configuration and the parts it has finished.
Excused(a) == IF Info[a.uri].network THEN {"autoconfigure"} ELSE {}
PartsOK ==
  /\ DOMAIN add = DOMAIN NoAdd
  /\ add.calls # {} => add.pc = "configure" /\ add.data = "live"
  /\ add.calls \subseteq Parts \ Excused(add)
  /\ add.calls \cap add.finished = {}
  /\ add.pc \notin {"configure", "complete", "done"} => add.finished = {}

NewPrinterInv ==
  /\ DialogIsRecord
  /\ Waits => dialog.open /\ dialog.shown
  /\ AdditionOK
  /\ PartsOK

\* Two states of the dialog between which it was neither closed nor hidden.
SameLife(d, e) == DOMAIN e = DOMAIN d /\ e.open = d.open /\ e.shown = d.shown

\* The fields that matter here are fields of the dialog.
LEMMA DialogFields ==
  /\ {"open", "shown", "devices", "new_devices", "dests", "known", "early", "cups_searching",
      "remote_searching", "snmp_searching", "spinner", "rows", "notice", "selected",
      "response"} = DOMAIN NewDialog
  /\ NewDialog.open /\ NewDialog.shown
BY DEF NewDialog

\* The helpers change the lists, the searches and the rows of the dialog only.
LEMMA HelpersKeepLife ==
  ASSUME NEW d, DOMAIN d = DOMAIN NewDialog
  PROVE  /\ SameLife(d, UpdateSpinnerState(d))
         /\ SameLife(d, ActualizeDevicesList(d))
         /\ \A uris : SameLife(d, AddDevicesToList(d, uris, "devices"))
         /\ \A uris : SameLife(d, AddDevicesToList(d, uris, "new_devices"))
<1>1. ASSUME NEW e, DOMAIN e = DOMAIN NewDialog PROVE SameLife(e, UpdateSpinnerState(e))
  BY <1>1, DialogFields DEF UpdateSpinnerState, SameLife
<1>2. SameLife(d, ActualizeDevicesList(d))
  <2> DEFINE rows == Kept(d.devices, {i \in DOMAIN d.devices : d.devices[i].show})
             searching == d.cups_searching \/ d.remote_searching \/ d.snmp_searching
             e == [d EXCEPT !.rows = rows, !.notice = rows = <<>> /\ ~searching,
                            !.selected = IF rows = <<>> THEN 0 ELSE 1]
  <2>1. ActualizeDevicesList(d) = UpdateSpinnerState(e)
    BY DEF ActualizeDevicesList
  <2> HIDE DEF rows, searching
  <2>2. SameLife(d, e)
    BY DialogFields DEF SameLife
  <2> HIDE DEF e
  <2>3. SameLife(e, UpdateSpinnerState(e))
    BY <1>1, <2>2 DEF SameLife
  <2> QED BY <2>1, <2>2, <2>3 DEF SameLife
<1>3. ASSUME NEW uris, NEW list \in {"devices", "new_devices"}
      PROVE  SameLife(d, AddDevicesToList(d, uris, list))
  <2>1. PICK last : AddDevicesToList(d, uris, list) = [d EXCEPT ![list] = last[list], !.early = last.early]
    BY DEF AddDevicesToList
  <2> QED BY <2>1, DialogFields DEF SameLife
<1> QED BY <1>1, <1>2, <1>3

\* A step that neither closes nor hides the dialog, starts no call of a search unless
\* there is one, and leaves the addition alone.
LEMMA SearchFrameInv ==
  ASSUME NewPrinterInv, SameLife(dialog, dialog'), add' = add,
         Waits' => dialog.open /\ dialog.shown
  PROVE  NewPrinterInv'
<1>1. DialogIsRecord' /\ (Waits' => dialog'.open /\ dialog'.shown)
  BY DEF NewPrinterInv, DialogIsRecord, SameLife
<1>2. AdditionOK'
  BY DEF NewPrinterInv, AdditionOK, SameLife
<1>3. PartsOK'
  BY DEF NewPrinterInv, PartsOK, Excused
<1> QED BY <1>1, <1>2, <1>3 DEF NewPrinterInv

\* The answers of the searches come only to a dialog that is shown, and keep it.
LEMMA SearchAnswersInv ==
  ASSUME NewPrinterInv, SearchAnswers
  PROVE  NewPrinterInv'
<1> USE DialogFields DEF NewPrinterInv, DialogIsRecord
<1>1. ASSUME NEW ok \in BOOLEAN, CupsGetDestsAnswer(ok) PROVE NewPrinterInv'
  <2> DEFINE d == [dialog EXCEPT !.dests = IF ok THEN DOMAIN queues ELSE {},
                                 !.known = ok, !.cups_searching = TRUE]
  <2>1. Waits /\ add' = add /\ dialog' = UpdateSpinnerState(d)
    BY <1>1 DEF CupsGetDestsAnswer, SearchFrame, Waits
  <2>2. SameLife(dialog, d)
    BY DEF SameLife
  <2> HIDE DEF d
  <2>3. SameLife(d, dialog')
    BY <2>1, <2>2, HelpersKeepLife DEF SameLife
  <2> QED BY <2>1, <2>2, <2>3, SearchFrameInv DEF SameLife
<1>2. ASSUME NEW ok \in BOOLEAN, NEW found \in SUBSET Devices, GetCupsDevicesAnswer(found, ok)
      PROVE  NewPrinterInv'
  <2> DEFINE finished == ~ok \/ pending.backend = Backends
             d == [dialog EXCEPT !.cups_searching = @ /\ ~finished]
  <2>1. Waits /\ add' = add
    BY <1>2 DEF GetCupsDevicesAnswer, SearchFrame, Waits
  <2>2. dialog' = IF found = {} THEN ActualizeDevicesList(d)
                  ELSE AddDevicesToList(d, found, "new_devices")
    BY <1>2 DEF GetCupsDevicesAnswer
  <2>3. SameLife(dialog, d)
    BY DEF SameLife
  <2> HIDE DEF d
  <2>4. SameLife(d, dialog')
    BY <2>2, <2>3, HelpersKeepLife DEF SameLife
  <2> QED BY <2>1, <2>3, <2>4, SearchFrameInv DEF SameLife
<1>3. ASSUME NEW ok \in BOOLEAN, GroupPhysicalDevicesAnswer(ok) PROVE NewPrinterInv'
  <2>1. Waits /\ add' = add
    BY <1>3 DEF GroupPhysicalDevicesAnswer, SearchFrame, Waits
  <2>2. PICK lists : dialog' = ActualizeDevicesList([dialog EXCEPT !.devices = lists.devices,
                                                           !.new_devices = lists.new_devices])
    BY <1>3 DEF GroupPhysicalDevicesAnswer
  <2> DEFINE d == [dialog EXCEPT !.devices = lists.devices, !.new_devices = lists.new_devices]
  <2>3. SameLife(dialog, d)
    BY DEF SameLife
  <2>4. dialog' = ActualizeDevicesList(d)
    BY <2>2
  <2> HIDE DEF d
  <2>5. SameLife(d, dialog')
    BY <2>3, <2>4, HelpersKeepLife DEF SameLife
  <2> QED BY <2>1, <2>3, <2>5, SearchFrameInv DEF SameLife
<1>4. ASSUME NEW ok \in BOOLEAN, NEW call \in pending.hosts, NEW found \in SUBSET Devices,
             HostAnswer(call, found, ok)
      PROVE  NewPrinterInv'
  <2> DEFINE flag == IF call[1] = "remote" THEN "remote_searching" ELSE "snmp_searching"
             c == [dialog EXCEPT ![flag] = FALSE]
             d == UpdateSpinnerState(c)
  <2>1. Waits /\ add' = add
    BY <1>4 DEF HostAnswer, SearchFrame, Waits
  <2>2. dialog' = IF ok THEN ActualizeDevicesList(AddDevicesToList(d, found, "devices")) ELSE d
    BY <1>4 DEF HostAnswer
  <2>3. SameLife(dialog, c)
    BY DEF SameLife
  <2> HIDE DEF c
  <2>4. SameLife(c, d)
    BY <2>3, HelpersKeepLife DEF SameLife
  <2> HIDE DEF d
  <2>5. SameLife(d, AddDevicesToList(d, found, "devices"))
    BY <2>3, <2>4, HelpersKeepLife DEF SameLife
  <2>6. SameLife(AddDevicesToList(d, found, "devices"),
                 ActualizeDevicesList(AddDevicesToList(d, found, "devices")))
    BY <2>3, <2>4, <2>5, HelpersKeepLife DEF SameLife
  <2>7. SameLife(dialog, dialog')
    BY <2>2, <2>3, <2>4, <2>5, <2>6 DEF SameLife
  <2> QED BY <2>1, <2>7, SearchFrameInv
<1> QED BY <1>1, <1>2, <1>3, <1>4 DEF SearchAnswers

\* The user searches and selects only in a dialog that is shown.
LEMMA UserLooksInv ==
  ASSUME NewPrinterInv,
         \/ \E text \in Texts : SearchAddress(text)
         \/ \E i \in DOMAIN dialog.rows : SelectDevice(i)
  PROVE  NewPrinterInv'
<1> USE DialogFields DEF NewPrinterInv, DialogIsRecord
<1>1. ASSUME NEW text \in Texts, SearchAddress(text) PROVE NewPrinterInv'
  <2>1. dialog.open /\ dialog.shown /\ add' = add
    BY <1>1 DEF SearchAddress, SearchFrame, UserLooks
  <2>2. \E d : SameLife(dialog, d) /\ dialog' = ActualizeDevicesList(d)
    <3> DEFINE matches(e) == text.words = 0 \/ Info[e.uri].base \in text.matches
               filtered == [i \in DOMAIN dialog.devices |->
                              [dialog.devices[i] EXCEPT !.show = matches(dialog.devices[i])]]
               address == text.words = 1 /\ \A i \in DOMAIN dialog.devices : ~matches(dialog.devices[i])
               local(list) == Kept(list, {i \in DOMAIN list : Info[list[i].uri].method = "cups"})
               all == [i \in DOMAIN dialog.devices |-> [dialog.devices[i] EXCEPT !.show = TRUE]]
               old == local(all)
               new == local(dialog.new_devices)
               searched == [dialog EXCEPT !.devices = old, !.new_devices = new,
                                          !.remote_searching = TRUE, !.snmp_searching = TRUE]
               other == [dialog EXCEPT !.devices = filtered]
    <3>1. dialog' = ActualizeDevicesList(IF address THEN searched ELSE other)
      BY <1>1 DEF SearchAddress
    <3> HIDE DEF old, new, filtered, address
    <3>2. SameLife(dialog, searched) /\ SameLife(dialog, other)
      BY DEF SameLife
    <3> HIDE DEF searched, other
    <3> QED BY <3>1, <3>2
  <2>3. SameLife(dialog, dialog')
    BY <2>2, HelpersKeepLife DEF SameLife
  <2> QED BY <2>1, <2>3, SearchFrameInv
<1>2. ASSUME NEW i \in DOMAIN dialog.rows, SelectDevice(i) PROVE NewPrinterInv'
  <2>1. dialog.open /\ dialog.shown /\ add' = add /\ dialog' = [dialog EXCEPT !.selected = i]
    BY <1>2 DEF SelectDevice, SearchFrame, UserLooks
  <2>2. SameLife(dialog, dialog')
    BY <2>1 DEF SameLife
  <2> QED BY <2>1, <2>2, SearchFrameInv
<1> QED BY <1>1, <1>2

\* Closing the dialog cancels what it waits for.
LEMMA ClosesFacts ==
  ASSUME NEW response, Closes(response)
  PROVE  DialogIsRecord' /\ ~Waits' /\ ~dialog'.open /\ ~dialog'.shown
<1>1. pending' = NoCalls
  BY DEF Closes, Cancelled
<1>2. ~Waits'
  BY <1>1 DEF Waits, NoCalls
<1>3. dialog' = Finalized(response)
  BY DEF Closes
<1>4. DialogIsRecord' /\ ~dialog'.open /\ ~dialog'.shown
  BY <1>3 DEF Finalized, Hidden, NewDialog, DialogIsRecord
<1> QED BY <1>2, <1>4

\* Add hides the dialog and starts the addition; Cancel and the end of the panel close it.
LEMMA ResponseInv ==
  ASSUME NewPrinterInv, ResponseOk \/ ResponseCancel \/ PanelDisposed
  PROVE  NewPrinterInv'
<1> USE DEF NewPrinterInv
<1>1. CASE ResponseOk
  <2> DEFINE row == dialog.rows[dialog.selected]
             named == {i \in DOMAIN dialog.devices : dialog.devices[i].name = row.name}
             device == dialog.devices[CHOOSE i \in named : \A j \in named : i <= j]
             step == IF Info[device.uri].method = "remote" THEN "remote_ppd" ELSE "drivers"
  <2>1. /\ dialog' = Hidden(device.name)
        /\ pending' = Cancelled
        /\ add' = IF named = {} THEN add
                  ELSE [NoAdd EXCEPT !.pc = step, !.uri = device.uri, !.chosen = row.uri,
                                     !.name = device.name]
    BY <1>1 DEF ResponseOk
  <2> HIDE DEF row, named, device, step
  <2>2. DialogIsRecord' /\ dialog'.open /\ ~dialog'.shown
    BY <2>1 DEF Hidden, NewDialog, DialogIsRecord
  <2>3. ~Waits'
    BY <2>1 DEF Waits, Cancelled, NoCalls
  <2>4. AdditionOK'
    BY <2>2 DEF AdditionOK
  <2>5. PartsOK'
    <3>1. CASE add' = add
      BY <3>1 DEF PartsOK, Excused
    <3>2. CASE add' # add
      <4>1. /\ DOMAIN add' = DOMAIN NoAdd /\ add'.calls = {} /\ add'.finished = {}
        BY <2>1, <3>2 DEF NoAdd
      <4> QED BY <4>1 DEF PartsOK
    <3> QED BY <3>1, <3>2
  <2> QED BY <2>2, <2>3, <2>4, <2>5
<1>2. CASE ResponseCancel
  <2>1. Closes("cancel") /\ add' = add /\ dialog.shown
    BY <1>2 DEF ResponseCancel, SearchFrame, UserLooks
  <2>2. DialogIsRecord' /\ ~Waits' /\ ~dialog'.open /\ ~dialog'.shown
    BY <2>1, ClosesFacts
  <2>3. AdditionOK'
    BY <2>1, <2>2 DEF AdditionOK, Idle
  <2>4. PartsOK'
    BY <2>1 DEF PartsOK, Excused
  <2> QED BY <2>2, <2>3, <2>4
<1>3. CASE PanelDisposed
  <2>1. Closes("none") /\ add' = [add EXCEPT !.cancelled = TRUE]
    BY <1>3 DEF PanelDisposed
  <2>2. DialogIsRecord' /\ ~Waits' /\ ~dialog'.open /\ ~dialog'.shown
    BY <2>1, ClosesFacts
  <2>3. /\ DOMAIN add' = DOMAIN NoAdd /\ add'.cancelled /\ add'.calls = add.calls
        /\ add'.finished = add.finished /\ add'.pc = add.pc /\ add'.data = add.data
        /\ add'.uri = add.uri
    BY <2>1 DEF PartsOK, NoAdd
  <2>4. AdditionOK'
    BY <2>2, <2>3 DEF AdditionOK
  <2>5. PartsOK'
    BY <2>3 DEF PartsOK, Excused
  <2> QED BY <2>2, <2>4, <2>5
<1> QED BY <1>1, <1>2, <1>3

\* A step of the addition that leaves the dialog and the searches alone.
LEMMA AddFrameInv ==
  ASSUME NewPrinterInv, UNCHANGED <<dialog, pending>>, AdditionOK', PartsOK'
  PROVE  NewPrinterInv'
BY DEF NewPrinterInv, DialogIsRecord, Waits

\* A step of the chain to another place in it, but not into the configuration.
LEMMA GotoInv ==
  ASSUME NewPrinterInv, UNCHANGED <<dialog, pending>>, NEW pc, Goto(pc),
         add.pc \notin Idle, add.calls = {},
         add.pc \in {"configure", "complete", "done"} => pc \in {"configure", "complete", "done"}
  PROVE  NewPrinterInv'
<1>1. /\ DOMAIN add' = DOMAIN NoAdd /\ add'.pc = pc /\ add'.cancelled = add.cancelled
      /\ add'.calls = {} /\ add'.finished = add.finished
  BY DEF NewPrinterInv, PartsOK, NoAdd, Goto
<1>2. AdditionOK'
  BY <1>1 DEF NewPrinterInv, AdditionOK, Idle
<1>3. PartsOK'
  BY <1>1 DEF NewPrinterInv, PartsOK
<1> QED BY <1>2, <1>3, AddFrameInv

\* The requests before the configuration.
LEMMA ChainInv ==
  ASSUME NewPrinterInv, NEW ok \in BOOLEAN,
         \/ GetBestDriversAnswer(ok) \/ InstallPrinterDriversAnswer \/ GetBestDriversAgain(ok)
         \/ RemotePpdAnswer(ok) \/ PrinterAddAnswer(ok) \/ GetNamedDestAnswer
  PROVE  NewPrinterInv'
<1> USE DEF NewPrinterInv
<1>1. /\ add.pc \notin {"configure", "complete", "done"} /\ add.pc \notin Idle
      /\ add.calls = {} /\ add.finished = {} /\ UNCHANGED <<dialog, pending>>
  BY DEF GetBestDriversAnswer, InstallPrinterDriversAnswer, GetBestDriversAgain, RemotePpdAnswer,
         PrinterAddAnswer, GetNamedDestAnswer, At, AddFrame, Idle, PartsOK
<1>2. CASE \E pc \in {"abandoned", "add", "install", "drivers_again", "complete"} : Goto(pc)
  BY <1>1, <1>2, GotoInv
<1>3. CASE PrinterAddAnswer(ok)
  <2>1. /\ DOMAIN add' = DOMAIN NoAdd /\ add'.pc = "verify" /\ add'.cancelled = add.cancelled
        /\ add'.calls = {} /\ add'.finished = {}
    BY <1>1, <1>3 DEF PrinterAddAnswer, PartsOK, NoAdd
  <2>2. AdditionOK' /\ PartsOK'
    BY <1>1, <2>1 DEF AdditionOK, PartsOK, Idle
  <2> QED BY <1>1, <2>2, AddFrameInv
<1>4. CASE add' = Configured(add)
  <2>1. /\ DOMAIN add' = DOMAIN NoAdd /\ add'.pc = "configure" /\ add'.cancelled = add.cancelled
        /\ add'.data = "live" /\ add'.finished = {} /\ add'.uri = add.uri
    BY <1>1, <1>4 DEF Configured, PartsOK, NoAdd
  <2>2. add'.calls = IF Info[add.uri].network THEN Parts \ {"autoconfigure"} ELSE Parts
    BY <1>4 DEF Configured, PartsOK, NoAdd
  <2>3. add'.calls = Parts \ Excused(add')
    BY <2>1, <2>2 DEF Excused
  <2>4. AdditionOK'
    BY <1>1, <2>1 DEF AdditionOK, Idle
  <2>5. PartsOK'
    BY <2>1, <2>3 DEF PartsOK
  <2> QED BY <1>1, <2>4, <2>5, AddFrameInv
<1> QED BY <1>2, <1>3, <1>4
        DEF GetBestDriversAnswer, InstallPrinterDriversAnswer, GetBestDriversAgain, RemotePpdAnswer,
            GetNamedDestAnswer, Goto, Fails

\* A part of the configuration that ends: the record that the parts share is freed only
\* with the last call, because every part that has not finished still has one.
LEMMA PartDoneInv ==
  ASSUME NewPrinterInv, NEW part \in add.calls, NEW ok \in BOOLEAN, PartDone(part, ok),
         UNCHANGED <<dialog, pending>>
  PROVE  NewPrinterInv'
<1> USE DEF NewPrinterInv
<1> DEFINE a == [add EXCEPT !.calls = @ \ {part}, !.finished = @ \cup {part},
                            !.refused = IF ok THEN @ ELSE @ \cup {part}]
<1>1. /\ add.pc = "configure" /\ add.data = "live" /\ part \in Parts \ Excused(add)
  BY DEF PartsOK
<1>2. /\ DOMAIN a = DOMAIN NoAdd /\ a.pc = "configure" /\ a.data = "live" /\ a.uri = add.uri
      /\ a.cancelled = add.cancelled /\ a.calls = add.calls \ {part}
      /\ a.finished = add.finished \cup {part}
  BY <1>1 DEF PartsOK, NoAdd
<1>3. add' = ConfigureFinish(a)
  BY DEF PartDone
<1> HIDE DEF a
<1>4. Excused(a) = Excused(add)
  BY <1>2 DEF Excused
<1>5. a.calls \subseteq Parts \ Excused(a) /\ a.calls \cap a.finished = {}
  BY <1>1, <1>2, <1>4 DEF PartsOK
<1>6. CASE Parts \subseteq a.finished \cup Excused(a)
  <2>1. add' = [a EXCEPT !.pc = "complete", !.success = TRUE, !.data = "freed"]
    BY <1>3, <1>6 DEF ConfigureFinish, Excused
  <2>2. /\ DOMAIN add' = DOMAIN NoAdd /\ add'.pc = "complete" /\ add'.uri = a.uri
        /\ add'.cancelled = add.cancelled /\ add'.calls = a.calls /\ add'.finished = a.finished
    BY <1>2, <2>1 DEF NoAdd
  <2>3. a.calls = {}
    BY <1>5, <1>6
  <2>4. AdditionOK'
    BY <1>1, <2>2 DEF AdditionOK, Idle
  <2>5. PartsOK'
    BY <2>2, <2>3 DEF PartsOK
  <2> QED BY <2>4, <2>5, AddFrameInv
<1>7. CASE ~(Parts \subseteq a.finished \cup Excused(a))
  <2>1. add' = a
    BY <1>3, <1>7 DEF ConfigureFinish, Excused
  <2>2. AdditionOK'
    BY <1>1, <1>2, <2>1 DEF AdditionOK, Idle
  <2>3. PartsOK'
    BY <1>2, <1>5, <2>1 DEF PartsOK
  <2> QED BY <2>2, <2>3, AddFrameInv
<1> QED BY <1>6, <1>7

\* The answers of the configuration, each with the call it takes away, or with the next
\* call of the part that has several.
LEMMA ConfigureInv ==
  ASSUME NewPrinterInv, NEW ok \in BOOLEAN,
         \/ \E part \in add.calls : SetAnswer(part, ok) \/ PartAnswer(part)
         \/ ExecutablesStep(ok)
  PROVE  NewPrinterInv'
<1>1. ASSUME NEW part \in add.calls, SetAnswer(part, ok) \/ PartAnswer(part)
      PROVE  NewPrinterInv'
  <2>1. UNCHANGED <<dialog, pending>> /\ (PartDone(part, ok) \/ PartDone(part, TRUE))
    BY <1>1 DEF SetAnswer, PartAnswer, AddFrame
  <2> QED BY <2>1, PartDoneInv
<1>2. ASSUME ExecutablesStep(ok) PROVE NewPrinterInv'
  <2>1. "executables" \in add.calls /\ UNCHANGED <<dialog, pending>>
    BY <1>2 DEF ExecutablesStep, AddFrame
  <2>2. CASE PartDone("executables", TRUE)
    BY <2>1, <2>2, PartDoneInv
  <2>3. ASSUME ~PartDone("executables", TRUE) PROVE NewPrinterInv'
    <3> DEFINE searched == add.step = "files" /\ add.files = 0
               step == CASE add.step = "ppd" -> "missing"
                         [] add.step = "missing" -> "files"
                         [] searched -> "packages"
                         [] OTHER -> "files"
               files == IF add.step = "missing" THEN 1
                        ELSE IF add.step = "files" /\ add.files > 0 THEN add.files - 1
                        ELSE add.files
               packages == add.packages \/ (add.step = "files" /\ ok)
    <3>1. add' = [add EXCEPT !.step = step, !.files = files, !.packages = packages]
      BY <1>2, <2>3, Zenon DEF ExecutablesStep
    <3> HIDE DEF step, files, packages
    <3>2. /\ DOMAIN add' = DOMAIN NoAdd /\ add'.pc = add.pc /\ add'.data = add.data
          /\ add'.uri = add.uri /\ add'.cancelled = add.cancelled
          /\ add'.calls = add.calls /\ add'.finished = add.finished
      BY <3>1 DEF NewPrinterInv, PartsOK, NoAdd
    <3>3. AdditionOK'
      BY <2>1, <3>2 DEF NewPrinterInv, AdditionOK
    <3>4. PartsOK'
      BY <3>2 DEF NewPrinterInv, PartsOK, Excused
    <3> QED BY <2>1, <3>3, <3>4, AddFrameInv
  <2> QED BY <2>2, <2>3
<1> QED BY <1>1, <1>2

\* The end of the chain: a cancelled addition does not touch the dialog any more.
LEMMA AddCompleteInv ==
  ASSUME NewPrinterInv, AddComplete
  PROVE  NewPrinterInv'
<1> USE DEF NewPrinterInv
<1>1. add.pc = "complete" /\ add.calls = {}
  BY DEF AddComplete, At, PartsOK
<1>2. CASE add.cancelled
  BY <1>1, <1>2, GotoInv DEF AddComplete, Idle
<1>3. CASE ~add.cancelled
  <2>1. /\ Closes(IF add.success THEN "ok" ELSE "reject")
        /\ add' = [add EXCEPT !.pc = "done", !.cancelled = TRUE]
    BY <1>3 DEF AddComplete
  <2>2. DialogIsRecord' /\ ~Waits' /\ ~dialog'.open /\ ~dialog'.shown
    BY <2>1, ClosesFacts
  <2>3. /\ DOMAIN add' = DOMAIN NoAdd /\ add'.pc = "done" /\ add'.calls = {}
    BY <1>1, <2>1 DEF PartsOK, NoAdd
  <2>4. AdditionOK' /\ PartsOK'
    BY <2>2, <2>3 DEF AdditionOK, PartsOK, Idle
  <2> QED BY <2>2, <2>4
<1> QED BY <1>2, <1>3

\* Every step of the dialog keeps the invariant, which the new dialog satisfies.
LEMMA NewPrinterInvStep == NewPrinterInv /\ [NewPrinterNext]_newPrinterVars => NewPrinterInv'
<1> SUFFICES ASSUME NewPrinterInv, [NewPrinterNext]_newPrinterVars PROVE NewPrinterInv'
  OBVIOUS
<1>1. CASE SearchAnswers
  BY <1>1, SearchAnswersInv
<1>2. CASE AddAnswers
  BY <1>2, ChainInv, ConfigureInv, AddCompleteInv DEF AddAnswers
<1>3. CASE NewPrinterUser
  BY <1>3, UserLooksInv, ResponseInv DEF NewPrinterUser
<1>4. CASE PanelDisposed
  BY <1>4, ResponseInv
<1>5. CASE OtherClients \/ UNCHANGED newPrinterVars
  <2>1. UNCHANGED <<dialog, pending, add>>
    BY <1>5 DEF OtherClients, OtherAdds, OtherDeletes, newPrinterVars
  <2>2. AdditionOK' /\ PartsOK'
    BY <2>1 DEF NewPrinterInv, AdditionOK, PartsOK, Excused
  <2> QED BY <2>1, <2>2, AddFrameInv
<1> QED BY <1>1, <1>2, <1>3, <1>4, <1>5 DEF NewPrinterNext

LEMMA NewPrinterInvInit == NewPrinterInit => NewPrinterInv
<1> SUFFICES ASSUME NewPrinterInit PROVE NewPrinterInv
  OBVIOUS
<1>1. DialogIsRecord /\ dialog.open /\ dialog.shown
  BY DEF NewPrinterInit, DialogIsRecord, NewDialog
<1>2. add.pc = "none" /\ add.calls = {} /\ add.finished = {} /\ DOMAIN add = DOMAIN NoAdd
  BY DEF NewPrinterInit, NoAdd
<1> QED BY <1>1, <1>2 DEF NewPrinterInv, AdditionOK, PartsOK, Idle

-----------------------------------------------------------------------------
(***************************************************************************)
(* The dialog with the jobs of a printer.                                  *)
(***************************************************************************)

JobRecords == [id : Nat \ {0}, state : ActiveStates]

\* The dialog counts the answers that are still to come, and is not freed before.
CountOK ==
  /\ fetching \in Nat
  /\ jobs_dialog.ref_count = fetching + Len(fetched)
  /\ jobs_dialog.state = "freed" => jobs_dialog.ref_count = 0

\* The lists of jobs: that of the printer, those on their way, and the one shown.
DialogRecord == {"state", "jobs", "current_job_id", "release", "hold", "cancel", "ref_count"}
ListsOK ==
  /\ DOMAIN jobs_dialog = DialogRecord
  /\ jobs_dialog.jobs \in Seq(JobRecords)
  /\ fetched \in Seq(Seq(JobRecords))
  /\ queue \in [jobs : Seq(JobRecords), last : Nat]

\* Is there a selected job in one of the states?
Shows(d, states) ==
  \E i \in DOMAIN d.jobs : d.jobs[i].id = d.current_job_id /\ d.jobs[i].state \in states
ButtonsMatch(d) ==
  /\ d.release => Shows(d, {"held"})
  /\ d.hold => Shows(d, {"pending"})
  /\ d.cancel => Shows(d, ActiveStates)
  /\ d.jobs # <<>> <=> d.current_job_id # NoJob

JobsInv == ListsOK /\ CountOK /\ ButtonsMatch(jobs_dialog)

\* Every set of indices has a least one.
LEMMA LeastIndex ==
  ASSUME NEW T, T \subseteq Nat, T # {}
  PROVE  \E i \in T : \A j \in T : i <= j
<1>1. \E i \in T : \A j \in T : <<j, i>> \notin OpToRel(<, Nat)
  BY NatLessThanWellFounded, WFMin
<1>2. ASSUME NEW i \in T, NEW j \in T, <<j, i>> \notin OpToRel(<, Nat) PROVE i <= j
  <2>1. <<j, i>> \notin {ss \in Nat \X Nat : ss[1] < ss[2]}
    BY <1>2 DEF OpToRel
  <2> QED BY <2>1
<1> QED BY <1>1, <1>2

\* update_jobs_list_cb selects a job of the list, if it has any.
LEMMA SelectionFacts ==
  ASSUME NEW jobs \in Seq(JobRecords), NEW current
  PROVE  /\ jobs = <<>> => Selection(jobs, current) = NoJob
         /\ jobs # <<>> => Selection(jobs, current) \in {jobs[i].id : i \in DOMAIN jobs}
         /\ jobs # <<>> => Selection(jobs, current) # NoJob
<1>1. jobs = <<>> => Selection(jobs, current) = NoJob
  BY DEF Selection
<1>2. ASSUME jobs # <<>> PROVE Selection(jobs, current) \in {jobs[i].id : i \in DOMAIN jobs}
  <2> DEFINE next == {i \in DOMAIN jobs : jobs[i].id >= current}
  <2>1. /\ DOMAIN jobs = 1 .. Len(jobs) /\ Len(jobs) \in Nat
        /\ 1 \in DOMAIN jobs /\ Len(jobs) \in DOMAIN jobs
    BY <1>2
  <2>2. CASE current = NoJob
    BY <1>2, <2>1, <2>2 DEF Selection
  <2>3. CASE current # NoJob /\ next = {}
    BY <1>2, <2>1, <2>3 DEF Selection
  <2>4. CASE current # NoJob /\ next # {}
    <3> DEFINE first == CHOOSE i \in next : \A j \in next : i <= j
    <3>1. next \subseteq Nat
      BY <2>1
    <3>2. first \in next
      BY <2>4, <3>1, LeastIndex
    <3>3. Selection(jobs, current) = jobs[first].id
      BY <1>2, <2>4 DEF Selection
    <3> QED BY <3>2, <3>3
  <2> QED BY <2>2, <2>3, <2>4
<1>3. \A i \in DOMAIN jobs : jobs[i].id # NoJob
  <2>1. ASSUME NEW i \in DOMAIN jobs PROVE jobs[i].id \in Nat
    <3>1. i \in 1 .. Len(jobs)
      OBVIOUS
    <3>2. jobs[i] \in JobRecords
      BY <3>1
    <3> QED BY <3>2 DEF JobRecords
  <2> QED BY <2>1 DEF NoJob
<1> QED BY <1>1, <1>2, <1>3

\* job_selection_changed_cb: the buttons match the job that is selected.
LEMMA JobSelectionFacts ==
  ASSUME NEW d, DOMAIN d = DialogRecord, NEW id
  PROVE  LET e == JobSelectionChanged(d, id) IN
         /\ DOMAIN e = DialogRecord /\ e.jobs = d.jobs /\ e.state = d.state
         /\ e.ref_count = d.ref_count /\ e.current_job_id = id
         /\ e.release => Shows(e, {"held"})
         /\ e.hold => Shows(e, {"pending"})
         /\ e.cancel => Shows(e, ActiveStates)
<1> DEFINE shown == {i \in DOMAIN d.jobs : d.jobs[i].id = id}
           state == IF shown = {} THEN "none" ELSE d.jobs[CHOOSE i \in shown : TRUE].state
           held == state = "held"
           waiting == state = "pending"
           active == state \in ActiveStates
           e == JobSelectionChanged(d, id)
<1>1. e = [d EXCEPT !.current_job_id = id, !.release = held, !.hold = waiting, !.cancel = active]
  BY DEF JobSelectionChanged
<1>2. \A s : (state = s /\ s # "none") =>
          \E i \in DOMAIN d.jobs : d.jobs[i].id = id /\ d.jobs[i].state = s
  OBVIOUS
<1>3. "none" \notin ActiveStates
  BY DEF ActiveStates
<1> HIDE DEF shown, state
<1>4. /\ DOMAIN e = DialogRecord /\ e.jobs = d.jobs /\ e.state = d.state
      /\ e.ref_count = d.ref_count /\ e.current_job_id = id
      /\ e.release = held /\ e.hold = waiting /\ e.cancel = active
  BY <1>1 DEF DialogRecord
<1> HIDE DEF e
<1>5. ASSUME NEW s, state = s, s # "none", NEW states, s \in states PROVE Shows(e, states)
  <2>1. \E i \in DOMAIN d.jobs : d.jobs[i].id = id /\ d.jobs[i].state = s
    BY <1>2, <1>5
  <2> QED BY <1>4, <1>5, <2>1 DEF Shows
<1>6. e.release => Shows(e, {"held"})
  BY <1>4, <1>5
<1>7. e.hold => Shows(e, {"pending"})
  BY <1>4, <1>5
<1>8. e.cancel => Shows(e, ActiveStates)
  BY <1>3, <1>4, <1>5
<1> QED BY <1>4, <1>6, <1>7, <1>8 DEF e

\* update_jobs_list_cb: the list is replaced, and the buttons are those of the new selection.
LEMMA UpdateFacts ==
  ASSUME ListsOK, CountOK, NEW jobs \in Seq(JobRecords)
  PROVE  LET e == UpdateJobsListCb(jobs_dialog, jobs) IN
         /\ DOMAIN e = DialogRecord /\ e.jobs = jobs /\ e.state = jobs_dialog.state
         /\ e.ref_count = jobs_dialog.ref_count - 1 /\ ButtonsMatch(e)
<1> DEFINE d == [jobs_dialog EXCEPT !.jobs = jobs, !.ref_count = @ - 1]
           emptied == JobSelectionChanged(d, NoJob)
           selected == Selection(jobs, jobs_dialog.current_job_id)
           e == UpdateJobsListCb(jobs_dialog, jobs)
<1>1. /\ DOMAIN d = DialogRecord /\ d.jobs = jobs /\ d.state = jobs_dialog.state
      /\ d.ref_count = jobs_dialog.ref_count - 1
  BY DEF ListsOK, DialogRecord
<1>2. e = IF selected = NoJob THEN emptied ELSE JobSelectionChanged(emptied, selected)
  BY DEF UpdateJobsListCb
<1> HIDE DEF d, e
<1>3. /\ DOMAIN emptied = DialogRecord /\ emptied.jobs = jobs /\ emptied.state = d.state
      /\ emptied.ref_count = d.ref_count /\ emptied.current_job_id = NoJob
      /\ emptied.release => Shows(emptied, {"held"})
      /\ emptied.hold => Shows(emptied, {"pending"})
      /\ emptied.cancel => Shows(emptied, ActiveStates)
  BY <1>1, JobSelectionFacts
<1> HIDE DEF emptied
<1>4. CASE jobs = <<>>
  <2>1. e = emptied
    BY <1>2, <1>4, SelectionFacts
  <2> QED BY <1>1, <1>3, <1>4, <2>1 DEF ButtonsMatch, e
<1>5. CASE jobs # <<>>
  <2>1. selected # NoJob
    BY <1>5, SelectionFacts
  <2> HIDE DEF selected
  <2>2. e = JobSelectionChanged(emptied, selected)
    BY <1>2, <2>1
  <2>3. /\ DOMAIN e = DialogRecord /\ e.jobs = jobs /\ e.state = d.state
        /\ e.ref_count = d.ref_count /\ e.current_job_id = selected
        /\ e.release => Shows(e, {"held"})
        /\ e.hold => Shows(e, {"pending"})
        /\ e.cancel => Shows(e, ActiveStates)
    BY <1>3, <2>2, JobSelectionFacts
  <2> QED BY <1>1, <1>5, <2>1, <2>3 DEF ButtonsMatch, e
<1> QED BY <1>4, <1>5

\* What another client, the printer or a button does to the jobs of the printer.
LEMMA QueueFacts ==
  ASSUME ListsOK, NEW id, Active(id), NEW state \in ActiveStates \cup {"gone"},
         QueueBecomes(id, state)
  PROVE  queue' \in [jobs : Seq(JobRecords), last : Nat]
<1> DEFINE i == CHOOSE k \in DOMAIN queue.jobs : queue.jobs[k].id = id
           jobs == IF state = "gone" THEN RemoveAt(queue.jobs, i)
                   ELSE [queue.jobs EXCEPT ![i].state = state]
<1>1. queue.jobs \in Seq(JobRecords) /\ queue.last \in Nat /\ i \in DOMAIN queue.jobs
  BY DEF ListsOK, Active
<1>2. queue' = [queue EXCEPT !.jobs = jobs]
  BY DEF QueueBecomes
<1> HIDE DEF i
<1>3. i \in 1 .. Len(queue.jobs) /\ Len(queue.jobs) \in Nat /\ queue.jobs[i] \in JobRecords
  BY <1>1
<1>4. jobs \in Seq(JobRecords)
  <2>1. CASE state = "gone"
    <3>1. SubSeq(queue.jobs, 1, i - 1) \in Seq(JobRecords)
      BY <1>1, <1>3, SubSeqProperties
    <3>2. SubSeq(queue.jobs, i + 1, Len(queue.jobs)) \in Seq(JobRecords)
      BY <1>1, <1>3, SubSeqProperties
    <3>3. RemoveAt(queue.jobs, i) \in Seq(JobRecords)
      BY <3>1, <3>2 DEF RemoveAt
    <3> QED BY <2>1, <3>3
  <2>2. CASE state # "gone"
    <3>1. [queue.jobs[i] EXCEPT !.state = state] \in JobRecords
      BY <1>3, <2>2 DEF JobRecords
    <3>2. [queue.jobs EXCEPT ![i] = [queue.jobs[i] EXCEPT !.state = state]] \in Seq(JobRecords)
      BY <1>1, <1>3, <3>1, ExceptSeq
    <3> QED BY <2>2, <3>2
  <2> QED BY <2>1, <2>2
<1> HIDE DEF jobs
<1> QED BY <1>2, <1>4 DEF ListsOK

\* A step that leaves the dialog and what it waits for alone.
LEMMA JobsFrameInv ==
  ASSUME JobsInv, UNCHANGED <<jobs_dialog, fetching, fetched>>,
         queue' \in [jobs : Seq(JobRecords), last : Nat]
  PROVE  JobsInv'
<1>1. ListsOK' /\ CountOK'
  BY DEF JobsInv, ListsOK, CountOK
<1>2. ButtonsMatch(jobs_dialog')
  BY DEF JobsInv
<1> QED BY <1>1, <1>2 DEF JobsInv

\* The threads, the main loop and the signals.
LEMMA JobsAnswersInv ==
  ASSUME JobsInv, JobsAnswers
  PROVE  JobsInv'
<1> USE DEF JobsInv
<1>1. /\ DOMAIN jobs_dialog = DialogRecord /\ fetched \in Seq(Seq(JobRecords))
      /\ fetching \in Nat /\ Len(fetched) \in Nat
      /\ jobs_dialog.ref_count = fetching + Len(fetched)
      /\ queue \in [jobs : Seq(JobRecords), last : Nat] /\ queue.jobs \in Seq(JobRecords)
  BY DEF ListsOK, CountOK
<1>2. CASE FetchJobs
  <2>1. /\ fetching' = fetching - 1 /\ fetching > 0 /\ fetched' = Append(fetched, queue.jobs)
        /\ jobs_dialog' = jobs_dialog /\ queue' = queue
    BY <1>2 DEF FetchJobs
  <2>2. fetched' \in Seq(Seq(JobRecords)) /\ Len(fetched') = Len(fetched) + 1
    BY <1>1, <2>1
  <2>3. ListsOK'
    BY <1>1, <2>1, <2>2 DEF ListsOK
  <2>4. CountOK'
    BY <1>1, <2>1, <2>2 DEF CountOK
  <2> QED BY <2>1, <2>3, <2>4
<1>3. CASE JobsFetched
  <2> DEFINE e == UpdateJobsListCb(jobs_dialog, Head(fetched))
  <2>1. /\ fetched # <<>> /\ fetched' = Tail(fetched) /\ fetching' = fetching /\ queue' = queue
        /\ jobs_dialog' = e
    BY <1>3 DEF JobsFetched
  <2>2. /\ Head(fetched) \in Seq(JobRecords) /\ fetched' \in Seq(Seq(JobRecords))
        /\ Len(fetched') = Len(fetched) - 1
    BY <1>1, <2>1
  <2>3. /\ DOMAIN e = DialogRecord /\ e.jobs = Head(fetched) /\ e.state = jobs_dialog.state
        /\ e.ref_count = jobs_dialog.ref_count - 1 /\ ButtonsMatch(e)
    BY <2>2, UpdateFacts
  <2> HIDE DEF e
  <2>4. ListsOK'
    BY <1>1, <2>1, <2>2, <2>3 DEF ListsOK
  <2>5. CountOK'
    <3>1. Len(fetched) >= 1
      BY <1>1, <2>1
    <3> QED BY <1>1, <2>1, <2>2, <2>3, <3>1 DEF CountOK
  <2> QED BY <2>1, <2>3, <2>4, <2>5
<1>4. CASE JobSignalHandled
  <2>1. CASE jobs_dialog.state = "open"
    <3>1. /\ jobs_dialog' = [jobs_dialog EXCEPT !.ref_count = @ + 1] /\ fetching' = fetching + 1
          /\ fetched' = fetched /\ queue' = queue
      BY <1>4, <2>1 DEF JobSignalHandled, UpdateJobsList
    <3>2. /\ DOMAIN jobs_dialog' = DialogRecord /\ jobs_dialog'.jobs = jobs_dialog.jobs
          /\ jobs_dialog'.state = "open" /\ jobs_dialog'.ref_count = jobs_dialog.ref_count + 1
          /\ jobs_dialog'.release = jobs_dialog.release /\ jobs_dialog'.hold = jobs_dialog.hold
          /\ jobs_dialog'.cancel = jobs_dialog.cancel
          /\ jobs_dialog'.current_job_id = jobs_dialog.current_job_id
      BY <1>1, <2>1, <3>1 DEF DialogRecord
    <3>3. ListsOK'
      BY <1>1, <3>1, <3>2 DEF ListsOK
    <3>4. CountOK'
      <4>1. fetching' = fetching + 1 /\ Len(fetched') = Len(fetched) /\ fetching' \in Nat
        BY <1>1, <3>1
      <4>2. jobs_dialog'.ref_count = fetching' + Len(fetched')
        BY <1>1, <3>2, <4>1
      <4>3. jobs_dialog'.state # "freed"
        BY <3>2
      <4> QED BY <4>1, <4>2, <4>3 DEF CountOK
    <3>5. ButtonsMatch(jobs_dialog')
      BY <3>2 DEF ButtonsMatch, Shows
    <3> QED BY <3>3, <3>4, <3>5
  <2>2. CASE jobs_dialog.state # "open"
    BY <1>1, <1>4, <2>2, JobsFrameInv DEF JobSignalHandled
  <2> QED BY <2>1, <2>2
<1>5. CASE FreeJobsDialog
  <2>1. /\ jobs_dialog.ref_count = 0 /\ jobs_dialog' = [jobs_dialog EXCEPT !.state = "freed"]
        /\ UNCHANGED <<fetching, fetched, queue>>
    BY <1>5 DEF FreeJobsDialog
  <2>2. /\ DOMAIN jobs_dialog' = DialogRecord /\ jobs_dialog'.jobs = jobs_dialog.jobs
        /\ jobs_dialog'.ref_count = jobs_dialog.ref_count
        /\ jobs_dialog'.release = jobs_dialog.release /\ jobs_dialog'.hold = jobs_dialog.hold
        /\ jobs_dialog'.cancel = jobs_dialog.cancel
        /\ jobs_dialog'.current_job_id = jobs_dialog.current_job_id
    BY <1>1, <2>1 DEF DialogRecord
  <2>3. ListsOK'
    BY <1>1, <2>1, <2>2 DEF ListsOK
  <2>4. CountOK'
    BY <1>1, <2>1, <2>2 DEF CountOK
  <2>5. ButtonsMatch(jobs_dialog')
    BY <2>2 DEF ButtonsMatch, Shows
  <2> QED BY <2>3, <2>4, <2>5
<1> QED BY <1>2, <1>3, <1>4, <1>5 DEF JobsAnswers

\* The user selects a job, presses a button or closes the dialog.
LEMMA JobsUserInv ==
  ASSUME JobsInv, JobsUser
  PROVE  JobsInv'
<1> USE DEF JobsInv
<1>1. /\ DOMAIN jobs_dialog = DialogRecord /\ fetched \in Seq(Seq(JobRecords))
      /\ jobs_dialog.jobs \in Seq(JobRecords)
      /\ queue \in [jobs : Seq(JobRecords), last : Nat]
  BY DEF ListsOK
<1>2. ASSUME NEW i \in 1 .. Jobs, SelectJob(i) PROVE JobsInv'
  <2> DEFINE id == jobs_dialog.jobs[i].id
  <2>1. /\ jobs_dialog' = JobSelectionChanged(jobs_dialog, id) /\ i \in DOMAIN jobs_dialog.jobs
        /\ UNCHANGED <<fetching, fetched, queue>>
    BY <1>2 DEF SelectJob
  <2>2. id # NoJob /\ jobs_dialog.jobs # <<>>
    <3>1. i \in 1 .. Len(jobs_dialog.jobs) /\ jobs_dialog.jobs[i] \in JobRecords
      BY <1>1, <2>1
    <3>2. id \in Nat
      BY <3>1 DEF JobRecords
    <3> QED BY <1>1, <3>1, <3>2 DEF NoJob
  <2> HIDE DEF id
  <2>3. /\ DOMAIN jobs_dialog' = DialogRecord /\ jobs_dialog'.jobs = jobs_dialog.jobs
        /\ jobs_dialog'.state = jobs_dialog.state
        /\ jobs_dialog'.ref_count = jobs_dialog.ref_count /\ jobs_dialog'.current_job_id = id
        /\ jobs_dialog'.release => Shows(jobs_dialog', {"held"})
        /\ jobs_dialog'.hold => Shows(jobs_dialog', {"pending"})
        /\ jobs_dialog'.cancel => Shows(jobs_dialog', ActiveStates)
    BY <1>1, <2>1, JobSelectionFacts
  <2>4. ListsOK'
    BY <1>1, <2>1, <2>3 DEF ListsOK
  <2>5. CountOK'
    BY <2>1, <2>3 DEF CountOK
  <2>6. ButtonsMatch(jobs_dialog')
    BY <2>2, <2>3 DEF ButtonsMatch
  <2> QED BY <2>4, <2>5, <2>6
<1>3. ASSUME NEW button \in {"release", "hold", "cancel"}, JobProcess(button) PROVE JobsInv'
  <2>1. /\ jobs_dialog' = [jobs_dialog EXCEPT !.release = FALSE, !.hold = FALSE, !.cancel = FALSE]
        /\ UNCHANGED <<fetching, fetched>>
    BY <1>3, Zenon DEF JobProcess
  <2>2. queue' \in [jobs : Seq(JobRecords), last : Nat]
    <3> DEFINE after == CASE button = "cancel" -> "gone" [] button = "hold" -> "held"
                          [] OTHER -> "pending"
    <3>1. \/ queue' = queue
          \/ /\ Active(jobs_dialog.current_job_id)
             /\ QueueBecomes(jobs_dialog.current_job_id, after)
      BY <1>3, Zenon DEF JobProcess
    <3>2. after \in {"gone", "held", "pending"}
      BY Zenon
    <3> HIDE DEF after
    <3>3. after \in ActiveStates \cup {"gone"}
      BY <3>2 DEF ActiveStates
    <3> QED BY <1>1, <3>1, <3>3, QueueFacts
  <2>3. /\ DOMAIN jobs_dialog' = DialogRecord /\ jobs_dialog'.jobs = jobs_dialog.jobs
        /\ jobs_dialog'.state = jobs_dialog.state
        /\ jobs_dialog'.ref_count = jobs_dialog.ref_count
        /\ jobs_dialog'.current_job_id = jobs_dialog.current_job_id
        /\ ~jobs_dialog'.release /\ ~jobs_dialog'.hold /\ ~jobs_dialog'.cancel
    BY <1>1, <2>1 DEF DialogRecord
  <2>4. ListsOK'
    BY <1>1, <2>1, <2>2, <2>3 DEF ListsOK
  <2>5. CountOK'
    BY <2>1, <2>3 DEF CountOK
  <2>6. ButtonsMatch(jobs_dialog')
    BY <2>3 DEF ButtonsMatch
  <2> QED BY <2>4, <2>5, <2>6
<1>4. CASE CloseJobsDialog
  <2>1. /\ jobs_dialog' = [jobs_dialog EXCEPT !.state = "closing"]
        /\ UNCHANGED <<fetching, fetched, queue>>
    BY <1>4 DEF CloseJobsDialog
  <2>2. /\ DOMAIN jobs_dialog' = DialogRecord /\ jobs_dialog'.jobs = jobs_dialog.jobs
        /\ jobs_dialog'.ref_count = jobs_dialog.ref_count /\ jobs_dialog'.state = "closing"
        /\ jobs_dialog'.release = jobs_dialog.release /\ jobs_dialog'.hold = jobs_dialog.hold
        /\ jobs_dialog'.cancel = jobs_dialog.cancel
        /\ jobs_dialog'.current_job_id = jobs_dialog.current_job_id
    BY <1>1, <2>1 DEF DialogRecord
  <2>3. ListsOK'
    BY <1>1, <2>1, <2>2 DEF ListsOK
  <2>4. CountOK'
    BY <2>1, <2>2 DEF CountOK
  <2>5. ButtonsMatch(jobs_dialog')
    BY <2>2 DEF ButtonsMatch, Shows
  <2> QED BY <2>3, <2>4, <2>5
<1> QED BY <1>2, <1>3, <1>4 DEF JobsUser

\* Jobs that come, go or are held by the printer or by other clients.
LEMMA JobsOthersInv ==
  ASSUME JobsInv, JobsOthers
  PROVE  JobsInv'
<1>1. queue \in [jobs : Seq(JobRecords), last : Nat] /\ UNCHANGED <<jobs_dialog, fetching, fetched>>
  BY DEF JobsInv, ListsOK, JobsOthers, JobComes, JobMoves
<1>2. CASE JobComes
  <2> DEFINE job == [id |-> queue.last + 1, state |-> "pending"]
  <2>1. queue' = [jobs |-> Append(queue.jobs, job), last |-> queue.last + 1]
    BY <1>2 DEF JobComes
  <2>2. job \in JobRecords /\ queue.last + 1 \in Nat
    BY <1>1 DEF JobRecords, ActiveStates
  <2> HIDE DEF job
  <2>3. Append(queue.jobs, job) \in Seq(JobRecords)
    BY <1>1, <2>2
  <2>4. queue' \in [jobs : Seq(JobRecords), last : Nat]
    BY <2>1, <2>2, <2>3
  <2> QED BY <1>1, <2>4, JobsFrameInv
<1>3. ASSUME NEW k \in 1 .. Jobs, NEW state \in ActiveStates \cup {"gone"}, JobMoves(k, state)
      PROVE  JobsInv'
  <2>1. Active(queue.jobs[k].id) /\ QueueBecomes(queue.jobs[k].id, state)
    BY <1>3 DEF JobMoves, Active
  <2> QED BY <1>1, <2>1, QueueFacts, JobsFrameInv DEF JobsInv
<1> QED BY <1>2, <1>3 DEF JobsOthers

\* Every step of the jobs dialog keeps the invariant, which the new dialog satisfies.
LEMMA JobsInvStep == JobsInv /\ [JobsNext]_jobsVars => JobsInv'
<1> SUFFICES ASSUME JobsInv, [JobsNext]_jobsVars PROVE JobsInv'
  OBVIOUS
<1>1. CASE JobsNext
  BY <1>1, JobsAnswersInv, JobsUserInv, JobsOthersInv DEF JobsNext
<1>2. CASE UNCHANGED jobsVars
  BY <1>2, JobsFrameInv DEF jobsVars, JobsInv, ListsOK
<1> QED BY <1>1, <1>2

LEMMA JobsInvInit == JobsInit => JobsInv
<1> SUFFICES ASSUME JobsInit PROVE JobsInv
  OBVIOUS
<1>1. /\ DOMAIN jobs_dialog = DialogRecord /\ jobs_dialog.jobs = <<>>
      /\ jobs_dialog.current_job_id = NoJob /\ jobs_dialog.state = "open"
      /\ jobs_dialog.ref_count = 1
      /\ ~jobs_dialog.release /\ ~jobs_dialog.hold /\ ~jobs_dialog.cancel
      /\ fetching = 1 /\ fetched = <<>>
  BY DEF JobsInit, DialogRecord
<1>2. queue \in [jobs : Seq(JobRecords), last : Nat]
  <2>1. InitialJobs \in Nat
    BY JobsAssumption
  <2> DEFINE jobs == [i \in 1 .. InitialJobs |-> [id |-> i, state |-> "pending"]]
  <2>2. \A i \in 1 .. InitialJobs : [id |-> i, state |-> "pending"] \in JobRecords
    BY DEF JobRecords, ActiveStates
  <2>3. jobs \in Seq(JobRecords)
    BY <2>1, <2>2
  <2>4. queue = [jobs |-> jobs, last |-> InitialJobs]
    BY DEF JobsInit
  <2> HIDE DEF jobs
  <2> QED BY <2>1, <2>3, <2>4
<1>3. ListsOK
  BY <1>1, <1>2 DEF ListsOK
<1>4. CountOK
  BY <1>1 DEF CountOK
<1>5. ButtonsMatch(jobs_dialog)
  BY <1>1 DEF ButtonsMatch
<1> QED BY <1>3, <1>4, <1>5 DEF JobsInv

-----------------------------------------------------------------------------
(***************************************************************************)
(* Both dialogs: whichever is open, the other one stays as it was created. *)
(***************************************************************************)

DialogsInv == NewPrinterInv /\ JobsInv

LEMMA DialogsInvariant == Spec => []DialogsInv
<1>1. Init => DialogsInv
  BY NewPrinterInvInit, JobsInvInit DEF Init, DialogsInv
<1>2. DialogsInv /\ [Next]_dialogsVars => DialogsInv'
  <2> SUFFICES ASSUME DialogsInv, [Next]_dialogsVars PROVE DialogsInv'
    OBVIOUS
  <2>1. [NewPrinterNext]_newPrinterVars /\ [JobsNext]_jobsVars
    BY DEF Next, dialogsVars
  <2> QED BY <2>1, NewPrinterInvStep, JobsInvStep DEF DialogsInv
<1> QED BY <1>1, <1>2, PTL DEF Spec

\* No answer is handled after what its handler works on is gone: the dialog that the
\* panel dropped, the record that the parts of the configuration share, the jobs dialog.
THEOREM HandlersSafe == Spec => []HandlersHaveTheirData
<1>1. DialogsInv => HandlersHaveTheirData
  <2> SUFFICES ASSUME DialogsInv PROVE HandlersHaveTheirData
    OBVIOUS
  <2> USE DEF DialogsInv, NewPrinterInv
  <2>1. (pending.dests \/ pending.backend > 0 \/ pending.groups # <<>> \/ pending.hosts # {})
          => dialog.open /\ dialog.shown
    BY DEF Waits
  <2>2. (At("complete") /\ ~add.cancelled) => dialog.open
    BY DEF AdditionOK, At, Idle
  <2>3. add.calls # {} => add.data = "live"
    BY DEF PartsOK
  <2>4. (fetching + Len(fetched) > 0) => jobs_dialog.state # "freed"
    BY DEF JobsInv, CountOK
  <2> QED BY <2>1, <2>2, <2>3, <2>4 DEF HandlersHaveTheirData
<1> QED BY <1>1, DialogsInvariant, PTL

\* A button of the jobs dialog works on the selected job, and in the list that is shown
\* the state of that job allows what the button asks for.
THEOREM ButtonsMatchJob == Spec => []JobButtonsMatchJob
<1>1. DialogsInv => JobButtonsMatchJob
  <2> SUFFICES ASSUME DialogsInv PROVE JobButtonsMatchJob
    OBVIOUS
  <2>1. ButtonsMatch(jobs_dialog)
    BY DEF DialogsInv, JobsInv
  <2> DEFINE selected == {i \in DOMAIN jobs_dialog.jobs :
                            jobs_dialog.jobs[i].id = jobs_dialog.current_job_id}
             shows(states) == \E i \in selected : jobs_dialog.jobs[i].state \in states
  <2>2. \A states : Shows(jobs_dialog, states) <=> shows(states)
    BY DEF Shows
  <2>3. jobs_dialog.release => shows({"held"})
    BY <2>1, <2>2 DEF ButtonsMatch
  <2>4. jobs_dialog.hold => shows({"pending"})
    BY <2>1, <2>2 DEF ButtonsMatch
  <2>5. jobs_dialog.cancel => shows(ActiveStates)
    BY <2>1, <2>2 DEF ButtonsMatch
  <2>6. jobs_dialog.jobs # <<>> <=> jobs_dialog.current_job_id # NoJob
    BY <2>1 DEF ButtonsMatch
  <2> HIDE DEF selected
  <2> QED BY <2>3, <2>4, <2>5, <2>6 DEF JobButtonsMatchJob, selected
<1> QED BY <1>1, DialogsInvariant, PTL

-----------------------------------------------------------------------------
(***************************************************************************)
(* The lists of devices: of what is added, removed and grouped the names   *)
(* stay distinct.                                                          *)
(***************************************************************************)

\* The elements of a set, in some order.
LEMMA OrderIs ==
  ASSUME NEW S, IsFiniteSet(S)
  PROVE  SetToSeq(S) \in Seq(S) /\ Len(SetToSeq(S)) \in Nat /\ DOMAIN SetToSeq(S) = 1..Len(SetToSeq(S))
<1>1. Cardinality(S) \in Nat /\ ExistsBijection(1..Cardinality(S), S)
  BY FS_CardinalityType
<1>2. PICK f : f \in Bijection(1..Cardinality(S), S)
  BY <1>1 DEF ExistsBijection
<1>3. f \in [1..Cardinality(S) -> S] /\ IsInjective(f)
  BY <1>2 DEF Bijection, Injection, IsInjective
<1> DEFINE order == SetToSeq(S)
<1>4. order \in [1..Cardinality(S) -> S]
  BY <1>3 DEF SetToSeq
<1> HIDE DEF order
<1>5. order \in Seq(S)
  BY <1>1, <1>4
<1>6. Len(order) \in Nat /\ DOMAIN order = 1..Len(order)
  BY <1>5
<1> QED
  BY <1>5, <1>6 DEF order

\* A device of a list, under the name it would get.
Bases == {Info[u].base : u \in Devices}
Entries == [uri : Devices, name : [base : Bases, index : Nat \ {0}], show : BOOLEAN]
OnceNamed(list) == \A i, j \in DOMAIN list : list[i].name = list[j].name => i = j

\* What is left of a list.
Left(list, c) == c \in Seq(Entries) /\ OnceNamed(c) /\ Names(c) \subseteq Names(list)

\* In the lists a name is given once, and before the printers were known or when no printer had it.
EntriesOK(d) ==
  /\ d.devices \in Seq(Entries) /\ d.new_devices \in Seq(Entries)
  /\ OnceNamed(d.devices) /\ OnceNamed(d.new_devices)
  /\ Names(d.devices) \cap Names(d.new_devices) = {}
  /\ IsFiniteSet(d.dests)
  /\ \A name \in Names(d.devices) \cup Names(d.new_devices) : name \in d.early \/ (d.known /\ name \notin d.dests)

\* The names of a list are finitely many.
LEMMA NamesFinite ==
  ASSUME NEW list \in Seq(Entries)
  PROVE  IsFiniteSet(Names(list))
<1> DEFINE n == Len(list)
           f == [i \in 1..n |-> list[i].name]
<1>1. n \in Nat /\ DOMAIN list = 1..n
  OBVIOUS
<1>2. IsFiniteSet(1..n)
  BY <1>1, FS_Interval
<1>3. f \in Surjection(1..n, Names(list))
  BY <1>1 DEF Surjection, Names
<1> QED
  BY <1>2, <1>3, FS_Surjection

\* A fresh name is found among as many numbers as there are names taken, and one more.
LEMMA FreshIs ==
  ASSUME NEW d, EntriesOK(d), NEW base
  PROVE  /\ FreshName(d, base) \in Nat \ {0}
         /\ [base |-> base, index |-> FreshName(d, base)] \notin d.dests \cup Names(d.devices) \cup Names(d.new_devices)
<1> DEFINE taken == d.dests \cup Names(d.devices) \cup Names(d.new_devices)
           free(n) == [base |-> base, index |-> n] \notin taken
           m == Cardinality(taken) + 1
           P == {n \in 1..m : free(n)}
           f == [n \in 1..m |-> [base |-> base, index |-> n]]
<1>1. IsFiniteSet(taken)
  <2>1. IsFiniteSet(Names(d.devices)) /\ IsFiniteSet(Names(d.new_devices)) /\ IsFiniteSet(d.dests)
    BY NamesFinite DEF EntriesOK
  <2> QED
    BY <2>1, FS_Union
<1>2. FreshName(d, base) = CHOOSE n \in 1..m : free(n) /\ \A k \in 1..(n - 1) : ~free(k)
  BY DEF FreshName
<1> HIDE DEF taken
<1>3. Cardinality(taken) \in Nat /\ m \in Nat
  BY <1>1, FS_CardinalityType
<1>4. IsFiniteSet(1..m) /\ Cardinality(taken) < Cardinality(1..m)
  BY <1>3, FS_Interval
<1>5. P # {}
  <2> SUFFICES ASSUME P = {} PROVE FALSE
    OBVIOUS
  <2>1. f \in [1..m -> taken]
    OBVIOUS
  <2> HIDE DEF f, m, P
  <2>2. PICK x, y \in 1..m : x # y /\ f[x] = f[y]
    BY <1>1, <1>4, <2>1, FS_PigeonHole
  <2> QED
    BY <2>2 DEF f
<1>6. P \subseteq Nat
  BY <1>3
<1>7. Least(P) \in P /\ \A j \in P : Least(P) <= j
  <2> HIDE DEF P
  <2> QED
    BY <1>5, <1>6, LeastIs
<1>8. \E n \in 1..m : free(n) /\ \A k \in 1..(n - 1) : ~free(k)
  <2> DEFINE n == Least(P)
  <2>1. n \in P /\ \A j \in P : n <= j
    BY <1>7
  <2> HIDE DEF n
  <2>2. n \in 1..m /\ free(n)
    BY <2>1
  <2>3. ASSUME NEW k \in 1..(n - 1) PROVE ~free(k)
    <3>1. k \in 1..m /\ ~(n <= k)
      BY <1>3, <2>2
    <3>2. k \notin P
      BY <2>1, <3>1
    <3> QED
      BY <3>1, <3>2
  <2> QED
    BY <2>2, <2>3
<1>9. FreshName(d, base) \in 1..m /\ free(FreshName(d, base))
  <2> HIDE DEF P, m
  <2> QED
    BY <1>2, <1>8
<1> QED
  BY <1>3, <1>9 DEF taken

\* What the lists say is in these fields.
LEMMA EntriesSame ==
  ASSUME NEW d, EntriesOK(d), NEW e, e.devices = d.devices, e.new_devices = d.new_devices,
         e.dests = d.dests, e.known = d.known, d.early \subseteq e.early
  PROVE  EntriesOK(e)
BY DEF EntriesOK

\* A device appended to one of the lists under a name no other has.
LEMMA AppendOnce ==
  ASSUME NEW list \in Seq(Entries), OnceNamed(list), NEW x \in Entries, x.name \notin Names(list)
  PROVE  Append(list, x) \in Seq(Entries) /\ OnceNamed(Append(list, x)) /\ Names(Append(list, x)) = Names(list) \cup {x.name}
<1> DEFINE c == Append(list, x)
<1>1. Len(list) \in Nat /\ DOMAIN list = 1..Len(list)
  OBVIOUS
<1>2. c \in Seq(Entries) /\ DOMAIN c = 1..Len(list) + 1 /\ c[Len(list) + 1] = x /\ \A i \in DOMAIN list : c[i] = list[i]
  BY <1>1
<1> HIDE DEF c
<1>3. \A i \in DOMAIN c : i = Len(list) + 1 \/ i \in DOMAIN list
  BY <1>1, <1>2
<1>4. \A i \in DOMAIN list : i \in DOMAIN c /\ i # Len(list) + 1
  BY <1>1, <1>2
<1>5. \A i \in DOMAIN list : list[i].name # x.name
  BY DEF Names
<1>6. OnceNamed(c)
  <2> SUFFICES ASSUME NEW i \in DOMAIN c, NEW j \in DOMAIN c, c[i].name = c[j].name PROVE i = j
    BY DEF OnceNamed
  <2>1. CASE i \in DOMAIN list /\ j \in DOMAIN list
    BY <1>2, <2>1 DEF OnceNamed
  <2>2. CASE i = Len(list) + 1 /\ j \in DOMAIN list
    BY <1>2, <1>5, <2>2
  <2>3. CASE i \in DOMAIN list /\ j = Len(list) + 1
    BY <1>2, <1>5, <2>3
  <2> QED
    BY <1>3, <2>1, <2>2, <2>3
<1>7. Names(c) = Names(list) \cup {x.name}
  <2>1. \A i \in DOMAIN c : c[i].name \in Names(list) \cup {x.name}
    BY <1>2, <1>3 DEF Names
  <2>2. \A i \in DOMAIN list : list[i].name \in Names(c)
    BY <1>2, <1>4 DEF Names
  <2>3. x.name \in Names(c)
    <3>1. Len(list) + 1 \in DOMAIN c
      BY <1>1, <1>2
    <3> QED
      BY <1>2, <3>1 DEF Names
  <2>4. Names(c) \subseteq Names(list) \cup {x.name}
    BY <2>1 DEF Names
  <2>5. Names(list) \subseteq Names(c)
    BY <2>2 DEF Names
  <2> QED
    BY <2>3, <2>4, <2>5
<1> QED
  BY <1>2, <1>6, <1>7 DEF c

\* d with more devices in one of its lists.
Added(d, e, list) ==
  /\ DOMAIN e = DOMAIN NewDialog /\ EntriesOK(e) /\ e.dests = d.dests /\ e.known = d.known /\ d.early \subseteq e.early
  /\ list = "devices" => e.new_devices = d.new_devices
  /\ list = "new_devices" => e.devices = d.devices

LEMMA AddOne ==
  ASSUME NEW d, NEW e, NEW list \in {"devices", "new_devices"}, Added(d, e, list), NEW uri \in Devices
  PROVE  Added(d, AddDeviceToList(e, uri, list), list)
<1> DEFINE base == Info[uri].base
           name == [base |-> base, index |-> FreshName(e, base)]
           x == [uri |-> uri, name |-> name, show |-> TRUE]
           z == [e EXCEPT ![list] = Append(@, x), !.early = IF e.known THEN @ ELSE @ \cup {name}]
<1>1. CASE ~Info[uri].usable
  BY <1>1 DEF AddDeviceToList
<1>2. ASSUME Info[uri].usable PROVE Added(d, z, list)
  <2>1. EntriesOK(e) /\ DOMAIN e = DOMAIN NewDialog
    BY DEF Added
  <2>2. FreshName(e, base) \in Nat \ {0} /\ name \notin e.dests \cup Names(e.devices) \cup Names(e.new_devices)
    BY <2>1, FreshIs
  <2>3. name \in [base : Bases, index : Nat \ {0}]
    BY <2>2 DEF Bases
  <2> HIDE DEF name
  <2>4. x \in Entries /\ x.name = name
    BY <2>3 DEF Entries
  <2> HIDE DEF x
  <2>5. /\ DOMAIN z = DOMAIN NewDialog /\ z.dests = e.dests /\ z.known = e.known
        /\ z.early = IF e.known THEN e.early ELSE e.early \cup {name}
        /\ z[list] = Append(e[list], x)
        /\ list = "devices" => z.new_devices = e.new_devices
        /\ list = "new_devices" => z.devices = e.devices
    BY <2>1, DialogFields
  <2> HIDE DEF z
  <2>6. e[list] \in Seq(Entries) /\ OnceNamed(e[list]) /\ x.name \notin Names(e[list])
    BY <2>1, <2>2, <2>4 DEF EntriesOK
  <2>7. z[list] \in Seq(Entries) /\ OnceNamed(z[list]) /\ Names(z[list]) = Names(e[list]) \cup {name}
    BY <2>4, <2>5, <2>6, AppendOnce
  <2>8. name \in z.early \/ (z.known /\ name \notin z.dests)
    BY <2>2, <2>5
  <2>9. \A n \in Names(e.devices) \cup Names(e.new_devices) : n \in z.early \/ (z.known /\ n \notin z.dests)
    BY <2>1, <2>5 DEF EntriesOK
  <2>10. EntriesOK(z)
    <3>1. CASE list = "devices"
      BY <2>1, <2>2, <2>5, <2>7, <2>8, <2>9, <3>1 DEF EntriesOK
    <3>2. CASE list = "new_devices"
      BY <2>1, <2>2, <2>5, <2>7, <2>8, <2>9, <3>2 DEF EntriesOK
    <3> QED
      BY <3>1, <3>2
  <2> QED
    BY <2>5, <2>10 DEF Added
<1> QED
  BY <1>1, <1>2 DEF AddDeviceToList

\* One of the lists of d as it is in another state.
Listed(d, last, list) == [d EXCEPT ![list] = last[list], !.early = last.early]

\* g tells what is listed of the first devices of an order.
Adds(d, order, list, m, g) ==
  g = [n \in 0..m |-> IF n = 0 THEN d ELSE AddDeviceToList(g[n - 1], order[n], list)]

\* One device more.
LEMMA AddsNext ==
  ASSUME NEW d, NEW order, NEW list, NEW m \in Nat, NEW g, Adds(d, order, list, m, g)
  PROVE  \E z : Adds(d, order, list, m + 1, z)
<1> DEFINE z == [n \in 0..m+1 |-> IF n = m + 1 THEN AddDeviceToList(g[m], order[n], list) ELSE g[n]]
<1>1. \A n \in 0..m : z[n] = g[n]
  OBVIOUS
<1>2. \A n \in 0..m : g[n] = IF n = 0 THEN d ELSE AddDeviceToList(g[n - 1], order[n], list)
  BY DEF Adds
<1>3. z[m+1] = AddDeviceToList(z[m], order[m+1], list)
  BY <1>1
<1>4. DOMAIN z = 0..m+1 /\ z = [n \in 0..m+1 |-> z[n]]
  OBVIOUS
<1> HIDE DEF z
<1>5. ASSUME NEW n \in 0..m, n # 0
      PROVE  z[n] = AddDeviceToList(z[n - 1], order[n], list)
  <2>1. n \in Int /\ n - 1 \in 0..m
    BY <1>5
  <2> QED
    BY <1>1, <1>2, <1>5, <2>1
<1>6. z[0] = d
  BY <1>1, <1>2
<1>7. \A n \in 0..m+1 : n = m + 1 \/ n \in 0..m
  OBVIOUS
<1>8. m + 1 # 0 /\ (m + 1) - 1 = m
  OBVIOUS
<1>9. \A n \in 0..m+1 : z[n] = IF n = 0 THEN d ELSE AddDeviceToList(z[n - 1], order[n], list)
  BY <1>3, <1>5, <1>6, <1>7, <1>8
<1>10. Adds(d, order, list, m + 1, z)
  BY <1>4, <1>9 DEF Adds
<1> QED
  BY <1>10

\* Devices are listed one after another.
LEMMA AddsDef ==
  ASSUME NEW d, NEW order, NEW list, NEW uris, order = SetToSeq(uris), Len(order) \in Nat
  PROVE  \E g : /\ AddDevicesToList(d, uris, list) = Listed(d, g[Len(order)], list)
               /\ g[0] = d
               /\ \A n \in 1..Len(order) : g[n] = AddDeviceToList(g[n - 1], order[n], list)
<1> DEFINE S == {m \in Nat : \E g : Adds(d, order, list, m, g)}
           h == CHOOSE g : Adds(d, order, list, Len(order), g)
<1>1. 0 \in S
  <2>1. Adds(d, order, list, 0, [n \in 0..0 |-> d])
    BY DEF Adds
  <2> QED
    BY <2>1
<1>2. \A m \in Nat : m \in S => m + 1 \in S
  BY AddsNext
<1>3. Len(order) \in S
  <2> HIDE DEF S
  <2> QED
    BY <1>1, <1>2, Induction
<1>4. Adds(d, order, list, Len(order), h)
  BY <1>3
<1>5. AddDevicesToList(d, uris, list) = Listed(d, h[Len(order)], list)
  BY DEF AddDevicesToList, Listed, Adds
<1> HIDE DEF h
<1>6. h[0] = d
  BY <1>4 DEF Adds
<1>7. ASSUME NEW n \in 1..Len(order) PROVE h[n] = AddDeviceToList(h[n - 1], order[n], list)
  <2>1. n \in 0..Len(order) /\ n # 0
    OBVIOUS
  <2> QED
    BY <1>4, <2>1 DEF Adds
<1> QED
  BY <1>5, <1>6, <1>7

\* g tells what is left of a list without the first devices of a group.
Removes(list, group, m, g) ==
  g = [n \in 0..m |-> IF n = 0 THEN list ELSE RemoveDevice(g[n - 1], group[n])]

\* One device more.
LEMMA RemovesNext ==
  ASSUME NEW list, NEW group, NEW m \in Nat, NEW g, Removes(list, group, m, g)
  PROVE  \E z : Removes(list, group, m + 1, z)
<1> DEFINE z == [n \in 0..m+1 |-> IF n = m + 1 THEN RemoveDevice(g[m], group[n]) ELSE g[n]]
<1>1. \A n \in 0..m : z[n] = g[n]
  OBVIOUS
<1>2. \A n \in 0..m : g[n] = IF n = 0 THEN list ELSE RemoveDevice(g[n - 1], group[n])
  BY DEF Removes
<1>3. z[m+1] = RemoveDevice(z[m], group[m+1])
  BY <1>1
<1>4. DOMAIN z = 0..m+1 /\ z = [n \in 0..m+1 |-> z[n]]
  OBVIOUS
<1> HIDE DEF z
<1>5. ASSUME NEW n \in 0..m, n # 0
      PROVE  z[n] = RemoveDevice(z[n - 1], group[n])
  <2>1. n \in Int /\ n - 1 \in 0..m
    BY <1>5
  <2> QED
    BY <1>1, <1>2, <1>5, <2>1
<1>6. z[0] = list
  BY <1>1, <1>2
<1>7. \A n \in 0..m+1 : n = m + 1 \/ n \in 0..m
  OBVIOUS
<1>8. m + 1 # 0 /\ (m + 1) - 1 = m
  OBVIOUS
<1>9. \A n \in 0..m+1 : z[n] = IF n = 0 THEN list ELSE RemoveDevice(z[n - 1], group[n])
  BY <1>3, <1>5, <1>6, <1>7, <1>8
<1>10. Removes(list, group, m + 1, z)
  BY <1>4, <1>9 DEF Removes
<1> QED
  BY <1>10

\* The devices of a group are removed one after another.
LEMMA RemovesDef ==
  ASSUME NEW list, NEW group, Len(group) \in Nat
  PROVE  \E g : /\ RemoveDevices(list, group) = g[Len(group)]
               /\ g[0] = list
               /\ \A n \in 1..Len(group) : g[n] = RemoveDevice(g[n - 1], group[n])
<1> DEFINE S == {m \in Nat : \E g : Removes(list, group, m, g)}
           h == CHOOSE g : Removes(list, group, Len(group), g)
<1>1. 0 \in S
  <2>1. Removes(list, group, 0, [n \in 0..0 |-> list])
    BY DEF Removes
  <2> QED
    BY <2>1
<1>2. \A m \in Nat : m \in S => m + 1 \in S
  BY RemovesNext
<1>3. Len(group) \in S
  <2> HIDE DEF S
  <2> QED
    BY <1>1, <1>2, Induction
<1>4. Removes(list, group, Len(group), h)
  BY <1>3
<1>5. RemoveDevices(list, group) = h[Len(group)]
  BY DEF RemoveDevices, Removes
<1> HIDE DEF h
<1>6. h[0] = list
  BY <1>4 DEF Removes
<1>7. ASSUME NEW n \in 1..Len(group) PROVE h[n] = RemoveDevice(h[n - 1], group[n])
  <2>1. n \in 0..Len(group) /\ n # 0
    OBVIOUS
  <2> QED
    BY <1>4, <2>1 DEF Removes
<1> QED
  BY <1>5, <1>6, <1>7

\* g tells what is placed of the first groups.
Places(d, groups, m, g) ==
  g = [n \in 0..m |-> IF n = 0 THEN d ELSE PlaceGroup(g[n - 1], groups[n])]

\* One group more.
LEMMA PlacesNext ==
  ASSUME NEW d, NEW groups, NEW m \in Nat, NEW g, Places(d, groups, m, g)
  PROVE  \E z : Places(d, groups, m + 1, z)
<1> DEFINE z == [n \in 0..m+1 |-> IF n = m + 1 THEN PlaceGroup(g[m], groups[n]) ELSE g[n]]
<1>1. \A n \in 0..m : z[n] = g[n]
  OBVIOUS
<1>2. \A n \in 0..m : g[n] = IF n = 0 THEN d ELSE PlaceGroup(g[n - 1], groups[n])
  BY DEF Places
<1>3. z[m+1] = PlaceGroup(z[m], groups[m+1])
  BY <1>1
<1>4. DOMAIN z = 0..m+1 /\ z = [n \in 0..m+1 |-> z[n]]
  OBVIOUS
<1> HIDE DEF z
<1>5. ASSUME NEW n \in 0..m, n # 0
      PROVE  z[n] = PlaceGroup(z[n - 1], groups[n])
  <2>1. n \in Int /\ n - 1 \in 0..m
    BY <1>5
  <2> QED
    BY <1>1, <1>2, <1>5, <2>1
<1>6. z[0] = d
  BY <1>1, <1>2
<1>7. \A n \in 0..m+1 : n = m + 1 \/ n \in 0..m
  OBVIOUS
<1>8. m + 1 # 0 /\ (m + 1) - 1 = m
  OBVIOUS
<1>9. \A n \in 0..m+1 : z[n] = IF n = 0 THEN d ELSE PlaceGroup(z[n - 1], groups[n])
  BY <1>3, <1>5, <1>6, <1>7, <1>8
<1>10. Places(d, groups, m + 1, z)
  BY <1>4, <1>9 DEF Places
<1> QED
  BY <1>10

\* Groups are placed one after another.
LEMMA PlacesDef ==
  ASSUME NEW d, NEW groups, Len(groups) \in Nat
  PROVE  \E g : /\ PlaceGroups(d, groups) = g[Len(groups)]
               /\ g[0] = d
               /\ \A n \in 1..Len(groups) : g[n] = PlaceGroup(g[n - 1], groups[n])
<1> DEFINE S == {m \in Nat : \E g : Places(d, groups, m, g)}
           h == CHOOSE g : Places(d, groups, Len(groups), g)
<1>1. 0 \in S
  <2>1. Places(d, groups, 0, [n \in 0..0 |-> d])
    BY DEF Places
  <2> QED
    BY <2>1
<1>2. \A m \in Nat : m \in S => m + 1 \in S
  BY PlacesNext
<1>3. Len(groups) \in S
  <2> HIDE DEF S
  <2> QED
    BY <1>1, <1>2, Induction
<1>4. Places(d, groups, Len(groups), h)
  BY <1>3
<1>5. PlaceGroups(d, groups) = h[Len(groups)]
  BY DEF PlaceGroups, Places
<1> HIDE DEF h
<1>6. h[0] = d
  BY <1>4 DEF Places
<1>7. ASSUME NEW n \in 1..Len(groups) PROVE h[n] = PlaceGroup(h[n - 1], groups[n])
  <2>1. n \in 0..Len(groups) /\ n # 0
    OBVIOUS
  <2> QED
    BY <1>4, <2>1 DEF Places
<1> QED
  BY <1>5, <1>6, <1>7

\* A list of devices found is added to one of the lists.
LEMMA AddAll ==
  ASSUME NEW d, DOMAIN d = DOMAIN NewDialog, EntriesOK(d), NEW list \in {"devices", "new_devices"},
         NEW uris \in SUBSET Devices
  PROVE  LET e == AddDevicesToList(d, uris, list) IN
         /\ Added(d, e, list)
         /\ \A f \in DOMAIN NewDialog \ {"devices", "new_devices", "early"} : e[f] = d[f]
<1> DEFINE order == SetToSeq(uris)
           e == AddDevicesToList(d, uris, list)
<1>1. IsFiniteSet(uris)
  BY BoundsAssumption, FS_Subset
<1>2. order \in Seq(uris) /\ Len(order) \in Nat
  BY <1>1, OrderIs
<1> HIDE DEF e
<1>3. PICK g : /\ AddDevicesToList(d, uris, list) = Listed(d, g[Len(order)], list)
               /\ g[0] = d
               /\ \A n \in 1..Len(order) : g[n] = AddDeviceToList(g[n - 1], order[n], list)
  BY <1>2, AddsDef
<1> HIDE DEF order
<1> DEFINE S == {n \in Nat : n <= Len(order) => Added(d, g[n], list)}
<1>4. 0 \in S
  BY <1>3 DEF Added
<1>5. ASSUME NEW n \in Nat, n \in S PROVE n + 1 \in S
  <2> SUFFICES ASSUME n + 1 <= Len(order) PROVE Added(d, g[n + 1], list)
    OBVIOUS
  <2>1. n <= Len(order) /\ n + 1 \in 1..Len(order) /\ (n + 1) - 1 = n
    BY <1>2
  <2>2. Added(d, g[n], list)
    BY <1>5, <2>1
  <2>3. order[n + 1] \in Devices
    BY <1>2, <2>1
  <2>4. g[n + 1] = AddDeviceToList(g[n], order[n + 1], list)
    BY <1>3, <2>1
  <2> QED
    BY <2>2, <2>3, <2>4, AddOne
<1>6. Nat \subseteq S
  <2> HIDE DEF S
  <2> QED
    BY <1>4, <1>5, Induction
<1>7. Added(d, g[Len(order)], list)
  BY <1>2, <1>6
<1> DEFINE last == g[Len(order)]
<1> HIDE DEF last
<1>8. Added(d, last, list) /\ e = [d EXCEPT ![list] = last[list], !.early = last.early]
  BY <1>3, <1>7 DEF last, e, Listed
<1>9. /\ DOMAIN e = DOMAIN NewDialog /\ e[list] = last[list] /\ e.early = last.early
      /\ e.dests = d.dests /\ e.known = d.known
      /\ list = "devices" => e.new_devices = d.new_devices
      /\ list = "new_devices" => e.devices = d.devices
  BY <1>8, DialogFields
<1>10. \A f \in DOMAIN NewDialog \ {"devices", "new_devices", "early"} : e[f] = d[f]
  BY <1>8
<1>11. e.devices = last.devices /\ e.new_devices = last.new_devices
  BY <1>8, <1>9 DEF Added
<1>12. Added(d, e, list)
  <2>1. EntriesOK(e)
    BY <1>8, <1>9, <1>11, EntriesSame DEF Added
  <2>2. d.early \subseteq e.early
    BY <1>8, <1>9 DEF Added
  <2> QED
    BY <1>9, <2>1, <2>2 DEF Added
<1> QED
  BY <1>10, <1>12 DEF e

\* A device is removed from a list, the first one found,
LEMMA RemoveOne ==
  ASSUME NEW list \in Seq(Entries), OnceNamed(list), NEW uri
  PROVE  /\ Left(list, RemoveDevice(list, uri))
         /\ Found(uri, list) # {} =>
              /\ DeviceInList(uri, list) \in DOMAIN list
              /\ list[DeviceInList(uri, list)].name \notin Names(RemoveDevice(list, uri))
<1>1. CASE Found(uri, list) = {}
  BY <1>1 DEF RemoveDevice, Left
<1>2. ASSUME Found(uri, list) # {}
      PROVE  /\ Left(list, RemoveDevice(list, uri))
             /\ DeviceInList(uri, list) \in DOMAIN list
             /\ list[DeviceInList(uri, list)].name \notin Names(RemoveDevice(list, uri))
  <2> DEFINE i == DeviceInList(uri, list)
             c == RemoveDevice(list, uri)
  <2>1. i \in Found(uri, list)
    <3>1. Found(uri, list) \subseteq Nat
      BY DEF Found
    <3>2. i = Least(Found(uri, list))
      BY DEF DeviceInList, Least
    <3> QED
      BY <1>2, <3>1, <3>2, LeastIs
  <2>2. i \in DOMAIN list
    BY <2>1 DEF Found
  <2>3. c = RemoveAt(list, i)
    BY <1>2 DEF RemoveDevice
  <2> HIDE DEF i, c
  <2>4. c \in Seq(Entries) /\ OneLess(list, i, c)
    BY <2>2, <2>3, WithoutOne DEF RemoveAt
  <2>5. \A k \in DOMAIN c : \E j \in DOMAIN list : j # i /\ c[k] = list[j]
    BY <2>2, <2>4 DEF OneLess
  <2>6. \A k, l \in DOMAIN c : c[k].name = c[l].name => k = l
    BY <2>2, <2>4 DEF OneLess, OnceNamed
  <2>7. Names(c) \subseteq Names(list)
    BY <2>5 DEF Names
  <2>8. list[i].name \notin Names(c)
    BY <2>2, <2>5 DEF Names, OnceNamed
  <2> QED
    BY <2>2, <2>4, <2>6, <2>7, <2>8 DEF Left, OnceNamed, i, c
<1> QED
  BY <1>1, <1>2

\* and the devices of a group.
LEMMA RemoveAll ==
  ASSUME NEW list \in Seq(Entries), OnceNamed(list), NEW group, Len(group) \in Nat
  PROVE  /\ Left(list, RemoveDevices(list, group))
         /\ Len(group) > 0 /\ Found(group[1], list) # {} =>
              /\ DeviceInList(group[1], list) \in DOMAIN list
              /\ list[DeviceInList(group[1], list)].name \notin Names(RemoveDevices(list, group))
<1> DEFINE name == list[DeviceInList(group[1], list)].name
<1>1. PICK g : /\ RemoveDevices(list, group) = g[Len(group)] /\ g[0] = list
               /\ \A n \in 1..Len(group) : g[n] = RemoveDevice(g[n - 1], group[n])
  BY RemovesDef
<1> DEFINE S == {n \in Nat : n <= Len(group) =>
                   Left(list, g[n]) /\ (n > 0 /\ Found(group[1], list) # {} => name \notin Names(g[n]))}
<1>2. 0 \in S
  BY <1>1 DEF Left
<1>3. ASSUME NEW n \in Nat, n \in S PROVE n + 1 \in S
  <2> SUFFICES ASSUME n + 1 <= Len(group)
               PROVE  Left(list, g[n + 1]) /\ (Found(group[1], list) # {} => name \notin Names(g[n + 1]))
    OBVIOUS
  <2>1. n <= Len(group) /\ n + 1 \in 1..Len(group) /\ (n + 1) - 1 = n
    OBVIOUS
  <2>2. Left(list, g[n]) /\ (n > 0 /\ Found(group[1], list) # {} => name \notin Names(g[n]))
    BY <1>3, <2>1
  <2>3. g[n + 1] = RemoveDevice(g[n], group[n + 1])
    BY <1>1, <2>1
  <2> HIDE DEF name
  <2>4. Left(g[n], g[n + 1])
    BY <2>2, <2>3, RemoveOne DEF Left
  <2>5. Left(list, g[n + 1])
    BY <2>2, <2>4 DEF Left
  <2>6. CASE n > 0
    BY <2>2, <2>4, <2>5, <2>6 DEF Left
  <2>7. CASE n = 0
    <3>1. g[n + 1] = RemoveDevice(list, group[1])
      BY <1>1, <2>3, <2>7
    <3> QED
      BY <2>5, <3>1, RemoveOne DEF name
  <2> QED
    BY <2>6, <2>7
<1>4. Nat \subseteq S
  <2> HIDE DEF S
  <2> QED
    BY <1>2, <1>3, Induction
<1>5. Left(list, g[Len(group)]) /\ (Len(group) > 0 /\ Found(group[1], list) # {} => name \notin Names(g[Len(group)]))
  BY <1>4
<1> HIDE DEF S, name
<1>6. Found(group[1], list) # {} => DeviceInList(group[1], list) \in DOMAIN list
  BY RemoveOne
<1> QED
  BY <1>1, <1>5, <1>6 DEF name

\* d with groups placed in its list.
Placed(d, e) ==
  DOMAIN e = DOMAIN NewDialog /\ EntriesOK(e) /\ e.dests = d.dests /\ e.known = d.known /\ e.early = d.early

LEMMA PlaceOne ==
  ASSUME NEW d, NEW e, Placed(d, e), NEW group, Len(group) \in Nat \ {0}
  PROVE  Placed(d, PlaceGroup(e, group))
<1> DEFINE listed == \E u \in ToSet(group) : Found(u, e.devices) # {}
           kept == ~listed /\ Found(group[1], e.new_devices) # {}
           x == e.new_devices[DeviceInList(group[1], e.new_devices)]
           c == RemoveDevices(e.new_devices, group)
           l == IF kept THEN Append(e.devices, x) ELSE e.devices
           z == PlaceGroup(e, group)
<1>1. EntriesOK(e) /\ DOMAIN e = DOMAIN NewDialog
  BY DEF Placed
<1>2. z = [e EXCEPT !.new_devices = c, !.devices = l]
  BY DEF PlaceGroup
<1>3. Left(e.new_devices, c)
  BY <1>1, RemoveAll DEF EntriesOK
<1>4. kept => x \in Entries /\ x.name \in Names(e.new_devices) /\ x.name \notin Names(c)
  <2> SUFFICES ASSUME kept PROVE x \in Entries /\ x.name \in Names(e.new_devices) /\ x.name \notin Names(c)
    OBVIOUS
  <2>1. DeviceInList(group[1], e.new_devices) \in DOMAIN e.new_devices /\ x.name \notin Names(c)
    <3>1. e.new_devices \in Seq(Entries) /\ OnceNamed(e.new_devices)
      BY <1>1 DEF EntriesOK
    <3>2. Len(group) \in Nat /\ Len(group) > 0 /\ Found(group[1], e.new_devices) # {}
      OBVIOUS
    <3> HIDE DEF kept
    <3> QED
      BY <3>1, <3>2, RemoveAll
  <2>2. x \in Entries /\ x.name \in Names(e.new_devices)
    <3> DEFINE i == DeviceInList(group[1], e.new_devices)
    <3>1. i \in DOMAIN e.new_devices
      BY <2>1
    <3> HIDE DEF i
    <3>2. e.new_devices[i] \in Entries /\ e.new_devices[i].name \in Names(e.new_devices)
      BY <1>1, <3>1 DEF EntriesOK, Names
    <3> QED
      BY <3>2 DEF i
  <2> QED
    BY <2>1, <2>2
<1>5. /\ DOMAIN z = DOMAIN NewDialog /\ z.dests = e.dests /\ z.known = e.known /\ z.early = e.early
      /\ z.new_devices = c /\ z.devices = l
  <2> HIDE DEF c, l, z
  <2> QED
    BY <1>1, <1>2, DialogFields
<1> HIDE DEF c, z, x
<1>6. /\ l \in Seq(Entries) /\ OnceNamed(l)
      /\ Names(l) \subseteq Names(e.devices) \cup Names(e.new_devices) /\ Names(l) \cap Names(c) = {}
  <2>1. CASE ~kept
    <3>1. l = e.devices
      BY <2>1
    <3> QED
      BY <1>1, <1>3, <3>1 DEF EntriesOK, Left
  <2>2. ASSUME kept
        PROVE  /\ l \in Seq(Entries) /\ OnceNamed(l)
               /\ Names(l) \subseteq Names(e.devices) \cup Names(e.new_devices) /\ Names(l) \cap Names(c) = {}
    <3>1. l = Append(e.devices, x) /\ x \in Entries /\ x.name \in Names(e.new_devices) /\ x.name \notin Names(c)
      BY <1>4, <2>2
    <3> HIDE DEF l, kept
    <3>2. x.name \notin Names(e.devices)
      BY <1>1, <3>1 DEF EntriesOK
    <3>3. l \in Seq(Entries) /\ OnceNamed(l) /\ Names(l) = Names(e.devices) \cup {x.name}
      BY <1>1, <3>1, <3>2, AppendOnce DEF EntriesOK
    <3> QED
      BY <1>1, <1>3, <3>1, <3>3 DEF EntriesOK, Left
  <2> QED
    BY <2>1, <2>2
<1> HIDE DEF l
<1>7. EntriesOK(z)
  BY <1>1, <1>3, <1>5, <1>6 DEF EntriesOK, Left
<1> QED
  BY <1>5, <1>7 DEF Placed, z

LEMMA PlaceAll ==
  ASSUME NEW d, DOMAIN d = DOMAIN NewDialog, EntriesOK(d), NEW groups, Len(groups) \in Nat,
         \A n \in 1..Len(groups) : Len(groups[n]) \in Nat \ {0}
  PROVE  Placed(d, PlaceGroups(d, groups))
<1>1. PICK g : /\ PlaceGroups(d, groups) = g[Len(groups)] /\ g[0] = d
               /\ \A n \in 1..Len(groups) : g[n] = PlaceGroup(g[n - 1], groups[n])
  BY PlacesDef
<1> DEFINE S == {n \in Nat : n <= Len(groups) => Placed(d, g[n])}
<1>2. 0 \in S
  BY <1>1 DEF Placed
<1>3. ASSUME NEW n \in Nat, n \in S PROVE n + 1 \in S
  <2> SUFFICES ASSUME n + 1 <= Len(groups) PROVE Placed(d, g[n + 1])
    OBVIOUS
  <2>1. n <= Len(groups) /\ n + 1 \in 1..Len(groups) /\ (n + 1) - 1 = n
    OBVIOUS
  <2>2. Placed(d, g[n])
    BY <1>3, <2>1
  <2>3. g[n + 1] = PlaceGroup(g[n], groups[n + 1])
    BY <1>1, <2>1
  <2> QED
    BY <2>1, <2>2, <2>3, PlaceOne
<1>4. Nat \subseteq S
  <2> HIDE DEF S
  <2> QED
    BY <1>2, <1>3, Induction
<1> QED
  BY <1>1, <1>4

\* Two lists joined of which no device has the same name,
LEMMA ConcatOnce ==
  ASSUME NEW a \in Seq(Entries), NEW b \in Seq(Entries), OnceNamed(a), OnceNamed(b), Names(a) \cap Names(b) = {}
  PROVE  a \o b \in Seq(Entries) /\ OnceNamed(a \o b) /\ Names(a \o b) = Names(a) \cup Names(b)
<1> DEFINE c == a \o b
<1>1. c \in Seq(Entries) /\ Len(c) = Len(a) + Len(b)
  OBVIOUS
<1>2. Len(a) \in Nat /\ Len(b) \in Nat /\ DOMAIN a = 1..Len(a) /\ DOMAIN b = 1..Len(b)
  OBVIOUS
<1>3. \A i \in DOMAIN a : c[i] = a[i]
  BY <1>2
<1>4. ASSUME NEW i \in DOMAIN b PROVE c[Len(a) + i] = b[i]
  BY <1>2
<1>5. DOMAIN c = 1..Len(a) + Len(b)
  BY <1>1
<1> HIDE DEF c
<1>6. ASSUME NEW k \in DOMAIN c PROVE k \in DOMAIN a \/ \E i \in DOMAIN b : k = Len(a) + i
  <2>1. k \in 1..Len(a) \/ (k - Len(a) \in 1..Len(b) /\ k = Len(a) + (k - Len(a)))
    BY <1>2, <1>5
  <2> QED
    BY <1>2, <2>1
<1>7. /\ \A i \in DOMAIN a : a[i].name \in Names(a) /\ i \in DOMAIN c
      /\ \A i \in DOMAIN b : b[i].name \in Names(b) /\ Len(a) + i \in DOMAIN c
  BY <1>2, <1>5 DEF Names
<1>8. OnceNamed(c)
  <2> SUFFICES ASSUME NEW k \in DOMAIN c, NEW l \in DOMAIN c, c[k].name = c[l].name PROVE k = l
    BY DEF OnceNamed
  <2>1. CASE k \in DOMAIN a /\ l \in DOMAIN a
    BY <1>3, <2>1 DEF OnceNamed
  <2>2. ASSUME NEW i \in DOMAIN b, k = Len(a) + i, NEW j \in DOMAIN b, l = Len(a) + j PROVE k = l
    BY <1>4, <2>2 DEF OnceNamed
  <2>3. ASSUME NEW i \in DOMAIN b, k = Len(a) + i, l \in DOMAIN a PROVE FALSE
    BY <1>3, <1>4, <1>7, <2>3
  <2>4. ASSUME NEW i \in DOMAIN b, l = Len(a) + i, k \in DOMAIN a PROVE FALSE
    BY <1>3, <1>4, <1>7, <2>4
  <2> QED
    BY <1>6, <2>1, <2>2, <2>3, <2>4
<1>9. Names(c) \subseteq Names(a) \cup Names(b)
  <2>1. \A k \in DOMAIN c : c[k].name \in Names(a) \cup Names(b)
    BY <1>3, <1>4, <1>6, <1>7
  <2> QED
    BY <2>1 DEF Names
<1>10. Names(a) \subseteq Names(c) /\ Names(b) \subseteq Names(c)
  BY <1>3, <1>4, <1>7 DEF Names
<1> QED
  BY <1>1, <1>8, <1>9, <1>10 DEF c

\* a list of which other devices are shown,
Reshow(list, b) == [i \in DOMAIN list |-> [list[i] EXCEPT !.show = b[i]]]

LEMMA Reshown ==
  ASSUME NEW list \in Seq(Entries), OnceNamed(list), NEW b, \A i \in DOMAIN list : b[i] \in BOOLEAN,
         NEW c, c = Reshow(list, b)
  PROVE  c \in Seq(Entries) /\ OnceNamed(c) /\ Names(c) = Names(list)
<1> USE DEF Reshow
<1>1. Len(list) \in Nat /\ DOMAIN list = 1..Len(list) /\ DOMAIN c = 1..Len(list)
  OBVIOUS
<1>2. ASSUME NEW i \in DOMAIN list PROVE c[i] \in Entries /\ c[i].name = list[i].name
  <2>1. list[i] \in Entries /\ c[i] = [list[i] EXCEPT !.show = b[i]] /\ b[i] \in BOOLEAN
    BY <1>1
  <2> QED
    BY <2>1 DEF Entries
<1>3. c \in Seq(Entries)
  BY <1>1, <1>2
<1>4. DOMAIN c = DOMAIN list
  BY <1>1
<1>5. OnceNamed(c) /\ Names(c) = Names(list)
  <2> HIDE DEF Entries
  <2>1. OnceNamed(c)
    BY <1>2, <1>4 DEF OnceNamed
  <2>2. Names(c) = Names(list)
    BY <1>2, <1>4 DEF Names
  <2> QED
    BY <2>1, <2>2
<1> QED
  BY <1>3, <1>5

\* and the devices of a list at some places.
LEMMA KeptLeft ==
  ASSUME NEW list \in Seq(Entries), OnceNamed(list)
  PROVE  \A places : places \subseteq DOMAIN list => Left(list, Kept(list, places))
<1> SUFFICES ASSUME NEW places, places \subseteq DOMAIN list PROVE Left(list, Kept(list, places))
  OBVIOUS
<1> DEFINE c == Kept(list, places)
<1>1. \A i, j \in DOMAIN list : list[i] = list[j] => i = j
  BY DEF OnceNamed
<1>2. /\ c \in Seq(Entries)
      /\ \A k \in DOMAIN c : \E i \in places : c[k] = list[i]
      /\ \A k, l \in DOMAIN c : c[k] = c[l] => k = l
  BY <1>1, KeptDistinct
<1> HIDE DEF c
<1>3. OnceNamed(c)
  <2> SUFFICES ASSUME NEW k \in DOMAIN c, NEW l \in DOMAIN c, c[k].name = c[l].name PROVE k = l
    BY DEF OnceNamed
  <2>1. PICK i \in places : c[k] = list[i]
    BY <1>2
  <2>2. PICK j \in places : c[l] = list[j]
    BY <1>2
  <2>3. i = j
    BY <2>1, <2>2 DEF OnceNamed
  <2> QED
    BY <1>2, <2>1, <2>2, <2>3
<1>4. Names(c) \subseteq Names(list)
  BY <1>2 DEF Names
<1> QED
  BY <1>2, <1>3, <1>4 DEF Left, c

\* A list without devices.
LEMMA EmptyIs == /\ Names(<<>>) = {} /\ OnceNamed(<<>>) /\ <<>> \in Seq(Entries) /\ DOMAIN <<>> = {}
                 /\ 0 \in 0..Len(<<>>)
<1>1. Len(<<>>) = 0 /\ DOMAIN <<>> = {}
  OBVIOUS
<1> QED
  BY <1>1 DEF Names, OnceNamed

-----------------------------------------------------------------------------
(***************************************************************************)
(* What the user adds is what was chosen: the invariant.                   *)
(***************************************************************************)

\* The rows are devices of the list.
RowsListed(d) ==
  /\ d.rows \in Seq(Entries) /\ d.selected \in 0..Len(d.rows)
  /\ \A i \in DOMAIN d.rows : \E j \in DOMAIN d.devices : d.rows[i] = d.devices[j]

\* The backends that are still to answer, and the groups: every backend makes one request at most.
ToAsk(b) == IF b > 0 THEN Backends + 1 - b ELSE 0
PendingOK ==
  /\ DOMAIN pending = DOMAIN NoCalls
  /\ pending.backend \in 0..Backends /\ pending.groups \in Seq(SUBSET Devices)
  /\ pending.dests => pending.backend = 0 /\ pending.groups = <<>> /\ ~dialog.known
  /\ Len(pending.groups) + ToAsk(pending.backend) <= Backends

\* The printers that the dialog knows of are those there are, but for those others add.
QueuesOK ==
  /\ IsFiniteSet(DOMAIN queues) /\ others \in Seq(Contested)
  /\ \A n \in DOMAIN queues : DOMAIN queues[n] = {"uri", "accepting", "enabled"}
  /\ dialog.shown /\ dialog.known => DOMAIN queues \subseteq dialog.dests \cup ToSet(others)

\* What is added is what was chosen, and is there when it was not disturbed.
Before == {"drivers", "install", "drivers_again", "remote_ppd", "add"}
ChosenOK ==
  /\ add.uri = add.chosen
  /\ add.pc = "none" => ~add.overwrites
  /\ add.overwrites => Disturbed(add.name)
  /\ add.pc \in Before /\ add.name \in DOMAIN queues => Disturbed(add.name)
  /\ add.pc # "none" /\ add.name \in DOMAIN queues /\ ~Disturbed(add.name) => queues[add.name].uri = add.uri

\* What was granted of the configuration holds for a printer that was not disturbed.
Granted(a, q) ==
  /\ a.name \in DOMAIN q
  /\ "accept" \in a.finished \ a.refused => q[a.name].accepting
  /\ "enable" \in a.finished \ a.refused => q[a.name].enabled
InstalledOK ==
  /\ add.refused \subseteq add.finished
  /\ add.step \in {"none", "ppd", "missing", "files", "packages"} /\ add.files \in Nat
  /\ add.success => add.pc \in {"complete", "done"} /\ Parts \ Excused(add) \subseteq add.finished
  /\ (add.pc = "configure" \/ add.success) /\ ~Disturbed(add.name) => Granted(add, queues)
  /\ dialog.response = "ok" => add.success /\ ~dialog.open /\ add.pc = "done"

InstallInv == EntriesOK(dialog) /\ RowsListed(dialog) /\ PendingOK /\ QueuesOK /\ ChosenOK /\ InstalledOK

\* A dialog that goes on as the same one, with its printers, but for names given meanwhile.
Continues(d, e) ==
  /\ DOMAIN e = DOMAIN NewDialog /\ e.shown = d.shown /\ e.open = d.open /\ e.response = d.response
  /\ e.dests = d.dests /\ e.known = d.known

\* Before the user has pressed Add nothing of the addition is to be kept.
LEMMA LooksInstall ==
  ASSUME NewPrinterInv, InstallInv, dialog.shown, SearchFrame,
         dialog'.response = dialog.response, QueuesOK', EntriesOK(dialog'), RowsListed(dialog'), PendingOK'
  PROVE  InstallInv'
<1>1. add.pc = "none" /\ UNCHANGED <<add, queues, others>> /\ dialog.open
  BY DEF NewPrinterInv, AdditionOK, SearchFrame
<1>2. ~add.success /\ ~add.overwrites /\ dialog.response # "ok"
  BY <1>1 DEF InstallInv, InstalledOK, ChosenOK
<1>3. ChosenOK'
  BY <1>1, <1>2 DEF InstallInv, ChosenOK, Before
<1>4. InstalledOK'
  BY <1>1, <1>2 DEF InstallInv, InstalledOK, Excused
<1> QED
  BY <1>3, <1>4 DEF InstallInv

\* What the dialog knows of the printers stays true where nobody changes them.
LEMMA QueuesSame ==
  ASSUME QueuesOK, Continues(dialog, dialog'), UNCHANGED <<queues, others>>
  PROVE  QueuesOK'
BY DEF QueuesOK, Continues

\* A step of a search.
LEMMA SearchInstall ==
  ASSUME NewPrinterInv, InstallInv, dialog.shown, SearchFrame, Continues(dialog, dialog'),
         EntriesOK(dialog'), RowsListed(dialog'), PendingOK'
  PROVE  InstallInv'
<1>1. QueuesOK'
  BY QueuesSame DEF InstallInv, SearchFrame
<1> QED
  BY <1>1, LooksInstall DEF Continues

\* The rows made anew are those of the list.
LEMMA RowsAnew ==
  ASSUME NEW d, DOMAIN d = DOMAIN NewDialog, EntriesOK(d)
  PROVE  LET e == ActualizeDevicesList(d) IN Continues(d, e) /\ EntriesOK(e) /\ RowsListed(e)
<1> DEFINE places == {i \in DOMAIN d.devices : d.devices[i].show}
           rows == Kept(d.devices, places)
           notice == rows = <<>> /\ ~(d.cups_searching \/ d.remote_searching \/ d.snmp_searching)
           selected == IF rows = <<>> THEN 0 ELSE 1
           c == [d EXCEPT !.rows = rows, !.notice = notice, !.selected = selected]
           e == ActualizeDevicesList(d)
<1>1. e = UpdateSpinnerState(c)
  BY DEF ActualizeDevicesList
<1>2. d.devices \in Seq(Entries)
  BY DEF EntriesOK
<1> HIDE DEF places
<1>3. rows \in Seq(Entries) /\ \A k \in DOMAIN rows : \E n \in DOMAIN d.devices : rows[k] = d.devices[n]
  BY <1>2, KeptIsSeq
<1>4. Len(rows) \in Nat /\ (rows # <<>> => Len(rows) > 0)
  BY <1>3
<1> HIDE DEF rows, notice, e
<1>5. selected \in 0..Len(rows)
  BY <1>4
<1> HIDE DEF selected
<1>6. /\ DOMAIN c = DOMAIN NewDialog /\ c.rows = rows /\ c.selected = selected
      /\ c.devices = d.devices /\ c.new_devices = d.new_devices /\ c.dests = d.dests /\ c.known = d.known
      /\ c.early = d.early /\ c.shown = d.shown /\ c.open = d.open /\ c.response = d.response
  BY DialogFields
<1> HIDE DEF c
<1>7. /\ DOMAIN e = DOMAIN NewDialog /\ e.rows = rows /\ e.selected = selected
      /\ e.devices = d.devices /\ e.new_devices = d.new_devices /\ e.dests = d.dests /\ e.known = d.known
      /\ e.early = d.early /\ e.shown = d.shown /\ e.open = d.open /\ e.response = d.response
  BY <1>1, <1>6, DialogFields DEF UpdateSpinnerState
<1>8. EntriesOK(e)
  BY <1>7, EntriesSame
<1>9. RowsListed(e)
  BY <1>3, <1>5, <1>7 DEF RowsListed
<1> QED
  BY <1>7, <1>8, <1>9 DEF Continues, e

\* The answers of the searches.
LEMMA DestsInstall ==
  ASSUME NewPrinterInv, InstallInv, NEW ok \in BOOLEAN, CupsGetDestsAnswer(ok)
  PROVE  InstallInv'
<1> DEFINE dests == IF ok THEN DOMAIN queues ELSE {}
           d == [dialog EXCEPT !.dests = dests, !.known = ok, !.cups_searching = TRUE]
<1>1. dialog.shown /\ pending.dests /\ DOMAIN dialog = DOMAIN NewDialog
  BY DEF NewPrinterInv, Waits, CupsGetDestsAnswer, DialogIsRecord
<1>2. dialog' = UpdateSpinnerState(d) /\ pending' = [pending EXCEPT !.dests = FALSE, !.backend = 1] /\ SearchFrame
  BY DEF CupsGetDestsAnswer
<1>3. /\ d.dests = dests /\ d.known = ok /\ DOMAIN d = DOMAIN NewDialog
      /\ d.devices = dialog.devices /\ d.new_devices = dialog.new_devices /\ d.early = dialog.early
      /\ d.rows = dialog.rows /\ d.selected = dialog.selected /\ d.shown = dialog.shown /\ d.response = dialog.response
  BY <1>1, DialogFields
<1> HIDE DEF d
<1>4. /\ dialog'.dests = dests /\ dialog'.known = ok
      /\ dialog'.devices = dialog.devices /\ dialog'.new_devices = dialog.new_devices /\ dialog'.early = dialog.early
      /\ dialog'.rows = dialog.rows /\ dialog'.selected = dialog.selected /\ dialog'.shown = dialog.shown
      /\ dialog'.response = dialog.response
  BY <1>2, <1>3, DialogFields DEF UpdateSpinnerState
<1>5. pending.backend = 0 /\ pending.groups = <<>> /\ ~dialog.known /\ DOMAIN pending = DOMAIN NoCalls
  BY <1>1 DEF InstallInv, PendingOK
<1>6. IsFiniteSet(dests)
  BY FS_EmptySet DEF InstallInv, QueuesOK
<1>7. EntriesOK(dialog')
  BY <1>4, <1>5, <1>6 DEF InstallInv, EntriesOK
<1>8. RowsListed(dialog')
  BY <1>4 DEF InstallInv, RowsListed
<1>9. PendingOK'
  <2>1. /\ DOMAIN pending' = DOMAIN NoCalls /\ pending'.dests = FALSE /\ pending'.backend = 1
        /\ pending'.groups = <<>>
    BY <1>2, <1>5 DEF NoCalls
  <2>2. Backends \in Nat \ {0}
    BY BoundsAssumption
  <2>3. ToAsk(1) = Backends
    BY <2>2 DEF ToAsk
  <2> QED
    BY <2>1, <2>2, <2>3 DEF PendingOK
<1>10. QueuesOK'
  BY <1>2, <1>4 DEF InstallInv, QueuesOK, SearchFrame
<1> QED
  BY <1>1, <1>2, <1>4, <1>7, <1>8, <1>9, <1>10, LooksInstall

LEMMA DevicesInstall ==
  ASSUME NewPrinterInv, InstallInv, NEW found \in SUBSET Devices, NEW ok \in BOOLEAN, GetCupsDevicesAnswer(found, ok)
  PROVE  InstallInv'
<1> DEFINE finished == ~ok \/ pending.backend = Backends
           d == [dialog EXCEPT !.cups_searching = @ /\ ~finished]
           added == AddDevicesToList(d, found, "new_devices")
           request == {added.devices[i].uri : i \in DOMAIN added.devices} \cup found
           groups == IF found = {} THEN pending.groups ELSE Append(pending.groups, request)
           backend == IF finished THEN 0 ELSE pending.backend + 1
<1>1. dialog.shown /\ DOMAIN dialog = DOMAIN NewDialog /\ SearchFrame /\ pending.backend > 0
  BY DEF NewPrinterInv, Waits, GetCupsDevicesAnswer, DialogIsRecord
<1>2. /\ dialog' = IF found = {} THEN ActualizeDevicesList(d) ELSE added
      /\ pending' = [pending EXCEPT !.backend = backend, !.groups = groups]
  BY DEF GetCupsDevicesAnswer
<1>3. /\ DOMAIN d = DOMAIN NewDialog /\ d.devices = dialog.devices /\ d.new_devices = dialog.new_devices
      /\ d.early = dialog.early /\ d.dests = dialog.dests /\ d.known = dialog.known
      /\ d.rows = dialog.rows /\ d.selected = dialog.selected
      /\ d.shown = dialog.shown /\ d.open = dialog.open /\ d.response = dialog.response
  BY <1>1, DialogFields
<1> HIDE DEF d
<1>4. EntriesOK(d) /\ RowsListed(d) /\ Continues(dialog, d)
  BY <1>3, EntriesSame DEF InstallInv, RowsListed, Continues
<1>5. Added(d, added, "new_devices") /\ \A f \in DOMAIN NewDialog \ {"devices", "new_devices", "early"} : added[f] = d[f]
  BY <1>3, <1>4, AddAll
<1> HIDE DEF added
<1>6. EntriesOK(added) /\ RowsListed(added) /\ Continues(dialog, added)
  <2>1. /\ added.rows = d.rows /\ added.selected = d.selected /\ added.shown = d.shown
        /\ added.open = d.open /\ added.response = d.response
    BY <1>5, DialogFields
  <2> QED
    BY <1>4, <1>5, <2>1 DEF Added, RowsListed, Continues
<1>7. EntriesOK(dialog') /\ RowsListed(dialog') /\ Continues(dialog, dialog')
  <2>1. CASE found = {}
    BY <1>2, <1>3, <1>4, <2>1, RowsAnew DEF Continues
  <2>2. CASE found # {}
    BY <1>2, <1>6, <2>2
  <2> QED
    BY <2>1, <2>2
<1>8. request \in SUBSET Devices
  <2>1. \A i \in DOMAIN added.devices : added.devices[i] \in Entries
    BY <1>6 DEF EntriesOK
  <2> QED
    BY <2>1 DEF Entries
<1> HIDE DEF request
<1>9. PendingOK'
  <2>1. /\ pending.backend \in 1..Backends /\ pending.groups \in Seq(SUBSET Devices) /\ ~pending.dests
        /\ Len(pending.groups) + (Backends + 1 - pending.backend) <= Backends /\ DOMAIN pending = DOMAIN NoCalls
    BY <1>1 DEF InstallInv, PendingOK, ToAsk
  <2>2. groups \in Seq(SUBSET Devices) /\ Len(groups) <= Len(pending.groups) + 1
    BY <1>8, <2>1
  <2>3. Len(pending.groups) \in Nat /\ Len(groups) \in Nat /\ Backends \in Nat
    BY <2>1, <2>2, BoundsAssumption
  <2> HIDE DEF groups
  <2>4. backend \in 0..Backends
    BY <2>1, <2>3
  <2>5. Len(groups) + ToAsk(backend) <= Backends
    <3>1. CASE finished
      BY <2>1, <2>2, <2>3, <3>1 DEF ToAsk
    <3>2. CASE ~finished
      BY <2>1, <2>2, <2>3, <3>2 DEF ToAsk
    <3> QED
      BY <3>1, <3>2
  <2> HIDE DEF backend
  <2>6. DOMAIN pending' = DOMAIN NoCalls /\ pending'.backend = backend /\ pending'.groups = groups /\ ~pending'.dests
    BY <1>2, <2>1 DEF NoCalls
  <2> QED
    BY <2>2, <2>4, <2>5, <2>6 DEF PendingOK
<1> QED
  BY <1>1, <1>7, <1>9, SearchInstall

\* The device listed first of every group is one of it, and the others follow.
LEMMA GroupsAreLists ==
  ASSUME NEW request \in SUBSET Devices, NEW first \in Groupings(request)
  PROVE  LET group(g) == <<first[g]>> \o SetToSeq(g \ {first[g]})
             order == SetToSeq(DOMAIN first)
             groups == [n \in DOMAIN order |-> group(order[n])]
         IN Len(groups) \in Nat /\ \A n \in 1..Len(groups) : Len(groups[n]) \in Nat \ {0}
<1> DEFINE group(g) == <<first[g]>> \o SetToSeq(g \ {first[g]})
           order == SetToSeq(DOMAIN first)
           groups == [n \in DOMAIN order |-> group(order[n])]
           f == [v \in request |-> {u \in request : Info[u].physical = Info[v].physical}]
<1>1. IsFiniteSet(request)
  BY BoundsAssumption, FS_Subset
<1>2. DOMAIN first = GroupsOf(request)
  BY DEF Groupings
<1>3. IsFiniteSet(GroupsOf(request))
  <2>1. f \in Surjection(request, GroupsOf(request))
    BY DEF Surjection, GroupsOf
  <2> QED
    BY <1>1, <2>1, FS_Surjection
<1>4. \A g \in GroupsOf(request) : g \subseteq request
  BY DEF GroupsOf
<1>5. order \in Seq(GroupsOf(request)) /\ Len(order) \in Nat /\ DOMAIN order = 1..Len(order)
  BY <1>2, <1>3, OrderIs
<1> HIDE DEF order
<1>6. ASSUME NEW g \in GroupsOf(request) PROVE Len(group(g)) \in Nat \ {0}
  <2> DEFINE rest == g \ {first[g]}
             s == SetToSeq(rest)
  <2>1. IsFiniteSet(rest)
    BY <1>1, <1>4, FS_Subset
  <2> HIDE DEF rest
  <2>2. s \in Seq(rest)
    BY <2>1, OrderIs
  <2> HIDE DEF s
  <2>3. group(g) = <<first[g]>> \o s
    BY DEF s, rest
  <2>4. <<first[g]>> \in Seq(rest \cup {first[g]}) /\ s \in Seq(rest \cup {first[g]}) /\ Len(<<first[g]>>) = 1
    BY <2>2
  <2>5. Len(<<first[g]>> \o s) = 1 + Len(s) /\ Len(s) \in Nat
    BY <2>4
  <2> QED
    BY <2>3, <2>5
<1>7. Len(groups) = Len(order)
  BY <1>5
<1>8. ASSUME NEW n \in 1..Len(order) PROVE Len(groups[n]) \in Nat \ {0}
  <2>1. order[n] \in GroupsOf(request) /\ groups[n] = group(order[n])
    BY <1>5
  <2> HIDE DEF group, groups
  <2> QED
    BY <1>6, <2>1
<1> QED
  BY <1>5, <1>7, <1>8 DEF order

LEMMA GroupsInstall ==
  ASSUME NewPrinterInv, InstallInv, NEW ok \in BOOLEAN, GroupPhysicalDevicesAnswer(ok)
  PROVE  InstallInv'
<1> DEFINE all == [devices |-> dialog.devices \o dialog.new_devices, new_devices |-> <<>>]
           d(lists) == [dialog EXCEPT !.devices = lists.devices, !.new_devices = lists.new_devices]
           lists(first) == LET group(g) == <<first[g]>> \o SetToSeq(g \ {first[g]})
                               order == SetToSeq(DOMAIN first)
                           IN PlaceGroups(dialog, [n \in DOMAIN order |-> group(order[n])])
<1>1. dialog.shown /\ DOMAIN dialog = DOMAIN NewDialog /\ SearchFrame /\ pending.groups # <<>>
      /\ pending' = [pending EXCEPT !.groups = Tail(@)]
  BY DEF NewPrinterInv, Waits, GroupPhysicalDevicesAnswer, DialogIsRecord
<1>2. /\ pending.groups \in Seq(SUBSET Devices) /\ ~pending.dests /\ DOMAIN pending = DOMAIN NoCalls
      /\ Len(pending.groups) + ToAsk(pending.backend) <= Backends /\ pending.backend \in 0..Backends
  BY <1>1 DEF InstallInv, PendingOK
<1>3. EntriesOK(dialog)
  BY DEF InstallInv
<1>4. \E e : EntriesOK(e) /\ Continues(dialog, e) /\ dialog' = ActualizeDevicesList(e)
  <2>1. CASE ok
    <3>1. PICK first \in Groupings(Head(pending.groups)) : dialog' = ActualizeDevicesList(d(lists(first)))
      BY <2>1 DEF GroupPhysicalDevicesAnswer
    <3>2. Head(pending.groups) \in SUBSET Devices
      BY <1>1, <1>2
    <3> DEFINE l == lists(first)
    <3>3. Placed(dialog, l)
      <4> DEFINE group(g) == <<first[g]>> \o SetToSeq(g \ {first[g]})
                 order == SetToSeq(DOMAIN first)
                 groups == [n \in DOMAIN order |-> group(order[n])]
      <4>1. Len(groups) \in Nat /\ \A n \in 1..Len(groups) : Len(groups[n]) \in Nat \ {0}
        BY <3>2, GroupsAreLists
      <4>2. l = PlaceGroups(dialog, groups)
        OBVIOUS
      <4> HIDE DEF groups, l
      <4> QED
        BY <1>1, <1>3, <4>1, <4>2, PlaceAll
    <3> HIDE DEF l
    <3>4. LET e == d(l) IN
          /\ DOMAIN e = DOMAIN NewDialog /\ e.devices = l.devices /\ e.new_devices = l.new_devices
          /\ e.dests = dialog.dests /\ e.known = dialog.known /\ e.early = dialog.early
          /\ e.shown = dialog.shown /\ e.open = dialog.open /\ e.response = dialog.response
      BY <1>1, DialogFields
    <3> DEFINE e == d(l)
    <3>5. dialog' = ActualizeDevicesList(e)
      BY <3>1 DEF l
    <3> HIDE DEF e
    <3>6. EntriesOK(e) /\ Continues(dialog, e)
      BY <3>3, <3>4, EntriesSame DEF Placed, Continues, e
    <3> QED
      BY <3>5, <3>6
  <2>2. CASE ~ok
    <3> DEFINE a == dialog.devices
               b == dialog.new_devices
               c == a \o b
               e == [dialog EXCEPT !.devices = c, !.new_devices = <<>>]
    <3>1. dialog' = ActualizeDevicesList(e)
      BY <2>2 DEF GroupPhysicalDevicesAnswer
    <3>2. a \in Seq(Entries) /\ b \in Seq(Entries) /\ OnceNamed(a) /\ OnceNamed(b) /\ Names(a) \cap Names(b) = {}
      BY <1>3 DEF EntriesOK
    <3> HIDE DEF a, b
    <3>3. c \in Seq(Entries) /\ OnceNamed(c) /\ Names(c) = Names(a) \cup Names(b)
      BY <3>2, ConcatOnce
    <3> HIDE DEF c
    <3>4. /\ DOMAIN e = DOMAIN NewDialog /\ e.devices = c /\ e.new_devices = <<>>
          /\ e.dests = dialog.dests /\ e.known = dialog.known /\ e.early = dialog.early
          /\ e.shown = dialog.shown /\ e.open = dialog.open /\ e.response = dialog.response
      BY <1>1, DialogFields
    <3> HIDE DEF e
    <3>5. EntriesOK(e) /\ Continues(dialog, e)
      BY <1>3, <3>3, <3>4, EmptyIs DEF EntriesOK, Continues, a, b
    <3> QED
      BY <3>1, <3>5
  <2> QED
    BY <2>1, <2>2
<1>5. EntriesOK(dialog') /\ RowsListed(dialog') /\ Continues(dialog, dialog')
  BY <1>4, RowsAnew DEF Continues
<1>6. PendingOK'
  <2>1. /\ DOMAIN pending' = DOMAIN NoCalls /\ pending'.groups = Tail(pending.groups) /\ pending'.backend = pending.backend
        /\ ~pending'.dests
    BY <1>1, <1>2 DEF NoCalls
  <2>2. Tail(pending.groups) \in Seq(SUBSET Devices) /\ Len(Tail(pending.groups)) = Len(pending.groups) - 1
        /\ Len(pending.groups) \in Nat
    BY <1>1, <1>2
  <2>3. ToAsk(pending.backend) \in Int /\ Backends \in Nat
    BY <1>2, BoundsAssumption DEF ToAsk
  <2> QED
    BY <1>2, <2>1, <2>2, <2>3 DEF PendingOK
<1> QED
  BY <1>1, <1>5, <1>6, SearchInstall

\* The user searches: other devices are shown, or those of an address are looked for.
LEMMA AddressInstall ==
  ASSUME NewPrinterInv, InstallInv, NEW text \in Texts, SearchAddress(text)
  PROVE  InstallInv'
<1> DEFINE matches(e) == text.words = 0 \/ Info[e.uri].base \in text.matches
           filtered == [i \in DOMAIN dialog.devices |->
                          [dialog.devices[i] EXCEPT !.show = matches(dialog.devices[i])]]
           address == text.words = 1 /\ \A i \in DOMAIN dialog.devices : ~matches(dialog.devices[i])
           local(list) == Kept(list, {i \in DOMAIN list : Info[list[i].uri].method = "cups"})
           all == [i \in DOMAIN dialog.devices |-> [dialog.devices[i] EXCEPT !.show = TRUE]]
           old == local(all)
           new == local(dialog.new_devices)
           searched == [dialog EXCEPT !.devices = old, !.new_devices = new,
                                      !.remote_searching = TRUE, !.snmp_searching = TRUE]
           other == [dialog EXCEPT !.devices = filtered]
           hosts == IF address THEN pending.hosts \cup ({"remote", "snmp"} \X {pending.searches}) ELSE pending.hosts
           l == dialog.devices
<1>1. dialog.shown /\ DOMAIN dialog = DOMAIN NewDialog /\ SearchFrame
      /\ pending' = [pending EXCEPT !.searches = @ + 1, !.hosts = hosts]
  BY DEF NewPrinterInv, SearchAddress, UserLooks, DialogIsRecord
<1>2. dialog' = ActualizeDevicesList(IF address THEN searched ELSE other)
  BY DEF SearchAddress
<1>3. EntriesOK(dialog) /\ l \in Seq(Entries) /\ dialog.new_devices \in Seq(Entries) /\ OnceNamed(l)
      /\ OnceNamed(dialog.new_devices)
  BY DEF InstallInv, EntriesOK
<1> HIDE DEF l
<1>4. filtered \in Seq(Entries) /\ OnceNamed(filtered) /\ Names(filtered) = Names(l)
  <2> HIDE DEF matches
  <2> DEFINE b == [i \in DOMAIN l |-> matches(l[i])]
  <2>1. \A i \in DOMAIN l : b[i] \in BOOLEAN
    BY DEF matches
  <2>2. filtered = Reshow(l, b)
    BY DEF l, Reshow
  <2> HIDE DEF b, filtered
  <2> QED
    BY <1>3, <2>1, <2>2, Reshown
<1>5. all \in Seq(Entries) /\ OnceNamed(all) /\ Names(all) = Names(l)
  <2> DEFINE b == [i \in DOMAIN l |-> TRUE]
  <2>1. \A i \in DOMAIN l : b[i] \in BOOLEAN
    OBVIOUS
  <2>2. all = Reshow(l, b)
    BY DEF l, Reshow
  <2> HIDE DEF b, all
  <2> QED
    BY <1>3, <2>1, <2>2, Reshown
<1> HIDE DEF filtered, all, address, hosts
<1>6. Left(all, old) /\ Left(dialog.new_devices, new)
  BY <1>3, <1>5, KeptLeft
<1> HIDE DEF old, new
<1>7. /\ DOMAIN searched = DOMAIN NewDialog /\ searched.devices = old /\ searched.new_devices = new
      /\ searched.dests = dialog.dests /\ searched.known = dialog.known /\ searched.early = dialog.early
      /\ searched.shown = dialog.shown /\ searched.open = dialog.open /\ searched.response = dialog.response
  BY <1>1, DialogFields
<1>8. /\ DOMAIN other = DOMAIN NewDialog /\ other.devices = filtered /\ other.new_devices = dialog.new_devices
      /\ other.dests = dialog.dests /\ other.known = dialog.known /\ other.early = dialog.early
      /\ other.shown = dialog.shown /\ other.open = dialog.open /\ other.response = dialog.response
  BY <1>1, DialogFields
<1> HIDE DEF searched, other
<1>9. EntriesOK(searched) /\ Continues(dialog, searched)
  BY <1>3, <1>5, <1>6, <1>7 DEF EntriesOK, Left, Continues, l
<1>10. EntriesOK(other) /\ Continues(dialog, other)
  BY <1>3, <1>4, <1>8 DEF EntriesOK, Continues, l
<1>11. EntriesOK(dialog') /\ RowsListed(dialog') /\ Continues(dialog, dialog')
  BY <1>2, <1>9, <1>10, RowsAnew DEF Continues
<1>12. PendingOK'
  <2>1. PendingOK
    BY DEF InstallInv
  <2>2. /\ DOMAIN pending' = DOMAIN NoCalls /\ pending'.groups = pending.groups /\ pending'.backend = pending.backend
        /\ pending'.dests = pending.dests
    BY <1>1, <2>1 DEF NoCalls, PendingOK
  <2> QED
    BY <1>11, <2>1, <2>2 DEF PendingOK, Continues
<1> QED
  BY <1>1, <1>11, <1>12, SearchInstall

LEMMA HostInstall ==
  ASSUME NewPrinterInv, InstallInv, NEW call \in pending.hosts, NEW found \in SUBSET Devices, NEW ok \in BOOLEAN,
         HostAnswer(call, found, ok)
  PROVE  InstallInv'
<1> DEFINE flag == IF call[1] = "remote" THEN "remote_searching" ELSE "snmp_searching"
           c == [dialog EXCEPT ![flag] = FALSE]
           d == UpdateSpinnerState(c)
           e == AddDevicesToList(d, found, "devices")
<1>1. dialog.shown /\ DOMAIN dialog = DOMAIN NewDialog /\ SearchFrame
      /\ pending' = [pending EXCEPT !.hosts = @ \ {call}]
  BY DEF NewPrinterInv, Waits, HostAnswer, DialogIsRecord
<1>2. dialog' = IF ok THEN ActualizeDevicesList(e) ELSE d
  BY DEF HostAnswer
<1>3. flag \in {"remote_searching", "snmp_searching"}
  OBVIOUS
<1> HIDE DEF flag
<1>4. /\ DOMAIN c = DOMAIN NewDialog /\ c.devices = dialog.devices /\ c.new_devices = dialog.new_devices
      /\ c.dests = dialog.dests /\ c.known = dialog.known /\ c.early = dialog.early
      /\ c.rows = dialog.rows /\ c.selected = dialog.selected
      /\ c.shown = dialog.shown /\ c.open = dialog.open /\ c.response = dialog.response
  BY <1>1, <1>3, DialogFields
<1> HIDE DEF c
<1>5. /\ DOMAIN d = DOMAIN NewDialog /\ d.devices = dialog.devices /\ d.new_devices = dialog.new_devices
      /\ d.dests = dialog.dests /\ d.known = dialog.known /\ d.early = dialog.early
      /\ d.rows = dialog.rows /\ d.selected = dialog.selected
      /\ d.shown = dialog.shown /\ d.open = dialog.open /\ d.response = dialog.response
  BY <1>4, DialogFields DEF UpdateSpinnerState
<1> HIDE DEF d
<1>6. EntriesOK(d) /\ RowsListed(d) /\ Continues(dialog, d)
  BY <1>5, EntriesSame DEF InstallInv, RowsListed, Continues
<1>7. Added(d, e, "devices") /\ \A f \in DOMAIN NewDialog \ {"devices", "new_devices", "early"} : e[f] = d[f]
  BY <1>5, <1>6, AddAll
<1> HIDE DEF e
<1>8. EntriesOK(e) /\ Continues(dialog, e)
  <2>1. e.shown = d.shown /\ e.open = d.open /\ e.response = d.response
    BY <1>7, DialogFields
  <2> QED
    BY <1>6, <1>7, <2>1 DEF Added, Continues
<1>9. EntriesOK(dialog') /\ RowsListed(dialog') /\ Continues(dialog, dialog')
  BY <1>2, <1>6, <1>8, RowsAnew DEF Continues
<1>10. PendingOK'
  <2>1. PendingOK
    BY DEF InstallInv
  <2>2. /\ DOMAIN pending' = DOMAIN NoCalls /\ pending'.groups = pending.groups /\ pending'.backend = pending.backend
        /\ pending'.dests = pending.dests
    BY <1>1, <2>1 DEF NoCalls, PendingOK
  <2> QED
    BY <1>9, <2>1, <2>2 DEF PendingOK, Continues
<1> QED
  BY <1>1, <1>9, <1>10, SearchInstall

LEMMA SelectInstall ==
  ASSUME NewPrinterInv, InstallInv, NEW i \in DOMAIN dialog.rows, SelectDevice(i)
  PROVE  InstallInv'
<1>1. dialog.shown /\ DOMAIN dialog = DOMAIN NewDialog /\ SearchFrame /\ pending' = pending
      /\ dialog' = [dialog EXCEPT !.selected = i]
  BY DEF NewPrinterInv, SelectDevice, UserLooks, DialogIsRecord
<1>2. /\ DOMAIN dialog' = DOMAIN NewDialog /\ dialog'.devices = dialog.devices /\ dialog'.new_devices = dialog.new_devices
      /\ dialog'.dests = dialog.dests /\ dialog'.known = dialog.known /\ dialog'.early = dialog.early
      /\ dialog'.rows = dialog.rows /\ dialog'.selected = i
      /\ dialog'.shown = dialog.shown /\ dialog'.open = dialog.open /\ dialog'.response = dialog.response
  BY <1>1, DialogFields
<1>3. EntriesOK(dialog') /\ Continues(dialog, dialog')
  BY <1>2, EntriesSame DEF InstallInv, Continues
<1>4. RowsListed(dialog')
  BY <1>2 DEF InstallInv, RowsListed
<1>5. PendingOK'
  BY <1>1, <1>2 DEF InstallInv, PendingOK
<1> QED
  BY <1>1, <1>3, <1>4, <1>5, SearchInstall

\* A dialog that is hidden or closed has no lists, and keeps of the names given early that of the addition.
LEMMA HiddenIs ==
  ASSUME NEW d, NEW name, d = Hidden(name) \/ \E response : d = [Hidden(name) EXCEPT !.open = FALSE, !.response = response]
  PROVE  /\ EntriesOK(d) /\ RowsListed(d) /\ ~d.known /\ ~d.shown
         /\ d.early = dialog.early \cap {name}
<1>1. \A h : h = Hidden(name) => /\ DOMAIN h = DOMAIN NewDialog /\ h.devices = <<>> /\ h.new_devices = <<>>
             /\ h.dests = {} /\ ~h.known /\ ~h.shown /\ h.rows = <<>> /\ h.selected = 0 /\ h.early = dialog.early \cap {name}
  BY DEF Hidden, NewDialog
<1>2. /\ d.devices = <<>> /\ d.new_devices = <<>>
      /\ d.dests = {} /\ ~d.known /\ ~d.shown /\ d.rows = <<>> /\ d.selected = 0 /\ d.early = dialog.early \cap {name}
  BY <1>1, DialogFields
<1>3. EntriesOK(d)
  BY <1>2, EmptyIs, FS_EmptySet DEF EntriesOK
<1>4. RowsListed(d)
  <2>1. d.selected \in 0..Len(d.rows)
    BY <1>2, EmptyIs, Zenon
  <2>2. d.rows \in Seq(Entries) /\ DOMAIN d.rows = {}
    BY <1>2, EmptyIs, Zenon
  <2> QED
    BY <2>1, <2>2, Zenon DEF RowsListed
<1> QED
  BY <1>2, <1>3, <1>4

\* Nothing is waited for any more.
LEMMA CancelledIs ==
  ASSUME InstallInv, pending' = Cancelled, ~dialog'.shown, UNCHANGED <<queues, others>>
  PROVE  PendingOK' /\ QueuesOK'
<1>1. /\ DOMAIN pending' = DOMAIN NoCalls /\ pending'.backend = 0 /\ pending'.groups = <<>> /\ ~pending'.dests
  BY DEF Cancelled, NoCalls
<1>2. PendingOK'
  BY <1>1, BoundsAssumption DEF PendingOK, ToAsk
<1>3. QueuesOK'
  BY DEF InstallInv, QueuesOK
<1> QED
  BY <1>2, <1>3

\* The dialog answers, or goes with the panel.
LEMMA ClosesInstall ==
  ASSUME InstallInv, NEW response, Closes(response), UNCHANGED <<queues, others>>,
         \A f \in DOMAIN NoAdd \ {"pc", "cancelled"} : add'[f] = add[f],
         add'.pc = add.pc \/ (add.pc = "complete" /\ add'.pc = "done"),
         response = "ok" => add.success /\ add'.pc = "done"
  PROVE  InstallInv'
<1> USE DEF InstallInv
<1>1. dialog' = [Hidden(add.name) EXCEPT !.open = FALSE, !.response = response] /\ pending' = Cancelled
  BY DEF Closes, Finalized
<1>2. EntriesOK(dialog') /\ RowsListed(dialog') /\ ~dialog'.shown /\ dialog'.early = dialog.early \cap {add.name}
  BY <1>1, HiddenIs
<1>3. dialog'.response = response /\ ~dialog'.open
  BY <1>1 DEF Hidden, NewDialog
<1>4. PendingOK' /\ QueuesOK'
  BY <1>1, <1>2, CancelledIs
<1>5. /\ add'.name = add.name /\ add'.uri = add.uri /\ add'.chosen = add.chosen /\ add'.overwrites = add.overwrites
      /\ add'.success = add.success /\ add'.refused = add.refused /\ add'.finished = add.finished
      /\ add'.step = add.step /\ add'.files = add.files
  BY DEF NoAdd
<1>6. Disturbed(add.name)' <=> Disturbed(add.name)
  <2>1. Disturbed(add.name)' <=> add'.name \in ToSet(others) \cup dialog'.early
    BY DEF Disturbed
  <2> QED
    BY <1>2, <1>5, <2>1 DEF Disturbed
<1>7. ChosenOK'
  <2>1. /\ add.pc = "none" <=> add'.pc = "none"
        /\ add'.pc \in Before => add.pc \in Before
    BY DEF Before
  <2>2. UNCHANGED <<queues, add.name>>
    BY <1>5
  <2> HIDE DEF InstallInv
  <2>3. ChosenOK
    BY DEF InstallInv
  <2> QED
    BY <1>5, <1>6, <2>1, <2>2, <2>3 DEF ChosenOK
<1>8. InstalledOK'
  <2>1. add'.pc = "configure" => add.pc = "configure"
    OBVIOUS
  <2>2. add.success => add'.pc \in {"complete", "done"}
    BY DEF InstalledOK
  <2>3. Excused(add') = Excused(add)
    BY <1>5 DEF Excused
  <2>4. Granted(add, queues) => Granted(add', queues')
    BY <1>5 DEF Granted
  <2>5. InstalledOK
    OBVIOUS
  <2> QED
    BY <1>3, <1>5, <1>6, <2>1, <2>2, <2>3, <2>4, <2>5 DEF InstalledOK
<1> QED
  BY <1>2, <1>4, <1>7, <1>8

\* Add: the device with the name of the selected row is the device of that row.
LEMMA OkInstall ==
  ASSUME NewPrinterInv, InstallInv, ResponseOk
  PROVE  InstallInv'
<1> DEFINE row == dialog.rows[dialog.selected]
           named == {i \in DOMAIN dialog.devices : dialog.devices[i].name = row.name}
           k == CHOOSE i \in named : \A j \in named : i <= j
           device == dialog.devices[k]
           step == IF Info[device.uri].method = "remote" THEN "remote_ppd" ELSE "drivers"
<1>1. dialog.shown /\ dialog.selected # 0 /\ dialog' = Hidden(device.name) /\ pending' = Cancelled
      /\ UNCHANGED <<queues, others>>
  BY DEF ResponseOk, UserLooks
<1>2. add' = IF named = {} THEN add
             ELSE [NoAdd EXCEPT !.pc = step, !.uri = device.uri, !.chosen = row.uri, !.name = device.name]
  BY DEF ResponseOk
<1>3. EntriesOK(dialog) /\ RowsListed(dialog)
  BY DEF InstallInv
<1>4. PICK j \in DOMAIN dialog.devices : row = dialog.devices[j]
  <2>1. dialog.selected \in DOMAIN dialog.rows
    BY <1>1, <1>3 DEF RowsListed
  <2> QED
    BY <1>3, <2>1 DEF RowsListed
<1> HIDE DEF row
<1>5. k \in named
  <2>1. named \subseteq Nat /\ named # {}
    BY <1>3, <1>4 DEF EntriesOK
  <2>2. k = Least(named)
    BY DEF Least
  <2> HIDE DEF named, k
  <2> QED
    BY <2>1, <2>2, LeastIs
<1> HIDE DEF k
<1>6. k = j /\ named # {}
  BY <1>3, <1>4, <1>5 DEF EntriesOK, OnceNamed
<1>7. device = row
  BY <1>4, <1>6
<1> HIDE DEF device, named
<1>8. step \in Before \ {"install", "drivers_again", "add"}
  BY DEF Before
<1> HIDE DEF step
<1>9. /\ add'.pc = step /\ add'.uri = row.uri /\ add'.chosen = row.uri /\ add'.name = row.name /\ ~add'.overwrites
      /\ add'.refused = {} /\ add'.finished = {} /\ add'.step = "none" /\ add'.files = 0 /\ ~add'.success
  BY <1>2, <1>6, <1>7 DEF NoAdd
<1>10. EntriesOK(dialog') /\ RowsListed(dialog') /\ ~dialog'.shown /\ dialog'.early = dialog.early \cap {row.name}
  BY <1>1, <1>7, HiddenIs
<1>11. PendingOK' /\ QueuesOK'
  BY <1>1, <1>10, CancelledIs
<1>12. row.name \in DOMAIN queues => row.name \in ToSet(others) \cup dialog'.early
  <2>1. row.name \in Names(dialog.devices)
    BY <1>4 DEF Names
  <2>2. row.name \in dialog.early \/ (dialog.known /\ row.name \notin dialog.dests)
    BY <1>3, <2>1 DEF EntriesOK
  <2> QED
    BY <1>1, <1>10, <2>2 DEF InstallInv, QueuesOK
<1>13. ChosenOK'
  <2>1. Disturbed(add.name)' <=> row.name \in ToSet(others) \cup dialog'.early
    BY <1>1, <1>9 DEF Disturbed
  <2> QED
    BY <1>1, <1>8, <1>9, <1>12, <2>1 DEF ChosenOK, Before
<1>14. InstalledOK'
  <2>1. dialog'.response = "none"
    BY <1>1 DEF Hidden, NewDialog
  <2> QED
    BY <1>8, <1>9, <2>1 DEF InstalledOK, Before
<1> QED
  BY <1>10, <1>11, <1>13, <1>14 DEF InstallInv

LEMMA CancelInstall ==
  ASSUME NewPrinterInv, InstallInv, ResponseCancel \/ PanelDisposed
  PROVE  InstallInv'
<1>1. CASE ResponseCancel
  <2>1. Closes("cancel") /\ UNCHANGED <<add, queues, others>>
    BY <1>1 DEF ResponseCancel, SearchFrame
  <2> QED
    BY <2>1, ClosesInstall
<1>2. CASE PanelDisposed
  <2>1. Closes("none") /\ UNCHANGED <<queues, others>> /\ add' = [add EXCEPT !.cancelled = TRUE]
    BY <1>2 DEF PanelDisposed
  <2>2. DOMAIN add = DOMAIN NoAdd
    BY DEF NewPrinterInv, PartsOK
  <2>3. /\ \A f \in DOMAIN NoAdd \ {"pc", "cancelled"} : add'[f] = add[f]
        /\ add'.pc = add.pc
    BY <2>1, <2>2 DEF NoAdd
  <2> QED
    BY <2>1, <2>3, ClosesInstall
<1> QED
  BY <1>1, <1>2

\* What a step of the addition keeps.
LEMMA AddKeeps ==
  ASSUME InstallInv, UNCHANGED <<dialog, pending, others>>, QueuesOK', ChosenOK', InstalledOK'
  PROVE  InstallInv'
<1>1. EntriesOK(dialog') /\ RowsListed(dialog')
  BY DEF InstallInv
<1>2. PendingOK'
  BY DEF InstallInv, PendingOK
<1> QED
  BY <1>1, <1>2 DEF InstallInv

\* A step of the chain that nothing but its place knows of.
LEMMA GotoInstall ==
  ASSUME NewPrinterInv, InstallInv, UNCHANGED <<dialog, pending, others, queues>>, NEW pc, Goto(pc),
         add.pc \notin {"none", "configure", "done"},
         pc \notin {"none", "configure"}, add.pc = "complete" => pc = "done",
         pc \in Before => add.pc \in Before
  PROVE  InstallInv'
<1>1. DOMAIN add = DOMAIN NoAdd
  BY DEF NewPrinterInv, PartsOK
<1>2. /\ add'.name = add.name /\ add'.uri = add.uri /\ add'.chosen = add.chosen /\ add'.overwrites = add.overwrites
      /\ add'.success = add.success /\ add'.refused = add.refused /\ add'.finished = add.finished
      /\ add'.step = add.step /\ add'.files = add.files /\ add'.pc = pc
  BY <1>1 DEF NoAdd, Goto
<1>3. Disturbed(add.name)' <=> Disturbed(add.name)
  BY <1>2 DEF Disturbed
<1>4. ChosenOK'
  BY <1>2, <1>3 DEF InstallInv, ChosenOK
<1>5. InstalledOK'
  <2>1. Excused(add') = Excused(add)
    BY <1>2 DEF Excused
  <2>2. Granted(add, queues) => Granted(add', queues')
    BY <1>2 DEF Granted
  <2>3. InstalledOK
    BY DEF InstallInv
  <2>4. add.success => pc \in {"complete", "done"}
    BY <2>3 DEF InstalledOK
  <2>5. dialog.response # "ok"
    BY <2>3 DEF InstalledOK
  <2> QED
    BY <1>2, <1>3, <2>1, <2>2, <2>3, <2>4, <2>5 DEF InstalledOK
<1>6. QueuesOK'
  BY DEF InstallInv, QueuesOK
<1> QED
  BY <1>4, <1>5, <1>6, AddKeeps

\* The chain: of the names only that of the addition comes to the server, with its device.
LEMMA PrinterAddInstall ==
  ASSUME NewPrinterInv, InstallInv, NEW ok \in BOOLEAN, PrinterAddAnswer(ok)
  PROVE  InstallInv'
<1> DEFINE overwrites == ok /\ add.name \in DOMAIN queues
           q == [uri |-> add.uri, accepting |-> FALSE, enabled |-> FALSE]
<1>1. add.pc = "add" /\ add' = [add EXCEPT !.pc = "verify", !.overwrites = overwrites]
      /\ queues' = (IF ok THEN With(queues, add.name, q) ELSE queues) /\ UNCHANGED <<dialog, pending, others>>
  BY DEF PrinterAddAnswer, At
<1>2. DOMAIN add = DOMAIN NoAdd /\ ~dialog.shown
  BY <1>1 DEF NewPrinterInv, PartsOK, AdditionOK
<1> HIDE DEF overwrites
<1>3. /\ add'.name = add.name /\ add'.uri = add.uri /\ add'.chosen = add.chosen /\ add'.overwrites = overwrites
      /\ add'.success = add.success /\ add'.refused = add.refused /\ add'.finished = add.finished
      /\ add'.step = add.step /\ add'.files = add.files /\ add'.pc = "verify"
  BY <1>1, <1>2 DEF NoAdd
<1>4. Disturbed(add.name)' <=> Disturbed(add.name)
  BY <1>1, <1>3 DEF Disturbed
<1>5. ChosenOK /\ QueuesOK /\ InstalledOK
  BY DEF InstallInv
<1>6. add.name \in DOMAIN queues => Disturbed(add.name)
  BY <1>1, <1>5 DEF ChosenOK, Before
<1>7. /\ ok => DOMAIN queues' = DOMAIN queues \cup {add.name} /\ queues'[add.name] = q
      /\ \A n \in DOMAIN queues : n # add.name => queues'[n] = queues[n]
      /\ ~ok => queues' = queues
  BY <1>1 DEF With
<1>8. DOMAIN q = {"uri", "accepting", "enabled"} /\ q.uri = add.uri
  OBVIOUS
<1> HIDE DEF q
<1>9. ChosenOK'
  <2>1. overwrites => Disturbed(add.name)
    BY <1>6 DEF overwrites
  <2>2. add.name \in DOMAIN queues' /\ ~Disturbed(add.name) => queues'[add.name].uri = add.uri
    BY <1>6, <1>7, <1>8
  <2> QED
    BY <1>3, <1>4, <1>5, <2>1, <2>2 DEF ChosenOK, Before
<1>10. QueuesOK'
  <2>1. IsFiniteSet(DOMAIN queues \cup {add.name})
    BY <1>5, FS_AddElement DEF QueuesOK
  <2>2. \A n \in DOMAIN queues' : DOMAIN queues'[n] = {"uri", "accepting", "enabled"}
    BY <1>5, <1>7, <1>8 DEF QueuesOK
  <2>3. IsFiniteSet(DOMAIN queues')
    BY <1>5, <1>7, <2>1 DEF QueuesOK
  <2>4. others' \in Seq(Contested) /\ ~dialog'.shown
    BY <1>1, <1>2, <1>5 DEF QueuesOK
  <2> QED
    BY <2>2, <2>3, <2>4 DEF QueuesOK
<1>11. InstalledOK'
  <2>1. ~add.success /\ dialog.response # "ok"
    BY <1>1, <1>5 DEF InstalledOK
  <2>2. dialog' = dialog
    BY <1>1
  <2> QED
    BY <1>3, <1>5, <2>1, <2>2 DEF InstalledOK
<1> QED
  BY <1>1, <1>9, <1>10, <1>11, AddKeeps

LEMMA VerifyInstall ==
  ASSUME NewPrinterInv, InstallInv, GetNamedDestAnswer
  PROVE  InstallInv'
<1>1. add.pc = "verify" /\ UNCHANGED <<dialog, pending, others, queues>>
  BY DEF GetNamedDestAnswer, At, AddFrame
<1>2. DOMAIN add = DOMAIN NoAdd /\ add.finished = {}
  BY <1>1 DEF NewPrinterInv, PartsOK
<1>3. CASE add.name \in DOMAIN queues
  <2>1. add' = Configured(add)
    BY <1>3 DEF GetNamedDestAnswer
  <2>2. /\ add'.name = add.name /\ add'.uri = add.uri /\ add'.chosen = add.chosen /\ add'.overwrites = add.overwrites
        /\ add'.success = add.success /\ add'.refused = add.refused /\ add'.finished = {}
        /\ add'.step = "ppd" /\ add'.files = add.files /\ add'.pc = "configure"
    BY <1>2, <2>1 DEF NoAdd, Configured
  <2>3. Disturbed(add.name)' <=> Disturbed(add.name)
    BY <1>1, <2>2 DEF Disturbed
  <2>4. ChosenOK /\ QueuesOK /\ InstalledOK
    BY DEF InstallInv
  <2>5. ChosenOK'
    BY <1>1, <2>2, <2>3, <2>4 DEF ChosenOK, Before
  <2>6. InstalledOK'
    <3>1. ~add.success /\ dialog.response # "ok"
      BY <1>1, <2>4 DEF InstalledOK
    <3>2. Granted(add', queues')
      BY <1>1, <1>3, <2>2 DEF Granted
    <3>3. add.refused = {} /\ add.files \in Nat
      BY <1>2, <2>4 DEF InstalledOK
    <3> QED
      BY <1>1, <2>2, <3>1, <3>2, <3>3 DEF InstalledOK
  <2>7. QueuesOK'
    BY <1>1, <2>4 DEF QueuesOK
  <2> QED
    BY <1>1, <2>5, <2>6, <2>7, AddKeeps
<1>4. CASE add.name \notin DOMAIN queues
  <2>1. Goto("complete")
    BY <1>4 DEF GetNamedDestAnswer, Fails, Goto
  <2> QED
    BY <1>1, <2>1, GotoInstall DEF Before
<1> QED
  BY <1>3, <1>4

LEMMA ChainInstall ==
  ASSUME NewPrinterInv, InstallInv, NEW ok \in BOOLEAN,
         \/ GetBestDriversAnswer(ok) \/ InstallPrinterDriversAnswer \/ GetBestDriversAgain(ok)
         \/ RemotePpdAnswer(ok) \/ PrinterAddAnswer(ok) \/ GetNamedDestAnswer
  PROVE  InstallInv'
<1>1. CASE PrinterAddAnswer(ok) \/ GetNamedDestAnswer
  BY <1>1, PrinterAddInstall, VerifyInstall
<1>2. CASE GetBestDriversAnswer(ok) \/ InstallPrinterDriversAnswer \/ GetBestDriversAgain(ok) \/ RemotePpdAnswer(ok)
  <2>1. add.pc \in Before /\ UNCHANGED <<dialog, pending, others, queues>>
    BY <1>2 DEF GetBestDriversAnswer, InstallPrinterDriversAnswer, GetBestDriversAgain, RemotePpdAnswer, At, AddFrame, Before
  <2>2. \E pc \in {"abandoned", "add", "install", "drivers_again", "complete"} : Goto(pc)
    BY <1>2 DEF GetBestDriversAnswer, InstallPrinterDriversAnswer, GetBestDriversAgain, RemotePpdAnswer, Fails, Goto
  <2> QED
    BY <2>1, <2>2, GotoInstall DEF Before
<1> QED
  BY <1>1, <1>2

\* The configuration: what a part was granted is true of the printer, unless that was disturbed.
LEMMA PartDoneInstall ==
  ASSUME NewPrinterInv, InstallInv, NEW part \in add.calls, NEW ok \in BOOLEAN, PartDone(part, ok),
         UNCHANGED <<dialog, pending, others>>, QueuesOK',
         DOMAIN queues' = DOMAIN queues,
         add.name \in DOMAIN queues => queues'[add.name].uri = queues[add.name].uri,
         add.name \in DOMAIN queues /\ queues[add.name].accepting => queues'[add.name].accepting,
         add.name \in DOMAIN queues /\ queues[add.name].enabled => queues'[add.name].enabled,
         ok /\ add.name \in DOMAIN queues /\ part = "accept" => queues'[add.name].accepting,
         ok /\ add.name \in DOMAIN queues /\ part = "enable" => queues'[add.name].enabled
  PROVE  InstallInv'
<1> DEFINE refused == IF ok THEN add.refused ELSE add.refused \cup {part}
           a == [add EXCEPT !.calls = @ \ {part}, !.finished = @ \cup {part}, !.refused = refused]
<1>1. add.pc = "configure" /\ DOMAIN add = DOMAIN NoAdd
  BY DEF NewPrinterInv, PartsOK
<1>2. ChosenOK /\ InstalledOK
  BY DEF InstallInv
<1>3. add' = ConfigureFinish(a)
  BY DEF PartDone
<1>4. /\ a.name = add.name /\ a.uri = add.uri /\ a.chosen = add.chosen /\ a.overwrites = add.overwrites
      /\ a.success = add.success /\ a.refused = refused /\ a.finished = add.finished \cup {part}
      /\ a.step = add.step /\ a.files = add.files /\ a.pc = "configure" /\ DOMAIN a = DOMAIN NoAdd
  BY <1>1 DEF NoAdd
<1> HIDE DEF a
<1>5. add.refused \subseteq add.finished /\ ~add.success /\ dialog.response # "ok"
  BY <1>1, <1>2 DEF InstalledOK
<1>6. refused \subseteq a.finished
  BY <1>4, <1>5
<1>7. /\ add'.name = add.name /\ add'.uri = add.uri /\ add'.chosen = add.chosen /\ add'.overwrites = add.overwrites
      /\ add'.refused = refused /\ add'.finished = a.finished /\ add'.step = add.step /\ add'.files = add.files
      /\ add'.pc \in {"configure", "complete"}
      /\ add'.success => add'.pc = "complete" /\ Parts \ Excused(add) \subseteq a.finished
  <2>1. CASE Parts \subseteq a.finished \cup (IF Info[a.uri].network THEN {"autoconfigure"} ELSE {})
    <3>1. add' = [a EXCEPT !.pc = "complete", !.success = TRUE, !.data = "freed"]
      BY <1>3, <2>1 DEF ConfigureFinish
    <3>2. Parts \ Excused(add) \subseteq a.finished
      BY <1>4, <2>1 DEF Excused
    <3> HIDE DEF refused
    <3> QED
      BY <1>4, <3>1, <3>2 DEF NoAdd
  <2>2. CASE ~(Parts \subseteq a.finished \cup (IF Info[a.uri].network THEN {"autoconfigure"} ELSE {}))
    <3>1. add' = a
      BY <1>3, <2>2 DEF ConfigureFinish
    <3> QED
      BY <1>4, <1>5, <3>1
  <2> QED
    BY <2>1, <2>2
<1>8. Disturbed(add.name)' <=> Disturbed(add.name)
  BY <1>7 DEF Disturbed
<1>9. ChosenOK'
  BY <1>1, <1>2, <1>7, <1>8 DEF ChosenOK, Before
<1>10. ASSUME ~Disturbed(add.name) PROVE Granted(add', queues')
  <2>1. Granted(add, queues)
    BY <1>1, <1>2, <1>10 DEF InstalledOK
  <2>2. add.name \in DOMAIN queues
    BY <2>1 DEF Granted
  <2>3. "accept" \in a.finished \ refused => queues'[add.name].accepting
    <3>1. CASE part = "accept"
      BY <1>4, <2>2, <3>1
    <3>2. CASE part # "accept"
      BY <1>4, <2>1, <2>2, <3>2 DEF Granted
    <3> QED
      BY <3>1, <3>2
  <2>4. "enable" \in a.finished \ refused => queues'[add.name].enabled
    <3>1. CASE part = "enable"
      BY <1>4, <2>2, <3>1
    <3>2. CASE part # "enable"
      BY <1>4, <2>1, <2>2, <3>2 DEF Granted
    <3> QED
      BY <3>1, <3>2
  <2> QED
    BY <1>7, <2>2, <2>3, <2>4 DEF Granted
<1>11. InstalledOK'
  <2>1. Excused(add') = Excused(add)
    BY <1>7 DEF Excused
  <2>2. add.step \in {"none", "ppd", "missing", "files", "packages"} /\ add.files \in Nat
    BY <1>2 DEF InstalledOK
  <2>3. dialog'.response # "ok"
    BY <1>5
  <2> QED
    BY <1>6, <1>7, <1>8, <1>10, <2>1, <2>2, <2>3 DEF InstalledOK
<1> QED
  BY <1>9, <1>11, AddKeeps

LEMMA SetInstall ==
  ASSUME NewPrinterInv, InstallInv, NEW part \in add.calls, NEW ok \in BOOLEAN, SetAnswer(part, ok)
  PROVE  InstallInv'
<1> DEFINE field == IF part = "accept" THEN "accepting" ELSE "enabled"
           done == ok /\ add.name \in DOMAIN queues
<1>1. /\ part \in {"accept", "enable"} /\ PartDone(part, ok) /\ UNCHANGED <<dialog, pending, others>>
      /\ queues' = IF done THEN [queues EXCEPT ![add.name][field] = TRUE] ELSE queues
  BY DEF SetAnswer
<1>2. QueuesOK
  BY DEF InstallInv
<1>3. field \in {"accepting", "enabled"} /\ (part = "accept" => field = "accepting") /\ (part = "enable" => field = "enabled")
  OBVIOUS
<1> HIDE DEF field
<1>4. DOMAIN queues' = DOMAIN queues
  BY <1>1
<1>5. ASSUME NEW n \in DOMAIN queues
      PROVE  /\ DOMAIN queues'[n] = {"uri", "accepting", "enabled"}
             /\ queues'[n].uri = queues[n].uri
             /\ queues[n].accepting => queues'[n].accepting
             /\ queues[n].enabled => queues'[n].enabled
             /\ done /\ n = add.name => queues'[n][field]
  <2>1. DOMAIN queues[n] = {"uri", "accepting", "enabled"}
    BY <1>2 DEF QueuesOK
  <2>2. CASE queues' = queues /\ ~(done /\ n = add.name)
    BY <2>1, <2>2
  <2>3. CASE done /\ n = add.name
    <3>1. queues'[n] = [queues[n] EXCEPT ![field] = TRUE]
      BY <1>1, <2>3
    <3> QED
      BY <1>3, <2>1, <3>1
  <2>4. CASE done /\ n # add.name
    <3>1. queues'[n] = queues[n]
      BY <1>1, <2>4
    <3> QED
      BY <2>1, <2>4, <3>1
  <2> QED
    BY <1>1, <2>2, <2>3, <2>4
<1>6. QueuesOK'
  BY <1>1, <1>2, <1>4, <1>5 DEF QueuesOK
<1>7. /\ ok /\ add.name \in DOMAIN queues /\ part = "accept" => queues'[add.name].accepting
      /\ ok /\ add.name \in DOMAIN queues /\ part = "enable" => queues'[add.name].enabled
  BY <1>3, <1>5
<1> HIDE DEF done
<1> QED
  BY <1>1, <1>4, <1>5, <1>6, <1>7, PartDoneInstall

LEMMA ConfigureInstall ==
  ASSUME NewPrinterInv, InstallInv, NEW ok \in BOOLEAN,
         \/ \E part \in add.calls : SetAnswer(part, ok) \/ PartAnswer(part)
         \/ ExecutablesStep(ok)
  PROVE  InstallInv'
<1>1. ASSUME NEW part \in add.calls, SetAnswer(part, ok) PROVE InstallInv'
  BY <1>1, SetInstall
<1>2. ASSUME NEW part \in add.calls, part \notin {"accept", "enable"}, PartDone(part, TRUE),
             UNCHANGED <<dialog, pending, others, queues>>
      PROVE  InstallInv'
  <2>1. QueuesOK'
    BY <1>2 DEF InstallInv, QueuesOK
  <2> QED
    BY <1>2, <2>1, PartDoneInstall
<1>3. ASSUME NEW part \in add.calls, PartAnswer(part) PROVE InstallInv'
  BY <1>2, <1>3 DEF PartAnswer, AddFrame
<1>4. CASE ExecutablesStep(ok)
  <2>1. "executables" \in add.calls /\ UNCHANGED <<dialog, pending, others, queues>>
    BY <1>4 DEF ExecutablesStep, AddFrame
  <2>2. CASE PartDone("executables", TRUE)
    BY <1>2, <2>1, <2>2
  <2>3. ASSUME ~PartDone("executables", TRUE) PROVE InstallInv'
    <3> DEFINE searched == add.step = "files" /\ add.files = 0
               step == CASE add.step = "ppd" -> "missing"
                         [] add.step = "missing" -> "files"
                         [] searched -> "packages"
                         [] OTHER -> "files"
               files == IF add.step = "missing" THEN 1
                        ELSE IF add.step = "files" /\ add.files > 0 THEN add.files - 1
                        ELSE add.files
               packages == add.packages \/ (add.step = "files" /\ ok)
    <3>1. add' = [add EXCEPT !.step = step, !.files = files, !.packages = packages]
      BY <1>4, <2>3, Zenon DEF ExecutablesStep
    <3>2. step \in {"missing", "files", "packages"}
      BY Zenon
    <3>3. files \in Nat
      BY DEF InstallInv, InstalledOK
    <3> HIDE DEF step, files, packages
    <3>4. DOMAIN add = DOMAIN NoAdd
      BY DEF NewPrinterInv, PartsOK
    <3>5. /\ add'.name = add.name /\ add'.uri = add.uri /\ add'.chosen = add.chosen /\ add'.overwrites = add.overwrites
          /\ add'.success = add.success /\ add'.refused = add.refused /\ add'.finished = add.finished
          /\ add'.step = step /\ add'.files = files /\ add'.pc = add.pc
      BY <3>1, <3>4 DEF NoAdd
    <3>6. Disturbed(add.name)' <=> Disturbed(add.name)
      BY <2>1, <3>5 DEF Disturbed
    <3>7. ChosenOK'
      BY <2>1, <3>5, <3>6 DEF InstallInv, ChosenOK
    <3>8. InstalledOK'
      <4>1. Excused(add') = Excused(add)
        BY <3>5 DEF Excused
      <4>2. Granted(add, queues) => Granted(add', queues')
        BY <2>1, <3>5 DEF Granted
      <4> QED
        BY <2>1, <3>2, <3>3, <3>5, <3>6, <4>1, <4>2 DEF InstallInv, InstalledOK
    <3>9. QueuesOK'
      BY <2>1 DEF InstallInv, QueuesOK
    <3> QED
      BY <2>1, <3>7, <3>8, <3>9, AddKeeps
  <2> QED
    BY <2>2, <2>3
<1> QED
  BY <1>1, <1>3, <1>4

\* The end of the chain.
LEMMA CompleteInstall ==
  ASSUME NewPrinterInv, InstallInv, AddComplete
  PROVE  InstallInv'
<1>1. add.pc = "complete" /\ UNCHANGED <<queues, others>>
  BY DEF AddComplete, At
<1>2. CASE add.cancelled
  BY <1>1, <1>2, GotoInstall DEF AddComplete, Before
<1>3. CASE ~add.cancelled
  <2> DEFINE response == IF add.success THEN "ok" ELSE "reject"
  <2>1. Closes(response) /\ add' = [add EXCEPT !.pc = "done", !.cancelled = TRUE]
    BY <1>3 DEF AddComplete
  <2>2. DOMAIN add = DOMAIN NoAdd
    BY DEF NewPrinterInv, PartsOK
  <2>3. /\ \A f \in DOMAIN NoAdd \ {"pc", "cancelled"} : add'[f] = add[f]
        /\ add'.pc = "done"
    BY <2>1, <2>2 DEF NoAdd
  <2>4. response = "ok" => add.success
    OBVIOUS
  <2> HIDE DEF response
  <2> QED
    BY <1>1, <2>1, <2>3, <2>4, ClosesInstall
<1> QED
  BY <1>2, <1>3

\* What other clients do disturbs the name they do it to.
LEMMA OthersInstall ==
  ASSUME NewPrinterInv, InstallInv, NEW n \in Contested, OtherAdds(n) \/ OtherDeletes(n)
  PROVE  InstallInv'
<1> DEFINE q == [uri |-> OtherPrinter, accepting |-> TRUE, enabled |-> TRUE]
<1>1. UNCHANGED <<dialog, pending, add>> /\ others' = Append(others, n)
  BY DEF OtherAdds, OtherDeletes
<1>2. ChosenOK /\ QueuesOK /\ InstalledOK
  BY DEF InstallInv
<1>3. others' \in Seq(Contested) /\ ToSet(others') = ToSet(others) \cup {n}
  <2>1. others \in Seq(Contested)
    BY <1>2 DEF QueuesOK
  <2>2. others' \in Seq(Contested)
    BY <1>1, <2>1
  <2>3. Len(others) \in Nat /\ DOMAIN others = 1..Len(others) /\ DOMAIN others' = 1..Len(others) + 1
    BY <1>1, <2>1
  <2>4. \A i \in DOMAIN others : i \in DOMAIN others' /\ others'[i] = others[i]
    BY <1>1, <2>1, <2>3
  <2>5. Len(others) + 1 \in DOMAIN others' /\ others'[Len(others) + 1] = n
    BY <1>1, <2>1, <2>3
  <2>6. \A i \in DOMAIN others' : i \in DOMAIN others \/ i = Len(others) + 1
    BY <2>3
  <2>7. ToSet(others') = ToSet(others) \cup {n}
    BY <2>4, <2>5, <2>6 DEF ToSet
  <2> QED
    BY <2>2, <2>7
<1>4. /\ \A m \in DOMAIN queues' : m = n \/ (m \in DOMAIN queues /\ queues'[m] = queues[m])
      /\ \A m \in DOMAIN queues : m = n \/ m \in DOMAIN queues'
      /\ \A m \in DOMAIN queues' : DOMAIN queues'[m] = {"uri", "accepting", "enabled"}
      /\ IsFiniteSet(DOMAIN queues')
  <2>1. CASE OtherAdds(n)
    <3>1. queues' = With(queues, n, q)
      BY <2>1 DEF OtherAdds
    <3>2. DOMAIN q = {"uri", "accepting", "enabled"}
      OBVIOUS
    <3> HIDE DEF q
    <3>3. DOMAIN queues' = DOMAIN queues \cup {n} /\ queues'[n] = q /\ \A m \in DOMAIN queues : m # n => queues'[m] = queues[m]
      BY <3>1 DEF With
    <3>4. IsFiniteSet(DOMAIN queues')
      BY <1>2, <3>3, FS_AddElement DEF QueuesOK
    <3> QED
      BY <1>2, <3>2, <3>3, <3>4 DEF QueuesOK
  <2>2. CASE OtherDeletes(n)
    <3>1. DOMAIN queues' = DOMAIN queues \ {n} /\ \A m \in DOMAIN queues' : queues'[m] = queues[m]
      BY <2>2 DEF OtherDeletes
    <3>2. IsFiniteSet(DOMAIN queues')
      BY <1>2, <3>1, FS_Subset DEF QueuesOK
    <3> QED
      BY <1>2, <3>1, <3>2 DEF QueuesOK
  <2> QED
    BY <2>1, <2>2
<1>5. Disturbed(add.name)' <=> Disturbed(add.name) \/ add.name = n
  BY <1>1, <1>3 DEF Disturbed
<1>6. ~Disturbed(add.name)' => (add.name \in DOMAIN queues' <=> add.name \in DOMAIN queues)
                              /\ (add.name \in DOMAIN queues => queues'[add.name] = queues[add.name])
  BY <1>4, <1>5
<1>7. ChosenOK'
  <2>1. add' = add
    BY <1>1
  <2> QED
    BY <1>2, <1>5, <1>6, <2>1 DEF ChosenOK
<1>8. InstalledOK'
  <2>1. ~Disturbed(add.name)' => (Granted(add, queues) => Granted(add', queues'))
    BY <1>1, <1>6 DEF Granted
  <2>2. Excused(add') = Excused(add) /\ add' = add /\ dialog' = dialog
    BY <1>1 DEF Excused
  <2> QED
    BY <1>2, <1>5, <2>1, <2>2 DEF InstalledOK
<1>9. QueuesOK'
  <2>1. dialog.shown /\ dialog.known => DOMAIN queues' \subseteq dialog.dests \cup ToSet(others')
    BY <1>2, <1>3, <1>4 DEF QueuesOK
  <2> QED
    BY <1>1, <1>3, <1>4, <2>1 DEF QueuesOK
<1>10. EntriesOK(dialog') /\ RowsListed(dialog') /\ PendingOK'
  BY <1>1 DEF InstallInv, PendingOK
<1> QED
  BY <1>7, <1>8, <1>9, <1>10 DEF InstallInv

\* Every step keeps the invariant, which the new dialog satisfies.
LEMMA InstallInvStep == NewPrinterInv /\ InstallInv /\ [NewPrinterNext]_newPrinterVars => InstallInv'
<1> SUFFICES ASSUME NewPrinterInv, InstallInv, [NewPrinterNext]_newPrinterVars PROVE InstallInv'
  OBVIOUS
<1>1. CASE SearchAnswers
  BY <1>1, DestsInstall, DevicesInstall, GroupsInstall, HostInstall DEF SearchAnswers
<1>2. CASE AddAnswers
  BY <1>2, ChainInstall, ConfigureInstall, CompleteInstall DEF AddAnswers
<1>3. CASE NewPrinterUser
  BY <1>3, AddressInstall, SelectInstall, OkInstall, CancelInstall DEF NewPrinterUser
<1>4. CASE PanelDisposed
  BY <1>4, CancelInstall
<1>5. CASE OtherClients
  BY <1>5, OthersInstall DEF OtherClients
<1>6. CASE UNCHANGED newPrinterVars
  <2>1. QueuesOK' /\ PendingOK'
    BY <1>6 DEF newPrinterVars, InstallInv, QueuesOK, PendingOK
  <2>2. ChosenOK'
    BY <1>6 DEF newPrinterVars, InstallInv, ChosenOK, Disturbed
  <2>3. InstalledOK'
    BY <1>6 DEF newPrinterVars, InstallInv, InstalledOK, Disturbed, Excused
  <2>4. EntriesOK(dialog') /\ RowsListed(dialog')
    BY <1>6 DEF newPrinterVars, InstallInv
  <2> QED
    BY <2>1, <2>2, <2>3, <2>4 DEF InstallInv
<1> QED
  BY <1>1, <1>2, <1>3, <1>4, <1>5, <1>6 DEF NewPrinterNext

LEMMA InstallInvInit == NewPrinterInit => InstallInv
<1> SUFFICES ASSUME NewPrinterInit PROVE InstallInv
  OBVIOUS
<1>1. /\ dialog.devices = <<>> /\ dialog.new_devices = <<>> /\ dialog.dests = {} /\ ~dialog.known
      /\ dialog.rows = <<>> /\ dialog.selected = 0 /\ dialog.response = "none"
  BY DEF NewPrinterInit, NewDialog
<1>2. EntriesOK(dialog)
  BY <1>1, EmptyIs, FS_EmptySet DEF EntriesOK
<1>3. RowsListed(dialog)
  <2>1. dialog.selected \in 0..Len(dialog.rows)
    BY <1>1, EmptyIs, Zenon
  <2>2. dialog.rows \in Seq(Entries) /\ DOMAIN dialog.rows = {}
    BY <1>1, EmptyIs, Zenon
  <2> QED
    BY <2>1, <2>2 DEF RowsListed
<1>4. PendingOK
  <2>1. /\ DOMAIN pending = DOMAIN NoCalls /\ pending.backend = 0 /\ pending.groups = <<>>
    BY DEF NewPrinterInit, NoCalls
  <2> QED
    BY <1>1, <2>1, BoundsAssumption DEF PendingOK, ToAsk
<1>5. QueuesOK
  <2>1. PICK names \in InitialQueues :
          queues = [n \in names |-> [uri |-> OtherPrinter, accepting |-> TRUE, enabled |-> TRUE]]
    BY DEF NewPrinterInit
  <2>2. IsFiniteSet(names)
    BY BoundsAssumption
  <2>3. others \in Seq(Contested)
    BY DEF NewPrinterInit
  <2> QED
    BY <1>1, <2>1, <2>2, <2>3 DEF QueuesOK
<1>6. ChosenOK /\ InstalledOK
  <2>1. /\ add.pc = "none" /\ add.uri = add.chosen /\ ~add.overwrites /\ add.refused = {} /\ add.finished = {}
        /\ add.step = "none" /\ add.files = 0 /\ ~add.success
    BY DEF NewPrinterInit, NoAdd
  <2> QED
    BY <1>1, <2>1 DEF ChosenOK, InstalledOK, Before
<1> QED
  BY <1>2, <1>3, <1>4, <1>5, <1>6 DEF InstallInv

-----------------------------------------------------------------------------
(***************************************************************************)
(* The lists of jobs are in the order of their ids, which are given in     *)
(* turn.                                                                   *)
(***************************************************************************)

Increasing(jobs) == \A i, j \in DOMAIN jobs : i < j => jobs[i].id < jobs[j].id
OrderOK ==
  /\ Increasing(jobs_dialog.jobs) /\ Increasing(queue.jobs)
  /\ \A i \in DOMAIN fetched : Increasing(fetched[i])
  /\ \A i \in DOMAIN queue.jobs : queue.jobs[i].id <= queue.last

\* A list of jobs without one, or with another state of one.
LEMMA QueueOrder ==
  ASSUME ListsOK, OrderOK, NEW id, Active(id), NEW state \in ActiveStates \cup {"gone"}, QueueBecomes(id, state)
  PROVE  /\ Increasing(queue'.jobs) /\ queue'.last = queue.last
         /\ \A k \in DOMAIN queue'.jobs : queue'.jobs[k].id <= queue'.last
<1> DEFINE i == CHOOSE k \in DOMAIN queue.jobs : queue.jobs[k].id = id
           l == queue.jobs
           jobs == IF state = "gone" THEN RemoveAt(l, i) ELSE [l EXCEPT ![i].state = state]
<1>1. l \in Seq(JobRecords) /\ queue.last \in Nat /\ i \in DOMAIN l /\ DOMAIN queue = {"jobs", "last"}
  BY DEF ListsOK, Active
<1>2. queue' = [queue EXCEPT !.jobs = jobs]
  BY DEF QueueBecomes
<1>3. Increasing(l) /\ \A k \in DOMAIN l : l[k].id <= queue.last
  BY DEF OrderOK
<1> HIDE DEF i, l
<1>4. Len(l) \in Nat /\ DOMAIN l = 1..Len(l)
  BY <1>1
<1>5. \A k \in DOMAIN l : l[k].id \in Nat /\ DOMAIN l[k] = {"id", "state"}
  <2>1. \A k \in DOMAIN l : l[k] \in JobRecords
    BY <1>1
  <2> QED
    BY <2>1 DEF JobRecords
<1>6. Increasing(jobs) /\ \A k \in DOMAIN jobs : jobs[k].id <= queue.last
  <2>1. CASE state = "gone"
    <3>1. jobs = RemoveAt(l, i)
      BY <2>1
    <3> HIDE DEF jobs
    <3>2. OneLess(l, i, jobs)
      BY <1>1, <3>1, WithoutOne DEF RemoveAt
    <3>3. i \in Nat
      BY <1>1, <1>4
    <3>4. \A k \in DOMAIN jobs : k \in DOMAIN l /\ k + 1 \in DOMAIN l /\ k \in Nat
      BY <1>4, <3>2 DEF OneLess
    <3>5. \A k \in DOMAIN jobs : jobs[k] = IF k < i THEN l[k] ELSE l[k + 1]
      BY <3>2 DEF OneLess
    <3>6. ASSUME NEW k \in DOMAIN jobs, NEW j \in DOMAIN jobs, k < j PROVE jobs[k].id < jobs[j].id
      <4>1. l[k].id < l[j].id /\ l[k].id < l[j + 1].id /\ l[k + 1].id < l[j + 1].id
        BY <1>3, <3>4, <3>6 DEF Increasing
      <4>2. CASE j < i
        BY <3>3, <3>4, <3>5, <3>6, <4>1, <4>2
      <4>3. CASE ~(j < i)
        BY <3>3, <3>4, <3>5, <3>6, <4>1, <4>3
      <4> QED
        BY <4>2, <4>3
    <3>7. \A k \in DOMAIN jobs : jobs[k].id <= queue.last
      BY <1>3, <3>4, <3>5
    <3> QED
      BY <3>6, <3>7 DEF Increasing
  <2>2. CASE state # "gone"
    <3>1. jobs = [l EXCEPT ![i].state = state]
      BY <2>2
    <3> HIDE DEF jobs
    <3>2. DOMAIN jobs = DOMAIN l
      BY <3>1
    <3>3. ASSUME NEW k \in DOMAIN l PROVE jobs[k].id = l[k].id
      <4>1. CASE k = i
        <5>1. jobs[k] = [l[k] EXCEPT !.state = state]
          BY <3>1, <4>1
        <5> QED
          BY <1>5, <5>1
      <4>2. CASE k # i
        BY <3>1, <4>2
      <4> QED
        BY <4>1, <4>2
    <3> QED
      BY <1>3, <3>2, <3>3 DEF Increasing
  <2> QED
    BY <2>1, <2>2
<1> HIDE DEF jobs
<1>7. queue'.jobs = jobs /\ queue'.last = queue.last
  BY <1>1, <1>2
<1> QED
  BY <1>6, <1>7

\* A step that leaves the printer's jobs alone.
LEMMA OrderFrame ==
  ASSUME OrderOK, queue' = queue, jobs_dialog'.jobs = jobs_dialog.jobs, fetched' = fetched
  PROVE  OrderOK'
BY DEF OrderOK

\* A step of the printer, its other clients or the buttons.
LEMMA OrderOthers ==
  ASSUME OrderOK, jobs_dialog'.jobs = jobs_dialog.jobs, fetched' = fetched,
         /\ Increasing(queue'.jobs)
         /\ \A k \in DOMAIN queue'.jobs : queue'.jobs[k].id <= queue'.last
  PROVE  OrderOK'
BY DEF OrderOK

LEMMA OrderStep == JobsInv /\ OrderOK /\ [JobsNext]_jobsVars => OrderOK'
<1> SUFFICES ASSUME JobsInv, OrderOK, [JobsNext]_jobsVars PROVE OrderOK'
  OBVIOUS
<1> USE DEF JobsInv
<1>1. /\ DOMAIN jobs_dialog = DialogRecord /\ fetched \in Seq(Seq(JobRecords)) /\ Len(fetched) \in Nat
      /\ queue.jobs \in Seq(JobRecords) /\ queue.last \in Nat /\ jobs_dialog.jobs \in Seq(JobRecords)
  BY DEF ListsOK
<1>2. CASE FetchJobs
  <2>1. fetched' = Append(fetched, queue.jobs) /\ jobs_dialog' = jobs_dialog /\ queue' = queue
    BY <1>2 DEF FetchJobs
  <2>2. ASSUME NEW i \in DOMAIN fetched' PROVE Increasing(fetched'[i])
    <3>1. (i \in DOMAIN fetched /\ fetched'[i] = fetched[i]) \/ fetched'[i] = queue.jobs
      BY <1>1, <2>1
    <3> QED
      BY <3>1 DEF OrderOK
  <2> QED
    BY <2>1, <2>2 DEF OrderOK
<1>3. CASE JobsFetched
  <2> DEFINE e == UpdateJobsListCb(jobs_dialog, Head(fetched))
  <2>1. fetched # <<>> /\ fetched' = Tail(fetched) /\ queue' = queue /\ jobs_dialog' = e
    BY <1>3 DEF JobsFetched
  <2>2. /\ Head(fetched) \in Seq(JobRecords) /\ Head(fetched) = fetched[1] /\ 1 \in DOMAIN fetched
        /\ \A i \in DOMAIN fetched' : i + 1 \in DOMAIN fetched /\ fetched'[i] = fetched[i + 1]
    BY <1>1, <2>1
  <2>3. e.jobs = fetched[1]
    BY <2>2, UpdateFacts
  <2> HIDE DEF e
  <2> QED
    BY <2>1, <2>2, <2>3 DEF OrderOK
<1>4. CASE JobSignalHandled
  <2>1. jobs_dialog' = jobs_dialog \/ jobs_dialog' = [jobs_dialog EXCEPT !.ref_count = @ + 1]
    BY <1>4 DEF JobSignalHandled, UpdateJobsList
  <2>2. jobs_dialog'.jobs = jobs_dialog.jobs
    BY <1>1, <2>1 DEF DialogRecord
  <2> QED
    BY <1>4, <2>2, OrderFrame DEF JobSignalHandled
<1>5. CASE FreeJobsDialog
  <2>1. jobs_dialog'.jobs = jobs_dialog.jobs
    BY <1>1, <1>5 DEF FreeJobsDialog, DialogRecord
  <2> QED
    BY <1>5, <2>1, OrderFrame DEF FreeJobsDialog
<1>6. ASSUME NEW i \in 1..Jobs, SelectJob(i) PROVE OrderOK'
  <2>1. jobs_dialog'.jobs = jobs_dialog.jobs
    BY <1>1, <1>6, JobSelectionFacts DEF SelectJob
  <2> QED
    BY <1>6, <2>1, OrderFrame DEF SelectJob
<1>7. ASSUME NEW button \in {"release", "hold", "cancel"}, JobProcess(button) PROVE OrderOK'
  <2>1. /\ jobs_dialog' = [jobs_dialog EXCEPT !.release = FALSE, !.hold = FALSE, !.cancel = FALSE]
        /\ fetched' = fetched
    BY <1>7, Zenon DEF JobProcess
  <2>2. jobs_dialog'.jobs = jobs_dialog.jobs
    BY <1>1, <2>1 DEF DialogRecord
  <2> DEFINE after == CASE button = "cancel" -> "gone" [] button = "hold" -> "held" [] OTHER -> "pending"
  <2>3. \/ queue' = queue
        \/ /\ Active(jobs_dialog.current_job_id)
           /\ QueueBecomes(jobs_dialog.current_job_id, after)
    BY <1>7, Zenon DEF JobProcess
  <2>4. after \in {"gone", "held", "pending"}
    BY Zenon
  <2> HIDE DEF after
  <2>5. after \in ActiveStates \cup {"gone"}
    BY <2>4 DEF ActiveStates
  <2>6. CASE queue' = queue
    BY <2>1, <2>2, <2>6, OrderFrame
  <2>7. CASE Active(jobs_dialog.current_job_id) /\ QueueBecomes(jobs_dialog.current_job_id, after)
    <3>1. Increasing(queue'.jobs) /\ \A k \in DOMAIN queue'.jobs : queue'.jobs[k].id <= queue'.last
      BY <2>5, <2>7, QueueOrder
    <3> QED
      BY <2>1, <2>2, <3>1, OrderOthers
  <2> QED
    BY <2>3, <2>6, <2>7
<1>8. CASE CloseJobsDialog
  <2>1. jobs_dialog'.jobs = jobs_dialog.jobs
    BY <1>1, <1>8 DEF CloseJobsDialog, DialogRecord
  <2> QED
    BY <1>8, <2>1, OrderFrame DEF CloseJobsDialog
<1>9. CASE JobComes
  <2> DEFINE job == [id |-> queue.last + 1, state |-> "pending"]
             jobs == Append(queue.jobs, job)
             n == Len(queue.jobs)
  <2>1. queue' = [jobs |-> jobs, last |-> queue.last + 1] /\ UNCHANGED <<jobs_dialog, fetched>>
    BY <1>9 DEF JobComes
  <2>2. queue'.jobs = jobs /\ queue'.last = queue.last + 1
    BY <2>1
  <2>3. job.id = queue.last + 1
    OBVIOUS
  <2> HIDE DEF job
  <2>4. n \in Nat /\ DOMAIN queue.jobs = 1..n /\ DOMAIN jobs = 1..n + 1 /\ jobs[n + 1] = job
        /\ \A i \in 1..n : jobs[i] = queue.jobs[i]
    BY <1>1
  <2> HIDE DEF jobs, n
  <2>5. \A i \in 1..n : jobs[i].id <= queue.last
    BY <2>4 DEF OrderOK
  <2>6. \A i, j \in 1..n : i < j => jobs[i].id < jobs[j].id
    BY <2>4 DEF OrderOK, Increasing
  <2>7. \A i \in 1..n : jobs[i].id \in Nat
    <3>1. \A i \in 1..n : queue.jobs[i] \in JobRecords
      BY <1>1, <2>4
    <3> QED
      BY <2>4, <3>1 DEF JobRecords
  <2>8. \A i \in 1..n + 1 : i \in 1..n \/ i = n + 1
    BY <2>4
  <2>9. ASSUME NEW i \in 1..n + 1, NEW j \in 1..n + 1, i < j PROVE jobs[i].id < jobs[j].id
    <3>1. i \in 1..n
      BY <2>4, <2>9
    <3>2. CASE j \in 1..n
      BY <2>6, <2>9, <3>1, <3>2
    <3>3. CASE j = n + 1
      BY <1>1, <2>3, <2>4, <2>5, <2>7, <3>1, <3>3
    <3> QED
      BY <2>8, <3>2, <3>3
  <2>10. Increasing(jobs)
    BY <2>4, <2>9 DEF Increasing
  <2>11. ASSUME NEW i \in 1..n + 1 PROVE jobs[i].id <= queue.last + 1
    BY <1>1, <2>3, <2>4, <2>5, <2>7, <2>8
  <2> QED
    BY <2>1, <2>2, <2>4, <2>10, <2>11, OrderOthers
<1>10. ASSUME NEW k \in 1..Jobs, NEW state \in ActiveStates \cup {"gone"}, JobMoves(k, state) PROVE OrderOK'
  <2>1. Active(queue.jobs[k].id) /\ QueueBecomes(queue.jobs[k].id, state) /\ UNCHANGED <<jobs_dialog, fetched>>
    BY <1>10 DEF JobMoves, Active
  <2>2. Increasing(queue'.jobs) /\ \A i \in DOMAIN queue'.jobs : queue'.jobs[i].id <= queue'.last
    BY <2>1, QueueOrder
  <2> QED
    BY <2>1, <2>2, OrderOthers
<1>11. CASE UNCHANGED jobsVars
  BY <1>11, OrderFrame DEF jobsVars
<1> QED
  BY <1>2, <1>3, <1>4, <1>5, <1>6, <1>7, <1>8, <1>9, <1>10, <1>11
  DEF JobsNext, JobsAnswers, JobsUser, JobsOthers

LEMMA OrderInit == JobsInit => OrderOK
<1> SUFFICES ASSUME JobsInit PROVE OrderOK
  OBVIOUS
<1> DEFINE jobs == [i \in 1..InitialJobs |-> [id |-> i, state |-> "pending"]]
<1>1. jobs_dialog.jobs = <<>> /\ fetched = <<>> /\ queue.jobs = jobs /\ queue.last = InitialJobs
  BY DEF JobsInit
<1>2. InitialJobs \in Nat
  BY JobsAssumption
<1>3. \A i \in DOMAIN jobs : jobs[i].id = i /\ i \in 1..InitialJobs
  OBVIOUS
<1> HIDE DEF jobs
<1>4. Increasing(jobs) /\ \A i \in DOMAIN jobs : jobs[i].id <= InitialJobs
  BY <1>2, <1>3 DEF Increasing
<1>5. Increasing(<<>>) /\ DOMAIN <<>> = {}
  BY DEF Increasing
<1> QED
  BY <1>1, <1>4, <1>5 DEF OrderOK

-----------------------------------------------------------------------------
\* What the user adds is the device of the selected row, under a name no other row has; it
\* takes the place of another printer only if that was not known or another client disturbed
\* it, and when the dialog answers OK the printer is there and configured.
THEOREM AddsTheSelected == Spec => []AddInstallsSelected
<1>1. Init => InstallInv /\ OrderOK
  BY InstallInvInit, OrderInit DEF Init
<1>2. DialogsInv /\ InstallInv /\ OrderOK /\ [Next]_dialogsVars => InstallInv' /\ OrderOK'
  <2> SUFFICES ASSUME DialogsInv, InstallInv, OrderOK, [Next]_dialogsVars PROVE InstallInv' /\ OrderOK'
    OBVIOUS
  <2>1. [NewPrinterNext]_newPrinterVars /\ [JobsNext]_jobsVars
    BY DEF Next, dialogsVars
  <2> QED
    BY <2>1, InstallInvStep, OrderStep DEF DialogsInv
<1>3. DialogsInv /\ InstallInv /\ OrderOK => AddInstallsSelected
  <2> SUFFICES ASSUME DialogsInv, InstallInv, OrderOK PROVE AddInstallsSelected
    OBVIOUS
  <2> DEFINE all == dialog.devices \o dialog.new_devices
  <2>1. EntriesOK(dialog) /\ RowsListed(dialog) /\ PendingOK /\ ChosenOK /\ InstalledOK
    BY DEF InstallInv
  <2>2. DialogsTypeOK
    <3>1. ASSUME NEW list \in {dialog.devices, dialog.new_devices}, NEW i \in DOMAIN list
          PROVE  list[i].uri \in Devices /\ list[i].name.index \in Nat \ {0}
      <4>1. list[i] \in Entries
        BY <2>1, <3>1 DEF EntriesOK
      <4> QED
        BY <4>1 DEF Entries
    <3>2. dialog.selected \in 0..Len(dialog.rows)
      BY <2>1 DEF RowsListed
    <3>3. pending.backend \in 0..Backends /\ Len(pending.groups) <= Backends
      <4>1. Len(pending.groups) \in Nat /\ ToAsk(pending.backend) \in Nat /\ Backends \in Nat
        BY <2>1, BoundsAssumption DEF PendingOK, ToAsk
      <4> QED
        BY <2>1, <4>1 DEF PendingOK
    <3>4. /\ add.calls \cap add.finished = {} /\ add.refused \subseteq add.finished
          /\ add.step \in {"none", "ppd", "missing", "files", "packages"} /\ add.files >= 0
      BY <2>1 DEF DialogsInv, NewPrinterInv, PartsOK, InstalledOK
    <3>5. jobs_dialog.ref_count >= 0
      <4>1. Len(fetched) \in Nat /\ fetching \in Nat /\ jobs_dialog.ref_count = fetching + Len(fetched)
        BY DEF DialogsInv, JobsInv, CountOK, ListsOK
      <4> QED
        BY <4>1
    <3>6. \A i, j \in DOMAIN jobs_dialog.jobs : i < j => jobs_dialog.jobs[i].id < jobs_dialog.jobs[j].id
      BY DEF OrderOK, Increasing
    <3> QED
      BY <3>1, <3>2, <3>3, <3>4, <3>5, <3>6 DEF DialogsTypeOK
  <2>3. \A i, j \in DOMAIN all : all[i].name = all[j].name => i = j
    <3>1. OnceNamed(all)
      BY <2>1, ConcatOnce DEF EntriesOK
    <3> QED
      BY <3>1 DEF OnceNamed
  <2>4. add.uri = add.chosen /\ (add.overwrites => Disturbed(add.name))
    BY <2>1 DEF ChosenOK
  <2>5. ASSUME dialog.response = "ok", ~Disturbed(add.name)
        PROVE  /\ add.name \in DOMAIN queues /\ queues[add.name].uri = add.chosen
               /\ Parts \ (IF Info[add.uri].network THEN {"autoconfigure"} ELSE {}) \subseteq add.finished
               /\ "accept" \in add.refused \/ queues[add.name].accepting
               /\ "enable" \in add.refused \/ queues[add.name].enabled
    <3>1. add.success /\ add.pc = "done" /\ Parts \ Excused(add) \subseteq add.finished
      BY <2>1, <2>5 DEF InstalledOK
    <3>2. Granted(add, queues)
      BY <2>1, <2>5, <3>1 DEF InstalledOK
    <3>3. add.name \in DOMAIN queues /\ queues[add.name].uri = add.chosen
      BY <2>1, <2>5, <3>1, <3>2 DEF ChosenOK, Granted
    <3>4. "accept" \in add.finished /\ "enable" \in add.finished
      BY <3>1 DEF Parts, Excused
    <3> QED
      BY <3>1, <3>2, <3>3, <3>4 DEF Granted, Excused
  <2> HIDE DEF all
  <2> QED
    BY <2>2, <2>3, <2>4, <2>5 DEF AddInstallsSelected, all
<1> QED
  BY <1>1, <1>2, <1>3, DialogsInvariant, PTL DEF Spec
=============================================================================
