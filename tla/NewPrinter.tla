----------------------------- MODULE NewPrinter -----------------------------
(***************************************************************************)
(* The dialog that looks for printers (pp-new-printer-dialog.c) and the    *)
(* object that adds one of them (pp-new-printer.c).                        *)
(*                                                                         *)
(* While the user looks at the list three searches fill it: the backends   *)
(* of CUPS one after another, each answer of which a service groups by     *)
(* physical device, and the remote CUPS server and the SNMP agent of an    *)
(* address.  Add cancels them and starts the chain of requests that finds  *)
(* a driver, adds the printer and configures it in five parts at once.     *)
(*                                                                         *)
(* A device is its URI, a name is a base and an index (1: no suffix).      *)
(* Both buses can be reached.                                              *)
(***************************************************************************)
EXTENDS Integers, FiniteSets, SequencesExt, Lists

CONSTANTS
  Devices,        \* the URIs of the devices
  Info,           \* [base, method, backend, usable, physical, network, begins] of each
  Backends,       \* the number of backends of CUPS that are asked
  Texts,          \* what the user may search for: [words, matches]
  InitialQueues,  \* the names of the printers when the dialog is opened: one set of them
  Contested,      \* the names that other clients use for a printer, too
  MaxSearches,    \* how often the user searches
  MaxOthers       \* how often other clients add or delete a printer

ASSUME InfoAssumption ==
  \A d \in Devices :
    /\ Info[d].method \in {"cups", "remote", "snmp"}
    /\ Info[d].backend \in 1..Backends
    /\ {Info[d].usable, Info[d].network} \subseteq BOOLEAN
    /\ d \in Info[d].begins /\ Info[d].begins \subseteq Devices
ASSUME BoundsAssumption ==
  /\ IsFiniteSet(Devices) /\ \A names \in InitialQueues : IsFiniteSet(names)
  /\ Backends \in Nat \ {0}

VARIABLES
  dialog,   \* PpNewPrinterDialog and its widgets
  pending,  \* the calls of the searches that are not answered, and how many searches there were
  add,      \* PpNewPrinter: the step it waits in
  queues,   \* the printers of the CUPS server
  others    \* how often other clients changed them, and the names they changed

newPrinterVars == <<dialog, pending, add, queues, others>>

-----------------------------------------------------------------------------
(***************************************************************************)
(* The lists of devices.                                                   *)
(***************************************************************************)

OtherPrinter == "other"

Names(list) == {list[i].name : i \in DOMAIN list}
\* Mutant: the devices that are still to be grouped are not looked at.
FreshNameInList(d, base) ==
  LET taken == d.dests \cup Names(d.devices)
      free(n) == [base |-> base, index |-> n] \notin taken
  IN CHOOSE n \in 1..(Cardinality(taken) + 1) : free(n) /\ \A m \in 1..(n - 1) : ~free(m)

FreshName(d, base) ==
  LET taken == d.dests \cup Names(d.devices) \cup Names(d.new_devices)
      free(n) == [base |-> base, index |-> n] \notin taken
  IN CHOOSE n \in 1..(Cardinality(taken) + 1) : free(n) /\ \A m \in 1..(n - 1) : ~free(m)

\* A device without id, driver or remote server cannot be added and is left out.
AddDeviceToList(d, uri, list) ==
  IF ~Info[uri].usable THEN d
  ELSE LET base == Info[uri].base
           name == [base |-> base, index |-> FreshName(d, base)]
       IN [d EXCEPT ![list] = Append(@, [uri |-> uri, name |-> name, show |-> TRUE]),
                    !.early = IF d.known THEN @ ELSE @ \cup {name}]
AddDevicesToList(d, uris, list) ==
  LET order == SetToSeq(uris)
      added[n \in 0..Len(order)] ==
        IF n = 0 THEN d ELSE AddDeviceToList(added[n - 1], order[n], list)
      last == added[Len(order)]
  IN [d EXCEPT ![list] = last[list], !.early = last.early]

\* The service answers URIs without port: the first device whose URI begins with it.
Found(uri, list) == {i \in DOMAIN list : list[i].uri \in Info[uri].begins}
DeviceInList(uri, list) == CHOOSE i \in Found(uri, list) : \A j \in Found(uri, list) : i <= j
RemoveDevice(list, uri) ==
  IF Found(uri, list) = {} THEN list ELSE RemoveAt(list, DeviceInList(uri, list))
RemoveDevices(list, group) ==
  LET left[n \in 0..Len(group)] == IF n = 0 THEN list ELSE RemoveDevice(left[n - 1], group[n])
  IN left[Len(group)]

\* Of a group of which no device is listed yet the first is kept, of another one none.
PlaceGroup(d, group) ==
  LET listed == \E u \in ToSet(group) : Found(u, d.devices) # {}
      kept == ~listed /\ Found(group[1], d.new_devices) # {}
      first == DeviceInList(group[1], d.new_devices)
  IN [d EXCEPT !.new_devices = RemoveDevices(@, group),
               !.devices = IF kept THEN Append(@, d.new_devices[first]) ELSE @]

PlaceGroups(d, groups) ==
  LET placed[n \in 0..Len(groups)] == IF n = 0 THEN d ELSE PlaceGroup(placed[n - 1], groups[n])
  IN placed[Len(groups)]

UpdateSpinnerState(d) ==
  [d EXCEPT !.spinner = d.cups_searching \/ d.remote_searching \/ d.snmp_searching]

\* The rows are made anew and the first one is selected.
ActualizeDevicesList(d) ==
  LET rows == Kept(d.devices, {i \in DOMAIN d.devices : d.devices[i].show})
      searching == d.cups_searching \/ d.remote_searching \/ d.snmp_searching
  IN UpdateSpinnerState([d EXCEPT !.rows = rows,
                                  !.notice = rows = <<>> /\ ~searching,
                                  !.selected = IF rows = <<>> THEN 0 ELSE 1])

-----------------------------------------------------------------------------
(***************************************************************************)
(* The searches.                                                           *)
(***************************************************************************)

NewDialog ==
  [open |-> TRUE, shown |-> TRUE, devices |-> <<>>, new_devices |-> <<>>, dests |-> {},
   known |-> FALSE, early |-> {},  \* kept for a property: the names given before dests was known
   cups_searching |-> FALSE, remote_searching |-> FALSE, snmp_searching |-> FALSE,
   spinner |-> FALSE, rows |-> <<>>, notice |-> FALSE, selected |-> 0, response |-> "none"]

SearchFrame == UNCHANGED <<add, queues, others>>

NoCalls == [dests |-> FALSE, backend |-> 0, groups |-> <<>>, hosts |-> {}, searches |-> 0]

\* g_cancellable_cancel: the calls are answered CANCELLED, whatever happened to the requests,
\* and every handler of the dialog returns at once then.
Cancelled == NoCalls

\* cups_get_dests_cb, well or not, and get_cups_devices
CupsGetDestsAnswer(ok) ==
  /\ pending.dests
  /\ pending' = [pending EXCEPT !.dests = FALSE, !.backend = 1]
  /\ dialog' = UpdateSpinnerState([dialog EXCEPT !.dests = IF ok THEN DOMAIN queues ELSE {},
                                                !.known = ok, !.cups_searching = TRUE])
  /\ SearchFrame

\* get_cups_devices_cb: the devices that one backend found, or an error, which ends the search
GetCupsDevicesAnswer(found, ok) ==
  LET finished == ~ok \/ pending.backend = Backends
      d == [dialog EXCEPT !.cups_searching = @ /\ ~finished]
      added == AddDevicesToList(d, found, "new_devices")
      request == {added.devices[i].uri : i \in DOMAIN added.devices} \cup found
  IN /\ pending.backend > 0
     /\ found \subseteq {u \in Devices : Info[u].method = "cups" /\ Info[u].backend = pending.backend}
     /\ ~ok => found = {}
     /\ dialog' = IF found = {} THEN ActualizeDevicesList(d) ELSE added
     /\ pending' = [pending EXCEPT
                      !.backend = IF finished THEN 0 ELSE @ + 1,
                      !.groups = IF found = {} THEN @ ELSE Append(@, request)]
     /\ SearchFrame

\* group_physical_devices_cb: the service answers the oldest request, each group with any of
\* its devices first, or it cannot be reached and everything found is listed
GroupsOf(request) == {{u \in request : Info[u].physical = Info[v].physical} : v \in request}
Groupings(request) == {first \in [GroupsOf(request) -> request] : \A g \in DOMAIN first : first[g] \in g}
GroupPhysicalDevicesAnswer(ok) ==
  /\ pending.groups # <<>>
  /\ \E first \in IF ok THEN Groupings(Head(pending.groups)) ELSE {<<>>} :
       LET group(g) == <<first[g]>> \o SetToSeq(g \ {first[g]})
           order == SetToSeq(DOMAIN first)
           placed == PlaceGroups(dialog, [n \in DOMAIN order |-> group(order[n])])
           all == [devices |-> dialog.devices \o dialog.new_devices, new_devices |-> <<>>]
           lists == IF ok THEN placed ELSE all
       IN dialog' = ActualizeDevicesList([dialog EXCEPT !.devices = lists.devices,
                                                       !.new_devices = lists.new_devices])
  /\ pending' = [pending EXCEPT !.groups = Tail(@)]
  /\ SearchFrame

UserLooks == dialog.open /\ dialog.shown

\* search_address_cb: the words filter the list; one word that nothing matches is an address
SearchAddress(text) ==
  LET matches(e) == text.words = 0 \/ Info[e.uri].base \in text.matches
      filtered == [i \in DOMAIN dialog.devices |->
                     [dialog.devices[i] EXCEPT !.show = matches(dialog.devices[i])]]
      address == text.words = 1 /\ \A i \in DOMAIN dialog.devices : ~matches(dialog.devices[i])
      local(list) == Kept(list, {i \in DOMAIN list : Info[list[i].uri].method = "cups"})
      all == [i \in DOMAIN dialog.devices |-> [dialog.devices[i] EXCEPT !.show = TRUE]]
      searched == [dialog EXCEPT !.devices = local(all),
                                 !.new_devices = local(@),
                                 !.remote_searching = TRUE, !.snmp_searching = TRUE]
  IN /\ UserLooks /\ pending.searches < MaxSearches
     /\ dialog' = ActualizeDevicesList(IF address THEN searched
                                       ELSE [dialog EXCEPT !.devices = filtered])
     /\ pending' = [pending EXCEPT
                      !.searches = @ + 1,
                      !.hosts = IF address THEN @ \cup ({"remote", "snmp"} \X {pending.searches})
                                ELSE @]
     /\ SearchFrame

\* get_remote_cups_devices_cb, get_snmp_devices_cb
HostAnswer(call, found, ok) ==
  LET flag == IF call[1] = "remote" THEN "remote_searching" ELSE "snmp_searching"
      d == UpdateSpinnerState([dialog EXCEPT ![flag] = FALSE])
  IN /\ call \in pending.hosts
     /\ found \subseteq {u \in Devices : Info[u].method = call[1]}
     /\ ~ok => found = {}
     /\ dialog' = IF ok THEN ActualizeDevicesList(AddDevicesToList(d, found, "devices")) ELSE d
     /\ pending' = [pending EXCEPT !.hosts = @ \ {call}]
     /\ SearchFrame

SelectDevice(i) ==
  /\ UserLooks /\ ~dialog.notice /\ i \in DOMAIN dialog.rows
  /\ dialog' = [dialog EXCEPT !.selected = i]
  /\ UNCHANGED pending /\ SearchFrame

-----------------------------------------------------------------------------
(***************************************************************************)
(* The addition.                                                           *)
(***************************************************************************)

Parts == {"accept", "enable", "autoconfigure", "media", "executables"}
NoName == [base |-> "", index |-> 0]
NoAdd ==
  [pc |-> "none", uri |-> OtherPrinter, chosen |-> OtherPrinter, name |-> NoName,
   cancelled |-> FALSE, success |-> FALSE, calls |-> {}, finished |-> {}, refused |-> {},
   data |-> "none", step |-> "none", files |-> 0, packages |-> FALSE, overwrites |-> FALSE]

\* The lists of a hidden dialog are not read again.
Hidden(name) == [NewDialog EXCEPT !.shown = FALSE, !.early = dialog.early \cap {name}]
Finalized(response) == [Hidden(add.name) EXCEPT !.open = FALSE, !.response = response]

\* Mutant: finalize leaves the calls of the dialog alone.
ClosesOnly(response) == dialog' = Finalized(response) /\ UNCHANGED pending

\* The panel drops its dialog, which cancels what the dialog waits for.
Closes(response) == dialog' = Finalized(response) /\ pending' = Cancelled

\* new_printer_dialog_response_cb: GTK_RESPONSE_OK.  The device with the name of the selected
\* row; one with an id needs a driver, one of a remote server has one there.
ResponseOk ==
  LET row == dialog.rows[dialog.selected]
      named == {i \in DOMAIN dialog.devices : dialog.devices[i].name = row.name}
      device == dialog.devices[CHOOSE i \in named : \A j \in named : i <= j]
  IN /\ UserLooks /\ dialog.selected # 0
     /\ dialog' = Hidden(device.name)
     /\ pending' = Cancelled
     /\ add' = IF named = {} THEN add
               ELSE [NoAdd EXCEPT !.pc = IF Info[device.uri].method = "remote" THEN "remote_ppd"
                                         ELSE "drivers",
                                  !.uri = device.uri, !.chosen = row.uri, !.name = device.name]
     /\ UNCHANGED <<queues, others>>

ResponseCancel == UserLooks /\ Closes("cancel") /\ SearchFrame

\* The panel goes while its dialog is open: nobody is left to answer.
PanelDisposed ==
  /\ dialog.open /\ Closes("none")
  /\ add' = [add EXCEPT !.cancelled = TRUE]
  /\ UNCHANGED <<queues, others>>

At(pc) == add.pc = pc
Goto(pc) == add' = [add EXCEPT !.pc = pc]
Fails == add' = [add EXCEPT !.pc = "complete"]
AddFrame == UNCHANGED <<dialog, pending, queues, others>>

\* printer_add_async_scb: the best driver, which is good enough or not; a cancelled call ends
\* the chain without an answer
GetBestDriversAnswer(exact) ==
  /\ At("drivers")
  /\ Goto(IF add.cancelled THEN "abandoned" ELSE IF exact THEN "add" ELSE "install")
  /\ AddFrame

InstallPrinterDriversAnswer == At("install") /\ Goto("drivers_again") /\ AddFrame

\* printer_add_async_scb3: whatever driver there is now
GetBestDriversAgain(some) ==
  /\ At("drivers_again")
  /\ IF some /\ ~add.cancelled THEN Goto("add") ELSE Fails
  /\ AddFrame

\* printer_add_async_scb4
RemotePpdAnswer(some) == At("remote_ppd") /\ (IF some THEN Goto("add") ELSE Fails) /\ AddFrame

With(f, k, v) == [x \in DOMAIN f \cup {k} |-> IF x = k THEN v ELSE f[x]]

\* PrinterAdd makes the queue, or changes the one of that name; whether it did or not
\* printer_add_real_async_dbus_cb asks for the printer.
PrinterAddAnswer(ok) ==
  /\ At("add")
  /\ add' = [add EXCEPT !.pc = "verify", !.overwrites = ok /\ add.name \in DOMAIN queues]
  /\ queues' = IF ok THEN With(queues, add.name, [uri |-> add.uri, accepting |-> FALSE, enabled |-> FALSE])
               ELSE queues
  /\ UNCHANGED <<dialog, pending, others>>

\* printer_configure_async
Configured(a) ==
  LET network == Info[a.uri].network
  IN [a EXCEPT !.pc = "configure", !.data = "live", !.step = "ppd",
               !.calls = IF network THEN Parts \ {"autoconfigure"} ELSE Parts]
GetNamedDestAnswer ==
  /\ At("verify")
  /\ IF add.name \in DOMAIN queues THEN add' = Configured(add) ELSE Fails
  /\ AddFrame

\* Mutant: a network printer is not excused from the automatic configuration.
FinishConfigured(a) ==
  IF Parts \subseteq a.finished
  THEN [a EXCEPT !.pc = "complete", !.success = TRUE, !.data = "freed"] ELSE a

\* printer_configure_async_finish
ConfigureFinish(a) ==
  IF Parts \subseteq a.finished \cup (IF Info[a.uri].network THEN {"autoconfigure"} ELSE {})
  THEN [a EXCEPT !.pc = "complete", !.success = TRUE, !.data = "freed"] ELSE a

PartDone(part, ok) ==
  add' = ConfigureFinish([add EXCEPT !.calls = @ \ {part}, !.finished = @ \cup {part},
                                     !.refused = IF ok THEN @ ELSE @ \cup {part}])

\* printer_set_accepting_jobs_cb, printer_set_enabled_cb
SetAnswer(part, ok) ==
  LET field == IF part = "accept" THEN "accepting" ELSE "enabled"
      done == ok /\ add.name \in DOMAIN queues
  IN /\ part \in add.calls \cap {"accept", "enable"}
     /\ PartDone(part, ok)
     /\ queues' = IF done THEN [queues EXCEPT ![add.name][field] = TRUE] ELSE queues
     /\ UNCHANGED <<dialog, pending, others>>

\* pao_cb, pp_maintenance_command_execute_cb, granted or not
PartAnswer(part) ==
  /\ part \in add.calls \cap {"media", "autoconfigure"}
  /\ PartDone(part, TRUE)
  /\ AddFrame

\* printer_get_ppd_cb, get_missing_executables_cb, search_files_cb and
\* install_package_names_cb: files are looked for one by one, their packages installed at once
ExecutablesStep(some) ==
  LET step == add.step
      searched == step = "files" /\ add.files = 0
      last == \/ step = "ppd" /\ ~some
              \/ step = "missing" /\ ~some
              \/ searched /\ ~(some \/ add.packages)
              \/ step = "packages"
  IN /\ "executables" \in add.calls
     /\ IF last THEN PartDone("executables", TRUE)
        ELSE add' = [add EXCEPT
               !.step = CASE step = "ppd" -> "missing"
                          [] step = "missing" -> "files"
                          [] searched -> "packages"
                          [] OTHER -> "files",
               !.files = IF step = "missing" THEN 1 ELSE IF step = "files" /\ @ > 0 THEN @ - 1 ELSE @,
               !.packages = @ \/ (step = "files" /\ some)]
     /\ AddFrame

\* printer_add_async_cb, from an idle source
AddComplete ==
  /\ At("complete")
  /\ IF add.cancelled
     THEN Goto("done") /\ UNCHANGED <<dialog, pending>>
     ELSE /\ Closes(IF add.success THEN "ok" ELSE "reject")
          /\ add' = [add EXCEPT !.pc = "done", !.cancelled = TRUE]
  /\ UNCHANGED <<queues, others>>

-----------------------------------------------------------------------------
\* Other clients add printers, under a name this dialog may want, and delete them.
OtherAdds(n) ==
  /\ Len(others) < MaxOthers /\ n \notin DOMAIN queues
  /\ queues' = With(queues, n, [uri |-> OtherPrinter, accepting |-> TRUE, enabled |-> TRUE])
  /\ others' = Append(others, n) /\ UNCHANGED <<dialog, pending, add>>
OtherDeletes(n) ==
  /\ Len(others) < MaxOthers /\ n \in DOMAIN queues
  /\ queues' = [x \in DOMAIN queues \ {n} |-> queues[x]]
  /\ others' = Append(others, n) /\ UNCHANGED <<dialog, pending, add>>

NewPrinterInit ==
  /\ dialog = NewDialog
  /\ pending = [NoCalls EXCEPT !.dests = TRUE]
  /\ add = NoAdd
  /\ \E names \in InitialQueues :
       queues = [n \in names |-> [uri |-> OtherPrinter, accepting |-> TRUE, enabled |-> TRUE]]
  /\ others = <<>>

SearchAnswers ==
  \E ok \in BOOLEAN :
    \/ CupsGetDestsAnswer(ok)
    \/ \E found \in SUBSET Devices : GetCupsDevicesAnswer(found, ok)
    \/ GroupPhysicalDevicesAnswer(ok)
    \/ \E call \in pending.hosts, found \in SUBSET Devices : HostAnswer(call, found, ok)
AddAnswers ==
  \E ok \in BOOLEAN :
    \/ GetBestDriversAnswer(ok) \/ InstallPrinterDriversAnswer \/ GetBestDriversAgain(ok)
    \/ RemotePpdAnswer(ok) \/ PrinterAddAnswer(ok) \/ GetNamedDestAnswer
    \/ \E part \in add.calls : SetAnswer(part, ok) \/ PartAnswer(part)
    \/ ExecutablesStep(ok) \/ AddComplete
NewPrinterUser ==
  \/ \E text \in Texts : SearchAddress(text)
  \/ \E i \in DOMAIN dialog.rows : SelectDevice(i)
  \/ ResponseOk \/ ResponseCancel
OtherClients == \E n \in Contested : OtherAdds(n) \/ OtherDeletes(n)

NewPrinterNext ==
  \/ SearchAnswers \/ AddAnswers \/ NewPrinterUser \/ PanelDisposed \/ OtherClients
=============================================================================
