---------------------------- MODULE PrintersPanel ----------------------------
(***************************************************************************)
(* The printers panel (cc-printers-panel.c) with the CUPS requests of      *)
(* pp-utils.c that it makes, next to other clients of the same server.     *)
(*                                                                         *)
(* The panel keeps a snapshot of the server's printers, the index of the   *)
(* current one in it, the rows of the list, and widgets that were filled   *)
(* from the snapshot; every callback of the panel works on the current     *)
(* index.  What the panel keeps is one record, panel, and each function    *)
(* that changes it is an operator from a record to a record.  A callback   *)
(* with its synchronous requests is one step, except for renaming, whose   *)
(* dozen requests other clients may come between while the main loop of    *)
(* the panel is blocked.                                                   *)
(*                                                                         *)
(* Names are numbers, in the order of g_ascii_strcasecmp, in which         *)
(* cupsGetDests lists them; names that differ only in case, instances of a *)
(* printer and classes are not distinguished.                              *)
(***************************************************************************)
EXTENDS Integers, SequencesExt

CONSTANTS
  Printers,    \* names of printers
  InitialSets, \* the sets of printers that CUPS may have when the panel is opened
  Discovered,  \* printers that other servers share, with the type CUPS_PRINTER_DISCOVERED
  LocalServer, \* cupsServer () names this machine
  MaxJobs,     \* bound: jobs in a queue
  MaxChanges   \* bound: what the user and other clients do and requests that are refused

NoPrinter == 0
NoRow == 0

ASSUME PrintersAssumption ==
  /\ Printers \subseteq Nat \ {NoPrinter} /\ IsFiniteSet(Printers) /\ Discovered \subseteq Printers
  /\ InitialSets \subseteq SUBSET Printers
  /\ LocalServer \in BOOLEAN
  /\ {MaxJobs, MaxChanges} \subseteq Nat

VARIABLES
  server,       \* CUPS: its queues, the default, the dest of the last job, whether it runs
  panel,        \* struct _CcPrintersPanelPrivate and the widgets
  subscription, \* the subscription, its renewal timer, the D-Bus match and the status check
  signals,      \* signals of CUPS that the main loop has not dispatched
  missed,       \* the server changed unheard since the list was made
  calls,        \* printers whose driver is being set, a name for each request
  search,       \* the search for drivers under way
  rename,       \* printer_rename
  changes

vars == <<server, panel, subscription, signals, missed, calls, search, rename, changes>>

-----------------------------------------------------------------------------
(***************************************************************************)
(* The server as the panel's requests see it.                              *)
(***************************************************************************)

Queue == [paused : BOOLEAN, accepting : BOOLEAN, jobs : 0..MaxJobs]
Exists(s, n) == s.up /\ n \in DOMAIN s.queues
JobsOf(s, n) == IF Exists(s, n) THEN s.queues[n].jobs ELSE 0

\* A queue is created stopped and rejecting jobs.
NewQueue == [paused |-> TRUE, accepting |-> FALSE, jobs |-> 0]
With(f, k, v) == [x \in DOMAIN f \cup {k} |-> IF x = k THEN v ELSE f[x]]
AddQueue(s, n, q) == [s EXCEPT !.queues = With(@, n, q)]
DeleteQueue(s, n) ==
  [s EXCEPT !.queues = [x \in DOMAIN @ \ {n} |-> @[x]],
            !.default = IF @ = n THEN NoPrinter ELSE @,
            !.last = IF @ = n THEN NoPrinter ELSE @]

\* cupsGetDests
GetDests(s) ==
  LET listed == IF s.up THEN DOMAIN s.queues ELSE {}
      names == CHOOSE q \in [1..Cardinality(listed) -> listed] :
                 \A i, j \in DOMAIN q : i < j => q[i] < q[j]
  IN [i \in DOMAIN names |->
        [name |-> names[i], paused |-> s.queues[names[i]].paused,
         is_default |-> names[i] = s.default]]

-----------------------------------------------------------------------------
(***************************************************************************)
(* The panel's functions.  current_dest is an index from 0, -1 for none.   *)
(***************************************************************************)

PrinterSelected(p) == p.current_dest >= 0 /\ p.current_dest < Len(p.dests)
Current(p) == p.dests[p.current_dest + 1]
CurrentName(p) == IF PrinterSelected(p) THEN Current(p).name ELSE NoPrinter
RowName(p) == IF p.selected = NoRow THEN NoPrinter ELSE p.rows[p.selected].name
IsNew(p) == p.new_printer_name # NoPrinter /\ RowName(p) = p.new_printer_name

UpdateSensitivity(p) ==
  LET is_changing_driver == PrinterSelected(p) /\ Contains(p.driver_change_list, CurrentName(p))
      is_discovered == ~IsNew(p) /\ CurrentName(p) \in Discovered
      already_present_local == LocalServer /\ ~is_discovered /\ p.is_authorized /\ ~IsNew(p)
      no_cups == p.page = "NO_CUPS"
  IN [p EXCEPT
        !.add_button = LocalServer /\ p.is_authorized /\ ~no_cups /\ p.new_printer_name = NoPrinter,
        !.remove_button = already_present_local /\ (PrinterSelected(p) \/ IsNew(p)) /\ ~no_cups,
        !.editable = already_present_local,
        !.default_button = p.is_authorized /\ ~IsNew(p),
        !.model_page = IF is_changing_driver THEN "changing"
                       ELSE IF already_present_local /\ ~p.getting_ppd_names THEN "button"
                       ELSE "label"]

UpdateJobsCount(p, s) ==
  [p EXCEPT !.num_jobs = IF PrinterSelected(p) THEN JobsOf(s, CurrentName(p)) ELSE -1]

\* The details: those of the current printer, or of the one that is being added.
Details(p) ==
  IF PrinterSelected(p)
  THEN [name |-> RowName(p), enabled |-> ~Current(p).paused, is_default |-> Current(p).is_default]
  ELSE [name |-> RowName(p), enabled |-> FALSE, is_default |-> FALSE]

\* printer_selection_changed_cb, after row i (or none) was selected
SelectionChanged(p, s, i) ==
  LET q == UpdateJobsCount([p EXCEPT !.selected = i,
                                     !.current_dest = IF i = NoRow THEN -1 ELSE p.rows[i].id], s)
  IN UpdateSensitivity([q EXCEPT !.shown = Details(q),
                                 !.page = IF PrinterSelected(q) \/ IsNew(q) THEN "INFO" ELSE @])

\* Mutant: the row of the printer that is being added comes last.
RowsAppended(dests, new) ==
  LET listed == [i \in DOMAIN dests |-> [id |-> i - 1, name |-> dests[i].name]]
  IN IF dests = <<>> /\ new = NoPrinter THEN <<[id |-> 0, name |-> NoPrinter]>>
     ELSE IF new = NoPrinter \/ \E i \in DOMAIN dests : dests[i].name = new THEN listed
     ELSE Append(listed, [id |-> -1, name |-> new])

\* The rows: a printer that is being added has one of its own, with id -1, until the
\* server lists it.  new_printer_position is where the loop over the dests leaves it.
Rows(dests, new) ==
  LET listed == [i \in DOMAIN dests |-> [id |-> i - 1, name |-> dests[i].name]]
      before == {i \in DOMAIN dests : dests[i].name < new}
      position == IF before = {} THEN 0 ELSE CHOOSE i \in before : \A j \in before : j <= i
  IN IF dests = <<>> /\ new = NoPrinter THEN <<[id |-> 0, name |-> NoPrinter]>>
     ELSE IF new = NoPrinter \/ \E i \in DOMAIN dests : dests[i].name = new THEN listed
     ELSE InsertAt(listed, position + 1, [id |-> -1, name |-> new])

\* The last used printer, the default one, or the first row.
Fallback(dests, rows, s) ==
  LET used == {i \in DOMAIN dests : dests[i].name = s.last}
      default == {i \in DOMAIN dests : dests[i].is_default}
      preferred == IF used # {} THEN used ELSE default
  IN IF preferred # {} THEN CHOOSE r \in DOMAIN rows : rows[r].id + 1 \in preferred
     ELSE IF dests # <<>> THEN 1 ELSE NoRow

FreeDests(p) == [p EXCEPT !.dests = <<>>, !.current_dest = -1]

ActualizePrintersList(p, s) ==
  LET select_new == p.new_printer_name # NoPrinter /\ p.select_new_printer
      current_printer_name == IF select_new THEN p.new_printer_name ELSE RowName(p)
      dests == GetDests(s)
      rows == Rows(dests, p.new_printer_name)
      none == dests = <<>> /\ p.new_printer_name = NoPrinter
      found == {r \in DOMAIN rows : current_printer_name # NoPrinter
                                    /\ rows[r].name = current_printer_name}
      listed == [FreeDests(p) EXCEPT
                   !.dests = dests, !.rows = rows, !.selected = NoRow,
                   !.select_new_printer = @ /\ ~select_new,
                   !.page = IF ~none THEN @ ELSE IF s.up THEN "NO_PRINTERS" ELSE "NO_CUPS"]
      row == IF found # {} THEN CHOOSE r \in found : TRUE ELSE Fallback(dests, rows, s)
  IN IF row = NoRow THEN UpdateSensitivity(listed) ELSE SelectionChanged(listed, s, row)

\* Mutant: a cancelled search is ignored.
IgnoreCancelled(p, name, cancelled, found) ==
  IF cancelled THEN p
  ELSE UpdateSensitivity([p EXCEPT !.getting_ppd_names = FALSE,
                                   !.preferred_drivers = With(@, name, found)])

\* get_ppd_names_cb: known drivers fill the placeholders of the menu.
GetPpdNames(p, name, cancelled, found) ==
  LET known == IF cancelled \/ name \in DOMAIN p.preferred_drivers THEN p.preferred_drivers
               ELSE With(p.preferred_drivers, name, found)
      offers == name \in DOMAIN known /\ known[name]
  IN UpdateSensitivity(
       [p EXCEPT !.getting_ppd_names = FALSE, !.preferred_drivers = known,
                 !.popup_menu.offers = @ \/ offers,
                 !.popup_menu.informal = IF offers THEN "hidden" ELSE "not found"])

-----------------------------------------------------------------------------
(***************************************************************************)
(* Changes of the server, the signals that announce them and the requests. *)
(***************************************************************************)

Heard == subscription.active /\ subscription.match

\* PrinterAdded, PrinterDeleted, PrinterStateChanged and PrinterStopped all have the list
\* made again; JobCreated and JobCompleted carry the printer.
PrinterSignal == <<NoPrinter>>
JobSignal(n) == <<n>>

ServerBecomes(after, kinds) ==
  /\ server' = after
  /\ signals' = IF Heard /\ after # server THEN signals \o kinds ELSE signals
Unheard(after, kinds) == missed \/ (after # server /\ (~Heard \/ kinds = <<>>))

\* A request about printer n is carried out, refused, or fails because CUPS or the printer
\* is not there; b is what changes becomes otherwise.
Answered(n, ok, b) ==
  IF ok THEN Exists(server, n) /\ changes' = b
  ELSE IF Exists(server, n)
  THEN b < MaxChanges /\ changes' = b + 1
  ELSE changes' = b
SetQueue(s, n, f, v) == [s EXCEPT !.queues[n][f] = v]

\* The main loop of the panel runs, and the user has it, not a modal window, before him.
Runs == panel.loaded = "done" /\ rename.pc = "idle" /\ ~panel.crashed
UserActs ==
  /\ Runs /\ changes < MaxChanges
  /\ ~panel.chooser /\ ~panel.popup_menu.open /\ panel.adding # "search"
Counted == changes + 1

Actualized(p, s) == panel' = ActualizePrintersList(p, s) /\ missed' = FALSE

-----------------------------------------------------------------------------
(***************************************************************************)
(* Start, subscription and signals.                                        *)
(***************************************************************************)

\* populate_printers_list
PopulatePrintersList ==
  /\ panel.loaded = "no"
  /\ panel' = [ActualizePrintersList(panel, server) EXCEPT !.loaded = "populated"]
  /\ missed' = FALSE
  /\ UNCHANGED <<server, subscription, signals, calls, search, rename, changes>>

\* attach_to_cups_notifier, which may fail to get the proxy.
Attached(subscribed, match) ==
  [subscription EXCEPT !.active = subscribed, !.renewal = subscribed, !.match = subscribed /\ match]

AttachToCupsNotifier ==
  /\ panel.loaded = "populated"
  /\ \/ subscription' = Attached(server.up, TRUE) /\ UNCHANGED changes
     \/ /\ server.up /\ changes < MaxChanges
        /\ subscription' = Attached(TRUE, FALSE)
        /\ changes' = changes + 1
  /\ panel' = [panel EXCEPT !.loaded = "attached"]
  /\ UNCHANGED <<server, signals, missed, calls, search, rename>>

\* The end of cc_printers_panel_init: is CUPS there?
StartStatusCheck ==
  /\ panel.loaded = "attached"
  /\ subscription' = [subscription EXCEPT !.status_check = ~server.up]
  /\ panel' = [panel EXCEPT !.loaded = "done"]
  /\ UNCHANGED <<server, signals, missed, calls, search, rename, changes>>

\* The timer of cups_status_check; the list is made before the panel subscribes.
CupsStatusCheck ==
  /\ Runs /\ subscription.status_check /\ server.up
  /\ Actualized(panel, server)
  /\ subscription' = [Attached(TRUE, TRUE) EXCEPT !.status_check = FALSE]
  /\ UNCHANGED <<server, signals, calls, search, rename, changes>>

\* The timer of renew_subscription: a renewal that fails removes it for ever.
RenewSubscription ==
  /\ Runs /\ subscription.renewal /\ ~server.up
  /\ subscription' = [subscription EXCEPT !.renewal = FALSE]
  /\ UNCHANGED <<server, panel, signals, missed, calls, search, rename, changes>>

SubscriptionExpires ==
  /\ subscription.active /\ ~subscription.renewal
  /\ subscription' = [subscription EXCEPT !.active = FALSE]
  /\ UNCHANGED <<server, panel, signals, missed, calls, search, rename, changes>>


\* Mutant: the list is not made again while a printer is added.
IgnoreWhileAdding ==
  /\ Runs /\ signals # <<>>
  /\ IF Head(signals) = NoPrinter /\ panel.new_printer_name = NoPrinter
     THEN Actualized(panel, server) ELSE UNCHANGED <<panel, missed>>
  /\ signals' = Tail(signals)
  /\ UNCHANGED <<server, subscription, calls, search, rename, changes>>

OnCupsNotification ==
  /\ Runs /\ signals # <<>>
  /\ IF Head(signals) = NoPrinter THEN Actualized(panel, server)
     ELSE /\ panel' = IF server.up /\ Head(signals) = CurrentName(panel)
                      THEN UpdateJobsCount(panel, server) ELSE panel
          /\ UNCHANGED missed
  /\ signals' = Tail(signals)
  /\ UNCHANGED <<server, subscription, calls, search, rename, changes>>

OnPermissionChanged ==
  /\ Runs /\ changes < MaxChanges
  /\ panel' = UpdateSensitivity([panel EXCEPT !.is_authorized = ~@])
  /\ changes' = changes + 1
  /\ UNCHANGED <<server, subscription, signals, missed, calls, search, rename>>

-----------------------------------------------------------------------------
(***************************************************************************)
(* What the user does with the current printer.                            *)
(***************************************************************************)

Acted == changes' = Counted

SelectRow(i) ==
  /\ UserActs /\ i # panel.selected /\ panel.rows[i].name # NoPrinter
  /\ panel' = SelectionChanged(panel, server, i)
  /\ Acted
  /\ UNCHANGED <<server, subscription, signals, missed, calls, search, rename>>

\* printer_disable_cb asks for the opposite of what the snapshot says.
PrinterDisable ==
  /\ UserActs /\ panel.editable
  /\ \E ok \in BOOLEAN :
       LET name == CurrentName(panel)
           after == SetQueue(server, name, "paused", ~Current(panel).paused)
       IN IF name # NoPrinter /\ ok
          THEN /\ Answered(name, TRUE, Counted)
               /\ ServerBecomes(after, PrinterSignal) /\ Actualized(panel, after)
          ELSE /\ Answered(name, FALSE, Counted)
               /\ panel' = [panel EXCEPT !.shown.enabled = ~@]
               /\ UNCHANGED <<server, signals, missed>>
  /\ UNCHANGED <<subscription, calls, search, rename>>

\* printer_set_default_cb reads dests[current_dest] after the list was made again, when it
\* may be empty (the array is then NULL) or have no current printer.
PrinterSetDefault ==
  /\ UserActs /\ panel.default_button
  /\ LET name == CurrentName(panel) IN
     IF name = NoPrinter
     THEN /\ panel' = [panel EXCEPT !.shown.is_default = ~@]
          /\ Acted /\ UNCHANGED <<server, signals, missed>>
     ELSE \E ok \in BOOLEAN :
            LET after == IF ok THEN [server EXCEPT !.default = name] ELSE server
                p == ActualizePrintersList(panel, after)
            IN /\ Answered(name, ok, Counted)
               /\ ServerBecomes(after, PrinterSignal)
               /\ missed' = FALSE
               /\ \/ PrinterSelected(p) /\ panel' = p
                  \/ ~PrinterSelected(p) /\ panel' = [p EXCEPT !.crashed = TRUE]
                  \/ /\ ~PrinterSelected(p) /\ p.dests # <<>>
                     /\ \E b \in BOOLEAN : panel' = [p EXCEPT !.shown.is_default = b]
  /\ UNCHANGED <<subscription, calls, search, rename>>

PrinterRemove ==
  /\ UserActs /\ panel.remove_button
  /\ \E ok \in BOOLEAN :
       LET name == CurrentName(panel)
           after == DeleteQueue(server, name)
       IN IF name # NoPrinter /\ ok
          THEN /\ Answered(name, TRUE, Counted)
               /\ ServerBecomes(after, PrinterSignal) /\ Actualized(panel, after)
          ELSE Answered(name, FALSE, Counted) /\ UNCHANGED <<server, signals, panel, missed>>
  /\ UNCHANGED <<subscription, calls, search, rename>>

\* The location itself is not modelled; the list is made again if it was set.
PrinterLocationEdit ==
  /\ UserActs /\ panel.editable
  /\ CurrentName(panel) # NoPrinter
  /\ Answered(CurrentName(panel), TRUE, Counted)
  /\ Actualized(panel, server)
  /\ UNCHANGED <<server, subscription, signals, calls, search, rename>>

PrinterNameEdit(new) ==
  /\ UserActs /\ panel.editable
  /\ rename' = [rename EXCEPT !.pc = "check", !.old = CurrentName(panel), !.new = new]
  /\ Acted
  /\ UNCHANGED <<server, panel, subscription, signals, missed, calls, search>>

-----------------------------------------------------------------------------
(***************************************************************************)
(* printer_rename: a new queue is made from the old one's PPD and          *)
(* settings, and the old one is deleted.                                   *)
(***************************************************************************)

NoServer == [queues |-> <<>>, default |-> NoPrinter, last |-> NoPrinter, up |-> FALSE]
NoRename ==
  [pc |-> "idle", old |-> NoPrinter, new |-> NoPrinter, accepting |-> FALSE, paused |-> FALSE,
   is_default |-> FALSE,
   closed |-> FALSE, before |-> NoServer, since |-> 0] \* for the properties only
RenameAt(pc) == rename.pc = pc
Goto(pc) == rename' = [rename EXCEPT !.pc = pc]
RenameFrame == UNCHANGED <<panel, subscription, calls, search>>
\* A printer is open for jobs, so that the count of its jobs says nothing.
Opened(n) == rename' = [rename EXCEPT !.closed = @ /\ n # rename.old]

\* One request of it: f maps the server to what the request makes of it.
RenameRequest(n, ok, after) ==
  /\ Answered(n, ok, changes)
  /\ IF ok THEN ServerBecomes(after, PrinterSignal) /\ missed' = Unheard(after, PrinterSignal)
     ELSE UNCHANGED <<server, signals, missed>>
  /\ RenameFrame

RenameCheck ==
  /\ RenameAt("check")
  /\ LET old == rename.old
         known == Exists(server, old)
         accepting == known => server.queues[old].accepting
     IN IF \/ old = NoPrinter \/ old = rename.new \/ Exists(server, rename.new)
           \/ JobsOf(server, old) > 1
        THEN Goto("done")
        ELSE rename' = [rename EXCEPT
               !.pc = IF accepting THEN "stop" ELSE "add",
               !.accepting = accepting,
               !.paused = known /\ server.queues[old].paused,
               !.is_default = known /\ server.default = old,
               !.closed = ~accepting, !.before = server, !.since = changes]
  /\ RenameFrame /\ UNCHANGED <<server, signals, missed, changes>>

RenameStopAccepting ==
  /\ RenameAt("stop")
  /\ \E ok \in BOOLEAN :
       /\ RenameRequest(rename.old, ok, SetQueue(server, rename.old, "accepting", FALSE))
       /\ rename' = [rename EXCEPT !.pc = "recheck", !.closed = ok]


\* Mutant: jobs that came before the printer was closed are not looked for.
RecheckSkipped ==
  /\ RenameAt("recheck") /\ Goto("add")
  /\ RenameFrame /\ UNCHANGED <<server, signals, missed, changes>>

RenameRecheck ==
  /\ RenameAt("recheck")
  /\ rename' = [rename EXCEPT !.pc = IF JobsOf(server, rename.old) > 1 THEN "reopen" ELSE "add",
                              !.closed = @ /\ server.up]
  /\ RenameFrame /\ UNCHANGED <<server, signals, missed, changes>>

\* PrinterAddWithPpdFile; that a printer of that name exists now is no error.
RenameAdd ==
  /\ RenameAt("add")
  /\ \/ /\ server.up
        /\ LET after == IF Exists(server, rename.new) THEN server
                        ELSE AddQueue(server, rename.new, NewQueue)
           IN ServerBecomes(after, PrinterSignal) /\ missed' = Unheard(after, PrinterSignal)
        /\ UNCHANGED changes
        /\ Goto("verify")
     \/ /\ server.up => changes < MaxChanges
        /\ changes' = IF server.up THEN changes + 1 ELSE changes
        /\ rename' = [rename EXCEPT !.pc = "verify", !.since = @ + (changes' - changes)]
        /\ UNCHANGED <<server, signals, missed>>
  /\ RenameFrame


\* Mutant: the old printer stays closed when the new one was not added.
ReopenSkipped ==
  /\ RenameAt("verify")
  /\ Goto(IF Exists(server, rename.new) THEN "accept" ELSE "done")
  /\ RenameFrame /\ UNCHANGED <<server, signals, missed, changes>>

RenameVerify ==
  /\ RenameAt("verify")
  /\ Goto(IF Exists(server, rename.new) THEN "accept" ELSE "reopen")
  /\ RenameFrame /\ UNCHANGED <<server, signals, missed, changes>>

\* Sharing, banners, policies and users are set in the same way and not modelled.
RenameSetAccepting ==
  /\ RenameAt("accept")
  /\ \E ok \in BOOLEAN :
       RenameRequest(rename.new, ok, SetQueue(server, rename.new, "accepting", rename.accepting))
  /\ Goto("enable")
RenameSetEnabled ==
  /\ RenameAt("enable")
  /\ \E ok \in BOOLEAN :
       RenameRequest(rename.new, ok, SetQueue(server, rename.new, "paused", rename.paused))
  /\ Goto(IF rename.is_default THEN "default" ELSE "delete")
RenameSetDefault ==
  /\ RenameAt("default")
  /\ \E ok \in BOOLEAN :
       RenameRequest(rename.new, ok, [server EXCEPT !.default = rename.new])
  /\ Goto("delete")
RenameDelete ==
  /\ RenameAt("delete")
  /\ \E ok \in BOOLEAN : RenameRequest(rename.old, ok, DeleteQueue(server, rename.old))
  /\ Goto("done")
RenameReopen ==
  /\ RenameAt("reopen")
  /\ \E ok \in BOOLEAN :
       RenameRequest(rename.old, ok, SetQueue(server, rename.old, "accepting", rename.accepting))
  /\ Goto("done")

\* The rest of printer_name_edit_cb.  The current index it looks up for the new name is
\* lost again in actualize_printers_list, which looks for the name in the selected row.
RenameDone ==
  /\ RenameAt("done")
  /\ rename' = NoRename
  /\ Actualized(panel, server)
  /\ UNCHANGED <<server, subscription, signals, calls, search, changes>>

Rename ==
  \/ RenameCheck \/ RenameStopAccepting \/ RenameRecheck \/ RenameAdd \/ RenameVerify
  \/ RenameSetAccepting \/ RenameSetEnabled \/ RenameSetDefault \/ RenameDelete
  \/ RenameReopen \/ RenameDone

-----------------------------------------------------------------------------
(***************************************************************************)
(* The driver: the menu with the best drivers, the dialogs that choose     *)
(* one, and the request that sets it.                                      *)
(***************************************************************************)

DriverFrame == UNCHANGED <<server, subscription, signals, missed, rename>>

\* popup_model_menu_cb; without a current printer nothing is searched for.
PopupModelMenu ==
  /\ UserActs /\ panel.model_page = "button"
  /\ LET name == CurrentName(panel)
         p == [panel EXCEPT !.popup_menu = [open |-> TRUE, printer |-> name,
                                            offers |-> FALSE, informal |-> "searching"]]
     IN IF name # NoPrinter /\ name \notin DOMAIN panel.preferred_drivers
        THEN /\ panel' = UpdateSensitivity([p EXCEPT !.getting_ppd_names = TRUE])
             /\ search' = [printer |-> name, cancelled |-> FALSE]
        ELSE /\ panel' = IF name = NoPrinter THEN p ELSE GetPpdNames(p, name, FALSE, FALSE)
             /\ UNCHANGED search
  /\ Acted /\ UNCHANGED calls /\ DriverFrame

\* get_ppd_names_async calls back when it is cancelled, too.
SearchAnswered(found) ==
  /\ Runs /\ search.printer # NoPrinter
  /\ panel' = GetPpdNames(panel, search.printer, search.cancelled, found)
  /\ search' = [printer |-> NoPrinter, cancelled |-> FALSE]
  /\ UNCHANGED <<calls, changes>> /\ DriverFrame

\* popup_menu_done: the menu is closed and the search cancelled.
Closed(p) == [p EXCEPT !.popup_menu.open = FALSE]
PopupMenuDone == search' = [search EXCEPT !.cancelled = @ \/ search.printer # NoPrinter]

CloseMenu ==
  /\ Runs /\ panel.popup_menu.open
  /\ panel' = Closed(panel) /\ PopupMenuDone
  /\ UNCHANGED <<calls, changes>> /\ DriverFrame

\* The driver is set for the printer that is current now.
SetPpd(p) ==
  LET name == CurrentName(p) IN
  /\ panel' = IF name = NoPrinter THEN p
              ELSE UpdateSensitivity([p EXCEPT !.driver_change_list = <<name>> \o @])
  /\ calls' = IF name = NoPrinter THEN calls ELSE Append(calls, name)

SetPpdFromList ==
  /\ Runs /\ panel.popup_menu.open /\ panel.popup_menu.offers
  /\ SetPpd(Closed(panel)) /\ PopupMenuDone
  /\ UNCHANGED changes /\ DriverFrame

\* select_ppd_in_dialog and select_ppd_manually open a modal dialog.
OpenChooser ==
  /\ Runs /\ panel.popup_menu.open
  /\ panel' = [Closed(panel) EXCEPT !.chooser = TRUE] /\ PopupMenuDone
  /\ UNCHANGED <<calls, changes>> /\ DriverFrame

PpdSelectionDialogResponse(ok) ==
  /\ Runs /\ panel.chooser
  /\ IF ok THEN SetPpd([panel EXCEPT !.chooser = FALSE])
     ELSE panel' = [panel EXCEPT !.chooser = FALSE] /\ UNCHANGED calls
  /\ UNCHANGED <<search, changes>> /\ DriverFrame

\* set_ppd_cb.  A new driver is not announced by the signals subscribed to.
SetPpdCallback(i, ok) ==
  /\ Runs
  /\ Answered(calls[i], ok, changes)
  /\ LET p == UpdateSensitivity([panel EXCEPT !.driver_change_list = RemoveFirst(@, calls[i])])
     IN IF ok THEN Actualized(p, server) ELSE panel' = p /\ UNCHANGED missed
  /\ calls' = RemoveAt(calls, i)
  /\ UNCHANGED <<server, subscription, signals, search, rename>>

-----------------------------------------------------------------------------
(***************************************************************************)
(* A printer is added with the dialog of pp-new-printer-dialog.c, of which *)
(* the panel sees two signals.                                             *)
(***************************************************************************)

AdditionFrame == UNCHANGED <<subscription, calls, search, rename>>

PrinterAdd ==
  /\ UserActs /\ panel.add_button
  /\ panel' = [panel EXCEPT !.adding = "search"]
  /\ Acted /\ UNCHANGED <<server, signals, missed>> /\ AdditionFrame

PreResponse(n) ==
  /\ Runs /\ panel.adding = "search" /\ ~Exists(server, n)
  /\ Actualized([panel EXCEPT !.adding = "adding", !.new_printer_name = n,
                              !.select_new_printer = TRUE], server)
  /\ UNCHANGED <<server, signals, changes>> /\ AdditionFrame

\* The dialog's requests create the queue and configure it.
AdditionCreates ==
  /\ panel.adding = "adding" /\ server.up /\ ~Exists(server, panel.new_printer_name)
  /\ LET after == AddQueue(server, panel.new_printer_name,
                           [NewQueue EXCEPT !.paused = FALSE, !.accepting = TRUE])
     IN ServerBecomes(after, PrinterSignal) /\ missed' = Unheard(after, PrinterSignal)
  /\ Opened(panel.new_printer_name)
  /\ UNCHANGED <<panel, subscription, calls, search, changes>>

\* Cancelled while it searches, or answered when the addition ended, well or not.
NewPrinterDialogResponse ==
  /\ Runs /\ panel.adding # "none"
  /\ Actualized([panel EXCEPT !.adding = "none", !.new_printer_name = NoPrinter], server)
  /\ UNCHANGED <<server, signals, changes>> /\ AdditionFrame

-----------------------------------------------------------------------------
(***************************************************************************)
(* Other clients of CUPS, users who print, and CUPS itself.                *)
(***************************************************************************)

OtherChange(after, kinds) ==
  /\ changes < MaxChanges
  /\ ServerBecomes(after, kinds) /\ missed' = Unheard(after, kinds)
  /\ changes' = changes + 1
  /\ UNCHANGED <<panel, subscription, calls, search>>

OtherAdds(n) ==
  /\ server.up /\ ~Exists(server, n)
  /\ OtherChange(AddQueue(server, n, [NewQueue EXCEPT !.paused = FALSE, !.accepting = TRUE]),
                 PrinterSignal)
  /\ Opened(n)
OtherDeletes(n) ==
  Exists(server, n) /\ OtherChange(DeleteQueue(server, n), PrinterSignal) /\ UNCHANGED rename
OtherPauses(n) ==
  /\ Exists(server, n)
  /\ OtherChange(SetQueue(server, n, "paused", ~server.queues[n].paused), PrinterSignal)
  /\ UNCHANGED rename
OtherSetsDefault(n) ==
  /\ Exists(server, n) /\ server.default # n
  /\ OtherChange([server EXCEPT !.default = n], PrinterSignal) /\ UNCHANGED rename
OtherSetsAccepting(n, accepting) ==
  /\ Exists(server, n) /\ server.queues[n].accepting # accepting
  /\ OtherChange(SetQueue(server, n, "accepting", accepting), PrinterSignal)
  /\ IF accepting THEN Opened(n) ELSE UNCHANGED rename

\* A rename has to cope with jobs that come and go.
JobsExcused == rename' = [rename EXCEPT !.since = IF rename.pc = "idle" THEN @ ELSE @ + 1]

JobCreated(n) ==
  /\ Exists(server, n) /\ server.queues[n].accepting /\ server.queues[n].jobs < MaxJobs
  /\ OtherChange([SetQueue(server, n, "jobs", server.queues[n].jobs + 1) EXCEPT !.last = n],
                 JobSignal(n))
  /\ JobsExcused
JobCompleted(n) ==
  /\ Exists(server, n) /\ ~server.queues[n].paused /\ server.queues[n].jobs > 0
  /\ OtherChange(SetQueue(server, n, "jobs", server.queues[n].jobs - 1), JobSignal(n))
  /\ JobsExcused

\* CUPS is stopped or started; no signal that the panel subscribes to tells it.
CupsStopsOrStarts ==
  OtherChange([server EXCEPT !.up = ~@], <<>>) /\ UNCHANGED rename

-----------------------------------------------------------------------------
NewPanel ==
  [loaded |-> "no", crashed |-> FALSE, is_authorized |-> TRUE,
   dests |-> <<>>, current_dest |-> -1, rows |-> <<>>, selected |-> NoRow, page |-> "INFO",
   shown |-> [name |-> NoPrinter, enabled |-> FALSE, is_default |-> FALSE], num_jobs |-> -1,
   new_printer_name |-> NoPrinter, select_new_printer |-> FALSE, adding |-> "none",
   driver_change_list |-> <<>>, getting_ppd_names |-> FALSE, preferred_drivers |-> <<>>,
   popup_menu |-> [open |-> FALSE, printer |-> NoPrinter, offers |-> FALSE, informal |-> "hidden"],
   chooser |-> FALSE, add_button |-> FALSE, remove_button |-> FALSE, editable |-> FALSE,
   default_button |-> FALSE, model_page |-> "label"]

InitialQueue(jobs) == [paused |-> FALSE, accepting |-> TRUE, jobs |-> jobs]

Init ==
  /\ \E D \in InitialSets : \E d \in D \cup {NoPrinter}, j \in 0..MaxJobs :
       server = [queues |-> [n \in D |-> InitialQueue(j)], default |-> d,
                 last |-> NoPrinter, up |-> TRUE]
  /\ panel = NewPanel
  /\ subscription = [active |-> FALSE, renewal |-> FALSE, match |-> FALSE, status_check |-> FALSE]
  /\ signals = <<>> /\ missed = FALSE /\ calls = <<>>
  /\ search = [printer |-> NoPrinter, cancelled |-> FALSE]
  /\ changes = 0
  /\ rename = NoRename

Start == PopulatePrintersList \/ AttachToCupsNotifier \/ StartStatusCheck
MainLoop ==
  \/ CupsStatusCheck \/ RenewSubscription \/ SubscriptionExpires \/ OnCupsNotification
  \/ OnPermissionChanged
  \/ \E found \in BOOLEAN : SearchAnswered(found)
  \/ \E i \in DOMAIN calls, ok \in BOOLEAN : SetPpdCallback(i, ok)
User ==
  \/ \E i \in DOMAIN panel.rows : SelectRow(i)
  \/ PrinterDisable \/ PrinterSetDefault \/ PrinterRemove \/ PrinterLocationEdit
  \/ \E n \in Printers \ Discovered : PrinterNameEdit(n)
  \/ PopupModelMenu \/ CloseMenu \/ SetPpdFromList \/ OpenChooser
  \/ \E ok \in BOOLEAN : PpdSelectionDialogResponse(ok)
Addition ==
  \/ PrinterAdd \/ AdditionCreates \/ NewPrinterDialogResponse
  \/ \E n \in Printers \ Discovered : PreResponse(n)
Others ==
  \/ \E n \in Printers :
       \/ OtherAdds(n) \/ OtherDeletes(n) \/ OtherPauses(n) \/ OtherSetsDefault(n)
       \/ \E accepting \in BOOLEAN : OtherSetsAccepting(n, accepting)
       \/ JobCreated(n) \/ JobCompleted(n)
  \/ CupsStopsOrStarts

Next == Start \/ MainLoop \/ User \/ Rename \/ Addition \/ Others
Spec == Init /\ [][Next]_vars
-----------------------------------------------------------------------------
(***************************************************************************)
(* Properties.                                                             *)
(***************************************************************************)

\* The types of the panel and of what it has asked for.
PanelTypeOK ==
  /\ DOMAIN server.queues \subseteq Printers
  /\ \A n \in DOMAIN server.queues : server.queues[n] \in Queue
  /\ server.default \in DOMAIN server.queues \cup {NoPrinter}
  /\ panel.current_dest \in -1..(Len(panel.dests) - 1)
  /\ panel.selected \in 0..Len(panel.rows)
  /\ panel.page \in {"INFO", "NO_PRINTERS", "NO_CUPS"}
  /\ panel.model_page \in {"button", "label", "changing"}
  /\ \A i \in DOMAIN calls : calls[i] \in Printers
  /\ (rename.pc = "idle") = (rename = NoRename)

\* The list shows every printer once and in order, with the one that is being added; the
\* current index, on which every button works, is the selected row's, and the details beside
\* the list are that printer's, whatever happened to the list since the user selected it.
RowsMatchDests ==
  /\ \A i, j \in DOMAIN panel.rows : i < j => panel.rows[i].name < panel.rows[j].name
  /\ \A i \in DOMAIN panel.rows : panel.rows[i].id >= 0 /\ panel.dests # <<>>
       => panel.rows[i].name = panel.dests[panel.rows[i].id + 1].name
  /\ panel.new_printer_name # NoPrinter
       => \E i \in DOMAIN panel.rows : panel.rows[i].name = panel.new_printer_name
DetailsMatchSelection ==
  /\ panel.selected = NoRow => panel.current_dest = -1 /\ panel.dests = <<>>
  /\ panel.selected # NoRow =>
       /\ panel.current_dest = panel.rows[panel.selected].id
       /\ panel.shown.name = RowName(panel) /\ panel.page = "INFO"
  /\ PrinterSelected(panel) =>
       /\ CurrentName(panel) = RowName(panel)
       /\ panel.shown.is_default = Current(panel).is_default
ButtonsActOnShown == PanelTypeOK /\ (Runs => RowsMatchDests /\ DetailsMatchSelection)

\* Once every signal is dispatched the list and the number of jobs are the server's: no
\* change that CUPS announces is lost, whichever callback was under way when it came.
ListFollowsServer ==
  (Runs /\ Heard /\ ~missed /\ signals = <<>> /\ server.up) =>
    /\ panel.dests = GetDests(server)
    /\ PrinterSelected(panel) => panel.num_jobs = JobsOf(server, CurrentName(panel))

\* The model of the selected printer can be changed unless its driver is being set or drivers
\* are searched for, and the search that the open menu waits for is under way.
ModelPageTellsRequests ==
  Runs =>
    /\ (panel.model_page = "changing") = Contains(calls, CurrentName(panel))
    /\ panel.getting_ppd_names = (search.printer # NoPrinter)
    /\ panel.model_page = "button" => search.printer = NoPrinter
    /\ (panel.popup_menu.open /\ panel.popup_menu.informal = "searching"
        /\ panel.popup_menu.printer # NoPrinter) =>
         search = [printer |-> panel.popup_menu.printer, cancelled |-> FALSE]

\* "There are queued jobs on printer": a queue with more than one job is not deleted by a
\* rename, whenever the jobs came, if the old printer was closed for jobs since CUPS counted
\* them.  While CUPS is stopped the count fails, which the code takes for no jobs.
RenameKeepsQueuedJobs ==
  [][(RenameAt("delete") /\ rename'.pc = "done" /\ rename.closed
      /\ rename.old \in DOMAIN server.queues /\ rename.old \notin DOMAIN server'.queues)
     => (server.queues[rename.old].jobs <= 1)]_vars

\* A rename that no other client disturbs and of which no request but the addition is refused,
\* with jobs coming and going, either leaves every printer as it was, open for jobs if it was,
\* or moves the printer with its settings.
Settings(s) ==
  [queues |-> [n \in DOMAIN s.queues |-> [paused |-> s.queues[n].paused,
                                          accepting |-> s.queues[n].accepting]],
   default |-> s.default]
Renamed(s) ==
  LET moved == DeleteQueue(AddQueue(s, rename.new, s.queues[rename.old]), rename.old)
  IN IF s.default = rename.old THEN [moved EXCEPT !.default = rename.new] ELSE moved
RenameAllOrNothing ==
  (/\ RenameAt("done") /\ rename.before.up /\ panel.adding # "adding"
   /\ rename.old \in DOMAIN rename.before.queues
   /\ rename.since = changes)
  => Settings(server) \in {Settings(rename.before), Settings(Renamed(rename.before))}
=============================================================================
