---------------------------- MODULE PrinterOptions ----------------------------
(***************************************************************************)
(* The dialogs of the printers panel that configure one printer: the       *)
(* options (pp-options-dialog.c, pp-ppd-option-widget.c,                   *)
(* pp-ipp-option-widget.c), the choice of a driver                         *)
(* (pp-ppd-selection-dialog.c), the test page (pp-maintenance-command.c),  *)
(* and what pp-utils.c asks CUPS for them.                                 *)
(*                                                                         *)
(* Every question has a thread of its own that reads the server and queues *)
(* its answer for the main loop.  The options dialog waits for three of    *)
(* them; a widget asks again when its option was set, one of PPD options   *)
(* twice: for the destination and for the PPD file.                        *)
(***************************************************************************)
EXTENDS Integers, Sequences, FiniteSets, SequencesExt

CONSTANTS
  IppOptions,    \* the options asked for by IPP
  PpdOptions,    \* the options of the PPD file
  ChoicesOf,       \* the choices of each option
  Groups,        \* the group of each PPD option
  GroupTab,      \* the tab of the groups on a white list
  KeywordTab,    \* the tab of the options on a white list
  Blacklist,     \* PPD options that are shown by IPP
  Drivers,       \* what CUPS tells of its drivers, in order
  Normal,        \* the normalized name of a manufacturer: its place in the alphabet
  Known,         \* the display names of the manufacturers that are known
  Manufacturers, \* that of the printer, in various spellings
  CommandLists,      \* the commands a printer may have
  MaxActions, MaxChanges

VARIABLES
  panel,   \* the options dialog, its widgets and the driver dialog
  calls,   \* the requests to cups-pk-helper and the threads
  world    \* what CUPS keeps, and the counters

vars == <<panel, calls, world>>

None == "none"
Options == IppOptions \cup PpdOptions
Tabs == <<"General", "Page Setup", "Installable Options", "Job", "Image Quality", "Color", "Finishing", "Advanced">>

-----------------------------------------------------------------------------
(***************************************************************************)
(* What CUPS is asked.  A thread reads, and its answer comes some time     *)
(* later; nothing orders the answers of two threads.                       *)
(***************************************************************************)
Thread(kind, for) == [kind |-> kind, for |-> for, read |-> FALSE, value |-> <<>>]
Told(w, kind) ==
  CASE kind = "ppd"  -> <<w.ppd>>
    [] kind = "dest" -> <<w.dest>>
    [] kind = "ipp"  -> <<w.ipp>>
    [] OTHER         -> <<>>
ThreadReads(i, ok) ==
  /\ i \in DOMAIN calls /\ calls[i].kind \in {"ppd", "dest", "ipp"} /\ ~calls[i].read
  /\ calls' = [calls EXCEPT ![i].read = TRUE, ![i].value = IF ok THEN Told(world, calls[i].kind) ELSE <<>>]
  /\ UNCHANGED <<panel, world>>

Marked(ppd, dest, o) == IF dest[o] # None THEN dest[o] ELSE ppd[o]

-----------------------------------------------------------------------------
(***************************************************************************)
(* The widget of an option.  It remembers that each half was there once,   *)
(* and frees the PPD file when it has used it.                             *)
(***************************************************************************)
Trivial(o) == Len(ChoicesOf[o]) <= 1
NewWidget(o, v) == [value |-> v, have |-> {}, ppd |-> <<>>, dest |-> <<>>]
UpdateIpp(a, o, table) ==
  [a EXCEPT !.value = IF table # <<>> /\ table[1][o] # None THEN table[1][o] ELSE ChoicesOf[o][1]]
UpdatePpd(a, o) ==
  IF a.ppd = <<>> THEN a ELSE [a EXCEPT !.value = Marked(a.ppd[1], a.dest[1], o), !.ppd = <<>>]
Half(kind) == IF kind = "ppd" THEN "dest" ELSE "ppd"
WidgetTold(a, o, kind, value) ==
  IF kind = "ipp" THEN UpdateIpp(a, o, value)
  ELSE LET b == [a EXCEPT ![kind] = value, !.have = @ \cup {kind}]
       IN IF Half(kind) \in a.have THEN UpdatePpd(b, o) ELSE b
Asks(o) == IF o \in IppOptions THEN <<Thread("ipp", o)>> ELSE <<Thread("dest", o), Thread("ppd", o)>>

-----------------------------------------------------------------------------
(***************************************************************************)
(* The options dialog.                                                     *)
(***************************************************************************)
TabOf(o) ==
  IF o \in IppOptions THEN "Page Setup"
  ELSE IF Groups[o] \in DOMAIN GroupTab THEN GroupTab[Groups[o]]
  ELSE IF o \in DOMAIN KeywordTab THEN KeywordTab[o] ELSE "Advanced"
NoDialog == [state |-> None, tabs |-> <<>>, page |-> 0, widgets |-> [o \in {} |-> 0], response |-> FALSE,
             have |-> {}, ppd |-> <<>>, dest |-> <<>>, ipp |-> <<>>]
\* Only when the dialog is full the panel may free it.
FreeDialog(d) == NoDialog
PopulateOptionsReal(d) ==
  LET ipp == IF d.ipp = <<>> THEN {} ELSE {o \in IppOptions : ~Trivial(o)}
      ppd == IF d.ppd = <<>> \/ d.dest = <<>> THEN {} ELSE {o \in PpdOptions \ Blacklist : ~Trivial(o)}
      shown == [o \in ipp \cup ppd |-> IF o \in ipp THEN UpdateIpp(NewWidget(o, None), o, d.ipp)
                                       ELSE NewWidget(o, Marked(d.ppd[1], d.dest[1], o))]
      tabs == SelectSeq(Tabs, LAMBDA t : \E o \in DOMAIN shown : TabOf(o) = t)
      full == [NoDialog EXCEPT !.state = "full", !.widgets = shown, !.tabs = tabs, !.page = IF tabs = <<>> THEN 0 ELSE 1]
  IN IF d.response THEN FreeDialog(full) ELSE full
DialogTold(d, kind, value) ==
  LET e == [d EXCEPT !.have = @ \cup {kind}, ![kind] = value]
  IN IF e.have = {"ppd", "dest", "ipp"} THEN PopulateOptionsReal(e) ELSE e

Acts == world.acts < MaxActions /\ world' = [world EXCEPT !.acts = @ + 1]
OptionsClicked ==
  /\ panel.dlg.state = None /\ panel.sel.state = None /\ Acts
  /\ panel' = [panel EXCEPT !.dlg = [NoDialog EXCEPT !.state = "filling"]]
  /\ calls' = calls \o <<Thread("ppd", "dialog"), Thread("dest", "dialog"), Thread("ipp", "dialog")>>
CategorySelected(k) ==
  /\ panel.dlg.state = "full" /\ k \in DOMAIN panel.dlg.tabs /\ k # panel.dlg.page /\ Acts
  /\ panel' = [panel EXCEPT !.dlg.page = k] /\ UNCHANGED calls

\* Mutant: the dialog is freed while its answers are awaited.
ResponseAtOnce ==
  /\ panel.dlg.state # None /\ ~panel.dlg.response
  /\ panel' = [panel EXCEPT !.dlg = FreeDialog(@)]
  /\ UNCHANGED <<calls, world>>

\* A dialog that is closed while it fills is hidden, and freed when it is full.
OptionsDialogResponse ==
  /\ panel.dlg.state # None /\ ~panel.dlg.response
  /\ panel' = [panel EXCEPT !.dlg = IF panel.dlg.state = "filling" THEN [@ EXCEPT !.response = TRUE] ELSE FreeDialog(@)]
  /\ UNCHANGED <<calls, world>>
AddOption(o, v) == Append(calls, [Thread("add", o) EXCEPT !.value = <<v>>])
ChoiceMade(o, v) ==
  /\ o \in DOMAIN panel.dlg.widgets /\ panel.dlg.tabs[panel.dlg.page] = TabOf(o) /\ world.authorized
  /\ v \in ToSet(ChoicesOf[o]) \ {panel.dlg.widgets[o].value} /\ Acts
  /\ panel' = [panel EXCEPT !.dlg.widgets[o].value = v]
  /\ calls' = AddOption(o, v)

Is(i, kind) == i \in DOMAIN calls /\ calls[i].kind = kind
First(i) == \A j \in 1..i - 1 : calls[j].kind # calls[i].kind
AddsOption(w, o, v) == IF o \in IppOptions THEN [w EXCEPT !.ipp[o] = v] ELSE [w EXCEPT !.ppd[o] = v]
\* The widget asks again whether the option was set or not.
PrinterAddOptionDone(i, ok) ==
  /\ Is(i, "add") /\ First(i)
  /\ LET o == calls[i].for
     IN /\ world' = IF ok THEN AddsOption(world, o, calls[i].value[1]) ELSE world
        /\ IF o \in DOMAIN panel.dlg.widgets
           THEN calls' = RemoveAt(calls, i) \o Asks(o) /\ UNCHANGED panel
           ELSE calls' = RemoveAt(calls, i) /\ panel' = [panel EXCEPT !.undefined = TRUE]
\* What the program does with memory that is not there is not followed: the widgets of a dialog that
\* was freed are told, too, for nothing cancels their questions, and a destination may be gone.
Lost(a, kind, value) ==
  /\ kind # "ipp" /\ Half(kind) \in a.have
  /\ (IF kind = "ppd" THEN value ELSE a.ppd) # <<>>
  /\ (IF kind = "dest" THEN value ELSE a.dest) = <<>>
Answered(i) ==
  /\ i \in DOMAIN calls /\ calls[i].read
  /\ calls' = RemoveAt(calls, i) /\ UNCHANGED world
  /\ LET c == calls[i]
         shown == c.for \in DOMAIN panel.dlg.widgets
     IN panel' = IF c.for = "dialog" THEN [panel EXCEPT !.dlg = DialogTold(@, c.kind, c.value)]
                 ELSE IF shown /\ ~Lost(panel.dlg.widgets[c.for], c.kind, c.value)
                 THEN [panel EXCEPT !.dlg.widgets[c.for] = WidgetTold(@, c.for, c.kind, c.value)]
                 ELSE [panel EXCEPT !.undefined = TRUE]

-----------------------------------------------------------------------------
(***************************************************************************)
(* All drivers, by manufacturer: the spellings of a manufacturer that are  *)
(* known, and those that differ in case or punctuation, are one.           *)
(***************************************************************************)
\* What is looked at first: the device id, then the make.
Maker(d) == IF d.device # None THEN d.device ELSE d.make
Complete(d) == d.name # None /\ Maker(d) # None /\ d.model # None
StandardName(m) == IF Normal[m] \in DOMAIN Known THEN Known[Normal[m]] ELSE None
AddDriver(s, d) ==
  LET n == Normal[Maker(d)]
      found == n \in DOMAIN s.names
      names == IF found THEN s.names ELSE [x \in DOMAIN s.names \cup {n} |-> IF x = n THEN Maker(d) ELSE s.names[x]]
      key == IF found THEN Normal[s.names[n]] ELSE n
      old == IF key \in DOMAIN s.ppds THEN s.ppds[key] ELSE <<>>
  IN IF ~Complete(d) THEN s
     ELSE [names |-> names, ppds |-> [x \in DOMAIN s.ppds \cup {key} |-> IF x = key THEN Append(old, d.name) ELSE s.ppds[x]]]
GetAllPpds(drivers) ==
  LET s == FoldLeft(AddDriver, [names |-> Known, ppds |-> [x \in {} |-> <<>>]], drivers)
  IN [k \in 1..Cardinality(DOMAIN s.ppds) |->
        LET n == CHOOSE x \in DOMAIN s.ppds : Cardinality({y \in DOMAIN s.ppds : y < x}) = k - 1
        IN [name |-> n, display |-> s.names[n], ppds |-> s.ppds[n]]]

-----------------------------------------------------------------------------
(***************************************************************************)
(* The driver dialog.  The models are those of the manufacturer selected.  *)
(***************************************************************************)
NoSelection == [state |-> None, maker |-> None, list |-> <<>>, row |-> 0, models |-> <<>>, model |-> 0, ok |-> FALSE]
ManufacturerSelected(s, k) ==
  [s EXCEPT !.row = k, !.models = IF k = 0 THEN @ ELSE s.list[k].ppds, !.model = IF k = 0 THEN @ ELSE 0, !.ok = IF k = 0 THEN @ ELSE FALSE]
FillPpdsList(s) ==
  LET mine == {k \in DOMAIN s.list : s.list[k].display = s.maker}
  IN ManufacturerSelected([s EXCEPT !.row = 0], IF mine = {} THEN 0 ELSE CHOOSE k \in mine : TRUE)
SelectPpdInDialog(m) ==
  /\ panel.sel.state = None /\ panel.dlg.state = None /\ Acts
  /\ LET s == [NoSelection EXCEPT !.state = "open", !.maker = StandardName(m), !.list = panel.all]
     IN panel' = [panel EXCEPT !.sel = FillPpdsList(s), !.chosen = None]
  /\ UNCHANGED calls
RowSelected(k) ==
  /\ k \in DOMAIN panel.sel.list /\ k # panel.sel.row /\ Acts
  /\ panel' = [panel EXCEPT !.sel = ManufacturerSelected(@, k)] /\ UNCHANGED calls
ModelSelected(k) ==
  /\ k \in DOMAIN panel.sel.models /\ k # panel.sel.model /\ Acts
  /\ panel' = [panel EXCEPT !.sel.model = k, !.sel.ok = TRUE] /\ UNCHANGED calls
PpdSelectionResponse(ok) ==
  /\ panel.sel.state = "open" /\ (ok => panel.sel.ok)
  /\ panel' = [panel EXCEPT !.sel = NoSelection,
                 !.chosen = IF ok /\ panel.sel.model # 0 THEN panel.sel.models[panel.sel.model] ELSE None]
  /\ UNCHANGED <<calls, world>>
GetAllPpdsDone(i, ok) ==
  /\ Is(i, "drivers")
  /\ calls' = RemoveAt(calls, i) /\ UNCHANGED world
  /\ LET list == IF ok THEN GetAllPpds(Drivers) ELSE <<>>
     IN panel' = [panel EXCEPT !.all = list,
                    !.sel = IF @.state = None THEN @
                            ELSE IF ok THEN FillPpdsList([@ EXCEPT !.list = list]) ELSE [@ EXCEPT !.list = list]]

-----------------------------------------------------------------------------
(***************************************************************************)
(* The test page: a file where there is one, else a command.  Only the     *)
(* first of the commands the printer tells is looked at.                   *)
(***************************************************************************)
TestPage(file) ==
  /\ panel.dlg.state = None /\ panel.sel.state = None /\ Acts
  /\ UNCHANGED panel
  /\ calls' = IF file THEN calls ELSE Append(calls, Thread("command", "PrintSelfTestPage"))
MaintenanceCommandDone(i, response, printed) ==
  /\ Is(i, "command")
  /\ calls' = RemoveAt(calls, i)
  /\ LET sent == response /\ world.commands # <<>> /\ world.commands[1] = calls[i].for
         success == \/ sent /\ printed
                    \/ ~sent /\ response
     IN panel' = [panel EXCEPT !.test = IF ~success THEN "failed" ELSE IF sent THEN "printed" ELSE "unsupported"]
  /\ UNCHANGED world

-----------------------------------------------------------------------------
OtherPrograms ==
  /\ world.changes < MaxChanges
  /\ \/ \E o \in Options, v \in UNION {ToSet(ChoicesOf[x]) : x \in Options} :
          v \in ToSet(ChoicesOf[o]) /\ world' = [AddsOption(world, o, v) EXCEPT !.changes = @ + 1]
     \/ \E o \in PpdOptions : \E v \in ToSet(ChoicesOf[o]) \cup {None} : world' = [world EXCEPT !.dest[o] = v, !.changes = @ + 1]
  /\ UNCHANGED <<panel, calls>>

Init ==
  /\ \E auth \in BOOLEAN, c \in CommandLists :
       world = [ppd |-> [o \in PpdOptions |-> ChoicesOf[o][1]], dest |-> [o \in PpdOptions |-> None],
                ipp |-> [o \in IppOptions |-> ChoicesOf[o][1]], authorized |-> auth, commands |-> c, acts |-> 0, changes |-> 0]
  /\ panel = [dlg |-> NoDialog, sel |-> NoSelection, all |-> <<>>, chosen |-> None, test |-> None, undefined |-> FALSE]
  /\ calls = <<Thread("drivers", "panel")>>

Answers ==
  \E i \in DOMAIN calls :
    \/ Answered(i)
    \/ \E ok \in BOOLEAN : ThreadReads(i, ok) \/ PrinterAddOptionDone(i, ok) \/ GetAllPpdsDone(i, ok)
    \/ \E ok, printed \in BOOLEAN : MaintenanceCommandDone(i, ok, printed)
Next ==
  \/ Answers \/ OtherPrograms
  \/ OptionsClicked \/ OptionsDialogResponse
  \/ \E k \in 1..Len(Tabs) : CategorySelected(k) \/ RowSelected(k) \/ ModelSelected(k)
  \/ \E o \in Options : \E v \in ToSet(ChoicesOf[o]) : ChoiceMade(o, v)
  \/ \E m \in Manufacturers : SelectPpdInDialog(m)
  \/ \E ok \in BOOLEAN : PpdSelectionResponse(ok) \/ TestPage(ok)

-----------------------------------------------------------------------------
(***************************************************************************)
(* What the dialogs keep to.                                               *)
(***************************************************************************)
\* Once the dialog is filled no answer about it is under way: one that is closed was cancelled.
NoLateAnswers == panel.dlg.state # "filling" => \A i \in DOMAIN calls : calls[i].for # "dialog"
\* A driver is chosen among the models of the selected manufacturer.
ModelOfTheMaker ==
  (panel.sel.state = "open" /\ panel.sel.model # 0)
    => (panel.sel.ok /\ panel.sel.row # 0 /\ panel.sel.models = panel.sel.list[panel.sel.row].ppds)
\* Each driver that says what it is for is listed once, under one manufacturer.
DriversListedOnce ==
  panel.all # <<>> => \A j \in DOMAIN Drivers : Complete(Drivers[j]) =>
    Cardinality({at \in (DOMAIN panel.all) \X (DOMAIN Drivers) :
                   LET ppds == panel.all[at[1]].ppds IN at[2] \in DOMAIN ppds /\ ppds[at[2]] = Drivers[j].name}) = 1
\* The manufacturers are sorted, and no two rows look the same.
MakersAreDistinct ==
  \A j, k \in DOMAIN panel.all : j < k => (panel.all[j].name < panel.all[k].name /\ panel.all[j].display # panel.all[k].display)
=============================================================================
