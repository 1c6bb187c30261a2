----------------------------- MODULE RegionInput -----------------------------
(***************************************************************************)
(* The keyboard layouts page of the region panel                           *)
(* (gnome-region-panel-input.c), its entries for shortcuts                 *)
(* (gtkentryaccel.c) and the copy of the keyboard panel's tables           *)
(* (region/keyboard-shortcuts.c, cc-region-keyboard-item.c).               *)
(*                                                                         *)
(* The list mirrors the setting "sources"; every edit writes the whole     *)
(* list back, and the setting then fills the list anew.  Sources of IBus   *)
(* are hidden until the engines have been listed, those that nothing knows *)
(* are left out.                                                           *)
(***************************************************************************)
EXTENDS Integers, Sequences, FiniteSets, SequencesExt

CONSTANTS
  Layouts,     \* the layouts XKB knows
  Engines,     \* the engines IBus will list
  Strange,     \* sources of a type or a layout that is not known
  Combos,      \* the combinations the user may press
  Plain,       \* those that would make it impossible to type
  Starts,      \* the sources there may be at first
  UseIBus,     \* GTK_IM_MODULE is ibus
  MaxActions, MaxChanges

VARIABLES
  panel,   \* the list, its buttons, the chooser, the radio buttons and the entries
  calls,   \* what has been asked of IBus, and the signals that have not arrived
  world    \* the settings and the counters

vars == <<panel, calls, world>>

None == "none"
Entries == {"prev", "next"}
Items == Entries \cup {"other"}
NoQuestion == [item |-> None, conflict |-> None, key |-> None, freed |-> FALSE]
Closed == [open |-> FALSE, list |-> {}, sel |-> None]

-----------------------------------------------------------------------------
(***************************************************************************)
(* The list.                                                               *)
(***************************************************************************)
Named(p, id) == id \in Layouts \cup p.engines
PopulateWithActiveSources(p, w) ==
  LET known == SelectSeq(w.sources, LAMBDA id : id \notin Strange)
  IN [p EXCEPT !.rows = [i \in DOMAIN known |-> [id |-> known[i], named |-> Named(p, known[i])]]]
VisibleRows(rows) == {i \in DOMAIN rows : rows[i].named}
\* The place of a row among those that are visible, and back (0: none).
PathOf(rows, i) == Cardinality({j \in VisibleRows(rows) : j <= i})
RowAt(rows, path) ==
  IF path \in 1..Cardinality(VisibleRows(rows))
  THEN CHOOSE i \in VisibleRows(rows) : PathOf(rows, i) = path ELSE 0
\* Mutant: the last source can be removed.
ButtonsWithoutCount(p) ==
  LET n == Cardinality(VisibleRows(p.rows))
      index == IF p.sel = 0 THEN 0 ELSE PathOf(p.rows, p.sel)
  IN [p EXCEPT !.buttons = [remove |-> index > 0, show |-> index > 0, up |-> index > 1,
                            down |-> index > 0 /\ index < n,
                            settings |-> index > 0 /\ p.rows[p.sel].id \in Engines]]

UpdateButtonSensitivity(p) ==
  LET n == Cardinality(VisibleRows(p.rows))
      index == IF p.sel = 0 THEN 0 ELSE PathOf(p.rows, p.sel)
  IN [p EXCEPT !.buttons = [remove |-> index > 0 /\ n > 1, show |-> index > 0, up |-> index > 1,
                            down |-> index > 0 /\ index < n,
                            settings |-> index > 0 /\ p.rows[p.sel].id \in Engines]]
SelectPath(p, path) == UpdateButtonSensitivity([p EXCEPT !.sel = RowAt(p.rows, path)])
InputSourcesChanged(p, w) ==
  LET path == IF p.sel = 0 THEN 0 ELSE PathOf(p.rows, p.sel)
  IN SelectPath(PopulateWithActiveSources([p EXCEPT !.sel = 0], w), path)

\* The whole list is written; the number of the current source follows it to its new place.
UpdateConfiguration(p, w) ==
  LET ids == [i \in DOMAIN p.rows |-> p.rows[i].id]
      old == IF w.current \in DOMAIN w.sources THEN w.sources[w.current] ELSE None
      others == {i \in DOMAIN ids : ids[i] = old /\ i # w.current}
      last == CHOOSE i \in others : \A j \in others : j <= i
      new == [w EXCEPT !.sources = ids, !.current = IF others = {} THEN @ ELSE last]
  IN [p |-> InputSourcesChanged(p, new), w |-> new]

-----------------------------------------------------------------------------
(***************************************************************************)
(* The radio buttons.  s is [p |-> panel, w |-> world].                    *)
(***************************************************************************)
SourceRadioToggled(s) ==
  [p |-> [s.p EXCEPT !.sens = s.p.per],
   w |-> [s.w EXCEPT !.per = s.p.per, !.def = s.p.def]]
UpdateSourceRadios(s) ==
  LET per == s.w.per
      def == s.w.def
      a == [s EXCEPT !.p.sens = per]
      b == IF a.p.per # per THEN SourceRadioToggled([a EXCEPT !.p.per = per]) ELSE a
  IN IF b.p.def # def THEN SourceRadioToggled([b EXCEPT !.p.def = def]) ELSE b

-----------------------------------------------------------------------------
(***************************************************************************)
(* The shortcuts.                                                          *)
(***************************************************************************)
\* The setting tells the item and, for the two keys of the page, the entry.
ItemTold(p, i, k) == [p EXCEPT !.items[i] = k, !.accel = [e \in Entries |-> IF e = i THEN k ELSE @[e]]]
SetBinding(s, i, k) == [p |-> ItemTold(s.p, i, k), w |-> [s.w EXCEPT !.bind[i] = k]]
CompareKeys(p, item, k) == {i \in Items \ {item} : p.items[i] = k}
ReloadSections(p, w) == [p EXCEPT !.items = w.bind, !.ask.freed = (p.ask.item # None)]

-----------------------------------------------------------------------------
(***************************************************************************)
(* What the user does.                                                     *)
(***************************************************************************)
UserMakes(w) == w.acts < MaxActions /\ world' = [w EXCEPT !.acts = @ + 1]
Idle == ~panel.chooser.open /\ panel.ask.item = None
\* Any button of the mouse or key but the one that ends it is kept from the rest of the page.
Free == Idle /\ panel.grab = None
Does(s) == panel' = s.p /\ UserMakes(s.w) /\ UNCHANGED calls

SelectSource(path) ==
  /\ Free /\ path \in 1..Cardinality(VisibleRows(panel.rows))
  /\ Does([p |-> SelectPath(panel, path), w |-> world])

RemoveSelectedInput ==
  /\ Free /\ panel.buttons.remove
  /\ LET path == PathOf(panel.rows, panel.sel)
         rows == RemoveAt(panel.rows, panel.sel)
         there == IF RowAt(rows, path) = 0 THEN path - 1 ELSE path
     IN Does(UpdateConfiguration(SelectPath([panel EXCEPT !.rows = rows], there), world))

\* The row changes places with the next one that is visible.
MoveSelectedInput(step) ==
  /\ Free /\ IF step = -1 THEN panel.buttons.up ELSE panel.buttons.down
  /\ LET path == PathOf(panel.rows, panel.sel) + step
         other == RowAt(panel.rows, path)
         rows == [panel.rows EXCEPT ![panel.sel] = panel.rows[other], ![other] = panel.rows[panel.sel]]
     IN /\ other # 0
        /\ Does(UpdateConfiguration(SelectPath([panel EXCEPT !.rows = rows], path), world))

PopulateModel(p) == (Layouts \cup p.engines) \ {p.rows[i].id : i \in DOMAIN p.rows}
\* What is shown of the chooser's list; the pattern outlives the chooser it was typed in.
Shown(p) == p.chooser.list \cap p.pattern
SelectFirst(p) ==
  IF p.chooser.sel \in Shown(p) THEN {p}
  ELSE {[p EXCEPT !.chooser.sel = id] : id \in IF Shown(p) = {} THEN {None} ELSE Shown(p)}
AddInput ==
  /\ Free
  /\ \E p \in SelectFirst([panel EXCEPT !.chooser = [open |-> TRUE, list |-> PopulateModel(panel), sel |-> None]]) :
       Does([p |-> p, w |-> world])
FilterChanged(matches) ==
  /\ panel.chooser.open /\ matches # panel.pattern
  /\ \E p \in SelectFirst([panel EXCEPT !.pattern = matches]) : Does([p |-> p, w |-> world])
SelectChoice(id) ==
  /\ panel.chooser.open /\ id \in Shown(panel) \ {panel.chooser.sel}
  /\ Does([p |-> [panel EXCEPT !.chooser.sel = id], w |-> world])
ChooserResponse(ok) ==
  /\ panel.chooser.open
  /\ ok => panel.chooser.sel # None
  /\ LET p == [panel EXCEPT !.chooser = Closed]
         rows == Append(p.rows, [id |-> panel.chooser.sel, named |-> TRUE])
         added == UpdateButtonSensitivity([p EXCEPT !.rows = rows, !.sel = Len(rows)])
         s == IF ok THEN UpdateConfiguration(added, world) ELSE [p |-> p, w |-> world]
     IN panel' = s.p /\ world' = s.w
  /\ UNCHANGED calls

RadioClicked(per, def) ==
  /\ Free /\ <<per, def>> # <<panel.per, panel.def>>
  /\ \/ per = panel.per /\ panel.sens
     \/ def = panel.def
  /\ Does(SourceRadioToggled([p |-> [panel EXCEPT !.per = per, !.def = def], w |-> world]))

\* The entry takes the keyboard, and gives it back when a key is released.
GrabInput(e) ==
  /\ Free
  /\ Does([p |-> [panel EXCEPT !.grab = e], w |-> world])
KeyReleased(k) ==
  /\ panel.grab # None
  /\ LET item == panel.grab
         s == [p |-> [panel EXCEPT !.grab = None], w |-> world]
     IN \/ /\ k = None
           /\ panel' = s.p /\ world' = s.w
        \/ /\ k = ""
           /\ LET t == SetBinding(s, item, k) IN panel' = t.p /\ world' = t.w
        \/ /\ k \in Plain
           /\ panel' = s.p /\ world' = s.w
        \/ /\ k \in Combos \ Plain /\ CompareKeys(panel, item, k) # {}
           /\ \E c \in CompareKeys(panel, item, k) :
                panel' = [s.p EXCEPT !.ask = [item |-> item, conflict |-> c, key |-> k, freed |-> FALSE]]
           /\ UNCHANGED world
        \/ /\ k \in Combos \ Plain /\ CompareKeys(panel, item, k) = {}
           /\ LET t == SetBinding(s, item, k) IN panel' = t.p /\ world' = t.w
  /\ UNCHANGED calls
Reassign ==
  /\ panel.ask.item # None
  /\ LET s == [p |-> [panel EXCEPT !.ask = NoQuestion], w |-> world]
         cleared == IF panel.ask.freed THEN s ELSE SetBinding(s, panel.ask.conflict, "")
         t == SetBinding(cleared, panel.ask.item, panel.ask.key)
     IN panel' = t.p /\ world' = t.w
  /\ UNCHANGED calls
KeepConflict ==
  /\ panel.ask.item # None
  /\ panel' = [panel EXCEPT !.ask = NoQuestion]
  /\ UNCHANGED <<calls, world>>

-----------------------------------------------------------------------------
(***************************************************************************)
(* IBus and the settings.                                                  *)
(***************************************************************************)
IBusConnected ==
  /\ "ibus" \in calls
  /\ calls' = (calls \ {"ibus"}) \cup {"engines"}
  /\ LET s == UpdateSourceRadios([p |-> panel, w |-> world]) IN panel' = s.p /\ world' = s.w
FetchIBusEnginesResult(ok) ==
  /\ "engines" \in calls
  /\ calls' = calls \ {"engines"}
  /\ LET p == [panel EXCEPT !.engines = Engines]
         rows == [i \in DOMAIN p.rows |-> [p.rows[i] EXCEPT !.named = Named(p, p.rows[i].id)]]
         chooser == [p.chooser EXCEPT !.list = PopulateModel(p), !.sel = None]
     IN panel' = IF ok THEN [p EXCEPT !.rows = rows, !.chooser = IF @.open THEN chooser ELSE @] ELSE panel
  /\ UNCHANGED world

OthersMake(w) == w.changes < MaxChanges /\ world' = [w EXCEPT !.changes = @ + 1]
SettingChanges ==
  \/ /\ \/ \E id \in Layouts \cup Engines \cup Strange :
             id \notin ToSet(world.sources) /\ OthersMake([world EXCEPT !.sources = Append(@, id)])
        \/ Len(world.sources) > 1 /\ OthersMake([world EXCEPT !.sources = Tail(@)])
     /\ calls' = calls \cup {"sources"}
  \/ /\ \E per, def \in BOOLEAN : OthersMake([world EXCEPT !.per = per, !.def = def])
     /\ calls' = calls \cup {"kbd"}
  \/ \E i \in Items, k \in Combos :
       OthersMake([world EXCEPT !.bind[i] = k]) /\ calls' = calls \cup {i}
OtherPrograms == SettingChanges /\ UNCHANGED panel

SourcesTold ==
  /\ "sources" \in calls
  /\ calls' = calls \ {"sources"}
  /\ panel' = InputSourcesChanged(panel, world)
  /\ UNCHANGED world
LibgnomekbdSettingsChanged ==
  /\ "kbd" \in calls
  /\ calls' = calls \ {"kbd"}
  /\ LET s == UpdateSourceRadios([p |-> panel, w |-> world]) IN panel' = s.p /\ world' = s.w
BindingChanged(i) ==
  /\ i \in calls
  /\ calls' = calls \ {i}
  /\ panel' = ItemTold(panel, i, world.bind[i])
  /\ UNCHANGED world
WindowManagerChange ==
  /\ panel' = ReloadSections(panel, world)
  /\ OthersMake(world) /\ UNCHANGED calls

-----------------------------------------------------------------------------
Init ==
  \E sources \in Starts, current \in 1..2 :
    LET w == [sources |-> sources, current |-> current, per |-> FALSE, def |-> TRUE,
              bind |-> [i \in Items |-> CASE i = "prev" -> "p" [] i = "next" -> "n" [] OTHER -> "o"],
              acts |-> 0, changes |-> 0]
        p == [rows |-> <<>>, sel |-> 0, engines |-> {}, chooser |-> Closed, pattern |-> Layouts \cup Engines,
              buttons |-> [remove |-> FALSE, show |-> FALSE, up |-> FALSE, down |-> FALSE, settings |-> FALSE],
              per |-> w.per, def |-> w.def, sens |-> w.per, grab |-> None, ask |-> NoQuestion,
              items |-> w.bind, accel |-> [e \in Entries |-> w.bind[e]]]
    IN world = w /\ panel = PopulateWithActiveSources(p, w) /\ calls = IF UseIBus THEN {"ibus"} ELSE {}

Answers ==
  \/ IBusConnected \/ SourcesTold \/ LibgnomekbdSettingsChanged
  \/ \E ok \in BOOLEAN : FetchIBusEnginesResult(ok)
  \/ \E i \in Items : BindingChanged(i)
Next ==
  \/ \E path \in 1..Len(panel.rows) : SelectSource(path)
  \/ RemoveSelectedInput \/ AddInput \/ Reassign \/ KeepConflict
  \/ \E step \in {-1, 1} : MoveSelectedInput(step)
  \/ \E m \in SUBSET (Layouts \cup Engines) : FilterChanged(m)
  \/ \E id \in Layouts \cup Engines : SelectChoice(id)
  \/ \E ok \in BOOLEAN : ChooserResponse(ok)
  \/ \E per, def \in BOOLEAN : RadioClicked(per, def)
  \/ \E e \in Entries : GrabInput(e)
  \/ \E k \in Combos \cup {None, ""} : KeyReleased(k)
  \/ Answers \/ OtherPrograms \/ WindowManagerChange

-----------------------------------------------------------------------------
(***************************************************************************)
(* What the list keeps to.                                                 *)
(***************************************************************************)
\* When the signal has arrived the rows are the sources of a known type, in their order.
RowsAreTheSources ==
  "sources" \notin calls => [i \in DOMAIN panel.rows |-> panel.rows[i].id] = SelectSeq(world.sources, LAMBDA id : id \notin Strange)
\* A visible source is left after removing one.
OneSourceStays == panel.buttons.remove => Cardinality(VisibleRows(panel.rows)) > 1
\* The radio buttons are what libgnomekbd has been told; the second pair is usable with the first.
RadiosFollowKbd == "kbd" \notin calls => (panel.per = world.per /\ panel.def = world.def /\ panel.sens = panel.per)
\* Without help from another program no two settings have the same keys.
KeysAreDistinct ==
  world.changes = 0 => \A i, j \in Items : (i # j /\ world.bind[i] = world.bind[j]) => world.bind[i] \in {"", None}
\* Moving the selected source keeps the source in use in use, unless its row is missing.
Current(w) == IF w.current \in DOMAIN w.sources THEN w.sources[w.current] ELSE None
MoveKeepsCurrent ==
  (\E step \in {-1, 1} : MoveSelectedInput(step))
    => (Current(world) \in {panel.rows[i].id : i \in DOMAIN panel.rows} => Current(world') = Current(world))
=============================================================================
