-------------------------- MODULE KeyboardShortcuts --------------------------
(***************************************************************************)
(* The shortcuts page of the keyboard panel (keyboard-shortcuts.c), its    *)
(* items (cc-keyboard-item.c) and the XKB options (cc-keyboard-option.c).  *)
(*                                                                         *)
(* An item caches the binding that a key of the settings holds.  The       *)
(* settings tell of changes; those made by other programs are told later   *)
(* than they can be read.  The page looks for conflicts among the items    *)
(* of its tables, which are all replaced when the window manager changes,  *)
(* even while a modal dialog of the page waits.                            *)
(***************************************************************************)
EXTENDS Integers, Sequences, FiniteSets, SequencesExt

CONSTANTS
  Ranked,      \* the sections in the order of the list, "Custom" the last
  Group,       \* the group of each: 1 system, 2 applications, 3 user
  Manager,     \* the window manager the keys of a section are for, or AnyManager
  Managers,    \* the window managers
  Entries,     \* the keys each section lists
  Paths,       \* the paths that custom shortcuts may have, in order
  Hashed,      \* the sections in the order a hash table has them
  Bound,       \* what the keys hold at first: the first of a list of bindings is the one shown
  Bindings,    \* the combinations the user may press
  Plain,       \* those that would make it impossible to type
  Tap,         \* the tap of the Alt key, one of them
  Whitelist,   \* the values of each XKB option
  FirstXkb,    \* the options that may be set at first
  Commands,    \* what the user types as a command
  Locked,      \* the keys the administrator made read-only
  MaxActions, MaxChanges

VARIABLES
  panel,   \* the tables, the rows, the dialogs and the cached options
  calls,   \* the signals of the settings that have not arrived
  world    \* the settings, the window manager and the counters

vars == <<panel, calls, world>>

AnyManager == "any"
None == "none"
Custom == "Custom"
Typing == "Typing"
Disabled == ""
Stored(k) == IF k = Tap THEN "<Alt_L>" ELSE k
Fixed == UNION {ToSet(Entries[s]) : s \in ToSet(Ranked) \ {Custom}}
Items == Fixed \cup ToSet(Paths)
Options == DOMAIN Whitelist
NoQuestion == [item |-> None, conflict |-> None, key |-> Disabled, freed |-> FALSE]
NoEdit == [kind |-> None, path |-> None, freed |-> FALSE]

-----------------------------------------------------------------------------
(***************************************************************************)
(* The tables and the rows.                                                *)
(***************************************************************************)
\* Only one key is compared, the first of a section of the group that has any, and never one
\* with a path.
HaveKeyForGroup(t, g, key) ==
  LET filled == SelectSeq(Hashed, LAMBDA s : s \in DOMAIN t /\ Group[s] = g /\ t[s] # <<>>)
  IN g # 3 /\ filled # <<>> /\ Head(t[Head(filled)]) = key
AppendSection(t, s, keys) ==
  LET more == SelectSeq(keys, LAMBDA k : ~HaveKeyForGroup(t, Group[s], k))
  IN [r \in DOMAIN t \cup {s} |-> IF r = s THEN more ELSE t[r]]
SectionsFromFiles(wm) ==
  LET ours == SelectSeq(Ranked, LAMBDA s : s # Custom /\ Manager[s] \in {AnyManager, wm} /\ Entries[s] # <<>>)
  IN FoldLeft(LAMBDA t, s : AppendSection(t, s, Entries[s]), [s \in {} |-> <<>>], ours)
Tables(w) == AppendSection(SectionsFromFiles(w.wm), Custom, w.custom)
\* settings_get_binding and settings_set_binding: the first of the bindings
Binding(w, i) == IF w.bind[i] = <<>> THEN Disabled ELSE Head(w.bind[i])
SettingsSetBinding(w, i, value) ==
  IF i \in Locked THEN w ELSE [w EXCEPT !.bind[i] = IF @ = <<>> THEN <<value>> ELSE [@ EXCEPT ![1] = value]]
LoadItem(w, i) == IF i \in Fixed /\ Binding(w, i) = Stored(Tap) THEN Tap ELSE Binding(w, i)
\* The renderer of the cell cannot show the key Alt: the item keeps what it had.
SetBinding(p, i, value) == IF value = Stored(Tap) THEN p ELSE [p EXCEPT !.items[i] = value]
KeyItems(p) == UNION {ToSet(p.tables[s]) : s \in DOMAIN p.tables}
\* The table is changed even where the setting is read-only.  Some settings are never compared:
\* those not in the tables, and the read-only ones the table believes to be disabled.
WriteBinding(s, i, k) ==
  LET apart == {j \in (Items \ KeyItems(s.p)) \cup Locked : k # Disabled /\ Binding(s.w, j) = Stored(k)}
  IN [p |-> SetBinding(s.p, i, k), w |-> [SettingsSetBinding(s.w, i, Stored(k)) EXCEPT !.unseen = @ \/ apart # {}]]

ShortcutSelected(p, row) ==
  [p EXCEPT !.sel = row, !.remove = row \in ToSet(Paths) /\ row \notin Locked]
FillRows(p, section) ==
  LET keys == p.tables[section]
      options == IF section = Typing THEN SetToSeq(Options) ELSE <<>>
  IN [p EXCEPT !.rows = keys \o options, !.sel = None, !.remove = FALSE]
SectionSelected(p, section) ==
  IF p.section = section THEN p ELSE FillRows([p EXCEPT !.section = section], section)
ReloadSections(p, w) ==
  LET t == Tables(w)
      first == Ranked[CHOOSE i \in DOMAIN Ranked :
                        Ranked[i] \in DOMAIN t /\ \A j \in 1..(i - 1) : Ranked[j] \notin DOMAIN t]
      requested == IF p.request \in DOMAIN t THEN p.request ELSE first
  IN SectionSelected([p EXCEPT !.tables = t, !.items = [i \in Items |-> LoadItem(w, i)],
                               !.section = None, !.request = None,
                               !.ask.freed = (p.ask.item # None), !.edit.freed = (p.edit.kind = "old")],
                     requested)
GroupOf(p, i) == CHOOSE g \in 1..3 : \E s \in DOMAIN p.tables : Group[s] = g /\ i \in ToSet(p.tables[s])

\* Mutant: only the item's own group is searched.
ConflictsInGroup(p, item, k) ==
  IF k = Disabled THEN {}
  ELSE {i \in KeyItems(p) \ {item} : p.items[i] = k /\ GroupOf(p, i) = GroupOf(p, item)}

\* The conflict is looked for in the system's keys, then those of applications, then the user's.
Conflicts(p, item, k) ==
  LET same == {i \in KeyItems(p) \ {item} : p.items[i] = k}
  IN IF k = Disabled THEN {} ELSE {i \in same : \A j \in same : GroupOf(p, i) <= GroupOf(p, j)}

-----------------------------------------------------------------------------
(***************************************************************************)
(* The XKB options.                                                        *)
(***************************************************************************)
CurrentValue(xkb, o) ==
  LET listed == SelectSeq(xkb, LAMBDA v : v \in Whitelist[o]) IN IF listed = <<>> THEN None ELSE Head(listed)
ReloadOptions(p, w) == [p EXCEPT !.xkb = w.xkb, !.value = [o \in Options |-> CurrentValue(w.xkb, o)]]
RemoveValue(xkb, v) == RemoveFirst(xkb, v)
ReplaceValue(xkb, v, u) ==
  LET at == CHOOSE i \in DOMAIN xkb : xkb[i] = v /\ \A j \in 1..(i - 1) : xkb[j] # v IN [xkb EXCEPT ![at] = u]
AddValue(xkb, v) == Append(xkb, v)

-----------------------------------------------------------------------------
(***************************************************************************)
(* What the user does.                                                     *)
(***************************************************************************)
UserMakes(w) == w.acts < MaxActions /\ world' = [w EXCEPT !.acts = @ + 1]
Modal(p) == p.ask.item # None \/ p.edit.kind # None
KeyRows == ToSet(panel.rows) \ Options

SelectSection(s) ==
  /\ ~Modal(panel) /\ s \in DOMAIN panel.tables
  /\ panel' = SectionSelected(panel, s)
  /\ UserMakes(world) /\ UNCHANGED calls

SelectShortcut(row) ==
  /\ ~Modal(panel) /\ row \in ToSet(panel.rows)
  /\ panel' = ShortcutSelected(panel, row)
  /\ UserMakes(world) /\ UNCHANGED calls

\* A combination is pressed for a shortcut.  One that types is refused, one that is in use
\* asks a question, any other is set at once.
AccelEdited(item, k) ==
  /\ ~Modal(panel) /\ item \in KeyRows \ Locked
  /\ \/ /\ k \in Plain
        /\ panel' = ShortcutSelected(panel, item) /\ UserMakes(world)
     \/ /\ k \notin Plain
        /\ \E c \in Conflicts(panel, item, k) :
             panel' = [ShortcutSelected(panel, item) EXCEPT
                         !.ask = [item |-> item, conflict |-> c, key |-> k, freed |-> FALSE]]
        /\ UserMakes(world)
     \/ /\ k \notin Plain /\ Conflicts(panel, item, k) = {}
        /\ LET s == WriteBinding([p |-> ShortcutSelected(panel, item), w |-> world], item, k)
           IN panel' = s.p /\ UserMakes(s.w)
  /\ UNCHANGED calls

AccelCleared(item) ==
  /\ ~Modal(panel) /\ item \in KeyRows \ Locked
  /\ LET s == WriteBinding([p |-> ShortcutSelected(panel, item), w |-> world], item, Disabled)
     IN panel' = s.p /\ UserMakes(s.w)
  /\ UNCHANGED calls

Reassign ==
  /\ panel.ask.item # None /\ ~panel.ask.freed
  /\ LET cleared == WriteBinding([p |-> panel, w |-> world], panel.ask.conflict, Disabled)
         s == WriteBinding(cleared, panel.ask.item, panel.ask.key)
     IN panel' = [s.p EXCEPT !.ask = NoQuestion] /\ world' = s.w
  /\ UNCHANGED calls
KeepConflict ==
  /\ panel.ask.item # None /\ ~panel.ask.freed
  /\ panel' = [panel EXCEPT !.ask = NoQuestion]
  /\ UNCHANGED <<calls, world>>
\* The items were freed while the question waited: what is set is not one of the items.
FreedQuestionAnswered ==
  /\ panel.ask.freed
  /\ panel' = [panel EXCEPT !.ask = NoQuestion]
  /\ UNCHANGED <<calls, world>>

\* The description of a custom shortcut is clicked.
StartEditing(item) ==
  /\ ~Modal(panel) /\ item \in (KeyRows \cap ToSet(Paths)) \ Locked
  /\ panel' = [ShortcutSelected(panel, item) EXCEPT !.edit = [kind |-> "old", path |-> item, freed |-> FALSE]]
  /\ UserMakes(world) /\ UNCHANGED calls

FindFreeSettingsPath(w) ==
  LET free == {i \in DOMAIN Paths : Paths[i] \notin ToSet(w.custom)} IN
  Paths[CHOOSE i \in free : \A j \in free : i <= j]
ResetPath(w, path) == [w EXCEPT !.bind[path] = <<Disabled>>, !.cmd[path] = Disabled]
AddClicked ==
  /\ ~Modal(panel) /\ ToSet(world.custom) # ToSet(Paths)
  /\ LET path == FindFreeSettingsPath(world)
         p == SectionSelected(panel, Custom)
     IN /\ panel' = [p EXCEPT !.edit = [kind |-> "new", path |-> path, freed |-> FALSE],
                              !.items[path] = Disabled]
        /\ UserMakes(ResetPath(world, path))
  /\ UNCHANGED calls

\* The reset is told to every item of the path, of which the list may have several.
RemoveCustom(s, path) ==
  [p |-> [s.p EXCEPT !.tables[Custom] = RemoveFirst(@, path), !.rows = RemoveFirst(@, path),
                     !.items[path] = Disabled, !.sel = None, !.remove = FALSE],
   w |-> [ResetPath(s.w, path) EXCEPT !.custom = SelectSeq(@, LAMBDA q : q # path)]]
RemoveClicked ==
  /\ ~Modal(panel) /\ panel.remove
  /\ LET s == RemoveCustom([p |-> panel, w |-> world], panel.sel) IN panel' = s.p /\ UserMakes(s.w)
  /\ UNCHANGED calls

\* The dialog that edits a custom shortcut closes; OK writes the command to the settings.
EditCustomShortcut(w, ok, cmd) == IF ok THEN [w EXCEPT !.cmd[panel.edit.path] = cmd] ELSE w
NewShortcutEdited(ok, cmd) ==
  /\ panel.edit.kind = "new"
  /\ LET path == panel.edit.path
         w == EditCustomShortcut(world, ok, cmd)
         p == [panel EXCEPT !.edit = NoEdit]
     IN IF ok /\ w.cmd[path] # Disabled
        THEN /\ panel' = [p EXCEPT !.tables[Custom] = Append(@, path), !.rows = Append(@, path)]
             /\ world' = [w EXCEPT !.custom = Append(@, path)]
        ELSE panel' = p /\ world' = w
  /\ UNCHANGED calls
ShortcutEdited(ok, cmd) ==
  /\ panel.edit.kind = "old"
  /\ LET path == panel.edit.path
         s == [p |-> [panel EXCEPT !.edit = NoEdit], w |-> EditCustomShortcut(world, ok, cmd)]
         r == IF ~panel.edit.freed /\ s.w.cmd[path] = Disabled THEN RemoveCustom(s, path) ELSE s
     IN panel' = r.p /\ world' = r.w
  /\ UNCHANGED calls

\* A value is chosen in the combo box of the row of an option.
OptionPicked(o, v) ==
  /\ ~Modal(panel) /\ o \in ToSet(panel.rows)
  /\ LET old == panel.value[o]
         xkb == IF v = None /\ old # None THEN RemoveValue(panel.xkb, old)
                ELSE IF v # None /\ old # None THEN ReplaceValue(panel.xkb, old, v)
                ELSE IF v # None THEN AddValue(panel.xkb, v) ELSE panel.xkb
         w == [world EXCEPT !.xkb = xkb]
     IN panel' = ReloadOptions(ShortcutSelected(panel, o), w) /\ UserMakes(w)
  /\ UNCHANGED calls

-----------------------------------------------------------------------------
(***************************************************************************)
(* What other programs do, and what the settings tell.                     *)
(***************************************************************************)
OthersMake(w) == w.changes < MaxChanges /\ world' = [w EXCEPT !.changes = @ + 1]
SettingChanges ==
  \/ \E i \in Items \ Locked, k \in Bindings \cup {Disabled} :
       /\ Binding(world, i) # Stored(k)
       /\ calls' = calls \cup {i} /\ OthersMake([SettingsSetBinding(world, i, Stored(k)) EXCEPT !.unseen = TRUE])
  \/ \E v \in UNION {Whitelist[o] : o \in Options} :
       /\ v \notin ToSet(world.xkb)
       /\ calls' = calls \cup {"xkb"} /\ OthersMake([world EXCEPT !.xkb = Append(@, v)])
ListChanges ==
  /\ \E path \in ToSet(Paths) \ ToSet(world.custom) : OthersMake([world EXCEPT !.custom = Append(@, path)])
  /\ UNCHANGED calls
OtherPrograms == (SettingChanges \/ ListChanges) /\ UNCHANGED panel

BindingChanged(i) ==
  /\ i \in calls
  /\ calls' = calls \ {i}
  /\ panel' = SetBinding(panel, i, Binding(world, i))
  /\ UNCHANGED world
XkbOptionsChanged ==
  /\ "xkb" \in calls
  /\ calls' = calls \ {"xkb"}
  /\ panel' = ReloadOptions(panel, world)
  /\ UNCHANGED world
WindowManagerChange(wm) ==
  /\ wm # world.wm
  /\ LET w == [world EXCEPT !.wm = wm] IN panel' = ReloadSections(panel, w) /\ OthersMake(w)
  /\ UNCHANGED calls

-----------------------------------------------------------------------------
Init ==
  /\ calls = {}
  /\ \E wm \in Managers, custom \in {<<>>, <<Paths[1]>>}, request \in {None, Custom}, xkb \in FirstXkb :
       LET w == [wm |-> wm, custom |-> custom, xkb |-> xkb, acts |-> 0, changes |-> 0, unseen |-> FALSE,
                 cmd |-> [p \in ToSet(Paths) |-> IF p \in ToSet(custom) THEN "c" ELSE Disabled],
                 bind |-> Bound]
           p == [tables |-> [s \in {} |-> <<>>], items |-> [i \in Items |-> Disabled], rows |-> <<>>,
                 section |-> None, request |-> request, sel |-> None, remove |-> FALSE,
                 ask |-> NoQuestion, edit |-> NoEdit, xkb |-> <<>>, value |-> [o \in Options |-> None]]
       IN world = w /\ panel = ReloadOptions(ReloadSections(p, w), w)

Answers == XkbOptionsChanged \/ \E i \in Items : BindingChanged(i)
Next ==
  \/ \E s \in ToSet(Ranked) : SelectSection(s)
  \/ \E r \in Items \cup Options : SelectShortcut(r)
  \/ \E i \in Items, k \in Bindings : AccelEdited(i, k)
  \/ \E i \in Items : AccelCleared(i) \/ StartEditing(i)
  \/ Reassign \/ KeepConflict \/ FreedQuestionAnswered \/ AddClicked \/ RemoveClicked
  \/ \E ok \in BOOLEAN, c \in Commands : NewShortcutEdited(ok, c) \/ ShortcutEdited(ok, c)
  \/ \E o \in Options : \E v \in Whitelist[o] \cup {None} : OptionPicked(o, v)
  \/ OtherPrograms \/ Answers
  \/ \E wm \in Managers : WindowManagerChange(wm)

-----------------------------------------------------------------------------
(***************************************************************************)
(* What the tables and the settings keep to.                               *)
(***************************************************************************)
\* No two shortcuts of the tables have the same keys, not even after the tables were replaced,
\* unless another program wrote keys or they were given away from a setting that is not compared.
KeysAreDistinct ==
  ~world.unseen => \A i, j \in KeyItems(panel) : (i # j /\ panel.items[i] = panel.items[j]) => panel.items[i] = Disabled
\* A shortcut of the user that is kept has a command, once its dialog is closed.
CustomHasCommand ==
  world.changes = 0 => \A i \in ToSet(world.custom) : (world.cmd[i] # "" \/ panel.edit.kind # None)
\* What can be removed is a shortcut of the user that is shown and selected.
RemovesCustomOnly == panel.remove => panel.sel \in ToSet(panel.rows) \cap ToSet(panel.tables[Custom])
\* When the signal of a setting has arrived the table has its binding, unless it is read-only: a
\* read-only shortcut that gave its keys to another shows none.
TableFollowsSettings ==
  \A i \in KeyItems(panel) \ Locked :
    (i \notin calls /\ Binding(world, i) # "<Alt_L>") => panel.items[i] = Binding(world, i)
\* ... and each option of the layout its value.
OptionsFollowSettings == "xkb" \notin calls => \A o \in Options : panel.value[o] = CurrentValue(world.xkb, o)
\* While the section of the user is chosen all its shortcuts are shown.
CustomRowsShown == panel.section = Custom => panel.rows = panel.tables[Custom]
=============================================================================
