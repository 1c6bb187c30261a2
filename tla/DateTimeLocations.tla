--------------------------- MODULE DateTimeLocations ---------------------------
(***************************************************************************)
(* The dialog of the other locations whose time the clock shows            *)
(* (datetime-prefs-locations.c).  A row is added empty and edited in       *)
(* place; the city that is chosen below the entry completes it, any other  *)
(* text marks it.  Every change of the list is saved when idle, the times  *)
(* that the clock writes into it among them: update_times blocks a handler *)
(* that is not the one that is connected.                                  *)
(***************************************************************************)
EXTENDS Integers, Sequences, FiniteSets, SequencesExt

CONSTANTS
  NameOf,    \* zones, and the name made of each
  Cities,    \* what can be chosen: pairs of a name and a zone
  Texts,     \* other texts the user types
  Collate,   \* where each name and text comes in the alphabet
  Offset,    \* of each zone, from UTC
  Starts,    \* the locations that are saved at first: sequences of <<zone, name>>
  MaxRows, MaxActions, MaxChanges

VARIABLES
  panel,   \* the dialog
  calls,   \* whether a save waits to be idle
  world    \* the setting, the time and the counters

vars == <<panel, calls, world>>

None == "none"
Largest(set) == CHOOSE i \in set : \A j \in set : j <= i
Spot(rows, id) == CHOOSE i \in DOMAIN rows : rows[i].id = id
Ids(rows) == {rows[i].id : i \in DOMAIN rows}

-----------------------------------------------------------------------------
(***************************************************************************)
(* The list and the setting.                                               *)
(***************************************************************************)
\* A location without a name is named after its zone.
SplitSettingsLocation(location) ==
  [zone |-> location[1], name |-> IF location[2] = "" THEN NameOf[location[1]] ELSE location[2]]
FillFromSettings(locations) ==
  [i \in DOMAIN locations |->
     LET l == SplitSettingsLocation(locations[i])
     IN [id |-> i, name |-> l.name, zone |-> l.zone, visible |-> l.name, icon |-> FALSE, time |-> 0]]

IsComplete(row) == row.zone # None /\ row.name # None
SaveToSettings(rows) ==
  LET complete == SelectSeq(rows, IsComplete)
  IN [i \in DOMAIN complete |-> <<complete[i].zone, complete[i].name>>]

\* Sorting looks at the rows with a zone and a text, and numbers only those.
TimeLocations(rows) == SelectSeq(rows, LAMBDA r : r.zone # None /\ r.visible # None)
CompareByName(a, b) ==
  IF Collate[a.visible] # Collate[b.visible] THEN Collate[a.visible] - Collate[b.visible]
  ELSE Offset[a.zone] - Offset[b.zone]
CompareByTime(a, b) ==
  IF Offset[a.zone] # Offset[b.zone] THEN Offset[a.zone] - Offset[b.zone]
  ELSE Collate[a.visible] - Collate[b.visible]
Compare(by, a, b) == IF by = "name" THEN CompareByName(a, b) ELSE CompareByTime(a, b)
TestSorted(rows, by) ==
  LET list == TimeLocations(rows) IN \A i \in 1..Len(list) - 1 : Compare(by, list[i], list[i + 1]) <= 0
\* g_slist_sort is stable.
Sorted(list, by) ==
  LET before(i) == {j \in DOMAIN list : \/ Compare(by, list[j], list[i]) < 0
                                        \/ Compare(by, list[j], list[i]) = 0 /\ j < i}
  IN [k \in DOMAIN list |-> list[CHOOSE i \in DOMAIN list : Cardinality(before(i)) = k - 1]]

SaveWhenIdle(s) == [s EXCEPT !.c = @ \cup {"save"}]
UpdateButtonSensitivity(s) ==
  [s EXCEPT !.p.byName = ~TestSorted(s.p.rows, "name"), !.p.byTime = ~TestSorted(s.p.rows, "time")]
ModelChanged(s) == SaveWhenIdle(UpdateButtonSensitivity(s))
SetRows(s, rows) == IF rows = s.p.rows THEN s ELSE ModelChanged([s EXCEPT !.p.rows = rows])

\* Nothing is updated while a name is edited.
UpdateTimes(s) ==
  IF s.p.editing # 0 THEN s
  ELSE SetRows(s, [i \in DOMAIN s.p.rows |->
         IF s.p.rows[i].zone = None THEN s.p.rows[i] ELSE [s.p.rows[i] EXCEPT !.time = s.w.minute]])

-----------------------------------------------------------------------------
(***************************************************************************)
(* Editing a row.                                                          *)
(***************************************************************************)
StartEdit(s, id) ==
  LET visible == s.p.rows[Spot(s.p.rows, id)].visible
  IN [s EXCEPT !.p.editing = id, !.p.storeIter = id, !.p.text = IF visible = None THEN "" ELSE visible]
\* Any text but the name that is known is an error.
HandleEdit(s) ==
  IF s.p.editing = 0 THEN s
  ELSE LET i == Spot(s.p.rows, s.p.editing)
           row == [s.p.rows[i] EXCEPT !.visible = s.p.text, !.icon = (s.p.text # s.p.rows[i].name)]
       IN ModelChanged([s EXCEPT !.p.rows = ReplaceAt(@, i, row), !.p.editing = 0, !.p.text = ""])

-----------------------------------------------------------------------------
Closed ==
  [open |-> FALSE, rows |-> <<>>, sel |-> {}, editing |-> 0, storeIter |-> 0, text |-> "", fresh |-> 1,
   byName |-> TRUE, byTime |-> TRUE, wild |-> FALSE]

Init ==
  /\ panel = Closed
  /\ calls = {}
  /\ \E locations \in Starts :
       world = [locations |-> locations, minute |-> 1, foreign |-> FALSE, acts |-> 0, changes |-> 0]

State == [p |-> panel, c |-> calls, w |-> world]
Becomes(s) == panel' = s.p /\ calls' = s.c /\ world' = s.w
Free == panel.open /\ ~panel.wild
ByUser(s) == world.acts < MaxActions /\ Becomes([s EXCEPT !.w.acts = @ + 1])
ByOthers(s) == world.changes < MaxChanges /\ Becomes([s EXCEPT !.w.changes = @ + 1])

\* The list is filled before its signals are connected; the times are the first change.
ShowLocations ==
  /\ ~panel.open
  /\ LET rows == FillFromSettings(world.locations)
         s == [State EXCEPT !.p = [Closed EXCEPT !.open = TRUE, !.rows = rows, !.fresh = Len(rows) + 1]]
     IN ByUser([UpdateTimes(s) EXCEPT !.w.foreign = FALSE])
\* A save that waits is dropped.
DialogClosed == Free /\ Becomes([HandleEdit(State) EXCEPT !.p = Closed, !.c = {}])

\* The row is appended, selected and edited.
HandleAdd ==
  /\ Free /\ Len(panel.rows) < MaxRows
  /\ LET s == HandleEdit(State)
         row == [id |-> s.p.fresh, name |-> None, zone |-> None, visible |-> None, icon |-> FALSE, time |-> 0]
         t == SetRows([s EXCEPT !.p.fresh = @ + 1, !.p.sel = {row.id}], Append(s.p.rows, row))
     IN ByUser(StartEdit(t, row.id))
SelectionChanged(ids) == Free /\ ids # panel.sel /\ ByUser([HandleEdit(State) EXCEPT !.p.sel = ids])
EditStarted(id) ==
  Free /\ panel.editing = 0 /\ id \in panel.sel /\ ByUser(StartEdit([State EXCEPT !.p.sel = {id}], id))
TextTyped(text) == Free /\ panel.editing # 0 /\ text # panel.text /\ ByUser([State EXCEPT !.p.text = text])
EditingDone == Free /\ panel.editing # 0 /\ Becomes(HandleEdit(State))
EditingCanceled == Free /\ panel.editing # 0 /\ Becomes([State EXCEPT !.p.editing = 0, !.p.text = ""])

\* The city goes to the row whose editing began last; then its name is put into the entry.
TimezoneSelected(city) ==
  /\ Free /\ panel.editing # 0
  /\ LET i == Spot(panel.rows, panel.storeIter)
         row == [panel.rows[i] EXCEPT !.visible = city[1], !.icon = FALSE, !.name = city[1], !.zone = city[2]]
     IN ByUser([UpdateTimes(SetRows(State, ReplaceAt(panel.rows, i, row))) EXCEPT !.p.text = city[1]])

\* After the last of the selected, or before it, comes the row to select.
NextToSelect(rows, sel) ==
  LET marked == {i \in DOMAIN rows : rows[i].id \in sel}
      last == Largest(marked)
      above == {i \in 1..last : i \notin marked}
  IN IF last < Len(rows) THEN {rows[last + 1].id}
     ELSE IF above = {} THEN {} ELSE {rows[Largest(above)].id}
\* The view moves its cursor from a row that is removed, and may select a neighbour itself.
HandleRemove(cursor) ==
  /\ Free /\ panel.sel # {}
  /\ LET s == HandleEdit(State)
         rest == SelectSeq(s.p.rows, LAMBDA r : r.id \notin panel.sel)
     IN /\ cursor \subseteq Ids(rest)
        /\ ByUser(SetRows([s EXCEPT !.p.sel = cursor \cup NextToSelect(s.p.rows, panel.sel)], rest))

\* gtk_list_store_reorder reads one number for every row: with rows that are not complete the array
\* is too short, and what follows it in memory is read.
HandleSort(by) ==
  /\ Free /\ (IF by = "name" THEN panel.byName ELSE panel.byTime)
  /\ LET s == HandleEdit(State)
         list == TimeLocations(s.p.rows)
     IN ByUser(IF Len(list) < Len(s.p.rows) THEN [s EXCEPT !.p.wild = TRUE]
               ELSE ModelChanged([s EXCEPT !.p.rows = Sorted(list, by)]))

SaveNow ==
  /\ Free /\ "save" \in calls
  /\ Becomes([State EXCEPT !.c = {}, !.w.locations = SaveToSettings(panel.rows), !.w.foreign = FALSE])
TimesUpdated == Free /\ Becomes(UpdateTimes(State))

\* Another program sets the locations; the dialog does not listen.
LocationsSet(locations) ==
  locations # world.locations /\ ByOthers([State EXCEPT !.w.locations = locations, !.w.foreign = TRUE])
MinutePassed == ByOthers([State EXCEPT !.w.minute = 3 - @])

Next ==
  \/ ShowLocations \/ DialogClosed \/ HandleAdd
  \/ \E ids \in SUBSET Ids(panel.rows) : SelectionChanged(ids)
  \/ \E id \in Ids(panel.rows) : EditStarted(id)
  \/ \E text \in Texts : TextTyped(text)
  \/ EditingDone \/ EditingCanceled
  \/ \E city \in Cities : TimezoneSelected(city)
  \/ \E cursor \in {{}} \cup {{id} : id \in Ids(panel.rows)} : HandleRemove(cursor)
  \/ \E by \in {"name", "time"} : HandleSort(by)
  \/ SaveNow \/ TimesUpdated
  \/ \E locations \in Starts : LocationsSet(locations)
  \/ MinutePassed
Spec == Init /\ [][Next]_vars

-----------------------------------------------------------------------------
(***************************************************************************)
(* Properties.                                                             *)
(***************************************************************************)
\* What is listed and complete is saved, or about to be, unless another program has set the
\* locations since; the sort buttons are for what is not sorted so.
LocationsAreSaved ==
  panel.open /\ ~panel.wild =>
    /\ "save" \notin calls /\ ~world.foreign => world.locations = SaveToSettings(panel.rows)
    /\ panel.rows # <<>> =>
         panel.byName = ~TestSorted(panel.rows, "name") /\ panel.byTime = ~TestSorted(panel.rows, "time")

\* A row without the error icon shows the location that is saved for it, and what is selected and
\* what is edited are rows of the list.
IconTellsError ==
  /\ \A i \in DOMAIN panel.rows :
       panel.rows[i].icon \/ panel.rows[i].id = panel.editing \/ panel.rows[i].visible = panel.rows[i].name
  /\ panel.sel \subseteq Ids(panel.rows)
  /\ panel.editing # 0 => panel.editing \in Ids(panel.rows) /\ panel.storeIter = panel.editing

\* Removing takes the selected rows, keeps the order of the others and leaves one of them selected;
\* sorting keeps all of them; and a row gets another zone only while it is edited.
RowsAreKept ==
  panel.open /\ panel'.open =>
    /\ Len(panel'.rows) < Len(panel.rows) =>
         /\ Ids(panel'.rows) = Ids(panel.rows) \ panel.sel
         /\ panel'.rows # <<>> => panel'.sel # {} /\ panel'.sel \subseteq Ids(panel'.rows)
    /\ Len(panel'.rows) >= Len(panel.rows) => Ids(panel.rows) \subseteq Ids(panel'.rows)
    /\ \A i \in DOMAIN panel.rows, j \in DOMAIN panel'.rows :
         panel.rows[i].id = panel'.rows[j].id /\ panel.rows[i].zone # panel'.rows[j].zone
           => panel.editing = panel.rows[i].id
=============================================================================
