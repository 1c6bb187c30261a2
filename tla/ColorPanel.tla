----------------------------- MODULE ColorPanel ------------------------------
(***************************************************************************)
(* The color panel (cc-color-panel.c): a tree of the devices colord        *)
(* manages and of their profiles, the toolbar for the selected row, the    *)
(* dialog that gives a device a profile and the one that makes a virtual   *)
(* device.                                                                 *)
(*                                                                         *)
(* The tree follows signals of colord that come in their order; the list   *)
(* of devices is an answer among them.  The client's objects know the      *)
(* profiles colord told last.  The dialogs are modal, but devices come and *)
(* go while they are open.                                                 *)
(***************************************************************************)
EXTENDS Integers, Sequences, FiniteSets, SequencesExt, Lists

CONSTANTS
  Devices,    \* a function: what colord says of each device
  Profiles,   \* a function: what colord says of each profile
  Titled,     \* the profiles in the order of their titles
  Named,      \* the device that is made of a kind and a text that was typed
  Threshold,  \* the days after which the profile of a display is old
  MaxActions, MaxChanges

VARIABLES
  panel,   \* the tree, the selection, the toolbar, the dialogs, what the objects know
  calls,   \* the requests that are running and the idle callbacks
  world    \* colord, its signals on the way, what it would not give, the programs started and the counters

vars == <<panel, calls, world>>

None == "none"
Import == "import"
NoRow == [row |-> FALSE, dev |-> None, prof |-> None]
NoDevicesRow == [dev |-> None, status |-> None, warn |-> FALSE, kids |-> <<>>]

State == [p |-> panel, c |-> calls, w |-> world]
Becomes(s) == panel' = s.p /\ calls' = s.c /\ world' = s.w
Call(s, kind, dev, what) == [s EXCEPT !.c = Append(@, [kind |-> kind, dev |-> dev, what |-> what])]
Signal(kind, dev, devs) == [kind |-> kind, dev |-> dev, devs |-> devs]
\* Colord tells of a change; before the client is connected nobody hears it.
Tell(s, kind, dev) == IF s.p.phase = "connecting" THEN s ELSE [s EXCEPT !.w.said = Append(@, Signal(kind, dev, {}))]

-----------------------------------------------------------------------------
(***************************************************************************)
(* The rows.                                                               *)
(***************************************************************************)
DeviceKindToSort(kind) ==
  IF kind = "display" THEN 4 ELSE IF kind = "scanner" THEN 3 ELSE IF kind = "camera" THEN 2
  ELSE IF kind = "printer" THEN 1 ELSE 0
DeviceKindToProfileKind(kind) ==
  CASE kind = "display" -> "display" [] kind = "printer" -> "output" [] OTHER -> "input"

\* The age is not told of profiles that were made of the hardware or are standard.
ProfileAgeAsString(q) == IF Profiles[q].source # "calibrated" THEN "uncalibrated" ELSE "age"

\* The status and the profiles of a row; nothing is written when the default profile is of no use to this user.
DeviceSetModelByIter(row, profs) ==
  LET q == profs[1]
      device == Devices[row.dev]
      plain == \/ profs = <<>>
               \/ device.kind = "printer" /\ ~Profiles[q].file
               \/ Profiles[q].kind = "display" /\ ~Profiles[q].vcgt
  IN IF profs # <<>> /\ ~Profiles[q].access THEN row
     ELSE [row EXCEPT !.status = IF plain THEN "uncalibrated" ELSE ProfileAgeAsString(q),
                      !.warn = ~plain /\ device.kind = "display" /\ Threshold > 0 /\ Profiles[q].age > Threshold,
                      !.kids = [k \in ToSet(profs) |-> k = q]]

\* The rows of a device, wherever they are, get what its object knows.
DeviceChanged(p, d) ==
  [p EXCEPT !.rows = [i \in DOMAIN @ |-> IF @[i].dev = d THEN DeviceSetModelByIter(@[i], p.known[d]) ELSE @[i]]]

Rank(row) == IF row.dev = None THEN -1 ELSE DeviceKindToSort(Devices[row.dev].kind)
\* The tree sorts its rows by the kind of the device, those of a kind as they came.
Sorted(rows) ==
  LET Of(rank) == Kept(rows, {i \in DOMAIN rows : Rank(rows[i]) = rank})
  IN Of(4) \o Of(3) \o Of(2) \o Of(1) \o Of(0) \o Of(-1)
\* Devices are added.  One that is gone, or whose properties cannot be read though it is there, is not.
NewRow(d, w) == DeviceSetModelByIter([NoDevicesRow EXCEPT !.dev = d, !.status = "new"], w.dev[d].profs)
AddDevices(s, order, connected) ==
  LET there == Kept(order, {i \in DOMAIN order : order[i] \in connected \cap DOMAIN s.w.dev})
  IN [s EXCEPT !.w.lost = (@ \ ToSet(order)) \cup (ToSet(order) \ ToSet(there)),
               !.p.known = [d \in DOMAIN @ |-> IF d \in ToSet(there) THEN s.w.dev[d].profs ELSE @[d]],
               !.p.rows = Sorted(@ \o [k \in DOMAIN there |-> NewRow(there[k], s.w)])]

PlacesOf(rows, d) == {i \in DOMAIN rows : rows[i].dev = d}
WithoutRow(rows, d) == IF PlacesOf(rows, d) = {} THEN rows ELSE RemoveAt(rows, Least(PlacesOf(rows, d)))
RemoveDevice(p, d) == [p EXCEPT !.rows = WithoutRow(@, d)]
\* An empty tree says so; a tree that is not empty does not.
UpdateDeviceListExtraEntry(p) == [p EXCEPT !.rows = IF @ = <<>> THEN <<NoDevicesRow>> ELSE WithoutRow(@, None)]

-----------------------------------------------------------------------------
(***************************************************************************)
(* The toolbar.                                                            *)
(***************************************************************************)
CanCalibrate(d, sensor) ==
  /\ d # None
  /\ \/ Devices[d].kind = "display" /\ sensor # None
     \/ Devices[d].kind \in {"scanner", "camera", "webcam"}
     \/ Devices[d].kind = "printer" /\ sensor = "printers"
SetCalibrateButtonSensitivity(p) == [p EXCEPT !.tool.calSens = CanCalibrate(p.current, p.sensor)]

\* Mutant: the button is set for the device that was selected before.
DeviceClickedLate(p, d) ==
  [SetCalibrateButtonSensitivity(p) EXCEPT !.current = d, !.tool.remove = Devices[d].virtual]

DeviceClicked(p, d) ==
  SetCalibrateButtonSensitivity([p EXCEPT !.current = d, !.tool.remove = Devices[d].virtual])
\* Only what was given to the device by hand can be taken from it.
ProfileClicked(p, q, d, w) ==
  [p EXCEPT !.tool.undoSens = d \in DOMAIN w.dev /\ q \in w.dev[d].hard, !.tool.remove = FALSE]

\* Nothing happens when nothing is selected.
DevicesTreeviewClicked(s) ==
  LET d == s.p.sel.dev
      q == s.p.sel.prof
      isDevice == d # None
      isProfile == q # None
      p == IF isDevice THEN DeviceClicked(s.p, d) ELSE s.p
      p2 == IF isProfile THEN ProfileClicked(p, q, d, s.w) ELSE p
      tool == [p2.tool EXCEPT !.default = isProfile, !.defaultSens = IF isProfile THEN q \notin s.w.wide ELSE @,
                              !.cal = isDevice, !.add = isDevice, !.view = isProfile, !.undo = isProfile,
                              !.bar = isDevice]
  IN IF ~s.p.sel.row THEN s ELSE [s EXCEPT !.p = [p2 EXCEPT !.tool = tool]]

RowsOf(p) ==
  UNION {{[row |-> TRUE, dev |-> p.rows[i].dev, prof |-> q] : q \in DOMAIN p.rows[i].kids \cup {None}} : i \in DOMAIN p.rows}
Select(s, r) == IF s.p.sel = r THEN s ELSE DevicesTreeviewClicked([s EXCEPT !.p.sel = r])
\* The cursor of a row that went away moves to another row, or to none.
Settled(s) == IF s.p.sel \in RowsOf(s.p) \cup {NoRow} THEN {s} ELSE {Select(s, r) : r \in RowsOf(s.p) \cup {NoRow}}
SelectFirst(s) ==
  IF s.p.rows = <<>> THEN s ELSE Select(s, [row |-> TRUE, dev |-> s.p.rows[1].dev, prof |-> None])

-----------------------------------------------------------------------------
(***************************************************************************)
(* What colord answers and tells.                                          *)
(***************************************************************************)
Answered(i) == [State EXCEPT !.c = RemoveAt(@, i)]
At(i, kind) == i \in DOMAIN calls /\ calls[i].kind = kind

Coldplugged == {"read", "unread", "failed"}
\* The list may fail, and there is no sensor; a sensor that cannot be read is kept, and what it can do is not known.
SensorColdplug(s, how) ==
  [s EXCEPT !.p.sensor = IF how = "failed" \/ s.w.sensors = <<>> THEN None ELSE IF how = "read" THEN s.w.sensors[1] ELSE "unread",
            !.w.plugged = how = "read"]
\* A client that is gone has no result to give, and no error either.
Connect(i, ok, how) ==
  /\ At(i, "connect")
  /\ Becomes(IF panel.closed THEN [Answered(i) EXCEPT !.p.broken = TRUE]
             ELSE IF ~ok THEN [Answered(i) EXCEPT !.p.phase = "failed"]
             ELSE Call(SensorColdplug([Answered(i) EXCEPT !.p.phase = "connected"], how), "list", None, None))
\* Colord answers with the devices it has, behind the signals it sent before.
ColordLists(i, ok) ==
  /\ At(i, "list")
  /\ Becomes(IF ok THEN [Answered(i) EXCEPT !.w.said = Append(@, Signal("list", None, DOMAIN world.dev))] ELSE Answered(i))

Heard(kind) == world.said # <<>> /\ world.said[1].kind = kind
Hearing == [State EXCEPT !.w.said = Tail(@)]

GetDevices(order, connected) ==
  /\ Heard("list") /\ ToSet(order) = world.said[1].devs
  /\ LET s == AddDevices([Hearing EXCEPT !.p.phase = "listed"], order, connected)
     IN \E t \in Settled([s EXCEPT !.p = UpdateDeviceListExtraEntry(@)]) : Becomes(SelectFirst(t))
DeviceAdded(connected) ==
  /\ Heard("added")
  /\ LET early == \/ \E i \in DOMAIN calls : calls[i].kind = "list"
                  \/ \E i \in DOMAIN world.said : world.said[i].kind = "list"
         s == AddDevices([Hearing EXCEPT !.w.early = @ \/ early], <<world.said[1].dev>>, connected)
     IN \E t \in Settled([s EXCEPT !.p = UpdateDeviceListExtraEntry(@)]) : Becomes(t)
DeviceRemoved ==
  /\ Heard("removed")
  /\ LET s == [Hearing EXCEPT !.p = UpdateDeviceListExtraEntry(RemoveDevice(@, world.said[1].dev))]
     IN \E t \in Settled(s) : Becomes(SelectFirst(t))
\* A panel that is closed still hears of the devices of its tree, which nobody freed.
DeviceChangedCb ==
  /\ Heard("changed")
  /\ LET d == world.said[1].dev
         known == IF d \in DOMAIN world.dev THEN world.dev[d].profs ELSE panel.known[d]
         s == [Hearing EXCEPT !.p = DeviceChanged([@ EXCEPT !.known[d] = known], d)]
     IN IF PlacesOf(panel.rows, d) = {} THEN Becomes(Hearing)
        ELSE IF panel.closed THEN Becomes([Hearing EXCEPT !.p.broken = TRUE])
        ELSE \E t \in Settled(s) : Becomes(t)
ClientSensorChanged(how) ==
  /\ Heard("sensor")
  /\ Becomes([SensorColdplug(Hearing, how) EXCEPT !.p = SetCalibrateButtonSensitivity(@)])
Ignored == panel.closed /\ world.said # <<>> /\ ~Heard("changed") /\ Becomes(Hearing)

-----------------------------------------------------------------------------
(***************************************************************************)
(* Profiles.                                                               *)
(***************************************************************************)
Give(s, d, profs, hard) == Tell([s EXCEPT !.w.dev[d] = [profs |-> profs, hard |-> hard]], "changed", d)
Without(profs, q) == Kept(profs, {i \in DOMAIN profs : profs[i] # q})
MakeDefault(s, d, q) == Call(s, "default", d, q)
MakeProfileDefaultDone(i, ok) ==
  /\ At(i, "default")
  /\ LET d == calls[i].dev
         q == calls[i].what
         works == ok /\ d \in DOMAIN world.dev /\ q \in ToSet(world.dev[d].profs)
     IN Becomes(IF works THEN Give(Answered(i), d, <<q>> \o Without(world.dev[d].profs, q), world.dev[d].hard)
                ELSE Answered(i))

Dialog == panel.assign.shown \/ panel.virtual \/ panel.chooser
UserMay == world.acts < MaxActions
ByUser(s) == Becomes([s EXCEPT !.w.acts = @ + 1])
Tool(name) == ~Dialog /\ panel.tool.bar /\ panel.tool[name]

\* The radio button of a row, or the row itself, was activated.
ProfileMakeDefaultInternal(r) ==
  /\ ~Dialog /\ r \in RowsOf(panel) /\ r.dev # None /\ r.prof # None
  /\ ByUser(MakeDefault(State, r.dev, r.prof))
ProfileRemove ==
  /\ Tool("undo") /\ panel.tool.undoSens /\ panel.sel.row
  /\ LET d == panel.current
         q == panel.sel.prof
     IN ByUser(IF d \in DOMAIN world.dev /\ q \in ToSet(world.dev[d].profs)
               THEN Give(State, d, Without(world.dev[d].profs, q), world.dev[d].hard \ {q}) ELSE State)
\* The default profile of the device is installed, whichever is selected.
DefaultCb ==
  /\ \/ Tool("default") /\ panel.tool.defaultSens
     \/ ~Dialog /\ panel.current # None
  /\ LET profs == panel.known[panel.current]
     IN ByUser(IF profs = <<>> THEN State ELSE [State EXCEPT !.w.wide = @ \cup {profs[1]}])

IsProfileSuitableForDevice(q, d) ==
  /\ d # None /\ Profiles[q].space = Devices[d].space
  /\ Profiles[q].kind = DeviceKindToProfileKind(Devices[d].kind)
  /\ Profiles[q].source # "standard"
AddProfilesSuitableForDevices(s, already) ==
  LET Fits(q) == q \notin already /\ IsProfileSuitableForDevice(q, s.p.current) /\ Profiles[q].access
      fitting == Kept(Titled, {i \in DOMAIN Titled : Fits(Titled[i])})
  IN Call([s EXCEPT !.p.assign.entries = Append(fitting, Import), !.p.assign.active = 0], "idle", None, None)
ProfileAdd ==
  /\ Tool("add")
  /\ LET already == IF panel.current = None THEN {} ELSE ToSet(panel.known[panel.current])
     IN ByUser([AddProfilesSuitableForDevices(State, already) EXCEPT !.p.assign.shown = TRUE])

\* The last entry asks for a file, in a dialog of its own.
ComboSetActive(s, i) ==
  LET asks == s.p.current # None /\ s.p.assign.entries[i] = Import
  IN IF s.p.assign.active = i THEN s
     ELSE [s EXCEPT !.p.assign.active = i, !.p.chooser = @ \/ asks]
ComboSetDefault(i) == At(i, "idle") /\ Becomes(ComboSetActive(Answered(i), 1))
ProfileComboChanged(i) ==
  /\ panel.assign.shown /\ ~panel.chooser /\ i \in DOMAIN panel.assign.entries
  /\ panel.current # None /\ i # panel.assign.active
  /\ ByUser(ComboSetActive(State, i))
ChooserCancelled ==
  /\ panel.chooser
  /\ LET s == ComboSetActive([State EXCEPT !.p.chooser = FALSE], 1)
     IN Becomes([s EXCEPT !.p.assign.shown = s.p.assign.entries[1] # Import])
\* A profile that was imported goes before the others, whatever it is for.
ChooserImported(q, ok) ==
  /\ panel.chooser
  /\ Becomes(IF ok THEN [State EXCEPT !.p.chooser = FALSE, !.p.assign.entries = <<q>> \o @, !.p.assign.active = 1]
             ELSE [State EXCEPT !.p.chooser = FALSE])
ButtonAssignCancel == panel.assign.shown /\ ~panel.chooser /\ Becomes([State EXCEPT !.p.assign.shown = FALSE])
\* The device that is current now gets the profile, and gets it as its default.
ButtonAssignOk ==
  /\ panel.assign.shown /\ ~panel.chooser
  /\ LET s == [State EXCEPT !.p.assign.shown = FALSE]
         d == panel.current
         q == panel.assign.entries[panel.assign.active]
         works == panel.assign.active > 0 /\ q # Import /\ d \in DOMAIN world.dev /\ q \notin ToSet(world.dev[d].profs)
     IN Becomes(IF works THEN MakeDefault(Give(s, d, Append(world.dev[d].profs, q), world.dev[d].hard \cup {q}), d, q) ELSE s)

-----------------------------------------------------------------------------
(***************************************************************************)
(* Devices, and the programs that calibrate and show.                      *)
(***************************************************************************)
Device(d) == [profs |-> <<>>, hard |-> {}]
Arrives(s, d) == Tell([s EXCEPT !.w.dev = [e \in DOMAIN @ \cup {d} |-> IF e = d THEN Device(d) ELSE @[e]]], "added", d)
Leaves(s, d) == Tell([s EXCEPT !.w.dev = [e \in DOMAIN @ \ {d} |-> @[e]]], "removed", d)

DeviceDelete ==
  /\ Tool("remove")
  /\ ByUser([(IF panel.current \in DOMAIN world.dev THEN Leaves(State, panel.current) ELSE State)
               EXCEPT !.w.deleted = panel.current])
\* Only the menu of the keyboard offers a virtual device, the button for it is always hidden.
DeviceAddCb ==
  /\ ~Dialog /\ panel.current # None
  /\ ByUser([State EXCEPT !.p.virtual = TRUE])
VirtualKinds == <<"scanner", "printer", "camera", "webcam">>
ButtonVirtualAdd(kind, text) ==
  /\ panel.virtual
  /\ LET s == [State EXCEPT !.p.virtual = FALSE]
         d == Named[<<VirtualKinds[kind], text>>]
     IN ByUser(IF d \in DOMAIN world.dev THEN s ELSE Arrives(s, d))
ButtonVirtualCancel == panel.virtual /\ Becomes([State EXCEPT !.p.virtual = FALSE])

Run(s, tool, of, there) ==
  IF there THEN [s EXCEPT !.w.ran = [tool |-> tool, of |-> of]] ELSE Call(s, "installer", of, tool)
Calibrate(there) == Tool("cal") /\ panel.tool.calSens /\ ByUser(Run(State, "calibrate", panel.current, there))
ProfileView(there) ==
  /\ Tool("view")
  /\ ByUser(IF panel.sel.row THEN Run(State, "view", panel.sel.prof, there) ELSE [State EXCEPT !.p.broken = TRUE])
PackagekitProxyReady(i, ok) ==
  /\ At(i, "installer")
  /\ Becomes(IF ok THEN Call(Answered(i), "install", calls[i].dev, calls[i].what) ELSE Answered(i))
PackagekitFinished(i, ok) ==
  /\ At(i, "install")
  /\ Becomes(IF ok THEN Run(Answered(i), calls[i].what, calls[i].dev, TRUE) ELSE Answered(i))

RowSelected(r) == ~Dialog /\ r \in RowsOf(panel) /\ r # panel.sel /\ ByUser(Select(State, r))
\* The tree and the devices in it outlive the panel.
Dispose ==
  /\ ~Dialog
  /\ ByUser([State EXCEPT !.p.closed = TRUE, !.p.current = None, !.p.sensor = None,
                          !.c = Kept(@, {i \in DOMAIN @ : @[i].kind \in {"connect", "installer", "install"}})])

\* Devices and sensors come and go, and colord finds profiles for a device itself.
ByOthers(s) == world.changes < MaxChanges /\ Becomes([s EXCEPT !.w.changes = @ + 1])
OtherPrograms ==
  \/ \E d \in DOMAIN Devices : IF d \in DOMAIN world.dev THEN ByOthers(Leaves(State, d)) ELSE ByOthers(Arrives(State, d))
  \/ \E d \in DOMAIN world.dev, q \in DOMAIN Profiles :
       IF q \in ToSet(world.dev[d].profs)
       THEN ByOthers(Give(State, d, Without(world.dev[d].profs, q), world.dev[d].hard \ {q}))
       ELSE ByOthers(Give(State, d, Append(world.dev[d].profs, q), world.dev[d].hard))
  \/ \E sensors \in {<<>>, <<"screens">>, <<"printers">>} \ {world.sensors} :
       ByOthers(Tell([State EXCEPT !.w.sensors = sensors], "sensor", None))

-----------------------------------------------------------------------------
Init ==
  \E there \in SUBSET {d \in DOMAIN Devices : ~Devices[d].virtual}, sensors \in {<<>>, <<"screens">>} :
    /\ world = [dev |-> [d \in there |-> [profs |-> <<Devices[d].first>>, hard |-> {}]], sensors |-> sensors,
                wide |-> {}, said |-> <<>>, early |-> FALSE, lost |-> {}, plugged |-> FALSE, deleted |-> None,
                ran |-> [tool |-> None, of |-> None], acts |-> 0, changes |-> 0]
    /\ panel = [rows |-> <<>>, sel |-> NoRow, current |-> None, sensor |-> None, known |-> [d \in DOMAIN Devices |-> <<>>],
                tool |-> [bar |-> TRUE, default |-> FALSE, defaultSens |-> TRUE, remove |-> TRUE, cal |-> FALSE, calSens |-> FALSE,
                          add |-> TRUE, view |-> FALSE, undo |-> FALSE, undoSens |-> TRUE],
                assign |-> [shown |-> FALSE, entries |-> <<>>, active |-> 0], chooser |-> FALSE,
                virtual |-> FALSE, phase |-> "connecting", closed |-> FALSE, broken |-> FALSE]
    /\ calls = <<[kind |-> "connect", dev |-> None, what |-> None]>>

Answers ==
  \/ \E i \in DOMAIN calls, ok \in BOOLEAN, how \in Coldplugged : Connect(i, ok, how)
  \/ \E i \in DOMAIN calls, ok \in BOOLEAN :
       ColordLists(i, ok) \/ MakeProfileDefaultDone(i, ok) \/ PackagekitProxyReady(i, ok) \/ PackagekitFinished(i, ok)
  \/ DeviceChangedCb
  \/ Ignored
  \/ /\ ~panel.closed
     /\ \/ \E connected \in SUBSET DOMAIN Devices :
             \/ GetDevices(SetToSeq(IF world.said = <<>> THEN {} ELSE world.said[1].devs), connected)
             \/ DeviceAdded(connected)
        \/ DeviceRemoved
        \/ \E how \in Coldplugged : ClientSensorChanged(how)
        \/ \E i \in DOMAIN calls : ComboSetDefault(i)
UserActs ==
  \/ \E r \in RowsOf(panel) : RowSelected(r) \/ ProfileMakeDefaultInternal(r)
  \/ ProfileRemove \/ DefaultCb \/ ProfileAdd \/ DeviceDelete \/ DeviceAddCb \/ Dispose
  \/ \E i \in DOMAIN panel.assign.entries : ProfileComboChanged(i)
  \/ \E there \in BOOLEAN : Calibrate(there) \/ ProfileView(there)
  \/ \E kt \in DOMAIN Named : \E kind \in DOMAIN VirtualKinds : kt[1] = VirtualKinds[kind] /\ ButtonVirtualAdd(kind, kt[2])
\* What ends a dialog that is open is not counted.
Closes ==
  \/ ChooserCancelled \/ \E q \in DOMAIN Profiles, ok \in BOOLEAN : ChooserImported(q, ok)
  \/ ButtonAssignCancel \/ ButtonAssignOk \/ ButtonVirtualCancel
Next == Answers \/ OtherPrograms \/ (~panel.closed /\ ((UserMay /\ UserActs) \/ Closes))

-----------------------------------------------------------------------------
(***************************************************************************)
(* What the tree and the toolbar keep to.                                  *)
(***************************************************************************)
Rest == world.said = <<>> /\ panel.phase = "listed" /\ ~panel.closed
\* When all is heard each device that could be read has one row, unless one came before the list was there.
OneRowPerDevice ==
  LET shown == {panel.rows[i].dev : i \in DOMAIN panel.rows} IN
  (Rest /\ ~world.early) => (shown \ {None} = DOMAIN world.dev \ world.lost /\ Cardinality(shown) = Len(panel.rows))
\* What the buttons act on is the device of the selected row...
ActsOnTheSelected == (panel.sel.row /\ panel.sel.dev # None /\ ~panel.closed) => panel.current = panel.sel.dev
\* ... and what can be removed is a device the user made.
RemovesVirtualOnly ==
  (panel.tool.remove /\ panel.sel.row /\ panel.tool.bar /\ panel.phase = "listed" /\ ~panel.closed)
    => (panel.sel.prof = None /\ Devices[panel.sel.dev].virtual)
\* The button tells whether the sensor the panel knows can calibrate the device, and unless
\* colord would not give it, that is the sensor that is there.
CalibratesWithSensor ==
  Rest => /\ panel.tool.calSens = CanCalibrate(panel.current, panel.sensor)
          /\ world.plugged => panel.sensor = IF world.sensors = <<>> THEN None ELSE world.sensors[1]
\* The row that says there are no devices has no toolbar.
NothingToDo == (Rest /\ panel.sel.row /\ panel.sel.dev = None) => ~panel.tool.bar
=============================================================================
