--------------------------- MODULE BluetoothPanel ---------------------------
(***************************************************************************)
(* The Bluetooth panel (cc-bluetooth-panel.c) with the objects it stands   *)
(* on: the aggregate of the radio switches (bluetooth-killswitch.c), the   *)
(* tree of adapters and devices that mirrors bluetoothd                    *)
(* (bluetooth-client.c) and the list of devices (bluetooth-chooser.c).     *)
(*                                                                         *)
(* bluetoothd and the kernel speak in two streams, each in order, and the  *)
(* panel hears them in any interleaving.  The connection switch is only    *)
(* shown: update_properties makes it insensitive unless the device has     *)
(* `services', a column nothing fills, so connect_service is never asked.  *)
(***************************************************************************)
EXTENDS Rfkill, FiniteSets

CONSTANTS
  Adapters, Devices,  \* the objects bluetoothd may have
  AdapterOf,          \* where a device lives
  SwitchOf,           \* the radio switch of an adapter
  MaxActions, MaxChanges

VARIABLES
  panel,   \* CcBluetoothPanel, its client, killswitch and chooser
  calls,   \* requests bluetoothd has not served
  world    \* bluetoothd, the kernel, what they said and was not heard yet

vars == <<panel, calls, world>>

None == "none"
Put(f, x, v) == [y \in DOMAIN f \cup {x} |-> IF y = x THEN v ELSE f[y]]
Without(f, x) == [y \in DOMAIN f \ {x} |-> f[y]]
\* An adapter is `on` when powered and `seen` when discoverable; a device is `on` when connected
\* and `seen` when paired or trusted.
Signal(kind, o, v) == [kind |-> kind, of |-> o, v |-> v]

-----------------------------------------------------------------------------
(***************************************************************************)
(* BluetoothKillswitch: the switches in the order they appeared.           *)
(***************************************************************************)
StateOf(e) == IF e.hard THEN "hard" ELSE IF e.soft THEN "soft" ELSE "unblocked"
\* bluetooth_killswitch_get_state: one blocked by hardware decides, else the last
GetState(list) ==
  IF list = <<>> THEN "no_adapter"
  ELSE IF \E n \in DOMAIN list : list[n].state = "hard" THEN "hard" ELSE Last(list).state
Updated(list, e) ==
  LET n == SelectInSeq(list, LAMBDA k : k.idx = e.idx)
  IN IF n = 0 THEN list ELSE [list EXCEPT ![n].state = StateOf(e)]
Removed(list, e) ==
  LET n == SelectInSeq(list, LAMBDA k : k.idx = e.idx) IN IF n = 0 THEN list ELSE RemoveAt(list, n)

-----------------------------------------------------------------------------
(***************************************************************************)
(* BluetoothClient's tree, and what the panel shows of it.                 *)
(***************************************************************************)
RowOf(p, a) == SelectInSeq(p.rows, LAMBDA r : r.adapter = a)
Default(p) == p.rows[RowOf(p, p.def)]
Powered(p) == p.def # None /\ Default(p).v.on
\* filter_category_func: the chooser lists the paired and the trusted devices of its adapter
Listed(p) == IF p.model = None THEN {}
             ELSE LET ds == p.rows[RowOf(p, p.model)].devices IN {d \in DOMAIN ds : ds[d].seen}

\* cc_bluetooth_panel_update_power
UpdatePower(p) ==
  LET state == GetState(p.list)
  IN [p EXCEPT !.message = CASE p.def # None -> "devices"
                             [] p.def = None /\ state = "hard" -> "hardware"
                             [] p.def = None /\ state # "hard" /\ p.list # <<>> -> "disabled"
                             [] OTHER -> "no_adapters",
               !.sensitive = p.def # None \/ (p.list # <<>> /\ state # "hard")]
UpdateState(p) == [p EXCEPT !.toolbar = p.def # None]
UpdateVisibility(p) == [p EXCEPT !.visible = p.def # None /\ Default(p).v.seen]
\* cc_bluetooth_panel_update_properties, its own handlers blocked
UpdateProperties(p) ==
  IF p.sel = None THEN [p EXCEPT !.switch = FALSE, !.props = None]
  ELSE [p EXCEPT !.switch = p.rows[RowOf(p, p.model)].devices[p.sel].on, !.props = p.sel]
\* The details are drawn again when the row that changed is the selected one (device_model_row_changed).
RowChanged(p, d) == IF p.sel = d /\ d \in Listed(p) THEN UpdateProperties(p) ELSE p
\* Mutant: the details stay when the selected row goes.
Unsettled(p) ==
  IF p.sel \in Listed(p) \cup {None} THEN {p}
  ELSE {[p EXCEPT !.sel = d] : d \in IF Listed(p) = {} THEN {None} ELSE Listed(p)}

\* When the selected row is not listed any more, the tree view selects another one, a neighbour
\* in an order of names, or none when there is none.
Settled(p) ==
  IF p.sel \in Listed(p) \cup {None} THEN {p}
  ELSE {UpdateProperties([p EXCEPT !.sel = d]) : d \in IF Listed(p) = {} THEN {None} ELSE Listed(p)}
\* default_adapter_changed of panel and chooser: the list is made anew, nothing is selected
NotifyDefault(p) ==
  LET powered == [UpdatePower(UpdateState(p)) EXCEPT !.power = Powered(p)]
  IN UpdateVisibility(UpdateProperties([powered EXCEPT !.model = p.def, !.sel = None, !.tree = p.def # None]))

\* default_adapter_changed of the client: told to the others when the adapter is powered; an
\* adapter that is not is asked to power up.
BecomeDefault(p, a) ==
  LET q == [p EXCEPT !.def = a] IN IF Powered(q) THEN NotifyDefault(q) ELSE q

AdapterAdded(p, a, v) ==
  LET q == [p EXCEPT !.rows = Append(@, [adapter |-> a, v |-> v, devices |-> <<>>])]
  IN IF q.def = None THEN BecomeDefault(q, a) ELSE q
\* Only the row of the default adapter is taken away.
AdapterRemoved(p, a) ==
  IF p.def # a THEN p
  ELSE LET rest == [p EXCEPT !.rows = RemoveAt(@, RowOf(p, a)), !.def = None,
                             !.model = IF @ = a THEN None ELSE @]
       IN IF rest.rows = <<>> THEN NotifyDefault(rest) ELSE BecomeDefault(rest, rest.rows[1].adapter)
AdapterChanged(p, a, v) ==
  LET n == RowOf(p, a)
      q == [p EXCEPT !.rows[n].v = v]
  IN IF n = 0 THEN p
     ELSE IF p.def # a THEN q
     ELSE IF v.on /\ ~p.rows[n].v.on THEN NotifyDefault(q)
     ELSE UpdateVisibility([q EXCEPT !.tree = v.on])
DeviceAdded(p, d, v) ==
  LET n == RowOf(p, AdapterOf[d])
  IN IF n = 0 THEN p ELSE RowChanged([p EXCEPT !.rows[n].devices = Put(@, d, v)], d)
DeviceChanged(p, d, v) ==
  LET n == RowOf(p, AdapterOf[d])
  IN IF n = 0 \/ d \notin DOMAIN p.rows[n].devices THEN p
     ELSE RowChanged([p EXCEPT !.rows[n].devices[d] = v], d)
DeviceRemoved(p, d) ==
  LET n == RowOf(p, AdapterOf[d])
  IN IF n = 0 THEN p ELSE [p EXCEPT !.rows[n].devices = Without(@, d)]
\* bluez_vanished_cb clears the tree and tells nobody.
BluezVanished(p) == [p EXCEPT !.rows = <<>>, !.def = None, !.model = None]

Hear(p, s) ==
  CASE s.kind = "adapter_added" -> AdapterAdded(p, s.of, s.v)
    [] s.kind = "adapter_removed" -> AdapterRemoved(p, s.of)
    [] s.kind = "adapter" -> AdapterChanged(p, s.of, s.v)
    [] s.kind = "device_added" -> DeviceAdded(p, s.of, s.v)
    [] s.kind = "device_removed" -> DeviceRemoved(p, s.of)
    [] s.kind = "device" -> DeviceChanged(p, s.of, s.v)
    [] s.kind = "vanished" -> BluezVanished(p)

\* killswitch_changed of the panel
SwitchChanged(p) == UpdatePower(UpdateState(p))
\* killswitch_changed of the killswitch, one event
Applied(p, e) ==
  IF \A a \in Adapters : SwitchOf[a] # e.idx THEN p
  ELSE CASE e.op = "CHANGE" -> LET q == [p EXCEPT !.list = Updated(@, e)]
                               IN IF q.list = p.list THEN p ELSE SwitchChanged(q)
         [] e.op = "DEL" -> LET q == [p EXCEPT !.list = Removed(@, e)]
                            IN IF q.list = p.list THEN p ELSE SwitchChanged(q)
         [] e.op = "ADD" -> [p EXCEPT !.list = Append(@, [idx |-> e.idx, state |-> StateOf(e)])]
KillswitchChanged(p, events) ==
  LET q == FoldLeft(Applied, p, events)
  IN IF (\E n \in DOMAIN events : events[n].op # "CHANGE") /\ GetState(q.list) # GetState(p.list)
     THEN SwitchChanged(q) ELSE q

-----------------------------------------------------------------------------
(***************************************************************************)
(* bluetoothd: what is there, and what it says.                            *)
(***************************************************************************)
Says(w, signals) == [w EXCEPT !.said = @ \o signals]
SetAdapter(w, a, v) ==
  IF w.adapters[a] = v THEN w ELSE Says([w EXCEPT !.adapters[a] = v], <<Signal("adapter", a, v)>>)
RemoveDevice(w, d) ==
  IF d \notin DOMAIN w.devices THEN w
  ELSE Says([w EXCEPT !.devices = Without(@, d)], <<Signal("device_removed", d, w.devices[d])>>)
\* An adapter goes after its devices.
RemoveAdapter(w, a) ==
  LET of == {d \in DOMAIN w.devices : AdapterOf[d] = a}
      bare == FoldLeft(RemoveDevice, w, SetToSeq(of))
  IN Says([bare EXCEPT !.adapters = Without(@, a)], <<Signal("adapter_removed", a, w.adapters[a])>>)
\* A blocked adapter has no power.
Follow(w) ==
  LET dark == {a \in DOMAIN w.adapters : w.adapters[a].on /\ SwitchOf[a] \in DOMAIN w.kernel.sw
                                        /\ Blocked(w.kernel.sw[SwitchOf[a]])}
  IN FoldLeft(LAMBDA ww, a : SetAdapter(ww, a, [on |-> FALSE, seen |-> FALSE]), w, SetToSeq(dark))
MayTurnOn(w, a) ==
  a \in DOMAIN w.adapters /\ (SwitchOf[a] \in DOMAIN w.kernel.sw => ~Blocked(w.kernel.sw[SwitchOf[a]]))
\* GetManagedObjects: the adapters before their devices
Managed(w) ==
  LET as == SetToSeq(DOMAIN w.adapters)  ds == SetToSeq(DOMAIN w.devices)
  IN [n \in 1..Len(as) |-> Signal("adapter_added", as[n], w.adapters[as[n]])]
     \o [n \in 1..Len(ds) |-> Signal("device_added", ds[n], w.devices[ds[n]])]

-----------------------------------------------------------------------------
(***************************************************************************)
(* What the user does.                                                     *)
(***************************************************************************)
UserMakes(w) ==
  /\ panel.question = None
  /\ world.actions < MaxActions
  /\ world' = [w EXCEPT !.actions = @ + 1]
SelectDevice(d) ==
  /\ panel.message = "devices" /\ panel.tree
  /\ d \in Listed(panel) \ {panel.sel}
  /\ UserMakes(world)
  /\ panel' = UpdateProperties([panel EXCEPT !.sel = d])
  /\ UNCHANGED calls
\* power_callback: all Bluetooth switches of the kernel, whatever adapter they belong to
PowerCallback ==
  /\ panel.sensitive
  /\ panel' = [panel EXCEPT !.power = ~@]
  /\ UserMakes(Follow([world EXCEPT !.kernel = ChangeAll(@, {SwitchOf[a] : a \in Adapters}, panel.power)]))
  /\ UNCHANGED calls
\* switch_discoverable_active_changed waits for the answer; what came of it comes as a signal.
SwitchDiscoverable ==
  /\ panel.sensitive /\ panel.def # None
  /\ panel' = [panel EXCEPT !.visible = ~@]
  /\ UserMakes(IF panel.def \in DOMAIN world.adapters /\ world.adapters[panel.def].on
               THEN SetAdapter(world, panel.def, [on |-> TRUE, seen |-> ~panel.visible]) ELSE world)
  /\ UNCHANGED calls
\* delete_clicked asks first; the answer is about what is selected then.
DeleteClicked ==
  /\ panel.toolbar /\ panel.props # None
  /\ UserMakes(world)
  /\ panel' = [panel EXCEPT !.question = panel.sel, !.gone = FALSE]
  /\ UNCHANGED calls
DeleteResponse(remove) ==
  /\ panel.question # None
  /\ panel' = [panel EXCEPT !.question = None, !.gone = FALSE]
  /\ world' = IF remove /\ panel.sel # None
              THEN [RemoveDevice(world, panel.sel) EXCEPT
                      !.removed = [asked |-> panel.question, done |-> panel.sel, gone |-> panel.gone]]
              ELSE world
  /\ UNCHANGED calls

-----------------------------------------------------------------------------
\* A new default adapter without power is asked to power up.
Asked(q, s) ==
  IF s.kind \in {"adapter_added", "adapter_removed"} /\ q.def # None /\ ~Powered(q)
     /\ (s.of = panel.def \/ q.def # panel.def)
  THEN {q.def} ELSE {}
HearBluez ==
  /\ world.said # <<>>
  /\ LET s == Head(world.said)
         p == Hear(panel, s)
     IN /\ panel' \in Settled([p EXCEPT !.gone = @ \/ panel.question \notin Listed(p) \cup {None}])
        /\ calls' = calls \cup Asked(p, s)
  /\ world' = [world EXCEPT !.said = Tail(@)]
HearKernel ==
  /\ \E n \in 1..Len(world.kernel.events) :
       /\ panel' = KillswitchChanged(panel, Reading(world.kernel, n))
       /\ world' = [world EXCEPT !.kernel = Read(@, n)]
  /\ UNCHANGED calls
\* powered_callback says nothing of a failure.
SetPowered(a) ==
  /\ a \in calls
  /\ calls' = calls \ {a}
  /\ world' = IF MayTurnOn(world, a) THEN SetAdapter(world, a, [world.adapters[a] EXCEPT !.on = TRUE]) ELSE world
  /\ UNCHANGED panel

Becomes(w) ==
  /\ world.changes < MaxChanges
  /\ world' = [w EXCEPT !.changes = @ + 1]
  /\ UNCHANGED <<panel, calls>>
AdapterMoves(a) ==
  IF a \in DOMAIN world.adapters
  THEN \/ Becomes(RemoveAdapter(world, a))
       \/ MayTurnOn(world, a) /\ Becomes(SetAdapter(world, a, [on |-> ~world.adapters[a].on, seen |-> FALSE]))
  ELSE Becomes(Says([world EXCEPT !.adapters = Put(@, a, [on |-> FALSE, seen |-> FALSE])],
                    <<Signal("adapter_added", a, [on |-> FALSE, seen |-> FALSE])>>))
DeviceMoves(d) ==
  IF d \in DOMAIN world.devices
  THEN \/ Becomes(RemoveDevice(world, d))
       \/ \E v \in [on : BOOLEAN, seen : BOOLEAN] \ {world.devices[d]} :
            Becomes(Says([world EXCEPT !.devices[d] = v], <<Signal("device", d, v)>>))
  ELSE /\ AdapterOf[d] \in DOMAIN world.adapters
       /\ Becomes(Says([world EXCEPT !.devices = Put(@, d, [on |-> FALSE, seen |-> TRUE])],
                       <<Signal("device_added", d, [on |-> FALSE, seen |-> TRUE])>>))
SwitchMoves(i) ==
  IF i \in DOMAIN world.kernel.sw
  THEN \/ Becomes([world EXCEPT !.kernel = Unplug(@, i)])
       \/ Becomes(Follow([world EXCEPT !.kernel = Slide(@, i)]))
  ELSE \E soft \in BOOLEAN : Becomes(Follow([world EXCEPT !.kernel = Plug(@, i, soft)]))
BluezRestarts ==
  Becomes(Says(world, <<Signal("vanished", None, [on |-> FALSE, seen |-> FALSE])>> \o Managed(world)))

-----------------------------------------------------------------------------
NoPanel ==
  [list |-> <<>>, rows |-> <<>>, def |-> None, model |-> None, sel |-> None, props |-> None, tree |-> FALSE,
   message |-> "no_adapters", sensitive |-> FALSE, toolbar |-> FALSE, power |-> FALSE, visible |-> FALSE,
   switch |-> FALSE, question |-> None, gone |-> FALSE]
\* The switches are read while the panel is made; bluetoothd is found later.
Init ==
  \E as \in SUBSET Adapters, soft \in BOOLEAN :
    /\ world = LET w == [adapters |-> [a \in as |-> [on |-> ~soft, seen |-> FALSE]],
                     devices |-> [d \in {dd \in Devices : AdapterOf[dd] \in as} |-> [on |-> FALSE, seen |-> TRUE]],
                     kernel |-> [sw |-> [i \in {SwitchOf[a] : a \in as} |-> [soft |-> soft, hard |-> FALSE]],
                                 events |-> <<>>],
                     said |-> <<>>, removed |-> [asked |-> None, done |-> None, gone |-> FALSE], actions |-> 0, changes |-> 0]
               IN Says(w, Managed(w))
    /\ panel = UpdatePower(FoldLeft(Applied, NoPanel, Added(world.kernel.sw)))
    /\ calls = {}
Answers == HearBluez \/ HearKernel \/ \E a \in Adapters : SetPowered(a)
Next ==
  \/ \E d \in Devices : SelectDevice(d) \/ DeviceMoves(d)
  \/ PowerCallback \/ SwitchDiscoverable \/ DeleteClicked
  \/ \E remove \in BOOLEAN : DeleteResponse(remove)
  \/ Answers
  \/ \E a \in Adapters : AdapterMoves(a) \/ SwitchMoves(SwitchOf[a])
  \/ BluezRestarts

-----------------------------------------------------------------------------
(***************************************************************************)
(* What the panel keeps to.                                                *)
(***************************************************************************)
\* When all is heard, the devices that are listed are known to bluetoothd, paired or trusted.
ListsKnownDevices ==
  (world.said = <<>> /\ panel.model # None) => \A d \in Listed(panel) : d \in DOMAIN world.devices /\ world.devices[d].seen
\* The device that is removed is the one the question was about, unless that one went from the list
\* before the answer: then the one that took the selection is removed.
RemovesTheDeviceAsked == ~world.removed.gone => world.removed.asked = world.removed.done
\* The details are those of the selected device, and the switch tells whether it is connected.
DetailsOfTheSelected ==
  /\ panel.props = panel.sel
  /\ panel.sel # None => panel.switch = panel.rows[RowOf(panel, panel.model)].devices[panel.sel].on
\* When all events are read the killswitch has each switch once, with the state it is in.
SwitchesAreKnown ==
  (world.said = <<>> /\ world.kernel.events = <<>>)
    => /\ Len(panel.list) = Cardinality(DOMAIN world.kernel.sw)
       /\ \A n \in DOMAIN panel.list :
            /\ panel.list[n].idx \in DOMAIN world.kernel.sw
            /\ panel.list[n].state = StateOf(world.kernel.sw[panel.list[n].idx])
=============================================================================
