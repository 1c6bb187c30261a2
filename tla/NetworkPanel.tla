------------------------------ MODULE NetworkPanel ------------------------------
(***************************************************************************)
(* The network panel (cc-network-panel.c) and the objects of its rows:     *)
(* wired, wireless and mobile devices, VPN connections and the proxy       *)
(* (net-*.c), and the dialogs that it opens (network-dialogs.c).           *)
(*                                                                         *)
(* Each object adds a page to a notebook under its identifier; selecting a *)
(* row shows the first page with the identifier of the row's object.  Rows *)
(* go when their device or connection goes, and all of them when           *)
(* NetworkManager does; a page never goes.  What a page of a wireless      *)
(* device does is in WirelessDevice.                                       *)
(***************************************************************************)
EXTENDS Integers, FiniteSets, Sequences, Lists

CONSTANTS
  Wired, Wifi, Modem,   \* devices, by kind
  Vpns,                 \* VPN connections
  Order,                \* the identifiers as the rows are sorted: devices, VPNs, "proxy" the last
  MaxObjects,           \* how many objects are made
  MaxActions,           \* how often the user acts
  MaxChanges            \* how often the world changes by itself

VARIABLES
  panel,   \* CcNetworkPanel, its rows, pages and dialogs
  calls,   \* what NetworkManager has not done yet
  world    \* NetworkManager, the proxy settings, the counters

vars == <<panel, calls, world>>

Devices == Wired \cup Wifi \cup Modem
NoObject == [id |-> "none", n |-> 0]
NoArg == [op |-> "null", device |-> "none"]
Protocols == {"http", "https"}

-----------------------------------------------------------------------------
(***************************************************************************)
(* Rows and pages.                                                         *)
(***************************************************************************)

RowOf(p, id) == CHOOSE o \in p.rows : o.id = id
FindInModelById(p, id) == \E o \in p.rows : o.id = id
\* The rows are sorted: the places of Order that have one, and the first row of some places.
RowsAt(p, places) == {i \in places : FindInModelById(p, Order[i])}
FirstRow(p, places) == RowOf(p, Order[Least(RowsAt(p, places))])

\* nm_devices_treeview_clicked_cb: the first page of that identifier
Select(p, o) ==
  LET of == {i \in DOMAIN p.pages : p.pages[i].id = o.id}
  IN [p EXCEPT !.sel = o, !.remove = o.id \in Vpns,
               !.page = p.pages[Least(of)]]
SelectFirstDevice(p) == Select(p, FirstRow(p, DOMAIN Order))
\* A row that goes takes the selection with it; nothing is told to show another page.
Unselect(p, gone) == IF p.sel \in gone THEN [p EXCEPT !.sel = NoObject] ELSE p
DropRow(p, o) == Unselect([p EXCEPT !.rows = @ \ {o}], {o})

\* What the switch of a page shows when it is drawn.  A VPN asks for the connection that is
\* active; nothing draws it a second time.
Refreshed(id, w) ==
  CASE id \in Wired \cup Vpns -> id \in w.active
    [] id \in Modem -> w.wwan
    [] OTHER -> FALSE
\* Objects are made in order, for what has no row.
AddObjects(p, ids, w) ==
  LET new == Kept(Order, {i \in DOMAIN Order : Order[i] \in ids /\ ~FindInModelById(p, Order[i])})
      made == [k \in DOMAIN new |-> [id |-> new[k], n |-> p.made + k]]
  IN [p EXCEPT !.rows = @ \cup {made[k] : k \in DOMAIN made}, !.pages = @ \o made, !.made = @ + Len(new),
               !.on = @ \o [k \in DOMAIN new |-> Refreshed(new[k], w)]]

\* "state-changed": every page of the device is drawn, those of former objects too.
RefreshPages(p, ids, w) ==
  [p EXCEPT !.on = [n \in DOMAIN @ |-> IF p.pages[n].id \in ids THEN Refreshed(p.pages[n].id, w) ELSE @[n]]]

-----------------------------------------------------------------------------
(***************************************************************************)
(* The operation of the command line, or of a page.                        *)
(***************************************************************************)

Handles(arg, id) ==
  \/ id \in Wifi /\ arg.op \in {"create-wifi", "connect-hidden-wifi"}
  \/ id = arg.device /\ arg.op \in {"connect-3g", "connect-8021x-wifi", "show-device"}
WizardOf(device) == IF device \in Modem THEN {"wizard"} ELSE {"none"}
\* Access points come and go: the dialog of an 802.1x network is not shown without one, nor
\* that of a new network if sharing is not allowed.
DialogOf(arg) ==
  CASE arg.op = "create-wifi" -> {"wireless", "none"}
    [] arg.op = "connect-hidden-wifi" -> {"wireless"}
    [] arg.op = "connect-8021x-wifi" -> IF arg.device \in Wifi THEN {"wireless", "none"} ELSE {"none"}
    [] arg.op = "connect-3g" -> WizardOf(arg.device)
    [] OTHER -> {"none"}
\* The first row that fits takes the operation; without one it waits for the next occasion.
HandleArgv(p, dialog) ==
  LET of == {i \in DOMAIN Order : Order[i] \in Devices /\ Handles(p.arg, Order[i])}
  IN IF p.arg = NoArg \/ RowsAt(p, of) = {} THEN dialog = p.dialog /\ panel' = p
     ELSE /\ dialog \in DialogOf(p.arg)
          /\ panel' = [Select(p, FirstRow(p, of)) EXCEPT
                         !.dialog = dialog, !.about = p.arg.device, !.arg = NoArg]

\* manager_running: without devices NetworkManager's list is empty, not missing.
ManagerRunning(p, w, dialog) ==
  LET cleared == [p EXCEPT !.rows = {}, !.sel = NoObject, !.freed = @ \cup {o \in p.rows : o.id = "proxy"}]
      known == IF w.nm THEN AddObjects(p, w.devices, w) ELSE AddObjects(cleared, {"proxy"}, w)
  IN HandleArgv(SelectFirstDevice(known), dialog)

-----------------------------------------------------------------------------
(***************************************************************************)
(* The user.                                                               *)
(***************************************************************************)

Send(cs) == calls' = calls \cup cs
UserMakes(w) ==
  /\ world.actions < MaxActions
  /\ panel.mapped /\ panel.dialog = "none" /\ ~panel.misused
  /\ world' = [w EXCEPT !.actions = @ + 1]
UserActs == UserMakes(world)

SelectRow(o) ==
  /\ UserActs
  /\ o \in panel.rows /\ o # panel.sel
  /\ panel' = Select(panel, o)
  /\ UNCHANGED calls

\* The switch of the page that is shown.  The handler of a mobile device is connected twice;
\* nobody waits for the answers.
DeviceOffToggled ==
  LET o == panel.page
      on == ~panel.on[o.n]
      request(n) == [op |-> IF on THEN "activate" ELSE "deactivate", id |-> o.id, n |-> n]
  IN /\ UserActs
     /\ o.id \in Wired \cup Modem \cup Vpns
     /\ panel' = [panel EXCEPT !.on[o.n] = on]
     /\ Send(IF (o.id \in Vpns \cup Modem) /\ ~on /\ o.id \notin world.active THEN {}
             ELSE IF o.id \in Modem THEN {request(1), request(2)} ELSE {request(1)})

\* The rows of the list of connections are UUIDs, which are looked up as paths: an existing
\* connection is never found, and only the last row, which opens the wizard, does anything.
MobileConnectionChanged(new) ==
  /\ UserActs
  /\ panel.page.id \in Modem
  /\ panel' = IF new THEN [panel EXCEPT !.dialog = "wizard", !.about = panel.page.id] ELSE panel
  /\ UNCHANGED calls

SetArgv(op, device) ==
  /\ UserActs
  /\ \E dialog \in {"none", "wireless", "wizard"} :
       HandleArgv([panel EXCEPT !.arg = [op |-> op, device |-> device]], dialog)
  /\ UNCHANGED calls

\* The selected row has to be one of a VPN; its row goes with the connection.
RemoveConnection ==
  /\ UserActs
  /\ panel.remove /\ panel.sel \in panel.rows
  /\ Send({[op |-> "delete", id |-> panel.sel.id, n |-> panel.sel.n]})
  /\ UNCHANGED panel
\* gtk_dialog_run: the kind of a new connection is asked, and the editor started.
AddConnection ==
  /\ UserActs
  /\ panel' = [panel EXCEPT !.dialog = "type"]
  /\ UNCHANGED calls

Close(d, cs) ==
  /\ panel.dialog = d
  /\ panel' = [panel EXCEPT !.dialog = "none", !.about = "none"]
  /\ Send(cs) /\ UNCHANGED world
Connect(id) == [op |-> "activate", id |-> id, n |-> 1]
\* A similar connection is used instead of the one that was entered; a warning may be shown first.
WirelessDialogResponse(ok) == Close("wireless", IF ok THEN {Connect(panel.about)} ELSE {})
\* cdma_mobile_wizard_done, gsm_mobile_wizard_done: the wrong kind of modem is like a cancel.
MobileWizardDone(ok) == Close("wizard", IF ok THEN {Connect(panel.about)} ELSE {})
OtherResponse == Close("type", {}) \/ Close("warning", {})

-----------------------------------------------------------------------------
(***************************************************************************)
(* The proxy.                                                              *)
(***************************************************************************)

\* check_wpad_warning
Warned(mode, url) == mode = "auto" /\ ~url
ProxyMode(mode) ==
  /\ panel.page.id = "proxy" /\ mode # panel.proxy.mode
  /\ IF panel.page \in panel.freed
     THEN UserActs /\ panel' = [panel EXCEPT !.misused = TRUE]
     ELSE /\ UserMakes([world EXCEPT !.mode = mode])
          /\ panel' = [panel EXCEPT !.proxy.mode = mode, !.proxy.warned = Warned(mode, world.url)]
  /\ UNCHANGED calls
ProxyUrl(given) ==
  /\ world.changes < MaxChanges /\ given # world.url
  /\ world' = [world EXCEPT !.url = given, !.changes = @ + 1]
  /\ panel' = [panel EXCEPT !.proxy.warned = Warned(world.mode, given)]
  /\ UNCHANGED calls
\* Each protocol is told to the system by a call of its own, which may fail; a host that is
\* empty, like a mode that is not manual, resets it.
SetProxyForProtocol(mode, p) == IF mode = "manual" /\ p \in world.hosts THEN p ELSE "reset"
ApplySystemSettings(told) ==
  /\ panel.page.id = "proxy" /\ panel.page \notin panel.freed
  /\ UserMakes([world EXCEPT !.system =
       [p \in Protocols |-> IF p \in told THEN SetProxyForProtocol(world.mode, p) ELSE @[p]]])
  /\ UNCHANGED <<panel, calls>>

-----------------------------------------------------------------------------
(***************************************************************************)
(* NetworkManager.                                                         *)
(***************************************************************************)

Done(call, w, p) == calls' = calls \ {call} /\ world' = w /\ panel' = p
\* A request succeeds, and the device says that its state changed; or it fails, and nothing is.
Activated(call) ==
  LET w == [world EXCEPT !.active = @ \cup {call.id}]
  IN /\ call \in calls /\ call.op = "activate"
     /\ world.nm /\ call.id \in world.devices \cup world.vpns
     /\ Done(call, w, IF call.id \in Devices THEN RefreshPages(panel, {call.id}, w) ELSE panel)
Deactivated(call) ==
  LET w == [world EXCEPT !.active = @ \ {call.id}]
  IN /\ call \in calls /\ call.op = "deactivate"
     /\ world.nm
     /\ Done(call, w, IF call.id \in Devices THEN RefreshPages(panel, {call.id}, w) ELSE panel)
Refused(call) ==
  /\ call \in calls
  /\ Done(call, world, panel)

\* connection_removed_cb of each object of the connection, object_removed_cb: the row of that
\* identifier, then the row below it.
VpnRemoved(p, id) ==
  LET below == {k \in DOMAIN Order : \E m \in DOMAIN Order : m < k /\ Order[m] = id}
  IN IF ~FindInModelById(p, id) THEN p
     ELSE Select(DropRow(p, RowOf(p, id)), FirstRow(p, below))
Forget(w, id) == [w EXCEPT !.vpns = @ \ {id}, !.active = @ \ {id}]
VpnDeleted(call) ==
  /\ call \in calls /\ call.op = "delete" /\ world.nm /\ call.id \in world.vpns
  /\ Done(call, Forget(world, call.id), VpnRemoved(panel, call.id))

ByItself(w) == world.changes < MaxChanges /\ ~panel.misused /\ world' = [w EXCEPT !.changes = @ + 1]
OtherToolDeletesVpn(id) ==
  /\ world.nm /\ id \in world.vpns
  /\ ByItself(Forget(world, id))
  /\ panel' = VpnRemoved(panel, id) /\ UNCHANGED calls
\* notify_new_connection_cb
NewConnection(id) ==
  /\ world.nm /\ id \in Vpns \ world.vpns /\ panel.made < MaxObjects
  /\ ByItself([world EXCEPT !.vpns = @ \cup {id}])
  /\ panel' = AddObjects(panel, {id}, world') /\ UNCHANGED calls
DeviceAdded(id) ==
  /\ world.nm /\ id \in Devices \ world.devices /\ panel.made < MaxObjects
  /\ ByItself([world EXCEPT !.devices = @ \cup {id}])
  /\ panel' = AddObjects(panel, {id}, world') /\ UNCHANGED calls
DeviceRemoved(id) ==
  /\ world.nm /\ id \in world.devices
  /\ ByItself([world EXCEPT !.devices = @ \ {id}, !.active = @ \ {id}])
  /\ panel' = IF FindInModelById(panel, id) THEN DropRow(panel, RowOf(panel, id)) ELSE panel
  /\ UNCHANGED calls
StateChanged(id) ==
  /\ world.nm /\ id \in world.devices \cap Wired
  /\ ByItself([world EXCEPT !.active = IF id \in @ THEN @ \ {id} ELSE @ \cup {id}])
  /\ panel' = RefreshPages(panel, {id}, world') /\ UNCHANGED calls
WwanEnabled ==
  /\ world.nm /\ Modem # {}
  /\ ByItself([world EXCEPT !.wwan = ~@])
  /\ panel' = RefreshPages(panel, Modem, world')
  /\ UNCHANGED calls

\* NetworkManager ends: what was asked is lost.  When it is back, its connections are read again.
ManagerStops ==
  /\ world.nm /\ panel.made < MaxObjects
  /\ ByItself([world EXCEPT !.nm = FALSE, !.active = {}])
  /\ \E dialog \in {"none", "wireless", "wizard", "type"} : ManagerRunning(panel, world', dialog)
  /\ calls' = {}
ManagerStarts ==
  /\ ~world.nm /\ panel.made + Cardinality(world.devices) <= MaxObjects
  /\ ByItself([world EXCEPT !.nm = TRUE])
  /\ \E dialog \in {"none", "wireless", "wizard", "type"} : ManagerRunning(panel, world', dialog)
  /\ UNCHANGED calls
\* notify_connections_read_cb
ConnectionsRead ==
  /\ world.nm /\ ~panel.misused
  /\ \E id \in world.vpns : ~FindInModelById(panel, id)
  /\ panel.made + Cardinality(world.vpns) <= MaxObjects
  /\ panel' = AddObjects(panel, world.vpns, world)
  /\ UNCHANGED <<calls, world>>
\* The window is shown: a NetworkManager that does not run leaves the proxy, and a warning.
OnToplevelMap ==
  /\ ~panel.mapped
  /\ LET p == [panel EXCEPT !.mapped = TRUE]
     IN IF world.nm THEN \E dialog \in {"none", "wireless", "wizard"} : ManagerRunning(p, world, dialog)
        ELSE panel' = [SelectFirstDevice(p) EXCEPT !.dialog = "warning"]
  /\ UNCHANGED <<calls, world>>

-----------------------------------------------------------------------------
Init ==
  \E nm \in BOOLEAN :
    /\ world = [nm |-> nm, devices |-> Devices, vpns |-> Vpns, active |-> {},
                wwan |-> TRUE, mode |-> "none", url |-> FALSE, hosts |-> {"http"},
                system |-> [p \in Protocols |-> "reset"], actions |-> 0, changes |-> 0]
    /\ panel = AddObjects([rows |-> {}, pages |-> <<>>, on |-> <<>>, made |-> 0, sel |-> NoObject, page |-> NoObject,
                           remove |-> FALSE, arg |-> NoArg, dialog |-> "none", about |-> "none", mapped |-> FALSE,
                           freed |-> {}, misused |-> FALSE,
                           proxy |-> [mode |-> "none", warned |-> FALSE]], {"proxy"}, world)
    /\ calls = {}

Next ==
  \/ \E o \in panel.rows : SelectRow(o)
  \/ DeviceOffToggled \/ RemoveConnection \/ AddConnection \/ OtherResponse
  \/ \E b \in BOOLEAN : MobileConnectionChanged(b) \/ WirelessDialogResponse(b)
                         \/ MobileWizardDone(b) \/ ProxyUrl(b)
  \/ \E id \in Devices : \/ SetArgv("show-device", id) \/ SetArgv("connect-8021x-wifi", id)
                         \/ SetArgv("connect-3g", id)
  \/ SetArgv("create-wifi", "none") \/ SetArgv("connect-hidden-wifi", "none")
  \/ \E mode \in {"none", "manual", "auto"} : ProxyMode(mode)
  \/ \E told \in SUBSET Protocols : ApplySystemSettings(told)
  \/ \E c \in calls : Activated(c) \/ Deactivated(c) \/ Refused(c) \/ VpnDeleted(c)
  \/ \E id \in Vpns : OtherToolDeletesVpn(id) \/ NewConnection(id)
  \/ \E id \in Devices : DeviceAdded(id) \/ DeviceRemoved(id) \/ StateChanged(id)
  \/ WwanEnabled \/ ManagerStops \/ ManagerStarts \/ ConnectionsRead \/ OnToplevelMap

-----------------------------------------------------------------------------
(***************************************************************************)
(* What the list and the pages keep to.                                    *)
(***************************************************************************)
\* The page beside the list is that of the selected row, unless an object has two pages.
PageOfTheSelected ==
  (panel.sel # NoObject /\ \A i, j \in DOMAIN panel.pages : panel.pages[i].id = panel.pages[j].id => i = j)
    => panel.page = panel.sel
\* A device, a VPN and the proxy are listed once, however often NetworkManager tells of them.
ListedOnce == \A o, q \in panel.rows : o.id = q.id => o = q
\* The page of the proxy warns of automatic discovery exactly while there is no URL.
WarnsOfDiscovery == panel.proxy.warned <=> (world.mode = "auto" /\ ~world.url)
=============================================================================
