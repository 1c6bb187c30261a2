----------------------------- MODULE WirelessDevice -----------------------------
(***************************************************************************)
(* The page of a wireless device in the network panel (net-device-wifi.c): *)
(* the list of the networks, the details of one of them, and the hotspot.  *)
(*                                                                         *)
(* The page is drawn again (nm_device_wifi_refresh_ui) when the state of   *)
(* the device changes, when something it asked for fails, and when a       *)
(* network is selected.  An access point that comes or goes, or a          *)
(* connection that another tool saves or deletes, says nothing to it, so   *)
(* what the user acts on may be old.                                       *)
(***************************************************************************)
EXTENDS Integers, FiniteSets, FiniteSetsExt

CONSTANTS
  Aps,              \* the access points
  SsidOf,           \* the network of each
  Strength,         \* how strong each is
  Secured,          \* those that want an 802.1x login
  Escaped,          \* the networks whose name is not the text of their row
  MaxConnections,   \* how many connections may be saved
  MaxActions,       \* how often the user acts
  MaxChanges        \* how often the world changes by itself

VARIABLES
  panel,   \* NetDeviceWifi and its widgets
  calls,   \* what NetworkManager has not answered
  world    \* NetworkManager as its library shows it, the air, the counters

vars == <<panel, calls, world>>

Networks == {SsidOf[a] : a \in Aps}
NoAp == "no_ap"
Hotspot == "hotspot"
Connections == 1..MaxConnections
NoRow == [ap |-> NoAp, conn |-> 0, active |-> FALSE]

-----------------------------------------------------------------------------
(***************************************************************************)
(* What is drawn.                                                          *)
(***************************************************************************)

\* The strongest of the access points of each network (their strengths differ).
StrongestUniqueAps(aps) ==
  {a \in aps : \A b \in aps : SsidOf[b] = SsidOf[a] => Strength[b] <= Strength[a]}

DeviceIsHotspot(w) == w.active # 0 /\ w.saved[w.active] = Hotspot
\* Of several connections of a network, the row has the last one in the library's table.
SavedFor(w, n) ==
  LET of == {c \in DOMAIN w.saved : w.saved[c] = n}
  IN IF of = {} THEN 0 ELSE CHOOSE c \in of : TRUE

\* device_wifi_refresh_saved_connections: a saved connection completes the row of its network,
\* or is a row of its own that is out of range; rows are not taken away here.
AddSavedConnections(rows, w) ==
  [n \in Networks |-> IF SavedFor(w, n) = 0 THEN rows[n] ELSE [rows[n] EXCEPT !.conn = SavedFor(w, n)]]
\* device_wifi_refresh_aps: all rows are new.
RefreshAps(w) ==
  [n \in Networks |->
     LET of == {a \in StrongestUniqueAps(w.aps) : SsidOf[a] = n}
     IN IF of = {} THEN NoRow
        ELSE [ap |-> CHOOSE a \in of : TRUE, conn |-> 0,
              active |-> w.ap # NoAp /\ SsidOf[w.ap] = n]]

\* The key of the hotspot is asked for until it is known.
HotspotCalls(w) == IF w.key_known THEN {} ELSE {[op |-> "secrets"]}

\* The details of the selected network against the active access point: "no access point" is
\* equal to "no access point", so a device at rest gives its own state for a network out of range.
ButtonsOf(p, w) ==
  LET ap == IF p.ap \in w.aps THEN p.ap ELSE NoAp
  IN [same       |-> ap = w.ap,
      disconnect |-> ap = w.ap /\ w.active # 0,
      connect    |-> ap # w.ap /\ ap # NoAp]

RefreshUi(p, w) ==
  IF DeviceIsHotspot(w) THEN p
  ELSE [p EXCEPT !.off = w.radio, !.buttons = ButtonsOf(p, w),
                 !.rows = AddSavedConnections(RefreshAps(w), w)]
RefreshCalls(w) == IF DeviceIsHotspot(w) THEN HotspotCalls(w) ELSE {}

ShowWifiList(p) == [p EXCEPT !.page = "list"]
ShowHotspotUi(p) == [p EXCEPT !.page = "hotspot", !.hotspot = TRUE]

-----------------------------------------------------------------------------
(***************************************************************************)
(* The user.                                                               *)
(***************************************************************************)

Send(cs) == calls' = calls \cup cs
\* The user acts, and no question is open: the questions are modal.
UserActs ==
  /\ world.actions < MaxActions
  /\ panel.question = "none"
  /\ world' = [world EXCEPT !.actions = @ + 1]
UserAnswers(question) ==
  /\ panel.question = question
  /\ UNCHANGED world

\* The switch is bound to the radio of all wireless devices; the requests keep their order.
DeviceOffToggled ==
  /\ UserActs
  /\ panel' = [panel EXCEPT !.off = ~@]
  /\ \A c \in calls : c.op # "radio"
  /\ Send({[op |-> "radio", on |-> ~panel.off]})

Activate(conn) == [op |-> "activate", conn |-> conn, ap |-> NoAp]
\* A connection that fits is looked for by the text of the row; the shared ones fit too.  With
\* none, one is made, or the panel's dialog for an 802.1x login is shown instead.
WirelessTryToConnect(n, ap) ==
  IF n \notin Escaped /\ SavedFor(world, n) # 0 THEN Send({Activate(SavedFor(world, n))})
  ELSE IF ap \in Secured /\ ap \in world.aps THEN UNCHANGED calls
  ELSE Send({[op |-> "add", conn |-> 0, ap |-> ap]})

\* A click on the name of a network
ConnectWifiNetwork(n) ==
  /\ UserActs
  /\ panel.page = "list" /\ panel.rows[n] # NoRow
  /\ LET row == panel.rows[n]
     IN IF row.ap = NoAp THEN UNCHANGED calls
        ELSE IF row.conn # 0 THEN Send({Activate(row.conn)})
        ELSE WirelessTryToConnect(n, row.ap)
  /\ UNCHANGED panel

ArrowVisible(row) == row.active \/ row.conn # 0
ShowWifiDetails(n) ==
  /\ UserActs
  /\ panel.page = "list" /\ ArrowVisible(panel.rows[n])
  /\ LET row == panel.rows[n]
         selected == [panel EXCEPT !.ap = row.ap, !.conn = row.conn, !.ssid = n]
     IN panel' = [RefreshUi(selected, world) EXCEPT !.page = "details"]
  /\ Send(RefreshCalls(world))
BackToList ==
  /\ UserActs
  /\ panel.page = "details"
  /\ panel' = ShowWifiList(panel)
  /\ UNCHANGED calls

ConnectButtonClicked ==
  /\ UserActs
  /\ panel.page = "details" /\ panel.buttons.connect
  /\ Send(IF panel.conn # 0 THEN {Activate(panel.conn)} ELSE {})
  /\ UNCHANGED panel
DisconnectButtonClicked ==
  /\ UserActs
  /\ panel.page = "details" /\ panel.buttons.disconnect
  /\ Send({[op |-> "disconnect", shown |-> panel.ssid]})
  /\ UNCHANGED panel

ForgetButtonClicked ==
  /\ UserActs
  /\ panel.page = "details"
  /\ panel' = [panel EXCEPT !.question = "forget", !.about = panel.ssid]
  /\ UNCHANGED calls
\* Mutant: the connection that is in use is forgotten.
ForgetActive(ok) ==
  /\ UserAnswers("forget")
  /\ panel' = [panel EXCEPT !.question = "none"]
  /\ Send(IF ok /\ world.active # 0
          THEN {[op |-> "delete", conn |-> world.active, about |-> panel.about]} ELSE {})

\* The connection is the one that is selected now; it may be gone.
ForgetNetworkResponse(ok) ==
  /\ UserAnswers("forget")
  /\ panel' = [panel EXCEPT !.question = "none"]
  /\ Send(IF ok /\ panel.conn \in DOMAIN world.saved
          THEN {[op |-> "delete", conn |-> panel.conn, about |-> panel.about]} ELSE {})

\* The dialog is one of the builder and is only hidden: each time, one more handler waits for
\* its response.
StartHotspot ==
  /\ UserActs
  /\ panel.page = "list"
  /\ panel' = [panel EXCEPT !.question = "start", !.handlers = @ + 1]
  /\ UNCHANGED calls
HotspotConnection(w) == SavedFor(w, Hotspot)
StartSharedConnection(n) == [op |-> "hotspot", conn |-> HotspotConnection(world), n |-> n]
StartHotspotResponse(ok) ==
  /\ UserAnswers("start")
  /\ panel' = [panel EXCEPT !.question = "none"]
  /\ Send(IF ok THEN {StartSharedConnection(n) : n \in 1..panel.handlers} ELSE {})

\* Any change of the switch asks the same question; a refusal leaves the switch as it is.
SwitchHotspotChanged ==
  /\ UserActs
  /\ panel.page = "hotspot"
  /\ panel' = [panel EXCEPT !.hotspot = ~@, !.question = "stop"]
  /\ UNCHANGED calls
\* Whatever is active on the device ends; the page is drawn before it has.
StopHotspotResponse(ok) ==
  /\ UserAnswers("stop")
  /\ LET closed == [panel EXCEPT !.question = "none"]
     IN IF ~ok THEN panel' = closed /\ UNCHANGED calls
        ELSE /\ panel' = ShowWifiList(RefreshUi(closed, world))
             /\ Send(RefreshCalls(world)
                     \cup IF world.active # 0 THEN {[op |-> "deactivate", conn |-> world.active]} ELSE {})

-----------------------------------------------------------------------------
(***************************************************************************)
(* NetworkManager answers.                                                 *)
(***************************************************************************)

Answer(call, others) == calls' = (calls \ {call}) \cup others

\* connection_activate_cb and connection_add_activate_cb: a failure draws the page.
ActivationFailed(call) ==
  /\ call \in calls /\ call.op \in {"activate", "add"}
  /\ panel' = RefreshUi(panel, world)
  /\ Answer(call, RefreshCalls(world)) /\ UNCHANGED world

NextConnection(w) == Cardinality(DOMAIN w.saved) + w.deleted + 1
Save(w, n) ==
  LET c == NextConnection(w)
  IN [w EXCEPT !.saved = [d \in DOMAIN @ \cup {c} |-> IF d = c THEN n ELSE @[d]]]
Become(w, conn, ap) == [w EXCEPT !.active = conn, !.ap = ap, !.state_changed = TRUE]

Activated(call) ==
  /\ call \in calls /\ call.op \in {"activate", "add"} /\ world.radio
  /\ \/ /\ call.op = "activate" /\ call.conn \in DOMAIN world.saved
        /\ LET n == world.saved[call.conn]
           IN \E a \in world.aps : SsidOf[a] = n /\ world' = Become(world, call.conn, a)
     \/ /\ call.op = "add" /\ call.ap \in world.aps
        /\ NextConnection(world) \in Connections
        /\ world' = Become(Save(world, SsidOf[call.ap]), NextConnection(world), call.ap)
  /\ Answer(call, {}) /\ UNCHANGED panel

\* activate_cb: what was running ends, the hotspot has no access point.
HotspotStarted(call) ==
  /\ call \in calls /\ call.op = "hotspot" /\ world.radio
  /\ \/ /\ call.conn \in DOMAIN world.saved
        /\ world' = Become(world, call.conn, NoAp)
     \/ /\ call.conn = 0 /\ NextConnection(world) \in Connections
        /\ world' = Become(Save(world, Hotspot), NextConnection(world), NoAp)
  /\ panel' = ShowHotspotUi(RefreshUi(panel, world'))
  /\ Answer(call, RefreshCalls(world'))
\* A failed start, or a deletion that failed, is only logged; a key that could not be read is
\* asked for again.
RequestFailed(call) ==
  /\ call \in calls /\ call.op \in {"hotspot", "delete", "secrets"}
  /\ IF call.op = "secrets"
     THEN panel' = RefreshUi(panel, world) /\ Answer(call, RefreshCalls(world))
     ELSE UNCHANGED panel /\ Answer(call, {})
  /\ UNCHANGED world
GetSecrets(call) ==
  /\ call \in calls /\ call.op = "secrets"
  /\ world' = [world EXCEPT !.key_known = TRUE]
  /\ panel' = RefreshUi(panel, world')
  /\ Answer(call, RefreshCalls(world'))

\* The device or one of its connections is told to stop; there is no answer to handle.
Stopped(call) ==
  /\ call \in calls /\ call.op \in {"disconnect", "deactivate"}
  /\ world' = IF world.active = 0 \/ (call.op = "deactivate" /\ call.conn # world.active) THEN world
              ELSE Become(world, 0, NoAp)
  /\ Answer(call, {}) /\ UNCHANGED panel

Forget(w, conn) ==
  LET kept == [w EXCEPT !.saved = [d \in DOMAIN @ \ {conn} |-> @[d]], !.deleted = @ + 1]
  IN IF w.active = conn THEN Become(kept, 0, NoAp) ELSE kept
\* forget_network_connection_delete_cb: the row of the connection that is selected by now goes.
ForgetNetworkConnectionDeleted(call) ==
  /\ call \in calls /\ call.op = "delete" /\ call.conn \in DOMAIN world.saved
  /\ world' = Forget(world, call.conn)
  /\ panel' = ShowWifiList([panel EXCEPT !.rows =
       [n \in Networks |-> IF panel.conn # 0 /\ @[n].conn = panel.conn THEN NoRow ELSE @[n]]])
  /\ Answer(call, {})

RadioSet(call) ==
  /\ call \in calls /\ call.op = "radio"
  /\ world' = IF world.radio = call.on THEN world
              ELSE [Become(world, 0, NoAp) EXCEPT !.radio = call.on, !.radio_changed = TRUE, !.aps = {}]
  /\ Answer(call, {}) /\ UNCHANGED panel

-----------------------------------------------------------------------------
(***************************************************************************)
(* Signals, and what happens by itself.                                    *)
(***************************************************************************)

\* "state-changed" of the device
StateChanged ==
  /\ world.state_changed
  /\ panel' = RefreshUi(panel, world)
  /\ Send(RefreshCalls(world))
  /\ world' = [world EXCEPT !.state_changed = FALSE]
\* notify::wireless-enabled: the switch follows without a request of its own.
WirelessEnabledToggled ==
  /\ world.radio_changed
  /\ panel' = [panel EXCEPT !.off = world.radio]
  /\ world' = [world EXCEPT !.radio_changed = FALSE]
  /\ UNCHANGED calls
\* "connections-read", once: straight to the hotspot if there is one
RemoteSettingsRead ==
  /\ ~world.read
  /\ LET listed == [panel EXCEPT !.rows = AddSavedConnections(@, world)]
     IN panel' = IF DeviceIsHotspot(world) THEN ShowHotspotUi(listed) ELSE listed
  /\ Send(RefreshCalls(world))
  /\ world' = [world EXCEPT !.read = TRUE]

ByItself(w) == world.changes < MaxChanges /\ world' = [w EXCEPT !.changes = @ + 1]
AirChanges(ap) ==
  /\ world.radio
  /\ LET moved == [world EXCEPT !.aps = IF ap \in @ THEN @ \ {ap} ELSE @ \cup {ap}]
     IN ByItself(IF world.ap \in moved.aps \cup {NoAp} THEN moved ELSE Become(moved, 0, NoAp))
  /\ UNCHANGED <<panel, calls>>
OtherToolDeletes(conn) ==
  /\ conn \in DOMAIN world.saved
  /\ ByItself(Forget(world, conn))
  /\ UNCHANGED <<panel, calls>>
OtherToolTurnsRadio ==
  /\ ByItself([Become(world, 0, NoAp) EXCEPT !.radio = ~@, !.radio_changed = TRUE, !.aps = {}])
  /\ UNCHANGED <<panel, calls>>

-----------------------------------------------------------------------------
\* The connections may be read before the page is made or after it.
Init ==
  \E saved \in {<<>>, <<Hotspot>>} \cup {<<n>> : n \in Networks}
             \cup {<<p[1], p[2]>> : p \in {q \in Networks \X Networks : q[1] # q[2]}},
     active \in 0..2 :
    /\ active \in {0} \cup DOMAIN saved
    /\ world = [aps |-> Aps, saved |-> saved, active |-> active,
                ap |-> IF active = 0 \/ saved[active] = Hotspot THEN NoAp
                       ELSE CHOOSE a \in Aps : SsidOf[a] = saved[active],
                radio |-> TRUE, key_known |-> FALSE, read |-> FALSE, deleted |-> 0,
                state_changed |-> FALSE, radio_changed |-> FALSE, actions |-> 0, changes |-> 0]
    /\ panel = RefreshUi([page |-> "list", rows |-> [n \in Networks |-> NoRow], ap |-> NoAp, conn |-> 0,
                          ssid |-> "none", off |-> FALSE, hotspot |-> FALSE, handlers |-> 0,
                          buttons |-> [same |-> TRUE, disconnect |-> FALSE, connect |-> FALSE],
                          question |-> "none", about |-> "none"], world)
    /\ calls = RefreshCalls(world)

Answers ==
  \/ \E c \in calls : \/ Activated(c) \/ ActivationFailed(c) \/ HotspotStarted(c) \/ RequestFailed(c)
                      \/ GetSecrets(c) \/ Stopped(c) \/ ForgetNetworkConnectionDeleted(c) \/ RadioSet(c)
  \/ StateChanged \/ WirelessEnabledToggled \/ RemoteSettingsRead
Next ==
  \/ DeviceOffToggled \/ BackToList \/ ConnectButtonClicked \/ DisconnectButtonClicked
  \/ ForgetButtonClicked \/ StartHotspot \/ SwitchHotspotChanged
  \/ \E n \in Networks : ConnectWifiNetwork(n) \/ ShowWifiDetails(n)
  \/ \E ok \in BOOLEAN : ForgetNetworkResponse(ok) \/ StartHotspotResponse(ok) \/ StopHotspotResponse(ok)
  \/ Answers
  \/ \E ap \in Aps : AirChanges(ap)
  \/ \E c \in Connections : OtherToolDeletes(c)
  \/ OtherToolTurnsRadio

-----------------------------------------------------------------------------
(***************************************************************************)
(* What the page and its requests keep to.                                 *)
(***************************************************************************)
\* The connection that is deleted is one of the network the user was asked about, whatever was
\* shown or saved when the answer came.
DeletesTheNetworkAsked ==
  \A c \in calls : (c.op = "delete" /\ c.conn \in DOMAIN world.saved) => world.saved[c.conn] = c.about
\* The details offer to disconnect from the network that is in use, and from no other.  While a
\* hotspot runs the page is not drawn, and details that are opened then keep their old buttons.
DisconnectsWhatIsShown ==
  (panel.page = "details" /\ panel.buttons.disconnect /\ ~world.state_changed /\ ~DeviceIsHotspot(world))
    => (world.ap # NoAp /\ SsidOf[world.ap] = panel.ssid)
=============================================================================
