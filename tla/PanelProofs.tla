---------------------------- MODULE PanelProofs -----------------------------
(***************************************************************************)
(* Proofs about panels of PanelState: of each that its initial states      *)
(* satisfy an invariant, that every step preserves it and that it implies  *)
(* the panel's properties.  Those that keep lists are in ListPanelProofs.  *)
(***************************************************************************)
EXTENDS PanelState, FiniteSetTheorems, TLAPS

-----------------------------------------------------------------------------
(***************************************************************************)
(* The wireless device.                                                    *)
(***************************************************************************)

\* The operators of an instance are its own, those of FiniteSets too.
LEMMA InstanceCardinality ==
  ASSUME NEW S
  PROVE  Wireless!Cardinality(S) = Cardinality(S)
BY DEF Wireless!Cardinality, Cardinality

WirelessFields ==
  {"page", "rows", "ap", "conn", "ssid", "off", "hotspot", "handlers", "buttons", "question", "about"}
WirelessWorldFields ==
  {"aps", "saved", "active", "ap", "radio", "key_known", "read", "deleted",
   "state_changed", "radio_changed", "actions", "changes"}

\* How many connections there have been: numbers are not given twice.
Count(w) == Cardinality(DOMAIN w.saved) + w.deleted
\* A connection of a network, as long as it is saved.
Refers(c, n, w) == c \in 0..Count(w) /\ (c \in DOMAIN w.saved => w.saved[c] = n)

WirelessWorld(w) ==
  /\ DOMAIN w = WirelessWorldFields
  /\ IsFiniteSet(DOMAIN w.saved) /\ w.deleted \in Nat
  /\ \A c \in DOMAIN w.saved : c \in 1..Count(w)
  /\ w.aps \subseteq Config.wireless.Aps
  /\ w.active # 0 => (w.active \in DOMAIN w.saved
                      /\ (w.saved[w.active] = Wireless!Hotspot \/ w.ap # Wireless!NoAp))
WirelessRows(rows, w) ==
  \A n \in Wireless!Networks :
    /\ DOMAIN rows[n] = {"ap", "conn", "active"}
    /\ Refers(rows[n].conn, n, w)
    /\ rows[n].ap # Wireless!NoAp => Config.wireless.SsidOf[rows[n].ap] = n
WirelessPanel(p, w) ==
  /\ DOMAIN p = WirelessFields
  /\ DOMAIN p.rows = Wireless!Networks
  /\ WirelessRows(p.rows, w)
  /\ Refers(p.conn, p.ssid, w)
  /\ p.ap # Wireless!NoAp => Config.wireless.SsidOf[p.ap] = p.ssid
  /\ p.question = "forget" => p.about = p.ssid
WirelessCalls(cs, w) ==
  \A c \in cs :
    /\ c.op = "delete" => Refers(c.conn, c.about, w)
    /\ c.op = "hotspot" => Refers(c.conn, Wireless!Hotspot, w)
\* The details are those of the network in use, unless its change is still to be told.
Shows(p, w) ==
  (p.page = "details" /\ p.buttons.disconnect /\ ~w.state_changed /\ ~Wireless!DeviceIsHotspot(w))
    => (w.ap # Wireless!NoAp /\ Config.wireless.SsidOf[w.ap] = p.ssid)

\* What is known of the connections of w is not contradicted by v, which comes later.
Later(w, v) ==
  /\ Count(w) \in Nat /\ Count(v) \in Nat /\ Count(w) <= Count(v)
  /\ \A c \in DOMAIN v.saved : c \in 0..Count(w) => (c \in DOMAIN w.saved /\ v.saved[c] = w.saved[c])

WirelessOK == WirelessWorld(world) /\ WirelessPanel(panel, world) /\ WirelessCalls(calls, world)
/\ Shows(panel, world)

\* What referred to a connection refers to it when others are saved or deleted.
LEMMA ReferenceStays ==
  ASSUME NEW w, NEW v, NEW c, NEW n, Refers(c, n, w), Later(w, v)
  PROVE  Refers(c, n, v)
BY DEF Refers, Later

\* What comes later than later comes later.
LEMMA LaterLater ==
  ASSUME NEW u, NEW v, NEW w, Later(u, v), Later(v, w)
  PROVE  Later(u, w)
BY DEF Later

\* The rows of the list are about the connections that they were about.
LEMMA RowsStay ==
  ASSUME NEW w, NEW v, NEW rows, WirelessRows(rows, w), Later(w, v)
  PROVE  WirelessRows(rows, v)
BY ReferenceStays DEF WirelessRows

\* So is what is selected.
LEMMA PanelStays ==
  ASSUME NEW w, NEW v, NEW p, WirelessPanel(p, w), Later(w, v)
  PROVE  WirelessPanel(p, v)
BY ReferenceStays, RowsStay DEF WirelessPanel

\* So is what was asked of NetworkManager.
LEMMA CallsStay ==
  ASSUME NEW w, NEW v, NEW cs, WirelessCalls(cs, w), Later(w, v)
  PROVE  WirelessCalls(cs, v)
BY ReferenceStays DEF WirelessCalls

\* A new connection has a number that was never used.
LEMMA SaveLater ==
  ASSUME NEW w, WirelessWorld(w), NEW n
  PROVE  LET v == Wireless!Save(w, n)
             c == Wireless!NextConnection(w)
         IN /\ WirelessWorld(v) /\ Later(w, v)
            /\ c # 0 /\ c \in DOMAIN v.saved /\ v.saved[c] = n
            /\ v.aps = w.aps
<1> DEFINE c == Wireless!NextConnection(w)
           v == Wireless!Save(w, n)
           saved == [d \in DOMAIN w.saved \cup {c} |-> IF d = c THEN n ELSE w.saved[d]]
<1>1. v = [w EXCEPT !.saved = saved]
  BY DEF Wireless!Save
<1>2. c = Count(w) + 1
  BY InstanceCardinality DEF Wireless!NextConnection, Count
<1>3. Cardinality(DOMAIN w.saved) \in Nat /\ IsFiniteSet(DOMAIN w.saved) /\ w.deleted \in Nat
  BY FS_CardinalityType DEF WirelessWorld
<1>4. Count(w) \in Nat /\ c \in Nat /\ c \notin DOMAIN w.saved
  BY <1>2, <1>3 DEF WirelessWorld, Count
<1>5. IsFiniteSet(DOMAIN w.saved \cup {c}) /\ Cardinality(DOMAIN w.saved \cup {c}) = Cardinality(DOMAIN w.saved) + 1
  BY <1>3, <1>4, FS_AddElement
<1>6. DOMAIN saved = DOMAIN w.saved \cup {c} /\ saved[c] = n /\ \A d \in DOMAIN w.saved : saved[d] = w.saved[d]
  BY <1>4
<1> HIDE DEF c, saved
<1>7. v.saved = saved /\ v.deleted = w.deleted /\ v.aps = w.aps /\ v.active = w.active /\ v.ap = w.ap
      /\ DOMAIN v = WirelessWorldFields
  BY <1>1 DEF WirelessWorld, WirelessWorldFields
<1> HIDE DEF v
<1>8. Count(v) = Count(w) + 1
  BY <1>3, <1>5, <1>6, <1>7 DEF Count
<1>9. \A d \in DOMAIN v.saved : d \in 1..Count(v)
  BY <1>2, <1>4, <1>6, <1>7, <1>8 DEF WirelessWorld
<1>10. WirelessWorld(v)
  BY <1>3, <1>4, <1>5, <1>6, <1>7, <1>9 DEF WirelessWorld
<1>11. Later(w, v)
  BY <1>2, <1>4, <1>6, <1>7, <1>8 DEF Later
<1> QED
  BY <1>2, <1>4, <1>6, <1>7, <1>10, <1>11 DEF v, c

\* The device uses a connection, or none.
LEMMA BecomeLater ==
  ASSUME NEW w, WirelessWorld(w), NEW c, NEW a,
         c = 0 \/ (c \in DOMAIN w.saved /\ (w.saved[c] = Wireless!Hotspot \/ a # Wireless!NoAp))
  PROVE  LET v == Wireless!Become(w, c, a)
         IN /\ WirelessWorld(v) /\ Later(w, v) /\ v.state_changed
            /\ v.saved = w.saved /\ v.deleted = w.deleted /\ v.active = c /\ v.ap = a /\ v.aps = w.aps
<1> DEFINE v == Wireless!Become(w, c, a)
<1>1. /\ DOMAIN v = WirelessWorldFields /\ v.state_changed /\ v.saved = w.saved
      /\ v.deleted = w.deleted /\ v.active = c /\ v.ap = a /\ v.aps = w.aps
  BY DEF Wireless!Become, WirelessWorld, WirelessWorldFields
<1>2. Count(v) = Count(w)
  BY <1>1 DEF Count
<1>3. Count(w) \in Nat
  BY FS_CardinalityType DEF WirelessWorld, Count
<1> HIDE DEF v
<1>4. WirelessWorld(v) /\ Later(w, v)
  BY <1>1, <1>2, <1>3 DEF WirelessWorld, Later
<1> QED
  BY <1>1, <1>4 DEF v

\* A connection is deleted, and the device leaves it.
LEMMA ForgetLater ==
  ASSUME NEW w, WirelessWorld(w), NEW c \in DOMAIN w.saved
  PROVE  LET v == Wireless!Forget(w, c)
         IN /\ WirelessWorld(v) /\ Later(w, v) /\ v.aps = w.aps
            /\ v.state_changed \/ (v.state_changed = w.state_changed /\ v.ap = w.ap
                                   /\ v.active = w.active
                                   /\ (v.active # 0 => v.saved[v.active] = w.saved[v.active]))
<1> DEFINE saved == [d \in DOMAIN w.saved \ {c} |-> w.saved[d]]
           kept == [w EXCEPT !.saved = saved, !.deleted = @ + 1]
           v == Wireless!Forget(w, c)
<1>1. v = IF w.active = c THEN Wireless!Become(kept, 0, Wireless!NoAp) ELSE kept
  BY DEF Wireless!Forget
<1>3. Cardinality(DOMAIN w.saved) \in Nat /\ IsFiniteSet(DOMAIN w.saved) /\ w.deleted \in Nat
  BY FS_CardinalityType DEF WirelessWorld
<1>5. IsFiniteSet(DOMAIN w.saved \ {c}) /\ Cardinality(DOMAIN w.saved \ {c}) = Cardinality(DOMAIN w.saved) - 1
  BY <1>3, FS_RemoveElement
<1>6. DOMAIN saved = DOMAIN w.saved \ {c} /\ \A d \in DOMAIN w.saved \ {c} : saved[d] = w.saved[d]
  OBVIOUS
<1> HIDE DEF saved
<1>7. kept.saved = saved /\ kept.deleted = w.deleted + 1 /\ kept.aps = w.aps /\ kept.active = w.active
      /\ kept.ap = w.ap
      /\ kept.state_changed = w.state_changed /\ DOMAIN kept = WirelessWorldFields
  BY DEF WirelessWorld, WirelessWorldFields
<1> HIDE DEF kept
<1>8. Count(kept) = Count(w) /\ Count(w) \in Nat
  BY <1>3, <1>5, <1>6, <1>7 DEF Count
<1>9. CASE w.active = c
  <2>1. LET u == [kept EXCEPT !.active = 0] IN WirelessWorld(u) /\ Later(w, u)
        /\ Wireless!Become(u, 0, Wireless!NoAp) = v
    <3> DEFINE u == [kept EXCEPT !.active = 0]
    <3>1. u.saved = saved /\ u.deleted = w.deleted + 1 /\ u.aps = w.aps /\ u.active = 0
          /\ DOMAIN u = WirelessWorldFields
      BY <1>7 DEF WirelessWorldFields
    <3>2. Wireless!Become(u, 0, Wireless!NoAp) = Wireless!Become(kept, 0, Wireless!NoAp)
      BY <1>7 DEF Wireless!Become, WirelessWorldFields
    <3> HIDE DEF u
    <3>3. Count(u) = Count(w)
      BY <1>7, <1>8, <3>1 DEF Count
    <3>4. WirelessWorld(u) /\ Later(w, u)
      BY <1>3, <1>5, <1>6, <1>8, <3>1, <3>3 DEF WirelessWorld, Later
    <3> QED
      BY <1>1, <1>9, <3>2, <3>4 DEF u
  <2>2. PICK u : WirelessWorld(u) /\ Later(w, u) /\ Wireless!Become(u, 0, Wireless!NoAp) = v /\ u.aps = w.aps
    <3>1. LET u == [kept EXCEPT !.active = 0] IN u.aps = w.aps
      BY <1>7 DEF WirelessWorldFields
    <3> QED
      BY <2>1, <3>1
  <2>3. WirelessWorld(v) /\ Later(u, v) /\ v.state_changed /\ v.aps = w.aps
    BY <2>2, BecomeLater
  <2>4. Later(w, v)
    BY <2>2, <2>3, LaterLater
  <2> QED
    BY <2>3, <2>4
<1>10. CASE w.active # c
  <2>1. v = kept
    BY <1>1, <1>10
  <2>2. Later(w, kept)
    BY <1>6, <1>7, <1>8 DEF Later, WirelessWorld
  <2>3. WirelessWorld(kept)
    BY <1>3, <1>5, <1>6, <1>7, <1>8, <1>10 DEF WirelessWorld
  <2>4. kept.active # 0 => kept.saved[kept.active] = w.saved[kept.active]
    BY <1>6, <1>7, <1>10 DEF WirelessWorld
  <2> QED
    BY <1>7, <2>1, <2>2, <2>3, <2>4
<1> QED
  BY <1>9, <1>10

\* Only counters and flags of the world have changed.
SameAir(w, v) ==
  /\ DOMAIN v = WirelessWorldFields
  /\ v.saved = w.saved /\ v.deleted = w.deleted /\ v.active = w.active /\ v.ap = w.ap
  /\ v.aps \subseteq Config.wireless.Aps
\* Then the connections are the same.
LEMMA SameAirLater ==
  ASSUME NEW w, NEW v, WirelessWorld(w), SameAir(w, v)
  PROVE  WirelessWorld(v) /\ Later(w, v) /\ (Wireless!DeviceIsHotspot(v) <=> Wireless!DeviceIsHotspot(w))
<1>1. Count(v) = Count(w) /\ Count(w) \in Nat
  BY FS_CardinalityType DEF WirelessWorld, Count, SameAir
<1> QED
  BY <1>1 DEF WirelessWorld, Later, SameAir, Wireless!DeviceIsHotspot

\* The connection that a row is given is one of its network.
LEMMA SavedForRefers ==
  ASSUME NEW w, WirelessWorld(w), NEW n
  PROVE  Refers(Wireless!SavedFor(w, n), n, w) /\ Refers(0, n, w)
<1>1. Count(w) \in Nat
  BY FS_CardinalityType DEF WirelessWorld, Count
<1>2. Wireless!SavedFor(w, n) = 0 \/ (Wireless!SavedFor(w, n) \in DOMAIN w.saved
      /\ w.saved[Wireless!SavedFor(w, n)] = n)
  BY DEF Wireless!SavedFor
<1> QED
  BY <1>1, <1>2 DEF Refers, WirelessWorld

\* Rows are given their connections.
LEMMA AddedRows ==
  ASSUME NEW w, WirelessWorld(w), NEW rows, WirelessRows(rows, w)
  PROVE  WirelessRows(Wireless!AddSavedConnections(rows, w), w)
         /\ DOMAIN Wireless!AddSavedConnections(rows, w) = Wireless!Networks
<1>1. ASSUME NEW n \in Wireless!Networks
      PROVE  LET r == Wireless!AddSavedConnections(rows, w)[n]
             IN /\ DOMAIN r = {"ap", "conn", "active"} /\ r.ap = rows[n].ap
                /\ r.conn = rows[n].conn \/ r.conn = Wireless!SavedFor(w, n)
  BY DEF Wireless!AddSavedConnections, WirelessRows
<1> QED
  BY <1>1, SavedForRefers DEF WirelessRows, Wireless!AddSavedConnections

\* The list is drawn anew: each row has the connection of its network.
LEMMA RefreshedRows ==
  ASSUME NEW w, WirelessWorld(w)
  PROVE  WirelessRows(Wireless!RefreshAps(w), w)
<1>1. ASSUME NEW n \in Wireless!Networks
      PROVE  LET r == Wireless!RefreshAps(w)[n]
             IN DOMAIN r = {"ap", "conn", "active"} /\ r.conn = 0
             /\ (r.ap # Wireless!NoAp => Config.wireless.SsidOf[r.ap] = n)
  BY DEF Wireless!RefreshAps, Wireless!NoRow
<1> QED
  BY <1>1, SavedForRefers DEF WirelessRows

\* Drawing the page leaves what is selected, and makes the buttons those of the network in use,
\* except for a hotspot.
LEMMA Refreshed ==
  ASSUME NEW w, WirelessWorld(w), NEW p, WirelessPanel(p, w)
  PROVE  LET q == Wireless!RefreshUi(p, w)
         IN /\ WirelessPanel(q, w) /\ q.page = p.page
            /\ Wireless!DeviceIsHotspot(w) \/ (q.buttons.disconnect =>
               (w.ap # Wireless!NoAp /\ Config.wireless.SsidOf[w.ap] = q.ssid))
            /\ Wireless!DeviceIsHotspot(w) => q = p
<1> DEFINE rows == Wireless!AddSavedConnections(Wireless!RefreshAps(w), w)
           b == Wireless!ButtonsOf(p, w)
           r == w.radio
           q == [p EXCEPT !.off = r, !.buttons = b, !.rows = rows]
<1>1. Wireless!RefreshUi(p, w) = IF Wireless!DeviceIsHotspot(w) THEN p ELSE q
  BY DEF Wireless!RefreshUi
<1>2. WirelessRows(rows, w) /\ DOMAIN rows = Wireless!Networks
  BY AddedRows, RefreshedRows
<1>3. ASSUME ~Wireless!DeviceIsHotspot(w), b.disconnect
      PROVE w.ap # Wireless!NoAp /\ Config.wireless.SsidOf[w.ap] = p.ssid
  BY <1>3, WirelessAssumption DEF Wireless!ButtonsOf, Wireless!DeviceIsHotspot, WirelessWorld, WirelessPanel
<1> HIDE DEF rows, b, r
<1>4. /\ DOMAIN q = WirelessFields /\ q.rows = rows /\ q.buttons = b /\ q.page = p.page /\ q.ap = p.ap
      /\ q.conn = p.conn /\ q.ssid = p.ssid /\ q.question = p.question /\ q.about = p.about
  BY DEF WirelessPanel, WirelessFields
<1> HIDE DEF q
<1>5. WirelessPanel(q, w)
  BY <1>2, <1>4 DEF WirelessPanel
<1> QED
  BY <1>1, <1>3, <1>4, <1>5

\* What is asked for when the page is drawn is about no connection.
LEMMA CallAdded ==
  ASSUME NEW w, NEW cs, WirelessCalls(cs, w), NEW c, c.op # "delete", c.op # "hotspot"
  PROVE  WirelessCalls(cs \cup {c}, w)
BY DEF WirelessCalls
\* Then what was asked before still is about the connections it was about.
LEMMA RefreshCallsAdded ==
  ASSUME NEW w, NEW v, NEW cs, WirelessCalls(cs, w)
  PROVE  /\ WirelessCalls(cs \cup Wireless!RefreshCalls(v), w)
         /\ \A c : WirelessCalls((cs \ {c}) \cup Wireless!RefreshCalls(v), w)
            /\ WirelessCalls((cs \ {c}) \cup {}, w)
<1>1. \A c \in Wireless!RefreshCalls(v) : c.op = "secrets"
  BY DEF Wireless!RefreshCalls, Wireless!HotspotCalls
<1> QED
  BY <1>1 DEF WirelessCalls

\* The user acts: what is set leaves the selection alone, or is the network that is opened.
LEMMA WirelessUser ==
  ASSUME WirelessOK,
         \/ Wireless!DeviceOffToggled \/ Wireless!BackToList \/ Wireless!ConnectButtonClicked
            \/ Wireless!DisconnectButtonClicked
         \/ Wireless!ForgetButtonClicked \/ Wireless!StartHotspot \/ Wireless!SwitchHotspotChanged
         \/ \E n \in Wireless!Networks : Wireless!ConnectWifiNetwork(n) \/ Wireless!ShowWifiDetails(n)
  PROVE  WirelessOK'
<1> USE DEF WirelessOK
<1> DEFINE acts == world.actions + 1
<1>1. world' = [world EXCEPT !.actions = acts]
  BY DEF Wireless!DeviceOffToggled, Wireless!BackToList, Wireless!ConnectButtonClicked,
     Wireless!DisconnectButtonClicked, Wireless!ForgetButtonClicked,
     Wireless!StartHotspot, Wireless!SwitchHotspotChanged, Wireless!ConnectWifiNetwork,
     Wireless!ShowWifiDetails, Wireless!UserActs
<1> HIDE DEF acts
<1>2. SameAir(world, world') /\ world'.state_changed = world.state_changed
  BY <1>1 DEF SameAir, WirelessWorld, WirelessWorldFields
<1>3. WirelessWorld(world') /\ Later(world, world')
      /\ (Wireless!DeviceIsHotspot(world') <=> Wireless!DeviceIsHotspot(world))
  BY <1>2, SameAirLater
<1>4. WirelessPanel(panel, world') /\ WirelessCalls(calls, world')
  BY <1>3, PanelStays, CallsStay
<1>5. ASSUME NEW c, calls' = calls \cup {c}, c.op # "delete", c.op # "hotspot"
      PROVE  WirelessCalls(calls', world')
  BY <1>4, <1>5, CallAdded
<1>6. ASSUME DOMAIN panel' = WirelessFields, panel'.rows = panel.rows, panel'.conn = panel.conn,
             panel'.ap = panel.ap,
             panel'.ssid = panel.ssid, panel'.question # "forget" \/ panel'.about = panel'.ssid,
             panel'.page # "details" \/ (panel'.page = panel.page /\ panel'.buttons = panel.buttons)
      PROVE  WirelessPanel(panel', world') /\ Shows(panel', world')
  <2>1. WirelessPanel(panel', world')
    BY <1>4, <1>6 DEF WirelessPanel
  <2>2. Shows(panel', world')
    BY <1>2, <1>3, <1>6 DEF Shows, SameAir
  <2> QED
    BY <2>1, <2>2
<1>7. ASSUME UNCHANGED panel PROVE WirelessPanel(panel', world') /\ Shows(panel', world')
  BY <1>2, <1>3, <1>4, <1>7 DEF Shows, SameAir
<1>8. CASE Wireless!DeviceOffToggled
  <2>1. PICK off : panel' = [panel EXCEPT !.off = off]
    BY <1>8 DEF Wireless!DeviceOffToggled
  <2>2. WirelessPanel(panel', world') /\ Shows(panel', world')
    BY <1>6, <2>1 DEF WirelessPanel, WirelessFields
  <2>3. PICK on : calls' = calls \cup {[op |-> "radio", on |-> on]}
    BY <1>8 DEF Wireless!DeviceOffToggled, Wireless!Send
  <2>4. WirelessCalls(calls', world')
    <3> DEFINE c == [op |-> "radio", on |-> on]
    <3>1. c.op = "radio"
      OBVIOUS
    <3> HIDE DEF c
    <3> QED
      BY <1>5, <2>3, <3>1 DEF c
  <2> QED
    BY <1>3, <2>2, <2>4
<1>9. CASE Wireless!BackToList \/ Wireless!StartHotspot \/ Wireless!SwitchHotspotChanged
           \/ Wireless!ForgetButtonClicked
  <2>1. calls' = calls
    BY <1>9 DEF Wireless!BackToList, Wireless!StartHotspot, Wireless!SwitchHotspotChanged,
       Wireless!ForgetButtonClicked
  <2>2. PICK h, s :
          \/ panel' = [panel EXCEPT !.page = "list"]
          \/ panel' = [panel EXCEPT !.question = "start", !.handlers = h]
          \/ panel' = [panel EXCEPT !.hotspot = s, !.question = "stop"]
          \/ panel' = [panel EXCEPT !.question = "forget", !.about = panel.ssid]
    BY <1>9 DEF Wireless!BackToList, Wireless!StartHotspot, Wireless!SwitchHotspotChanged,
       Wireless!ForgetButtonClicked, Wireless!ShowWifiList
  <2>3. panel.question # "forget" \/ panel.about = panel.ssid
    BY DEF WirelessPanel
  <2>4. WirelessPanel(panel', world') /\ Shows(panel', world')
    BY <1>6, <2>2, <2>3 DEF WirelessPanel, WirelessFields
  <2> QED
    BY <1>3, <1>4, <2>1, <2>4
<1>10. CASE Wireless!ConnectButtonClicked \/ Wireless!DisconnectButtonClicked
            \/ \E n \in Wireless!Networks : Wireless!ConnectWifiNetwork(n)
  <2>1. UNCHANGED panel
    BY <1>10 DEF Wireless!ConnectButtonClicked, Wireless!DisconnectButtonClicked, Wireless!ConnectWifiNetwork
  <2>2. \/ UNCHANGED calls
        \/ \E c : calls' = calls \cup {Wireless!Activate(c)}
        \/ \E ap : calls' = calls \cup {[op |-> "add", conn |-> 0, ap |-> ap]}
        \/ \E n : calls' = calls \cup {[op |-> "disconnect", shown |-> n]}
    <3>1. CASE Wireless!DisconnectButtonClicked
      BY <3>1 DEF Wireless!DisconnectButtonClicked, Wireless!Send
    <3>2. CASE Wireless!ConnectButtonClicked
      <4>1. calls' = calls \cup {Wireless!Activate(panel.conn)} \/ calls' = calls \cup {}
        BY <3>2 DEF Wireless!ConnectButtonClicked, Wireless!Send
      <4> QED
        BY <4>1
    <3>3. ASSUME NEW n \in Wireless!Networks, Wireless!ConnectWifiNetwork(n)
          PROVE  \/ UNCHANGED calls
                 \/ \E c : calls' = calls \cup {Wireless!Activate(c)}
                 \/ \E ap : calls' = calls \cup {[op |-> "add", conn |-> 0, ap |-> ap]}
      BY <3>3, Zenon DEF Wireless!ConnectWifiNetwork, Wireless!WirelessTryToConnect, Wireless!Send
    <3> QED
      BY <1>10, <3>1, <3>2, <3>3
  <2>3. calls' = calls \/ \E c : calls' = calls \cup {c} /\ c.op # "delete" /\ c.op # "hotspot"
    <3>1. /\ \A c : Wireless!Activate(c).op = "activate"
          /\ \A ap : [op |-> "add", conn |-> 0, ap |-> ap].op = "add"
          /\ \A n : [op |-> "disconnect", shown |-> n].op = "disconnect"
      BY DEF Wireless!Activate
    <3> QED
      BY <2>2, <3>1, Zenon
  <2> QED
    BY <1>3, <1>4, <1>5, <1>7, <2>1, <2>3
<1>11. ASSUME NEW n \in Wireless!Networks, Wireless!ShowWifiDetails(n) PROVE WirelessOK'
  <2> DEFINE row == panel.rows[n]
             q == [panel EXCEPT !.ap = row.ap, !.conn = row.conn, !.ssid = n]
             d == Wireless!RefreshUi(q, world)
  <2>1. panel' = [d EXCEPT !.page = "details"] /\ calls' = calls \cup Wireless!RefreshCalls(world)
        /\ panel.question = "none"
    BY <1>11 DEF Wireless!ShowWifiDetails, Wireless!Send, Wireless!UserActs
  <2>2. WirelessPanel(q, world)
    <3>1. /\ DOMAIN q = WirelessFields /\ q.rows = panel.rows /\ q.ap = row.ap /\ q.conn = row.conn
          /\ q.ssid = n /\ q.question = panel.question
      BY DEF WirelessPanel, WirelessFields
    <3> QED
      BY <2>1, <3>1 DEF WirelessPanel, WirelessRows
  <2> HIDE DEF q
  <2>3. /\ WirelessPanel(d, world)
        /\ Wireless!DeviceIsHotspot(world) \/ (d.buttons.disconnect =>
           (world.ap # Wireless!NoAp /\ Config.wireless.SsidOf[world.ap] = d.ssid))
    BY <2>2, Refreshed
  <2> HIDE DEF d
  <2>4. WirelessPanel(d, world')
    BY <1>3, <2>3, PanelStays
  <2>5. /\ DOMAIN panel' = WirelessFields /\ panel'.rows = d.rows /\ panel'.ap = d.ap /\ panel'.conn = d.conn
        /\ panel'.ssid = d.ssid /\ panel'.question = d.question /\ panel'.about = d.about
        /\ panel'.buttons = d.buttons
    BY <2>1, <2>3 DEF WirelessPanel, WirelessFields
  <2>6. WirelessPanel(panel', world')
    BY <2>4, <2>5 DEF WirelessPanel
  <2>7. Shows(panel', world')
    BY <1>2, <1>3, <2>3, <2>5 DEF Shows, SameAir
  <2>8. WirelessCalls(calls', world')
    BY <1>4, <2>1, RefreshCallsAdded
  <2> QED
    BY <1>3, <2>6, <2>7, <2>8
<1> QED
  BY <1>8, <1>9, <1>10, <1>11

\* What keeps the selection keeps the panel, as far as connections go.
SamePanel(p, q) ==
  /\ DOMAIN q = WirelessFields /\ q.conn = p.conn /\ q.ap = p.ap /\ q.ssid = p.ssid
  /\ q.question = "none" \/ (q.question = p.question /\ q.about = p.about)
LEMMA SelectionStays ==
  ASSUME NEW w, NEW p, WirelessPanel(p, w), NEW q, SamePanel(p, q), q.rows = p.rows
  PROVE  WirelessPanel(q, w)
BY DEF WirelessPanel, SamePanel

\* A question is answered.
LEMMA WirelessQuestion ==
  ASSUME WirelessOK, NEW ok \in BOOLEAN,
         Wireless!ForgetNetworkResponse(ok) \/ Wireless!StartHotspotResponse(ok) \/ Wireless!StopHotspotResponse(ok)
  PROVE  WirelessOK'
<1> USE DEF WirelessOK
<1> DEFINE p == [panel EXCEPT !.question = "none"]
<1>1. UNCHANGED world
  BY DEF Wireless!ForgetNetworkResponse, Wireless!StartHotspotResponse, Wireless!StopHotspotResponse,
     Wireless!UserAnswers
<1>2. p.rows = panel.rows /\ p.page = panel.page /\ p.buttons = panel.buttons /\ p.ssid = panel.ssid
      /\ SamePanel(panel, p)
  BY DEF SamePanel, WirelessPanel, WirelessFields
<1> HIDE DEF p
<1>3. WirelessPanel(p, world) /\ Shows(p, world)
  BY <1>2, SelectionStays DEF Shows
<1>4. CASE panel' = p /\ calls' = calls
  BY <1>1, <1>3, <1>4
<1>5. CASE Wireless!ForgetNetworkResponse(ok)
  <2> DEFINE c == [op |-> "delete", conn |-> panel.conn, about |-> panel.about]
  <2>1. panel' = p /\ panel.question = "forget" /\ (calls' = calls \cup {c} \/ calls' = calls \cup {})
    BY <1>5 DEF Wireless!ForgetNetworkResponse, Wireless!Send, Wireless!UserAnswers, p
  <2>2. Refers(c.conn, c.about, world) /\ c.op = "delete"
    BY <2>1 DEF WirelessPanel
  <2> HIDE DEF c
  <2>3. WirelessCalls(calls', world)
    BY <2>1, <2>2 DEF WirelessCalls
  <2> QED
    BY <1>1, <1>3, <2>1, <2>3
<1>6. CASE Wireless!StartHotspotResponse(ok)
  <2> DEFINE cs == {Wireless!StartSharedConnection(n) : n \in 1..panel.handlers}
  <2>1. panel' = p /\ (calls' = calls \cup cs \/ calls' = calls \cup {})
    BY <1>6 DEF Wireless!StartHotspotResponse, Wireless!Send, p
  <2>2. \A c \in cs : c.op = "hotspot" /\ c.conn = Wireless!SavedFor(world, Wireless!Hotspot)
    BY DEF Wireless!StartSharedConnection, Wireless!HotspotConnection
  <2> HIDE DEF cs
  <2>3. WirelessCalls(calls', world)
    BY <2>1, <2>2, SavedForRefers DEF WirelessCalls
  <2> QED
    BY <1>1, <1>3, <2>1, <2>3
<1>7. CASE Wireless!StopHotspotResponse(ok)
  <2> DEFINE d == Wireless!RefreshUi(p, world)
             q == [d EXCEPT !.page = "list"]
             c == [op |-> "deactivate", conn |-> world.active]
  <2>1. \/ panel' = p /\ calls' = calls
        \/ panel' = q /\ calls' = calls \cup (Wireless!RefreshCalls(world) \cup (IF world.active # 0 THEN {c}
           ELSE {}))
    BY <1>7, Zenon DEF Wireless!StopHotspotResponse, Wireless!Send, Wireless!ShowWifiList, p
  <2>2. c.op = "deactivate"
    OBVIOUS
  <2> HIDE DEF c
  <2>3. WirelessPanel(d, world)
    BY <1>3, Refreshed
  <2> HIDE DEF d
  <2>4. q.rows = d.rows /\ q.page = "list" /\ SamePanel(d, q)
    BY <2>3 DEF SamePanel, WirelessPanel, WirelessFields
  <2> HIDE DEF q
  <2>5. WirelessPanel(q, world) /\ Shows(q, world)
    BY <2>3, <2>4, SelectionStays DEF Shows
  <2>6. WirelessCalls(calls \cup Wireless!RefreshCalls(world), world)
    BY RefreshCallsAdded
  <2>7. WirelessCalls((calls \cup Wireless!RefreshCalls(world)) \cup {c}, world)
    BY <2>2, <2>6, CallAdded
  <2>8. \/ calls \cup (Wireless!RefreshCalls(world) \cup (IF world.active # 0 THEN {c}
           ELSE {})) = calls \cup Wireless!RefreshCalls(world)
        \/ calls \cup (Wireless!RefreshCalls(world) \cup (IF world.active # 0 THEN {c} ELSE {}))
             = (calls \cup Wireless!RefreshCalls(world)) \cup {c}
    <3>1. CASE world.active # 0
      BY <3>1
    <3>2. CASE ~(world.active # 0)
      BY <3>2
    <3> QED
      BY <3>1, <3>2
  <2> QED
    BY <1>1, <1>4, <2>1, <2>5, <2>6, <2>7, <2>8
<1> QED
  BY <1>5, <1>6, <1>7

\* The world moves on and the panel does not: a change of the network in use is still to be told.
LEMMA WorldMoves ==
  ASSUME WirelessOK, UNCHANGED panel, WirelessWorld(world'), Later(world, world'),
         NEW more, calls' = (calls \ more) \/ calls' = calls,
         \/ world'.state_changed
         \/ /\ world'.state_changed = world.state_changed /\ world'.ap = world.ap
            /\ Wireless!DeviceIsHotspot(world') <=> Wireless!DeviceIsHotspot(world)
  PROVE  WirelessOK'
<1> USE DEF WirelessOK
<1>1. WirelessPanel(panel', world') /\ WirelessCalls(calls, world')
  BY PanelStays, CallsStay
<1>2. WirelessCalls(calls', world')
  BY <1>1 DEF WirelessCalls
<1>3. Shows(panel', world')
  BY DEF Shows
<1> QED
  BY <1>1, <1>2, <1>3

\* The page is drawn in the world that there is now.
LEMMA PageDrawn ==
  ASSUME WirelessOK, WirelessWorld(world'), Later(world, world'),
         panel' = Wireless!RefreshUi(panel, world'),
         \/ WirelessCalls(calls', world')
         \/ \E c : calls' = (calls \ {c}) \cup Wireless!RefreshCalls(world')
         \/ calls' = calls \cup Wireless!RefreshCalls(world')
  PROVE  WirelessOK'
<1> USE DEF WirelessOK
<1>1. WirelessPanel(panel, world') /\ WirelessCalls(calls, world')
  BY PanelStays, CallsStay
<1>2. /\ WirelessPanel(panel', world')
      /\ Wireless!DeviceIsHotspot(world') \/ (panel'.buttons.disconnect =>
         (world'.ap # Wireless!NoAp /\ Config.wireless.SsidOf[world'.ap] = panel'.ssid))
  BY <1>1, Refreshed
<1>3. Shows(panel', world')
  BY <1>2 DEF Shows
<1>4. WirelessCalls(calls', world')
  BY <1>1, RefreshCallsAdded
<1> QED
  BY <1>2, <1>3, <1>4

\* NetworkManager answers.
LEMMA WirelessAnswer ==
  ASSUME WirelessOK, NEW call \in calls,
         \/ Wireless!Activated(call) \/ Wireless!ActivationFailed(call) \/ Wireless!HotspotStarted(call)
            \/ Wireless!RequestFailed(call)
         \/ Wireless!GetSecrets(call) \/ Wireless!Stopped(call)
            \/ Wireless!ForgetNetworkConnectionDeleted(call) \/ Wireless!RadioSet(call)
  PROVE  WirelessOK'
<1> USE DEF WirelessOK
<1>1. Later(world, world) /\ SameAir(world, world)
  <2>1. Count(world) \in Nat
    BY FS_CardinalityType DEF WirelessWorld, Count
  <2> QED
    BY <2>1 DEF Later, SameAir, WirelessWorld
<1>2. CASE UNCHANGED <<panel, world>> /\ calls' = (calls \ {call}) \cup {}
  BY <1>1, <1>2, WorldMoves
<1>3. ASSUME NEW v, WirelessWorld(v), Later(world, v), NEW c, NEW a,
             c = 0 \/ (c \in DOMAIN v.saved /\ (v.saved[c] = Wireless!Hotspot \/ a # Wireless!NoAp)),
             world' = Wireless!Become(v, c, a)
      PROVE  WirelessWorld(world') /\ Later(world, world') /\ world'.state_changed
  <2>1. WirelessWorld(world') /\ Later(v, world') /\ world'.state_changed
    BY <1>3, BecomeLater
  <2> QED
    BY <1>3, <2>1, LaterLater
<1>4. ASSUME call.op = "activate" \/ call.op = "add", Wireless!Activated(call)
      PROVE  /\ WirelessWorld(world') /\ Later(world, world') /\ world'.state_changed
  <2>1. CASE \E a \in world.aps : call.conn \in DOMAIN world.saved /\ world' = Wireless!Become(world, call.conn, a)
    <3>1. PICK a \in world.aps : call.conn \in DOMAIN world.saved /\ world' = Wireless!Become(world, call.conn, a)
      BY <2>1
    <3>2. a # Wireless!NoAp
      BY WirelessAssumption DEF WirelessWorld
    <3> QED
      BY <1>1, <1>3, <3>1, <3>2
  <2>2. CASE /\ call.ap \in world.aps
             /\ world' = Wireless!Become(Wireless!Save(world, Config.wireless.SsidOf[call.ap]),
                Wireless!NextConnection(world), call.ap)
    <3>1. call.ap # Wireless!NoAp
      BY <2>2, WirelessAssumption DEF WirelessWorld
    <3>2. PICK v, c : v = Wireless!Save(world, Config.wireless.SsidOf[call.ap])
          /\ c = Wireless!NextConnection(world)
      OBVIOUS
    <3>3. WirelessWorld(v) /\ Later(world, v) /\ c \in DOMAIN v.saved
      BY <3>2, SaveLater
    <3> QED
      BY <1>3, <2>2, <3>1, <3>2, <3>3
  <2> QED
    BY <1>4, <2>1, <2>2, Zenon DEF Wireless!Activated
<1>5. CASE Wireless!Activated(call)
  <2>1. UNCHANGED panel /\ calls' = (calls \ {call}) /\ (call.op = "activate" \/ call.op = "add")
    BY <1>5 DEF Wireless!Activated, Wireless!Answer
  <2> QED
    BY <1>4, <1>5, <2>1, WorldMoves
<1>6. CASE Wireless!ActivationFailed(call) \/ (Wireless!RequestFailed(call) /\ call.op = "secrets")
  <2>1. /\ panel' = Wireless!RefreshUi(panel, world')
           /\ calls' = (calls \ {call}) \cup Wireless!RefreshCalls(world')
        /\ world' = world
    BY <1>6 DEF Wireless!ActivationFailed, Wireless!RequestFailed, Wireless!Answer
  <2> QED
    BY <1>1, <2>1, PageDrawn
<1>7. CASE Wireless!RequestFailed(call) /\ call.op # "secrets"
  BY <1>2, <1>7 DEF Wireless!RequestFailed, Wireless!Answer
<1>8. CASE Wireless!HotspotStarted(call)
  <2> DEFINE q == Wireless!RefreshUi(panel, world')
  <2>1. panel' = [q EXCEPT !.page = "hotspot", !.hotspot = TRUE] /\ call.op = "hotspot"
        /\ calls' = (calls \ {call}) \cup Wireless!RefreshCalls(world')
    BY <1>8, Zenon DEF Wireless!HotspotStarted, Wireless!ShowHotspotUi, Wireless!Answer
  <2>2. WirelessWorld(world') /\ Later(world, world') /\ world'.state_changed
    <3>1. CASE call.conn \in DOMAIN world.saved /\ world' = Wireless!Become(world, call.conn, Wireless!NoAp)
      <4>1. world.saved[call.conn] = Wireless!Hotspot
        BY <2>1, <3>1 DEF WirelessCalls, Refers
      <4> QED
        BY <1>1, <1>3, <3>1, <4>1
    <3>2. CASE world' = Wireless!Become(Wireless!Save(world, Wireless!Hotspot), Wireless!NextConnection(world),
               Wireless!NoAp)
      <4>1. PICK v, c : v = Wireless!Save(world, Wireless!Hotspot) /\ c = Wireless!NextConnection(world)
        OBVIOUS
      <4>2. WirelessWorld(v) /\ Later(world, v) /\ c \in DOMAIN v.saved /\ v.saved[c] = Wireless!Hotspot
        BY <4>1, SaveLater
      <4> QED
        BY <1>3, <3>2, <4>1, <4>2
    <3> QED
      BY <1>8, <3>1, <3>2, Zenon DEF Wireless!HotspotStarted
  <2>3. WirelessPanel(panel, world') /\ WirelessCalls(calls, world')
    BY <2>2, PanelStays, CallsStay
  <2>4. WirelessPanel(q, world')
    BY <2>2, <2>3, Refreshed
  <2> HIDE DEF q
  <2>5. panel'.rows = q.rows /\ SamePanel(q, panel')
    BY <2>1, <2>4 DEF SamePanel, WirelessPanel, WirelessFields
  <2>6. WirelessPanel(panel', world') /\ WirelessCalls(calls', world')
    BY <2>1, <2>3, <2>4, <2>5, SelectionStays, RefreshCallsAdded
  <2> QED
    BY <2>2, <2>6 DEF Shows
<1>9. CASE Wireless!GetSecrets(call)
  <2>1. /\ world' = [world EXCEPT !.key_known = TRUE]
        /\ panel' = Wireless!RefreshUi(panel, world')
           /\ calls' = (calls \ {call}) \cup Wireless!RefreshCalls(world')
    BY <1>9 DEF Wireless!GetSecrets, Wireless!Answer
  <2>2. SameAir(world, world')
    BY <2>1 DEF SameAir, WirelessWorld, WirelessWorldFields
  <2> QED
    BY <2>1, <2>2, SameAirLater, PageDrawn
<1>10. CASE Wireless!Stopped(call)
  <2>1. UNCHANGED panel /\ calls' = (calls \ {call})
        /\ (world' = world \/ world' = Wireless!Become(world, 0, Wireless!NoAp))
    BY <1>10 DEF Wireless!Stopped, Wireless!Answer
  <2>2. CASE world' = world
    BY <1>1, <2>1, <2>2, WorldMoves
  <2>3. CASE world' = Wireless!Become(world, 0, Wireless!NoAp)
    <3>1. WirelessWorld(world') /\ Later(world, world') /\ world'.state_changed
      BY <1>1, <1>3, <2>3
    <3> QED
      BY <2>1, <3>1, WorldMoves
  <2> QED
    BY <2>1, <2>2, <2>3
<1>11. CASE Wireless!ForgetNetworkConnectionDeleted(call)
  <2> DEFINE gone == [n \in Wireless!Networks |-> IF panel.conn # 0 /\ panel.rows[n].conn = panel.conn
             THEN Wireless!NoRow
                                         ELSE panel.rows[n]]
             q == [panel EXCEPT !.rows = gone]
  <2>1. /\ call.conn \in DOMAIN world.saved /\ world' = Wireless!Forget(world, call.conn)
        /\ panel' = [q EXCEPT !.page = "list"] /\ calls' = (calls \ {call}) \cup {}
    BY <1>11 DEF Wireless!ForgetNetworkConnectionDeleted, Wireless!ShowWifiList, Wireless!Answer
  <2>2. WirelessWorld(world') /\ Later(world, world')
    BY <2>1, ForgetLater
  <2>3. WirelessPanel(panel, world') /\ WirelessCalls(calls, world')
    BY <2>2, PanelStays, CallsStay
  <2>4. WirelessRows(gone, world')
    <3>1. \A n \in Wireless!Networks : gone[n] = panel.rows[n] \/ gone[n] = Wireless!NoRow
      OBVIOUS
    <3>2. DOMAIN Wireless!NoRow = {"ap", "conn", "active"} /\ Wireless!NoRow.conn = 0
          /\ Wireless!NoRow.ap = Wireless!NoAp
      BY DEF Wireless!NoRow
    <3>3. \A n : Refers(0, n, world')
      BY <2>2, SavedForRefers
    <3> HIDE DEF gone
    <3> QED
      BY <2>3, <3>1, <3>2, <3>3 DEF WirelessPanel, WirelessRows
  <2>5. DOMAIN gone = Wireless!Networks
    OBVIOUS
  <2> HIDE DEF gone
  <2>6. /\ DOMAIN panel' = WirelessFields /\ panel'.rows = gone /\ panel'.page = "list" /\ panel'.conn = panel.conn
        /\ panel'.ap = panel.ap /\ panel'.ssid = panel.ssid /\ panel'.question = panel.question
        /\ panel'.about = panel.about
    BY <2>1 DEF WirelessPanel, WirelessFields
  <2>7. WirelessPanel(panel', world')
    BY <2>3, <2>4, <2>5, <2>6 DEF WirelessPanel
  <2>8. WirelessCalls(calls', world')
    BY <2>1, <2>3 DEF WirelessCalls
  <2> QED
    BY <2>2, <2>6, <2>7, <2>8 DEF Shows
<1>12. CASE Wireless!RadioSet(call)
  <2>1. UNCHANGED panel /\ calls' = (calls \ {call})
    BY <1>12 DEF Wireless!RadioSet, Wireless!Answer
  <2>2. CASE world' = world
    BY <1>1, <2>1, <2>2, WorldMoves
  <2>3. CASE \E on : world' = [Wireless!Become(world, 0, Wireless!NoAp) EXCEPT !.radio = on,
             !.radio_changed = TRUE, !.aps = {}]
    <3>1. PICK v, on : v = Wireless!Become(world, 0, Wireless!NoAp)
                       /\ world' = [v EXCEPT !.radio = on, !.radio_changed = TRUE, !.aps = {}]
      BY <2>3
    <3>2. WirelessWorld(v) /\ Later(world, v) /\ v.state_changed
      BY <3>1, BecomeLater
    <3>3. SameAir(v, world') /\ world'.state_changed
      BY <3>1, <3>2 DEF SameAir, WirelessWorld, WirelessWorldFields
    <3>4. WirelessWorld(world') /\ Later(world, world')
      BY <3>2, <3>3, SameAirLater, LaterLater
    <3> QED
      BY <2>1, <3>3, <3>4, WorldMoves
  <2> QED
    BY <1>12, <2>2, <2>3, Zenon DEF Wireless!RadioSet
<1> QED
  BY <1>5, <1>6, <1>7, <1>8, <1>9, <1>10, <1>11, <1>12

\* Signals.
LEMMA WirelessSignal ==
  ASSUME WirelessOK, Wireless!StateChanged \/ Wireless!WirelessEnabledToggled \/ Wireless!RemoteSettingsRead
  PROVE  WirelessOK'
<1> USE DEF WirelessOK
<1>1. CASE Wireless!StateChanged
  <2>1. /\ world' = [world EXCEPT !.state_changed = FALSE]
        /\ panel' = Wireless!RefreshUi(panel, world) /\ calls' = calls \cup Wireless!RefreshCalls(world)
    BY <1>1 DEF Wireless!StateChanged, Wireless!Send
  <2>2. SameAir(world, world') /\ world'.radio = world.radio /\ world'.key_known = world.key_known
    BY <2>1 DEF SameAir, WirelessWorld, WirelessWorldFields
  <2>3. WirelessWorld(world') /\ Later(world, world')
        /\ (Wireless!DeviceIsHotspot(world') <=> Wireless!DeviceIsHotspot(world))
    BY <2>2, SameAirLater
  <2>4. /\ WirelessPanel(panel', world) /\ WirelessCalls(calls', world)
        /\ Wireless!DeviceIsHotspot(world) \/ (panel'.buttons.disconnect =>
           (world.ap # Wireless!NoAp /\ Config.wireless.SsidOf[world.ap] = panel'.ssid))
    BY <2>1, Refreshed, RefreshCallsAdded
  <2>5. WirelessPanel(panel', world') /\ WirelessCalls(calls', world')
    BY <2>3, <2>4, PanelStays, CallsStay
  <2> QED
    BY <2>2, <2>3, <2>4, <2>5 DEF Shows, SameAir
<1>2. CASE Wireless!WirelessEnabledToggled
  <2>1. world' = [world EXCEPT !.radio_changed = FALSE] /\ panel' = [panel EXCEPT !.off = world.radio]
        /\ calls' = calls
    BY <1>2 DEF Wireless!WirelessEnabledToggled
  <2>2. SameAir(world, world') /\ world'.state_changed = world.state_changed
    BY <2>1 DEF SameAir, WirelessWorld, WirelessWorldFields
  <2>3. panel'.rows = panel.rows /\ SamePanel(panel, panel') /\ panel'.page = panel.page
        /\ panel'.buttons = panel.buttons
    BY <2>1 DEF SamePanel, WirelessPanel, WirelessFields
  <2>4. WirelessWorld(world') /\ Later(world, world')
        /\ (Wireless!DeviceIsHotspot(world') <=> Wireless!DeviceIsHotspot(world))
    BY <2>2, SameAirLater
  <2>5. WirelessPanel(panel, world') /\ WirelessCalls(calls', world')
    BY <2>1, <2>4, PanelStays, CallsStay
  <2>6. WirelessPanel(panel', world')
    BY <2>3, <2>5, SelectionStays
  <2>7. Shows(panel', world')
    BY <2>2, <2>3, <2>4 DEF Shows, SameAir, SamePanel
  <2> QED
    BY <2>4, <2>5, <2>6, <2>7
<1>3. CASE Wireless!RemoteSettingsRead
  <2> DEFINE rows == Wireless!AddSavedConnections(panel.rows, world)
             q == [panel EXCEPT !.rows = rows]
  <2>1. /\ panel' = q \/ panel' = [q EXCEPT !.page = "hotspot", !.hotspot = TRUE]
        /\ world' = [world EXCEPT !.read = TRUE] /\ calls' = calls \cup Wireless!RefreshCalls(world)
    BY <1>3 DEF Wireless!RemoteSettingsRead, Wireless!ShowHotspotUi, Wireless!Send
  <2>2. SameAir(world, world') /\ world'.state_changed = world.state_changed
    BY <2>1 DEF SameAir, WirelessWorld, WirelessWorldFields
  <2>3. WirelessRows(rows, world) /\ DOMAIN rows = Wireless!Networks
    BY AddedRows DEF WirelessPanel
  <2> HIDE DEF rows
  <2>4. /\ DOMAIN panel' = WirelessFields /\ panel'.rows = rows /\ panel'.conn = panel.conn /\ panel'.ap = panel.ap
        /\ panel'.ssid = panel.ssid /\ panel'.question = panel.question /\ panel'.about = panel.about
        /\ panel'.page # "details" \/ (panel'.page = panel.page /\ panel'.buttons = panel.buttons)
    BY <2>1 DEF WirelessPanel, WirelessFields
  <2>5. WirelessPanel(panel', world) /\ WirelessCalls(calls', world)
    BY <2>1, <2>3, <2>4, RefreshCallsAdded DEF WirelessPanel
  <2>6. WirelessWorld(world') /\ Later(world, world')
        /\ (Wireless!DeviceIsHotspot(world') <=> Wireless!DeviceIsHotspot(world))
    BY <2>2, SameAirLater
  <2>7. WirelessPanel(panel', world') /\ WirelessCalls(calls', world')
    BY <2>5, <2>6, PanelStays, CallsStay
  <2>8. Shows(panel', world')
    BY <2>2, <2>4, <2>6 DEF Shows, SameAir
  <2> QED
    BY <2>6, <2>7, <2>8
<1> QED
  BY <1>1, <1>2, <1>3

\* What happens by itself.
LEMMA WirelessAir ==
  ASSUME WirelessOK,
         \/ \E ap \in Config.wireless.Aps : Wireless!AirChanges(ap)
         \/ \E c \in Wireless!Connections : Wireless!OtherToolDeletes(c)
         \/ Wireless!OtherToolTurnsRadio
  PROVE  WirelessOK'
<1> USE DEF WirelessOK
<1>1. UNCHANGED <<panel, calls>>
  BY DEF Wireless!AirChanges, Wireless!OtherToolDeletes, Wireless!OtherToolTurnsRadio
<1>2. ASSUME NEW v, WirelessWorld(v), Later(world, v), NEW n, world' = [v EXCEPT !.changes = n],
             v.state_changed \/ (v.state_changed = world.state_changed /\ v.ap = world.ap
                                 /\ (Wireless!DeviceIsHotspot(v) <=> Wireless!DeviceIsHotspot(world)))
      PROVE  WirelessOK'
  <2>1. SameAir(v, world') /\ world'.state_changed = v.state_changed
    BY <1>2 DEF SameAir, WirelessWorld, WirelessWorldFields
  <2>2. WirelessWorld(world') /\ Later(world, world')
        /\ (Wireless!DeviceIsHotspot(world') <=> Wireless!DeviceIsHotspot(v))
    BY <1>2, <2>1, SameAirLater, LaterLater
  <2>3. calls' = calls \/ calls' = calls \ {}
    BY <1>1
  <2>4. \/ world'.state_changed
        \/ /\ world'.state_changed = world.state_changed /\ world'.ap = world.ap
           /\ Wireless!DeviceIsHotspot(world') <=> Wireless!DeviceIsHotspot(world)
    BY <1>2, <2>1, <2>2 DEF SameAir
  <2> QED
    BY <1>1, <2>2, <2>3, <2>4, WorldMoves DEF WirelessOK
<1>3. ASSUME NEW ap \in Config.wireless.Aps, Wireless!AirChanges(ap) PROVE WirelessOK'
  <2> DEFINE aps == IF ap \in world.aps THEN world.aps \ {ap} ELSE world.aps \cup {ap}
             moved == [world EXCEPT !.aps = aps]
             v == IF world.ap \in moved.aps \cup {Wireless!NoAp} THEN moved
             ELSE Wireless!Become(moved, 0, Wireless!NoAp)
  <2>1. PICK n : world' = [v EXCEPT !.changes = n]
    BY <1>3 DEF Wireless!AirChanges, Wireless!ByItself
  <2>2. SameAir(world, moved) /\ moved.state_changed = world.state_changed
    BY DEF SameAir, WirelessWorld, WirelessWorldFields
  <2> HIDE DEF moved
  <2>3. WirelessWorld(moved) /\ Later(world, moved)
        /\ (Wireless!DeviceIsHotspot(moved) <=> Wireless!DeviceIsHotspot(world))
    BY <2>2, SameAirLater
  <2>4. CASE v = moved
    BY <1>2, <2>1, <2>2, <2>3, <2>4 DEF SameAir
  <2>5. CASE v = Wireless!Become(moved, 0, Wireless!NoAp)
    <3>1. WirelessWorld(v) /\ Later(moved, v) /\ v.state_changed
      BY <2>3, <2>5, BecomeLater
    <3>2. Later(world, v)
      BY <2>3, <3>1, LaterLater
    <3> QED
      BY <1>2, <2>1, <3>1, <3>2
  <2> QED
    BY <2>4, <2>5
<1>4. ASSUME NEW c \in Wireless!Connections, Wireless!OtherToolDeletes(c) PROVE WirelessOK'
  <2> DEFINE v == Wireless!Forget(world, c)
  <2>1. PICK n : c \in DOMAIN world.saved /\ world' = [v EXCEPT !.changes = n]
    BY <1>4 DEF Wireless!OtherToolDeletes, Wireless!ByItself
  <2>2. /\ WirelessWorld(v) /\ Later(world, v)
        /\ v.state_changed \/ (v.state_changed = world.state_changed /\ v.ap = world.ap
                               /\ v.active = world.active
                               /\ (v.active # 0 => v.saved[v.active] = world.saved[v.active]))
    BY <2>1, ForgetLater
  <2> HIDE DEF v
  <2>3. v.state_changed \/ (v.state_changed = world.state_changed /\ v.ap = world.ap
                            /\ (Wireless!DeviceIsHotspot(v) <=> Wireless!DeviceIsHotspot(world)))
    BY <2>2 DEF Wireless!DeviceIsHotspot
  <2> QED
    BY <1>2, <2>1, <2>2, <2>3
<1>5. CASE Wireless!OtherToolTurnsRadio
  <2>1. PICK on, u, n : LET v == [u EXCEPT !.radio = on, !.radio_changed = TRUE, !.aps = {}]
                        IN u = Wireless!Become(world, 0, Wireless!NoAp) /\ world' = [v EXCEPT !.changes = n]
    BY <1>5, Zenon DEF Wireless!OtherToolTurnsRadio, Wireless!ByItself
  <2> DEFINE v == [u EXCEPT !.radio = on, !.radio_changed = TRUE, !.aps = {}]
  <2>2. WirelessWorld(u) /\ Later(world, u) /\ u.state_changed
    BY <2>1, BecomeLater
  <2>3. SameAir(u, v) /\ v.state_changed
    BY <2>2 DEF SameAir, WirelessWorld, WirelessWorldFields
  <2> HIDE DEF v
  <2>4. WirelessWorld(v) /\ Later(world, v)
    BY <2>2, <2>3, SameAirLater, LaterLater
  <2> QED
    BY <1>2, <2>1, <2>3, <2>4 DEF v
<1> QED
  BY <1>3, <1>4, <1>5

\* The panel opens with some connections saved, and with one of them in use.
LEMMA WirelessInit ==
  Wireless!Init => WirelessOK
<1> SUFFICES ASSUME Wireless!Init PROVE WirelessOK
  OBVIOUS
<1> DEFINE rows == [n \in Wireless!Networks |-> Wireless!NoRow]
           b == [same |-> TRUE, disconnect |-> FALSE, connect |-> FALSE]
           p == [page |-> "list", rows |-> rows, ap |-> Wireless!NoAp, conn |-> 0,
                 ssid |-> "none", off |-> FALSE, hotspot |-> FALSE, handlers |-> 0,
                 buttons |-> b, question |-> "none", about |-> "none"]
<1> DEFINE starts == {<<>>, <<Wireless!Hotspot>>} \cup {<<n>> : n \in Wireless!Networks}
                       \cup {<<q[1], q[2]>> : q \in {r \in Wireless!Networks \X Wireless!Networks : r[1] # r[2]}}
           chosen(saved, active) == IF active = 0 \/ saved[active] = Wireless!Hotspot THEN Wireless!NoAp
                                    ELSE CHOOSE a \in Config.wireless.Aps : Config.wireless.SsidOf[a] = saved[active]
<1>0. PICK saved \in starts, active \in 0..2 :
        /\ active \in {0} \cup DOMAIN saved
        /\ world = [aps |-> Config.wireless.Aps, saved |-> saved, active |-> active, ap |-> chosen(saved, active),
                    radio |-> TRUE, key_known |-> FALSE, read |-> FALSE, deleted |-> 0,
                    state_changed |-> FALSE, radio_changed |-> FALSE, actions |-> 0, changes |-> 0]
        /\ panel = Wireless!RefreshUi(p, world) /\ calls = Wireless!RefreshCalls(world)
  BY Zenon DEF Wireless!Init
<1> DEFINE ap == chosen(saved, active)
<1>1. /\ active \in {0} \cup DOMAIN saved
      /\ ap = IF active = 0 \/ saved[active] = Wireless!Hotspot THEN Wireless!NoAp
         ELSE CHOOSE a \in Config.wireless.Aps : Config.wireless.SsidOf[a] = saved[active]
      /\ world = [aps |-> Config.wireless.Aps, saved |-> saved, active |-> active, ap |-> ap,
                  radio |-> TRUE, key_known |-> FALSE, read |-> FALSE, deleted |-> 0,
                  state_changed |-> FALSE, radio_changed |-> FALSE, actions |-> 0, changes |-> 0]
      /\ panel = Wireless!RefreshUi(p, world) /\ calls = Wireless!RefreshCalls(world)
  BY <1>0
<1> HIDE DEF ap
<1>2. /\ DOMAIN saved = 1..0 \/ DOMAIN saved = 1..1 \/ DOMAIN saved = 1..2
      /\ \A c \in DOMAIN saved : saved[c] = Wireless!Hotspot \/ saved[c] \in Wireless!Networks
  <2>1. CASE saved = <<>>
    BY <2>1
  <2>2. CASE saved = <<Wireless!Hotspot>>
    BY <2>2
  <2>3. CASE \E n \in Wireless!Networks : saved = <<n>>
    BY <2>3
  <2>4. CASE \E q \in Wireless!Networks \X Wireless!Networks : saved = <<q[1], q[2]>>
    BY <2>4
  <2> QED
    BY <1>0, <2>1, <2>2, <2>3, <2>4
<1> HIDE DEF starts
<1>3. IsFiniteSet(DOMAIN saved) /\ Cardinality(DOMAIN saved) \in Nat
      /\ \A c \in DOMAIN saved : c \in 1..Cardinality(DOMAIN saved)
  <2>1. ASSUME NEW k \in 0..2, DOMAIN saved = 1..k
        PROVE  IsFiniteSet(DOMAIN saved) /\ Cardinality(DOMAIN saved) = k
    <3>1. 1 \in Int /\ k \in Int
      OBVIOUS
    <3>2. IsFiniteSet(1..k) /\ Cardinality(1..k) = IF 1 > k THEN 0 ELSE k - 1 + 1
      BY <3>1, FS_Interval, Zenon
    <3> QED
      BY <2>1, <3>2
  <2> QED
    BY <1>2, <2>1
<1>4. active # 0 => (active \in DOMAIN saved /\ (saved[active] = Wireless!Hotspot \/ ap # Wireless!NoAp))
  <2>1. ASSUME active # 0, saved[active] # Wireless!Hotspot PROVE ap # Wireless!NoAp
    <3>1. saved[active] \in Wireless!Networks
      BY <1>1, <1>2, <2>1
    <3>2. \E a \in Config.wireless.Aps : Config.wireless.SsidOf[a] = saved[active]
      BY <3>1 DEF Wireless!Networks
    <3>3. ap = CHOOSE a \in Config.wireless.Aps : Config.wireless.SsidOf[a] = saved[active]
      BY <1>1, <2>1
    <3> QED
      BY <3>2, <3>3, WirelessAssumption
  <2> QED
    BY <1>1, <2>1
<1>5. /\ DOMAIN world = WirelessWorldFields /\ world.saved = saved /\ world.deleted = 0
         /\ world.aps = Config.wireless.Aps
      /\ world.active = active /\ world.ap = ap /\ world.state_changed = FALSE
  BY <1>1 DEF WirelessWorldFields
<1>6. WirelessWorld(world)
  BY <1>3, <1>4, <1>5 DEF WirelessWorld, Count
<1>7. WirelessRows(rows, world)
  <2>1. DOMAIN Wireless!NoRow = {"ap", "conn", "active"} /\ Wireless!NoRow.conn = 0
        /\ Wireless!NoRow.ap = Wireless!NoAp
    BY DEF Wireless!NoRow
  <2> QED
    BY <1>6, <2>1, SavedForRefers DEF WirelessRows
<1>8. DOMAIN rows = Wireless!Networks
  OBVIOUS
<1> HIDE DEF rows, b
<1>9. /\ DOMAIN p = WirelessFields /\ p.rows = rows /\ p.conn = 0 /\ p.ap = Wireless!NoAp /\ p.ssid = "none"
      /\ p.question = "none" /\ p.page = "list"
  BY DEF WirelessFields
<1> HIDE DEF p
<1>10. WirelessPanel(p, world)
  BY <1>6, <1>7, <1>8, <1>9, SavedForRefers DEF WirelessPanel
<1>11. WirelessPanel(panel, world) /\ panel.page = "list"
  BY <1>1, <1>6, <1>9, <1>10, Refreshed
<1>12. WirelessCalls(calls, world)
  <2>1. \A c \in Wireless!RefreshCalls(world) : c.op = "secrets"
    BY DEF Wireless!RefreshCalls, Wireless!HotspotCalls
  <2> QED
    BY <1>1, <2>1 DEF WirelessCalls
<1> QED
  BY <1>6, <1>11, <1>12 DEF WirelessOK, Shows

\* Every step of the wireless panel.
LEMMA WirelessStep == WirelessOK /\ Wireless!Next => WirelessOK'
<1> SUFFICES ASSUME WirelessOK, Wireless!Next PROVE WirelessOK'
  OBVIOUS
<1>1. CASE Wireless!Answers
  <2>1. ASSUME NEW c \in calls,
               \/ Wireless!Activated(c) \/ Wireless!ActivationFailed(c) \/ Wireless!HotspotStarted(c)
                  \/ Wireless!RequestFailed(c)
               \/ Wireless!GetSecrets(c) \/ Wireless!Stopped(c) \/ Wireless!ForgetNetworkConnectionDeleted(c)
                  \/ Wireless!RadioSet(c)
        PROVE  WirelessOK'
    BY <2>1, WirelessAnswer
  <2> QED
    BY <1>1, <2>1, WirelessSignal, Zenon DEF Wireless!Answers
<1>2. CASE \E ok \in BOOLEAN : Wireless!ForgetNetworkResponse(ok) \/ Wireless!StartHotspotResponse(ok)
           \/ Wireless!StopHotspotResponse(ok)
  BY <1>2, WirelessQuestion, Zenon
<1>3. CASE \/ Wireless!DeviceOffToggled \/ Wireless!BackToList \/ Wireless!ConnectButtonClicked
              \/ Wireless!DisconnectButtonClicked
           \/ Wireless!ForgetButtonClicked \/ Wireless!StartHotspot \/ Wireless!SwitchHotspotChanged
           \/ \E n \in Wireless!Networks : Wireless!ConnectWifiNetwork(n) \/ Wireless!ShowWifiDetails(n)
  BY <1>3, WirelessUser, Zenon
<1>4. CASE \/ \E ap \in Config.wireless.Aps : Wireless!AirChanges(ap)
           \/ \E c \in Wireless!Connections : Wireless!OtherToolDeletes(c)
           \/ Wireless!OtherToolTurnsRadio
  BY <1>4, WirelessAir, Zenon
<1> QED
  BY <1>1, <1>2, <1>3, <1>4, Zenon DEF Wireless!Next

\* The properties of the wireless panel.
LEMMA WirelessShows ==
  ASSUME WirelessOK
  PROVE  Wireless!DeletesTheNetworkAsked /\ Wireless!DisconnectsWhatIsShown
BY DEF WirelessOK, WirelessCalls, Refers, Shows, Wireless!DeletesTheNetworkAsked, Wireless!DisconnectsWhatIsShown




-----------------------------------------------------------------------------
(***************************************************************************)
(* The fingerprint assistant: its state, that of the reader, and the       *)
(* signals that were not read, as one record s.                            *)
(***************************************************************************)

FingerFields ==
  {"label", "disable", "dialog", "page", "state", "finger", "done", "handlers", "complete"}
FingerWorldFields ==
  {"device", "claim", "enroll", "finger", "scans", "prints", "foreign", "taken", "acts", "changes"}
Messages ==
  [result : {"enroll-completed", "enroll-stage-passed", "enroll-retry-scan", "enroll-failed"}, done : BOOLEAN]
FingerState(s) ==
  DOMAIN s = {"p", "c", "w"} /\ DOMAIN s.p = FingerFields /\ DOMAIN s.w = FingerWorldFields

\* What is held of the device is what the state of the assistant says, of the finger chosen.
Captures(p, w) ==
  /\ w.claim = "ours" => p.page = "enroll" /\ p.state # "NONE"
  /\ w.enroll # Enrolling!None => w.claim = "ours" /\ p.state = "ENROLLING" /\ w.finger = p.finger

\* Without an assistant the label tells of the prints; it is not told of after an error, and while
\* an assistant is there.
Labels(p, w) ==
  /\ p.label \in BOOLEAN /\ p.disable \in BOOLEAN /\ (p.label <=> p.disable)
  /\ w.device /\ p.page = Enrolling!None /\ p.dialog \in {Enrolling!None, "question"} /\ ~w.foreign =>
       (p.label <=> w.prints # {})

\* A capture that was completed, or is said to be, has left a print; nothing is to be heard
\* without an assistant, and the question comes without one.
Enrolled(w) == w.prints # {} \/ w.taken
Completes(p, c, w) ==
  /\ p.complete => Enrolled(w)
  /\ \A i \in DOMAIN c : c[i].result = "enroll-completed" => Enrolled(w)
  /\ p.page = Enrolling!None => ~p.complete /\ c = <<>>
  /\ p.dialog = "question" => p.page = Enrolling!None

FingerSound(s) ==
  /\ FingerState(s) /\ s.c \in Seq(Messages)
  /\ Captures(s.p, s.w) /\ Labels(s.p, s.w) /\ Completes(s.p, s.c, s.w)

SameView(p, q) ==
  /\ (q.label <=> p.label) /\ q.label \in BOOLEAN /\ (q.disable <=> p.disable) /\ q.disable \in BOOLEAN
  /\ q.dialog = p.dialog /\ q.page = p.page /\ (q.complete <=> p.complete)
SamePrints(w, v) ==
  (v.device <=> w.device) /\ v.prints = w.prints /\ (v.foreign <=> w.foreign) /\ (v.taken <=> w.taken)
SameCapture(p, q, w, v) ==
  /\ q.state = p.state /\ q.finger = p.finger
  /\ v.claim = w.claim /\ v.enroll = w.enroll /\ v.finger = w.finger

\* The state that is told is the one that comes.
LEMMA FingerBecomes ==
  ASSUME NEW s, FingerSound(s), Enrolling!Becomes(s)
  PROVE  FingerSound(Enrolling!State)'
BY DEF Enrolling!Becomes, Enrolling!State, FingerSound, FingerState

\* What has the same device, the same label and the same prints is as sound.
LEMMA Alike ==
  ASSUME NEW s, FingerSound(s), NEW t, FingerState(t), t.c = s.c, SameView(s.p, t.p),
         SamePrints(s.w, t.w), Captures(t.p, t.w)
  PROVE  FingerSound(t)
<1> USE DEF FingerSound, SameView, SamePrints
<1>1. Labels(t.p, t.w)
  BY DEF Labels
<1>2. Completes(t.p, t.c, t.w)
  BY DEF Completes, Enrolled
<1> QED
  BY <1>1, <1>2

\* Counting what the user and others do.
LEMMA FingerCounted ==
  ASSUME NEW s, FingerSound(s)
  PROVE  FingerSound([s EXCEPT !.w.acts = @ + 1]) /\ FingerSound([s EXCEPT !.w.changes = @ + 1])
<1> DEFINE t == [s EXCEPT !.w.acts = @ + 1]
           u == [s EXCEPT !.w.changes = @ + 1]
<1>1. FingerState(s) /\ SameView(s.p, s.p) /\ Captures(s.p, s.w)
  BY DEF FingerSound, Labels, SameView
<1>2. /\ FingerState(t) /\ t.p = s.p /\ t.c = s.c /\ SamePrints(s.w, t.w) /\ SameCapture(s.p, t.p, s.w, t.w)
      /\ FingerState(u) /\ u.p = s.p /\ u.c = s.c /\ SamePrints(s.w, u.w) /\ SameCapture(s.p, u.p, s.w, u.w)
  BY <1>1 DEF FingerState, FingerWorldFields, SamePrints, SameCapture
<1> HIDE DEF t, u
<1>3. Captures(t.p, t.w) /\ Captures(u.p, u.w)
  BY <1>1, <1>2 DEF Captures, SameCapture
<1> QED
  BY <1>1, <1>2, <1>3, Alike DEF t, u

\* A user is shown with a print or with none.
LEMMA FingerInit == Enrolling!Init => FingerSound(Enrolling!State)
<1> SUFFICES ASSUME Enrolling!Init PROVE FingerSound(Enrolling!State)
  OBVIOUS
<1>7. PICK prints \in {{}, {Config.fingerprint.First}} :
        /\ panel = [label |-> prints # {}, disable |-> prints # {}, dialog |-> Enrolling!None,
           page |-> Enrolling!None, state |-> "NONE",
                    finger |-> Config.fingerprint.First, done |-> 0, handlers |-> 0, complete |-> FALSE]
        /\ calls = <<>>
        /\ world = [device |-> TRUE, claim |-> Enrolling!None, enroll |-> Enrolling!None,
           finger |-> Config.fingerprint.First, scans |-> 0, prints |-> prints,
                    foreign |-> FALSE, taken |-> FALSE, acts |-> 0, changes |-> 0]
  BY DEF Enrolling!Init
<1>8. panel.label = (prints # {}) /\ panel.disable = (prints # {}) /\ world.prints = prints
  BY <1>7
<1>9. /\ panel.label \in BOOLEAN /\ panel.disable \in BOOLEAN
      /\ (panel.label <=> world.prints # {}) /\ (panel.disable <=> world.prints # {})
  BY <1>8
<1>10. /\ DOMAIN panel = FingerFields /\ DOMAIN world = FingerWorldFields
  BY <1>7 DEF FingerFields, FingerWorldFields
<1>11. /\ panel.dialog = Enrolling!None /\ panel.page = Enrolling!None /\ ~panel.complete /\ calls = <<>>
       /\ world.claim = Enrolling!None /\ world.enroll = Enrolling!None
  BY <1>7
<1>1. /\ DOMAIN panel = FingerFields /\ panel.label \in BOOLEAN /\ panel.disable \in BOOLEAN
      /\ (panel.label <=> world.prints # {}) /\ (panel.disable <=> world.prints # {})
      /\ panel.dialog = Enrolling!None /\ panel.page = Enrolling!None /\ ~panel.complete /\ calls = <<>>
      /\ DOMAIN world = FingerWorldFields /\ world.claim = Enrolling!None /\ world.enroll = Enrolling!None
  BY <1>9, <1>10, <1>11
<1>2. /\ FingerState(Enrolling!State) /\ Enrolling!State.p = panel /\ Enrolling!State.c = calls
         /\ Enrolling!State.w = world
  BY <1>1 DEF FingerState, Enrolling!State
<1>3. Captures(panel, world)
  BY <1>1 DEF Captures, Enrolling!None
<1>4. Labels(panel, world)
  BY <1>1 DEF Labels
<1>5. Completes(panel, calls, world)
  BY <1>1 DEF Completes, Enrolling!None
<1>6. calls \in Seq(Messages)
  BY <1>1
<1> QED
  BY <1>2, <1>3, <1>4, <1>5, <1>6 DEF FingerSound

\* What is held of the device is given back, and nothing else changes.
LEMMA LetsGo ==
  ASSUME NEW s, FingerState(s), s.w.claim = "ours" => s.p.state # "NONE", s.w.enroll # Enrolling!None =>
         s.w.claim = "ours"
  PROVE  /\ FingerState(Enrolling!LetGo(s)) /\ Enrolling!LetGo(s).c = s.c
            /\ Enrolling!LetGo(s).p = [s.p EXCEPT !.state = "NONE"]
         /\ Enrolling!LetGo(s).w.claim # "ours" /\ Enrolling!LetGo(s).w.enroll = Enrolling!None
            /\ SamePrints(s.w, Enrolling!LetGo(s).w)
<1> DEFINE t == IF s.p.state = "ENROLLING" THEN Enrolling!EnrollStop(s) ELSE s
           u == IF s.p.state = "NONE" THEN s ELSE Enrolling!Release(t)
           v == [u EXCEPT !.p.state = "NONE"]
<1>1. /\ FingerState(t) /\ t.p = s.p /\ t.c = s.c /\ t.w.claim = s.w.claim /\ SamePrints(s.w, t.w)
      /\ t.w.enroll # Enrolling!None => t.w.claim = "ours"
  BY DEF Enrolling!EnrollStop, FingerState, FingerWorldFields, SamePrints
<1> HIDE DEF t
<1>2. /\ FingerState(u) /\ u.p = s.p /\ u.c = s.c /\ u.w.claim # "ours" /\ u.w.enroll = Enrolling!None
         /\ SamePrints(s.w, u.w)
  <2>1. CASE s.p.state = "NONE"
    BY <2>1 DEF SamePrints
  <2>2. CASE s.p.state # "NONE"
    BY <1>1, <2>2 DEF Enrolling!Release, FingerState, FingerWorldFields, SamePrints, Enrolling!None
  <2> QED
    BY <2>1, <2>2
<1> HIDE DEF u
<1>3. /\ FingerState(v) /\ v.c = s.c /\ v.p = [s.p EXCEPT !.state = "NONE"] /\ v.w = u.w
  BY <1>2 DEF FingerState, FingerFields
<1>4. Enrolling!LetGo(s) = v
  BY DEF Enrolling!LetGo, v, u, t
<1> HIDE DEF v
<1> QED
  BY <1>2, <1>3, <1>4

\* The assistant goes to another page than the capture.
LEMMA PreparesOther ==
  ASSUME NEW s, FingerSound(s), s.p.page # Enrolling!None, NEW page \in {"intro", "summary"}
  PROVE  FingerSound(Enrolling!PrepareOther(s, page))
<1> DEFINE t == [s EXCEPT !.p.page = page]
           v == Enrolling!LetGo(t)
<1>1. /\ FingerState(t) /\ t.c = s.c /\ t.w = s.w /\ t.p = [s.p EXCEPT !.page = page]
      /\ t.p.state = s.p.state /\ FingerState(s) /\ Captures(s.p, s.w)
  BY DEF FingerSound, FingerState, FingerFields
<1> HIDE DEF t
<1>2. /\ FingerState(v) /\ v.c = s.c /\ v.p = [t.p EXCEPT !.state = "NONE"] /\ v.w.claim # "ours"
      /\ v.w.enroll = Enrolling!None /\ SamePrints(s.w, v.w)
  BY <1>1, LetsGo DEF Captures
<1> HIDE DEF v
<1>3. /\ v.p.label = s.p.label /\ v.p.disable = s.p.disable /\ v.p.dialog = s.p.dialog /\ v.p.page = page
      /\ v.p.complete = s.p.complete
  BY <1>1, <1>2 DEF FingerState, FingerFields
<1>4. Captures(v.p, v.w)
  BY <1>2 DEF Captures
<1>5. page # Enrolling!None /\ s.p.page # Enrolling!None
  BY DEF Enrolling!None
<1>6. Labels(v.p, v.w)
  BY <1>2, <1>3, <1>5 DEF Labels, FingerSound
<1>7. Completes(v.p, v.c, v.w)
  BY <1>2, <1>3, <1>5 DEF Completes, FingerSound, SamePrints, Enrolled
<1>8. FingerSound(v)
  BY <1>2, <1>4, <1>6, <1>7 DEF FingerSound
<1> QED
  BY <1>8 DEF Enrolling!PrepareOther, v, t

\* The assistant is gone; the label is not one that tells of the prints.
LEMMA Destroys ==
  ASSUME NEW s, FingerSound(s)
  PROVE  LET t == Enrolling!EnrollDataDestroy(s) IN
         /\ FingerState(t) /\ t.c = <<>> /\ t.p.page = Enrolling!None /\ t.p.dialog = Enrolling!None
            /\ ~t.p.complete
         /\ t.w.claim # "ours" /\ t.w.enroll = Enrolling!None
         /\ t.p.label = s.p.label /\ t.p.disable = s.p.disable /\ SamePrints(s.w, t.w)
<1> DEFINE u == Enrolling!LetGo(s)
           t == Enrolling!EnrollDataDestroy(s)
<1>1. FingerState(s) /\ Captures(s.p, s.w)
  BY DEF FingerSound
<1>2. /\ FingerState(u) /\ u.c = s.c /\ u.p = [s.p EXCEPT !.state = "NONE"] /\ u.w.claim # "ours"
      /\ u.w.enroll = Enrolling!None /\ SamePrints(s.w, u.w)
  BY <1>1, LetsGo DEF Captures
<1> HIDE DEF u
<1>3. u.p.label = s.p.label /\ u.p.disable = s.p.disable
  BY <1>1, <1>2 DEF FingerState, FingerFields
<1>4. t = [u EXCEPT !.p = [@ EXCEPT !.page = Enrolling!None, !.state = "NONE",
      !.finger = Config.fingerprint.First, !.done = 0,
                                   !.handlers = 0, !.complete = FALSE, !.dialog = Enrolling!None],
                    !.c = <<>>]
  BY DEF Enrolling!EnrollDataDestroy, u
<1> HIDE DEF t
<1>5. /\ FingerState(t) /\ t.c = <<>> /\ t.p.page = Enrolling!None /\ t.p.dialog = Enrolling!None
         /\ ~t.p.complete /\ t.w = u.w
      /\ t.p.label = u.p.label /\ t.p.disable = u.p.disable
  BY <1>2, <1>4 DEF FingerState, FingerFields
<1>6. /\ FingerState(t) /\ t.c = <<>> /\ t.p.page = Enrolling!None /\ t.p.dialog = Enrolling!None /\ ~t.p.complete
      /\ t.w.claim # "ours" /\ t.w.enroll = Enrolling!None
      /\ t.p.label = s.p.label /\ t.p.disable = s.p.disable /\ SamePrints(s.w, t.w)
  BY <1>2, <1>3, <1>5
<1> QED
  BY <1>6 DEF t

\* The label is set: it tells of the prints if there is a device.
LEMMA LabelIsSet ==
  ASSUME NEW s, FingerState(s), s.c \in Seq(Messages), Captures(s.p, s.w), Completes(s.p, s.c, s.w),
         s.p.label \in BOOLEAN, s.p.disable \in BOOLEAN, s.p.label <=> s.p.disable
  PROVE  FingerSound(Enrolling!SetFingerprintLabel(s))
<1> DEFINE t == Enrolling!SetFingerprintLabel(s)
<1>1. CASE ~s.w.device
  <2>1. t = s
    BY <1>1 DEF Enrolling!SetFingerprintLabel
  <2> QED
    BY <1>1, <2>1 DEF FingerSound, Labels
<1>2. CASE s.w.device
  <2>1. t = [s EXCEPT !.p.disable = (s.w.prints # {}), !.p.label = (s.w.prints # {}), !.w.foreign = FALSE]
    BY <1>2 DEF Enrolling!SetFingerprintLabel
  <2> HIDE DEF t
  <2>2. /\ FingerState(t) /\ t.c = s.c /\ t.p.label = (s.w.prints # {}) /\ t.p.disable = (s.w.prints # {})
        /\ t.p.dialog = s.p.dialog /\ t.p.page = s.p.page /\ (t.p.complete <=> s.p.complete)
        /\ SameCapture(s.p, t.p, s.w, t.w) /\ t.w.prints = s.w.prints /\ (t.w.taken <=> s.w.taken)
    BY <2>1 DEF FingerState, FingerFields, FingerWorldFields, SameCapture
  <2>3. Captures(t.p, t.w)
    BY <2>2 DEF Captures, SameCapture
  <2>4. Labels(t.p, t.w)
    BY <2>2 DEF Labels
  <2>5. Completes(t.p, t.c, t.w)
    BY <2>2 DEF Completes, Enrolled
  <2>6. FingerSound(t)
    BY <2>2, <2>3, <2>4, <2>5 DEF FingerSound
  <2> QED
    BY <2>6 DEF t
<1> QED
  BY <1>1, <1>2

\* A signal counts, stops the capture or begins it again.
LEMMA ResultHeard ==
  ASSUME NEW s, FingerSound(s), s.p.page # Enrolling!None, NEW signal \in Messages,
         signal.result = "enroll-completed" => Enrolled(s.w)
  PROVE  FingerSound(Enrolling!EnrollResult(s, signal))
<1> DEFINE completed == signal.result = "enroll-completed"
           u == [s EXCEPT !.p.done = IF completed \/ signal.result = "enroll-stage-passed" THEN @ + 1 ELSE @,
                          !.p.complete = @ \/ completed]
           stop == Enrolling!EnrollStop(u)
           t == [stop EXCEPT !.p.state = "CLAIMED"]
           begin == Enrolling!EnrollStart(t)
           v == [begin EXCEPT !.p.state = "ENROLLING"]
<1>1. FingerState(s) /\ Captures(s.p, s.w) /\ Labels(s.p, s.w) /\ Completes(s.p, s.c, s.w) /\ s.c \in Seq(Messages)
  BY DEF FingerSound
<1>2. /\ FingerState(u) /\ u.c = s.c /\ u.w = s.w /\ (u.p.complete <=> s.p.complete \/ completed)
      /\ u.p.label = s.p.label /\ u.p.disable = s.p.disable /\ u.p.dialog = s.p.dialog /\ u.p.page = s.p.page
      /\ u.p.state = s.p.state /\ u.p.finger = s.p.finger
  BY <1>1 DEF FingerState, FingerFields
<1>3. Enrolling!EnrollResult(s, signal) = IF ~signal.done THEN u ELSE IF completed THEN t ELSE v
  BY DEF Enrolling!EnrollResult
<1> HIDE DEF completed, u
<1>4. FingerSound(u)
  <2>1. Captures(u.p, u.w)
    BY <1>1, <1>2 DEF Captures
  <2>2. Labels(u.p, u.w)
    BY <1>1, <1>2 DEF Labels
  <2>3. Completes(u.p, u.c, u.w)
    BY <1>1, <1>2 DEF Completes, completed
  <2> QED
    BY <1>1, <1>2, <2>1, <2>2, <2>3 DEF FingerSound
<1>5. /\ FingerState(stop) /\ stop.c = u.c /\ stop.p = u.p /\ SamePrints(u.w, stop.w)
      /\ stop.w.claim = u.w.claim /\ stop.w.enroll = Enrolling!None
  BY <1>1, <1>2 DEF Enrolling!EnrollStop, FingerState, FingerWorldFields, SamePrints, Captures
<1> HIDE DEF stop
<1>6. /\ FingerState(t) /\ t.c = u.c /\ SameView(u.p, t.p) /\ SamePrints(u.w, t.w) /\ t.w.claim = u.w.claim
      /\ t.w.enroll = Enrolling!None /\ t.p.state = "CLAIMED" /\ t.p.finger = u.p.finger
  BY <1>1, <1>2, <1>5 DEF FingerState, FingerFields, SameView, SamePrints, Labels
<1> HIDE DEF t
<1>7. Captures(t.p, t.w)
  BY <1>1, <1>2, <1>6 DEF Captures, SameView
<1>8. FingerSound(t)
  BY <1>4, <1>6, <1>7, Alike
<1>9. /\ FingerState(begin) /\ begin.c = t.c /\ begin.p = t.p /\ SamePrints(t.w, begin.w)
      /\ begin.w.claim = t.w.claim
      /\ begin.w.enroll # Enrolling!None => begin.w.claim = "ours" /\ begin.w.finger = t.p.finger
  BY <1>6 DEF Enrolling!EnrollStart, Enrolling!CanStart, FingerState, FingerWorldFields, SamePrints
<1> HIDE DEF begin
<1>10. /\ FingerState(v) /\ v.c = t.c /\ SameView(t.p, v.p) /\ v.w = begin.w
       /\ v.p.state = "ENROLLING" /\ v.p.finger = t.p.finger
  BY <1>6, <1>9 DEF FingerState, FingerFields, SameView
<1> HIDE DEF v
<1>11. Captures(v.p, v.w)
  BY <1>7, <1>9, <1>10 DEF Captures, SameView
<1>12. FingerSound(v)
  BY <1>8, <1>9, <1>10, <1>11, Alike DEF SamePrints
<1> QED
  BY <1>3, <1>4, <1>8, <1>12

\* The page of the capture is shown: the device is claimed and a capture begins, or one of both fails.
LEMMA PreparesEnroll ==
  ASSUME NEW s, FingerSound(s), s.p.page = "intro", s.p.dialog = Enrolling!None, NEW stages, NEW starts
  PROVE  FingerSound(Enrolling!PrepareEnroll(s, stages, starts))
<1> DEFINE g == [s EXCEPT !.p.page = "enroll"]
           gone == [g EXCEPT !.p.dialog = "error"]
           t == Enrolling!Claim(g)
           bad == [t EXCEPT !.p.dialog = "error"]
           u == [t EXCEPT !.p.handlers = @ + 1]
           worse == [u EXCEPT !.p.dialog = "error"]
           begin == Enrolling!EnrollStart(u)
           v == [begin EXCEPT !.p.state = "ENROLLING"]
<1>1. FingerState(s) /\ Captures(s.p, s.w) /\ Labels(s.p, s.w) /\ Completes(s.p, s.c, s.w) /\ s.c \in Seq(Messages)
  BY DEF FingerSound
<1>2. s.w.claim # "ours" /\ s.w.enroll = Enrolling!None
  BY <1>1 DEF Captures
<1>3. Enrolling!PrepareEnroll(s, stages, starts) =
        IF s.w.claim # Enrolling!None \/ ~s.w.device THEN gone
        ELSE IF ~stages THEN bad ELSE IF ~starts THEN worse ELSE v
  BY DEF Enrolling!PrepareEnroll, Enrolling!Failed
<1>4. ASSUME NEW z, FingerState(z), z.c = s.c, SamePrints(s.w, z.w), z.p.page = "enroll", z.p.dialog # "question",
             z.p.label = s.p.label, z.p.disable = s.p.disable, z.p.complete <=> s.p.complete, Captures(z.p, z.w)
      PROVE  FingerSound(z)
  <2>1. Labels(z.p, z.w)
    BY <1>1, <1>4 DEF Labels, Enrolling!None
  <2>2. Completes(z.p, z.c, z.w)
    BY <1>1, <1>4 DEF Completes, Enrolling!None, SamePrints, Enrolled
  <2> QED
    BY <1>1, <1>4, <2>1, <2>2 DEF FingerSound
<1>5. /\ FingerState(g) /\ g.c = s.c /\ g.w = s.w /\ g.p.page = "enroll" /\ g.p.dialog = Enrolling!None
      /\ g.p.label = s.p.label /\ g.p.disable = s.p.disable /\ (g.p.complete <=> s.p.complete)
      /\ g.p.finger = s.p.finger
  BY <1>1 DEF FingerState, FingerFields
<1> HIDE DEF g
<1>6. /\ FingerState(gone) /\ gone.c = s.c /\ gone.w = s.w /\ gone.p.page = "enroll" /\ gone.p.dialog = "error"
      /\ gone.p.label = s.p.label /\ gone.p.disable = s.p.disable /\ (gone.p.complete <=> s.p.complete)
  BY <1>5 DEF FingerState, FingerFields
<1>7. /\ FingerState(t) /\ t.c = s.c /\ SamePrints(s.w, t.w) /\ t.p.page = "enroll" /\ t.p.dialog = Enrolling!None
      /\ t.p.label = s.p.label /\ t.p.disable = s.p.disable /\ (t.p.complete <=> s.p.complete)
      /\ t.p.finger = s.p.finger /\ t.p.state = "CLAIMED" /\ t.w.claim = "ours" /\ t.w.enroll = Enrolling!None
  BY <1>2, <1>5 DEF Enrolling!Claim, FingerState, FingerFields, FingerWorldFields, SamePrints
<1> HIDE DEF t
<1>8. /\ FingerState(bad) /\ bad.c = s.c /\ bad.w = t.w /\ bad.p.page = "enroll" /\ bad.p.dialog = "error"
      /\ bad.p.label = s.p.label /\ bad.p.disable = s.p.disable /\ (bad.p.complete <=> s.p.complete)
      /\ bad.p.state = "CLAIMED"
  BY <1>7 DEF FingerState, FingerFields
<1>9. /\ FingerState(u) /\ u.c = s.c /\ u.w = t.w /\ u.p.page = "enroll" /\ u.p.dialog = Enrolling!None
      /\ u.p.label = s.p.label /\ u.p.disable = s.p.disable /\ (u.p.complete <=> s.p.complete)
      /\ u.p.state = "CLAIMED" /\ u.p.finger = s.p.finger
  BY <1>7 DEF FingerState, FingerFields
<1> HIDE DEF u
<1>10. /\ FingerState(worse) /\ worse.c = s.c /\ worse.w = t.w /\ worse.p.page = "enroll"
       /\ worse.p.dialog = "error" /\ worse.p.state = "CLAIMED"
       /\ worse.p.label = s.p.label /\ worse.p.disable = s.p.disable /\ (worse.p.complete <=> s.p.complete)
  BY <1>9 DEF FingerState, FingerFields
<1>11. /\ FingerState(begin) /\ begin.c = s.c /\ begin.p = u.p /\ SamePrints(t.w, begin.w)
       /\ begin.w.claim = "ours" /\ begin.w.finger = u.p.finger
  BY <1>7, <1>9 DEF Enrolling!EnrollStart, Enrolling!CanStart, FingerState, FingerWorldFields, SamePrints
<1> HIDE DEF begin
<1>12. /\ FingerState(v) /\ v.c = s.c /\ v.w = begin.w /\ v.p.page = "enroll" /\ v.p.dialog = Enrolling!None
       /\ v.p.label = s.p.label /\ v.p.disable = s.p.disable /\ (v.p.complete <=> s.p.complete)
       /\ v.p.state = "ENROLLING" /\ v.p.finger = u.p.finger
  BY <1>9, <1>11 DEF FingerState, FingerFields
<1> HIDE DEF gone, bad, worse, v
<1>13. Captures(gone.p, gone.w) /\ Captures(bad.p, bad.w) /\ Captures(worse.p, worse.w) /\ Captures(v.p, v.w)
  BY <1>2, <1>6, <1>7, <1>8, <1>10, <1>11, <1>12 DEF Captures
<1>14. SamePrints(s.w, s.w) /\ SamePrints(s.w, t.w) /\ SamePrints(s.w, begin.w)
  BY <1>7, <1>11 DEF SamePrints
<1>15. FingerSound(gone) /\ FingerSound(bad) /\ FingerSound(worse)
  BY <1>4, <1>6, <1>7, <1>8, <1>10, <1>13, <1>14 DEF Enrolling!None
<1>16. FingerSound(v)
  BY <1>4, <1>11, <1>12, <1>13, <1>14 DEF Enrolling!None
<1> QED
  BY <1>3, <1>15, <1>16

\* What the user does with the label, the question and the assistant.
LEMMA UserEnrolls ==
  ASSUME FingerSound(Enrolling!State),
         \/ Enrolling!ButtonClicked \/ (\E delete \in BOOLEAN : Enrolling!QuestionAnswered(delete))
         \/ (\E finger \in Config.fingerprint.Fingers : Enrolling!FingerSelected(finger))
         \/ Enrolling!Forward \/ (\E stages \in BOOLEAN : Enrolling!ForwardFails(stages))
         \/ Enrolling!ForwardToSummary \/ Enrolling!Back \/ Enrolling!AssistantCancelled \/ Enrolling!ErrorClosed
  PROVE  FingerSound(Enrolling!State)'
<1> DEFINE s == Enrolling!State
<1>1. /\ s.p = panel /\ s.c = calls /\ s.w = world /\ FingerSound(s) /\ FingerState(s)
      /\ Captures(s.p, s.w) /\ Labels(s.p, s.w) /\ Completes(s.p, s.c, s.w) /\ s.c \in Seq(Messages)
  BY DEF FingerSound, Enrolling!State
<1>2. ASSUME NEW t, FingerSound(t), Enrolling!ByUser(t) \/ Enrolling!ByOthers(t) PROVE FingerSound(Enrolling!State)'
  BY <1>2, FingerCounted, FingerBecomes DEF Enrolling!ByUser, Enrolling!ByOthers
<1> HIDE DEF s
<1>3. CASE Enrolling!ButtonClicked
  <2> DEFINE t == [s EXCEPT !.p.dialog = "question"]
             u == [s EXCEPT !.p.dialog = "error"]
             v == [s EXCEPT !.p.page = "intro"]
  <2>1. panel.dialog = Enrolling!None /\ panel.page = Enrolling!None
    BY <1>3 DEF Enrolling!ButtonClicked, Enrolling!At
  <2>2. /\ FingerState(t) /\ t.c = s.c /\ t.w = s.w /\ t.p.dialog = "question" /\ t.p.page = Enrolling!None
        /\ t.p.label = s.p.label /\ t.p.disable = s.p.disable /\ (t.p.complete <=> s.p.complete)
        /\ t.p.state = s.p.state /\ t.p.finger = s.p.finger
    BY <1>1, <2>1 DEF FingerState, FingerFields
  <2>3. /\ FingerState(u) /\ u.c = s.c /\ u.w = s.w /\ u.p.dialog = "error" /\ u.p.page = Enrolling!None
        /\ u.p.label = s.p.label /\ u.p.disable = s.p.disable /\ (u.p.complete <=> s.p.complete)
        /\ u.p.state = s.p.state /\ u.p.finger = s.p.finger
    BY <1>1, <2>1 DEF FingerState, FingerFields
  <2>4. /\ FingerState(v) /\ v.c = s.c /\ v.w = s.w /\ v.p.dialog = Enrolling!None /\ v.p.page = "intro"
        /\ v.p.label = s.p.label /\ v.p.disable = s.p.disable /\ (v.p.complete <=> s.p.complete)
        /\ v.p.state = s.p.state /\ v.p.finger = s.p.finger
    BY <1>1, <2>1 DEF FingerState, FingerFields
  <2> HIDE DEF t, u, v
  <2>5. s.w.claim # "ours" /\ s.w.enroll = Enrolling!None
    BY <1>1, <2>1 DEF Captures, Enrolling!None
  <2>6. Captures(t.p, t.w) /\ Captures(u.p, u.w) /\ Captures(v.p, v.w)
    BY <2>2, <2>3, <2>4, <2>5 DEF Captures
  <2>7. Labels(t.p, t.w)
    BY <1>1, <2>1, <2>2 DEF Labels
  <2>8. Labels(u.p, u.w) /\ Labels(v.p, v.w)
    BY <1>1, <2>3, <2>4 DEF Labels, Enrolling!None
  <2>9. Completes(t.p, t.c, t.w) /\ Completes(u.p, u.c, u.w) /\ Completes(v.p, v.c, v.w)
    BY <1>1, <2>1, <2>2, <2>3, <2>4 DEF Completes, Enrolling!None
  <2>10. FingerSound(t) /\ FingerSound(u) /\ FingerSound(v)
    BY <1>1, <2>2, <2>3, <2>4, <2>6, <2>7, <2>8, <2>9 DEF FingerSound
  <2>11. Enrolling!ByUser(IF panel.disable THEN t ELSE IF ~world.device THEN u ELSE v)
    BY <1>3 DEF Enrolling!ButtonClicked, Enrolling!Failed, t, u, v, s
  <2> QED
    BY <1>2, <2>10, <2>11
<1>4. ASSUME NEW delete \in BOOLEAN, Enrolling!QuestionAnswered(delete) PROVE FingerSound(Enrolling!State)'
  <2> DEFINE t == [s EXCEPT !.p.dialog = Enrolling!None]
             u == IF world.device /\ world.claim = Enrolling!None THEN [t EXCEPT !.w.prints = {}] ELSE t
  <2>1. panel.dialog = "question" /\ panel.page = Enrolling!None
    BY <1>1, <1>4 DEF Enrolling!QuestionAnswered, Completes
  <2>2. /\ FingerState(t) /\ t.c = s.c /\ t.w = s.w /\ t.p.dialog = Enrolling!None /\ t.p.page = Enrolling!None
        /\ t.p.label = s.p.label /\ t.p.disable = s.p.disable /\ (t.p.complete <=> s.p.complete)
        /\ t.p.state = s.p.state /\ t.p.finger = s.p.finger
    BY <1>1, <2>1 DEF FingerState, FingerFields
  <2> HIDE DEF t
  <2>3. s.w.claim # "ours" /\ s.w.enroll = Enrolling!None /\ ~s.p.complete /\ s.c = <<>>
    BY <1>1, <2>1 DEF Captures, Completes, Enrolling!None
  <2>4. FingerSound(t)
    <3>1. Captures(t.p, t.w)
      BY <2>2, <2>3 DEF Captures
    <3>2. Labels(t.p, t.w)
      BY <1>1, <2>1, <2>2 DEF Labels
    <3>3. Completes(t.p, t.c, t.w)
      BY <1>1, <2>2, <2>3 DEF Completes, Enrolling!None
    <3> QED
      BY <1>1, <2>2, <3>1, <3>2, <3>3 DEF FingerSound
  <2>5. /\ FingerState(u) /\ u.c = s.c /\ u.p = t.p /\ u.w.claim = s.w.claim /\ u.w.enroll = s.w.enroll
    BY <2>2 DEF FingerState, FingerWorldFields
  <2> HIDE DEF u
  <2>6. Captures(u.p, u.w) /\ Completes(u.p, u.c, u.w)
    BY <2>2, <2>3, <2>5 DEF Captures, Completes, Enrolling!None
  <2>7. FingerSound(Enrolling!SetFingerprintLabel(u))
    BY <1>1, <2>2, <2>5, <2>6, LabelIsSet DEF Labels
  <2>8. Enrolling!Becomes(IF delete THEN Enrolling!SetFingerprintLabel(u) ELSE t)
    BY <1>4 DEF Enrolling!QuestionAnswered, u, t, s
  <2> QED
    BY <2>4, <2>7, <2>8, FingerBecomes
<1>5. ASSUME NEW finger \in Config.fingerprint.Fingers, Enrolling!FingerSelected(finger)
      PROVE FingerSound(Enrolling!State)'
  <2> DEFINE t == [s EXCEPT !.p.finger = finger]
  <2>1. s.p.page = "intro" /\ Enrolling!ByUser(t)
    BY <1>1, <1>5 DEF Enrolling!FingerSelected, Enrolling!At, s
  <2>2. /\ FingerState(t) /\ t.c = s.c /\ t.w = s.w /\ SameView(s.p, t.p)
    BY <1>1 DEF FingerState, FingerFields, SameView, Labels
  <2> HIDE DEF t
  <2>3. s.w.claim # "ours" /\ s.w.enroll = Enrolling!None
    BY <1>1, <2>1 DEF Captures
  <2>4. Captures(t.p, t.w) /\ SamePrints(s.w, t.w)
    BY <2>2, <2>3 DEF Captures, SamePrints
  <2> QED
    BY <1>1, <1>2, <2>1, <2>2, <2>4, Alike
<1>6. CASE Enrolling!Forward
  BY <1>1, <1>2, <1>6, PreparesEnroll DEF Enrolling!Forward, Enrolling!At, s
<1>7. ASSUME NEW stages \in BOOLEAN, Enrolling!ForwardFails(stages) PROVE FingerSound(Enrolling!State)'
  BY <1>1, <1>2, <1>7, PreparesEnroll DEF Enrolling!ForwardFails, Enrolling!At, s
<1>8. CASE Enrolling!ForwardToSummary \/ Enrolling!Back
  <2>1. s.p.page # Enrolling!None
    BY <1>1, <1>8 DEF Enrolling!ForwardToSummary, Enrolling!Back, Enrolling!At, Enrolling!None
  <2>2. FingerSound(Enrolling!PrepareOther(s, "intro")) /\ FingerSound(Enrolling!PrepareOther(s, "summary"))
    BY <1>1, <2>1, PreparesOther
  <2> QED
    BY <1>2, <1>8, <2>2, FingerBecomes DEF Enrolling!ForwardToSummary, Enrolling!Back, s
<1>9. CASE Enrolling!AssistantCancelled \/ Enrolling!ErrorClosed
  <2> DEFINE t == Enrolling!EnrollDataDestroy(s)
             v == [t EXCEPT !.w.foreign = @ \/ (panel.label # (world.prints # {}))]
  <2>1. /\ FingerState(t) /\ t.c = <<>> /\ t.p.page = Enrolling!None /\ t.p.dialog = Enrolling!None /\ ~t.p.complete
        /\ t.w.claim # "ours" /\ t.w.enroll = Enrolling!None
        /\ t.p.label = s.p.label /\ t.p.disable = s.p.disable /\ SamePrints(s.w, t.w)
    BY <1>1, Destroys
  <2> HIDE DEF t
  <2>2. Captures(t.p, t.w) /\ Completes(t.p, t.c, t.w) /\ t.c \in Seq(Messages)
    BY <2>1 DEF Captures, Completes, Enrolling!None
  <2>3. FingerSound(Enrolling!SetFingerprintLabel(t))
    BY <1>1, <2>1, <2>2, LabelIsSet DEF Labels
  <2>4. /\ FingerState(v) /\ v.c = t.c /\ v.p = t.p /\ v.w.claim = t.w.claim /\ v.w.enroll = t.w.enroll
        /\ v.w.prints = t.w.prints /\ (~v.w.foreign => (panel.label <=> world.prints # {}))
    <3>1. v.w.foreign = (t.w.foreign \/ (panel.label # (world.prints # {})))
      BY <2>1 DEF FingerState, FingerWorldFields
    <3>2. ~v.w.foreign => (panel.label <=> world.prints # {})
      BY <3>1
    <3>3. /\ FingerState(v) /\ v.c = t.c /\ v.p = t.p /\ v.w.claim = t.w.claim /\ v.w.enroll = t.w.enroll
          /\ v.w.prints = t.w.prints
      BY <2>1 DEF FingerState, FingerWorldFields
    <3> QED
      BY <3>2, <3>3
  <2> HIDE DEF v
  <2>5. Captures(v.p, v.w) /\ Completes(v.p, v.c, v.w)
    BY <2>1, <2>4 DEF Captures, Completes, Enrolling!None
  <2>6. Labels(v.p, v.w)
    BY <1>1, <2>1, <2>4 DEF Labels, SamePrints
  <2>7. FingerSound(v)
    BY <2>2, <2>4, <2>5, <2>6 DEF FingerSound
  <2>8. CASE Enrolling!AssistantCancelled
    BY <2>3, <2>8, FingerBecomes DEF Enrolling!AssistantCancelled, t, s
  <2>9. CASE Enrolling!ErrorClosed
    BY <2>7, <2>9, FingerBecomes DEF Enrolling!ErrorClosed, v, t, s
  <2> QED
    BY <1>9, <2>8, <2>9
<1> QED
  BY <1>3, <1>4, <1>5, <1>6, <1>7, <1>8, <1>9

\* Signals that were not read are those before, and perhaps one more.
LEMMA Queue ==
  ASSUME NEW q \in Seq(Messages)
  PROVE  /\ q # <<>> => /\ Tail(q) \in Seq(Messages) /\ Head(q) \in Messages
                        /\ 1 \in DOMAIN q /\ Head(q) = q[1]
                        /\ \A i \in DOMAIN Tail(q) : i + 1 \in DOMAIN q /\ Tail(q)[i] = q[i + 1]
         /\ \A m \in Messages : /\ Append(q, m) \in Seq(Messages)
                                /\ \A i \in DOMAIN Append(q, m) : (i \in DOMAIN q /\ Append(q, m)[i] = q[i])
                                   \/ Append(q, m)[i] = m
<1>1. q # <<>> => /\ Tail(q) \in Seq(Messages) /\ Head(q) \in Messages
                  /\ 1 \in DOMAIN q /\ Head(q) = q[1]
  OBVIOUS
<1>2. q # <<>> => \A i \in DOMAIN Tail(q) : i + 1 \in DOMAIN q /\ Tail(q)[i] = q[i + 1]
  OBVIOUS
<1>3. ASSUME NEW m \in Messages
      PROVE  /\ Append(q, m) \in Seq(Messages)
             /\ \A i \in DOMAIN Append(q, m) : (i \in DOMAIN q /\ Append(q, m)[i] = q[i]) \/ Append(q, m)[i] = m
  <2>1. DOMAIN q = 1 .. Len(q) /\ DOMAIN Append(q, m) = 1 .. Len(q) + 1 /\ Len(q) \in Nat
        /\ Append(q, m)[Len(q) + 1] = m /\ Append(q, m) \in Seq(Messages)
    OBVIOUS
  <2>2. \A i \in DOMAIN Append(q, m) : i \in DOMAIN q \/ i = Len(q) + 1
    BY <2>1
  <2>3. \A i \in DOMAIN q : Append(q, m)[i] = q[i]
    BY <2>1
  <2> QED
    BY <2>1, <2>2, <2>3
<1> QED
  BY <1>1, <1>2, <1>3

\* A signal of the device, read while the assistant is there.
LEMMA SignalHeard ==
  ASSUME FingerSound(Enrolling!State), Enrolling!SignalRead
  PROVE  FingerSound(Enrolling!State)'
<1> DEFINE s == Enrolling!State
           u == [s EXCEPT !.c = Tail(@)]
           signal == Head(calls)
           once == Enrolling!EnrollResult(u, signal)
           t == [once EXCEPT !.p.done = u.p.done + u.p.handlers * (@ - u.p.done)]
<1>1. /\ s.p = panel /\ s.c = calls /\ s.w = world /\ FingerSound(s) /\ FingerState(s)
      /\ Captures(s.p, s.w) /\ Labels(s.p, s.w) /\ Completes(s.p, s.c, s.w) /\ s.c \in Seq(Messages)
      /\ calls # <<>> /\ panel.page # Enrolling!None
  BY DEF FingerSound, Enrolling!State, Enrolling!SignalRead
<1>2. Enrolling!Becomes(IF u.p.handlers = 0 THEN u ELSE t)
  BY DEF Enrolling!SignalRead, Enrolling!DeviceSignal
<1> HIDE DEF s
<1>3. FingerState(u) /\ u.c = Tail(calls) /\ u.p = s.p /\ u.w = s.w
  BY <1>1 DEF FingerState
<1> HIDE DEF u
<1>4. /\ signal \in Messages /\ Tail(calls) \in Seq(Messages) /\ 1 \in DOMAIN calls /\ signal = calls[1]
      /\ \A i \in DOMAIN Tail(calls) : i + 1 \in DOMAIN calls /\ Tail(calls)[i] = calls[i + 1]
  BY <1>1, Queue
<1> HIDE DEF signal
<1>5. FingerSound(u)
  <2>1. Completes(u.p, u.c, u.w)
    BY <1>1, <1>3, <1>4 DEF Completes
  <2> QED
    BY <1>1, <1>3, <1>4, <2>1 DEF FingerSound
<1>6. signal.result = "enroll-completed" => Enrolled(u.w)
  BY <1>1, <1>3, <1>4 DEF Completes
<1>7. FingerSound(once)
  BY <1>1, <1>3, <1>4, <1>5, <1>6, ResultHeard
<1> HIDE DEF once
<1>8. /\ FingerState(t) /\ t.c = once.c /\ t.w = once.w /\ SameView(once.p, t.p) /\ t.p.state = once.p.state
      /\ t.p.finger = once.p.finger
  BY <1>7 DEF FingerState, FingerFields, SameView, FingerSound, Labels
<1> HIDE DEF t
<1>9. Captures(t.p, t.w) /\ SamePrints(once.w, t.w)
  BY <1>7, <1>8 DEF FingerSound, Captures, SameView, SamePrints
<1>10. FingerSound(t)
  BY <1>7, <1>8, <1>9, Alike
<1> QED
  BY <1>2, <1>5, <1>10, FingerBecomes

\* The device, fprintd and others.
LEMMA DeviceActs ==
  ASSUME FingerSound(Enrolling!State),
         \/ Enrolling!StagePassed \/ Enrolling!ScanFails("enroll-retry-scan", FALSE)
            \/ Enrolling!ScanFails("enroll-failed", TRUE)
         \/ Enrolling!EnrollCompletes
         \/ Enrolling!DeviceGone \/ Enrolling!OthersClaim \/ Enrolling!OthersRelease
            \/ Enrolling!PrintsChanged \/ Enrolling!ShowUser
  PROVE  FingerSound(Enrolling!State)'
<1> DEFINE s == Enrolling!State
<1>1. /\ s.p = panel /\ s.c = calls /\ s.w = world /\ FingerSound(s) /\ FingerState(s)
      /\ Captures(s.p, s.w) /\ Labels(s.p, s.w) /\ Completes(s.p, s.c, s.w) /\ s.c \in Seq(Messages)
  BY DEF FingerSound, Enrolling!State
<1>2. ASSUME NEW t, FingerSound(t), Enrolling!ByOthers(t) PROVE FingerSound(Enrolling!State)'
  BY <1>2, FingerCounted, FingerBecomes DEF Enrolling!ByOthers
<1> HIDE DEF s
<1>3. ASSUME Enrolling!Scanning, NEW m \in Messages, NEW t, FingerState(t), t.p = s.p, t.c = Append(s.c, m),
             t.w.device <=> s.w.device, t.w.foreign <=> s.w.foreign, t.w.taken <=> s.w.taken,
             t.w.claim = s.w.claim, t.w.finger = s.w.finger,
             s.w.prints \subseteq t.w.prints, m.result = "enroll-completed" => t.w.prints # {}
      PROVE  FingerSound(t)
  <2>1. s.w.claim = "ours" /\ s.w.enroll # Enrolling!None /\ s.p.page = "enroll" /\ s.p.state = "ENROLLING"
        /\ s.w.finger = s.p.finger
    BY <1>1, <1>3 DEF Enrolling!Scanning, Captures, Enrolling!None
  <2>2. Captures(t.p, t.w)
    BY <1>3, <2>1 DEF Captures
  <2>3. Labels(t.p, t.w)
    BY <1>1, <1>3, <2>1 DEF Labels, Enrolling!None
  <2>4. /\ t.c \in Seq(Messages)
        /\ \A i \in DOMAIN t.c : (i \in DOMAIN s.c /\ t.c[i] = s.c[i]) \/ t.c[i] = m
    BY <1>1, <1>3, Queue
  <2>5. Enrolled(s.w) => Enrolled(t.w)
    BY <1>3 DEF Enrolled
  <2>6. m.result = "enroll-completed" => Enrolled(t.w)
    BY <1>3 DEF Enrolled
  <2>7. t.p.complete => Enrolled(t.w)
    BY <1>1, <1>3, <2>5 DEF Completes
  <2>8. ASSUME NEW i \in DOMAIN t.c, t.c[i].result = "enroll-completed" PROVE Enrolled(t.w)
    BY <1>1, <2>4, <2>5, <2>6, <2>8 DEF Completes
  <2>9. t.p.page # Enrolling!None /\ t.p.dialog # "question"
    BY <1>1, <1>3, <2>1 DEF Completes, Enrolling!None
  <2>10. Completes(t.p, t.c, t.w)
    BY <2>7, <2>8, <2>9 DEF Completes
  <2> QED
    BY <1>3, <2>2, <2>3, <2>4, <2>10 DEF FingerSound
<1>4. CASE Enrolling!StagePassed
  <2> DEFINE m == [result |-> "enroll-stage-passed", done |-> FALSE]
             u == [s EXCEPT !.w.scans = @ + 1]
             t == [u EXCEPT !.c = Append(@, m)]
  <2>1. Enrolling!Scanning /\ Enrolling!Becomes(t)
    BY <1>4 DEF Enrolling!StagePassed, Enrolling!Emit, s
  <2>2. m \in Messages /\ m.result # "enroll-completed"
    BY DEF Messages
  <2> HIDE DEF m
  <2>3. /\ FingerState(t) /\ t.p = s.p /\ t.c = Append(s.c, m)
        /\ (t.w.device <=> s.w.device) /\ (t.w.foreign <=> s.w.foreign) /\ (t.w.taken <=> s.w.taken)
        /\ t.w.claim = s.w.claim /\ t.w.finger = s.w.finger /\ t.w.prints = s.w.prints
    BY <1>1 DEF FingerState, FingerWorldFields
  <2> HIDE DEF t
  <2>4. FingerSound(t)
    BY <1>3, <2>1, <2>2, <2>3
  <2> QED
    BY <2>1, <2>4, FingerBecomes
<1>5. ASSUME NEW result \in {"enroll-retry-scan", "enroll-failed"}, NEW done \in BOOLEAN,
             Enrolling!ScanFails(result, done)
      PROVE  FingerSound(Enrolling!State)'
  <2> DEFINE m == [result |-> result, done |-> done]
             u == [s EXCEPT !.w.enroll = IF done THEN "ended" ELSE @]
             t == [u EXCEPT !.c = Append(@, m)]
  <2>1. Enrolling!Scanning /\ Enrolling!ByOthers(t)
    BY <1>5 DEF Enrolling!ScanFails, Enrolling!Emit, s
  <2>2. m \in Messages /\ m.result # "enroll-completed"
    BY DEF Messages
  <2> HIDE DEF m
  <2>3. /\ FingerState(t) /\ t.p = s.p /\ t.c = Append(s.c, m)
        /\ (t.w.device <=> s.w.device) /\ (t.w.foreign <=> s.w.foreign) /\ (t.w.taken <=> s.w.taken)
        /\ t.w.claim = s.w.claim /\ t.w.finger = s.w.finger /\ t.w.prints = s.w.prints
    BY <1>1 DEF FingerState, FingerWorldFields
  <2> HIDE DEF t
  <2>4. FingerSound(t)
    BY <1>3, <2>1, <2>2, <2>3
  <2> QED
    BY <1>2, <2>1, <2>4
<1>6. CASE Enrolling!EnrollCompletes
  <2> DEFINE m == [result |-> "enroll-completed", done |-> TRUE]
             u == [s EXCEPT !.w.enroll = "ended", !.w.prints = @ \cup {world.finger}]
             t == [u EXCEPT !.c = Append(@, m)]
  <2>1. Enrolling!Scanning /\ Enrolling!Becomes(t)
    BY <1>6 DEF Enrolling!EnrollCompletes, Enrolling!Emit, s
  <2>2. m \in Messages
    BY DEF Messages
  <2> HIDE DEF m
  <2>3. /\ FingerState(t) /\ t.p = s.p /\ t.c = Append(s.c, m)
        /\ (t.w.device <=> s.w.device) /\ (t.w.foreign <=> s.w.foreign) /\ (t.w.taken <=> s.w.taken)
        /\ t.w.claim = s.w.claim /\ t.w.finger = s.w.finger /\ t.w.prints = s.w.prints \cup {world.finger}
    BY <1>1 DEF FingerState, FingerWorldFields
  <2> HIDE DEF t
  <2>4. FingerSound(t)
    BY <1>3, <2>1, <2>2, <2>3
  <2> QED
    BY <2>1, <2>4, FingerBecomes
<1>7. ASSUME NEW t, FingerState(t), t.p = s.p, t.c = s.c, t.w.claim # "ours", t.w.enroll = Enrolling!None,
             t.w.device => s.w.device, t.w.foreign \/ t.w.prints = s.w.prints, s.w.foreign => t.w.foreign,
             t.w.taken \/ (t.w.prints = s.w.prints /\ (t.w.taken <=> s.w.taken))
      PROVE  FingerSound(t)
  <2>1. Captures(t.p, t.w)
    BY <1>7 DEF Captures
  <2>2. Labels(t.p, t.w)
    BY <1>1, <1>7 DEF Labels
  <2>3. Completes(t.p, t.c, t.w)
    BY <1>1, <1>7 DEF Completes, Enrolled
  <2> QED
    BY <1>1, <1>7, <2>1, <2>2, <2>3 DEF FingerSound
<1>8. CASE Enrolling!DeviceGone
  <2> DEFINE t == [s EXCEPT !.w.device = FALSE, !.w.claim = Enrolling!None, !.w.enroll = Enrolling!None]
  <2>1. /\ FingerState(t) /\ t.p = s.p /\ t.c = s.c /\ ~t.w.device /\ t.w.claim = Enrolling!None
           /\ t.w.enroll = Enrolling!None
        /\ (t.w.foreign <=> s.w.foreign) /\ (t.w.taken <=> s.w.taken) /\ t.w.prints = s.w.prints
    BY <1>1 DEF FingerState, FingerWorldFields
  <2> HIDE DEF t
  <2>2. FingerSound(t)
    BY <1>7, <2>1 DEF Enrolling!None
  <2> QED
    BY <1>2, <1>8, <2>2 DEF Enrolling!DeviceGone, t, s
<1>9. CASE Enrolling!OthersClaim \/ Enrolling!OthersRelease
  <2> DEFINE t == [s EXCEPT !.w.claim = "other"]
             u == [s EXCEPT !.w.claim = Enrolling!None]
  <2>1. s.w.claim # "ours" /\ s.w.enroll = Enrolling!None
    BY <1>1, <1>9 DEF Enrolling!OthersClaim, Enrolling!OthersRelease, Captures, Enrolling!None
  <2>2. /\ FingerState(t) /\ t.p = s.p /\ t.c = s.c /\ (t.w.device <=> s.w.device) /\ t.w.claim = "other"
        /\ t.w.enroll = s.w.enroll
        /\ (t.w.foreign <=> s.w.foreign) /\ (t.w.taken <=> s.w.taken) /\ t.w.prints = s.w.prints
        /\ FingerState(u) /\ u.p = s.p /\ u.c = s.c /\ (u.w.device <=> s.w.device) /\ u.w.claim = Enrolling!None
        /\ u.w.enroll = s.w.enroll
        /\ (u.w.foreign <=> s.w.foreign) /\ (u.w.taken <=> s.w.taken) /\ u.w.prints = s.w.prints
    BY <1>1 DEF FingerState, FingerWorldFields
  <2> HIDE DEF t, u
  <2>3. FingerSound(t) /\ FingerSound(u)
    BY <1>7, <2>1, <2>2 DEF Enrolling!None
  <2> QED
    BY <1>2, <1>9, <2>3, FingerBecomes DEF Enrolling!OthersClaim, Enrolling!OthersRelease, t, u, s
<1>10. CASE Enrolling!PrintsChanged
  <2> DEFINE t == [s EXCEPT !.w.prints = IF @ = {} THEN {Config.fingerprint.First} ELSE {}, !.w.foreign = TRUE,
             !.w.taken = TRUE]
  <2>1. s.w.claim = Enrolling!None /\ s.w.enroll = Enrolling!None
    BY <1>1, <1>10 DEF Enrolling!PrintsChanged, Captures, Enrolling!None
  <2>2. /\ FingerState(t) /\ t.p = s.p /\ t.c = s.c /\ (t.w.device <=> s.w.device) /\ t.w.claim = s.w.claim
        /\ t.w.enroll = s.w.enroll /\ t.w.foreign /\ t.w.taken
    BY <1>1 DEF FingerState, FingerWorldFields
  <2> HIDE DEF t
  <2>3. FingerSound(t)
    BY <1>7, <2>1, <2>2 DEF Enrolling!None
  <2> QED
    BY <1>2, <1>10, <2>3 DEF Enrolling!PrintsChanged, t, s
<1>11. CASE Enrolling!ShowUser
  <2>1. FingerSound(Enrolling!SetFingerprintLabel(s))
    BY <1>1, LabelIsSet DEF Labels
  <2> QED
    BY <1>11, <2>1, FingerBecomes DEF Enrolling!ShowUser, s
<1>12. CASE Enrolling!ScanFails("enroll-retry-scan", FALSE)
  BY <1>5, <1>12
<1>13. CASE Enrolling!ScanFails("enroll-failed", TRUE)
  BY <1>5, <1>13
<1> QED
  BY <1>4, <1>6, <1>8, <1>9, <1>10, <1>11, <1>12, <1>13

\* Every step of the assistant.
LEMMA FingerNext == FingerSound(Enrolling!State) /\ Enrolling!Next => FingerSound(Enrolling!State)'
BY UserEnrolls, SignalHeard, DeviceActs DEF Enrolling!Next

\* The properties of the assistant.
LEMMA FingerTells ==
  FingerSound(Enrolling!State) => Enrolling!DeviceIsReleased /\ Enrolling!EnrollsTheFingerChosen
  /\ Enrolling!LabelTellsPrints
<1> SUFFICES ASSUME FingerSound(Enrolling!State)
             PROVE Enrolling!DeviceIsReleased /\ Enrolling!EnrollsTheFingerChosen /\ Enrolling!LabelTellsPrints
  OBVIOUS
<1>1. /\ Enrolling!State.p = panel /\ Enrolling!State.c = calls /\ Enrolling!State.w = world
      /\ Captures(panel, world) /\ Labels(panel, world) /\ Completes(panel, calls, world)
  BY DEF Enrolling!State, FingerSound
<1>2. Enrolling!DeviceIsReleased
  BY <1>1 DEF Captures, Enrolling!DeviceIsReleased, Enrolling!None
<1>3. Enrolling!EnrollsTheFingerChosen
  BY <1>1 DEF Captures, Enrolling!EnrollsTheFingerChosen
<1>4. Enrolling!LabelTellsPrints
  <2>1. panel.label \in BOOLEAN /\ panel.disable \in BOOLEAN /\ (panel.label <=> panel.disable)
    BY <1>1 DEF Labels
  <2>2. panel.label = panel.disable
    BY <2>1
  <2>3. world.device /\ Enrolling!At(Enrolling!None) /\ ~world.foreign => (panel.label <=> world.prints # {})
    BY <1>1 DEF Labels, Enrolling!At
  <2>4. world.device /\ Enrolling!At(Enrolling!None) /\ ~world.foreign => panel.label = (world.prints # {})
    BY <2>1, <2>3
  <2>5. panel.complete => world.prints # {} \/ world.taken
    BY <1>1 DEF Completes, Enrolled
  <2> QED
    BY <2>2, <2>4, <2>5 DEF Enrolling!LabelTellsPrints
<1> QED
  BY <1>2, <1>3, <1>4

-----------------------------------------------------------------------------
(***************************************************************************)
(* Online accounts: the panel, what it waits for, and GOA, as one record s.*)
(***************************************************************************)

OnlineFields ==
  {"open", "ready", "rows", "frame", "objects", "kept", "locked", "before", "active", "page", "editor",
   "removable", "removed", "reveal", "timer", "providers", "errors", "wild"}
OnlineWorldFields ==
  {"there", "unborn", "said", "online", "asked", "sent", "taken", "acts", "changes"}
Signals == ({"added", "removed"} \X Config.accounts.Accounts) \cup ({"changed"} \X Config.accounts.Accounts \X BOOLEAN)

\* The operators of the panel work on the whole state.
OnlineState(s) == DOMAIN s = {"p", "c", "w"} /\ DOMAIN s.p = OnlineFields /\ DOMAIN s.w = OnlineWorldFields
OnlineTypes(p, w) ==
  /\ DOMAIN p.rows \subseteq Config.accounts.Accounts /\ p.rows \in [DOMAIN p.rows -> BOOLEAN]
  /\ w.there \subseteq Config.accounts.Accounts /\ w.unborn \subseteq Config.accounts.Accounts
  /\ w.said \in Seq(Signals)

\* Is something said of an account that was not heard?
Unheard(tag, a, said) == \E i \in DOMAIN said : said[i][1] = tag /\ said[i][2] = a
\* An account that came to be and was told of.
ToldOf(a, w) == a \in Config.accounts.Accounts /\ a \notin w.unborn /\ ~Unheard("added", a, w.said)

\* Each account is told to be added once, and then to be removed once.
InOrder(w) ==
  \A i \in DOMAIN w.said :
    /\ w.said[i][1] = "added" =>
         /\ w.said[i][2] \notin w.unborn
         /\ w.said[i][2] \in w.there \/ Unheard("removed", w.said[i][2], w.said)
         /\ \A j \in DOMAIN w.said : w.said[j][1] = "added" /\ w.said[j][2] = w.said[i][2] => j = i
    /\ w.said[i][1] = "removed" =>
         /\ w.said[i][2] \notin w.there /\ w.said[i][2] \notin w.unborn
         /\ \A j \in DOMAIN w.said : w.said[j][1] = "added" /\ w.said[j][2] = w.said[i][2] => j < i

\* The rows are the accounts of GOA but for what is not heard.
Mirrors(p, w) ==
  /\ w.there \cap w.unborn = {} /\ InOrder(w)
  /\ \A a \in Config.accounts.Accounts :
       /\ a \in DOMAIN p.rows => ToldOf(a, w) /\ (a \in w.there \/ Unheard("removed", a, w.said))
       /\ a \in w.there => a \in DOMAIN p.rows \/ Unheard("added", a, w.said)

\* What is asked to be removed was told of; what GOA was asked to remove was asked to be removed.
Asked(p, c, w) ==
  /\ \A a \in w.asked : ToldOf(a, w)
  /\ w.sent \subseteq w.asked /\ w.asked \subseteq {p.removed} \cup w.sent
  /\ p.removed # Online!None => p.removed \in w.asked /\ p.removed \notin w.sent
  /\ p.timer <=> p.removed # Online!None
  /\ p.open => (p.reveal <=> p.removed # Online!None)
  /\ \A call \in c : call[1] # "providers" => call[2] \in w.sent

\* Hidden are the rows of what was asked to be removed, and nothing else.
Hides(p, w) ==
  /\ \A a \in DOMAIN p.rows : p.rows[a] <=> a \notin w.asked
  /\ (\E a \in DOMAIN p.rows : p.rows[a]) => p.frame

\* The account of the dialog is not one that was asked to be removed, and one that is being added
\* is none of those either.
Edits(p, w) ==
  /\ IF p.page = "editor" THEN p.active = p.editor /\ p.active # Online!None ELSE p.active = Online!None
  /\ p.active # Online!None => ToldOf(p.active, w) /\ p.active \notin w.asked
  /\ p.page = "new-account" => \A a \in DOMAIN p.rows \ p.before : a \notin w.asked

\* As long as no other program removes accounts, GOA drops only what it was asked to.
Holds(p, w) ==
  /\ DOMAIN p.rows \subseteq p.objects
  /\ ~w.taken =>
       /\ \A i \in DOMAIN w.said : w.said[i][1] = "removed" => w.said[i][2] \in w.sent
       /\ p.active # Online!None => p.active \in p.objects
       /\ p.removed # Online!None => p.removed \in p.objects

OnlineSound(s) ==
  /\ OnlineState(s) /\ OnlineTypes(s.p, s.w) /\ Asked(s.p, s.c, s.w)
  /\ s.p.wild => s.w.taken \/ ~s.p.open
  /\ ~s.p.ready => DOMAIN s.p.rows = {} /\ s.p.active = Online!None
  /\ s.p.open /\ ~s.p.wild => Edits(s.p, s.w) /\ Hides(s.p, s.w) /\ Holds(s.p, s.w)
  /\ s.p.open /\ s.p.ready => Mirrors(s.p, s.w)

\* Nothing that matters is changed: of the world, the list, the removal, the dialog.
SameWorld(w, v) ==
  /\ v.there = w.there /\ v.unborn = w.unborn /\ v.said = w.said
  /\ v.asked = w.asked /\ v.sent = w.sent /\ (v.taken <=> w.taken)
SameRows(p, q) ==
  /\ (q.open <=> p.open) /\ (q.ready <=> p.ready) /\ q.rows = p.rows /\ (q.frame <=> p.frame)
  /\ q.objects = p.objects
SameRemoval(p, q) == q.removed = p.removed /\ (q.reveal <=> p.reveal) /\ (q.timer <=> p.timer)
SameDialog(p, q) ==
  q.active = p.active /\ q.page = p.page /\ q.editor = p.editor /\ q.before = p.before

\* The state that is told is the one that comes.
LEMMA OnlineBecomes ==
  ASSUME NEW s, OnlineSound(s), Online!Becomes(s)
  PROVE  OnlineSound(Online!State)'
BY DEF Online!Becomes, Online!State, OnlineSound, OnlineState

\* Counting what the user and others do.
LEMMA OnlineCounted ==
  ASSUME NEW s, OnlineSound(s)
  PROVE  OnlineSound([s EXCEPT !.w.acts = @ + 1]) /\ OnlineSound([s EXCEPT !.w.changes = @ + 1])
<1> DEFINE t == [s EXCEPT !.w.acts = @ + 1]
           u == [s EXCEPT !.w.changes = @ + 1]
<1>1. /\ OnlineState(t) /\ t.p = s.p /\ t.c = s.c /\ SameWorld(s.w, t.w)
      /\ OnlineState(u) /\ u.p = s.p /\ u.c = s.c /\ SameWorld(s.w, u.w)
  BY DEF OnlineSound, OnlineState, OnlineWorldFields, SameWorld
<1> HIDE DEF t, u
<1>2. ASSUME NEW v, OnlineState(v), v.p = s.p, v.c = s.c, SameWorld(s.w, v.w) PROVE OnlineSound(v)
  <2> USE <1>2 DEF OnlineSound, SameWorld
  <2>1. OnlineTypes(v.p, v.w)
    BY DEF OnlineTypes
  <2>2. Asked(v.p, v.c, v.w)
    BY DEF Asked, ToldOf
  <2>3. Edits(s.p, s.w) => Edits(v.p, v.w)
    BY DEF Edits, ToldOf
  <2>4. Hides(s.p, s.w) => Hides(v.p, v.w)
    BY DEF Hides
  <2>5. Holds(s.p, s.w) => Holds(v.p, v.w)
    BY DEF Holds
  <2>6. Mirrors(s.p, s.w) => Mirrors(v.p, v.w)
    BY DEF Mirrors, InOrder, ToldOf
  <2> QED
    BY <2>1, <2>2, <2>3, <2>4, <2>5, <2>6
<1> QED
  BY <1>1, <1>2 DEF t, u

\* The panel opens with the accounts of GOA, or before the client has them.
LEMMA OnlineInit == Online!Init => OnlineSound(Online!State)
<1> SUFFICES ASSUME Online!Init PROVE OnlineSound(Online!State)
  OBVIOUS
<1>1. PICK start \in Config.accounts.Starts, ready \in BOOLEAN :
    LET known == IF ready THEN start ELSE {} IN
    /\ panel = [open |-> TRUE, ready |-> ready, rows |-> [a \in known |-> TRUE], frame |-> known # {},
                objects |-> known, kept |-> {}, locked |-> [a \in Config.accounts.Accounts |-> FALSE],
                before |-> {}, active |-> Online!None, page |-> Online!None, editor |-> Online!None,
                removable |-> FALSE,
                removed |-> Online!None, reveal |-> FALSE, timer |-> FALSE, providers |-> FALSE,
                errors |-> 0, wild |-> FALSE]
    /\ calls = IF ready THEN {<<"providers">>} ELSE {}
    /\ world = [there |-> start, unborn |-> Config.accounts.Accounts \ start, said |-> <<>>, online |-> TRUE,
                asked |-> {}, sent |-> {}, taken |-> FALSE, acts |-> 0, changes |-> 0]
  BY DEF Online!Init
<1> DEFINE known == IF ready THEN start ELSE {}
<1>2. /\ DOMAIN panel = OnlineFields /\ panel.open /\ (panel.ready <=> ready) /\ panel.rows = [a \in known |-> TRUE]
      /\ (panel.frame <=> known # {}) /\ panel.objects = known /\ panel.active = Online!None
         /\ panel.page = Online!None
      /\ panel.removed = Online!None /\ ~panel.reveal /\ ~panel.timer /\ ~panel.wild
  BY <1>1 DEF OnlineFields
<1>3. /\ DOMAIN world = OnlineWorldFields /\ world.there = start /\ world.unborn = Config.accounts.Accounts \ start
      /\ world.said = <<>> /\ world.asked = {} /\ world.sent = {} /\ ~world.taken
  BY <1>1 DEF OnlineWorldFields
<1>4. start \subseteq Config.accounts.Accounts /\ known \subseteq start
  BY AccountsAssumption
<1>5. \A call \in calls : call[1] = "providers"
  BY <1>1
<1> HIDE DEF known
<1>6. OnlineTypes(panel, world)
  BY <1>2, <1>3, <1>4 DEF OnlineTypes
<1>7. Asked(panel, calls, world)
  BY <1>2, <1>3, <1>5 DEF Asked
<1>8. Edits(panel, world) /\ Holds(panel, world)
  BY <1>2, <1>3 DEF Edits, Holds, Online!None
<1>11. Hides(panel, world)
  BY <1>2, <1>3 DEF Hides
<1>9. ready => Mirrors(panel, world)
  BY <1>2, <1>3, <1>4 DEF Mirrors, InOrder, ToldOf, Unheard, known
<1>10. ~ready => DOMAIN panel.rows = {}
  BY <1>2 DEF known
<1>12. OnlineState(Online!State) /\ Online!State.p = panel /\ Online!State.c = calls /\ Online!State.w = world
  BY <1>2, <1>3 DEF OnlineState, Online!State
<1>13. ~ready => panel.active = Online!None /\ DOMAIN panel.rows = {}
  BY <1>2, <1>10
<1>14. panel.open /\ (panel.ready <=> ready) /\ ~panel.wild
  BY <1>2
<1> QED
  BY <1>6, <1>7, <1>8, <1>9, <1>11, <1>12, <1>13, <1>14 DEF OnlineSound

\* The dialog shows an account that was not asked to be removed, or is closed, or adds one.
LEMMA DialogMoves ==
  ASSUME NEW s, OnlineSound(s), NEW t, OnlineState(t), t.c = s.c, t.w = s.w,
         SameRows(s.p, t.p), SameRemoval(s.p, t.p), ~s.p.wild, ~t.p.wild, s.p.open, Edits(t.p, t.w),
         t.p.active # Online!None => t.p.active \in DOMAIN s.p.rows \/ t.p.active = s.p.active
  PROVE  OnlineSound(t)
<1> USE DEF OnlineSound, SameRows, SameRemoval
<1>1. OnlineTypes(t.p, t.w)
  BY DEF OnlineTypes
<1>2. Asked(t.p, t.c, t.w)
  BY DEF Asked
<1>4. Hides(t.p, t.w)
  BY DEF Hides
<1>5. Holds(t.p, t.w)
  BY DEF Holds
<1>6. s.p.ready => Mirrors(t.p, t.w)
  BY DEF Mirrors, InOrder
<1> QED
  BY <1>1, <1>2, <1>4, <1>5, <1>6

\* The page of an account is shown.
LEMMA PageShown ==
  ASSUME NEW s, OnlineSound(s), ~s.p.wild, s.p.open, NEW a, a # Online!None, ToldOf(a, s.w), a \notin s.w.asked,
         a \in DOMAIN s.p.rows \/ a = s.p.active
  PROVE  OnlineSound(Online!ShowPageAccount(s, a))
<1> DEFINE t == Online!ShowPageAccount(s, a)
<1>1. /\ OnlineState(t) /\ t.c = s.c /\ t.w = s.w /\ SameRows(s.p, t.p) /\ SameRemoval(s.p, t.p)
      /\ ~t.p.wild /\ t.p.active = a /\ t.p.page = "editor" /\ t.p.editor = a
  BY DEF OnlineSound, OnlineState, Online!ShowPageAccount, SameRows, SameRemoval, OnlineFields
<1> HIDE DEF t
<1>2. Edits(t.p, t.w)
  BY <1>1 DEF Edits
<1> QED
  BY <1>1, <1>2, DialogMoves DEF t

\* The user opens a page, adds an account or closes the dialog.
LEMMA UserShows ==
  ASSUME OnlineSound(Online!State),
         \/ \E a \in Config.accounts.Accounts : Online!RowActivated(a) \/ Online!AddReturns(a)
         \/ Online!ProviderActivated \/ Online!DialogClosed
  PROVE  OnlineSound(Online!State)'
<1> DEFINE s == Online!State
<1>1. s.p = panel /\ s.c = calls /\ s.w = world /\ OnlineState(s) /\ OnlineSound(s)
  BY DEF OnlineSound, Online!State
<1> HIDE DEF s
<1>2. ASSUME NEW t, OnlineSound(t), Online!ByUser(t) PROVE OnlineSound(Online!State)'
  BY <1>2, OnlineCounted, OnlineBecomes DEF Online!ByUser
<1>3. ASSUME NEW a \in Config.accounts.Accounts, Online!RowActivated(a) PROVE OnlineSound(Online!State)'
  <2>1. /\ ~panel.wild /\ panel.open /\ a \in DOMAIN panel.rows /\ panel.rows[a]
    BY <1>3 DEF Online!RowActivated, Online!ByUser, Online!Becomes, Online!State, Online!Visible, Online!Rows
  <2>2. ToldOf(a, world) /\ a \notin world.asked
    BY <1>1, <2>1 DEF OnlineSound, Mirrors, InOrder, Hides
  <2>3. OnlineSound(Online!ShowPageAccount(s, a))
    BY <1>1, <2>1, <2>2, PageShown, AccountsAssumption
  <2> QED
    BY <1>2, <1>3, <2>3 DEF Online!RowActivated, s
<1>4. ASSUME NEW a \in Config.accounts.Accounts, Online!AddReturns(a) PROVE OnlineSound(Online!State)'
  <2> DEFINE t == [s EXCEPT !.p.kept = @ \cup {a}]
  <2>1. /\ ~panel.wild /\ panel.open /\ a \in DOMAIN panel.rows \ panel.before /\ panel.page = "new-account"
    BY <1>4 DEF Online!AddReturns, Online!ByUser, Online!Becomes, Online!State, Online!Rows
  <2>2. ToldOf(a, world) /\ a \notin world.asked
    BY <1>1, <2>1 DEF OnlineSound, Mirrors, InOrder, Edits
  <2>3. /\ OnlineState(t) /\ t.c = s.c /\ t.w = s.w /\ SameRows(s.p, t.p) /\ SameRemoval(s.p, t.p)
        /\ ~t.p.wild /\ SameDialog(s.p, t.p)
    BY <1>1, <2>1 DEF OnlineState, SameRows, SameRemoval, SameDialog, OnlineFields
  <2> HIDE DEF t
  <2>4. Edits(t.p, t.w)
    BY <1>1, <2>1, <2>3 DEF OnlineSound, Edits, SameDialog, SameRows
  <2>5. OnlineSound(t)
    BY <1>1, <2>1, <2>3, <2>4, DialogMoves DEF SameDialog
  <2>6. OnlineSound(Online!ShowPageAccount(t, a))
    BY <1>1, <2>1, <2>2, <2>3, <2>5, PageShown, AccountsAssumption DEF SameRows
  <2> QED
    BY <1>2, <1>4, <2>6 DEF Online!AddReturns, s, t
<1>5. CASE Online!ProviderActivated
  <2> DEFINE t == [s EXCEPT !.p.page = "new-account", !.p.before = Online!Rows(s)]
  <2>1. ~panel.wild /\ panel.open /\ panel.page = Online!None
    BY <1>5 DEF Online!ProviderActivated, Online!Free, Online!ByUser, Online!Becomes
  <2>2. /\ OnlineState(t) /\ t.c = s.c /\ t.w = s.w /\ SameRows(s.p, t.p) /\ SameRemoval(s.p, t.p)
        /\ ~t.p.wild /\ t.p.page = "new-account" /\ t.p.before = DOMAIN s.p.rows /\ t.p.active = s.p.active
    BY <1>1, <2>1 DEF OnlineState, SameRows, SameRemoval, OnlineFields, Online!Rows
  <2> HIDE DEF t
  <2>3. Edits(t.p, t.w)
    BY <1>1, <2>1, <2>2 DEF OnlineSound, Edits, SameRows, Online!None
  <2>4. OnlineSound(t)
    BY <1>1, <2>1, <2>2, <2>3, DialogMoves
  <2> QED
    BY <1>2, <1>5, <2>4 DEF Online!ProviderActivated, s, t
<1>6. CASE Online!DialogClosed
  <2> DEFINE t == [Online!HideDialog(s) EXCEPT !.p.active = Online!None]
  <2>1. ~panel.wild /\ panel.open
    BY <1>6 DEF Online!DialogClosed, Online!ByUser, Online!Becomes
  <2>2. /\ OnlineState(t) /\ t.c = s.c /\ t.w = s.w /\ SameRows(s.p, t.p) /\ SameRemoval(s.p, t.p)
        /\ ~t.p.wild /\ t.p.page = Online!None /\ t.p.active = Online!None
    BY <1>1, <2>1 DEF OnlineState, SameRows, SameRemoval, OnlineFields, Online!HideDialog
  <2> HIDE DEF t
  <2>3. Edits(t.p, t.w)
    BY <2>2 DEF Edits, Online!None
  <2>4. OnlineSound(t)
    BY <1>1, <2>1, <2>2, <2>3, DialogMoves
  <2> QED
    BY <1>2, <1>6, <2>4 DEF Online!DialogClosed, s, t
<1> QED
  BY <1>3, <1>4, <1>5, <1>6

\* What was freed is used only if others removed it, or the panel is gone.
LEMMA WildUse ==
  ASSUME NEW s, OnlineSound(s), s.w.taken \/ ~s.p.open
  PROVE  OnlineSound([s EXCEPT !.p.wild = TRUE])
<1> DEFINE t == [s EXCEPT !.p.wild = TRUE]
<1>1. /\ OnlineState(t) /\ t.c = s.c /\ t.w = s.w /\ SameRows(s.p, t.p) /\ SameRemoval(s.p, t.p)
      /\ t.p.wild /\ t.p.active = s.p.active
  BY DEF OnlineSound, OnlineState, SameRows, SameRemoval, OnlineFields
<1> HIDE DEF t
<1> USE DEF OnlineSound, SameRows, SameRemoval
<1>2. OnlineTypes(t.p, t.w)
  BY <1>1 DEF OnlineTypes
<1>3. Asked(t.p, t.c, t.w)
  BY <1>1 DEF Asked
<1>4. Mirrors(s.p, s.w) => Mirrors(t.p, t.w)
  BY <1>1 DEF Mirrors, InOrder
<1> QED
  BY <1>1, <1>2, <1>3, <1>4 DEF t

\* The notification is closed: GOA is asked to remove the account, unless that is gone.
LEMMA Closed ==
  ASSUME NEW s, OnlineSound(s), ~s.p.wild, s.p.removed # Online!None
  PROVE  /\ OnlineSound(Online!CloseNotification(s))
         /\ ~Online!CloseNotification(s).p.wild =>
              /\ Online!CloseNotification(s).p.removed = Online!None
              /\ SameRows(s.p, Online!CloseNotification(s).p) /\ SameDialog(s.p, Online!CloseNotification(s).p)
<1> DEFINE t == Online!CloseNotification(s)
<1>1. CASE Online!Freed(s, s.p.removed)
  <2>1. s.w.taken \/ ~s.p.open
    BY <1>1 DEF OnlineSound, Holds, Online!Freed
  <2>2. t = [s EXCEPT !.p.wild = TRUE] /\ t.p.wild
    BY <1>1 DEF Online!CloseNotification, OnlineSound, OnlineState, OnlineFields
  <2> QED
    BY <2>1, <2>2, WildUse
<1>2. CASE ~Online!Freed(s, s.p.removed)
  <2>1. /\ OnlineState(t) /\ t.c = s.c \cup {<<"remove", s.p.removed>>} /\ SameRows(s.p, t.p)
           /\ SameDialog(s.p, t.p)
        /\ ~t.p.wild /\ ~t.p.reveal /\ ~t.p.timer /\ t.p.removed = Online!None
        /\ t.w.sent = s.w.sent \cup {s.p.removed} /\ t.w.there = s.w.there /\ t.w.unborn = s.w.unborn
        /\ t.w.said = s.w.said /\ t.w.asked = s.w.asked /\ (t.w.taken <=> s.w.taken)
    BY <1>2 DEF Online!CloseNotification, OnlineSound, OnlineState, OnlineFields, OnlineWorldFields, SameRows,
       SameDialog
  <2> HIDE DEF t
  <2> USE <2>1 DEF OnlineSound, SameRows, SameDialog
  <2>2. OnlineTypes(t.p, t.w)
    BY DEF OnlineTypes
  <2>3. Asked(t.p, t.c, t.w)
    BY DEF Asked, ToldOf
  <2>4. Edits(s.p, s.w) => Edits(t.p, t.w)
    BY DEF Edits, ToldOf
  <2>5. Hides(s.p, s.w) => Hides(t.p, t.w)
    BY DEF Hides
  <2>6. Holds(s.p, s.w) => Holds(t.p, t.w)
    BY DEF Holds
  <2>7. Mirrors(s.p, s.w) => Mirrors(t.p, t.w)
    BY DEF Mirrors, InOrder, ToldOf
  <2>8. OnlineSound(t)
    BY <2>2, <2>3, <2>4, <2>5, <2>6, <2>7
  <2> QED
    BY <2>8 DEF t
<1> QED
  BY <1>1, <1>2

\* The account of the dialog is removed: hidden, to be told to GOA later.
LEMMA Hidden ==
  ASSUME NEW s, OnlineSound(s), ~s.p.wild, s.p.open, s.p.removed = Online!None, s.p.active # Online!None,
         s.p.active \in s.p.objects \/ s.w.taken, NEW t, OnlineState(t), t.c = s.c,
         SameWorld([s.w EXCEPT !.asked = @ \cup {s.p.active}], t.w),
         t.p.open, t.p.ready <=> s.p.ready, t.p.objects = s.p.objects, ~t.p.wild,
         t.p.active = Online!None, t.p.page = Online!None, t.p.removed = s.p.active, t.p.reveal, t.p.timer,
         t.p.rows = [b \in DOMAIN s.p.rows |-> b # s.p.active /\ s.p.rows[b]],
         t.p.frame <=> (IF s.p.active \in DOMAIN s.p.rows THEN DOMAIN s.p.rows # {s.p.active} ELSE s.p.frame)
  PROVE  OnlineSound(t)
<1>1. /\ t.w.there = s.w.there /\ t.w.unborn = s.w.unborn /\ t.w.said = s.w.said
      /\ t.w.asked = s.w.asked \cup {s.p.active} /\ t.w.sent = s.w.sent /\ (t.w.taken <=> s.w.taken)
  BY DEF SameWorld, OnlineSound, OnlineState, OnlineWorldFields
<1>2. Edits(s.p, s.w) /\ Hides(s.p, s.w) /\ Holds(s.p, s.w)
  BY DEF OnlineSound
<1>3. ToldOf(s.p.active, s.w) /\ s.p.active \notin s.w.asked
  BY <1>2 DEF Edits
<1>4. OnlineTypes(t.p, t.w)
  BY <1>1 DEF OnlineTypes, OnlineSound
<1>5. Asked(t.p, t.c, t.w)
  BY <1>1, <1>3, AccountsAssumption DEF Asked, ToldOf, OnlineSound
<1>6. Edits(t.p, t.w)
  BY DEF Edits, Online!None
<1>7. Hides(t.p, t.w)
  BY <1>1, <1>2 DEF Hides
<1>8. Holds(t.p, t.w)
  BY <1>1, <1>2 DEF Holds
<1>9. Mirrors(s.p, s.w) => Mirrors(t.p, t.w)
  BY <1>1 DEF Mirrors, InOrder, ToldOf
<1> QED
  BY <1>1, <1>4, <1>5, <1>6, <1>7, <1>8, <1>9 DEF OnlineSound

\* The button removes the account of the dialog.
LEMMA Removes ==
  ASSUME NEW s, OnlineSound(s), ~s.p.wild, s.p.open, s.p.page = "editor"
  PROVE  OnlineSound(Online!RemoveActive(s))
<1> DEFINE t == IF s.p.removed # Online!None THEN Online!CloseNotification(s) ELSE s
           u == [t EXCEPT !.p.removed = s.p.active, !.p.active = Online!None, !.p.reveal = TRUE,
                          !.w.asked = @ \cup {s.p.active}]
           v == Online!HideRow(u, s.p.active)
           r == [Online!HideDialog(v) EXCEPT !.p.timer = TRUE]
<1>1. s.p.active # Online!None /\ Holds(s.p, s.w)
  BY DEF OnlineSound, Edits
<1>2. OnlineSound(t)
  BY Closed
<1>3. ~t.p.wild => (t.p.removed = Online!None /\ SameRows(s.p, t.p) /\ SameDialog(s.p, t.p))
  <2>1. SameRows(s.p, s.p) /\ SameDialog(s.p, s.p)
    BY DEF SameRows, SameDialog
  <2> QED
    BY <2>1, Closed
<1>4. Online!RemoveActive(s) = IF t.p.wild \/ Online!Freed(s, s.p.active) THEN [s EXCEPT !.p.wild = TRUE] ELSE r
  BY <1>1 DEF Online!RemoveActive
<1> HIDE DEF t
<1>5. CASE t.p.wild
  <2>1. s.w.taken \/ ~s.p.open
    <3>1. s.p.removed # Online!None
      BY <1>5 DEF t
    <3>2. CASE Online!Freed(s, s.p.removed)
      BY <3>1, <3>2, <1>1 DEF Holds, Online!Freed
    <3>3. CASE ~Online!Freed(s, s.p.removed)
      <4>1. t.p.wild <=> s.p.wild
        BY <3>1, <3>3 DEF t, Online!CloseNotification, OnlineSound, OnlineState, OnlineFields
      <4> QED
        BY <4>1, <1>5
    <3> QED
      BY <3>2, <3>3
  <2> QED
    BY <1>4, <1>5, <2>1, WildUse
<1>6. CASE Online!Freed(s, s.p.active)
  <2>1. s.w.taken \/ ~s.p.open
    BY <1>1, <1>6 DEF Holds, Online!Freed
  <2> QED
    BY <1>4, <1>6, <2>1, WildUse
<1>7. CASE ~t.p.wild /\ ~Online!Freed(s, s.p.active)
  <2> USE <1>7 DEF SameRows, SameDialog
  <2>1. /\ t.p.removed = Online!None /\ t.p.active = s.p.active /\ t.p.active # Online!None /\ t.p.open
        /\ t.p.objects = s.p.objects /\ OnlineState(t)
    BY <1>1, <1>2, <1>3 DEF OnlineSound
  <2>2. t.p.active \in t.p.objects \/ t.w.taken
    BY <1>2, <2>1 DEF OnlineSound, Holds
  <2>3. /\ OnlineState(u) /\ u.c = t.c /\ u.w = [t.w EXCEPT !.asked = @ \cup {t.p.active}]
        /\ u.p = [t.p EXCEPT !.removed = s.p.active, !.active = Online!None, !.reveal = TRUE]
    BY <2>1 DEF OnlineState, OnlineFields, OnlineWorldFields
  <2>4. /\ u.p.open /\ (u.p.ready <=> t.p.ready) /\ u.p.rows = t.p.rows /\ (u.p.frame <=> t.p.frame)
        /\ u.p.objects = t.p.objects /\ u.p.active = Online!None /\ u.p.removed = t.p.active /\ u.p.reveal
           /\ ~u.p.wild
    BY <2>1, <2>3 DEF OnlineState, OnlineFields
  <2> HIDE DEF u
  <2>5. t.p.rows \in [DOMAIN t.p.rows -> BOOLEAN]
    BY <1>2 DEF OnlineSound, OnlineTypes
  <2>6. /\ OnlineState(v) /\ v.c = u.c /\ v.w = u.w
        /\ v.p.open /\ (v.p.ready <=> u.p.ready) /\ v.p.objects = u.p.objects /\ v.p.active = Online!None
        /\ v.p.removed = t.p.active /\ v.p.reveal /\ ~v.p.wild
    BY <2>1, <2>3, <2>4 DEF Online!HideRow, OnlineState, OnlineFields
  <2>7. /\ v.p.rows = [b \in DOMAIN t.p.rows |-> b # t.p.active /\ t.p.rows[b]]
        /\ v.p.frame <=> (IF t.p.active \in DOMAIN t.p.rows THEN DOMAIN t.p.rows # {t.p.active} ELSE t.p.frame)
    <3>1. CASE t.p.active \in DOMAIN t.p.rows
      <4>1. v.p = [u.p EXCEPT !.rows[t.p.active] = FALSE, !.frame = (DOMAIN t.p.rows # {t.p.active})]
        BY <2>1, <2>3, <2>4, <3>1 DEF Online!HideRow, Online!Rows, OnlineState, OnlineFields
      <4>2. v.p.rows = [t.p.rows EXCEPT ![t.p.active] = FALSE]
        BY <2>3, <2>4, <4>1 DEF OnlineState, OnlineFields
      <4>3. v.p.rows = [b \in DOMAIN t.p.rows |-> b # t.p.active /\ t.p.rows[b]]
        BY <2>5, <3>1, <4>2
      <4>4. v.p.frame <=> DOMAIN t.p.rows # {t.p.active}
        BY <2>3, <4>1 DEF OnlineState, OnlineFields
      <4> QED
        BY <3>1, <4>3, <4>4
    <3>2. CASE t.p.active \notin DOMAIN t.p.rows
      <4>1. v = u
        BY <2>1, <2>4, <3>2 DEF Online!HideRow, Online!Rows
      <4>2. t.p.rows = [b \in DOMAIN t.p.rows |-> b # t.p.active /\ t.p.rows[b]]
        BY <2>5, <3>2
      <4> QED
        BY <2>4, <3>2, <4>1, <4>2
    <3> QED
      BY <3>1, <3>2
  <2> HIDE DEF v
  <2>8. /\ OnlineState(r) /\ r.c = v.c /\ r.w = v.w /\ r.p.open /\ (r.p.ready <=> v.p.ready)
        /\ r.p.objects = v.p.objects /\ r.p.active = Online!None /\ r.p.page = Online!None
        /\ r.p.removed = t.p.active /\ r.p.reveal /\ r.p.timer /\ ~r.p.wild
        /\ r.p.rows = v.p.rows /\ (r.p.frame <=> v.p.frame)
    BY <2>6 DEF Online!HideDialog, OnlineState, OnlineFields
  <2> HIDE DEF r
  <2>9. SameWorld([t.w EXCEPT !.asked = @ \cup {t.p.active}], r.w)
    BY <2>3, <2>6, <2>8 DEF SameWorld
  <2>10. OnlineSound(r)
    BY <1>2, <2>1, <2>2, <2>3, <2>4, <2>6, <2>7, <2>8, <2>9, Hidden
  <2> QED
    BY <1>4, <2>10
<1> QED
  BY <1>5, <1>6, <1>7

\* The removal is taken back: the row is there again, and GOA was not told.
LEMMA Undone ==
  ASSUME NEW s, OnlineSound(s), ~s.p.wild, s.p.open, s.p.page = Online!None, s.p.removed # Online!None
  PROVE  OnlineSound(Online!UndoRemoval(s))
<1> DEFINE a == s.p.removed
           v == Online!ShowRow(s, a)
           r == Online!UndoRemoval(s)
<1>1. Hides(s.p, s.w) /\ Holds(s.p, s.w) /\ Edits(s.p, s.w) /\ Asked(s.p, s.c, s.w) /\ OnlineState(s)
  BY DEF OnlineSound
<1>2. s.p.rows \in [DOMAIN s.p.rows -> BOOLEAN]
  BY DEF OnlineSound, OnlineTypes
<1>3. /\ OnlineState(v) /\ v.c = s.c /\ v.w = s.w /\ v.p.open /\ (v.p.ready <=> s.p.ready)
      /\ v.p.objects = s.p.objects /\ ~v.p.wild /\ SameDialog(s.p, v.p)
  BY <1>1 DEF Online!ShowRow, OnlineState, OnlineFields, SameDialog
<1>4. /\ v.p.rows = [b \in DOMAIN s.p.rows |-> b = a \/ s.p.rows[b]]
      /\ v.p.frame <=> (a \in DOMAIN s.p.rows \/ s.p.frame)
  <2>1. CASE a \in DOMAIN s.p.rows
    <3>1. v.p = [s.p EXCEPT !.rows[a] = TRUE, !.frame = TRUE]
      BY <1>1, <2>1 DEF Online!ShowRow, Online!Rows, OnlineState, OnlineFields
    <3>2. v.p.rows = [s.p.rows EXCEPT ![a] = TRUE] /\ v.p.frame
      BY <1>1, <3>1 DEF OnlineState, OnlineFields
    <3>3. v.p.rows = [b \in DOMAIN s.p.rows |-> b = a \/ s.p.rows[b]]
      BY <1>2, <2>1, <3>2
    <3> QED
      BY <2>1, <3>2, <3>3
  <2>2. CASE a \notin DOMAIN s.p.rows
    <3>1. v = s
      BY <2>2 DEF Online!ShowRow, Online!Rows
    <3>2. s.p.rows = [b \in DOMAIN s.p.rows |-> b = a \/ s.p.rows[b]]
      BY <1>2, <2>2
    <3> QED
      BY <2>2, <3>1, <3>2
  <2> QED
    BY <2>1, <2>2
<1> HIDE DEF v
<1>5. r = [v EXCEPT !.p.reveal = FALSE, !.p.timer = FALSE, !.p.removed = Online!None, !.w.asked = @ \ {a}]
  BY DEF Online!UndoRemoval, v
<1> HIDE DEF r
<1>6. /\ OnlineState(r) /\ r.c = s.c /\ r.p.open /\ (r.p.ready <=> s.p.ready) /\ r.p.objects = s.p.objects
      /\ ~r.p.wild /\ SameDialog(s.p, r.p) /\ r.p.rows = v.p.rows /\ (r.p.frame <=> v.p.frame)
      /\ ~r.p.reveal /\ ~r.p.timer /\ r.p.removed = Online!None
      /\ r.w.there = s.w.there /\ r.w.unborn = s.w.unborn /\ r.w.said = s.w.said
      /\ r.w.asked = s.w.asked \ {a} /\ r.w.sent = s.w.sent /\ (r.w.taken <=> s.w.taken)
  BY <1>3, <1>5 DEF OnlineState, OnlineFields, OnlineWorldFields, SameDialog
<1> USE <1>6 DEF SameDialog
<1>7. OnlineTypes(r.p, r.w)
  BY <1>4 DEF OnlineTypes, OnlineSound
<1>8. Asked(r.p, r.c, r.w)
  BY <1>1 DEF Asked, ToldOf
<1>9. Edits(r.p, r.w)
  BY <1>1, <1>4 DEF Edits, ToldOf
<1>10. Hides(r.p, r.w)
  <2>1. \A b \in DOMAIN r.p.rows : (r.p.rows[b] <=> b = a \/ s.p.rows[b])
    BY <1>4
  <2>2. \A b \in DOMAIN s.p.rows : (s.p.rows[b] <=> b \notin s.w.asked) /\ (s.p.rows[b] => s.p.frame)
    BY <1>1 DEF Hides
  <2>3. DOMAIN r.p.rows = DOMAIN s.p.rows
    BY <1>4
  <2> QED
    BY <1>4, <2>1, <2>2, <2>3 DEF Hides
<1>11. Holds(r.p, r.w)
  BY <1>1, <1>4 DEF Holds
<1>12. Mirrors(s.p, s.w) => Mirrors(r.p, r.w)
  BY <1>4 DEF Mirrors, InOrder, ToldOf
<1>13. OnlineSound(r)
  BY <1>1, <1>4, <1>7, <1>8, <1>9, <1>10, <1>11, <1>12 DEF OnlineSound
<1> QED
  BY <1>13 DEF r

\* Steps that change nothing of the panel but what it shows of providers and errors, and take
\* calls away or report a failure.
LEMMA Otherwise ==
  ASSUME NEW s, OnlineSound(s), NEW t, OnlineState(t), SameWorld(s.w, t.w), SameRows(s.p, t.p),
         SameRemoval(s.p, t.p), SameDialog(s.p, t.p), t.p.wild <=> s.p.wild,
         \A call \in t.c : call[1] # "providers" => call[2] \in s.w.sent
  PROVE  OnlineSound(t)
<1> USE DEF OnlineSound, SameWorld, SameRows, SameRemoval, SameDialog
<1>1. OnlineTypes(t.p, t.w)
  BY DEF OnlineTypes
<1>2. Asked(t.p, t.c, t.w)
  BY DEF Asked, ToldOf
<1>3. Edits(s.p, s.w) => Edits(t.p, t.w)
  BY DEF Edits, ToldOf
<1>4. Hides(s.p, s.w) => Hides(t.p, t.w)
  BY DEF Hides
<1>5. Holds(s.p, s.w) => Holds(t.p, t.w)
  BY DEF Holds
<1>6. Mirrors(s.p, s.w) => Mirrors(t.p, t.w)
  BY DEF Mirrors, InOrder, ToldOf
<1> QED
  BY <1>1, <1>2, <1>3, <1>4, <1>5, <1>6

\* The window shows another panel.
LEMMA Disposed ==
  ASSUME NEW s, OnlineSound(s), NEW t, OnlineState(t), t.c = s.c, t.w = s.w, ~t.p.open,
         t.p.ready <=> s.p.ready, DOMAIN t.p.rows = {}, t.p.active = s.p.active,
         t.p.removed = s.p.removed, t.p.timer <=> s.p.timer, t.p.rows = <<>>
  PROVE  OnlineSound(t)
<1> USE DEF OnlineSound
<1>1. OnlineTypes(t.p, t.w)
  BY DEF OnlineTypes
<1>2. Asked(t.p, t.c, t.w)
  BY DEF Asked, ToldOf
<1> QED
  BY <1>1, <1>2

\* What the user does with the list and the notification, timers and answers.
LEMMA PanelActs ==
  ASSUME OnlineSound(Online!State),
         \/ Online!RemoveButtonClicked \/ Online!UndoButtonClicked \/ Online!NotificationClosed
            \/ Online!ErrorClosed \/ Online!Dispose
         \/ Online!RemoveTimeout \/ (\E ok \in BOOLEAN : Online!GetAllProvidersCb(ok))
         \/ \E a \in Config.accounts.Accounts : Online!RemoveAccountCb(a)
  PROVE  OnlineSound(Online!State)'
<1> DEFINE s == Online!State
<1>1. s.p = panel /\ s.c = calls /\ s.w = world /\ OnlineState(s) /\ OnlineSound(s)
  BY DEF OnlineSound, Online!State
<1>2. /\ panel.open => (panel.reveal <=> panel.removed # Online!None)
      /\ panel.timer <=> panel.removed # Online!None
  BY <1>1 DEF OnlineSound, Asked
<1>3. \A call \in calls : call[1] # "providers" => call[2] \in s.w.sent
  BY <1>1 DEF OnlineSound, Asked
<1>4. ASSUME NEW t, OnlineSound(t), Online!ByUser(t) PROVE OnlineSound(Online!State)'
  BY <1>4, OnlineCounted, OnlineBecomes DEF Online!ByUser
<1>5. ASSUME NEW t, OnlineSound(t), Online!IfAlive(t) PROVE OnlineSound(Online!State)'
  <2>1. CASE Online!Alive
    BY <1>5, <2>1, OnlineBecomes DEF Online!IfAlive
  <2>2. CASE ~Online!Alive
    <3>1. ~panel.open
      BY <2>2 DEF Online!Alive
    <3>2. OnlineSound([Online!State EXCEPT !.p.wild = TRUE])
      BY <1>1, <3>1, WildUse
    <3> QED
      BY <1>5, <2>2, <3>2, OnlineBecomes DEF Online!IfAlive
  <2> QED
    BY <2>1, <2>2
<1> HIDE DEF s
<1>6. ASSUME NEW t, OnlineState(t), t.w = s.w, SameRows(s.p, t.p), SameRemoval(s.p, t.p),
             SameDialog(s.p, t.p), t.p.wild <=> s.p.wild, t.c \subseteq s.c
      PROVE  OnlineSound(t)
  <2>1. SameWorld(s.w, t.w)
    BY <1>6 DEF SameWorld
  <2> QED
    BY <1>1, <1>3, <1>6, <2>1, Otherwise
<1>7. CASE Online!RemoveButtonClicked
  <2>1. panel.page = "editor" /\ panel.open /\ ~panel.wild
    BY <1>7 DEF Online!RemoveButtonClicked, Online!ByUser, Online!Becomes
  <2>2. OnlineSound(Online!RemoveActive(s))
    BY <1>1, <2>1, Removes
  <2> QED
    BY <1>4, <1>7, <2>2 DEF Online!RemoveButtonClicked, s
<1>8. CASE Online!UndoButtonClicked
  <2>1. panel.page = Online!None /\ panel.open /\ ~panel.wild /\ panel.reveal
    BY <1>8 DEF Online!UndoButtonClicked, Online!Free, Online!ByUser, Online!Becomes
  <2>2. OnlineSound(Online!UndoRemoval(s))
    BY <1>1, <1>2, <2>1, Undone
  <2> QED
    BY <1>4, <1>8, <2>2 DEF Online!UndoButtonClicked, s
<1>9. CASE Online!NotificationClosed
  <2>1. panel.open /\ ~panel.wild /\ panel.reveal
    BY <1>9 DEF Online!NotificationClosed, Online!ByUser, Online!Becomes
  <2>2. OnlineSound(Online!CloseNotification(s))
    BY <1>1, <1>2, <2>1, Closed
  <2> QED
    BY <1>4, <1>9, <2>2 DEF Online!NotificationClosed, s
<1>10. CASE Online!RemoveTimeout
  <2>1. panel.timer /\ ~panel.wild
    BY <1>10 DEF Online!RemoveTimeout, Online!IfAlive, Online!Becomes
  <2>2. OnlineSound(Online!CloseNotification(s))
    BY <1>1, <1>2, <2>1, Closed
  <2> QED
    BY <1>5, <1>10, <2>2 DEF Online!RemoveTimeout, s
<1>11. CASE Online!ErrorClosed
  <2> DEFINE t == [s EXCEPT !.p.errors = @ - 1]
  <2>1. /\ OnlineState(t) /\ t.c = s.c /\ t.w = s.w /\ SameRows(s.p, t.p) /\ SameRemoval(s.p, t.p)
        /\ SameDialog(s.p, t.p) /\ (t.p.wild <=> s.p.wild)
    BY <1>1 DEF OnlineState, OnlineFields, SameRows, SameRemoval, SameDialog
  <2> HIDE DEF t
  <2>2. OnlineSound(t)
    BY <2>1, <1>6
  <2> QED
    BY <1>11, <2>2, OnlineBecomes DEF Online!ErrorClosed, t, s
<1>12. ASSUME NEW ok \in BOOLEAN, Online!GetAllProvidersCb(ok) PROVE OnlineSound(Online!State)'
  <2> DEFINE u == [s EXCEPT !.c = @ \ {<<"providers">>}]
             t == [u EXCEPT !.p.providers = ok]
  <2>1. OnlineState(u) /\ u.c \subseteq s.c /\ u.p = s.p /\ u.w = s.w
    BY <1>1 DEF OnlineState
  <2> HIDE DEF u
  <2>2. /\ OnlineState(t) /\ t.c = u.c /\ t.w = u.w /\ SameRows(s.p, t.p) /\ SameRemoval(s.p, t.p)
        /\ SameDialog(s.p, t.p) /\ (t.p.wild <=> s.p.wild)
    BY <2>1 DEF OnlineState, OnlineFields, SameRows, SameRemoval, SameDialog
  <2> HIDE DEF t
  <2>3. OnlineSound(t)
    BY <2>1, <2>2, <1>6
  <2> QED
    BY <1>5, <1>12, <2>3 DEF Online!GetAllProvidersCb, t, u, s
<1>13. ASSUME NEW a \in Config.accounts.Accounts, Online!RemoveAccountCb(a) PROVE OnlineSound(Online!State)'
  <2> DEFINE t == [s EXCEPT !.c = @ \ {<<"removed", a>>}]
             u == [s EXCEPT !.c = @ \ {<<"failed", a>>}, !.p.errors = @ + 1]
  <2>1. /\ OnlineState(t) /\ t.c \subseteq s.c /\ t.w = s.w /\ t.p = s.p
    BY <1>1 DEF OnlineState
  <2>2. /\ OnlineState(u) /\ u.c \subseteq s.c /\ u.w = s.w /\ SameRows(s.p, u.p) /\ SameRemoval(s.p, u.p)
        /\ SameDialog(s.p, u.p) /\ (u.p.wild <=> s.p.wild)
    BY <1>1 DEF OnlineState, OnlineFields, SameRows, SameRemoval, SameDialog
  <2>3. SameRows(s.p, s.p) /\ SameRemoval(s.p, s.p) /\ SameDialog(s.p, s.p)
    BY DEF SameRows, SameRemoval, SameDialog
  <2> HIDE DEF t, u
  <2>4. OnlineSound(t) /\ OnlineSound(u)
    BY <2>1, <2>2, <2>3, <1>6
  <2> QED
    BY <1>13, <2>4, OnlineBecomes DEF Online!RemoveAccountCb, t, u, s
<1>14. CASE Online!Dispose
  <2> DEFINE t == [s EXCEPT !.p = [@ EXCEPT !.open = FALSE, !.rows = <<>>, !.frame = FALSE, !.reveal = FALSE,
                                            !.page = Online!None, !.wild = (panel.page = "new-account")]]
  <2>1. /\ OnlineState(t) /\ t.c = s.c /\ t.w = s.w /\ ~t.p.open /\ (t.p.ready <=> s.p.ready)
        /\ t.p.rows = <<>> /\ t.p.active = s.p.active /\ t.p.removed = s.p.removed /\ (t.p.timer <=> s.p.timer)
    BY <1>1 DEF OnlineState, OnlineFields
  <2> HIDE DEF t
  <2>2. DOMAIN t.p.rows = {}
    BY <2>1
  <2>3. OnlineSound(t)
    BY <1>1, <2>1, <2>2, Disposed
  <2> QED
    BY <1>4, <1>14, <2>3 DEF Online!Dispose, t, s
<1> QED
  BY <1>7, <1>8, <1>9, <1>10, <1>11, <1>12, <1>13, <1>14

\* What is left of a queue when its first is taken.
LEMMA TailFacts ==
  ASSUME NEW S, NEW q \in Seq(S), q # <<>>
  PROVE  /\ Tail(q) \in Seq(S) /\ 1 \in DOMAIN q /\ q[1] = Head(q) /\ q[1] \in S
         /\ \A i \in DOMAIN Tail(q) : i + 1 \in DOMAIN q /\ i + 1 # 1 /\ Tail(q)[i] = q[i + 1]
         /\ \A i \in DOMAIN q : i = 1 \/ (i - 1 \in DOMAIN Tail(q) /\ Tail(q)[i - 1] = q[i])
         /\ \A tag, a : Unheard(tag, a, Tail(q)) => Unheard(tag, a, q)
         /\ \A tag, a : Unheard(tag, a, q) => Unheard(tag, a, Tail(q)) \/ (Head(q)[1] = tag /\ Head(q)[2] = a)
<1>1. /\ Tail(q) \in Seq(S) /\ 1 \in DOMAIN q /\ q[1] = Head(q) /\ q[1] \in S
  OBVIOUS
<1>2. \A i \in DOMAIN Tail(q) : i + 1 \in DOMAIN q /\ i + 1 # 1 /\ Tail(q)[i] = q[i + 1]
  OBVIOUS
<1>3. \A i \in DOMAIN q : i = 1 \/ (i - 1 \in DOMAIN Tail(q) /\ Tail(q)[i - 1] = q[i])
  OBVIOUS
<1>4. \A tag, a : Unheard(tag, a, Tail(q)) => Unheard(tag, a, q)
  BY <1>2 DEF Unheard
<1>5. \A tag, a : Unheard(tag, a, q) => Unheard(tag, a, Tail(q)) \/ (Head(q)[1] = tag /\ Head(q)[2] = a)
  BY <1>1, <1>3 DEF Unheard
<1> QED
  BY <1>1, <1>2, <1>3, <1>4, <1>5

\* The signals are of three kinds.
LEMMA SignalKinds ==
  ASSUME NEW x \in Signals
  PROVE  x[1] \in {"added", "removed", "changed"} /\ x[2] \in Config.accounts.Accounts
BY DEF Signals

\* A signal is taken from the queue: what is left is in order.
LEMMA InOrderKept ==
  ASSUME NEW w, w.said \in Seq(Signals), w.said # <<>>, InOrder(w),
         NEW v, v.said = Tail(w.said), v.there = w.there, v.unborn = w.unborn
  PROVE  InOrder(v)
<1> DEFINE q == w.said
<1>1. /\ DOMAIN q = 1 .. Len(q) /\ DOMAIN Tail(q) = 1 .. Len(q) - 1 /\ Len(q) \in Nat
      /\ \A i \in DOMAIN Tail(q) : i + 1 \in DOMAIN q /\ Tail(q)[i] = q[i + 1]
      /\ 1 \in DOMAIN q /\ q[1] = Head(q)
  OBVIOUS
<1>2. \A tag, b : Unheard(tag, b, q) => Unheard(tag, b, Tail(q)) \/ (Head(q)[1] = tag /\ Head(q)[2] = b)
  BY TailFacts
<1>3. ASSUME NEW i \in DOMAIN Tail(q), Tail(q)[i][1] = "added"
      PROVE  /\ Tail(q)[i][2] \notin v.unborn
             /\ Tail(q)[i][2] \in v.there \/ Unheard("removed", Tail(q)[i][2], Tail(q))
             /\ \A j \in DOMAIN Tail(q) : Tail(q)[j][1] = "added" /\ Tail(q)[j][2] = Tail(q)[i][2] => j = i
  <2> DEFINE b == q[i + 1][2]
  <2>1. i \in 1 .. Len(q) - 1 /\ i + 1 \in DOMAIN q /\ Tail(q)[i] = q[i + 1]
    BY <1>1
  <2>2. /\ b \notin w.unborn /\ (b \in w.there \/ Unheard("removed", b, q))
        /\ \A j \in DOMAIN q : q[j][1] = "added" /\ q[j][2] = b => j = i + 1
    BY <1>3, <2>1 DEF InOrder
  <2>3. ~(Head(q)[1] = "removed" /\ Head(q)[2] = b)
    <3> SUFFICES ASSUME Head(q)[1] = "removed", Head(q)[2] = b PROVE FALSE
      OBVIOUS
    <3>1. \A j \in DOMAIN q : q[j][1] = "added" /\ q[j][2] = b => j < 1
      BY <1>1 DEF InOrder
    <3>2. i + 1 < 1
      BY <1>3, <2>1, <3>1
    <3> QED
      BY <1>1, <2>1, <3>2
  <2>4. ASSUME NEW j \in DOMAIN Tail(q), Tail(q)[j][1] = "added", Tail(q)[j][2] = b PROVE j = i
    <3>1. j \in 1 .. Len(q) - 1 /\ j + 1 \in DOMAIN q /\ Tail(q)[j] = q[j + 1]
      BY <1>1
    <3>2. j + 1 = i + 1
      BY <2>2, <2>4, <3>1
    <3> QED
      BY <1>1, <2>1, <3>1, <3>2
  <2>5. b \in v.there \/ Unheard("removed", b, Tail(q))
    BY <1>2, <2>2, <2>3
  <2>6. Tail(q)[i][2] = b
    BY <2>1
  <2> HIDE DEF b
  <2> QED
    BY <2>2, <2>4, <2>5, <2>6
<1>4. ASSUME NEW i \in DOMAIN Tail(q), Tail(q)[i][1] = "removed"
      PROVE  /\ Tail(q)[i][2] \notin v.there /\ Tail(q)[i][2] \notin v.unborn
             /\ \A j \in DOMAIN Tail(q) : Tail(q)[j][1] = "added" /\ Tail(q)[j][2] = Tail(q)[i][2] => j < i
  <2> DEFINE b == q[i + 1][2]
  <2>1. i \in 1 .. Len(q) - 1 /\ i + 1 \in DOMAIN q /\ Tail(q)[i] = q[i + 1]
    BY <1>1
  <2>2. /\ b \notin w.there /\ b \notin w.unborn
        /\ \A j \in DOMAIN q : q[j][1] = "added" /\ q[j][2] = b => j < i + 1
    BY <1>4, <2>1 DEF InOrder
  <2>3. ASSUME NEW j \in DOMAIN Tail(q), Tail(q)[j][1] = "added", Tail(q)[j][2] = b PROVE j < i
    <3>1. j \in 1 .. Len(q) - 1 /\ j + 1 \in DOMAIN q /\ Tail(q)[j] = q[j + 1]
      BY <1>1
    <3>2. j + 1 < i + 1
      BY <2>2, <2>3, <3>1
    <3> QED
      BY <1>1, <2>1, <3>1, <3>2
  <2>4. Tail(q)[i][2] = b
    BY <2>1
  <2> HIDE DEF b
  <2> QED
    BY <2>2, <2>3, <2>4
<1> QED
  BY <1>3, <1>4 DEF InOrder

\* A signal that is not about the list: the dialog is shown again.
LEMMA SignalTaken ==
  ASSUME NEW s, OnlineSound(s), ~s.p.wild, s.p.open, s.p.ready, s.w.said # <<>>, Head(s.w.said)[1] = "changed"
  PROVE  OnlineSound([s EXCEPT !.w.said = Tail(@)])
<1> DEFINE t == [s EXCEPT !.w.said = Tail(@)]
           q == s.w.said
<1>1. q \in Seq(Signals) /\ OnlineState(s)
  BY DEF OnlineSound, OnlineTypes
<1>2. /\ OnlineState(t) /\ t.c = s.c /\ t.p = s.p /\ t.w.said = Tail(q)
      /\ t.w.there = s.w.there /\ t.w.unborn = s.w.unborn
      /\ t.w.asked = s.w.asked /\ t.w.sent = s.w.sent /\ (t.w.taken <=> s.w.taken)
  BY <1>1 DEF OnlineState, OnlineWorldFields
<1> HIDE DEF t
<1> USE <1>1, <1>2, TailFacts DEF OnlineSound
<1>3. \A a : ToldOf(a, t.w) <=> ToldOf(a, s.w)
  BY DEF ToldOf
<1>4. OnlineTypes(t.p, t.w)
  BY DEF OnlineTypes
<1>5. Asked(t.p, t.c, t.w)
  BY <1>3 DEF Asked
<1>6. Edits(t.p, t.w)
  BY <1>3 DEF Edits
<1>7. Hides(t.p, t.w)
  BY DEF Hides
<1>8. Holds(t.p, t.w)
  BY DEF Holds
<1>9. Mirrors(t.p, t.w)
  <2>1. /\ t.w.there \cap t.w.unborn = {}
        /\ \A a \in Config.accounts.Accounts :
             /\ a \in DOMAIN t.p.rows => ToldOf(a, t.w) /\ (a \in t.w.there \/ Unheard("removed", a, t.w.said))
             /\ a \in t.w.there => a \in DOMAIN t.p.rows \/ Unheard("added", a, t.w.said)
    BY <1>3 DEF Mirrors
  <2>2. InOrder(t.w)
    BY InOrderKept DEF Mirrors
  <2> QED
    BY <2>1, <2>2 DEF Mirrors
<1> QED
  BY <1>4, <1>5, <1>6, <1>7, <1>8, <1>9 DEF t

\* The client tells of an account: it has a row, which is to be seen.
LEMMA AddedTaken ==
  ASSUME NEW s, OnlineSound(s), ~s.p.wild, s.p.open, s.p.ready, s.w.said # <<>>, Head(s.w.said)[1] = "added",
         NEW a, a = Head(s.w.said)[2]
  PROVE  OnlineSound(Online!AccountAdded([s EXCEPT !.w.said = Tail(@)], a))
<1> DEFINE u == [s EXCEPT !.w.said = Tail(@)]
           t == Online!AccountAdded(u, a)
           q == s.w.said
<1>1. /\ q \in Seq(Signals) /\ OnlineState(s) /\ Mirrors(s.p, s.w) /\ Edits(s.p, s.w) /\ Hides(s.p, s.w)
      /\ Holds(s.p, s.w) /\ Asked(s.p, s.c, s.w) /\ OnlineTypes(s.p, s.w)
  BY DEF OnlineSound, OnlineTypes
<1>2. /\ OnlineState(u) /\ u.c = s.c /\ u.p = s.p /\ u.w.said = Tail(q)
      /\ u.w.there = s.w.there /\ u.w.unborn = s.w.unborn
      /\ u.w.asked = s.w.asked /\ u.w.sent = s.w.sent /\ (u.w.taken <=> s.w.taken)
  BY <1>1 DEF OnlineState, OnlineWorldFields
<1> HIDE DEF u
<1>3. /\ OnlineState(t) /\ t.c = s.c /\ t.w = u.w
      /\ t.p.rows = [b \in DOMAIN s.p.rows \cup {a} |-> b = a \/ s.p.rows[b]]
      /\ t.p.frame /\ t.p.objects = s.p.objects \cup {a} /\ SameRemoval(s.p, t.p) /\ SameDialog(s.p, t.p)
      /\ t.p.open /\ t.p.ready /\ ~t.p.wild
  BY <1>1, <1>2 DEF OnlineState, OnlineFields, Online!AccountAdded, Online!Rows, SameRemoval, SameDialog
<1> HIDE DEF t
<1>19. /\ t.w.said = Tail(q) /\ t.w.there = s.w.there /\ t.w.unborn = s.w.unborn
      /\ t.w.asked = s.w.asked /\ t.w.sent = s.w.sent /\ (t.w.taken <=> s.w.taken)
  BY <1>2, <1>3
<1>20. /\ t.p.frame /\ t.p.objects = s.p.objects \cup {a} /\ SameRemoval(s.p, t.p) /\ SameDialog(s.p, t.p)
      /\ t.p.open /\ t.p.ready /\ ~t.p.wild /\ t.c = s.c /\ OnlineState(t)
  BY <1>3
<1> USE <1>19, <1>20
<1>4. /\ Tail(q) \in Seq(Signals) /\ 1 \in DOMAIN q /\ q[1] = Head(q) /\ q[1] \in Signals
      /\ \A i \in DOMAIN Tail(q) : i + 1 \in DOMAIN q /\ i + 1 # 1 /\ Tail(q)[i] = q[i + 1]
      /\ \A tag, b : Unheard(tag, b, Tail(q)) => Unheard(tag, b, q)
      /\ \A tag, b : Unheard(tag, b, q) => Unheard(tag, b, Tail(q)) \/ (Head(q)[1] = tag /\ Head(q)[2] = b)
  BY <1>1, TailFacts
<1>5. a \in Config.accounts.Accounts /\ q[1][1] = "added" /\ q[1][2] = a /\ Unheard("added", a, q)
  BY <1>4, SignalKinds DEF Unheard
<1>6. /\ a \notin s.w.unborn /\ (a \in s.w.there \/ Unheard("removed", a, q))
      /\ \A j \in DOMAIN q : q[j][1] = "added" /\ q[j][2] = a => j = 1
  BY <1>1, <1>4, <1>5 DEF Mirrors, InOrder
<1>7. ~Unheard("added", a, Tail(q))
  <2> SUFFICES ASSUME NEW i \in DOMAIN Tail(q), Tail(q)[i][1] = "added", Tail(q)[i][2] = a PROVE FALSE
    BY DEF Unheard
  <2> QED
    BY <1>4, <1>6
<1>8. \A b : ToldOf(b, s.w) => ToldOf(b, t.w)
  BY <1>4 DEF ToldOf
<1>9. ToldOf(a, t.w) /\ ~ToldOf(a, s.w) /\ a \notin s.w.asked
  BY <1>1, <1>5, <1>6, <1>7 DEF ToldOf, Asked
<1>10. a \notin DOMAIN s.p.rows
  BY <1>1, <1>5, <1>9 DEF Mirrors
<1>11. DOMAIN t.p.rows = DOMAIN s.p.rows \cup {a}
  BY <1>3
<1> USE DEF SameRemoval, SameDialog
<1>12. OnlineTypes(t.p, t.w)
  <2>1. DOMAIN t.p.rows \subseteq Config.accounts.Accounts /\ t.w.there \subseteq Config.accounts.Accounts
        /\ t.w.unborn \subseteq Config.accounts.Accounts
        /\ t.w.said \in Seq(Signals)
    BY <1>1, <1>4, <1>5, <1>11 DEF OnlineTypes
  <2>2. t.p.rows \in [DOMAIN t.p.rows -> BOOLEAN]
    BY <1>1, <1>3, <1>11 DEF OnlineTypes
  <2> QED
    BY <2>1, <2>2 DEF OnlineTypes
<1>13. Asked(t.p, t.c, t.w)
  BY <1>1, <1>8 DEF Asked
<1>14. Edits(t.p, t.w)
  BY <1>1, <1>8, <1>9, <1>11 DEF Edits
<1>15. Hides(t.p, t.w)
  BY <1>1, <1>3, <1>9, <1>10, <1>11 DEF Hides
<1>16. Holds(t.p, t.w)
  <2>1. \A i \in DOMAIN q : q[i][1] = "removed" /\ ~s.w.taken => q[i][2] \in s.w.sent
    BY <1>1 DEF Holds
  <2>2. \A i \in DOMAIN t.w.said : t.w.said[i][1] = "removed" /\ ~t.w.taken => t.w.said[i][2] \in t.w.sent
    BY <1>4, <2>1
  <2> QED
    BY <1>1, <1>11, <2>2 DEF Holds
<1>17. Mirrors(t.p, t.w)
  <2>1. /\ t.w.there \cap t.w.unborn = {}
        /\ \A b \in Config.accounts.Accounts :
             /\ b \in DOMAIN t.p.rows => ToldOf(b, t.w) /\ (b \in t.w.there \/ Unheard("removed", b, t.w.said))
             /\ b \in t.w.there => b \in DOMAIN t.p.rows \/ Unheard("added", b, t.w.said)
    <3>1. \A b : Unheard("removed", b, q) => Unheard("removed", b, Tail(q))
      BY <1>4, <1>5
    <3>2. \A b : Unheard("added", b, q) => Unheard("added", b, Tail(q)) \/ b = a
      BY <1>4, <1>5
    <3> QED
      BY <1>1, <1>6, <1>8, <1>9, <1>11, <3>1, <3>2 DEF Mirrors
  <2>2. InOrder(t.w)
    BY <1>1, InOrderKept DEF Mirrors
  <2> QED
    BY <2>1, <2>2 DEF Mirrors
<1>18. OnlineSound(t)
  BY <1>12, <1>13, <1>14, <1>15, <1>16, <1>17 DEF OnlineSound
<1> QED
  BY <1>18 DEF t, u

\* The client tells that an account is gone: its row is gone, and what it pointed to.
LEMMA RemovedTaken ==
  ASSUME NEW s, OnlineSound(s), ~s.p.wild, s.p.open, s.p.ready, s.w.said # <<>>, Head(s.w.said)[1] = "removed",
         NEW a, a = Head(s.w.said)[2]
  PROVE  OnlineSound(Online!AccountRemoved([s EXCEPT !.w.said = Tail(@)], a))
<1> DEFINE u == [s EXCEPT !.w.said = Tail(@)]
           v == Online!RemoveRow(u, a)
           t == [v EXCEPT !.p.objects = @ \ {a}]
           q == s.w.said
<1>1. /\ q \in Seq(Signals) /\ OnlineState(s) /\ Mirrors(s.p, s.w) /\ Edits(s.p, s.w) /\ Hides(s.p, s.w)
      /\ Holds(s.p, s.w) /\ Asked(s.p, s.c, s.w) /\ OnlineTypes(s.p, s.w)
      /\ s.p.rows \in [DOMAIN s.p.rows -> BOOLEAN]
  BY DEF OnlineSound, OnlineTypes
<1>2. /\ OnlineState(u) /\ u.c = s.c /\ u.p = s.p /\ u.w.said = Tail(q)
      /\ u.w.there = s.w.there /\ u.w.unborn = s.w.unborn
      /\ u.w.asked = s.w.asked /\ u.w.sent = s.w.sent /\ (u.w.taken <=> s.w.taken)
  BY <1>1 DEF OnlineState, OnlineWorldFields
<1> HIDE DEF u
<1>3. /\ OnlineState(v) /\ v.c = s.c /\ v.w = u.w
      /\ DOMAIN v.p.rows = DOMAIN s.p.rows \ {a}
      /\ v.p.rows \in [DOMAIN v.p.rows -> BOOLEAN]
      /\ \A b \in DOMAIN v.p.rows : v.p.rows[b] <=> s.p.rows[b]
      /\ (DOMAIN v.p.rows # {} /\ s.p.frame => v.p.frame)
      /\ v.p.objects = s.p.objects /\ SameRemoval(s.p, v.p) /\ SameDialog(s.p, v.p)
      /\ v.p.open /\ v.p.ready /\ ~v.p.wild
  <2>1. CASE a \in DOMAIN s.p.rows
    <3>1. v = [u EXCEPT !.p.rows = [b \in DOMAIN s.p.rows \ {a} |-> s.p.rows[b]],
                        !.p.frame = (DOMAIN s.p.rows # {a})]
      BY <1>2, <2>1 DEF Online!RemoveRow, Online!Rows
    <3> HIDE DEF v
    <3>2. /\ OnlineState(v) /\ v.c = s.c /\ v.w = u.w /\ v.p.rows = [b \in DOMAIN s.p.rows \ {a} |-> s.p.rows[b]]
          /\ (v.p.frame <=> DOMAIN s.p.rows # {a}) /\ v.p.objects = s.p.objects
          /\ SameRemoval(s.p, v.p) /\ SameDialog(s.p, v.p) /\ v.p.open /\ v.p.ready /\ ~v.p.wild
      BY <1>2, <3>1 DEF OnlineState, OnlineFields, SameRemoval, SameDialog
    <3>3. /\ DOMAIN v.p.rows = DOMAIN s.p.rows \ {a} /\ v.p.rows \in [DOMAIN v.p.rows -> BOOLEAN]
          /\ \A b \in DOMAIN v.p.rows : v.p.rows[b] <=> s.p.rows[b]
      BY <1>1, <3>2
    <3> QED
      BY <3>2, <3>3
  <2>2. CASE a \notin DOMAIN s.p.rows
    <3>1. v = u
      BY <1>2, <2>2 DEF Online!RemoveRow, Online!Rows
    <3> QED
      BY <1>1, <1>2, <2>2, <3>1 DEF SameRemoval, SameDialog
  <2> QED
    BY <2>1, <2>2
<1> HIDE DEF v
<1>4. /\ OnlineState(t) /\ t.c = s.c /\ t.w = u.w /\ t.p.rows = v.p.rows /\ (t.p.frame <=> v.p.frame)
      /\ t.p.objects = s.p.objects \ {a} /\ SameRemoval(s.p, t.p) /\ SameDialog(s.p, t.p)
      /\ t.p.open /\ t.p.ready /\ ~t.p.wild
  BY <1>3 DEF OnlineState, OnlineFields, SameRemoval, SameDialog
<1> HIDE DEF t
<1>20. /\ t.w.said = Tail(q) /\ t.w.there = s.w.there /\ t.w.unborn = s.w.unborn
      /\ t.w.asked = s.w.asked /\ t.w.sent = s.w.sent /\ (t.w.taken <=> s.w.taken)
  BY <1>2, <1>4
<1> USE <1>4, <1>20
<1>5. /\ Tail(q) \in Seq(Signals) /\ 1 \in DOMAIN q /\ q[1] = Head(q) /\ q[1] \in Signals
      /\ \A i \in DOMAIN Tail(q) : i + 1 \in DOMAIN q /\ i + 1 # 1 /\ Tail(q)[i] = q[i + 1]
      /\ \A tag, b : Unheard(tag, b, Tail(q)) => Unheard(tag, b, q)
      /\ \A tag, b : Unheard(tag, b, q) => Unheard(tag, b, Tail(q)) \/ (Head(q)[1] = tag /\ Head(q)[2] = b)
  BY <1>1, TailFacts
<1>6. a \in Config.accounts.Accounts /\ q[1][1] = "removed" /\ q[1][2] = a
  BY <1>5, SignalKinds
<1>7. a \notin s.w.there /\ ~Unheard("added", a, q)
  <2>1. /\ a \notin s.w.there
        /\ \A j \in DOMAIN q : q[j][1] = "added" /\ q[j][2] = a => j < 1
    BY <1>1, <1>5, <1>6 DEF Mirrors, InOrder
  <2>2. \A j \in DOMAIN q : ~(j < 1)
    BY <1>1
  <2> QED
    BY <2>1, <2>2 DEF Unheard
<1>8. \A b : Unheard("added", b, q) <=> Unheard("added", b, Tail(q))
  BY <1>5, <1>6
<1>9. \A b : ToldOf(b, t.w) <=> ToldOf(b, s.w)
  BY <1>8 DEF ToldOf
<1>10. ~s.w.taken => a \in s.w.asked /\ a \in s.w.sent
  BY <1>1, <1>5, <1>6 DEF Holds, Asked
<1> USE DEF SameRemoval, SameDialog
<1>12. OnlineTypes(t.p, t.w)
  BY <1>1, <1>3, <1>5 DEF OnlineTypes
<1>13. Asked(t.p, t.c, t.w)
  BY <1>1, <1>9 DEF Asked
<1>14. Edits(t.p, t.w)
  BY <1>1, <1>3, <1>9 DEF Edits
<1>15. Hides(t.p, t.w)
  BY <1>1, <1>3 DEF Hides
<1>16. Holds(t.p, t.w)
  <2>1. DOMAIN t.p.rows \subseteq t.p.objects
    BY <1>1, <1>3 DEF Holds
  <2>5. \A i \in DOMAIN q : q[i][1] = "removed" /\ ~s.w.taken => q[i][2] \in s.w.sent
    BY <1>1 DEF Holds
  <2>2. \A i \in DOMAIN t.w.said : t.w.said[i][1] = "removed" /\ ~t.w.taken => t.w.said[i][2] \in t.w.sent
    BY <1>5, <2>5
  <2>3. ASSUME ~t.w.taken PROVE t.p.active # Online!None => t.p.active \in t.p.objects
    BY <1>1, <1>10, <2>3 DEF Holds, Edits
  <2>4. ASSUME ~t.w.taken PROVE t.p.removed # Online!None => t.p.removed \in t.p.objects
    BY <1>1, <1>10, <2>4 DEF Holds, Asked
  <2> QED
    BY <2>1, <2>2, <2>3, <2>4 DEF Holds
<1>17. Mirrors(t.p, t.w)
  <2>1. /\ t.w.there \cap t.w.unborn = {}
        /\ \A b \in Config.accounts.Accounts :
             /\ b \in DOMAIN t.p.rows => ToldOf(b, t.w) /\ (b \in t.w.there \/ Unheard("removed", b, t.w.said))
             /\ b \in t.w.there => b \in DOMAIN t.p.rows \/ Unheard("added", b, t.w.said)
    <3>1. \A b : Unheard("removed", b, q) => Unheard("removed", b, Tail(q)) \/ b = a
      BY <1>5, <1>6
    <3> QED
      BY <1>1, <1>3, <1>7, <1>8, <1>9, <3>1 DEF Mirrors
  <2>2. InOrder(t.w)
    BY <1>1, InOrderKept DEF Mirrors
  <2> QED
    BY <2>1, <2>2 DEF Mirrors
<1>18. OnlineSound(t)
  BY <1>12, <1>13, <1>14, <1>15, <1>16, <1>17 DEF OnlineSound
<1>19. Online!AccountRemoved(u, a) = t
  BY DEF Online!AccountRemoved, t, v
<1> QED
  BY <1>18, <1>19 DEF u

\* z is the queue q with the signal x at its end.
Adds(q, x, z) ==
  /\ q \in Seq(Signals) /\ x \in Signals /\ z \in Seq(Signals)
  /\ \A tag, b : Unheard(tag, b, z) <=> Unheard(tag, b, q) \/ (x[1] = tag /\ x[2] = b)
  /\ \A i \in DOMAIN q : i \in DOMAIN z /\ z[i] = q[i] /\ i < Len(q) + 1
  /\ \A i \in DOMAIN z : i \in DOMAIN q \/ i = Len(q) + 1
  /\ z[Len(q) + 1] = x

\* Then the queue is what it was, and one more.
LEMMA AppendFacts ==
  ASSUME NEW q \in Seq(Signals), NEW x \in Signals
  PROVE  Adds(q, x, Append(q, x))
<1>1. /\ Append(q, x) \in Seq(Signals) /\ DOMAIN q = 1 .. Len(q) /\ Len(q) \in Nat
      /\ DOMAIN Append(q, x) = 1 .. Len(q) + 1 /\ Append(q, x)[Len(q) + 1] = x
  OBVIOUS
<1>2. \A i \in DOMAIN q : i \in DOMAIN Append(q, x) /\ Append(q, x)[i] = q[i] /\ i < Len(q) + 1
  BY <1>1
<1>3. \A i \in DOMAIN Append(q, x) : i \in DOMAIN q \/ i = Len(q) + 1
  BY <1>1
<1>4. \A tag, b : Unheard(tag, b, Append(q, x)) => Unheard(tag, b, q) \/ (x[1] = tag /\ x[2] = b)
  BY <1>1, <1>2, <1>3 DEF Unheard
<1>5. \A tag, b : Unheard(tag, b, q) => Unheard(tag, b, Append(q, x))
  BY <1>2 DEF Unheard
<1>6. Len(q) + 1 \in DOMAIN Append(q, x)
  BY <1>1
<1>7. \A tag, b : x[1] = tag /\ x[2] = b => Unheard(tag, b, Append(q, x))
  BY <1>1, <1>6 DEF Unheard
<1> QED
  BY <1>1, <1>2, <1>3, <1>4, <1>5, <1>7 DEF Adds

\* GOA drops an account, which it was asked to or which another program did.
LEMMA GoneSound ==
  ASSUME NEW s, OnlineSound(s), NEW a \in s.w.there, NEW t, OnlineState(t), t.p = s.p,
         t.w.there = s.w.there \ {a}, t.w.unborn = s.w.unborn, NEW x, x[1] = "removed", x[2] = a, NEW z,
         Adds(s.w.said, x, z), t.w.said = z,
         t.w.asked = s.w.asked, t.w.sent = s.w.sent, s.w.taken => t.w.taken, t.w.taken \/ a \in s.w.sent,
         \A call \in t.c : call[1] # "providers" => call[2] \in s.w.sent
  PROVE  OnlineSound(t)
<1> DEFINE q == s.w.said
<1>1. /\ OnlineTypes(s.p, s.w) /\ Asked(s.p, s.c, s.w) /\ q \in Seq(Signals) /\ x \in Signals
      /\ x[1] = "removed" /\ x[2] = a /\ a \in Config.accounts.Accounts
  BY DEF OnlineSound, OnlineTypes, Adds
<1>2. t.w.said = z
  OBVIOUS
<1>3. /\ z \in Seq(Signals)
      /\ \A tag, b : Unheard(tag, b, z) <=> Unheard(tag, b, q) \/ (x[1] = tag /\ x[2] = b)
      /\ \A i \in DOMAIN q : i \in DOMAIN z /\ z[i] = q[i] /\ i < Len(q) + 1
      /\ \A i \in DOMAIN z : i \in DOMAIN q \/ i = Len(q) + 1
      /\ z[Len(q) + 1] = x
  BY DEF Adds
<1>4. \A b : ToldOf(b, t.w) <=> ToldOf(b, s.w)
  BY <1>1, <1>2, <1>3 DEF ToldOf
<1>5. OnlineTypes(t.p, t.w)
  BY <1>1, <1>2, <1>3 DEF OnlineTypes
<1>6. Asked(t.p, t.c, t.w)
  BY <1>1, <1>4 DEF Asked
<1>7. Edits(s.p, s.w) => Edits(t.p, t.w)
  BY <1>4 DEF Edits
<1>8. Hides(s.p, s.w) => Hides(t.p, t.w)
  BY DEF Hides
<1>9. Holds(s.p, s.w) => Holds(t.p, t.w)
  BY <1>1, <1>2, <1>3 DEF Holds
<1>10. Mirrors(s.p, s.w) => Mirrors(t.p, t.w)
  <2> SUFFICES ASSUME Mirrors(s.p, s.w) PROVE Mirrors(t.p, t.w)
    OBVIOUS
  <2>1. InOrder(s.w) /\ s.w.there \cap s.w.unborn = {}
    BY DEF Mirrors
  <2>2. ASSUME NEW i \in DOMAIN z, z[i][1] = "added"
        PROVE  /\ z[i][2] \notin t.w.unborn
               /\ z[i][2] \in t.w.there \/ Unheard("removed", z[i][2], z)
               /\ \A j \in DOMAIN z :
                    z[j][1] = "added" /\ z[j][2] = z[i][2] => j = i
    <3>1. i \in DOMAIN q /\ z[i] = q[i]
      BY <1>1, <1>3, <2>2
    <3>2. /\ q[i][2] \notin s.w.unborn /\ (q[i][2] \in s.w.there \/ Unheard("removed", q[i][2], q))
          /\ \A j \in DOMAIN q : q[j][1] = "added" /\ q[j][2] = q[i][2] => j = i
      BY <2>1, <2>2, <3>1 DEF InOrder
    <3>3. q[i][2] \in t.w.there \/ Unheard("removed", q[i][2], z)
      BY <1>1, <1>3, <3>2
    <3>4. ASSUME NEW j \in DOMAIN z, z[j][1] = "added", z[j][2] = q[i][2]
          PROVE  j = i
      BY <1>1, <1>3, <3>2, <3>4
    <3> QED
      BY <3>1, <3>2, <3>3, <3>4
  <2>3. ASSUME NEW i \in DOMAIN z, z[i][1] = "removed"
        PROVE  /\ z[i][2] \notin t.w.there /\ z[i][2] \notin t.w.unborn
               /\ \A j \in DOMAIN z :
                    z[j][1] = "added" /\ z[j][2] = z[i][2] => j < i
    <3>1. CASE i \in DOMAIN q
      <4>1. z[i] = q[i]
        BY <1>3, <3>1
      <4>2. /\ q[i][2] \notin s.w.there /\ q[i][2] \notin s.w.unborn
            /\ \A j \in DOMAIN q : q[j][1] = "added" /\ q[j][2] = q[i][2] => j < i
        BY <2>1, <2>3, <3>1, <4>1 DEF InOrder
      <4>3. ASSUME NEW j \in DOMAIN z, z[j][1] = "added", z[j][2] = q[i][2]
            PROVE  j < i
        BY <1>1, <1>3, <4>2, <4>3
      <4> QED
        BY <4>1, <4>2, <4>3
    <3>2. CASE i = Len(q) + 1
      <4>1. \A j \in DOMAIN z : z[j][1] = "added" => j < Len(q) + 1
        BY <1>1, <1>3
      <4>2. a \notin t.w.there /\ a \notin t.w.unborn
        BY <2>1
      <4> QED
        BY <1>1, <1>3, <3>2, <4>1, <4>2
    <3> QED
      BY <1>3, <3>1, <3>2
  <2>4. InOrder(t.w)
    BY <1>2, <2>2, <2>3 DEF InOrder
  <2>5. \A b \in Config.accounts.Accounts : b \in DOMAIN t.p.rows => ToldOf(b, t.w)
        /\ (b \in t.w.there \/ Unheard("removed", b, t.w.said))
    BY <1>1, <1>2, <1>3, <1>4 DEF Mirrors
  <2>6. \A b \in Config.accounts.Accounts : b \in t.w.there => b \in DOMAIN t.p.rows
        \/ Unheard("added", b, t.w.said)
    BY <1>1, <1>2, <1>3 DEF Mirrors
  <2> QED
    BY <2>1, <2>4, <2>5, <2>6 DEF Mirrors
<1> QED
  BY <1>5, <1>6, <1>7, <1>8, <1>9, <1>10 DEF OnlineSound

\* An account comes to be.
LEMMA MadeSound ==
  ASSUME NEW s, OnlineSound(s), NEW a \in s.w.unborn, NEW t, OnlineState(t), t.p = s.p, t.c = s.c,
         t.w.there = s.w.there \cup {a}, t.w.unborn = s.w.unborn \ {a},
         NEW x, x[1] = "added", x[2] = a, NEW z, Adds(s.w.said, x, z), t.w.said = z,
         t.w.asked = s.w.asked, t.w.sent = s.w.sent, t.w.taken <=> s.w.taken
  PROVE  OnlineSound(t)
<1> DEFINE q == s.w.said
<1>1. /\ OnlineTypes(s.p, s.w) /\ Asked(s.p, s.c, s.w) /\ q \in Seq(Signals) /\ x \in Signals
      /\ x[1] = "added" /\ x[2] = a /\ a \in Config.accounts.Accounts
  BY DEF OnlineSound, OnlineTypes, Adds
<1>2. t.w.said = z
  OBVIOUS
<1>3. /\ z \in Seq(Signals)
      /\ \A tag, b : Unheard(tag, b, z) <=> Unheard(tag, b, q) \/ (x[1] = tag /\ x[2] = b)
      /\ \A i \in DOMAIN q : i \in DOMAIN z /\ z[i] = q[i] /\ i < Len(q) + 1
      /\ \A i \in DOMAIN z : i \in DOMAIN q \/ i = Len(q) + 1
      /\ z[Len(q) + 1] = x
  BY DEF Adds
<1>11. ~ToldOf(a, s.w)
  BY DEF ToldOf
<1>4. \A b : ToldOf(b, s.w) => ToldOf(b, t.w)
  BY <1>1, <1>2, <1>3, <1>11 DEF ToldOf
<1>5. OnlineTypes(t.p, t.w)
  BY <1>1, <1>2, <1>3 DEF OnlineTypes
<1>6. Asked(t.p, t.c, t.w)
  BY <1>1, <1>4 DEF Asked
<1>7. Edits(s.p, s.w) => Edits(t.p, t.w)
  BY <1>4 DEF Edits
<1>8. Hides(s.p, s.w) => Hides(t.p, t.w)
  BY DEF Hides
<1>9. Holds(s.p, s.w) => Holds(t.p, t.w)
  BY <1>1, <1>2, <1>3 DEF Holds
<1>10. Mirrors(s.p, s.w) => Mirrors(t.p, t.w)
  <2> SUFFICES ASSUME Mirrors(s.p, s.w) PROVE Mirrors(t.p, t.w)
    OBVIOUS
  <2>1. InOrder(s.w) /\ s.w.there \cap s.w.unborn = {}
    BY DEF Mirrors
  <2>2. ASSUME NEW i \in DOMAIN z, z[i][1] = "added"
        PROVE  /\ z[i][2] \notin t.w.unborn
               /\ z[i][2] \in t.w.there \/ Unheard("removed", z[i][2], z)
               /\ \A j \in DOMAIN z :
                    z[j][1] = "added" /\ z[j][2] = z[i][2] => j = i
    <3>1. CASE i \in DOMAIN q
      <4>1. z[i] = q[i]
        BY <1>3, <3>1
      <4>2. /\ q[i][2] \notin s.w.unborn /\ (q[i][2] \in s.w.there \/ Unheard("removed", q[i][2], q))
            /\ \A j \in DOMAIN q : q[j][1] = "added" /\ q[j][2] = q[i][2] => j = i
        BY <2>1, <2>2, <3>1, <4>1 DEF InOrder
      <4>3. q[i][2] \in t.w.there \/ Unheard("removed", q[i][2], z)
        BY <1>1, <1>3, <4>2
      <4>4. ASSUME NEW j \in DOMAIN z, z[j][1] = "added", z[j][2] = q[i][2]
            PROVE  j = i
        <5>1. q[i][2] # a
          BY <4>2
        <5> QED
          BY <1>1, <1>3, <4>2, <4>4, <5>1
      <4> QED
        BY <4>1, <4>2, <4>3, <4>4
    <3>2. CASE i = Len(q) + 1
      <4>1. \A j \in DOMAIN q : q[j][1] = "added" => q[j][2] # a
        BY <2>1 DEF InOrder
      <4>2. a \in t.w.there /\ a \notin t.w.unborn /\ z[i][2] = a
        BY <1>1, <1>3, <3>2
      <4>3. ASSUME NEW j \in DOMAIN z, z[j][1] = "added", z[j][2] = a
            PROVE  j = i
        BY <1>3, <3>2, <4>1, <4>3
      <4> QED
        BY <4>2, <4>3
    <3> QED
      BY <1>3, <3>1, <3>2
  <2>3. ASSUME NEW i \in DOMAIN z, z[i][1] = "removed"
        PROVE  /\ z[i][2] \notin t.w.there /\ z[i][2] \notin t.w.unborn
               /\ \A j \in DOMAIN z :
                    z[j][1] = "added" /\ z[j][2] = z[i][2] => j < i
    <3>1. i \in DOMAIN q /\ z[i] = q[i]
      BY <1>1, <1>3, <2>3
    <3>2. /\ q[i][2] \notin s.w.there /\ q[i][2] \notin s.w.unborn
          /\ \A j \in DOMAIN q : q[j][1] = "added" /\ q[j][2] = q[i][2] => j < i
      BY <2>1, <2>3, <3>1 DEF InOrder
    <3>3. q[i][2] # a
      BY <3>2
    <3>4. ASSUME NEW j \in DOMAIN z, z[j][1] = "added", z[j][2] = q[i][2]
          PROVE  j < i
      BY <1>1, <1>3, <3>2, <3>3, <3>4
    <3> QED
      BY <3>1, <3>2, <3>3, <3>4
  <2>4. InOrder(t.w)
    BY <1>2, <2>2, <2>3 DEF InOrder
  <2>5. \A b \in Config.accounts.Accounts : b \in DOMAIN t.p.rows => ToldOf(b, t.w)
        /\ (b \in t.w.there \/ Unheard("removed", b, t.w.said))
    BY <1>1, <1>2, <1>3, <1>4 DEF Mirrors
  <2>6. \A b \in Config.accounts.Accounts : b \in t.w.there => b \in DOMAIN t.p.rows
        \/ Unheard("added", b, t.w.said)
    BY <1>1, <1>2, <1>3 DEF Mirrors
  <2> QED
    BY <2>1, <2>4, <2>5, <2>6 DEF Mirrors
<1> QED
  BY <1>5, <1>6, <1>7, <1>8, <1>9, <1>10 DEF OnlineSound

\* An account changes, which moves nothing.
LEMMA ChangeSaid ==
  ASSUME NEW s, OnlineSound(s), NEW a \in s.w.there, NEW locked \in BOOLEAN, NEW t, OnlineState(t), t.p = s.p,
         t.c = s.c,
         t.w.there = s.w.there, t.w.unborn = s.w.unborn,
         NEW x, x[1] = "changed", x[2] = a, NEW z, Adds(s.w.said, x, z), t.w.said = z,
         t.w.asked = s.w.asked, t.w.sent = s.w.sent, t.w.taken <=> s.w.taken
  PROVE  OnlineSound(t)
<1> DEFINE q == s.w.said
<1>1. /\ OnlineTypes(s.p, s.w) /\ Asked(s.p, s.c, s.w) /\ q \in Seq(Signals) /\ x \in Signals
      /\ x[1] = "changed" /\ x[2] = a /\ a \in Config.accounts.Accounts
  BY DEF OnlineSound, OnlineTypes, Adds
<1>2. t.w.said = z
  OBVIOUS
<1>3. /\ z \in Seq(Signals)
      /\ \A tag, b : Unheard(tag, b, z) <=> Unheard(tag, b, q) \/ (x[1] = tag /\ x[2] = b)
      /\ \A i \in DOMAIN q : i \in DOMAIN z /\ z[i] = q[i] /\ i < Len(q) + 1
      /\ \A i \in DOMAIN z : i \in DOMAIN q \/ i = Len(q) + 1
      /\ z[Len(q) + 1] = x
  BY DEF Adds
<1>4. \A b : ToldOf(b, t.w) <=> ToldOf(b, s.w)
  BY <1>1, <1>2, <1>3 DEF ToldOf
<1>5. OnlineTypes(t.p, t.w)
  BY <1>1, <1>2, <1>3 DEF OnlineTypes
<1>6. Asked(t.p, t.c, t.w)
  BY <1>1, <1>4 DEF Asked
<1>7. Edits(s.p, s.w) => Edits(t.p, t.w)
  BY <1>4 DEF Edits
<1>8. Hides(s.p, s.w) => Hides(t.p, t.w)
  BY DEF Hides
<1>9. Holds(s.p, s.w) => Holds(t.p, t.w)
  BY <1>1, <1>2, <1>3 DEF Holds
<1>10. Mirrors(s.p, s.w) => Mirrors(t.p, t.w)
  <2> SUFFICES ASSUME Mirrors(s.p, s.w) PROVE Mirrors(t.p, t.w)
    OBVIOUS
  <2>1. InOrder(s.w) /\ s.w.there \cap s.w.unborn = {}
    BY DEF Mirrors
  <2>2. \A b : /\ Unheard("added", b, z) <=> Unheard("added", b, q)
               /\ Unheard("removed", b, z) <=> Unheard("removed", b, q)
    BY <1>1, <1>3
  <2>3. \A i \in DOMAIN z :
          z[i][1] \in {"added", "removed"} => i \in DOMAIN q /\ z[i] = q[i]
    BY <1>1, <1>3
  <2>4. InOrder(t.w)
    BY <1>2, <1>3, <2>1, <2>2, <2>3 DEF InOrder
  <2>5. \A b \in Config.accounts.Accounts :
          /\ b \in DOMAIN t.p.rows => ToldOf(b, t.w) /\ (b \in t.w.there \/ Unheard("removed", b, t.w.said))
          /\ b \in t.w.there => b \in DOMAIN t.p.rows \/ Unheard("added", b, t.w.said)
    BY <1>2, <1>4, <2>2 DEF Mirrors
  <2> QED
    BY <2>1, <2>4, <2>5 DEF Mirrors
<1> QED
  BY <1>5, <1>6, <1>7, <1>8, <1>9, <1>10 DEF OnlineSound

\* The panel hears a signal.
LEMMA Hears ==
  ASSUME OnlineSound(Online!State), Online!SignalRead
  PROVE  OnlineSound(Online!State)'
<1> DEFINE s == Online!State
           u == [s EXCEPT !.w.said = Tail(@)]
           signal == Head(world.said)
           a == signal[2]
<1>1. /\ s.p = panel /\ s.w = world /\ OnlineSound(s) /\ ~s.p.wild /\ s.p.open /\ s.p.ready /\ s.w.said # <<>>
      /\ s.w.said \in Seq(Signals) /\ OnlineState(s)
  BY DEF Online!SignalRead, Online!Becomes, Online!State, OnlineSound, OnlineTypes
<1>2. signal \in Signals /\ signal = Head(s.w.said)
  BY <1>1
<1>3. signal[1] \in {"added", "removed", "changed"} /\ a \in Config.accounts.Accounts
  BY <1>2, SignalKinds
<1>4. Online!Becomes(CASE signal[1] = "added" -> Online!AccountAdded(u, a)
                [] signal[1] = "changed" -> Online!AccountChanged(u, a, signal[3])
                [] signal[1] = "removed" -> Online!AccountRemoved(u, a))
  BY DEF Online!SignalRead
<1> HIDE DEF s, signal, u
<1>5. CASE signal[1] = "added"
  <2>1. Online!Becomes(Online!AccountAdded(u, a))
    BY <1>4, <1>5
  <2>2. OnlineSound(Online!AccountAdded(u, a))
    BY <1>1, <1>2, <1>5, AddedTaken DEF u
  <2> QED
    BY <2>1, <2>2, OnlineBecomes
<1>6. CASE signal[1] = "removed"
  <2>1. Online!Becomes(Online!AccountRemoved(u, a))
    BY <1>4, <1>6
  <2>2. OnlineSound(Online!AccountRemoved(u, a))
    BY <1>1, <1>2, <1>6, RemovedTaken DEF u
  <2> QED
    BY <2>1, <2>2, OnlineBecomes
<1>7. CASE signal[1] = "changed"
  <2> DEFINE locked == signal[3]
             t == [u EXCEPT !.p.locked[a] = locked]
  <2>1. Online!Becomes(Online!AccountChanged(u, a, locked))
    BY <1>4, <1>7
  <2>2. OnlineSound(u) /\ OnlineState(u) /\ u.p = s.p
    BY <1>1, <1>2, <1>7, SignalTaken DEF u, OnlineState, OnlineSound
  <2>3. /\ OnlineState(t) /\ t.c = u.c /\ t.w = u.w /\ SameRows(u.p, t.p) /\ SameRemoval(u.p, t.p)
        /\ SameDialog(u.p, t.p) /\ (t.p.wild <=> u.p.wild)
    BY <2>2 DEF OnlineState, OnlineFields, SameRows, SameRemoval, SameDialog
  <2> HIDE DEF t, locked
  <2>4. SameWorld(u.w, t.w) /\ \A call \in t.c : call[1] # "providers" => call[2] \in u.w.sent
    BY <2>2, <2>3 DEF SameWorld, OnlineSound, Asked
  <2>5. OnlineSound(t)
    BY <2>2, <2>3, <2>4, Otherwise
  <2>6. ASSUME u.p.active = a PROVE OnlineSound(Online!ShowPageAccount(t, a))
    <3>1. t.p.active = a /\ t.p.open /\ ~t.p.wild
      BY <1>1, <2>2, <2>3, <2>6 DEF SameDialog, SameRows
    <3>2. a # Online!None
      BY <1>3, AccountsAssumption
    <3>3. ToldOf(a, t.w) /\ a \notin t.w.asked
      BY <2>5, <3>1, <3>2 DEF OnlineSound, Edits
    <3> QED
      BY <2>5, <3>1, <3>2, <3>3, PageShown
  <2>7. Online!AccountChanged(u, a, locked) = IF u.p.active = a THEN Online!ShowPageAccount(t, a) ELSE t
    BY DEF Online!AccountChanged, t
  <2>8. OnlineSound(Online!AccountChanged(u, a, locked))
    BY <2>5, <2>6, <2>7
  <2> QED
    BY <2>1, <2>8, OnlineBecomes
<1> QED
  BY <1>3, <1>5, <1>6, <1>7

\* GOA, other programs and the network.
LEMMA WorldActs ==
  ASSUME OnlineSound(Online!State),
         \/ \E a \in Config.accounts.Accounts : Online!GoaRemoves(a) \/ Online!GoaRefuses(a)
            \/ Online!OthersRemove(a) \/ Online!OthersChange(a)
         \/ Online!AccountMade \/ Online!NetworkChanged
  PROVE  OnlineSound(Online!State)'
<1> DEFINE s == Online!State
<1>1. /\ s.p = panel /\ s.c = calls /\ s.w = world /\ OnlineState(s) /\ OnlineSound(s)
      /\ world.said \in Seq(Signals) /\ world.there \subseteq Config.accounts.Accounts
         /\ world.unborn \subseteq Config.accounts.Accounts
  BY DEF OnlineSound, Online!State, OnlineTypes
<1>2. \A call \in calls : call[1] # "providers" => call[2] \in world.sent
  BY <1>1 DEF OnlineSound, Asked
<1>3. ASSUME NEW t, OnlineSound(t), Online!ByOthers(t) PROVE OnlineSound(Online!State)'
  BY <1>3, OnlineCounted, OnlineBecomes DEF Online!ByOthers
<1> HIDE DEF s
<1>4. ASSUME NEW t, OnlineState(t), t.p = s.p, SameWorld(s.w, t.w),
             t.c \subseteq s.c \cup {<<"failed", a>> : a \in s.w.sent}
      PROVE  OnlineSound(t)
  <2>1. \A call \in t.c : call[1] # "providers" => call[2] \in s.w.sent
    BY <1>1, <1>2, <1>4
  <2>2. SameRows(s.p, t.p) /\ SameRemoval(s.p, t.p) /\ SameDialog(s.p, t.p) /\ (t.p.wild <=> s.p.wild)
    BY <1>4 DEF SameRows, SameRemoval, SameDialog
  <2> QED
    BY <1>1, <1>4, <2>1, <2>2, Otherwise
<1>5. ASSUME NEW a \in world.there
      PROVE  Adds(world.said, <<"removed", a>>, Append(world.said, <<"removed", a>>))
  BY <1>1, <1>5, AppendFacts DEF Signals
<1>6. ASSUME NEW a \in Config.accounts.Accounts, Online!GoaRemoves(a) PROVE OnlineSound(Online!State)'
  <2> DEFINE u == [s EXCEPT !.c = @ \ {<<"remove", a>>}]
             v == [u EXCEPT !.c = @ \cup {<<"removed", a>>}]
             t == Online!Gone(v, a)
             f == [u EXCEPT !.c = @ \cup {<<"failed", a>>}]
  <2>1. a \in world.sent
    BY <1>2, <1>6 DEF Online!GoaRemoves
  <2>2. OnlineState(u) /\ u.p = s.p /\ u.w = s.w /\ u.c = s.c \ {<<"remove", a>>}
    BY <1>1 DEF OnlineState
  <2> HIDE DEF u
  <2>3. /\ OnlineState(v) /\ v.p = s.p /\ v.w = s.w /\ v.c = u.c \cup {<<"removed", a>>}
        /\ OnlineState(f) /\ f.p = s.p /\ f.w = s.w /\ f.c = u.c \cup {<<"failed", a>>}
    BY <2>2 DEF OnlineState
  <2> HIDE DEF v, f
  <2>4. CASE a \in world.there /\ Online!Becomes(t)
    <3>1. /\ OnlineState(t) /\ t.p = s.p /\ t.c = v.c /\ t.w.there = s.w.there \ {a} /\ t.w.unborn = s.w.unborn
          /\ t.w.said = Append(s.w.said, <<"removed", a>>) /\ t.w.asked = s.w.asked /\ t.w.sent = s.w.sent
          /\ (t.w.taken <=> s.w.taken)
      BY <1>1, <2>3 DEF Online!Gone, OnlineState, OnlineWorldFields
    <3> HIDE DEF t
    <3>2. Adds(s.w.said, <<"removed", a>>, t.w.said)
      BY <1>1, <1>5, <2>4, <3>1
    <3>3. \A call \in t.c : call[1] # "providers" => call[2] \in s.w.sent
      BY <1>1, <1>2, <2>1, <2>2, <2>3, <3>1
    <3>4. OnlineSound(t)
      BY <1>1, <2>1, <2>4, <3>1, <3>2, <3>3, GoneSound
    <3> QED
      BY <2>4, <3>4, OnlineBecomes
  <2>5. CASE a \notin world.there /\ Online!Becomes(f)
    <3>1. OnlineSound(f)
      BY <1>1, <1>4, <2>1, <2>2, <2>3 DEF SameWorld
    <3> QED
      BY <2>5, <3>1, OnlineBecomes
  <2> QED
    BY <1>6, <2>4, <2>5 DEF Online!GoaRemoves, t, v, f, u, s
<1>7. ASSUME NEW a \in Config.accounts.Accounts, Online!GoaRefuses(a) PROVE OnlineSound(Online!State)'
  <2> DEFINE f == [s EXCEPT !.c = (@ \ {<<"remove", a>>}) \cup {<<"failed", a>>}]
  <2>1. a \in world.sent
    BY <1>2, <1>7 DEF Online!GoaRefuses
  <2>2. OnlineState(f) /\ f.p = s.p /\ f.w = s.w /\ f.c \subseteq s.c \cup {<<"failed", a>>}
    BY <1>1 DEF OnlineState
  <2> HIDE DEF f
  <2>3. OnlineSound(f)
    BY <1>1, <1>4, <2>1, <2>2 DEF SameWorld
  <2> QED
    BY <1>3, <1>7, <2>3 DEF Online!GoaRefuses, f, s
<1>8. ASSUME NEW a \in Config.accounts.Accounts, Online!OthersRemove(a) PROVE OnlineSound(Online!State)'
  <2> DEFINE t == [Online!Gone(s, a) EXCEPT !.w.taken = TRUE]
  <2>1. a \in world.there
    BY <1>8 DEF Online!OthersRemove
  <2>2. /\ OnlineState(t) /\ t.p = s.p /\ t.c = s.c /\ t.w.there = s.w.there \ {a} /\ t.w.unborn = s.w.unborn
        /\ t.w.said = Append(s.w.said, <<"removed", a>>) /\ t.w.asked = s.w.asked /\ t.w.sent = s.w.sent
        /\ t.w.taken
    BY <1>1 DEF Online!Gone, OnlineState, OnlineWorldFields
  <2> HIDE DEF t
  <2>3. Adds(s.w.said, <<"removed", a>>, t.w.said)
    BY <1>1, <1>5, <2>1, <2>2
  <2>4. OnlineSound(t)
    BY <1>1, <1>2, <2>1, <2>2, <2>3, GoneSound
  <2> QED
    BY <1>3, <1>8, <2>4 DEF Online!OthersRemove, t, s
<1>9. ASSUME NEW a \in Config.accounts.Accounts, Online!OthersChange(a) PROVE OnlineSound(Online!State)'
  <2>1. PICK locked \in BOOLEAN : Online!ByOthers([Online!State EXCEPT !.w.said = Append(@, <<"changed", a,
        locked>>)])
    BY <1>9 DEF Online!OthersChange
  <2> DEFINE t == [s EXCEPT !.w.said = Append(@, <<"changed", a, locked>>)]
  <2>2. /\ OnlineState(t) /\ t.p = s.p /\ t.c = s.c /\ t.w.there = s.w.there /\ t.w.unborn = s.w.unborn
        /\ t.w.said = Append(s.w.said, <<"changed", a, locked>>) /\ t.w.asked = s.w.asked /\ t.w.sent = s.w.sent
        /\ (t.w.taken <=> s.w.taken)
    BY <1>1 DEF OnlineState, OnlineWorldFields
  <2> HIDE DEF t
  <2>3. Adds(s.w.said, <<"changed", a, locked>>, t.w.said)
    BY <1>1, <2>2, AppendFacts DEF Signals
  <2>4. a \in s.w.there
    BY <1>1, <1>9 DEF Online!OthersChange
  <2>5. OnlineSound(t)
    BY <1>1, <2>2, <2>3, <2>4, ChangeSaid
  <2> QED
    BY <1>3, <2>1, <2>5 DEF t, s
<1>10. CASE Online!AccountMade
  <2>1. PICK a \in world.unborn :
          Online!ByOthers([Online!State EXCEPT !.w.unborn = @ \ {a}, !.w.there = @ \cup {a},
          !.w.said = Append(@, <<"added", a>>)])
    BY <1>10 DEF Online!AccountMade
  <2> DEFINE t == [s EXCEPT !.w.unborn = @ \ {a}, !.w.there = @ \cup {a}, !.w.said = Append(@, <<"added", a>>)]
  <2>2. /\ OnlineState(t) /\ t.p = s.p /\ t.c = s.c /\ t.w.there = s.w.there \cup {a}
           /\ t.w.unborn = s.w.unborn \ {a}
        /\ t.w.said = Append(s.w.said, <<"added", a>>) /\ t.w.asked = s.w.asked /\ t.w.sent = s.w.sent
        /\ (t.w.taken <=> s.w.taken)
    BY <1>1 DEF OnlineState, OnlineWorldFields
  <2> HIDE DEF t
  <2>3. Adds(s.w.said, <<"added", a>>, t.w.said)
    BY <1>1, <2>2, AppendFacts DEF Signals
  <2>4. OnlineSound(t)
    BY <1>1, <2>2, <2>3, MadeSound
  <2> QED
    BY <1>3, <2>1, <2>4 DEF t, s
<1>11. CASE Online!NetworkChanged
  <2> DEFINE t == [s EXCEPT !.w.online = ~@]
  <2>1. OnlineState(t) /\ t.p = s.p /\ t.c = s.c /\ SameWorld(s.w, t.w)
    BY <1>1 DEF OnlineState, OnlineWorldFields, SameWorld
  <2> HIDE DEF t
  <2>2. OnlineSound(t)
    BY <1>4, <2>1
  <2> QED
    BY <1>3, <1>11, <2>2 DEF Online!NetworkChanged, t, s
<1> QED
  BY <1>6, <1>7, <1>8, <1>9, <1>10, <1>11

\* Every step of the panel.
LEMMA OnlineNext == OnlineSound(Online!State) /\ Online!Next => OnlineSound(Online!State)'
<1> SUFFICES ASSUME OnlineSound(Online!State), Online!Next PROVE OnlineSound(Online!State)'
  OBVIOUS
<1>1. ASSUME NEW a \in Config.accounts.Accounts, Online!RowActivated(a) \/ Online!AddReturns(a)
      PROVE OnlineSound(Online!State)'
  BY <1>1, UserShows
<1>2. CASE Online!ProviderActivated \/ Online!DialogClosed
  BY <1>2, UserShows
<1> QED
  BY <1>1, <1>2, PanelActs, Hears, WorldActs DEF Online!Next

\* The properties of the panel.
LEMMA OnlineTells ==
  OnlineSound(Online!State) => Online!RemovesWhatWasAsked /\ Online!RowsAreTheAccounts
  /\ Online!DialogIsAboutActive /\ Online!UsesWhatItHolds
<1> SUFFICES ASSUME OnlineSound(Online!State)
             PROVE  Online!RemovesWhatWasAsked /\ Online!RowsAreTheAccounts /\ Online!DialogIsAboutActive
                    /\ Online!UsesWhatItHolds
  OBVIOUS
<1>1. /\ OnlineSound(Online!State) /\ Online!State.p = panel /\ Online!State.c = calls /\ Online!State.w = world
  BY DEF Online!State
<1>2. Online!RemovesWhatWasAsked
  BY <1>1 DEF OnlineSound, Asked, Online!RemovesWhatWasAsked, Online!Removals
<1>3. Online!RowsAreTheAccounts
  <2> SUFFICES ASSUME panel.open, panel.ready, ~panel.wild
               PROVE  /\ world.said = <<>> => DOMAIN panel.rows = world.there
                      /\ {a \in DOMAIN panel.rows : panel.rows[a]} = DOMAIN panel.rows \ world.asked
                      /\ {a \in DOMAIN panel.rows : panel.rows[a]} # {} => panel.frame
    BY <1>1 DEF Online!RowsAreTheAccounts, Online!Rows, Online!Visible
  <2>1. Mirrors(panel, world) /\ Hides(panel, world) /\ OnlineTypes(panel, world)
    BY <1>1 DEF OnlineSound
  <2>2. world.said = <<>> => \A tag, a : ~Unheard(tag, a, world.said)
    BY DEF Unheard
  <2>3. world.said = <<>> => DOMAIN panel.rows = world.there
    BY <2>1, <2>2 DEF Mirrors, OnlineTypes
  <2> QED
    BY <2>1, <2>3 DEF Hides
<1>4. Online!DialogIsAboutActive
  BY <1>1 DEF OnlineSound, Edits, Online!DialogIsAboutActive
<1>5. Online!UsesWhatItHolds
  BY <1>1 DEF OnlineSound, Online!UsesWhatItHolds
<1> QED
  BY <1>2, <1>3, <1>4, <1>5

-----------------------------------------------------------------------------
(***************************************************************************)
(* The window: one panel or none, and the header of that panel.            *)
(***************************************************************************)

ShellFields == {"page", "boxes", "box", "id", "active", "told", "header", "filter", "entry"}
\* One panel or none is in the notebook, and all that the window tells is about it; nothing of another
\* is in the header or waits to be put there.
WindowSound(p, c) ==
  /\ DOMAIN p = ShellFields
  /\ p.boxes = {p.box} \ {Window!None}
  /\ p.page = "panel" <=> p.box # Window!None
  /\ p.page = "panel" => (p.id = p.box /\ p.active = p.box /\ p.told = p.box)
  /\ p.header \cup c \subseteq {p.box} \ {Window!None}

\* The overview has no panel.
LEMMA OverviewSound ==
  ASSUME NEW p, NEW c, WindowSound(p, c)
  PROVE  LET t == Window!ShowOverviewPage(p) IN WindowSound(t, {}) /\ t.box = Window!None /\ t.page = "overview"
<1> DEFINE t == Window!ShowOverviewPage(p)
<1>1. DOMAIN p = ShellFields /\ p.boxes = {p.box} \ {Window!None}
  BY DEF WindowSound
<1>2. DOMAIN t = ShellFields /\ t.page = "overview" /\ t.boxes = p.boxes \ {p.box} /\ t.box = Window!None
      /\ t.header = {}
  BY <1>1 DEF Window!ShowOverviewPage, ShellFields
<1> HIDE DEF t
<1>3. t.boxes = {}
  BY <1>1, <1>2
<1> QED
  BY <1>2, <1>3 DEF WindowSound, t

\* A text that is typed is searched for without a panel.
LEMMA SearchSound ==
  ASSUME NEW p, NEW c, NEW text, WindowSound(p, c), p.page # "panel"
  PROVE  WindowSound(Window!SearchEntryChanged(p, text), c)
<1> DEFINE t == Window!SearchEntryChanged(p, text)
<1>1. /\ DOMAIN p = ShellFields /\ p.boxes = {p.box} \ {Window!None} /\ p.box = Window!None
      /\ p.header \cup c \subseteq {p.box} \ {Window!None}
  BY DEF WindowSound
<1>2. CASE t = Window!ShowOverviewPage(p)
  <2>1. WindowSound(t, {}) /\ t.box = Window!None /\ c = {}
    BY <1>1, <1>2, OverviewSound
  <2> QED
    BY <2>1
<1>3. CASE t = [p EXCEPT !.entry = text] \/ t = [p EXCEPT !.entry = text, !.filter = text, !.page = "search"]
  <2>1. /\ DOMAIN t = ShellFields /\ t.page \in {p.page, "search"} /\ t.box = p.box /\ t.boxes = p.boxes
           /\ t.header = p.header
    BY <1>1, <1>3 DEF ShellFields
  <2> HIDE DEF t
  <2>2. WindowSound(t, c)
    BY <1>1, <2>1 DEF WindowSound
  <2> QED
    BY <2>2 DEF t
<1> QED
  BY <1>2, <1>3 DEF Window!SearchEntryChanged

\* A panel takes the place of another, or of none.
LEMMA ActivateSound ==
  ASSUME NEW id, WindowSound(panel, calls), Window!SetActivePanelFromId(id)
  PROVE  WindowSound(panel', calls')
<1>1. DOMAIN panel = ShellFields /\ panel.boxes = {panel.box} \ {Window!None}
  BY DEF WindowSound
<1>2. CASE UNCHANGED <<panel, calls>>
  BY <1>2
<1>3. CASE panel' = [panel EXCEPT !.header = {}] /\ UNCHANGED calls
  <2>1. /\ DOMAIN panel' = ShellFields /\ panel'.page = panel.page /\ panel'.boxes = panel.boxes
           /\ panel'.box = panel.box
        /\ panel'.id = panel.id /\ panel'.active = panel.active /\ panel'.told = panel.told /\ panel'.header = {}
    BY <1>1, <1>3 DEF ShellFields
  <2> QED
    BY <1>3, <2>1 DEF WindowSound
<1>4. CASE id \in Config.shell.Plugins /\ panel' = Window!ActivatePanel(panel, id)
           /\ calls' = {id} \cap Config.shell.Late
  <2>1. /\ DOMAIN panel' = ShellFields /\ panel'.page = "panel"
           /\ panel'.boxes = (panel.boxes \ {panel.box}) \cup {id} /\ panel'.box = id
        /\ panel'.id = id /\ panel'.active = id /\ panel'.told = id /\ panel'.header = {id} \cap Config.shell.Early
    BY <1>1, <1>4 DEF ShellFields, Window!ActivatePanel
  <2>2. id # Window!None
    BY <1>4, ShellAssumption
  <2>3. panel'.boxes = {id}
    BY <1>1, <2>1
  <2> QED
    BY <1>4, <2>1, <2>2, <2>3 DEF WindowSound
<1>5. CASE panel' = Window!ActivationFails(panel) /\ calls' = {}
  <2>1. /\ DOMAIN panel' = ShellFields /\ panel'.page = "overview" /\ panel'.boxes = panel.boxes \ {panel.box}
        /\ panel'.box = Window!None /\ panel'.header = {}
    BY <1>1, <1>5 DEF ShellFields, Window!ActivationFails
  <2>2. panel'.boxes = {}
    BY <1>1, <2>1
  <2> QED
    BY <1>5, <2>1, <2>2 DEF WindowSound
<1> QED
  BY <1>2, <1>3, <1>4, <1>5 DEF Window!SetActivePanelFromId

\* Each step of the window keeps that.
LEMMA WindowStep ==
  ASSUME WindowSound(panel, calls), Window!Next
  PROVE  WindowSound(panel', calls')
<1>1. CASE Window!HomeButtonClicked \/ Window!KeyBack
  BY <1>1, OverviewSound DEF Window!HomeButtonClicked, Window!KeyBack
<1>2. ASSUME NEW text \in Window!Texts, Window!SearchTyped(text) PROVE WindowSound(panel', calls')
  BY <1>2, SearchSound DEF Window!SearchTyped
<1>3. ASSUME NEW id, Window!ItemActivated(id) \/ Window!SearchRowActivated(id) PROVE WindowSound(panel', calls')
  BY <1>3, ActivateSound DEF Window!ItemActivated, Window!SearchRowActivated
<1>4. ASSUME NEW search, NEW overview, NEW id, Window!CommandLine(search, overview, id)
      PROVE WindowSound(panel', calls')
  <2>1. \/ \E text : Window!SetSearchItem(text)
        \/ panel' = Window!ShowOverviewPage(panel) /\ calls' = {}
        \/ Window!SetActivePanelFromId(id)
        \/ UNCHANGED <<panel, calls>>
    BY <1>4 DEF Window!CommandLine
  <2>2. ASSUME NEW text, Window!SetSearchItem(text) PROVE WindowSound(panel', calls')
    <3>1. WindowSound(Window!ShowOverviewPage(panel), {}) /\ Window!ShowOverviewPage(panel).page = "overview"
      BY OverviewSound
    <3>2. WindowSound(Window!SearchEntryChanged(Window!ShowOverviewPage(panel), text), {})
      BY <3>1, SearchSound
    <3> QED
      BY <2>2, <3>2 DEF Window!SetSearchItem
  <2> QED
    BY <2>1, <2>2, OverviewSound, ActivateSound
<1>5. ASSUME NEW id \in Config.shell.Late, Window!AddHeaderWidgets(id) PROVE WindowSound(panel', calls')
  <2>1. DOMAIN panel = ShellFields
    BY DEF WindowSound
  <2>2. /\ DOMAIN panel' = ShellFields /\ panel'.page = panel.page /\ panel'.boxes = panel.boxes
           /\ panel'.box = panel.box
        /\ panel'.id = panel.id /\ panel'.active = panel.active /\ panel'.told = panel.told
        /\ panel'.header = panel.header \cup {id}
    BY <1>5, <2>1 DEF Window!AddHeaderWidgets, ShellFields
  <2>3. panel'.header \cup calls' \subseteq panel.header \cup calls
    BY <1>5, <2>2 DEF Window!AddHeaderWidgets
  <2> QED
    BY <2>2, <2>3 DEF WindowSound
<1>6. ASSUME NEW menu \in Config.shell.Menus, Window!MenuChanged(menu) PROVE WindowSound(panel', calls')
  BY <1>6 DEF Window!MenuChanged
<1> QED
  BY <1>1, <1>2, <1>3, <1>4, <1>5, <1>6 DEF Window!Next

\* The window at first.
LEMMA WindowInit == ASSUME Window!Init PROVE WindowSound(panel, calls)
BY DEF Window!Init, WindowSound, ShellFields

\* So does a step of anything else.
LEMMA WindowNext == ASSUME WindowSound(panel, calls), Window!Next \/ UNCHANGED <<panel, calls, world>>
PROVE WindowSound(panel', calls')
BY WindowStep

\* It shows one panel, with its header.
LEMMA WindowTells == ASSUME WindowSound(panel, calls) PROVE Window!OnePanelIsShown /\ Window!HeaderOfThePanel
BY DEF WindowSound, Window!OnePanelIsShown, Window!HeaderOfThePanel
=============================================================================
