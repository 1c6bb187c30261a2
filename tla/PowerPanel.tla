------------------------------ MODULE PowerPanel ------------------------------
(***************************************************************************)
(* The power panel (cc-power-panel.c): the batteries that the settings     *)
(* daemon tells, and a combo box for each power setting.                   *)
(*                                                                         *)
(* The daemon only says that something changed; the panel asks for the     *)
(* devices each time, and draws all of them when it is answered.  A combo  *)
(* box is set when the panel is opened and writes what is chosen in it.    *)
(* The handler of changes is not disconnected: while a question is under   *)
(* way it outlives the panel, and one more change is then `wild`.          *)
(***************************************************************************)
EXTENDS Integers, Sequences, SequencesExt, FiniteSetsExt

CONSTANTS
  Lists,     \* the devices the daemon may tell, in its order
  Combos,    \* each combo box: its values, those the machine can do, and when it is visible
  Followed,  \* combo boxes bound to their setting
  Outside,   \* values that no row has
  Starts,    \* devices, lid, whether the machine suspends, and settings at the start
  MaxActions, MaxChanges

VARIABLES
  panel,   \* devices drawn, combo boxes
  calls,   \* questions that were not answered
  world    \* the daemon, what it was asked and said, the settings and the counters

vars == <<panel, calls, world>>

None == "none"
NoDevice == [kind |-> None, state |-> None, low |-> FALSE, timed |-> FALSE]
Values(c) == Combos[c].rows

-----------------------------------------------------------------------------
(***************************************************************************)
(* Drawing the devices.                                                    *)
(***************************************************************************)
Using == {"discharging", "pending-discharge"}
Charging == {"charging", "pending-charge"}
BatteryText(d) ==
  CASE d.state \in Charging -> "charging"
    [] d.state \in Using -> IF d.timed /\ d.low THEN "caution" ELSE "using"
    [] ~d.timed /\ d.state \in {"full", "empty"} -> d.state
    [] OTHER -> "error"
UpsText(d) ==
  IF d.state = "discharging" THEN IF d.low THEN "caution" ELSE "using" ELSE "error"

BatteryPrimary(p, d) ==
  [p EXCEPT !.primary = d, !.text = BatteryText(d), !.warning = (BatteryText(d) = "caution"), !.addon = None]
UpsPrimary(p, d) == [p EXCEPT !.primary = d, !.text = UpsText(d), !.warning = TRUE, !.addon = None]
BatteryAdditional(p, d) == IF d.state \in {"full", "empty"} THEN [p EXCEPT !.addon = d.state] ELSE p

\* Two devices wide.  The first row is above the origin of the grid.
AddSecondary(p, d) == [p EXCEPT !.cells = Append(@, [at |-> <<Len(@) % 2, Len(@) \div 2 - 1>>, device |-> d])]

UpsDischarges(list) == \E i \in DOMAIN list : list[i].kind = "ups" /\ list[i].state = "discharging"
Draw(list, p, d) ==
  LET ups == UpsDischarges(list) IN
  CASE d.kind = "line" -> p
    [] d.kind = "ups" /\ ups -> UpsPrimary(p, d)
    [] d.kind = "battery" /\ ~ups -> IF p.primary = NoDevice THEN BatteryPrimary(p, d) ELSE BatteryAdditional(p, d)
    [] OTHER -> AddSecondary(p, d)
\* What was drawn goes, both boxes are hidden (with them the line of the second battery, which stays
\* as it was), and an error leaves it so.
Redraw(p, list) ==
  FoldLeft(LAMBDA q, d : Draw(list, q, d), [p EXCEPT !.primary = NoDevice, !.cells = <<>>], list)

-----------------------------------------------------------------------------
(***************************************************************************)
(* The panel is opened: batteries and lid are looked up once.              *)
(***************************************************************************)
IsSet(c, value) == IF value \in Values(c) THEN value ELSE None
Able(c, suspends) == Values(c) \ (IF suspends THEN {} ELSE Combos[c].suspends)
VisibleCombos(list, lid) ==
  LET batteries == \E i \in DOMAIN list : list[i].kind \in {"battery", "ups"}
  IN {c \in DOMAIN Combos : (Combos[c].battery => batteries) /\ (Combos[c].lid => lid)}
Init ==
  \E start \in Starts :
    /\ panel = [open |-> TRUE, proxy |-> "coming", primary |-> NoDevice, text |-> None, warning |-> FALSE,
                addon |-> None, cells |-> <<>>, wild |-> FALSE,
                combo |-> [k \in DOMAIN Combos |-> IsSet(k, start.set[k])],
                able |-> [k \in DOMAIN Combos |-> Able(k, start.suspends)],
                visible |-> VisibleCombos(start.devices, start.lid)]
    /\ calls = {}
    /\ world = [devices |-> start.devices, asked |-> <<>>, said |-> <<>>, next |-> 1, set |-> start.set, others |-> {},
                late |-> FALSE, acts |-> 0, changes |-> 0]

State == [p |-> panel, c |-> calls, w |-> world]
Becomes(s) == ~panel.wild /\ panel' = s.p /\ calls' = s.c /\ world' = s.w
ByUser(s) == panel.open /\ world.acts < MaxActions /\ Becomes([s EXCEPT !.w.acts = @ + 1])
ByOthers(s) == world.changes < MaxChanges /\ Becomes([s EXCEPT !.w.changes = @ + 1])

GetDevices(s) ==
  [s EXCEPT !.c = @ \cup {s.w.next}, !.w.asked = Append(@, s.w.next), !.w.next = @ + 1]

-----------------------------------------------------------------------------
(***************************************************************************)
(* What the user does.                                                     *)
(***************************************************************************)
ComboChanged(c, value) ==
  /\ c \in panel.visible /\ value \in panel.able[c] /\ value # panel.combo[c]
  /\ ByUser([State EXCEPT !.p.combo[c] = value, !.w.set[c] = value, !.w.others = @ \ {c}])
\* Another panel, or the link to that of the screen.  The questions are cancelled, and answered so
\* from the main loop.
Dispose == ByUser([State EXCEPT !.p.open = FALSE])

-----------------------------------------------------------------------------
(***************************************************************************)
(* Answers and signals.                                                    *)
(***************************************************************************)
GotPowerProxyCb(ok) ==
  /\ panel.open /\ panel.proxy = "coming"
  /\ Becomes(IF ok THEN GetDevices([State EXCEPT !.p.proxy = "ready"]) ELSE [State EXCEPT !.p.proxy = "failed"])
GetDevicesCb(s, list) == [s EXCEPT !.p = Redraw(@, list), !.w.late = FALSE]
\* The daemon does not answer in time: 200 ms for the first question.
GetDevicesFails(i) ==
  /\ panel.open /\ i \in calls
  /\ Becomes([State EXCEPT !.c = @ \ {i}, !.p = Redraw(@, <<>>), !.w.late = TRUE])
GetDevicesCancelled == ~panel.open /\ calls # {} /\ Becomes([State EXCEPT !.c = {}])
\* What the daemon says is read in its order; an answer that nobody waits for is dropped.
MessageRead ==
  /\ world.said # <<>> /\ (panel.open \/ calls # {})
  /\ LET s == [State EXCEPT !.w.said = Tail(@)]
         message == Head(world.said)
     IN Becomes(
          IF message.what = "changed"
          THEN IF panel.proxy # "ready" THEN s
               ELSE IF panel.open THEN GetDevices(s) ELSE [s EXCEPT !.p.wild = TRUE]
          ELSE IF message.id \notin calls \/ ~panel.open THEN s
          ELSE GetDevicesCb([s EXCEPT !.c = @ \ {message.id}], message.list))

-----------------------------------------------------------------------------
(***************************************************************************)
(* The daemon, and other programs.                                         *)
(***************************************************************************)
DaemonAnswers ==
  /\ world.asked # <<>>
  /\ Becomes([State EXCEPT
       !.w.asked = Tail(@),
       !.w.said = Append(@, [what |-> "devices", id |-> Head(world.asked), list |-> world.devices])])
DevicesChange(list) ==
  /\ list # world.devices
  /\ ByOthers([State EXCEPT !.w.devices = list, !.w.said = Append(@, [what |-> "changed"])])
SettingChanged(c, value) ==
  ByOthers([State EXCEPT !.w.set[c] = value, !.w.others = @ \cup ({c} \ Followed),
                         !.p.combo[c] = IF c \in Followed /\ panel.open THEN IsSet(c, value) ELSE @])

Next ==
  \/ \E c \in DOMAIN Combos :
       \/ \E value \in Values(c) : ComboChanged(c, value)
       \/ \E value \in Values(c) \cup Outside : SettingChanged(c, value)
  \/ Dispose
  \/ \E ok \in BOOLEAN : GotPowerProxyCb(ok)
  \/ \E i \in calls : GetDevicesFails(i)
  \/ GetDevicesCancelled \/ MessageRead
  \/ DaemonAnswers \/ (\E list \in Lists : DevicesChange(list))
Spec == Init /\ [][Next]_vars

-----------------------------------------------------------------------------
(***************************************************************************)
(* Properties.                                                             *)
(***************************************************************************)
Kinds(devices, kind) == Cardinality({i \in DOMAIN devices : devices[i].kind = kind})
Cells == [i \in DOMAIN panel.cells |-> panel.cells[i].device]

\* When everything is heard, the devices that are drawn are those of the daemon, however its changes,
\* the answers and those that came too late were mixed: a UPS is the primary device as soon as one
\* discharges, and else the first battery; every other device has a cell of its own.
DrawsTheDevices ==
  LET list == world.devices IN
  panel.open /\ panel.proxy = "ready" /\ calls = {} /\ world.said = <<>> /\ ~world.late =>
    /\ panel.primary = NoDevice <=> ~UpsDischarges(list) /\ Kinds(list, "battery") = 0
    /\ panel.primary # NoDevice => (panel.primary.kind = "ups" <=> UpsDischarges(list)) /\ panel.primary \in Range(list)
    /\ Kinds(Cells, "mouse") = Kinds(list, "mouse")
    /\ Kinds(Cells, "ups") = IF UpsDischarges(list) THEN 0 ELSE Kinds(list, "ups")
    /\ Kinds(Cells, "battery") = IF UpsDischarges(list) THEN Kinds(list, "battery") ELSE 0
    /\ \A i, j \in DOMAIN panel.cells : panel.cells[i].at = panel.cells[j].at => i = j

\* A warning is about the battery that is shown, not about one before, and so is the line of a second
\* battery.
WarnsOfTheShown ==
  panel.primary # NoDevice =>
    /\ panel.warning = (panel.primary.kind = "ups" \/ panel.text = "caution")
    /\ panel.addon # None => panel.primary.kind = "battery"

\* A combo box that tells a value tells that of its setting, unless another program wrote it since.
CombosTellSettings ==
  panel.open => \A c \in DOMAIN Combos :
    c \notin world.others => panel.combo[c] = IsSet(c, world.set[c])
=============================================================================
