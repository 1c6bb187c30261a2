--------------------------- MODULE AirplaneSwitch ---------------------------
(***************************************************************************)
(* The airplane mode switch in the header of the network panel             *)
(* (cc-network-panel.c): a table of the radio switches, kept by the events *)
(* of rfkill, and a switch that is on when all of them are blocked.  The   *)
(* user's click writes to all switches, and their answers come back one    *)
(* by one.                                                                 *)
(***************************************************************************)
EXTENDS Rfkill

CONSTANTS
  Radios,       \* the numbers a radio switch may have
  MaxActions,   \* how often the user clicks
  MaxChanges    \* how often a switch comes, goes or is slid

VARIABLES
  panel,   \* the table and the switch
  calls,   \* unused: a write is synchronous
  world    \* the kernel, the counters

vars == <<panel, calls, world>>

AllBlocked(table) == \A i \in DOMAIN table : table[i]

\* Mutant: a switch that is gone stays in the table.
AppliedAsChange(table, e) ==
  [j \in DOMAIN table \cup {e.idx} |-> IF j = e.idx THEN Blocked(e) ELSE table[j]]

\* rfkill_changed: what one event does to the table
Applied(table, e) ==
  IF e.op = "DEL" THEN [j \in DOMAIN table \ {e.idx} |-> table[j]]
  ELSE [j \in DOMAIN table \cup {e.idx} |-> IF j = e.idx THEN Blocked(e) ELSE table[j]]
RfkillChanged(p, events) ==
  LET table == FoldLeft(Applied, p.table, events)
  IN IF events = <<>> THEN p ELSE [p EXCEPT !.table = table, !.on = AllBlocked(table)]

\* cc_network_panel_notify_enable_active_cb, when the user clicks
NotifyEnableActive ==
  /\ world.actions < MaxActions
  /\ panel.shown
  /\ panel' = [panel EXCEPT !.on = ~@]
  /\ world' = [world EXCEPT !.kernel = ChangeAll(@, Radios, ~panel.on), !.actions = @ + 1]
  /\ UNCHANGED calls
EventsRead ==
  /\ panel.shown
  /\ \E n \in 1..Len(world.kernel.events) :
       /\ panel' = RfkillChanged(panel, Reading(world.kernel, n))
       /\ world' = [world EXCEPT !.kernel = Read(@, n)]
  /\ UNCHANGED calls
\* network_add_shell_header_widgets_cb, from the idle loop
AddShellHeaderWidgets ==
  /\ ~panel.shown
  /\ panel' = RfkillChanged([panel EXCEPT !.shown = TRUE], Added(world.kernel.sw))
  /\ world' = [world EXCEPT !.kernel.events = <<>>]
  /\ UNCHANGED calls

Becomes(k) ==
  /\ world.changes < MaxChanges
  /\ world' = [world EXCEPT !.kernel = k, !.changes = @ + 1]
  /\ UNCHANGED <<panel, calls>>
RadioChanges(i) ==
  IF i \in DOMAIN world.kernel.sw
  THEN \/ Becomes(Unplug(world.kernel, i))
       \/ Becomes(Slide(world.kernel, i))
       \/ \E soft \in BOOLEAN : Becomes(ChangeAll(world.kernel, {i}, soft))
  ELSE \E soft \in BOOLEAN : Becomes(Plug(world.kernel, i, soft))

Init ==
  \E present \in SUBSET Radios : \E sw \in [present -> [soft : BOOLEAN, hard : BOOLEAN]] :
    /\ world = [kernel |-> [sw |-> sw, events |-> <<>>], actions |-> 0, changes |-> 0]
    /\ panel = [shown |-> FALSE, table |-> <<>>, on |-> FALSE]
    /\ calls = {}
Answers == EventsRead \/ AddShellHeaderWidgets
Next == NotifyEnableActive \/ Answers \/ \E i \in Radios : RadioChanges(i)

-----------------------------------------------------------------------------
(***************************************************************************)
(* What the switch tells.                                                  *)
(***************************************************************************)
\* Once the events are read the table is what the kernel says of each radio...
TableIsCurrent ==
  (panel.shown /\ world.kernel.events = <<>>) => panel.table = [i \in DOMAIN world.kernel.sw |-> Blocked(world.kernel.sw[i])]
\* ... and the switch says airplane mode only when no radio is left on.
AirplaneMeansSilence ==
  (panel.shown /\ world.kernel.events = <<>> /\ panel.on) => \A i \in DOMAIN world.kernel.sw : Blocked(world.kernel.sw[i])
=============================================================================
