----------------------------- MODULE DisplayPanel -----------------------------
(***************************************************************************)
(* The displays panel (cc-display-panel.c) on the scroll area that draws   *)
(* the monitors (scrollarea.c).                                            *)
(*                                                                         *)
(* The panel edits a copy of the configuration of the outputs, which a     *)
(* change of the screen replaces.  Each edit rebuilds the widgets from the *)
(* copy, and filling a combo box selects a row, which runs the handler     *)
(* that a choice of the user runs: rebuilding writes settings, and may     *)
(* change the copy.  Apply saves the copy to a file, and asks the settings *)
(* daemon to make the screen like the file.                                *)
(***************************************************************************)
EXTENDS Integers, Sequences, FiniteSets, SequencesExt

CONSTANTS
  Order,        \* the outputs, in the order of the configuration
  Modes,        \* the modes [w, h] each output has
  Preferred,    \* its preferred mode
  Turns,        \* the rotations the hardware of each output knows
  Crtcs,        \* how many outputs can be lit at a time
  Moves,        \* how far a monitor may be dragged
  MaxActions,   \* how often the user edits
  MaxChanges    \* how often the screen or the settings change

VARIABLES
  panel,   \* the copy of the configuration and the widgets
  calls,   \* "apply" while ApplyConfiguration is not answered
  world    \* the screen, monitors.xml and its backup, the settings, the counters

vars == <<panel, calls, world>>

Outputs == ToSet(Order)
None == "none"
NoMode == [w |-> 0, h |-> 0]
NoGrab == [out |-> None, x |-> 0, y |-> 0, old |-> FALSE]
Size(o) == [w |-> o.w, h |-> o.h]
At(o, x, y) == [o EXCEPT !.x = x, !.y = y]
Sized(o, m) == [o EXCEPT !.w = m.w, !.h = m.h]
Active(c) == {id \in Outputs : c.outs[id].on}
Connected(c) == {id \in Outputs : c.outs[id].conn}
ActiveOrder(c) == SelectSeq(Order, LAMBDA id : c.outs[id].on)
FirstOf(S) == Order[CHOOSE i \in DOMAIN Order : Order[i] \in S /\ \A j \in 1..(i - 1) : Order[j] \notin S]
Largest(modes) == CHOOSE m \in modes : \A n \in modes : m.w * m.h >= n.w * n.h
Edit(p, id, o) == [p EXCEPT !.config.outs[id] = o]
Cur(p) == p.config.outs[p.cur]

-----------------------------------------------------------------------------
(***************************************************************************)
(* What the library of the settings daemon does.                           *)
(***************************************************************************)
\* Mutant: a dark output may keep the mark.
PrimaryStays(c) ==
  LET marked == {id \in Outputs : c.outs[id].prim}
      one == IF Active(c) = {} THEN None ELSE FirstOf(IF marked = {} THEN Active(c) ELSE marked)
  IN [c EXCEPT !.outs = [id \in Outputs |-> [@[id] EXCEPT !.prim = (id = one)]]]

\* At most one output keeps the mark, and a lit one has it.
EnsurePrimary(c) ==
  LET marked == {id \in Active(c) : c.outs[id].prim}
      one == IF Active(c) = {} THEN None ELSE FirstOf(IF marked = {} THEN Active(c) ELSE marked)
  IN [c EXCEPT !.outs = [id \in Outputs |-> [@[id] EXCEPT !.prim = (id = one)]]]
Sanitize(c) ==
  LET x0 == CHOOSE x \in {c.outs[id].x : id \in Active(c)} : \A id \in Active(c) : x <= c.outs[id].x
      y0 == CHOOSE y \in {c.outs[id].y : id \in Active(c)} : \A id \in Active(c) : y <= c.outs[id].y
  IN IF Active(c) = {} THEN c
     ELSE [c EXCEPT !.outs = [id \in Outputs |-> At(@[id], @[id].x - x0, @[id].y - y0)]]
Applicable(c, id, turn) == turn \in Turns[id] /\ (c.clone \/ Cardinality(Active(c)) <= Crtcs)
CloneModes(c) == {m \in UNION {Modes[id] : id \in Outputs} : \A id \in Connected(c) : m \in Modes[id]}

-----------------------------------------------------------------------------
(***************************************************************************)
(* Where the monitors are.                                                 *)
(***************************************************************************)
ApplyRotation(o) == IF o.rot = "left" THEN [w |-> o.h, h |-> o.w] ELSE Size(o)
Corners(o) == LET r == ApplyRotation(o) IN [x1 |-> o.x, y1 |-> o.y, x2 |-> o.x + r.w, y2 |-> o.y + r.h]
Intersect(o, q) ==
  LET a == Corners(o) b == Corners(q) IN a.x1 < b.x2 /\ b.x1 < a.x2 /\ a.y1 < b.y2 /\ b.y1 < a.y2
OutputOverlaps(c, id) == \E q \in Connected(c) \ {id} : Intersect(c.outs[id], c.outs[q])
ListEdges(o) ==
  LET r == Corners(o) IN
  {[r EXCEPT !.y2 = r.y1], [r EXCEPT !.y1 = r.y2], [r EXCEPT !.x2 = r.x1], [r EXCEPT !.x1 = r.x2]}
Overlap(s1, e1, s2, e2) == ~(e1 < s2 \/ s1 >= e2)
HorizontalOverlap(a, b) == a.y1 = a.y2 /\ b.y1 = b.y2 /\ Overlap(a.x1, a.x2, b.x1, b.x2)
VerticalOverlap(a, b) == a.x1 = a.x2 /\ b.x1 = b.x2 /\ Overlap(a.y1, a.y2, b.y1, b.y2)
Abs(i) == IF i < 0 THEN -i ELSE i
EdgeSnaps(a, b) ==
  LET along == IF HorizontalOverlap(a, b) THEN {<<0, b.y1 - a.y1>>}
               ELSE IF VerticalOverlap(a, b) THEN {<<b.x1 - a.x1, 0>>} ELSE {}
      corners == {<<b.x1 - a.x1, b.y1 - a.y1>>, <<b.x2 - a.x1, b.y2 - a.y1>>,
                  <<b.x2 - a.x2, b.y2 - a.y2>>, <<b.x1 - a.x2, b.y1 - a.y2>>}
  IN {s \in along \cup corners : Abs(s[1]) <= 200 \/ Abs(s[2]) <= 200}
ListSnaps(c, id) ==
  UNION {EdgeSnaps(a, b) : a \in ListEdges(c.outs[id]),
                           b \in UNION {ListEdges(c.outs[q]) : q \in Connected(c) \ {id}}}
CornerOnEdge(x, y, e) ==
  \/ x = e.x1 /\ x = e.x2 /\ y \in e.y1..e.y2
  \/ y = e.y1 /\ y = e.y2 /\ x \in e.x1..e.x2
EdgesAlign(a, b) == CornerOnEdge(a.x1, a.y1, b) \/ CornerOnEdge(b.x1, b.y1, a)
OutputIsAligned(c, id) ==
  \E q \in Connected(c) \ {id} : \E a \in ListEdges(c.outs[id]), b \in ListEdges(c.outs[q]) : EdgesAlign(a, b)
ConfigIsAligned(c) == \A id \in Connected(c) : OutputIsAligned(c, id) /\ ~OutputOverlaps(c, id)
\* compare_snaps: the nearest first, and of these the corners
Distance(s) == IF Abs(s[1]) > Abs(s[2]) THEN Abs(s[1]) ELSE Abs(s[2])
IsCornerSnap(s) == s[1] # 0 /\ s[2] # 0
Before(s, t) == Distance(s) < Distance(t) \/ (Distance(s) = Distance(t) /\ IsCornerSnap(s) /\ ~IsCornerSnap(t))

\* Mutant: the nearest edge, whatever lies there.
LandingsAnywhere(c, id, o, began) ==
  LET snaps == ListSnaps([c EXCEPT !.outs[id] = o], id)
      first == {s \in snaps : \A t \in snaps : ~Before(t, s)}
  IN IF snaps = {} THEN {o} ELSE {At(o, o.x + s[1], o.y + s[2]) : s \in first}

\* Where a monitor dragged to o lands: at the first snap that leaves all aligned, else where
\* the drag began; or just there, with no edge to snap to.
Landings(c, id, o, began) ==
  LET placed(q) == [c EXCEPT !.outs[id] = q]
      snaps == ListSnaps(placed(o), id)
      good == {s \in snaps : ConfigIsAligned(placed(At(o, o.x + s[1], o.y + s[2])))}
      first == {s \in good : \A t \in good : ~Before(t, s)}
  IN IF snaps = {} THEN {o}
     ELSE IF good = {} THEN {At(o, began.x, began.y)}
     ELSE {At(o, o.x + s[1], o.y + s[2]) : s \in first}
\* realign_outputs_after_resolution_change, along one axis: the start of another output, by the
\* edge the changed one had and its growth
Moved(start, length, edge, d) ==
  IF start >= edge THEN start + d ELSE IF start + length = edge THEN edge + d - length ELSE start
Realign(c, id, m) ==
  LET old == c.outs[id] IN
  [c EXCEPT !.outs = [q \in Outputs |->
     IF q = id THEN Sized(old, m)
     ELSE IF ~@[q].conn THEN @[q]
     ELSE At(@[q], Moved(@[q].x, @[q].w, old.x + old.w, m.w - old.w),
                   Moved(@[q].y, @[q].h, old.y + old.h, m.h - old.h))]]
LayOutHorizontally(c) ==
  LET ids == ActiveOrder(c) \o SelectSeq(Order, LAMBDA id : ~c.outs[id].on)
      left(id) == SubSeq(ids, 1, CHOOSE i \in DOMAIN ids : ids[i] = id)
      width(id) == FoldLeft(LAMBDA x, q : x + c.outs[q].w, 0, left(id)) - c.outs[id].w
  IN [c EXCEPT !.outs = [id \in Outputs |-> At(@[id], width(id), 0)]]

-----------------------------------------------------------------------------
(***************************************************************************)
(* Rebuilding the widgets.  s is [p |-> panel, w |-> world]: the handlers  *)
(* of the combo boxes run meanwhile.                                       *)
(***************************************************************************)
ShouldShow(o, m) ==
  /\ m.w >= (IF o.w < 675 THEN o.w ELSE 675)
  /\ m.h >= (IF o.h < 530 THEN o.h ELSE 530)
RebuildRotation(p) ==
  LET rows == {t \in {"normal", "left"} : Applicable(p.config, p.cur, t)}
      turn == IF Cur(p).rot \in rows THEN Cur(p).rot ELSE IF "normal" \in rows THEN "normal" ELSE "left"
  IN IF p.cur = None THEN [p EXCEPT !.rot = None]
     ELSE IF rows = {} THEN [p EXCEPT !.rot = None]
     ELSE [p EXCEPT !.rot = turn, !.config.outs[p.cur].rot = turn]
OnResolution(p, m) ==
  RebuildRotation([p EXCEPT !.res = m, !.config = [Realign(@, p.cur, m) EXCEPT !.outs[p.cur].on = TRUE]])
RebuildResolution(p) ==
  LET modes == IF p.config.clone THEN CloneModes(p.config) ELSE Modes[p.cur]
      rows == {m \in modes : ShouldShow(Cur(p), m)}
      size == Size(Cur(p))
  IN IF p.cur = None \/ ~Cur(p).on THEN [p EXCEPT !.res = NoMode]
     ELSE IF size \in rows THEN OnResolution(p, size)
     ELSE IF modes # {} /\ Largest(modes) \in rows THEN OnResolution(p, Largest(modes))
     ELSE [p EXCEPT !.res = NoMode]

CloneSize(c) == IF CloneModes(c) = {} THEN NoMode ELSE Largest(CloneModes(c))
MirrorIsSupported(c) ==
  CloneModes(c) # {} /\ Cardinality({id \in Connected(c) : CloneSize(c) \in Modes[id]}) >= 2
RebuildMirror(p) == [p EXCEPT !.mirror = (p.config.clone \/ MirrorIsSupported(p.config))]

RebuildOnOff(p) ==
  LET known == ~p.config.clone /\ p.cur # None
  IN [p EXCEPT !.switch = [on |-> (known /\ Cur(p).on),
                           sens |-> (known /\ (Cardinality(Active(p.config)) > 1 \/ ~Cur(p).on))]]

\* calculate_max_ui_scale: only the integer part of the factor contributes to the window size.
MaxScale(p, value) ==
  LET r == ApplyRotation(IF Cur(p).on THEN Cur(p) ELSE Sized(Cur(p), Preferred[p.cur]))
      smallest == 530 \div (IF value > 8 THEN value \div 8 ELSE 1)
  IN (r.h * 8) \div smallest
\* rebuild_ui_scale writes the entry of a monitor there was none for.
RebuildScale(s) ==
  LET old == s.w.scale[s.p.cur]
      value == IF old = 0 THEN 8 ELSE old
      upper == MaxScale(s.p, value)
  IN IF s.p.cur = None THEN s
     ELSE [p |-> [s.p EXCEPT !.scale = IF value > upper THEN upper ELSE value],
           w |-> [s.w EXCEPT !.scale[s.p.cur] = value]]

SetPrimary(c, one) == [c EXCEPT !.outs = [id \in Outputs |-> [@[id] EXCEPT !.prim = (id = one)]]]
\* on_launcher_placement_combo_changed: a row is an output that is lit, the last one is all.
OnLauncher(s, row) ==
  LET ids == ActiveOrder(s.p.config)
  IN [p |-> IF row <= Len(ids) THEN [s.p EXCEPT !.launcher = row, !.config = SetPrimary(@, ids[row])]
            ELSE [s.p EXCEPT !.launcher = row],
      w |-> [s.w EXCEPT !.launchers = IF row <= Len(ids) THEN 1 ELSE 0]]
RefreshLauncher(s) ==
  LET ids == ActiveOrder(s.p.config)
      marked == {i \in DOMAIN ids : s.p.config.outs[ids[i]].prim}
  IN OnLauncher(s, IF s.w.launchers = 0 THEN Len(ids) + 1
                   ELSE IF marked = {} THEN 1 ELSE CHOOSE i \in marked : \A j \in marked : i >= j)
\* on_ui_scale_monitor_combo_changed: after the outputs that are lit come the largest and
\* the smallest controls.
OnScaleMonitor(s, row) ==
  LET ids == ActiveOrder(s.p.config)
  IN [p |-> [s.p EXCEPT !.scaleRow = row],
      w |-> IF row <= Len(ids) THEN [s.w EXCEPT !.scaleMonitor = ids[row]]
            ELSE [s.w EXCEPT !.scaleMonitor = None, !.fallback = (row = Len(ids) + 1)]]
RefreshScaleMonitor(s) ==
  LET ids == ActiveOrder(s.p.config)
      rows == {i \in DOMAIN ids : ids[i] = s.w.scaleMonitor}
  IN OnScaleMonitor(s, IF rows # {} THEN CHOOSE i \in rows : TRUE
                       ELSE IF s.w.fallback THEN Len(ids) + 1 ELSE Len(ids) + 2)
RebuildGui(s) ==
  LET p == RebuildResolution(RebuildOnOff(RebuildMirror(s.p)))
  IN RefreshScaleMonitor(RefreshLauncher(RebuildScale([s EXCEPT !.p = RebuildRotation(p)])))

\* on_screen_changed: a new copy, whose current output is the one the window is on
OnScreenChanged(s, id) ==
  RebuildGui([p |-> [s.p EXCEPT !.config = EnsurePrimary(s.w.hw), !.cur = id, !.labels = FALSE,
                                !.grab.old = (@ \/ s.p.grab.out # None)],
              w |-> [s.w EXCEPT !.news = FALSE]])

-----------------------------------------------------------------------------
(***************************************************************************)
(* The user.  While Apply is not answered the panel is insensitive.        *)
(***************************************************************************)
UserMakes(s) ==
  /\ ~panel.crashed /\ world.actions < MaxActions
  /\ panel' = s.p
  /\ world' = [s.w EXCEPT !.actions = @ + 1]
  /\ UNCHANGED calls
UserEdits(s) == panel.sens /\ panel.grab = NoGrab /\ ~panel.bar /\ UserMakes(s)
Now(p) == [p |-> p, w |-> world]
Movable == ~panel.config.clone /\ Cardinality(Connected(panel.config)) > 1

\* on_output_event, when a monitor is pressed; in mirror mode only the first is painted.
OutputPressed(id) ==
  /\ id \in Connected(panel.config)
  /\ panel.config.clone => id = FirstOf(Connected(panel.config))
  /\ LET s == RebuildGui(Now([panel EXCEPT !.cur = id]))
         o == s.p.config.outs[id]
     IN UserEdits(IF Movable THEN [s EXCEPT !.p.grab = [out |-> id, x |-> o.x, y |-> o.y, old |-> FALSE]] ELSE s)
\* ... and while it is dragged, or released
OutputMoved(d, released) ==
  /\ panel.grab.out # None /\ ~panel.grab.old
  /\ LET id == panel.grab.out
         to == At(panel.config.outs[id], panel.grab.x + d[1], panel.grab.y + d[2])
     IN \E o \in Landings(panel.config, id, to, panel.grab) :
          UserMakes(Now([Edit(panel, id, o) EXCEPT !.grab = IF released THEN NoGrab ELSE @]))
\* The output being dragged went away with the configuration it belongs to.
FreedOutputMoved ==
  /\ panel.grab.old /\ ~panel.crashed
  /\ panel' = [panel EXCEPT !.crashed = TRUE] /\ UNCHANGED <<calls, world>>
\* on_top_bar_event: the bar marks the primary output, or all outputs.
TopBarPressed ==
  LET s == RebuildGui(Now(panel))
  IN /\ Movable
     /\ UserEdits([s EXCEPT !.p.bar = TRUE])
DragHover(id) ==
  /\ panel.bar /\ id \in Active(panel.config)
  /\ UserMakes(RefreshLauncher(Now([panel EXCEPT !.config = SetPrimary(@, id)])))
TopBarReleased ==
  /\ panel.bar
  /\ panel' = [panel EXCEPT !.bar = FALSE] /\ UNCHANGED <<calls, world>>

MonitorSwitchActive ==
  /\ panel.switch.sens
  /\ LET o == Cur(panel)
         lit == Edit(panel, panel.cur, [Sized(o, Preferred[panel.cur]) EXCEPT !.on = TRUE])
         dark == Edit(panel, panel.cur, [o EXCEPT !.on = FALSE])
     IN UserEdits(RebuildGui(Now(IF panel.switch.on THEN [dark EXCEPT !.config = EnsurePrimary(@)] ELSE lit)))
OnResolutionChanged(m) ==
  /\ panel.res \notin {NoMode, m}
  /\ m \in (IF panel.config.clone THEN CloneModes(panel.config) ELSE Modes[panel.cur])
  /\ UserEdits(Now(OnResolution(panel, m)))
OnRotationChanged(t) ==
  /\ panel.rot \notin {None, t} /\ Cur(panel).on /\ Applicable(panel.config, panel.cur, t)
  /\ UserEdits(Now([panel EXCEPT !.rot = t, !.config.outs[panel.cur].rot = t]))
OnCloneChanged ==
  LET c == panel.config
      fits(id) == c.outs[id].conn /\ CloneSize(c) \in Modes[id]
      on == [panel EXCEPT
               !.cur = FirstOf(Connected(c)),
               !.config = [clone |-> TRUE,
                           outs |-> [id \in Outputs |->
                                       IF fits(id) THEN [Sized(c.outs[id], CloneSize(c)) EXCEPT !.on = TRUE]
                                       ELSE c.outs[id]]]]
      off == [panel EXCEPT !.config = [(IF OutputOverlaps(c, panel.cur) THEN LayOutHorizontally(c) ELSE c)
                                         EXCEPT !.clone = FALSE]]
  IN /\ panel.mirror
     /\ UserEdits(RebuildGui(Now(IF c.clone THEN off ELSE on)))
\* on_ui_scale_button_press and on_ui_scale_button_release
UiScaleReleased(value) ==
  /\ panel.cur # None /\ value # panel.scale /\ value <= MaxScale(panel, world.scale[panel.cur])
  /\ UserEdits([p |-> [panel EXCEPT !.scale = value], w |-> [world EXCEPT !.scale[panel.cur] = value]])
OnLauncherChanged(row) ==
  /\ ~panel.config.clone
  /\ row \in 1..(Cardinality(Active(panel.config)) + 1) \ {panel.launcher}
  /\ UserEdits(OnLauncher(Now(panel), row))
OnScaleMonitorChanged(row) ==
  /\ ~panel.config.clone
  /\ row \in 1..(Cardinality(Active(panel.config)) + 2) \ {panel.scaleRow}
  /\ UserEdits(OnScaleMonitor(Now(panel), row))

\* gsd_rr_config_save keeps what the file had as its backup.
Save(w, c) == [w EXCEPT !.files = IF @ = <<>> THEN <<c>> ELSE <<c, Head(@)>>]
\* ensure_current_configuration_is_saved: what is in effect is saved first, so that the next save
\* makes a backup of it; nobody hears of it when that fails.
EnsureCurrentIsSaved(w, kept) ==
  LET c == EnsurePrimary(w.hw)
  IN IF kept THEN [Save(w, c) EXCEPT !.was = <<c>>] ELSE [w EXCEPT !.was = <<>>]
\* begin_version2_apply_configuration may not reach the session bus; the panel stays insensitive then.
BeginApply(proxy) == IF proxy THEN {"apply"} ELSE {}
Apply(kept, saved, proxy) ==
  LET c == EnsurePrimary(Sanitize(panel.config))
      before == EnsureCurrentIsSaved(world, kept)
      w == IF saved THEN Save(before, c) ELSE before
  IN /\ ~panel.crashed /\ panel.sens /\ panel.grab = NoGrab /\ ~panel.bar
     /\ world.actions < MaxActions
     /\ panel' = [panel EXCEPT !.config = c, !.sens = ~saved]
     /\ world' = [w EXCEPT !.actions = @ + 1]
     /\ calls' = IF saved THEN BeginApply(proxy) ELSE {}

-----------------------------------------------------------------------------
(***************************************************************************)
(* The settings daemon, the X server and the settings.                     *)
(***************************************************************************)
FocusChanged ==
  /\ ~panel.crashed /\ world.changes < MaxChanges
  /\ panel' = [panel EXCEPT !.labels = ~world.focus]
  /\ world' = [world EXCEPT !.focus = ~@, !.changes = @ + 1]
  /\ UNCHANGED calls
ScreenChanged ==
  /\ world.news /\ ~panel.crashed
  /\ \E id \in Active(world.hw) :
       LET s == OnScreenChanged(Now(panel), id) IN panel' = s.p /\ world' = s.w
  /\ UNCHANGED calls
\* The daemon makes the screen like the file, once.
DaemonApplies ==
  /\ calls = {"apply"} /\ world.hw # world.files[1] /\ Active(world.files[1]) \subseteq Connected(world.hw)
  /\ world' = [world EXCEPT !.hw = world.files[1], !.news = TRUE]
  /\ UNCHANGED <<panel, calls>>
\* ApplyConfigurationReturned: confirmed or failed
ApplyConfigurationReturned ==
  /\ calls = {"apply"} /\ ~panel.crashed
  /\ panel' = [panel EXCEPT !.sens = TRUE]
  /\ calls' = {}
  /\ UNCHANGED world
ScreenBecomes(c) ==
  /\ world.changes < MaxChanges
  /\ world' = [world EXCEPT !.hw = c, !.news = TRUE, !.changes = @ + 1]
  /\ UNCHANGED <<panel, calls>>
Unplugged(id) ==
  /\ world.hw.outs[id].on /\ Cardinality(Active(world.hw)) > 1
  /\ ScreenBecomes(EnsurePrimary([world.hw EXCEPT !.clone = FALSE, !.outs[id].conn = FALSE, !.outs[id].on = FALSE]))
Plugged(id) ==
  /\ ~world.hw.outs[id].conn
  /\ ScreenBecomes([world.hw EXCEPT !.outs[id].conn = TRUE])
\* another tool
SettingsChange(s) ==
  /\ ~panel.crashed /\ world.changes < MaxChanges
  /\ panel' = s.p /\ world' = [s.w EXCEPT !.changes = @ + 1]
  /\ UNCHANGED calls
ExtLauncherChanged ==
  LET s == [Now(panel) EXCEPT !.w.launchers = 1 - @]
      shown == IF panel.launcher = Cardinality(Active(panel.config)) + 1 THEN 0 ELSE 1
  IN SettingsChange(IF s.w.launchers # shown THEN RefreshLauncher(s) ELSE s)
ExtScaleMonitorChanged(id) ==
  /\ id # world.scaleMonitor
  /\ SettingsChange(RefreshScaleMonitor([Now(panel) EXCEPT !.w.scaleMonitor = id]))

-----------------------------------------------------------------------------
Lit(id, x) == [conn |-> TRUE, on |-> TRUE, x |-> x, y |-> 0, w |-> Preferred[id].w, h |-> Preferred[id].h,
               rot |-> "normal", prim |-> FALSE]
\* The panel opens on outputs side by side, all lit or only the first.
FirstConfig(all) ==
  LET c == [clone |-> FALSE, outs |-> [id \in Outputs |-> [Lit(id, 0) EXCEPT !.on = (all \/ id = Order[1])]]]
  IN EnsurePrimary(LayOutHorizontally(c))
Init ==
  \E all \in BOOLEAN : \E id \in Active(FirstConfig(all)) :
    LET p == [config |-> FirstConfig(all), cur |-> None, sens |-> TRUE, grab |-> NoGrab, bar |-> FALSE,
              labels |-> FALSE, switch |-> [on |-> FALSE, sens |-> FALSE], mirror |-> FALSE, res |-> NoMode,
              rot |-> None, launcher |-> 0, scaleRow |-> 0, scale |-> 0, crashed |-> FALSE]
        w == [hw |-> FirstConfig(all), news |-> FALSE, files |-> <<>>, was |-> <<>>, launchers |-> 1,
              scaleMonitor |-> None, fallback |-> TRUE, scale |-> [i \in Outputs |-> 0], focus |-> FALSE,
              actions |-> 0, changes |-> 0]
        s == OnScreenChanged([p |-> p, w |-> w], id)
    IN panel = s.p /\ world = s.w /\ calls = {}

Answers == ApplyConfigurationReturned
Next ==
  \/ \E id \in Outputs : OutputPressed(id) \/ DragHover(id) \/ Unplugged(id) \/ Plugged(id) \/ ExtScaleMonitorChanged(id)
  \/ \E d \in Moves : \E released \in BOOLEAN : OutputMoved(d, released)
  \/ FreedOutputMoved \/ TopBarPressed \/ TopBarReleased \/ MonitorSwitchActive \/ OnCloneChanged
  \/ \E m \in UNION {Modes[id] : id \in Outputs} : OnResolutionChanged(m)
  \/ \E t \in {"normal", "left"} : OnRotationChanged(t)
  \/ \E value \in {8, 16} : UiScaleReleased(value)
  \/ \E row \in 1..(Len(Order) + 2) : OnLauncherChanged(row) \/ OnScaleMonitorChanged(row)
  \/ \E kept, saved, proxy \in BOOLEAN : Apply(kept, saved, proxy)
  \/ FocusChanged \/ ScreenChanged \/ DaemonApplies \/ ExtLauncherChanged \/ Answers

-----------------------------------------------------------------------------
(***************************************************************************)
(* What the copy, the file and the widgets keep to.                        *)
(***************************************************************************)
\* Neither the copy nor a file it is saved to leaves all monitors dark.
SomeMonitorIsLit == Active(panel.config) # {} /\ \A i \in DOMAIN world.files : Active(world.files[i]) # {}
\* One of the monitors that are lit is the primary one.
OnePrimary == Cardinality({id \in Active(panel.config) : panel.config.outs[id].prim}) = 1
\* The rows that are chosen tell the size, the rotation and the primary output of the copy.
WidgetsMatchConfig ==
  LET ids == ActiveOrder(panel.config) IN
  /\ (panel.cur # None /\ Cur(panel).on) =>
       (panel.res \in {NoMode, Size(Cur(panel))} /\ panel.rot \in {None, Cur(panel).rot})
  /\ panel.launcher \in DOMAIN ids => panel.config.outs[ids[panel.launcher]].prim
\* The last monitor that is lit cannot be switched off.
LastMonitorStays == (panel.switch.sens /\ panel.switch.on) => \E id \in Active(panel.config) : id # panel.cur
\* While the daemon applies a file, the backup it can go back to is what was in effect when the
\* user clicked, unless that could not be saved.
BackupIsThere == (calls # {} /\ world.was # <<>>) => Tail(world.files) = world.was
\* Dragging a monitor never puts it on another one (is_output_aligned is asked for each snap).
Apart(c) == \A a, b \in Connected(c) : a # b => ~Intersect(c.outs[a], c.outs[b])
DragKeepsApart ==
  (\E d \in Moves, released \in BOOLEAN : OutputMoved(d, released)) => (Apart(panel.config) => Apart(panel.config)')
=============================================================================
