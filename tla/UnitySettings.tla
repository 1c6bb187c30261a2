----------------------------- MODULE UnitySettings -----------------------------
(***************************************************************************)
(* The Unity half of the appearance panel (cc-appearance-panel.c): the     *)
(* launcher, the workspaces, the menus, the graphics mode and the theme.   *)
(*                                                                         *)
(* Launcher and workspaces are settings of a Compiz profile, and there are *)
(* two.  A grouped setting writes to both and reads from the current one;  *)
(* its handlers for the other are blocked.  A widget that is set from a    *)
(* setting runs the handler of a user's click, which writes.               *)
(***************************************************************************)
EXTENDS Integers, Sequences, SequencesExt

CONSTANTS
  Themes,       \* the themes that are installed
  Starts,       \* what the settings may be when the panel opens: sets of [set, fav]
  Outside,      \* what other programs write to a profile: pairs of a key and a value
  Favorites,    \* what the launcher itself makes of its favourites
  Icons,        \* where the user drags the scale of the icon size
  MaxActions, MaxChanges

VARIABLES
  panel,   \* the widgets, and the profile they read
  calls,   \* signals of settings, idle refreshes and the timer of the graphics mode
  world    \* the settings, the profile Compiz runs and the counters

vars == <<panel, calls, world>>

Normal == "unity"
LowGfx == "unity-lowgfx"
Profiles == {Normal, LowGfx}
Running == "unity://running-apps"
Desktop == "unity://desktop-icon"
Default == [icon |-> 48, sens |-> 2000, hide |-> 0, reveal |-> 0, h |-> 1, v |-> 1]

Clamp(v, low, high) == IF v < low THEN low ELSE IF v > high THEN high ELSE v

-----------------------------------------------------------------------------
(***************************************************************************)
(* Grouped settings, and the widgets set from them; s is [p, c, w].        *)
(***************************************************************************)
PeekDefault(s) == s.w.set[s.p.default]
\* Mutant: only the profile in use is written.
SetInDefault(s, key, v) == [s EXCEPT !.w.set[s.p.default] = [@ EXCEPT ![key] = v]]

SetValue(s, key, v) == [s EXCEPT !.w.set = [q \in Profiles |-> [@[q] EXCEPT ![key] = v]]]
SetDefaultProfile(p, profile) == IF profile \in Profiles THEN [p EXCEPT !.default = profile] ELSE p

\* The scale holds halves of even sizes: odd ones and ones out of range are written back.
IconChanged(s, v) ==
  IF v = s.p.icon THEN s ELSE SetValue([s EXCEPT !.p.icon = 2 * (v \div 2)], "icon", 2 * (v \div 2))
IconRefresh(s) == IconChanged(s, Clamp(PeekDefault(s).icon, 16, 64))
SensChanged(s, v) == IF v = s.p.sens THEN s ELSE SetValue([s EXCEPT !.p.sens = v], "sens", v)
SensRefresh(s) == SensChanged(s, Clamp(PeekDefault(s).sens, 200, 8000))

HideRefresh(s) ==
  LET v == PeekDefault(s).hide
      known == v \in {0, 1}
      t == IF known /\ v = 0 /\ s.p.switch.on THEN SetValue(s, "hide", 0) ELSE s
  IN [t EXCEPT !.p.switch = [on |-> IF known THEN v # 0 ELSE @.on, sens |-> known],
               !.p.revealSens = (v # 0), !.p.external = ~known]
\* The reveal controls stay usable when the launcher no longer hides.
HideChanged(s) ==
  IF ~s.p.switch.on /\ PeekDefault(s).hide # 0 THEN [s EXCEPT !.p.switch.on = TRUE]
  ELSE LET t == SetValue([s EXCEPT !.p.switch.on = ~@], "hide", IF s.p.switch.on THEN 0 ELSE 1)
       IN [HideRefresh(t) EXCEPT !.p.revealSens = TRUE]

\* The hidden third option is left as soon as it is chosen: its neighbour writes 0.
RevealRefresh(s) ==
  LET v == PeekDefault(s).reveal
      spot == IF v = 1 THEN 1 ELSE 0
      t == IF spot # s.p.reveal \/ v \notin {0, 1} THEN SetValue(s, "reveal", spot) ELSE s
  IN [t EXCEPT !.p.reveal = spot, !.p.external = ~t.p.switch.sens]

SizeRefresh(s) == IF <<"idle", "ws">> \in s.c THEN s ELSE [s EXCEPT !.c = @ \cup {<<"idle", "ws">>}]
WorkspacesChanged(s, on) ==
  LET n == IF on THEN 2 ELSE 1
      t == SetValue(SetValue([s EXCEPT !.p.workspaces = on], "h", n), "v", n)
  IN IF PeekDefault(t) # PeekDefault(s) THEN SizeRefresh(t) ELSE t
WorkspacesRefresh(s) ==
  LET on == PeekDefault(s).h > 1 \/ PeekDefault(s).v > 1
  IN IF on = s.p.workspaces THEN s ELSE WorkspacesChanged(s, on)

NewFavorites(fav, on) ==
  LET k == IF Contains(fav, Running) THEN CHOOSE i \in DOMAIN fav : fav[i] = Running ELSE Len(fav)
  IN IF ~on THEN SelectSeq(fav, LAMBDA f : f # Desktop)
     ELSE IF k = Len(fav) THEN Append(fav, Desktop)
     ELSE IF fav[k + 1] = Desktop THEN fav
     ELSE InsertAt(fav, k + 1, Desktop)
DesktopChanged(s, on) ==
  IF on = s.p.desktop THEN s ELSE [s EXCEPT !.p.desktop = on, !.w.fav = NewFavorites(@, on)]
DesktopRefresh(s) == DesktopChanged(s, Contains(s.w.fav, Desktop))

GfxRefresh(s) == [s EXCEPT !.p.gfx.low = (s.w.profile = LowGfx)]
ProfileChanged(s) ==
  IF s.w.profile \in Profiles THEN GfxRefresh([s EXCEPT !.p = SetDefaultProfile(@, s.w.profile)]) ELSE s

Refreshed(s, key) ==
  CASE key = "icon" -> IconRefresh(s)
    [] key = "sens" -> SensRefresh(s)
    [] key = "hide" -> HideRefresh(s)
    [] key = "reveal" -> RevealRefresh(s)
    [] key \in {"h", "v"} -> SizeRefresh(s)
    [] key = "fav" -> DesktopRefresh(s)
    [] key = "local" -> [s EXCEPT !.p.local = s.w.local]
    [] key = "always" -> [s EXCEPT !.p.always = s.w.always]
    [] key = "profile" -> ProfileChanged(s)

-----------------------------------------------------------------------------
(***************************************************************************)
(* The panel is opened: each widget is connected, then set.                *)
(***************************************************************************)
NewPanel(w) ==
  SetDefaultProfile(
    [default |-> Normal, icon |-> 48, sens |-> 2000, switch |-> [on |-> TRUE, sens |-> TRUE],
     revealSens |-> TRUE, external |-> FALSE, reveal |-> 1, workspaces |-> TRUE, desktop |-> FALSE,
     local |-> w.local, always |-> w.always, gfx |-> [low |-> FALSE, sens |-> TRUE],
     theme |-> w.theme.gtk], w.profile)
Setup(w) ==
  GfxRefresh(DesktopRefresh(WorkspacesRefresh(HideRefresh(SensRefresh(RevealRefresh(IconRefresh(
    [p |-> NewPanel(w), c |-> {}, w |-> w])))))))

Init ==
  \E start \in Starts, profile \in Profiles :
     LET w == [set |-> start.set, fav |-> start.fav, profile |-> profile, low |-> profile = LowGfx,
               local |-> FALSE, always |-> FALSE, acts |-> 0, changes |-> 0,
               theme |-> LET t == CHOOSE t \in Themes : TRUE IN [gtk |-> t, wm |-> t]]
     IN panel = Setup(w).p /\ calls = Setup(w).c /\ world = Setup(w).w

-----------------------------------------------------------------------------
(***************************************************************************)
(* What the user does.                                                     *)
(***************************************************************************)
State == [p |-> panel, c |-> calls, w |-> world]
Becomes(s) == panel' = s.p /\ calls' = s.c /\ world' = s.w
ByUser(s) == s.w.acts < MaxActions /\ Becomes([s EXCEPT !.w.acts = @ + 1])

IconDragged(v) == v # panel.icon /\ ByUser(IconChanged(State, v))
\* A scroll moves a scale by an eighth of its length.
IconScrolled(step) == ByUser(IconChanged(State, Clamp(panel.icon + 6 * step, 16, 64)))
SensScrolled(step) ==
  panel.revealSens /\ ByUser(SensChanged(State, Clamp(panel.sens + 975 * step, 200, 8000)))
AutohideClicked == panel.switch.sens /\ ByUser(HideChanged(State))
RevealClicked ==
  /\ panel.revealSens
  /\ ByUser(RevealRefresh(SetValue([State EXCEPT !.p.reveal = 1 - @], "reveal", 1 - panel.reveal)))
WorkspacesClicked == ByUser(WorkspacesChanged(State, ~panel.workspaces))
DesktopClicked == ByUser(DesktopChanged(State, ~panel.desktop))
MenuLocationClicked == ByUser([State EXCEPT !.p.local = ~@, !.w.local = ~panel.local])
MenuVisibilityClicked == ByUser([State EXCEPT !.p.always = ~@, !.w.always = ~panel.always])

\* The radio goes back to the profile that runs; it is looked at again after 200 ms.
GfxClicked ==
  /\ panel.gfx.sens
  /\ ByUser(GfxRefresh([State EXCEPT !.p.gfx.sens = FALSE, !.w.low = ~panel.gfx.low,
                                     !.c = @ \cup {<<"timer", "gfx">>}]))
GfxTimeout ==
  /\ <<"timer", "gfx">> \in calls
  /\ Becomes(GfxRefresh([State EXCEPT !.p.gfx.sens = TRUE, !.c = @ \ {<<"timer", "gfx">>}]))

\* The icon size is not among what is reset.
RestoreDefaults ==
  LET Reset(s, key) == SetValue(s, key, Default[key])
      r == FoldLeft(Reset, State, <<"hide", "sens", "reveal", "h", "v">>)
      s == RevealRefresh(SensRefresh(HideRefresh(
             [r EXCEPT !.w.local = FALSE, !.w.always = FALSE, !.w.low = FALSE,
                       !.p.local = FALSE, !.p.always = FALSE])))
  IN ByUser(DesktopChanged(IF PeekDefault(r).h # PeekDefault(State).h \/ PeekDefault(r).v # PeekDefault(State).v
                           THEN SizeRefresh(s) ELSE s, FALSE))

\* The combo does not follow the setting, and a theme whose file is gone changes nothing.
ThemeSelected(t, readable) ==
  /\ t # panel.theme
  /\ ByUser([State EXCEPT !.p.theme = t, !.w.theme = IF readable THEN [gtk |-> t, wm |-> t] ELSE @])

-----------------------------------------------------------------------------
(***************************************************************************)
(* Signals, and other programs.                                            *)
(***************************************************************************)
\* The signal of a profile that is not the one read is blocked.
SettingSignal(c) ==
  /\ c \in calls /\ c[1] \notin {"idle", "timer"}
  /\ LET s == [State EXCEPT !.c = @ \ {c}]
     IN Becomes(IF c[1] \in Profiles \ {panel.default} THEN s ELSE Refreshed(s, c[2]))
WorkspacesIdle ==
  /\ <<"idle", "ws">> \in calls
  /\ Becomes(WorkspacesRefresh([State EXCEPT !.c = @ \ {<<"idle", "ws">>}]))

Changed(s, c) == s.w.changes < MaxChanges /\ Becomes([s EXCEPT !.w.changes = @ + 1, !.c = @ \cup {c}])
ProfileWritten(q, o) ==
  world.set[q][o[1]] # o[2] /\ Changed([State EXCEPT !.w.set[q][o[1]] = o[2]], <<q, o[1]>>)
FavoritesWritten(fav) == fav # world.fav /\ Changed([State EXCEPT !.w.fav = fav], <<"own", "fav">>)
MenusWritten(key) == Changed([State EXCEPT !.w[key] = ~@], <<"own", key>>)
ThemeWritten(t) ==
  /\ t # world.theme.gtk /\ world.changes < MaxChanges
  /\ Becomes([State EXCEPT !.w.theme.gtk = t, !.w.changes = @ + 1])
\* Unity starts the other profile when the graphics mode says so.
ProfileFollows ==
  LET profile == IF world.low THEN LowGfx ELSE Normal
  IN /\ profile # world.profile
     /\ Becomes([State EXCEPT !.w.profile = profile, !.c = @ \cup {<<"own", "profile">>}])

Answers ==
  \/ \E c \in calls : SettingSignal(c)
  \/ WorkspacesIdle
  \/ GfxTimeout
UserActs ==
  \/ \E v \in Icons : IconDragged(v)
  \/ \E step \in {-1, 1} : IconScrolled(step) \/ SensScrolled(step)
  \/ AutohideClicked \/ RevealClicked \/ WorkspacesClicked \/ DesktopClicked
  \/ MenuLocationClicked \/ MenuVisibilityClicked \/ GfxClicked \/ RestoreDefaults
  \/ \E t \in Themes, readable \in BOOLEAN : ThemeSelected(t, readable)
Changes ==
  \/ \E q \in Profiles, o \in Outside : ProfileWritten(q, o)
  \/ \E fav \in Favorites : FavoritesWritten(fav)
  \/ \E key \in {"local", "always"} : MenusWritten(key)
  \/ \E t \in Themes : ThemeWritten(t)
  \/ ProfileFollows
Next == Answers \/ UserActs \/ Changes

-----------------------------------------------------------------------------
(***************************************************************************)
(* What the widgets keep to.                                               *)
(***************************************************************************)
\* Every setting is written to both profiles.
ProfilesAgree == world.changes = 0 => world.set[Normal] = world.set[LowGfx]
\* At rest the widgets show what is set in the profile they read.
WidgetsTellSettings ==
  LET d == world.set[panel.default] IN
  (calls = {} /\ world.changes = 0)
    => /\ panel.icon = d.icon /\ panel.sens = d.sens /\ panel.reveal = d.reveal
       /\ panel.switch.on = (d.hide # 0) /\ (panel.workspaces <=> d.h > 1)
\* At rest the check box of the graphics mode tells the profile in use.
ModeTellsProfile == calls = {} => (panel.gfx.low <=> world.profile = LowGfx)
\* The desktop icon is in the launcher at most once, and the box tells whether it is.
DesktopIconOnce ==
  /\ world.changes = 0 => \A i, j \in DOMAIN world.fav : (world.fav[i] = Desktop /\ world.fav[j] = Desktop) => i = j
  /\ calls = {} => (panel.desktop <=> Contains(world.fav, Desktop))
=============================================================================
