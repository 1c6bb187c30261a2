-------------------------------- MODULE Shell --------------------------------
(***************************************************************************)
(* The window of the control centre (gnome-control-center.c) and the       *)
(* command lines it is sent (control-center.c, one process for all).       *)
(*                                                                         *)
(* The notebook has the overview, the results of a search, and at most one *)
(* panel.  Choosing a panel makes it before the old one is destroyed.      *)
(* What is listed may also be a program of its own, which is started       *)
(* instead of a panel: the old panel is destroyed, but not forgotten.      *)
(***************************************************************************)
EXTENDS Integers, FiniteSets

CONSTANTS
  Plugins,    \* the panels that are plug-ins
  Programs,   \* those that are programs of their own
  Unknown,    \* names on the command line that no menu lists
  Early,      \* plug-ins that put widgets into the header while they are made
  Late,       \* ... and those that do when they are idle
  Menus,      \* what the menu may list
  Matches,    \* what each text that may be typed finds
  MaxActions  \* how much the user does

VARIABLES
  panel,   \* the window, the panel it shows and what it remembers
  calls,   \* the panels with an idle callback for the header
  world    \* the menu, and the search text that the command line left

vars == <<panel, calls, world>>

None == "none"

\* shell_show_overview_page
ShowOverviewPage(p) ==
  [p EXCEPT !.page = "overview", !.boxes = @ \ {p.box}, !.box = None, !.id = None,
            !.filter = "", !.entry = "", !.told = None, !.active = None, !.header = {}]
\* search_entry_changed_cb
SearchEntryChanged(p, text) ==
  IF text = p.filter THEN [p EXCEPT !.entry = text]
  ELSE IF text = "" THEN ShowOverviewPage(p)
  ELSE [p EXCEPT !.entry = text, !.filter = text, !.page = "search"]

\* Mutant: the panel before is not destroyed.
ActivateBeside(p, id) ==
  [p EXCEPT !.page = "panel", !.boxes = @ \cup {id}, !.box = id, !.id = id,
            !.active = id, !.told = id, !.header = {id} \cap Early]

\* activate_panel and what _shell_set_active_panel_from_id does about the old panel; `told` is
\* what title, icon, path and lock button are about.
ActivatePanel(p, id) ==
  [p EXCEPT !.page = "panel", !.boxes = (@ \ {p.box}) \cup {id}, !.box = id, !.id = id,
            !.active = id, !.told = id, !.header = {id} \cap Early]
ActivationFails(p) == [p EXCEPT !.page = "overview", !.boxes = @ \ {p.box}, !.box = None, !.header = {}]
SetActivePanelFromId(id) ==
  IF id = panel.id THEN UNCHANGED <<panel, calls>>
  ELSE IF id \notin world.menu THEN panel' = [panel EXCEPT !.header = {}] /\ UNCHANGED calls
  ELSE IF id \in Plugins THEN panel' = ActivatePanel(panel, id) /\ calls' = {id} \cap Late
  ELSE panel' = ActivationFails(panel) /\ calls' = {}

-----------------------------------------------------------------------------
UserMakes ==
  /\ world.actions < MaxActions
  /\ world' = [world EXCEPT !.actions = @ + 1]
\* home_button_clicked_cb
HomeButtonClicked == UserMakes /\ panel' = ShowOverviewPage(panel) /\ calls' = {}
\* window_key_press_event: Ctrl+W, Alt+Up and Back
KeyBack == panel.page # "overview" /\ HomeButtonClicked
\* The entry is hidden while a panel is shown.
SearchTyped(text) ==
  /\ panel.page # "panel" /\ text # panel.entry
  /\ UserMakes /\ panel' = SearchEntryChanged(panel, text) /\ UNCHANGED calls
\* item_activated_cb
ItemActivated(id) ==
  /\ panel.page = "overview" /\ id \in world.menu
  /\ UserMakes /\ SetActivePanelFromId(id)
\* on_search_row_activated
SearchRowActivated(id) ==
  /\ panel.page = "search" /\ id \in world.menu \cap Matches[panel.filter]
  /\ UserMakes /\ SetActivePanelFromId(id)

\* application_command_line_cb forgets every option but the text to search for.
SetSearchItem(text) ==
  panel' = SearchEntryChanged(ShowOverviewPage(panel), text) /\ calls' = {}
CommandLine(search, overview, id) ==
  /\ world.actions < MaxActions
  /\ LET text == IF search # "" THEN search ELSE world.search IN
       /\ world' = [world EXCEPT !.actions = @ + 1, !.search = text]
       /\ IF text # "" THEN SetSearchItem(text)
          ELSE IF overview THEN panel' = ShowOverviewPage(panel) /\ calls' = {}
          ELSE IF id # None THEN SetActivePanelFromId(id)
          ELSE UNCHANGED <<panel, calls>>

\* The idle callback of a panel (network_add_shell_header_widgets_cb), dropped with the panel
AddHeaderWidgets(id) ==
  /\ id \in calls
  /\ panel' = [panel EXCEPT !.header = @ \cup {id}]
  /\ calls' = calls \ {id}
  /\ UNCHANGED world
\* on_menu_changed; a panel that is shown stays.
MenuChanged(menu) ==
  /\ menu # world.menu /\ world.actions < MaxActions
  /\ world' = [world EXCEPT !.menu = menu, !.actions = @ + 1]
  /\ UNCHANGED <<panel, calls>>

-----------------------------------------------------------------------------
Init ==
  /\ panel = [page |-> "overview", boxes |-> {}, box |-> None, id |-> None, active |-> None,
              told |-> None, header |-> {}, filter |-> "", entry |-> ""]
  /\ calls = {}
  /\ \E menu \in Menus : world = [menu |-> menu, search |-> "", actions |-> 0]

Texts == DOMAIN Matches
Ids == Plugins \cup Programs \cup Unknown
Next ==
  \/ HomeButtonClicked \/ KeyBack
  \/ \E text \in Texts : SearchTyped(text)
  \/ \E id \in Plugins \cup Programs : ItemActivated(id) \/ SearchRowActivated(id)
  \/ \E search \in Texts, overview \in BOOLEAN, id \in Ids \cup {None} : CommandLine(search, overview, id)
  \/ \E id \in Late : AddHeaderWidgets(id)
  \/ \E menu \in Menus : MenuChanged(menu)

-----------------------------------------------------------------------------
(***************************************************************************)
(* What the window keeps to.                                               *)
(***************************************************************************)
\* The notebook has the panel that is shown and no other, and the window is about that panel.
OnePanelIsShown ==
  /\ panel.boxes = {panel.box} \ {None}
  /\ panel.page = "panel" <=> panel.box # None
  /\ panel.page = "panel" => (panel.id = panel.box /\ panel.active = panel.box /\ panel.told = panel.box)
\* No panel leaves its widgets in the header of another, nor puts them there when it is gone.
HeaderOfThePanel == panel.header \cup calls \subseteq {panel.box} \ {None}
=============================================================================
