---------------------------- MODULE ControlCenter ----------------------------
(***************************************************************************)
(* The window, and the panels beside one another.  The window shows one    *)
(* panel at a time (module Shell) and panels share nothing but the         *)
(* services they talk to, so a behaviour is one life of the window or of   *)
(* one panel, in the world that it finds.  The Bluetooth assistant and the *)
(* options of a printer have lives of their own too.                       *)
(***************************************************************************)
EXTENDS Integers, Sequences, PanelState

CONSTANT Panels   \* what may be opened

VARIABLE shown   \* what is open

vars == <<shown, panel, calls, world>>

Airplane == INSTANCE AirplaneSwitch WITH
  Radios <- Config.airplane.Radios, MaxActions <- Config.airplane.MaxActions,
  MaxChanges <- Config.airplane.MaxChanges
Bluetooth == INSTANCE BluetoothPanel WITH
  Adapters <- Config.bluetooth.Adapters, Devices <- Config.bluetooth.Devices,
  AdapterOf <- Config.bluetooth.AdapterOf, SwitchOf <- Config.bluetooth.SwitchOf,
  MaxActions <- Config.bluetooth.MaxActions, MaxChanges <- Config.bluetooth.MaxChanges
Pairing == INSTANCE BluetoothWizard WITH
  Devices <- Config.pairing.Devices, Legacy <- Config.pairing.Legacy, KnownPin <- Config.pairing.KnownPin,
  MaxActions <- Config.pairing.MaxActions, MaxAsks <- Config.pairing.MaxAsks
Display == INSTANCE DisplayPanel WITH
  Order <- Config.display.Order, Modes <- Config.display.Modes, Preferred <- Config.display.Preferred,
  Turns <- Config.display.Turns, Crtcs <- Config.display.Crtcs, Moves <- Config.display.Moves,
  MaxActions <- Config.display.MaxActions, MaxChanges <- Config.display.MaxChanges
Keyboard == INSTANCE KeyboardShortcuts WITH
  Ranked <- Config.keyboard.Ranked, Group <- Config.keyboard.Group, Manager <- Config.keyboard.Manager,
  Managers <- Config.keyboard.Managers, Entries <- Config.keyboard.Entries, Paths <- Config.keyboard.Paths,
  Hashed <- Config.keyboard.Hashed, Bound <- Config.keyboard.Bound, Bindings <- Config.keyboard.Bindings, Plain <- Config.keyboard.Plain,
  Tap <- Config.keyboard.Tap, Whitelist <- Config.keyboard.Whitelist, FirstXkb <- Config.keyboard.FirstXkb,
  Commands <- Config.keyboard.Commands, Locked <- Config.keyboard.Locked,
  MaxActions <- Config.keyboard.MaxActions, MaxChanges <- Config.keyboard.MaxChanges
Sources == INSTANCE RegionInput WITH
  Layouts <- Config.sources.Layouts, Engines <- Config.sources.Engines, Strange <- Config.sources.Strange,
  Combos <- Config.sources.Combos, Plain <- Config.sources.Plain, Starts <- Config.sources.Starts,
  UseIBus <- Config.sources.UseIBus, MaxActions <- Config.sources.MaxActions,
  MaxChanges <- Config.sources.MaxChanges
Locale == INSTANCE RegionLocale WITH
  Archive <- Config.locale.Archive, Directory <- Config.locale.Directory, Aliases <- Config.locale.Aliases,
  Accepted <- Config.locale.Accepted, Utf8 <- Config.locale.Utf8, Translated <- Config.locale.Translated,
  Displayable <- Config.locale.Displayable, KnownLanguages <- Config.locale.KnownLanguages,
  KnownTerritories <- Config.locale.KnownTerritories, Width <- Config.locale.Width,
  Offered <- Config.locale.Offered, English <- Config.locale.English, EnglishUS <- Config.locale.EnglishUS,
  Converted <- Config.locale.Converted, Inputs <- Config.locale.Inputs,
  FirstInputs <- Config.locale.FirstInputs,
  MaxActions <- Config.locale.MaxActions, MaxChanges <- Config.locale.MaxChanges
Options == INSTANCE PrinterOptions WITH
  IppOptions <- Config.options.IppOptions, PpdOptions <- Config.options.PpdOptions,
  ChoicesOf <- Config.options.ChoicesOf, Groups <- Config.options.Groups,
  GroupTab <- Config.options.GroupTab, KeywordTab <- Config.options.KeywordTab,
  Blacklist <- Config.options.Blacklist, Drivers <- Config.options.Drivers, Normal <- Config.options.Normal,
  Known <- Config.options.Known, Manufacturers <- Config.options.Manufacturers,
  CommandLists <- Config.options.CommandLists, MaxActions <- Config.options.MaxActions,
  MaxChanges <- Config.options.MaxChanges
Unity == INSTANCE UnitySettings WITH
  Themes <- Config.unity.Themes, Starts <- Config.unity.Starts, Outside <- Config.unity.Outside,
  Favorites <- Config.unity.Favorites, Icons <- Config.unity.Icons, MaxActions <- Config.unity.MaxActions,
  MaxChanges <- Config.unity.MaxChanges
Appearance == INSTANCE Backgrounds WITH
  Ranked <- Config.backgrounds.Ranked, Folder <- Config.backgrounds.Folder,
  Dragged <- Config.backgrounds.Dragged, Screenshots <- Config.backgrounds.Screenshots,
  Files <- Config.backgrounds.Files, Changed <- Config.backgrounds.Changed,
  Wallpapers <- Config.backgrounds.Wallpapers, Starts <- Config.backgrounds.Starts,
  PictureColors <- Config.backgrounds.PictureColors, MaxActions <- Config.backgrounds.MaxActions,
  MaxChanges <- Config.backgrounds.MaxChanges
DateTime == INSTANCE DateTimePanel WITH
  Hours <- Config.datetime.Hours, Days <- Config.datetime.Days,
  Starts <- Config.datetime.Starts, Home <- Config.datetime.Home, NameOf <- Config.datetime.NameOf,
  Found <- Config.datetime.Found, Written <- Config.datetime.Written, MaxActions <- Config.datetime.MaxActions,
  MaxChanges <- Config.datetime.MaxChanges
Locations == INSTANCE DateTimeLocations WITH
  NameOf <- Config.locations.NameOf, Cities <- Config.locations.Cities, Texts <- Config.locations.Texts,
  Collate <- Config.locations.Collate, Offset <- Config.locations.Offset, Starts <- Config.locations.Starts,
  MaxRows <- Config.locations.MaxRows, MaxActions <- Config.locations.MaxActions,
  MaxChanges <- Config.locations.MaxChanges
Power == INSTANCE PowerPanel WITH
  Lists <- Config.power.Lists, Combos <- Config.power.Combos, Followed <- Config.power.Followed,
  Outside <- Config.power.Outside, Starts <- Config.power.Starts, MaxActions <- Config.power.MaxActions,
  MaxChanges <- Config.power.MaxChanges

\* Each is opened in its initial states, and what is open takes the steps.
Init ==
  /\ shown \in Panels
  /\ \/ shown = "shell" /\ Window!Init
     \/ shown = "wireless" /\ Wireless!Init
     \/ shown = "network" /\ Network!Init
     \/ shown = "airplane" /\ Airplane!Init
     \/ shown = "bluetooth" /\ Bluetooth!Init
     \/ shown = "pairing" /\ Pairing!Init
     \/ shown = "display" /\ Display!Init
     \/ shown = "keyboard" /\ Keyboard!Init
     \/ shown = "sources" /\ Sources!Init
     \/ shown = "locale" /\ Locale!Init
     \/ shown = "sharing" /\ Sharing!Init
     \/ shown = "options" /\ Options!Init
     \/ shown = "color" /\ Color!Init
     \/ shown = "unity" /\ Unity!Init
     \/ shown = "backgrounds" /\ Appearance!Init
     \/ shown = "datetime" /\ DateTime!Init
     \/ shown = "locations" /\ Locations!Init
     \/ shown = "fingerprint" /\ Enrolling!Init
     \/ shown = "accounts" /\ Online!Init
     \/ shown = "power" /\ Power!Init
Next ==
  \/ shown = "shell" /\ shown' = shown /\ Window!Next
  \/ shown = "wireless" /\ shown' = shown /\ Wireless!Next
  \/ shown = "network" /\ shown' = shown /\ Network!Next
  \/ shown = "airplane" /\ shown' = shown /\ Airplane!Next
  \/ shown = "bluetooth" /\ shown' = shown /\ Bluetooth!Next
  \/ shown = "pairing" /\ shown' = shown /\ Pairing!Next
  \/ shown = "display" /\ shown' = shown /\ Display!Next
  \/ shown = "keyboard" /\ shown' = shown /\ Keyboard!Next
  \/ shown = "sources" /\ shown' = shown /\ Sources!Next
  \/ shown = "locale" /\ shown' = shown /\ Locale!Next
  \/ shown = "sharing" /\ shown' = shown /\ Sharing!Next
  \/ shown = "options" /\ shown' = shown /\ Options!Next
  \/ shown = "color" /\ shown' = shown /\ Color!Next
  \/ shown = "unity" /\ shown' = shown /\ Unity!Next
  \/ shown = "backgrounds" /\ shown' = shown /\ Appearance!Next
  \/ shown = "datetime" /\ shown' = shown /\ DateTime!Next
  \/ shown = "locations" /\ shown' = shown /\ Locations!Next
  \/ shown = "fingerprint" /\ shown' = shown /\ Enrolling!Next
  \/ shown = "accounts" /\ shown' = shown /\ Online!Next
  \/ shown = "power" /\ shown' = shown /\ Power!Next
Spec == Init /\ [][Next]_vars

-----------------------------------------------------------------------------
(***************************************************************************)
(* Properties: what the modules state, each of its own part.               *)
(***************************************************************************)

\* Wireless networks: the connection that is deleted and the network that is left are those the
\* page was about, though NetworkManager answers later and the list is drawn anew meanwhile.
NetworkIsTheOneShown ==
  shown = "wireless" => Wireless!DeletesTheNetworkAsked /\ Wireless!DisconnectsWhatIsShown

\* The page that is shown is that of what was chosen: the window shows one panel, with its title
\* and its header, whatever is opened, searched and started meanwhile; the network panel shows the
\* page of the selected row, and one row for every object NetworkManager tells twice of.
PagesMatchSelection ==
  /\ shown = "shell" => Window!OnePanelIsShown /\ Window!HeaderOfThePanel
  /\ shown = "network" => Network!PageOfTheSelected /\ Network!ListedOnce /\ Network!WarnsOfDiscovery

\* Devices: after the events are read, in parts and between clicks, the airplane switch and the
\* Bluetooth panel know each radio switch of the kernel and its state; the power panel draws the
\* batteries of the daemon, once each, whatever changed while it asked.
DevicesAreKnown ==
  /\ shown = "airplane" => Airplane!TableIsCurrent /\ Airplane!AirplaneMeansSilence
  /\ shown = "bluetooth" => Bluetooth!SwitchesAreKnown
  /\ shown = "power" => Power!DrawsTheDevices /\ Power!WarnsOfTheShown /\ Power!CombosTellSettings

\* Bluetooth: the device that is shown, removed or paired is the one the user was asked about,
\* though bluetoothd adds, changes and removes devices, restarts, and asks again meanwhile.
BluetoothActsOnTheDeviceShown ==
  /\ shown = "bluetooth" =>
       Bluetooth!ListsKnownDevices /\ Bluetooth!RemovesTheDeviceAsked /\ Bluetooth!DetailsOfTheSelected
  /\ shown = "pairing" => Pairing!MatchesWhatIsShown

\* Displays: edits, the rebuilding of the widgets that edits again, changes of the screen and an
\* apply that is not answered leave a configuration that can be used, and widgets that tell it.
DisplayStaysUsable ==
  shown = "display" =>
    /\ Display!SomeMonitorIsLit /\ Display!OnePrimary /\ Display!LastMonitorStays
    /\ Display!WidgetsMatchConfig /\ Display!BackupIsThere

\* Keyboard shortcuts: a key has one use, what is made or removed is a shortcut of the user, and
\* the tables follow the settings.
ShortcutsAreConsistent ==
  /\ shown = "keyboard" =>
       /\ Keyboard!KeysAreDistinct /\ Keyboard!CustomHasCommand /\ Keyboard!RemovesCustomOnly
       /\ Keyboard!TableFollowsSettings /\ Keyboard!OptionsFollowSettings /\ Keyboard!CustomRowsShown
  /\ shown = "sources" => Sources!KeysAreDistinct

\* Region and text entry: lists, buttons and the page of the system tell what is set, while IBus,
\* localed and the settings answer in any order.
RegionTellsSettings ==
  /\ shown = "sources" => Sources!RowsAreTheSources /\ Sources!OneSourceStays /\ Sources!RadiosFollowKbd
  /\ shown = "locale" =>
       Locale!CopiesDifferences /\ Locale!SystemPageTellsFormats /\ Locale!SelectedRegionIsSet

\* Sharing: switches and rows tell the networks a service is enabled on, remote login is off with the
\* master switch, and the screen is not left open without a question or a password.
SharingTellsNetworks ==
  shown = "sharing" => /\ Sharing!SwitchTellsNetwork /\ Sharing!MasterOffMeansNoLogin
                       /\ Sharing!ScreenIsGuarded /\ Sharing!StatusTellsNetworks

\* Options and drivers of a printer: answers do not outlive the dialog that asked, and a driver is
\* found once, under its manufacturer, and chosen there.
OptionsBelongToTheDialog ==
  shown = "options" =>
    Options!NoLateAnswers /\ Options!ModelOfTheMaker /\ Options!DriversListedOnce /\ Options!MakersAreDistinct

\* Colour: rows follow colord, and every button acts on what is selected.
ColorActsOnTheSelected ==
  shown = "color" =>
    /\ Color!OneRowPerDevice /\ Color!ActsOnTheSelected /\ Color!RemovesVirtualOnly
    /\ Color!CalibratesWithSensor /\ Color!NothingToDo

\* Appearance: the settings of Unity are the same in both profiles and the widgets tell them; the
\* picture that is selected is the background, and only copies in the cache are thrown away.
AppearanceTellsSettings ==
  /\ shown = "unity" =>
       Unity!ProfilesAgree /\ Unity!WidgetsTellSettings /\ Unity!ModeTellsProfile /\ Unity!DesktopIconOnce
  /\ shown = "backgrounds" =>
       /\ Appearance!TrashesCopiesOnly /\ Appearance!SelectionOfTheSource /\ Appearance!WallpapersListedOnce
       /\ Appearance!RemovesCopiesOnly /\ Appearance!SelectedIsSet

\* Date and time: what is set is what was edited and shown, though focus, idle sources, timers,
\* queries and timedated come in any order.
DateTimeSetsTheEdited ==
  /\ shown = "datetime" =>
       /\ DateTime!EditIsSaved /\ DateTime!SetOnlyByEdit /\ DateTime!ShowsWhatWasAsked
       /\ DateTime!EntryTellsZone /\ DateTime!FollowsSettings
  /\ shown = "locations" => Locations!LocationsAreSaved /\ Locations!IconTellsError

\* Accounts: the fingerprint reader is given back however the assistant ends, the finger that is
\* captured is the one chosen, and the label tells whether there are prints, though signals come
\* late; an online account is removed if and only if that was asked here and not undone in time,
\* and the list and the dialog tell the accounts that there are.
AccountsAreTold ==
  /\ shown = "fingerprint" =>
       Enrolling!DeviceIsReleased /\ Enrolling!EnrollsTheFingerChosen /\ Enrolling!LabelTellsPrints
  /\ shown = "accounts" =>
       /\ Online!RemovesWhatWasAsked /\ Online!RowsAreTheAccounts /\ Online!DialogIsAboutActive
       /\ Online!UsesWhatItHolds

\* One edit leaves the rest as it was: a monitor that is dragged does not come to lie on another,
\* a source that is moved in the list does not change the one in use, and a language does not
\* change the formats.
EditsLeaveTheRest ==
  [][/\ shown = "display" => Display!DragKeepsApart
     /\ shown = "sources" => Sources!MoveKeepsCurrent
     /\ shown = "locale" => Locale!LanguageKeepsFormats
     /\ shown = "locations" => Locations!RowsAreKept]_vars

\* "Remove" is not reached without a selection: remove_button_clicked asserts that there is one
\* (g_assert_not_reached).
RemoveHasASelection == shown = "backgrounds" => ~panel.broken
=============================================================================
