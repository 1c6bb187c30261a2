# TLA+ models of unity-control-center

unity-control-center is a settings program: a window (the *shell*) that shows one *panel* at a time.
Every panel keeps a picture of state that belongs to somebody else (PulseAudio, CUPS, the accounts
service, NetworkManager, an X server, a key of GSettings, a `passwd` process), follows it through
asynchronous answers and signals that one GLib main loop dispatches, and changes it by requests.
There is almost no shared-memory concurrency.  What goes wrong in such code is what these models are
about: an answer that arrives after the thing it is about has changed, has been closed, or belongs to
another request; signals and answers in an order nobody tried; a request that fails in the middle of a
chain; a widget that was made sensitive for a state that has passed; somebody else changing the same
service.

The modules are written from the C source.  Paths below are relative to the repository root, `src/` in
`PROJECT.json` stands for it.

- [Inventory](#inventory): the parts, their state, operations, hazards and what makes them correct
- [Modules](#modules): which module models which code, and how
- [Runs](#runs): what is checked, with which bounds
- [Fairness](#fairness)
- [Proofs](#proofs)
- [What the models show about the code](#what-the-models-show-about-the-code)
- [Not modelled](#not-modelled)
- [Plan](#plan)

To repeat a run: `tlc -workers 2 -config <cfg> <module>`; to check the proofs: `tlapm <module>` for each of
`Lists`, `PasswordProofs`, `PrinterDialogsProofs`, `UserAccountsProofs`, `PrintersPanelProofs`, `PanelProofs`, `ListPanelProofs`, `ControlCenterProofs` (one
to five minutes each, but ten for `PanelProofs` and a quarter of an hour for `ListPanelProofs`).

## Inventory

Status: **M** modelled, **P** partly, **–** not yet or not at all (see [Plan](#plan)).
"Correct means" says what the code has to get right; the properties that state it are in code type.

### panels/user-accounts

| part | status | state it keeps | operations | hard behaviour | correct means |
|---|---|---|---|---|---|
| passwd handler (`run-passwd.c`) | M | state of a dialogue with `/usr/bin/passwd`, a queue of answers to write, the read-ahead text (static, shared by all handlers), two callbacks | `passwd_init`, `passwd_authenticate`, `passwd_change_password`, `passwd_destroy`; a watch on the child's output, one on its exit | three actors; output in pieces of 64 bytes; exit reported before the last output is read; a new session over the remains of an older one | answers tell the truth (`ChangeReportIsTrue`, `AuthReportIsTrue`), at most one answer (`AnswersOnlyWhenPending`), a change at work is not killed (`NeverKillsChange`), success is told (`SuccessIsReported`) |
| password dialog (`um-password-dialog.c`) | M | the user it is about, the action, three texts, whether the current password is right, sensitivity of OK and of the dialog | set the user, show, edit, focus, accept, cancel, callbacks of the handler | one dialog handed from user to user; callbacks after it was closed | OK only for what is entered now (`OkButtonIsCurrent`), one change at a time (`OneChangeAtATime`) |
| user panel (`um-user-panel.c`) | P | sorted rows with two headings, the selection, number of other accounts, which details can be edited | select, rename, type, automatic login, delete with a question, add through a dialog, lock button | accounts change under the selection and under an open question; the panel goes while requests run | the list is the library's and the details the selection's (`PanelShowsUsers`), the user deleted is the one asked about (`DeletesTheUserAsked`) |
| account dialog and realms (`um-account-dialog.c`, `um-realm-manager.c`) | M | mode, what is entered, list of realms, realm of the request, administrator's prompt, the spinner | add a local user; a chain for a domain user: discover, log in, (prompt, log in as administrator,) join, permit, cache the user | every step fails or is retried; realmd starts and ends on the bus; cancel in the middle | the steps happen in order and for the right realm and login (`ChainInOrder`); a request ends (`RequestEnds`) |
| fingerprint (`um-fingerprint-dialog.c`) | M | label and button of the panel, question, page of the assistant, device claimed, capture under way, pictures of the stages | enable, delete, choose a finger, back and forward, cancel | signals of a capture that was given up; device unplugged or claimed by others; error dialogs over the assistant | what the page tells is what fprintd did, the device is let go on every way out (`AccountsAreTold`) |
| photo, small editors (`um-photo-dialog.c`, `um-editable-*.c`) | – | pictures, texts | choose, crop, edit | | |
| login history | – | one week of records | forward, back | none | |

The panel opens the dialogs, tells the password dialog which user is selected and when the accounts
service reports a change of him; the dialogs call back into the panel with the user they created.

### panels/sound

| part | status | state | operations | hard behaviour | correct means |
|---|---|---|---|---|---|
| mirror of the server (`gvc-mixer-control.c`, `gvc-mixer-card.c`, `gvc-mixer-ui-device.c`, `gvc-mixer-stream.c`) | P | streams, cards, profiles, devices (a port of a card or a portless stream), the default and its name, a count of answers outstanding, requests of profiles and volumes | one handler for each answer and event, choose a device, change the profile, port, volume and default; reconnect | events name only an index, the answer to "what is it" may be older than the next event; a choice of a device is several requests whose answers and consequences arrive separately; the server restarts | at rest the mirror is the server's state and so is the default (`CacheMirrorsServer`), the list shows what can be used (`RowsMatchDevices`), a choice wins and is the row that is marked (`SelectionWins`), it reconnects (`ReadyAfterFailure`) |
| dialog (`gvc-mixer-dialog.c`) | P | rows of outputs and inputs, the marked one | rows added and removed, selection | signals of the mirror arrive while the dialog sets the selection | |
| effects, speaker test, bars | – | one setting or volume each | | drawing | |

### panels/printers

| part | status | state | operations | hard behaviour | correct means |
|---|---|---|---|---|---|
| panel (`cc-printers-panel.c`, `pp-utils.c`) | P | snapshot of the printers, index of the current one, rows, details, subscription with timer and D-Bus match, status check, the printer being added, drivers being set and searched for | select, enable, make default, remove, rename, choose a driver, add, lock button | the index is into a list that everybody replaces; renaming is a dozen requests; subscription renewed and lost; a search for drivers cancelled and started again | buttons act on what is shown (`ButtonsActOnShown`), no announced change is lost (`ListFollowsServer`), the driver page tells what is under way (`ModelPageTellsRequests`), a renaming is complete or undone (`RenameAllOrNothing`) and loses no queue of jobs (`RenameKeepsQueuedJobs`) |
| new printer (`pp-new-printer-dialog.c`, `pp-new-printer.c`, `pp-host.c`) | M | devices, those not grouped yet, filter, selection; the chain of an addition | three overlapping searches, select, add, cancel | answers of cancelled searches, hosts searched again, five requests at once that share a record | what is added is what was selected, under a new name (`AddInstallsSelected`), nothing freed is used (`HandlersHaveTheirData`), Add is answered (`AddIsAnswered`) |
| jobs dialog (`pp-jobs-dialog.c`) | M | jobs, selection, buttons, count of fetches under way | hold, release, cancel, close | threads fetch the list; closed while they do | `JobButtonsMatchJob`, `HandlersHaveTheirData` |
| options, drivers, test page (`pp-options-dialog.c`, `pp-*-option-widget.c`, `pp-ppd-selection-dialog.c`, …) | P | tabs of widgets of one option each, the threads that fill them, the list of drivers | set an option in a thread, choose a driver, print a test page | closed while it is filled; an option set again before the answer; manufacturers spelt in several ways | `OptionsBelongToTheDialog` |

### The window and the other panels

| part | status | state | operations | hard behaviour | correct means |
|---|---|---|---|---|---|
| shell (`gnome-control-center.c`, `control-center.c`) | P | page of the notebook, the current panel and its identifier, title, header widgets, text of the search | choose an item, search, home, command lines of further processes, programs of their own | the new panel is made before the old one goes; header widgets come from idle callbacks; command lines at any time | one panel, its title, its header (`PagesMatchSelection`) |
| network panel and objects (`cc-network-panel.c`, `net-*.c`, `network-dialogs.c`) | P | rows, notebook pages, selection, the operation of the command line, dialogs, proxy settings | select, add and remove a VPN, switch a VPN or modem, proxy mode, remove | NetworkManager restarts; objects are told of twice; pages never go | `PagesMatchSelection` |
| wireless device (`net-device-wifi.c`) | P | rows of networks, details of one, hotspot, questions | connect, disconnect, forget, hotspot on and off, radio | the list is drawn again under an open question; answers act on what is selected then | `NetworkIsTheOneShown` |
| rfkill and airplane mode (`rfkill-glib.c`, `cc-network-panel.c`) | M | table of the radios, a switch | click, events read in parts | events of one click come one by one | `DevicesAreKnown` |
| Bluetooth panel and switch (`cc-bluetooth-panel.c`, `bluetooth-killswitch.c`, client library) | P | the switches and their aggregate, tree of adapters and devices, selection, details | power, visibility, select, remove with a question | kernel and bluetoothd speak in two streams; bluetoothd restarts | `DevicesAreKnown`, `BluetoothActsOnTheDeviceShown` |
| Bluetooth pairing (`gnome-bluetooth/wizard/main.c`, `bluetooth-agent.c`) | P | one target, PIN, page; the request that waits for an answer | choose a device, PIN options, matches or not, cancel, restart | questions about other devices, withdrawn, or answered half a second late; retries | `BluetoothActsOnTheDeviceShown` |
| display (`cc-display-panel.c`, `scrollarea.c`) | P | copy of the configuration, current output, widgets, a request under way, file and backup | size, rotation, switch, mirror, drag, launcher and scale, apply | rebuilding widgets edits again; the screen changes; apply asynchronous | `DisplayStaysUsable`, `EditsLeaveTheRest` |
| keyboard shortcuts (`keyboard-shortcuts.c`, `cc-keyboard-item.c`, `cc-keyboard-option.c`) | P | tables of sections, items that cache a binding, XKB options | edit with a question about a conflict, custom shortcuts, options | tables replaced under a dialog; bindings written by others told late | `ShortcutsAreConsistent` |
| input sources (`gnome-region-panel-input.c`, `region/keyboard-shortcuts.c`) | P | list of sources, selection, radio buttons, shortcuts | add, remove, move, current source, shortcuts | engines of IBus come late; the list is written back whole | `RegionTellsSettings`, `EditsLeaveTheRest`, `ShortcutsAreConsistent` |
| language, formats, system (`gnome-region-panel-*.c`, `gdm-languages.c`) | P | locales installed, lists, what the system has | choose a language or format, copy to the system | accounts service and localed answer in any order | `RegionTellsSettings`, `EditsLeaveTheRest` |
| sharing (`cc-sharing-panel.c`, `cc-sharing-networks.c`, `cc-remote-login.c`, …) | P | master switch, networks of each service, folders, screen sharing, name | switches, remove a network, dialogs, helper for remote login | proxies, networks and the helper answer while switches move | `SharingTellsNetworks` |
| color (`cc-color-panel.c`) | P | tree of devices and profiles, current device, toolbar, two dialogs, sensor | select, assign, make default, remove, virtual device, calibrate | devices go under modal dialogs; the full list among the signals | `ColorActsOnTheSelected` |
| appearance: Unity (`cc-appearance-panel.c`) | M | settings of two profiles, widgets, timers | launcher size, hiding, workspaces, menus, graphics mode, theme | a setting sets a widget that writes a setting; the profile changes | `AppearanceTellsSettings` |
| appearance: backgrounds (`cc-appearance-panel.c`, `bg-*.c`, `cc-appearance-xml.c`) | M | three sources, selection, cache of copies, files read by a thread and a monitor | select, style, colours, add, remove, drag | a copy takes time; two readers of the files | `AppearanceTellsSettings`, `RemoveHasASelection` |
| date and time (`datetime-prefs.c`) | P | spinners with a text each, focus, zone on the map and in the entry, manual or automatic, clock settings | edit, change the focus, type a city, click the map, permission | the clock is set when idle after the focus left; looked-up cities answer late; timedated refuses | `DateTimeSetsTheEdited` |
| other locations of the clock (`datetime-prefs-locations.c`) | M | rows, the edited one, the setting | add, remove, edit, complete, drag, close | times written into the list every minute; a row completed by a city chosen below | `EditsLeaveTheRest`, `DateTimeSetsTheEdited` |
| power (`cc-power-panel.c`) | M | devices drawn, combo boxes | choose in a combo box | every change asks for all devices again, answers may be late or never come; the panel goes meanwhile | the devices of the daemon, once each (`DevicesAreKnown`) |
| online accounts (`cc-online-accounts-panel.c`) | M | rows, some hidden, the account of the dialog, the one to be removed, its timer | show, add, remove, undo, close the notification | a removal waits ten seconds and meets further ones; GOA refuses; accounts go that are pointed to | removed is what was asked and not undone, the list tells the accounts (`AccountsAreTold`) |
| universal access, mouse, wacom, screen, info | – | widgets bound to settings | | one widget, one setting | |

All hazards, each with its line and the properties that cover it, are in `PROJECT.json`.

## Modules

| module | code | form |
|---|---|---|
| `RunPasswd` | `run-passwd.c`; the passwd process and its PAM stack are external | state machine: caller, two watches, process |
| `PasswordDialog` | `um-password-dialog.c`, the calls of `um-user-panel.c` on it | EXTENDS `RunPasswd`: the dialog is the caller |
| `PasswordProofs` | – | theorems about `RunPasswd`, that it implements `PasswordChange`, and theorems about the two together |
| `MixerControl` | `gvc-mixer-control.c`, `gvc-mixer-card.c`, `gvc-mixer-ui-device.c`, device lists of `gvc-mixer-dialog.c` | client, server, two FIFO channels |
| `PrintersPanel` | `cc-printers-panel.c`, requests of `pp-utils.c` | panel, CUPS, other clients |
| `PrintersPanelProofs` | – | theorems about it |
| `NewPrinter`, `JobsDialog` | `pp-new-printer-dialog.c`, `pp-new-printer.c`, `pp-host.c`; `pp-jobs-dialog.c`, `cups_get_jobs_async` | components |
| `PrinterDialogs`, `PrinterDialogsProofs` | – | puts the two together, one at a time; theorems about both |
| `UserPanel` | `um-user-panel.c`, `would_demote_only_admin` of `um-utils.c` | panel, accounts service and its client library, other tools |
| `AccountDialog` | `um-account-dialog.c`, `um-realm-manager.c` | dialog, realmd, accounts service |
| `UserAccounts`, `UserAccountsProofs` | – | puts the two together, one followed at a time; theorems about both |
| `PasswordChange` | the promise of `run-passwd.h`, as callers read it | abstract specification; `RunPasswd` refines it |
| `Shell` | `gnome-control-center.c`, `control-center.c` | window, its notebook and header |
| `NetworkPanel` | `cc-network-panel.c`, `net-*.c`, `network-dialogs.c` | panel, NetworkManager, other tools |
| `WirelessDevice` | `net-device-wifi.c` | page of a device, NetworkManager, other tools |
| `Rfkill` | `/dev/rfkill` as both copies of `rfkill-glib.c` read it | operators on a kernel and its events |
| `AirplaneSwitch` | header switch of `cc-network-panel.c` | EXTENDS `Rfkill` |
| `BluetoothPanel` | `cc-bluetooth-panel.c`, `bluetooth-killswitch.c`, mirror of `bluetooth-client.c`, list of `bluetooth-chooser.c` | EXTENDS `Rfkill`; kernel and bluetoothd |
| `BluetoothWizard` | `wizard/main.c`, `bluetooth-agent.c` | assistant and the agent's questions |
| `DisplayPanel` | `cc-display-panel.c`, `scrollarea.c` | panel, X screen, settings daemon, file and backup |
| `KeyboardShortcuts` | `keyboard-shortcuts.c`, `cc-keyboard-item.c`, `cc-keyboard-option.c` | page, settings, other programs |
| `RegionInput` | `gnome-region-panel-input.c`, `region/keyboard-shortcuts.c`, `gtkentryaccel.c` | page, settings, IBus |
| `RegionLocale` | `gnome-region-panel-{lang,formats,system}.c`, `cc-language-chooser.c`, `cc-common-language.c`, `gdm-languages.c` | pages, accounts service, localed; names of locales as records |
| `SharingPanel` | `cc-sharing-*.c`, `cc-remote-login*.c`, `cc-media-sharing.c`, `vino-preferences.c`, `cc-hostname-entry.c` | panel, sharing daemon, systemd, helper |
| `PrinterOptions` | `pp-options-dialog.c`, option widgets, `pp-ppd-selection-dialog.c`, `pp-maintenance-command.c`, parts of `pp-utils.c` | dialogs and their threads |
| `ColorPanel` | `cc-color-panel.c` | panel and colord |
| `UnitySettings` | Unity half of `cc-appearance-panel.c` | panel, two profiles of settings |
| `DateTimePanel` | `datetime-prefs.c`, cities of `timezone-completion.c` | panel, timedated, web service |
| `DateTimeLocations` | `datetime-prefs-locations.c` | dialog, its setting, the clock |
| `Fingerprint` | `um-fingerprint-dialog.c` | label, question and assistant; fprintd |
| `OnlineAccounts` | `cc-online-accounts-panel.c` | panel, its dialog, GOA |
| `PowerPanel` | `cc-power-panel.c` | panel, settings daemon, settings |
| `Backgrounds` | the other half, `cc-appearance-item.c`, `cc-appearance-xml.c`, `bg-*.c` | panel, cache, files, copies |
| `PanelState` | – | what an open panel consists of, and the instances of the panels that there are theorems about |
| `PanelProofs` | – | the invariants of the window, the wireless device, the fingerprints and the online accounts |
| `ListPanelProofs` | – | the invariants of the panels of sharing, network and color |
| `ControlCenter` | – | EXTENDS `PanelState`: the window and the panels beside one another, and the properties of all |
| `ControlCenterProofs` | – | theorems about the panels of the window, from the invariants |
| `Lists` | – | what a test leaves of a list, as a recursive function, and lemmas about it for any list |
| `MC*` | – | constants of the runs |

Conventions.  One action is one handler that the main loop dispatches, with all it calls
synchronously.  Where a handler calls a function of the module that changes much state, that state is one
record (`control`, `panel`, `dialog`, `dlg`) and the C function is an operator from record to record, so that the
order of the calls inside a handler is the order of composition.  Signals that GTK or a library emits inside
a call run their handlers inside the operator (selection changed, row activated, output added).  An asynchronous
call puts a record in a set or a sequence and its answer is an action of its own; whether it
succeeds is a choice.  Names keep the source's (`delete_user_response` is `DeleteUserResponse`).
Definitions under a comment `Mutant:` are not part of any specification: each is a plausible bug
that one property must detect.

**RunPasswd.**  Text is reduced to the keywords the code searches for: a message of `passwd` is a sequence of
fragments, a fragment is the set of keywords that become complete with it, and a read takes any number of
fragments.  The answers written into the pipe are passwords.  `io_watch_stdout` is `IoWatchStdout` with
one operator for each state of the `switch`; `child_watch_cb` is `ChildWatch`.  The process asks for the current password (unless
the account has none), for the new one twice, may refuse it, and exits.

**PasswordDialog.**  The callbacks of the handler happen in the step of `RunPasswd` that makes them (`called` tells
which).  All handlers of the dialog are actions, with `update_sensitivity` as an operator; strength is a set of passwords.

**MixerControl.**  The server answers in order; an event names an index only.  `update_sink`, `remove_sink`,
`update_card`, `update_server`, `sync_devices`, `match_stream_with_devices`, `change_output`, `set_profile` …
are operators.  A volume request under way suppresses updates of its stream, as in the code.  A behaviour is about outputs or
about inputs; where the code treats them differently the operator asks `direction`.  Devices that fit equally well come in the order
of a hash table: `hashed` is one of two, by growing or by falling ids.

**PrintersPanel.**  `actualize_printers_list` builds rows and current index from a snapshot.  Renaming
(`printer_rename`) blocks the main loop for its whole sequence of synchronous requests, and is one step for each request since
other clients act in between.  Other clients add, remove, pause and change the default, jobs come and go, CUPS stops.

**NewPrinter.**  A device has a URI, a base name and the physical device it belongs to; the answer of
`GroupPhysicalDevices` is abstracted to the groups the instance gives.  The addition is the chain driver → files or
packages → `PrinterAdd` → five parts at once, with the counter in the shared record.

**JobsDialog.**  Threads read the jobs and queue an answer; the reference count keeps the dialog alive, an idle source frees it.

**UserPanel.**  `accounts` is the service, `cache` what the client library knows, `panel` the widgets.  `show_user` computes
sensitivity once: the model keeps the computed value.  A question and the dialog that adds a user are modal: they block the
user and not the signals.

**AccountDialog.**  The realm manager's number tells one started realmd from the next.  A step of the chain is a
record `[op, on, login, n]`; errors that the code treats alike are one outcome.

**PasswordChange.**  What a caller may rely on: a change is pending from the request to the report; the account's password changes
at most once for it; success is reported only after it changed; a change that nobody withdraws and that succeeds is reported.
`RunPasswd` instantiates it as `Promise` with `set <- SetPassword` (has the passwd process set the new password) and
`report <- Report` (what the callback said), and `KeepsPromise == Promise!Spec` is a property of its run: every step of caller, watches and process
is a step of the promise or a stutter, and its fairness follows from that of the watches and of the process.

### The window and its panels

Each of these modules has the variables `panel` (widgets and the objects behind them), `calls` (what was asked and not answered; a set, or
a sequence where the order of the answers is that of the questions) and `world` (services, settings, files, and the counters of the bounds).
They are instances of `ControlCenter`, which adds `shown`, and can be read alone.

**Shell.**  `panel.boxes` are the pages of the notebook that hold a panel.  `activate_panel` makes the new panel, then destroys the old;
a program of its own is started instead.  `CommandLine` is `application_command_line_cb` in the process that is already running.

**NetworkPanel.**  An object is a record of its identifier (the UDI of a device, the UUID of a connection) and the count of its making, so that two
objects of one device are told apart.  Answers of NetworkManager are records of `calls`; `ManagerStops` and `ManagerStarts` clear the
rows and tell of everything again.  `SetArgv` is `cc_network_panel_set_argv` with each operation it knows.

**WirelessDevice.**  `RefreshUi` is `nm_device_wifi_refresh_ui`.  A saved connection is the index of a list, access points
have a network, a strength and may be secured.  A question keeps what it is about; the answer acts on what the C code looks up then.

**Rfkill, AirplaneSwitch, BluetoothPanel.**  A kernel is a map of switches and a sequence of events; `Reading(k, n)` is one call of
`event_cb`, which takes as many events as are there.  The Bluetooth panel hears two streams, each in its order: the kernel's events and
what bluetoothd says (`said`).

**BluetoothWizard.**  `world.ask` is the request of bluetoothd that waits for an answer, with a number; `confirm` is the number the page shows.

**DisplayPanel.**  A configuration maps an output to what `GnomeRROutputInfo` holds: on, place, size, rotation, primary.  Filling a combo selects a row,
which runs the handler of a choice; the section "Rebuilding the widgets" composes them in the order of the code.  `Moves` are the places where the pointer drags a monitor to.

**KeyboardShortcuts, RegionInput.**  A binding is a model value; `Plain` ones are keys that need a modifier.  An item caches the binding of its key
and follows it by a signal, which another program's change delays.  The list of sources shows the ones that are known.

**RegionLocale.**  A locale's name is a record `[lang, terr, codeset, mod]`; parsing and normalising are operators on it, in
the order in which `gdm-languages.c` collects the archive, the directory and the aliases.

**SharingPanel, PrinterOptions, ColorPanel.**  The services' objects are maps in `world`; what they tell is a queue.  `PrinterOptions` also has the pure part,
the list of drivers by manufacturer (`get_all_ppds_async`'s thread), as folds.

**UnitySettings, Backgrounds.**  The two halves of one panel; they share its window only.  A grouped setting is a pair of profiles;
`Backgrounds` has the item of the selection, that of the settings and that of the copy under way, which may be three.

**DateTimePanel, DateTimeLocations.**  A time is a day and an hour; what `strftime` prints and `input_time_text` reads back are two operators that do not
agree at noon, in the language of 12 hours.  The focus moves by actions of its own, since leaving a spinner is what makes an edit.  A query has a number and may be cancelled and
answered nevertheless.  In the dialog a row holds its text, its place and whether it is marked; `SaveNow` is the idle source, `TimesUpdated` the minute.

**Fingerprint.**  Calls to fprintd are synchronous and part of the handler; signals are a queue.  `panel.handlers` counts how often the handler of `EnrollStatus` is connected.

**OnlineAccounts, PowerPanel.**  An object of GOA is the account's name; `objects` are those that GOA keeps, `kept` those that the panel leaked a reference of, and using another one
is `wild`, after which nothing more is claimed.  A device of the power panel is its kind, its state, whether it is low and whether a time is known; the daemon's messages are one sequence, so that
an answer and a change have an order.

### Compositions by alternatives

`PrinterDialogs` and `UserAccounts` are sums, not products: the dialogs share no state with each other, and
a modal dialog sees nothing of its panel, so that a behaviour that follows one of them shows everything
the other one can notice.  What crosses the border is modelled on both sides: the panel sees an account
appear and an answer come (`AccountCreated`, `AccountDialogCompletes`), the dialog sees its destruction (`Answered`).

`ControlCenter` is the sum of the window and nineteen panels, dialogs and assistants.  The window shows one panel at a time and destroys the one before; panels share
nothing but the services they talk to, which each module lets other programs change.  What the window sees of a panel (its page, its header widgets,
its idle callbacks) is in `Shell`; what a panel sees of the window (the command line, its disposal, being mapped) is in the panel's module.

## Runs

The type predicates of the modules (`TypeOK` of `RunPasswd`; `DialogTypeOK`, `MixerTypeOK`, `PanelTypeOK`, `DialogsTypeOK`, `UserAccountsTypeOK`) are checked in the same
runs, the latter five as the first conjunct of a safety invariant of their module.  The invariants and properties are commented where they are stated.

| run | configuration | result | shows |
|---|---|---|---|
| `passwd_handler` | `RunPasswd.cfg` | passes | every interleaving of caller, watches and process: what is reported is true and reported once; nothing but `passwd_destroy` kills a change; success is told even if the exit is seen first; the handler implements `PasswordChange` (`KeepsPromise`) |
| `password_dialog` | `PasswordDialog.cfg` | passes | with the real caller: the OK button is current, there is one change at a time |
| `change_is_handled` | `RunPasswdHandled.cfg` | violation | a requested change may wait for ever, though passwd refuses nothing |
| `killed_only_when_done` | `PasswordDialogKilled.cfg` | violation | setting the user again kills a change |
| `sound_mirror` | `MCMixerControl.cfg` | passes | the mirror converges, a choice of the user wins, for outputs and inputs, across a restart |
| `sound_always_match` | `MCMixerControlSync.cfg` | violation | a stream that never finds its devices |
| `printers_panel` | `PrintersPanel.cfg` | passes | the list and its buttons under every change of the server; renaming |
| `printer_dialogs` | `MCPrinterDialogs.cfg` | passes | searches, additions and the list of jobs |
| `user_accounts` | `MCUserAccounts.cfg` | passes | the list of users under changes; the domain chain with realmd coming and going |
| `user_accounts_self` | `MCUserAccountsSelf.cfg` | violation | the answer about another user deletes one's own account |
| `control_center` | `MCControlCenter.cfg` | passes | the window and its panels: what is shown is what is selected and set, what is done is done to what was shown, whatever services and other programs do meanwhile |
| `remove_has_a_selection` | `MCControlCenterRemove.cfg` | violation | Remove is reached with nothing selected |

### Bounds, and why they are enough

- `RunPasswd`: two good passwords and a weak one, three sessions: the third starts after a session that was
  replaced and one that ended, so that leftovers of both kinds (queue, text, flags) meet it.  Fragments are never merged away:
  one read may take all that is there.
- `PasswordDialog`: the same passwords, of which `p1` is too short for a new one and `weak` satisfies the dialog but not PAM; two users, two sessions (one per visit of the dialog); one for the violation.
- `MixerControl`: a card with two profiles (two ports in one, one in the other), a portless card, a network sink: one of each kind the
  code distinguishes.  One change by others, one choice, one restart: a choice makes up to four requests, and each of
  them and of the answers overtakes the others.
- `PrintersPanel`: two local printers and a shared one, names around each other so that an addition comes before, between and
  after; two jobs (the code asks for more than one); three changes by user and others.
- `PrinterDialogs`: one machine found by two backends, one of the same model by SNMP, one on a remote server; two
  searches, so that one is cancelled; one change by others; three jobs.
- `UserAccounts`: the user, a local one, one of a domain; three changes, by anybody (an addition, a removal and what follows);
  a realm that takes a user's credentials and one that takes only an administrator's; two presses of Add; two starts or ends of realmd.
- `ControlCenter`: each panel has two acts of the user (three in the run `remove_has_a_selection`, six acts and command lines together for the window) and one change by others (two for network,
  radios, displays, batteries and fingerprints; the locations get four acts, the fingers five, the online accounts six, which is two removals and an undo; the assistant gets two questions), which may come at any moment and whose signals are told later; answers are not counted.  There are two things of a
  kind where the code compares or chooses (networks, layouts, monitors, devices, profiles, files), and the odd ones that the code provides for: a secured network,
  a place far from the other monitor, a source nobody knows, drivers that spell their manufacturer in several ways, a value no widget shows.  Two acts reach every pair of
  an edit and what it disturbs, and the answers of the first are late enough to meet the second.  The definitions `MCShell` to `MCPower` of
  `MCControlCenter` name every bound.  `MaxObjects` (network) bounds how often objects are made over restarts of NetworkManager.

Deadlock is checked for the password models, where waiting is the question; in the others the environment stops when its
bounds are used up and the system rests.

## Fairness

- `RunPasswd`, `PasswordDialog`: weak fairness of the two watches (the main loop dispatches a ready source) and of the process (it
  goes on when it has what it reads).  The caller, the user, owes nothing.
- `MixerControl`: the client handles what has arrived, the server answers what it has received.  The conditions under which these steps are enabled are written
  out (`ClientReady`, `ServerReady`), which is what weak fairness means here and is cheaper to check.
- `PrinterDialogs`: calls of the addition are answered, by the service or by the time limit of D-Bus, and threads end.
- `UserAccounts`: calls of the dialog are answered (the same time limit), `kinit` ends, idle sources run.  Nothing is assumed of the user, nor that realmd starts.
- `PasswordChange`: weak fairness of telling that a change succeeded, the one obligation of the promise.
- `ControlCenter`: none.  Its properties say what is true when nothing is left to hear, not that this comes.

Other clients and tools are never assumed to act.

## Proofs

The theorems hold for every value of the constants that satisfies the assumptions of the modules: any sets of
passwords, users, printers, devices, realms, access points, networks, profiles, panels, fingers and online accounts, any number of sessions, changes, jobs and requests.  The bounds of the runs are constants
of the modules (`MaxChanges`, ...), so they are arbitrary here.

| module | theorem | what is proved |
|---|---|---|
| `PasswordProofs` | `TypeCorrect`, `NeverKills` | `TypeOK`, `NeverKillsChange` |
| | `ChangeReports`, `AuthReports`, `AnswersOnce` | `ChangeReportIsTrue`, `AuthReportIsTrue`, `AnswersOnlyWhenPending` |
| | `DialogueImplementsPromise` | `Spec => Promise!Init /\ [][Promise!Next]_(Promise!vars)` |
| | `ButtonCurrent`, `OneChange` | `OkButtonIsCurrent`, `OneChangeAtATime` |
| `PrinterDialogsProofs` | `HandlersSafe`, `ButtonsMatchJob` | `HandlersHaveTheirData`, `JobButtonsMatchJob` |
| | `AddsTheSelected` | `AddInstallsSelected` |
| `UserAccountsProofs` | `DeletesAsked`, `ChainOrder` | `DeletesTheUserAsked`, `ChainInOrder` |
| | `ShowsTheUsers` | `PanelShowsUsers` |
| `PrintersPanelProofs` | `PanelCorrect` | `PanelInv`, the invariant of the list |
| | `ButtonsAct`, `ListFollows`, `ModelPageTells` | `ButtonsActOnShown`, `ListFollowsServer`, `ModelPageTellsRequests` |
| | `RenameKeepsJobs`, `RenamesAllOrNothing` | `RenameKeepsQueuedJobs`, `RenameAllOrNothing` |
| `ControlCenterProofs` | `ActsOnTheNetworkShown`, `TellsTheAccounts` | `NetworkIsTheOneShown`, `AccountsAreTold` |
| | `SharesWhatIsToldOf`, `ShowsWhatWasChosen` | `SharingTellsNetworks`, `PagesMatchSelection` |
| | `ActsOnTheDeviceSelected` | `ColorActsOnTheSelected` |

None of the invariants but `TypeOK` is inductive as it stands.  What had to be found is below; the modules state
each part with a comment, then have a lemma for each operator that is used much (what it keeps), one for each action, and the theorems at the end.

**Passwd handler.**  `TypeOK` is `FlagsOK /\ ValuesOK /\ BackendReleased`.  `BackendReleased` is what is not a type: without a backend
there is no dialogue, no process and no text in a pipe.  `AwaitInv` adds `ChangeIsFlagged`: while a change is awaited `changing_password` and the callback are set,
and this makes the early return of `passwd_authenticate` protect the process.

That reports are true is harder, since the handler never looks at the account, and does take stale text of the static buffer for a
prompt, or one prompt for another.  `ReportInv` rests on counting.  passwd needs a number of answers before it changes the password (`Needed`);
those in its pipe, and those that the handler and a request will still write, are never more (`AnswersFit`), and fewer once something was refused.  Whatever the handler
mistakes, it writes at most one answer for each prompt it sees, so that when passwd has changed the password all of them were written, which the handler does only
in the state in which it waits for the verdict; and the last two were the password that was asked for (`QueueOK`, `PipeOK`).  `BufferOK` and `OutputOK` say which words may be unread in which state: the word for
success is there only after the change, and words of refusal only from a passwd that will not change it any more (`Concluded`).  For the current password, `FirstAnswerDue` and `FirstAnswerJudged` follow the first answer from
the queue to the verdict; `AuthSessionOK` is a session without a request, `NoCurrentOK` an account without a password, whose first prompt must not be taken for that of an authentication.

The refinement uses the same invariant.  `SetPassword` and `Report`, the values substituted for the variables of `PasswordChange`, are constant unless a step sets the
password or answers (`MappedPassword`, `MappedReport`), and each action is shown to be one of `Ask`, `Withdraw`, `Set`, `Tell` or a stutter.  The fairness of the promise stays with the run
(`KeepsPromise`).

**Password dialog.**  The handler's lemmas are reused for the steps of its new caller.  `ButtonEarned`, the condition of the OK button while the dialog is visible in normal mode,
is inductive only together with the types of both: `accept_password_dialog` hands its entry on as it is, and only what the button demands of the entry
makes it a password the handler may be given.

**Printer dialogs.**  For the search: answers wait only while the dialog is open and shown (`Waits`), as hiding it cancels them.  For the addition: one that was not cancelled and is not done
still has its dialog (`AdditionOK`), and the five parts that share a record have each finished, or been excused, or a call under way (`PartsOK`), so that the record
is freed by the last one and only by it.  For the jobs: the count of references is that of threads and answers under way (`CountOK`), and an enabled button has the selected job in a state it fits (`ButtonsMatch`), through every list that replaces another.

That what is added is what was selected, under a name of its own (`InstallInv`), rests on the lists of found devices.  A name occurs once in the devices and those not grouped yet together, and was either
given before the printers were known or is none of theirs (`EntriesOK`); the rows are devices of the first list (`RowsListed`); groups and backends still to answer are never more than the backends (`PendingOK`).
Which devices are appended, taken out and grouped are recursive functions of the lists (`Adds`, `Removes`, `Places` state what they compute).  CUPS's queues are those the dialog knows except for names that others have touched (`QueuesOK`);
for an undisturbed name, the queue has the device that was chosen (`ChosenOK`) and what CUPS granted holds (`InstalledOK`).

**User accounts.**  While a question is open only a removal moves the selection (`QuestionInv`): the users were loaded, the dialog that adds a user is neither
open nor just answered, which leaves `um_user_manager`'s signals.  For the chain, `OneRequest`: unless Add was pressed during a request, the one request that is not about the
realm manager has the controls off, and the realm and login it is about are those the dialog keeps, though realmd ends and starts under it.

The list of users (`ListInv`) is in the order of `sort_users` whatever order the signals come in: its rows are the first heading, the users that the library knows, and the second heading if and only if one of them is
not the user himself, and `other_accounts` counts these (`Shows`).  It is empty until the users are loaded; then all that are there are added, in any order (by induction on how many were).  The details are those of the selected user.
`DialogInv` is what the dialog for adding one may hold.

**Printers panel.**  `PanelInv` is about `actualize_printers_list`: the rows are the snapshot's printers in order and the current index is that of the selected row,
which is proved for every finite set of printers.  `HeardInv`: unless a signal was missed, or the one about all printers is to come, the snapshot is CUPS's, and the number
of jobs unless that of this printer is to come.  `ReqInv` counts, for each printer, the requests under way and the entries of `driver_change_list`.
`RenameInv` has a clause for each of the dozen requests of `printer_rename`: what is known of the old queue when others act between them (`OldKept`: closed, it takes no further job), and, undisturbed, how far the printer has
moved (`MovedTo`).

**Wireless device.**  Connections have numbers, and what makes a reference harmless when it outlives its connection is that a number is not given twice (`Count`, `Later`).  Rows, selection, open question and
requests under way each refer to a connection of their network as long as it is saved (`Refers`), whatever is drawn again or deleted between; and the buttons of the details are
those of the network in use unless its change is still to be told (`Shows`).  What is open in `ControlCenter` does not change, so a panel's invariant needs the steps of its module only:
`PanelProofs` and `ListPanelProofs` prove it where only the panels of `PanelState` are in scope (each step of a proof costs the prover the whole scope), and
`ControlCenterProofs`, which extends `ControlCenter` and both and thereby meets the same instances, puts the parts together.

**Fingerprints.**  `Captures`: the reader is ours only on the page that captures, a capture under way is ours and of the finger the page is about; this is what every way out
of the assistant (`LetGo`, `EnrollDataDestroy`) has to restore.  `Labels`: without an assistant the label tells the prints, unless others changed them, or there is no reader.  `Completes`: a capture
that is complete, or that an unread signal says to be, has left a print, which is why an assistant that ends there may tell of prints without asking again.

**Online accounts.**  What makes the list follow GOA is an order of the unread signals (`InOrder`: each account is said to be added once, and then removed at most once), and that rows and
accounts differ by what is unread only (`Mirrors`).  What makes a removal the one asked for: what is asked of GOA is what the panel waits to remove or was told to (`Asked`), the rows that are hidden
are exactly those (`Hides`), and neither the dialog nor an account that is being added is one of them (`Edits`).

**Window.**  `WindowSound`: the notebook holds a page for the panel and no other, identifier and title are its, and header widgets, there or due when idle, are nobody else's.  Choosing an item makes the new panel before the old
one goes; the invariant is about what is left when the handler ends, and each helper of it states what it leaves of the two.

**Network panel.**  Objects are numbered by their making, and pages stay when NetworkManager tells of their devices again.  `NetworkSound`: each identifier has one row at most and the proxy has one, rows are objects with a page, the page in front is like the
selected object (`NetShows`), and the warning of the proxy page is that of the settings (`NetWarns`).  A row that goes selects the first of the others, and there is one since the proxy stays and comes last in the order.

**Sharing.**  As long as only the panel changes the networks of a service, what it was told is part of what the daemon has; a switch that is seen is on only if the network in use is one of them, and where it can be used it is on if it is (`SharingKnows`): a
list that could not be had leaves it insensitive.  Remote login is off with the master switch, which turns it off last (`MasterOffMeansNoLogin`).  The text of a row says off
if and only if it has no networks (`SharingStatuses`); nothing is shared before the daemon is connected to, which happens once (`SharingConnects`).  The screen asks for a question or for a password, and for an empty one only while the dialog
is open in which it is typed (`ScreenGuards`), whichever of the widgets is moved.

**Color.**  colord's devices, the tree and the unread signals account for one another: a device is said to come when it was not there and to go when it was (`ColorTold`), what colord had at some time and what it said since is what it has
(`ColorAccounts`), and so for the list that is on its way (`ColorListing`) and the tree (`ColorMirrors`).  A device that comes while the list is on its way is in both (`early`), and this is the one case in which a device has two rows; one that could not be read has none (`lost`).  The toolbar is that of
the selected row (`ColorSelects`), and the button for calibration that of the device and the sensor the panel knows (`ColorSenses`), unless a sensor's signal is to come; `plugged` says whether that is the one colord has.

**Lists.**  tlapm has no induction for what a recursive definition computes if it is stated with an operator as a parameter.  `Lists` states it for a set instead: a set that holds zero, and with each number the next, holds all
(`Induction`, from the theorem on well-founded relations), and applies it to the set of numbers up to which a function is what its recursive definition says (`KeptDef`).  `Kept`, what is left of a list at
some places, then is a sequence in the order of the list (`KeptRanks`, `KeptIsSeq`) that repeats nothing that the list does not repeat (`KeptDistinct`).  `NewPrinter`, `UserPanel`, `AccountDialog`, `NetworkPanel`, `SharingPanel` and `ColorPanel` use such functions where the C code filters or walks a list.

*Assumed*, each in the module that declares the constants, where the runs evaluate it:

- `ConstantsAssumption`, `DialogAssumption`, `JobsAssumption`, `PrintersAssumption`, `UsersAssumption`, `InfoAssumption`: the sets that constants range over, and that the values for none are outside them.
- `PrintersAssumption`, `BoundsAssumption`, `InitialAssumption`, `RealmsAssumption`, `ColorAssumption`: there are finitely many printers, devices, users and realms; two users do not share a uid.
- `ShellAssumption`, `WirelessAssumption`, `AccountsAssumption`, `ColorAssumption`: the value for none is no panel, access point, account or device.
- `OrderAssumption`: each row of the network panel has one place, and the proxy's is the last.

*Only model-checked*, and why:

- liveness under fairness (`SuccessIsReported`, `ReadyAfterFailure`, `AddIsAnswered`, `RequestEnds`, the fairness of `KeepsPromise`) and ENABLED, which the prover does not have;
- the mirror of the sound server (`CacheMirrorsServer`, `RowsMatchDevices`, `SelectionWins`): what is said of two channels and a dozen requests at once needs an invariant that nobody has written down yet;
- of `ControlCenter`, `DevicesAreKnown`, `BluetoothActsOnTheDeviceShown`, `DisplayStaysUsable`, `ShortcutsAreConsistent`, `RegionTellsSettings`, `OptionsBelongToTheDialog`, `AppearanceTellsSettings`,
  `DateTimeSetsTheEdited` and the action property `EditsLeaveTheRest`.  Some rest on folds (radio switches, languages, drivers), for which `Lists` is the way; what keeps the others from the prover is work.

## What the models show about the code

Disagreements with a comment or message of the code, each with a run:

1. `change_is_handled`: after "Our IO watcher should now handle the rest" (`run-passwd.c:767`) nobody may handle it: in a session that `passwd_change_password` starts, the current password is written before
   passwd asks for it (`:764-765`), each prompt is then answered with what the next one asks for, and the prompts for the new and the retyped password in one read advance the state once and are answered with nothing.
   The run has an account with a current password and a passwd that refuses nothing, so that this is the only way to hang.
2. `killed_only_when_done`: "we can safely kill passwd as it has completed its task" (`run-passwd.c:235`) is said of a passwd that may be between two prompts.
3. `sound_always_match`: "This method should always find a match." (`gvc-mixer-control.c:1286`) fails for a card plugged between two answers.
4. `user_accounts_self`: "You cannot delete your own account." (`um-user-panel.c:471`), but the answer to a question about another user can.
5. `remove_has_a_selection`: `g_assert_not_reached` (`cc-appearance-panel.c:1403`) is reached: the Remove button keeps its sensitivity when the source changes and nothing is selected.

Seen while modelling; the models contain the behaviour, no run is spent on it:

- *passwd*: `password_changed_cb` closes the dialog although it was opened for another user meanwhile; `auth_cb` of an older text arrives late (the button is recomputed, which
  is why `OkButtonIsCurrent` holds); killed children are never waited for; a failure to spawn leaves `changing_password` set.
- *sound*: the default's row is not marked when its port becomes available later; after a change of profile the port is the server's and not the chosen one; the card index of a device
  without a card reads as 0; devices, rows and cards of the former server stay after a reconnection, and so does a cancelled profile request.
- *printers*: a device found by address before the printers are known (or when they cannot be fetched) takes an existing name and
  `PrinterAdd` replaces that printer; `list_dests` answering last shows "No printers detected." during a search; a URI is matched by its
  beginning (10.0.0.1 matches 10.0.0.10); the host search that ends last clears the flags of a newer one; an older list of jobs may replace a newer one; one failed renewal of the
  subscription ends the renewals; the selection goes back to the first row at each refresh of the list of devices.
- *user panel*: the question's window button counts as "Keep Files" and deletes the account; removing any row while a question is open moves the
  selection, so another user is deleted than the one asked about (`DeletesTheUserAsked` holds only without such a removal); the last administrator can be made a standard user
  through sensitivity computed before another account changed; a panel that goes while a question or deletion is open leaves handlers with freed data (`life = "misused"`); the loop over the
  other users in the automatic login sets the same user again, which turns off what was turned off.
- *account dialog*: Cancel during a request leaves handlers that use freed widgets; realmd's start or end makes Add sensitive during a request,
  so that two overlap and the realm of the older one is replaced or gone (`world.overlap`; `ChainInOrder` claims nothing then); realmd ending during a discovery fails an assertion
  (`life = "aborted"`); a typed domain without a manager turns the spinner for ever (the exception in `RequestEnds`).

- *passwd session that cannot start*: see `run-passwd.c:714`; the callback is never called and the dialog stays insensitive.
- *window*: a program of its own that is chosen from a command line while a panel is shown destroys the panel, but its identifier and title stay, so that
  choosing the same panel again does nothing until Home; an unknown name takes the header widgets off a panel that stays; `search_str` (`control-center.c:50`) is never reset, so that after
  one `--search` every later command line searches again.
- *printers, while renaming* (found while proving `RenameKeepsQueuedJobs`): `printer_rename` counts the jobs again when the printer is closed; if CUPS cannot be asked just then the count is that of no jobs, and a queue with
  jobs may be deleted.  The property claims nothing for a rename whose count failed.
- *wireless* (found while proving `NetworkIsTheOneShown`): while a hotspot runs, `nm_device_wifi_refresh_ui` returns before it draws the details (`net-device-wifi.c:696`).  A hotspot that was
  told to stop and has not stopped yet lets the user open the details of a network whose buttons are those of another, and offer to disconnect from one that is not in use.  It takes four acts of the user, more than the
  run has; the property excepts it.
- *network*: the page that is shown is not that of the selected object after a device was plugged again or NetworkManager came back (the case `PageOfTheSelected`
  leaves out); the rows of mobile connections are compared by UUID and by path; `device_off_toggled` is connected twice; the VPN switch is not set back after a failure; the question
  about a hotspot is given one more handler each time it is asked, and stopping the hotspot stops whatever is active; the callback of a deletion removes the row that is selected by then; the details of an
  access point that is not the strongest say "Not connected".
- *Bluetooth*: the column `BLUETOOTH_COLUMN_SERVICES` (`bluetooth-enums.h:130`) is never filled, so the connection switch is never usable; message and toolbar are not refreshed with the power.  In the
  assistant: the random PIN shown for an unknown device is not the one typed (`wizard/main.c:80`); authorisations replace the target; Cancel followed by a new request within half a second
  fails an assertion; the last page says "set up" though connecting failed; the buttons stay insensitive after "Matches".  In the panel, a device that goes while the question about it is open leaves the
  selection on the next row, and the answer removes that device (`cc-bluetooth-panel.c:604-671`): `RemovesTheDeviceAsked` is about answers given while the device is there.
- *display*: without the settings daemon's proxy the panel stays insensitive; a monitor being dragged when the screen changes is used after it was freed (`FreedOutputMoved`);
  when the configuration in effect cannot be saved before another is applied, the failure is swallowed and there may be no
  backup to go back to (`cc-display-panel.c:2460-2466`; the comment above it says that there will be one): `BackupIsThere` is about what could be saved;
  rebuilding overwrites the monitor of the scale factor; alignment ignores rotation; a monitor dropped far away diagonally leaves a gap.
- *keyboard*: conflicts are not seen with bindings that others wrote a moment ago; a change of the window manager under a question frees the items it is about; an external change of
  the list under the Add dialog repeats a path; removing an XKB option leaves a second one of its group; only the first key of one section, the first that
  a hash table has, decides whether a group exists.  A conflicting key that is read-only gives its keys up in the table and keeps them in the settings, though the question says that it "will be disabled" if the
  user goes on; of a key with several bindings the first is compared and overwritten, the others stay in effect.
- *input sources*: editing drops the sources of types the code does not know (`gnome-region-panel-input.c:882`); a change by others before its signal is overwritten; removing the current source leaves
  the index on another one; buttons are not refreshed when rows of IBus appear.  *Locale*: the copy button stays sensitive after copying; the label of the system's layout stays old; a
  language that could not be set, and formats that the accounts service refuses, stay selected: `SelectedRegionIsSet` leaves a last choice that was refused out.
- *sharing*: turning off the master switch leaves the services on whose switch is not visible at that moment (`OFF_IF_VISIBLE`, `cc-sharing-panel.c:94`; the comment at line 108 says all are turned off);
  `MasterOffMeansNoLogin` claims that only of remote login.  When the networks of a service cannot be listed (`cc-sharing-networks.c:112-119`) its switch is insensitive and may be off though the service is on.
- *color*: a device that colord would not give when it was added (`cc-color-panel.c:1917-1923`) has no row until it is plugged again; when the sensors cannot be listed the panel forgets the one there is, and one that cannot be
  read stays without capabilities (`:1400-1413`), so that Calibrate stays insensitive.
- *Unity*: values outside a widget's range, odd sizes and 4 × 1 workspaces are overwritten when they are shown; the third way of revealing, which no radio button has, is left when another program sets it (the
  comment at `cc-appearance-panel.c:1777` says the contrary); the widgets are not set again after a switch of profile; Restore Defaults leaves the size of icons.
- *backgrounds*: selecting a picture without a placement of its own overwrites the user's (contrary to the comment near line 984); the callback of a copy that was superseded saves the old item;
  a picture dragged twice is there twice; changed wallpaper files are never updated.

- *date and time*: in a language of 12 hours "12:30 PM" is read as hour 24 and refused, and "12:30 AM", the hour after midnight, as noon, so that leaving the spinner sets the clock twelve hours
  ahead (contrary to "Parse this string as if it were in the output format", `datetime-prefs.c`); the 31st of February passes the check of the day and sets the clock to the epoch; refusals of timedated
  are warnings, radio buttons and map stay; what others change at timedated is not watched; an edit before the proxy is there is lost; the answer of a query clears the list of cities also when it was
  cancelled; two callbacks use the panel after it is gone.
- *other locations*: `update_times` blocks `save_when_idle` where `model_changed` is connected, so that every minute writes the whole list and overwrites what other programs set; sorting with an
  incomplete row hands `gtk_list_store_reorder` an array that is too short (`wild`); a complete row keeps its saved place when its text is edited to something else; closing drops a save that is due.
- *fingerprint*: the handler of `EnrollStatus` is connected once more each time the page of the capture is prepared, so that one stage counts twice, and the count of stages is never reset; a capture
  that cannot be started again after a failure is not told; the page stays complete when the user goes back and chooses another finger; the label is not refreshed after an error.

- *online accounts*: an account that GOA refuses to remove stays hidden until the panel is opened again; a frame may be left with hidden rows only; an account that is shown or waits to be removed, and that
  another program removes, is used after it was freed; closing the panel leaves the timer and the question for providers, which use the panel.
- *power*: two UPS, of which one discharges, are both promoted, and the last one is shown, with an error for its state (contrary to "first we look for a discharging UPS, which is promoted",
  `cc-power-panel.c`); a first answer later than 200 ms shows no devices until the next change; the handler of changes stays connected when the panel goes; combo boxes do not follow what others set, and
  their visibility is not computed again when a battery comes.

## Not modelled

- Of modelled parts: a PAM stack that asks for the current password again; application streams, stream-restore database, channel maps, bars and balance; supply levels, addresses, classes and
  instances of printers; buses that cannot be reached, parsing of URIs and of SNMP output; locked accounts, languages, pictures and system accounts; validation of user names (a flag); what a network page prints of a
  device; hidden networks; connecting Bluetooth devices (unreachable, see above); painting of monitors; Fcitx; gnome-remote-desktop; translation and layout of printer options; categories, key navigation and small
  screens of the window. Wording, layout and drawing everywhere.
- Merged or left out in modelled handlers: the entry's text, which passwd's answer to the first prompt points to (`run-passwd.c:695`), is a copy; `PASSWD_ERROR_UNKNOWN` (`run-passwd.c:496`, `536`) is one of the other errors;
  clearing the entries after an error (`um-password-dialog.c`) makes OK insensitive in the normal mode only; a renaming asks for the printers and for their jobs at once and copies the strings it keeps (`pp-utils.c:402`-`449`);
  a new printer never brings its own driver (`pp-new-printer.c:1361`); the question before a deletion always has a selected user; activating a wireless connection is one step, and of several connections for one network
  the same one is shown and activated (`net-device-wifi.c:791`, `1107`); the service of fingerprints lists those enrolled or has none (`um-fingerprint-dialog.c:200`).
- Generated code: `cc-sharing-resources.c`, `org.gnome.SettingsDaemon.Sharing.c` and the like.
- Vendored code and pure presentation: the rest of the libgnome-bluetooth copy, chooser widgets, `um-crop-area.c`, wacom calibration and device tables.
- Panels that bind one widget to one setting (universal access, mouse, screen) or show facts read once (info, login history) have no behaviour that a model would add to.
- Photos: drawing.
- Data by induction: what the folds of `RegionLocale`, `PrinterOptions` and `Rfkill` compute is checked on the instance's names, drivers and radios only.

## Plan

Done: passwd and its dialog;  the sound mirror; the printers panel and its dialogs; user accounts; the promise of the passwd handler and its refinement; the window and nineteen more panels, dialogs and assistants; theorems for all safety properties of passwd and its dialog, the printers and the user accounts, and for seven of the panels of the window.

Next:

1. Theorems about further panels of `ControlCenter`, by moving their instances to `PanelState`: `DateTimeSetsTheEdited`, `AirplaneMeansSilence` from `TableIsCurrent`; the sound mirror, beginning with what is on the way in each channel.
2. Larger instances of single panels: `Panels` of `MCControlCenter` may be a singleton, and the bounds of that panel raised.
3. Liveness of the panels under fairness of their answers: the airplane switch settles, the options dialog is filled.
