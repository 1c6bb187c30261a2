----------------------------- MODULE SharingPanel -----------------------------
(***************************************************************************)
(* The sharing panel (cc-sharing-panel.c): a master switch, the networks   *)
(* each service is shared on (cc-sharing-networks.c, cc-sharing-switch.c), *)
(* remote login (cc-remote-login.c and its helper), the shared folders     *)
(* (cc-media-sharing.c), the screen (vino-preferences.c) and the name of   *)
(* the computer (cc-hostname-entry.c).                                     *)
(*                                                                         *)
(* The master switch follows the services on, and is meant to turn them    *)
(* off.  Remote login is switched by a program that asks for a password,   *)
(* and may be asked again while it runs.                                   *)
(***************************************************************************)
EXTENDS Integers, Sequences, SequencesExt, Lists

CONSTANTS
  Services,   \* the services of the sharing daemon: "media", "files", "screen"
  Networks, Folders, Names,
  Static,     \* what is made of a name for the static host name
  Special,    \* the special directories, in the order they are compared: pairs of a tag and a path
  Starts,     \* the services that are shared at first, on every network
  MaxActions, MaxChanges

VARIABLES
  panel,   \* the switches, the rows, the dialog that is open and the entries
  calls,   \* the queries about remote login, the helpers, the timer, the labels
  world    \* the sharing daemon, systemd, hostnamed, the settings and the counters

vars == <<panel, calls, world>>

None == "none"
Dialogs == Services \cup {"login"}
MaxPassword == 8

-----------------------------------------------------------------------------
(***************************************************************************)
(* The master switch and the labels bound to it.                           *)
(***************************************************************************)
\* A service that is on turns the master switch on; s is [p, c, w].
MasterOn(s) == [s EXCEPT !.p.master = TRUE]

\* The helper is started, unless systemd set the switch.
SetLoginEnabled(s, on) ==
  [s EXCEPT !.p.login.sens = FALSE, !.c = Append(@, [kind |-> "helper", arg |-> on])]
LoginSwitched(s, on) ==
  IF s.p.login.on = on THEN s
  ELSE SetLoginEnabled([(IF on THEN MasterOn(s) ELSE s) EXCEPT !.p.login.on = on], on)
SetSwitchState(s, on) ==
  [(IF on /\ ~s.p.login.on THEN MasterOn(s) ELSE s) EXCEPT !.p.login.on = on, !.p.login.sens = TRUE]
GetLoginEnabled(s, row) ==
  [s EXCEPT !.p.login.sens = FALSE, !.c = Append(@, [kind |-> "bus", arg |-> row])]

-----------------------------------------------------------------------------
(***************************************************************************)
(* The networks of a service.                                              *)
(***************************************************************************)
Visible(p, v) == p.open = v /\ p.svc[v].shown
\* Mutant: the switch alone tells the status.
StatusOfSwitch(p, v, a) == IF ~a.on THEN "off" ELSE IF p.open = v /\ a.shown THEN "active" ELSE "enabled"

Status(p, v, a) == IF a.nets = {} THEN "off" ELSE IF p.open = v /\ a.shown /\ a.on THEN "active" ELSE "enabled"
\* The rows of some services are new, and each tells its status when that is another.
UpdateStatus(s, rows) ==
  LET told == [v \in DOMAIN rows |-> [rows[v] EXCEPT !.status = Status(s.p, v, rows[v])]]
      on == \E v \in DOMAIN rows : told[v].status \notin {"off", rows[v].status}
  IN [s EXCEPT !.p.svc = [v \in DOMAIN @ |-> IF v \in DOMAIN rows THEN told[v] ELSE @[v]],
               !.p.master = @ \/ on]
\* The daemon lists the networks of a service, or fails to.
UpdateNetworks(s, v, listed) == [s.p.svc[v] EXCEPT !.nets = IF listed THEN s.w.enabled[v] ELSE {}]
Heard(s, listed) == [s EXCEPT !.p.available = IF listed THEN @ ELSE FALSE]
\* The switch is set where the current network is one of those; nothing unsets it.
UpdateNetworksBox(p, a, available) ==
  LET here == p.net # None
  IN [a EXCEPT !.shown = here, !.sens = IF here THEN available ELSE @, !.on = @ \/ p.net \in a.nets]
\* The services are updated one after another, and the daemon lists the networks of some.
Before(u, v) == <<u, v>> \in {<<"media", "files">>, <<"media", "screen">>, <<"files", "screen">>}
UpdateServices(s, services, listed) ==
  LET Available(v) == s.p.available /\ ~\E u \in services \ listed : u = v \/ Before(u, v)
      t == Heard(s, services \subseteq listed)
  IN UpdateStatus(t, [v \in services |-> UpdateNetworksBox(t.p, UpdateNetworks(t, v, v \in listed), Available(v))])
\* The daemon shares a service on the network it is on, or on one no longer.
EnableNetwork(s, v, on, done, listed) ==
  LET enabled == IF on THEN s.w.enabled[v] \cup ({s.w.net} \ {None}) ELSE s.w.enabled[v] \ {s.p.net}
      t == Heard([s EXCEPT !.w.enabled[v] = IF done THEN enabled ELSE @, !.p.svc[v].on = (on = done)], listed)
  IN UpdateStatus(t, [x \in {v} |-> UpdateNetworks(t, v, listed)])
\* Services go off when their switch can be seen, in the dialog that is open, and used; so does remote login.
Off(s) ==
  LET v == s.p.open
  IN IF v \in Services /\ Visible(s.p, v) /\ s.p.svc[v].sens /\ s.p.svc[v].on
     THEN EnableNetwork(s, v, FALSE, TRUE, TRUE) ELSE s
MasterNotify(s, on) ==
  LET m == [s EXCEPT !.p.master = on]
  IN IF on THEN m ELSE LoginSwitched(Off(m), FALSE)

-----------------------------------------------------------------------------
(***************************************************************************)
(* The folders in the file of the media server: a special directory is     *)
(* written as its tag, and one that is not set is left out when read.      *)
(***************************************************************************)
GetPreferences(folders) ==
  LET Dirs(f) == {Special[k][2] : k \in {i \in DOMAIN Special : Special[i][1] = f}}
      Dir(f) == IF Dirs(f) = {} THEN f ELSE CHOOSE d \in Dirs(f) : TRUE
  IN SelectSeq([i \in DOMAIN folders |-> Dir(folders[i])], LAMBDA d : d # None)
SetPreferences(rows) ==
  LET Tagged(d, k) == IF Special[k][2] = d THEN Special[k][1] ELSE d
  IN [i \in DOMAIN rows |-> FoldLeft(Tagged, rows[i], [k \in DOMAIN Special |-> k])]

-----------------------------------------------------------------------------
(***************************************************************************)
(* What the user does.                                                     *)
(***************************************************************************)
State == [p |-> panel, c |-> calls, w |-> world]
Becomes(s) == panel' = s.p /\ calls' = s.c /\ world' = s.w
ByUser(s) == s.w.acts < MaxActions /\ Becomes([s EXCEPT !.w.acts = @ + 1])
Free == panel.open = None

MasterClicked ==
  /\ Free
  /\ ByUser(MasterNotify(State, ~panel.master))
NetworkSwitched(v, done, listed) ==
  /\ Visible(panel, v) /\ panel.svc[v].sens
  /\ ByUser(EnableNetwork(State, v, ~panel.svc[v].on, done, listed))
RemoveNetwork(v, n, done, listed) ==
  /\ panel.open = v /\ n \in panel.svc[v].nets \ {panel.net}
  /\ LET s == [State EXCEPT !.w.enabled[v] = IF done THEN @ \ {n} ELSE @]
     IN ByUser(UpdateServices(s, {v}, IF listed THEN {v} ELSE {}))
LoginClicked ==
  /\ panel.open = "login" /\ panel.login.sens
  /\ ByUser(LoginSwitched(State, ~panel.login.on))

\* The names in the labels are asked for each time a dialog is shown.
RunDialog(d) ==
  /\ Free /\ panel.master /\ panel.ready /\ (d = "login" => panel.login.row)
  /\ ByUser([State EXCEPT !.p.open = d, !.c = Append(@, [kind |-> "label", arg |-> FALSE])])
\* Closing the folders writes them; closing the screen asks before it lets anybody in without a password.
DialogResponse ==
  /\ ~Free
  /\ Becomes([State EXCEPT !.p.open = None,
                !.w.folders = IF panel.open = "media" THEN SetPreferences(panel.rows) ELSE @,
                !.w.vino = IF panel.open = "screen" /\ @.password = 0
                           THEN [@ EXCEPT !.prompt = TRUE, !.auth = "none"] ELSE @])

\* The rows hold paths, the file chooser answers with a URI.
AddFolder(f) ==
  /\ panel.open = "media"
  /\ LET uri == "file://" \o f
         matching == \E i \in DOMAIN panel.rows : panel.rows[i] = uri
     IN ByUser([State EXCEPT !.p.rows = IF matching THEN @ ELSE Append(@, f)])
RemoveFolder(i) ==
  /\ panel.open = "media" /\ i \in DOMAIN panel.rows
  /\ ByUser([State EXCEPT !.p.rows = RemoveAt(@, i)])

\* The two radio buttons are bound to two settings.
ApproveConnections ==
  /\ panel.open = "screen" /\ ~world.vino.prompt
  /\ ByUser([State EXCEPT !.w.vino.prompt = TRUE, !.w.vino.auth = "none"])
RequirePassword ==
  /\ panel.open = "screen" /\ world.vino.auth # "vnc"
  /\ ByUser([State EXCEPT !.w.vino.prompt = FALSE, !.w.vino.auth = "vnc"])
\* What is typed is cut where the password would be too long; two bytes make a letter.
PasswordTyped(letters) ==
  /\ panel.open = "screen" /\ world.vino.auth = "vnc"
  /\ LET l == world.vino.password
         free == MaxPassword - l
     IN ByUser([State EXCEPT !.w.vino.password = IF l + 2 * letters <= MaxPassword THEN l + 2 * letters
                                                 ELSE l + free \div 2])
PasswordCleared ==
  /\ panel.open = "screen" /\ world.vino.auth = "vnc"
  /\ ByUser([State EXCEPT !.w.vino.password = 0])

\* The shared files may want a password, which is written whenever the entry changes.
FilesRequireSwitched ==
  /\ panel.open = "files"
  /\ ByUser([State EXCEPT !.w.guest.require = ~@])
FilesPasswordTyped ==
  /\ panel.open = "files" /\ world.guest.require
  /\ ByUser([State EXCEPT !.w.guest.written = TRUE])

Timer == [kind |-> "timer", arg |-> FALSE]
HostnameTyped(n) ==
  /\ Free /\ n # panel.name
  /\ ByUser([State EXCEPT !.p.name = n, !.c = Append(Kept(@, {i \in DOMAIN calls : calls[i] # Timer}), Timer)])
SetHostname(s, pretty, static) ==
  [s EXCEPT !.w.pretty = IF pretty THEN s.p.name ELSE @, !.w.static = IF static THEN Static[s.p.name] ELSE @]

-----------------------------------------------------------------------------
(***************************************************************************)
(* What comes back.                                                        *)
(***************************************************************************)
At(i, kind) == i \in DOMAIN calls /\ calls[i].kind = kind
Answered(i) == [State EXCEPT !.c = RemoveAt(@, i)]

SharingProxyReady(available, listed) ==
  /\ At(1, "proxy")
  /\ LET s == [Answered(1) EXCEPT !.p.ready = TRUE, !.p.net = world.net, !.p.available = available,
                                  !.p.rows = GetPreferences(world.folders)]
     IN Becomes(GetLoginEnabled(UpdateServices(s, Services, listed), TRUE))
SharingProxyFailed == At(1, "proxy") /\ Becomes(Answered(1))

BusReady(i, ok) ==
  /\ At(i, "bus")
  /\ Becomes(IF ok THEN [State EXCEPT !.c[i].kind = "file"] ELSE Answered(i))
\* The row goes away only where the first question fails.
FileStateReady(i, ok) ==
  /\ At(i, "file")
  /\ Becomes(IF ~ok THEN [Answered(i) EXCEPT !.p.login.row = @ /\ ~calls[i].arg]
             ELSE IF world.sshd.enabled THEN [State EXCEPT !.c[i].kind = "unit"]
             ELSE SetSwitchState(Answered(i), FALSE))
UnitReady(i, ok) ==
  /\ At(i, "unit")
  /\ Becomes(IF ok THEN [State EXCEPT !.c[i].kind = "active"]
             ELSE [Answered(i) EXCEPT !.p.login.row = @ /\ ~calls[i].arg])
ActiveStateReady(i, ok) ==
  /\ At(i, "active")
  /\ Becomes(IF ok THEN SetSwitchState(Answered(i), world.sshd.active) ELSE Answered(i))
\* The helper starts and enables the service, or stops and disables it; either half may fail.
HelperExits(i, did) ==
  /\ At(i, "helper")
  /\ LET on == calls[i].arg
         s == [Answered(i) EXCEPT !.w.sshd = [active |-> IF did > 0 THEN on ELSE @.active,
                                              enabled |-> IF did > 1 THEN on ELSE @.enabled]]
         t == IF did < 2 THEN GetLoginEnabled(s, FALSE) ELSE s
     IN Becomes(IF panel.closed THEN s ELSE [t EXCEPT !.p.login.sens = TRUE])
HostNameFqdnDone(i, ok) ==
  /\ At(i, "label")
  /\ Becomes([Answered(i) EXCEPT !.p.label = IF ok THEN "fqdn" ELSE world.static])
SetHostnameTimeout(i, pretty, static) ==
  /\ At(i, "timer")
  /\ Becomes(SetHostname(Answered(i), pretty, static))

CurrentNetworkChanged(listed) ==
  /\ panel.ready /\ ~panel.closed /\ panel.net # world.net
  /\ Becomes(UpdateServices([State EXCEPT !.p.net = world.net], Services, listed))
ByOthers(s) == s.w.changes < MaxChanges /\ Becomes([s EXCEPT !.w.changes = @ + 1])
OtherPrograms ==
  \/ \E n \in (Networks \cup {None}) \ {world.net} : ByOthers([State EXCEPT !.w.net = n])
  \/ \E a \in BOOLEAN : ByOthers([State EXCEPT !.w.sshd = [active |-> a, enabled |-> a]])

-----------------------------------------------------------------------------
\* Closing the panel cancels its questions and writes a name that was still waiting.
Dispose ==
  /\ Free /\ ~panel.closed
  /\ LET s == [State EXCEPT !.p.closed = TRUE, !.c = Kept(@, {i \in DOMAIN calls : calls[i].kind = "helper"})]
     IN ByUser(IF \E i \in DOMAIN calls : calls[i] = Timer THEN SetHostname(s, TRUE, TRUE) ELSE s)

Init ==
  \E net \in Networks \cup {None}, start \in Starts, a \in BOOLEAN :
    /\ world = [net |-> net, enabled |-> [v \in Services |-> IF v \in start THEN Networks ELSE {}], sshd |-> [active |-> a, enabled |-> a], pretty |-> "host", static |-> "host",
                folders |-> <<"@MUSIC@">>, guest |-> [require |-> FALSE, written |-> FALSE], vino |-> [prompt |-> TRUE, auth |-> "none", password |-> 0], acts |-> 0, changes |-> 0]
    /\ panel = [ready |-> FALSE, master |-> FALSE, open |-> None, net |-> None, available |-> FALSE,
                svc |-> [v \in Services |-> [nets |-> {}, on |-> FALSE, shown |-> FALSE, sens |-> FALSE, status |-> "off"]],
                login |-> [on |-> FALSE, sens |-> FALSE, row |-> TRUE], rows |-> <<>>, name |-> "host", label |-> None,
                closed |-> FALSE]
    /\ calls = <<[kind |-> "proxy", arg |-> FALSE]>>

Answers ==
  \/ \E available \in BOOLEAN, listed \in SUBSET Services : SharingProxyReady(available, listed)
  \/ SharingProxyFailed
  \/ \E i \in DOMAIN calls, ok \in BOOLEAN :
       BusReady(i, ok) \/ FileStateReady(i, ok) \/ UnitReady(i, ok) \/ ActiveStateReady(i, ok) \/ HostNameFqdnDone(i, ok)
  \/ \E i \in DOMAIN calls : \/ \E did \in 0..2 : HelperExits(i, did)
                             \/ \E pretty, static \in BOOLEAN : SetHostnameTimeout(i, pretty, static)
  \/ \E listed \in SUBSET Services : CurrentNetworkChanged(listed)
UserActs ==
  \/ MasterClicked \/ LoginClicked \/ DialogResponse \/ ApproveConnections \/ RequirePassword \/ PasswordCleared
  \/ \E v \in Services, done, listed \in BOOLEAN :
       NetworkSwitched(v, done, listed) \/ \E n \in Networks : RemoveNetwork(v, n, done, listed)
  \/ \E d \in Dialogs : RunDialog(d)
  \/ \E f \in Folders : AddFolder(f)
  \/ \E i \in DOMAIN panel.rows : RemoveFolder(i)
  \/ \E letters \in {1, 5} : PasswordTyped(letters)
  \/ FilesRequireSwitched \/ FilesPasswordTyped
  \/ \E n \in Names : HostnameTyped(n)
  \/ Dispose
Next == Answers \/ OtherPrograms \/ (~panel.closed /\ UserActs)

-----------------------------------------------------------------------------
(***************************************************************************)
(* What the switches and dialogs keep to.                                  *)
(***************************************************************************)
\* Without help from another program a switch that is shown is on only for a service that is enabled
\* on the network in use, and off only for one that is not, or where it cannot be used.
SwitchTellsNetwork ==
  \A v \in Services : LET a == panel.svc[v]
                         here == panel.net \in world.enabled[v]
                     IN (a.shown /\ world.changes = 0) => (a.on => here) /\ (a.sens => (here => a.on))
\* With the master switch off, remote login is not shown to be on.
MasterOffMeansNoLogin == ~panel.master => ~panel.login.on
\* Once its dialog is closed the screen is never shared without a question or a password.
ScreenIsGuarded == panel.open # "screen" => (world.vino.prompt \/ (world.vino.auth = "vnc" /\ world.vino.password > 0))
\* The row of a service says off exactly when it has no network.
StatusTellsNetworks == \A v \in Services : panel.svc[v].status # "off" <=> panel.svc[v].nets # {}
=============================================================================
