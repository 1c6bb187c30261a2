----------------------------- MODULE PanelState -----------------------------
(***************************************************************************)
(* What an open panel consists of, and the panels there are proofs about.  *)
(* ControlCenter extends this module and adds the other panels: a proof    *)
(* that extends PanelState alone sees these panels and nothing else.       *)
(***************************************************************************)
EXTENDS Integers, Sequences, FiniteSets

CONSTANT Config   \* the constants of each: a record of records

VARIABLES
  panel,   \* its widgets and the objects behind them
  calls,   \* what it has asked for and was not answered
  world    \* the services, the settings and the files it finds

Window == INSTANCE Shell WITH
  Plugins <- Config.shell.Plugins, Programs <- Config.shell.Programs, Unknown <- Config.shell.Unknown,
  Early <- Config.shell.Early, Late <- Config.shell.Late, Menus <- Config.shell.Menus,
  Matches <- Config.shell.Matches, MaxActions <- Config.shell.MaxActions
Network == INSTANCE NetworkPanel WITH
  Wired <- Config.network.Wired, Wifi <- Config.network.Wifi, Modem <- Config.network.Modem,
  Vpns <- Config.network.Vpns, Order <- Config.network.Order, MaxObjects <- Config.network.MaxObjects,
  MaxActions <- Config.network.MaxActions, MaxChanges <- Config.network.MaxChanges
Wireless == INSTANCE WirelessDevice WITH
  Aps <- Config.wireless.Aps, SsidOf <- Config.wireless.SsidOf, Strength <- Config.wireless.Strength,
  Secured <- Config.wireless.Secured, Escaped <- Config.wireless.Escaped,
  MaxConnections <- Config.wireless.MaxConnections, MaxActions <- Config.wireless.MaxActions,
  MaxChanges <- Config.wireless.MaxChanges
Enrolling == INSTANCE Fingerprint WITH
  Fingers <- Config.fingerprint.Fingers, First <- Config.fingerprint.First,
  Stages <- Config.fingerprint.Stages, MaxActions <- Config.fingerprint.MaxActions,
  MaxChanges <- Config.fingerprint.MaxChanges
Online == INSTANCE OnlineAccounts WITH
  Accounts <- Config.accounts.Accounts, Starts <- Config.accounts.Starts,
  MaxActions <- Config.accounts.MaxActions, MaxChanges <- Config.accounts.MaxChanges
Sharing == INSTANCE SharingPanel WITH
  Services <- Config.sharing.Services, Networks <- Config.sharing.Networks,
  Folders <- Config.sharing.Folders, Names <- Config.sharing.Names, Static <- Config.sharing.Static,
  Special <- Config.sharing.Special, Starts <- Config.sharing.Starts, MaxActions <- Config.sharing.MaxActions,
  MaxChanges <- Config.sharing.MaxChanges
Color == INSTANCE ColorPanel WITH
  Devices <- Config.color.Devices, Profiles <- Config.color.Profiles, Titled <- Config.color.Titled,
  Named <- Config.color.Named, Threshold <- Config.color.Threshold, MaxActions <- Config.color.MaxActions,
  MaxChanges <- Config.color.MaxChanges

\* No plug-in is called as none is.
ASSUME ShellAssumption == Window!None \notin Config.shell.Plugins

\* The proxy is the last row of the network panel, after devices and VPNs, and each has one place.
ASSUME OrderAssumption ==
  LET order == Config.network.Order
      others == Network!Devices \cup Config.network.Vpns
  IN /\ order \in Seq(others \cup {"proxy"}) /\ order # <<>> /\ order[Len(order)] = "proxy"
     /\ \A i, j \in DOMAIN order : order[i] = order[j] => i = j
     /\ {order[i] : i \in DOMAIN order \ {Len(order)}} = others

\* No access point is called as none is.
ASSUME WirelessAssumption == Wireless!NoAp \notin Config.wireless.Aps

\* No account is called as none is, and those at the start are accounts.
ASSUME AccountsAssumption ==
  /\ Online!None \notin Config.accounts.Accounts
  /\ \A start \in Config.accounts.Starts : start \subseteq Config.accounts.Accounts

\* No device is called as none is, and the one that is made of a kind and a text is a device.
ASSUME ColorAssumption ==
  /\ IsFiniteSet(DOMAIN Config.color.Devices) /\ Color!None \notin DOMAIN Config.color.Devices
  /\ \A kt \in DOMAIN Config.color.Named :
       kt = <<kt[1], kt[2]>> /\ Config.color.Named[kt] \in DOMAIN Config.color.Devices
=============================================================================
