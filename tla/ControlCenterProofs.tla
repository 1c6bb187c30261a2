------------------------- MODULE ControlCenterProofs -------------------------
(***************************************************************************)
(* Theorems about the panels of the window.                                *)
(*                                                                         *)
(* What is open does not change during a behaviour.  So an invariant of a  *)
(* panel, which PanelProofs or ListPanelProofs shows to hold in its        *)
(* initial states and to be preserved by its steps, holds whenever that    *)
(* panel is open: the steps of the others are taken in other behaviours.   *)
(***************************************************************************)
EXTENDS ControlCenter, PanelProofs, ListPanelProofs, TLAPS

\* What is open stays open, and only it moves.
LEMMA WirelessMoves ==
  ASSUME [Next]_vars, shown' = "wireless"
  PROVE  shown = "wireless" /\ (Wireless!Next \/ UNCHANGED <<panel, calls, world>>)
BY DEF Next, vars

LEMMA FingerMoves ==
  ASSUME [Next]_vars, shown' = "fingerprint"
  PROVE  shown = "fingerprint" /\ (Enrolling!Next \/ UNCHANGED <<panel, calls, world>>)
BY DEF Next, vars

LEMMA OnlineMoves ==
  ASSUME [Next]_vars, shown' = "accounts"
  PROVE  shown = "accounts" /\ (Online!Next \/ UNCHANGED <<panel, calls, world>>)
BY DEF Next, vars

\* So for sharing.
LEMMA SharingMoves ==
  ASSUME [Next]_vars, shown' = "sharing"
  PROVE  shown = "sharing" /\ (Sharing!Next \/ UNCHANGED <<panel, calls, world>>)
BY DEF Next, vars

\* So for the window and for the network.
LEMMA WindowMoves ==
  ASSUME [Next]_vars, shown' = "shell"
  PROVE  shown = "shell" /\ (Window!Next \/ UNCHANGED <<panel, calls, world>>)
BY DEF Next, vars

LEMMA NetworkMoves ==
  ASSUME [Next]_vars, shown' = "network"
  PROVE  shown = "network" /\ (Network!Next \/ UNCHANGED <<panel, calls, world>>)
BY DEF Next, vars

\* And for color.
LEMMA ColorMoves ==
  ASSUME [Next]_vars, shown' = "color"
  PROVE  shown = "color" /\ (Color!Next \/ UNCHANGED <<panel, calls, world>>)
BY DEF Next, vars

\* The connection that is deleted is of the network that the user was asked about, and the details offer
\* to leave the network that is in use: for any number of access points, connections, actions and
\* changes.  It rests on NetworkManager giving no number to two connections.
THEOREM ActsOnTheNetworkShown == Spec => []NetworkIsTheOneShown
<1> DEFINE Inv == shown = "wireless" => WirelessOK
<1>1. Init => Inv
  BY WirelessInit DEF Init
<1>2. Inv /\ [Next]_vars => Inv'
  <2> SUFFICES ASSUME Inv, [Next]_vars, shown' = "wireless" PROVE WirelessOK'
    OBVIOUS
  <2>1. shown = "wireless" /\ (Wireless!Next \/ UNCHANGED <<panel, calls, world>>)
    BY WirelessMoves
  <2>2. CASE Wireless!Next
    BY <2>1, <2>2, WirelessStep
  <2>3. CASE UNCHANGED <<panel, calls, world>>
    BY <2>1, <2>3 DEF WirelessOK
  <2> QED
    BY <2>1, <2>2, <2>3
<1>3. Inv => NetworkIsTheOneShown
  BY WirelessShows DEF NetworkIsTheOneShown
<1> QED
  BY <1>1, <1>2, <1>3, PTL DEF Spec

\* The fingerprint reader is held only by the page that captures, which captures the finger chosen, and
\* the label tells of the prints; an online account is removed if and only if that was asked here and not
\* taken back, and rows and dialog are about accounts there are: for any number of fingers, stages and
\* accounts, of actions and changes, and of signals that are not read yet.
THEOREM TellsTheAccounts == Spec => []AccountsAreTold
<1> DEFINE Inv == /\ shown = "accounts" => OnlineSound(Online!State)
                  /\ shown = "fingerprint" => FingerSound(Enrolling!State)
<1>1. Init => Inv
  BY OnlineInit, FingerInit DEF Init
<1>2. Inv /\ [Next]_vars => Inv'
  <2> SUFFICES ASSUME Inv, [Next]_vars PROVE Inv'
    OBVIOUS
  <2>1. ASSUME shown' = "accounts" PROVE OnlineSound(Online!State)'
    BY <2>1, OnlineMoves, OnlineNext DEF Online!State
  <2>2. ASSUME shown' = "fingerprint" PROVE FingerSound(Enrolling!State)'
    BY <2>2, FingerMoves, FingerNext DEF Enrolling!State
  <2> QED
    BY <2>1, <2>2
<1>3. Inv => AccountsAreTold
  BY OnlineTells, FingerTells DEF AccountsAreTold
<1> QED
  BY <1>1, <1>2, <1>3, PTL DEF Spec

\* A switch that can be seen is on only for a service enabled on the network in use, and off only for one that
\* is not or where it cannot be used, as long as only the panel changes the network; remote login is off with the
\* master switch; the screen is shared with a question or a password; and a row says that it is off when the
\* service has no network: for any number of services, networks, folders and names, whatever of the helper, the
\* daemons, the lists of networks and the questions fails, and in whatever order it answers.
THEOREM SharesWhatIsToldOf == Spec => []SharingTellsNetworks
<1> DEFINE Inv == shown = "sharing" => SharingSound(Sharing!State) /\ Sharing!MasterOffMeansNoLogin
<1>1. Init => Inv
  <2>1. Init /\ shown = "sharing" => Sharing!Init
    BY DEF Init
  <2>2. Sharing!Init => Sharing!MasterOffMeansNoLogin
    BY DEF Sharing!Init, Sharing!MasterOffMeansNoLogin
  <2> QED
    BY <2>1, <2>2, SharingInit
<1>2. Inv /\ [Next]_vars => Inv'
  <2> SUFFICES ASSUME Inv, [Next]_vars, shown' = "sharing"
               PROVE  SharingSound(Sharing!State)' /\ Sharing!MasterOffMeansNoLogin'
    OBVIOUS
  <2>1. shown = "sharing" /\ (Sharing!Next \/ UNCHANGED <<panel, calls, world>>)
    BY SharingMoves
  <2> QED
    BY <2>1, SharingNext, MasterNext
<1>3. Inv => SharingTellsNetworks
  BY SharingTells DEF SharingTellsNetworks
<1> QED
  BY <1>1, <1>2, <1>3, PTL DEF Spec

\* The window shows one panel or none, and its title, its header and what it remembers are of that panel,
\* for any plug-ins, programs, menus and command lines; the page of the network panel is that of the
\* selected row, and a device, a VPN and the proxy have one row each, for any number of them, however often
\* NetworkManager ends, starts and tells of them again.
THEOREM ShowsWhatWasChosen == Spec => []PagesMatchSelection
<1> DEFINE Inv == /\ shown = "shell" => WindowSound(panel, calls)
                  /\ shown = "network" => NetworkSound
<1>1. Init => Inv
  BY WindowInit, NetInit DEF Init
<1>2. Inv /\ [Next]_vars => Inv'
  <2> SUFFICES ASSUME Inv, [Next]_vars PROVE Inv'
    OBVIOUS
  <2>1. ASSUME shown' = "shell" PROVE WindowSound(panel, calls)'
    <3>1. shown = "shell" /\ (Window!Next \/ UNCHANGED <<panel, calls, world>>)
      BY <2>1, WindowMoves
    <3> QED
      BY <3>1, WindowNext
  <2>2. ASSUME shown' = "network" PROVE NetworkSound'
    <3>1. shown = "network" /\ (Network!Next \/ UNCHANGED <<panel, calls, world>>)
      BY <2>2, NetworkMoves
    <3> QED
      BY <3>1, NetNext
  <2> QED
    BY <2>1, <2>2
<1>3. Inv => PagesMatchSelection
  BY WindowTells, NetTells DEF PagesMatchSelection
<1> QED
  BY <1>1, <1>2, <1>3, PTL DEF Spec

\* The buttons act on the device of the row selected; what can be removed is a device the user made; and
\* once colord is heard out, the tree has one row for every device there is that could be read when it
\* was added (unless one came while the list was on its way), the button tells whether the sensor the
\* panel knows can calibrate the device, which is the sensor that is there unless colord would not give
\* it, and the row that says there are no devices has no toolbar: for any devices, profiles and sensors,
\* which come and go before, while and after colord lists them, whichever devices and sensors cannot be
\* read, and whether or not they can be listed.
THEOREM ActsOnTheDeviceSelected == Spec => []ColorActsOnTheSelected
<1> DEFINE Inv == shown = "color" => ColorSound(Color!State)
<1>1. Init => Inv
  BY ColorInit DEF Init
<1>2. Inv /\ [Next]_vars => Inv'
  <2> SUFFICES ASSUME Inv, [Next]_vars, shown' = "color" PROVE ColorSound(Color!State)'
    OBVIOUS
  <2>1. shown = "color" /\ (Color!Next \/ UNCHANGED <<panel, calls, world>>)
    BY ColorMoves
  <2>2. [Color!Next]_Color!vars
    BY <2>1 DEF Color!vars
  <2> QED
    BY <2>1, <2>2, ColorNext
<1>3. Inv => ColorActsOnTheSelected
  BY ColorTells DEF ColorActsOnTheSelected
<1> QED
  BY <1>1, <1>2, <1>3, PTL DEF Spec
=============================================================================
