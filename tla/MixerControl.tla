---------------------------- MODULE MixerControl -----------------------------
(***************************************************************************)
(* The sound panel's mirror of the PulseAudio server (gvc-mixer-control.c, *)
(* gvc-mixer-card.c, gvc-mixer-ui-device.c) and the device list of its     *)
(* dialog (gvc-mixer-dialog.c), for one direction: a behaviour is about    *)
(* outputs and sinks or about inputs and sources, which differ where the   *)
(* code does.  "Sink" below stands for both.                               *)
(*                                                                         *)
(* The server answers requests in order and reports changes by events that *)
(* only name an index, so what an answer says may be older than the event  *)
(* that follows it.  What the client keeps is one record, control, and     *)
(* each function of the code that changes it is an operator from a record  *)
(* to a record, so that an answer with several entries is one step.  The   *)
(* signals of the control run the handlers of the dialog inside the        *)
(* operator that emits them.                                               *)
(***************************************************************************)
EXTENDS Integers, SequencesExt

CONSTANTS
  Names,         \* names of sinks, the same whenever one is created
  Cards,         \* names of sound cards
  InternalCards, \* cards that are built in: they come first and stay
  Ports, Profiles,
  CardProfiles,  \* [Cards -> SUBSET Profiles]
  ProfileSinks,  \* [Profiles -> SUBSET Names], the sinks that a profile creates
  SinkPorts,     \* [Names -> SUBSET Ports]
  NetworkNames,  \* names of sinks without a card
  NoPort, NoProfile, NoName,
  MaxEvents,     \* bound: changes of the server by others
  MaxSelections, \* bound: what the user does
  MaxFailures    \* bound: restarts of the server

NoCard == -1     \* PA_INVALID_INDEX, and NULL for a card
INVALID == 0     \* no stream, no device, no default, no operation

ASSUME WorldAssumption ==
  /\ InternalCards \subseteq Cards
  /\ CardProfiles \in [Cards -> SUBSET Profiles]
  /\ ProfileSinks \in [Profiles -> SUBSET Names]
  /\ SinkPorts \in [Names -> SUBSET Ports]
  /\ NetworkNames \subseteq Names
  /\ \A n \in NetworkNames : SinkPorts[n] = {}
  /\ {MaxEvents, MaxSelections, MaxFailures} \subseteq Nat

VARIABLES
  direction,     \* "output" or "input"
  hashed,        \* does the hash table of the devices have them by their ids, or the other way?
  control,       \* struct GvcMixerControlPrivate, with its cards, devices and rows
  to_server, to_client, link,
  server,        \* the PulseAudio server
  wanted,        \* the device the user chose last, for SelectionWins
  bounds

vars == <<direction, hashed, control, to_server, to_client, link, server, wanted, bounds>>

\* The first of the devices S in the order g_hash_table_get_values has them, which nothing promises.
FirstOf(S) ==
  IF S = {} THEN INVALID
  ELSE CHOOSE x \in S : \A y \in S : IF hashed = "up" THEN x <= y ELSE x >= y

With(f, k, v) == [x \in DOMAIN f \cup {k} |-> IF x = k THEN v ELSE f[x]]
Less(f, K) == [x \in DOMAIN f \ K |-> f[x]]

SinksOf(c) == UNION {ProfileSinks[p] : p \in CardProfiles[c]}
CardPorts(c) == UNION {SinkPorts[n] : n \in SinksOf(c)}
PortProfiles(c, port) == {p \in CardProfiles[c] : \E n \in ProfileSinks[p] : port \in SinkPorts[n]}

-----------------------------------------------------------------------------
(***************************************************************************)
(* Messages.  An answer carries the entries it lists and the number of     *)
(* answers it stands for: the lists that are not modelled are only counted.*)
(***************************************************************************)

Get(what, index) == [op |-> "get", what |-> what, index |-> index]
AllOf == -1
SetDefaultReq(name) == [op |-> "set_default", name |-> name]
SetPortReq(index, port) == [op |-> "set_port", index |-> index, port |-> port]
SetProfileReq(index, p, id) == [op |-> "set_profile", index |-> index, profile |-> p, id |-> id]
SetVolumeReq(index, id) == [op |-> "set_volume", index |-> index, id |-> id]

Event(facility, type, index) ==
  [op |-> "event", facility |-> facility, type |-> type, index |-> index]
Answer(what, infos, count) == [op |-> "answer", what |-> what, infos |-> infos, count |-> count]
Ack(what, index, id, success) ==
  [op |-> "ack", what |-> what, index |-> index, id |-> id, success |-> success]
NoEntity == [op |-> "noentity"]
Closed == [op |-> "closed"]

\* A request is queued only while the context is ready (pa_context_* return NULL).
Connected(c) == c.ctx = "ready"
Request(c, r) == [c EXCEPT !.outbox = Append(@, r)]

-----------------------------------------------------------------------------
(***************************************************************************)
(* The device list of the dialog: rows with their ACTIVE_COLUMN.           *)
(***************************************************************************)

StreamIds(c) == {c.sinks[i].id : i \in DOMAIN c.sinks}
IndexOf(c, id) == CHOOSE i \in DOMAIN c.sinks : c.sinks[i].id = id
HasStream(c, d) == c.devices[d].stream \in StreamIds(c)

\* active_output_update and active_input_update
ActiveUpdate(c, d) ==
  IF d \notin DOMAIN c.devices THEN c
  ELSE [c EXCEPT !.rows = [i \in DOMAIN @ |-> [dev |-> @[i].dev, active |-> @[i].dev = d]]]

\* A device without a card is listed only if it has a stream; the first row becomes active.
DeviceAdded(c, d) ==
  LET listed == c.devices[d].card # NoCard \/ HasStream(c, d)
      added == IF listed THEN [c EXCEPT !.rows = Append(@, [dev |-> d, active |-> FALSE])] ELSE c
  IN IF c.rows = <<>> THEN ActiveUpdate(added, d) ELSE added

\* on_control_output_removed takes away one row.
RemoveRow(rows, d) ==
  LET found == {i \in DOMAIN rows : rows[i].dev = d} IN
  IF found = {} THEN rows ELSE RemoveAt(rows, Min(found))
DeviceRemoved(c, d) == [c EXCEPT !.rows = RemoveRow(@, d)]

-----------------------------------------------------------------------------
(***************************************************************************)
(* Devices, streams and the default stream.                                *)
(***************************************************************************)

LookupDevice(c, i) ==
  LET s == c.sinks[i] IN
  FirstOf({d \in DOMAIN c.devices :
             /\ c.devices[d].stream = s.id
             /\ SinkPorts[s.name] = {} \/ c.devices[d].port = s.port})

\* gvc_mixer_card_get_index (NULL) is 0.
CardIndex(dev) == IF dev.card = NoCard THEN 0 ELSE dev.card

SetDefault(c, i) ==
  LET sent == Request(c, SetDefaultReq(c.sinks[i].name)) IN
  IF ~Connected(c) THEN c
  ELSE IF direction = "input" THEN ActiveUpdate(sent, LookupDevice(c, i)) ELSE sent

UnsetDefaultStream(c) == [c EXCEPT !.default_id = INVALID]

\* _set_default_sink leaves the old default's port signal; _set_default_source takes the
\* handler off the new one, so that the old stays connected.
HandlersOf(c, new) ==
  IF direction = "output" THEN (c.handlers \ {c.default_id}) \cup {new}
  ELSE c.handlers \cup {new}

SetDefaultStream(c, i) ==
  LET id == c.sinks[i].id IN
  IF c.default_id = id THEN c
  ELSE ActiveUpdate([c EXCEPT !.default_id = id, !.handlers = HandlersOf(c, id)], LookupDevice(c, i))

PortNotify(c, i) ==
  IF c.sinks[i].id \in c.handlers THEN ActiveUpdate(c, LookupDevice(c, i)) ELSE c

FindStreamForName(c, name) == {i \in DOMAIN c.sinks : c.sinks[i].name = name}

UpdateServer(c, name) ==
  LET named == [c EXCEPT !.default_name = name]
      found == FindStreamForName(c, name)
  IN IF name \in {NoName, c.default_name} THEN c
     ELSE IF found = {} THEN UnsetDefaultStream(named)
     ELSE SetDefaultStream(named, CHOOSE i \in found : TRUE)

UnsetIfDefault(c, id) == IF c.default_id = id THEN UnsetDefaultStream(c) ELSE c

RemoveStream(c, i) ==
  LET id == c.sinks[i].id IN
  [UnsetIfDefault(c, id) EXCEPT !.sinks = Less(@, {i}), !.handlers = @ \ {id}]

MatchStreamWithDevices(c, i) ==
  LET s == c.sinks[i]
      match(port) == FirstOf({d \in DOMAIN c.devices :
                       CardIndex(c.devices[d]) = s.card /\ c.devices[d].port = port})
  IN [c EXCEPT !.devices = [d \in DOMAIN @ |->
        IF \E port \in SinkPorts[s.name] : match(port) = d
        THEN [@[d] EXCEPT !.stream = s.id] ELSE @[d]]]

NewDevice(card, port, available, stream) ==
  [card |-> card, port |-> port, available |-> available, stream |-> stream]
AddDevice(c, dev) ==
  [c EXCEPT !.devices = With(@, c.next_device, dev), !.next_device = @ + 1]

SyncPortless(c, i) ==
  LET s == c.sinks[i]
      d == FirstOf({e \in DOMAIN c.devices : CardIndex(c.devices[e]) = s.card})
  IN IF d = INVALID THEN c
     ELSE DeviceAdded([c EXCEPT !.devices[d] = NewDevice(@.card, NoPort, TRUE, s.id)], d)

SyncDevices(c, i) ==
  LET s == c.sinks[i] IN
  IF SinkPorts[s.name] # {} THEN MatchStreamWithDevices(c, i)
  ELSE IF s.card # NoCard THEN SyncPortless(c, i)
  ELSE DeviceAdded(AddDevice(c, NewDevice(NoCard, NoPort, TRUE, s.id)), c.next_device)

-----------------------------------------------------------------------------
(***************************************************************************)
(* Entries of sink and card lists.                                         *)
(***************************************************************************)

AddStream(c, info) ==
  [c EXCEPT !.sinks = With(@, info.index,
              [id |-> c.next_stream, name |-> info.name, card |-> info.card,
               port |-> info.port, volume_op |-> INVALID]),
            !.next_stream = @ + 1]

\* Mutant: only a new stream gets its port.
PortKept(c, info) == c
PortUpdated(c, info) ==
  IF info.port \in {NoPort, c.sinks[info.index].port} THEN c
  ELSE PortNotify([c EXCEPT !.sinks[info.index].port = info.port], info.index)

\* The device for which the profile was changed gets its new stream as the default.
ProfileSwapped(c, i) ==
  /\ c.swapping \in DOMAIN c.devices
  /\ c.devices[c.swapping].stream = c.sinks[i].id
\* Mutant: the device for which the profile was changed is forgotten.
ForgetSwap(c, i) == [c EXCEPT !.swapping = INVALID]
FinishSwap(c, i) ==
  IF ProfileSwapped(c, i) THEN [SetDefault(c, i) EXCEPT !.swapping = INVALID] ELSE c

DefaultByName(c, i) ==
  IF c.sinks[i].name = c.default_name THEN SetDefaultStream(c, i) ELSE c

IsRunning(c, i) == c.sinks[i].volume_op # INVALID

UpdateSink(c, info) ==
  LET i == info.index
      updated == IF i \in DOMAIN c.sinks
                 THEN PortUpdated([c EXCEPT !.sinks[i].name = info.name,
                                            !.sinks[i].card = info.card], info)
                 ELSE SyncDevices(AddStream(c, info), i)
  IN IF i \in DOMAIN c.sinks /\ IsRunning(c, i) THEN c
     ELSE DefaultByName(FinishSwap(updated, i), i)

CreateUIDeviceFromPort(c, index, port, available) ==
  LET added == AddDevice(c, NewDevice(index, port, available, INVALID)) IN
  IF available THEN DeviceAdded(added, c.next_device) ELSE added

CreateUIDeviceFromCard(c, index) == AddDevice(c, NewDevice(index, NoPort, FALSE, INVALID))

AddCard(c, info) ==
  LET card == [name |-> info.name, profile |-> info.profile, target |-> NoProfile,
               profile_op |-> INVALID, available |-> info.available, connected |-> TRUE]
      added == [c EXCEPT !.cards = With(@, info.index, card)]
      create(d, port) == CreateUIDeviceFromPort(d, info.index, port, port \in info.available)
  IN IF CardPorts(info.name) = {} THEN CreateUIDeviceFromCard(added, info.index)
     ELSE FoldLeft(create, added, SetToSeq(CardPorts(info.name)))

\* Mutant: an unavailable port stays in the list.
PortStaysListed(c, index, port, available) ==
  LET d == FirstOf({e \in DOMAIN c.devices : c.devices[e].card = index /\ c.devices[e].port = port})
      set == [c EXCEPT !.devices[d].available = available]
  IN IF d = INVALID THEN c ELSE IF available THEN DeviceAdded(set, d) ELSE set

MatchCardPortWithExistingDevice(c, index, port, available) ==
  LET d == FirstOf({e \in DOMAIN c.devices : c.devices[e].card = index /\ c.devices[e].port = port})
      set == [c EXCEPT !.devices[d].available = available]
  IN IF d = INVALID THEN c
     ELSE IF available THEN DeviceAdded(set, d) ELSE DeviceRemoved(set, d)

\* The ports of the cached card that the answer names too and whose availability differs.
SyncAvailability(c, info) ==
  LET index == info.index
      known == CardPorts(c.cards[index].name) \cap CardPorts(info.name)
      flipped == {p \in known : (p \in info.available) # (p \in c.cards[index].available)}
      sync(b, port) ==
        MatchCardPortWithExistingDevice(
          [b EXCEPT !.cards[index].available =
             IF port \in info.available THEN @ \cup {port} ELSE @ \ {port}],
          index, port, port \in info.available)
  IN FoldLeft(sync, c, SetToSeq(flipped))

UpdateCard(c, info) ==
  IF info.index \notin DOMAIN c.cards THEN AddCard(c, info)
  ELSE SyncAvailability([c EXCEPT !.cards[info.index].profile = info.profile], info)

\* A device without a card counts as one of card 0, and, for want of a type, as an input.
RemoveCard(c, index) ==
  LET gone == {d \in DOMAIN c.devices :
                 /\ CardIndex(c.devices[d]) = index
                 /\ c.devices[d].card # NoCard \/ direction = "input"}
      emitted == FoldLeft(DeviceRemoved, c, SetToSeq(gone))
  IN [emitted EXCEPT !.devices = Less(@, gone), !.cards = Less(@, {index})]

InvalidateStreams(c, id) ==
  [c EXCEPT !.devices = [d \in DOMAIN @ |->
     IF @[d].stream = id THEN [@[d] EXCEPT !.stream = INVALID] ELSE @[d]]]

RemoveSink(c, i) ==
  LET d == LookupDevice(c, i)
      invalid == IF d = INVALID THEN c
                 ELSE IF c.devices[d].port = NoPort
                 THEN DeviceRemoved([c EXCEPT !.devices[d].stream = INVALID], d)
                 ELSE InvalidateStreams(c, c.sinks[i].id)
  IN IF i \in DOMAIN c.sinks THEN RemoveStream(invalid, i) ELSE c

-----------------------------------------------------------------------------
(***************************************************************************)
(* Connecting.  Eight answers are expected, seven of them are counted.     *)
(***************************************************************************)

\* Mutant: more answers are counted than come.
OutstandingTooMany == 9

Outstanding == 7

\* The last four stand for the opposite direction, application streams and the restore database.
Ready(c) ==
  [c EXCEPT !.ctx = "ready", !.n_outstanding = Outstanding,
            !.outbox = <<Get("server", AllOf), Get("card", AllOf), Get("client", AllOf),
                         Get("sink", AllOf), Get("others", AllOf)>>]

DecOutstanding(c, count) ==
  IF c.n_outstanding <= 0 THEN c
  ELSE IF c.n_outstanding <= count THEN [c EXCEPT !.n_outstanding = 0, !.state = "READY"]
  ELSE [c EXCEPT !.n_outstanding = @ - count]

\* Pending operations are cancelled without their callbacks.
ContextFailed(c) ==
  [c EXCEPT !.ctx = "failed", !.state = "FAILED", !.outbox = <<>>,
            !.sinks = [i \in DOMAIN @ |-> [@[i] EXCEPT !.volume_op = INVALID]],
            !.cards = [k \in DOMAIN @ |-> [@[k] EXCEPT !.profile_op = INVALID]]]

RemoveAllStreams(c) ==
  FoldLeft(RemoveStream, c, SetToSeq(DOMAIN c.sinks))

\* idle_reconnect and gvc_mixer_control_open.  The cards keep the old context.
Reconnected(c) ==
  [RemoveAllStreams(c) EXCEPT !.ctx = "connecting", !.state = "CONNECTING",
     !.cards = [k \in DOMAIN @ |-> [@[k] EXCEPT !.connected = FALSE]]]

-----------------------------------------------------------------------------
(***************************************************************************)
(* What the user does in the dialog.                                       *)
(***************************************************************************)

Aborted(c) == [c EXCEPT !.state = "aborted", !.outbox = <<>>]

\* gvc_mixer_ui_device_get_best_profile: the current profile if it serves the port.
BestProfiles(card, dev) ==
  LET candidates == IF dev.port = NoPort THEN CardProfiles[card.name]
                    ELSE PortProfiles(card.name, dev.port)
  IN IF candidates = {} \/ card.profile \in candidates THEN {card.profile} ELSE candidates

SendProfile(c, index, profile) ==
  LET asked == [c EXCEPT !.cards[index].target = profile, !.cards[index].profile_op = INVALID]
  IN IF ~Connected(c) THEN asked
     ELSE Request([asked EXCEPT !.cards[index].profile_op = c.next_op, !.next_op = @ + 1],
                  SetProfileReq(index, profile, c.next_op))

\* gvc_mixer_card_change_profile.  The context of a card from before a reconnection is freed
\* memory: the call fails or the program ends.
CardChangeProfile(c, index, profile) ==
  LET card == c.cards[index] IN
  IF profile \in {card.profile, card.target} THEN {c}
  ELSE IF card.connected THEN {SendProfile(c, index, profile)}
  ELSE {Aborted(c), [c EXCEPT !.cards[index].target = profile, !.cards[index].profile_op = INVALID]}

\* gvc_mixer_control_change_profile_on_selected_device without a given profile asserts that
\* it finds one; a card whose profile is unknown to it ends the program too.
ChangeProfileOnSelectedDevice(c, d) ==
  LET dev == c.devices[d]
      card == c.cards[dev.card]
  IN IF dev.card = NoCard \/ card.profile \notin CardProfiles[card.name] THEN {Aborted(c)}
     ELSE UNION {CardChangeProfile([c EXCEPT !.swapping = d], dev.card, p) :
                   p \in BestProfiles(card, dev)}

DefaultDevice(c) ==
  IF c.default_id = INVALID THEN INVALID ELSE LookupDevice(c, IndexOf(c, c.default_id))

\* The row of the device that has the stream's port before any change is marked; without a
\* connection the stream cannot become the default, and that of the default is marked again.
MoveToStream(c, i, d) ==
  IF c.sinks[i].id = c.default_id THEN c
  ELSE IF direction = "input" THEN SetDefault(c, i)
  ELSE ActiveUpdate(SetDefault(c, i), IF Connected(c) THEN d ELSE DefaultDevice(c))

\* gvc_mixer_control_change_output, gvc_mixer_control_change_input
ChangeDevice(c, d) ==
  LET dev == c.devices[d]
      i == IndexOf(c, dev.stream)
  IN IF ~HasStream(c, d) THEN ChangeProfileOnSelectedDevice(c, d)
     ELSE IF dev.port = NoPort
     THEN {IF direction = "output" /\ Connected(c) THEN ActiveUpdate(SetDefault(c, i), d)
           ELSE SetDefault(c, i)}
     ELSE IF dev.port = c.sinks[i].port THEN {MoveToStream(c, i, LookupDevice(c, i))}
     ELSE IF Connected(c)
     THEN {MoveToStream(Request(c, SetPortReq(i, dev.port)), i, LookupDevice(c, i))}
     ELSE {c}

PushVolume(c, i) ==
  Request([c EXCEPT !.sinks[i].volume_op = c.next_op, !.next_op = @ + 1],
          SetVolumeReq(i, c.next_op))

-----------------------------------------------------------------------------
(***************************************************************************)
(* Messages from the server.                                               *)
(***************************************************************************)

Dispatch(c, e) ==
  CASE e.type = "remove" /\ e.facility = "sink" -> RemoveSink(c, e.index)
    [] e.type = "remove" /\ e.facility = "card" -> RemoveCard(c, e.index)
    [] OTHER -> Request(c, Get(e.facility, e.index))

Update(c, what, info) ==
  CASE what = "server" -> UpdateServer(c, info)
    [] what = "card" -> UpdateCard(c, info)
    [] what = "sink" -> UpdateSink(c, info)

ReceiveAnswer(c, m) ==
  DecOutstanding(FoldLeft(LAMBDA b, info : Update(b, m.what, info), c, m.infos), m.count)

ProfileChanged(c, m) ==
  IF m.index \notin DOMAIN c.cards \/ c.cards[m.index].profile_op # m.id THEN c
  ELSE [c EXCEPT !.cards[m.index].profile = IF m.success THEN c.cards[m.index].target ELSE @,
                 !.cards[m.index].target = NoProfile,
                 !.cards[m.index].profile_op = INVALID]

VolumeChanged(c, m) ==
  IF m.index \notin DOMAIN c.sinks \/ c.sinks[m.index].volume_op # m.id THEN c
  ELSE [c EXCEPT !.sinks[m.index].volume_op = INVALID]

Received(c, m) ==
  CASE m.op = "event" -> Dispatch(c, m)
    [] m.op = "answer" -> ReceiveAnswer(c, m)
    [] m.op = "ack" /\ m.what = "profile" -> ProfileChanged(c, m)
    [] m.op = "ack" /\ m.what = "volume" -> VolumeChanged(c, m)
    [] m.op = "noentity" -> c
    [] m.op = "closed" -> ContextFailed(c)

\* The control becomes c, and what it asked for is on its way.
Becomes(c) ==
  \E x \in {c} : control' = [x EXCEPT !.outbox = <<>>] /\ to_server' = to_server \o x.outbox

Running == control.state # "aborted"

ReceiveMessage ==
  /\ Running /\ to_client # <<>> /\ Head(to_client) # Closed
  /\ Becomes(Received(control, Head(to_client)))
  /\ to_client' = Tail(to_client)
  /\ UNCHANGED <<direction, hashed, link, server, wanted, bounds>>

ConnectionFails ==
  /\ Running /\ to_client # <<>> /\ Head(to_client) = Closed
  /\ control' = Received(control, Closed)
  /\ to_client' = <<>> /\ to_server' = <<>>
  /\ UNCHANGED <<direction, hashed, link, server, wanted, bounds>>

IdleReconnect ==
  /\ Running /\ control.ctx = "failed"
  /\ control' = Reconnected(control)
  /\ UNCHANGED <<direction, hashed, to_server, to_client, link, server, wanted, bounds>>

\* PA_CONTEXT_NOFAIL: the context waits for a server.
ContextReady ==
  /\ Running /\ control.ctx = "connecting"
  /\ link' = TRUE
  /\ Becomes(Ready(control))
  /\ UNCHANGED <<direction, hashed, to_client, server, wanted, bounds>>

AtRest == link /\ Connected(control) /\ to_server = <<>> /\ to_client = <<>>

\* Every port of every stream has its device ("This should always find a match").
Matched(c) ==
  \A i \in DOMAIN c.sinks :
    LET s == c.sinks[i] IN
    \A port \in IF SinkPorts[s.name] = {} THEN {NoPort} ELSE SinkPorts[s.name] :
      \E d \in DOMAIN c.devices : c.devices[d].stream = s.id /\ c.devices[d].port = port

\* on_output_selection_changed, on_input_selection_changed
SelectRow(r) ==
  LET d == control.rows[r].dev IN
  /\ Running /\ bounds.selections < MaxSelections
  /\ ~control.rows[r].active /\ d \in DOMAIN control.devices
  /\ \E c \in ChangeDevice(control, d) : Becomes(c)
  /\ wanted' = IF /\ AtRest /\ Matched(control) /\ bounds.failures = 0
                  /\ DefaultDevice(control) # d
                THEN d ELSE INVALID
  /\ bounds' = [bounds EXCEPT !.selections = @ + 1]
  /\ UNCHANGED <<direction, hashed, to_client, link, server>>

\* The bar controls the default stream.
ChangeVolume(i) ==
  /\ Running /\ Connected(control) /\ bounds.selections < MaxSelections
  /\ control.sinks[i].id = control.default_id
  /\ Becomes(PushVolume(control, i))
  /\ bounds' = [bounds EXCEPT !.selections = @ + 1]
  /\ UNCHANGED <<direction, hashed, to_client, link, server, wanted>>

-----------------------------------------------------------------------------
(***************************************************************************)
(* The server: its cards, each with the active profile, the sinks that the *)
(* profiles create, network sinks, and the default.  Indices are not used  *)
(* twice, except that a restarted server counts from 0 again.              *)
(***************************************************************************)

SinkNames(s) == {s.sinks[i].name : i \in DOMAIN s.sinks}
FirstPort(n) == IF SinkPorts[n] = {} THEN NoPort ELSE CHOOSE p \in SinkPorts[n] : TRUE

CreateSink(s, n, card) ==
  [s EXCEPT !.sinks = With(@, s.next_sink, [name |-> n, card |-> card, port |-> FirstPort(n)]),
            !.next_sink = @ + 1]
CreateSinks(s, index, profile) ==
  FoldLeft(LAMBDA b, n : CreateSink(b, n, index), s, SetToSeq(ProfileSinks[profile]))
SinkIndices(s, index) == {i \in DOMAIN s.sinks : s.sinks[i].card = index}

SwitchProfile(s, index, profile) ==
  CreateSinks([s EXCEPT !.sinks = Less(@, SinkIndices(s, index)),
                        !.cards[index].profile = profile], index, profile)
PlugCard(s, c, profile) ==
  CreateSinks([s EXCEPT !.cards = With(@, s.next_card, [name |-> c, profile |-> profile]),
                        !.next_card = @ + 1], s.next_card, profile)
UnplugCard(s, index) ==
  [s EXCEPT !.cards = Less(@, {index}), !.sinks = Less(@, SinkIndices(s, index))]

\* The server keeps its default, moves to a sink that is new, or to any when it is gone.
DefaultChoices(before, after) ==
  LET new == SinkNames(after) \ SinkNames(before) IN
  IF SinkNames(after) = {} THEN {NoName}
  ELSE IF before.default \in SinkNames(after) THEN {before.default} \cup new
  ELSE SinkNames(after)

\* The events of a change: a new card comes before its sinks and goes after them.
IndexEvents(facility, type, S) ==
  FoldLeft(LAMBDA q, i : Append(q, Event(facility, type, i)), <<>>, SetToSeq(S))
EventsOf(before, after) ==
  IndexEvents("card", "new", DOMAIN after.cards \ DOMAIN before.cards)
  \o IndexEvents("sink", "remove", DOMAIN before.sinks \ DOMAIN after.sinks)
  \o IndexEvents("sink", "new", DOMAIN after.sinks \ DOMAIN before.sinks)
  \o IndexEvents("sink", "change", {i \in DOMAIN before.sinks \cap DOMAIN after.sinks :
                                      before.sinks[i] # after.sinks[i]})
  \o IndexEvents("card", "remove", DOMAIN before.cards \ DOMAIN after.cards)
  \o IndexEvents("card", "change",
       {k \in DOMAIN before.cards \cap DOMAIN after.cards :
          \/ before.cards[k] # after.cards[k]
          \/ \E p \in CardPorts(after.cards[k].name) :
               (p \in before.available) # (p \in after.available)})
  \o IF before.default # after.default THEN <<Event("server", "change", AllOf)>> ELSE <<>>

\* The server becomes after, with one of its choices of the default.
ServerBecomes(after, answers) ==
  \E d \in DefaultChoices(server, after) :
    LET chosen == [after EXCEPT !.default = d] IN
    /\ server' = chosen
    /\ to_client' = to_client \o answers \o (IF link THEN EventsOf(server, chosen) ELSE <<>>)

SinkInfo(i) == [index |-> i, name |-> server.sinks[i].name, card |-> server.sinks[i].card,
                port |-> server.sinks[i].port]
CardInfo(k) == [index |-> k, name |-> server.cards[k].name, profile |-> server.cards[k].profile,
                available |-> CardPorts(server.cards[k].name) \cap server.available]

Infos(what) == CASE what = "sink" -> [i \in DOMAIN server.sinks |-> SinkInfo(i)]
                 [] what = "card" -> [k \in DOMAIN server.cards |-> CardInfo(k)]
                 [] OTHER -> <<>>
Entries(f) == FoldLeft(LAMBDA q, i : Append(q, f[i]), <<>>, SetToSortSeq(DOMAIN f, <))

AnswerTo(r) ==
  CASE r.what = "server" -> Answer("server", <<server.default>>, 1)
    [] r.what = "others" -> Answer("others", <<>>, 4)
    [] r.what \in {"client", "sink", "card"} /\ r.index = AllOf ->
         Answer(r.what, Entries(Infos(r.what)), 1)
    [] OTHER -> IF r.index \in DOMAIN Infos(r.what)
                THEN Answer(r.what, <<Infos(r.what)[r.index]>>, 1) ELSE NoEntity

\* The change of a volume is announced as a change of the sink.
Serve(r) ==
  CASE r.op = "get" -> server' = server /\ to_client' = Append(to_client, AnswerTo(r))
    [] r.op = "set_default" ->
         LET d == IF r.name \in SinkNames(server) THEN r.name ELSE server.default
             after == [server EXCEPT !.default = d]
         IN server' = after /\ to_client' = to_client \o EventsOf(server, after)
    [] r.op = "set_port" ->
         LET after == IF r.index \in DOMAIN server.sinks
                      THEN [server EXCEPT !.sinks[r.index].port = r.port] ELSE server
         IN server' = after /\ to_client' = to_client \o EventsOf(server, after)
    [] r.op = "set_profile" ->
         IF /\ r.index \in DOMAIN server.cards
            /\ r.profile \in CardProfiles[server.cards[r.index].name]
            /\ r.profile # server.cards[r.index].profile
         THEN
              /\ ServerBecomes(SwitchProfile(server, r.index, r.profile),
                               <<Ack("profile", r.index, r.id, TRUE)>>)
         ELSE /\ server' = server
              /\ to_client' = Append(to_client, Ack("profile", r.index, r.id,
                                        r.index \in DOMAIN server.cards
                                        /\ r.profile = server.cards[r.index].profile))
    [] r.op = "set_volume" ->
         /\ server' = server
         /\ to_client' = to_client
              \o <<Ack("volume", r.index, r.id, r.index \in DOMAIN server.sinks)>>
              \o IF r.index \in DOMAIN server.sinks
                 THEN <<Event("sink", "change", r.index)>> ELSE <<>>

ServerStep ==
  /\ link /\ to_server # <<>>
  /\ Serve(Head(to_server))
  /\ to_server' = Tail(to_server)
  /\ UNCHANGED <<direction, hashed, control, link, wanted, bounds>>

\* Changes by the hardware and by other clients.
ServerChanges(after) ==
  /\ bounds.events < MaxEvents
  /\ ServerBecomes(after, <<>>)
  /\ bounds' = [bounds EXCEPT !.events = @ + 1]
  /\ wanted' = INVALID
  /\ UNCHANGED <<direction, hashed, control, to_server, link>>

CardPlugged(c, profile) ==
  /\ \A k \in DOMAIN server.cards : server.cards[k].name # c
  /\ ServerChanges(PlugCard(server, c, profile))
CardUnplugged(k) ==
  server.cards[k].name \notin InternalCards /\ ServerChanges(UnplugCard(server, k))
NetworkSinkLoaded(n) ==
  /\ n \notin SinkNames(server)
  /\ ServerChanges(CreateSink(server, n, NoCard))
NetworkSinkUnloaded(i) ==
  /\ server.sinks[i].card = NoCard
  /\ ServerChanges([server EXCEPT !.sinks = Less(@, {i})])
ProfileChangedByOther(k, p) ==
  /\ p # server.cards[k].profile
  /\ ServerChanges(SwitchProfile(server, k, p))
PortChangedByOther(i, port) ==
  /\ port # server.sinks[i].port
  /\ ServerChanges([server EXCEPT !.sinks[i].port = port])
AvailabilityChanged(port) ==
  ServerChanges([server EXCEPT !.available =
                   IF port \in @ THEN @ \ {port} ELSE @ \cup {port}])
DefaultChangedByOther(n) ==
  /\ n # server.default /\ bounds.events < MaxEvents
  /\ server' = [server EXCEPT !.default = n]
  /\ to_client' = to_client \o (IF link THEN EventsOf(server, server') ELSE <<>>)
  /\ bounds' = [bounds EXCEPT !.events = @ + 1]
  /\ wanted' = INVALID
  /\ UNCHANGED <<direction, hashed, control, to_server, link>>

\* A server that has just started, with the built-in cards and those of order.
NoServer(available) ==
  [cards |-> <<>>, sinks |-> <<>>, default |-> NoName, available |-> available,
   next_card |-> 0, next_sink |-> 0]
FirstProfile(c) == CHOOSE p \in CardProfiles[c] : ProfileSinks[p] # {}
Started(order, available) ==
  LET s == FoldLeft(LAMBDA b, c : PlugCard(b, c, FirstProfile(c)), NoServer(available),
                     SetToSeq(InternalCards) \o order)
  IN [s EXCEPT !.default = IF SinkNames(s) = {} THEN NoName ELSE CHOOSE n \in SinkNames(s) : TRUE]
PluggedCards == {server.cards[k].name : k \in DOMAIN server.cards} \ InternalCards

\* The server is started again; the client reads what was sent before it notices.
ServerRestarts ==
  /\ link /\ bounds.failures < MaxFailures
  /\ \E order \in SetToSeqs(PluggedCards) : server' = Started(order, server.available)
  /\ link' = FALSE
  /\ to_client' = Append(to_client, Closed) /\ to_server' = <<>>
  /\ bounds' = [bounds EXCEPT !.failures = @ + 1]
  /\ wanted' = INVALID
  /\ UNCHANGED <<direction, hashed, control>>

-----------------------------------------------------------------------------
NewControl ==
  [state |-> "CONNECTING", ctx |-> "connecting", n_outstanding |-> 0, outbox |-> <<>>,
   sinks |-> <<>>, cards |-> <<>>, devices |-> <<>>, rows |-> <<>>, handlers |-> {},
   default_id |-> INVALID, default_name |-> NoName, swapping |-> INVALID,
   next_stream |-> 1, next_device |-> 1, next_op |-> 1]

Init ==
  /\ direction \in {"output", "input"} /\ hashed \in {"up", "down"}
  /\ control = NewControl
  /\ to_server = <<>> /\ to_client = <<>> /\ link = FALSE
  /\ \E C \in SUBSET (Cards \ InternalCards), available \in {Ports, {}}, N \in SUBSET NetworkNames :
       \E order \in SetToSeqs(C) :
         server = FoldLeft(LAMBDA s, n : CreateSink(s, n, NoCard), Started(order, available),
                           SetToSeq(N))
  /\ wanted = INVALID
  /\ bounds = [events |-> 0, selections |-> 0, failures |-> 0]

Client ==
  \/ ReceiveMessage \/ ConnectionFails \/ IdleReconnect \/ ContextReady
User ==
  \/ \E r \in DOMAIN control.rows : SelectRow(r)
  \/ \E i \in DOMAIN control.sinks : ChangeVolume(i)
World ==
  \/ \E c \in Cards : \E p \in CardProfiles[c] : CardPlugged(c, p)
  \/ \E k \in DOMAIN server.cards : CardUnplugged(k)
  \/ \E n \in NetworkNames : NetworkSinkLoaded(n)
  \/ \E i \in DOMAIN server.sinks : NetworkSinkUnloaded(i)
  \/ \E k \in DOMAIN server.cards :
       \E p \in CardProfiles[server.cards[k].name] : ProfileChangedByOther(k, p)
  \/ \E i \in DOMAIN server.sinks :
       \E port \in SinkPorts[server.sinks[i].name] : PortChangedByOther(i, port)
  \/ \E port \in Ports : AvailabilityChanged(port)
  \/ \E n \in SinkNames(server) : DefaultChangedByOther(n)
  \/ ServerRestarts

Next == Client \/ ServerStep \/ User \/ World

ClientReady ==
  Running /\ (to_client # <<>> \/ control.ctx \in {"failed", "connecting"})
ServerReady == link /\ to_server # <<>>

\* Weak fairness of the client's main loop, which dispatches what arrives, and of the server,
\* which answers; the conditions under which these actions are enabled are written out.
Fairness ==
  /\ <>[]ClientReady => []<><<Client>>_vars
  /\ <>[]ServerReady => []<><<ServerStep>>_vars

Spec == Init /\ [][Next]_vars /\ Fairness

-----------------------------------------------------------------------------
(***************************************************************************)
(* Properties.                                                             *)
(***************************************************************************)

\* The types of the control's fields.
MixerTypeOK ==
  /\ direction \in {"output", "input"} /\ hashed \in {"up", "down"} /\ link \in BOOLEAN
  /\ control.state \in {"CONNECTING", "READY", "FAILED", "aborted"}
  /\ control.ctx \in {"connecting", "ready", "failed"}
  /\ control.n_outstanding \in 0 .. Outstanding
  /\ control.default_name \in Names \cup {NoName}
  /\ \A i \in DOMAIN control.sinks :
       LET s == control.sinks[i] IN
       /\ s.id \in 1 .. control.next_stream - 1
       /\ s.name \in Names
       /\ s.port \in SinkPorts[s.name] \cup {NoPort}
  /\ \A d \in DOMAIN control.devices :
       LET dev == control.devices[d] IN
       /\ d \in 1 .. control.next_device - 1
       /\ dev.card \in DOMAIN control.cards \cup {NoCard}
       /\ dev.port \in Ports \cup {NoPort}
       /\ dev.stream \in 0 .. control.next_stream - 1
  /\ \A r \in DOMAIN control.rows : control.rows[r].dev \in 1 .. control.next_device - 1

Loaded == AtRest /\ control.state = "READY"

\* When nothing is under way, the streams, the cards and the default that the panel has are the
\* server's (update_sink, remove_sink, update_server, update_card), whatever the order in which
\* events and answers came; cards of a former server may remain (idle_reconnect).  At any time, also
\* while the server restarts, the default is a stream that exists and whose port is listened to
\* (remove_stream, _set_default_sink, _set_default_source).
CacheMirrorsServer ==
  /\ MixerTypeOK
  /\ control.default_id # INVALID => control.default_id \in StreamIds(control) \cap control.handlers
  /\ Loaded =>
       /\ DOMAIN control.sinks = DOMAIN server.sinks
       /\ \A i \in DOMAIN server.sinks :
            /\ control.sinks[i].name = server.sinks[i].name
            /\ control.sinks[i].card = server.sinks[i].card
            /\ control.sinks[i].port = server.sinks[i].port
       /\ server.default # NoName =>
            /\ control.default_id # INVALID
            /\ control.sinks[IndexOf(control, control.default_id)].name = server.default
       /\ bounds.failures = 0 =>
            /\ DOMAIN control.cards = DOMAIN server.cards
            /\ \A k \in DOMAIN server.cards :
                 /\ control.cards[k].profile = server.cards[k].profile
                 /\ control.cards[k].available = CardPorts(server.cards[k].name) \cap server.available

\* While the server runs, the list shows every device that can be used once: available ports,
\* and the portless devices that have a stream (on_control_output_added, on_control_output_removed).
RowsMatchDevices ==
  bounds.failures = 0 =>
    /\ \A q, r \in DOMAIN control.rows : q # r => control.rows[q].dev # control.rows[r].dev
    /\ {control.rows[r].dev : r \in DOMAIN control.rows} =
         {d \in DOMAIN control.devices :
            IF control.devices[d].port = NoPort THEN HasStream(control, d)
            ELSE control.devices[d].available}

\* Once everything that followed a choice of the user has been answered, and nobody else has
\* interfered, the stream of the device chosen is the default (change_output, change_input, and
\* profile_swapping_device_id in update_sink).  Its port may be another: a stream that a change
\* of profile brings has the port the server gives it.  "Trust the backend whole heartedly to deliver
\* the correct output": the row that is marked is the one of the default stream's device, whichever
\* device was chosen (ACTIVE_OUTPUT_UPDATE of change_output, _set_default_sink and the port signal).
SelectionWins ==
  AtRest /\ wanted \in DOMAIN control.devices /\ Running =>
    /\ HasStream(control, wanted)
    /\ control.devices[wanted].stream = control.default_id
    /\ \A r \in DOMAIN control.rows :
         control.rows[r].active <=> control.rows[r].dev = DefaultDevice(control)

\* "This method should always find a match": when nothing is under way, each stream has been
\* given to the devices of its ports (sync_devices, match_stream_with_devices).
SyncFindsDevices == Loaded /\ bounds.failures = 0 => Matched(control)

\* A connection that was lost is made again, unless the program has ended (idle_reconnect).
ReadyAfterFailure == control.state = "FAILED" ~> control.state \in {"READY", "aborted"}
=============================================================================
