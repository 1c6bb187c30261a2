-------------------------- MODULE ListPanelProofs ---------------------------
(***************************************************************************)
(* Proofs about the panels of PanelState that keep lists, as PanelProofs   *)
(* has them about others.  What becomes of a list is shown in Lists.       *)
(***************************************************************************)
EXTENDS PanelState, Lists, FiniteSetTheorems

-----------------------------------------------------------------------------
(***************************************************************************)
(* Sharing: the panel, what it waits for, and what it shares, as one       *)
(* record s.                                                               *)
(***************************************************************************)

SharingFields ==
  {"ready", "master", "open", "net", "available", "svc", "login", "rows", "name", "label", "closed"}
SharingWorldFields ==
  {"net", "enabled", "sshd", "pretty", "static", "folders", "guest", "vino", "acts", "changes"}
SharingQuestion == [kind : {"proxy", "bus", "file", "unit", "active", "helper", "label", "timer"}, arg : BOOLEAN]
\* The row of a service.
ServiceRow(a) == DOMAIN a = {"nets", "on", "shown", "sens", "status"} /\ a.on \in BOOLEAN /\ a.sens \in BOOLEAN
\* The fields, the rows of the services, and what the others hold.
SharingForm(s) ==
  /\ DOMAIN s = {"p", "c", "w"} /\ DOMAIN s.p = SharingFields /\ DOMAIN s.w = SharingWorldFields
  /\ DOMAIN s.w.enabled = Config.sharing.Services /\ DOMAIN s.w.vino = {"prompt", "auth", "password"}
  /\ DOMAIN s.p.login = {"on", "sens", "row"}
SharingRows(s) ==
  /\ DOMAIN s.p.svc = Config.sharing.Services /\ s.p.svc = [v \in Config.sharing.Services |-> s.p.svc[v]]
  /\ \A v \in Config.sharing.Services : ServiceRow(s.p.svc[v])
SharingTypes(s) ==
  /\ s.p.login.on \in BOOLEAN
  /\ s.w.sshd \in [active : BOOLEAN, enabled : BOOLEAN]
  /\ s.c \in Seq(SharingQuestion) /\ s.w.changes \in Nat /\ s.w.vino.password \in Nat
SharingState(s) == SharingForm(s) /\ SharingRows(s) /\ SharingTypes(s)

\* A service that says it is off has no network.
SharingStatuses(s) == \A v \in Config.sharing.Services : s.p.svc[v].status # "off" <=> s.p.svc[v].nets # {}

\* The daemon is connected to once, and then nothing is shared that it did not tell.
SharingConnects(s) ==
  /\ \A i \in DOMAIN s.c : s.c[i].kind = "proxy" => i = 1 /\ ~s.p.ready
  /\ ~s.p.ready => \A v \in Config.sharing.Services : ~s.p.svc[v].on /\ ~s.p.svc[v].shown /\ s.p.svc[v].nets = {}

\* The screen asks for a question or for a password, and for one that is empty only while that is typed.
ScreenGuards(s) ==
  /\ s.w.vino.prompt \/ s.w.vino.auth = "vnc"
  /\ s.p.open # "screen" => s.w.vino.prompt \/ (s.w.vino.auth = "vnc" /\ s.w.vino.password > 0)

\* The panel knows the network, and what it is told of the services.
SharingKnows(s) ==
  s.w.changes = 0 =>
    /\ s.p.ready => s.p.net = s.w.net
    /\ \A v \in Config.sharing.Services : /\ s.p.svc[v].nets \subseteq s.w.enabled[v]
                                          /\ s.p.svc[v].shown <=> (s.p.ready /\ s.p.net # Sharing!None)
                                          /\ s.p.svc[v].shown /\ s.p.svc[v].on => s.p.net \in s.w.enabled[v]
                                          /\ s.p.svc[v].shown /\ s.p.svc[v].sens /\ s.p.net \in s.w.enabled[v]
                                             => s.p.svc[v].on

SharingSound(s) == SharingState(s) /\ SharingStatuses(s) /\ SharingConnects(s) /\ ScreenGuards(s) /\ SharingKnows(s)

\* The parts that most steps leave as they are.
SameServices(s, t) ==
  /\ t.p.svc = s.p.svc /\ t.p.net = s.p.net /\ t.w.net = s.w.net /\ t.w.enabled = s.w.enabled
  /\ t.w.changes = s.w.changes /\ t.w.sshd = s.w.sshd
SameScreen(s, t) == t.w.vino = s.w.vino /\ t.p.open = s.p.open
SameCalls(s, t) == t.c = s.c /\ (t.p.ready <=> s.p.ready)

\* A step that leaves the services, the network and what is enabled keeps what is told of them.
LEMMA SharingFrame ==
  ASSUME NEW s, SharingSound(s), NEW t, SharingState(t), SameServices(s, t), t.p.ready <=> s.p.ready,
         ScreenGuards(t),
         \A i \in DOMAIN t.c : t.c[i].kind = "proxy" => i = 1 /\ ~t.p.ready
  PROVE  SharingSound(t)
<1> USE DEF SharingSound, SameServices
<1>1. SharingStatuses(t)
  BY DEF SharingStatuses
<1>2. SharingConnects(t)
  BY DEF SharingConnects
<1>3. SharingKnows(t)
  BY DEF SharingKnows
<1> QED
  BY <1>1, <1>2, <1>3

\* What the panel becomes is sound where that is.
LEMMA SharingBecomes ==
  ASSUME NEW s, SharingSound(s), Sharing!Becomes(s)
  PROVE  SharingSound(Sharing!State)'
<1> USE DEF SharingSound
<1>1. /\ DOMAIN Sharing!State' = {"p", "c", "w"} /\ Sharing!State'.p = s.p /\ Sharing!State'.c = s.c
         /\ Sharing!State'.w = s.w
  BY DEF Sharing!Becomes, Sharing!State, SharingState, SharingForm
<1>2. SharingState(Sharing!State)'
  BY <1>1 DEF SharingState, SharingForm, SharingRows, SharingTypes, ServiceRow
<1>3. SharingStatuses(Sharing!State)' /\ SharingConnects(Sharing!State)'
  BY <1>1 DEF SharingStatuses, SharingConnects
<1>4. ScreenGuards(Sharing!State)' /\ SharingKnows(Sharing!State)'
  BY <1>1 DEF ScreenGuards, SharingKnows
<1> QED
  BY <1>2, <1>3, <1>4

\* Counting the actions disturbs nothing.
LEMMA SharingCounted ==
  ASSUME NEW s, SharingSound(s)
  PROVE  SharingSound([s EXCEPT !.w.acts = @ + 1])
<1> DEFINE t == [s EXCEPT !.w.acts = @ + 1]
<1>1. /\ DOMAIN s = {"p", "c", "w"} /\ DOMAIN s.w = SharingWorldFields
  BY DEF SharingSound, SharingState, SharingForm
<1>2. /\ DOMAIN t = {"p", "c", "w"} /\ t.p = s.p /\ t.c = s.c /\ DOMAIN t.w = SharingWorldFields
      /\ \A f \in SharingWorldFields \ {"acts"} : t.w[f] = s.w[f]
  BY <1>1 DEF SharingWorldFields
<1> HIDE DEF t
<1>3. /\ t.w.net = s.w.net /\ t.w.enabled = s.w.enabled /\ t.w.changes = s.w.changes /\ t.w.vino = s.w.vino
      /\ t.w.sshd = s.w.sshd
  BY <1>2 DEF SharingWorldFields
<1>4. SharingState(t)
  <2>1. SharingForm(t)
    BY <1>2, <1>3 DEF SharingSound, SharingState, SharingForm
  <2>2. SharingRows(t)
    BY <1>2, <1>3 DEF SharingSound, SharingState, SharingRows
  <2>3. SharingTypes(t)
    BY <1>2, <1>3 DEF SharingSound, SharingState, SharingTypes
  <2> QED
    BY <2>1, <2>2, <2>3 DEF SharingState
<1>5. SameServices(s, t) /\ ScreenGuards(t)
  BY <1>2, <1>3 DEF SharingSound, SameServices, ScreenGuards
<1>6. \A i \in DOMAIN t.c : t.c[i].kind = "proxy" => i = 1 /\ ~t.p.ready
  BY <1>2 DEF SharingSound, SharingConnects
<1>7. SharingSound(t)
  BY <1>2, <1>4, <1>5, <1>6, SharingFrame
<1> QED
  BY <1>7 DEF t

\* At first nothing is shared that could be shown.
LEMMA SharingInit == Sharing!Init => SharingSound(Sharing!State)
<1> SUFFICES ASSUME Sharing!Init PROVE SharingSound(Sharing!State)
  OBVIOUS
<1>1. PICK net \in Config.sharing.Networks \cup {Sharing!None}, start \in Config.sharing.Starts, a \in BOOLEAN :
    /\ world = [net |-> net, enabled |-> [v \in Config.sharing.Services |-> IF v \in start
       THEN Config.sharing.Networks ELSE {}], sshd |-> [active |-> a, enabled |-> a], pretty |-> "host",
       static |-> "host",
                folders |-> <<"@MUSIC@">>, guest |-> [require |-> FALSE, written |-> FALSE],
                vino |-> [prompt |-> TRUE, auth |-> "none", password |-> 0], acts |-> 0, changes |-> 0]
    /\ panel = [ready |-> FALSE, master |-> FALSE, open |-> Sharing!None, net |-> Sharing!None, available |-> FALSE,
                svc |-> [v \in Config.sharing.Services |-> [nets |-> {}, on |-> FALSE, shown |-> FALSE,
                sens |-> FALSE, status |-> "off"]],
                login |-> [on |-> FALSE, sens |-> FALSE, row |-> TRUE], rows |-> <<>>, name |-> "host",
                label |-> Sharing!None,
                closed |-> FALSE]
    /\ calls = <<[kind |-> "proxy", arg |-> FALSE]>>
  BY DEF Sharing!Init
<1>2. /\ DOMAIN panel = SharingFields /\ ~panel.ready /\ panel.net = Sharing!None /\ panel.open = Sharing!None
      /\ panel.svc = [v \in Config.sharing.Services |-> [nets |-> {}, on |-> FALSE, shown |-> FALSE,
         sens |-> FALSE, status |-> "off"]]
      /\ panel.login = [on |-> FALSE, sens |-> FALSE, row |-> TRUE]
  BY <1>1 DEF SharingFields
<1>3. /\ DOMAIN world = SharingWorldFields /\ world.changes = 0
         /\ world.vino = [prompt |-> TRUE, auth |-> "none", password |-> 0]
      /\ DOMAIN world.enabled = Config.sharing.Services
  BY <1>1 DEF SharingWorldFields
<1>4. /\ calls \in Seq(SharingQuestion) /\ Len(calls) = 1
  BY <1>1 DEF SharingQuestion
<1>5. /\ Sharing!State.p = panel /\ Sharing!State.c = calls /\ Sharing!State.w = world
         /\ DOMAIN Sharing!State = {"p", "c", "w"}
  BY DEF Sharing!State
<1>6. /\ DOMAIN panel.svc = Config.sharing.Services /\ panel.svc = [v \in Config.sharing.Services |-> panel.svc[v]]
      /\ \A v \in Config.sharing.Services : DOMAIN panel.svc[v] = {"nets", "on", "shown", "sens", "status"}
         /\ panel.svc[v].on = FALSE /\ panel.svc[v].sens = FALSE
                                             /\ panel.svc[v].nets = {} /\ panel.svc[v].status = "off"
                                                /\ ~panel.svc[v].shown
  BY <1>2
<1>7. DOMAIN panel.login = {"on", "sens", "row"} /\ panel.login.on = FALSE
  BY <1>2
<1>8. DOMAIN world.vino = {"prompt", "auth", "password"} /\ world.vino.password = 0 /\ world.vino.prompt
  BY <1>3
<1>9. SharingState(Sharing!State)
  <2>1. DOMAIN Sharing!State.p.svc = Config.sharing.Services
        /\ Sharing!State.p.svc = [v \in Config.sharing.Services |-> Sharing!State.p.svc[v]]
    BY <1>5, <1>6
  <2>2. \A v \in Config.sharing.Services : DOMAIN Sharing!State.p.svc[v] = {"nets", "on", "shown", "sens",
        "status"} /\ Sharing!State.p.svc[v].on \in BOOLEAN /\ Sharing!State.p.svc[v].sens \in BOOLEAN
    BY <1>5, <1>6
  <2>3. DOMAIN Sharing!State.w.enabled = Config.sharing.Services
        /\ DOMAIN Sharing!State.w.vino = {"prompt", "auth", "password"}
    BY <1>3, <1>5, <1>8
  <2>4. DOMAIN Sharing!State.p.login = {"on", "sens", "row"} /\ Sharing!State.p.login.on \in BOOLEAN
    BY <1>5, <1>7
  <2>5. Sharing!State.w.sshd \in [active : BOOLEAN, enabled : BOOLEAN]
    BY <1>1, <1>5
  <2>6. Sharing!State.c \in Seq(SharingQuestion) /\ Sharing!State.w.changes \in Nat
        /\ Sharing!State.w.vino.password \in Nat
    BY <1>3, <1>4, <1>5, <1>8
  <2> QED
    BY <1>2, <1>3, <1>5, <2>1, <2>2, <2>3, <2>4, <2>6, <2>5 DEF SharingState, SharingForm, SharingRows,
       SharingTypes, ServiceRow
<1>10. SharingConnects(Sharing!State)
  <2>1. \A i \in DOMAIN calls : i = 1
    BY <1>4
  <2> QED
    BY <1>2, <1>5, <1>6, <2>1 DEF SharingConnects
<1>11. SharingStatuses(Sharing!State)
  BY <1>6, <1>5 DEF SharingStatuses
<1>12. ScreenGuards(Sharing!State)
  BY <1>8, <1>5 DEF ScreenGuards
<1>13. SharingKnows(Sharing!State)
  BY <1>2, <1>6, <1>5 DEF SharingKnows
<1> QED
  BY <1>9, <1>10, <1>11, <1>12, <1>13 DEF SharingSound

\* The panel and the world but for some fields.
SharingSame(s, t, fields) ==
  /\ DOMAIN t = {"p", "c", "w"} /\ DOMAIN t.p = SharingFields /\ DOMAIN t.w = SharingWorldFields
  /\ \A f \in SharingFields \ fields : t.p[f] = s.p[f]
  /\ \A f \in SharingWorldFields \ fields : t.w[f] = s.w[f]

\* What is waited for after something else was asked, or answered.
NoProxies(s, c) == c \in Seq(SharingQuestion) /\ \A i \in DOMAIN c : c[i].kind = "proxy" => i = 1 /\ ~s.p.ready
\* A step changes none of the fields that the services are told by.
SharingOther == {"master", "open", "login", "rows", "name", "label", "closed", "available",
                 "pretty", "static", "folders", "guest", "vino", "acts"}

\* A step that changes only the other fields.
LEMMA SharingQuiet ==
  ASSUME NEW s, SharingSound(s), NEW t,
         SharingSame(s, t, SharingOther),
         NoProxies(s, t.c), ScreenGuards(t),
         t.w.vino = s.w.vino \/ (DOMAIN t.w.vino = {"prompt", "auth", "password"} /\ t.w.vino.password \in Nat),
         t.p.login = s.p.login \/ (DOMAIN t.p.login = {"on", "sens", "row"} /\ t.p.login.on \in BOOLEAN)
  PROVE  SharingSound(t)
<1>1. /\ t.p.ready = s.p.ready /\ t.p.svc = s.p.svc /\ t.p.net = s.p.net
      /\ t.w.net = s.w.net /\ t.w.enabled = s.w.enabled /\ t.w.changes = s.w.changes /\ t.w.sshd = s.w.sshd
      /\ DOMAIN t = {"p", "c", "w"} /\ DOMAIN t.p = SharingFields /\ DOMAIN t.w = SharingWorldFields
  BY DEF SharingSame, SharingOther, SharingFields, SharingWorldFields
<1>2. SharingState(t)
  <2>1. t.c \in Seq(SharingQuestion)
    BY DEF NoProxies
  <2>2. DOMAIN t.w.vino = {"prompt", "auth", "password"} /\ t.w.vino.password \in Nat
    BY DEF SharingSound, SharingState, SharingForm, SharingTypes
  <2>3. DOMAIN t.p.login = {"on", "sens", "row"} /\ t.p.login.on \in BOOLEAN
    BY DEF SharingSound, SharingState, SharingForm, SharingTypes
  <2> QED
    BY <1>1, <2>1, <2>2, <2>3 DEF SharingSound, SharingState, SharingForm, SharingRows, SharingTypes, ServiceRow
<1> QED
  BY <1>1, <1>2, SharingFrame DEF SameServices, NoProxies

\* The guards, where the screen and its dialog are as they were.
LEMMA GuardsStay ==
  ASSUME NEW s, SharingSound(s), NEW t, t.w.vino = s.w.vino, t.p.open = s.p.open
  PROVE  ScreenGuards(t)
BY DEF SharingSound, ScreenGuards

\* Something else is asked.
LEMMA SharingAsks ==
  ASSUME NEW s, SharingSound(s), NEW q \in SharingQuestion, q.kind # "proxy"
  PROVE  NoProxies(s, s.c) /\ NoProxies(s, Append(s.c, q))
<1>1. s.c \in Seq(SharingQuestion) /\ Append(s.c, q) \in Seq(SharingQuestion)
  BY DEF SharingSound, SharingState, SharingTypes
<1>2. \A i \in DOMAIN s.c : s.c[i].kind = "proxy" => i = 1 /\ ~s.p.ready
  BY DEF SharingSound, SharingConnects
<1>3. \A i \in DOMAIN Append(s.c, q) : (i \in DOMAIN s.c /\ Append(s.c, q)[i] = s.c[i]) \/ Append(s.c, q)[i] = q
  BY <1>1
<1> QED
  BY <1>1, <1>2, <1>3 DEF NoProxies

\* Something is answered, and the daemon no longer awaited if that was the daemon.
LEMMA SharingAnswered ==
  ASSUME NEW s, SharingSound(s), NEW i \in DOMAIN s.c
  PROVE  /\ NoProxies(s, Sharing!RemoveAt(s.c, i))
         /\ i = 1 => \A j \in DOMAIN Sharing!RemoveAt(s.c, i) : Sharing!RemoveAt(s.c, i)[j].kind # "proxy"
<1> DEFINE c == Sharing!RemoveAt(s.c, i)
<1>1. s.c \in Seq(SharingQuestion) /\ Len(s.c) \in Nat /\ i \in 1..Len(s.c)
  BY DEF SharingSound, SharingState, SharingTypes
<1>2. c = SubSeq(s.c, 1, i - 1) \o SubSeq(s.c, i + 1, Len(s.c))
  BY DEF Sharing!RemoveAt
<1> HIDE DEF c
<1>3. c \in Seq(SharingQuestion) /\ OneLess(s.c, i, c)
  <2>1. s.c \in Seq(SharingQuestion) /\ i \in DOMAIN s.c
    BY <1>1
  <2> QED
    BY <1>2, <2>1, WithoutOne, Zenon
<1>4. \A j \in DOMAIN s.c : s.c[j].kind = "proxy" => j = 1 /\ ~s.p.ready
  BY DEF SharingSound, SharingConnects
<1>5. \A j \in DOMAIN c : (c[j].kind = "proxy" => j = 1 /\ ~s.p.ready) /\ (i = 1 => c[j].kind # "proxy")
  <2> SUFFICES ASSUME NEW j \in DOMAIN c
               PROVE  (c[j].kind = "proxy" => j = 1 /\ ~s.p.ready) /\ (i = 1 => c[j].kind # "proxy")
    OBVIOUS
  <2>1. j \in Nat \ {0} /\ j + 1 # 1
    BY <1>3
  <2> QED
    BY <1>1, <1>3, <1>4, <2>1 DEF OneLess
<1> QED
  BY <1>3, <1>5 DEF NoProxies, c

\* The panel's lists are those of Lists.
LEMMA SharingKeptIsSeq ==
  ASSUME NEW T, NEW list \in Seq(T), NEW places
  PROVE  /\ Sharing!Kept(list, places) \in Seq(T)
         /\ \A k \in DOMAIN Sharing!Kept(list, places) :
              \E n \in DOMAIN list : n >= k /\ n \in places /\ Sharing!Kept(list, places)[k] = list[n]
<1>1. Sharing!Kept(list, places) = Kept(list, places)
  BY DEF Sharing!Kept, Kept
<1> QED
  BY <1>1, KeptIsSeq

\* Some of the questions are dropped.
LEMMA SharingKept ==
  ASSUME NEW s, SharingSound(s), NEW places
  PROVE  /\ NoProxies(s, Sharing!Kept(s.c, places))
         /\ (\A n \in places : s.c[n].kind # "proxy") =>
            \A k \in DOMAIN Sharing!Kept(s.c, places) : Sharing!Kept(s.c, places)[k].kind # "proxy"
<1>1. s.c \in Seq(SharingQuestion)
  BY DEF SharingSound, SharingState, SharingTypes
<1>2. /\ Sharing!Kept(s.c, places) \in Seq(SharingQuestion)
      /\ \A k \in DOMAIN Sharing!Kept(s.c, places) : \E n \in DOMAIN s.c : n >= k /\ n \in places
         /\ Sharing!Kept(s.c, places)[k] = s.c[n]
  BY <1>1, SharingKeptIsSeq
<1>3. \A n \in DOMAIN s.c : s.c[n].kind = "proxy" => n = 1 /\ ~s.p.ready
  BY DEF SharingSound, SharingConnects
<1>4. ASSUME NEW k \in DOMAIN Sharing!Kept(s.c, places), Sharing!Kept(s.c, places)[k].kind = "proxy"
      PROVE k = 1 /\ ~s.p.ready
  <2>1. k \in Nat \ {0}
    BY <1>2
  <2> QED
    BY <1>2, <1>3, <1>4, <2>1
<1> QED
  BY <1>2, <1>4 DEF NoProxies

\* What is known of a service when nobody else changed the networks.
SharingKnowsOf(s, v, a) ==
  s.w.changes = 0 =>
    /\ a.nets \subseteq s.w.enabled[v]
    /\ a.shown <=> (s.p.ready /\ s.p.net # Sharing!None)
    /\ a.shown /\ a.on => s.p.net \in s.w.enabled[v]
    /\ a.shown /\ a.sens /\ s.p.net \in s.w.enabled[v] => a.on

\* What is known is known of each service.
LEMMA KnowsByServices ==
  ASSUME NEW s
  PROVE  SharingKnows(s) <=> /\ \A v \in Config.sharing.Services : SharingKnowsOf(s, v, s.p.svc[v])
                             /\ s.w.changes = 0 /\ s.p.ready => s.p.net = s.w.net
BY DEF SharingKnows, SharingKnowsOf

\* Some rows become others, and tell how they are.
LEMMA StatusUpdated ==
  ASSUME NEW s, SharingState(s), NEW rows, NEW services \in SUBSET Config.sharing.Services,
         DOMAIN rows = services, s.p.ready,
         \A v \in services : ServiceRow(rows[v]) /\ SharingKnowsOf(s, v, rows[v]),
         \A v \in Config.sharing.Services \ services : /\ s.p.svc[v].status # "off" <=> s.p.svc[v].nets # {}
                                                       /\ SharingKnowsOf(s, v, s.p.svc[v]),
         s.w.changes = 0 => s.p.net = s.w.net,
         ScreenGuards(s), \A i \in DOMAIN s.c : s.c[i].kind # "proxy"
  PROVE  LET t == Sharing!UpdateStatus(s, rows) IN SharingSound(t) /\ t.c = s.c /\ t.w = s.w
<1> DEFINE told == [v \in DOMAIN rows |-> [rows[v] EXCEPT !.status = Sharing!Status(s.p, v, rows[v])]]
           svc == [v \in Config.sharing.Services |-> IF v \in services THEN told[v] ELSE s.p.svc[v]]
           t == Sharing!UpdateStatus(s, rows)
<1>1. /\ DOMAIN s = {"p", "c", "w"} /\ DOMAIN s.p = SharingFields /\ DOMAIN s.w = SharingWorldFields
         /\ DOMAIN s.p.svc = Config.sharing.Services
  BY DEF SharingState, SharingForm, SharingRows
<1>2. /\ DOMAIN t = {"p", "c", "w"} /\ DOMAIN t.p = SharingFields /\ t.c = s.c /\ t.w = s.w /\ t.p.svc = svc
      /\ \A f \in SharingFields \ {"svc", "master"} : t.p[f] = s.p[f]
  BY <1>1 DEF Sharing!UpdateStatus, SharingFields
<1>3. t.p.net = s.p.net /\ t.p.ready = s.p.ready /\ t.p.open = s.p.open /\ t.p.login = s.p.login
  BY <1>2 DEF SharingFields
<1>4. ASSUME NEW v \in services
      PROVE  /\ DOMAIN told[v] = {"nets", "on", "shown", "sens", "status"}
             /\ told[v].nets = rows[v].nets /\ told[v].on = rows[v].on /\ told[v].shown = rows[v].shown
             /\ told[v].sens = rows[v].sens
             /\ told[v].status # "off" <=> told[v].nets # {}
  <2>1. told[v] = [rows[v] EXCEPT !.status = Sharing!Status(s.p, v, rows[v])] /\ ServiceRow(rows[v])
    OBVIOUS
  <2> HIDE DEF told
  <2>2. /\ DOMAIN told[v] = {"nets", "on", "shown", "sens", "status"}
           /\ told[v].status = Sharing!Status(s.p, v, rows[v])
        /\ told[v].nets = rows[v].nets /\ told[v].on = rows[v].on /\ told[v].shown = rows[v].shown
        /\ told[v].sens = rows[v].sens
    BY <2>1 DEF ServiceRow
  <2>3. Sharing!Status(s.p, v, rows[v]) # "off" <=> rows[v].nets # {}
    BY DEF Sharing!Status
  <2> QED
    BY <2>2, <2>3
<1>5. /\ DOMAIN svc = Config.sharing.Services /\ svc = [v \in Config.sharing.Services |-> svc[v]]
      /\ \A v \in services : svc[v] = told[v]
      /\ \A v \in Config.sharing.Services \ services : svc[v] = s.p.svc[v]
  OBVIOUS
<1> HIDE DEF svc, told, t
<1>6. ASSUME NEW v \in Config.sharing.Services
      PROVE  /\ ServiceRow(svc[v]) /\ SharingKnowsOf(t, v, svc[v])
             /\ svc[v].status # "off" <=> svc[v].nets # {}
  <2>1. CASE v \in services
    <3>1. ServiceRow(rows[v]) /\ SharingKnowsOf(s, v, rows[v])
      BY <2>1
    <3>2. ServiceRow(svc[v])
      BY <1>4, <1>5, <2>1, <3>1 DEF ServiceRow
    <3>3. svc[v].nets = rows[v].nets /\ svc[v].on = rows[v].on /\ svc[v].shown = rows[v].shown
          /\ svc[v].sens = rows[v].sens
      BY <1>4, <1>5, <2>1
    <3>4. SharingKnowsOf(t, v, svc[v])
      BY <1>2, <1>3, <3>1, <3>3 DEF SharingKnowsOf
    <3> QED
      <4>1. svc[v] = told[v] /\ (told[v].status # "off" <=> told[v].nets # {})
        BY <1>4, <1>5, <2>1
      <4> QED
        BY <3>2, <3>4, <4>1
  <2>2. CASE v \in Config.sharing.Services \ services
    <3>1. SharingKnowsOf(s, v, s.p.svc[v]) /\ (s.p.svc[v].status # "off" <=> s.p.svc[v].nets # {})
          /\ ServiceRow(s.p.svc[v])
      BY <2>2 DEF SharingState, SharingRows
    <3>2. SharingKnowsOf(t, v, svc[v])
      BY <1>2, <1>3, <1>5, <2>2, <3>1 DEF SharingKnowsOf
    <3> QED
      BY <1>5, <2>2, <3>1, <3>2
  <2> QED
    BY <2>1, <2>2
<1>7. SharingState(t)
  <2>1. \A v \in Config.sharing.Services : DOMAIN t.p.svc[v] = {"nets", "on", "shown", "sens", "status"}
        /\ t.p.svc[v].on \in BOOLEAN /\ t.p.svc[v].sens \in BOOLEAN
    BY <1>2, <1>6 DEF ServiceRow
  <2>2. DOMAIN t.p.svc = Config.sharing.Services /\ t.p.svc = [v \in Config.sharing.Services |-> t.p.svc[v]]
    BY <1>2, <1>5
  <2>3. SharingForm(t)
    BY <1>1, <1>2, <1>3 DEF SharingState, SharingForm
  <2>4. SharingRows(t)
    BY <2>1, <2>2 DEF SharingRows, ServiceRow
  <2>5. SharingTypes(t)
    BY <1>2, <1>3 DEF SharingState, SharingTypes
  <2> QED
    BY <2>3, <2>4, <2>5 DEF SharingState
<1>8. SharingStatuses(t)
  BY <1>2, <1>6 DEF SharingStatuses
<1>9. SharingConnects(t)
  BY <1>2, <1>3 DEF SharingConnects
<1>10. ScreenGuards(t)
  BY <1>2, <1>3 DEF ScreenGuards
<1>11. SharingKnows(t)
  BY <1>2, <1>3, <1>6, KnowsByServices
<1> QED
  BY <1>2, <1>7, <1>8, <1>9, <1>10, <1>11 DEF SharingSound, t

\* The networks are listed again, for some services; what is known of the others is not disturbed.
LEMMA ServicesUpdated ==
  ASSUME NEW s, SharingState(s), NEW services \in SUBSET Config.sharing.Services, s.p.ready, NEW listed,
         s.w.changes = 0 =>
           /\ s.p.net = s.w.net
           /\ \A v \in services : s.p.net # Sharing!None /\ s.p.svc[v].on => s.p.net \in s.w.enabled[v],
         \A v \in Config.sharing.Services \ services : /\ s.p.svc[v].status # "off" <=> s.p.svc[v].nets # {}
                                                       /\ SharingKnowsOf(s, v, s.p.svc[v]),
         ScreenGuards(s), \A i \in DOMAIN s.c : s.c[i].kind # "proxy"
  PROVE  LET t == Sharing!UpdateServices(s, services, listed) IN SharingSound(t) /\ t.c = s.c /\ t.w = s.w
<1> DEFINE u == Sharing!Heard(s, services \subseteq listed)
           Available(v) == s.p.available /\ ~\E x \in services \ listed : x = v \/ Sharing!Before(x, v)
           rows == [v \in services |->
                      Sharing!UpdateNetworksBox(u.p, Sharing!UpdateNetworks(u, v, v \in listed), Available(v))]
<1>1. /\ DOMAIN s = {"p", "c", "w"} /\ DOMAIN s.p = SharingFields /\ DOMAIN s.p.svc = Config.sharing.Services
  BY DEF SharingState, SharingForm, SharingRows
<1>2. /\ DOMAIN u = {"p", "c", "w"} /\ DOMAIN u.p = SharingFields /\ u.c = s.c /\ u.w = s.w
      /\ \A f \in SharingFields \ {"available"} : u.p[f] = s.p[f]
  BY <1>1 DEF Sharing!Heard, SharingFields
<1>3. u.p.net = s.p.net /\ u.p.ready = s.p.ready /\ u.p.open = s.p.open /\ u.p.login = s.p.login
      /\ u.p.svc = s.p.svc
  BY <1>2 DEF SharingFields
<1> HIDE DEF u
<1>4. SharingState(u)
  <2>1. SharingForm(u)
    BY <1>2, <1>3 DEF SharingState, SharingForm
  <2>2. SharingRows(u)
    BY <1>2, <1>3 DEF SharingState, SharingRows
  <2>3. SharingTypes(u)
    BY <1>2, <1>3 DEF SharingState, SharingTypes
  <2> QED
    BY <2>1, <2>2, <2>3 DEF SharingState
<1>5. ScreenGuards(u)
  BY <1>2, <1>3 DEF ScreenGuards
<1>6. \A v \in Config.sharing.Services \ services : /\ u.p.svc[v].status # "off" <=> u.p.svc[v].nets # {}
                                                    /\ SharingKnowsOf(u, v, u.p.svc[v])
  BY <1>2, <1>3 DEF SharingKnowsOf
<1>7. ASSUME NEW v \in services PROVE ServiceRow(rows[v]) /\ SharingKnowsOf(u, v, rows[v])
  <2> DEFINE a == Sharing!UpdateNetworks(u, v, v \in listed)
             available == Available(v)
             b == Sharing!UpdateNetworksBox(u.p, a, available)
  <2>1. v \in Config.sharing.Services /\ DOMAIN s.p.svc[v] = {"nets", "on", "shown", "sens", "status"}
        /\ s.p.svc[v].on \in BOOLEAN /\ s.p.svc[v].sens \in BOOLEAN
    BY DEF SharingState, SharingRows, ServiceRow
  <2>2. /\ DOMAIN a = {"nets", "on", "shown", "sens", "status"} /\ a.on = s.p.svc[v].on
        /\ a.sens = s.p.svc[v].sens /\ a.nets = IF v \in listed THEN s.w.enabled[v] ELSE {}
    BY <1>2, <1>3, <2>1 DEF Sharing!UpdateNetworks
  <2>3. available \in BOOLEAN /\ (available => v \in listed)
    OBVIOUS
  <2>4. b = rows[v]
    OBVIOUS
  <2> HIDE DEF a, available
  <2>5. /\ DOMAIN b = {"nets", "on", "shown", "sens", "status"} /\ (b.on <=> (a.on \/ s.p.net \in a.nets))
        /\ b.nets = a.nets /\ (b.shown <=> s.p.net # Sharing!None) /\ b.on \in BOOLEAN
        /\ b.sens = IF s.p.net # Sharing!None THEN available ELSE a.sens
    BY <1>3, <2>1, <2>2 DEF Sharing!UpdateNetworksBox
  <2> HIDE DEF b, rows
  <2>6. ServiceRow(b)
    BY <2>1, <2>2, <2>3, <2>5 DEF ServiceRow
  <2>7. SharingKnowsOf(u, v, b)
    BY <1>2, <1>3, <2>2, <2>3, <2>5 DEF SharingKnowsOf
  <2> QED
    BY <2>4, <2>6, <2>7
<1>8. DOMAIN rows = services
  OBVIOUS
<1>9. /\ u.p.ready /\ (u.w.changes = 0 => u.p.net = u.w.net) /\ \A i \in DOMAIN u.c : u.c[i].kind # "proxy"
  BY <1>2, <1>3
<1>10. Sharing!UpdateServices(s, services, listed) = Sharing!UpdateStatus(u, rows)
  BY DEF Sharing!UpdateServices, u
<1> HIDE DEF rows
<1> QED
  BY <1>2, <1>4, <1>5, <1>6, <1>7, <1>8, <1>9, <1>10, StatusUpdated

\* The switch of a service is turned, and so is the service.
LEMMA NetworkEnabled ==
  ASSUME NEW s, SharingSound(s), NEW v \in Config.sharing.Services, s.p.svc[v].shown, NEW on \in BOOLEAN,
         NEW done \in BOOLEAN,
         NEW listed \in BOOLEAN, s.p.svc[v].on <=> ~on, s.p.svc[v].sens
  PROVE  LET t == Sharing!EnableNetwork(s, v, on, done, listed) IN SharingSound(t) /\ t.c = s.c
<1> DEFINE enabled == IF on THEN s.w.enabled[v] \cup ({s.w.net} \ {Sharing!None}) ELSE s.w.enabled[v] \ {s.p.net}
           all == [s.w.enabled EXCEPT ![v] = IF done THEN enabled ELSE @]
           r == [s EXCEPT !.w.enabled[v] = IF done THEN enabled ELSE @, !.p.svc[v].on = (on = done)]
           u == Sharing!Heard(r, listed)
           rows == [x \in {v} |-> Sharing!UpdateNetworks(u, v, listed)]
<1>1. /\ DOMAIN s = {"p", "c", "w"} /\ DOMAIN s.p = SharingFields /\ DOMAIN s.p.svc = Config.sharing.Services
      /\ DOMAIN s.w = SharingWorldFields /\ DOMAIN s.w.enabled = Config.sharing.Services
      /\ DOMAIN s.p.svc[v] = {"nets", "on", "shown", "sens", "status"}
      /\ s.p.svc[v].on \in BOOLEAN /\ s.p.svc[v].sens \in BOOLEAN
  BY DEF SharingSound, SharingState, SharingForm, SharingRows, ServiceRow
<1>2. s.p.ready
  BY DEF SharingSound, SharingConnects
<1>3. /\ DOMAIN r = {"p", "c", "w"} /\ DOMAIN r.p = SharingFields /\ DOMAIN r.w = SharingWorldFields /\ r.c = s.c
      /\ r.w.enabled = all /\ r.p.svc = [s.p.svc EXCEPT ![v].on = (on = done)]
      /\ \A f \in SharingFields \ {"svc"} : r.p[f] = s.p[f]
      /\ \A f \in SharingWorldFields \ {"enabled"} : r.w[f] = s.w[f]
  BY <1>1 DEF SharingFields, SharingWorldFields
<1>4. /\ r.p.net = s.p.net /\ r.p.ready = s.p.ready /\ r.p.open = s.p.open /\ r.p.login = s.p.login
      /\ r.w.net = s.w.net /\ r.w.changes = s.w.changes /\ r.w.vino = s.w.vino /\ r.w.sshd = s.w.sshd
  BY <1>3 DEF SharingFields, SharingWorldFields
<1>5. /\ DOMAIN all = Config.sharing.Services /\ \A x \in Config.sharing.Services \ {v} : all[x] = s.w.enabled[x]
      /\ all[v] = IF done THEN enabled ELSE s.w.enabled[v]
  BY <1>1
<1>6. /\ DOMAIN r.p.svc = Config.sharing.Services /\ r.p.svc = [x \in Config.sharing.Services |-> r.p.svc[x]]
      /\ \A x \in Config.sharing.Services \ {v} : r.p.svc[x] = s.p.svc[x]
      /\ r.p.svc[v] = [s.p.svc[v] EXCEPT !.on = (on = done)]
  <2> HIDE DEF r
  <2>1. DOMAIN [s.p.svc EXCEPT ![v].on = (on = done)] = Config.sharing.Services
    BY <1>1
  <2> QED
    BY <1>1, <1>3, <2>1
<1> HIDE DEF r
<1>7. /\ DOMAIN r.p.svc[v] = {"nets", "on", "shown", "sens", "status"} /\ r.p.svc[v].on \in BOOLEAN
      /\ (r.p.svc[v].on <=> (on <=> done)) /\ r.p.svc[v].shown = s.p.svc[v].shown
      /\ r.p.svc[v].sens \in BOOLEAN
  BY <1>1, <1>6
<1>8. /\ DOMAIN u = {"p", "c", "w"} /\ DOMAIN u.p = SharingFields /\ u.c = r.c /\ u.w = r.w
      /\ \A f \in SharingFields \ {"available"} : u.p[f] = r.p[f]
  BY <1>3 DEF Sharing!Heard, SharingFields
<1>9. u.p.net = s.p.net /\ u.p.ready = s.p.ready /\ u.p.open = s.p.open /\ u.p.login = s.p.login
      /\ u.p.svc = r.p.svc
  BY <1>4, <1>8 DEF SharingFields
<1> HIDE DEF u
<1>10. SharingState(u)
  <2>1. SharingState(s)
    BY DEF SharingSound
  <2>2. ASSUME NEW x \in Config.sharing.Services PROVE ServiceRow(u.p.svc[x])
    <3>1. x # v => ServiceRow(s.p.svc[x])
      BY <2>1 DEF SharingState, SharingRows
    <3>2. ServiceRow(r.p.svc[v])
      BY <1>7 DEF ServiceRow
    <3> QED
      BY <1>6, <1>9, <3>1, <3>2
  <2>3. DOMAIN u.p.svc = Config.sharing.Services /\ u.p.svc = [x \in Config.sharing.Services |-> u.p.svc[x]]
    BY <1>6, <1>9
  <2> HIDE DEF all
  <2>4. SharingForm(u)
    BY <1>3, <1>4, <1>5, <1>8, <1>9, <2>1 DEF SharingState, SharingForm
  <2>5. SharingRows(u)
    BY <2>2, <2>3 DEF SharingRows
  <2>6. SharingTypes(u)
    BY <1>3, <1>4, <1>8, <1>9, <2>1 DEF SharingState, SharingTypes
  <2> QED
    BY <2>4, <2>5, <2>6 DEF SharingState
<1>11. ScreenGuards(u)
  BY <1>4, <1>8, <1>9 DEF ScreenGuards, SharingSound
<1>12. \A x \in Config.sharing.Services \ {v} : SharingKnowsOf(s, x, s.p.svc[x])
       /\ (s.p.svc[x].status # "off" <=> s.p.svc[x].nets # {})
  BY KnowsByServices DEF SharingSound, SharingStatuses
<1> HIDE DEF all
<1>13. ASSUME NEW x \in Config.sharing.Services \ {v}
       PROVE  (u.p.svc[x].status # "off" <=> u.p.svc[x].nets # {}) /\ SharingKnowsOf(u, x, u.p.svc[x])
  <2>1. /\ u.p.svc[x] = s.p.svc[x] /\ u.w.enabled[x] = s.w.enabled[x] /\ u.w.changes = s.w.changes
        /\ u.p.ready = s.p.ready /\ u.p.net = s.p.net
    BY <1>3, <1>4, <1>5, <1>6, <1>8, <1>9
  <2> QED
    BY <1>12, <2>1 DEF SharingKnowsOf
<1>14. ServiceRow(rows[v]) /\ SharingKnowsOf(u, v, rows[v])
  <2> DEFINE a == Sharing!UpdateNetworks(u, v, listed)
  <2>1. /\ DOMAIN a = {"nets", "on", "shown", "sens", "status"} /\ a.on = r.p.svc[v].on
           /\ a.shown = s.p.svc[v].shown /\ a.sens = r.p.svc[v].sens
        /\ a.nets = IF listed THEN all[v] ELSE {}
    BY <1>3, <1>7, <1>8, <1>9 DEF Sharing!UpdateNetworks
  <2>2. a = rows[v]
    OBVIOUS
  <2> HIDE DEF a, rows
  <2>3. SharingKnowsOf(s, v, s.p.svc[v]) /\ (s.w.changes = 0 => s.p.net = s.w.net)
    BY <1>2, KnowsByServices DEF SharingSound
  <2>4. ServiceRow(a)
    BY <1>7, <2>1 DEF ServiceRow
  <2>5. SharingKnowsOf(u, v, a)
    BY <1>1, <1>2, <1>3, <1>4, <1>5, <1>7, <1>8, <1>9, <2>1, <2>3 DEF SharingKnowsOf
  <2> QED
    BY <2>2, <2>4, <2>5
<1>15. u.w.changes = 0 => u.p.net = u.w.net
  BY <1>2, <1>4, <1>8, <1>9 DEF SharingSound, SharingKnows
<1>16. \A i \in DOMAIN u.c : u.c[i].kind # "proxy"
  BY <1>2, <1>3, <1>8 DEF SharingSound, SharingConnects
<1>17. DOMAIN rows = {v} /\ {v} \in SUBSET Config.sharing.Services
       /\ Sharing!EnableNetwork(s, v, on, done, listed) = Sharing!UpdateStatus(u, rows)
  BY DEF Sharing!EnableNetwork, u, r
<1> HIDE DEF rows
<1>18. \A x \in {v} : ServiceRow(rows[x]) /\ SharingKnowsOf(u, x, rows[x])
  BY <1>14
<1>19. SharingSound(Sharing!UpdateStatus(u, rows)) /\ Sharing!UpdateStatus(u, rows).c = u.c
  BY <1>2, <1>9, <1>10, <1>11, <1>13, <1>15, <1>16, <1>17, <1>18, StatusUpdated
<1> QED
  BY <1>3, <1>8, <1>17, <1>19

\* What the user does is counted.
LEMMA SharingByUser ==
  ASSUME NEW s, SharingSound(s), Sharing!ByUser(s)
  PROVE  SharingSound(Sharing!State)'
BY SharingCounted, SharingBecomes DEF Sharing!ByUser

\* The fields of a sound state.
LEMMA SharingDomains ==
  ASSUME NEW s, SharingSound(s)
  PROVE  /\ DOMAIN s = {"p", "c", "w"} /\ DOMAIN s.p = SharingFields /\ DOMAIN s.w = SharingWorldFields
         /\ DOMAIN s.p.login = {"on", "sens", "row"} /\ s.p.login.on \in BOOLEAN
         /\ DOMAIN s.w.vino = {"prompt", "auth", "password"} /\ s.w.vino.password \in Nat
BY DEF SharingSound, SharingState, SharingForm, SharingTypes

\* Remote login is switched, or its state is asked for.
LEMMA LoginIsSwitched ==
  ASSUME NEW s, SharingSound(s), NEW on \in BOOLEAN
  PROVE  SharingSound(Sharing!LoginSwitched(s, on))
<1> DEFINE u == [(IF on THEN Sharing!MasterOn(s) ELSE s) EXCEPT !.p.login.on = on]
           q == [kind |-> "helper", arg |-> on]
           t == Sharing!SetLoginEnabled(u, on)
           login == [s.p.login EXCEPT !.on = on, !.sens = FALSE]
<1>1. /\ DOMAIN s = {"p", "c", "w"} /\ DOMAIN s.p = SharingFields /\ DOMAIN s.w = SharingWorldFields
      /\ DOMAIN s.p.login = {"on", "sens", "row"}
  BY SharingDomains
<1>2. DOMAIN login = {"on", "sens", "row"} /\ login.on = on
  BY <1>1
<1>3. /\ DOMAIN u = {"p", "c", "w"} /\ DOMAIN u.p = SharingFields /\ u.w = s.w /\ u.c = s.c
      /\ u.p.login = [s.p.login EXCEPT !.on = on]
      /\ \A f \in SharingFields \ {"login", "master"} : u.p[f] = s.p[f]
  BY <1>1 DEF Sharing!MasterOn, SharingFields
<1> HIDE DEF u
<1>4. /\ DOMAIN t = {"p", "c", "w"} /\ DOMAIN t.p = SharingFields /\ t.w = s.w /\ t.c = Append(s.c, q)
      /\ t.p.login = login
      /\ \A f \in SharingFields \ {"login", "master"} : t.p[f] = s.p[f]
  BY <1>1, <1>3 DEF Sharing!SetLoginEnabled, SharingFields
<1> HIDE DEF t, login
<1>5. SharingSame(s, t, SharingOther)
  BY <1>1, <1>4 DEF SharingSame, SharingOther
<1>6. t.p.open = s.p.open /\ t.w.vino = s.w.vino
  BY <1>4 DEF SharingFields
<1>7. q \in SharingQuestion /\ q.kind # "proxy"
  BY DEF SharingQuestion
<1>8. NoProxies(s, t.c)
  BY <1>4, <1>7, SharingAsks
<1>9. ScreenGuards(t)
  BY <1>6, GuardsStay
<1>10. SharingSound(t)
  BY <1>2, <1>4, <1>5, <1>6, <1>8, <1>9, SharingQuiet
<1> QED
  BY <1>10 DEF Sharing!LoginSwitched, t, u

\* The state of remote login is asked for.
LEMMA LoginIsAsked ==
  ASSUME NEW s, SharingSound(s), NEW row \in BOOLEAN
  PROVE  SharingSound(Sharing!GetLoginEnabled(s, row))
<1> DEFINE q == [kind |-> "bus", arg |-> row]
           t == Sharing!GetLoginEnabled(s, row)
           login == [s.p.login EXCEPT !.sens = FALSE]
<1>1. /\ DOMAIN s = {"p", "c", "w"} /\ DOMAIN s.p = SharingFields /\ DOMAIN s.w = SharingWorldFields
      /\ DOMAIN s.p.login = {"on", "sens", "row"} /\ s.p.login.on \in BOOLEAN
  BY SharingDomains
<1>2. DOMAIN login = {"on", "sens", "row"} /\ login.on \in BOOLEAN
  BY <1>1
<1>3. /\ DOMAIN t = {"p", "c", "w"} /\ DOMAIN t.p = SharingFields /\ t.w = s.w /\ t.c = Append(s.c, q)
      /\ t.p.login = login
      /\ \A f \in SharingFields \ {"login", "master"} : t.p[f] = s.p[f]
  BY <1>1 DEF Sharing!GetLoginEnabled, SharingFields
<1> HIDE DEF t, login
<1>4. SharingSame(s, t, SharingOther)
  BY <1>1, <1>3 DEF SharingSame, SharingOther
<1>5. t.p.open = s.p.open /\ t.w.vino = s.w.vino
  BY <1>3 DEF SharingFields
<1>6. q \in SharingQuestion /\ q.kind # "proxy"
  BY DEF SharingQuestion
<1>7. NoProxies(s, t.c)
  BY <1>3, <1>6, SharingAsks
<1>8. ScreenGuards(t)
  BY <1>5, GuardsStay
<1>9. SharingSound(t)
  BY <1>2, <1>3, <1>4, <1>5, <1>7, <1>8, SharingQuiet
<1> QED
  BY <1>9 DEF t

\* What systemd says of remote login is shown.
LEMMA SwitchIsSet ==
  ASSUME NEW s, SharingSound(s), NEW on \in BOOLEAN
  PROVE  SharingSound(Sharing!SetSwitchState(s, on))
<1> DEFINE t == Sharing!SetSwitchState(s, on)
           login == [s.p.login EXCEPT !.on = on, !.sens = TRUE]
<1>1. /\ DOMAIN s = {"p", "c", "w"} /\ DOMAIN s.p = SharingFields /\ DOMAIN s.w = SharingWorldFields
      /\ DOMAIN s.p.login = {"on", "sens", "row"}
  BY SharingDomains
<1>2. DOMAIN login = {"on", "sens", "row"} /\ login.on = on
  BY <1>1
<1>3. /\ DOMAIN t = {"p", "c", "w"} /\ DOMAIN t.p = SharingFields /\ t.w = s.w /\ t.c = s.c
      /\ t.p.login = login
      /\ \A f \in SharingFields \ {"login", "master"} : t.p[f] = s.p[f]
  BY <1>1 DEF Sharing!SetSwitchState, Sharing!MasterOn, SharingFields
<1> HIDE DEF t, login
<1>4. SharingSame(s, t, SharingOther)
  BY <1>1, <1>3 DEF SharingSame, SharingOther
<1>5. t.p.open = s.p.open /\ t.w.vino = s.w.vino
  BY <1>3 DEF SharingFields
<1>6. NoProxies(s, t.c)
  BY <1>3 DEF NoProxies, SharingSound, SharingState, SharingTypes, SharingConnects
<1>7. ScreenGuards(t)
  BY <1>5, GuardsStay
<1>8. SharingSound(t)
  BY <1>2, <1>3, <1>4, <1>5, <1>6, <1>7, SharingQuiet
<1> QED
  BY <1>8 DEF t

\* A step that leaves the services, the screen and remote login as they are.
LEMMA SharingElse ==
  ASSUME NEW s, SharingSound(s), NEW t, NoProxies(s, t.c),
         SharingSame(s, t, SharingOther \ {"open", "vino", "login"})
  PROVE  SharingSound(t)
<1>1. SharingSame(s, t, SharingOther)
  BY DEF SharingSame
<1>2. t.p.open = s.p.open /\ t.w.vino = s.w.vino /\ t.p.login = s.p.login
  BY DEF SharingSame, SharingFields, SharingWorldFields
<1> QED
  BY <1>1, <1>2, SharingQuiet, GuardsStay

\* The questions, with one that is asked as another.
LEMMA SharingFollows ==
  ASSUME NEW s, SharingSound(s), NEW i \in DOMAIN s.c, NEW kind \in {"file", "unit", "active"}
  PROVE  NoProxies(s, [s.c EXCEPT ![i].kind = kind])
<1> DEFINE c == [s.c EXCEPT ![i].kind = kind]
<1>1. s.c \in Seq(SharingQuestion)
  BY DEF SharingSound, SharingState, SharingTypes
<1>2. DOMAIN c = DOMAIN s.c /\ c[i] = [s.c[i] EXCEPT !.kind = kind] /\ \A j \in DOMAIN c : j # i => c[j] = s.c[j]
  BY <1>1
<1> HIDE DEF c
<1>3. s.c[i] \in SharingQuestion
  BY <1>1
<1>4. c[i] \in SharingQuestion /\ c[i].kind = kind
  BY <1>2, <1>3 DEF SharingQuestion
<1>5. c \in Seq(SharingQuestion)
  <2>1. Len(s.c) \in Nat /\ DOMAIN c = 1..Len(s.c)
    BY <1>1, <1>2
  <2>2. \A j \in 1..Len(s.c) : c[j] \in SharingQuestion
    BY <1>1, <1>2, <1>4
  <2>3. c = [j \in 1..Len(s.c) |-> c[j]]
    BY <2>1 DEF c
  <2> QED
    BY <2>1, <2>2, <2>3
<1>6. \A j \in DOMAIN c : c[j].kind = "proxy" => j = 1 /\ ~s.p.ready
  BY <1>2, <1>4 DEF SharingSound, SharingConnects
<1> QED
  BY <1>5, <1>6 DEF NoProxies, c

\* The master switch turns off the service whose switch can be seen, and remote login.
LEMMA MasterIsSound ==
  ASSUME NEW s, SharingSound(s), NEW on
  PROVE  SharingSound(Sharing!MasterNotify(s, on)) /\ SharingSound(Sharing!Off([s EXCEPT !.p.master = on]))
<1> DEFINE m == [s EXCEPT !.p.master = on]
<1>1. DOMAIN s = {"p", "c", "w"} /\ DOMAIN s.p = SharingFields /\ DOMAIN s.w = SharingWorldFields
  BY SharingDomains
<1>2. /\ DOMAIN m = {"p", "c", "w"} /\ DOMAIN m.p = SharingFields /\ m.w = s.w /\ m.c = s.c
      /\ \A f \in SharingFields \ {"master"} : m.p[f] = s.p[f]
  BY <1>1 DEF SharingFields
<1> HIDE DEF m
<1>3. SharingSame(s, m, SharingOther \ {"open", "vino", "login"})
  BY <1>1, <1>2 DEF SharingSame, SharingOther
<1>4. NoProxies(s, m.c)
  BY <1>2 DEF NoProxies, SharingSound, SharingState, SharingTypes, SharingConnects
<1>5. SharingSound(m)
  BY <1>3, <1>4, SharingElse
<1>6. SharingSound(Sharing!Off(m))
  <2>1. CASE /\ m.p.open \in Config.sharing.Services /\ Sharing!Visible(m.p, m.p.open)
                /\ m.p.svc[m.p.open].sens /\ m.p.svc[m.p.open].on
    <3>1. m.p.svc[m.p.open].shown /\ m.p.svc[m.p.open].sens
             /\ Sharing!Off(m) = Sharing!EnableNetwork(m, m.p.open, FALSE, TRUE, TRUE)
      BY <2>1 DEF Sharing!Visible, Sharing!Off
    <3> QED
      BY <1>5, <2>1, <3>1, NetworkEnabled
  <2>2. CASE ~(m.p.open \in Config.sharing.Services /\ Sharing!Visible(m.p, m.p.open)
             /\ m.p.svc[m.p.open].sens /\ m.p.svc[m.p.open].on)
    BY <1>5, <2>2 DEF Sharing!Off
  <2> QED
    BY <2>1, <2>2
<1>7. SharingSound(Sharing!LoginSwitched(Sharing!Off(m), FALSE))
  BY <1>6, LoginIsSwitched
<1> QED
  BY <1>5, <1>6, <1>7 DEF Sharing!MasterNotify, m

\* The dialog is closed.
LEMMA ResponseIsSound ==
  ASSUME SharingSound(Sharing!State), Sharing!DialogResponse
  PROVE  SharingSound(Sharing!State)'
<1> DEFINE folders == IF panel.open = "media" THEN Sharing!SetPreferences(panel.rows) ELSE world.folders
           vino == IF panel.open = "screen" /\ world.vino.password = 0
                   THEN [world.vino EXCEPT !.prompt = TRUE, !.auth = "none"] ELSE world.vino
           t == [Sharing!State EXCEPT !.p.open = Sharing!None, !.w.folders = folders, !.w.vino = vino]
<1>1. Sharing!Becomes(t)
  BY DEF Sharing!DialogResponse, Sharing!State
<1>2. /\ DOMAIN panel = SharingFields /\ DOMAIN world = SharingWorldFields
      /\ DOMAIN world.vino = {"prompt", "auth", "password"} /\ world.vino.password \in Nat
      /\ Sharing!State.p = panel /\ Sharing!State.c = calls /\ Sharing!State.w = world
  BY SharingDomains DEF Sharing!State
<1> HIDE DEF folders
<1>3. /\ DOMAIN vino = {"prompt", "auth", "password"} /\ vino.password \in Nat
      /\ vino.prompt \/ (vino.auth = "vnc" /\ vino.password > 0)
  <2>1. ScreenGuards(Sharing!State)
    BY DEF SharingSound
  <2>2. /\ world.vino.prompt \/ world.vino.auth = "vnc"
        /\ panel.open # "screen" => world.vino.prompt \/ (world.vino.auth = "vnc" /\ world.vino.password > 0)
    BY <1>2, <2>1 DEF ScreenGuards
  <2>3. CASE panel.open = "screen" /\ world.vino.password = 0
    BY <1>2, <2>3
  <2>4. CASE ~(panel.open = "screen" /\ world.vino.password = 0)
    BY <1>2, <2>2, <2>4
  <2> QED
    BY <2>3, <2>4
<1> HIDE DEF vino
<1>4. /\ DOMAIN t = {"p", "c", "w"} /\ DOMAIN t.p = SharingFields /\ DOMAIN t.w = SharingWorldFields /\ t.c = calls
      /\ t.w.vino = vino /\ \A f \in SharingFields \ {"open"} : t.p[f] = panel[f]
      /\ \A f \in SharingWorldFields \ {"folders", "vino"} : t.w[f] = world[f]
  BY <1>2 DEF Sharing!State, SharingFields, SharingWorldFields
<1> HIDE DEF t
<1>5. SharingSame(Sharing!State, t, SharingOther) /\ t.p.login = panel.login
  BY <1>2, <1>4 DEF SharingSame, SharingOther, SharingFields
<1>6. ScreenGuards(t)
  BY <1>3, <1>4 DEF ScreenGuards
<1>7. NoProxies(Sharing!State, t.c)
  BY <1>2, <1>4 DEF NoProxies, SharingSound, SharingState, SharingTypes, SharingConnects
<1>8. SharingSound(t)
  BY <1>2, <1>3, <1>4, <1>5, <1>6, <1>7, SharingQuiet
<1> QED
  BY <1>1, <1>8, SharingBecomes

\* The screen may be asked for, or want a password, while its dialog is open.
LEMMA ScreenIsSound ==
  ASSUME SharingSound(Sharing!State), NEW vino, panel.open = "screen",
         DOMAIN vino = {"prompt", "auth", "password"}, vino.password \in Nat, vino.prompt \/ vino.auth = "vnc",
         Sharing!ByUser([Sharing!State EXCEPT !.w.vino = vino])
  PROVE  SharingSound(Sharing!State)'
<1> DEFINE t == [Sharing!State EXCEPT !.w.vino = vino]
<1>1. /\ DOMAIN panel = SharingFields /\ DOMAIN world = SharingWorldFields
      /\ Sharing!State.p = panel /\ Sharing!State.c = calls /\ Sharing!State.w = world
  BY SharingDomains DEF Sharing!State
<1>2. /\ DOMAIN t = {"p", "c", "w"} /\ t.p = panel /\ DOMAIN t.w = SharingWorldFields /\ t.c = calls
      /\ t.w.vino = vino /\ \A f \in SharingWorldFields \ {"vino"} : t.w[f] = world[f]
  BY <1>1 DEF Sharing!State, SharingWorldFields
<1> HIDE DEF t
<1>3. SharingSame(Sharing!State, t, SharingOther) /\ t.p.login = panel.login
  BY <1>1, <1>2 DEF SharingSame, SharingOther, SharingFields
<1>4. ScreenGuards(t)
  BY <1>2 DEF ScreenGuards
<1>5. NoProxies(Sharing!State, t.c)
  BY <1>1, <1>2 DEF NoProxies, SharingSound, SharingState, SharingTypes, SharingConnects
<1>6. SharingSound(t)
  BY <1>1, <1>2, <1>3, <1>4, <1>5, SharingQuiet
<1> QED
  BY <1>6, SharingByUser DEF t

\* The four things that are done in the dialog of the screen.
LEMMA ScreenActs ==
  ASSUME SharingSound(Sharing!State),
         Sharing!ApproveConnections \/ Sharing!RequirePassword \/ Sharing!PasswordCleared
         \/ \E letters \in {1, 5} : Sharing!PasswordTyped(letters)
  PROVE  SharingSound(Sharing!State)'
<1>1. /\ DOMAIN world = SharingWorldFields /\ DOMAIN world.vino = {"prompt", "auth", "password"}
         /\ world.vino.password \in Nat
      /\ Sharing!State.w = world /\ DOMAIN Sharing!State = {"p", "c", "w"}
  BY SharingDomains DEF Sharing!State
<1>2. world.vino.prompt \/ world.vino.auth = "vnc"
  BY <1>1 DEF SharingSound, ScreenGuards
<1>3. ASSUME Sharing!ApproveConnections PROVE SharingSound(Sharing!State)'
  <2> DEFINE vino == [world.vino EXCEPT !.prompt = TRUE, !.auth = "none"]
  <2>1. panel.open = "screen" /\ Sharing!ByUser([Sharing!State EXCEPT !.w.vino = vino])
    BY ZenonT(60), <1>1, <1>3 DEF Sharing!ApproveConnections, SharingWorldFields, Sharing!State
  <2>2. DOMAIN vino = {"prompt", "auth", "password"} /\ vino.password \in Nat /\ vino.prompt
    BY <1>1
  <2> HIDE DEF vino
  <2> QED
    BY <2>1, <2>2, ScreenIsSound
<1>4. ASSUME Sharing!RequirePassword PROVE SharingSound(Sharing!State)'
  <2> DEFINE vino == [world.vino EXCEPT !.prompt = FALSE, !.auth = "vnc"]
  <2>1. panel.open = "screen" /\ Sharing!ByUser([Sharing!State EXCEPT !.w.vino = vino])
    BY ZenonT(60), <1>1, <1>4 DEF Sharing!RequirePassword, SharingWorldFields, Sharing!State
  <2>2. DOMAIN vino = {"prompt", "auth", "password"} /\ vino.password \in Nat /\ vino.auth = "vnc"
    BY <1>1
  <2> HIDE DEF vino
  <2> QED
    BY <2>1, <2>2, ScreenIsSound
<1>5. ASSUME Sharing!PasswordCleared PROVE SharingSound(Sharing!State)'
  <2> DEFINE vino == [world.vino EXCEPT !.password = 0]
  <2>1. panel.open = "screen" /\ Sharing!ByUser([Sharing!State EXCEPT !.w.vino = vino])
    BY <1>1, <1>5 DEF Sharing!PasswordCleared, SharingWorldFields, Sharing!State
  <2>2. DOMAIN vino = {"prompt", "auth", "password"} /\ vino.password \in Nat /\ (vino.prompt \/ vino.auth = "vnc")
    BY <1>1, <1>2
  <2> HIDE DEF vino
  <2> QED
    BY <2>1, <2>2, ScreenIsSound
<1>6. ASSUME NEW letters \in {1, 5}, Sharing!PasswordTyped(letters) PROVE SharingSound(Sharing!State)'
  <2> DEFINE l == world.vino.password
             typed == IF l + 2 * letters <= Sharing!MaxPassword THEN l + 2 * letters
             ELSE l + (Sharing!MaxPassword - l) \div 2
             vino == [world.vino EXCEPT !.password = typed]
  <2>1. panel.open = "screen" /\ Sharing!ByUser([Sharing!State EXCEPT !.w.vino = vino])
    BY <1>1, <1>6 DEF Sharing!PasswordTyped, SharingWorldFields, Sharing!State
  <2>2. typed \in Nat
    <3>1. l \in Nat /\ Sharing!MaxPassword = 8
      BY <1>1 DEF Sharing!MaxPassword
    <3> HIDE DEF l
    <3> QED
      BY <3>1
  <2> HIDE DEF typed
  <2>3. DOMAIN vino = {"prompt", "auth", "password"} /\ vino.password \in Nat /\ (vino.prompt \/ vino.auth = "vnc")
    BY <1>1, <1>2, <2>2
  <2> HIDE DEF vino
  <2> QED
    BY <2>1, <2>3, ScreenIsSound
<1> QED
  BY <1>3, <1>4, <1>5, <1>6

\* The state is its three parts.
LEMMA SharingIs ==
  ASSUME SharingSound(Sharing!State)
  PROVE  /\ DOMAIN panel = SharingFields /\ DOMAIN world = SharingWorldFields /\ calls \in Seq(SharingQuestion)
         /\ Sharing!State.p = panel /\ Sharing!State.c = calls /\ Sharing!State.w = world
            /\ DOMAIN Sharing!State = {"p", "c", "w"}
         /\ DOMAIN panel.login = {"on", "sens", "row"} /\ panel.login.on \in BOOLEAN
         /\ NoProxies(Sharing!State, calls)
<1>1. Sharing!State.p = panel /\ Sharing!State.c = calls /\ Sharing!State.w = world
      /\ DOMAIN Sharing!State = {"p", "c", "w"}
  BY DEF Sharing!State
<1> QED
  BY <1>1, SharingDomains DEF NoProxies, SharingSound, SharingState, SharingTypes, SharingConnects

\* The user acts where nothing but some fields changes.
LEMMA UserElse ==
  ASSUME SharingSound(Sharing!State), NEW t, Sharing!ByUser(t), NoProxies(Sharing!State, t.c),
         SharingSame(Sharing!State, t, SharingOther \ {"open", "vino", "login"})
  PROVE  SharingSound(Sharing!State)'
BY SharingElse, SharingByUser

\* A folder is added or removed.
LEMMA FoldersAct ==
  ASSUME SharingSound(Sharing!State), (\E f \in Config.sharing.Folders : Sharing!AddFolder(f))
         \/ (\E i \in DOMAIN panel.rows : Sharing!RemoveFolder(i))
  PROVE  SharingSound(Sharing!State)'
<1>1. PICK rows : Sharing!ByUser([Sharing!State EXCEPT !.p.rows = rows])
  BY DEF Sharing!AddFolder, Sharing!RemoveFolder, Sharing!State
<1> DEFINE t == [Sharing!State EXCEPT !.p.rows = rows]
<1>2. /\ SharingSame(Sharing!State, t, SharingOther \ {"open", "vino", "login"}) /\ t.c = calls
  BY SharingIs DEF SharingSame, SharingOther, SharingFields
<1> QED
  BY <1>1, <1>2, SharingIs, UserElse

\* The shared files want a password, or are given one.
LEMMA FilesAct ==
  ASSUME SharingSound(Sharing!State), Sharing!FilesRequireSwitched \/ Sharing!FilesPasswordTyped
  PROVE  SharingSound(Sharing!State)'
<1>1. PICK guest : Sharing!ByUser([Sharing!State EXCEPT !.w.guest = guest])
  <2>1. CASE Sharing!FilesRequireSwitched
    <3>1. Sharing!ByUser([Sharing!State EXCEPT !.w.guest = [world.guest EXCEPT !.require = ~world.guest.require]])
      BY <2>1, SharingIs DEF Sharing!FilesRequireSwitched, Sharing!State, SharingWorldFields
    <3> QED
      BY <3>1
  <2>2. CASE Sharing!FilesPasswordTyped
    <3>1. Sharing!ByUser([Sharing!State EXCEPT !.w.guest = [world.guest EXCEPT !.written = TRUE]])
      BY <2>2, SharingIs DEF Sharing!FilesPasswordTyped, Sharing!State, SharingWorldFields
    <3> QED
      BY <3>1
  <2> QED
    BY <2>1, <2>2
<1> DEFINE t == [Sharing!State EXCEPT !.w.guest = guest]
<1>2. /\ SharingSame(Sharing!State, t, SharingOther \ {"open", "vino", "login"}) /\ t.c = calls
  BY SharingIs DEF SharingSame, SharingOther, SharingWorldFields
<1> QED
  BY <1>1, <1>2, SharingIs, UserElse

\* A name is typed, and the timer starts again.
LEMMA NameActs ==
  ASSUME SharingSound(Sharing!State), NEW n, Sharing!HostnameTyped(n)
  PROVE  SharingSound(Sharing!State)'
<1> DEFINE kept == Sharing!Kept(calls, {i \in DOMAIN calls : calls[i] # Sharing!Timer})
           t == [Sharing!State EXCEPT !.p.name = n, !.c = Append(kept, Sharing!Timer)]
<1>1. Sharing!ByUser(t)
  BY SharingIs DEF Sharing!HostnameTyped, Sharing!State
<1>2. NoProxies(Sharing!State, kept)
  BY SharingIs, SharingKept
<1>3. Sharing!Timer \in SharingQuestion /\ Sharing!Timer.kind # "proxy"
  BY DEF Sharing!Timer, SharingQuestion
<1> HIDE DEF kept
<1>4. NoProxies(Sharing!State, Append(kept, Sharing!Timer))
  <2>1. kept \in Seq(SharingQuestion)
    BY <1>2 DEF NoProxies
  <2>2. Append(kept, Sharing!Timer) \in Seq(SharingQuestion)
    BY <1>3, <2>1
  <2>3. \A i \in DOMAIN Append(kept, Sharing!Timer) : (i \in DOMAIN kept
        /\ Append(kept, Sharing!Timer)[i] = kept[i]) \/ Append(kept, Sharing!Timer)[i] = Sharing!Timer
    BY <2>1
  <2> QED
    BY <1>2, <1>3, <2>2, <2>3 DEF NoProxies
<1>5. SharingSame(Sharing!State, t, SharingOther \ {"open", "vino", "login"}) /\ t.c = Append(kept, Sharing!Timer)
  BY SharingIs DEF SharingSame, SharingOther, SharingFields
<1> QED
  BY <1>1, <1>4, <1>5, UserElse

\* The name of the computer is written.
LEMMA NameIsSet ==
  ASSUME NEW s, SharingSound(s), NEW pretty, NEW static
  PROVE  SharingSound(Sharing!SetHostname(s, pretty, static))
<1> DEFINE t == Sharing!SetHostname(s, pretty, static)
<1>1. DOMAIN s = {"p", "c", "w"} /\ DOMAIN s.p = SharingFields /\ DOMAIN s.w = SharingWorldFields
  BY SharingDomains
<1>2. SharingSame(s, t, SharingOther \ {"open", "vino", "login"}) /\ t.c = s.c
  BY <1>1 DEF Sharing!SetHostname, SharingSame, SharingOther, SharingFields, SharingWorldFields
<1>3. NoProxies(s, s.c)
  BY DEF NoProxies, SharingSound, SharingState, SharingTypes, SharingConnects
<1> QED
  BY <1>2, <1>3, SharingElse

\* The panel is closed: its questions are dropped and the name is written.
LEMMA DisposeIsSound ==
  ASSUME SharingSound(Sharing!State), Sharing!Dispose
  PROVE  SharingSound(Sharing!State)'
<1> DEFINE kept == Sharing!Kept(calls, {i \in DOMAIN calls : calls[i].kind = "helper"})
           t == [Sharing!State EXCEPT !.p.closed = TRUE, !.c = kept]
<1>1. Sharing!ByUser(t) \/ Sharing!ByUser(Sharing!SetHostname(t, TRUE, TRUE))
  BY SharingIs DEF Sharing!Dispose, Sharing!State
<1>2. NoProxies(Sharing!State, kept)
  BY SharingIs, SharingKept
<1> HIDE DEF kept
<1>3. SharingSame(Sharing!State, t, SharingOther \ {"open", "vino", "login"}) /\ t.c = kept
  BY SharingIs DEF SharingSame, SharingOther, SharingFields
<1>4. SharingSound(t)
  BY <1>2, <1>3, SharingElse
<1> HIDE DEF t
<1> QED
  BY <1>1, <1>4, SharingByUser, NameIsSet

\* A dialog is shown.
LEMMA RunDialogIsSound ==
  ASSUME SharingSound(Sharing!State), NEW d, Sharing!RunDialog(d)
  PROVE  SharingSound(Sharing!State)'
<1> DEFINE q == [kind |-> "label", arg |-> FALSE]
           t == [Sharing!State EXCEPT !.p.open = d, !.c = Append(calls, q)]
<1>1. Sharing!ByUser(t) /\ panel.open = Sharing!None
  BY SharingIs DEF Sharing!RunDialog, Sharing!State, Sharing!Free
<1>2. q \in SharingQuestion /\ q.kind # "proxy"
  BY DEF SharingQuestion
<1>3. NoProxies(Sharing!State, Append(calls, q))
  BY <1>2, SharingIs, SharingAsks
<1>4. SharingSame(Sharing!State, t, SharingOther) /\ t.c = Append(calls, q) /\ t.w = world
      /\ t.p.login = panel.login
  BY SharingIs DEF SharingSame, SharingOther, SharingFields
<1> HIDE DEF t
<1>5. ScreenGuards(t)
  BY <1>1, <1>4, SharingIs DEF ScreenGuards, SharingSound, Sharing!None
<1> QED
  BY <1>1, <1>3, <1>4, <1>5, SharingIs, SharingQuiet, SharingByUser

\* A switch is turned.
LEMMA SwitchesAct ==
  ASSUME SharingSound(Sharing!State),
         \/ Sharing!MasterClicked \/ Sharing!LoginClicked
         \/ \E v \in Config.sharing.Services, done, listed \in BOOLEAN : Sharing!NetworkSwitched(v, done, listed)
  PROVE  SharingSound(Sharing!State)'
<1>1. ASSUME Sharing!MasterClicked PROVE SharingSound(Sharing!State)'
  BY <1>1, MasterIsSound, SharingByUser DEF Sharing!MasterClicked
<1>2. ASSUME Sharing!LoginClicked PROVE SharingSound(Sharing!State)'
  BY <1>2, LoginIsSwitched, SharingByUser DEF Sharing!LoginClicked
<1>3. ASSUME NEW v \in Config.sharing.Services, NEW done \in BOOLEAN, NEW listed \in BOOLEAN,
             Sharing!NetworkSwitched(v, done, listed)
      PROVE  SharingSound(Sharing!State)'
  <2>1. panel.svc[v].shown /\ panel.svc[v].sens
           /\ Sharing!ByUser(Sharing!EnableNetwork(Sharing!State, v, ~panel.svc[v].on, done,
        listed))
    BY <1>3 DEF Sharing!NetworkSwitched, Sharing!Visible
  <2>2. panel.svc[v].on \in BOOLEAN
    BY SharingIs DEF SharingSound, SharingState, SharingRows, ServiceRow
  <2>3. Sharing!State.p.svc[v].shown /\ Sharing!State.p.svc[v].sens
           /\ (Sharing!State.p.svc[v].on <=> ~(~panel.svc[v].on))
        /\ (~panel.svc[v].on) \in BOOLEAN
    BY <2>1, <2>2, SharingIs
  <2>4. SharingSound(Sharing!EnableNetwork(Sharing!State, v, ~panel.svc[v].on, done, listed))
    BY <2>3, NetworkEnabled
  <2> QED
    BY <2>1, <2>4, SharingByUser
<1> QED
  BY <1>1, <1>2, <1>3

\* A network is taken from a service.
LEMMA RemoveIsSound ==
  ASSUME SharingSound(Sharing!State), NEW v \in Config.sharing.Services, NEW n, NEW done \in BOOLEAN,
         NEW listed \in BOOLEAN,
         Sharing!RemoveNetwork(v, n, done, listed)
  PROVE  SharingSound(Sharing!State)'
<1> DEFINE r == [Sharing!State EXCEPT !.w.enabled[v] = IF done THEN @ \ {n} ELSE @]
           all == [world.enabled EXCEPT ![v] = IF done THEN @ \ {n} ELSE @]
<1>1. n \in panel.svc[v].nets \ {panel.net}
         /\ Sharing!ByUser(Sharing!UpdateServices(r, {v}, IF listed THEN {v} ELSE {}))
  BY DEF Sharing!RemoveNetwork
<1>2. /\ DOMAIN world.enabled = Config.sharing.Services
         /\ \A x \in Config.sharing.Services : panel.svc[x].on \in BOOLEAN
  BY SharingIs DEF SharingSound, SharingState, SharingForm, SharingRows, ServiceRow
<1>3. /\ DOMAIN all = Config.sharing.Services /\ \A x \in Config.sharing.Services \ {v} : all[x] = world.enabled[x]
      /\ all[v] = IF done THEN world.enabled[v] \ {n} ELSE world.enabled[v]
  BY <1>2
<1>4. /\ DOMAIN r = {"p", "c", "w"} /\ r.p = panel /\ r.c = calls /\ DOMAIN r.w = SharingWorldFields
      /\ r.w.enabled = all /\ \A f \in SharingWorldFields \ {"enabled"} : r.w[f] = world[f]
  BY SharingIs DEF SharingWorldFields
<1> HIDE DEF r, all
<1>5. r.w.net = world.net /\ r.w.changes = world.changes /\ r.w.vino = world.vino /\ r.w.sshd = world.sshd
  BY <1>4 DEF SharingWorldFields
<1>6. panel.ready
  BY <1>1, SharingIs DEF SharingSound, SharingConnects
<1>7. SharingState(r)
  <2>1. SharingForm(r)
    BY <1>3, <1>4, <1>5, SharingIs DEF SharingSound, SharingState, SharingForm
  <2>2. SharingRows(r)
    BY <1>3, <1>4, <1>5, SharingIs DEF SharingSound, SharingState, SharingRows
  <2>3. SharingTypes(r)
    BY <1>3, <1>4, <1>5, SharingIs DEF SharingSound, SharingState, SharingTypes
  <2> QED
    BY <2>1, <2>2, <2>3 DEF SharingState
<1>8. ScreenGuards(r)
  BY <1>4, <1>5, SharingIs DEF SharingSound, ScreenGuards
<1>9. \A x \in Config.sharing.Services : SharingKnowsOf(Sharing!State, x, panel.svc[x])
      /\ (panel.svc[x].status # "off" <=> panel.svc[x].nets # {})
  BY SharingIs, KnowsByServices DEF SharingSound, SharingStatuses
<1>10. ASSUME NEW x \in Config.sharing.Services \ {v} PROVE SharingKnowsOf(r, x, panel.svc[x])
  <2>1. /\ r.p = panel /\ Sharing!State.p = panel /\ Sharing!State.w = world /\ r.w.changes = world.changes
        /\ r.w.enabled[x] = world.enabled[x]
    BY <1>3, <1>4, <1>5, SharingIs
  <2>2. SharingKnowsOf(Sharing!State, x, panel.svc[x])
    BY <1>9
  <2> QED
    BY <2>1, <2>2 DEF SharingKnowsOf
<1>11. world.changes = 0 => panel.net = world.net
  BY <1>6, SharingIs DEF SharingSound, SharingKnows
<1>12. world.changes = 0 /\ panel.net # Sharing!None /\ panel.svc[v].on => panel.net \in all[v]
  <2>1. SUFFICES ASSUME world.changes = 0, panel.net # Sharing!None, panel.svc[v].on PROVE panel.net \in all[v]
    OBVIOUS
  <2>2. panel.net \in world.enabled[v]
    BY <1>6, <1>9, <2>1, SharingIs DEF SharingKnowsOf
  <2> QED
    BY <1>1, <1>3, <2>2
<1>13. \A i \in DOMAIN r.c : r.c[i].kind # "proxy"
  BY <1>4, <1>6, SharingIs DEF NoProxies
<1>14. SharingSound(Sharing!UpdateServices(r, {v}, IF listed THEN {v} ELSE {}))
  <2>1. {v} \in SUBSET Config.sharing.Services
    OBVIOUS
  <2>2. \A x \in Config.sharing.Services \ {v} : (r.p.svc[x].status # "off" <=> r.p.svc[x].nets # {})
        /\ SharingKnowsOf(r, x, r.p.svc[x])
    BY <1>4, <1>9, <1>10
  <2>3. r.w.changes = 0 =>
           /\ r.p.net = r.w.net
           /\ \A x \in {v} : r.p.net # Sharing!None /\ r.p.svc[x].on => r.p.net \in r.w.enabled[x]
    BY <1>4, <1>5, <1>11, <1>12
  <2> QED
    BY <1>4, <1>6, <1>7, <1>8, <1>13, <2>1, <2>2, <2>3, ServicesUpdated
<1> QED
  BY <1>1, <1>14, SharingByUser

\* The daemon is there, and the networks of each service are listed.
LEMMA ProxyIsSound ==
  ASSUME SharingSound(Sharing!State), NEW available \in BOOLEAN, NEW listed, Sharing!SharingProxyReady(available, listed)
  PROVE  SharingSound(Sharing!State)'
<1> DEFINE rows == Sharing!GetPreferences(world.folders)
           c == Sharing!RemoveAt(calls, 1)
           r == [Sharing!Answered(1) EXCEPT !.p.ready = TRUE, !.p.net = world.net, !.p.available = available,
           !.p.rows = rows]
<1>1. /\ Sharing!Becomes(Sharing!GetLoginEnabled(Sharing!UpdateServices(r, Config.sharing.Services, listed),
         TRUE)) /\ 1 \in DOMAIN calls /\ calls[1].kind = "proxy"
  BY DEF Sharing!SharingProxyReady, Sharing!At
<1>2. ~panel.ready
  BY <1>1, SharingIs DEF NoProxies
<1>3. NoProxies(Sharing!State, c) /\ \A j \in DOMAIN c : c[j].kind # "proxy"
  <2>1. Sharing!State.c = calls /\ 1 \in DOMAIN Sharing!State.c
    BY <1>1, SharingIs
  <2> QED
    BY <2>1, SharingAnswered
<1> HIDE DEF rows, c
<1>4. /\ DOMAIN r = {"p", "c", "w"} /\ r.w = world /\ r.c = c /\ DOMAIN r.p = SharingFields
      /\ r.p.ready /\ r.p.net = world.net /\ \A f \in SharingFields \ {"ready", "net", "available",
         "rows"} : r.p[f] = panel[f]
  BY SharingIs DEF Sharing!Answered, SharingFields, c
<1> HIDE DEF r
<1>5. r.p.svc = panel.svc /\ r.p.open = panel.open /\ r.p.login = panel.login
  BY <1>4 DEF SharingFields
<1>6. SharingState(r)
  <2>1. r.c \in Seq(SharingQuestion)
    BY <1>3, <1>4 DEF NoProxies
  <2>2. SharingForm(r)
    BY <1>4, <1>5, SharingIs DEF SharingSound, SharingState, SharingForm
  <2>3. SharingRows(r)
    BY <1>5, SharingIs DEF SharingSound, SharingState, SharingRows
  <2>4. SharingTypes(r)
    BY <1>4, <1>5, <2>1, SharingIs DEF SharingSound, SharingState, SharingTypes
  <2> QED
    BY <2>2, <2>3, <2>4 DEF SharingState
<1>7. ScreenGuards(r)
  BY <1>4, <1>5, SharingIs DEF SharingSound, ScreenGuards
<1>8. \A v \in Config.sharing.Services : ~r.p.svc[v].on
  BY <1>2, <1>5, SharingIs DEF SharingSound, SharingConnects
<1>9. SharingSound(Sharing!UpdateServices(r, Config.sharing.Services, listed))
  <2>1. Config.sharing.Services \in SUBSET Config.sharing.Services
        /\ \A i \in DOMAIN r.c : r.c[i].kind # "proxy"
    BY <1>3, <1>4
  <2> QED
    BY <1>4, <1>6, <1>7, <1>8, <2>1, ServicesUpdated
<1>10. SharingSound(Sharing!GetLoginEnabled(Sharing!UpdateServices(r, Config.sharing.Services, listed), TRUE))
  BY <1>9, LoginIsAsked
<1> QED
  BY <1>1, <1>10, SharingBecomes

\* The network in use is another.
LEMMA NetworkIsSound ==
  ASSUME SharingSound(Sharing!State), NEW listed, Sharing!CurrentNetworkChanged(listed)
  PROVE  SharingSound(Sharing!State)'
<1> DEFINE r == [Sharing!State EXCEPT !.p.net = world.net]
<1>1. panel.ready /\ panel.net # world.net /\ Sharing!Becomes(Sharing!UpdateServices(r,
      Config.sharing.Services, listed))
  BY DEF Sharing!CurrentNetworkChanged
<1>2. /\ DOMAIN r = {"p", "c", "w"} /\ r.w = world /\ r.c = calls /\ DOMAIN r.p = SharingFields
      /\ \A f \in SharingFields \ {"net"} : r.p[f] = panel[f]
  BY SharingIs DEF SharingFields
<1> HIDE DEF r
<1>3. r.p.svc = panel.svc /\ r.p.open = panel.open /\ r.p.login = panel.login /\ r.p.ready = panel.ready
  BY <1>2 DEF SharingFields
<1>4. SharingState(r)
  <2>1. SharingForm(r)
    BY <1>2, <1>3, SharingIs DEF SharingSound, SharingState, SharingForm
  <2>2. SharingRows(r)
    BY <1>2, <1>3, SharingIs DEF SharingSound, SharingState, SharingRows
  <2>3. SharingTypes(r)
    BY <1>2, <1>3, SharingIs DEF SharingSound, SharingState, SharingTypes
  <2> QED
    BY <2>1, <2>2, <2>3 DEF SharingState
<1>5. ScreenGuards(r)
  BY <1>2, <1>3, SharingIs DEF SharingSound, ScreenGuards
<1>6. world.changes # 0
  BY <1>1, SharingIs DEF SharingSound, SharingKnows
<1>7. SharingSound(Sharing!UpdateServices(r, Config.sharing.Services, listed))
  <2>1. Config.sharing.Services \in SUBSET Config.sharing.Services /\ r.p.ready
        /\ \A i \in DOMAIN r.c : r.c[i].kind # "proxy"
    BY <1>1, <1>2, <1>3, SharingIs DEF NoProxies
  <2> QED
    BY <1>2, <1>4, <1>5, <1>6, <2>1, ServicesUpdated
<1> QED
  BY <1>1, <1>7, SharingBecomes

\* Another program changes the network, or remote login: from then on nothing is known.
LEMMA OthersAreSound ==
  ASSUME SharingSound(Sharing!State), Sharing!OtherPrograms
  PROVE  SharingSound(Sharing!State)'
<1>1. PICK t : Sharing!ByOthers(t) /\ (\/ \E n : t = [Sharing!State EXCEPT !.w.net = n]
                                       \/ \E x \in [active : BOOLEAN,
                                          enabled : BOOLEAN] : t = [Sharing!State EXCEPT !.w.sshd = x])
  BY DEF Sharing!OtherPrograms
<1> DEFINE u == [t EXCEPT !.w.changes = @ + 1]
<1>2. Sharing!Becomes(u) /\ world.changes \in Nat /\ DOMAIN world.enabled = Config.sharing.Services
  BY <1>1, SharingIs DEF Sharing!ByOthers, SharingSound, SharingState, SharingForm, SharingTypes
<1>3. /\ DOMAIN t = {"p", "c", "w"} /\ t.p = panel /\ t.c = calls /\ DOMAIN t.w = SharingWorldFields
      /\ \A f \in SharingWorldFields \ {"net", "sshd"} : t.w[f] = world[f]
  BY <1>1, SharingIs DEF SharingWorldFields
<1>4. t.w.sshd \in [active : BOOLEAN, enabled : BOOLEAN]
  BY <1>1, SharingIs DEF SharingWorldFields, SharingSound, SharingState, SharingTypes
<1>5. t.w.changes = world.changes
  BY <1>3 DEF SharingWorldFields
<1>6. /\ DOMAIN u = {"p", "c", "w"} /\ u.p = panel /\ u.c = calls /\ DOMAIN u.w = SharingWorldFields
      /\ u.w.changes = world.changes + 1
      /\ u.w.sshd = t.w.sshd
      /\ \A f \in SharingWorldFields \ {"net", "sshd", "changes"} : u.w[f] = world[f]
  BY <1>3, <1>5 DEF SharingWorldFields
<1> HIDE DEF u
<1>7. u.w.vino = world.vino /\ u.w.enabled = world.enabled /\ u.w.changes # 0 /\ u.w.changes \in Nat
  BY <1>2, <1>6 DEF SharingWorldFields
<1>8. SharingState(u)
  <2>1. SharingForm(u)
    BY <1>6, <1>7, <1>4, SharingIs DEF SharingSound, SharingState, SharingForm
  <2>2. SharingRows(u)
    BY <1>6, <1>7, <1>4, SharingIs DEF SharingSound, SharingState, SharingRows
  <2>3. SharingTypes(u)
    BY <1>6, <1>7, <1>4, SharingIs DEF SharingSound, SharingState, SharingTypes
  <2> QED
    BY <2>1, <2>2, <2>3 DEF SharingState
<1>9. SharingStatuses(u) /\ SharingConnects(u) /\ ScreenGuards(u) /\ SharingKnows(u)
  BY <1>6, <1>7, SharingIs DEF SharingSound, SharingStatuses, SharingConnects, ScreenGuards, SharingKnows
<1> QED
  BY <1>2, <1>8, <1>9, SharingBecomes DEF SharingSound

\* A question that is answered is removed, or leads to another.
LEMMA AnsweredIsSound ==
  ASSUME SharingSound(Sharing!State), NEW i \in DOMAIN calls
  PROVE  /\ SharingSound(Sharing!Answered(i)) /\ Sharing!Answered(i).p = panel /\ Sharing!Answered(i).w = world
         /\ \A kind \in {"file", "unit", "active"} : SharingSound([Sharing!State EXCEPT !.c[i].kind = kind])
<1> DEFINE t == Sharing!Answered(i)
<1>1. t.p = panel /\ t.w = world /\ t.c = Sharing!RemoveAt(calls, i) /\ DOMAIN t = {"p", "c", "w"}
  BY SharingIs DEF Sharing!Answered
<1>2. SharingSame(Sharing!State, t, SharingOther \ {"open", "vino", "login"}) /\ NoProxies(Sharing!State, t.c)
  BY <1>1, SharingIs, SharingAnswered DEF SharingSame
<1>3. SharingSound(t)
  BY <1>2, SharingElse
<1>4. ASSUME NEW kind \in {"file", "unit", "active"} PROVE SharingSound([Sharing!State EXCEPT !.c[i].kind = kind])
  <2> DEFINE u == [Sharing!State EXCEPT !.c[i].kind = kind]
  <2>1. u.p = panel /\ u.w = world /\ u.c = [calls EXCEPT ![i].kind = kind] /\ DOMAIN u = {"p", "c", "w"}
    BY SharingIs
  <2> HIDE DEF u
  <2>2. SharingSame(Sharing!State, u, SharingOther \ {"open", "vino", "login"})
    BY <2>1, SharingIs DEF SharingSame
  <2>3. NoProxies(Sharing!State, u.c)
    <3>1. Sharing!State.c = calls /\ i \in DOMAIN Sharing!State.c
      BY SharingIs
    <3>2. NoProxies(Sharing!State, [Sharing!State.c EXCEPT ![i].kind = kind])
      BY <3>1, SharingFollows
    <3> QED
      BY <2>1, <3>1, <3>2
  <2> QED
    BY <2>2, <2>3, SharingElse DEF u
<1> QED
  BY <1>1, <1>3, <1>4

\* Remote login is another, or its switch.
LEMMA LoginElse ==
  ASSUME NEW s, SharingSound(s), NEW t, NEW login, DOMAIN login = {"on", "sens", "row"}, login.on = s.p.login.on,
         t = [s EXCEPT !.p.login = login]
  PROVE  SharingSound(t)
<1>1. /\ DOMAIN s = {"p", "c", "w"} /\ DOMAIN s.p = SharingFields /\ DOMAIN s.w = SharingWorldFields
         /\ s.p.login.on \in BOOLEAN
  BY SharingDomains
<1>2. /\ DOMAIN t = {"p", "c", "w"} /\ DOMAIN t.p = SharingFields /\ t.w = s.w /\ t.c = s.c /\ t.p.login = login
      /\ \A f \in SharingFields \ {"login"} : t.p[f] = s.p[f]
  BY <1>1 DEF SharingFields
<1>3. SharingSame(s, t, SharingOther) /\ t.p.open = s.p.open
  BY <1>1, <1>2 DEF SharingSame, SharingOther, SharingFields
<1>4. NoProxies(s, t.c)
  BY <1>2 DEF NoProxies, SharingSound, SharingState, SharingTypes, SharingConnects
<1>5. ScreenGuards(t)
  BY <1>2, <1>3, GuardsStay
<1> QED
  BY <1>1, <1>2, <1>3, <1>4, <1>5, SharingQuiet

\* Remote login is started or stopped.
LEMMA SshdElse ==
  ASSUME NEW s, SharingSound(s), NEW sshd \in [active : BOOLEAN, enabled : BOOLEAN]
  PROVE  SharingSound([s EXCEPT !.w.sshd = sshd])
<1> DEFINE t == [s EXCEPT !.w.sshd = sshd]
<1>1. DOMAIN s = {"p", "c", "w"} /\ DOMAIN s.p = SharingFields /\ DOMAIN s.w = SharingWorldFields
  BY SharingDomains
<1>2. /\ DOMAIN t = {"p", "c", "w"} /\ t.p = s.p /\ t.c = s.c /\ DOMAIN t.w = SharingWorldFields /\ t.w.sshd = sshd
      /\ \A f \in SharingWorldFields \ {"sshd"} : t.w[f] = s.w[f]
  BY <1>1 DEF SharingWorldFields
<1> HIDE DEF t
<1>3. t.w.net = s.w.net /\ t.w.enabled = s.w.enabled /\ t.w.changes = s.w.changes /\ t.w.vino = s.w.vino
  BY <1>2 DEF SharingWorldFields
<1>4. SharingState(t)
  <2>1. SharingForm(t)
    BY <1>2, <1>3 DEF SharingSound, SharingState, SharingForm
  <2>2. SharingRows(t)
    BY <1>2, <1>3 DEF SharingSound, SharingState, SharingRows
  <2>3. SharingTypes(t)
    BY <1>2, <1>3 DEF SharingSound, SharingState, SharingTypes
  <2> QED
    BY <2>1, <2>2, <2>3 DEF SharingState
<1>5. SharingStatuses(t) /\ SharingConnects(t) /\ ScreenGuards(t) /\ SharingKnows(t)
  BY <1>2, <1>3 DEF SharingSound, SharingStatuses, SharingConnects, ScreenGuards, SharingKnows
<1> QED
  BY <1>4, <1>5 DEF SharingSound, t

\* What systemd, the helper, the resolver and the timer answer.
LEMMA LoginAnswers ==
  ASSUME SharingSound(Sharing!State), NEW i \in DOMAIN calls, NEW ok \in BOOLEAN, NEW did,
         \/ Sharing!BusReady(i, ok) \/ Sharing!FileStateReady(i, ok) \/ Sharing!UnitReady(i, ok)
            \/ Sharing!ActiveStateReady(i, ok)
         \/ Sharing!HelperExits(i, did)
  PROVE  SharingSound(Sharing!State)'
<1>1. SharingSound(Sharing!Answered(i)) /\ Sharing!Answered(i).p = panel /\ Sharing!Answered(i).w = world
  BY AnsweredIsSound
<1>2. ASSUME NEW kind \in {"file", "unit", "active"}, Sharing!Becomes([Sharing!State EXCEPT !.c[i].kind = kind])
      PROVE SharingSound(Sharing!State)'
  BY <1>2, AnsweredIsSound, SharingBecomes
<1>3. ASSUME NEW a, Sharing!Becomes([Sharing!Answered(i) EXCEPT !.p.login.row = a])
      PROVE SharingSound(Sharing!State)'
  <2> DEFINE login == [panel.login EXCEPT !.row = a]
  <2>1. [Sharing!Answered(i) EXCEPT !.p.login.row = a] = [Sharing!Answered(i) EXCEPT !.p.login = login]
    BY <1>1, SharingDomains DEF SharingFields
  <2>2. DOMAIN login = {"on", "sens", "row"} /\ login.on = panel.login.on
    BY SharingIs
  <2> HIDE DEF login
  <2>3. SharingSound([Sharing!Answered(i) EXCEPT !.p.login = login])
    BY <1>1, <2>2, LoginElse
  <2> QED
    BY <1>3, <2>1, <2>3, SharingBecomes
<1>4. CASE Sharing!BusReady(i, ok)
  BY <1>1, <1>2, <1>4, SharingBecomes DEF Sharing!BusReady
<1>5. CASE Sharing!FileStateReady(i, ok)
  <2>1. CASE ~ok
    BY <1>1, <1>3, <1>5, <2>1 DEF Sharing!FileStateReady
  <2>2. CASE ok /\ world.sshd.enabled
    BY <1>2, <1>5, <2>2 DEF Sharing!FileStateReady
  <2>3. CASE ok /\ ~world.sshd.enabled
    <3>1. SharingSound(Sharing!SetSwitchState(Sharing!Answered(i), FALSE))
      BY <1>1, SwitchIsSet
    <3> QED
      BY <1>5, <2>3, <3>1, SharingBecomes DEF Sharing!FileStateReady
  <2> QED
    BY <2>1, <2>2, <2>3
<1>6. CASE Sharing!UnitReady(i, ok)
  <2>1. CASE ~ok
    BY <1>1, <1>3, <1>6, <2>1 DEF Sharing!UnitReady
  <2>2. CASE ok
    BY <1>2, <1>6, <2>2 DEF Sharing!UnitReady
  <2> QED
    BY <2>1, <2>2
<1>7. CASE Sharing!ActiveStateReady(i, ok)
  <2>1. world.sshd.active \in BOOLEAN
    BY SharingIs DEF SharingSound, SharingState, SharingTypes
  <2>2. SharingSound(Sharing!SetSwitchState(Sharing!Answered(i), world.sshd.active))
    BY <1>1, <2>1, SwitchIsSet
  <2> QED
    BY <1>1, <1>7, <2>2, SharingBecomes DEF Sharing!ActiveStateReady
<1>8. CASE Sharing!HelperExits(i, did)
  <2> DEFINE on == calls[i].arg
             sshd == [active |-> IF did > 0 THEN on ELSE world.sshd.active,
                      enabled |-> IF did > 1 THEN on ELSE world.sshd.enabled]
             s == [Sharing!Answered(i) EXCEPT !.w.sshd = sshd]
             t == IF did < 2 THEN Sharing!GetLoginEnabled(s, FALSE) ELSE s
  <2>1. Sharing!Becomes(IF panel.closed THEN s ELSE [t EXCEPT !.p.login.sens = TRUE])
    BY <1>1, <1>8 DEF Sharing!HelperExits
  <2>2. on \in BOOLEAN /\ world.sshd.active \in BOOLEAN /\ world.sshd.enabled \in BOOLEAN
    <3>1. calls[i] \in SharingQuestion /\ world.sshd \in [active : BOOLEAN, enabled : BOOLEAN]
      BY SharingIs DEF SharingSound, SharingState, SharingTypes
    <3> QED
      BY <3>1 DEF SharingQuestion
  <2>3. sshd \in [active : BOOLEAN, enabled : BOOLEAN]
    BY <2>2
  <2> HIDE DEF sshd
  <2>4. SharingSound(s)
    BY <1>1, <2>3, SshdElse
  <2> HIDE DEF s
  <2>5. SharingSound(t)
    BY <2>4, LoginIsAsked
  <2> HIDE DEF t
  <2>6. SharingSound([t EXCEPT !.p.login.sens = TRUE])
    <3> DEFINE login == [t.p.login EXCEPT !.sens = TRUE]
    <3>1. [t EXCEPT !.p.login.sens = TRUE] = [t EXCEPT !.p.login = login]
      BY <2>5, SharingDomains DEF SharingFields
    <3>2. DOMAIN login = {"on", "sens", "row"} /\ login.on = t.p.login.on
      BY <2>5, SharingDomains
    <3> HIDE DEF login
    <3> QED
      BY <2>5, <3>1, <3>2, LoginElse
  <2> QED
    BY <2>1, <2>4, <2>6, SharingBecomes
<1> QED
  BY <1>4, <1>5, <1>6, <1>7, <1>8

\* The name is resolved, or written once it was waited.
LEMMA NameAnswers ==
  ASSUME SharingSound(Sharing!State), NEW i \in DOMAIN calls, NEW ok, NEW pretty, NEW static,
         Sharing!HostNameFqdnDone(i, ok) \/ Sharing!SetHostnameTimeout(i, pretty, static)
  PROVE  SharingSound(Sharing!State)'
<1>1. SharingSound(Sharing!Answered(i)) /\ Sharing!Answered(i).p = panel /\ Sharing!Answered(i).w = world
  BY AnsweredIsSound
<1>2. CASE Sharing!HostNameFqdnDone(i, ok)
  <2>1. PICK label : Sharing!Becomes([Sharing!Answered(i) EXCEPT !.p.label = label])
    BY <1>2 DEF Sharing!HostNameFqdnDone
  <2> DEFINE s == Sharing!Answered(i)
             t == [s EXCEPT !.p.label = label]
  <2> HIDE DEF s
  <2>2. SharingSame(s, t, SharingOther \ {"open", "vino", "login"}) /\ t.c = s.c
    BY <1>1, SharingDomains DEF SharingSame, SharingOther, SharingFields, s
  <2>3. NoProxies(s, s.c)
    BY <1>1 DEF NoProxies, SharingSound, SharingState, SharingTypes, SharingConnects, s
  <2>4. SharingSound(t)
    BY <1>1, <2>2, <2>3, SharingElse DEF s
  <2> QED
    BY <2>1, <2>4, SharingBecomes DEF s
<1>3. CASE Sharing!SetHostnameTimeout(i, pretty, static)
  BY <1>1, <1>3, NameIsSet, SharingBecomes DEF Sharing!SetHostnameTimeout
<1> QED
  BY <1>2, <1>3

\* All the answers.
LEMMA SharingAnswers ==
  ASSUME SharingSound(Sharing!State), Sharing!Answers
  PROVE  SharingSound(Sharing!State)'
<1>1. ASSUME NEW available \in BOOLEAN, NEW listed, Sharing!SharingProxyReady(available, listed)
      PROVE SharingSound(Sharing!State)'
  BY <1>1, ProxyIsSound
<1>2. CASE Sharing!SharingProxyFailed
  BY <1>2, AnsweredIsSound, SharingBecomes DEF Sharing!SharingProxyFailed, Sharing!At
<1>3. ASSUME NEW i \in DOMAIN calls, NEW ok \in BOOLEAN,
             Sharing!BusReady(i, ok) \/ Sharing!FileStateReady(i, ok) \/ Sharing!UnitReady(i, ok)
             \/ Sharing!ActiveStateReady(i, ok) \/ Sharing!HostNameFqdnDone(i, ok)
      PROVE  SharingSound(Sharing!State)'
  BY <1>3, LoginAnswers, NameAnswers
<1>4. ASSUME NEW i \in DOMAIN calls, NEW did \in 0..2, Sharing!HelperExits(i, did)
      PROVE SharingSound(Sharing!State)'
  <2>1. TRUE \in BOOLEAN
    OBVIOUS
  <2> QED
    BY <1>4, <2>1, LoginAnswers
<1>5. ASSUME NEW i \in DOMAIN calls, NEW pretty, NEW static, Sharing!SetHostnameTimeout(i, pretty, static)
      PROVE SharingSound(Sharing!State)'
  BY <1>5, NameAnswers
<1>6. ASSUME NEW listed, Sharing!CurrentNetworkChanged(listed) PROVE SharingSound(Sharing!State)'
  BY <1>6, NetworkIsSound
<1> QED
  BY <1>1, <1>2, <1>3, <1>4, <1>5, <1>6 DEF Sharing!Answers

\* Every step keeps the invariant.
LEMMA SharingNext ==
  ASSUME SharingSound(Sharing!State), Sharing!Next \/ UNCHANGED <<panel, calls, world>>
  PROVE  SharingSound(Sharing!State)'
<1>1. CASE Sharing!Answers
  BY <1>1, SharingAnswers
<1>2. CASE Sharing!OtherPrograms
  BY <1>2, OthersAreSound
<1>3. CASE Sharing!UserActs
  <2>1. CASE Sharing!MasterClicked \/ Sharing!LoginClicked \/ \E v \in Config.sharing.Services, done,
             listed \in BOOLEAN : Sharing!NetworkSwitched(v, done, listed)
    BY <2>1, SwitchesAct
  <2>2. CASE Sharing!DialogResponse
    BY <2>2, ResponseIsSound
  <2>3. CASE Sharing!ApproveConnections \/ Sharing!RequirePassword \/ Sharing!PasswordCleared
             \/ \E letters \in {1, 5} : Sharing!PasswordTyped(letters)
    BY <2>3, ScreenActs
  <2>4. ASSUME NEW v \in Config.sharing.Services, NEW done \in BOOLEAN, NEW listed \in BOOLEAN, NEW n,
               Sharing!RemoveNetwork(v, n, done, listed)
        PROVE  SharingSound(Sharing!State)'
    BY <2>4, RemoveIsSound
  <2>5. ASSUME NEW d, Sharing!RunDialog(d) PROVE SharingSound(Sharing!State)'
    BY <2>5, RunDialogIsSound
  <2>6. CASE (\E f \in Config.sharing.Folders : Sharing!AddFolder(f))
             \/ (\E i \in DOMAIN panel.rows : Sharing!RemoveFolder(i))
    BY <2>6, FoldersAct
  <2>7. CASE Sharing!FilesRequireSwitched \/ Sharing!FilesPasswordTyped
    BY <2>7, FilesAct
  <2>8. ASSUME NEW n, Sharing!HostnameTyped(n) PROVE SharingSound(Sharing!State)'
    BY <2>8, NameActs
  <2>9. CASE Sharing!Dispose
    BY <2>9, DisposeIsSound
  <2> QED
    BY <1>3, <2>1, <2>2, <2>3, <2>4, <2>5, <2>6, <2>7, <2>8, <2>9 DEF Sharing!UserActs
<1>4. CASE UNCHANGED <<panel, calls, world>>
  <2>1. Sharing!Becomes(Sharing!State)
    BY <1>4, SharingIs DEF Sharing!Becomes
  <2> QED
    BY <2>1, SharingBecomes
<1> QED
  BY <1>1, <1>2, <1>3, <1>4 DEF Sharing!Next

-----------------------------------------------------------------------------
(***************************************************************************)
(* The master switch: off, it goes with remote login off.                  *)
(***************************************************************************)

MasterTold(s) ==
  /\ DOMAIN s = {"p", "c", "w"} /\ DOMAIN s.p = SharingFields /\ DOMAIN s.p.login = {"on", "sens", "row"}
  /\ ~s.p.master => ~s.p.login.on

\* What the panel becomes has the master switch told.
LEMMA MasterBecomes ==
  ASSUME NEW t, MasterTold(t), Sharing!Becomes(t) \/ Sharing!ByUser(t) \/ Sharing!ByOthers(t)
  PROVE  Sharing!MasterOffMeansNoLogin'
BY DEF MasterTold, Sharing!Becomes, Sharing!ByUser, Sharing!ByOthers, Sharing!MasterOffMeansNoLogin

\* What is told of the services only turns the master switch on.
LEMMA MasterOfServices ==
  ASSUME NEW s, MasterTold(s), NEW services, NEW listed
  PROVE  /\ \A rows : MasterTold(Sharing!UpdateStatus(s, rows))
         /\ MasterTold(Sharing!Heard(s, listed)) /\ MasterTold(Sharing!UpdateServices(s, services, listed))
<1>1. ASSUME NEW t, MasterTold(t), NEW rows PROVE MasterTold(Sharing!UpdateStatus(t, rows))
  BY <1>1 DEF MasterTold, Sharing!UpdateStatus, SharingFields
<1>2. ASSUME NEW told PROVE MasterTold(Sharing!Heard(s, told))
  BY <1>2 DEF MasterTold, Sharing!Heard, SharingFields
<1> QED
  BY <1>1, <1>2 DEF Sharing!UpdateServices

\* And so does a service that is shared.
LEMMA MasterOfService ==
  ASSUME NEW s, MasterTold(s), NEW v, NEW on, NEW done, NEW listed
  PROVE  MasterTold(Sharing!EnableNetwork(s, v, on, done, listed))
<1> DEFINE enabled == IF on THEN s.w.enabled[v] \cup ({s.w.net} \ {Sharing!None}) ELSE s.w.enabled[v] \ {s.p.net}
           r == [s EXCEPT !.w.enabled[v] = IF done THEN enabled ELSE @, !.p.svc[v].on = (on = done)]
           u == Sharing!Heard(r, listed)
           rows == [x \in {v} |-> Sharing!UpdateNetworks(u, v, listed)]
<1>1. Sharing!EnableNetwork(s, v, on, done, listed) = Sharing!UpdateStatus(u, rows)
  BY DEF Sharing!EnableNetwork
<1> HIDE DEF enabled
<1>2. MasterTold(r)
  BY DEF MasterTold, SharingFields
<1> HIDE DEF r, rows
<1> QED
  BY <1>1, <1>2, MasterOfServices

\* Remote login is switched, shown or asked for.
LEMMA MasterOfLogin ==
  ASSUME NEW s, MasterTold(s), NEW on \in BOOLEAN, NEW row
  PROVE  /\ MasterTold(Sharing!SetSwitchState(s, on)) /\ MasterTold(Sharing!GetLoginEnabled(s, row))
         /\ MasterTold(Sharing!LoginSwitched(s, on))
<1>1. MasterTold(Sharing!SetSwitchState(s, on))
  BY DEF MasterTold, Sharing!SetSwitchState, Sharing!MasterOn, SharingFields
<1>2. MasterTold(Sharing!GetLoginEnabled(s, row))
  BY DEF MasterTold, Sharing!GetLoginEnabled, SharingFields
<1>3. MasterTold(Sharing!LoginSwitched(s, on))
  <2> DEFINE u == [(IF on THEN Sharing!MasterOn(s) ELSE s) EXCEPT !.p.login.on = on]
  <2>1. MasterTold(u)
    BY DEF MasterTold, Sharing!MasterOn, SharingFields
  <2> HIDE DEF u
  <2>2. MasterTold(Sharing!SetLoginEnabled(u, on))
    BY <2>1 DEF MasterTold, Sharing!SetLoginEnabled, SharingFields
  <2> QED
    BY <2>2 DEF Sharing!LoginSwitched, u
<1> QED
  BY <1>1, <1>2, <1>3

\* The master switch is turned.
LEMMA MasterOfMaster ==
  ASSUME NEW s, SharingSound(s), MasterTold(s), NEW on
  PROVE  MasterTold(Sharing!MasterNotify(s, on))
<1> DEFINE m == [s EXCEPT !.p.master = on]
           o == Sharing!Off(m)
           t == Sharing!LoginSwitched(o, FALSE)
<1>1. CASE on
  BY <1>1 DEF MasterTold, Sharing!MasterNotify, SharingFields
<1>2. CASE ~on
  <2>1. SharingSound(o)
    BY MasterIsSound
  <2>2. DOMAIN o = {"p", "c", "w"} /\ DOMAIN o.p = SharingFields /\ DOMAIN o.p.login = {"on", "sens", "row"}
        /\ o.p.login.on \in BOOLEAN
    BY <2>1, SharingDomains
  <2> HIDE DEF o
  <2>3. MasterTold(t)
    BY <2>2 DEF MasterTold, Sharing!LoginSwitched, Sharing!SetLoginEnabled, SharingFields
  <2> QED
    BY <1>2, <2>3 DEF Sharing!MasterNotify, o
<1> QED
  BY <1>1, <1>2

\* Every step keeps the master switch told.
LEMMA MasterNext ==
  ASSUME SharingSound(Sharing!State), Sharing!MasterOffMeansNoLogin,
         Sharing!Next \/ UNCHANGED <<panel, calls, world>>
  PROVE  Sharing!MasterOffMeansNoLogin'
<1> USE DEF Sharing!At
<1>1. /\ MasterTold(Sharing!State) /\ Sharing!State.p = panel /\ Sharing!State.c = calls /\ Sharing!State.w = world
      /\ DOMAIN panel = SharingFields /\ DOMAIN panel.login = {"on", "sens", "row"}
      /\ ~panel.master => ~panel.login.on
  BY SharingIs DEF MasterTold, Sharing!MasterOffMeansNoLogin
<1>2. ASSUME NEW i PROVE MasterTold(Sharing!Answered(i))
  BY <1>1 DEF MasterTold, Sharing!Answered
<1>3. CASE Sharing!Answers
  <2>1. ASSUME NEW available, NEW listed, Sharing!SharingProxyReady(available, listed)
        PROVE Sharing!MasterOffMeansNoLogin'
    <3> DEFINE rows == Sharing!GetPreferences(world.folders)
               r == [Sharing!Answered(1) EXCEPT !.p.ready = TRUE, !.p.net = world.net, !.p.available = available,
                     !.p.rows = rows]
    <3>1. Sharing!Becomes(Sharing!GetLoginEnabled(Sharing!UpdateServices(r, Config.sharing.Services, listed), TRUE))
      BY <2>1 DEF Sharing!SharingProxyReady
    <3> HIDE DEF rows
    <3>2. MasterTold(r)
      BY <1>2 DEF MasterTold, SharingFields
    <3> HIDE DEF r
    <3> QED
      BY <3>1, <3>2, MasterOfServices, MasterOfLogin, MasterBecomes
  <2>2. ASSUME NEW i \in DOMAIN calls, NEW ok \in BOOLEAN,
               Sharing!BusReady(i, ok) \/ Sharing!UnitReady(i, ok) \/ Sharing!FileStateReady(i, ok)
               \/ Sharing!ActiveStateReady(i, ok) \/ Sharing!HostNameFqdnDone(i, ok)
        PROVE Sharing!MasterOffMeansNoLogin'
    <3>1. \A c : MasterTold([Sharing!State EXCEPT !.c = c])
      BY <1>1 DEF MasterTold
    <3>2. \A kind : MasterTold([Sharing!State EXCEPT !.c[i].kind = kind])
      BY <1>1 DEF MasterTold
    <3>3. \A row : MasterTold([Sharing!Answered(i) EXCEPT !.p.login.row = row])
      BY <1>2 DEF MasterTold, SharingFields
    <3>4. \A label : MasterTold([Sharing!Answered(i) EXCEPT !.p.label = label])
      BY <1>2 DEF MasterTold, SharingFields
    <3>5. world.sshd.active \in BOOLEAN
      BY SharingIs DEF SharingSound, SharingState, SharingTypes
    <3>6. MasterTold(Sharing!SetSwitchState(Sharing!Answered(i), FALSE))
          /\ MasterTold(Sharing!SetSwitchState(Sharing!Answered(i), world.sshd.active))
      BY <1>2, <3>5, MasterOfLogin
    <3>7. CASE Sharing!BusReady(i, ok)
      BY <1>2, <3>2, <3>7, MasterBecomes DEF Sharing!BusReady
    <3>8. CASE Sharing!UnitReady(i, ok)
      BY <1>2, <3>2, <3>3, <3>8, MasterBecomes DEF Sharing!UnitReady
    <3>9. CASE Sharing!FileStateReady(i, ok)
      BY <1>2, <3>2, <3>3, <3>6, <3>9, MasterBecomes DEF Sharing!FileStateReady
    <3>10. CASE Sharing!ActiveStateReady(i, ok)
      BY <1>2, <3>6, <3>10, MasterBecomes DEF Sharing!ActiveStateReady
    <3>11. CASE Sharing!HostNameFqdnDone(i, ok)
      BY <3>4, <3>11, MasterBecomes DEF Sharing!HostNameFqdnDone
    <3> QED
      BY <2>2, <3>7, <3>8, <3>9, <3>10, <3>11
  <2>3. ASSUME NEW i \in DOMAIN calls, NEW did, Sharing!HelperExits(i, did) PROVE Sharing!MasterOffMeansNoLogin'
    <3> DEFINE on == calls[i].arg
               sshd == [active |-> IF did > 0 THEN on ELSE world.sshd.active,
                        enabled |-> IF did > 1 THEN on ELSE world.sshd.enabled]
               s == [Sharing!Answered(i) EXCEPT !.w.sshd = sshd]
               t == IF did < 2 THEN Sharing!GetLoginEnabled(s, FALSE) ELSE s
    <3>1. Sharing!Answered(i).w = world /\ DOMAIN world = SharingWorldFields
      BY <1>1, SharingIs DEF Sharing!Answered
    <3>2. Sharing!Becomes(s) \/ Sharing!Becomes([t EXCEPT !.p.login.sens = TRUE])
      BY <2>3, <3>1 DEF Sharing!HelperExits, SharingWorldFields
    <3> HIDE DEF sshd
    <3>3. MasterTold(s)
      BY <1>2 DEF MasterTold
    <3> HIDE DEF s
    <3>4. MasterTold(t)
      BY <3>3, MasterOfLogin
    <3> HIDE DEF t
    <3>5. MasterTold([t EXCEPT !.p.login.sens = TRUE])
      BY <3>4 DEF MasterTold, SharingFields
    <3> QED
      BY <3>2, <3>3, <3>5, MasterBecomes
  <2>4. ASSUME NEW i, NEW pretty, NEW static, Sharing!SetHostnameTimeout(i, pretty, static)
        PROVE Sharing!MasterOffMeansNoLogin'
    <3>1. MasterTold(Sharing!SetHostname(Sharing!Answered(i), pretty, static))
      BY <1>2 DEF MasterTold, Sharing!SetHostname
    <3> QED
      BY <2>4, <3>1, MasterBecomes DEF Sharing!SetHostnameTimeout
  <2>5. ASSUME NEW listed, Sharing!CurrentNetworkChanged(listed) PROVE Sharing!MasterOffMeansNoLogin'
    <3>1. MasterTold([Sharing!State EXCEPT !.p.net = world.net])
      BY <1>1 DEF MasterTold, SharingFields
    <3> QED
      BY <2>5, <3>1, MasterOfServices, MasterBecomes DEF Sharing!CurrentNetworkChanged
  <2>6. CASE Sharing!SharingProxyFailed
    BY <1>2, <2>6, MasterBecomes DEF Sharing!SharingProxyFailed
  <2> QED
    BY <1>3, <2>1, <2>2, <2>3, <2>4, <2>5, <2>6 DEF Sharing!Answers
<1>4. CASE Sharing!OtherPrograms
  <2>1. \A x : MasterTold([Sharing!State EXCEPT !.w.net = x]) /\ MasterTold([Sharing!State EXCEPT !.w.sshd = x])
    BY <1>1 DEF MasterTold
  <2> QED
    BY <1>4, <2>1, MasterBecomes DEF Sharing!OtherPrograms
<1>5. CASE Sharing!UserActs
  <2>1. CASE Sharing!MasterClicked
    BY <1>1, <2>1, MasterOfMaster, MasterBecomes DEF Sharing!MasterClicked
  <2>2. CASE Sharing!LoginClicked
    <3>1. (~panel.login.on) \in BOOLEAN
      OBVIOUS
    <3> QED
      BY <1>1, <2>2, <3>1, MasterOfLogin, MasterBecomes DEF Sharing!LoginClicked
  <2>3. ASSUME NEW v, NEW done, NEW listed, Sharing!NetworkSwitched(v, done, listed)
        PROVE Sharing!MasterOffMeansNoLogin'
    BY <1>1, <2>3, MasterOfService, MasterBecomes DEF Sharing!NetworkSwitched
  <2>4. ASSUME NEW v, NEW n, NEW done, NEW listed, Sharing!RemoveNetwork(v, n, done, listed)
        PROVE Sharing!MasterOffMeansNoLogin'
    <3> DEFINE s == [Sharing!State EXCEPT !.w.enabled[v] = IF done THEN @ \ {n} ELSE @]
    <3>1. Sharing!ByUser(Sharing!UpdateServices(s, {v}, IF listed THEN {v} ELSE {}))
      BY <2>4 DEF Sharing!RemoveNetwork
    <3>2. MasterTold(s)
      BY <1>1 DEF MasterTold
    <3> HIDE DEF s
    <3> QED
      BY <3>1, <3>2, MasterOfServices, MasterBecomes
  <2>5. CASE Sharing!DialogResponse
    <3>1. PICK folders, vino : Sharing!Becomes([Sharing!State EXCEPT !.p.open = Sharing!None, !.w.folders = folders,
                                                                     !.w.vino = vino])
      BY <2>5 DEF Sharing!DialogResponse
    <3>2. MasterTold([Sharing!State EXCEPT !.p.open = Sharing!None, !.w.folders = folders, !.w.vino = vino])
      BY <1>1 DEF MasterTold, SharingFields
    <3> QED
      BY <3>1, <3>2, MasterBecomes
  <2>6. ASSUME NEW d, Sharing!RunDialog(d) PROVE Sharing!MasterOffMeansNoLogin'
    <3> DEFINE t == [Sharing!State EXCEPT !.p.open = d, !.c = Append(@, [kind |-> "label", arg |-> FALSE])]
    <3>1. MasterTold(t)
      BY <1>1 DEF MasterTold, SharingFields
    <3>2. Sharing!ByUser(t)
      BY <2>6 DEF Sharing!RunDialog
    <3> QED
      BY <3>1, <3>2, MasterBecomes
  <2>7. CASE (\E f \in Config.sharing.Folders : Sharing!AddFolder(f))
             \/ (\E i \in DOMAIN panel.rows : Sharing!RemoveFolder(i))
    <3>1. PICK rows : Sharing!ByUser([Sharing!State EXCEPT !.p.rows = rows])
      BY <2>7 DEF Sharing!AddFolder, Sharing!RemoveFolder, Sharing!State
    <3>2. MasterTold([Sharing!State EXCEPT !.p.rows = rows])
      BY <1>1 DEF MasterTold, SharingFields
    <3> QED
      BY <3>1, <3>2, MasterBecomes
  <2>8. CASE Sharing!ApproveConnections \/ Sharing!RequirePassword \/ Sharing!PasswordCleared
             \/ (\E letters \in {1, 5} : Sharing!PasswordTyped(letters))
             \/ Sharing!FilesRequireSwitched \/ Sharing!FilesPasswordTyped
    <3>1. PICK s : Sharing!ByUser(s) /\ DOMAIN s = {"p", "c", "w"} /\ s.p = panel
      <4>1. CASE Sharing!ApproveConnections \/ Sharing!RequirePassword \/ Sharing!PasswordCleared
                 \/ (\E letters \in {1, 5} : Sharing!PasswordTyped(letters))
        <5>1. PICK vino : Sharing!ByUser([Sharing!State EXCEPT !.w.vino = vino])
          BY <4>1 DEF Sharing!ApproveConnections, Sharing!RequirePassword, Sharing!PasswordCleared, Sharing!PasswordTyped
        <5>2. DOMAIN [Sharing!State EXCEPT !.w.vino = vino] = {"p", "c", "w"}
              /\ [Sharing!State EXCEPT !.w.vino = vino].p = panel
          BY DEF Sharing!State
        <5> QED
          BY <5>1, <5>2
      <4>2. CASE Sharing!FilesRequireSwitched \/ Sharing!FilesPasswordTyped
        <5> QED
          BY <4>2 DEF Sharing!FilesRequireSwitched, Sharing!FilesPasswordTyped, Sharing!State
      <4> QED
        BY <2>8, <4>1, <4>2
    <3>2. MasterTold(s)
      BY <1>1, <3>1 DEF MasterTold
    <3> QED
      BY <3>1, <3>2, MasterBecomes
  <2>9. ASSUME NEW n, Sharing!HostnameTyped(n) PROVE Sharing!MasterOffMeansNoLogin'
    <3>1. PICK c : Sharing!ByUser([Sharing!State EXCEPT !.p.name = n, !.c = c])
      BY <2>9 DEF Sharing!HostnameTyped, Sharing!State
    <3>2. MasterTold([Sharing!State EXCEPT !.p.name = n, !.c = c])
      BY <1>1 DEF MasterTold, SharingFields
    <3> QED
      BY <3>1, <3>2, MasterBecomes
  <2>10. CASE Sharing!Dispose
    <3>1. PICK c : LET s == [Sharing!State EXCEPT !.p.closed = TRUE, !.c = c]
                   IN Sharing!ByUser(s) \/ Sharing!ByUser(Sharing!SetHostname(s, TRUE, TRUE))
      BY <2>10 DEF Sharing!Dispose, Sharing!State
    <3> DEFINE s == [Sharing!State EXCEPT !.p.closed = TRUE, !.c = c]
    <3>2. MasterTold(s)
      BY <1>1 DEF MasterTold, SharingFields
    <3> HIDE DEF s
    <3>3. MasterTold(Sharing!SetHostname(s, TRUE, TRUE))
      BY <3>2 DEF MasterTold, Sharing!SetHostname
    <3> QED
      BY <3>1, <3>2, <3>3, MasterBecomes DEF s
  <2> QED
    BY <1>5, <2>1, <2>2, <2>3, <2>4, <2>5, <2>6, <2>7, <2>8, <2>9, <2>10 DEF Sharing!UserActs
<1>6. CASE UNCHANGED <<panel, calls, world>>
  BY <1>6 DEF Sharing!MasterOffMeansNoLogin
<1> QED
  BY <1>3, <1>4, <1>5, <1>6 DEF Sharing!Next

\* The invariant is what the switches and dialogs keep to.
LEMMA SharingTells ==
  ASSUME SharingSound(Sharing!State)
  PROVE  Sharing!SwitchTellsNetwork /\ Sharing!ScreenIsGuarded /\ Sharing!StatusTellsNetworks
<1>1. \A v \in Config.sharing.Services : panel.svc[v].on \in BOOLEAN
  BY SharingIs DEF SharingSound, SharingState, SharingRows, ServiceRow
<1>2. Sharing!SwitchTellsNetwork
  BY <1>1, SharingIs DEF SharingSound, SharingKnows, Sharing!SwitchTellsNetwork
<1>3. Sharing!ScreenIsGuarded
  BY SharingIs DEF SharingSound, ScreenGuards, Sharing!ScreenIsGuarded
<1>4. Sharing!StatusTellsNetworks
  BY SharingIs DEF SharingSound, SharingStatuses, Sharing!StatusTellsNetworks
<1> QED
  BY <1>2, <1>3, <1>4


-----------------------------------------------------------------------------
(***************************************************************************)
(* Network: the rows, their pages, and the page that is shown.  What is in *)
(* the order of the rows is an assumption on the constants.                *)
(***************************************************************************)

NetIds == Network!Devices \cup Config.network.Vpns \cup {"proxy"}
NetFields ==
  {"rows", "pages", "on", "made", "sel", "page", "remove", "arg", "dialog", "about", "mapped", "freed",
  "misused", "proxy"}
NetWorldFields ==
  {"nm", "devices", "vpns", "active", "wwan", "mode", "url", "hosts", "system", "actions", "changes"}
NetObjects == [id : NetIds, n : Nat]
\* The fields; the pages are numbered as they were made.
NetForm(p) == DOMAIN p = NetFields /\ DOMAIN p.proxy = {"mode", "warned"}
NetPages(p) == p.made \in Nat /\ p.pages \in Seq(NetObjects) /\ Len(p.pages) = p.made
/\ \A i \in 1..p.made : p.pages[i].n = i
\* A row has a page of its own, and no other row its identifier.
NetRows(p) ==
  /\ \A o \in p.rows : \E i \in 1..p.made : o = p.pages[i]
  /\ \A o, q \in p.rows : o.id = q.id => o = q
NetHasProxy(p) == \E o \in p.rows : o.id = "proxy"
\* What is selected has a page, and one that is like it is shown.
NetShows(p) ==
  p.sel # Network!NoObject =>
    /\ \E i \in 1..p.made : p.sel = p.pages[i]
    /\ \E i \in 1..p.made : p.page = p.pages[i] /\ p.page.id = p.sel.id
NetPanelSound(p) == NetForm(p) /\ NetPages(p) /\ NetRows(p) /\ NetHasProxy(p) /\ NetShows(p)
NetWorldSound(w) == DOMAIN w = NetWorldFields /\ w.vpns \subseteq Config.network.Vpns
NetWarns(p, w) == p.proxy.warned <=> (w.mode = "auto" /\ ~w.url)
NetSound(p, w) == NetPanelSound(p) /\ NetWorldSound(w) /\ NetWarns(p, w)

\* What is left as it was when objects are made.
NetSamePages(p, t) ==
  /\ DOMAIN t = NetFields /\ t.proxy = p.proxy /\ t.sel = p.sel /\ t.page = p.page
  /\ p.made \in Nat /\ t.made \in Nat /\ p.made <= t.made /\ \A i \in 1..p.made : t.pages[i] = p.pages[i]

\* The lists of the module are those of ListsProofs.
LEMMA NetLists ==
  /\ \A list, places : Network!Kept(list, places) = Kept(list, places)
  /\ \A places : Network!Least(places) = Least(places)
BY DEF Network!Kept, Kept, Network!Least, Least

\* What is in the order.
LEMMA OrderIs ==
  /\ Config.network.Order \in Seq(NetIds) /\ Len(Config.network.Order) \in Nat
     /\ DOMAIN Config.network.Order = 1..Len(Config.network.Order)
  /\ Len(Config.network.Order) \in DOMAIN Config.network.Order
     /\ Config.network.Order[Len(Config.network.Order)] = "proxy"
  /\ \A i \in DOMAIN Config.network.Order : Config.network.Order[i] \in NetIds
  /\ \A i, j \in DOMAIN Config.network.Order : Config.network.Order[i] = Config.network.Order[j] => i = j
  /\ \A id \in NetIds : \E i \in DOMAIN Config.network.Order : Config.network.Order[i] = id
  /\ \A id \in Config.network.Vpns \cup Network!Devices : \E i \in DOMAIN Config.network.Order : i # Len(Config.network.Order) /\ Config.network.Order[i] = id
<1>1. Config.network.Order \in Seq(NetIds)
  BY OrderAssumption DEF NetIds
<1>2. Len(Config.network.Order) \in Nat /\ DOMAIN Config.network.Order = 1..Len(Config.network.Order)
  BY <1>1
<1>3. Len(Config.network.Order) \in DOMAIN Config.network.Order
  BY <1>1, <1>2, OrderAssumption
<1>4. \A i \in DOMAIN Config.network.Order : Config.network.Order[i] \in NetIds
  BY <1>1
<1>5. Config.network.Order[Len(Config.network.Order)] = "proxy"
  BY OrderAssumption
<1>6. \A i, j \in DOMAIN Config.network.Order : Config.network.Order[i] = Config.network.Order[j] => i = j
  BY OrderAssumption
<1>7. {Config.network.Order[i] : i \in DOMAIN Config.network.Order \ {Len(Config.network.Order)}} = Network!Devices \cup Config.network.Vpns
  BY OrderAssumption
<1>8. \A id \in Config.network.Vpns \cup Network!Devices : \E i \in DOMAIN Config.network.Order : i # Len(Config.network.Order) /\ Config.network.Order[i] = id
  BY <1>7
<1>9. \A id \in NetIds : \E i \in DOMAIN Config.network.Order : Config.network.Order[i] = id
  BY <1>3, <1>5, <1>8 DEF NetIds
<1> QED
  BY <1>1, <1>2, <1>3, <1>4, <1>5, <1>6, <1>8, <1>9

\* An object that is made has a new page and a row.
LEMMA ObjectsAdded ==
  ASSUME NEW p, NEW ids, NEW w, NetForm(p), NetPages(p), NetRows(p)
  PROVE  LET t == Network!AddObjects(p, ids, w)
         IN /\ NetForm(t) /\ NetPages(t) /\ NetRows(t) /\ NetSamePages(p, t)
            /\ p.rows \subseteq t.rows
            /\ \A id \in ids \cap NetIds : \E o \in t.rows : o.id = id
<1> DEFINE places == {i \in DOMAIN Config.network.Order : Config.network.Order[i] \in ids
           /\ ~Network!FindInModelById(p, Config.network.Order[i])}
           new == Network!Kept(Config.network.Order, places)
           made == [k \in DOMAIN new |-> [id |-> new[k], n |-> p.made + k]]
           on == [k \in DOMAIN new |-> Network!Refreshed(new[k], w)]
           t == Network!AddObjects(p, ids, w)
<1>1. places \subseteq DOMAIN Config.network.Order
  OBVIOUS
<1>2. /\ new \in Seq(NetIds)
      /\ \A k \in DOMAIN new : \E i \in places : new[k] = Config.network.Order[i]
      /\ \A i \in places : \E k \in DOMAIN new : new[k] = Config.network.Order[i]
      /\ \A k, l \in DOMAIN new : new[k] = new[l] => k = l
  <2> DEFINE list == Config.network.Order
             q == Kept(list, places)
  <2>1. list \in Seq(NetIds) /\ (\A i, j \in DOMAIN list : list[i] = list[j] => i = j)
        /\ places \subseteq DOMAIN list
    BY <1>1, OrderIs
  <2>2. Network!Kept(list, places) = Kept(list, places)
    BY NetLists
  <2> HIDE DEF places, list, q
  <2>3. /\ q \in Seq(NetIds)
        /\ \A k \in DOMAIN q : \E i \in places : q[k] = list[i]
        /\ \A i \in places : \E k \in DOMAIN q : q[k] = list[i]
        /\ \A k, l \in DOMAIN q : q[k] = q[l] => k = l
    BY <2>1, KeptDistinct DEF q
  <2>4. new = q
    BY <2>2 DEF list, q
  <2> QED
    BY <2>3, <2>4 DEF list
<1>3. t = [p EXCEPT !.rows = @ \cup {made[k] : k \in DOMAIN made}, !.pages = @ \o made, !.made = @ + Len(new),
      !.on = @ \o on]
  BY DEF Network!AddObjects
<1>4. \A i \in places : Config.network.Order[i] \in ids /\ Config.network.Order[i] \in NetIds
      /\ ~Network!FindInModelById(p, Config.network.Order[i])
  BY OrderIs
<1> HIDE DEF new
<1>5. Len(new) \in Nat /\ DOMAIN new = 1..Len(new)
  BY <1>2
<1>6. \A k \in 1..Len(new) : new[k] \in ids /\ new[k] \in NetIds /\ ~Network!FindInModelById(p, new[k])
  BY <1>2, <1>4, <1>5
<1>7. \A id \in ids \cap NetIds : Network!FindInModelById(p, id) \/ \E k \in 1..Len(new) : new[k] = id
  <2> SUFFICES ASSUME NEW id \in ids \cap NetIds, ~Network!FindInModelById(p, id)
               PROVE \E k \in 1..Len(new) : new[k] = id
    OBVIOUS
  <2>1. PICK i \in DOMAIN Config.network.Order : Config.network.Order[i] = id
    BY OrderIs
  <2>2. i \in places
    BY <2>1
  <2> HIDE DEF places
  <2> QED
    BY <1>2, <1>5, <2>1, <2>2
<1> HIDE DEF new, places
<1>8. p.made \in Nat /\ p.pages \in Seq(NetObjects) /\ Len(p.pages) = p.made
      /\ \A i \in 1..p.made : p.pages[i].n = i
  BY DEF NetPages
<1>9. /\ made \in Seq(NetObjects) /\ Len(made) = Len(new) /\ DOMAIN made = 1..Len(new)
      /\ \A k \in 1..Len(new) : made[k].id = new[k] /\ made[k].n = p.made + k
  <2>1. DOMAIN made = 1..Len(new) /\ \A k \in 1..Len(new) : made[k] = [id |-> new[k], n |-> p.made + k]
    BY <1>5
  <2>2. \A k \in 1..Len(new) : made[k] \in NetObjects
    BY <1>6, <1>8, <2>1 DEF NetObjects
  <2> HIDE DEF made
  <2>3. made = [k \in 1..Len(new) |-> made[k]]
    BY <2>1 DEF made
  <2> QED
    BY <1>5, <2>1, <2>2, <2>3
<1> HIDE DEF made, on
<1>10. DOMAIN p = NetFields
  BY DEF NetForm
<1>11. /\ DOMAIN t = NetFields /\ t.proxy = p.proxy /\ t.sel = p.sel /\ t.page = p.page
       /\ t.rows = p.rows \cup {made[k] : k \in DOMAIN made} /\ t.pages = p.pages \o made
       /\ t.made = p.made + Len(new) /\ t.on = p.on \o on
  BY <1>3, <1>10 DEF NetFields
<1> HIDE DEF t
<1>12. /\ t.pages \in Seq(NetObjects) /\ Len(t.pages) = t.made /\ t.made \in Nat
       /\ \A i \in 1..p.made : t.pages[i] = p.pages[i]
       /\ \A k \in 1..Len(new) : t.pages[p.made + k] = made[k]
  <2>1. /\ p.pages \o made \in Seq(NetObjects) /\ Len(p.pages \o made) = p.made + Len(new)
        /\ \A i \in 1..p.made + Len(new) : (p.pages \o made)[i] = IF i <= p.made THEN p.pages[i]
           ELSE made[i - p.made]
    <3> DEFINE a == p.pages
    <3>1. a \in Seq(NetObjects) /\ made \in Seq(NetObjects) /\ Len(a) = p.made /\ Len(made) = Len(new)
      BY <1>8, <1>9
    <3> HIDE DEF a
    <3>2. /\ a \o made \in Seq(NetObjects) /\ Len(a \o made) = Len(a) + Len(made)
          /\ \A i \in 1..Len(a) + Len(made) : (a \o made)[i] = IF i <= Len(a) THEN a[i] ELSE made[i - Len(a)]
      <4>1. a \o made \in Seq(NetObjects)
        BY <3>1
      <4>2. Len(a \o made) = Len(a) + Len(made)
        BY <3>1
      <4>3. ASSUME NEW i \in 1..Len(a) + Len(made)
            PROVE  (a \o made)[i] = IF i <= Len(a) THEN a[i] ELSE made[i - Len(a)]
        BY <3>1
      <4> QED
        BY <4>1, <4>2, <4>3
    <3> QED
      BY <3>1, <3>2 DEF a
  <2>2. \A i \in 1..p.made : i \in 1..p.made + Len(new) /\ i <= p.made
    BY <1>5, <1>8
  <2>3. \A k \in 1..Len(new) : p.made + k \in 1..p.made + Len(new) /\ ~(p.made + k <= p.made)
        /\ (p.made + k) - p.made = k
    BY <1>5, <1>8
  <2>4. \A k \in 1..Len(new) : (p.pages \o made)[p.made + k] = made[k]
    BY <2>1, <2>3
  <2>5. \A i \in 1..p.made : (p.pages \o made)[i] = p.pages[i]
    BY <2>1, <2>2
  <2>6. p.made + Len(new) \in Nat
    BY <1>5, <1>8
  <2> QED
    BY <1>11, <2>1, <2>4, <2>5, <2>6
<1>13. \A i \in 1..t.made : i \in 1..p.made \/ (i - p.made \in 1..Len(new) /\ i = p.made + (i - p.made))
  BY <1>5, <1>8, <1>11
<1>14. NetForm(t)
  BY <1>11 DEF NetForm
<1>15. NetPages(t)
  <2>1. ASSUME NEW i \in 1..t.made PROVE t.pages[i].n = i
    <3>1. CASE i \in 1..p.made
      BY <1>8, <1>12, <3>1
    <3>2. CASE i - p.made \in 1..Len(new) /\ i = p.made + (i - p.made)
      BY <1>9, <1>12, <3>2
    <3> QED
      BY <1>13, <3>1, <3>2
  <2> QED
    BY <1>12, <2>1 DEF NetPages
<1>16. NetSamePages(p, t)
  BY <1>5, <1>8, <1>11, <1>12 DEF NetSamePages
<1>17. \A o \in t.rows : o \in p.rows \/ \E k \in 1..Len(new) : o = made[k]
  BY <1>9, <1>11
<1>18. NetRows(t)
  <2>1. ASSUME NEW o \in t.rows PROVE \E i \in 1..t.made : o = t.pages[i]
    <3>1. CASE o \in p.rows
      <4>1. PICK i \in 1..p.made : o = p.pages[i]
        BY <3>1 DEF NetRows
      <4>2. i \in 1..t.made
        BY <1>5, <1>8, <1>11
      <4> QED
        BY <1>12, <4>1, <4>2
    <3>2. ASSUME NEW k \in 1..Len(new), o = made[k] PROVE \E i \in 1..t.made : o = t.pages[i]
      <4>1. p.made + k \in 1..t.made
        BY <1>5, <1>8, <1>11
      <4> QED
        BY <1>12, <3>2, <4>1
    <3> QED
      BY <1>17, <3>1, <3>2
  <2>2. ASSUME NEW o \in t.rows, NEW q \in t.rows, o.id = q.id PROVE o = q
    <3>1. CASE o \in p.rows /\ q \in p.rows
      BY <2>2, <3>1 DEF NetRows
    <3>2. ASSUME o \in p.rows, NEW k \in 1..Len(new), q = made[k] PROVE FALSE
      BY <1>6, <1>9, <2>2, <3>2 DEF Network!FindInModelById
    <3>3. ASSUME q \in p.rows, NEW k \in 1..Len(new), o = made[k] PROVE FALSE
      BY <1>6, <1>9, <2>2, <3>3 DEF Network!FindInModelById
    <3>4. ASSUME NEW k \in 1..Len(new), NEW l \in 1..Len(new), o = made[k], q = made[l] PROVE o = q
      <4>1. new[k] = new[l]
        BY <1>9, <2>2, <3>4
      <4>2. k = l
        BY <1>2, <1>5, <4>1
      <4> QED
        BY <3>4, <4>2
    <3> QED
      BY <1>17, <3>1, <3>2, <3>3, <3>4
  <2> QED
    BY <2>1, <2>2 DEF NetRows
<1>19. p.rows \subseteq t.rows
  BY <1>11
<1>20. ASSUME NEW id \in ids \cap NetIds PROVE \E o \in t.rows : o.id = id
  <2>1. CASE Network!FindInModelById(p, id)
    BY <1>19, <2>1 DEF Network!FindInModelById
  <2>2. ASSUME NEW k \in 1..Len(new), new[k] = id PROVE \E o \in t.rows : o.id = id
    BY Zenon, <1>9, <1>11, <2>2
  <2> QED
    BY <1>7, <2>1, <2>2
<1>21. /\ NetForm(t) /\ NetPages(t) /\ NetRows(t) /\ NetSamePages(p, t)
       /\ p.rows \subseteq t.rows
       /\ \A id \in ids \cap NetIds : \E o \in t.rows : o.id = id
  BY <1>14, <1>15, <1>16, <1>18, <1>19, <1>20
<1> QED
  BY <1>21 DEF t

\* A row that is selected shows its page.
LEMMA SelectShows ==
  ASSUME NEW p, NetPanelSound(p), NEW o \in p.rows
  PROVE  LET t == Network!Select(p, o) IN NetPanelSound(t) /\ t.proxy = p.proxy /\ t.rows = p.rows
<1> DEFINE of == {i \in DOMAIN p.pages : p.pages[i].id = o.id}
           t == Network!Select(p, o)
<1>1. p.made \in Nat /\ p.pages \in Seq(NetObjects) /\ Len(p.pages) = p.made /\ DOMAIN p.pages = 1..p.made
  BY DEF NetPanelSound, NetPages
<1>2. PICK i \in 1..p.made : o = p.pages[i]
  BY DEF NetPanelSound, NetRows
<1>3. of \subseteq Nat /\ of # {}
  BY <1>1, <1>2
<1>4. Network!Least(of) \in 1..p.made /\ p.pages[Network!Least(of)].id = o.id
  <2>1. Network!Least(of) \in of
    BY <1>3, NetLists, LeastIs
  <2> QED
    BY <1>1, <2>1
<1>5. t = [p EXCEPT !.sel = o, !.remove = o.id \in Config.network.Vpns, !.page = p.pages[Network!Least(of)]]
  BY DEF Network!Select
<1> HIDE DEF of, t
<1>6. DOMAIN p = NetFields
  BY DEF NetPanelSound, NetForm
<1>7. /\ DOMAIN t = NetFields /\ t.sel = o /\ t.page = p.pages[Network!Least(of)] /\ t.proxy = p.proxy
      /\ t.rows = p.rows /\ t.pages = p.pages /\ t.made = p.made
  BY <1>5, <1>6 DEF NetFields
<1>8. NetForm(t) /\ NetPages(t) /\ NetRows(t) /\ NetHasProxy(t)
  BY <1>7 DEF NetPanelSound, NetForm, NetPages, NetRows, NetHasProxy
<1>9. NetShows(t)
  BY <1>2, <1>4, <1>7 DEF NetShows
<1> QED
  BY <1>7, <1>8, <1>9 DEF NetPanelSound, t

\* The first row of some places is a row, and at one of them.
LEMMA FirstRowIs ==
  ASSUME NEW p, NEW places, places \subseteq DOMAIN Config.network.Order, Network!RowsAt(p, places) # {}
  PROVE  Network!FirstRow(p, places) \in p.rows
         /\ \E i \in places : Network!FirstRow(p, places).id = Config.network.Order[i]
<1> DEFINE i == Network!Least(Network!RowsAt(p, places))
<1>1. Network!RowsAt(p, places) \subseteq Nat
  BY OrderIs DEF Network!RowsAt
<1>2. i \in Network!RowsAt(p, places)
  BY <1>1, NetLists, LeastIs
<1>3. i \in places /\ Network!FindInModelById(p, Config.network.Order[i])
  BY <1>2 DEF Network!RowsAt
<1> HIDE DEF i
<1>4. Network!RowOf(p, Config.network.Order[i]) \in p.rows
      /\ Network!RowOf(p, Config.network.Order[i]).id = Config.network.Order[i]
  BY <1>3 DEF Network!RowOf, Network!FindInModelById
<1> QED
  BY <1>3, <1>4 DEF Network!FirstRow, i

\* There is a row to select as long as there is that of the proxy.
LEMMA FirstShows ==
  ASSUME NEW p, NetPanelSound(p)
  PROVE  LET t == Network!SelectFirstDevice(p) IN NetPanelSound(t) /\ t.proxy = p.proxy
<1>1. PICK o \in p.rows : o.id = "proxy"
  BY DEF NetPanelSound, NetHasProxy
<1>2. Len(Config.network.Order) \in Network!RowsAt(p, DOMAIN Config.network.Order)
  BY <1>1, OrderIs DEF Network!RowsAt, Network!FindInModelById
<1>3. Network!FirstRow(p, DOMAIN Config.network.Order) \in p.rows
  BY <1>2, FirstRowIs
<1> QED
  BY <1>3, SelectShows DEF Network!SelectFirstDevice

\* A row that goes leaves the pages, and the others their rows.
LEMMA RowDropped ==
  ASSUME NEW p, NetPanelSound(p), NEW o \in p.rows, o.id # "proxy"
  PROVE  LET t == Network!DropRow(p, o) IN NetPanelSound(t) /\ t.proxy = p.proxy /\ t.rows = p.rows \ {o}
<1> DEFINE t == Network!DropRow(p, o)
<1>1. DOMAIN p = NetFields
  BY DEF NetPanelSound, NetForm
<1>2. /\ DOMAIN t = NetFields /\ t.proxy = p.proxy /\ t.page = p.page
      /\ t.rows = p.rows \ {o} /\ t.pages = p.pages /\ t.made = p.made
      /\ t.sel \in {p.sel, Network!NoObject}
  BY <1>1 DEF Network!DropRow, Network!Unselect, NetFields
<1> HIDE DEF t
<1>3. NetForm(t) /\ NetPages(t) /\ NetRows(t) /\ NetHasProxy(t) /\ NetShows(t)
  BY <1>2 DEF NetPanelSound, NetForm, NetPages, NetRows, NetHasProxy, NetShows
<1> QED
  BY <1>2, <1>3 DEF NetPanelSound, t

\* Objects that are made keep what is shown.
LEMMA AddShows ==
  ASSUME NEW p, NEW ids, NEW w, NetPanelSound(p)
  PROVE  LET t == Network!AddObjects(p, ids, w) IN NetPanelSound(t) /\ t.proxy = p.proxy
<1> DEFINE t == Network!AddObjects(p, ids, w)
<1>1. NetForm(t) /\ NetPages(t) /\ NetRows(t) /\ NetSamePages(p, t) /\ p.rows \subseteq t.rows
  BY ObjectsAdded DEF NetPanelSound
<1> HIDE DEF t
<1>2. NetHasProxy(t)
  BY <1>1 DEF NetPanelSound, NetHasProxy
<1>3. t.sel = p.sel /\ t.page = p.page /\ t.proxy = p.proxy /\ \A i \in 1..p.made : i \in 1..t.made
      /\ t.pages[i] = p.pages[i]
  BY <1>1 DEF NetSamePages
<1>4. NetShows(t)
  BY <1>3 DEF NetPanelSound, NetShows
<1> QED
  BY <1>1, <1>2, <1>3, <1>4 DEF NetPanelSound, t

\* Fields that nothing is said of.
LEMMA ElseShows ==
  ASSUME NEW p, NEW t, NetPanelSound(p), NetForm(t), t.made = p.made, t.pages = p.pages, t.rows = p.rows,
         t.sel = p.sel, t.page = p.page
  PROVE  NetPanelSound(t)
BY DEF NetPanelSound, NetPages, NetRows, NetHasProxy, NetShows

\* The operation of the command line selects a row or none.
LEMMA ArgvHandled ==
  ASSUME NEW p, NEW dialog, NetPanelSound(p), Network!HandleArgv(p, dialog)
  PROVE  NetPanelSound(panel') /\ panel'.proxy = p.proxy
<1> DEFINE of == {i \in DOMAIN Config.network.Order : Config.network.Order[i] \in Network!Devices
           /\ Network!Handles(p.arg, Config.network.Order[i])}
           t == Network!Select(p, Network!FirstRow(p, of))
<1>1. CASE panel' = p
  BY <1>1
<1>2. CASE Network!RowsAt(p, of) # {} /\ panel' = [t EXCEPT !.dialog = dialog, !.about = p.arg.device,
           !.arg = Network!NoArg]
  <2>1. Network!FirstRow(p, of) \in p.rows
    BY <1>2, FirstRowIs
  <2>2. NetPanelSound(t) /\ t.proxy = p.proxy
    BY <2>1, SelectShows
  <2> HIDE DEF t
  <2>3. DOMAIN t = NetFields /\ DOMAIN t.proxy = {"mode", "warned"}
    BY <2>2 DEF NetPanelSound, NetForm
  <2>4. /\ DOMAIN panel' = NetFields /\ panel'.made = t.made /\ panel'.pages = t.pages /\ panel'.rows = t.rows
        /\ panel'.sel = t.sel /\ panel'.page = t.page /\ panel'.proxy = t.proxy
    BY <1>2, <2>3 DEF NetFields
  <2>5. NetForm(panel')
    BY <2>3, <2>4 DEF NetForm
  <2> QED
    BY <2>2, <2>4, <2>5, ElseShows
<1> QED
  BY <1>1, <1>2 DEF Network!HandleArgv

\* When NetworkManager runs, or does no longer, the rows are those it tells of, or that of the proxy.
LEMMA ManagerShows ==
  ASSUME NEW p, NEW w, NEW dialog, NetPanelSound(p), Network!ManagerRunning(p, w, dialog)
  PROVE  NetPanelSound(panel') /\ panel'.proxy = p.proxy
<1> DEFINE cleared == [p EXCEPT !.rows = {}, !.sel = Network!NoObject,
           !.freed = @ \cup {o \in p.rows : o.id = "proxy"}]
           none == Network!AddObjects(cleared, {"proxy"}, w)
           known == IF w.nm THEN Network!AddObjects(p, w.devices, w) ELSE none
<1>1. NetPanelSound(none) /\ none.proxy = p.proxy
  <2>1. DOMAIN p = NetFields
    BY DEF NetPanelSound, NetForm
  <2>2. /\ DOMAIN cleared = NetFields /\ cleared.rows = {} /\ cleared.sel = Network!NoObject
           /\ cleared.pages = p.pages
        /\ cleared.made = p.made /\ cleared.proxy = p.proxy
    BY <2>1 DEF NetFields
  <2> HIDE DEF cleared
  <2>3. NetForm(cleared) /\ NetPages(cleared) /\ NetRows(cleared)
    BY <2>2 DEF NetPanelSound, NetForm, NetPages, NetRows
  <2>4. "proxy" \in {"proxy"} \cap NetIds
    BY DEF NetIds
  <2>5. NetForm(none) /\ NetPages(none) /\ NetRows(none) /\ NetSamePages(cleared, none)
        /\ \E o \in none.rows : o.id = "proxy"
    BY <2>3, <2>4, ObjectsAdded
  <2> HIDE DEF none
  <2>6. NetShows(none)
    BY <2>2, <2>5 DEF NetShows, NetSamePages
  <2>7. none.proxy = p.proxy
    BY <2>2, <2>5 DEF NetSamePages
  <2> QED
    BY <2>5, <2>6, <2>7 DEF NetPanelSound, NetHasProxy
<1>2. NetPanelSound(known) /\ known.proxy = p.proxy
  BY <1>1, AddShows
<1> HIDE DEF known
<1>3. NetPanelSound(Network!SelectFirstDevice(known)) /\ Network!SelectFirstDevice(known).proxy = p.proxy
  BY <1>2, FirstShows
<1>4. Network!HandleArgv(Network!SelectFirstDevice(known), dialog)
  BY DEF Network!ManagerRunning, known
<1> QED
  BY <1>3, <1>4, ArgvHandled

\* Below a VPN there is the proxy, if nothing else.
LEMMA VpnGoes ==
  ASSUME NEW p, NEW id \in Config.network.Vpns, NetPanelSound(p)
  PROVE  LET t == Network!VpnRemoved(p, id) IN NetPanelSound(t) /\ t.proxy = p.proxy
<1> DEFINE below == {k \in DOMAIN Config.network.Order : \E m \in DOMAIN Config.network.Order : m < k
           /\ Config.network.Order[m] = id}
           o == Network!RowOf(p, id)
           q == Network!FirstRow(p, below)
<1>1. CASE ~Network!FindInModelById(p, id)
  BY <1>1 DEF Network!VpnRemoved
<1>2. CASE Network!FindInModelById(p, id)
  <2>1. o \in p.rows /\ o.id = id
    BY <1>2 DEF Network!RowOf, Network!FindInModelById
  <2>2. PICK m \in DOMAIN Config.network.Order : m # Len(Config.network.Order) /\ Config.network.Order[m] = id
    BY OrderIs
  <2>3. id # "proxy" /\ Len(Config.network.Order) \in below /\ \A i \in below : Config.network.Order[i] # id
    <3> DEFINE order == Config.network.Order
    <3>1. /\ order[m] = id /\ m # Len(order) /\ order[Len(order)] = "proxy" /\ DOMAIN order = 1..Len(order)
          /\ m \in DOMAIN order /\ Len(order) \in DOMAIN order /\ Len(order) \in Nat
          /\ \A i, j \in DOMAIN order : order[i] = order[j] => i = j
      BY <2>2, OrderIs
    <3>2. below = {k \in DOMAIN order : \E n \in DOMAIN order : n < k /\ order[n] = id}
      OBVIOUS
    <3> HIDE DEF order, below
    <3>3. m < Len(order) /\ id # "proxy" /\ Len(order) \in below
      BY <3>1, <3>2
    <3>4. \A i \in below : order[i] # id
      BY <3>1, <3>2
    <3> QED
      BY <3>3, <3>4 DEF order
  <2>4. Len(Config.network.Order) \in Network!RowsAt(p, below)
    BY <2>3, OrderIs DEF NetPanelSound, NetHasProxy, Network!RowsAt, Network!FindInModelById
  <2>5. q \in p.rows /\ \E i \in below : q.id = Config.network.Order[i]
    BY Zenon, <2>4, FirstRowIs
  <2>6. q # o
    BY <2>1, <2>3, <2>5
  <2>7. NetPanelSound(Network!DropRow(p, o)) /\ Network!DropRow(p, o).proxy = p.proxy
        /\ q \in Network!DropRow(p, o).rows
    BY <2>1, <2>3, <2>5, <2>6, RowDropped
  <2>8. Network!VpnRemoved(p, id) = Network!Select(Network!DropRow(p, o), q)
    BY <1>2 DEF Network!VpnRemoved
  <2> HIDE DEF o, q
  <2> QED
    BY <2>7, <2>8, SelectShows
<1> QED
  BY <1>1, <1>2

\* A device that goes takes its row along.
LEMMA DeviceGoes ==
  ASSUME NEW p, NEW id \in Network!Devices, NetPanelSound(p)
  PROVE  LET t == IF Network!FindInModelById(p, id) THEN Network!DropRow(p, Network!RowOf(p, id))
         ELSE p IN NetPanelSound(t) /\ t.proxy = p.proxy
<1>1. CASE Network!FindInModelById(p, id)
  <2>1. Network!RowOf(p, id) \in p.rows /\ Network!RowOf(p, id).id = id
    BY <1>1 DEF Network!RowOf, Network!FindInModelById
  <2>2. id # "proxy"
    BY OrderIs
  <2> QED
    BY <1>1, <2>1, <2>2, RowDropped
<1> QED
  BY <1>1

NetworkSound == NetPanelSound(panel) /\ NetWorldSound(world) /\ NetWarns(panel, world)

\* What is asked of the world does not change the proxy.
NetSameProxy(w, v) == NetWorldSound(v) /\ v.mode = w.mode /\ v.url = w.url

\* A panel that is sound and whose proxy page is left alone stays sound.
LEMMA NetStays ==
  ASSUME NetworkSound, NetPanelSound(panel'), panel'.proxy = panel.proxy, NetSameProxy(world, world')
  PROVE  NetworkSound'
BY DEF NetworkSound, NetSameProxy, NetWarns

\* An act of the user leaves the proxy.
LEMMA NetActs ==
  ASSUME NetWorldSound(world), Network!UserActs
  PROVE  NetSameProxy(world, world')
BY DEF NetWorldSound, Network!UserActs, Network!UserMakes, NetSameProxy, NetWorldFields

\* So does what NetworkManager does by itself.
LEMMA NetByItself ==
  ASSUME NEW w, NetSameProxy(world, w), Network!ByItself(w)
  PROVE  NetSameProxy(world, world')
BY DEF NetWorldSound, Network!ByItself, NetSameProxy, NetWorldFields

\* Only some fields of the panel change.
LEMMA NetDialog ==
  ASSUME NetPanelSound(panel), DOMAIN panel' = NetFields, panel'.made = panel.made, panel'.pages = panel.pages,
         panel'.rows = panel.rows,
         panel'.sel = panel.sel, panel'.page = panel.page, panel'.proxy = panel.proxy
  PROVE  NetPanelSound(panel')
<1>1. NetForm(panel')
  BY DEF NetPanelSound, NetForm
<1> QED
  BY <1>1, ElseShows

\* Pages that are drawn again stay the pages.
LEMMA PagesRefreshed ==
  ASSUME NEW p, NEW ids, NEW w, NetPanelSound(p)
  PROVE  LET t == Network!RefreshPages(p, ids, w) IN NetPanelSound(t) /\ t.proxy = p.proxy
<1> DEFINE t == Network!RefreshPages(p, ids, w)
<1>1. DOMAIN p = NetFields
  BY DEF NetPanelSound, NetForm
<1>2. /\ DOMAIN t = NetFields /\ t.made = p.made /\ t.pages = p.pages /\ t.rows = p.rows
      /\ t.sel = p.sel /\ t.page = p.page /\ t.proxy = p.proxy
  BY <1>1 DEF Network!RefreshPages, NetFields
<1> HIDE DEF t
<1>3. NetForm(t)
  BY <1>2 DEF NetPanelSound, NetForm
<1> QED
  BY <1>2, <1>3, ElseShows DEF t

\* What the user does with rows and pages.
LEMMA NetUser ==
  ASSUME NetworkSound, \/ \E o \in panel.rows : Network!SelectRow(o)
                       \/ Network!DeviceOffToggled \/ Network!RemoveConnection \/ Network!AddConnection
                       \/ \E b \in BOOLEAN : Network!MobileConnectionChanged(b)
  PROVE  NetworkSound'
<1>1. NetPanelSound(panel) /\ NetWorldSound(world) /\ DOMAIN panel = NetFields
  BY DEF NetworkSound, NetPanelSound, NetForm
<1>2. ASSUME NEW o \in panel.rows, Network!SelectRow(o) PROVE NetworkSound'
  <2>1. NetPanelSound(panel') /\ panel'.proxy = panel.proxy
    BY <1>1, <1>2, SelectShows DEF Network!SelectRow
  <2> QED
    BY <1>1, <1>2, <2>1, NetActs, NetStays DEF Network!SelectRow
<1>3. CASE Network!DeviceOffToggled
  <2>1. NetSameProxy(world, world')
    BY <1>1, <1>3, NetActs DEF Network!DeviceOffToggled
  <2>2. panel' = [panel EXCEPT !.on[panel.page.n] = ~panel.on[panel.page.n]]
    BY <1>3 DEF Network!DeviceOffToggled
  <2>3. /\ DOMAIN panel' = NetFields /\ panel'.made = panel.made /\ panel'.pages = panel.pages
           /\ panel'.rows = panel.rows
        /\ panel'.sel = panel.sel /\ panel'.page = panel.page /\ panel'.proxy = panel.proxy
    BY <1>1, <2>2 DEF NetFields
  <2> QED
    BY <1>1, <2>1, <2>3, NetDialog, NetStays
<1>4. CASE Network!RemoveConnection
  <2>1. NetSameProxy(world, world') /\ panel' = panel
    BY <1>1, <1>4, NetActs DEF Network!RemoveConnection
  <2> QED
    BY <1>1, <2>1, NetStays
<1>5. CASE Network!AddConnection
  <2>1. NetSameProxy(world, world') /\ panel' = [panel EXCEPT !.dialog = "type"]
    BY <1>1, <1>5, NetActs DEF Network!AddConnection
  <2>2. /\ DOMAIN panel' = NetFields /\ panel'.made = panel.made /\ panel'.pages = panel.pages
           /\ panel'.rows = panel.rows
        /\ panel'.sel = panel.sel /\ panel'.page = panel.page /\ panel'.proxy = panel.proxy
    BY <1>1, <2>1 DEF NetFields
  <2> QED
    BY <1>1, <2>1, <2>2, NetDialog, NetStays
<1>6. ASSUME NEW b \in BOOLEAN, Network!MobileConnectionChanged(b) PROVE NetworkSound'
  <2>1. NetSameProxy(world, world')
    BY <1>1, <1>6, NetActs DEF Network!MobileConnectionChanged
  <2>2. panel' = [panel EXCEPT !.dialog = "wizard", !.about = panel.page.id] \/ panel' = panel
    BY <1>6 DEF Network!MobileConnectionChanged
  <2>3. /\ DOMAIN panel' = NetFields /\ panel'.made = panel.made /\ panel'.pages = panel.pages
           /\ panel'.rows = panel.rows
        /\ panel'.sel = panel.sel /\ panel'.page = panel.page /\ panel'.proxy = panel.proxy
    BY <1>1, <2>2 DEF NetFields
  <2> QED
    BY <1>1, <2>1, <2>3, NetDialog, NetStays
<1> QED
  BY <1>2, <1>3, <1>4, <1>5, <1>6

\* An operation is given on the command line, or by a page.
LEMMA NetArgv ==
  ASSUME NetworkSound, NEW op, NEW d, Network!SetArgv(op, d)
  PROVE  NetworkSound'
<1> DEFINE p == [panel EXCEPT !.arg = [op |-> op, device |-> d]]
<1>1. NetPanelSound(panel) /\ NetWorldSound(world) /\ DOMAIN panel = NetFields
  BY DEF NetworkSound, NetPanelSound, NetForm
<1>2. NetSameProxy(world, world') /\ \E dialog \in {"none", "wireless", "wizard"} : Network!HandleArgv(p, dialog)
  BY <1>1, NetActs DEF Network!SetArgv
<1>3. /\ DOMAIN p = NetFields /\ p.made = panel.made /\ p.pages = panel.pages /\ p.rows = panel.rows
      /\ p.sel = panel.sel /\ p.page = panel.page /\ p.proxy = panel.proxy
  BY <1>1 DEF NetFields
<1> HIDE DEF p
<1>4. NetPanelSound(p)
  BY <1>1, <1>3, ElseShows DEF NetPanelSound, NetForm
<1>5. NetPanelSound(panel') /\ panel'.proxy = p.proxy
  BY <1>2, <1>4, ArgvHandled
<1> QED
  BY <1>2, <1>3, <1>5, NetStays

\* A dialog that is closed leaves the rows.
LEMMA NetClosed ==
  ASSUME NetworkSound, NEW d, NEW cs, Network!Close(d, cs)
  PROVE  NetworkSound'
<1>1. NetPanelSound(panel) /\ NetWorldSound(world) /\ DOMAIN panel = NetFields
  BY DEF NetworkSound, NetPanelSound, NetForm
<1>2. panel' = [panel EXCEPT !.dialog = "none", !.about = "none"] /\ world' = world
  BY DEF Network!Close
<1>3. /\ DOMAIN panel' = NetFields /\ panel'.made = panel.made /\ panel'.pages = panel.pages
         /\ panel'.rows = panel.rows
      /\ panel'.sel = panel.sel /\ panel'.page = panel.page /\ panel'.proxy = panel.proxy
  BY <1>1, <1>2 DEF NetFields
<1>4. NetSameProxy(world, world')
  BY <1>1, <1>2 DEF NetSameProxy
<1> QED
  BY <1>1, <1>3, <1>4, NetDialog, NetStays

\* Each of the dialogs is closed so.
LEMMA NetDialogs ==
  ASSUME NetworkSound, Network!OtherResponse \/ \E b \in BOOLEAN : Network!WirelessDialogResponse(b)
         \/ Network!MobileWizardDone(b)
  PROVE  NetworkSound'
<1>1. CASE Network!OtherResponse
  BY <1>1, NetClosed DEF Network!OtherResponse
<1>2. ASSUME NEW b \in BOOLEAN, Network!WirelessDialogResponse(b) PROVE NetworkSound'
  BY <1>2, NetClosed DEF Network!WirelessDialogResponse
<1>3. ASSUME NEW b \in BOOLEAN, Network!MobileWizardDone(b) PROVE NetworkSound'
  BY <1>3, NetClosed DEF Network!MobileWizardDone
<1> QED
  BY <1>1, <1>2, <1>3

\* The proxy is set by the panel or by others, and the warning follows.
LEMMA NetProxy ==
  ASSUME NetworkSound, \/ \E b \in BOOLEAN : Network!ProxyUrl(b)
                       \/ \E mode \in {"none", "manual", "auto"} : Network!ProxyMode(mode)
                       \/ \E told \in SUBSET Network!Protocols : Network!ApplySystemSettings(told)
  PROVE  NetworkSound'
<1>1. NetPanelSound(panel) /\ NetWorldSound(world) /\ DOMAIN panel = NetFields
      /\ DOMAIN panel.proxy = {"mode", "warned"} /\ DOMAIN world = NetWorldFields
  BY DEF NetworkSound, NetPanelSound, NetForm, NetWorldSound
<1>2. ASSUME NEW b \in BOOLEAN, Network!ProxyUrl(b) PROVE NetworkSound'
  <2>1. /\ world' = [world EXCEPT !.url = b, !.changes = @ + 1]
        /\ panel' = [panel EXCEPT !.proxy.warned = Network!Warned(world.mode, b)]
    BY <1>2 DEF Network!ProxyUrl
  <2>2. DOMAIN world' = NetWorldFields /\ world'.url = b /\ world'.mode = world.mode /\ world'.vpns = world.vpns
    BY <1>1, <2>1 DEF NetWorldFields
  <2>3. /\ DOMAIN panel' = NetFields /\ panel'.made = panel.made /\ panel'.pages = panel.pages
           /\ panel'.rows = panel.rows
        /\ panel'.sel = panel.sel /\ panel'.page = panel.page
        /\ panel'.proxy = [panel.proxy EXCEPT !.warned = Network!Warned(world.mode, b)]
    BY <1>1, <2>1 DEF NetFields
  <2>4. DOMAIN panel'.proxy = {"mode", "warned"} /\ panel'.proxy.warned = Network!Warned(world.mode, b)
    BY <1>1, <2>3
  <2>5. NetPanelSound(panel')
    BY <1>1, <2>3, <2>4, ElseShows DEF NetForm
  <2> QED
    BY <1>1, <2>2, <2>4, <2>5 DEF NetworkSound, NetWorldSound, NetWarns, Network!Warned
<1>3. ASSUME NEW mode \in {"none", "manual", "auto"}, Network!ProxyMode(mode) PROVE NetworkSound'
  <2>1. CASE Network!UserActs /\ panel' = [panel EXCEPT !.misused = TRUE]
    <3>1. NetSameProxy(world, world')
      BY <1>1, <2>1, NetActs
    <3>2. /\ DOMAIN panel' = NetFields /\ panel'.made = panel.made /\ panel'.pages = panel.pages
             /\ panel'.rows = panel.rows
          /\ panel'.sel = panel.sel /\ panel'.page = panel.page /\ panel'.proxy = panel.proxy
      BY <1>1, <2>1 DEF NetFields
    <3> QED
      BY <1>1, <3>1, <3>2, NetDialog, NetStays
  <2>2. CASE Network!UserMakes([world EXCEPT !.mode = mode])
             /\ panel' = [panel EXCEPT !.proxy.mode = mode, !.proxy.warned = Network!Warned(mode, world.url)]
    <3> DEFINE w == [world EXCEPT !.mode = mode]
    <3>1. DOMAIN w = NetWorldFields /\ w.url = world.url /\ w.mode = mode /\ w.vpns = world.vpns
      BY <1>1 DEF NetWorldFields
    <3>2. world' = [w EXCEPT !.actions = @ + 1]
      BY <2>2 DEF Network!UserMakes
    <3> HIDE DEF w
    <3>3. DOMAIN world' = NetWorldFields /\ world'.url = world.url /\ world'.mode = mode /\ world'.vpns = world.vpns
      BY <3>1, <3>2 DEF NetWorldFields
    <3>4. /\ DOMAIN panel' = NetFields /\ panel'.made = panel.made /\ panel'.pages = panel.pages
             /\ panel'.rows = panel.rows
          /\ panel'.sel = panel.sel /\ panel'.page = panel.page
          /\ panel'.proxy = [panel.proxy EXCEPT !.mode = mode, !.warned = Network!Warned(mode, world.url)]
      BY <1>1, <2>2 DEF NetFields
    <3>5. DOMAIN panel'.proxy = {"mode", "warned"} /\ panel'.proxy.warned = Network!Warned(mode, world.url)
      BY <1>1, <3>4
    <3>6. NetPanelSound(panel')
      BY <1>1, <3>4, <3>5, ElseShows DEF NetForm
    <3> QED
      BY <1>1, <3>3, <3>5, <3>6 DEF NetworkSound, NetWorldSound, NetWarns, Network!Warned
  <2> QED
    BY <1>3, <2>1, <2>2 DEF Network!ProxyMode
<1>4. ASSUME NEW told \in SUBSET Network!Protocols, Network!ApplySystemSettings(told) PROVE NetworkSound'
  <2> DEFINE w == [world EXCEPT !.system = [p \in Network!Protocols |-> IF p \in told
             THEN Network!SetProxyForProtocol(world.mode, p) ELSE @[p]]]
  <2>1. Network!UserMakes(w) /\ panel' = panel
    BY <1>4 DEF Network!ApplySystemSettings
  <2>2. DOMAIN w = NetWorldFields /\ w.url = world.url /\ w.mode = world.mode /\ w.vpns = world.vpns
    BY <1>1 DEF NetWorldFields
  <2>3. world' = [w EXCEPT !.actions = @ + 1]
    BY <2>1 DEF Network!UserMakes
  <2> HIDE DEF w
  <2>4. DOMAIN world' = NetWorldFields /\ world'.url = world.url /\ world'.mode = world.mode
        /\ world'.vpns = world.vpns
    BY <2>2, <2>3 DEF NetWorldFields
  <2>5. NetSameProxy(world, world')
    BY <1>1, <2>4 DEF NetSameProxy, NetWorldSound
  <2> QED
    BY <1>1, <2>1, <2>5, NetStays
<1> QED
  BY <1>2, <1>3, <1>4

\* What NetworkManager keeps: some VPNs, and the settings of the proxy are not its.
LEMMA NetAnswers ==
  ASSUME NetworkSound, NEW c \in calls, Network!Activated(c) \/ Network!Deactivated(c) \/ Network!Refused(c)
         \/ Network!VpnDeleted(c)
  PROVE  NetworkSound'
<1>1. NetPanelSound(panel) /\ NetWorldSound(world) /\ DOMAIN world = NetWorldFields
      /\ world.vpns \subseteq Config.network.Vpns
  BY DEF NetworkSound, NetWorldSound
<1>2. CASE Network!Activated(c)
  <2>1. NetSameProxy(world, world')
    BY <1>1, <1>2 DEF Network!Activated, Network!Done, NetSameProxy, NetWorldSound, NetWorldFields
  <2>2. NetPanelSound(panel') /\ panel'.proxy = panel.proxy
    BY <1>1, <1>2, PagesRefreshed DEF Network!Activated, Network!Done
  <2> QED
    BY <2>1, <2>2, NetStays
<1>3. CASE Network!Deactivated(c)
  <2>1. NetSameProxy(world, world')
    BY <1>1, <1>3 DEF Network!Deactivated, Network!Done, NetSameProxy, NetWorldSound, NetWorldFields
  <2>2. NetPanelSound(panel') /\ panel'.proxy = panel.proxy
    BY <1>1, <1>3, PagesRefreshed DEF Network!Deactivated, Network!Done
  <2> QED
    BY <2>1, <2>2, NetStays
<1>4. CASE Network!Refused(c)
  <2>1. NetSameProxy(world, world') /\ panel' = panel
    BY <1>1, <1>4 DEF Network!Refused, Network!Done, NetSameProxy
  <2> QED
    BY <1>1, <2>1, NetStays
<1>5. CASE Network!VpnDeleted(c)
  <2>1. NetSameProxy(world, world')
    BY <1>1, <1>5 DEF Network!VpnDeleted, Network!Done, Network!Forget, NetSameProxy, NetWorldSound, NetWorldFields
  <2>2. NetPanelSound(panel') /\ panel'.proxy = panel.proxy
    BY <1>1, <1>5, VpnGoes DEF Network!VpnDeleted, Network!Done
  <2> QED
    BY <2>1, <2>2, NetStays
<1> QED
  BY <1>2, <1>3, <1>4, <1>5

\* Devices and VPNs come, go and change.
LEMMA NetOthers ==
  ASSUME NetworkSound,
         \/ \E id \in Config.network.Vpns : \/ Network!OtherToolDeletesVpn(id)
                                           \/ Network!NewConnection(id)
         \/ \E id \in Network!Devices : \/ Network!DeviceAdded(id)
                                       \/ Network!DeviceRemoved(id)
                                       \/ Network!StateChanged(id)
         \/ Network!WwanEnabled
  PROVE  NetworkSound'
<1>1. NetPanelSound(panel) /\ NetWorldSound(world) /\ DOMAIN world = NetWorldFields
      /\ world.vpns \subseteq Config.network.Vpns
  BY DEF NetworkSound, NetWorldSound
<1>2. ASSUME NEW id \in Config.network.Vpns, Network!OtherToolDeletesVpn(id) PROVE NetworkSound'
  <2>1. NetSameProxy(world, Network!Forget(world, id))
    BY <1>1 DEF Network!Forget, NetSameProxy, NetWorldSound, NetWorldFields
  <2>2. NetSameProxy(world, world')
    BY <1>2, <2>1, NetByItself DEF Network!OtherToolDeletesVpn
  <2>3. NetPanelSound(panel') /\ panel'.proxy = panel.proxy
    BY <1>1, <1>2, VpnGoes DEF Network!OtherToolDeletesVpn
  <2> QED
    BY <2>2, <2>3, NetStays
<1>3. ASSUME NEW id \in Config.network.Vpns, Network!NewConnection(id) PROVE NetworkSound'
  <2>1. NetSameProxy(world, [world EXCEPT !.vpns = @ \cup {id}])
    BY <1>1 DEF NetSameProxy, NetWorldSound, NetWorldFields
  <2>2. NetSameProxy(world, world')
    BY <1>3, <2>1, NetByItself DEF Network!NewConnection
  <2>3. NetPanelSound(panel') /\ panel'.proxy = panel.proxy
    BY <1>1, <1>3, AddShows DEF Network!NewConnection
  <2> QED
    BY <2>2, <2>3, NetStays
<1>4. ASSUME NEW id \in Network!Devices, Network!DeviceAdded(id) PROVE NetworkSound'
  <2>1. NetSameProxy(world, [world EXCEPT !.devices = @ \cup {id}])
    BY <1>1 DEF NetSameProxy, NetWorldSound, NetWorldFields
  <2>2. NetSameProxy(world, world')
    BY <1>4, <2>1, NetByItself DEF Network!DeviceAdded
  <2>3. NetPanelSound(panel') /\ panel'.proxy = panel.proxy
    BY <1>1, <1>4, AddShows DEF Network!DeviceAdded
  <2> QED
    BY <2>2, <2>3, NetStays
<1>5. ASSUME NEW id \in Network!Devices, Network!DeviceRemoved(id) PROVE NetworkSound'
  <2>1. NetSameProxy(world, [world EXCEPT !.devices = @ \ {id}, !.active = @ \ {id}])
    BY <1>1 DEF NetSameProxy, NetWorldSound, NetWorldFields
  <2>2. NetSameProxy(world, world')
    BY <1>5, <2>1, NetByItself DEF Network!DeviceRemoved
  <2>3. NetPanelSound(panel') /\ panel'.proxy = panel.proxy
    BY <1>1, <1>5, DeviceGoes DEF Network!DeviceRemoved
  <2> QED
    BY <2>2, <2>3, NetStays
<1>6. ASSUME NEW id \in Network!Devices, Network!StateChanged(id) PROVE NetworkSound'
  <2>1. NetSameProxy(world, [world EXCEPT !.active = IF id \in @ THEN @ \ {id} ELSE @ \cup {id}])
    BY <1>1 DEF NetSameProxy, NetWorldSound, NetWorldFields
  <2>2. NetSameProxy(world, world')
    BY <1>6, <2>1, NetByItself DEF Network!StateChanged
  <2>3. NetPanelSound(panel') /\ panel'.proxy = panel.proxy
    BY <1>1, <1>6, PagesRefreshed DEF Network!StateChanged
  <2> QED
    BY <2>2, <2>3, NetStays
<1>7. CASE Network!WwanEnabled
  <2>1. NetSameProxy(world, [world EXCEPT !.wwan = ~@])
    BY <1>1 DEF NetSameProxy, NetWorldSound, NetWorldFields
  <2>2. NetSameProxy(world, world')
    BY <1>7, <2>1, NetByItself DEF Network!WwanEnabled
  <2>3. NetPanelSound(panel') /\ panel'.proxy = panel.proxy
    BY <1>1, <1>7, PagesRefreshed DEF Network!WwanEnabled
  <2> QED
    BY <2>2, <2>3, NetStays
<1> QED
  BY <1>2, <1>3, <1>4, <1>5, <1>6, <1>7

\* NetworkManager ends and starts, and tells of everything again.
LEMMA NetManager ==
  ASSUME NetworkSound, Network!ManagerStops \/ Network!ManagerStarts \/ Network!ConnectionsRead
         \/ Network!OnToplevelMap
  PROVE  NetworkSound'
<1>1. NetPanelSound(panel) /\ NetWorldSound(world) /\ DOMAIN world = NetWorldFields
      /\ world.vpns \subseteq Config.network.Vpns
  BY DEF NetworkSound, NetWorldSound
<1>2. CASE Network!ManagerStops
  <2>1. NetSameProxy(world, [world EXCEPT !.nm = FALSE, !.active = {}])
    BY <1>1 DEF NetSameProxy, NetWorldSound, NetWorldFields
  <2>2. NetSameProxy(world, world')
    BY <1>2, <2>1, NetByItself DEF Network!ManagerStops
  <2>3. NetPanelSound(panel') /\ panel'.proxy = panel.proxy
    BY <1>1, <1>2, ManagerShows DEF Network!ManagerStops
  <2> QED
    BY <2>2, <2>3, NetStays
<1>3. CASE Network!ManagerStarts
  <2>1. NetSameProxy(world, [world EXCEPT !.nm = TRUE])
    BY <1>1 DEF NetSameProxy, NetWorldSound, NetWorldFields
  <2>2. NetSameProxy(world, world')
    BY <1>3, <2>1, NetByItself DEF Network!ManagerStarts
  <2>3. NetPanelSound(panel') /\ panel'.proxy = panel.proxy
    BY <1>1, <1>3, ManagerShows DEF Network!ManagerStarts
  <2> QED
    BY <2>2, <2>3, NetStays
<1>4. CASE Network!ConnectionsRead
  <2>1. NetSameProxy(world, world')
    BY <1>1, <1>4 DEF Network!ConnectionsRead, NetSameProxy
  <2>2. NetPanelSound(panel') /\ panel'.proxy = panel.proxy
    BY <1>1, <1>4, AddShows DEF Network!ConnectionsRead
  <2> QED
    BY <2>1, <2>2, NetStays
<1>5. CASE Network!OnToplevelMap
  <2> DEFINE p == [panel EXCEPT !.mapped = TRUE]
             t == Network!SelectFirstDevice(p)
  <2>1. NetSameProxy(world, world')
    BY <1>1, <1>5 DEF Network!OnToplevelMap, NetSameProxy
  <2>2. \/ \E dialog \in {"none", "wireless", "wizard"} : Network!ManagerRunning(p, world, dialog)
        \/ panel' = [t EXCEPT !.dialog = "warning"]
    BY <1>5 DEF Network!OnToplevelMap
  <2>3. DOMAIN panel = NetFields
    BY <1>1 DEF NetPanelSound, NetForm
  <2>4. /\ DOMAIN p = NetFields /\ p.made = panel.made /\ p.pages = panel.pages /\ p.rows = panel.rows
        /\ p.sel = panel.sel /\ p.page = panel.page /\ p.proxy = panel.proxy
    BY <2>3 DEF NetFields
  <2> HIDE DEF p
  <2>5. NetPanelSound(p)
    BY <1>1, <2>4, ElseShows DEF NetPanelSound, NetForm
  <2>6. NetPanelSound(t) /\ t.proxy = p.proxy
    BY <2>5, FirstShows
  <2> HIDE DEF t
  <2>7. CASE panel' = [t EXCEPT !.dialog = "warning"]
    <3>1. DOMAIN t = NetFields /\ DOMAIN t.proxy = {"mode", "warned"}
      BY <2>6 DEF NetPanelSound, NetForm
    <3>2. /\ DOMAIN panel' = NetFields /\ panel'.made = t.made /\ panel'.pages = t.pages /\ panel'.rows = t.rows
          /\ panel'.sel = t.sel /\ panel'.page = t.page /\ panel'.proxy = t.proxy
      BY <2>7, <3>1 DEF NetFields
    <3>3. NetPanelSound(panel')
      BY <2>6, <3>1, <3>2, ElseShows DEF NetForm
    <3> QED
      BY <2>1, <2>4, <2>6, <3>2, <3>3, NetStays
  <2>8. ASSUME NEW dialog \in {"none", "wireless", "wizard"}, Network!ManagerRunning(p, world, dialog)
        PROVE NetworkSound'
    <3>1. NetPanelSound(panel') /\ panel'.proxy = p.proxy
      BY <2>5, <2>8, ManagerShows
    <3> QED
      BY <2>1, <2>4, <3>1, NetStays
  <2> QED
    BY <2>2, <2>7, <2>8
<1> QED
  BY <1>2, <1>3, <1>4, <1>5

\* The panel at first.
LEMMA NetInit == ASSUME Network!Init PROVE NetworkSound
<1> DEFINE w == world
           p == [rows |-> {}, pages |-> <<>>, on |-> <<>>, made |-> 0, sel |-> Network!NoObject,
           page |-> Network!NoObject,
                 remove |-> FALSE, arg |-> Network!NoArg, dialog |-> "none", about |-> "none", mapped |-> FALSE,
                 freed |-> {}, misused |-> FALSE, proxy |-> [mode |-> "none", warned |-> FALSE]]
<1>1. panel = Network!AddObjects(p, {"proxy"}, world)
  BY DEF Network!Init
<1>2. NetWorldSound(world) /\ world.mode = "none"
  BY DEF Network!Init, NetWorldSound, NetWorldFields
<1>3. NetForm(p) /\ NetPages(p) /\ NetRows(p) /\ p.sel = Network!NoObject /\ p.proxy.warned = FALSE
  BY DEF NetForm, NetFields, NetPages, NetRows, NetObjects
<1> HIDE DEF p
<1>4. "proxy" \in {"proxy"} \cap NetIds
  BY DEF NetIds
<1>5. NetForm(panel) /\ NetPages(panel) /\ NetRows(panel) /\ NetSamePages(p, panel)
      /\ \E o \in panel.rows : o.id = "proxy"
  BY <1>1, <1>3, <1>4, ObjectsAdded
<1>6. panel.sel = Network!NoObject /\ panel.proxy.warned = FALSE
  BY <1>3, <1>5 DEF NetSamePages
<1> QED
  BY <1>2, <1>5, <1>6 DEF NetworkSound, NetPanelSound, NetHasProxy, NetShows, NetWarns

\* Each step keeps all that.
LEMMA NetNext == ASSUME NetworkSound, Network!Next \/ UNCHANGED <<panel, calls, world>> PROVE NetworkSound'
<1>1. CASE UNCHANGED <<panel, calls, world>>
  BY <1>1 DEF NetworkSound
<1>2. CASE Network!Next
  <2>1. CASE (\E o \in panel.rows : Network!SelectRow(o)) \/ Network!DeviceOffToggled
             \/ Network!RemoveConnection \/ Network!AddConnection \/ Network!OtherResponse
    BY <2>1, NetUser, NetDialogs
  <2>2. ASSUME NEW b \in BOOLEAN, Network!MobileConnectionChanged(b) \/ Network!WirelessDialogResponse(b)
               \/ Network!MobileWizardDone(b) \/ Network!ProxyUrl(b)
        PROVE  NetworkSound'
    BY <2>2, NetUser, NetDialogs, NetProxy
  <2>3. ASSUME NEW op, NEW d, Network!SetArgv(op, d) PROVE NetworkSound'
    BY <2>3, NetArgv
  <2>4. CASE (\E mode \in {"none", "manual", "auto"} : Network!ProxyMode(mode))
             \/ \E told \in SUBSET Network!Protocols : Network!ApplySystemSettings(told)
    BY <2>4, NetProxy
  <2>5. ASSUME NEW c \in calls, Network!Activated(c) \/ Network!Deactivated(c) \/ Network!Refused(c)
               \/ Network!VpnDeleted(c) PROVE NetworkSound'
    BY <2>5, NetAnswers
  <2>6. ASSUME NEW id \in Config.network.Vpns, Network!OtherToolDeletesVpn(id) \/ Network!NewConnection(id)
        PROVE NetworkSound'
    BY <2>6, NetOthers
  <2>7. ASSUME NEW id \in Network!Devices, Network!DeviceAdded(id) \/ Network!DeviceRemoved(id)
               \/ Network!StateChanged(id) PROVE NetworkSound'
    BY <2>7, NetOthers
  <2>8. CASE Network!WwanEnabled \/ Network!ManagerStops \/ Network!ManagerStarts \/ Network!ConnectionsRead
             \/ Network!OnToplevelMap
    BY <2>8, NetOthers, NetManager
  <2> QED
    BY <1>2, <2>1, <2>2, <2>3, <2>4, <2>5, <2>6, <2>7, <2>8 DEF Network!Next
<1> QED
  BY <1>1, <1>2

\* It shows the page of the selected row, and each object once.
LEMMA NetTells == ASSUME NetworkSound
PROVE Network!PageOfTheSelected /\ Network!ListedOnce /\ Network!WarnsOfDiscovery
<1>1. Network!PageOfTheSelected
  <2> SUFFICES ASSUME panel.sel # Network!NoObject, \A i,
                      j \in DOMAIN panel.pages : panel.pages[i].id = panel.pages[j].id => i = j
               PROVE  panel.page = panel.sel
    BY DEF Network!PageOfTheSelected
  <2>1. PICK i \in 1..panel.made : panel.sel = panel.pages[i]
    BY DEF NetworkSound, NetPanelSound, NetShows
  <2>2. PICK j \in 1..panel.made : panel.page = panel.pages[j] /\ panel.page.id = panel.sel.id
    BY DEF NetworkSound, NetPanelSound, NetShows
  <2>3. DOMAIN panel.pages = 1..panel.made
    BY DEF NetworkSound, NetPanelSound, NetPages
  <2> QED
    BY <2>1, <2>2, <2>3
<1>2. Network!ListedOnce
  BY DEF NetworkSound, NetPanelSound, NetRows, Network!ListedOnce
<1>3. Network!WarnsOfDiscovery
  BY DEF NetworkSound, NetWarns, Network!WarnsOfDiscovery
<1> QED
  BY <1>1, <1>2, <1>3


-----------------------------------------------------------------------------
(***************************************************************************)
(* The color panel: the device in use is the selected one, whatever colord *)
(* has told and has not told yet.                                          *)
(***************************************************************************)

ColorFields == {"rows", "sel", "current", "sensor", "known", "tool", "assign", "chooser", "virtual", "phase",
"closed", "broken"}
ColorWorldFields == {"dev", "sensors", "wide", "said", "early", "lost", "plugged", "deleted", "ran", "acts", "changes"}
ColorToolFields == {"bar", "default", "defaultSens", "remove", "cal", "calSens", "add", "view", "undo", "undoSens"}

\* A list of whatever.
ColorIsList(list) == \E T : list \in Seq(T)
\* Rows are of devices, and of each device one.
ColorOfDevices(rows) ==
  ColorIsList(rows) /\ \A i \in DOMAIN rows : "dev" \in DOMAIN rows[i]
  /\ rows[i].dev \in DOMAIN Config.color.Devices \cup {Color!None}
ColorOneEach(rows) == \A i, j \in DOMAIN rows : rows[i].dev = rows[j].dev => i = j
ColorShown(rows, d) == \E i \in DOMAIN rows : rows[i].dev = d

\* What colord says.
ColorSignals == [kind : {"list", "sensor"}, dev : {Color!None}, devs : SUBSET DOMAIN Config.color.Devices]
                \cup [kind : {"added", "removed", "changed"}, dev : DOMAIN Config.color.Devices, devs : {{}}]
ColorSays(said, i, kind, d) == said[i].kind = kind /\ said[i].dev = d
ColorListed(said) == \E i \in DOMAIN said : said[i].kind = "list"
ColorAsked(c, kind) == \E i \in DOMAIN c : c[i].kind = kind

\* The fields.
ColorForm(s) ==
  /\ DOMAIN s = {"p", "c", "w"} /\ DOMAIN s.p = ColorFields /\ DOMAIN s.w = ColorWorldFields
  /\ DOMAIN s.p.tool = ColorToolFields
\* Nothing is selected before the client is connected.
ColorTyped(s) ==
  /\ DOMAIN s.w.dev \subseteq DOMAIN Config.color.Devices
  /\ s.w.said \in Seq(ColorSignals)
  /\ s.p.phase = "connecting" =>
       s.w.said = <<>> /\ s.p.rows = <<>> /\ s.p.sel = Color!NoRow /\ s.p.current = Color!None
ColorRowsOK(s) == ColorOfDevices(s.p.rows) /\ (~s.w.early => ColorOneEach(s.p.rows))
\* The toolbar is for the selected row.
ColorSelects(s) ==
  s.p.sel.row =>
    /\ s.p.tool.bar <=> s.p.sel.dev # Color!None
    /\ s.p.sel.dev # Color!None =>
         /\ s.p.current = s.p.sel.dev
         /\ s.p.sel.prof = Color!None => (s.p.tool.remove <=> Config.color.Devices[s.p.sel.dev].virtual)
         /\ s.p.sel.prof # Color!None => ~s.p.tool.remove
\* The sensor is the first one, unless colord would not give it or there is a change to be told.
ColorFirstSensor(w) == IF w.sensors = <<>> THEN Color!None ELSE w.sensors[1]
ColorSenses(s) ==
  /\ s.p.tool.calSens = Color!CanCalibrate(s.p.current, s.p.sensor)
  /\ (s.w.plugged /\ s.p.phase \in {"connected", "listed"} /\ \A i \in DOMAIN s.w.said : s.w.said[i].kind # "sensor")
       => s.p.sensor = ColorFirstSensor(s.w)
\* The client is asked for once, and so is the list, which comes when the client is connected.
ColorAsks(s) ==
  /\ ColorIsList(s.c)
  /\ \A i, j \in DOMAIN s.c : s.c[i].kind \in {"connect", "list"} /\ s.c[j].kind \in {"connect", "list"} => i = j
  /\ \A i, j \in DOMAIN s.w.said : s.w.said[i].kind = "list" /\ s.w.said[j].kind = "list" => i = j
  /\ ColorAsked(s.c, "connect") => s.p.phase = "connecting"
  /\ ColorAsked(s.c, "list") => s.p.phase = "connected" /\ ~ColorListed(s.w.said)
  /\ ColorListed(s.w.said) => s.p.phase = "connected"
\* A device is said to come when it was not there, and to go when it was; what is said last is so.
ColorTold(w) ==
  /\ \A i, j \in DOMAIN w.said, d \in DOMAIN Config.color.Devices :
       i < j /\ ColorSays(w.said, i, "added", d) /\ ColorSays(w.said, j, "added", d) =>
         \E k \in DOMAIN w.said : i < k /\ k < j /\ ColorSays(w.said, k, "removed", d)
  /\ \A i, j \in DOMAIN w.said, d \in DOMAIN Config.color.Devices :
       i < j /\ ColorSays(w.said, i, "removed", d) /\ ColorSays(w.said, j, "removed", d) =>
         \E k \in DOMAIN w.said : i < k /\ k < j /\ ColorSays(w.said, k, "added", d)
  /\ \A i \in DOMAIN w.said, d \in DOMAIN Config.color.Devices :
       ColorSays(w.said, i, "added", d) /\ d \notin DOMAIN w.dev =>
         \E k \in DOMAIN w.said : i < k /\ ColorSays(w.said, k, "removed", d)
  /\ \A i \in DOMAIN w.said, d \in DOMAIN Config.color.Devices :
       ColorSays(w.said, i, "removed", d) /\ d \in DOMAIN w.dev =>
         \E k \in DOMAIN w.said : i < k /\ ColorSays(w.said, k, "added", d)
\* What colord had at some time, and what it said after a place, is what it has.
ColorAccounts(w, has, from) ==
  \A d \in DOMAIN Config.color.Devices :
    /\ (\A i \in DOMAIN w.said : i > from => ~ColorSays(w.said, i, "added", d)
       /\ ~ColorSays(w.said, i, "removed", d))
         => (d \in has <=> d \in DOMAIN w.dev)
    /\ \A i \in DOMAIN w.said :
         (i > from /\ ColorSays(w.said, i, "added", d) /\ \A k \in DOMAIN w.said : from < k /\ k < i =>
         ~ColorSays(w.said, k, "removed", d))
           => d \notin has
\* The list that is on the way is what colord had, and there is no row before it, unless one came early.
ColorListing(s) ==
  /\ \A l \in DOMAIN s.w.said : s.w.said[l].kind = "list" => ColorAccounts(s.w, s.w.said[l].devs, l)
  /\ (ColorAsked(s.c, "list") \/ ColorListed(s.w.said)) /\ ~s.w.early =>
     \A i \in DOMAIN s.p.rows : s.p.rows[i].dev = Color!None
\* No row is of a device that is not there but for what is said of it, and in the end those that are there
\* have rows, but for those that could not be read.
ColorHolds(s, has) ==
  /\ \A d \in DOMAIN Config.color.Devices : ColorShown(s.p.rows, d) => d \in has /\ d \notin s.w.lost
  /\ s.p.phase = "listed" => \A d \in has : ColorShown(s.p.rows, d) \/ d \in s.w.lost
  /\ ColorAccounts(s.w, has, 0)
ColorMirrors(s) == ~s.w.early => \E has \in SUBSET DOMAIN Config.color.Devices : ColorHolds(s, has)

ColorOpen(s) == ColorTyped(s) /\ ColorRowsOK(s) /\ ColorSelects(s) /\ ColorSenses(s) /\ ColorAsks(s)
/\ ColorTold(s.w) /\ ColorListing(s) /\ ColorMirrors(s)
ColorSound(s) == ColorForm(s) /\ (~s.p.closed => ColorOpen(s))

\* The operators of the module are those of Lists, and of the modules it extends.
LEMMA ColorBridge ==
  /\ \A list, places : Color!Kept(list, places) = Kept(list, places)
  /\ \A places : Color!Least(places) = Least(places)
  /\ \A S : Color!Cardinality(S) = Cardinality(S)
  /\ \A f : Color!IsInjective(f) <=> IsInjective(f)
<1>1. \A list, places : Color!Kept(list, places) = Kept(list, places)
  BY DEF Color!Kept, Kept
<1>2. \A places : Color!Least(places) = Least(places)
  BY DEF Color!Least, Least
<1>3. \A S : Color!Cardinality(S) = Cardinality(S)
  BY DEF Color!Cardinality, Cardinality
<1>4. \A f : Color!IsInjective(f) <=> IsInjective(f)
  BY DEF Color!IsInjective, IsInjective
<1> QED
  BY <1>1, <1>2, <1>3, <1>4

\* A sequence is a list, whatever it is of.
LEMMA ColorListIs ==
  ASSUME NEW T, NEW list \in Seq(T)
  PROVE  ColorIsList(list)
BY DEF ColorIsList

\* So it is when the panel is made.
LEMMA ColorInit == Color!Init => ColorSound(Color!State)
<1> SUFFICES ASSUME Color!Init PROVE ColorSound(Color!State)
  OBVIOUS
<1>1. /\ panel.rows = <<>> /\ panel.sel = Color!NoRow /\ panel.current = Color!None
         /\ panel.sensor = Color!None /\ panel.phase = "connecting"
      /\ panel.tool.calSens = FALSE /\ DOMAIN panel = ColorFields /\ DOMAIN panel.tool = ColorToolFields
  BY DEF Color!Init, ColorFields, ColorToolFields
<1>2. world.said = <<>> /\ DOMAIN world = ColorWorldFields
  BY DEF Color!Init, ColorWorldFields
<1>3. DOMAIN world.dev \subseteq DOMAIN Config.color.Devices
  <2>1. PICK there \in SUBSET {d \in DOMAIN Config.color.Devices : ~Config.color.Devices[d].virtual} :
          world.dev = [d \in there |-> [profs |-> <<Config.color.Devices[d].first>>, hard |-> {}]]
    BY DEF Color!Init
  <2> QED
    BY <2>1
<1>4. calls = <<[kind |-> "connect", dev |-> Color!None, what |-> Color!None]>>
  BY DEF Color!Init
<1>5. Color!State.p = panel /\ Color!State.c = calls /\ Color!State.w = world
      /\ DOMAIN Color!State = {"p", "c", "w"}
  BY DEF Color!State
<1> DEFINE s == Color!State
<1>6. ColorForm(s)
  BY <1>1, <1>2, <1>5 DEF ColorForm
<1> HIDE DEF s
<1>7. ColorTyped(s)
  <2>1. <<>> \in Seq(ColorSignals)
    OBVIOUS
  <2> QED
    BY <1>1, <1>2, <1>3, <1>5, <2>1 DEF ColorTyped, s
<1>8. ColorRowsOK(s)
  <2>1. ColorIsList(<<>>)
    <3>1. <<>> \in Seq({})
      OBVIOUS
    <3> QED
      BY <3>1, ColorListIs
  <2>2. s.p.rows = <<>> /\ DOMAIN s.p.rows = {}
    BY <1>1, <1>5 DEF s
  <2> QED
    BY <2>1, <2>2 DEF ColorRowsOK, ColorOfDevices, ColorOneEach
<1>9. ColorSelects(s)
  BY <1>1, <1>5 DEF ColorSelects, Color!NoRow, s
<1>10. ColorSenses(s)
  BY <1>1, <1>5 DEF ColorSenses, Color!CanCalibrate, s
<1>11. ColorAsks(s)
  <2> DEFINE call == [kind |-> "connect", dev |-> Color!None, what |-> Color!None]
  <2>1. calls \in Seq({call})
    BY <1>4
  <2>2. ColorIsList(calls)
    BY <2>1, ColorListIs
  <2>3. DOMAIN calls = {1} /\ calls[1].kind = "connect"
    BY <1>4
  <2> QED
    BY <1>1, <1>2, <1>5, <2>2, <2>3 DEF ColorAsks, ColorAsked, ColorListed, s
<1>12. ColorTold(s.w)
  BY <1>2, <1>5 DEF ColorTold, s
<1>13. ColorListing(s)
  BY <1>1, <1>2, <1>4, <1>5 DEF ColorListing, ColorListed, ColorAsked, s
<1>14. ColorMirrors(s)
  <2>1. ColorAccounts(world, DOMAIN world.dev, 0)
    BY <1>2 DEF ColorAccounts
  <2>2. ColorHolds(s, DOMAIN world.dev)
    BY <1>1, <1>5, <2>1 DEF ColorHolds, ColorShown, s
  <2> QED
    BY <1>3, <2>2 DEF ColorMirrors
<1> QED
  BY <1>6, <1>7, <1>8, <1>9, <1>10, <1>11, <1>12, <1>13, <1>14 DEF ColorSound, ColorOpen, s

\* The sound panel acts on the device selected.
LEMMA ColorTells ==
  ASSUME ColorSound(Color!State)
  PROVE  Color!OneRowPerDevice /\ Color!ActsOnTheSelected /\ Color!RemovesVirtualOnly
         /\ Color!CalibratesWithSensor /\ Color!NothingToDo
<1> DEFINE s == Color!State
<1>1. s.p = panel /\ s.c = calls /\ s.w = world
  BY DEF Color!State
<1>2. ~panel.closed => ColorOpen(s)
  BY <1>1 DEF ColorSound
<1> HIDE DEF s
<1>3. Color!ActsOnTheSelected /\ Color!NothingToDo
  BY <1>1, <1>2 DEF Color!ActsOnTheSelected, Color!NothingToDo, Color!Rest, ColorOpen, ColorSelects
<1>4. Color!RemovesVirtualOnly
  BY <1>1, <1>2 DEF Color!RemovesVirtualOnly, ColorOpen, ColorSelects
<1>5. Color!CalibratesWithSensor
  BY <1>1, <1>2 DEF Color!CalibratesWithSensor, Color!Rest, ColorOpen, ColorSenses, ColorFirstSensor
<1>6. Color!OneRowPerDevice
  <2> DEFINE shown == {panel.rows[i].dev : i \in DOMAIN panel.rows}
  <2> SUFFICES ASSUME Color!Rest, ~world.early
               PROVE shown \ {Color!None} = DOMAIN world.dev \ world.lost
                        /\ Color!Cardinality(shown) = Len(panel.rows)
    BY DEF Color!OneRowPerDevice
  <2>1. PICK has \in SUBSET DOMAIN Config.color.Devices : ColorHolds(s, has)
    BY <1>1, <1>2 DEF Color!Rest, ColorOpen, ColorMirrors
  <2>2. /\ world.said = <<>> /\ panel.phase = "listed" /\ ColorTyped(s) /\ ColorOfDevices(panel.rows)
           /\ ColorOneEach(panel.rows)
        /\ ColorAccounts(world, has, 0) /\ \A d \in DOMAIN Config.color.Devices : ColorShown(panel.rows,
           d) <=> d \in has /\ d \notin world.lost
    BY <1>1, <1>2, <2>1 DEF Color!Rest, ColorOpen, ColorRowsOK, ColorHolds
  <2>3. \A d \in DOMAIN Config.color.Devices : ColorShown(panel.rows, d) <=> d \in DOMAIN world.dev
        /\ d \notin world.lost
    BY <2>2 DEF ColorAccounts
  <2>4. shown \ {Color!None} = DOMAIN world.dev \ world.lost
    <3>1. DOMAIN world.dev \subseteq DOMAIN Config.color.Devices /\ Color!None \notin DOMAIN Config.color.Devices
      BY <1>1, <2>2, ColorAssumption DEF ColorTyped
    <3>2. \A i \in DOMAIN panel.rows : panel.rows[i].dev \in DOMAIN Config.color.Devices \cup {Color!None}
      BY <2>2 DEF ColorOfDevices
    <3> QED
      BY <2>3, <3>1, <3>2 DEF ColorShown
  <2>5. Color!Cardinality(shown) = Len(panel.rows)
    <3>1. Len(panel.rows) \in Nat /\ DOMAIN panel.rows = 1..Len(panel.rows)
      BY <2>2 DEF ColorOfDevices, ColorIsList
    <3> DEFINE n == Len(panel.rows)
               f == [i \in 1..n |-> panel.rows[i].dev]
    <3>2. f \in Bijection(1..n, shown)
      <4>1. \A i, j \in 1..n : f[i] = f[j] => i = j
        BY <2>2, <3>1 DEF ColorOneEach
      <4>2. f \in [1..n -> shown] /\ \A x \in shown : \E i \in 1..n : f[i] = x
        BY <3>1
      <4> QED
        BY <4>1, <4>2 DEF Bijection, Injection, Surjection, IsInjective, Color!IsInjective
    <3>3. ExistsBijection(1..n, shown)
      BY <3>2 DEF ExistsBijection
    <3> HIDE DEF shown
    <3>4. Cardinality(shown) = n
      BY <3>1, <3>3, FS_CountingElements
    <3> QED
      BY <3>4, ColorBridge
  <2> QED
    BY <2>4, <2>5
<1> QED
  BY <1>3, <1>4, <1>5, <1>6
\* An element appended to a list.
LEMMA ColorListGrows ==
  ASSUME NEW list, ColorIsList(list), NEW x
  PROVE  /\ ColorIsList(Append(list, x)) /\ Len(list) \in Nat /\ DOMAIN list = 1..Len(list)
         /\ DOMAIN Append(list, x) = 1..Len(list) + 1
         /\ \A i \in DOMAIN list : Append(list, x)[i] = list[i]
         /\ Append(list, x)[Len(list) + 1] = x
<1>1. PICK T : list \in Seq(T)
  BY DEF ColorIsList
<1>2. Append(list, x) \in Seq(T \cup {x})
  <2>1. list \in Seq(T \cup {x})
    BY <1>1
  <2> QED
    BY <2>1
<1>3. ColorIsList(Append(list, x))
  BY <1>2, ColorListIs
<1> QED
  BY <1>1, <1>3

\* An element taken out of a list.
LEMMA ColorListShrinks ==
  ASSUME NEW list, ColorIsList(list), NEW i \in DOMAIN list
  PROVE  ColorIsList(Color!RemoveAt(list, i)) /\ OneLess(list, i, Color!RemoveAt(list, i))
<1>1. PICK T : list \in Seq(T)
  BY DEF ColorIsList
<1>2. Color!RemoveAt(list, i) = SubSeq(list, 1, i - 1) \o SubSeq(list, i + 1, Len(list))
  BY DEF Color!RemoveAt
<1>3. Color!RemoveAt(list, i) \in Seq(T) /\ OneLess(list, i, Color!RemoveAt(list, i))
  BY <1>1, <1>2, WithoutOne, Zenon
<1> QED
  BY <1>3, ColorListIs

\* Calls that are asked no more than before.
ColorCallsFine(c, d) ==
  /\ ColorIsList(d)
  /\ \A i, j \in DOMAIN d : d[i].kind \in {"connect", "list"} /\ d[j].kind \in {"connect", "list"} => i = j
  /\ \A i \in DOMAIN d : d[i].kind \in {"connect", "list"} => \E j \in DOMAIN c : c[j].kind = d[i].kind

\* A call that asks for neither the client nor the list.
LEMMA ColorCallFine ==
  ASSUME NEW s, ColorAsks(s), NEW x, x.kind \notin {"connect", "list"}
  PROVE  ColorCallsFine(s.c, Append(s.c, x))
<1>1. /\ ColorIsList(Append(s.c, x)) /\ Len(s.c) \in Nat /\ DOMAIN s.c = 1..Len(s.c)
      /\ DOMAIN Append(s.c, x) = 1..Len(s.c) + 1
      /\ \A i \in DOMAIN s.c : Append(s.c, x)[i] = s.c[i]
      /\ Append(s.c, x)[Len(s.c) + 1] = x
  BY ColorListGrows DEF ColorAsks
<1>2. \A i \in DOMAIN Append(s.c, x) : Append(s.c, x)[i].kind \in {"connect", "list"} => i \in DOMAIN s.c
      /\ Append(s.c, x)[i] = s.c[i]
  BY <1>1
<1>3. \A i, j \in DOMAIN s.c : s.c[i].kind \in {"connect", "list"} /\ s.c[j].kind \in {"connect", "list"} => i = j
  BY DEF ColorAsks
<1> HIDE DEF ColorCallsFine
<1> QED
  BY <1>1, <1>2, <1>3 DEF ColorCallsFine

\* The calls without one; none asks if that one did.
LEMMA ColorAnswerFine ==
  ASSUME NEW s, ColorAsks(s), NEW i \in DOMAIN s.c
  PROVE  /\ ColorCallsFine(s.c, Color!RemoveAt(s.c, i))
         /\ s.c[i].kind \in {"connect", "list"} =>
              \A j \in DOMAIN Color!RemoveAt(s.c, i) : Color!RemoveAt(s.c, i)[j].kind \notin {"connect", "list"}
<1> DEFINE c == s.c
           d == Color!RemoveAt(c, i)
<1>1. ColorIsList(d) /\ OneLess(c, i, d)
  BY ColorListShrinks DEF ColorAsks
<1>2. Len(c) \in Nat /\ DOMAIN c = 1..Len(c)
  BY DEF ColorAsks, ColorIsList
<1>3. \A j, k \in DOMAIN c : c[j].kind \in {"connect", "list"} /\ c[k].kind \in {"connect", "list"} => j = k
  BY DEF ColorAsks
<1> HIDE DEF c, d
<1>4. ASSUME NEW j \in DOMAIN d
      PROVE  \/ j < i /\ j \in DOMAIN c /\ d[j] = c[j]
             \/ j >= i /\ j + 1 \in DOMAIN c /\ d[j] = c[j + 1]
  BY <1>1, <1>2 DEF OneLess, c
<1>5. \A j, k \in DOMAIN d : d[j].kind \in {"connect", "list"} /\ d[k].kind \in {"connect", "list"} => j = k
  <2> SUFFICES ASSUME NEW j \in DOMAIN d, NEW k \in DOMAIN d, d[j].kind \in {"connect", "list"},
                      d[k].kind \in {"connect", "list"}
               PROVE  j = k
    OBVIOUS
  <2>1. j \in Nat /\ k \in Nat /\ i \in Nat
    BY <1>1, <1>2 DEF OneLess, c
  <2> QED
    BY <1>3, <1>4, <2>1
<1>6. \A j \in DOMAIN d : \E k \in DOMAIN c : c[k].kind = d[j].kind
  BY <1>4
<1>7. ASSUME c[i].kind \in {"connect", "list"}, NEW j \in DOMAIN d PROVE d[j].kind \notin {"connect", "list"}
  <2>1. j \in Nat /\ i \in Nat
    BY <1>1, <1>2 DEF OneLess, c
  <2> QED
    BY <1>3, <1>4, <1>7, <2>1 DEF c
<1> QED
  BY <1>1, <1>5, <1>6, <1>7 DEF ColorCallsFine, c, d

\* What nothing here is about does not matter.
ColorSame(s, t) ==
  /\ ColorForm(t) /\ t.p.closed = s.p.closed /\ t.p.rows = s.p.rows /\ t.p.sel = s.p.sel
     /\ t.p.current = s.p.current
  /\ t.p.sensor = s.p.sensor /\ t.p.tool = s.p.tool /\ t.p.phase = s.p.phase
  /\ DOMAIN t.w.dev = DOMAIN s.w.dev /\ t.w.said = s.w.said /\ t.w.early = s.w.early /\ t.w.lost = s.w.lost
     /\ t.w.plugged = s.w.plugged /\ t.w.sensors = s.w.sensors
  /\ ~s.p.closed => ColorCallsFine(s.c, t.c)

\* Nothing that matters to the invariant has changed.
LEMMA ColorSameSound ==
  ASSUME NEW s, ColorSound(s), NEW t, ColorSame(s, t)
  PROVE  ColorSound(t)
<1> SUFFICES ASSUME ~s.p.closed PROVE ColorOpen(t)
  BY DEF ColorSound, ColorSame
<1>1. ColorOpen(s)
  BY DEF ColorSound
<1>2. ColorTyped(t) /\ ColorRowsOK(t)
  BY <1>1 DEF ColorOpen, ColorSame, ColorTyped, ColorRowsOK
<1>3. ColorSelects(t) /\ ColorSenses(t)
  BY <1>1 DEF ColorOpen, ColorSame, ColorSelects, ColorSenses, ColorFirstSensor
<1>4. ColorAsks(t)
  BY <1>1 DEF ColorOpen, ColorSame, ColorAsks, ColorCallsFine, ColorAsked
<1>5. ColorTold(t.w)
  BY <1>1 DEF ColorOpen, ColorSame, ColorTold
<1>6. \A has, from : ColorAccounts(s.w, has, from) => ColorAccounts(t.w, has, from)
  BY DEF ColorSame, ColorAccounts
<1>7. ColorAsked(t.c, "list") => ColorAsked(s.c, "list")
  BY DEF ColorSame, ColorCallsFine, ColorAsked
<1>8. ColorListing(t)
  BY <1>1, <1>6, <1>7 DEF ColorOpen, ColorSame, ColorListing
<1>9. ColorMirrors(t)
  <2>1. \A has : ColorHolds(s, has) => ColorHolds(t, has)
    BY <1>6 DEF ColorSame, ColorHolds
  <2> QED
    BY <1>1, <2>1 DEF ColorOpen, ColorSame, ColorMirrors
<1> QED
  BY <1>2, <1>3, <1>4, <1>5, <1>8, <1>9 DEF ColorOpen
\* Signals about other things than which devices there are.
LEMMA ColorToldOther ==
  ASSUME NEW w, NEW v, Len(w.said) \in Nat, DOMAIN w.said = 1..Len(w.said), DOMAIN v.said = 1..Len(w.said) + 1,
         \A i \in DOMAIN w.said : i \in DOMAIN v.said /\ v.said[i] = w.said[i],
         v.said[Len(w.said) + 1].kind \in {"changed", "sensor", "list"}, DOMAIN v.dev = DOMAIN w.dev
  PROVE  /\ ColorTold(w) => ColorTold(v)
         /\ \A has, from : ColorAccounts(w, has, from) => ColorAccounts(v, has, from)
<1> DEFINE q == w.said
           r == v.said
<1>1. /\ Len(q) \in Nat /\ DOMAIN q = 1..Len(q) /\ DOMAIN r = 1..Len(q) + 1
         /\ \A i \in DOMAIN q : i \in DOMAIN r /\ r[i] = q[i]
      /\ r[Len(q) + 1].kind \in {"changed", "sensor", "list"}
  OBVIOUS
<1>2. ASSUME NEW i \in DOMAIN r, NEW d, NEW kind \in {"added", "removed"}
      PROVE  ColorSays(r, i, kind, d) => i \in DOMAIN q /\ ColorSays(q, i, kind, d)
  BY <1>1 DEF ColorSays
<1>3. ASSUME NEW i \in DOMAIN q, NEW d, NEW kind
      PROVE  ColorSays(r, i, kind, d) <=> ColorSays(q, i, kind, d)
  BY <1>1 DEF ColorSays
<1> HIDE DEF q, r
<1>4. ASSUME ColorTold(w) PROVE ColorTold(v)
  <2>1. /\ \A i, j \in DOMAIN q, d \in DOMAIN Config.color.Devices :
             i < j /\ ColorSays(q, i, "added", d) /\ ColorSays(q, j, "added", d) =>
               \E k \in DOMAIN q : i < k /\ k < j /\ ColorSays(q, k, "removed", d)
        /\ \A i, j \in DOMAIN q, d \in DOMAIN Config.color.Devices :
             i < j /\ ColorSays(q, i, "removed", d) /\ ColorSays(q, j, "removed", d) =>
               \E k \in DOMAIN q : i < k /\ k < j /\ ColorSays(q, k, "added", d)
        /\ \A i \in DOMAIN q, d \in DOMAIN Config.color.Devices :
             ColorSays(q, i, "added", d) /\ d \notin DOMAIN w.dev => \E k \in DOMAIN q : i < k
             /\ ColorSays(q, k, "removed", d)
        /\ \A i \in DOMAIN q, d \in DOMAIN Config.color.Devices :
             ColorSays(q, i, "removed", d) /\ d \in DOMAIN w.dev => \E k \in DOMAIN q : i < k
             /\ ColorSays(q, k, "added", d)
    BY <1>4 DEF ColorTold, q
  <2>2. \A k \in DOMAIN q : k \in DOMAIN r
    BY <1>1
  <2>3. \A i, j \in DOMAIN r, d \in DOMAIN Config.color.Devices :
          i < j /\ ColorSays(r, i, "added", d) /\ ColorSays(r, j, "added", d) =>
            \E k \in DOMAIN r : i < k /\ k < j /\ ColorSays(r, k, "removed", d)
    BY <1>2, <1>3, <2>1, <2>2
  <2>4. \A i, j \in DOMAIN r, d \in DOMAIN Config.color.Devices :
          i < j /\ ColorSays(r, i, "removed", d) /\ ColorSays(r, j, "removed", d) =>
            \E k \in DOMAIN r : i < k /\ k < j /\ ColorSays(r, k, "added", d)
    BY <1>2, <1>3, <2>1, <2>2
  <2>5. \A i \in DOMAIN r, d \in DOMAIN Config.color.Devices :
          ColorSays(r, i, "added", d) /\ d \notin DOMAIN w.dev => \E k \in DOMAIN r : i < k
          /\ ColorSays(r, k, "removed", d)
    BY <1>2, <1>3, <2>1, <2>2
  <2>6. \A i \in DOMAIN r, d \in DOMAIN Config.color.Devices :
          ColorSays(r, i, "removed", d) /\ d \in DOMAIN w.dev => \E k \in DOMAIN r : i < k
          /\ ColorSays(r, k, "added", d)
    BY <1>2, <1>3, <2>1, <2>2
  <2> QED
    BY <2>3, <2>4, <2>5, <2>6 DEF ColorTold, r
<1>5. ASSUME NEW has, NEW from, ColorAccounts(w, has, from) PROVE ColorAccounts(v, has, from)
  <2> SUFFICES ASSUME NEW d \in DOMAIN Config.color.Devices
               PROVE  /\ (\A i \in DOMAIN r : i > from => ~ColorSays(r, i, "added", d)
                         /\ ~ColorSays(r, i, "removed", d))
                           => (d \in has <=> d \in DOMAIN v.dev)
                      /\ \A i \in DOMAIN r :
                           (i > from /\ ColorSays(r, i, "added", d) /\ \A k \in DOMAIN r : from < k /\ k < i =>
                           ~ColorSays(r, k, "removed", d))
                             => d \notin has
    BY DEF ColorAccounts, r
  <2>1. /\ (\A i \in DOMAIN q : i > from => ~ColorSays(q, i, "added", d) /\ ~ColorSays(q, i, "removed", d))
             => (d \in has <=> d \in DOMAIN w.dev)
        /\ \A i \in DOMAIN q :
             (i > from /\ ColorSays(q, i, "added", d) /\ \A k \in DOMAIN q : from < k /\ k < i =>
             ~ColorSays(q, k, "removed", d))
               => d \notin has
    BY <1>5 DEF ColorAccounts, q
  <2>2. \A k \in DOMAIN q : k \in DOMAIN r
    BY <1>1
  <2> QED
    BY <1>2, <1>3, <2>1, <2>2
<1> QED
  BY <1>4, <1>5

\* A device comes.
LEMMA ColorToldAdded ==
  ASSUME NEW w, NEW v, w.said \in Seq(ColorSignals), NEW e \in DOMAIN Config.color.Devices, e \notin DOMAIN w.dev,
         v.said = Append(w.said, Color!Signal("added", e, {})), DOMAIN v.dev = DOMAIN w.dev \cup {e}, ColorTold(w)
  PROVE  /\ ColorTold(v)
         /\ \A has : \A from \in 0..Len(w.said) : ColorAccounts(w, has, from) => ColorAccounts(v, has, from)
<1> DEFINE q == w.said
           r == v.said
           n == Len(q) + 1
<1>1. /\ Len(q) \in Nat /\ DOMAIN q = 1..Len(q) /\ DOMAIN r = 1..n /\ \A i \in DOMAIN q : i \in DOMAIN r
         /\ r[i] = q[i]
      /\ r[n] = Color!Signal("added", e, {})
  OBVIOUS
<1>2. ASSUME NEW i \in DOMAIN r, NEW d, NEW kind \in {"added", "removed"}
      PROVE  ColorSays(r, i, kind, d) => (i \in DOMAIN q /\ ColorSays(q, i, kind, d))
             \/ (i = n /\ d = e /\ kind = "added")
  BY <1>1 DEF ColorSays, Color!Signal
<1>3. ASSUME NEW i \in DOMAIN q, NEW d, NEW kind
      PROVE  i \in DOMAIN r /\ i < n /\ (ColorSays(r, i, kind, d) <=> ColorSays(q, i, kind, d))
  BY <1>1 DEF ColorSays
<1>4. n \in DOMAIN r /\ ColorSays(r, n, "added", e) /\ n \in Nat /\ \A i \in DOMAIN r : i \in Nat /\ i <= n
  BY <1>1 DEF ColorSays, Color!Signal
<1> HIDE DEF q, r, n
<1>5. /\ \A i, j \in DOMAIN q, d \in DOMAIN Config.color.Devices :
           i < j /\ ColorSays(q, i, "added", d) /\ ColorSays(q, j, "added", d) =>
             \E k \in DOMAIN q : i < k /\ k < j /\ ColorSays(q, k, "removed", d)
      /\ \A i, j \in DOMAIN q, d \in DOMAIN Config.color.Devices :
           i < j /\ ColorSays(q, i, "removed", d) /\ ColorSays(q, j, "removed", d) =>
             \E k \in DOMAIN q : i < k /\ k < j /\ ColorSays(q, k, "added", d)
      /\ \A i \in DOMAIN q, d \in DOMAIN Config.color.Devices :
           ColorSays(q, i, "added", d) /\ d \notin DOMAIN w.dev => \E k \in DOMAIN q : i < k
           /\ ColorSays(q, k, "removed", d)
      /\ \A i \in DOMAIN q, d \in DOMAIN Config.color.Devices :
           ColorSays(q, i, "removed", d) /\ d \in DOMAIN w.dev => \E k \in DOMAIN q : i < k
           /\ ColorSays(q, k, "added", d)
  BY DEF ColorTold, q
<1>6. ColorTold(v)
  <2>1. \A i, j \in DOMAIN r, d \in DOMAIN Config.color.Devices :
          i < j /\ ColorSays(r, i, "added", d) /\ ColorSays(r, j, "added", d) =>
            \E k \in DOMAIN r : i < k /\ k < j /\ ColorSays(r, k, "removed", d)
    <3> SUFFICES ASSUME NEW i \in DOMAIN r, NEW j \in DOMAIN r, NEW d \in DOMAIN Config.color.Devices, i < j,
                        ColorSays(r, i, "added", d), ColorSays(r, j, "added", d)
                 PROVE  \E k \in DOMAIN r : i < k /\ k < j /\ ColorSays(r, k, "removed", d)
      OBVIOUS
    <3>1. i \in DOMAIN q /\ ColorSays(q, i, "added", d)
      BY <1>2, <1>4
    <3>2. CASE j \in DOMAIN q /\ ColorSays(q, j, "added", d)
      BY <1>3, <1>5, <3>1, <3>2
    <3>3. CASE j = n /\ d = e
      BY <1>3, <1>5, <3>1, <3>3
    <3> QED
      BY <1>2, <3>2, <3>3
  <2>2. \A i, j \in DOMAIN r, d \in DOMAIN Config.color.Devices :
          i < j /\ ColorSays(r, i, "removed", d) /\ ColorSays(r, j, "removed", d) =>
            \E k \in DOMAIN r : i < k /\ k < j /\ ColorSays(r, k, "added", d)
    BY <1>2, <1>3, <1>5
  <2>3. \A i \in DOMAIN r, d \in DOMAIN Config.color.Devices :
          ColorSays(r, i, "added", d) /\ d \notin DOMAIN v.dev => \E k \in DOMAIN r : i < k
          /\ ColorSays(r, k, "removed", d)
    BY <1>2, <1>3, <1>5
  <2>4. \A i \in DOMAIN r, d \in DOMAIN Config.color.Devices :
          ColorSays(r, i, "removed", d) /\ d \in DOMAIN v.dev => \E k \in DOMAIN r : i < k
          /\ ColorSays(r, k, "added", d)
    <3> SUFFICES ASSUME NEW i \in DOMAIN r, NEW d \in DOMAIN Config.color.Devices,
                        ColorSays(r, i, "removed", d), d \in DOMAIN v.dev
                 PROVE  \E k \in DOMAIN r : i < k /\ ColorSays(r, k, "added", d)
      OBVIOUS
    <3>1. i \in DOMAIN q /\ ColorSays(q, i, "removed", d)
      BY <1>2
    <3>2. CASE d = e
      BY <1>3, <1>4, <3>1, <3>2
    <3>3. CASE d # e
      BY <1>3, <1>5, <3>1, <3>3
    <3> QED
      BY <3>2, <3>3
  <2> QED
    BY <2>1, <2>2, <2>3, <2>4 DEF ColorTold, r
<1>7. ASSUME NEW has, NEW from \in 0..Len(w.said), ColorAccounts(w, has, from) PROVE ColorAccounts(v, has, from)
  <2> SUFFICES ASSUME NEW d \in DOMAIN Config.color.Devices
               PROVE  /\ (\A i \in DOMAIN r : i > from => ~ColorSays(r, i, "added", d)
                         /\ ~ColorSays(r, i, "removed", d))
                           => (d \in has <=> d \in DOMAIN v.dev)
                      /\ \A i \in DOMAIN r :
                           (i > from /\ ColorSays(r, i, "added", d) /\ \A k \in DOMAIN r : from < k /\ k < i =>
                           ~ColorSays(r, k, "removed", d))
                             => d \notin has
    BY DEF ColorAccounts, r
  <2>1. /\ (\A i \in DOMAIN q : i > from => ~ColorSays(q, i, "added", d) /\ ~ColorSays(q, i, "removed", d))
             => (d \in has <=> d \in DOMAIN w.dev)
        /\ \A i \in DOMAIN q :
             (i > from /\ ColorSays(q, i, "added", d) /\ \A k \in DOMAIN q : from < k /\ k < i =>
             ~ColorSays(q, k, "removed", d))
               => d \notin has
    BY <1>7 DEF ColorAccounts, q
  <2>2. n > from
    BY <1>1 DEF q, n
  <2>3. (\A i \in DOMAIN r : i > from => ~ColorSays(r, i, "added", d) /\ ~ColorSays(r, i, "removed", d)) =>
        (d \in has <=> d \in DOMAIN v.dev)
    BY <1>2, <1>3, <1>4, <2>1, <2>2
  <2>4. ASSUME NEW i \in DOMAIN r, i > from, ColorSays(r, i, "added", d), \A k \in DOMAIN r : from < k
               /\ k < i => ~ColorSays(r, k, "removed", d)
        PROVE  d \notin has
    <3>1. CASE i \in DOMAIN q /\ ColorSays(q, i, "added", d)
      BY <1>3, <2>1, <2>4, <3>1
    <3>2. CASE i = n /\ d = e
      <4>1. \A k \in DOMAIN q : from < k => ~ColorSays(q, k, "removed", e)
        BY <1>3, <2>4, <3>2
      <4>2. \A k \in DOMAIN q : from < k => ~ColorSays(q, k, "added", e)
        <5> SUFFICES ASSUME NEW k \in DOMAIN q, from < k, ColorSays(q, k, "added", e) PROVE FALSE
          OBVIOUS
        <5>1. PICK l \in DOMAIN q : k < l /\ ColorSays(q, l, "removed", e)
          BY <1>5
        <5>2. from < l
          BY <1>3, <1>4, <5>1
        <5> QED
          BY <4>1, <5>1, <5>2
      <4> QED
        BY <2>1, <3>2, <4>1, <4>2
    <3> QED
      BY <1>2, <2>4, <3>1, <3>2
  <2> QED
    BY <2>3, <2>4
<1> QED
  BY <1>6, <1>7

\* A device goes.
LEMMA ColorToldRemoved ==
  ASSUME NEW w, NEW v, w.said \in Seq(ColorSignals), NEW e \in DOMAIN Config.color.Devices, e \in DOMAIN w.dev,
         v.said = Append(w.said, Color!Signal("removed", e, {})), DOMAIN v.dev = DOMAIN w.dev \ {e}, ColorTold(w)
  PROVE  /\ ColorTold(v)
         /\ \A has : \A from \in 0..Len(w.said) : ColorAccounts(w, has, from) => ColorAccounts(v, has, from)
<1> DEFINE q == w.said
           r == v.said
           n == Len(q) + 1
<1>1. /\ Len(q) \in Nat /\ DOMAIN q = 1..Len(q) /\ DOMAIN r = 1..n /\ \A i \in DOMAIN q : i \in DOMAIN r
         /\ r[i] = q[i]
      /\ r[n] = Color!Signal("removed", e, {})
  OBVIOUS
<1>2. ASSUME NEW i \in DOMAIN r, NEW d, NEW kind \in {"added", "removed"}
      PROVE  ColorSays(r, i, kind, d) => (i \in DOMAIN q /\ ColorSays(q, i, kind, d))
             \/ (i = n /\ d = e /\ kind = "removed")
  BY <1>1 DEF ColorSays, Color!Signal
<1>3. ASSUME NEW i \in DOMAIN q, NEW d, NEW kind
      PROVE  i \in DOMAIN r /\ i < n /\ (ColorSays(r, i, kind, d) <=> ColorSays(q, i, kind, d))
  BY <1>1 DEF ColorSays
<1>4. n \in DOMAIN r /\ ColorSays(r, n, "removed", e) /\ n \in Nat /\ \A i \in DOMAIN r : i \in Nat /\ i <= n
  BY <1>1 DEF ColorSays, Color!Signal
<1> HIDE DEF q, r, n
<1>5. /\ \A i, j \in DOMAIN q, d \in DOMAIN Config.color.Devices :
           i < j /\ ColorSays(q, i, "added", d) /\ ColorSays(q, j, "added", d) =>
             \E k \in DOMAIN q : i < k /\ k < j /\ ColorSays(q, k, "removed", d)
      /\ \A i, j \in DOMAIN q, d \in DOMAIN Config.color.Devices :
           i < j /\ ColorSays(q, i, "removed", d) /\ ColorSays(q, j, "removed", d) =>
             \E k \in DOMAIN q : i < k /\ k < j /\ ColorSays(q, k, "added", d)
      /\ \A i \in DOMAIN q, d \in DOMAIN Config.color.Devices :
           ColorSays(q, i, "added", d) /\ d \notin DOMAIN w.dev => \E k \in DOMAIN q : i < k
           /\ ColorSays(q, k, "removed", d)
      /\ \A i \in DOMAIN q, d \in DOMAIN Config.color.Devices :
           ColorSays(q, i, "removed", d) /\ d \in DOMAIN w.dev => \E k \in DOMAIN q : i < k
           /\ ColorSays(q, k, "added", d)
  BY DEF ColorTold, q
<1>6. ColorTold(v)
  <2>1. \A i, j \in DOMAIN r, d \in DOMAIN Config.color.Devices :
          i < j /\ ColorSays(r, i, "added", d) /\ ColorSays(r, j, "added", d) =>
            \E k \in DOMAIN r : i < k /\ k < j /\ ColorSays(r, k, "removed", d)
    BY <1>2, <1>3, <1>5
  <2>2. \A i, j \in DOMAIN r, d \in DOMAIN Config.color.Devices :
          i < j /\ ColorSays(r, i, "removed", d) /\ ColorSays(r, j, "removed", d) =>
            \E k \in DOMAIN r : i < k /\ k < j /\ ColorSays(r, k, "added", d)
    <3> SUFFICES ASSUME NEW i \in DOMAIN r, NEW j \in DOMAIN r, NEW d \in DOMAIN Config.color.Devices, i < j,
                        ColorSays(r, i, "removed", d), ColorSays(r, j, "removed", d)
                 PROVE  \E k \in DOMAIN r : i < k /\ k < j /\ ColorSays(r, k, "added", d)
      OBVIOUS
    <3>1. i \in DOMAIN q /\ ColorSays(q, i, "removed", d)
      BY <1>2, <1>4
    <3>2. CASE j \in DOMAIN q /\ ColorSays(q, j, "removed", d)
      BY <1>3, <1>5, <3>1, <3>2
    <3>3. CASE j = n /\ d = e
      BY <1>3, <1>5, <3>1, <3>3
    <3> QED
      BY <1>2, <3>2, <3>3
  <2>3. \A i \in DOMAIN r, d \in DOMAIN Config.color.Devices :
          ColorSays(r, i, "added", d) /\ d \notin DOMAIN v.dev => \E k \in DOMAIN r : i < k
          /\ ColorSays(r, k, "removed", d)
    <3> SUFFICES ASSUME NEW i \in DOMAIN r, NEW d \in DOMAIN Config.color.Devices, ColorSays(r, i, "added", d),
                        d \notin DOMAIN v.dev
                 PROVE  \E k \in DOMAIN r : i < k /\ ColorSays(r, k, "removed", d)
      OBVIOUS
    <3>1. i \in DOMAIN q /\ ColorSays(q, i, "added", d)
      BY <1>2
    <3>2. CASE d = e
      BY <1>3, <1>4, <3>1, <3>2
    <3>3. CASE d # e
      BY <1>3, <1>5, <3>1, <3>3
    <3> QED
      BY <3>2, <3>3
  <2>4. \A i \in DOMAIN r, d \in DOMAIN Config.color.Devices :
          ColorSays(r, i, "removed", d) /\ d \in DOMAIN v.dev => \E k \in DOMAIN r : i < k
          /\ ColorSays(r, k, "added", d)
    BY <1>2, <1>3, <1>5
  <2> QED
    BY <2>1, <2>2, <2>3, <2>4 DEF ColorTold, r
<1>7. ASSUME NEW has, NEW from \in 0..Len(w.said), ColorAccounts(w, has, from) PROVE ColorAccounts(v, has, from)
  <2> SUFFICES ASSUME NEW d \in DOMAIN Config.color.Devices
               PROVE  /\ (\A i \in DOMAIN r : i > from => ~ColorSays(r, i, "added", d)
                         /\ ~ColorSays(r, i, "removed", d))
                           => (d \in has <=> d \in DOMAIN v.dev)
                      /\ \A i \in DOMAIN r :
                           (i > from /\ ColorSays(r, i, "added", d) /\ \A k \in DOMAIN r : from < k /\ k < i =>
                           ~ColorSays(r, k, "removed", d))
                             => d \notin has
    BY DEF ColorAccounts, r
  <2>1. /\ (\A i \in DOMAIN q : i > from => ~ColorSays(q, i, "added", d) /\ ~ColorSays(q, i, "removed", d))
             => (d \in has <=> d \in DOMAIN w.dev)
        /\ \A i \in DOMAIN q :
             (i > from /\ ColorSays(q, i, "added", d) /\ \A k \in DOMAIN q : from < k /\ k < i =>
             ~ColorSays(q, k, "removed", d))
               => d \notin has
    BY <1>7 DEF ColorAccounts, q
  <2>2. n > from
    BY <1>1 DEF q, n
  <2>3. (\A i \in DOMAIN r : i > from => ~ColorSays(r, i, "added", d) /\ ~ColorSays(r, i, "removed", d)) =>
        (d \in has <=> d \in DOMAIN v.dev)
    BY <1>2, <1>3, <1>4, <2>1, <2>2
  <2>4. ASSUME NEW i \in DOMAIN r, i > from, ColorSays(r, i, "added", d), \A k \in DOMAIN r : from < k
               /\ k < i => ~ColorSays(r, k, "removed", d)
        PROVE  d \notin has
    BY <1>2, <1>3, <2>1, <2>4
  <2> QED
    BY <2>3, <2>4
<1> QED
  BY <1>6, <1>7
\* The first signal is heard: the others are said as before, one place earlier.
LEMMA ColorHeardFirst ==
  ASSUME NEW w, w.said \in Seq(ColorSignals), w.said # <<>>, NEW v, v.said = Tail(w.said),
         DOMAIN v.dev = DOMAIN w.dev, ColorTold(w)
  PROVE  /\ v.said \in Seq(ColorSignals) /\ ColorTold(v) /\ w.said[1] \in ColorSignals
         /\ \A i \in DOMAIN v.said : i + 1 \in DOMAIN w.said /\ v.said[i] = w.said[i + 1]
         /\ \A i \in DOMAIN w.said : i # 1 => i - 1 \in DOMAIN v.said /\ v.said[i - 1] = w.said[i]
         /\ \A has : \A from \in DOMAIN w.said : ColorAccounts(w, has, from) => ColorAccounts(v, has, from - 1)
<1> DEFINE q == w.said
           r == v.said
<1>1. /\ Len(q) \in Nat /\ DOMAIN q = 1..Len(q) /\ DOMAIN r = 1..Len(q) - 1
         /\ \A i \in DOMAIN r : i + 1 \in DOMAIN q /\ r[i] = q[i + 1]
      /\ r \in Seq(ColorSignals) /\ q[1] \in ColorSignals
  OBVIOUS
<1>2. ASSUME NEW i \in DOMAIN r, NEW d, NEW kind
      PROVE  i + 1 \in DOMAIN q /\ i \in Nat /\ (ColorSays(r, i, kind, d) <=> ColorSays(q, i + 1, kind, d))
  BY <1>1 DEF ColorSays
<1>3. ASSUME NEW i \in DOMAIN q, NEW d, NEW kind, i # 1
      PROVE  i - 1 \in DOMAIN r /\ i \in Nat /\ (ColorSays(r, i - 1, kind, d) <=> ColorSays(q, i, kind, d))
  <2>1. i - 1 \in DOMAIN r /\ (i - 1) + 1 = i /\ i \in Nat
    BY <1>1, <1>3
  <2>2. r[i - 1] = q[(i - 1) + 1]
    BY <1>1, <2>1
  <2> QED
    BY <2>1, <2>2 DEF ColorSays
<1>4. \A i \in DOMAIN q : i # 1 => i - 1 \in DOMAIN r /\ r[i - 1] = q[i]
  BY <1>1
<1>5. \A i \in DOMAIN q : i \in Nat \ {0}
  BY <1>1
<1> HIDE DEF q, r
<1>6. /\ \A i, j \in DOMAIN q, d \in DOMAIN Config.color.Devices :
           i < j /\ ColorSays(q, i, "added", d) /\ ColorSays(q, j, "added", d) =>
             \E k \in DOMAIN q : i < k /\ k < j /\ ColorSays(q, k, "removed", d)
      /\ \A i, j \in DOMAIN q, d \in DOMAIN Config.color.Devices :
           i < j /\ ColorSays(q, i, "removed", d) /\ ColorSays(q, j, "removed", d) =>
             \E k \in DOMAIN q : i < k /\ k < j /\ ColorSays(q, k, "added", d)
      /\ \A i \in DOMAIN q, d \in DOMAIN Config.color.Devices :
           ColorSays(q, i, "added", d) /\ d \notin DOMAIN w.dev => \E k \in DOMAIN q : i < k
           /\ ColorSays(q, k, "removed", d)
      /\ \A i \in DOMAIN q, d \in DOMAIN Config.color.Devices :
           ColorSays(q, i, "removed", d) /\ d \in DOMAIN w.dev => \E k \in DOMAIN q : i < k
           /\ ColorSays(q, k, "added", d)
  BY DEF ColorTold, q
<1>7. ASSUME NEW i \in DOMAIN r, NEW j \in DOMAIN r, NEW d \in DOMAIN Config.color.Devices, i < j,
             NEW a \in {"added", "removed"}, NEW b,
             b = IF a = "added" THEN "removed" ELSE "added", ColorSays(r, i, a, d), ColorSays(r, j, a, d)
      PROVE  \E k \in DOMAIN r : i < k /\ k < j /\ ColorSays(r, k, b, d)
  <2>1. ColorSays(q, i + 1, a, d) /\ ColorSays(q, j + 1, a, d) /\ i + 1 \in DOMAIN q /\ j + 1 \in DOMAIN q
        /\ i + 1 < j + 1
    BY <1>2, <1>7
  <2>2. PICK k \in DOMAIN q : i + 1 < k /\ k < j + 1 /\ ColorSays(q, k, b, d)
    BY <1>6, <1>7, <2>1
  <2>3. k # 1 /\ i < k - 1 /\ k - 1 < j
    BY <1>1, <1>5, <2>2 DEF r, q
  <2>4. k - 1 \in DOMAIN r /\ ColorSays(r, k - 1, b, d)
    BY <1>3, <2>2, <2>3
  <2> QED
    BY <2>3, <2>4
<1>8. ASSUME NEW i \in DOMAIN r, NEW d \in DOMAIN Config.color.Devices, NEW a \in {"added", "removed"}, NEW b,
             b = IF a = "added" THEN "removed" ELSE "added", ColorSays(r, i, a, d),
             d \in DOMAIN v.dev <=> a = "removed"
      PROVE  \E k \in DOMAIN r : i < k /\ ColorSays(r, k, b, d)
  <2>1. ColorSays(q, i + 1, a, d) /\ i + 1 \in DOMAIN q
    BY <1>2, <1>8
  <2>2. PICK k \in DOMAIN q : i + 1 < k /\ ColorSays(q, k, b, d)
    BY <1>6, <1>8, <2>1
  <2>3. k # 1 /\ i < k - 1
    BY <1>1, <1>5, <2>2 DEF r, q
  <2>4. k - 1 \in DOMAIN r /\ ColorSays(r, k - 1, b, d)
    BY <1>3, <2>2, <2>3
  <2> QED
    BY <2>3, <2>4
<1>9. ColorTold(v)
  <2>1. \A i, j \in DOMAIN r, d \in DOMAIN Config.color.Devices :
          i < j /\ ColorSays(r, i, "added", d) /\ ColorSays(r, j, "added", d) =>
            \E k \in DOMAIN r : i < k /\ k < j /\ ColorSays(r, k, "removed", d)
    BY <1>7
  <2>2. \A i, j \in DOMAIN r, d \in DOMAIN Config.color.Devices :
          i < j /\ ColorSays(r, i, "removed", d) /\ ColorSays(r, j, "removed", d) =>
            \E k \in DOMAIN r : i < k /\ k < j /\ ColorSays(r, k, "added", d)
    BY <1>7
  <2>3. \A i \in DOMAIN r, d \in DOMAIN Config.color.Devices :
          ColorSays(r, i, "added", d) /\ d \notin DOMAIN v.dev => \E k \in DOMAIN r : i < k
          /\ ColorSays(r, k, "removed", d)
    BY <1>8
  <2>4. \A i \in DOMAIN r, d \in DOMAIN Config.color.Devices :
          ColorSays(r, i, "removed", d) /\ d \in DOMAIN v.dev => \E k \in DOMAIN r : i < k
          /\ ColorSays(r, k, "added", d)
    BY <1>8
  <2> QED
    BY <2>1, <2>2, <2>3, <2>4 DEF ColorTold, r
<1>10. ASSUME NEW has, NEW from \in DOMAIN q, ColorAccounts(w, has, from) PROVE ColorAccounts(v, has, from - 1)
  <2> SUFFICES ASSUME NEW d \in DOMAIN Config.color.Devices
               PROVE  /\ (\A i \in DOMAIN r : i > from - 1 => ~ColorSays(r, i, "added", d)
                         /\ ~ColorSays(r, i, "removed", d))
                           => (d \in has <=> d \in DOMAIN v.dev)
                      /\ \A i \in DOMAIN r :
                           (i > from - 1 /\ ColorSays(r, i, "added", d) /\ \A k \in DOMAIN r : from - 1 < k
                           /\ k < i => ~ColorSays(r, k, "removed", d))
                             => d \notin has
    BY DEF ColorAccounts, r
  <2>1. /\ (\A i \in DOMAIN q : i > from => ~ColorSays(q, i, "added", d) /\ ~ColorSays(q, i, "removed", d))
             => (d \in has <=> d \in DOMAIN w.dev)
        /\ \A i \in DOMAIN q :
             (i > from /\ ColorSays(q, i, "added", d) /\ \A k \in DOMAIN q : from < k /\ k < i =>
             ~ColorSays(q, k, "removed", d))
               => d \notin has
    BY <1>10 DEF ColorAccounts, q
  <2>2. ASSUME \A i \in DOMAIN r : i > from - 1 => ~ColorSays(r, i, "added", d) /\ ~ColorSays(r, i, "removed", d)
        PROVE  d \in has <=> d \in DOMAIN v.dev
    <3>1. \A i \in DOMAIN q : i > from => ~ColorSays(q, i, "added", d) /\ ~ColorSays(q, i, "removed", d)
      BY <1>3, <1>5, <2>2
    <3> QED
      BY <2>1, <3>1
  <2>3. ASSUME NEW i \in DOMAIN r, i > from - 1, ColorSays(r, i, "added", d), \A k \in DOMAIN r : from - 1 < k
               /\ k < i => ~ColorSays(r, k, "removed", d)
        PROVE  d \notin has
    <3>1. i + 1 \in DOMAIN q /\ i + 1 > from /\ ColorSays(q, i + 1, "added", d)
      BY <1>2, <1>5, <2>3
    <3>2. \A k \in DOMAIN q : from < k /\ k < i + 1 => ~ColorSays(q, k, "removed", d)
      BY <1>2, <1>3, <1>5, <2>3
    <3> QED
      BY <2>1, <3>1, <3>2
  <2> QED
    BY <2>2, <2>3
<1> QED
  BY <1>1, <1>4, <1>9, <1>10 DEF q, r

\* What the first signal tells of the devices; has is what there was before, had what there is then.
LEMMA ColorHeardOne ==
  ASSUME NEW w, w.said \in Seq(ColorSignals), w.said # <<>>, NEW v, v.said = Tail(w.said),
         DOMAIN v.dev = DOMAIN w.dev, ColorTold(w),
         NEW has, ColorAccounts(w, has, 0), NEW had,
         \/ w.said[1].kind \notin {"added", "removed"}
            /\ \A d \in DOMAIN Config.color.Devices : d \in had <=> d \in has
         \/ /\ w.said[1].kind = "added"
            /\ \A d \in DOMAIN Config.color.Devices : d \in had <=> d \in has
               \/ (d = w.said[1].dev /\ d \in DOMAIN w.dev)
         \/ w.said[1].kind = "removed" /\ \A d \in DOMAIN Config.color.Devices : d \in had <=> d \in has
            /\ d # w.said[1].dev
  PROVE  ColorAccounts(v, had, 0)
<1> DEFINE q == w.said
           r == v.said
<1>1. /\ Len(q) \in Nat /\ DOMAIN q = 1..Len(q) /\ 1 \in DOMAIN q /\ DOMAIN r = 1..Len(q) - 1
      /\ \A i \in DOMAIN r : i + 1 \in DOMAIN q /\ r[i] = q[i + 1]
  OBVIOUS
<1>2. ASSUME NEW i \in DOMAIN r, NEW d, NEW kind
      PROVE  i + 1 \in DOMAIN q /\ i \in Nat \ {0} /\ (ColorSays(r, i, kind, d) <=> ColorSays(q, i + 1, kind, d))
  BY <1>1 DEF ColorSays
<1>3. ASSUME NEW i \in DOMAIN q, NEW d, NEW kind, i # 1
      PROVE  i - 1 \in DOMAIN r /\ (ColorSays(r, i - 1, kind, d) <=> ColorSays(q, i, kind, d))
  <2>1. i - 1 \in DOMAIN r /\ (i - 1) + 1 = i /\ i \in Nat
    BY <1>1, <1>3
  <2>2. r[i - 1] = q[(i - 1) + 1]
    BY <1>1, <2>1
  <2> QED
    BY <2>1, <2>2 DEF ColorSays
<1>4. \A i \in DOMAIN q : i \in Nat \ {0}
  BY <1>1
<1> HIDE DEF q, r
<1> SUFFICES ASSUME NEW d \in DOMAIN Config.color.Devices
             PROVE  /\ (\A i \in DOMAIN r : i > 0 => ~ColorSays(r, i, "added", d) /\ ~ColorSays(r, i, "removed", d))
                         => (d \in had <=> d \in DOMAIN v.dev)
                    /\ \A i \in DOMAIN r :
                         (i > 0 /\ ColorSays(r, i, "added", d) /\ \A k \in DOMAIN r : 0 < k /\ k < i =>
                         ~ColorSays(r, k, "removed", d))
                           => d \notin had
  BY DEF ColorAccounts, r
<1>5. /\ (\A i \in DOMAIN q : ~ColorSays(q, i, "added", d) /\ ~ColorSays(q, i, "removed", d))
           => (d \in has <=> d \in DOMAIN w.dev)
      /\ \A i \in DOMAIN q :
           (ColorSays(q, i, "added", d) /\ \A k \in DOMAIN q : k < i => ~ColorSays(q, k, "removed", d))
             => d \notin has
  BY <1>4 DEF ColorAccounts, q
<1>6. /\ \A j \in DOMAIN q :
           1 < j /\ ColorSays(q, 1, "added", d) /\ ColorSays(q, j, "added", d) =>
             \E k \in DOMAIN q : 1 < k /\ k < j /\ ColorSays(q, k, "removed", d)
      /\ ColorSays(q, 1, "added", d) /\ d \notin DOMAIN w.dev => \E k \in DOMAIN q : 1 < k
         /\ ColorSays(q, k, "removed", d)
      /\ ColorSays(q, 1, "removed", d) /\ d \in DOMAIN w.dev => \E k \in DOMAIN q : 1 < k
         /\ ColorSays(q, k, "added", d)
  BY <1>1 DEF ColorTold, q
<1>7. ASSUME \A i \in DOMAIN r : i > 0 => ~ColorSays(r, i, "added", d) /\ ~ColorSays(r, i, "removed", d)
      PROVE  d \in had <=> d \in DOMAIN v.dev
  <2>1. \A i \in DOMAIN q : i # 1 => ~ColorSays(q, i, "added", d) /\ ~ColorSays(q, i, "removed", d)
    BY <1>2, <1>3, <1>4, <1>7
  <2>2. CASE ColorSays(q, 1, "added", d)
    BY <1>4, <1>6, <2>1, <2>2 DEF ColorSays, q
  <2>3. CASE ColorSays(q, 1, "removed", d)
    BY <1>4, <1>6, <2>1, <2>3 DEF ColorSays, q
  <2>4. CASE ~ColorSays(q, 1, "added", d) /\ ~ColorSays(q, 1, "removed", d)
    <3>1. d \in has <=> d \in DOMAIN w.dev
      BY <1>5, <2>1, <2>4
    <3>2. d \in had <=> d \in has
      BY <2>4 DEF ColorSays, q
    <3> QED
      BY <3>1, <3>2
  <2> QED
    BY <2>2, <2>3, <2>4
<1>8. ASSUME NEW i \in DOMAIN r, ColorSays(r, i, "added", d), \A k \in DOMAIN r : 0 < k /\ k < i =>
             ~ColorSays(r, k, "removed", d)
      PROVE  d \notin had
  <2>1. i + 1 \in DOMAIN q /\ ColorSays(q, i + 1, "added", d) /\ i + 1 > 1
    BY <1>2, <1>8
  <2>2. \A k \in DOMAIN q : k # 1 /\ k < i + 1 => ~ColorSays(q, k, "removed", d)
    <3> SUFFICES ASSUME NEW k \in DOMAIN q, k # 1, k < i + 1 PROVE ~ColorSays(q, k, "removed", d)
      OBVIOUS
    <3>1. k - 1 \in DOMAIN r /\ (ColorSays(r, k - 1, "removed", d) <=> ColorSays(q, k, "removed", d))
      BY <1>3
    <3>2. k \in Nat \ {0} /\ i \in Nat
      BY <1>2, <1>4, <1>8
    <3>3. 0 < k - 1 /\ k - 1 < i
      BY <3>2
    <3>4. ~ColorSays(r, k - 1, "removed", d)
      BY <1>8, <3>1, <3>3
    <3> QED
      BY <3>1, <3>4
  <2>3. CASE ColorSays(q, 1, "added", d)
    BY <1>4, <1>6, <2>1, <2>2, <2>3
  <2>4. CASE ColorSays(q, 1, "removed", d)
    BY <2>4 DEF ColorSays, q
  <2>5. CASE ~ColorSays(q, 1, "added", d) /\ ~ColorSays(q, 1, "removed", d)
    <3>1. d \notin has
      BY <1>5, <2>1, <2>2, <2>5
    <3>2. d \in had <=> d \in has
      BY <2>5 DEF ColorSays, q
    <3> QED
      BY <3>1, <3>2
  <2> QED
    BY <2>3, <2>4, <2>5
<1> QED
  BY <1>7, <1>8

\* The list is heard: there is what was there then and still is.
LEMMA ColorHeardList ==
  ASSUME NEW w, w.said \in Seq(ColorSignals), w.said # <<>>, NEW v, v.said = Tail(w.said),
         DOMAIN v.dev = DOMAIN w.dev, ColorTold(w),
         ColorAccounts(w, w.said[1].devs, 1), NEW had,
         \A d \in DOMAIN Config.color.Devices : d \in had <=> d \in w.said[1].devs /\ d \in DOMAIN w.dev
  PROVE  ColorAccounts(v, had, 0)
<1>1. 1 \in DOMAIN w.said
  OBVIOUS
<1>2. ColorAccounts(v, w.said[1].devs, 0)
  <2>1. ColorAccounts(v, w.said[1].devs, 1 - 1)
    BY <1>1, ColorHeardFirst
  <2> QED
    BY <2>1
<1> QED
  BY <1>2 DEF ColorAccounts
\* Two lists of rows, of different devices, one behind the other.
LEMMA ColorRowsJoined ==
  ASSUME NEW a, NEW b, ColorOfDevices(a), ColorOfDevices(b)
  PROVE  /\ ColorOfDevices(a \o b)
         /\ \A d : ColorShown(a \o b, d) <=> ColorShown(a, d) \/ ColorShown(b, d)
         /\ ColorOneEach(a) /\ ColorOneEach(b) /\ (\A d : ~ColorShown(a, d) \/ ~ColorShown(b, d)) =>
            ColorOneEach(a \o b)
<1>1. PICK T : a \in Seq(T)
  BY DEF ColorOfDevices, ColorIsList
<1>2. PICK U : b \in Seq(U)
  BY DEF ColorOfDevices, ColorIsList
<1>3. a \in Seq(T \cup U) /\ b \in Seq(T \cup U)
  BY <1>1, <1>2
<1> DEFINE c == a \o b
           m == Len(a)
           n == Len(b)
<1>4. /\ c \in Seq(T \cup U) /\ m \in Nat /\ n \in Nat /\ DOMAIN c = 1..m + n /\ DOMAIN a = 1..m /\ DOMAIN b = 1..n
      /\ \A i \in DOMAIN a : i \in DOMAIN c /\ c[i] = a[i]
      /\ \A i \in DOMAIN c : i \notin DOMAIN a => i - m \in DOMAIN b /\ c[i] = b[i - m]
  BY <1>3
<1>5. ASSUME NEW i \in DOMAIN b PROVE i + m \in DOMAIN c /\ c[i + m] = b[i] /\ i + m \notin DOMAIN a
  BY <1>3
<1>6. ColorIsList(c)
  BY <1>4, ColorListIs
<1> HIDE DEF c, m, n
<1>7. ColorOfDevices(c)
  BY <1>4, <1>6 DEF ColorOfDevices
<1>8. \A d : ColorShown(c, d) <=> ColorShown(a, d) \/ ColorShown(b, d)
  BY <1>4, <1>5 DEF ColorShown
<1>9. ASSUME ColorOneEach(a), ColorOneEach(b), \A d : ~ColorShown(a, d) \/ ~ColorShown(b, d) PROVE ColorOneEach(c)
  <2> SUFFICES ASSUME NEW i \in DOMAIN c, NEW j \in DOMAIN c, c[i].dev = c[j].dev PROVE i = j
    BY DEF ColorOneEach
  <2>1. CASE i \in DOMAIN a /\ j \in DOMAIN a
    BY <1>4, <1>9, <2>1 DEF ColorOneEach
  <2>2. ASSUME NEW k \in DOMAIN c
        PROVE  (k \in DOMAIN a => ColorShown(a, c[k].dev)) /\ (k \notin DOMAIN a => ColorShown(b, c[k].dev))
    BY <1>4 DEF ColorShown
  <2>3. CASE i \in DOMAIN a /\ j \notin DOMAIN a
    BY <1>9, <2>2, <2>3
  <2>4. CASE i \notin DOMAIN a /\ j \in DOMAIN a
    BY <1>9, <2>2, <2>4
  <2>5. CASE i \notin DOMAIN a /\ j \notin DOMAIN a
    <3>1. i - m = j - m
      BY <1>4, <1>9, <2>5 DEF ColorOneEach
    <3> QED
      BY <1>4, <3>1
  <2> QED
    BY <2>1, <2>3, <2>4, <2>5
<1> QED
  BY <1>7, <1>8, <1>9 DEF c

\* Some of the rows.
LEMMA ColorRowsKept ==
  ASSUME NEW rows, ColorOfDevices(rows), NEW places, places \subseteq DOMAIN rows
  PROVE  /\ ColorOfDevices(Color!Kept(rows, places))
         /\ \A k \in DOMAIN Color!Kept(rows, places) : \E i \in places : Color!Kept(rows, places)[k] = rows[i]
         /\ ColorOneEach(rows) =>
              /\ ColorOneEach(Color!Kept(rows, places))
              /\ \A d : ColorShown(Color!Kept(rows, places), d) <=> \E i \in places : rows[i].dev = d
<1>1. PICK T : rows \in Seq(T)
  BY DEF ColorOfDevices, ColorIsList
<1> DEFINE k == Color!Kept(rows, places)
<1>2. k = Kept(rows, places)
  BY ColorBridge
<1>3. k \in Seq(T) /\ \A j \in DOMAIN k : \E i \in places : k[j] = rows[i]
  <2>1. /\ Kept(rows, places) \in Seq(T)
        /\ \A j \in DOMAIN Kept(rows, places) : \E n \in DOMAIN rows : n >= j /\ n \in places
           /\ Kept(rows, places)[j] = rows[n]
    BY <1>1, KeptIsSeq
  <2> QED
    BY <1>2, <2>1
<1>4. ColorOneEach(rows) =>
        /\ \A i \in places : \E j \in DOMAIN k : k[j] = rows[i]
        /\ \A i, j \in DOMAIN k : k[i] = k[j] => i = j
  <2>1. ASSUME ColorOneEach(rows) PROVE \A i, j \in DOMAIN rows : rows[i] = rows[j] => i = j
    BY <2>1 DEF ColorOneEach
  <2>2. ASSUME ColorOneEach(rows)
        PROVE  /\ \A i \in places : \E j \in DOMAIN Kept(rows, places) : Kept(rows, places)[j] = rows[i]
               /\ \A i, j \in DOMAIN Kept(rows, places) : Kept(rows, places)[i] = Kept(rows, places)[j] => i = j
    BY <1>1, <2>1, <2>2, KeptDistinct
  <2> QED
    BY <1>2, <2>2
<1> HIDE DEF k
<1>5. ColorOfDevices(k)
  BY <1>3, ColorListIs DEF ColorOfDevices
<1>6. ColorOneEach(rows) => ColorOneEach(k)
  BY <1>3, <1>4 DEF ColorOneEach
<1>7. ColorOneEach(rows) => \A d : ColorShown(k, d) <=> \E i \in places : rows[i].dev = d
  BY <1>3, <1>4 DEF ColorShown
<1> QED
  BY <1>3, <1>5, <1>6, <1>7 DEF k

\* The rows of some ranks, sorted.
ColorOfRanks(rows, x, n) ==
  /\ ColorOfDevices(x)
  /\ ColorOneEach(rows) => ColorOneEach(x) /\ \A d : ColorShown(x,
     d) <=> \E i \in DOMAIN rows : rows[i].dev = d /\ Color!Rank(rows[i]) >= n
\* The rows of one rank more before those that are sorted already.
LEMMA ColorNextRank ==
  ASSUME NEW rows, ColorOfDevices(rows), NEW x, NEW n \in Int, ColorOfRanks(rows, x, n + 1)
  PROVE  ColorOfRanks(rows, x \o Color!Kept(rows, {i \in DOMAIN rows : Color!Rank(rows[i]) = n}), n)
<1> DEFINE at == {i \in DOMAIN rows : Color!Rank(rows[i]) = n}
           y == Color!Kept(rows, at)
<1>1. /\ ColorOfDevices(y)
      /\ ColorOneEach(rows) => ColorOneEach(y) /\ \A d : ColorShown(y, d) <=> \E i \in at : rows[i].dev = d
  BY ColorRowsKept
<1>2. \A i \in DOMAIN rows : Color!Rank(rows[i]) \in Int
  BY DEF Color!Rank, Color!DeviceKindToSort
<1>3. \A i, j \in DOMAIN rows : rows[i].dev = rows[j].dev => Color!Rank(rows[i]) = Color!Rank(rows[j])
  BY DEF Color!Rank
<1> HIDE DEF y
<1>4. ColorOfDevices(x \o y) /\ \A d : ColorShown(x \o y, d) <=> ColorShown(x, d) \/ ColorShown(y, d)
  BY <1>1, ColorRowsJoined DEF ColorOfRanks
<1>5. ASSUME ColorOneEach(rows) PROVE ColorOneEach(x \o y)
  <2>1. \A d : ~ColorShown(x, d) \/ ~ColorShown(y, d)
    BY <1>1, <1>2, <1>3, <1>5 DEF ColorOfRanks
  <2> QED
    BY <1>1, <1>5, <2>1, ColorRowsJoined DEF ColorOfRanks
<1>6. ASSUME ColorOneEach(rows), NEW d
      PROVE ColorShown(x \o y, d) <=> \E i \in DOMAIN rows : rows[i].dev = d /\ Color!Rank(rows[i]) >= n
  BY <1>1, <1>2, <1>4, <1>6 DEF ColorOfRanks
<1> QED
  BY <1>4, <1>5, <1>6 DEF ColorOfRanks, y

\* Sorting changes the order only.
LEMMA ColorSortedRows ==
  ASSUME NEW rows, ColorOfDevices(rows)
  PROVE  ColorOfDevices(Color!Sorted(rows)) /\ (ColorOneEach(rows) => ColorOneEach(Color!Sorted(rows))
         /\ \A d : ColorShown(Color!Sorted(rows), d) <=> ColorShown(rows, d))
<1> DEFINE Of(n) == Color!Kept(rows, {i \in DOMAIN rows : Color!Rank(rows[i]) = n})
<1>1. \A i \in DOMAIN rows : Color!Rank(rows[i]) \in -1..4
  BY DEF Color!Rank, Color!DeviceKindToSort
<1>2. ColorOfRanks(rows, Of(4), 4)
  <2>1. ColorOfDevices(Of(4)) /\ (ColorOneEach(rows) => ColorOneEach(Of(4))
        /\ \A d : ColorShown(Of(4), d) <=> \E i \in {j \in DOMAIN rows : Color!Rank(rows[j]) = 4} : rows[i].dev = d)
    BY ColorRowsKept
  <2> HIDE DEF Of
  <2> QED
    BY <1>1, <2>1 DEF ColorOfRanks
<1>3. ColorOfRanks(rows, Of(4) \o Of(3), 3)
  <2>1. 3 \in Int /\ 3 + 1 = 4
    OBVIOUS
  <2> QED
    BY <1>2, <2>1, ColorNextRank
<1>4. ColorOfRanks(rows, Of(4) \o Of(3) \o Of(2), 2)
  <2>1. 2 \in Int /\ 2 + 1 = 3
    OBVIOUS
  <2> QED
    BY <1>3, <2>1, ColorNextRank
<1>5. ColorOfRanks(rows, Of(4) \o Of(3) \o Of(2) \o Of(1), 1)
  <2>1. 1 \in Int /\ 1 + 1 = 2
    OBVIOUS
  <2> QED
    BY <1>4, <2>1, ColorNextRank
<1>6. ColorOfRanks(rows, Of(4) \o Of(3) \o Of(2) \o Of(1) \o Of(0), 0)
  <2>1. 0 \in Int /\ 0 + 1 = 1
    OBVIOUS
  <2> QED
    BY <1>5, <2>1, ColorNextRank
<1>7. ColorOfRanks(rows, Of(4) \o Of(3) \o Of(2) \o Of(1) \o Of(0) \o Of(-1), -1)
  <2>1. -1 \in Int /\ -1 + 1 = 0
    OBVIOUS
  <2> QED
    BY <1>6, <2>1, ColorNextRank
<1>8. ColorOfRanks(rows, Color!Sorted(rows), -1)
  BY <1>7 DEF Color!Sorted
<1> QED
  BY <1>1, <1>8 DEF ColorOfRanks, ColorShown

\* A row goes.
LEMMA ColorRowsWithout ==
  ASSUME NEW rows, ColorOfDevices(rows), NEW e
  PROVE  /\ ColorOfDevices(Color!WithoutRow(rows, e))
         /\ \A k \in DOMAIN Color!WithoutRow(rows, e) : \E i \in DOMAIN rows : Color!WithoutRow(rows,
            e)[k] = rows[i]
         /\ ColorOneEach(rows) =>
              ColorOneEach(Color!WithoutRow(rows, e))
              /\ \A d : ColorShown(Color!WithoutRow(rows, e), d) <=> ColorShown(rows, d) /\ d # e
<1>1. CASE Color!PlacesOf(rows, e) = {}
  BY <1>1 DEF Color!WithoutRow, Color!PlacesOf, ColorShown
<1>2. CASE Color!PlacesOf(rows, e) # {}
  <2> DEFINE i == Color!Least(Color!PlacesOf(rows, e))
             c == Color!RemoveAt(rows, i)
  <2>1. Len(rows) \in Nat /\ DOMAIN rows = 1..Len(rows)
    BY DEF ColorOfDevices, ColorIsList
  <2>2. i \in Color!PlacesOf(rows, e)
    <3>1. Color!PlacesOf(rows, e) \subseteq Nat
      BY <2>1 DEF Color!PlacesOf
    <3>2. Least(Color!PlacesOf(rows, e)) \in Color!PlacesOf(rows, e)
      BY <1>2, <3>1, LeastIs
    <3> QED
      BY <3>2, ColorBridge
  <2>3. i \in DOMAIN rows /\ rows[i].dev = e
    BY <2>2 DEF Color!PlacesOf
  <2> HIDE DEF i
  <2>4. ColorIsList(c) /\ OneLess(rows, i, c)
    BY <2>3, ColorListShrinks DEF ColorOfDevices
  <2> HIDE DEF c
  <2>5. ASSUME NEW j \in DOMAIN c
        PROVE  /\ j \in Nat
               /\ \/ j < i /\ j \in DOMAIN rows /\ c[j] = rows[j]
                  \/ j >= i /\ j + 1 \in DOMAIN rows /\ c[j] = rows[j + 1]
    BY <2>1, <2>3, <2>4 DEF OneLess
  <2>6. ASSUME NEW j \in DOMAIN rows, j # i PROVE \E k \in DOMAIN c : c[k] = rows[j]
    <3>1. CASE j < i
      BY <2>1, <2>3, <2>4, <3>1 DEF OneLess
    <3>2. CASE j > i
      <4>1. j - 1 \in DOMAIN c /\ ~(j - 1 < i) /\ (j - 1) + 1 = j
        BY <2>1, <2>3, <2>4, <3>2 DEF OneLess
      <4>2. c[j - 1] = rows[(j - 1) + 1]
        BY <2>4, <4>1 DEF OneLess
      <4> QED
        BY <4>1, <4>2
    <3> QED
      BY <2>1, <2>3, <2>6, <3>1, <3>2
  <2>7. Color!WithoutRow(rows, e) = c
    BY <1>2 DEF Color!WithoutRow, c, i
  <2>8. ColorOfDevices(c) /\ \A k \in DOMAIN c : \E j \in DOMAIN rows : c[k] = rows[j]
    BY <2>4, <2>5 DEF ColorOfDevices
  <2>9. ASSUME ColorOneEach(rows) PROVE ColorOneEach(c)
    <3> SUFFICES ASSUME NEW j \in DOMAIN c, NEW k \in DOMAIN c, c[j].dev = c[k].dev PROVE j = k
      BY DEF ColorOneEach
    <3>1. i \in Nat
      BY <2>1, <2>3
    <3> QED
      BY <2>5, <2>9, <3>1 DEF ColorOneEach
  <2>10. ASSUME ColorOneEach(rows), NEW d PROVE ColorShown(c, d) <=> ColorShown(rows, d) /\ d # e
    <3>1. ASSUME ColorShown(c, d) PROVE ColorShown(rows, d) /\ d # e
      <4>1. PICK j \in DOMAIN c : c[j].dev = d
        BY <3>1 DEF ColorShown
      <4>2. PICK k \in DOMAIN rows : c[j] = rows[k] /\ k # i
        BY <2>1, <2>3, <2>5
      <4> QED
        BY <2>3, <2>10, <4>1, <4>2 DEF ColorOneEach, ColorShown
    <3>2. ASSUME ColorShown(rows, d), d # e PROVE ColorShown(c, d)
      BY <2>3, <2>6, <3>2 DEF ColorShown
    <3> QED
      BY <3>1, <3>2
  <2> QED
    BY <2>7, <2>8, <2>9, <2>10
<1> QED
  BY <1>1, <1>2
\* Another row, or none, is selected.
LEMMA ColorSelectSound ==
  ASSUME NEW s, ColorSound(s), NEW r, r = Color!NoRow
         \/ (r \in Color!RowsOf(s.p) /\ (~s.p.closed => s.p.phase # "connecting"))
  PROVE  ColorSound(Color!Select(s, r)) /\ Color!Select(s, r).p.closed = s.p.closed
         /\ Color!Select(s, r).p.rows = s.p.rows /\ Color!Select(s, r).w = s.w
         /\ Color!Select(s, r).p.phase = s.p.phase
<1>1. CASE s.p.sel = r
  BY <1>1 DEF Color!Select
<1>2. CASE s.p.sel # r
  <2> DEFINE a == [s EXCEPT !.p.sel = r]
             t == Color!DevicesTreeviewClicked(a)
  <2>1. /\ DOMAIN a = {"p", "c", "w"} /\ DOMAIN a.p = ColorFields /\ a.c = s.c /\ a.w = s.w /\ a.p.sel = r
           /\ a.p.tool = s.p.tool
        /\ a.p.closed = s.p.closed /\ a.p.rows = s.p.rows /\ a.p.current = s.p.current
           /\ a.p.sensor = s.p.sensor /\ a.p.phase = s.p.phase
    BY DEF ColorSound, ColorForm, ColorFields
  <2>2. Color!Select(s, r) = t
    BY <1>2 DEF Color!Select
  <2> HIDE DEF a
  <2> DEFINE d == a.p.sel.dev
             q == a.p.sel.prof
             p1 == IF d # Color!None THEN Color!DeviceClicked(a.p, d) ELSE a.p
             p2 == IF q # Color!None THEN Color!ProfileClicked(p1, q, d, a.w) ELSE p1
             tool == [p2.tool EXCEPT !.default = q # Color!None, !.defaultSens = IF q # Color!None
             THEN q \notin a.w.wide ELSE @,
                                     !.cal = d # Color!None, !.add = d # Color!None, !.view = q # Color!None,
                                     !.undo = q # Color!None, !.bar = d # Color!None]
  <2>3. t = IF ~a.p.sel.row THEN a ELSE [a EXCEPT !.p = [p2 EXCEPT !.tool = tool]]
    BY DEF Color!DevicesTreeviewClicked
  <2>4. CASE ~a.p.sel.row
    <3>1. t = a
      BY <2>3, <2>4
    <3>2. ColorForm(a)
      BY <2>1 DEF ColorSound, ColorForm
    <3>3. ASSUME ~s.p.closed PROVE ColorOpen(a)
      <4>1. ColorOpen(s)
        BY <3>3 DEF ColorSound
      <4>2. s.p.phase = "connecting" => r = Color!NoRow
        BY <3>3
      <4>3. ColorTyped(a)
        BY <2>1, <2>4, <4>1, <4>2 DEF ColorOpen, ColorTyped
      <4>4. ColorRowsOK(a) /\ ColorSelects(a) /\ ColorSenses(a)
        BY <2>1, <2>4, <4>1 DEF ColorOpen, ColorRowsOK, ColorSelects, ColorSenses
      <4>5. ColorAsks(a) /\ ColorTold(a.w) /\ ColorListing(a) /\ ColorMirrors(a)
        BY <2>1, <4>1 DEF ColorOpen, ColorAsks, ColorListing, ColorMirrors, ColorHolds
      <4> QED
        BY <4>3, <4>4, <4>5 DEF ColorOpen
    <3> QED
      BY <2>1, <2>2, <3>1, <3>2, <3>3 DEF ColorSound
  <2>5. CASE a.p.sel.row
    <3>1. t = [a EXCEPT !.p = [p2 EXCEPT !.tool = tool]]
      BY <2>3, <2>5
    <3> HIDE DEF t
    <3>2. /\ DOMAIN p1 = ColorFields /\ DOMAIN p1.tool = ColorToolFields /\ p1.rows = s.p.rows /\ p1.sel = r
             /\ p1.sensor = s.p.sensor
          /\ p1.phase = s.p.phase /\ p1.closed = s.p.closed
      BY <2>1 DEF Color!DeviceClicked, Color!SetCalibrateButtonSensitivity, ColorSound, ColorForm, ColorFields,
         ColorToolFields
    <3>3. /\ d # Color!None => p1.current = d /\ (p1.tool.remove <=> Config.color.Devices[d].virtual)
             /\ p1.tool.calSens = Color!CanCalibrate(d, s.p.sensor)
          /\ d = Color!None => p1.current = s.p.current /\ p1.tool = s.p.tool
      BY <2>1 DEF Color!DeviceClicked, Color!SetCalibrateButtonSensitivity, ColorSound, ColorForm, ColorFields,
         ColorToolFields
    <3> HIDE DEF p1
    <3>4. /\ DOMAIN p2 = ColorFields /\ DOMAIN p2.tool = ColorToolFields /\ p2.rows = s.p.rows /\ p2.sel = r
             /\ p2.sensor = s.p.sensor
          /\ p2.phase = s.p.phase /\ p2.closed = s.p.closed /\ p2.current = p1.current
             /\ p2.tool.calSens = p1.tool.calSens
          /\ q # Color!None => ~p2.tool.remove
          /\ q = Color!None => p2.tool.remove = p1.tool.remove
      BY <3>2 DEF Color!ProfileClicked, ColorFields, ColorToolFields
    <3> HIDE DEF p2
    <3>5. DOMAIN tool = ColorToolFields /\ (tool.bar <=> d # Color!None) /\ tool.calSens = p2.tool.calSens
          /\ tool.remove = p2.tool.remove
      BY <3>4 DEF ColorToolFields
    <3> HIDE DEF tool
    <3>6. /\ DOMAIN t = {"p", "c", "w"} /\ t.c = s.c /\ t.w = s.w /\ DOMAIN t.p = ColorFields /\ t.p.tool = tool
          /\ t.p.rows = s.p.rows /\ t.p.sel = r /\ t.p.sensor = s.p.sensor /\ t.p.phase = s.p.phase
             /\ t.p.closed = s.p.closed
          /\ t.p.current = p1.current
      BY <2>1, <3>1, <3>4 DEF ColorFields
    <3>7. ColorForm(t)
      BY <3>5, <3>6 DEF ColorSound, ColorForm
    <3>8. ASSUME ~s.p.closed PROVE ColorOpen(t)
      <4>1. ColorOpen(s)
        BY <3>8 DEF ColorSound
      <4>2. ColorTyped(t)
        <5>1. s.p.phase # "connecting"
          BY <2>1, <2>5, <3>8 DEF Color!NoRow
        <5> QED
          BY <3>6, <4>1, <5>1 DEF ColorOpen, ColorTyped
      <4>3. ColorRowsOK(t) /\ ColorAsks(t) /\ ColorTold(t.w) /\ ColorListing(t) /\ ColorMirrors(t)
        BY <3>6, <4>1 DEF ColorOpen, ColorRowsOK, ColorAsks, ColorListing, ColorMirrors, ColorHolds
      <4>4. ColorSelects(t)
        BY <2>1, <3>3, <3>4, <3>5, <3>6 DEF ColorSelects
      <4>5. t.p.tool.calSens = Color!CanCalibrate(t.p.current, t.p.sensor)
        BY <2>1, <3>3, <3>4, <3>5, <3>6, <4>1 DEF ColorOpen, ColorSenses
      <4>6. ColorSenses(t)
        BY <3>6, <4>1, <4>5 DEF ColorOpen, ColorSenses
      <4> QED
        BY <4>2, <4>3, <4>4, <4>6 DEF ColorOpen
    <3> QED
      BY <2>2, <3>6, <3>7, <3>8 DEF ColorSound
  <2> QED
    BY <2>1, <2>4, <2>5
<1> QED
  BY <1>1, <1>2

\* The selection settles.
LEMMA ColorSettledSound ==
  ASSUME NEW s, ColorSound(s), ~s.p.closed => s.p.phase # "connecting", NEW t \in Color!Settled(s)
  PROVE  ColorSound(t) /\ t.p.closed = s.p.closed /\ t.p.rows = s.p.rows /\ t.w = s.w /\ t.p.phase = s.p.phase
<1>1. CASE t = s
  BY <1>1
<1>2. CASE t # s
  <2>1. PICK r \in Color!RowsOf(s.p) \cup {Color!NoRow} : t = Color!Select(s, r)
    BY <1>2 DEF Color!Settled
  <2> QED
    BY <2>1, ColorSelectSound
<1> QED
  BY <1>1, <1>2

\* The first row is selected when none is.
LEMMA ColorFirstSound ==
  ASSUME NEW s, ColorSound(s), ~s.p.closed, s.p.phase # "connecting"
  PROVE  ColorSound(Color!SelectFirst(s)) /\ Color!SelectFirst(s).p.closed = s.p.closed
<1>1. CASE s.p.rows = <<>>
  BY <1>1 DEF Color!SelectFirst
<1>2. CASE s.p.rows # <<>>
  <2> DEFINE r == [row |-> TRUE, dev |-> s.p.rows[1].dev, prof |-> Color!None]
  <2>1. 1 \in DOMAIN s.p.rows
    BY <1>2 DEF ColorSound, ColorOpen, ColorRowsOK, ColorOfDevices, ColorIsList
  <2>2. r \in Color!RowsOf(s.p)
    <3>1. r \in {[row |-> TRUE, dev |-> s.p.rows[1].dev,
          prof |-> q] : q \in DOMAIN s.p.rows[1].kids \cup {Color!None}}
      OBVIOUS
    <3> HIDE DEF r
    <3> QED
      BY <2>1, <3>1 DEF Color!RowsOf
  <2> HIDE DEF r
  <2>3. Color!SelectFirst(s) = Color!Select(s, r)
    BY <1>2 DEF Color!SelectFirst, r
  <2> QED
    BY <2>2, <2>3, ColorSelectSound
<1> QED
  BY <1>1, <1>2
-----------------------------------------------------------------------------
\* Something is asked for, which is neither the client nor the list.
LEMMA ColorCallSound ==
  ASSUME NEW s, ColorSound(s), NEW kind, kind \notin {"connect", "list"}, NEW dev, NEW what
  PROVE  ColorSound(Color!Call(s, kind, dev, what)) /\ Color!Call(s, kind, dev, what).p = s.p
         /\ Color!Call(s, kind, dev, what).w = s.w
<1> DEFINE x == [kind |-> kind, dev |-> dev, what |-> what]
           t == Color!Call(s, kind, dev, what)
<1>1. t.p = s.p /\ t.w = s.w /\ t.c = Append(s.c, x) /\ DOMAIN t = {"p", "c", "w"}
  BY DEF Color!Call, ColorSound, ColorForm
<1>2. ~s.p.closed => ColorCallsFine(s.c, Append(s.c, x))
  <2>1. x.kind \notin {"connect", "list"}
    OBVIOUS
  <2> QED
    BY <2>1, ColorCallFine DEF ColorSound, ColorOpen
<1> HIDE DEF t, x
<1>3. ColorSame(s, t)
  BY <1>1, <1>2 DEF ColorSame, ColorSound, ColorForm
<1> QED
  BY <1>1, <1>3, ColorSameSound DEF t

\* Colord tells, after nothing or something of its devices changed; the record of the world but for that is the same.
ColorIsTold(s, t, kind, d) ==
  /\ ColorForm(t) /\ t.p = s.p /\ t.c = s.c /\ t.w.early = s.w.early /\ t.w.lost = s.w.lost
     /\ t.w.plugged = s.w.plugged
  /\ t.w.said = IF s.p.phase = "connecting" THEN s.w.said ELSE Append(s.w.said, Color!Signal(kind, d, {}))
\* What colord has changes, and a signal says so.
LEMMA ColorTellsSound ==
  ASSUME NEW s, ColorSound(s), NEW kind \in {"added", "removed", "changed", "sensor"},
         NEW d, (kind = "sensor" /\ d = Color!None) \/ (kind # "sensor" /\ d \in DOMAIN Config.color.Devices),
         NEW t, ColorIsTold(s, t, kind, d),
         kind # "sensor" => t.w.sensors = s.w.sensors,
         \/ kind \in {"changed", "sensor"} /\ DOMAIN t.w.dev = DOMAIN s.w.dev
         \/ kind = "added" /\ d \notin DOMAIN s.w.dev /\ DOMAIN t.w.dev = DOMAIN s.w.dev \cup {d}
         \/ kind = "removed" /\ d \in DOMAIN s.w.dev /\ DOMAIN t.w.dev = DOMAIN s.w.dev \ {d}
  PROVE  ColorSound(t)
<1> SUFFICES ASSUME ~s.p.closed PROVE ColorOpen(t)
  BY DEF ColorSound, ColorIsTold
<1>1. ColorOpen(s)
  BY DEF ColorSound
<1>2. DOMAIN t.w.dev \subseteq DOMAIN Config.color.Devices
  BY <1>1 DEF ColorOpen, ColorTyped
<1>3. ColorRowsOK(t) /\ ColorSelects(t)
  BY <1>1 DEF ColorOpen, ColorIsTold, ColorRowsOK, ColorSelects
<1>4. CASE s.p.phase = "connecting"
  <2>1. t.w.said = s.w.said /\ s.w.said = <<>> /\ DOMAIN s.w.said = {}
    BY <1>1, <1>4 DEF ColorOpen, ColorTyped, ColorIsTold
  <2>2. ColorTyped(t)
    BY <1>1, <1>2, <1>4, <2>1 DEF ColorOpen, ColorTyped, ColorIsTold
  <2>3. ColorSenses(t)
    BY <1>1, <1>4 DEF ColorOpen, ColorIsTold, ColorSenses
  <2>4. ColorAsks(t)
    BY <1>1, <2>1 DEF ColorOpen, ColorIsTold, ColorAsks
  <2>5. ColorTold(t.w)
    BY <2>1 DEF ColorTold
  <2>6. ColorListing(t)
    BY <1>1, <2>1 DEF ColorOpen, ColorIsTold, ColorListing
  <2>7. ColorMirrors(t)
    <3>1. ColorAccounts(t.w, DOMAIN t.w.dev, 0)
      BY <2>1 DEF ColorAccounts
    <3>2. t.p.rows = <<>> /\ t.p.phase = "connecting"
      BY <1>1, <1>4 DEF ColorOpen, ColorTyped, ColorIsTold
    <3>3. ColorHolds(t, DOMAIN t.w.dev)
      BY <3>1, <3>2 DEF ColorHolds, ColorShown
    <3> QED
      BY <1>2, <3>3 DEF ColorMirrors
  <2> QED
    BY <1>3, <2>2, <2>3, <2>4, <2>5, <2>6, <2>7 DEF ColorOpen
<1>5. CASE s.p.phase # "connecting"
  <2> DEFINE q == t.w.said
             n == Len(s.w.said) + 1
  <2>1. q = Append(s.w.said, Color!Signal(kind, d, {}))
    BY <1>5 DEF ColorIsTold
  <2> HIDE DEF q
  <2>2. kind \in {"added", "removed", "changed", "sensor"}
        /\ ((kind = "sensor" /\ d = Color!None) \/ (kind # "sensor" /\ d \in DOMAIN Config.color.Devices))
    OBVIOUS
  <2>3. /\ q \in Seq(ColorSignals) /\ Len(s.w.said) \in Nat /\ DOMAIN s.w.said = 1..Len(s.w.said) /\ DOMAIN q = 1..n
        /\ \A i \in DOMAIN s.w.said : i \in DOMAIN q /\ q[i] = s.w.said[i]
        /\ q[n].kind = kind
        /\ ColorListed(q) <=> ColorListed(s.w.said)
        /\ \A i \in DOMAIN q : q[i].kind = "list" => i \in DOMAIN s.w.said
    <3>1. Color!Signal(kind, d, {}) \in ColorSignals /\ Color!Signal(kind, d, {}).kind = kind
      BY <2>2 DEF Color!Signal, ColorSignals
    <3>2. s.w.said \in Seq(ColorSignals)
      BY <1>1 DEF ColorOpen, ColorTyped
    <3>3. /\ q \in Seq(ColorSignals) /\ Len(s.w.said) \in Nat /\ DOMAIN s.w.said = 1..Len(s.w.said)
             /\ DOMAIN q = 1..n
          /\ \A i \in DOMAIN s.w.said : i \in DOMAIN q /\ q[i] = s.w.said[i]
          /\ q[n].kind = kind
      BY <2>1, <3>1, <3>2
    <3>4. \A i \in DOMAIN q : q[i].kind = "list" => i \in DOMAIN s.w.said
      BY <2>2, <3>3
    <3>5. ColorListed(q) <=> ColorListed(s.w.said)
      BY <3>3, <3>4 DEF ColorListed
    <3> QED
      BY <3>3, <3>4, <3>5
  <2>4. s.w.said \in Seq(ColorSignals) /\ ColorTold(s.w)
    BY <1>1 DEF ColorOpen, ColorTyped
  <2>5. ColorTold(t.w) /\ \A has : \A from \in 0..Len(s.w.said) : ColorAccounts(s.w, has, from) =>
        ColorAccounts(t.w, has, from)
    <3>1. CASE kind \in {"changed", "sensor"} /\ DOMAIN t.w.dev = DOMAIN s.w.dev
      <4>1. t.w.said[Len(s.w.said) + 1].kind \in {"changed", "sensor", "list"}
            /\ DOMAIN t.w.said = 1..Len(s.w.said) + 1
        BY <2>3, <3>1 DEF q, n
      <4>2. \A i \in DOMAIN s.w.said : i \in DOMAIN t.w.said /\ t.w.said[i] = s.w.said[i]
        BY <2>3 DEF q
      <4>3. (ColorTold(s.w) => ColorTold(t.w)) /\ \A has, from : ColorAccounts(s.w, has, from) =>
            ColorAccounts(t.w, has, from)
        BY <2>3, <3>1, <4>1, <4>2, ColorToldOther
      <4> QED
        BY <2>4, <4>3
    <3>2. CASE kind = "added" /\ d \notin DOMAIN s.w.dev /\ DOMAIN t.w.dev = DOMAIN s.w.dev \cup {d}
      <4>1. d \in DOMAIN Config.color.Devices
        BY <3>2
      <4> QED
        BY <2>1, <2>4, <3>2, <4>1, ColorToldAdded DEF q
    <3>3. CASE kind = "removed" /\ d \in DOMAIN s.w.dev /\ DOMAIN t.w.dev = DOMAIN s.w.dev \ {d}
      <4>1. d \in DOMAIN Config.color.Devices
        BY <3>3
      <4> QED
        BY <2>1, <2>4, <3>3, <4>1, ColorToldRemoved DEF q
    <3> QED
      BY <3>1, <3>2, <3>3
  <2> HIDE DEF n
  <2>6. ColorTyped(t)
    BY <1>2, <1>5, <2>3 DEF ColorTyped, ColorIsTold, q
  <2>7. ColorSenses(t)
    <3>1. (t.w.plugged /\ t.p.phase \in {"connected", "listed"} /\ \A i \in DOMAIN q : q[i].kind # "sensor") =>
          t.p.sensor = ColorFirstSensor(t.w)
      <4> SUFFICES ASSUME t.w.plugged, t.p.phase \in {"connected", "listed"}, \A i \in DOMAIN q : q[i].kind # "sensor"
                   PROVE t.p.sensor = ColorFirstSensor(t.w)
        OBVIOUS
      <4>1. kind # "sensor"
        BY <2>3 DEF n
      <4>2. \A i \in DOMAIN s.w.said : s.w.said[i].kind # "sensor"
        BY <2>3
      <4> QED
        BY <1>1, <4>1, <4>2 DEF ColorOpen, ColorSenses, ColorIsTold, ColorFirstSensor
    <3> QED
      BY <1>1, <3>1 DEF ColorOpen, ColorSenses, ColorIsTold, q
  <2>8. ColorAsks(t)
    <3>1. \A i, j \in DOMAIN q : q[i].kind = "list" /\ q[j].kind = "list" => i = j
      BY <1>1, <2>3 DEF ColorOpen, ColorAsks
    <3> QED
      BY <1>1, <2>3, <3>1 DEF ColorOpen, ColorAsks, ColorIsTold, q
  <2>9. ColorListing(t)
    <3>1. ASSUME NEW l \in DOMAIN q, q[l].kind = "list" PROVE ColorAccounts(t.w, q[l].devs, l)
      <4>1. l \in DOMAIN s.w.said /\ s.w.said[l] = q[l] /\ l \in 0..Len(s.w.said)
        BY <2>3, <3>1
      <4>2. ColorAccounts(s.w, s.w.said[l].devs, l)
        BY <1>1, <3>1, <4>1 DEF ColorOpen, ColorListing
      <4> QED
        BY <2>5, <4>1, <4>2
    <3> QED
      BY <1>1, <2>3, <3>1 DEF ColorOpen, ColorListing, ColorIsTold, q
  <2>10. ColorMirrors(t)
    <3>1. 0 \in 0..Len(s.w.said)
      BY <2>3
    <3>2. \A has : ColorHolds(s, has) => ColorHolds(t, has)
      BY <2>5, <3>1 DEF ColorHolds, ColorIsTold
    <3> QED
      BY <1>1, <3>2 DEF ColorOpen, ColorMirrors, ColorIsTold
  <2> QED
    BY <1>3, <2>5, <2>6, <2>7, <2>8, <2>9, <2>10 DEF ColorOpen
<1> QED
  BY <1>4, <1>5

\* The form of what is told.
LEMMA ColorTellForm ==
  ASSUME NEW s, ColorForm(s), NEW kind, NEW d
  PROVE  /\ ColorIsTold(s, Color!Tell(s, kind, d), kind, d) /\ Color!Tell(s, kind, d).w.dev = s.w.dev
            /\ Color!Tell(s, kind, d).w.sensors = s.w.sensors
         /\ Color!Tell(s, kind, d).w.acts = s.w.acts
<1>1. CASE s.p.phase = "connecting"
  BY <1>1 DEF Color!Tell, ColorIsTold
<1>2. CASE s.p.phase # "connecting"
  BY <1>2 DEF Color!Tell, ColorIsTold, ColorForm, ColorWorldFields
<1> QED
  BY <1>1, <1>2

\* A device gets other profiles.
LEMMA ColorGiveSound ==
  ASSUME NEW s, ColorSound(s), NEW d, ~s.p.closed => d \in DOMAIN Config.color.Devices, NEW profs, NEW hard
  PROVE  ColorSound(Color!Give(s, d, profs, hard)) /\ Color!Give(s, d, profs, hard).p = s.p
         /\ Color!Give(s, d, profs, hard).c = s.c
<1> DEFINE a == [s EXCEPT !.w.dev[d] = [profs |-> profs, hard |-> hard]]
           t == Color!Give(s, d, profs, hard)
<1>1. /\ ColorForm(a) /\ a.p = s.p /\ a.c = s.c /\ a.w.said = s.w.said /\ a.w.early = s.w.early
         /\ a.w.lost = s.w.lost /\ a.w.plugged = s.w.plugged
         /\ a.w.sensors = s.w.sensors
      /\ DOMAIN a.w.dev = DOMAIN s.w.dev
  BY DEF ColorSound, ColorForm, ColorWorldFields
<1>2. t = Color!Tell(a, "changed", d)
  BY DEF Color!Give
<1> HIDE DEF a, t
<1>3. ColorIsTold(a, t, "changed", d) /\ t.w.dev = a.w.dev /\ t.w.sensors = a.w.sensors
  BY <1>1, <1>2, ColorTellForm
<1>4. ColorIsTold(s, t, "changed", d)
  BY <1>1, <1>3 DEF ColorIsTold
<1>5. ColorSound(t)
  <2>1. CASE s.p.closed
    BY <1>4, <2>1 DEF ColorSound, ColorIsTold
  <2>2. CASE ~s.p.closed
    BY <1>1, <1>3, <1>4, <2>2, ColorTellsSound
  <2> QED
    BY <2>1, <2>2
<1> QED
  BY <1>1, <1>3, <1>5 DEF ColorIsTold, t

\* A device arrives.
LEMMA ColorArrivesSound ==
  ASSUME NEW s, ColorSound(s), NEW d \in DOMAIN Config.color.Devices, d \notin DOMAIN s.w.dev
  PROVE  ColorSound(Color!Arrives(s, d)) /\ Color!Arrives(s, d).p = s.p /\ Color!Arrives(s, d).c = s.c
<1> DEFINE a == [s EXCEPT !.w.dev = [e \in DOMAIN @ \cup {d} |-> IF e = d THEN Color!Device(d) ELSE @[e]]]
           t == Color!Arrives(s, d)
<1>1. /\ ColorForm(a) /\ a.p = s.p /\ a.c = s.c /\ a.w.said = s.w.said /\ a.w.early = s.w.early
         /\ a.w.lost = s.w.lost /\ a.w.plugged = s.w.plugged
         /\ a.w.sensors = s.w.sensors
      /\ DOMAIN a.w.dev = DOMAIN s.w.dev \cup {d}
  BY DEF ColorSound, ColorForm, ColorWorldFields
<1>2. t = Color!Tell(a, "added", d)
  BY DEF Color!Arrives
<1> HIDE DEF a, t
<1>3. ColorIsTold(a, t, "added", d) /\ t.w.dev = a.w.dev /\ t.w.sensors = a.w.sensors
  BY <1>1, <1>2, ColorTellForm
<1>4. ColorIsTold(s, t, "added", d)
  BY <1>1, <1>3 DEF ColorIsTold
<1>5. ColorSound(t)
  BY <1>1, <1>3, <1>4, ColorTellsSound
<1> QED
  BY <1>1, <1>3, <1>5 DEF ColorIsTold, t

\* A device leaves.
LEMMA ColorLeavesSound ==
  ASSUME NEW s, ColorSound(s), NEW d, d \in DOMAIN s.w.dev, d \in DOMAIN Config.color.Devices
  PROVE  ColorSound(Color!Leaves(s, d)) /\ Color!Leaves(s, d).p = s.p /\ Color!Leaves(s, d).c = s.c
<1> DEFINE a == [s EXCEPT !.w.dev = [e \in DOMAIN @ \ {d} |-> @[e]]]
           t == Color!Leaves(s, d)
<1>1. /\ ColorForm(a) /\ a.p = s.p /\ a.c = s.c /\ a.w.said = s.w.said /\ a.w.early = s.w.early
         /\ a.w.lost = s.w.lost /\ a.w.plugged = s.w.plugged
         /\ a.w.sensors = s.w.sensors
      /\ DOMAIN a.w.dev = DOMAIN s.w.dev \ {d}
  BY DEF ColorSound, ColorForm, ColorWorldFields
<1>2. t = Color!Tell(a, "removed", d)
  BY DEF Color!Leaves
<1> HIDE DEF a, t
<1>3. ColorIsTold(a, t, "removed", d) /\ t.w.dev = a.w.dev /\ t.w.sensors = a.w.sensors
  BY <1>1, <1>2, ColorTellForm
<1>4. ColorIsTold(s, t, "removed", d)
  BY <1>1, <1>3 DEF ColorIsTold
<1>5. ColorSound(t)
  BY <1>1, <1>3, <1>4, ColorTellsSound
<1> QED
  BY <1>1, <1>3, <1>5 DEF ColorIsTold, t
\* The devices that are listed, in some order.
LEMMA ColorOrderIs ==
  ASSUME NEW S, IsFiniteSet(S)
  PROVE  /\ Color!SetToSeq(S) \in Seq(S) /\ \A i,
            j \in DOMAIN Color!SetToSeq(S) : Color!SetToSeq(S)[i] = Color!SetToSeq(S)[j] => i = j
<1>1. Cardinality(S) \in Nat /\ ExistsBijection(1 .. Cardinality(S), S)
  BY FS_CardinalityType
<1>2. PICK f : f \in Bijection(1 .. Cardinality(S), S)
  BY <1>1 DEF ExistsBijection
<1>3. f \in [1 .. Cardinality(S) -> S] /\ IsInjective(f)
  BY <1>2 DEF Bijection, Injection, IsInjective
<1> DEFINE order == Color!SetToSeq(S)
           n == Color!Cardinality(S)
<1>4. n \in Nat /\ f \in [1..n -> S] /\ Color!IsInjective(f)
  BY <1>1, <1>3, ColorBridge
<1>5. order \in [1..n -> S] /\ Color!IsInjective(order)
  BY <1>4 DEF Color!SetToSeq
<1> HIDE DEF order, n
<1>6. order \in Seq(S) /\ \A i, j \in DOMAIN order : order[i] = order[j] => i = j
  BY <1>4, <1>5 DEF Color!IsInjective
<1> QED
  BY <1>6 DEF order

\* A row that is written stays of its device.
LEMMA ColorWrittenRow ==
  ASSUME NEW row, "dev" \in DOMAIN row, NEW profs
  PROVE  "dev" \in DOMAIN Color!DeviceSetModelByIter(row, profs)
         /\ Color!DeviceSetModelByIter(row, profs).dev = row.dev
BY DEF Color!DeviceSetModelByIter

\* The devices that are there.
ColorThere(order, has) == Color!Kept(order, {i \in DOMAIN order : order[i] \in has})
\* The devices of a list that there are, in its order and each once.
LEMMA ColorThereAre ==
  ASSUME NEW order \in Seq(DOMAIN Config.color.Devices), \A i, j \in DOMAIN order : order[i] = order[j] =>
         i = j, NEW has
  PROVE  /\ ColorThere(order, has) \in Seq(DOMAIN Config.color.Devices)
         /\ \A k \in DOMAIN ColorThere(order, has) : \E i \in DOMAIN order : ColorThere(order, has)[k] = order[i]
            /\ order[i] \in has
         /\ \A i \in DOMAIN order : order[i] \in has =>
            \E k \in DOMAIN ColorThere(order, has) : ColorThere(order, has)[k] = order[i]
         /\ \A k, l \in DOMAIN ColorThere(order, has) : ColorThere(order, has)[k] = ColorThere(order, has)[l] => k = l
         /\ \A d : d \in Color!ToSet(ColorThere(order, has)) <=> d \in Color!ToSet(order) /\ d \in has
<1> DEFINE places == {i \in DOMAIN order : order[i] \in has}
           there == Kept(order, places)
<1>1. places \subseteq DOMAIN order /\ \A i \in DOMAIN order : i \in places <=> order[i] \in has
  OBVIOUS
<1>2. ColorThere(order, has) = there
  BY ColorBridge DEF ColorThere
<1> HIDE DEF places
<1>3. /\ there \in Seq(DOMAIN Config.color.Devices)
      /\ \A k \in DOMAIN there : \E i \in places : there[k] = order[i]
      /\ \A i \in places : \E k \in DOMAIN there : there[k] = order[i]
      /\ \A k, l \in DOMAIN there : there[k] = there[l] => k = l
  BY <1>1, KeptDistinct
<1> HIDE DEF there
<1>4. \A k \in DOMAIN there : \E i \in DOMAIN order : there[k] = order[i] /\ order[i] \in has
  BY <1>1, <1>3
<1>5. \A i \in DOMAIN order : order[i] \in has => \E k \in DOMAIN there : there[k] = order[i]
  BY <1>1, <1>3
<1>6. \A d : d \in Color!ToSet(there) <=> d \in Color!ToSet(order) /\ d \in has
  BY <1>4, <1>5 DEF Color!ToSet
<1> QED
  BY <1>2, <1>3, <1>4, <1>5, <1>6

\* Their rows.
LEMMA ColorRowsOfThem ==
  ASSUME NEW there \in Seq(DOMAIN Config.color.Devices), NEW w
  PROVE  /\ ColorIsList([k \in DOMAIN there |-> Color!NewRow(there[k], w)])
         /\ \A k \in DOMAIN there : "dev" \in DOMAIN Color!NewRow(there[k], w)
            /\ Color!NewRow(there[k], w).dev = there[k]
<1>1. ASSUME NEW d PROVE "dev" \in DOMAIN Color!NewRow(d, w) /\ Color!NewRow(d, w).dev = d
  <2> DEFINE row == [Color!NoDevicesRow EXCEPT !.dev = d, !.status = "new"]
  <2>1. "dev" \in DOMAIN row /\ row.dev = d
    BY DEF Color!NoDevicesRow
  <2> HIDE DEF row
  <2>2. Color!NewRow(d, w) = Color!DeviceSetModelByIter(row, w.dev[d].profs)
    BY DEF Color!NewRow, row
  <2> QED
    BY <2>1, <2>2, ColorWrittenRow
<1>2. ColorIsList([k \in DOMAIN there |-> Color!NewRow(there[k], w)])
  <2> DEFINE T == {Color!NewRow(there[k], w) : k \in DOMAIN there}
             new == [k \in DOMAIN there |-> Color!NewRow(there[k], w)]
  <2>1. Len(there) \in Nat /\ DOMAIN there = 1..Len(there)
    OBVIOUS
  <2>2. new \in [1..Len(there) -> T]
    BY <2>1
  <2> HIDE DEF T, new
  <2>3. new \in Seq(T)
    BY <2>1, <2>2
  <2> QED
    BY <2>3, ColorListIs DEF new
<1> QED
  BY <1>1, <1>2

\* The rows of devices that are added.
LEMMA ColorNewRows ==
  ASSUME NEW order, NEW has, NEW there \in Seq(DOMAIN Config.color.Devices),
         \A k \in DOMAIN there : \E i \in DOMAIN order : there[k] = order[i] /\ order[i] \in has,
         \A i \in DOMAIN order : order[i] \in has => \E k \in DOMAIN there : there[k] = order[i],
         \A k, l \in DOMAIN there : there[k] = there[l] => k = l,
         NEW new, ColorIsList(new), DOMAIN new = DOMAIN there,
         \A k \in DOMAIN there : "dev" \in DOMAIN new[k] /\ new[k].dev = there[k]
  PROVE  /\ ColorOfDevices(new) /\ ColorOneEach(new)
         /\ \A d : ColorShown(new, d) <=> d \in Color!ToSet(order) /\ d \in has
<1>1. \A k \in DOMAIN there : there[k] \in DOMAIN Config.color.Devices
  OBVIOUS
<1>2. ColorOfDevices(new)
  BY <1>1 DEF ColorOfDevices
<1>3. ColorOneEach(new)
  BY DEF ColorOneEach
<1>4. ASSUME NEW d PROVE ColorShown(new, d) <=> d \in Color!ToSet(order) /\ d \in has
  <2>1. d \in Color!ToSet(order) <=> \E i \in DOMAIN order : order[i] = d
    BY DEF Color!ToSet
  <2> QED
    BY <2>1 DEF ColorShown
<1> QED
  BY <1>2, <1>3, <1>4

\* Rows that are added, sorted.
ColorRowsFor(order, has, w) == [k \in DOMAIN ColorThere(order, has) |-> Color!NewRow(ColorThere(order, has)[k], w)]
\* Their rows.
LEMMA ColorRowsForThem ==
  ASSUME NEW order \in Seq(DOMAIN Config.color.Devices), \A i, j \in DOMAIN order : order[i] = order[j] =>
         i = j, NEW has, NEW w
  PROVE  /\ ColorOfDevices(ColorRowsFor(order, has, w)) /\ ColorOneEach(ColorRowsFor(order, has, w))
         /\ \A d : ColorShown(ColorRowsFor(order, has, w), d) <=> d \in Color!ToSet(order) /\ d \in has
<1> DEFINE there == ColorThere(order, has)
           new == ColorRowsFor(order, has, w)
<1>1. /\ there \in Seq(DOMAIN Config.color.Devices)
      /\ \A k \in DOMAIN there : \E i \in DOMAIN order : there[k] = order[i] /\ order[i] \in has
      /\ \A i \in DOMAIN order : order[i] \in has => \E k \in DOMAIN there : there[k] = order[i]
      /\ \A k, l \in DOMAIN there : there[k] = there[l] => k = l
  BY ColorThereAre
<1>2. new = [k \in DOMAIN there |-> Color!NewRow(there[k], w)]
  BY DEF ColorRowsFor
<1> HIDE DEF there, new
<1>3. /\ ColorIsList(new)
      /\ \A k \in DOMAIN there : "dev" \in DOMAIN Color!NewRow(there[k], w)
         /\ Color!NewRow(there[k], w).dev = there[k]
  BY <1>1, <1>2, ColorRowsOfThem
<1>4. DOMAIN new = DOMAIN there /\ \A k \in DOMAIN there : "dev" \in DOMAIN new[k] /\ new[k].dev = there[k]
  BY <1>2, <1>3
<1>5. /\ ColorOfDevices(new) /\ ColorOneEach(new)
      /\ \A d : ColorShown(new, d) <=> d \in Color!ToSet(order) /\ d \in has
  BY <1>1, <1>3, <1>4, ColorNewRows
<1> QED
  BY <1>5 DEF new

\* The rows after they are added and sorted: those there were and those of the list.
LEMMA ColorRowsAdded ==
  ASSUME NEW rows, ColorOfDevices(rows), NEW order \in Seq(DOMAIN Config.color.Devices), \A i,
         j \in DOMAIN order : order[i] = order[j] => i = j,
         NEW has, NEW w
  PROVE  /\ ColorOfDevices(Color!Sorted(rows \o ColorRowsFor(order, has, w)))
         /\ ColorOneEach(rows) /\ (\A d \in Color!ToSet(order) : d \in has => ~ColorShown(rows, d)) =>
              /\ ColorOneEach(Color!Sorted(rows \o ColorRowsFor(order, has, w)))
              /\ \A d : ColorShown(Color!Sorted(rows \o ColorRowsFor(order, has, w)), d) <=> ColorShown(rows, d)
                 \/ (d \in Color!ToSet(order) /\ d \in has)
<1> DEFINE new == ColorRowsFor(order, has, w)
           all == Color!Sorted(rows \o new)
<1>1. ColorOfDevices(new) /\ ColorOneEach(new) /\ \A d : ColorShown(new, d) <=> d \in Color!ToSet(order)
      /\ d \in has
  BY ColorRowsForThem
<1> HIDE DEF new
<1>2. /\ ColorOfDevices(rows \o new)
      /\ \A d : ColorShown(rows \o new, d) <=> ColorShown(rows, d) \/ ColorShown(new, d)
      /\ ColorOneEach(rows) /\ ColorOneEach(new) /\ (\A d : ~ColorShown(rows, d) \/ ~ColorShown(new, d)) =>
         ColorOneEach(rows \o new)
  BY <1>1, ColorRowsJoined
<1>3. ColorOfDevices(all) /\ (ColorOneEach(rows \o new) => ColorOneEach(all)
      /\ \A d : ColorShown(all, d) <=> ColorShown(rows \o new, d))
  BY <1>2, ColorSortedRows
<1> HIDE DEF all
<1>4. ASSUME ColorOneEach(rows), \A d \in Color!ToSet(order) : d \in has => ~ColorShown(rows, d)
      PROVE  ColorOneEach(all) /\ \A d : ColorShown(all, d) <=> ColorShown(rows, d)
             \/ (d \in Color!ToSet(order) /\ d \in has)
  BY <1>1, <1>2, <1>3, <1>4
<1> QED
  BY <1>3, <1>4 DEF all, new

\* The row that is there when no other is.
ColorExtraRows(rows) == IF rows = <<>> THEN <<Color!NoDevicesRow>> ELSE Color!WithoutRow(rows, Color!None)
\* The rows with the line that says there are no devices, or without it.
LEMMA ColorRowsExtra ==
  ASSUME NEW rows, ColorOfDevices(rows)
  PROVE  /\ ColorOfDevices(ColorExtraRows(rows))
         /\ (\A i \in DOMAIN rows : rows[i].dev = Color!None) =>
            \A i \in DOMAIN ColorExtraRows(rows) : ColorExtraRows(rows)[i].dev = Color!None
         /\ ColorOneEach(rows) => ColorOneEach(ColorExtraRows(rows))
            /\ \A d \in DOMAIN Config.color.Devices : ColorShown(ColorExtraRows(rows), d) <=> ColorShown(rows, d)
<1>1. CASE rows = <<>>
  <2> DEFINE x == <<Color!NoDevicesRow>>
  <2>1. ColorExtraRows(rows) = x
    BY <1>1 DEF ColorExtraRows
  <2>2. x \in Seq({Color!NoDevicesRow}) /\ DOMAIN x = {1} /\ x[1] = Color!NoDevicesRow
    OBVIOUS
  <2>3. "dev" \in DOMAIN Color!NoDevicesRow /\ Color!NoDevicesRow.dev = Color!None
    BY DEF Color!NoDevicesRow
  <2>4. DOMAIN rows = {} /\ Color!None \notin DOMAIN Config.color.Devices
    BY <1>1, ColorAssumption
  <2>5. ColorIsList(x)
    BY <2>2, ColorListIs
  <2> HIDE DEF x
  <2> QED
    BY <2>1, <2>2, <2>3, <2>4, <2>5 DEF ColorOfDevices, ColorOneEach, ColorShown
<1>2. CASE rows # <<>>
  <2>1. ColorExtraRows(rows) = Color!WithoutRow(rows, Color!None)
    BY <1>2 DEF ColorExtraRows
  <2> QED
    BY <2>1, ColorRowsWithout, ColorAssumption
<1> QED
  BY <1>1, <1>2
\* The panel hears the first signal.
LEMMA ColorHearingIs ==
  ASSUME ColorSound(Color!State), ~panel.closed, world.said # <<>>
  PROVE  /\ Color!Hearing.p = panel /\ Color!Hearing.c = calls /\ ColorForm(Color!Hearing)
            /\ Color!Hearing.w.said = Tail(world.said)
         /\ Color!Hearing.w.dev = world.dev /\ Color!Hearing.w.sensors = world.sensors
            /\ Color!Hearing.w.early = world.early /\ Color!Hearing.w.lost = world.lost
               /\ Color!Hearing.w.plugged = world.plugged
         /\ ColorOpen(Color!State) /\ Color!State.p = panel /\ Color!State.c = calls /\ Color!State.w = world
            /\ panel.phase # "connecting"
         /\ world.said \in Seq(ColorSignals) /\ 1 \in DOMAIN world.said /\ world.said[1] \in ColorSignals
<1>1. Color!State.p = panel /\ Color!State.c = calls /\ Color!State.w = world
  BY DEF Color!State
<1>2. ColorForm(Color!State) /\ ColorOpen(Color!State)
  BY <1>1 DEF ColorSound
<1>3. Color!Hearing = [Color!State EXCEPT !.w.said = Tail(@)]
  BY DEF Color!Hearing
<1>4. /\ Color!Hearing.p = panel /\ Color!Hearing.c = calls /\ ColorForm(Color!Hearing)
         /\ Color!Hearing.w.said = Tail(world.said)
      /\ Color!Hearing.w.dev = world.dev /\ Color!Hearing.w.sensors = world.sensors
         /\ Color!Hearing.w.early = world.early /\ Color!Hearing.w.lost = world.lost
            /\ Color!Hearing.w.plugged = world.plugged
  BY <1>1, <1>2, <1>3 DEF ColorForm, ColorWorldFields
<1>5. world.said \in Seq(ColorSignals) /\ panel.phase # "connecting"
  BY <1>1, <1>2 DEF ColorOpen, ColorTyped
<1> QED
  BY <1>1, <1>2, <1>4, <1>5

\* What is heard, and what comes of it.
LEMMA ColorHeardSound ==
  ASSUME NEW s, ColorSound(s), ~s.p.closed, s.w.said # <<>>,
         NEW t, ColorForm(t), t.c = s.c, t.w.said = Tail(s.w.said), DOMAIN t.w.dev = DOMAIN s.w.dev,
         t.w.sensors = s.w.sensors,
         ColorRowsOK(t), ColorSelects(t), t.p.tool.calSens = Color!CanCalibrate(t.p.current, t.p.sensor),
         IF s.w.said[1].kind = "sensor" THEN t.w.plugged => t.p.sensor = ColorFirstSensor(s.w)
         ELSE t.p.sensor = s.p.sensor /\ t.w.plugged = s.w.plugged,
         t.p.phase = IF s.w.said[1].kind = "list" THEN "listed" ELSE s.p.phase,
         ColorMirrors(t),
         (ColorAsked(s.c, "list") \/ ColorListed(t.w.said)) /\ ~t.w.early =>
         \A i \in DOMAIN t.p.rows : t.p.rows[i].dev = Color!None
  PROVE  ColorSound(t)
<1>1. ColorOpen(s)
  BY DEF ColorSound
<1>2. s.w.said \in Seq(ColorSignals) /\ ColorTold(s.w) /\ 1 \in DOMAIN s.w.said /\ s.p.phase # "connecting"
  BY <1>1 DEF ColorOpen, ColorTyped
<1>3. /\ t.w.said \in Seq(ColorSignals) /\ ColorTold(t.w) /\ s.w.said[1] \in ColorSignals
      /\ \A i \in DOMAIN t.w.said : i + 1 \in DOMAIN s.w.said /\ t.w.said[i] = s.w.said[i + 1]
      /\ \A i \in DOMAIN s.w.said : i # 1 => i - 1 \in DOMAIN t.w.said /\ t.w.said[i - 1] = s.w.said[i]
      /\ \A has : \A from \in DOMAIN s.w.said : ColorAccounts(s.w, has, from) => ColorAccounts(t.w, has, from - 1)
  BY <1>2, ColorHeardFirst
<1>4. \A i \in DOMAIN t.w.said : i \in Nat \ {0}
  BY <1>3
<1>5. ColorTyped(t)
  BY <1>1, <1>2, <1>3 DEF ColorOpen, ColorTyped
<1>6. ColorSenses(t)
  <2>1. ASSUME t.w.plugged, t.p.phase \in {"connected", "listed"},
               \A i \in DOMAIN t.w.said : t.w.said[i].kind # "sensor"
        PROVE  t.p.sensor = ColorFirstSensor(t.w)
    <3>1. CASE s.w.said[1].kind = "sensor"
      BY <2>1, <3>1 DEF ColorFirstSensor
    <3>2. CASE s.w.said[1].kind # "sensor"
      <4>1. ASSUME NEW i \in DOMAIN s.w.said PROVE s.w.said[i].kind # "sensor"
        <5>1. i # 1 => i - 1 \in DOMAIN t.w.said /\ t.w.said[i - 1] = s.w.said[i]
          BY <1>3
        <5> QED
          BY <2>1, <3>2, <5>1
      <4>2. s.p.phase \in {"connected", "listed"}
        <5>1. s.w.said[1].kind = "list" => s.p.phase = "connected"
          BY <1>1, <1>2 DEF ColorOpen, ColorAsks, ColorListed
        <5> QED
          BY <2>1, <5>1
      <4>3. s.p.sensor = ColorFirstSensor(s.w)
        BY <1>1, <2>1, <3>2, <4>1, <4>2 DEF ColorOpen, ColorSenses
      <4> QED
        BY <3>2, <4>3 DEF ColorFirstSensor
    <3> QED
      BY <3>1, <3>2
  <2> QED
    BY <2>1 DEF ColorSenses
<1>7. ColorListed(t.w.said) => ColorListed(s.w.said) /\ s.w.said[1].kind # "list"
  <2>1. \A i, j \in DOMAIN s.w.said : s.w.said[i].kind = "list" /\ s.w.said[j].kind = "list" => i = j
    BY <1>1 DEF ColorOpen, ColorAsks
  <2> QED
    BY <1>2, <1>3, <1>4, <2>1 DEF ColorListed
<1>8. ColorAsks(t)
  <2>1. \A i, j \in DOMAIN t.w.said : t.w.said[i].kind = "list" /\ t.w.said[j].kind = "list" => i = j
    <3>1. \A i, j \in DOMAIN s.w.said : s.w.said[i].kind = "list" /\ s.w.said[j].kind = "list" => i = j
      BY <1>1 DEF ColorOpen, ColorAsks
    <3> QED
      BY <1>3, <1>4, <3>1
  <2>2. ColorAsked(s.c, "list") => s.w.said[1].kind # "list"
    BY <1>1, <1>2 DEF ColorOpen, ColorAsks, ColorListed
  <2>3. ~ColorAsked(s.c, "connect")
    BY <1>1, <1>2 DEF ColorOpen, ColorAsks
  <2> QED
    BY <1>1, <1>7, <2>1, <2>2, <2>3 DEF ColorOpen, ColorAsks
<1>9. ColorListing(t)
  <2>1. ASSUME NEW l \in DOMAIN t.w.said, t.w.said[l].kind = "list" PROVE ColorAccounts(t.w, t.w.said[l].devs, l)
    <3>1. l + 1 \in DOMAIN s.w.said /\ s.w.said[l + 1] = t.w.said[l] /\ (l + 1) - 1 = l
      BY <1>3, <1>4
    <3>2. ColorAccounts(s.w, s.w.said[l + 1].devs, l + 1)
      BY <1>1, <2>1, <3>1 DEF ColorOpen, ColorListing
    <3>3. ColorAccounts(t.w, s.w.said[l + 1].devs, (l + 1) - 1)
      BY <1>3, <3>1, <3>2
    <3> QED
      BY <3>1, <3>3
  <2> QED
    BY <2>1 DEF ColorListing
<1> QED
  BY <1>3, <1>5, <1>6, <1>8, <1>9 DEF ColorSound, ColorOpen
\* What the state becomes is sound.
LEMMA ColorBecomesSound ==
  ASSUME NEW s, ColorSound(s), Color!Becomes(s)
  PROVE  ColorSound(Color!State)'
<1> DEFINE t == Color!State'
<1>1. DOMAIN t = {"p", "c", "w"} /\ t.p = s.p /\ t.c = s.c /\ t.w = s.w
  BY DEF Color!Becomes, Color!State
<1> HIDE DEF t
<1>2. ColorForm(t)
  BY <1>1 DEF ColorSound, ColorForm
<1>3. ColorOpen(s) => ColorOpen(t)
  <2>1. ColorTyped(s) /\ ColorRowsOK(s) /\ ColorSelects(s) => ColorTyped(t) /\ ColorRowsOK(t) /\ ColorSelects(t)
    BY <1>1 DEF ColorTyped, ColorRowsOK, ColorSelects
  <2>2. ColorSenses(s) /\ ColorAsks(s) => ColorSenses(t) /\ ColorAsks(t)
    BY <1>1 DEF ColorSenses, ColorAsks
  <2>3. ColorTold(s.w) /\ ColorListing(s) => ColorTold(t.w) /\ ColorListing(t)
    BY <1>1 DEF ColorListing
  <2>4. ColorMirrors(s) => ColorMirrors(t)
    BY <1>1 DEF ColorMirrors, ColorHolds
  <2> QED
    BY <2>1, <2>2, <2>3, <2>4 DEF ColorOpen
<1>4. ColorSound(t)
  BY <1>1, <1>2, <1>3 DEF ColorSound
<1> QED
  BY <1>4 DEF t

\* The rows change and nothing else of what this is about.
ColorRowsOnly(s, t) ==
  /\ ColorForm(t) /\ t.c = s.c /\ t.w.said = s.w.said /\ t.w.dev = s.w.dev /\ t.w.sensors = s.w.sensors
  /\ t.w.early = s.w.early /\ t.w.plugged = s.w.plugged
  /\ t.p.sel = s.p.sel /\ t.p.current = s.p.current /\ t.p.sensor = s.p.sensor
  /\ t.p.tool = s.p.tool /\ t.p.phase = s.p.phase /\ t.p.closed = s.p.closed
ColorAdds(s, order, has, t) ==
  /\ ColorRowsOnly(s, t) /\ t.p.rows = Color!Sorted(s.p.rows \o ColorRowsFor(order, has, s.w))
  /\ \A d : d \in t.w.lost <=> IF d \in Color!ToSet(order) THEN d \notin has ELSE d \in s.w.lost
\* AddDevices changes only the rows, and of those that are added none is lost but what could not be read.
LEMMA ColorAddForm ==
  ASSUME NEW s, ColorForm(s), NEW order \in Seq(DOMAIN Config.color.Devices),
         \A i, j \in DOMAIN order : order[i] = order[j] => i = j,
         NEW connected, NEW has, has = connected \cap DOMAIN s.w.dev, NEW t, t = Color!AddDevices(s, order, connected)
  PROVE  ColorAdds(s, order, has, t)
<1> DEFINE there == ColorThere(order, has)
           known == [d \in DOMAIN s.p.known |-> IF d \in Color!ToSet(there)
           THEN s.w.dev[d].profs ELSE s.p.known[d]]
           all == Color!Sorted(s.p.rows \o ColorRowsFor(order, has, s.w))
           lost == (s.w.lost \ Color!ToSet(order)) \cup (Color!ToSet(order) \ Color!ToSet(there))
<1>1. t = [s EXCEPT !.w.lost = lost, !.p.known = known, !.p.rows = all]
  BY DEF Color!AddDevices, ColorThere, ColorRowsFor
<1>2. \A d : d \in Color!ToSet(there) <=> d \in Color!ToSet(order) /\ d \in has
  BY ColorThereAre
<1>3. \A d : d \in lost <=> IF d \in Color!ToSet(order) THEN d \notin has ELSE d \in s.w.lost
  BY <1>2
<1> HIDE DEF known, all, lost
<1>4. ColorRowsOnly(s, t) /\ t.p.rows = all /\ t.w.lost = lost
  <2>1. /\ t.w = [s.w EXCEPT !.lost = lost] /\ t.p = [s.p EXCEPT !.known = known, !.rows = all]
        /\ t.c = s.c /\ DOMAIN t = {"p", "c", "w"}
    BY <1>1 DEF ColorForm
  <2> HIDE <1>1
  <2>2. /\ DOMAIN t.w = ColorWorldFields /\ t.w.lost = lost /\ t.w.said = s.w.said /\ t.w.dev = s.w.dev
        /\ t.w.sensors = s.w.sensors /\ t.w.early = s.w.early /\ t.w.plugged = s.w.plugged
    BY <2>1 DEF ColorForm, ColorWorldFields
  <2>3. /\ DOMAIN t.p = ColorFields /\ t.p.rows = all /\ t.p.sel = s.p.sel /\ t.p.current = s.p.current
        /\ t.p.sensor = s.p.sensor /\ t.p.tool = s.p.tool /\ t.p.phase = s.p.phase /\ t.p.closed = s.p.closed
    BY <2>1 DEF ColorForm, ColorFields
  <2> QED
    BY <2>1, <2>2, <2>3 DEF ColorForm, ColorRowsOnly
<1>5. \A d : d \in t.w.lost <=> IF d \in Color!ToSet(order) THEN d \notin has ELSE d \in s.w.lost
  BY <1>3, <1>4
<1>6. t.p.rows = Color!Sorted(s.p.rows \o ColorRowsFor(order, has, s.w))
  BY <1>4 DEF all
<1> QED
  BY <1>4, <1>5, <1>6 DEF ColorAdds

\* So does UpdateDeviceListExtraEntry.
LEMMA ColorExtraForm ==
  ASSUME NEW s, ColorForm(s)
  PROVE  /\ ColorRowsOnly(s, [s EXCEPT !.p = Color!UpdateDeviceListExtraEntry(@)])
         /\ [s EXCEPT !.p = Color!UpdateDeviceListExtraEntry(@)].p.rows = ColorExtraRows(s.p.rows)
         /\ [s EXCEPT !.p = Color!UpdateDeviceListExtraEntry(@)].w = s.w
<1> DEFINE p == Color!UpdateDeviceListExtraEntry(s.p)
           t == [s EXCEPT !.p = p]
<1>1. p = [s.p EXCEPT !.rows = ColorExtraRows(@)]
  BY DEF Color!UpdateDeviceListExtraEntry, ColorExtraRows
<1>2. DOMAIN s.p = ColorFields
  BY DEF ColorForm
<1>3. /\ DOMAIN p = ColorFields /\ p.rows = ColorExtraRows(s.p.rows) /\ p.sel = s.p.sel
         /\ p.current = s.p.current /\ p.sensor = s.p.sensor
      /\ p.tool = s.p.tool /\ p.phase = s.p.phase /\ p.closed = s.p.closed
  BY <1>1, <1>2 DEF ColorFields
<1> HIDE DEF p
<1>4. ColorRowsOnly(s, t) /\ t.p.rows = ColorExtraRows(s.p.rows) /\ t.w = s.w
  BY <1>3 DEF ColorForm, ColorRowsOnly
<1> QED
  BY <1>4 DEF p

\* The list is heard.
LEMMA ColorGetDevicesSound ==
  ASSUME ColorSound(Color!State), ~panel.closed, NEW connected,
         Color!GetDevices(Color!SetToSeq(IF world.said = <<>> THEN {} ELSE world.said[1].devs), connected)
  PROVE  ColorSound(Color!State)'
<1> DEFINE devs == world.said[1].devs
           order == Color!SetToSeq(devs)
           h == [Color!Hearing EXCEPT !.p.phase = "listed"]
           t == Color!AddDevices(h, order, connected)
           there == connected \cap DOMAIN world.dev
           u == [t EXCEPT !.p = Color!UpdateDeviceListExtraEntry(@)]
<1>1. world.said # <<>> /\ world.said[1].kind = "list" /\ Color!ToSet(order) = devs
  BY DEF Color!GetDevices, Color!Heard
<1>2. /\ Color!Hearing.p = panel /\ Color!Hearing.c = calls /\ ColorForm(Color!Hearing)
         /\ Color!Hearing.w.said = Tail(world.said)
      /\ Color!Hearing.w.dev = world.dev /\ Color!Hearing.w.sensors = world.sensors
         /\ Color!Hearing.w.early = world.early /\ Color!Hearing.w.lost = world.lost
            /\ Color!Hearing.w.plugged = world.plugged
      /\ ColorOpen(Color!State) /\ Color!State.p = panel /\ Color!State.c = calls /\ Color!State.w = world
         /\ panel.phase # "connecting"
      /\ world.said \in Seq(ColorSignals) /\ 1 \in DOMAIN world.said /\ world.said[1] \in ColorSignals
  BY <1>1, ColorHearingIs
<1>3. PICK v \in Color!Settled(u) : Color!Becomes(Color!SelectFirst(v))
  BY <1>1 DEF Color!GetDevices
<1>4. devs \subseteq DOMAIN Config.color.Devices
  BY <1>1, <1>2 DEF ColorSignals
<1>5. order \in Seq(DOMAIN Config.color.Devices) /\ \A i, j \in DOMAIN order : order[i] = order[j] => i = j
  <2>1. IsFiniteSet(devs)
    BY <1>4, ColorAssumption, FS_Subset
  <2>2. order \in Seq(devs) /\ \A i, j \in DOMAIN order : order[i] = order[j] => i = j
    BY <2>1, ColorOrderIs
  <2> HIDE DEF order
  <2> QED
    BY <1>4, <2>2
<1> HIDE DEF devs, order
<1>6. /\ ColorForm(h) /\ h.c = calls /\ h.w = Color!Hearing.w /\ h.p.rows = panel.rows /\ h.p.sel = panel.sel
         /\ h.p.current = panel.current
      /\ h.p.sensor = panel.sensor /\ h.p.tool = panel.tool /\ h.p.phase = "listed" /\ h.p.closed = panel.closed
  BY <1>2 DEF ColorForm, ColorFields
<1> HIDE DEF h
<1>7. ColorRowsOnly(h, t) /\ t.p.rows = Color!Sorted(panel.rows \o ColorRowsFor(order, there, h.w))
      /\ \A d : d \in t.w.lost <=> IF d \in Color!ToSet(order) THEN d \notin there ELSE d \in h.w.lost
  <2>1. there = connected \cap DOMAIN h.w.dev /\ ColorForm(h) /\ h.p.rows = panel.rows
    BY <1>2, <1>6
  <2>2. t = Color!AddDevices(h, order, connected)
    OBVIOUS
  <2> HIDE DEF there, t
  <2>3. ColorAdds(h, order, there, t)
    BY <1>5, <2>1, <2>2, ColorAddForm
  <2> QED
    BY <2>1, <2>3 DEF ColorAdds
<1> HIDE DEF t, there
<1>8. ColorRowsOnly(t, u) /\ u.p.rows = ColorExtraRows(t.p.rows) /\ u.w = t.w
  BY <1>7, ColorExtraForm DEF ColorRowsOnly
<1> HIDE DEF u
<1>9. /\ ColorForm(u) /\ u.c = calls /\ u.w.said = Tail(world.said) /\ u.w.dev = world.dev
      /\ u.w.sensors = world.sensors /\ u.w.early = world.early /\ u.w.plugged = world.plugged
      /\ u.p.sel = panel.sel /\ u.p.current = panel.current
      /\ u.p.sensor = panel.sensor /\ u.p.tool = panel.tool /\ u.p.phase = "listed" /\ u.p.closed = panel.closed
  BY <1>2, <1>6, <1>7, <1>8 DEF ColorRowsOnly
<1>10. ColorOfDevices(panel.rows) /\ (~world.early => ColorOneEach(panel.rows)
       /\ \A i \in DOMAIN panel.rows : panel.rows[i].dev = Color!None)
  BY <1>1, <1>2 DEF ColorOpen, ColorRowsOK, ColorListing, ColorListed
<1>11. ~world.early => \A d \in DOMAIN Config.color.Devices : ~ColorShown(panel.rows, d)
  BY <1>10, ColorAssumption DEF ColorShown
<1>12. /\ ColorOfDevices(t.p.rows)
       /\ ~world.early => ColorOneEach(t.p.rows)
          /\ \A d : ColorShown(t.p.rows, d) <=> ColorShown(panel.rows, d) \/ (d \in devs /\ d \in there)
  <2>1. /\ ColorOfDevices(t.p.rows)
        /\ ColorOneEach(panel.rows) /\ (\A d \in Color!ToSet(order) : d \in there =>
           ~ColorShown(panel.rows, d)) =>
             ColorOneEach(t.p.rows) /\ \A d : ColorShown(t.p.rows, d) <=> ColorShown(panel.rows, d)
             \/ (d \in Color!ToSet(order) /\ d \in there)
    BY <1>5, <1>7, <1>10, ColorRowsAdded
  <2>2. Color!ToSet(order) = devs /\ h.w.dev = world.dev
    BY <1>1, <1>2, <1>6 DEF devs
  <2> QED
    BY <1>4, <1>10, <1>11, <2>1, <2>2
<1>13. /\ ColorOfDevices(u.p.rows)
       /\ ~world.early => ColorOneEach(u.p.rows)
          /\ \A d \in DOMAIN Config.color.Devices : ColorShown(u.p.rows, d) <=> d \in devs /\ d \in there
  <2>1. ColorOfDevices(u.p.rows) /\ (ColorOneEach(t.p.rows) => ColorOneEach(u.p.rows)
        /\ \A d \in DOMAIN Config.color.Devices : ColorShown(u.p.rows, d) <=> ColorShown(t.p.rows, d))
    BY <1>8, <1>12, ColorRowsExtra
  <2> QED
    BY <1>11, <1>12, <2>1
<1>14. ColorRowsOK(u) /\ ColorSelects(u)
  BY <1>2, <1>9, <1>13 DEF ColorRowsOK, ColorOpen, ColorSelects
<1>15. ColorMirrors(u)
  <2> DEFINE has == {d \in devs : d \in DOMAIN world.dev}
  <2> SUFFICES ASSUME ~world.early PROVE \E x \in SUBSET DOMAIN Config.color.Devices : ColorHolds(u, x)
    BY <1>2, <1>9 DEF ColorMirrors
  <2>1. has \in SUBSET DOMAIN Config.color.Devices
        /\ \A d \in DOMAIN Config.color.Devices : d \in has <=> d \in world.said[1].devs /\ d \in DOMAIN world.dev
    BY <1>4 DEF devs
  <2> HIDE DEF has
  <2>2. ColorAccounts(world, world.said[1].devs, 1) /\ ColorTold(world)
    BY <1>1, <1>2 DEF ColorOpen, ColorListing
  <2>3. ColorAccounts(u.w, has, 0)
    <3>1. u.w.said = Tail(world.said) /\ DOMAIN u.w.dev = DOMAIN world.dev
      BY <1>2, <1>9
    <3> QED
      BY <1>1, <1>2, <2>1, <2>2, <3>1, ColorHeardList
  <2>4. \A d \in DOMAIN Config.color.Devices :
          /\ ColorShown(u.p.rows, d) => d \in has /\ d \notin u.w.lost
          /\ d \in has => ColorShown(u.p.rows, d) \/ d \in u.w.lost
    <3>1. \A d \in DOMAIN Config.color.Devices : d \in has <=> d \in devs /\ d \in DOMAIN world.dev
      BY <2>1 DEF devs
    <3>2. \A d : d \in u.w.lost <=> IF d \in devs THEN d \notin there ELSE d \in h.w.lost
      BY <1>1, <1>7, <1>8
    <3>3. \A d \in DOMAIN Config.color.Devices : ColorShown(u.p.rows, d) <=> d \in devs /\ d \in there
      BY <1>13
    <3>4. \A d : d \in there => d \in DOMAIN world.dev
      BY DEF there
    <3> QED
      BY <3>1, <3>2, <3>3, <3>4
  <2> QED
    <3>1. /\ \A d \in DOMAIN Config.color.Devices : ColorShown(u.p.rows, d) => d \in has /\ d \notin u.w.lost
          /\ \A d \in has : ColorShown(u.p.rows, d) \/ d \in u.w.lost
      <4>1. ASSUME NEW d \in has PROVE ColorShown(u.p.rows, d) \/ d \in u.w.lost
        BY <2>1, <2>4
      <4> QED
        BY <2>4, <4>1
    <3>2. ColorHolds(u, has)
      BY <1>9, <2>3, <3>1 DEF ColorHolds
    <3> QED
      BY <2>1, <3>2
<1>16. ~ColorAsked(calls, "list") /\ ~ColorListed(u.w.said)
  <2>1. ~ColorAsked(calls, "list") /\ \A i, j \in DOMAIN world.said : world.said[i].kind = "list"
        /\ world.said[j].kind = "list" => i = j
    BY <1>1, <1>2 DEF ColorOpen, ColorAsks, ColorListed
  <2>2. \A i \in DOMAIN Tail(world.said) : i + 1 \in DOMAIN world.said /\ i + 1 # 1
        /\ Tail(world.said)[i] = world.said[i + 1]
    BY <1>2
  <2>3. \A i \in DOMAIN Tail(world.said) : Tail(world.said)[i].kind # "list"
    BY <1>1, <1>2, <2>1, <2>2
  <2>4. u.w.said = Tail(world.said)
    BY <1>2, <1>9
  <2> QED
    BY <2>1, <2>3, <2>4 DEF ColorListed
<1>17. ColorSound(u)
  <2>1. u.p.tool.calSens = Color!CanCalibrate(u.p.current, u.p.sensor)
    BY <1>2, <1>9 DEF ColorOpen, ColorSenses
  <2>2. /\ u.c = Color!State.c /\ u.w.said = Tail(Color!State.w.said)
           /\ DOMAIN u.w.dev = DOMAIN Color!State.w.dev /\ u.w.sensors = Color!State.w.sensors
        /\ ~Color!State.p.closed /\ Color!State.w.said # <<>>
    BY <1>1, <1>2, <1>9
  <2>3. /\ IF Color!State.w.said[1].kind = "sensor" THEN u.w.plugged => u.p.sensor = ColorFirstSensor(Color!State.w)
           ELSE u.p.sensor = Color!State.p.sensor /\ u.w.plugged = Color!State.w.plugged
        /\ u.p.phase = IF Color!State.w.said[1].kind = "list" THEN "listed" ELSE Color!State.p.phase
    BY <1>1, <1>2, <1>9
  <2>4. (ColorAsked(Color!State.c, "list") \/ ColorListed(u.w.said)) /\ ~u.w.early =>
        \A i \in DOMAIN u.p.rows : u.p.rows[i].dev = Color!None
    BY <1>2, <1>16
  <2> QED
    BY <1>9, <1>14, <1>15, <2>1, <2>2, <2>3, <2>4, ColorHeardSound
<1>18. ColorSound(v) /\ v.p.closed = panel.closed /\ v.p.phase = "listed"
  BY <1>3, <1>9, <1>17, ColorSettledSound
<1>19. ColorSound(Color!SelectFirst(v))
  BY <1>18, ColorFirstSound
<1> QED
  BY <1>3, <1>19, ColorBecomesSound
\* A device is said to have come.
LEMMA ColorDeviceAddedSound ==
  ASSUME ColorSound(Color!State), ~panel.closed, NEW connected, Color!DeviceAdded(connected)
  PROVE  ColorSound(Color!State)'
<1> DEFINE d == world.said[1].dev
           order == <<d>>
           early == (\E i \in DOMAIN calls : calls[i].kind = "list")
           \/ (\E i \in DOMAIN world.said : world.said[i].kind = "list")
           h == [Color!Hearing EXCEPT !.w.early = @ \/ early]
           t == Color!AddDevices(h, order, connected)
           there == connected \cap DOMAIN world.dev
           u == [t EXCEPT !.p = Color!UpdateDeviceListExtraEntry(@)]
<1>1. world.said # <<>> /\ world.said[1].kind = "added"
  BY DEF Color!DeviceAdded, Color!Heard
<1>2. /\ Color!Hearing.p = panel /\ Color!Hearing.c = calls /\ ColorForm(Color!Hearing)
         /\ Color!Hearing.w.said = Tail(world.said)
      /\ Color!Hearing.w.dev = world.dev /\ Color!Hearing.w.sensors = world.sensors
         /\ Color!Hearing.w.early = world.early /\ Color!Hearing.w.lost = world.lost
            /\ Color!Hearing.w.plugged = world.plugged
      /\ ColorOpen(Color!State) /\ Color!State.p = panel /\ Color!State.c = calls /\ Color!State.w = world
         /\ panel.phase # "connecting"
      /\ world.said \in Seq(ColorSignals) /\ 1 \in DOMAIN world.said /\ world.said[1] \in ColorSignals
  BY <1>1, ColorHearingIs
<1>3. PICK v \in Color!Settled(u) : Color!Becomes(v)
  BY DEF Color!DeviceAdded
<1>4. d \in DOMAIN Config.color.Devices
  BY <1>1, <1>2 DEF ColorSignals
<1>5. early <=> ColorAsked(calls, "list") \/ ColorListed(world.said)
  BY DEF ColorAsked, ColorListed
<1> HIDE DEF d
<1>6. order \in Seq(DOMAIN Config.color.Devices) /\ (\A i, j \in DOMAIN order : order[i] = order[j] => i = j)
      /\ Color!ToSet(order) = {d}
  <2>1. order \in Seq({d}) /\ DOMAIN order = {1} /\ order[1] = d
    OBVIOUS
  <2>2. \A i, j \in DOMAIN order : order[i] = order[j] => i = j
    BY <2>1
  <2>3. Color!ToSet(order) = {d}
    BY <2>1 DEF Color!ToSet
  <2> HIDE DEF order
  <2>4. order \in Seq(DOMAIN Config.color.Devices)
    BY <1>4, <2>1
  <2> QED
    BY <2>2, <2>3, <2>4
<1> HIDE DEF order, early
<1>7. /\ ColorForm(h) /\ h.c = calls /\ h.p = panel /\ h.w.said = Tail(world.said) /\ h.w.dev = world.dev
         /\ h.w.sensors = world.sensors /\ h.w.lost = world.lost /\ h.w.plugged = world.plugged
      /\ h.w.early <=> world.early \/ early
  BY <1>2 DEF ColorForm, ColorWorldFields
<1> HIDE DEF h
<1>8. ColorRowsOnly(h, t) /\ t.p.rows = Color!Sorted(panel.rows \o ColorRowsFor(order, there, h.w))
      /\ \A x : x \in t.w.lost <=> IF x \in Color!ToSet(order) THEN x \notin there ELSE x \in h.w.lost
  <2>1. there = connected \cap DOMAIN h.w.dev /\ ColorForm(h) /\ h.p.rows = panel.rows
    BY <1>7
  <2>2. t = Color!AddDevices(h, order, connected)
    OBVIOUS
  <2> HIDE DEF there, t
  <2>3. ColorAdds(h, order, there, t)
    BY <1>6, <2>1, <2>2, ColorAddForm
  <2> QED
    BY <2>1, <2>3 DEF ColorAdds
<1> HIDE DEF t, there
<1>9. ColorRowsOnly(t, u) /\ u.p.rows = ColorExtraRows(t.p.rows) /\ u.w = t.w
  BY <1>8, ColorExtraForm DEF ColorRowsOnly
<1> HIDE DEF u
<1>10. /\ ColorForm(u) /\ u.c = calls /\ u.w.said = h.w.said /\ u.w.dev = h.w.dev /\ u.w.sensors = h.w.sensors
       /\ u.w.early = h.w.early /\ u.w.plugged = h.w.plugged /\ u.p.sel = panel.sel /\ u.p.current = panel.current
       /\ u.p.sensor = panel.sensor /\ u.p.tool = panel.tool /\ u.p.phase = panel.phase /\ u.p.closed = panel.closed
  BY <1>7, <1>8, <1>9 DEF ColorRowsOnly
<1>11. ColorOfDevices(panel.rows) /\ (~world.early => ColorOneEach(panel.rows))
  BY <1>2 DEF ColorOpen, ColorRowsOK
<1>12. ASSUME NEW has \in SUBSET DOMAIN Config.color.Devices, ColorHolds(Color!State, has)
       PROVE d \notin has /\ ~ColorShown(panel.rows, d)
  <2>1. ColorAccounts(world, has, 0)
    BY <1>2, <1>12 DEF ColorHolds
  <2>2. /\ 1 > 0 /\ ColorSays(world.said, 1, "added", d)
        /\ \A k \in DOMAIN world.said : 0 < k /\ k < 1 => ~ColorSays(world.said, k, "removed", d)
    BY <1>1, <1>2 DEF ColorSays, d
  <2>3. d \notin has
    BY <1>2, <1>4, <2>1, <2>2 DEF ColorAccounts
  <2> QED
    BY <1>2, <1>4, <1>12, <2>3 DEF ColorHolds
<1>13. ~world.early => \E has \in SUBSET DOMAIN Config.color.Devices : ColorHolds(Color!State, has)
  BY <1>2 DEF ColorOpen, ColorMirrors
<1>14. /\ ColorOfDevices(t.p.rows)
       /\ ~world.early => ColorOneEach(t.p.rows)
          /\ \A x : ColorShown(t.p.rows, x) <=> ColorShown(panel.rows, x) \/ (x = d /\ d \in there)
  <2>1. /\ ColorOfDevices(t.p.rows)
        /\ ColorOneEach(panel.rows) /\ (\A x \in Color!ToSet(order) : x \in there =>
           ~ColorShown(panel.rows, x)) =>
             ColorOneEach(t.p.rows) /\ \A x : ColorShown(t.p.rows, x) <=> ColorShown(panel.rows, x)
             \/ (x \in Color!ToSet(order) /\ x \in there)
    BY <1>6, <1>8, <1>11, ColorRowsAdded
  <2>2. ~world.early => ~ColorShown(panel.rows, d)
    BY <1>12, <1>13
  <2> QED
    BY <1>6, <1>7, <1>11, <2>1, <2>2
<1>15. /\ ColorOfDevices(u.p.rows)
       /\ ~world.early => ColorOneEach(u.p.rows)
          /\ \A x \in DOMAIN Config.color.Devices : ColorShown(u.p.rows, x) <=> ColorShown(panel.rows, x)
             \/ (x = d /\ d \in there)
  <2>1. ColorOfDevices(u.p.rows) /\ (ColorOneEach(t.p.rows) => ColorOneEach(u.p.rows)
        /\ \A x \in DOMAIN Config.color.Devices : ColorShown(u.p.rows, x) <=> ColorShown(t.p.rows, x))
    BY <1>9, <1>14, ColorRowsExtra
  <2> QED
    BY <1>14, <2>1
<1>16. ColorRowsOK(u) /\ ColorSelects(u)
  BY <1>2, <1>7, <1>10, <1>15 DEF ColorRowsOK, ColorOpen, ColorSelects
<1>17. ColorMirrors(u)
  <2> SUFFICES ASSUME ~world.early PROVE \E x \in SUBSET DOMAIN Config.color.Devices : ColorHolds(u, x)
    BY <1>7, <1>10 DEF ColorMirrors
  <2>1. PICK has \in SUBSET DOMAIN Config.color.Devices : ColorHolds(Color!State, has)
    BY <1>13
  <2> DEFINE had == {x \in DOMAIN Config.color.Devices : x \in has \/ (x = d /\ x \in DOMAIN world.dev)}
  <2>2. had \in SUBSET DOMAIN Config.color.Devices
        /\ \A x \in DOMAIN Config.color.Devices : x \in had <=> x \in has \/ (x = d /\ x \in DOMAIN world.dev)
    OBVIOUS
  <2> HIDE DEF had
  <2>3. ColorAccounts(u.w, had, 0)
    <3>1. u.w.said = Tail(world.said) /\ DOMAIN u.w.dev = DOMAIN world.dev
      BY <1>7, <1>10
    <3>2. ColorAccounts(world, has, 0) /\ ColorTold(world)
      BY <1>2, <2>1 DEF ColorOpen, ColorHolds
    <3>3. \A x \in DOMAIN Config.color.Devices : x \in had <=> x \in has
          \/ (x = world.said[1].dev /\ x \in DOMAIN world.dev)
      BY <2>2 DEF d
    <3> QED
      BY <1>1, <1>2, <3>1, <3>2, <3>3, ColorHeardOne
  <2>4. \A x : x \in u.w.lost <=> IF x = d THEN x \notin there ELSE x \in world.lost
    BY <1>6, <1>7, <1>8, <1>9
  <2>5. there \subseteq DOMAIN world.dev
    BY DEF there
  <2>6. /\ \A x \in DOMAIN Config.color.Devices : ColorShown(u.p.rows, x) => x \in had /\ x \notin u.w.lost
        /\ u.p.phase = "listed" => \A x \in had : ColorShown(u.p.rows, x) \/ x \in u.w.lost
    BY <1>2, <1>10, <1>12, <1>15, <2>1, <2>2, <2>4, <2>5 DEF ColorHolds
  <2> QED
    BY <2>2, <2>3, <2>6 DEF ColorHolds
<1>18. ColorSound(u)
  <2>1. u.p.tool.calSens = Color!CanCalibrate(u.p.current, u.p.sensor)
    BY <1>2, <1>10 DEF ColorOpen, ColorSenses
  <2>2. /\ u.c = Color!State.c /\ u.w.said = Tail(Color!State.w.said)
           /\ DOMAIN u.w.dev = DOMAIN Color!State.w.dev /\ u.w.sensors = Color!State.w.sensors
        /\ ~Color!State.p.closed /\ Color!State.w.said # <<>>
    BY <1>1, <1>2, <1>7, <1>10
  <2>3. /\ IF Color!State.w.said[1].kind = "sensor" THEN u.w.plugged => u.p.sensor = ColorFirstSensor(Color!State.w)
           ELSE u.p.sensor = Color!State.p.sensor /\ u.w.plugged = Color!State.w.plugged
        /\ u.p.phase = IF Color!State.w.said[1].kind = "list" THEN "listed" ELSE Color!State.p.phase
    BY <1>1, <1>2, <1>7, <1>10
  <2>4. ColorListed(u.w.said) => ColorListed(world.said)
    <3>1. \A i \in DOMAIN Tail(world.said) : i + 1 \in DOMAIN world.said /\ Tail(world.said)[i] = world.said[i + 1]
      BY <1>2
    <3>2. ColorListed(Tail(world.said)) => ColorListed(world.said)
      BY <3>1 DEF ColorListed
    <3> QED
      BY <1>7, <1>10, <3>2
  <2>5. (ColorAsked(Color!State.c, "list") \/ ColorListed(u.w.said)) /\ ~u.w.early =>
        \A i \in DOMAIN u.p.rows : u.p.rows[i].dev = Color!None
    BY <1>2, <1>5, <1>7, <1>10, <2>4
  <2> QED
    BY <1>10, <1>16, <1>17, <2>1, <2>2, <2>3, <2>5, ColorHeardSound
<1>19. ColorSound(v)
  BY <1>2, <1>3, <1>10, <1>18, ColorSettledSound
<1> QED
  BY <1>3, <1>19, ColorBecomesSound
\* What does not change which devices there are is heard.
LEMMA ColorHeardSame ==
  ASSUME ColorSound(Color!State), ~panel.closed, world.said # <<>>, world.said[1].kind \in {"changed", "sensor"},
         NEW t, ColorForm(t), t.c = calls, t.w.said = Color!Hearing.w.said, t.w.dev = Color!Hearing.w.dev,
         t.w.sensors = Color!Hearing.w.sensors, t.w.early = Color!Hearing.w.early, t.w.lost = Color!Hearing.w.lost,
         t.p.closed = panel.closed,
         t.p.phase = panel.phase,
         ColorOfDevices(t.p.rows), DOMAIN t.p.rows = DOMAIN panel.rows,
         \A i \in DOMAIN panel.rows : t.p.rows[i].dev = panel.rows[i].dev,
         ColorSelects(t), t.p.tool.calSens = Color!CanCalibrate(t.p.current, t.p.sensor),
         IF world.said[1].kind = "sensor" THEN t.w.plugged => t.p.sensor = ColorFirstSensor(world)
         ELSE t.p.sensor = panel.sensor /\ t.w.plugged = world.plugged
  PROVE  ColorSound(t)
<1>1. /\ Color!Hearing.p = panel /\ Color!Hearing.c = calls /\ ColorForm(Color!Hearing)
         /\ Color!Hearing.w.said = Tail(world.said)
      /\ Color!Hearing.w.dev = world.dev /\ Color!Hearing.w.sensors = world.sensors
         /\ Color!Hearing.w.early = world.early /\ Color!Hearing.w.lost = world.lost
            /\ Color!Hearing.w.plugged = world.plugged
      /\ ColorOpen(Color!State) /\ Color!State.p = panel /\ Color!State.c = calls /\ Color!State.w = world
         /\ panel.phase # "connecting"
      /\ world.said \in Seq(ColorSignals) /\ 1 \in DOMAIN world.said /\ world.said[1] \in ColorSignals
  BY ColorHearingIs
<1>2. \A d : ColorShown(t.p.rows, d) <=> ColorShown(panel.rows, d)
  BY DEF ColorShown
<1>3. ColorRowsOK(t)
  BY <1>1 DEF ColorOpen, ColorRowsOK, ColorOneEach
<1>4. ColorMirrors(t)
  <2> SUFFICES ASSUME ~world.early PROVE \E x \in SUBSET DOMAIN Config.color.Devices : ColorHolds(t, x)
    BY <1>1 DEF ColorMirrors
  <2>1. PICK has \in SUBSET DOMAIN Config.color.Devices : ColorHolds(Color!State, has)
    BY <1>1 DEF ColorOpen, ColorMirrors
  <2>2. ColorAccounts(t.w, has, 0)
    <3>1. t.w.said = Tail(world.said) /\ DOMAIN t.w.dev = DOMAIN world.dev
      BY <1>1
    <3>2. ColorAccounts(world, has, 0) /\ ColorTold(world)
      BY <1>1, <2>1 DEF ColorOpen, ColorHolds
    <3> QED
      BY <1>1, <3>1, <3>2, ColorHeardOne
  <2>3. ColorHolds(t, has)
    BY <1>1, <1>2, <2>1, <2>2 DEF ColorHolds
  <2> QED
    BY <2>3
<1>5. ColorListed(t.w.said) => ColorListed(world.said)
  <2>1. \A i \in DOMAIN Tail(world.said) : i + 1 \in DOMAIN world.said /\ Tail(world.said)[i] = world.said[i + 1]
    BY <1>1
  <2>2. ColorListed(Tail(world.said)) => ColorListed(world.said)
    BY <2>1 DEF ColorListed
  <2> QED
    BY <1>1, <2>2
<1>6. (ColorAsked(Color!State.c, "list") \/ ColorListed(t.w.said)) /\ ~t.w.early =>
      \A i \in DOMAIN t.p.rows : t.p.rows[i].dev = Color!None
  BY <1>1, <1>5 DEF ColorOpen, ColorListing
<1>7. /\ t.c = Color!State.c /\ t.w.said = Tail(Color!State.w.said)
         /\ DOMAIN t.w.dev = DOMAIN Color!State.w.dev /\ t.w.sensors = Color!State.w.sensors
      /\ ~Color!State.p.closed /\ Color!State.w.said # <<>>
  BY <1>1
<1>8. /\ IF Color!State.w.said[1].kind = "sensor" THEN t.w.plugged => t.p.sensor = ColorFirstSensor(Color!State.w)
         ELSE t.p.sensor = Color!State.p.sensor /\ t.w.plugged = Color!State.w.plugged
      /\ t.p.phase = IF Color!State.w.said[1].kind = "list" THEN "listed" ELSE Color!State.p.phase
  BY <1>1
<1> QED
  BY <1>3, <1>4, <1>6, <1>7, <1>8, ColorHeardSound

\* A device is said to have gone.
LEMMA ColorDeviceRemovedSound ==
  ASSUME ColorSound(Color!State), ~panel.closed, Color!DeviceRemoved
  PROVE  ColorSound(Color!State)'
<1> DEFINE d == world.said[1].dev
           u == [Color!Hearing EXCEPT !.p = Color!UpdateDeviceListExtraEntry(Color!RemoveDevice(@, d))]
           rows == Color!WithoutRow(panel.rows, d)
<1>1. world.said # <<>> /\ world.said[1].kind = "removed"
  BY DEF Color!DeviceRemoved, Color!Heard
<1>2. /\ Color!Hearing.p = panel /\ Color!Hearing.c = calls /\ ColorForm(Color!Hearing)
         /\ Color!Hearing.w.said = Tail(world.said)
      /\ Color!Hearing.w.dev = world.dev /\ Color!Hearing.w.sensors = world.sensors
         /\ Color!Hearing.w.early = world.early /\ Color!Hearing.w.lost = world.lost
            /\ Color!Hearing.w.plugged = world.plugged
      /\ ColorOpen(Color!State) /\ Color!State.p = panel /\ Color!State.c = calls /\ Color!State.w = world
         /\ panel.phase # "connecting"
      /\ world.said \in Seq(ColorSignals) /\ 1 \in DOMAIN world.said /\ world.said[1] \in ColorSignals
  BY <1>1, ColorHearingIs
<1>3. PICK v \in Color!Settled(u) : Color!Becomes(Color!SelectFirst(v))
  BY DEF Color!DeviceRemoved
<1>4. d \in DOMAIN Config.color.Devices
  BY <1>1, <1>2 DEF ColorSignals
<1> HIDE DEF d
<1>5. /\ ColorForm(u) /\ u.c = calls /\ u.w = Color!Hearing.w /\ u.p.rows = ColorExtraRows(rows)
         /\ u.p.sel = panel.sel /\ u.p.current = panel.current
      /\ u.p.sensor = panel.sensor /\ u.p.tool = panel.tool /\ u.p.phase = panel.phase /\ u.p.closed = panel.closed
  <2> DEFINE p == [panel EXCEPT !.rows = rows]
             q == Color!UpdateDeviceListExtraEntry(p)
  <2>1. Color!RemoveDevice(Color!Hearing.p, d) = p
    BY <1>2 DEF Color!RemoveDevice
  <2>2. DOMAIN panel = ColorFields /\ DOMAIN panel.tool = ColorToolFields
    BY <1>2 DEF ColorForm
  <2> HIDE DEF rows
  <2>3. /\ DOMAIN p = ColorFields /\ p.rows = rows /\ p.sel = panel.sel /\ p.current = panel.current
           /\ p.sensor = panel.sensor
        /\ p.tool = panel.tool /\ p.phase = panel.phase /\ p.closed = panel.closed
    BY <2>2 DEF ColorFields
  <2> HIDE DEF p
  <2>4. q = [p EXCEPT !.rows = ColorExtraRows(@)]
    BY DEF Color!UpdateDeviceListExtraEntry, ColorExtraRows
  <2>5. /\ DOMAIN q = ColorFields /\ q.rows = ColorExtraRows(rows) /\ q.sel = panel.sel
           /\ q.current = panel.current /\ q.sensor = panel.sensor
        /\ q.tool = panel.tool /\ q.phase = panel.phase /\ q.closed = panel.closed
    BY <2>3, <2>4 DEF ColorFields
  <2>6. u = [Color!Hearing EXCEPT !.p = q]
    BY <2>1
  <2> HIDE DEF q, u
  <2> QED
    BY <1>2, <2>2, <2>5, <2>6 DEF ColorForm
<1> HIDE DEF u, rows
<1>6. ColorOfDevices(panel.rows) /\ (~world.early => ColorOneEach(panel.rows))
  BY <1>2 DEF ColorOpen, ColorRowsOK
<1>7. /\ ColorOfDevices(rows)
      /\ \A k \in DOMAIN rows : \E i \in DOMAIN panel.rows : rows[k] = panel.rows[i]
      /\ ColorOneEach(panel.rows) => ColorOneEach(rows)
         /\ \A x : ColorShown(rows, x) <=> ColorShown(panel.rows, x) /\ x # d
  BY <1>6, ColorRowsWithout DEF rows
<1>8. /\ ColorOfDevices(u.p.rows)
      /\ (\A i \in DOMAIN panel.rows : panel.rows[i].dev = Color!None) =>
         \A i \in DOMAIN u.p.rows : u.p.rows[i].dev = Color!None
      /\ ~world.early => ColorOneEach(u.p.rows)
         /\ \A x \in DOMAIN Config.color.Devices : ColorShown(u.p.rows, x) <=> ColorShown(panel.rows, x) /\ x # d
  <2>1. /\ ColorOfDevices(u.p.rows)
        /\ (\A i \in DOMAIN rows : rows[i].dev = Color!None) =>
           \A i \in DOMAIN u.p.rows : u.p.rows[i].dev = Color!None
        /\ ColorOneEach(rows) => ColorOneEach(u.p.rows)
           /\ \A x \in DOMAIN Config.color.Devices : ColorShown(u.p.rows, x) <=> ColorShown(rows, x)
    BY <1>5, <1>7, ColorRowsExtra
  <2> QED
    BY <1>6, <1>7, <2>1
<1>9. ColorRowsOK(u) /\ ColorSelects(u)
  BY <1>2, <1>5, <1>8 DEF ColorRowsOK, ColorOpen, ColorSelects
<1>10. ColorMirrors(u)
  <2> SUFFICES ASSUME ~world.early PROVE \E x \in SUBSET DOMAIN Config.color.Devices : ColorHolds(u, x)
    BY <1>2, <1>5 DEF ColorMirrors
  <2>1. PICK has \in SUBSET DOMAIN Config.color.Devices : ColorHolds(Color!State, has)
    BY <1>2 DEF ColorOpen, ColorMirrors
  <2> DEFINE had == has \ {d}
  <2>2. had \in SUBSET DOMAIN Config.color.Devices
        /\ \A x \in DOMAIN Config.color.Devices : x \in had <=> x \in has /\ x # d
    OBVIOUS
  <2>3. \A x \in had : x \in has /\ x # d /\ x \in DOMAIN Config.color.Devices
    OBVIOUS
  <2> HIDE DEF had
  <2>4. ColorAccounts(u.w, had, 0)
    <3>1. u.w.said = Tail(world.said) /\ DOMAIN u.w.dev = DOMAIN world.dev
      BY <1>2, <1>5
    <3>2. ColorAccounts(world, has, 0) /\ ColorTold(world)
      BY <1>2, <2>1 DEF ColorOpen, ColorHolds
    <3>3. \A x \in DOMAIN Config.color.Devices : x \in had <=> x \in has /\ x # world.said[1].dev
      BY <2>2 DEF d
    <3> QED
      BY <1>1, <1>2, <3>1, <3>2, <3>3, ColorHeardOne
  <2>5. /\ \A x \in DOMAIN Config.color.Devices : ColorShown(u.p.rows, x) => x \in had /\ x \notin u.w.lost
        /\ u.p.phase = "listed" => \A x \in had : ColorShown(u.p.rows, x) \/ x \in u.w.lost
    BY <1>2, <1>5, <1>8, <2>1, <2>2, <2>3 DEF ColorHolds
  <2> QED
    BY <2>2, <2>4, <2>5 DEF ColorHolds
<1>11. ColorListed(u.w.said) => ColorListed(world.said)
  <2>1. \A i \in DOMAIN Tail(world.said) : i + 1 \in DOMAIN world.said /\ Tail(world.said)[i] = world.said[i + 1]
    BY <1>2
  <2>2. ColorListed(Tail(world.said)) => ColorListed(world.said)
    BY <2>1 DEF ColorListed
  <2> QED
    BY <1>2, <1>5, <2>2
<1>12. ColorSound(u)
  <2>1. u.p.tool.calSens = Color!CanCalibrate(u.p.current, u.p.sensor)
    BY <1>2, <1>5 DEF ColorOpen, ColorSenses
  <2>2. /\ u.c = Color!State.c /\ u.w.said = Tail(Color!State.w.said)
           /\ DOMAIN u.w.dev = DOMAIN Color!State.w.dev /\ u.w.sensors = Color!State.w.sensors
        /\ ~Color!State.p.closed /\ Color!State.w.said # <<>>
    BY <1>1, <1>2, <1>5
  <2>3. /\ IF Color!State.w.said[1].kind = "sensor" THEN u.w.plugged => u.p.sensor = ColorFirstSensor(Color!State.w)
           ELSE u.p.sensor = Color!State.p.sensor /\ u.w.plugged = Color!State.w.plugged
        /\ u.p.phase = IF Color!State.w.said[1].kind = "list" THEN "listed" ELSE Color!State.p.phase
    BY <1>1, <1>2, <1>5
  <2>4. (ColorAsked(Color!State.c, "list") \/ ColorListed(u.w.said)) /\ ~u.w.early =>
        \A i \in DOMAIN u.p.rows : u.p.rows[i].dev = Color!None
    BY <1>2, <1>5, <1>8, <1>11 DEF ColorOpen, ColorListing
  <2> QED
    BY <1>5, <1>9, <1>10, <2>1, <2>2, <2>3, <2>4, ColorHeardSound
<1>13. ColorSound(v) /\ v.p.closed = panel.closed /\ v.p.phase = panel.phase
  BY <1>2, <1>3, <1>5, <1>12, ColorSettledSound
<1>14. ColorSound(Color!SelectFirst(v))
  BY <1>2, <1>13, ColorFirstSound
<1> QED
  BY <1>3, <1>14, ColorBecomesSound
\* The profiles of a device are said to have changed.
LEMMA ColorDeviceChangedSound ==
  ASSUME ColorSound(Color!State), Color!DeviceChangedCb
  PROVE  ColorSound(Color!State)'
<1> DEFINE d == world.said[1].dev
           known == IF d \in DOMAIN world.dev THEN world.dev[d].profs ELSE panel.known[d]
           p == [panel EXCEPT !.known[d] = known]
           rows == [i \in DOMAIN panel.rows |-> IF panel.rows[i].dev = d
           THEN Color!DeviceSetModelByIter(panel.rows[i], p.known[d]) ELSE panel.rows[i]]
           u == [Color!Hearing EXCEPT !.p = Color!DeviceChanged([@ EXCEPT !.known[d] = known], d)]
<1>1. world.said # <<>> /\ world.said[1].kind = "changed"
  BY DEF Color!DeviceChangedCb, Color!Heard
<1>2. Color!State.p = panel /\ Color!State.c = calls /\ Color!State.w = world /\ ColorForm(Color!State)
      /\ DOMAIN panel = ColorFields
  BY DEF Color!State, ColorSound, ColorForm
<1>3. Color!Hearing.p = panel /\ Color!Hearing.c = calls /\ ColorForm(Color!Hearing)
  <2>1. Color!Hearing = [Color!State EXCEPT !.w.said = Tail(@)]
    BY DEF Color!Hearing
  <2> QED
    BY <1>2, <2>1 DEF ColorForm, ColorWorldFields
<1>4. CASE panel.closed /\ Color!Becomes(Color!Hearing)
  <2>1. ColorSound(Color!Hearing)
    BY <1>3, <1>4 DEF ColorSound
  <2> QED
    BY <1>4, <2>1, ColorBecomesSound
<1>5. CASE panel.closed /\ Color!Becomes([Color!Hearing EXCEPT !.p.broken = TRUE])
  <2> DEFINE t == [Color!Hearing EXCEPT !.p.broken = TRUE]
  <2>1. ColorForm(t) /\ t.p.closed = panel.closed
    BY <1>3 DEF ColorForm, ColorFields
  <2>2. ColorSound(t)
    BY <1>5, <2>1 DEF ColorSound
  <2> HIDE DEF t
  <2>3. Color!Becomes(t)
    BY <1>5 DEF t
  <2> QED
    BY <2>2, <2>3, ColorBecomesSound
<1>6. CASE ~panel.closed /\ Color!Becomes(Color!Hearing)
  <2>1. ColorOpen(Color!State) /\ panel.phase # "connecting"
    BY <1>1, <1>6, ColorHearingIs
  <2>2. /\ ColorOfDevices(Color!Hearing.p.rows) /\ ColorSelects(Color!Hearing)
           /\ Color!Hearing.p.tool.calSens = Color!CanCalibrate(Color!Hearing.p.current, Color!Hearing.p.sensor)
        /\ Color!Hearing.p.sensor = panel.sensor /\ Color!Hearing.w.plugged = world.plugged
    BY <1>1, <1>2, <1>3, <1>6, <2>1, ColorHearingIs DEF ColorOpen, ColorRowsOK, ColorSelects, ColorSenses
  <2>3. ColorSound(Color!Hearing)
    BY <1>1, <1>3, <1>6, <2>2, ColorHeardSame
  <2> QED
    BY <1>6, <2>3, ColorBecomesSound
<1>7. CASE ~panel.closed /\ \E t \in Color!Settled(u) : Color!Becomes(t)
  <2>1. PICK v \in Color!Settled(u) : Color!Becomes(v)
    BY <1>7
  <2>2. ColorOpen(Color!State) /\ panel.phase # "connecting" /\ ColorOfDevices(panel.rows)
    BY <1>1, <1>2, <1>7, ColorHearingIs DEF ColorOpen, ColorRowsOK
  <2> HIDE DEF known, d
  <2>3. /\ DOMAIN p = ColorFields /\ p.rows = panel.rows /\ p.sel = panel.sel /\ p.current = panel.current
           /\ p.sensor = panel.sensor
        /\ p.tool = panel.tool /\ p.phase = panel.phase /\ p.closed = panel.closed
    BY <1>2 DEF ColorFields
  <2> DEFINE q == Color!DeviceChanged(p, d)
  <2>4. u = [Color!Hearing EXCEPT !.p = q]
    BY <1>3
  <2>5. q = [p EXCEPT !.rows = rows]
    BY <2>3 DEF Color!DeviceChanged
  <2>6. /\ ColorOfDevices(rows) /\ DOMAIN rows = DOMAIN panel.rows
           /\ \A i \in DOMAIN panel.rows : rows[i].dev = panel.rows[i].dev
    <3>1. \A i \in DOMAIN panel.rows : "dev" \in DOMAIN rows[i] /\ rows[i].dev = panel.rows[i].dev
      <4>1. ASSUME NEW i \in DOMAIN panel.rows PROVE "dev" \in DOMAIN rows[i] /\ rows[i].dev = panel.rows[i].dev
        <5>1. "dev" \in DOMAIN panel.rows[i]
          BY <2>2 DEF ColorOfDevices
        <5> QED
          BY <5>1, ColorWrittenRow
      <4> QED
        BY <4>1
    <3>2. ColorIsList(rows)
      <4> DEFINE n == Len(panel.rows)
                 T == {rows[i] : i \in 1..n}
      <4>1. n \in Nat /\ DOMAIN panel.rows = 1..n
        BY <2>2 DEF ColorOfDevices, ColorIsList
      <4>2. rows \in [1..n -> T]
        BY <4>1
      <4> HIDE DEF n, T, rows
      <4>3. rows \in Seq(T)
        BY <4>1, <4>2
      <4> QED
        BY <4>3, ColorListIs
    <3>3. DOMAIN rows = DOMAIN panel.rows
      OBVIOUS
    <3> HIDE DEF rows
    <3> QED
      BY <2>2, <3>1, <3>2, <3>3 DEF ColorOfDevices
  <2> HIDE DEF p, rows
  <2>7. /\ DOMAIN q = ColorFields /\ q.rows = rows /\ q.sel = panel.sel /\ q.current = panel.current
           /\ q.sensor = panel.sensor
        /\ q.tool = panel.tool /\ q.phase = panel.phase /\ q.closed = panel.closed
    BY <2>3, <2>5 DEF ColorFields
  <2> HIDE DEF q, u
  <2>8. ColorForm(u) /\ u.c = calls /\ u.w = Color!Hearing.w /\ u.p = q
    BY <1>2, <1>3, <2>4, <2>7 DEF ColorForm
  <2>9. u.w.plugged = world.plugged
    BY <1>1, <1>7, <2>8, ColorHearingIs
  <2>10. ColorSelects(u) /\ u.p.tool.calSens = Color!CanCalibrate(u.p.current, u.p.sensor)
    BY <1>2, <2>2, <2>7, <2>8 DEF ColorOpen, ColorSelects, ColorSenses
  <2>11. ColorSound(u)
    BY <1>1, <1>7, <2>6, <2>7, <2>8, <2>10, <2>9, ColorHeardSame
  <2>12. ColorSound(v)
    BY <2>1, <2>2, <2>7, <2>8, <2>11, ColorSettledSound
  <2> QED
    BY <2>1, <2>12, ColorBecomesSound
<1>8. \/ Color!Becomes(Color!Hearing)
      \/ panel.closed /\ Color!Becomes([Color!Hearing EXCEPT !.p.broken = TRUE])
      \/ ~panel.closed /\ \E t \in Color!Settled(u) : Color!Becomes(t)
  BY DEF Color!DeviceChangedCb
<1> QED
  BY <1>4, <1>5, <1>6, <1>7, <1>8

\* A sensor is said to have come or gone.
LEMMA ColorSensorSound ==
  ASSUME ColorSound(Color!State), ~panel.closed, NEW how, Color!ClientSensorChanged(how)
  PROVE  ColorSound(Color!State)'
<1> DEFINE a == Color!SensorColdplug(Color!Hearing, how)
           t == [a EXCEPT !.p = Color!SetCalibrateButtonSensitivity(@)]
<1>1. world.said # <<>> /\ world.said[1].kind = "sensor" /\ Color!Becomes(t)
  BY DEF Color!ClientSensorChanged, Color!Heard
<1>2. /\ Color!Hearing.p = panel /\ Color!Hearing.c = calls /\ ColorForm(Color!Hearing)
         /\ Color!Hearing.w.sensors = world.sensors
      /\ ColorOpen(Color!State) /\ Color!State.p = panel /\ Color!State.c = calls /\ Color!State.w = world
         /\ panel.phase # "connecting"
  BY <1>1, ColorHearingIs
<1>3. /\ ColorForm(a) /\ a.c = calls /\ a.w.said = Color!Hearing.w.said /\ a.w.dev = Color!Hearing.w.dev
      /\ a.w.sensors = Color!Hearing.w.sensors /\ a.w.early = Color!Hearing.w.early
      /\ a.w.lost = Color!Hearing.w.lost /\ (a.w.plugged => a.p.sensor = ColorFirstSensor(world))
      /\ a.p.rows = panel.rows /\ a.p.sel = panel.sel
         /\ a.p.current = panel.current
      /\ a.p.tool = panel.tool /\ a.p.phase = panel.phase
         /\ a.p.closed = panel.closed
  BY <1>2 DEF ColorForm, ColorFields, ColorWorldFields, Color!SensorColdplug, ColorFirstSensor
<1> DEFINE q == Color!SetCalibrateButtonSensitivity(a.p)
<1>4. t = [a EXCEPT !.p = q]
  OBVIOUS
<1> HIDE DEF a
<1>5. q = [a.p EXCEPT !.tool.calSens = Color!CanCalibrate(a.p.current, a.p.sensor)]
  BY DEF Color!SetCalibrateButtonSensitivity
<1>6. /\ DOMAIN q = ColorFields /\ q.rows = panel.rows /\ q.sel = panel.sel /\ q.current = panel.current
         /\ q.sensor = a.p.sensor
      /\ q.phase = panel.phase /\ q.closed = panel.closed
      /\ DOMAIN q.tool = ColorToolFields /\ q.tool.calSens = Color!CanCalibrate(a.p.current, a.p.sensor)
         /\ q.tool.bar = panel.tool.bar
      /\ q.tool.remove = panel.tool.remove
  BY <1>3, <1>5 DEF ColorForm, ColorFields, ColorToolFields
<1> HIDE DEF q
<1>7. ColorForm(t) /\ t.c = calls /\ t.w = a.w /\ t.p = q
  BY <1>3, <1>4, <1>6 DEF ColorForm
<1> HIDE DEF t
<1>8. ColorSelects(t) /\ t.p.tool.calSens = Color!CanCalibrate(t.p.current, t.p.sensor) /\ ColorOfDevices(t.p.rows)
  BY <1>2, <1>3, <1>6, <1>7 DEF ColorOpen, ColorSelects, ColorRowsOK
<1>9. ColorSound(t)
  BY <1>1, <1>3, <1>6, <1>7, <1>8, ColorHeardSame
<1> QED
  BY <1>1, <1>9, ColorBecomesSound

\* A signal nobody listens to.
LEMMA ColorIgnoredSound ==
  ASSUME ColorSound(Color!State), Color!Ignored
  PROVE  ColorSound(Color!State)'
<1>1. Color!State.p = panel /\ ColorForm(Color!State) /\ Color!Hearing = [Color!State EXCEPT !.w.said = Tail(@)]
  BY DEF Color!State, ColorSound, Color!Hearing
<1>2. Color!Hearing.p = panel /\ ColorForm(Color!Hearing)
  BY <1>1 DEF ColorForm, ColorWorldFields
<1>3. ColorSound(Color!Hearing) /\ Color!Becomes(Color!Hearing)
  BY <1>2 DEF ColorSound, Color!Ignored
<1> QED
  BY <1>3, ColorBecomesSound
\* A call is answered, and nothing comes of it.
LEMMA ColorAnsweredSound ==
  ASSUME ColorSound(Color!State), NEW i \in DOMAIN calls
  PROVE  ColorSound(Color!Answered(i)) /\ Color!Answered(i).p = panel /\ Color!Answered(i).w = world
         /\ Color!Answered(i).c = Color!RemoveAt(calls, i)
<1> DEFINE t == Color!Answered(i)
<1>1. Color!State.p = panel /\ Color!State.c = calls /\ Color!State.w = world /\ ColorForm(Color!State)
  BY DEF Color!State, ColorSound
<1>2. Color!Answered(i) = [Color!State EXCEPT !.c = Color!RemoveAt(@, i)]
  BY DEF Color!Answered
<1>3. ColorForm(t) /\ t.p = panel /\ t.w = world /\ t.c = Color!RemoveAt(calls, i)
  BY <1>1, <1>2 DEF ColorForm
<1>4. ~panel.closed => ColorCallsFine(Color!State.c, t.c)
  <2>1. ~panel.closed => ColorAsks(Color!State)
    BY <1>1 DEF ColorSound, ColorOpen
  <2> QED
    BY <1>1, <1>3, <2>1, ColorAnswerFine
<1> HIDE DEF t
<1>5. ColorSame(Color!State, t)
  BY <1>1, <1>3, <1>4 DEF ColorSame
<1>6. ColorSound(t)
  BY <1>5, ColorSameSound
<1> QED
  BY <1>3, <1>6 DEF t

\* The client is there, or is not.
LEMMA ColorConnectSound ==
  ASSUME ColorSound(Color!State), NEW i, NEW ok, NEW how, Color!Connect(i, ok, how)
  PROVE  ColorSound(Color!State)'
<1> DEFINE a == Color!Answered(i)
<1>1. i \in DOMAIN calls /\ calls[i].kind = "connect"
  BY DEF Color!Connect, Color!At
<1>2. ColorSound(a) /\ a.p = panel /\ a.w = world /\ a.c = Color!RemoveAt(calls, i)
  BY <1>1, ColorAnsweredSound
<1>3. Color!State.p = panel /\ Color!State.c = calls /\ Color!State.w = world
  BY DEF Color!State
<1> HIDE DEF a
<1>4. CASE panel.closed
  <2> DEFINE t == [a EXCEPT !.p.broken = TRUE]
  <2>1. Color!Becomes(t)
    BY <1>4 DEF Color!Connect, a
  <2>2. ColorForm(t) /\ t.p.closed = panel.closed
    BY <1>2 DEF ColorSound, ColorForm, ColorFields
  <2> HIDE DEF t
  <2>3. ColorSound(t)
    BY <1>4, <2>2 DEF ColorSound
  <2> QED
    BY <2>1, <2>3, ColorBecomesSound
<1>5. ASSUME ~panel.closed
      PROVE  /\ ColorOpen(a) /\ ColorOpen(Color!State) /\ panel.phase = "connecting" /\ world.said = <<>>
                /\ panel.rows = <<>> /\ panel.sel = Color!NoRow /\ panel.current = Color!None
             /\ \A j \in DOMAIN a.c : a.c[j].kind \notin {"connect", "list"}
  <2>1. ColorOpen(a) /\ ColorOpen(Color!State)
    BY <1>2, <1>3, <1>5 DEF ColorSound
  <2>2. panel.phase = "connecting"
    BY <1>1, <1>3, <2>1 DEF ColorOpen, ColorAsks, ColorAsked
  <2>3. \A j \in DOMAIN a.c : a.c[j].kind \notin {"connect", "list"}
    BY <1>1, <1>2, <1>3, <2>1, ColorAnswerFine DEF ColorOpen
  <2> QED
    BY <1>3, <2>1, <2>2, <2>3 DEF ColorOpen, ColorTyped
<1>6. CASE ~panel.closed /\ ~ok
  <2> DEFINE t == [a EXCEPT !.p.phase = "failed"]
  <2>1. Color!Becomes(t)
    BY <1>6 DEF Color!Connect, a
  <2>2. /\ ColorForm(t) /\ t.c = a.c /\ t.w = world /\ t.p.rows = panel.rows /\ t.p.sel = panel.sel
           /\ t.p.current = panel.current
        /\ t.p.sensor = panel.sensor /\ t.p.tool = panel.tool /\ t.p.phase = "failed" /\ t.p.closed = panel.closed
    BY <1>2 DEF ColorSound, ColorForm, ColorFields
  <2> HIDE DEF t
  <2>3. ColorTyped(t) /\ ColorRowsOK(t) /\ ColorSelects(t) /\ ColorSenses(t)
    BY <1>2, <1>5, <1>6, <2>2 DEF ColorOpen, ColorTyped, ColorRowsOK, ColorSelects, ColorSenses
  <2>4. ColorAsks(t) /\ ColorTold(t.w) /\ ColorListing(t)
    BY <1>2, <1>5, <1>6, <2>2 DEF ColorOpen, ColorAsks, ColorListing, ColorAsked, ColorListed
  <2>5. ColorMirrors(t)
    <3>1. \A has : ColorHolds(a, has) => ColorHolds(t, has)
      BY <1>2, <2>2 DEF ColorHolds
    <3> QED
      BY <1>2, <1>5, <1>6, <2>2, <3>1 DEF ColorOpen, ColorMirrors
  <2>6. ColorSound(t)
    BY <2>2, <2>3, <2>4, <2>5 DEF ColorSound, ColorOpen
  <2> QED
    BY <2>1, <2>6, ColorBecomesSound
<1>7. CASE ~panel.closed /\ ok
  <2> DEFINE b == [a EXCEPT !.p.phase = "connected"]
             c == Color!SensorColdplug(b, how)
             t == Color!Call(c, "list", Color!None, Color!None)
             x == [kind |-> "list", dev |-> Color!None, what |-> Color!None]
  <2>1. Color!Becomes(t)
    BY <1>7 DEF Color!Connect, a
  <2>2. /\ ColorForm(b) /\ b.c = a.c /\ b.w = world /\ b.p.rows = panel.rows /\ b.p.sel = panel.sel
           /\ b.p.current = panel.current
        /\ b.p.tool = panel.tool /\ b.p.phase = "connected" /\ b.p.closed = panel.closed
    BY <1>2 DEF ColorSound, ColorForm, ColorFields
  <2> HIDE DEF b
  <2>3. /\ ColorForm(c) /\ c.c = a.c /\ c.w.said = world.said /\ c.w.dev = world.dev /\ c.w.sensors = world.sensors
        /\ c.w.early = world.early /\ c.w.lost = world.lost
        /\ c.p.rows = panel.rows /\ c.p.sel = panel.sel
           /\ c.p.current = panel.current
        /\ c.p.tool = panel.tool /\ c.p.phase = "connected" /\ c.p.closed = panel.closed
        /\ c.w.plugged => c.p.sensor = ColorFirstSensor(world)
    BY <2>2 DEF Color!SensorColdplug, ColorFirstSensor, ColorForm, ColorFields, ColorWorldFields
  <2> HIDE DEF c
  <2>4. ColorForm(t) /\ t.c = Append(a.c, x) /\ t.p = c.p /\ t.w = c.w
    BY <2>3 DEF Color!Call, ColorForm
  <2> HIDE DEF t
  <2>5. /\ ColorIsList(Append(a.c, x)) /\ Len(a.c) \in Nat /\ DOMAIN a.c = 1..Len(a.c)
        /\ DOMAIN Append(a.c, x) = 1..Len(a.c) + 1
        /\ \A j \in DOMAIN a.c : Append(a.c, x)[j] = a.c[j]
        /\ Append(a.c, x)[Len(a.c) + 1] = x
    BY <1>5, <1>7, ColorListGrows DEF ColorOpen, ColorAsks
  <2>6. x.kind = "list"
    OBVIOUS
  <2>7. /\ ColorIsList(t.c) /\ Len(a.c) \in Nat /\ DOMAIN t.c = 1..Len(a.c) + 1
        /\ \A j \in DOMAIN t.c : t.c[j].kind \in {"connect", "list"} => j = Len(a.c) + 1 /\ t.c[j].kind = "list"
    <3> HIDE DEF x
    <3> QED
      BY <1>5, <1>7, <2>4, <2>5, <2>6
  <2>8. ColorTyped(t) /\ ColorRowsOK(t) /\ ColorSelects(t)
    BY <1>2, <1>5, <1>7, <2>3, <2>4 DEF ColorOpen, ColorTyped, ColorRowsOK, ColorSelects, Color!NoRow
  <2>9. ColorSenses(t)
    <3>1. ~t.p.tool.calSens /\ t.p.current = Color!None
      BY <1>2, <1>3, <1>5, <1>7, <2>3, <2>4 DEF ColorOpen, ColorSenses, Color!CanCalibrate
    <3>2. t.p.tool.calSens = Color!CanCalibrate(t.p.current, t.p.sensor)
      <4>1. panel.tool.calSens = Color!CanCalibrate(Color!None, panel.sensor)
        BY <1>3, <1>5, <1>7 DEF ColorOpen, ColorSenses
      <4>2. Color!CanCalibrate(Color!None, panel.sensor) = FALSE
            /\ Color!CanCalibrate(Color!None, t.p.sensor) = FALSE
        BY DEF Color!CanCalibrate
      <4> QED
        BY <2>3, <2>4, <3>1, <4>1, <4>2
    <3> QED
      BY <2>3, <2>4, <3>2 DEF ColorSenses, ColorFirstSensor
  <2>10. ColorAsks(t)
    BY <1>5, <1>7, <2>3, <2>4, <2>7 DEF ColorAsks, ColorAsked, ColorListed
  <2>11. ColorTold(t.w)
    BY <1>5, <1>7, <2>3, <2>4 DEF ColorTold
  <2>12. ColorListing(t)
    BY <1>5, <1>7, <2>3, <2>4 DEF ColorListing
  <2>13. ColorMirrors(t)
    <3>1. \A has : ColorAccounts(a.w, has, 0) => ColorAccounts(t.w, has, 0)
      BY <1>2, <2>3, <2>4 DEF ColorAccounts
    <3>2. \A has : ColorHolds(a, has) => ColorHolds(t, has)
      BY <1>2, <1>5, <1>7, <2>3, <2>4, <3>1 DEF ColorHolds
    <3> QED
      BY <1>2, <1>5, <1>7, <2>3, <2>4, <3>2 DEF ColorOpen, ColorMirrors
  <2>14. ColorSound(t)
    BY <2>4, <2>8, <2>9, <2>10, <2>11, <2>12, <2>13 DEF ColorSound, ColorOpen
  <2> QED
    BY <2>1, <2>14, ColorBecomesSound
<1> QED
  BY <1>4, <1>6, <1>7

\* Colord gives the list of its devices, behind what it said before.
LEMMA ColordListsSound ==
  ASSUME ColorSound(Color!State), NEW i, NEW ok, Color!ColordLists(i, ok)
  PROVE  ColorSound(Color!State)'
<1> DEFINE a == Color!Answered(i)
           x == Color!Signal("list", Color!None, DOMAIN world.dev)
           t == [a EXCEPT !.w.said = Append(@, x)]
<1>1. i \in DOMAIN calls /\ calls[i].kind = "list"
  BY DEF Color!ColordLists, Color!At
<1>2. ColorSound(a) /\ a.p = panel /\ a.w = world /\ a.c = Color!RemoveAt(calls, i)
  BY <1>1, ColorAnsweredSound
<1>3. Color!State.p = panel /\ Color!State.c = calls /\ Color!State.w = world
  BY DEF Color!State
<1>4. CASE ~ok
  <2>1. Color!Becomes(a)
    BY <1>4 DEF Color!ColordLists
  <2> QED
    BY <1>2, <2>1, ColorBecomesSound
<1>5. CASE ok
  <2>1. Color!Becomes(t)
    BY <1>2, <1>5 DEF Color!ColordLists
  <2> HIDE DEF a
  <2>2. /\ ColorForm(t) /\ t.p = panel /\ t.c = a.c /\ t.w.said = Append(world.said, x) /\ t.w.dev = world.dev
           /\ t.w.sensors = world.sensors
        /\ t.w.early = world.early /\ t.w.lost = world.lost /\ t.w.plugged = world.plugged
    BY <1>2 DEF ColorSound, ColorForm, ColorWorldFields
  <2> HIDE DEF t
  <2>3. ASSUME ~panel.closed PROVE ColorOpen(t)
    <3>1. ColorOpen(a) /\ ColorOpen(Color!State)
      BY <1>2, <1>3, <2>3 DEF ColorSound
    <3>2. panel.phase = "connected" /\ ~ColorListed(world.said) /\ ColorAsked(calls, "list")
      BY <1>1, <1>3, <3>1 DEF ColorOpen, ColorAsks, ColorAsked
    <3>3. \A j \in DOMAIN a.c : a.c[j].kind \notin {"connect", "list"}
      BY <1>1, <1>2, <1>3, <3>1, ColorAnswerFine DEF ColorOpen
    <3>4. world.said \in Seq(ColorSignals) /\ DOMAIN world.dev \subseteq DOMAIN Config.color.Devices
      BY <1>3, <3>1 DEF ColorOpen, ColorTyped
    <3>5. x \in ColorSignals /\ x.kind = "list" /\ x.devs = DOMAIN world.dev
      BY <3>4 DEF Color!Signal, ColorSignals
    <3> HIDE DEF x
    <3> DEFINE n == Len(world.said) + 1
    <3>6. /\ t.w.said \in Seq(ColorSignals) /\ Len(world.said) \in Nat
             /\ DOMAIN world.said = 1..Len(world.said) /\ DOMAIN t.w.said = 1..n
          /\ \A j \in DOMAIN world.said : j \in DOMAIN t.w.said /\ t.w.said[j] = world.said[j]
          /\ t.w.said[n] = x
      BY <2>2, <3>4, <3>5
    <3>7. \A j \in DOMAIN t.w.said : t.w.said[j].kind = "list" => j = n
      BY <3>2, <3>6 DEF ColorListed
    <3>8. ColorTold(t.w) /\ \A has, from : ColorAccounts(world, has, from) => ColorAccounts(t.w, has, from)
      <4>1. t.w.said[Len(world.said) + 1].kind \in {"changed", "sensor", "list"}
            /\ DOMAIN t.w.said = 1..Len(world.said) + 1
        BY <3>5, <3>6
      <4>2. (ColorTold(world) => ColorTold(t.w)) /\ \A has, from : ColorAccounts(world, has, from) =>
            ColorAccounts(t.w, has, from)
        BY <2>2, <3>6, <4>1, ColorToldOther
      <4> QED
        BY <1>3, <3>1, <4>2 DEF ColorOpen
    <3> HIDE DEF n
    <3>9. ColorTyped(t) /\ ColorRowsOK(t) /\ ColorSelects(t)
      BY <1>3, <2>2, <3>1, <3>2, <3>6 DEF ColorOpen, ColorTyped, ColorRowsOK, ColorSelects
    <3>10. ColorSenses(t)
      <4>1. ASSUME \A j \in DOMAIN t.w.said : t.w.said[j].kind # "sensor"
            PROVE \A j \in DOMAIN world.said : world.said[j].kind # "sensor"
        BY <3>6, <4>1
      <4> QED
        BY <1>3, <2>2, <3>1, <4>1 DEF ColorOpen, ColorSenses, ColorFirstSensor
    <3>11. ColorAsks(t)
      BY <1>2, <2>2, <3>1, <3>2, <3>3, <3>7 DEF ColorOpen, ColorAsks, ColorAsked, ColorListed
    <3>12. ColorListing(t)
      <4>1. ColorAccounts(t.w, DOMAIN world.dev, n)
        BY <2>2, <3>6 DEF ColorAccounts, n
      <4>2. \A l \in DOMAIN t.w.said : t.w.said[l].kind = "list" => l = n /\ t.w.said[l].devs = DOMAIN world.dev
        BY <3>5, <3>6, <3>7
      <4>3. ~world.early => \A j \in DOMAIN panel.rows : panel.rows[j].dev = Color!None
        BY <1>3, <3>1, <3>2 DEF ColorOpen, ColorListing
      <4> QED
        BY <2>2, <4>1, <4>2, <4>3 DEF ColorListing
    <3>13. ColorMirrors(t)
      <4>1. \A has : ColorHolds(Color!State, has) => ColorHolds(t, has)
        BY <1>3, <2>2, <3>8 DEF ColorHolds
      <4> QED
        BY <1>3, <2>2, <3>1, <4>1 DEF ColorOpen, ColorMirrors
    <3> QED
      BY <3>8, <3>9, <3>10, <3>11, <3>12, <3>13 DEF ColorOpen
  <2>4. ColorSound(t)
    BY <2>2, <2>3 DEF ColorSound
  <2> QED
    BY <2>1, <2>4, ColorBecomesSound
<1> QED
  BY <1>4, <1>5
\* What this is not about changes, and nothing is asked.
LEMMA ColorBesideSound ==
  ASSUME NEW s, ColorSound(s), NEW t, ColorForm(t), t.c = s.c, t.p.closed = s.p.closed, t.p.rows = s.p.rows,
         t.p.sel = s.p.sel,
         t.p.current = s.p.current, t.p.sensor = s.p.sensor, t.p.tool = s.p.tool, t.p.phase = s.p.phase,
         DOMAIN t.w.dev = DOMAIN s.w.dev, t.w.said = s.w.said, t.w.early = s.w.early /\ t.w.lost = s.w.lost
            /\ t.w.plugged = s.w.plugged, t.w.sensors = s.w.sensors
  PROVE  ColorSound(t)
<1>1. ~s.p.closed => ColorCallsFine(s.c, t.c)
  BY DEF ColorSound, ColorOpen, ColorAsks, ColorCallsFine
<1>2. ColorSame(s, t)
  BY <1>1 DEF ColorSame
<1> QED
  BY <1>2, ColorSameSound

\* The world but for its devices and signals, and the sensors.
LEMMA ColorWorldBeside ==
  ASSUME NEW s, ColorSound(s), NEW t, DOMAIN t = {"p", "c", "w"}, t.p = s.p, t.c = s.c,
         DOMAIN t.w = ColorWorldFields, t.w.dev = s.w.dev,
         t.w.said = s.w.said, t.w.early = s.w.early /\ t.w.lost = s.w.lost
            /\ t.w.plugged = s.w.plugged, t.w.sensors = s.w.sensors
  PROVE  ColorSound(t)
<1>1. ColorForm(t)
  BY DEF ColorSound, ColorForm
<1> QED
  BY <1>1, ColorBesideSound

\* The dialogs.
LEMMA ColorDialogsBeside ==
  ASSUME NEW s, ColorSound(s), NEW t, DOMAIN t = {"p", "c", "w"}, t.w = s.w, t.c = s.c,
         DOMAIN t.p = ColorFields, t.p.closed = s.p.closed,
         t.p.rows = s.p.rows, t.p.sel = s.p.sel,
         t.p.current = s.p.current, t.p.sensor = s.p.sensor, t.p.tool = s.p.tool, t.p.phase = s.p.phase
  PROVE  ColorSound(t)
<1>1. ColorForm(t)
  BY DEF ColorSound, ColorForm
<1> QED
  BY <1>1, ColorBesideSound

\* What the user asked for leaves the rest as it is.
LEMMA ColorByUserSound ==
  ASSUME NEW s, ColorSound(s), Color!ByUser(s)
  PROVE  ColorSound(Color!State)'
<1> DEFINE t == [s EXCEPT !.w.acts = @ + 1]
<1>1. /\ DOMAIN t = {"p", "c", "w"} /\ t.p = s.p /\ t.c = s.c /\ DOMAIN t.w = ColorWorldFields /\ t.w.dev = s.w.dev
      /\ t.w.said = s.w.said /\ t.w.early = s.w.early /\ t.w.lost = s.w.lost /\ t.w.plugged = s.w.plugged
         /\ t.w.sensors = s.w.sensors
  BY DEF ColorSound, ColorForm, ColorWorldFields
<1>2. Color!Becomes(t)
  BY DEF Color!ByUser
<1> HIDE DEF t
<1>3. ColorSound(t)
  BY <1>1, ColorWorldBeside
<1> QED
  BY <1>2, <1>3, ColorBecomesSound

\* What others did leaves the rest as it is.
LEMMA ColorByOthersSound ==
  ASSUME NEW s, ColorSound(s), Color!ByOthers(s)
  PROVE  ColorSound(Color!State)'
<1> DEFINE t == [s EXCEPT !.w.changes = @ + 1]
<1>1. /\ DOMAIN t = {"p", "c", "w"} /\ t.p = s.p /\ t.c = s.c /\ DOMAIN t.w = ColorWorldFields /\ t.w.dev = s.w.dev
      /\ t.w.said = s.w.said /\ t.w.early = s.w.early /\ t.w.lost = s.w.lost /\ t.w.plugged = s.w.plugged
         /\ t.w.sensors = s.w.sensors
  BY DEF ColorSound, ColorForm, ColorWorldFields
<1>2. Color!Becomes(t)
  BY DEF Color!ByOthers
<1> HIDE DEF t
<1>3. ColorSound(t)
  BY <1>1, ColorWorldBeside
<1> QED
  BY <1>2, <1>3, ColorBecomesSound

\* A program runs, or what installs it is asked for.
LEMMA ColorRunSound ==
  ASSUME NEW s, ColorSound(s), NEW tool, NEW of, NEW there
  PROVE  ColorSound(Color!Run(s, tool, of, there))
<1>1. CASE there
  <2> DEFINE t == [s EXCEPT !.w.ran = [tool |-> tool, of |-> of]]
  <2>1. /\ DOMAIN t = {"p", "c", "w"} /\ t.p = s.p /\ t.c = s.c /\ DOMAIN t.w = ColorWorldFields
           /\ t.w.dev = s.w.dev
        /\ t.w.said = s.w.said /\ t.w.early = s.w.early /\ t.w.lost = s.w.lost /\ t.w.plugged = s.w.plugged
           /\ t.w.sensors = s.w.sensors
    BY DEF ColorSound, ColorForm, ColorWorldFields
  <2>2. Color!Run(s, tool, of, there) = t
    BY <1>1 DEF Color!Run
  <2> HIDE DEF t
  <2> QED
    BY <2>1, <2>2, ColorWorldBeside
<1>2. CASE ~there
  <2>1. Color!Run(s, tool, of, there) = Color!Call(s, "installer", of, tool)
    BY <1>2 DEF Color!Run
  <2> QED
    BY <2>1, ColorCallSound
<1> QED
  BY <1>1, <1>2

\* An entry of the dialog is made active.
LEMMA ColorComboSound ==
  ASSUME NEW s, ColorSound(s), NEW i
  PROVE  ColorSound(Color!ComboSetActive(s, i)) /\ Color!ComboSetActive(s, i).p.closed = s.p.closed
<1>1. CASE s.p.assign.active = i
  BY <1>1 DEF Color!ComboSetActive
<1>2. CASE s.p.assign.active # i
  <2> DEFINE asks == s.p.current # Color!None /\ s.p.assign.entries[i] = Color!Import
             chooser == s.p.chooser \/ asks
             t == [s EXCEPT !.p.assign.active = i, !.p.chooser = chooser]
  <2>1. Color!ComboSetActive(s, i) = t
    BY <1>2 DEF Color!ComboSetActive
  <2> HIDE DEF chooser
  <2>2. /\ DOMAIN t = {"p", "c", "w"} /\ t.w = s.w /\ t.c = s.c /\ DOMAIN t.p = ColorFields
           /\ t.p.closed = s.p.closed
        /\ t.p.rows = s.p.rows /\ t.p.sel = s.p.sel
        /\ t.p.current = s.p.current /\ t.p.sensor = s.p.sensor /\ t.p.tool = s.p.tool /\ t.p.phase = s.p.phase
    BY DEF ColorSound, ColorForm, ColorFields
  <2> HIDE DEF t
  <2>3. ColorSound(t)
    BY <2>2, ColorDialogsBeside
  <2> QED
    BY <2>1, <2>2, <2>3
<1> QED
  BY <1>1, <1>2

\* The other answers.
LEMMA ColorOtherAnswers ==
  ASSUME ColorSound(Color!State), NEW i, NEW ok,
         Color!MakeProfileDefaultDone(i, ok) \/ Color!PackagekitProxyReady(i, ok)
         \/ Color!PackagekitFinished(i, ok) \/ Color!ComboSetDefault(i)
  PROVE  ColorSound(Color!State)'
<1>1. i \in DOMAIN calls
  BY DEF Color!MakeProfileDefaultDone, Color!PackagekitProxyReady, Color!PackagekitFinished,
     Color!ComboSetDefault, Color!At
<1> DEFINE a == Color!Answered(i)
<1>2. ColorSound(a) /\ a.p = panel /\ a.w = world
  BY <1>1, ColorAnsweredSound
<1>3. ASSUME Color!Becomes(a) PROVE ColorSound(Color!State)'
  BY <1>2, <1>3, ColorBecomesSound
<1>4. CASE Color!MakeProfileDefaultDone(i, ok)
  <2>1. PICK profs, hard, d : Color!Becomes(a)
        \/ (d \in DOMAIN world.dev /\ Color!Becomes(Color!Give(a, d, profs, hard)))
    BY <1>4 DEF Color!MakeProfileDefaultDone
  <2>2. CASE d \in DOMAIN world.dev /\ Color!Becomes(Color!Give(a, d, profs, hard))
    <3>1. ~a.p.closed => d \in DOMAIN Config.color.Devices
      BY <1>2, <2>2 DEF ColorSound, ColorOpen, ColorTyped
    <3> HIDE DEF a
    <3>2. ColorSound(Color!Give(a, d, profs, hard))
      BY <1>2, <3>1, ColorGiveSound
    <3> QED
      BY <2>2, <3>2, ColorBecomesSound
  <2> QED
    BY <1>3, <2>1, <2>2
<1>5. CASE Color!PackagekitProxyReady(i, ok)
  <2>1. PICK dev, what : Color!Becomes(a) \/ Color!Becomes(Color!Call(a, "install", dev, what))
    BY <1>5 DEF Color!PackagekitProxyReady
  <2> HIDE DEF a
  <2>2. ColorSound(Color!Call(a, "install", dev, what))
    BY <1>2, ColorCallSound
  <2> QED
    BY <1>3, <2>1, <2>2, ColorBecomesSound
<1>6. CASE Color!PackagekitFinished(i, ok)
  <2>1. PICK tool, of : Color!Becomes(a) \/ Color!Becomes(Color!Run(a, tool, of, TRUE))
    BY <1>6 DEF Color!PackagekitFinished
  <2> HIDE DEF a
  <2>2. ColorSound(Color!Run(a, tool, of, TRUE))
    BY <1>2, ColorRunSound
  <2> QED
    BY <1>3, <2>1, <2>2, ColorBecomesSound
<1>7. CASE Color!ComboSetDefault(i)
  <2>1. Color!Becomes(Color!ComboSetActive(a, 1))
    BY <1>7 DEF Color!ComboSetDefault
  <2> HIDE DEF a
  <2>2. ColorSound(Color!ComboSetActive(a, 1))
    BY <1>2, ColorComboSound
  <2> QED
    BY <2>1, <2>2, ColorBecomesSound
<1> QED
  BY <1>4, <1>5, <1>6, <1>7
\* What the user does with the rows and the profiles.
LEMMA ColorUserRows ==
  ASSUME ColorSound(Color!State), ~panel.closed, NEW r \in Color!RowsOf(panel),
         Color!RowSelected(r) \/ Color!ProfileMakeDefaultInternal(r)
  PROVE  ColorSound(Color!State)'
<1>1. Color!State.p = panel /\ Color!State.w = world
  BY DEF Color!State
<1>2. CASE Color!RowSelected(r)
  <2>1. panel.phase # "connecting"
    <3>1. panel.phase = "connecting" => panel.rows = <<>>
      BY <1>1 DEF ColorSound, ColorOpen, ColorTyped
    <3>2. panel.rows = <<>> => DOMAIN panel.rows = {}
      OBVIOUS
    <3> QED
      BY <3>1, <3>2 DEF Color!RowsOf
  <2>2. ColorSound(Color!Select(Color!State, r))
    BY <1>1, <2>1, ColorSelectSound
  <2> QED
    BY <1>2, <2>2, ColorByUserSound DEF Color!RowSelected
<1>3. CASE Color!ProfileMakeDefaultInternal(r)
  <2>1. Color!ByUser(Color!Call(Color!State, "default", r.dev, r.prof))
    BY <1>3 DEF Color!ProfileMakeDefaultInternal, Color!MakeDefault
  <2>2. ColorSound(Color!Call(Color!State, "default", r.dev, r.prof))
    BY ColorCallSound
  <2> QED
    BY <2>1, <2>2, ColorByUserSound
<1> QED
  BY <1>2, <1>3

\* The buttons for profiles.
LEMMA ColorUserProfiles ==
  ASSUME ColorSound(Color!State), ~panel.closed, Color!ProfileRemove \/ Color!DefaultCb \/ Color!ProfileAdd
  PROVE  ColorSound(Color!State)'
<1>1. Color!State.p = panel /\ Color!State.w = world
  BY DEF Color!State
<1>2. DOMAIN world.dev \subseteq DOMAIN Config.color.Devices
  BY <1>1 DEF ColorSound, ColorOpen, ColorTyped
<1>3. CASE Color!ProfileRemove
  <2>1. PICK d, profs, hard : Color!ByUser(Color!State)
        \/ (d \in DOMAIN world.dev /\ Color!ByUser(Color!Give(Color!State, d, profs, hard)))
    BY <1>3 DEF Color!ProfileRemove
  <2>2. d \in DOMAIN world.dev => ColorSound(Color!Give(Color!State, d, profs, hard))
    BY <1>2, ColorGiveSound
  <2> QED
    BY <2>1, <2>2, ColorByUserSound
<1>4. CASE Color!DefaultCb
  <2> DEFINE wide == world.wide \cup {panel.known[panel.current][1]}
             t == [Color!State EXCEPT !.w.wide = wide]
  <2>1. Color!ByUser(Color!State) \/ Color!ByUser(t)
    BY <1>1, <1>4 DEF Color!DefaultCb
  <2> HIDE DEF wide
  <2>2. /\ DOMAIN t = {"p", "c", "w"} /\ t.p = Color!State.p /\ t.c = Color!State.c
           /\ DOMAIN t.w = ColorWorldFields /\ t.w.dev = Color!State.w.dev
        /\ t.w.said = Color!State.w.said /\ t.w.early = Color!State.w.early /\ t.w.lost = Color!State.w.lost
           /\ t.w.plugged = Color!State.w.plugged /\ t.w.sensors = Color!State.w.sensors
    BY DEF ColorSound, ColorForm, ColorWorldFields
  <2> HIDE DEF t
  <2>3. ColorSound(t)
    BY <2>2, ColorWorldBeside
  <2> QED
    BY <2>1, <2>3, ColorByUserSound
<1>5. CASE Color!ProfileAdd
  <2> DEFINE already == IF panel.current = Color!None THEN {} ELSE Color!ToSet(panel.known[panel.current])
             Fits(q) == q \notin already /\ Color!IsProfileSuitableForDevice(q, Color!State.p.current)
             /\ Config.color.Profiles[q].access
             entries == Append(Color!Kept(Config.color.Titled,
             {i \in DOMAIN Config.color.Titled : Fits(Config.color.Titled[i])}), Color!Import)
             a == [Color!State EXCEPT !.p.assign.entries = entries, !.p.assign.active = 0]
             b == Color!Call(a, "idle", Color!None, Color!None)
             t == [b EXCEPT !.p.assign.shown = TRUE]
  <2>1. Color!ByUser([Color!AddProfilesSuitableForDevices(Color!State, already) EXCEPT !.p.assign.shown = TRUE])
    BY <1>5 DEF Color!ProfileAdd
  <2> HIDE DEF already
  <2>2. Color!AddProfilesSuitableForDevices(Color!State, already) = b
    BY DEF Color!AddProfilesSuitableForDevices
  <2> HIDE DEF entries
  <2>3. /\ DOMAIN a = {"p", "c", "w"} /\ a.w = Color!State.w /\ a.c = Color!State.c
           /\ DOMAIN a.p = ColorFields /\ a.p.closed = Color!State.p.closed
        /\ a.p.rows = Color!State.p.rows /\ a.p.sel = Color!State.p.sel
        /\ a.p.current = Color!State.p.current /\ a.p.sensor = Color!State.p.sensor
           /\ a.p.tool = Color!State.p.tool /\ a.p.phase = Color!State.p.phase
    BY DEF ColorSound, ColorForm, ColorFields
  <2> HIDE DEF a
  <2>4. ColorSound(a)
    BY <2>3, ColorDialogsBeside
  <2>5. ColorSound(b)
    BY <2>4, ColorCallSound
  <2> HIDE DEF b
  <2>6. /\ DOMAIN t = {"p", "c", "w"} /\ t.w = b.w /\ t.c = b.c /\ DOMAIN t.p = ColorFields
           /\ t.p.closed = b.p.closed
        /\ t.p.rows = b.p.rows /\ t.p.sel = b.p.sel
        /\ t.p.current = b.p.current /\ t.p.sensor = b.p.sensor /\ t.p.tool = b.p.tool /\ t.p.phase = b.p.phase
    BY <2>5 DEF ColorSound, ColorForm, ColorFields
  <2>7. ColorSound(t)
    <3> HIDE DEF t
    <3> QED
      BY <2>5, <2>6, ColorDialogsBeside
  <2>8. Color!ByUser(t)
    BY <2>1, <2>2
  <2> HIDE DEF t
  <2> QED
    BY <2>7, <2>8, ColorByUserSound
<1> QED
  BY <1>3, <1>4, <1>5

\* The buttons for devices, and the end of the panel.
LEMMA ColorUserDevices ==
  ASSUME ColorSound(Color!State), ~panel.closed, Color!DeviceDelete \/ Color!DeviceAddCb \/ Color!Dispose
  PROVE  ColorSound(Color!State)'
<1>1. Color!State.p = panel /\ Color!State.w = world /\ Color!State.c = calls
  BY DEF Color!State
<1>2. DOMAIN world.dev \subseteq DOMAIN Config.color.Devices
  BY <1>1 DEF ColorSound, ColorOpen, ColorTyped
<1>3. CASE Color!DeviceDelete
  <2> DEFINE a == IF panel.current \in DOMAIN world.dev THEN Color!Leaves(Color!State, panel.current)
             ELSE Color!State
             t == [a EXCEPT !.w.deleted = panel.current]
  <2>1. Color!ByUser(t)
    BY <1>3 DEF Color!DeviceDelete
  <2>2. ColorSound(a)
    <3>1. CASE panel.current \in DOMAIN world.dev
      BY <1>1, <1>2, <3>1, ColorLeavesSound
    <3>2. CASE panel.current \notin DOMAIN world.dev
      BY <3>2
    <3> QED
      BY <3>1, <3>2
  <2> HIDE DEF a
  <2>3. /\ DOMAIN t = {"p", "c", "w"} /\ t.p = a.p /\ t.c = a.c /\ DOMAIN t.w = ColorWorldFields
           /\ t.w.dev = a.w.dev
        /\ t.w.said = a.w.said /\ t.w.early = a.w.early /\ t.w.lost = a.w.lost /\ t.w.plugged = a.w.plugged
           /\ t.w.sensors = a.w.sensors
    BY <2>2 DEF ColorSound, ColorForm, ColorWorldFields
  <2> HIDE DEF t
  <2>4. ColorSound(t)
    BY <2>2, <2>3, ColorWorldBeside
  <2> QED
    BY <2>1, <2>4, ColorByUserSound
<1>4. CASE Color!DeviceAddCb
  <2> DEFINE t == [Color!State EXCEPT !.p.virtual = TRUE]
  <2>1. Color!ByUser(t)
    BY <1>4 DEF Color!DeviceAddCb
  <2>2. /\ DOMAIN t = {"p", "c", "w"} /\ t.w = Color!State.w /\ t.c = Color!State.c
           /\ DOMAIN t.p = ColorFields /\ t.p.closed = Color!State.p.closed
        /\ t.p.rows = Color!State.p.rows /\ t.p.sel = Color!State.p.sel
        /\ t.p.current = Color!State.p.current /\ t.p.sensor = Color!State.p.sensor
           /\ t.p.tool = Color!State.p.tool /\ t.p.phase = Color!State.p.phase
    BY DEF ColorSound, ColorForm, ColorFields
  <2> HIDE DEF t
  <2>3. ColorSound(t)
    BY <2>2, ColorDialogsBeside
  <2> QED
    BY <2>1, <2>3, ColorByUserSound
<1>5. CASE Color!Dispose
  <2> DEFINE c == Color!Kept(calls, {i \in DOMAIN calls : calls[i].kind \in {"connect", "installer", "install"}})
             t == [Color!State EXCEPT !.p.closed = TRUE, !.p.current = Color!None, !.p.sensor = Color!None, !.c = c]
  <2>1. Color!ByUser(t)
    BY <1>1, <1>5 DEF Color!Dispose
  <2> HIDE DEF c
  <2>2. ColorForm(t) /\ t.p.closed
    BY DEF ColorSound, ColorForm, ColorFields
  <2> HIDE DEF t
  <2>3. ColorSound(t)
    BY <2>2 DEF ColorSound
  <2> QED
    BY <2>1, <2>3, ColorByUserSound
<1> QED
  BY <1>3, <1>4, <1>5

\* Another profile in the combo box.
LEMMA ColorUserCombo ==
  ASSUME ColorSound(Color!State), NEW i, Color!ProfileComboChanged(i)
  PROVE  ColorSound(Color!State)'
<1>1. Color!ByUser(Color!ComboSetActive(Color!State, i))
  BY DEF Color!ProfileComboChanged
<1>2. ColorSound(Color!ComboSetActive(Color!State, i))
  BY ColorComboSound
<1> QED
  BY <1>1, <1>2, ColorByUserSound

\* The programs the panel starts.
LEMMA ColorUserPrograms ==
  ASSUME ColorSound(Color!State), NEW there, Color!Calibrate(there) \/ Color!ProfileView(there)
  PROVE  ColorSound(Color!State)'
<1> DEFINE t == [Color!State EXCEPT !.p.broken = TRUE]
<1>1. PICK tool, of : Color!ByUser(Color!Run(Color!State, tool, of, there)) \/ Color!ByUser(t)
  BY DEF Color!Calibrate, Color!ProfileView
<1>2. /\ DOMAIN t = {"p", "c", "w"} /\ t.w = Color!State.w /\ t.c = Color!State.c /\ DOMAIN t.p = ColorFields
         /\ t.p.closed = Color!State.p.closed
      /\ t.p.rows = Color!State.p.rows /\ t.p.sel = Color!State.p.sel
      /\ t.p.current = Color!State.p.current /\ t.p.sensor = Color!State.p.sensor
         /\ t.p.tool = Color!State.p.tool /\ t.p.phase = Color!State.p.phase
  BY DEF ColorSound, ColorForm, ColorFields
<1> HIDE DEF t
<1>3. ColorSound(t)
  BY <1>2, ColorDialogsBeside
<1>4. ColorSound(Color!Run(Color!State, tool, of, there))
  BY ColorRunSound
<1> QED
  BY <1>1, <1>3, <1>4, ColorByUserSound

\* A virtual device is asked for.
LEMMA ColorUserVirtual ==
  ASSUME ColorSound(Color!State), NEW kt \in DOMAIN Config.color.Named, NEW kind \in DOMAIN Color!VirtualKinds,
         kt[1] = Color!VirtualKinds[kind],
         Color!ButtonVirtualAdd(kind, kt[2])
  PROVE  ColorSound(Color!State)'
<1> DEFINE a == [Color!State EXCEPT !.p.virtual = FALSE]
           d == Config.color.Named[kt]
<1>1. Color!State.p = panel /\ Color!State.w = world
  BY DEF Color!State
<1>2. Color!ByUser(IF d \in DOMAIN world.dev THEN a ELSE Color!Arrives(a, d))
  <2>1. <<Color!VirtualKinds[kind], kt[2]>> = kt
    BY ColorAssumption
  <2> QED
    BY <2>1 DEF Color!ButtonVirtualAdd
<1>3. d \in DOMAIN Config.color.Devices
  BY ColorAssumption
<1> HIDE DEF d
<1>4. /\ DOMAIN a = {"p", "c", "w"} /\ a.w = Color!State.w /\ a.c = Color!State.c /\ DOMAIN a.p = ColorFields
         /\ a.p.closed = Color!State.p.closed
      /\ a.p.rows = Color!State.p.rows /\ a.p.sel = Color!State.p.sel
      /\ a.p.current = Color!State.p.current /\ a.p.sensor = Color!State.p.sensor
         /\ a.p.tool = Color!State.p.tool /\ a.p.phase = Color!State.p.phase
  BY DEF ColorSound, ColorForm, ColorFields
<1> HIDE DEF a
<1>5. ColorSound(a)
  BY <1>4, ColorDialogsBeside
<1>6. CASE d \in DOMAIN world.dev
  BY <1>2, <1>5, <1>6, ColorByUserSound
<1>7. CASE d \notin DOMAIN world.dev
  <2>1. ColorSound(Color!Arrives(a, d))
    BY <1>1, <1>3, <1>4, <1>5, <1>7, ColorArrivesSound
  <2> QED
    BY <1>2, <1>7, <2>1, ColorByUserSound
<1> QED
  BY <1>6, <1>7

\* What ends a dialog.
LEMMA ColorClosesSound ==
  ASSUME ColorSound(Color!State), ~panel.closed, Color!Closes
  PROVE  ColorSound(Color!State)'
<1>1. Color!State.p = panel /\ Color!State.w = world
  BY DEF Color!State
<1> DEFINE Beside(s, t) == /\ DOMAIN t = {"p", "c", "w"} /\ t.w = s.w /\ t.c = s.c /\ DOMAIN t.p = ColorFields
           /\ t.p.closed = s.p.closed
                           /\ t.p.rows = s.p.rows /\ t.p.sel = s.p.sel
                           /\ t.p.current = s.p.current /\ t.p.sensor = s.p.sensor /\ t.p.tool = s.p.tool
                              /\ t.p.phase = s.p.phase
<1>2. ASSUME NEW s, ColorSound(s), NEW t, Beside(s, t) PROVE ColorSound(t)
  BY <1>2, ColorDialogsBeside
<1>3. CASE Color!ChooserCancelled
  <2> DEFINE a == [Color!State EXCEPT !.p.chooser = FALSE]
             b == Color!ComboSetActive(a, 1)
             there == b.p.assign.entries[1] # Color!Import
             t == [b EXCEPT !.p.assign.shown = there]
  <2>1. Color!Becomes(t)
    BY <1>3 DEF Color!ChooserCancelled
  <2>2. Beside(Color!State, a)
    BY DEF ColorSound, ColorForm, ColorFields
  <2> HIDE DEF a
  <2>3. ColorSound(b)
    BY <1>2, <2>2, ColorComboSound
  <2> HIDE DEF b, there
  <2>4. Beside(b, t)
    BY <2>3 DEF ColorSound, ColorForm, ColorFields
  <2> HIDE DEF t
  <2> QED
    BY <1>2, <2>1, <2>3, <2>4, ColorBecomesSound
<1>4. CASE \E q \in DOMAIN Config.color.Profiles, ok \in BOOLEAN : Color!ChooserImported(q, ok)
  <2>1. PICK q, ok : Color!ChooserImported(q, ok)
    BY <1>4
  <2> DEFINE entries == <<q>> \o Color!State.p.assign.entries
             t == [Color!State EXCEPT !.p.chooser = FALSE, !.p.assign.entries = entries, !.p.assign.active = 1]
             a == [Color!State EXCEPT !.p.chooser = FALSE]
  <2>2. Color!Becomes(t) \/ Color!Becomes(a)
    BY <2>1 DEF Color!ChooserImported
  <2> HIDE DEF entries
  <2>3. Beside(Color!State, t)
    BY DEF ColorSound, ColorForm, ColorFields
  <2>4. Beside(Color!State, a)
    BY DEF ColorSound, ColorForm, ColorFields
  <2> HIDE DEF t, a
  <2> QED
    BY <1>2, <2>2, <2>3, <2>4, ColorBecomesSound
<1> DEFINE hidden == [Color!State EXCEPT !.p.assign.shown = FALSE]
           plain == [Color!State EXCEPT !.p.virtual = FALSE]
<1>5. Beside(Color!State, hidden)
  BY DEF ColorSound, ColorForm, ColorFields
<1>6. Beside(Color!State, plain)
  BY DEF ColorSound, ColorForm, ColorFields
<1>7. CASE Color!ButtonAssignCancel \/ Color!ButtonVirtualCancel
  <2>1. Color!Becomes(hidden) \/ Color!Becomes(plain)
    BY <1>7 DEF Color!ButtonAssignCancel, Color!ButtonVirtualCancel
  <2> HIDE DEF hidden, plain
  <2> QED
    BY <1>2, <1>5, <1>6, <2>1, ColorBecomesSound
<1>8. CASE Color!ButtonAssignOk
  <2>1. PICK d, q, profs, hard : Color!Becomes(hidden)
        \/ (d \in DOMAIN world.dev /\ Color!Becomes(Color!Call(Color!Give(hidden, d, profs, hard), "default",
           d, q)))
    BY <1>8 DEF Color!ButtonAssignOk, Color!MakeDefault
  <2> HIDE DEF hidden
  <2>2. ColorSound(hidden) /\ ~hidden.p.closed
    BY <1>1, <1>2, <1>5
  <2>3. ASSUME d \in DOMAIN world.dev
        PROVE ColorSound(Color!Call(Color!Give(hidden, d, profs, hard), "default", d, q))
    <3>1. d \in DOMAIN Config.color.Devices
      BY <1>1, <2>3 DEF ColorSound, ColorOpen, ColorTyped
    <3>2. ColorSound(Color!Give(hidden, d, profs, hard))
      BY <2>2, <3>1, ColorGiveSound
    <3> QED
      BY <3>2, ColorCallSound
  <2> QED
    BY <2>1, <2>2, <2>3, ColorBecomesSound
<1> QED
  BY <1>3, <1>4, <1>7, <1>8 DEF Color!Closes

\* What other programs do.
LEMMA ColorOthersSound ==
  ASSUME ColorSound(Color!State), Color!OtherPrograms
  PROVE  ColorSound(Color!State)'
<1>1. Color!State.p = panel /\ Color!State.w = world
  BY DEF Color!State
<1>2. ASSUME NEW d \in DOMAIN Config.color.Devices, IF d \in DOMAIN world.dev
             THEN Color!ByOthers(Color!Leaves(Color!State, d)) ELSE Color!ByOthers(Color!Arrives(Color!State, d))
      PROVE  ColorSound(Color!State)'
  <2>1. CASE d \in DOMAIN world.dev
    <3>1. ColorSound(Color!Leaves(Color!State, d))
      BY <1>1, <2>1, ColorLeavesSound
    <3> QED
      BY <1>2, <2>1, <3>1, ColorByOthersSound
  <2>2. CASE d \notin DOMAIN world.dev
    <3>1. ColorSound(Color!Arrives(Color!State, d))
      BY <1>1, <2>2, ColorArrivesSound
    <3> QED
      BY <1>2, <2>2, <3>1, ColorByOthersSound
  <2> QED
    BY <2>1, <2>2
<1>3. ASSUME NEW d \in DOMAIN world.dev, NEW profs, NEW hard,
             Color!ByOthers(Color!Give(Color!State, d, profs, hard))
      PROVE  ColorSound(Color!State)'
  <2>1. ~Color!State.p.closed => d \in DOMAIN Config.color.Devices
    BY <1>1 DEF ColorSound, ColorOpen, ColorTyped
  <2>2. ColorSound(Color!Give(Color!State, d, profs, hard))
    BY <2>1, ColorGiveSound
  <2> QED
    BY <1>3, <2>2, ColorByOthersSound
<1>4. ASSUME NEW sensors, Color!ByOthers(Color!Tell([Color!State EXCEPT !.w.sensors = sensors], "sensor",
             Color!None))
      PROVE  ColorSound(Color!State)'
  <2> DEFINE a == [Color!State EXCEPT !.w.sensors = sensors]
             t == Color!Tell(a, "sensor", Color!None)
  <2>1. /\ ColorForm(a) /\ a.p = Color!State.p /\ a.c = Color!State.c /\ a.w.said = Color!State.w.said
           /\ a.w.early = Color!State.w.early /\ a.w.lost = Color!State.w.lost
              /\ a.w.plugged = Color!State.w.plugged /\ a.w.dev = Color!State.w.dev
    BY DEF ColorSound, ColorForm, ColorWorldFields
  <2> HIDE DEF a
  <2>2. ColorIsTold(a, t, "sensor", Color!None) /\ t.w.dev = a.w.dev
    BY <2>1, ColorTellForm
  <2> HIDE DEF t
  <2>3. ColorIsTold(Color!State, t, "sensor", Color!None)
    BY <2>1, <2>2 DEF ColorIsTold
  <2>4. ColorSound(t)
    BY <2>1, <2>2, <2>3, ColorTellsSound
  <2> QED
    BY <1>4, <2>4, ColorByOthersSound DEF t, a
<1>5. \/ \E d \in DOMAIN Config.color.Devices : IF d \in DOMAIN world.dev
         THEN Color!ByOthers(Color!Leaves(Color!State, d)) ELSE Color!ByOthers(Color!Arrives(Color!State, d))
      \/ \E d \in DOMAIN world.dev : \E profs, hard : Color!ByOthers(Color!Give(Color!State, d, profs, hard))
      \/ \E sensors : Color!ByOthers(Color!Tell([Color!State EXCEPT !.w.sensors = sensors], "sensor", Color!None))
  BY DEF Color!OtherPrograms
<1> QED
  BY <1>2, <1>3, <1>4, <1>5

\* Every step keeps to it.
LEMMA ColorNext ==
  ASSUME ColorSound(Color!State), [Color!Next]_Color!vars
  PROVE  ColorSound(Color!State)'
<1>1. CASE UNCHANGED Color!vars
  BY <1>1 DEF Color!vars, Color!State
<1>2. CASE Color!Answers
  <2>1. ASSUME NEW i \in DOMAIN calls, NEW ok \in BOOLEAN, NEW how \in Color!Coldplugged, Color!Connect(i, ok, how)
        PROVE  ColorSound(Color!State)'
    BY <2>1, ColorConnectSound
  <2>2. ASSUME NEW i \in DOMAIN calls, NEW ok \in BOOLEAN,
               Color!ColordLists(i, ok) \/ Color!MakeProfileDefaultDone(i, ok)
               \/ Color!PackagekitProxyReady(i, ok) \/ Color!PackagekitFinished(i, ok)
        PROVE  ColorSound(Color!State)'
    BY <2>2, ColordListsSound, ColorOtherAnswers
  <2>3. ASSUME Color!DeviceChangedCb \/ Color!Ignored PROVE ColorSound(Color!State)'
    BY <2>3, ColorDeviceChangedSound, ColorIgnoredSound
  <2>4. ASSUME ~panel.closed, NEW connected \in SUBSET DOMAIN Config.color.Devices,
               \/ Color!GetDevices(Color!SetToSeq(IF world.said = <<>> THEN {} ELSE world.said[1].devs), connected)
               \/ Color!DeviceAdded(connected)
        PROVE ColorSound(Color!State)'
    BY <2>4, ColorGetDevicesSound, ColorDeviceAddedSound
  <2>5. ASSUME ~panel.closed, Color!DeviceRemoved \/ \E how \in Color!Coldplugged : Color!ClientSensorChanged(how)
        PROVE ColorSound(Color!State)'
    BY <2>5, ColorDeviceRemovedSound, ColorSensorSound
  <2>6. ASSUME NEW i \in DOMAIN calls, Color!ComboSetDefault(i) PROVE ColorSound(Color!State)'
    BY <2>6, ColorOtherAnswers
  <2> QED
    BY <1>2, <2>1, <2>2, <2>3, <2>4, <2>5, <2>6 DEF Color!Answers
<1>3. CASE Color!OtherPrograms
  BY <1>3, ColorOthersSound
<1>4. CASE ~panel.closed /\ Color!UserActs
  <2>1. ASSUME NEW r \in Color!RowsOf(panel), Color!RowSelected(r) \/ Color!ProfileMakeDefaultInternal(r)
        PROVE ColorSound(Color!State)'
    BY <1>4, <2>1, ColorUserRows
  <2>2. ASSUME Color!ProfileRemove \/ Color!DefaultCb \/ Color!ProfileAdd PROVE ColorSound(Color!State)'
    BY <1>4, <2>2, ColorUserProfiles
  <2>3. ASSUME Color!DeviceDelete \/ Color!DeviceAddCb \/ Color!Dispose PROVE ColorSound(Color!State)'
    BY <1>4, <2>3, ColorUserDevices
  <2>4. ASSUME NEW i \in DOMAIN panel.assign.entries, Color!ProfileComboChanged(i) PROVE ColorSound(Color!State)'
    BY <2>4, ColorUserCombo
  <2>5. ASSUME NEW there \in BOOLEAN, Color!Calibrate(there) \/ Color!ProfileView(there)
        PROVE ColorSound(Color!State)'
    BY <2>5, ColorUserPrograms
  <2>6. ASSUME NEW kt \in DOMAIN Config.color.Named, NEW kind \in DOMAIN Color!VirtualKinds,
               kt[1] = Color!VirtualKinds[kind], Color!ButtonVirtualAdd(kind, kt[2])
        PROVE  ColorSound(Color!State)'
    BY <2>6, ColorUserVirtual
  <2> QED
    BY <1>4, <2>1, <2>2, <2>3, <2>4, <2>5, <2>6 DEF Color!UserActs
<1>5. CASE ~panel.closed /\ Color!Closes
  BY <1>5, ColorClosesSound
<1> QED
  BY <1>1, <1>2, <1>3, <1>4, <1>5 DEF Color!Next
=============================================================================
