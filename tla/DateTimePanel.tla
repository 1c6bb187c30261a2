----------------------------- MODULE DateTimePanel -----------------------------
(***************************************************************************)
(* The date and time panel (datetime-prefs.c): the time zone on the map    *)
(* and in the entry, the spinners of time and date, the choice between     *)
(* manual and automatic time, and the clock of the menu.                   *)
(*                                                                         *)
(* timedated is told of every edit and its refusals only make a warning.   *)
(* A spinner is read when it loses the focus: its text is parsed as it was *)
(* formatted, and the clock is set when idle, unless the focus went to the *)
(* other spinner.  The entry looks cities up 100 ms after the last change  *)
(* and cancels the query before; a text that the panel itself puts there   *)
(* is looked up too.                                                       *)
(***************************************************************************)
EXTENDS Integers, Sequences, SequencesExt

CONSTANTS
  Hours,      \* hours of the day that are told apart, of 0..23
  Days,       \* days; "31 Feb" is one that does not exist
  Starts,     \* locales with twelve hours or not, and automatic time or not: pairs
  Home,       \* the zone at first
  NameOf,     \* the zones of the map, and the name made of each
  Found,      \* what the lookup finds for a text: a set of <<name, zone>>
  Written,    \* formats of the clock that other programs set
  MaxActions, MaxChanges

VARIABLES
  panel,   \* the widgets and the ids of sources
  calls,   \* timers and idle sources, queries, and what timedated was asked
  world    \* timedated, the settings and the counters

vars == <<panel, calls, world>>

None == "none"
NoDay == "31 Feb"
Junk == <<"junk">>
MaxQueries == 3
Epoch == [day |-> "1970", hour |-> 0]
Spinners == {"time", "date"}
Zones == DOMAIN NameOf
Texts == DOMAIN Found
Queries == {q \in calls : q[1] = "query"}

-----------------------------------------------------------------------------
(***************************************************************************)
(* A spinner as text and back.  %I counts 12, 1, ..., 11 twice a day; the  *)
(* parser adds twelve to what is marked as afternoon.                      *)
(***************************************************************************)
FormatTimeText(hour, twelve) ==
  IF twelve THEN <<"time", IF hour % 12 = 0 THEN 12 ELSE hour % 12, hour >= 12>> ELSE <<"time", hour, FALSE>>
HourIn(text) == IF text[3] THEN text[2] + 12 ELSE text[2]

\* The value after the text is read; one that is not understood or says the same changes nothing.
InputTimeText(v, text) ==
  IF text = Junk \/ HourIn(text) > 23 THEN v ELSE [v EXCEPT !.hour = HourIn(text)]
\* A day up to the 31st passes in every month, and a date that does not exist is time 0.
InputDateText(v, text) ==
  CASE text = Junk -> v
    [] text[2] = NoDay -> Epoch
    [] OTHER -> [v EXCEPT !.day = text[2]]

\* The text of a spinner is what the user typed, or what was formatted.
TextOf(s, spin) ==
  IF s.p.draft # <<>> THEN s.p.draft
  ELSE IF spin = "time" THEN FormatTimeText(s.p.time.hour, s.w.twelve) ELSE <<"date", s.p.date.day>>
Read(s, spin) ==
  IF spin = "time" THEN InputTimeText(s.p.time, TextOf(s, spin)) ELSE InputDateText(s.p.date, TextOf(s, spin))

\* One spinner is set and copies its value to the other; a change that is not the panel's is an edit.
SpinCopyValue(s, v, changing) ==
  IF v = s.p.time /\ v = s.p.date THEN s
  ELSE [s EXCEPT !.p.time = v, !.p.date = v, !.p.edited = @ \/ ~changing]
Update(s, spin) == [SpinCopyValue(s, Read(s, spin), FALSE) EXCEPT !.p.draft = <<>>]

AreSpinnersFocused(s) == <<"save">> \in s.c \/ s.p.focus \in Spinners
UpdateSpinners(s) == IF AreSpinnersFocused(s) THEN s ELSE SpinCopyValue(s, s.w.clock, TRUE)

-----------------------------------------------------------------------------
(***************************************************************************)
(* The name of a zone, and the entry that shows it.                        *)
(***************************************************************************)
\* A city that was chosen names its zone as long as that is the zone.
GetCurrentZoneName(w, zone) == IF w.name[1] = zone THEN w.name[2] ELSE NameOf[zone]

\* Any change of the text starts the timer anew.
EntryChanged(s, text) ==
  IF text = s.p.text THEN s ELSE [s EXCEPT !.p.text = text, !.c = @ \cup {<<"typing">>}]
SyncEntry(s, zone) ==
  [EntryChanged(s, GetCurrentZoneName(s.w, zone)) EXCEPT !.p.icon = FALSE, !.p.typed = FALSE]
EntryFocusOut(s) ==
  IF s.p.zone = None THEN s
  ELSE [s EXCEPT !.p.icon = (s.p.text # GetCurrentZoneName(s.w, s.p.zone))]

Ask(s, what, value) ==
  IF s.p.proxy # "ready" THEN s ELSE [s EXCEPT !.w.asked = Append(@, <<what, value>>)]
TzChanged(s, zone) == SyncEntry(Ask(s, "timezone", zone), zone)
SetMap(s, zone) ==
  LET t == [s EXCEPT !.p.zone = zone] IN IF s.p.zoneOn THEN TzChanged(t, zone) ELSE t

-----------------------------------------------------------------------------
(***************************************************************************)
(* The focus, and what may have it.                                        *)
(***************************************************************************)
\* Lock, and the dependency of the spinners on the manual time.
Sensitive(p, widget) ==
  CASE widget = None -> TRUE
    [] widget = "entry" -> p.lock = "allowed"
    [] OTHER -> p.lock = "allowed" /\ ~p.auto

SpinFocusOut(s) == [s EXCEPT !.c = @ \cup {<<"save">>}]
\* Mutant: the save that is under way goes on when the other spinner gets the focus.
SpinFocusInLate(s) == s
SpinFocusIn(s) == [s EXCEPT !.c = @ \ {<<"save">>}]
LeaveFocus(s) ==
  CASE s.p.focus \in Spinners -> [Update(SpinFocusOut(s), s.p.focus) EXCEPT !.p.focus = None]
    [] s.p.focus = "entry" -> [EntryFocusOut(s) EXCEPT !.p.focus = None]
    [] OTHER -> s
EnterFocus(s, widget) ==
  LET t == [s EXCEPT !.p.focus = widget] IN IF widget \in Spinners THEN SpinFocusIn(t) ELSE t
MoveFocus(s, widget) == IF widget = s.p.focus THEN s ELSE EnterFocus(LeaveFocus(s), widget)
\* A widget that may no longer be used loses the focus.
Settle(s) == IF Sensitive(s.p, s.p.focus) THEN s ELSE LeaveFocus(s)

ToggleNtp(s, on) ==
  IF on = s.p.auto THEN s
  ELSE LET t == [s EXCEPT !.p.auto = on] IN Settle(IF s.p.ntpOn THEN Ask(t, "ntp", on) ELSE t)

\* What a format makes of the radio of 12 hours; a custom one counts as the default of the schema.
BindHoursGet(format, twelve) ==
  CASE format = "12-hour" -> TRUE
    [] format = "24-hour" -> FALSE
    [] OTHER -> twelve

-----------------------------------------------------------------------------
(***************************************************************************)
(* The panel is opened: locked, until the permission is there.             *)
(***************************************************************************)
Init ==
  \E start \in Starts, day \in Days \ {NoDay} :
    LET twelve == start[1]
        clock == [day |-> day, hour |-> 0]
    IN
    /\ panel = [open |-> TRUE, lock |-> None, proxy |-> "pending", can |-> TRUE, auto |-> FALSE,
                ntpOn |-> FALSE, zone |-> None, zoneOn |-> FALSE, text |-> "", icon |-> FALSE,
                typed |-> FALSE, cities |-> {}, query |-> 0, asked |-> "", time |-> clock, date |-> clock,
                draft |-> <<>>, focus |-> None, edited |-> FALSE, radio12 |-> twelve]
    /\ calls = {<<"proxy">>, <<"polkit">>}
    /\ world = [twelve |-> twelve, ntp |-> start[2], zone |-> Home, clock |-> clock, name |-> <<None, "">>,
                format |-> "locale-default", asked |-> <<>>, refused |-> FALSE,
                touched |-> FALSE, acts |-> 0, changes |-> 0]

State == [p |-> panel, c |-> calls, w |-> world]
Becomes(s) == panel' = s.p /\ calls' = s.c /\ world' = s.w
ByUser(s) == panel.open /\ world.acts < MaxActions /\ Becomes([s EXCEPT !.w.acts = @ + 1])
ByOthers(s) == panel.open /\ world.changes < MaxChanges /\ Becomes([s EXCEPT !.w.changes = @ + 1])

-----------------------------------------------------------------------------
(***************************************************************************)
(* What the user does.                                                     *)
(***************************************************************************)
FocusMoved(widget) ==
  widget # panel.focus /\ Sensitive(panel, widget) /\ ByUser(MoveFocus(State, widget))
\* A widget that is typed into has the focus.
DraftTyped(spin, text) ==
  /\ Sensitive(panel, spin) /\ (text = Junk \/ text[1] = spin)
  /\ ByUser([MoveFocus(State, spin) EXCEPT !.p.draft = text, !.w.touched = TRUE])
\* Enter reads the text as well; an arrow reads it before the step.
SpinActivated == panel.focus \in Spinners /\ panel.draft # <<>> /\ ByUser(Update(State, panel.focus))
ArrowPressed(spin, hour) ==
  /\ Sensitive(panel, spin)
  /\ LET s == Update(MoveFocus(State, spin), spin)
     IN hour # s.p.time.hour
        /\ ByUser([SpinCopyValue(s, [s.p.time EXCEPT !.hour = hour], FALSE) EXCEPT !.w.touched = TRUE])
RadioToggled(on) ==
  /\ panel.lock = "allowed" /\ on # panel.auto /\ (on => panel.can)
  /\ ByUser(ToggleNtp(LeaveFocus(State), on))
MapClicked(zone) == panel.lock = "allowed" /\ ByUser(SetMap(State, zone))
EntryTyped(text) ==
  /\ Sensitive(panel, "entry") /\ text # panel.text
  /\ ByUser([EntryChanged(MoveFocus(State, "entry"), text) EXCEPT !.p.typed = TRUE])
\* The name is saved first, then the map is moved, then the entry gets the name.
TimezoneSelected(city) ==
  /\ panel.focus = "entry" /\ city \in panel.cities
  /\ LET s == [State EXCEPT !.w.name = <<city[2], city[1]>>]
     IN ByUser(EntryChanged(SetMap(s, city[2]), city[1]))
FormatToggled ==
  ByUser([State EXCEPT !.p.radio12 = ~@, !.w.format = IF panel.radio12 THEN "24-hour" ELSE "12-hour"])
\* Sources are removed and the query is cancelled; spinners that have the focus are left before.
Dispose ==
  ByUser([LeaveFocus(State) EXCEPT !.p.open = FALSE, !.p.query = 0,
            !.c = @ \ {<<"save">>, <<"typing">>}])

UserActs ==
  \/ \E widget \in Spinners \cup {"entry", None} : FocusMoved(widget)
  \/ \E hour \in Hours : DraftTyped("time", FormatTimeText(hour, world.twelve))
  \/ \E day \in Days : DraftTyped("date", <<"date", day>>)
  \/ \E spin \in Spinners : DraftTyped(spin, Junk)
  \/ SpinActivated
  \/ \E spin \in Spinners, hour \in Hours : ArrowPressed(spin, hour)
  \/ \E on \in BOOLEAN : RadioToggled(on)
  \/ \E zone \in Zones : MapClicked(zone)
  \/ \E text \in Texts : EntryTyped(text)
  \/ \E city \in panel.cities : TimezoneSelected(city)
  \/ FormatToggled
  \/ Dispose

-----------------------------------------------------------------------------
(***************************************************************************)
(* Timers, idle sources and answers.                                       *)
(***************************************************************************)
Pending(call) == panel.open /\ call \in calls
Done(call) == [State EXCEPT !.c = @ \ {call}]

PolkitPermReady(allowed) ==
  Pending(<<"polkit">>) /\ Becomes([Done(<<"polkit">>) EXCEPT !.p.lock = IF allowed THEN "allowed" ELSE "locked"])

\* The radio and the map are set before their handlers are connected.
ProxyReady(can, told) ==
  /\ Pending(<<"proxy">>)
  /\ LET s == [Done(<<"proxy">>) EXCEPT !.p.proxy = "ready"]
         t == [ToggleNtp([s EXCEPT !.p.can = can], world.ntp) EXCEPT !.p.ntpOn = TRUE]
     IN Becomes(IF ~told THEN s
                ELSE [SyncEntry(SetMap(t, world.zone), world.zone) EXCEPT !.p.zoneOn = TRUE])
ProxyFailed == Pending(<<"proxy">>) /\ Becomes([Done(<<"proxy">>) EXCEPT !.p.proxy = "failed"])

SaveTime ==
  /\ Pending(<<"save">>)
  /\ LET s == [Done(<<"save">>) EXCEPT !.p.edited = FALSE, !.w.touched = FALSE]
     IN Becomes(IF panel.edited THEN Ask(s, "time", panel.date) ELSE s)
SecondPassed == panel.open /\ Becomes(UpdateSpinners(State))

Running == {q[2] : q \in Queries}
NextQuery == CHOOSE i \in 1..MaxQueries : i \notin Running /\ i # panel.query
TypingTimeout ==
  /\ Pending(<<"typing">>)
  /\ LET old == {q \in Queries : q[2] = panel.query}
         cancelled == {<<"query", q[2], q[3], TRUE>> : q \in old}
     IN /\ \E i \in 1..MaxQueries : i \notin Running /\ i # panel.query
        /\ Becomes([Done(<<"typing">>) EXCEPT
             !.c = (@ \ old) \cup cancelled \cup {<<"query", NextQuery, panel.text, FALSE>>},
             !.p.query = NextQuery, !.p.asked = panel.text])
\* Queries run in threads and are answered in any order.  The list is cleared by each answer, also
\* by one that was cancelled.
QueryCitiesCallback(q) ==
  /\ Pending(q)
  /\ Becomes([Done(q) EXCEPT !.p.cities = IF q[4] \/ q[3] \notin Texts THEN {} ELSE Found[q[3]]])

Answers ==
  \/ \E allowed \in BOOLEAN : PolkitPermReady(allowed)
  \/ \E can, told \in BOOLEAN : (world.ntp => can) /\ ProxyReady(can, told)
  \/ ProxyFailed
  \/ SaveTime
  \/ SecondPassed
  \/ TypingTimeout
  \/ \E q \in Queries : QueryCitiesCallback(q)

-----------------------------------------------------------------------------
(***************************************************************************)
(* timedated, in the order it is asked, and the others.                    *)
(***************************************************************************)
\* The time cannot be set while it is set automatically, and any call may be refused.
TimedateAnswers(granted) ==
  /\ world.asked # <<>>
  /\ LET call == Head(world.asked)
         s == [State EXCEPT !.w.asked = Tail(@)]
         done == CASE call[1] = "ntp" -> [s EXCEPT !.w.ntp = call[2]]
                   [] call[1] = "timezone" -> [s EXCEPT !.w.zone = call[2]]
                   [] OTHER -> IF world.ntp THEN s ELSE [s EXCEPT !.w.clock = call[2]]
     IN IF granted THEN Becomes(done) ELSE ByOthers([s EXCEPT !.w.refused = TRUE])
ClockGoes(hour) == hour # world.clock.hour /\ ByOthers([State EXCEPT !.w.clock.hour = hour])
FormatChanged(format) ==
  /\ format # world.format
  /\ ByOthers([State EXCEPT !.w.format = format, !.p.radio12 = BindHoursGet(format, world.twelve)])
PermissionChanged ==
  /\ panel.lock # None
  /\ ByOthers(Settle([State EXCEPT !.p.lock = IF @ = "allowed" THEN "locked" ELSE "allowed"]))
Environment ==
  \/ \E granted \in BOOLEAN : TimedateAnswers(granted)
  \/ \E hour \in Hours : ClockGoes(hour)
  \/ \E format \in Written : FormatChanged(format)
  \/ PermissionChanged

Next == UserActs \/ Answers \/ Environment
Spec == Init /\ [][Next]_vars

-----------------------------------------------------------------------------
(***************************************************************************)
(* Properties.                                                             *)
(***************************************************************************)
LastAsked(what, server) ==
  LET calls_ == SelectSeq(world.asked, LAMBDA c : c[1] = what)
  IN IF calls_ = <<>> THEN server ELSE Last(calls_)[2]

\* An edit of the time is either still being made or about to be saved, never both: the save that
\* leaving one spinner starts ends when the other is entered (spin_focus_in), whatever takes the
\* focus away, the lock and automatic time among them.
EditIsSaved ==
  panel.open =>
    /\ panel.time = panel.date
    /\ panel.edited => AreSpinnersFocused(State)
    /\ ~(<<"save">> \in calls /\ panel.focus \in Spinners)

\* The clock is set only when the user typed or pressed an arrow.  (Where clocks have twelve hours
\* a spinner that shows the hour after midnight is read as noon when it is left.)
SetOnlyByEdit == panel.edited => world.touched \/ world.twelve

\* Radio and map show what timedated was asked last, or has, as long as it refuses nothing.
ShowsWhatWasAsked ==
  ~world.refused =>
    /\ panel.ntpOn => panel.auto = LastAsked("ntp", world.ntp)
    /\ panel.zoneOn => panel.zone = LastAsked("timezone", world.zone)

\* The entry names the zone of the map unless the user typed into it, and once the last
\* lookup is answered the cities are those of its text, though older answers come later.
EntryTellsZone ==
  /\ panel.zoneOn /\ ~panel.typed => panel.text = GetCurrentZoneName(world, panel.zone)
  /\ (panel.cities # {} /\ \A q \in Queries : q[4]) => panel.asked \in Texts /\ panel.cities = Found[panel.asked]

\* The radios tell the format, and nothing is left to run when the panel is closed.
FollowsSettings ==
  IF panel.open THEN panel.radio12 = BindHoursGet(world.format, world.twelve)
  ELSE ~(<<"save">> \in calls \/ <<"typing">> \in calls)
=============================================================================
