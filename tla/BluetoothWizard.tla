--------------------------- MODULE BluetoothWizard ---------------------------
(***************************************************************************)
(* The pairing assistant (gnome-bluetooth/wizard/main.c) and the agent by  *)
(* which bluetoothd asks it for PINs and confirmations                     *)
(* (bluetooth-agent.c).                                                    *)
(*                                                                         *)
(* The assistant keeps one target, one PIN and one page for all that goes  *)
(* on: the pairing it started, the attempts to connect, and the questions  *)
(* bluetoothd asks, which may be about another device.  A PIN is answered  *)
(* half a second after the question.                                       *)
(***************************************************************************)
EXTENDS Integers, FiniteSets

CONSTANTS
  Devices,
  Legacy,      \* the devices that pair the old way
  KnownPin,    \* the pin code database: "unknown", "fixed", "KEYBOARD" or "NULL"
  MaxActions,  \* how often the user goes forward or restarts
  MaxAsks      \* how many questions bluetoothd asks

VARIABLES
  panel,   \* the assistant and its global variables
  calls,   \* Pair() and Connect() not answered yet
  world    \* bluetoothd and the counters

vars == <<panel, calls, world>>

None == "none"
NoAsk == [kind |-> None, dev |-> None, id |-> 0]
NoAnswer == [dev |-> None, pin |-> None, seen |-> FALSE]
\* What may stand in user_pincode: nothing (automatic), what the user chose, an entry of the
\* database, a PIN made up by the assistant.
ChosenPins == {"auto", "chosen", "NULL"}

\* The chooser lists the devices that are not set up, or all of them.
Listed(p, w) == {d \in Devices : p.filter = "all" \/ d \notin w.known}
Selected(p, w) == IF p.sel \in Listed(p, w) THEN p.sel ELSE None

\* prepare_callback, when the page changes
Prepare(p, w, page) ==
  [p EXCEPT !.page = page,
            !.quit = (page \in {"finishing", "summary"}),
            !.cancel = ((page = "ssp_setup" /\ p.display) \/ (page = "connecting" /\ ~p.created)),
            !.searching = (page = "search"),
            !.sel = IF page = "summary" /\ ~p.failed /\ p.target \in Listed(p, w) THEN p.target ELSE @,
            !.summary = IF page = "summary" /\ ~p.failed
                        THEN [what |-> "set up", dev |-> IF p.target \in Listed(p, w) THEN p.target ELSE Selected(p, w)]
                        ELSE @,
            !.restart = (page = "summary" /\ p.failed),
            !.match = (page = "ssp_setup" /\ ~p.display)]
\* gtk_assistant_set_current_page does nothing when the page is the current one.
Go(p, w, page) == IF p.page = page THEN p ELSE Prepare(p, w, page)
Fail(p, w, what) ==
  [Go([p EXCEPT !.failed = TRUE], w, "summary") EXCEPT !.summary = [what |-> what, dev |-> p.target]]

\* update_user_pincode: what the database has, the names of special cases included, replaces
\* the PIN; an unknown device leaves the one of before.
UpdateUserPincode(p, d) ==
  [p EXCEPT !.behaviour = IF KnownPin[d] = "KEYBOARD" THEN "keyboard"
                          ELSE IF KnownPin[d] = "unknown" THEN "normal" ELSE @,
            !.pin = IF KnownPin[d] = "unknown" THEN @ ELSE KnownPin[d]]

Open == ~panel.closed /\ ~panel.aborted
Acts == world.actions < MaxActions /\ world' = [world EXCEPT !.actions = @ + 1]
Answered(w, id) == [w EXCEPT !.ask = IF @.id = id THEN NoAsk ELSE @]

-----------------------------------------------------------------------------
(***************************************************************************)
(* The user.                                                               *)
(***************************************************************************)
SelectDeviceChanged(d) ==
  /\ Open /\ panel.page = "search"
  /\ d \in Listed(panel, world) \ {panel.sel}
  /\ panel' = [panel EXCEPT !.sel = d, !.legacy = (d \in Legacy)]
  /\ UNCHANGED <<calls, world>>
PinOption(pin) ==
  /\ Open /\ panel.page = "search" /\ Selected(panel, world) # None
  /\ pin # panel.pin
  /\ panel' = [panel EXCEPT !.pin = pin]
  /\ Acts /\ UNCHANGED calls
\* Forward on the search page, complete with a device selected: the pairing starts, unless
\* one has been started.
Forward ==
  /\ Open /\ panel.page = "search" /\ Selected(panel, world) # None
  /\ LET d == panel.sel
         page == Prepare(panel, world, "connecting")
         target == [page EXCEPT !.target = d, !.filter = "all", !.behaviour = "normal", !.created = TRUE]
     IN IF panel.created THEN panel' = page /\ UNCHANGED calls
        ELSE /\ panel' = IF panel.legacy THEN UpdateUserPincode(target, d) ELSE target
             /\ calls' = calls \cup {[kind |-> IF panel'.pin = "NULL" THEN "no pairing" ELSE "pair", dev |-> d]}
  /\ Acts
\* The PIN is not among what is cleaned up.
RestartButtonClicked ==
  /\ Open /\ panel.restart
  /\ panel' = Prepare([panel EXCEPT !.display = FALSE, !.target = None, !.failed = FALSE,
                                    !.behaviour = "normal", !.filter = "new"], world, "search")
  /\ Acts /\ UNCHANGED calls
DoesNotMatch ==
  /\ Open /\ panel.match /\ panel.usable /\ panel.confirm # 0
  /\ panel' = [Fail(panel, world, "cancelled") EXCEPT !.confirm = 0]
  /\ world' = [Answered(world, panel.confirm) EXCEPT !.refused = @ \cup ({world.ask.dev} \ {None})]
  /\ UNCHANGED calls
\* The buttons stay insensitive from then on.
Matches ==
  /\ Open /\ panel.match /\ panel.usable /\ panel.confirm # 0
  /\ panel' = [panel EXCEPT !.usable = FALSE, !.confirm = 0]
  /\ world' = Answered(world, panel.confirm)
  /\ UNCHANGED calls
QuitCallback ==
  /\ Open /\ (panel.quit \/ panel.cancel)
  /\ panel' = [panel EXCEPT !.closed = TRUE]
  /\ UNCHANGED <<calls, world>>

-----------------------------------------------------------------------------
(***************************************************************************)
(* The agent.  bluetoothd has one question open at a time.                 *)
(***************************************************************************)
Asks(kind, d) ==
  /\ Open /\ world.ask = NoAsk /\ world.asks < MaxAsks
  /\ d \notin world.known
  /\ world' = [world EXCEPT !.asks = @ + 1, !.ask = [kind |-> kind, dev |-> d, id |-> world.asks + 1]]
\* Displays and authorizations are answered at once.
AsksShortly(d) ==
  /\ Open /\ world.ask = NoAsk /\ world.asks < MaxAsks
  /\ world' = [world EXCEPT !.asks = @ + 1]
Retarget(p, d) == [p EXCEPT !.target = d]

\* pincode_callback asserts that no answer is due.
PincodeCallback(d) ==
  /\ Asks("pin", d)
  /\ panel' = IF panel.timer # NoAsk THEN [panel EXCEPT !.aborted = TRUE]
              ELSE [panel EXCEPT !.timer = [kind |-> "pin", dev |-> d, id |-> world.asks + 1]]
  /\ UNCHANGED calls
\* pincode_callback_timeout_cb: a PIN there is already is sent without a word, otherwise one is
\* made up and shown.
PincodeTimeout ==
  /\ Open /\ panel.timer # NoAsk
  /\ LET d == panel.timer.dev
         p == UpdateUserPincode([panel EXCEPT !.created = TRUE, !.target = d, !.timer = NoAsk], d)
         shown == [Go(p, world, "setup") EXCEPT !.pin = "random", !.cancel = TRUE]
         sent == [Go(p, world, "connecting") EXCEPT !.filter = "all", !.cancel = TRUE]
     IN /\ panel' = IF p.pin = "auto" THEN shown ELSE sent
        /\ world' = [Answered(world, panel.timer.id) EXCEPT
                       !.known = @ \cup {d},
                       !.answer = [dev |-> d, pin |-> panel'.pin, seen |-> (panel'.page = "setup")]]
  /\ UNCHANGED calls
ConfirmCallback(d) ==
  /\ Asks("confirm", d)
  /\ panel' = [Retarget(Go(panel, world, "ssp_setup"), d) EXCEPT !.confirm = world.asks + 1]
  /\ UNCHANGED calls
\* display_callback and display_pincode_callback
DisplayCallback(d) ==
  /\ AsksShortly(d)
  /\ panel' = Retarget(Go([panel EXCEPT !.display = TRUE], world, "ssp_setup"), d)
  /\ UNCHANGED calls
\* authorize_callback and authorize_service_callback allow everything.
AuthorizeCallback(d) ==
  /\ AsksShortly(d)
  /\ panel' = Retarget(panel, d)
  /\ UNCHANGED calls
CancelCallback ==
  /\ Open /\ world.ask # NoAsk
  /\ panel' = Fail([panel EXCEPT !.created = FALSE], world, "cancelled")
  /\ world' = [world EXCEPT !.ask = NoAsk, !.refused = @ \cup {world.ask.dev}]
  /\ UNCHANGED calls

-----------------------------------------------------------------------------
(***************************************************************************)
(* The answers of bluetoothd.                                              *)
(***************************************************************************)
Done(c) == c \in calls /\ Open
CreateFailed(c) ==
  /\ Done(c) /\ c.kind = "pair"
  /\ panel' = Fail([panel EXCEPT !.created = FALSE], world, "failed")
  /\ calls' = calls \ {c}
  /\ world' = [world EXCEPT !.refused = @ \ {c.dev}]
CreateCallback(c) ==
  /\ Done(c) /\ c.kind \in {"pair", "no pairing"}
  /\ world.ask.dev # c.dev /\ c.dev \notin world.refused
  /\ LET w == [world EXCEPT !.known = @ \cup {c.dev}] IN
       /\ world' = w
       /\ panel' = Go([panel EXCEPT !.created = FALSE], w, "finishing")
  /\ calls' = (calls \ {c}) \cup {[kind |-> "connect", dev |-> c.dev]}
\* connect_callback: tried again for three seconds (connect_timeout_cb)
ConnectAgain(c) ==
  /\ Done(c) /\ c.kind = "connect"
  /\ calls' = (calls \ {c}) \cup {[kind |-> "again", dev |-> c.dev]}
  /\ UNCHANGED <<panel, world>>
ConnectTimeout(c) ==
  /\ Done(c) /\ c.kind = "again"
  /\ calls' = (calls \ {c}) \cup {[kind |-> "connect", dev |-> c.dev]}
  /\ UNCHANGED <<panel, world>>
\* Connected, or not in time: the page tells that the device is set up.
ConnectCallback(c) ==
  /\ Done(c) /\ c.kind = "connect"
  /\ panel' = Go(panel, world, "summary")
  /\ calls' = calls \ {c}
  /\ UNCHANGED world

-----------------------------------------------------------------------------
Init ==
  /\ panel = [page |-> "search", target |-> None, pin |-> "auto", behaviour |-> "normal", created |-> FALSE,
              display |-> FALSE, failed |-> FALSE, timer |-> NoAsk, confirm |-> 0, match |-> FALSE,
              usable |-> TRUE, cancel |-> FALSE, quit |-> FALSE, restart |-> FALSE, legacy |-> FALSE,
              sel |-> None, filter |-> "new", searching |-> TRUE, closed |-> FALSE, aborted |-> FALSE,
              summary |-> [what |-> None, dev |-> None]]
  /\ calls = {}
  /\ world = [ask |-> NoAsk, asks |-> 0, known |-> {}, refused |-> {}, actions |-> 0, answer |-> NoAnswer]

Answers ==
  \/ PincodeTimeout
  \/ \E c \in calls : \/ CreateFailed(c) \/ CreateCallback(c)
                      \/ ConnectTimeout(c) \/ ConnectCallback(c)
Next ==
  \/ \E d \in Devices : \/ SelectDeviceChanged(d) \/ PincodeCallback(d) \/ ConfirmCallback(d)
                        \/ DisplayCallback(d) \/ AuthorizeCallback(d)
  \/ \E pin \in ChosenPins : PinOption(pin)
  \/ Forward \/ RestartButtonClicked \/ DoesNotMatch \/ Matches \/ QuitCallback \/ CancelCallback
  \/ Answers
  \/ \E c \in calls : ConnectAgain(c)

-----------------------------------------------------------------------------
(***************************************************************************)
(* What a click answers.                                                   *)
(***************************************************************************)
\* A click on "Matches" answers the request whose number is on the page, if it is still waiting.
MatchesWhatIsShown ==
  (panel.match /\ panel.usable /\ panel.confirm # 0) => (world.ask.id = panel.confirm /\ world.ask.kind = "confirm")
=============================================================================
