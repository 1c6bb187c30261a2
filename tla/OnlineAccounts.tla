---------------------------- MODULE OnlineAccounts ----------------------------
(***************************************************************************)
(* The online accounts panel (cc-online-accounts-panel.c): the list of     *)
(* accounts, the dialog that shows or adds one, and the removal that can   *)
(* be undone for ten seconds.                                              *)
(*                                                                         *)
(* A removed account is only hidden; GOA is told when the time is over,    *)
(* the notification is closed or another account is removed.  The panel    *)
(* holds no reference to the objects it points to, except to one that it   *)
(* added: an object GOA drops is freed, and what uses it then is `wild`.   *)
(***************************************************************************)
EXTENDS Integers, Sequences

CONSTANTS
  Accounts,   \* accounts that are or may come to be
  Starts,     \* sets of accounts at the start
  MaxActions, MaxChanges

VARIABLES
  panel,   \* rows, dialog, notification
  calls,   \* requests that were not answered
  world    \* GOA, what it said and was not heard, the network and the counters

vars == <<panel, calls, world>>

None == "none"

-----------------------------------------------------------------------------
(***************************************************************************)
(* Rows: accounts that are listed, each of them visible or hidden.         *)
(***************************************************************************)
Rows(s) == DOMAIN s.p.rows
Visible(s) == {a \in Rows(s) : s.p.rows[a]}
\* `others` counts hidden rows too.
HideRow(s, a) ==
  IF a \notin Rows(s) THEN s
  ELSE [s EXCEPT !.p.rows[a] = FALSE, !.p.frame = (Rows(s) # {a})]
ShowRow(s, a) ==
  IF a \notin Rows(s) THEN s ELSE [s EXCEPT !.p.rows[a] = TRUE, !.p.frame = TRUE]
RemoveRow(s, a) ==
  IF a \notin Rows(s) THEN s
  ELSE [s EXCEPT !.p.rows = [b \in Rows(s) \ {a} |-> @[b]], !.p.frame = (Rows(s) # {a})]

-----------------------------------------------------------------------------
(***************************************************************************)
(* The dialog, and the removal.                                            *)
(***************************************************************************)
\* An object is there as long as GOA has it, or if it came from adding it here.
Freed(s, a) == a # None /\ a \notin s.p.objects /\ a \notin s.p.kept
ShowPageAccount(s, a) ==
  [s EXCEPT !.p.active = a, !.p.page = "editor", !.p.editor = a, !.p.removable = ~s.p.locked[a]]
HideDialog(s) == [s EXCEPT !.p.page = None]

UndoRemoval(s) ==
  [ShowRow(s, s.p.removed) EXCEPT
     !.p.reveal = FALSE, !.p.timer = FALSE, !.p.removed = None, !.w.asked = @ \ {s.p.removed}]
CloseNotification(s) ==
  IF Freed(s, s.p.removed) THEN [s EXCEPT !.p.wild = TRUE]
  ELSE [s EXCEPT !.c = @ \cup {<<"remove", s.p.removed>>}, !.w.sent = @ \cup {s.p.removed},
                 !.p.reveal = FALSE, !.p.timer = FALSE, !.p.removed = None]
RemoveActive(s) ==
  LET t == IF s.p.removed # None THEN CloseNotification(s) ELSE s
      u == [t EXCEPT !.p.removed = s.p.active, !.p.active = None, !.p.reveal = TRUE,
                     !.w.asked = @ \cup {s.p.active}]
  IN IF s.p.active = None THEN s
     ELSE IF t.p.wild \/ Freed(s, s.p.active) THEN [s EXCEPT !.p.wild = TRUE]
     ELSE [HideDialog(HideRow(u, s.p.active)) EXCEPT !.p.timer = TRUE]

-----------------------------------------------------------------------------
(***************************************************************************)
(* Signals of the client.                                                  *)
(***************************************************************************)
AccountAdded(s, a) ==
  [s EXCEPT !.p.rows = [b \in Rows(s) \cup {a} |-> b = a \/ @[b]], !.p.frame = TRUE,
            !.p.objects = @ \cup {a}]
AccountChanged(s, a, locked) ==
  LET t == [s EXCEPT !.p.locked[a] = locked]
  IN IF s.p.active = a THEN ShowPageAccount(t, a) ELSE t
AccountRemoved(s, a) == [RemoveRow(s, a) EXCEPT !.p.objects = @ \ {a}]

-----------------------------------------------------------------------------
(***************************************************************************)
(* The panel is opened: the accounts are read at once, the providers come. *)
(***************************************************************************)
Init ==
  \E start \in Starts, ready \in BOOLEAN :
    LET known == IF ready THEN start ELSE {} IN
    /\ panel = [open |-> TRUE, ready |-> ready, rows |-> [a \in known |-> TRUE], frame |-> known # {},
                objects |-> known, kept |-> {}, locked |-> [a \in Accounts |-> FALSE],
                before |-> {}, active |-> None, page |-> None, editor |-> None, removable |-> FALSE,
                removed |-> None, reveal |-> FALSE, timer |-> FALSE, providers |-> FALSE,
                errors |-> 0, wild |-> FALSE]
    /\ calls = IF ready THEN {<<"providers">>} ELSE {}
    /\ world = [there |-> start, unborn |-> Accounts \ start, said |-> <<>>, online |-> TRUE,
                asked |-> {}, sent |-> {}, taken |-> FALSE, acts |-> 0, changes |-> 0]

State == [p |-> panel, c |-> calls, w |-> world]
Becomes(s) == ~panel.wild /\ panel' = s.p /\ calls' = s.c /\ world' = s.w
ByUser(s) == panel.open /\ panel.errors = 0 /\ world.acts < MaxActions /\ Becomes([s EXCEPT !.w.acts = @ + 1])
ByOthers(s) == world.changes < MaxChanges /\ Becomes([s EXCEPT !.w.changes = @ + 1])

\* The dialog is modal: while it is there, nothing of the panel can be clicked.
Free == panel.page = None

-----------------------------------------------------------------------------
(***************************************************************************)
(* What the user does.                                                     *)
(***************************************************************************)
RowActivated(a) == Free /\ a \in Visible(State) /\ panel.frame /\ ByUser(ShowPageAccount(State, a))
\* Each provider runs a dialog of its own until it has an account or gives up.
ProviderActivated ==
  Free /\ panel.providers /\ world.online /\ ByUser([State EXCEPT !.p.page = "new-account", !.p.before = Rows(State)])
AddReturns(a) ==
  /\ panel.page = "new-account" /\ a \in Rows(State) \ panel.before
  /\ ByUser(ShowPageAccount([State EXCEPT !.p.kept = @ \cup {a}], a))
DialogClosed == ~Free /\ ByUser([HideDialog(State) EXCEPT !.p.active = None])
RemoveButtonClicked == panel.page = "editor" /\ panel.removable /\ ByUser(RemoveActive(State))
UndoButtonClicked == Free /\ panel.reveal /\ ByUser(UndoRemoval(State))
NotificationClosed == Free /\ panel.reveal /\ ByUser(CloseNotification(State))
ErrorClosed == panel.errors > 0 /\ Becomes([State EXCEPT !.p.errors = @ - 1])

\* The window shows another panel; whoever adds an account returns to one that is gone.
Dispose ==
  ByUser([State EXCEPT !.p = [@ EXCEPT !.open = FALSE, !.rows = <<>>, !.frame = FALSE, !.reveal = FALSE,
                                       !.page = None, !.wild = (panel.page = "new-account")]])

-----------------------------------------------------------------------------
(***************************************************************************)
(* Timer and answers, which come whether the panel is there or not.        *)
(***************************************************************************)
\* Each removal under way, and each error, holds the panel.
Removals == {call \in calls : call[1] # "providers"}
Alive == panel.open \/ panel.errors > 0 \/ Removals # {}
IfAlive(s) == Becomes(IF Alive THEN s ELSE [State EXCEPT !.p.wild = TRUE])

RemoveTimeout == panel.timer /\ IfAlive(CloseNotification(State))
GetAllProvidersCb(ok) ==
  /\ <<"providers">> \in calls
  /\ LET s == [State EXCEPT !.c = @ \ {<<"providers">>}] IN IfAlive([s EXCEPT !.p.providers = ok])
RemoveAccountCb(a) ==
  \/ <<"removed", a>> \in calls /\ Becomes([State EXCEPT !.c = @ \ {<<"removed", a>>}])
  \/ /\ <<"failed", a>> \in calls
     /\ Becomes([State EXCEPT !.c = @ \ {<<"failed", a>>}, !.p.errors = @ + 1])

SignalRead ==
  /\ panel.ready /\ panel.open /\ world.said # <<>>
  /\ LET s == [State EXCEPT !.w.said = Tail(@)]
         signal == Head(world.said)
     IN Becomes(CASE signal[1] = "added" -> AccountAdded(s, signal[2])
                  [] signal[1] = "changed" -> AccountChanged(s, signal[2], signal[3])
                  [] signal[1] = "removed" -> AccountRemoved(s, signal[2]))

-----------------------------------------------------------------------------
(***************************************************************************)
(* GOA, other programs and the network.                                    *)
(***************************************************************************)
Gone(s, a) == [s EXCEPT !.w.there = @ \ {a}, !.w.said = Append(@, <<"removed", a>>)]
GoaRemoves(a) ==
  /\ <<"remove", a>> \in calls
  /\ LET s == [State EXCEPT !.c = @ \ {<<"remove", a>>}] IN
     \/ a \in world.there /\ Becomes(Gone([s EXCEPT !.c = @ \cup {<<"removed", a>>}], a))
     \/ a \notin world.there /\ Becomes([s EXCEPT !.c = @ \cup {<<"failed", a>>}])
GoaRefuses(a) ==
  /\ <<"remove", a>> \in calls /\ a \in world.there
  /\ ByOthers([State EXCEPT !.c = (@ \ {<<"remove", a>>}) \cup {<<"failed", a>>}])
AccountMade ==
  \E a \in world.unborn :
    ByOthers([State EXCEPT !.w.unborn = @ \ {a}, !.w.there = @ \cup {a}, !.w.said = Append(@, <<"added", a>>)])
OthersRemove(a) == a \in world.there /\ ByOthers([Gone(State, a) EXCEPT !.w.taken = TRUE])
OthersChange(a) ==
  /\ a \in world.there
  /\ \E locked \in BOOLEAN : ByOthers([State EXCEPT !.w.said = Append(@, <<"changed", a, locked>>)])
NetworkChanged == ByOthers([State EXCEPT !.w.online = ~@])

Next ==
  \/ \E a \in Accounts :
       \/ RowActivated(a) \/ AddReturns(a)
       \/ RemoveAccountCb(a) \/ GoaRemoves(a) \/ GoaRefuses(a)
       \/ OthersRemove(a) \/ OthersChange(a)
  \/ ProviderActivated \/ DialogClosed \/ RemoveButtonClicked
  \/ UndoButtonClicked \/ NotificationClosed \/ ErrorClosed \/ Dispose
  \/ RemoveTimeout \/ (\E ok \in BOOLEAN : GetAllProvidersCb(ok)) \/ SignalRead
  \/ AccountMade \/ NetworkChanged
Spec == Init /\ [][Next]_vars

-----------------------------------------------------------------------------
(***************************************************************************)
(* Properties.                                                             *)
(***************************************************************************)
\* What is sent to be removed was removed here and not taken back, whatever was shown, undone and
\* removed since, and is not forgotten; a removal that waits has its notification and its timer.
RemovesWhatWasAsked ==
  /\ \A call \in Removals : call[2] \in world.asked
  /\ panel.wild \/ world.asked \subseteq {panel.removed} \cup world.sent
  /\ panel.removed # None => panel.removed \in world.asked /\ panel.timer
  /\ panel.open => (panel.reveal <=> panel.removed # None)

\* When everything is heard the rows are the accounts of GOA, and hidden are those that were removed
\* here, also when GOA refused.  A row that is to be seen is not in a hidden frame.
RowsAreTheAccounts ==
  panel.open /\ panel.ready /\ ~panel.wild =>
    /\ world.said = <<>> => Rows(State) = world.there
    /\ Visible(State) = Rows(State) \ world.asked
    /\ Visible(State) # {} => panel.frame

\* The dialog is about the account that its button removes, and a closed one does not come back when
\* that account changes.
DialogIsAboutActive ==
  panel.open /\ ~panel.wild =>
    IF panel.page = "editor" THEN panel.active = panel.editor /\ panel.active # None ELSE panel.active = None

\* Nothing that was freed is used, as long as no other program removes accounts and the panel stays.
UsesWhatItHolds == panel.wild => world.taken \/ ~panel.open
=============================================================================
