---------------------------- MODULE UserAccounts ----------------------------
(***************************************************************************)
(* The panel of the users and the dialog that it opens to add one.  The    *)
(* panel sees of the dialog that it is open, that an account appears while *)
(* it is, and that it answers; the dialog sees nothing of the panel.  A    *)
(* behaviour follows one of them, and the other one stays as it began.     *)
(***************************************************************************)
EXTENDS UserPanel, AccountDialog

VARIABLE followed   \* "panel" or "dialog"

userAccountsVars == <<userPanelVars, accountDialogVars, followed>>

Init ==
  /\ UserPanelInit /\ AccountDialogInit
  /\ \/ /\ followed = "panel"
        /\ world.allowed /\ world.configured = CHOOSE c \in InitialConfigured : TRUE
     \/ followed = "dialog" /\ accounts = CHOOSE a \in InitialAccounts : TRUE
Next ==
  \/ followed = "panel" /\ UserPanelNext /\ UNCHANGED <<accountDialogVars, followed>>
  \/ followed = "dialog" /\ AccountDialogNext /\ UNCHANGED <<userPanelVars, followed>>

\* realmd and the accounts service answer, or D-Bus does for them, kinit ends, and the main
\* loop runs what is queued; the user and the starts of realmd are not relied on.
Fairness ==
  WF_userAccountsVars(followed = "dialog" /\ DialogAnswers /\ UNCHANGED <<userPanelVars, followed>>)
Spec == Init /\ [][Next]_userAccountsVars /\ Fairness

-----------------------------------------------------------------------------
(***************************************************************************)
(* Properties.                                                             *)
(***************************************************************************)

\* The rows are known users and headings, the question and the deletions are about known
\* users, and what waits for an answer is a known request of the domain chain.
UserAccountsTypeOK ==
  /\ panel.life \in {"shown", "disposed", "misused"}
  /\ ToSet(panel.listed) \subseteq Users \cup {MyAccount, OtherAccounts}
  /\ panel.selected \in Users \cup {NoUser} /\ panel.other_accounts \in 0..Cardinality(Users \ {Self})
  /\ question.about \in Users \cup {NoUser}
  /\ \A r \in deletions : {r.user, r.about} \subseteq Users
  /\ dlg.life \in {"shown", "completing", "destroyed", "misused", "aborted"}
  /\ dlg.domain \in Realms \cup {NoRealm, Typed} /\ dlg.realms \subseteq Realms
  /\ \A c \in calls : c.op \in {"manager", "permission", "create", "loading", "discover",
                                "login", "join_login", "join", "permit", "cache"}

\* The list has one row for each user that the library knows, in order, and the second heading
\* only if somebody is below it; the details are those of the selected row, as the library
\* has them, and nothing of another user can be changed without the permission.
PanelShowsUsers ==
  LET known == {u \in Users : cache[u] # NoAccount}
      rows == panel.listed
  IN /\ UserAccountsTypeOK
     /\ panel.life = "shown" =>
          /\ ToSet(rows) = {MyAccount} \cup known
                           \cup (IF known \ {Self} # {} THEN {OtherAccounts} ELSE {})
          /\ \A i, j \in DOMAIN rows : i < j => SortUsers(cache, rows[i], rows[j])
          /\ panel.vbox <=> panel.selected # NoUser
          /\ panel.vbox => /\ panel.selected \in known
                           /\ panel.details.user = panel.selected
                           /\ panel.details.account = cache[panel.selected]
                           /\ panel.details.remove \/ panel.details.type => panel.allowed

\* The user whose account is deleted is the one that the question named, unless a user was
\* removed while the question was open: that moves the selection, which the answer acts on.
DeletesTheUserAsked ==
  \A r \in deletions : r.user = r.about \/ r.moved

\* "You cannot delete your own account."
NeverDeletesSelf ==
  \A r \in deletions : r.user # Self

\* The chain of a domain user goes through its steps in order, whatever fails and is retried:
\* the machine joins only a realm that it does not belong to, a login is permitted only where
\* it belongs, and the accounts service is told of exactly the login that was permitted there.
\* Of two requests at once, which a start or an end of realmd makes possible, nothing is said.
ChainInOrder ==
  ~world.overlap =>
    \A c \in calls :
      /\ c.op \in {"join_login", "join"} => c.on \in Realms \ world.configured
      /\ c.op = "permit" => c.on \in world.configured
      /\ c.op = "cache" => c.on \in world.configured /\ <<c.on, c.login>> \in world.permitted

\* A request of the dialog ends: the user can edit again, the administrator is asked, or the
\* dialog is done; unless there is no manager left that a typed domain could be asked of.
RequestEnds ==
  (dlg.life = "shown" /\ ~dlg.controls /\ \E c \in calls : c.op # "manager")
  ~> (dlg.controls \/ dlg.join_shown \/ dlg.life # "shown"
      \/ (dlg.mode = "enterprise" /\ dlg.domain = Typed /\ dlg.manager = 0))
=============================================================================
