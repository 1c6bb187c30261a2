----------------------------- MODULE UserPanel -----------------------------
(***************************************************************************)
(* The list of users and the details of the selected one                   *)
(* (um-user-panel.c), against the accounts service, which other tools      *)
(* change too.                                                             *)
(*                                                                         *)
(* The panel reads the accounts from the cache of the client library,      *)
(* which follows the service with a delay, and changes them at the         *)
(* service.  What it keeps itself is the rows, the selection, and which    *)
(* widgets can be used, computed when the details are shown.  A question   *)
(* stands between the user and a deletion; while it is open he can do      *)
(* nothing else, but signals are handled.                                  *)
(*                                                                         *)
(* An account is [admin, in (logged in), auto (automatic login), name].    *)
(* Left out: locked accounts, pictures, languages, passwords.              *)
(***************************************************************************)
EXTENDS Integers, FiniteSets, SequencesExt, Lists

CONSTANTS
  Users,            \* the users that may exist
  Self,             \* the one who runs the panel
  Local,            \* those with a local account
  Uid,              \* the order of users with the same name
  Names,            \* real names, in the order of their collation
  InitialAccounts,  \* a set of functions from Users: what the service has at the start
  NoUser, NoAccount,
  MyAccount, OtherAccounts,  \* the headings
  MaxChanges        \* how often accounts are changed, by the panel or by other tools

ASSUME UsersAssumption ==
  /\ Self \in Users /\ Local \subseteq Users /\ NoUser \notin Users
  /\ {MyAccount, OtherAccounts} \cap (Users \cup {NoUser}) = {} /\ MyAccount # OtherAccounts
  /\ Uid \in [Users -> Nat] /\ Names \subseteq Nat
  /\ MaxChanges \in Nat

\* An account, and who has none; nobody has the uid of another one.
AnAccount == [admin : BOOLEAN, in : BOOLEAN, auto : BOOLEAN, name : Names]
ASSUME InitialAssumption ==
  /\ IsFiniteSet(Users) /\ \A u, v \in Users : Uid[u] = Uid[v] => u = v
  /\ NoAccount \notin AnAccount /\ InitialAccounts \subseteq [Users -> AnAccount \cup {NoAccount}]

VARIABLES
  accounts,   \* the accounts service
  cache,      \* what the client library says of it
  panel,      \* CcUserPanelPrivate and its widgets
  question,   \* the message that waits for an answer
  adding,     \* the dialog that adds an account, as the panel sees it
  deletions,  \* the requests to delete a user
  changes

userPanelVars == <<accounts, cache, panel, question, adding, deletions, changes>>

-----------------------------------------------------------------------------
(***************************************************************************)
(* The list of users.                                                      *)
(***************************************************************************)

SortKey(row) ==
  CASE row = MyAccount -> 0 [] row = Self -> 1 [] row = OtherAccounts -> 2 [] OTHER -> 3

\* sort_users: act_user_collate decides between other users.
SortUsers(c, row1, row2) ==
  \/ SortKey(row1) < SortKey(row2)
  \/ /\ SortKey(row1) = 3 /\ SortKey(row2) = 3
     /\ \/ c[row1].name < c[row2].name
        \/ c[row1].name = c[row2].name /\ Uid[row1] < Uid[row2]

\* The list store keeps its rows sorted.
InsertRow(c, rows, row) ==
  LET before == {i \in DOMAIN rows : SortUsers(c, rows[i], row)}
  IN Kept(rows, before) \o <<row>> \o Kept(rows, DOMAIN rows \ before)
DeleteRow(rows, row) == Kept(rows, {i \in DOMAIN rows : rows[i] # row})

\* Of the rows around a removed one: the next user, or else the previous one.
GetNextUserRow(rows, row) ==
  LET at == CHOOSE i \in DOMAIN rows : rows[i] = row
      after == {i \in DOMAIN rows : i > at /\ rows[i] \in Users}
      before == {i \in DOMAIN rows : i < at /\ rows[i] \in Users}
  IN IF after # {} THEN rows[CHOOSE i \in after : \A j \in after : i <= j]
     ELSE IF before # {} THEN rows[CHOOSE i \in before : \A j \in before : i >= j]
     ELSE NoUser

-----------------------------------------------------------------------------
(***************************************************************************)
(* The details.                                                            *)
(***************************************************************************)

WouldDemoteOnlyAdmin(c, u) ==
  c[u].admin /\ Cardinality({v \in Users : c[v] # NoAccount /\ c[v].admin}) <= 1

\* show_user and on_permission_changed, which ends it
Details(c, u, allowed) ==
  [user |-> u, account |-> c[u],
   remove |-> allowed /\ u # Self /\ ~WouldDemoteOnlyAdmin(c, u),
   type |-> allowed /\ u \in Local /\ ~WouldDemoteOnlyAdmin(c, u),
   autologin |-> allowed /\ u \in Local,
   name |-> u \in Local /\ (allowed \/ u = Self)]
ShowUser(c, p) ==
  [p EXCEPT !.details = Details(c, p.selected, p.allowed), !.add = p.allowed]

\* selected_user_changed, which GTK calls when the selection is another one
SelectUser(c, p, u) ==
  IF u = p.selected THEN p
  ELSE IF u = NoUser THEN [p EXCEPT !.selected = u, !.vbox = FALSE]
  ELSE [ShowUser(c, [p EXCEPT !.selected = u]) EXCEPT !.vbox = TRUE]

\* Mutant: the heading is shown for every other user that is added.
HeadedUserAdded(c, p, u) ==
  LET other == u # Self
      listed == InsertRow(c, p.listed, u)
      q == [p EXCEPT !.listed = listed, !.other_accounts = @ + IF other THEN 1 ELSE 0]
      s == IF ~other /\ p.selected = NoUser THEN SelectUser(c, q, u) ELSE q
  IN IF other THEN [s EXCEPT !.listed = InsertRow(c, @, OtherAccounts), !.other_iter = TRUE] ELSE s

UserAdded(c, p, u) ==
  LET other == u # Self
      listed == InsertRow(c, p.listed, u)
      q == [p EXCEPT !.listed = listed, !.other_accounts = @ + IF other THEN 1 ELSE 0]
      s == IF ~other /\ p.selected = NoUser THEN SelectUser(c, q, u) ELSE q
  IN IF other /\ s.other_accounts = 1
     THEN [s EXCEPT !.listed = InsertRow(c, @, OtherAccounts), !.other_iter = TRUE]
     ELSE s

UserRemoved(c, p, u) ==
  LET next == GetNextUserRow(p.listed, u)
      q == [p EXCEPT !.listed = DeleteRow(@, u),
                     !.other_accounts = @ - IF u # Self THEN 1 ELSE 0]
      s == SelectUser(c, q, next)
  IN IF s.other_iter /\ s.other_accounts = 0 /\ u # Self
     THEN [s EXCEPT !.listed = DeleteRow(@, OtherAccounts), !.other_iter = FALSE]
     ELSE s

\* The row is set anew, which sorts it, and the details if they are this user's.
UserChanged(c, p, u) ==
  LET q == [p EXCEPT !.listed = InsertRow(c, DeleteRow(@, u), u)]
  IN IF p.selected = u THEN ShowUser(c, q) ELSE q

-----------------------------------------------------------------------------
(***************************************************************************)
(* The service and its signals.                                            *)
(***************************************************************************)

Alive == panel.life = "shown"
Exists(u) == accounts[u] # NoAccount
Change == changes < MaxChanges /\ changes' = changes + 1

\* The users that the library knows, one after the other
AllAdded(c, p, users) ==
  LET added[n \in 0..Len(users)] == IF n = 0 THEN p ELSE UserAdded(c, added[n - 1], users[n])
  IN added[Len(users)]

\* users_loaded: with the service, or after it could not be reached
UsersLoaded(service) ==
  /\ Alive /\ ~panel.loaded
  /\ IF service
     THEN LET users == {u \in Users : Exists(u)}
              all == AllAdded(accounts, panel, SetToSeq(users))
          IN /\ cache' = accounts
             /\ panel' = [panel EXCEPT !.loaded = TRUE, !.listed = all.listed,
                            !.other_accounts = all.other_accounts, !.other_iter = all.other_iter,
                            !.selected = all.selected, !.vbox = all.vbox,
                            !.details = all.details, !.add = all.add]
     ELSE panel' = [panel EXCEPT !.loaded = TRUE, !.sensitive = FALSE] /\ UNCHANGED cache
  /\ UNCHANGED <<accounts, question, adding, deletions, changes>>

\* The library hears of a change of one user.
Deliver(u) ==
  /\ Alive /\ panel.loaded /\ panel.sensitive /\ cache[u] # accounts[u]
  /\ cache' = [cache EXCEPT ![u] = accounts[u]]
  /\ panel' = IF cache[u] = NoAccount THEN UserAdded(cache', panel, u)
              ELSE IF accounts[u] = NoAccount THEN UserRemoved(cache', panel, u)
              ELSE UserChanged(cache', panel, u)
  /\ question' = [question EXCEPT !.moved = @ \/ (accounts[u] = NoAccount /\ question.kind = "delete")]
  /\ UNCHANGED <<accounts, adding, deletions, changes>>

NewAccount(admin, name) == [admin |-> admin, in |-> FALSE, auto |-> FALSE, name |-> name]

\* At most one user is logged in without being asked.
SetAutomaticLogin(a, u, on) ==
  [v \in Users |-> IF v = u THEN [a[u] EXCEPT !.auto = on]
                   ELSE IF on /\ a[v] # NoAccount THEN [a[v] EXCEPT !.auto = FALSE]
                   ELSE a[v]]

\* Another tool; a removed user is not added again before everybody heard of it.
OtherTool(u) ==
  /\ Alive /\ Change
  /\ \/ ~Exists(u) /\ cache[u] = NoAccount
        /\ \E admin \in BOOLEAN, n \in Names : accounts' = [accounts EXCEPT ![u] = NewAccount(admin, n)]
     \/ Exists(u) /\ u # Self /\ accounts' = [accounts EXCEPT ![u] = NoAccount]
     \/ Exists(u) /\ accounts' = [accounts EXCEPT ![u].admin = ~@]
     \/ Exists(u) /\ u # Self /\ accounts' = [accounts EXCEPT ![u].in = ~@]
  /\ UNCHANGED <<cache, panel, question, adding, deletions>>

\* The lock button, or the time limit of an authorization.
PermissionChanged ==
  /\ Alive
  /\ LET p == [panel EXCEPT !.allowed = ~@]
     IN panel' = IF p.selected = NoUser THEN p ELSE ShowUser(cache, p)
  /\ UNCHANGED <<accounts, cache, question, adding, deletions, changes>>

-----------------------------------------------------------------------------
(***************************************************************************)
(* The user.                                                               *)
(***************************************************************************)

NotAdding == [open |-> FALSE, created |-> NoUser, answered |-> FALSE]
NoQuestion == [kind |-> "none", about |-> NoUser, moved |-> FALSE]
\* Mutant: the question is not modal.
ModelessAtPanel ==
  /\ Alive /\ panel.sensitive
  /\ ~adding.open /\ ~adding.answered

\* A click takes several events, the main loop handles the answer of a dialog before them.
AtPanel ==
  /\ Alive /\ panel.sensitive /\ question.kind = "none"
  /\ ~adding.open /\ ~adding.answered
Frame == UNCHANGED <<cache, adding, deletions>>

SelectRow(u) ==
  /\ AtPanel /\ u \in ToSet(panel.listed) /\ u # panel.selected
  /\ panel' = SelectUser(cache, panel, u)
  /\ UNCHANGED <<accounts, question, changes>> /\ Frame

ChangeNameDone(n) ==
  /\ AtPanel /\ panel.vbox /\ panel.details.name
  /\ n # cache[panel.selected].name /\ Exists(panel.selected)
  /\ Change
  /\ accounts' = [accounts EXCEPT ![panel.selected].name = n]
  /\ UNCHANGED <<panel, question>> /\ Frame

AccountTypeChanged ==
  /\ AtPanel /\ panel.vbox /\ panel.details.type /\ Exists(panel.selected)
  /\ Change
  /\ LET admin == ~panel.details.account.admin
     IN accounts' = IF admin # cache[panel.selected].admin
                    THEN [accounts EXCEPT ![panel.selected].admin = admin] ELSE accounts
  /\ UNCHANGED <<panel, question>> /\ Frame

\* The switch is the one that the details showed.  What the library says after the change is
\* what it said before, so that the loop over the other users runs when the switch goes off.
AutologinChanged ==
  LET u == panel.selected
      active == ~panel.details.account.auto
      stale == cache[u].auto
      others == {v \in Users \ {u} : cache[v] # NoAccount}
      set == SetAutomaticLogin(accounts, u, active)
  IN /\ AtPanel /\ panel.vbox /\ panel.details.autologin /\ Exists(u)
     /\ active # stale
     /\ Change
     /\ accounts' = IF stale /\ others # {} THEN SetAutomaticLogin(set, u, FALSE) ELSE set
     /\ UNCHANGED <<panel, question>> /\ Frame

DeleteUser ==
  /\ AtPanel /\ panel.selected # NoUser
  /\ panel.details.remove
  /\ question' = [kind |-> IF panel.selected = Self THEN "own"
                           ELSE IF cache[panel.selected].in THEN "logged_in" ELSE "delete",
                  about |-> panel.selected, moved |-> FALSE]
  /\ UNCHANGED <<accounts, panel, changes>> /\ Frame

\* A message only, or Escape, which destroys the question without an answer.
CloseMessage ==
  /\ question.kind # "none"
  /\ question' = NoQuestion
  /\ UNCHANGED <<accounts, panel, changes>> /\ Frame

\* "closed" is the window's own button: any answer but Cancel and Delete Files keeps the files
\* and deletes the account.  The user is the one selected now.
DeleteUserResponse(response) ==
  /\ question.kind = "delete"
  /\ question' = NoQuestion
  /\ LET u == panel.selected
     IN IF response = "cancel" \/ (Alive /\ u = NoUser)
        THEN UNCHANGED <<accounts, panel, deletions, changes>>
        ELSE IF ~Alive
        THEN panel' = [panel EXCEPT !.life = "misused"] /\ UNCHANGED <<accounts, deletions, changes>>
        ELSE /\ Change
             /\ accounts' = IF cache[u].auto /\ Exists(u)
                            THEN SetAutomaticLogin(accounts, u, FALSE) ELSE accounts
             /\ deletions' = deletions \cup
                  {[user |-> u, about |-> question.about, moved |-> question.moved]}
             /\ UNCHANGED panel
  /\ UNCHANGED <<cache, adding>>

\* The service deletes the user or refuses; an error is shown over the panel.
DeleteUserDone(r, ok) ==
  /\ r \in deletions
  /\ deletions' = deletions \ {r}
  /\ accounts' = IF ok THEN [accounts EXCEPT ![r.user] = NoAccount] ELSE accounts
  /\ panel' = IF ~ok /\ ~Alive THEN [panel EXCEPT !.life = "misused"] ELSE panel
  /\ UNCHANGED <<cache, question, adding, changes>>

-----------------------------------------------------------------------------
(***************************************************************************)
(* Adding a user; AccountDialog says what happens behind it.               *)
(***************************************************************************)

AddUser ==
  /\ AtPanel /\ panel.add
  /\ adding' = [NotAdding EXCEPT !.open = TRUE]
  /\ UNCHANGED <<accounts, cache, panel, question, deletions, changes>>

AccountCreated(u) ==
  /\ adding.open /\ adding.created = NoUser
  /\ ~Exists(u) /\ cache[u] = NoAccount
  /\ Change
  /\ \E admin \in BOOLEAN, n \in Names : accounts' = [accounts EXCEPT ![u] = NewAccount(admin, n)]
  /\ adding' = [adding EXCEPT !.created = u]
  /\ UNCHANGED <<cache, panel, question, deletions>>

\* complete_dialog: with the new user, or cancelled whatever the service did
AccountDialogCompletes(u) ==
  /\ adding.open /\ u \in {NoUser, adding.created}
  /\ adding' = [open |-> FALSE, created |-> u, answered |-> TRUE]
  /\ UNCHANGED <<accounts, cache, panel, question, deletions, changes>>

\* The row is there if the library has announced the user already.
SelectCreatedUser ==
  /\ adding.answered
  /\ adding' = NotAdding
  /\ panel' = IF ~Alive THEN [panel EXCEPT !.life = "misused"]
              ELSE IF adding.created \in ToSet(panel.listed)
              THEN SelectUser(cache, panel, adding.created) ELSE panel
  /\ UNCHANGED <<accounts, cache, question, deletions, changes>>

\* The shell shows another panel, which a command from outside asks for at any time.  The
\* question stays, and the dialog answers that it was closed, to a panel that is gone.
Dispose ==
  /\ Alive
  /\ panel' = [panel EXCEPT !.life = "disposed"]
  /\ adding' = IF adding.open THEN [NotAdding EXCEPT !.answered = TRUE] ELSE adding
  /\ UNCHANGED <<accounts, cache, question, deletions, changes>>

-----------------------------------------------------------------------------
UserPanelInit ==
  /\ accounts \in InitialAccounts
  /\ cache = [u \in Users |-> NoAccount]
  /\ panel = [life |-> "shown", loaded |-> FALSE, sensitive |-> TRUE,
              listed |-> <<MyAccount>>, other_accounts |-> 0, other_iter |-> FALSE,
              selected |-> NoUser, vbox |-> FALSE, allowed |-> FALSE,
              add |-> TRUE,
              details |-> [user |-> NoUser, account |-> NoAccount, remove |-> TRUE,
                           type |-> FALSE, autologin |-> FALSE, name |-> FALSE]]
  /\ question = NoQuestion
  /\ adding = NotAdding
  /\ deletions = {}
  /\ changes = 0

UserPanelNext ==
  /\ panel.life # "misused"
  /\ \/ \E service \in BOOLEAN : UsersLoaded(service)
     \/ \E u \in Users : Deliver(u) \/ OtherTool(u) \/ SelectRow(u) \/ AccountCreated(u)
     \/ PermissionChanged
     \/ \E n \in Names : ChangeNameDone(n)
     \/ AccountTypeChanged \/ AutologinChanged
     \/ DeleteUser \/ CloseMessage
     \/ \E response \in {"cancel", "delete_files", "keep_files", "closed"} :
          DeleteUserResponse(response)
     \/ \E r \in deletions, ok \in BOOLEAN : DeleteUserDone(r, ok)
     \/ AddUser \/ SelectCreatedUser \/ Dispose
     \/ \E u \in Users \cup {NoUser} : AccountDialogCompletes(u)
=============================================================================
