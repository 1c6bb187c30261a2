------------------------- MODULE UserAccountsProofs -------------------------
(***************************************************************************)
(* Proofs about the panel of the users and its dialog: the user whose      *)
(* account is deleted is the one that the question named, the list shows   *)
(* the users that the library knows, and the chain of requests for a user  *)
(* of a domain goes through its steps in order.                            *)
(***************************************************************************)
EXTENDS UserAccounts, FiniteSetTheorems, TLAPS

-----------------------------------------------------------------------------
(***************************************************************************)
(* The panel.  While a question is open nothing moves the selection but    *)
(* the removal of a user.                                                  *)
(***************************************************************************)

PanelFields == {"life", "loaded", "sensitive", "listed", "other_accounts", "other_iter",
                "selected", "vbox", "allowed", "add", "details"}

\* A question was asked of a panel that had its users, and is not about nobody; the dialog
\* that adds a user is not behind it.  The user it asks about stays selected, or somebody was
\* removed since.
QuestionOpen == Alive /\ question.kind # "none"
QuestionInv ==
  /\ DOMAIN panel = PanelFields
  /\ DOMAIN question = {"kind", "about", "moved"} /\ question.moved \in BOOLEAN
  /\ DOMAIN adding = {"open", "created", "answered"} /\ adding.created \in Users \cup {NoUser}
  /\ ~panel.loaded => panel.selected = NoUser /\ panel.listed = <<MyAccount>>
  /\ QuestionOpen => panel.loaded /\ ~adding.open /\ ~adding.answered
  /\ question.kind = "delete" => question.about # NoUser
  /\ Alive /\ question.kind = "delete" => question.moved \/ question.about = panel.selected

PanelInv == QuestionInv /\ DeletesTheUserAsked

\* Two states of the panel between which it was not loaded or disposed.
SamePanel(p, q) == DOMAIN q = DOMAIN p /\ q.life = p.life /\ q.loaded = p.loaded
SameSelection(p, q) == SamePanel(p, q) /\ q.selected = p.selected

\* Details are shown without a change of the selection.
LEMMA ShowUserKeeps ==
  ASSUME NEW c, NEW p, DOMAIN p = PanelFields
  PROVE  SameSelection(p, ShowUser(c, p)) /\ ShowUser(c, p).listed = p.listed
BY DEF ShowUser, SameSelection, SamePanel, PanelFields

LEMMA SelectUserKeeps ==
  ASSUME NEW c, NEW p, DOMAIN p = PanelFields, NEW u
  PROVE  SamePanel(p, SelectUser(c, p, u)) /\ SelectUser(c, p, u).selected = u
<1> DEFINE q == [p EXCEPT !.selected = u]
           s == ShowUser(c, q)
<1>1. DOMAIN q = PanelFields /\ SamePanel(p, q) /\ q.selected = u
  BY DEF PanelFields, SamePanel
<1>2. SameSelection(q, s)
  BY <1>1, ShowUserKeeps
<1>3. SelectUser(c, p, u) = IF u = p.selected THEN p
                            ELSE IF u = NoUser THEN [p EXCEPT !.selected = u, !.vbox = FALSE]
                            ELSE [s EXCEPT !.vbox = TRUE]
  BY DEF SelectUser
<1> HIDE DEF q, s
<1> QED
  BY <1>1, <1>2, <1>3 DEF SameSelection, SamePanel, PanelFields

\* A user who appears is selected only if nobody is.
LEMMA UserAddedKeeps ==
  ASSUME NEW c, NEW p, DOMAIN p = PanelFields, NEW u
  PROVE  /\ SamePanel(p, UserAdded(c, p, u))
         /\ p.selected # NoUser => UserAdded(c, p, u).selected = p.selected
<1> DEFINE other == u # Self
           q == [p EXCEPT !.listed = InsertRow(c, p.listed, u),
                          !.other_accounts = @ + IF other THEN 1 ELSE 0]
           s == IF ~other /\ p.selected = NoUser THEN SelectUser(c, q, u) ELSE q
           result == IF other /\ s.other_accounts = 1
                     THEN [s EXCEPT !.listed = InsertRow(c, @, OtherAccounts), !.other_iter = TRUE]
                     ELSE s
<1>1. UserAdded(c, p, u) = result
  BY DEF UserAdded
<1>2. SameSelection(p, q)
  BY DEF SameSelection, SamePanel, PanelFields
<1>3. SamePanel(q, SelectUser(c, q, u))
  <2>1. DOMAIN q = PanelFields
    BY DEF PanelFields
  <2> QED
    BY <2>1, SelectUserKeeps
<1> HIDE DEF q
<1>4. SamePanel(p, s) /\ (p.selected # NoUser => s.selected = p.selected)
  BY <1>2, <1>3 DEF SameSelection, SamePanel
<1> HIDE DEF s
<1>5. SameSelection(s, result)
  BY <1>4 DEF SameSelection, SamePanel, PanelFields
<1> HIDE DEF result
<1> QED
  BY <1>1, <1>4, <1>5 DEF SameSelection, SamePanel

LEMMA UserRemovedKeeps ==
  ASSUME NEW c, NEW p, DOMAIN p = PanelFields, NEW u
  PROVE  SamePanel(p, UserRemoved(c, p, u))
<1> DEFINE next == GetNextUserRow(p.listed, u)
           q == [p EXCEPT !.listed = DeleteRow(@, u),
                          !.other_accounts = @ - IF u # Self THEN 1 ELSE 0]
           s == SelectUser(c, q, next)
           result == IF s.other_iter /\ s.other_accounts = 0 /\ u # Self
                     THEN [s EXCEPT !.listed = DeleteRow(@, OtherAccounts), !.other_iter = FALSE]
                     ELSE s
<1>1. UserRemoved(c, p, u) = result
  BY DEF UserRemoved
<1>2. SamePanel(p, q) /\ DOMAIN q = PanelFields
  BY DEF SamePanel, PanelFields
<1> HIDE DEF q
<1>3. SamePanel(q, s)
  BY <1>2, SelectUserKeeps
<1> HIDE DEF s
<1>4. SamePanel(s, result)
  BY <1>2, <1>3 DEF SamePanel, PanelFields
<1> HIDE DEF result
<1> QED
  BY <1>1, <1>2, <1>3, <1>4 DEF SamePanel

LEMMA UserChangedKeeps ==
  ASSUME NEW c, NEW p, DOMAIN p = PanelFields, NEW u
  PROVE  SameSelection(p, UserChanged(c, p, u))
<1> DEFINE q == [p EXCEPT !.listed = InsertRow(c, DeleteRow(@, u), u)]
<1>1. UserChanged(c, p, u) = IF p.selected = u THEN ShowUser(c, q) ELSE q
  BY DEF UserChanged
<1>2. SameSelection(p, q) /\ DOMAIN q = PanelFields
  BY DEF SameSelection, SamePanel, PanelFields
<1> HIDE DEF q
<1>3. SameSelection(q, ShowUser(c, q))
  BY <1>2, ShowUserKeeps
<1> QED
  BY <1>1, <1>2, <1>3 DEF SameSelection, SamePanel

\* Before the users are loaded there is no row of a user.
LEMMA NoRowYet ==
  ASSUME QuestionInv, ~panel.loaded
  PROVE  \A u \in Users \cup {NoUser} : u \notin ToSet(panel.listed)
<1>1. panel.listed = <<MyAccount>>
  BY DEF QuestionInv
<1>2. \A u : u \in ToSet(panel.listed) => u = MyAccount
  BY <1>1 DEF ToSet
<1> QED
  BY <1>2, UsersAssumption

\* What follows for a step that leaves the question and the deletions alone.
LEMMA SelectionKept ==
  ASSUME QuestionInv, DeletesTheUserAsked,
         SameSelection(panel, panel') \/ (panel'.life # "shown" /\ DOMAIN panel' = PanelFields
                                          /\ panel'.loaded = panel.loaded
                                          /\ panel'.selected = panel.selected),
         panel.loaded \/ panel'.listed = panel.listed,
         UNCHANGED <<question, adding, deletions>>
  PROVE  PanelInv'
<1> QED
  BY DEF PanelInv, QuestionInv, QuestionOpen, DeletesTheUserAsked, Alive, SameSelection, SamePanel

LEMMA UsersLoadedInv ==
  ASSUME PanelInv, NEW service \in BOOLEAN, UsersLoaded(service)
  PROVE  PanelInv'
<1>1. UNCHANGED <<question, adding, deletions>> /\ Alive /\ ~panel.loaded
  BY DEF UsersLoaded
<1>2. ~QuestionOpen /\ question.kind = "none"
  BY <1>1 DEF PanelInv, QuestionInv, QuestionOpen
<1>3. DOMAIN panel' = PanelFields /\ panel'.loaded
  <2> DEFINE all == AllAdded(accounts, panel, SetToSeq({u \in Users : Exists(u)}))
             there == [panel EXCEPT !.loaded = TRUE, !.listed = all.listed,
                         !.other_accounts = all.other_accounts, !.other_iter = all.other_iter,
                         !.selected = all.selected, !.vbox = all.vbox,
                         !.details = all.details, !.add = all.add]
             gone == [panel EXCEPT !.loaded = TRUE, !.sensitive = FALSE]
  <2>1. panel' = there \/ panel' = gone
    BY DEF UsersLoaded
  <2> HIDE DEF all
  <2>2. DOMAIN there = PanelFields /\ there.loaded
    BY DEF PanelInv, QuestionInv, PanelFields
  <2>3. DOMAIN gone = PanelFields /\ gone.loaded
    BY DEF PanelInv, QuestionInv, PanelFields
  <2> QED
    BY <2>1, <2>2, <2>3
<1> QED
  BY <1>1, <1>2, <1>3 DEF PanelInv, QuestionInv, QuestionOpen, DeletesTheUserAsked, Alive

\* The signals of the service: only a removal can take the user of the question from the
\* selection, and the question says that one came.
LEMMA DeliverInv ==
  ASSUME PanelInv, NEW u \in Users, Deliver(u)
  PROVE  PanelInv'
<1> USE DEF PanelInv, QuestionInv
<1>1. /\ Alive /\ panel.loaded /\ cache[u] # accounts[u]
      /\ question' = [question EXCEPT !.moved = @ \/ (accounts[u] = NoAccount /\ question.kind = "delete")]
      /\ UNCHANGED <<adding, deletions>>
  BY DEF Deliver
<1>2. /\ DOMAIN question' = DOMAIN question /\ question'.kind = question.kind
      /\ question'.about = question.about
      /\ question'.moved = (question.moved \/ (accounts[u] = NoAccount /\ question.kind = "delete"))
  BY <1>1
<1>3. SamePanel(panel, panel')
  <2>1. SamePanel(panel, UserAdded(cache', panel, u))
    BY UserAddedKeeps
  <2>2. SamePanel(panel, UserRemoved(cache', panel, u))
    BY UserRemovedKeeps
  <2>3. SamePanel(panel, UserChanged(cache', panel, u))
    BY UserChangedKeeps DEF SameSelection
  <2> QED
    BY <2>1, <2>2, <2>3 DEF Deliver
<1>4. accounts[u] # NoAccount /\ panel.selected # NoUser => panel'.selected = panel.selected
  <2>1. panel.selected # NoUser => UserAdded(cache', panel, u).selected = panel.selected
    BY UserAddedKeeps
  <2>2. UserChanged(cache', panel, u).selected = panel.selected
    BY UserChangedKeeps DEF SameSelection
  <2> QED
    BY <2>1, <2>2 DEF Deliver
<1>5. QuestionInv'
  <2>1. question'.moved \in BOOLEAN
    BY <1>2
  <2>2. QuestionOpen' => QuestionOpen
    BY <1>2, <1>3 DEF QuestionOpen, Alive, SamePanel
  <2>3. Alive' /\ question'.kind = "delete" => question'.moved \/ question'.about = panel'.selected
    BY <1>2, <1>3, <1>4, <1>1 DEF SamePanel
  <2> QED
    BY <1>1, <1>2, <1>3, <2>1, <2>2, <2>3 DEF SamePanel
<1> QED
  BY <1>1, <1>5 DEF DeletesTheUserAsked

\* The deletion that is asked for is of the selected user.
LEMMA DeleteUserResponseInv ==
  ASSUME PanelInv, NEW response, DeleteUserResponse(response)
  PROVE  PanelInv'
<1> USE DEF PanelInv
<1>1. question.kind = "delete" /\ question' = NoQuestion /\ adding' = adding
  BY DEF DeleteUserResponse
<1>2. \/ panel' = panel
      \/ ~Alive /\ panel' = [panel EXCEPT !.life = "misused"]
  BY DEF DeleteUserResponse
<1>3. \/ deletions' = deletions
      \/ /\ Alive
         /\ deletions' = deletions \cup {[user |-> panel.selected, about |-> question.about,
                                         moved |-> question.moved]}
  BY DEF DeleteUserResponse
<1>4. QuestionInv'
  BY <1>1, <1>2 DEF QuestionInv, QuestionOpen, NoQuestion, Alive, PanelFields
<1>5. DeletesTheUserAsked'
  BY <1>1, <1>3 DEF DeletesTheUserAsked, QuestionInv
<1> QED
  BY <1>4, <1>5

LEMMA SelectCreatedUserInv ==
  ASSUME PanelInv, SelectCreatedUser
  PROVE  PanelInv'
<1> USE DEF PanelInv, QuestionInv
<1>1. adding.answered /\ adding' = NotAdding /\ UNCHANGED <<question, deletions>>
  BY DEF SelectCreatedUser
<1>2. ~QuestionOpen
  BY <1>1
<1>3. \/ ~Alive /\ panel' = [panel EXCEPT !.life = "misused"]
      \/ panel' = panel
      \/ /\ Alive /\ adding.created \in ToSet(panel.listed)
         /\ panel' = SelectUser(cache, panel, adding.created)
  BY DEF SelectCreatedUser
<1>4. DOMAIN panel' = PanelFields /\ panel'.loaded = panel.loaded
  BY <1>3, SelectUserKeeps DEF SamePanel, PanelFields
<1>5. ~panel'.loaded => panel'.selected = NoUser /\ panel'.listed = <<MyAccount>>
  <2>1. CASE panel' = [panel EXCEPT !.life = "misused"]
    BY <2>1 DEF PanelFields
  <2>2. CASE panel' = panel
    BY <2>2
  <2>3. CASE adding.created \in ToSet(panel.listed)
    BY <1>4, <2>3, NoRowYet
  <2> QED
    BY <1>3, <2>1, <2>2, <2>3
<1>6. ~QuestionOpen'
  BY <1>1, <1>2, <1>3, SelectUserKeeps DEF QuestionOpen, Alive, SamePanel, PanelFields
<1>7. DOMAIN adding' = {"open", "created", "answered"} /\ adding'.created \in Users \cup {NoUser}
  BY <1>1 DEF NotAdding
<1>8. Alive' => question'.kind # "delete"
  BY <1>6 DEF QuestionOpen
<1> QED
  BY <1>1, <1>4, <1>5, <1>6, <1>7, <1>8 DEF DeletesTheUserAsked

LEMMA SelectRowInv ==
  ASSUME PanelInv, NEW u \in Users, SelectRow(u)
  PROVE  PanelInv'
<1> USE DEF PanelInv, QuestionInv
<1>1. /\ question.kind = "none" /\ u \in ToSet(panel.listed)
      /\ panel' = SelectUser(cache, panel, u)
      /\ UNCHANGED <<question, adding, deletions>>
  BY DEF SelectRow, AtPanel, Frame
<1>2. panel.loaded
  BY <1>1, NoRowYet
<1>3. SamePanel(panel, panel')
  BY <1>1, SelectUserKeeps
<1> QED
  BY <1>1, <1>2, <1>3 DEF SamePanel, QuestionOpen, DeletesTheUserAsked

\* The question names the selected user.
LEMMA DeleteUserInv ==
  ASSUME PanelInv, DeleteUser
  PROVE  PanelInv'
<1> USE DEF PanelInv, QuestionInv
<1>1. /\ panel.selected # NoUser /\ ~adding.open /\ ~adding.answered
      /\ UNCHANGED <<panel, adding, deletions>>
      /\ DOMAIN question' = {"kind", "about", "moved"} /\ question'.moved = FALSE
      /\ question'.about = panel.selected
  BY DEF DeleteUser, AtPanel, Frame
<1>2. panel.loaded
  BY <1>1
<1> QED
  BY <1>1, <1>2 DEF DeletesTheUserAsked, Alive

\* The other steps of the panel keep the selection.
LEMMA OtherPanelStepsInv ==
  ASSUME PanelInv,
         \/ \E u \in Users : OtherTool(u) \/ AccountCreated(u)
         \/ PermissionChanged
         \/ \E n \in Names : ChangeNameDone(n)
         \/ AccountTypeChanged \/ AutologinChanged \/ CloseMessage
         \/ \E r \in deletions, ok \in BOOLEAN : DeleteUserDone(r, ok)
         \/ AddUser \/ Dispose
         \/ \E u \in Users \cup {NoUser} : AccountDialogCompletes(u)
  PROVE  PanelInv'
<1> USE DEF PanelInv
<1>1. CASE \E u \in Users : OtherTool(u)
  BY <1>1, SelectionKept DEF OtherTool, SameSelection, SamePanel
<1>2. CASE \E u \in Users : AccountCreated(u)
  <2>1. PICK u \in Users : adding.open /\ adding' = [adding EXCEPT !.created = u]
                           /\ UNCHANGED <<panel, question, deletions>>
    BY <1>2 DEF AccountCreated
  <2> QED
    BY <2>1 DEF QuestionInv, QuestionOpen, DeletesTheUserAsked, Alive
<1>3. CASE PermissionChanged
  <2> DEFINE p == [panel EXCEPT !.allowed = ~@]
  <2>1. SameSelection(panel, p) /\ DOMAIN p = PanelFields /\ p.listed = panel.listed
    BY DEF QuestionInv, PanelFields, SameSelection, SamePanel
  <2>2. panel' = p \/ panel' = ShowUser(cache, p)
    BY <1>3 DEF PermissionChanged
  <2>3. UNCHANGED <<question, adding, deletions>>
    BY <1>3 DEF PermissionChanged
  <2> HIDE DEF p
  <2>4. SameSelection(panel, panel') /\ panel'.listed = panel.listed
    BY <2>1, <2>2, ShowUserKeeps DEF SameSelection, SamePanel
  <2> QED
    BY <2>3, <2>4, SelectionKept
<1>4. CASE (\E n \in Names : ChangeNameDone(n)) \/ AccountTypeChanged \/ AutologinChanged
  <2>1. UNCHANGED <<panel, question, adding, deletions>>
    BY <1>4 DEF ChangeNameDone, AccountTypeChanged, AutologinChanged, Frame
  <2> QED
    BY <2>1, SelectionKept DEF SameSelection, SamePanel
<1>5. CASE CloseMessage
  BY <1>5 DEF CloseMessage, Frame, NoQuestion, QuestionInv, QuestionOpen, DeletesTheUserAsked, Alive
<1>6. CASE \E r \in deletions, ok \in BOOLEAN : DeleteUserDone(r, ok)
  <2>1. deletions' \subseteq deletions /\ UNCHANGED <<question, adding>>
    BY <1>6 DEF DeleteUserDone
  <2>2. panel' = panel \/ panel' = [panel EXCEPT !.life = "misused"]
    BY <1>6 DEF DeleteUserDone
  <2> QED
    BY <2>1, <2>2 DEF QuestionInv, QuestionOpen, DeletesTheUserAsked, Alive, PanelFields
<1>7. CASE AddUser
  <2>1. question.kind = "none" /\ adding' = [NotAdding EXCEPT !.open = TRUE]
        /\ UNCHANGED <<panel, question, deletions>>
    BY <1>7 DEF AddUser, AtPanel
  <2> QED
    BY <2>1 DEF NotAdding, QuestionInv, QuestionOpen, DeletesTheUserAsked, Alive
<1>8. CASE Dispose
  <2>1. panel' = [panel EXCEPT !.life = "disposed"] /\ UNCHANGED <<question, deletions>>
        /\ adding' = IF adding.open THEN [NotAdding EXCEPT !.answered = TRUE] ELSE adding
    BY <1>8 DEF Dispose
  <2> QED
    BY <2>1 DEF NotAdding, QuestionInv, QuestionOpen, DeletesTheUserAsked, Alive, PanelFields
<1>9. CASE \E u \in Users \cup {NoUser} : AccountDialogCompletes(u)
  <2>1. PICK u \in Users \cup {NoUser} :
          adding.open /\ adding' = [open |-> FALSE, created |-> u, answered |-> TRUE]
          /\ UNCHANGED <<panel, question, deletions>>
    BY <1>9 DEF AccountDialogCompletes
  <2> QED
    BY <2>1 DEF QuestionInv, QuestionOpen, DeletesTheUserAsked, Alive
<1> QED
  BY <1>1, <1>2, <1>3, <1>4, <1>5, <1>6, <1>7, <1>8, <1>9

LEMMA PanelStep ==
  ASSUME PanelInv, UserPanelNext
  PROVE  PanelInv'
BY UsersLoadedInv, DeliverInv, DeleteUserResponseInv, SelectCreatedUserInv, SelectRowInv,
   DeleteUserInv, OtherPanelStepsInv DEF UserPanelNext

-----------------------------------------------------------------------------
(***************************************************************************)
(* The list.  The headings and the users in it are in an order, so that    *)
(* it is known where a row is put and what is left without one.            *)
(***************************************************************************)

Known(c) == {u \in Users : c[u] # NoAccount}

\* Users with names to compare, and the rows that there may be of them.
Named(c, users) == users \subseteq Users /\ \A u \in users : c[u].name \in Nat
RowsOf(users) == {MyAccount, OtherAccounts} \cup users
Ordered(c, rows) == \A i, j \in DOMAIN rows : i < j => SortUsers(c, rows[i], rows[j])

\* The keys that rows are compared by.
LEMMA SortKeyIs ==
  /\ SortKey(MyAccount) = 0 /\ SortKey(OtherAccounts) = 2
  /\ \A u \in Users : SortKey(u) = IF u = Self THEN 1 ELSE 3
<1>1. MyAccount # Self /\ OtherAccounts # Self /\ MyAccount # OtherAccounts
  BY UsersAssumption
<1>2. \A u \in Users : u # MyAccount /\ u # OtherAccounts
  BY UsersAssumption
<1>3. SortKey(MyAccount) = 0
  BY <1>1, Zenon DEF SortKey
<1>4. SortKey(OtherAccounts) = 2
  BY <1>1, Zenon DEF SortKey
<1>5. \A u \in Users : u = Self => SortKey(u) = 1
  BY <1>1, Zenon DEF SortKey
<1>6. \A u \in Users : u # Self => SortKey(u) = 3
  BY <1>2, Zenon DEF SortKey
<1> QED
  BY <1>3, <1>4, <1>5, <1>6

\* Of two rows one is before the other, and so are all.
LEMMA RowsAreOrdered ==
  ASSUME NEW c, NEW users, Named(c, users)
  PROVE  /\ \A q, r \in RowsOf(users) : SortUsers(c, q, r) => ~SortUsers(c, r, q)
         /\ \A q, r \in RowsOf(users) : q = r \/ SortUsers(c, q, r) \/ SortUsers(c, r, q)
         /\ \A q, r, s \in RowsOf(users) : SortUsers(c, q, r) /\ SortUsers(c, r, s) => SortUsers(c, q, s)
<1> DEFINE key(r) == SortKey(r)
<1>1. \A r \in RowsOf(users) : SortKey(r) \in 0..3 /\ (SortKey(r) = 3 => r \in users)
  BY SortKeyIs DEF RowsOf, Named
<1>2. \A u \in users : c[u].name \in Nat /\ Uid[u] \in Nat
  BY UsersAssumption DEF Named
<1>3. \A q, r \in RowsOf(users) : SortKey(q) = SortKey(r) /\ SortKey(q) # 3 => q = r
  BY SortKeyIs DEF RowsOf, Named
<1>4. \A u, v \in users : Uid[u] = Uid[v] => u = v
  BY InitialAssumption DEF Named
<1>5. \A q, r \in RowsOf(users) : SortUsers(c, q, r) => ~SortUsers(c, r, q)
  BY <1>1, <1>2 DEF SortUsers
<1>6. \A q, r \in RowsOf(users) : q = r \/ SortUsers(c, q, r) \/ SortUsers(c, r, q)
  BY <1>1, <1>2, <1>3, <1>4 DEF SortUsers
<1>7. \A q, r, s \in RowsOf(users) : SortUsers(c, q, r) /\ SortUsers(c, r, s) => SortUsers(c, q, s)
  BY <1>1, <1>2 DEF SortUsers
<1> QED
  BY <1>5, <1>6, <1>7

\* Only the names of the users matter.
LEMMA SameOrder ==
  ASSUME NEW c, NEW d, NEW users, users \subseteq Users, \A u \in users : d[u] = c[u],
         NEW rows \in Seq(RowsOf(users)), Ordered(c, rows)
  PROVE  Ordered(d, rows)
<1>1. \A r \in RowsOf(users) : SortKey(r) = 3 => r \in users
  BY SortKeyIs DEF RowsOf
<1>2. \A q, r \in RowsOf(users) : SortUsers(c, q, r) => SortUsers(d, q, r)
  BY <1>1 DEF SortUsers
<1>3. \A i \in DOMAIN rows : rows[i] \in RowsOf(users)
  OBVIOUS
<1> QED
  BY <1>2, <1>3 DEF Ordered

\* Some of the rows of a list stay in their order.
LEMMA KeptOrdered ==
  ASSUME NEW c, NEW T, NEW rows \in Seq(T), Ordered(c, rows), NEW places, places \subseteq DOMAIN rows
  PROVE  LET kept == Kept(rows, places)
         IN /\ kept \in Seq(T) /\ Ordered(c, kept)
            /\ \A k \in DOMAIN kept : \E n \in places : kept[k] = rows[n]
            /\ \A n \in places : \E k \in DOMAIN kept : kept[k] = rows[n]
<1> DEFINE kept == Kept(rows, places)
<1>1. Len(rows) \in Nat /\ DOMAIN rows = 1..Len(rows)
  OBVIOUS
<1>2. PICK at : Ranks(rows, places, Len(rows), at, Len(kept), kept) /\ Len(kept) \in Nat
  BY <1>1, KeptRanks
<1>3. kept \in Seq(T)
  BY KeptIsSeq
<1> HIDE DEF kept
<1>4. /\ at \in [1..Len(kept) -> places] /\ DOMAIN kept = 1..Len(kept)
      /\ \A k \in 1..Len(kept) : kept[k] = rows[at[k]]
      /\ \A k, l \in 1..Len(kept) : k < l => at[k] < at[l]
      /\ \A n \in places : \E k \in 1..Len(kept) : at[k] = n
  BY <1>1, <1>2 DEF Ranks
<1>5. Ordered(c, kept)
  BY <1>4 DEF Ordered
<1>6. \A k \in DOMAIN kept : \E n \in places : kept[k] = rows[n]
  BY <1>4
<1>7. \A n \in places : \E k \in DOMAIN kept : kept[k] = rows[n]
  BY <1>4
<1> QED
  BY <1>3, <1>5, <1>6, <1>7 DEF kept

\* A row is put where it belongs.
LEMMA InsertKeepsOrder ==
  ASSUME NEW c, NEW users, Named(c, users), NEW rows \in Seq(RowsOf(users)), Ordered(c, rows),
         NEW row \in RowsOf(users), row \notin ToSet(rows)
  PROVE  LET list == InsertRow(c, rows, row)
         IN list \in Seq(RowsOf(users)) /\ Ordered(c, list) /\ ToSet(list) = ToSet(rows) \cup {row}
<1> DEFINE before == {i \in DOMAIN rows : SortUsers(c, rows[i], row)}
           after == DOMAIN rows \ before
           a == Kept(rows, before)
           b == Kept(rows, after)
           list == a \o <<row>> \o b
           n == Len(a)
<1>1. InsertRow(c, rows, row) = list
  BY DEF InsertRow
<1>2. before \subseteq DOMAIN rows /\ after \subseteq DOMAIN rows
  OBVIOUS
<1>3. DOMAIN rows = before \cup after
  OBVIOUS
<1>4. /\ \A i \in before : SortUsers(c, rows[i], row)
     /\ \A i \in after : ~SortUsers(c, rows[i], row)
  OBVIOUS
<1> HIDE DEF before, after
<1>5. /\ a \in Seq(RowsOf(users)) /\ Ordered(c, a)
      /\ \A k \in DOMAIN a : \E i \in before : a[k] = rows[i]
      /\ \A i \in before : \E k \in DOMAIN a : a[k] = rows[i]
  BY <1>2, KeptOrdered
<1>6. /\ b \in Seq(RowsOf(users)) /\ Ordered(c, b)
      /\ \A k \in DOMAIN b : \E i \in after : b[k] = rows[i]
      /\ \A i \in after : \E k \in DOMAIN b : b[k] = rows[i]
  BY <1>2, KeptOrdered
<1>7. \A i \in DOMAIN rows : rows[i] \in RowsOf(users) /\ rows[i] # row
  BY DEF ToSet
<1>8. \A k \in DOMAIN a : a[k] \in RowsOf(users) /\ SortUsers(c, a[k], row)
  BY <1>5, <1>7, <1>2, <1>4
<1>9. \A k \in DOMAIN b : b[k] \in RowsOf(users) /\ SortUsers(c, row, b[k])
  BY <1>6, <1>7, <1>2, <1>4, RowsAreOrdered
<1> HIDE DEF a, b
<1>10. list \in Seq(RowsOf(users))
  BY <1>5, <1>6
<1>11. /\ n \in Nat /\ DOMAIN a = 1..n /\ Len(b) \in Nat /\ DOMAIN b = 1..Len(b)
       /\ DOMAIN list = 1..n + 1 + Len(b)
       /\ \A k \in 1..n : list[k] = a[k]
       /\ list[n + 1] = row
       /\ \A k \in 1..Len(b) : list[n + 1 + k] = b[k]
  BY <1>5, <1>6
<1> HIDE DEF list, n
<1>12. \A k \in DOMAIN list : k \in DOMAIN a \/ k = n + 1 \/ (k - (n + 1) \in DOMAIN b /\ list[k] = b[k - (n + 1)])
  <2> TAKE k \in DOMAIN list
  <2> DEFINE l == k - (n + 1)
  <2>1. k \in 1..n \/ k = n + 1 \/ l \in 1..Len(b)
    BY <1>11
  <2>2. l \in 1..Len(b) => n + 1 + l = k
    BY <1>11
  <2> HIDE DEF l
  <2>3. l \in 1..Len(b) => list[k] = b[l]
    BY <1>11, <2>2
  <2> QED
    BY <1>11, <2>1, <2>3 DEF l
<1>13. ASSUME NEW i \in DOMAIN list, NEW j \in DOMAIN list, i < j
       PROVE  SortUsers(c, list[i], list[j])
  <2>1. CASE i \in DOMAIN a /\ j \in DOMAIN a
    BY <1>5, <1>11, <1>13, <2>1 DEF Ordered
  <2>2. CASE i \in DOMAIN a /\ j = n + 1
    BY <1>8, <1>11, <2>2
  <2>3. CASE i \in DOMAIN a /\ j - (n + 1) \in DOMAIN b /\ list[j] = b[j - (n + 1)]
    BY <1>8, <1>9, <1>11, <2>3, RowsAreOrdered
  <2>4. CASE i = n + 1 /\ j - (n + 1) \in DOMAIN b /\ list[j] = b[j - (n + 1)]
    BY <1>9, <1>11, <2>4
  <2>5. CASE /\ i - (n + 1) \in DOMAIN b /\ list[i] = b[i - (n + 1)]
             /\ j - (n + 1) \in DOMAIN b /\ list[j] = b[j - (n + 1)]
    <3>1. i - (n + 1) < j - (n + 1)
      BY <1>11, <1>13
    <3> QED
      BY <1>6, <2>5, <3>1 DEF Ordered
  <2> QED
    BY <1>11, <1>12, <1>13, <2>1, <2>2, <2>3, <2>4, <2>5
<1>14. ToSet(list) \subseteq ToSet(rows) \cup {row}
  BY <1>5, <1>6, <1>3, <1>11, <1>12 DEF ToSet
<1>15. \A k \in DOMAIN a : k \in DOMAIN list /\ list[k] = a[k]
  BY <1>11
<1>16. \A k \in DOMAIN b : n + 1 + k \in DOMAIN list /\ list[n + 1 + k] = b[k]
  BY <1>11
<1>17. ToSet(rows) \subseteq ToSet(list)
  BY <1>5, <1>6, <1>3, <1>15, <1>16 DEF ToSet
<1>18. row \in ToSet(list)
  <2>1. n + 1 \in DOMAIN list
    BY <1>11
  <2> QED
    BY <1>11, <2>1 DEF ToSet
<1> QED
  BY <1>1, <1>10, <1>13, <1>14, <1>17, <1>18 DEF Ordered

\* Without one of the rows the others stay in their order.
LEMMA DeleteKeepsOrder ==
  ASSUME NEW c, NEW T, NEW rows \in Seq(T), Ordered(c, rows), NEW row
  PROVE  LET list == DeleteRow(rows, row)
         IN list \in Seq(T \ {row}) /\ Ordered(c, list) /\ ToSet(list) = ToSet(rows) \ {row}
<1> DEFINE places == {i \in DOMAIN rows : rows[i] # row}
           list == Kept(rows, places)
<1>1. DeleteRow(rows, row) = list
  BY DEF DeleteRow
<1>2. places \subseteq DOMAIN rows
  OBVIOUS
<1>3. /\ \A i \in places : rows[i] # row
      /\ \A i \in DOMAIN rows : i \in places \/ rows[i] = row
  OBVIOUS
<1> HIDE DEF places
<1>4. /\ list \in Seq(T) /\ Ordered(c, list)
      /\ \A k \in DOMAIN list : \E n \in places : list[k] = rows[n]
      /\ \A n \in places : \E k \in DOMAIN list : list[k] = rows[n]
  BY <1>2, KeptOrdered
<1> HIDE DEF list
<1>5. ToSet(list) = ToSet(rows) \ {row}
  BY <1>4, <1>2, <1>3 DEF ToSet
<1>6. \A k \in DOMAIN list : list[k] \in T \ {row}
  BY <1>4, <1>2, <1>3
<1>7. list \in Seq(T \ {row})
  BY <1>4, <1>6
<1> QED
  BY <1>1, <1>4, <1>5, <1>7

\* The user who is selected after a row is gone has a row, and not that one.
LEMMA NextUserRow ==
  ASSUME NEW c, NEW users, Named(c, users), NEW rows \in Seq(RowsOf(users)), Ordered(c, rows),
         NEW u \in ToSet(rows)
  PROVE  LET next == GetNextUserRow(rows, u)
         IN next = NoUser \/ (next \in Users /\ next \in ToSet(rows) /\ next # u)
<1> DEFINE at == CHOOSE i \in DOMAIN rows : rows[i] = u
           after == {i \in DOMAIN rows : i > at /\ rows[i] \in Users}
           before == {i \in DOMAIN rows : i < at /\ rows[i] \in Users}
           first == CHOOSE i \in after : \A j \in after : i <= j
           last == CHOOSE i \in before : \A j \in before : i >= j
<1>1. at \in DOMAIN rows /\ rows[at] = u
  BY DEF ToSet
<1>2. DOMAIN rows = 1..Len(rows) /\ Len(rows) \in Nat
  OBVIOUS
<1>3. after \subseteq Nat /\ before \subseteq Nat
  BY <1>2
<1>4. after # {} => first \in after
  BY <1>3, LeastIs DEF Least
<1>5. before # {} => last \in before
  <2> SUFFICES ASSUME before # {} PROVE last \in before
    OBVIOUS
  <2> DEFINE bounds == {m \in Nat : \A j \in before : j <= m}
             top == Least(bounds)
  <2>1. Len(rows) \in bounds
    BY <1>2
  <2>2. bounds # {} /\ bounds \subseteq Nat
    BY <2>1
  <2>3. top \in bounds /\ \A m \in bounds : top <= m
    BY <2>2, LeastIs
  <2> HIDE DEF top
  <2>4. top \in Nat /\ \A j \in before : j <= top
    BY <2>3
  <2>5. top \in before
    <3> SUFFICES ASSUME top \notin before PROVE FALSE
      OBVIOUS
    <3>1. PICK k : k \in before
      OBVIOUS
    <3>2. k \in Nat /\ k >= 1 /\ k <= top /\ top - 1 \in Nat
      BY <1>2, <2>4, <3>1
    <3>3. \A j \in before : j # top /\ j \in Nat /\ j <= top
      BY <1>3, <2>4
    <3> HIDE DEF before
    <3>4. \A j \in before : j <= top - 1
      BY <2>4, <3>3
    <3>5. top - 1 \in bounds
      BY <3>2, <3>4
    <3> HIDE DEF bounds
    <3> QED
      BY <2>3, <2>4, <3>5
  <2>6. \A j \in before : top >= j
    BY <1>3, <2>4
  <2> HIDE DEF before
  <2> QED
    BY <2>5, <2>6
<1>6. GetNextUserRow(rows, u) = IF after # {} THEN rows[first] ELSE IF before # {} THEN rows[last] ELSE NoUser
  BY DEF GetNextUserRow
<1> HIDE DEF at, first, last
<1>7. \A i \in after \cup before : rows[i] \in Users /\ rows[i] \in ToSet(rows) /\ rows[i] # u
  <2> SUFFICES ASSUME NEW i \in after \cup before PROVE rows[i] \in Users /\ rows[i] \in ToSet(rows) /\ rows[i] # u
    OBVIOUS
  <2>1. i \in DOMAIN rows /\ (i > at \/ i < at) /\ rows[i] \in Users
    OBVIOUS
  <2>2. SortUsers(c, rows[i], rows[at]) \/ SortUsers(c, rows[at], rows[i])
    BY <1>1, <1>2, <2>1 DEF Ordered
  <2>3. rows[i] \in RowsOf(users) /\ rows[at] \in RowsOf(users)
    BY <1>1, <2>1
  <2>4. rows[i] # u
    BY <1>1, <2>2, <2>3, RowsAreOrdered
  <2> QED
    BY <2>1, <2>4 DEF ToSet
<1> QED
  BY <1>4, <1>5, <1>6, <1>7

-----------------------------------------------------------------------------
(***************************************************************************)
(* What the panel shows of some users: the rows, with the second heading   *)
(* if there are other users, how many these are, and the details.          *)
(***************************************************************************)

Others(users) == users \ {Self}
Heading(users) == IF Others(users) # {} THEN {OtherAccounts} ELSE {}

RowsAre(c, users, heading, rows) ==
  /\ rows \in Seq(RowsOf(users)) /\ Ordered(c, rows)
  /\ ToSet(rows) = {MyAccount} \cup users \cup heading
SelectionIs(users, p) ==
  /\ p.selected \in users \cup {NoUser} /\ p.allowed \in BOOLEAN
  /\ p.vbox <=> p.selected # NoUser
DetailsAre(c, p) ==
  p.vbox => /\ p.details.user = p.selected /\ p.details.account = c[p.selected]
            /\ p.details.remove \/ p.details.type => p.allowed
Shows(c, users, p) ==
  /\ Named(c, users) /\ RowsAre(c, users, Heading(users), p.listed)
  /\ p.other_accounts = Cardinality(Others(users)) /\ (p.other_iter <=> Others(users) # {})
  /\ SelectionIs(users, p) /\ DetailsAre(c, p)

\* Two states of the panel with the same rows.
SameRows(p, q) ==
  /\ DOMAIN q = DOMAIN p /\ q.listed = p.listed /\ q.allowed = p.allowed
  /\ q.other_accounts = p.other_accounts /\ (q.other_iter <=> p.other_iter)

\* The details are those of the selected user.
LEMMA ShowUserShows ==
  ASSUME NEW c, NEW users, NEW p, DOMAIN p = PanelFields, SelectionIs(users, p)
  PROVE  /\ SameRows(p, ShowUser(c, p)) /\ SelectionIs(users, ShowUser(c, p)) /\ DetailsAre(c, ShowUser(c, p))
         /\ ShowUser(c, p).selected = p.selected
<1> DEFINE d == Details(c, p.selected, p.allowed)
           s == ShowUser(c, p)
<1>1. d.user = p.selected /\ d.account = c[p.selected]
  BY DEF Details
<1>2. d.remove => p.allowed
  BY DEF Details
<1>3. d.type => p.allowed
  BY DEF Details
<1> HIDE DEF d
<1>4. /\ DOMAIN s = DOMAIN p /\ s.details = d /\ s.listed = p.listed /\ s.allowed = p.allowed
      /\ s.other_accounts = p.other_accounts /\ s.other_iter = p.other_iter
      /\ s.selected = p.selected /\ s.vbox = p.vbox
  BY DEF ShowUser, PanelFields, d
<1> HIDE DEF s
<1>5. SameRows(p, s)
  BY <1>4 DEF SameRows
<1>6. SelectionIs(users, s)
  BY <1>4 DEF SelectionIs
<1>7. DetailsAre(c, s)
  BY <1>1, <1>2, <1>3, <1>4 DEF DetailsAre
<1> QED
  BY <1>4, <1>5, <1>6, <1>7 DEF s

\* Whoever is selected, the details are his.
LEMMA SelectUserShows ==
  ASSUME NEW c, NEW users, users \subseteq Users, NEW p, DOMAIN p = PanelFields, p.allowed \in BOOLEAN,
         NEW u \in users \cup {NoUser}, u = p.selected => SelectionIs(users, p) /\ DetailsAre(c, p)
  PROVE  /\ SameRows(p, SelectUser(c, p, u)) /\ SelectionIs(users, SelectUser(c, p, u))
         /\ DetailsAre(c, SelectUser(c, p, u))
<1>1. CASE u = p.selected
  <2>1. SelectUser(c, p, u) = p
    BY <1>1 DEF SelectUser
  <2> QED
    BY <1>1, <2>1 DEF SameRows
<1>2. CASE u # p.selected /\ u = NoUser
  <2> DEFINE s == [p EXCEPT !.selected = u, !.vbox = FALSE]
  <2>1. SelectUser(c, p, u) = s
    BY <1>2 DEF SelectUser
  <2>2. /\ DOMAIN s = DOMAIN p /\ s.listed = p.listed /\ s.allowed = p.allowed
        /\ s.other_accounts = p.other_accounts /\ s.other_iter = p.other_iter
        /\ s.selected = u /\ s.vbox = FALSE
    BY DEF PanelFields
  <2> HIDE DEF s
  <2> QED
    BY <1>2, <2>1, <2>2 DEF SameRows, SelectionIs, DetailsAre
<1>3. CASE u # p.selected /\ u # NoUser
  <2> DEFINE v == [p EXCEPT !.selected = u]
             d == Details(c, u, p.allowed)
             q == ShowUser(c, v)
             s == [q EXCEPT !.vbox = TRUE]
  <2>1. SelectUser(c, p, u) = s
    BY <1>3 DEF SelectUser
  <2>2. d.user = u /\ d.account = c[u]
    BY DEF Details
  <2>3. d.remove => p.allowed
    BY DEF Details
  <2>4. d.type => p.allowed
    BY DEF Details
  <2>5. /\ DOMAIN v = PanelFields /\ v.listed = p.listed /\ v.allowed = p.allowed
        /\ v.other_accounts = p.other_accounts /\ v.other_iter = p.other_iter /\ v.selected = u
    BY DEF PanelFields
  <2> HIDE DEF d, v
  <2>6. q = [v EXCEPT !.details = d, !.add = v.allowed]
    BY <2>5 DEF ShowUser, d
  <2> HIDE DEF q
  <2>7. /\ DOMAIN s = PanelFields /\ s.listed = p.listed /\ s.allowed = p.allowed
        /\ s.other_accounts = p.other_accounts /\ s.other_iter = p.other_iter /\ s.selected = u
        /\ s.details = d /\ s.vbox = TRUE
    BY <2>5, <2>6 DEF PanelFields
  <2> HIDE DEF s
  <2>8. SameRows(p, s)
    BY <2>7 DEF SameRows
  <2>9. SelectionIs(users, s)
    BY <1>3, <2>7 DEF SelectionIs
  <2>10. DetailsAre(c, s)
    BY <2>2, <2>3, <2>4, <2>7 DEF DetailsAre
  <2> QED
    BY <2>1, <2>8, <2>9, <2>10
<1> QED
  BY <1>1, <1>2, <1>3

\* What is said of some users and others: a user more or less.
LEMMA OthersMore ==
  ASSUME NEW users, users \subseteq Users, NEW u \in Users
  PROVE  /\ IsFiniteSet(Others(users)) /\ Cardinality(Others(users)) \in Nat
         /\ Cardinality(Others(users)) = 0 <=> Others(users) = {}
         /\ u # Self /\ u \notin users => Cardinality(Others(users \cup {u})) = Cardinality(Others(users)) + 1
         /\ u # Self /\ u \in users => Cardinality(Others(users \ {u})) = Cardinality(Others(users)) - 1
         /\ u # Self => Others(users \cup {u}) = Others(users) \cup {u} /\ Others(users \cup {u}) # {}
         /\ u = Self => Others(users \cup {u}) = Others(users) /\ Others(users \ {u}) = Others(users)
<1>1. IsFiniteSet(Others(users))
  BY InitialAssumption, FS_Subset DEF Others
<1>2. u # Self => Others(users \cup {u}) = Others(users) \cup {u} /\ Others(users \ {u}) = Others(users) \ {u}
  BY DEF Others
<1>3. u # Self => (u \in users <=> u \in Others(users))
  BY DEF Others
<1>4. Cardinality(Others(users)) \in Nat
  BY <1>1, FS_CardinalityType
<1>5. Cardinality(Others(users)) = 0 <=> Others(users) = {}
  BY <1>1, FS_EmptySet
<1>6. u # Self /\ u \notin users => Cardinality(Others(users \cup {u})) = Cardinality(Others(users)) + 1
  BY <1>1, <1>2, <1>3, FS_AddElement
<1>7. u # Self /\ u \in users => Cardinality(Others(users \ {u})) = Cardinality(Others(users)) - 1
  BY <1>1, <1>2, <1>3, FS_RemoveElement
<1>8. u = Self => Others(users \cup {u}) = Others(users) /\ Others(users \ {u}) = Others(users)
  BY DEF Others
<1> QED
  BY <1>1, <1>2, <1>4, <1>5, <1>6, <1>7, <1>8

\* A list of some is a list of more.
LEMMA SeqMore ==
  ASSUME NEW S, NEW T, S \subseteq T, NEW list \in Seq(S)
  PROVE  list \in Seq(T)
<1>1. \A i \in DOMAIN list : list[i] \in T
  OBVIOUS
<1> QED
  BY <1>1

\* A row more: that of a user, or the heading.
LEMMA RowMore ==
  ASSUME NEW c, NEW users, NEW heading, NEW rows, RowsAre(c, users, heading, rows),
         NEW u, u \in Users \/ u = OtherAccounts, u \notin users, u \notin heading,
         Named(c, users \cup ({u} \cap Users))
  PROVE  RowsAre(c, users \cup ({u} \cap Users), heading \cup ({u} \ Users), InsertRow(c, rows, u))
<1> DEFINE more == users \cup ({u} \cap Users)
           list == InsertRow(c, rows, u)
<1>1. RowsOf(users) \subseteq RowsOf(more) /\ u \in RowsOf(more)
  BY DEF RowsOf
<1>2. rows \in Seq(RowsOf(more))
  <2>1. rows \in Seq(RowsOf(users))
    BY DEF RowsAre
  <2> HIDE DEF more
  <2> QED
    BY <1>1, <2>1, SeqMore
<1>3. u \notin ToSet(rows)
  BY UsersAssumption DEF RowsAre
<1> HIDE DEF more
<1>4. list \in Seq(RowsOf(more)) /\ Ordered(c, list) /\ ToSet(list) = ToSet(rows) \cup {u}
  BY <1>1, <1>2, <1>3, InsertKeepsOrder DEF RowsAre, more
<1> HIDE DEF list
<1>5. ToSet(list) = {MyAccount} \cup more \cup (heading \cup ({u} \ Users))
  BY <1>4 DEF RowsAre, more
<1> QED
  BY <1>4, <1>5 DEF RowsAre, more, list

\* A row less.
LEMMA RowLess ==
  ASSUME NEW c, NEW users, users \subseteq Users, NEW heading, heading \subseteq {OtherAccounts}, NEW rows,
         RowsAre(c, users, heading, rows), NEW u, u # MyAccount
  PROVE  RowsAre(c, users \ {u}, heading \ {u}, DeleteRow(rows, u))
<1> DEFINE list == DeleteRow(rows, u)
<1>1. list \in Seq(RowsOf(users) \ {u}) /\ Ordered(c, list) /\ ToSet(list) = ToSet(rows) \ {u}
  <2>1. rows \in Seq(RowsOf(users)) /\ Ordered(c, rows)
    BY DEF RowsAre
  <2> QED
    BY <2>1, DeleteKeepsOrder
<1> HIDE DEF list
<1>2. RowsOf(users) \ {u} \subseteq RowsOf(users \ {u})
  BY DEF RowsOf
<1>3. list \in Seq(RowsOf(users \ {u}))
  BY <1>1, <1>2, SeqMore
<1>4. ToSet(list) = {MyAccount} \cup (users \ {u}) \cup (heading \ {u})
  BY <1>1 DEF RowsAre
<1> QED
  BY <1>1, <1>3, <1>4 DEF RowsAre, list

\* The panel shows the same of users whose accounts are the same.
LEMMA ShowsSame ==
  ASSUME NEW c, NEW d, NEW users, \A u \in users : d[u] = c[u], NEW p, Shows(c, users, p)
  PROVE  Shows(d, users, p)
<1>1. users \subseteq Users /\ Named(d, users)
  BY DEF Shows, Named
<1>2. RowsAre(d, users, Heading(users), p.listed)
  BY <1>1, SameOrder DEF Shows, RowsAre
<1>3. DetailsAre(d, p)
  BY DEF Shows, SelectionIs, DetailsAre
<1> QED
  BY <1>1, <1>2, <1>3 DEF Shows

\* A user who appears: the second heading comes with the first of the others.
LEMMA UserAddedShows ==
  ASSUME NEW c, NEW users, NEW u \in Users \ users, Named(c, users \cup {u}),
         NEW p, DOMAIN p = PanelFields, Shows(c, users, p)
  PROVE  /\ Shows(c, users \cup {u}, UserAdded(c, p, u))
         /\ DOMAIN UserAdded(c, p, u) = PanelFields /\ UserAdded(c, p, u).allowed = p.allowed
<1> DEFINE other == u # Self
           more == users \cup {u}
           listed == InsertRow(c, p.listed, u)
           q == [p EXCEPT !.listed = listed, !.other_accounts = @ + IF other THEN 1 ELSE 0]
           s == IF ~other /\ p.selected = NoUser THEN SelectUser(c, q, u) ELSE q
           list == InsertRow(c, s.listed, OtherAccounts)
           headed == [s EXCEPT !.listed = list, !.other_iter = TRUE]
           result == IF other /\ s.other_accounts = 1 THEN headed ELSE s
           n == Cardinality(Others(users))
<1>1. UserAdded(c, p, u) = result
  BY DEF UserAdded
<1>2. users \subseteq Users /\ more \subseteq Users /\ u # OtherAccounts /\ u # NoUser /\ OtherAccounts \notin Users
  BY UsersAssumption DEF Shows, Named
<1>3. RowsAre(c, more, Heading(users), listed)
  <2>1. {u} \cap Users = {u} /\ {u} \ Users = {}
    OBVIOUS
  <2>2. u \notin Heading(users)
    BY <1>2 DEF Heading
  <2>3. users \cup ({u} \cap Users) = more /\ Heading(users) \cup ({u} \ Users) = Heading(users)
    BY <2>1
  <2>4. RowsAre(c, users, Heading(users), p.listed) /\ u \notin users /\ (u \in Users \/ u = OtherAccounts)
    BY DEF Shows
  <2>5. RowsAre(c, users \cup ({u} \cap Users), Heading(users) \cup ({u} \ Users), listed)
    BY <2>2, <2>3, <2>4, RowMore
  <2> QED
    BY <2>3, <2>5
<1>4. p.other_accounts = n /\ (p.other_iter <=> Others(users) # {}) /\ SelectionIs(users, p) /\ DetailsAre(c, p)
  BY DEF Shows
<1>5. /\ n \in Nat /\ (n = 0 <=> Others(users) = {})
      /\ other => Cardinality(Others(more)) = n + 1 /\ Others(more) # {}
      /\ ~other => Others(more) = Others(users)
  BY <1>2, OthersMore
<1> HIDE DEF listed, n
<1>6. /\ DOMAIN q = PanelFields /\ q.listed = listed /\ q.allowed = p.allowed
      /\ q.other_accounts = n + (IF other THEN 1 ELSE 0) /\ q.other_iter = p.other_iter
      /\ q.selected = p.selected /\ q.vbox = p.vbox /\ q.details = p.details
  BY <1>4 DEF PanelFields
<1> HIDE DEF q
<1>7. SelectionIs(more, q) /\ DetailsAre(c, q)
  BY <1>4, <1>6 DEF SelectionIs, DetailsAre
<1>8. SameRows(q, s) /\ SelectionIs(more, s) /\ DetailsAre(c, s)
  <2>1. SameRows(q, q)
    BY DEF SameRows
  <2>2. SameRows(q, SelectUser(c, q, u)) /\ SelectionIs(more, SelectUser(c, q, u)) /\ DetailsAre(c, SelectUser(c, q, u))
    <3>1. u \in more \cup {NoUser} /\ q.allowed \in BOOLEAN
      BY <1>7 DEF SelectionIs
    <3> HIDE DEF more
    <3> QED
      BY <1>2, <1>6, <1>7, <3>1, SelectUserShows
  <2> QED
    BY <1>7, <2>1, <2>2
<1> HIDE DEF s
<1>9. /\ DOMAIN s = PanelFields /\ s.listed = listed /\ s.allowed = p.allowed
      /\ s.other_accounts = n + (IF other THEN 1 ELSE 0) /\ (s.other_iter <=> Others(users) # {})
  BY <1>4, <1>6, <1>8 DEF SameRows
<1>10. CASE other /\ s.other_accounts = 1
  <2>1. n = 0 /\ Heading(users) = {} /\ Heading(more) = {OtherAccounts}
    BY <1>5, <1>9, <1>10 DEF Heading
  <2>2. RowsAre(c, more, {OtherAccounts}, list)
    <3>1. {OtherAccounts} \cap Users = {} /\ {OtherAccounts} \ Users = {OtherAccounts}
      BY <1>2
    <3>2. more \cup ({OtherAccounts} \cap Users) = more /\ Heading(users) \cup ({OtherAccounts} \ Users) = {OtherAccounts}
      BY <2>1, <3>1
    <3>3. OtherAccounts \notin more /\ OtherAccounts \notin Heading(users)
      BY <1>2, <2>1
    <3> HIDE DEF more
    <3>4. RowsAre(c, more \cup ({OtherAccounts} \cap Users), Heading(users) \cup ({OtherAccounts} \ Users), list)
      BY <1>3, <1>9, <3>2, <3>3, RowMore DEF more
    <3> QED
      BY <3>2, <3>4
  <2> HIDE DEF list
  <2>3. /\ DOMAIN headed = PanelFields /\ headed.listed = list /\ headed.allowed = s.allowed
        /\ headed.other_accounts = s.other_accounts /\ headed.other_iter = TRUE
        /\ headed.selected = s.selected /\ headed.vbox = s.vbox /\ headed.details = s.details
    BY <1>9 DEF PanelFields
  <2> HIDE DEF headed
  <2>4. SelectionIs(more, headed) /\ DetailsAre(c, headed)
    BY <1>8, <2>3 DEF SelectionIs, DetailsAre
  <2>5. Shows(c, more, headed)
    BY <1>5, <1>9, <1>10, <2>1, <2>2, <2>3, <2>4 DEF Shows
  <2> QED
    BY <1>1, <1>9, <1>10, <2>3, <2>5
<1>11. CASE ~(other /\ s.other_accounts = 1)
  <2>1. other => n # 0
    BY <1>5, <1>9, <1>11
  <2>2. Others(more) # {} <=> Others(users) # {}
    BY <1>5, <2>1
  <2>3. Heading(more) = Heading(users)
    BY <2>2 DEF Heading
  <2>4. other => Cardinality(Others(more)) = s.other_accounts
    BY <1>5, <1>9
  <2>5. ~other => Cardinality(Others(more)) = s.other_accounts
    <3>1. ~other => s.other_accounts = n
      BY <1>5, <1>9
    <3> QED
      BY <1>5, <3>1 DEF n
  <2>6. Heading(more) = Heading(users) /\ (Others(more) # {} <=> Others(users) # {})
        /\ Cardinality(Others(more)) = s.other_accounts
    BY <2>2, <2>3, <2>4, <2>5
  <2>7. Shows(c, more, s)
    BY <1>3, <1>8, <1>9, <2>6 DEF Shows
  <2> QED
    BY <1>1, <1>9, <1>11, <2>7
<1> QED
  BY <1>10, <1>11

\* A user who is gone takes the second heading along as the last of the others.
LEMMA UserRemovedShows ==
  ASSUME NEW c, NEW d, NEW users, NEW u \in users, \A v \in users \ {u} : d[v] = c[v],
         NEW p, DOMAIN p = PanelFields, Shows(c, users, p)
  PROVE  Shows(d, users \ {u}, UserRemoved(d, p, u))
<1> DEFINE other == u # Self
           less == users \ {u}
           next == GetNextUserRow(p.listed, u)
           rest == DeleteRow(p.listed, u)
           q == [p EXCEPT !.listed = rest, !.other_accounts = @ - IF other THEN 1 ELSE 0]
           s == SelectUser(d, q, next)
           list == DeleteRow(s.listed, OtherAccounts)
           bare == [s EXCEPT !.listed = list, !.other_iter = FALSE]
           result == IF s.other_iter /\ s.other_accounts = 0 /\ other THEN bare ELSE s
           n == Cardinality(Others(users))
<1>1. UserRemoved(d, p, u) = result
  BY DEF UserRemoved
<1>2. users \subseteq Users /\ less \subseteq Users /\ u \in Users /\ OtherAccounts \notin Users /\ u # MyAccount
      /\ OtherAccounts # MyAccount /\ MyAccount \notin Users
  BY UsersAssumption DEF Shows, Named
<1>3. Named(d, less)
  BY DEF Shows, Named
<1>4. RowsAre(d, less, Heading(users), rest)
  <2>1. RowsAre(c, users, Heading(users), p.listed) /\ Heading(users) \subseteq {OtherAccounts}
    BY DEF Shows, Heading
  <2>2. Heading(users) \ {u} = Heading(users)
    BY <1>2 DEF Heading
  <2>3. RowsAre(c, less, Heading(users), rest)
    BY <1>2, <2>1, <2>2, RowLess
  <2>4. Ordered(d, rest)
    BY <1>2, <2>3, SameOrder DEF RowsAre
  <2> QED
    BY <2>3, <2>4 DEF RowsAre
<1>5. next \in less \cup {NoUser}
  <2>1. u \in ToSet(p.listed) /\ p.listed \in Seq(RowsOf(users)) /\ Ordered(c, p.listed) /\ Named(c, users)
    BY DEF Shows, RowsAre
  <2>2. next = NoUser \/ (next \in Users /\ next \in ToSet(p.listed) /\ next # u)
    BY <2>1, NextUserRow
  <2>3. \A r \in ToSet(p.listed) : r \in Users => r \in users
    BY <1>2 DEF Shows, RowsAre, Heading
  <2> HIDE DEF next
  <2> QED
    BY <2>2, <2>3
<1>6. p.other_accounts = n /\ (p.other_iter <=> Others(users) # {}) /\ SelectionIs(users, p) /\ DetailsAre(c, p)
  BY DEF Shows
<1>7. /\ n \in Nat /\ (n = 0 <=> Others(users) = {})
      /\ other => Cardinality(Others(less)) = n - 1 /\ Others(users) # {}
      /\ ~other => Others(less) = Others(users)
  <2>1. other => Others(users) # {}
    BY DEF Others
  <2> QED
    BY <1>2, <2>1, OthersMore
<1>8. Cardinality(Others(less)) = 0 <=> Others(less) = {}
  BY <1>2, OthersMore
<1> HIDE DEF next, rest, n
<1>9. /\ DOMAIN q = PanelFields /\ q.listed = rest /\ q.allowed = p.allowed
      /\ q.other_accounts = n - (IF other THEN 1 ELSE 0) /\ q.other_iter = p.other_iter
      /\ q.selected = p.selected /\ q.vbox = p.vbox /\ q.details = p.details
  BY <1>6 DEF PanelFields
<1> HIDE DEF q
<1>10. next = q.selected => SelectionIs(less, q) /\ DetailsAre(d, q)
  <2> SUFFICES ASSUME next = q.selected PROVE SelectionIs(less, q) /\ DetailsAre(d, q)
    OBVIOUS
  <2>1. SelectionIs(less, q)
    BY <1>5, <1>6, <1>9 DEF SelectionIs
  <2>2. q.vbox => q.selected \in less
    BY <2>1 DEF SelectionIs
  <2>3. DetailsAre(d, q)
    BY <1>6, <1>9, <2>2 DEF DetailsAre
  <2> QED
    BY <2>1, <2>3
<1>11. q.allowed \in BOOLEAN
  BY <1>6, <1>9 DEF SelectionIs
<1>12. SameRows(q, s) /\ SelectionIs(less, s) /\ DetailsAre(d, s)
  <2> HIDE DEF less
  <2> QED
    BY <1>2, <1>5, <1>9, <1>10, <1>11, SelectUserShows
<1> HIDE DEF s
<1>13. /\ DOMAIN s = PanelFields /\ s.listed = rest /\ s.allowed = p.allowed
       /\ s.other_accounts = n - (IF other THEN 1 ELSE 0) /\ (s.other_iter <=> Others(users) # {})
  BY <1>6, <1>9, <1>12 DEF SameRows
<1>14. s.other_accounts = Cardinality(Others(less))
  BY <1>7, <1>13 DEF n
<1>15. CASE s.other_iter /\ s.other_accounts = 0 /\ other
  <2>1. Others(less) = {} /\ Heading(less) = {}
    BY <1>8, <1>14, <1>15 DEF Heading
  <2>2. RowsAre(d, less, {}, list)
    <3>1. Heading(users) \ {OtherAccounts} = {} /\ Heading(users) \subseteq {OtherAccounts}
      BY DEF Heading
    <3>2. less \ {OtherAccounts} = less
      BY <1>2
    <3> HIDE DEF less
    <3>3. RowsAre(d, less \ {OtherAccounts}, Heading(users) \ {OtherAccounts}, list)
      BY <1>2, <1>4, <1>13, <3>1, RowLess
    <3> QED
      BY <3>1, <3>2, <3>3
  <2> HIDE DEF list
  <2>3. /\ DOMAIN bare = PanelFields /\ bare.listed = list /\ bare.allowed = s.allowed
        /\ bare.other_accounts = s.other_accounts /\ bare.other_iter = FALSE
        /\ bare.selected = s.selected /\ bare.vbox = s.vbox /\ bare.details = s.details
    BY <1>13 DEF PanelFields
  <2> HIDE DEF bare
  <2>4. SelectionIs(less, bare) /\ DetailsAre(d, bare)
    BY <1>12, <2>3 DEF SelectionIs, DetailsAre
  <2>5. Shows(d, less, bare)
    BY <1>3, <1>14, <2>1, <2>2, <2>3, <2>4 DEF Shows
  <2> QED
    BY <1>1, <1>15, <2>5
<1>16. CASE ~(s.other_iter /\ s.other_accounts = 0 /\ other)
  <2>1. Others(less) # {} <=> Others(users) # {}
    BY <1>7, <1>8, <1>13, <1>14, <1>16
  <2>2. Heading(less) = Heading(users)
    BY <2>1 DEF Heading
  <2>3. Shows(d, less, s)
    BY <1>3, <1>4, <1>12, <1>13, <1>14, <2>1, <2>2 DEF Shows
  <2> QED
    BY <1>1, <1>16, <2>3
<1> QED
  BY <1>15, <1>16

\* A user whose account is another one gets his place by his name, and the details show it.
LEMMA UserChangedShows ==
  ASSUME NEW c, NEW d, NEW users, NEW u \in users, \A v \in users \ {u} : d[v] = c[v], Named(d, users),
         NEW p, DOMAIN p = PanelFields, Shows(c, users, p)
  PROVE  Shows(d, users, UserChanged(d, p, u))
<1> DEFINE less == users \ {u}
           rest == DeleteRow(p.listed, u)
           list == InsertRow(d, rest, u)
           q == [p EXCEPT !.listed = list]
<1>1. UserChanged(d, p, u) = IF p.selected = u THEN ShowUser(d, q) ELSE q
  BY DEF UserChanged
<1>2. users \subseteq Users /\ less \subseteq Users /\ u \in Users /\ OtherAccounts \notin Users /\ u # MyAccount
  BY UsersAssumption DEF Shows, Named
<1>3. RowsAre(d, less, Heading(users), rest)
  <2>1. RowsAre(c, users, Heading(users), p.listed) /\ Heading(users) \subseteq {OtherAccounts}
    BY DEF Shows, Heading
  <2>2. Heading(users) \ {u} = Heading(users)
    BY <1>2 DEF Heading
  <2>3. RowsAre(c, less, Heading(users), rest)
    BY <1>2, <2>1, <2>2, RowLess
  <2>4. Ordered(d, rest)
    BY <1>2, <2>3, SameOrder DEF RowsAre
  <2> QED
    BY <2>3, <2>4 DEF RowsAre
<1>4. RowsAre(d, users, Heading(users), list)
  <2>1. {u} \cap Users = {u} /\ {u} \ Users = {} /\ less \cup {u} = users
    BY <1>2
  <2>2. less \cup ({u} \cap Users) = users /\ Heading(users) \cup ({u} \ Users) = Heading(users)
    BY <2>1
  <2>3. u \notin Heading(users) /\ u \notin less
    BY <1>2 DEF Heading
  <2> HIDE DEF less, rest
  <2>4. RowsAre(d, less \cup ({u} \cap Users), Heading(users) \cup ({u} \ Users), list)
    BY <1>2, <1>3, <2>2, <2>3, RowMore
  <2> QED
    BY <2>2, <2>4
<1> HIDE DEF list
<1>5. /\ DOMAIN q = PanelFields /\ q.listed = list /\ q.allowed = p.allowed
      /\ q.other_accounts = p.other_accounts /\ q.other_iter = p.other_iter
      /\ q.selected = p.selected /\ q.vbox = p.vbox /\ q.details = p.details
  BY DEF PanelFields
<1> HIDE DEF q
<1>6. SelectionIs(users, q)
  BY <1>5 DEF Shows, SelectionIs
<1>7. CASE p.selected = u
  <2> DEFINE s == ShowUser(d, q)
  <2>1. SameRows(q, s) /\ SelectionIs(users, s) /\ DetailsAre(d, s)
    BY <1>5, <1>6, ShowUserShows
  <2> HIDE DEF s
  <2>2. Shows(d, users, s)
    BY <1>4, <1>5, <2>1 DEF Shows, SameRows
  <2> QED
    BY <1>1, <1>7, <2>2 DEF s
<1>8. CASE p.selected # u
  <2>1. DetailsAre(d, q)
    BY <1>5, <1>8 DEF Shows, SelectionIs, DetailsAre
  <2>2. Shows(d, users, q)
    BY <1>4, <1>5, <1>6, <2>1 DEF Shows
  <2> QED
    BY <1>1, <1>8, <2>2
<1> QED
  BY <1>7, <1>8

-----------------------------------------------------------------------------
(***************************************************************************)
(* The users that are there when the panel has loaded them, added one      *)
(* after the other.                                                        *)
(***************************************************************************)

\* The elements of a set, each of them once.
LEMMA OrderIs ==
  ASSUME NEW S, IsFiniteSet(S)
  PROVE  /\ Len(SetToSeq(S)) \in Nat /\ SetToSeq(S) \in [1..Len(SetToSeq(S)) -> S]
         /\ \A i, j \in 1..Len(SetToSeq(S)) : SetToSeq(S)[i] = SetToSeq(S)[j] => i = j
         /\ \A x \in S : \E i \in 1..Len(SetToSeq(S)) : SetToSeq(S)[i] = x
<1> DEFINE order == SetToSeq(S)
           n == Cardinality(S)
<1>1. n \in Nat /\ ExistsBijection(1..n, S)
  BY FS_CardinalityType
<1>2. PICK f : f \in Bijection(1..n, S)
  BY <1>1 DEF ExistsBijection
<1>3. f \in [1..n -> S] /\ IsInjective(f)
  BY <1>2 DEF Bijection, Injection, IsInjective
<1>4. order \in [1..n -> S] /\ IsInjective(order)
  BY <1>3 DEF SetToSeq
<1> HIDE DEF order
<1>5. order \in Injection(1..n, S)
  BY <1>4 DEF Injection
<1>6. IsFiniteSet(1..n) /\ Cardinality(1..n) = n
  BY <1>1, FS_Interval
<1>7. order \in Surjection(1..n, S)
  BY <1>5, <1>6, FS_Injection
<1>8. order \in Seq(S) /\ Len(order) = n
  BY <1>1, <1>4
<1>9. \A i, j \in 1..n : order[i] = order[j] => i = j
  BY <1>4 DEF IsInjective
<1>10. \A x \in S : \E i \in 1..n : order[i] = x
  BY <1>7 DEF Surjection
<1> QED
  BY <1>1, <1>4, <1>8, <1>9, <1>10 DEF order

\* g tells what the panel shows of the first users of an order.
AddsUsers(c, p, order, m, g) ==
  g = [n \in 0..m |-> IF n = 0 THEN p ELSE UserAdded(c, g[n - 1], order[n])]

\* One user more.
LEMMA AddsUsersNext ==
  ASSUME NEW c, NEW p, NEW order, NEW m \in Nat, NEW g, AddsUsers(c, p, order, m, g)
  PROVE  \E z : AddsUsers(c, p, order, m + 1, z)
<1> DEFINE z == [n \in 0..m+1 |-> IF n = m + 1 THEN UserAdded(c, g[m], order[n]) ELSE g[n]]
<1>1. \A n \in 0..m : z[n] = g[n]
  OBVIOUS
<1>2. \A n \in 0..m : g[n] = IF n = 0 THEN p ELSE UserAdded(c, g[n - 1], order[n])
  BY DEF AddsUsers
<1>3. z[m+1] = UserAdded(c, z[m], order[m+1])
  BY <1>1
<1>4. DOMAIN z = 0..m+1 /\ z = [n \in 0..m+1 |-> z[n]]
  OBVIOUS
<1> HIDE DEF z
<1>5. ASSUME NEW n \in 0..m, n # 0
      PROVE  z[n] = UserAdded(c, z[n - 1], order[n])
  <2>1. n \in Int /\ n - 1 \in 0..m
    BY <1>5
  <2> QED
    BY <1>1, <1>2, <1>5, <2>1
<1>6. z[0] = p
  BY <1>1, <1>2
<1>7. \A n \in 0..m+1 : n = m + 1 \/ n \in 0..m
  OBVIOUS
<1>8. m + 1 # 0 /\ (m + 1) - 1 = m
  OBVIOUS
<1>9. \A n \in 0..m+1 : z[n] = IF n = 0 THEN p ELSE UserAdded(c, z[n - 1], order[n])
  BY <1>3, <1>5, <1>6, <1>7, <1>8
<1>10. AddsUsers(c, p, order, m + 1, z)
  BY <1>4, <1>9 DEF AddsUsers
<1> QED
  BY <1>10

\* Users are added one after another.
LEMMA AllAddedDef ==
  ASSUME NEW c, NEW p, NEW order, Len(order) \in Nat
  PROVE  \E g : /\ AllAdded(c, p, order) = g[Len(order)] /\ g[0] = p
               /\ \A n \in 1..Len(order) : g[n] = UserAdded(c, g[n - 1], order[n])
<1> DEFINE S == {m \in Nat : \E g : AddsUsers(c, p, order, m, g)}
           h == CHOOSE g : AddsUsers(c, p, order, Len(order), g)
<1>1. 0 \in S
  <2>1. AddsUsers(c, p, order, 0, [n \in 0..0 |-> p])
    BY DEF AddsUsers
  <2> QED
    BY <2>1
<1>2. \A m \in Nat : m \in S => m + 1 \in S
  BY AddsUsersNext
<1>3. Len(order) \in S
  <2> HIDE DEF S
  <2> QED
    BY <1>1, <1>2, Induction
<1>4. AddsUsers(c, p, order, Len(order), h)
  BY <1>3
<1>5. AllAdded(c, p, order) = h[Len(order)]
  BY DEF AllAdded, AddsUsers
<1> HIDE DEF h
<1>6. h[0] = p
  BY <1>4 DEF AddsUsers
<1>7. ASSUME NEW n \in 1..Len(order) PROVE h[n] = UserAdded(c, h[n - 1], order[n])
  <2>1. n \in 0..Len(order) /\ n # 0
    OBVIOUS
  <2> QED
    BY <1>4, <2>1 DEF AddsUsers
<1> QED
  BY <1>5, <1>6, <1>7

\* Whatever the order, the panel shows all of them then.
LEMMA AllAddedShows ==
  ASSUME NEW c, NEW users, Named(c, users), NEW p, DOMAIN p = PanelFields, Shows(c, {}, p)
  PROVE  /\ Shows(c, users, AllAdded(c, p, SetToSeq(users)))
         /\ DOMAIN AllAdded(c, p, SetToSeq(users)) = PanelFields
         /\ AllAdded(c, p, SetToSeq(users)).allowed = p.allowed
<1> DEFINE order == SetToSeq(users)
           len == Len(order)
<1>1. /\ len \in Nat /\ order \in [1..len -> users]
      /\ \A i, j \in 1..len : order[i] = order[j] => i = j
      /\ \A u \in users : \E i \in 1..len : order[i] = u
  <2>1. IsFiniteSet(users)
    BY InitialAssumption, FS_Subset DEF Named
  <2> QED
    BY <2>1, OrderIs
<1> HIDE DEF order
<1>2. PICK g : /\ AllAdded(c, p, order) = g[len] /\ g[0] = p
               /\ \A n \in 1..len : g[n] = UserAdded(c, g[n - 1], order[n])
  BY <1>1, AllAddedDef
<1> HIDE DEF len
<1> DEFINE first(n) == {order[i] : i \in 1..n}
           S == {n \in Nat : n <= len =>
                  Shows(c, first(n), g[n]) /\ DOMAIN g[n] = PanelFields /\ g[n].allowed = p.allowed}
<1>3. 0 \in S
  <2>1. first(0) = {}
    OBVIOUS
  <2> HIDE DEF first
  <2> QED
    BY <1>2, <2>1
<1>4. ASSUME NEW n \in Nat, n \in S PROVE n + 1 \in S
  <2> SUFFICES ASSUME n + 1 <= len
               PROVE  /\ Shows(c, first(n + 1), g[n + 1]) /\ DOMAIN g[n + 1] = PanelFields
                      /\ g[n + 1].allowed = p.allowed
    OBVIOUS
  <2> DEFINE u == order[n + 1]
  <2>1. n <= len /\ n + 1 \in 1..len /\ (n + 1) - 1 = n
    BY <1>1
  <2>2. Shows(c, first(n), g[n]) /\ DOMAIN g[n] = PanelFields /\ g[n].allowed = p.allowed
    BY <1>4, <2>1
  <2>3. g[n + 1] = UserAdded(c, g[n], u)
    BY <1>2, <2>1
  <2>4. u \in users /\ first(n) \subseteq users
    BY <1>1, <2>1
  <2>5. u \notin first(n)
    BY <1>1, <2>1
  <2>6. first(n + 1) = first(n) \cup {u}
    <3>1. \A i \in 1..n+1 : i \in 1..n \/ i = n + 1
      OBVIOUS
    <3>2. \A i \in 1..n : i \in 1..n+1
      OBVIOUS
    <3>3. n + 1 \in 1..n+1
      OBVIOUS
    <3> QED
      BY <3>1, <3>2, <3>3
  <2> HIDE DEF u, first
  <2>7. Named(c, first(n) \cup {u}) /\ u \in Users \ first(n)
    BY <2>4, <2>5 DEF Named
  <2>8. /\ Shows(c, first(n) \cup {u}, UserAdded(c, g[n], u))
        /\ DOMAIN UserAdded(c, g[n], u) = PanelFields /\ UserAdded(c, g[n], u).allowed = g[n].allowed
    <3> DEFINE some == first(n)
               q == g[n]
    <3>1. Shows(c, some, q) /\ DOMAIN q = PanelFields /\ Named(c, some \cup {u}) /\ u \in Users \ some
      BY <2>2, <2>7
    <3> HIDE DEF some, q
    <3>2. /\ Shows(c, some \cup {u}, UserAdded(c, q, u))
          /\ DOMAIN UserAdded(c, q, u) = PanelFields /\ UserAdded(c, q, u).allowed = q.allowed
      BY <3>1, UserAddedShows
    <3> QED
      BY <3>2 DEF some, q
  <2> QED
    BY <2>2, <2>3, <2>6, <2>8
<1>5. len \in S
  <2> HIDE DEF S
  <2> QED
    BY <1>1, <1>3, <1>4, Induction
<1>6. first(len) = users
  BY <1>1
<1> HIDE DEF first
<1>7. Shows(c, users, g[len]) /\ DOMAIN g[len] = PanelFields /\ g[len].allowed = p.allowed
  BY <1>1, <1>5, <1>6
<1> QED
  BY <1>2, <1>7 DEF order

-----------------------------------------------------------------------------
(***************************************************************************)
(* The panel shows the users that the library knows, through every step.   *)
(***************************************************************************)

SomeAccounts == [Users -> AnAccount \cup {NoAccount}]

\* Before the users are loaded the library knows none.  The questions and the deletions are
\* about users.
ListInv ==
  /\ accounts \in SomeAccounts /\ cache \in SomeAccounts
  /\ panel.life \in {"shown", "disposed", "misused"}
  /\ Shows(cache, Known(cache), panel)
  /\ ~panel.loaded => Known(cache) = {}
  /\ question.about \in Users \cup {NoUser}
  /\ \A r \in deletions : r.user \in Users /\ r.about \in Users

\* The users with an account have a name.
LEMMA KnownNamed ==
  ASSUME NEW c \in SomeAccounts
  PROVE  Named(c, Known(c))
<1>1. \A u \in Known(c) : c[u] \in AnAccount
  BY DEF SomeAccounts, Known
<1>2. \A a \in AnAccount : a.name \in Nat
  BY UsersAssumption DEF AnAccount
<1> QED
  BY <1>1, <1>2 DEF Named, Known

\* The life of the panel is not shown.
LEMMA AnotherLife ==
  ASSUME NEW p, DOMAIN p = PanelFields, NEW life
  PROVE  LET q == [p EXCEPT !.life = life]
         IN /\ DOMAIN q = PanelFields /\ q.life = life /\ q.loaded = p.loaded
            /\ \A c, users : Shows(c, users, p) => Shows(c, users, q)
<1> DEFINE q == [p EXCEPT !.life = life]
<1>1. /\ DOMAIN q = PanelFields /\ q.life = life /\ q.loaded = p.loaded /\ q.listed = p.listed
      /\ q.other_accounts = p.other_accounts /\ q.other_iter = p.other_iter
      /\ q.selected = p.selected /\ q.vbox = p.vbox /\ q.allowed = p.allowed /\ q.details = p.details
  BY DEF PanelFields
<1> HIDE DEF q
<1>2. \A c, users : Shows(c, users, p) => Shows(c, users, q)
  BY <1>1 DEF Shows, SelectionIs, DetailsAre
<1> QED
  BY <1>1, <1>2 DEF q

\* Another selection shows the same rows.
LEMMA SelectedShows ==
  ASSUME NEW c, NEW users, NEW p, DOMAIN p = PanelFields, Shows(c, users, p), NEW u \in users \cup {NoUser}
  PROVE  Shows(c, users, SelectUser(c, p, u))
<1> DEFINE s == SelectUser(c, p, u)
<1>1. users \subseteq Users /\ p.allowed \in BOOLEAN /\ SelectionIs(users, p) /\ DetailsAre(c, p)
  BY DEF Shows, Named, SelectionIs
<1>2. SameRows(p, s) /\ SelectionIs(users, s) /\ DetailsAre(c, s)
  BY <1>1, SelectUserShows
<1> HIDE DEF s
<1>3. Shows(c, users, s)
  BY <1>2 DEF Shows, SameRows
<1> QED
  BY <1>3 DEF s

\* A row of a user is of one who is known.
LEMMA RowKnown ==
  ASSUME NEW c, NEW users, NEW p, Shows(c, users, p), NEW u \in Users, u \in ToSet(p.listed)
  PROVE  u \in users
<1>1. u # MyAccount /\ u # OtherAccounts
  BY UsersAssumption
<1> QED
  BY <1>1 DEF Shows, RowsAre, Heading

\* The accounts of the service stay accounts.
LEMMA AutologinTyped ==
  ASSUME NEW a \in SomeAccounts, NEW u \in Users, a[u] # NoAccount, NEW on \in BOOLEAN
  PROVE  SetAutomaticLogin(a, u, on) \in SomeAccounts /\ SetAutomaticLogin(a, u, on)[u] # NoAccount
<1> DEFINE b == SetAutomaticLogin(a, u, on)
<1>1. \A r \in AnAccount, s \in BOOLEAN : [r EXCEPT !.auto = s] \in AnAccount
  BY DEF AnAccount
<1>2. \A v \in Users : a[v] \in AnAccount \cup {NoAccount}
  BY DEF SomeAccounts
<1>3. b = [v \in Users |-> IF v = u THEN [a[u] EXCEPT !.auto = on]
                           ELSE IF on /\ a[v] # NoAccount THEN [a[v] EXCEPT !.auto = FALSE] ELSE a[v]]
  BY DEF SetAutomaticLogin
<1>4. a[u] \in AnAccount
  BY <1>2
<1> HIDE DEF b
<1>5. b[u] = [a[u] EXCEPT !.auto = on]
  BY <1>3
<1>6. b[u] \in AnAccount
  BY <1>1, <1>4, <1>5
<1>7. \A v \in Users : b[v] \in AnAccount \cup {NoAccount}
  <2> SUFFICES ASSUME NEW v \in Users, v # u PROVE b[v] \in AnAccount \cup {NoAccount}
    BY <1>6
  <2>1. b[v] = IF on /\ a[v] # NoAccount THEN [a[v] EXCEPT !.auto = FALSE] ELSE a[v]
    BY <1>3
  <2>2. CASE on /\ a[v] # NoAccount
    <3>1. a[v] \in AnAccount
      BY <1>2, <2>2
    <3>2. [a[v] EXCEPT !.auto = FALSE] \in AnAccount
      BY <1>1, <3>1
    <3> QED
      BY <2>1, <2>2, <3>2
  <2>3. CASE ~(on /\ a[v] # NoAccount)
    BY <1>2, <2>1, <2>3
  <2> QED
    BY <2>2, <2>3
<1>8. b = [v \in Users |-> b[v]]
  BY <1>3
<1>9. b \in SomeAccounts
  BY <1>7, <1>8 DEF SomeAccounts
<1>10. b[u] # NoAccount
  BY <1>6, InitialAssumption
<1> QED
  BY <1>9, <1>10 DEF b

\* What a tool or the panel makes of an account.
LEMMA AccountSet ==
  ASSUME NEW a \in SomeAccounts, NEW u \in Users
  PROVE  /\ [a EXCEPT ![u] = NoAccount] \in SomeAccounts
         /\ \A admin \in BOOLEAN, n \in Names : [a EXCEPT ![u] = NewAccount(admin, n)] \in SomeAccounts
         /\ a[u] # NoAccount =>
              /\ \A n \in Names : [a EXCEPT ![u].name = n] \in SomeAccounts
              /\ \A admin \in BOOLEAN : [a EXCEPT ![u].admin = admin] \in SomeAccounts
              /\ [a EXCEPT ![u].admin = ~@] \in SomeAccounts
              /\ [a EXCEPT ![u].in = ~@] \in SomeAccounts
<1>1. \A r \in AnAccount \cup {NoAccount} : [a EXCEPT ![u] = r] \in SomeAccounts
  BY DEF SomeAccounts
<1>2. \A admin \in BOOLEAN, n \in Names : NewAccount(admin, n) \in AnAccount
  BY DEF NewAccount, AnAccount
<1>3. a[u] # NoAccount => a[u] \in AnAccount
  BY DEF SomeAccounts
<1>4. ASSUME NEW r \in AnAccount
      PROVE  /\ \A n \in Names : [r EXCEPT !.name = n] \in AnAccount
             /\ \A b \in BOOLEAN : [r EXCEPT !.admin = b] \in AnAccount
             /\ \A b \in BOOLEAN : [r EXCEPT !.in = b] \in AnAccount
             /\ (~r.admin) \in BOOLEAN /\ (~r.in) \in BOOLEAN
  BY DEF AnAccount
<1>5. a[u] # NoAccount =>
        /\ \A n \in Names : [a EXCEPT ![u] = [a[u] EXCEPT !.name = n]] \in SomeAccounts
        /\ \A admin \in BOOLEAN : [a EXCEPT ![u] = [a[u] EXCEPT !.admin = admin]] \in SomeAccounts
        /\ [a EXCEPT ![u] = [a[u] EXCEPT !.admin = ~a[u].admin]] \in SomeAccounts
        /\ [a EXCEPT ![u] = [a[u] EXCEPT !.in = ~a[u].in]] \in SomeAccounts
  BY <1>1, <1>3, <1>4
<1> QED
  BY <1>1, <1>2, <1>5

\* The users are loaded at once, or there is no service.
LEMMA UsersLoadedList ==
  ASSUME PanelInv, ListInv, NEW service \in BOOLEAN, UsersLoaded(service)
  PROVE  ListInv'
<1>1. /\ panel.life = "shown" /\ ~panel.loaded /\ DOMAIN panel = PanelFields
      /\ UNCHANGED <<accounts, question, deletions>> /\ Known(cache) = {}
  BY DEF UsersLoaded, Alive, PanelInv, QuestionInv, ListInv
<1>2. CASE service
  <2> DEFINE users == {u \in Users : Exists(u)}
             all == AllAdded(accounts, panel, SetToSeq(users))
             q == [panel EXCEPT !.loaded = TRUE, !.listed = all.listed,
                     !.other_accounts = all.other_accounts, !.other_iter = all.other_iter,
                     !.selected = all.selected, !.vbox = all.vbox,
                     !.details = all.details, !.add = all.add]
  <2>1. cache' = accounts /\ panel' = q
    BY <1>2 DEF UsersLoaded
  <2>2. users = Known(accounts)
    BY DEF Known, Exists
  <2> HIDE DEF users
  <2>3. Named(accounts, users)
    BY <2>2, KnownNamed DEF ListInv
  <2>4. Shows(accounts, {}, panel)
    BY <1>1, ShowsSame DEF ListInv
  <2>5. Shows(accounts, users, all) /\ DOMAIN all = PanelFields /\ all.allowed = panel.allowed
    BY <1>1, <2>3, <2>4, AllAddedShows
  <2> HIDE DEF all
  <2>6. /\ q.listed = all.listed /\ q.other_accounts = all.other_accounts /\ q.other_iter = all.other_iter
        /\ q.selected = all.selected /\ q.vbox = all.vbox /\ q.allowed = all.allowed
        /\ q.details = all.details /\ q.life = panel.life /\ q.loaded = TRUE
    BY <1>1, <2>5 DEF PanelFields
  <2> HIDE DEF q
  <2>7. Shows(accounts, users, q)
    BY <2>5, <2>6 DEF Shows, SelectionIs, DetailsAre
  <2>8. Shows(cache', Known(cache'), panel')
    BY <2>1, <2>2, <2>7
  <2> QED
    BY <1>1, <2>1, <2>6, <2>8 DEF ListInv
<1>3. CASE ~service
  <2> DEFINE q == [panel EXCEPT !.loaded = TRUE, !.sensitive = FALSE]
  <2>1. cache' = cache /\ panel' = q
    BY <1>3 DEF UsersLoaded
  <2>2. /\ q.listed = panel.listed /\ q.other_accounts = panel.other_accounts
        /\ q.other_iter = panel.other_iter
        /\ q.selected = panel.selected /\ q.vbox = panel.vbox /\ q.allowed = panel.allowed
        /\ q.details = panel.details /\ q.life = panel.life /\ q.loaded = TRUE
    BY <1>1 DEF PanelFields
  <2> HIDE DEF q
  <2>3. Shows(cache, Known(cache), q)
    BY <2>2 DEF ListInv, Shows, SelectionIs, DetailsAre
  <2> QED
    BY <1>1, <2>1, <2>2, <2>3 DEF ListInv
<1> QED
  BY <1>2, <1>3

\* What the library hears of one user.
LEMMA DeliverList ==
  ASSUME PanelInv, ListInv, NEW u \in Users, Deliver(u)
  PROVE  ListInv'
<1> DEFINE users == Known(cache)
           c == cache'
<1>1. /\ panel.loaded /\ cache[u] # accounts[u] /\ DOMAIN panel = PanelFields
      /\ cache' = [cache EXCEPT ![u] = accounts[u]]
      /\ panel' = IF cache[u] = NoAccount THEN UserAdded(cache', panel, u)
                  ELSE IF accounts[u] = NoAccount THEN UserRemoved(cache', panel, u)
                  ELSE UserChanged(cache', panel, u)
      /\ UNCHANGED <<accounts, deletions>>
      /\ accounts \in SomeAccounts /\ cache \in SomeAccounts /\ Shows(cache, users, panel)
      /\ question.about \in Users \cup {NoUser} /\ DOMAIN question = {"kind", "about", "moved"}
  BY DEF Deliver, PanelInv, QuestionInv, ListInv
<1>2. c \in SomeAccounts /\ c[u] = accounts[u] /\ \A v \in Users \ {u} : c[v] = cache[v]
  BY <1>1 DEF SomeAccounts
<1>3. Named(c, Known(c))
  BY <1>2, KnownNamed
<1>4. question'.about = question.about
  <2>1. question' = [question EXCEPT !.moved = @ \/ (accounts[u] = NoAccount /\ question.kind = "delete")]
    BY DEF Deliver
  <2> QED
    BY <1>1, <2>1
<1>5. SamePanel(panel, panel')
  <2>1. SamePanel(panel, UserAdded(cache', panel, u))
    BY <1>1, UserAddedKeeps
  <2>2. SamePanel(panel, UserRemoved(cache', panel, u))
    BY <1>1, UserRemovedKeeps
  <2>3. SamePanel(panel, UserChanged(cache', panel, u))
    BY <1>1, UserChangedKeeps DEF SameSelection
  <2> QED
    BY <1>1, <2>1, <2>2, <2>3
<1>6. users \subseteq Users /\ (u \in users <=> cache[u] # NoAccount)
  BY DEF Known
<1>7. CASE cache[u] = NoAccount
  <2>1. Known(c) = users \cup {u} /\ u \in Users \ users
    BY <1>1, <1>2, <1>7 DEF Known
  <2> HIDE DEF users, c
  <2>2. Shows(c, users, panel)
    BY <1>1, <1>2, <1>6, <2>1, ShowsSame
  <2>3. Named(c, users \cup {u})
    BY <1>3, <2>1
  <2>4. Shows(c, users \cup {u}, UserAdded(c, panel, u))
    BY <1>1, <2>1, <2>2, <2>3, UserAddedShows
  <2> QED
    BY <1>1, <1>2, <1>4, <1>5, <1>7, <2>1, <2>4 DEF ListInv, SamePanel, c
<1>8. CASE cache[u] # NoAccount /\ accounts[u] = NoAccount
  <2>1. Known(c) = users \ {u} /\ u \in users
    BY <1>1, <1>2, <1>8 DEF Known
  <2> HIDE DEF users, c
  <2>2. \A v \in users \ {u} : c[v] = cache[v]
    BY <1>2, <1>6
  <2>3. Shows(c, users \ {u}, UserRemoved(c, panel, u))
    BY <1>1, <2>1, <2>2, UserRemovedShows
  <2> QED
    BY <1>1, <1>2, <1>4, <1>5, <1>8, <2>1, <2>3 DEF ListInv, SamePanel, c
<1>9. CASE cache[u] # NoAccount /\ accounts[u] # NoAccount
  <2>1. Known(c) = users /\ u \in users
    BY <1>1, <1>2, <1>9 DEF Known
  <2> HIDE DEF users, c
  <2>2. \A v \in users \ {u} : c[v] = cache[v]
    BY <1>2, <1>6
  <2>3. Shows(c, users, UserChanged(c, panel, u))
    BY <1>1, <1>3, <2>1, <2>2, UserChangedShows
  <2> QED
    BY <1>1, <1>2, <1>4, <1>5, <1>9, <2>1, <2>3 DEF ListInv, SamePanel, c
<1> QED
  BY <1>7, <1>8, <1>9

\* The steps that choose a row.
LEMMA SelectList ==
  ASSUME PanelInv, ListInv, (\E u \in Users : SelectRow(u)) \/ SelectCreatedUser
  PROVE  ListInv'
<1> DEFINE users == Known(cache)
<1>1. DOMAIN panel = PanelFields /\ Shows(cache, users, panel) /\ UNCHANGED <<accounts, cache, question, deletions>>
  BY DEF PanelInv, QuestionInv, ListInv, SelectRow, SelectCreatedUser, Frame
<1> HIDE DEF users
<1>2. ASSUME NEW u \in Users, u \in ToSet(panel.listed), panel' = SelectUser(cache, panel, u)
      PROVE  ListInv'
  <2>1. u \in users
    BY <1>1, <1>2, RowKnown
  <2>2. Shows(cache, users, SelectUser(cache, panel, u))
    BY <1>1, <2>1, SelectedShows
  <2>3. SamePanel(panel, SelectUser(cache, panel, u))
    BY <1>1, SelectUserKeeps
  <2> QED
    BY <1>1, <1>2, <2>2, <2>3 DEF ListInv, SamePanel, users
<1>3. CASE \E u \in Users : SelectRow(u)
  BY <1>2, <1>3 DEF SelectRow
<1>4. CASE SelectCreatedUser
  <2>1. CASE ~Alive
    <3> DEFINE q == [panel EXCEPT !.life = "misused"]
    <3>1. panel' = q
      BY <1>4, <2>1 DEF SelectCreatedUser
    <3>2. Shows(cache, users, q) /\ q.life = "misused" /\ q.loaded = panel.loaded
      BY <1>1, AnotherLife
    <3> HIDE DEF q
    <3> QED
      BY <1>1, <3>1, <3>2 DEF ListInv, users
  <2>2. CASE Alive /\ adding.created \in ToSet(panel.listed)
    <3>1. panel' = SelectUser(cache, panel, adding.created)
      BY <1>4, <2>2 DEF SelectCreatedUser
    <3>2. adding.created \in Users \cup {NoUser}
      BY DEF PanelInv, QuestionInv
    <3>3. NoUser \notin ToSet(panel.listed)
      <4>1. NoUser \notin Users /\ NoUser # MyAccount /\ NoUser # OtherAccounts
        BY UsersAssumption
      <4> QED
        BY <1>1, <4>1 DEF Shows, RowsAre, Heading, Named
    <3> QED
      BY <1>2, <2>2, <3>1, <3>2, <3>3
  <2>3. CASE Alive /\ adding.created \notin ToSet(panel.listed)
    <3>1. panel' = panel
      BY <1>4, <2>3 DEF SelectCreatedUser
    <3> QED
      BY <1>1, <3>1 DEF ListInv
  <2> QED
    BY <2>1, <2>2, <2>3
<1> QED
  BY <1>3, <1>4

\* With another permission the details are shown again.
LEMMA PermissionList ==
  ASSUME PanelInv, ListInv, PermissionChanged
  PROVE  ListInv'
<1> DEFINE p == [panel EXCEPT !.allowed = ~@]
           users == Known(cache)
<1>1. /\ DOMAIN panel = PanelFields /\ Shows(cache, users, panel)
      /\ panel' = IF p.selected = NoUser THEN p ELSE ShowUser(cache, p)
      /\ UNCHANGED <<accounts, cache, question, deletions>>
  BY DEF PanelInv, QuestionInv, ListInv, PermissionChanged
<1> HIDE DEF users
<1>2. /\ DOMAIN p = PanelFields /\ p.life = panel.life /\ p.loaded = panel.loaded /\ p.listed = panel.listed
      /\ p.other_accounts = panel.other_accounts /\ p.other_iter = panel.other_iter
      /\ p.selected = panel.selected /\ p.vbox = panel.vbox /\ p.details = panel.details
      /\ p.allowed = ~panel.allowed
  BY <1>1 DEF PanelFields
<1> HIDE DEF p
<1>3. SelectionIs(users, p)
  BY <1>1, <1>2 DEF Shows, SelectionIs
<1>4. CASE p.selected = NoUser
  <2>1. DetailsAre(cache, p)
    BY <1>3, <1>4 DEF SelectionIs, DetailsAre
  <2>2. Shows(cache, users, p)
    BY <1>1, <1>2, <1>3, <2>1 DEF Shows
  <2> QED
    BY <1>1, <1>2, <1>4, <2>2 DEF ListInv, users
<1>5. CASE p.selected # NoUser
  <2> DEFINE s == ShowUser(cache, p)
  <2>1. SameRows(p, s) /\ SelectionIs(users, s) /\ DetailsAre(cache, s)
    BY <1>2, <1>3, ShowUserShows
  <2>2. s.life = p.life /\ s.loaded = p.loaded
    BY <1>2, ShowUserKeeps DEF SameSelection, SamePanel
  <2> HIDE DEF s
  <2>3. Shows(cache, users, s)
    BY <1>1, <1>2, <2>1 DEF Shows, SameRows
  <2> QED
    BY <1>1, <1>2, <1>5, <2>2, <2>3 DEF ListInv, users, s
<1> QED
  BY <1>4, <1>5

\* The steps that change the accounts and not what is shown of them.
LEMMA AccountsList ==
  ASSUME PanelInv, ListInv,
         \/ \E u \in Users : OtherTool(u) \/ AccountCreated(u)
         \/ \E n \in Names : ChangeNameDone(n)
         \/ AccountTypeChanged \/ AutologinChanged
  PROVE  ListInv'
<1>1. UNCHANGED <<cache, panel, question, deletions>>
  BY DEF OtherTool, AccountCreated, ChangeNameDone, AccountTypeChanged, AutologinChanged, Frame
<1>2. accounts \in SomeAccounts
  BY DEF ListInv
<1>3. ASSUME NEW u \in Users, OtherTool(u) PROVE accounts' \in SomeAccounts
  <2> DEFINE new(admin, n) == [accounts EXCEPT ![u] = NewAccount(admin, n)]
             gone == [accounts EXCEPT ![u] = NoAccount]
             other == [accounts EXCEPT ![u].admin = ~@]
             logged == [accounts EXCEPT ![u].in = ~@]
  <2>1. \/ \E admin \in BOOLEAN, n \in Names : accounts' = new(admin, n)
        \/ accounts' = gone
        \/ accounts[u] # NoAccount /\ accounts' = other
        \/ accounts[u] # NoAccount /\ accounts' = logged
    BY <1>3 DEF OtherTool, Exists
  <2>2. \A admin \in BOOLEAN, n \in Names : new(admin, n) \in SomeAccounts
    BY <1>2, AccountSet
  <2>3. gone \in SomeAccounts
    BY <1>2, AccountSet
  <2>4. accounts[u] # NoAccount => other \in SomeAccounts /\ logged \in SomeAccounts
    BY <1>2, AccountSet
  <2> HIDE DEF new, gone, other, logged
  <2> QED
    BY <2>1, <2>2, <2>3, <2>4
<1>4. ASSUME NEW u \in Users, AccountCreated(u) PROVE accounts' \in SomeAccounts
  <2> DEFINE new(admin, n) == [accounts EXCEPT ![u] = NewAccount(admin, n)]
  <2>1. \E admin \in BOOLEAN, n \in Names : accounts' = new(admin, n)
    BY <1>4 DEF AccountCreated
  <2>2. \A admin \in BOOLEAN, n \in Names : new(admin, n) \in SomeAccounts
    BY <1>2, AccountSet
  <2> HIDE DEF new
  <2> QED
    BY <2>1, <2>2
<1>5. panel.vbox => panel.selected \in Users
  BY DEF ListInv, Shows, SelectionIs, Named
<1>6. ASSUME NEW n \in Names, ChangeNameDone(n) PROVE accounts' \in SomeAccounts
  BY <1>2, <1>5, <1>6, AccountSet DEF ChangeNameDone, Exists
<1>7. CASE AccountTypeChanged
  <2> DEFINE admin == ~panel.details.account.admin
  <2>1. admin \in BOOLEAN
    OBVIOUS
  <2>2. accounts' = [accounts EXCEPT ![panel.selected].admin = admin] \/ accounts' = accounts
    BY <1>7 DEF AccountTypeChanged
  <2>3. panel.selected \in Users /\ accounts[panel.selected] # NoAccount
    BY <1>5, <1>7 DEF AccountTypeChanged, Exists
  <2> HIDE DEF admin
  <2> DEFINE set == [accounts EXCEPT ![panel.selected].admin = admin]
  <2>4. set \in SomeAccounts
    BY <1>2, <2>1, <2>3, AccountSet
  <2> HIDE DEF set
  <2> QED
    BY <1>1, <1>2, <2>2, <2>4 DEF ListInv, set
<1>8. CASE AutologinChanged
  <2> DEFINE u == panel.selected
             active == ~panel.details.account.auto
             set == SetAutomaticLogin(accounts, u, active)
  <2>1. active \in BOOLEAN
    OBVIOUS
  <2>2. accounts' = SetAutomaticLogin(set, u, FALSE) \/ accounts' = set
    BY <1>8 DEF AutologinChanged
  <2>3. u \in Users /\ accounts[u] # NoAccount
    BY <1>5, <1>8 DEF AutologinChanged, Exists
  <2> HIDE DEF u, active
  <2>4. set \in SomeAccounts /\ set[u] # NoAccount
    BY <1>2, <2>1, <2>3, AutologinTyped
  <2> HIDE DEF set
  <2>5. SetAutomaticLogin(set, u, FALSE) \in SomeAccounts
    BY <2>3, <2>4, AutologinTyped
  <2> QED
    BY <1>1, <2>2, <2>4, <2>5 DEF ListInv
<1>9. accounts' \in SomeAccounts => ListInv'
  BY <1>1 DEF ListInv
<1> QED
  BY <1>3, <1>4, <1>6, <1>7, <1>8, <1>9

\* A question is about the selected user, and a deletion about the user of the question.
LEMMA QuestionList ==
  ASSUME PanelInv, ListInv,
         \/ DeleteUser \/ CloseMessage \/ AddUser \/ Dispose
         \/ \E u \in Users \cup {NoUser} : AccountDialogCompletes(u)
  PROVE  ListInv'
<1>1. UNCHANGED <<accounts, cache, deletions>>
  BY DEF DeleteUser, CloseMessage, AddUser, Dispose, AccountDialogCompletes, Frame
<1>2. panel.selected \in Users \cup {NoUser} /\ DOMAIN panel = PanelFields /\ Shows(cache, Known(cache), panel)
  BY DEF ListInv, Shows, SelectionIs, Named, PanelInv, QuestionInv
<1>3. CASE Dispose
  <2> DEFINE q == [panel EXCEPT !.life = "disposed"]
  <2>1. panel' = q /\ question' = question
    BY <1>3 DEF Dispose
  <2>2. Shows(cache, Known(cache), q) /\ q.life = "disposed" /\ q.loaded = panel.loaded
    BY <1>2, AnotherLife
  <2> HIDE DEF q
  <2> QED
    BY <1>1, <2>1, <2>2 DEF ListInv
<1>4. CASE ~Dispose
  <2>1. panel' = panel
    BY <1>4 DEF DeleteUser, CloseMessage, AddUser, AccountDialogCompletes
  <2>2. question'.about \in Users \cup {NoUser}
    <3>1. DeleteUser => question'.about = panel.selected
      BY DEF DeleteUser
    <3>2. CloseMessage => question'.about = NoUser
      BY DEF CloseMessage, NoQuestion
    <3>3. ~DeleteUser /\ ~CloseMessage => question' = question
      BY <1>4 DEF AddUser, AccountDialogCompletes
    <3> QED
      BY <1>2, <3>1, <3>2, <3>3 DEF ListInv
  <2> QED
    BY <1>1, <2>1, <2>2 DEF ListInv
<1> QED
  BY <1>3, <1>4

\* An answer to a panel that is gone shows nothing else.
LEMMA DeleteUserResponseList ==
  ASSUME PanelInv, ListInv, NEW response, DeleteUserResponse(response)
  PROVE  ListInv'
<1> DEFINE u == panel.selected
           q == [panel EXCEPT !.life = "misused"]
           r == [user |-> u, about |-> question.about, moved |-> question.moved]
<1>1. question' = NoQuestion /\ cache' = cache /\ question.kind = "delete"
  BY DEF DeleteUserResponse
<1>2. /\ DOMAIN panel = PanelFields /\ Shows(cache, Known(cache), panel) /\ u \in Users \cup {NoUser}
      /\ accounts \in SomeAccounts /\ question.about \in Users
  BY <1>1 DEF ListInv, Shows, SelectionIs, Named, PanelInv, QuestionInv
<1>3. question'.about = NoUser
  BY <1>1 DEF NoQuestion
<1>4. \/ UNCHANGED <<accounts, panel, deletions>>
      \/ panel' = q /\ UNCHANGED <<accounts, deletions>>
      \/ /\ u # NoUser /\ panel' = panel /\ deletions' = deletions \cup {r}
         /\ accounts' = accounts \/ (accounts[u] # NoAccount /\ accounts' = SetAutomaticLogin(accounts, u, FALSE))
  BY DEF DeleteUserResponse, Exists
<1>5. CASE UNCHANGED <<accounts, panel, deletions>>
  BY <1>1, <1>3, <1>5 DEF ListInv
<1>6. CASE panel' = q /\ UNCHANGED <<accounts, deletions>>
  <2>1. Shows(cache, Known(cache), q) /\ q.life = "misused" /\ q.loaded = panel.loaded
    BY <1>2, AnotherLife
  <2> HIDE DEF q
  <2> QED
    BY <1>1, <1>3, <1>6, <2>1 DEF ListInv
<1>7. CASE /\ u # NoUser /\ panel' = panel /\ deletions' = deletions \cup {r}
           /\ accounts' = accounts \/ (accounts[u] # NoAccount /\ accounts' = SetAutomaticLogin(accounts, u, FALSE))
  <2>1. u \in Users
    BY <1>2, <1>7
  <2>2. r.user \in Users /\ r.about \in Users
    BY <1>2, <2>1
  <2> HIDE DEF u, r
  <2>3. accounts' \in SomeAccounts
    BY <1>2, <1>7, <2>1, AutologinTyped
  <2> QED
    BY <1>1, <1>3, <1>7, <2>2, <2>3 DEF ListInv
<1> QED
  BY <1>4, <1>5, <1>6, <1>7

LEMMA DeleteUserDoneList ==
  ASSUME PanelInv, ListInv, NEW r \in deletions, NEW ok \in BOOLEAN, DeleteUserDone(r, ok)
  PROVE  ListInv'
<1> DEFINE q == [panel EXCEPT !.life = "misused"]
<1>1. deletions' \subseteq deletions /\ UNCHANGED <<cache, question>>
  BY DEF DeleteUserDone
<1>2. accounts' \in SomeAccounts
  BY AccountSet DEF DeleteUserDone, ListInv
<1>3. panel' = panel \/ panel' = q
  BY DEF DeleteUserDone
<1>4. Shows(cache, Known(cache), q) /\ q.life = "misused" /\ q.loaded = panel.loaded
  BY AnotherLife DEF ListInv, PanelInv, QuestionInv
<1> HIDE DEF q
<1> QED
  BY <1>1, <1>2, <1>3, <1>4 DEF ListInv

LEMMA ListStep ==
  ASSUME PanelInv, ListInv, UserPanelNext
  PROVE  ListInv'
BY UsersLoadedList, DeliverList, SelectList, PermissionList, AccountsList, QuestionList,
   DeleteUserResponseList, DeleteUserDoneList DEF UserPanelNext

LEMMA ListInit ==
  ASSUME UserPanelInit
  PROVE  ListInv
<1>1. /\ accounts \in SomeAccounts /\ cache = [u \in Users |-> NoAccount] /\ question = NoQuestion
      /\ deletions = {}
  BY InitialAssumption DEF UserPanelInit, SomeAccounts
<1>2. /\ panel.life = "shown" /\ ~panel.loaded /\ panel.listed = <<MyAccount>> /\ panel.other_accounts = 0
      /\ panel.other_iter = FALSE /\ panel.selected = NoUser /\ panel.vbox = FALSE /\ panel.allowed = FALSE
  BY DEF UserPanelInit
<1>3. cache \in SomeAccounts /\ Known(cache) = {}
  BY <1>1 DEF SomeAccounts, Known
<1>4. Others({}) = {} /\ Heading({}) = {} /\ Cardinality(Others({})) = 0
  BY FS_EmptySet DEF Others, Heading
<1>5. RowsAre(cache, {}, {}, panel.listed)
  <2>1. panel.listed \in Seq(RowsOf({})) /\ DOMAIN panel.listed = {1} /\ panel.listed[1] = MyAccount
    BY <1>2 DEF RowsOf
  <2>2. ToSet(panel.listed) = {MyAccount}
    BY <2>1 DEF ToSet
  <2> QED
    BY <2>1, <2>2 DEF RowsAre, Ordered
<1>6. SelectionIs({}, panel) /\ DetailsAre(cache, panel)
  BY <1>2 DEF SelectionIs, DetailsAre
<1>7. Shows(cache, {}, panel)
  BY <1>2, <1>4, <1>5, <1>6 DEF Shows, Named
<1>8. question.about = NoUser
  BY <1>1 DEF NoQuestion
<1> QED
  BY <1>1, <1>2, <1>3, <1>7, <1>8 DEF ListInv

-----------------------------------------------------------------------------
(***************************************************************************)
(* The dialog.  Unless Add was pressed during a request there is one       *)
(* request at a time.                                                      *)
(***************************************************************************)

DialogFields == {"life", "mode", "ok", "controls", "name_valid", "login", "domain", "chosen",
                 "realms", "manager", "button", "selected_realm", "join_shown", "join_prompted",
                 "cancelled", "user"}
WorldFields == {"realmd", "realmd_changes", "configured", "permitted", "created", "allowed",
                "requests", "overlap"}

\* The steps of the chain, and those before which the machine must not belong to the realm
Chain == {"login", "join_login", "join", "permit", "cache"}
Joining == {"join_login", "join"}

\* The only request that goes on, while the controls are off and the administrator is not
\* asked: the dialog has the realm and the login that it is about.
Current(c, cs, d, w) ==
  /\ \A other \in cs : other.op = "manager" \/ other = c
  /\ ~d.controls /\ ~d.join_shown
  /\ c.op \in Chain => c.on = d.selected_realm /\ c.login = d.login
  /\ c.op \in Joining => c.on \in Realms \ w.configured
  /\ c.op \in {"permit", "cache"} => c.on \in w.configured
  /\ c.op = "cache" => <<c.on, c.login>> \in w.permitted

\* The administrator is asked about a realm that the machine does not belong to, and nothing
\* else goes on.
OneRequest(cs, d, w) ==
  /\ \A c \in cs : c.op = "manager" \/ Current(c, cs, d, w)
  /\ d.join_shown => /\ ~d.controls
                     /\ d.selected_realm \notin w.configured
                     /\ \A c \in cs : c.op = "manager"

ChainInv ==
  /\ DOMAIN dlg = DialogFields /\ DOMAIN world = WorldFields
  /\ dlg.selected_realm \in Realms \cup {NoRealm}
  /\ world.overlap \in BOOLEAN
  /\ ~world.overlap => OneRequest(calls, dlg, world)

\* What OneRequest reads of the dialog, and the type of one of the fields
SameRequest(d, e) ==
  /\ DOMAIN e = DOMAIN d /\ e.controls = d.controls /\ e.join_shown = d.join_shown
  /\ e.selected_realm = d.selected_realm /\ e.login = d.login
\* What it reads of the world
SameWorld(w, v) == /\ DOMAIN v = DOMAIN w /\ v.overlap = w.overlap
                   /\ v.configured = w.configured /\ v.permitted = w.permitted
Quiet(cs) == \A c \in cs : c.op = "manager"

LEMMA OneRequestSame ==
  ASSUME NEW cs, NEW ds, ds \subseteq cs, NEW d, NEW e, SameRequest(d, e), NEW w,
         OneRequest(cs, d, w)
  PROVE  OneRequest(ds, e, w)
BY DEF OneRequest, Current, SameRequest

\* The end of a request leaves nothing that goes on.
LEMMA QuietAfter ==
  ASSUME NEW cs, NEW d, NEW w, OneRequest(cs, d, w), NEW call \in cs, call.op # "manager"
  PROVE  Quiet(cs \ {call})
BY DEF OneRequest, Current, Quiet

LEMMA QuietIsOneRequest ==
  ASSUME NEW cs, Quiet(cs), NEW d, ~d.join_shown, NEW w
  PROVE  OneRequest(cs, d, w)
BY DEF OneRequest, Quiet

\* A request that begins when nothing goes on
LEMMA NextRequest ==
  ASSUME NEW cs, Quiet(cs), NEW d, NEW w, NEW c, Current(c, {c}, d, w)
  PROVE  OneRequest(cs \cup {c}, d, w)
BY DEF OneRequest, Quiet, Current

\* The helpers of the dialog keep its request, but for the controls.
LEMMA DialogHelpers ==
  ASSUME NEW d, DOMAIN d = DialogFields
  PROVE  /\ SameRequest(d, DialogValidate(d))
         /\ \A mode : SameRequest(d, ModeChange(d, mode))
         /\ SameRequest(d, OnDomainChanged(d))
         /\ \A r : SameRequest(d, EnterpriseAddRealm(d, r))
         /\ \A user : SameRequest(d, CompleteDialog(d, user))
<1>1. \A e : DOMAIN e = DialogFields => SameRequest(e, DialogValidate(e))
  BY DEF SameRequest, DialogFields, DialogValidate
<1>2. \A e : DOMAIN e = DialogFields => SameRequest(e, OnDomainChanged(e))
  <2> TAKE e
  <2> HAVE DOMAIN e = DialogFields
  <2> DEFINE v == DialogValidate(e)
  <2>1. SameRequest(e, v)
    BY <1>1
  <2>2. OnDomainChanged(e) = [v EXCEPT !.chosen = TRUE]
    BY DEF OnDomainChanged
  <2> HIDE DEF v
  <2> QED
    BY <2>1, <2>2 DEF SameRequest, DialogFields
<1>3. \A mode : SameRequest(d, ModeChange(d, mode))
  <2> TAKE mode
  <2> DEFINE e == [d EXCEPT !.mode = mode]
  <2>1. SameRequest(d, e) /\ DOMAIN e = DialogFields
    BY DEF SameRequest, DialogFields
  <2>2. ModeChange(d, mode) = DialogValidate(e)
    BY DEF ModeChange
  <2> HIDE DEF e
  <2> QED
    BY <2>1, <2>2, <1>1 DEF SameRequest
<1>4. \A r : SameRequest(d, EnterpriseAddRealm(d, r))
  <2> TAKE r
  <2> DEFINE added == [d EXCEPT !.realms = @ \cup {r}]
             chosen == [added EXCEPT !.domain = r]
  <2>1. SameRequest(d, added) /\ SameRequest(d, chosen) /\ DOMAIN chosen = DialogFields
    BY DEF SameRequest, DialogFields
  <2>2. \/ EnterpriseAddRealm(d, r) = d \/ EnterpriseAddRealm(d, r) = added
        \/ EnterpriseAddRealm(d, r) = OnDomainChanged(chosen)
    BY DEF EnterpriseAddRealm
  <2>3. SameRequest(d, d)
    BY DEF SameRequest
  <2> HIDE DEF added, chosen
  <2> QED
    BY <2>1, <2>2, <2>3, <1>2 DEF SameRequest
<1>5. \A user : SameRequest(d, CompleteDialog(d, user))
  BY DEF SameRequest, DialogFields, CompleteDialog
<1> QED
  BY <1>1, <1>2, <1>3, <1>4, <1>5

LEMMA ActionHelpers ==
  ASSUME NEW d, DOMAIN d = DialogFields
  PROVE  /\ DOMAIN BeginAction(d) = DialogFields /\ ~BeginAction(d).controls
         /\ BeginAction(d).join_shown = d.join_shown /\ BeginAction(d).login = d.login
         /\ BeginAction(d).selected_realm = d.selected_realm
         /\ DOMAIN FinishAction(d) = DialogFields
         /\ FinishAction(d).join_shown = d.join_shown /\ FinishAction(d).login = d.login
         /\ FinishAction(d).selected_realm = d.selected_realm /\ FinishAction(d).domain = d.domain
BY DEF BeginAction, FinishAction, DialogFields

\* A step that keeps the request, or ends nothing but the wait for a manager
LEMMA RequestKept ==
  ASSUME ChainInv, SameRequest(dlg, dlg'),
         \A c \in calls' : c \in calls \/ c.op = "manager",
         SameWorld(world, world')
  PROVE  ChainInv'
BY DEF SameWorld, ChainInv, SameRequest, OneRequest, Current

\* The end of a request: what is left of the dialog does not matter but for its question.
LEMMA RequestEnded ==
  ASSUME ChainInv, NEW call \in calls, End(call), SameWorld(world, world'),
         DOMAIN dlg' = DialogFields, dlg'.selected_realm \in Realms \cup {NoRealm},
         call.op # "manager", ~world.overlap => ~dlg'.join_shown
  PROVE  ChainInv'
<1>1. ~world.overlap => OneRequest(calls', dlg', world')
  BY QuietAfter, QuietIsOneRequest DEF ChainInv, End
<1> QED
  BY <1>1 DEF ChainInv, SameWorld

\* The next request of the chain takes the place of the one that was answered.
LEMMA RequestContinued ==
  ASSUME ChainInv, NEW call \in calls, call.op # "manager", NEW op, NEW on, NEW login,
         Continue(call, op, on, login),
         DOMAIN dlg' = DialogFields, dlg'.selected_realm \in Realms \cup {NoRealm},
         DOMAIN world' = WorldFields, world'.overlap = world.overlap,
         ~world.overlap =>
           LET next == [op |-> op, on |-> on, login |-> login, n |-> call.n]
           IN Current(next, {next}, dlg', world')
  PROVE  ChainInv'
<1> DEFINE next == [op |-> op, on |-> on, login |-> login, n |-> call.n]
<1>1. calls' = (calls \ {call}) \cup {next}
  BY DEF Continue
<1>2. ~world.overlap => Current(next, {next}, dlg', world')
  OBVIOUS
<1> HIDE DEF next
<1>3. ~world.overlap => OneRequest(calls', dlg', world')
  BY <1>1, <1>2, QuietAfter, NextRequest DEF ChainInv
<1> QED
  BY <1>3 DEF ChainInv

\* What the invariant says of the request that is answered
LEMMA Answering ==
  ASSUME ChainInv, NEW call \in calls, call.op # "manager", ~world.overlap
  PROVE  Current(call, calls, dlg, world)
BY DEF ChainInv, OneRequest

LEMMA FinishInv ==
  ASSUME ChainInv, NEW call \in calls, call.op # "manager", Finish(call), SameWorld(world, world')
  PROVE  ChainInv'
<1>1. dlg' = FinishAction(dlg) /\ End(call)
  BY DEF Finish
<1>2. DOMAIN dlg' = DialogFields /\ dlg'.join_shown = dlg.join_shown
      /\ dlg'.selected_realm = dlg.selected_realm
  BY <1>1, ActionHelpers DEF ChainInv
<1>3. ~world.overlap => ~dlg.join_shown
  BY Answering DEF Current
<1> QED
  BY <1>1, <1>2, <1>3, RequestEnded DEF ChainInv

LEMMA AbortInv ==
  ASSUME ChainInv, NEW call \in calls, Abort(call) \/ Misuse(call)
  PROVE  ChainInv'
<1>1. /\ world' = world /\ calls' \subseteq calls
      /\ dlg' = [dlg EXCEPT !.life = "misused"] \/ dlg' = [dlg EXCEPT !.life = "aborted"]
  BY DEF Abort, Misuse, End
<1>2. SameRequest(dlg, dlg')
  BY <1>1 DEF SameRequest, ChainInv, DialogFields
<1> QED
  BY <1>1, <1>2, RequestKept DEF SameWorld

LEMMA JoinShowPromptInv ==
  ASSUME ChainInv, NEW call \in calls, call.op \in Chain, JoinShowPrompt(call),
         SameWorld(world, world'),
         ~world.overlap => dlg.selected_realm \notin world.configured
  PROVE  ChainInv'
<1>1. /\ dlg' = [dlg EXCEPT !.join_shown = TRUE, !.join_prompted = TRUE]
      /\ calls' = calls \ {call}
  BY DEF JoinShowPrompt, End
<1>2. /\ DOMAIN dlg' = DialogFields /\ dlg'.selected_realm = dlg.selected_realm
      /\ dlg'.controls = dlg.controls
  BY <1>1 DEF ChainInv, DialogFields
<1>3. call.op # "manager"
  BY DEF Chain
<1>4. ~world.overlap => OneRequest(calls', dlg', world')
  BY <1>1, <1>2, <1>3, QuietAfter, Answering DEF ChainInv, OneRequest, Quiet, Current, SameWorld
<1> QED
  BY <1>2, <1>4 DEF ChainInv, SameWorld

\* A request of the chain that goes on to the next step on the same realm.
LEMMA AskInv ==
  ASSUME ChainInv, NEW call \in calls, call.op # "manager", NEW op \in Chain,
         Ask(call, dlg, op),
         DOMAIN world' = WorldFields, world'.overlap = world.overlap,
         ~world.overlap =>
           /\ op \in Joining => dlg.selected_realm \in Realms \ world'.configured
           /\ op \in {"permit", "cache"} => dlg.selected_realm \in world'.configured
           /\ op # "cache"
  PROVE  ChainInv'
<1> DEFINE next == [op |-> op, on |-> dlg.selected_realm, login |-> dlg.login, n |-> call.n]
<1>1. dlg' = dlg /\ Continue(call, op, dlg.selected_realm, dlg.login)
  BY DEF Ask
<1>2. ~world.overlap => Current(next, {next}, dlg', world')
  BY <1>1, Answering DEF Current
<1> QED
  BY <1>1, <1>2, RequestContinued DEF ChainInv

\* The press of Add, now or when the permission comes: nothing else goes on.
LEMMA ResponseInv ==
  ASSUME ChainInv, NEW d, DOMAIN d = DialogFields,
         d.selected_realm \in Realms \cup {NoRealm},
         NEW n, NEW others, ResponseOK(d, n, others),
         DOMAIN world' = WorldFields, world'.overlap \in BOOLEAN,
         ~world'.overlap => Quiet(others) /\ ~d.join_shown
  PROVE  ChainInv'
<1> DEFINE b == BeginAction(d)
<1>1. /\ DOMAIN b = DialogFields /\ ~b.controls /\ b.join_shown = d.join_shown
      /\ b.login = d.login /\ b.selected_realm = d.selected_realm
  BY ActionHelpers
<1>2. CASE LocalCreateUser(d, n, others)
  <2> DEFINE create == [op |-> "create", on |-> NoRealm, login |-> NoLogin, n |-> n]
  <2>1. dlg' = b /\ calls' = others \cup {create}
    BY <1>2 DEF LocalCreateUser
  <2>2. ~world'.overlap => Current(create, {create}, dlg', world')
    BY <2>1, <1>1 DEF Current, Chain, Joining
  <2> HIDE DEF b, create
  <2>3. ~world'.overlap => OneRequest(calls', dlg', world')
    BY <2>1, <2>2, NextRequest
  <2> QED
    BY <2>1, <2>3, <1>1 DEF ChainInv
<1>3. CASE EnterpriseAddUser(d, n, others)
  <2> DEFINE known == d.domain \in Realms
             login == [op |-> "login", on |-> d.domain, login |-> d.login, n |-> n]
             discover == [op |-> "discover", on |-> d.manager, login |-> d.login, n |-> n]
  <2>1. /\ dlg' = [b EXCEPT !.selected_realm = IF known THEN d.domain ELSE NoRealm,
                            !.join_prompted = FALSE]
        /\ calls' = others \cup IF known THEN {login} ELSE IF d.manager # 0 THEN {discover} ELSE {}
    BY <1>3 DEF EnterpriseAddUser
  <2> HIDE DEF b
  <2>2. /\ DOMAIN dlg' = DialogFields /\ ~dlg'.controls /\ dlg'.join_shown = d.join_shown
        /\ dlg'.login = d.login /\ dlg'.selected_realm = IF known THEN d.domain ELSE NoRealm
    BY <2>1, <1>1 DEF DialogFields
  <2>3. ~world'.overlap /\ known => Current(login, {login}, dlg', world')
    BY <2>2 DEF Current, Chain, Joining
  <2>4. ~world'.overlap => Current(discover, {discover}, dlg', world')
    BY <2>2 DEF Current, Chain, Joining
  <2>5. ~world'.overlap => ~dlg'.join_shown
    BY <2>2
  <2> HIDE DEF login, discover
  <2>6. ~world'.overlap => OneRequest(calls', dlg', world')
    <3>1. CASE known
      BY <2>1, <2>3, <3>1, NextRequest
    <3>2. CASE ~known /\ d.manager # 0
      BY <2>1, <2>4, <3>2, NextRequest
    <3>3. CASE ~known /\ ~(d.manager # 0)
      BY <2>1, <2>5, <3>3, QuietIsOneRequest
    <3> QED
      BY <3>1, <3>2, <3>3
  <2> QED
    BY <2>2, <2>6 DEF ChainInv
<1> QED
  BY <1>2, <1>3 DEF ResponseOK

LEMMA PressAddInv ==
  ASSUME ChainInv, PressAdd
  PROVE  ChainInv'
<1>1. /\ ~dlg.join_shown
      /\ world' = [world EXCEPT !.requests = @ + 1,
                                !.overlap = @ \/ \E c \in calls : c.op # "manager"]
  BY DEF PressAdd, AtDialog
<1>2. /\ DOMAIN world' = WorldFields /\ world'.configured = world.configured
      /\ world'.permitted = world.permitted
      /\ world'.overlap = (world.overlap \/ \E c \in calls : c.op # "manager")
  BY <1>1 DEF ChainInv, WorldFields
<1>3. world'.overlap \in BOOLEAN /\ (~world'.overlap => ~world.overlap /\ Quiet(calls))
  BY <1>2 DEF Quiet
<1>4. CASE ResponseOK(dlg, world'.requests, calls)
  BY <1>1, <1>2, <1>3, <1>4, ResponseInv DEF ChainInv
<1>5. CASE dlg' = BeginAction(dlg) /\ Begin(world'.requests, "permission", NoRealm, NoLogin)
  <2> DEFINE next == [op |-> "permission", on |-> NoRealm, login |-> NoLogin, n |-> world'.requests]
  <2>1. calls' = calls \cup {next}
    BY <1>5 DEF Begin
  <2>2. DOMAIN dlg' = DialogFields /\ ~dlg'.controls /\ ~dlg'.join_shown
        /\ dlg'.selected_realm = dlg.selected_realm
    BY <1>1, <1>5, ActionHelpers DEF ChainInv
  <2>3. Current(next, {next}, dlg', world')
    BY <2>2 DEF Current, Chain, Joining
  <2> HIDE DEF next
  <2>4. ~world'.overlap => OneRequest(calls', dlg', world')
    BY <1>3, <2>1, <2>3, NextRequest
  <2> QED
    BY <1>2, <1>3, <2>2, <2>4 DEF ChainInv
<1> QED
  BY <1>4, <1>5 DEF PressAdd

LEMMA PermissionInv ==
  ASSUME ChainInv, NEW call \in calls, NEW ok \in BOOLEAN, OnPermissionAcquired(call, ok)
  PROVE  ChainInv'
<1>1. call.op = "permission" /\ world' = [world EXCEPT !.allowed = @ \/ ok]
  BY DEF OnPermissionAcquired
<1>2. /\ DOMAIN world' = WorldFields /\ world'.configured = world.configured
      /\ world'.permitted = world.permitted /\ world'.overlap = world.overlap
  BY <1>1 DEF ChainInv, WorldFields
<1>3. DOMAIN FinishAction(dlg) = DialogFields
      /\ FinishAction(dlg).selected_realm = dlg.selected_realm
      /\ FinishAction(dlg).join_shown = dlg.join_shown
  BY ActionHelpers DEF ChainInv
<1>4. ~world.overlap => ~dlg.join_shown /\ Quiet(calls \ {call})
  BY <1>1, Answering, QuietAfter DEF Current, ChainInv
<1>5. CASE Finish(call)
  <2>1. dlg' = FinishAction(dlg) /\ calls' = calls \ {call}
    BY <1>5 DEF Finish, End
  <2>2. ~world.overlap => OneRequest(calls', dlg', world')
    BY <2>1, <1>3, <1>4, QuietIsOneRequest
  <2> QED
    BY <2>1, <2>2, <1>2, <1>3 DEF ChainInv
<1>6. CASE ResponseOK(FinishAction(dlg), call.n, calls \ {call})
  BY <1>2, <1>3, <1>4, <1>6, ResponseInv DEF ChainInv
<1> QED
  BY <1>5, <1>6 DEF OnPermissionAcquired

LEMMA UserLoadedInv ==
  ASSUME ChainInv, NEW call \in calls, call.op # "manager", UserLoaded(call),
         world' = world \/ (DOMAIN world' = WorldFields /\ world'.overlap = world.overlap)
  PROVE  ChainInv'
<1> DEFINE f == FinishAction(dlg)
<1>1. dlg' = CompleteDialog(f, TRUE) /\ calls' = calls \ {call}
  BY DEF UserLoaded, End
<1>2. DOMAIN f = DialogFields /\ f.join_shown = dlg.join_shown
      /\ f.selected_realm = dlg.selected_realm
  BY ActionHelpers DEF ChainInv
<1> HIDE DEF f
<1>3. SameRequest(f, dlg')
  BY <1>1, <1>2, DialogHelpers
<1>4. ~world.overlap => OneRequest(calls', dlg', world')
  <2>1. ~world.overlap => ~dlg'.join_shown /\ Quiet(calls \ {call})
    BY <1>2, <1>3, Answering, QuietAfter DEF Current, ChainInv, SameRequest
  <2> QED
    BY <1>1, <2>1, QuietIsOneRequest
<1> QED
  BY <1>2, <1>3, <1>4 DEF ChainInv, SameRequest

LEMMA CreateUserDoneInv ==
  ASSUME ChainInv, NEW call \in calls, NEW ok \in BOOLEAN, NEW loaded \in BOOLEAN,
         CreateUserDone(call, ok, loaded)
  PROVE  ChainInv'
<1>1. call.op = "create" /\ world' = [world EXCEPT !.created = @ \/ ok]
  BY DEF CreateUserDone
<1>2. /\ DOMAIN world' = WorldFields /\ world'.configured = world.configured
      /\ world'.permitted = world.permitted /\ world'.overlap = world.overlap
  BY <1>1 DEF ChainInv, WorldFields
<1>3. CASE Finish(call)
  <2>1. dlg' = FinishAction(dlg) /\ calls' = calls \ {call}
    BY <1>3 DEF Finish, End
  <2>2. DOMAIN dlg' = DialogFields /\ dlg'.join_shown = dlg.join_shown
        /\ dlg'.selected_realm = dlg.selected_realm
    BY <2>1, ActionHelpers DEF ChainInv
  <2>3. ~world.overlap => ~dlg.join_shown /\ Quiet(calls \ {call})
    BY <1>1, Answering, QuietAfter DEF Current, ChainInv
  <2>4. ~world.overlap => OneRequest(calls', dlg', world')
    BY <2>1, <2>2, <2>3, QuietIsOneRequest
  <2> QED
    BY <2>2, <2>4, <1>2 DEF ChainInv
<1>4. CASE UserLoaded(call)
  BY <1>1, <1>2, <1>4, UserLoadedInv
<1>5. CASE dlg' = dlg /\ Continue(call, "loading", NoRealm, NoLogin)
  <2> DEFINE next == [op |-> "loading", on |-> NoRealm, login |-> NoLogin, n |-> call.n]
  <2>1. ~world.overlap => Current(next, {next}, dlg', world')
    BY <1>1, <1>5, Answering DEF Current, Chain, Joining
  <2> QED
    BY <1>1, <1>2, <1>5, <2>1, RequestContinued DEF ChainInv
<1> QED
  BY <1>3, <1>4, <1>5 DEF CreateUserDone

LEMMA DiscoverInv ==
  ASSUME ChainInv, NEW call \in calls, NEW ok \in BOOLEAN, NEW r \in Realms,
         OnRealmDiscoverInput(call, ok, r)
  PROVE  ChainInv'
<1>1. call.op = "discover"
  BY DEF OnRealmDiscoverInput
<1>2. CASE Abort(call)
  BY <1>2, AbortInv
<1>3. CASE Finish(call) /\ world' = world
  BY <1>1, <1>3, FinishInv DEF SameWorld
<1>4. CASE Ask(call, [dlg EXCEPT !.selected_realm = r], "login") /\ world' = world
  <2>1. dlg' = [dlg EXCEPT !.selected_realm = r] /\ Continue(call, "login", dlg'.selected_realm, dlg'.login)
    BY <1>4 DEF Ask
  <2>2. DOMAIN dlg' = DialogFields /\ dlg'.selected_realm = r /\ dlg'.controls = dlg.controls
        /\ dlg'.join_shown = dlg.join_shown
    BY <2>1 DEF ChainInv, DialogFields
  <2> DEFINE next == [op |-> "login", on |-> dlg'.selected_realm, login |-> dlg'.login, n |-> call.n]
  <2>3. ~world.overlap => Current(next, {next}, dlg', world')
    BY <1>1, <2>2, Answering DEF Current, Joining
  <2> QED
    BY <1>1, <1>4, <2>1, <2>2, <2>3, RequestContinued DEF ChainInv
<1> QED
  BY <1>2, <1>3, <1>4 DEF OnRealmDiscoverInput

LEMMA LoginInv ==
  ASSUME ChainInv, NEW call \in calls, NEW outcome, OnRealmLogin(call, outcome)
  PROVE  ChainInv'
<1>1. call.op = "login" /\ call.op \in Chain
  BY DEF OnRealmLogin, Chain
<1>2. CASE Finish(call) /\ world' = world
  BY <1>1, <1>2, FinishInv DEF SameWorld
<1>3. CASE Abort(call)
  BY <1>3, AbortInv
<1>4. CASE dlg.selected_realm \in world.configured /\ EnterprisePermitUserLogin(call) /\ world' = world
  BY <1>1, <1>4, AskInv DEF EnterprisePermitUserLogin, ChainInv, Chain, Joining
<1>5. CASE /\ dlg.selected_realm \notin world.configured /\ dlg.selected_realm # NoRealm
           /\ Ask(call, dlg, "join") /\ world' = world
  BY <1>1, <1>5, AskInv DEF ChainInv, Chain, Joining
<1>6. CASE dlg.selected_realm \notin world.configured /\ JoinShowPrompt(call) /\ world' = world
  BY <1>1, <1>6, JoinShowPromptInv DEF SameWorld
<1> QED
  BY <1>2, <1>3, <1>4, <1>5, <1>6 DEF OnRealmLogin

LEMMA JoinResponseInv ==
  ASSUME ChainInv, NEW ok \in BOOLEAN, OnJoinResponse(ok)
  PROVE  ChainInv'
<1> DEFINE d == [dlg EXCEPT !.join_shown = FALSE]
           next == [op |-> "join_login", on |-> d.selected_realm, login |-> d.login,
                    n |-> world.requests]
<1>1. dlg.join_shown /\ world' = world
  BY DEF OnJoinResponse
<1>2. DOMAIN d = DialogFields /\ ~d.join_shown /\ d.controls = dlg.controls
      /\ d.selected_realm = dlg.selected_realm
  BY DEF ChainInv, DialogFields
<1>3. ~world.overlap => Quiet(calls) /\ ~d.controls /\ d.selected_realm \notin world.configured
  BY <1>1, <1>2 DEF ChainInv, OneRequest, Quiet
<1>4. \/ dlg' = FinishAction(d) /\ calls' = calls
      \/ dlg' = d /\ calls' = calls
      \/ dlg' = d /\ d.selected_realm # NoRealm /\ calls' = calls \cup {next}
  BY DEF OnJoinResponse, Begin
<1>5. CASE dlg' = d /\ d.selected_realm # NoRealm /\ calls' = calls \cup {next}
  <2>1. ~world.overlap => Current(next, {next}, d, world)
    BY <1>2, <1>3, <1>5 DEF Current, Chain, Joining, ChainInv
  <2> HIDE DEF next, d
  <2>2. ~world.overlap => OneRequest(calls', dlg', world')
    BY <1>1, <1>3, <1>5, <2>1, NextRequest
  <2> QED
    BY <1>1, <1>2, <1>5, <2>2 DEF ChainInv
<1>6. CASE dlg' \in {d, FinishAction(d)} /\ calls' = calls
  <2> HIDE DEF d
  <2>1. DOMAIN dlg' = DialogFields /\ ~dlg'.join_shown /\ dlg'.selected_realm = d.selected_realm
    BY <1>2, <1>6, ActionHelpers
  <2>2. ~world.overlap => OneRequest(calls', dlg', world')
    BY <1>3, <1>6, <2>1, QuietIsOneRequest
  <2> QED
    BY <1>1, <1>2, <2>1, <2>2 DEF ChainInv
<1> QED
  BY <1>4, <1>5, <1>6

LEMMA JoinLoginInv ==
  ASSUME ChainInv, NEW call \in calls, NEW outcome, OnJoinLogin(call, outcome)
  PROVE  ChainInv'
<1>1. call.op = "join_login" /\ call.op \in Chain
  BY DEF OnJoinLogin, Chain
<1>2. ~world.overlap => dlg.selected_realm \in Realms \ world.configured
  BY <1>1, Answering DEF Current, Joining, Chain
<1>3. CASE Finish(call) /\ world' = world
  BY <1>1, <1>3, FinishInv DEF SameWorld
<1>4. CASE Abort(call)
  BY <1>4, AbortInv
<1>5. CASE JoinShowPrompt(call) /\ world' = world
  BY <1>1, <1>2, <1>5, JoinShowPromptInv DEF SameWorld
<1>6. CASE Ask(call, dlg, "join") /\ world' = world
  BY <1>1, <1>2, <1>6, AskInv DEF ChainInv, Chain, Joining
<1> QED
  BY <1>3, <1>4, <1>5, <1>6 DEF OnJoinLogin

\* The machine belongs to the realm when the join is answered, and only one call was about it.
LEMMA JoinedInv ==
  ASSUME ChainInv, NEW call \in calls, NEW outcome \in {"joined", "credentials", "failed"},
         OnRealmJoined(call, outcome)
  PROVE  ChainInv'
<1> DEFINE joined == [world EXCEPT !.configured = @ \cup (IF outcome = "joined" THEN {call.on} ELSE {})]
<1>1. call.op = "join" /\ call.op \in Chain
  BY DEF OnRealmJoined, Chain
<1>2. ~world.overlap => /\ call.on = dlg.selected_realm
                        /\ dlg.selected_realm \in Realms \ world.configured
  BY <1>1, Answering DEF Current, Joining, Chain
<1>3. /\ DOMAIN joined = WorldFields /\ joined.overlap = world.overlap
      /\ outcome = "joined" => joined.configured = world.configured \cup {call.on}
  BY DEF ChainInv, WorldFields
<1>4. outcome # "joined" => SameWorld(world, joined)
  BY DEF ChainInv, WorldFields, SameWorld
<1>5. CASE Abort(call)
  BY <1>5, AbortInv
<1>6. CASE ~Abort(call)
  <2> DEFINE answer == CASE outcome = "joined" -> EnterprisePermitUserLogin(call)
                         [] outcome = "credentials" -> JoinShowPrompt(call)
                         [] OTHER -> Finish(call)
  <2>1. world' = joined /\ answer
    BY <1>6, Zenon DEF OnRealmJoined
  <2>2. CASE outcome = "joined"
    <3>1. EnterprisePermitUserLogin(call)
      BY <2>1, <2>2, Zenon
    <3> HIDE DEF joined, answer
    <3> QED
      BY <1>1, <1>2, <1>3, <2>1, <2>2, <3>1, AskInv DEF EnterprisePermitUserLogin, Chain, Joining
  <2>3. CASE outcome = "credentials"
    <3>1. JoinShowPrompt(call)
      BY <2>1, <2>3, Zenon
    <3> HIDE DEF joined, answer
    <3> QED
      BY <1>1, <1>2, <1>4, <2>1, <2>3, <3>1, JoinShowPromptInv DEF SameWorld
  <2>4. CASE outcome = "failed"
    <3>1. Finish(call)
      BY <2>1, <2>4, Zenon
    <3> HIDE DEF joined, answer
    <3> QED
      BY <1>1, <1>4, <2>1, <2>4, <3>1, FinishInv DEF SameWorld
  <2> QED
    BY <2>2, <2>3, <2>4
<1> QED
  BY <1>5, <1>6

LEMMA PermitInv ==
  ASSUME ChainInv, NEW call \in calls, NEW ok \in BOOLEAN, OnPermitUserLogin(call, ok)
  PROVE  ChainInv'
<1>1. call.op = "permit"
  BY DEF OnPermitUserLogin
<1>2. CASE ~ok
  BY <1>1, <1>2, FinishInv DEF OnPermitUserLogin, SameWorld
<1>3. CASE ok
  <2>1. /\ world' = [world EXCEPT !.permitted = @ \cup {<<call.on, call.login>>}]
        /\ dlg' = dlg /\ Continue(call, "cache", call.on, dlg.login)
    BY <1>3 DEF OnPermitUserLogin
  <2>2. /\ DOMAIN world' = WorldFields /\ world'.configured = world.configured
        /\ world'.permitted = world.permitted \cup {<<call.on, call.login>>}
        /\ world'.overlap = world.overlap
    BY <2>1 DEF ChainInv, WorldFields
  <2> DEFINE next == [op |-> "cache", on |-> call.on, login |-> dlg.login, n |-> call.n]
  <2>3. ~world.overlap => Current(next, {next}, dlg', world')
    BY <1>1, <2>1, <2>2, Answering DEF Current, Chain, Joining
  <2> QED
    BY <1>1, <2>1, <2>2, <2>3, RequestContinued DEF ChainInv
<1> QED
  BY <1>2, <1>3

LEMMA RegisterInv ==
  ASSUME ChainInv, NEW call \in calls, NEW ok \in BOOLEAN, OnRegisterUser(call, ok)
  PROVE  ChainInv'
BY FinishInv, UserLoadedInv DEF OnRegisterUser, SameWorld

\* realmd and its realms do not touch a request.
LEMMA ManagerInv ==
  ASSUME ChainInv, NEW call \in calls, NEW ok \in BOOLEAN, NEW realms \in SUBSET Realms,
         OnRealmManagerCreated(call, ok, realms)
  PROVE  ChainInv'
<1>1. calls' \subseteq calls /\ world' = world
  BY DEF OnRealmManagerCreated, End
<1>2. CASE dlg' = [dlg EXCEPT !.manager = 0]
  <2>1. SameRequest(dlg, dlg')
    BY <1>2 DEF SameRequest, ChainInv, DialogFields
  <2> QED
    BY <1>1, <2>1, RequestKept DEF SameWorld
<1>3. CASE dlg' # [dlg EXCEPT !.manager = 0]
  <2>1. PICK order :
          LET added == AllRealmsAdded(dlg, order)
              d == [dlg EXCEPT !.manager = world.realmd_changes, !.button = TRUE,
                               !.realms = added.realms, !.domain = added.domain,
                               !.chosen = added.chosen]
          IN dlg' = ModeChange(d, d.mode)
    BY <1>3 DEF OnRealmManagerCreated
  <2> DEFINE added == AllRealmsAdded(dlg, order)
             d == [dlg EXCEPT !.manager = world.realmd_changes, !.button = TRUE,
                              !.realms = added.realms, !.domain = added.domain,
                              !.chosen = added.chosen]
  <2>2. dlg' = ModeChange(d, d.mode)
    BY <2>1
  <2> HIDE DEF added
  <2>3. SameRequest(dlg, d) /\ DOMAIN d = DialogFields
    BY DEF SameRequest, ChainInv, DialogFields
  <2> HIDE DEF d
  <2>4. SameRequest(d, dlg')
    BY <2>2, <2>3, DialogHelpers
  <2> QED
    BY <1>1, <2>3, <2>4, RequestKept DEF SameRequest, SameWorld
<1> QED
  BY <1>2, <1>3

LEMMA RealmdInv ==
  ASSUME ChainInv, OnRealmdAppeared \/ OnRealmdDisappeared \/ \E r \in Realms : OnManagerRealmAdded(r)
  PROVE  ChainInv'
<1>1. CASE OnRealmdAppeared
  <2>1. /\ world' = [world EXCEPT !.realmd = TRUE, !.realmd_changes = @ + 1] /\ dlg' = dlg
        /\ calls' = calls \cup {[op |-> "manager", on |-> NoRealm, login |-> NoLogin,
                                 n |-> world'.realmd_changes]}
    BY <1>1 DEF OnRealmdAppeared, Begin
  <2>2. /\ DOMAIN world' = WorldFields /\ world'.configured = world.configured
        /\ world'.permitted = world.permitted /\ world'.overlap = world.overlap
    BY <2>1 DEF ChainInv, WorldFields
  <2>3. SameRequest(dlg, dlg') /\ \A c \in calls' : c \in calls \/ c.op = "manager"
    BY <2>1 DEF SameRequest
  <2> QED
    BY <2>2, <2>3, RequestKept DEF SameWorld, ChainInv
<1>2. CASE OnRealmdDisappeared
  <2> DEFINE cleared == [dlg EXCEPT !.manager = 0, !.realms = {}, !.button = FALSE]
             typed == [cleared EXCEPT !.domain = Typed]
             d == IF dlg.domain \in Realms THEN OnDomainChanged(typed) ELSE cleared
  <2>1. /\ dlg' = ModeChange(d, "local") /\ calls' = calls
        /\ world' = [world EXCEPT !.realmd = FALSE, !.realmd_changes = @ + 1]
    BY <1>2 DEF OnRealmdDisappeared
  <2>2. /\ DOMAIN world' = WorldFields /\ world'.configured = world.configured
        /\ world'.permitted = world.permitted /\ world'.overlap = world.overlap
    BY <2>1 DEF ChainInv, WorldFields
  <2>3. /\ SameRequest(dlg, cleared) /\ SameRequest(dlg, typed)
        /\ DOMAIN dlg = DialogFields /\ DOMAIN typed = DialogFields
    BY DEF SameRequest, ChainInv, DialogFields
  <2> HIDE DEF cleared, typed
  <2>4. SameRequest(dlg, d)
    BY <2>3, DialogHelpers DEF SameRequest
  <2>5. SameRequest(d, dlg')
    BY <2>1, <2>3, <2>4, DialogHelpers DEF SameRequest
  <2> QED
    BY <2>1, <2>2, <2>4, <2>5, RequestKept DEF SameRequest, SameWorld, ChainInv
<1>3. CASE \E r \in Realms : OnManagerRealmAdded(r)
  <2>1. PICK r \in Realms : dlg' = EnterpriseAddRealm(dlg, r) /\ UNCHANGED <<calls, world>>
    BY <1>3 DEF OnManagerRealmAdded
  <2>2. SameRequest(dlg, dlg')
    BY <2>1, DialogHelpers DEF ChainInv
  <2> QED
    BY <2>1, <2>2, RequestKept DEF SameWorld
<1> QED
  BY <1>1, <1>2, <1>3

\* The user edits while the controls are on: there is no request then whose login or realm
\* could become another one.
LEMMA EditInv ==
  ASSUME ChainInv,
         \/ \E valid \in BOOLEAN : EditName(valid)
         \/ \E mode \in {"local", "enterprise"} : ModeToggled(mode)
         \/ \E login \in Logins : EditLogin(login)
         \/ \E r \in Realms \cup {Typed} : ChooseDomain(r)
         \/ PressCancel \/ Answered
  PROVE  ChainInv'
<1> USE DEF ChainInv
<1>1. CASE \E valid \in BOOLEAN : EditName(valid)
  <2>1. PICK valid : dlg' = DialogValidate([dlg EXCEPT !.name_valid = valid])
                     /\ UNCHANGED <<calls, world>>
    BY <1>1 DEF EditName
  <2> DEFINE d == [dlg EXCEPT !.name_valid = valid]
  <2>2. SameRequest(dlg, d) /\ DOMAIN d = DialogFields
    BY DEF SameRequest, DialogFields
  <2> HIDE DEF d
  <2>3. SameRequest(d, dlg')
    BY <2>1, <2>2, DialogHelpers DEF d
  <2> QED
    BY <2>1, <2>2, <2>3, RequestKept DEF SameRequest, SameWorld
<1>2. CASE \E mode \in {"local", "enterprise"} : ModeToggled(mode)
  BY <1>2, DialogHelpers, RequestKept DEF ModeToggled, SameWorld
<1>3. CASE \E login \in Logins : EditLogin(login)
  <2>1. PICK login : /\ dlg' = DialogValidate([dlg EXCEPT !.login = login])
                     /\ dlg.controls /\ ~dlg.join_shown /\ UNCHANGED <<calls, world>>
    BY <1>3 DEF EditLogin, AtDialog
  <2> DEFINE d == [dlg EXCEPT !.login = login]
  <2>2. DOMAIN d = DialogFields /\ ~d.join_shown /\ d.selected_realm = dlg.selected_realm
    BY <2>1 DEF DialogFields
  <2> HIDE DEF d
  <2>3. SameRequest(d, dlg')
    BY <2>1, <2>2, DialogHelpers DEF d
  <2>4. ~world.overlap => Quiet(calls)
    BY <2>1 DEF OneRequest, Current, Quiet
  <2>5. ~world.overlap => OneRequest(calls', dlg', world')
    BY <2>1, <2>2, <2>3, <2>4, QuietIsOneRequest DEF SameRequest
  <2> QED
    BY <2>1, <2>2, <2>3, <2>5 DEF SameRequest
<1>4. CASE \E r \in Realms \cup {Typed} : ChooseDomain(r)
  <2>1. PICK r : dlg' = OnDomainChanged([dlg EXCEPT !.domain = r]) /\ UNCHANGED <<calls, world>>
    BY <1>4 DEF ChooseDomain
  <2> DEFINE d == [dlg EXCEPT !.domain = r]
  <2>2. SameRequest(dlg, d) /\ DOMAIN d = DialogFields
    BY DEF SameRequest, DialogFields
  <2> HIDE DEF d
  <2>3. SameRequest(d, dlg')
    BY <2>1, <2>2, DialogHelpers DEF d
  <2> QED
    BY <2>1, <2>2, <2>3, RequestKept DEF SameRequest, SameWorld
<1>5. CASE PressCancel
  <2> DEFINE d == [dlg EXCEPT !.cancelled = TRUE]
  <2>1. dlg' = CompleteDialog(d, FALSE) /\ UNCHANGED <<calls, world>>
    BY <1>5 DEF PressCancel
  <2>2. SameRequest(dlg, d) /\ DOMAIN d = DialogFields
    BY DEF SameRequest, DialogFields
  <2> HIDE DEF d
  <2>3. SameRequest(d, dlg')
    BY <2>1, <2>2, DialogHelpers
  <2> QED
    BY <2>1, <2>2, <2>3, RequestKept DEF SameRequest, SameWorld
<1>6. CASE Answered
  <2>1. /\ dlg' = [dlg EXCEPT !.life = "destroyed", !.cancelled = TRUE, !.join_shown = FALSE,
                              !.manager = 0]
        /\ UNCHANGED <<calls, world>>
    BY <1>6 DEF Answered
  <2>2. /\ DOMAIN dlg' = DialogFields /\ dlg'.selected_realm = dlg.selected_realm
        /\ dlg'.login = dlg.login /\ dlg'.controls = dlg.controls /\ ~dlg'.join_shown
    BY <2>1 DEF DialogFields
  <2>3. ~world.overlap => OneRequest(calls', dlg', world')
    BY <2>1, <2>2 DEF OneRequest, Current
  <2> QED
    BY <2>1, <2>2, <2>3
<1> QED
  BY <1>1, <1>2, <1>3, <1>4, <1>5, <1>6

LEMMA ChainStep ==
  ASSUME ChainInv, AccountDialogNext
  PROVE  ChainInv'
<1>1. CASE DialogAnswers
  <2>1. CASE Answered
    BY <2>1, EditInv
  <2>2. CASE \E call \in calls : LateAnswer(call)
    BY <2>2, AbortInv DEF LateAnswer
  <2>3. CASE \E call \in calls : UserLoadedCb(call)
    BY <2>3, UserLoadedInv DEF UserLoadedCb
  <2> QED
    BY <1>1, <2>1, <2>2, <2>3, PermissionInv, CreateUserDoneInv, DiscoverInv, PermitInv,
       RegisterInv, ManagerInv, LoginInv, JoinLoginInv, JoinedInv DEF DialogAnswers
<1> QED
  BY <1>1, EditInv, PressAddInv, JoinResponseInv, RealmdInv DEF AccountDialogNext

-----------------------------------------------------------------------------
(***************************************************************************)
(* The domain that is chosen in the dialog is one of those that it may     *)
(* list, and every call is a step of a request.                            *)
(***************************************************************************)

Calls == {"manager", "permission", "create", "loading", "discover",
          "login", "join_login", "join", "permit", "cache"}
Fits(d) ==
  /\ DOMAIN d = DialogFields
  /\ d.life \in {"shown", "completing", "destroyed", "misused", "aborted"}
  /\ d.domain \in Realms \cup {NoRealm, Typed} /\ d.realms \subseteq Realms
CallsFit(cs) == \A c \in cs : c.op \in Calls
DialogInv == Fits(dlg) /\ CallsFit(calls)

\* The helpers of the dialog keep what its fields may be.
LEMMA HelpersFit ==
  ASSUME NEW d, Fits(d)
  PROVE  /\ Fits(DialogValidate(d)) /\ \A mode : Fits(ModeChange(d, mode))
         /\ Fits(OnDomainChanged(d)) /\ Fits(BeginAction(d)) /\ Fits(FinishAction(d))
         /\ \A user : Fits(CompleteDialog(d, user))
<1>1. ASSUME NEW e, Fits(e) PROVE Fits(DialogValidate(e))
  BY <1>1 DEF DialogValidate, Fits, DialogFields
<1>2. ASSUME NEW mode PROVE Fits(ModeChange(d, mode))
  <2> DEFINE e == [d EXCEPT !.mode = mode]
  <2>1. Fits(e)
    BY DEF Fits, DialogFields
  <2> HIDE DEF e
  <2>2. Fits(DialogValidate(e))
    BY <1>1, <2>1
  <2> QED
    BY <2>2 DEF ModeChange, e
<1>3. Fits(OnDomainChanged(d))
  <2> DEFINE e == DialogValidate(d)
  <2>1. Fits(e)
    BY <1>1
  <2> HIDE DEF e
  <2>2. Fits([e EXCEPT !.chosen = TRUE])
    BY <2>1 DEF Fits, DialogFields
  <2> QED
    BY <2>2 DEF OnDomainChanged, e
<1>4. Fits(BeginAction(d))
  BY DEF BeginAction, Fits, DialogFields
<1>5. Fits(FinishAction(d))
  BY DEF FinishAction, Fits, DialogFields
<1>6. ASSUME NEW user PROVE Fits(CompleteDialog(d, user))
  BY DEF CompleteDialog, Fits, DialogFields
<1> QED
  BY <1>1, <1>2, <1>3, <1>4, <1>5, <1>6

\* A realm that is listed may be chosen.
LEMMA RealmFits ==
  ASSUME NEW d, Fits(d), NEW r \in Realms
  PROVE  Fits(EnterpriseAddRealm(d, r))
<1> DEFINE added == [d EXCEPT !.realms = @ \cup {r}]
           chosen == [added EXCEPT !.domain = r]
<1>1. Fits(added)
  BY DEF Fits, DialogFields
<1> HIDE DEF added
<1>2. Fits(chosen)
  BY <1>1 DEF Fits, DialogFields
<1> HIDE DEF chosen
<1>3. Fits(OnDomainChanged(chosen))
  BY <1>2, HelpersFit
<1>4. EnterpriseAddRealm(d, r) \in {d, OnDomainChanged(chosen), added}
  BY DEF EnterpriseAddRealm, added, chosen
<1> QED
  BY <1>1, <1>3, <1>4

\* g tells what the dialog is with the first realms of an order.
AddsRealms(d, order, m, g) ==
  g = [n \in 0..m |-> IF n = 0 THEN d ELSE EnterpriseAddRealm(g[n - 1], order[n])]

\* One realm more.
LEMMA AddsRealmsNext ==
  ASSUME NEW d, NEW order, NEW m \in Nat, NEW g, AddsRealms(d, order, m, g)
  PROVE  \E z : AddsRealms(d, order, m + 1, z)
<1> DEFINE z == [n \in 0..m+1 |-> IF n = m + 1 THEN EnterpriseAddRealm(g[m], order[n]) ELSE g[n]]
<1>1. \A n \in 0..m : z[n] = g[n]
  OBVIOUS
<1>2. \A n \in 0..m : g[n] = IF n = 0 THEN d ELSE EnterpriseAddRealm(g[n - 1], order[n])
  BY DEF AddsRealms
<1>3. z[m+1] = EnterpriseAddRealm(z[m], order[m+1])
  BY <1>1
<1>4. DOMAIN z = 0..m+1 /\ z = [n \in 0..m+1 |-> z[n]]
  OBVIOUS
<1> HIDE DEF z
<1>5. ASSUME NEW n \in 0..m, n # 0
      PROVE  z[n] = EnterpriseAddRealm(z[n - 1], order[n])
  <2>1. n \in Int /\ n - 1 \in 0..m
    BY <1>5
  <2> QED
    BY <1>1, <1>2, <1>5, <2>1
<1>6. z[0] = d
  BY <1>1, <1>2
<1>7. \A n \in 0..m+1 : n = m + 1 \/ n \in 0..m
  OBVIOUS
<1>8. m + 1 # 0 /\ (m + 1) - 1 = m
  OBVIOUS
<1>9. \A n \in 0..m+1 : z[n] = IF n = 0 THEN d ELSE EnterpriseAddRealm(z[n - 1], order[n])
  BY <1>3, <1>5, <1>6, <1>7, <1>8
<1>10. AddsRealms(d, order, m + 1, z)
  BY <1>4, <1>9 DEF AddsRealms
<1> QED
  BY <1>10

\* Realms that are listed one after the other
LEMMA RealmsFit ==
  ASSUME NEW d, Fits(d), NEW realms \in SUBSET Realms, NEW order \in SetToSeqs(realms)
  PROVE  Fits(AllRealmsAdded(d, order))
<1> DEFINE len == Len(order)
           S == {m \in Nat : \E g : AddsRealms(d, order, m, g)}
           g == CHOOSE f : AddsRealms(d, order, len, f)
<1>1. len \in Nat /\ \A i \in 1..len : order[i] \in Realms
  <2>1. Cardinality(realms) \in Nat
    BY RealmsAssumption, FS_Subset, FS_CardinalityType
  <2>2. order \in [1..Cardinality(realms) -> realms]
    BY DEF SetToSeqs
  <2> QED
    BY <2>1, <2>2
<1> HIDE DEF len
<1>2. 0 \in S
  <2>1. AddsRealms(d, order, 0, [n \in 0..0 |-> d])
    BY DEF AddsRealms
  <2> QED
    BY <2>1
<1>3. \A m \in Nat : m \in S => m + 1 \in S
  BY AddsRealmsNext
<1>4. len \in S
  <2> HIDE DEF S
  <2> QED
    BY <1>1, <1>2, <1>3, Induction
<1>5. AddsRealms(d, order, len, g)
  BY <1>4
<1>6. AllRealmsAdded(d, order) = g[len]
  BY DEF AllRealmsAdded, AddsRealms, len
<1> HIDE DEF g, S
<1> DEFINE T == {n \in Nat : n <= len => Fits(g[n])}
<1>7. 0 \in T
  BY <1>1, <1>5 DEF AddsRealms
<1>8. ASSUME NEW n \in Nat, n \in T PROVE n + 1 \in T
  <2> SUFFICES ASSUME n + 1 <= len PROVE Fits(g[n + 1])
    OBVIOUS
  <2>1. n <= len /\ n + 1 \in 0..len /\ n + 1 \in 1..len /\ n + 1 # 0 /\ (n + 1) - 1 = n
    BY <1>1
  <2>2. g[n + 1] = EnterpriseAddRealm(g[n], order[n + 1])
    BY <1>5, <2>1 DEF AddsRealms
  <2>3. Fits(g[n]) /\ order[n + 1] \in Realms
    BY <1>1, <1>8, <2>1
  <2> QED
    BY <2>2, <2>3, RealmFits
<1>9. len \in T
  <2> HIDE DEF T
  <2> QED
    BY <1>1, <1>7, <1>8, Induction
<1> QED
  BY <1>1, <1>6, <1>9

\* How an answer ends or continues a request
LEMMA AnswersFit ==
  ASSUME DialogInv, NEW call \in calls
  PROVE  /\ Finish(call) => DialogInv'
         /\ Misuse(call) => DialogInv'
         /\ Abort(call) => DialogInv'
         /\ JoinShowPrompt(call) => DialogInv'
         /\ UserLoaded(call) => DialogInv'
         /\ \A d, op : Fits(d) /\ op \in Calls /\ Ask(call, d, op) => DialogInv'
         /\ EnterprisePermitUserLogin(call) => DialogInv'
         /\ \A on, login : \A op \in Calls : dlg' = dlg /\ Continue(call, op, on, login) => DialogInv'
<1>1. Fits(FinishAction(dlg))
  BY HelpersFit DEF DialogInv
<1>2. Finish(call) => DialogInv'
  BY <1>1 DEF Finish, End, DialogInv, CallsFit
<1>3. Misuse(call) => DialogInv'
  BY DEF Misuse, End, DialogInv, CallsFit, Fits, DialogFields
<1>4. Abort(call) => DialogInv'
  BY DEF Abort, End, DialogInv, CallsFit, Fits, DialogFields
<1>5. JoinShowPrompt(call) => DialogInv'
  BY DEF JoinShowPrompt, End, DialogInv, CallsFit, Fits, DialogFields
<1>6. UserLoaded(call) => DialogInv'
  BY <1>1, HelpersFit DEF UserLoaded, End, DialogInv, CallsFit
<1>7. ASSUME NEW op \in Calls, NEW on, NEW login, Continue(call, op, on, login) PROVE CallsFit(calls')
  <2> DEFINE new == [op |-> op, on |-> on, login |-> login, n |-> call.n]
  <2>1. new.op \in Calls
    OBVIOUS
  <2>2. calls' = (calls \ {call}) \cup {new}
    BY <1>7 DEF Continue
  <2> HIDE DEF new
  <2> QED
    BY <2>1, <2>2 DEF DialogInv, CallsFit
<1>8. ASSUME NEW d, NEW op, Fits(d), op \in Calls, Ask(call, d, op) PROVE DialogInv'
  BY <1>7, <1>8 DEF Ask, DialogInv
<1>9. "permit" \in Calls
  BY DEF Calls
<1>10. EnterprisePermitUserLogin(call) => DialogInv'
  BY <1>8, <1>9 DEF EnterprisePermitUserLogin, DialogInv
<1>11. ASSUME NEW op \in Calls, NEW on, NEW login, dlg' = dlg, Continue(call, op, on, login) PROVE DialogInv'
  BY <1>7, <1>11 DEF DialogInv
<1> QED
  BY <1>2, <1>3, <1>4, <1>5, <1>6, <1>8, <1>10, <1>11

\* The request that begins
LEMMA ResponseFits ==
  ASSUME NEW d, Fits(d), NEW n, NEW others, CallsFit(others), ResponseOK(d, n, others)
  PROVE  DialogInv'
<1>1. Fits(BeginAction(d))
  BY HelpersFit
<1>2. Fits(dlg')
  <2>1. CASE LocalCreateUser(d, n, others)
    BY <1>1, <2>1 DEF LocalCreateUser
  <2>2. CASE EnterpriseAddUser(d, n, others)
    <3> DEFINE b == BeginAction(d)
    <3>1. \E r : dlg' = [b EXCEPT !.selected_realm = r, !.join_prompted = FALSE]
      BY <2>2 DEF EnterpriseAddUser
    <3> HIDE DEF b
    <3>2. \A r : Fits([b EXCEPT !.selected_realm = r, !.join_prompted = FALSE])
      BY <1>1 DEF Fits, DialogFields, b
    <3> QED
      BY <3>1, <3>2
  <2> QED
    BY <2>1, <2>2 DEF ResponseOK
<1>3. \A c \in calls' : c \in others \/ c.op \in {"create", "login", "discover"}
  BY DEF ResponseOK, LocalCreateUser, EnterpriseAddUser
<1> QED
  BY <1>2, <1>3 DEF DialogInv, CallsFit, Calls

\* The user edits, chooses or cancels.
LEMMA EditFits ==
  ASSUME DialogInv,
         \/ \E valid \in BOOLEAN : EditName(valid)
         \/ \E mode \in {"local", "enterprise"} : ModeToggled(mode)
         \/ \E login \in Logins : EditLogin(login)
         \/ \E r \in Realms \cup {Typed} : ChooseDomain(r)
         \/ PressCancel \/ Answered
  PROVE  DialogInv'
<1>1. calls' = calls /\ Fits(dlg) /\ CallsFit(calls)
  BY DEF EditName, ModeToggled, EditLogin, ChooseDomain, PressCancel, Answered, DialogInv
<1>2. ASSUME NEW valid \in BOOLEAN, EditName(valid) PROVE Fits(dlg')
  <2> DEFINE d == [dlg EXCEPT !.name_valid = valid]
  <2>1. dlg' = DialogValidate(d)
    BY <1>2 DEF EditName
  <2>2. Fits(d)
    BY <1>1 DEF Fits, DialogFields
  <2> HIDE DEF d
  <2> QED
    BY <2>1, <2>2, HelpersFit
<1>3. ASSUME NEW mode \in {"local", "enterprise"}, ModeToggled(mode) PROVE Fits(dlg')
  BY <1>1, <1>3, HelpersFit DEF ModeToggled
<1>4. ASSUME NEW login \in Logins, EditLogin(login) PROVE Fits(dlg')
  <2> DEFINE d == [dlg EXCEPT !.login = login]
  <2>1. dlg' = DialogValidate(d)
    BY <1>4 DEF EditLogin
  <2>2. Fits(d)
    BY <1>1 DEF Fits, DialogFields
  <2> HIDE DEF d
  <2> QED
    BY <2>1, <2>2, HelpersFit
<1>5. ASSUME NEW r \in Realms \cup {Typed}, ChooseDomain(r) PROVE Fits(dlg')
  <2> DEFINE d == [dlg EXCEPT !.domain = r]
  <2>1. dlg' = OnDomainChanged(d)
    BY <1>5 DEF ChooseDomain
  <2>2. Fits(d)
    BY <1>1 DEF Fits, DialogFields
  <2> HIDE DEF d
  <2> QED
    BY <2>1, <2>2, HelpersFit
<1>6. CASE PressCancel
  <2> DEFINE d == [dlg EXCEPT !.cancelled = TRUE]
  <2>1. dlg' = CompleteDialog(d, FALSE)
    BY <1>6 DEF PressCancel
  <2>2. Fits(d)
    BY <1>1 DEF Fits, DialogFields
  <2> HIDE DEF d
  <2>3. Fits(dlg')
    BY <2>1, <2>2, HelpersFit
  <2> QED
    BY <1>1, <2>3 DEF DialogInv
<1>7. CASE Answered
  <2>1. Fits(dlg')
    BY <1>1, <1>7 DEF Answered, Fits, DialogFields
  <2> QED
    BY <1>1, <2>1 DEF DialogInv
<1>8. Fits(dlg') => DialogInv'
  BY <1>1 DEF DialogInv
<1> QED
  BY <1>2, <1>3, <1>4, <1>5, <1>6, <1>7, <1>8

\* realmd comes and goes.
LEMMA RealmdFits ==
  ASSUME DialogInv, OnRealmdAppeared \/ OnRealmdDisappeared \/ \E r \in Realms : OnManagerRealmAdded(r)
  PROVE  DialogInv'
<1>1. Fits(dlg) /\ CallsFit(calls)
  BY DEF DialogInv
<1>2. CASE OnRealmdAppeared
  <2>1. dlg' = dlg /\ \A c \in calls' : c \in calls \/ c.op = "manager"
    BY <1>2 DEF OnRealmdAppeared, Begin
  <2> QED
    BY <1>1, <2>1 DEF DialogInv, CallsFit, Calls
<1>3. CASE OnRealmdDisappeared
  <2> DEFINE cleared == [dlg EXCEPT !.manager = 0, !.realms = {}, !.button = FALSE]
             typed == [cleared EXCEPT !.domain = Typed]
             d == IF dlg.domain \in Realms THEN OnDomainChanged(typed) ELSE cleared
  <2>1. dlg' = ModeChange(d, "local") /\ calls' = calls
    BY <1>3 DEF OnRealmdDisappeared
  <2>2. Fits(cleared)
    BY <1>1 DEF Fits, DialogFields
  <2> HIDE DEF cleared
  <2>3. Fits(typed)
    BY <2>2 DEF Fits, DialogFields
  <2> HIDE DEF typed
  <2>4. Fits(d)
    BY <2>2, <2>3, HelpersFit
  <2> HIDE DEF d
  <2>5. Fits(dlg')
    BY <2>1, <2>4, HelpersFit
  <2> QED
    BY <1>1, <2>1, <2>5 DEF DialogInv
<1>4. CASE \E r \in Realms : OnManagerRealmAdded(r)
  BY <1>1, <1>4, RealmFits DEF OnManagerRealmAdded, DialogInv
<1> QED
  BY <1>2, <1>3, <1>4

\* The realms that realmd has when a manager is there
LEMMA ManagerFits ==
  ASSUME DialogInv, NEW call \in calls, NEW ok \in BOOLEAN, NEW realms \in SUBSET Realms,
         OnRealmManagerCreated(call, ok, realms)
  PROVE  DialogInv'
<1>1. Fits(dlg) /\ CallsFit(calls') /\ DOMAIN dlg = DialogFields
  BY DEF OnRealmManagerCreated, End, DialogInv, CallsFit, Fits
<1>2. CASE ~ok
  <2>1. dlg' = [dlg EXCEPT !.manager = 0]
    BY <1>2 DEF OnRealmManagerCreated
  <2>2. Fits(dlg')
    BY <1>1, <2>1 DEF Fits, DialogFields
  <2> QED
    BY <1>1, <2>2 DEF DialogInv
<1>3. CASE ok
  <2>1. PICK order \in SetToSeqs(realms) :
          LET added == AllRealmsAdded(dlg, order)
              d == [dlg EXCEPT !.manager = world.realmd_changes, !.button = TRUE,
                               !.realms = added.realms, !.domain = added.domain,
                               !.chosen = added.chosen]
          IN dlg' = ModeChange(d, d.mode)
    BY <1>3 DEF OnRealmManagerCreated
  <2> DEFINE added == AllRealmsAdded(dlg, order)
             d == [dlg EXCEPT !.manager = world.realmd_changes, !.button = TRUE,
                              !.realms = added.realms, !.domain = added.domain,
                              !.chosen = added.chosen]
  <2>2. dlg' = ModeChange(d, d.mode)
    BY <2>1
  <2>3. Fits(added)
    BY <1>1, RealmsFit
  <2> HIDE DEF added
  <2>4. Fits(d)
    BY <1>1, <2>3 DEF Fits, DialogFields
  <2> HIDE DEF d
  <2>5. Fits(dlg')
    BY <2>2, <2>4, HelpersFit
  <2> QED
    BY <1>1, <2>5 DEF DialogInv
<1> QED
  BY <1>2, <1>3

LEMMA RequestsFit ==
  ASSUME DialogInv, PressAdd \/ \E call \in calls, ok \in BOOLEAN : OnPermissionAcquired(call, ok)
  PROVE  DialogInv'
<1>1. Fits(dlg) /\ CallsFit(calls) /\ \A call : CallsFit(calls \ {call})
  BY DEF DialogInv, CallsFit
<1>2. CASE PressAdd
  <2>1. CASE world.allowed
    BY <1>1, <1>2, <2>1, ResponseFits DEF PressAdd
  <2>2. CASE ~world.allowed
    <3>1. dlg' = BeginAction(dlg) /\ \A c \in calls' : c \in calls \/ c.op = "permission"
      BY <1>2, <2>2 DEF PressAdd, Begin
    <3> QED
      BY <1>1, <3>1, HelpersFit DEF DialogInv, CallsFit, Calls
  <2> QED
    BY <2>1, <2>2
<1>3. ASSUME NEW call \in calls, NEW ok \in BOOLEAN, OnPermissionAcquired(call, ok)
      PROVE  DialogInv'
  <2>1. CASE ~ok
    BY <1>3, <2>1, AnswersFit DEF OnPermissionAcquired
  <2>2. CASE ok
    <3>1. ResponseOK(FinishAction(dlg), call.n, calls \ {call})
      BY <1>3, <2>2 DEF OnPermissionAcquired
    <3>2. Fits(FinishAction(dlg))
      BY <1>1, HelpersFit
    <3> QED
      BY <1>1, <3>1, <3>2, ResponseFits
  <2> QED
    BY <2>1, <2>2
<1> QED
  BY <1>2, <1>3

\* The steps of a request
LEMMA ChainFits ==
  ASSUME DialogInv, NEW call \in calls,
         \/ \E ok \in BOOLEAN :
              \/ \E loaded \in BOOLEAN : CreateUserDone(call, ok, loaded)
              \/ \E r \in Realms : OnRealmDiscoverInput(call, ok, r)
              \/ OnPermitUserLogin(call, ok)
              \/ OnRegisterUser(call, ok)
         \/ UserLoadedCb(call)
         \/ \E outcome \in {"creds", "no_creds", "cannot_auth", "refused"} :
              OnRealmLogin(call, outcome) \/ OnJoinLogin(call, outcome)
         \/ \E outcome \in {"joined", "credentials", "failed"} : OnRealmJoined(call, outcome)
         \/ LateAnswer(call)
  PROVE  DialogInv'
<1>1. Fits(dlg) /\ "loading" \in Calls /\ "login" \in Calls /\ "join" \in Calls /\ "cache" \in Calls
  BY DEF DialogInv, Calls
<1>2. ASSUME NEW ok \in BOOLEAN, NEW loaded \in BOOLEAN, CreateUserDone(call, ok, loaded)
      PROVE  DialogInv'
  BY <1>1, <1>2, AnswersFit DEF CreateUserDone
<1>3. ASSUME NEW ok \in BOOLEAN, NEW r \in Realms, OnRealmDiscoverInput(call, ok, r)
      PROVE  DialogInv'
  <2> DEFINE d == [dlg EXCEPT !.selected_realm = r]
  <2>1. Abort(call) \/ Finish(call) \/ Ask(call, d, "login")
    BY <1>3 DEF OnRealmDiscoverInput
  <2>2. Fits(d)
    BY <1>1 DEF Fits, DialogFields
  <2> HIDE DEF d
  <2> QED
    BY <1>1, <2>1, <2>2, AnswersFit
<1>4. ASSUME NEW ok \in BOOLEAN, OnPermitUserLogin(call, ok) \/ OnRegisterUser(call, ok)
      PROVE  DialogInv'
  BY <1>1, <1>4, AnswersFit DEF OnPermitUserLogin, OnRegisterUser
<1>5. UserLoadedCb(call) \/ LateAnswer(call) => DialogInv'
  BY AnswersFit DEF UserLoadedCb, LateAnswer
<1>6. ASSUME NEW outcome, OnRealmLogin(call, outcome) \/ OnJoinLogin(call, outcome)
      PROVE  DialogInv'
  <2>1. \/ Finish(call) \/ Abort(call) \/ EnterprisePermitUserLogin(call) \/ Ask(call, dlg, "join")
        \/ JoinShowPrompt(call)
    BY <1>6 DEF OnRealmLogin, OnJoinLogin
  <2> QED
    BY <1>1, <2>1, AnswersFit
<1>7. ASSUME NEW outcome \in {"joined", "credentials", "failed"}, OnRealmJoined(call, outcome)
      PROVE  DialogInv'
  <2>1. "joined" # "credentials" /\ "failed" # "credentials" /\ "joined" # "failed"
    OBVIOUS
  <2>2. Abort(call) \/ EnterprisePermitUserLogin(call) \/ JoinShowPrompt(call) \/ Finish(call)
    BY <1>7, <2>1, Zenon DEF OnRealmJoined
  <2> QED
    BY <2>2, AnswersFit
<1> QED
  BY <1>2, <1>3, <1>4, <1>5, <1>6, <1>7

LEMMA JoinResponseFits ==
  ASSUME DialogInv, NEW ok \in BOOLEAN, OnJoinResponse(ok)
  PROVE  DialogInv'
<1> DEFINE d == [dlg EXCEPT !.join_shown = FALSE]
<1>1. /\ dlg' = FinishAction(d) \/ dlg' = d
      /\ \A c \in calls' : c \in calls \/ c.op = "join_login"
  BY DEF OnJoinResponse, Begin
<1>2. Fits(d)
  BY DEF DialogInv, Fits, DialogFields
<1> HIDE DEF d
<1>3. Fits(dlg')
  BY <1>1, <1>2, HelpersFit
<1> QED
  BY <1>1, <1>3 DEF DialogInv, CallsFit, Calls

LEMMA DialogStep ==
  ASSUME DialogInv, AccountDialogNext
  PROVE  DialogInv'
<1>1. CASE DialogAnswers
  <2>1. ASSUME NEW call \in calls, NEW ok \in BOOLEAN, NEW realms \in SUBSET Realms,
               OnRealmManagerCreated(call, ok, realms)
        PROVE  DialogInv'
    BY <2>1, ManagerFits
  <2>2. ASSUME NEW call \in calls, NEW ok \in BOOLEAN, OnPermissionAcquired(call, ok)
        PROVE  DialogInv'
    BY <2>2, RequestsFit
  <2> QED
    BY <1>1, <2>1, <2>2, ChainFits, EditFits DEF DialogAnswers
<1> QED
  BY <1>1, EditFits, RequestsFit, JoinResponseFits, RealmdFits DEF AccountDialogNext

-----------------------------------------------------------------------------
(***************************************************************************)
(* The theorems.                                                           *)
(***************************************************************************)

UserAccountsInv == PanelInv /\ ListInv /\ ChainInv /\ DialogInv

LEMMA InitInv ==
  ASSUME Init PROVE UserAccountsInv
<1>1. PanelInv
  BY DEF Init, UserPanelInit, PanelInv, QuestionInv, QuestionOpen, DeletesTheUserAsked,
         NoQuestion, NotAdding, PanelFields, Alive
<1>2. ChainInv
  BY DEF Init, AccountDialogInit, ChainInv, OneRequest, DialogFields, WorldFields
<1>3. ListInv
  BY ListInit DEF Init
<1>4. DialogInv
  <2>1. AccountDialogInit
    BY DEF Init
  <2> QED
    BY <2>1 DEF AccountDialogInit, DialogInv, Fits, CallsFit, DialogFields
<1> QED
  BY <1>1, <1>2, <1>3, <1>4 DEF UserAccountsInv

LEMMA NextInv ==
  ASSUME UserAccountsInv, [Next]_userAccountsVars PROVE UserAccountsInv'
<1>1. CASE UserPanelNext /\ UNCHANGED accountDialogVars
  <2>1. PanelInv'
    BY <1>1, PanelStep DEF UserAccountsInv
  <2>2. ChainInv' /\ DialogInv'
    BY <1>1 DEF UserAccountsInv, ChainInv, DialogInv, accountDialogVars
  <2>3. ListInv'
    BY <1>1, ListStep DEF UserAccountsInv
  <2> QED
    BY <2>1, <2>2, <2>3 DEF UserAccountsInv
<1>2. CASE AccountDialogNext /\ UNCHANGED userPanelVars
  <2>1. ChainInv'
    BY <1>2, ChainStep DEF UserAccountsInv
  <2>2. PanelInv'
    BY <1>2 DEF UserAccountsInv, PanelInv, QuestionInv, QuestionOpen, Alive,
                DeletesTheUserAsked, userPanelVars
  <2>3. ListInv'
    BY <1>2 DEF UserAccountsInv, ListInv, userPanelVars
  <2>4. DialogInv'
    BY <1>2, DialogStep DEF UserAccountsInv
  <2> QED
    BY <2>1, <2>2, <2>3, <2>4 DEF UserAccountsInv
<1>3. CASE UNCHANGED userAccountsVars
  <2>1. UNCHANGED <<accounts, cache, panel, question, adding, deletions>> /\ UNCHANGED accountDialogVars
    BY <1>3 DEF userAccountsVars, userPanelVars
  <2>2. PanelInv'
    BY <2>1 DEF UserAccountsInv, PanelInv, QuestionInv, QuestionOpen, Alive, DeletesTheUserAsked
  <2>3. ListInv'
    BY <2>1 DEF UserAccountsInv, ListInv
  <2>4. ChainInv' /\ DialogInv'
    BY <2>1 DEF UserAccountsInv, ChainInv, DialogInv, accountDialogVars
  <2> QED
    BY <2>2, <2>3, <2>4 DEF UserAccountsInv
<1> QED
  BY <1>1, <1>2, <1>3 DEF Next

LEMMA AccountsInvariant == Spec => []UserAccountsInv
<1>1. Init => UserAccountsInv
  BY InitInv
<1>2. UserAccountsInv /\ [Next]_userAccountsVars => UserAccountsInv'
  BY NextInv
<1> QED
  BY <1>1, <1>2, PTL DEF Spec

\* The user whose account is deleted is the one that the question named, unless a user was
\* removed while the question was open (delete_user_response reads the selection when the
\* answer comes).
THEOREM DeletesAsked == Spec => []DeletesTheUserAsked
<1>1. UserAccountsInv => DeletesTheUserAsked
  BY DEF UserAccountsInv, PanelInv
<1> QED
  BY <1>1, AccountsInvariant, PTL

\* However the chain of a domain user fails and is retried, the machine joins only a realm it
\* does not belong to, a login is permitted only where it belongs, and the accounts service is
\* told of the login that was permitted there; for every set of realms and logins.
THEOREM ChainOrder == Spec => []ChainInOrder
<1>1. UserAccountsInv => ChainInOrder
  BY DEF UserAccountsInv, ChainInv, OneRequest, Current, ChainInOrder, Joining, Chain
<1> QED
  BY <1>1, AccountsInvariant, PTL

\* The list has a row for each user that the library knows, in their order, and the second
\* heading only if somebody is below it; the details are those of the selected user, as the
\* library has them, and nothing of another user can be changed without the permission; for
\* every set of users, whatever changes while the panel loads them, asks and deletes
\* (users_loaded, user_added, user_removed, user_changed, selected_user_changed).
THEOREM ShowsTheUsers == Spec => []PanelShowsUsers
<1>1. UserAccountsInv => PanelShowsUsers
  <2> SUFFICES ASSUME UserAccountsInv PROVE PanelShowsUsers
    OBVIOUS
  <2> DEFINE known == {u \in Users : cache[u] # NoAccount}
  <2>1. known = Known(cache)
    BY DEF Known
  <2> HIDE DEF known
  <2>2. /\ Named(cache, known) /\ RowsAre(cache, known, Heading(known), panel.listed)
        /\ panel.other_accounts = Cardinality(Others(known))
        /\ SelectionIs(known, panel) /\ DetailsAre(cache, panel)
    BY <2>1 DEF UserAccountsInv, ListInv, Shows
  <2>3. panel.other_accounts \in 0..Cardinality(Users \ {Self})
    <3>1. IsFiniteSet(Users \ {Self}) /\ Others(known) \in SUBSET (Users \ {Self})
      BY <2>2, InitialAssumption, FS_Subset DEF Others, Named
    <3>2. /\ Cardinality(Users \ {Self}) \in Nat /\ Cardinality(Others(known)) \in Nat
          /\ Cardinality(Others(known)) <= Cardinality(Users \ {Self})
      BY <3>1, FS_Subset, FS_CardinalityType
    <3> QED
      BY <2>2, <3>2
  <2>4. ToSet(panel.listed) = {MyAccount} \cup known
                              \cup (IF known \ {Self} # {} THEN {OtherAccounts} ELSE {})
    BY <2>2 DEF RowsAre, Heading, Others
  <2>5. /\ \A i, j \in DOMAIN panel.listed : i < j => SortUsers(cache, panel.listed[i], panel.listed[j])
        /\ panel.selected \in known \cup {NoUser} /\ known \subseteq Users
        /\ panel.vbox <=> panel.selected # NoUser
    BY <2>2 DEF RowsAre, Ordered, SelectionIs, Named
  <2>6. panel.vbox => /\ panel.details.user = panel.selected
                      /\ panel.details.account = cache[panel.selected]
                      /\ panel.details.remove \/ panel.details.type => panel.allowed
    BY <2>2 DEF DetailsAre
  <2>7. UserAccountsTypeOK
    <3>1. /\ panel.life \in {"shown", "disposed", "misused"} /\ question.about \in Users \cup {NoUser}
          /\ \A r \in deletions : {r.user, r.about} \subseteq Users
      BY DEF UserAccountsInv, ListInv
    <3>2. /\ dlg.life \in {"shown", "completing", "destroyed", "misused", "aborted"}
          /\ dlg.domain \in Realms \cup {NoRealm, Typed} /\ dlg.realms \subseteq Realms
          /\ \A c \in calls : c.op \in Calls
      BY DEF UserAccountsInv, DialogInv, Fits, CallsFit
    <3>3. ToSet(panel.listed) \subseteq Users \cup {MyAccount, OtherAccounts}
      BY <2>4, <2>5
    <3> QED
      BY <2>3, <2>5, <3>1, <3>2, <3>3 DEF UserAccountsTypeOK, Calls
  <2> QED
    BY <2>4, <2>5, <2>6, <2>7 DEF PanelShowsUsers, known
<1> QED
  BY <1>1, AccountsInvariant, PTL
=============================================================================
