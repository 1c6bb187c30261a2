---------------------------- MODULE AccountDialog ----------------------------
(***************************************************************************)
(* The dialog that adds a user (um-account-dialog.c, with the calls of     *)
(* um-realm-manager.c it makes).                                           *)
(*                                                                         *)
(* A local user is one request to the accounts service.  A user of a       *)
(* domain is a chain: discover the realm, log in there, join the machine   *)
(* to it, as the user or as an administrator the dialog asks for, permit   *)
(* the login, and have the accounts service cache the user.  All of that   *)
(* goes through realmd, which comes and goes.                              *)
(*                                                                         *)
(* A call that is not answered is a record in calls.  All but the wait for *)
(* a new user to be loaded share the cancellable of the dialog.            *)
(***************************************************************************)
EXTENDS Integers, FiniteSets, SequencesExt

CONSTANTS
  Realms,            \* the domains that realmd can find
  Supports,          \* whose credentials each accepts to be joined: "user", "administrator"
  InitialConfigured, \* the realms that the machine may belong to at the start: a set of sets
  Logins,            \* what the user may enter as the name in the domain
  NoRealm, Typed,    \* no domain is chosen; one is typed that is not in the list
  MaxRequests,       \* how often the user presses Add
  MaxRealmdChanges   \* how often realmd starts or ends

ASSUME RealmsAssumption ==
  /\ IsFiniteSet(Realms) /\ Supports \in [Realms -> SUBSET {"user", "administrator"}]
  /\ InitialConfigured \subseteq SUBSET Realms
  /\ {NoRealm, Typed} \cap Realms = {} /\ NoRealm # Typed
  /\ {MaxRequests, MaxRealmdChanges} \subseteq Nat

VARIABLES
  dlg,    \* UmAccountDialog and its widgets
  calls,  \* what is not answered yet
  world   \* realmd and the accounts service, and the counters

accountDialogVars == <<dlg, calls, world>>

NoLogin == "no_login"

-----------------------------------------------------------------------------
(***************************************************************************)
(* The dialog.                                                             *)
(***************************************************************************)

Valid(d) ==
  IF d.mode = "local" THEN d.name_valid ELSE d.login # NoLogin /\ d.domain # NoRealm
DialogValidate(d) == [d EXCEPT !.ok = Valid(d)]
ModeChange(d, mode) == DialogValidate([d EXCEPT !.mode = mode])

BeginAction(d) == [d EXCEPT !.controls = FALSE, !.ok = FALSE]
FinishAction(d) == [d EXCEPT !.controls = TRUE, !.ok = TRUE]
\* The answer to the panel follows from the main loop.
CompleteDialog(d, user) == [d EXCEPT !.life = "completing", !.user = @ \/ user]

\* The names of the realms differ.  A realm that the machine belongs to is chosen if the user
\* has not chosen; the list says that it changed, as for a choice of the user.
OnDomainChanged(d) == [DialogValidate(d) EXCEPT !.chosen = TRUE]
EnterpriseAddRealm(d, r) ==
  LET added == [d EXCEPT !.realms = @ \cup {r}]
  IN IF r \in d.realms THEN d
     ELSE IF ~d.chosen /\ r \in world.configured
     THEN OnDomainChanged([added EXCEPT !.domain = r])
     ELSE added

\* A call on a realm or a manager, for the n-th time that the user pressed Add
Begin(n, op, on, login) == calls' = calls \cup {[op |-> op, on |-> on, login |-> login, n |-> n]}
Continue(call, op, on, login) ==
  calls' = (calls \ {call}) \cup {[op |-> op, on |-> on, login |-> login, n |-> call.n]}
End(call) == calls' = calls \ {call}

-----------------------------------------------------------------------------
(***************************************************************************)
(* The user.                                                               *)
(***************************************************************************)

\* The widgets of a modal dialog; the administrator's is modal over this one.
AtDialog == dlg.life = "shown" /\ ~dlg.join_shown

EditName(valid) ==
  /\ AtDialog /\ dlg.controls /\ dlg.mode = "local" /\ valid # dlg.name_valid
  /\ dlg' = DialogValidate([dlg EXCEPT !.name_valid = valid])
  /\ UNCHANGED <<calls, world>>
ModeToggled(mode) ==
  /\ AtDialog /\ dlg.controls /\ dlg.button /\ mode # dlg.mode
  /\ dlg' = ModeChange(dlg, mode)
  /\ UNCHANGED <<calls, world>>
EditLogin(login) ==
  /\ AtDialog /\ dlg.controls /\ dlg.mode = "enterprise" /\ login # dlg.login
  /\ dlg' = DialogValidate([dlg EXCEPT !.login = login])
  /\ UNCHANGED <<calls, world>>
ChooseDomain(r) ==
  /\ AtDialog /\ dlg.controls /\ dlg.mode = "enterprise"
  /\ r \in dlg.realms \cup {Typed} /\ r # dlg.domain
  /\ dlg' = OnDomainChanged([dlg EXCEPT !.domain = r])
  /\ UNCHANGED <<calls, world>>

\* Without a manager nothing is asked, and the spinner turns for ever.
EnterpriseAddUser(d, n, others) ==
  LET known == d.domain \in Realms
      call(op, on) == [op |-> op, on |-> on, login |-> d.login, n |-> n]
  IN /\ dlg' = [BeginAction(d) EXCEPT !.selected_realm = IF known THEN d.domain ELSE NoRealm,
                                      !.join_prompted = FALSE]
     /\ calls' = others \cup IF known THEN {call("login", d.domain)}
                            ELSE IF d.manager # 0 THEN {call("discover", d.manager)}
                            ELSE {}
LocalCreateUser(d, n, others) ==
  /\ dlg' = BeginAction(d)
  /\ calls' = others \cup {[op |-> "create", on |-> NoRealm, login |-> NoLogin, n |-> n]}

\* um_account_dialog_response (GTK_RESPONSE_OK), with the permission
ResponseOK(d, n, others) ==
  IF d.mode = "local" THEN LocalCreateUser(d, n, others) ELSE EnterpriseAddUser(d, n, others)

PressAdd ==
  /\ AtDialog /\ dlg.ok
  /\ world.requests < MaxRequests
  /\ world' = [world EXCEPT !.requests = @ + 1,
                            !.overlap = @ \/ \E c \in calls : c.op # "manager"]
  /\ IF world.allowed THEN ResponseOK(dlg, world'.requests, calls)
     ELSE dlg' = BeginAction(dlg) /\ Begin(world'.requests, "permission", NoRealm, NoLogin)

\* Cancel, or the window is closed.
PressCancel ==
  /\ AtDialog
  /\ dlg' = CompleteDialog([dlg EXCEPT !.cancelled = TRUE], FALSE)
  /\ UNCHANGED <<calls, world>>

\* select_created_user, from the main loop: the widgets are freed with the dialog, although the
\* handlers of the chain of a domain user hold a reference to it.
Answered ==
  /\ dlg.life = "completing"
  /\ dlg' = [dlg EXCEPT !.life = "destroyed", !.cancelled = TRUE, !.join_shown = FALSE, !.manager = 0]
  /\ UNCHANGED <<calls, world>>

-----------------------------------------------------------------------------
(***************************************************************************)
(* Answers.                                                                *)
(***************************************************************************)

\* The handler of a call that is answered; after a cancel the answer is always an error.
Handles(call, ok) ==
  /\ call \in calls /\ dlg.life \in {"shown", "completing"}
  /\ dlg.cancelled => ~ok
\* A handler that uses the widgets, or the realm, when they are gone
Misuse(call) == dlg' = [dlg EXCEPT !.life = "misused"] /\ End(call) /\ UNCHANGED world
Abort(call) == dlg' = [dlg EXCEPT !.life = "aborted"] /\ End(call) /\ UNCHANGED world
LateAnswer(call) ==
  /\ call \in calls /\ dlg.life = "destroyed"
  /\ Misuse(call)

Ask(call, d, op) == dlg' = d /\ Continue(call, op, d.selected_realm, d.login)
Finish(call) == dlg' = FinishAction(dlg) /\ End(call)

OnPermissionAcquired(call, ok) ==
  /\ call.op = "permission" /\ Handles(call, ok)
  /\ world' = [world EXCEPT !.allowed = @ \/ ok]
  /\ IF ~ok THEN Finish(call)
     ELSE ResponseOK(FinishAction(dlg), call.n, calls \ {call})

UserLoaded(call) == dlg' = CompleteDialog(FinishAction(dlg), TRUE) /\ End(call)
\* The new user may have to be loaded first.
CreateUserDone(call, ok, loaded) ==
  /\ call.op = "create" /\ Handles(call, ok)
  /\ ok => ~world.created
  /\ world' = [world EXCEPT !.created = @ \/ ok]
  /\ IF ~ok THEN Finish(call)
     ELSE IF loaded THEN UserLoaded(call)
     ELSE dlg' = dlg /\ Continue(call, "loading", NoRealm, NoLogin)
UserLoadedCb(call) ==
  /\ call.op = "loading" /\ call \in calls /\ dlg.life \in {"shown", "completing"}
  /\ UserLoaded(call) /\ UNCHANGED world

\* The manager is read again: the result of another one, or of none, is refused without an
\* error, and an assertion says that there are realms then.
OnRealmDiscoverInput(call, ok, r) ==
  /\ call.op = "discover" /\ Handles(call, ok)
  /\ IF call.on # dlg.manager THEN Abort(call)
     ELSE /\ UNCHANGED world
          /\ IF ~ok THEN Finish(call)
             ELSE Ask(call, [dlg EXCEPT !.selected_realm = r], "login")

EnterprisePermitUserLogin(call) == Ask(call, dlg, "permit")
JoinShowPrompt(call) ==
  /\ dlg' = [dlg EXCEPT !.join_shown = TRUE, !.join_prompted = TRUE]
  /\ End(call)

\* Mutant: a machine that does not belong to the realm is not joined to it.
LoginPermits(call, outcome) ==
  /\ call.op = "login" /\ Handles(call, outcome # "refused")
  /\ IF outcome = "refused" THEN Finish(call)
     ELSE dlg.selected_realm # NoRealm /\ EnterprisePermitUserLogin(call)
  /\ UNCHANGED world

\* Outcomes of a login: "creds", "no_creds" (valid, but the cache of them cannot be read),
\* "cannot_auth" (valid, but not now), "refused" (an error, a wrong name or password)
OnRealmLogin(call, outcome) ==
  /\ call.op = "login" /\ Handles(call, outcome # "refused")
  /\ LET r == dlg.selected_realm
     IN IF outcome = "refused" THEN Finish(call) /\ UNCHANGED world
        ELSE IF r = NoRealm THEN Abort(call)
        ELSE /\ UNCHANGED world
             /\ IF r \in world.configured THEN EnterprisePermitUserLogin(call)
                ELSE IF outcome = "creds" /\ "user" \in Supports[r] THEN Ask(call, dlg, "join")
                ELSE JoinShowPrompt(call)

\* The answer of the administrator's dialog
OnJoinResponse(ok) ==
  /\ dlg.life \in {"shown", "completing"} /\ dlg.join_shown
  /\ LET d == [dlg EXCEPT !.join_shown = FALSE]
     IN IF ~ok THEN dlg' = FinishAction(d) /\ UNCHANGED calls
        ELSE /\ dlg' = d
             /\ IF d.selected_realm # NoRealm
                THEN Begin(world.requests, "join_login", d.selected_realm, d.login) ELSE UNCHANGED calls
  /\ UNCHANGED world

\* Mutant: the controls stay off if no administrator can join the realm.
UnsupportedOnJoinLogin(call, outcome) ==
  /\ call.op = "join_login" /\ Handles(call, outcome \in {"creds", "no_creds"})
  /\ UNCHANGED world
  /\ LET r == dlg.selected_realm
     IN IF outcome \notin {"creds", "no_creds"} THEN r # NoRealm /\ JoinShowPrompt(call)
        ELSE IF r # NoRealm /\ outcome = "creds" /\ "administrator" \in Supports[r]
        THEN Ask(call, dlg, "join")
        ELSE End(call) /\ UNCHANGED dlg

OnJoinLogin(call, outcome) ==
  /\ call.op = "join_login" /\ Handles(call, outcome \in {"creds", "no_creds"})
  /\ LET r == dlg.selected_realm
     IN IF outcome \notin {"creds", "no_creds"}
        THEN IF r = NoRealm THEN Abort(call) ELSE JoinShowPrompt(call) /\ UNCHANGED world
        ELSE /\ UNCHANGED world
             /\ IF r # NoRealm /\ outcome = "creds" /\ "administrator" \in Supports[r]
                THEN Ask(call, dlg, "join") ELSE Finish(call)

\* "credentials": they were not enough to join
OnRealmJoined(call, outcome) ==
  /\ call.op = "join" /\ Handles(call, outcome = "joined")
  /\ LET joined == [world EXCEPT !.configured = @ \cup (IF outcome = "joined" THEN {call.on} ELSE {})]
     IN IF dlg.selected_realm = NoRealm THEN Abort(call)
        ELSE /\ world' = joined
             /\ CASE outcome = "joined" -> EnterprisePermitUserLogin(call)
                  [] outcome = "credentials" -> JoinShowPrompt(call)
                  [] OTHER -> Finish(call)

\* The realm that answers says how the login is written.
OnPermitUserLogin(call, ok) ==
  /\ call.op = "permit" /\ Handles(call, ok)
  /\ world' = IF ok THEN [world EXCEPT !.permitted = @ \cup {<<call.on, call.login>>}] ELSE world
  /\ IF ok THEN dlg' = dlg /\ Continue(call, "cache", call.on, dlg.login)
     ELSE Finish(call)

OnRegisterUser(call, ok) ==
  /\ call.op = "cache" /\ Handles(call, ok)
  /\ UNCHANGED world
  /\ IF ok THEN UserLoaded(call) ELSE Finish(call)

-----------------------------------------------------------------------------
(***************************************************************************)
(* realmd.                                                                 *)
(***************************************************************************)

Watched == dlg.life \in {"shown", "completing"}

OnRealmdAppeared ==
  /\ Watched /\ ~world.realmd /\ world.realmd_changes < MaxRealmdChanges
  /\ world' = [world EXCEPT !.realmd = TRUE, !.realmd_changes = @ + 1]
  /\ Begin(world'.realmd_changes, "manager", NoRealm, NoLogin)
  /\ UNCHANGED dlg

AllRealmsAdded(d, realms) ==
  LET added[n \in 0..Len(realms)] == IF n = 0 THEN d ELSE EnterpriseAddRealm(added[n - 1], realms[n])
  IN added[Len(realms)]

\* The realms that realmd has already are listed; a manager is its number.
OnRealmManagerCreated(call, ok, realms) ==
  /\ call.op = "manager" /\ Handles(call, ok)
  /\ IF ~ok THEN dlg' = [dlg EXCEPT !.manager = 0]
     ELSE \E order \in SetToSeqs(realms) :
            LET added == AllRealmsAdded(dlg, order)
                d == [dlg EXCEPT !.manager = world.realmd_changes, !.button = TRUE,
                                 !.realms = added.realms, !.domain = added.domain,
                                 !.chosen = added.chosen]
            IN dlg' = ModeChange(d, d.mode)
  /\ End(call)
  /\ UNCHANGED world

\* "realm-added"
OnManagerRealmAdded(r) ==
  /\ Watched /\ dlg.manager # 0 /\ world.realmd /\ r \notin dlg.realms
  /\ dlg' = EnterpriseAddRealm(dlg, r)
  /\ UNCHANGED <<calls, world>>

\* The list is cleared: a choice in it becomes a text, and says that it changed.
OnRealmdDisappeared ==
  /\ Watched /\ world.realmd /\ world.realmd_changes < MaxRealmdChanges
  /\ LET cleared == [dlg EXCEPT !.manager = 0, !.realms = {}, !.button = FALSE]
         d == IF dlg.domain \in Realms
              THEN OnDomainChanged([cleared EXCEPT !.domain = Typed]) ELSE cleared
     IN dlg' = ModeChange(d, "local")
  /\ world' = [world EXCEPT !.realmd = FALSE, !.realmd_changes = @ + 1]
  /\ UNCHANGED calls

-----------------------------------------------------------------------------
AccountDialogInit ==
  /\ \E allowed \in BOOLEAN, configured \in InitialConfigured :
       world = [realmd |-> FALSE, realmd_changes |-> 0, configured |-> configured,
                permitted |-> {}, created |-> FALSE, allowed |-> allowed, requests |-> 0,
                overlap |-> FALSE]  \* kept for a property: Add was pressed during a request
  /\ dlg = [life |-> "shown", mode |-> "local", ok |-> FALSE, controls |-> TRUE,
            name_valid |-> FALSE, login |-> NoLogin, domain |-> NoRealm, chosen |-> FALSE,
            realms |-> {}, manager |-> 0, button |-> FALSE, selected_realm |-> NoRealm,
            join_shown |-> FALSE, join_prompted |-> FALSE, cancelled |-> FALSE, user |-> FALSE]
  /\ calls = {}

\* Everything that is answered without the user
DialogAnswers ==
  \/ \E call \in calls :
       \/ \E ok \in BOOLEAN :
            \/ OnPermissionAcquired(call, ok)
            \/ \E loaded \in BOOLEAN : CreateUserDone(call, ok, loaded)
            \/ \E r \in Realms : OnRealmDiscoverInput(call, ok, r)
            \/ OnPermitUserLogin(call, ok)
            \/ OnRegisterUser(call, ok)
            \/ \E realms \in SUBSET Realms : OnRealmManagerCreated(call, ok, realms)
       \/ UserLoadedCb(call)
       \/ \E outcome \in {"creds", "no_creds", "cannot_auth", "refused"} :
            OnRealmLogin(call, outcome) \/ OnJoinLogin(call, outcome)
       \/ \E outcome \in {"joined", "credentials", "failed"} : OnRealmJoined(call, outcome)
       \/ LateAnswer(call)
  \/ Answered

AccountDialogNext ==
  \/ DialogAnswers
  \/ \E valid \in BOOLEAN : EditName(valid)
  \/ \E mode \in {"local", "enterprise"} : ModeToggled(mode)
  \/ \E login \in Logins : EditLogin(login)
  \/ \E r \in Realms \cup {Typed} : ChooseDomain(r)
  \/ PressAdd \/ PressCancel
  \/ \E ok \in BOOLEAN : OnJoinResponse(ok)
  \/ OnRealmdAppeared \/ OnRealmdDisappeared
  \/ \E r \in Realms : OnManagerRealmAdded(r)
=============================================================================
