--------------------------- MODULE MCUserAccounts ---------------------------
(***************************************************************************)
(* A small instance of UserAccounts: the user of the panel, an             *)
(* administrator, and two others, one of a domain; a realm that accepts    *)
(* the credentials of a user and one that only takes an administrator's.   *)
(***************************************************************************)
EXTENDS UserAccounts

CONSTANTS self, ann, bob, ad, ipa

MCUsers == {self, ann, bob}
MCUid == (self :> 1 @@ ann :> 2 @@ bob :> 3)
Account(admin, in, auto, name) == [admin |-> admin, in |-> in, auto |-> auto, name |-> name]
MCAccounts ==
  LET own == self :> Account(TRUE, TRUE, FALSE, 1)
      others == ann :> Account(TRUE, FALSE, TRUE, 2)
  IN {own @@ others @@ bob :> NoAccount,
      own @@ others @@ bob :> Account(FALSE, FALSE, FALSE, 1)}
MCSupports == (ad :> {"user", "administrator"} @@ ipa :> {"administrator"})
MCConfigured == {{}, {ipa}}
=============================================================================
