SPECIFICATION Spec
CONSTANTS
  self = self
  ann = ann
  bob = bob
  ad = ad
  ipa = ipa
  Users <- MCUsers
  Self = self
  Local = {self, ann}
  Uid <- MCUid
  Names = {1, 2}
  InitialAccounts <- MCAccounts
  NoUser = NoUser
  NoAccount = NoAccount
  MyAccount = MyAccount
  OtherAccounts = OtherAccounts
  MaxChanges = 3
  Realms = {ad, ipa}
  Supports <- MCSupports
  InitialConfigured <- MCConfigured
  Logins = {"login1", "login2"}
  NoRealm = NoRealm
  Typed = Typed
  MaxRequests = 2
  MaxRealmdChanges = 2
INVARIANTS
  NeverDeletesSelf
CHECK_DEADLOCK FALSE
