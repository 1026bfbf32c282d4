\* Two calls, of which one may come out of the other, and an await; a death, a reset.
SPECIFICATION FairSpec
CONSTANTS
  d1 = d1  a1 = a1  b1 = b1
  dd = dd  aa = aa  bb = bb
  w1 = w1
  R = R
  NoKey = NoKey  NoRealm = NoRealm  Bypass = Bypass  Host = Host
  Key = {d1, a1, b1}
  Bare = {dd, aa, bb}
  Realm = {R}
  BareOf <- MCBareOf
  RealmOf <- MCRealmOf
  Sudoers = {d1}
  SpawnedBy <- MCSpawnedBy
  Call <- MCCalls
  AwaitCaller = {a1}
  Wait = {w1}
  Mortal = {a1, b1}
  MaxDepth = 1
  MaxCalls = 2
  MaxDeaths = 1
  MaxResets = 1
INVARIANTS RecordsInv AwaitsInv AsAdmitted
PROPERTIES SettledForGood DeathSettlesCalls ImplementsLedger TimedCallsSettle AwaitsEnd
CHECK_DEADLOCK FALSE
