\* An alarm of one of two namesakes, of a third agent, of the director or of a
\* mere bare id; two mishaps of any kind.
SPECIFICATION FairSpec
CONSTANTS
  a1 = a1  a2 = a2  b1 = b1  d1 = d1
  alice = alice  bob = bob  director = director  user = user
  R = R  S = S
  NoRealm = NoRealm  Bypass = Bypass
  Key = {a1, a2, b1, d1}
  Bare = {alice, bob, director, user}
  Realm = {R, S}
  BareOf <- MCBareOf
  RealmOf <- MCRealmOf
  Resident = {a1, b1, d1}
  Undying = {b1, d1}
  Timer = {1}
  Condition = {"any", bob}
  Duration = {1, 2}
  MaxDelay = 1
  MaxTime = 1
  MaxMishaps = 2
INVARIANTS AInv
PROPERTIES RealmsApart AlarmsGoOff
CHECK_DEADLOCK FALSE
