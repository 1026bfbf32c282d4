\* Two triggers of one target, one of them lawful and one from a source of no
\* Realm, and a foreign trigger; refusals; registrations come and go, turns start
\* outside the queue; microtasks wake it, or its timer.
SPECIFICATION Spec
CONSTANTS
  t1 = t1  t2 = t2  t3 = t3
  a1 = a1  b1 = b1  b2 = b2
  a = a  b = b  system = system
  R = R  S = S
  NoKey = NoKey  NoRealm = NoRealm  Bypass = Bypass
  Trigger = {t1, t2, t3}
  Key = {a1, b1, b2}
  Bare = {a, b, system}
  Realm = {R, S}
  BareOf <- MCBareOf
  RealmOf <- MCRealmOf
  Target <- MCTarget
  Source <- MCSource
  SourceKey <- MCSourceKey
  AutoStart = FALSE
  Volatile = {a1}
  OutsideTurns = {a1}
  MaxRetries = 1
INVARIANTS IInv
PROPERTIES NoHeadOfLineBlocking ImplementsMailboxes RealmConfinement NoStarvation NoLostWakeup
CHECK_DEADLOCK FALSE
