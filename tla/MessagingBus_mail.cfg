\* Four messages, three waits, two agents of one name; agents come and go once.
SPECIFICATION Spec
CONSTANTS
  a1 = a1  b1 = b1  a2 = a2  d = d
  aa = aa  bb = bb  dd = dd
  R = R  Q = Q
  news = news  call = call  tell = tell  order = order
  both = both  any = any  peek = peek
  NoRealm = NoRealm  Bypass = Bypass  Host = Host  All = All
  Key = {a1, b1, a2}
  Bare = {aa, bb, dd}
  Realm = {R, Q}
  BareOf <- MCBareOf
  RealmOf <- MCRealmOf
  Message = {news, call, tell, order}
  From <- MCFrom
  To <- MCTo
  Wait = {both, any, peek}
  WaitOf <- MCWaitOf
  Founders = {a1, b1}
  MaxChanges = 1
  MaxInstalls = 1
INVARIANTS BInv HeardMail
PROPERTY ImplementsService
CHECK_DEADLOCK FALSE
