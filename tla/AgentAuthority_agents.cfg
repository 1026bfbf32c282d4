\* Three agents, two of them with the same bare id, in two Realms; any four
\* calls and reloads, and any turns.
SPECIFICATION Spec
CONSTANTS
  p1 = p1  q1 = q1  p2 = p2  p = p  q = q  R1 = R1  R2 = R2  a = a  b = b
  Key = {p1, q1, p2}
  BareId = {p, q}
  Realm = {R1, R2}
  IdOf <- MCIdOf
  RealmOf <- MCRealmOf
  Operator = Operator
  Star = Star
  Lifecycle = Lifecycle
  Tool = {Star, Lifecycle, a, b}
  Readonly = {b}
  Scope <- MCScope
  Request <- MCRequest
  Patch <- MCPatch
  Founder = {p1, q1, p2}
  Charter <- MCCharter
  Planned = {q1}
  NoId = NoId
  NoScope = NoScope
  NoAuthority = NoAuthority
  NoEdit = NoEdit
  MaxChanges = 4
INVARIANTS LInv
PROPERTIES FlowsDown RealmsSealed
\* Nothing is left to do after the last call if it took the last agent away.
CHECK_DEADLOCK FALSE
