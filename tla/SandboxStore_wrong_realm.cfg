\* The Generic Realm and one more, each with an agent of the same id.
SPECIFICATION Spec
CONSTANTS
  G = G  R = R  S = S  x = x  y = y  t = t
  Realm = {G, R}
  Generic = G
  Id = {x}
  Members <- OneMember
  Template = {t}
  MaxOps = 5
PROPERTIES DeletionConfined
