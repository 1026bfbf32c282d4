\* The Generic Realm and one more, a template of two members, a template to
\* import, five operations and any restarts.
SPECIFICATION FairSpec
CONSTANTS
  G = G  R = R  S = S  x = x  y = y  t = t
  Realm = {G, R}
  Generic = G
  Id = {x, y}
  Members <- TwoMembers
  Template = {t}
  MaxOps = 5
INVARIANTS SInv CatalogIsStored
PROPERTIES RealmsEndWhole ChangesAreSaved
