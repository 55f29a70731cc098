CONSTANTS
  Sessions = {s1, s2}
  Accounts = {a1, a2}
  Characters = {c1, c2}
  Slots = {0}
  Requests = {r1, r2}
  NoAccount = NoAccount
  NoCharacter = NoCharacter

SPECIFICATION Spec
SYMMETRY Symmetry
INVARIANTS
  TypeOK
  SelectedIsOwn
  DeadBindingExplained
  
PROPERTIES
  ImplementsStore

