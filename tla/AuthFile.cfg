SPECIFICATION Spec
CONSTANTS
  Users = {u1, u2}
  Savers = {s1, s2}
  Tokens = {k1, k2}
  NoToken = NoToken
  Torn = Torn
  Initial = Initial
  Garbage = Garbage
SYMMETRY MCSymmetry
INVARIANTS
  TypeOK
  TornOnlyFromPlain
  OwnAccount
PROPERTY
  SavedIsLoaded
