\* The externs are written at the end of the data, not at its beginning.
CONSTANTS
  f = f
  g = g
  t = t
  c = c
  extern1 = extern1
  extern2 = extern2
  string = string
  pooled = pooled
  NoSection = NoSection
  Nothing = Nothing
  Function = {f, g}
  Variable = {t, c}
  ExternDecl = {extern1, extern2}
  Literal = {string, pooled}
  StringConstant = {string}
  Common = {t}
  ReadOnly = {c}
  SmallObject = {c, string}
  HasTable = {f}
  NamedSection = {"f", "g", "v"}
  SymbolOf <- MCSymbolOf
  AddressedBy <- MCAddressedBy
  PoolOf <- MCPoolOf
  Setup <- Separate
SPECIFICATION Spec
SYMMETRY Alike
INVARIANT ExternsFirst
CHECK_DEADLOCK FALSE
