\* With -G 0 the section directive of a function goes to the text file and its
\* code to the data file.
CONSTANTS
  f = f
  g = g
  t = t
  c = c
  extern1 = extern1
  extern2 = extern2
  string = string
  pooled = pooled
  NoSection = NoSection
  Nothing = Nothing
  Function = {f, g}
  Variable = {t, c}
  ExternDecl = {extern1, extern2}
  Literal = {string, pooled}
  StringConstant = {string}
  Common = {t}
  ReadOnly = {c}
  SmallObject = {c, string}
  HasTable = {f}
  NamedSection = {"f", "g", "v"}
  SymbolOf <- MCSymbolOf
  AddressedBy <- MCAddressedBy
  PoolOf <- MCPoolOf
  Setup <- NoGpOpt
SPECIFICATION Spec
SYMMETRY Alike
INVARIANT CodeInOwnSection
CHECK_DEADLOCK FALSE
