\* Two threads that send a message or ask for a method, and a category that
\* is loaded meanwhile, and messages sent from within +initialize.
CONSTANTS
  Thread = {t1, t2}
  Node = {"Root", "Sub", "mRoot", "mSub"}
  None = "none"
  Super <- MCSuper
  Class = {"Root", "Sub"}
  Meta <- MCMeta
  Category = {"over"}
  Extended <- MCExtended
  Sel = {"m", "k", "initialize"}
  Methods <- MCMethods
  Sends = {"m"}
  Asks = {"Sub"}
  MaxSends = 1
  MaxNest = 1
SPECIFICATION Spec
INVARIANTS RightUnlessRaced TablesRight InitializeRight
PROPERTY Delivered
\* There are only so many messages.
CHECK_DEADLOCK FALSE
