\* Two threads that send one message each.
CONSTANTS
  Thread = {t1, t2}
  Node = {"Root", "Sub", "mRoot", "mSub"}
  None = "none"
  Super <- MCSuper
  Class = {"Root", "Sub"}
  Meta <- MCMeta
  Category = {}
  Extended <- MCExtended
  Sel = {"m", "k", "initialize"}
  Methods <- MCMethods
  Sends = {"m", "k"}
  Asks = {}
  MaxSends = 1
  MaxNest = 0
SPECIFICATION Spec
INVARIANT RightMethod
\* There are only so many messages.
CHECK_DEADLOCK FALSE
