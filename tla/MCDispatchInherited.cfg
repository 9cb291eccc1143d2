\* One thread, and a subclass without +initialize.
CONSTANTS
  Thread = {t1}
  Node = {"Root", "Sub", "mRoot", "mSub"}
  None = "none"
  Super <- MCSuper
  Class = {"Root", "Sub"}
  Meta <- MCMeta
  Category = {}
  Extended <- MCExtended
  Sel = {"m", "k", "initialize"}
  Methods <- MCMethods
  Sends = {"m"}
  Asks = {}
  MaxSends = 1
  MaxNest = 0
SPECIFICATION Spec
INVARIANT OncePerMethod
\* There are only so many messages.
CHECK_DEADLOCK FALSE
