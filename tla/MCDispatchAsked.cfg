\* One thread that asks for a method of the subclass, as objc_read_object ()
\* does.
CONSTANTS
  Thread = {t1}
  Node = {"Root", "Sub", "mRoot", "mSub"}
  None = "none"
  Super <- MCSuper
  Class = {"Root", "Sub"}
  Meta <- MCMeta
  Category = {}
  Extended <- MCExtended
  Sel = {"m", "k", "initialize"}
  Methods <- MCMethods
  Sends = {"m"}
  Asks = {"Sub"}
  MaxSends = 1
  MaxNest = 0
SPECIFICATION Spec
INVARIANT InitializeCalledFirst
\* There are only so many messages.
CHECK_DEADLOCK FALSE
