--------------------------- MODULE DispatchTables ---------------------------
(***************************************************************************)
(* How the Objective-C runtime finds the method of a message,              *)
(* objc/sendmsg.c.  A class has a dispatch table, which is made when the   *)
(* first message is sent to the class or one of its instances, out of a    *)
(* copy of the table of the superclass and the methods of the class; then  *)
(* +initialize is sent.  A category that is loaded adds a list of methods  *)
(* to a class, and the tables of the class and its subclasses are made     *)
(* again.  Tables are written under the runtime mutex (a RecursiveLock),   *)
(* one entry at a time, and read without it.                               *)
(*                                                                         *)
(* A node is a class or a metaclass.  A method is named by the list of     *)
(* methods it is in: a node, for the methods of the class itself, or a     *)
(* category.  A table that was replaced can still be read; what becomes of *)
(* its memory is a matter of SparseArrays and ObjcThreads.                 *)
(***************************************************************************)
EXTENDS Naturals, Sequences, FiniteSets

CONSTANTS
  Thread,
  Node, None,
  Super,       \* Super[n]: the superclass of n, or None
  Class, Meta, \* the nodes that are no metaclasses, and the metaclass of each
  Category,
  Extended,    \* Extended[k]: the node that category k adds methods to
  Sel,         \* the selectors; "initialize" is one
  Methods,     \* Methods[l]: the selectors of the methods in list l
  Sends,       \* the selectors that are sent, but for +initialize
  Asks,        \* the nodes whose methods are asked for without a message
  MaxSends,    \* bound: messages and questions of a thread
  MaxNest      \* bound: messages sent from within +initialize

List == Node \cup Category

(* The superclass links have an end, objc_resolve_class_links ().          *)
ASSUME NodeAssumption ==
  /\ Class \subseteq Node /\ None \notin List
  /\ Super \in [Node -> Node \cup {None}] /\ Meta \in [Class -> Node \ Class]
  /\ \A c \in Class : Super[c] \in Class \cup {None}
  /\ \A n \in Node : \E c \in Class : n = c \/ n = Meta[c]
  /\ \A S \in SUBSET Node : S # {} => \E n \in S : Super[n] \notin S
ASSUME MethodsAssumption ==
  /\ Extended \in [Category -> Node] /\ Methods \in [List -> SUBSET Sel]
  /\ "initialize" \in Sel /\ Sends \subseteq Sel /\ Asks \subseteq Node
  /\ MaxSends \in Nat /\ MaxNest \in Nat

VARIABLES
  count,   \* the runtime mutex
  lists,   \* lists[n]: the lists of methods of n, the newest first
  tables,  \* the tables made so far: functions from Sel to List or None
  dtable,  \* dtable[n]: the number of its table; 0 is __objc_uninstalled_dtable
  flagged, \* the classes with CLS_SETINITIALIZED
  calls,   \* the calls of +initialize methods: <<class, list, within another?>>
  stack,   \* stack[t]: what thread t is doing, one frame for each message
  begun,   \* begun[t]: the messages and questions of t so far
  answer   \* answer[t]: the last method found, and for what

vars == <<count, lists, tables, dtable, flagged, calls, stack, begun, answer>>

Mutex == INSTANCE RecursiveLock

Uninstalled == 0
Empty == [s \in Sel |-> None]

Init ==
  /\ Mutex!Init
  /\ lists = [n \in Node |-> <<n>>]
  /\ tables = <<>>
  /\ dtable = [n \in Node |-> Uninstalled]
  /\ flagged = {} /\ calls = <<>>
  /\ stack = [t \in Thread |-> <<>>] /\ begun = [t \in Thread |-> 0]
  /\ answer = [t \in Thread |-> <<>>]

-----------------------------------------------------------------------------
(* A node and its superclasses: what is in every set that has the node and *)
(* is closed under Super.                                                  *)
Closed(S) == \A m \in S : Super[m] \in S \cup {None}
Lineage == [n \in Node |->
              {p \in Node : \A S \in SUBSET Node : n \in S /\ Closed(S) => p \in S}]

(* What a recursion over the superclasses of n meets before one that is in *)
(* S, and which of them it gets to last.                                   *)
UpTo(n, S) == {m \in Lineage[n] : \A p \in Lineage[n] : m \in Lineage[p] => p \notin S}
Highest(S) == {m \in S : \A p \in S : m \in Lineage[p]}

(* search_for_method_in_list (): the first list of a node that has a       *)
(* method for s.                                                           *)
Having(ls, n, s) == {k \in DOMAIN ls[n] : s \in Methods[ls[n][k]]}
Least(K) == CHOOSE k \in K : \A j \in K : k <= j
FirstIn(ls, n, s) == ls[n][Least(Having(ls, n, s))]

(* search_for_method_in_hierarchy (): the nearest superclass with such a   *)
(* method; the list of the method for s.                                   *)
Having1(ls, n, s) == {m \in Lineage[n] : Having(ls, m, s) # {}}
Nearest(M) == CHOOSE m \in M : M \subseteq Lineage[m]
LookupIn(ls, n, s) ==
  IF Having1(ls, n, s) = {} THEN None
  ELSE FirstIn(ls, Nearest(Having1(ls, n, s)), s)

Lookup(n, s) == LookupIn(lists, n, s)

ClassOf(n) == CHOOSE c \in Class : n = c \/ n = Meta[c]

(* __objc_install_dispatch_table_for_class (): the classes that get a      *)
(* table, n and its superclasses up to one that has a table.               *)
Installed == {n \in Node : dtable[n] # Uninstalled}
Install(n) == {n} \cup UpTo(n, Installed \ {n})

(* The methods that it puts into the table of n, by their lists.           *)
Puts(n) == {put \in (DOMAIN lists[n]) \X Sel : put[2] \in Methods[lists[n][put[1]]]}

Subclasses(n) == {m \in Node : Super[m] = n}

-----------------------------------------------------------------------------
(* A frame: what is done ("send", objc_msg_lookup (); "ask", get_imp ();   *)
(* "load", class_add_method_list ()), for which node and selector, where   *)
(* it is, the table it has read, the classes to be updated, the classes to *)
(* be installed, the class whose table is being filled and what is still   *)
(* to be put there, the classes to be sent +initialize, and (history) the  *)
(* methods that were right at some time since it began and whether another *)
(* thread had the mutex at some time.                                      *)
Busy(t) == \E u \in Thread \ {t} : count[u] > 0
Frame(t, what, n, s, right) ==
  [what |-> what, n |-> n, s |-> s, pc |-> "table", table |-> 0,
   update |-> {}, install |-> {}, filling |-> n, puts |-> {}, inits |-> {},
   right |-> right, raced |-> Busy(t)]
Message(t, n, s) == Frame(t, "send", n, s, {Lookup(n, s)})

Depth(t) == Len(stack[t])
Top(t) == stack[t][Depth(t)]
At(t, pc) == stack[t] # <<>> /\ Top(t).pc = pc
Changed(t, f) == [stack[t] EXCEPT ![Depth(t)] = f]
SetTop(t, f) == stack' = [stack EXCEPT ![t] = Changed(t, f)]
Goto(t, pc) == SetTop(t, [Top(t) EXCEPT !.pc = pc])
Without(t) == SubSeq(stack[t], 1, Depth(t) - 1)

(* The frame is done: the method in list l is called, or with None the     *)
(* message is forwarded.                                                   *)
Answer(t, l) ==
  /\ stack' = [stack EXCEPT ![t] = Without(t)]
  /\ answer' = [answer EXCEPT ![t] =
                  [n |-> Top(t).n, s |-> Top(t).s, found |-> l, right |-> Top(t).right,
                   raced |-> Top(t).raced]]

Begin(t) == stack[t] = <<>> /\ begun[t] < MaxSends /\ begun' = [begun EXCEPT ![t] = @ + 1]

Send(t, n, s) ==
  /\ Begin(t)
  /\ stack' = [stack EXCEPT ![t] = <<Message(t, n, s)>>]
  /\ UNCHANGED <<count, lists, tables, dtable, flagged, calls, answer>>

Ask(t, n, s) ==
  /\ Begin(t) /\ n \in Asks
  /\ stack' = [stack EXCEPT ![t] = <<Frame(t, "ask", n, s, {Lookup(n, s)})>>]
  /\ UNCHANGED <<count, lists, tables, dtable, flagged, calls, answer>>

(* class->dtable and the entry of the table are two reads.                 *)
ReadTable(t) ==
  /\ At(t, "table")
  /\ SetTop(t, [Top(t) EXCEPT !.table = dtable[Top(t).n], !.pc = "entry"])
  /\ UNCHANGED <<count, lists, tables, dtable, flagged, calls, begun, answer>>

ReadEntry(t) ==
  /\ At(t, "entry")
  /\ LET l == IF Top(t).table = Uninstalled THEN None
              ELSE tables[Top(t).table][Top(t).s]
     IN  IF l # None THEN Answer(t, l) ELSE Goto(t, "test") /\ UNCHANGED answer
  /\ UNCHANGED <<count, lists, tables, dtable, flagged, calls, begun>>

(* No method: because there is no table yet?  objc_msg_lookup () asks      *)
(* again in __objc_init_install_dtable (), before the lock.                *)
Test(t) ==
  /\ At(t, "test")
  /\ IF dtable[Top(t).n] # Uninstalled THEN Answer(t, None)
     ELSE /\ Goto(t, IF Top(t).what = "send" THEN "retest" ELSE "lock")
          /\ UNCHANGED answer
  /\ UNCHANGED <<count, lists, tables, dtable, flagged, calls, begun>>

AskAgain(t) == SetTop(t, [Top(t) EXCEPT !.what = "ask", !.pc = "table"])

Retest(t) ==
  /\ At(t, "retest")
  /\ IF dtable[Top(t).n] # Uninstalled THEN AskAgain(t) ELSE Goto(t, "lock")
  /\ UNCHANGED <<count, lists, tables, dtable, flagged, calls, begun, answer>>

LockAndInstall(t) ==
  /\ At(t, "lock")
  /\ Mutex!Acquire(t)
  /\ stack' = [u \in Thread |->
       IF u = t THEN Changed(t, [Top(t) EXCEPT !.install = Install(Top(t).n), !.pc = "steps"])
       ELSE [i \in DOMAIN stack[u] |-> [stack[u][i] EXCEPT !.raced = TRUE]]]
  /\ UNCHANGED <<lists, tables, dtable, flagged, calls, begun, answer>>

(* A new table for the highest of the classes to be installed, a copy of   *)
(* the superclass's; all methods of the class are to be put there.         *)
MayInstall(t) == At(t, "steps") /\ Top(t).puts = {}
Filling(t, n) == SetTop(t, [Top(t) EXCEPT !.install = @ \ {n}, !.filling = n, !.puts = Puts(n)])

EmptyTable(t) ==  \* mutant: the table does not begin with the superclass's
  /\ MayInstall(t)
  /\ \E n \in Highest(Top(t).install) :
       /\ tables' = Append(tables, Empty)
       /\ dtable' = [dtable EXCEPT ![n] = Len(tables) + 1]
       /\ Filling(t, n)
  /\ UNCHANGED <<count, lists, flagged, calls, begun, answer>>

NewTable(t) ==
  /\ MayInstall(t)
  /\ \E n \in Highest(Top(t).install) :
       /\ tables' = Append(tables, IF Super[n] = None THEN Empty ELSE tables[dtable[Super[n]]])
       /\ dtable' = [dtable EXCEPT ![n] = Len(tables) + 1]
       /\ Filling(t, n)
  /\ UNCHANGED <<count, lists, flagged, calls, begun, answer>>

(* __objc_install_methods_in_dtable (): from the oldest list to the        *)
(* newest, which is the first.                                             *)
PutMethod(t) ==
  /\ At(t, "steps")
  /\ \E put \in Top(t).puts :
       /\ \A other \in Top(t).puts : other[1] <= put[1]
       /\ LET n == Top(t).filling
          IN  tables' = [tables EXCEPT ![dtable[n]][put[2]] = lists[n][put[1]]]
       /\ SetTop(t, [Top(t) EXCEPT !.puts = @ \ {put}])
  /\ UNCHANGED <<count, lists, dtable, flagged, calls, begun, answer>>

(* __objc_update_dispatch_table_for_class (): a class that has a table     *)
(* gets a new one, and then each of its subclasses; the subclasses of one  *)
(* class before the next class beside it.                                  *)
UpdateOf(t, n, subclasses) ==
  IF dtable[n] = Uninstalled
  THEN /\ SetTop(t, [Top(t) EXCEPT !.update = @ \ {n}]) /\ UNCHANGED dtable
  ELSE /\ dtable' = [dtable EXCEPT ![n] = Uninstalled]
       /\ SetTop(t, [Top(t) EXCEPT !.update = (@ \ {n}) \cup subclasses, !.install = Install(n)'])

OnlyTheClass(t) ==  \* mutant: the tables of the subclasses are left alone
  /\ MayInstall(t) /\ Top(t).install = {}
  /\ \E n \in Top(t).update : UpdateOf(t, n, {})
  /\ UNCHANGED <<count, lists, tables, flagged, calls, begun, answer>>

Update(t) ==
  /\ MayInstall(t) /\ Top(t).install = {}
  /\ \E n \in Top(t).update :
       /\ \A m \in Top(t).update : Cardinality(Lineage[m]) <= Cardinality(Lineage[n])
       /\ UpdateOf(t, n, Subclasses(n))
  /\ UNCHANGED <<count, lists, tables, flagged, calls, begun, answer>>

(* The tables are made.  A message goes on with __objc_send_initialize (), *)
(* which flags the class and its superclasses, up to one that is flagged,  *)
(* before it calls the method of the first of them; but the message        *)
(* +initialize itself only flags the class.                                *)
Made(t, what) ==
  /\ MayInstall(t) /\ Top(t).what = what /\ Top(t).install = {} /\ Top(t).update = {}

Initialize(t) ==
  /\ Made(t, "send")
  /\ LET c == ClassOf(Top(t).n)
         inits == IF Top(t).n \notin Class /\ Top(t).s = "initialize" THEN {}
                  ELSE UpTo(c, flagged)
     IN  /\ flagged' = flagged \cup {c} \cup inits
         /\ SetTop(t, [Top(t) EXCEPT !.inits = inits, !.pc = "inits"])
  /\ UNCHANGED <<count, lists, tables, dtable, calls, begun, answer>>

(* __objc_send_initialize () looks for the method itself, in the metaclass *)
(* of the class and of its superclasses.                                   *)
Initializers(c) == {m \in Lineage[c] : Having(lists, Meta[m], "initialize") # {}}
InitializeMethod(c) ==
  IF Initializers(c) = {} THEN None
  ELSE FirstIn(lists, Meta[Nearest(Initializers(c))], "initialize")

SendInitialize(t, c) ==
  calls' = IF InitializeMethod(c) = None THEN calls
           ELSE Append(calls, <<c, InitializeMethod(c), Depth(t) > 1>>)
Sent(t, c) == [Top(t) EXCEPT !.inits = @ \ {c}]

SubclassFirst(t) ==  \* mutant: the subclass is sent +initialize first
  /\ At(t, "inits")
  /\ \E c \in Top(t).inits :
       /\ Top(t).inits \subseteq Lineage[c]
       /\ SendInitialize(t, c) /\ SetTop(t, Sent(t, c))
  /\ UNCHANGED <<count, lists, tables, dtable, flagged, begun, answer>>

CallInitialize(t) ==
  /\ At(t, "inits")
  /\ \E c \in Highest(Top(t).inits) : SendInitialize(t, c) /\ SetTop(t, Sent(t, c))
  /\ UNCHANGED <<count, lists, tables, dtable, flagged, begun, answer>>

(* The method may send a message itself.                                   *)
CallAndSend(t, n, s) ==
  /\ At(t, "inits") /\ Depth(t) <= MaxNest
  /\ \E c \in Highest(Top(t).inits) :
       /\ InitializeMethod(c) # None
       /\ SendInitialize(t, c)
       /\ stack' = [stack EXCEPT ![t] = Append(Changed(t, Sent(t, c)), Message(t, n, s))]
  /\ UNCHANGED <<count, lists, tables, dtable, flagged, begun, answer>>

(* Unlock, and then get_imp () of the real method.                         *)
Unlock(t) ==
  /\ Made(t, "ask") \/ (At(t, "inits") /\ Top(t).inits = {})
  /\ Mutex!Release(t)
  /\ AskAgain(t)
  /\ UNCHANGED <<lists, tables, dtable, flagged, calls, begun, answer>>

(* __objc_exec_class () has the mutex all the time it loads a module; the  *)
(* list is added before the tables are made again.                         *)
Loading(t, n) == [Frame(t, "load", n, "", {}) EXCEPT !.pc = "steps", !.update = {n}]
Load(t, k) ==
  /\ stack[t] = <<>> /\ \A n \in Node : k \notin {lists[n][i] : i \in DOMAIN lists[n]}
  /\ Mutex!Acquire(t)
  /\ UNCHANGED <<tables, dtable, flagged, calls, begun, answer>>
  /\ lists' = [lists EXCEPT ![Extended[k]] = <<k>> \o @]
  /\ stack' = [u \in Thread |->
       IF u = t THEN <<Loading(t, Extended[k])>>
       ELSE [i \in DOMAIN stack[u] |->
               [stack[u][i] EXCEPT !.raced = TRUE,
                  !.right = @ \cup {LookupIn(lists', stack[u][i].n, stack[u][i].s)}]]]

StillLocked(t) ==  \* mutant: a module that is loaded keeps the mutex
  /\ Made(t, "load")
  /\ stack' = [stack EXCEPT ![t] = Without(t)]
  /\ UNCHANGED <<count, lists, tables, dtable, flagged, calls, begun, answer>>

Loaded(t) ==
  /\ Made(t, "load")
  /\ Mutex!Release(t)
  /\ stack' = [stack EXCEPT ![t] = Without(t)]
  /\ UNCHANGED <<lists, tables, dtable, flagged, calls, begun, answer>>

InMessage(t) ==
  \/ ReadTable(t) \/ ReadEntry(t) \/ Test(t) \/ Retest(t) \/ LockAndInstall(t)
  \/ NewTable(t) \/ PutMethod(t) \/ Update(t)
  \/ Initialize(t) \/ Unlock(t) \/ Loaded(t) \/ CallInitialize(t)
  \/ \E n \in Node, s \in Sends : CallAndSend(t, n, s)

Next ==
  \E t \in Thread :
    \/ InMessage(t)
    \/ \E n \in Node, s \in Sends : Send(t, n, s) \/ Ask(t, n, s)
    \/ \E k \in Category : Load(t, k)

(* The system runs every thread.  There are only so many messages, so that *)
(* nobody can keep the others from the mutex for ever.                     *)
Spec == Init /\ [][Next]_vars /\ \A t \in Thread : WF_vars(InMessage(t))

-----------------------------------------------------------------------------
(* The variables have their types; a thread that has the mutex has it once *)
(* for each frame that took it.                                            *)
TypeOK ==
  /\ count \in [Thread -> 0..(MaxNest + 2)]
  /\ lists \in [Node -> Seq(List)]
  /\ \A i \in DOMAIN tables : tables[i] \in [Sel -> List \cup {None}]
  /\ dtable \in [Node -> 0..Len(tables)]
  /\ flagged \subseteq Class
  /\ \A t \in Thread :
       count[t] = Cardinality({i \in DOMAIN stack[t] : stack[t][i].pc \in {"steps", "inits"}})

(* "Given a selector, return ...": the method found for a message is one   *)
(* that the class had while the message was being sent, and a message is   *)
(* forwarded only if there was none.                                       *)
RightMethod ==
  \A t \in Thread : answer[t] # <<>> => answer[t].found \in answer[t].right

(* So it is if no other thread had the mutex meanwhile, to install a table *)
(* or load a category.                                                     *)
RightUnlessRaced ==
  \A t \in Thread :
    answer[t] # <<>> /\ ~answer[t].raced => answer[t].found \in answer[t].right

(* When nobody has the mutex, every table that is installed says what      *)
(* search_for_method_in_hierarchy () would find: for subclasses too, and   *)
(* after every category, in whatever order tables were made.               *)
TablesRight ==
  (\A t \in Thread : count[t] = 0) =>
    \A n \in Node : dtable[n] # Uninstalled =>
      \A s \in Sel : tables[dtable[n]][s] = Lookup(n, s)

(* "Send +initialize to class if not already done" (sendmsg.c:264): no     *)
(* class is sent it twice, by whatever threads.                            *)
OncePerClass ==
  \A i, j \in DOMAIN calls : i # j => calls[i][1] # calls[j][1]

(* A class is sent +initialize after its superclass.  But a message that   *)
(* is sent from within +initialize finds the superclass flagged that is to *)
(* be sent +initialize after it.                                           *)
SupersFirst ==
  \A i \in DOMAIN calls :
    LET super == Super[calls[i][1]]
    IN  super # None /\ InitializeMethod(super) # None
          => \E j \in 1..(i - 1) :
               calls[j][1] = super \/ (calls[i][3] /\ calls[j][1] \in Lineage[super])

(* So +initialize is sent, by threads that keep the mutex while they send  *)
(* it.                                                                     *)
InitializeRight == TypeOK /\ OncePerClass /\ SupersFirst

(* Every message is delivered, though installing a table may send messages *)
(* and wait for a thread that installs one.                                *)
Delivered ==
  \A t \in Thread : (stack[t] # <<>>) ~> (stack[t] = <<>>)

(* "This method, if defined, is called before any other instance or class  *)
(* methods of that particular class" (README:45).                          *)
InitializeCalledFirst ==
  \A t \in Thread :
    answer[t] # <<>> /\ answer[t].found # None
      => LET c == ClassOf(answer[t].n)
         IN  InitializeMethod(c) # None => \E i \in DOMAIN calls : calls[i][1] = c

(* "This method is not inherited, and is thus not called as initializer    *)
(* for a subclass that doesn't define it itself.  Thus, each +initialize   *)
(* method is called exactly once" (README:46).                             *)
OncePerMethod ==
  \A i, j \in DOMAIN calls : i # j => calls[i][2] # calls[j][2]
=============================================================================
