----------------------------- MODULE DriverProofs -----------------------------
(***************************************************************************)
(* What TLAPS proves of Driver, for any number of input files and signals: *)
(* whenever the driver is interrupted, and as often as it is, the names in *)
(* the two queues are enough to find what has to be deleted.               *)
(*                                                                         *)
(* todo is a list of what is still to be done, so the invariant speaks of  *)
(* its places: what comes before a program is started, what follows it,    *)
(* and what the list ends with, which says where in main () the driver is. *)
(***************************************************************************)
EXTENDS Driver, SequenceTheorems, TLAPS

(* Signals go to the driver and the programs alike, and no program dies by *)
(* a signal of its own: execute () would call fatal () while another       *)
(* program of a pipe runs on.                                              *)
Together == "driver" \notin Receivers /\ "signal" \notin Ends

Queues == {"always", "failure"}
Steps ==
  [do : {"search", "push"}, name : Names, in : Queues]
  \cup [do : {"spawn"}, prog : Prog, out : SUBSET Names]
  \cup [do : {"unlink"}, name : Names]
  \cup [do : {"wait", "clear", "finish", "delete_always", "forget", "exit", "die"}]

States == {"none", "running", "exit0", "exit1", "reaped0", "reaped1"}

(* The types of the variables: todo is never empty, not even at the end.   *)
TypeOK ==
  /\ pipe \in BOOLEAN /\ link \in BOOLEAN
  /\ todo \in Seq(Steps) /\ todo # <<>>
  /\ always \in Seq(Names) /\ failure \in Seq(Names)
  /\ file \in 1..(NFiles + 1)
  /\ child \in [Prog -> [st : States, out : SUBSET Names]]
  /\ disk \in [Names -> {"absent", "part", "whole"}]
  /\ good \subseteq Files /\ errors \in BOOLEAN
  /\ signals \in Nat
  /\ ended \in {"no", "success", "failure", "signal"}

-----------------------------------------------------------------------------
(* The last thing to do: clear_failure_queue () for the input file that is *)
(* being compiled; the end of main (); exit () or the end of the handler.  *)
Final == todo[Len(todo)].do
Ways == {"clear", "finish", "exit", "die"}
Before ==
  CASE Final = "clear" -> {"search", "push", "spawn", "wait", "unlink"}
    [] Final = "finish" -> {"spawn", "wait"}
    [] Final = "exit" -> {"unlink", "delete_always", "forget"}
    [] Final = "die" -> {"unlink", "forget"}

(* What may come before the last thing, and where in main () that is;      *)
(* exit () and the end of the handler follow the deletion of the           *)
(* temporary files.                                                        *)
EndsRight ==
  /\ Final \in Ways
  /\ \A k \in 1..(Len(todo) - 1) : todo[k].do \in Before
  /\ Final = "clear" => file \in Files
  /\ Final = "finish" => file = NFiles + 1
  /\ Final = "exit" => errors \/ file = NFiles + 1
  /\ Final \in {"exit", "die"} =>
       IF Len(todo) = 1 THEN always = <<>>
       ELSE todo[Len(todo) - 1].do \in {"forget", "delete_always"}
  /\ ended # "no" => Len(todo) = 1 /\ Final \in {"exit", "die"}
  /\ ended = "success" => ~errors /\ Final = "exit"

(* What goes into a queue, and how.                                        *)
MayQueue(q) ==
  IF q = "always" THEN {Temp} \cup (IF link THEN {Object(file)} ELSE {})
  ELSE {Object(file)}

(* A name is searched for and then pushed, never pushed twice; only names  *)
(* of the input file at hand are.                                          *)
NamesMayBeQueued ==
  \A k \in 1..Len(todo) : todo[k].do \in {"search", "push"} => todo[k].name \in MayQueue(todo[k].in)
SearchBeforePush ==
  \A k \in 1..Len(todo) : todo[k].do = "search" =>
    k < Len(todo) /\ todo[k + 1] = [do |-> "push", name |-> todo[k].name, in |-> todo[k].in]
PushAfterSearch == \A k \in 2..Len(todo) : todo[k].do = "push" => todo[k - 1].do = "search"
PushNew == todo[1].do = "push" => todo[1].name \notin Range(Queue(todo[1].in))
RecordsRight == NamesMayBeQueued /\ SearchBeforePush /\ PushAfterSearch /\ PushNew

(* A temporary file: an object is one if it is only for the linker.        *)
IsTemp(n) == n = Temp \/ link

(* What is in the queues: names that differ, of temporary files in one     *)
(* and of the object at hand in the other.                                 *)
QueueInv ==
  /\ IsInjective(always) /\ IsInjective(failure)
  /\ \A n \in Range(always) : IsTemp(n)
  /\ \A n \in Range(failure) : n = Object(file)
  /\ file \notin Files => failure = <<>>

(* The name is in the queue when the step at k is taken.                   *)
QueuedAt(k, n, q) ==
  \/ n \in Range(Queue(q))
  \/ \E j \in 1..(k - 1) : todo[j].do = "push" /\ todo[j].name = n /\ todo[j].in = q

(* A program that is started at k writes to files whose names are in the   *)
(* queues by then.                                                         *)
OutRight(k, n) ==
  /\ n \in {Temp, Object(file)}
  /\ IsTemp(n) => QueuedAt(k, n, "always")
  /\ n # Temp => QueuedAt(k, n, "failure")

(* The assembler is the last program for an input file.                    *)
SpawnsRight ==
  /\ \A k \in 1..Len(todo) : todo[k].do = "spawn" =>
       /\ k < Len(todo)
       /\ todo[k].out # {} => Final = "clear" /\ todo[k + 1].do = "wait"
       /\ \A n \in todo[k].out : OutRight(k, n)
       /\ Object(file) \in todo[k].out => k = Len(todo) - 2

Compiling == Final = "clear" /\ Len(todo) > 1 /\ todo[Len(todo) - 1].do = "wait"
StillCompiled == Compiling =>
  /\ \A k \in 1..Len(todo) : todo[k].do # "unlink"
  /\ file \notin good
  /\ IF Len(todo) = 2 THEN child["as"].out = {Object(file)} /\ child["as"].st # "none"
     ELSE todo[Len(todo) - 2] = [do |-> "spawn", prog |-> "as", out |-> {Object(file)}]
Compiled == Final = "clear" /\ ~Compiling =>
  /\ \A k \in 1..(Len(todo) - 1) : todo[k].do = "unlink"
  /\ IF file \in good THEN Len(todo) = 1 /\ disk[Object(file)] = "whole" ELSE errors
CompileRight == StillCompiled /\ Compiled

(* Programs make files only while the driver waits for them, and each its  *)
(* own.                                                                    *)
AllReaped ==
  Final \in {"clear", "finish"} /\ todo[1].do # "wait" => \A p \in Prog : child[p].out = {}
AllEnded ==
  Final \in {"exit", "die"} => \A p \in Prog : child[p].st = "running" => child[p].out = {}
OutsApart == \A p, q \in Prog : p # q => child[p].out = {} \/ child[q].out = {}
WaitsFor(p) ==
  /\ child[p].out # {} => Final = "clear"
  /\ \A n \in child[p].out : OutRight(1, n)
  /\ Object(file) \in child[p].out => Len(todo) = 2
  /\ child[p].st \in {"exit0", "reaped0"} => \A n \in child[p].out : disk[n] = "whole"
ProgramsRight ==
  AllReaped /\ AllEnded /\ OutsApart /\ (todo[1].do = "wait" => \A p \in Prog : WaitsFor(p))

(* Every temporary file has a name in always_delete_queue, until all of    *)
(* them are deleted.                                                       *)
UnlinkedBy(k, n) == \E j \in 1..(k - 1) : todo[j].do = "unlink" /\ todo[j].name = n
TempsQueued == \A n \in Names : IsTemp(n) /\ disk[n] # "absent" => n \in Range(always)
ForgetsDeleted == \A k \in 1..Len(todo) : todo[k].do = "forget" =>
  \A n \in Range(always) : disk[n] = "absent" \/ UnlinkedBy(k, n)
UnlinksOwn == \A k \in 1..Len(todo) : todo[k].do = "unlink" =>
  IsTemp(todo[k].name) \/ todo[k].name = Object(file)
TempsRight == TempsQueued /\ ForgetsDeleted /\ UnlinksOwn

(* The objects: those of earlier input files are settled, and that of this *)
(* one is, or will be found in failure_delete_queue.                       *)
Settled(f) == disk[Object(f)] = "whole" /\ f \in good /\ f <= file
ObjectsSettled == \A f \in Files : disk[Object(f)] # "absent" =>
  \/ Settled(f)
  \/ /\ f = file /\ Object(f) \in Range(failure)
     /\ (Compiling /\ Len(todo) = 2) \/ UnlinkedBy(Len(todo), Object(f))
ObjectsRight ==
  /\ ObjectsSettled
  /\ \A f \in good : f <= file
  /\ ~link => \A f \in good : f < file => disk[Object(f)] = "whole"
  /\ ~errors => \A f \in Files : f < file => f \in good

Inv == EndsRight /\ RecordsRight /\ QueueInv /\ SpawnsRight /\ CompileRight /\ ProgramsRight
         /\ TempsRight /\ ObjectsRight
IInv == TypeOK /\ Inv

-----------------------------------------------------------------------------
(* Names and lists.                                                        *)
LEMMA NamesApart ==
  /\ Temp \in Names
  /\ \A f \in Files : Object(f) \in Names
  /\ \A f : Object(f) # Temp
  /\ \A f, g : Object(f) = Object(g) => f = g
  /\ \A n \in Names : n # Temp => \E f \in Files : n = Object(f)
  BY DEF Names, Object, Temp

(* With a link, objects are temporary files.                               *)
LEMMA ObjectIsTemp == \A f : IsTemp(Object(f)) <=> link
  BY NamesApart DEF IsTemp

(* What the parts of a step are.                                           *)
LEMMA StepFields ==
  ASSUME NEW s \in Steps
  PROVE  /\ s.do \in {"search", "push"} =>
              s.name \in Names /\ s.in \in Queues /\ s = [do |-> s.do, name |-> s.name, in |-> s.in]
         /\ s.do = "spawn" => s.prog \in Prog /\ s.out \in SUBSET Names
         /\ s.do = "unlink" => s.name \in Names
  BY DEF Steps

(* A list without its first element.                                       *)
LEMMA TailIs ==
  ASSUME NEW S, NEW s \in Seq(S), s # <<>>
  PROVE  /\ Len(s) \in Nat /\ Len(s) >= 1 /\ Head(s) = s[1] /\ s[1] \in S
         /\ Tail(s) \in Seq(S) /\ Len(Tail(s)) = Len(s) - 1
         /\ \A k \in 1..(Len(s) - 1) : Tail(s)[k] = s[k + 1]
<1>1. Len(s) \in Nat /\ Len(s) >= 1
  BY EmptySeq, LenProperties
<1>2. Tail(s) \in Seq(S) /\ Len(Tail(s)) = Len(s) - 1
      /\ \A k \in 1..(Len(s) - 1) : Tail(s)[k] = s[k + 1]
  BY <1>1, HeadTailProperties
<1>3. Head(s) = s[1] /\ s[1] \in S
  BY <1>1, HeadTailProperties, ElementOfSeq
<1> QED  BY <1>1, <1>2, <1>3

(* The elements of a list.                                                 *)
LEMMA RangeOf ==
  ASSUME NEW q, NEW S, q \in Seq(S)
  PROVE  /\ Len(q) \in Nat
         /\ \A n : n \in Range(q) <=> \E k \in 1..Len(q) : q[k] = n
  BY LenProperties DEF Range

(* A new name at the head of a queue.                                      *)
LEMMA Pushed ==
  ASSUME NEW q \in Seq(Names), NEW n \in Names
  PROVE  /\ <<n>> \o q \in Seq(Names)
         /\ Range(<<n>> \o q) = {n} \cup Range(q)
         /\ n \notin Range(q) /\ IsInjective(q) => IsInjective(<<n>> \o q)
<1> DEFINE r == <<n>> \o q
<1>1. <<n>> \in Seq(Names) /\ Len(<<n>>) = 1 /\ <<n>>[1] = n
  OBVIOUS
<1>2. /\ r \in Seq(Names) /\ Len(q) \in Nat /\ Len(r) = Len(q) + 1 /\ r[1] = n
      /\ \A k \in 2..Len(r) : r[k] = q[k - 1]
      /\ \A k \in 1..Len(q) : q[k] = r[k + 1]
  <2>1. Len(q) \in Nat
    BY LenProperties
  <2>2. /\ r \in Seq(Names) /\ Len(r) = 1 + Len(q)
        /\ \A k \in 1..(1 + Len(q)) : r[k] = IF k <= 1 THEN <<n>>[k] ELSE q[k - 1]
    BY ONLY <1>1, ConcatProperties, Zenon
  <2> QED  BY <1>1, <2>1, <2>2
<1> HIDE DEF r
<1>3. ASSUME NEW m
      PROVE  m \in Range(r) <=> m = n \/ m \in Range(q)
  <2>1. /\ m \in Range(r) <=> \E k \in 1..Len(r) : r[k] = m
        /\ m \in Range(q) <=> \E k \in 1..Len(q) : q[k] = m
    BY <1>2, RangeOf
  <2>2. (\E k \in 1..Len(r) : r[k] = m) => m = n \/ \E k \in 1..Len(q) : q[k] = m
    BY <1>2
  <2>3. (m = n \/ \E k \in 1..Len(q) : q[k] = m) => \E k \in 1..Len(r) : r[k] = m
    BY <1>2
  <2> QED  BY <2>1, <2>2, <2>3
<1>4. ASSUME n \notin Range(q), IsInjective(q)
      PROVE  IsInjective(r)
  <2>1. DOMAIN r = 1..Len(r) /\ DOMAIN q = 1..Len(q)
    BY <1>2, LenProperties
  <2>2. \A k \in 1..Len(q) : q[k] # n
    BY <1>4, RangeOf
  <2>3. \A j, k \in 1..Len(q) : q[j] = q[k] => j = k
    BY <1>4, <2>1 DEF IsInjective
  <2>4. ASSUME NEW j \in 1..Len(r), NEW k \in 1..Len(r), r[j] = r[k]
        PROVE  j = k
    <3>1. CASE j = 1 \/ k = 1
      BY <1>2, <2>2, <2>4, <3>1
    <3>2. CASE j # 1 /\ k # 1
      <4>1. r[j] = q[j - 1] /\ r[k] = q[k - 1] /\ j - 1 \in 1..Len(q) /\ k - 1 \in 1..Len(q)
        BY <1>2, <3>2
      <4>2. j - 1 = k - 1
        BY <2>3, <2>4, <4>1
      <4> QED  BY <4>2
    <3> QED  BY <3>1, <3>2
  <2> QED  BY <2>1, <2>4 DEF IsInjective
<1> QED  BY <1>2, <1>3, <1>4 DEF r

(* Delete (q) takes the names in q, and nothing else.                      *)
LEMMA DeleteIs ==
  ASSUME NEW q \in Seq(Names)
  PROVE  /\ Delete(q) \in Seq(Steps)
         /\ Len(Delete(q)) = Len(q) /\ Len(q) \in Nat
         /\ \A k \in 1..Len(q) : Delete(q)[k] = [do |-> "unlink", name |-> q[k]] /\ q[k] \in Names
         /\ \A n \in Range(q) : \E k \in 1..Len(q) : Delete(q)[k] = [do |-> "unlink", name |-> n]
<1>1. Len(q) \in Nat /\ DOMAIN q = 1..Len(q) /\ \A k \in 1..Len(q) : q[k] \in Names
  BY LenProperties, ElementOfSeq
<1>2. Delete(q) = [k \in 1..Len(q) |-> [do |-> "unlink", name |-> q[k]]]
  BY <1>1 DEF Delete
<1>3. \A k \in 1..Len(q) : [do |-> "unlink", name |-> q[k]] \in Steps
  BY <1>1 DEF Steps
<1>4. Delete(q) \in Seq(Steps) /\ Len(Delete(q)) = Len(q)
  BY <1>1, <1>2, <1>3
<1> QED  BY <1>1, <1>2, <1>4, RangeOf

-----------------------------------------------------------------------------
(* What the steps of one input file are, of the four lists that they can   *)
(* be.                                                                     *)
Pushes(s, k, n, q) == \E j \in 1..(k - 1) : s[j].do = "push" /\ s[j].name = n /\ s[j].in = q
RecipeRecords(s, f) ==
  /\ \A k \in 1..Len(s) : s[k].do \in {"search", "push"} =>
       /\ s[k].in \in Queues
       /\ s[k].name \in IF s[k].in = "always" THEN {Temp} \cup (IF link THEN {Object(f)} ELSE {})
                        ELSE {Object(f)}
  /\ \A k \in 1..Len(s) : s[k].do = "search" =>
       k < Len(s) /\ s[k + 1] = [do |-> "push", name |-> s[k].name, in |-> s[k].in]
  /\ \A k \in 2..Len(s) : s[k].do = "push" => s[k - 1].do = "search"
RecipeSpawns(s, f) ==
  \A k \in 1..Len(s) : s[k].do = "spawn" =>
    /\ k < Len(s) /\ (s[k].out # {} => s[k + 1].do = "wait")
    /\ s[k].out \in {{}, {Temp}, {Object(f)}}
    /\ Temp \in s[k].out => Pushes(s, k, Temp, "always")
    /\ Object(f) \in s[k].out =>
         /\ k = Len(s) - 2 /\ Pushes(s, k, Object(f), "failure")
         /\ link => Pushes(s, k, Object(f), "always")
RecipeEnds(s, f) ==
  /\ Len(s) > 2 /\ s[1].do = "search"
  /\ s[Len(s)].do = "clear" /\ s[Len(s) - 1].do = "wait"
  /\ s[Len(s) - 2] = [do |-> "spawn", prog |-> "as", out |-> {Object(f)}]
  /\ \A k \in 1..(Len(s) - 1) : s[k].do \in {"search", "push", "spawn", "wait"}
Recipe(s, f) ==
  s \in Seq(Steps) /\ RecipeEnds(s, f) /\ RecipeRecords(s, f) /\ RecipeSpawns(s, f)

ToSearch(n, q) == [do |-> "search", name |-> n, in |-> q]
ToPush(n, q) == [do |-> "push", name |-> n, in |-> q]
ToSpawn(p, out) == [do |-> "spawn", prog |-> p, out |-> out]
ToWait == [do |-> "wait"]
ToClear == [do |-> "clear"]

(* Two lists of the same kind make one.                                    *)
LEMMA Joined ==
  ASSUME NEW S, NEW s \in Seq(S), NEW t \in Seq(S)
  PROVE  s \o t \in Seq(S)
  BY ConcatProperties, Zenon

(* Compile (f) is a list of steps.                                         *)
LEMMA CompileType ==
  ASSUME NEW f \in Files
  PROVE  Compile(f) \in Seq(Steps)
<1>1. ASSUME NEW n \in Names, NEW q \in Queues
      PROVE  Record(n, q) \in Seq(Steps)
  <2>1. ToSearch(n, q) \in Steps /\ ToPush(n, q) \in Steps
    BY DEF ToSearch, ToPush, Steps
  <2>2. Record(n, q) = <<ToSearch(n, q), ToPush(n, q)>>
    BY DEF Record, ToSearch, ToPush
  <2> QED  BY <2>1, <2>2
<1>2. RecordObject(f) \in Seq(Steps)
  <2>1. Record(Object(f), "always") \in Seq(Steps) /\ Record(Object(f), "failure") \in Seq(Steps)
    BY <1>1, NamesApart DEF Queues
  <2>2. (IF link THEN Record(Object(f), "always") ELSE <<>>) \in Seq(Steps)
    BY <2>1
  <2> QED  BY <2>1, <2>2, Joined DEF RecordObject
<1>3. Record(Temp, "always") \in Seq(Steps)
  BY <1>1, NamesApart DEF Queues
<1>4. /\ Spawn("cc", {}) \in Seq(Steps) /\ Spawn("cc", {Temp}) \in Seq(Steps)
      /\ Spawn("as", {Object(f)}) \in Seq(Steps) /\ Wait \in Seq(Steps)
      /\ <<[do |-> "clear"]>> \in Seq(Steps)
  <2>1. /\ ToSpawn("cc", {}) \in Steps /\ ToSpawn("cc", {Temp}) \in Steps
        /\ ToSpawn("as", {Object(f)}) \in Steps /\ ToWait \in Steps /\ ToClear \in Steps
    BY NamesApart DEF ToSpawn, ToWait, ToClear, Steps, Prog
  <2>2. \A e \in Steps : <<e>> \in Seq(Steps)
    OBVIOUS
  <2>3. /\ Spawn("cc", {}) = <<ToSpawn("cc", {})>> /\ Spawn("cc", {Temp}) = <<ToSpawn("cc", {Temp})>>
        /\ Spawn("as", {Object(f)}) = <<ToSpawn("as", {Object(f)})>>
        /\ Wait = <<ToWait>> /\ <<[do |-> "clear"]>> = <<ToClear>>
    BY DEF Spawn, Wait, ToSpawn, ToWait, ToClear
  <2> QED  BY <2>1, <2>2, <2>3
<1>5. CASE pipe
  <2>1. Compile(f) = ((RecordObject(f) \o Spawn("cc", {}) \o Spawn("as", {Object(f)}) \o Wait)
                      \o <<[do |-> "clear"]>>)
    BY <1>5 DEF Compile
  <2>2. RecordObject(f) \o Spawn("cc", {}) \in Seq(Steps)
    BY <1>2, <1>4, Joined
  <2>3. RecordObject(f) \o Spawn("cc", {}) \o Spawn("as", {Object(f)}) \in Seq(Steps)
    BY <1>4, <2>2, Joined
  <2>4. RecordObject(f) \o Spawn("cc", {}) \o Spawn("as", {Object(f)}) \o Wait \in Seq(Steps)
    BY <1>4, <2>3, Joined
  <2> QED  BY <1>4, <2>1, <2>4, Joined
<1>6. CASE ~pipe
  <2>1. Compile(f) = ((Record(Temp, "always") \o Spawn("cc", {Temp}) \o Wait \o Record(Temp, "always")
                       \o RecordObject(f) \o Spawn("as", {Object(f)}) \o Wait)
                      \o <<[do |-> "clear"]>>)
    BY <1>6 DEF Compile
  <2> QED  BY <2>1, <1>2, <1>3, <1>4, Joined
<1> QED  BY <1>5, <1>6

(* With and without -pipe and -c, Compile (f) records each name before     *)
(* the program that makes the file is started.                             *)
LEMMA CompileIs ==
  ASSUME NEW f \in Files
  PROVE  Recipe(Compile(f), f)
<1> DEFINE s == Compile(f)
<1>1. CASE ~pipe /\ link
  <2>1. /\ Len(s) = 13
        /\ s[1] = ToSearch(Temp, "always") /\ s[2] = ToPush(Temp, "always")
        /\ s[3] = ToSpawn("cc", {Temp}) /\ s[4] = ToWait
        /\ s[5] = ToSearch(Temp, "always") /\ s[6] = ToPush(Temp, "always")
        /\ s[7] = ToSearch(Object(f), "always") /\ s[8] = ToPush(Object(f), "always")
        /\ s[9] = ToSearch(Object(f), "failure") /\ s[10] = ToPush(Object(f), "failure")
        /\ s[11] = ToSpawn("as", {Object(f)}) /\ s[12] = ToWait
        /\ s[13] = ToClear
    BY <1>1 DEF Compile, RecordObject, Record, Spawn, Wait, ToSearch, ToPush, ToSpawn, ToWait, ToClear
  <2> HIDE DEF s
  <2>2. \A k \in 1..Len(s) : k \in {1, 2, 3, 4, 5, 6, 7, 8, 9, 10, 11, 12, 13}
    BY <2>1
  <2>3. RecipeEnds(s, f)
    BY <2>1, <2>2 DEF RecipeEnds, ToSearch, ToPush, ToSpawn, ToWait, ToClear
  <2>4. RecipeRecords(s, f)
    BY <1>1, <2>1, <2>2 DEF RecipeRecords, ToSearch, ToPush, ToSpawn, ToWait, ToClear, Queues
  <2>5. RecipeSpawns(s, f)
    BY <1>1, <2>1, <2>2, NamesApart
    DEF RecipeSpawns, Pushes, ToSearch, ToPush, ToSpawn, ToWait, ToClear
  <2> QED  BY <2>3, <2>4, <2>5, CompileType DEF Recipe, s
<1>2. CASE ~pipe /\ ~link
  <2>1. /\ Len(s) = 11
        /\ s[1] = ToSearch(Temp, "always") /\ s[2] = ToPush(Temp, "always")
        /\ s[3] = ToSpawn("cc", {Temp}) /\ s[4] = ToWait
        /\ s[5] = ToSearch(Temp, "always") /\ s[6] = ToPush(Temp, "always")
        /\ s[7] = ToSearch(Object(f), "failure") /\ s[8] = ToPush(Object(f), "failure")
        /\ s[9] = ToSpawn("as", {Object(f)}) /\ s[10] = ToWait
        /\ s[11] = ToClear
    BY <1>2 DEF Compile, RecordObject, Record, Spawn, Wait, ToSearch, ToPush, ToSpawn, ToWait, ToClear
  <2> HIDE DEF s
  <2>2. \A k \in 1..Len(s) : k \in {1, 2, 3, 4, 5, 6, 7, 8, 9, 10, 11}
    BY <2>1
  <2>3. RecipeEnds(s, f)
    BY <2>1, <2>2 DEF RecipeEnds, ToSearch, ToPush, ToSpawn, ToWait, ToClear
  <2>4. RecipeRecords(s, f)
    BY <1>2, <2>1, <2>2 DEF RecipeRecords, ToSearch, ToPush, ToSpawn, ToWait, ToClear, Queues
  <2>5. RecipeSpawns(s, f)
    BY <1>2, <2>1, <2>2, NamesApart
    DEF RecipeSpawns, Pushes, ToSearch, ToPush, ToSpawn, ToWait, ToClear
  <2> QED  BY <2>3, <2>4, <2>5, CompileType DEF Recipe, s
<1>3. CASE pipe /\ link
  <2>1. /\ Len(s) = 8
        /\ s[1] = ToSearch(Object(f), "always") /\ s[2] = ToPush(Object(f), "always")
        /\ s[3] = ToSearch(Object(f), "failure") /\ s[4] = ToPush(Object(f), "failure")
        /\ s[5] = ToSpawn("cc", {}) /\ s[6] = ToSpawn("as", {Object(f)})
        /\ s[7] = ToWait /\ s[8] = ToClear
    BY <1>3 DEF Compile, RecordObject, Record, Spawn, Wait, ToSearch, ToPush, ToSpawn, ToWait, ToClear
  <2> HIDE DEF s
  <2>2. \A k \in 1..Len(s) : k \in {1, 2, 3, 4, 5, 6, 7, 8}
    BY <2>1
  <2>3. RecipeEnds(s, f)
    BY <2>1, <2>2 DEF RecipeEnds, ToSearch, ToPush, ToSpawn, ToWait, ToClear
  <2>4. RecipeRecords(s, f)
    BY <1>3, <2>1, <2>2 DEF RecipeRecords, ToSearch, ToPush, ToSpawn, ToWait, ToClear, Queues
  <2>5. RecipeSpawns(s, f)
    BY <1>3, <2>1, <2>2, NamesApart
    DEF RecipeSpawns, Pushes, ToSearch, ToPush, ToSpawn, ToWait, ToClear
  <2> QED  BY <2>3, <2>4, <2>5, CompileType DEF Recipe, s
<1>4. CASE pipe /\ ~link
  <2>6. RecordObject(f) = <<ToSearch(Object(f), "failure"), ToPush(Object(f), "failure")>>
    BY <1>4 DEF RecordObject, Record, ToSearch, ToPush
  <2>1. /\ Len(s) = 6
        /\ s[1] = ToSearch(Object(f), "failure") /\ s[2] = ToPush(Object(f), "failure")
        /\ s[3] = ToSpawn("cc", {}) /\ s[4] = ToSpawn("as", {Object(f)})
        /\ s[5] = ToWait /\ s[6] = ToClear
    BY <1>4, <2>6 DEF Compile, Spawn, Wait, ToSearch, ToPush, ToSpawn, ToWait, ToClear
  <2> HIDE DEF s
  <2>2. \A k \in 1..Len(s) : k \in {1, 2, 3, 4, 5, 6}
    BY <2>1
  <2>3. RecipeEnds(s, f)
    BY <2>1, <2>2 DEF RecipeEnds, ToSearch, ToPush, ToSpawn, ToWait, ToClear
  <2>4. RecipeRecords(s, f)
    BY <1>4, <2>1, <2>2 DEF RecipeRecords, ToSearch, ToPush, ToSpawn, ToWait, ToClear, Queues
  <2>5. RecipeSpawns(s, f)
    BY <1>4, <2>1, <2>2, NamesApart
    DEF RecipeSpawns, Pushes, ToSearch, ToPush, ToSpawn, ToWait, ToClear
  <2> QED  BY <2>3, <2>4, <2>5, CompileType DEF Recipe, s
<1> QED  BY <1>1, <1>2, <1>3, <1>4

-----------------------------------------------------------------------------
(* What is done at which place of main ().                                 *)
LEMMA Counting ==
  /\ \A n \in Nat : n >= 1 /\ n # 1 => n > 1
  /\ \A n \in Nat : n > 1 /\ n # 2 => n > 2
  /\ \A n \in Nat : n > 1 => n # 1
  OBVIOUS

(* What is done next says where in main () the driver is.                  *)
LEMMA Place ==
  ASSUME TypeOK, EndsRight
  PROVE  /\ Len(todo) \in Nat /\ Len(todo) >= 1
         /\ Step = todo[1] /\ todo[1] \in Steps
         /\ todo[1].do \in {"search", "push"} => Len(todo) > 1 /\ Final = "clear"
         /\ todo[1].do \in {"spawn", "wait"} => Len(todo) > 1 /\ Final \in {"clear", "finish"}
         /\ todo[1].do = "unlink" => Len(todo) > 1 /\ Final \in {"clear", "exit", "die"}
         /\ todo[1].do = "delete_always" => Len(todo) > 1 /\ Final = "exit"
         /\ todo[1].do = "forget" => Len(todo) > 1 /\ Final \in {"exit", "die"}
         /\ todo[1].do \in Ways => Len(todo) = 1 /\ Final = todo[1].do
<1>1. Len(todo) \in Nat /\ Len(todo) >= 1 /\ Head(todo) = todo[1] /\ todo[1] \in Steps
  BY TailIs DEF TypeOK
<1>2. CASE Len(todo) = 1
  <2>1. Final = todo[1].do
    BY <1>2 DEF Final
  <2>2. Final \in Ways
    BY DEF EndsRight
  <2> QED  BY <1>1, <1>2, <2>1, <2>2 DEF Ways, Step
<1>3. CASE Len(todo) # 1
  <2>4. Len(todo) > 1
    BY <1>1, <1>3, Counting
  <2>1. \A k \in 1..(Len(todo) - 1) : todo[k].do \in Before
    BY DEF EndsRight
  <2>2. todo[1].do \in Before
    BY <1>1, <2>1, <2>4
  <2>3. Final \in Ways
    BY DEF EndsRight
  <2> QED  BY <1>1, <2>4, <2>2, <2>3 DEF Ways, Before, Step
<1> QED  BY <1>2, <1>3

(* The first m things are done.                                            *)
Done(m) ==
  /\ m \in 1..2 /\ Len(todo) \in Nat /\ Len(todo) > m
  /\ todo' \in Seq(Steps) /\ todo' # <<>> /\ Len(todo') = Len(todo) - m
  /\ \A k \in 1..Len(todo') : todo'[k] = todo[k + m]

(* One thing is done.                                                      *)
LEMMA DoneOne ==
  ASSUME TypeOK, Len(todo) > 1, todo' = Tail(todo)
  PROVE  Done(1)
<1>1. Len(todo) \in Nat /\ todo' \in Seq(Steps) /\ Len(todo') = Len(todo) - 1
      /\ \A k \in 1..(Len(todo) - 1) : todo'[k] = todo[k + 1]
  BY TailIs DEF TypeOK
<1>2. todo' # <<>>
  BY <1>1, EmptySeq
<1> QED  BY <1>1, <1>2 DEF Done

(* A search that finds the name does away with the push, too.              *)
LEMMA DoneTwo ==
  ASSUME TypeOK, Len(todo) > 2, todo' = Tail(Tail(todo))
  PROVE  Done(2)
<1>1. Len(todo) \in Nat /\ Tail(todo) \in Seq(Steps) /\ Len(Tail(todo)) = Len(todo) - 1
      /\ \A k \in 1..(Len(todo) - 1) : Tail(todo)[k] = todo[k + 1]
  BY TailIs DEF TypeOK
<1>2. Tail(todo) # <<>>
  BY <1>1
<1>3. todo' \in Seq(Steps) /\ Len(todo') = Len(todo) - 2
      /\ \A k \in 1..(Len(todo) - 2) : todo'[k] = Tail(todo)[k + 1]
  BY <1>1, <1>2, TailIs
<1>4. \A k \in 1..(Len(todo) - 2) : todo'[k] = todo[k + 2]
  BY <1>1, <1>3
<1>5. todo' # <<>>
  <2>1. Len(todo') # 0
    BY <1>1, <1>3
  <2> QED  BY <2>1
<1> QED  BY <1>1, <1>3, <1>4, <1>5 DEF Done

(* The end of the list stays.                                              *)
LEMMA DoneFinal ==
  ASSUME NEW m, Done(m)
  PROVE  Final' = Final /\ Before' = Before
<1>1. Final' = Final
  BY DEF Done, Final
<1> QED  BY <1>1 DEF Before

(* What comes before it stays as it is.                                    *)
LEMMA DoneEnds ==
  ASSUME TypeOK, EndsRight, NEW m, Done(m),
         file' = file, errors' \in {errors, TRUE}, ended = "no", ended' = ended,
         todo[1].do = "forget" => always' = <<>>,
         Final \in {"exit", "die"} => m = 1 /\ todo[1].do \in {"unlink", "forget"}
  PROVE  EndsRight'
<1>1. Final' = Final /\ Before' = Before
  BY DoneFinal
<1>2. \A k \in 1..(Len(todo') - 1) : todo'[k].do \in Before
  <2>1. \A k \in 1..(Len(todo) - 1) : todo[k].do \in Before
    BY DEF EndsRight
  <2>2. \A k \in 1..(Len(todo') - 1) : k + m \in 1..(Len(todo) - 1) /\ todo'[k] = todo[k + m]
    BY DEF Done
  <2> QED  BY <2>1, <2>2
<1>3. ASSUME Final \in {"exit", "die"}
      PROVE  IF Len(todo') = 1 THEN always' = <<>>
             ELSE todo'[Len(todo') - 1].do \in {"forget", "delete_always"}
  <2>1. m = 1 /\ todo[Len(todo) - 1].do \in {"forget", "delete_always"}
    <3>1. Len(todo) # 1 /\ m = 1
      BY <1>3 DEF Done
    <3> QED  BY <1>3, <3>1 DEF EndsRight
  <2>2. CASE Len(todo') = 1
    <3>1. Len(todo) - 1 = 1
      BY <2>1, <2>2 DEF Done
    <3> QED  BY <1>3, <2>1, <2>2, <3>1
  <2>3. CASE Len(todo') # 1
    <3>1. Len(todo') - 1 \in 1..Len(todo') /\ (Len(todo') - 1) + m = Len(todo) - 1
      <4>1. m = 1 /\ Len(todo) \in Nat /\ Len(todo) > m /\ Len(todo') = Len(todo) - m
        BY <2>1 DEF Done
      <4> QED  BY <2>3, <4>1
    <3>2. todo'[Len(todo') - 1] = todo[Len(todo) - 1]
      BY <3>1 DEF Done
    <3> QED  BY <2>1, <2>3, <3>2
  <2> QED  BY <2>2, <2>3
<1> QED  BY <1>1, <1>2, <1>3 DEF EndsRight, TypeOK

(* The queues only grow, and the names that were to be pushed are there.   *)
LEMMA DoneQueued ==
  ASSUME TypeOK, NEW m, Done(m), NEW k \in (m + 1)..Len(todo), NEW n, NEW q \in Queues,
         \A p \in Queues : Range(Queue(p)) \subseteq Range(Queue(p))',
         \A j \in 1..m, p \in Queues :
           todo[j].do = "push" /\ todo[j].in = p => todo[j].name \in Range(Queue(p))',
         QueuedAt(k, n, q)
  PROVE  QueuedAt(k - m, n, q)'
<1>1. CASE n \in Range(Queue(q))
  BY <1>1 DEF QueuedAt
<1>2. CASE \E j \in 1..(k - 1) : todo[j].do = "push" /\ todo[j].name = n /\ todo[j].in = q
  <2>1. PICK j \in 1..(k - 1) : todo[j].do = "push" /\ todo[j].name = n /\ todo[j].in = q
    BY <1>2
  <2>2. CASE j <= m
    <3>1. j \in 1..m
      BY <2>2 DEF Done
    <3>2. n \in Range(Queue(q))'
      BY <2>1, <3>1
    <3> QED  BY <3>2 DEF QueuedAt
  <2>3. CASE j > m
    <3>1. j - m \in 1..((k - m) - 1) /\ j - m \in 1..Len(todo') /\ (j - m) + m = j
      <4>1. /\ m \in 1..2 /\ Len(todo) \in Nat /\ Len(todo') = Len(todo) - m
            /\ k \in (m + 1)..Len(todo) /\ j \in 1..(k - 1)
        BY DEF Done
      <4> QED  BY <2>3, <4>1
    <3>2. todo'[j - m] = todo[j]
      BY <3>1 DEF Done
    <3> QED  BY <2>1, <3>1, <3>2 DEF QueuedAt
  <2> QED  BY <2>2, <2>3 DEF Done
<1> QED  BY <1>1, <1>2 DEF QueuedAt

(* Names still are searched for, then pushed.                              *)
LEMMA DoneRecords ==
  ASSUME TypeOK, RecordsRight, NEW m, Done(m), file' = file, link' = link,
         \A p \in Queues : todo[m].do = "search" /\ todo[m + 1].in = p =>
                              todo[m + 1].name \notin Range(Queue(p))'
  PROVE  RecordsRight'
<1>1. \A q : MayQueue(q)' = MayQueue(q)
  BY DEF MayQueue
<1>2. NamesMayBeQueued'
  BY <1>1 DEF Done, RecordsRight, NamesMayBeQueued
<1>3. ASSUME NEW k \in 1..Len(todo'), todo'[k].do = "search"
      PROVE  k < Len(todo')
             /\ todo'[k + 1] = [do |-> "push", name |-> todo'[k].name, in |-> todo'[k].in]
  <2>1. k + m \in 1..Len(todo) /\ todo'[k] = todo[k + m]
    BY DEF Done
  <2>2. k + m < Len(todo)
        /\ todo[k + m + 1] = [do |-> "push", name |-> todo[k + m].name, in |-> todo[k + m].in]
    BY <1>3, <2>1 DEF RecordsRight, SearchBeforePush
  <2>3. k + 1 \in 1..Len(todo') /\ (k + 1) + m = k + m + 1
    BY <2>2 DEF Done
  <2>4. todo'[k + 1] = todo[k + m + 1]
    BY <2>3 DEF Done
  <2> QED  BY <2>1, <2>2, <2>3, <2>4
<1>4. ASSUME NEW k \in 2..Len(todo'), todo'[k].do = "push"
      PROVE  todo'[k - 1].do = "search"
  <2>1. k + m \in 2..Len(todo) /\ todo'[k] = todo[k + m]
    BY DEF Done
  <2>2. k - 1 \in 1..Len(todo') /\ (k - 1) + m = (k + m) - 1
    BY DEF Done
  <2>3. todo'[k - 1] = todo[(k + m) - 1]
    BY <2>2 DEF Done
  <2>4. todo[k + m].do = "push"
    BY <1>4, <2>1
  <2>5. todo[(k + m) - 1].do = "search"
    BY <2>1, <2>4 DEF RecordsRight, PushAfterSearch
  <2> QED  BY <2>3, <2>5
<1>5. ASSUME todo'[1].do = "push"
      PROVE  todo'[1].name \notin Range(Queue(todo[1].in)')
  <2>1. todo'[1] = todo[m + 1] /\ m + 1 \in 2..Len(todo)
    BY DEF Done
  <2>2. todo[m].do = "search"
    <3>1. todo[(m + 1) - 1].do = "search"
      BY <1>5, <2>1 DEF RecordsRight, PushAfterSearch
    <3> QED  BY <3>1 DEF Done
  <2>3. todo[m + 1] \in Steps
    BY <2>1 DEF TypeOK
  <2>4. PICK p \in Queues : p = todo[m + 1].in
    BY <1>5, <2>1, <2>3, StepFields
  <2>5. todo[m + 1].name \notin Range(Queue(p))'
    BY <2>2, <2>4
  <2>6. /\ Queue(todo[1].in)' = IF p = "always" THEN always' ELSE failure'
        /\ Queue(p)' = IF p = "always" THEN always' ELSE failure'
    BY <2>1, <2>4 DEF Queue
  <2>7. Queue(todo[1].in)' = Queue(p)'
    BY <2>6
  <2>8. todo'[1].name \notin Range(Queue(p)')
    BY <2>1, <2>5
  <2>9. todo'[1].name \notin Range(Queue(todo[1].in)')
    BY <2>7, <2>8
  <2> QED  BY <2>9
<1>6. SearchBeforePush'
  BY <1>3 DEF SearchBeforePush
<1>7. PushAfterSearch'
  BY <1>4 DEF PushAfterSearch
<1>8. PushNew'
  BY <1>5 DEF PushNew
<1> QED  BY <1>2, <1>6, <1>7, <1>8 DEF RecordsRight

(* Programs still are started when their files have names in the queues.   *)
LEMMA DoneSpawns ==
  ASSUME TypeOK, SpawnsRight, NEW m, Done(m), file' = file, link' = link,
         \A p \in Queues : Range(Queue(p)) \subseteq Range(Queue(p))',
         \A j \in 1..m, p \in Queues :
           todo[j].do = "push" /\ todo[j].in = p => todo[j].name \in Range(Queue(p))'
  PROVE  SpawnsRight'
<1> SUFFICES ASSUME NEW k \in 1..Len(todo'), todo'[k].do = "spawn"
             PROVE  /\ k < Len(todo')
                    /\ todo'[k].out # {} => Final' = "clear" /\ todo'[k + 1].do = "wait"
                    /\ \A n \in todo'[k].out : OutRight(k, n)'
                    /\ Object(file) \in todo'[k].out => k = Len(todo') - 2
  BY DEF SpawnsRight
<1>1. k + m \in (m + 1)..Len(todo) /\ todo'[k] = todo[k + m] /\ k + m \in 1..Len(todo)
  BY DEF Done
<1>2. /\ k + m < Len(todo)
      /\ todo[k + m].out # {} => Final = "clear" /\ todo[k + m + 1].do = "wait"
      /\ \A n \in todo[k + m].out : OutRight(k + m, n)
      /\ Object(file) \in todo[k + m].out => k + m = Len(todo) - 2
  BY <1>1 DEF SpawnsRight
<1>3. k < Len(todo') /\ todo'[k + 1] = todo[k + m + 1]
  <2>1. k + 1 \in 1..Len(todo') /\ (k + 1) + m = k + m + 1
    BY <1>2 DEF Done
  <2> QED  BY <2>1 DEF Done
<1>4. ASSUME NEW n \in todo'[k].out
      PROVE  OutRight(k, n)'
  <2>1. OutRight(k + m, n)
    BY <1>1, <1>2
  <2>2. ASSUME NEW q \in Queues, QueuedAt(k + m, n, q)
        PROVE  QueuedAt(k, n, q)'
    <3>1. QueuedAt((k + m) - m, n, q)'
      BY <1>1, <2>2, DoneQueued
    <3>2. (k + m) - m = k
      BY DEF Done
    <3> QED  BY <3>1, <3>2
  <2> QED  BY <2>1, <2>2 DEF OutRight, IsTemp, Queues
<1>5. Final' = Final
  BY DoneFinal
<1>6. todo[k + m].out # {} => Final' = "clear" /\ todo'[k + 1].do = "wait"
  BY <1>2, <1>3, <1>5
<1>7. Object(file) \in todo[k + m].out => k = Len(todo') - 2
  BY <1>2 DEF Done
<1> QED  BY <1>1, <1>3, <1>4, <1>6, <1>7

-----------------------------------------------------------------------------
LEMMA NoOuts ==
  ASSUME \A p \in Prog : child'[p].out = {}
  PROVE  ProgramsRight'
  BY DEF ProgramsRight, AllReaped, AllEnded, OutsApart, WaitsFor

(* Before the last programs for an input file are started.                 *)
LEMMA StillToRun ==
  ASSUME IInv, todo[1].do \in {"search", "push", "spawn"}, Final = "clear"
  PROVE  /\ Compiling /\ Len(todo) > 2 /\ file \notin good
         /\ todo[Len(todo) - 2] = [do |-> "spawn", prog |-> "as", out |-> {Object(file)}]
         /\ \A k \in 1..Len(todo) : todo[k].do \notin {"unlink", "forget"}
         /\ \A p \in Prog : child[p].out = {}
         /\ \A f \in Files : disk[Object(f)] # "absent" => Settled(f)
<1>1. Len(todo) \in Nat /\ Len(todo) > 1
  BY Place DEF IInv, Inv
<1>2. Compiling
  <2>1. SUFFICES ASSUME ~Compiling PROVE FALSE
    OBVIOUS
  <2>2. \A k \in 1..(Len(todo) - 1) : todo[k].do = "unlink"
    BY <2>1 DEF IInv, Inv, CompileRight, Compiled
  <2> QED  BY <1>1, <2>2
<1>3. \A k \in 1..Len(todo) : todo[k].do # "unlink"
  BY <1>2 DEF IInv, Inv, CompileRight, StillCompiled
<1>4. Len(todo) # 2
  <2>1. todo[Len(todo) - 1].do = "wait"
    BY <1>2 DEF Compiling
  <2>2. Len(todo) = 2 => Len(todo) - 1 = 1
    BY <1>1
  <2>3. todo[1].do # "wait"
    OBVIOUS
  <2> QED  BY <2>1, <2>2, <2>3, Zenon
<1>9. Len(todo) > 2
  BY <1>1, <1>4, Counting
<1>5. file \notin good
      /\ todo[Len(todo) - 2] = [do |-> "spawn", prog |-> "as", out |-> {Object(file)}]
  BY <1>2, <1>4 DEF IInv, Inv, CompileRight, StillCompiled
<1>6. \A k \in 1..Len(todo) : todo[k].do # "forget"
  <2>1. \A k \in 1..(Len(todo) - 1) : todo[k].do \in Before
    BY DEF IInv, Inv, EndsRight
  <2>2. \A k \in 1..(Len(todo) - 1) : todo[k].do # "forget"
    BY <2>1 DEF Before
  <2>3. todo[Len(todo)].do # "forget"
    BY DEF Final
  <2> QED  BY <1>1, <2>2, <2>3
<1>7. \A p \in Prog : child[p].out = {}
  BY DEF IInv, Inv, ProgramsRight, AllReaped
<1>8. \A f \in Files : disk[Object(f)] # "absent" => Settled(f)
  <2>1. \A n : ~UnlinkedBy(Len(todo), n)
    BY <1>1, <1>3 DEF UnlinkedBy
  <2> QED  BY <1>4, <2>1 DEF IInv, Inv, ObjectsRight, ObjectsSettled
<1> QED  BY <1>2, <1>3, <1>5, <1>6, <1>7, <1>8, <1>9

(* record_temp_file () at work.                                            *)
LEMMA RecordStep ==
  ASSUME IInv, NEW m, Done(m), \A j \in 1..m : todo[j].do \in {"search", "push"}, ended = "no",
         UNCHANGED <<options, file, child, disk, good, errors, signals, ended>>,
         always' \in Seq(Names), failure' \in Seq(Names), QueueInv',
         \A p \in Queues : Range(Queue(p)) \subseteq Range(Queue(p))',
         \A j \in 1..m, p \in Queues :
           todo[j].do = "push" /\ todo[j].in = p => todo[j].name \in Range(Queue(p))',
         \A p \in Queues : todo[m].do = "search" /\ todo[m + 1].in = p =>
                              todo[m + 1].name \notin Range(Queue(p))'
  PROVE  IInv'
<1> USE DEF options
<1>1. todo[1].do \in {"search", "push"} /\ Final = "clear"
  <2>1. todo[1].do \in {"search", "push"}
    BY DEF Done
  <2> QED  BY <2>1, Place DEF IInv, Inv
<1>2. Final' = Final /\ Before' = Before
  BY DoneFinal
<1>3. TypeOK'
  BY DEF IInv, TypeOK, Done
<1>4. EndsRight'
  BY <1>1, DoneEnds DEF IInv, Inv
<1>5. RecordsRight'
  BY DoneRecords DEF IInv, Inv
<1>6. SpawnsRight'
  BY DoneSpawns DEF IInv, Inv
<1>7. Compiling' /\ CompileRight' /\ Len(todo') > 2
  <2>1. Len(todo) \in Nat /\ Len(todo) > 2
    BY <1>1, StillToRun DEF Done
  <2>2. Len(todo) - 2 > m
    <3>1. todo[Len(todo) - 2].do = "spawn"
      BY <1>1, StillToRun
    <3>2. SUFFICES ASSUME Len(todo) - 2 <= m PROVE FALSE
      BY <2>1 DEF Done
    <3>3. Len(todo) - 2 \in 1..m
      BY <2>1, <3>2 DEF Done
    <3> QED  BY <3>1, <3>3
  <2>3. /\ Len(todo') > 2 /\ todo'[Len(todo') - 1] = todo[Len(todo) - 1]
        /\ todo'[Len(todo') - 2] = todo[Len(todo) - 2]
    <3>1. /\ Len(todo') > 2
          /\ Len(todo') - 1 \in 1..Len(todo') /\ (Len(todo') - 1) + m = Len(todo) - 1
          /\ Len(todo') - 2 \in 1..Len(todo') /\ (Len(todo') - 2) + m = Len(todo) - 2
      BY <2>1, <2>2 DEF Done
    <3> QED  BY <3>1 DEF Done
  <2>4. \A k \in 1..Len(todo') : todo'[k].do # "unlink"
    <3>1. \A k \in 1..Len(todo') : k + m \in 1..Len(todo) /\ todo'[k] = todo[k + m]
      BY DEF Done
    <3>2. \A k \in 1..Len(todo) : todo[k].do # "unlink"
      BY <1>1, StillToRun
    <3> QED  BY <3>1, <3>2
  <2>5. Compiling'
    BY <1>1, <1>2, <2>3, StillToRun DEF Compiling
  <2> QED  BY <1>1, <2>3, <2>4, <2>5, StillToRun DEF CompileRight, StillCompiled, Compiled
<1>8. ProgramsRight'
  BY <1>1, StillToRun, NoOuts
<1>9. TempsRight'
  <2>1. \A k \in 1..Len(todo') : todo'[k].do \notin {"unlink", "forget"}
    <3>1. \A k \in 1..Len(todo') : k + m \in 1..Len(todo) /\ todo'[k] = todo[k + m]
      BY DEF Done
    <3>2. \A k \in 1..Len(todo) : todo[k].do \notin {"unlink", "forget"}
      BY <1>1, StillToRun
    <3> QED  BY <3>1, <3>2
  <2>2. Range(always) \subseteq Range(always')
    BY DEF Queue, Queues
  <2>3. TempsQueued'
    BY <2>2 DEF IInv, Inv, TempsRight, TempsQueued, IsTemp
  <2> QED  BY <2>1, <2>3 DEF TempsRight, ForgetsDeleted, UnlinksOwn
<1>10. ObjectsRight'
  BY <1>1, StillToRun DEF IInv, Inv, ObjectsRight, ObjectsSettled, Settled
<1> QED  BY <1>3, <1>4, <1>5, <1>6, <1>7, <1>8, <1>9, <1>10 DEF IInv, Inv

(* The search for a name.                                                  *)
LEMMA SearchKeeps ==
  ASSUME IInv, Search
  PROVE  IInv'
<1>1. /\ Len(todo) \in Nat /\ Len(todo) > 1 /\ Step = todo[1] /\ todo[1].do = "search"
      /\ Final = "clear" /\ ended = "no" /\ todo[1] \in Steps
      /\ UNCHANGED <<options, queues, file, child, disk, good, errors, signals, ended>>
  BY Place DEF IInv, Inv, Search, Do, Running, Step
<1>2. todo[2] = [do |-> "push", name |-> todo[1].name, in |-> todo[1].in]
  BY <1>1 DEF IInv, Inv, RecordsRight, SearchBeforePush
<1>3. Len(todo) > 2
  <2>1. Len(todo) # 2
    BY <1>1, <1>2 DEF Final
  <2> QED  BY <1>1, <2>1, Counting
<1>4. always' \in Seq(Names) /\ failure' \in Seq(Names) /\ QueueInv'
      /\ UNCHANGED <<always, failure>>
  BY <1>1 DEF IInv, Inv, TypeOK, QueueInv, queues, IsTemp, options
<1>5. \A p : Queue(p)' = Queue(p)
  BY <1>4 DEF Queue
<1>6. CASE Step.name \in Range(Queue(Step.in))
  <2>1. todo' = Tail(Tail(todo))
    BY <1>6 DEF Search
  <2>2. Done(2)
    BY <1>3, <2>1, DoneTwo DEF IInv
  <2>3. \A j \in 1..2 : j = 1 \/ j = 2
    OBVIOUS
  <2>4. \A j \in 1..2 : todo[j].do \in {"search", "push"}
    BY <1>1, <1>2, <2>3
  <2>5. \A j \in 1..2, p \in Queues :
          todo[j].do = "push" /\ todo[j].in = p => todo[j].name \in Range(Queue(p))
    BY <1>1, <1>2, <1>6, <2>3
  <2> QED  BY <1>1, <1>2, <1>4, <1>5, <2>2, <2>4, <2>5, RecordStep
<1>7. CASE Step.name \notin Range(Queue(Step.in))
  <2>1. todo' = Tail(todo)
    BY <1>7 DEF Search
  <2>2. Done(1)
    BY <1>1, <2>1, DoneOne DEF IInv
  <2>3. \A j \in 1..1 : todo[j].do = "search"
    BY <1>1
  <2>4. \A p \in Queues : todo[1 + 1].in = p => todo[1 + 1].name \notin Range(Queue(p))
    BY <1>1, <1>2, <1>7
  <2> QED  BY <1>1, <1>4, <1>5, <2>2, <2>3, <2>4, RecordStep
<1> QED  BY <1>6, <1>7

(* The entry for a name.                                                   *)
LEMMA PushKeeps ==
  ASSUME IInv, PushEntry
  PROVE  IInv'
<1>1. /\ Len(todo) \in Nat /\ Len(todo) > 1 /\ Step = todo[1] /\ todo[1].do = "push"
      /\ Final = "clear" /\ ended = "no" /\ todo[1] \in Steps /\ todo' = Tail(todo)
      /\ UNCHANGED <<options, file, child, disk, good, errors, signals, ended>>
  BY Place DEF IInv, Inv, PushEntry, Do, Running, Step
<1>2. Done(1)
  BY <1>1, DoneOne DEF IInv
<1>3. PICK n \in Names, q \in Queues : n = todo[1].name /\ q = todo[1].in
  BY <1>1, StepFields
<1>4. n \in MayQueue(q) /\ n \notin Range(Queue(q))
  BY <1>1, <1>3 DEF IInv, Inv, RecordsRight, NamesMayBeQueued, PushNew
<1>5. /\ q = "always" => always' = <<n>> \o always /\ failure' = failure
      /\ q # "always" => failure' = <<n>> \o failure /\ always' = always
  BY <1>1, <1>3 DEF PushEntry
<1>6. file \in Files
  BY <1>1 DEF IInv, Inv, EndsRight
<1>7. ASSUME q = "always"
      PROVE  /\ always' \in Seq(Names) /\ failure' \in Seq(Names) /\ QueueInv'
             /\ \A p \in Queues : Range(Queue(p)) \subseteq Range(Queue(p)')
             /\ n \in Range(Queue(q)')
  <2>1. n \notin Range(always) /\ IsTemp(n)
    BY <1>4, <1>7, ObjectIsTemp DEF Queue, MayQueue, IsTemp
  <2>2. /\ always' \in Seq(Names) /\ Range(always') = {n} \cup Range(always) /\ IsInjective(always')
        /\ failure' = failure
    <3>1. always \in Seq(Names) /\ IsInjective(always)
      BY DEF IInv, Inv, TypeOK, QueueInv
    <3>2. always' = <<n>> \o always /\ failure' = failure
      BY <1>5, <1>7
    <3> QED  BY <2>1, <3>1, <3>2, Pushed
  <2>3. QueueInv' /\ failure' \in Seq(Names)
    BY <1>1, <1>6, <2>1, <2>2 DEF IInv, Inv, TypeOK, QueueInv, IsTemp, options
  <2>4. \A p \in Queues : Range(Queue(p)) \subseteq Range(Queue(p)')
    BY <2>2 DEF Queue
  <2>5. n \in Range(Queue(q)')
    BY <1>7, <2>2 DEF Queue
  <2> QED  BY <2>2, <2>3, <2>4, <2>5
<1>8. ASSUME q # "always"
      PROVE  /\ always' \in Seq(Names) /\ failure' \in Seq(Names) /\ QueueInv'
             /\ \A p \in Queues : Range(Queue(p)) \subseteq Range(Queue(p)')
             /\ n \in Range(Queue(q)')
  <2>1. n \notin Range(failure) /\ n = Object(file)
    BY <1>4, <1>8 DEF Queue, MayQueue
  <2>2. /\ failure' \in Seq(Names) /\ Range(failure') = {n} \cup Range(failure) /\ IsInjective(failure')
        /\ always' = always
    <3>1. failure \in Seq(Names) /\ IsInjective(failure)
      BY DEF IInv, Inv, TypeOK, QueueInv
    <3>2. failure' = <<n>> \o failure /\ always' = always
      BY <1>5, <1>8
    <3> QED  BY <2>1, <3>1, <3>2, Pushed
  <2>3. QueueInv' /\ always' \in Seq(Names)
    BY <1>1, <1>6, <2>1, <2>2 DEF IInv, Inv, TypeOK, QueueInv, IsTemp, options
  <2>4. \A p \in Queues : Range(Queue(p)) \subseteq Range(Queue(p)')
    BY <2>2 DEF Queue
  <2>5. n \in Range(Queue(q)')
    BY <1>8, <2>2 DEF Queue
  <2> QED  BY <2>2, <2>3, <2>4, <2>5
<1>9. /\ always' \in Seq(Names) /\ failure' \in Seq(Names) /\ QueueInv'
      /\ \A p \in Queues : Range(Queue(p)) \subseteq Range(Queue(p)')
      /\ n \in Range(Queue(q)')
  BY <1>7, <1>8
<1>10. \A j \in 1..1 : j = 1
  OBVIOUS
<1>11. \A j \in 1..1, p \in Queues :
         todo[j].do = "push" /\ todo[j].in = p => todo[j].name \in Range(Queue(p)')
  BY <1>3, <1>9, <1>10
<1>12. todo[1].do # "search" /\ \A j \in 1..1 : todo[j].do \in {"search", "push"}
  BY <1>1, <1>10
<1> QED  BY <1>1, <1>2, <1>9, <1>11, <1>12, RecordStep

(* Before a program is started, the files of earlier ones are settled.     *)
LEMMA BeforeSpawn ==
  ASSUME IInv, todo[1].do = "spawn"
  PROVE  /\ Len(todo) \in Nat /\ Len(todo) > 1 /\ Final \in {"clear", "finish"}
         /\ \A k \in 1..Len(todo) : todo[k].do \notin {"unlink", "forget"}
         /\ \A p \in Prog : child[p].out = {}
         /\ \A f \in Files : disk[Object(f)] # "absent" => Settled(f)
<1>1. Len(todo) \in Nat /\ Len(todo) > 1 /\ Final \in {"clear", "finish"}
  BY Place DEF IInv, Inv
<1>2. CASE Final = "clear"
  BY <1>1, <1>2, StillToRun
<1>3. CASE Final = "finish"
  <2>1. \A k \in 1..Len(todo) : todo[k].do \notin {"unlink", "forget"}
    <3>1. \A k \in 1..(Len(todo) - 1) : todo[k].do \in Before
      BY DEF IInv, Inv, EndsRight
    <3>2. \A k \in 1..(Len(todo) - 1) : todo[k].do \notin {"unlink", "forget"}
      BY <1>3, <3>1 DEF Before
    <3>3. todo[Len(todo)].do \notin {"unlink", "forget"}
      BY <1>3 DEF Final
    <3> QED  BY <1>1, <3>2, <3>3
  <2>2. \A n : ~UnlinkedBy(Len(todo), n)
    BY <1>1, <2>1 DEF UnlinkedBy
  <2>3. ~Compiling
    BY <1>3 DEF Compiling
  <2>4. \A p \in Prog : child[p].out = {}
    BY <1>3 DEF IInv, Inv, ProgramsRight, AllReaped
  <2> QED  BY <1>1, <2>1, <2>2, <2>3, <2>4 DEF IInv, Inv, ObjectsRight, ObjectsSettled
<1> QED  BY <1>1, <1>2, <1>3

(* A program is started.                                                   *)
LEMMA SpawnKeeps ==
  ASSUME IInv, SpawnProgram
  PROVE  IInv'
<1> USE DEF options, queues
<1>1. /\ Len(todo) \in Nat /\ Len(todo) > 1 /\ Step = todo[1] /\ todo[1].do = "spawn"
      /\ Final \in {"clear", "finish"} /\ ended = "no" /\ todo[1] \in Steps /\ todo' = Tail(todo)
      /\ child' = [child EXCEPT ![todo[1].prog] = [st |-> "running", out |-> todo[1].out]]
      /\ UNCHANGED <<options, queues, file, disk, good, errors, signals, ended>>
  BY Place DEF IInv, Inv, SpawnProgram, Do, Running, Step
<1>2. Done(1)
  BY <1>1, DoneOne DEF IInv
<1>3. PICK a \in Prog, out \in SUBSET Names : a = todo[1].prog /\ out = todo[1].out
  BY <1>1, StepFields
<1>4. /\ child'[a] = [st |-> "running", out |-> out]
      /\ \A p \in Prog \ {a} : child'[p] = child[p] /\ child'[p].out = {}
      /\ child' \in [Prog -> [st : States, out : SUBSET Names]]
  BY <1>1, <1>3, BeforeSpawn DEF IInv, TypeOK, States
<1>5. Final' = Final /\ Before' = Before /\ todo'[1] = todo[2] /\ Len(todo') = Len(todo) - 1
  BY <1>2, DoneFinal DEF Done
<1>6. TypeOK'
  BY <1>1, <1>2, <1>4 DEF IInv, TypeOK, Done
<1>7. /\ \A q : Queue(q)' = Queue(q)
      /\ \A q \in Queues : Range(Queue(q)) \subseteq Range(Queue(q)')
  BY <1>1 DEF Queue
<1>8. EndsRight'
  BY <1>1, <1>2, DoneEnds DEF IInv, Inv
<1>9. RecordsRight'
  BY <1>1, <1>2, DoneRecords DEF IInv, Inv
<1>10. SpawnsRight'
  <2>1. \A j \in 1..1 : todo[j].do # "push"
    BY <1>1
  <2> QED  BY <1>1, <1>2, <1>7, <2>1, DoneSpawns DEF IInv, Inv
<1>11. /\ out # {} => Final = "clear" /\ todo[2].do = "wait"
       /\ \A n \in out : OutRight(1, n)
       /\ Object(file) \in out => Len(todo) = 3
  <2>1. /\ todo[1].out # {} => Final = "clear" /\ todo[1 + 1].do = "wait"
        /\ \A n \in todo[1].out : OutRight(1, n)
        /\ Object(file) \in todo[1].out => 1 = Len(todo) - 2
    <3>1. 1 \in 1..Len(todo)
      BY <1>1
    <3> QED  BY <1>1, <3>1 DEF IInv, Inv, SpawnsRight
  <2>2. out # {} => todo[2].do = "wait"
    BY <1>3, <2>1
  <2> QED  BY <1>1, <1>3, <2>1, <2>2
<1>12. QueueInv'
  BY <1>1 DEF IInv, Inv, QueueInv, IsTemp
<1>13. CompileRight'
  <2>1. CASE Final = "clear"
    <3>1. /\ Compiling /\ Len(todo) > 2 /\ file \notin good
          /\ todo[Len(todo) - 2] = [do |-> "spawn", prog |-> "as", out |-> {Object(file)}]
      BY <1>1, <2>1, StillToRun
    <3>2. /\ Len(todo') - 1 \in 1..Len(todo') /\ (Len(todo') - 1) + 1 = Len(todo) - 1
          /\ Len(todo') > 1 /\ Len(todo') = Len(todo) - 1
      BY <1>2, <3>1 DEF Done
    <3>3. todo'[Len(todo') - 1] = todo[Len(todo) - 1]
      BY <1>2, <3>2 DEF Done
    <3>4. Compiling'
      BY <1>5, <3>1, <3>2, <3>3 DEF Compiling
    <3>5. \A k \in 1..Len(todo') : todo'[k].do # "unlink"
      <4>1. \A k \in 1..Len(todo') : k + 1 \in 1..Len(todo) /\ todo'[k] = todo[k + 1]
        BY <1>2 DEF Done
      <4> QED  BY <1>1, <4>1, BeforeSpawn
    <3>6. CASE Len(todo') = 2
      <4>1. Len(todo) - 2 = 1
        BY <1>1, <3>2, <3>6
      <4>2. todo[1] = [do |-> "spawn", prog |-> "as", out |-> {Object(file)}]
        BY <3>1, <4>1
      <4>3. a = "as" /\ out = {Object(file)}
        BY <1>3, <4>2
      <4> QED  BY <1>1, <1>4, <3>1, <3>4, <3>5, <3>6, <4>3 DEF CompileRight, StillCompiled, Compiled
    <3>7. CASE Len(todo') # 2
      <4>1. Len(todo') - 2 \in 1..Len(todo') /\ (Len(todo') - 2) + 1 = Len(todo) - 2
        BY <1>2, <3>2, <3>7 DEF Done
      <4>2. todo'[Len(todo') - 2] = todo[Len(todo) - 2]
        BY <1>2, <4>1 DEF Done
      <4> QED  BY <1>1, <3>1, <3>4, <3>5, <3>7, <4>2 DEF CompileRight, StillCompiled, Compiled
    <3> QED  BY <3>6, <3>7
  <2>2. CASE Final = "finish"
    BY <1>5, <2>2 DEF CompileRight, StillCompiled, Compiled, Compiling
  <2> QED  BY <1>1, <2>1, <2>2
<1>14. ProgramsRight'
  <2>1. AllReaped' /\ AllEnded' /\ OutsApart'
    BY <1>1, <1>4, <1>5, <1>11 DEF AllReaped, AllEnded, OutsApart
  <2>2. ASSUME NEW p \in Prog
        PROVE  WaitsFor(p)'
    <3>1. CASE p # a
      <4>1. child'[p].out = {}
        BY <1>4, <3>1
      <4> QED  BY <4>1 DEF WaitsFor
    <3>2. CASE p = a
      <4>1. \A n \in out : OutRight(1, n)'
        BY <1>1, <1>7, <1>11 DEF OutRight, QueuedAt, IsTemp
      <4>2. Object(file) \in out => Len(todo') = 2
        BY <1>1, <1>5, <1>11
      <4>3. child'[p].out = out /\ child'[p].st = "running"
        BY <1>4, <3>2
      <4> QED  BY <1>1, <1>5, <1>11, <4>1, <4>2, <4>3 DEF WaitsFor
    <3> QED  BY <3>1, <3>2
  <2> QED  BY <2>1, <2>2 DEF ProgramsRight
<1>15. TempsRight'
  <2>1. \A k \in 1..Len(todo') : todo'[k].do \notin {"unlink", "forget"}
    <3>1. \A k \in 1..Len(todo') : k + 1 \in 1..Len(todo) /\ todo'[k] = todo[k + 1]
      BY <1>2 DEF Done
    <3> QED  BY <1>1, <3>1, BeforeSpawn
  <2>2. TempsQueued'
    BY <1>1 DEF IInv, Inv, TempsRight, TempsQueued, IsTemp
  <2> QED  BY <2>1, <2>2 DEF TempsRight, ForgetsDeleted, UnlinksOwn
<1>16. ObjectsRight'
  BY <1>1, BeforeSpawn DEF IInv, Inv, ObjectsRight, ObjectsSettled, Settled
<1> QED  BY <1>6, <1>8, <1>9, <1>10, <1>12, <1>13, <1>14, <1>15, <1>16 DEF IInv, Inv

(* At the end, and in the handler of signals, no name is recorded and no   *)
(* program is started.                                                     *)
NoWork == \A k \in 1..Len(todo) : todo[k].do \notin {"search", "push", "spawn"}
LEMMA NoWorkLeft ==
  ASSUME NoWork', Len(todo') \in Nat, Len(todo') >= 1
  PROVE  RecordsRight' /\ SpawnsRight'
<1>1. 1 \in 1..Len(todo') /\ \A k \in 2..Len(todo') : k \in 1..Len(todo')
  OBVIOUS
<1>2. NamesMayBeQueued' /\ SearchBeforePush'
  BY DEF NoWork, NamesMayBeQueued, SearchBeforePush
<1>3. PushAfterSearch' /\ PushNew'
  BY <1>1 DEF NoWork, PushAfterSearch, PushNew
<1>4. SpawnsRight'
  BY DEF NoWork, SpawnsRight
<1> QED  BY <1>2, <1>3, <1>4 DEF RecordsRight

(* fatal () deletes the temporary files and exits.                         *)
LEMMA FatalIs ==
  /\ Fatal \in Seq(Steps) /\ Fatal # <<>> /\ Len(Fatal) = 2
  /\ Fatal[1] = [do |-> "delete_always"] /\ Fatal[2] = [do |-> "exit"]
  /\ \A k \in 1..Len(Fatal) : k = 1 \/ k = 2
  /\ \A k \in 1..(Len(Fatal) - 1) : k = 1
<1>1. [do |-> "delete_always"] \in Steps /\ [do |-> "exit"] \in Steps
  BY DEF Steps
<1>2. \A s, t \in Steps : <<s, t>> \in Seq(Steps)
  OBVIOUS
<1>3. Fatal \in Seq(Steps)
  BY <1>1, <1>2 DEF Fatal
<1>4. /\ Fatal # <<>> /\ Len(Fatal) = 2
      /\ Fatal[1] = [do |-> "delete_always"] /\ Fatal[2] = [do |-> "exit"]
  BY DEF Fatal
<1> QED  BY <1>3, <1>4

(* fatal (), and the end of main ().                                       *)
LEMMA FatalKeeps ==
  ASSUME IInv, todo' = Fatal, errors' \in {errors, TRUE}, errors' \/ file = NFiles + 1, ended = "no",
         UNCHANGED <<options, queues, file, child, disk, good, signals, ended>>,
         \A p \in Prog : child[p].out = {},
         \A f \in Files : disk[Object(f)] # "absent" => Settled(f)
  PROVE  IInv'
<1> USE DEF options, queues
<1>1. /\ todo' \in Seq(Steps) /\ todo' # <<>> /\ Len(todo') = 2
      /\ todo'[1] = [do |-> "delete_always"] /\ todo'[2] = [do |-> "exit"]
      /\ \A k \in 1..Len(todo') : k = 1 \/ k = 2
      /\ \A k \in 1..(Len(todo') - 1) : k = 1
  BY FatalIs
<1>3. TypeOK'
  BY <1>1 DEF IInv, TypeOK
<1>4. Final' = "exit" /\ ~Compiling'
  BY <1>1 DEF Final, Compiling
<1>5. EndsRight'
  <2>1. "delete_always" \in Before'
    BY <1>4 DEF Before
  <2>2. \A k \in 1..(Len(todo') - 1) : todo'[k].do \in Before'
    BY <1>1, <2>1
  <2> QED  BY <1>1, <1>4, <2>2 DEF EndsRight, Ways, IInv, TypeOK
<1>6. RecordsRight' /\ SpawnsRight'
  <2>1. NoWork'
    BY <1>1 DEF NoWork
  <2> QED  BY <1>1, <2>1, NoWorkLeft
<1>7. QueueInv'
  BY DEF IInv, Inv, QueueInv, IsTemp
<1>8. CompileRight'
  BY <1>4 DEF CompileRight, StillCompiled, Compiled
<1>9. ProgramsRight'
  BY NoOuts
<1>10. TempsRight'
  <2>1. \A k \in 1..Len(todo') : todo'[k].do \notin {"unlink", "forget"}
    BY <1>1
  <2>2. TempsQueued'
    BY DEF IInv, Inv, TempsRight, TempsQueued, IsTemp
  <2> QED  BY <2>1, <2>2 DEF TempsRight, ForgetsDeleted, UnlinksOwn
<1>11. ObjectsRight'
  BY DEF IInv, Inv, ObjectsRight, ObjectsSettled, Settled, TypeOK
<1> QED  BY <1>3, <1>5, <1>6, <1>7, <1>8, <1>9, <1>10, <1>11 DEF IInv, Inv

(* A program cannot be started.                                            *)
LEMMA SpawnFailsKeeps ==
  ASSUME IInv, SpawnFails
  PROVE  IInv'
<1>1. /\ todo[1].do = "spawn" /\ ended = "no" /\ todo' = Fatal /\ errors' = TRUE
      /\ UNCHANGED <<options, queues, file, child, disk, good, signals, ended>>
  BY Place DEF IInv, Inv, SpawnFails, Do, Running, Step
<1> QED  BY <1>1, BeforeSpawn, FatalKeeps

(* The end of main ().                                                     *)
LEMMA EndOfMainKeeps ==
  ASSUME IInv, EndOfMain
  PROVE  IInv'
<1>1. /\ todo[1].do = "finish" /\ Len(todo) = 1 /\ Final = "finish" /\ ended = "no"
      /\ UNCHANGED <<options, queues, file, child, disk, good, errors, signals, ended>>
  BY Place DEF IInv, Inv, EndOfMain, Do, Running, Step, Ways
<1>2. file = NFiles + 1 /\ failure = <<>>
  <2>1. file = NFiles + 1
    BY <1>1 DEF IInv, Inv, EndsRight
  <2>2. file \notin Files
    BY <2>1, EndsAssumption DEF Files
  <2> QED  BY <2>1, <2>2 DEF IInv, Inv, QueueInv
<1>3. todo' = Fatal
  <2>1. Len(Delete(failure)) = 0 /\ Delete(failure) \in Seq(Steps)
    <3>1. failure \in Seq(Names) /\ Len(failure) = 0
      BY <1>2
    <3> QED  BY <3>1, DeleteIs
  <2>3. Delete(failure) = <<>>
    BY <2>1, EmptySeq
  <2>2. todo' = <<>> \o Fatal
    BY <2>3 DEF EndOfMain
  <2> QED  BY <2>2, FatalIs, ConcatEmptySeq
<1>4. \A p \in Prog : child[p].out = {}
  BY <1>1 DEF IInv, Inv, ProgramsRight, AllReaped
<1>5. \A f \in Files : disk[Object(f)] # "absent" => Settled(f)
  <2>1. \A n : ~UnlinkedBy(Len(todo), n)
    BY <1>1 DEF UnlinkedBy
  <2> QED  BY <1>1, <2>1 DEF IInv, Inv, ObjectsRight, ObjectsSettled, Compiling
<1> QED  BY <1>1, <1>2, <1>3, <1>4, <1>5, FatalKeeps

(* All programs of a line have ended.                                      *)
LEMMA BeforeWait ==
  ASSUME IInv, todo[1].do = "wait"
  PROVE  /\ Len(todo) \in Nat /\ Len(todo) > 1 /\ Final \in {"clear", "finish"}
         /\ \A k \in 1..Len(todo) : todo[k].do \notin {"unlink", "forget"}
         /\ Final = "clear" => Compiling /\ file \notin good
         /\ Final = "clear" /\ Len(todo) = 2 => child["as"].out = {Object(file)} /\ child["as"].st # "none"
         /\ Final = "clear" /\ Len(todo) # 2 =>
              todo[Len(todo) - 2] = [do |-> "spawn", prog |-> "as", out |-> {Object(file)}]
         /\ \A f \in Files : disk[Object(f)] # "absent" =>
              Settled(f) \/ (f = file /\ Object(f) \in Range(failure) /\ Final = "clear" /\ Len(todo) = 2)
<1>1. Len(todo) \in Nat /\ Len(todo) > 1 /\ Final \in {"clear", "finish"}
  BY Place DEF IInv, Inv
<1>2. ASSUME Final = "clear"
      PROVE  Compiling
  <2>1. SUFFICES ASSUME ~Compiling PROVE FALSE
    OBVIOUS
  <2>2. \A k \in 1..(Len(todo) - 1) : todo[k].do = "unlink"
    BY <1>2, <2>1 DEF IInv, Inv, CompileRight, Compiled
  <2> QED  BY <1>1, <2>2
<1>3. Final = "clear" =>
        /\ \A k \in 1..Len(todo) : todo[k].do # "unlink"
        /\ file \notin good
        /\ IF Len(todo) = 2 THEN child["as"].out = {Object(file)} /\ child["as"].st # "none"
           ELSE todo[Len(todo) - 2] = [do |-> "spawn", prog |-> "as", out |-> {Object(file)}]
  BY <1>2 DEF IInv, Inv, CompileRight, StillCompiled
<1>4. \A k \in 1..Len(todo) : todo[k].do \notin {"unlink", "forget"}
  <2>1. \A k \in 1..(Len(todo) - 1) : todo[k].do \in Before
    BY DEF IInv, Inv, EndsRight
  <2>2. \A k \in 1..(Len(todo) - 1) :
          todo[k].do # "forget" /\ (todo[k].do = "unlink" => Final = "clear")
    BY <1>1, <2>1 DEF Before
  <2>3. todo[Len(todo)].do \notin {"unlink", "forget"}
    BY <1>1 DEF Final
  <2>4. \A k \in 1..(Len(todo) - 1) : k \in 1..Len(todo)
    BY <1>1
  <2>5. \A k \in 1..Len(todo) : k = Len(todo) \/ k \in 1..(Len(todo) - 1)
    BY <1>1
  <2> QED  BY <1>3, <2>2, <2>3, <2>4, <2>5
<1>5. \A n : ~UnlinkedBy(Len(todo), n)
  BY <1>1, <1>4 DEF UnlinkedBy
<1>6. \A f \in Files : disk[Object(f)] # "absent" =>
        Settled(f) \/ (f = file /\ Object(f) \in Range(failure) /\ Final = "clear" /\ Len(todo) = 2)
  BY <1>5 DEF IInv, Inv, ObjectsRight, ObjectsSettled, Compiling
<1> QED  BY <1>1, <1>2, <1>3, <1>4, <1>6

(* All programs have ended, and their files are nobody's any more.         *)
LEMMA WaitedFacts ==
  ASSUME IInv, Waited
  PROVE  /\ todo[1].do = "wait" /\ ended = "no" /\ Len(todo) \in Nat /\ Len(todo) > 1
         /\ \A p \in Prog : child[p].st \in {"none", "reaped0", "reaped1"}
         /\ child' \in [Prog -> [st : States, out : SUBSET Names]]
         /\ \A p \in Prog : child'[p].out = {}
         /\ UNCHANGED <<options, queues, file, disk, signals, ended>>
<1>1. todo[1].do = "wait" /\ ended = "no"
      /\ UNCHANGED <<options, queues, file, disk, signals, ended>>
  BY Place DEF IInv, Inv, Waited, Do, Running, Step
<1>2. \A p \in Prog : child[p].st \in {"none", "reaped0", "reaped1"}
  BY DEF Waited, Line
<1>3. child' = [p \in Prog |-> [st |-> "none", out |-> {}]]
  BY DEF Waited, Forget
<1>4. child' \in [Prog -> [st : States, out : SUBSET Names]] /\ \A p \in Prog : child'[p].out = {}
  BY <1>3 DEF States
<1> QED  BY <1>1, <1>2, <1>4, BeforeWait

(* A program failed: what is in failure_delete_queue is deleted.           *)
LEMMA FailedKeeps ==
  ASSUME IInv, Waited, \E p \in Prog : child[p].st = "reaped1", file \in Files
  PROVE  IInv'
<1> USE DEF options, queues
<1>1. /\ todo' = Delete(failure) \o <<[do |-> "clear"]>> /\ errors' = TRUE /\ good' = good
  BY DEF Waited
<1>2. failure \in Seq(Names) /\ \A n \in Range(failure) : n = Object(file)
  BY DEF IInv, Inv, TypeOK, QueueInv
<1> DEFINE d == Delete(failure)
<1>3. /\ d \in Seq(Steps) /\ Len(d) = Len(failure) /\ Len(d) \in Nat
      /\ \A k \in 1..Len(d) : d[k] = [do |-> "unlink", name |-> failure[k]] /\ failure[k] = Object(file)
      /\ \A n \in Range(failure) : \E k \in 1..Len(d) : d[k] = [do |-> "unlink", name |-> n]
  <2>1. \A k \in 1..Len(failure) : failure[k] \in Range(failure)
    BY <1>2, RangeOf
  <2>2. \A k \in 1..Len(failure) : failure[k] = Object(file)
    BY <1>2, <2>1
  <2> HIDE DEF d
  <2>3. /\ d \in Seq(Steps) /\ Len(d) = Len(failure) /\ Len(failure) \in Nat
        /\ \A k \in 1..Len(failure) : d[k] = [do |-> "unlink", name |-> failure[k]]
        /\ \A n \in Range(failure) : \E k \in 1..Len(failure) : d[k] = [do |-> "unlink", name |-> n]
    BY <1>2, DeleteIs DEF d
  <2> QED  BY <2>2, <2>3
<1>4. <<ToClear>> \in Seq(Steps) /\ Len(<<ToClear>>) = 1 /\ <<ToClear>>[1] = ToClear /\ ToClear.do = "clear"
      /\ <<ToClear>> = <<[do |-> "clear"]>>
  BY DEF ToClear, Steps
<1>5. /\ todo' \in Seq(Steps) /\ Len(todo') = Len(d) + 1
      /\ \A i \in 1..(Len(d) + 1) : todo'[i] = IF i <= Len(d) THEN d[i] ELSE <<ToClear>>[i - Len(d)]
  <2>1. todo' = d \o <<ToClear>>
    BY <1>1, <1>4
  <2> HIDE DEF d
  <2> QED  BY <1>3, <1>4, <2>1, ConcatProperties
<1> HIDE DEF d
<1>6. /\ todo'[Len(todo')] = ToClear /\ Len(todo') \in Nat /\ Len(todo') >= 1
      /\ \A k \in 1..(Len(todo') - 1) : k \in 1..Len(d) /\ todo'[k] = d[k]
      /\ todo' # <<>>
  BY <1>3, <1>4, <1>5
<1>7. /\ Final' = "clear"
      /\ \A k \in 1..(Len(todo') - 1) : todo'[k] = [do |-> "unlink", name |-> Object(file)]
      /\ \A n \in Range(failure) : UnlinkedBy(Len(todo), n)'
  <2>1. \A k \in 1..(Len(todo') - 1) : todo'[k] = [do |-> "unlink", name |-> Object(file)]
    BY <1>3, <1>6
  <2>2. ASSUME NEW n \in Range(failure)
        PROVE  UnlinkedBy(Len(todo), n)'
    <3>1. PICK k \in 1..Len(d) : d[k] = [do |-> "unlink", name |-> n]
      BY <1>3
    <3>2. k \in 1..(Len(todo') - 1) /\ todo'[k] = [do |-> "unlink", name |-> n]
      BY <1>3, <1>5, <1>6, <3>1
    <3> QED  BY <3>2 DEF UnlinkedBy
  <2> QED  BY <1>4, <1>6, <2>1, <2>2 DEF Final
<1>8. \A k \in 1..Len(todo') : k = Len(todo') \/ k \in 1..(Len(todo') - 1)
  BY <1>6
<1>18. Final = "clear" /\ file \notin good
  <2>1. Final # "finish"
    BY EndsAssumption DEF IInv, Inv, EndsRight, Files
  <2> QED  BY <2>1, WaitedFacts, BeforeWait
<1>9. TypeOK'
  BY <1>1, <1>5, <1>6, WaitedFacts DEF IInv, TypeOK
<1>10. EndsRight'
  <2>1. "unlink" \in Before'
    BY <1>7 DEF Before
  <2>2. \A k \in 1..(Len(todo') - 1) : todo'[k].do \in Before'
    BY <1>7, <2>1
  <2> QED  BY <1>7, <2>2, WaitedFacts DEF EndsRight, Ways
<1>11. RecordsRight' /\ SpawnsRight'
  <2>1. NoWork'
    BY <1>4, <1>6, <1>7, <1>8 DEF NoWork
  <2> QED  BY <1>6, <2>1, NoWorkLeft
<1>12. QueueInv'
  BY WaitedFacts DEF IInv, Inv, QueueInv, IsTemp
<1>13. ~Compiling'
  BY <1>6, <1>7 DEF Compiling
<1>14. CompileRight'
  <2>1. \A k \in 1..(Len(todo') - 1) : todo'[k].do = "unlink"
    BY <1>7
  <2>2. file' \notin good' /\ errors'
    BY <1>1, <1>18, WaitedFacts
  <2> QED  BY <1>13, <2>1, <2>2 DEF CompileRight, StillCompiled, Compiled
<1>15. ProgramsRight'
  BY WaitedFacts, NoOuts
<1>16. TempsRight'
  <2>1. \A k \in 1..Len(todo') : todo'[k].do # "forget"
    BY <1>4, <1>6, <1>7, <1>8
  <2>2. UnlinksOwn'
    <3>1. \A k \in 1..Len(todo') : todo'[k].do = "unlink" => todo'[k].name = Object(file)
      BY <1>4, <1>6, <1>7, <1>8
    <3> QED  BY <3>1, WaitedFacts DEF UnlinksOwn
  <2>3. TempsQueued'
    BY WaitedFacts DEF IInv, Inv, TempsRight, TempsQueued, IsTemp
  <2> QED  BY <2>1, <2>2, <2>3 DEF TempsRight, ForgetsDeleted
<1>17. ObjectsRight'
  <2>1. ASSUME NEW f \in Files, disk'[Object(f)] # "absent"
        PROVE  \/ Settled(f)'
               \/ /\ f = file' /\ Object(f) \in Range(failure')
                  /\ UnlinkedBy(Len(todo), Object(f))'
    <3>1. /\ todo[1].do = "wait" /\ file' = file /\ disk' = disk /\ failure' = failure
          /\ good' = good
      BY <1>1, WaitedFacts
    <3>2. Settled(f) \/ (f = file /\ Object(f) \in Range(failure))
      BY <2>1, <3>1, BeforeWait
    <3> QED  BY <1>7, <3>1, <3>2 DEF Settled
  <2> QED  BY <1>1, <2>1, WaitedFacts DEF IInv, Inv, ObjectsRight, ObjectsSettled
<1> QED  BY <1>9, <1>10, <1>11, <1>12, <1>14, <1>15, <1>16, <1>17 DEF IInv, Inv

(* Or the driver goes on: with -c the input file may have been compiled.   *)
LEMMA WaitedOnKeeps ==
  ASSUME IInv, Waited, ~(file \in Files /\ \E p \in Prog : child[p].st = "reaped1")
  PROVE  IInv'
<1> USE DEF options, queues
<1>1. todo' = Tail(todo) /\ errors' \in {errors, TRUE}
  BY DEF Waited
<1>2. Done(1)
  BY <1>1, WaitedFacts, DoneOne DEF IInv
<1>3. /\ Final' = Final /\ Before' = Before /\ Final \in {"clear", "finish"}
      /\ Len(todo') = Len(todo) - 1 /\ Len(todo) \in Nat
      /\ \A k \in 1..Len(todo') : k + 1 \in 1..Len(todo) /\ todo'[k] = todo[k + 1]
  BY <1>2, DoneFinal, WaitedFacts, BeforeWait DEF Done
<1>4. Final = "clear" => file \in Files /\ \A p \in Prog : child[p].st # "reaped1"
  BY DEF IInv, Inv, EndsRight
<1>5. IF Final = "clear" /\ Len(todo) = 2 THEN good' = good \cup {file} ELSE good' = good
  <2>1. /\ Tail(todo) \in Seq(Steps) /\ Tail(todo) # <<>> /\ Head(Tail(todo)) = todo[2]
    <3>1. todo \in Seq(Steps) /\ todo # <<>>
      BY DEF IInv, TypeOK
    <3>2. /\ Tail(todo) \in Seq(Steps) /\ Len(Tail(todo)) = Len(todo) - 1
          /\ \A k \in 1..(Len(todo) - 1) : Tail(todo)[k] = todo[k + 1]
      BY <3>1, TailIs
    <3>3. Tail(todo) # <<>> /\ Tail(todo)[1] = todo[2]
      <4>1. Len(todo) \in Nat /\ Len(todo) > 1 /\ Len(Tail(todo)) # 0
        BY <3>2, WaitedFacts
      <4>2. 1 \in 1..(Len(todo) - 1)
        BY <4>1
      <4>3. Tail(todo)[1] = todo[1 + 1]
        BY <3>2, <4>2
      <4>4. Len(<<>>) = 0 /\ 1 + 1 = 2
        OBVIOUS
      <4>5. Tail(todo) # <<>>
        BY <4>1, <4>4, Zenon
      <4> QED  BY <4>3, <4>4, <4>5
    <3>4. Head(Tail(todo)) = Tail(todo)[1]
      BY <3>2, <3>3, TailIs
    <3> QED  BY <3>2, <3>3, <3>4
  <2>2. todo[2].do = "clear" <=> Final = "clear" /\ Len(todo) = 2
    <3>1. CASE Len(todo) = 2
      BY <3>1 DEF Final
    <3>2. CASE Len(todo) # 2
      <4>1. Len(todo) > 2
        BY <3>2, WaitedFacts, Counting
      <4>2. 2 \in 1..(Len(todo) - 1)
        BY <1>3, <4>1
      <4>3. todo[2].do \in Before
        BY <4>2 DEF IInv, Inv, EndsRight
      <4> QED  BY <1>3, <3>2, <4>3 DEF Before
    <3> QED  BY <3>1, <3>2
  <2> QED  BY <1>4, <2>1, <2>2 DEF Waited
<1>6. TypeOK'
  <2>1. good' \subseteq Files
    BY <1>4, <1>5 DEF IInv, TypeOK
  <2> QED  BY <1>1, <1>2, <2>1, WaitedFacts DEF IInv, TypeOK, Done
<1>7. EndsRight'
  <2>1. todo[1].do # "forget" /\ ~(Final \in {"exit", "die"})
    BY <1>3, WaitedFacts
  <2> QED  BY <1>1, <1>2, <2>1, WaitedFacts, DoneEnds DEF IInv, Inv
<1>8. /\ \A q : Queue(q)' = Queue(q)
      /\ \A q \in Queues : Range(Queue(q)) \subseteq Range(Queue(q)')
  BY WaitedFacts DEF Queue
<1>9. RecordsRight'
  BY <1>2, WaitedFacts, DoneRecords DEF IInv, Inv
<1>10. SpawnsRight'
  <2>1. \A j \in 1..1 : todo[j].do # "push"
    BY WaitedFacts
  <2> QED  BY <1>2, <1>8, <2>1, WaitedFacts, DoneSpawns DEF IInv, Inv
<1>11. QueueInv'
  BY WaitedFacts DEF IInv, Inv, QueueInv, IsTemp
<1>12. ProgramsRight'
  BY WaitedFacts, NoOuts
<1>13. \A k \in 1..Len(todo') : todo'[k].do \notin {"unlink", "forget"}
  BY <1>3, WaitedFacts, BeforeWait
<1>14. TempsRight'
  <2>1. TempsQueued'
    BY WaitedFacts DEF IInv, Inv, TempsRight, TempsQueued, IsTemp
  <2> QED  BY <1>13, <2>1 DEF TempsRight, ForgetsDeleted, UnlinksOwn
<1>15. CASE Final = "clear" /\ Len(todo) = 2
  <2>1. disk[Object(file)] = "whole"
    <3>1. child["as"].out = {Object(file)} /\ child["as"].st = "reaped0"
      BY <1>4, <1>15, WaitedFacts, BeforeWait DEF Prog
    <3>2. WaitsFor("as")
      BY WaitedFacts DEF IInv, Inv, ProgramsRight, Prog
    <3> QED  BY <3>1, <3>2 DEF WaitsFor
  <2>2. Len(todo') = 1 /\ ~Compiling'
    BY <1>3, <1>15 DEF Compiling
  <2>3. good' = good \cup {file} /\ file' = file /\ disk' = disk /\ link' = link
    BY <1>5, <1>15, WaitedFacts
  <2>4. CompileRight'
    <3>1. \A k \in 1..(Len(todo') - 1) : FALSE
      BY <2>2
    <3> QED  BY <2>1, <2>2, <2>3, <3>1 DEF CompileRight, StillCompiled, Compiled
  <2>5. ASSUME NEW f \in Files, disk'[Object(f)] # "absent"
        PROVE  Settled(f)'
    <3>1. Settled(f) \/ f = file
      BY <2>3, <2>5, WaitedFacts, BeforeWait
    <3>2. file \in Nat
      BY <1>4, <1>15 DEF Files
    <3> QED  BY <2>1, <2>3, <3>1, <3>2 DEF Settled
  <2>6. ObjectsRight'
    <3>1. \A f \in good' : f <= file'
      <4>1. file \in Nat
        BY <1>4, <1>15 DEF Files
      <4> QED  BY <2>3, <4>1 DEF IInv, Inv, ObjectsRight
    <3>2. ~link' => \A f \in good' : f < file' => disk'[Object(f)] = "whole"
      BY <2>1, <2>3 DEF IInv, Inv, ObjectsRight
    <3>3. ~errors' => \A f \in Files : f < file' => f \in good'
      BY <1>1, <2>3 DEF IInv, Inv, ObjectsRight
    <3> QED  BY <2>5, <3>1, <3>2, <3>3 DEF ObjectsRight, ObjectsSettled
  <2> QED  BY <1>6, <1>7, <1>9, <1>10, <1>11, <1>12, <1>14, <2>4, <2>6 DEF IInv, Inv
<1>16. CASE ~(Final = "clear" /\ Len(todo) = 2)
  <2>1. good' = good /\ file' = file /\ disk' = disk /\ link' = link
    BY <1>5, <1>16, WaitedFacts
  <2>2. CompileRight'
    <3>1. CASE Final = "clear"
      <4>1. /\ Compiling /\ Len(todo) > 2 /\ file \notin good
            /\ todo[Len(todo) - 2] = [do |-> "spawn", prog |-> "as", out |-> {Object(file)}]
        BY <1>16, <3>1, WaitedFacts, BeforeWait, Counting
      <4>2. Len(todo) - 2 # 1
        <5>1. todo[Len(todo) - 2].do = "spawn" /\ todo[1].do = "wait"
          BY <4>1, WaitedFacts
        <5> QED  BY <5>1
      <4>3. /\ Len(todo') - 1 \in 1..Len(todo') /\ (Len(todo') - 1) + 1 = Len(todo) - 1
            /\ Len(todo') - 2 \in 1..Len(todo') /\ (Len(todo') - 2) + 1 = Len(todo) - 2
            /\ Len(todo') > 2
        BY <1>3, <4>1, <4>2
      <4>4. todo'[Len(todo') - 1] = todo[Len(todo) - 1] /\ todo'[Len(todo') - 2] = todo[Len(todo) - 2]
        BY <1>3, <4>3
      <4>5. Compiling'
        BY <1>3, <4>1, <4>3, <4>4 DEF Compiling
      <4> QED  BY <1>13, <2>1, <4>1, <4>3, <4>4, <4>5 DEF CompileRight, StillCompiled, Compiled
    <3>2. CASE Final # "clear"
      BY <1>3, <3>2 DEF CompileRight, StillCompiled, Compiled, Compiling
    <3> QED  BY <3>1, <3>2
  <2>3. ObjectsRight'
    <3>1. \A f \in Files : disk'[Object(f)] # "absent" => Settled(f)'
      BY <1>16, <2>1, WaitedFacts, BeforeWait DEF Settled
    <3> QED  BY <1>1, <2>1, <3>1 DEF IInv, Inv, ObjectsRight, ObjectsSettled
  <2> QED  BY <1>6, <1>7, <1>9, <1>10, <1>11, <1>12, <1>14, <2>2, <2>3 DEF IInv, Inv
<1> QED  BY <1>15, <1>16

(* The line has been executed, well or not.                                *)
LEMMA WaitedKeeps ==
  ASSUME IInv, Waited
  PROVE  IInv'
  BY FailedKeeps, WaitedOnKeeps

(* The steps of an input file, none of them taken.                         *)
Begun == file \in Files /\ todo = Compile(file) /\ failure = <<>> /\ file \notin good /\ ended = "no"
NoDeletes == \A k \in 1..Len(todo) : todo[k].do \notin {"unlink", "forget"}
Listed == /\ todo \in Seq(Steps) /\ todo # <<>>
          /\ EndsRight /\ RecordsRight /\ SpawnsRight /\ CompileRight /\ NoDeletes
LEMMA BegunListed == Begun => Listed
<1> SUFFICES ASSUME Begun PROVE Listed
  OBVIOUS
<1>1. Recipe(todo, file)
  BY CompileIs DEF Begun
<1>2. /\ todo \in Seq(Steps) /\ Len(todo) > 2 /\ todo[1].do = "search"
      /\ todo[Len(todo)].do = "clear" /\ todo[Len(todo) - 1].do = "wait"
      /\ todo[Len(todo) - 2] = [do |-> "spawn", prog |-> "as", out |-> {Object(file)}]
      /\ \A k \in 1..(Len(todo) - 1) : todo[k].do \in {"search", "push", "spawn", "wait"}
  BY <1>1 DEF Recipe, RecipeEnds
<1>3. Len(todo) \in Nat /\ Final = "clear" /\ Compiling /\ todo # <<>>
  <2>1. Len(todo) \in Nat
    BY <1>2
  <2>2. Len(<<>>) = 0
    OBVIOUS
  <2> QED  BY <1>2, <2>1, <2>2 DEF Final, Compiling
<1>4. EndsRight
  <2>1. \A k \in 1..(Len(todo) - 1) : todo[k].do \in Before
    BY <1>2, <1>3 DEF Before
  <2> QED  BY <1>3, <2>1 DEF Begun, EndsRight, Ways
<1>5. NoDeletes
  <2>1. \A k \in 1..Len(todo) : k = Len(todo) \/ k \in 1..(Len(todo) - 1)
    BY <1>3
  <2> QED  BY <1>2, <2>1 DEF NoDeletes
<1>6. RecordsRight
  <2>1. RecipeRecords(todo, file)
    BY <1>1 DEF Recipe
  <2>2. NamesMayBeQueued
    BY <2>1 DEF RecipeRecords, NamesMayBeQueued, MayQueue
  <2>3. SearchBeforePush /\ PushAfterSearch
    BY <2>1 DEF RecipeRecords, SearchBeforePush, PushAfterSearch
  <2>4. PushNew
    BY <1>2 DEF PushNew
  <2> QED  BY <2>2, <2>3, <2>4 DEF RecordsRight
<1>7. SpawnsRight
  <2> SUFFICES ASSUME NEW k \in 1..Len(todo), todo[k].do = "spawn"
               PROVE  /\ k < Len(todo)
                      /\ todo[k].out # {} => Final = "clear" /\ todo[k + 1].do = "wait"
                      /\ \A n \in todo[k].out : OutRight(k, n)
                      /\ Object(file) \in todo[k].out => k = Len(todo) - 2
    BY DEF SpawnsRight
  <2>1. /\ k < Len(todo) /\ (todo[k].out # {} => todo[k + 1].do = "wait")
        /\ todo[k].out \in {{}, {Temp}, {Object(file)}}
        /\ Temp \in todo[k].out => Pushes(todo, k, Temp, "always")
        /\ Object(file) \in todo[k].out =>
             /\ k = Len(todo) - 2 /\ Pushes(todo, k, Object(file), "failure")
             /\ link => Pushes(todo, k, Object(file), "always")
    BY <1>1 DEF Recipe, RecipeSpawns
  <2>2. ASSUME NEW n \in todo[k].out
        PROVE  OutRight(k, n)
    <3>1. n = Temp \/ n = Object(file)
      BY <2>1
    <3>2. CASE n = Temp
      BY <2>1, <3>2 DEF OutRight, QueuedAt, Pushes
    <3>3. CASE n = Object(file)
      BY <2>1, <3>3, ObjectIsTemp, NamesApart DEF OutRight, QueuedAt, Pushes
    <3> QED  BY <3>1, <3>2, <3>3
  <2> QED  BY <1>3, <2>1, <2>2
<1>8. CompileRight
  <2>1. Len(todo) # 2
    BY <1>2, <1>3
  <2>2. \A k \in 1..Len(todo) : todo[k].do # "unlink"
    BY <1>5 DEF NoDeletes
  <2> QED  BY <1>2, <1>3, <2>1, <2>2 DEF Begun, CompileRight, StillCompiled, Compiled
<1> QED  BY <1>2, <1>3, <1>4, <1>5, <1>6, <1>7, <1>8 DEF Listed

(* The same for a step that begins with an input file.                     *)
LEMMA BegunNext == Begun' => Listed'
  BY BegunListed, PTL

(* ld, or nothing more to do but to end.                                   *)
Linking == Spawn("ld", {}) \o Wait \o <<[do |-> "finish"]>>
Ending == <<>> \o <<[do |-> "finish"]>>
AtEnd == (todo = Linking \/ todo = Ending) /\ file = NFiles + 1 /\ ended = "no"
LEMMA AtEndListed == AtEnd => Listed
<1> SUFFICES ASSUME AtEnd PROVE Listed
  OBVIOUS
<1> DEFINE e == [do |-> "finish"]
<1>1. e \in Steps /\ ToSpawn("ld", {}) \in Steps /\ ToWait \in Steps
  BY DEF Steps, ToSpawn, ToWait, Prog
<1>2. \A a \in Steps : <<a>> \in Seq(Steps)
  OBVIOUS
<1>3. /\ Linking \in Seq(Steps) /\ Len(Linking) = 3
      /\ Linking[1] = ToSpawn("ld", {}) /\ Linking[2] = ToWait /\ Linking[3] = e
      /\ Ending = <<e>>
  <2>1. Spawn("ld", {}) = <<ToSpawn("ld", {})>> /\ Wait = <<ToWait>>
    BY DEF Spawn, Wait, ToSpawn, ToWait
  <2>2. /\ Len(Linking) = 3
        /\ Linking[1] = ToSpawn("ld", {}) /\ Linking[2] = ToWait /\ Linking[3] = e
    BY <2>1 DEF Linking
  <2>3. <<ToSpawn("ld", {})>> \in Seq(Steps) /\ <<ToWait>> \in Seq(Steps) /\ <<e>> \in Seq(Steps)
    BY <1>1, <1>2
  <2>4. Linking \in Seq(Steps)
    BY <2>1, <2>3, Joined DEF Linking
  <2>5. <<>> \o <<e>> = <<e>>
    OBVIOUS
  <2> QED  BY <2>2, <2>4, <2>5 DEF Ending
<1>4. file \notin Files
  BY EndsAssumption DEF AtEnd, Files
<1>5. CASE todo = Ending
  <2>1. /\ todo \in Seq(Steps) /\ Len(todo) = 1 /\ todo[1].do = "finish" /\ todo # <<>>
    BY <1>1, <1>2, <1>3, <1>5
  <2>2. \A k \in 1..Len(todo) : todo[k].do = "finish"
    BY <2>1
  <2>3. \A k \in 1..(Len(todo) - 1) : FALSE
    BY <2>1
  <2>4. Final = "finish"
    BY <2>1 DEF Final
  <2>5. EndsRight
    BY <2>3, <2>4 DEF AtEnd, EndsRight, Ways
  <2>6. CompileRight /\ NoDeletes
    BY <2>2, <2>4 DEF CompileRight, StillCompiled, Compiled, Compiling, NoDeletes
  <2>7. SpawnsRight
    BY <2>2 DEF SpawnsRight
  <2>8. NamesMayBeQueued /\ SearchBeforePush /\ PushNew
    BY <2>1, <2>2 DEF NamesMayBeQueued, SearchBeforePush, PushNew
  <2>9. PushAfterSearch
    <3>1. \A k \in 2..Len(todo) : FALSE
      BY <2>1
    <3> QED  BY <3>1 DEF PushAfterSearch
  <2> QED  BY <2>1, <2>5, <2>6, <2>7, <2>8, <2>9 DEF Listed, RecordsRight
<1>6. CASE todo = Linking
  <2>1. /\ todo \in Seq(Steps) /\ Len(todo) = 3 /\ todo # <<>>
        /\ todo[1] = ToSpawn("ld", {}) /\ todo[2] = ToWait /\ todo[3] = e
    <3>1. Len(<<>>) = 0
      OBVIOUS
    <3> QED  BY <1>3, <1>6, <3>1
  <2>2. \A k \in 1..Len(todo) : k = 1 \/ k = 2 \/ k = 3
    BY <2>1
  <2>3. \A k \in 1..(Len(todo) - 1) : k = 1 \/ k = 2
    BY <2>1
  <2>4. Final = "finish"
    BY <2>1 DEF Final
  <2>5. EndsRight
    <3>1. \A k \in 1..(Len(todo) - 1) : todo[k].do \in Before
      BY <2>1, <2>3, <2>4 DEF Before, ToSpawn, ToWait
    <3> QED  BY <2>4, <3>1 DEF AtEnd, EndsRight, Ways
  <2>6. CompileRight /\ NoDeletes
    BY <2>1, <2>2, <2>4
    DEF CompileRight, StillCompiled, Compiled, Compiling, NoDeletes, ToSpawn, ToWait
  <2>7. SpawnsRight
    BY <2>1, <2>2 DEF SpawnsRight, ToSpawn, ToWait
  <2>8. NamesMayBeQueued /\ SearchBeforePush /\ PushNew /\ PushAfterSearch
    <3>1. \A k \in 1..Len(todo) : todo[k].do \notin {"search", "push"}
      BY <2>1, <2>2 DEF ToSpawn, ToWait
    <3>2. 1 \in 1..Len(todo) /\ \A k \in 2..Len(todo) : k \in 1..Len(todo)
      BY <2>1
    <3> QED  BY <3>1, <3>2 DEF NamesMayBeQueued, SearchBeforePush, PushNew, PushAfterSearch
  <2> QED  BY <2>1, <2>5, <2>6, <2>7, <2>8 DEF Listed, RecordsRight
<1> QED  BY <1>5, <1>6 DEF AtEnd

(* The same for a step after which no input file is left.                  *)
LEMMA AtEndNext == AtEnd' => Listed'
  BY AtEndListed, PTL

(* clear_failure_queue (), and on.                                         *)
LEMMA NextFileKeeps ==
  ASSUME IInv, NextFile
  PROVE  IInv'
<1> USE DEF options
<1>1. /\ todo[1].do = "clear" /\ Len(todo) = 1 /\ Final = "clear" /\ ended = "no"
      /\ failure' = <<>> /\ file' = file + 1
      /\ UNCHANGED <<options, always, child, disk, good, errors, signals, ended>>
  BY Place DEF IInv, Inv, NextFile, Do, Running, Step, Ways
<1>2. file \in Files /\ ~Compiling
  BY <1>1 DEF IInv, Inv, EndsRight, Compiling
<1>3. file \in 1..NFiles /\ NFiles \in Nat /\ file \in Nat /\ file + 1 \in 1..(NFiles + 1)
  BY <1>2, EndsAssumption DEF Files
<1>4. IF file \in good THEN disk[Object(file)] = "whole" ELSE errors
  BY <1>1, <1>2 DEF IInv, Inv, CompileRight, Compiled
<1>5. \A p \in Prog : child'[p].out = {}
  BY <1>1 DEF IInv, Inv, ProgramsRight, AllReaped
<1>6. \A f \in Files : disk[Object(f)] # "absent" => Settled(f)
  <2>1. \A n : ~UnlinkedBy(Len(todo), n)
    BY <1>1 DEF UnlinkedBy
  <2> QED  BY <1>2, <2>1 DEF IInv, Inv, ObjectsRight, ObjectsSettled
<1>7. good \subseteq Files /\ \A f \in good : f <= file
  BY DEF IInv, Inv, TypeOK, ObjectsRight
<1>8. file' \notin good'
  BY <1>1, <1>3, <1>7
<1>9. Begun' \/ AtEnd'
  <2>1. CASE file < NFiles
    <3>1. todo' = Compile(file + 1)
      BY <2>1 DEF NextFile, Later
    <3>2. Compile(file + 1) = Compile(file)'
      BY <1>1 DEF Compile, RecordObject
    <3>3. file' \in Files
      BY <1>1, <1>3, <2>1 DEF Files
    <3> QED  BY <1>1, <1>8, <3>1, <3>2, <3>3 DEF Begun
  <2>2. CASE ~(file < NFiles)
    <3>1. file' = NFiles + 1
      BY <1>1, <1>3, <2>2
    <3>2. todo' = Linking \/ todo' = Ending
      BY <2>2 DEF NextFile, Later, Linking, Ending
    <3>3. Linking' = Linking /\ Ending' = Ending
      BY DEF Linking, Ending, Spawn, Wait
    <3> QED  BY <1>1, <3>1, <3>2, <3>3 DEF AtEnd
  <2> QED  BY <2>1, <2>2
<1>10. Listed'
  BY <1>9, BegunNext, AtEndNext
<1>11. TypeOK'
  BY <1>1, <1>3, <1>10 DEF IInv, TypeOK, Listed
<1>12. QueueInv'
  <2>1. IsInjective(<<>>) /\ Range(<<>>) = {}
    BY DEF IsInjective, Range
  <2> QED  BY <1>1, <2>1 DEF IInv, Inv, QueueInv, IsTemp
<1>13. ProgramsRight'
  BY <1>5, NoOuts
<1>14. TempsRight'
  <2>1. TempsQueued'
    BY <1>1 DEF IInv, Inv, TempsRight, TempsQueued, IsTemp
  <2> QED  BY <1>10, <2>1 DEF Listed, NoDeletes, TempsRight, ForgetsDeleted, UnlinksOwn
<1>15. ObjectsRight'
  <2>1. \A f \in Files : f \in Nat
    BY DEF Files
  <2>2. \A f \in Files : disk'[Object(f)] # "absent" => Settled(f)'
    BY <1>1, <1>3, <1>6, <2>1 DEF Settled
  <2>3. \A f \in good' : f <= file'
    BY <1>1, <1>3, <1>7, <2>1
  <2>4. \A f \in Files : f < file' => f < file \/ f = file
    BY <1>1, <1>3, <2>1
  <2>5. ~link' => \A f \in good' : f < file' => disk'[Object(f)] = "whole"
    BY <1>1, <1>4, <1>7, <2>4 DEF IInv, Inv, ObjectsRight
  <2>6. ~errors' => \A f \in Files : f < file' => f \in good'
    BY <1>1, <1>4, <2>4 DEF IInv, Inv, ObjectsRight
  <2> QED  BY <2>2, <2>3, <2>5, <2>6 DEF ObjectsRight, ObjectsSettled
<1> QED  BY <1>10, <1>11, <1>12, <1>13, <1>14, <1>15 DEF IInv, Inv, Listed

-----------------------------------------------------------------------------
(* When the driver ends it only deletes.                                   *)
Leaving == TypeOK /\ EndsRight /\ Final \in {"exit", "die"}
OnlyDeletes == NoWork /\ \A k \in 1..Len(todo) : todo[k].do \notin {"wait", "clear", "finish"}
LEMMA LeavingDeletes == Leaving => OnlyDeletes
<1> SUFFICES ASSUME Leaving PROVE OnlyDeletes
  OBVIOUS
<1>1. Len(todo) \in Nat /\ \A k \in 1..Len(todo) : k = Len(todo) \/ k \in 1..(Len(todo) - 1)
  BY Place DEF Leaving
<1>2. \A k \in 1..(Len(todo) - 1) : todo[k].do \in Before
  BY DEF Leaving, EndsRight
<1>3. \A k \in 1..(Len(todo) - 1) : todo[k].do \in {"unlink", "delete_always", "forget"}
  BY <1>2 DEF Leaving, Before
<1>4. todo[Len(todo)].do \in {"exit", "die"}
  BY DEF Leaving, Final
<1> QED  BY <1>1, <1>3, <1>4 DEF OnlyDeletes, NoWork

(* The same for a step after which the driver ends.                        *)
LEMMA LeavingNext == Leaving' => OnlyDeletes'
  BY LeavingDeletes, PTL

(* No program is started or waited for any more.                           *)
LEMMA LeavingPrograms ==
  ASSUME IInv, TypeOK', EndsRight', Final' \in {"exit", "die"}, OutsApart',
         \A p \in Prog : child'[p].st = "running" => child'[p].out = {}
  PROVE  RecordsRight' /\ SpawnsRight' /\ CompileRight' /\ ProgramsRight'
<1>1. OnlyDeletes'
  BY LeavingNext DEF Leaving
<1>2. todo' \in Seq(Steps) /\ todo' # <<>>
  BY DEF TypeOK
<1>3. Len(todo') \in Nat /\ Len(todo') >= 1
  BY <1>2, TailIs
<1>4. RecordsRight' /\ SpawnsRight'
  BY <1>1, <1>3, NoWorkLeft DEF OnlyDeletes
<1>5. CompileRight'
  BY DEF CompileRight, StillCompiled, Compiled, Compiling
<1>6. ProgramsRight'
  <2>1. todo'[1].do # "wait"
    <3>1. 1 \in 1..Len(todo')
      BY <1>3
    <3> QED  BY <1>1, <3>1 DEF OnlyDeletes
  <2> QED  BY <2>1 DEF ProgramsRight, AllReaped, AllEnded
<1> QED  BY <1>4, <1>5, <1>6

(* A file is deleted.                                                      *)
LEMMA UnlinkKeeps ==
  ASSUME IInv, Unlink
  PROVE  IInv'
<1> USE DEF options, queues
<1>1. /\ Len(todo) \in Nat /\ Len(todo) > 1 /\ todo[1].do = "unlink" /\ todo[1] \in Steps
      /\ Final \in {"clear", "exit", "die"} /\ ended = "no" /\ todo' = Tail(todo) /\ Step = todo[1]
      /\ UNCHANGED <<options, queues, file, child, good, errors, signals, ended>>
  BY Place DEF IInv, Inv, Unlink, Do, Running, Step
<1>2. PICK n \in Names : n = todo[1].name
  BY <1>1, StepFields
<1>3. disk' = [disk EXCEPT ![n] = "absent"] /\ disk \in [Names -> {"absent", "part", "whole"}]
  BY <1>1, <1>2 DEF Unlink, IInv, TypeOK
<1>4. \A x \in Names : disk'[x] = IF x = n THEN "absent" ELSE disk[x]
  BY <1>3
<1>5. Done(1)
  BY <1>1, DoneOne DEF IInv
<1>6. /\ Final' = Final /\ Before' = Before
      /\ Len(todo') = Len(todo) - 1
      /\ \A k \in 1..Len(todo') : k + 1 \in 1..Len(todo) /\ todo'[k] = todo[k + 1]
  BY <1>5, DoneFinal DEF Done
<1>7. TypeOK'
  BY <1>1, <1>3, <1>5 DEF IInv, TypeOK, Done
<1>8. EndsRight'
  BY <1>1, <1>5, DoneEnds DEF IInv, Inv
<1>9. QueueInv'
  BY <1>1 DEF IInv, Inv, QueueInv, IsTemp
<1>10. IsTemp(n) \/ n = Object(file)
  <2>1. 1 \in 1..Len(todo)
    BY <1>1
  <2> QED  BY <1>1, <1>2, <2>1 DEF IInv, Inv, TempsRight, UnlinksOwn
<1>11. ~Compiling
  <2>1. 1 \in 1..Len(todo)
    BY <1>1
  <2> QED  BY <1>1, <2>1 DEF IInv, Inv, CompileRight, StillCompiled
<1>12. RecordsRight' /\ SpawnsRight' /\ CompileRight' /\ ProgramsRight'
  <2>1. CASE Final \in {"exit", "die"}
    <3>1. /\ OutsApart' /\ \A p \in Prog : child'[p].st = "running" => child'[p].out = {}
      BY <1>1, <2>1 DEF IInv, Inv, ProgramsRight, AllEnded, OutsApart
    <3> QED  BY <1>6, <1>7, <1>8, <2>1, <3>1, LeavingPrograms
  <2>2. CASE Final = "clear"
    <3>1. /\ \A q : Queue(q)' = Queue(q)
          /\ \A q \in Queues : Range(Queue(q)) \subseteq Range(Queue(q)')
      BY <1>1 DEF Queue
    <3>2. \A j \in 1..1 : todo[j].do # "push"
      BY <1>1
    <3>3. RecordsRight'
      BY <1>1, <1>5, DoneRecords DEF IInv, Inv
    <3>4. SpawnsRight'
      BY <1>1, <1>5, <3>1, <3>2, DoneSpawns DEF IInv, Inv
    <3>5. /\ \A k \in 1..(Len(todo) - 1) : todo[k].do = "unlink"
          /\ file \notin good /\ errors
      <4>1. Compiled /\ Len(todo) # 1
        BY <1>1, Counting DEF IInv, Inv, CompileRight
      <4>2. IF file \in good THEN Len(todo) = 1 /\ disk[Object(file)] = "whole" ELSE errors
        BY <1>11, <2>2, <4>1 DEF Compiled
      <4> QED  BY <1>11, <2>2, <4>1, <4>2 DEF Compiled
    <3>6. \A k \in 1..(Len(todo') - 1) : todo'[k].do = "unlink"
      <4>1. \A k \in 1..(Len(todo') - 1) :
              k \in 1..Len(todo') /\ k + 1 \in 1..(Len(todo) - 1)
        BY <1>1, <1>6
      <4> QED  BY <1>6, <3>5, <4>1
    <3>7. ~Compiling'
      <4>1. Len(todo') \in Nat /\ (Len(todo') > 1 => Len(todo') - 1 \in 1..(Len(todo') - 1))
        BY <1>1, <1>6
      <4> QED  BY <3>6, <4>1 DEF Compiling
    <3>8. CompileRight'
      BY <1>1, <3>5, <3>6, <3>7 DEF CompileRight, StillCompiled, Compiled
    <3>9. ProgramsRight'
      <4>1. \A p \in Prog : child'[p].out = {}
        BY <1>1, <2>2 DEF IInv, Inv, ProgramsRight, AllReaped
      <4> QED  BY <4>1, NoOuts
    <3> QED  BY <3>3, <3>4, <3>8, <3>9
  <2> QED  BY <1>1, <2>1, <2>2
<1>13. ASSUME NEW k \in 1..Len(todo'), NEW x, UnlinkedBy(k + 1, x)
       PROVE  x = n \/ UnlinkedBy(k, x)'
  <2>1. PICK j \in 1..((k + 1) - 1) : todo[j].do = "unlink" /\ todo[j].name = x
    BY <1>13 DEF UnlinkedBy
  <2>2. CASE j = 1
    BY <1>2, <2>1, <2>2
  <2>3. CASE j # 1
    <3>1. j - 1 \in 1..(k - 1) /\ j - 1 \in 1..Len(todo') /\ (j - 1) + 1 = j
      BY <1>1, <1>6, <2>1, <2>3
    <3>2. todo'[j - 1] = todo[j]
      BY <1>6, <3>1
    <3> QED  BY <2>1, <3>1, <3>2 DEF UnlinkedBy
  <2> QED  BY <2>2, <2>3
<1>14. TempsRight'
  <2>1. TempsQueued'
    BY <1>1, <1>4 DEF IInv, Inv, TempsRight, TempsQueued, IsTemp
  <2>2. ForgetsDeleted'
    <3> SUFFICES ASSUME NEW k \in 1..Len(todo'), todo'[k].do = "forget", NEW x \in Range(always')
                 PROVE  disk'[x] = "absent" \/ UnlinkedBy(k, x)'
      BY DEF ForgetsDeleted
    <3>1. x \in Names
      BY <1>1, RangeOf, ElementOfSeq DEF IInv, TypeOK
    <3>2. disk[x] = "absent" \/ UnlinkedBy(k + 1, x)
      BY <1>1, <1>6 DEF IInv, Inv, TempsRight, ForgetsDeleted
    <3> QED  BY <1>4, <1>13, <3>1, <3>2
  <2>3. UnlinksOwn'
    BY <1>1, <1>6 DEF IInv, Inv, TempsRight, UnlinksOwn, IsTemp
  <2> QED  BY <2>1, <2>2, <2>3 DEF TempsRight
<1>15. ObjectsRight'
  <2>1. ASSUME NEW f \in Files, disk'[Object(f)] # "absent"
        PROVE  \/ Settled(f)'
               \/ /\ f = file' /\ Object(f) \in Range(failure')
                  /\ UnlinkedBy(Len(todo), Object(f))'
    <3>1. Object(f) \in Names /\ Object(f) # n /\ disk'[Object(f)] = disk[Object(f)]
      BY <1>4, <2>1, NamesApart
    <3>2. \/ Settled(f)
          \/ f = file /\ Object(f) \in Range(failure) /\ UnlinkedBy(Len(todo), Object(f))
      BY <1>11, <2>1, <3>1 DEF IInv, Inv, ObjectsRight, ObjectsSettled
    <3>3. Len(todo') \in 1..Len(todo') /\ Len(todo') + 1 = Len(todo)
      BY <1>1, <1>6
    <3>4. UnlinkedBy(Len(todo), Object(f)) => UnlinkedBy(Len(todo), Object(f))'
      BY <1>13, <3>1, <3>3
    <3> QED  BY <1>1, <3>1, <3>2, <3>4 DEF Settled
  <2>2. ~link' => \A f \in good' : f < file' => disk'[Object(f)] = "whole"
    <3> SUFFICES ASSUME ~link, NEW f \in good, f < file
                 PROVE  disk'[Object(f)] = "whole"
      BY <1>1
    <3>1. f \in Files /\ file \in Nat /\ f \in Nat
      BY DEF IInv, TypeOK, Files
    <3>2. Object(f) \in Names /\ Object(f) # n
      BY <1>10, <3>1, NamesApart DEF IsTemp
    <3> QED  BY <1>4, <3>2 DEF IInv, Inv, ObjectsRight
  <2> QED  BY <1>1, <2>1, <2>2 DEF IInv, Inv, ObjectsRight, ObjectsSettled
<1> QED  BY <1>7, <1>8, <1>9, <1>12, <1>14, <1>15 DEF IInv, Inv

(* The empty queue.                                                        *)
LEMMA NoneLeft == /\ <<>> \in Seq(Names) /\ IsInjective(<<>>) /\ Range(<<>>) = {}
<1>1. DOMAIN <<>> = {}
  OBVIOUS
<1> QED  BY <1>1 DEF IsInjective, Range

(* delete_temp_files () has deleted all temporary files.                   *)
LEMMA ForgetKeeps ==
  ASSUME IInv, ForgetAlways
  PROVE  IInv'
<1> USE DEF options
<1>1. /\ Len(todo) \in Nat /\ Len(todo) > 1 /\ todo[1].do = "forget"
      /\ Final \in {"exit", "die"} /\ ended = "no" /\ todo' = Tail(todo) /\ always' = <<>>
      /\ UNCHANGED <<options, failure, file, child, disk, good, errors, signals, ended>>
  BY Place DEF IInv, Inv, ForgetAlways, Do, Running, Step
<1>2. Done(1)
  BY <1>1, DoneOne DEF IInv
<1>3. /\ Final' = Final /\ Before' = Before
      /\ Len(todo') = Len(todo) - 1
      /\ \A k \in 1..Len(todo') : k + 1 \in 1..Len(todo) /\ todo'[k] = todo[k + 1]
  BY <1>2, DoneFinal DEF Done
<1>4. TypeOK'
  BY <1>1, <1>2, NoneLeft DEF IInv, TypeOK, Done
<1>5. EndsRight'
  BY <1>1, <1>2, DoneEnds DEF IInv, Inv
<1>6. RecordsRight' /\ SpawnsRight' /\ CompileRight' /\ ProgramsRight'
  <2>1. /\ OutsApart' /\ \A p \in Prog : child'[p].st = "running" => child'[p].out = {}
    BY <1>1 DEF IInv, Inv, ProgramsRight, AllEnded, OutsApart
  <2> QED  BY <1>1, <1>3, <1>4, <1>5, <2>1, LeavingPrograms
<1>7. QueueInv'
  BY <1>1, NoneLeft DEF IInv, Inv, QueueInv
<1>8. TempsRight'
  <2>1. \A n \in Range(always) : disk[n] = "absent"
    <3>1. \A n : ~UnlinkedBy(1, n)
      BY DEF UnlinkedBy
    <3>2. 1 \in 1..Len(todo)
      BY <1>1
    <3> QED  BY <1>1, <3>1, <3>2 DEF IInv, Inv, TempsRight, ForgetsDeleted
  <2>2. TempsQueued'
    BY <1>1, <2>1 DEF IInv, Inv, TempsRight, TempsQueued, IsTemp
  <2>3. ForgetsDeleted'
    BY <1>1, NoneLeft DEF ForgetsDeleted
  <2>4. UnlinksOwn'
    BY <1>1, <1>3 DEF IInv, Inv, TempsRight, UnlinksOwn, IsTemp
  <2> QED  BY <2>2, <2>3, <2>4 DEF TempsRight
<1>9. ObjectsRight'
  <2>1. ASSUME NEW x, UnlinkedBy(Len(todo), x)
        PROVE  UnlinkedBy(Len(todo), x)'
    <3>1. PICK j \in 1..(Len(todo) - 1) : todo[j].do = "unlink" /\ todo[j].name = x
      BY <2>1 DEF UnlinkedBy
    <3>2. j # 1
      BY <1>1, <3>1
    <3>3. j - 1 \in 1..(Len(todo') - 1) /\ j - 1 \in 1..Len(todo') /\ (j - 1) + 1 = j
      BY <1>1, <1>3, <3>1, <3>2
    <3>4. todo'[j - 1] = todo[j]
      BY <1>3, <3>3
    <3> QED  BY <3>1, <3>3, <3>4 DEF UnlinkedBy
  <2>2. ~Compiling
    BY <1>1 DEF Compiling
  <2>3. ObjectsSettled'
    BY <1>1, <2>1, <2>2 DEF IInv, Inv, ObjectsRight, ObjectsSettled, Settled
  <2> QED  BY <1>1, <2>3 DEF IInv, Inv, ObjectsRight
<1> QED  BY <1>4, <1>5, <1>6, <1>7, <1>8, <1>9 DEF IInv, Inv

(* delete_temp_files () begins: the names in the queue come first.         *)
ToForget == [do |-> "forget"]
ToDie == [do |-> "die"]
LEMMA DeleteAlwaysKeeps ==
  ASSUME IInv, DeleteAlways
  PROVE  IInv'
<1> USE DEF options, queues
<1>1. /\ Len(todo) \in Nat /\ Len(todo) > 1 /\ todo[1].do = "delete_always"
      /\ Final = "exit" /\ ended = "no"
      /\ todo' = Delete(always) \o <<ToForget>> \o Tail(todo)
      /\ UNCHANGED <<options, queues, file, child, disk, good, errors, signals, ended>>
  BY Place DEF IInv, Inv, DeleteAlways, Do, Running, Step, ToForget
<1> DEFINE d == Delete(always)
           n == Len(always)
<1>2. /\ d \in Seq(Steps) /\ Len(d) = n /\ n \in Nat
      /\ \A k \in 1..n : d[k] = [do |-> "unlink", name |-> always[k]]
      /\ \A x \in Range(always) : \E k \in 1..n : d[k] = [do |-> "unlink", name |-> x]
      /\ \A k \in 1..n : always[k] \in Range(always)
  BY DeleteIs, RangeOf DEF IInv, TypeOK
<1>3. <<ToForget>> \in Seq(Steps) /\ Len(<<ToForget>>) = 1 /\ <<ToForget>>[1] = ToForget
  BY DEF ToForget, Steps
<1>4. /\ Tail(todo) \in Seq(Steps) /\ Len(Tail(todo)) = Len(todo) - 1
      /\ \A k \in 1..(Len(todo) - 1) : Tail(todo)[k] = todo[k + 1]
  BY TailIs DEF IInv, TypeOK
<1>5. /\ todo' \in Seq(Steps) /\ Len(todo') = n + Len(todo)
      /\ \A k \in 1..n : todo'[k] = d[k]
      /\ todo'[n + 1] = ToForget
      /\ \A k \in 2..Len(todo) : todo'[n + k] = todo[k]
  <2> DEFINE e == d \o <<ToForget>>
             t == Tail(todo)
  <2>1. todo' = e \o t
    BY <1>1
  <2> HIDE DEF d, n, t
  <2>2. /\ e \in Seq(Steps) /\ Len(e) = n + 1
        /\ \A k \in 1..(n + 1) : e[k] = IF k <= n THEN d[k] ELSE <<ToForget>>[k - n]
    BY <1>2, <1>3, ConcatProperties
  <2> HIDE DEF e
  <2>3. t \in Seq(Steps) /\ Len(t) = Len(todo) - 1 /\ \A k \in 1..(Len(todo) - 1) : t[k] = todo[k + 1]
    BY <1>4 DEF t
  <2>4. /\ todo' \in Seq(Steps) /\ Len(todo') = Len(e) + Len(t)
        /\ \A k \in 1..(Len(e) + Len(t)) : todo'[k] = IF k <= Len(e) THEN e[k] ELSE t[k - Len(e)]
    BY <2>1, <2>2, <2>3, ConcatProperties
  <2>5. Len(todo') = n + Len(todo)
    BY <1>1, <1>2, <2>2, <2>3, <2>4
  <2>6. ASSUME NEW k \in 1..n
        PROVE  todo'[k] = d[k]
    <3>1. k \in 1..(Len(e) + Len(t)) /\ k <= Len(e) /\ k \in 1..(n + 1) /\ k <= n
      BY <1>1, <1>2, <2>2, <2>3
    <3> QED  BY <2>2, <2>4, <3>1
  <2>7. todo'[n + 1] = ToForget
    <3>1. n + 1 \in 1..(Len(e) + Len(t)) /\ n + 1 <= Len(e) /\ n + 1 \in 1..(n + 1)
          /\ ~(n + 1 <= n) /\ (n + 1) - n = 1
      BY <1>1, <1>2, <2>2, <2>3
    <3>2. todo'[n + 1] = e[n + 1] /\ e[n + 1] = <<ToForget>>[(n + 1) - n]
      BY <2>2, <2>4, <3>1
    <3> QED  BY <1>3, <3>1, <3>2
  <2>8. ASSUME NEW k \in 2..Len(todo)
        PROVE  todo'[n + k] = todo[k]
    <3>1. n + k \in 1..(Len(e) + Len(t)) /\ ~(n + k <= Len(e)) /\ (n + k) - Len(e) = k - 1
          /\ k - 1 \in 1..(Len(todo) - 1) /\ (k - 1) + 1 = k
      BY <1>1, <1>2, <2>2, <2>3
    <3>2. todo'[n + k] = t[k - 1]
      BY <2>4, <3>1
    <3> QED  BY <2>3, <3>1, <3>2
  <2> QED  BY <2>4, <2>5, <2>6, <2>7, <2>8
<1> HIDE DEF d, n
<1>6. \A k \in 1..Len(todo') : \/ k \in 1..n
                               \/ k = n + 1
                               \/ k - n \in 2..Len(todo) /\ n + (k - n) = k
  BY <1>1, <1>2, <1>5
<1>7. Final' = "exit" /\ todo' # <<>> /\ Len(todo') >= 2 /\ Before' = Before
  <2>1. n + Len(todo) >= 2 /\ n + Len(todo) \in Nat /\ Len(todo) \in 2..Len(todo)
    BY <1>1, <1>2
  <2>2. Final' = Final
    BY <1>5, <2>1 DEF Final
  <2>3. Len(<<>>) = 0
    OBVIOUS
  <2> QED  BY <1>1, <1>5, <2>1, <2>2, <2>3 DEF Before
<1>8. TypeOK'
  BY <1>1, <1>5, <1>7 DEF IInv, TypeOK
<1>9. EndsRight'
  <2>1. \A k \in 1..(Len(todo) - 1) : todo[k].do \in Before
    BY DEF IInv, Inv, EndsRight
  <2>2. Before = {"unlink", "delete_always", "forget"}
    BY <1>1 DEF Before
  <2>3. ASSUME NEW k \in 1..(Len(todo') - 1)
        PROVE  todo'[k].do \in Before
    <3>1. k \in 1..Len(todo') /\ (k - n \in 2..Len(todo) => k - n \in 1..(Len(todo) - 1))
      BY <1>1, <1>2, <1>5
    <3>2. CASE k \in 1..n
      BY <1>2, <1>5, <2>2, <3>2
    <3>3. CASE k = n + 1
      BY <1>5, <2>2, <3>3 DEF ToForget
    <3>4. CASE k - n \in 2..Len(todo) /\ n + (k - n) = k
      <4>1. todo'[k] = todo[k - n]
        BY <1>5, <3>4
      <4> QED  BY <2>1, <3>1, <3>4, <4>1
    <3> QED  BY <1>6, <3>1, <3>2, <3>3, <3>4
  <2>4. todo'[Len(todo') - 1].do \in {"forget", "delete_always"}
    <3>1. CASE Len(todo) = 2
      <4>1. Len(todo') - 1 = n + 1
        BY <1>1, <1>2, <1>5, <3>1
      <4> QED  BY <1>5, <4>1 DEF ToForget
    <3>2. CASE Len(todo) # 2
      <4>1. Len(todo) > 2
        BY <1>1, <3>2, Counting
      <4>2. Len(todo') - 1 = n + (Len(todo) - 1) /\ Len(todo) - 1 \in 2..Len(todo)
        BY <1>1, <1>2, <1>5, <4>1
      <4>4. Len(todo) # 1
        BY <1>1, Counting
      <4>3. todo'[Len(todo') - 1] = todo[Len(todo) - 1]
        BY <1>5, <4>2
      <4> QED  BY <1>1, <4>3, <4>4 DEF IInv, Inv, EndsRight
    <3> QED  BY <3>1, <3>2
  <2>5. Len(todo') # 1
    BY <1>1, <1>2, <1>5
  <2>6. errors' \/ file' = NFiles + 1
    BY <1>1 DEF IInv, Inv, EndsRight
  <2> QED  BY <1>1, <1>7, <2>3, <2>4, <2>5, <2>6 DEF EndsRight, Ways
<1>10. RecordsRight' /\ SpawnsRight' /\ CompileRight' /\ ProgramsRight'
  <2>1. /\ OutsApart' /\ \A p \in Prog : child'[p].st = "running" => child'[p].out = {}
    BY <1>1 DEF IInv, Inv, ProgramsRight, AllEnded, OutsApart
  <2> QED  BY <1>1, <1>7, <1>8, <1>9, <2>1, LeavingPrograms
<1>11. QueueInv'
  BY <1>1 DEF IInv, Inv, QueueInv, IsTemp
<1>12. TempsRight'
  <2>1. TempsQueued'
    BY <1>1 DEF IInv, Inv, TempsRight, TempsQueued, IsTemp
  <2>2. ForgetsDeleted'
    <3> SUFFICES ASSUME NEW k \in 1..Len(todo'), todo'[k].do = "forget", NEW x \in Range(always')
                 PROVE  UnlinkedBy(k, x)'
      BY DEF ForgetsDeleted
    <3>1. PICK j \in 1..n : d[j] = [do |-> "unlink", name |-> x]
      BY <1>1, <1>2
    <3>2. k \notin 1..n
      BY <1>2, <1>5
    <3>3. j \in 1..(k - 1)
      BY <1>2, <3>2
    <3> QED  BY <1>5, <3>1, <3>3 DEF UnlinkedBy
  <2>3. UnlinksOwn'
    <3> SUFFICES ASSUME NEW k \in 1..Len(todo'), todo'[k].do = "unlink"
                 PROVE  IsTemp(todo'[k].name) \/ todo'[k].name = Object(file)
      BY <1>1 DEF UnlinksOwn, IsTemp
    <3>1. CASE k \in 1..n
      BY <1>2, <1>5, <3>1 DEF IInv, Inv, QueueInv
    <3>2. CASE k = n + 1
      BY <1>5, <3>2 DEF ToForget
    <3>3. CASE k - n \in 2..Len(todo) /\ n + (k - n) = k
      <4>1. todo'[k] = todo[k - n]
        BY <1>5, <3>3
      <4>2. \A i \in 2..Len(todo) : i \in 1..Len(todo)
        BY <1>1
      <4> QED  BY <3>3, <4>1, <4>2 DEF IInv, Inv, TempsRight, UnlinksOwn
    <3> QED  BY <1>6, <3>1, <3>2, <3>3
  <2> QED  BY <2>1, <2>2, <2>3 DEF TempsRight
<1>13. ObjectsRight'
  <2>1. ASSUME NEW x, UnlinkedBy(Len(todo), x)
        PROVE  UnlinkedBy(Len(todo), x)'
    <3>1. PICK j \in 1..(Len(todo) - 1) : todo[j].do = "unlink" /\ todo[j].name = x
      BY <2>1 DEF UnlinkedBy
    <3>2. j # 1
      BY <1>1, <3>1
    <3>3. j \in 2..Len(todo) /\ n + j \in 1..(Len(todo') - 1)
      BY <1>1, <1>2, <1>5, <3>1, <3>2
    <3>4. todo'[n + j] = todo[j]
      BY <1>5, <3>3
    <3> QED  BY <3>1, <3>3, <3>4 DEF UnlinkedBy
  <2>2. ~Compiling
    BY <1>1 DEF Compiling
  <2>3. ObjectsSettled'
    BY <1>1, <2>1, <2>2 DEF IInv, Inv, ObjectsRight, ObjectsSettled, Settled
  <2> QED  BY <1>1, <2>3 DEF IInv, Inv, ObjectsRight
<1> QED  BY <1>8, <1>9, <1>10, <1>11, <1>12, <1>13 DEF IInv, Inv

(* A signal deletes what is in both queues, whatever the driver was about. *)
HandlerOf(t, a, b) ==
  /\ Len(a) \in Nat /\ Len(b) \in Nat
  /\ t \in Seq(Steps) /\ Len(t) = Len(a) + Len(b) + 2
  /\ \A k \in 1..Len(a) : t[k] = [do |-> "unlink", name |-> a[k]] /\ a[k] \in Range(a)
  /\ \A k \in 1..Len(b) : t[Len(a) + k] = [do |-> "unlink", name |-> b[k]] /\ b[k] \in Range(b)
  /\ t[Len(a) + Len(b) + 1] = ToForget /\ t[Len(a) + Len(b) + 2] = ToDie
LEMMA HandlerIs ==
  ASSUME NEW a \in Seq(Names), NEW b \in Seq(Names)
  PROVE  HandlerOf(Delete(a) \o Delete(b) \o <<ToForget, ToDie>>, a, b)
<1> DEFINE t == Delete(a) \o Delete(b) \o <<ToForget, ToDie>>
<1> DEFINE d == Delete(a)
           e == Delete(b)
           m == Len(a)
           n == Len(b)
           l == <<ToForget, ToDie>>
<1>1. /\ d \in Seq(Steps) /\ Len(d) = m /\ m \in Nat
      /\ \A k \in 1..m : d[k] = [do |-> "unlink", name |-> a[k]] /\ a[k] \in Range(a)
  BY DeleteIs, RangeOf
<1>2. /\ e \in Seq(Steps) /\ Len(e) = n /\ n \in Nat
      /\ \A k \in 1..n : e[k] = [do |-> "unlink", name |-> b[k]] /\ b[k] \in Range(b)
  BY DeleteIs, RangeOf
<1>3. l \in Seq(Steps) /\ Len(l) = 2 /\ l[1] = ToForget /\ l[2] = ToDie
  <2>1. ToForget \in Steps /\ ToDie \in Steps
    BY DEF ToForget, ToDie, Steps
  <2>2. \A x, y \in Steps : <<x, y>> \in Seq(Steps)
    OBVIOUS
  <2> QED  BY <2>1, <2>2
<1> DEFINE c == d \o e
<1>4. t = c \o l
  OBVIOUS
<1> HIDE DEF d, e, m, n, l, t
<1>5. /\ c \in Seq(Steps) /\ Len(c) = m + n
      /\ \A k \in 1..(m + n) : c[k] = IF k <= m THEN d[k] ELSE e[k - m]
  BY <1>1, <1>2, ConcatProperties
<1> HIDE DEF c
<1>6. /\ t \in Seq(Steps) /\ Len(t) = (m + n) + 2
      /\ \A k \in 1..((m + n) + 2) : t[k] = IF k <= m + n THEN c[k] ELSE l[k - (m + n)]
  <2>1. /\ c \o l \in Seq(Steps) /\ Len(c \o l) = Len(c) + Len(l)
        /\ \A k \in 1..(Len(c) + Len(l)) : (c \o l)[k] = IF k <= Len(c) THEN c[k] ELSE l[k - Len(c)]
    BY ONLY <1>3, <1>5, ConcatProperties, Zenon
  <2>2. Len(c) = m + n /\ Len(l) = 2
    BY <1>3, <1>5
  <2> QED  BY <1>4, <2>1, <2>2, Zenon
<1>7. ASSUME NEW k \in 1..m
      PROVE  t[k] = d[k]
  <2>1. k \in 1..((m + n) + 2) /\ k <= m + n /\ k \in 1..(m + n) /\ k <= m
    BY <1>1, <1>2
  <2> QED  BY <1>5, <1>6, <2>1
<1>8. ASSUME NEW k \in 1..n
      PROVE  t[m + k] = e[k]
  <2>1. /\ m + k \in 1..((m + n) + 2) /\ m + k <= m + n /\ m + k \in 1..(m + n)
        /\ ~(m + k <= m) /\ (m + k) - m = k
    BY <1>1, <1>2
  <2>2. t[m + k] = c[m + k] /\ c[m + k] = e[(m + k) - m]
    BY <1>5, <1>6, <2>1
  <2> QED  BY <2>1, <2>2
<1>9. t[(m + n) + 1] = ToForget /\ t[(m + n) + 2] = ToDie
  <2>1. /\ (m + n) + 1 \in 1..((m + n) + 2) /\ ~((m + n) + 1 <= m + n) /\ ((m + n) + 1) - (m + n) = 1
        /\ (m + n) + 2 \in 1..((m + n) + 2) /\ ~((m + n) + 2 <= m + n) /\ ((m + n) + 2) - (m + n) = 2
    BY <1>1, <1>2
  <2>2. /\ t[(m + n) + 1] = l[((m + n) + 1) - (m + n)]
        /\ t[(m + n) + 2] = l[((m + n) + 2) - (m + n)]
    BY <1>6, <2>1
  <2> QED  BY <1>3, <2>1, <2>2
<1>10. HandlerOf(t, a, b)
  BY <1>1, <1>2, <1>6, <1>7, <1>8, <1>9 DEF m, n, HandlerOf
<1> QED  BY <1>10 DEF t

(* The handler takes over.                                                 *)
LEMMA SignalKeeps ==
  ASSUME Together, IInv, NEW who \in Receivers, Signal(who)
  PROVE  IInv'
<1> USE DEF options, queues
<1>1. /\ ended = "no" /\ signals' = signals + 1
      /\ todo' = Delete(failure) \o Delete(always) \o <<ToForget, ToDie>>
      /\ child' = [p \in Prog |-> [child[p] EXCEPT !.st = IF @ = "running" THEN "none" ELSE @]]
      /\ UNCHANGED <<options, queues, file, disk, good, errors, ended>>
  BY DEF Signal, Together, Running, Handler, ToForget, ToDie
<1>2. always \in Seq(Names) /\ failure \in Seq(Names)
  BY DEF IInv, TypeOK
<1>3. PICK m, n : m = Len(failure) /\ n = Len(always)
  OBVIOUS
<1>4. /\ m \in Nat /\ n \in Nat
      /\ todo' \in Seq(Steps) /\ Len(todo') = m + n + 2
      /\ \A k \in 1..m : todo'[k] = [do |-> "unlink", name |-> failure[k]] /\ failure[k] \in Range(failure)
      /\ \A k \in 1..n : todo'[m + k] = [do |-> "unlink", name |-> always[k]] /\ always[k] \in Range(always)
      /\ todo'[m + n + 1] = ToForget /\ todo'[m + n + 2] = ToDie
  <2>1. /\ Len(failure) \in Nat /\ Len(always) \in Nat
        /\ todo' \in Seq(Steps) /\ Len(todo') = Len(failure) + Len(always) + 2
        /\ \A k \in 1..Len(failure) :
             todo'[k] = [do |-> "unlink", name |-> failure[k]] /\ failure[k] \in Range(failure)
        /\ \A k \in 1..Len(always) :
             /\ todo'[Len(failure) + k] = [do |-> "unlink", name |-> always[k]]
             /\ always[k] \in Range(always)
        /\ todo'[Len(failure) + Len(always) + 1] = ToForget
        /\ todo'[Len(failure) + Len(always) + 2] = ToDie
    <3>1. HandlerOf(todo', failure, always)
      BY <1>1, <1>2, HandlerIs, Zenon
    <3> QED  BY <3>1 DEF HandlerOf
  <2> QED  BY <1>3, <2>1, Zenon
<1>5. \A k \in 1..Len(todo') : \/ k \in 1..m
                               \/ k - m \in 1..n /\ m + (k - m) = k
                               \/ k = m + n + 1
                               \/ k = m + n + 2
  BY <1>4
<1>6. \A k \in 1..Len(todo') :
        \/ todo'[k].do = "unlink" /\ (todo'[k].name \in Range(failure) \/ todo'[k].name \in Range(always))
        \/ k = m + n + 1 /\ todo'[k].do = "forget"
        \/ k = m + n + 2 /\ todo'[k].do = "die"
  <2> SUFFICES ASSUME NEW k \in 1..Len(todo')
               PROVE  \/ /\ todo'[k].do = "unlink"
                         /\ todo'[k].name \in Range(failure) \/ todo'[k].name \in Range(always)
                      \/ k = m + n + 1 /\ todo'[k].do = "forget"
                      \/ k = m + n + 2 /\ todo'[k].do = "die"
    OBVIOUS
  <2>1. CASE k \in 1..m
    <3>1. todo'[k] = [do |-> "unlink", name |-> failure[k]] /\ failure[k] \in Range(failure)
      BY <1>4, <2>1
    <3> QED  BY <3>1
  <2>2. CASE k - m \in 1..n /\ m + (k - m) = k
    <3>1. todo'[m + (k - m)] = [do |-> "unlink", name |-> always[k - m]]
          /\ always[k - m] \in Range(always)
      BY <1>4, <2>2
    <3> QED  BY <2>2, <3>1
  <2>3. CASE k = m + n + 1
    BY <1>4, <2>3 DEF ToForget
  <2>4. CASE k = m + n + 2
    BY <1>4, <2>4 DEF ToDie
  <2> QED  BY <1>5, <2>1, <2>2, <2>3, <2>4
<1>7. /\ \A x \in Range(failure) : UnlinkedBy(Len(todo), x)'
      /\ \A x \in Range(always) : UnlinkedBy(m + n + 1, x)'
  <2>1. ASSUME NEW x \in Range(failure)
        PROVE  UnlinkedBy(Len(todo), x)'
    <3>1. PICK k \in 1..m : failure[k] = x
      BY <1>2, <1>3, RangeOf
    <3>2. k \in 1..(Len(todo') - 1)
      BY <1>4
    <3>3. todo'[k] = [do |-> "unlink", name |-> x]
      BY <1>4, <3>1
    <3> QED  BY <3>2, <3>3 DEF UnlinkedBy
  <2>2. ASSUME NEW x \in Range(always)
        PROVE  UnlinkedBy(m + n + 1, x)'
    <3>1. PICK k \in 1..n : always[k] = x
      BY <1>2, <1>3, RangeOf
    <3>2. m + k \in 1..((m + n + 1) - 1)
      BY <1>4
    <3>3. todo'[m + k] = [do |-> "unlink", name |-> x]
      BY <1>4, <3>1
    <3> QED  BY <3>2, <3>3 DEF UnlinkedBy
  <2> QED  BY <2>1, <2>2
<1>8. /\ todo' # <<>> /\ Final' = "die" /\ Len(todo') # 1
      /\ todo'[Len(todo') - 1].do = "forget"
  <2>1. Len(todo') - 1 = m + n + 1 /\ Len(todo') # 0 /\ Len(todo') # 1
    BY <1>4
  <2>2. Len(<<>>) = 0
    OBVIOUS
  <2> QED  BY <1>4, <2>1, <2>2 DEF Final, ToForget, ToDie
<1>9. /\ child' \in [Prog -> [st : States, out : SUBSET Names]]
      /\ \A p \in Prog : child'[p].out = child[p].out /\ child'[p].st # "running"
  BY <1>1 DEF IInv, TypeOK, States
<1>10. TypeOK'
  <2>1. signals' \in Nat
    BY <1>1 DEF IInv, TypeOK
  <2>2. /\ UNCHANGED <<options, queues, file, disk, good, errors, ended>>
        /\ todo' \in Seq(Steps) /\ todo' # <<>>
    BY <1>1, <1>4, <1>8
  <2> QED  BY <1>9, <2>1, <2>2 DEF IInv, TypeOK
<1>11. EndsRight'
  <2>1. \A k \in 1..(Len(todo') - 1) : k \in 1..Len(todo') /\ k # m + n + 2
    BY <1>4
  <2>2. Before' = {"unlink", "forget"}
    BY <1>8 DEF Before
  <2>3. \A k \in 1..(Len(todo') - 1) : todo'[k].do \in Before'
    BY <1>6, <2>1, <2>2
  <2> QED  BY <1>1, <1>8, <2>3 DEF EndsRight, Ways
<1>12. RecordsRight' /\ SpawnsRight' /\ CompileRight' /\ ProgramsRight'
  <2>1. OutsApart'
    BY <1>9 DEF IInv, Inv, ProgramsRight, OutsApart
  <2> QED  BY <1>8, <1>9, <1>10, <1>11, <2>1, LeavingPrograms
<1>13. QueueInv'
  BY <1>1 DEF IInv, Inv, QueueInv, IsTemp
<1>14. TempsRight'
  <2>1. TempsQueued'
    BY <1>1 DEF IInv, Inv, TempsRight, TempsQueued, IsTemp
  <2>2. ForgetsDeleted'
    BY <1>1, <1>6, <1>7 DEF ForgetsDeleted
  <2>3. UnlinksOwn'
    BY <1>1, <1>6 DEF IInv, Inv, QueueInv, UnlinksOwn, IsTemp
  <2> QED  BY <2>1, <2>2, <2>3 DEF TempsRight
<1>15. ObjectsRight'
  BY <1>1, <1>7 DEF IInv, Inv, ObjectsRight, ObjectsSettled, Settled
<1> QED  BY <1>10, <1>11, <1>12, <1>13, <1>14, <1>15 DEF IInv, Inv

(* exit (), and the end of the handler.                                    *)
LEMMA EndedKeeps ==
  ASSUME IInv, Exit \/ Die
  PROVE  IInv'
<1> USE DEF options, queues
<1>1. /\ Len(todo) = 1 /\ Final \in {"exit", "die"} /\ ended = "no"
      /\ ended' \in {"success", "failure", "signal"}
      /\ ended' = "success" => ~errors /\ Final = "exit"
      /\ UNCHANGED <<options, todo, queues, file, child, disk, good, errors, signals>>
  <2>1. Step = todo[1] /\ (todo[1].do \in Ways => Len(todo) = 1 /\ Final = todo[1].do)
    BY Place DEF IInv, Inv
  <2> QED  BY <2>1 DEF Exit, Die, Do, Running, Step, Ways
<1>2. TypeOK'
  BY <1>1 DEF IInv, TypeOK
<1>3. EndsRight'
  BY <1>1 DEF IInv, Inv, EndsRight, Final, Before
<1>4. RecordsRight' /\ SpawnsRight' /\ CompileRight' /\ ProgramsRight'
  <2>1. /\ OutsApart' /\ \A p \in Prog : child'[p].st = "running" => child'[p].out = {}
    BY <1>1 DEF IInv, Inv, ProgramsRight, AllEnded, OutsApart
  <2>2. Final' = Final
    BY <1>1 DEF Final
  <2> QED  BY <1>1, <1>2, <1>3, <2>1, <2>2, LeavingPrograms
<1>5. QueueInv'
  BY <1>1 DEF IInv, Inv, QueueInv, IsTemp
<1>6. \A k, x : UnlinkedBy(k, x)' <=> UnlinkedBy(k, x)
  BY <1>1 DEF UnlinkedBy
<1>8. TempsRight'
  <2>1. TempsQueued' /\ UnlinksOwn'
    BY <1>1 DEF IInv, Inv, TempsRight, TempsQueued, UnlinksOwn, IsTemp
  <2>2. ForgetsDeleted'
    BY <1>1, <1>6 DEF IInv, Inv, TempsRight, ForgetsDeleted
  <2> QED  BY <2>1, <2>2 DEF TempsRight
<1>7. ObjectsRight'
  BY <1>1, <1>6 DEF IInv, Inv, ObjectsRight, ObjectsSettled, Settled, Compiling, Final
<1> QED  BY <1>2, <1>3, <1>4, <1>5, <1>7, <1>8 DEF IInv, Inv

-----------------------------------------------------------------------------
(* What the programs do, while the driver waits or goes on.                *)
LEMMA WhoRuns ==
  ASSUME IInv, NEW p \in Prog, child[p].st = "running", NEW n \in child[p].out
  PROVE  /\ todo[1].do = "wait" /\ Final = "clear" /\ Compiling /\ file \in Files /\ file \notin good
         /\ n \in {Temp, Object(file)}
         /\ IsTemp(n) => n \in Range(always)
         /\ n # Temp => n \in Range(failure)
         /\ n = Object(file) => Len(todo) = 2
         /\ \A k \in 1..Len(todo) : todo[k].do \notin {"unlink", "forget"}
<1>1. Final \in Ways /\ Final \notin {"exit", "die"}
  BY DEF IInv, Inv, EndsRight, ProgramsRight, AllEnded
<1>2. todo[1].do = "wait"
  BY <1>1 DEF IInv, Inv, ProgramsRight, AllReaped, Ways
<1>3. WaitsFor(p)
  BY <1>2 DEF IInv, Inv, ProgramsRight
<1>4. Final = "clear" /\ OutRight(1, n) /\ (n = Object(file) => Len(todo) = 2)
  BY <1>3 DEF WaitsFor
<1>5. \A x, q : QueuedAt(1, x, q) => x \in Range(Queue(q))
  BY DEF QueuedAt
<1>6. Queue("always") = always /\ Queue("failure") = failure
  BY DEF Queue
<1>7. /\ n \in {Temp, Object(file)}
      /\ IsTemp(n) => n \in Range(always)
      /\ n # Temp => n \in Range(failure)
  BY <1>4, <1>5, <1>6 DEF OutRight
<1>8. file \in Files
  BY <1>4 DEF IInv, Inv, EndsRight
<1> QED  BY <1>2, <1>4, <1>7, <1>8, BeforeWait

(* The list, the queues and main () stay as they are while programs write  *)
(* to their files, end or are waited for.                                  *)
LEMMA ProgramKeeps ==
  ASSUME IInv, NEW p \in Prog,
         UNCHANGED <<options, todo, queues, file, good, errors, signals, ended>>,
         child' \in [Prog -> [st : States, out : SUBSET Names]],
         disk' \in [Names -> {"absent", "part", "whole"}],
         \A n \in Names : (n \in child[p].out /\ child[p].st = "running") \/ disk'[n] = disk[n],
         \A q \in Prog : /\ child'[q].out = child[q].out
                         /\ child[q].st # "none" => child'[q].st # "none"
                         /\ child'[q].st = "running" => child[q].st = "running"
                         /\ todo[1].do = "wait" /\ child'[q].st \in {"exit0", "reaped0"} =>
                              \A n \in child[q].out : disk'[n] = "whole"
  PROVE  IInv'
<1> USE DEF options, queues
<1>1. ASSUME NEW n \in Names, disk'[n] # disk[n]
      PROVE  /\ todo[1].do = "wait" /\ Final = "clear" /\ Compiling /\ file \in Files /\ file \notin good
             /\ n \in {Temp, Object(file)}
             /\ IsTemp(n) => n \in Range(always)
             /\ n # Temp => n \in Range(failure)
             /\ n = Object(file) => Len(todo) = 2
             /\ \A k \in 1..Len(todo) : todo[k].do \notin {"unlink", "forget"}
  BY <1>1, WhoRuns
<1>2. TypeOK'
  BY DEF IInv, TypeOK
<1>3. EndsRight' /\ Final' = Final /\ (Compiling' <=> Compiling)
  BY DEF IInv, Inv, EndsRight, Before, Final, Compiling
<1>4. RecordsRight'
  BY DEF IInv, Inv, RecordsRight, NamesMayBeQueued, MayQueue, SearchBeforePush, PushAfterSearch,
         PushNew, Queue
<1>5. \A k, n : /\ IsTemp(n)' <=> IsTemp(n)
                /\ OutRight(k, n)' <=> OutRight(k, n)
                /\ UnlinkedBy(k, n)' <=> UnlinkedBy(k, n)
  BY DEF IsTemp, OutRight, QueuedAt, Queue, UnlinkedBy
<1>6. SpawnsRight'
  BY <1>3, <1>5 DEF IInv, Inv, SpawnsRight
<1>7. QueueInv'
  BY DEF IInv, Inv, QueueInv, IsTemp
<1>8. CompileRight'
  <2>1. StillCompiled'
    <3>1. "as" \in Prog
      BY DEF Prog
    <3> QED  BY <1>3, <3>1 DEF IInv, Inv, CompileRight, StillCompiled
  <2>2. Final = "clear" /\ ~Compiling /\ file \in good => disk'[Object(file)] = disk[Object(file)]
    <3>1. Final = "clear" => Object(file) \in Names
      BY NamesApart DEF IInv, Inv, EndsRight
    <3> QED  BY <1>1, <3>1
  <2>3. Compiled'
    BY <1>3, <2>2 DEF IInv, Inv, CompileRight, Compiled
  <2> QED  BY <2>1, <2>3 DEF CompileRight
<1>9. ProgramsRight'
  <2>1. AllReaped' /\ AllEnded' /\ OutsApart'
    BY <1>3 DEF IInv, Inv, ProgramsRight, AllReaped, AllEnded, OutsApart
  <2>2. ASSUME todo[1].do = "wait", NEW q \in Prog
        PROVE  WaitsFor(q)'
    <3>1. WaitsFor(q)
      BY <2>2 DEF IInv, Inv, ProgramsRight
    <3> QED  BY <1>3, <1>5, <2>2, <3>1 DEF WaitsFor
  <2> QED  BY <2>1, <2>2 DEF ProgramsRight
<1>10. TempsRight'
  <2>1. TempsQueued'
    BY <1>1, <1>5 DEF IInv, Inv, TempsRight, TempsQueued
  <2>2. ForgetsDeleted'
    <3>1. \A n \in Range(always) : n \in Names
      <4>1. always \in Seq(Names)
        BY DEF IInv, TypeOK
      <4> QED  BY <4>1, RangeOf, ElementOfSeq
    <3> QED  BY <1>1, <1>5, <3>1 DEF IInv, Inv, TempsRight, ForgetsDeleted
  <2>3. UnlinksOwn'
    BY <1>5 DEF IInv, Inv, TempsRight, UnlinksOwn
  <2> QED  BY <2>1, <2>2, <2>3 DEF TempsRight
<1>11. ObjectsRight'
  <2>1. ASSUME NEW f \in Files
        PROVE  \/ disk'[Object(f)] = disk[Object(f)]
               \/ f = file /\ f \notin good /\ Object(f) \in Range(failure) /\ Compiling /\ Len(todo) = 2
    BY <1>1, NamesApart
  <2>2. ObjectsSettled'
    <3>1. ASSUME NEW f \in Files, disk'[Object(f)] # "absent"
          PROVE  \/ Settled(f)'
                 \/ /\ f = file' /\ Object(f) \in Range(failure')
                    /\ (Compiling' /\ Len(todo') = 2) \/ UnlinkedBy(Len(todo), Object(f))'
      <4>1. CASE disk'[Object(f)] = disk[Object(f)]
        <5>1. \/ Settled(f)
              \/ /\ f = file /\ Object(f) \in Range(failure)
                 /\ (Compiling /\ Len(todo) = 2) \/ UnlinkedBy(Len(todo), Object(f))
          BY <3>1, <4>1 DEF IInv, Inv, ObjectsRight, ObjectsSettled
        <5> QED  BY <1>3, <1>5, <4>1, <5>1 DEF Settled
      <4>2. CASE disk'[Object(f)] # disk[Object(f)]
        BY <1>3, <2>1, <4>2
      <4> QED  BY <4>1, <4>2
    <3> QED  BY <3>1 DEF ObjectsSettled
  <2>3. ~link' => \A f \in good' : f < file' => disk'[Object(f)] = "whole"
    <3>1. \A f \in good : f \in Files
      BY DEF IInv, TypeOK
    <3> QED  BY <2>1, <3>1 DEF IInv, Inv, ObjectsRight
  <2> QED  BY <2>2, <2>3 DEF IInv, Inv, ObjectsRight
<1> QED  BY <1>2, <1>3, <1>4, <1>6, <1>7, <1>8, <1>9, <1>10, <1>11 DEF IInv, Inv

(* A program begins to write.                                              *)
LEMMA CreateKeeps ==
  ASSUME IInv, NEW p \in Prog, Create(p)
  PROVE  IInv'
<1> USE DEF options, queues
<1>1. /\ child[p].st = "running" /\ child[p].out # {}
      /\ disk' = [n \in Names |-> IF n \in child[p].out THEN "part" ELSE disk[n]]
      /\ UNCHANGED <<options, todo, queues, file, child, good, errors, signals, ended>>
  BY DEF Create
<1>2. disk' \in [Names -> {"absent", "part", "whole"}]
  BY <1>1 DEF IInv, TypeOK
<1>3. \A n \in Names : n \notin child[p].out => disk'[n] = disk[n]
  BY <1>1
<1>4. ASSUME NEW q \in Prog, todo[1].do = "wait", child[q].st \in {"exit0", "reaped0"},
             NEW n \in child[q].out
      PROVE  disk'[n] = "whole"
  <2>1. disk[n] = "whole"
    BY <1>4 DEF IInv, Inv, ProgramsRight, WaitsFor
  <2>2. n \notin child[p].out
    BY <1>1, <1>4 DEF IInv, Inv, ProgramsRight, OutsApart
  <2>3. n \in Names
    BY DEF IInv, TypeOK
  <2> QED  BY <1>3, <2>1, <2>2, <2>3
<1>5. child' \in [Prog -> [st : States, out : SUBSET Names]]
  BY <1>1 DEF IInv, TypeOK
<1> QED  BY <1>1, <1>2, <1>3, <1>4, <1>5, ProgramKeeps

(* A program completes its file and ends.                                  *)
LEMMA EndWellKeeps ==
  ASSUME IInv, NEW p \in Prog, EndWell(p)
  PROVE  IInv'
<1> USE DEF options, queues
<1>1. /\ child[p].st = "running"
      /\ disk' = [n \in Names |-> IF n \in child[p].out THEN "whole" ELSE disk[n]]
      /\ child' = [child EXCEPT ![p].st = "exit0"]
      /\ UNCHANGED <<options, todo, queues, file, good, errors, signals, ended>>
  BY DEF EndWell
<1>2. disk' \in [Names -> {"absent", "part", "whole"}]
  BY <1>1 DEF IInv, TypeOK
<1>3. \A n \in Names : n \notin child[p].out => disk'[n] = disk[n]
  BY <1>1
<1>4. /\ child' \in [Prog -> [st : States, out : SUBSET Names]]
      /\ child'[p].st = "exit0"
      /\ \A q \in Prog : child'[q].out = child[q].out /\ (q # p => child'[q].st = child[q].st)
  BY <1>1 DEF IInv, TypeOK, States
<1>5. ASSUME NEW q \in Prog, todo[1].do = "wait", child'[q].st \in {"exit0", "reaped0"},
             NEW n \in child[q].out
      PROVE  disk'[n] = "whole"
  <2>1. n \in Names
    BY DEF IInv, TypeOK
  <2>2. CASE q = p
    BY <1>1, <2>1, <2>2
  <2>3. CASE q # p
    <3>1. disk[n] = "whole"
      BY <1>4, <1>5, <2>3 DEF IInv, Inv, ProgramsRight, WaitsFor
    <3> QED  BY <1>1, <2>1, <3>1
  <2> QED  BY <2>2, <2>3
<1> QED  BY <1>1, <1>2, <1>3, <1>4, <1>5, ProgramKeeps

(* A program fails.                                                        *)
LEMMA EndBadlyKeeps ==
  ASSUME Together, IInv, NEW p \in Prog, NEW how \in Ends, EndBadly(p, how)
  PROVE  IInv'
<1> USE DEF options, queues
<1>1. /\ child' = [child EXCEPT ![p].st = how] /\ how = "exit1"
      /\ UNCHANGED <<options, todo, queues, file, disk, good, errors, signals, ended>>
  BY EndsAssumption DEF EndBadly, Together
<1>2. disk' \in [Names -> {"absent", "part", "whole"}]
  BY <1>1 DEF IInv, TypeOK
<1>3. /\ child' \in [Prog -> [st : States, out : SUBSET Names]]
      /\ child'[p].st = "exit1"
      /\ \A q \in Prog : child'[q].out = child[q].out /\ (q # p => child'[q].st = child[q].st)
  BY <1>1 DEF IInv, TypeOK, States
<1>4. ASSUME NEW q \in Prog, todo[1].do = "wait", child'[q].st \in {"exit0", "reaped0"},
             NEW n \in child[q].out
      PROVE  disk'[n] = "whole"
  <2>1. q # p
    BY <1>3, <1>4
  <2>2. disk[n] = "whole"
    BY <1>3, <1>4, <2>1 DEF IInv, Inv, ProgramsRight, WaitsFor
  <2> QED  BY <1>1, <2>2
<1>5. \A q \in Prog : child'[q].st = "running" => child[q].st = "running"
  BY <1>3
<1>6. \A q \in Prog : child[q].st # "none" => child'[q].st # "none"
  BY <1>3
<1> QED  BY <1>1, <1>2, <1>3, <1>4, <1>5, <1>6, ProgramKeeps

(* pwait () only takes note of how a program has ended.                    *)
LEMMA ReapKeeps ==
  ASSUME Together, IInv, NEW p \in Prog, Reap(p)
  PROVE  IInv'
<1> USE DEF options, queues
<1>1. child[p].st \in {"exit0", "exit1"}
  BY EndsAssumption DEF Reap, Dead, Together
<1>2. /\ child' = [child EXCEPT ![p].st = IF @ = "exit0" THEN "reaped0" ELSE "reaped1"]
      /\ UNCHANGED <<options, todo, queues, file, disk, good, errors, signals, ended>>
  BY <1>1 DEF Reap
<1>3. disk' \in [Names -> {"absent", "part", "whole"}]
  BY <1>2 DEF IInv, TypeOK
<1>4. /\ child' \in [Prog -> [st : States, out : SUBSET Names]]
      /\ child'[p].st = IF child[p].st = "exit0" THEN "reaped0" ELSE "reaped1"
      /\ \A q \in Prog : child'[q].out = child[q].out /\ (q # p => child'[q].st = child[q].st)
  BY <1>2 DEF IInv, TypeOK, States
<1>5. \A q \in Prog : /\ child'[q].st = "running" => child[q].st = "running"
                      /\ child[q].st # "none" => child'[q].st # "none"
                      /\ child'[q].st \in {"exit0", "reaped0"} => child[q].st \in {"exit0", "reaped0"}
  BY <1>1, <1>4
<1>6. ASSUME NEW q \in Prog, todo[1].do = "wait", child'[q].st \in {"exit0", "reaped0"},
             NEW n \in child[q].out
      PROVE  disk'[n] = "whole"
  BY <1>2, <1>5, <1>6 DEF IInv, Inv, ProgramsRight, WaitsFor
<1> QED  BY <1>2, <1>3, <1>4, <1>5, <1>6, ProgramKeeps

(* Nothing happens.                                                        *)
LEMMA StutterKeeps ==
  ASSUME IInv, UNCHANGED vars
  PROVE  IInv'
<1> USE DEF options, queues
<1>1. UNCHANGED <<options, todo, queues, file, child, disk, good, errors, signals, ended>>
  BY DEF vars
<1>2. /\ child' \in [Prog -> [st : States, out : SUBSET Names]]
      /\ disk' \in [Names -> {"absent", "part", "whole"}]
  BY <1>1 DEF IInv, TypeOK
<1>3. "cc" \in Prog
  BY DEF Prog
<1>4. \A q \in Prog : todo[1].do = "wait" /\ child[q].st \in {"exit0", "reaped0"} =>
        \A n \in child[q].out : disk[n] = "whole"
  BY DEF IInv, Inv, ProgramsRight, WaitsFor
<1> QED  BY <1>1, <1>2, <1>3, <1>4, ProgramKeeps

-----------------------------------------------------------------------------
(* The invariant holds when main () comes to the first input file.         *)
LEMMA InitInv == Init => IInv
<1> SUFFICES ASSUME Init PROVE IInv
  OBVIOUS
<1>1. /\ pipe \in BOOLEAN /\ link \in BOOLEAN
      /\ file = 1 /\ todo = Compile(1)
      /\ always = <<>> /\ failure = <<>>
      /\ child = [p \in Prog |-> [st |-> "none", out |-> {}]]
      /\ disk = [n \in Names |-> "absent"]
      /\ good = {} /\ errors = FALSE /\ signals = 0 /\ ended = "no"
  BY DEF Init
<1>2. file \in Files /\ file \in 1..(NFiles + 1)
  BY <1>1, EndsAssumption DEF Files
<1>3. Listed
  BY <1>1, <1>2, BegunListed DEF Begun
<1>4. child \in [Prog -> [st : States, out : SUBSET Names]] /\ \A p \in Prog : child[p].out = {}
  BY <1>1 DEF States
<1>5. disk \in [Names -> {"absent", "part", "whole"}] /\ \A n \in Names : disk[n] = "absent"
  BY <1>1
<1>6. TypeOK
  <2>1. always \in Seq(Names) /\ failure \in Seq(Names)
    BY <1>1, NoneLeft
  <2>2. todo \in Seq(Steps) /\ todo # <<>>
    BY <1>3 DEF Listed
  <2>3. good \subseteq Files /\ errors \in BOOLEAN /\ signals \in Nat
        /\ ended \in {"no", "success", "failure", "signal"}
    BY <1>1
  <2> QED  BY <1>1, <1>2, <1>4, <1>5, <2>1, <2>2, <2>3 DEF TypeOK
<1>7. QueueInv
  BY <1>1, NoneLeft DEF QueueInv
<1>8. ProgramsRight
  BY <1>4 DEF ProgramsRight, AllReaped, AllEnded, OutsApart, WaitsFor
<1>9. TempsRight
  BY <1>3, <1>5 DEF Listed, NoDeletes, TempsRight, TempsQueued, ForgetsDeleted, UnlinksOwn
<1>10. ObjectsRight
  <2>1. \A f \in Files : disk[Object(f)] = "absent"
    BY <1>5, NamesApart
  <2>2. \A f \in Files : ~(f < file)
    BY <1>1 DEF Files
  <2> QED  BY <1>1, <2>1, <2>2 DEF ObjectsRight, ObjectsSettled
<1> QED  BY <1>3, <1>6, <1>7, <1>8, <1>9, <1>10 DEF IInv, Inv, Listed

(* Every step keeps the invariant.                                         *)
LEMMA NextInv == ASSUME Together PROVE IInv /\ [Next]_vars => IInv'
<1> SUFFICES ASSUME IInv, [Next]_vars PROVE IInv'
  OBVIOUS
<1>1. CASE DriverStep
  <2>1. CASE Search
    BY <2>1, SearchKeeps
  <2>2. CASE PushEntry
    BY <2>2, PushKeeps
  <2>3. CASE SpawnProgram
    BY <2>3, SpawnKeeps
  <2>4. CASE SpawnFails
    BY <2>4, SpawnFailsKeeps
  <2>5. CASE \E p \in Prog : Reap(p)
    BY <2>5, ReapKeeps
  <2>6. CASE Waited
    BY <2>6, WaitedKeeps
  <2>7. CASE NextFile
    BY <2>7, NextFileKeeps
  <2>8. CASE EndOfMain
    BY <2>8, EndOfMainKeeps
  <2>9. CASE Unlink
    BY <2>9, UnlinkKeeps
  <2>10. CASE DeleteAlways
    BY <2>10, DeleteAlwaysKeeps
  <2>11. CASE ForgetAlways
    BY <2>11, ForgetKeeps
  <2>12. CASE Exit \/ Die
    BY <2>12, EndedKeeps
  <2> QED  BY <1>1, <2>1, <2>2, <2>3, <2>4, <2>5, <2>6, <2>7, <2>8, <2>9, <2>10, <2>11, <2>12
           DEF DriverStep
<1>2. CASE \E who \in Receivers : Signal(who)
  BY <1>2, SignalKeeps
<1>3. CASE \E p \in Prog : ProgramStep(p)
  BY <1>3, CreateKeeps, EndWellKeeps, EndBadlyKeeps DEF ProgramStep
<1>4. CASE UNCHANGED vars
  BY <1>4, StutterKeeps
<1> QED  BY <1>1, <1>2, <1>3, <1>4 DEF Next

-----------------------------------------------------------------------------
(* The driver has ended, and nothing runs any more.                        *)
LEMMA AtTheEnd ==
  ASSUME IInv, ended # "no"
  PROVE  /\ Len(todo) = 1 /\ Final \in {"exit", "die"} /\ always = <<>>
         /\ \A n \in Names : IsTemp(n) => disk[n] = "absent"
         /\ \A f \in Files : disk[Object(f)] # "absent" => Settled(f)
<1>1. Len(todo) = 1 /\ Final \in {"exit", "die"} /\ always = <<>>
  BY DEF IInv, Inv, EndsRight
<1>2. \A n \in Names : IsTemp(n) => disk[n] = "absent"
  BY <1>1, NoneLeft DEF IInv, Inv, TempsRight, TempsQueued
<1>3. \A n : ~UnlinkedBy(Len(todo), n)
  BY <1>1 DEF UnlinkedBy
<1>4. ~Compiling
  BY <1>1 DEF Compiling
<1> QED  BY <1>1, <1>2, <1>3, <1>4 DEF IInv, Inv, ObjectsRight, ObjectsSettled

(* The queues hold what they should.                                       *)
LEMMA QueuesAreRight == IInv => QueuesRight
<1> SUFFICES ASSUME IInv PROVE QueuesRight
  OBVIOUS
<1>1. always \in Seq(Names) /\ \A n \in Range(always) : n \in Names
  <2>1. always \in Seq(Names)
    BY DEF IInv, TypeOK
  <2> QED  BY <2>1, RangeOf, ElementOfSeq
<1>2. IsInjective(always) /\ IsInjective(failure)
  BY DEF IInv, Inv, QueueInv
<1>3. Range(always) \subseteq {Temp} \cup {Object(f) : f \in Files}
  BY <1>1, NamesApart
<1>4. Range(failure) \subseteq {Object(f) : f \in Files}
  <2>1. CASE file \in Files
    BY <2>1 DEF IInv, Inv, QueueInv
  <2>2. CASE file \notin Files
    BY <2>2, NoneLeft DEF IInv, Inv, QueueInv
  <2> QED  BY <2>1, <2>2
<1>5. ~link => Range(always) \subseteq {Temp}
  BY DEF IInv, Inv, QueueInv, IsTemp
<1>6. ASSUME NEW p \in Prog, child[p].st = "running"
      PROVE  child[p].out \subseteq Range(always) \cup Range(failure)
  BY <1>6, WhoRuns DEF IsTemp
<1> QED  BY <1>2, <1>3, <1>4, <1>5, <1>6 DEF QueuesRight

(* When it is over, always_delete_queue is empty, so no temporary file is  *)
(* left.                                                                   *)
LEMMA TempsAreGone == IInv => TempsGone
<1> SUFFICES ASSUME IInv PROVE TempsGone
  OBVIOUS
<1>1. Over => disk[Temp] = "absent"
  BY AtTheEnd, NamesApart DEF Over, IsTemp
<1>2. Over /\ link => \A f \in Files : disk[Object(f)] = "absent"
  BY AtTheEnd, NamesApart, ObjectIsTemp DEF Over
<1> QED  BY <1>1, <1>2, QueuesAreRight DEF TempsGone

(* When it is over, nothing is left to be deleted, so the objects are      *)
(* settled.                                                                *)
LEMMA OutputsAreRight == IInv => OutputsRight
<1> SUFFICES ASSUME IInv PROVE OutputsRight
  OBVIOUS
<1>1. Over => \A f \in Files : disk[Object(f)] # "absent" => disk[Object(f)] = "whole" /\ f \in good
  BY AtTheEnd DEF Over, Settled
<1>2. ~link => \A f \in good : f < file => disk[Object(f)] = "whole"
  BY DEF IInv, Inv, ObjectsRight
<1>3. ended = "success" => good = Files
  <2> SUFFICES ASSUME ended = "success" PROVE good = Files
    OBVIOUS
  <2>1. ~errors /\ file = NFiles + 1 /\ good \subseteq Files
    BY DEF IInv, TypeOK, Inv, EndsRight
  <2>2. \A f \in Files : f < file
    BY <2>1, EndsAssumption DEF Files
  <2> QED  BY <2>1, <2>2 DEF IInv, Inv, ObjectsRight
<1> QED  BY <1>1, <1>2, <1>3 DEF OutputsRight

(* The driver's variables have their types, and the invariant holds.       *)
LEMMA Invariance == ASSUME Together PROVE Spec => []IInv
<1>1. Spec => Init /\ [][Next]_vars
  BY DEF Spec
<1> QED  BY <1>1, InitInv, NextInv, PTL

(* No temporary file survives the driver, whether it ends by itself, by a  *)
(* failure to start a program or by signals that come at any moment, also  *)
(* while earlier ones are handled: what a program writes was recorded in a *)
(* queue before the program was started, each name once.                   *)
THEOREM NoTemporaryFileLeft == ASSUME Together PROVE Spec => []TempsGone
  BY Invariance, TempsAreGone, PTL

(* With -c, an object that is left is a whole one of a compilation that    *)
(* went well, none of those is lost, and the driver reports success only   *)
(* if all input files were compiled.                                       *)
THEOREM ObjectsWholeAndReported == ASSUME Together PROVE Spec => []OutputsRight
  BY Invariance, OutputsAreRight, PTL
=============================================================================
