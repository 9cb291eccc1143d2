---------------------------- MODULE SparseArrays ----------------------------
(***************************************************************************)
(* The sparse arrays of the Objective-C runtime, objc/sarray.c: a table of *)
(* pointers to buckets, of which a copy shares the buckets of the original *)
(* until it writes to them.  A bucket belongs to the array whose version   *)
(* it has.  One thread at a time, with the runtime mutex, changes arrays;  *)
(* others read them without it.                                            *)
(*                                                                         *)
(* What the runtime does with arrays: it writes to an array only before    *)
(* there are copies of it (sarray_realloc () insists on that).  Sizes are  *)
(* in buckets where the code has them in elements.  The two-level arrays,  *)
(* OBJC_SPARSE2, are the ones that are built.                              *)
(***************************************************************************)
EXTENDS Naturals, SequencesExt

CONSTANTS
  BucketSize,
  Value, NoValue,  \* the elements, and the default one
  Slack,           \* how many buckets more than needed an array gets; 4
  Reader,          \* the threads that only read
  Operations,      \* the functions that are called
  MaxOps,          \* bound: calls that change an array
  MaxBuckets,      \* bound: the buckets of the indices written
  FreedKeeps       \* TRUE: memory that was freed reads as it did before

ASSUME SizeAssumption ==
  BucketSize \in Nat \ {0} /\ Slack \in Nat /\ MaxOps \in Nat /\ MaxBuckets \in Nat \ {0}
ASSUME ValueAssumption == NoValue \notin Value /\ FreedKeeps \in BOOLEAN

VARIABLES
  arrays,    \* arrays[a]: the struct sarray
  tables,    \* tables[p]: a table, its buckets
  buckets,   \* buckets[b]: a bucket, its elements and its version
  owned,     \* the arrays the program has not freed
  contents,  \* contents[a]: what was written to array a
  todo,      \* the steps of the function that is being called
  ops,       \* how many functions were called
  reads      \* reads[r]: what thread r is doing

vars == <<arrays, tables, buckets, owned, contents, todo, ops, reads>>

Index == 0..(MaxBuckets * BucketSize - 1)
Offset == 0..(BucketSize - 1)
Link == "link"  \* what first_free_data was: a pointer to other garbage
Wild == "wild"  \* what is read where there is nothing to read

Idle == [at |-> "idle", array |-> 0, index |-> 0, ptr |-> 0, right |-> {NoValue},
         changed |-> FALSE, got |-> NoValue]

Init ==
  /\ arrays = <<>> /\ tables = <<>> /\ buckets = <<>>
  /\ owned = {} /\ contents = <<>> /\ todo = <<>> /\ ops = 0
  /\ reads = [r \in Reader |-> Idle]

-----------------------------------------------------------------------------
(* sarray_get_safe (), without another thread between its loads.           *)
Get(a, i) ==
  LET table == tables[arrays[a].buckets]
      k == (i \div BucketSize) + 1
      b == IF k \in DOMAIN table.at THEN table.at[k] ELSE arrays[a].empty
  IN  IF \/ arrays[a].st # "live" \/ table.st # "live"
         \/ buckets[b].st # "live"
      THEN Wild ELSE buckets[b].elems[i % BucketSize]

Begin(op) == op \in Operations /\ todo = <<>> /\ ops < MaxOps /\ ops' = ops + 1

(* sarray_new ().                                                          *)
New(n) ==
  /\ Begin("new")
  /\ buckets' = Append(buckets, [st |-> "live", version |-> 0,
                                 elems |-> [o \in Offset |-> NoValue]])
  /\ tables' = Append(tables, [st |-> "live",
                               at |-> [k \in 1..n |-> Len(buckets) + 1]])
  /\ arrays' = Append(arrays, [st |-> "live", buckets |-> Len(tables) + 1,
                               empty |-> Len(buckets) + 1, version |-> 0,
                               ref |-> 1, copyOf |-> 0, size |-> n])
  /\ owned' = owned \cup {Len(arrays) + 1}
  /\ contents' = Append(contents, [i \in Index |-> NoValue])
  /\ UNCHANGED <<todo, reads>>

(* sarray_lazy_copy ().                                                    *)
SameVersion(a) ==  \* mutant: the copy has the version of the original
  /\ Begin("copy") /\ a \in owned
  /\ tables' = Append(tables, tables[arrays[a].buckets])
  /\ arrays' = Append([arrays EXCEPT ![a].ref = @ + 1],
                      [arrays[a] EXCEPT !.buckets = Len(tables) + 1,
                                        !.ref = 1, !.copyOf = a])
  /\ owned' = owned \cup {Len(arrays) + 1}
  /\ contents' = Append(contents, contents[a])
  /\ UNCHANGED <<buckets, todo, reads>>

LazyCopy(a) ==
  /\ Begin("copy") /\ a \in owned
  /\ tables' = Append(tables, tables[arrays[a].buckets])
  /\ arrays' = Append([arrays EXCEPT ![a].ref = @ + 1],
                      [arrays[a] EXCEPT !.buckets = Len(tables) + 1,
                                        !.version = @ + 1, !.ref = 1, !.copyOf = a])
  /\ owned' = owned \cup {Len(arrays) + 1}
  /\ contents' = Append(contents, contents[a])
  /\ UNCHANGED <<buckets, todo, reads>>

(* sarray_at_put_safe (): sarray_realloc () if there are too few buckets,  *)
(* and sarray_at_put ().                                                   *)
Grow(a, i) ==
  IF i \div BucketSize < arrays[a].size THEN <<>>
  ELSE LET n == (i \div BucketSize) + 1 + Slack
       IN  <<[do |-> "size", a |-> a, n |-> n],
             [do |-> "install", a |-> a, n |-> n],
             [do |-> "discard", what |-> "table", id |-> arrays[a].buckets]>>

AtPut(a, i, v) ==
  /\ Begin("put") /\ a \in owned /\ arrays[a].ref = 1
  /\ Grow(a, i) = <<>> \/ "grow" \in Operations
  /\ contents' = [contents EXCEPT ![a][i] = v]
  /\ todo' = Grow(a, i) \o <<[do |-> "bucket", a |-> a, i |-> i, v |-> v],
                              [do |-> "element", a |-> a, i |-> i, v |-> v]>>
  /\ reads' = [r \in Reader |-> IF reads[r].array = a /\ reads[r].index = i
                                THEN [reads[r] EXCEPT !.right = @ \cup {v}] ELSE reads[r]]
  /\ UNCHANGED <<arrays, tables, buckets, owned>>

Free(a) ==
  /\ Begin("free") /\ a \in owned
  /\ owned' = owned \ {a}
  /\ todo' = <<[do |-> "free", a |-> a]>>
  /\ UNCHANGED <<arrays, tables, buckets, contents, reads>>

-----------------------------------------------------------------------------
(* The steps the functions are made of, as far as a reader, or another     *)
(* array, can tell them apart.                                             *)
Do(what) == todo # <<>> /\ Head(todo).do = what
Step == Head(todo)
Done == todo' = Tail(todo)

(* (history) The array a thread reads grows, or something is thrown away,  *)
(* while it reads.                                                         *)
Change(S) == reads' = [r \in Reader |-> IF r \in S THEN [reads[r] EXCEPT !.changed = TRUE]
                                        ELSE reads[r]]

(* array->capacity = rounded_size;  before the new table is installed.     *)
SetSize ==
  /\ Do("size") /\ Done
  /\ arrays' = [arrays EXCEPT ![Step.a].size = Step.n]
  /\ Change({r \in Reader : reads[r].array = Step.a})
  /\ UNCHANGED <<tables, buckets, owned, contents, ops>>

InstallTable ==
  /\ Do("install") /\ Done
  /\ LET old == tables[arrays[Step.a].buckets].at
     IN  tables' = Append(tables,
           [st |-> "live", at |-> [k \in 1..Step.n |->
              IF k \in DOMAIN old THEN old[k] ELSE arrays[Step.a].empty]])
  /\ arrays' = [arrays EXCEPT ![Step.a].buckets = Len(tables) + 1]
  /\ UNCHANGED <<buckets, owned, contents, ops, reads>>

(* The bucket is made the array's own, if it is not: the empty one, or one *)
(* of the original.  Nothing is done if the element is there already.      *)
BucketOf(a, i) == tables[arrays[a].buckets].at[(i \div BucketSize) + 1]

Fresh ==  \* mutant: the elements are not copied into the new bucket
  /\ Do("bucket") /\ Done
  /\ buckets' = Append(buckets, [st |-> "live", version |-> arrays[Step.a].version,
                                 elems |-> [o \in Offset |-> NoValue]])
  /\ tables' = [tables EXCEPT ![arrays[Step.a].buckets].at
                                 [(Step.i \div BucketSize) + 1] = Len(buckets) + 1]
  /\ UNCHANGED <<arrays, owned, contents, ops, reads>>

WriteThrough ==  \* mutant: a bucket of the original is not copied
  /\ Do("bucket")
  /\ LET b == BucketOf(Step.a, Step.i)
     IN  IF b = arrays[Step.a].empty
         THEN /\ buckets' = Append(buckets, [buckets[b] EXCEPT !.version = arrays[Step.a].version])
              /\ tables' = [tables EXCEPT ![arrays[Step.a].buckets].at
                                            [(Step.i \div BucketSize) + 1] = Len(buckets) + 1]
         ELSE UNCHANGED <<buckets, tables>>
  /\ Done
  /\ UNCHANGED <<arrays, owned, contents, ops, reads>>

OwnBucket ==
  /\ Do("bucket")
  /\ LET b == BucketOf(Step.a, Step.i)
         k == (Step.i \div BucketSize) + 1
         version == arrays[Step.a].version
     IN  \/ /\ buckets[b].elems[Step.i % BucketSize] = Step.v
            /\ todo' = Tail(Tail(todo))
            /\ UNCHANGED <<buckets, tables>>
         \/ /\ buckets[b].elems[Step.i % BucketSize] # Step.v
            /\ Done
            /\ IF b = arrays[Step.a].empty \/ buckets[b].version # version
               THEN /\ buckets' = Append(buckets, [buckets[b] EXCEPT !.version = version])
                    /\ tables' = [tables EXCEPT ![arrays[Step.a].buckets].at[k] =
                                                  Len(buckets) + 1]
               ELSE UNCHANGED <<buckets, tables>>
  /\ UNCHANGED <<arrays, owned, contents, ops, reads>>

SetElement ==
  /\ Do("element") /\ Done
  /\ buckets' = [buckets EXCEPT ![BucketOf(Step.a, Step.i)].elems[Step.i % BucketSize] = Step.v]
  /\ UNCHANGED <<arrays, tables, owned, contents, ops, reads>>

(* sarray_free (): one reference less; if it was the last, first the       *)
(* original, if nothing but this copy kept it, then the buckets that are   *)
(* the array's own, the empty one if it is, the table and the array.       *)
FreeSteps(a) ==
  LET o == arrays[a].copyOf
      entries == tables[arrays[a].buckets].at
  IN  IF arrays[a].ref - 1 # 0 THEN <<>>
      ELSE (IF o # 0 /\ arrays[o].ref - 1 = 0 THEN <<[do |-> "free", a |-> o]>> ELSE <<>>)
           \o [k \in 1..arrays[a].size |->
                 [do |-> IF entries[k] = arrays[a].empty THEN "skip" ELSE "own",
                  a |-> a, id |-> entries[k]]]
           \o <<[do |-> "own", a |-> a, id |-> arrays[a].empty],
                [do |-> "discard", what |-> "table", id |-> arrays[a].buckets],
                [do |-> "discard", what |-> "array", id |-> a]>>

FreeArray ==
  /\ Do("free")
  /\ todo' = FreeSteps(Step.a) \o Tail(todo)
  /\ arrays' = [arrays EXCEPT ![Step.a].ref = @ - 1]
  /\ UNCHANGED <<tables, buckets, owned, contents, ops, reads>>

Skip ==
  /\ Do("skip") /\ Done
  /\ UNCHANGED <<arrays, tables, buckets, owned, contents, ops, reads>>

(* if (bkt->version.version == array->version.version), where bkt may have *)
(* been freed with the original.                                           *)
IsOwn ==
  /\ Do("own")
  /\ LET same == buckets[Step.id].version = arrays[Step.a].version
         outcomes == IF buckets[Step.id].st = "free" /\ ~ FreedKeeps THEN BOOLEAN ELSE {same}
     IN  \E own \in outcomes :
           todo' = (IF own THEN <<[do |-> "discard", what |-> "bucket", id |-> Step.id]>>
                    ELSE <<>>) \o Tail(todo)
  /\ UNCHANGED <<arrays, tables, buckets, owned, contents, ops, reads>>

(* sarray_free_garbage (): freed if there is no other thread, and else put *)
(* on the list, which overwrites the first word of it.                     *)
Fate(st) == CASE st = "live" -> IF Reader = {} THEN "free" ELSE "garbage"
              [] OTHER -> "freed twice"

Discard ==
  /\ Do("discard") /\ Done
  /\ LET id == Step.id IN
     CASE Step.what = "bucket" ->
            /\ buckets' = [buckets EXCEPT ![id].st = Fate(@),
                             ![id].elems[0] = IF Reader = {} THEN @ ELSE Link]
            /\ UNCHANGED <<arrays, tables>>
       [] Step.what = "table" ->
            /\ tables' = [tables EXCEPT ![id].st = Fate(@),
                            ![id].at[1] = IF Reader = {} THEN @ ELSE 0]
            /\ UNCHANGED <<arrays, buckets>>
       [] Step.what = "array" ->
            /\ arrays' = [arrays EXCEPT ![id].st = Fate(@),
                            ![id].buckets = IF Reader = {} THEN @ ELSE 0]
            /\ UNCHANGED <<tables, buckets>>
  /\ Change({r \in Reader : reads[r].at # "idle"})
  /\ UNCHANGED <<owned, contents, ops>>

-----------------------------------------------------------------------------
(* A reader: sarray_get_safe (), one load at a time.                       *)
Read(r, a, i) ==
  /\ reads[r].at = "idle" /\ a \in owned
  /\ reads' = [reads EXCEPT ![r] = [Idle EXCEPT !.at = "size", !.array = a, !.index = i,
                                                !.right = {Get(a, i), contents[a][i]},
                                                !.changed = Do("install") /\ Step.a = a]]
  /\ UNCHANGED <<arrays, tables, buckets, owned, contents, todo, ops>>

Load(r, at, ptr) == reads' = [reads EXCEPT ![r].at = at, ![r].ptr = ptr]
Got(r, v) == reads' = [reads EXCEPT ![r].at = "idle", ![r].got = v]

LoadSize(r) ==
  /\ reads[r].at = "size"
  /\ IF reads[r].index \div BucketSize < arrays[reads[r].array].size
     THEN Load(r, "buckets", 0) ELSE Load(r, "default", 0)

LoadDefault(r) ==  \* array->empty_bucket->elems[0]
  /\ reads[r].at = "default"
  /\ Got(r, buckets[arrays[reads[r].array].empty].elems[0])

LoadBuckets(r) ==
  /\ reads[r].at = "buckets"
  /\ LET table == arrays[reads[r].array].buckets
     IN  IF table = 0 THEN Got(r, Wild) ELSE Load(r, "bucket", table)

LoadBucket(r) ==
  /\ reads[r].at = "bucket"
  /\ LET k == (reads[r].index \div BucketSize) + 1
         at == tables[reads[r].ptr].at
     IN  IF k \notin DOMAIN at THEN Got(r, Wild)
         ELSE IF at[k] = 0 THEN Got(r, Wild) ELSE Load(r, "element", at[k])

LoadElement(r) ==
  /\ reads[r].at = "element"
  /\ Got(r, buckets[reads[r].ptr].elems[reads[r].index % BucketSize])

ReadStep(r) ==
  /\ LoadSize(r) \/ LoadDefault(r) \/ LoadBuckets(r) \/ LoadBucket(r) \/ LoadElement(r)
  /\ UNCHANGED <<arrays, tables, buckets, owned, contents, todo, ops>>

Next ==
  \/ \E n \in 1..MaxBuckets : New(n)
  \/ \E a \in DOMAIN arrays :
       LazyCopy(a) \/ Free(a) \/ \E i \in Index, v \in Value : AtPut(a, i, v)
  \/ SetSize \/ InstallTable \/ OwnBucket \/ SetElement
  \/ FreeArray \/ Skip \/ IsOwn \/ Discard
  \/ \E r \in Reader : ReadStep(r) \/ \E a \in DOMAIN arrays, i \in Index : Read(r, a, i)

Spec == Init /\ [][Next]_vars

-----------------------------------------------------------------------------
(* Arrays, tables and buckets are linked to ones that were made, and an    *)
(* array has as many references as can be told by a number.                *)
States == {"live", "garbage", "free", "freed twice"}
TypeOK ==
  /\ \A a \in DOMAIN arrays :
       /\ arrays[a].st \in States /\ arrays[a].ref \in Nat
       /\ arrays[a].buckets \in 0..Len(tables) /\ arrays[a].empty \in DOMAIN buckets
       /\ arrays[a].copyOf \in 0..Len(arrays)
  /\ \A p \in DOMAIN tables :
       tables[p].st \in States /\ Range(tables[p].at) \subseteq 0..Len(buckets)
  /\ \A b \in DOMAIN buckets : buckets[b].st \in States
  /\ owned \subseteq DOMAIN arrays /\ Len(contents) = Len(arrays)

(* When no function is being called, every array the program has holds     *)
(* what was written to it and to nothing else: what is written to a copy   *)
(* does not show in the original, and freeing one leaves the other whole.  *)
ContentRight ==
  todo = <<>> => \A a \in owned, i \in Index : Get(a, i) = contents[a][i]

(* No array, table or bucket is freed twice.                               *)
NeverTwice ==
  \A s \in {arrays, tables, buckets} : \A k \in DOMAIN s : s[k].st # "freed twice"

(* So memory is linked and freed as it should be.                          *)
MemoryRight == TypeOK /\ NeverTwice

(* The array of which sarray_free () says that there are copies has some.  *)
CopiesExist ==
  Do("free") /\ arrays[Step.a].ref > 1 =>
    \E c \in DOMAIN arrays : arrays[c].copyOf = Step.a /\ arrays[c].st = "live"

(* A thread that reads without the lock gets a value the array had while   *)
(* it did.                                                                 *)
ReaderRight == \A r \in Reader : reads[r].at = "idle" => reads[r].got \in reads[r].right

(* So it does unless the array grew, or something was thrown away, in the  *)
(* meantime: other threads may write to the array, and copy and write to   *)
(* others that share its buckets.                                          *)
ReaderRightMostly ==
  \A r \in Reader : reads[r].at = "idle" /\ ~reads[r].changed => reads[r].got \in reads[r].right
=============================================================================
