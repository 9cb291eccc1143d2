---------------------------- MODULE SparseProofs ----------------------------
(***************************************************************************)
(* What TLAPS proves of SparseArrays, for any number of arrays, copies,    *)
(* calls and readers: an array holds what was written to it, nothing is    *)
(* freed twice, and a reader without the mutex gets a value that the array *)
(* had, unless it grew or something was thrown away in the meantime.       *)
(*                                                                         *)
(* All theorems assume that memory reads as it did after it was freed, or  *)
(* that there are readers, for which it is kept as garbage: without that a *)
(* bucket may be freed twice, as the configuration MCSparseFreed shows.    *)
(***************************************************************************)
EXTENDS SparseArrays, SequenceTheorems, WellFoundedInduction, TLAPS

(* The types.  A word that a thread reads may be one of something else.    *)
Elem == Value \cup {NoValue, Link}
Word == Elem \cup {Wild}
St == {"live", IF Reader = {} THEN "free" ELSE "garbage"}
ArrayType ==
  [st : St, buckets : Nat, empty : Nat, version : Nat, ref : Nat, copyOf : Nat, size : Nat]
TableType == [st : St, at : Seq(Nat)]
BucketType == [st : St, version : Nat, elems : [Offset -> Elem]]
SizeSteps == [do : {"size", "install"}, a : Nat, n : Nat]
WriteSteps == [do : {"bucket", "element"}, a : Nat, i : Index, v : Value]
FreeOnes == [do : {"free"}, a : Nat]
OwnSteps == [do : {"skip", "own"}, a : Nat, id : Nat]
DiscardSteps == [do : {"discard"}, what : {"bucket", "table", "array"}, id : Nat]
StepType == SizeSteps \cup WriteSteps \cup FreeOnes \cup OwnSteps \cup DiscardSteps
ReadType ==
  [at : {"idle", "size", "default", "buckets", "bucket", "element"}, array : Nat, index : Nat,
   ptr : Nat, right : SUBSET Word, changed : BOOLEAN, got : Word]

ArraysOK ==
  /\ arrays \in Seq(ArrayType)
  /\ \A a \in DOMAIN arrays :
       arrays[a].buckets <= Len(tables) /\ arrays[a].empty \in DOMAIN buckets /\ arrays[a].copyOf < a
TablesOK ==
  /\ tables \in Seq(TableType)
  /\ \A p \in DOMAIN tables : tables[p].at # <<>>
  /\ \A p \in DOMAIN tables : \A k \in DOMAIN tables[p].at : tables[p].at[k] <= Len(buckets)
BucketsOK == buckets \in Seq(BucketType)
ProgramOK ==
  /\ owned \subseteq DOMAIN arrays
  /\ contents \in Seq([Index -> Value \cup {NoValue}]) /\ Len(contents) = Len(arrays)
  /\ todo \in Seq(StepType)
ReadsOK ==
  /\ reads \in [Reader -> ReadType]
  /\ \A r \in Reader :
       /\ reads[r].array # 0 => reads[r].array \in DOMAIN arrays /\ reads[r].index \in Index
       /\ reads[r].at # "idle" => reads[r].array # 0
       /\ reads[r].at = "bucket" => reads[r].ptr \in DOMAIN tables
       /\ reads[r].at = "element" => reads[r].ptr \in DOMAIN buckets
Types == ArraysOK /\ TablesOK /\ BucketsOK /\ ProgramOK /\ ReadsOK

(* The tables that were not thrown away, and the buckets of an array.      *)
Table(a) == tables[arrays[a].buckets].at
Intact ==
  {a \in DOMAIN arrays : arrays[a].buckets # 0 /\ tables[arrays[a].buckets].st = "live"}
Entries ==
  [a \in DOMAIN arrays |-> IF a \in Intact
                           THEN {Table(a)[k] : k \in DOMAIN Table(a)} \cup {arrays[a].empty} ELSE {}]
Own(a, b) == b \in Entries[a] /\ buckets[b].version = arrays[a].version
Writable == {a \in owned : arrays[a].ref = 1}

(* Each array has its table.  The buckets of an array have at most its     *)
(* version, and are its own if they have it.  A bucket is empty for all    *)
(* arrays or for none.  A bucket is one array's own, which has it in one   *)
(* place; if that array may be written to, no other has the bucket.        *)
Apart == \A a, c \in Intact : a # c => arrays[a].buckets # arrays[c].buckets
Versions == \A a \in DOMAIN arrays : \A b \in Entries[a] :
  b \in DOMAIN buckets /\ buckets[b].version <= arrays[a].version
SameEmpty == \A a, c \in DOMAIN arrays :
  arrays[c].empty \in Entries[a] => arrays[a].empty = arrays[c].empty
Owners == \A a, c \in DOMAIN arrays : \A b \in Entries[a] : Own(a, b) /\ Own(c, b) => a = c
Placed == \A a \in Intact : \A j, k \in DOMAIN Table(a) :
  Table(a)[j] = Table(a)[k] /\ Own(a, Table(a)[j]) /\ Table(a)[j] # arrays[a].empty => j = k
Shared == \A a, c \in DOMAIN arrays : \A b \in Entries[c] :
  a # c /\ Own(a, b) => a \notin Writable

(* The other buckets of an array that is referred to are those of the      *)
(* original.  All of it is live; the empty bucket stays empty.             *)
From == \A c \in DOMAIN arrays : \A b \in Entries[c] :
  arrays[c].ref > 0 /\ buckets[b].version < arrays[c].version
    => arrays[c].copyOf # 0 /\ b \in Entries[arrays[c].copyOf]
Alive == \A c \in DOMAIN arrays : arrays[c].ref > 0 =>
  arrays[c].st = "live" /\ c \in Intact /\ \A b \in Entries[c] : buckets[b].st = "live"
Empties == \A a \in DOMAIN arrays : buckets[arrays[a].empty].st = "live" =>
  \A o \in Offset : buckets[arrays[a].empty].elems[o] = NoValue

(* References: one for the program, and one for each copy that was ever    *)
(* made, as long as the array is not freed for its copy.                   *)
Freed(x) == Len(todo) = 1 /\ todo[1].do = "free" /\ todo[1].a = x
CopyOf(c, x) == c \in DOMAIN arrays /\ arrays[c].copyOf = x
References == \A x \in DOMAIN arrays :
  /\ x \in owned \/ Freed(x) =>
       /\ arrays[x].ref >= 1
       /\ \A c \in DOMAIN arrays : CopyOf(c, x) => arrays[x].ref >= 2
       /\ \A c, d \in DOMAIN arrays : CopyOf(c, x) /\ CopyOf(d, x) /\ c # d => arrays[x].ref >= 3
  /\ \A c, d \in DOMAIN arrays : CopyOf(c, x) /\ CopyOf(d, x) /\ c # d => arrays[x].ref >= 2
  /\ arrays[x].ref = 0 =>
       x \notin owned /\ \A c \in DOMAIN arrays : CopyOf(c, x) => arrays[c].ref = 0

(* The size of an array is that of its table, unless it is growing.        *)
Growing(a) == todo # <<>> /\ todo[1].do = "install" /\ todo[1].a = a
Sizes == \A a \in Intact : Len(Table(a)) = arrays[a].size \/ Growing(a)

K(i) == (i \div BucketSize) + 1

(* The steps of a write, as far as it has got.                             *)
BucketStep(a, i, v) == [do |-> "bucket", a |-> a, i |-> i, v |-> v]
ElementStep(a, i, v) == [do |-> "element", a |-> a, i |-> i, v |-> v]
DiscardStep(what, id) == [do |-> "discard", what |-> what, id |-> id]
Discards(s, what) == s.do = "discard" /\ s.what = what
Sized(s, what, a, i) == s.do = what /\ s.a = a /\ Len(Table(a)) < s.n /\ K(i) <= s.n

WriteSize(a, i, v) ==
  /\ Len(todo) = 5 /\ Sized(todo[1], "size", a, i) /\ Sized(todo[2], "install", a, i)
  /\ todo[1].n = todo[2].n /\ todo[3] = DiscardStep("table", arrays[a].buckets)
  /\ todo[4] = BucketStep(a, i, v) /\ todo[5] = ElementStep(a, i, v)
WriteInstall(a, i, v) ==
  /\ Len(todo) = 4 /\ Sized(todo[1], "install", a, i) /\ arrays[a].size = todo[1].n
  /\ todo[2] = DiscardStep("table", arrays[a].buckets)
  /\ todo[3] = BucketStep(a, i, v) /\ todo[4] = ElementStep(a, i, v)
Orphan(p) == p \in DOMAIN tables /\ tables[p].st = "live" /\ \A c \in DOMAIN arrays : arrays[c].buckets # p
WriteDiscard(a, i, v) ==
  /\ Len(todo) = 3 /\ Discards(todo[1], "table") /\ Orphan(todo[1].id)
  /\ todo[2] = BucketStep(a, i, v) /\ todo[3] = ElementStep(a, i, v)
  /\ K(i) <= Len(Table(a))
WriteBucket(a, i, v) ==
  /\ Len(todo) = 2 /\ todo[1] = BucketStep(a, i, v) /\ todo[2] = ElementStep(a, i, v)
  /\ K(i) <= Len(Table(a))
WriteElement(a, i, v) ==
  /\ Len(todo) = 1 /\ todo[1] = ElementStep(a, i, v)
  /\ K(i) <= Len(Table(a)) /\ Own(a, Table(a)[K(i)]) /\ Table(a)[K(i)] # arrays[a].empty
Writing(a, i, v) ==
  /\ a \in Writable /\ contents[a][i] = v
  /\ \/ WriteSize(a, i, v) \/ WriteInstall(a, i, v) \/ WriteDiscard(a, i, v)
     \/ WriteBucket(a, i, v) \/ WriteElement(a, i, v)
SomeWriting == \E a \in DOMAIN arrays, i \in Index, v \in Value : Writing(a, i, v)

(* The steps of sarray_free (): what is thrown away is live, belongs to an *)
(* array without references, and is thrown away once.                      *)
After(i) == {todo[j] : j \in (i + 1)..Len(todo)}
FreeStep(s, rest) ==
  /\ s.do = "free" /\ s.a \in DOMAIN arrays \ owned /\ arrays[s.a].ref >= 1
  /\ rest # {} => arrays[s.a].ref = 1 /\ \E c \in DOMAIN arrays : CopyOf(c, s.a) /\ arrays[c].ref = 0
OwnStep(s, rest) ==
  /\ s.do = "own" /\ s.a \in DOMAIN arrays
  /\ arrays[s.a].ref = 0 /\ s.id \in Entries[s.a]
  /\ DiscardStep("table", arrays[s.a].buckets) \in rest
  /\ Own(s.a, s.id) => buckets[s.id].st = "live" /\ s \notin rest
BucketGone(s, rest) ==
  /\ Discards(s, "bucket") /\ s.id \in DOMAIN buckets /\ buckets[s.id].st = "live"
  /\ \E a \in DOMAIN arrays : arrays[a].ref = 0 /\ Own(a, s.id)
  /\ \A u \in rest : u.do = "own" /\ u.id = s.id => ~Own(u.a, u.id)
TableGone(s, rest) ==
  /\ Discards(s, "table") /\ s.id \in DOMAIN tables /\ tables[s.id].st = "live"
  /\ s \notin rest
  /\ \E a \in DOMAIN arrays : arrays[a].ref = 0 /\ arrays[a].buckets = s.id /\ DiscardStep("array", a) \in rest
ArrayGone(s, rest) ==
  /\ Discards(s, "array") /\ s.id \in DOMAIN arrays
  /\ arrays[s.id].ref = 0 /\ arrays[s.id].st = "live" /\ s \notin rest
Later(s, rest) == s.do = "skip" \/ OwnStep(s, rest) \/ TableGone(s, rest) \/ ArrayGone(s, rest)
Freeing ==
  \A i \in 1..Len(todo) :
    \/ Later(todo[i], After(i))
    \/ i = 1 /\ (FreeStep(todo[i], After(i)) \/ BucketGone(todo[i], After(i)))

Steps == Freeing \/ SomeWriting

(* An array holds what was written to it, but for what is being written.   *)
Content == \A a \in owned, i \in Index :
  Get(a, i) = contents[a][i] \/ \E v \in Value : Writing(a, i, v)

(* A thread that reads an array that did not change: what is in the array  *)
(* now, or in the bucket it has found, is right, and nobody writes to that *)
(* bucket but in the place of the array it came from.                      *)
ReadOK(r) ==
  LET a == reads[r].array  i == reads[r].index  b == reads[r].ptr IN
  /\ arrays[a].st = "live" /\ a \in Intact /\ Len(Table(a)) = arrays[a].size
  /\ \A e \in Entries[a] : buckets[e].st = "live"
  /\ reads[r].at # "element" => Get(a, i) \in reads[r].right
  /\ reads[r].at = "default" => K(i) > Len(Table(a))
  /\ reads[r].at \in {"buckets", "bucket", "element"} => K(i) <= Len(Table(a))
  /\ reads[r].at = "bucket" => b = arrays[a].buckets
  /\ reads[r].at = "element" =>
       /\ buckets[b].st = "live" /\ buckets[b].elems[i % BucketSize] \in reads[r].right
       /\ \A x \in Writable : Own(x, b) /\ b # arrays[x].empty => x = a /\ Table(a)[K(i)] = b
Readers == \A r \in Reader :
  /\ reads[r].array # 0 => contents[reads[r].array][reads[r].index] \in reads[r].right
  /\ reads[r].at # "idle" /\ ~reads[r].changed => ReadOK(r)
  /\ reads[r].at = "idle" /\ ~reads[r].changed => reads[r].got \in reads[r].right

Heap == Apart /\ Versions /\ SameEmpty /\ Owners /\ Placed /\ Shared /\ From /\ Alive /\ Empties
Inv == Types /\ Heap /\ References /\ Sizes /\ Steps /\ Content /\ Readers

-----------------------------------------------------------------------------
(* An index is given by its bucket and its place in it.                    *)
LEMMA IndexIs ==
  ASSUME NEW i \in Nat, NEW j \in Nat
  PROVE  /\ K(i) \in Nat \ {0} /\ i \div BucketSize = K(i) - 1 /\ i % BucketSize \in Offset
         /\ K(i) = K(j) /\ i % BucketSize = j % BucketSize => i = j
<1>1. BucketSize \in Nat \ {0}
  BY SizeAssumption
<1>2. i = BucketSize * (i \div BucketSize) + (i % BucketSize)
  BY <1>1
<1>3. j = BucketSize * (j \div BucketSize) + (j % BucketSize)
  BY <1>1
<1>4. i % BucketSize \in 0..(BucketSize - 1)
  BY <1>1
<1>5. i \div BucketSize \in Nat /\ j \div BucketSize \in Nat
  BY <1>1
<1> QED
  BY <1>1, <1>2, <1>3, <1>4, <1>5 DEF Offset, K

(* Indices are numbers, and a bucket has a first place.                    *)
LEMMA IndexNat == Index \subseteq Nat /\ 0 \in Offset
BY SizeAssumption DEF Index, Offset

(* Sequences.                                                              *)
LEMMA SeqIs ==
  ASSUME NEW S, NEW s \in Seq(S)
  PROVE  /\ Len(s) \in Nat /\ DOMAIN s = 1..Len(s) /\ \A i \in DOMAIN s : s[i] \in S
         /\ s # <<>> => Len(s) >= 1 /\ 1 \in DOMAIN s
BY EmptySeq, LenProperties

(* A sequence of which one element is changed.                             *)
LEMMA PutSeq ==
  ASSUME NEW S, NEW s \in Seq(S), NEW i \in DOMAIN s, NEW e \in S, NEW t, t = [s EXCEPT ![i] = e]
  PROVE  /\ t \in Seq(S) /\ Len(t) = Len(s) /\ DOMAIN t = DOMAIN s
         /\ t[i] = e /\ \A j \in DOMAIN s : j # i => t[j] = s[j]
BY ExceptSeq, LenProperties

(* A sequence to which an element is appended.                             *)
LEMMA AddSeq ==
  ASSUME NEW S, NEW s \in Seq(S), NEW e \in S, NEW t, t = Append(s, e)
  PROVE  /\ t \in Seq(S) /\ Len(t) = Len(s) + 1 /\ DOMAIN t = DOMAIN s \cup {Len(s) + 1}
         /\ Len(s) + 1 \notin DOMAIN s
         /\ t[Len(s) + 1] = e /\ \A j \in DOMAIN s : t[j] = s[j]
<1>1. /\ t \in Seq(S) /\ Len(t) = Len(s) + 1
      /\ t[Len(s) + 1] = e /\ \A j \in 1..Len(s) : t[j] = s[j]
  BY AppendProperties
<1>2. Len(s) \in Nat /\ DOMAIN s = 1..Len(s) /\ DOMAIN t = 1..Len(t)
  BY <1>1, LenProperties
<1> QED
  BY <1>1, <1>2

(* A sequence without its first element.                                   *)
LEMMA TailSeq ==
  ASSUME NEW S, NEW s \in Seq(S), s # <<>>
  PROVE  /\ Head(s) = s[1] /\ Tail(s) \in Seq(S) /\ Len(s) \in Nat \ {0} /\ Len(Tail(s)) = Len(s) - 1
         /\ \A i \in 1..(Len(s) - 1) : Tail(s)[i] = s[i + 1]
<1>1. Len(s) \in Nat \ {0}
  BY EmptySeq
<1> QED
  BY <1>1, HeadTailProperties

(* What the types say.                                                     *)
LEMMA ArrayIs ==
  ASSUME ArraysOK, TablesOK, BucketsOK
  PROVE  /\ Len(arrays) \in Nat /\ DOMAIN arrays = 1..Len(arrays)
         /\ Len(tables) \in Nat /\ DOMAIN tables = 1..Len(tables)
         /\ Len(buckets) \in Nat /\ DOMAIN buckets = 1..Len(buckets)
         /\ \A a \in DOMAIN arrays :
              /\ arrays[a] \in ArrayType /\ a \in Nat \ {0}
              /\ arrays[a].st \in St /\ arrays[a].buckets \in Nat /\ arrays[a].buckets <= Len(tables)
              /\ arrays[a].empty \in DOMAIN buckets /\ arrays[a].version \in Nat /\ arrays[a].ref \in Nat
              /\ arrays[a].copyOf \in Nat /\ arrays[a].copyOf < a /\ arrays[a].size \in Nat
              /\ arrays[a].buckets # 0 => arrays[a].buckets \in DOMAIN tables
         /\ \A p \in DOMAIN tables :
              /\ tables[p] \in TableType /\ p \in Nat \ {0}
              /\ tables[p].st \in St /\ tables[p].at \in Seq(Nat) /\ Len(tables[p].at) \in Nat \ {0}
              /\ DOMAIN tables[p].at = 1..Len(tables[p].at)
              /\ \A k \in DOMAIN tables[p].at : tables[p].at[k] \in Nat /\ tables[p].at[k] <= Len(buckets)
         /\ \A b \in DOMAIN buckets :
              /\ buckets[b] \in BucketType /\ b \in Nat \ {0}
              /\ buckets[b].st \in St /\ buckets[b].version \in Nat /\ buckets[b].elems \in [Offset -> Elem]
<1>1. /\ Len(arrays) \in Nat /\ DOMAIN arrays = 1..Len(arrays) /\ \A a \in DOMAIN arrays : arrays[a] \in ArrayType
  BY SeqIs DEF ArraysOK
<1>2. /\ Len(tables) \in Nat /\ DOMAIN tables = 1..Len(tables) /\ \A p \in DOMAIN tables : tables[p] \in TableType
  BY SeqIs DEF TablesOK
<1>3. /\ Len(buckets) \in Nat /\ DOMAIN buckets = 1..Len(buckets) /\ \A b \in DOMAIN buckets : buckets[b] \in BucketType
  BY SeqIs DEF BucketsOK
<1>4. ASSUME NEW p \in DOMAIN tables
      PROVE  /\ tables[p].st \in St /\ tables[p].at \in Seq(Nat) /\ Len(tables[p].at) \in Nat \ {0}
             /\ DOMAIN tables[p].at = 1..Len(tables[p].at)
             /\ \A k \in DOMAIN tables[p].at : tables[p].at[k] \in Nat /\ tables[p].at[k] <= Len(buckets)
  <2>1. tables[p].st \in St /\ tables[p].at \in Seq(Nat) /\ tables[p].at # <<>>
    BY <1>2 DEF TableType, TablesOK
  <2> QED
    BY <2>1, SeqIs, EmptySeq DEF TablesOK
<1>5. \A b \in DOMAIN buckets :
        buckets[b].st \in St /\ buckets[b].version \in Nat /\ buckets[b].elems \in [Offset -> Elem]
  BY <1>3 DEF BucketType
<1>6. \A a \in DOMAIN arrays :
        /\ arrays[a].st \in St /\ arrays[a].buckets \in Nat
        /\ arrays[a].version \in Nat /\ arrays[a].ref \in Nat
        /\ arrays[a].copyOf \in Nat /\ arrays[a].size \in Nat
  BY <1>1 DEF ArrayType
<1>7. \A a \in DOMAIN arrays :
       arrays[a].buckets <= Len(tables) /\ arrays[a].empty \in DOMAIN buckets /\ arrays[a].copyOf < a
  BY DEF ArraysOK
<1> QED
  BY <1>1, <1>2, <1>3, <1>4, <1>5, <1>6, <1>7

(* The steps to be done, and those after the first.                        *)
LEMMA TodoIs ==
  ASSUME ProgramOK
  PROVE  /\ Len(todo) \in Nat /\ \A i \in 1..Len(todo) : todo[i] \in StepType
         /\ todo # <<>> => /\ Len(todo) >= 1 /\ Step = todo[1] /\ Tail(todo) \in Seq(StepType)
                           /\ Len(Tail(todo)) = Len(todo) - 1
                           /\ \A i \in 1..(Len(todo) - 1) : Tail(todo)[i] = todo[i + 1]
                           /\ \A what : Do(what) <=> todo[1].do = what
<1>1. Len(todo) \in Nat /\ \A i \in 1..Len(todo) : todo[i] \in StepType
  BY SeqIs DEF ProgramOK
<1> QED
  BY <1>1, TailSeq DEF ProgramOK, Step, Do

(* The buckets of an array whose table was not thrown away.                *)
LEMMA EntriesIs ==
  ASSUME ArraysOK, TablesOK, BucketsOK, NEW a \in Intact
  PROVE  /\ a \in DOMAIN arrays /\ arrays[a].buckets \in DOMAIN tables
         /\ Table(a) = tables[arrays[a].buckets].at /\ Table(a) \in Seq(Nat) /\ Len(Table(a)) \in Nat \ {0}
         /\ DOMAIN Table(a) = 1..Len(Table(a)) /\ \A k \in DOMAIN Table(a) : Table(a)[k] \in Entries[a]
         /\ arrays[a].empty \in Entries[a]
         /\ \A b \in Entries[a] : b = arrays[a].empty \/ \E k \in DOMAIN Table(a) : b = Table(a)[k]
<1>1. a \in DOMAIN arrays /\ arrays[a].buckets # 0
  BY DEF Intact
<1>2. /\ arrays[a].buckets \in DOMAIN tables
      /\ Table(a) \in Seq(Nat) /\ Len(Table(a)) \in Nat \ {0} /\ DOMAIN Table(a) = 1..Len(Table(a))
  BY <1>1, ArrayIs DEF Table
<1>3. Entries[a] = {Table(a)[k] : k \in DOMAIN Table(a)} \cup {arrays[a].empty}
  BY <1>1 DEF Entries
<1> QED
  BY <1>1, <1>2, <1>3 DEF Table

(* An array without its table has no buckets.                              *)
LEMMA EntriesNone ==
  ASSUME NEW a \in DOMAIN arrays, Entries[a] # {}
  PROVE  a \in Intact
BY DEF Entries

(* Where an element of an array is.                                        *)
BucketAt(a, i) == IF K(i) \in DOMAIN Table(a) THEN Table(a)[K(i)] ELSE arrays[a].empty

(* What is read from an array that is all live is in the bucket it has     *)
(* there.                                                                  *)
LEMMA GetIs ==
  ASSUME ArraysOK, TablesOK, BucketsOK, NEW a \in Intact, NEW i \in Index,
         arrays[a].st = "live", \A b \in Entries[a] : buckets[b].st = "live"
  PROVE  /\ BucketAt(a, i) \in Entries[a]
         /\ Get(a, i) = buckets[BucketAt(a, i)].elems[i % BucketSize]
<1>1. BucketAt(a, i) \in Entries[a]
  BY EntriesIs DEF BucketAt
<1>2. tables[arrays[a].buckets].st = "live"
  BY DEF Intact
<1> QED
  BY <1>1, <1>2 DEF Get, BucketAt, Table, K

Joined(p, q) == p \o q

(* One sequence after another.                                             *)
LEMMA ConcatSeq ==
  ASSUME NEW S, NEW p \in Seq(S), NEW q \in Seq(S)
  PROVE  /\ Joined(p, q) \in Seq(S) /\ Len(Joined(p, q)) = Len(p) + Len(q)
         /\ \A j \in 1..(Len(p) + Len(q)) :
              Joined(p, q)[j] = IF j <= Len(p) THEN p[j] ELSE q[j - Len(p)]
BY ConcatProperties DEF Joined

(* A function on 1..n is a sequence.                                       *)
LEMMA FunSeq ==
  ASSUME NEW S, NEW n \in Nat, NEW f \in [1..n -> S]
  PROVE  f \in Seq(S) /\ Len(f) = n /\ DOMAIN f = 1..n
OBVIOUS

-----------------------------------------------------------------------------
(* What is being done is told by the first step.                           *)
LEMMA StepForm ==
  ASSUME ProgramOK, Steps, todo # <<>>
  PROVE  /\ todo[1].do \in {"free", "skip", "own"} => Freeing
         /\ todo[1].do \in {"size", "install", "bucket", "element"} \/ ~Freeing =>
              \E a \in Writable, i \in Index, v \in Value :
                /\ contents[a][i] = v
                /\ todo[1].do = "size" => WriteSize(a, i, v)
                /\ todo[1].do = "install" => WriteInstall(a, i, v)
                /\ todo[1].do = "discard" => WriteDiscard(a, i, v)
                /\ todo[1].do = "bucket" => WriteBucket(a, i, v)
                /\ todo[1].do = "element" => WriteElement(a, i, v)
<1>1. 1 \in 1..Len(todo)
  BY TodoIs
<1>2. Freeing => todo[1].do \in {"free", "skip", "own", "discard"}
  BY <1>1 DEF Freeing, Later, OwnStep, TableGone, ArrayGone, FreeStep, BucketGone, Discards
<1>3. ASSUME NEW a, NEW i, NEW v, Writing(a, i, v)
      PROVE  /\ a \in Writable /\ contents[a][i] = v
             /\ todo[1].do = "size" => WriteSize(a, i, v)
             /\ todo[1].do = "install" => WriteInstall(a, i, v)
             /\ todo[1].do = "discard" => WriteDiscard(a, i, v)
             /\ todo[1].do = "bucket" => WriteBucket(a, i, v)
             /\ todo[1].do = "element" => WriteElement(a, i, v)
             /\ todo[1].do \in {"size", "install", "discard", "bucket", "element"}
  <2>1. a \in Writable /\ contents[a][i] = v
    BY <1>3 DEF Writing
  <2>2. WriteSize(a, i, v) => todo[1].do = "size"
    BY DEF WriteSize, Sized
  <2>3. WriteInstall(a, i, v) => todo[1].do = "install"
    BY DEF WriteInstall, Sized
  <2>4. WriteDiscard(a, i, v) => todo[1].do = "discard"
    BY DEF WriteDiscard, Discards
  <2>5. WriteBucket(a, i, v) => todo[1].do = "bucket"
    BY DEF WriteBucket, BucketStep
  <2>6. WriteElement(a, i, v) => todo[1].do = "element"
    BY DEF WriteElement, ElementStep
  <2> QED
    BY <2>1, <2>2, <2>3, <2>4, <2>5, <2>6, <1>3 DEF Writing
<1>4. CASE Freeing
  BY <1>4, <1>2
<1>5. CASE ~Freeing
  <2>1. PICK a \in DOMAIN arrays, i \in Index, v \in Value : Writing(a, i, v)
    BY <1>5 DEF Steps, SomeWriting
  <2> QED
    BY <2>1, <1>3, <1>5
<1> QED
  BY <1>4, <1>5

(* An array that may be written to.                                        *)
LEMMA WritableIs ==
  ASSUME ProgramOK, NEW a \in Writable
  PROVE  a \in owned /\ a \in DOMAIN arrays /\ arrays[a].ref = 1
BY DEF Writable, ProgramOK

-----------------------------------------------------------------------------
(* What the threads that read see of a step of another.                    *)
SameReads ==
  \A r \in Reader : /\ reads'[r].at = reads[r].at /\ reads'[r].array = reads[r].array
                    /\ reads'[r].index = reads[r].index /\ reads'[r].ptr = reads[r].ptr
                    /\ reads'[r].right = reads[r].right /\ reads'[r].got = reads[r].got
                    /\ reads[r].changed => reads'[r].changed

(* Readers stay where they are when others change arrays.                  *)
LEMMA ReadsKept ==
  ASSUME ReadsOK, reads' = reads \/ \E S : Change(S),
         DOMAIN arrays \subseteq DOMAIN arrays', DOMAIN tables \subseteq DOMAIN tables',
         DOMAIN buckets \subseteq DOMAIN buckets'
  PROVE  ReadsOK' /\ SameReads
<1>1. \A r \in Reader : reads'[r] = reads[r] \/ reads'[r] = [reads[r] EXCEPT !.changed = TRUE]
  BY DEF Change
<1>2. \A r \in Reader : reads[r] \in ReadType
  BY DEF ReadsOK
<1>3. SameReads /\ \A r \in Reader : reads'[r] \in ReadType
  <2> SUFFICES ASSUME NEW r \in Reader
               PROVE  /\ reads'[r] \in ReadType
                      /\ reads'[r].at = reads[r].at /\ reads'[r].array = reads[r].array
                      /\ reads'[r].index = reads[r].index /\ reads'[r].ptr = reads[r].ptr
                      /\ reads'[r].right = reads[r].right /\ reads'[r].got = reads[r].got
                      /\ reads[r].changed => reads'[r].changed
    BY DEF SameReads
  <2>1. CASE reads'[r] = reads[r]
    BY <2>1, <1>2
  <2>2. CASE reads'[r] = [reads[r] EXCEPT !.changed = TRUE]
    <3> DEFINE q == reads[r]
    <3>1. q \in ReadType
      BY <1>2
    <3> HIDE DEF q
    <3>2. [q EXCEPT !.changed = TRUE] \in ReadType
      BY <3>1 DEF ReadType
    <3>3. /\ [q EXCEPT !.changed = TRUE].at = q.at /\ [q EXCEPT !.changed = TRUE].array = q.array
          /\ [q EXCEPT !.changed = TRUE].index = q.index /\ [q EXCEPT !.changed = TRUE].ptr = q.ptr
          /\ [q EXCEPT !.changed = TRUE].right = q.right /\ [q EXCEPT !.changed = TRUE].got = q.got
          /\ [q EXCEPT !.changed = TRUE].changed
      BY <3>1 DEF ReadType
    <3> QED
      BY <2>2, <3>2, <3>3 DEF q
  <2> QED
    BY <2>1, <2>2, <1>1
<1>4. reads' \in [Reader -> ReadType]
  BY <1>3 DEF ReadsOK, Change
<1> QED
  BY <1>3, <1>4 DEF ReadsOK, SameReads

(* Which readers are told that an array changed.                           *)
LEMMA ChangeIs ==
  ASSUME ReadsOK, NEW S, Change(S), NEW r \in Reader
  PROVE  (r \in S => reads'[r].changed) /\ (r \notin S => reads'[r] = reads[r])
BY DEF Change, ReadsOK, ReadType

(* One array is changed.                                                   *)
Others(x) == \A c \in DOMAIN arrays : c # x => arrays'[c] = arrays[c]

(* A changed array is of the type of arrays, and the others stay.          *)
LEMMA PutArray ==
  ASSUME ArraysOK, TablesOK, BucketsOK, NEW x \in DOMAIN arrays, NEW e \in ArrayType,
         arrays' = [arrays EXCEPT ![x] = e],
         e.buckets <= Len(tables'), e.empty \in DOMAIN buckets', e.copyOf < x,
         Len(tables') \in Nat, Len(tables) <= Len(tables'), DOMAIN buckets \subseteq DOMAIN buckets'
  PROVE  /\ ArraysOK' /\ DOMAIN arrays' = DOMAIN arrays /\ Len(arrays') = Len(arrays)
         /\ arrays'[x] = e /\ Others(x)
<1>1. /\ arrays' \in Seq(ArrayType) /\ DOMAIN arrays' = DOMAIN arrays /\ Len(arrays') = Len(arrays)
      /\ arrays'[x] = e /\ \A c \in DOMAIN arrays : c # x => arrays'[c] = arrays[c]
  BY PutSeq DEF ArraysOK
<1> QED
  BY <1>1, ArrayIs DEF ArraysOK, Others

(* One bucket is changed, or one table.                                    *)
LEMMA PutBucket ==
  ASSUME BucketsOK, NEW b \in DOMAIN buckets, NEW e \in BucketType, buckets' = [buckets EXCEPT ![b] = e]
  PROVE  /\ BucketsOK' /\ DOMAIN buckets' = DOMAIN buckets /\ Len(buckets') = Len(buckets)
         /\ buckets'[b] = e /\ \A c \in DOMAIN buckets : c # b => buckets'[c] = buckets[c]
BY PutSeq DEF BucketsOK

(* A changed table is of the type of tables, and the others stay.          *)
LEMMA PutTable ==
  ASSUME TablesOK, NEW p \in DOMAIN tables, NEW e \in TableType, tables' = [tables EXCEPT ![p] = e],
         e.at # <<>>, \A k \in DOMAIN e.at : e.at[k] <= Len(buckets'),
         Len(buckets) \in Nat, Len(buckets') \in Nat, Len(buckets) <= Len(buckets')
  PROVE  /\ TablesOK' /\ DOMAIN tables' = DOMAIN tables /\ Len(tables') = Len(tables)
         /\ tables'[p] = e /\ \A c \in DOMAIN tables : c # p => tables'[c] = tables[c]
<1>1. /\ tables' \in Seq(TableType) /\ DOMAIN tables' = DOMAIN tables /\ Len(tables') = Len(tables)
      /\ tables'[p] = e /\ \A c \in DOMAIN tables : c # p => tables'[c] = tables[c]
  BY PutSeq DEF TablesOK
<1>2. \A c \in DOMAIN tables : \A k \in DOMAIN tables[c].at : tables[c].at[k] \in Nat /\ tables[c].at[k] <= Len(buckets)
  <2>1. \A c \in DOMAIN tables : tables[c] \in TableType
    BY SeqIs DEF TablesOK
  <2>2. \A c \in DOMAIN tables : tables[c].at \in Seq(Nat)
    BY <2>1 DEF TableType
  <2> QED
    BY <2>2, SeqIs DEF TablesOK
<1>3. e.at \in Seq(Nat)
  BY DEF TableType
<1>4. \A k \in DOMAIN e.at : e.at[k] \in Nat
  BY <1>3, SeqIs
<1> QED
  BY <1>1, <1>2, <1>4 DEF TablesOK

(* A bucket is made.                                                       *)
LEMMA AddBucket ==
  ASSUME BucketsOK, NEW e \in BucketType, buckets' = Append(buckets, e)
  PROVE  /\ BucketsOK' /\ Len(buckets') = Len(buckets) + 1 /\ DOMAIN buckets' = DOMAIN buckets \cup {Len(buckets) + 1}
         /\ Len(buckets) + 1 \notin DOMAIN buckets
         /\ buckets'[Len(buckets) + 1] = e /\ \A c \in DOMAIN buckets : buckets'[c] = buckets[c]
BY AddSeq DEF BucketsOK

(* A table is made.                                                        *)
LEMMA AddTable ==
  ASSUME TablesOK, NEW e \in TableType, tables' = Append(tables, e),
         e.at # <<>>, \A k \in DOMAIN e.at : e.at[k] <= Len(buckets'),
         Len(buckets) \in Nat, Len(buckets') \in Nat, Len(buckets) <= Len(buckets')
  PROVE  /\ TablesOK' /\ Len(tables') = Len(tables) + 1 /\ DOMAIN tables' = DOMAIN tables \cup {Len(tables) + 1}
         /\ Len(tables) + 1 \notin DOMAIN tables /\ Len(tables) \in Nat
         /\ tables'[Len(tables) + 1] = e /\ \A c \in DOMAIN tables : tables'[c] = tables[c]
<1>1. /\ tables' \in Seq(TableType) /\ Len(tables') = Len(tables) + 1
      /\ DOMAIN tables' = DOMAIN tables \cup {Len(tables) + 1}
      /\ Len(tables) + 1 \notin DOMAIN tables /\ Len(tables) \in Nat
      /\ tables'[Len(tables) + 1] = e /\ \A c \in DOMAIN tables : tables'[c] = tables[c]
  BY AddSeq, SeqIs DEF TablesOK
<1>2. \A c \in DOMAIN tables : \A k \in DOMAIN tables[c].at : tables[c].at[k] \in Nat /\ tables[c].at[k] <= Len(buckets)
  <2>1. \A c \in DOMAIN tables : tables[c] \in TableType
    BY SeqIs DEF TablesOK
  <2>2. \A c \in DOMAIN tables : tables[c].at \in Seq(Nat)
    BY <2>1 DEF TableType
  <2> QED
    BY <2>2, SeqIs DEF TablesOK
<1>3. e.at \in Seq(Nat)
  BY DEF TableType
<1>4. \A k \in DOMAIN e.at : e.at[k] \in Nat
  BY <1>3, SeqIs
<1> QED
  BY <1>1, <1>2, <1>4 DEF TablesOK

-----------------------------------------------------------------------------
(* What the actions do.  First the functions that are called.              *)
NewA == Len(arrays) + 1
NewP == Len(tables) + 1
NewB == Len(buckets) + 1

ArraysAdded ==
  /\ DOMAIN arrays' = DOMAIN arrays \cup {NewA} /\ NewA \notin DOMAIN arrays /\ NewA \in Nat \ {0}
  /\ \A c \in DOMAIN arrays : c < NewA
TablesAdded ==
  /\ DOMAIN tables' = DOMAIN tables \cup {NewP} /\ NewP \notin DOMAIN tables /\ NewP \in Nat \ {0}
  /\ \A p \in DOMAIN tables : tables'[p] = tables[p]
BucketsAdded ==
  /\ DOMAIN buckets' = DOMAIN buckets \cup {NewB} /\ NewB \notin DOMAIN buckets /\ NewB \in Nat \ {0}
  /\ \A b \in DOMAIN buckets : buckets'[b] = buckets[b]
OneMore(e) ==
  /\ owned' = owned \cup {NewA}
  /\ contents'[NewA] = e /\ \A c \in DOMAIN arrays : contents'[c] = contents[c]

(* The program gets an array, and what it should hold.                     *)
LEMMA ContentsAdded ==
  ASSUME ArraysOK, TablesOK, BucketsOK, ProgramOK, NEW e \in [Index -> Value \cup {NoValue}],
         contents' = Append(contents, e), owned' = owned \cup {NewA}, todo' = todo,
         Len(arrays') = Len(arrays) + 1, DOMAIN arrays' = DOMAIN arrays \cup {NewA}
  PROVE  ProgramOK' /\ OneMore(e)
<1>1. Len(contents) = Len(arrays) /\ contents \in Seq([Index -> Value \cup {NoValue}])
  BY DEF ProgramOK
<1>2. DOMAIN contents = DOMAIN arrays
  BY <1>1, SeqIs, ArrayIs
<1>3. /\ contents' \in Seq([Index -> Value \cup {NoValue}]) /\ Len(contents') = Len(contents) + 1
      /\ contents'[NewA] = e /\ \A c \in DOMAIN arrays : contents'[c] = contents[c]
  BY <1>1, <1>2, AddSeq DEF NewA
<1> QED
  BY <1>1, <1>3 DEF ProgramOK, OneMore

(* What is made is live.                                                   *)
LEMMA LiveIs == "live" \in St
BY DEF St

(* sarray_new (): one array, one table, one bucket.                        *)
LEMMA NewStep ==
  ASSUME Types, NEW n \in 1..MaxBuckets, New(n)
  PROVE  /\ Types' /\ todo = <<>> /\ todo' = <<>> /\ reads' = reads
         /\ ArraysAdded /\ TablesAdded /\ BucketsAdded /\ OneMore([i \in Index |-> NoValue])
         /\ \A c \in DOMAIN arrays : arrays'[c] = arrays[c]
         /\ arrays'[NewA].st = "live" /\ arrays'[NewA].buckets = NewP /\ arrays'[NewA].empty = NewB
         /\ arrays'[NewA].version = 0 /\ arrays'[NewA].ref = 1 /\ arrays'[NewA].copyOf = 0
         /\ arrays'[NewA].size = n
         /\ n \in Nat \ {0} /\ tables'[NewP].st = "live" /\ tables'[NewP].at = [k \in 1..n |-> NewB]
         /\ DOMAIN tables'[NewP].at = 1..n /\ Len(tables'[NewP].at) = n
         /\ buckets'[NewB].st = "live" /\ buckets'[NewB].version = 0
         /\ buckets'[NewB].elems = [o \in Offset |-> NoValue]
<1> DEFINE bucket == [st |-> "live", version |-> 0, elems |-> [o \in Offset |-> NoValue]]
           table == [st |-> "live", at |-> [k \in 1..n |-> NewB]]
           array == [st |-> "live", buckets |-> NewP, empty |-> NewB, version |-> 0,
                     ref |-> 1, copyOf |-> 0, size |-> n]
<1>1. /\ buckets' = Append(buckets, bucket) /\ tables' = Append(tables, table)
      /\ arrays' = Append(arrays, array) /\ owned' = owned \cup {NewA}
      /\ contents' = Append(contents, [i \in Index |-> NoValue])
      /\ todo = <<>> /\ todo' = todo /\ reads' = reads
  BY DEF New, Begin, NewA, NewP, NewB
<1>2. ArraysOK /\ TablesOK /\ BucketsOK /\ ProgramOK /\ ReadsOK
  BY DEF Types
<1>3. n \in Nat \ {0} /\ NewA \in Nat \ {0} /\ NewP \in Nat \ {0} /\ NewB \in Nat \ {0}
  BY <1>2, ArrayIs, SizeAssumption DEF NewA, NewP, NewB
<1>4. bucket \in BucketType
  BY LiveIs DEF BucketType, Elem
<1>5. /\ BucketsOK' /\ Len(buckets') = NewB /\ DOMAIN buckets' = DOMAIN buckets \cup {NewB} /\ NewB \notin DOMAIN buckets
      /\ buckets'[NewB] = bucket /\ \A c \in DOMAIN buckets : buckets'[c] = buckets[c]
  BY <1>1, <1>2, <1>4, AddBucket DEF NewB
<1>6. /\ [k \in 1..n |-> NewB] \in Seq(Nat) /\ Len([k \in 1..n |-> NewB]) = n
      /\ DOMAIN [k \in 1..n |-> NewB] = 1..n
  BY <1>3, FunSeq
<1>7. table \in TableType
  BY <1>6, LiveIs DEF TableType
<1>8. table.at # <<>> /\ \A k \in DOMAIN table.at : table.at[k] <= Len(buckets')
  BY <1>3, <1>5, <1>6, EmptySeq
<1>9. /\ TablesOK' /\ Len(tables') = NewP /\ DOMAIN tables' = DOMAIN tables \cup {NewP} /\ NewP \notin DOMAIN tables
      /\ tables'[NewP] = table /\ \A c \in DOMAIN tables : tables'[c] = tables[c]
  <2>1. Len(buckets) \in Nat /\ Len(buckets') \in Nat /\ Len(buckets) <= Len(buckets')
    BY <1>2, <1>3, <1>5, ArrayIs DEF NewB
  <2> QED
    BY <1>1, <1>2, <1>7, <1>8, <2>1, AddTable DEF NewP
<1>10. array \in ArrayType
  BY <1>3, LiveIs DEF ArrayType
<1>11. /\ arrays' \in Seq(ArrayType) /\ Len(arrays') = NewA /\ DOMAIN arrays' = DOMAIN arrays \cup {NewA}
       /\ NewA \notin DOMAIN arrays
       /\ arrays'[NewA] = array /\ \A c \in DOMAIN arrays : arrays'[c] = arrays[c]
  BY <1>1, <1>2, <1>10, AddSeq DEF NewA, ArraysOK
<1>12. ArraysOK' /\ \A c \in DOMAIN arrays : c < NewA
  <2>1. \A c \in DOMAIN arrays : c < NewA
    BY <1>2, ArrayIs DEF NewA
  <2>2. \A c \in DOMAIN arrays : arrays'[c].buckets <= Len(tables')
    BY <1>2, <1>3, <1>9, <1>11, ArrayIs DEF NewP
  <2> QED
    BY <1>2, <1>3, <1>5, <1>9, <1>11, <2>2, ArrayIs DEF ArraysOK
<1>13. ReadsOK'
  BY <1>1, <1>2, <1>5, <1>9, <1>11, ReadsKept
<1>14. ProgramOK' /\ OneMore([i \in Index |-> NoValue])
  <2>1. [i \in Index |-> NoValue] \in [Index -> Value \cup {NoValue}]
    OBVIOUS
  <2> QED
    BY <1>1, <1>2, <1>11, <2>1, ContentsAdded DEF NewA
<1>15. Types'
  BY <1>5, <1>9, <1>12, <1>13, <1>14 DEF Types
<1>16. ArraysAdded /\ TablesAdded /\ BucketsAdded
  BY <1>3, <1>5, <1>9, <1>11, <1>12 DEF ArraysAdded, TablesAdded, BucketsAdded
<1> QED
  BY <1>1, <1>3, <1>5, <1>6, <1>9, <1>11, <1>14, <1>15, <1>16

(* sarray_lazy_copy (): a table that is a copy, a reference more to the    *)
(* original.                                                               *)
LEMMA CopyStep ==
  ASSUME Types, NEW a, LazyCopy(a), NEW x, x = arrays[a], x.buckets # 0
  PROVE  /\ Types' /\ todo = <<>> /\ todo' = <<>> /\ buckets' = buckets /\ reads' = reads
         /\ a \in owned /\ a \in DOMAIN arrays
         /\ ArraysAdded /\ TablesAdded /\ OneMore(contents[a])
         /\ \A c \in DOMAIN arrays : c # a => arrays'[c] = arrays[c]
         /\ arrays'[a].st = x.st /\ arrays'[a].buckets = x.buckets /\ arrays'[a].empty = x.empty
         /\ arrays'[a].version = x.version /\ arrays'[a].ref = x.ref + 1
         /\ arrays'[a].copyOf = x.copyOf /\ arrays'[a].size = x.size
         /\ arrays'[NewA].st = x.st /\ arrays'[NewA].buckets = NewP /\ arrays'[NewA].empty = x.empty
         /\ arrays'[NewA].version = x.version + 1 /\ arrays'[NewA].ref = 1 /\ arrays'[NewA].copyOf = a
         /\ arrays'[NewA].size = x.size
         /\ tables'[NewP] = tables[x.buckets]
<1> DEFINE original == [x EXCEPT !.ref = x.ref + 1]
           copy == [x EXCEPT !.buckets = NewP, !.version = x.version + 1, !.ref = 1, !.copyOf = a]
           old == [arrays EXCEPT ![a] = original]
<1>1. /\ tables' = Append(tables, tables[x.buckets])
      /\ arrays' = Append(old, copy) /\ owned' = owned \cup {NewA}
      /\ contents' = Append(contents, contents[a])
      /\ a \in owned /\ todo = <<>> /\ todo' = todo /\ reads' = reads /\ buckets' = buckets
  BY DEF LazyCopy, Begin, NewA, NewP
<1>2. ArraysOK /\ TablesOK /\ BucketsOK /\ ProgramOK /\ ReadsOK
  BY DEF Types
<1>3. a \in DOMAIN arrays
  BY <1>1, <1>2 DEF ProgramOK
<1>4. /\ NewA \in Nat \ {0} /\ NewP \in Nat \ {0} /\ x \in ArrayType /\ x.buckets \in DOMAIN tables
      /\ x.version \in Nat /\ x.ref \in Nat /\ a \in Nat \ {0}
  BY <1>2, <1>3, ArrayIs DEF NewA, NewP
<1>5. /\ original \in ArrayType /\ original.st = x.st /\ original.buckets = x.buckets /\ original.empty = x.empty
      /\ original.version = x.version /\ original.ref = x.ref + 1 /\ original.copyOf = x.copyOf
      /\ original.size = x.size
  BY <1>4 DEF ArrayType
<1>6. /\ copy \in ArrayType /\ copy.st = x.st /\ copy.buckets = NewP /\ copy.empty = x.empty
      /\ copy.version = x.version + 1 /\ copy.ref = 1 /\ copy.copyOf = a /\ copy.size = x.size
  <2> DEFINE p == NewP
             v == x.version + 1
  <2>1. x \in ArrayType /\ p \in Nat /\ v \in Nat /\ a \in Nat
    BY <1>4
  <2>2. copy = [x EXCEPT !.buckets = p, !.version = v, !.ref = 1, !.copyOf = a]
    OBVIOUS
  <2> HIDE DEF p, v, copy
  <2>3. copy \in ArrayType
    BY <2>1, <2>2 DEF ArrayType
  <2>4. /\ copy.st = x.st /\ copy.buckets = p /\ copy.empty = x.empty
        /\ copy.version = v /\ copy.ref = 1 /\ copy.copyOf = a /\ copy.size = x.size
    BY <2>1, <2>2 DEF ArrayType
  <2> QED
    BY <2>3, <2>4 DEF p, v
<1> HIDE DEF original, copy
<1>7. /\ TablesOK' /\ Len(tables') = NewP /\ DOMAIN tables' = DOMAIN tables \cup {NewP} /\ NewP \notin DOMAIN tables
      /\ tables'[NewP] = tables[x.buckets] /\ \A c \in DOMAIN tables : tables'[c] = tables[c]
  <2>1. /\ tables[x.buckets] \in TableType /\ tables[x.buckets].at # <<>>
        /\ \A k \in DOMAIN tables[x.buckets].at : tables[x.buckets].at[k] <= Len(buckets')
        /\ Len(buckets) \in Nat /\ Len(buckets') = Len(buckets)
    BY <1>1, <1>2, <1>4, ArrayIs DEF TablesOK
  <2>2. Len(buckets') \in Nat /\ Len(buckets) <= Len(buckets')
    BY <2>1
  <2> QED
    BY <1>1, <1>2, <2>1, <2>2, AddTable DEF NewP
<1>8. /\ old \in Seq(ArrayType) /\ Len(old) = Len(arrays) /\ DOMAIN old = DOMAIN arrays
      /\ old[a] = original /\ \A c \in DOMAIN arrays : c # a => old[c] = arrays[c]
  BY <1>2, <1>3, <1>5, PutSeq DEF ArraysOK
<1> HIDE DEF old
<1>9. /\ arrays' \in Seq(ArrayType) /\ Len(arrays') = NewA /\ DOMAIN arrays' = DOMAIN arrays \cup {NewA}
      /\ NewA \notin DOMAIN arrays
      /\ arrays'[NewA] = copy /\ \A c \in DOMAIN arrays : arrays'[c] = old[c]
  BY <1>1, <1>6, <1>8, AddSeq DEF NewA
<1>10. ArraysOK' /\ \A c \in DOMAIN arrays : c < NewA
  <2>1. \A c \in DOMAIN arrays : c < NewA
    BY <1>2, ArrayIs DEF NewA
  <2>2. \A c \in DOMAIN arrays : arrays'[c].buckets <= Len(tables') /\ arrays'[c].empty \in DOMAIN buckets /\ arrays'[c].copyOf < c
    <3> TAKE c \in DOMAIN arrays
    <3>1. arrays'[c].buckets = arrays[c].buckets /\ arrays'[c].empty = arrays[c].empty /\ arrays'[c].copyOf = arrays[c].copyOf
      BY <1>5, <1>8, <1>9
    <3>2. arrays[c].buckets <= Len(tables) /\ arrays[c].buckets \in Nat /\ Len(tables) \in Nat
          /\ arrays[c].empty \in DOMAIN buckets /\ arrays[c].copyOf < c
      BY <1>2, ArrayIs
    <3> QED
      BY <1>7, <3>1, <3>2 DEF NewP
  <2>3. arrays'[NewA].buckets <= Len(tables') /\ arrays'[NewA].empty \in DOMAIN buckets /\ arrays'[NewA].copyOf < NewA
    BY <1>2, <1>3, <1>4, <1>6, <1>7, <1>9, <2>1, ArrayIs
  <2> QED
    BY <1>1, <1>9, <2>1, <2>2, <2>3 DEF ArraysOK
<1>11. ReadsOK'
  BY <1>1, <1>2, <1>7, <1>9, ReadsKept
<1>12. ProgramOK' /\ OneMore(contents[a])
  <2>1. contents[a] \in [Index -> Value \cup {NoValue}]
    BY <1>2, <1>3, ArrayIs, SeqIs DEF ProgramOK
  <2> QED
    BY <1>1, <1>2, <1>9, <2>1, ContentsAdded DEF NewA
<1>13. Types'
  BY <1>1, <1>2, <1>7, <1>10, <1>11, <1>12 DEF Types, BucketsOK
<1>14. ArraysAdded /\ TablesAdded
  BY <1>4, <1>7, <1>9, <1>10 DEF ArraysAdded, TablesAdded
<1> QED
  BY <1>1, <1>3, <1>5, <1>6, <1>7, <1>8, <1>9, <1>12, <1>13, <1>14

(* A write: what is to be done is one of two lists.                        *)
SizeStep(what, a, n) == [do |-> what, a |-> a, n |-> n]
Rights(a, i, v) ==
  \A r \in Reader : /\ reads'[r].at = reads[r].at /\ reads'[r].array = reads[r].array
                    /\ reads'[r].index = reads[r].index /\ reads'[r].ptr = reads[r].ptr
                    /\ reads'[r].got = reads[r].got /\ reads'[r].changed = reads[r].changed
                    /\ reads[r].right \subseteq reads'[r].right
                    /\ reads[r].array = a /\ reads[r].index = i => v \in reads'[r].right

(* The list of a write that makes the array grow.                          *)
LEMMA FiveSteps ==
  ASSUME NEW S, NEW p \in Seq(S), NEW q \in Seq(S), Len(p) = 3, Len(q) = 2
  PROVE  /\ Joined(p, q) \in Seq(S) /\ Len(Joined(p, q)) = 5
         /\ Joined(p, q)[1] = p[1] /\ Joined(p, q)[2] = p[2] /\ Joined(p, q)[3] = p[3]
         /\ Joined(p, q)[4] = q[1] /\ Joined(p, q)[5] = q[2]
<1>1. Joined(p, q) \in Seq(S) /\ Len(Joined(p, q)) = Len(p) + Len(q)
  BY ConcatSeq
<1>2. \A j \in 1..(Len(p) + Len(q)) : Joined(p, q)[j] = IF j <= Len(p) THEN p[j] ELSE q[j - Len(p)]
  BY ConcatSeq
<1>3. \A j \in 1..5 : Joined(p, q)[j] = IF j <= 3 THEN p[j] ELSE q[j - 3]
  BY <1>2
<1> QED
  BY <1>1, <1>3

PutForm(s, a, i, v) ==
  \/ /\ Len(s) = 2 /\ s[1] = BucketStep(a, i, v) /\ s[2] = ElementStep(a, i, v)
     /\ K(i) <= arrays[a].size
  \/ \E n \in Nat :
     /\ Len(s) = 5 /\ s[1] = SizeStep("size", a, n) /\ s[2] = SizeStep("install", a, n)
     /\ s[3] = DiscardStep("table", arrays[a].buckets)
     /\ s[4] = BucketStep(a, i, v) /\ s[5] = ElementStep(a, i, v)
     /\ arrays[a].size < n /\ K(i) <= n

(* The steps of a write, with and without sarray_realloc ().               *)
LEMMA GrowIs ==
  ASSUME Types, NEW a \in DOMAIN arrays, NEW i \in Index, NEW v \in Value, NEW s,
         s = Grow(a, i) \o <<[do |-> "bucket", a |-> a, i |-> i, v |-> v],
                             [do |-> "element", a |-> a, i |-> i, v |-> v]>>
  PROVE  /\ s \in Seq(StepType)
         /\ PutForm(s, a, i, v)
<1> DEFINE w == <<BucketStep(a, i, v), ElementStep(a, i, v)>>
<1>1. /\ a \in Nat /\ i \in Nat /\ arrays[a].size \in Nat /\ arrays[a].buckets \in Nat
      /\ K(i) \in Nat \ {0} /\ i \div BucketSize = K(i) - 1 /\ Slack \in Nat
  BY ArrayIs, IndexIs, IndexNat, SizeAssumption DEF Types
<1>2. w \in Seq(StepType) /\ Len(w) = 2 /\ w[1] = BucketStep(a, i, v) /\ w[2] = ElementStep(a, i, v)
  <2>1. BucketStep(a, i, v) \in StepType /\ ElementStep(a, i, v) \in StepType
    BY <1>1 DEF BucketStep, ElementStep, StepType, WriteSteps
  <2> QED
    BY <2>1
<1> HIDE DEF w
<1>3. s = Grow(a, i) \o w
  BY DEF w, BucketStep, ElementStep
<1>4. CASE i \div BucketSize < arrays[a].size
  <2>1. Grow(a, i) = <<>>
    BY <1>4 DEF Grow
  <2>2. s = w
    BY <1>2, <1>3, <2>1, ConcatEmptySeq
  <2>3. K(i) <= arrays[a].size
    BY <1>1, <1>4
  <2> QED
    BY <1>2, <2>2, <2>3 DEF PutForm
<1>5. CASE ~(i \div BucketSize < arrays[a].size)
  <2> DEFINE n == K(i) + Slack
             p == arrays[a].buckets
             g == <<SizeStep("size", a, n), SizeStep("install", a, n), DiscardStep("table", p)>>
  <2>1. n \in Nat /\ arrays[a].size < n /\ K(i) <= n /\ p \in Nat
    BY <1>1, <1>5
  <2>2. Grow(a, i) = g
    BY <1>5 DEF Grow, K, SizeStep, DiscardStep
  <2> HIDE DEF n, p
  <2>3. /\ SizeStep("size", a, n) \in StepType /\ SizeStep("install", a, n) \in StepType
        /\ DiscardStep("table", p) \in StepType
    BY <1>1, <2>1 DEF SizeStep, DiscardStep, StepType, SizeSteps, DiscardSteps
  <2>4. /\ g \in Seq(StepType) /\ Len(g) = 3 /\ g[1] = SizeStep("size", a, n)
        /\ g[2] = SizeStep("install", a, n) /\ g[3] = DiscardStep("table", p)
    BY <2>3
  <2> HIDE DEF g
  <2>5. s = Joined(g, w)
    BY <1>3, <2>2 DEF Joined
  <2>6. s[1] = g[1] /\ s[2] = g[2] /\ s[3] = g[3] /\ s[4] = w[1] /\ s[5] = w[2]
        /\ s \in Seq(StepType) /\ Len(s) = 5
    <3>1. w \in Seq(StepType) /\ Len(w) = 2
      BY <1>2
    <3>2. g \in Seq(StepType) /\ Len(g) = 3
      BY <2>4
    <3>3. /\ Joined(g, w)[1] = g[1] /\ Joined(g, w)[2] = g[2] /\ Joined(g, w)[3] = g[3]
          /\ Joined(g, w)[4] = w[1] /\ Joined(g, w)[5] = w[2]
      BY <3>1, <3>2, FiveSteps
    <3>4. Joined(g, w) \in Seq(StepType) /\ Len(Joined(g, w)) = 5
      BY <3>1, <3>2, FiveSteps
    <3> QED
      BY <2>5, <3>3, <3>4
  <2> QED
    BY <1>2, <2>1, <2>4, <2>5, <2>6 DEF p, PutForm
<1> QED
  BY <1>4, <1>5

(* sarray_at_put_safe () is called: what is meant to be there, and what is *)
(* to be done.                                                             *)
LEMMA PutStep ==
  ASSUME Types, NEW a \in DOMAIN arrays, NEW i \in Index, NEW v \in Value, AtPut(a, i, v)
  PROVE  /\ Types' /\ todo = <<>> /\ UNCHANGED <<arrays, tables, buckets, owned>>
         /\ a \in Writable /\ Rights(a, i, v)
         /\ contents'[a][i] = v /\ \A j \in Index : j # i => contents'[a][j] = contents[a][j]
         /\ \A c \in DOMAIN arrays : c # a => contents'[c] = contents[c]
         /\ PutForm(todo', a, i, v)
<1>1. /\ todo = <<>> /\ UNCHANGED <<arrays, tables, buckets, owned>> /\ a \in owned /\ arrays[a].ref = 1
      /\ contents' = [contents EXCEPT ![a][i] = v]
      /\ todo' = Grow(a, i) \o <<[do |-> "bucket", a |-> a, i |-> i, v |-> v],
                                 [do |-> "element", a |-> a, i |-> i, v |-> v]>>
      /\ reads' = [r \in Reader |-> IF reads[r].array = a /\ reads[r].index = i
                                    THEN [reads[r] EXCEPT !.right = reads[r].right \cup {v}] ELSE reads[r]]
  BY DEF AtPut, Begin
<1>2. ArraysOK /\ TablesOK /\ BucketsOK /\ ProgramOK /\ ReadsOK
  BY DEF Types
<1>3. contents \in Seq([Index -> Value \cup {NoValue}]) /\ DOMAIN contents = DOMAIN arrays /\ Len(contents) = Len(arrays)
  BY <1>2, SeqIs, ArrayIs DEF ProgramOK
<1>4. PICK e : e = [contents[a] EXCEPT ![i] = v]
  OBVIOUS
<1>5. contents[a] \in [Index -> Value \cup {NoValue}]
  BY <1>3, SeqIs
<1>6. e \in [Index -> Value \cup {NoValue}] /\ e[i] = v /\ \A j \in Index : j # i => e[j] = contents[a][j]
  BY <1>4, <1>5
<1>7. contents' = [contents EXCEPT ![a] = e]
  BY <1>1, <1>4
<1>8. /\ contents' \in Seq([Index -> Value \cup {NoValue}]) /\ Len(contents') = Len(arrays)
      /\ contents'[a] = e /\ \A c \in DOMAIN arrays : c # a => contents'[c] = contents[c]
  BY <1>3, <1>6, <1>7, PutSeq
<1>9. ReadsOK' /\ Rights(a, i, v)
  <2>1. \A r \in Reader : reads[r] \in ReadType
    BY <1>2 DEF ReadsOK
  <2>2. ASSUME NEW r \in Reader
        PROVE  /\ reads'[r] \in ReadType /\ reads'[r].at = reads[r].at /\ reads'[r].array = reads[r].array
               /\ reads'[r].index = reads[r].index /\ reads'[r].ptr = reads[r].ptr
               /\ reads'[r].got = reads[r].got /\ reads'[r].changed = reads[r].changed
               /\ reads[r].right \subseteq reads'[r].right
               /\ reads[r].array = a /\ reads[r].index = i => v \in reads'[r].right
    <3> DEFINE q == reads[r]
               right == q.right \cup {v}
    <3>1. q \in ReadType /\ right \in SUBSET Word
      <4>1. q \in ReadType
        BY <2>1
      <4>2. q.right \in SUBSET Word
        BY <4>1 DEF ReadType
      <4> QED
        BY <4>1, <4>2 DEF Word, Elem
    <3>2. reads'[r] = IF q.array = a /\ q.index = i THEN [q EXCEPT !.right = right] ELSE q
      BY <1>1
    <3>3. q.right \subseteq right /\ v \in right
      OBVIOUS
    <3> HIDE DEF q, right
    <3>4. [q EXCEPT !.right = right] \in ReadType
      BY <3>1 DEF ReadType
    <3>5. LET e1 == [q EXCEPT !.right = right]
          IN  /\ e1.at = q.at /\ e1.array = q.array /\ e1.index = q.index /\ e1.ptr = q.ptr
              /\ e1.got = q.got /\ e1.changed = q.changed /\ e1.right = right
      BY <3>1 DEF ReadType
    <3>6. /\ reads'[r] \in ReadType /\ reads'[r].at = q.at /\ reads'[r].array = q.array
          /\ reads'[r].index = q.index /\ reads'[r].ptr = q.ptr
          /\ reads'[r].got = q.got /\ reads'[r].changed = q.changed
          /\ q.right \subseteq reads'[r].right
          /\ q.array = a /\ q.index = i => v \in reads'[r].right
      BY <3>1, <3>2, <3>3, <3>4, <3>5
    <3> QED
      BY <3>6 DEF q
  <2>3. reads' \in [Reader -> ReadType]
    BY <1>1, <2>2
  <2> QED
    BY <1>1, <1>2, <2>2, <2>3 DEF ReadsOK, Rights
<1>10. PICK s : s = todo'
  OBVIOUS
<1>11. s \in Seq(StepType)
  BY <1>1, <1>10, GrowIs
<1>12. Types'
  BY <1>1, <1>2, <1>8, <1>9, <1>10, <1>11 DEF Types, ArraysOK, TablesOK, BucketsOK, ProgramOK
<1>13. PutForm(s, a, i, v)
  BY <1>1, <1>10, GrowIs
<1> QED
  BY <1>1, <1>6, <1>8, <1>9, <1>10, <1>12, <1>13 DEF Writable

(* The other functions that are called begin with one step.                *)
LEMMA FreeCall ==
  ASSUME Types, NEW a, Free(a)
  PROVE  /\ Types' /\ todo = <<>> /\ UNCHANGED <<arrays, tables, buckets, contents, reads>>
         /\ a \in owned /\ a \in DOMAIN arrays /\ owned' = owned \ {a}
         /\ Len(todo') = 1 /\ todo'[1] = [do |-> "free", a |-> a]
<1>1. /\ todo = <<>> /\ UNCHANGED <<arrays, tables, buckets, contents, reads>>
      /\ a \in owned /\ owned' = owned \ {a} /\ todo' = <<[do |-> "free", a |-> a]>>
  BY DEF Free, Begin
<1>2. ArraysOK /\ TablesOK /\ BucketsOK /\ ProgramOK /\ ReadsOK
  BY DEF Types
<1>3. a \in DOMAIN arrays /\ a \in Nat
  BY <1>1, <1>2, ArrayIs DEF ProgramOK
<1>4. [do |-> "free", a |-> a] \in StepType
  BY <1>3 DEF StepType, FreeOnes
<1>5. todo' \in Seq(StepType) /\ Len(todo') = 1 /\ todo'[1] = [do |-> "free", a |-> a]
  BY <1>1, <1>4
<1> QED
  BY <1>1, <1>2, <1>3, <1>5 DEF Types, ArraysOK, TablesOK, BucketsOK, ProgramOK, ReadsOK

-----------------------------------------------------------------------------
(* The steps.                                                              *)
LEMMA StepTypes ==
  ASSUME NEW s \in StepType
  PROVE  /\ s.do \in {"size", "install"} => s.a \in Nat /\ s.n \in Nat
         /\ s.do \in {"bucket", "element"} => s.a \in Nat /\ s.i \in Index /\ s.v \in Value
         /\ s.do = "free" => s.a \in Nat /\ s = [do |-> "free", a |-> s.a]
         /\ s.do \in {"skip", "own"} => s.a \in Nat /\ s.id \in Nat
         /\ s.do = "own" => s = [do |-> "own", a |-> s.a, id |-> s.id]
         /\ s.do = "discard" => /\ s.what \in {"bucket", "table", "array"} /\ s.id \in Nat
                                /\ s = DiscardStep(s.what, s.id)
<1>1. CASE s \in SizeSteps
  BY <1>1 DEF SizeSteps
<1>2. CASE s \in WriteSteps
  BY <1>2 DEF WriteSteps
<1>3. CASE s \in FreeOnes
  BY <1>3 DEF FreeOnes
<1>4. CASE s \in OwnSteps
  BY <1>4 DEF OwnSteps
<1>5. CASE s \in DiscardSteps
  BY <1>5 DEF DiscardSteps, DiscardStep
<1> QED
  BY <1>1, <1>2, <1>3, <1>4, <1>5 DEF StepType

Popped == Len(todo') = Len(todo) - 1 /\ \A i \in 1..Len(todo') : todo'[i] = todo[i + 1]

(* A step that was done is taken off the list.                             *)
LEMMA PopStep ==
  ASSUME ProgramOK, todo # <<>>, Done, UNCHANGED <<owned, contents>>,
         DOMAIN arrays' = DOMAIN arrays, Len(arrays') = Len(arrays)
  PROVE  ProgramOK' /\ Popped
<1>1. /\ todo' \in Seq(StepType) /\ Len(todo') = Len(todo) - 1
      /\ \A i \in 1..(Len(todo) - 1) : todo'[i] = todo[i + 1]
  BY TodoIs DEF Done
<1> QED
  BY <1>1 DEF ProgramOK, Popped

(* The new capacity is stored.                                             *)
LEMMA SetSizeStep ==
  ASSUME Types, SetSize, NEW a \in Writable, NEW i, NEW v, WriteSize(a, i, v)
  PROVE  /\ Types' /\ todo # <<>> /\ Popped /\ UNCHANGED <<tables, buckets, owned, contents>>
         /\ DOMAIN arrays' = DOMAIN arrays /\ Others(a) /\ a \in DOMAIN arrays
         /\ arrays'[a].st = arrays[a].st /\ arrays'[a].buckets = arrays[a].buckets
         /\ arrays'[a].empty = arrays[a].empty /\ arrays'[a].version = arrays[a].version
         /\ arrays'[a].ref = arrays[a].ref /\ arrays'[a].copyOf = arrays[a].copyOf
         /\ arrays'[a].size = todo[1].n
         /\ SameReads /\ Change({r \in Reader : reads[r].array = a})
<1>1. ArraysOK /\ TablesOK /\ BucketsOK /\ ProgramOK /\ ReadsOK
  BY DEF Types
<1>2. /\ todo # <<>> /\ Done /\ arrays' = [arrays EXCEPT ![Step.a].size = Step.n]
      /\ Change({r \in Reader : reads[r].array = Step.a}) /\ UNCHANGED <<tables, buckets, owned, contents>>
  BY DEF SetSize, Do
<1>3. Step = todo[1] /\ todo[1] \in StepType /\ todo[1].do = "size" /\ todo[1].a = a
  BY <1>1, <1>2, TodoIs DEF WriteSize, Sized
<1>4. todo[1].n \in Nat
  BY <1>3, StepTypes
<1>5. PICK e : e = [arrays[a] EXCEPT !.size = todo[1].n]
  OBVIOUS
<1>6. a \in DOMAIN arrays /\ arrays[a] \in ArrayType
  BY <1>1, WritableIs, ArrayIs
<1>7. /\ e \in ArrayType /\ e.st = arrays[a].st /\ e.buckets = arrays[a].buckets /\ e.empty = arrays[a].empty
      /\ e.version = arrays[a].version /\ e.ref = arrays[a].ref /\ e.copyOf = arrays[a].copyOf
      /\ e.size = todo[1].n
  BY <1>4, <1>5, <1>6 DEF ArrayType
<1>8. arrays' = [arrays EXCEPT ![a] = e]
  BY <1>2, <1>3, <1>5
<1>9. /\ ArraysOK' /\ DOMAIN arrays' = DOMAIN arrays /\ Len(arrays') = Len(arrays)
      /\ arrays'[a] = e /\ Others(a)
  <2>1. /\ e.buckets <= Len(tables') /\ e.empty \in DOMAIN buckets' /\ e.copyOf < a
        /\ Len(tables') \in Nat /\ Len(tables) <= Len(tables') /\ DOMAIN buckets \subseteq DOMAIN buckets'
    BY <1>1, <1>2, <1>6, <1>7, ArrayIs
  <2> QED
    BY <1>1, <1>6, <1>7, <1>8, <2>1, PutArray
<1>10. ProgramOK' /\ Popped
  BY <1>1, <1>2, <1>9, PopStep
<1>11. ReadsOK' /\ SameReads
  BY <1>1, <1>2, <1>9, ReadsKept
<1>12. Types'
  BY <1>1, <1>2, <1>9, <1>10, <1>11 DEF Types, TablesOK, BucketsOK
<1> QED
  BY <1>2, <1>3, <1>6, <1>7, <1>9, <1>10, <1>11, <1>12

(* The new table is installed: the old buckets, and then the empty one.    *)
LEMMA InstallStep ==
  ASSUME Types, InstallTable, NEW a \in Writable, NEW i \in Index, NEW v, WriteInstall(a, i, v), a \in Intact,
         NEW n, n = todo[1].n
  PROVE  /\ Types' /\ todo # <<>> /\ Popped /\ UNCHANGED <<buckets, owned, contents, reads>>
         /\ DOMAIN arrays' = DOMAIN arrays /\ Others(a) /\ a \in DOMAIN arrays
         /\ arrays'[a].st = arrays[a].st /\ arrays'[a].buckets = NewP
         /\ arrays'[a].empty = arrays[a].empty /\ arrays'[a].version = arrays[a].version
         /\ arrays'[a].ref = arrays[a].ref /\ arrays'[a].copyOf = arrays[a].copyOf
         /\ arrays'[a].size = n
         /\ TablesAdded /\ tables'[NewP].st = "live"
         /\ n \in Nat /\ K(i) <= n /\ Len(Table(a)) < n
         /\ Len(tables'[NewP].at) = n /\ DOMAIN tables'[NewP].at = 1..n
         /\ \A k \in 1..n : tables'[NewP].at[k] = IF k \in DOMAIN Table(a) THEN Table(a)[k] ELSE arrays[a].empty
<1>1. ArraysOK /\ TablesOK /\ BucketsOK /\ ProgramOK /\ ReadsOK
  BY DEF Types
<1> DEFINE at == [k \in 1..n |-> IF k \in DOMAIN Table(a) THEN Table(a)[k] ELSE arrays[a].empty]
<1>2. Do("install") /\ UNCHANGED <<buckets, owned, contents, reads>> /\ Done
  BY DEF InstallTable
<1>3. todo # <<>> /\ Step = todo[1] /\ todo[1] \in StepType /\ todo[1].do = "install" /\ todo[1].a = a
  BY <1>1, <1>2, TodoIs DEF WriteInstall, Sized, Do
<1>4. n \in Nat /\ K(i) <= n /\ Len(Table(a)) < n /\ arrays[a].size = n
  BY <1>3, StepTypes DEF WriteInstall, Sized
<1>5. /\ tables' = Append(tables, [st |-> "live", at |-> at])
      /\ arrays' = [arrays EXCEPT ![a].buckets = NewP]
  BY <1>3 DEF InstallTable, NewP, Table
<1>6. a \in DOMAIN arrays /\ arrays[a] \in ArrayType /\ NewP \in Nat \ {0} /\ Len(buckets) \in Nat /\ Len(tables) \in Nat
  BY <1>1, WritableIs, ArrayIs DEF NewP
<1>7. \A k \in 1..n : at[k] \in Nat /\ at[k] <= Len(buckets)
  <2>1. \A k \in DOMAIN Table(a) : Table(a)[k] \in Nat /\ Table(a)[k] <= Len(buckets)
    BY <1>1, EntriesIs, ArrayIs
  <2>2. arrays[a].empty \in Nat /\ arrays[a].empty <= Len(buckets)
    BY <1>1, <1>6, ArrayIs
  <2> QED
    BY <2>1, <2>2
<1>8. at \in Seq(Nat) /\ Len(at) = n /\ DOMAIN at = 1..n
  BY <1>4, <1>7, FunSeq
<1>9. \A k \in 1..n : at[k] = IF k \in DOMAIN Table(a) THEN Table(a)[k] ELSE arrays[a].empty
  OBVIOUS
<1>10. n >= 1
  BY <1>1, <1>4, EntriesIs
<1> HIDE DEF at
<1>11. PICK t : t = [st |-> "live", at |-> at]
  OBVIOUS
<1>12. t \in TableType /\ t.st = "live" /\ t.at = at
  BY <1>8, <1>11, LiveIs DEF TableType
<1>13. /\ TablesOK' /\ Len(tables') = NewP /\ DOMAIN tables' = DOMAIN tables \cup {NewP} /\ NewP \notin DOMAIN tables
       /\ tables'[NewP] = t /\ \A c \in DOMAIN tables : tables'[c] = tables[c]
  <2>1. t.at # <<>>
    BY <1>8, <1>10, <1>12, EmptySeq
  <2>2. \A k \in DOMAIN t.at : t.at[k] <= Len(buckets')
    BY <1>2, <1>7, <1>8, <1>12
  <2>3. Len(buckets) \in Nat /\ Len(buckets') \in Nat /\ Len(buckets) <= Len(buckets')
    BY <1>2, <1>6
  <2> QED
    BY <1>1, <1>5, <1>11, <1>12, <2>1, <2>2, <2>3, AddTable DEF NewP
<1>14. PICK e : e = [arrays[a] EXCEPT !.buckets = NewP]
  OBVIOUS
<1>15. /\ e \in ArrayType /\ e.st = arrays[a].st /\ e.buckets = NewP /\ e.empty = arrays[a].empty
       /\ e.version = arrays[a].version /\ e.ref = arrays[a].ref /\ e.copyOf = arrays[a].copyOf
       /\ e.size = arrays[a].size
  BY <1>14, <1>6 DEF ArrayType
<1>16. arrays' = [arrays EXCEPT ![a] = e]
  BY <1>5, <1>14
<1>17. /\ ArraysOK' /\ DOMAIN arrays' = DOMAIN arrays /\ Len(arrays') = Len(arrays)
       /\ arrays'[a] = e /\ Others(a)
  <2>1. /\ e.buckets <= Len(tables') /\ e.empty \in DOMAIN buckets' /\ e.copyOf < a
        /\ Len(tables') \in Nat /\ Len(tables) <= Len(tables') /\ DOMAIN buckets \subseteq DOMAIN buckets'
    BY <1>1, <1>2, <1>6, <1>13, <1>15, ArrayIs DEF NewP
  <2> QED
    BY <1>1, <1>6, <1>15, <1>16, <2>1, PutArray
<1>18. ProgramOK' /\ Popped
  BY <1>1, <1>2, <1>3, <1>17, PopStep
<1>19. ReadsOK'
  BY <1>1, <1>2, <1>13, <1>17, ReadsKept
<1>20. Types'
  BY <1>1, <1>2, <1>13, <1>17, <1>18, <1>19 DEF Types, BucketsOK
<1>21. TablesAdded
  BY <1>6, <1>13 DEF TablesAdded
<1> QED
  BY <1>2, <1>3, <1>4, <1>6, <1>8, <1>9, <1>12, <1>13, <1>15, <1>17, <1>18, <1>20, <1>21

-----------------------------------------------------------------------------
(* A write that gives the array a bucket of its own.                       *)
NewBucket(a, i) ==
  /\ BucketsAdded /\ DOMAIN tables' = DOMAIN tables
  /\ LET b == Table(a)[K(i)]
         p == arrays[a].buckets
     IN  /\ b = arrays[a].empty \/ buckets[b].version # arrays[a].version
         /\ buckets'[NewB].st = buckets[b].st /\ buckets'[NewB].version = arrays[a].version
         /\ buckets'[NewB].elems = buckets[b].elems
         /\ \A q \in DOMAIN tables : q # p => tables'[q] = tables[q]
         /\ tables'[p].st = tables[p].st /\ Len(tables'[p].at) = Len(tables[p].at)
         /\ DOMAIN tables'[p].at = DOMAIN tables[p].at /\ tables'[p].at[K(i)] = NewB
         /\ \A k \in DOMAIN tables[p].at : k # K(i) => tables'[p].at[k] = tables[p].at[k]

(* A write finds its element, or its own bucket, or makes one.             *)
LEMMA OwnBucketStep ==
  ASSUME Types, OwnBucket, NEW a \in Writable, NEW i \in Index, NEW v \in Value, WriteBucket(a, i, v),
         a \in Intact, NEW b, b = Table(a)[K(i)], b \in DOMAIN buckets
  PROVE  /\ Types' /\ UNCHANGED <<arrays, owned, contents, reads>>
         /\ a \in DOMAIN arrays /\ b \in Entries[a] /\ K(i) \in DOMAIN Table(a)
         /\ \/ UNCHANGED <<buckets, tables>> /\ todo' = <<>> /\ buckets[b].elems[i % BucketSize] = v
            \/ /\ Len(todo') = 1 /\ todo'[1] = ElementStep(a, i, v)
               /\ \/ UNCHANGED <<buckets, tables>> /\ b # arrays[a].empty /\ buckets[b].version = arrays[a].version
                  \/ NewBucket(a, i)
<1>1. ArraysOK /\ TablesOK /\ BucketsOK /\ ProgramOK /\ ReadsOK
  BY DEF Types
<1>2. Do("bucket") /\ UNCHANGED <<arrays, owned, contents, reads>>
  BY DEF OwnBucket
<1>3. /\ todo # <<>> /\ Step = todo[1] /\ todo[1] = BucketStep(a, i, v) /\ todo[2] = ElementStep(a, i, v)
      /\ Len(todo) = 2 /\ K(i) <= Len(Table(a))
  BY <1>1, <1>2, TodoIs DEF WriteBucket, Do
<1>4. Step.a = a /\ Step.i = i /\ Step.v = v
  BY <1>3 DEF BucketStep
<1>5. /\ a \in DOMAIN arrays /\ K(i) \in DOMAIN Table(a) /\ b \in Entries[a] /\ arrays[a].buckets \in DOMAIN tables
      /\ K(i) = (i \div BucketSize) + 1
  <2>1. K(i) \in Nat \ {0}
    BY IndexIs, IndexNat
  <2> QED
    BY <1>1, <1>3, <2>1, EntriesIs DEF K
<1>6. BucketOf(a, i) = b
  BY <1>5 DEF BucketOf, Table
<1>7. CASE buckets[b].elems[i % BucketSize] = v
  <2>1. todo' = Tail(Tail(todo)) /\ UNCHANGED <<buckets, tables>>
    BY <1>4, <1>6, <1>7 DEF OwnBucket
  <2>2. todo' = <<>>
    <3>1. PICK t : t = Tail(todo)
      OBVIOUS
    <3>2. t \in Seq(StepType) /\ Len(t) = 1
      BY <1>1, <1>3, <3>1, TodoIs
    <3>3. t # <<>>
      <4>1. Len(t) # 0 /\ t \in Seq(StepType)
        BY <3>2
      <4> QED
        BY <4>1, EmptySeq, Zenon
    <3>4. PICK u : u = Tail(t)
      OBVIOUS
    <3>5. u \in Seq(StepType) /\ Len(u) = 0
      BY <3>2, <3>3, <3>4, TailSeq
    <3> QED
      BY <2>1, <3>1, <3>4, <3>5, EmptySeq
  <2>3. Types'
    <3>1. todo' \in Seq(StepType)
      BY <2>2, EmptySeq
    <3>2. ProgramOK'
      BY <1>1, <1>2, <3>1 DEF ProgramOK
    <3> QED
      BY <1>1, <1>2, <2>1, <3>2 DEF Types, ArraysOK, TablesOK, BucketsOK, ReadsOK
  <2> QED
    BY <1>2, <1>5, <1>7, <2>1, <2>2, <2>3
<1>8. CASE buckets[b].elems[i % BucketSize] # v
  <2>1. /\ Done
        /\ IF b = arrays[a].empty \/ buckets[b].version # arrays[a].version
           THEN /\ buckets' = Append(buckets, [buckets[b] EXCEPT !.version = arrays[a].version])
                /\ tables' = [tables EXCEPT ![arrays[a].buckets].at[(i \div BucketSize) + 1] = Len(buckets) + 1]
           ELSE UNCHANGED <<buckets, tables>>
    BY <1>4, <1>6, <1>8 DEF OwnBucket
  <2>2. ProgramOK' /\ Popped
    BY <1>1, <1>2, <1>3, <2>1, PopStep
  <2>3. Len(todo') = 1 /\ todo'[1] = ElementStep(a, i, v)
    BY <1>3, <2>2 DEF Popped
  <2>4. CASE ~(b = arrays[a].empty \/ buckets[b].version # arrays[a].version)
    <3>1. Types'
      BY <1>1, <1>2, <2>1, <2>2, <2>4 DEF Types, ArraysOK, TablesOK, BucketsOK, ReadsOK
    <3> QED
      BY <1>2, <1>5, <2>1, <2>3, <2>4, <3>1
  <2>5. CASE b = arrays[a].empty \/ buckets[b].version # arrays[a].version
    <3> DEFINE p == arrays[a].buckets
    <3>1. PICK e : e = [buckets[b] EXCEPT !.version = arrays[a].version]
      OBVIOUS
    <3>2. buckets[b] \in BucketType /\ arrays[a].version \in Nat /\ NewB \in Nat \ {0} /\ Len(buckets) \in Nat
      BY <1>1, <1>5, ArrayIs DEF NewB
    <3>3. e \in BucketType /\ e.st = buckets[b].st /\ e.version = arrays[a].version /\ e.elems = buckets[b].elems
      BY <3>1, <3>2 DEF BucketType
    <3>4. buckets' = Append(buckets, e)
      BY <2>1, <2>5, <3>1
    <3>5. /\ BucketsOK' /\ Len(buckets') = NewB /\ DOMAIN buckets' = DOMAIN buckets \cup {NewB}
          /\ NewB \notin DOMAIN buckets
          /\ buckets'[NewB] = e /\ \A c \in DOMAIN buckets : buckets'[c] = buckets[c]
      BY <1>1, <3>3, <3>4, AddBucket DEF NewB
    <3>6. BucketsAdded
      BY <3>2, <3>5 DEF BucketsAdded
    <3>7. PICK at : at = [tables[p].at EXCEPT ![K(i)] = NewB]
      OBVIOUS
    <3>8. /\ tables[p] \in TableType /\ tables[p].at \in Seq(Nat) /\ K(i) \in DOMAIN tables[p].at
          /\ \A k \in DOMAIN tables[p].at : tables[p].at[k] <= Len(buckets) /\ tables[p].at[k] \in Nat
      BY <1>1, <1>5, ArrayIs DEF Table
    <3>9. /\ at \in Seq(Nat) /\ Len(at) = Len(tables[p].at) /\ DOMAIN at = DOMAIN tables[p].at
          /\ at[K(i)] = NewB /\ \A k \in DOMAIN tables[p].at : k # K(i) => at[k] = tables[p].at[k]
      BY <3>2, <3>7, <3>8, PutSeq
    <3>10. PICK t : t = [tables[p] EXCEPT !.at = at]
      OBVIOUS
    <3>11. t \in TableType /\ t.st = tables[p].st /\ t.at = at
      BY <3>8, <3>9, <3>10 DEF TableType
    <3>12. tables' = [tables EXCEPT ![p] = t]
      BY <1>5, <2>1, <2>5, <3>7, <3>10 DEF NewB
    <3>13. /\ TablesOK' /\ DOMAIN tables' = DOMAIN tables /\ Len(tables') = Len(tables)
           /\ tables'[p] = t /\ \A c \in DOMAIN tables : c # p => tables'[c] = tables[c]
      <4>1. t.at # <<>>
        BY <3>8, <3>9, <3>11, EmptySeq
      <4>2. \A k \in DOMAIN t.at : t.at[k] <= Len(buckets')
        <5>1. Len(buckets') = NewB /\ Len(buckets) <= NewB /\ NewB <= NewB
          BY <3>2, <3>5 DEF NewB
        <5>2. \A k \in DOMAIN at : at[k] \in Nat /\ at[k] <= NewB
          <6> TAKE k \in DOMAIN at
          <6>1. CASE k = K(i)
            BY <3>2, <3>9, <5>1, <6>1
          <6>2. CASE k # K(i)
            BY <3>2, <3>8, <3>9, <5>1, <6>2
          <6> QED
            BY <6>1, <6>2
        <5> QED
          BY <3>11, <5>1, <5>2
      <4>3. Len(buckets) \in Nat /\ Len(buckets') \in Nat /\ Len(buckets) <= Len(buckets') /\ p \in DOMAIN tables
        BY <1>5, <3>2, <3>5 DEF NewB
      <4> QED
        BY <1>1, <3>11, <3>12, <4>1, <4>2, <4>3, PutTable
    <3>14. NewBucket(a, i)
      BY <2>5, <3>3, <3>5, <3>6, <3>9, <3>11, <3>13 DEF NewBucket
    <3>15. ReadsOK'
      BY <1>1, <1>2, <3>5, <3>13, ReadsKept
    <3>16. ArraysOK'
      BY <1>1, <1>2, <3>5, <3>13 DEF ArraysOK
    <3> QED
      BY <1>2, <1>5, <2>2, <2>3, <3>5, <3>13, <3>14, <3>15, <3>16 DEF Types
  <2> QED
    BY <2>4, <2>5
<1> QED
  BY <1>7, <1>8

(* One element of one bucket is stored.                                    *)
LEMMA SetElementStep ==
  ASSUME Types, SetElement, NEW a \in Writable, NEW i \in Index, NEW v \in Value, WriteElement(a, i, v),
         a \in Intact, NEW b, b = Table(a)[K(i)], b \in DOMAIN buckets
  PROVE  /\ Types' /\ UNCHANGED <<arrays, tables, owned, contents, reads>> /\ todo' = <<>>
         /\ a \in DOMAIN arrays /\ b \in Entries[a] /\ K(i) \in DOMAIN Table(a)
         /\ DOMAIN buckets' = DOMAIN buckets /\ \A c \in DOMAIN buckets : c # b => buckets'[c] = buckets[c]
         /\ buckets'[b].st = buckets[b].st /\ buckets'[b].version = buckets[b].version
         /\ buckets'[b].elems[i % BucketSize] = v
         /\ \A o \in Offset : o # i % BucketSize => buckets'[b].elems[o] = buckets[b].elems[o]
<1>1. ArraysOK /\ TablesOK /\ BucketsOK /\ ProgramOK /\ ReadsOK
  BY DEF Types
<1>2. Do("element") /\ Done /\ UNCHANGED <<arrays, tables, owned, contents, ops, reads>>
  BY DEF SetElement
<1>3. /\ todo # <<>> /\ Step = todo[1] /\ todo[1] = ElementStep(a, i, v)
      /\ Len(todo) = 1 /\ K(i) <= Len(Table(a))
  BY <1>1, <1>2, TodoIs DEF WriteElement, Do
<1>4. Step.a = a /\ Step.i = i /\ Step.v = v
  BY <1>3 DEF ElementStep
<1>5. /\ a \in DOMAIN arrays /\ K(i) \in DOMAIN Table(a) /\ b \in Entries[a]
      /\ K(i) = (i \div BucketSize) + 1 /\ i % BucketSize \in Offset
  <2>1. K(i) \in Nat \ {0} /\ i % BucketSize \in Offset
    BY IndexIs, IndexNat
  <2> QED
    BY <1>1, <1>3, <2>1, EntriesIs DEF K
<1>6. BucketOf(a, i) = b
  BY <1>5 DEF BucketOf, Table
<1>7. PICK es : es = [buckets[b].elems EXCEPT ![i % BucketSize] = v]
  OBVIOUS
<1>8. PICK e : e = [buckets[b] EXCEPT !.elems = es]
  OBVIOUS
<1>9. buckets[b] \in BucketType /\ buckets[b].elems \in [Offset -> Elem] /\ v \in Elem
  BY <1>1, ArrayIs DEF Elem
<1>10. /\ es \in [Offset -> Elem] /\ es[i % BucketSize] = v
       /\ \A o \in Offset : o # i % BucketSize => es[o] = buckets[b].elems[o]
  BY <1>5, <1>7, <1>9
<1>11. e \in BucketType /\ e.st = buckets[b].st /\ e.version = buckets[b].version /\ e.elems = es
  BY <1>8, <1>9, <1>10 DEF BucketType
<1>12. buckets' = [buckets EXCEPT ![b] = e]
  BY <1>4, <1>6, <1>7, <1>8 DEF SetElement
<1>13. /\ BucketsOK' /\ DOMAIN buckets' = DOMAIN buckets /\ Len(buckets') = Len(buckets)
       /\ buckets'[b] = e /\ \A c \in DOMAIN buckets : c # b => buckets'[c] = buckets[c]
  BY <1>1, <1>11, <1>12, PutBucket
<1>14. ProgramOK' /\ todo' = <<>>
  <2>1. ProgramOK' /\ Popped
    BY <1>1, <1>2, <1>3, PopStep
  <2>2. Len(todo') = 0 /\ todo' \in Seq(StepType)
    BY <1>3, <2>1 DEF Popped, ProgramOK
  <2> QED
    BY <2>1, <2>2, EmptySeq
<1>15. ReadsOK'
  BY <1>1, <1>2, <1>13, ReadsKept
<1>16. Types'
  BY <1>1, <1>2, <1>13, <1>14, <1>15 DEF Types, ArraysOK, TablesOK
<1> QED
  BY <1>2, <1>5, <1>10, <1>11, <1>13, <1>14, <1>16

(* Nothing is done for an entry that is the empty bucket.                  *)
LEMMA SkipStep ==
  ASSUME Types, Skip
  PROVE  Types' /\ todo # <<>> /\ Popped /\ todo[1].do = "skip" /\ UNCHANGED <<arrays, tables, buckets, owned, contents, reads>>
<1>1. ArraysOK /\ TablesOK /\ BucketsOK /\ ProgramOK /\ ReadsOK
  BY DEF Types
<1>2. todo # <<>> /\ Done /\ todo[1].do = "skip" /\ UNCHANGED <<arrays, tables, buckets, owned, contents, reads>>
  BY <1>1, TodoIs DEF Skip, Do
<1>3. ProgramOK' /\ Popped
  BY <1>1, <1>2, PopStep
<1> QED
  BY <1>1, <1>2, <1>3 DEF Types, ArraysOK, TablesOK, BucketsOK, ReadsOK

(* A bucket is asked whose it is.                                          *)
LEMMA IsOwnStep ==
  ASSUME Types, IsOwn, FreedKeeps \/ Reader # {}, todo[1].id \in DOMAIN buckets
  PROVE  /\ Types' /\ todo # <<>> /\ todo[1].do = "own" /\ UNCHANGED <<arrays, tables, buckets, owned, contents, reads>>
         /\ \/ buckets[todo[1].id].version # arrays[todo[1].a].version /\ Popped
            \/ /\ buckets[todo[1].id].version = arrays[todo[1].a].version
               /\ Len(todo') = Len(todo) /\ todo'[1] = DiscardStep("bucket", todo[1].id)
               /\ \A j \in 2..Len(todo) : todo'[j] = todo[j]
<1>1. ArraysOK /\ TablesOK /\ BucketsOK /\ ProgramOK /\ ReadsOK
  BY DEF Types
<1>2. todo # <<>> /\ todo[1].do = "own" /\ Step = todo[1] /\ UNCHANGED <<arrays, tables, buckets, owned, contents, reads>>
  BY <1>1, TodoIs DEF IsOwn, Do
<1> DEFINE s == todo[1]
           same == buckets[s.id].version = arrays[s.a].version
<1>3. ~(buckets[s.id].st = "free" /\ ~FreedKeeps)
  <2>1. buckets[s.id].st \in St
    BY <1>1, ArrayIs
  <2> QED
    BY <2>1 DEF St
<1>4. PICK own \in {same} :
        todo' = (IF own THEN <<DiscardStep("bucket", s.id)>> ELSE <<>>) \o Tail(todo)
  BY <1>2, <1>3 DEF IsOwn, DiscardStep
<1>5. /\ Tail(todo) \in Seq(StepType) /\ Len(Tail(todo)) = Len(todo) - 1 /\ Len(todo) \in Nat /\ Len(todo) >= 1
      /\ \A j \in 1..(Len(todo) - 1) : Tail(todo)[j] = todo[j + 1]
  BY <1>1, <1>2, TodoIs
<1>6. CASE ~same
  <2>1. todo' = Tail(todo)
    BY <1>4, <1>5, <1>6, ConcatEmptySeq
  <2>2. ProgramOK' /\ Popped
    BY <1>1, <1>2, <2>1, PopStep DEF Done
  <2> QED
    BY <1>1, <1>2, <1>6, <2>2 DEF Types, ArraysOK, TablesOK, BucketsOK, ReadsOK
<1>7. CASE same
  <2> DEFINE d == DiscardStep("bucket", s.id)
             q == <<d>>
  <2>0. PICK t : t = Tail(todo)
    OBVIOUS
  <2>1. todo' = Joined(q, t)
    BY <1>4, <1>7, <2>0 DEF Joined
  <2>2. d \in StepType
    <3>1. s.id \in Nat
      BY <1>1, ArrayIs
    <3> QED
      BY <3>1 DEF DiscardStep, StepType, DiscardSteps
  <2> HIDE DEF d
  <2>3. q \in Seq(StepType) /\ Len(q) = 1 /\ q[1] = d
    BY <2>2
  <2> HIDE DEF q
  <2>t. t \in Seq(StepType) /\ Len(t) = Len(todo) - 1 /\ \A j \in 1..(Len(todo) - 1) : t[j] = todo[j + 1]
    BY <1>5, <2>0
  <2>4. todo' \in Seq(StepType) /\ Len(todo') = Len(todo)
    <3>1. Joined(q, t) \in Seq(StepType) /\ Len(Joined(q, t)) = Len(q) + Len(t)
      BY <2>t, <2>3, ConcatSeq
    <3> QED
      BY <1>5, <2>t, <2>1, <2>3, <3>1
  <2>5. \A j \in 1..Len(todo) : todo'[j] = IF j <= 1 THEN q[j] ELSE t[j - 1]
    <3>1. \A j \in 1..(Len(q) + Len(t)) : Joined(q, t)[j] = IF j <= Len(q) THEN q[j] ELSE t[j - Len(q)]
      <4>1. q \in Seq(StepType) /\ t \in Seq(StepType)
        BY <2>t, <2>3
      <4> QED
        BY <4>1, ConcatSeq
    <3> QED
      BY <1>5, <2>t, <2>1, <2>3, <3>1
  <2>6. todo'[1] = d /\ \A j \in 2..Len(todo) : todo'[j] = todo[j]
    BY <1>5, <2>t, <2>3, <2>5
  <2>7. Types'
    BY <1>1, <1>2, <2>4 DEF Types, ArraysOK, TablesOK, BucketsOK, ReadsOK, ProgramOK
  <2> QED
    BY <1>2, <1>7, <2>4, <2>6, <2>7 DEF d
<1> QED
  BY <1>6, <1>7

-----------------------------------------------------------------------------
(* The steps of sarray_free ().                                            *)
TwoParts(s, p, q, S, m, n) ==
  /\ s \in Seq(S) /\ Len(s) = m + n
  /\ \A j \in 1..(m + n) : s[j] = IF j <= m THEN p[j] ELSE q[j - m]

(* A list before another, as to what comes after each of its steps.        *)
LEMMA JoinTwo ==
  ASSUME NEW S, NEW p \in Seq(S), NEW q \in Seq(S), NEW m \in Nat, NEW n \in Nat, m = Len(p), n = Len(q)
  PROVE  TwoParts(Joined(p, q), p, q, S, m, n)
<1>1. Joined(p, q) \in Seq(S) /\ Len(Joined(p, q)) = m + n
  BY ConcatSeq
<1>2. \A j \in 1..(m + n) : Joined(p, q)[j] = IF j <= m THEN p[j] ELSE q[j - m]
  BY ConcatSeq
<1> QED
  BY <1>1, <1>2 DEF TwoParts

FourParts(s, p, q, r, t, S, l, m, n, o) ==
  /\ s \in Seq(S) /\ Len(s) = l + m + n + o
  /\ \A j \in 1..l : s[j] = p[j]
  /\ \A j \in 1..m : s[l + j] = q[j]
  /\ \A j \in 1..n : s[l + m + j] = r[j]
  /\ \A j \in 1..o : s[l + m + n + j] = t[j]

(* The list of sarray_free () is four lists.                               *)
LEMMA JoinFour ==
  ASSUME NEW S, NEW p \in Seq(S), NEW q \in Seq(S), NEW r \in Seq(S), NEW t \in Seq(S),
         NEW l \in Nat, NEW m \in Nat, NEW n \in Nat, NEW o \in Nat,
         l = Len(p), m = Len(q), n = Len(r), o = Len(t)
  PROVE  FourParts(Joined(Joined(Joined(p, q), r), t), p, q, r, t, S, l, m, n, o)
<1> DEFINE u == Joined(p, q)
           w == Joined(u, r)
           s == Joined(w, t)
<1>1. TwoParts(u, p, q, S, l, m)
  BY JoinTwo
<1> HIDE DEF u
<1>2. u \in Seq(S) /\ Len(u) = l + m
  BY <1>1 DEF TwoParts
<1>3. PICK k \in Nat : k = l + m
  OBVIOUS
<1>4. TwoParts(w, u, r, S, k, n)
  BY <1>2, <1>3, JoinTwo
<1> HIDE DEF w
<1>5. w \in Seq(S) /\ Len(w) = k + n
  BY <1>4 DEF TwoParts
<1>6. PICK i \in Nat : i = k + n
  OBVIOUS
<1>7. TwoParts(s, w, t, S, i, o)
  BY <1>5, <1>6, JoinTwo
<1> HIDE DEF s
<1>8. \A x \in 1..(l + m) : u[x] = IF x <= l THEN p[x] ELSE q[x - l]
  BY <1>1 DEF TwoParts
<1>9. \A x \in 1..(k + n) : w[x] = IF x <= k THEN u[x] ELSE r[x - k]
  BY <1>4 DEF TwoParts
<1>10. \A x \in 1..(i + o) : s[x] = IF x <= i THEN w[x] ELSE t[x - i]
  BY <1>7 DEF TwoParts
<1>11. s \in Seq(S) /\ Len(s) = l + m + n + o
  BY <1>3, <1>6, <1>7 DEF TwoParts
<1>12. \A j \in 1..l : s[j] = p[j]
  <2> TAKE j \in 1..l
  <2>1. /\ j \in 1..(l + m) /\ j <= l /\ j \in 1..(k + n) /\ j <= k
        /\ j \in 1..(i + o) /\ j <= i
    BY <1>3, <1>6
  <2> QED
    BY <1>8, <1>9, <1>10, <2>1
<1>13. ASSUME NEW j \in 1..m, NEW x, x = l + j
       PROVE  s[x] = q[j]
  <2>1. /\ x \in 1..(l + m) /\ ~(x <= l) /\ x - l = j /\ x \in 1..(k + n) /\ x <= k
        /\ x \in 1..(i + o) /\ x <= i
    BY <1>3, <1>6, <1>13
  <2>2. u[x] = q[x - l]
    BY <1>8, <2>1
  <2>3. s[x] = w[x] /\ w[x] = u[x]
    BY <1>9, <1>10, <2>1
  <2> QED
    BY <2>1, <2>2, <2>3
<1>14. ASSUME NEW j \in 1..n, NEW x, x = l + m + j
       PROVE  s[x] = r[j]
  <2>1. /\ x \in 1..(k + n) /\ ~(x <= k) /\ x - k = j
        /\ x \in 1..(i + o) /\ x <= i
    BY <1>3, <1>6, <1>14
  <2>2. w[x] = r[x - k]
    BY <1>9, <2>1
  <2>3. s[x] = w[x]
    BY <1>10, <2>1
  <2> QED
    BY <2>1, <2>2, <2>3
<1>15. ASSUME NEW j \in 1..o, NEW x, x = l + m + n + j
       PROVE  s[x] = t[j]
  <2>1. x \in 1..(i + o) /\ ~(x <= i) /\ x - i = j
    BY <1>3, <1>6, <1>15
  <2>2. s[x] = t[x - i]
    BY <1>10, <2>1
  <2> QED
    BY <2>1, <2>2
<1>16. FourParts(s, p, q, r, t, S, l, m, n, o)
  BY <1>11, <1>12, <1>13, <1>14, <1>15 DEF FourParts
<1> QED
  BY <1>16 DEF s, w, u

FreeOne(x) == [do |-> "free", a |-> x]
OwnOne(what, a, b) == [do |-> what, a |-> a, id |-> b]
(* What is to be done when array x is freed: h is 1 if its original is, too. *)
FreeForm(x, h, n, m) ==
  /\ Len(todo') = h + n + 3 + m
  /\ h = 1 => todo'[1] = FreeOne(arrays[x].copyOf)
  /\ \A k \in 1..n : todo'[h + k] =
       OwnOne(IF Table(x)[k] = arrays[x].empty THEN "skip" ELSE "own", x, Table(x)[k])
  /\ todo'[h + n + 1] = OwnOne("own", x, arrays[x].empty)
  /\ todo'[h + n + 2] = DiscardStep("table", arrays[x].buckets)
  /\ todo'[h + n + 3] = DiscardStep("array", x)
  /\ \A j \in 1..m : todo'[h + n + 3 + j] = todo[j + 1]

(* sarray_free (): the count, and the list of what is to be thrown away.   *)
LEMMA FreeArrayStep ==
  ASSUME Types, FreeArray, NEW x \in Intact, x = todo[1].a, arrays[x].ref >= 1, Len(Table(x)) = arrays[x].size
  PROVE  /\ Types' /\ todo # <<>> /\ UNCHANGED <<tables, buckets, owned, contents, reads>>
         /\ todo[1].do = "free"
         /\ DOMAIN arrays' = DOMAIN arrays /\ Others(x)
         /\ arrays'[x].st = arrays[x].st /\ arrays'[x].buckets = arrays[x].buckets
         /\ arrays'[x].empty = arrays[x].empty /\ arrays'[x].version = arrays[x].version
         /\ arrays'[x].ref = arrays[x].ref - 1 /\ arrays'[x].copyOf = arrays[x].copyOf
         /\ arrays'[x].size = arrays[x].size
         /\ arrays[x].ref # 1 => Popped
         /\ arrays[x].ref = 1 => \E h \in {0, 1} :
              /\ h = 1 <=> arrays[x].copyOf # 0 /\ arrays[arrays[x].copyOf].ref = 1
              /\ FreeForm(x, h, Len(Table(x)), Len(todo) - 1)
<1>1. ArraysOK /\ TablesOK /\ BucketsOK /\ ProgramOK /\ ReadsOK
  BY DEF Types
<1>2. /\ todo # <<>> /\ todo[1].do = "free" /\ Step = todo[1] /\ Step.a = x
      /\ todo' = FreeSteps(x) \o Tail(todo) /\ arrays' = [arrays EXCEPT ![x].ref = arrays[x].ref - 1]
      /\ UNCHANGED <<tables, buckets, owned, contents, reads>>
  BY <1>1, TodoIs DEF FreeArray, Do
<1>3. /\ x \in DOMAIN arrays /\ arrays[x] \in ArrayType /\ arrays[x].ref \in Nat /\ x \in Nat
      /\ arrays[x].buckets \in Nat /\ arrays[x].empty \in Nat /\ arrays[x].copyOf \in Nat
      /\ arrays[x].copyOf # 0 => arrays[x].copyOf \in DOMAIN arrays /\ arrays[arrays[x].copyOf].ref \in Nat
      /\ arrays[x].buckets <= Len(tables) /\ arrays[x].empty \in DOMAIN buckets /\ arrays[x].copyOf < x
      /\ Len(tables) \in Nat
  <2>1. x \in DOMAIN arrays
    BY DEF Intact
  <2>2. /\ arrays[x] \in ArrayType /\ arrays[x].ref \in Nat /\ x \in Nat
        /\ arrays[x].buckets \in Nat /\ arrays[x].empty \in DOMAIN buckets /\ arrays[x].copyOf \in Nat
        /\ arrays[x].buckets <= Len(tables) /\ arrays[x].copyOf < x
    BY <1>1, <2>1, ArrayIs
  <2>3. arrays[x].empty \in Nat /\ Len(tables) \in Nat
    BY <1>1, <2>2, ArrayIs
  <2>4. arrays[x].copyOf # 0 => arrays[x].copyOf \in DOMAIN arrays
    BY <1>1, <2>1, <2>2, ArrayIs
  <2>5. arrays[x].copyOf # 0 => arrays[arrays[x].copyOf].ref \in Nat
    BY <1>1, <2>4, ArrayIs
  <2> QED
    BY <2>1, <2>2, <2>3, <2>4, <2>5
<1>4. PICK e : e = [arrays[x] EXCEPT !.ref = arrays[x].ref - 1]
  OBVIOUS
<1>5. /\ e \in ArrayType /\ e.st = arrays[x].st /\ e.buckets = arrays[x].buckets /\ e.empty = arrays[x].empty
      /\ e.version = arrays[x].version /\ e.ref = arrays[x].ref - 1 /\ e.copyOf = arrays[x].copyOf
      /\ e.size = arrays[x].size
  <2>1. arrays[x].ref - 1 \in Nat
    BY <1>3
  <2> QED
    BY <1>3, <1>4, <2>1 DEF ArrayType
<1>6. arrays' = [arrays EXCEPT ![x] = e]
  BY <1>2, <1>4
<1>7. /\ ArraysOK' /\ DOMAIN arrays' = DOMAIN arrays /\ Len(arrays') = Len(arrays)
      /\ arrays'[x] = e /\ Others(x)
  <2>1. /\ e.buckets <= Len(tables') /\ e.empty \in DOMAIN buckets' /\ e.copyOf < x
        /\ Len(tables') \in Nat /\ Len(tables) <= Len(tables') /\ DOMAIN buckets \subseteq DOMAIN buckets'
    BY <1>2, <1>3, <1>5
  <2> QED
    BY <1>1, <1>3, <1>5, <1>6, <2>1, PutArray
<1>8. ReadsOK'
  BY <1>1, <1>2, <1>7, ReadsKept
<1>9. PICK t : t = Tail(todo)
  OBVIOUS
<1>10. t \in Seq(StepType) /\ Len(t) = Len(todo) - 1 /\ Len(t) \in Nat /\ \A j \in 1..Len(t) : t[j] = todo[j + 1]
  BY <1>1, <1>2, <1>9, TodoIs
<1>11. CASE arrays[x].ref # 1
  <2>1. FreeSteps(x) = <<>>
    BY <1>3, <1>11 DEF FreeSteps
  <2>2. todo' = Tail(todo)
    BY <1>2, <1>9, <1>10, <2>1, ConcatEmptySeq
  <2>3. ProgramOK' /\ Popped
    BY <1>1, <1>2, <1>7, <2>2, PopStep DEF Done
  <2>4. Types'
    BY <1>1, <1>2, <1>7, <1>8, <2>3 DEF Types, TablesOK, BucketsOK
  <2> QED
    BY <1>2, <1>5, <1>7, <1>11, <2>3, <2>4
<1>12. CASE arrays[x].ref = 1
  <2>1. PICK o, n, at, h : /\ o = arrays[x].copyOf /\ n = Len(Table(x)) /\ at = Table(x)
                           /\ h = IF o # 0 /\ arrays[o].ref = 1 THEN 1 ELSE 0
    OBVIOUS
  <2>2. PICK p : p = IF h = 1 THEN <<FreeOne(o)>> ELSE <<>>
    OBVIOUS
  <2>3. PICK q : q = [k \in 1..n |-> OwnOne(IF at[k] = arrays[x].empty THEN "skip" ELSE "own", x, at[k])]
    OBVIOUS
  <2>4. PICK r : r = <<OwnOne("own", x, arrays[x].empty), DiscardStep("table", arrays[x].buckets), DiscardStep("array", x)>>
    OBVIOUS
  <2>5. todo' = Joined(Joined(Joined(p, q), r), t)
    <3>1. (o # 0 /\ arrays[o].ref - 1 = 0) <=> h = 1
      BY <1>3, <2>1
    <3>2. FreeSteps(x) = (IF h = 1 THEN <<[do |-> "free", a |-> o]>> ELSE <<>>)
           \o [k \in 1..n |->
                 [do |-> IF at[k] = arrays[x].empty THEN "skip" ELSE "own",
                  a |-> x, id |-> at[k]]]
           \o <<[do |-> "own", a |-> x, id |-> arrays[x].empty],
                [do |-> "discard", what |-> "table", id |-> arrays[x].buckets],
                [do |-> "discard", what |-> "array", id |-> x]>>
      <4>1. arrays[x].ref - 1 = 0
        BY <1>12
      <4> QED
        BY <2>1, <3>1, <4>1 DEF FreeSteps, Table
    <3> QED
      BY <1>2, <1>9, <2>2, <2>3, <2>4, <3>2 DEF Joined, FreeOne, OwnOne, DiscardStep
  <2>6. h \in {0, 1} /\ n \in Nat /\ \A k \in 1..n : at[k] \in Nat
    BY <1>1, <2>1, EntriesIs, ArrayIs
  <2>7. p \in Seq(StepType) /\ Len(p) = h /\ (h = 1 => p[1] = FreeOne(o))
    <3>1. FreeOne(o) \in StepType
      BY <1>3, <2>1 DEF FreeOne, StepType, FreeOnes
    <3>2. CASE h = 1
      <4>1. p = <<FreeOne(o)>>
        BY <2>2, <3>2
      <4> QED
        BY <3>1, <3>2, <4>1
    <3>3. CASE h # 1
      <4>1. p = <<>> /\ h = 0
        BY <2>2, <2>6, <3>3
      <4> QED
        BY <4>1, EmptySeq
    <3> QED
      BY <3>2, <3>3
  <2>8. q \in Seq(StepType) /\ Len(q) = n
    <3>1. \A k \in 1..n : OwnOne(IF at[k] = arrays[x].empty THEN "skip" ELSE "own", x, at[k]) \in StepType
      BY <1>3, <2>6 DEF OwnOne, StepType, OwnSteps
    <3>2. q \in [1..n -> StepType]
      BY <2>3, <3>1
    <3> QED
      BY <2>6, <3>2, FunSeq
  <2>9. /\ r \in Seq(StepType) /\ Len(r) = 3 /\ r[1] = OwnOne("own", x, arrays[x].empty)
        /\ r[2] = DiscardStep("table", arrays[x].buckets) /\ r[3] = DiscardStep("array", x)
    <3>1. OwnOne("own", x, arrays[x].empty) \in StepType
      BY <1>3 DEF OwnOne, StepType, OwnSteps
    <3>2. DiscardStep("table", arrays[x].buckets) \in StepType /\ DiscardStep("array", x) \in StepType
      BY <1>3 DEF DiscardStep, StepType, DiscardSteps
    <3> QED
      BY <2>4, <3>1, <3>2
  <2>10. PICK s, m : s = todo' /\ m = Len(t)
    OBVIOUS
  <2>11. /\ s \in Seq(StepType) /\ Len(s) = h + n + 3 + m
         /\ \A j \in 1..h : s[j] = p[j]
         /\ \A j \in 1..n : s[h + j] = q[j]
         /\ \A j \in 1..3 : s[h + n + j] = r[j]
         /\ \A j \in 1..m : s[h + n + 3 + j] = t[j]
    <3>1. s = Joined(Joined(Joined(p, q), r), t) /\ h \in Nat /\ m \in Nat /\ n \in Nat /\ 3 \in Nat
      BY <1>10, <2>5, <2>6, <2>10
    <3>2. p \in Seq(StepType) /\ q \in Seq(StepType) /\ r \in Seq(StepType) /\ t \in Seq(StepType)
      BY <1>10, <2>7, <2>8, <2>9
    <3>3. h = Len(p) /\ n = Len(q) /\ 3 = Len(r) /\ m = Len(t)
      BY <2>7, <2>8, <2>9, <2>10
    <3>4. FourParts(s, p, q, r, t, StepType, h, n, 3, m)
      BY <3>1, <3>2, <3>3, JoinFour
    <3> QED
      BY <3>4 DEF FourParts
  <2>12. \A k \in 1..n : q[k] = OwnOne(IF at[k] = arrays[x].empty THEN "skip" ELSE "own", x, at[k])
    BY <2>3
  <2>13. FreeForm(x, h, n, m)
    <3>1. h = 1 => s[1] = FreeOne(o)
      BY <2>7, <2>11
    <3>2. s[h + n + 1] = r[1] /\ s[h + n + 2] = r[2] /\ s[h + n + 3] = r[3]
      BY <2>11
    <3>3. \A j \in 1..m : s[h + n + 3 + j] = todo[j + 1]
      BY <1>10, <2>10, <2>11
    <3> QED
      <4>1. \A k \in 1..n : todo'[h + k] =
               OwnOne(IF Table(x)[k] = arrays[x].empty THEN "skip" ELSE "own", x, Table(x)[k])
        <5> TAKE k \in 1..n
        <5>1. s[h + k] = q[k]
          BY <2>11
        <5>2. q[k] = OwnOne(IF at[k] = arrays[x].empty THEN "skip" ELSE "own", x, at[k])
          BY <2>12
        <5> QED
          BY <2>1, <2>10, <5>1, <5>2
      <4>2. Len(todo') = h + n + 3 + m
        BY <2>10, <2>11
      <4>3. /\ h = 1 => todo'[1] = FreeOne(arrays[x].copyOf)
            /\ todo'[h + n + 1] = OwnOne("own", x, arrays[x].empty)
            /\ todo'[h + n + 2] = DiscardStep("table", arrays[x].buckets)
            /\ todo'[h + n + 3] = DiscardStep("array", x)
        BY <2>1, <2>9, <2>10, <3>1, <3>2
      <4>4. \A j \in 1..m : todo'[h + n + 3 + j] = todo[j + 1]
        BY <2>10, <3>3
      <4> QED
        BY <4>1, <4>2, <4>3, <4>4 DEF FreeForm
  <2>14. ProgramOK'
    BY <1>1, <1>2, <1>7, <2>10, <2>11 DEF ProgramOK
  <2>15. Types'
    BY <1>1, <1>2, <1>7, <1>8, <2>14 DEF Types, TablesOK, BucketsOK
  <2>16. h = 1 <=> arrays[x].copyOf # 0 /\ arrays[arrays[x].copyOf].ref = 1
    BY <2>1
  <2>17. FreeForm(x, h, Len(Table(x)), Len(todo) - 1)
    BY <1>10, <2>1, <2>10, <2>13
  <2> QED
    BY <1>2, <1>5, <1>7, <1>12, <2>6, <2>15, <2>16, <2>17
<1> QED
  BY <1>11, <1>12

-----------------------------------------------------------------------------
(* What is thrown away is no longer live, and those that read know of it.  *)
Busy == {r \in Reader : reads[r].at # "idle"}

(* What is thrown away once is freed or garbage, and no longer live.       *)
LEMMA FateIs == Fate("live") \in St /\ Fate("live") # "live"
BY DEF Fate, St

(* Something is thrown away: what stays, and who is told.                  *)
LEMMA DiscardIs ==
  ASSUME Types, Discard
  PROVE  /\ todo # <<>> /\ todo[1].do = "discard" /\ Step = todo[1] /\ todo[1] \in StepType /\ Done
         /\ UNCHANGED <<owned, contents>> /\ Change(Busy)
         /\ todo[1].what \in {"bucket", "table", "array"}
BY TodoIs, StepTypes DEF Types, Discard, Do, Busy

(* A bucket is thrown away.                                                *)
LEMMA DiscardBucket ==
  ASSUME Types, Discard, todo[1].what = "bucket", NEW b \in DOMAIN buckets, b = todo[1].id, buckets[b].st = "live"
  PROVE  /\ Types' /\ Popped /\ SameReads /\ UNCHANGED <<arrays, tables>>
         /\ DOMAIN buckets' = DOMAIN buckets /\ buckets'[b].st # "live" /\ buckets'[b].version = buckets[b].version
         /\ \A c \in DOMAIN buckets : c # b => buckets'[c] = buckets[c]
<1>1. ArraysOK /\ TablesOK /\ BucketsOK /\ ProgramOK /\ ReadsOK
  BY DEF Types
<1>2. todo # <<>> /\ Done /\ UNCHANGED <<owned, contents>> /\ Change(Busy) /\ Step = todo[1]
  BY DiscardIs
<1>3. UNCHANGED <<arrays, tables>> /\
      buckets' = [buckets EXCEPT ![b].st = Fate(@), ![b].elems[0] = IF Reader = {} THEN @ ELSE Link]
  BY <1>2 DEF Discard
<1>4. buckets[b] \in BucketType /\ buckets[b].elems \in [Offset -> Elem] /\ 0 \in Offset
  BY <1>1, ArrayIs, IndexNat
<1>5. PICK es : es = [buckets[b].elems EXCEPT ![0] = IF Reader = {} THEN @ ELSE Link]
  OBVIOUS
<1>6. es \in [Offset -> Elem]
  BY <1>4, <1>5 DEF Elem
<1>7. PICK st \in St : st = Fate("live") /\ st # "live"
  BY FateIs
<1>8. PICK e : e = [buckets[b] EXCEPT !.st = st, !.elems = es]
  OBVIOUS
<1>9. e \in BucketType /\ e.st = st /\ e.version = buckets[b].version
  BY <1>4, <1>6, <1>7, <1>8 DEF BucketType
<1>10. buckets' = [buckets EXCEPT ![b] = e]
  BY <1>1, <1>3, <1>5, <1>7, <1>8
<1>11. /\ BucketsOK' /\ DOMAIN buckets' = DOMAIN buckets /\ Len(buckets') = Len(buckets)
       /\ buckets'[b] = e /\ \A c \in DOMAIN buckets : c # b => buckets'[c] = buckets[c]
  BY <1>1, <1>9, <1>10, PutBucket
<1>12. ProgramOK' /\ Popped
  BY <1>1, <1>2, <1>3, PopStep
<1>13. ReadsOK' /\ SameReads
  BY <1>1, <1>2, <1>3, <1>11, ReadsKept
<1>14. Types'
  BY <1>1, <1>3, <1>11, <1>12, <1>13 DEF Types, ArraysOK, TablesOK
<1> QED
  BY <1>3, <1>7, <1>9, <1>11, <1>12, <1>13, <1>14

(* A table is thrown away.                                                 *)
LEMMA DiscardTable ==
  ASSUME Types, Discard, todo[1].what = "table", NEW p \in DOMAIN tables, p = todo[1].id, tables[p].st = "live"
  PROVE  /\ Types' /\ Popped /\ SameReads /\ UNCHANGED <<arrays, buckets>>
         /\ DOMAIN tables' = DOMAIN tables /\ tables'[p].st # "live"
         /\ \A c \in DOMAIN tables : c # p => tables'[c] = tables[c]
<1>1. ArraysOK /\ TablesOK /\ BucketsOK /\ ProgramOK /\ ReadsOK
  BY DEF Types
<1>2. todo # <<>> /\ Done /\ UNCHANGED <<owned, contents>> /\ Change(Busy) /\ Step = todo[1]
  BY DiscardIs
<1>3. UNCHANGED <<arrays, buckets>> /\
      tables' = [tables EXCEPT ![p].st = Fate(@), ![p].at[1] = IF Reader = {} THEN @ ELSE 0]
  BY <1>2 DEF Discard
<1>4. /\ tables[p] \in TableType /\ tables[p].at \in Seq(Nat) /\ 1 \in DOMAIN tables[p].at
      /\ \A k \in DOMAIN tables[p].at : tables[p].at[k] \in Nat /\ tables[p].at[k] <= Len(buckets)
      /\ Len(buckets) \in Nat /\ Len(tables[p].at) \in Nat \ {0}
  BY <1>1, ArrayIs
<1>5. PICK w \in Nat : w = IF Reader = {} THEN tables[p].at[1] ELSE 0
  BY <1>4
<1>6. PICK at : at = [tables[p].at EXCEPT ![1] = w]
  OBVIOUS
<1>7. /\ at \in Seq(Nat) /\ Len(at) = Len(tables[p].at) /\ DOMAIN at = DOMAIN tables[p].at
      /\ at[1] = w /\ \A k \in DOMAIN tables[p].at : k # 1 => at[k] = tables[p].at[k]
  BY <1>4, <1>5, <1>6, PutSeq
<1>8. PICK st \in St : st = Fate("live") /\ st # "live"
  BY FateIs
<1>9. PICK e : e = [tables[p] EXCEPT !.st = st, !.at = at]
  OBVIOUS
<1>10. e \in TableType /\ e.st = st /\ e.at = at
  BY <1>4, <1>7, <1>8, <1>9 DEF TableType
<1>11. tables' = [tables EXCEPT ![p] = e]
  BY <1>1, <1>3, <1>5, <1>6, <1>8, <1>9
<1>12. /\ TablesOK' /\ DOMAIN tables' = DOMAIN tables /\ Len(tables') = Len(tables)
       /\ tables'[p] = e /\ \A c \in DOMAIN tables : c # p => tables'[c] = tables[c]
  <2>1. e.at # <<>>
    BY <1>4, <1>7, <1>10, EmptySeq
  <2>2. \A k \in DOMAIN e.at : e.at[k] <= Len(buckets')
    BY <1>3, <1>4, <1>5, <1>7, <1>10
  <2>3. Len(buckets) \in Nat /\ Len(buckets') \in Nat /\ Len(buckets) <= Len(buckets')
    BY <1>3, <1>4
  <2> QED
    BY <1>1, <1>10, <1>11, <2>1, <2>2, <2>3, PutTable
<1>13. ProgramOK' /\ Popped
  BY <1>1, <1>2, <1>3, PopStep
<1>14. ReadsOK' /\ SameReads
  BY <1>1, <1>2, <1>3, <1>12, ReadsKept
<1>15. Types'
  BY <1>1, <1>3, <1>12, <1>13, <1>14 DEF Types, ArraysOK, BucketsOK
<1> QED
  BY <1>3, <1>8, <1>10, <1>12, <1>13, <1>14, <1>15

(* An array is thrown away.                                                *)
LEMMA DiscardArray ==
  ASSUME Types, Discard, todo[1].what = "array", NEW x \in DOMAIN arrays, x = todo[1].id, arrays[x].st = "live"
  PROVE  /\ Types' /\ Popped /\ SameReads /\ UNCHANGED <<tables, buckets>>
         /\ DOMAIN arrays' = DOMAIN arrays /\ Others(x) /\ arrays'[x].st # "live"
         /\ arrays'[x].buckets \in {0, arrays[x].buckets}
         /\ arrays'[x].empty = arrays[x].empty /\ arrays'[x].version = arrays[x].version
         /\ arrays'[x].ref = arrays[x].ref /\ arrays'[x].copyOf = arrays[x].copyOf
         /\ arrays'[x].size = arrays[x].size
<1>1. ArraysOK /\ TablesOK /\ BucketsOK /\ ProgramOK /\ ReadsOK
  BY DEF Types
<1>2. todo # <<>> /\ Done /\ UNCHANGED <<owned, contents>> /\ Change(Busy) /\ Step = todo[1]
  BY DiscardIs
<1>3. UNCHANGED <<tables, buckets>> /\
      arrays' = [arrays EXCEPT ![x].st = Fate(@), ![x].buckets = IF Reader = {} THEN @ ELSE 0]
  BY <1>2 DEF Discard
<1>4. /\ arrays[x] \in ArrayType /\ arrays[x].buckets \in Nat /\ arrays[x].buckets <= Len(tables)
      /\ arrays[x].empty \in DOMAIN buckets /\ arrays[x].copyOf < x /\ Len(tables) \in Nat
  BY <1>1, ArrayIs
<1>5. PICK p \in Nat : p = IF Reader = {} THEN arrays[x].buckets ELSE 0
  BY <1>4
<1>6. PICK st \in St : st = Fate("live") /\ st # "live"
  BY FateIs
<1>7. PICK e : e = [arrays[x] EXCEPT !.st = st, !.buckets = p]
  OBVIOUS
<1>8. /\ e \in ArrayType /\ e.st = st /\ e.buckets = p /\ e.empty = arrays[x].empty
      /\ e.version = arrays[x].version /\ e.ref = arrays[x].ref /\ e.copyOf = arrays[x].copyOf
      /\ e.size = arrays[x].size
  BY <1>4, <1>5, <1>6, <1>7 DEF ArrayType
<1>9. arrays' = [arrays EXCEPT ![x] = e]
  BY <1>1, <1>3, <1>5, <1>6, <1>7
<1>10. p <= Len(tables) /\ p \in {0, arrays[x].buckets}
  BY <1>4, <1>5
<1>11. /\ ArraysOK' /\ DOMAIN arrays' = DOMAIN arrays /\ Len(arrays') = Len(arrays)
       /\ arrays'[x] = e /\ Others(x)
  <2>1. /\ e.buckets <= Len(tables') /\ e.empty \in DOMAIN buckets' /\ e.copyOf < x
        /\ Len(tables') \in Nat /\ Len(tables) <= Len(tables') /\ DOMAIN buckets \subseteq DOMAIN buckets'
    BY <1>3, <1>4, <1>8, <1>10
  <2> QED
    BY <1>1, <1>8, <1>9, <2>1, PutArray
<1>12. ProgramOK' /\ Popped
  BY <1>1, <1>2, <1>11, PopStep
<1>13. ReadsOK' /\ SameReads
  BY <1>1, <1>2, <1>3, <1>11, ReadsKept
<1>14. Types'
  BY <1>1, <1>3, <1>11, <1>12, <1>13 DEF Types, TablesOK, BucketsOK
<1> QED
  BY <1>3, <1>6, <1>8, <1>10, <1>11, <1>12, <1>13, <1>14

-----------------------------------------------------------------------------
(* A step that makes no array, table or bucket: what the arrays have stays *)
(* as it is or is thrown away.                                             *)
Shrink ==
  /\ DOMAIN arrays' = DOMAIN arrays /\ DOMAIN buckets' = DOMAIN buckets
  /\ \A c \in DOMAIN arrays :
       /\ arrays'[c].version = arrays[c].version /\ arrays'[c].empty = arrays[c].empty
       /\ arrays'[c].copyOf = arrays[c].copyOf /\ arrays'[c].ref <= arrays[c].ref
       /\ c \in Intact' => c \in Intact /\ arrays'[c].buckets = arrays[c].buckets /\ Table(c)' = Table(c)
       /\ arrays[c].ref > 0 => c \in Intact'
  /\ \A b \in DOMAIN buckets : buckets'[b].version = buckets[b].version
  /\ Writable' \subseteq Writable

(* In such a step arrays keep their buckets or lose them all.              *)
LEMMA ShrinkEntries ==
  ASSUME Shrink, NEW c \in DOMAIN arrays
  PROVE  /\ Entries'[c] \subseteq Entries[c]
         /\ c \in Intact' => Entries'[c] = Entries[c]
         /\ arrays[c].ref > 0 => Entries'[c] = Entries[c]
<1>1. /\ c \in DOMAIN arrays' /\ arrays'[c].empty = arrays[c].empty
      /\ c \in Intact' => c \in Intact /\ Table(c)' = Table(c)
      /\ arrays[c].ref > 0 => c \in Intact'
  BY DEF Shrink
<1>2. CASE c \in Intact'
  <2>1. c \in Intact /\ Table(c)' = Table(c)
    BY <1>1, <1>2
  <2>2. Entries[c] = {Table(c)[k] : k \in DOMAIN Table(c)} \cup {arrays[c].empty}
    BY <2>1 DEF Entries
  <2>3. Entries'[c] = {Table(c)'[k] : k \in DOMAIN Table(c)'} \cup {arrays'[c].empty}
    BY <1>1, <1>2 DEF Entries
  <2>4. Entries'[c] = Entries[c]
    BY <1>1, <2>1, <2>2, <2>3
  <2> QED
    BY <2>4
<1>3. CASE c \notin Intact'
  <2>1. Entries'[c] = {}
    BY <1>1, <1>3 DEF Entries
  <2> QED
    BY <1>1, <1>3, <2>1
<1> QED
  BY <1>2, <1>3

(* What an array is a copy of is an array.                                 *)
LEMMA CopyIs ==
  ASSUME ArraysOK, TablesOK, BucketsOK, NEW c \in DOMAIN arrays, arrays[c].copyOf # 0
  PROVE  arrays[c].copyOf \in DOMAIN arrays /\ arrays[arrays[c].copyOf].ref \in Nat /\ arrays[c].copyOf # c
<1>1. /\ Len(arrays) \in Nat /\ DOMAIN arrays = 1..Len(arrays) /\ c \in Nat /\ arrays[c].copyOf \in Nat
      /\ arrays[c].copyOf < c
  BY ArrayIs
<1>2. arrays[c].copyOf \in 1..Len(arrays)
  BY <1>1
<1> QED
  BY <1>1, <1>2, ArrayIs

(* The types of the counts after a step.                                   *)
LEMMA RefIs ==
  ASSUME ArraysOK'
  PROVE  \A c \in DOMAIN arrays' : arrays'[c].ref \in Nat /\ arrays'[c].version \in Nat
<1>1. \A c \in DOMAIN arrays' : arrays'[c] \in ArrayType
  BY SeqIs DEF ArraysOK
<1> QED
  BY <1>1 DEF ArrayType

(* What is said of the buckets survives such a step.                       *)
LEMMA ShrinkHeap ==
  ASSUME Types, Types', Shrink, Heap, References
  PROVE  Apart' /\ Versions' /\ SameEmpty' /\ Owners' /\ Placed' /\ Shared' /\ From'
<1>1. /\ DOMAIN arrays' = DOMAIN arrays /\ DOMAIN buckets' = DOMAIN buckets
      /\ \A c \in DOMAIN arrays :
           /\ arrays'[c].version = arrays[c].version /\ arrays'[c].empty = arrays[c].empty
           /\ arrays'[c].copyOf = arrays[c].copyOf /\ arrays'[c].ref <= arrays[c].ref
           /\ c \in Intact' => c \in Intact /\ arrays'[c].buckets = arrays[c].buckets /\ Table(c)' = Table(c)
      /\ \A b \in DOMAIN buckets : buckets'[b].version = buckets[b].version
      /\ Writable' \subseteq Writable
  BY DEF Shrink
<1>2. \A c \in DOMAIN arrays : Entries'[c] \subseteq Entries[c] /\ (arrays[c].ref > 0 => Entries'[c] = Entries[c])
  BY ShrinkEntries
<1>3. \A c \in DOMAIN arrays : \A b \in Entries[c] : b \in DOMAIN buckets /\ buckets[b].version <= arrays[c].version
  BY DEF Heap, Versions
<1>4. \A c \in DOMAIN arrays : \A b \in Entries'[c] :
        b \in Entries[c] /\ b \in DOMAIN buckets /\ buckets'[b].version = buckets[b].version
  BY <1>1, <1>2, <1>3
<1>5. \A c \in DOMAIN arrays : \A b : Own(c, b)' => Own(c, b)
  BY <1>1, <1>4 DEF Own
<1>6. \A c \in Intact' : c \in DOMAIN arrays
  BY <1>1 DEF Intact
<1>7. Apart'
  BY <1>1, <1>6 DEF Apart, Heap
<1>8. Versions'
  BY <1>1, <1>3, <1>4 DEF Versions
<1>9. SameEmpty'
  BY <1>1, <1>4 DEF SameEmpty, Heap
<1>10. Owners'
  BY <1>1, <1>4, <1>5 DEF Owners, Heap
<1>11. Shared'
  BY <1>1, <1>4, <1>5 DEF Shared, Heap
<1>12. Placed'
  <2> SUFFICES ASSUME NEW a, a \in Intact'
               PROVE  \A j, k \in DOMAIN Table(a)' :
                        Table(a)'[j] = Table(a)'[k] /\ Own(a, Table(a)[j])' /\ Table(a)'[j] # arrays'[a].empty => j = k
    BY DEF Placed
  <2>1. /\ a \in Intact /\ Table(a)' = Table(a) /\ arrays'[a].empty = arrays[a].empty /\ a \in DOMAIN arrays
    BY <1>1, <1>6
  <2>2. \A j : Own(a, Table(a)[j])' => Own(a, Table(a)[j])
    <3> TAKE j
    <3>1. PICK b : b = Table(a)[j]
      OBVIOUS
    <3>2. b = Table(a)'[j]
      BY <2>1, <3>1
    <3>3. Own(a, b)' => Own(a, b)
      BY <1>5, <2>1
    <3> QED
      BY <3>1, <3>2, <3>3 DEF Own
  <2> QED
    BY <2>1, <2>2 DEF Placed, Heap
<1>13. From'
  <2> SUFFICES ASSUME NEW c \in DOMAIN arrays', NEW b \in Entries'[c],
                      arrays'[c].ref > 0, buckets'[b].version < arrays'[c].version
               PROVE  arrays'[c].copyOf # 0 /\ b \in Entries'[arrays'[c].copyOf]
    BY DEF From
  <2>1. c \in DOMAIN arrays /\ b \in Entries[c] /\ buckets[b].version < arrays[c].version /\ b \in DOMAIN buckets
    BY <1>1, <1>4
  <2>2. arrays[c].ref > 0 /\ arrays'[c].ref <= arrays[c].ref
    <3>1. arrays[c].ref \in Nat /\ arrays'[c].ref <= arrays[c].ref
      BY <1>1, <2>1, ArrayIs DEF Types
    <3>2. arrays'[c].ref \in Nat
      BY RefIs DEF Types
    <3> QED
      BY <3>1, <3>2
  <2> DEFINE o == arrays[c].copyOf
  <2>3. o # 0 /\ b \in Entries[o]
    BY <2>1, <2>2 DEF From, Heap
  <2>4. o \in DOMAIN arrays /\ arrays[o].ref \in Nat /\ arrays'[c].copyOf = o
    BY <1>1, <2>1, <2>3, CopyIs DEF Types
  <2>5. arrays[o].ref # 0
    BY <2>1, <2>2, <2>4 DEF References, CopyOf
  <2>6. Entries'[o] = Entries[o]
    BY <1>2, <2>4, <2>5
  <2> QED
    BY <2>3, <2>4, <2>6
<1> QED
  BY <1>7, <1>8, <1>9, <1>10, <1>11, <1>12, <1>13

-----------------------------------------------------------------------------
(* A step that leaves the tables as they are, and all that is linked.      *)
Same ==
  /\ tables' = tables /\ DOMAIN arrays' = DOMAIN arrays /\ DOMAIN buckets' = DOMAIN buckets
  /\ \A c \in DOMAIN arrays :
       /\ arrays'[c].st = arrays[c].st /\ arrays'[c].buckets = arrays[c].buckets
       /\ arrays'[c].version = arrays[c].version /\ arrays'[c].empty = arrays[c].empty
       /\ arrays'[c].copyOf = arrays[c].copyOf /\ arrays'[c].ref <= arrays[c].ref
  /\ \A b \in DOMAIN buckets : buckets'[b].version = buckets[b].version /\ buckets'[b].st = buckets[b].st
  /\ Writable' \subseteq Writable

(* In such a step every array has the buckets it had.                      *)
LEMMA SameTables ==
  ASSUME Same
  PROVE  /\ Intact' = Intact /\ Entries' = Entries
         /\ \A c \in DOMAIN arrays : Table(c)' = Table(c)
<1>1. /\ tables' = tables /\ DOMAIN arrays' = DOMAIN arrays
      /\ \A c \in DOMAIN arrays : arrays'[c].buckets = arrays[c].buckets /\ arrays'[c].empty = arrays[c].empty
  BY DEF Same
<1>2. Intact' = Intact
  BY <1>1 DEF Intact
<1>3. \A c \in DOMAIN arrays : Table(c)' = Table(c)
  BY <1>1 DEF Table
<1>4. \A c \in DOMAIN arrays : Entries'[c] = Entries[c]
  <2> TAKE c \in DOMAIN arrays
  <2>1. Entries'[c] = IF c \in Intact THEN {Table(c)'[k] : k \in DOMAIN Table(c)'} \cup {arrays'[c].empty} ELSE {}
    BY <1>1, <1>2 DEF Entries
  <2>2. Entries[c] = IF c \in Intact THEN {Table(c)[k] : k \in DOMAIN Table(c)} \cup {arrays[c].empty} ELSE {}
    BY DEF Entries
  <2> QED
    BY <1>1, <1>3, <2>1, <2>2
<1>5. Entries' = Entries
  <2>2. Entries = [c \in DOMAIN arrays |-> Entries[c]]
    BY DEF Entries
  <2>3. Entries' = [c \in DOMAIN arrays |-> Entries'[c]]
    BY <1>1 DEF Entries
  <2> HIDE DEF Entries
  <2> QED
    BY <1>4, <2>2, <2>3
<1> QED
  BY <1>2, <1>3, <1>5

(* What is said of the buckets survives that too.                          *)
LEMMA SameHeap ==
  ASSUME Types, Types', Same, Heap, References
  PROVE  Apart' /\ Versions' /\ SameEmpty' /\ Owners' /\ Placed' /\ Shared' /\ From' /\ Alive'
<1>1. /\ DOMAIN arrays' = DOMAIN arrays /\ DOMAIN buckets' = DOMAIN buckets
      /\ \A c \in DOMAIN arrays :
           /\ arrays'[c].st = arrays[c].st /\ arrays'[c].buckets = arrays[c].buckets
           /\ arrays'[c].version = arrays[c].version /\ arrays'[c].empty = arrays[c].empty
           /\ arrays'[c].copyOf = arrays[c].copyOf /\ arrays'[c].ref <= arrays[c].ref
      /\ \A b \in DOMAIN buckets : buckets'[b].version = buckets[b].version /\ buckets'[b].st = buckets[b].st
      /\ Writable' \subseteq Writable
  BY DEF Same
<1>2. Intact' = Intact /\ Entries' = Entries /\ \A c \in DOMAIN arrays : Table(c)' = Table(c)
  BY SameTables
<1>3. Alive
  BY DEF Heap
<1>4. Shrink
  BY <1>1, <1>2, <1>3 DEF Shrink, Alive
<1>5. Apart' /\ Versions' /\ SameEmpty' /\ Owners' /\ Placed' /\ Shared' /\ From'
  BY <1>4, ShrinkHeap
<1>6. \A c \in DOMAIN arrays : arrays'[c].ref > 0 => arrays[c].ref > 0
  <2> TAKE c \in DOMAIN arrays
  <2>1. arrays'[c].ref \in Nat /\ arrays[c].ref \in Nat /\ arrays'[c].ref <= arrays[c].ref
    BY <1>1, RefIs, ArrayIs DEF Types
  <2> QED
    BY <2>1
<1>7. Alive'
  <2>1. \A c \in DOMAIN arrays : \A b \in Entries[c] : b \in DOMAIN buckets
    BY DEF Heap, Versions
  <2> QED
    BY <1>1, <1>2, <1>3, <1>6, <2>1 DEF Alive
<1> QED
  BY <1>5, <1>7

(* Nothing is linked anew and no bucket is written to.                     *)
LEMMA StillSame ==
  ASSUME Types, UNCHANGED <<arrays, tables, buckets>>, owned' \subseteq owned
  PROVE  Same
<1>1. \A c \in DOMAIN arrays : arrays'[c].ref <= arrays[c].ref
  <2> TAKE c \in DOMAIN arrays
  <2>1. arrays[c].ref \in Nat /\ arrays'[c].ref = arrays[c].ref
    BY ArrayIs DEF Types
  <2> QED
    BY <2>1
<1>2. Writable' \subseteq Writable
  BY DEF Writable
<1> QED
  BY <1>1, <1>2 DEF Same

(* The empty bucket stays empty if no live bucket is written to.           *)
LEMMA EmptiesKept ==
  ASSUME Types, Empties, \A c \in DOMAIN arrays : arrays'[c].empty = arrays[c].empty,
         DOMAIN arrays' = DOMAIN arrays,
         \A b \in DOMAIN buckets : buckets'[b] = buckets[b] \/ buckets'[b].st # "live"
  PROVE  Empties'
<1>1. \A c \in DOMAIN arrays : arrays[c].empty \in DOMAIN buckets
  BY ArrayIs DEF Types
<1> QED
  BY <1>1 DEF Empties

(* A step that changes no array, table or bucket.                          *)
LEMMA StillHeap ==
  ASSUME Types, Types', Heap, References, UNCHANGED <<arrays, tables, buckets>>, owned' \subseteq owned
  PROVE  Same /\ Heap'
<1>1. Same
  BY StillSame
<1>2. Empties'
  BY EmptiesKept DEF Heap
<1> QED
  BY <1>1, <1>2, SameHeap DEF Heap

(* The least of some numbers.                                              *)
LEMMA LeastIs ==
  ASSUME NEW S, S \subseteq Nat, S # {}
  PROVE  \E m \in S : \A k \in S : ~(k < m)
<1> DEFINE R == {pair \in Nat \X Nat : pair[1] < pair[2]}
<1>1. IsWellFoundedOn(R, Nat)
  BY NatLessThanWellFounded DEF OpToRel
<1>2. \A m, k \in Nat : m < k => <<m, k>> \in R
  OBVIOUS
<1> HIDE DEF R
<1>3. PICK m \in S : \A k \in S : ~ (<<k, m>> \in R)
  BY <1>1, WFMin
<1> QED
  BY <1>2, <1>3

(* An array that is referred to has no bucket of another that is not.      *)
LEMMA OnlyOwner ==
  ASSUME Types, Heap, References, NEW x \in DOMAIN arrays, arrays[x].ref = 0, NEW b, Own(x, b),
         NEW z \in DOMAIN arrays, b \in Entries[z]
  PROVE  arrays[z].ref = 0
<1> DEFINE T == {c \in DOMAIN arrays : b \in Entries[c] /\ arrays[c].ref # 0}
<1>1. SUFFICES ASSUME T # {}
               PROVE  FALSE
  OBVIOUS
<1>2. T \subseteq Nat
  BY ArrayIs DEF Types
<1>3. PICK c \in T : \A d \in T : ~(d < c)
  <2> HIDE DEF T
  <2> QED
    BY <1>1, <1>2, LeastIs
<1>4. c \in DOMAIN arrays /\ b \in Entries[c] /\ arrays[c].ref # 0 /\ arrays[c].ref \in Nat /\ c \in Nat
  BY ArrayIs DEF Types
<1>5. b \in DOMAIN buckets /\ buckets[b].version <= arrays[c].version
  BY <1>4 DEF Heap, Versions
<1>6. c # x
  BY <1>4
<1>7. buckets[b].version # arrays[c].version
  <2>1. buckets[b].version = arrays[c].version => Own(c, b)
    BY <1>4 DEF Own
  <2>2. b \in Entries[x]
    BY DEF Own
  <2>3. Own(x, b) /\ Own(c, b) => x = c
    BY <1>4, <2>2 DEF Heap, Owners
  <2> QED
    BY <1>6, <2>1, <2>3
<1>8. buckets[b].version < arrays[c].version /\ arrays[c].ref > 0
  BY <1>4, <1>5, <1>7, ArrayIs DEF Types
<1> DEFINE o == arrays[c].copyOf
<1>9. o # 0 /\ b \in Entries[o]
  BY <1>4, <1>8 DEF Heap, From
<1>10. o \in DOMAIN arrays /\ o \in Nat /\ o < c /\ arrays[o].ref \in Nat
  BY <1>4, <1>9, CopyIs, ArrayIs DEF Types
<1>11. arrays[o].ref # 0
  BY <1>4, <1>10 DEF References, CopyOf
<1>12. o \in T
  BY <1>9, <1>10, <1>11
<1> QED
  BY <1>3, <1>10, <1>12

-----------------------------------------------------------------------------
(* The references.                                                         *)
RefsOK(x) ==
  /\ x \in owned \/ Freed(x) =>
       /\ arrays[x].ref >= 1
       /\ \A c \in DOMAIN arrays : CopyOf(c, x) => arrays[x].ref >= 2
       /\ \A c, d \in DOMAIN arrays : CopyOf(c, x) /\ CopyOf(d, x) /\ c # d => arrays[x].ref >= 3
  /\ \A c, d \in DOMAIN arrays : CopyOf(c, x) /\ CopyOf(d, x) /\ c # d => arrays[x].ref >= 2
  /\ arrays[x].ref = 0 =>
       x \notin owned /\ \A c \in DOMAIN arrays : CopyOf(c, x) => arrays[c].ref = 0

(* The references, one array at a time.                                    *)
LEMMA RefsAll == References <=> \A x \in DOMAIN arrays : RefsOK(x)
BY DEF References, RefsOK

(* The references are right if counts and copies stay.                     *)
LEMMA RefsKept ==
  ASSUME References, DOMAIN arrays' = DOMAIN arrays, owned' \subseteq owned,
         \A c \in DOMAIN arrays : arrays'[c].ref = arrays[c].ref /\ arrays'[c].copyOf = arrays[c].copyOf,
         \A x \in DOMAIN arrays : Freed(x)' => x \in owned \/ Freed(x)
  PROVE  References'
<1>1. \A c, x \in DOMAIN arrays : CopyOf(c, x)' <=> CopyOf(c, x)
  BY DEF CopyOf
<1> QED
  BY <1>1 DEF References

(* No array is being freed for its copy, unless that is the only step.     *)
LEMMA NotFreed ==
  ASSUME Len(todo') # 1 \/ todo'[1].do # "free"
  PROVE  \A x \in DOMAIN arrays' : ~Freed(x)'
BY DEF Freed

(* What comes later is of three kinds.                                     *)
LEMMA LaterIs ==
  ASSUME NEW s, NEW rest, Later(s, rest)
  PROVE  s.do \in {"skip", "own", "discard"}
BY DEF Later, OwnStep, TableGone, ArrayGone, Discards

(* With nothing to be done nothing is being freed.                         *)
LEMMA NoTodo ==
  ASSUME todo' = <<>>
  PROVE  /\ Len(todo') = 0 /\ \A x \in DOMAIN arrays' : ~Freed(x)'
<1>1. Len(todo') = 0
  BY EmptySeq
<1> QED
  BY <1>1, NotFreed

(* A new array has one reference.                                          *)
LEMMA NewRefs ==
  ASSUME Types, References, NEW n \in 1..MaxBuckets, New(n)
  PROVE  References'
<1>z. PICK z : z = NewA
  OBVIOUS
<1>1. /\ DOMAIN arrays' = DOMAIN arrays \cup {z} /\ z \notin DOMAIN arrays /\ z \in Nat \ {0}
      /\ \A c \in DOMAIN arrays : c < z /\ arrays'[c] = arrays[c]
      /\ arrays'[z].ref = 1 /\ arrays'[z].copyOf = 0 /\ owned' = owned \cup {z} /\ todo' = <<>>
  BY <1>z, NewStep DEF ArraysAdded, OneMore
<1>2. \A x \in DOMAIN arrays' : ~Freed(x)'
  BY <1>1, NoTodo
<1>3. \A c \in DOMAIN arrays : c \in Nat /\ arrays[c].copyOf \in Nat /\ arrays[c].copyOf < c
  BY ArrayIs DEF Types
<1>4. \A c \in DOMAIN arrays' : ~CopyOf(c, z)'
  <2> SUFFICES ASSUME NEW c \in DOMAIN arrays', arrays'[c].copyOf = z
               PROVE  FALSE
    BY DEF CopyOf
  <2>1. CASE c = z
    BY <1>1, <2>1
  <2>2. CASE c # z
    <3>1. c \in DOMAIN arrays /\ arrays[c].copyOf = z
      BY <1>1, <2>2
    <3>2. z < c /\ c < z /\ c \in Nat
      BY <1>1, <1>3, <3>1
    <3> QED
      BY <1>1, <3>2
  <2> QED
    BY <2>1, <2>2
<1>5. \A c \in DOMAIN arrays' : \A x \in DOMAIN arrays :
        CopyOf(c, x)' => c \in DOMAIN arrays /\ CopyOf(c, x) /\ arrays'[c].ref = arrays[c].ref
  <2> SUFFICES ASSUME NEW c \in DOMAIN arrays', NEW x \in DOMAIN arrays, arrays'[c].copyOf = x
               PROVE  c \in DOMAIN arrays /\ CopyOf(c, x) /\ arrays'[c].ref = arrays[c].ref
    BY DEF CopyOf
  <2>1. c # z
    BY <1>1, <1>3
  <2> QED
    BY <1>1, <2>1 DEF CopyOf
<1>6. RefsOK(z)'
  <2>1. arrays'[z].ref >= 1 /\ arrays'[z].ref # 0
    BY <1>1
  <2> QED
    BY <1>4, <2>1 DEF RefsOK
<1>7. \A x \in DOMAIN arrays : RefsOK(x)'
  <2> TAKE x \in DOMAIN arrays
  <2>1. RefsOK(x)
    BY RefsAll
  <2>2. arrays'[x] = arrays[x] /\ x # z /\ (x \in owned' => x \in owned) /\ ~Freed(x)'
    BY <1>1, <1>2
  <2> QED
    BY <1>5, <2>1, <2>2 DEF RefsOK
<1> QED
  BY <1>1, <1>6, <1>7 DEF References, RefsOK

(* A copy has one reference, and its original one more.                    *)
LEMMA CopyRefs ==
  ASSUME Types, References, NEW a, LazyCopy(a), arrays[a].buckets # 0
  PROVE  References'
<1>z. PICK z : z = NewA
  OBVIOUS
<1>1. PICK q : q = arrays[a]
  OBVIOUS
<1>2. /\ DOMAIN arrays' = DOMAIN arrays \cup {z} /\ z \notin DOMAIN arrays /\ z \in Nat \ {0}
      /\ \A c \in DOMAIN arrays : c < z
      /\ \A c \in DOMAIN arrays : c # a => arrays'[c] = arrays[c]
      /\ arrays'[a].ref = arrays[a].ref + 1 /\ arrays'[a].copyOf = arrays[a].copyOf
      /\ arrays'[z].ref = 1 /\ arrays'[z].copyOf = a /\ owned' = owned \cup {z} /\ todo' = <<>>
      /\ a \in owned /\ a \in DOMAIN arrays
  <2>1. q.buckets # 0
    BY <1>1
  <2>2. ArraysAdded /\ OneMore(contents[a]) /\ todo' = <<>> /\ a \in owned /\ a \in DOMAIN arrays
    BY <1>1, <2>1, CopyStep
  <2>3. /\ \A c \in DOMAIN arrays : c # a => arrays'[c] = arrays[c]
        /\ arrays'[a].ref = q.ref + 1 /\ arrays'[a].copyOf = q.copyOf
        /\ arrays'[NewA].ref = 1 /\ arrays'[NewA].copyOf = a
    BY <1>1, <2>1, CopyStep
  <2> QED
    BY <1>z, <1>1, <2>2, <2>3 DEF ArraysAdded, OneMore
<1>3. \A x \in DOMAIN arrays' : ~Freed(x)'
  BY <1>2, NoTodo
<1>4. \A c \in DOMAIN arrays : c \in Nat /\ arrays[c].copyOf \in Nat /\ arrays[c].copyOf < c /\ arrays[c].ref \in Nat
  BY ArrayIs DEF Types
<1>5. \A c \in DOMAIN arrays : arrays'[c].copyOf = arrays[c].copyOf
  BY <1>2
<1>6. \A c \in DOMAIN arrays' : ~CopyOf(c, z)'
  <2> SUFFICES ASSUME NEW c \in DOMAIN arrays', arrays'[c].copyOf = z
               PROVE  FALSE
    BY DEF CopyOf
  <2>1. CASE c = z
    BY <1>2, <2>1
  <2>2. CASE c # z
    <3>1. c \in DOMAIN arrays /\ arrays[c].copyOf = z
      BY <1>2, <1>5, <2>2
    <3>2. z < c /\ c < z /\ c \in Nat
      BY <1>2, <1>4, <3>1
    <3> QED
      BY <1>2, <3>2
  <2> QED
    BY <2>1, <2>2
<1>7. \A c \in DOMAIN arrays' : \A x \in DOMAIN arrays :
        CopyOf(c, x)' => (c = z /\ x = a) \/ (c \in DOMAIN arrays /\ CopyOf(c, x))
  BY <1>2, <1>5 DEF CopyOf
<1>8. RefsOK(z)'
  <2>1. arrays'[z].ref >= 1 /\ arrays'[z].ref # 0
    BY <1>2
  <2> QED
    BY <1>6, <2>1 DEF RefsOK
<1>9. RefsOK(a)'
  <2>1. RefsOK(a)
    BY <1>2, RefsAll
  <2>2. arrays[a].ref >= 1 /\ arrays[a].ref \in Nat
    BY <1>2, <1>4, <2>1 DEF RefsOK
  <2>3. arrays'[a].ref >= 2 /\ arrays'[a].ref >= 1 /\ arrays'[a].ref # 0
    BY <1>2, <2>2
  <2>4. \A c, d \in DOMAIN arrays' : CopyOf(c, a)' /\ CopyOf(d, a)' /\ c # d => arrays[a].ref >= 2
    <3> SUFFICES ASSUME NEW c \in DOMAIN arrays', NEW d \in DOMAIN arrays', CopyOf(c, a)', CopyOf(d, a)', c # d
                 PROVE  arrays[a].ref >= 2
      OBVIOUS
    <3>1. (c \in DOMAIN arrays /\ CopyOf(c, a)) \/ (d \in DOMAIN arrays /\ CopyOf(d, a))
      BY <1>2, <1>7
    <3> QED
      BY <1>2, <2>1, <3>1 DEF RefsOK
  <2>5. arrays[a].ref >= 2 => arrays'[a].ref >= 3
    BY <1>2, <2>2
  <2> QED
    BY <2>3, <2>4, <2>5 DEF RefsOK
<1>10. \A x \in DOMAIN arrays \ {a} : RefsOK(x)'
  <2> TAKE x \in DOMAIN arrays \ {a}
  <2>1. RefsOK(x) /\ RefsOK(a)
    BY <1>2, RefsAll
  <2>2. arrays'[x] = arrays[x] /\ x # z /\ (x \in owned' => x \in owned) /\ ~Freed(x)'
    BY <1>2, <1>3
  <2>3. \A c \in DOMAIN arrays' : CopyOf(c, x)' => c \in DOMAIN arrays /\ CopyOf(c, x)
    BY <1>7
  <2>4. arrays[x].ref = 0 => \A c \in DOMAIN arrays' : CopyOf(c, x)' => arrays'[c].ref = 0
    <3> SUFFICES ASSUME arrays[x].ref = 0, NEW c \in DOMAIN arrays', CopyOf(c, x)'
                 PROVE  arrays'[c].ref = 0
      OBVIOUS
    <3>1. c \in DOMAIN arrays /\ arrays[c].ref = 0
      BY <2>1, <2>3 DEF RefsOK
    <3>2. arrays[a].ref # 0
      BY <1>2, <2>1 DEF RefsOK
    <3> QED
      BY <1>2, <3>1, <3>2
  <2> QED
    BY <2>1, <2>2, <2>3, <2>4 DEF RefsOK
<1> QED
  BY <1>2, <1>8, <1>9, <1>10 DEF References, RefsOK

(* An array that loses a reference has the others it should have.          *)
LEMMA FreeRefs ==
  ASSUME Types, Types', References, NEW x \in DOMAIN arrays, DOMAIN arrays' = DOMAIN arrays, owned' = owned,
         x \notin owned, arrays[x].ref >= 1,
         arrays'[x].ref = arrays[x].ref - 1, Others(x), arrays'[x].copyOf = arrays[x].copyOf,
         \A y \in DOMAIN arrays : ~Freed(y)',
         Freed(x) \/ (arrays[x].ref = 1 /\ \E c \in DOMAIN arrays : CopyOf(c, x) /\ arrays[c].ref = 0)
  PROVE  References'
<1>1. \A c \in DOMAIN arrays : arrays'[c].copyOf = arrays[c].copyOf /\ (c # x => arrays'[c].ref = arrays[c].ref)
  BY DEF Others
<1>2. \A c, y \in DOMAIN arrays : CopyOf(c, y)' <=> CopyOf(c, y)
  BY <1>1 DEF CopyOf
<1>3. RefsOK(x) /\ arrays[x].ref \in Nat
  BY RefsAll, ArrayIs DEF Types
<1>4. RefsOK(x)'
  <2>1. \A c, d \in DOMAIN arrays : CopyOf(c, x) /\ CopyOf(d, x) /\ c # d => arrays'[x].ref >= 2
    <3>1. CASE Freed(x)
      BY <1>3, <3>1 DEF RefsOK
    <3>2. CASE arrays[x].ref = 1
      BY <1>3, <3>2 DEF RefsOK
    <3> QED
      BY <3>1, <3>2
  <2>2. arrays'[x].ref = 0 => \A c \in DOMAIN arrays : CopyOf(c, x) => arrays[c].ref = 0
    <3> SUFFICES ASSUME arrays'[x].ref = 0, NEW c \in DOMAIN arrays, CopyOf(c, x)
                 PROVE  arrays[c].ref = 0
      OBVIOUS
    <3>1. arrays[x].ref = 1
      BY <1>3
    <3>2. ~Freed(x)
      BY <1>3, <3>1 DEF RefsOK
    <3>3. PICK d \in DOMAIN arrays : CopyOf(d, x) /\ arrays[d].ref = 0
      BY <3>2
    <3>4. c = d
      BY <1>3, <3>1, <3>3 DEF RefsOK
    <3> QED
      BY <3>3, <3>4
  <2>3. arrays'[x].ref = 0 => \A c \in DOMAIN arrays : CopyOf(c, x) => arrays'[c].ref = 0
    BY <1>1, <2>2
  <2> QED
    BY <1>2, <2>1, <2>3 DEF RefsOK
<1>5. \A y \in DOMAIN arrays \ {x} : RefsOK(y)'
  <2> TAKE y \in DOMAIN arrays \ {x}
  <2>1. RefsOK(y)
    BY RefsAll
  <2>2. arrays'[y].ref = arrays[y].ref
    BY <1>1
  <2>3. arrays[y].ref = 0 => \A c \in DOMAIN arrays : CopyOf(c, y) => arrays'[c].ref = 0
    <3> SUFFICES ASSUME arrays[y].ref = 0, NEW c \in DOMAIN arrays, CopyOf(c, y)
                 PROVE  arrays'[c].ref = 0
      OBVIOUS
    <3>1. arrays[c].ref = 0
      BY <2>1 DEF RefsOK
    <3>2. c # x
      BY <1>3, <3>1
    <3> QED
      BY <1>1, <3>1, <3>2
  <2> QED
    BY <1>2, <2>1, <2>2, <2>3 DEF RefsOK
<1> QED
  BY <1>4, <1>5 DEF References, RefsOK

-----------------------------------------------------------------------------
(* What is to be done later.                                               *)
LEMMA OwnSame ==
  ASSUME Same, NEW a \in DOMAIN arrays, NEW b \in DOMAIN buckets
  PROVE  Own(a, b)' <=> Own(a, b)
BY SameTables DEF Own, Same

(* The buckets of an array are buckets, and it has its table.              *)
LEMMA OwnIn ==
  ASSUME Types, Heap, NEW a \in DOMAIN arrays, NEW b
  PROVE  b \in Entries[a] => b \in DOMAIN buckets /\ a \in Intact /\ arrays[a].buckets \in DOMAIN tables
<1>1. b \in Entries[a] => b \in DOMAIN buckets /\ a \in Intact
  BY EntriesNone DEF Heap, Versions
<1>2. a \in Intact => arrays[a].buckets \in DOMAIN tables
  BY EntriesIs DEF Types
<1> QED
  BY <1>1, <1>2

(* A later step stays right if what is linked stays.                       *)
LEMMA LaterSame ==
  ASSUME Types, Types', Heap, Same, NEW s, NEW rest, Later(s, rest)
  PROVE  Later(s, rest)'
<1>1. /\ DOMAIN arrays' = DOMAIN arrays /\ DOMAIN buckets' = DOMAIN buckets /\ tables' = tables
      /\ \A c \in DOMAIN arrays : arrays'[c].st = arrays[c].st /\ arrays'[c].buckets = arrays[c].buckets
      /\ \A b \in DOMAIN buckets : buckets'[b].st = buckets[b].st
      /\ Entries' = Entries
  BY SameTables DEF Same
<1>2. \A c \in DOMAIN arrays : arrays[c].ref = 0 => arrays'[c].ref = 0
  <2> TAKE c \in DOMAIN arrays
  <2>1. arrays'[c].ref \in Nat /\ arrays'[c].ref <= arrays[c].ref
    BY <1>1, RefIs DEF Types, Same
  <2> QED
    BY <2>1
<1>3. CASE s.do = "skip"
  BY <1>3 DEF Later
<1>4. CASE OwnStep(s, rest)
  <2>1. s.a \in DOMAIN arrays /\ s.id \in Entries[s.a] /\ s.id \in DOMAIN buckets
    BY <1>4, OwnIn DEF OwnStep
  <2>2. Own(s.a, s.id)' <=> Own(s.a, s.id)
    BY <2>1, OwnSame
  <2>3. OwnStep(s, rest)'
    BY <1>1, <1>2, <1>4, <2>1, <2>2 DEF OwnStep
  <2> QED
    BY <2>3 DEF Later
<1>5. CASE TableGone(s, rest)
  <2>1. TableGone(s, rest)'
    BY <1>1, <1>2, <1>5 DEF TableGone
  <2> QED
    BY <2>1 DEF Later
<1>6. CASE ArrayGone(s, rest)
  <2>1. ArrayGone(s, rest)'
    BY <1>1, <1>2, <1>6 DEF ArrayGone
  <2> QED
    BY <2>1 DEF Later
<1> QED
  BY <1>3, <1>4, <1>5, <1>6 DEF Later

(* All steps but the first are of those that come later.                   *)
LEMMA RestIs ==
  ASSUME ProgramOK, Freeing, NEW k \in 2..Len(todo)
  PROVE  /\ todo[k] \in After(1) /\ After(k) \subseteq After(1) /\ Later(todo[k], After(k))
         /\ todo[k] \in StepType
<1>1. Len(todo) \in Nat /\ \A j \in 1..Len(todo) : todo[j] \in StepType
  BY TodoIs
<1>2. k \in 1..Len(todo) /\ k \in (1 + 1)..Len(todo) /\ k # 1
  BY <1>1
<1>3. After(k) \subseteq After(1)
  <2>1. \A j \in (k + 1)..Len(todo) : j \in (1 + 1)..Len(todo)
    BY <1>1
  <2> QED
    BY <2>1 DEF After
<1> QED
  BY <1>1, <1>2, <1>3 DEF After, Freeing

(* Each of them is right with some of those behind it.                     *)
LEMMA LaterOnes ==
  ASSUME ProgramOK, Freeing, NEW s \in After(1)
  PROVE  \E rest \in SUBSET After(1) : Later(s, rest) /\ s \in StepType
<1>1. PICK k \in (1 + 1)..Len(todo) : s = todo[k]
  BY DEF After
<1>2. k \in 2..Len(todo)
  OBVIOUS
<1> QED
  BY <1>1, <1>2, RestIs

(* When the first is done the rest of the list is right.                   *)
LEMMA FreeingPopped ==
  ASSUME ProgramOK, todo # <<>>, Freeing, Popped,
         \A s \in After(1) : \A rest \in SUBSET After(1) : Later(s, rest) => Later(s, rest)'
  PROVE  Freeing' /\ \A x \in DOMAIN arrays' : ~Freed(x)'
<1>1. Len(todo) \in Nat /\ Len(todo') = Len(todo) - 1 /\ \A i \in 1..Len(todo') : todo'[i] = todo[i + 1]
  BY TodoIs DEF Popped
<1>2. ASSUME NEW i \in 1..Len(todo')
      PROVE  Later(todo[i], After(i))' /\ todo'[i].do # "free"
  <2>1. i + 1 \in 2..Len(todo) /\ todo'[i] = todo[i + 1]
    BY <1>1
  <2>2. Later(todo[i + 1], After(i + 1)) /\ todo[i + 1] \in After(1) /\ After(i + 1) \subseteq After(1)
    BY <2>1, RestIs
  <2>3. PICK s, rest : s = todo[i + 1] /\ rest = After(i + 1)
    OBVIOUS
  <2>4. Later(s, rest)'
    BY <2>2, <2>3
  <2>5. rest = {todo'[j] : j \in (i + 1)..Len(todo')}
    <3>1. \A j \in (i + 1)..Len(todo') : j + 1 \in ((i + 1) + 1)..Len(todo) /\ todo'[j] = todo[j + 1]
      BY <1>1
    <3>2. \A j \in ((i + 1) + 1)..Len(todo) : j - 1 \in (i + 1)..Len(todo') /\ todo'[j - 1] = todo[j]
      BY <1>1
    <3>3. rest = {todo[j] : j \in ((i + 1) + 1)..Len(todo)}
      BY <2>3 DEF After
    <3>4. \A e \in rest : e \in {todo'[j] : j \in (i + 1)..Len(todo')}
      <4> TAKE e \in rest
      <4>1. PICK j \in ((i + 1) + 1)..Len(todo) : e = todo[j]
        BY <3>3
      <4>2. j - 1 \in (i + 1)..Len(todo') /\ todo'[j - 1] = e
        BY <3>2, <4>1
      <4> QED
        BY <4>2
    <3>5. \A e \in {todo'[j] : j \in (i + 1)..Len(todo')} : e \in rest
      <4> TAKE e \in {todo'[j] : j \in (i + 1)..Len(todo')}
      <4>1. PICK j \in (i + 1)..Len(todo') : e = todo'[j]
        OBVIOUS
      <4>2. j + 1 \in ((i + 1) + 1)..Len(todo) /\ todo[j + 1] = e
        BY <3>1, <4>1
      <4> QED
        BY <3>3, <4>2
    <3> QED
      BY <3>4, <3>5
  <2>6. s.do # "free"
    BY <2>2, <2>3, LaterIs
  <2>7. s = todo'[i] /\ rest = After(i)'
    BY <2>1, <2>3, <2>5 DEF After
  <2>8. Later(todo[i], After(i))'
    BY <2>4, <2>7 DEF Later, OwnStep, TableGone, ArrayGone, Discards, Own
  <2> QED
    BY <2>6, <2>7, <2>8
<1>3. Freeing'
  BY <1>2 DEF Freeing
<1>4. Len(todo') # 1 \/ todo'[1].do # "free"
  BY <1>1, <1>2
<1> QED
  BY <1>3, <1>4, NotFreed

-----------------------------------------------------------------------------
(* Where an element is, before and after a step.                           *)
GetFact ==
  ArraysOK /\ TablesOK /\ BucketsOK =>
    \A a \in Intact, i \in Index :
      arrays[a].st = "live" /\ (\A b \in Entries[a] : buckets[b].st = "live") =>
        /\ BucketAt(a, i) \in Entries[a]
        /\ Get(a, i) = buckets[BucketAt(a, i)].elems[i % BucketSize]

(* What is read, before a step.                                            *)
LEMMA GetNow == GetFact
BY GetIs DEF GetFact

(* What is read, after it.                                                 *)
LEMMA GetThen == GetFact'
BY GetNow, PTL

EntriesFact ==
  ArraysOK /\ TablesOK /\ BucketsOK =>
    \A a \in Intact :
         /\ a \in DOMAIN arrays /\ arrays[a].buckets \in DOMAIN tables
         /\ Table(a) \in Seq(Nat) /\ Len(Table(a)) \in Nat \ {0}
         /\ DOMAIN Table(a) = 1..Len(Table(a)) /\ \A k \in DOMAIN Table(a) : Table(a)[k] \in Entries[a]
         /\ arrays[a].empty \in Entries[a]
         /\ \A b \in Entries[a] : b = arrays[a].empty \/ \E k \in DOMAIN Table(a) : b = Table(a)[k]

(* The buckets of an array, before a step.                                 *)
LEMMA EntriesNow == EntriesFact
BY EntriesIs DEF EntriesFact

(* The buckets of an array, after it.                                      *)
LEMMA EntriesThen == EntriesFact'
BY EntriesNow, PTL

(* The arrays of the program are whole.                                    *)
Whole(a) ==
  /\ a \in DOMAIN arrays /\ arrays[a].ref >= 1 /\ arrays[a].st = "live" /\ a \in Intact
  /\ \A b \in Entries[a] : buckets[b].st = "live"
WholeFact ==
  ArraysOK /\ TablesOK /\ BucketsOK /\ ProgramOK /\ Alive /\ References => \A a \in owned : Whole(a)

(* The arrays of the program are whole, before a step.                     *)
LEMMA WholeNow == WholeFact
<1> SUFFICES ASSUME ArraysOK, TablesOK, BucketsOK, ProgramOK, Alive, References, NEW a \in owned
             PROVE  Whole(a)
  BY DEF WholeFact
<1>1. a \in DOMAIN arrays
  BY DEF ProgramOK
<1>2. arrays[a].ref >= 1 /\ arrays[a].ref \in Nat
  BY <1>1, ArrayIs DEF References
<1> QED
  BY <1>1, <1>2 DEF Alive, Whole

(* The arrays of the program are whole, after it.                          *)
LEMMA WholeThen == WholeFact'
BY WholeNow, PTL

(* An array with the buckets and elements it had holds what it held.       *)
LEMMA GetSame ==
  ASSUME Types, Types', NEW a, NEW i \in Index, Whole(a), Whole(a)',
         Table(a)' = Table(a), arrays'[a].empty = arrays[a].empty,
         \A b \in Entries[a] : buckets'[b].elems = buckets[b].elems
  PROVE  Get(a, i)' = Get(a, i)
<1>1. /\ BucketAt(a, i) \in Entries[a]
      /\ Get(a, i) = buckets[BucketAt(a, i)].elems[i % BucketSize]
  BY GetNow DEF GetFact, Whole, Types
<1>2. Get(a, i)' = buckets'[BucketAt(a, i)'].elems[i % BucketSize]
  BY GetThen DEF GetFact, Whole, Types
<1>3. BucketAt(a, i)' = BucketAt(a, i)
  BY DEF BucketAt, K
<1> QED
  BY <1>1, <1>2, <1>3

(* One element is written at a time, and not while something is freed.     *)
LEMMA WritingIs ==
  ASSUME ProgramOK, NEW a, NEW i, NEW v, Writing(a, i, v)
  PROVE  Len(todo) \in 1..5 /\ todo[Len(todo)] = ElementStep(a, i, v)
BY DEF Writing, WriteSize, WriteInstall, WriteDiscard, WriteBucket, WriteElement

(* Only one element is being written.                                      *)
LEMMA WritingOne ==
  ASSUME ProgramOK, NEW a, NEW i, NEW v, Writing(a, i, v)
  PROVE  /\ \A c, j, w : Writing(c, j, w) => c = a /\ j = i /\ w = v
         /\ ~Freeing /\ todo # <<>>
<1>1. Len(todo) \in 1..5 /\ todo[Len(todo)] = ElementStep(a, i, v)
  BY WritingIs
<1>2. ASSUME NEW c, NEW j, NEW w, Writing(c, j, w)
      PROVE  c = a /\ j = i /\ w = v
  <2>1. todo[Len(todo)] = ElementStep(c, j, w)
    BY <1>2, WritingIs
  <2> QED
    BY <1>1, <2>1 DEF ElementStep
<1>3. todo[Len(todo)].do = "element" /\ Len(todo) \in 1..Len(todo)
  <2>1. PICK n : n = Len(todo)
    OBVIOUS
  <2>2. n \in 1..n /\ todo[n] = ElementStep(a, i, v)
    BY <1>1, <2>1
  <2>3. ElementStep(a, i, v).do = "element"
    BY DEF ElementStep
  <2> QED
    BY <2>1, <2>2, <2>3
<1>4. ~Freeing
  <2>1. ASSUME NEW s, NEW rest, Later(s, rest) \/ FreeStep(s, rest) \/ BucketGone(s, rest)
        PROVE  s.do # "element"
    BY <2>1, LaterIs DEF FreeStep, BucketGone, Discards
  <2> QED
    BY <1>3, <2>1 DEF Freeing
<1>5. todo # <<>>
  BY <1>1, EmptySeq
<1> QED
  BY <1>2, <1>4, <1>5

(* The contents are right if buckets and elements stay.                    *)
LEMMA ContentKept ==
  ASSUME Types, Types', Alive, Alive', References, References', Content,
         owned' \subseteq owned, contents' = contents,
         \A a \in owned' : Table(a)' = Table(a) /\ arrays'[a].empty = arrays[a].empty,
         \A a \in owned' : \A b \in Entries[a] : buckets'[b].elems = buckets[b].elems,
         Freeing \/ \E a, i, v : Writing(a, i, v) /\ Writing(a, i, v)' /\ v \in Value
  PROVE  Content'
<1> SUFFICES ASSUME NEW a \in owned', NEW i \in Index
             PROVE  Get(a, i)' = contents'[a][i] \/ \E v \in Value : Writing(a, i, v)'
  BY DEF Content
<1>1. Whole(a) /\ Whole(a)'
  BY WholeNow, WholeThen DEF WholeFact, Types
<1>2. Get(a, i)' = Get(a, i)
  BY <1>1, GetSame
<1>3. CASE Get(a, i) = contents[a][i]
  BY <1>2, <1>3
<1>4. CASE Get(a, i) # contents[a][i]
  <2>1. PICK v \in Value : Writing(a, i, v)
    BY <1>4 DEF Content
  <2>2. ~Freeing /\ \A c, j, w : Writing(c, j, w) => c = a /\ j = i /\ w = v
    BY <2>1, WritingOne DEF Types
  <2>3. PICK c, j, w : Writing(c, j, w) /\ Writing(c, j, w)' /\ w \in Value
    BY <2>2
  <2>4. c = a /\ j = i /\ w = v
    BY <2>2, <2>3
  <2>5. Writing(a, i, v)'
    BY <2>3, <2>4
  <2> QED
    BY <2>5
<1> QED
  BY <1>3, <1>4

-----------------------------------------------------------------------------
(* The readers.                                                            *)
ReadIs(r) ==
  /\ reads[r].array # 0 => contents[reads[r].array][reads[r].index] \in reads[r].right
  /\ reads[r].at # "idle" /\ ~reads[r].changed => ReadOK(r)
  /\ reads[r].at = "idle" /\ ~reads[r].changed => reads[r].got \in reads[r].right

(* Of a reader that is told of a change nothing need be shown.             *)
LEMMA ReadersChanged ==
  ASSUME Types, Readers, SameReads, contents' = contents,
         \A r \in Reader : reads[r].at # "idle" => reads'[r].changed
  PROVE  Readers'
<1>1. \A r \in Reader : reads[r].changed \in BOOLEAN
  BY DEF Types, ReadsOK, ReadType
<1> QED
  BY <1>1 DEF Readers, SameReads

MoreReads ==
  \A r \in Reader : /\ reads'[r].at = reads[r].at /\ reads'[r].array = reads[r].array
                    /\ reads'[r].index = reads[r].index /\ reads'[r].ptr = reads[r].ptr
                    /\ reads'[r].got = reads[r].got /\ reads[r].right \subseteq reads'[r].right
                    /\ reads[r].changed => reads'[r].changed
                    /\ reads[r].array # 0 => contents'[reads[r].array][reads[r].index] \in reads'[r].right

(* Readers are right if what they read stays; more values may be right.    *)
LEMMA ReadersMore ==
  ASSUME Types, Types', Readers, Same, Heap, MoreReads, buckets' = buckets,
         \A r \in Reader : reads[r].at # "idle" /\ ~reads'[r].changed
                             => arrays'[reads[r].array].size = arrays[reads[r].array].size
  PROVE  Readers'
<1> SUFFICES ASSUME NEW r \in Reader
             PROVE  ReadIs(r)'
  BY DEF Readers, ReadIs
<1>1. ReadIs(r) /\ reads[r].changed \in BOOLEAN /\ reads'[r].changed \in BOOLEAN
  BY DEF Readers, ReadIs, Types, ReadsOK, ReadType
<1>2. /\ reads'[r].at = reads[r].at /\ reads'[r].array = reads[r].array
      /\ reads'[r].index = reads[r].index /\ reads'[r].ptr = reads[r].ptr
      /\ reads[r].right \subseteq reads'[r].right /\ reads'[r].got = reads[r].got
      /\ reads[r].changed => reads'[r].changed
      /\ reads[r].array # 0 => contents'[reads[r].array][reads[r].index] \in reads'[r].right
  BY DEF MoreReads
<1>3. ASSUME reads[r].at # "idle", ~reads'[r].changed
      PROVE  ReadOK(r)'
  <2>1. PICK a, i, b : a = reads[r].array /\ i = reads[r].index /\ b = reads[r].ptr
    OBVIOUS
  <2>2. ReadOK(r)
    BY <1>1, <1>2, <1>3 DEF ReadIs
  <2>3. /\ a \in Intact /\ a \in DOMAIN arrays /\ i \in Index /\ arrays[a].st = "live"
        /\ Len(Table(a)) = arrays[a].size /\ \A e \in Entries[a] : buckets[e].st = "live"
    BY <1>3, <2>1, <2>2 DEF ReadOK, Types, ReadsOK, Intact
  <2>4. /\ arrays'[a].st = arrays[a].st /\ arrays'[a].buckets = arrays[a].buckets
        /\ arrays'[a].empty = arrays[a].empty /\ arrays'[a].size = arrays[a].size
        /\ Intact' = Intact /\ Entries' = Entries /\ Table(a)' = Table(a)
        /\ tables' = tables /\ Writable' \subseteq Writable
    BY <1>3, <2>1, <2>3, SameTables DEF Same
  <2>5. Get(a, i)' = Get(a, i)
    BY <2>4 DEF Get
  <2>6. ASSUME NEW x \in Writable', Own(x, b)', b # arrays'[x].empty
        PROVE  x \in Writable /\ Own(x, b) /\ b # arrays[x].empty
    <3>1. x \in Writable /\ x \in DOMAIN arrays
      BY <2>4, <2>6, WritableIs DEF Types
    <3>2. b \in Entries[x]
      BY <2>4, <2>6 DEF Own
    <3>3. b \in DOMAIN buckets
      BY <3>1, <3>2, OwnIn
    <3>4. Own(x, b)
      BY <2>6, <3>1, <3>3, OwnSame
    <3> QED
      BY <2>6, <3>1, <3>4 DEF Same
  <2> QED
    BY <1>2, <2>1, <2>2, <2>3, <2>4, <2>5, <2>6 DEF ReadOK
<1> QED
  BY <1>1, <1>2, <1>3 DEF ReadIs

(* Readers are right if what they read stays.                              *)
LEMMA ReadersSame ==
  ASSUME Types, Types', Readers, Same, Heap, SameReads, contents' = contents, buckets' = buckets,
         \A r \in Reader : reads[r].at # "idle" /\ ~reads'[r].changed
                             => arrays'[reads[r].array].size = arrays[reads[r].array].size
  PROVE  Readers'
<1>1. MoreReads
  BY DEF MoreReads, SameReads, Readers
<1> QED
  BY <1>1, ReadersMore

-----------------------------------------------------------------------------
(* The invariant is kept.  First by the steps that link nothing anew.      *)
LEMMA InvParts ==
  ASSUME Inv
  PROVE  /\ Types /\ Heap /\ References /\ Sizes /\ Steps /\ Content /\ Readers
         /\ ArraysOK /\ TablesOK /\ BucketsOK /\ ProgramOK /\ ReadsOK
         /\ Apart /\ Versions /\ SameEmpty /\ Owners /\ Placed /\ Shared /\ From /\ Alive /\ Empties
BY DEF Inv, Heap, Types

(* Sizes are right if tables and sizes stay.                               *)
LEMMA SizesKept ==
  ASSUME Sizes, todo = <<>> \/ todo[1].do # "install",
         \A c \in Intact' : c \in Intact /\ Len(Table(c))' = Len(Table(c)) /\ arrays'[c].size = arrays[c].size
  PROVE  Sizes'
BY DEF Sizes, Growing

(* When nothing is being done no array is being freed.                     *)
LEMMA IdleFreeing ==
  ASSUME todo = <<>>
  PROVE  Freeing
<1>1. Len(todo) = 0
  BY EmptySeq
<1> QED
  BY <1>1 DEF Freeing

(* sarray_free () is called.                                               *)
LEMMA FreeKeeps ==
  ASSUME Inv, NEW a, Free(a)
  PROVE  Inv'
<1>0. /\ Types /\ Heap /\ References /\ Sizes /\ Steps /\ Content /\ Readers /\ Alive /\ ReadsOK
  BY InvParts
<1>1. /\ Types' /\ todo = <<>> /\ UNCHANGED <<arrays, tables, buckets, contents, reads>>
      /\ a \in owned /\ a \in DOMAIN arrays /\ owned' = owned \ {a}
      /\ Len(todo') = 1 /\ todo'[1] = FreeOne(a)
  BY <1>0, FreeCall DEF FreeOne
<1>2. Same /\ Heap'
  BY <1>0, <1>1, StillHeap
<1>3. Intact' = Intact /\ \A c \in DOMAIN arrays : Table(c)' = Table(c)
  BY <1>2, SameTables
<1>4. todo'[1].do = "free" /\ todo'[1].a = a
  BY <1>1 DEF FreeOne
<1>5. References'
  BY <1>0, <1>1, <1>4, RefsKept DEF Freed
<1>6. Sizes'
  BY <1>0, <1>1, <1>3, SizesKept DEF Intact
<1>7. Steps'
  <2>1. After(1)' = {}
    BY <1>1 DEF After
  <2>2. arrays[a].ref >= 1
    BY <1>0, <1>1 DEF References
  <2>3. FreeStep(todo[1], After(1))'
    BY <1>1, <1>4, <2>1, <2>2 DEF FreeStep
  <2>4. \A i \in 1..Len(todo') : i = 1
    BY <1>1
  <2>5. Freeing'
    BY <2>3, <2>4 DEF Freeing
  <2> QED
    BY <2>5 DEF Steps
<1>8. Alive' /\ Alive
  BY <1>0, <1>2 DEF Heap
<1>9. Content'
  <2>1. Freeing
    BY <1>1, IdleFreeing
  <2>2. \A c \in owned' : c \in DOMAIN arrays
    BY <1>0, <1>1 DEF Types, ProgramOK
  <2> QED
    BY <1>0, <1>1, <1>3, <1>5, <1>8, <2>1, <2>2, ContentKept
<1>10. Readers'
  <2>1. SameReads
    BY <1>1 DEF SameReads
  <2> QED
    BY <1>0, <1>1, <1>2, <2>1, ReadersSame
<1> QED
  BY <1>1, <1>2, <1>5, <1>6, <1>7, <1>9, <1>10 DEF Inv

(* sarray_at_put_safe () is called: the element may be wrong until it is   *)
(* done.                                                                   *)
LEMMA PutKeeps ==
  ASSUME Inv, NEW a \in DOMAIN arrays, NEW i \in Index, NEW v \in Value, AtPut(a, i, v)
  PROVE  Inv'
<1>0. /\ Types /\ Heap /\ References /\ Sizes /\ Steps /\ Content /\ Readers /\ Alive /\ ProgramOK
  BY InvParts
<1>1. /\ Types' /\ todo = <<>> /\ UNCHANGED <<arrays, tables, buckets, owned>>
      /\ a \in Writable /\ Rights(a, i, v)
      /\ contents'[a][i] = v /\ \A j \in Index : j # i => contents'[a][j] = contents[a][j]
      /\ \A c \in DOMAIN arrays : c # a => contents'[c] = contents[c]
      /\ PutForm(todo', a, i, v)
  BY <1>0, PutStep
<1>2. Same /\ Heap'
  BY <1>0, <1>1, StillHeap
<1>3. Intact' = Intact /\ \A c \in DOMAIN arrays : Table(c)' = Table(c)
  BY <1>2, SameTables
<1>4. Whole(a) /\ a \in owned
  BY <1>0, <1>1, WritableIs, WholeNow DEF WholeFact, Types
<1>5. Len(Table(a)) = arrays[a].size
  BY <1>0, <1>1, <1>4 DEF Sizes, Growing, Whole
<1>6. Writing(a, i, v)'
  <2>1. a \in Writable'
    BY <1>1 DEF Writable
  <2>2. CASE /\ Len(todo') = 2 /\ todo'[1] = BucketStep(a, i, v) /\ todo'[2] = ElementStep(a, i, v)
             /\ K(i) <= arrays[a].size
    <3>1. WriteBucket(a, i, v)'
      BY <1>3, <1>5, <2>2 DEF WriteBucket, BucketStep, ElementStep, K
    <3> QED
      BY <1>1, <2>1, <3>1 DEF Writing
  <2>3. CASE \E n \in Nat :
               /\ Len(todo') = 5 /\ todo'[1] = SizeStep("size", a, n) /\ todo'[2] = SizeStep("install", a, n)
               /\ todo'[3] = DiscardStep("table", arrays[a].buckets)
               /\ todo'[4] = BucketStep(a, i, v) /\ todo'[5] = ElementStep(a, i, v)
               /\ arrays[a].size < n /\ K(i) <= n
    <3>1. PICK n \in Nat :
               /\ Len(todo') = 5 /\ todo'[1] = SizeStep("size", a, n) /\ todo'[2] = SizeStep("install", a, n)
               /\ todo'[3] = DiscardStep("table", arrays[a].buckets)
               /\ todo'[4] = BucketStep(a, i, v) /\ todo'[5] = ElementStep(a, i, v)
               /\ arrays[a].size < n /\ K(i) <= n
      BY <2>3
    <3>2. Sized(todo[1], "size", a, i)' /\ Sized(todo[2], "install", a, i)' /\ todo'[1].n = todo'[2].n
      BY <1>3, <1>5, <3>1 DEF Sized, SizeStep, K
    <3>3. WriteSize(a, i, v)'
      BY <1>1, <3>1, <3>2 DEF WriteSize, DiscardStep, BucketStep, ElementStep
    <3> QED
      BY <1>1, <2>1, <3>3 DEF Writing
  <2> QED
    BY <1>1, <2>2, <2>3 DEF PutForm
<1>7. Steps'
  BY <1>1, <1>6 DEF Steps, SomeWriting
<1>8. \A x \in DOMAIN arrays' : ~Freed(x)'
  <2>1. todo'[1].do # "free"
    <3>1. todo'[1] = BucketStep(a, i, v) \/ \E n \in Nat : todo'[1] = SizeStep("size", a, n)
      BY <1>1 DEF PutForm
    <3>2. BucketStep(a, i, v).do # "free" /\ \A n : SizeStep("size", a, n).do # "free"
      BY DEF BucketStep, SizeStep
    <3> QED
      BY <3>1, <3>2
  <2> QED
    BY <2>1, NotFreed
<1>9. References'
  BY <1>0, <1>1, <1>8, RefsKept
<1>10. Sizes'
  BY <1>0, <1>1, <1>3, SizesKept DEF Intact
<1>11. Alive' /\ Alive
  BY <1>0, <1>2 DEF Heap
<1>12. Content'
  <2> SUFFICES ASSUME NEW c \in owned', NEW j \in Index
               PROVE  Get(c, j)' = contents'[c][j] \/ \E w \in Value : Writing(c, j, w)'
    BY DEF Content
  <2>1. Whole(c) /\ Whole(c)' /\ c \in DOMAIN arrays
    BY <1>0, <1>1, <1>9, <1>11, WholeNow, WholeThen DEF WholeFact, Types, ProgramOK
  <2>2. Get(c, j)' = Get(c, j)
    BY <1>0, <1>1, <1>3, <2>1, GetSame
  <2>3. CASE c = a /\ j = i
    BY <1>6, <2>3
  <2>4. CASE ~(c = a /\ j = i)
    <3>1. contents'[c][j] = contents[c][j]
      BY <1>1, <2>1, <2>4
    <3>2. \A w : ~Writing(c, j, w)
      BY <1>0, <1>1, WritingOne
    <3> QED
      BY <1>0, <1>1, <2>2, <3>1, <3>2 DEF Content
  <2> QED
    BY <2>3, <2>4
<1>13. Readers'
  <2>1. \A r \in Reader : reads[r].array # 0 => contents'[reads[r].array][reads[r].index] \in reads'[r].right
    <3> SUFFICES ASSUME NEW r \in Reader, reads[r].array # 0
                 PROVE  contents'[reads[r].array][reads[r].index] \in reads'[r].right
      OBVIOUS
    <3>1. reads[r].array \in DOMAIN arrays /\ reads[r].index \in Index
      BY <1>0 DEF Types, ReadsOK
    <3>2. contents[reads[r].array][reads[r].index] \in reads[r].right
      BY <1>0 DEF Readers
    <3> QED
      BY <1>1, <3>1, <3>2 DEF Rights
  <2>2. MoreReads
    BY <1>1, <2>1 DEF MoreReads, Rights
  <2> QED
    BY <1>0, <1>1, <1>2, <2>2, ReadersMore
<1> QED
  BY <1>1, <1>2, <1>7, <1>9, <1>10, <1>12, <1>13 DEF Inv

(* An entry that is the empty bucket is passed over.                       *)
LEMMA SkipKeeps ==
  ASSUME Inv, Skip
  PROVE  Inv'
<1>0. /\ Types /\ Heap /\ References /\ Sizes /\ Steps /\ Content /\ Readers /\ Alive /\ ProgramOK
  BY InvParts
<1>1. /\ Types' /\ todo # <<>> /\ Popped /\ todo[1].do = "skip"
      /\ UNCHANGED <<arrays, tables, buckets, owned, contents, reads>>
  BY <1>0, SkipStep
<1>2. Same /\ Heap'
  BY <1>0, <1>1, StillHeap
<1>3. Intact' = Intact /\ \A c \in DOMAIN arrays : Table(c)' = Table(c)
  BY <1>2, SameTables
<1>4. Freeing
  BY <1>0, <1>1, StepForm
<1>5. Freeing' /\ \A x \in DOMAIN arrays' : ~Freed(x)'
  <2>1. \A s \in After(1) : \A rest \in SUBSET After(1) : Later(s, rest) => Later(s, rest)'
    BY <1>0, <1>1, <1>2, LaterSame
  <2> QED
    BY <1>0, <1>1, <1>4, <2>1, FreeingPopped
<1>6. References'
  BY <1>0, <1>1, <1>5, RefsKept
<1>7. Sizes'
  BY <1>0, <1>1, <1>3, SizesKept DEF Intact
<1>8. Alive'
  BY <1>2 DEF Heap
<1>9. Content'
  <2>1. \A c \in owned' : c \in DOMAIN arrays
    BY <1>0, <1>1 DEF ProgramOK
  <2> QED
    BY <1>0, <1>1, <1>3, <1>4, <1>6, <1>8, <2>1, ContentKept
<1>10. Readers'
  <2>1. SameReads
    BY <1>1 DEF SameReads
  <2> QED
    BY <1>0, <1>1, <1>2, <2>1, ReadersSame
<1> QED
  BY <1>1, <1>2, <1>5, <1>6, <1>7, <1>9, <1>10 DEF Inv, Steps

-----------------------------------------------------------------------------
(* What the first of the steps says.                                       *)
LEMMA FirstIs ==
  ASSUME ProgramOK, todo # <<>>, Freeing
  PROVE  /\ todo[1].do = "own" => OwnStep(todo[1], After(1))
         /\ todo[1].do = "free" => FreeStep(todo[1], After(1))
         /\ todo[1].do = "discard" =>
              /\ todo[1].what = "bucket" => BucketGone(todo[1], After(1))
              /\ todo[1].what = "table" => TableGone(todo[1], After(1))
              /\ todo[1].what = "array" => ArrayGone(todo[1], After(1))
<1>1. 1 \in 1..Len(todo)
  BY TodoIs
<1>2. Later(todo[1], After(1)) \/ FreeStep(todo[1], After(1)) \/ BucketGone(todo[1], After(1))
  BY <1>1 DEF Freeing
<1>3. ASSUME NEW s, NEW rest
      PROVE  /\ OwnStep(s, rest) => s.do = "own"
             /\ FreeStep(s, rest) => s.do = "free"
             /\ BucketGone(s, rest) => s.do = "discard" /\ s.what = "bucket"
             /\ TableGone(s, rest) => s.do = "discard" /\ s.what = "table"
             /\ ArrayGone(s, rest) => s.do = "discard" /\ s.what = "array"
  BY DEF OwnStep, FreeStep, BucketGone, TableGone, ArrayGone, Discards
<1> QED
  BY <1>2, <1>3 DEF Later

(* The version of a bucket tells whether it is the array's own, if what    *)
(* was freed reads as it did.                                              *)
LEMMA IsOwnKeeps ==
  ASSUME Inv, IsOwn, FreedKeeps \/ Reader # {}
  PROVE  Inv'
<1>0. /\ Types /\ Heap /\ References /\ Sizes /\ Steps /\ Content /\ Readers /\ Alive /\ ProgramOK
  BY InvParts
<1>1. todo # <<>> /\ todo[1].do = "own" /\ Len(todo) \in Nat /\ Len(todo) >= 1
  BY <1>0, TodoIs DEF IsOwn, Do
<1>2. Freeing
  BY <1>0, <1>1, StepForm
<1>3. PICK s : s = todo[1]
  OBVIOUS
<1>4. OwnStep(s, After(1))
  BY <1>0, <1>1, <1>2, <1>3, FirstIs
<1>5. s.a \in DOMAIN arrays /\ arrays[s.a].ref = 0 /\ s.id \in Entries[s.a] /\ s.id \in DOMAIN buckets
      /\ (Own(s.a, s.id) => buckets[s.id].st = "live" /\ s \notin After(1))
  BY <1>0, <1>4, OwnIn DEF OwnStep
<1>6. /\ Types' /\ UNCHANGED <<arrays, tables, buckets, owned, contents, reads>>
      /\ \/ buckets[s.id].version # arrays[s.a].version /\ Popped
         \/ /\ buckets[s.id].version = arrays[s.a].version
            /\ Len(todo') = Len(todo) /\ todo'[1] = DiscardStep("bucket", s.id)
            /\ \A j \in 2..Len(todo) : todo'[j] = todo[j]
  BY <1>0, <1>3, <1>5, IsOwnStep
<1>7. Same /\ Heap'
  BY <1>0, <1>6, StillHeap
<1>8. Intact' = Intact /\ Entries' = Entries /\ \A c \in DOMAIN arrays : Table(c)' = Table(c)
  BY <1>7, SameTables
<1>9. Freeing' /\ \A x \in DOMAIN arrays' : ~Freed(x)'
  <2>1. CASE buckets[s.id].version # arrays[s.a].version /\ Popped
    <3>1. \A u \in After(1) : \A rest \in SUBSET After(1) : Later(u, rest) => Later(u, rest)'
      BY <1>0, <1>6, <1>7, LaterSame
    <3> QED
      BY <1>0, <1>1, <1>2, <2>1, <3>1, FreeingPopped
  <2>2. CASE /\ buckets[s.id].version = arrays[s.a].version
             /\ Len(todo') = Len(todo) /\ todo'[1] = DiscardStep("bucket", s.id)
             /\ \A j \in 2..Len(todo) : todo'[j] = todo[j]
    <3>1. Own(s.a, s.id)
      BY <1>5, <2>2 DEF Own
    <3>2. \A k \in 1..Len(todo) : After(k)' = After(k)
      <4> TAKE k \in 1..Len(todo)
      <4>1. \A j \in (k + 1)..Len(todo) : todo'[j] = todo[j]
        BY <1>1, <2>2
      <4> QED
        BY <2>2, <4>1 DEF After
    <3>3. ASSUME NEW u \in After(1), u.do = "own", u.id = s.id, Own(u.a, u.id)'
          PROVE  FALSE
      <4>1. PICK rest : Later(u, rest) /\ u \in StepType
        BY <1>0, <1>2, <3>3, LaterOnes
      <4>2. OwnStep(u, rest)
        BY <3>3, <4>1 DEF Later, TableGone, ArrayGone, Discards
      <4>3. u.a \in DOMAIN arrays
        BY <4>2 DEF OwnStep
      <4>4. Own(u.a, s.id)
        BY <1>6, <1>8, <3>3 DEF Own
      <4>5. u.a = s.a
        BY <1>0, <1>5, <3>1, <4>3, <4>4 DEF Heap, Owners
      <4>6. u = OwnOne("own", u.a, u.id) /\ s = OwnOne("own", s.a, s.id)
        <5>1. s \in StepType
          BY <1>0, <1>1, <1>3, TodoIs
        <5> QED
          BY <1>1, <1>3, <3>3, <4>1, <5>1, StepTypes DEF OwnOne
      <4>7. u = s
        BY <3>3, <4>5, <4>6
      <4> QED
        BY <1>5, <3>1, <3>3, <4>7
    <3>4. BucketGone(todo[1], After(1))'
      <4>1. PICK t, rest : t = DiscardStep("bucket", s.id) /\ rest = After(1)
        OBVIOUS
      <4>2. t.do = "discard" /\ t.what = "bucket" /\ t.id = s.id
        BY <4>1 DEF DiscardStep
      <4>3. Own(s.a, s.id)'
        BY <1>6, <1>8, <3>1 DEF Own
      <4>4. BucketGone(t, rest)'
        BY <1>5, <1>6, <3>1, <3>3, <4>1, <4>2, <4>3 DEF BucketGone, Discards
      <4>5. t = todo'[1] /\ rest = After(1)'
        BY <1>1, <2>2, <3>2, <4>1
      <4> QED
        BY <4>4, <4>5 DEF BucketGone, Discards, Own
    <3>5. ASSUME NEW k \in 2..Len(todo')
          PROVE  Later(todo[k], After(k))'
      <4>1. PICK t, rest : t = todo[k] /\ rest = After(k)
        OBVIOUS
      <4>2. k \in 2..Len(todo) /\ k \in 1..Len(todo)
        BY <1>1, <2>2
      <4>3. Later(t, rest)
        BY <1>0, <1>2, <4>1, <4>2, RestIs
      <4>4. Later(t, rest)'
        BY <1>0, <1>6, <1>7, <4>3, LaterSame
      <4>5. t = todo'[k] /\ rest = After(k)'
        BY <2>2, <3>2, <4>1, <4>2
      <4> QED
        BY <4>4, <4>5 DEF Later, OwnStep, TableGone, ArrayGone, Discards, Own
    <3>6. Freeing'
      <4>1. \A k \in 1..Len(todo') : k = 1 \/ k \in 2..Len(todo')
        BY <1>1, <2>2
      <4> QED
        BY <3>4, <3>5, <4>1 DEF Freeing
    <3>7. todo'[1].do # "free"
      BY <2>2 DEF DiscardStep
    <3> QED
      BY <3>6, <3>7, NotFreed
  <2> QED
    BY <1>6, <2>1, <2>2
<1>10. References'
  BY <1>0, <1>6, <1>9, RefsKept
<1>11. Sizes'
  BY <1>0, <1>1, <1>6, <1>8, SizesKept DEF Intact
<1>12. Alive'
  BY <1>7 DEF Heap
<1>13. Content'
  <2>1. \A c \in owned' : c \in DOMAIN arrays
    BY <1>0, <1>6 DEF ProgramOK
  <2> QED
    BY <1>0, <1>2, <1>6, <1>8, <1>10, <1>12, <2>1, ContentKept
<1>14. Readers'
  <2>1. SameReads
    BY <1>6 DEF SameReads
  <2> QED
    BY <1>0, <1>6, <1>7, <2>1, ReadersSame
<1> QED
  BY <1>6, <1>7, <1>9, <1>10, <1>11, <1>13, <1>14 DEF Inv, Steps

(* The new capacity is stored: the readers of this array are told.         *)
LEMMA SetSizeKeeps ==
  ASSUME Inv, SetSize
  PROVE  Inv'
<1>0. /\ Types /\ Heap /\ References /\ Sizes /\ Steps /\ Content /\ Readers /\ Alive /\ ProgramOK /\ ReadsOK
  BY InvParts
<1>1. todo # <<>> /\ todo[1].do = "size"
  BY <1>0, TodoIs DEF SetSize, Do
<1>2. PICK a \in Writable, i \in Index, v \in Value : contents[a][i] = v /\ WriteSize(a, i, v)
  BY <1>0, <1>1, StepForm
<1>3. Writing(a, i, v)
  BY <1>2 DEF Writing
<1>4. /\ Types' /\ Popped /\ UNCHANGED <<tables, buckets, owned, contents>>
      /\ DOMAIN arrays' = DOMAIN arrays /\ Others(a) /\ a \in DOMAIN arrays
      /\ arrays'[a].st = arrays[a].st /\ arrays'[a].buckets = arrays[a].buckets
      /\ arrays'[a].empty = arrays[a].empty /\ arrays'[a].version = arrays[a].version
      /\ arrays'[a].ref = arrays[a].ref /\ arrays'[a].copyOf = arrays[a].copyOf
      /\ arrays'[a].size = todo[1].n
      /\ SameReads /\ Change({r \in Reader : reads[r].array = a})
  BY <1>0, <1>2, SetSizeStep
<1>5. \A c \in DOMAIN arrays :
        /\ arrays'[c].st = arrays[c].st /\ arrays'[c].buckets = arrays[c].buckets
        /\ arrays'[c].version = arrays[c].version /\ arrays'[c].empty = arrays[c].empty
        /\ arrays'[c].copyOf = arrays[c].copyOf /\ arrays'[c].ref = arrays[c].ref
  BY <1>4 DEF Others
<1>6. Writable' = Writable
  BY <1>0, <1>4, <1>5 DEF Writable, ProgramOK
<1>7. Same
  <2>1. \A c \in DOMAIN arrays : arrays'[c].ref <= arrays[c].ref
    <3> TAKE c \in DOMAIN arrays
    <3>1. arrays[c].ref \in Nat /\ arrays'[c].ref = arrays[c].ref
      BY <1>0, <1>5, ArrayIs DEF Types
    <3> QED
      BY <3>1
  <2> QED
    BY <1>4, <1>5, <1>6, <2>1 DEF Same
<1>8. Intact' = Intact /\ \A c \in DOMAIN arrays : Table(c)' = Table(c)
  BY <1>7, SameTables
<1>9. Heap'
  <2>1. Empties'
    BY <1>0, <1>4, <1>5, EmptiesKept DEF Heap
  <2> QED
    BY <1>0, <1>4, <1>7, <2>1, SameHeap DEF Heap
<1>10. /\ Len(todo') = 4 /\ todo'[1] = todo[2] /\ todo'[2] = todo[3] /\ todo'[3] = todo[4] /\ todo'[4] = todo[5]
       /\ Len(todo) = 5
  <2>1. Len(todo) = 5
    BY <1>2 DEF WriteSize
  <2> QED
    BY <1>4, <2>1 DEF Popped
<1>11. Writing(a, i, v)'
  <2>1. Sized(todo[1], "install", a, i)' /\ arrays'[a].size = todo'[1].n
    BY <1>2, <1>4, <1>8, <1>10 DEF Sized, WriteSize, K
  <2>2. todo'[2] = DiscardStep("table", arrays'[a].buckets) /\ todo'[3] = BucketStep(a, i, v) /\ todo'[4] = ElementStep(a, i, v)
    BY <1>2, <1>4, <1>10 DEF WriteSize
  <2>3. WriteInstall(a, i, v)'
    BY <1>10, <2>1, <2>2 DEF WriteInstall, DiscardStep, BucketStep, ElementStep
  <2> QED
    BY <1>2, <1>4, <1>6, <2>3 DEF Writing
<1>12. Steps'
  BY <1>4, <1>11 DEF Steps, SomeWriting
<1>13. References'
  <2>1. \A x \in DOMAIN arrays' : ~Freed(x)'
    BY <1>10, NotFreed
  <2> QED
    BY <1>0, <1>4, <1>5, <2>1, RefsKept
<1>14. Sizes'
  <2>1. Growing(a)'
    <3>1. todo'[1].do = "install" /\ todo'[1].a = a
      BY <1>2, <1>10 DEF WriteSize, Sized
    <3>2. todo' # <<>>
      BY <1>10, EmptySeq
    <3> QED
      BY <3>1, <3>2 DEF Growing
  <2>2. \A c \in Intact : c # a => Len(Table(c)) = arrays'[c].size /\ c \in DOMAIN arrays
    BY <1>0, <1>1, <1>4 DEF Sizes, Growing, Others, Intact
  <2> QED
    BY <1>8, <2>1, <2>2 DEF Sizes
<1>15. Alive'
  BY <1>9 DEF Heap
<1>16. Content'
  <2>1. \A c \in owned' : c \in DOMAIN arrays
    BY <1>0, <1>4 DEF ProgramOK
  <2> QED
    BY <1>0, <1>3, <1>4, <1>5, <1>8, <1>11, <1>13, <1>15, <2>1, ContentKept
<1>17. Readers'
  <2>1. \A r \in Reader : reads[r].at # "idle" /\ ~reads'[r].changed
          => arrays'[reads[r].array].size = arrays[reads[r].array].size
    <3> SUFFICES ASSUME NEW r \in Reader, reads[r].at # "idle", ~reads'[r].changed
                 PROVE  arrays'[reads[r].array].size = arrays[reads[r].array].size
      OBVIOUS
    <3>1. PICK S : S = {q \in Reader : reads[q].array = a}
      OBVIOUS
    <3>2. r \notin S
      BY <1>0, <1>4, <3>1, ChangeIs
    <3>3. reads[r].array # a /\ reads[r].array \in DOMAIN arrays
      BY <1>0, <3>1, <3>2 DEF ReadsOK
    <3> QED
      BY <1>4, <3>3 DEF Others
  <2> QED
    BY <1>0, <1>4, <1>7, <2>1, ReadersSame
<1> QED
  BY <1>4, <1>9, <1>12, <1>13, <1>14, <1>16, <1>17 DEF Inv

-----------------------------------------------------------------------------
(* The array a thread reads, if nothing happened to it.                    *)
LEMMA ReadNow ==
  ASSUME Types, Readers, NEW r \in Reader, reads[r].at # "idle", ~reads[r].changed,
         NEW a, NEW i, a = reads[r].array, i = reads[r].index
  PROVE  /\ ReadOK(r) /\ contents[a][i] \in reads[r].right
         /\ a \in Intact /\ a \in DOMAIN arrays /\ i \in Index /\ arrays[a].st = "live"
         /\ Len(Table(a)) = arrays[a].size /\ \A e \in Entries[a] : buckets[e].st = "live"
         /\ reads[r].at = "element" => reads[r].ptr \in DOMAIN buckets
<1>1. ReadOK(r) /\ a # 0
  BY DEF Readers, Types, ReadsOK
<1> QED
  BY <1>1 DEF ReadOK, Readers, Types, ReadsOK, Intact

(* The element is stored in a bucket that no other array has.              *)
LEMMA SetElementKeeps ==
  ASSUME Inv, SetElement
  PROVE  Inv'
<1>0. /\ Types /\ Heap /\ References /\ Sizes /\ Steps /\ Content /\ Readers /\ Alive /\ ProgramOK /\ ReadsOK
      /\ SameEmpty /\ Placed /\ Shared /\ Empties
  BY InvParts
<1>1. todo # <<>> /\ todo[1].do = "element"
  BY <1>0, TodoIs DEF SetElement, Do
<1>2. PICK a \in Writable, i \in Index, v \in Value : contents[a][i] = v /\ WriteElement(a, i, v)
  BY <1>0, <1>1, StepForm
<1>3. Writing(a, i, v) /\ a \in owned /\ a \in DOMAIN arrays
  BY <1>0, <1>2, WritableIs DEF Writing
<1>4. Whole(a) /\ a \in Intact
  BY <1>0, <1>3, WholeNow DEF WholeFact, Whole, Types
<1>5. PICK b : b = Table(a)[K(i)]
  OBVIOUS
<1>6. Own(a, b) /\ b # arrays[a].empty /\ b \in Entries[a] /\ b \in DOMAIN buckets
  <2>1. Own(a, b) /\ b # arrays[a].empty
    BY <1>2, <1>5 DEF WriteElement
  <2> QED
    BY <1>0, <1>3, <2>1, OwnIn DEF Own
<1>7. /\ Types' /\ UNCHANGED <<arrays, tables, owned, contents, reads>> /\ todo' = <<>>
      /\ K(i) \in DOMAIN Table(a)
      /\ DOMAIN buckets' = DOMAIN buckets /\ \A c \in DOMAIN buckets : c # b => buckets'[c] = buckets[c]
      /\ buckets'[b].st = buckets[b].st /\ buckets'[b].version = buckets[b].version
      /\ buckets'[b].elems[i % BucketSize] = v
      /\ \A o \in Offset : o # i % BucketSize => buckets'[b].elems[o] = buckets[b].elems[o]
  BY <1>0, <1>2, <1>4, <1>5, <1>6, SetElementStep
<1>8. Same
  <2>1. \A c \in DOMAIN arrays : arrays[c].ref <= arrays[c].ref
    BY <1>0, ArrayIs DEF Types
  <2>2. Writable' = Writable
    BY <1>7 DEF Writable
  <2>3. \A c \in DOMAIN buckets : buckets'[c].version = buckets[c].version /\ buckets'[c].st = buckets[c].st
    BY <1>7
  <2> QED
    BY <1>7, <2>1, <2>2, <2>3 DEF Same
<1>9. Intact' = Intact /\ Entries' = Entries /\ \A c \in DOMAIN arrays : Table(c)' = Table(c)
  BY <1>8, SameTables
<1>10. Heap'
  <2>1. \A c \in DOMAIN arrays : arrays[c].empty # b
    BY <1>0, <1>3, <1>6 DEF SameEmpty
  <2>2. \A c \in DOMAIN arrays : buckets'[arrays[c].empty] = buckets[arrays[c].empty]
    BY <1>0, <1>7, <2>1, ArrayIs DEF Types
  <2>3. Empties'
    BY <1>0, <1>7, <2>2 DEF Empties
  <2> QED
    BY <1>0, <1>7, <1>8, <2>3, SameHeap DEF Heap
<1>11. \A x \in DOMAIN arrays' : ~Freed(x)'
  BY <1>7, NoTodo
<1>12. References'
  BY <1>0, <1>7, <1>11, RefsKept
<1>13. Sizes'
  BY <1>0, <1>1, <1>7, <1>9, SizesKept DEF Intact
<1>14. Freeing'
  BY <1>7, NoTodo DEF Freeing
<1>15. Alive'
  BY <1>10 DEF Heap
<1>16. \A j \in Index : K(j) = K(i) /\ j # i => j % BucketSize # i % BucketSize /\ j % BucketSize \in Offset
  BY IndexIs, IndexNat
<1>17. \A k \in DOMAIN Table(a) : Table(a)[k] = b => k = K(i)
  BY <1>0, <1>4, <1>5, <1>6, <1>7 DEF Placed
<1>18. ASSUME NEW c \in Intact, NEW j \in Index, ~(c = a /\ j = i)
       PROVE  buckets'[BucketAt(c, j)].elems[j % BucketSize] = buckets[BucketAt(c, j)].elems[j % BucketSize]
  <2>1. /\ c \in DOMAIN arrays /\ arrays[c].empty \in Entries[c]
        /\ \A k \in DOMAIN Table(c) : Table(c)[k] \in Entries[c]
    BY <1>0, EntriesNow DEF EntriesFact, Types
  <2>2. PICK q : q = BucketAt(c, j)
    OBVIOUS
  <2>3. q \in Entries[c]
    BY <2>1, <2>2 DEF BucketAt
  <2>4. q \in DOMAIN buckets
    BY <1>0, <2>1, <2>3, OwnIn
  <2>5. CASE q # b
    BY <1>7, <2>2, <2>4, <2>5
  <2>6. CASE q = b
    <3>1. c = a
      BY <1>0, <1>2, <1>3, <1>6, <2>1, <2>3, <2>6 DEF Shared
    <3>2. K(j) = K(i)
      BY <1>6, <1>17, <2>2, <2>6, <3>1 DEF BucketAt
    <3> QED
      BY <1>7, <1>16, <1>18, <2>2, <2>6, <3>1, <3>2
  <2> QED
    BY <2>5, <2>6
<1>19. ASSUME NEW c \in Intact, NEW j \in Index, arrays[c].st = "live",
              \A e \in Entries[c] : buckets[e].st = "live"
       PROVE  /\ ~(c = a /\ j = i) => Get(c, j)' = Get(c, j)
              /\ c = a /\ j = i => Get(c, j)' = v
  <2>1. c \in DOMAIN arrays /\ BucketAt(c, j) \in Entries[c] /\ Get(c, j) = buckets[BucketAt(c, j)].elems[j % BucketSize]
    BY <1>0, <1>19, GetNow DEF GetFact, Types, Intact
  <2>2. \A e \in Entries[c] : buckets'[e].st = "live"
    BY <1>0, <1>8, <1>19, <2>1, OwnIn DEF Same
  <2>3. Get(c, j)' = buckets'[BucketAt(c, j)'].elems[j % BucketSize]
    BY <1>7, <1>9, <1>19, <2>2, GetThen DEF GetFact, Types
  <2>4. BucketAt(c, j)' = BucketAt(c, j)
    BY <1>7, <1>9, <2>1 DEF BucketAt
  <2>5. c = a /\ j = i => BucketAt(c, j) = b
    BY <1>5, <1>7 DEF BucketAt
  <2> QED
    BY <1>7, <1>18, <2>1, <2>3, <2>4, <2>5
<1>20. Content'
  <2> SUFFICES ASSUME NEW c \in owned', NEW j \in Index
               PROVE  Get(c, j)' = contents'[c][j]
    BY DEF Content
  <2>1. Whole(c) /\ c \in Intact
    BY <1>0, <1>7, WholeNow DEF WholeFact, Whole, Types
  <2>2. arrays[c].st = "live" /\ \A e \in Entries[c] : buckets[e].st = "live"
    BY <2>1 DEF Whole
  <2>3. CASE c = a /\ j = i
    BY <1>2, <1>7, <1>19, <2>1, <2>2, <2>3
  <2>4. CASE ~(c = a /\ j = i)
    <3>1. \A w : ~Writing(c, j, w)
      BY <1>0, <1>3, <2>4, WritingOne
    <3> QED
      BY <1>0, <1>7, <1>19, <2>1, <2>2, <2>4, <3>1 DEF Content
  <2> QED
    BY <2>3, <2>4
<1>21. Readers'
  <2> SUFFICES ASSUME NEW r \in Reader
               PROVE  ReadIs(r)'
    BY DEF Readers, ReadIs
  <2>1. ASSUME reads[r].at # "idle", ~reads[r].changed
        PROVE  ReadOK(r)'
    <3>1. PICK c, j, p : c = reads[r].array /\ j = reads[r].index /\ p = reads[r].ptr
      OBVIOUS
    <3>2. /\ ReadOK(r) /\ contents[c][j] \in reads[r].right
          /\ c \in Intact /\ c \in DOMAIN arrays /\ j \in Index /\ arrays[c].st = "live"
          /\ Len(Table(c)) = arrays[c].size /\ \A e \in Entries[c] : buckets[e].st = "live"
          /\ reads[r].at = "element" => p \in DOMAIN buckets
      BY <1>0, <2>1, <3>1, ReadNow
    <3>3. \A e \in Entries[c] : buckets'[e].st = "live"
      BY <1>0, <1>8, <3>2, OwnIn DEF Same
    <3>4. reads[r].at # "element" => Get(c, j)' \in reads[r].right
      <4>1. reads[r].at # "element" => Get(c, j) \in reads[r].right
        BY <3>1, <3>2 DEF ReadOK
      <4> QED
        BY <1>2, <1>19, <3>2, <4>1
    <3>5. ASSUME reads[r].at = "element"
          PROVE  /\ buckets'[p].st = "live" /\ buckets'[p].elems[j % BucketSize] \in reads[r].right
                 /\ \A x \in Writable' : Own(x, p)' /\ p # arrays'[x].empty => x = c /\ Table(c)'[K(j)] = p
      <4>1. /\ buckets[p].st = "live" /\ buckets[p].elems[j % BucketSize] \in reads[r].right /\ p \in DOMAIN buckets
            /\ \A x \in Writable : Own(x, p) /\ p # arrays[x].empty => x = c /\ Table(c)[K(j)] = p
            /\ K(j) <= Len(Table(c))
        BY <3>1, <3>2, <3>5 DEF ReadOK
      <4>2. buckets'[p].st = "live"
        BY <1>8, <4>1 DEF Same
      <4>3. buckets'[p].elems[j % BucketSize] \in reads[r].right
        <5>1. CASE p # b
          BY <1>7, <4>1, <5>1
        <5>2. CASE p = b
          <6>1. a = c /\ Table(a)[K(j)] = b
            BY <1>2, <1>6, <4>1, <5>2
          <6>2. K(j) \in DOMAIN Table(a)
            <7>1. DOMAIN Table(a) = 1..Len(Table(a)) /\ Len(Table(a)) \in Nat
              BY <1>0, <1>4, EntriesNow DEF EntriesFact, Types
            <7>2. K(j) \in Nat \ {0}
              BY <3>2, IndexIs, IndexNat
            <7> QED
              BY <4>1, <6>1, <7>1, <7>2
          <6>3. K(j) = K(i)
            BY <1>17, <6>1, <6>2
          <6>4. CASE j = i
            BY <1>2, <1>7, <3>2, <5>2, <6>1, <6>4
          <6>5. CASE j # i
            BY <1>7, <1>16, <3>2, <4>1, <5>2, <6>3, <6>5
          <6> QED
            BY <6>4, <6>5
        <5> QED
          BY <5>1, <5>2
      <4>4. ASSUME NEW x \in Writable', Own(x, p)', p # arrays'[x].empty
            PROVE  x = c /\ Table(c)'[K(j)] = p
        <5>1. x \in Writable /\ x \in DOMAIN arrays
          BY <1>0, <1>8, WritableIs DEF Same
        <5>2. Own(x, p)
          BY <1>8, <4>1, <4>4, <5>1, OwnSame
        <5> QED
          BY <1>7, <1>9, <3>2, <4>1, <4>4, <5>1, <5>2
      <4> QED
        BY <4>2, <4>3, <4>4
    <3> QED
      BY <1>7, <1>9, <3>1, <3>2, <3>3, <3>4, <3>5 DEF ReadOK
  <2> QED
    BY <1>0, <1>7, <2>1 DEF Readers, ReadIs
<1> QED
  BY <1>7, <1>10, <1>12, <1>13, <1>14, <1>20, <1>21 DEF Inv, Steps

-----------------------------------------------------------------------------
(* An array gets a bucket of its own in place of one it had.               *)
LEMMA RelinkEntries ==
  ASSUME Types, Types', Heap, UNCHANGED <<arrays, owned>>, NEW a \in Intact, NEW i \in Index,
         K(i) \in DOMAIN Table(a), NewBucket(a, i), NEW n, n = NewB
  PROVE  /\ Intact' = Intact /\ n \in DOMAIN buckets' /\ n \notin DOMAIN buckets
         /\ DOMAIN Table(a)' = DOMAIN Table(a) /\ Len(Table(a)') = Len(Table(a)) /\ Table(a)'[K(i)] = n
         /\ \A k \in DOMAIN Table(a) : k # K(i) => Table(a)'[k] = Table(a)[k]
         /\ \A c \in Intact : c # a => Table(c)' = Table(c)
         /\ \A c \in DOMAIN arrays : c # a => Entries'[c] = Entries[c]
         /\ n \in Entries'[a] /\ \A e \in Entries'[a] : e = n \/ e \in Entries[a]
         /\ \A c \in DOMAIN arrays : n \notin Entries[c]
<1>1. PICK p : p = arrays[a].buckets
  OBVIOUS
<1>2. /\ n \in DOMAIN buckets' /\ n \notin DOMAIN buckets
      /\ \A q \in DOMAIN tables : q # p => tables'[q] = tables[q]
      /\ tables'[p].st = tables[p].st /\ Len(tables'[p].at) = Len(tables[p].at)
      /\ DOMAIN tables'[p].at = DOMAIN tables[p].at /\ tables'[p].at[K(i)] = n
      /\ \A k \in DOMAIN tables[p].at : k # K(i) => tables'[p].at[k] = tables[p].at[k]
  BY <1>1 DEF NewBucket, BucketsAdded
<1>3. /\ a \in DOMAIN arrays /\ p \in DOMAIN tables /\ Table(a) = tables[p].at
      /\ \A k \in DOMAIN Table(a) : Table(a)[k] \in Entries[a]
      /\ arrays[a].empty \in Entries[a]
  BY <1>1, EntriesIs DEF Types
<1>4. Table(a)' = tables'[p].at
  BY <1>1 DEF Table
<1>5. \A c \in DOMAIN arrays : arrays[c].buckets # 0 => arrays[c].buckets \in DOMAIN tables
  BY ArrayIs DEF Types
<1>6. Intact' = Intact
  <2>1. \A q \in DOMAIN tables : tables'[q].st = tables[q].st
    BY <1>2
  <2> QED
    BY <1>5, <2>1 DEF Intact
<1>7. \A c \in Intact : c # a => Table(c)' = Table(c)
  <2> TAKE c \in Intact
  <2> HAVE c # a
  <2>1. arrays[c].buckets # p
    BY <1>1 DEF Heap, Apart
  <2>2. arrays[c].buckets \in DOMAIN tables
    BY <1>5 DEF Intact
  <2> QED
    BY <1>2, <2>1, <2>2 DEF Table
<1>8. \A c \in DOMAIN arrays : c # a => Entries'[c] = Entries[c]
  <2> TAKE c \in DOMAIN arrays
  <2> HAVE c # a
  <2>1. CASE c \in Intact
    <3>1. Table(c)' = Table(c)
      BY <1>7, <2>1
    <3>2. Entries'[c] = {Table(c)'[k] : k \in DOMAIN Table(c)'} \cup {arrays'[c].empty}
      BY <1>6, <2>1 DEF Entries
    <3> QED
      BY <2>1, <3>1, <3>2 DEF Entries
  <2>2. CASE c \notin Intact
    BY <1>6, <2>2 DEF Entries
  <2> QED
    BY <2>1, <2>2
<1>9. n \in Entries'[a] /\ \A e \in Entries'[a] : e = n \/ e \in Entries[a]
  <2>1. Entries'[a] = {Table(a)'[k] : k \in DOMAIN Table(a)'} \cup {arrays'[a].empty}
    BY <1>3, <1>6 DEF Entries
  <2> QED
    BY <1>2, <1>3, <1>4, <2>1
<1>10. \A c \in DOMAIN arrays : n \notin Entries[c]
  BY <1>2 DEF Heap, Versions
<1> QED
  BY <1>2, <1>3, <1>4, <1>6, <1>7, <1>8, <1>9, <1>10

(* An array gets a bucket of its own in place of one that was not.         *)
LEMMA RelinkHeap ==
  ASSUME Types, Types', Heap, References, UNCHANGED <<arrays, owned>>, NEW a \in Writable, NEW i \in Index,
         a \in Intact, K(i) \in DOMAIN Table(a), NewBucket(a, i)
  PROVE  Heap'
<1>0. /\ Apart /\ Versions /\ SameEmpty /\ Owners /\ Placed /\ Shared /\ From /\ Alive /\ Empties
      /\ a \in owned /\ a \in DOMAIN arrays /\ arrays[a].ref = 1
  BY WritableIs DEF Heap, Types
<1>1. PICK n : n = NewB
  OBVIOUS
<1>2. /\ Intact' = Intact /\ n \in DOMAIN buckets' /\ n \notin DOMAIN buckets
      /\ DOMAIN Table(a)' = DOMAIN Table(a) /\ Len(Table(a)') = Len(Table(a)) /\ Table(a)'[K(i)] = n
      /\ \A k \in DOMAIN Table(a) : k # K(i) => Table(a)'[k] = Table(a)[k]
      /\ \A c \in Intact : c # a => Table(c)' = Table(c)
      /\ \A c \in DOMAIN arrays : c # a => Entries'[c] = Entries[c]
      /\ n \in Entries'[a] /\ \A e \in Entries'[a] : e = n \/ e \in Entries[a]
      /\ \A c \in DOMAIN arrays : n \notin Entries[c]
  BY <1>0, <1>1, RelinkEntries
<1>3. PICK b : b = Table(a)[K(i)]
  OBVIOUS
<1>4. /\ buckets'[n].st = buckets[b].st /\ buckets'[n].version = arrays[a].version
      /\ \A e \in DOMAIN buckets : buckets'[e] = buckets[e]
  BY <1>1, <1>3 DEF NewBucket, BucketsAdded
<1>5. \A c \in DOMAIN arrays : arrays[c].empty \in DOMAIN buckets /\ arrays[c].empty # n
  BY <1>0, <1>2, ArrayIs DEF Types
<1>6. ASSUME NEW c \in DOMAIN arrays, NEW e \in Entries'[c]
      PROVE  \/ e = n /\ c = a
             \/ e # n /\ e \in Entries[c] /\ e \in DOMAIN buckets /\ buckets'[e] = buckets[e]
  <2>1. (e = n /\ c = a) \/ e \in Entries[c]
    BY <1>2, <1>6
  <2>2. e \in Entries[c] => e # n /\ e \in DOMAIN buckets
    BY <1>0, <1>2 DEF Versions
  <2> QED
    BY <1>4, <2>1, <2>2
<1>7. ASSUME NEW c \in DOMAIN arrays, NEW e, Own(c, e)'
      PROVE  \/ e = n /\ c = a
             \/ e # n /\ e \in Entries[c] /\ Own(c, e)
  <2>1. e \in Entries'[c] /\ buckets'[e].version = arrays[c].version
    BY <1>7 DEF Own
  <2> QED
    BY <1>6, <2>1 DEF Own
<1>8. Apart'
  BY <1>0, <1>2 DEF Apart
<1>9. Versions'
  <2> SUFFICES ASSUME NEW c \in DOMAIN arrays, NEW e \in Entries'[c]
               PROVE  e \in DOMAIN buckets' /\ buckets'[e].version <= arrays[c].version
    BY DEF Versions
  <2>1. arrays[c].version \in Nat /\ arrays[a].version \in Nat
    BY <1>0, ArrayIs DEF Types
  <2>2. DOMAIN buckets \subseteq DOMAIN buckets'
    BY DEF NewBucket, BucketsAdded
  <2> QED
    BY <1>0, <1>2, <1>4, <1>6, <2>1, <2>2 DEF Versions
<1>10. SameEmpty'
  BY <1>0, <1>5, <1>6 DEF SameEmpty
<1>11. Owners'
  BY <1>0, <1>7 DEF Owners
<1>12. Placed'
  <2> SUFFICES ASSUME NEW c \in Intact', NEW j \in DOMAIN Table(c)', NEW k \in DOMAIN Table(c)',
                      Table(c)'[j] = Table(c)'[k], Own(c, Table(c)[j])', Table(c)'[j] # arrays[c].empty
               PROVE  j = k
    BY DEF Placed
  <2>1. c \in Intact /\ c \in DOMAIN arrays
    BY <1>2 DEF Intact
  <2>2. PICK e : e = Table(c)'[j]
    OBVIOUS
  <2>3. Own(c, e)'
    BY <2>2
  <2>4. CASE c # a
    <3>1. Own(c, e)
      BY <1>7, <2>1, <2>3, <2>4
    <3> QED
      BY <1>0, <1>2, <2>1, <2>2, <2>4, <3>1 DEF Placed
  <2>5. CASE c = a
    <3>1. \A m \in DOMAIN Table(a) : Table(a)[m] # n
      BY <1>0, <1>2, EntriesNow DEF EntriesFact, Types
    <3>2. CASE e = n
      BY <1>2, <2>2, <2>5, <3>1, <3>2
    <3>3. CASE e # n
      <4>1. Own(a, e)
        BY <1>7, <2>1, <2>3, <2>5, <3>3
      <4>2. Table(a)[j] = e /\ Table(a)[k] = e /\ j \in DOMAIN Table(a) /\ k \in DOMAIN Table(a)
        BY <1>2, <2>2, <2>5, <3>3
      <4>3. e # arrays[a].empty
        BY <2>2, <2>5
      <4> QED
        BY <1>0, <4>1, <4>2, <4>3 DEF Placed
    <3> QED
      BY <3>2, <3>3
  <2> QED
    BY <2>4, <2>5
<1>13. Shared'
  <2> SUFFICES ASSUME NEW x \in DOMAIN arrays, NEW c \in DOMAIN arrays, NEW e \in Entries'[c], x # c, Own(x, e)'
               PROVE  x \notin Writable'
    BY DEF Shared
  <2>1. Writable' = Writable
    BY DEF Writable
  <2>2. e \in Entries[c] /\ Own(x, e)
    BY <1>6, <1>7
  <2> QED
    BY <1>0, <2>1, <2>2 DEF Shared
<1>14. From'
  <2> SUFFICES ASSUME NEW c \in DOMAIN arrays, NEW e \in Entries'[c], arrays[c].ref > 0,
                      buckets'[e].version < arrays[c].version
               PROVE  arrays[c].copyOf # 0 /\ e \in Entries'[arrays[c].copyOf]
    BY DEF From
  <2>1. arrays[a].version \in Nat
    BY <1>0, ArrayIs DEF Types
  <2>2. e \in Entries[c] /\ buckets'[e] = buckets[e]
    BY <1>4, <1>6, <2>1
  <2>3. arrays[c].copyOf # 0 /\ e \in Entries[arrays[c].copyOf]
    BY <1>0, <2>2 DEF From
  <2>4. arrays[c].copyOf # a
    <3>1. CopyOf(c, a) => arrays[a].ref >= 2
      BY <1>0 DEF References
    <3> QED
      BY <1>0, <3>1 DEF CopyOf
  <2>5. arrays[c].copyOf \in DOMAIN arrays
    BY <2>3, CopyIs DEF Types
  <2> QED
    BY <1>2, <2>3, <2>4, <2>5
<1>15. Alive'
  <2>1. b \in Entries[a]
    BY <1>3, EntriesNow DEF EntriesFact, Types
  <2>2. buckets'[n].st = "live"
    BY <1>0, <1>4, <2>1 DEF Alive
  <2> SUFFICES ASSUME NEW c \in DOMAIN arrays, arrays[c].ref > 0
               PROVE  arrays[c].st = "live" /\ c \in Intact' /\ \A e \in Entries'[c] : buckets'[e].st = "live"
    BY DEF Alive
  <2> QED
    BY <1>0, <1>2, <1>6, <2>2 DEF Alive
<1>16. Empties'
  BY <1>0, <1>4, <1>5 DEF Empties
<1> QED
  BY <1>8, <1>9, <1>10, <1>11, <1>12, <1>13, <1>14, <1>15, <1>16 DEF Heap

-----------------------------------------------------------------------------
(* The elements read as before, and so does a thread.                      *)
LEMMA RelinkGet ==
  ASSUME Types, Types', Heap, Heap', UNCHANGED <<arrays, owned>>, NEW a \in Intact, NEW i \in Index,
         K(i) \in DOMAIN Table(a), NewBucket(a, i),
         NEW c \in Intact, NEW j \in Index, arrays[c].st = "live",
         \A e \in Entries[c] : buckets[e].st = "live", \A e \in Entries'[c] : buckets'[e].st = "live"
  PROVE  Get(c, j)' = Get(c, j)
<1>1. PICK n, b : n = NewB /\ b = Table(a)[K(i)]
  OBVIOUS
<1>2. /\ Intact' = Intact /\ n \in DOMAIN buckets' /\ n \notin DOMAIN buckets
      /\ DOMAIN Table(a)' = DOMAIN Table(a) /\ Table(a)'[K(i)] = n
      /\ \A k \in DOMAIN Table(a) : k # K(i) => Table(a)'[k] = Table(a)[k]
      /\ c # a => Table(c)' = Table(c)
  BY <1>1, RelinkEntries
<1>3. buckets'[n].elems = buckets[b].elems /\ \A e \in DOMAIN buckets : buckets'[e] = buckets[e]
  BY <1>1 DEF NewBucket, BucketsAdded
<1>4. BucketAt(c, j) \in Entries[c] /\ Get(c, j) = buckets[BucketAt(c, j)].elems[j % BucketSize]
  BY GetNow DEF GetFact, Types
<1>5. Get(c, j)' = buckets'[BucketAt(c, j)'].elems[j % BucketSize]
  BY <1>2, GetThen DEF GetFact, Types
<1>6. c \in DOMAIN arrays /\ BucketAt(c, j) \in DOMAIN buckets
  BY <1>4, OwnIn DEF Intact
<1>7. CASE c = a /\ K(j) = K(i)
  <2>1. BucketAt(c, j) = b /\ BucketAt(c, j)' = n
    BY <1>1, <1>2, <1>7 DEF BucketAt
  <2> QED
    BY <1>3, <1>4, <1>5, <2>1
<1>8. CASE ~(c = a /\ K(j) = K(i))
  <2>1. BucketAt(c, j)' = BucketAt(c, j)
    BY <1>2, <1>8 DEF BucketAt
  <2> QED
    BY <1>3, <1>4, <1>5, <1>6, <2>1
<1> QED
  BY <1>7, <1>8

(* A reader finds the same in the new bucket, or has found the old one.    *)
LEMMA RelinkReaders ==
  ASSUME Types, Types', Heap, Heap', References, Readers, UNCHANGED <<arrays, owned, contents, reads>>,
         NEW a \in Writable, NEW i \in Index, a \in Intact, K(i) \in DOMAIN Table(a), NewBucket(a, i)
  PROVE  Readers'
<1> SUFFICES ASSUME NEW r \in Reader
             PROVE  ReadIs(r)'
  BY DEF Readers, ReadIs
<1>1. ASSUME reads[r].at # "idle", ~reads[r].changed
      PROVE  ReadOK(r)'
  <2>1. PICK c, j, p : c = reads[r].array /\ j = reads[r].index /\ p = reads[r].ptr
    OBVIOUS
  <2>2. PICK n, b : n = NewB /\ b = Table(a)[K(i)]
    OBVIOUS
  <2>3. /\ ReadOK(r)
        /\ c \in Intact /\ c \in DOMAIN arrays /\ j \in Index /\ arrays[c].st = "live"
        /\ Len(Table(c)) = arrays[c].size /\ \A e \in Entries[c] : buckets[e].st = "live"
        /\ reads[r].at = "element" => p \in DOMAIN buckets
    BY <1>1, <2>1, ReadNow
  <2>4. /\ Intact' = Intact /\ n \in DOMAIN buckets' /\ n \notin DOMAIN buckets
        /\ DOMAIN Table(a)' = DOMAIN Table(a) /\ Len(Table(a)') = Len(Table(a)) /\ Table(a)'[K(i)] = n
        /\ \A k \in DOMAIN Table(a) : k # K(i) => Table(a)'[k] = Table(a)[k]
        /\ c # a => Table(c)' = Table(c) /\ Entries'[c] = Entries[c]
        /\ n \in Entries'[a] /\ \A e \in Entries'[a] : e = n \/ e \in Entries[a]
        /\ \A x \in DOMAIN arrays : x # a => Entries'[x] = Entries[x]
    BY <2>2, <2>3, RelinkEntries
  <2>5. /\ buckets'[n].st = buckets[b].st /\ \A e \in DOMAIN buckets : buckets'[e] = buckets[e]
        /\ b = arrays[a].empty \/ buckets[b].version # arrays[a].version
    BY <2>2 DEF NewBucket, BucketsAdded
  <2>6. b \in Entries[a] /\ a \in DOMAIN arrays
    BY <2>2, EntriesNow DEF EntriesFact, Types
  <2>7. \A e \in Entries'[c] : buckets'[e].st = "live"
    <3>1. \A e \in Entries[c] : buckets'[e].st = "live"
      BY <2>3, <2>5, OwnIn
    <3>2. c = a => buckets'[n].st = "live"
      BY <2>3, <2>5, <2>6
    <3> QED
      BY <2>4, <3>1, <3>2
  <2>8. Get(c, j)' = Get(c, j)
    BY <2>3, <2>7, RelinkGet
  <2>9. Len(Table(c)') = Len(Table(c)) /\ Writable' = Writable
    BY <2>4 DEF Writable
  <2>10. ASSUME reads[r].at = "element"
         PROVE  /\ buckets'[p].st = "live" /\ buckets'[p].elems[j % BucketSize] \in reads[r].right
                /\ \A x \in Writable' : Own(x, p)' /\ p # arrays'[x].empty => x = c /\ Table(c)'[K(j)] = p
    <3>1. /\ buckets[p].st = "live" /\ buckets[p].elems[j % BucketSize] \in reads[r].right /\ p \in DOMAIN buckets
          /\ \A x \in Writable : Own(x, p) /\ p # arrays[x].empty => x = c /\ Table(c)[K(j)] = p
          /\ K(j) <= Len(Table(c))
      BY <2>1, <2>3, <2>10 DEF ReadOK
    <3>2. ASSUME NEW x \in Writable', Own(x, p)', p # arrays'[x].empty
          PROVE  x = c /\ Table(c)'[K(j)] = p
      <4>1. x \in Writable /\ x \in DOMAIN arrays /\ p # n
        BY <2>4, <2>9, <3>1, <3>2, WritableIs DEF Types
      <4>2. p \in Entries[x] /\ Own(x, p)
        BY <2>4, <2>5, <3>1, <3>2, <4>1 DEF Own
      <4>3. x = c /\ Table(c)[K(j)] = p
        BY <3>1, <3>2, <4>1, <4>2
      <4>4. K(j) \in DOMAIN Table(c)
        <5>1. DOMAIN Table(c) = 1..Len(Table(c)) /\ Len(Table(c)) \in Nat
          BY <2>3, EntriesNow DEF EntriesFact, Types
        <5>2. K(j) \in Nat \ {0}
          BY <2>3, IndexIs, IndexNat
        <5> QED
          BY <3>1, <5>1, <5>2
      <4>5. CASE c = a
        <5>1. K(j) # K(i)
          BY <2>2, <2>5, <3>2, <4>2, <4>3, <4>5 DEF Own
        <5> QED
          BY <2>4, <4>3, <4>4, <4>5, <5>1
      <4> QED
        BY <2>4, <4>3, <4>5
    <3> QED
      BY <2>5, <3>1, <3>2
  <2> QED
    BY <2>1, <2>3, <2>4, <2>7, <2>8, <2>9, <2>10 DEF ReadOK
<1> QED
  BY <1>1 DEF Readers, ReadIs

(* The array has the bucket it is to write to for its own.                 *)
LEMMA OwnBucketKeeps ==
  ASSUME Inv, OwnBucket
  PROVE  Inv'
<1>0. /\ Types /\ Heap /\ References /\ Sizes /\ Steps /\ Content /\ Readers /\ Alive /\ ProgramOK /\ ReadsOK
  BY InvParts
<1>1. todo # <<>> /\ todo[1].do = "bucket"
  BY <1>0, TodoIs DEF OwnBucket, Do
<1>2. PICK a \in Writable, i \in Index, v \in Value : contents[a][i] = v /\ WriteBucket(a, i, v)
  BY <1>0, <1>1, StepForm
<1>3. Writing(a, i, v) /\ a \in owned /\ a \in DOMAIN arrays
  BY <1>0, <1>2, WritableIs DEF Writing
<1>4. Whole(a) /\ a \in Intact
  BY <1>0, <1>3, WholeNow DEF WholeFact, Whole, Types
<1>5. PICK b : b = Table(a)[K(i)]
  OBVIOUS
<1>6. K(i) \in DOMAIN Table(a) /\ b \in Entries[a] /\ b \in DOMAIN buckets
  <2>1. DOMAIN Table(a) = 1..Len(Table(a)) /\ Len(Table(a)) \in Nat
    BY <1>0, <1>4, EntriesNow DEF EntriesFact, Types
  <2>2. K(i) \in Nat \ {0} /\ K(i) <= Len(Table(a))
    BY <1>2, IndexIs, IndexNat DEF WriteBucket
  <2>3. K(i) \in DOMAIN Table(a)
    BY <2>1, <2>2
  <2>4. b \in Entries[a]
    BY <1>0, <1>4, <1>5, <2>3, EntriesNow DEF EntriesFact, Types
  <2> QED
    BY <1>0, <1>3, <2>3, <2>4, OwnIn
<1>7. /\ Types' /\ UNCHANGED <<arrays, owned, contents, reads>>
      /\ \/ UNCHANGED <<buckets, tables>> /\ todo' = <<>> /\ buckets[b].elems[i % BucketSize] = v
         \/ /\ Len(todo') = 1 /\ todo'[1] = ElementStep(a, i, v)
            /\ \/ UNCHANGED <<buckets, tables>> /\ b # arrays[a].empty /\ buckets[b].version = arrays[a].version
               \/ NewBucket(a, i)
  BY <1>0, <1>2, <1>4, <1>5, <1>6, OwnBucketStep
<1>8. \A x \in DOMAIN arrays' : ~Freed(x)'
  <2>1. ElementStep(a, i, v).do # "free"
    BY DEF ElementStep
  <2> QED
    BY <1>7, <2>1, NoTodo, NotFreed
<1>9. References'
  BY <1>0, <1>7, <1>8, RefsKept
<1>10. CASE UNCHANGED <<buckets, tables>>
  <2>1. Same /\ Heap'
    BY <1>0, <1>7, <1>10, StillHeap
  <2>2. Intact' = Intact /\ Entries' = Entries /\ \A c \in DOMAIN arrays : Table(c)' = Table(c)
    BY <2>1, SameTables
  <2>3. Sizes'
    BY <1>0, <1>1, <1>7, <2>2, SizesKept DEF Intact
  <2>4. Alive'
    BY <2>1 DEF Heap
  <2>5. Readers'
    <3>1. SameReads
      BY <1>7 DEF SameReads
    <3> QED
      BY <1>0, <1>7, <1>10, <2>1, <3>1, ReadersSame
  <2>6. CASE todo' = <<>> /\ buckets[b].elems[i % BucketSize] = v
    <3>1. Freeing'
      BY <2>6, NoTodo DEF Freeing
    <3>2. Content'
      <4> SUFFICES ASSUME NEW c \in owned', NEW j \in Index
                   PROVE  Get(c, j)' = contents'[c][j]
        BY DEF Content
      <4>1. Get(c, j)' = Get(c, j)
        BY <1>7, <1>10 DEF Get
      <4>2. CASE c = a /\ j = i
        <5>1. BucketAt(c, j) = b
          BY <1>5, <1>6, <4>2 DEF BucketAt
        <5>2. Get(c, j) = buckets[b].elems[i % BucketSize]
          BY <1>0, <1>4, <4>2, <5>1, GetNow DEF GetFact, Types, Whole
        <5> QED
          BY <1>2, <1>7, <2>6, <4>1, <4>2, <5>2
      <4>3. CASE ~(c = a /\ j = i)
        <5>1. \A w : ~Writing(c, j, w)
          BY <1>0, <1>3, <4>3, WritingOne
        <5> QED
          BY <1>0, <1>7, <4>1, <5>1 DEF Content
      <4> QED
        BY <4>2, <4>3
    <3> QED
      BY <1>7, <1>9, <2>1, <2>3, <2>5, <3>1, <3>2 DEF Inv, Steps
  <2>7. CASE /\ Len(todo') = 1 /\ todo'[1] = ElementStep(a, i, v)
             /\ b # arrays[a].empty /\ buckets[b].version = arrays[a].version
    <3>1. Own(a, b)' /\ a \in Writable'
      BY <1>2, <1>6, <1>7, <1>10, <2>2, <2>7 DEF Own, Writable
    <3>2. Own(a, Table(a)[K(i)])'
      <4>1. b = Table(a)'[K(i)]
        BY <1>3, <1>5, <2>2
      <4> QED
        BY <3>1, <4>1 DEF Own
    <3>3. WriteElement(a, i, v)'
      <4>1. Table(a)' = Table(a) /\ K(i) <= Len(Table(a))
        BY <1>2, <1>3, <2>2 DEF WriteBucket
      <4> QED
        BY <1>5, <1>7, <2>7, <3>2, <4>1 DEF WriteElement, ElementStep
    <3>4. Writing(a, i, v)'
      BY <1>2, <1>7, <3>1, <3>3 DEF Writing
    <3>5. Steps'
      BY <1>3, <1>7, <3>4 DEF Steps, SomeWriting
    <3>6. Content'
      <4>1. \A c \in owned' : c \in DOMAIN arrays
        BY <1>0, <1>7 DEF ProgramOK
      <4> QED
        BY <1>0, <1>3, <1>7, <1>9, <1>10, <2>2, <2>4, <3>4, <4>1, ContentKept
    <3> QED
      BY <1>7, <1>9, <2>1, <2>3, <2>5, <3>5, <3>6 DEF Inv
  <2>8. CASE NewBucket(a, i)
    <3>1. NewB \in DOMAIN buckets' /\ NewB \notin DOMAIN buckets
      BY <2>8 DEF NewBucket, BucketsAdded
    <3> QED
      BY <1>10, <3>1
  <2> QED
    BY <1>7, <2>6, <2>7, <2>8
<1>11. CASE Len(todo') = 1 /\ todo'[1] = ElementStep(a, i, v) /\ NewBucket(a, i)
  <2>1. Heap'
    BY <1>0, <1>2, <1>4, <1>6, <1>7, <1>11, RelinkHeap
  <2>2. PICK n : n = NewB
    OBVIOUS
  <2>3. /\ Intact' = Intact /\ n \in DOMAIN buckets' /\ n \notin DOMAIN buckets
        /\ DOMAIN Table(a)' = DOMAIN Table(a) /\ Len(Table(a)') = Len(Table(a)) /\ Table(a)'[K(i)] = n
        /\ \A c \in Intact : c # a => Table(c)' = Table(c)
        /\ n \in Entries'[a]
    BY <1>0, <1>4, <1>6, <1>7, <1>11, <2>2, RelinkEntries
  <2>4. buckets'[n].version = arrays[a].version
    BY <1>11, <2>2 DEF NewBucket
  <2>5. Writing(a, i, v)'
    <3>1. Own(a, n)'
      BY <1>7, <2>3, <2>4 DEF Own
    <3>2. n # arrays[a].empty
      BY <1>0, <1>3, <2>3, ArrayIs DEF Types
    <3>3. Own(a, Table(a)[K(i)])'
      BY <2>3, <3>1 DEF Own
    <3>4. WriteElement(a, i, v)'
      <4>1. K(i) <= Len(Table(a)') /\ Table(a)'[K(i)] # arrays'[a].empty
        BY <1>2, <1>7, <2>3, <3>2 DEF WriteBucket
      <4> QED
        BY <1>11, <3>3, <4>1 DEF WriteElement, ElementStep
    <3>5. a \in Writable'
      BY <1>2, <1>7 DEF Writable
    <3> QED
      BY <1>2, <1>7, <3>4, <3>5 DEF Writing
  <2>6. Steps'
    BY <1>3, <1>7, <2>5 DEF Steps, SomeWriting
  <2>7. Sizes'
    <3>1. \A c \in Intact' : c \in Intact /\ Len(Table(c))' = Len(Table(c)) /\ arrays'[c].size = arrays[c].size
      BY <1>7, <2>3
    <3> QED
      BY <1>0, <1>1, <3>1, SizesKept
  <2>8. Alive'
    BY <2>1 DEF Heap
  <2>9. Content'
    <3> SUFFICES ASSUME NEW c \in owned', NEW j \in Index
                 PROVE  Get(c, j)' = contents'[c][j] \/ \E w \in Value : Writing(c, j, w)'
      BY DEF Content
    <3>1. Whole(c) /\ Whole(c)' /\ c \in DOMAIN arrays
      BY <1>0, <1>7, <1>9, <2>8, WholeNow, WholeThen DEF WholeFact, Types, ProgramOK
    <3>2. Get(c, j)' = Get(c, j)
      <4>1. /\ c \in Intact /\ arrays[c].st = "live" /\ \A e \in Entries[c] : buckets[e].st = "live"
            /\ \A e \in Entries'[c] : buckets'[e].st = "live"
        BY <3>1 DEF Whole
      <4> QED
        BY <1>0, <1>4, <1>6, <1>7, <1>11, <2>1, <4>1, RelinkGet
    <3>3. CASE c = a /\ j = i
      BY <2>5, <3>3
    <3>4. CASE ~(c = a /\ j = i)
      <4>1. \A w : ~Writing(c, j, w)
        BY <1>0, <1>3, <3>4, WritingOne
      <4> QED
        BY <1>0, <1>7, <3>2, <4>1 DEF Content
    <3> QED
      BY <3>3, <3>4
  <2>10. Readers'
    BY <1>0, <1>2, <1>4, <1>6, <1>7, <1>11, <2>1, RelinkReaders
  <2> QED
    BY <1>7, <1>9, <2>1, <2>6, <2>7, <2>9, <2>10 DEF Inv
<1> QED
  BY <1>7, <1>10, <1>11

-----------------------------------------------------------------------------
(* An array gets a longer table.                                           *)
Longer(a, n) ==
  /\ UNCHANGED <<buckets, owned>>
  /\ DOMAIN arrays' = DOMAIN arrays /\ Others(a) /\ a \in DOMAIN arrays
  /\ arrays'[a].st = arrays[a].st /\ arrays'[a].buckets = NewP
  /\ arrays'[a].empty = arrays[a].empty /\ arrays'[a].version = arrays[a].version
  /\ arrays'[a].ref = arrays[a].ref /\ arrays'[a].copyOf = arrays[a].copyOf
  /\ TablesAdded /\ tables'[NewP].st = "live"
  /\ n \in Nat /\ Len(Table(a)) < n
  /\ Len(tables'[NewP].at) = n /\ DOMAIN tables'[NewP].at = 1..n
  /\ \A k \in 1..n : tables'[NewP].at[k] = IF k \in DOMAIN Table(a) THEN Table(a)[k] ELSE arrays[a].empty

(* A longer table has the buckets of the old one.                          *)
LEMMA LongerEntries ==
  ASSUME Types, Types', Heap, NEW a \in Intact, NEW n, Longer(a, n)
  PROVE  /\ Intact' = Intact /\ Len(Table(a)') = n /\ DOMAIN Table(a)' = 1..n
         /\ DOMAIN Table(a) \subseteq 1..n
         /\ \A k \in 1..n : Table(a)'[k] = IF k \in DOMAIN Table(a) THEN Table(a)[k] ELSE arrays[a].empty
         /\ \A c \in Intact : c # a => Table(c)' = Table(c)
         /\ \A c \in DOMAIN arrays : Entries'[c] = Entries[c]
         /\ \A c \in DOMAIN arrays :
              /\ arrays'[c].st = arrays[c].st /\ (c # a => arrays'[c].buckets = arrays[c].buckets)
              /\ arrays'[c].version = arrays[c].version /\ arrays'[c].empty = arrays[c].empty
              /\ arrays'[c].copyOf = arrays[c].copyOf /\ arrays'[c].ref = arrays[c].ref
<1>1. PICK p : p = NewP
  OBVIOUS
<1>2. /\ a \in DOMAIN arrays /\ arrays'[a].buckets = p /\ arrays'[a].empty = arrays[a].empty
      /\ p \in DOMAIN tables' /\ p \notin DOMAIN tables /\ p # 0
      /\ \A q \in DOMAIN tables : tables'[q] = tables[q]
      /\ tables'[p].st = "live" /\ Len(tables'[p].at) = n /\ DOMAIN tables'[p].at = 1..n
      /\ n \in Nat /\ Len(Table(a)) < n
      /\ \A k \in 1..n : tables'[p].at[k] = IF k \in DOMAIN Table(a) THEN Table(a)[k] ELSE arrays[a].empty
      /\ \A c \in DOMAIN arrays : c # a => arrays'[c] = arrays[c]
      /\ DOMAIN arrays' = DOMAIN arrays
  BY <1>1 DEF Longer, TablesAdded, Others
<1>3. Table(a)' = tables'[p].at
  BY <1>2 DEF Table
<1>4. /\ DOMAIN Table(a) = 1..Len(Table(a)) /\ Len(Table(a)) \in Nat \ {0}
  BY EntriesNow DEF EntriesFact, Types
<1>5. \A c \in DOMAIN arrays : arrays[c].buckets # 0 => arrays[c].buckets \in DOMAIN tables
  BY ArrayIs DEF Types
<1>6. Intact' = Intact
  <2>1. \A c \in DOMAIN arrays : c # a => (c \in Intact' <=> c \in Intact)
    BY <1>2, <1>5 DEF Intact
  <2>2. a \in Intact'
    BY <1>2 DEF Intact
  <2>3. Intact \subseteq DOMAIN arrays /\ Intact' \subseteq DOMAIN arrays
    BY <1>2 DEF Intact
  <2> QED
    BY <2>1, <2>2, <2>3
<1>7. \A c \in Intact : c # a => Table(c)' = Table(c)
  BY <1>2, <1>5 DEF Intact, Table
<1>8. \A c \in DOMAIN arrays : Entries'[c] = Entries[c]
  <2> TAKE c \in DOMAIN arrays
  <2>1. c \in DOMAIN arrays'
    BY <1>2
  <2>2. Entries'[c] = IF c \in Intact THEN {Table(c)'[k] : k \in DOMAIN Table(c)'} \cup {arrays'[c].empty} ELSE {}
    BY <1>6, <2>1 DEF Entries
  <2>3. Entries[c] = IF c \in Intact THEN {Table(c)[k] : k \in DOMAIN Table(c)} \cup {arrays[c].empty} ELSE {}
    BY DEF Entries
  <2>4. CASE c # a
    <3>1. c \in Intact => Table(c)' = Table(c)
      BY <1>7, <2>4
    <3>2. arrays'[c].empty = arrays[c].empty
      BY <1>2, <2>4
    <3> QED
      BY <2>2, <2>3, <3>1, <3>2
  <2>5. CASE c = a
    <3>1. DOMAIN Table(a) \subseteq 1..n
      BY <1>2, <1>4
    <3>2. Entries'[c] \subseteq Entries[c]
      BY <1>2, <1>3, <2>2, <2>3, <2>5
    <3>3. Entries[c] \subseteq Entries'[c]
      BY <1>2, <1>3, <2>2, <2>3, <2>5, <3>1
    <3> QED
      BY <3>2, <3>3
  <2> QED
    BY <2>4, <2>5
<1>9. DOMAIN Table(a) \subseteq 1..n
  BY <1>2, <1>4
<1>10. \A c \in DOMAIN arrays :
         /\ arrays'[c].st = arrays[c].st /\ (c # a => arrays'[c].buckets = arrays[c].buckets)
         /\ arrays'[c].version = arrays[c].version /\ arrays'[c].empty = arrays[c].empty
         /\ arrays'[c].copyOf = arrays[c].copyOf /\ arrays'[c].ref = arrays[c].ref
  BY DEF Longer, Others
<1> QED
  BY <1>2, <1>3, <1>6, <1>7, <1>8, <1>9, <1>10

(* What is said of the buckets survives a longer table.                    *)
LEMMA LongerHeap ==
  ASSUME Types, Types', Heap, NEW a \in Intact, NEW n, Longer(a, n)
  PROVE  Heap'
<1>0. /\ Apart /\ Versions /\ SameEmpty /\ Owners /\ Placed /\ Shared /\ From /\ Alive /\ Empties
      /\ a \in DOMAIN arrays
  BY DEF Heap, Intact
<1>1. /\ Intact' = Intact /\ Len(Table(a)') = n /\ DOMAIN Table(a)' = 1..n
      /\ DOMAIN Table(a) \subseteq 1..n
      /\ \A k \in 1..n : Table(a)'[k] = IF k \in DOMAIN Table(a) THEN Table(a)[k] ELSE arrays[a].empty
      /\ \A c \in Intact : c # a => Table(c)' = Table(c)
      /\ \A c \in DOMAIN arrays : Entries'[c] = Entries[c]
      /\ \A c \in DOMAIN arrays :
           /\ arrays'[c].st = arrays[c].st /\ (c # a => arrays'[c].buckets = arrays[c].buckets)
           /\ arrays'[c].version = arrays[c].version /\ arrays'[c].empty = arrays[c].empty
           /\ arrays'[c].copyOf = arrays[c].copyOf /\ arrays'[c].ref = arrays[c].ref
  BY LongerEntries
<1>2. DOMAIN arrays' = DOMAIN arrays /\ buckets' = buckets /\ owned' = owned
  BY DEF Longer
<1>3. \A c \in DOMAIN arrays : \A e : Own(c, e)' <=> Own(c, e)
  BY <1>1, <1>2 DEF Own
<1>4. Writable' = Writable
  <2>1. owned \subseteq DOMAIN arrays
    BY DEF Types, ProgramOK
  <2> QED
    BY <1>1, <1>2, <2>1 DEF Writable
<1>5. Apart'
  <2>1. PICK p : p = NewP
    OBVIOUS
  <2>2. arrays'[a].buckets = p /\ p \notin DOMAIN tables
    BY <2>1 DEF Longer, TablesAdded
  <2>3. \A c \in Intact : c \in DOMAIN arrays /\ arrays[c].buckets \in DOMAIN tables
    BY ArrayIs DEF Intact, Types
  <2>4. \A c \in Intact : c # a => arrays'[c].buckets = arrays[c].buckets
    BY <1>1, <2>3
  <2> QED
    BY <1>0, <1>1, <2>2, <2>3, <2>4 DEF Apart
<1>6. Versions' /\ SameEmpty' /\ Owners' /\ Shared'
  <2>1. Versions' /\ SameEmpty'
    BY <1>0, <1>1, <1>2 DEF Versions, SameEmpty
  <2>2. Owners'
    BY <1>0, <1>1, <1>2, <1>3 DEF Owners
  <2>3. Shared'
    BY <1>0, <1>1, <1>2, <1>3, <1>4 DEF Shared
  <2> QED
    BY <2>1, <2>2, <2>3
<1>7. Placed'
  <2> SUFFICES ASSUME NEW c \in Intact', NEW j \in DOMAIN Table(c)', NEW k \in DOMAIN Table(c)',
                      Table(c)'[j] = Table(c)'[k], Own(c, Table(c)[j])', Table(c)'[j] # arrays'[c].empty
               PROVE  j = k
    BY DEF Placed
  <2>1. c \in Intact /\ c \in DOMAIN arrays
    BY <1>1 DEF Intact
  <2>2. PICK e : e = Table(c)'[j]
    OBVIOUS
  <2>3. Own(c, e)'
    BY <2>2
  <2>4. Own(c, e) /\ e # arrays[c].empty
    BY <1>1, <1>3, <2>1, <2>2, <2>3
  <2>5. j \in DOMAIN Table(c) /\ k \in DOMAIN Table(c) /\ Table(c)[j] = e /\ Table(c)[k] = e
    BY <1>1, <2>1, <2>2, <2>4
  <2> QED
    BY <1>0, <2>1, <2>4, <2>5 DEF Placed
<1>8. From'
  <2> SUFFICES ASSUME NEW c \in DOMAIN arrays, NEW e \in Entries'[c], arrays'[c].ref > 0,
                      buckets'[e].version < arrays'[c].version
               PROVE  arrays'[c].copyOf # 0 /\ e \in Entries'[arrays'[c].copyOf]
    BY <1>2 DEF From
  <2>1. arrays[c].copyOf # 0 /\ e \in Entries[arrays[c].copyOf]
    BY <1>0, <1>1, <1>2 DEF From
  <2>2. arrays[c].copyOf \in DOMAIN arrays
    BY <2>1, CopyIs DEF Types
  <2> QED
    BY <1>1, <2>1, <2>2
<1>9. Alive' /\ Empties'
  <2>1. Alive'
    BY <1>0, <1>1, <1>2 DEF Alive
  <2>2. Empties'
    BY <1>0, <1>1, <1>2 DEF Empties
  <2> QED
    BY <2>1, <2>2
<1> QED
  BY <1>5, <1>6, <1>7, <1>8, <1>9 DEF Heap

(* What is read through a longer table is what was read.                   *)
LEMMA LongerGet ==
  ASSUME Types, Types', Heap, Heap', NEW a \in Intact, NEW n, Longer(a, n),
         NEW c \in Intact, NEW j \in Index, arrays[c].st = "live",
         \A e \in Entries[c] : buckets[e].st = "live"
  PROVE  Get(c, j)' = Get(c, j)
<1>1. /\ Intact' = Intact /\ DOMAIN Table(a)' = 1..n /\ DOMAIN Table(a) \subseteq 1..n
      /\ \A k \in 1..n : Table(a)'[k] = IF k \in DOMAIN Table(a) THEN Table(a)[k] ELSE arrays[a].empty
      /\ c # a => Table(c)' = Table(c)
      /\ c \in DOMAIN arrays
      /\ Entries'[c] = Entries[c] /\ arrays'[c].st = arrays[c].st /\ arrays'[c].empty = arrays[c].empty
  <2>1. c \in DOMAIN arrays
    BY DEF Intact
  <2>2. /\ Intact' = Intact /\ DOMAIN Table(a)' = 1..n /\ DOMAIN Table(a) \subseteq 1..n
        /\ \A k \in 1..n : Table(a)'[k] = IF k \in DOMAIN Table(a) THEN Table(a)[k] ELSE arrays[a].empty
        /\ \A d \in Intact : d # a => Table(d)' = Table(d)
        /\ \A d \in DOMAIN arrays : Entries'[d] = Entries[d]
        /\ \A d \in DOMAIN arrays : arrays'[d].st = arrays[d].st /\ arrays'[d].empty = arrays[d].empty
    BY LongerEntries
  <2> QED
    BY <2>1, <2>2
<1>2. buckets' = buckets
  BY DEF Longer
<1>3. Get(c, j) = buckets[BucketAt(c, j)].elems[j % BucketSize]
  BY GetNow DEF GetFact, Types
<1>4. Get(c, j)' = buckets'[BucketAt(c, j)'].elems[j % BucketSize]
  BY <1>1, <1>2, GetThen DEF GetFact, Types
<1>5. BucketAt(c, j)' = BucketAt(c, j)
  BY <1>1 DEF BucketAt
<1> QED
  BY <1>2, <1>3, <1>4, <1>5

-----------------------------------------------------------------------------
(* The new table is installed, and the old one is nobody's.                *)
LEMMA InstallKeeps ==
  ASSUME Inv, InstallTable
  PROVE  Inv'
<1>0. /\ Types /\ Heap /\ References /\ Sizes /\ Steps /\ Content /\ Readers /\ Alive /\ ProgramOK /\ ReadsOK /\ Apart
  BY InvParts
<1>1. todo # <<>> /\ todo[1].do = "install"
  BY <1>0, TodoIs DEF InstallTable, Do
<1>2. PICK a \in Writable, i \in Index, v \in Value : contents[a][i] = v /\ WriteInstall(a, i, v)
  BY <1>0, <1>1, StepForm
<1>3. Writing(a, i, v) /\ a \in owned /\ a \in DOMAIN arrays
  BY <1>0, <1>2, WritableIs DEF Writing
<1>4. Whole(a) /\ a \in Intact
  BY <1>0, <1>3, WholeNow DEF WholeFact, Whole, Types
<1>5. PICK n : n = todo[1].n
  OBVIOUS
<1>6. /\ Types' /\ Popped /\ UNCHANGED <<buckets, owned, contents, reads>>
      /\ arrays'[a].size = n /\ K(i) <= n /\ n \in Nat /\ Len(Table(a)) < n
      /\ DOMAIN arrays' = DOMAIN arrays /\ Others(a) /\ TablesAdded
  BY <1>0, <1>2, <1>4, <1>5, InstallStep
<1>7. Longer(a, n)
  BY <1>0, <1>2, <1>4, <1>5, InstallStep DEF Longer
<1>8. Heap'
  BY <1>0, <1>4, <1>6, <1>7, LongerHeap
<1>9. /\ Intact' = Intact /\ Len(Table(a)') = n
      /\ \A c \in Intact : c # a => Table(c)' = Table(c)
      /\ \A c \in DOMAIN arrays : Entries'[c] = Entries[c]
      /\ \A c \in DOMAIN arrays :
           /\ arrays'[c].st = arrays[c].st /\ (c # a => arrays'[c].buckets = arrays[c].buckets)
           /\ arrays'[c].version = arrays[c].version /\ arrays'[c].empty = arrays[c].empty
           /\ arrays'[c].copyOf = arrays[c].copyOf /\ arrays'[c].ref = arrays[c].ref
  BY <1>0, <1>4, <1>6, <1>7, LongerEntries
<1>10. Writable' = Writable
  BY <1>0, <1>6, <1>9 DEF Writable, ProgramOK
<1>11. /\ Len(todo) = 4 /\ Len(todo') = 3 /\ todo'[1] = todo[2] /\ todo'[2] = todo[3] /\ todo'[3] = todo[4]
       /\ todo[2] = DiscardStep("table", arrays[a].buckets)
       /\ todo[3] = BucketStep(a, i, v) /\ todo[4] = ElementStep(a, i, v)
       /\ arrays[a].size = n /\ todo[1].a = a
  <2>1. /\ Len(todo) = 4 /\ todo[2] = DiscardStep("table", arrays[a].buckets)
        /\ todo[3] = BucketStep(a, i, v) /\ todo[4] = ElementStep(a, i, v)
        /\ arrays[a].size = n /\ todo[1].a = a
    BY <1>2, <1>5 DEF WriteInstall, Sized
  <2> QED
    BY <1>6, <2>1 DEF Popped
<1>12. \A x \in DOMAIN arrays' : ~Freed(x)'
  BY <1>11, NotFreed
<1>13. References'
  BY <1>0, <1>6, <1>9, <1>12, RefsKept
<1>14. Sizes'
  <2>1. \A c \in Intact : c # a => Len(Table(c)) = arrays'[c].size
    BY <1>0, <1>6, <1>11 DEF Sizes, Growing, Others, Intact
  <2>2. \A c \in Intact : Len(Table(c)') = arrays'[c].size
    BY <1>6, <1>9, <2>1
  <2> QED
    BY <1>9, <2>2 DEF Sizes
<1>15. Writing(a, i, v)'
  <2>1. PICK p, t : p = arrays[a].buckets /\ t = DiscardStep("table", p)
    OBVIOUS
  <2>2. p \in DOMAIN tables /\ p \in DOMAIN tables' /\ tables'[p] = tables[p] /\ tables[p].st = "live"
    <3>1. p \in DOMAIN tables /\ tables[p].st = "live"
      BY <1>0, <1>4, <2>1, EntriesIs DEF Intact, Types
    <3> QED
      BY <1>6, <3>1 DEF TablesAdded
  <2>3. \A c \in DOMAIN arrays : arrays'[c].buckets # p
    <3> SUFFICES ASSUME NEW c \in DOMAIN arrays, arrays'[c].buckets = p
                 PROVE  FALSE
      OBVIOUS
    <3>1. CASE c = a
      <4>1. NewP \notin DOMAIN tables /\ arrays'[a].buckets = NewP
        BY <1>7 DEF Longer, TablesAdded
      <4> QED
        BY <2>2, <3>1, <4>1
    <3>2. CASE c # a
      <4>1. arrays[c].buckets = p
        BY <1>9, <3>2
      <4>2. c \in Intact
        BY <1>4, <2>1, <4>1 DEF Intact
      <4> QED
        BY <1>0, <1>4, <2>1, <3>2, <4>1, <4>2 DEF Apart
    <3> QED
      BY <3>1, <3>2
  <2>4. Orphan(p)'
    BY <1>6, <2>2, <2>3 DEF Orphan
  <2>5. t.do = "discard" /\ t.what = "table" /\ t.id = p
    BY <2>1 DEF DiscardStep
  <2>6. Discards(todo[1], "table")' /\ todo'[1].id = p
    BY <1>11, <2>1, <2>5 DEF Discards
  <2>7. Orphan(todo[1].id)'
    BY <2>4, <2>6 DEF Orphan
  <2>8. K(i) <= Len(Table(a)')
    BY <1>6, <1>9
  <2>9. WriteDiscard(a, i, v)'
    BY <1>11, <2>6, <2>7, <2>8 DEF WriteDiscard, BucketStep, ElementStep
  <2> QED
    BY <1>2, <1>6, <1>10, <2>9 DEF Writing
<1>16. Steps'
  BY <1>3, <1>6, <1>15 DEF Steps, SomeWriting
<1>17. Alive'
  BY <1>8 DEF Heap
<1>18. Content'
  <2> SUFFICES ASSUME NEW c \in owned', NEW j \in Index
               PROVE  Get(c, j)' = contents'[c][j] \/ \E w \in Value : Writing(c, j, w)'
    BY DEF Content
  <2>1. Whole(c) /\ c \in Intact
    BY <1>0, <1>6, WholeNow DEF WholeFact, Types, Whole
  <2>2. Get(c, j)' = Get(c, j)
    <3>1. arrays[c].st = "live" /\ \A e \in Entries[c] : buckets[e].st = "live"
      BY <2>1 DEF Whole
    <3> QED
      BY <1>0, <1>4, <1>6, <1>7, <1>8, <2>1, <3>1, LongerGet
  <2>3. CASE c = a /\ j = i
    BY <1>15, <2>3
  <2>4. CASE ~(c = a /\ j = i)
    <3>1. \A w : ~Writing(c, j, w)
      BY <1>0, <1>3, <2>4, WritingOne
    <3> QED
      BY <1>0, <1>6, <2>2, <3>1 DEF Content
  <2> QED
    BY <2>3, <2>4
<1>19. Readers'
  <2> SUFFICES ASSUME NEW r \in Reader
               PROVE  ReadIs(r)'
    BY DEF Readers, ReadIs
  <2>1. ASSUME reads[r].at # "idle", ~reads[r].changed
        PROVE  ReadOK(r)'
    <3>1. PICK c, j, p : c = reads[r].array /\ j = reads[r].index /\ p = reads[r].ptr
      OBVIOUS
    <3>2. /\ ReadOK(r)
          /\ c \in Intact /\ c \in DOMAIN arrays /\ j \in Index /\ arrays[c].st = "live"
          /\ Len(Table(c)) = arrays[c].size /\ \A e \in Entries[c] : buckets[e].st = "live"
          /\ reads[r].at = "element" => p \in DOMAIN buckets
      BY <1>0, <2>1, <3>1, ReadNow
    <3>3. c # a
      <4>1. Len(Table(a)) < arrays[a].size /\ Len(Table(a)) \in Nat /\ arrays[a].size \in Nat
        BY <1>0, <1>4, <1>6, <1>11, EntriesNow DEF EntriesFact, Types
      <4> QED
        BY <3>2, <4>1
    <3>4. /\ Table(c)' = Table(c) /\ arrays'[c] = arrays[c] /\ Entries'[c] = Entries[c]
      BY <1>6, <1>9, <3>2, <3>3 DEF Others
    <3>5. Get(c, j)' = Get(c, j)
      BY <1>0, <1>4, <1>6, <1>7, <1>8, <3>2, LongerGet
    <3>6. ASSUME reads[r].at = "element"
          PROVE  \A x \in Writable' : Own(x, p)' /\ p # arrays'[x].empty => x = c /\ Table(c)'[K(j)] = p
      <4>1. \A x \in Writable : Own(x, p) /\ p # arrays[x].empty => x = c /\ Table(c)[K(j)] = p
        BY <3>1, <3>2, <3>6 DEF ReadOK
      <4>2. \A x \in Writable : x \in DOMAIN arrays
        BY <1>0, WritableIs
      <4>3. \A x \in DOMAIN arrays : Own(x, p)' <=> Own(x, p)
        BY <1>6, <1>9 DEF Own
      <4> QED
        BY <1>9, <1>10, <3>4, <4>1, <4>2, <4>3
    <3> QED
      BY <1>6, <1>9, <3>1, <3>2, <3>4, <3>5, <3>6 DEF ReadOK
  <2> QED
    BY <1>0, <1>6, <2>1 DEF Readers, ReadIs
<1> QED
  BY <1>6, <1>8, <1>13, <1>14, <1>16, <1>18, <1>19 DEF Inv

-----------------------------------------------------------------------------
(* An array is freed.  Where each of the steps is.                         *)
LEMMA FormAt ==
  ASSUME NEW h \in {0, 1}, NEW n \in Nat, NEW m \in Nat, NEW l \in 1..(h + n + 3 + m)
  PROVE  \/ h = 1 /\ l = 1
         \/ l - h \in 1..n
         \/ l = h + n + 1 \/ l = h + n + 2 \/ l = h + n + 3
         \/ l - (h + n + 3) \in 1..m /\ l - (h + n + 3) \in Nat
OBVIOUS

(* The places of the four lists of sarray_free ().                         *)
LEMMA IndexOver ==
  ASSUME NEW h \in {0, 1}, NEW n \in Nat, NEW m \in Nat, NEW l \in 1..(h + n + 3 + m),
         ~(l <= h + n + 1), l # h + n + 2, l # h + n + 3
  PROVE  l - (h + n + 3) \in 1..m /\ l = h + n + 3 + (l - (h + n + 3))
OBVIOUS

(* What is done later has nothing to do with an array that is freed now.   *)
LEMMA NotLater ==
  ASSUME Types, Heap, Freeing, NEW x \in Intact, arrays[x].ref = 1, NEW u \in After(1)
  PROVE  /\ ~(u.do = "own" /\ u.a = x)
         /\ u # DiscardStep("table", arrays[x].buckets) /\ u # DiscardStep("array", x)
<1>0. ProgramOK /\ Apart
  BY DEF Types, Heap
<1>1. PICK rest : Later(u, rest)
  BY <1>0, LaterOnes
<1>2. ASSUME u.do = "own", u.a = x
      PROVE  FALSE
  BY <1>1, <1>2 DEF Later, OwnStep, TableGone, ArrayGone, Discards
<1>3. ASSUME u.do = "discard", u.what = "table", u.id = arrays[x].buckets
      PROVE  FALSE
  <2>1. TableGone(u, rest)
    BY <1>1, <1>3 DEF Later, OwnStep, ArrayGone, Discards
  <2>2. PICK c \in DOMAIN arrays : arrays[c].ref = 0 /\ arrays[c].buckets = arrays[x].buckets
    BY <1>3, <2>1 DEF TableGone
  <2>3. c \in Intact
    BY <2>2 DEF Intact
  <2> QED
    BY <1>0, <2>2, <2>3 DEF Apart
<1>4. ASSUME u.do = "discard", u.what = "array", u.id = x
      PROVE  FALSE
  BY <1>1, <1>4 DEF Later, OwnStep, TableGone, ArrayGone, Discards
<1> QED
  BY <1>2, <1>3, <1>4 DEF DiscardStep

(* Each step of sarray_free () throws away what is live and the array's    *)
(* own, once.                                                              *)
LEMMA FreeFormLater ==
  ASSUME Types, Types', Heap, References, Same, Freeing, todo # <<>>,
         NEW x \in Intact, arrays[x].ref = 1, arrays'[x].ref = 0, x \notin owned, owned' = owned, Others(x),
         arrays[x].st = "live", \A b \in Entries[x] : buckets[b].st = "live",
         NEW h \in {0, 1}, h = 1 => arrays[x].copyOf # 0 /\ arrays[arrays[x].copyOf].ref = 1,
         FreeForm(x, h, Len(Table(x)), Len(todo) - 1)
  PROVE  Freeing'
<1>0. /\ ProgramOK /\ Apart /\ Placed /\ x \in DOMAIN arrays /\ DOMAIN arrays' = DOMAIN arrays
  BY DEF Types, Heap, Intact, Same
<1>1. PICK n, m, p, e : n = Len(Table(x)) /\ m = Len(todo) - 1 /\ p = arrays[x].buckets /\ e = arrays[x].empty
  OBVIOUS
<1>2. /\ n \in Nat /\ DOMAIN Table(x) = 1..n /\ p \in DOMAIN tables
      /\ \A k \in 1..n : Table(x)[k] \in Entries[x]
      /\ e \in Entries[x] /\ m \in Nat /\ Len(todo) = m + 1
  BY <1>0, <1>1, TodoIs, EntriesIs DEF Types
<1>3. /\ Len(todo') = h + n + 3 + m
      /\ h = 1 => todo'[1] = FreeOne(arrays[x].copyOf)
      /\ \A k \in 1..n : todo'[h + k] = OwnOne(IF Table(x)[k] = e THEN "skip" ELSE "own", x, Table(x)[k])
      /\ todo'[h + n + 1] = OwnOne("own", x, e)
      /\ todo'[h + n + 2] = DiscardStep("table", p)
      /\ todo'[h + n + 3] = DiscardStep("array", x)
      /\ \A j \in 1..m : todo'[h + n + 3 + j] = todo[j + 1]
  BY <1>1 DEF FreeForm
<1>4. /\ Intact' = Intact /\ Entries' = Entries
      /\ arrays'[x].st = "live" /\ arrays'[x].buckets = p /\ arrays'[x].empty = e /\ tables' = tables
      /\ \A b \in DOMAIN buckets : buckets'[b].st = buckets[b].st
  BY <1>0, <1>1, SameTables DEF Same
<1>5. \A j \in 1..m : todo[j + 1] \in After(1)
  <2>1. \A j \in 1..m : j + 1 \in (1 + 1)..Len(todo)
    BY <1>2
  <2> QED
    BY <2>1 DEF After
<1>6. \A k \in 1..Len(todo') : \A u \in After(k)' : \E l \in 1..Len(todo') : k < l /\ u = todo'[l]
  BY <1>2, <1>3 DEF After
<1>7. \A k \in 1..Len(todo') : \A l \in 1..Len(todo') : k < l => todo'[l] \in After(k)'
  BY <1>2, <1>3 DEF After
<1>8. \A u \in After(1) : ~(u.do = "own" /\ u.a = x)
        /\ u # DiscardStep("table", p) /\ u # DiscardStep("array", x)
  BY <1>1, NotLater
<1>9. \A b \in Entries[x] : b \in DOMAIN buckets /\ buckets'[b].st = "live" /\ (Own(x, b)' <=> Own(x, b))
  BY <1>0, <1>4, OwnIn, OwnSame
<1>over. \A l \in 1..Len(todo') : ~(l <= h + n + 1) /\ l # h + n + 2 /\ l # h + n + 3
           => l - (h + n + 3) \in 1..m /\ l = h + n + 3 + (l - (h + n + 3))
  <2>1. 1..Len(todo') = 1..(h + n + 3 + m) /\ n \in Nat /\ m \in Nat
    BY <1>2, <1>3
  <2> QED
    BY <2>1, IndexOver
<1>10. ASSUME NEW k \in 1..Len(todo'), k = h + n + 3
       PROVE  Later(todo[k], After(k))'
  <2>1. PICK t, rest : t = todo'[k] /\ rest = After(k)'
    OBVIOUS
  <2>2. t = DiscardStep("array", x) /\ t.do = "discard" /\ t.what = "array" /\ t.id = x
    BY <1>3, <1>10, <2>1 DEF DiscardStep
  <2>3. ASSUME t \in rest
        PROVE  FALSE
    <3>1. PICK l \in 1..Len(todo') : k < l /\ t = todo'[l]
      BY <1>6, <2>1, <2>3
    <3>2. PICK j : j = l - (h + n + 3)
      OBVIOUS
    <3>3. j \in 1..m /\ l = h + n + 3 + j
      <4>1. ~(l <= h + n + 1) /\ l # h + n + 2 /\ l # h + n + 3
        BY <1>2, <1>3, <1>10, <3>1
      <4> QED
        BY <1>over, <3>2, <4>1
    <3> QED
      BY <1>3, <1>5, <1>8, <2>2, <3>1, <3>3
  <2>4. ArrayGone(t, rest)'
    BY <1>0, <1>4, <2>2, <2>3 DEF ArrayGone, Discards
  <2> QED
    BY <2>1, <2>4 DEF Later, OwnStep, TableGone, ArrayGone, Discards, Own
<1>11. ASSUME NEW k \in 1..Len(todo'), k = h + n + 2
       PROVE  Later(todo[k], After(k))'
  <2>1. PICK t, rest : t = todo'[k] /\ rest = After(k)'
    OBVIOUS
  <2>2. t = DiscardStep("table", p) /\ t.do = "discard" /\ t.what = "table" /\ t.id = p
    BY <1>3, <1>11, <2>1 DEF DiscardStep
  <2>3. ASSUME t \in rest
        PROVE  FALSE
    <3>1. PICK l \in 1..Len(todo') : k < l /\ t = todo'[l]
      BY <1>6, <2>1, <2>3
    <3>2. PICK j : j = l - (h + n + 3)
      OBVIOUS
    <3>3. CASE l = h + n + 3
      <4>1. t.what = "array"
        BY <1>3, <3>1, <3>3 DEF DiscardStep
      <4> QED
        BY <2>2, <4>1
    <3>4. CASE l # h + n + 3
      <4>1. j \in 1..m /\ l = h + n + 3 + j
        <5>1. ~(l <= h + n + 1) /\ l # h + n + 2
          BY <1>2, <1>3, <1>11, <3>1
        <5> QED
          BY <1>over, <3>2, <3>4, <5>1
      <4> QED
        BY <1>3, <1>5, <1>8, <2>2, <3>1, <4>1
    <3> QED
      BY <3>3, <3>4
  <2>4. DiscardStep("array", x) \in rest
    <3>1. h + n + 3 \in 1..Len(todo') /\ k < h + n + 3
      BY <1>2, <1>3, <1>11
    <3> QED
      BY <1>3, <1>7, <2>1, <3>1
  <2>5. p \in DOMAIN tables' /\ tables'[p].st = "live"
    BY <1>1, <1>2, <1>4 DEF Intact
  <2>6. TableGone(t, rest)'
    BY <1>0, <1>4, <2>2, <2>3, <2>4, <2>5 DEF TableGone, Discards
  <2> QED
    BY <2>1, <2>6 DEF Later, OwnStep, TableGone, ArrayGone, Discards, Own
<1>12. ASSUME NEW k \in 1..Len(todo'), NEW b \in Entries[x], k <= h + n + 1, todo'[k] = OwnOne("own", x, b),
              Own(x, b) => \A l \in 1..Len(todo') : k < l /\ l <= h + n + 1 => todo'[l] # OwnOne("own", x, b)
       PROVE  Later(todo[k], After(k))'
  <2>1. PICK t, rest : t = todo'[k] /\ rest = After(k)'
    OBVIOUS
  <2>2. t = OwnOne("own", x, b) /\ t.do = "own" /\ t.a = x /\ t.id = b
    BY <1>12, <2>1 DEF OwnOne
  <2>3. DiscardStep("table", p) \in rest
    <3>1. h + n + 2 \in 1..Len(todo') /\ k < h + n + 2
      BY <1>2, <1>3, <1>12
    <3> QED
      BY <1>3, <1>7, <2>1, <3>1
  <2>4. ASSUME Own(x, b), t \in rest
        PROVE  FALSE
    <3>1. PICK l \in 1..Len(todo') : k < l /\ t = todo'[l]
      BY <1>6, <2>1, <2>4
    <3>2. ~(l <= h + n + 1)
      BY <1>12, <2>2, <2>4, <3>1
    <3>3. l # h + n + 2 /\ l # h + n + 3
      BY <1>3, <2>2, <3>1 DEF DiscardStep
    <3>4. PICK j : j = l - (h + n + 3)
      OBVIOUS
    <3>5. j \in 1..m /\ l = h + n + 3 + j
      BY <1>over, <3>2, <3>3, <3>4
    <3> QED
      BY <1>3, <1>5, <1>8, <2>2, <3>1, <3>5
  <2>5. OwnStep(t, rest)'
    BY <1>0, <1>4, <1>9, <2>2, <2>3, <2>4 DEF OwnStep
  <2> QED
    BY <2>1, <2>5 DEF Later, OwnStep, TableGone, ArrayGone, Discards, Own
<1>13. ASSUME NEW k \in 1..Len(todo'), k = h + n + 1
       PROVE  Later(todo[k], After(k))'
  <2>1. \A l \in 1..Len(todo') : ~(k < l /\ l <= h + n + 1)
    BY <1>2, <1>3, <1>13
  <2>2. todo'[k] = OwnOne("own", x, e) /\ k <= h + n + 1
    BY <1>2, <1>3, <1>13
  <2> QED
    BY <1>2, <1>12, <2>1, <2>2
<1>14. ASSUME NEW k \in 1..Len(todo'), NEW j \in 1..n, k = h + j
       PROVE  Later(todo[k], After(k))'
  <2>1. PICK b : b = Table(x)[j]
    OBVIOUS
  <2>2. b \in Entries[x] /\ k <= h + n + 1 /\ todo'[k] = OwnOne(IF b = e THEN "skip" ELSE "own", x, b)
    BY <1>2, <1>3, <1>14, <2>1
  <2>3. CASE b = e
    <3>1. todo'[k].do = "skip"
      BY <2>2, <2>3 DEF OwnOne
    <3> QED
      BY <3>1 DEF Later
  <2>4. CASE b # e
    <3>1. ASSUME Own(x, b), NEW l \in 1..Len(todo'), k < l, l <= h + n + 1, todo'[l] = OwnOne("own", x, b)
          PROVE  FALSE
      <4>1. PICK i : i = l - h
        OBVIOUS
      <4>2. CASE l = h + n + 1
        <5>1. todo'[l].id = e
          BY <1>3, <4>2 DEF OwnOne
        <5>2. todo'[l].id = b
          BY <3>1 DEF OwnOne
        <5> QED
          BY <2>4, <5>1, <5>2
      <4>3. CASE l # h + n + 1
        <5>1. i \in 1..n /\ l = h + i /\ i # j
          BY <1>2, <1>3, <1>14, <3>1, <4>1, <4>3
        <5>2. todo'[l].id = Table(x)[i]
          <6>1. todo'[l] = OwnOne(IF Table(x)[i] = e THEN "skip" ELSE "own", x, Table(x)[i])
            BY <1>3, <5>1
          <6> QED
            BY <6>1 DEF OwnOne
        <5>3. todo'[l].id = b
          BY <3>1 DEF OwnOne
        <5> QED
          BY <1>0, <1>1, <1>2, <1>14, <2>1, <2>4, <3>1, <5>1, <5>2, <5>3 DEF Placed
      <4> QED
        BY <4>2, <4>3
    <3> QED
      BY <1>12, <2>2, <2>4, <3>1
  <2> QED
    BY <2>3, <2>4
<1>15. ASSUME NEW k \in 1..Len(todo'), NEW j \in 1..m, k = h + n + 3 + j
       PROVE  Later(todo[k], After(k))'
  <2>1. PICK t, rest : t = todo[j + 1] /\ rest = After(j + 1)
    OBVIOUS
  <2>2. j + 1 \in 2..Len(todo)
    BY <1>2
  <2>3. Later(t, rest)
    BY <1>0, <2>1, <2>2, RestIs
  <2>4. Later(t, rest)'
    BY <2>3, LaterSame
  <2>5. t = todo'[k]
    BY <1>3, <1>15, <2>1
  <2>6. rest = After(k)'
    <3>1. \A l \in (k + 1)..Len(todo') : l - (h + n + 3) + 1 \in (j + 1 + 1)..Len(todo) /\ todo'[l] = todo[l - (h + n + 3) + 1]
      <4> TAKE l \in (k + 1)..Len(todo')
      <4>1. PICK i : i = l - (h + n + 3)
        OBVIOUS
      <4>2. i \in 1..m /\ l = h + n + 3 + i /\ i + 1 \in (j + 1 + 1)..Len(todo)
        BY <1>2, <1>3, <1>15, <4>1
      <4> QED
        BY <1>3, <4>1, <4>2
    <3>2. \A i \in (j + 1 + 1)..Len(todo) : \E l \in (k + 1)..Len(todo') : todo'[l] = todo[i]
      <4> TAKE i \in (j + 1 + 1)..Len(todo)
      <4>1. PICK l : l = i - 1
        OBVIOUS
      <4>2. l \in 1..m /\ h + n + 3 + l \in (k + 1)..Len(todo') /\ l + 1 = i
        BY <1>2, <1>3, <1>15, <4>1
      <4> QED
        BY <1>3, <4>1, <4>2
    <3>3. rest = {todo[i] : i \in (j + 1 + 1)..Len(todo)} /\ After(k)' = {todo'[l] : l \in (k + 1)..Len(todo')}
      BY <2>1 DEF After
    <3>4. rest \subseteq After(k)'
      BY <3>2, <3>3
    <3>5. After(k)' \subseteq rest
      BY <3>1, <3>3
    <3> QED
      BY <3>4, <3>5
  <2> QED
    BY <2>4, <2>5, <2>6 DEF Later, OwnStep, TableGone, ArrayGone, Discards, Own
<1>16. ASSUME h = 1
       PROVE  FreeStep(todo[1], After(1))'
  <2>1. PICK o : o = arrays[x].copyOf
    OBVIOUS
  <2>2. o # 0 /\ arrays[o].ref = 1 /\ o \in DOMAIN arrays /\ o # x
    BY <1>0, <1>16, <2>1, CopyIs DEF Types
  <2>3. CopyOf(x, o) /\ CopyOf(x, o)'
    BY <1>0, <2>1 DEF CopyOf, Same
  <2>4. o \notin owned
    BY <1>0, <2>2, <2>3 DEF References
  <2>5. arrays'[o].ref = 1
    BY <2>2 DEF Others
  <2>6. todo'[1].do = "free" /\ todo'[1].a = o
    BY <1>3, <1>16, <2>1 DEF FreeOne
  <2> QED
    BY <1>0, <2>2, <2>3, <2>4, <2>5, <2>6 DEF FreeStep
<1> SUFFICES ASSUME NEW k \in 1..Len(todo')
             PROVE  Later(todo[k], After(k))' \/ (k = 1 /\ FreeStep(todo[k], After(k))')
  BY DEF Freeing
<1>17. \/ h = 1 /\ k = 1
       \/ k - h \in 1..n
       \/ k = h + n + 1 \/ k = h + n + 2 \/ k = h + n + 3
       \/ k - (h + n + 3) \in 1..m /\ k - (h + n + 3) \in Nat
  BY <1>2, <1>3, FormAt
<1>18. CASE k - h \in 1..n
  <2>1. k = h + (k - h)
    BY <1>3
  <2> QED
    BY <1>14, <1>18, <2>1
<1>19. CASE k - (h + n + 3) \in 1..m
  <2>1. k = h + n + 3 + (k - (h + n + 3))
    BY <1>2, <1>3
  <2> QED
    BY <1>15, <1>19, <2>1
<1>20. CASE h = 1 /\ k = 1
  BY <1>16, <1>20
<1> QED
  BY <1>10, <1>11, <1>13, <1>17, <1>18, <1>19, <1>20

-----------------------------------------------------------------------------
(* A reference less: all that the array has is thrown away, or nothing.    *)
LEMMA FreeArrayKeeps ==
  ASSUME Inv, FreeArray
  PROVE  Inv'
<1>0. /\ Types /\ Heap /\ References /\ Sizes /\ Steps /\ Content /\ Readers /\ Alive /\ ProgramOK /\ ReadsOK /\ Empties
  BY InvParts
<1>1. todo # <<>> /\ todo[1].do = "free" /\ Len(todo) \in Nat /\ Len(todo) >= 1
  BY <1>0, TodoIs DEF FreeArray, Do
<1>2. Freeing
  BY <1>0, <1>1, StepForm
<1>3. PICK x : x = todo[1].a
  OBVIOUS
<1>4. /\ x \in DOMAIN arrays /\ x \notin owned /\ arrays[x].ref >= 1 /\ arrays[x].ref \in Nat
      /\ After(1) # {} => arrays[x].ref = 1 /\ \E c \in DOMAIN arrays : CopyOf(c, x) /\ arrays[c].ref = 0
  <2>1. FreeStep(todo[1], After(1))
    BY <1>0, <1>1, <1>2, FirstIs
  <2>2. x \in DOMAIN arrays
    BY <1>3, <2>1 DEF FreeStep
  <2> QED
    BY <1>0, <1>3, <2>1, <2>2, ArrayIs DEF FreeStep, Types
<1>5. /\ x \in Intact /\ arrays[x].st = "live" /\ \A b \in Entries[x] : buckets[b].st = "live"
  BY <1>0, <1>4 DEF Alive
<1>6. Len(Table(x)) = arrays[x].size
  BY <1>0, <1>1, <1>5 DEF Sizes, Growing
<1>7. /\ Types' /\ UNCHANGED <<tables, buckets, owned, contents, reads>>
      /\ DOMAIN arrays' = DOMAIN arrays /\ Others(x)
      /\ arrays'[x].st = arrays[x].st /\ arrays'[x].buckets = arrays[x].buckets
      /\ arrays'[x].empty = arrays[x].empty /\ arrays'[x].version = arrays[x].version
      /\ arrays'[x].ref = arrays[x].ref - 1 /\ arrays'[x].copyOf = arrays[x].copyOf
      /\ arrays'[x].size = arrays[x].size
      /\ (arrays[x].ref # 1 => Popped)
      /\ (arrays[x].ref = 1 => \E h \in {0, 1} :
           /\ h = 1 <=> arrays[x].copyOf # 0 /\ arrays[arrays[x].copyOf].ref = 1
           /\ FreeForm(x, h, Len(Table(x)), Len(todo) - 1))
  BY <1>0, <1>3, <1>4, <1>5, <1>6, FreeArrayStep
<1>8. /\ \A c \in DOMAIN arrays :
           /\ arrays'[c].st = arrays[c].st /\ arrays'[c].buckets = arrays[c].buckets
           /\ arrays'[c].version = arrays[c].version /\ arrays'[c].empty = arrays[c].empty
           /\ arrays'[c].copyOf = arrays[c].copyOf /\ arrays'[c].size = arrays[c].size
      /\ \A c \in DOMAIN arrays : arrays'[c].ref <= arrays[c].ref
  <2>1. \A c \in DOMAIN arrays : arrays[c].ref \in Nat
    BY <1>0, ArrayIs DEF Types
  <2>2. \A c \in DOMAIN arrays : arrays'[c].ref <= arrays[c].ref
    BY <1>4, <1>7, <2>1 DEF Others
  <2> QED
    BY <1>7, <2>2 DEF Others
<1>9. Same
  <2>1. Writable' \subseteq Writable
    BY <1>0, <1>4, <1>7 DEF Writable, ProgramOK, Others
  <2> QED
    BY <1>7, <1>8, <2>1 DEF Same
<1>10. Intact' = Intact /\ Entries' = Entries /\ \A c \in DOMAIN arrays : Table(c)' = Table(c)
  BY <1>9, SameTables
<1>11. Heap'
  <2>1. Empties'
    BY <1>0, <1>7, <1>8, EmptiesKept
  <2> QED
    BY <1>0, <1>7, <1>9, <2>1, SameHeap DEF Heap
<1>12. ASSUME arrays[x].ref # 1
       PROVE  /\ Freeing' /\ \A y \in DOMAIN arrays' : ~Freed(y)'
              /\ Freed(x) \/ (arrays[x].ref = 1 /\ \E c \in DOMAIN arrays : CopyOf(c, x) /\ arrays[c].ref = 0)
  <2>1. Len(todo) = 1
    <3>1. ASSUME Len(todo) # 1
          PROVE  FALSE
      <4>1. 2 \in (1 + 1)..Len(todo)
        <5>1. PICK l : l = Len(todo)
          OBVIOUS
        <5>2. l \in Nat /\ l >= 1 /\ l # 1
          BY <1>1, <3>1, <5>1
        <5>3. 2 \in (1 + 1)..l
          BY <5>2
        <5> QED
          BY <5>1, <5>3
      <4>2. todo[2] \in After(1)
        BY <4>1 DEF After
      <4> QED
        BY <1>4, <1>12, <4>2
    <3> QED
      BY <3>1
  <2>2. Len(todo') = 0
    BY <1>7, <1>12, <2>1 DEF Popped
  <2>3. Freeing'
    BY <2>2 DEF Freeing
  <2>4. \A y \in DOMAIN arrays' : ~Freed(y)'
    BY <2>2, NotFreed
  <2>5. Freed(x)
    BY <1>1, <1>3, <2>1 DEF Freed
  <2> QED
    BY <2>3, <2>4, <2>5
<1>13. ASSUME arrays[x].ref = 1
       PROVE  /\ Freeing' /\ \A y \in DOMAIN arrays' : ~Freed(y)'
              /\ Freed(x) \/ (arrays[x].ref = 1 /\ \E c \in DOMAIN arrays : CopyOf(c, x) /\ arrays[c].ref = 0)
  <2>1. PICK h \in {0, 1} :
          /\ h = 1 <=> arrays[x].copyOf # 0 /\ arrays[arrays[x].copyOf].ref = 1
          /\ FreeForm(x, h, Len(Table(x)), Len(todo) - 1)
    BY <1>7, <1>13
  <2>2. arrays'[x].ref = 0
    BY <1>7, <1>13
  <2>3. Freeing'
    BY <1>0, <1>1, <1>2, <1>4, <1>5, <1>7, <1>9, <1>13, <2>1, <2>2, FreeFormLater
  <2>4. Len(todo') # 1
    <3>1. Len(Table(x)) \in Nat
      BY <1>0, <1>5, EntriesNow DEF EntriesFact, Types
    <3>2. Len(todo') = h + Len(Table(x)) + 3 + (Len(todo) - 1)
      BY <2>1 DEF FreeForm
    <3> QED
      BY <1>1, <3>1, <3>2
  <2>5. \A y \in DOMAIN arrays' : ~Freed(y)'
    BY <2>4, NotFreed
  <2>6. Freed(x) \/ (arrays[x].ref = 1 /\ \E c \in DOMAIN arrays : CopyOf(c, x) /\ arrays[c].ref = 0)
    <3>1. CASE Len(todo) = 1
      BY <1>1, <1>3, <3>1 DEF Freed
    <3>2. CASE Len(todo) # 1
      <4>1. 2 \in (1 + 1)..Len(todo)
        <5>1. PICK l : l = Len(todo)
          OBVIOUS
        <5>2. l \in Nat /\ l >= 1 /\ l # 1
          BY <1>1, <3>2, <5>1
        <5>3. 2 \in (1 + 1)..l
          BY <5>2
        <5> QED
          BY <5>1, <5>3
      <4>2. todo[2] \in After(1)
        BY <4>1 DEF After
      <4> QED
        BY <1>4, <4>2
    <3> QED
      BY <3>1, <3>2
  <2> QED
    BY <2>3, <2>5, <2>6
<1>14. /\ Freeing' /\ \A y \in DOMAIN arrays' : ~Freed(y)'
       /\ Freed(x) \/ (arrays[x].ref = 1 /\ \E c \in DOMAIN arrays : CopyOf(c, x) /\ arrays[c].ref = 0)
  BY <1>12, <1>13
<1>15. References'
  BY <1>0, <1>4, <1>7, <1>14, FreeRefs
<1>16. Sizes'
  <2>1. \A c \in Intact' : c \in Intact /\ Len(Table(c))' = Len(Table(c)) /\ arrays'[c].size = arrays[c].size
    BY <1>7, <1>8, <1>10 DEF Intact
  <2> QED
    BY <1>0, <1>1, <2>1, SizesKept
<1>17. Alive'
  BY <1>11 DEF Heap
<1>18. Content'
  <2>1. \A c \in owned' : c \in DOMAIN arrays
    BY <1>0, <1>7 DEF ProgramOK
  <2> QED
    BY <1>0, <1>2, <1>7, <1>8, <1>10, <1>15, <1>17, <2>1, ContentKept
<1>19. Readers'
  <2>1. SameReads
    BY <1>7 DEF SameReads
  <2>2. \A r \in Reader : reads[r].at # "idle" /\ ~reads'[r].changed
          => arrays'[reads[r].array].size = arrays[reads[r].array].size
    BY <1>0, <1>8 DEF ReadsOK
  <2> QED
    BY <1>0, <1>7, <1>9, <2>1, <2>2, ReadersSame
<1> QED
  BY <1>7, <1>11, <1>14, <1>15, <1>16, <1>18, <1>19 DEF Inv, Steps

-----------------------------------------------------------------------------
(* Something is thrown away that no array which is referred to has.        *)
LEMMA ShrinkKeeps ==
  ASSUME Inv, Discard, Types', SameReads, Shrink, Alive',
         \A b \in DOMAIN buckets : buckets'[b] = buckets[b] \/ buckets'[b].st # "live",
         \A c \in DOMAIN arrays : arrays'[c].ref = arrays[c].ref /\ arrays'[c].size = arrays[c].size,
         \A c \in owned : \A b \in Entries[c] : buckets'[b] = buckets[b],
         Steps', \A x \in DOMAIN arrays' : ~Freed(x)',
         Freeing \/ \E a, i, v : Writing(a, i, v) /\ Writing(a, i, v)' /\ v \in Value
  PROVE  Inv'
<1>0. /\ Types /\ Heap /\ References /\ Sizes /\ Steps /\ Content /\ Readers /\ Alive /\ ProgramOK /\ ReadsOK /\ Empties
  BY InvParts
<1>1. /\ todo # <<>> /\ todo[1].do = "discard" /\ owned' = owned /\ contents' = contents /\ Change(Busy)
  BY <1>0, DiscardIs
<1>2. /\ DOMAIN arrays' = DOMAIN arrays
      /\ \A c \in DOMAIN arrays :
           /\ arrays'[c].empty = arrays[c].empty /\ arrays'[c].copyOf = arrays[c].copyOf
           /\ c \in Intact' => c \in Intact /\ Table(c)' = Table(c)
           /\ arrays[c].ref > 0 => c \in Intact'
  BY DEF Shrink
<1>3. Heap'
  <2>1. Apart' /\ Versions' /\ SameEmpty' /\ Owners' /\ Placed' /\ Shared' /\ From'
    BY <1>0, ShrinkHeap
  <2>2. Empties'
    BY <1>0, <1>2, EmptiesKept
  <2> QED
    BY <2>1, <2>2 DEF Heap
<1>4. References'
  BY <1>0, <1>1, <1>2, RefsKept
<1>5. Sizes'
  <2>1. \A c \in Intact' : c \in DOMAIN arrays
    BY <1>2 DEF Intact
  <2>2. \A c \in Intact' : c \in Intact /\ Len(Table(c))' = Len(Table(c)) /\ arrays'[c].size = arrays[c].size
    BY <1>2, <2>1
  <2> QED
    BY <1>0, <1>1, <2>2, SizesKept
<1>6. Content'
  <2>1. \A c \in owned' : c \in DOMAIN arrays /\ arrays[c].ref >= 1 /\ arrays[c].ref \in Nat
    BY <1>0, <1>1, ArrayIs DEF ProgramOK, References, Types
  <2>2. \A c \in owned' : Table(c)' = Table(c) /\ arrays'[c].empty = arrays[c].empty
    <3> TAKE c \in owned'
    <3>1. c \in DOMAIN arrays /\ arrays[c].ref > 0
      BY <2>1
    <3> QED
      BY <1>2, <3>1
  <2>3. \A c \in owned' : \A b \in Entries[c] : buckets'[b].elems = buckets[b].elems
    BY <1>1
  <2> QED
    BY <1>0, <1>1, <1>4, <2>2, <2>3, ContentKept
<1>7. Readers'
  <2>1. \A r \in Reader : reads[r].at # "idle" => reads'[r].changed
    <3> SUFFICES ASSUME NEW r \in Reader, reads[r].at # "idle"
                 PROVE  reads'[r].changed
      OBVIOUS
    <3>1. PICK S : S = Busy
      OBVIOUS
    <3>2. r \in S
      BY <3>1 DEF Busy
    <3> QED
      BY <1>0, <1>1, <3>1, <3>2, ChangeIs
  <2> QED
    BY <1>0, <1>1, <2>1, ReadersChanged
<1> QED
  BY <1>3, <1>4, <1>5, <1>6, <1>7 DEF Inv

(* A bucket is thrown away that no array that is referred to has.          *)
LEMMA DiscardBucketKeeps ==
  ASSUME Inv, Discard, todo[1].what = "bucket"
  PROVE  Inv'
<1>0. /\ Types /\ Heap /\ References /\ Steps /\ Alive /\ ProgramOK
  BY InvParts
<1>1. /\ todo # <<>> /\ todo[1].do = "discard" /\ owned' = owned /\ contents' = contents
  BY <1>0, DiscardIs
<1>2. Freeing
  <2>1. ~Freeing => \E a \in Writable, i \in Index, v \in Value : WriteDiscard(a, i, v)
    BY <1>0, <1>1, StepForm
  <2> QED
    BY <2>1 DEF WriteDiscard, Discards
<1>3. BucketGone(todo[1], After(1))
  BY <1>0, <1>1, <1>2, FirstIs
<1>4. PICK b : b = todo[1].id
  OBVIOUS
<1>5. PICK x \in DOMAIN arrays : arrays[x].ref = 0 /\ Own(x, b)
  BY <1>3, <1>4 DEF BucketGone
<1>6. /\ b \in DOMAIN buckets /\ buckets[b].st = "live"
      /\ \A u \in After(1) : u.do = "own" /\ u.id = b => ~Own(u.a, u.id)
  BY <1>3, <1>4 DEF BucketGone
<1>7. /\ Types' /\ Popped /\ SameReads /\ arrays' = arrays /\ tables' = tables
      /\ DOMAIN buckets' = DOMAIN buckets /\ buckets'[b].st # "live" /\ buckets'[b].version = buckets[b].version
      /\ \A c \in DOMAIN buckets : c # b => buckets'[c] = buckets[c]
  BY <1>0, <1>4, <1>6, DiscardBucket
<1>8. Intact' = Intact /\ Entries' = Entries /\ \A c : Table(c)' = Table(c)
  BY <1>7 DEF Intact, Entries, Table
<1>9. \A c \in DOMAIN arrays : arrays[c].ref \in Nat /\ arrays[c].ref <= arrays[c].ref
  BY <1>0, ArrayIs DEF Types
<1>10. Shrink
  <2>1. \A c \in DOMAIN buckets : buckets'[c].version = buckets[c].version
    BY <1>7
  <2>2. Writable' = Writable
    BY <1>1, <1>7 DEF Writable
  <2>3. \A c \in DOMAIN arrays : arrays[c].ref > 0 => c \in Intact
    BY <1>0 DEF Alive
  <2> QED
    BY <1>7, <1>8, <1>9, <2>1, <2>2, <2>3 DEF Shrink
<1>11. \A c \in DOMAIN arrays : arrays[c].ref # 0 => \A e \in Entries[c] : buckets'[e] = buckets[e]
  <2>1. \A c \in DOMAIN arrays : b \in Entries[c] => arrays[c].ref = 0
    BY <1>0, <1>5, OnlyOwner
  <2>2. \A c \in DOMAIN arrays : \A e \in Entries[c] : e \in DOMAIN buckets
    BY <1>0, OwnIn
  <2> QED
    BY <1>7, <2>1, <2>2
<1>12. Alive'
  <2> SUFFICES ASSUME NEW c \in DOMAIN arrays, arrays[c].ref > 0
               PROVE  arrays[c].st = "live" /\ c \in Intact /\ \A e \in Entries[c] : buckets'[e].st = "live"
    BY <1>7, <1>8 DEF Alive
  <2>1. arrays[c].ref # 0
    BY <1>9
  <2> QED
    BY <1>0, <1>11, <2>1 DEF Alive
<1>13. Freeing' /\ \A y \in DOMAIN arrays' : ~Freed(y)'
  <2>1. ASSUME NEW s \in After(1), NEW rest \in SUBSET After(1), Later(s, rest)
        PROVE  Later(s, rest)'
    <3>1. ASSUME OwnStep(s, rest)
          PROVE  OwnStep(s, rest)'
      <4>1. s.do = "own" /\ s.a \in DOMAIN arrays /\ s.id \in DOMAIN buckets
        BY <1>0, <3>1, OwnIn DEF OwnStep
      <4>2. Own(s.a, s.id)' <=> Own(s.a, s.id)
        BY <1>7, <1>8, <4>1 DEF Own
      <4>3. Own(s.a, s.id) => s.id # b
        BY <1>6, <4>1
      <4>4. Own(s.a, s.id)' => buckets'[s.id].st = "live" /\ s \notin rest
        BY <1>7, <3>1, <4>1, <4>2, <4>3 DEF OwnStep
      <4> QED
        BY <1>7, <1>8, <3>1, <4>4 DEF OwnStep
    <3>2. TableGone(s, rest) => TableGone(s, rest)'
      BY <1>7 DEF TableGone, Discards
    <3>3. ArrayGone(s, rest) => ArrayGone(s, rest)'
      BY <1>7 DEF ArrayGone, Discards
    <3> QED
      BY <2>1, <3>1, <3>2, <3>3 DEF Later
  <2> QED
    BY <1>0, <1>1, <1>2, <1>7, <2>1, FreeingPopped
<1>14. \A c \in owned : c \in DOMAIN arrays /\ arrays[c].ref # 0
  <2>1. \A c \in owned : c \in DOMAIN arrays /\ arrays[c].ref >= 1
    BY <1>0 DEF ProgramOK, References
  <2> QED
    BY <1>9, <2>1
<1>15. Steps'
  BY <1>13 DEF Steps
<1>16. \A c \in owned : \A e \in Entries[c] : buckets'[e] = buckets[e]
  BY <1>11, <1>14
<1>17. \A c \in DOMAIN buckets : buckets'[c] = buckets[c] \/ buckets'[c].st # "live"
  BY <1>7
<1>18. \A c \in DOMAIN arrays : arrays'[c].ref = arrays[c].ref /\ arrays'[c].size = arrays[c].size
  BY <1>7
<1> QED
  BY <1>2, <1>7, <1>10, <1>12, <1>13, <1>15, <1>16, <1>17, <1>18, ShrinkKeeps

-----------------------------------------------------------------------------
(* The table of an array without references is thrown away.                *)
LEMMA TableShrinks ==
  ASSUME Inv, Discard, todo[1].what = "table", NEW p \in DOMAIN tables, p = todo[1].id, tables[p].st = "live",
         \A c \in DOMAIN arrays : arrays[c].ref > 0 => arrays[c].buckets # p
  PROVE  /\ Types' /\ Popped /\ SameReads /\ arrays' = arrays /\ buckets' = buckets
         /\ DOMAIN tables' = DOMAIN tables /\ \A q \in DOMAIN tables : q # p => tables'[q] = tables[q]
         /\ Shrink /\ Alive'
         /\ \A c \in DOMAIN arrays : arrays[c].buckets # p =>
              /\ (c \in Intact => Table(c)' = Table(c))
              /\ (c \in Intact' <=> c \in Intact) /\ Entries'[c] = Entries[c]
<1>0. /\ Types /\ Heap /\ References /\ Steps /\ Alive /\ ProgramOK
  BY InvParts
<1>1. /\ Types' /\ Popped /\ SameReads /\ arrays' = arrays /\ buckets' = buckets /\ owned' = owned
      /\ DOMAIN tables' = DOMAIN tables /\ tables'[p].st # "live"
      /\ \A q \in DOMAIN tables : q # p => tables'[q] = tables[q]
  BY <1>0, DiscardIs, DiscardTable
<1>2. \A c \in DOMAIN arrays : arrays[c].buckets # 0 => arrays[c].buckets \in DOMAIN tables
  BY <1>0, ArrayIs DEF Types
<1>3. \A c \in DOMAIN arrays : arrays[c].buckets # p => (c \in Intact' <=> c \in Intact)
  BY <1>1, <1>2 DEF Intact
<1>4. \A c \in Intact : arrays[c].buckets # p => Table(c)' = Table(c)
  BY <1>1, <1>2 DEF Intact, Table
<1>5. \A c \in Intact' : c \in DOMAIN arrays /\ arrays[c].buckets # p
  BY <1>1 DEF Intact
<1>6. ASSUME NEW c \in DOMAIN arrays, arrays[c].buckets # p
      PROVE  Entries'[c] = Entries[c]
  <2>1. Entries'[c] = IF c \in Intact THEN {Table(c)'[k] : k \in DOMAIN Table(c)'} \cup {arrays[c].empty} ELSE {}
    BY <1>1, <1>3, <1>6 DEF Entries
  <2>2. Entries[c] = IF c \in Intact THEN {Table(c)[k] : k \in DOMAIN Table(c)} \cup {arrays[c].empty} ELSE {}
    BY DEF Entries
  <2>3. c \in Intact => Table(c)' = Table(c)
    BY <1>4, <1>6
  <2> QED
    BY <2>1, <2>2, <2>3
<1>7. \A c \in DOMAIN arrays : arrays[c].ref > 0 => c \in Intact'
  BY <1>0, <1>3 DEF Alive
<1>8. Shrink
  <2>1. \A c \in DOMAIN arrays : arrays[c].ref <= arrays[c].ref
    BY <1>0, ArrayIs DEF Types
  <2>2. \A c \in Intact' : c \in Intact /\ Table(c)' = Table(c)
    BY <1>3, <1>4, <1>5
  <2>3. Writable' = Writable
    BY <1>1 DEF Writable
  <2> QED
    BY <1>1, <1>7, <2>1, <2>2, <2>3 DEF Shrink
<1>9. Alive'
  BY <1>0, <1>1, <1>6, <1>7 DEF Alive
<1> QED
  BY <1>1, <1>3, <1>4, <1>6, <1>8, <1>9

(* A table is thrown away: one that was replaced, or that of a freed       *)
(* array.                                                                  *)
LEMMA DiscardTableKeeps ==
  ASSUME Inv, Discard, todo[1].what = "table"
  PROVE  Inv'
<1>0. /\ Types /\ Heap /\ References /\ Steps /\ Alive /\ ProgramOK /\ Apart
  BY InvParts
<1>1. /\ todo # <<>> /\ todo[1].do = "discard" /\ owned' = owned /\ contents' = contents
      /\ todo[1] \in StepType
  BY <1>0, DiscardIs
<1>2. PICK p : p = todo[1].id
  OBVIOUS
<1>3. todo[1] = DiscardStep("table", p)
  BY <1>1, <1>2, StepTypes
<1>4. \A c \in DOMAIN arrays : arrays[c].ref \in Nat /\ (arrays[c].ref > 0 => c \in Intact)
  BY <1>0, ArrayIs DEF Types, Alive
<1>5. \A c \in owned : c \in DOMAIN arrays /\ arrays[c].ref > 0
  <2>1. \A c \in owned : c \in DOMAIN arrays /\ arrays[c].ref >= 1
    BY <1>0 DEF ProgramOK, References
  <2> QED
    BY <1>4, <2>1
<1>6. CASE Freeing
  <2>1. TableGone(todo[1], After(1))
    BY <1>0, <1>1, <1>6, FirstIs
  <2>2. PICK x \in DOMAIN arrays : arrays[x].ref = 0 /\ arrays[x].buckets = p /\ DiscardStep("array", x) \in After(1)
    BY <1>2, <2>1 DEF TableGone
  <2>3. p \in DOMAIN tables /\ tables[p].st = "live" /\ todo[1] \notin After(1)
    BY <1>2, <2>1 DEF TableGone
  <2>4. p # 0
    BY <1>0, <2>3, ArrayIs DEF Types
  <2>5. x \in Intact
    BY <2>2, <2>3, <2>4 DEF Intact
  <2>6. \A c \in DOMAIN arrays : arrays[c].ref > 0 => arrays[c].buckets # p
    BY <1>0, <1>4, <2>2, <2>5 DEF Apart
  <2>7. /\ Types' /\ Popped /\ SameReads /\ arrays' = arrays /\ buckets' = buckets
        /\ DOMAIN tables' = DOMAIN tables /\ \A q \in DOMAIN tables : q # p => tables'[q] = tables[q]
        /\ Shrink /\ Alive'
        /\ \A c \in DOMAIN arrays : arrays[c].buckets # p =>
             /\ (c \in Intact' <=> c \in Intact) /\ Entries'[c] = Entries[c]
    BY <1>2, <2>3, <2>6, TableShrinks
  <2>8. Freeing' /\ \A y \in DOMAIN arrays' : ~Freed(y)'
    <3>1. ASSUME NEW s \in After(1), NEW rest \in SUBSET After(1), Later(s, rest)
          PROVE  Later(s, rest)'
      <4>1. ASSUME OwnStep(s, rest)
            PROVE  OwnStep(s, rest)'
        <5>1. s.do = "own" /\ s.a \in DOMAIN arrays /\ DiscardStep("table", arrays[s.a].buckets) \in After(1)
          BY <3>1, <4>1 DEF OwnStep
        <5>2. arrays[s.a].buckets # p
          BY <1>3, <2>3, <5>1
        <5>3. Entries'[s.a] = Entries[s.a]
          BY <2>7, <5>1, <5>2
        <5>4. Own(s.a, s.id)' <=> Own(s.a, s.id)
          BY <2>7, <5>3 DEF Own
        <5> QED
          BY <2>7, <4>1, <5>3, <5>4 DEF OwnStep
      <4>2. ASSUME TableGone(s, rest)
            PROVE  TableGone(s, rest)'
        <5>1. s \in StepType
          BY <1>0, <1>6, <3>1, LaterOnes
        <5>2. s.do = "discard" /\ s.what = "table"
          BY <4>2 DEF TableGone, Discards
        <5>3. s = DiscardStep("table", s.id)
          BY <5>1, <5>2, StepTypes
        <5>4. s.id # p
          BY <1>3, <2>3, <3>1, <5>3
        <5> QED
          BY <2>7, <4>2, <5>4 DEF TableGone, Discards
      <4>3. ArrayGone(s, rest) => ArrayGone(s, rest)'
        BY <2>7 DEF ArrayGone, Discards
      <4> QED
        BY <3>1, <4>1, <4>2, <4>3 DEF Later
    <3> QED
      BY <1>0, <1>1, <1>6, <2>7, <3>1, FreeingPopped
  <2>9. Steps'
    BY <2>8 DEF Steps
  <2>10. /\ \A c \in owned : \A e \in Entries[c] : buckets'[e] = buckets[e]
         /\ \A c \in DOMAIN buckets : buckets'[c] = buckets[c]
         /\ \A c \in DOMAIN arrays : arrays'[c].ref = arrays[c].ref /\ arrays'[c].size = arrays[c].size
    BY <2>7
  <2> QED
    BY <1>6, <2>7, <2>8, <2>9, <2>10, ShrinkKeeps
<1>7. CASE ~Freeing
  <2>1. PICK a \in Writable, i \in Index, v \in Value : contents[a][i] = v /\ WriteDiscard(a, i, v)
    BY <1>0, <1>1, <1>7, StepForm
  <2>2. Writing(a, i, v) /\ a \in owned /\ a \in DOMAIN arrays
    BY <1>0, <2>1, WritableIs DEF Writing
  <2>3. Orphan(p)
    BY <1>2, <2>1 DEF WriteDiscard
  <2>4. p \in DOMAIN tables /\ tables[p].st = "live" /\ \A c \in DOMAIN arrays : arrays[c].buckets # p
    BY <2>3 DEF Orphan
  <2>5. /\ Types' /\ Popped /\ SameReads /\ arrays' = arrays /\ buckets' = buckets /\ Shrink /\ Alive'
        /\ \A c \in DOMAIN arrays : c \in Intact => Table(c)' = Table(c)
    BY <1>2, <2>4, TableShrinks
  <2>6. Table(a)' = Table(a)
    BY <1>4, <1>5, <2>2, <2>5
  <2>7. /\ Len(todo) = 3 /\ Len(todo') = 2 /\ todo'[1] = BucketStep(a, i, v) /\ todo'[2] = ElementStep(a, i, v)
        /\ K(i) <= Len(Table(a))
    <3>1. /\ Len(todo) = 3 /\ todo[2] = BucketStep(a, i, v) /\ todo[3] = ElementStep(a, i, v)
          /\ K(i) <= Len(Table(a))
      BY <2>1 DEF WriteDiscard
    <3> QED
      BY <2>5, <3>1 DEF Popped
  <2>8. WriteBucket(a, i, v)'
    BY <2>6, <2>7 DEF WriteBucket, BucketStep, ElementStep
  <2>9. Writing(a, i, v)'
    BY <1>1, <2>1, <2>5, <2>8 DEF Writing, Writable
  <2>10. Steps'
    BY <2>2, <2>5, <2>9 DEF Steps, SomeWriting
  <2>11. \A y \in DOMAIN arrays' : ~Freed(y)'
    BY <2>7, NotFreed
  <2>12. /\ \A c \in owned : \A e \in Entries[c] : buckets'[e] = buckets[e]
         /\ \A c \in DOMAIN buckets : buckets'[c] = buckets[c]
         /\ \A c \in DOMAIN arrays : arrays'[c].ref = arrays[c].ref /\ arrays'[c].size = arrays[c].size
    BY <2>5
  <2> QED
    BY <2>2, <2>5, <2>9, <2>10, <2>11, <2>12, ShrinkKeeps
<1> QED
  BY <1>6, <1>7

(* An array without references is thrown away.                             *)
LEMMA DiscardArrayKeeps ==
  ASSUME Inv, Discard, todo[1].what = "array"
  PROVE  Inv'
<1>0. /\ Types /\ Heap /\ References /\ Steps /\ Alive /\ ProgramOK /\ Apart
  BY InvParts
<1>1. /\ todo # <<>> /\ todo[1].do = "discard" /\ owned' = owned /\ contents' = contents
      /\ todo[1] \in StepType
  BY <1>0, DiscardIs
<1>2. PICK x : x = todo[1].id
  OBVIOUS
<1>3. todo[1] = DiscardStep("array", x)
  BY <1>1, <1>2, StepTypes
<1>4. \A c \in DOMAIN arrays : arrays[c].ref \in Nat /\ (arrays[c].ref > 0 => c \in Intact)
  BY <1>0, ArrayIs DEF Types, Alive
<1>5. \A c \in owned : c \in DOMAIN arrays /\ arrays[c].ref > 0
  <2>1. \A c \in owned : c \in DOMAIN arrays /\ arrays[c].ref >= 1
    BY <1>0 DEF ProgramOK, References
  <2> QED
    BY <1>4, <2>1
<1>6. Freeing
  <2>1. ~Freeing => \E a \in Writable, i \in Index, v \in Value : WriteDiscard(a, i, v)
    BY <1>0, <1>1, StepForm
  <2> QED
    BY <2>1 DEF WriteDiscard, Discards
<1>7. /\ x \in DOMAIN arrays /\ arrays[x].ref = 0 /\ arrays[x].st = "live" /\ todo[1] \notin After(1)
  <2>1. ArrayGone(todo[1], After(1))
    BY <1>0, <1>1, <1>6, FirstIs
  <2> QED
    BY <1>2, <2>1 DEF ArrayGone
<1>8. /\ Types' /\ Popped /\ SameReads /\ tables' = tables /\ buckets' = buckets
      /\ DOMAIN arrays' = DOMAIN arrays /\ Others(x)
      /\ arrays'[x].buckets \in {0, arrays[x].buckets}
      /\ arrays'[x].empty = arrays[x].empty /\ arrays'[x].version = arrays[x].version
      /\ arrays'[x].ref = arrays[x].ref /\ arrays'[x].copyOf = arrays[x].copyOf
      /\ arrays'[x].size = arrays[x].size
  BY <1>0, <1>2, <1>7, DiscardArray
<1>9. \A c \in DOMAIN arrays :
        /\ arrays'[c].version = arrays[c].version /\ arrays'[c].empty = arrays[c].empty
        /\ arrays'[c].copyOf = arrays[c].copyOf /\ arrays'[c].ref = arrays[c].ref
        /\ arrays'[c].size = arrays[c].size
  BY <1>8 DEF Others
<1>10. \A c \in DOMAIN arrays : c # x => (c \in Intact' <=> c \in Intact) /\ Table(c)' = Table(c) /\ arrays'[c] = arrays[c]
  <2>1. \A c \in DOMAIN arrays : c # x => arrays'[c] = arrays[c]
    BY <1>8 DEF Others
  <2> QED
    BY <1>8, <2>1 DEF Intact, Table
<1>11. \A c \in DOMAIN arrays : c # x => Entries'[c] = Entries[c]
  <2> TAKE c \in DOMAIN arrays
  <2> HAVE c # x
  <2>1. Entries'[c] = IF c \in Intact THEN {Table(c)'[k] : k \in DOMAIN Table(c)'} \cup {arrays'[c].empty} ELSE {}
    BY <1>8, <1>10 DEF Entries
  <2>2. Entries[c] = IF c \in Intact THEN {Table(c)[k] : k \in DOMAIN Table(c)} \cup {arrays[c].empty} ELSE {}
    BY DEF Entries
  <2> QED
    BY <1>9, <1>10, <2>1, <2>2
<1>12. \A c \in DOMAIN arrays : arrays[c].ref > 0 => c # x
  BY <1>7
<1>13. Shrink
  <2>1. \A c \in DOMAIN arrays : arrays'[c].ref <= arrays[c].ref
    BY <1>4, <1>9
  <2>2. x \in Intact' => x \in Intact /\ arrays'[x].buckets = arrays[x].buckets /\ Table(x)' = Table(x)
    <3>1. ASSUME x \in Intact'
          PROVE  arrays'[x].buckets = arrays[x].buckets
      BY <1>8, <3>1 DEF Intact
    <3> QED
      BY <1>7, <1>8, <3>1 DEF Intact, Table
  <2>3. \A c \in DOMAIN arrays :
          c \in Intact' => c \in Intact /\ arrays'[c].buckets = arrays[c].buckets /\ Table(c)' = Table(c)
    BY <1>10, <2>2
  <2>4. \A c \in DOMAIN arrays : arrays[c].ref > 0 => c \in Intact'
    BY <1>4, <1>10, <1>12
  <2>5. Writable' = Writable
    BY <1>1, <1>5, <1>9 DEF Writable
  <2> QED
    BY <1>8, <1>9, <2>1, <2>3, <2>4, <2>5 DEF Shrink
<1>14. Alive'
  <2> SUFFICES ASSUME NEW c \in DOMAIN arrays, arrays[c].ref > 0
               PROVE  arrays'[c].st = "live" /\ c \in Intact' /\ \A b \in Entries'[c] : buckets'[b].st = "live"
    BY <1>8, <1>9 DEF Alive
  <2>1. c # x
    BY <1>12
  <2> QED
    BY <1>0, <1>8, <1>10, <1>11, <2>1 DEF Alive
<1>15. Freeing' /\ \A y \in DOMAIN arrays' : ~Freed(y)'
  <2>1. ASSUME NEW s \in After(1), NEW rest \in SUBSET After(1), Later(s, rest)
        PROVE  Later(s, rest)'
    <3>1. ASSUME OwnStep(s, rest)
          PROVE  OwnStep(s, rest)'
      <4>1. /\ s.do = "own" /\ s.a \in DOMAIN arrays /\ s.id \in Entries[s.a]
            /\ DiscardStep("table", arrays[s.a].buckets) \in After(1)
        BY <2>1, <3>1 DEF OwnStep
      <4>2. s.a # x
        <5> SUFFICES ASSUME s.a = x
                     PROVE  FALSE
          OBVIOUS
        <5>1. PICK u : u = DiscardStep("table", arrays[x].buckets)
          OBVIOUS
        <5>2. u.do = "discard" /\ u.what = "table" /\ u.id = arrays[x].buckets /\ u \in After(1)
          BY <4>1, <5>1 DEF DiscardStep
        <5>3. PICK later \in SUBSET After(1) : Later(u, later)
          BY <1>0, <1>6, <5>2, LaterOnes
        <5>4. TableGone(u, later)
          BY <5>2, <5>3 DEF Later, OwnStep, ArrayGone, Discards
        <5>5. PICK z \in DOMAIN arrays : arrays[z].buckets = arrays[x].buckets /\ DiscardStep("array", z) \in later
          BY <5>2, <5>4 DEF TableGone
        <5>6. x \in Intact
          BY <1>0, <4>1, OwnIn
        <5>7. z \in Intact
          BY <5>5, <5>6 DEF Intact
        <5>8. z = x
          BY <1>0, <5>5, <5>6, <5>7 DEF Apart
        <5> QED
          BY <1>3, <1>7, <5>3, <5>5, <5>8
      <4>3. Entries'[s.a] = Entries[s.a] /\ arrays'[s.a] = arrays[s.a]
        BY <1>10, <1>11, <4>1, <4>2
      <4>4. Own(s.a, s.id)' <=> Own(s.a, s.id)
        BY <1>8, <4>3 DEF Own
      <4> QED
        BY <1>8, <3>1, <4>3, <4>4 DEF OwnStep
    <3>2. ASSUME TableGone(s, rest)
          PROVE  TableGone(s, rest)'
      <4>1. PICK z \in DOMAIN arrays : arrays[z].ref = 0 /\ arrays[z].buckets = s.id /\ DiscardStep("array", z) \in rest
        BY <3>2 DEF TableGone
      <4>2. z # x
        BY <1>3, <1>7, <2>1, <4>1
      <4>3. arrays'[z] = arrays[z]
        BY <1>10, <4>2
      <4> QED
        BY <1>8, <3>2, <4>1, <4>3 DEF TableGone, Discards
    <3>3. ASSUME ArrayGone(s, rest)
          PROVE  ArrayGone(s, rest)'
      <4>1. s \in StepType
        BY <1>0, <1>6, <2>1, LaterOnes
      <4>2. s.do = "discard" /\ s.what = "array" /\ s.id \in DOMAIN arrays
        BY <3>3 DEF ArrayGone, Discards
      <4>3. s = DiscardStep("array", s.id)
        BY <4>1, <4>2, StepTypes
      <4>4. s.id # x
        BY <1>3, <1>7, <2>1, <4>3
      <4>5. arrays'[s.id] = arrays[s.id]
        BY <1>10, <4>2, <4>4
      <4> QED
        BY <1>8, <3>3, <4>5 DEF ArrayGone, Discards
    <3> QED
      BY <2>1, <3>1, <3>2, <3>3 DEF Later
  <2> QED
    BY <1>0, <1>1, <1>6, <1>8, <2>1, FreeingPopped
<1>16. Steps'
  BY <1>15 DEF Steps
<1>17. /\ \A c \in owned : \A e \in Entries[c] : buckets'[e] = buckets[e]
       /\ \A c \in DOMAIN buckets : buckets'[c] = buckets[c]
       /\ \A c \in DOMAIN arrays : arrays'[c].ref = arrays[c].ref /\ arrays'[c].size = arrays[c].size
  BY <1>8, <1>9
<1> QED
  BY <1>6, <1>8, <1>13, <1>14, <1>15, <1>16, <1>17, ShrinkKeeps

(* What is thrown away is a bucket, a table or an array.                   *)
LEMMA DiscardKeeps ==
  ASSUME Inv, Discard
  PROVE  Inv'
<1>1. todo[1].what \in {"bucket", "table", "array"}
  BY InvParts, DiscardIs
<1> QED
  BY <1>1, DiscardBucketKeeps, DiscardTableKeeps, DiscardArrayKeeps

-----------------------------------------------------------------------------
(* An array is made: all others stay as they are.                          *)
Extended(z, p) ==
  /\ DOMAIN arrays' = DOMAIN arrays \cup {z} /\ z \notin DOMAIN arrays
  /\ DOMAIN tables' = DOMAIN tables \cup {p} /\ p \notin DOMAIN tables /\ p # 0
  /\ DOMAIN buckets \subseteq DOMAIN buckets'
  /\ \A q \in DOMAIN tables : tables'[q] = tables[q]
  /\ \A e \in DOMAIN buckets : buckets'[e] = buckets[e]
  /\ \A c \in DOMAIN arrays :
       /\ arrays'[c].st = arrays[c].st /\ arrays'[c].buckets = arrays[c].buckets
       /\ arrays'[c].empty = arrays[c].empty /\ arrays'[c].version = arrays[c].version
       /\ arrays'[c].copyOf = arrays[c].copyOf /\ arrays'[c].size = arrays[c].size
       /\ arrays'[c].ref >= arrays[c].ref /\ (arrays'[c].ref > 0 => arrays[c].ref > 0)
  /\ owned' = owned \cup {z}
  /\ \A c \in Writable' : c # z => c \in Writable
  /\ arrays'[z].buckets = p /\ tables'[p].st = "live" /\ arrays'[z].st = "live" /\ arrays'[z].ref = 1
  /\ \A c \in DOMAIN arrays : contents'[c] = contents[c]
  /\ todo' = todo /\ reads' = reads /\ todo = <<>>

(* The arrays that were there keep their buckets when one is made.         *)
LEMMA ExtendedEntries ==
  ASSUME Types, Types', NEW z, NEW p, Extended(z, p)
  PROVE  /\ Intact' = Intact \cup {z}
         /\ \A c \in Intact : Table(c)' = Table(c)
         /\ \A c \in DOMAIN arrays : Entries'[c] = Entries[c]
         /\ Table(z)' = tables'[p].at
         /\ Entries'[z] = {tables'[p].at[k] : k \in DOMAIN tables'[p].at} \cup {arrays'[z].empty}
<1>1. /\ DOMAIN arrays' = DOMAIN arrays \cup {z} /\ z \notin DOMAIN arrays
      /\ \A q \in DOMAIN tables : tables'[q] = tables[q]
      /\ \A c \in DOMAIN arrays : arrays'[c].buckets = arrays[c].buckets /\ arrays'[c].empty = arrays[c].empty
      /\ arrays'[z].buckets = p /\ tables'[p].st = "live" /\ p # 0
  BY DEF Extended
<1>2. \A c \in DOMAIN arrays : arrays[c].buckets # 0 => arrays[c].buckets \in DOMAIN tables
  BY ArrayIs DEF Types
<1>3. Intact' = Intact \cup {z}
  <2>1. z \in Intact'
    BY <1>1 DEF Intact
  <2>2. \A c \in DOMAIN arrays : c \in Intact' <=> c \in Intact
    BY <1>1, <1>2 DEF Intact
  <2>3. Intact' \subseteq DOMAIN arrays' /\ Intact \subseteq DOMAIN arrays
    BY DEF Intact
  <2> QED
    BY <1>1, <2>1, <2>2, <2>3
<1>4. \A c \in Intact : Table(c)' = Table(c)
  BY <1>1, <1>2 DEF Intact, Table
<1>5. \A c \in DOMAIN arrays : Entries'[c] = Entries[c]
  <2> TAKE c \in DOMAIN arrays
  <2>1. c \in Intact' <=> c \in Intact
    BY <1>1, <1>3
  <2>2. Entries'[c] = IF c \in Intact' THEN {Table(c)'[k] : k \in DOMAIN Table(c)'} \cup {arrays'[c].empty} ELSE {}
    BY <1>1 DEF Entries
  <2>3. Entries[c] = IF c \in Intact THEN {Table(c)[k] : k \in DOMAIN Table(c)} \cup {arrays[c].empty} ELSE {}
    BY DEF Entries
  <2> QED
    <3>1. c \in Intact => Table(c)' = Table(c)
      BY <1>4
    <3>2. arrays'[c].empty = arrays[c].empty
      BY <1>1
    <3> QED
      BY <2>1, <2>2, <2>3, <3>1, <3>2
<1>6. Table(z)' = tables'[p].at
  BY <1>1 DEF Table
<1>7. Entries'[z] = {Table(z)'[k] : k \in DOMAIN Table(z)'} \cup {arrays'[z].empty}
  BY <1>1, <1>3 DEF Entries
<1> QED
  BY <1>3, <1>4, <1>5, <1>6, <1>7

(* What is said of the arrays there were.                                  *)
LEMMA ExtendedOwn ==
  ASSUME Types, Types', Heap, NEW z, NEW p, Extended(z, p)
  PROVE  /\ \A c \in DOMAIN arrays : \A e : Own(c, e)' <=> Own(c, e)
         /\ \A c \in DOMAIN arrays : \A e \in Entries'[c] : e \in Entries[c] /\ e \in DOMAIN buckets /\ buckets'[e] = buckets[e]
<1>1. \A c \in DOMAIN arrays : Entries'[c] = Entries[c]
  BY ExtendedEntries
<1>2. \A c \in DOMAIN arrays : \A e \in Entries[c] : e \in DOMAIN buckets
  BY OwnIn
<1>3. /\ \A e \in DOMAIN buckets : buckets'[e] = buckets[e]
      /\ \A c \in DOMAIN arrays : arrays'[c].version = arrays[c].version
  BY DEF Extended
<1> QED
  BY <1>1, <1>2, <1>3 DEF Own

(* They hold what they held.                                               *)
LEMMA ExtendedGet ==
  ASSUME Types, Types', Heap, NEW z, NEW p, Extended(z, p), NEW c \in Intact, NEW j \in Index,
         arrays[c].st = "live", \A e \in Entries[c] : buckets[e].st = "live"
  PROVE  Get(c, j)' = Get(c, j)
<1>1. /\ c \in Intact' /\ c \in DOMAIN arrays /\ Table(c)' = Table(c) /\ Entries'[c] = Entries[c]
  <2>1. c \in DOMAIN arrays
    BY DEF Intact
  <2> QED
    BY <2>1, ExtendedEntries
<1>2. /\ arrays'[c].st = arrays[c].st /\ arrays'[c].empty = arrays[c].empty
      /\ \A e \in DOMAIN buckets : buckets'[e] = buckets[e]
  BY <1>1 DEF Extended
<1>3. BucketAt(c, j) \in Entries[c] /\ Get(c, j) = buckets[BucketAt(c, j)].elems[j % BucketSize]
  BY GetNow DEF GetFact, Types
<1>4. \A e \in Entries[c] : e \in DOMAIN buckets
  BY <1>1, OwnIn
<1>5. Get(c, j)' = buckets'[BucketAt(c, j)'].elems[j % BucketSize]
  BY <1>1, <1>2, <1>4, GetThen DEF GetFact, Types
<1>6. BucketAt(c, j)' = BucketAt(c, j)
  BY <1>1, <1>2 DEF BucketAt
<1> QED
  BY <1>2, <1>3, <1>4, <1>5, <1>6

(* Their readers see nothing of the new one.                               *)
LEMMA ExtendedReaders ==
  ASSUME Types, Types', Heap, Readers, NEW z, NEW p, Extended(z, p), \A e \in DOMAIN buckets : ~Own(z, e)'
  PROVE  Readers'
<1> SUFFICES ASSUME NEW r \in Reader
             PROVE  ReadIs(r)'
  BY DEF Readers, ReadIs
<1>0. reads' = reads /\ DOMAIN arrays' = DOMAIN arrays \cup {z} /\ owned \subseteq DOMAIN arrays /\ owned' = owned \cup {z}
      /\ \A c \in DOMAIN arrays : contents'[c] = contents[c]
  BY DEF Extended, Types, ProgramOK
<1>1. ASSUME reads[r].at # "idle", ~reads[r].changed
      PROVE  ReadOK(r)'
  <2>1. PICK c, j, b : c = reads[r].array /\ j = reads[r].index /\ b = reads[r].ptr
    OBVIOUS
  <2>2. /\ ReadOK(r)
        /\ c \in Intact /\ c \in DOMAIN arrays /\ j \in Index /\ arrays[c].st = "live"
        /\ Len(Table(c)) = arrays[c].size /\ \A e \in Entries[c] : buckets[e].st = "live"
        /\ reads[r].at = "element" => b \in DOMAIN buckets
    BY <1>1, <2>1, ReadNow
  <2>3. c \in Intact' /\ Table(c)' = Table(c) /\ Entries'[c] = Entries[c]
    BY <2>2, ExtendedEntries
  <2>4. /\ arrays'[c].st = arrays[c].st /\ arrays'[c].buckets = arrays[c].buckets /\ arrays'[c].size = arrays[c].size
        /\ \A e \in DOMAIN buckets : buckets'[e] = buckets[e]
        /\ \A x \in DOMAIN arrays : arrays'[x].empty = arrays[x].empty
        /\ \A x \in Writable' : x # z => x \in Writable
    BY <2>2 DEF Extended
  <2>5. Get(c, j)' = Get(c, j)
    BY <2>2, ExtendedGet
  <2>6. \A e \in Entries[c] : buckets'[e].st = "live"
    BY <2>2, <2>4, OwnIn
  <2>7. ASSUME reads[r].at = "element", NEW x \in Writable', Own(x, b)', b # arrays'[x].empty
        PROVE  x = c /\ Table(c)'[K(j)] = b
    <3>1. x # z
      BY <2>2, <2>7
    <3>2. x \in Writable /\ x \in DOMAIN arrays
      BY <1>0, <2>4, <3>1 DEF Writable
    <3>3. Own(x, b)
      BY <2>7, <3>2, ExtendedOwn
    <3> QED
      BY <2>1, <2>2, <2>3, <2>4, <2>7, <3>2, <3>3 DEF ReadOK
  <2> QED
    BY <1>0, <2>1, <2>2, <2>3, <2>4, <2>5, <2>6, <2>7 DEF ReadOK
<1>2. reads[r].array # 0 => reads[r].array \in DOMAIN arrays
  BY DEF Types, ReadsOK
<1> QED
  BY <1>0, <1>1, <1>2 DEF Readers, ReadIs

-----------------------------------------------------------------------------
(* What is left to show of a new array.                                    *)
LEMMA ExtendedHeap ==
  ASSUME Types, Types', Heap, NEW z, NEW p, Extended(z, p),
         \A e \in DOMAIN buckets : ~Own(z, e)',
         \A e \in Entries'[z] : buckets'[e].version <= arrays'[z].version,
         SameEmpty',
         \A e : Own(z, e)' => e = arrays'[z].empty,
         \A x \in Writable : \A e \in Entries'[z] : Own(x, e) => x \notin Writable',
         \A e \in Entries'[z] : buckets'[e].version < arrays'[z].version
            => arrays'[z].copyOf \in DOMAIN arrays /\ arrays'[z].copyOf # 0 /\ e \in Entries[arrays'[z].copyOf],
         \A e \in Entries'[z] : e \in DOMAIN buckets' /\ buckets'[e].st = "live",
         Empties'
  PROVE  Heap'
<1>0. /\ Apart /\ Versions /\ SameEmpty /\ Owners /\ Placed /\ Shared /\ From /\ Alive /\ Empties
  BY DEF Heap
<1>1. /\ Intact' = Intact \cup {z}
      /\ \A c \in Intact : Table(c)' = Table(c)
      /\ \A c \in DOMAIN arrays : Entries'[c] = Entries[c]
  BY ExtendedEntries
<1>2. /\ \A c \in DOMAIN arrays : \A e : Own(c, e)' <=> Own(c, e)
      /\ \A c \in DOMAIN arrays : \A e \in Entries'[c] : e \in Entries[c] /\ e \in DOMAIN buckets /\ buckets'[e] = buckets[e]
  BY ExtendedOwn
<1>3. /\ DOMAIN arrays' = DOMAIN arrays \cup {z} /\ z \notin DOMAIN arrays
      /\ p \notin DOMAIN tables /\ arrays'[z].buckets = p /\ arrays'[z].st = "live"
      /\ DOMAIN buckets \subseteq DOMAIN buckets'
      /\ \A c \in DOMAIN arrays :
           /\ arrays'[c].st = arrays[c].st /\ arrays'[c].buckets = arrays[c].buckets
           /\ arrays'[c].empty = arrays[c].empty /\ arrays'[c].version = arrays[c].version
           /\ arrays'[c].copyOf = arrays[c].copyOf /\ (arrays'[c].ref > 0 => arrays[c].ref > 0)
      /\ \A c \in Writable' : c # z => c \in Writable
  BY DEF Extended
<1>4. \A c \in Intact : c \in DOMAIN arrays /\ arrays[c].buckets \in DOMAIN tables
  BY ArrayIs DEF Intact, Types
<1>5. Apart'
  <2>1. \A c \in Intact : arrays'[c].buckets = arrays[c].buckets /\ arrays'[c].buckets # p
    BY <1>3, <1>4
  <2> QED
    BY <1>0, <1>1, <1>3, <2>1 DEF Apart
<1>6. Versions'
  <2> SUFFICES ASSUME NEW c \in DOMAIN arrays', NEW e \in Entries'[c]
               PROVE  e \in DOMAIN buckets' /\ buckets'[e].version <= arrays'[c].version
    BY DEF Versions
  <2>1. CASE c = z
    BY <2>1
  <2>2. CASE c # z
    BY <1>0, <1>2, <1>3, <2>2 DEF Versions
  <2> QED
    BY <2>1, <2>2
<1>7. Owners'
  <2> SUFFICES ASSUME NEW x \in DOMAIN arrays', NEW c \in DOMAIN arrays', NEW e, Own(x, e)', Own(c, e)'
               PROVE  x = c
    BY DEF Owners
  <2>1. x # z => e \in DOMAIN buckets /\ Own(x, e) /\ x \in DOMAIN arrays
    BY <1>2, <1>3 DEF Own
  <2>2. c # z => e \in DOMAIN buckets /\ Own(c, e) /\ c \in DOMAIN arrays
    BY <1>2, <1>3 DEF Own
  <2>3. (x = z => e \notin DOMAIN buckets) /\ (c = z => e \notin DOMAIN buckets)
    OBVIOUS
  <2>4. Own(x, e) => e \in Entries[x]
    BY DEF Own
  <2> QED
    BY <1>0, <2>1, <2>2, <2>3, <2>4 DEF Owners
<1>8. Placed'
  <2> SUFFICES ASSUME NEW c \in Intact', NEW j \in DOMAIN Table(c)', NEW k \in DOMAIN Table(c)',
                      Table(c)'[j] = Table(c)'[k], Own(c, Table(c)[j])', Table(c)'[j] # arrays'[c].empty
               PROVE  j = k
    BY DEF Placed
  <2>1. PICK e : e = Table(c)'[j]
    OBVIOUS
  <2>2. Own(c, e)'
    BY <2>1
  <2>3. c # z
    BY <2>1, <2>2
  <2>4. c \in Intact /\ c \in DOMAIN arrays
    BY <1>1, <1>4, <2>3
  <2>5. Own(c, e) /\ Table(c)' = Table(c) /\ e # arrays[c].empty
    BY <1>1, <1>2, <1>3, <2>1, <2>2, <2>4
  <2> QED
    BY <1>0, <2>1, <2>4, <2>5 DEF Placed
<1>9. Shared'
  <2> SUFFICES ASSUME NEW x \in DOMAIN arrays', NEW c \in DOMAIN arrays', NEW e \in Entries'[c], x # c,
                      Own(x, e)', x \in Writable'
               PROVE  FALSE
    BY DEF Shared
  <2>1. CASE x = z
    <3>1. c \in DOMAIN arrays
      BY <1>3, <2>1
    <3>2. e \in DOMAIN buckets
      BY <1>2, <3>1
    <3> QED
      BY <2>1, <3>2
  <2>2. CASE x # z
    <3>1. x \in DOMAIN arrays /\ x \in Writable /\ Own(x, e)
      BY <1>2, <1>3, <2>2
    <3>2. CASE c = z
      BY <3>1, <3>2
    <3>3. CASE c # z
      <4>1. c \in DOMAIN arrays /\ e \in Entries[c]
        BY <1>2, <1>3, <3>3
      <4> QED
        BY <1>0, <3>1, <4>1 DEF Shared
    <3> QED
      BY <3>2, <3>3
  <2> QED
    BY <2>1, <2>2
<1>10. From'
  <2> SUFFICES ASSUME NEW c \in DOMAIN arrays', NEW e \in Entries'[c], arrays'[c].ref > 0,
                      buckets'[e].version < arrays'[c].version
               PROVE  arrays'[c].copyOf # 0 /\ e \in Entries'[arrays'[c].copyOf]
    BY DEF From
  <2>1. CASE c = z
    BY <1>1, <2>1
  <2>2. CASE c # z
    <3>1. c \in DOMAIN arrays /\ e \in Entries[c] /\ buckets[e].version < arrays[c].version /\ arrays[c].ref > 0
      BY <1>2, <1>3, <2>2
    <3>2. arrays[c].copyOf # 0 /\ e \in Entries[arrays[c].copyOf]
      BY <1>0, <3>1 DEF From
    <3>3. arrays[c].copyOf \in DOMAIN arrays
      BY <3>1, <3>2, CopyIs DEF Types
    <3> QED
      BY <1>1, <1>3, <3>1, <3>2, <3>3
  <2> QED
    BY <2>1, <2>2
<1>11. Alive'
  <2> SUFFICES ASSUME NEW c \in DOMAIN arrays', arrays'[c].ref > 0
               PROVE  arrays'[c].st = "live" /\ c \in Intact' /\ \A e \in Entries'[c] : buckets'[e].st = "live"
    BY DEF Alive
  <2>1. CASE c = z
    BY <1>1, <1>3, <2>1
  <2>2. CASE c # z
    <3>1. c \in DOMAIN arrays /\ arrays[c].ref > 0
      BY <1>3, <2>2
    <3>2. arrays[c].st = "live" /\ c \in Intact /\ \A e \in Entries[c] : buckets[e].st = "live"
      BY <1>0, <3>1 DEF Alive
    <3>3. \A e \in Entries'[c] : buckets'[e].st = "live"
      BY <1>2, <3>1, <3>2
    <3> QED
      BY <1>1, <1>3, <3>1, <3>2, <3>3
  <2> QED
    BY <2>1, <2>2
<1> QED
  BY <1>5, <1>6, <1>7, <1>8, <1>9, <1>10, <1>11 DEF Heap

-----------------------------------------------------------------------------
(* The rest follows from what the new array holds.                         *)
LEMMA ExtendedKeeps ==
  ASSUME Inv, Types', Heap', References', NEW z, NEW p, Extended(z, p),
         \A e \in DOMAIN buckets : ~Own(z, e)',
         Len(tables'[p].at) = arrays'[z].size,
         \A i \in Index : Get(z, i)' = contents'[z][i]
  PROVE  Inv'
<1>0. /\ Types /\ Heap /\ References /\ Sizes /\ Content /\ Readers /\ Alive /\ ProgramOK
  BY InvParts
<1>1. todo' = <<>> /\ todo = <<>> /\ owned' = owned \cup {z} /\ z \notin DOMAIN arrays
      /\ (\A c \in DOMAIN arrays : contents'[c] = contents[c])
      /\ (\A c \in DOMAIN arrays : arrays'[c].size = arrays[c].size)
  BY DEF Extended
<1>2. /\ Intact' = Intact \cup {z} /\ \A c \in Intact : Table(c)' = Table(c) /\ c \in DOMAIN arrays
      /\ Table(z)' = tables'[p].at
  BY <1>0, ExtendedEntries DEF Intact
<1>3. Freeing'
  BY <1>1, NoTodo DEF Freeing
<1>4. Sizes'
  <2>1. \A c \in Intact' : Len(Table(c)') = arrays'[c].size
    <3> TAKE c \in Intact'
    <3>1. CASE c = z
      BY <1>2, <3>1
    <3>2. CASE c # z
      <4>1. c \in Intact
        BY <1>2, <3>2
      <4>2. Len(Table(c)) = arrays[c].size
        BY <1>0, <1>1, <4>1 DEF Sizes, Growing
      <4> QED
        BY <1>1, <1>2, <4>1, <4>2
    <3> QED
      BY <3>1, <3>2
  <2> QED
    BY <2>1 DEF Sizes
<1>5. Content'
  <2> SUFFICES ASSUME NEW c \in owned', NEW j \in Index
               PROVE  Get(c, j)' = contents'[c][j]
    BY DEF Content
  <2>1. CASE c = z
    BY <2>1
  <2>2. CASE c # z
    <3>1. Whole(c) /\ c \in owned
      BY <1>0, <1>1, <2>2, WholeNow DEF WholeFact, Types
    <3>2. /\ c \in DOMAIN arrays /\ c \in Intact /\ arrays[c].st = "live"
          /\ \A e \in Entries[c] : buckets[e].st = "live"
      BY <3>1 DEF Whole
    <3>3. Get(c, j)' = Get(c, j)
      BY <1>0, <3>2, ExtendedGet
    <3>4. \A w : ~Writing(c, j, w)
      BY <1>0, <1>1, WritingOne
    <3> QED
      BY <1>0, <1>1, <3>1, <3>2, <3>3, <3>4 DEF Content
  <2> QED
    BY <2>1, <2>2
<1>6. Readers'
  BY <1>0, ExtendedReaders
<1> QED
  BY <1>3, <1>4, <1>5, <1>6 DEF Inv, Steps

(* sarray_new (): all of the array is new and empty.                       *)
LEMMA NewKeeps ==
  ASSUME Inv, NEW n \in 1..MaxBuckets, New(n)
  PROVE  Inv'
<1>0. /\ Types /\ Heap /\ References /\ Versions /\ SameEmpty /\ Empties /\ ProgramOK
  BY InvParts
<1>1. PICK z, p, b : z = NewA /\ p = NewP /\ b = NewB
  OBVIOUS
<1>2. /\ Types' /\ todo = <<>> /\ todo' = <<>> /\ reads' = reads
      /\ DOMAIN arrays' = DOMAIN arrays \cup {z} /\ z \notin DOMAIN arrays
      /\ DOMAIN tables' = DOMAIN tables \cup {p} /\ p \notin DOMAIN tables /\ p # 0
      /\ \A q \in DOMAIN tables : tables'[q] = tables[q]
      /\ DOMAIN buckets' = DOMAIN buckets \cup {b} /\ b \notin DOMAIN buckets
      /\ \A e \in DOMAIN buckets : buckets'[e] = buckets[e]
      /\ owned' = owned \cup {z}
      /\ contents'[z] = [i \in Index |-> NoValue] /\ \A c \in DOMAIN arrays : contents'[c] = contents[c]
      /\ \A c \in DOMAIN arrays : arrays'[c] = arrays[c]
      /\ arrays'[z].st = "live" /\ arrays'[z].buckets = p /\ arrays'[z].empty = b
      /\ arrays'[z].version = 0 /\ arrays'[z].ref = 1 /\ arrays'[z].copyOf = 0
      /\ arrays'[z].size = n
      /\ n \in Nat \ {0} /\ tables'[p].st = "live" /\ tables'[p].at = [k \in 1..n |-> b]
      /\ DOMAIN tables'[p].at = 1..n /\ Len(tables'[p].at) = n
      /\ buckets'[b].st = "live" /\ buckets'[b].version = 0
      /\ buckets'[b].elems = [o \in Offset |-> NoValue]
  BY <1>0, <1>1, NewStep DEF ArraysAdded, TablesAdded, BucketsAdded, OneMore
<1>3. Extended(z, p)
  <2>1. \A c \in Writable' : c # z => c \in Writable
    BY <1>0, <1>2 DEF Writable, ProgramOK
  <2>2. \A c \in DOMAIN arrays : arrays'[c].ref >= arrays[c].ref
    BY <1>0, <1>2, ArrayIs DEF Types
  <2> QED
    BY <1>2, <2>1, <2>2 DEF Extended
<1>4. Entries'[z] = {b} /\ Intact' = Intact \cup {z} /\ Table(z)' = tables'[p].at
      /\ \A c \in DOMAIN arrays : Entries'[c] = Entries[c]
  <2>1. Entries'[z] = {tables'[p].at[k] : k \in DOMAIN tables'[p].at} \cup {arrays'[z].empty}
    BY <1>0, <1>2, <1>3, ExtendedEntries
  <2>2. Entries'[z] = {b}
    BY <1>2, <2>1
  <2> QED
    BY <1>0, <1>2, <1>3, <2>2, ExtendedEntries
<1>5. \A e : Own(z, e)' => e = b
  BY <1>4 DEF Own
<1>6. \A c \in DOMAIN arrays : \A e \in Entries[c] : e \in DOMAIN buckets
  BY <1>0, OwnIn
<1>7. SameEmpty'
  <2> SUFFICES ASSUME NEW a \in DOMAIN arrays', NEW c \in DOMAIN arrays', arrays'[c].empty \in Entries'[a]
               PROVE  arrays'[a].empty = arrays'[c].empty
    BY DEF SameEmpty
  <2>1. CASE a = z
    BY <1>2, <1>4, <2>1
  <2>2. CASE a # z
    <3>1. a \in DOMAIN arrays /\ arrays'[c].empty \in DOMAIN buckets
      BY <1>2, <1>4, <1>6, <2>2
    <3>2. c # z
      BY <1>2, <3>1
    <3> QED
      BY <1>0, <1>2, <1>4, <3>1, <3>2 DEF SameEmpty
  <2> QED
    BY <2>1, <2>2
<1>8. Empties'
  <2> SUFFICES ASSUME NEW c \in DOMAIN arrays', buckets'[arrays'[c].empty].st = "live", NEW o \in Offset
               PROVE  buckets'[arrays'[c].empty].elems[o] = NoValue
    BY DEF Empties
  <2>1. CASE c = z
    BY <1>2, <2>1
  <2>2. CASE c # z
    <3>1. c \in DOMAIN arrays /\ arrays[c].empty \in DOMAIN buckets
      BY <1>0, <1>2, <2>2, ArrayIs DEF Types
    <3> QED
      BY <1>0, <1>2, <3>1 DEF Empties
  <2> QED
    BY <2>1, <2>2
<1>9. Heap'
  <2>1. /\ \A e \in Entries'[z] : buckets'[e].version <= arrays'[z].version
        /\ \A e \in Entries'[z] : ~(buckets'[e].version < arrays'[z].version)
        /\ \A e \in Entries'[z] : e \in DOMAIN buckets' /\ buckets'[e].st = "live"
    BY <1>2, <1>4
  <2>2. \A x \in Writable : \A e \in Entries'[z] : ~Own(x, e)
    <3>1. \A x \in Writable : x \in DOMAIN arrays
      BY <1>0, WritableIs
    <3> QED
      BY <1>2, <1>4, <1>6, <3>1 DEF Own
  <2>3. \A e \in DOMAIN buckets : ~Own(z, e)'
    BY <1>2, <1>5
  <2>4. \A e : Own(z, e)' => e = arrays'[z].empty
    BY <1>2, <1>5
  <2> QED
    BY <1>0, <1>2, <1>3, <1>7, <1>8, <2>1, <2>2, <2>3, <2>4, ExtendedHeap
<1>10. References'
  BY <1>0, NewRefs
<1>11. \A i \in Index : Get(z, i)' = contents'[z][i]
  <2> TAKE i \in Index
  <2>1. Get(z, i)' = buckets'[BucketAt(z, i)'].elems[i % BucketSize]
    BY <1>2, <1>4, GetThen DEF GetFact, Types
  <2>2. BucketAt(z, i)' = b
    BY <1>2, <1>4 DEF BucketAt
  <2>3. i % BucketSize \in Offset
    BY IndexIs, IndexNat
  <2> QED
    BY <1>2, <2>1, <2>2, <2>3
<1>12. \A e \in DOMAIN buckets : ~Own(z, e)'
  BY <1>2, <1>5
<1> QED
  BY <1>2, <1>3, <1>9, <1>10, <1>11, <1>12, ExtendedKeeps

(* sarray_lazy_copy (): no bucket is the copy's own, and the original is   *)
(* not written to.                                                         *)
LEMMA CopyKeeps ==
  ASSUME Inv, NEW a, LazyCopy(a)
  PROVE  Inv'
<1>0. /\ Types /\ Heap /\ References /\ Sizes /\ Content /\ Versions /\ SameEmpty /\ Shared /\ Empties /\ ProgramOK
  BY InvParts
<1>1. PICK z, p, x : z = NewA /\ p = NewP /\ x = arrays[a]
  OBVIOUS
<1>2. a \in owned /\ todo = <<>>
  BY DEF LazyCopy, Begin
<1>3. /\ Whole(a) /\ a \in DOMAIN arrays /\ a \in Intact /\ x.ref >= 1 /\ x.st = "live"
      /\ \A e \in Entries[a] : buckets[e].st = "live"
  <2>1. Whole(a)
    BY <1>0, <1>2, InvParts, WholeNow DEF WholeFact, Types
  <2> QED
    BY <1>1, <2>1 DEF Whole
<1>4. x.buckets # 0
  BY <1>1, <1>3 DEF Intact
<1>5. /\ Types' /\ todo' = <<>> /\ buckets' = buckets /\ reads' = reads
      /\ DOMAIN arrays' = DOMAIN arrays \cup {z} /\ z \notin DOMAIN arrays
      /\ DOMAIN tables' = DOMAIN tables \cup {p} /\ p \notin DOMAIN tables /\ p # 0
      /\ \A q \in DOMAIN tables : tables'[q] = tables[q]
      /\ owned' = owned \cup {z}
      /\ contents'[z] = contents[a] /\ \A c \in DOMAIN arrays : contents'[c] = contents[c]
      /\ \A c \in DOMAIN arrays : c # a => arrays'[c] = arrays[c]
      /\ arrays'[a].st = x.st /\ arrays'[a].buckets = x.buckets /\ arrays'[a].empty = x.empty
      /\ arrays'[a].version = x.version /\ arrays'[a].ref = x.ref + 1
      /\ arrays'[a].copyOf = x.copyOf /\ arrays'[a].size = x.size
      /\ arrays'[z].st = x.st /\ arrays'[z].buckets = p /\ arrays'[z].empty = x.empty
      /\ arrays'[z].version = x.version + 1 /\ arrays'[z].ref = 1 /\ arrays'[z].copyOf = a
      /\ arrays'[z].size = x.size
      /\ tables'[p] = tables[x.buckets]
  <2>1. /\ Types' /\ todo' = <<>> /\ buckets' = buckets /\ reads' = reads
        /\ ArraysAdded /\ TablesAdded /\ OneMore(contents[a])
        /\ \A c \in DOMAIN arrays : c # a => arrays'[c] = arrays[c]
        /\ arrays'[a].st = x.st /\ arrays'[a].buckets = x.buckets /\ arrays'[a].empty = x.empty
        /\ arrays'[a].version = x.version /\ arrays'[a].ref = x.ref + 1
        /\ arrays'[a].copyOf = x.copyOf /\ arrays'[a].size = x.size
        /\ arrays'[NewA].st = x.st /\ arrays'[NewA].buckets = NewP /\ arrays'[NewA].empty = x.empty
        /\ arrays'[NewA].version = x.version + 1 /\ arrays'[NewA].ref = 1 /\ arrays'[NewA].copyOf = a
        /\ arrays'[NewA].size = x.size
        /\ tables'[NewP] = tables[x.buckets]
    BY <1>0, <1>1, <1>4, CopyStep
  <2>2. /\ DOMAIN arrays' = DOMAIN arrays \cup {z} /\ z \notin DOMAIN arrays
        /\ DOMAIN tables' = DOMAIN tables \cup {p} /\ p \notin DOMAIN tables /\ p # 0
        /\ \A q \in DOMAIN tables : tables'[q] = tables[q]
        /\ owned' = owned \cup {z}
        /\ contents'[z] = contents[a] /\ \A c \in DOMAIN arrays : contents'[c] = contents[c]
    BY <1>1, <2>1 DEF ArraysAdded, TablesAdded, OneMore
  <2> QED
    BY <1>1, <2>1, <2>2
<1>6. x.ref \in Nat /\ x.version \in Nat /\ a # 0 /\ \A c \in DOMAIN arrays : arrays[c].ref \in Nat
  BY <1>0, <1>1, <1>3, ArrayIs DEF Types
<1>7. a \notin Writable'
  BY <1>3, <1>5, <1>6 DEF Writable
<1>8. Extended(z, p)
  <2>1. \A c \in Writable' : c # z => c \in Writable
    BY <1>0, <1>5, <1>7 DEF Writable, ProgramOK
  <2>2. \A c \in DOMAIN arrays : arrays'[c].ref >= arrays[c].ref /\ (arrays'[c].ref > 0 => arrays[c].ref > 0)
    BY <1>1, <1>3, <1>5, <1>6
  <2>3. \A c \in DOMAIN arrays :
       /\ arrays'[c].st = arrays[c].st /\ arrays'[c].buckets = arrays[c].buckets
       /\ arrays'[c].empty = arrays[c].empty /\ arrays'[c].version = arrays[c].version
       /\ arrays'[c].copyOf = arrays[c].copyOf /\ arrays'[c].size = arrays[c].size
    BY <1>1, <1>5
  <2>4. tables'[p].st = "live"
    BY <1>1, <1>3, <1>5 DEF Intact
  <2> QED
    BY <1>2, <1>3, <1>5, <2>1, <2>2, <2>3, <2>4 DEF Extended
<1>9. /\ Entries'[z] = Entries[a] /\ Intact' = Intact \cup {z} /\ Table(z)' = Table(a)
      /\ \A c \in DOMAIN arrays : Entries'[c] = Entries[c]
  <2>1. Entries'[z] = {tables'[p].at[k] : k \in DOMAIN tables'[p].at} \cup {arrays'[z].empty}
    BY <1>0, <1>5, <1>8, ExtendedEntries
  <2>2. tables'[p].at = Table(a) /\ arrays'[z].empty = arrays[a].empty
    BY <1>1, <1>5 DEF Table
  <2>3. Entries[a] = {Table(a)[k] : k \in DOMAIN Table(a)} \cup {arrays[a].empty}
    BY <1>3 DEF Entries
  <2>4. Entries'[z] = Entries[a]
    BY <2>1, <2>2, <2>3
  <2> QED
    BY <1>0, <1>5, <1>8, <2>2, <2>4, ExtendedEntries
<1>10. \A e \in Entries[a] : e \in DOMAIN buckets /\ buckets[e].version <= x.version /\ buckets[e].version \in Nat
  BY <1>0, <1>1, <1>3, ArrayIs DEF Versions, Types
<1>11. \A e : ~Own(z, e)'
  <2>1. \A e \in Entries[a] : buckets[e].version # x.version + 1
    BY <1>6, <1>10
  <2> QED
    BY <1>5, <1>9, <2>1 DEF Own
<1>12. SameEmpty'
  <2> SUFFICES ASSUME NEW c \in DOMAIN arrays', NEW d \in DOMAIN arrays', arrays'[d].empty \in Entries'[c]
               PROVE  arrays'[c].empty = arrays'[d].empty
    BY DEF SameEmpty
  <2>1. PICK f, g : f = (IF c = z THEN a ELSE c) /\ g = (IF d = z THEN a ELSE d)
    OBVIOUS
  <2>2. /\ f \in DOMAIN arrays /\ g \in DOMAIN arrays /\ Entries'[c] = Entries[f]
        /\ arrays'[c].empty = arrays[f].empty /\ arrays'[d].empty = arrays[g].empty
    BY <1>1, <1>3, <1>5, <1>9, <2>1
  <2> QED
    BY <1>0, <2>2 DEF SameEmpty
<1>13. Empties'
  <2>1. \A c \in DOMAIN arrays' : \E g \in DOMAIN arrays : arrays'[c].empty = arrays[g].empty
    BY <1>1, <1>3, <1>5
  <2> QED
    BY <1>0, <1>5, <2>1 DEF Empties
<1>14. Heap'
  <2>1. /\ \A e \in Entries'[z] : buckets'[e].version <= arrays'[z].version
        /\ \A e \in Entries'[z] : e \in DOMAIN buckets' /\ buckets'[e].st = "live"
    BY <1>3, <1>5, <1>6, <1>9, <1>10
  <2>2. \A w \in Writable : \A e \in Entries'[z] : Own(w, e) => w \notin Writable'
    <3>1. \A w \in Writable : w \in DOMAIN arrays
      BY <1>0, WritableIs
    <3> QED
      BY <1>0, <1>3, <1>7, <1>9, <3>1 DEF Shared
  <2>3. arrays'[z].copyOf \in DOMAIN arrays /\ arrays'[z].copyOf # 0 /\ \A e \in Entries'[z] : e \in Entries[arrays'[z].copyOf]
    BY <1>3, <1>5, <1>6, <1>9
  <2> QED
    BY <1>0, <1>5, <1>8, <1>11, <1>12, <1>13, <2>1, <2>2, <2>3, ExtendedHeap
<1>15. References'
  BY <1>0, <1>1, <1>4, CopyRefs
<1>16. \A i \in Index : Get(z, i)' = contents'[z][i]
  <2> TAKE i \in Index
  <2>1. Get(z, i)' = buckets'[BucketAt(z, i)'].elems[i % BucketSize]
    BY <1>3, <1>5, <1>9, GetThen DEF GetFact, Types
  <2>2. BucketAt(z, i)' = BucketAt(a, i)
    BY <1>1, <1>5, <1>9 DEF BucketAt
  <2>3. Get(a, i) = buckets[BucketAt(a, i)].elems[i % BucketSize]
    BY <1>0, <1>1, <1>3, GetNow DEF GetFact, Types
  <2>4. Get(a, i) = contents[a][i]
    <3>1. \A w : ~Writing(a, i, w)
      BY <1>0, <1>2, WritingOne
    <3> QED
      BY <1>0, <1>2, <3>1 DEF Content
  <2> QED
    BY <1>5, <2>1, <2>2, <2>3, <2>4
<1>17. Len(tables'[p].at) = arrays'[z].size
  <2>1. Len(Table(a)) = arrays[a].size
    BY <1>0, <1>2, <1>3 DEF Sizes, Growing
  <2> QED
    BY <1>1, <1>5, <2>1 DEF Table
<1> QED
  BY <1>5, <1>8, <1>11, <1>14, <1>15, <1>16, <1>17, ExtendedKeeps

-----------------------------------------------------------------------------
(* A step of a thread that reads.                                          *)
Still == UNCHANGED <<arrays, tables, buckets, owned, contents, todo>>

(* A step of a reader is one of the reads only.                            *)
LEMMA StillTypes ==
  ASSUME Types, Still, ReadsOK'
  PROVE  Types'
<1>1. ArraysOK'
  BY DEF Still, Types, ArraysOK
<1>2. TablesOK'
  BY DEF Still, Types, TablesOK
<1>3. BucketsOK' /\ ProgramOK'
  BY DEF Still, Types, BucketsOK, ProgramOK
<1> QED
  BY <1>1, <1>2, <1>3 DEF Types

(* Arrays, and what is done with them, are as right as before.             *)
LEMMA StillKeeps ==
  ASSUME Inv, Still, ReadsOK', Readers'
  PROVE  Inv'
<1>0. /\ Types /\ Heap /\ References /\ Sizes /\ Steps /\ Content /\ ProgramOK
  BY InvParts
<1>1. /\ arrays' = arrays /\ tables' = tables /\ buckets' = buckets /\ owned' = owned
      /\ contents' = contents /\ todo' = todo
  BY DEF Still
<1>2. Types'
  BY <1>0, StillTypes
<1>3. Same /\ Heap'
  BY <1>0, <1>1, <1>2, StillHeap
<1>4. Intact' = Intact /\ Entries' = Entries /\ (\A c : Table(c)' = Table(c)) /\ Writable' = Writable
  <2>1. Intact' = Intact
    BY <1>1 DEF Intact
  <2>2. Entries' = Entries
    BY <1>3, SameTables
  <2>3. Writable' = Writable
    BY <1>1 DEF Writable
  <2> QED
    BY <1>1, <2>1, <2>2, <2>3 DEF Table
<1>5. \A c, e : Own(c, e)' <=> Own(c, e)
  BY <1>1, <1>4 DEF Own
<1>6. References'
  BY <1>0, <1>1, RefsKept DEF Freed
<1>7. Sizes'
  BY <1>0, <1>1, <1>4 DEF Sizes, Growing
<1>8. \A a, i, v : Writing(a, i, v) => Writing(a, i, v)'
  <2> SUFFICES ASSUME NEW a, NEW i, NEW v, Writing(a, i, v)
               PROVE  Writing(a, i, v)'
    OBVIOUS
  <2>1. a \in Writable' /\ contents'[a][i] = v
    BY <1>1, <1>4 DEF Writing
  <2>2. WriteSize(a, i, v) => WriteSize(a, i, v)'
    BY <1>1, <1>4 DEF WriteSize, Sized, DiscardStep, BucketStep, ElementStep
  <2>3. WriteInstall(a, i, v) => WriteInstall(a, i, v)'
    BY <1>1, <1>4 DEF WriteInstall, Sized, DiscardStep, BucketStep, ElementStep
  <2>4. WriteDiscard(a, i, v) => WriteDiscard(a, i, v)'
    BY <1>1, <1>4 DEF WriteDiscard, Discards, Orphan, BucketStep, ElementStep
  <2>5. WriteBucket(a, i, v) => WriteBucket(a, i, v)'
    BY <1>1, <1>4 DEF WriteBucket, BucketStep, ElementStep
  <2>6. WriteElement(a, i, v) => WriteElement(a, i, v)'
    <3> SUFFICES ASSUME WriteElement(a, i, v)
                 PROVE  WriteElement(a, i, v)'
      OBVIOUS
    <3>1. PICK b : b = Table(a)[K(i)]
      OBVIOUS
    <3>2. Own(a, b)' /\ b = Table(a)'[K(i)]
      BY <1>4, <1>5, <3>1 DEF WriteElement
    <3>3. Own(a, Table(a)[K(i)])'
      BY <3>2 DEF Own
    <3> QED
      BY <1>1, <1>4, <3>3 DEF WriteElement, ElementStep
  <2> QED
    BY <2>1, <2>2, <2>3, <2>4, <2>5, <2>6 DEF Writing
<1>9. Steps'
  <2>1. SomeWriting => SomeWriting'
    BY <1>1, <1>8 DEF SomeWriting
  <2>2. ASSUME Freeing
        PROVE  Freeing'
    <3> SUFFICES ASSUME NEW k \in 1..Len(todo')
                 PROVE  \/ Later(todo[k], After(k))'
                        \/ k = 1 /\ (FreeStep(todo[k], After(k))' \/ BucketGone(todo[k], After(k))')
      BY DEF Freeing
    <3>1. PICK t, rest : t = todo[k] /\ rest = After(k)
      OBVIOUS
    <3>2. t = todo'[k] /\ rest = After(k)'
      BY <1>1, <3>1 DEF After
    <3>3. Later(t, rest) => Later(t, rest)'
      BY <1>0, <1>2, <1>3, LaterSame
    <3>4. FreeStep(t, rest) => FreeStep(t, rest)'
      BY <1>1 DEF FreeStep, CopyOf
    <3>5. BucketGone(t, rest) => BucketGone(t, rest)'
      BY <1>1, <1>5 DEF BucketGone, Discards
    <3>6. Later(t, rest) \/ (k = 1 /\ (FreeStep(t, rest) \/ BucketGone(t, rest)))
      BY <1>1, <2>2, <3>1 DEF Freeing
    <3>7. Later(t, rest)' => Later(todo[k], After(k))'
      BY <3>2 DEF Later, OwnStep, TableGone, ArrayGone, Discards, Own
    <3>8. FreeStep(t, rest)' => FreeStep(todo[k], After(k))'
      BY <3>2 DEF FreeStep
    <3>9. BucketGone(t, rest)' => BucketGone(todo[k], After(k))'
      BY <3>2 DEF BucketGone, Discards, Own
    <3> QED
      BY <3>3, <3>4, <3>5, <3>6, <3>7, <3>8, <3>9
  <2> QED
    BY <1>0, <2>1, <2>2 DEF Steps
<1>10. Content'
  <2>1. \A a, i : Get(a, i)' = Get(a, i)
    BY <1>1 DEF Get
  <2> QED
    BY <1>0, <1>1, <1>8, <2>1 DEF Content
<1> QED
  BY <1>2, <1>3, <1>6, <1>7, <1>9, <1>10 DEF Inv

(* Nothing has changed for the other threads.                              *)
LEMMA OthersRead ==
  ASSUME Types, Readers, Still, NEW r \in Reader,
         reads' \in [Reader -> ReadType], \A q \in Reader : q # r => reads'[q] = reads[q],
         reads'[r].array # 0, reads'[r].array \in DOMAIN arrays, reads'[r].index \in Index,
         reads'[r].at = "bucket" => reads'[r].ptr \in DOMAIN tables,
         reads'[r].at = "element" => reads'[r].ptr \in DOMAIN buckets,
         ReadIs(r)'
  PROVE  ReadsOK' /\ Readers'
<1>1. /\ arrays' = arrays /\ tables' = tables /\ buckets' = buckets /\ owned' = owned
      /\ contents' = contents /\ todo' = todo
  BY DEF Still
<1>2. /\ Intact' = Intact /\ Entries' = Entries /\ (\A c : Table(c)' = Table(c)) /\ Writable' = Writable
  BY <1>1 DEF Intact, Entries, Table, Writable
<1>3. (\A c, e : Own(c, e)' <=> Own(c, e)) /\ (\A c, j : Get(c, j)' = Get(c, j))
  BY <1>1, <1>2 DEF Own, Get
<1>4. ASSUME NEW q \in Reader, q # r
      PROVE  ReadIs(q)'
  <2>1. ReadIs(q) /\ reads'[q] = reads[q]
    BY <1>4 DEF Readers, ReadIs
  <2>2. ReadOK(q) => ReadOK(q)'
    BY <1>1, <1>2, <1>3, <2>1 DEF ReadOK
  <2> QED
    BY <1>1, <2>1, <2>2 DEF ReadIs
<1>5. Readers'
  BY <1>4 DEF Readers, ReadIs
<1>6. ReadsOK'
  BY <1>1 DEF Types, ReadsOK
<1> QED
  BY <1>5, <1>6

(* A load, as to the reader's state.                                       *)
LEMMA LoadIs ==
  ASSUME ReadsOK, NEW r \in Reader, NEW at, NEW ptr \in Nat, Load(r, at, ptr),
         at \in {"default", "buckets", "bucket", "element"}
  PROVE  /\ reads' \in [Reader -> ReadType] /\ \A q \in Reader : q # r => reads'[q] = reads[q]
         /\ reads'[r].at = at /\ reads'[r].ptr = ptr /\ reads'[r].array = reads[r].array
         /\ reads'[r].index = reads[r].index /\ reads'[r].right = reads[r].right
         /\ reads'[r].changed = reads[r].changed /\ reads'[r].got = reads[r].got
<1>1. reads \in [Reader -> ReadType]
  BY DEF ReadsOK
<1>2. PICK e : e = [[reads[r] EXCEPT !.at = at] EXCEPT !.ptr = ptr]
  OBVIOUS
<1>3. reads' = [reads EXCEPT ![r] = e]
  BY <1>1, <1>2 DEF Load
<1>4. e \in ReadType
  BY <1>1, <1>2 DEF ReadType
<1>5. /\ e.at = at /\ e.ptr = ptr /\ e.array = reads[r].array /\ e.index = reads[r].index
      /\ e.right = reads[r].right /\ e.changed = reads[r].changed /\ e.got = reads[r].got
  BY <1>1, <1>2 DEF ReadType
<1>6. reads'[r] = e /\ reads' \in [Reader -> ReadType] /\ \A q \in Reader : q # r => reads'[q] = reads[q]
  BY <1>1, <1>3, <1>4
<1> QED
  BY <1>5, <1>6

(* The end of a read, as to the reader's state.                            *)
LEMMA GotIs ==
  ASSUME ReadsOK, NEW r \in Reader, NEW v \in Word, Got(r, v)
  PROVE  /\ reads' \in [Reader -> ReadType] /\ \A q \in Reader : q # r => reads'[q] = reads[q]
         /\ reads'[r].at = "idle" /\ reads'[r].ptr = reads[r].ptr /\ reads'[r].array = reads[r].array
         /\ reads'[r].index = reads[r].index /\ reads'[r].right = reads[r].right
         /\ reads'[r].changed = reads[r].changed /\ reads'[r].got = v
<1>1. reads \in [Reader -> ReadType]
  BY DEF ReadsOK
<1>2. PICK e : e = [[reads[r] EXCEPT !.at = "idle"] EXCEPT !.got = v]
  OBVIOUS
<1>3. reads' = [reads EXCEPT ![r] = e]
  BY <1>1, <1>2 DEF Got
<1>4. e \in ReadType
  BY <1>1, <1>2 DEF ReadType
<1>5. /\ e.at = "idle" /\ e.ptr = reads[r].ptr /\ e.array = reads[r].array /\ e.index = reads[r].index
      /\ e.right = reads[r].right /\ e.changed = reads[r].changed /\ e.got = v
  BY <1>1, <1>2 DEF ReadType
<1>6. reads'[r] = e /\ reads' \in [Reader -> ReadType] /\ \A q \in Reader : q # r => reads'[q] = reads[q]
  BY <1>1, <1>3, <1>4
<1> QED
  BY <1>5, <1>6

-----------------------------------------------------------------------------
(* The end of a load, and the end of a read.                               *)
LEMMA LoadKeeps ==
  ASSUME Inv, Still, NEW r \in Reader, NEW at, NEW ptr \in Nat, Load(r, at, ptr),
         at \in {"default", "buckets", "bucket", "element"}, reads[r].at # "idle",
         at = "bucket" => ptr \in DOMAIN tables, at = "element" => ptr \in DOMAIN buckets,
         NEW a, NEW i, a = reads[r].array, i = reads[r].index,
         ~reads[r].changed =>
           /\ at # "element" => Get(a, i) \in reads[r].right
           /\ at = "default" => K(i) > Len(Table(a))
           /\ at \in {"buckets", "bucket", "element"} => K(i) <= Len(Table(a))
           /\ at = "bucket" => ptr = arrays[a].buckets
           /\ at = "element" =>
                /\ buckets[ptr].st = "live" /\ buckets[ptr].elems[i % BucketSize] \in reads[r].right
                /\ \A x \in Writable : Own(x, ptr) /\ ptr # arrays[x].empty => x = a /\ Table(a)[K(i)] = ptr
  PROVE  Inv'
<1>0. Types /\ Readers /\ ReadsOK
  BY InvParts
<1>1. /\ arrays' = arrays /\ tables' = tables /\ buckets' = buckets /\ owned' = owned
      /\ contents' = contents /\ todo' = todo
  BY DEF Still
<1>2. /\ Intact' = Intact /\ Entries' = Entries /\ (\A c : Table(c)' = Table(c)) /\ Writable' = Writable
  BY <1>1 DEF Intact, Entries, Table, Writable
<1>3. (\A c, e : Own(c, e)' <=> Own(c, e)) /\ (\A c, j : Get(c, j)' = Get(c, j))
  BY <1>1, <1>2 DEF Own, Get
<1>4. /\ reads' \in [Reader -> ReadType] /\ \A q \in Reader : q # r => reads'[q] = reads[q]
      /\ reads'[r].at = at /\ reads'[r].ptr = ptr /\ reads'[r].array = a
      /\ reads'[r].index = i /\ reads'[r].right = reads[r].right
      /\ reads'[r].changed = reads[r].changed /\ reads'[r].got = reads[r].got
  BY <1>0, LoadIs
<1>5. a # 0 /\ a \in DOMAIN arrays /\ i \in Index
  BY <1>0 DEF ReadsOK
<1>6. ASSUME ~reads[r].changed
      PROVE  ReadOK(r)'
  <2>1. /\ ReadOK(r) /\ contents[a][i] \in reads[r].right
        /\ a \in Intact /\ a \in DOMAIN arrays /\ i \in Index /\ arrays[a].st = "live"
        /\ Len(Table(a)) = arrays[a].size /\ \A e \in Entries[a] : buckets[e].st = "live"
        /\ reads[r].at = "element" => reads[r].ptr \in DOMAIN buckets
    BY <1>0, <1>6, ReadNow
  <2> QED
    BY <1>1, <1>2, <1>3, <1>4, <1>6, <2>1 DEF ReadOK
<1>7. contents[a][i] \in reads[r].right
  BY <1>0, <1>5 DEF Readers
<1>8. ReadIs(r)'
  BY <1>1, <1>4, <1>6, <1>7 DEF ReadIs
<1>9. ReadsOK' /\ Readers'
  BY <1>0, <1>4, <1>5, <1>8, OthersRead
<1> QED
  BY <1>9, StillKeeps

(* A reader has got its value.                                             *)
LEMMA GotKeeps ==
  ASSUME Inv, Still, NEW r \in Reader, NEW v \in Word, Got(r, v), reads[r].at # "idle",
         ~reads[r].changed => v \in reads[r].right
  PROVE  Inv'
<1>0. Types /\ Readers /\ ReadsOK
  BY InvParts
<1>1. contents' = contents
  BY DEF Still
<1>2. /\ reads' \in [Reader -> ReadType] /\ \A q \in Reader : q # r => reads'[q] = reads[q]
      /\ reads'[r].at = "idle" /\ reads'[r].ptr = reads[r].ptr /\ reads'[r].array = reads[r].array
      /\ reads'[r].index = reads[r].index /\ reads'[r].right = reads[r].right
      /\ reads'[r].changed = reads[r].changed /\ reads'[r].got = v
  BY <1>0, GotIs
<1>3. reads[r].array # 0 /\ reads[r].array \in DOMAIN arrays /\ reads[r].index \in Index
  BY <1>0 DEF ReadsOK
<1>4. ReadIs(r)'
  BY <1>0, <1>1, <1>2, <1>3 DEF ReadIs, Readers
<1>5. ReadsOK' /\ Readers'
  BY <1>0, <1>2, <1>3, <1>4, OthersRead
<1> QED
  BY <1>5, StillKeeps

(* What a thread loads.                                                    *)
LEMMA LoadSizeKeeps ==
  ASSUME Inv, Still, NEW r \in Reader, LoadSize(r)
  PROVE  Inv'
<1>0. Types /\ Readers /\ ReadsOK
  BY InvParts
<1>1. PICK a, i : a = reads[r].array /\ i = reads[r].index
  OBVIOUS
<1>2. reads[r].at = "size" /\ a \in DOMAIN arrays /\ i \in Index
  BY <1>0, <1>1 DEF LoadSize, ReadsOK
<1>3. i \div BucketSize = K(i) - 1 /\ K(i) \in Nat \ {0} /\ arrays[a].size \in Nat
  <2>1. i \in Nat
    BY <1>2, IndexNat
  <2>2. arrays[a].size \in Nat
    BY <1>0, <1>2, ArrayIs DEF Types
  <2> QED
    BY <2>1, <2>2, IndexIs
<1>4. ASSUME ~reads[r].changed
      PROVE  Get(a, i) \in reads[r].right /\ Len(Table(a)) = arrays[a].size
  <2>1. /\ ReadOK(r) /\ Len(Table(a)) = arrays[a].size
    BY <1>0, <1>1, <1>2, <1>4, ReadNow
  <2> QED
    BY <1>1, <1>2, <2>1 DEF ReadOK
<1>5. CASE i \div BucketSize < arrays[a].size
  <2>1. Load(r, "buckets", 0)
    BY <1>1, <1>5 DEF LoadSize
  <2>2. K(i) <= arrays[a].size
    BY <1>3, <1>5
  <2> QED
    BY <1>1, <1>2, <1>4, <2>1, <2>2, LoadKeeps
<1>6. CASE ~(i \div BucketSize < arrays[a].size)
  <2>1. Load(r, "default", 0)
    BY <1>1, <1>6 DEF LoadSize
  <2>2. K(i) > arrays[a].size
    BY <1>3, <1>6
  <2> QED
    BY <1>1, <1>2, <1>4, <2>1, <2>2, LoadKeeps
<1> QED
  BY <1>5, <1>6

(* Beyond its size an array has the default element, that of the empty     *)
(* bucket.                                                                 *)
LEMMA LoadDefaultKeeps ==
  ASSUME Inv, Still, NEW r \in Reader, LoadDefault(r)
  PROVE  Inv'
<1>0. Types /\ Readers /\ ReadsOK /\ Empties
  BY InvParts
<1>1. PICK a, i : a = reads[r].array /\ i = reads[r].index
  OBVIOUS
<1>2. reads[r].at = "default" /\ a \in DOMAIN arrays /\ i \in Index
  BY <1>0, <1>1 DEF LoadDefault, ReadsOK
<1>3. PICK b, v : b = arrays[a].empty /\ v = buckets[b].elems[0]
  OBVIOUS
<1>4. v \in Word /\ b \in DOMAIN buckets
  BY <1>0, <1>2, <1>3, ArrayIs, IndexNat DEF Types, Word
<1>5. Got(r, v)
  BY <1>1, <1>3 DEF LoadDefault
<1>6. ASSUME ~reads[r].changed
      PROVE  v \in reads[r].right
  <2>1. /\ ReadOK(r)
        /\ a \in Intact /\ arrays[a].st = "live" /\ \A e \in Entries[a] : buckets[e].st = "live"
    BY <1>0, <1>1, <1>2, <1>6, ReadNow
  <2>2. Get(a, i) \in reads[r].right /\ K(i) > Len(Table(a))
    BY <1>1, <1>2, <2>1 DEF ReadOK
  <2>3. /\ DOMAIN Table(a) = 1..Len(Table(a)) /\ Len(Table(a)) \in Nat /\ b \in Entries[a]
    BY <1>0, <1>3, <2>1, EntriesNow DEF EntriesFact, Types
  <2>4. K(i) \in Nat /\ i % BucketSize \in Offset /\ 0 \in Offset
    BY <1>2, IndexNat, IndexIs
  <2>5. K(i) \notin DOMAIN Table(a)
    BY <2>2, <2>3, <2>4
  <2>6. BucketAt(a, i) = b
    BY <1>3, <2>5 DEF BucketAt
  <2>7. Get(a, i) = buckets[b].elems[i % BucketSize]
    BY <1>0, <1>2, <2>1, <2>6, GetNow DEF GetFact, Types
  <2>8. buckets[b].elems[i % BucketSize] = NoValue /\ v = NoValue
    BY <1>0, <1>2, <1>3, <2>1, <2>3, <2>4 DEF Empties
  <2> QED
    BY <2>2, <2>7, <2>8
<1> QED
  BY <1>2, <1>4, <1>5, <1>6, GotKeeps

(* The table is loaded: the one that the array has now.                    *)
LEMMA LoadBucketsKeeps ==
  ASSUME Inv, Still, NEW r \in Reader, LoadBuckets(r)
  PROVE  Inv'
<1>0. Types /\ Readers /\ ReadsOK
  BY InvParts
<1>1. PICK a, i, p : a = reads[r].array /\ i = reads[r].index /\ p = arrays[a].buckets
  OBVIOUS
<1>2. reads[r].at = "buckets" /\ a \in DOMAIN arrays /\ i \in Index
  BY <1>0, <1>1 DEF LoadBuckets, ReadsOK
<1>3. p \in Nat /\ (p # 0 => p \in DOMAIN tables)
  BY <1>0, <1>1, <1>2, ArrayIs DEF Types
<1>4. ASSUME ~reads[r].changed
      PROVE  p # 0 /\ Get(a, i) \in reads[r].right /\ K(i) <= Len(Table(a))
  <2>1. ReadOK(r) /\ a \in Intact
    BY <1>0, <1>1, <1>2, <1>4, ReadNow
  <2> QED
    BY <1>1, <1>2, <2>1 DEF ReadOK, Intact
<1>5. CASE p = 0
  <2>1. Got(r, Wild) /\ Wild \in Word
    BY <1>1, <1>5 DEF LoadBuckets, Word
  <2> QED
    BY <1>2, <1>4, <1>5, <2>1, GotKeeps
<1>6. CASE p # 0
  <2>1. Load(r, "bucket", p)
    BY <1>1, <1>6 DEF LoadBuckets
  <2> QED
    BY <1>1, <1>2, <1>3, <1>4, <1>6, <2>1, LoadKeeps
<1> QED
  BY <1>5, <1>6

(* The bucket is loaded: live, and it has the element.                     *)
LEMMA LoadBucketKeeps ==
  ASSUME Inv, Still, NEW r \in Reader, LoadBucket(r)
  PROVE  Inv'
<1>0. Types /\ Readers /\ ReadsOK /\ Heap /\ ProgramOK /\ Shared
  BY InvParts
<1>1. PICK a, i, t, k : a = reads[r].array /\ i = reads[r].index /\ t = tables[reads[r].ptr].at /\ k = K(i)
  OBVIOUS
<1>2. reads[r].at = "bucket" /\ a \in DOMAIN arrays /\ i \in Index /\ reads[r].ptr \in DOMAIN tables
  BY <1>0, <1>1 DEF LoadBucket, ReadsOK
<1>3. \A j \in DOMAIN t : t[j] \in Nat /\ (t[j] # 0 => t[j] \in DOMAIN buckets)
  <2>1. \A j \in DOMAIN t : t[j] \in Nat /\ t[j] <= Len(buckets)
    BY <1>0, <1>1, <1>2, ArrayIs DEF Types
  <2>2. Len(buckets) \in Nat /\ DOMAIN buckets = 1..Len(buckets)
    BY <1>0, ArrayIs DEF Types
  <2> QED
    BY <2>1, <2>2
<1>4. ASSUME ~reads[r].changed
      PROVE  /\ t = Table(a) /\ k \in DOMAIN t /\ t[k] \in DOMAIN buckets /\ t[k] # 0
             /\ K(i) <= Len(Table(a)) /\ buckets[t[k]].st = "live"
             /\ buckets[t[k]].elems[i % BucketSize] \in reads[r].right
             /\ \A x \in Writable : Own(x, t[k]) /\ t[k] # arrays[x].empty => x = a /\ Table(a)[K(i)] = t[k]
  <2>1. /\ ReadOK(r)
        /\ a \in Intact /\ arrays[a].st = "live" /\ \A e \in Entries[a] : buckets[e].st = "live"
    BY <1>0, <1>1, <1>2, <1>4, ReadNow
  <2>2. Get(a, i) \in reads[r].right /\ K(i) <= Len(Table(a)) /\ t = Table(a)
    BY <1>1, <1>2, <2>1 DEF ReadOK, Table
  <2>3. /\ DOMAIN t = 1..Len(t) /\ Len(t) \in Nat /\ \A j \in DOMAIN t : t[j] \in Entries[a]
    BY <1>0, <2>1, <2>2, EntriesNow DEF EntriesFact, Types
  <2>4. k \in Nat \ {0}
    BY <1>1, <1>2, IndexNat, IndexIs
  <2>5. k \in DOMAIN t
    BY <1>1, <2>2, <2>3, <2>4
  <2>6. PICK b : b = t[k]
    OBVIOUS
  <2>7. b \in Entries[a] /\ b \in DOMAIN buckets /\ b # 0 /\ buckets[b].st = "live"
    <3>1. b \in Entries[a]
      BY <2>3, <2>5, <2>6
    <3>2. b \in DOMAIN buckets
      BY <1>0, <1>2, <3>1, OwnIn
    <3>3. \A e \in DOMAIN buckets : e # 0
      BY <1>0, ArrayIs DEF Types
    <3> QED
      BY <2>1, <3>1, <3>2, <3>3
  <2>8. BucketAt(a, i) = b
    BY <1>1, <2>2, <2>5, <2>6 DEF BucketAt
  <2>9. Get(a, i) = buckets[b].elems[i % BucketSize]
    BY <1>0, <1>2, <2>1, <2>8, GetNow DEF GetFact, Types
  <2>10. \A x \in Writable : Own(x, b) => x = a
    BY <1>0, <1>2, <2>7, WritableIs DEF Shared
  <2> QED
    BY <1>1, <2>2, <2>5, <2>6, <2>7, <2>9, <2>10
<1>5. \/ k \notin DOMAIN t /\ Got(r, Wild)
      \/ k \in DOMAIN t /\ t[k] = 0 /\ Got(r, Wild)
      \/ k \in DOMAIN t /\ t[k] # 0 /\ Load(r, "element", t[k])
  BY <1>1 DEF LoadBucket, K
<1>6. CASE k \in DOMAIN t /\ t[k] # 0 /\ Load(r, "element", t[k])
  <2>1. PICK b : b = t[k]
    OBVIOUS
  <2>2. b \in Nat /\ b \in DOMAIN buckets /\ Load(r, "element", b)
    BY <1>3, <1>6, <2>1
  <2>3. ~reads[r].changed =>
             /\ K(i) <= Len(Table(a)) /\ buckets[b].st = "live"
             /\ buckets[b].elems[i % BucketSize] \in reads[r].right
             /\ \A x \in Writable : Own(x, b) /\ b # arrays[x].empty => x = a /\ Table(a)[K(i)] = b
    BY <1>4, <2>1
  <2> QED
    BY <1>1, <1>2, <2>2, <2>3, LoadKeeps
<1>7. CASE Got(r, Wild) /\ (k \notin DOMAIN t \/ t[k] = 0)
  <2>1. Wild \in Word
    BY DEF Word
  <2> QED
    BY <1>2, <1>4, <1>7, <2>1, GotKeeps
<1> QED
  BY <1>5, <1>6, <1>7

(* The element is loaded from the bucket that was found.                   *)
LEMMA LoadElementKeeps ==
  ASSUME Inv, Still, NEW r \in Reader, LoadElement(r)
  PROVE  Inv'
<1>0. Types /\ Readers /\ ReadsOK
  BY InvParts
<1>1. PICK a, i, b : a = reads[r].array /\ i = reads[r].index /\ b = reads[r].ptr
  OBVIOUS
<1>2. reads[r].at = "element" /\ a \in DOMAIN arrays /\ i \in Index /\ b \in DOMAIN buckets
  BY <1>0, <1>1 DEF LoadElement, ReadsOK
<1>3. PICK v : v = buckets[b].elems[i % BucketSize]
  OBVIOUS
<1>4. v \in Word
  <2>1. i % BucketSize \in Offset
    BY <1>2, IndexNat, IndexIs
  <2>2. buckets[b].elems \in [Offset -> Elem]
    BY <1>0, <1>2, ArrayIs DEF Types
  <2> QED
    BY <1>3, <2>1, <2>2 DEF Word
<1>5. Got(r, v)
  BY <1>1, <1>3 DEF LoadElement
<1>6. ASSUME ~reads[r].changed
      PROVE  v \in reads[r].right
  <2>1. ReadOK(r)
    BY <1>0, <1>1, <1>2, <1>6, ReadNow
  <2> QED
    BY <1>1, <1>2, <1>3, <2>1 DEF ReadOK
<1> QED
  BY <1>2, <1>4, <1>5, <1>6, GotKeeps

(* sarray_get_safe (), each of its loads.                                  *)
LEMMA ReadStepKeeps ==
  ASSUME Inv, NEW r \in Reader, ReadStep(r)
  PROVE  Inv'
<1>1. Still
  BY DEF ReadStep, Still
<1>2. LoadSize(r) \/ LoadDefault(r) \/ LoadBuckets(r) \/ LoadBucket(r) \/ LoadElement(r)
  BY DEF ReadStep
<1> QED
  BY <1>1, <1>2, LoadSizeKeeps, LoadDefaultKeeps, LoadBucketsKeeps, LoadBucketKeeps, LoadElementKeeps

(* A read begins.                                                          *)
LEMMA ReadKeeps ==
  ASSUME Inv, NEW r \in Reader, NEW a \in DOMAIN arrays, NEW i \in Index, Read(r, a, i)
  PROVE  Inv'
<1>0. /\ Types /\ Readers /\ ReadsOK /\ ProgramOK /\ References /\ Alive /\ Sizes
      /\ ArraysOK /\ TablesOK /\ BucketsOK
  BY InvParts
<1>1. Still /\ reads[r].at = "idle" /\ a \in owned
  BY DEF Read, Still
<1>2. /\ arrays' = arrays /\ tables' = tables /\ buckets' = buckets /\ owned' = owned
      /\ contents' = contents /\ todo' = todo
  BY <1>1 DEF Still
<1>3. /\ Intact' = Intact /\ Entries' = Entries /\ (\A c : Table(c)' = Table(c)) /\ Writable' = Writable
  BY <1>2 DEF Intact, Entries, Table, Writable
<1>4. (\A c, e : Own(c, e)' <=> Own(c, e)) /\ (\A c, j : Get(c, j)' = Get(c, j))
  BY <1>2, <1>3 DEF Own, Get
<1>5. Whole(a) /\ a \in Intact
  BY <1>0, <1>1, WholeNow DEF WholeFact, Whole
<1>6. Get(a, i) \in Word /\ contents[a][i] \in Word
  <2>1. BucketAt(a, i) \in Entries[a] /\ Get(a, i) = buckets[BucketAt(a, i)].elems[i % BucketSize]
    BY <1>0, <1>5, GetNow DEF GetFact, Whole
  <2>2. BucketAt(a, i) \in DOMAIN buckets
    BY <2>1, OwnIn, InvParts
  <2>3. i % BucketSize \in Offset
    BY IndexNat, IndexIs
  <2>4. buckets[BucketAt(a, i)].elems \in [Offset -> Elem]
    BY <1>0, <2>2, ArrayIs
  <2>5. contents[a] \in [Index -> Value \cup {NoValue}]
    <3>1. DOMAIN contents = DOMAIN arrays
      BY <1>0, SeqIs DEF ProgramOK, ArraysOK
    <3> QED
      BY <1>0, <3>1, SeqIs DEF ProgramOK
  <2> QED
    BY <2>1, <2>3, <2>4, <2>5 DEF Word, Elem
<1>7. PICK s, changed : s = {Get(a, i), contents[a][i]} /\ changed = (Do("install") /\ Step.a = a)
  OBVIOUS
<1>8. s \in SUBSET Word /\ changed \in BOOLEAN
  BY <1>6, <1>7
<1>9. PICK e : e = [Idle EXCEPT !.at = "size", !.array = a, !.index = i, !.right = s, !.changed = changed]
  OBVIOUS
<1>10. a \in Nat \ {0} /\ i \in Nat
  BY <1>0, ArrayIs, IndexNat
<1>11. /\ e.at = "size" /\ e.array = a /\ e.index = i /\ e.right = s /\ e.changed = changed
       /\ e.ptr = 0 /\ e.got = NoValue /\ e \in ReadType
  BY <1>8, <1>9, <1>10 DEF Idle, ReadType, Word, Elem
<1>12. reads' = [reads EXCEPT ![r] = e]
  BY <1>7, <1>9 DEF Read
<1>13. /\ reads' \in [Reader -> ReadType] /\ \A q \in Reader : q # r => reads'[q] = reads[q]
       /\ reads'[r] = e
  BY <1>0, <1>11, <1>12 DEF ReadsOK
<1>14. ASSUME ~changed
       PROVE  Len(Table(a)) = arrays[a].size
  BY <1>0, <1>5, <1>7, <1>14, TodoIs DEF Sizes, Growing
<1>15. ReadIs(r)'
  <2>1. contents'[reads'[r].array][reads'[r].index] \in reads'[r].right
    BY <1>2, <1>7, <1>11, <1>13
  <2>2. ASSUME ~changed
        PROVE  ReadOK(r)'
    BY <1>2, <1>3, <1>4, <1>5, <1>7, <1>11, <1>13, <1>14, <2>2 DEF ReadOK, Whole
  <2> QED
    BY <1>11, <1>13, <2>1, <2>2 DEF ReadIs
<1>16. ReadsOK' /\ Readers'
  BY <1>0, <1>1, <1>10, <1>11, <1>13, <1>15, OthersRead
<1> QED
  BY <1>1, <1>16, StillKeeps

-----------------------------------------------------------------------------
(* The invariant holds at the start, is kept, and says what was meant.     *)
LEMMA InitInv == Init => Inv
<1> SUFFICES ASSUME Init
             PROVE  Inv
  OBVIOUS
<1>1. /\ arrays = <<>> /\ tables = <<>> /\ buckets = <<>>
      /\ owned = {} /\ contents = <<>> /\ todo = <<>>
      /\ DOMAIN arrays = {} /\ DOMAIN tables = {} /\ DOMAIN buckets = {} /\ Len(todo) = 0
      /\ Len(arrays) = 0 /\ Len(contents) = 0
  BY DEF Init
<1>2. Idle \in ReadType /\ Idle.at = "idle" /\ Idle.array = 0 /\ Idle.got \in Idle.right
  BY DEF Idle, ReadType, Word, Elem
<1>3. reads \in [Reader -> ReadType] /\ \A r \in Reader : reads[r] = Idle
  BY <1>2 DEF Init
<1>4. Types
  <2>1. ArraysOK /\ TablesOK /\ BucketsOK /\ ProgramOK
    BY <1>1 DEF ArraysOK, TablesOK, BucketsOK, ProgramOK
  <2>2. ReadsOK
    BY <1>2, <1>3 DEF ReadsOK
  <2> QED
    BY <2>1, <2>2 DEF Types
<1>5. Intact = {}
  BY <1>1 DEF Intact
<1>6. Heap
  BY <1>1, <1>5 DEF Heap, Apart, Versions, SameEmpty, Owners, Placed, Shared, From, Alive, Empties
<1>7. References /\ Sizes
  BY <1>1, <1>5 DEF References, Sizes
<1>8. Steps
  <2>1. 1..Len(todo) = {}
    BY <1>1
  <2> QED
    BY <2>1 DEF Steps, Freeing
<1>9. Content
  BY <1>1 DEF Content
<1>10. Readers
  BY <1>2, <1>3 DEF Readers
<1> QED
  BY <1>4, <1>6, <1>7, <1>8, <1>9, <1>10 DEF Inv

(* Each step keeps the invariant, if what was freed reads as it did or is  *)
(* kept for the readers.                                                   *)
LEMMA NextInv ==
  ASSUME FreedKeeps \/ Reader # {}, Inv, [Next]_vars
  PROVE  Inv'
<1>1. ASSUME NEW n \in 1..MaxBuckets, New(n)
      PROVE  Inv'
  BY <1>1, NewKeeps
<1>2. ASSUME NEW a \in DOMAIN arrays, LazyCopy(a) \/ Free(a) \/ \E i \in Index, v \in Value : AtPut(a, i, v)
      PROVE  Inv'
  <2>1. CASE LazyCopy(a)
    BY <2>1, CopyKeeps
  <2>2. CASE Free(a)
    BY <2>2, FreeKeeps
  <2>3. ASSUME NEW i \in Index, NEW v \in Value, AtPut(a, i, v)
        PROVE  Inv'
    BY <2>3, PutKeeps
  <2> QED
    BY <1>2, <2>1, <2>2, <2>3
<1>3. CASE SetSize \/ InstallTable \/ OwnBucket \/ SetElement
  BY <1>3, SetSizeKeeps, InstallKeeps, OwnBucketKeeps, SetElementKeeps
<1>4. CASE FreeArray \/ Skip \/ IsOwn \/ Discard
  BY <1>4, FreeArrayKeeps, SkipKeeps, IsOwnKeeps, DiscardKeeps
<1>5. ASSUME NEW r \in Reader, ReadStep(r)
      PROVE  Inv'
  BY <1>5, ReadStepKeeps
<1>6. ASSUME NEW r \in Reader, NEW a \in DOMAIN arrays, NEW i \in Index, Read(r, a, i)
      PROVE  Inv'
  BY <1>6, ReadKeeps
<1>7. CASE UNCHANGED vars
  <2>1. Still /\ reads' = reads
    BY <1>7 DEF vars, Still
  <2>2. ReadsOK /\ Readers
    BY InvParts
  <2>3. /\ arrays' = arrays /\ tables' = tables /\ buckets' = buckets /\ owned' = owned
        /\ contents' = contents
    BY <2>1 DEF Still
  <2>4. ReadsOK'
    BY <2>1, <2>2, <2>3 DEF ReadsOK
  <2>5. Readers'
    <3>1. /\ Intact' = Intact /\ Entries' = Entries /\ (\A c : Table(c)' = Table(c)) /\ Writable' = Writable
      BY <2>3 DEF Intact, Entries, Table, Writable
    <3>2. (\A c, e : Own(c, e)' <=> Own(c, e)) /\ (\A c, j : Get(c, j)' = Get(c, j))
      BY <2>3, <3>1 DEF Own, Get
    <3>3. ASSUME NEW r \in Reader
          PROVE  ReadIs(r)'
      <4>1. ReadIs(r)
        BY <2>2 DEF Readers, ReadIs
      <4>2. ReadOK(r) => ReadOK(r)'
        BY <2>1, <2>3, <3>1, <3>2 DEF ReadOK
      <4> QED
        BY <2>1, <2>3, <4>1, <4>2 DEF ReadIs
    <3> QED
      BY <3>3 DEF Readers, ReadIs
  <2> QED
    BY <2>1, <2>4, <2>5, StillKeeps
<1> QED
  BY <1>1, <1>2, <1>3, <1>4, <1>5, <1>6, <1>7 DEF Next

(* An element that is not as it should be is being written.                *)
LEMMA InvContent == Inv => ContentRight
<1> SUFFICES ASSUME Inv, todo = <<>>, NEW a \in owned, NEW i \in Index
             PROVE  Get(a, i) = contents[a][i]
  BY DEF ContentRight
<1>1. Content /\ ProgramOK
  BY InvParts
<1>2. \A v : ~Writing(a, i, v)
  BY <1>1, WritingOne
<1> QED
  BY <1>1, <1>2 DEF Content

(* The types say what is linked and that nothing is freed twice.           *)
LEMMA InvMemory == Inv => MemoryRight
<1> SUFFICES ASSUME Inv
             PROVE  MemoryRight
  OBVIOUS
<1>1. ArraysOK /\ TablesOK /\ BucketsOK /\ ProgramOK
  BY InvParts
<1>2. /\ Len(arrays) \in Nat /\ DOMAIN arrays = 1..Len(arrays)
      /\ Len(tables) \in Nat /\ DOMAIN tables = 1..Len(tables)
      /\ Len(buckets) \in Nat /\ DOMAIN buckets = 1..Len(buckets)
      /\ \A a \in DOMAIN arrays :
           /\ arrays[a].st \in St /\ arrays[a].buckets \in Nat /\ arrays[a].buckets <= Len(tables)
           /\ arrays[a].empty \in DOMAIN buckets /\ arrays[a].ref \in Nat
           /\ arrays[a].copyOf \in Nat /\ arrays[a].copyOf < a
      /\ \A p \in DOMAIN tables :
           /\ tables[p].st \in St
           /\ \A k \in DOMAIN tables[p].at : tables[p].at[k] \in Nat /\ tables[p].at[k] <= Len(buckets)
      /\ \A b \in DOMAIN buckets : buckets[b].st \in St
  BY <1>1, ArrayIs
<1>3. \A s \in St : s \in States /\ s # "freed twice"
  BY DEF St, States
<1>4. \A a \in DOMAIN arrays :
        /\ arrays[a].st \in States /\ arrays[a].ref \in Nat
        /\ arrays[a].buckets \in 0..Len(tables) /\ arrays[a].empty \in DOMAIN buckets
        /\ arrays[a].copyOf \in 0..Len(arrays)
  <2> SUFFICES ASSUME NEW a \in DOMAIN arrays
               PROVE  /\ arrays[a].st \in States /\ arrays[a].ref \in Nat
                      /\ arrays[a].buckets \in 0..Len(tables) /\ arrays[a].empty \in DOMAIN buckets
                      /\ arrays[a].copyOf \in 0..Len(arrays)
    OBVIOUS
  <2>1. arrays[a].st \in States
    BY <1>2, <1>3
  <2>2. arrays[a].ref \in Nat /\ arrays[a].empty \in DOMAIN buckets
    BY <1>2
  <2>3. arrays[a].buckets \in 0..Len(tables)
    BY <1>2
  <2>4. arrays[a].copyOf \in Nat /\ arrays[a].copyOf < a /\ a \in 1..Len(arrays) /\ Len(arrays) \in Nat
    BY <1>2
  <2>5. arrays[a].copyOf \in 0..Len(arrays)
    BY <2>4
  <2> QED
    BY <2>1, <2>2, <2>3, <2>5
<1>5. \A p \in DOMAIN tables :
        tables[p].st \in States /\ Range(tables[p].at) \subseteq 0..Len(buckets)
  <2> SUFFICES ASSUME NEW p \in DOMAIN tables
               PROVE  tables[p].st \in States /\ Range(tables[p].at) \subseteq 0..Len(buckets)
    OBVIOUS
  <2>1. tables[p].st \in States
    BY <1>2, <1>3
  <2>2. \A k \in DOMAIN tables[p].at : tables[p].at[k] \in 0..Len(buckets)
    BY <1>2
  <2>3. Range(tables[p].at) \subseteq 0..Len(buckets)
    BY <2>2 DEF Range
  <2> QED
    BY <2>1, <2>3
<1>6. TypeOK
  BY <1>1, <1>2, <1>3, <1>4, <1>5 DEF TypeOK, ProgramOK
<1>7. NeverTwice
  BY <1>2, <1>3 DEF NeverTwice
<1> QED
  BY <1>6, <1>7 DEF MemoryRight

(* The invariant says it of each reader.                                   *)
LEMMA InvReaders == Inv => ReaderRightMostly
BY InvParts DEF Readers, ReaderRightMostly

(* For any number of arrays, copies of copies, writes and frees: when      *)
(* nothing is being done each array of the program holds what was written  *)
(* to it.                                                                  *)
THEOREM ContentAlwaysRight ==
  ASSUME FreedKeeps \/ Reader # {}
  PROVE  Spec => []ContentRight
<1>1. Inv /\ [Next]_vars => Inv'
  BY NextInv
<1> QED
  BY <1>1, InitInv, InvContent, PTL DEF Spec

(* All that is linked was made, and sarray_free () frees no array, table   *)
(* or bucket twice.                                                        *)
THEOREM MemoryAlwaysRight ==
  ASSUME FreedKeeps \/ Reader # {}
  PROVE  Spec => []MemoryRight
<1>1. Inv /\ [Next]_vars => Inv'
  BY NextInv
<1> QED
  BY <1>1, InitInv, InvMemory, PTL DEF Spec

(* sarray_get_safe () without the mutex gets a value that the array had in *)
(* the meantime, if the array did not grow and nothing was thrown away     *)
(* then.                                                                   *)
THEOREM ReaderAlwaysRightMostly ==
  ASSUME FreedKeeps \/ Reader # {}
  PROVE  Spec => []ReaderRightMostly
<1>1. Inv /\ [Next]_vars => Inv'
  BY NextInv
<1> QED
  BY <1>1, InitInv, InvReaders, PTL DEF Spec
=============================================================================
