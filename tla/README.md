# Homebrew Psy-Q: TLA+ models of the PlayStation compiler

The repository builds `cc1psx`, the C compiler proper of GCC 2.8.1 for the
PlayStation, with the changes of Psy-Q 4.4 and a converter of line endings; the
tree also holds the driver and the Objective-C runtime. The compiler is
sequential, and its errors are long orders of legal calls that leave one table
saying something that is no longer true. The runtime is concurrent, and the
driver runs beside programs and is interrupted by signals. The modules here take
the parts where that matters most, model their control in full and their data as
far as the properties can tell it apart, check them with TLC on small instances
and prove the most important facts for all instances with TLAPS. Paths below are
relative to `gcc-2.8.1_psyq-4.4/gcc/` in the source tree.

## Inventory

How a source file becomes an assembler file: the driver runs the compiler; the
front end parses and expands one function at a time to RTL, with temporaries on
the stack; the optimizers rewrite it; `flow.c` finds what is live where;
`local-alloc.c` and then `global.c` give pseudo registers hard registers;
`reload1.c` makes every instruction valid and on the way takes registers back;
`final.c` and `varasm.c` write lines to two streams; at the end `mips.c` joins the
streams and `unix2dos.c` converts the line endings. The Objective-C runtime is
linked to programs: every message goes through its dispatch tables, which are
sparse arrays, changed under its mutex and read without it.

| component | state | operations | interacts with | what makes it correct | module |
|---|---|---|---|---|---|
| **driver, `gcc.c`** | two queues of files to delete, programs running, `error_count` | `record_temp_file`, `execute`, the loop of `main`, `fatal_error` | programs, signals | nothing temporary and no half output is left | `Driver` |
| **stack temporaries, `function.c`** | list of slots, levels | assign, split, combine, preserve, free, pop | `expr.c`, `stmt.c` | a slot is not given away while it is needed | `TempSlots` |
| **data flow, `flow.c`** | live sets of blocks, notes, links, counts per register | relaxation, `propagate_block` | gives its tables to all later passes | live where a path reads it; what is deleted was not needed | `LifeAnalysis` |
| **conflicts, `global.c`** | `allocnos_live`, the conflict matrix | `global_conflicts` | walks the notes of `flow.c` | two values live together conflict | `ConflictScan` |
| local allocation, `local-alloc.c` | quantities, `reg_renumber` | one block at a time | `global.c` may evict what it placed | no two quantities live together share a register | input of `GlobalAlloc` |
| **global allocation, `global.c`** | conflict and preference tables, `reg_renumber`, counts per hard register | `global_alloc`, `find_reg`, `retry_global_alloc` | called again by reload | interfering values never share a register; calls, named and fixed registers respected | `GlobalAlloc` |
| **spilling, `reload1.c`** | `forbidden_regs`, `spill_regs`, `regs_ever_live` | `reload` loop, `new_spill_reg`, `spill_hard_reg` | kicks pseudos out and calls `global.c` in the loop over them | what is spilled is empty when it is used | `GlobalAlloc` |
| **assembler output, `varasm.c`, `final.c`, `config/mips/`** | two streams, `asm_out_file`, `in_section`, written flags, externs | `assemble_*`, `output_*`, section functions, `mips_asm_file_end` | called by the front end and by the passes | everything lands in its section, once, declarations before code | `AsmOutput` |
| **files, `toplev.c`, `mips.c`, `unix2dos.c`** | the output and two temporary files, their error indicators | write, rewind, copy, close | stdio | success means the file is complete | `AsmFiles` |
| **line endings, `unix2dos.c`** | two buffers, two indices | `finish_unix2dos` | reads what the compiler wrote | the text is converted; no overrun | `Unix2Dos` |
| **mutexes, `objc/thr.c`** | owner, depth, the system's lock | lock, trylock, unlock, wait, signal, deallocate | pthreads | mutual exclusion, recursion | `ObjcMutex` |
| **threads, `objc/thr.c`** | the number of threads, the garbage list | detach, exit, `sarray_free_garbage` | decides whether memory is freed at once | nobody reads what is freed | `ObjcThreads` |
| **dispatch, `objc/sendmsg.c`** | a table per class, flags, lists of methods | `objc_msg_lookup`, install, update, `+initialize` | categories that are loaded | the right method, `+initialize` once | `DispatchTables` |
| **sparse arrays, `objc/sarray.c`** | tables of shared buckets, versions, references | new, lazy copy, put, realloc, free | readers without the lock | an array holds what was written to it | `SparseArrays` |
| loading and classes, `objc/init.c class.c selector.c` | hash tables, unresolved classes | `__objc_exec_class` | dispatch | | planned |
| scheduling, `sched.c`, `reorg.c` | ready list, priorities | choose, insert into delay slots | | dependences are kept | planned |
| exceptions, `except.c frame.c libgcc2.c` | stacks of regions | push, pop, emit | expansion; runtime | regions nest | planned |
| reload of operands, optimizers, front ends, preprocessor, other tools, generators, debugging output, other targets, build scripts | | | | | no |

What is hard: *staleness* (counts made before the last change, one `in_section` for
two streams, an error indicator cleared before it is asked, slots in a list after
they were combined), *reentrance* (`find_reg` inside `find_reg`, `spill_hard_reg`
calling the allocator inside a loop over the pseudos, messages sent from
`+initialize`), *order* (declarations come in any order, chunks end anywhere, code
is generated before the code it goes into), *partial failure*, *interleaving* of
threads and of signals. `PROJECT.json` lists each hazard at its line with the
properties that watch over it.

## Modules

| module | models |
|---|---|
| `Driver`, `DriverProofs` | `gcc.c`: files, programs, signals; proofs |
| `TempSlots` | the slots of `function.c` under every order of scopes |
| `LifeAnalysis`, `MCLifeAnalysis` | `life_analysis` and `propagate_block`; sets of small functions |
| `ConflictScan`, `MCConflictScan` | EXTENDS `LifeAnalysis`: `global_conflicts` on its result; more functions |
| `GlobalAlloc`, `MCGlobalAlloc` | `global.c` from `expand_preferences` on, and the spilling of `reload1.c`; six registers, six pseudos, 72 functions |
| `RegAssignment` | the promise of an allocator: demote, or place where nothing interferes |
| `GlobalAllocProofs` | the inductive invariant and what follows; that `GlobalAlloc` implements `RegAssignment`; legal homes, and what spilling leaves |
| `AsmOutput`, `MCAsmOutput`, `AsmOutputProofs` | the lines written, by whom, where; a source file of six declarations; proofs |
| `AsmFiles` | the three files, their faults and who notices them |
| `Unix2Dos`, `MCUnix2Dos` | the conversion; short texts |
| `FilesProofs` | EXTENDS `AsmFiles` and `Unix2Dos`: proofs about both |
| `ObjcMutex`, `ObjcMutexProofs` | a mutex of the runtime, one access to a shared word a step; proofs |
| `RecursiveLock` | the promise of such a mutex; `ObjcMutex` implements it, `ObjcThreads` and `DispatchTables` use it |
| `ObjcThreads`, `ObjcThreadsProofs` | the life of threads and what is freed when; proofs |
| `DispatchTables`, `MCDispatchTables`, `DispatchProofs` | dispatch tables and messages; a class, its subclass, a category; proofs |
| `SparseArrays`, `SparseProofs` | sparse arrays and a reader; proofs |

Definitions named in a comment as a mutant are wrong on purpose: each replaces a
definition in a run and shows that the property notices the change. They are used
nowhere else.

### Driver

`todo` is what the driver does next, in order: names are recorded (`Search`,
`PushEntry`: two steps, a signal may come between them) when an argument of a spec
is complete, programs started (`SpawnProgram`, which may fail) when a line is, then
all waited for (`Reap`, `Waited`). `NextFile` is the end of the loop in `main`.
`Signal` replaces `todo` by the handler wherever the driver is, also inside the
handler, and ends the programs if it went to the group. Programs create, complete or
abandon their files in steps of their own; `as` under `-pipe` ends after `cc`. There is
an input file: `main` says "No input files" otherwise (`gcc.c:4656`).

### TempSlots

`slots` is the list `temp_slots`; the functions on it are operators from list to
list (`Combined` is `combine_temp_slots` with its two cursors as recursion and fold).
The expander is a stack of `scopes`; each of its actions is the calls that the code
makes where such a scope begins or ends, and closes with any value that an
expression may have (`Values`): not in memory, in memory that is no temporary, at a word
of a temporary, or in a temporary whose slot the address does not tell. An expression
takes temporaries with KEEP 0 and, as `expand_call` (`calls.c:711`) and ADDR_EXPR
(`expr.c:7250`) do, with KEEP 1; one with KEEP 3 is needed up to the end of the statement,
where the code frees it, though `function.c:823` calls it "a variable in the block". The
value of a cleanup point may be in memory (BLKmode, or ignored). `objects` is what a value or an address that was taken still
needs: the reference, from the code that is generated and not from the levels.
`used` are the words that the code of a statement expression uses, which is
generated first and emitted later.

The code can lose sight of a temporary that is needed, and the model takes these steps.
The value of a statement expression at an address that is not found: `expand_expr_stmt`
preserves the slot, `preserve_rtl_expr_result` then finds nothing, and
`free_temps_for_rtl_expr` frees it (`NotPromoted`). And such a value of any expression
that is in a temporary with KEEP 1, or points to one: the last loop of
`preserve_temp_slots` passes over it and `pop_temp_slots` frees it (`PassedOver`). An
object that went that way is marked `lost`, and `NeededKept`, `SequencesApart` and
`AddressFinds` except it; `AllKept` does not, and fails (`MCTempLost.cfg`). With neither
statement expressions nor KEEP 1 (`SeqDepth = 0`, `Keeps = {0, 2, 3}`) `AllKept` holds.

What a value may point to is needed with it if its address was taken in the same
expression. Three limits of that reference: what a statement expression computes cannot
point to temporaries of the code around it, which is expanded later; its value does not
point into its own block, which it leaves; and a value in memory that leaves a
CLEANUP_POINT_EXPR does not point to temporaries of the full expression, whose lives
C++ ends there. `level` and the other fields of a slot that is not in use are never read
before they are set again; the model clears them.

### LifeAnalysis and ConflictScan

An instruction is a record of what it sets, uses, clobbers, stores and loads. The
relaxation is one action for each of the three ways in which the code treats a block
(`NotConsidered`, `PassThrough`, `Rescan`), then `propagate_block` goes backward with
one action for each instruction, `DeleteInsn` or `KeepInsn`. `ConflictScan` then goes
forward through the same function with nothing but the live sets and the notes, as
`global_conflicts` does. The reference is `Needed`: there is a path to a read.

### ObjcMutex, ObjcThreads

`ObjcMutex` has a step for every read or write of `owner`, `depth` and the system's lock;
the unlocked look at `owner` is one. `RecursiveLock` counts how often a thread has the
lock by what it was told. `ObjcThreads` uses that as the runtime mutex; a new thread
runs before the one that made it counts it.

### DispatchTables

A thread has a stack of frames, one for each message that it is sending, because
`+initialize` sends messages. What a function of the runtime does by recursion over the
classes is a set in the frame from which each step takes what comes next: the classes
whose tables are to be made again (`update`) or made (`install`), the methods still to be
put into the table that is being filled (`puts`), the classes to be sent `+initialize`
(`inits`). A table is installed entry by entry (`NewTable`, `PutMethod`) under the mutex and
read in two steps without it (`ReadTable`, `ReadEntry`). `answer` keeps what a message
found, and what would have been right at some moment while it was being sent.

`SupersFirst` has an exception that the code has: `__objc_send_initialize` flags a class and
all its superclasses before it calls the first method. If that method sends a message to a
class below, whose superclass is flagged already but was not sent `+initialize` yet, the
class below is sent it first.

### SparseArrays

A function that changes arrays is a list of steps in `todo`, one for each access that
another thread can see; a reader loads size, table, bucket and element one after the
other. `contents` is what each array should hold. Memory is "live", "garbage" (its first
word is the link of the list) or "free".

### GlobalAlloc

One behaviour compiles one function `func`. `Facts[func]` is what the earlier
passes found; `FunctionOK` says what they promise: `LocalsPlaced` is the promise of
`local-alloc.c`, `ConflictsRecorded` that of `global_conflicts` (a conflict is
recorded in *some* direction of the table, as `record_one_conflict` leaves it;
`ConflictScan` shows that it is kept),
`HardRegsCounted` that of `flow.c`. `pc` is the place the compiler is at:

    count -> expand -> next <-> search -> (callersave -> search) -> evict/record -> return
                        |          ^                                                 |
                        v          +------------------ spill <-----------------------+
                      reload <---------------------------+

`find_reg` is `Search` (the two passes and the preferences), `TryCallerSave` (the
recursive call: `call` moves to `outer`), `Evict` or `GiveUp`, `Record`,
`ReturnToFindReg`; `TryAlternateClass` and `Return` are the two calls in
`global_alloc` and in `retry_global_alloc`. `spill_hard_reg` is `SpillHardReg` and a
turn of its loop per pseudo, `LeavePseudo` or `KickPseudo`, so that the calls of the
allocator happen in the middle of the loop as they do in the code. Which register
reload wants (`NewSpillReg`), which turns out not to be eliminable
(`CannotEliminate`), and which blocks need it (a pseudo of one block *may* stay)
depends on the instructions: all choices are allowed.

Left out: `reg_may_share` (set only for STRICT_LOW_PART, which `mips.md` does not
have), REG_ALLOC_ORDER and CLASS_CANNOT_CHANGE_SIZE (not defined for MIPS), scratch
registers except for what they make of the counts, nonlocal labels, the limit of a
machine word on priorities.

### AsmOutput

A source file is a set of declarations; any subset in any order is compiled. `file`
holds the two streams as sequences of lines, of which only those remain that switch
a section, define or declare. `inSection` is `in_section` with `in_named_name`;
`SwitchIn` is the early return every section function has; `asmOut` is
`asm_out_file`. `FunctionStream` is the oddity of `psx.h`: the directive of a function
with a section attribute goes to the text file whatever `asm_out_file` is. The
assembler that reads the file is external: `EndsIn` says in which section it is.
`Setup` holds the command lines and section attributes: `-G 0` clears, `-O` sets
`TARGET_GP_OPT` (`mips.c:3403`), `-mno-gpopt` clears it; -ffunction-sections is a
section of its own for each function. File switching is always on (`psx.h:117`).

Left out: `-fpic`, `-membedded-data`, weak symbols, exception tables, debugging
information, constants behind a function (the target defines no
CONSTANT_AFTER_FUNCTION_P), user asm with its own `.section`.

### AsmFiles

The same way to the user's file, seen from stdio: a line that is written may get
lost and sets the error indicator, `rewind` and `fclose` may lose what was in the
buffer, a read may fail, `rewind` clears the indicator. `WriteFaults` and
`ReadFaults` say which streams can fail. The order of lines does not matter here
(it does in `AsmOutput`), nor does the conversion (`Unix2Dos`). `unseen` is a history
variable: whether one of the three faults has happened that the code cannot see.

### Unix2Dos

`finish_unix2dos` with one action for each call of stdio and for each turn of the inner
loop. `DosText` is the promise: byte by byte, every line feed with a carriage
return before it. A carriage return that was there already stays, so text with DOS
line endings gets two: the code does that, and so does the promise.

## Runs

| run | instance and bounds | shows |
|---|---|---|
| `unix2dos` | texts of up to 5 bytes over LF, CR and another, buffer of 2: three chunks, a line feed at every place of a chunk, a chunk of line feeds only; every short read and write | no overrun; converted; it ends, and what was written is a beginning of the right text |
| `global_alloc` | 2 registers clobbered by calls (one of them cannot be saved), 2 preserved, an eliminable, a fixed one; 4 allocnos of one and two words, one not to be placed, one with an alternate class, and 2 pseudos placed by local-alloc; two copies or none, a register that only a scratch has; 72 functions; `MaxSpills` = 2, so that a retry meets what an earlier retry left | the properties below |
| `asm_output` | two functions, one with jump table and pool; a tentative definition, a constant with a string in its initializer and two extern declarations of it; five sets of options; functions and objects never in one section | the right sections, order and number of lines |
| `asm_files` | three lines, copied in chunks of every size; any write and any read may fail | `LossesKnown`: if success is reported and the file is not complete, one of the three faults happened that the code cannot see; `ErrorsNoticed` |
| `asm_text_write` | writes to the text file may fail | the finding below |
| `objc_mutex` | three threads: one has the lock, one waits for it, one for the condition; depth 2 | what callers are told is true; the words are right; it implements `RecursiveLock`; somebody gets a lock that is free |
| `objc_threads` | the first thread and two others, two blocks of memory | the number of threads is right when it is used; nobody reads freed memory; the hook is called |
| `dispatch_two` | two threads with a message or question each, one message from within `+initialize`, a category that overrides a method | tables, `+initialize`, delivery; the right method unless another thread had the mutex meanwhile |
| `sparse_arrays` | four calls in any order, buckets of two, two buckets, one reader | contents, memory, what a reader gets unless the array grows or something is freed meanwhile |
| `conflict_scan` | 7500 functions: every choice of instructions for a jump into a loop of two instructions and one after it, and for a single block of three; four pseudos, five hard registers of five kinds | the whole way from instructions to conflicts |
| `temp_slots` | three temporaries, five scopes, seven of them together, four deep, one statement expression; KEEP 0 to 3, values at addresses found and not found | no slot is given away while its temporary is needed, in order or out of it, unless the code has lost sight of it in one of the two ways above |
| `driver` | three input files: one fails after another succeeded and before a third; `-pipe` or not, `-c` or not; two signals, the second one into the handler of the first | temporary files and half outputs are gone; it ends |

Properties with parts, so that a run asks one question once: `HomesRight` (mode, class,
fixed registers; safe across calls or known to need saving; marked for the prologue),
`SpillsRight` (a spilled register is empty, forbidden ones are not used, in memory only if
there was no room), `CallsReturn` (allocation and spilling end), `SectionsRight`,
`FileRight` (declarations first, each symbol once, functions whole), `EndsRight`,
`LifeRight` (what is deleted was not needed, live sets are those of the paths),
`NotesRight` (death notes, calls crossed, blocks, hard registers, setjmp, links),
`ScanRight` (the walk agrees with the live sets, values live together conflict, outputs
are apart), `ScanEnds`, `CountRight`, `InitializeRight`, `MemoryRight`. `NoOverlap`,
`NoExplicitClobber`, `OnlyLocalsEvicted` and `RefinesAssignment` are those of the proofs;
`ConflictsJustified` says that no conflict is recorded without a reason.

The bounds. An eviction needs an allocno and a local pseudo in one register; a nested
call an allocno that crosses calls; losing a word a pseudo of two words; the staleness
of a forbidden register two spills. A race for a table needs two threads; a chain of
tables a subclass. A second version of a bucket needs a copy and two writes. A live
set that the first pass gets wrong needs a loop; a split slot two that are combined
and a third. All of them occur, as the mutants show: each property fails when one
definition of the model is changed into a plausible mistake. In `AsmOutput` string
constants, extern declarations and definitions happen at most once because the code
has a flag for each; one jump table a function is a bound. `SYMMETRY` is used for the
two extern declarations, which are the same in every respect, and only in a run
without liveness. Deadlock is not checked where the program ends or the bounds end it.

**Fairness.** `GlobalAlloc`, `Unix2Dos` and `ConflictScan` assume `WF_vars(Next)`: the code is
sequential, waits for nothing, and takes its next step; how often it spills is bounded.
`ObjcMutex`, `ObjcThreads` and `DispatchTables` assume that the system runs every thread
that is inside a call (not that a thread makes calls, nor that the system's lock is fair:
`SomebodyGetsIt` says that somebody gets it). `Driver` assumes that the driver and each program
run on. `AsmOutput`, `AsmFiles`, `SparseArrays` and `TempSlots` assume none: their properties
are safety, and how many calls come is up to the program.

## Finding

A failed write to the text file is forgotten by `rewind` one line before `ferror`
(`mips.c:4652`); run `asm_text_write`. `toplev.c:2818` takes "special care" for the same fault
in the other file.

## Other disagreements seen

Each of these configurations ends with a violation of the property it checks; they are kept
for the reader, beside the runs, and the runs above leave out exactly what they need.

| configuration, module | what the code does | what a comment or document says |
|---|---|---|
| `MCAsmNoGpOpt`, `MCAsmOutput` | with `-G 0` or `-mno-gpopt` the directive of a function with a section attribute goes to the text file and its code to the data file (`psx.h:59`) | `varasm.c:419` "Switch to the section for function DECL." |
| `MCAsmShared`, `MCAsmOutput` | an object in the section of the function before it gets no directive (`varasm.c:283`) | `varasm.c:266` "Tell assembler to change to section NAME for DECL." |
| `MCAsmExterns`, `MCAsmOutput` | the externs come behind the data (`mips.c:4623`) | `psx.h:114` "at the beginning of the generated .asm files" |
| `MCObjcMutexTry`, `ObjcMutex` | `objc_mutex_trylock` returns EBUSY (`objc/thr.c:362`) | `thr.c:339` "returns -1" |
| `MCObjcMutexFreed`, `ObjcMutex` | a mutex is freed beside a thread that is about to lock it (`thr.c:291`) | `thr.c:275` "to insure that no one else is using the lock" |
| `MCObjcThreadsHook`, `ObjcThreads` | two threads that start together both call the hook (`thr.c:95`) | `thr.c:42` "only called once" |
| `MCDispatchRace`, `MCDispatchTables` | a message is forwarded while another thread fills the table (`sendmsg.c:171`) | `sendmsg.c:170` "the method just doesn't exist for the class" |
| `MCDispatchAsked`, `MCDispatchTables` | `objc_read_object` installs a table without `+initialize` (`archive.c:836`) | `README:45` "is called before any other instance or class methods" |
| `MCDispatchInherited`, `MCDispatchTables` | the superclass's `+initialize` is called for the subclass (`sendmsg.c:284`) | `README:46` "not inherited" |
| `MCSparseGrow`, `SparseArrays` | the new capacity is stored before the new table (`sarray.c:334`) | `THREADS:27` "can be made in parallel" |
| `MCSparseGarbage`, `SparseArrays` | the garbage list overwrites a word that a reader still reads (`sarray.c:88`) | `sarray.c:51` |
| `MCSparseFreed`, `SparseArrays` | versions of buckets are read after they were freed (`sarray.c:436`) | the assertion `sarray.c:400` "Freed multiple times!!!" |
| `MCSparseCount`, `SparseArrays` | an array whose copy was freed first is never freed (`sarray.c:411`) | `sarray.c:402` "There exists copies of me" |
| `MCLifeAsm`, `MCLifeAnalysis` | a call-clobbered register read after a call: relaxation and last pass differ (`flow.c:1080`) | `flow.c:1150` "converting it into a copy" |
| `MCConflictOutputs`, `MCConflictScan` | an address of an output may share a register with an output that is never used (`global.c:736`) | `global.c:732` "must conflict with the other outputs" |
| `MCTempPadding`, `TempSlots` | the rest of a split slot keeps the padding of the whole (`function.c:868`) | `function.c:1062` "Find the temp slot corresponding to the object" |
| `MCTempLost`, `TempSlots` | the slot of a statement expression's value is freed when its address is not found (`function.c:1230`) | `function.c:1214` "so it will not be freed" |
| `MCTempLost` with `SeqDepth = 0`, `Keeps = {0, 1}` | a value with KEEP 1 whose address is not found is freed at the end of the level (`function.c:1206`) | `function.c:1142` "upgrade all of them. Kept slots need not be touched" |
| `MCTempLost` with `SeqDepth = 0`, `Keeps = {3}`, `LateSaves = TRUE` | `var_temp_slot_level` is not restored behind an inner block (`function.c:1306`): the next scope of that level frees the slot | `function.c:823` "treated as a variable in the block" |
| `MCTempNested`, `TempSlots` | emitting an inner statement expression frees what the outer one, still not emitted, uses (`function.c:1262`) | `function.c:1241` "Don't free any temporaries currently in use for an RTL_EXPR" |

And in `Driver`, with programs that die by a signal (`Ends` with "signal") `OutputsRight` fails:
`execute` calls `fatal`, which leaves the failure queue alone (`gcc.c:2259`). With signals that
reach only the driver (`Receivers` with "driver") `TempsGone` fails: the programs go on and
make their files after the driver has deleted them.

## Proofs

All proofs are for every value of the constants that satisfies the named
assumptions of the modules.

**GlobalAlloc** (`PseudoAssumption`, `ModeAssumption`, `ClassAssumption`,
`RegisterSetAssumption`, `FunctionsAssumption`). `NoOverlap` is not inductive: that
two pseudos are apart now says nothing of the one placed next. `Inv` adds that the
tables know what the registers hold: `StaticConflicts` (the conflicts of the earlier
passes are still in `hard_reg_conflicts`), `HomesRecorded` (so are the homes of all
conflicting allocnos, in either direction), `LocalsStay` (a local pseudo is at home or
in memory), `JustLocal` (a register whose local count is not zero holds no allocno and
is named nowhere) and `FoundFree` (what `find_reg` is about to record is free).
`JustLocal` is what makes eviction sound although it tests `used2`, which leaves the
conflicts out; `HomesRecorded` outlives demotion, since a conflict that is no longer
true only costs a register. `NeverTwoInOne`, `NeverInNamedRegister`,
`EvictionSparesAllocnos` follow. With `InMemory` (`find_reg` works on an allocno without a register, and none is
pending once reload runs) `Homes` maps every step to a step of `RegAssignment` or to a
stutter: `Implements`.

The second half of the module builds on that. `HomesAlwaysRight`: that a home is legal now follows from
`FoundLegal` (what `find_reg` is about to record is in none of its forbidden sets), and
that it is safe across calls from `SavedAround` and `CallSetUp`: the nested call that may use
clobbered registers is the only one that does, never with one that cannot be saved, and
`caller_save_needed` is set when `find_reg` keeps its result. `MarkedLive`:
only the allocno being placed anew is in a register that the prologue does not know yet.
`SpillsAlwaysRight`, for any number of spills: `Forbidden` relates the three sets of reload
with what each call of `find_reg` was told, at each place of the loop over the pseudos;
`Cleared` is the invariant of that loop; `AllTried` says that an allocno in memory has
nowhere to go, which stays true because registers only fill up before reload. That the
search finds a register when there is one needs the least element of a set of numbers, so
these proofs use the well-founded order of the naturals.

**AsmOutput** (`SourceAssumption`). `EarlyReturnsRight`: the two-stream hazard is met by
the extra `.text` of ASM_DECLARE_FUNCTION_NAME. `FunctionFollows` is the key: within a
function `in_section` is the function's section, and if that is `.text` the *data*
file is in `.text` too, because `text_section` "gets called too soon"; so it is still
right when the epilogue switches back. It holds for every `Setup`, also for those of
`MCAsmNoGpOpt` and `MCAsmShared`, which concern named sections. Those two are what
`EveryLineInItsSection` has to exclude, and all: `SeparateSections` says that a function with a
section has its code in the text file and shares the section with no object. `NamedRight` says
which stream a named `in_section` is true of, although one variable serves both.
`FinishedFileInOrder` has no hypothesis. `KindsRight` says which kinds of lines each stream has
while the other is written to, `SymbolLines` that `TREE_ASM_WRITTEN` tells whether a symbol has
its one line, `FunctionsRight` that the lines of a function are none, all those at the end of its
stream, or one piece that is complete; copying the text file behind the data file then keeps
the order.

**AsmFiles**. `LossesAreKnown`: for every choice of faults, a file that is not complete beside
a success means that one of the three faults has happened that the code cannot see.
`SeenFaultsNoticed`, under `SeenFaults` (only writes of the user's file and reads of the file
to convert fail): success means that the file is complete. `NoErrorBesideSuccess`: no error that
a stream shows when it is asked goes with success, whatever else fails. All from `Whole`, which
says where the lines are at each step.

**Unix2Dos** (`BufSizeAssumption`, `TextAssumption`, `DosTextAssumption`).
`ConversionCorrect` from `ChunkInv`: output and second buffer together are the
conversion of what has been consumed, `pos - Len(buf) + i` bytes.

**ObjcMutex** (`ThreadAssumption`, `MaxDepthAssumption`, `BusyAssumption`). `ThreadInv` says for each
place in a call what `owner`, `depth` and the system's lock are if the thread has it, and
that `owner` is not the thread if it has not: the look without the lock is harmless because
nobody else writes a thread's own name. From that, for any number of threads, follow
`CountsTold`, `WordsRight`, `NoSelfDeadlock` (as long as the mutex is not freed) and
`Implementation`: each step takes, gives back or leaves the `RecursiveLock`.

**ObjcThreads** (`MainAssumption`, which also says that the threads there may be are finitely many).
`CountsRight` and `FreedUnread`, for any number of threads and blocks. The counter alone is
not inductive: a new thread runs, and may exit, before it is counted. `Counted` says what it
is at every moment: the number of the running threads, less one while the creator of the last
is about to count it. `Exclusive` says who has the runtime mutex and where, so that a thread
that finds the counter at 1 and is not creating one is alone; `Readers` says where a
thread may be reading, so that there is no other reader; `Hooks` bounds how often the hook
is called by the threads that have not got to it.

**Driver** (`EndsAssumption`). `NoTemporaryFileLeft` and `ObjectsWholeAndReported`, for any number
of input files and signals, under `Together`: signals reach the programs as well as the driver,
and no program dies by a signal of its own. Without the former the first is false, without the
latter the second, as said above.
What is left to do is a list, so the invariant is about its places: the last element says where
in `main` the driver is (`EndsRight`), a push follows its search and a program comes after the
pushes of its files' names (`RecordsRight`, `SpawnsRight`), a deletion is in the list for
whatever a later "forget" drops (`TempsRight`). So at any moment a file that is there is that of
a finished compilation, or its name is in a queue or is still to be deleted
(`ObjectsRight`), and a handler that starts over loses nothing. `ProgramsRight`: programs write
only while the driver waits, each to its own file, so the handler has no race with them.
`CompileIs` shows that the lists of the four combinations of options are of this form.

**DispatchTables** (`NodeAssumption`, `MethodsAssumption`), for every hierarchy of classes,
however deep, every set of categories and any number of threads; the run has two levels.
`TablesAlwaysRight`: while tables are made most of them are wrong, and the invariant says which.
`TablesOK` is about the classes: a class with a table has the right one, or it is the one being
filled, or it is below one that is still to be updated; a class above one with a table has a
table itself or is about to get it; what is to be installed, or updated while it has a table,
has a superclass that is right or first in line; of the classes to be updated none is below
another. `FillingOK` is about the table that is being filled: for each selector it has the
method of the newest list that was put, and the superclass's where none was. `Locks` says that
only one thread makes tables. `UnracedAlwaysRight` needs `Unraced`: nobody else has the mutex
beside a frame that is not marked as raced, so what it has read is still so when it goes on.
`InitializedOnce` needs `Once`: a class that is to be sent `+initialize` is flagged and in one
frame only. `InitializedInOrder` has a hypothesis, `InitializeSent`: no message `+initialize` is
sent by hand (it flags the class and not its superclasses) and no category brings such a method
(the class above may have been flagged when it had none). Superclasses are
not searched by recursion in the model but by `Lineage`, the least set that is closed under
`Super`, so that facts about it need no induction: `LineageOrder` and `LineageChain` follow
from the assumption that every set of classes has one whose superclass is not in it.

**SparseArrays** (`SizeAssumption`), for any number of arrays, copies, calls and readers.
`ContentAlwaysRight`, `MemoryAlwaysRight` and `ReaderAlwaysRightMostly` assume that memory reads
as it did after it was freed, or that there are readers (for which it is kept as garbage): else
the version of a freed bucket may be anything and a bucket is freed twice, which
`MCSparseFreed` shows. What arrays hold is not inductive, since they share buckets. `Heap` says
how: no two arrays have one table; a bucket has at most the version of each array that has it,
and is that array's own if it has the same; it is at most one array's own (`Owners`), which has
it in one place (`Placed`), and no other array has it while that one may be written to
(`Shared`): so a write changes one element of one array. All other buckets of an array are those
of its original (`From`), and what is referred to is live (`Alive`): so to free what is one's
own takes nothing from an array that is still referred to, once no copy refers to this one.
That is told by a number, so `References` says that an array has a reference for the program
and one for each copy that was ever made, until it is freed for its last copy.
`Steps` says of the list of things to do that it is the rest of one write, or that each thing to
be thrown away is live, of an array without references, and in the list once. `Readers` says of
each reader that what it has loaded leads to a right value, and that whoever writes to the
bucket it has found is writing that element's array. The hard case of the readers is a bucket that is
replaced by the array's own copy while it is read: it is then one that nobody writes to.

Two of the statements about `DispatchTables` were wrong when they were first written and the proofs showed it:
`SupersFirst` without its exception fails with three levels of classes, and of the classes to be
updated only those with a table have a superclass that is in order. Each part of that invariant
was checked by TLC before it was proved, on the constants of `dispatch_two` and on an instance
with four classes; that of `SparseArrays` on the constants of `sparse_arrays` and on others.

Only model-checked: liveness; what recursive definitions compute (`TempSlots`, where
`combine_temp_slots` is a recursive operator, and the reference `Needed` of `LifeAnalysis`, a
recursive function: its value for every input needs induction over data, which is out of the
prover's reach), and with it the walk of `ConflictScan`, whose reference is the same.

## Not modelled

Of the modelled parts: the preferences in `global_conflicts`, `find_basic_blocks`, registers
of several words in `flow.c`; other addresses of a slot, and the early return of
`combine_temp_slots` for more than ten or a hundred slots; the spec language of the driver;
forwarding, and arrays of three levels, in the runtime. Of the rest: instruction-level
rewriting (optimizers, `reorg.c`, the operands of reload), whose correctness is a matter of
instruction semantics; parsers, typing and folding; generators, debugging output and other
targets. They are the largest part of the tree: most of its lines are tree and RTL
rewriting, and a model of them would repeat the program. `PROJECT.json` has the reason for
each.

## Plan

1. `ConflictScan` composed with `GlobalAlloc`, so that `FunctionOK` is a result.
2. `ObjcLoad`: modules loaded in any order, classes whose superclass is not there yet
   (`objc/init.c`), with `DispatchTables`.
3. `ReadyList` (`sched.c`): an abstract topological order as the promise.
4. `ExceptionRegions` (`except.c`) and the lazily sorted objects of `frame.c`.
5. Local allocation as a refinement of `RegAssignment` within a block.
