------------------------------- MODULE Driver -------------------------------
(***************************************************************************)
(* The compiler driver (gcc.c) as far as the files go that it has to       *)
(* delete: the temporary ones always, the output of a compilation if that  *)
(* fails.  For every input file it runs the compiler and the assembler,    *)
(* one after the other through a temporary file, or with -pipe at the same *)
(* time; at last the linker.  A signal may come at any moment, and what it *)
(* calls deletes the files in the two queues as they are then.             *)
(*                                                                         *)
(* The spec language, the search for programs and their arguments are left *)
(* out: todo is the list of what the driver does next.  cpp and cc1 are    *)
(* one program, "cc".                                                      *)
(***************************************************************************)
EXTENDS Integers, Sequences, FiniteSets, SequencesExt

CONSTANTS
  NFiles,      \* the number of input files
  Ends,        \* how programs end: some of "exit0", "exit1" and "signal"
  Receivers,   \* who gets the signals: "group", "driver"
  MaxSignals   \* bound: how many signals come

ASSUME EndsAssumption ==
  /\ NFiles \in Nat \ {0} /\ Ends \subseteq {"exit0", "exit1", "signal"}
  /\ Receivers \subseteq {"group", "driver"} /\ MaxSignals \in Nat

Files == 1..NFiles
Object(f) == <<"object", f>>   \* -o, or %b.o
Temp == <<"temporary", 0>>     \* %g.s, which is the same for all input files
Names == {Object(f) : f \in Files} \cup {Temp}
Prog == {"cc", "as", "ld"}

VARIABLES
  pipe, link,  \* the options: -pipe, and no -c
  todo,        \* what the driver does next
  always, failure,  \* the two queues of names
  file,        \* input_file_number
  child,       \* child[p]: the state of program p
  disk,        \* disk[n]: what is in the file with name n
  good,        \* the input files that were compiled without an error
  errors,      \* whether error_count is not 0
  signals,     \* how many signals have come
  ended        \* how the driver ended

vars == <<pipe, link, todo, always, failure, file, child, disk, good, errors, signals, ended>>
options == <<pipe, link>>
queues == <<always, failure>>

-----------------------------------------------------------------------------
(* What do_spec () does with the specs of one input file: every name of an *)
(* argument is recorded when the argument is complete, every line of the   *)
(* spec is executed when it is.  The object is a temporary file, too, if   *)
(* it is only for the linker.                                              *)
Record(n, q) == <<[do |-> "search", name |-> n, in |-> q], [do |-> "push", name |-> n, in |-> q]>>
RecordObject(f) ==
  (IF link THEN Record(Object(f), "always") ELSE <<>>) \o Record(Object(f), "failure")
Spawn(p, out) == <<[do |-> "spawn", prog |-> p, out |-> out]>>
Wait == <<[do |-> "wait"]>>
RunFirst(f) ==  \* mutant: the names are recorded when the programs run
  Spawn("cc", {Temp}) \o Record(Temp, "always") \o Wait
  \o Spawn("as", {Object(f)}) \o RecordObject(f) \o Wait \o <<[do |-> "clear"]>>
Compile(f) ==
  (IF pipe
   THEN RecordObject(f) \o Spawn("cc", {}) \o Spawn("as", {Object(f)}) \o Wait
   ELSE Record(Temp, "always") \o Spawn("cc", {Temp}) \o Wait
        \o Record(Temp, "always") \o RecordObject(f) \o Spawn("as", {Object(f)}) \o Wait)
  \o <<[do |-> "clear"]>>

Delete(q) == [k \in DOMAIN q |-> [do |-> "unlink", name |-> q[k]]]
Fatal == <<[do |-> "delete_always"], [do |-> "exit"]>>  \* fatal ()

Init ==
  /\ pipe \in BOOLEAN /\ link \in BOOLEAN
  /\ file = 1 /\ todo = Compile(1)
  /\ always = <<>> /\ failure = <<>>
  /\ child = [p \in Prog |-> [st |-> "none", out |-> {}]]
  /\ disk = [n \in Names |-> "absent"]
  /\ good = {} /\ errors = FALSE /\ signals = 0 /\ ended = "no"

-----------------------------------------------------------------------------
Running == ended = "no" /\ todo # <<>>
Do(what) == Running /\ Head(todo).do = what
Step == Head(todo)
Queue(q) == IF q = "always" THEN always ELSE failure

(* record_temp_file (): an entry is made, unless the name is in the queue  *)
(* already, and then becomes the head of the queue.                        *)
Search ==
  /\ Do("search")
  /\ todo' = IF Step.name \in Range(Queue(Step.in)) THEN Tail(Tail(todo)) ELSE Tail(todo)
  /\ UNCHANGED <<options, queues, file, child, disk, good, errors, signals, ended>>

PushEntry ==
  /\ Do("push")
  /\ IF Step.in = "always" THEN always' = <<Step.name>> \o always /\ failure' = failure
     ELSE failure' = <<Step.name>> \o failure /\ always' = always
  /\ todo' = Tail(todo)
  /\ UNCHANGED <<options, file, child, disk, good, errors, signals, ended>>

(* execute (): pexecute (), which may fail, ...                            *)
SpawnProgram ==
  /\ Do("spawn")
  /\ child' = [child EXCEPT ![Step.prog] = [st |-> "running", out |-> Step.out]]
  /\ todo' = Tail(todo)
  /\ UNCHANGED <<options, queues, file, disk, good, errors, signals, ended>>

SpawnFails ==
  /\ Do("spawn")
  /\ todo' = Fatal /\ errors' = TRUE
  /\ UNCHANGED <<options, queues, file, child, disk, good, signals, ended>>

(* ... and pwait () for every program of the line.                         *)
Dead == {p \in Prog : child[p].st \in Ends}
Well == {p \in Prog : child[p].st \notin {"none", "reaped0"}}  \* mutant
Line == {p \in Prog : child[p].st \notin {"none", "reaped0", "reaped1"}}
Reap(p) ==
  /\ Do("wait") /\ p \in Dead
  /\ IF child[p].st = "signal"
     THEN todo' = Fatal /\ errors' = TRUE /\ child' = [child EXCEPT ![p].st = "none"]
     ELSE /\ child' = [child EXCEPT ![p].st = IF @ = "exit0" THEN "reaped0" ELSE "reaped1"]
          /\ UNCHANGED <<todo, errors>>
  /\ UNCHANGED <<options, queues, file, disk, good, signals, ended>>

(* All of them have ended.  do_spec () goes on with the next line, or main *)
(* () deletes what is in the queue of this input file.                     *)
Forget == child' = [p \in Prog |-> [st |-> "none", out |-> {}]]
Waited ==
  /\ Do("wait") /\ Line = {}
  /\ IF \E p \in Prog : child[p].st = "reaped1"
     THEN /\ errors' = TRUE
          /\ todo' = IF file \in Files THEN Delete(failure) \o <<[do |-> "clear"]>>
                     ELSE Tail(todo)
          /\ good' = good
     ELSE /\ errors' = errors /\ todo' = Tail(todo)
          /\ good' = IF Tail(todo) # <<>> /\ Head(Tail(todo)).do = "clear"
                     THEN good \cup {file} ELSE good
  /\ Forget
  /\ UNCHANGED <<options, queues, file, disk, signals, ended>>

(* clear_failure_queue (), and the next input file, or ld.                *)
Later == IF file < NFiles THEN Compile(file + 1)
         ELSE (IF link /\ ~errors THEN Spawn("ld", {}) \o Wait ELSE <<>>)
              \o <<[do |-> "finish"]>>
NextFile ==
  /\ Do("clear")
  /\ failure' = <<>> /\ file' = file + 1 /\ todo' = Later
  /\ UNCHANGED <<options, always, child, disk, good, errors, signals, ended>>

(* The end of main (): delete_failure_queue (), delete_temp_files (), exit *)
(* ().                                                                     *)
EndOfMain ==
  /\ Do("finish")
  /\ todo' = (IF errors THEN Delete(failure) ELSE <<>>) \o Fatal
  /\ UNCHANGED <<options, queues, file, child, disk, good, errors, signals, ended>>

Unlink ==
  /\ Do("unlink")
  /\ disk' = [disk EXCEPT ![Step.name] = "absent"]
  /\ todo' = Tail(todo)
  /\ UNCHANGED <<options, queues, file, child, good, errors, signals, ended>>

(* delete_temp_files (), which forgets the queue when it is through.       *)
DeleteAlways ==
  /\ Do("delete_always")
  /\ todo' = Delete(always) \o <<[do |-> "forget"]>> \o Tail(todo)
  /\ UNCHANGED <<options, queues, file, child, disk, good, errors, signals, ended>>
ForgetAlways ==
  /\ Do("forget")
  /\ always' = <<>> /\ todo' = Tail(todo)
  /\ UNCHANGED <<options, failure, file, child, disk, good, errors, signals, ended>>

Exit ==
  /\ Do("exit")
  /\ ended' = IF errors THEN "failure" ELSE "success"
  /\ UNCHANGED <<options, todo, queues, file, child, disk, good, errors, signals>>

-----------------------------------------------------------------------------
(* A signal: fatal_error () interrupts the driver, or itself, wherever it  *)
(* is, and does not return.  One that goes to the group, as those from a   *)
(* terminal, ends the programs, too.                                       *)
AlwaysOnly == Delete(always) \o <<[do |-> "forget"], [do |-> "die"]>>  \* mutant
Handler == Delete(failure) \o Delete(always) \o <<[do |-> "forget"], [do |-> "die"]>>

Signal(who) ==
  /\ Running /\ who \in Receivers /\ signals < MaxSignals
  /\ signals' = signals + 1
  /\ todo' = Handler
  /\ child' = IF who = "driver" THEN child
              ELSE [p \in Prog |-> [child[p] EXCEPT !.st = IF @ = "running" THEN "none" ELSE @]]
  /\ UNCHANGED <<options, queues, file, disk, good, errors, ended>>

Die ==
  /\ Do("die")
  /\ ended' = "signal"
  /\ UNCHANGED <<options, todo, queues, file, child, disk, good, errors, signals>>

-----------------------------------------------------------------------------
(* The programs (external).  One makes its file, and completes it if it    *)
(* ends well; "as" reads to the end of what "cc" writes into a pipe.       *)
Create(p) ==
  /\ child[p].st = "running" /\ \E n \in child[p].out : disk[n] # "part"
  /\ disk' = [n \in Names |-> IF n \in child[p].out THEN "part" ELSE disk[n]]
  /\ UNCHANGED <<options, todo, queues, file, child, good, errors, signals, ended>>

EndWell(p) ==
  /\ child[p].st = "running" /\ \A n \in child[p].out : disk[n] = "part"
  /\ p = "as" => child["cc"].st # "running"
  /\ disk' = [n \in Names |-> IF n \in child[p].out THEN "whole" ELSE disk[n]]
  /\ child' = [child EXCEPT ![p].st = "exit0"]
  /\ UNCHANGED <<options, todo, queues, file, good, errors, signals, ended>>

EndBadly(p, how) ==
  /\ child[p].st = "running" /\ how \in Ends \ {"exit0"}
  /\ child' = [child EXCEPT ![p].st = how]
  /\ UNCHANGED <<options, todo, queues, file, disk, good, errors, signals, ended>>

DriverStep ==
  \/ Search \/ PushEntry \/ SpawnProgram \/ SpawnFails \/ (\E p \in Prog : Reap(p))
  \/ Waited \/ NextFile \/ EndOfMain \/ Unlink \/ DeleteAlways \/ ForgetAlways \/ Exit \/ Die
ProgramStep(p) == Create(p) \/ EndWell(p) \/ \E how \in Ends : EndBadly(p, how)
Next ==
  \/ DriverStep
  \/ \E who \in Receivers : Signal(who)
  \/ \E p \in Prog : ProgramStep(p)

(* The driver runs on, and programs end: without that it would wait for    *)
(* ever.                                                                   *)
Fairness == WF_vars(DriverStep) /\ \A p \in Prog : WF_vars(ProgramStep(p))
Spec == Init /\ [][Next]_vars /\ Fairness

-----------------------------------------------------------------------------
Over == ended # "no" /\ \A p \in Prog : child[p].st # "running"

(* The queues hold names of files that the driver may delete, each of them *)
(* once, and a program writes only to files whose names are in a queue:    *)
(* they were recorded before execute () made it.                           *)
QueuesRight ==
  /\ IsInjective(always) /\ IsInjective(failure)
  /\ Range(always) \subseteq {Temp} \cup {Object(f) : f \in Files}
  /\ Range(failure) \subseteq {Object(f) : f \in Files}
  /\ ~link => Range(always) \subseteq {Temp}
  /\ ended = "no" => \A p \in Prog : child[p].st = "running" =>
       child[p].out \subseteq Range(always) \cup Range(failure)

(* However the driver ends, by itself or by a signal, when nothing runs    *)
(* any more none of the files is left that "on fatal signals, delete all   *)
(* the temporary files" and the queue of files to delete on success or     *)
(* failure are about.                                                      *)
TempsGone ==
  /\ QueuesRight
  /\ Over => /\ disk[Temp] = "absent"
             /\ link => \A f \in Files : disk[Object(f)] = "absent"

(* With -c, nobody finds an object that is not what the assembler made of  *)
(* an input file without errors: not a part of one and not a good one next *)
(* to an exit code that says otherwise.  What was compiled before the      *)
(* failure stays.                                                          *)
OutputsRight ==
  /\ Over => \A f \in Files : disk[Object(f)] # "absent" => disk[Object(f)] = "whole" /\ f \in good
  /\ ~link => \A f \in good : f < file => disk[Object(f)] = "whole"
  /\ ended = "success" => good = Files

(* It comes to an end.                                                     *)
DriverEnds == <>(ended # "no")
=============================================================================
