------------------------------ MODULE Unix2Dos ------------------------------
(***************************************************************************)
(* The line-ending conversion of unix2dos.c: finish_unix2dos () reads the  *)
(* temporary assembler file in chunks of at most BufSize bytes, expands    *)
(* every line feed of a chunk to a carriage return and a line feed in a    *)
(* second buffer, and writes that buffer to the original output file.      *)
(*                                                                         *)
(* The program counter pc names the place of finish_unix2dos the compiler  *)
(* is at.  stdio and the file system below it are external: a read or a    *)
(* write may fail at any time.                                             *)
(***************************************************************************)
EXTENDS Naturals, Sequences

CONSTANTS
  Byte,       \* the bytes of an assembler file
  LF, CR,     \* line feed and carriage return
  BufSize,    \* sizeof (unix_line_endings_buffer); 32768 in the code
  Text,       \* the contents the temporary file may have
  DosText     \* DosText[t]: text t with DOS line endings (the promise)

ASSUME ByteAssumption == LF \in Byte /\ CR \in Byte /\ LF # CR
ASSUME BufSizeAssumption == BufSize \in Nat \ {0}
(* Text is closed under prefixes, and DosText is the one function on Text  *)
(* that converts byte by byte.                                             *)
ASSUME TextAssumption ==
  /\ Text \subseteq Seq(Byte)
  /\ <<>> \in Text
  /\ \A t \in Text : \A k \in 0..Len(t) : SubSeq(t, 1, k) \in Text
ASSUME DosTextAssumption ==
  /\ DosText[<<>>] = <<>>
  /\ \A t \in Text : t # <<>> =>
       LET last == t[Len(t)]
       IN  DosText[t] = DosText[SubSeq(t, 1, Len(t) - 1)]
                          \o IF last = LF THEN <<CR, LF>> ELSE <<last>>

VARIABLES
  pc,      \* "rewind", "read", "convert", "write", "close", "done", "fatal"
  temp,    \* content of asm_out_file, the temporary file
  pos,     \* bytes of temp that have been read
  failed,  \* ferror (asm_out_file)
  buf,     \* the first len bytes of unix_line_endings_buffer
  i,       \* bytes of buf already converted
  dos,     \* the first j bytes of dos_line_endings_buffer
  out      \* content of original_asm_out_file

vars == <<pc, temp, pos, failed, buf, i, dos, out>>

-----------------------------------------------------------------------------
Init ==
  /\ pc = "rewind"
  /\ temp \in Text
  /\ pos = Len(temp)        \* the compiler has just written it
  /\ failed \in BOOLEAN
  /\ buf = <<>> /\ i = 0 /\ dos = <<>>
  /\ out = <<>>

(* rewind () goes back to the first byte and clears the error indicator.   *)
Rewind ==
  /\ pc = "rewind"
  /\ pos' = 0
  /\ failed' = FALSE
  /\ pc' = "read"
  /\ UNCHANGED <<temp, buf, i, dos, out>>

(* What one byte becomes: the if of the inner loop.                        *)
Encode(b) == IF b = LF THEN <<CR, LF>> ELSE <<b>>

(* fread () has delivered n bytes, and the inner loop starts over on them. *)
StartChunkFromOldJ(n) ==  \* mutant: j is not reset
  /\ buf' = SubSeq(temp, pos + 1, pos + n) /\ pos' = pos + n
  /\ i' = 0 /\ dos' = dos
StartChunk(n) ==
  /\ buf' = SubSeq(temp, pos + 1, pos + n) /\ pos' = pos + n
  /\ i' = 0 /\ dos' = <<>>

(* The test of the outer loop.                                             *)
AfterReadEvenAtEnd(n) == IF n >= 0 THEN "convert" ELSE "close"  \* mutant
AfterRead(n) == IF n > 0 THEN "convert" ELSE "close"

(* fread () delivers as much as there is, up to BufSize bytes, ...         *)
Read ==
  LET len == IF Len(temp) - pos > BufSize THEN BufSize ELSE Len(temp) - pos
  IN  /\ pc = "read"
      /\ StartChunk(len)
      /\ pc' = AfterRead(len)
      /\ UNCHANGED <<temp, failed, out>>

(* ... or fails after n bytes of them and sets the error indicator.        *)
ReadFails(n) ==
  /\ pc = "read"
  /\ n < BufSize /\ pos + n <= Len(temp)
  /\ StartChunk(n)
  /\ failed' = TRUE
  /\ pc' = AfterRead(n)
  /\ UNCHANGED <<temp, out>>

(* One turn of the inner loop.                                             *)
ConvertByte ==
  /\ pc = "convert" /\ i < Len(buf)
  /\ dos' = dos \o Encode(buf[i + 1])
  /\ i' = i + 1
  /\ UNCHANGED <<pc, temp, pos, failed, buf, out>>

ConvertEnd ==
  /\ pc = "convert" /\ i = Len(buf)
  /\ pc' = "write"
  /\ UNCHANGED <<temp, pos, failed, buf, i, dos, out>>

Write ==
  /\ pc = "write"
  /\ out' = out \o dos
  /\ pc' = "read"
  /\ UNCHANGED <<temp, pos, failed, buf, i, dos>>

(* fwrite () returns less than j: fatal_io_error () exits.                 *)
WriteFails(n) ==
  /\ pc = "write"
  /\ n < Len(dos)
  /\ out' = out \o SubSeq(dos, 1, n)
  /\ pc' = "fatal"
  /\ UNCHANGED <<temp, pos, failed, buf, i, dos>>

(* ferror () is looked at before fclose ().                                *)
NoReadFailed == FALSE  \* mutant: fread () returned 0, so it is the end
ReadFailed == failed

Close ==
  /\ pc = "close"
  /\ pc' = IF ReadFailed THEN "fatal" ELSE "done"
  /\ UNCHANGED <<temp, pos, failed, buf, i, dos, out>>

CloseFails ==
  /\ pc = "close"
  /\ pc' = "fatal"
  /\ UNCHANGED <<temp, pos, failed, buf, i, dos, out>>

Next ==
  \/ Rewind
  \/ Read \/ \E n \in 0..(BufSize - 1) : ReadFails(n)
  \/ ConvertByte \/ ConvertEnd
  \/ Write \/ \E n \in 0..(2 * BufSize) : WriteFails(n)
  \/ Close \/ CloseFails

(* finish_unix2dos () is sequential code and blocks on nothing: a compiler *)
(* that is inside it takes its next step.                                  *)
Spec == Init /\ [][Next]_vars /\ WF_vars(Next)

-----------------------------------------------------------------------------
(* Every variable holds a value of its C type.                             *)
TypeOK ==
  /\ pc \in {"rewind", "read", "convert", "write", "close", "done", "fatal"}
  /\ temp \in Text
  /\ pos \in 0..Len(temp)
  /\ failed \in BOOLEAN
  /\ buf \in Seq(Byte) /\ dos \in Seq(Byte) /\ out \in Seq(Byte)
  /\ i \in 0..Len(buf)

(* dos_line_endings_buffer is never overrun: "Each line ending conversion  *)
(* from '\n' to '\r\n' doubles the output size, so this buffer has to be   *)
(* twice as large" (unix2dos.c:128-130).                                   *)
NoOverrun == Len(buf) <= BufSize /\ Len(dos) <= 2 * BufSize

(* Where the chunks begin and end cannot be seen in the output: when       *)
(* finish_unix2dos returns, the original file has the whole temporary file *)
(* with DOS line endings.                                                  *)
Converted == pc = "done" => out = DosText[temp]

(* An abandoned conversion leaves only a prefix of the right text behind.  *)
PrefixOnly ==
  \A k \in DOMAIN out : k <= Len(DosText[temp]) /\ out[k] = DosText[temp][k]

(* The conversion ends: with the converted file or with an exit.           *)
Terminates == <>(pc \in {"done", "fatal"})

(* So nobody ever sees more than a part of the right text, and that not    *)
(* for ever.                                                               *)
EndsRight == []PrefixOnly /\ Terminates

=============================================================================
