------------------------------ MODULE AsmFiles ------------------------------
(***************************************************************************)
(* What becomes of an input/output error on the way of the assembler code  *)
(* to the file the user named: through the temporary file "dos" of         *)
(* unix2dos.c, if line endings are converted, and for the code of          *)
(* functions first through the temporary file "text" of mips.c.            *)
(*                                                                         *)
(* A line is written once; content[s] are the lines that are in stream s.  *)
(* stdio (external) may lose a line that is written, and then sets the     *)
(* error indicator of the stream; it may lose lines of its buffer when     *)
(* rewind () or fclose () writes them; and a read may fail.  rewind ()     *)
(* clears the error indicator.  In which order lines are in a stream is a  *)
(* matter of AsmOutput, the conversion one of Unix2Dos.                    *)
(* FilesProofs extends this module and Unix2Dos: they share no name.       *)
(***************************************************************************)
EXTENDS Naturals

CONSTANTS
  Line,         \* the lines of the assembler code
  WriteFaults,  \* the streams that writes may fail on
  ReadFaults    \* the streams that reads may fail on

Stream == {"output", "dos", "text"}

ASSUME FaultAssumption ==
  WriteFaults \subseteq Stream /\ ReadFaults \subseteq {"dos", "text"}

VARIABLES
  stage,    \* where the compiler is
  asmOut,   \* asm_out_file, outside functions
  emitted,  \* the lines the compiler has written
  content,  \* content[s]: the lines in stream s
  error,    \* the streams whose error indicator is set
  unread,   \* the lines of the stream being copied that are still to come
  unseen    \* (history) the lines lost where no error is looked for

filesVars == <<stage, asmOut, emitted, content, error, unread, unseen>>

-----------------------------------------------------------------------------
(* With -fdos-line-endings, the default, init_unix2dos () has put its      *)
(* temporary file in the place of the output.                              *)
FilesInit ==
  /\ stage = "compile"
  /\ asmOut \in {"output", "dos"}
  /\ emitted = {} /\ unread = {} /\ error = {} /\ unseen = {}
  /\ content = [s \in Stream |-> {}]

(* Nobody looks at what fprintf () and fputs () return.                    *)
Emit(l, s) ==
  /\ stage = "compile" /\ s \in {asmOut, "text"} /\ l \notin emitted
  /\ emitted' = emitted \cup {l}
  /\ content' = [content EXCEPT ![s] = @ \cup {l}]
  /\ UNCHANGED <<stage, asmOut, error, unread, unseen>>

EmitFails(l, s) ==
  /\ stage = "compile" /\ s \in {asmOut, "text"} \cap WriteFaults /\ l \notin emitted
  /\ emitted' = emitted \cup {l}
  /\ error' = error \cup {s}
  /\ unseen' = IF s = "output" THEN unseen ELSE unseen \cup {l}
  /\ UNCHANGED <<stage, asmOut, content, unread>>

(* rewind (), which loses the lines of lost if the last buffer cannot be   *)
(* written, and forgets that there ever was an error.                      *)
RewindStream(s, lost) ==
  /\ lost \subseteq content[s] /\ (lost # {} => s \in WriteFaults)
  /\ content' = [content EXCEPT ![s] = @ \ lost]
  /\ unread' = content[s] \ lost
  /\ error' = error \ {s}
  /\ unseen' = unseen \cup lost

-----------------------------------------------------------------------------
(* mips_asm_file_end ().                                                   *)
RewindText(lost) ==
  /\ stage = "compile"
  /\ RewindStream("text", lost)
  /\ stage' = "check text"
  /\ UNCHANGED <<asmOut, emitted>>

CheckText ==
  /\ stage = "check text"
  /\ stage' = IF "text" \in error THEN "fatal" ELSE "copy text"
  /\ UNCHANGED <<asmOut, emitted, content, error, unread, unseen>>

(* A chunk of lines, from the stream that was rewound to stream s: all     *)
(* written, or only some and then the compiler exits.                      *)
CopyChunk(chunk, s) ==
  /\ chunk # {} /\ chunk \subseteq unread
  /\ content' = [content EXCEPT ![s] = @ \cup chunk]
  /\ unread' = unread \ chunk

CopyText(chunk) ==
  /\ stage = "copy text"
  /\ CopyChunk(chunk, asmOut)
  /\ UNCHANGED <<stage, asmOut, emitted, error, unseen>>

CopyTextFails ==
  /\ stage = "copy text" /\ unread # {} /\ asmOut \in WriteFaults
  /\ stage' = "fatal" /\ error' = error \cup {asmOut}
  /\ UNCHANGED <<asmOut, emitted, content, unread, unseen>>

(* fread () returns 0 at the end, and also when it fails: len < 0 never.   *)
CopyTextEnd ==
  /\ stage = "copy text"
  /\ \/ unread = {} /\ error' = error
     \/ "text" \in ReadFaults /\ error' = error \cup {"text"}
  /\ unseen' = unseen \cup unread
  /\ stage' = "close text"
  /\ UNCHANGED <<asmOut, emitted, content, unread>>

CloseText ==
  /\ stage = "close text"
  /\ stage' \in {"finish", "fatal"}  \* fclose () may fail
  /\ UNCHANGED <<asmOut, emitted, content, error, unread, unseen>>

-----------------------------------------------------------------------------
(* finish_unix2dos ().                                                     *)
NoConversion ==
  /\ stage = "finish" /\ asmOut = "output"
  /\ stage' = "close output"
  /\ UNCHANGED <<asmOut, emitted, content, error, unread, unseen>>

RewindDos(lost) ==
  /\ stage = "finish" /\ asmOut = "dos"
  /\ RewindStream("dos", lost)
  /\ stage' = "convert"
  /\ UNCHANGED <<asmOut, emitted>>

Convert(chunk) ==
  /\ stage = "convert"
  /\ CopyChunk(chunk, "output")
  /\ UNCHANGED <<stage, asmOut, emitted, error, unseen>>

ConvertFails ==
  /\ stage = "convert" /\ unread # {} /\ "output" \in WriteFaults
  /\ stage' = "fatal" /\ error' = error \cup {"output"}
  /\ UNCHANGED <<asmOut, emitted, content, unread, unseen>>

ConversionEnds ==
  /\ stage = "convert"
  /\ \/ unread = {} /\ error' = error
     \/ "dos" \in ReadFaults /\ error' = error \cup {"dos"}
  /\ stage' = "close dos"
  /\ UNCHANGED <<asmOut, emitted, content, unread, unseen>>

NoError(s) == FALSE  \* mutant: ferror () is not asked
Failed(s) == s \in error

Restored == "output"

CloseDos ==
  /\ stage = "close dos"
  /\ \/ Failed("dos") /\ stage' = "fatal" /\ asmOut' = asmOut
     \/ ~Failed("dos") /\ stage' = "close output" /\ asmOut' = Restored
     \/ ~Failed("dos") /\ stage' = "fatal" /\ asmOut' = asmOut  \* fclose () fails
  /\ UNCHANGED <<emitted, content, error, unread, unseen>>

(* compile_file () asks ferror () and fclose ().                           *)
CloseOutput ==
  /\ stage = "close output"
  /\ stage' = IF Failed(asmOut) THEN "fatal" ELSE "done"
  /\ UNCHANGED <<asmOut, emitted, content, error, unread, unseen>>

CloseOutputFails(lost) ==
  /\ stage = "close output" /\ asmOut \in WriteFaults
  /\ lost \subseteq content[asmOut]
  /\ content' = [content EXCEPT ![asmOut] = @ \ lost]
  /\ stage' = "fatal"
  /\ UNCHANGED <<asmOut, emitted, error, unread, unseen>>

FilesNext ==
  \/ \E l \in Line, s \in Stream : Emit(l, s) \/ EmitFails(l, s)
  \/ \E lines \in SUBSET Line :
       \/ RewindText(lines) \/ CopyText(lines)
       \/ RewindDos(lines) \/ Convert(lines)
       \/ CloseOutputFails(lines)
  \/ CheckText \/ CopyTextFails \/ CopyTextEnd \/ CloseText
  \/ NoConversion \/ ConvertFails \/ ConversionEnds \/ CloseDos
  \/ CloseOutput

(* The compiler is sequential and waits for nothing.                       *)
FilesSpec == FilesInit /\ [][FilesNext]_filesVars

-----------------------------------------------------------------------------
(* The variables have their types, and the file that compile_file () closes*)
(* last is the one the user named.                                         *)
FilesTypeOK ==
  /\ stage \in {"compile", "check text", "copy text", "close text", "finish",
                "convert", "close dos", "close output", "done", "fatal"}
  /\ asmOut \in {"output", "dos"}
  /\ emitted \subseteq Line /\ unread \subseteq Line /\ unseen \subseteq Line
  /\ content \in [Stream -> SUBSET Line]
  /\ error \subseteq Stream
  /\ stage \in {"close output", "done"} => asmOut = "output"

(* "Take special care to note whether fclose returns an error, since the   *)
(* pages might still be on the buffer chain while the file is open"        *)
(* (toplev.c:2818): when the compiler exits with success, the file has     *)
(* every line of the assembler code.                                       *)
SuccessMeansComplete == stage = "done" => content["output"] = emitted

(* Whatever fails: when the compiler exits with success, the file has no   *)
(* line that is not of the code, and a line that it lacks was lost in one  *)
(* of three places only: written to a file that is rewound, or in its last *)
(* buffer, or behind a read of the text file that failed (mips.c:4652,     *)
(* 4660, unix2dos.c:142).  A line lost anywhere else ends the compilation. *)
LossesKnown ==
  stage = "done" => content["output"] \subseteq emitted /\ emitted \ unseen \subseteq content["output"]

(* Whatever fails, no error that the file to convert or the user's file    *)
(* still shows when it is closed goes with an exit with success.  An error *)
(* of the text file may: nobody asks after the copy.                       *)
ErrorsNoticed == stage = "done" => error \subseteq {"text"}

=============================================================================
