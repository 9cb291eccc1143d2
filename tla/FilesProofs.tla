---------------------------- MODULE FilesProofs -----------------------------
(***************************************************************************)
(* What TLAPS proves of the way of the assembler code to the file that the *)
(* user named.                                                             *)
(*                                                                         *)
(* Of AsmFiles, for every set of lines and of faults: a line that is lost  *)
(* where an error is looked for ends the compilation.  So the error checks *)
(* of compile_file () and finish_unix2dos () suffice for the faults they   *)
(* can see, failing writes to the user's file and failing reads of the     *)
(* file to convert.  And whatever fails, no error that is there to be seen *)
(* goes with success.                                                      *)
(*                                                                         *)
(* Of Unix2Dos, for every text and every buffer size: neither buffer       *)
(* overflows, and a conversion that ends without an error has converted    *)
(* the whole text, wherever the chunks began and ended.                    *)
(***************************************************************************)
EXTENDS AsmFiles, Unix2Dos, SequenceTheorems, TLAPS

(* The faults that leave an error indicator behind where it is asked for.  *)
SeenFaults == WriteFaults \subseteq {"output"} /\ ReadFaults \subseteq {"dos"}

(* No stream has anything but lines of the code.  As long as the user's    *)
(* file shows no error, the lines that were not lost unseen are in the     *)
(* stream that is written to, the text file and what is still to be copied.*)
Whole ==
  /\ unread \subseteq emitted /\ \A s \in Stream : content[s] \subseteq emitted
  /\ stage \in {"convert", "close dos"} => asmOut = "dos"
  /\ "output" \notin error =>
       /\ stage = "compile" => emitted \ unseen \subseteq content[asmOut] \cup content["text"]
       /\ stage \in {"check text", "copy text"} => emitted \ unseen \subseteq content[asmOut] \cup unread
       /\ stage \in {"close text", "finish", "close output"} =>
            emitted \ unseen \subseteq content[asmOut]
       /\ stage = "convert" => emitted \ unseen \subseteq content["output"] \cup unread
       /\ stage = "close dos" => "dos" \in error \/ emitted \ unseen \subseteq content["output"]
  /\ LossesKnown

-----------------------------------------------------------------------------
LEMMA InitFilesTypeOK == FilesInit => FilesTypeOK
BY DEF FilesInit, FilesTypeOK, Stream

LEMMA NextFilesTypeOK == FilesTypeOK /\ [FilesNext]_filesVars => FilesTypeOK'
<1> SUFFICES ASSUME FilesTypeOK, [FilesNext]_filesVars PROVE FilesTypeOK'
  OBVIOUS
<1> USE DEF FilesTypeOK, Stream
<1>1. ASSUME NEW l \in Line, NEW s \in Stream, Emit(l, s) PROVE FilesTypeOK'
  BY <1>1 DEF Emit
<1>2. ASSUME NEW l \in Line, NEW s \in Stream, EmitFails(l, s) PROVE FilesTypeOK'
  BY <1>2 DEF EmitFails
<1>3. ASSUME NEW lines \in SUBSET Line, RewindText(lines) PROVE FilesTypeOK'
  BY <1>3 DEF RewindText, RewindStream
<1>4. ASSUME NEW lines \in SUBSET Line, CopyText(lines) PROVE FilesTypeOK'
  BY <1>4 DEF CopyText, CopyChunk
<1>5. ASSUME NEW lines \in SUBSET Line, RewindDos(lines) PROVE FilesTypeOK'
  BY <1>5 DEF RewindDos, RewindStream
<1>6. ASSUME NEW lines \in SUBSET Line, Convert(lines) PROVE FilesTypeOK'
  BY <1>6 DEF Convert, CopyChunk
<1>7. ASSUME NEW lines \in SUBSET Line, CloseOutputFails(lines) PROVE FilesTypeOK'
  BY <1>7 DEF CloseOutputFails
<1>8. CASE CheckText
  BY <1>8 DEF CheckText
<1>9. CASE CopyTextFails
  BY <1>9 DEF CopyTextFails
<1>10. CASE CopyTextEnd
  BY <1>10 DEF CopyTextEnd
<1>11. CASE CloseText
  BY <1>11 DEF CloseText
<1>12. CASE NoConversion
  BY <1>12 DEF NoConversion
<1>13. CASE ConvertFails
  BY <1>13 DEF ConvertFails
<1>14. CASE ConversionEnds
  BY <1>14 DEF ConversionEnds
<1>15. CASE CloseDos
  BY <1>15 DEF CloseDos, Restored
<1>16. CASE CloseOutput
  BY <1>16 DEF CloseOutput
<1>17. CASE UNCHANGED filesVars
  BY <1>17 DEF filesVars
<1> QED BY <1>1, <1>2, <1>3, <1>4, <1>5, <1>6, <1>7, <1>8, <1>9, <1>10, <1>11, <1>12,
           <1>13, <1>14, <1>15, <1>16, <1>17 DEF FilesNext

(* The variables keep their types, and the last file closed is the user's. *)
THEOREM FilesTypeCorrect == FilesSpec => []FilesTypeOK
<1> QED BY InitFilesTypeOK, NextFilesTypeOK, PTL DEF FilesSpec

-----------------------------------------------------------------------------
LEMMA InitWhole == FilesInit => Whole
BY DEF FilesInit, Whole, LossesKnown, Stream

LEMMA NextWhole ==
  ASSUME FilesTypeOK, Whole, [FilesNext]_filesVars
  PROVE  Whole'
<1> USE DEF FilesTypeOK, Whole, LossesKnown, Stream
<1>1. ASSUME NEW l \in Line, NEW s \in Stream, Emit(l, s) PROVE Whole'
  BY <1>1 DEF Emit
<1>2. ASSUME NEW l \in Line, NEW s \in Stream, EmitFails(l, s) PROVE Whole'
  BY <1>2 DEF EmitFails
<1>3. ASSUME NEW lines \in SUBSET Line, RewindText(lines) PROVE Whole'
  BY <1>3 DEF RewindText, RewindStream
<1>4. ASSUME NEW lines \in SUBSET Line, CopyText(lines) PROVE Whole'
  BY <1>4 DEF CopyText, CopyChunk
<1>5. ASSUME NEW lines \in SUBSET Line, RewindDos(lines) PROVE Whole'
  BY <1>5 DEF RewindDos, RewindStream
<1>6. ASSUME NEW lines \in SUBSET Line, Convert(lines) PROVE Whole'
  BY <1>6 DEF Convert, CopyChunk
<1>7. ASSUME NEW lines \in SUBSET Line, CloseOutputFails(lines) PROVE Whole'
  BY <1>7 DEF CloseOutputFails
<1>8. CASE CheckText
  BY <1>8 DEF CheckText
<1>9. CASE CopyTextFails
  BY <1>9 DEF CopyTextFails
<1>10. CASE CopyTextEnd
  BY <1>10 DEF CopyTextEnd
<1>11. CASE CloseText
  BY <1>11 DEF CloseText
<1>12. CASE NoConversion
  BY <1>12 DEF NoConversion
<1>13. CASE ConvertFails
  BY <1>13 DEF ConvertFails
<1>14. CASE ConversionEnds
  BY <1>14 DEF ConversionEnds
<1>15. CASE CloseDos
  BY <1>15 DEF CloseDos, Restored, Failed
<1>16. CASE CloseOutput
  BY <1>16 DEF CloseOutput, Failed
<1>17. CASE UNCHANGED filesVars
  BY <1>17 DEF filesVars
<1> QED BY <1>1, <1>2, <1>3, <1>4, <1>5, <1>6, <1>7, <1>8, <1>9, <1>10, <1>11, <1>12,
           <1>13, <1>14, <1>15, <1>16, <1>17 DEF FilesNext

(* With every fault there is, success means that the user's file has the   *)
(* lines of the code and lacks only some that were lost unseen.            *)
THEOREM LossesAreKnown == FilesSpec => []LossesKnown
<1>1. Whole => LossesKnown
  BY DEF Whole
<1>2. FilesTypeOK /\ Whole /\ [FilesNext]_filesVars => Whole'
  BY NextWhole
<1> QED BY <1>1, <1>2, FilesTypeCorrect, InitWhole, PTL DEF FilesSpec

-----------------------------------------------------------------------------
(* Nothing is lost unseen if only those faults happen that are looked for. *)
AllSeen == unseen = {}

LEMMA NextAllSeen ==
  ASSUME SeenFaults, FilesTypeOK, AllSeen, [FilesNext]_filesVars
  PROVE  AllSeen'
<1> USE DEF SeenFaults, FilesTypeOK, AllSeen, Stream
<1>1. ASSUME NEW l \in Line, NEW s \in Stream, EmitFails(l, s) PROVE AllSeen'
  BY <1>1 DEF EmitFails
<1>2. ASSUME NEW lines \in SUBSET Line, RewindText(lines) \/ RewindDos(lines) PROVE AllSeen'
  BY <1>2 DEF RewindText, RewindDos, RewindStream
<1>3. CASE CopyTextEnd
  BY <1>3 DEF CopyTextEnd
<1>4. CASE UNCHANGED unseen
  BY <1>4
<1> QED BY <1>1, <1>2, <1>3, <1>4
        DEF FilesNext, filesVars, Emit, CopyText, Convert, CloseOutputFails, CheckText, CopyTextFails,
            CloseText, NoConversion, ConvertFails, ConversionEnds, CloseDos, CloseOutput

(* If nothing but writes to the user's file and reads of the file to       *)
(* convert can fail, success means that the user's file is complete.       *)
THEOREM SeenFaultsNoticed ==
  ASSUME SeenFaults
  PROVE  FilesSpec => []SuccessMeansComplete
<1>1. FilesInit => AllSeen
  BY DEF FilesInit, AllSeen
<1>2. FilesTypeOK /\ AllSeen /\ [FilesNext]_filesVars => AllSeen'
  BY NextAllSeen
<1>3. AllSeen /\ LossesKnown => SuccessMeansComplete
  BY DEF AllSeen, LossesKnown, SuccessMeansComplete
<1> QED BY <1>1, <1>2, <1>3, FilesTypeCorrect, LossesAreKnown, PTL DEF FilesSpec

-----------------------------------------------------------------------------
(* An error of the file to convert outlives its closing only if nothing is *)
(* converted, and then there is none.                                      *)
Noticed == (asmOut = "output" => "dos" \notin error) /\ ErrorsNoticed

LEMMA NextNoticed ==
  ASSUME FilesTypeOK, Whole, Noticed, [FilesNext]_filesVars
  PROVE  Noticed'
<1> USE DEF FilesTypeOK, Whole, Noticed, ErrorsNoticed, Stream
<1>1. ASSUME NEW l \in Line, NEW s \in Stream, EmitFails(l, s) PROVE Noticed'
  BY <1>1 DEF EmitFails
<1>2. ASSUME NEW lines \in SUBSET Line, RewindText(lines) \/ RewindDos(lines) PROVE Noticed'
  BY <1>2 DEF RewindText, RewindDos, RewindStream
<1>3. CASE CopyTextFails \/ CopyTextEnd
  BY <1>3 DEF CopyTextFails, CopyTextEnd
<1>4. CASE ConvertFails \/ ConversionEnds
  BY <1>4 DEF ConvertFails, ConversionEnds
<1>5. CASE CloseDos
  BY <1>5 DEF CloseDos, Failed
<1>6. CASE CloseOutput
  BY <1>6 DEF CloseOutput, Failed
<1>7. ASSUME stage' # "done", UNCHANGED <<asmOut, error>> PROVE Noticed'
  BY <1>7
<1>8. ASSUME UNCHANGED <<stage, asmOut, error>> PROVE Noticed'
  BY <1>8
<1> QED BY <1>1, <1>2, <1>3, <1>4, <1>5, <1>6, <1>7, <1>8
        DEF FilesNext, filesVars, Emit, CopyText, Convert, CloseOutputFails, CheckText, CloseText,
            NoConversion

(* No exit with success beside an error that the file to convert or the    *)
(* user's file shows, whichever of them fails and when.                    *)
THEOREM NoErrorBesideSuccess == FilesSpec => []ErrorsNoticed
<1>1. FilesInit => Noticed
  BY DEF FilesInit, Noticed, ErrorsNoticed
<1>2. FilesTypeOK /\ Whole /\ Noticed /\ [FilesNext]_filesVars => Noticed'
  BY NextNoticed
<1>3. FilesTypeOK /\ Whole /\ [FilesNext]_filesVars => Whole'
  BY NextWhole
<1>4. Noticed => ErrorsNoticed
  BY DEF Noticed
<1> QED BY <1>1, <1>2, <1>3, <1>4, FilesTypeCorrect, InitWhole, PTL DEF FilesSpec

-----------------------------------------------------------------------------
(* The bytes of temp already in the output or in dos: what has been read   *)
(* but for the rest of buf.                                                *)
Consumed == pos - Len(buf) + i

(* The second buffer holds at most two bytes for each converted one, and   *)
(* the output together with it is the conversion of what is consumed.      *)
ChunkInv ==
  /\ Len(buf) <= BufSize /\ Len(dos) <= 2 * i
  /\ pc \in {"convert", "write"} =>
       /\ Len(buf) <= pos /\ buf = SubSeq(temp, pos - Len(buf) + 1, pos)
       /\ out \o dos = DosText[SubSeq(temp, 1, Consumed)]
  /\ pc = "write" => i = Len(buf)
  /\ pc = "rewind" => out = <<>>
  /\ pc \in {"read", "close"} => out = DosText[SubSeq(temp, 1, pos)]
  /\ pc = "close" => failed \/ pos = Len(temp)
  /\ pc = "done" => out = DosText[temp]

-----------------------------------------------------------------------------
LEMMA EncodeType ==
  ASSUME NEW b \in Byte
  PROVE  Encode(b) \in Seq(Byte) /\ Len(Encode(b)) \in 1..2
<1>1. CASE b = LF
  BY <1>1, ByteAssumption DEF Encode
<1>2. CASE b # LF
  BY <1>2 DEF Encode
<1> QED BY <1>1, <1>2

(* fread () of len bytes.                                                  *)
LEMMA ReadType ==
  ASSUME TypeOK, NEW len \in Nat, pos + len <= Len(temp)
  PROVE  /\ SubSeq(temp, pos + 1, pos + len) \in Seq(Byte)
         /\ Len(SubSeq(temp, pos + 1, pos + len)) = len
<1>1. temp \in Seq(Byte) /\ pos \in 0..Len(temp)
  BY TextAssumption DEF TypeOK
<1> QED BY <1>1

LEMMA InitTypeOK == Init => TypeOK
BY TextAssumption DEF Init, TypeOK

LEMMA NextTypeOK == TypeOK /\ [Next]_vars => TypeOK'
<1> SUFFICES ASSUME TypeOK, [Next]_vars PROVE TypeOK'
  OBVIOUS
<1> USE DEF TypeOK
<1>0. temp \in Seq(Byte) /\ Len(temp) \in Nat
  BY TextAssumption
<1>1. CASE Rewind
  <2>1. 0 \in 0..Len(temp)
    BY <1>0
  <2> QED BY <1>1, <2>1 DEF Rewind
<1>2. CASE Read
  <2> DEFINE len == IF Len(temp) - pos > BufSize THEN BufSize ELSE Len(temp) - pos
  <2>1. len \in Nat /\ pos + len <= Len(temp)
    BY <1>0, BufSizeAssumption
  <2>2. buf' = SubSeq(temp, pos + 1, pos + len) /\ pos' = pos + len
    BY <1>2 DEF Read, StartChunk, AfterRead
  <2>3. /\ i' = 0 /\ dos' = <<>> /\ UNCHANGED <<temp, failed, out>>
        /\ pc' \in {"convert", "close"}
    BY <1>2 DEF Read, StartChunk, AfterRead
  <2> HIDE DEF len
  <2>4. buf' \in Seq(Byte)
    BY <2>1, <2>2, ReadType
  <2>5. pos' \in 0..Len(temp)
    BY <1>0, <2>1, <2>2
  <2> QED BY <2>3, <2>4, <2>5
<1>3. ASSUME NEW n \in 0..(BufSize - 1), ReadFails(n) PROVE TypeOK'
  <2>1. buf' \in Seq(Byte) /\ pos' \in 0..Len(temp)
    BY <1>0, <1>3, ReadType, BufSizeAssumption DEF ReadFails, StartChunk, AfterRead
  <2> QED BY <1>0, <1>3, <2>1 DEF ReadFails, StartChunk, AfterRead
<1>4. CASE ConvertByte
  <2>1. buf[i + 1] \in Byte
    BY <1>4 DEF ConvertByte
  <2>2. dos' \in Seq(Byte)
    BY <1>4, <2>1, EncodeType DEF ConvertByte
  <2> QED BY <1>4, <2>2 DEF ConvertByte
<1>5. CASE ConvertEnd
  BY <1>5 DEF ConvertEnd
<1>6. CASE Write
  BY <1>6 DEF Write
<1>7. ASSUME NEW n \in 0..(2 * BufSize), WriteFails(n) PROVE TypeOK'
  <2>1. SubSeq(dos, 1, n) \in Seq(Byte)
    BY <1>7, BufSizeAssumption DEF WriteFails
  <2> QED BY <1>7, <2>1 DEF WriteFails
<1>8. CASE Close
  BY <1>8 DEF Close, ReadFailed
<1>9. CASE CloseFails
  BY <1>9 DEF CloseFails
<1>10. CASE UNCHANGED vars
  BY <1>10 DEF vars
<1> QED BY <1>1, <1>2, <1>3, <1>4, <1>5, <1>6, <1>7, <1>8, <1>9, <1>10 DEF Next

-----------------------------------------------------------------------------
(* One more byte of the text is one more encoded byte of its conversion.   *)
LEMMA TextStep ==
  ASSUME NEW t \in Text, NEW n \in Nat, n < Len(t)
  PROVE  DosText[SubSeq(t, 1, n + 1)] = DosText[SubSeq(t, 1, n)] \o Encode(t[n + 1])
<1> DEFINE u == SubSeq(t, 1, n + 1)
<1>1. t \in Seq(Byte) /\ n + 1 \in 0..Len(t)
  BY TextAssumption
<1>2. u \in Text /\ Len(u) = n + 1 /\ u[n + 1] = t[n + 1] /\ u # <<>>
  <2>1. u \in Text
    BY <1>1, TextAssumption
  <2>2. Len(u) = n + 1 /\ u[n + 1] = t[n + 1]
    BY <1>1
  <2> QED BY <2>1, <2>2
<1>3. SubSeq(u, 1, n) = SubSeq(t, 1, n)
  <2>1. CASE n = 0
    BY <1>1, <2>1, SubSeqEmpty
  <2>2. CASE n # 0
    <3>1. /\ 1 \in 1..Len(t) /\ n + 1 \in 1..Len(t)
          /\ 1 \in 1..((n + 1) - 1 + 1) /\ n \in 1..((n + 1) - 1 + 1)
      BY <1>1, <2>2
    <3>2. SubSeq(u, 1, n) = SubSeq(t, 1 + 1 - 1, 1 + n - 1)
      BY <1>1, <3>1, SubSeqOfSubSeq
    <3> QED BY <3>2
  <2> QED BY <2>1, <2>2
<1>4. DosText[u] = DosText[SubSeq(u, 1, Len(u) - 1)] \o Encode(u[Len(u)])
  BY <1>2, DosTextAssumption DEF Encode
<1>5. Len(u) - 1 = n
  BY <1>2
<1> QED BY <1>2, <1>3, <1>4, <1>5

LEMMA InitChunkInv == Init => ChunkInv
BY BufSizeAssumption DEF Init, ChunkInv

(* A successful or a failing fread () of len bytes starts a new chunk.     *)
LEMMA ChunkRead ==
  ASSUME TypeOK, ChunkInv, pc = "read",
         NEW len \in Nat, len <= BufSize, pos + len <= Len(temp),
         buf' = SubSeq(temp, pos + 1, pos + len), pos' = pos + len,
         i' = 0, dos' = <<>>, UNCHANGED <<temp, out>>,
         pc' = IF len > 0 THEN "convert" ELSE "close",
         len = 0 => failed' \/ pos = Len(temp)
  PROVE  ChunkInv'
<1>1. Len(buf') = len
  BY ReadType
<1>2. pos \in Nat /\ out \in Seq(Byte)
  BY DEF TypeOK
<1>3. out = DosText[SubSeq(temp, 1, pos)]
  BY DEF ChunkInv
<1>4. Consumed' = pos /\ out' \o dos' = out
  BY <1>1, <1>2, ConcatEmptySeq DEF Consumed
<1>5. Len(dos') = 0
  OBVIOUS
<1>6. CASE len > 0
  BY <1>1, <1>2, <1>3, <1>4, <1>5, <1>6 DEF ChunkInv
<1>7. CASE len = 0
  BY <1>1, <1>2, <1>3, <1>5, <1>7 DEF ChunkInv
<1> QED BY <1>6, <1>7

(* The three pieces of text that one turn of the inner loop puts together. *)
LEMMA ConcatThree ==
  ASSUME NEW a \in Seq(Byte), NEW b \in Seq(Byte), NEW c \in Seq(Byte)
  PROVE  a \o (b \o c) = (a \o b) \o c
BY ConcatAssociative

LEMMA ChunkConvert ==
  ASSUME TypeOK, ChunkInv, ConvertByte
  PROVE  ChunkInv'
<1> DEFINE n == Consumed
<1>1. /\ temp \in Text /\ temp \in Seq(Byte) /\ pos \in 0..Len(temp)
      /\ buf \in Seq(Byte) /\ dos \in Seq(Byte) /\ out \in Seq(Byte) /\ i \in 0..Len(buf)
  BY TextAssumption DEF TypeOK
<1>2. /\ pc = "convert" /\ i < Len(buf) /\ dos' = dos \o Encode(buf[i + 1]) /\ i' = i + 1
      /\ UNCHANGED <<pc, temp, pos, failed, buf, out>>
  BY DEF ConvertByte
<1>3. /\ Len(buf) <= pos /\ buf = SubSeq(temp, pos - Len(buf) + 1, pos)
      /\ out \o dos = DosText[SubSeq(temp, 1, n)]
  BY <1>2 DEF ChunkInv
<1>4. n \in Nat /\ n < Len(temp) /\ Consumed' = n + 1
  BY <1>1, <1>2, <1>3 DEF Consumed
<1>5. buf[i + 1] = temp[n + 1]
  <2> DEFINE m == pos - Len(buf) + 1
  <2>1. m \in 1..Len(temp) /\ pos \in m..Len(temp) /\ i + 1 \in 1..(pos - m + 1)
    BY <1>1, <1>2, <1>3
  <2>2. SubSeq(temp, m, pos)[i + 1] = temp[m + (i + 1) - 1]
    BY <1>1, <2>1
  <2>3. m + (i + 1) - 1 = n + 1
    BY <1>1 DEF Consumed
  <2> QED BY <1>3, <2>2, <2>3
<1>6. buf[i + 1] \in Byte
  BY <1>1, <1>2
<1> DEFINE e == Encode(buf[i + 1])
<1>7. e \in Seq(Byte) /\ Len(e) \in 1..2
  BY <1>6, EncodeType
<1> HIDE DEF e
<1>8. out \o (dos \o e) = (out \o dos) \o e
  BY <1>1, <1>7, ConcatThree
<1>9. out' \o dos' = DosText[SubSeq(temp, 1, n + 1)]
  <2>1. DosText[SubSeq(temp, 1, n + 1)] = DosText[SubSeq(temp, 1, n)] \o Encode(temp[n + 1])
    BY <1>1, <1>4, TextStep
  <2>2. out' \o dos' = out \o (dos \o e)
    BY <1>2 DEF e
  <2> QED BY <1>3, <1>5, <1>8, <2>1, <2>2 DEF e
<1>10. Len(dos') <= 2 * i'
  <2>1. Len(dos') = Len(dos) + Len(e)
    BY <1>1, <1>2, <1>7 DEF e
  <2>2. Len(dos) <= 2 * i
    BY DEF ChunkInv
  <2>3. Len(dos) \in Nat /\ Len(e) \in 1..2 /\ i \in Nat
    BY <1>1, <1>7
  <2>4. i' = i + 1
    BY <1>2
  <2>5. \A a, c \in Nat, b \in 1..2 : a <= 2 * c => a + b <= 2 * (c + 1)
    OBVIOUS
  <2>6. Len(dos) + Len(e) <= 2 * (i + 1)
    BY <2>2, <2>3, <2>5
  <2> QED BY <2>1, <2>4, <2>6
<1>11. out' \o dos' = DosText[SubSeq(temp, 1, Consumed)]'
  BY <1>2, <1>4, <1>9
<1>12. Len(buf) <= BufSize
  BY DEF ChunkInv
<1>13. pc' = "convert"
  BY <1>2
<1> HIDE DEF n
<1> QED BY <1>2, <1>3, <1>10, <1>11, <1>12, <1>13 DEF ChunkInv

LEMMA NextChunkInv == TypeOK /\ ChunkInv /\ [Next]_vars => ChunkInv'
<1> SUFFICES ASSUME TypeOK, ChunkInv, [Next]_vars PROVE ChunkInv'
  OBVIOUS
<1>0. /\ temp \in Text /\ temp \in Seq(Byte) /\ Len(temp) \in Nat /\ pos \in 0..Len(temp)
      /\ out \in Seq(Byte) /\ dos \in Seq(Byte) /\ BufSize \in Nat \ {0}
  BY TextAssumption, BufSizeAssumption DEF TypeOK
<1>1. CASE Rewind
  <2>1. SubSeq(temp, 1, 0) = <<>>
    BY SubSeqEmpty
  <2>2. out = DosText[SubSeq(temp, 1, 0)]
    BY <1>1, <2>1, DosTextAssumption DEF Rewind, ChunkInv
  <2> QED BY <1>1, <2>2 DEF Rewind, ChunkInv
<1>2. CASE Read
  <2> DEFINE len == IF Len(temp) - pos > BufSize THEN BufSize ELSE Len(temp) - pos
  <2>1. /\ len \in Nat /\ len <= BufSize /\ pos + len <= Len(temp)
        /\ len = 0 => pos = Len(temp)
    BY <1>0
  <2>2. /\ pc = "read" /\ buf' = SubSeq(temp, pos + 1, pos + len) /\ pos' = pos + len
        /\ i' = 0 /\ dos' = <<>> /\ UNCHANGED <<temp, out>>
        /\ pc' = IF len > 0 THEN "convert" ELSE "close"
    BY <1>2 DEF Read, StartChunk, AfterRead
  <2> HIDE DEF len
  <2> QED BY <2>1, <2>2, ChunkRead
<1>3. ASSUME NEW n \in 0..(BufSize - 1), ReadFails(n) PROVE ChunkInv'
  <2>1. n \in Nat /\ n <= BufSize
    BY <1>0
  <2> QED BY <1>3, <2>1, ChunkRead DEF ReadFails, StartChunk, AfterRead
<1>4. CASE ConvertByte
  BY <1>4, ChunkConvert
<1>5. CASE ConvertEnd
  BY <1>5 DEF ConvertEnd, ChunkInv, Consumed
<1>6. CASE Write
  <2>1. i = Len(buf) /\ buf \in Seq(Byte)
    <3>1. pc = "write"
      BY <1>6 DEF Write
    <3> QED BY <3>1 DEF ChunkInv, TypeOK
  <2>2. Consumed = pos
    BY <1>0, <2>1 DEF Consumed
  <2> QED BY <1>6, <2>2 DEF Write, ChunkInv
<1>7. ASSUME NEW n \in 0..(2 * BufSize), WriteFails(n) PROVE ChunkInv'
  BY <1>7 DEF WriteFails, ChunkInv
<1>8. CASE Close
  <2>1. SubSeq(temp, 1, Len(temp)) = temp
    BY <1>0, SubSeqFull
  <2> QED BY <1>8, <2>1 DEF Close, ReadFailed, ChunkInv
<1>9. CASE CloseFails
  BY <1>9 DEF CloseFails, ChunkInv
<1>10. CASE UNCHANGED vars
  BY <1>10 DEF vars, ChunkInv, Consumed
<1> QED BY <1>1, <1>2, <1>3, <1>4, <1>5, <1>6, <1>7, <1>8, <1>9, <1>10 DEF Next

-----------------------------------------------------------------------------
(* The variables keep their types, and the reading position the file.      *)
THEOREM TypeCorrect == Spec => []TypeOK
<1> QED BY InitTypeOK, NextTypeOK, PTL DEF Spec

LEMMA ChunkInvariance == Spec => []ChunkInv
<1> QED BY TypeCorrect, InitChunkInv, NextChunkInv, PTL DEF Spec

(* Twice the size of the first buffer is enough for the second one.        *)
THEOREM NeverOverrun == Spec => []NoOverrun
<1>1. TypeOK /\ ChunkInv => NoOverrun
  <2> SUFFICES ASSUME TypeOK, ChunkInv PROVE NoOverrun
    OBVIOUS
  <2>1. Len(buf) <= BufSize /\ Len(dos) <= 2 * i
    BY DEF ChunkInv
  <2>2. Len(dos) \in Nat /\ Len(buf) \in Nat /\ i \in 0..Len(buf) /\ BufSize \in Nat
    BY BufSizeAssumption DEF TypeOK
  <2> QED BY <2>1, <2>2 DEF NoOverrun
<1> QED BY <1>1, TypeCorrect, ChunkInvariance, PTL

(* A conversion that ends well has converted the text.                     *)
THEOREM ConversionCorrect == Spec => []Converted
<1>1. ChunkInv => Converted
  BY DEF ChunkInv, Converted
<1> QED BY <1>1, ChunkInvariance, PTL
=============================================================================
