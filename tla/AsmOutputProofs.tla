--------------------------- MODULE AsmOutputProofs ---------------------------
(***************************************************************************)
(* What TLAPS proves of AsmOutput, for every source file and every set of  *)
(* options: in_section, one variable for two streams, is never wrong about *)
(* a built-in section of the stream that is written to; every line is in   *)
(* its section if functions and objects have sections of their own; and    *)
(* the finished file is in order.                                          *)
(***************************************************************************)
EXTENDS AsmOutput, SequenceTheorems, TLAPS

Stream == {"data", "text"}

(* asm_out_file is the text file inside a function that is optimized for   *)
(* the global pointer, and only there.                                     *)
OutFollows ==
  /\ pc \in {"table", "code"} => asmOut = IF setup.gpOpt THEN "text" ELSE "data"
  /\ pc \notin {"table", "code"} => asmOut = "data"

(* decl is the declaration that is being written.                          *)
DeclFollows ==
  /\ pc = "variable" => decl \in Variable
  /\ pc \in {"pool", "table", "code"} => decl \in Function

(* Inside a function, in_section is the function's section; and if that is *)
(* .text the data file has been left in .text as well, by the text_section *)
(* () that "gets called too soon" (mips.h:3699).                           *)
FunctionFollows ==
  pc \in {"table", "code"} =>
    /\ inSection = FunctionSection(decl)
    /\ ~FunctionSection(decl).named => EndsIn(file["data"], Len(file["data"]), ".text")

Types == TypeOK /\ DeclFollows

CacheInv == OutFollows /\ FunctionFollows /\ CacheRight

-----------------------------------------------------------------------------
(* What one more line does to the section the assembler is in.             *)
LEMMA AppendSection ==
  ASSUME NEW S, NEW lines \in Seq(S), NEW s
  PROVE  EndsIn(Append(lines, Line("section", s)), Len(lines) + 1, s)
<1> DEFINE l == Append(lines, Line("section", s))
<1>1. Len(lines) \in Nat /\ l[Len(lines) + 1] = Line("section", s)
  OBVIOUS
<1>2. Len(lines) + 1 \in 1..(Len(lines) + 1)
  BY <1>1
<1>3. \A j \in (Len(lines) + 2)..(Len(lines) + 1) : FALSE
  BY <1>1
<1> HIDE DEF l
<1> QED BY <1>1, <1>2, <1>3 DEF EndsIn

LEMMA AppendOther ==
  ASSUME NEW S, NEW lines \in Seq(S), NEW line \in S, line.op # "section",
         NEW s, EndsIn(lines, Len(lines), s)
  PROVE  EndsIn(Append(lines, line), Len(lines) + 1, s)
<1> DEFINE l == Append(lines, line)
           n == Len(lines)
<1>1. n \in Nat /\ l[n + 1] = line /\ \A j \in 1..n : l[j] = lines[j]
  OBVIOUS
<1> HIDE DEF l, n
<1>2. CASE \E k \in 1..n : lines[k] = Line("section", s)
                           /\ \A j \in (k + 1)..n : lines[j].op # "section"
  <2>1. PICK k \in 1..n : lines[k] = Line("section", s)
                           /\ \A j \in (k + 1)..n : lines[j].op # "section"
    BY <1>2
  <2>2. k \in 1..(n + 1) /\ l[k] = Line("section", s)
    BY <1>1, <2>1
  <2>3. ASSUME NEW j \in (k + 1)..(n + 1) PROVE l[j].op # "section"
    <3>1. CASE j = n + 1
      BY <1>1, <3>1
    <3>2. CASE j # n + 1
      BY <1>1, <2>1, <3>2
    <3> QED BY <3>1, <3>2
  <2> QED BY <2>2, <2>3 DEF EndsIn, l, n
<1>3. CASE s = ".text" /\ \A j \in 1..n : lines[j].op # "section"
  <2>1. ASSUME NEW j \in 1..(n + 1) PROVE l[j].op # "section"
    <3>1. CASE j = n + 1
      BY <1>1, <3>1
    <3>2. CASE j # n + 1
      BY <1>1, <1>3, <3>2
    <3> QED BY <3>1, <3>2
  <2> QED BY <1>3, <2>1 DEF EndsIn, l, n
<1> QED BY <1>2, <1>3 DEF EndsIn, n

-----------------------------------------------------------------------------
Sections == BuiltIns \cup {InNamed(s) : s \in NamedSection}
Files == [Stream -> Seq(Lines)]

(* The directive for a section is a line.                                  *)
LEMMA SectionLine ==
  ASSUME NEW s \in Sections
  PROVE  Line("section", s.name) \in Lines
BY DEF Sections, BuiltIns, BuiltIn, InNamed, Line, Lines

LEMMA SectionTypes ==
  ASSUME setup \in Setup
  PROVE  /\ \A f \in Function : FunctionSection(f) \in Sections
         /\ \A v \in Variable : VariableSection(v) \in Sections
         /\ \A l \in Literal : LiteralSection(l) \in BuiltIns /\ LiteralSection(l) \in Sections
<1>1. \A d \in Function \cup Variable : setup.section[d] \in NamedSection \cup {NoSection}
  BY SourceAssumption DEF Setups
<1>2. \A s \in {".text", ".data", ".sdata", ".rdata"} : BuiltIn(s) \in BuiltIns
  BY DEF BuiltIns
<1>3. \A d \in Function \cup Variable, s \in {".text", ".data", ".sdata", ".rdata"} :
        SectionOf(d, s) \in Sections
  BY <1>1, <1>2 DEF SectionOf, Sections
<1>4. \A x, b : SelectSection(x, b) \in {".data", ".sdata", ".rdata"}
  BY DEF SelectSection
<1> QED BY <1>2, <1>3, <1>4 DEF FunctionSection, VariableSection, LiteralSection, Sections

LEMMA PutType ==
  ASSUME NEW files \in Files, NEW stream \in Stream, NEW line \in Lines
  PROVE  /\ Put(files, stream, line) \in Files
         /\ Put(files, stream, line)[stream] = Append(files[stream], line)
         /\ Len(Put(files, stream, line)[stream]) = Len(files[stream]) + 1
         /\ \A other \in Stream \ {stream} : Put(files, stream, line)[other] = files[other]
BY DEF Put, Files

LEMMA SwitchType ==
  ASSUME NEW files \in Files, NEW stream \in Stream, NEW s \in Sections
  PROVE  /\ SwitchIn(files, stream, s) \in Files
         /\ \A other \in Stream \ {stream} : SwitchIn(files, stream, s)[other] = files[other]
BY SectionLine, PutType DEF SwitchIn

LEMMA InitTypes == Init => Types
<1> SUFFICES ASSUME Init PROVE Types
  OBVIOUS
<1>1. file \in [{"data", "text"} -> Seq(Lines)]
  BY DEF Init
<1> QED BY <1>1 DEF Init, Types, TypeOK, DeclFollows

(* What writing a literal leaves.                                          *)
LEMMA WriteLiteralType ==
  ASSUME TypeOK, NEW l \in Literal, WriteLiteral(l)
  PROVE  file' \in Files /\ inSection' \in BuiltIns
<1>1. asmOut \in Stream /\ file \in Files /\ setup \in Setup
  BY DEF TypeOK, Stream, Files
<1>2. LiteralSection(l) \in BuiltIns /\ LiteralSection(l) \in Sections
  BY <1>1, SectionTypes
<1>3. SwitchIn(file, asmOut, LiteralSection(l)) \in Files
  BY <1>1, <1>2, SwitchType
<1>4. Line("data", l) \in Lines
  BY DEF Line, Lines
<1> QED BY <1>1, <1>2, <1>3, <1>4, PutType DEF WriteLiteral, Entered

LEMMA NextTypes == Types /\ [Next]_vars => Types'
<1> SUFFICES ASSUME Types, [Next]_vars PROVE Types'
  OBVIOUS
<1> USE DEF Types, TypeOK, DeclFollows
<1>0. /\ asmOut \in Stream /\ file \in Files /\ Files = [{"data", "text"} -> Seq(Lines)]
      /\ StringConstant \subseteq Literal
  BY SourceAssumption DEF Stream, Files
<1>1. ASSUME NEW l \in StringConstant, OutputConstantDef(l) PROVE Types'
  <2>1. l \in Literal /\ file' \in Files /\ inSection' \in BuiltIns
    BY <1>0, <1>1, WriteLiteralType DEF OutputConstantDef
  <2> QED BY <1>0, <1>1, <2>1 DEF OutputConstantDef
<1>2. ASSUME NEW e \in ExternDecl, AssembleExternal(e) PROVE Types'
  <2>1. SymbolOf[e] \in Symbol
    BY DEF Symbol
  <2>2. externHead' \in Seq(Symbol)
    BY <1>2, <2>1 DEF AssembleExternal
  <2> QED BY <1>2, <2>2 DEF AssembleExternal
<1>3. ASSUME NEW v \in Variable, AssembleCommon(v) PROVE Types'
  <2>1. v \in Symbol /\ Line("common", v) \in Lines
    BY DEF Symbol, Line, Lines
  <2>2. file' \in Files
    BY <1>0, <1>3, <2>1, PutType DEF AssembleCommon
  <2> QED BY <1>0, <1>3, <2>1, <2>2 DEF AssembleCommon, DeclareObject
<1>4. ASSUME NEW v \in Variable, AssembleVariable(v) PROVE Types'
  <2>1. AddressedBy[v] \in Seq(Literal)
    BY <1>0, SourceAssumption
  <2> QED BY <1>4, <2>1 DEF AssembleVariable
<1>5. CASE OutputAddressed
  <2>1. Head(todo) \in Literal /\ Tail(todo) \in Seq(Literal)
    BY <1>5 DEF OutputAddressed
  <2>2. CASE Head(todo) \in defined
    BY <1>5, <2>1, <2>2 DEF OutputAddressed
  <2>3. CASE Head(todo) \notin defined
    <3>1. file' \in Files /\ inSection' \in BuiltIns
      BY <1>5, <2>1, <2>3, WriteLiteralType DEF OutputAddressed
    <3> QED BY <1>0, <1>5, <2>1, <2>3, <3>1 DEF OutputAddressed
  <2> QED BY <2>2, <2>3
<1>6. CASE OutputVariable
  <2> DEFINE t == VariableSection(decl)
  <2>1. decl \in Variable /\ t \in Sections /\ Line("data", decl) \in Lines
    BY <1>6, SectionTypes DEF OutputVariable, Line, Lines, Symbol
  <2>2. SwitchIn(file, asmOut, t) \in Files
    BY <1>0, <2>1, SwitchType
  <2>3. file' \in Files /\ inSection' = t
    BY <1>0, <1>6, <2>1, <2>2, PutType DEF OutputVariable, Entered
  <2>4. symbolWritten' \subseteq Symbol
    BY <1>6, <2>1 DEF OutputVariable, DeclareObject, Symbol
  <2>5. inSection' \in BuiltIns \cup {NoSectionYet} \cup {InNamed(s) : s \in NamedSection}
    BY <2>1, <2>3 DEF Sections
  <2> QED BY <1>0, <1>6, <2>3, <2>4, <2>5 DEF OutputVariable
<1>7. ASSUME NEW f \in Function, StartFunction(f) PROVE Types'
  BY <1>7, SourceAssumption DEF StartFunction
<1>8. CASE OutputConstantPool
  <2>1. Head(todo) \in Literal /\ Tail(todo) \in Seq(Literal)
    BY <1>8 DEF OutputConstantPool
  <2>2. file' \in Files /\ inSection' \in BuiltIns
    BY <1>8, <2>1, WriteLiteralType DEF OutputConstantPool
  <2> QED BY <1>0, <1>8, <2>1, <2>2 DEF OutputConstantPool
<1>9. CASE OutputFunction
  <2> DEFINE t == FunctionSection(decl)
             selected == SwitchIn(file, FunctionStream(decl), t)
             declared == DeclareFunctionName(selected, decl)
  <2>1. decl \in Function /\ t \in Sections /\ Line("code", decl) \in Lines
    BY <1>9, SectionTypes DEF OutputFunction, Line, Lines
  <2>2. selected \in Files
    BY <1>0, <2>1, SwitchType DEF FunctionStream, Stream
  <2>3. declared \in Files
    <3>1. Line("section", ".text") \in Lines /\ "text" \in Stream
      BY DEF Line, Lines, Stream
    <3> HIDE DEF selected
    <3> QED BY <2>2, <3>1, PutType DEF DeclareFunctionName
  <2>4. asmOut' \in Stream
    BY <1>0, <1>9 DEF OutputFunction, Stream
  <2>5. file' = Put(declared, asmOut', Line("code", decl)) /\ inSection' = t
    BY <1>9 DEF OutputFunction, Entered
  <2>6. file' \in Files
    <3> HIDE DEF declared
    <3> QED BY <2>1, <2>3, <2>4, <2>5, PutType
  <2>7. inSection' \in BuiltIns \cup {NoSectionYet} \cup {InNamed(s) : s \in NamedSection}
    BY <2>1, <2>5 DEF Sections
  <2>8. /\ pc' \in {"table", "code"}
        /\ UNCHANGED <<setup, written, defined, symbolWritten, symbolUsed, externHead, decl, todo>>
    BY <1>9 DEF OutputFunction
  <2> QED BY <1>0, <2>1, <2>4, <2>6, <2>7, <2>8 DEF Stream
<1>10. CASE OutputJumpTable
  <2> DEFINE t == FunctionSection(decl)
             switched == SwitchIn(file, asmOut, BuiltIn(".rdata"))
             table == Put(switched, asmOut, Line("table", decl))
             back == Put(table, FunctionStream(decl), Line("section", t.name))
  <2>1. decl \in Function /\ t \in Sections /\ BuiltIn(".rdata") \in Sections
    BY <1>10, SectionTypes DEF OutputJumpTable, Sections, BuiltIns
  <2>2. /\ Line("code", decl) \in Lines /\ Line("table", decl) \in Lines
        /\ Line("section", t.name) \in Lines
    BY <2>1, SectionLine DEF Line, Lines
  <2>3. switched \in Files
    BY <1>0, <2>1, SwitchType
  <2>4. table \in Files
    <3> HIDE DEF switched
    <3> QED BY <1>0, <2>2, <2>3, PutType
  <2>5. back \in Files
    <3>1. FunctionStream(decl) \in Stream
      BY <1>0 DEF FunctionStream, Stream
    <3> HIDE DEF table
    <3> QED BY <2>2, <2>4, <3>1, PutType
  <2>6. file' = Put(back, asmOut, Line("code", decl)) /\ inSection' = t
    BY <1>10 DEF OutputJumpTable, Entered, TableStream
  <2>7. file' \in Files
    <3> HIDE DEF back
    <3> QED BY <1>0, <2>2, <2>5, <2>6, PutType
  <2>8. inSection' \in BuiltIns \cup {NoSectionYet} \cup {InNamed(s) : s \in NamedSection}
    BY <2>1, <2>6 DEF Sections
  <2>9. /\ pc' = "code"
        /\ UNCHANGED <<setup, asmOut, written, defined, symbolWritten, symbolUsed, externHead, decl, todo>>
    BY <1>10 DEF OutputJumpTable
  <2> QED BY <1>0, <2>1, <2>7, <2>8, <2>9
<1>11. CASE EndFunction
  BY <1>11 DEF EndFunction, RestoredOut
<1>12. CASE EndFile
  BY <1>12 DEF EndFile
<1>13. CASE OutputExtern
  <2>1. Head(externHead) \in Symbol /\ Tail(externHead) \in Seq(Symbol)
    BY <1>13 DEF OutputExtern
  <2>2. Line("extern", Head(externHead)) \in Lines
    BY <2>1 DEF Line, Lines
  <2>3. file' \in Files
    BY <1>0, <1>13, <2>2, PutType DEF OutputExtern
  <2> QED BY <1>0, <1>13, <2>1, <2>3 DEF OutputExtern
<1>14. CASE AppendText
  <2>1. Line("section", ".text") \in Lines
    BY DEF Line, Lines
  <2>2. file["data"] \o <<Line("section", ".text")>> \o file["text"] \in Seq(Lines)
    BY <1>0, <2>1
  <2>3. file' \in Files
    BY <1>0, <1>14, <2>2 DEF AppendText
  <2> QED BY <1>0, <1>14, <2>3 DEF AppendText
<1>15. CASE UNCHANGED vars
  BY <1>15 DEF vars
<1> QED BY <1>1, <1>2, <1>3, <1>4, <1>5, <1>6, <1>7, <1>8, <1>9, <1>10, <1>11,
           <1>12, <1>13, <1>14, <1>15 DEF Next

-----------------------------------------------------------------------------
(* Stream is in section s.                                                 *)
Ends(files, stream, s) == EndsIn(files[stream], Len(files[stream]), s)

LEMMA PutEnds ==
  ASSUME NEW files \in Files, NEW stream \in Stream, NEW line \in Lines,
         line.op # "section", NEW s, Ends(files, stream, s)
  PROVE  Ends(Put(files, stream, line), stream, s)
<1>1. files[stream] \in Seq(Lines)
  BY DEF Files
<1>2. EndsIn(Append(files[stream], line), Len(files[stream]) + 1, s)
  BY <1>1, AppendOther DEF Ends
<1> QED BY <1>2, PutType DEF Ends

LEMMA PutSection ==
  ASSUME NEW files \in Files, NEW stream \in Stream, NEW s, Line("section", s) \in Lines
  PROVE  Ends(Put(files, stream, Line("section", s)), stream, s)
<1>1. files[stream] \in Seq(Lines)
  BY DEF Files
<1>2. EndsIn(Append(files[stream], Line("section", s)), Len(files[stream]) + 1, s)
  BY <1>1, AppendSection
<1> QED BY <1>2, PutType DEF Ends

(* A switch leaves the stream in the section: there already, or moved.     *)
LEMMA SwitchEnds ==
  ASSUME NEW files \in Files, NEW stream \in Stream, NEW s \in Sections,
         inSection = s => Ends(files, stream, s.name)
  PROVE  Ends(SwitchIn(files, stream, s), stream, s.name)
BY SectionLine, PutSection DEF SwitchIn, IsIn

LEMMA BuiltInOrNamed ==
  /\ \A s \in NamedSection : InNamed(s) \notin BuiltIns
  /\ \A s \in BuiltIns : s \in Sections /\ ~s.named
  /\ \A s \in Sections : ~s.named => s \in BuiltIns
  /\ NoSectionYet \notin BuiltIns
BY DEF InNamed, BuiltIns, BuiltIn, Sections, NoSectionYet

LEMMA WriteLiteralEnds ==
  ASSUME Types, CacheRight, pc # "done", NEW l \in Literal, WriteLiteral(l)
  PROVE  Ends(file', asmOut, inSection'.name)
<1> DEFINE t == LiteralSection(l)
           switched == SwitchIn(file, asmOut, t)
<1>1. asmOut \in Stream /\ file \in Files /\ setup \in Setup
  BY DEF Types, TypeOK, Stream, Files
<1>2. t \in BuiltIns /\ t \in Sections
  BY <1>1, SectionTypes
<1>3. inSection = t => Ends(file, asmOut, t.name)
  BY <1>2 DEF CacheRight, Ends
<1>4. switched \in Files /\ Ends(switched, asmOut, t.name)
  BY <1>1, <1>2, <1>3, SwitchType, SwitchEnds
<1>5. Line("data", l) \in Lines /\ Line("data", l).op # "section"
  BY DEF Line, Lines
<1>6. file' = Put(switched, asmOut, Line("data", l)) /\ inSection' = t
  BY DEF WriteLiteral, Entered
<1> HIDE DEF switched, t
<1> QED BY <1>1, <1>4, <1>5, <1>6, PutEnds

LEMMA InitCacheInv == Init => CacheInv
BY BuiltInOrNamed DEF Init, CacheInv, OutFollows, FunctionFollows, CacheRight

(* Outside functions only CacheRight is at stake.                          *)
LEMMA OutsideFunction ==
  ASSUME asmOut' = "data", pc' \notin {"table", "code"},
         inSection' \in BuiltIns /\ pc' # "done" => Ends(file', "data", inSection'.name)
  PROVE  CacheInv'
BY DEF CacheInv, OutFollows, FunctionFollows, CacheRight, Ends

(* ASM_DECLARE_FUNCTION_NAME: the second .text is what makes in_section    *)
(* right again after the file switch.                                      *)
LEMMA FunctionCache ==
  ASSUME Types, CacheInv, OutputFunction
  PROVE  CacheInv'
<1> DEFINE t == FunctionSection(decl)
           selected == SwitchIn(file, FunctionStream(decl), t)
           declared == DeclareFunctionName(selected, decl)
           code == Line("code", decl)
<1>1. /\ file \in Files /\ setup \in Setup /\ decl \in Function /\ asmOut = "data"
      /\ t \in Sections
  BY SectionTypes DEF Types, TypeOK, DeclFollows, CacheInv, OutFollows, OutputFunction, Files, Stream
<1>2. /\ pc = "pool" /\ pc' \in {"table", "code"}
      /\ asmOut' = IF setup.gpOpt THEN "text" ELSE "data"
      /\ file' = Put(declared, asmOut', code) /\ inSection' = t /\ UNCHANGED <<setup, decl>>
  BY <1>1 DEF OutputFunction, Entered
<1>3. OutFollows' /\ inSection' = FunctionSection(decl)'
  BY <1>2 DEF OutFollows, FunctionSection, SectionOf
<1>4. CASE t.named
  <2>1. inSection' \notin BuiltIns
    BY <1>2, <1>4, BuiltInOrNamed
  <2>2. FunctionSection(decl)'.named
    BY <1>2, <1>3, <1>4
  <2> QED BY <1>3, <2>1, <2>2 DEF CacheInv, FunctionFollows, CacheRight
<1>5. CASE ~t.named
  <2>1. t = BuiltIn(".text") /\ t \in BuiltIns /\ t.name = ".text" /\ setup.section[decl] = NoSection
    BY <1>1, <1>5, BuiltInOrNamed DEF FunctionSection, SectionOf, InNamed, BuiltIn
  <2>2. FunctionStream(decl) = "data"
    BY <1>1, <1>5 DEF FunctionStream
  <2>3. inSection = t => Ends(file, "data", ".text")
    BY <1>1, <1>2, <2>1 DEF CacheInv, CacheRight, Ends
  <2>4. selected \in Files /\ Ends(selected, "data", ".text")
    BY <1>1, <2>1, <2>2, <2>3, SwitchType, SwitchEnds DEF Stream
  <2>5. code \in Lines /\ code.op # "section" /\ Line("section", ".text") \in Lines
    BY <1>1 DEF Line, Lines
  <2> HIDE DEF selected, code
  <2>6. CASE setup.gpOpt
    <3>1. declared = Put(selected, "text", Line("section", ".text")) /\ asmOut' = "text"
      BY <1>2, <2>1, <2>6 DEF DeclareFunctionName
    <3>2. /\ declared \in Files /\ Ends(declared, "text", ".text")
          /\ declared["data"] = selected["data"]
      BY <2>4, <2>5, <3>1, PutType, PutSection DEF Stream
    <3> HIDE DEF declared
    <3>3. Ends(file', "text", ".text") /\ file'["data"] = declared["data"]
      <4>1. "text" \in Stream /\ "data" \in Stream \ {"text"}
        BY DEF Stream
      <4>2. file' = Put(declared, "text", code)
        BY <1>2, <3>1
      <4>3. Ends(file', "text", ".text")
        BY <2>5, <3>2, <4>1, <4>2, PutEnds
      <4>4. file'["data"] = declared["data"]
        BY <2>5, <3>2, <4>1, <4>2, PutType
      <4> QED BY <4>3, <4>4
    <3>4. Ends(file', "data", ".text")
      BY <2>4, <3>2, <3>3 DEF Ends
    <3> QED BY <1>2, <1>3, <2>1, <3>1, <3>3, <3>4 DEF CacheInv, FunctionFollows, CacheRight, Ends
  <2>7. CASE ~setup.gpOpt
    <3>1. declared = selected /\ asmOut' = "data"
      BY <1>2, <2>7 DEF DeclareFunctionName
    <3> HIDE DEF declared
    <3>2. Ends(file', "data", ".text")
      BY <1>2, <2>4, <2>5, <3>1, PutEnds DEF Stream
    <3> QED BY <1>2, <1>3, <2>1, <3>1, <3>2 DEF CacheInv, FunctionFollows, CacheRight, Ends
  <2> QED BY <2>6, <2>7
<1> QED BY <1>4, <1>5

LEMMA TableCache ==
  ASSUME Types, CacheInv, OutputJumpTable
  PROVE  CacheInv'
<1> DEFINE t == FunctionSection(decl)
           switched == SwitchIn(file, asmOut, BuiltIn(".rdata"))
           table == Put(switched, asmOut, Line("table", decl))
           back == Put(table, FunctionStream(decl), Line("section", t.name))
           code == Line("code", decl)
<1>1. /\ file \in Files /\ setup \in Setup /\ decl \in Function /\ asmOut \in Stream
      /\ t \in Sections /\ BuiltIn(".rdata") \in Sections
  BY SectionTypes DEF Types, TypeOK, DeclFollows, OutputJumpTable, Files, Stream, Sections, BuiltIns
<1>2. /\ pc = "table" /\ pc' = "code" /\ file' = Put(back, asmOut, code) /\ inSection' = t
      /\ UNCHANGED <<setup, decl, asmOut>>
  BY DEF OutputJumpTable, Entered, TableStream
<1>3. OutFollows' /\ inSection' = FunctionSection(decl)'
  BY <1>2 DEF CacheInv, OutFollows, FunctionSection, SectionOf
<1>4. CASE t.named
  <2>1. inSection' \notin BuiltIns
    BY <1>2, <1>4, BuiltInOrNamed
  <2>2. FunctionSection(decl)'.named
    BY <1>2, <1>3, <1>4
  <2> QED BY <1>3, <2>1, <2>2 DEF CacheInv, FunctionFollows, CacheRight
<1>5. CASE ~t.named
  <2>1. t.name = ".text" /\ FunctionStream(decl) = asmOut
    BY <1>5 DEF FunctionSection, SectionOf, InNamed, BuiltIn, FunctionStream
  <2>2. Ends(file, "data", ".text")
    BY <1>2, <1>5 DEF CacheInv, FunctionFollows, Ends
  <2>3. /\ code \in Lines /\ code.op # "section" /\ Line("section", ".text") \in Lines
        /\ Line("table", decl) \in Lines
    BY <1>1 DEF Line, Lines
  <2>4. switched \in Files /\ \A other \in Stream \ {asmOut} : switched[other] = file[other]
    BY <1>1, SwitchType
  <2> HIDE DEF switched, code
  <2>5. table \in Files /\ \A other \in Stream \ {asmOut} : table[other] = file[other]
    BY <1>1, <2>3, <2>4, PutType
  <2>6. back = Put(table, asmOut, Line("section", ".text"))
    BY <2>1
  <2> HIDE DEF table, back
  <2>7. /\ back \in Files /\ Ends(back, asmOut, ".text")
        /\ \A other \in Stream \ {asmOut} : back[other] = file[other]
    BY <1>1, <2>3, <2>5, <2>6, PutType, PutSection
  <2>8. /\ Ends(file', asmOut, ".text")
        /\ \A other \in Stream \ {asmOut} : file'[other] = file[other]
    BY <1>1, <1>2, <2>3, <2>7, PutType, PutEnds
  <2>9. Ends(file', "data", ".text")
    BY <2>2, <2>8 DEF Ends, Stream
  <2> QED BY <1>2, <1>3, <2>1, <2>8, <2>9 DEF CacheInv, FunctionFollows, CacheRight, Ends
<1> QED BY <1>4, <1>5

LEMMA NextCacheInv == Types /\ CacheInv /\ [Next]_vars => CacheInv'
<1> SUFFICES ASSUME Types, CacheInv, [Next]_vars PROVE CacheInv'
  OBVIOUS
<1>0. /\ asmOut \in Stream /\ file \in Files /\ CacheRight /\ OutFollows
      /\ StringConstant \subseteq Literal
  BY SourceAssumption DEF Types, TypeOK, CacheInv, Stream, Files
<1>1. ASSUME NEW l \in StringConstant, OutputConstantDef(l) PROVE CacheInv'
  <2>1. /\ pc = "top" /\ pc' = "top" /\ asmOut = "data" /\ asmOut' = "data"
        /\ l \in Literal /\ WriteLiteral(l)
    BY <1>0, <1>1 DEF OutputConstantDef, OutFollows
  <2>2. Ends(file', "data", inSection'.name)
    BY <1>0, <2>1, WriteLiteralEnds
  <2> QED BY <2>1, <2>2, OutsideFunction
<1>2. ASSUME NEW e \in ExternDecl, AssembleExternal(e) PROVE CacheInv'
  BY <1>0, <1>2, OutsideFunction DEF AssembleExternal, OutFollows, CacheRight, Ends
<1>3. ASSUME NEW v \in Variable, AssembleCommon(v) PROVE CacheInv'
  <2>1. /\ pc = "top" /\ pc' = "top" /\ asmOut = "data" /\ asmOut' = "data"
        /\ file' = Put(file, "data", Line("common", v)) /\ UNCHANGED inSection
    BY <1>0, <1>3 DEF AssembleCommon, OutFollows
  <2>2. Line("common", v) \in Lines /\ Line("common", v).op # "section"
    BY DEF Line, Lines, Symbol
  <2>3. inSection \in BuiltIns => Ends(file, "data", inSection.name)
    BY <1>0, <2>1 DEF CacheRight, Ends
  <2>4. inSection \in BuiltIns => Ends(file', "data", inSection.name)
    BY <1>0, <2>1, <2>2, <2>3, PutEnds
  <2> QED BY <2>1, <2>4, OutsideFunction
<1>4. ASSUME NEW v \in Variable, AssembleVariable(v) PROVE CacheInv'
  BY <1>0, <1>4, OutsideFunction DEF AssembleVariable, OutFollows, CacheRight, Ends
<1>5. CASE OutputAddressed
  <2>1. /\ pc = "variable" /\ pc' = "variable" /\ asmOut = "data" /\ asmOut' = "data"
        /\ todo # <<>>
    BY <1>0, <1>5 DEF OutputAddressed, OutFollows
  <2>2. CASE Head(todo) \in defined
    BY <1>0, <1>5, <2>1, <2>2, OutsideFunction DEF OutputAddressed, CacheRight, Ends
  <2>3. CASE Head(todo) \notin defined
    <3>1. Head(todo) \in Literal /\ WriteLiteral(Head(todo))
      BY <1>5, <2>1, <2>3 DEF OutputAddressed, Types, TypeOK
    <3>2. Ends(file', "data", inSection'.name)
      BY <1>0, <2>1, <3>1, WriteLiteralEnds
    <3> QED BY <2>1, <3>2, OutsideFunction
  <2> QED BY <2>2, <2>3
<1>6. CASE OutputVariable
  <2> DEFINE t == VariableSection(decl)
             switched == SwitchIn(file, "data", t)
  <2>1. /\ pc = "variable" /\ pc' = "top" /\ asmOut = "data" /\ asmOut' = "data"
        /\ file' = Put(switched, "data", Line("data", decl)) /\ inSection' = t
    BY <1>0, <1>6 DEF OutputVariable, OutFollows, Entered
  <2>2. t \in Sections /\ Line("data", decl) \in Lines /\ Line("data", decl).op # "section"
    BY <2>1, SectionTypes DEF Types, TypeOK, DeclFollows, Line, Lines, Symbol
  <2>3. CASE t \in BuiltIns
    <3>1. inSection = t => Ends(file, "data", t.name)
      BY <1>0, <2>1, <2>3 DEF CacheRight, Ends
    <3>2. switched \in Files /\ Ends(switched, "data", t.name)
      BY <1>0, <2>2, <3>1, SwitchType, SwitchEnds DEF Stream
    <3> HIDE DEF switched, t
    <3>3. Ends(file', "data", inSection'.name)
      BY <2>1, <2>2, <3>2, PutEnds DEF Stream
    <3> QED BY <2>1, <3>3, OutsideFunction
  <2>4. CASE t \notin BuiltIns
    BY <2>1, <2>4, OutsideFunction
  <2> QED BY <2>3, <2>4
<1>7. ASSUME NEW f \in Function, StartFunction(f) PROVE CacheInv'
  BY <1>0, <1>7, OutsideFunction DEF StartFunction, OutFollows, CacheRight, Ends
<1>8. CASE OutputConstantPool
  <2>1. /\ pc = "pool" /\ pc' = "pool" /\ asmOut = "data" /\ asmOut' = "data"
        /\ Head(todo) \in Literal /\ WriteLiteral(Head(todo))
    BY <1>0, <1>8 DEF OutputConstantPool, OutFollows, Types, TypeOK
  <2>2. Ends(file', "data", inSection'.name)
    BY <1>0, <2>1, WriteLiteralEnds
  <2> QED BY <2>1, <2>2, OutsideFunction
<1>9. CASE OutputFunction
  BY <1>9, FunctionCache
<1>10. CASE OutputJumpTable
  BY <1>10, TableCache
<1>11. CASE EndFunction
  <2>1. /\ pc = "code" /\ pc' = "top" /\ asmOut' = "data" /\ UNCHANGED <<inSection, file>>
    BY <1>0, <1>11 DEF EndFunction, RestoredOut, OutFollows
  <2>2. inSection \in BuiltIns => inSection.name = ".text" /\ Ends(file, "data", ".text")
    BY <2>1, BuiltInOrNamed
       DEF CacheInv, FunctionFollows, FunctionSection, SectionOf, InNamed, BuiltIn, Ends
  <2> QED BY <2>1, <2>2, OutsideFunction
<1>12. CASE EndFile
  BY <1>0, <1>12, OutsideFunction DEF EndFile, OutFollows, CacheRight, Ends
<1>13. CASE OutputExtern
  <2> DEFINE line == Line("extern", Head(externHead))
  <2>1. /\ pc = "externs" /\ pc' = "externs" /\ asmOut = "data" /\ asmOut' = "data"
        /\ file' = Put(file, "data", line) \/ file' = file
        /\ Head(externHead) \in Symbol /\ UNCHANGED inSection
    BY <1>0, <1>13 DEF OutputExtern, OutFollows, Types, TypeOK
  <2>2. line \in Lines /\ line.op # "section"
    BY <2>1 DEF Line, Lines
  <2>3. inSection \in BuiltIns => Ends(file, "data", inSection.name)
    BY <1>0, <2>1 DEF CacheRight, Ends
  <2> HIDE DEF line
  <2>4. inSection \in BuiltIns => Ends(file', "data", inSection.name)
    BY <1>0, <2>1, <2>2, <2>3, PutEnds
  <2> QED BY <2>1, <2>4, OutsideFunction
<1>14. CASE AppendText
  BY <1>0, <1>14, OutsideFunction DEF AppendText, OutFollows
<1>15. CASE UNCHANGED vars
  BY <1>15 DEF vars, CacheInv, OutFollows, FunctionFollows, FunctionSection, SectionOf, CacheRight
<1> QED BY <1>1, <1>2, <1>3, <1>4, <1>5, <1>6, <1>7, <1>8, <1>9, <1>10, <1>11,
           <1>12, <1>13, <1>14, <1>15 DEF Next

-----------------------------------------------------------------------------
LEMMA TypesInvariant == Spec => []Types
<1> QED BY InitTypes, NextTypes, PTL DEF Spec

(* The variables keep their types.                                         *)
THEOREM TypeCorrect == Spec => []TypeOK
<1>1. Types => TypeOK
  BY DEF Types
<1> QED BY <1>1, TypesInvariant, PTL

(* No early return of text_section () or its like skips a directive that   *)
(* was needed, whatever is compiled in whatever order.                     *)
THEOREM EarlyReturnsRight == Spec => []CacheRight
<1>1. CacheInv => CacheRight
  BY DEF CacheInv
<1> QED BY <1>1, TypesInvariant, InitCacheInv, NextCacheInv, PTL DEF Spec

-----------------------------------------------------------------------------
(* The command lines and section attributes with which every line can be   *)
(* right: a function has a section of its own only if code goes to the     *)
(* text file, and shares it with no object.  Without the former its        *)
(* directive and its code go to different streams; without the latter an   *)
(* object gets no directive when in_section is still the function's.       *)
SeparateSections ==
  \A c \in Setup : \A f \in Function : c.section[f] # NoSection =>
    /\ c.gpOpt
    /\ \A v \in Variable : c.section[v] # c.section[f]

(* The section that a line is for.                                         *)
SectionFor(line) ==
  IF line.op = "code" THEN FunctionSection(line.what).name
  ELSE IF line.op = "table" THEN ".rdata"
  ELSE IF line.what \in Variable THEN VariableSection(line.what).name
  ELSE LiteralSection(line.what).name

Placed == {"code", "table", "data"}
LinesRight(lines) ==
  \A k \in 1..Len(lines) :
    lines[k].op \in Placed => EndsIn(lines, k, SectionFor(lines[k]))
AllRight(files) == \A stream \in Stream : LinesRight(files[stream])

(* in_section may be a section of an attribute as well.  It is then that   *)
(* of the text file if functions are in it, and that of the data file if   *)
(* objects are.                                                            *)
NamedRight ==
  pc # "done" =>
    \A s \in NamedSection : inSection = InNamed(s) =>
      /\ \A f \in Function : setup.section[f] = s => Ends(file, "text", s)
      /\ \A v \in Variable : setup.section[v] = s => Ends(file, "data", s)

PlaceInv == NamedRight /\ AllRight(file)

(* The section after n lines depends on these lines only.                  *)
LEMMA SameLines ==
  ASSUME NEW a, NEW b, NEW n \in Nat, \A j \in 1..n : a[j] = b[j], NEW s
  PROVE  EndsIn(a, n, s) => EndsIn(b, n, s)
<1>1. ASSUME NEW k \in 1..n, a[k] = Line("section", s), \A j \in (k + 1)..n : a[j].op # "section"
      PROVE  EndsIn(b, n, s)
  <2>1. b[k] = Line("section", s) /\ \A j \in (k + 1)..n : b[j].op # "section"
    BY <1>1
  <2> QED BY <2>1 DEF EndsIn
<1>2. ASSUME s = ".text", \A j \in 1..n : a[j].op # "section" PROVE EndsIn(b, n, s)
  BY <1>2 DEF EndsIn
<1> QED BY <1>1, <1>2 DEF EndsIn

LEMMA AppendRight ==
  ASSUME NEW S, NEW lines \in Seq(S), NEW line \in S, LinesRight(lines),
         line.op \in Placed => EndsIn(lines, Len(lines), SectionFor(line))
  PROVE  LinesRight(Append(lines, line))
<1> DEFINE l == Append(lines, line)
           n == Len(lines)
<1>1. n \in Nat /\ Len(l) = n + 1 /\ l[n + 1] = line /\ \A j \in 1..n : l[j] = lines[j]
  OBVIOUS
<1> SUFFICES ASSUME NEW k \in 1..(n + 1), l[k].op \in Placed
             PROVE  EndsIn(l, k, SectionFor(l[k]))
  BY <1>1 DEF LinesRight
<1>2. CASE k \in 1..n
  <2>1. l[k] = lines[k] /\ EndsIn(lines, k, SectionFor(lines[k]))
    BY <1>1, <1>2 DEF LinesRight
  <2>2. k \in Nat /\ \A j \in 1..k : lines[j] = l[j]
    BY <1>1, <1>2
  <2> HIDE DEF l
  <2> QED BY <2>1, <2>2, SameLines
<1>3. CASE k = n + 1
  <2>1. line.op # "section" /\ EndsIn(lines, n, SectionFor(line))
    BY <1>1, <1>3 DEF Placed
  <2> HIDE DEF n
  <2> QED BY <1>1, <1>3, <2>1, AppendOther DEF n
<1> QED BY <1>1, <1>2, <1>3

LEMMA PutRight ==
  ASSUME NEW files \in Files, NEW stream \in Stream, NEW line \in Lines, AllRight(files),
         line.op \in Placed => Ends(files, stream, SectionFor(line))
  PROVE  AllRight(Put(files, stream, line))
<1>1. files[stream] \in Seq(Lines) /\ LinesRight(files[stream])
  BY DEF Files, AllRight
<1>2. LinesRight(Append(files[stream], line))
  BY <1>1, AppendRight DEF Ends
<1>3. ASSUME NEW other \in Stream PROVE LinesRight(Put(files, stream, line)[other])
  <2>1. CASE other = stream
    BY <1>2, <2>1, PutType
  <2>2. CASE other # stream
    <3>1. Put(files, stream, line)[other] = files[other]
      BY <2>2, PutType
    <3> QED BY <3>1 DEF AllRight
  <2> QED BY <2>1, <2>2
<1> QED BY <1>3 DEF AllRight

LEMMA SwitchRight ==
  ASSUME NEW files \in Files, NEW stream \in Stream, NEW s \in Sections, AllRight(files)
  PROVE  AllRight(SwitchIn(files, stream, s))
<1>1. Line("section", s.name) \in Lines /\ Line("section", s.name).op \notin Placed
  BY SectionLine DEF Line, Placed
<1> QED BY <1>1, PutRight DEF SwitchIn

(* The text file behind a .text of its own: the section before it does not *)
(* matter.                                                                 *)
LEMMA ConcatRight ==
  ASSUME NEW S, NEW a \in Seq(S), NEW b \in Seq(S), Line("section", ".text") \in S,
         LinesRight(a), LinesRight(b)
  PROVE  LinesRight(a \o <<Line("section", ".text")>> \o b)
<1> DEFINE all == a \o <<Line("section", ".text")>> \o b
           n == Len(a) + 1
<1>1. /\ n \in Nat \ {0} /\ Len(b) \in Nat /\ Len(all) = n + Len(b)
      /\ \A j \in 1..Len(a) : all[j] = a[j]
      /\ all[n] = Line("section", ".text")
      /\ \A j \in 1..Len(b) : all[n + j] = b[j]
  OBVIOUS
<1>2. Line("section", ".text").op = "section" /\ "section" \notin Placed
  BY DEF Line, Placed
<1> SUFFICES ASSUME NEW k \in 1..(n + Len(b)), all[k].op \in Placed
             PROVE  EndsIn(all, k, SectionFor(all[k]))
  BY <1>1 DEF LinesRight
<1> HIDE DEF all
<1>3. CASE k \in 1..Len(a)
  <2>1. all[k] = a[k] /\ EndsIn(a, k, SectionFor(a[k]))
    BY <1>1, <1>3 DEF LinesRight
  <2>2. k \in Nat /\ \A j \in 1..k : a[j] = all[j]
    BY <1>1, <1>3
  <2> QED BY <2>1, <2>2, SameLines
<1>4. CASE k = n
  BY <1>1, <1>2, <1>4
<1>5. ASSUME NEW i \in 1..Len(b), k = n + i PROVE EndsIn(all, k, SectionFor(all[k]))
  <2> DEFINE s == SectionFor(b[i])
  <2> HIDE DEF n
  <2>1. all[k] = b[i] /\ EndsIn(b, i, s)
    BY <1>1, <1>5 DEF LinesRight
  <2>2. ASSUME NEW m \in 1..i, b[m] = Line("section", s), \A j \in (m + 1)..i : b[j].op # "section"
        PROVE  EndsIn(all, k, s)
    <3>1. m \in 1..Len(b) /\ n + m \in 1..k
      BY <1>1, <1>5
    <3>2. all[n + m] = Line("section", s)
      BY <1>1, <2>2, <3>1
    <3>3. ASSUME NEW j \in (n + m + 1)..k PROVE all[j].op # "section"
      <4>1. j - n \in (m + 1)..i /\ j - n \in 1..Len(b) /\ j = n + (j - n)
        BY <1>1, <1>5
      <4> QED BY <1>1, <2>2, <4>1
    <3> QED BY <3>1, <3>2, <3>3 DEF EndsIn
  <2>3. ASSUME s = ".text", \A j \in 1..i : b[j].op # "section" PROVE EndsIn(all, k, s)
    <3>1. n \in 1..k /\ all[n] = Line("section", s)
      BY <1>1, <1>5, <2>3
    <3>2. ASSUME NEW j \in (n + 1)..k PROVE all[j].op # "section"
      <4>1. j - n \in 1..i /\ j - n \in 1..Len(b) /\ j = n + (j - n)
        BY <1>1, <1>5
      <4> QED BY <1>1, <2>3, <4>1
    <3> QED BY <3>1, <3>2 DEF EndsIn
  <2>4. EndsIn(all, k, s)
    BY <2>1, <2>2, <2>3 DEF EndsIn
  <2> QED BY <2>1, <2>4
<1>6. k \in 1..Len(a) \/ k = n \/ \E i \in 1..Len(b) : k = n + i
  <2>1. k > n => k - n \in 1..Len(b) /\ k = n + (k - n)
    BY <1>1
  <2> QED BY <1>1, <2>1
<1> QED BY <1>3, <1>4, <1>5, <1>6

(* The options do not change.                                              *)
LEMMA SameSetup ==
  ASSUME setup' = setup, AllRight(file')
  PROVE  AllRight(file)'
BY DEF AllRight, LinesRight, SectionFor, FunctionSection, VariableSection, LiteralSection,
       SectionOf, SelectSection

LEMMA InitPlaceInv == Init => PlaceInv
<1> SUFFICES ASSUME Init PROVE PlaceInv
  OBVIOUS
<1>1. NamedRight
  BY DEF Init, NamedRight, NoSectionYet, InNamed, BuiltIn
<1>2. \A stream \in Stream : file[stream] = <<>>
  BY DEF Init, Stream
<1>3. AllRight(file)
  BY <1>2 DEF AllRight, LinesRight
<1> QED BY <1>1, <1>3 DEF PlaceInv

LEMMA WriteLiteralRight ==
  ASSUME Types, CacheRight, AllRight(file), pc # "done", NEW l \in Literal, WriteLiteral(l)
  PROVE  AllRight(file') /\ inSection' \in BuiltIns
<1> DEFINE t == LiteralSection(l)
           switched == SwitchIn(file, asmOut, t)
<1>1. asmOut \in Stream /\ file \in Files /\ setup \in Setup
  BY DEF Types, TypeOK, Stream, Files
<1>2. t \in BuiltIns /\ t \in Sections
  BY <1>1, SectionTypes
<1>3. inSection = t => Ends(file, asmOut, t.name)
  BY <1>2 DEF CacheRight, Ends
<1>4. switched \in Files /\ Ends(switched, asmOut, t.name) /\ AllRight(switched)
  BY <1>1, <1>2, <1>3, SwitchType, SwitchEnds, SwitchRight
<1>5. Line("data", l) \in Lines /\ SectionFor(Line("data", l)) = t.name
  BY SourceAssumption DEF Line, Lines, SectionFor, Symbol
<1>6. file' = Put(switched, asmOut, Line("data", l)) /\ inSection' = t
  BY DEF WriteLiteral, Entered
<1> HIDE DEF switched, t
<1> QED BY <1>1, <1>2, <1>4, <1>5, <1>6, PutRight

(* A literal leaves a built-in section, of which NamedRight says nothing.  *)
LEMMA BuiltInPlace ==
  ASSUME setup' = setup, AllRight(file'), inSection' \in BuiltIns
  PROVE  PlaceInv'
<1>1. \A s \in NamedSection : inSection' # InNamed(s)
  BY BuiltInOrNamed
<1> QED BY <1>1, SameSetup DEF PlaceInv, NamedRight

(* Where nothing is written nothing changes.                               *)
LEMMA QuietPlace ==
  ASSUME PlaceInv, pc # "done", UNCHANGED <<setup, inSection, file>>
  PROVE  PlaceInv'
<1>1. AllRight(file)'
  BY SameSetup DEF PlaceInv
<1> QED BY <1>1 DEF PlaceInv, NamedRight, Ends

(* A line that no section is for, .comm or .extern, leaves the section.    *)
LEMMA PlainPlace ==
  ASSUME file \in Files, PlaceInv, pc # "done", NEW line \in Lines,
         line.op \notin Placed, line.op # "section",
         file' = Put(file, "data", line), UNCHANGED <<setup, inSection>>
  PROVE  PlaceInv'
<1>0. "data" \in Stream /\ "text" \in Stream \ {"data"}
  BY DEF Stream
<1>1. AllRight(file')
  BY <1>0, PutRight DEF PlaceInv
<1>2. ASSUME NEW s, Ends(file, "data", s) PROVE Ends(file', "data", s)
  BY <1>0, <1>2, PutEnds
<1>3. ASSUME NEW s, Ends(file, "text", s) PROVE Ends(file', "text", s)
  <2>1. file'["text"] = file["text"]
    BY <1>0, PutType
  <2> QED BY <1>3, <2>1 DEF Ends
<1>4. NamedRight'
  BY <1>2, <1>3 DEF PlaceInv, NamedRight, Ends
<1> QED BY <1>1, <1>4, SameSetup DEF PlaceInv

LEMMA VariablePlace ==
  ASSUME Types, CacheInv, PlaceInv, SeparateSections, OutputVariable
  PROVE  PlaceInv'
<1> DEFINE t == VariableSection(decl)
           switched == SwitchIn(file, "data", t)
           line == Line("data", decl)
<1>1. /\ file \in Files /\ setup \in Setup /\ pc = "variable" /\ decl \in Variable
      /\ asmOut = "data" /\ t \in Sections /\ "data" \in Stream
  BY SectionTypes
     DEF Types, TypeOK, DeclFollows, CacheInv, OutFollows, OutputVariable, Files, Stream
<1>2. /\ file' = Put(switched, "data", line) /\ inSection' = t /\ setup' = setup
  BY <1>1 DEF OutputVariable, Entered
<1>3. line \in Lines /\ line.op # "section" /\ SectionFor(line) = t.name
  BY <1>1 DEF Line, Lines, Symbol, SectionFor
<1>4. ASSUME t \notin BuiltIns
      PROVE  setup.section[decl] \in NamedSection /\ t = InNamed(setup.section[decl])
  <2>1. t.named
    BY <1>1, <1>4, BuiltInOrNamed
  <2>2. t = InNamed(setup.section[decl]) /\ setup.section[decl] # NoSection
    BY <2>1 DEF VariableSection, SectionOf, BuiltIn
  <2>3. setup.section[decl] \in NamedSection \cup {NoSection}
    BY <1>1, SourceAssumption DEF Setups
  <2> QED BY <2>2, <2>3
<1>5. inSection = t => Ends(file, "data", t.name)
  <2>1. CASE t \in BuiltIns
    BY <1>1, <2>1 DEF CacheInv, CacheRight, Ends
  <2>2. CASE t \notin BuiltIns
    <3> DEFINE s == setup.section[decl]
    <3>1. s \in NamedSection /\ t = InNamed(s) /\ t.name = s
      BY <1>4, <2>2 DEF InNamed
    <3> HIDE DEF s, t
    <3>2. inSection = t => Ends(file, "data", s)
      BY <1>1, <3>1 DEF PlaceInv, NamedRight, s
    <3> QED BY <3>1, <3>2
  <2> QED BY <2>1, <2>2
<1>6. switched \in Files /\ Ends(switched, "data", t.name) /\ AllRight(switched)
  BY <1>1, <1>5, SwitchType, SwitchEnds, SwitchRight DEF PlaceInv
<1> HIDE DEF switched, line
<1>7. AllRight(file') /\ Ends(file', "data", t.name)
  <2> HIDE DEF t
  <2> QED BY <1>1, <1>2, <1>3, <1>6, PutRight, PutEnds
<1>8. CASE t \in BuiltIns
  BY <1>2, <1>7, <1>8, BuiltInPlace
<1>9. CASE t \notin BuiltIns
  <2> DEFINE n == setup.section[decl]
  <2>1. n \in NamedSection /\ inSection' = InNamed(n) /\ t.name = n
    BY <1>2, <1>4, <1>9 DEF InNamed
  <2>2. \A f \in Function : setup.section[f] # n
    BY <1>1, <2>1, SourceAssumption DEF SeparateSections
  <2>3. \A s : inSection' = InNamed(s) => s = n
    BY <2>1 DEF InNamed
  <2> HIDE DEF n, t
  <2>4. NamedRight'
    BY <1>2, <1>7, <2>1, <2>2, <2>3 DEF NamedRight, Ends
  <2> QED BY <1>2, <1>7, <2>4, SameSetup DEF PlaceInv
<1> QED BY <1>8, <1>9

(* A function with a section of its own is in the text file.               *)
LEMMA FunctionNamed ==
  ASSUME setup \in Setup, SeparateSections, NEW f \in Function, FunctionSection(f).named
  PROVE  /\ setup.gpOpt /\ setup.section[f] \in NamedSection
         /\ FunctionSection(f) = InNamed(setup.section[f])
         /\ \A v \in Variable : setup.section[v] # setup.section[f]
<1>1. FunctionSection(f) = InNamed(setup.section[f]) /\ setup.section[f] # NoSection
  BY DEF FunctionSection, SectionOf, BuiltIn
<1>2. setup.section[f] \in NamedSection \cup {NoSection}
  BY SourceAssumption DEF Setups
<1> QED BY <1>1, <1>2 DEF SeparateSections

LEMMA NamedFunctionPlace ==
  ASSUME setup \in Setup, SeparateSections, NEW f \in Function, FunctionSection(f).named,
         setup' = setup, inSection' = FunctionSection(f),
         AllRight(file'), Ends(file', "text", FunctionSection(f).name)
  PROVE  PlaceInv'
<1> DEFINE n == setup.section[f]
<1>1. n \in NamedSection /\ FunctionSection(f) = InNamed(n) /\ FunctionSection(f).name = n
  BY FunctionNamed DEF InNamed
<1>2. \A v \in Variable : setup.section[v] # n
  BY FunctionNamed
<1>3. \A s : inSection' = InNamed(s) => s = n
  BY <1>1 DEF InNamed
<1> HIDE DEF n
<1>4. NamedRight'
  BY <1>1, <1>2, <1>3 DEF NamedRight, Ends
<1> QED BY <1>4, SameSetup DEF PlaceInv

LEMMA FunctionPlace ==
  ASSUME Types, CacheInv, PlaceInv, SeparateSections, OutputFunction
  PROVE  PlaceInv'
<1> DEFINE t == FunctionSection(decl)
           stream == FunctionStream(decl)
           selected == SwitchIn(file, stream, t)
           declared == DeclareFunctionName(selected, decl)
           code == Line("code", decl)
<1>1. /\ file \in Files /\ setup \in Setup /\ pc = "pool" /\ decl \in Function
      /\ asmOut = "data" /\ t \in Sections
  BY SectionTypes
     DEF Types, TypeOK, DeclFollows, CacheInv, OutFollows, OutputFunction, Files, Stream
<1>2. /\ asmOut' = IF setup.gpOpt THEN "text" ELSE "data"
      /\ file' = Put(declared, asmOut', code) /\ inSection' = t /\ setup' = setup
  BY <1>1 DEF OutputFunction, Entered
<1>3. code \in Lines /\ code.op # "section" /\ SectionFor(code) = t.name
  BY <1>1 DEF Line, Lines, SectionFor
<1>4. stream = IF t.named THEN "text" ELSE "data"
  BY <1>1 DEF FunctionStream
<1>5. inSection = t => Ends(file, stream, t.name)
  <2>1. CASE t.named
    <3> DEFINE n == setup.section[decl]
    <3>1. n \in NamedSection /\ t = InNamed(n) /\ t.name = n /\ stream = "text"
      BY <1>1, <1>4, <2>1, FunctionNamed DEF InNamed
    <3> HIDE DEF n, t, stream
    <3>2. inSection = t => Ends(file, "text", n)
      BY <1>1, <3>1 DEF PlaceInv, NamedRight, n
    <3> QED BY <3>1, <3>2
  <2>2. CASE ~t.named
    BY <1>1, <1>4, <2>2, BuiltInOrNamed DEF CacheInv, CacheRight, Ends
  <2> QED BY <2>1, <2>2
<1>6. /\ selected \in Files /\ Ends(selected, stream, t.name) /\ AllRight(selected)
      /\ stream \in Stream
  <2>1. stream \in Stream
    BY <1>4 DEF Stream
  <2> HIDE DEF stream, t
  <2> QED BY <1>1, <1>5, <2>1, SwitchType, SwitchEnds, SwitchRight DEF PlaceInv
<1> HIDE DEF selected, stream, code
<1>7. CASE t.named
  <2>1. setup.gpOpt /\ setup.section[decl] # NoSection
    BY <1>1, <1>7, FunctionNamed DEF FunctionSection, SectionOf, BuiltIn
  <2>2. declared = selected /\ asmOut' = "text" /\ stream = "text"
    BY <1>2, <1>4, <1>7, <2>1 DEF DeclareFunctionName
  <2> HIDE DEF declared
  <2>3. AllRight(file') /\ Ends(file', "text", t.name)
    <3> HIDE DEF t
    <3> QED BY <1>2, <1>3, <1>6, <2>2, PutRight, PutEnds
  <2> QED BY <1>1, <1>2, <1>7, <2>3, NamedFunctionPlace
<1>8. CASE ~t.named
  <2>1. t.name = ".text" /\ t \in BuiltIns /\ setup.section[decl] = NoSection
    BY <1>1, <1>8, BuiltInOrNamed DEF FunctionSection, SectionOf, InNamed, BuiltIn
  <2>2. /\ declared \in Files /\ AllRight(declared) /\ Ends(declared, asmOut', ".text")
        /\ asmOut' \in Stream
    <3> DEFINE directive == Line("section", ".text")
    <3>1. directive \in Lines /\ directive.op \notin Placed /\ "text" \in Stream
      BY DEF Line, Lines, Placed, Stream
    <3>2. CASE setup.gpOpt
      <4>1. declared = Put(selected, "text", directive) /\ asmOut' = "text"
        BY <1>2, <2>1, <3>2 DEF DeclareFunctionName
      <4> QED BY <1>6, <3>1, <4>1, PutType, PutRight, PutSection
    <3>3. CASE ~setup.gpOpt
      <4>1. declared = selected /\ asmOut' = "data" /\ stream = "data"
        BY <1>2, <1>4, <1>8, <3>3 DEF DeclareFunctionName
      <4> QED BY <1>6, <2>1, <4>1
    <3> QED BY <3>2, <3>3
  <2> HIDE DEF declared
  <2>3. AllRight(file')
    BY <1>2, <1>3, <2>1, <2>2, PutRight
  <2> QED BY <1>2, <2>1, <2>3, BuiltInPlace
<1> QED BY <1>7, <1>8

LEMMA TablePlace ==
  ASSUME Types, CacheInv, PlaceInv, SeparateSections, OutputJumpTable
  PROVE  PlaceInv'
<1> DEFINE t == FunctionSection(decl)
           rdata == BuiltIn(".rdata")
           stream == FunctionStream(decl)
           switched == SwitchIn(file, asmOut, rdata)
           table == Put(switched, asmOut, Line("table", decl))
           back == Put(table, stream, Line("section", t.name))
           code == Line("code", decl)
<1>1. /\ file \in Files /\ setup \in Setup /\ pc = "table" /\ decl \in Function
      /\ asmOut \in Stream /\ t \in Sections /\ rdata \in Sections /\ rdata \in BuiltIns
  BY SectionTypes
     DEF Types, TypeOK, DeclFollows, OutputJumpTable, Files, Stream, Sections, BuiltIns
<1>2. /\ file' = Put(back, asmOut, code) /\ inSection' = t /\ setup' = setup
  BY DEF OutputJumpTable, Entered, TableStream
<1>3. /\ code \in Lines /\ code.op # "section" /\ SectionFor(code) = t.name
      /\ Line("table", decl) \in Lines /\ SectionFor(Line("table", decl)) = ".rdata"
      /\ Line("section", t.name) \in Lines /\ Line("section", t.name).op \notin Placed
  BY <1>1, SectionLine DEF Line, Lines, SectionFor, Placed
<1>4. stream = asmOut
  <2>1. CASE t.named
    BY <1>1, <2>1, FunctionNamed DEF CacheInv, OutFollows, FunctionStream
  <2>2. CASE ~t.named
    BY <2>2 DEF FunctionStream
  <2> QED BY <2>1, <2>2
<1>5. inSection = rdata => Ends(file, asmOut, ".rdata")
  BY <1>1 DEF CacheInv, CacheRight, Ends, BuiltIn
<1>6. switched \in Files /\ Ends(switched, asmOut, ".rdata") /\ AllRight(switched)
  <2>1. rdata.name = ".rdata"
    BY DEF BuiltIn
  <2> HIDE DEF rdata
  <2> QED BY <1>1, <1>5, <2>1, SwitchType, SwitchEnds, SwitchRight DEF PlaceInv
<1> HIDE DEF switched, code, t, stream, rdata
<1>7. table \in Files /\ AllRight(table)
  BY <1>1, <1>3, <1>6, PutType, PutRight
<1> HIDE DEF table
<1>8. back \in Files /\ AllRight(back) /\ Ends(back, asmOut, t.name)
  BY <1>1, <1>3, <1>4, <1>7, PutType, PutRight, PutSection
<1> HIDE DEF back
<1>9. AllRight(file') /\ Ends(file', asmOut, t.name)
  BY <1>1, <1>2, <1>3, <1>8, PutRight, PutEnds
<1>10. CASE t.named
  <2>1. asmOut = "text"
    BY <1>1, <1>10, FunctionNamed DEF CacheInv, OutFollows, t
  <2> QED BY <1>1, <1>2, <1>9, <1>10, <2>1, NamedFunctionPlace DEF t
<1>11. CASE ~t.named
  BY <1>1, <1>2, <1>9, <1>11, BuiltInOrNamed, BuiltInPlace
<1> QED BY <1>10, <1>11

LEMMA NextPlaceInv == Types /\ CacheInv /\ PlaceInv /\ SeparateSections /\ [Next]_vars => PlaceInv'
<1> SUFFICES ASSUME Types, CacheInv, PlaceInv, SeparateSections, [Next]_vars PROVE PlaceInv'
  OBVIOUS
<1>0. /\ file \in Files /\ CacheRight /\ AllRight(file) /\ StringConstant \subseteq Literal
      /\ pc \notin {"table", "code"} => asmOut = "data"
  BY SourceAssumption DEF Types, TypeOK, CacheInv, OutFollows, PlaceInv, Stream, Files
<1>1. ASSUME NEW l \in Literal, pc # "done", setup' = setup, WriteLiteral(l) PROVE PlaceInv'
  BY <1>0, <1>1, WriteLiteralRight, BuiltInPlace
<1>2. ASSUME NEW l \in StringConstant, OutputConstantDef(l) PROVE PlaceInv'
  BY <1>0, <1>1, <1>2 DEF OutputConstantDef
<1>3. ASSUME NEW e \in ExternDecl, AssembleExternal(e) PROVE PlaceInv'
  BY <1>3, QuietPlace DEF AssembleExternal
<1>4. ASSUME NEW v \in Variable, AssembleCommon(v) PROVE PlaceInv'
  <2> DEFINE line == Line("common", v)
  <2>1. line \in Lines /\ line.op \notin Placed /\ line.op # "section"
    BY DEF Line, Lines, Symbol, Placed
  <2>2. file' = Put(file, "data", line) /\ pc # "done" /\ UNCHANGED <<setup, inSection>>
    BY <1>0, <1>4 DEF AssembleCommon
  <2> HIDE DEF line
  <2> QED BY <1>0, <2>1, <2>2, PlainPlace
<1>5. ASSUME NEW v \in Variable, AssembleVariable(v) PROVE PlaceInv'
  BY <1>5, QuietPlace DEF AssembleVariable
<1>6. CASE OutputAddressed
  <2>1. /\ pc = "variable" /\ todo # <<>> /\ setup' = setup /\ Head(todo) \in Literal
        /\ WriteLiteral(Head(todo)) \/ UNCHANGED <<file, inSection>>
    BY <1>6 DEF OutputAddressed, Types, TypeOK
  <2> QED BY <1>1, <2>1, QuietPlace
<1>7. CASE OutputVariable
  BY <1>7, VariablePlace
<1>8. ASSUME NEW f \in Function, StartFunction(f) PROVE PlaceInv'
  BY <1>8, QuietPlace DEF StartFunction
<1>9. CASE OutputConstantPool
  <2>1. pc = "pool" /\ setup' = setup /\ Head(todo) \in Literal /\ WriteLiteral(Head(todo))
    BY <1>9 DEF OutputConstantPool, Types, TypeOK
  <2> QED BY <1>1, <2>1
<1>10. CASE OutputFunction
  BY <1>10, FunctionPlace
<1>11. CASE OutputJumpTable
  BY <1>11, TablePlace
<1>12. CASE EndFunction
  BY <1>12, QuietPlace DEF EndFunction
<1>13. CASE EndFile
  BY <1>13, QuietPlace DEF EndFile
<1>14. CASE OutputExtern
  <2> DEFINE line == Line("extern", Head(externHead))
  <2>1. /\ pc = "externs" /\ UNCHANGED <<setup, inSection>> /\ Head(externHead) \in Symbol
        /\ file' = Put(file, "data", line) \/ file' = file
    BY <1>0, <1>14 DEF OutputExtern, Types, TypeOK
  <2>2. line \in Lines /\ line.op \notin Placed /\ line.op # "section"
    BY <2>1 DEF Line, Lines, Placed
  <2> HIDE DEF line
  <2> QED BY <1>0, <2>1, <2>2, PlainPlace, QuietPlace
<1>15. CASE AppendText
  <2>1. /\ file["data"] \in Seq(Lines) /\ file["text"] \in Seq(Lines)
        /\ LinesRight(file["data"]) /\ LinesRight(file["text"])
        /\ Line("section", ".text") \in Lines
    BY <1>0 DEF Files, Stream, AllRight, Line, Lines
  <2>2. /\ file'["data"] = file["data"] \o <<Line("section", ".text")>> \o file["text"]
        /\ file'["text"] = file["text"] /\ pc' = "done" /\ setup' = setup
    BY <1>0, <1>15 DEF AppendText, Files, Stream
  <2>3. LinesRight(file'["data"])
    BY <2>1, <2>2, ConcatRight
  <2>4. AllRight(file')
    BY <2>1, <2>2, <2>3 DEF AllRight, Stream
  <2> QED BY <2>2, <2>4, SameSetup DEF PlaceInv, NamedRight
<1>16. CASE UNCHANGED vars
  <2>1. AllRight(file)'
    BY <1>0, <1>16, SameSetup DEF vars
  <2> QED BY <1>16, <2>1 DEF vars, PlaceInv, NamedRight, Ends
<1> QED BY <1>2, <1>3, <1>4, <1>5, <1>6, <1>7, <1>8, <1>9, <1>10, <1>11, <1>12,
           <1>13, <1>14, <1>15, <1>16 DEF Next

-----------------------------------------------------------------------------
(* Every line is assembled in the section it is for, in both streams and   *)
(* in the finished file, with the options and attributes that allow it.    *)
THEOREM EveryLineInItsSection ==
  ASSUME SeparateSections
  PROVE  Spec => []SectionsRight
<1>1. CacheInv /\ Types /\ PlaceInv => SectionsRight
  <2> SUFFICES ASSUME Types, AllRight(file) PROVE SectionsRight
    BY DEF PlaceInv
  <2>1. ASSUME NEW stream \in {"data", "text"}, NEW k \in DOMAIN file[stream],
               file[stream][k].op \in Placed
        PROVE  EndsIn(file[stream], k, SectionFor(file[stream][k]))
    <3>1. DOMAIN file[stream] = 1..Len(file[stream])
      BY DEF Types, TypeOK
    <3> QED BY <2>1, <3>1 DEF AllRight, LinesRight, Stream
  <2>2. CodeInOwnSection
    BY <2>1 DEF CodeInOwnSection, SectionFor, Placed
  <2>3. DataInOwnSection
    BY <2>1 DEF DataInOwnSection, SectionFor, Placed
  <2> QED BY <2>2, <2>3 DEF SectionsRight
<1>2. Spec => []PlaceInv
  BY TypesInvariant, InitCacheInv, NextCacheInv, InitPlaceInv, NextPlaceInv, PTL DEF Spec
<1>3. Spec => []CacheInv
  BY TypesInvariant, InitCacheInv, NextCacheInv, PTL DEF Spec
<1> QED BY <1>1, <1>2, <1>3, TypesInvariant, PTL

-----------------------------------------------------------------------------
(* The finished file.  Code goes to one stream, Target, and the other one  *)
(* is kept free of it.                                                     *)
Target == IF setup.gpOpt THEN "text" ELSE "data"

Only(lines, ops) == \A k \in 1..Len(lines) : lines[k].op \in ops

Objects == {"data", "common", "extern"}
Codes == {"code", "table"}

KindsRight ==
  /\ Only(file["text"], IF setup.gpOpt THEN Codes \cup {"section"} ELSE {"section"})
  /\ setup.gpOpt /\ pc # "done" => Only(file["data"], Objects \cup {"section"})

(* The lines of a symbol: none, or one.                                    *)
IsLineOf(line, x) == line.what = x /\ line.op # "section"
Never(lines, x) == \A k \in 1..Len(lines) : ~IsLineOf(lines[k], x)
Once(lines, x) ==
  \E k \in 1..Len(lines) : \A j \in 1..Len(lines) : IsLineOf(lines[j], x) <=> j = k

Declarable(e) == setup.section[e] \in {NoSection, ".sbss", ".sdata"}

(* TREE_ASM_WRITTEN of a name says whether the file has a line for it; the *)
(* variables written so far have it, but for the one that is being written,*)
(* and the externs that nobody has declared are in extern_head.            *)
SymbolLines ==
  setup.gpOpt =>
    \A x \in Symbol : /\ Never(file["text"], x) \/ pc = "done"
                      /\ x \notin symbolWritten => Never(file["data"], x)
                      /\ x \in symbolWritten => Once(file["data"], x)

SymbolSets ==
  setup.gpOpt =>
    /\ pc \in {"externs", "done"} => written \cap Variable \subseteq symbolWritten
    /\ pc \notin {"externs", "done"} =>
         symbolWritten = (written \cap Variable) \ (IF pc = "variable" THEN {decl} ELSE {})
    /\ \A e \in symbolUsed : Declarable(e) =>
         SymbolOf[e] \in symbolWritten \/ \E i \in 1..Len(externHead) : externHead[i] = SymbolOf[e]
    /\ pc = "done" => externHead = <<>>

(* The lines of a function: none; all from one line on; all between two.   *)
IsOwn(line, f) == line.op \in Codes /\ line.what = f
Free(lines, f) == \A k \in 1..Len(lines) : ~IsOwn(lines[k], f)
Open(lines, f) ==
  \E i \in 1..Len(lines) :
    /\ IsOwn(lines[i], f)
    /\ \A k \in 1..Len(lines) : IsOwn(lines[k], f) <=> k >= i /\ lines[k].op # "section"
Whole(lines, f) ==
  \E i, j \in 1..Len(lines) :
    /\ IsOwn(lines[i], f) /\ IsOwn(lines[j], f)
    /\ \A k \in 1..Len(lines) : IsOwn(lines[k], f) <=> k \in i..j /\ lines[k].op # "section"
Tabled(lines, f) ==
  f \in HasTable => \E k \in 1..Len(lines) : lines[k].op = "table" /\ lines[k].what = f

FreeIn(files, f) == \A stream \in Stream : Free(files[stream], f)
Apart(files, f) == \A stream \in Stream \ {Target} : Free(files[stream], f)
Doing(files, f) == Apart(files, f) /\ Open(files[Target], f)
Complete(files, f) == Apart(files, f) /\ Whole(files[Target], f) /\ Tabled(files[Target], f)
LastOwn(files, f) ==
  Len(files[Target]) # 0 /\ IsOwn(files[Target][Len(files[Target])], f)

(* How far a function is: not begun, begun and at the end of its stream,   *)
(* or complete.                                                            *)
Begun(f) == f \in written /\ ~(pc = "pool" /\ decl = f)
Current(f) == pc \in {"table", "code"} /\ decl = f
FunctionsRight ==
  /\ pc \in {"variable", "pool", "table", "code"} => decl \in written
  /\ pc = "table" => decl \in HasTable
  /\ pc # "done" => \A f \in Function :
       /\ ~Begun(f) => FreeIn(file, f)
       /\ Current(f) => /\ Doing(file, f) /\ LastOwn(file, f)
                        /\ pc = "code" => Tabled(file[Target], f)
       /\ Begun(f) /\ ~Current(f) => Complete(file, f)
  /\ pc = "done" => \A f \in written \cap Function :
       Whole(file["data"], f) /\ Tabled(file["data"], f)

FileInv == KindsRight /\ SymbolLines /\ SymbolSets /\ FunctionsRight


LEMMA AppendIs ==
  ASSUME NEW S, NEW a \in Seq(S), NEW line \in S
  PROVE  /\ Append(a, line) = a \o <<line>> /\ Append(a, line) \in Seq(S)
         /\ Len(Append(a, line)) = Len(a) + 1 /\ Append(a, line)[Len(a) + 1] = line
         /\ \A k \in 1..Len(a) : Append(a, line)[k] = a[k]
OBVIOUS

LEMMA Concat ==
  ASSUME NEW S, NEW a \in Seq(S), NEW b \in Seq(S)
  PROVE  /\ a \o b \in Seq(S) /\ Len(a) \in Nat /\ Len(b) \in Nat
         /\ Len(a \o b) = Len(a) + Len(b)
         /\ \A k \in 1..Len(a) : (a \o b)[k] = a[k]
         /\ \A k \in 1..Len(b) : (a \o b)[Len(a) + k] = b[k]
         /\ \A k \in (Len(a) + 1)..(Len(a) + Len(b)) :
              k - Len(a) \in 1..Len(b) /\ (a \o b)[k] = b[k - Len(a)]
OBVIOUS

-----------------------------------------------------------------------------
(* The lines of a symbol, as streams grow.                                 *)
LEMMA NeverConcat ==
  ASSUME NEW S, NEW a \in Seq(S), NEW b \in Seq(S), NEW x, Never(a, x), Never(b, x)
  PROVE  Never(a \o b, x)
<1> DEFINE all == a \o b
<1>1. /\ Len(a) \in Nat /\ Len(b) \in Nat /\ Len(all) = Len(a) + Len(b)
      /\ \A k \in 1..Len(a) : all[k] = a[k]
      /\ \A k \in (Len(a) + 1)..(Len(a) + Len(b)) : k - Len(a) \in 1..Len(b) /\ all[k] = b[k - Len(a)]
  BY Concat
<1> HIDE DEF all
<1>2. ASSUME NEW k \in 1..Len(all) PROVE ~IsLineOf(all[k], x)
  <2>1. CASE k \in 1..Len(a)
    BY <1>1, <2>1 DEF Never
  <2>2. CASE k \in (Len(a) + 1)..(Len(a) + Len(b))
    BY <1>1, <2>2 DEF Never
  <2> QED BY <1>1, <2>1, <2>2
<1> QED BY <1>2 DEF Never, all

LEMMA OnceConcat ==
  ASSUME NEW S, NEW a \in Seq(S), NEW b \in Seq(S), NEW x, Once(a, x), Never(b, x)
  PROVE  Once(a \o b, x)
<1> DEFINE all == a \o b
<1>1. /\ Len(a) \in Nat /\ Len(b) \in Nat /\ Len(all) = Len(a) + Len(b)
      /\ \A k \in 1..Len(a) : all[k] = a[k]
      /\ \A k \in (Len(a) + 1)..(Len(a) + Len(b)) : k - Len(a) \in 1..Len(b) /\ all[k] = b[k - Len(a)]
  BY Concat
<1> HIDE DEF all
<1>2. PICK k \in 1..Len(a) : \A j \in 1..Len(a) : IsLineOf(a[j], x) <=> j = k
  BY DEF Once
<1>3. ASSUME NEW j \in 1..Len(all) PROVE IsLineOf(all[j], x) <=> j = k
  <2>1. CASE j \in 1..Len(a)
    BY <1>1, <1>2, <2>1
  <2>2. CASE j \in (Len(a) + 1)..(Len(a) + Len(b))
    <3>1. ~IsLineOf(all[j], x)
      BY <1>1, <2>2 DEF Never
    <3> QED BY <1>1, <1>2, <2>2, <3>1
  <2> QED BY <1>1, <2>1, <2>2
<1>4. k \in 1..Len(all)
  BY <1>1, <1>2
<1> QED BY <1>3, <1>4 DEF Once, all

LEMMA NeverAppend ==
  ASSUME NEW S, NEW a \in Seq(S), NEW line \in S, NEW x, ~IsLineOf(line, x)
  PROVE  /\ Never(a, x) => Never(Append(a, line), x)
         /\ Once(a, x) => Once(Append(a, line), x)
<1>1. <<line>> \in Seq(S) /\ Never(<<line>>, x) /\ Append(a, line) = a \o <<line>>
  BY AppendIs DEF Never
<1>2. ASSUME Never(a, x) PROVE Never(a \o <<line>>, x)
  BY <1>1, <1>2, NeverConcat
<1>3. ASSUME Once(a, x) PROVE Once(a \o <<line>>, x)
  BY <1>1, <1>3, OnceConcat
<1> QED BY <1>1, <1>2, <1>3

LEMMA FirstAppend ==
  ASSUME NEW S, NEW a \in Seq(S), NEW line \in S, NEW x, IsLineOf(line, x), Never(a, x)
  PROVE  Once(Append(a, line), x)
<1> DEFINE all == Append(a, line)
           n == Len(a) + 1
<1>1. Len(a) \in Nat /\ Len(all) = n /\ all[n] = line /\ \A k \in 1..Len(a) : all[k] = a[k]
  BY AppendIs
<1> HIDE DEF all
<1>2. n \in 1..Len(all) /\ \A j \in 1..Len(all) : IsLineOf(all[j], x) <=> j = n
  BY <1>1 DEF Never
<1> QED BY <1>2 DEF Once, all

-----------------------------------------------------------------------------
(* The lines of a function, as streams grow.                               *)
LEMMA FreeConcat ==
  ASSUME NEW S, NEW a \in Seq(S), NEW b \in Seq(S), NEW f, Free(a, f), Free(b, f)
  PROVE  Free(a \o b, f)
<1> DEFINE all == a \o b
<1>1. /\ Len(a) \in Nat /\ Len(b) \in Nat /\ Len(all) = Len(a) + Len(b)
      /\ \A k \in 1..Len(a) : all[k] = a[k]
      /\ \A k \in (Len(a) + 1)..(Len(a) + Len(b)) : k - Len(a) \in 1..Len(b) /\ all[k] = b[k - Len(a)]
  BY Concat
<1> HIDE DEF all
<1>2. ASSUME NEW k \in 1..Len(all) PROVE ~IsOwn(all[k], f)
  <2>1. CASE k \in 1..Len(a)
    BY <1>1, <2>1 DEF Free
  <2>2. CASE k \in (Len(a) + 1)..(Len(a) + Len(b))
    BY <1>1, <2>2 DEF Free
  <2> QED BY <1>1, <2>1, <2>2
<1> QED BY <1>2 DEF Free, all

LEMMA WholeBefore ==
  ASSUME NEW S, NEW a \in Seq(S), NEW b \in Seq(S), NEW f, Whole(a, f), Free(b, f)
  PROVE  Whole(a \o b, f)
<1> DEFINE all == a \o b
<1>1. /\ Len(a) \in Nat /\ Len(b) \in Nat /\ Len(all) = Len(a) + Len(b)
      /\ \A k \in 1..Len(a) : all[k] = a[k]
      /\ \A k \in (Len(a) + 1)..(Len(a) + Len(b)) : k - Len(a) \in 1..Len(b) /\ all[k] = b[k - Len(a)]
  BY Concat
<1> HIDE DEF all
<1>2. PICK i \in 1..Len(a), j \in 1..Len(a) :
        /\ IsOwn(a[i], f) /\ IsOwn(a[j], f)
        /\ \A k \in 1..Len(a) : IsOwn(a[k], f) <=> k \in i..j /\ a[k].op # "section"
  BY DEF Whole
<1>3. ASSUME NEW k \in 1..Len(all)
      PROVE  IsOwn(all[k], f) <=> k \in i..j /\ all[k].op # "section"
  <2>1. CASE k \in 1..Len(a)
    BY <1>1, <1>2, <2>1
  <2>2. CASE k \in (Len(a) + 1)..(Len(a) + Len(b))
    <3>1. ~IsOwn(all[k], f)
      BY <1>1, <2>2 DEF Free
    <3>2. k \notin i..j
      BY <1>1, <1>2, <2>2
    <3> QED BY <3>1, <3>2
  <2> QED BY <1>1, <2>1, <2>2
<1>4. i \in 1..Len(all) /\ j \in 1..Len(all) /\ IsOwn(all[i], f) /\ IsOwn(all[j], f)
  BY <1>1, <1>2
<1> QED BY <1>3, <1>4 DEF Whole, all

LEMMA WholeBehind ==
  ASSUME NEW S, NEW a \in Seq(S), NEW b \in Seq(S), NEW f, Free(a, f), Whole(b, f)
  PROVE  Whole(a \o b, f)
<1> DEFINE all == a \o b
           n == Len(a)
<1>1. /\ n \in Nat /\ Len(b) \in Nat /\ Len(all) = n + Len(b)
      /\ \A k \in 1..n : all[k] = a[k]
      /\ \A k \in 1..Len(b) : all[n + k] = b[k]
      /\ \A k \in (n + 1)..(n + Len(b)) : k - n \in 1..Len(b) /\ all[k] = b[k - n]
  BY Concat
<1> HIDE DEF all
<1>2. PICK i \in 1..Len(b), j \in 1..Len(b) :
        /\ IsOwn(b[i], f) /\ IsOwn(b[j], f)
        /\ \A k \in 1..Len(b) : IsOwn(b[k], f) <=> k \in i..j /\ b[k].op # "section"
  BY DEF Whole
<1>3. ASSUME NEW k \in 1..Len(all)
      PROVE  IsOwn(all[k], f) <=> k \in (n + i)..(n + j) /\ all[k].op # "section"
  <2>1. CASE k \in 1..n
    <3>1. ~IsOwn(all[k], f)
      BY <1>1, <2>1 DEF Free, n
    <3>2. k \notin (n + i)..(n + j)
      BY <1>1, <1>2, <2>1
    <3> QED BY <3>1, <3>2
  <2>2. CASE k \in (n + 1)..(n + Len(b))
    <3>1. k - n \in 1..Len(b) /\ all[k] = b[k - n]
      BY <1>1, <2>2
    <3>2. IsOwn(b[k - n], f) <=> k - n \in i..j /\ b[k - n].op # "section"
      BY <1>2, <3>1
    <3>3. k - n \in i..j <=> k \in (n + i)..(n + j)
      BY <1>1, <1>2, <2>2
    <3> QED BY <3>1, <3>2, <3>3
  <2> QED BY <1>1, <2>1, <2>2
<1>4. /\ n + i \in 1..Len(all) /\ n + j \in 1..Len(all)
      /\ IsOwn(all[n + i], f) /\ IsOwn(all[n + j], f)
  BY <1>1, <1>2
<1> HIDE DEF n
<1> QED BY <1>3, <1>4 DEF Whole, all

LEMMA TabledConcat ==
  ASSUME NEW S, NEW a \in Seq(S), NEW b \in Seq(S), NEW f, Tabled(a, f) \/ Tabled(b, f)
  PROVE  Tabled(a \o b, f)
<1> DEFINE all == a \o b
           n == Len(a)
<1>1. /\ n \in Nat /\ Len(b) \in Nat /\ Len(all) = n + Len(b)
      /\ \A k \in 1..n : all[k] = a[k]
      /\ \A k \in 1..Len(b) : all[n + k] = b[k]
  BY Concat
<1> HIDE DEF all
<1> SUFFICES ASSUME f \in HasTable
             PROVE  \E k \in 1..Len(all) : all[k].op = "table" /\ all[k].what = f
  BY DEF Tabled, all
<1>2. ASSUME NEW k \in 1..n, a[k].op = "table", a[k].what = f
      PROVE  \E m \in 1..Len(all) : all[m].op = "table" /\ all[m].what = f
  <2>1. k \in 1..Len(all) /\ all[k] = a[k]
    BY <1>1
  <2> QED BY <1>2, <2>1
<1>3. ASSUME NEW k \in 1..Len(b), b[k].op = "table", b[k].what = f
      PROVE  \E m \in 1..Len(all) : all[m].op = "table" /\ all[m].what = f
  <2>1. n + k \in 1..Len(all) /\ all[n + k] = b[k]
    BY <1>1
  <2> QED BY <1>3, <2>1
<1> QED BY <1>2, <1>3 DEF Tabled

LEMMA OpenAppend ==
  ASSUME NEW S, NEW a \in Seq(S), NEW line \in S, NEW f,
         \/ IsOwn(line, f) /\ Free(a, f)
         \/ IsOwn(line, f) /\ Open(a, f)
         \/ line.op = "section" /\ Open(a, f)
  PROVE  Open(Append(a, line), f)
<1> DEFINE all == Append(a, line)
           n == Len(a) + 1
<1>1. Len(a) \in Nat /\ Len(all) = n /\ all[n] = line /\ \A k \in 1..Len(a) : all[k] = a[k]
  BY AppendIs
<1> HIDE DEF all
<1>2. "section" \notin Codes
  BY DEF Codes
<1>3. CASE IsOwn(line, f) /\ Free(a, f)
  <2>1. n \in 1..Len(all) /\ IsOwn(all[n], f)
    BY <1>1, <1>3
  <2>2. ASSUME NEW k \in 1..Len(all)
        PROVE  IsOwn(all[k], f) <=> k >= n /\ all[k].op # "section"
    <3>1. CASE k = n
      BY <1>1, <1>2, <1>3, <3>1 DEF IsOwn
    <3>2. CASE k # n
      <4>1. k \in 1..Len(a) /\ ~IsOwn(a[k], f)
        BY <1>1, <1>3, <3>2 DEF Free
      <4> QED BY <1>1, <4>1
    <3> QED BY <3>1, <3>2
  <2> HIDE DEF n
  <2> QED BY <2>1, <2>2 DEF Open, all
<1>4. CASE Open(a, f) /\ (IsOwn(line, f) \/ line.op = "section")
  <2>1. PICK i \in 1..Len(a) :
          /\ IsOwn(a[i], f)
          /\ \A k \in 1..Len(a) : IsOwn(a[k], f) <=> k >= i /\ a[k].op # "section"
    BY <1>4 DEF Open
  <2>2. i \in 1..Len(all) /\ IsOwn(all[i], f)
    BY <1>1, <2>1
  <2>3. ASSUME NEW k \in 1..Len(all)
        PROVE  IsOwn(all[k], f) <=> k >= i /\ all[k].op # "section"
    <3>1. CASE k = n
      <4>1. IsOwn(line, f) <=> line.op # "section"
        BY <1>2, <1>4 DEF IsOwn
      <4> QED BY <1>1, <2>1, <3>1, <4>1
    <3>2. CASE k # n
      <4>1. k \in 1..Len(a)
        BY <1>1, <3>2
      <4> QED BY <1>1, <2>1, <4>1
    <3> QED BY <3>1, <3>2
  <2> QED BY <2>2, <2>3 DEF Open, all
<1> QED BY <1>3, <1>4

LEMMA OpenWhole ==
  ASSUME NEW S, NEW a \in Seq(S), NEW f, Open(a, f), Len(a) # 0, IsOwn(a[Len(a)], f)
  PROVE  Whole(a, f)
<1>1. PICK i \in 1..Len(a) :
        /\ IsOwn(a[i], f)
        /\ \A k \in 1..Len(a) : IsOwn(a[k], f) <=> k >= i /\ a[k].op # "section"
  BY DEF Open
<1>2. Len(a) \in 1..Len(a) /\ \A k \in 1..Len(a) : k >= i <=> k \in i..Len(a)
  <2>1. Len(a) \in Nat
    OBVIOUS
  <2> QED BY <1>1, <2>1
<1> QED BY <1>1, <1>2 DEF Whole


-----------------------------------------------------------------------------
(* The same for one line put into a stream.                                *)
LEMMA OneLine ==
  ASSUME NEW line, NEW x
  PROVE  /\ ~IsLineOf(line, x) => Never(<<line>>, x)
         /\ ~IsOwn(line, x) => Free(<<line>>, x)
BY DEF Never, Free

LEMMA OnlyConcat ==
  ASSUME NEW S, NEW a \in Seq(S), NEW b \in Seq(S), NEW ops, Only(a, ops), Only(b, ops)
  PROVE  Only(a \o b, ops)
<1> DEFINE all == a \o b
<1>1. /\ Len(a) \in Nat /\ Len(b) \in Nat /\ Len(all) = Len(a) + Len(b)
      /\ \A k \in 1..Len(a) : all[k] = a[k]
      /\ \A k \in (Len(a) + 1)..(Len(a) + Len(b)) : k - Len(a) \in 1..Len(b) /\ all[k] = b[k - Len(a)]
  BY Concat
<1> HIDE DEF all
<1>2. ASSUME NEW k \in 1..Len(all) PROVE all[k].op \in ops
  <2>1. CASE k \in 1..Len(a)
    BY <1>1, <2>1 DEF Only
  <2>2. CASE k \in (Len(a) + 1)..(Len(a) + Len(b))
    BY <1>1, <2>2 DEF Only
  <2> QED BY <1>1, <2>1, <2>2
<1> QED BY <1>2 DEF Only, all

LEMMA PutConcat ==
  ASSUME NEW files \in Files, NEW stream \in Stream, NEW line \in Lines
  PROVE  /\ files[stream] \in Seq(Lines) /\ <<line>> \in Seq(Lines)
         /\ Put(files, stream, line)[stream] = files[stream] \o <<line>>
         /\ \A other \in Stream \ {stream} : Put(files, stream, line)[other] = files[other]
<1>1. files[stream] \in Seq(Lines)
  BY DEF Files
<1>2. Put(files, stream, line)[stream] = Append(files[stream], line)
  BY PutType
<1>3. Append(files[stream], line) = files[stream] \o <<line>>
  BY <1>1, AppendIs
<1> QED BY <1>1, <1>2, <1>3, PutType

LEMMA PutOnly ==
  ASSUME NEW files \in Files, NEW stream \in Stream, NEW line \in Lines, NEW s \in Stream,
         NEW ops, Only(files[s], ops), s = stream => line.op \in ops
  PROVE  Only(Put(files, stream, line)[s], ops)
<1>1. CASE s # stream
  BY <1>1, PutType
<1>2. CASE s = stream
  <2>1. files[stream] \in Seq(Lines) /\ <<line>> \in Seq(Lines)
    BY DEF Files
  <2>2. Only(<<line>>, ops)
    BY <1>2 DEF Only
  <2>3. Only(files[stream] \o <<line>>, ops)
    BY <1>2, <2>1, <2>2, OnlyConcat
  <2>4. Put(files, stream, line)[stream] = files[stream] \o <<line>>
    BY PutConcat
  <2> QED BY <1>2, <2>3, <2>4
<1> QED BY <1>1, <1>2

(* A line that is not one of symbol x.                                     *)
LEMMA PutForeign ==
  ASSUME NEW files \in Files, NEW stream \in Stream, NEW line \in Lines, NEW s \in Stream,
         NEW x, ~IsLineOf(line, x)
  PROVE  /\ Never(files[s], x) => Never(Put(files, stream, line)[s], x)
         /\ Once(files[s], x) => Once(Put(files, stream, line)[s], x)
<1>1. CASE s # stream
  BY <1>1, PutType
<1>2. CASE s = stream
  <2>1. files[stream] \in Seq(Lines)
    BY DEF Files
  <2>2. Put(files, stream, line)[stream] = Append(files[stream], line)
    BY PutType
  <2> QED BY <1>2, <2>1, <2>2, NeverAppend
<1> QED BY <1>1, <1>2

LEMMA PutFirst ==
  ASSUME NEW files \in Files, NEW stream \in Stream, NEW line \in Lines,
         NEW x, IsLineOf(line, x), Never(files[stream], x)
  PROVE  Once(Put(files, stream, line)[stream], x)
<1>1. files[stream] \in Seq(Lines)
  BY DEF Files
<1>2. Put(files, stream, line)[stream] = Append(files[stream], line)
  BY PutType
<1> QED BY <1>1, <1>2, FirstAppend

(* A line that is not one of function f.                                   *)
LEMMA PutKeeps ==
  ASSUME NEW files \in Files, NEW stream \in Stream, NEW line \in Lines, NEW f, ~IsOwn(line, f)
  PROVE  /\ FreeIn(files, f) => FreeIn(Put(files, stream, line), f)
         /\ Apart(files, f) => Apart(Put(files, stream, line), f)
         /\ Complete(files, f) => Complete(Put(files, stream, line), f)
         /\ \A s \in Stream : Tabled(files[s], f) => Tabled(Put(files, stream, line)[s], f)
<1> DEFINE new == Put(files, stream, line)
<1>1. files[stream] \in Seq(Lines) /\ <<line>> \in Seq(Lines) /\ Free(<<line>>, f)
  BY OneLine, PutConcat
<1>2. /\ new[stream] = files[stream] \o <<line>>
      /\ \A other \in Stream \ {stream} : new[other] = files[other]
  BY PutConcat
<1> HIDE DEF new
<1>3. ASSUME NEW s \in Stream, Free(files[s], f) PROVE Free(new[s], f)
  BY <1>1, <1>2, <1>3, FreeConcat
<1>4. ASSUME NEW s \in Stream, Whole(files[s], f) PROVE Whole(new[s], f)
  BY <1>1, <1>2, <1>4, WholeBefore
<1>5. ASSUME NEW s \in Stream, Tabled(files[s], f) PROVE Tabled(new[s], f)
  <2>1. CASE s = stream
    <3>1. Tabled(files[stream], f)
      BY <1>5, <2>1
    <3>2. Tabled(files[stream] \o <<line>>, f)
      BY <1>1, <3>1, TabledConcat
    <3> QED BY <1>2, <2>1, <3>2
  <2>2. CASE s # stream
    BY <1>2, <1>5, <2>2
  <2> QED BY <2>1, <2>2
<1>6. Target \in Stream
  BY DEF Target, Stream
<1> QED BY <1>3, <1>4, <1>5, <1>6 DEF FreeIn, Apart, Complete, new

(* A section line, or one more line of the function itself.                *)
LEMMA PutSectionDoing ==
  ASSUME NEW files \in Files, NEW stream \in Stream, NEW line \in Lines, NEW f,
         line.op = "section", Doing(files, f)
  PROVE  Doing(Put(files, stream, line), f)
<1>1. ~IsOwn(line, f)
  BY DEF IsOwn, Codes
<1>2. Apart(Put(files, stream, line), f)
  BY <1>1, PutKeeps DEF Doing
<1>3. Target \in Stream /\ files[Target] \in Seq(Lines)
  BY DEF Target, Stream, Files
<1>4. Open(Put(files, stream, line)[Target], f)
  <2>1. CASE stream # Target
    BY <1>3, <2>1, PutType DEF Doing
  <2>2. CASE stream = Target
    <3>1. Put(files, stream, line)[Target] = Append(files[Target], line)
      BY <1>3, <2>2, PutType
    <3> QED BY <1>3, <3>1, OpenAppend DEF Doing
  <2> QED BY <2>1, <2>2
<1> QED BY <1>2, <1>4 DEF Doing

LEMMA PutOwn ==
  ASSUME NEW files \in Files, NEW line \in Lines, NEW f, IsOwn(line, f),
         FreeIn(files, f) \/ Doing(files, f)
  PROVE  /\ Doing(Put(files, Target, line), f) /\ LastOwn(Put(files, Target, line), f)
         /\ line.op = "table" \/ Tabled(files[Target], f) => Tabled(Put(files, Target, line)[Target], f)
<1> DEFINE new == Put(files, Target, line)
<1>1. Target \in Stream /\ files[Target] \in Seq(Lines) /\ <<line>> \in Seq(Lines)
  BY DEF Target, Stream, Files
<1>2. /\ new[Target] = Append(files[Target], line)
      /\ \A other \in Stream \ {Target} : new[other] = files[other]
  BY <1>1, PutType
<1>3. Apart(files, f)
  BY DEF FreeIn, Apart, Doing
<1> HIDE DEF new
<1>4. Apart(new, f)
  BY <1>2, <1>3 DEF Apart
<1>5. Open(new[Target], f)
  BY <1>1, <1>2, OpenAppend DEF FreeIn, Doing
<1>6. LastOwn(new, f)
  <2>1. Len(new[Target]) = Len(files[Target]) + 1 /\ new[Target][Len(files[Target]) + 1] = line
        /\ Len(files[Target]) \in Nat
    BY <1>1, <1>2, AppendIs
  <2> QED BY <2>1 DEF LastOwn
<1>7. ASSUME line.op = "table" PROVE Tabled(<<line>>, f)
  BY <1>7 DEF Tabled, IsOwn
<1>8. ASSUME line.op = "table" \/ Tabled(files[Target], f) PROVE Tabled(new[Target], f)
  <2>1. new[Target] = files[Target] \o <<line>>
    BY <1>1, PutConcat DEF new
  <2> QED BY <1>1, <1>7, <1>8, <2>1, TabledConcat
<1> QED BY <1>4, <1>5, <1>6, <1>8 DEF Doing, new


LEMMA SwitchOnly ==
  ASSUME NEW files \in Files, NEW stream \in Stream, NEW s \in Sections, NEW other \in Stream,
         NEW ops, Only(files[other], ops), other = stream => "section" \in ops
  PROVE  Only(SwitchIn(files, stream, s)[other], ops)
<1>1. Line("section", s.name) \in Lines /\ Line("section", s.name).op = "section"
  BY SectionLine DEF Line
<1> QED BY <1>1, PutOnly DEF SwitchIn

(* Grows(a, b, g): b is a with section lines, and lines of function g.     *)
Grows(a, b, g) ==
  /\ b \in Files
  /\ \A s \in Stream : \A x \in Symbol : /\ Never(a[s], x) => Never(b[s], x)
                                         /\ Once(a[s], x) => Once(b[s], x)
  /\ \A f \in Function \ {g} : /\ FreeIn(a, f) => FreeIn(b, f)
                               /\ Complete(a, f) => Complete(b, f)

LEMMA GrowsOn ==
  ASSUME NEW a, NEW b, NEW c, NEW g, Grows(a, b, g), Grows(b, c, g)
  PROVE  Grows(a, c, g)
BY DEF Grows

LEMMA PutGrows ==
  ASSUME NEW files \in Files, NEW stream \in Stream, NEW line \in Lines, NEW g \in Function,
         line.op = "section" \/ IsOwn(line, g)
  PROVE  Grows(files, Put(files, stream, line), g)
<1>1. \A x \in Symbol : ~IsLineOf(line, x)
  BY SourceAssumption DEF IsLineOf, IsOwn
<1>2. \A f \in Function \ {g} : ~IsOwn(line, f)
  BY DEF IsOwn, Codes
<1>3. Put(files, stream, line) \in Files
  BY PutType
<1>4. ASSUME NEW s \in Stream, NEW x \in Symbol
      PROVE  /\ Never(files[s], x) => Never(Put(files, stream, line)[s], x)
             /\ Once(files[s], x) => Once(Put(files, stream, line)[s], x)
  BY <1>1, PutForeign
<1>5. ASSUME NEW f \in Function \ {g}
      PROVE  /\ FreeIn(files, f) => FreeIn(Put(files, stream, line), f)
             /\ Complete(files, f) => Complete(Put(files, stream, line), f)
  BY <1>2, PutKeeps
<1> QED BY <1>3, <1>4, <1>5 DEF Grows

LEMMA SwitchGrows ==
  ASSUME NEW files \in Files, NEW stream \in Stream, NEW s \in Sections, NEW g \in Function
  PROVE  /\ Grows(files, SwitchIn(files, stream, s), g)
         /\ FreeIn(files, g) => FreeIn(SwitchIn(files, stream, s), g)
         /\ Doing(files, g) => Doing(SwitchIn(files, stream, s), g)
<1> DEFINE line == Line("section", s.name)
<1>1. line \in Lines /\ line.op = "section"
  BY SectionLine DEF Line
<1>2. ~IsOwn(line, g)
  BY <1>1 DEF IsOwn, Codes
<1>3. Grows(files, files, g)
  BY DEF Grows
<1> HIDE DEF line
<1>4. /\ Grows(files, Put(files, stream, line), g)
      /\ FreeIn(files, g) => FreeIn(Put(files, stream, line), g)
      /\ Doing(files, g) => Doing(Put(files, stream, line), g)
  BY <1>1, <1>2, PutGrows, PutKeeps, PutSectionDoing
<1> QED BY <1>3, <1>4 DEF SwitchIn, line

(* A step that writes one object, extern or literal, after a directive if  *)
(* that is needed.                                                         *)
DataLine(line) ==
  \/ file' = Put(file, "data", line)
  \/ \E s \in Sections : file' = Put(SwitchIn(file, "data", s), "data", line)

LEMMA DataLineAdds ==
  ASSUME file \in Files, NEW line \in Lines, line.op \in Objects, DataLine(line)
  PROVE  /\ file'["text"] = file["text"]
         /\ Only(file["data"], Objects \cup {"section"}) => Only(file'["data"], Objects \cup {"section"})
         /\ \A x \in Symbol : /\ ~IsLineOf(line, x) /\ Never(file["data"], x) => Never(file'["data"], x)
                              /\ ~IsLineOf(line, x) /\ Once(file["data"], x) => Once(file'["data"], x)
                              /\ IsLineOf(line, x) /\ Never(file["data"], x) => Once(file'["data"], x)
         /\ \A f \in Function : /\ FreeIn(file, f) => FreeIn(file', f)
                                /\ Complete(file, f) => Complete(file', f)
<1>0. /\ "data" \in Stream /\ "text" \in Stream \ {"data"} /\ "section" \in Objects \cup {"section"}
      /\ line.op \in Objects \cup {"section"} /\ \A f \in Function : ~IsOwn(line, f)
  BY DEF Stream, IsOwn, Codes, Objects
<1>1. PICK mid \in Files :
        /\ file' = Put(mid, "data", line) /\ mid["text"] = file["text"]
        /\ Only(file["data"], Objects \cup {"section"}) => Only(mid["data"], Objects \cup {"section"})
        /\ \A x \in Symbol : /\ Never(file["data"], x) => Never(mid["data"], x)
                             /\ Once(file["data"], x) => Once(mid["data"], x)
        /\ \A f \in Function : /\ FreeIn(file, f) => FreeIn(mid, f)
                               /\ Complete(file, f) => Complete(mid, f)
  <2>1. CASE file' = Put(file, "data", line)
    BY <2>1
  <2>2. ASSUME NEW s \in Sections, file' = Put(SwitchIn(file, "data", s), "data", line)
        PROVE  \E mid \in Files :
                 /\ file' = Put(mid, "data", line) /\ mid["text"] = file["text"]
                 /\ Only(file["data"], Objects \cup {"section"}) => Only(mid["data"], Objects \cup {"section"})
                 /\ \A x \in Symbol : /\ Never(file["data"], x) => Never(mid["data"], x)
                                      /\ Once(file["data"], x) => Once(mid["data"], x)
                 /\ \A f \in Function : /\ FreeIn(file, f) => FreeIn(mid, f)
                                        /\ Complete(file, f) => Complete(mid, f)
    <3> DEFINE mid == SwitchIn(file, "data", s)
               directive == Line("section", s.name)
    <3>1. mid \in Files /\ mid["text"] = file["text"]
      BY <1>0, SwitchType
    <3>2. Only(file["data"], Objects \cup {"section"}) => Only(mid["data"], Objects \cup {"section"})
      BY <1>0, SwitchOnly
    <3>3. /\ directive \in Lines /\ \A x \in Symbol : ~IsLineOf(directive, x)
          /\ \A f \in Function : ~IsOwn(directive, f)
          /\ mid = file \/ mid = Put(file, "data", directive)
      BY SectionLine DEF IsLineOf, IsOwn, Codes, Line, SwitchIn
    <3> HIDE DEF mid, directive
    <3>4. ASSUME NEW x \in Symbol
          PROVE  /\ Never(file["data"], x) => Never(mid["data"], x)
                 /\ Once(file["data"], x) => Once(mid["data"], x)
      BY <1>0, <3>3, PutForeign
    <3>5. ASSUME NEW f \in Function
          PROVE  FreeIn(file, f) => FreeIn(mid, f)
      BY <1>0, <3>3, PutKeeps
    <3>6. ASSUME NEW f \in Function
          PROVE  Complete(file, f) => Complete(mid, f)
      BY <1>0, <3>3, PutKeeps
    <3> QED BY <2>2, <3>1, <3>2, <3>4, <3>5, <3>6 DEF mid
  <2> QED BY <2>1, <2>2 DEF DataLine
<1>2. file'["text"] = file["text"]
  BY <1>0, <1>1, PutType
<1>3. Only(file["data"], Objects \cup {"section"}) => Only(file'["data"], Objects \cup {"section"})
  BY <1>0, <1>1, PutOnly
<1>4. ASSUME NEW x \in Symbol, ~IsLineOf(line, x)
      PROVE  /\ Never(file["data"], x) => Never(file'["data"], x)
             /\ Once(file["data"], x) => Once(file'["data"], x)
  BY <1>0, <1>1, <1>4, PutForeign
<1>5. ASSUME NEW x \in Symbol, IsLineOf(line, x), Never(file["data"], x)
      PROVE  Once(file'["data"], x)
  BY <1>0, <1>1, <1>5, PutFirst
<1>6. ASSUME NEW f \in Function
      PROVE  /\ FreeIn(file, f) => FreeIn(file', f)
             /\ Complete(file, f) => Complete(file', f)
  BY <1>0, <1>1, PutKeeps
<1> QED BY <1>2, <1>3, <1>4, <1>5, <1>6


(* ASM_DECLARE_FUNCTION_NAME moves to the stream for code before the first *)
(* line of the function.                                                   *)
LEMMA FunctionGrows ==
  ASSUME Types, OutFollows, KindsRight, OutputFunction
  PROVE  /\ Grows(file, file', decl) /\ KindsRight'
         /\ FreeIn(file, decl) => Doing(file', decl) /\ LastOwn(file', decl)
<1> DEFINE t == FunctionSection(decl)
           stream == FunctionStream(decl)
           selected == SwitchIn(file, stream, t)
           declared == DeclareFunctionName(selected, decl)
           code == Line("code", decl)
           directive == Line("section", ".text")
           textOps == IF setup.gpOpt THEN Codes \cup {"section"} ELSE {"section"}
           dataOps == Objects \cup {"section"}
<1>1. /\ file \in Files /\ setup \in Setup /\ pc = "pool" /\ decl \in Function
      /\ asmOut = "data" /\ t \in Sections
  BY SectionTypes DEF Types, TypeOK, DeclFollows, OutFollows, OutputFunction, Files, Stream
<1>2. /\ asmOut' = Target /\ file' = Put(declared, Target, code) /\ setup' = setup
      /\ pc' # "done"
  BY <1>1 DEF OutputFunction, Target
<1>3. /\ code \in Lines /\ IsOwn(code, decl) /\ code.op \in Codes
      /\ directive \in Lines /\ directive.op = "section" /\ ~IsOwn(directive, decl)
  BY <1>1 DEF Line, Lines, IsOwn, Codes
<1>4. /\ stream \in Stream /\ Target \in Stream /\ "text" \in Stream /\ "data" \in Stream
      /\ "section" \in textOps /\ "section" \in dataOps
  BY <1>1 DEF FunctionStream, Stream, Target
<1>5. /\ Only(file["text"], textOps)
      /\ setup.gpOpt => Only(file["data"], dataOps)
  BY <1>1 DEF KindsRight
<1> HIDE DEF t, stream, code, directive, textOps, dataOps
<1>6. /\ Grows(file, selected, decl) /\ selected \in Files
      /\ FreeIn(file, decl) => FreeIn(selected, decl)
      /\ Only(selected["text"], textOps)
      /\ setup.gpOpt => Only(selected["data"], dataOps)
  <2>1. Grows(file, selected, decl) /\ (FreeIn(file, decl) => FreeIn(selected, decl))
    BY <1>1, <1>4, SwitchGrows
  <2>2. selected \in Files
    BY <2>1 DEF Grows
  <2>3. Only(selected["text"], textOps) /\ (setup.gpOpt => Only(selected["data"], dataOps))
    <3>1. Only(selected["text"], textOps)
      BY <1>1, <1>4, <1>5, SwitchOnly
    <3>2. ASSUME setup.gpOpt PROVE Only(selected["data"], dataOps)
      BY <1>1, <1>4, <1>5, SwitchOnly, <3>2
    <3> QED BY <3>1, <3>2
  <2> QED BY <2>1, <2>2, <2>3
<1> HIDE DEF selected
<1>7. declared = selected \/ declared = Put(selected, "text", directive)
  BY DEF DeclareFunctionName, directive
<1> HIDE DEF declared
<1>8. /\ Grows(file, declared, decl) /\ declared \in Files
      /\ FreeIn(file, decl) => FreeIn(declared, decl)
      /\ Only(declared["text"], textOps)
      /\ setup.gpOpt => Only(declared["data"], dataOps)
  <2>1. CASE declared = selected
    BY <1>6, <2>1
  <2>2. CASE declared = Put(selected, "text", directive)
    <3>1. Grows(selected, declared, decl)
      BY <1>1, <1>3, <1>4, <1>6, <2>2, PutGrows
    <3>2. Grows(file, declared, decl)
      BY <1>6, <3>1, GrowsOn
    <3>3. FreeIn(selected, decl) => FreeIn(declared, decl)
      BY <1>3, <1>4, <1>6, <2>2, PutKeeps
    <3>4. Only(declared["text"], textOps) /\ (setup.gpOpt => Only(declared["data"], dataOps))
      <4>1. Only(declared["text"], textOps)
        BY <1>3, <1>4, <1>6, <2>2, PutOnly
      <4>2. ASSUME setup.gpOpt PROVE Only(declared["data"], dataOps)
        BY <1>3, <1>4, <1>6, <2>2, PutOnly, <4>2
      <4> QED BY <4>1, <4>2
    <3> QED BY <1>6, <3>1, <3>2, <3>3, <3>4 DEF Grows
  <2> QED BY <1>7, <2>1, <2>2
<1>9. Grows(file, file', decl)
  <2>1. Grows(declared, file', decl)
    BY <1>1, <1>2, <1>3, <1>4, <1>8, PutGrows
  <2> QED BY <1>8, <2>1, GrowsOn
<1>10. FreeIn(file, decl) => Doing(file', decl) /\ LastOwn(file', decl)
  BY <1>2, <1>3, <1>8, PutOwn
<1>11. Only(file'["text"], textOps) /\ (setup.gpOpt => Only(file'["data"], dataOps))
  <2>1. Target = "text" => code.op \in textOps
    BY <1>3 DEF Target, textOps
  <2>2. setup.gpOpt => Target # "data"
    BY DEF Target
  <2>3. Only(file'["text"], textOps)
    BY <1>2, <1>3, <1>4, <1>8, <2>1, PutOnly
  <2>4. ASSUME setup.gpOpt PROVE Only(file'["data"], dataOps)
    BY <1>2, <1>3, <1>4, <1>8, <2>2, <2>4, PutOnly
  <2> QED BY <2>3, <2>4
<1>12. KindsRight'
  BY <1>2, <1>11 DEF KindsRight, textOps, dataOps
<1> QED BY <1>9, <1>10, <1>12

LEMMA TableGrows ==
  ASSUME Types, OutFollows, KindsRight, OutputJumpTable
  PROVE  /\ Grows(file, file', decl) /\ KindsRight'
         /\ Doing(file, decl) => /\ Doing(file', decl) /\ LastOwn(file', decl)
                                 /\ Tabled(file'[Target], decl)
<1> DEFINE t == FunctionSection(decl)
           stream == FunctionStream(decl)
           switched == SwitchIn(file, asmOut, BuiltIn(".rdata"))
           row == Line("table", decl)
           table == Put(switched, Target, row)
           directive == Line("section", t.name)
           back == Put(table, stream, directive)
           code == Line("code", decl)
           textOps == IF setup.gpOpt THEN Codes \cup {"section"} ELSE {"section"}
           dataOps == Objects \cup {"section"}
<1>1. /\ file \in Files /\ setup \in Setup /\ pc = "table" /\ decl \in Function
      /\ asmOut = Target /\ t \in Sections /\ BuiltIn(".rdata") \in Sections
  BY SectionTypes
     DEF Types, TypeOK, DeclFollows, OutFollows, OutputJumpTable, Files, Stream, Sections,
         BuiltIns, Target
<1>2. file' = Put(back, Target, code) /\ setup' = setup /\ pc' # "done"
  BY <1>1 DEF OutputJumpTable, TableStream
<1>3. /\ code \in Lines /\ IsOwn(code, decl) /\ code.op \in Codes
      /\ row \in Lines /\ IsOwn(row, decl) /\ row.op \in Codes /\ row.op = "table"
      /\ directive \in Lines /\ directive.op = "section" /\ ~IsOwn(directive, decl)
  BY <1>1, SectionLine DEF Line, Lines, IsOwn, Codes
<1>4. /\ stream \in Stream /\ Target \in Stream /\ "text" \in Stream /\ "data" \in Stream
      /\ "section" \in textOps /\ "section" \in dataOps
  BY <1>1 DEF FunctionStream, Stream, Target
<1>5. /\ Only(file["text"], textOps)
      /\ setup.gpOpt => Only(file["data"], dataOps)
  BY <1>1 DEF KindsRight
<1>6. /\ Target = "text" => code.op \in textOps /\ row.op \in textOps
      /\ setup.gpOpt => Target # "data"
  BY <1>3 DEF Target
<1> HIDE DEF t, stream, code, row, directive, textOps, dataOps
<1>7. /\ Grows(file, switched, decl) /\ switched \in Files
      /\ Doing(file, decl) => Doing(switched, decl)
      /\ Only(switched["text"], textOps)
      /\ setup.gpOpt => Only(switched["data"], dataOps)
  <2>1. Grows(file, switched, decl) /\ (Doing(file, decl) => Doing(switched, decl))
    BY <1>1, <1>4, SwitchGrows
  <2>2. switched \in Files
    BY <2>1 DEF Grows
  <2>3. Only(switched["text"], textOps) /\ (setup.gpOpt => Only(switched["data"], dataOps))
    <3>1. Only(switched["text"], textOps)
      BY <1>1, <1>4, <1>5, SwitchOnly
    <3>2. ASSUME setup.gpOpt PROVE Only(switched["data"], dataOps)
      BY <1>1, <1>4, <1>5, SwitchOnly, <3>2
    <3> QED BY <3>1, <3>2
  <2> QED BY <2>1, <2>2, <2>3
<1> HIDE DEF switched
<1>8. /\ Grows(file, table, decl) /\ table \in Files
      /\ Doing(file, decl) => Doing(table, decl) /\ Tabled(table[Target], decl)
      /\ Only(table["text"], textOps)
      /\ setup.gpOpt => Only(table["data"], dataOps)
  <2>1. Grows(switched, table, decl)
    BY <1>1, <1>3, <1>4, <1>7, PutGrows
  <2>2. Doing(switched, decl) => Doing(table, decl) /\ Tabled(table[Target], decl)
    BY <1>3, <1>7, PutOwn
  <2>3. Only(table["text"], textOps) /\ (setup.gpOpt => Only(table["data"], dataOps))
    <3>1. Only(table["text"], textOps)
      BY <1>3, <1>4, <1>6, <1>7, PutOnly
    <3>2. ASSUME setup.gpOpt PROVE Only(table["data"], dataOps)
      BY <1>3, <1>4, <1>6, <1>7, PutOnly, <3>2
    <3> QED BY <3>1, <3>2
  <2>4. Grows(file, table, decl)
    BY <1>7, <2>1, GrowsOn
  <2> QED BY <1>7, <2>1, <2>2, <2>3, <2>4 DEF Grows
<1> HIDE DEF table
<1>9. /\ Grows(file, back, decl) /\ back \in Files
      /\ Doing(file, decl) => Doing(back, decl) /\ Tabled(back[Target], decl)
      /\ Only(back["text"], textOps)
      /\ setup.gpOpt => Only(back["data"], dataOps)
  <2>1. Grows(table, back, decl)
    BY <1>1, <1>3, <1>4, <1>8, PutGrows
  <2>2. Doing(table, decl) => Doing(back, decl)
    BY <1>3, <1>4, <1>8, PutSectionDoing
  <2>3. Tabled(table[Target], decl) => Tabled(back[Target], decl)
    BY <1>3, <1>4, <1>8, PutKeeps
  <2>4. Only(back["text"], textOps) /\ (setup.gpOpt => Only(back["data"], dataOps))
    <3>1. Only(back["text"], textOps)
      BY <1>3, <1>4, <1>8, PutOnly
    <3>2. ASSUME setup.gpOpt PROVE Only(back["data"], dataOps)
      BY <1>3, <1>4, <1>8, PutOnly, <3>2
    <3> QED BY <3>1, <3>2
  <2>5. Grows(file, back, decl)
    BY <1>8, <2>1, GrowsOn
  <2> QED BY <1>8, <2>1, <2>2, <2>3, <2>4, <2>5 DEF Grows
<1> HIDE DEF back
<1>10. Grows(file, file', decl)
  <2>1. Grows(back, file', decl)
    BY <1>1, <1>2, <1>3, <1>4, <1>9, PutGrows
  <2> QED BY <1>9, <2>1, GrowsOn
<1>11. Doing(file, decl) => /\ Doing(file', decl) /\ LastOwn(file', decl)
                            /\ Tabled(file'[Target], decl)
  BY <1>2, <1>3, <1>9, PutOwn
<1>12. Only(file'["text"], textOps) /\ (setup.gpOpt => Only(file'["data"], dataOps))
  <2>1. Only(file'["text"], textOps)
    BY <1>2, <1>3, <1>4, <1>6, <1>9, PutOnly
  <2>2. ASSUME setup.gpOpt PROVE Only(file'["data"], dataOps)
    BY <1>2, <1>3, <1>4, <1>6, <1>9, PutOnly, <2>2
  <2> QED BY <2>1, <2>2
<1>13. KindsRight'
  BY <1>2, <1>12 DEF KindsRight, textOps, dataOps
<1> QED BY <1>10, <1>11, <1>13

-----------------------------------------------------------------------------
(* The steps outside of functions.                                         *)
LEMMA PlainKinds ==
  ASSUME file \in Files, KindsRight, setup' = setup, pc # "done",
         file' = file \/ \E line \in Lines : line.op \in Objects /\ DataLine(line)
  PROVE  KindsRight'
BY DataLineAdds DEF KindsRight

LEMMA SameTarget ==
  ASSUME setup' = setup
  PROVE  \A f \in Function :
           /\ FreeIn(file', f) => FreeIn(file, f)'
           /\ Complete(file', f) => Complete(file, f)'
           /\ Doing(file', f) => Doing(file, f)'
           /\ LastOwn(file', f) => LastOwn(file, f)'
           /\ Target' = Target
BY DEF FreeIn, Complete, Doing, LastOwn, Apart, Target

LEMMA PlainFunctions ==
  ASSUME FunctionsRight, setup' = setup,
         pc \notin {"table", "code", "done"}, pc' \notin {"table", "code", "done"},
         pc' \in {"variable", "pool"} => decl' \in written',
         \A f \in Function : /\ Begun(f)' <=> Begun(f)
                             /\ FreeIn(file, f) => FreeIn(file', f)
                             /\ Complete(file, f) => Complete(file', f)
  PROVE  FunctionsRight'
<1>1. ASSUME NEW f \in Function
      PROVE  /\ ~Begun(f)' => FreeIn(file, f)'
             /\ Begun(f)' => Complete(file, f)'
             /\ ~Current(f)'
  <2>1. ~Current(f) /\ ~Current(f)'
    BY DEF Current
  <2>2. (~Begun(f) => FreeIn(file, f)) /\ (Begun(f) => Complete(file, f))
    BY <2>1 DEF FunctionsRight
  <2> QED BY <2>1, <2>2, SameTarget
<1> QED BY <1>1 DEF FunctionsRight

(* An object line of a symbol that has none, or of a literal.              *)
LEMMA ObjectLine ==
  ASSUME file \in Files, setup' = setup, pc # "done", NEW line \in Lines, line.op \in Objects,
         DataLine(line), SymbolLines,
         setup.gpOpt => \/ line.what \notin Symbol /\ symbolWritten' = symbolWritten
                        \/ /\ line.what \in Symbol \ symbolWritten
                           /\ symbolWritten' = symbolWritten \cup {line.what}
  PROVE  SymbolLines'
<1> SUFFICES ASSUME setup.gpOpt, NEW x \in Symbol
             PROVE  /\ Never(file'["text"], x)
                    /\ x \notin symbolWritten' => Never(file'["data"], x)
                    /\ x \in symbolWritten' => Once(file'["data"], x)
  BY DEF SymbolLines
<1>1. /\ Never(file["text"], x)
      /\ x \notin symbolWritten => Never(file["data"], x)
      /\ x \in symbolWritten => Once(file["data"], x)
  BY DEF SymbolLines
<1>2. file'["text"] = file["text"]
  BY DataLineAdds
<1>3. CASE line.what = x
  <2>1. IsLineOf(line, x) /\ x \notin symbolWritten /\ x \in symbolWritten'
    BY <1>3 DEF IsLineOf, Objects
  <2>2. Once(file'["data"], x)
    BY <1>1, <2>1, DataLineAdds
  <2> QED BY <1>1, <1>2, <2>1, <2>2
<1>4. CASE line.what # x
  <2>1. ~IsLineOf(line, x) /\ (x \in symbolWritten' <=> x \in symbolWritten)
    BY <1>4 DEF IsLineOf
  <2>2. /\ Never(file["data"], x) => Never(file'["data"], x)
        /\ Once(file["data"], x) => Once(file'["data"], x)
    BY <2>1, DataLineAdds
  <2> QED BY <1>1, <1>2, <2>1, <2>2
<1> QED BY <1>3, <1>4

LEMMA LiteralLine ==
  ASSUME setup \in Setup, asmOut = "data", NEW l \in Literal, WriteLiteral(l)
  PROVE  \E line \in Lines : /\ line.op \in Objects /\ line.what \notin Symbol
                             /\ DataLine(line)
<1> DEFINE line == Line("data", l)
<1>1. line \in Lines /\ line.op \in Objects /\ line.what \notin Symbol
  BY SourceAssumption DEF Line, Lines, Objects
<1>2. LiteralSection(l) \in Sections
  BY SectionTypes
<1>3. DataLine(line)
  BY <1>2 DEF DataLine, WriteLiteral
<1> QED BY <1>1, <1>3

LEMMA LiteralFile ==
  ASSUME Types, FileInv, pc \in {"top", "variable", "pool"}, asmOut = "data",
         NEW l \in Literal, WriteLiteral(l),
         UNCHANGED <<setup, written, symbolWritten, symbolUsed, externHead, pc, decl>>
  PROVE  FileInv'
<1>0. file \in Files /\ setup \in Setup
  BY DEF Types, TypeOK, Files, Stream
<1>1. PICK line \in Lines : line.op \in Objects /\ line.what \notin Symbol /\ DataLine(line)
  BY <1>0, LiteralLine
<1>2. KindsRight'
  BY <1>0, <1>1, PlainKinds DEF FileInv
<1>3. SymbolLines'
  BY <1>0, <1>1, ObjectLine DEF FileInv
<1>4. SymbolSets'
  BY DEF FileInv, SymbolSets, Declarable
<1>5. FunctionsRight'
  <2>1. \A f \in Function : /\ Begun(f)' <=> Begun(f)
                            /\ FreeIn(file, f) => FreeIn(file', f)
                            /\ Complete(file, f) => Complete(file', f)
    BY <1>0, <1>1, DataLineAdds DEF Begun
  <2>2. FunctionsRight /\ (pc' \in {"variable", "pool"} => decl' \in written')
    BY DEF FileInv, FunctionsRight
  <2> QED BY <2>1, <2>2, PlainFunctions
<1> QED BY <1>2, <1>3, <1>4, <1>5 DEF FileInv


-----------------------------------------------------------------------------
LEMMA InitFileInv == Init => FileInv
<1> SUFFICES ASSUME Init PROVE FileInv
  OBVIOUS
<1>1. file["data"] = <<>> /\ file["text"] = <<>> /\ \A stream \in Stream : file[stream] = <<>>
  BY DEF Init, Stream
<1>2. KindsRight
  BY <1>1 DEF Init, KindsRight, Only
<1>3. SymbolLines
  BY <1>1 DEF Init, SymbolLines, Never
<1>4. SymbolSets
  BY DEF Init, SymbolSets
<1>5. FunctionsRight
  <2>1. \A f \in Function : FreeIn(file, f)
    BY <1>1 DEF FreeIn, Free
  <2> QED BY <2>1 DEF Init, FunctionsRight, Begun, Current
<1> QED BY <1>2, <1>3, <1>4, <1>5 DEF FileInv

(* Steps that write nothing, outside of functions.                         *)
LEMMA SilentFile ==
  ASSUME Types, FileInv, pc \in {"top", "externs"}, pc' \notin {"table", "code", "done"},
         UNCHANGED <<setup, file, symbolWritten>>,
         pc' \in {"variable", "pool"} => decl' \in written',
         \A f \in Function : Begun(f)' <=> Begun(f), SymbolSets'
  PROVE  FileInv'
<1>0. file \in Files
  BY DEF Types, TypeOK, Files, Stream
<1>1. KindsRight'
  BY <1>0, PlainKinds DEF FileInv
<1>2. SymbolLines'
  BY DEF FileInv, SymbolLines
<1>3. FunctionsRight'
  BY PlainFunctions DEF FileInv
<1> QED BY <1>1, <1>2, <1>3 DEF FileInv

LEMMA ExternalFile ==
  ASSUME Types, FileInv, NEW e \in ExternDecl, AssembleExternal(e)
  PROVE  FileInv'
<1>1. SymbolSets'
  <2> SUFFICES ASSUME setup.gpOpt, NEW u \in symbolUsed', Declarable(u)
               PROVE  \/ SymbolOf[u] \in symbolWritten
                      \/ \E i \in 1..Len(externHead') : externHead'[i] = SymbolOf[u]
    BY DEF AssembleExternal, FileInv, SymbolSets, Declarable
  <2>1. SymbolOf[e] \in Symbol /\ externHead \in Seq(Symbol)
    BY DEF Symbol, Types, TypeOK
  <2>2. CASE u = e
    <3>1. externHead' = <<SymbolOf[e]>> \o externHead
      BY <2>2 DEF AssembleExternal, Declarable
    <3>2. 1 \in 1..Len(externHead') /\ externHead'[1] = SymbolOf[e]
      BY <2>1, <3>1
    <3> QED BY <2>2, <3>2
  <2>3. CASE u # e
    <3>1. u \in symbolUsed
      BY <2>3 DEF AssembleExternal
    <3>2. \/ SymbolOf[u] \in symbolWritten
          \/ \E i \in 1..Len(externHead) : externHead[i] = SymbolOf[u]
      BY <3>1 DEF FileInv, SymbolSets, Declarable
    <3>3. externHead' = externHead \/ externHead' = <<SymbolOf[e]>> \o externHead
      BY DEF AssembleExternal
    <3>4. ASSUME NEW i \in 1..Len(externHead), externHead[i] = SymbolOf[u],
                 externHead' = <<SymbolOf[e]>> \o externHead
          PROVE  i + 1 \in 1..Len(externHead') /\ externHead'[i + 1] = SymbolOf[u]
      BY <2>1, <3>4
    <3> QED BY <3>2, <3>3, <3>4
  <2> QED BY <2>2, <2>3
<1> QED BY <1>1, SilentFile DEF AssembleExternal, Begun

LEMMA ObjectFile ==
  ASSUME Types, FileInv, NEW v \in Variable, NEW line \in Lines, line.op \in Objects, line.what = v,
         DataLine(line), setup' = setup, symbolWritten' = DeclareObject(v),
         pc \in {"top", "variable"}, pc' = "top",
         UNCHANGED <<symbolUsed, externHead>>, written' = written \cup {v},
         pc = "top" => v \notin written, pc = "variable" => v = decl
  PROVE  FileInv'
<1>0. file \in Files /\ v \in Symbol
  BY DEF Types, TypeOK, Files, Stream, Symbol
<1>1. KindsRight'
  BY <1>0, PlainKinds DEF FileInv
<1>2. setup.gpOpt => v \notin symbolWritten /\ symbolWritten' = symbolWritten \cup {v}
  BY DEF FileInv, SymbolSets, DeclareObject
<1>3. SymbolLines'
  BY <1>0, <1>2, ObjectLine DEF FileInv
<1>4. SymbolSets'
  <2>1. setup.gpOpt => symbolWritten' = written' \cap Variable
    BY <1>2 DEF FileInv, SymbolSets
  <2> QED BY <1>2, <2>1 DEF FileInv, SymbolSets, Declarable
<1>5. FunctionsRight'
  <2>1. \A f \in Function : f # v
    BY <1>0, SourceAssumption
  <2>2. \A f \in Function : /\ Begun(f)' <=> Begun(f)
                            /\ FreeIn(file, f) => FreeIn(file', f)
                            /\ Complete(file, f) => Complete(file', f)
    BY <1>0, <2>1, DataLineAdds DEF Begun
  <2> QED BY <2>2, PlainFunctions DEF FileInv
<1> QED BY <1>1, <1>3, <1>4, <1>5 DEF FileInv

LEMMA ExternFile ==
  ASSUME Types, FileInv, asmOut = "data", OutputExtern
  PROVE  FileInv'
<1> DEFINE x == Head(externHead)
           line == Line("extern", x)
<1>0. /\ file \in Files /\ externHead \in Seq(Symbol) /\ externHead # <<>> /\ x \in Symbol
      /\ pc = "externs" /\ pc' = "externs" /\ UNCHANGED <<setup, written, symbolUsed, decl>>
      /\ externHead' = Tail(externHead) /\ symbolWritten' = symbolWritten \cup {x}
  BY DEF Types, TypeOK, Files, Stream, OutputExtern
<1>1. line \in Lines /\ line.op \in Objects /\ line.what = x
  BY <1>0 DEF Line, Lines, Objects
<1>2. /\ x \in symbolWritten => file' = file /\ symbolWritten' = symbolWritten
      /\ x \notin symbolWritten => DataLine(line)
  BY <1>0 DEF OutputExtern, NeedsExtern, DataLine
<1> HIDE DEF line
<1>3. KindsRight'
  BY <1>0, <1>1, <1>2, PlainKinds DEF FileInv
<1>4. SymbolLines'
  <2>1. CASE x \in symbolWritten
    BY <1>0, <1>2, <2>1 DEF FileInv, SymbolLines
  <2>2. CASE x \notin symbolWritten
    BY <1>0, <1>1, <1>2, <2>2, ObjectLine DEF FileInv
  <2> QED BY <2>1, <2>2
<1>5. SymbolSets'
  <2> SUFFICES ASSUME setup.gpOpt, NEW u \in symbolUsed, Declarable(u)
               PROVE  \/ SymbolOf[u] \in symbolWritten'
                      \/ \E i \in 1..Len(externHead') : externHead'[i] = SymbolOf[u]
    BY <1>0 DEF FileInv, SymbolSets, Declarable
  <2>1. \/ SymbolOf[u] \in symbolWritten
        \/ \E i \in 1..Len(externHead) : externHead[i] = SymbolOf[u]
    BY <1>0 DEF FileInv, SymbolSets
  <2>2. ASSUME NEW i \in 1..Len(externHead), externHead[i] = SymbolOf[u], i # 1
        PROVE  i - 1 \in 1..Len(externHead') /\ externHead'[i - 1] = SymbolOf[u]
    BY <1>0, <2>2
  <2>3. externHead[1] = x
    BY <1>0
  <2> QED BY <1>0, <2>1, <2>2, <2>3
<1>6. FunctionsRight'
  <2>1. \A f \in Function : /\ FreeIn(file, f) => FreeIn(file', f)
                            /\ Complete(file, f) => Complete(file', f)
    BY <1>0, <1>1, <1>2, DataLineAdds
  <2>2. \A f \in Function : Begun(f)' <=> Begun(f)
    BY <1>0 DEF Begun
  <2> QED BY <1>0, <2>1, <2>2, PlainFunctions DEF FileInv
<1> QED BY <1>3, <1>4, <1>5, <1>6 DEF FileInv

(* The function that is written gets lines, and the other ones none.       *)
LEMMA GrowingFunctions ==
  ASSUME Types, FileInv, pc \in {"pool", "table"}, pc' \in {"table", "code"}, decl \in Function,
         UNCHANGED <<setup, written, decl>>, pc' = "table" => decl \in HasTable,
         Grows(file, file', decl), Doing(file', decl), LastOwn(file', decl),
         pc' = "code" => Tabled(file'[Target], decl)
  PROVE  FunctionsRight'
<1>1. decl \in written /\ pc # "done"
  BY DEF FileInv, FunctionsRight
<1>2. ASSUME NEW f \in Function
      PROVE  /\ ~Begun(f)' => FreeIn(file, f)'
             /\ Current(f)' => /\ Doing(file, f)' /\ LastOwn(file, f)'
                               /\ pc' = "code" => Tabled(file[Target], f)'
             /\ Begun(f)' /\ ~Current(f)' => Complete(file, f)'
  <2>1. CASE f = decl
    <3>1. Begun(f)' /\ Current(f)'
      BY <1>1, <2>1 DEF Begun, Current
    <3> QED BY <2>1, <3>1, SameTarget DEF Tabled
  <2>2. CASE f # decl
    <3>1. ~Current(f) /\ ~Current(f)' /\ (Begun(f)' <=> Begun(f))
      BY <2>2 DEF Current, Begun
    <3>2. /\ ~Begun(f) => FreeIn(file, f)
          /\ Begun(f) => Complete(file, f)
      BY <1>1, <3>1 DEF FileInv, FunctionsRight
    <3>3. /\ FreeIn(file, f) => FreeIn(file', f)
          /\ Complete(file, f) => Complete(file', f)
      BY <2>2 DEF Grows
    <3> QED BY <3>1, <3>2, <3>3, SameTarget
  <2> QED BY <2>1, <2>2
<1> QED BY <1>1, <1>2 DEF FunctionsRight

LEMMA GrowingSymbols ==
  ASSUME FileInv, pc # "done", UNCHANGED <<setup, symbolWritten>>, NEW g, Grows(file, file', g)
  PROVE  SymbolLines'
BY DEF FileInv, SymbolLines, Grows, Stream

LEMMA FunctionFile ==
  ASSUME Types, OutFollows, FileInv, OutputFunction
  PROVE  FileInv'
<1>1. /\ pc = "pool" /\ decl \in Function /\ decl \in written
      /\ pc' = IF decl \in HasTable THEN "table" ELSE "code"
      /\ UNCHANGED <<setup, written, symbolWritten, symbolUsed, externHead, decl>>
  BY DEF OutputFunction, Types, DeclFollows, FileInv, FunctionsRight
<1>2. FreeIn(file, decl)
  BY <1>1 DEF FileInv, FunctionsRight, Begun
<1>3. /\ Grows(file, file', decl) /\ KindsRight' /\ Doing(file', decl) /\ LastOwn(file', decl)
  BY <1>2, FunctionGrows DEF FileInv
<1>4. pc' = "code" => Tabled(file'[Target], decl)
  BY <1>1 DEF Tabled
<1>5. FunctionsRight'
  BY <1>1, <1>3, <1>4, GrowingFunctions
<1>6. SymbolLines'
  BY <1>1, <1>3, GrowingSymbols
<1>7. SymbolSets'
  BY <1>1 DEF FileInv, SymbolSets, Declarable
<1> QED BY <1>3, <1>5, <1>6, <1>7 DEF FileInv

LEMMA TableFile ==
  ASSUME Types, OutFollows, FileInv, OutputJumpTable
  PROVE  FileInv'
<1>1. /\ pc = "table" /\ decl \in Function /\ pc' = "code"
      /\ UNCHANGED <<setup, written, symbolWritten, symbolUsed, externHead, decl>>
  BY DEF OutputJumpTable, Types, DeclFollows
<1>2. Doing(file, decl)
  BY <1>1 DEF FileInv, FunctionsRight, Current
<1>3. /\ Grows(file, file', decl) /\ KindsRight' /\ Doing(file', decl) /\ LastOwn(file', decl)
      /\ Tabled(file'[Target], decl)
  BY <1>2, TableGrows DEF FileInv
<1>5. FunctionsRight'
  BY <1>1, <1>3, GrowingFunctions
<1>6. SymbolLines'
  BY <1>1, <1>3, GrowingSymbols
<1>7. SymbolSets'
  BY <1>1 DEF FileInv, SymbolSets, Declarable
<1> QED BY <1>3, <1>5, <1>6, <1>7 DEF FileInv

(* function_epilogue (): the function is complete.                         *)
LEMMA EndFunctionFile ==
  ASSUME Types, FileInv, EndFunction
  PROVE  FileInv'
<1>1. /\ pc = "code" /\ pc' = "top" /\ decl \in Function /\ decl' = Nothing
      /\ UNCHANGED <<setup, file, written, symbolWritten, symbolUsed, externHead>>
  BY DEF EndFunction, Types, DeclFollows
<1>2. Target \in Stream /\ file[Target] \in Seq(Lines)
  BY DEF Target, Stream, Types, TypeOK
<1>3. Complete(file, decl)
  <2>1. Doing(file, decl) /\ LastOwn(file, decl) /\ Tabled(file[Target], decl)
    BY <1>1 DEF FileInv, FunctionsRight, Current
  <2>2. Whole(file[Target], decl)
    BY <1>2, <2>1, OpenWhole DEF Doing, LastOwn
  <2> QED BY <2>1, <2>2 DEF Complete, Doing
<1>4. FunctionsRight'
  <2>1. ASSUME NEW f \in Function
        PROVE  /\ ~Begun(f)' => FreeIn(file, f)'
               /\ ~Current(f)'
               /\ Begun(f)' => Complete(file, f)'
    <3>1. /\ ~Begun(f) => FreeIn(file, f)
          /\ Begun(f) => Complete(file, f)
      BY <1>1, <1>3 DEF FileInv, FunctionsRight, Current
    <3>2. (Begun(f)' <=> Begun(f)) /\ ~Current(f)'
      BY <1>1 DEF Begun, Current
    <3> QED BY <1>1, <3>1, <3>2, SameTarget
  <2>2. pc' \notin {"variable", "pool", "table", "code", "done"}
    BY <1>1
  <2> QED BY <2>1, <2>2 DEF FunctionsRight
<1>5. KindsRight' /\ SymbolLines' /\ SymbolSets'
  BY <1>1 DEF FileInv, KindsRight, SymbolLines, SymbolSets, Declarable
<1> QED BY <1>4, <1>5 DEF FileInv

(* The text file comes behind.                                             *)
LEMMA AppendFile ==
  ASSUME Types, OutFollows, FileInv, AppendText
  PROVE  FileInv'
<1> DEFINE directive == Line("section", ".text")
           a == file["data"] \o <<directive>>
           b == file["text"]
<1>1. /\ pc = "externs" /\ pc' = "done" /\ externHead' = <<>>
      /\ UNCHANGED <<setup, written, symbolWritten, symbolUsed, externHead>>
      /\ file["data"] \in Seq(Lines) /\ b \in Seq(Lines)
      /\ file' = [file EXCEPT !["data"] = a \o b]
  BY DEF AppendText, Types, TypeOK
<1>2. /\ directive \in Lines /\ <<directive>> \in Seq(Lines) /\ a \in Seq(Lines)
  <2>1. directive \in Lines
    BY DEF Line, Lines
  <2> HIDE DEF directive
  <2> QED BY <1>1, <2>1
<1>3. file'["data"] = a \o b /\ file'["text"] = b
  BY <1>1 DEF Types, TypeOK
<1>4. /\ \A x : ~IsLineOf(directive, x)
      /\ \A f \in Function : ~IsOwn(directive, f)
  BY DEF IsLineOf, IsOwn, Codes, Line
<1> HIDE DEF a, directive
<1>5. KindsRight'
  BY <1>1, <1>3 DEF FileInv, KindsRight
<1>6. SymbolLines'
  <2> SUFFICES ASSUME setup.gpOpt, NEW x \in Symbol
               PROVE  /\ x \notin symbolWritten => Never(a \o b, x)
                      /\ x \in symbolWritten => Once(a \o b, x)
    BY <1>1, <1>3 DEF SymbolLines
  <2>1. Never(<<directive>>, x) /\ Never(b, x)
    BY <1>1, <1>4, OneLine DEF FileInv, SymbolLines
  <2>2. CASE x \notin symbolWritten
    <3>1. Never(file["data"], x)
      BY <2>2 DEF FileInv, SymbolLines
    <3>2. Never(a, x)
      BY <1>1, <1>2, <2>1, <3>1, NeverConcat DEF a
    <3> QED BY <1>1, <1>2, <2>1, <2>2, <3>2, NeverConcat
  <2>3. CASE x \in symbolWritten
    <3>1. Once(file["data"], x)
      BY <2>3 DEF FileInv, SymbolLines
    <3>2. Once(a, x)
      BY <1>1, <1>2, <2>1, <3>1, OnceConcat DEF a
    <3> QED BY <1>1, <1>2, <2>1, <2>3, <3>2, OnceConcat
  <2> QED BY <2>2, <2>3
<1>7. SymbolSets'
  BY <1>1 DEF FileInv, SymbolSets, Declarable
<1>8. FunctionsRight'
  <2> SUFFICES ASSUME NEW f \in written \cap Function
               PROVE  Whole(a \o b, f) /\ Tabled(a \o b, f)
    BY <1>1, <1>3 DEF FunctionsRight, Tabled
  <2>1. Complete(file, f) /\ Free(<<directive>>, f)
    BY <1>1, <1>4, OneLine DEF FileInv, FunctionsRight, Begun, Current
  <2>2. CASE setup.gpOpt
    <3>1. Free(file["data"], f) /\ Whole(b, f) /\ Tabled(b, f)
      BY <2>1, <2>2 DEF Complete, Apart, Target, Stream
    <3>2. Free(a, f)
      BY <1>1, <1>2, <2>1, <3>1, FreeConcat DEF a
    <3>3. Whole(a \o b, f)
      BY <1>1, <1>2, <3>1, <3>2, WholeBehind
    <3> QED BY <1>1, <1>2, <3>1, <3>3, TabledConcat
  <2>3. CASE ~setup.gpOpt
    <3>1. Whole(file["data"], f) /\ Tabled(file["data"], f) /\ Free(b, f)
      BY <2>1, <2>3 DEF Complete, Apart, Target, Stream
    <3>2. Whole(a, f)
      BY <1>1, <1>2, <2>1, <3>1, WholeBefore DEF a
    <3>3. Tabled(a, f)
      BY <1>1, <1>2, <3>1, TabledConcat DEF a
    <3>4. Whole(a \o b, f)
      BY <1>1, <1>2, <3>1, <3>2, WholeBefore
    <3> QED BY <1>1, <1>2, <3>3, <3>4, TabledConcat
  <2> QED BY <2>2, <2>3
<1> QED BY <1>5, <1>6, <1>7, <1>8 DEF FileInv


LEMMA NextFileInv == Types /\ CacheInv /\ FileInv /\ [Next]_vars => FileInv'
<1> SUFFICES ASSUME Types, OutFollows, FileInv, [Next]_vars PROVE FileInv'
  BY DEF CacheInv
<1>0. /\ StringConstant \subseteq Literal
      /\ pc \notin {"table", "code"} => asmOut = "data"
      /\ pc = "pool" => decl \in written
      /\ \A f \in Function : f \notin Variable
  BY SourceAssumption DEF OutFollows, FileInv, FunctionsRight, Symbol
<1>1. ASSUME NEW l \in StringConstant, OutputConstantDef(l) PROVE FileInv'
  BY <1>0, <1>1, LiteralFile DEF OutputConstantDef
<1>2. ASSUME NEW e \in ExternDecl, AssembleExternal(e) PROVE FileInv'
  BY <1>2, ExternalFile
<1>3. ASSUME NEW v \in Variable, AssembleCommon(v) PROVE FileInv'
  <2> DEFINE line == Line("common", v)
  <2>1. line \in Lines /\ line.op \in Objects /\ line.what = v
    BY DEF Line, Lines, Symbol, Objects
  <2>2. DataLine(line)
    BY <1>0, <1>3 DEF AssembleCommon, DataLine
  <2> HIDE DEF line
  <2> QED BY <1>3, <2>1, <2>2, ObjectFile DEF AssembleCommon
<1>4. ASSUME NEW v \in Variable, AssembleVariable(v) PROVE FileInv'
  <2>1. \A f \in Function : Begun(f)' <=> Begun(f)
    BY <1>0, <1>4 DEF AssembleVariable, Begun
  <2>2. SymbolSets'
    BY <1>4 DEF AssembleVariable, FileInv, SymbolSets, Declarable
  <2> QED BY <1>4, <2>1, <2>2, SilentFile DEF AssembleVariable
<1>5. CASE OutputAddressed
  <2>1. /\ pc = "variable" /\ todo # <<>> /\ Head(todo) \in Literal
        /\ UNCHANGED <<setup, written, symbolWritten, symbolUsed, externHead, pc, decl>>
    BY <1>5 DEF OutputAddressed, Types, TypeOK
  <2>2. CASE WriteLiteral(Head(todo))
    BY <1>0, <2>1, <2>2, LiteralFile
  <2>3. CASE file' = file
    BY <2>1, <2>3 DEF FileInv, KindsRight, SymbolLines, SymbolSets, Declarable,
                      FunctionsRight, Begun, Current, FreeIn, Complete, Apart, Target
  <2> QED BY <1>5, <2>2, <2>3 DEF OutputAddressed
<1>6. CASE OutputVariable
  <2> DEFINE line == Line("data", decl)
  <2>1. decl \in Variable /\ decl \in Symbol /\ pc = "variable" /\ setup \in Setup
    BY <1>6 DEF OutputVariable, Types, TypeOK, DeclFollows, Symbol
  <2>2. line \in Lines /\ line.op \in Objects /\ line.what = decl
    BY <2>1 DEF Line, Lines, Objects
  <2>3. VariableSection(decl) \in Sections
    BY <2>1, SectionTypes
  <2>4. DataLine(line)
    BY <1>0, <1>6, <2>1, <2>3 DEF OutputVariable, DataLine
  <2> HIDE DEF line
  <2>5. written' = written \cup {decl}
    BY <1>6, <2>1 DEF OutputVariable, FileInv, FunctionsRight
  <2> QED BY <1>6, <2>1, <2>2, <2>4, <2>5, ObjectFile DEF OutputVariable
<1>7. ASSUME NEW f \in Function, StartFunction(f) PROVE FileInv'
  <2>1. \A g \in Function : Begun(g)' <=> Begun(g)
    BY <1>7 DEF StartFunction, Begun
  <2>2. SymbolSets'
    BY <1>0, <1>7 DEF StartFunction, FileInv, SymbolSets, Declarable
  <2> QED BY <1>7, <2>1, <2>2, SilentFile DEF StartFunction
<1>8. CASE OutputConstantPool
  <2>1. pc = "pool" /\ Head(todo) \in Literal
    BY <1>8 DEF OutputConstantPool, Types, TypeOK
  <2> QED BY <1>0, <1>8, <2>1, LiteralFile DEF OutputConstantPool
<1>9. CASE OutputFunction
  BY <1>9, FunctionFile
<1>10. CASE OutputJumpTable
  BY <1>10, TableFile
<1>11. CASE EndFunction
  BY <1>11, EndFunctionFile
<1>12. CASE EndFile
  <2>1. \A f \in Function : Begun(f)' <=> Begun(f)
    BY <1>12 DEF EndFile, Begun
  <2>2. SymbolSets'
    BY <1>12 DEF EndFile, FileInv, SymbolSets, Declarable
  <2> QED BY <1>12, <2>1, <2>2, SilentFile DEF EndFile
<1>13. CASE OutputExtern
  BY <1>0, <1>13, ExternFile DEF OutputExtern
<1>14. CASE AppendText
  BY <1>14, AppendFile
<1>15. CASE UNCHANGED vars
  BY <1>15 DEF vars, FileInv, KindsRight, SymbolLines, SymbolSets, Declarable, FunctionsRight,
               Begun, Current, FreeIn, Doing, LastOwn, Complete, Apart, Target
<1> QED BY <1>1, <1>2, <1>3, <1>4, <1>5, <1>6, <1>7, <1>8, <1>9, <1>10, <1>11,
           <1>12, <1>13, <1>14, <1>15 DEF Next

(* Only the last step can put code before a declaration, and the two       *)
(* streams are of different kinds then.                                    *)
LEMMA NextDecls == Types /\ FileInv /\ DeclsBeforeCode /\ [Next]_vars => DeclsBeforeCode'
<1> SUFFICES ASSUME Types, KindsRight, DeclsBeforeCode, [Next]_vars PROVE DeclsBeforeCode'
  BY DEF FileInv
<1>1. CASE AppendText
  <2> DEFINE directive == Line("section", ".text")
             a == file["data"] \o <<directive>>
             b == file["text"]
  <2>1. /\ setup' = setup /\ pc = "externs" /\ file["data"] \in Seq(Lines) /\ b \in Seq(Lines)
        /\ file'["data"] = a \o b
    BY <1>1 DEF AppendText, Types, TypeOK
  <2>2. directive \in Lines /\ directive.op = "section"
    BY DEF Line, Lines
  <2> HIDE DEF directive
  <2>3. a \in Seq(Lines) /\ Only(<<directive>>, Objects \cup {"section"})
    BY <2>1, <2>2 DEF Only
  <2> SUFFICES ASSUME setup.gpOpt, NEW k \in DOMAIN (a \o b), (a \o b)[k].op \in Objects,
                      NEW j \in 1..k
               PROVE  (a \o b)[j].op # "code"
    BY <2>1 DEF DeclsBeforeCode, Objects
  <2>4. Only(a, Objects \cup {"section"}) /\ Only(b, Codes \cup {"section"})
    <3>1. /\ Only(file["data"], Objects \cup {"section"}) /\ <<directive>> \in Seq(Lines)
          /\ Only(b, Codes \cup {"section"})
      BY <2>1, <2>2 DEF KindsRight
    <3>2. Only(a, Objects \cup {"section"})
      BY <2>1, <2>3, <3>1, OnlyConcat
    <3> QED BY <3>1, <3>2
  <2>5. k \in 1..Len(a) \/ (k - Len(a) \in 1..Len(b) /\ (a \o b)[k] = b[k - Len(a)])
    <3> HIDE DEF a, b
    <3> QED BY <2>1, <2>3, Concat
  <2>6. Objects \cap (Codes \cup {"section"}) = {} /\ "code" \notin Objects \cup {"section"}
    BY DEF Objects, Codes
  <2>7. k \in 1..Len(a)
    BY <2>4, <2>5, <2>6 DEF Only
  <2>8. j \in 1..Len(a)
    <3> HIDE DEF a, b
    <3> QED BY <2>3, <2>7
  <2>9. (a \o b)[j] = a[j]
    <3> HIDE DEF a, b
    <3> QED BY <2>1, <2>3, <2>8, Concat
  <2> QED BY <2>4, <2>6, <2>8, <2>9 DEF Only
<1>2. CASE UNCHANGED vars
  BY <1>2 DEF vars, DeclsBeforeCode
<1>3. ASSUME pc' # "done" PROVE DeclsBeforeCode'
  BY <1>3 DEF DeclsBeforeCode
<1>4. AppendText \/ UNCHANGED vars \/ pc' # "done"
  BY DEF Next, OutputConstantDef, AssembleExternal, AssembleCommon, AssembleVariable,
         OutputAddressed, OutputVariable, StartFunction, OutputConstantPool, OutputFunction,
         OutputJumpTable, EndFunction, EndFile, OutputExtern
<1> QED BY <1>1, <1>2, <1>3, <1>4

-----------------------------------------------------------------------------
(* The finished file has its lines in an order the assembler can use: with *)
(* the text diverted no declaration behind code, each symbol once, and     *)
(* each function in one piece, whatever the options and attributes.        *)
THEOREM FinishedFileInOrder == Spec => []FileRight
<1>1. Types /\ FileInv /\ DeclsBeforeCode => FileRight
  <2> SUFFICES ASSUME Types, FileInv, DeclsBeforeCode PROVE FileRight
    OBVIOUS
  <2>0. DOMAIN file["data"] = 1..Len(file["data"])
    BY DEF Types, TypeOK
  <2>1. DeclaredOnce
    <3> SUFFICES ASSUME setup.gpOpt, pc = "done",
                        NEW x \in (written \cap Variable)
                                  \cup {SymbolOf[e] : e \in {u \in symbolUsed :
                                          setup.section[u] \in {NoSection, ".sbss", ".sdata"}}}
                 PROVE  \E k \in DOMAIN file["data"] :
                          \A j \in DOMAIN file["data"] :
                            file["data"][j].what = x /\ file["data"][j].op # "section" <=> j = k
      BY DEF DeclaredOnce
    <3>1. externHead = <<>> /\ 1..Len(externHead) = {}
      BY DEF FileInv, SymbolSets
    <3>2. x \in symbolWritten
      BY <3>1 DEF FileInv, SymbolSets, Declarable
    <3>3. Once(file["data"], x)
      BY <3>2 DEF FileInv, SymbolLines, Types, TypeOK
    <3> DEFINE lines == file["data"]
    <3> HIDE DEF lines
    <3>4. PICK k \in DOMAIN lines : \A j \in DOMAIN lines : IsLineOf(lines[j], x) <=> j = k
      BY <2>0, <3>3 DEF Once, lines
    <3>5. \A j \in DOMAIN lines : lines[j].what = x /\ lines[j].op # "section" <=> j = k
      BY <3>4 DEF IsLineOf
    <3>6. k \in DOMAIN file["data"]
      BY <3>4 DEF lines
    <3> QED BY <3>5, <3>6 DEF lines
  <2>2. FunctionWhole
    <3> SUFFICES ASSUME pc = "done", NEW f \in written \cap Function
                 PROVE  LET Own == {k \in DOMAIN file["data"] :
                                      file["data"][k].op \in Codes /\ file["data"][k].what = f}
                        IN  /\ f \in HasTable => \E k \in Own : file["data"][k].op = "table"
                            /\ \E first, last \in Own :
                                 \A k \in DOMAIN file["data"] :
                                   k \in Own <=> k \in first..last /\ file["data"][k].op # "section"
      BY DEF FunctionWhole, Codes
    <3> DEFINE lines == file["data"]
               Own == {k \in DOMAIN lines : lines[k].op \in Codes /\ lines[k].what = f}
    <3>1. Whole(lines, f) /\ Tabled(lines, f)
      BY DEF FileInv, FunctionsRight
    <3> HIDE DEF lines
    <3>2. DOMAIN lines = 1..Len(lines)
      BY <2>0 DEF lines
    <3>3. \A k \in DOMAIN lines : k \in Own <=> IsOwn(lines[k], f)
      BY DEF IsOwn
    <3>4. f \in HasTable => \E k \in Own : lines[k].op = "table"
      BY <3>1, <3>2 DEF Tabled, Codes
    <3>5. \E first, last \in Own : \A k \in DOMAIN lines :
            k \in Own <=> k \in first..last /\ lines[k].op # "section"
      <4> HIDE DEF Own
      <4> QED BY <3>1, <3>2, <3>3 DEF Whole
    <3> QED BY <3>4, <3>5 DEF lines
  <2> QED BY <2>1, <2>2 DEF FileRight
<1>2. Init => DeclsBeforeCode
  BY DEF Init, DeclsBeforeCode
<1> QED BY <1>1, <1>2, TypesInvariant, InitCacheInv, NextCacheInv, InitFileInv, NextFileInv,
           NextDecls, PTL DEF Spec

=============================================================================
