------------------------------ MODULE AsmOutput ------------------------------
(***************************************************************************)
(* How cc1 for the PlayStation lays out its assembler file (varasm.c, and  *)
(* the target macros of config/mips).                                      *)
(*                                                                         *)
(* There are two streams: asm_out_data_file, the output proper, and        *)
(* asm_out_text_file, a temporary file that mips_asm_file_end () appends   *)
(* to it.  asm_out_file is one or the other: with TARGET_GP_OPT the code   *)
(* of a function goes to the text file, "so that data decls come before    *)
(* references to the data" (mips.c:5604).  The compiler keeps in           *)
(* in_section the section it thinks the assembler is in, one variable for  *)
(* both streams, and leaves out every directive it thinks is not needed.   *)
(*                                                                         *)
(* A source file is a set of declarations, compiled in any order and any   *)
(* part of it.  A stream is a sequence of lines; only the lines that       *)
(* switch sections, define or declare something are kept.                  *)
(***************************************************************************)
EXTENDS Naturals, Sequences

CONSTANTS
  Function, Variable,  \* what the source file defines; their names
  ExternDecl,          \* its extern declarations of objects
  Literal,             \* its string constants and constant pool entries
  StringConstant,      \* the former: each is written once
  SymbolOf,            \* SymbolOf[e]: the name extern declaration e declares
  Common,              \* the tentative definitions, DECL_COMMON
  ReadOnly,            \* the const variables that have an initializer
  SmallObject,         \* the variables and literals of at most 8 bytes
  AddressedBy,         \* AddressedBy[v]: the literals v's initializer points to
  PoolOf,              \* PoolOf[f]: the constant pool of f
  HasTable,            \* the functions that have a jump table
  NamedSection,        \* the names used by section attributes
  Setup,               \* the command lines and section attributes to consider
  NoSection, Nothing

Symbol == Variable \cup {SymbolOf[e] : e \in ExternDecl}

(* gpOpt is TARGET_GP_OPT; smallData is mips_section_threshold > 0;        *)
(* section[d] is DECL_SECTION_NAME, which -ffunction-sections sets for     *)
(* every function.                                                         *)
Setups == [gpOpt : BOOLEAN, smallData : BOOLEAN,
           section : [Function \cup Variable \cup ExternDecl
                        -> NamedSection \cup {NoSection}]]

ASSUME SourceAssumption ==
  /\ Common \cup ReadOnly \subseteq Variable /\ Common \cap ReadOnly = {}
  /\ SmallObject \subseteq Variable \cup Literal /\ HasTable \subseteq Function
  /\ StringConstant \subseteq Literal
  /\ AddressedBy \in [Variable -> Seq(Literal)]
  /\ PoolOf \in [Function -> Seq(Literal)]
  /\ Nothing \notin Function \cup Variable
  /\ Function \cap Symbol = {} /\ Literal \cap Symbol = {}
  /\ NoSection \notin NamedSection /\ Setup \subseteq Setups

VARIABLES
  setup,
  inSection,     \* in_section, with in_named_name
  asmOut,        \* asm_out_file: "data" or "text"
  file,          \* file["data"], file["text"]: what each stream holds
  written,       \* TREE_ASM_WRITTEN of functions and variables
  defined,       \* the literals in const_hash_table
  symbolWritten, \* TREE_ASM_WRITTEN of names
  symbolUsed,    \* SYMBOL_REF_USED of extern declarations
  externHead,    \* extern_head, the list of externs to declare
  pc, decl,      \* what is being written, and for which declaration
  todo           \* the literals to write first

vars == <<setup, inSection, asmOut, file, written, defined, symbolWritten,
          symbolUsed, externHead, pc, decl, todo>>

-----------------------------------------------------------------------------
(* Lines.                                                                  *)
Line(op, what) == [op |-> op, what |-> what]

(* in_section: a built-in section, or in_named and its name; the two       *)
(* differ even if their names are the same.                                *)
BuiltIn(name) == [named |-> FALSE, name |-> name]
InNamed(name) == [named |-> TRUE, name |-> name]
NoSectionYet == BuiltIn(".none")
BuiltIns == {BuiltIn(s) : s \in {".text", ".data", ".sdata", ".rdata"}}

Put(files, stream, line) == [files EXCEPT ![stream] = Append(@, line)]

(* text_section () and its like, and named_section (): a directive, unless *)
(* the compiler thinks it is there already.                                *)
ComparesNoName(s, t) == s = t \/ (s.named /\ t.named)  \* mutant: no strcmp
IsIn(s, t) == s = t

SwitchIn(files, stream, s) ==
  IF IsIn(inSection, s) THEN files ELSE Put(files, stream, Line("section", s.name))

NamedForgotten(s) == IF s.named THEN inSection ELSE s  \* mutant: in_named not set
Entered(s) == s

(* A section attribute overrides the section that goes with the kind.      *)
SectionOf(d, default) ==
  IF setup.section[d] = NoSection THEN BuiltIn(default) ELSE InNamed(setup.section[d])

FunctionSection(f) == SectionOf(f, ".text")

(* mips_select_section () and, for a literal, mips_select_rtx_section ().  *)
SelectSection(x, readOnly) ==
  IF setup.smallData /\ x \in SmallObject THEN ".sdata"
  ELSE IF readOnly THEN ".rdata" ELSE ".data"

VariableSection(v) == SectionOf(v, SelectSection(v, v \in ReadOnly))
LiteralSection(l) == BuiltIn(SelectSection(l, TRUE))

(* ASM_OUTPUT_SECTION_NAME sends the directive for a function to the text  *)
(* file, wherever asm_out_file goes; text_section () does not.             *)
FunctionStream(f) == IF FunctionSection(f).named THEN "text" ELSE asmOut

-----------------------------------------------------------------------------
(* mips_asm_file_start () has made the text file.                          *)
Init ==
  /\ setup \in Setup
  /\ inSection = NoSectionYet /\ asmOut = "data"
  /\ file = [stream \in {"data", "text"} |-> <<>>]
  /\ written = {} /\ defined = {} /\ symbolWritten = {} /\ symbolUsed = {}
  /\ externHead = <<>>
  /\ pc = "top" /\ decl = Nothing /\ todo = <<>>

(* output_constant_def_contents (), and one turn of output_constant_pool ().*)
WriteLiteral(l) ==
  LET s == LiteralSection(l)
  IN  /\ file' = Put(SwitchIn(file, asmOut, s), asmOut, Line("data", l))
      /\ inSection' = Entered(s)

(* A string constant in the code of a function is written when the         *)
(* function is expanded, before any line of the function.                  *)
OutputConstantDef(l) ==
  /\ pc = "top" /\ l \notin defined
  /\ WriteLiteral(l)
  /\ defined' = defined \cup {l}
  /\ UNCHANGED <<setup, asmOut, written, symbolWritten, symbolUsed, externHead,
                 pc, decl, todo>>

(* assemble_external (), mips_output_external ().                          *)
AssembleExternal(e) ==
  /\ pc = "top" /\ e \notin symbolUsed
  /\ symbolUsed' = symbolUsed \cup {e}
  /\ externHead' = IF /\ setup.gpOpt
                      /\ setup.section[e] \in {NoSection, ".sbss", ".sdata"}
                   THEN <<SymbolOf[e]>> \o externHead ELSE externHead
  /\ UNCHANGED <<setup, inSection, asmOut, file, written, defined,
                 symbolWritten, pc, decl, todo>>

-----------------------------------------------------------------------------
(* assemble_variable ().  An attribute takes a variable out of common.     *)
DeclareObject(v) == IF setup.gpOpt THEN symbolWritten \cup {v} ELSE symbolWritten

AssembleCommon(v) ==
  /\ pc = "top" /\ v \notin written
  /\ v \in Common /\ setup.section[v] = NoSection
  /\ written' = written \cup {v}
  /\ file' = Put(file, asmOut, Line("common", v))
  /\ symbolWritten' = DeclareObject(v)
  /\ UNCHANGED <<setup, inSection, asmOut, defined, symbolUsed, externHead,
                 pc, decl, todo>>

(* First the literals that the initializer points to ...                   *)
AssembleVariable(v) ==
  /\ pc = "top" /\ v \notin written
  /\ v \notin Common \/ setup.section[v] # NoSection
  /\ written' = written \cup {v}
  /\ pc' = "variable" /\ decl' = v /\ todo' = AddressedBy[v]
  /\ UNCHANGED <<setup, inSection, asmOut, file, defined, symbolWritten,
                 symbolUsed, externHead>>

OutputAddressed ==
  /\ pc = "variable" /\ todo # <<>>
  /\ IF Head(todo) \in defined
     THEN UNCHANGED <<file, inSection, defined>>
     ELSE WriteLiteral(Head(todo)) /\ defined' = defined \cup {Head(todo)}
  /\ todo' = Tail(todo)
  /\ UNCHANGED <<setup, asmOut, written, symbolWritten, symbolUsed, externHead,
                 pc, decl>>

(* ... then the variable in its section.                                   *)
OutputVariable ==
  LET s == VariableSection(decl)
  IN  /\ pc = "variable" /\ todo = <<>>
      /\ file' = Put(SwitchIn(file, asmOut, s), asmOut, Line("data", decl))
      /\ inSection' = Entered(s)
      /\ symbolWritten' = DeclareObject(decl)
      /\ pc' = "top" /\ decl' = Nothing
      /\ UNCHANGED <<setup, asmOut, written, defined, symbolUsed, externHead, todo>>

-----------------------------------------------------------------------------
(* rest_of_compilation () writes a function: assemble_start_function ()    *)
(* writes the constant pool, ...                                           *)
StartFunction(f) ==
  /\ pc = "top" /\ f \notin written
  /\ written' = written \cup {f}
  /\ pc' = "pool" /\ decl' = f /\ todo' = PoolOf[f]
  /\ UNCHANGED <<setup, inSection, asmOut, file, defined, symbolWritten,
                 symbolUsed, externHead>>

OutputConstantPool ==
  /\ pc = "pool" /\ todo # <<>>
  /\ WriteLiteral(Head(todo))
  /\ todo' = Tail(todo)
  /\ UNCHANGED <<setup, asmOut, written, defined, symbolWritten, symbolUsed,
                 externHead, pc, decl>>

(* ... selects the section on the stream of the moment, and then           *)
(* ASM_DECLARE_FUNCTION_NAME moves to the text file, with a .text of its   *)
(* own unless the function has a section attribute.                        *)
DeclareFunctionName(files, f) ==
  IF setup.gpOpt /\ setup.section[f] = NoSection
  THEN Put(files, "text", Line("section", ".text")) ELSE files

OutputFunction ==
  LET s == FunctionSection(decl)
      out == IF setup.gpOpt THEN "text" ELSE asmOut
      selected == SwitchIn(file, FunctionStream(decl), s)
  IN  /\ pc = "pool" /\ todo = <<>>
      /\ asmOut' = out
      /\ file' = Put(DeclareFunctionName(selected, decl), out, Line("code", decl))
      /\ inSection' = Entered(s)
      /\ pc' = IF decl \in HasTable THEN "table" ELSE "code"
      /\ UNCHANGED <<setup, written, defined, symbolWritten, symbolUsed,
                     externHead, decl, todo>>

(* final () writes a jump table: readonly_data_section () for the table,   *)
(* function_section () for the code after it.                              *)
TableOnDataFile == "data"  \* mutant: the table goes to the data file
TableStream == asmOut

OutputJumpTable ==
  LET rdata == BuiltIn(".rdata")
      s == FunctionSection(decl)
      table == Put(SwitchIn(file, TableStream, rdata), TableStream, Line("table", decl))
      back == Put(table, FunctionStream(decl), Line("section", s.name))
  IN  /\ pc = "table"
      /\ file' = Put(back, asmOut, Line("code", decl))
      /\ inSection' = Entered(s)
      /\ pc' = "code"
      /\ UNCHANGED <<setup, asmOut, written, defined, symbolWritten, symbolUsed,
                     externHead, decl, todo>>

(* function_epilogue () goes back to the data file.                        *)
RestoredOut == IF setup.gpOpt THEN "data" ELSE asmOut

EndFunction ==
  /\ pc = "code"
  /\ asmOut' = RestoredOut
  /\ pc' = "top" /\ decl' = Nothing
  /\ UNCHANGED <<setup, inSection, file, written, defined, symbolWritten,
                 symbolUsed, externHead, todo>>

-----------------------------------------------------------------------------
(* mips_asm_file_end (): the externs that nothing has declared yet, ...    *)
EndFile ==
  /\ pc = "top" /\ pc' = "externs"
  /\ UNCHANGED <<setup, inSection, asmOut, file, written, defined,
                 symbolWritten, symbolUsed, externHead, decl, todo>>

NeedsExtern(x) == x \notin symbolWritten

OutputExtern ==
  LET x == Head(externHead)
  IN  /\ pc = "externs" /\ externHead # <<>>
      /\ file' = IF NeedsExtern(x) THEN Put(file, asmOut, Line("extern", x)) ELSE file
      /\ symbolWritten' = symbolWritten \cup {x}
      /\ externHead' = Tail(externHead)
      /\ UNCHANGED <<setup, inSection, asmOut, written, defined, symbolUsed,
                     pc, decl, todo>>

(* ... and then the text file.                                             *)
AppendText ==
  /\ pc = "externs" /\ externHead = <<>>
  /\ file' = [file EXCEPT !["data"] = @ \o <<Line("section", ".text")>> \o file["text"]]
  /\ pc' = "done"
  /\ UNCHANGED <<setup, inSection, asmOut, written, defined, symbolWritten,
                 symbolUsed, externHead, decl, todo>>

Next ==
  \/ \E l \in StringConstant : OutputConstantDef(l)
  \/ \E e \in ExternDecl : AssembleExternal(e)
  \/ \E v \in Variable : AssembleCommon(v) \/ AssembleVariable(v)
  \/ OutputAddressed \/ OutputVariable
  \/ \E f \in Function : StartFunction(f)
  \/ OutputConstantPool \/ OutputFunction \/ OutputJumpTable \/ EndFunction
  \/ EndFile \/ OutputExtern \/ AppendText

Spec == Init /\ [][Next]_vars

-----------------------------------------------------------------------------
(* The assembler (external): it starts in .text and a section line moves   *)
(* it.  EndsIn(lines, n, s): after the first n lines it is in section s.   *)
EndsIn(lines, n, s) ==
  \/ \E k \in 1..n : /\ lines[k] = Line("section", s)
                     /\ \A j \in (k + 1)..n : lines[j].op # "section"
  \/ s = ".text" /\ \A j \in 1..n : lines[j].op # "section"

Lines == [op : {"section", "code", "data", "table", "common", "extern"},
          what : {".text", ".data", ".sdata", ".rdata"} \cup NamedSection
                   \cup Function \cup Symbol \cup Literal]

(* Every variable holds a value of its C type, and asm_out_file is one of  *)
(* the two streams.                                                        *)
TypeOK ==
  /\ setup \in Setup
  /\ inSection \in BuiltIns \cup {NoSectionYet} \cup {InNamed(s) : s \in NamedSection}
  /\ asmOut \in {"data", "text"}
  /\ file \in [{"data", "text"} -> Seq(Lines)]
  /\ written \subseteq Function \cup Variable /\ defined \subseteq Literal
  /\ symbolWritten \subseteq Symbol /\ symbolUsed \subseteq ExternDecl
  /\ externHead \in Seq(Symbol)
  /\ pc \in {"top", "variable", "pool", "table", "code", "externs", "done"}
  /\ decl \in Function \cup Variable \cup {Nothing}
  /\ todo \in Seq(Literal)

(* The early returns of text_section () and its like are right: when the   *)
(* compiler thinks that it is in a built-in section, the assembler is, in  *)
(* the stream that the next line goes to, although in_section is shared by *)
(* two streams.                                                            *)
CacheRight ==
  inSection \in BuiltIns /\ pc # "done" =>
    EndsIn(file[asmOut], Len(file[asmOut]), inSection.name)

(* The code of every function is assembled in the function's section, and  *)
(* every jump table in .rdata.                                             *)
CodeInOwnSection ==
  \A stream \in {"data", "text"} : \A k \in DOMAIN file[stream] :
    LET line == file[stream][k]
    IN  /\ line.op = "code" =>
             EndsIn(file[stream], k, FunctionSection(line.what).name)
        /\ line.op = "table" => EndsIn(file[stream], k, ".rdata")

(* Every object and literal is assembled in the section that               *)
(* variable_section () chooses for it.                                     *)
DataInOwnSection ==
  \A stream \in {"data", "text"} : \A k \in DOMAIN file[stream] :
    LET x == file[stream][k].what
    IN  file[stream][k].op = "data" =>
          EndsIn(file[stream], k,
                 IF x \in Variable THEN VariableSection(x).name ELSE LiteralSection(x).name)

(* So every line is assembled in the section it is for.                    *)
SectionsRight == CodeInOwnSection /\ DataInOwnSection

(* Optimizing for the global pointer "causes the text to be diverted to a  *)
(* tempfile, so that data decls come before references to the data"        *)
(* (mips.c:5603): no object is declared or defined behind the first code.  *)
DeclsBeforeCode ==
  setup.gpOpt /\ pc = "done" =>
    \A k \in DOMAIN file["data"] : file["data"][k].op \in {"data", "common", "extern"} =>
      \A j \in 1..k : file["data"][j].op # "code"

(* "Positively ensure only one .extern for any given symbol" (mips.c:4633),*)
(* and none for a symbol the file defines; and no symbol is forgotten:     *)
(* each object defined here or declared extern has exactly one line.       *)
DeclaredOnce ==
  setup.gpOpt /\ pc = "done" =>
    \A x \in (written \cap Variable)
             \cup {SymbolOf[e] : e \in {u \in symbolUsed :
                     setup.section[u] \in {NoSection, ".sbss", ".sdata"}}} :
      \E k \in DOMAIN file["data"] :
        /\ \A j \in DOMAIN file["data"] :
             file["data"][j].what = x /\ file["data"][j].op # "section" <=> j = k

(* Whichever way its lines went, the code of a function is in one piece in *)
(* the finished file: nothing but its own jump table comes between its     *)
(* first and its last line.                                                *)
FunctionWhole ==
  pc = "done" =>
    \A f \in written \cap Function :
      LET Own == {k \in DOMAIN file["data"] :
                    file["data"][k].op \in {"code", "table"} /\ file["data"][k].what = f}
      IN  /\ f \in HasTable => \E k \in Own : file["data"][k].op = "table"
          /\ \E first, last \in Own :
               \A k \in DOMAIN file["data"] :
                 k \in Own <=> k \in first..last /\ file["data"][k].op # "section"

(* So the finished file has its lines in an order the assembler can use.   *)
FileRight == DeclsBeforeCode /\ DeclaredOnce /\ FunctionWhole

(* "Enabling this puts all externs at the beginning of the generated .asm  *)
(* files" (psx.h:114): nothing comes before an extern.  The code does not: *)
(* extern_head is written at the end of the file.                          *)
ExternsFirst ==
  pc = "done" =>
    \A k \in DOMAIN file["data"] : file["data"][k].op = "extern" =>
      \A j \in 1..k : file["data"][j].op \notin {"code", "data", "common"}

=============================================================================
