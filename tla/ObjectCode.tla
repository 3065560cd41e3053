----------------------------- MODULE ObjectCode -----------------------------
(***************************************************************************)
(* The object file of a compiled program: what dumpObjectCode of           *)
(* src/src/parser.cc writes and what loadObjectCode makes of it, with the  *)
(* code of blocks (src/src/codegen.cc, CodeSequence to Operand).           *)
(*                                                                         *)
(* Nothing in the file says how long its parts are: a loader that reads a  *)
(* word too few takes everything after it for something else.  The file is *)
(* read twice; in the first pass there are no scopes and no strings to     *)
(* refer to, and references are read but not followed.                     *)
(*                                                                         *)
(* A program has scopes and the code of its preamble.  A scope, or a       *)
(* variable, has a kind and fields, in the order of the file, of types     *)
(* that a format names; the marks in a format are only checked.  A         *)
(* reference to a scope is its number, 0 for none, one to a variable its   *)
(* scope and name.  A character string is a sequence of codes.             *)
(*                                                                         *)
(* The operators are recursive; only model checking uses this module.      *)
(***************************************************************************)
EXTENDS Integers, Sequences, SequencesExt

\* Bound: no list or string of a program is longer; a loader that finds one has
\* lost its place in the file.
Longest == 40

Mark == [Scope |-> 1, Block |-> 2, Variable |-> 3, Tag |-> 4, NativeFunction |-> 5,
         Thread |-> 6, InterpretedBlock |-> 7, RawNativeFunction |-> 8, Enum |-> 9,
         Parameter |-> 10, Reference |-> 11, EnumConst |-> 12, Class |-> 13,
         MonitorBlock |-> 14, Interface |-> 15, Function |-> 16, Package |-> 17]

Type == [none |-> 0, integer |-> 1, byte |-> 3, char |-> 5, real |-> 6, bool |-> 7,
         enumconst |-> 10, string |-> 12, stream |-> 20, function |-> 24, thread |-> 26,
         class |-> 28, package |-> 30, enum |-> 32, monitor |-> 34, interface |-> 36]

BlockTypes == {"function", "thread", "class", "package", "enum", "monitor", "interface"}

OpType == [unknown |-> 0, value |-> 1, register |-> 2, variable |-> 3, localvar |-> 4]

\* The opcodes that are written in a way of their own, and two that are not.
Opcode == [nop |-> 0, call |-> 1, b |-> 2, inline |-> 3, bt |-> 4, bf |-> 5, macro |-> 6,
           jmpt |-> 7, try |-> 8, newvector |-> 9, foreach |-> 10, findv |-> 11,
           pushv |-> 12, finda |-> 13, stv |-> 14, pushscope |-> 15]

Named(code, names) == IF \E n \in DOMAIN names : names[n] = code
                      THEN CHOOSE n \in DOMAIN names : names[n] = code ELSE "bad"

\* A value, of which num, ref or text is used; an operand; no operand.
NoVar == <<>>
Val(t, num, ref, text) == [type |-> t, num |-> num, ref |-> ref, text |-> text]
Nothing == Val("none", <<>>, NoVar, <<>>)
Op(t, v) == [type |-> t, val |-> v]
Null == Op("null", Nothing)
Number(n) == Op("int", Val("none", <<n>>, NoVar, <<>>))

\* The variables of a scope; the name and the offset of a variable.
Vars(s) == s.fields[IF s.kind = "Scope" THEN 1 ELSE 8]
VarName(v) == v.fields[1]
Offset(v) == v.fields[3]

-----------------------------------------------------------------------------
(***************************************************************************)
(* Writing.  What is written is a sequence of bytes; of a string that goes *)
(* to the pool, the four bytes of its number, which is not known yet.      *)
(***************************************************************************)
Bytes(w) == <<(w \div 2^24) % 256, (w \div 2^16) % 256, (w \div 2^8) % 256, w % 256>>

Out(bytes) == [i \in DOMAIN bytes |-> [byte |-> bytes[i], pooled |-> <<>>]]
dumpByte(b) == Out(<<b % 256>>)
dumpWord(w) == Out(Bytes(w))
dumpDirectString(s) == dumpWord(Len(s)) \o Out(s)
dumpString(s) == [i \in 1..4 |-> [byte |-> i, pooled |-> <<s>>]]

\* p is the program, whose variables have the offsets.
dumpVariableRef(p, ref) ==
    IF ref = NoVar THEN dumpWord(-1)
    ELSE dumpWord(ref[1]) \o dumpWord(Offset(CHOOSE v \in ToSet(Vars(p.scopes[ref[1]])) :
                                                 VarName(v) = ref[2]))

dumpTagRef(ref) == IF ref = NoVar THEN dumpWord(-1) ELSE dumpWord(ref[1]) \o dumpString(ref[2])

dumpValue(p, v) ==
    dumpByte(Type[v.type]) \o
    CASE v.type \in {"real", "integer", "bool"} -> dumpWord(v.num[1]) \o dumpWord(v.num[2])
      [] v.type \in {"byte", "char", "stream"} -> dumpByte(v.num[1])
      [] v.type = "enumconst" -> dumpVariableRef(p, v.ref)
      [] v.type = "string" -> dumpDirectString(v.text)
      [] v.type \in BlockTypes -> dumpWord(v.num[1])
      [] OTHER -> <<>>

Operand_dump(p, op) ==
    dumpByte(OpType[op.type]) \o
    CASE op.type = "value" -> dumpValue(p, op.val)
      [] op.type = "register" -> dumpWord(op.val.num[1])
      [] op.type = "variable" -> dumpVariableRef(p, op.val.ref) \o dumpWord(op.val.num[1])
      [] op.type = "localvar" -> dumpVariableRef(p, op.val.ref)
      [] OTHER -> <<>>

\* How an instruction writes its operands: in full, as the bare word of an
\* address or a count, as a variable's name or as a scope.
OperandsDumped(i) ==
    CASE i.op \in {"b", "inline"} -> <<"int">>
      [] i.op \in {"bt", "bf", "macro"} -> <<"operand", "int">>
      [] i.op \in {"jmpt", "newvector"} -> <<"operand", "int", "int">>
      [] i.op = "try" -> IF i.src[3].type = "null" THEN <<"int", "int">>
                       ELSE <<"int", "int", "int">>
      [] i.op = "foreach" -> <<"operand", "operand", "int", "operand">>
      [] i.op \in {"findv", "pushv", "finda"} -> <<"operand", "name">>
      [] i.op = "stv" -> <<"operand", "name", "operand">>
      [] i.op = "pushscope" -> <<"at">>
      [] OTHER -> <<"operand", "operand", "operand", "operand">>

\* Lists, and what they are lists of.
ListOf == [tags |-> "tag", references |-> "variable", operators |-> "operator",
           variables |-> "block", scopes |-> "block", instructions |-> "instruction",
           texts |-> "text"]
CodeSequence == <<"word", "word", "word", "instructions">>

\* The parts of a block, from the most general kind of block.
VariableDumped == <<"Variable", "text", "word", "word", "word">>
ParameterDumped == <<"Parameter">> \o VariableDumped \o <<"byte">>
ScopeDumped == <<"Scope", "variables", "word", "scope", "scope", "word">>
BlockDumped == <<"Block", "string", "string", "word", "word", "scope", "scope", "tag">>
               \o ScopeDumped \o <<"tags", "tags", "word", "variable", "scope", "code">>
InterpretedDumped == <<"InterpretedBlock", "Function">> \o BlockDumped \o <<"references">>
NativeDumped == <<"NativeFunction", "Function">> \o BlockDumped \o <<"word">>
ClassDumped == <<"Class">> \o InterpretedDumped \o <<"operators">>

TagDumped == <<"Tag">> \o VariableDumped \o <<"scope", "variable">>
ReferenceDumped == <<"Reference">> \o ParameterDumped
EnumConstDumped == <<"EnumConst">> \o VariableDumped \o <<"scope", "variable", "variable", "wide">>
RawNativeDumped == <<"RawNativeFunction">> \o NativeDumped
ThreadDumped == <<"Thread">> \o InterpretedDumped \o <<"variable", "variable">>
EnumDumped == <<"Enum">> \o InterpretedDumped \o <<"references">>

Dumped(kind) ==
    CASE kind = "Variable" -> VariableDumped
      [] kind = "Tag" -> TagDumped
      [] kind = "Parameter" -> ParameterDumped
      [] kind = "Reference" -> ReferenceDumped
      [] kind = "EnumConst" -> EnumConstDumped
      [] kind = "Scope" -> ScopeDumped
      [] kind = "InterpretedBlock" -> InterpretedDumped
      [] kind = "NativeFunction" -> NativeDumped
      [] kind = "RawNativeFunction" -> RawNativeDumped
      [] kind = "Thread" -> ThreadDumped
      [] kind = "Class" -> ClassDumped
      [] kind \in {"MonitorBlock", "Package", "Interface"} -> <<kind>> \o ClassDumped
      [] kind = "Enum" -> EnumDumped

RECURSIVE Dump(_, _, _)

\* A sequence of values after its length.
DumpList(p, t, list) == dumpWord(Len(list)) \o Dump(p, [i \in DOMAIN list |-> t], list)

\* The fields of a format, one after the other.
Dump(p, format, fields) ==
    IF format = <<>> THEN <<>>
    ELSE LET t == Head(format)
             x == Head(fields)
             isMark == t \in DOMAIN Mark
             first ==
               CASE isMark -> dumpByte(Mark[t])
                 [] t = "byte" -> dumpByte(x)
                 [] t \in {"word", "scope"} -> dumpWord(x)
                 [] t \in {"wide", "operator"} -> dumpWord(x[1]) \o dumpWord(x[2])
                 [] t = "text" -> dumpDirectString(x)
                 [] t = "string" -> dumpString(x)
                 [] t = "variable" -> dumpVariableRef(p, x)
                 [] t = "tag" -> dumpTagRef(x)
                 [] t = "operand" -> IF x.type = "null" THEN dumpByte(255) ELSE Operand_dump(p, x)
                 [] t \in {"int", "at"} -> dumpWord(x.val.num[1])
                 [] t = "name" -> dumpString(x.val.text)
                 [] t = "block" -> Dump(p, Dumped(x.kind), x.fields)
                 [] t \in DOMAIN ListOf -> DumpList(p, ListOf[t], x)
                 [] t = "code" -> IF x = <<>> THEN dumpWord(0)
                                  ELSE dumpWord(1) \o Dump(p, <<"sequence">>, x)
                 [] t = "sequence" -> Dump(p, CodeSequence, x)
                 [] t = "source" -> IF x = <<>> THEN dumpWord(0)
                                    ELSE dumpWord(x[1]) \o dumpString(x[2])
                 [] t = "instruction" ->
                      LET operands == OperandsDumped(x)
                      IN dumpByte(Opcode[x.op])
                         \o Dump(p, <<"operand">> \o operands \o <<"source", "word">>,
                                 <<x.dest>> \o SubSeq(x.src, 1, Len(operands)) \o <<x.source, x.flags>>)
         IN first \o Dump(p, Tail(format), IF isMark THEN fields ELSE Tail(fields))

\* Strings are pooled in the order they are first met, and the pool comes last.
poolString(pool, s) == IF s \in ToSet(pool) THEN pool ELSE Append(pool, s)

Magic == 1097557103

\* The part of a library's path after the last slash.
Slashes(path) == {i \in DOMAIN path : path[i] = 47}
BaseName(path) == SubSeq(path, 1 + Max(Slashes(path)), Len(path))

\* A library's path without a slash: substr throws, nobody catches it, and the
\* file that was opened stays empty.
DumpThrows(p) == \E i \in DOMAIN p.libraries : Slashes(p.libraries[i]) = {}

dumpObjectCode(p) ==
    LET parts == dumpWord(Magic) \o dumpWord(100)
                 \o DumpList(p, "text", [i \in DOMAIN p.libraries |-> BaseName(p.libraries[i])])
                 \o DumpList(p, "block", p.scopes) \o Dump(p, CodeSequence, p.preamble)
        pool == FoldLeft(LAMBDA q, x : poolString(q, x.pooled[1]), <<>>,
                         SelectSeq(parts, LAMBDA x : x.pooled # <<>> /\ x.byte = 1))
        number(s) == (CHOOSE i \in DOMAIN pool : pool[i] = s) - 1
        all == parts \o DumpList(p, "text", pool)
    IN IF DumpThrows(p) THEN <<>>
       ELSE [i \in DOMAIN all |-> IF all[i].pooled = <<>> THEN all[i].byte
                                  ELSE Bytes(number(all[i].pooled[1]))[all[i].byte]]

-----------------------------------------------------------------------------
(***************************************************************************)
(* Reading.  "in" is the file and what is known of it: the pass, the       *)
(* scopes and strings of the first pass, and the scope that is being       *)
(* loaded.  A reading operator returns what it read, the place after it    *)
(* and the number of errors; a program that would abort has one.  Past its *)
(* end a file goes on with bytes of 255.                                   *)
(***************************************************************************)
Got(v, at) == [v |-> v, at |-> at, errors |-> 0]
Abort(in, v) == [v |-> v, at |-> Len(in.bytes) + 1, errors |-> 1]

Byte(in, i) == IF i \in DOMAIN in.bytes THEN in.bytes[i] ELSE 255
Signed(b) == IF b > 127 THEN b - 256 ELSE b

readByte(in, at) == Got(Byte(in, at), at + 1)
readWord(in, at) == Got(Signed(Byte(in, at)) * 2^24 + Byte(in, at + 1) * 2^16
                        + Byte(in, at + 2) * 2^8 + Byte(in, at + 3), at + 4)

readDirectString(in, at) ==
    LET n == readWord(in, at).v
    IN IF n > Longest THEN Abort(in, <<>>)
       ELSE Got([i \in 1..n |-> Byte(in, at + 3 + i)], at + 4 + IF n > 0 THEN n ELSE 0)

readString(in, at) ==
    LET i == readWord(in, at).v
    IN IF in.pass = 1 THEN Got(<<>>, at + 4)
       ELSE IF i + 1 \in DOMAIN in.strings THEN Got(in.strings[i + 1], at + 4) ELSE Abort(in, <<>>)

checkByte(in, at, b) == [readByte(in, at) EXCEPT !.errors = IF Byte(in, at) = b THEN 0 ELSE 1]

readScope(in, at) ==
    LET i == readWord(in, at).v
    IN IF i = 0 \/ in.pass = 1 THEN Got(0, at + 4)
       ELSE IF i \in DOMAIN in.scopes THEN Got(i, at + 4) ELSE Abort(in, 0)

\* The first variable, by name, of a scope at that offset.
findVarAtIndex(in, s, offset) ==
    LET vars == IF s \in DOMAIN in.scopes THEN Vars(in.scopes[s]) ELSE <<>>
        found == {i \in DOMAIN vars : Offset(vars[i]) = offset}
    IN IF found = {} THEN NoVar
       ELSE <<s, VarName(vars[CHOOSE i \in found : \A j \in found : i <= j])>>

Found(in, at, ref) == IF ref = NoVar THEN Abort(in, NoVar) ELSE Got(ref, at)

\* A mutant: a reference that is not followed is not read to its end.
readVariableRef_Short(in, at) ==
    LET s == readWord(in, at).v
    IN IF s = -1 \/ in.pass = 1 THEN Got(NoVar, at + 4)
       ELSE Found(in, at + 8, findVarAtIndex(in, s, readWord(in, at + 4).v))

readVariableRef(in, at) ==
    LET s == readWord(in, at).v
    IN CASE s = -1 -> Got(NoVar, at + 4)
         [] s # -1 /\ in.pass = 1 -> Got(NoVar, at + 8)
         [] OTHER -> Found(in, at + 8, findVarAtIndex(in, s, readWord(in, at + 4).v))

readTagRef(in, at) ==
    LET s == readWord(in, at).v
        name == readString(in, at + 4)
        known == /\ s \in DOMAIN in.scopes
                 /\ \E i \in DOMAIN Vars(in.scopes[s]) : VarName(Vars(in.scopes[s])[i]) = name.v
    IN IF s = -1 THEN Got(NoVar, at + 4)
       ELSE IF in.pass = 1 THEN Got(NoVar, name.at)
       ELSE IF known THEN Got(<<s, name.v>>, name.at) ELSE Abort(in, NoVar)

\* Two words make one of 64 bits; the second extends its sign over the first.
Joined(high, low) == <<IF low < 0 THEN -1 ELSE high, low>>

readWide(in, at) == Got(Joined(readWord(in, at).v, readWord(in, at + 4).v), at + 8)

\* What x, which was read, is as a value of type t; it has no type in the first
\* pass.
AsValue(in, t, x) ==
    LET type == IF in.pass = 1 THEN "none" ELSE t
    IN [x EXCEPT !.v = CASE t \in {"real", "integer", "bool"} -> Val(type, @, NoVar, <<>>)
                         [] t = "enumconst" -> Val(type, <<>>, @, <<>>)
                         [] t = "string" -> Val(type, <<>>, NoVar, @)
                         [] t \in {"none", "bad"} -> Val(type, <<>>, NoVar, <<>>)
                         [] OTHER -> Val(type, <<@>>, NoVar, <<>>)]
readValue(in, at) ==
    LET t == Named(Byte(in, at), Type)
    IN AsValue(in, t, CASE t \in {"real", "integer", "bool"} -> readWide(in, at + 1)
                        [] t \in {"byte", "char", "stream"} -> readByte(in, at + 1)
                        [] t = "enumconst" -> readVariableRef(in, at + 1)
                        [] t = "string" -> readDirectString(in, at + 1)
                        [] t \in BlockTypes -> readScope(in, at + 1)
                        [] OTHER -> Got(0, at + 1))

\* What x is as an operand of type t.
AsOperand(in, t, x) ==
    LET level == readWord(in, x.at).v
    IN CASE t = "value" -> [x EXCEPT !.v = Op(t, @)]
         [] t = "register" -> [x EXCEPT !.v = Op(t, Number(@).val)]
         [] t = "variable" -> [x EXCEPT !.v = Op(t, Val("none", <<level>>, @, <<>>)), !.at = @ + 4]
         [] t = "localvar" -> [x EXCEPT !.v = Op(t, Val("none", <<>>, @, <<>>))]
         [] OTHER -> [x EXCEPT !.v = Op(t, Nothing)]
Operand_load(in, at) ==
    LET t == Named(Byte(in, at), OpType)
    IN AsOperand(in, t, CASE t = "value" -> readValue(in, at + 1)
                          [] t = "register" -> readWord(in, at + 1)
                          [] t \in {"variable", "localvar"} -> readVariableRef(in, at + 1)
                          [] OTHER -> Got(0, at + 1))

readOperand(in, at) == IF Byte(in, at) = 255 THEN Got(Null, at + 1) ELSE Operand_load(in, at)

\* What an instruction reads for its operands.
OperandsLoaded(op) ==
    CASE op \in {"b", "inline"} -> <<"int">>
      [] op \in {"bt", "bf", "macro"} -> <<"operand", "int">>
      [] op \in {"jmpt", "newvector"} -> <<"operand", "int", "int">>
      [] op = "try" -> <<"int", "int">>
      [] op = "foreach" -> <<"operand", "operand", "int", "operand">>
      [] op \in {"findv", "pushv", "finda"} -> <<"operand", "name">>
      [] op = "stv" -> <<"operand", "name", "operand">>
      [] op = "pushscope" -> <<"at">>
      [] OTHER -> <<"operand", "operand", "operand", "operand">>

\* What each kind of block reads.
VariableLoaded == <<"Variable", "text", "word", "word", "word">>
ParameterLoaded == <<"Parameter">> \o VariableLoaded \o <<"byte">>
ScopeLoaded == <<"Scope", "variables", "word", "scope", "scope", "word">>
BlockLoaded == <<"Block", "string", "string", "word", "word", "scope", "scope", "tag">>
               \o ScopeLoaded \o <<"tags", "tags", "word", "variable", "scope", "code">>
InterpretedLoaded == <<"InterpretedBlock", "Function">> \o BlockLoaded \o <<"references">>
NativeLoaded == <<"NativeFunction", "Function">> \o BlockLoaded \o <<"word">>
ClassLoaded == <<"Class">> \o InterpretedLoaded \o <<"operators">>

TagLoaded == <<"Tag">> \o VariableLoaded \o <<"scope", "variable">>
ReferenceLoaded == <<"Reference">> \o ParameterLoaded
EnumConstLoaded == <<"EnumConst">> \o VariableLoaded \o <<"scope", "variable", "variable", "wide">>
RawNativeLoaded == <<"RawNativeFunction">> \o NativeLoaded
ThreadLoaded == <<"Thread">> \o InterpretedLoaded \o <<"variable", "variable">>
EnumLoaded == <<"Enum">> \o InterpretedLoaded \o <<"references">>

Loaded(kind) ==
    CASE kind = "Variable" -> VariableLoaded
      [] kind = "Tag" -> TagLoaded
      [] kind = "Parameter" -> ParameterLoaded
      [] kind = "Reference" -> ReferenceLoaded
      [] kind = "EnumConst" -> EnumConstLoaded
      [] kind = "Scope" -> ScopeLoaded
      [] kind = "InterpretedBlock" -> InterpretedLoaded
      [] kind = "NativeFunction" -> NativeLoaded
      [] kind = "RawNativeFunction" -> RawNativeLoaded
      [] kind = "Thread" -> ThreadLoaded
      [] kind = "Class" -> ClassLoaded
      [] kind \in {"MonitorBlock", "Package", "Interface"} -> <<kind>> \o ClassLoaded
      [] kind = "Enum" -> EnumLoaded

Kinds == DOMAIN Mark \ {"Block", "Function"}

RECURSIVE Read(_, _, _)

ReadList(in, at, t) ==
    LET n == readWord(in, at).v
    IN IF n > Longest THEN Abort(in, <<>>) ELSE Read(in, at + 4, [i \in 1..n |-> t])

\* A list of tags gets its tags in both passes, and in the first they are not
\* known.
Twice(in, l) == IF in.pass = 1 THEN l ELSE [l EXCEPT !.v = [i \in DOMAIN @ |-> NoVar] \o @]
readTagList(in, at) == Twice(in, ReadList(in, at, "tag"))

\* What a scope or variable is comes first in the file.  (The second pass goes
\* by what it was in the first, when the same byte was looked at.)
AsBlock(kind, x) == [x EXCEPT !.v = [kind |-> kind, fields |-> @]]
ReadBlock(in, at) ==
    LET kind == Named(Byte(in, at), Mark)
    IN AsBlock(kind, IF kind \in Kinds THEN Read(in, at, Loaded(kind)) ELSE Abort(in, <<>>))

AsInstruction(op, x) ==
    [x EXCEPT !.v = [op |-> op, dest |-> @[1], source |-> @[Len(@) - 1], flags |-> @[Len(@)],
                     src |-> [i \in 1..4 |-> IF i <= Len(x.v) - 3 THEN x.v[i + 1] ELSE Null]]]
Instruction_load(in, at) ==
    LET op == Named(Byte(in, at), Opcode)
    IN AsInstruction(op, Read(in, at + 1, <<"operand">> \o OperandsLoaded(op) \o <<"source", "word">>))

readSource(in, at) ==
    LET line == readWord(in, at).v
        file == readString(in, at + 4)
    IN IF line = 0 THEN Got(<<>>, at + 4) ELSE [file EXCEPT !.v = <<line, @>>]

readPushscope(in, at) ==
    LET s == readScope(in, at)
    IN [s EXCEPT !.v = IF s.v = 0 THEN Null ELSE Number(s.v)]

readName(in, at) ==
    LET s == readString(in, at)
    IN [s EXCEPT !.v = Op("name", Val("none", <<>>, NoVar, @))]

\* x, which was read for t, and then the rest of a format.
Before(t, x, rest) == [v |-> IF t \in DOMAIN Mark THEN rest.v ELSE <<x.v>> \o rest.v,
                       at |-> rest.at, errors |-> x.errors + rest.errors]
Followed(in, t, x, format) == Before(t, x, Read(in, x.at, format))

\* The fields of a format, one after the other.
Read(in, at, format) ==
    IF format = <<>> THEN Got(<<>>, at)
    ELSE LET t == Head(format)
         IN Followed(in, t,
              CASE t \in DOMAIN Mark -> checkByte(in, at, Mark[t])
                [] t = "byte" -> readByte(in, at)
                [] t = "word" -> readWord(in, at)
                [] t = "scope" -> readScope(in, at)
                [] t = "wide" -> readWide(in, at)
                [] t = "text" -> readDirectString(in, at)
                [] t = "string" -> readString(in, at)
                [] t = "variable" -> readVariableRef(in, at)
                [] t = "tag" -> readTagRef(in, at)
                [] t = "operand" -> readOperand(in, at)
                [] t = "int" -> Got(Number(readWord(in, at).v), at + 4)
                [] t = "at" -> readPushscope(in, at)
                [] t = "name" -> readName(in, at)
                [] t = "source" -> readSource(in, at)
                [] t = "operator" -> Read(in, at, <<"word", "scope">>)
                [] t = "block" -> ReadBlock(in, at)
                [] t = "tags" -> readTagList(in, at)
                [] t \in DOMAIN ListOf \ {"tags"} -> ReadList(in, at, ListOf[t])
                [] t = "code" -> IF readWord(in, at).v = 0 THEN Got(<<>>, at + 4)
                                 ELSE Read(in, at + 4, <<"sequence">>)
                [] t = "sequence" -> Read(in, at, CodeSequence)
                [] t = "instruction" -> Instruction_load(in, at),
              Tail(format))

\* The two passes over the scopes and the preamble; the string pool is read
\* between them.
Second(head, one, two) ==
    [right |-> head.v[1] = Magic /\ head.v[2] = 100, libraries |-> head.v[3],
     scopes |-> two.v[1], preamble |-> two.v[2], errors |-> head.errors + one.errors + two.errors]
First(in, head, one) ==
    Second(head, one, Read([in EXCEPT !.pass = 2, !.scopes = one.v[1], !.strings = one.v[3]],
                           head.at, <<"scopes", "sequence">>))
Headed(in, head) == First(in, head, Read(in, head.at, <<"scopes", "sequence", "texts">>))

loadObjectCode(bytes) ==
    LET in == [bytes |-> bytes, pass |-> 1, scopes |-> <<>>, strings |-> <<>>]
    IN Headed(in, Read(in, 1, <<"word", "word", "texts">>))
=============================================================================
