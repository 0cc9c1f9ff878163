--------------------------- MODULE SymbolBuilding ---------------------------
(***************************************************************************)
(* SymbolBuildingVisitor, the first pass of the compiler: it walks the     *)
(* program's AST and enters every declaration in the symbol table.  One    *)
(* action per case of enter() and exit().                                  *)
(*                                                                         *)
(* sym, an optional reference, is assigned symstack.back() after every     *)
(* change of symstack or is reset: hasSym says whether it is set, and it   *)
(* then refers to the last symbol of symstack.  symnode is the line of the *)
(* node it points at, 0 for a null pointer.                                *)
(*                                                                         *)
(* Kinds are shared: a symbol's kind refers to an object that other        *)
(* symbols, of the table too, may refer to, and what the visitor stores in *)
(* it through one of them is seen through all.                             *)
(***************************************************************************)
EXTENDS SymbolTable, ChapelAst

CONSTANTS
  Programs,   \* the programs compiled: sequences of events (ChapelAst)
  LineOf(_),  \* emitChapelLine: what stands for a source line in a name
  HasWord(_, _), \* the name s contains the word t (std::string::find)
  Rank(_)        \* the place of an identifier in the order of std::string

(* What std::string::find says of the names the visitors give to scopes.   *)
ASSUME WordsAssumption ==
  \A s \in {"for", "forall", "coforall", "if", "elseif", "else", "block"},
     t \in {"for", "if", "block"} :
    HasWord(s, t) <=>
      s = t \/ <<s, t>> \in {<<"forall", "for">>, <<"coforall", "for">>, <<"elseif", "if">>}

VARIABLES
  ast,        \* the program
  phase,      \* the pass that is running
  pos,        \* the next call of enter or exit
  table,      \* symbolTable
  objects,    \* what the kinds refer to: <<tag, at>> -> [args, ret]
  modules,    \* symbolTable.modules: pointers to the modules left (Nothing: dangling)
  symstack, hasSym, symnode, configVars,
  diags,      \* the messages written to std::cerr: <<pass, position, text>>
  status      \* "run", or "abort": assertion, bad_variant_access, null pointer

sbVars == <<symstack, hasSym, symnode, configVars>>

Builtin(tag) == Symbol(Kind(tag), Name(tag), 0)
CxxFunctions == {"inlinecxx", "incdirs", "libdirs", "libs", "findpkgs", "pkgcfg", "flagscxx"}
Operators == {"+", "-", "*", "/", "%", "=", "[]", "==", "<=>"}
Scalars == {"nil", "bool", "string", "int", "real", "byte", "complex"}

(* the entries of the root scope *)
RootEntries ==
  [i \in {Name(n) : n \in Scalars \cup CxxFunctions \cup Operators
                          \cup {"tuple", "range", "domain", "?"}} |->
     LET n == i.base
     IN  Symbol(CASE n \in CxxFunctions -> Kind("cxxfunc")
                  [] n \in Operators    -> FuncKind(0, i)
                  [] n = "?"            -> Kind("template")
                  [] OTHER              -> Kind(n),
                i, 0)]

(* An object has arguments, each an identifier and a kind: the formals of  *)
(* a function, the domains of an array, what is in a domain, a tuple or a  *)
(* range.  ret is retKind: empty while it is std::monostate, one kind, or  *)
(* for a kind_node_type the mark "node" and its children.                  *)
Object(args, ret) == [args |-> args, ret |-> ret]
Arg(ident, kind) == [ident |-> ident, kind |-> kind]
NodeOf(children) == <<Kind("node")>> \o children

(* Those of the root scope: they stay as they are made, but for the range. *)
RootObjects ==
  [o \in {<<t, 0>> : t \in {"cxxfunc", "func", "tuple", "range", "domain"}} |->
     Object(<<>>, IF o[1] = "cxxfunc" THEN <<Kind("nil")>> ELSE <<>>)]

Init ==
  /\ ast \in Programs
  /\ phase = "symbols" /\ pos = 1 /\ status = "run" /\ diags = {}
  /\ table = [EmptyTable EXCEPT !.lut[0].entries = RootEntries]
  /\ objects = RootObjects /\ modules = <<>> /\ symstack = <<>> /\ hasSym = FALSE /\ symnode = 0
  /\ configVars = <<>>

top == Last(symstack)
tagOf == IF hasSym THEN top.kind.tag ELSE "unset"
node == ast[pos]
At(name) == Ident(name, LineOf(node.line), <<>>)

(* enter or exit is called on a node of this tag; the walk goes on. *)
Enters(tag) == phase = "symbols" /\ status = "run" /\ node.open /\ node.tag = tag
Exits(tag)  == phase = "symbols" /\ status = "run" /\ ~node.open /\ node.tag = tag
GoOn == pos' = pos + 1 /\ UNCHANGED <<ast, phase, status>>
Tables == <<table, objects, modules, diags>>
Abort == status' = "abort" /\ UNCHANGED <<ast, phase, pos>> /\ UNCHANGED Tables
                           /\ UNCHANGED sbVars

Skip == GoOn /\ UNCHANGED Tables /\ UNCHANGED sbVars
SetTopAnd(s, objs) ==
  /\ GoOn /\ objects' = objs /\ UNCHANGED <<table, modules, diags>>
  /\ symstack' = [symstack EXCEPT ![Len(symstack)] = s]
  /\ UNCHANGED <<hasSym, symnode, configVars>>
SetTop(s) == SetTopAnd(s, objects)
SetKind(k) == SetTop([top EXCEPT !.kind = k])
(* Only what a kind refers to changes. *)
Alter(objs) ==
  GoOn /\ objects' = objs /\ UNCHANGED <<table, modules, diags>> /\ UNCHANGED sbVars

(* std::make_shared at the node that is being entered, and what is made.   *)
New(tag) == [Kind(tag) EXCEPT !.at = pos]
Made(tag, object) == <<tag, pos>> :> object

Ref(k) == <<k.tag, k.at>>
Args(k) == objects[Ref(k)].args
Ret(k) == objects[Ref(k)].ret
IsNode(k) == Ret(k) # <<>> /\ Ret(k)[1].tag = "node"
AddArg(k, arg) == [objects EXCEPT ![Ref(k)].args = Append(@, arg)]
AddChild(k, child) == [objects EXCEPT ![Ref(k)].ret = Append(@, child)]
EndsWith(k, tag) == Args(k) # <<>> /\ Last(Args(k)).kind.tag = tag

(* symstack.emplace_back; sym = symstack.back() *)
PushAnd(s, objs) ==
  /\ GoOn /\ symstack' = Append(symstack, s) /\ hasSym' = TRUE
  /\ symnode' = node.line /\ objects' = objs
  /\ UNCHANGED <<table, modules, diags, configVars>>
Push(s) == PushAnd(s, objects)

(* The same with a new scope, which the symbol's kind refers to. *)
Open(tag, ident) ==
  /\ GoOn /\ table' = PushScope(table)
  /\ symstack' = Append(symstack,
       Symbol([FuncKind(Size(table), ident) EXCEPT !.tag = tag, !.at = pos], ident, table.ref))
  /\ objects' = objects @@ Made(tag, Object(<<>>, <<>>))
  /\ hasSym' = TRUE /\ UNCHANGED <<modules, diags, configVars>>

(* symbolTable.addEntry(scopeId, symbolTableSignature, *sym); popScope(),  *)
(* symstack.pop_back(); what sym is afterwards is the caller's.            *)
EnteredAndLeft(s) == PopScope(AddEntry(table, s.scope, s.kind.sig, s))
Diagnose == diags' = diags \cup {<<"symbols", pos>>}
AlreadyDefined == Found(Find(table, top.scope, top.ident))
------------------------------------------------------------------------------
(* Arrays, domains, ranges and tuples *)

Domain_ == Arg(At("domain_"), New("domain"))
(* An array_kind with these domains, and an array's next domain. *)
MadeArray(domains) == Made("array", Object(domains, NodeOf(<<Kind("array")>>)))
WithDomain(k, contents) == AddArg(k, Domain_) @@ Made("domain", Object(contents, <<>>))

EnterArray ==
  /\ Enters("Array")
  /\ LET made == MadeArray(<<Domain_>>) @@ Made("domain", Object(<<>>, <<>>))
     IN  \/ ~hasSym /\ Skip
         \/ tagOf = "none" /\ SetTopAnd([top EXCEPT !.kind = New("array")], objects @@ made)
         \/ /\ tagOf = "array"
            /\ IF IsNode(top.kind) THEN Alter(AddChild(top.kind, New("array")) @@ made) ELSE Abort
         \/ tagOf \notin {"unset", "none", "array"} /\ Abort

(* The last argument of the function that sym stands for. *)
lastArg == Last(Args(top.kind))
LastArgIs(tag) == EndsWith(top.kind, tag)
SetLastArg(k) == [objects EXCEPT ![Ref(top.kind)].args[Len(Args(top.kind))].kind = k]

EnterDomain ==
  /\ Enters("Domain")
  /\ IF tagOf = "func" THEN
       IF Args(top.kind) = <<>> THEN Abort
       ELSE IF LastArgIs("array") THEN Alter(WithDomain(lastArg.kind, <<>>)) ELSE Skip
     ELSE IF tagOf = "array" THEN Alter(WithDomain(top.kind, <<>>))
     ELSE Skip

EnterBracketLoop ==
  /\ Enters("BracketLoop")
  /\ IF ~hasSym THEN Skip
     ELSE IF tagOf # "func"
     THEN SetTopAnd([top EXCEPT !.kind = New("array")], objects @@ MadeArray(<<>>))
     ELSE IF Args(top.kind) = <<>> THEN Abort
     ELSE Alter(SetLastArg(New("array")) @@ MadeArray(<<>>))

IsLoopName(ident) == HasWord(ident.base, "for")

(* The range of a loop is an argument of its function and an entry of the  *)
(* loop's scope: two symbols with one range_kind.                          *)
EnterRange ==
  /\ Enters("Range")
  /\ LET arg == Arg(At("range_"), New("range"))
         made == Made("range", Object(<<>>, <<>>))
     IN  \/ tagOf = "array" /\ Alter(WithDomain(top.kind, <<arg>>) @@ made)
         \/ /\ tagOf = "func" /\ IsLoopName(top.ident)
            /\ GoOn /\ objects' = AddArg(top.kind, arg) @@ made
            /\ table' = AddEntry(table, top.kind.lut, arg.ident,
                                 Symbol(arg.kind, arg.ident, table.ref))
            /\ symnode' = node.line /\ UNCHANGED <<modules, diags, symstack, hasSym, configVars>>
         \/ /\ tagOf \notin {"unset", "none", "array"}
            /\ ~(tagOf = "func" /\ IsLoopName(top.ident)) /\ Skip
         \/ /\ tagOf \in {"unset", "none"}
            /\ PushAnd(Symbol(arg.kind, arg.ident, table.ref), objects @@ made)

ExitRange ==
  /\ Exits("Range")
  /\ IF tagOf # "range" THEN Skip
     ELSE /\ GoOn /\ table' = AddEntry(table, table.ref, top.ident, top)
          /\ hasSym' = FALSE /\ symnode' = 0
          /\ UNCHANGED <<objects, modules, diags, symstack, configVars>>

EnterTuple ==
  /\ Enters("Tuple")
  /\ CASE tagOf = "none"   ->
            SetTopAnd([top EXCEPT !.kind = New("tuple")],
                      objects @@ Made("tuple", Object(<<>>, NodeOf(<<Kind("tuple")>>))))
       [] tagOf = "module" -> Push(Symbol(Kind("none"), At("tuplelit_"), table.ref))
       [] OTHER            -> Skip
------------------------------------------------------------------------------
(* Identifiers, literals and calls *)

(* The last argument of the function sym stands for is the marker that its *)
(* body has begun: expressions no longer describe its signature.           *)
BodyBegun == tagOf = "func" /\ LastArgIs("nil")

(* What an identifier or a literal in an array stands for goes to the      *)
(* array's last domain, or to the range that ends it.                      *)
lastDomain == lastArg.kind
Holder ==
  IF EndsWith(lastDomain, "range") THEN Last(Args(lastDomain)).kind ELSE lastDomain
(* An element of an array literal. *)
Element(arg) ==
  [AddArg(Holder, arg) EXCEPT ![Ref(top.kind)].ret = Append(@, arg.kind)]
(* An element of a tuple. *)
Component(arg) ==
  IF IsNode(top.kind)
  THEN Alter([objects EXCEPT ![Ref(top.kind)] =
                Object(Append(@.args, arg), Append(@.ret, arg.kind))])
  ELSE Abort

IdentifierOfArray(f) ==
  LET arg == Arg(f.ident, f.kind)
  IN  IF Args(top.kind) = <<>> THEN Abort
      ELSE IF Holder = lastDomain \/ (f.scope # 0 /\ Len(Args(Holder)) < 2)
      THEN Alter(AddArg(Holder, arg))
      ELSE SetTopAnd([top EXCEPT !.scope = table.ref],
                     [objects EXCEPT ![Ref(top.kind)].ret = <<f.kind>>])

IdentifierOfFunction(f) ==
  IF f.kind.tag = "cxxfunc" \/ BodyBegun THEN Skip
  ELSE IF Args(top.kind) = <<>>
  THEN Alter([objects EXCEPT ![Ref(top.kind)].ret = <<f.kind>>])
  ELSE IF LastArgIs("range") THEN Alter(AddArg(lastArg.kind, Arg(f.ident, f.kind)))
  ELSE IF LastArgIs("none") THEN Alter(SetLastArg(f.kind))
  ELSE IF LastArgIs("array") /\ f.kind.tag # "func" /\ IsNode(lastArg.kind)
  THEN Alter(AddChild(lastArg.kind, f.kind))
  ELSE Skip

EnterIdentifier ==
  /\ Enters("Identifier")
  /\ LET f == IF ~hasSym THEN Nothing
              ELSE IF tagOf = "none" THEN FindInto(table, Name(node.name))
              ELSE Find(table, top.scope, Name(node.name))
     IN  IF ~Found(f) THEN Skip
         ELSE CASE tagOf = "none"  -> SetTop([top EXCEPT !.kind = f.kind, !.scope = table.ref])
                [] tagOf = "array" -> IdentifierOfArray(f)
                [] tagOf = "tuple" -> Component(Arg(f.ident, f.kind))
                [] tagOf = "func"  -> IdentifierOfFunction(f)
                [] OTHER           -> Skip

(* A literal gives its type to a symbol that has none yet; without a       *)
(* symbol the code dereferences an empty optional.                         *)
Literal(type) ==
  IF ~hasSym THEN Abort
  ELSE IF tagOf = "none" THEN SetTop([top EXCEPT !.kind = Kind(type), !.literal = pos])
  ELSE Skip

EnterBoolLiteral    == Enters("BoolLiteral") /\ Literal("bool")
EnterImagLiteral    == Enters("ImagLiteral") /\ Literal("complex")
EnterRealLiteral    == Enters("RealLiteral") /\ Literal("real")
EnterUintLiteral    == Enters("UintLiteral") /\ Literal("int")
EnterBytesLiteral   == Enters("BytesLiteral") /\ Literal("byte")
EnterCStringLiteral == Enters("CStringLiteral") /\ Literal("string")
EnterStringLiteral  == Enters("StringLiteral") /\ Literal("string")

EnterIntLiteral ==
  /\ Enters("IntLiteral")
  /\ LET arg == Arg(At("intlit_"), Kind("int"))
     IN  CASE tagOf = "none" -> SetTop([top EXCEPT !.kind = Kind("int"), !.literal = pos])
           [] tagOf = "func" ->
                IF LastArgIs("range") THEN Alter(AddArg(lastArg.kind, arg)) ELSE Skip
           [] tagOf = "tuple" -> Component(arg)
           [] tagOf = "range" -> Alter(AddArg(top.kind, arg))
           [] tagOf = "array" ->
                IF ~IsNode(top.kind) THEN Skip
                ELSE IF Args(top.kind) = <<>> THEN Abort
                ELSE Alter(Element(arg))
           [] OTHER -> Skip

(* The entries a call is compared with: from the first that begins with    *)
(* its name to the end of that scope, in the order of the map.             *)
calledIn == PrefixScope(table, table.ref, node.name)
Least(idents) == {i \in idents : \A j \in idents : Rank(i) <= Rank(j)}
NamesExactly(ident, name) == ident.base = name /\ ident.line = 0

(* A call among the elements of an array literal, for the entry that       *)
(* findPrefix found: it becomes an element, and the call is put down as a  *)
(* literal of the entry itself.                                            *)
CallAsElement(ident) ==
  LET s == table.lut[calledIn].entries[ident]
  IN  IF ~IsNode(top.kind) THEN Skip
      ELSE IF Args(top.kind) = <<>> THEN Abort
      ELSE /\ GoOn /\ objects' = Element(Arg(s.ident, s.kind))
           /\ table' = MarkLiteral(table, calledIn, ident, pos)
           /\ UNCHANGED <<modules, diags>> /\ UNCHANGED sbVars

(* The type of `var x = f(..)': the function's result, or the element of a *)
(* tuple that the first actual selects.  Which one is left open; an index  *)
(* behind the last element stops the process.                              *)
TypeOfCall(r) == IF r.tag = "nil" THEN Kind("expr") ELSE r
CallAsValue(k) ==
  IF k.tag = "func"
  THEN IF Ret(k) = <<>> THEN Skip ELSE SetKind(TypeOfCall(Ret(k)[1]))
  ELSE \/ Abort
       \/ /\ ast[pos + 3].tag = "IntLiteral" /\ IsNode(k)
          /\ \E i \in 2 .. Len(Ret(k)) : SetKind(TypeOfCall(Ret(k)[i]))

EnterFnCall ==
  /\ Enters("FnCall")
  /\ IF tagOf \notin {"none", "array"} THEN Skip
     ELSE IF calledIn = NoScope THEN Abort
     ELSE LET entries == table.lut[calledIn].entries
              decides(i) == \/ NamesExactly(i, node.name) /\ entries[i].kind.tag = "func"
                            \/ entries[i].kind.tag = "tuple"
          IN  \E first \in Least({i \in DOMAIN entries : Begins(i.base, node.name)}) :
                LET deciding == {i \in DOMAIN entries : Rank(first) <= Rank(i) /\ decides(i)}
                IN  IF tagOf = "array" THEN CallAsElement(first)
                    ELSE IF deciding = {} THEN Skip
                    ELSE \E i \in Least(deciding) : CallAsValue(entries[i].kind)

EnterOpCall ==
  /\ Enters("OpCall")
  /\ IF tagOf = "none" THEN SetKind(Kind("expr")) ELSE Skip
------------------------------------------------------------------------------
(* Declarations *)

EnterFormal ==
  /\ Enters("Formal")
  /\ IF tagOf # "func" THEN Skip
     ELSE /\ GoOn
          /\ LET arg == Arg(Name(node.name), Kind("none"))
             IN  /\ objects' = AddArg(top.kind, arg)
                 /\ table' = AddEntry(table, top.kind.lut, arg.ident,
                                      Symbol(arg.kind, arg.ident, table.ref))
          /\ UNCHANGED <<modules, diags>> /\ UNCHANGED sbVars

EnterVariable ==
  /\ Enters("Variable")
  /\ Push([Symbol(Kind("none"), Name(node.name), table.ref) EXCEPT !.config = node.flag])

(* Mutant: a config variable with a declared type is forgotten. *)
MutConfigured_Literals ==
  IF top.config /\ top.literal # 0 THEN Append(configVars, top) ELSE configVars
Configured == IF top.config THEN Append(configVars, top) ELSE configVars

ExitVariable ==
  /\ Exits("Variable")
  /\ IF ~hasSym THEN Skip
     ELSE /\ GoOn
          /\ configVars' = Configured
          /\ UNCHANGED <<objects, modules>>
          /\ IF AlreadyDefined
             THEN Diagnose /\ UNCHANGED <<table, symstack, hasSym, symnode>>
             ELSE /\ table' = AddEntry(table, top.scope, top.ident, top)
                  /\ symstack' = Front(symstack)
                  /\ hasSym' = (Len(symstack) > 1) /\ symnode' = 0 /\ UNCHANGED diags

(* Signature: the name and every identifier in front of the first block.   *)
SignatureOf(program, p) ==
  LET body == CHOOSE q \in p .. Len(program) :
                program[q].tag = "Block" /\ \A r \in p .. q - 1 : program[r].tag # "Block"
      types == SelectSeq(SubSeq(program, p, body), LAMBDA e : e.open /\ e.tag = "Identifier")
  IN  Ident(program[p].name, 0, [i \in DOMAIN types |-> types[i].name])
Signature(p) == SignatureOf(ast, p)

OpenAt(tag, ident) == Open(tag, ident) /\ symnode' = node.line

EnterFunction == Enters("Function") /\ OpenAt("func", Signature(pos))
EnterRecord   == Enters("Record") /\ OpenAt("record", Name(node.name))
EnterClass    == Enters("Class") /\ OpenAt("class", Name(node.name))

EnterModule ==
  /\ Enters("Module") /\ GoOn
  /\ table' = PushScope([table EXCEPT !.moduleId = Len(modules)])
  /\ symstack' = Append(symstack, Symbol(
       [Kind("module") EXCEPT !.lut = Size(table), !.sig = Name(node.name)],
       Name(node.name), table.ref))
  /\ hasSym' = TRUE /\ symnode' = node.line /\ UNCHANGED <<objects, modules, diags, configVars>>

(* After a module, a record or a class sym is set again only from the      *)
(* third symbol of the stack on.  The symbol of a nested module is popped, *)
(* and the pointer kept in modules dangles.                                *)
LeaveDecl ==
  /\ symstack' = IF Len(symstack) > 1 THEN Front(symstack) ELSE symstack
  /\ hasSym' = (Len(symstack) > 3) /\ symnode' = 0
Duplicate == GoOn /\ Diagnose /\ UNCHANGED <<table, objects, modules>> /\ UNCHANGED sbVars

ExitModule ==
  /\ Exits("Module")
  /\ IF AlreadyDefined
     THEN /\ GoOn /\ Diagnose /\ hasSym' = TRUE
          /\ UNCHANGED <<table, objects, modules, symstack, symnode, configVars>>
     ELSE IF top.kind.tag # "module" THEN Abort
     ELSE /\ GoOn /\ LeaveDecl
          /\ modules' = Append(modules, IF Len(symstack) > 1 THEN Nothing ELSE top)
          /\ LET left == [table EXCEPT !.moduleId = @ - 1]
             IN  table' = PopScope(AddEntry(left, top.scope, top.kind.sig, top))
          /\ UNCHANGED <<objects, diags, configVars>>

ExitAggregate(tag) ==
  IF ~hasSym THEN Skip
  ELSE IF AlreadyDefined THEN Duplicate
  ELSE IF tagOf # tag THEN Abort
  ELSE /\ GoOn /\ LeaveDecl /\ table' = EnteredAndLeft(top)
       /\ UNCHANGED <<objects, modules, diags, configVars>>

ExitRecord == Exits("Record") /\ ExitAggregate("record")
ExitClass  == Exits("Class") /\ ExitAggregate("class")

(* exit(Function), also the second half of exit(Conditional), for a stack  *)
(* and a table the first half left. *)
NilIfNone(ret) == IF ret = <<>> THEN <<Kind("nil")>> ELSE ret
LeaveFunction(stack, st) ==
  LET s == Last(stack)
  IN  /\ GoOn
      /\ UNCHANGED <<modules, configVars>>
      /\ IF Found(Find(st, s.scope, s.ident))
         THEN /\ Diagnose /\ table' = st /\ symstack' = stack
              /\ UNCHANGED <<objects, hasSym, symnode>>
         ELSE /\ table' = PopScope(AddEntry(st, s.scope, s.kind.sig, s))
              /\ objects' = [objects EXCEPT ![Ref(s.kind)].ret = NilIfNone(@)]
              /\ symstack' = Front(stack) /\ symnode' = 0 /\ UNCHANGED <<diags, hasSym>>

ExitFunction ==
  /\ Exits("Function")
  /\ IF ~hasSym THEN Skip
     ELSE IF tagOf # "func" THEN Abort ELSE LeaveFunction(symstack, table)
------------------------------------------------------------------------------
(* Loops, conditionals and blocks: scopes named by their source line *)

EnterFor      == Enters("For") /\ OpenAt("func", At("for"))
EnterForall   == Enters("Forall") /\ OpenAt("func", At("forall"))
EnterCoforall == Enters("Coforall") /\ OpenAt("func", At("coforall"))

ExitLoop ==
  /\ \E tag \in {"For", "Forall", "Coforall"} : Exits(tag)
  /\ IF tagOf # "func" THEN Abort
     ELSE /\ GoOn /\ table' = EnteredAndLeft(top) /\ symstack' = Front(symstack)
          /\ symnode' = 0 /\ UNCHANGED <<objects, modules, diags, hasSym, configVars>>

IsIf == tagOf = "func" /\ HasWord(top.kind.sig.base, "if")
IsElseBlock == tagOf = "func" /\ HasWord(top.kind.sig.base, "block")

(* A conditional straight after the else-block of another is its           *)
(* continuation: the block's scope is renamed.                             *)
EnterConditional ==
  /\ Enters("Conditional")
  /\ IF IsElseBlock
     THEN SetTop([top EXCEPT !.ident.base = "else", !.kind.sig.base = "elseif"])
     ELSE OpenAt("func", At("if"))

(* Mutant: the scope of an else-block is not left. *)
MutExitConditional_OnePop ==
  /\ Exits("Conditional")
  /\ LET s == [top EXCEPT !.ident.base = "else", !.kind.sig.base = "else"]
     IN  IF ~hasSym THEN Skip
         ELSE IF IsElseBlock
         THEN IF Len(symstack) < 2 \/ symstack[Len(symstack) - 1].kind.tag # "func" THEN Abort
              ELSE LeaveFunction(Front(symstack), AddEntry(table, s.scope, s.kind.sig, s))
         ELSE IF tagOf # "func" THEN Abort ELSE LeaveFunction(symstack, table)

(* exit(Conditional) has no break: it runs on into exit(Function). *)
ExitConditional ==
  /\ Exits("Conditional")
  /\ LET s == [top EXCEPT !.ident.base = "else", !.kind.sig.base = "else"]
     IN  IF ~hasSym THEN Skip
         ELSE IF IsElseBlock
         THEN IF Len(symstack) < 2 \/ symstack[Len(symstack) - 1].kind.tag # "func" THEN Abort
              ELSE LeaveFunction(Front(symstack), EnteredAndLeft(s))
         ELSE IF tagOf # "func" THEN Abort ELSE LeaveFunction(symstack, table)

EnterBlock ==
  /\ Enters("Block")
  /\ IF tagOf \in {"unset", "module"} THEN Open("func", At("else")) /\ UNCHANGED symnode
     ELSE IF symnode = 0 THEN Abort
     ELSE IF IsIf /\ LineOf(symnode) # LineOf(node.line)
     THEN OpenAt("func", At("block"))
     ELSE Skip

(* The end of a block: the marker BodyBegun looks for. *)
ExitBlock ==
  /\ Exits("Block")
  /\ IF tagOf # "func" THEN Skip
     ELSE /\ GoOn /\ UNCHANGED <<table, modules>> /\ UNCHANGED sbVars
          /\ LET marked == AddArg(top.kind, Arg(Name("nil"), Kind("nil")))
             IN  IF AlreadyDefined THEN Diagnose /\ objects' = marked
                 ELSE /\ UNCHANGED diags
                      /\ objects' = [marked EXCEPT ![Ref(top.kind)].ret = NilIfNone(@)]

(* Nodes the visitor has no code for. *)
Ignored == {"Return", "Yield", "Zip", "Dot", "Comment"}
EntersIgnored == \E tag \in Ignored : Enters(tag) /\ Skip
ExitsOther ==
  /\ phase = "symbols" /\ status = "run" /\ ~node.open
  /\ node.tag \notin {"Range", "Variable", "For", "Forall", "Coforall", "Block",
                      "Conditional", "Function", "Module", "Record", "Class"}
  /\ Skip
=============================================================================
