------------------------------ MODULE CodeGen ------------------------------
(***************************************************************************)
(* CodegenVisitor, the last pass: it prints the program tree as C++.  The  *)
(* recursion of StatementVisitor is the list todo: the statements still to *)
(* be visited, each with the file it is printed to, and the lines that     *)
(* close or go between them.  Words and layout are left out: a line is     *)
(* what kind of statement it is, the AST node it stands for, and its text, *)
(* the names, literals, operators and brackets of the C++ expression.      *)
(***************************************************************************)
EXTENDS ProgramTreeBuilding

VARIABLES
  todo,  \* what is left to print
  files  \* <<name, suffix>> -> the lines printed to that file

cgVars == <<todo, files>>
CgInit == todo = <<>> /\ files = [f \in {} |-> <<>>]
------------------------------------------------------------------------------
(* Expressions *)

Tok(t, at) == [tok |-> t, at |-> at]
Paren(text) == <<Tok("(", 0)>> \o text \o <<Tok(")", 0)>>
IsOp(s) == s.kind = "BinaryOp"
(* Mutant: no brackets. *)
MutParenIfOp_Never(s, text) == text
ParenIfOp(s, text) == IF IsOp(s) THEN Paren(text) ELSE text
Commas(ts) ==
  FlattenSeq([i \in DOMAIN ts |-> IF i = 1 THEN ts[i] ELSE <<Tok(",", 0)>> \o ts[i]])

LeafText(s) == <<Tok(ast[s.at].name, s.at)>>
DeclKinds == {"ScalarDecl", "ScalarDeclLiteral", "ArrayDecl", "ArrayDeclLiteral",
              "TupleDecl", "TupleDeclLiteral"}

(* What stands for an exception or a null pointer while a text is made.    *)
Crash == <<Tok("crash", 0)>>
IsTemplate(s) == s.kind = "Literal" /\ ast[s.at].tag = "StringLiteral"

(* FunctionCallExpression::emit: args are the texts of its arguments, the  *)
(* first of which is the called expression itself; the second argument of  *)
(* inlinecxx has to be a string.                                           *)
CallText(s, args) ==
  LET k == s.symbol.kind.tag
      f == s.symbol.ident.base
      rest == IF args = <<>> THEN <<>> ELSE Tail(args)
  IN  IF k = "cxxfunc"
      THEN IF f # "inlinecxx" \/ args = <<>> THEN <<>>
           ELSE IF rest = <<>> \/ ~IsTemplate(lists[s.list][2]) THEN Crash
           ELSE <<Tok(f, s.at)>> \o FlattenSeq(rest)
      ELSE IF k \notin {"tuple", "func", "array"} THEN <<>>
      ELSE IF f = "[]" /\ args # <<>> THEN args[1] \o Paren(Commas(rest))
      ELSE <<Tok(f, s.at)>> \o Paren(Commas(rest))

OneOp(s, ops, texts) ==
  IF Len(ops) = 1 THEN <<Tok(s.name, s.at)>> \o texts[1] ELSE <<>>

(* ArgumentVisitor: the texts of the statements of list l as arguments.    *)
(* With an operation among its operands an operation prints them in the    *)
(* opposite order.                                                         *)
OpArgText(s, ops, texts) ==
  IF Len(ops) # 2 THEN OneOp(s, ops, texts)
  ELSE IF IsOp(ops[1]) \/ IsOp(ops[2])
  THEN ParenIfOp(ops[2], texts[2]) \o <<Tok(s.name, s.at)>> \o ParenIfOp(ops[1], texts[1])
  ELSE texts[1] \o <<Tok(s.name, s.at)>> \o texts[2]

argTexts[l \in DOMAIN lists] ==
  [i \in DOMAIN lists[l] |->
     LET s == lists[l][i]
     IN  CASE s.kind \in {"Literal", "Variable"} -> LeafText(s)
           [] s.kind = "FunctionCall" -> CallText(s, argTexts[s.list])
           [] s.kind = "BinaryOp"     -> OpArgText(s, lists[s.list], argTexts[s.list])
           [] OTHER                   -> <<>>]

(* Mutant: the operands as ArgumentVisitor prints them. *)
MutOpText_AsArgument(s, ops, texts) == OpArgText(s, ops, texts)

(* ExprVisitor: the same statements in an assignment or an index set.      *)
OpText(s, ops, texts) ==
  IF Len(ops) # 2 THEN OneOp(s, ops, texts)
  ELSE ParenIfOp(ops[1], texts[1]) \o <<Tok(s.name, s.at)>> \o ParenIfOp(ops[2], texts[2])

ExprLeaves == {"Literal", "Variable", "ScalarDecl", "ScalarDeclLiteral", "ScalarDeclExpr",
               "TupleDeclExpr", "TupleDeclLiteral", "ArrayDeclLiteral"}
exprTexts[l \in DOMAIN lists] ==
  [i \in DOMAIN lists[l] |->
     LET s == lists[l][i]
     IN  CASE s.kind \in ExprLeaves   -> LeafText(s)
           [] s.kind = "FunctionCall" -> CallText(s, argTexts[s.list])
           [] s.kind = "BinaryOp"     -> OpText(s, lists[s.list], exprTexts[s.list])
           [] OTHER                   -> <<>>]

(* StatementVisitor on an operation that is a statement of its own. *)
AssignText(s) ==
  LET ops == lists[s.list]
      texts == exprTexts[s.list]
      inner == IF ops[1].kind = "ScalarDeclExpr" /\ ops[1].list # 0 /\ lists[ops[1].list] # <<>>
               THEN exprTexts[ops[1].list][1] \o <<Tok(";", 0)>> ELSE <<>>
  IN  texts[1] \o <<Tok(s.name, s.at)>> \o inner \o Commas(Tail(texts))
------------------------------------------------------------------------------
(* Statements *)

Line(what, at, text) == [what |-> what, at |-> at, text |-> text]
Visit(file, ss) == [i \in DOMAIN ss |-> [file |-> file, print |-> FALSE, s |-> ss[i]]]
Text(file, line) == <<[file |-> file, print |-> TRUE, s |-> line]>>

(* rootos is a null stream: what is printed to it is lost. *)
Null == <<"", "">>
Printed(file, line) ==
  IF file = Null THEN files ELSE [files EXCEPT ![file] = Append(@, line)]

Coding == phase = "code" /\ status = "run" /\ todo # <<>>
task == Head(todo)
s0 == task.s
Visiting(kinds) == Coding /\ ~task.print /\ s0.kind \in kinds
Unchanged == UNCHANGED <<ast, phase, pos, status>> /\ InTree /\ UNCHANGED ptVars
Then(tasks) == Unchanged /\ todo' = tasks \o Tail(todo)
Fail == Stop /\ UNCHANGED cgVars
(* Print a line and go on with the tasks, if its text could be made.       *)
WriteLine(line, tasks) ==
  IF Crash[1] \in ToSet(line.text) THEN Fail
  ELSE Then(tasks) /\ files' = Printed(task.file, line)
Emit(what, text) == WriteLine(Line(what, s0.at, text), <<>>)
Drop == Then(<<>>) /\ UNCHANGED files

PrintLine == Coding /\ task.print /\ WriteLine(s0, <<>>)

(* ScalarDeclarationLiteralExpressionVisitor: the literal has to be one of *)
(* the type's own; int_kind::value of a call, say, is a null pointer.      *)
LiteralTags ==
  [bool |-> "BoolLiteral", byte |-> "BytesLiteral", int |-> "IntLiteral",
   real |-> "RealLiteral", string |-> "StringLiteral"]
HasItsLiteral(s) ==
  s.literal # 0 /\ s.kind.tag \in DOMAIN LiteralTags =>
    ast[s.literal].tag = LiteralTags[s.kind.tag]

(* ArrayDeclarationExpression::emit: the first domain holds ranges only.   *)
HasBounds(k) ==
  LET bounds == Args(Args(k)[1].kind)
  IN  \A i \in DOMAIN bounds : bounds[i].kind.tag = "range"

(* ArrayDeclarationLiteralExpression::emit walks along the children of the *)
(* element type with an index into the domain's arguments, which moves on  *)
(* at arguments with a source line in their names; those are read.         *)
HasElements(k) ==
  LET kinds == Tail(Ret(k))
      values == Args(Args(k)[1].kind)
      Scalar(i) == kinds[i].tag \notin {"array", "func"}
      InLine(v) == v \in DOMAIN values /\ values[v].ident.line # 0
      at[i \in 0 .. Len(kinds)] ==
        IF i = 0 THEN 1 ELSE IF Scalar(i) /\ InLine(at[i - 1]) THEN at[i - 1] + 1 ELSE at[i - 1]
  IN  /\ IsNode(k)
      /\ \A i \in DOMAIN kinds :
           /\ kinds[i].tag # "array" => at[i - 1] \in DOMAIN values
           /\ Scalar(i) /\ InLine(at[i - 1]) => values[at[i - 1]].kind.tag # "range"

Declarable(s) ==
  CASE s.kind = "ScalarDeclLiteral" -> HasItsLiteral(s.symbol)
    [] s.kind = "ArrayDecl"         -> HasBounds(s.symbol.kind)
    [] s.kind = "ArrayDeclLiteral"  -> HasElements(s.symbol.kind)
    [] OTHER                        -> TRUE

EmitDeclaration ==
  Visiting(DeclKinds) /\ IF Declarable(s0) THEN Emit("decl", LeafText(s0)) ELSE Fail

(* Outside a condition a name or a literal by itself prints nothing. *)
EmitNothing == Visiting({"Variable", "Literal"}) /\ Drop

EmitFunctionCall ==
  Visiting({"FunctionCall"}) /\ Emit("call", CallText(s0, argTexts[s0.list]))

EmitBinaryOp ==
  /\ Visiting({"BinaryOp"})
  /\ IF lists[s0.list] = <<>> THEN Fail ELSE Emit("assign", AssignText(s0))

EmitScalarDeclExpr ==
  /\ Visiting({"ScalarDeclExpr"})
  /\ IF s0.list = 0 \/ lists[s0.list] = <<>> THEN Fail
     ELSE LET value == exprTexts[s0.list][1]
          IN  Emit("assign", IF IsOp(lists[s0.list][1]) THEN value
                             ELSE LeafText(s0) \o <<Tok("=", s0.at)>> \o value)

EmitReturn ==
  /\ Visiting({"Return"})
  /\ IF lists[s0.list] = <<>> THEN Fail ELSE Emit("return", argTexts[s0.list][1])

(* The first of an expression's conditions is printed by StatementVisitor, *)
(* which prints nothing for a literal and ends a call with a semicolon.    *)
ConditionText(s) ==
  CASE s.kind = "Variable"     -> LeafText(s)
    [] s.kind = "BinaryOp"     -> IF lists[s.list] = <<>> THEN <<>> ELSE AssignText(s)
    [] s.kind = "FunctionCall" -> CallText(s, argTexts[s.list]) \o <<Tok(";", 0)>>
    [] OTHER                   -> <<>>

EmitConditional ==
  /\ Visiting({"Conditional"}) /\ UNCHANGED files
  /\ LET arm(i) ==
           LET e == s0.exprs[i]
               conds == lists[e.conds]
           IN  Text(task.file,
                 Line(IF i = 1 THEN "if" ELSE IF conds # <<>> THEN "elseif" ELSE "else", e.at,
                      IF conds = <<>> THEN <<>> ELSE ConditionText(conds[1])))
               \o Visit(task.file, lists[e.stmts])
               \o Text(task.file, Line("end", s0.at, <<>>))
     IN  Then(FlattenSeq([i \in DOMAIN s0.exprs |-> arm(i)]))

(* An index set of more than two items trips an assertion. *)
EmitLoop ==
  /\ Visiting(Loops)
  /\ IF Len(lists[s0.index]) > 2 THEN Fail
     ELSE WriteLine(Line(s0.kind, s0.at, <<Tok(s0.iter, s0.at)>> \o Commas(exprTexts[s0.index])),
                Visit(task.file, lists[s0.list]) \o Text(task.file, Line("end", s0.at, <<>>)))

(* Mutant: one formal too few. *)
MutFormals_OneLess(k) ==
  SelectSeq([i \in 1 .. Len(Args(k)) - 2 |-> [first |-> i = 1, arg |-> Args(k)[i]]],
            LAMBDA a : a.first \/ a.arg.kind.tag # "nil")

(* The formals of a function: its arguments but the last, which marks the  *)
(* end of the body; the markers of blocks inside the body are skipped,     *)
(* except in the first place.                                              *)
FuncKindOf(s) == table.lut[table.lut[s.scope].parent].entries[Signature(s.at)].kind
Formals(k) ==
  SelectSeq([i \in 1 .. Len(Args(k)) - 1 |-> [first |-> i = 1, arg |-> Args(k)[i]]],
            LAMBDA a : a.first \/ a.arg.kind.tag # "nil")
Header(s) ==
  LET k == FuncKindOf(s)
      type == Tok(IF Ret(k) = <<>> THEN "" ELSE Last(Ret(k)).tag, 0)
  IN  <<type>> \o [i \in DOMAIN Formals(k) |-> Tok(Formals(k)[i].arg.ident.base, 0)]

(* size() - 1 of an empty list is the largest std::size_t. *)
EmitFunctionDecl ==
  /\ Visiting({"FunctionDecl"})
  /\ IF Args(FuncKindOf(s0)) = <<>> THEN Fail
     ELSE WriteLine(Line("function", s0.at, Header(s0)),
                Visit(task.file, lists[s0.list]) \o Text(task.file, Line("end", s0.at, <<>>)))

EmitAggregate ==
  /\ Visiting({"RecordDecl", "ClassDecl"})
  /\ files' = Printed(task.file, Line(s0.kind, s0.at, <<>>))
  /\ Then(Visit(task.file, lists[s0.list]) \o Text(task.file, Line("end", s0.at, <<>>)))

IsConfig(s) ==
  s.kind \in {"ScalarDecl", "ScalarDeclLiteral", "ScalarDeclExpr"} /\ ast[s.at].flag
IsFunction(s) == s.kind = "FunctionDecl"

(* A module's own two files: the functions, then the config variables,     *)
(* then __main with everything else; the header declares the config        *)
(* variables and the functions.                                            *)
EmitModule ==
  /\ Visiting({"ModuleDecl"})
  /\ LET body == lists[s0.list]
         configs == SelectSeq(body, IsConfig)
         functions == SelectSeq(body, IsFunction)
         rest == SelectSeq(body, LAMBDA s : ~IsConfig(s) /\ ~IsFunction(s))
         cpp == <<s0.name, "cpp">>
         Extern(s) == Line("extern", s.at, LeafText(s))
         Method(s) == Line("method", s.at, Header(s))
     IN  IF \E i \in DOMAIN functions : Args(FuncKindOf(functions[i])) = <<>> THEN Fail
         ELSE /\ files' = (cpp :> <<>>) @@
                  (<<s0.name, "hpp">> :> [i \in DOMAIN configs |-> Extern(configs[i])]
                          \o [i \in DOMAIN functions |-> Method(functions[i])]) @@ files
              /\ Then(Visit(cpp, functions) \o Visit(cpp, configs)
                        \o Text(cpp, Line("__main", s0.at, <<>>))
                        \o Visit(cpp, rest) \o Text(cpp, Line("end", s0.at, <<>>)))
------------------------------------------------------------------------------
(* The driver *)

(* Mutant: modules are counted from one. *)
MutModuleOf_FromOne(s) == table.lut[s.scope].moduleId

(* buildFullNamespaceString: the module whose number the variable's scope  *)
(* carries, and the modules around it.  Reading the symbol of a module     *)
(* that has been popped, or past the end of modules, is where the model    *)
(* stops.  Only the outermost module is not popped, and its scope is the   *)
(* root, of module 0: if that is another one, the loop reads one that is.  *)
ModuleOf(s) == table.lut[s.scope].moduleId + 1
Named(s) ==
  LET m == ModuleOf(s)
  IN  m \in DOMAIN modules /\ modules[m] # Nothing /\ ModuleOf(modules[m]) = m

(* CodegenVisitor::visit: the driver's files, before any module's. *)
StartCode ==
  /\ phase = "code" /\ status = "run" /\ files = [f \in {} |-> <<>>] /\ todo = <<>>
  /\ IF \E i \in DOMAIN configVars : ~Named(configVars[i]) THEN Fail
     ELSE /\ Unchanged /\ todo' = Visit(Null, lists[1])
          /\ files' = <<"driver", "cpp">> :>
               [i \in DOMAIN configVars |->
                  Line("option", 0, <<Tok(modules[ModuleOf(configVars[i])].ident.base, 0),
                                      Tok(configVars[i].ident.base, 0)>>)]
=============================================================================
