------------------------ MODULE ProgramTreeBuilding ------------------------
(***************************************************************************)
(* ProgramTreeBuildingVisitor, the second pass: it walks the same AST and, *)
(* with the symbol table of the first, builds the program tree.            *)
(*                                                                         *)
(* A statement list is a number: lists[n] is its contents, list 1 is       *)
(* program.statements.  curStmts is the visitor's stack of pointers to the *)
(* lists it is filling; it decides what a node is by looking at the last   *)
(* statement of the list on top ("Top") and of the one below ("Under").    *)
(***************************************************************************)
EXTENDS SymbolBuilding

VARIABLES
  lists,     \* the statement lists made so far
  curStmts,  \* the stack of lists
  treeRef    \* the visitor's own symbolTableRef

ptVars == <<lists, curStmts, treeRef>>

PtInit == lists = <<<<>>>> /\ curStmts = <<1>> /\ treeRef = 0

(* kind, the AST node it was made from, its scope, its own list and, for a *)
(* loop, its indexSet and iterator; exprs are the conditions and           *)
(* statements of a conditional, symbol that of a call or a declaration.    *)
Stmt(kind, list) ==
  [kind |-> kind, at |-> pos, name |-> node.name, scope |-> treeRef,
   list |-> list, index |-> 0, iter |-> "", exprs |-> <<>>, symbol |-> Nothing]

cur == Last(curStmts)
under == curStmts[Len(curStmts) - 1]
LastOf(l) == IF lists[l] = <<>> THEN "empty" ELSE Last(lists[l]).kind
Top(kind) == curStmts # <<>> /\ LastOf(cur) = kind
Under(kind) == Len(curStmts) > 1 /\ LastOf(under) = kind

Loops == {"ForLoop", "ForallLoop", "CoforallLoop"}
UnderLoop == \E kind \in Loops : Under(kind)
loop == Last(lists[under])

InTree == UNCHANGED Tables /\ UNCHANGED sbVars
Visits(tag) == phase = "tree" /\ status = "run" /\ node.open /\ node.tag = tag
Leaves(tag) == phase = "tree" /\ status = "run" /\ ~node.open /\ node.tag = tag

(* enter returned true, or false: then the children are left out. *)
Children_ == GoOn /\ InTree
NoChildren ==
  /\ pos' = CloseOf(ast, pos) /\ UNCHANGED <<ast, phase, status>> /\ UNCHANGED sbVars
  /\ diags' = diags \cup {<<"tree", pos>>} /\ UNCHANGED <<table, objects, modules>>
Stop == Abort /\ UNCHANGED ptVars
Pass == Children_ /\ UNCHANGED ptVars

(* Most cases begin by reading curStmts.back(), which may not be there. *)
InList(action) == IF curStmts = <<>> THEN Stop ELSE action

Fresh == Len(lists) + 1
Put(l, s) == [lists EXCEPT ![l] = Append(@, s)]
Add(s) == InList(Children_ /\ lists' = Put(cur, s) /\ UNCHANGED <<curStmts, treeRef>>)

(* Append a statement that owns a list, and go on filling that list. *)
AddAndEnter(s) ==
  InList(/\ Children_ /\ lists' = Append(Put(cur, s), <<>>)
         /\ curStmts' = Append(curStmts, Fresh) /\ UNCHANGED treeRef)

(* The declaration at the end of the list becomes the left-hand side of an *)
(* assignment whose right-hand side is a new call or operation (rhs, or    *)
(* nothing if no function of that name was found); go on with its operands.*)
InitialiseWith(rhs, lhs) ==
  /\ Children_ /\ UNCHANGED treeRef
  /\ lists' = [lists EXCEPT ![cur] =
                  Append(Front(@), [Stmt("BinaryOp", Fresh) EXCEPT !.name = "="])]
                \o <<<<[Last(lists[cur]) EXCEPT !.kind = lhs,
                        !.list = IF lhs = "TupleDeclExpr" THEN 0 ELSE @]>> \o rhs, <<>>>>
  /\ curStmts' = IF rhs # <<>> THEN Append(curStmts, Fresh + 1) ELSE curStmts

Lookup(ident) == Find(table, treeRef, ident)
prefixScope == PrefixScope(table, treeRef, node.name)
(* The entries the prefix search walks through, in the order of the map:   *)
(* the first that begins with the name, the first of just that name.       *)
entriesFound == table.lut[prefixScope].entries
FirstOf(ids) == entriesFound[CHOOSE i \in Least(ids) : TRUE]
named == {i \in DOMAIN entriesFound : NamesExactly(i, node.name)}
NamedExactly == prefixScope # NoScope /\ named # {}
prefixHit == FirstOf({i \in DOMAIN entriesFound : Begins(i.base, node.name)})
------------------------------------------------------------------------------
(* Identifiers *)

Variable == Stmt("Variable", 0)

(* An item of a loop's header: the index set takes two, and what follows   *)
(* goes into the operation that ends it, else into the body.               *)
IdentifierOfLoop(known) ==
  LET set == lists[loop.index]
      op == set # <<>> /\ Last(set).kind = "BinaryOp"
      into == IF known
              THEN IF Len(set) < 2 THEN loop.index
                   ELSE IF op THEN Last(set).list ELSE cur
              ELSE IF Len(set) >= 2 THEN cur
                   ELSE IF op THEN Last(set).list ELSE loop.index
  IN  IF ~known /\ set = <<>> THEN Stop
      ELSE Children_ /\ lists' = Put(into, Variable) /\ UNCHANGED <<curStmts, treeRef>>

(* isIntegralKind: the name of a built-in type *)
IsTypeName(s) == s.scope = 0 /\ s.kind.tag \in Scalars \cup {"range"}

VisitIdentifier ==
  /\ Visits("Identifier")
  /\ LET s == Lookup(Name(node.name))
     IN  IF curStmts = <<>> THEN Stop
         ELSE IF ~Found(s) /\ prefixScope = NoScope
         THEN IF Under("BinaryOp") THEN NoChildren /\ UNCHANGED ptVars ELSE Stop
         ELSE IF ~Found(s) /\ ~NamedExactly THEN Pass
         ELSE IF Under("BinaryOp") THEN Add(Variable)
         ELSE IF Top("Return")
         THEN /\ Children_ /\ lists' = Put(Last(lists[cur]).list, Variable)
              /\ UNCHANGED <<curStmts, treeRef>>
         ELSE IF UnderLoop THEN IdentifierOfLoop(Found(s))
         ELSE IF Found(s) /\ IsTypeName(s) THEN Pass
         ELSE Add(Variable)
------------------------------------------------------------------------------
(* Literals *)

LiteralInto(l) ==
  Children_ /\ lists' = Put(l, Stmt("Literal", 0)) /\ UNCHANGED <<curStmts, treeRef>>

(* The cases every literal has: `others' stands for those of one type. *)
LiteralOr(others) ==
  IF curStmts = <<>> THEN Stop
  ELSE IF Under("BinaryOp") THEN LiteralInto(cur)
  ELSE IF Top("FunctionCall") \/ Top("Return") THEN LiteralInto(Last(lists[cur]).list)
  ELSE others

(* A number initialises the declaration it follows, which takes its type.  *)
Number(type) ==
  IF Top("ScalarDecl")
  THEN /\ Children_ /\ UNCHANGED <<curStmts, treeRef>>
       /\ lists' = [lists EXCEPT ![cur][Len(lists[cur])] =
                      [@ EXCEPT !.kind = "ScalarDeclLiteral",
                                !.symbol.kind = Kind(type), !.symbol.literal = pos]]
  ELSE IF Top("ScalarDeclLiteral") THEN Pass ELSE LiteralInto(cur)

VisitBoolLiteral   == Visits("BoolLiteral") /\ LiteralOr(LiteralInto(cur))
VisitRealLiteral   == Visits("RealLiteral") /\ LiteralOr(Number("real"))
VisitStringLiteral == Visits("StringLiteral") /\ LiteralOr(LiteralInto(cur))

VisitIntLiteral ==
  /\ Visits("IntLiteral")
  /\ IF Under("BinaryOp") /\ Top("TupleDeclLiteral") THEN Pass
     ELSE IF ~Under("BinaryOp") /\ UnderLoop
     THEN LiteralInto(LET set == lists[loop.index]
                      IN  IF set # <<>> /\ Last(set).kind = "BinaryOp"
                          THEN Last(set).list ELSE loop.index)
     ELSE LiteralOr(Number("int"))
------------------------------------------------------------------------------
(* Calls and operations *)

CallOf(s, list) == [Stmt("FunctionCall", list) EXCEPT !.symbol = s]
Subscript == AddAndEnter(CallOf(Lookup(Name("[]")), Fresh))

(* A call among the operands of an operation *)
OperandCall(s) ==
  IF s.kind.tag = "array" THEN Subscript
  ELSE IF prefixScope = NoScope THEN Stop
  ELSE IF NamedExactly THEN AddAndEnter(CallOf(FirstOf(named), Fresh)) ELSE Pass

(* Mutant: a declaration with a literal is taken for one without a value. *)
MutCallByPrefix_Literal ==
  LET exact == IF NamedExactly THEN <<CallOf(FirstOf(named), Fresh + 1)>> ELSE <<>>
  IN  IF prefixScope = NoScope THEN NoChildren /\ UNCHANGED ptVars
      ELSE IF \E d \in {"ScalarDecl", "ScalarDeclLiteral", "ScalarDeclExpr", "Variable"} : Top(d)
      THEN InitialiseWith(exact, "ScalarDeclExpr")
      ELSE IF Top("ArrayDeclLiteral") \/ exact = <<>> THEN Pass
      ELSE AddAndEnter(CallOf(FirstOf(named), Fresh))

(* A call that find did not settle: what stands before it decides whether  *)
(* it is a statement or the value of a declaration.                        *)
CallByPrefix ==
  LET exact == IF NamedExactly THEN <<CallOf(FirstOf(named), Fresh + 1)>> ELSE <<>>
  IN  IF prefixScope = NoScope THEN NoChildren /\ UNCHANGED ptVars
      ELSE IF \E d \in {"ScalarDecl", "ScalarDeclExpr", "Variable"} : Top(d)
      THEN InitialiseWith(exact, "ScalarDeclExpr")
      ELSE IF Top("ScalarDeclLiteral") THEN AddAndEnter(CallOf(prefixHit, Fresh))
      ELSE IF Top("ArrayDeclLiteral") \/ exact = <<>> THEN Pass
      ELSE AddAndEnter(CallOf(FirstOf(named), Fresh))

VisitFnCall ==
  /\ Visits("FnCall")
  /\ LET s == Lookup(Name(node.name))
     IN  IF curStmts = <<>> THEN Stop
         ELSE IF node.flag THEN Subscript
         ELSE IF Under("BinaryOp") THEN OperandCall(s)
         ELSE IF Found(s) /\ Top("ScalarDeclExpr")
         THEN InitialiseWith(<<CallOf(s, Fresh + 1)>>, "TupleDeclExpr")
         ELSE IF Found(s) /\ s.kind.tag # "cxxfunc" /\ Top("ScalarDeclLiteral") THEN Pass
         ELSE CallByPrefix

VisitOpCall ==
  /\ Visits("OpCall")
  /\ IF curStmts = <<>> THEN Stop
     ELSE IF node.name \notin Operators THEN NoChildren /\ UNCHANGED ptVars
     ELSE IF Top("ScalarDeclExpr") \/ (Top("ScalarDecl") /\ node.name # "=")
     THEN InitialiseWith(<<Stmt("BinaryOp", Fresh + 1)>>, "ScalarDeclExpr")
     ELSE IF UnderLoop /\ Len(lists[loop.index]) < 2
     THEN /\ Children_ /\ UNCHANGED <<curStmts, treeRef>>
          /\ lists' = Append(Put(loop.index, Stmt("BinaryOp", Fresh)), <<>>)
     ELSE AddAndEnter(Stmt("BinaryOp", Fresh))

VisitTuple ==
  /\ Visits("Tuple")
  /\ IF Under("BinaryOp") THEN Add(Stmt("TupleDeclLiteral", 0)) ELSE Pass

(* return: only straight under the function; a result type the first pass  *)
(* took for nil becomes auto.                                              *)
VisitReturn ==
  /\ Visits("Return")
  /\ IF Len(curStmts) < 2 THEN Stop
     ELSE IF ~Under("FunctionDecl") THEN Pass
     ELSE LET fn == Last(lists[under])
              home == table.lut[fn.scope].parent
              k == table.lut[home].entries[Signature(fn.at)].kind
          IN  /\ GoOn /\ UNCHANGED <<table, modules, diags, treeRef>> /\ UNCHANGED sbVars
              /\ lists' = Append(Put(cur, Stmt("Return", Fresh)), <<>>)
              /\ curStmts' = Append(curStmts, Fresh)
              /\ objects' = IF Ret(k) = <<Kind("nil")>>
                            THEN [objects EXCEPT ![Ref(k)].ret = <<Kind("auto")>>]
                            ELSE objects

Pop(n) == curStmts' = SubSeq(curStmts, 1, Len(curStmts) - n)

(* exit(Return), exit(FnCall): unconditional *)
LeaveCall ==
  /\ (Leaves("FnCall") \/ Leaves("Return"))
  /\ IF curStmts = <<>> THEN Stop ELSE Children_ /\ Pop(1) /\ UNCHANGED <<lists, treeRef>>

LeaveOpCall ==
  /\ Leaves("OpCall")
  /\ IF UnderLoop THEN Pass
     ELSE IF Len(curStmts) < 2 THEN Stop
     ELSE Children_ /\ Pop(1) /\ UNCHANGED <<lists, treeRef>>
------------------------------------------------------------------------------
(* Variables *)

(* VariableVisitor and VariableLiteralVisitor: the statement a declaration *)
(* of this kind becomes, "" for none.                                      *)
DeclOf(tag) ==
  CASE tag \in Scalars \ {"nil"} -> "ScalarDecl"
    [] tag \in {"expr", "func"} -> "ScalarDeclExpr"
    [] OTHER                    -> ""
LiteralDeclOf(tag) ==
  CASE tag \in Scalars \ {"nil"} -> "ScalarDeclLiteral"
    [] tag = "expr"              -> "ScalarDeclExpr"
    [] OTHER                     -> ""

Declare(kind, s) == IF kind = "" THEN Pass ELSE Add([Stmt(kind, 0) EXCEPT !.symbol = s])

(* An array: what its last domain ends in decides whether it is declared   *)
(* with its bounds or with its elements.                                   *)
DeclareArray(s) ==
  LET domains == Args(s.kind)
      lastOne == Last(domains).kind
      literal == s.literal # 0 \/ IsNode(s.kind)
  IN  IF domains = <<>> THEN Stop
      ELSE IF Args(lastOne) = <<>> THEN Stop
      ELSE IF ~EndsWith(lastOne, "range") THEN Declare("ArrayDeclLiteral", s)
      ELSE IF ~literal THEN Declare("ArrayDecl", s)
      ELSE IF Len(domains) = 1 THEN Declare("ArrayDeclLiteral", s)
      ELSE Stop

VisitVariable ==
  /\ Visits("Variable")
  /\ LET s == Lookup(Name(node.name))
         k == s.kind
     IN  IF UnderLoop
         THEN IF ~Found(s) THEN Stop
              ELSE /\ Children_ /\ UNCHANGED <<curStmts, treeRef>>
                   /\ lists' = [lists EXCEPT ![under][Len(lists[under])].iter = node.name]
         ELSE IF ~Found(s) THEN Pass
         ELSE CASE k.tag = "array" -> DeclareArray(s)
                [] k.tag = "tuple" ->
                     Declare(IF Args(k) # <<>> THEN "TupleDeclLiteral" ELSE "TupleDecl", s)
                [] k.tag \in {"none", "nil"} -> AddAndEnter(Stmt("ScalarDeclExpr", Fresh))
                [] OTHER ->
                     Declare(IF s.literal # 0 THEN LiteralDeclOf(k.tag) ELSE DeclOf(k.tag), s)

LeaveVariable ==
  /\ Leaves("Variable")
  /\ IF Under("ScalarDeclExpr")
     THEN Children_ /\ Pop(1) /\ UNCHANGED <<lists, treeRef>>
     ELSE Pass
------------------------------------------------------------------------------
(* Scopes *)

(* Enter the scope the first pass made, append the statement for it and    *)
(* go on filling its list.                                                 *)
OpenScope(kind, s) ==
  LET st == [Stmt(kind, Fresh) EXCEPT !.scope = s.kind.lut]
  IN  InList(/\ Children_ /\ treeRef' = s.kind.lut
             /\ lists' = Append(Put(cur, st), <<>>)
             /\ curStmts' = Append(curStmts, Fresh))

OpenLoop(kind, s) ==
  LET st == [Stmt(kind, Fresh) EXCEPT !.scope = s.kind.lut, !.index = Fresh + 1]
  IN  InList(/\ Children_ /\ treeRef' = s.kind.lut
             /\ lists' = Put(cur, st) \o <<<<>>, <<>>>>
             /\ curStmts' = Append(curStmts, Fresh))

VisitLoop(kind, name) ==
  LET s == Lookup(At(name))
  IN  IF Found(s) THEN OpenLoop(kind, s) ELSE Pass

VisitFor      == Visits("For") /\ VisitLoop("ForLoop", "for")
VisitForall   == Visits("Forall") /\ VisitLoop("ForallLoop", "forall")
VisitCoforall == Visits("Coforall") /\ VisitLoop("CoforallLoop", "coforall")

(* A function, a module, a record or a class that the first pass entered;  *)
(* curStmts is popped again for a function only.                           *)
VisitDecl(kind, tag, s) ==
  IF Found(s) THEN IF s.kind.tag = tag THEN OpenScope(kind, s) ELSE Stop
  ELSE IF prefixScope = NoScope THEN Stop
  ELSE NoChildren /\ UNCHANGED ptVars

VisitFunction ==
  /\ Visits("Function")
  /\ VisitDecl("FunctionDecl", "func", Lookup(Signature(pos)))
VisitModule == Visits("Module") /\ VisitDecl("ModuleDecl", "module", Lookup(Name(node.name)))
VisitRecord == Visits("Record") /\ VisitDecl("RecordDecl", "record", Lookup(Name(node.name)))
VisitClass  == Visits("Class") /\ VisitDecl("ClassDecl", "class", Lookup(Name(node.name)))

Outer(scope) == IF table.lut[scope].parent = NoScope THEN 0 ELSE table.lut[scope].parent

LeaveFunction_ ==
  /\ Leaves("Function")
  /\ IF ~Under("FunctionDecl") THEN Stop
     ELSE Children_ /\ Pop(1) /\ UNCHANGED lists /\ treeRef' = Outer(Last(lists[under]).scope)

Expr(conds, stmts) == [conds |-> conds, stmts |-> stmts, scope |-> treeRef, at |-> pos]

(* A conditional below another one continues it: its condition goes to the *)
(* expression the other opened last.                                       *)
VisitConditional ==
  /\ Visits("Conditional")
  /\ LET if == Lookup(At("if"))
         s == IF Found(if) THEN if ELSE Lookup(At("elseif"))
         other == Last(lists[under])
         new == [Stmt("Conditional", 0) EXCEPT !.scope = s.kind.lut,
                   !.exprs = <<[Expr(Fresh, Fresh + 1) EXCEPT !.scope = s.kind.lut]>>]
     IN  IF ~Found(s) \/ s.kind.tag # "func" \/ curStmts = <<>> THEN Stop
         ELSE /\ Children_ /\ treeRef' = s.kind.lut
              /\ IF Under("Conditional")
                 THEN /\ lists' = [lists EXCEPT ![under][Len(lists[under])].exprs
                                     [Len(other.exprs)] = [@ EXCEPT !.scope = s.kind.lut, !.at = pos]]
                      /\ curStmts' = Append(Front(curStmts), Last(other.exprs).conds)
                 ELSE /\ lists' = Put(cur, new) \o <<<<>>, <<>>>>
                      /\ curStmts' = Append(curStmts, Fresh)

(* Mutant: the else-block goes on filling the list of the then-block. *)
MutVisitBlock_SameArm ==
  /\ Visits("Block")
  /\ IF Under("Conditional")
     THEN /\ Children_ /\ UNCHANGED <<lists, treeRef>>
          /\ curStmts' = Append(Front(curStmts), Last(Last(lists[under]).exprs).stmts)
     ELSE IF Top("Conditional")
     THEN /\ Children_ /\ UNCHANGED <<lists, treeRef>>
          /\ curStmts' = Append(curStmts, Last(Last(lists[cur]).exprs).stmts)
     ELSE Pass

(* The block after a condition, and the block of an else. *)
VisitBlock ==
  /\ Visits("Block")
  /\ IF Under("Conditional")
     THEN /\ Children_ /\ UNCHANGED <<lists, treeRef>>
          /\ curStmts' = Append(Front(curStmts), Last(Last(lists[under]).exprs).stmts)
     ELSE IF Top("Conditional")
     THEN /\ Children_ /\ UNCHANGED treeRef
          /\ lists' = [lists EXCEPT ![cur][Len(lists[cur])].exprs =
                         Append(@, Expr(Fresh, Fresh + 1))] \o <<<<>>, <<>>>>
          /\ curStmts' = Append(curStmts, Fresh + 1)
     ELSE Pass

(* The end of a loop's body restores the scope; that of a conditional's    *)
(* does not.                                                               *)
LeaveBlock ==
  /\ Leaves("Block")
  /\ IF Under("Conditional")
     THEN Children_ /\ Pop(1) /\ UNCHANGED <<lists, treeRef>>
     ELSE IF UnderLoop
     THEN Children_ /\ Pop(1) /\ UNCHANGED lists /\ treeRef' = Outer(loop.scope)
     ELSE Pass

(* Nodes the visitor has no code for, on entry and on exit. *)
Unvisited == Ignored \cup {"Array", "Domain", "Range", "BracketLoop", "Formal",
                           "ImagLiteral", "UintLiteral", "BytesLiteral", "CStringLiteral"}
VisitOther == \E tag \in Unvisited \ {"Return"} : Visits(tag) /\ Pass
LeaveOther ==
  /\ phase = "tree" /\ status = "run" /\ ~node.open
  /\ node.tag \notin {"FnCall", "Return", "OpCall", "Variable", "Function", "Block"}
  /\ Pass
=============================================================================
