------------------------------ MODULE Compiler ------------------------------
(***************************************************************************)
(* The compiler driver: main() parses a file and, when the front end       *)
(* reports no error, runs three passes over the program one after the      *)
(* other.  A message on std::cerr stops none of them.                      *)
(***************************************************************************)
EXTENDS CodeGen

vars == <<ast, phase, pos, table, objects, modules, symstack, hasSym, symnode, configVars,
          diags, status, lists, curStmts, treeRef, todo, files>>

CompilerInit == Init /\ PtInit /\ CgInit

Traversing == pos <= Len(ast)

EnterExpression ==
  \/ EnterArray \/ EnterDomain \/ EnterBracketLoop \/ EnterRange \/ EnterTuple
  \/ EnterIdentifier \/ EnterBoolLiteral \/ EnterImagLiteral \/ EnterRealLiteral
  \/ EnterUintLiteral \/ EnterBytesLiteral \/ EnterCStringLiteral \/ EnterStringLiteral
  \/ EnterIntLiteral \/ EnterFnCall \/ EnterOpCall
EnterDeclaration ==
  \/ EnterFormal \/ EnterVariable \/ EnterFunction \/ EnterRecord \/ EnterClass
  \/ EnterModule \/ EnterFor \/ EnterForall \/ EnterCoforall \/ EnterConditional
  \/ EnterBlock \/ EntersIgnored
Exit ==
  \/ ExitRange \/ ExitVariable \/ ExitModule \/ ExitRecord \/ ExitClass \/ ExitFunction
  \/ ExitLoop \/ ExitConditional \/ ExitBlock \/ ExitsOther

(* ast->traverse(sbv) *)
BuildSymbols ==
  Traversing /\ (EnterExpression \/ EnterDeclaration \/ Exit) /\ UNCHANGED <<ptVars, cgVars>>

VisitNode ==
  \/ VisitIdentifier \/ VisitBoolLiteral \/ VisitRealLiteral \/ VisitStringLiteral
  \/ VisitIntLiteral \/ VisitFnCall \/ VisitOpCall \/ VisitTuple \/ VisitReturn
  \/ VisitVariable \/ VisitFor \/ VisitForall \/ VisitCoforall \/ VisitFunction
  \/ VisitModule \/ VisitRecord \/ VisitClass \/ VisitConditional \/ VisitBlock
  \/ VisitOther
LeaveNode ==
  LeaveCall \/ LeaveOpCall \/ LeaveVariable \/ LeaveFunction_ \/ LeaveBlock \/ LeaveOther

(* ast->traverse(pbv) *)
BuildTree == Traversing /\ (VisitNode \/ LeaveNode) /\ UNCHANGED cgVars

(* cgv.visit() *)
GenerateCode ==
  \/ StartCode \/ PrintLine \/ EmitDeclaration \/ EmitNothing \/ EmitFunctionCall
  \/ EmitBinaryOp \/ EmitScalarDeclExpr \/ EmitReturn \/ EmitConditional \/ EmitLoop
  \/ EmitFunctionDecl \/ EmitAggregate \/ EmitModule

(* The second visitor starts in the scope the first one ended in. *)
NextPass ==
  /\ status = "run"
  /\ \/ ~Traversing /\ phase = "symbols" /\ phase' = "tree" /\ pos' = 1
     \/ ~Traversing /\ phase = "tree" /\ phase' = "code" /\ UNCHANGED pos
     \/ phase = "code" /\ todo = <<>> /\ DOMAIN files # {} /\ phase' = "done" /\ UNCHANGED pos
  /\ treeRef' = IF phase = "symbols" THEN table.ref ELSE treeRef
  /\ UNCHANGED <<ast, status, lists, curStmts>> /\ UNCHANGED Tables
  /\ UNCHANGED sbVars /\ UNCHANGED cgVars

(* main() has returned, or the process has died. *)
Ended == (phase = "done" \/ status = "abort") /\ UNCHANGED vars

Next == BuildSymbols \/ BuildTree \/ GenerateCode \/ NextPass \/ Ended

(* A program that runs goes on running: weak fairness of the whole.        *)
Spec == CompilerInit /\ [][Next]_vars /\ WF_vars(Next)
------------------------------------------------------------------------------
(* For any program whatever: the scopes stay a tree whose older nodes are  *)
(* its inner ones, so that every search that walks up from a scope comes   *)
(* to the root, and the first visitor stands in a scope of it.  Neither    *)
(* the error returns, which leave a scope open, nor the exits that close   *)
(* two may break that.                                                     *)
ScopesAreATree ==
  /\ DOMAIN table.lut = 0 .. Size(table) - 1
  /\ table.lut[0].parent = NoScope
  /\ \A i \in DOMAIN table.lut \ {0} : table.lut[i].parent \in 0 .. i - 1
  /\ table.ref \in DOMAIN table.lut

(* What the first pass entered stays: a later declaration of the same name *)
(* never replaces a symbol, and no pass removes a symbol, moves a scope or *)
(* makes a symbol refer to another kind.  The one change the code makes is *)
(* that a call among the elements of an array literal becomes the literal  *)
(* of the entry it is taken for, and that only in the first pass.  What    *)
(* the object of a kind holds is no part of this: it is shared with the    *)
(* symbols still being built, and does change.                             *)
SymbolsStay ==
  [][\A id \in DOMAIN table.lut :
       /\ id \in DOMAIN table.lut' /\ table'.lut[id].parent = table.lut[id].parent
       /\ \A x \in DOMAIN table.lut[id].entries :
            LET s == table.lut[id].entries[x]
                marked == IF phase = "symbols" /\ s.literal = 0
                          THEN {[s EXCEPT !.literal = pos]} ELSE {}
            IN  /\ x \in DOMAIN table'.lut[id].entries
                /\ table'.lut[id].entries[x] \in {s} \cup marked]_vars
=============================================================================
