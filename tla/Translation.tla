---------------------------- MODULE Translation ----------------------------
(***************************************************************************)
(* What the C++ that the compiler writes owes to the Chapel program:       *)
(* properties that relate the program's AST to the lines of the files      *)
(* generated for it.                                                       *)
(***************************************************************************)
EXTENDS SourceScopes

CONSTANT Supported(_)  \* the program keeps to what the compiler translates
ASSUME SupportedAssumption ==
  \A program \in Programs : Supported(program) => Scoped(program)

Nodes == {p \in DOMAIN ast : ast[p].open}
Tagged(tags) == {p \in Nodes : ast[p].tag \in tags}
LeafTags == {"Identifier", "IntLiteral", "RealLiteral", "BoolLiteral", "StringLiteral"}
Up(p) == Parent(ast, p)

(* The statements of a program: what stands in a module or in a block. *)
Statements ==
  {p \in Tagged({"Variable", "FnCall", "OpCall", "Return", "Conditional", "Function"} \cup LoopTags) :
     Up(p) # 0 /\ ast[Up(p)].tag \in {"Module", "Block"}}

(* Functions and config variables have a place of their own at the top of  *)
(* the file; the rest of a module is the body of __main.                   *)
TopLevel(p) == ast[p].tag = "Function" \/ (ast[p].tag = "Variable" /\ ast[p].flag)

(* The node whose line opens the block a statement belongs in: 0 for the   *)
(* module; the else-block of a conditional, which has a line of its own;   *)
(* and `else { if .. }' is an else-if of the conditional around it.        *)
home[p \in Nodes] ==
  LET b == Up(p)
      o == Up(b)
  IN  IF ast[b].tag = "Module" THEN 0
      ELSE IF ~IsElse(ast, b) THEN o
      ELSE IF ast[p].tag = "Conditional" /\ Children(ast, b) = {p} THEN home[o]
      ELSE b

(* Where a name of the program is declared: the innermost module, block,   *)
(* function or loop around it with a declaration of that name; 0: nowhere. *)
Declarations == Tagged({"Variable", "Formal"})
DeclarationOf(q) ==
  LET ds == {d \in Declarations : /\ ast[d].name = ast[q].name
                                  /\ Up(d) < q /\ q < CloseOf(ast, Up(d))}
  IN  IF ds = {} THEN 0 ELSE CHOOSE d \in ds : \A e \in ds : Up(e) <= Up(d)
------------------------------------------------------------------------------
(* The C++ side: the lines of the module's file *)

cpp == files[<<ast[1].name, "cpp">>]
hpp == files[<<ast[1].name, "hpp">>]
Arms == {"if", "elseif", "else"}
Opens == Arms \cup Loops \cup {"function", "__main"}

(* A line is about the statement it was made from, or the declaration its  *)
(* text begins with.                                                       *)
About(line, p) ==
  line.what # "end" /\ (line.at = p \/ (line.text # <<>> /\ line.text[1].at = p))
LinesOf(p) == {i \in DOMAIN cpp : About(cpp[i], p)}

(* The lines that open the blocks line i stands in, the innermost last. *)
blocks[i \in DOMAIN cpp] ==
  IF i = 1 THEN <<>>
  ELSE LET before == blocks[i - 1]
           inside == IF cpp[i - 1].what \in Opens THEN Append(before, i - 1) ELSE before
       IN  IF cpp[i].what = "end" THEN Front(inside) ELSE inside

(* The declarations a line makes: a variable, formals, a loop's iterator. *)
Makes(i) ==
  LET l == cpp[i]
      told == {l.text[j].tok : j \in DOMAIN l.text}
  IN  CASE l.what \in {"decl", "assign"} -> {l.text[1].at} \cap Declarations
        [] l.what \in Loops \cup {"function"} ->
             {d \in Children(ast, l.at) \cap Declarations : ast[d].name \in told}
        [] OTHER -> {}

(* The declaration C++ finds for a name in line i: the latest before it    *)
(* whose block is still open, or else one of the header's.                 *)
CppDeclarationOf(name, i) ==
  LET InSight(j) == \/ cpp[j].what \in Opens /\ j \in ToSet(blocks[i])
                    \/ cpp[j].what \notin Opens /\ IsPrefix(blocks[j], blocks[i])
      js == {j \in 1 .. i - 1 : InSight(j) /\ \E d \in Makes(j) : ast[d].name = name}
      externs == {j \in DOMAIN hpp : hpp[j].what = "extern" /\ ast[hpp[j].at].name = name}
      last == CHOOSE j \in js : \A k \in js : k <= j
  IN  IF js # {} THEN CHOOSE d \in Makes(last) : ast[d].name = name
      ELSE IF externs # {} THEN hpp[CHOOSE j \in externs : TRUE].at ELSE 0

(* The names and literals a statement's own line has to repeat: not those  *)
(* of its blocks, not its types, not the name of a function it calls.      *)
Callees == {p + 1 : p \in {c \in Tagged({"FnCall"}) : ~ast[c].flag}}
LeavesOf(p) ==
  {q \in Inside(ast, p) :
     /\ ast[q].tag \in LeafTags
     /\ ~\E b \in Inside(ast, p) : ast[b].tag = "Block" /\ b < q /\ q < CloseOf(ast, b)
     /\ q \notin Callees /\ ~IsTypeName(Find(table, 0, Name(ast[q].name)))}
LeavesInOrder(p) == SelectSeq([q \in DOMAIN ast |-> q], LAMBDA q : q \in LeavesOf(p))
(* The same of a line, in the order printed. *)
LeavesPrinted(line) ==
  SelectSeq([j \in DOMAIN line.text |-> line.text[j].at],
            LAMBDA q : q # 0 /\ ast[q].tag \in LeafTags)
------------------------------------------------------------------------------
(* What is said below of the output is said of these programs. *)
Done == Supported(ast) /\ phase = "done"

(* In the first pass, where a node is entered, the scope being populated   *)
(* is as deep as the scopes of the source around the node.                 *)
InScopeOfSource ==
  LET scopes == {q \in 1 .. pos - 1 :
                   ast[q].open /\ CloseOf(ast, q) >= pos /\ IsScope(ast, q)}
  IN  phase = "symbols" /\ Traversing /\ node.open =>
        Len(Path(table, table.ref)) = Cardinality(scopes) + 1

(* The scope being populated is that of the construct around the node:     *)
(* every exit of a conditional, which may have to close an else-block too, *)
(* and of a loop leads back there.                                         *)
ScopeFollowsSource == Supported(ast) => InScopeOfSource

(* No statement of the program is lost, none is printed twice, and no line *)
(* is printed for two of them: what a visitor does to a statement after    *)
(* the next one has arrived (a call becoming the value of the declaration  *)
(* before it) and what it drops when a look-up fails both show here.       *)
EachStatementOnce ==
  Done => /\ \A p \in Statements : Cardinality(LinesOf(p)) = 1
          /\ \A i \in DOMAIN cpp : Cardinality({p \in Statements : About(cpp[i], p)}) <= 1

(* A statement is printed in the block it is written in: the stack of open *)
(* lists followed the nesting of the source, through every else-if.        *)
NestsAsInSource ==
  Done =>
    \A p \in Statements : \A i \in LinesOf(p) :
      LET around == blocks[i]
      IN  IF home[p] # 0 THEN around # <<>> /\ cpp[Last(around)].at = home[p]
          ELSE IF TopLevel(p) THEN around = <<>>
          ELSE Len(around) = 1 /\ cpp[around[1]].what = "__main"

(* The statements of a block keep their order, and so do the operands of   *)
(* each: none is lost, repeated or swapped on its way through the lists.   *)
SameOrder ==
  Done =>
    /\ \A p, q \in Statements :
         p < q /\ home[p] = home[q] /\ (home[p] # 0 \/ (TopLevel(p) <=> TopLevel(q))) =>
           \A i \in LinesOf(p), j \in LinesOf(q) :
             i < j \/ (TopLevel(p) /\ ast[p].tag # ast[q].tag)
    /\ \A p \in Statements : \A i \in LinesOf(p) :
         cpp[i].what \in {"assign", "call", "return"} \cup Arms \cup Loops =>
           LeavesPrinted(cpp[i]) = LeavesInOrder(p)

(* A name means in C++ what it means in Chapel: the declaration that is in *)
(* sight where the name is printed was made from the one in scope where it *)
(* is written.  Moving functions and config variables to the front must    *)
(* not change that.                                                        *)
NamesResolve ==
  Done =>
    \A i \in DOMAIN cpp : \A q \in ToSet(LeavesPrinted(cpp[i])) :
      ast[q].tag = "Identifier" /\ DeclarationOf(q) # 0 =>
        CppDeclarationOf(ast[q].name, i) = DeclarationOf(q)

(* The options of the driver are the config variables of the program, and  *)
(* each stands for a variable that the module's header announces and its   *)
(* file defines outside every function: the list the first pass made       *)
(* agrees with the statements the second made of the same declarations.    *)
OptionsExist ==
  Done =>
    LET options == files[<<"driver", "cpp">>]
        Defined(p) == \E i \in LinesOf(p) : cpp[i].what = "decl" /\ blocks[i] = <<>>
        Announced(p) == \E i \in DOMAIN hpp : hpp[i].what = "extern" /\ hpp[i].at = p
        configs == {p \in Tagged({"Variable"}) : ast[p].flag}
    IN  /\ [i \in DOMAIN options |-> options[i].text[2].tok]
             = LET inOrder == SelectSeq([q \in DOMAIN ast |-> q], LAMBDA q : q \in configs)
               IN  [i \in DOMAIN inOrder |-> ast[inOrder[i]].name]
        /\ \A i \in DOMAIN options : options[i].text[1].tok = ast[1].name
        /\ \A p \in configs : Defined(p) /\ Announced(p)

(* A call that is a statement calls the function that it names.            *)
CallsNameTheirCallee ==
  Done =>
    \A i \in DOMAIN cpp :
      cpp[i].what = "call" => cpp[i].text[1].tok = ast[cpp[i].text[1].at].name

(* Every supported program is compiled to the end: no visitor reaches a    *)
(* place where the process dies.                                           *)
Compiles == Supported(ast) => <>Done
=============================================================================
