----------------------------- MODULE ChapelAst -----------------------------
(***************************************************************************)
(* The Chapel front end's uast, as the visitors meet it: traverse() calls  *)
(* enter(node), then traverses the children if it returned true, then      *)
(* calls exit(node).  A program is the sequence of those calls; an event   *)
(* carries the tag and the fields of the node that the visitors read: its  *)
(* name, its source line, and one flag (isConfig() of a variable,          *)
(* callUsedSquareBrackets() of a call); span is how far off the call of    *)
(* exit for the same node is.                                              *)
(* The front end is not part of the repository (a git submodule).          *)
(***************************************************************************)
EXTENDS Integers, Sequences, FiniteSets, SequencesExt

Node(tag, name, line) ==
  [tag |-> tag, name |-> name, line |-> line, flag |-> FALSE, open |-> TRUE,
   span |-> 1]

(* A node around its children: enter, the children's events, exit. *)
Tree(node, kids) ==
  LET inner == FlattenSeq(kids)
      spanned == [node EXCEPT !.span = Len(inner) + 1]
  IN  <<spanned>> \o inner \o <<[spanned EXCEPT !.open = FALSE]>>
Leaf(node) == Tree(node, <<>>)

Id(x, l)        == Leaf(Node("Identifier", x, l))
IntLit(l)       == Leaf(Node("IntLiteral", "", l))
Lit(tag, l)     == Leaf(Node(tag, "", l))
Op(o, kids, l)  == Tree(Node("OpCall", o, l), kids)
Call(f, kids, l) == Tree(Node("FnCall", f, l), <<Id(f, l)>> \o kids)
Index(a, kids, l) ==
  Tree([Node("FnCall", a, l) EXCEPT !.flag = TRUE], <<Id(a, l)>> \o kids)
TupleLit(kids, l) == Tree(Node("Tuple", "", l), kids)
ArrayLit(kids, l) == Tree(Node("Array", "", l), kids)
Upto(lo, hi, l) == Tree(Node("Range", "", l), <<lo, hi>>)
Block(kids, l)  == Tree(Node("Block", "", l), kids)

Var(x, kids, l)  == Tree(Node("Variable", x, l), kids)
ConfigVar(x, kids, l) == Tree([Node("Variable", x, l) EXCEPT !.flag = TRUE], kids)

(* The array type [dom] elem: a bracket loop over dom, or over a domain if  *)
(* that is not one expression (as heat.cpp.good has it: data is printed    *)
(* with one domain of one range, a formal [] real with one domain).        *)
ArrayType(dom, elem, l) ==
  Tree(Node("BracketLoop", "", l),
       (IF Len(dom) = 1 THEN dom ELSE <<Tree(Node("Domain", "", l), dom)>>)
         \o <<Block(<<elem>>, l)>>)

(* kind \in {"For", "Forall", "Coforall"} over lo..hi *)
Loop(kind, i, lo, hi, kids, l) ==
  Tree(Node(kind, "", l), <<Var(i, <<>>, l), Upto(lo, hi, l), Block(kids, l)>>)
LoopIn(kind, i, iterand, kids, l) ==
  Tree(Node(kind, "", l), <<Var(i, <<>>, l), iterand, Block(kids, l)>>)

If(cond, then, l) == Tree(Node("Conditional", "", l), <<cond, Block(then, l)>>)
IfElse(cond, then, else, l, l2) ==
  Tree(Node("Conditional", "", l), <<cond, Block(then, l), Block(else, l2)>>)

Formal(x, type, l) == Tree(Node("Formal", x, l), type)
Return(kids, l)    == Tree(Node("Return", "", l), kids)

(* proc f(formals) : ret { body } *)
Proc(f, formals, ret, body, l) ==
  Tree(Node("Function", f, l), formals \o ret \o <<Block(body, l)>>)
Record(x, kids, l) == Tree(Node("Record", x, l), kids)
Class(x, kids, l)  == Tree(Node("Class", x, l), kids)
Module(x, kids, l) == Tree(Node("Module", x, l), kids)

(* The position of the event that closes the node opened at p. *)
CloseOf(ast, p) == p + ast[p].span

(* The positions of the nodes strictly inside the one opened at p. *)
Inside(ast, p) == {i \in p + 1 .. CloseOf(ast, p) - 1 : ast[i].open}

(* The node a node is a child of; 0 for the outermost. *)
Parent(ast, p) ==
  LET around == {q \in 1 .. p - 1 : ast[q].open /\ CloseOf(ast, q) > p}
  IN  IF around = {} THEN 0 ELSE CHOOSE q \in around : \A r \in around : r <= q
Children(ast, p) == {i \in Inside(ast, p) : Parent(ast, i) = p}
=============================================================================
