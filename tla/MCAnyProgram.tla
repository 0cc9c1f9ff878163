---------------------------- MODULE MCAnyProgram ----------------------------
(***************************************************************************)
(* Programs for Compiler that need not be translated well: two statements  *)
(* of every kind after and inside each other, the ill-typed, the           *)
(* undeclared, the redefined and the unsupported among them.               *)
(***************************************************************************)
EXTENDS MCTranslation

Seq3(l) == <<IntLit(l), IntLit(l), IntLit(l)>>
Declared(x, l) == <<
  Var(x, <<Lit("BoolLiteral", l)>>, l), Var(x, <<Lit("RealLiteral", l)>>, l),
  Var(x, <<Lit("StringLiteral", l)>>, l), Var(x, <<Lit("ImagLiteral", l)>>, l),
  Var(x, <<Lit("UintLiteral", l)>>, l), Var(x, <<Lit("BytesLiteral", l)>>, l),
  Var(x, <<Lit("CStringLiteral", l)>>, l), Var(x, <<IntLit(l)>>, l),
  Var(x, <<>>, l), Var(x, <<IntType(l)>>, l), Var(x, <<Id("m", l)>>, l),
  Var(x, <<Id("real", l), Call("g", <<IntLit(l)>>, l)>>, l),
  Var(x, <<Op("-", <<Id("m", l)>>, l)>>, l),
  Var(x, <<ArrayLit(Seq3(l), l)>>, l),
  Var(x, <<ArrayLit(<<ArrayLit(Seq3(l), l), ArrayLit(Seq3(l), l)>>, l)>>, l),
  Var(x, <<ArrayLit(<<Call("g", <<IntLit(l)>>, l), Id("m", l)>>, l)>>, l),
  Var(x, <<ArrayType(<<Upto(IntLit(l), Id("m", l), l)>>, Id("real", l), l)>>, l),
  Var(x, <<ArrayType(<<Id("m", l)>>, Id("int", l), l), Call("g", <<IntLit(l)>>, l)>>, l),
  Var(x, <<Upto(IntLit(l), IntLit(l), l)>>, l),
  Var(x, <<TupleLit(<<IntLit(l), Id("m", l)>>, l)>>, l),
  Var(x, <<TupleLit(<<Lit("RealLiteral", l)>>, l)>>, l),
  Var(x, <<ArrayLit(<<Upto(IntLit(l), IntLit(l), l)>>, l)>>, l),
  Var(x, <<ArrayType(<<Upto(IntLit(l), IntLit(l), l)>>, Id("int", l), l), ArrayLit(Seq3(l), l)>>, l),
  ConfigVar(x, <<Plus(Id("n", l), IntLit(l), l)>>, l)>>

(* Declarations that reach the kind of another variable, x or one of their *)
(* own: an element of it, or a call of its name in an array literal.       *)
Sharing(x, l) == <<
  Var("w", <<Index(x, <<IntLit(l)>>, l)>>, l),
  Var("w", <<ArrayLit(<<IntLit(l), Call(x, <<IntLit(l)>>, l)>>, l)>>, l),
  Var(x, <<ArrayLit(Seq3(l), l)>>, l) \o Var("w", <<Index(x, <<IntLit(l + 1)>>, l + 1)>>, l + 1),
  Var(x, <<TupleLit(Seq3(l), l)>>, l) \o Var("w", <<Index(x, <<IntLit(l + 1)>>, l + 1)>>, l + 1),
  Var(x, <<TupleLit(Seq3(l), l)>>, l) \o Var("w", <<Call(x, <<Id("m", l + 1)>>, l + 1)>>, l + 1),
  Var(x, <<Upto(IntLit(l), IntLit(l), l)>>, l) \o Var("w", <<Id(x, l + 1), IntLit(l + 1)>>, l + 1)>>

Statement(x, l) == <<
  Op("=", <<TupleLit(<<Id("m", l), Id("n", l)>>, l), TupleLit(<<Id("n", l), Id("m", l)>>, l)>>, l),
  Op("=", <<Index("m", <<IntLit(l)>>, l), Index("n", <<Id("m", l)>>, l)>>, l),
  Op("&&", <<Id("m", l), Lit("BoolLiteral", l)>>, l),
  Op("=", <<Id("y", l), Id("m", l)>>, l),
  Op("+", <<Id("b", l), Lit("RealLiteral", l)>>, l),
  Call("y", <<IntLit(l)>>, l), Call("g", <<Call("g", <<Id("m", l)>>, l)>>, l),
  Call("g", <<Lit("BoolLiteral", l)>>, l), Call("g", <<Op("*", <<Id("m", l), Plus(Id("m", l), IntLit(l), l)>>, l)>>, l),
  Return(<<>>, l), Return(<<Id("m", l)>>, l), Return(<<Lit("StringLiteral", l)>>, l),
  Call("inlinecxx", <<IntLit(l)>>, l), Set("m", Call("inlinecxx", <<>>, l), l),
  Id("m", l), IntLit(l), Leaf(Node("Yield", "", l)), Block(<<>>, l), Block(<<Var(x, <<IntLit(l)>>, l)>>, l),
  LoopIn("For", "i", Id("m", l), <<Set("m", Id("i", l), l)>>, l),
  LoopIn("Forall", "i", Call("g", <<IntLit(l)>>, l), <<>>, l),
  LoopIn("Coforall", "i", Upto(Id("y", l), IntLit(l), l), <<Return(<<>>, l)>>, l),
  LoopIn("For", "i", TupleLit(Seq3(l), l), <<>>, l),
  IfElse(Lit("BoolLiteral", l), <<Var(x, <<IntLit(l)>>, l)>>, <<>>, l, l + 1),
  IfElse(Id("m", l), <<If(Id("n", l + 1), <<>>, l + 1)>>, <<Var(x, <<IntLit(l)>>, l)>>, l, l + 2),
  If(Call("g", <<Id("m", l)>>, l), <<Loop("For", "i", IntLit(l), IntLit(l), <<>>, l)>>, l),
  Proc(x, <<Formal("a", <<Id("real", l)>>, l), ArrayFormal("e", l)>>, <<>>,
       <<Block(<<>>, l), Return(<<Plus(Id("a", l), Call("g", <<Id("a", l)>>, l), l)>>, l)>>, l),
  Proc(x, <<Formal("a", <<>>, l)>>, <<>>, <<Proc(x, <<>>, <<IntType(l)>>, <<Return(<<IntLit(l)>>, l)>>, l)>>, l),
  Record(x, <<Var("e", <<IntType(l)>>, l)>>, l), Class(x, <<Var("e", <<IntType(l)>>, l)>>, l),
  Record(x, <<Proc("o", <<>>, <<>>, <<>>, l)>>, l),
  Module(x, <<ConfigVar("e", <<IntLit(l)>>, l)>>, l),
  Module("n", <<ConfigVar("e", <<IntLit(l)>>, l)>>, l)>>

Pieces(x, l) == ToSet(Declared(x, l)) \cup ToSet(Sharing(x, l)) \cup ToSet(Statement(x, l))
Probes(x, l) ==
  {Simple(k, x, l) : k \in {"literal", "typed", "assign", "call1"}}
    \cup {Nest(shape, "i", <<Simple("literal", x, l + 1)>>, l) : shape \in {"ifvar", "for", "proc"}}
Unvetted(ss) == ProgramOf("q", ss)
Behind == {Unvetted(<<s, t>>) : s \in Pieces("u", 10), t \in Probes("u", 20) }
Before == {Unvetted(<<s, t>>) : s \in Probes("u", 10), t \in Pieces("u", 20)}
Nested == {Unvetted(<<Nest(shape, "i", <<s>>, 10)>>) : shape \in Shapes, s \in Pieces("u", 11)}
(* Two scopes made on one line have one name. *)
SameLine == {Unvetted(<<Nest(s, "i", <<>>, 10), Nest(r, "j", <<Set("m", Id("n", 11), 11)>>, 10)>>) :
               s, r \in Shapes}
AllPrograms == Translated \cup Before \cup Behind \cup Nested \cup SameLine
=============================================================================
