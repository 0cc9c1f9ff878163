--------------------------- MODULE MCTranslation ---------------------------
(***************************************************************************)
(* Programs for Translation: test programs of backend/test, and a family   *)
(* made by putting statements of each kind one after and inside the other. *)
(***************************************************************************)
EXTENDS Translation

(* A source line stands for itself; which names of the programs, of the    *)
(* root scope and of the scopes begin with another, and which contain a    *)
(* word that names a scope.                                                *)
MCLineOf(x) == x
LongerThan ==
  [a |-> {"alpha"}, b |-> {"beta", "betad", "block", "bool", "byte"}, beta |-> {"betad"},
   c |-> {"cfg", "chai", "coforall", "complex", "cond"},
   d |-> {"d2", "data", "data2", "delta", "domain", "dt", "dx"}, data |-> {"data2"},
   f |-> {"findpkgs", "flagscxx", "fnc", "for", "forall"}, g |-> {"ghosts"}, h |-> {"heat"},
   i |-> {"if", "incdirs", "inlinecxx", "int"}, n |-> {"nil", "nt", "nx"},
   t |-> {"threads", "tuple", "tuplelit_"}, u |-> {"update"}]
MCBegins(s, t) == s = t \/ (t \in DOMAIN LongerThan /\ s \in LongerThan[t])
MCHasWord(s, t) ==
  s = t \/ <<s, t>> \in {<<"forall", "for">>, <<"coforall", "for">>, <<"elseif", "if">>}
(* The order of the map that of the bytes of the names; "|" follows the    *)
(* name of a function with formals, and comes after every letter.          *)
Ordered == <<
  "%", "*", "+", "-", "/", "<=>", "=", "==", "?", "NX", "[]", "a", "alpha", "b", "beta",
  "betad", "betad|", "beta|", "block", "bool", "byte", "c", "cfg", "chai", "coforall",
  "complex", "cond", "d", "d2", "data", "data2", "delta|", "domain", "dt", "dx", "e", "else",
  "elseif", "findpkgs", "flagscxx", "fnc", "for", "forall", "ghosts", "g|", "h", "heat", "i",
  "if", "incdirs", "inlinecxx", "int", "j", "k", "libdirs", "libs", "m", "n", "nil", "nt",
  "nx", "o", "phi", "pkgcfg", "q", "range", "range_", "real", "string", "t", "threads",
  "tuple", "tuplelit_", "u", "update", "u|", "v", "v|", "w", "x", "x|", "y", "z">>
MCRank(i) ==
  LET s == i.base \o IF i.formals = <<>> THEN "" ELSE "|"
  IN  1000 * (CHOOSE r \in DOMAIN Ordered : Ordered[r] = s) + i.line

(* The programs that need not be translated well are modules named q. *)
MCSupported(program) == program[1].name # "q"

IntType(l) == Id("int", l)
Cxx(args, l) == Call("inlinecxx", <<Lit("StringLiteral", l)>> \o args, l)
Equals(x, l) == Op("==", <<Id(x, l), IntLit(l)>>, l)
Set(x, e, l) == Op("=", <<Id(x, l), e>>, l)
Plus(a, b, l) == Op("+", <<a, b>>, l)
ArrayFormal(x, l) == Formal(x, <<ArrayType(<<>>, Id("real", l), l)>>, l)
------------------------------------------------------------------------------
(* backend/test: cond.chpl, cfg.chpl, fnc.chpl, heat.chpl *)

Cond == Module("cond", <<
  Var("a", <<IntLit(8)>>, 8),
  If(Id("a", 10), <<Cxx(<<>>, 11)>>, 10),
  Var("b", <<IntLit(14)>>, 14),
  IfElse(Equals("a", 16), <<Cxx(<<>>, 17)>>,
    <<IfElse(Equals("b", 19), <<Cxx(<<>>, 20)>>, <<Cxx(<<>>, 23)>>, 19, 22)>>, 16, 19),
  Var("c", <<IntLit(26)>>, 26),
  IfElse(Equals("c", 28), <<Cxx(<<>>, 29)>>,
    <<IfElse(Equals("c", 31), <<Cxx(<<>>, 32)>>,
       <<If(Equals("c", 34), <<Cxx(<<>>, 35)>>, 34)>>, 31, 34)>>, 28, 31),
  Proc("alpha", <<>>, <<>>,
    <<Var("d", <<IntLit(39)>>, 39), If(Id("d", 40), <<Cxx(<<>>, 41)>>, 40)>>, 38)>>, 1)

Cfg == Module("cfg", <<
  ConfigVar("a", <<IntType(8), IntLit(8)>>, 8), ConfigVar("b", <<IntLit(9)>>, 9),
  ConfigVar("c", <<IntType(10)>>, 10), ConfigVar("d", <<IntLit(11)>>, 11)>>, 1)

Fnc == Module("fnc", <<
  Proc("alpha", <<>>, <<>>, <<Var("a", <<IntType(2)>>, 2)>>, 1),
  Call("alpha", <<>>, 5),
  Proc("delta", <<Formal("c", <<IntType(7)>>, 7)>>, <<IntType(7)>>, <<Return(<<Id("c", 8)>>, 8)>>, 7),
  Proc("beta", <<Formal("c", <<IntType(11)>>, 11)>>, <<IntType(11)>>, <<Return(<<Id("c", 12)>>, 12)>>, 11),
  Proc("phi", <<ArrayFormal("c", 15)>>, <<>>, <<>>, 15),
  Proc("chai", <<ArrayFormal("c", 18), ArrayFormal("d", 18)>>, <<>>, <<>>, 18),
  Proc("betad", <<Formal("b", <<IntType(21)>>, 21)>>, <<IntType(21)>>,
    <<Return(<<Plus(Call("delta", <<Id("b", 22)>>, 22), Id("b", 22), 22)>>, 22)>>, 21),
  Var("c", <<IntLit(25)>>, 25),
  Call("beta", <<Id("c", 26)>>, 26),
  Set("c", Call("beta", <<Id("c", 27)>>, 27), 27),
  Set("c", Call("betad", <<Id("c", 28)>>, 28), 28)>>, 1)

Item(a, e, l) == Index(a, <<e>>, l)
HeatUpdate == <<
  Var("NX", <<IntType(27), Plus(Id("nx", 27), IntLit(27), 27)>>, 27),
  Loop("Forall", "i", IntLit(28), Op("-", <<Id("NX", 28), IntLit(28)>>, 28), <<
    Op("=", <<Item("d2", Id("i", 30), 30),
      Plus(Item("d", Id("i", 30), 30),
        Op("*", <<Op("/", <<Op("*", <<Id("dt", 30), Id("k", 30)>>, 30),
                            Op("*", <<Id("dx", 30), Id("dx", 30)>>, 30)>>, 30),
          Op("-", <<Plus(Item("d", Plus(Id("i", 30), IntLit(30), 30), 30),
                         Item("d", Op("-", <<Id("i", 30), IntLit(30)>>, 30), 30), 30),
                    Op("*", <<IntLit(30), Item("d", Id("i", 30), 30)>>, 30)>>, 30)>>, 30),
        30)>>, 30)>>, 28),
  Op("=", <<Item("d2", IntLit(32), 32),
            Item("d2", Op("-", <<Id("NX", 32), IntLit(32)>>, 32), 32)>>, 32),
  Op("=", <<Item("d2", Id("NX", 33), 33), Item("d2", IntLit(33), 33)>>, 33)>>

ArrayVar(x, hi, l) ==
  Var(x, <<ArrayType(<<Upto(IntLit(l), hi, l)>>, Id("real", l), l)>>, l)
Heat == Module("heat", <<
  ConfigVar("ghosts", <<IntType(17), IntLit(17)>>, 17),
  ConfigVar("k", <<Id("real", 18), Lit("RealLiteral", 18)>>, 18),
  ConfigVar("dt", <<Id("real", 19), Lit("RealLiteral", 19)>>, 19),
  ConfigVar("dx", <<Id("real", 20), Lit("RealLiteral", 20)>>, 20),
  ConfigVar("nx", <<IntType(22), IntLit(22)>>, 22),
  ConfigVar("nt", <<IntType(23), IntLit(23)>>, 23),
  ConfigVar("threads", <<IntType(24), IntLit(24)>>, 24),
  Proc("update", <<ArrayFormal("d", 26), ArrayFormal("d2", 26)>>, <<>>, HeatUpdate, 26),
  Var("NX", <<IntType(38), Plus(Id("nx", 38), IntLit(38), 38)>>, 38),
  ArrayVar("data", Id("NX", 40), 40),
  ArrayVar("data2", Id("NX", 41), 41),
  Loop("Forall", "i", IntLit(43), Id("NX", 43), <<
    Op("=", <<Item("data", Id("i", 44), 44),
      Plus(IntLit(44),
        Op("%", <<Plus(Op("-", <<Id("i", 44), IntLit(44)>>, 44), Id("nx", 44), 44),
                  Id("nx", 44)>>, 44), 44)>>, 44),
    Op("=", <<Item("data2", Id("i", 45), 45), IntLit(45)>>, 45)>>, 43),
  Cxx(<<>>, 52),
  Loop("For", "t", IntLit(54), Id("nt", 54),
       <<Call("update", <<Id("data", 55), Id("data2", 55)>>, 55)>>, 54),
  Cxx(<<>>, 67),
  Cxx(<<Id("nx", 68), Id("nt", 68), Id("dt", 68), Id("dx", 68)>>, 68)>>, 1)
Corpus == {Cond, Cfg, Fnc, Heat}
FncOnly == {Fnc}

(* The .cpp.good files beside them, line by line: the #line directive and  *)
(* what follows it, with # for a literal and without types and layout.     *)
Golden ==
  [cfg  |-> <<<<"decl", 8, "a">>, <<"decl", 9, "b">>, <<"decl", 10, "c">>, <<"decl", 11, "d">>,
              <<"__main", 1, "">>, <<"end", 1, "">>>>,
   cond |-> <<<<"function", 38, "nil">>, <<"decl", 39, "d">>, <<"if", 40, "d">>,
              <<"call", 41, "inlinecxx#">>, <<"end", 40, "">>, <<"end", 38, "">>,
              <<"__main", 1, "">>, <<"decl", 8, "a">>,
              <<"if", 10, "a">>, <<"call", 11, "inlinecxx#">>, <<"end", 10, "">>,
              <<"decl", 14, "b">>,
              <<"if", 16, "a==#">>, <<"call", 17, "inlinecxx#">>, <<"end", 16, "">>,
              <<"elseif", 19, "b==#">>, <<"call", 20, "inlinecxx#">>, <<"end", 16, "">>,
              <<"else", 22, "">>, <<"call", 23, "inlinecxx#">>, <<"end", 16, "">>,
              <<"decl", 26, "c">>,
              <<"if", 28, "c==#">>, <<"call", 29, "inlinecxx#">>, <<"end", 28, "">>,
              <<"elseif", 31, "c==#">>, <<"call", 32, "inlinecxx#">>, <<"end", 28, "">>,
              <<"elseif", 34, "c==#">>, <<"call", 35, "inlinecxx#">>, <<"end", 28, "">>,
              <<"end", 1, "">>>>,
   fnc  |-> <<<<"function", 1, "nil">>, <<"decl", 2, "a">>, <<"end", 1, "">>,
              <<"function", 7, "autoc">>, <<"return", 8, "c">>, <<"end", 7, "">>,
              <<"function", 11, "autoc">>, <<"return", 12, "c">>, <<"end", 11, "">>,
              <<"function", 15, "nilc">>, <<"end", 15, "">>,
              <<"function", 18, "nilcd">>, <<"end", 18, "">>,
              <<"function", 21, "autob">>, <<"return", 22, "delta(b)+b">>, <<"end", 21, "">>,
              <<"__main", 1, "">>, <<"call", 5, "alpha()">>, <<"decl", 25, "c">>,
              <<"call", 26, "betad(c)">>, <<"assign", 27, "c=beta(c)">>,
              <<"assign", 28, "c=betad(c)">>, <<"end", 1, "">>>>,
   heat |-> <<<<"function", 26, "nildd2">>, <<"assign", 27, "NX=nx+#">>,
              <<"ForallLoop", 28, "i#,NX-#">>,
              <<"assign", 30, "d2(i)=d(i)+(((dt*k)/(dx*dx))*((d(i+#)+d(i-#))-(#*d(i))))">>,
              <<"end", 28, "">>, <<"assign", 32, "d2(#)=d2(NX-#)">>,
              <<"assign", 33, "d2(NX)=d2(#)">>, <<"end", 26, "">>,
              <<"decl", 17, "ghosts">>, <<"decl", 18, "k">>, <<"decl", 19, "dt">>,
              <<"decl", 20, "dx">>, <<"decl", 22, "nx">>, <<"decl", 23, "nt">>,
              <<"decl", 24, "threads">>,
              <<"__main", 1, "">>, <<"assign", 38, "NX=nx+#">>,
              <<"decl", 40, "data">>, <<"decl", 41, "data2">>,
              <<"ForallLoop", 43, "i#,NX">>,
              <<"assign", 44, "data(i)=#+(((i-#)+nx)%nx)">>,
              <<"assign", 45, "data2(i)=#">>, <<"end", 43, "">>,
              <<"call", 52, "inlinecxx#">>, <<"ForLoop", 54, "t#,nt">>,
              <<"call", 55, "update(data,data2)">>, <<"end", 54, "">>,
              <<"call", 67, "inlinecxx#">>, <<"call", 68, "inlinecxx#nxntdtdx">>,
              <<"end", 1, "">>>>]

Joined(text) == FoldLeft(LAMBDA s, t : s \o IF t.tok = "" THEN "#" ELSE t.tok, "", text)
(* The compiler model prints the test programs as the repository's         *)
(* expected output has them, its known mistake in line 26 of fnc included. *)
MatchesGolden ==
  Done /\ ast[1].name \in DOMAIN Golden =>
    [i \in DOMAIN cpp |-> <<cpp[i].what, ast[cpp[i].at].line, Joined(cpp[i].text)>>]
      = Golden[ast[1].name]
------------------------------------------------------------------------------
(* The family.  Each program begins with a config variable n, a variable   *)
(* m, a function z without formals and g with one.                         *)

ProgramOf(name, ss) == Module(name, <<
  ConfigVar("n", <<IntLit(2)>>, 2), Var("m", <<IntLit(3)>>, 3),
  Proc("z", <<>>, <<>>, <<>>, 4),
  Proc("g", <<Formal("a", <<IntType(5)>>, 5)>>, <<IntType(5)>>, <<Return(<<Id("a", 6)>>, 6)>>, 5)>>
  \o ss, 1)
Program(ss) == ProgramOf("t", ss)

(* A statement of each kind, which may declare x. *)
Kinds == {"literal", "typed", "operation", "value", "assign", "call0", "call1", "cxx"}
Simple(kind, x, l) ==
  CASE kind = "literal"   -> Var(x, <<IntLit(l)>>, l)
    [] kind = "typed"     -> Var(x, <<IntType(l)>>, l)
    [] kind = "operation" -> Var(x, <<Plus(Id("n", l), IntLit(l), l)>>, l)
    [] kind = "value"     -> Var(x, <<Call("g", <<IntLit(l)>>, l)>>, l)
    [] kind = "assign"    -> Set("n", Op("-", <<Id("n", l), Op("*", <<IntLit(l), Id("n", l)>>, l)>>, l), l)
    [] kind = "call0"     -> Call("z", <<>>, l)
    [] kind = "call1"     -> Call("g", <<Id("n", l)>>, l)
    [] kind = "cxx"       -> Cxx(<<Id("n", l)>>, l)
Declaring == {"literal", "typed", "operation", "value"}

(* Statements around a body, on the lines l to l + 3. *)
Shapes == {"if", "ifvar", "else", "for", "forall", "coforall", "proc", "deep"}
Nest(shape, i, body, l) ==
  CASE shape = "if"       -> If(Equals("n", l), body, l)
    [] shape = "ifvar"    -> If(Id("n", l), body, l)
    [] shape = "else"     -> IfElse(Equals("n", l), <<Cxx(<<>>, l + 1)>>, body, l, l + 2)
    [] shape = "for"      -> Loop("For", i, IntLit(l), Id("n", l), body, l)
    [] shape = "forall"   -> Loop("Forall", i, IntLit(l), Op("-", <<Id("n", l), IntLit(l)>>, l), body, l)
    [] shape = "coforall" -> Loop("Coforall", i, IntLit(l), IntLit(l), body, l)
    [] shape = "proc"     -> Proc("h", <<>>, <<>>, body, l)
    [] shape = "deep"     -> Loop("For", i, IntLit(l), Id("n", l),
                               <<Loop("Forall", "j", IntLit(l + 1), Id(i, l + 1),
                                  <<IfElse(Equals("j", l + 2), body,
                                     <<Set("n", Id(i, l + 4), l + 4)>>, l + 2, l + 4)>>, l + 1)>>, l)

(* Of two statements in a row: a call right after a declaration that is    *)
(* complete is taken for the declaration's value, or is dropped.           *)
After(k1, k2) ==
  ~(\/ k1 = "literal" /\ k2 = "call0"
    \/ k1 = "typed" /\ k2 \in {"call0", "call1", "cxx"})
(* A declaration straight inside a loop or an else-block is lost. *)
Within(shape, kind) ==
  kind \in Declaring => shape \notin {"else", "for", "forall", "coforall", "deep"}

Family ==
     {Program(<<Simple(k1, "u", 10), Simple(k2, "v", 20)>>) :
        <<k1, k2>> \in {kk \in Kinds \X Kinds : After(kk[1], kk[2])}}
  \cup {Program(<<Simple(k1, "u", 10), Nest(s, "i", <<Simple(k2, "v", 23)>>, 20), Simple(k1, "w", 30)>>) :
        <<k1, s, k2>> \in {t \in Kinds \X Shapes \X Kinds : Within(t[2], t[3])}}
  \cup {Program(<<Nest(s, "o", <<Nest(r, "i", <<Simple(k, "v", 23)>>, 21)>>, 20)>>) :
        <<s, r, k>> \in {t \in {"for", "forall", "proc"} \X (Shapes \ {"proc"}) \X Kinds : Within(t[2], t[3])}}
Translated == Corpus \cup Family
=============================================================================
