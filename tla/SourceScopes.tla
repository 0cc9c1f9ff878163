---------------------------- MODULE SourceScopes ----------------------------
(***************************************************************************)
(* The scopes of a program as its source has them: modules, functions,     *)
(* loops, conditionals and else-blocks; an else-if shares the scope of the *)
(* else-block it stands in.  And the programs whose scopes the first pass  *)
(* follows: what SymbolBuildingVisitor takes for granted of the lines, the *)
(* names and the places of a program's nodes.                              *)
(***************************************************************************)
EXTENDS Compiler

Opened(program) == {p \in DOMAIN program : program[p].open}
LoopTags == {"For", "Forall", "Coforall"}

(* An else-block: the second block of a conditional. *)
IsElse(program, b) ==
  /\ program[b].tag = "Block" /\ Parent(program, b) # 0
  /\ program[Parent(program, b)].tag = "Conditional"
  /\ \E c \in Children(program, Parent(program, b)) : c < b /\ program[c].tag = "Block"

(* `else if': a conditional with which an else-block begins. *)
IsElseIf(program, q) ==
  /\ program[q].tag = "Conditional"
  /\ IsElse(program, Parent(program, q)) /\ q = Parent(program, q) + 1

IsScope(program, q) ==
  \/ program[q].tag \in {"Module", "Function"} \cup LoopTags
  \/ program[q].tag = "Conditional" /\ ~IsElseIf(program, q)
  \/ IsElse(program, q)

(* The innermost scope around a node. *)
ScopeAround(program, p) ==
  LET around == {s \in 1 .. p - 1 :
                   program[s].open /\ p < CloseOf(program, s) /\ IsScope(program, s)}
  IN  IF around = {} THEN 0 ELSE CHOOSE s \in around : \A r \in around : r <= s
------------------------------------------------------------------------------
(* A traversal is a bracketing: every node is left after its children. *)
IsTraversal(program) ==
  /\ Len(program) \in Nat \ {0} /\ DOMAIN program = 1 .. Len(program)
  /\ program[1].open /\ CloseOf(program, 1) = Len(program)
  /\ \A p \in Opened(program) :
       LET c == CloseOf(program, p)
       IN  /\ program[p].span \in Nat \ {0} /\ c \in DOMAIN program
           /\ ~program[c].open /\ program[c].tag = program[p].tag
           /\ \A q \in Opened(program) : p < q /\ q < c => CloseOf(program, q) < c
  /\ \A c \in DOMAIN program \ Opened(program) :
       \E p \in Opened(program) : CloseOf(program, p) = c

OneModule(program) ==
  /\ program[1].tag = "Module"
  /\ \A p \in Opened(program) \ {1} : program[p].tag \notin {"Module", "Record", "Class"}

InVariable(program, p) ==
  \E v \in 1 .. p - 1 : /\ program[v].open /\ program[v].tag = "Variable"
                        /\ p < CloseOf(program, v)

(* A declaration holds an expression, or a type that begins with an array: *)
(* a range by itself would leave its own symbol on the stack, and so would *)
(* a tuple in a module.                                                    *)
ExpressionsBelong(program) ==
  /\ \A v \in Opened(program) : program[v].tag = "Variable" =>
       \A p \in Inside(program, v) :
         /\ program[p].tag \notin {"Variable", "Function", "Conditional", "Formal", "Tuple"} \cup LoopTags
         /\ program[p].tag \in {"Range", "BracketLoop", "Block"} => program[v + 1].tag = "BracketLoop"
  /\ \A p \in Opened(program) :
       /\ program[p].tag = "Tuple" => program[ScopeAround(program, p)].tag # "Module"
       /\ program[p].tag = "BracketLoop" =>
            \/ InVariable(program, p)
            \/ program[ScopeAround(program, p)].tag \in {"Function"} \cup LoopTags

(* Blocks are bodies, and conditionals are statements. *)
BlocksBelong(program) ==
  \A p \in Opened(program) :
    /\ program[p].tag = "Block" =>
         program[Parent(program, p)].tag \in {"Function", "Conditional", "BracketLoop"} \cup LoopTags
    /\ program[p].tag = "Conditional" => program[Parent(program, p)].tag \in {"Module", "Block"}

(* The first block of a conditional begins on the line of the conditional, *)
(* its else-block on another; an `else if' on that of the else-block       *)
(* around it.  A conditional straight in an else-block fills it.           *)
OnOneLine(program, p, q) == LineOf(program[p].line) = LineOf(program[q].line)
ArmsAreOnTheirLines(program) ==
  \A p \in Opened(program) :
    LET c == Parent(program, p)
    IN  /\ program[p].tag = "Block" /\ program[c].tag = "Conditional" =>
             /\ IsElse(program, p) <=>
                  ~OnOneLine(program, p, IF IsElseIf(program, c) THEN c - 1 ELSE c)
             /\ IsElse(program, p) => CloseOf(program, p) + 1 = CloseOf(program, c)
        /\ program[p].tag = "Conditional" /\ IsElse(program, c) =>
             p = c + 1 /\ CloseOf(program, c) = CloseOf(program, p) + 1

LoopName(tag) == [For |-> "for", Forall |-> "forall", Coforall |-> "coforall"][tag]
NameAt(program, base, p) == Ident(base, LineOf(program[p].line), <<>>)

(* The else-block of a conditional that does not begin with another. *)
IsPlainElse(program, b) ==
  IsElse(program, b) /\ ~(program[b + 1].open /\ program[b + 1].tag = "Conditional")

(* The names a node enters in the scope MadeIn, all of them by the time it *)
(* has been left; a formal and the range of a loop when they are met.      *)
NamesMade(program, d) ==
  LET tag == program[d].tag
  IN  CASE tag = "Variable" \/ tag = "Formal" -> {Name(program[d].name)}
        [] tag = "Function"   -> {SignatureOf(program, d)}
        [] tag \in LoopTags   -> {NameAt(program, LoopName(tag), d)}
        [] tag = "Conditional" ->
             IF IsElseIf(program, d) THEN {NameAt(program, "elseif", d - 1)}
             ELSE {NameAt(program, "if", d)}
        [] tag = "Block" -> IF IsPlainElse(program, d) THEN {NameAt(program, "else", d)} ELSE {}
        [] tag = "Range" /\ ~InVariable(program, d) -> {NameAt(program, "range_", d)}
        [] OTHER -> {}
MadeIn(program, d) ==
  ScopeAround(program, IF IsElseIf(program, d) THEN d - 1 ELSE d)
MadeBy(program, d, p) ==
  d < p /\ (CloseOf(program, d) < p \/ program[d].tag \in {"Formal", "Range"})

(* The name that must not be in sight when a node is left. *)
NameOf(program, q) ==
  CASE program[q].tag = "Variable" -> Name(program[q].name)
    [] program[q].tag = "Function" -> SignatureOf(program, q)
    [] OTHER -> IF IsElseIf(program, q) THEN NameAt(program, "else", q - 1)
                ELSE NameAt(program, "if", q)

(* Nothing is declared again where it is in sight; no function has the     *)
(* name of a conditional's scope in its own.                               *)
NamesAreNew(program) ==
  \A q \in Opened(program) :
    /\ program[q].tag = "Function" =>
         ~HasWord(program[q].name, "if") /\ ~HasWord(program[q].name, "block")
    /\ program[q].tag \in {"Variable", "Function", "Conditional"} =>
         /\ NameOf(program, q) \notin DOMAIN RootEntries
         /\ \A d \in Opened(program) :
              MadeBy(program, d, q) /\ NameOf(program, q) \in NamesMade(program, d) =>
                ~(q < CloseOf(program, MadeIn(program, d)))

(* The programs whose scopes the first pass follows. *)
Scoped(program) ==
  /\ IsTraversal(program) /\ OneModule(program) /\ ExpressionsBelong(program)
  /\ BlocksBelong(program) /\ ArmsAreOnTheirLines(program) /\ NamesAreNew(program)
=============================================================================
