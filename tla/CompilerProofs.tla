--------------------------- MODULE CompilerProofs ---------------------------
(***************************************************************************)
(* Proofs about Compiler, for every program and every way to name scopes.  *)
(*                                                                         *)
(* For any program whatever, the scopes of the symbol table form a tree,   *)
(* and what was entered in them stays.                                     *)
(*                                                                         *)
(* For the programs of SourceScopes, of any size, the scope the first pass *)
(* is in is the one that stands for the scope of the source around the     *)
(* node it has come to.  The proof relates three lists: the scopes of the  *)
(* source around a place, outermost first (Nest), the symbols on the stack *)
(* of the visitor (Symbols), and the scopes of the table from the root to  *)
(* the current one (Links).  Follows says that they agree; a lemma for     *)
(* every step of the pass shows that the next place finds them agreeing.   *)
(***************************************************************************)
EXTENDS Translation, FiniteSetTheorems, WellFoundedInduction, TLAPS

(* What ScopesAreATree needs to be inductive: a table is a record of its   *)
(* three fields, a scope one of its own.                                   *)
IsTable(st) ==
  /\ st = [lut |-> st.lut, ref |-> st.ref, moduleId |-> st.moduleId]
  /\ \E n \in Nat : DOMAIN st.lut = 0 .. n
  /\ st.lut[0].parent = NoScope
  /\ \A i \in DOMAIN st.lut :
       /\ st.lut[i] = [entries |-> st.lut[i].entries, parent |-> st.lut[i].parent,
                       moduleId |-> st.lut[i].moduleId]
       /\ i # 0 => st.lut[i].parent \in 0 .. i - 1
  /\ st.ref \in DOMAIN st.lut

(* Every scope and every symbol of the table st is in the table su, where  *)
(* st had it.                                                              *)
Extends(st, su) ==
  \A id \in DOMAIN st.lut :
    /\ id \in DOMAIN su.lut /\ su.lut[id].parent = st.lut[id].parent
    /\ \A x \in DOMAIN st.lut[id].entries :
         /\ x \in DOMAIN su.lut[id].entries
         /\ su.lut[id].entries[x] = st.lut[id].entries[x]
Grows(st, su) == IsTable(su) /\ Extends(st, su)

(* The same, but for what the first pass may do to a symbol it entered.    *)
Marked(s) ==
  {s} \cup IF phase = "symbols" /\ s.literal = 0 THEN {[s EXCEPT !.literal = pos]} ELSE {}
Keeps(st, su) ==
  \A id \in DOMAIN st.lut :
    /\ id \in DOMAIN su.lut /\ su.lut[id].parent = st.lut[id].parent
    /\ \A x \in DOMAIN st.lut[id].entries :
         /\ x \in DOMAIN su.lut[id].entries
         /\ su.lut[id].entries[x] \in Marked(st.lut[id].entries[x])
------------------------------------------------------------------------------
(* lut.size() is one more than the last number given out. *)
LEMMA SizeOfTable ==
  ASSUME NEW st, NEW n \in Nat, DOMAIN st.lut = 0 .. n
  PROVE  Size(st) = n + 1
<1>1. Cardinality(0 .. n) = n - 0 + 1
  BY FS_Interval
<1>2. QED
  BY <1>1 DEF Size

(* pushScope appends a scope and makes it the one that is populated. *)
LEMMA PushGrows ==
  ASSUME NEW st, IsTable(st)
  PROVE  Grows(st, PushScope(st))
<1>1. PICK n \in Nat : DOMAIN st.lut = 0 .. n
  BY DEF IsTable
<1>2. Size(st) = n + 1
  BY <1>1, SizeOfTable
<1> DEFINE su == PushScope(st)
<1>3. su = [lut |-> [i \in 0 .. n + 1 |-> IF i = n + 1 THEN Scope(st.ref, st.moduleId)
                                          ELSE st.lut[i]],
            ref |-> n + 1, moduleId |-> st.moduleId]
  BY <1>2 DEF PushScope, IsTable
<1> HIDE DEF su
<1>4. DOMAIN su.lut = 0 .. n + 1 /\ su.ref = n + 1 /\ n + 1 \in Nat
  BY <1>3
<1>5. \A i \in 0 .. n : su.lut[i] = st.lut[i]
  BY <1>3
<1>6. su.lut[n + 1] = [entries |-> [i \in {} |-> Nothing], parent |-> st.ref,
                       moduleId |-> st.moduleId]
  BY <1>3 DEF Scope
<1>7. IsTable(su)
  <2>1. su = [lut |-> su.lut, ref |-> su.ref, moduleId |-> su.moduleId]
    BY <1>3
  <2>2. su.lut[0].parent = NoScope /\ su.ref \in DOMAIN su.lut
    <3>1. 0 \in 0 .. n /\ n + 1 \in 0 .. n + 1
      OBVIOUS
    <3>2. su.lut[0].parent = st.lut[0].parent
      BY <1>5, <3>1
    <3>3. QED
      BY <1>4, <3>1, <3>2 DEF IsTable
  <2>3. ASSUME NEW i \in 0 .. n
        PROVE  /\ su.lut[i] = [entries |-> su.lut[i].entries, parent |-> su.lut[i].parent,
                               moduleId |-> su.lut[i].moduleId]
               /\ i # 0 => su.lut[i].parent \in 0 .. i - 1
    BY <1>1, <1>5 DEF IsTable
  <2>4. /\ su.lut[n + 1] = [entries |-> su.lut[n + 1].entries, parent |-> su.lut[n + 1].parent,
                            moduleId |-> su.lut[n + 1].moduleId]
        /\ su.lut[n + 1].parent \in 0 .. n
    BY <1>1, <1>6 DEF IsTable
  <2>5. \A i \in DOMAIN su.lut : i \in 0 .. n \/ i = n + 1
    BY <1>4
  <2>6. QED
    BY <1>4, <2>1, <2>2, <2>3, <2>4, <2>5 DEF IsTable
<1>8. Extends(st, su)
  <2>1. \A id \in DOMAIN st.lut : id \in DOMAIN su.lut /\ su.lut[id] = st.lut[id]
    BY <1>1, <1>4, <1>5
  <2>2. QED
    BY <2>1 DEF Extends
<1>9. QED
  BY <1>7, <1>8 DEF su, Grows

(* popScope goes to the scope around, and stays in the outermost. *)
LEMMA PopGrows ==
  ASSUME NEW st, IsTable(st)
  PROVE  Grows(st, PopScope(st))
<1> DEFINE su == PopScope(st)
<1>1. su = [lut |-> st.lut, ref |-> su.ref, moduleId |-> st.moduleId]
  BY DEF PopScope, IsTable
<1>2. su.ref \in DOMAIN st.lut
  <2>1. su.ref = IF st.lut[st.ref].parent = NoScope THEN st.ref ELSE st.lut[st.ref].parent
    BY DEF PopScope, IsTable
  <2>2. CASE st.ref = 0
    BY <2>1, <2>2 DEF IsTable
  <2>3. CASE st.ref # 0
    <3>1. st.lut[st.ref].parent \in 0 .. st.ref - 1
      BY <2>3 DEF IsTable
    <3>2. st.lut[st.ref].parent \in DOMAIN st.lut
      BY <3>1 DEF IsTable
    <3>3. QED
      BY <2>1, <3>2 DEF IsTable
  <2>4. QED
    BY <2>2, <2>3
<1> HIDE DEF su
<1>3. su.lut = st.lut /\ su = [lut |-> su.lut, ref |-> su.ref, moduleId |-> su.moduleId]
  BY <1>1
<1>4. IsTable(su)
  BY <1>2, <1>3 DEF IsTable
<1>5. Extends(st, su)
  BY <1>3 DEF Extends
<1>6. QED
  BY <1>4, <1>5 DEF su, Grows

(* addEntry adds one symbol to one scope, or does nothing. *)
LEMMA AddGrows ==
  ASSUME NEW st, IsTable(st), NEW id, NEW ident, NEW s
  PROVE  Grows(st, AddEntry(st, id, ident, s))
<1>1. CASE ident \in DOMAIN st.lut[id].entries
  BY <1>1 DEF AddEntry, Extends, Grows
<1>2. CASE ident \notin DOMAIN st.lut[id].entries
  <2> DEFINE su == AddEntry(st, id, ident, s)
             entries == st.lut[id].entries
             more == [i \in DOMAIN entries \cup {ident} |-> IF i = ident THEN s ELSE entries[i]]
  <2>1. su = [lut |-> [st.lut EXCEPT ![id] = [@ EXCEPT !.entries = more]],
              ref |-> st.ref, moduleId |-> st.moduleId]
    BY <1>2 DEF AddEntry, IsTable
  <2> HIDE DEF su, more
  <2>2. DOMAIN su.lut = DOMAIN st.lut /\ su.ref = st.ref
    BY <2>1
  <2>3. \A i \in DOMAIN st.lut : i # id => su.lut[i] = st.lut[i]
    BY <2>1
  <2>4. id \in DOMAIN st.lut =>
          su.lut[id] = [entries |-> more, parent |-> st.lut[id].parent,
                        moduleId |-> st.lut[id].moduleId]
    <3>1. SUFFICES ASSUME id \in DOMAIN st.lut
                   PROVE  su.lut[id] = [entries |-> more, parent |-> st.lut[id].parent,
                                        moduleId |-> st.lut[id].moduleId]
      OBVIOUS
    <3>2. su.lut[id] = [st.lut[id] EXCEPT !.entries = more]
      BY <2>1, <3>1
    <3>3. st.lut[id] = [entries |-> st.lut[id].entries, parent |-> st.lut[id].parent,
                        moduleId |-> st.lut[id].moduleId]
      BY <3>1 DEF IsTable
    <3>4. QED
      BY <3>2, <3>3
  <2>5. \A i \in DOMAIN st.lut :
          /\ su.lut[i].parent = st.lut[i].parent
          /\ su.lut[i] = [entries |-> su.lut[i].entries, parent |-> su.lut[i].parent,
                          moduleId |-> su.lut[i].moduleId]
    BY <2>3, <2>4 DEF IsTable
  <2>6. IsTable(su)
    <3>1. 0 \in DOMAIN st.lut
      BY DEF IsTable
    <3>2. QED
      BY <2>1, <2>2, <2>5, <3>1 DEF IsTable
  <2>7. Extends(st, su)
    <3>1. \A x \in DOMAIN entries : x \in DOMAIN more /\ more[x] = entries[x]
      BY <1>2 DEF more
    <3>2. QED
      BY <2>2, <2>3, <2>4, <2>5, <3>1 DEF Extends
  <2>8. QED
    BY <2>6, <2>7 DEF su, Grows
<1>3. QED
  BY <1>1, <1>2

(* addEntry and then popScope, as an exit does. *)
LEMMA LeaveGrows ==
  ASSUME NEW st, IsTable(st), NEW id, NEW ident, NEW s
  PROVE  Grows(st, PopScope(AddEntry(st, id, ident, s)))
<1>1. Grows(st, AddEntry(st, id, ident, s))
  BY AddGrows
<1>2. Grows(AddEntry(st, id, ident, s), PopScope(AddEntry(st, id, ident, s)))
  BY <1>1, PopGrows DEF Grows
<1>3. QED
  BY <1>1, <1>2 DEF Grows, Extends

(* The number of the module is no part of the tree. *)
LEMMA ModuleIdGrows ==
  ASSUME NEW st, IsTable(st), NEW n
  PROVE  Grows(st, [st EXCEPT !.moduleId = n])
<1> DEFINE su == [st EXCEPT !.moduleId = n]
<1>1. su = [lut |-> st.lut, ref |-> st.ref, moduleId |-> n]
  BY DEF IsTable
<1> HIDE DEF su
<1>2. su.lut = st.lut /\ su.ref = st.ref /\ su = [lut |-> su.lut, ref |-> su.ref, moduleId |-> su.moduleId]
  BY <1>1
<1>3. Grows(st, su)
  BY <1>2 DEF Grows, IsTable, Extends
<1>4. QED
  BY <1>3 DEF su
------------------------------------------------------------------------------
(* A symbol that stays as it is counts as marked. *)
LEMMA Same ==
  ASSUME NEW s PROVE s \in Marked(s)
BY Zenon DEF Marked

(* The first pass may put down a literal for a symbol that has none. *)
LEMMA MarkIsMarked ==
  ASSUME NEW s, phase = "symbols", s.literal = 0
  PROVE  [s EXCEPT !.literal = pos] \in Marked(s)
<1>1. Marked(s) = {s} \cup {[s EXCEPT !.literal = pos]}
  BY Zenon DEF Marked
<1>2. QED
  BY Zenon, <1>1

(* A table that has only grown has kept its scopes and its symbols. *)
LEMMA GrowsKeeps ==
  ASSUME NEW st, NEW su, Grows(st, su)
  PROVE  IsTable(su) /\ Keeps(st, su)
BY Same DEF Grows, Extends, Keeps

(* A literal is put down for a symbol of the table: that symbol changes. *)
LEMMA MarkKeeps ==
  ASSUME NEW st, IsTable(st), NEW id, NEW x, phase = "symbols",
         st.lut[id].entries[x].literal = 0
  PROVE  LET su == [st EXCEPT !.lut[id].entries[x].literal = pos]
         IN  IsTable(su) /\ Keeps(st, su)
<1> DEFINE s == [st.lut[id].entries[x] EXCEPT !.literal = pos]
           entries == [st.lut[id].entries EXCEPT ![x] = s]
           su == [st EXCEPT !.lut[id].entries[x].literal = pos]
<1>1. s \in Marked(st.lut[id].entries[x])
  BY MarkIsMarked
<1>2. su = [st EXCEPT !.lut = [st.lut EXCEPT ![id] = [st.lut[id] EXCEPT !.entries = entries]]]
  OBVIOUS
<1> HIDE DEF s, su
<1>3. su = [lut |-> [st.lut EXCEPT ![id] = [st.lut[id] EXCEPT !.entries = entries]],
            ref |-> st.ref, moduleId |-> st.moduleId]
  BY <1>2 DEF IsTable
<1>4. /\ DOMAIN entries = DOMAIN st.lut[id].entries
      /\ \A y \in DOMAIN entries : entries[y] = IF y = x THEN s ELSE st.lut[id].entries[y]
  OBVIOUS
<1> HIDE DEF entries
<1>5. DOMAIN su.lut = DOMAIN st.lut /\ su.ref = st.ref
  BY <1>3
<1>6. \A i \in DOMAIN st.lut : i # id => su.lut[i] = st.lut[i]
  BY <1>3
<1>7. id \in DOMAIN st.lut =>
        su.lut[id] = [entries |-> entries, parent |-> st.lut[id].parent,
                      moduleId |-> st.lut[id].moduleId]
  <2>1. SUFFICES ASSUME id \in DOMAIN st.lut
                 PROVE  su.lut[id] = [entries |-> entries, parent |-> st.lut[id].parent,
                                      moduleId |-> st.lut[id].moduleId]
    OBVIOUS
  <2>2. su.lut[id] = [st.lut[id] EXCEPT !.entries = entries]
    BY <1>3, <2>1
  <2>3. st.lut[id] = [entries |-> st.lut[id].entries, parent |-> st.lut[id].parent,
                      moduleId |-> st.lut[id].moduleId]
    BY <2>1 DEF IsTable
  <2>4. QED
    BY <2>2, <2>3
<1>8. \A i \in DOMAIN st.lut :
        /\ su.lut[i].parent = st.lut[i].parent
        /\ su.lut[i] = [entries |-> su.lut[i].entries, parent |-> su.lut[i].parent,
                        moduleId |-> su.lut[i].moduleId]
  BY <1>6, <1>7 DEF IsTable
<1>9. IsTable(su)
  <2>1. 0 \in DOMAIN st.lut
    BY DEF IsTable
  <2>2. QED
    BY <1>3, <1>5, <1>8, <2>1 DEF IsTable
<1>10. Keeps(st, su)
  <2>1. \A y \in DOMAIN entries : entries[y] \in Marked(st.lut[id].entries[y])
    BY <1>1, <1>4, Same
  <2>2. ASSUME NEW i \in DOMAIN st.lut, NEW y \in DOMAIN st.lut[i].entries
        PROVE  /\ y \in DOMAIN su.lut[i].entries
               /\ su.lut[i].entries[y] \in Marked(st.lut[i].entries[y])
    <3>1. CASE i = id
      BY <1>4, <1>7, <2>1, <2>2, <3>1
    <3>2. CASE i # id
      BY <1>6, <2>2, <3>2, Same
    <3>3. QED
      BY <3>1, <3>2
  <2>3. QED
    BY <1>5, <1>8, <2>2 DEF Keeps
<1>11. QED
  BY <1>9, <1>10 DEF su

(* A table left alone has grown by nothing. *)
LEMMA UnchangedGrows ==
  ASSUME IsTable(table), table' = table
  PROVE  Grows(table, table')
BY DEF Grows, Extends

(* A call among the elements of an array literal: the one change of a symbol *)
(* that is in the table already.                                             *)
LEMMA CallKeeps ==
  ASSUME IsTable(table), EnterFnCall
  PROVE  IsTable(table') /\ Keeps(table, table')
<1>1. \/ table' = table
      \/ \E id, x : table' = MarkLiteral(table, id, x, pos)
  BY DEF EnterFnCall, CallAsElement, CallAsValue, Skip, SetTopAnd, SetTop, SetKind, Abort, Tables
<1>2. phase = "symbols"
  BY DEF EnterFnCall, Enters
<1>3. table' = table => IsTable(table') /\ Keeps(table, table')
  BY UnchangedGrows, GrowsKeeps
<1>4. ASSUME NEW id, NEW x, table' = MarkLiteral(table, id, x, pos)
      PROVE  IsTable(table') /\ Keeps(table, table')
  BY <1>2, <1>3, <1>4, MarkKeeps DEF MarkLiteral
<1>5. QED
  BY <1>1, <1>3, <1>4

(* The steps of the first pass on expressions do not touch the table, but  *)
(* for the name a loop's range gets.                                       *)
LEMMA ExpressionsGrow ==
  ASSUME IsTable(table), EnterExpression, ~EnterFnCall
  PROVE  Grows(table, table')
<1> USE DEF Skip, SetTopAnd, SetTop, SetKind, Alter, Abort, Tables, PushAnd, Push
<1>1. EnterArray \/ EnterDomain \/ EnterBracketLoop => table' = table
  BY DEF EnterArray, EnterDomain, EnterBracketLoop
<1>2. EnterIdentifier => table' = table
  BY DEF EnterIdentifier, IdentifierOfArray, IdentifierOfFunction, Component
<1>3. /\ EnterBoolLiteral \/ EnterImagLiteral \/ EnterRealLiteral => table' = table
      /\ EnterUintLiteral \/ EnterBytesLiteral => table' = table
      /\ EnterCStringLiteral \/ EnterStringLiteral => table' = table
  BY DEF EnterBoolLiteral, EnterImagLiteral, EnterRealLiteral, EnterUintLiteral,
         EnterBytesLiteral, EnterCStringLiteral, EnterStringLiteral, Literal
<1>4. EnterIntLiteral => table' = table
  BY DEF EnterIntLiteral, Component
<1>5. EnterOpCall => table' = table
  BY DEF EnterOpCall
<1>6. EnterTuple => table' = table
  BY DEF EnterTuple
<1>7. EnterRange => table' = table \/ \E id, ident, s : table' = AddEntry(table, id, ident, s)
  BY DEF EnterRange
<1>8. (\E id, ident, s : table' = AddEntry(table, id, ident, s)) => Grows(table, table')
  BY AddGrows
<1>9. QED
  BY <1>1, <1>2, <1>3, <1>4, <1>5, <1>6, <1>7, <1>8, UnchangedGrows DEF EnterExpression

(* A declaration, a loop, a conditional or a block opens a scope. *)
LEMMA DeclarationsGrow ==
  ASSUME IsTable(table), EnterDeclaration
  PROVE  Grows(table, table')
<1> USE DEF Skip, SetTopAnd, SetTop, PushAnd, Push, Abort, Tables
<1>1. EnterFormal => table' = table \/ \E id, ident, s : table' = AddEntry(table, id, ident, s)
  BY DEF EnterFormal
<1>2. EnterVariable \/ EntersIgnored => table' = table
  BY DEF EnterVariable, EntersIgnored
<1>3. /\ EnterFunction \/ EnterRecord \/ EnterClass => table' = PushScope(table)
      /\ EnterFor \/ EnterForall \/ EnterCoforall => table' = PushScope(table)
  BY DEF EnterFunction, EnterRecord, EnterClass, EnterFor, EnterForall, EnterCoforall,
         OpenAt, Open
<1>4. EnterConditional \/ EnterBlock => table' = table \/ table' = PushScope(table)
  BY DEF EnterConditional, EnterBlock, OpenAt, Open
<1>5. EnterModule => \E n : table' = PushScope([table EXCEPT !.moduleId = n])
  BY DEF EnterModule
<1>6. (\E id, ident, s : table' = AddEntry(table, id, ident, s)) => Grows(table, table')
  BY AddGrows
<1>7. table' = PushScope(table) => Grows(table, table')
  BY PushGrows
<1>8. ASSUME NEW n, table' = PushScope([table EXCEPT !.moduleId = n])
      PROVE  Grows(table, table')
  <2>1. Grows(table, [table EXCEPT !.moduleId = n])
    BY ModuleIdGrows
  <2>2. Grows([table EXCEPT !.moduleId = n], table')
    BY <1>8, <2>1, PushGrows DEF Grows
  <2>3. QED
    BY <2>1, <2>2 DEF Grows, Extends
<1>9. QED
  BY <1>1, <1>2, <1>3, <1>4, <1>5, <1>6, <1>7, <1>8, UnchangedGrows DEF EnterDeclaration

(* The exits enter the symbol and leave its scope; that of a conditional   *)
(* may do so twice, and an error return does neither.                      *)
LEMMA ExitsGrow ==
  ASSUME IsTable(table), Exit
  PROVE  Grows(table, table')
<1> USE DEF Skip, SetTop, Abort, Tables
<1> DEFINE Left(st, su) == \E id, ident, s : su = PopScope(AddEntry(st, id, ident, s))
<1>1. ExitRange \/ ExitVariable =>
        table' = table \/ \E id, ident, s : table' = AddEntry(table, id, ident, s)
  BY DEF ExitRange, ExitVariable
<1>2. ExitRecord \/ ExitClass \/ ExitLoop => table' = table \/ Left(table, table')
  BY DEF ExitRecord, ExitClass, ExitAggregate, Duplicate, ExitLoop, EnteredAndLeft
<1>3. ExitModule => table' = table \/ \E n : Left([table EXCEPT !.moduleId = n], table')
  BY DEF ExitModule
<1>4. ExitFunction => table' = table \/ Left(table, table')
  BY DEF ExitFunction, LeaveFunction
<1>5. ExitConditional =>
        \/ table' = table \/ Left(table, table')
        \/ \E st : Left(table, st) /\ (table' = st \/ Left(st, table'))
  BY DEF ExitConditional, LeaveFunction, EnteredAndLeft
<1>6. ExitBlock \/ ExitsOther => table' = table
  BY DEF ExitBlock, ExitsOther
<1>7. (\E id, ident, s : table' = AddEntry(table, id, ident, s)) => Grows(table, table')
  BY AddGrows
<1>8. ASSUME NEW st, NEW su, IsTable(st), Left(st, su)
      PROVE  Grows(st, su)
  BY <1>8, LeaveGrows
<1>9. ASSUME NEW n, Left([table EXCEPT !.moduleId = n], table')
      PROVE  Grows(table, table')
  <2>1. Grows(table, [table EXCEPT !.moduleId = n])
    BY ModuleIdGrows
  <2>2. Grows([table EXCEPT !.moduleId = n], table')
    BY <1>8, <1>9, <2>1 DEF Grows
  <2>3. QED
    BY <2>1, <2>2 DEF Grows, Extends
<1>10. ASSUME NEW st, Left(table, st), table' = st \/ Left(st, table')
       PROVE  Grows(table, table')
  <2>1. Grows(table, st)
    BY <1>8, <1>10
  <2>2. CASE Left(st, table')
    <3>1. Grows(st, table')
      BY <1>8, <2>1, <2>2 DEF Grows
    <3>2. QED
      BY <2>1, <3>1 DEF Grows, Extends
  <2>3. QED
    BY <1>10, <2>1, <2>2
<1> HIDE DEF Left
<1>11. QED
  BY <1>1, <1>2, <1>3, <1>4, <1>5, <1>6, <1>7, <1>8, <1>9, <1>10, UnchangedGrows DEF Exit
------------------------------------------------------------------------------
(* The second and the third pass. *)
(* The second pass does not write to the table: what a return finds out about *)
(* a function it stores in the object of the function's kind.                 *)
LEMMA TreeKeeps == BuildTree => table' = table
<1> USE DEF Children_, NoChildren, InTree, Tables, Stop, Abort, Pass, InList, Add, AddAndEnter, Pop
<1>1. VisitIdentifier => table' = table
  BY DEF VisitIdentifier, IdentifierOfLoop
<1>2. /\ VisitBoolLiteral \/ VisitRealLiteral \/ VisitStringLiteral => table' = table
      /\ VisitIntLiteral => table' = table
  BY DEF VisitBoolLiteral, VisitRealLiteral, VisitStringLiteral, VisitIntLiteral,
         LiteralOr, LiteralInto, Number
<1>3. VisitFnCall => table' = table
  BY DEF VisitFnCall, OperandCall, Subscript, CallByPrefix, InitialiseWith
<1>4. VisitOpCall \/ VisitTuple => table' = table
  BY DEF VisitOpCall, VisitTuple, InitialiseWith
<1>5. VisitVariable => table' = table
  BY DEF VisitVariable, DeclareArray, Declare
<1>6. VisitFor \/ VisitForall \/ VisitCoforall => table' = table
  BY DEF VisitFor, VisitForall, VisitCoforall, VisitLoop, OpenLoop
<1>7. VisitFunction \/ VisitModule \/ VisitRecord \/ VisitClass => table' = table
  BY DEF VisitFunction, VisitModule, VisitRecord, VisitClass, VisitDecl, OpenScope
<1>8. VisitConditional \/ VisitBlock \/ VisitOther => table' = table
  BY DEF VisitConditional, VisitBlock, VisitOther
<1>9. LeaveNode => table' = table
  BY DEF LeaveNode, LeaveCall, LeaveOpCall, LeaveVariable, LeaveFunction_, LeaveBlock, LeaveOther
<1>10. VisitReturn => table' = table
  BY DEF VisitReturn
<1>11. QED
  BY <1>1, <1>2, <1>3, <1>4, <1>5, <1>6, <1>7, <1>8, <1>9, <1>10 DEF BuildTree, VisitNode

(* The third pass does not write to the table. *)
LEMMA CodeKeeps == GenerateCode => table' = table
<1> USE DEF Unchanged, InTree, Tables, Then, WriteLine, Emit, Fail, Drop, Stop, Abort
<1>1. StartCode \/ PrintLine \/ EmitDeclaration \/ EmitNothing => table' = table
  BY DEF StartCode, PrintLine, EmitDeclaration, EmitNothing
<1>2. EmitFunctionCall \/ EmitBinaryOp \/ EmitScalarDeclExpr \/ EmitReturn => table' = table
  BY DEF EmitFunctionCall, EmitBinaryOp, EmitScalarDeclExpr, EmitReturn
<1>3. EmitConditional \/ EmitLoop \/ EmitFunctionDecl => table' = table
  BY DEF EmitConditional, EmitLoop, EmitFunctionDecl
<1>4. EmitAggregate \/ EmitModule => table' = table
  BY DEF EmitAggregate, EmitModule
<1>5. QED
  BY <1>1, <1>2, <1>3, <1>4 DEF GenerateCode
------------------------------------------------------------------------------
(* The table of SymbolTable's constructor, with the built-in names. *)
LEMMA InitIsTable == CompilerInit => IsTable(table)
<1> SUFFICES ASSUME CompilerInit PROVE IsTable(table)
  OBVIOUS
<1>1. table = [EmptyTable EXCEPT !.lut[0].entries = RootEntries]
  BY DEF CompilerInit, Init
<1>2. EmptyTable = [lut |-> [i \in {0} |-> Scope(NoScope, 0)], ref |-> 0, moduleId |-> 0]
  BY DEF EmptyTable
<1>3. table = [lut |-> [i \in {0} |-> [Scope(NoScope, 0) EXCEPT !.entries = RootEntries]],
               ref |-> 0, moduleId |-> 0]
  BY <1>1, <1>2
<1>4. table.lut[0] = [entries |-> RootEntries, parent |-> NoScope, moduleId |-> 0]
  BY <1>3 DEF Scope
<1>5. DOMAIN table.lut = 0 .. 0 /\ table.ref = 0
  BY <1>3
<1>6. QED
  BY <1>3, <1>4, <1>5 DEF IsTable

(* Whatever the three passes do in a step, the scopes stay where they are *)
(* and the symbols in them.                                               *)
LEMMA StepKeeps ==
  ASSUME IsTable(table), [Next]_vars
  PROVE  IsTable(table') /\ Keeps(table, table')
<1>1. CASE BuildSymbols /\ EnterFnCall
  BY <1>1, CallKeeps
<1>2. CASE BuildSymbols /\ ~EnterFnCall
  <2>1. Grows(table, table')
    BY <1>2, ExpressionsGrow, DeclarationsGrow, ExitsGrow DEF BuildSymbols
  <2>2. QED
    BY <2>1, GrowsKeeps
<1>3. CASE BuildTree \/ GenerateCode \/ NextPass \/ Ended \/ UNCHANGED vars
  <2>1. table' = table
    BY <1>3, TreeKeeps, CodeKeeps DEF NextPass, Ended, vars, Tables
  <2>2. QED
    BY <2>1, UnchangedGrows, GrowsKeeps
<1>4. QED
  BY <1>1, <1>2, <1>3 DEF Next

(* In a table numbered in the order of its making every parent is older. *)
LEMMA TableIsATree ==
  ASSUME IsTable(table) PROVE ScopesAreATree
<1>1. PICK n \in Nat : DOMAIN table.lut = 0 .. n
  BY DEF IsTable
<1>2. Size(table) = n + 1
  BY <1>1, SizeOfTable
<1>3. DOMAIN table.lut = 0 .. Size(table) - 1
  BY <1>1, <1>2
<1>4. QED
  BY <1>3 DEF IsTable, ScopesAreATree

(* The inductive invariant of the compiler: at every moment of every pass the  *)
(* table has its scopes under 0 .. n, each of them below an older one, and the *)
(* current scope among them.                                                   *)
THEOREM TablesAreTables == Spec => []IsTable(table)
<1>1. CompilerInit => IsTable(table)
  BY InitIsTable
<1>2. IsTable(table) /\ [Next]_vars => IsTable(table)'
  BY StepKeeps DEF IsTable
<1>3. QED
  BY <1>1, <1>2, PTL DEF Spec

(* Whatever the program, and whatever goes wrong in it, the scopes of the  *)
(* symbol table stay a tree that every search can climb to its root.       *)
THEOREM ScopesStayATree == Spec => []ScopesAreATree
<1>1. IsTable(table) => ScopesAreATree
  BY TableIsATree
<1>2. QED
  BY <1>1, TablesAreTables, PTL

(* No pass ever takes a symbol away or replaces it by another, and a scope *)
(* stays where it was made: at most a literal is put down for a symbol of  *)
(* the table that has none, and that by the first pass only.               *)
THEOREM EnteredSymbolsStay == Spec => SymbolsStay
<1>1. IsTable(table) /\ [Next]_vars => Keeps(table, table')
  BY StepKeeps
<1>2. Keeps(table, table') =>
        [\A id \in DOMAIN table.lut :
           /\ id \in DOMAIN table.lut' /\ table'.lut[id].parent = table.lut[id].parent
           /\ \A x \in DOMAIN table.lut[id].entries :
                LET s == table.lut[id].entries[x]
                    marked == IF phase = "symbols" /\ s.literal = 0
                              THEN {[s EXCEPT !.literal = pos]} ELSE {}
                IN  /\ x \in DOMAIN table'.lut[id].entries
                    /\ table'.lut[id].entries[x] \in {s} \cup marked]_vars
  BY Zenon DEF Keeps, Marked
<1>3. QED
  BY <1>1, <1>2, TablesAreTables, PTL DEF Spec, SymbolsStay

(***************************************************************************)
(* Numbers and sequences.                                                  *)
(***************************************************************************)
(* Every set of natural numbers that is not empty has a least one. *)
LEMMA LeastNumber ==
  ASSUME NEW T, T \subseteq Nat, T # {}
  PROVE  \E n \in T : \A m \in T : n <= m
<1> DEFINE U == {0 .. n : n \in T}
           R == StrictSubsetOrdering(Nat)
<1>1. IsWellFoundedOn(R, FiniteSubsetsOf(Nat))
  BY FS_StrictSubsetOrderingWellFounded
<1>2. U \subseteq FiniteSubsetsOf(Nat) /\ U # {}
  <2>1. ASSUME NEW n \in T PROVE 0 .. n \subseteq Nat /\ IsFiniteSet(0 .. n)
    BY FS_Interval
  <2> QED
    BY <2>1 DEF FiniteSubsetsOf
<1>3. PICK x \in U : \A y \in U : ~ (<<y, x>> \in R)
  <2> HIDE DEF U, R
  <2> QED
    BY <1>1, <1>2, WFMin
<1>4. PICK n \in T : x = 0 .. n
  BY <1>3
<1>5. ASSUME NEW m \in T, m < n PROVE FALSE
  <2>1. 0 .. m \in U /\ 0 .. m \subseteq 0 .. n /\ 0 .. m # 0 .. n
        /\ 0 .. m \subseteq Nat /\ 0 .. n \subseteq Nat
    <3>1. n \in 0 .. n /\ ~(n \in 0 .. m)
      BY <1>5
    <3> QED
      BY <1>5, <3>1
  <2>2. <<0 .. m, 0 .. n>> \in R
    BY <2>1 DEF StrictSubsetOrdering
  <2> QED
    BY <1>3, <1>4, <2>1, <2>2
<1> QED
  BY <1>5

(* A set of numbers below a bound has a greatest one. *)
LEMMA GreatestBelow ==
  ASSUME NEW b \in Nat, NEW T, T \subseteq 1 .. b, T # {}
  PROVE  \E n \in T : \A m \in T : m <= n
<1> DEFINE U == {b - n : n \in T}
<1>1. U \subseteq Nat /\ U # {}
  OBVIOUS
<1>2. PICK u \in U : \A v \in U : u <= v
  <2> HIDE DEF U
  <2> QED
    BY <1>1, LeastNumber
<1>3. PICK n \in T : u = b - n
  BY <1>2
<1>4. ASSUME NEW m \in T PROVE m <= n
  <2>1. b - m \in U
    OBVIOUS
  <2>2. u <= b - m /\ m \in 1 .. b /\ n \in 1 .. b
    BY <1>2, <2>1
  <2> QED
    BY <1>3, <2>2
<1> QED
  BY <1>4

(* Induction from 0 to b, for a set in the place of a predicate. *)
LEMMA UpTo ==
  ASSUME NEW b \in Nat, NEW S, 0 \in S, \A n \in 1 .. b : n - 1 \in S => n \in S
  PROVE  0 .. b \subseteq S
<1> DEFINE T == {n \in 0 .. b : n \notin S}
<1>1. SUFFICES ASSUME T # {} PROVE FALSE
  OBVIOUS
<1>2. PICK n \in T : \A m \in T : n <= m
  <2>1. T \subseteq Nat
    OBVIOUS
  <2> HIDE DEF T
  <2> QED
    BY <1>1, <2>1, LeastNumber
<1>3. n \in 1 .. b /\ n \notin S /\ n - 1 \in 0 .. b
  BY <1>2
<1>4. n - 1 \in S
  BY <1>2, <1>3
<1> QED
  BY <1>3, <1>4

(* What is known of a sequence whose elements have no type. *)
IsFcnSeq(s) == Len(s) \in Nat /\ s = [i \in 1 .. Len(s) |-> s[i]]

(* A sequence is one of its own elements. *)
LEMMA SequenceOf ==
  ASSUME NEW s, IsFcnSeq(s)
  PROVE  s \in Seq({s[i] : i \in 1 .. Len(s)})
BY DEF IsFcnSeq

(* Every sequence is a function on the first numbers. *)
LEMMA SequenceIn ==
  ASSUME NEW S, NEW s \in Seq(S)
  PROVE  IsFcnSeq(s)
BY DEF IsFcnSeq

(* What appending makes of a sequence. *)
LEMMA Appended ==
  ASSUME NEW s, IsFcnSeq(s), NEW e
  PROVE  /\ IsFcnSeq(Append(s, e)) /\ Len(Append(s, e)) = Len(s) + 1
         /\ \A i \in 1 .. Len(s) : Append(s, e)[i] = s[i]
         /\ Append(s, e)[Len(s) + 1] = e
<1> DEFINE S == {s[i] : i \in 1 .. Len(s)} \cup {e}
<1>1. s \in Seq(S)
  BY DEF IsFcnSeq
<1>2. e \in S
  OBVIOUS
<1> HIDE DEF S
<1>3. Append(s, e) \in Seq(S) /\ Len(s) \in Nat
  BY <1>1, <1>2
<1>4. Len(Append(s, e)) = Len(s) + 1
  BY <1>1, <1>2
<1>5. \A i \in 1 .. Len(s) : Append(s, e)[i] = s[i]
  BY <1>1, <1>2
<1>6. Append(s, e)[Len(s) + 1] = e
  BY <1>1, <1>2
<1>7. IsFcnSeq(Append(s, e))
  BY <1>3, SequenceIn
<1> QED
  BY <1>4, <1>5, <1>6, <1>7

(* What is left of a sequence without its last element. *)
LEMMA Fronted ==
  ASSUME NEW s, IsFcnSeq(s), Len(s) > 0
  PROVE  /\ IsFcnSeq(Front(s)) /\ Len(Front(s)) = Len(s) - 1
         /\ \A i \in 1 .. Len(s) - 1 : Front(s)[i] = s[i]
         /\ Last(s) = s[Len(s)]
<1> DEFINE S == {s[i] : i \in 1 .. Len(s)}
<1>1. s \in Seq(S)
  BY DEF IsFcnSeq
<1> HIDE DEF S
<1>2. Len(s) \in Nat /\ Len(s) - 1 \in Nat
  BY <1>1
<1>3. Front(s) \in Seq(S) /\ Len(Front(s)) = Len(s) - 1
  BY <1>1, <1>2 DEF Front
<1>4. \A i \in 1 .. Len(s) - 1 : Front(s)[i] = s[i]
  BY <1>1, <1>2 DEF Front
<1>5. Front(s) = [i \in 1 .. Len(Front(s)) |-> Front(s)[i]]
  BY <1>3
<1> QED
  BY <1>2, <1>3, <1>4, <1>5 DEF IsFcnSeq, Last

(* What becomes of a sequence whose last element is replaced. *)
NewTop(s, e, t) ==
  IsFcnSeq(t) /\ Len(t) = Len(s) /\ \A i \in 1 .. Len(s) : t[i] = IF i = Len(s) THEN e ELSE s[i]

(* EXCEPT at the last place does that, and leaves a sequence. *)
LEMMA NewTopOf ==
  ASSUME NEW s, IsFcnSeq(s), Len(s) > 0, NEW e, NEW t, t = [s EXCEPT ![Len(s)] = e]
  PROVE  NewTop(s, e, t)
<1> DEFINE S == {s[i] : i \in 1 .. Len(s)} \cup {e}
           n == Len(s)
<1>1. s \in Seq(S) /\ n \in Nat /\ s = [i \in 1 .. n |-> s[i]]
  BY DEF IsFcnSeq
<1>2. t = [s EXCEPT ![n] = e]
  OBVIOUS
<1> HIDE DEF n
<1>3. t = [i \in 1 .. n |-> IF i = n THEN e ELSE s[i]]
  BY <1>1, <1>2
<1>4. Len(t) = n
  BY <1>1, <1>3
<1> QED
  BY <1>1, <1>3, <1>4 DEF NewTop, IsFcnSeq, n

(* The same in full. *)
LEMMA Replaced ==
  ASSUME NEW s, IsFcnSeq(s), Len(s) > 0, NEW e, NEW t, t = [s EXCEPT ![Len(s)] = e]
  PROVE  /\ IsFcnSeq(t) /\ Len(t) = Len(s)
         /\ \A i \in 1 .. Len(s) : t[i] = IF i = Len(s) THEN e ELSE s[i]
<1>1. NewTop(s, e, t)
  BY NewTopOf
<1> QED
  BY <1>1 DEF NewTop

(***************************************************************************)
(* The scopes of a source.                                                 *)
(***************************************************************************)
(* What is used of a traversal. *)
Bracketing(a) ==
  /\ Len(a) \in Nat \ {0} /\ DOMAIN a = 1 .. Len(a)
  /\ Opened(a) \subseteq 1 .. Len(a) /\ 1 \in Opened(a) /\ CloseOf(a, 1) = Len(a)
  /\ \A p \in Opened(a) :
       /\ CloseOf(a, p) \in 1 .. Len(a) /\ p < CloseOf(a, p)
       /\ CloseOf(a, p) \notin Opened(a) /\ a[CloseOf(a, p)].tag = a[p].tag
  /\ \A p, q \in Opened(a) : p < q /\ q < CloseOf(a, p) => CloseOf(a, q) < CloseOf(a, p)
  /\ \A c \in 1 .. Len(a) : c \notin Opened(a) => \E p \in Opened(a) : CloseOf(a, p) = c

(* An else-block that begins with a conditional, past its beginning. *)
Renamed(a, s, p) == p > s + 1 /\ s + 1 \in Opened(a) /\ a[s + 1].tag = "Conditional"

(* Where the scope of s is left. *)
ScopeEnd(a, s) ==
  IF ~IsElse(a, s) THEN CloseOf(a, s)
  ELSE IF IsPlainElse(a, s) THEN CloseOf(a, Parent(a, s))
  ELSE CloseOf(a, s + 1)

(* The scopes that are open in front of p. *)
InScopes(a, p) == {s \in Opened(a) : IsScope(a, s) /\ s < p /\ p <= ScopeEnd(a, s)}

ClosingTags == {"Module", "Function", "Conditional"} \cup LoopTags

(* The scope of a conditional. *)
ScopeOf(a, x) == IF IsElseIf(a, x) THEN x - 1 ELSE x
------------------------------------------------------------------------------
(* A traversal has the brackets the proofs use. *)
LEMMA Brackets ==
  ASSUME NEW a, IsTraversal(a)
  PROVE  Bracketing(a)
<1>1. Len(a) \in Nat \ {0} /\ DOMAIN a = 1 .. Len(a) /\ CloseOf(a, 1) = Len(a)
  BY DEF IsTraversal
<1>2. Opened(a) \subseteq 1 .. Len(a) /\ 1 \in Opened(a)
  BY <1>1 DEF IsTraversal, Opened
<1>3. ASSUME NEW p \in Opened(a)
      PROVE  /\ CloseOf(a, p) \in 1 .. Len(a) /\ p < CloseOf(a, p)
             /\ CloseOf(a, p) \notin Opened(a) /\ a[CloseOf(a, p)].tag = a[p].tag
  <2>1. CloseOf(a, p) \in 1 .. Len(a) /\ ~a[CloseOf(a, p)].open /\ a[CloseOf(a, p)].tag = a[p].tag
    BY <1>1 DEF IsTraversal
  <2>2. a[p].span \in Nat \ {0}
    BY DEF IsTraversal
  <2>3. p < CloseOf(a, p)
    BY <1>2, <2>2 DEF CloseOf
  <2> QED
    BY <2>1, <2>3 DEF Opened
<1>4. \A p, q \in Opened(a) : p < q /\ q < CloseOf(a, p) => CloseOf(a, q) < CloseOf(a, p)
  BY DEF IsTraversal
<1>5. \A c \in 1 .. Len(a) : c \notin Opened(a) => \E p \in Opened(a) : CloseOf(a, p) = c
  BY <1>1 DEF IsTraversal
<1> QED
  BY <1>1, <1>2, <1>3, <1>4, <1>5 DEF Bracketing

(* No two nodes end at the same place. *)
LEMMA CloseOnce ==
  ASSUME NEW a, Bracketing(a), NEW p \in Opened(a), NEW q \in Opened(a),
         CloseOf(a, p) = CloseOf(a, q)
  PROVE  p = q
BY DEF Bracketing

(* The innermost node around another. *)
LEMMA ParentIs ==
  ASSUME NEW a, Bracketing(a), NEW q \in Opened(a), q # 1
  PROVE  /\ Parent(a, q) \in Opened(a) /\ Parent(a, q) < q
         /\ q < CloseOf(a, Parent(a, q)) /\ CloseOf(a, q) < CloseOf(a, Parent(a, q))
         /\ \A r \in Opened(a) : r < q /\ q < CloseOf(a, r) => r <= Parent(a, q)
<1> DEFINE around == {r \in 1 .. q - 1 : a[r].open /\ CloseOf(a, r) > q}
<1>1. q \in 1 .. Len(a) /\ Len(a) \in Nat
  BY DEF Bracketing
<1>2. \A r : r \in around <=> r \in Opened(a) /\ r < q /\ q < CloseOf(a, r)
  <2>1. ASSUME NEW r \in around PROVE r \in Opened(a) /\ r < q /\ q < CloseOf(a, r)
    <3>1. r \in DOMAIN a /\ a[r].open /\ CloseOf(a, r) > q /\ r < q
      BY <1>1 DEF Bracketing
    <3>2. r \in Opened(a)
      BY <3>1 DEF Opened
    <3>3. CloseOf(a, r) \in 1 .. Len(a)
      BY <3>2 DEF Bracketing
    <3> QED
      BY <1>1, <3>1, <3>2, <3>3
  <2>2. ASSUME NEW r \in Opened(a), r < q, q < CloseOf(a, r) PROVE r \in around
    <3>1. r \in 1 .. Len(a) /\ CloseOf(a, r) \in 1 .. Len(a)
      BY DEF Bracketing
    <3>2. a[r].open
      BY DEF Opened
    <3> QED
      BY <1>1, <2>2, <3>1, <3>2
  <2> QED
    BY <2>1, <2>2
<1>3. 1 \in around
  <2>1. 1 \in Opened(a) /\ CloseOf(a, q) \in 1 .. Len(a) /\ q < CloseOf(a, q) /\ CloseOf(a, 1) = Len(a)
    BY DEF Bracketing
  <2> QED
    BY <1>1, <1>2, <2>1
<1>4. \E n \in around : \A m \in around : m <= n
  <2>1. around \subseteq 1 .. q /\ q \in Nat
    BY <1>1
  <2> HIDE DEF around
  <2>2. around # {}
    BY <1>3
  <2> QED
    BY <2>1, <2>2, GreatestBelow
<1>5. Parent(a, q) = CHOOSE n \in around : \A m \in around : m <= n
  BY <1>3 DEF Parent
<1> HIDE DEF around
<1>6. Parent(a, q) \in around /\ \A m \in around : m <= Parent(a, q)
  BY <1>4, <1>5
<1>7. CloseOf(a, q) < CloseOf(a, Parent(a, q))
  BY <1>2, <1>6 DEF Bracketing
<1> QED
  BY <1>2, <1>6, <1>7

(* The module has no node around it. *)
LEMMA ParentOfFirst ==
  ASSUME NEW a
  PROVE  Parent(a, 1) = 0
BY DEF Parent

(* The innermost scope around a place. *)
LEMMA ScopeAroundIs ==
  ASSUME NEW a, Bracketing(a), NEW p \in 1 .. Len(a)
  PROVE  /\ ScopeAround(a, p) \in Nat
         /\ ScopeAround(a, p) # 0 =>
              /\ ScopeAround(a, p) \in Opened(a) /\ IsScope(a, ScopeAround(a, p))
              /\ ScopeAround(a, p) < p /\ p < CloseOf(a, ScopeAround(a, p))
         /\ \A r \in Opened(a) :
              IsScope(a, r) /\ r < p /\ p < CloseOf(a, r) =>
                r <= ScopeAround(a, p) /\ ScopeAround(a, p) # 0
<1> DEFINE around == {s \in 1 .. p - 1 : a[s].open /\ p < CloseOf(a, s) /\ IsScope(a, s)}
<1>1. \A r : r \in around <=> r \in Opened(a) /\ IsScope(a, r) /\ r < p /\ p < CloseOf(a, r)
  <2>1. ASSUME NEW r \in around PROVE r \in Opened(a) /\ IsScope(a, r) /\ r < p /\ p < CloseOf(a, r)
    <3>1. r \in DOMAIN a /\ a[r].open /\ r < p
      BY DEF Bracketing
    <3> QED
      BY <3>1 DEF Opened
  <2>2. ASSUME NEW r \in Opened(a), IsScope(a, r), r < p, p < CloseOf(a, r) PROVE r \in around
    <3>1. r \in 1 .. Len(a)
      BY DEF Bracketing
    <3>2. a[r].open
      BY DEF Opened
    <3> QED
      BY <2>2, <3>1, <3>2
  <2> QED
    BY <2>1, <2>2
<1>2. around \subseteq 1 .. p
  OBVIOUS
<1>3. ScopeAround(a, p) = IF around = {} THEN 0
                          ELSE CHOOSE n \in around : \A m \in around : m <= n
  BY DEF ScopeAround
<1> HIDE DEF around
<1>4. CASE around = {}
  BY <1>1, <1>3, <1>4
<1>5. CASE around # {}
  <2>1. p \in Nat
    BY DEF Bracketing
  <2>2. \E n \in around : \A m \in around : m <= n
    BY <1>2, <1>5, <2>1, GreatestBelow
  <2>3. ScopeAround(a, p) \in around /\ \A m \in around : m <= ScopeAround(a, p)
    BY <1>3, <1>5, <2>2
  <2>4. ScopeAround(a, p) \in 1 .. p
    BY <1>2, <2>3
  <2> QED
    BY <1>1, <2>3, <2>4
<1> QED
  BY <1>4, <1>5

(* The first thing in a node is its child. *)
LEMMA FirstChild ==
  ASSUME NEW a, Bracketing(a), NEW s \in Opened(a), s + 1 \in Opened(a)
  PROVE  s + 1 < CloseOf(a, s) /\ s + 1 # 1 /\ Parent(a, s + 1) = s
<1>1. s \in Nat /\ s >= 1 /\ CloseOf(a, s) \in Nat /\ s < CloseOf(a, s) /\ CloseOf(a, s) # s + 1
  BY DEF Bracketing
<1>2. s + 1 < CloseOf(a, s) /\ s + 1 # 1
  BY <1>1
<1>3. Parent(a, s + 1) < s + 1 /\ s <= Parent(a, s + 1) /\ Parent(a, s + 1) \in Opened(a)
  BY <1>1, <1>2, ParentIs
<1>4. Parent(a, s + 1) \in Nat
  BY <1>3 DEF Bracketing
<1> QED
  BY <1>1, <1>2, <1>3, <1>4

(* A program as the first pass wants it, and its brackets. *)
LEMMA ScopedBrackets ==
  ASSUME NEW a, Scoped(a)
  PROVE  Bracketing(a)
BY Brackets DEF Scoped

(* The end of a node is no node. *)
LEMMA ClosingNode ==
  ASSUME NEW a, Bracketing(a), NEW v \in Opened(a)
  PROVE  CloseOf(a, v) \in Nat /\ CloseOf(a, v) \notin Opened(a)
BY DEF Bracketing

(* An else-block ends its conditional. *)
LEMMA ElseEnds ==
  ASSUME NEW a, Scoped(a), NEW s \in Opened(a), IsElse(a, s)
  PROVE  /\ s # 1 /\ Parent(a, s) \in Opened(a) /\ Parent(a, s) < s
         /\ a[s].tag = "Block" /\ a[Parent(a, s)].tag = "Conditional"
         /\ CloseOf(a, Parent(a, s)) = CloseOf(a, s) + 1
<1>1. a[s].tag = "Block" /\ Parent(a, s) # 0 /\ a[Parent(a, s)].tag = "Conditional"
  BY DEF IsElse
<1>2. s # 1
  BY <1>1, ParentOfFirst
<1>3. Parent(a, s) \in Opened(a) /\ Parent(a, s) < s
  BY <1>2, ScopedBrackets, ParentIs
<1>4. CloseOf(a, s) + 1 = CloseOf(a, Parent(a, s))
  BY <1>1 DEF Scoped, ArmsAreOnTheirLines
<1> QED
  BY <1>1, <1>2, <1>3, <1>4

(* An else-block that begins with a conditional is filled by it. *)
LEMMA ElseIfFills ==
  ASSUME NEW a, Scoped(a), NEW s \in Opened(a), IsElse(a, s), ~IsPlainElse(a, s)
  PROVE  /\ s + 1 \in Opened(a) /\ a[s + 1].tag = "Conditional" /\ Parent(a, s + 1) = s
         /\ IsElseIf(a, s + 1) /\ CloseOf(a, s) = CloseOf(a, s + 1) + 1
<1>1. Bracketing(a)
  BY ScopedBrackets
<1>2. a[s + 1].open /\ a[s + 1].tag = "Conditional"
  BY DEF IsPlainElse
<1>3. s + 1 \in 1 .. Len(a)
  BY <1>1 DEF Bracketing
<1>4. s + 1 \in Opened(a)
  BY <1>1, <1>2, <1>3 DEF Bracketing, Opened
<1>5. Parent(a, s + 1) = s
  BY <1>1, <1>4, FirstChild
<1>6. CloseOf(a, s) = CloseOf(a, s + 1) + 1
  BY <1>2, <1>4, <1>5 DEF Scoped, ArmsAreOnTheirLines
<1>7. IsElseIf(a, s + 1)
  BY <1>2, <1>5 DEF IsElseIf
<1> QED
  BY <1>2, <1>4, <1>5, <1>6, <1>7

(* A scope is left with a node of its own or the conditional around it or  *)
(* in it.                                                                  *)
LEMMA EndIs ==
  ASSUME NEW a, Scoped(a), NEW s \in Opened(a), IsScope(a, s)
  PROVE  /\ ScopeEnd(a, s) \in 1 .. Len(a) /\ ScopeEnd(a, s) \notin Opened(a)
         /\ s < ScopeEnd(a, s) /\ a[ScopeEnd(a, s)].tag \in ClosingTags
         /\ ScopeEnd(a, s) \in {CloseOf(a, s) - 1, CloseOf(a, s), CloseOf(a, s) + 1}
<1>1. Bracketing(a)
  BY ScopedBrackets
<1>2. \A x \in Opened(a) : /\ x \in Nat /\ CloseOf(a, x) \in 1 .. Len(a) /\ x < CloseOf(a, x)
                           /\ CloseOf(a, x) \notin Opened(a) /\ a[CloseOf(a, x)].tag = a[x].tag
  BY <1>1 DEF Bracketing
<1>3. CASE ~IsElse(a, s)
  <2>1. ScopeEnd(a, s) = CloseOf(a, s)
    BY <1>3 DEF ScopeEnd
  <2>2. a[s].tag \in ClosingTags
    BY <1>3 DEF IsScope, ClosingTags
  <2> QED
    BY <1>2, <2>1, <2>2
<1>4. CASE IsPlainElse(a, s)
  <2>1. IsElse(a, s)
    BY <1>4 DEF IsPlainElse
  <2>2. ScopeEnd(a, s) = CloseOf(a, Parent(a, s))
    BY <1>4, <2>1 DEF ScopeEnd
  <2>3. /\ Parent(a, s) \in Opened(a) /\ a[Parent(a, s)].tag = "Conditional"
        /\ CloseOf(a, Parent(a, s)) = CloseOf(a, s) + 1
    BY <2>1, ElseEnds
  <2>4. s \in Nat /\ CloseOf(a, s) \in Nat /\ s < CloseOf(a, s)
    BY <1>2
  <2>5. /\ CloseOf(a, Parent(a, s)) \in 1 .. Len(a) /\ CloseOf(a, Parent(a, s)) \notin Opened(a)
        /\ a[CloseOf(a, Parent(a, s))].tag = "Conditional"
    BY <1>2, <2>3
  <2> QED
    BY <2>2, <2>3, <2>4, <2>5 DEF ClosingTags
<1>5. CASE IsElse(a, s) /\ ~IsPlainElse(a, s)
  <2>1. ScopeEnd(a, s) = CloseOf(a, s + 1)
    BY <1>5 DEF ScopeEnd
  <2>2. s + 1 \in Opened(a) /\ a[s + 1].tag = "Conditional" /\ CloseOf(a, s) = CloseOf(a, s + 1) + 1
    BY <1>5, ElseIfFills
  <2>3. CloseOf(a, s + 1) \in 1 .. Len(a) /\ s + 1 < CloseOf(a, s + 1) /\ s \in Nat /\ CloseOf(a, s) \in Nat
    BY <1>2, <2>2
  <2> QED
    BY <1>2, <2>1, <2>2, <2>3 DEF ClosingTags
<1> QED
  BY <1>3, <1>4, <1>5 DEF IsPlainElse

(* Where a node is entered, a scope is open as long as its node is. *)
LEMMA OpenAtNode ==
  ASSUME NEW a, Scoped(a), NEW s \in Opened(a), IsScope(a, s), NEW q \in Opened(a)
  PROVE  /\ q <= ScopeEnd(a, s) <=> q < CloseOf(a, s)
         /\ s \in InScopes(a, q) <=> s < q /\ q < CloseOf(a, s)
<1>1. q \in Nat /\ CloseOf(a, s) \in Nat /\ CloseOf(a, s) \notin Opened(a)
  BY ScopedBrackets DEF Bracketing
<1>2. ScopeEnd(a, s) \notin Opened(a) /\ ScopeEnd(a, s) \in Nat
      /\ ScopeEnd(a, s) \in {CloseOf(a, s) - 1, CloseOf(a, s), CloseOf(a, s) + 1}
  BY EndIs
<1>3. q <= ScopeEnd(a, s) <=> q < CloseOf(a, s)
  BY <1>1, <1>2
<1> QED
  BY <1>3 DEF InScopes

(* Of the scopes begun in a node, only its else-block is open at its end. *)
LEMMA EndsInside ==
  ASSUME NEW a, Scoped(a), NEW x \in Opened(a), NEW s \in InScopes(a, CloseOf(a, x)), x < s
  PROVE  IsPlainElse(a, s) /\ Parent(a, s) = x /\ ScopeEnd(a, s) = CloseOf(a, x)
<1>1. Bracketing(a)
  BY ScopedBrackets
<1>2. s \in Opened(a) /\ IsScope(a, s) /\ s < CloseOf(a, x) /\ CloseOf(a, x) <= ScopeEnd(a, s)
  BY DEF InScopes
<1>3. \A y \in Opened(a) : y \in Nat /\ CloseOf(a, y) \in Nat /\ y < CloseOf(a, y)
  BY <1>1 DEF Bracketing
<1>4. \A y \in Opened(a) : x < y /\ y < CloseOf(a, x) => CloseOf(a, y) < CloseOf(a, x)
  BY <1>1 DEF Bracketing
<1>5. CloseOf(a, s) < CloseOf(a, x)
  BY <1>2, <1>4
<1>6. CASE ~IsElse(a, s)
  <2>1. ScopeEnd(a, s) = CloseOf(a, s)
    BY <1>6 DEF ScopeEnd
  <2> QED
    BY <1>2, <1>3, <1>5, <2>1
<1>7. CASE IsElse(a, s) /\ ~IsPlainElse(a, s)
  <2>1. ScopeEnd(a, s) = CloseOf(a, s + 1)
    BY <1>7 DEF ScopeEnd
  <2>2. s + 1 \in Opened(a) /\ CloseOf(a, s) = CloseOf(a, s + 1) + 1
    BY <1>2, <1>7, ElseIfFills
  <2> QED
    BY <1>2, <1>3, <1>5, <2>1, <2>2
<1>8. CASE IsPlainElse(a, s)
  <2>1. IsElse(a, s) /\ ScopeEnd(a, s) = CloseOf(a, Parent(a, s))
    BY <1>8 DEF IsPlainElse, ScopeEnd
  <2>2. Parent(a, s) \in Opened(a) /\ Parent(a, s) < s /\ s # 1
    BY <1>2, <2>1, ElseEnds
  <2>3. x <= Parent(a, s)
    BY <1>1, <1>2, <2>2, ParentIs
  <2>4. Parent(a, s) < CloseOf(a, x)
    BY <1>2, <1>3, <2>2
  <2>5. ~(x < Parent(a, s))
    <3>1. CloseOf(a, Parent(a, s)) \in Nat /\ CloseOf(a, x) \in Nat
      BY <1>3, <2>2
    <3>2. x < Parent(a, s) => CloseOf(a, Parent(a, s)) < CloseOf(a, x)
      BY <1>4, <2>2, <2>4
    <3> QED
      BY <1>2, <2>1, <3>1, <3>2
  <2>6. Parent(a, s) = x
    BY <1>3, <2>2, <2>3, <2>5
  <2> QED
    BY <1>8, <2>1, <2>6
<1> QED
  BY <1>6, <1>7, <1>8

(* Of the scopes begun before a node, only the else-block whose `else if'  *)
(* it is ends with it.                                                     *)
LEMMA EndsOutside ==
  ASSUME NEW a, Scoped(a), NEW x \in Opened(a), NEW s \in Opened(a), IsScope(a, s), s < x,
         ScopeEnd(a, s) = CloseOf(a, x)
  PROVE  s = x - 1 /\ IsElseIf(a, x)
<1>1. Bracketing(a)
  BY ScopedBrackets
<1>2. \A y \in Opened(a) : y \in Nat
  BY <1>1 DEF Bracketing
<1>3. CASE ~IsElse(a, s)
  <2>1. ScopeEnd(a, s) = CloseOf(a, s)
    BY <1>3 DEF ScopeEnd
  <2>2. s = x
    BY <1>1, <2>1, CloseOnce
  <2> QED
    BY <1>2, <2>2
<1>4. CASE IsElse(a, s) /\ ~IsPlainElse(a, s)
  <2>1. ScopeEnd(a, s) = CloseOf(a, s + 1)
    BY <1>4 DEF ScopeEnd
  <2>2. s + 1 \in Opened(a) /\ IsElseIf(a, s + 1)
    BY <1>4, ElseIfFills
  <2>3. s + 1 = x
    BY <1>1, <2>1, <2>2, CloseOnce
  <2> QED
    BY <1>2, <2>2, <2>3
<1>5. CASE IsPlainElse(a, s)
  <2>1. IsElse(a, s) /\ ScopeEnd(a, s) = CloseOf(a, Parent(a, s))
    BY <1>5 DEF IsPlainElse, ScopeEnd
  <2>2. Parent(a, s) \in Opened(a) /\ Parent(a, s) < s
    BY <2>1, ElseEnds
  <2>3. Parent(a, s) = x
    BY <1>1, <2>1, <2>2, CloseOnce
  <2> QED
    BY <1>2, <2>2, <2>3
<1> QED
  BY <1>3, <1>4, <1>5
------------------------------------------------------------------------------
(* What becomes of the open scopes at a node. *)

(* A node that opens no scope leaves the scopes as they are. *)
LEMMA NotAScope ==
  ASSUME NEW a, Scoped(a), NEW p \in Opened(a), ~IsScope(a, p)
  PROVE  InScopes(a, p + 1) = InScopes(a, p)
<1>1. p \in Nat /\ \A s \in Opened(a) : s \in Nat
  BY ScopedBrackets DEF Bracketing
<1>2. ASSUME NEW s \in Opened(a), IsScope(a, s)
      PROVE  s < p /\ p <= ScopeEnd(a, s) <=> s < p + 1 /\ p + 1 <= ScopeEnd(a, s)
  <2>1. s \in Nat /\ s # p /\ ScopeEnd(a, s) \in Nat /\ ScopeEnd(a, s) # p
    BY <1>1, <1>2, EndIs
  <2> QED
    BY <1>1, <2>1
<1> QED
  BY <1>2 DEF InScopes

(* A node that opens a scope adds itself to them. *)
LEMMA AScope ==
  ASSUME NEW a, Scoped(a), NEW p \in Opened(a), IsScope(a, p)
  PROVE  InScopes(a, p + 1) = InScopes(a, p) \cup {p}
<1>1. p \in Nat /\ \A s \in Opened(a) : s \in Nat
  BY ScopedBrackets DEF Bracketing
<1>2. ASSUME NEW s \in Opened(a), IsScope(a, s)
      PROVE  (s < p /\ p <= ScopeEnd(a, s)) \/ s = p <=> s < p + 1 /\ p + 1 <= ScopeEnd(a, s)
  <2>1. s \in Nat /\ ScopeEnd(a, s) \in Nat /\ ScopeEnd(a, s) # p /\ s < ScopeEnd(a, s)
    BY <1>1, <1>2, EndIs
  <2> QED
    BY <1>1, <2>1
<1> QED
  BY <1>2 DEF InScopes

(* Where no node ends that closes a scope, none is left. *)
LEMMA NoScopeEnds ==
  ASSUME NEW a, Scoped(a), NEW p \in 1 .. Len(a), p \notin Opened(a), a[p].tag \notin ClosingTags
  PROVE  InScopes(a, p + 1) = InScopes(a, p)
<1>1. p \in Nat /\ \A s \in Opened(a) : s \in Nat
  BY ScopedBrackets DEF Bracketing
<1>2. ASSUME NEW s \in Opened(a), IsScope(a, s)
      PROVE  s < p /\ p <= ScopeEnd(a, s) <=> s < p + 1 /\ p + 1 <= ScopeEnd(a, s)
  <2>1. s \in Nat /\ s # p /\ ScopeEnd(a, s) \in Nat /\ ScopeEnd(a, s) # p
    BY <1>1, <1>2, EndIs
  <2> QED
    BY <1>1, <2>1
<1> QED
  BY <1>2 DEF InScopes

(* Where a node ends, the scopes left are those that end there. *)
LEMMA SomeEnd ==
  ASSUME NEW a, Scoped(a), NEW p \in 1 .. Len(a), p \notin Opened(a)
  PROVE  InScopes(a, p + 1) = {s \in InScopes(a, p) : ScopeEnd(a, s) # p}
<1>1. p \in Nat /\ \A s \in Opened(a) : s \in Nat
  BY ScopedBrackets DEF Bracketing
<1>2. ASSUME NEW s \in Opened(a), IsScope(a, s)
      PROVE  s < p /\ p <= ScopeEnd(a, s) /\ ScopeEnd(a, s) # p <=> s < p + 1 /\ p + 1 <= ScopeEnd(a, s)
  <2>1. s \in Nat /\ s # p /\ ScopeEnd(a, s) \in Nat
    BY <1>1, <1>2, EndIs
  <2> QED
    BY <1>1, <2>1
<1> QED
  BY <1>2 DEF InScopes

(* A function or a loop ends: its scope is the innermost. *)
LEMMA BodyEnds ==
  ASSUME NEW a, Scoped(a), NEW x \in Opened(a), a[x].tag \in {"Function"} \cup LoopTags
  PROVE  /\ x \in InScopes(a, CloseOf(a, x))
         /\ InScopes(a, CloseOf(a, x) + 1) = InScopes(a, CloseOf(a, x)) \ {x}
         /\ \A s \in InScopes(a, CloseOf(a, x)) : s <= x
<1> DEFINE p == CloseOf(a, x)
<1>1. /\ p \in 1 .. Len(a) /\ p \notin Opened(a) /\ x < p
      /\ \A s \in Opened(a) : s \in Nat
  BY ScopedBrackets DEF Bracketing
<1>2. IsScope(a, x) /\ ~IsElse(a, x) /\ a[x].tag # "Conditional"
  BY DEF IsScope, IsElse, LoopTags
<1>3. ScopeEnd(a, x) = p
  BY <1>2 DEF ScopeEnd
<1>4. x \in InScopes(a, p)
  BY <1>1, <1>2, <1>3 DEF InScopes
<1>5. ASSUME NEW s \in InScopes(a, p) PROVE s <= x
  <2>1. s \in Opened(a) /\ s \in Nat
    BY <1>1 DEF InScopes
  <2>2. x < s => Parent(a, s) = x /\ IsPlainElse(a, s)
    BY EndsInside
  <2>3. x < s => a[x].tag = "Conditional"
    BY <2>2 DEF IsPlainElse, IsElse
  <2>4. x \in Nat /\ ~(x < s)
    BY <1>1, <1>2, <2>3
  <2> QED
    BY <2>1, <2>4
<1>6. ASSUME NEW s \in InScopes(a, p), ScopeEnd(a, s) = p PROVE s = x
  <2>1. s \in Opened(a) /\ IsScope(a, s) /\ s \in Nat /\ s <= x /\ x \in Nat
    BY <1>1, <1>5 DEF InScopes
  <2>2. s < x => IsElseIf(a, x)
    BY <1>6, <2>1, EndsOutside
  <2>3. ~(s < x)
    BY <1>2, <2>2 DEF IsElseIf
  <2> QED
    BY <2>1, <2>3
<1>7. InScopes(a, p + 1) = InScopes(a, p) \ {x}
  BY <1>1, <1>3, <1>6, SomeEnd
<1> QED
  BY <1>4, <1>5, <1>7

(* A conditional ends, and with it the scope it has or shares. *)
LEMMA ScopeOfIs ==
  ASSUME NEW a, Scoped(a), NEW x \in Opened(a), a[x].tag = "Conditional"
  PROVE  /\ ScopeOf(a, x) \in Opened(a) /\ IsScope(a, ScopeOf(a, x))
         /\ ScopeEnd(a, ScopeOf(a, x)) = CloseOf(a, x)
         /\ ScopeOf(a, x) \in {x, x - 1} /\ ScopeOf(a, x) <= x
         /\ ScopeOf(a, x) \in InScopes(a, CloseOf(a, x))
         /\ IsElseIf(a, x) => /\ ScopeOf(a, x) = x - 1 /\ IsElse(a, x - 1) /\ x - 1 \in Opened(a)
                              /\ Parent(a, x) = x - 1
<1>1. Bracketing(a) /\ x \in Nat /\ CloseOf(a, x) \in Nat /\ x < CloseOf(a, x)
  BY ScopedBrackets DEF Bracketing
<1>2. CASE ~IsElseIf(a, x)
  <2>1. IsScope(a, x) /\ ~IsElse(a, x)
    BY <1>2 DEF IsScope, IsElse
  <2>2. ScopeOf(a, x) = x /\ ScopeEnd(a, x) = CloseOf(a, x)
    BY <1>2, <2>1 DEF ScopeOf, ScopeEnd
  <2> QED
    BY <1>1, <1>2, <2>1, <2>2 DEF InScopes
<1>3. CASE IsElseIf(a, x)
  <2>1. IsElse(a, Parent(a, x)) /\ x = Parent(a, x) + 1
    BY <1>3 DEF IsElseIf
  <2>2. x # 1
    <3>1. x = 1 => Parent(a, x) = 0 /\ a[0].tag = "Block" /\ Parent(a, 0) # 0
      BY <2>1, ParentOfFirst DEF IsElse
    <3>2. Parent(a, 0) = 0
      BY DEF Parent
    <3> QED
      BY <3>1, <3>2
  <2>3. Parent(a, x) \in Opened(a)
    BY <1>1, <2>2, ParentIs
  <2>4. Parent(a, x) = x - 1 /\ x - 1 \in Opened(a) /\ IsElse(a, x - 1) /\ (x - 1) + 1 = x
    BY <1>1, <2>1, <2>3 DEF Bracketing
  <2>5. ~IsPlainElse(a, x - 1)
    BY <2>4 DEF IsPlainElse, Opened
  <2>6. ScopeEnd(a, x - 1) = CloseOf(a, x)
    BY <2>4, <2>5 DEF ScopeEnd
  <2>7. IsScope(a, x - 1) /\ ScopeOf(a, x) = x - 1
    BY <1>3, <2>4 DEF IsScope, ScopeOf
  <2>8. x - 1 \in InScopes(a, CloseOf(a, x))
    BY <1>1, <2>4, <2>6, <2>7 DEF InScopes
  <2> QED
    BY <1>1, <2>4, <2>6, <2>7, <2>8
<1> QED
  BY <1>2, <1>3

(* The end of a conditional without an else-block leaves one scope, the    *)
(* innermost.                                                              *)
LEMMA ConditionalEnds ==
  ASSUME NEW a, Scoped(a), NEW x \in Opened(a), a[x].tag = "Conditional",
         \A b \in Opened(a) : ~(IsPlainElse(a, b) /\ Parent(a, b) = x)
  PROVE  /\ InScopes(a, CloseOf(a, x) + 1) = InScopes(a, CloseOf(a, x)) \ {ScopeOf(a, x)}
         /\ \A s \in InScopes(a, CloseOf(a, x)) : s <= ScopeOf(a, x)
<1> DEFINE p == CloseOf(a, x)
           t == ScopeOf(a, x)
<1>1. /\ p \in 1 .. Len(a) /\ p \notin Opened(a) /\ x < p
      /\ \A s \in Opened(a) : s \in Nat
  BY ScopedBrackets DEF Bracketing
<1>2. t \in Opened(a) /\ ScopeEnd(a, t) = p /\ t <= x /\ t \in {x, x - 1}
  BY ScopeOfIs
<1>3. ASSUME NEW s \in InScopes(a, p) PROVE s <= t
  <2>1. s \in Opened(a) /\ s \in Nat /\ IsScope(a, s)
    BY <1>1 DEF InScopes
  <2>2. ~(x < s)
    BY <2>1, EndsInside
  <2>3. s = x => ~IsElseIf(a, x)
    BY <2>1 DEF IsScope, IsElse, LoopTags
  <2>4. s = x => s = t
    BY <2>3 DEF ScopeOf
  <2> QED
    BY <1>1, <1>2, <2>1, <2>2, <2>4
<1>4. ASSUME NEW s \in InScopes(a, p), ScopeEnd(a, s) = p PROVE s = t
  <2>1. s \in Opened(a) /\ IsScope(a, s) /\ s \in Nat /\ s <= t
    BY <1>1, <1>3 DEF InScopes
  <2>2. s < x => s = x - 1 /\ IsElseIf(a, x)
    BY <1>4, <2>1, EndsOutside
  <2>3. s < x => s = t
    BY <2>2 DEF ScopeOf
  <2>4. t \in Nat /\ x \in Nat /\ (t = x \/ t = x - 1)
    BY <1>1, <1>2
  <2> HIDE DEF t
  <2> QED
    BY <2>1, <2>3, <2>4
<1>5. InScopes(a, p + 1) = InScopes(a, p) \ {t}
  <2> HIDE DEF t
  <2> QED
    BY <1>1, <1>2, <1>4, SomeEnd
<1> QED
  BY <1>3, <1>5

(* The end of a conditional with an else-block leaves two, the else-block  *)
(* first.                                                                  *)
LEMMA ConditionalWithElseEnds ==
  ASSUME NEW a, Scoped(a), NEW x \in Opened(a), a[x].tag = "Conditional",
         NEW b \in Opened(a), IsPlainElse(a, b), Parent(a, b) = x
  PROVE  /\ b \in InScopes(a, CloseOf(a, x)) /\ ScopeOf(a, x) < b
         /\ InScopes(a, CloseOf(a, x) + 1) = (InScopes(a, CloseOf(a, x)) \ {b}) \ {ScopeOf(a, x)}
         /\ \A s \in InScopes(a, CloseOf(a, x)) : s <= b /\ (s # b => s <= ScopeOf(a, x))
<1> DEFINE p == CloseOf(a, x)
           t == ScopeOf(a, x)
<1>1. /\ p \in 1 .. Len(a) /\ p \notin Opened(a) /\ x < p
      /\ \A s \in Opened(a) : s \in Nat
  BY ScopedBrackets DEF Bracketing
<1>2. t \in Opened(a) /\ ScopeEnd(a, t) = p /\ t <= x /\ t \in {x, x - 1}
  BY ScopeOfIs
<1>3. IsElse(a, b) /\ IsScope(a, b) /\ ScopeEnd(a, b) = p
  BY DEF IsPlainElse, IsScope, ScopeEnd
<1>4. x < b /\ b < p
  BY <1>3, EndIs, ElseEnds
<1>5. b \in InScopes(a, p) /\ t < b
  BY <1>1, <1>2, <1>3, <1>4 DEF InScopes
<1>6. ASSUME NEW s \in InScopes(a, p) PROVE s = b \/ s <= t
  <2>1. s \in Opened(a) /\ s \in Nat /\ IsScope(a, s)
    BY <1>1 DEF InScopes
  <2>2. ASSUME x < s PROVE s = b
    <3>1. IsPlainElse(a, s) /\ Parent(a, s) = x
      BY <2>2, EndsInside
    <3>2. IsElse(a, s)
      BY <3>1 DEF IsPlainElse
    <3>3. CloseOf(a, x) = CloseOf(a, s) + 1 /\ CloseOf(a, x) = CloseOf(a, b) + 1
      BY <1>3, <2>1, <3>1, <3>2, ElseEnds
    <3>4. CloseOf(a, s) \in Nat /\ CloseOf(a, b) \in Nat
      BY <2>1, ScopedBrackets DEF Bracketing
    <3>5. CloseOf(a, s) = CloseOf(a, b)
      BY <3>3, <3>4
    <3> QED
      BY <2>1, <3>5, ScopedBrackets, CloseOnce
  <2>3. s = x => ~IsElseIf(a, x)
    BY <2>1 DEF IsScope, IsElse, LoopTags
  <2>4. s = x => s = t
    BY <2>3 DEF ScopeOf
  <2> QED
    BY <1>1, <1>2, <2>1, <2>2, <2>4
<1>7. ASSUME NEW s \in InScopes(a, p), ScopeEnd(a, s) = p PROVE s = t \/ s = b
  <2>1. s \in Opened(a) /\ IsScope(a, s) /\ s \in Nat /\ (s = b \/ s <= t)
    BY <1>1, <1>6 DEF InScopes
  <2>2. s < x => s = x - 1 /\ IsElseIf(a, x)
    BY <1>7, <2>1, EndsOutside
  <2>3. s < x => s = t
    BY <2>2 DEF ScopeOf
  <2>4. t \in Nat /\ x \in Nat /\ t <= x
    BY <1>1, <1>2
  <2> HIDE DEF t
  <2>5. s <= t /\ ~(s < x) => s = t
    BY <2>1, <2>4
  <2> QED
    BY <2>1, <2>3, <2>5
<1>8. InScopes(a, p + 1) = (InScopes(a, p) \ {b}) \ {t}
  <2> HIDE DEF t
  <2> QED
    BY <1>1, <1>2, <1>3, <1>7, SomeEnd
<1>9. \A s \in InScopes(a, p) : s <= b /\ (s # b => s <= t)
  <2>1. \A s \in InScopes(a, p) : s \in Nat
    BY <1>1 DEF InScopes
  <2> QED
    BY <1>1, <1>2, <1>5, <1>6, <2>1
<1> QED
  BY <1>5, <1>8, <1>9

(***************************************************************************)
(* The scopes around a place, in order.                                    *)
(***************************************************************************)
(* The scopes of a set, the innermost last. *)
Nested(a, scopes, nest) ==
  /\ nest \in Seq(Nat)
  /\ \A j, k \in 1 .. Len(nest) : j < k => nest[j] < nest[k]
  /\ \A k \in 1 .. Len(nest) : nest[k] \in scopes
  /\ \A s \in scopes : \E k \in 1 .. Len(nest) : nest[k] = s
  /\ \A k \in 1 .. Len(nest) : ScopeAround(a, nest[k]) = IF k = 1 THEN 0 ELSE nest[k - 1]
Nest(a, p, nest) == Nested(a, InScopes(a, p), nest)
Innermost(nest) == IF Len(nest) = 0 THEN 0 ELSE nest[Len(nest)]

(* The scope around a node is the innermost at its entry. *)
LEMMA InnermostIs ==
  ASSUME NEW a, Scoped(a), NEW q \in Opened(a), NEW nest, Nest(a, q, nest)
  PROVE  ScopeAround(a, q) = Innermost(nest)
<1>1. Bracketing(a) /\ q \in 1 .. Len(a)
  BY ScopedBrackets DEF Bracketing
<1>2. /\ ScopeAround(a, q) \in Nat
      /\ ScopeAround(a, q) # 0 =>
           /\ ScopeAround(a, q) \in Opened(a) /\ IsScope(a, ScopeAround(a, q))
           /\ ScopeAround(a, q) < q /\ q < CloseOf(a, ScopeAround(a, q))
      /\ \A r \in Opened(a) : IsScope(a, r) /\ r < q /\ q < CloseOf(a, r) =>
                                r <= ScopeAround(a, q) /\ ScopeAround(a, q) # 0
  BY <1>1, ScopeAroundIs
<1>3. \A s : s \in InScopes(a, q) <=> s \in Opened(a) /\ IsScope(a, s) /\ s < q /\ q < CloseOf(a, s)
  <2>1. \A s \in InScopes(a, q) : s \in Opened(a) /\ IsScope(a, s)
    BY DEF InScopes
  <2> QED
    BY <2>1, OpenAtNode
<1> DEFINE s == ScopeAround(a, q)
           n == Len(nest)
<1>4. n \in Nat /\ \A k \in 1 .. n : nest[k] \in Nat
  BY DEF Nest, Nested
<1>5. CASE s = 0
  <2>1. \A k \in 1 .. n : FALSE
    BY <1>2, <1>3, <1>5 DEF Nest, Nested
  <2>2. n = 0
    BY <1>4, <2>1
  <2> QED
    BY <1>5, <2>2 DEF Innermost
<1>6. CASE s # 0
  <2>1. s \in InScopes(a, q)
    BY <1>2, <1>3, <1>6
  <2>2. PICK k \in 1 .. n : nest[k] = s
    BY <2>1 DEF Nest, Nested
  <2>3. n \in 1 .. n /\ nest[n] \in InScopes(a, q)
    BY <1>4, <2>2 DEF Nest, Nested
  <2>4. nest[n] <= s
    BY <1>2, <1>3, <2>3
  <2>5. k < n => nest[k] < nest[n]
    BY <2>2, <2>3 DEF Nest, Nested
  <2>6. k = n
    BY <1>4, <2>2, <2>3, <2>4, <2>5
  <2> QED
    BY <1>4, <2>2, <2>6 DEF Innermost
<1> QED
  BY <1>5, <1>6

(* A scope is entered. *)
LEMMA NestOpens ==
  ASSUME NEW a, Scoped(a), NEW p \in Opened(a), IsScope(a, p), NEW nest, Nest(a, p, nest)
  PROVE  Nest(a, p + 1, Append(nest, p))
<1> DEFINE m == Append(nest, p)
           n == Len(nest)
<1>1. p \in Nat
  BY ScopedBrackets DEF Bracketing
<1>2. nest \in Seq(Nat) /\ n \in Nat
  BY DEF Nest, Nested
<1>3. m \in Seq(Nat) /\ Len(m) = n + 1 /\ m[n + 1] = p /\ \A k \in 1 .. n : m[k] = nest[k]
  BY <1>1, <1>2
<1> HIDE DEF m
<1>4. InScopes(a, p + 1) = InScopes(a, p) \cup {p}
  BY AScope
<1>5. \A k \in 1 .. n : nest[k] \in InScopes(a, p) /\ nest[k] < p
  BY DEF Nest, Nested, InScopes
<1>6. \A k \in 1 .. n + 1 : k = n + 1 \/ k \in 1 .. n
  BY <1>2
<1>7. \A j, k \in 1 .. Len(m) : j < k => m[j] < m[k]
  <2>1. SUFFICES ASSUME NEW j \in 1 .. n + 1, NEW k \in 1 .. n + 1, j < k PROVE m[j] < m[k]
    BY <1>3
  <2>2. j \in 1 .. n
    BY <1>2, <2>1
  <2>3. CASE k = n + 1
    BY <1>3, <1>5, <2>2, <2>3
  <2>4. CASE k \in 1 .. n
    <3>1. nest[j] < nest[k]
      BY <2>1, <2>2, <2>4 DEF Nest, Nested
    <3> QED
      BY <1>3, <2>2, <2>4, <3>1
  <2> QED
    BY <1>6, <2>3, <2>4
<1>8. \A k \in 1 .. Len(m) : m[k] \in InScopes(a, p + 1)
  BY <1>3, <1>4, <1>5, <1>6
<1>9. ASSUME NEW s \in InScopes(a, p + 1) PROVE \E k \in 1 .. Len(m) : m[k] = s
  <2>1. n + 1 \in 1 .. Len(m) /\ \A k \in 1 .. n : k \in 1 .. Len(m)
    BY <1>2, <1>3
  <2>2. CASE s = p
    BY <1>3, <2>1, <2>2
  <2>3. CASE s \in InScopes(a, p)
    <3>1. PICK k \in 1 .. n : nest[k] = s
      BY <2>3 DEF Nest, Nested
    <3> QED
      BY <1>3, <2>1, <3>1
  <2> QED
    BY <1>4, <2>2, <2>3
<1>10. ASSUME NEW k \in 1 .. Len(m)
       PROVE ScopeAround(a, m[k]) = IF k = 1 THEN 0 ELSE m[k - 1]
  <2>1. CASE k = n + 1
    <3>1. ScopeAround(a, p) = Innermost(nest)
      BY InnermostIs
    <3>2. n # 0 => n \in 1 .. n /\ m[n] = nest[n]
      BY <1>2, <1>3
    <3> QED
      BY <1>2, <1>3, <2>1, <3>1, <3>2 DEF Innermost
  <2>2. CASE k \in 1 .. n
    <3>1. ScopeAround(a, nest[k]) = IF k = 1 THEN 0 ELSE nest[k - 1]
      BY <2>2 DEF Nest, Nested
    <3>2. k # 1 => k - 1 \in 1 .. n
      BY <1>2, <2>2
    <3> QED
      BY <1>3, <2>2, <3>1, <3>2
  <2> QED
    BY <1>3, <1>6, <2>1, <2>2
<1> QED
  BY <1>3, <1>7, <1>8, <1>9, <1>10 DEF Nest, Nested, m

(* The innermost scope is left. *)
LEMMA NestCloses ==
  ASSUME NEW a, NEW scopes, NEW nest, Nested(a, scopes, nest),
         NEW t \in scopes, scopes \subseteq Nat, \A s \in scopes : s <= t
  PROVE  /\ Len(nest) > 0 /\ nest[Len(nest)] = t
         /\ Nested(a, scopes \ {t}, Front(nest))
<1> DEFINE m == Front(nest)
           n == Len(nest)
<1>1. nest \in Seq(Nat) /\ n \in Nat /\ \A k \in 1 .. n : nest[k] \in Nat
  BY DEF Nested
<1>2. PICK k \in 1 .. n : nest[k] = t
  BY DEF Nested
<1>3. n > 0 /\ nest[n] = t
  <2>1. n \in 1 .. n /\ n > 0
    BY <1>1, <1>2
  <2>2. nest[n] <= t /\ (k < n => nest[k] < nest[n])
    BY <1>2, <2>1 DEF Nested
  <2>3. nest[n] \in Nat /\ t \in Nat
    BY <1>1, <2>1
  <2> QED
    BY <1>1, <1>2, <2>1, <2>2, <2>3
<1>4. m \in Seq(Nat) /\ Len(m) = n - 1 /\ \A i \in 1 .. n - 1 : m[i] = nest[i]
  <2>1. n - 1 \in Nat /\ n - 1 <= n
    BY <1>1, <1>3
  <2>2. Len(m) = n - 1 /\ \A i \in 1 .. n - 1 : m[i] = nest[i]
    BY <1>1, <1>3, SequenceIn, Fronted
  <2>3. m \in Seq(Nat)
    BY <1>1, <2>1 DEF Front
  <2> QED
    BY <2>2, <2>3
<1> HIDE DEF m
<1>5. \A i \in 1 .. n - 1 : i \in 1 .. n /\ i < n
  BY <1>1
<1>6. \A i, j \in 1 .. Len(m) : i < j => m[i] < m[j]
  BY <1>4, <1>5 DEF Nested
<1>7. \A i \in 1 .. Len(m) : m[i] \in scopes \ {t}
  <2>1. SUFFICES ASSUME NEW i \in 1 .. n - 1 PROVE m[i] \in scopes /\ m[i] # t
    BY <1>4
  <2>2. n \in 1 .. n /\ i \in 1 .. n /\ i < n
    BY <1>1, <1>3
  <2>3. nest[i] < nest[n] /\ nest[i] \in scopes
    BY <2>2 DEF Nested
  <2>4. nest[i] \in Nat /\ t \in Nat
    BY <1>1, <2>2
  <2> QED
    BY <1>3, <1>4, <2>3, <2>4
<1>8. ASSUME NEW s \in scopes \ {t} PROVE \E i \in 1 .. Len(m) : m[i] = s
  <2>1. PICK i \in 1 .. n : nest[i] = s
    BY DEF Nested
  <2>2. i # n
    BY <1>3, <2>1
  <2>3. i \in 1 .. n - 1
    BY <1>1, <2>1, <2>2
  <2> QED
    BY <1>4, <2>1, <2>3
<1>9. ASSUME NEW i \in 1 .. Len(m)
      PROVE ScopeAround(a, m[i]) = IF i = 1 THEN 0 ELSE m[i - 1]
  <2>1. i \in 1 .. n - 1 /\ i \in 1 .. n
    BY <1>4, <1>5
  <2>2. i # 1 => i - 1 \in 1 .. n - 1
    BY <1>1, <2>1
  <2>3. ScopeAround(a, nest[i]) = IF i = 1 THEN 0 ELSE nest[i - 1]
    BY <2>1 DEF Nested
  <2> QED
    BY <1>4, <2>1, <2>2, <2>3
<1> QED
  BY <1>3, <1>4, <1>6, <1>7, <1>8, <1>9 DEF Nested, m

(* Scopes are entries of nodes. *)
LEMMA InScopesAreNodes ==
  ASSUME NEW a, Scoped(a), NEW p
  PROVE  InScopes(a, p) \subseteq Nat /\ InScopes(a, p) \subseteq Opened(a)
BY ScopedBrackets DEF InScopes, Bracketing

(* The module is the outermost scope, and the only one. *)
LEMMA ModuleIsFirst ==
  ASSUME NEW a, Scoped(a), NEW p \in 2 .. Len(a), NEW nest, Nest(a, p, nest)
  PROVE  /\ Len(nest) \in Nat /\ Len(nest) > 0 /\ nest[1] = 1
         /\ \A k \in 1 .. Len(nest) : a[nest[k]].tag = "Module" <=> k = 1
<1>1. Bracketing(a) /\ a[1].tag = "Module"
  BY ScopedBrackets DEF Scoped, OneModule
<1>2. 1 \in InScopes(a, p)
  <2>1. IsScope(a, 1) /\ ~IsElse(a, 1)
    BY <1>1 DEF IsScope, IsElse
  <2>2. ScopeEnd(a, 1) = Len(a) /\ 1 \in Opened(a)
    BY <1>1, <2>1 DEF ScopeEnd, Bracketing
  <2> QED
    BY <2>1, <2>2 DEF InScopes
<1>3. PICK k \in 1 .. Len(nest) : nest[k] = 1
  BY <1>2 DEF Nest, Nested
<1>4. Len(nest) \in Nat /\ \A j \in 1 .. Len(nest) : nest[j] \in Opened(a) /\ nest[j] \in 1 .. Len(a)
  BY <1>1, InScopesAreNodes DEF Nest, Nested, Bracketing
<1>5. nest[1] = 1
  <2>1. 1 \in 1 .. Len(nest)
    BY <1>3, <1>4
  <2>2. 1 < k => nest[1] < nest[k]
    BY <2>1 DEF Nest, Nested
  <2>3. nest[1] \in Nat /\ nest[1] >= 1
    BY <1>4, <2>1
  <2> QED
    BY <1>3, <2>2, <2>3
<1>6. ASSUME NEW j \in 1 .. Len(nest) PROVE a[nest[j]].tag = "Module" <=> j = 1
  <2>1. j # 1 => nest[1] < nest[j]
    <3>1. 1 \in 1 .. Len(nest) /\ (j # 1 => 1 < j)
      BY <1>4
    <3> QED
      BY <3>1 DEF Nest, Nested
  <2>2. nest[j] \in Opened(a) /\ nest[j] \in Nat
    BY <1>4
  <2>3. j # 1 => nest[j] \in Opened(a) \ {1}
    BY <1>5, <2>1, <2>2
  <2>4. j # 1 => a[nest[j]].tag # "Module"
    BY <2>3 DEF Scoped, OneModule
  <2> QED
    BY <1>1, <1>5, <2>4
<1> QED
  BY <1>3, <1>4, <1>5, <1>6
------------------------------------------------------------------------------
(* The scope around a node is its parent, or the scope around its parent. *)
LEMMA AroundParent ==
  ASSUME NEW a, Scoped(a), NEW q \in Opened(a), q # 1
  PROVE  ScopeAround(a, q) = IF IsScope(a, Parent(a, q)) THEN Parent(a, q)
                             ELSE ScopeAround(a, Parent(a, q))
<1> DEFINE b == Parent(a, q)
           s == ScopeAround(a, q)
           r == ScopeAround(a, b)
<1>1. Bracketing(a)
  BY ScopedBrackets
<1>2. /\ b \in Opened(a) /\ b < q /\ q < CloseOf(a, b) /\ CloseOf(a, q) < CloseOf(a, b)
      /\ \A x \in Opened(a) : x < q /\ q < CloseOf(a, x) => x <= b
  BY <1>1, ParentIs
<1>3. \A x \in Opened(a) : x \in 1 .. Len(a) /\ CloseOf(a, x) \in 1 .. Len(a) /\ x < CloseOf(a, x)
  BY <1>1 DEF Bracketing
<1>4. /\ s \in Nat
      /\ s # 0 => s \in Opened(a) /\ IsScope(a, s) /\ s < q /\ q < CloseOf(a, s)
      /\ \A x \in Opened(a) : IsScope(a, x) /\ x < q /\ q < CloseOf(a, x) => x <= s /\ s # 0
  BY <1>1, <1>3, ScopeAroundIs
<1>5. /\ r \in Nat
      /\ r # 0 => r \in Opened(a) /\ IsScope(a, r) /\ r < b /\ b < CloseOf(a, r)
      /\ \A x \in Opened(a) : IsScope(a, x) /\ x < b /\ b < CloseOf(a, x) => x <= r /\ r # 0
  BY <1>1, <1>2, <1>3, ScopeAroundIs
<1>6. CASE IsScope(a, b)
  <2>1. b <= s /\ s # 0
    BY <1>2, <1>4, <1>6
  <2>2. s <= b
    BY <1>2, <1>4, <2>1
  <2>3. b \in Nat
    BY <1>2, <1>3
  <2> HIDE DEF b, s
  <2>4. s = b
    BY <1>4, <2>1, <2>2, <2>3
  <2> QED
    BY <1>6, <2>4 DEF b, s
<1>7. CASE ~IsScope(a, b)
  <2>1. \A x \in Opened(a) : x < b /\ b < CloseOf(a, x) => x < q /\ q < CloseOf(a, x)
    <3>1. ASSUME NEW x \in Opened(a), x < b, b < CloseOf(a, x)
          PROVE  x < q /\ q < CloseOf(a, x)
      <4>1. CloseOf(a, b) < CloseOf(a, x)
        BY <1>1, <1>2, <3>1 DEF Bracketing
      <4>2. x \in Nat /\ b \in Nat /\ q \in Nat /\ CloseOf(a, b) \in Nat /\ CloseOf(a, x) \in Nat
        BY <1>2, <1>3
      <4> HIDE DEF b
      <4> QED
        BY <1>2, <3>1, <4>1, <4>2
    <3> QED
      BY <3>1
  <2>2. \A x \in Opened(a) : x < q /\ q < CloseOf(a, x) /\ x # b => x < b /\ b < CloseOf(a, x)
    <3>1. ASSUME NEW x \in Opened(a), x < q, q < CloseOf(a, x), x # b
          PROVE  x < b /\ b < CloseOf(a, x)
      <4>1. x <= b
        BY <1>2, <3>1
      <4>2. x \in Nat /\ b \in Nat /\ q \in Nat /\ CloseOf(a, x) \in Nat
        BY <1>2, <1>3
      <4> HIDE DEF b
      <4> QED
        BY <1>2, <3>1, <4>1, <4>2
    <3> QED
      BY <3>1
  <2>3. r # 0 => s # 0 /\ r <= s
    BY <1>4, <1>5, <2>1
  <2>4. s # 0 => r # 0 /\ s <= r
    <3>1. s # 0 => s # b
      BY <1>4, <1>7
    <3> QED
      BY <1>4, <1>5, <2>2, <3>1
  <2> HIDE DEF b, s, r
  <2>5. s = r
    BY <1>4, <1>5, <2>3, <2>4
  <2> QED
    BY <1>7, <2>5 DEF b, s, r
<1> QED
  BY <1>6, <1>7

(* Around an else-if is the else-block that begins with it. *)
LEMMA AroundElseIf ==
  ASSUME NEW a, Scoped(a), NEW q \in Opened(a), IsElseIf(a, q)
  PROVE  ScopeAround(a, q) = q - 1
<1>1. q # 1 /\ Parent(a, q) = q - 1 /\ IsElse(a, q - 1)
  <2>1. a[q].tag = "Conditional"
    BY DEF IsElseIf
  <2>2. q # 1
    BY <2>1 DEF Scoped, OneModule
  <2> QED
    BY <2>1, <2>2, ScopeOfIs
<1> QED
  BY <1>1, AroundParent DEF IsScope

(* The scope a block stands in. *)
LEMMA BlockStandsIn ==
  ASSUME NEW a, Scoped(a), NEW b \in Opened(a), a[b].tag = "Block", ~InVariable(a, b)
  PROVE  LET g == Parent(a, b)
             s == ScopeAround(a, b)
         IN  /\ g \in Opened(a) /\ b # 1
             /\ a[g].tag = "Conditional" => s = ScopeOf(a, g)
             /\ a[g].tag # "Conditional" => a[s].tag \in {"Function"} \cup LoopTags
<1> DEFINE g == Parent(a, b)
<1>1. Bracketing(a)
  BY ScopedBrackets
<1>2. b # 1
  BY DEF Scoped, OneModule
<1>3. g \in Opened(a) /\ g < b /\ b < CloseOf(a, g) /\ CloseOf(a, b) < CloseOf(a, g)
  BY <1>1, <1>2, ParentIs
<1>4. a[g].tag \in {"Function", "Conditional", "BracketLoop"} \cup LoopTags
  BY DEF Scoped, BlocksBelong
<1>5. ScopeAround(a, b) = IF IsScope(a, g) THEN g ELSE ScopeAround(a, g)
  BY <1>2, AroundParent
<1>6. CASE a[g].tag \in {"Function"} \cup LoopTags
  <2>1. IsScope(a, g) /\ a[g].tag # "Conditional"
    BY <1>6 DEF IsScope, LoopTags
  <2> QED
    BY <1>2, <1>3, <1>5, <1>6, <2>1
<1>7. CASE a[g].tag = "Conditional"
  <2>1. CASE IsElseIf(a, g)
    <3>1. ~IsScope(a, g)
      BY <1>7, <2>1 DEF IsScope, IsElse, LoopTags
    <3>2. ScopeAround(a, g) = g - 1 /\ ScopeOf(a, g) = g - 1
      BY <1>3, <2>1, AroundElseIf DEF ScopeOf
    <3> QED
      BY <1>2, <1>3, <1>5, <1>7, <3>1, <3>2
  <2>2. CASE ~IsElseIf(a, g)
    <3>1. IsScope(a, g) /\ ScopeOf(a, g) = g
      BY <1>7, <2>2 DEF IsScope, ScopeOf
    <3> QED
      BY <1>2, <1>3, <1>5, <1>7, <3>1
  <2> QED
    BY <2>1, <2>2
<1>8. CASE a[g].tag = "BracketLoop"
  <2>1. ~InVariable(a, g)
    <3>1. SUFFICES ASSUME NEW v \in 1 .. g - 1, a[v].open, a[v].tag = "Variable", g < CloseOf(a, v)
                   PROVE  FALSE
      BY DEF InVariable
    <3>2. g \in 1 .. Len(a) /\ b \in 1 .. Len(a) /\ CloseOf(a, g) \in 1 .. Len(a) /\ Len(a) \in Nat
      BY <1>1, <1>3 DEF Bracketing
    <3>3. v \in Opened(a) /\ v < g /\ v \in Nat
      BY <1>1, <3>1, <3>2 DEF Bracketing, Opened
    <3>4. CloseOf(a, g) < CloseOf(a, v) /\ CloseOf(a, v) \in Nat
      BY <1>1, <1>3, <3>1, <3>3 DEF Bracketing
    <3> HIDE DEF g
    <3>5. v \in 1 .. b - 1 /\ b < CloseOf(a, v)
      BY <1>3, <3>1, <3>2, <3>3, <3>4
    <3> QED
      BY <3>1, <3>5 DEF InVariable
  <2>2. a[ScopeAround(a, g)].tag \in {"Function"} \cup LoopTags
    BY <1>3, <1>8, <2>1 DEF Scoped, ExpressionsBelong
  <2>3. ~IsScope(a, g)
    BY <1>8 DEF IsScope, IsElse, LoopTags
  <2> QED
    BY <1>2, <1>3, <1>5, <1>8, <2>2, <2>3
<1> QED
  BY <1>4, <1>6, <1>7, <1>8

(* What stands in a variable. *)
LEMMA StandsInVariable ==
  ASSUME NEW a, Scoped(a), NEW v \in Opened(a), a[v].tag = "Variable", NEW x \in Opened(a),
         v < x, x < CloseOf(a, v)
  PROVE  /\ a[x].tag \notin {"Variable", "Function", "Conditional", "Formal", "Tuple"} \cup LoopTags
         /\ a[x].tag \in {"Range", "BracketLoop", "Block"} => a[v + 1].tag = "BracketLoop"
         /\ InVariable(a, x) /\ a[x].tag \notin {"Module", "Record", "Class"}
<1>1. /\ v \in 1 .. Len(a) /\ x \in 1 .. Len(a) /\ CloseOf(a, v) \in 1 .. Len(a)
      /\ a[x].open /\ a[v].open /\ Len(a) \in Nat
  BY ScopedBrackets DEF Bracketing, Opened
<1>2. x \in v + 1 .. CloseOf(a, v) - 1 /\ v \in 1 .. x - 1
  BY <1>1
<1>3. x \in Inside(a, v)
  BY <1>1, <1>2 DEF Inside
<1>4. InVariable(a, x)
  BY <1>1, <1>2 DEF InVariable
<1>5. /\ a[x].tag \notin {"Variable", "Function", "Conditional", "Formal", "Tuple"} \cup LoopTags
      /\ a[x].tag \in {"Range", "BracketLoop", "Block"} => a[v + 1].tag = "BracketLoop"
  BY <1>3 DEF Scoped, ExpressionsBelong
<1>6. x \in Opened(a) \ {1}
  BY <1>1
<1>7. a[x].tag \notin {"Module", "Record", "Class"}
  BY <1>6 DEF Scoped, OneModule
<1> QED
  BY <1>4, <1>5, <1>7

(* The scope a conditional stands in. *)
LEMMA ConditionalStandsIn ==
  ASSUME NEW a, Scoped(a), NEW q \in Opened(a), a[q].tag = "Conditional", ~IsElseIf(a, q)
  PROVE  a[ScopeAround(a, q)].tag = "Block" => Renamed(a, ScopeAround(a, q), q)
<1> DEFINE b == Parent(a, q)
           s == ScopeAround(a, q)
<1>1. Bracketing(a)
  BY ScopedBrackets
<1>2. q # 1
  BY DEF Scoped, OneModule
<1>3. b \in Opened(a) /\ b < q /\ q < CloseOf(a, b)
  BY <1>1, <1>2, ParentIs
<1>4. a[b].tag \in {"Module", "Block"}
  BY DEF Scoped, BlocksBelong
<1>5. s = IF IsScope(a, b) THEN b ELSE ScopeAround(a, b)
  BY <1>2, AroundParent
<1>6. CASE a[b].tag = "Module"
  <2>1. IsScope(a, b)
    BY <1>6 DEF IsScope
  <2> QED
    BY <1>5, <1>6, <2>1
<1>7. CASE a[b].tag = "Block"
  <2>1. ~IsElse(a, b)
    <3>1. IsElse(a, b) => q = b + 1
      BY DEF Scoped, ArmsAreOnTheirLines
    <3> QED
      BY <3>1 DEF IsElseIf
  <2>2. s = ScopeAround(a, b)
    BY <1>5, <1>7, <2>1 DEF IsScope, LoopTags
  <2>3. ~InVariable(a, b)
    <3>1. SUFFICES ASSUME NEW v \in 1 .. b - 1, a[v].open, a[v].tag = "Variable", b < CloseOf(a, v)
                   PROVE  FALSE
      BY DEF InVariable
    <3>2. b \in 1 .. Len(a) /\ q \in 1 .. Len(a) /\ CloseOf(a, b) \in 1 .. Len(a) /\ Len(a) \in Nat
      BY <1>1, <1>3 DEF Bracketing
    <3>3. v \in Opened(a) /\ v < b /\ v \in Nat
      BY <1>1, <3>1, <3>2 DEF Bracketing, Opened
    <3>4. CloseOf(a, b) < CloseOf(a, v) /\ CloseOf(a, v) \in Nat
      BY <1>1, <1>3, <3>1, <3>3 DEF Bracketing
    <3> HIDE DEF b
    <3>5. v < q /\ q < CloseOf(a, v)
      BY <1>3, <3>2, <3>3, <3>4
    <3> QED
      BY <3>1, <3>3, <3>5, StandsInVariable
  <2> DEFINE g == Parent(a, b)
  <2>4. /\ g \in Opened(a) /\ b # 1
        /\ a[g].tag = "Conditional" => s = ScopeOf(a, g)
        /\ a[g].tag # "Conditional" => a[s].tag \in {"Function"} \cup LoopTags
    BY <1>3, <1>7, <2>2, <2>3, BlockStandsIn
  <2>5. SUFFICES ASSUME a[s].tag = "Block" PROVE Renamed(a, s, q)
    OBVIOUS
  <2>6. a[g].tag = "Conditional" /\ s = ScopeOf(a, g)
    BY <2>4, <2>5 DEF LoopTags
  <2>7. IsElseIf(a, g)
    BY <2>5, <2>6 DEF ScopeOf
  <2>8. s = g - 1 /\ g < b
    BY <1>1, <1>3, <2>4, <2>6, <2>7, ParentIs, ScopeOfIs
  <2>9. g \in Nat /\ b \in Nat /\ q \in Nat
    BY <1>1, <1>3, <2>4 DEF Bracketing
  <2> HIDE DEF g, b, s
  <2>10. s + 1 = g /\ q > s + 1
    BY <1>3, <2>8, <2>9
  <2> QED
    BY <2>4, <2>6, <2>10 DEF Renamed
<1> QED
  BY <1>4, <1>6, <1>7

(***************************************************************************)
(* The names made in a scope.                                              *)
(***************************************************************************)
(* What makes a name makes it in a tag of these. *)
LEMMA MakersAre ==
  ASSUME NEW a, NEW d, NEW x \in NamesMade(a, d)
  PROVE  /\ a[d].tag \in {"Variable", "Formal", "Function", "Conditional", "Block", "Range"} \cup LoopTags
         /\ a[d].tag = "Block" => IsPlainElse(a, d)
         /\ a[d].tag = "Range" => ~InVariable(a, d)
<1>1. CASE a[d].tag \in {"Variable", "Formal", "Function", "Conditional"} \cup LoopTags
  BY <1>1 DEF LoopTags
<1>2. CASE a[d].tag = "Block"
  <2>1. NamesMade(a, d) = IF IsPlainElse(a, d) THEN {NameAt(a, "else", d)} ELSE {}
    BY <1>2 DEF NamesMade, LoopTags
  <2> QED
    BY <1>2, <2>1
<1>3. CASE a[d].tag = "Range"
  <2>1. NamesMade(a, d) = IF ~InVariable(a, d) THEN {NameAt(a, "range_", d)} ELSE {}
    BY <1>3 DEF NamesMade, LoopTags
  <2> QED
    BY <1>3, <2>1
<1>4. CASE a[d].tag \notin {"Variable", "Formal", "Function", "Conditional", "Block", "Range"} \cup LoopTags
  <2>1. NamesMade(a, d) = {}
    BY <1>4 DEF NamesMade
  <2> QED
    BY <2>1
<1> QED
  BY <1>1, <1>2, <1>3, <1>4

(* The name of a declaration that ends is not in the scopes around it. *)
LEMMA NewName ==
  ASSUME NEW a, Scoped(a), NEW q \in Opened(a), a[q].tag \in {"Variable", "Function", "Conditional"},
         NEW d \in Opened(a), MadeBy(a, d, CloseOf(a, q)), NameOf(a, q) \in NamesMade(a, d),
         MadeIn(a, d) \in InScopes(a, CloseOf(a, q)),
         a[q].tag # "Variable" => MadeIn(a, d) < ScopeOf(a, q)
  PROVE  FALSE
<1> DEFINE s == MadeIn(a, d)
           e == IF IsElseIf(a, d) THEN d - 1 ELSE d
<1>1. Bracketing(a)
  BY ScopedBrackets
<1>2. \A x \in Opened(a) : x \in 1 .. Len(a) /\ x \in Nat /\ CloseOf(a, x) \in Nat /\ x < CloseOf(a, x)
  BY <1>1 DEF Bracketing
<1>3. \A x, y \in Opened(a) : x < y /\ y < CloseOf(a, x) => CloseOf(a, y) < CloseOf(a, x)
  BY <1>1 DEF Bracketing
<1>4. s = ScopeAround(a, e)
  BY DEF MadeIn
<1>5. s \in Opened(a) /\ IsScope(a, s) /\ s < CloseOf(a, q) /\ CloseOf(a, q) <= ScopeEnd(a, s)
  BY DEF InScopes
<1>6. q < CloseOf(a, s)
  <2>1. ScopeEnd(a, s) \in Nat
    BY <1>5, EndIs
  <2>2. q <= ScopeEnd(a, s)
    BY <1>2, <1>5, <2>1
  <2> QED
    BY <1>5, <2>2, OpenAtNode
<1>7. /\ a[d].tag \in {"Variable", "Formal", "Function", "Conditional", "Block", "Range"} \cup LoopTags
      /\ a[d].tag = "Block" => IsPlainElse(a, d)
      /\ a[d].tag = "Range" => ~InVariable(a, d)
  BY MakersAre
<1>8. d < CloseOf(a, q) /\ (CloseOf(a, d) < CloseOf(a, q) \/ a[d].tag \in {"Formal", "Range"})
  BY DEF MadeBy
<1>9. CASE d < q
  <2>1. CloseOf(a, d) < CloseOf(a, q) => CloseOf(a, d) < q
    <3>1. CloseOf(a, d) # q
      BY <1>1 DEF Bracketing
    <3>2. ~(q < CloseOf(a, d)) \/ CloseOf(a, q) < CloseOf(a, d)
      BY <1>3, <1>9
    <3>3. q \in Nat /\ CloseOf(a, q) \in Nat /\ CloseOf(a, d) \in Nat
      BY <1>2
    <3> QED
      BY <3>1, <3>2, <3>3
  <2>2. MadeBy(a, d, q)
    BY <1>8, <1>9, <2>1 DEF MadeBy
  <2>3. ~(q < CloseOf(a, s))
    BY <2>2 DEF Scoped, NamesAreNew
  <2> QED
    BY <1>6, <2>3
<1>10. CASE d = q
  <2>1. CloseOf(a, q) \in Nat /\ a[d].tag \notin {"Formal", "Range"}
    BY <1>2, <1>10
  <2> QED
    BY <1>8, <1>10, <2>1
<1>11. CASE q < d /\ a[q].tag = "Variable"
  <2>1. /\ a[d].tag \notin {"Variable", "Function", "Conditional", "Formal", "Tuple"} \cup LoopTags
        /\ InVariable(a, d)
    BY <1>8, <1>11, StandsInVariable
  <2>2. a[d].tag = "Block" /\ IsPlainElse(a, d)
    BY <1>7, <2>1
  <2>3. IsElse(a, d)
    BY <2>2 DEF IsPlainElse
  <2>4. Parent(a, d) \in Opened(a) /\ Parent(a, d) < d /\ a[Parent(a, d)].tag = "Conditional" /\ d # 1
    BY <2>3, ElseEnds
  <2>5. q <= Parent(a, d)
    BY <1>1, <1>8, <1>11, <2>4, ParentIs
  <2>6. q # Parent(a, d)
    BY <1>11, <2>4
  <2>7. q < Parent(a, d) /\ Parent(a, d) < CloseOf(a, q)
    <3>1. q \in Nat /\ Parent(a, d) \in Nat /\ d \in Nat /\ CloseOf(a, q) \in Nat
      BY <1>2, <2>4
    <3> QED
      BY <1>8, <2>4, <2>5, <2>6, <3>1
  <2> QED
    BY <1>11, <2>4, <2>7, StandsInVariable
<1>12. CASE q < d /\ a[q].tag # "Variable"
  <2> DEFINE t == ScopeOf(a, q)
  <2>1. t \in Opened(a) /\ IsScope(a, t) /\ t <= q /\ CloseOf(a, q) <= CloseOf(a, t)
    <3>1. CASE a[q].tag = "Function"
      BY <1>2, <3>1 DEF ScopeOf, IsElseIf, IsScope
    <3>2. CASE a[q].tag = "Conditional"
      <4>1. t \in Opened(a) /\ IsScope(a, t) /\ t \in {q, q - 1} /\ t <= q
        BY <3>2, ScopeOfIs
      <4>2. CASE t = q
        BY <1>2, <4>1, <4>2
      <4>3. CASE t # q
        <5>1. IsElseIf(a, q)
          BY <4>3 DEF ScopeOf
        <5>2. t = Parent(a, q) /\ q # 1
          <6>1. t = q - 1 /\ Parent(a, q) = q - 1
            BY <3>2, <5>1, ScopeOfIs
          <6>2. q # 1
            BY <3>2 DEF Scoped, OneModule
          <6> QED
            BY <6>1, <6>2
        <5>3. CloseOf(a, q) < CloseOf(a, t)
          BY <1>1, <5>2, ParentIs
        <5> HIDE DEF t
        <5>4. CloseOf(a, q) \in Nat /\ CloseOf(a, t) \in Nat
          BY <1>2, <4>1
        <5> QED
          BY <4>1, <5>3, <5>4
      <4> QED
        BY <4>2, <4>3
    <3> QED
      BY <1>12, <3>1, <3>2
  <2> HIDE DEF t
  <2>2. e \in Opened(a) /\ t < e /\ e < CloseOf(a, t) /\ e \in 1 .. Len(a)
    <3>1. d \in Nat /\ q \in Nat /\ t \in Nat /\ CloseOf(a, q) \in Nat /\ CloseOf(a, t) \in Nat
      BY <1>2, <2>1
    <3>2. CASE ~IsElseIf(a, d)
      <4>1. t < d /\ d < CloseOf(a, t) /\ d \in 1 .. Len(a)
        BY <1>2, <1>8, <1>12, <2>1, <3>1
      <4> QED
        BY <3>2, <4>1
    <3>3. CASE IsElseIf(a, d)
      <4>1. a[d].tag = "Conditional"
        BY <3>3 DEF IsElseIf
      <4>2. d # 1
        BY <4>1 DEF Scoped, OneModule
      <4>3. d - 1 \in Opened(a) /\ IsElse(a, d - 1) /\ Parent(a, d) = d - 1
        BY <3>3, <4>1, ScopeOfIs
      <4>4. q <= d - 1
        BY <1>1, <1>8, <1>12, <4>2, <4>3, ParentIs
      <4>5. q # d - 1
        BY <1>12, <4>3 DEF IsElse
      <4>6. d - 1 \in 1 .. Len(a)
        BY <1>2, <4>3
      <4>7. t < d - 1 /\ d - 1 < CloseOf(a, t)
        BY <1>8, <2>1, <3>1, <4>4, <4>5
      <4> QED
        BY <3>3, <4>3, <4>6, <4>7
    <3> QED
      BY <3>2, <3>3
  <2>3. t <= ScopeAround(a, e)
    BY <1>1, <2>1, <2>2, ScopeAroundIs
  <2>4. s < t
    BY <1>12 DEF t
  <2>5. s \in Nat /\ t \in Nat /\ t <= s
    BY <1>2, <1>4, <1>5, <2>1, <2>3
  <2> HIDE DEF s
  <2> QED
    BY <2>4, <2>5
<1>13. d < q \/ d = q \/ q < d
  BY <1>2
<1> QED
  BY <1>9, <1>10, <1>11, <1>12, <1>13

(***************************************************************************)
(* The scopes of the table.                                                *)
(***************************************************************************)
(* c leads from the root to the scope c[n], from parent to child. *)
Chain(st, c, n) ==
  /\ c[0] = 0
  /\ \A k \in 1 .. n : /\ c[k] \in DOMAIN st.lut \ {0}
                       /\ st.lut[c[k]].parent = c[k - 1]

IsUp(st, up) ==
  up = [i \in DOMAIN st.lut |-> IF st.lut[i].parent = NoScope THEN <<i>>
                                ELSE <<i>> \o up[st.lut[i].parent]]

(* Every scope of a table but the root has an earlier one for parent. *)
LEMMA ParentsAre ==
  ASSUME NEW st, IsTable(st)
  PROVE  /\ \E b \in Nat : DOMAIN st.lut = 0 .. b
         /\ 0 \in DOMAIN st.lut /\ st.lut[0].parent = NoScope
         /\ \A i \in DOMAIN st.lut \ {0} : /\ i \in Nat /\ st.lut[i].parent \in 0 .. i - 1
                                           /\ st.lut[i].parent # NoScope
                                           /\ st.lut[i].parent \in DOMAIN st.lut
<1>1. PICK b \in Nat : DOMAIN st.lut = 0 .. b
  BY DEF IsTable
<1>2. st.lut[0].parent = NoScope
  BY DEF IsTable
<1>3. ASSUME NEW i \in DOMAIN st.lut \ {0} PROVE st.lut[i].parent \in 0 .. i - 1
  <2>1. i \in DOMAIN st.lut /\ i # 0
    OBVIOUS
  <2>2. \A j \in DOMAIN st.lut : j # 0 => st.lut[j].parent \in 0 .. j - 1
    BY DEF IsTable
  <2> QED
    BY <2>1, <2>2
<1>4. ASSUME NEW i \in DOMAIN st.lut \ {0}
      PROVE i \in Nat /\ st.lut[i].parent # NoScope /\ st.lut[i].parent \in DOMAIN st.lut
  <2>1. i \in 0 .. b
    BY <1>1
  <2> QED
    BY <1>1, <1>3, <2>1 DEF NoScope
<1>5. 0 \in DOMAIN st.lut
  BY <1>1
<1> QED
  BY <1>1, <1>2, <1>3, <1>4, <1>5

(* The scopes being numbered from the root on, the search for a name is a  *)
(* function.                                                               *)
LEMMA UpExists ==
  ASSUME NEW st, IsTable(st)
  PROVE  \E up : IsUp(st, up)
<1>1. PICK b \in Nat : DOMAIN st.lut = 0 .. b
  BY DEF IsTable
<1> DEFINE Step(i, f) == IF st.lut[i].parent = NoScope THEN <<i>> ELSE <<i>> \o f[st.lut[i].parent]
           Solves(n, f) == f = [i \in 0 .. n |-> f[i]] /\ \A i \in 0 .. n : f[i] = Step(i, f)
           S == {n \in 0 .. b : \E f : Solves(n, f)}
<1>2. \A i \in 1 .. b : st.lut[i].parent \in 0 .. i - 1
  <2>1. \A i \in 1 .. b : i \in DOMAIN st.lut \ {0}
    BY <1>1
  <2> QED
    BY <2>1, ParentsAre
<1>3. st.lut[0].parent = NoScope
  BY DEF IsTable
<1>4. 0 \in S
  <2> DEFINE f == [i \in 0 .. 0 |-> <<i>>]
  <2>1. f = [i \in 0 .. 0 |-> f[i]] /\ \A i \in 0 .. 0 : f[i] = <<i>> /\ i = 0
    OBVIOUS
  <2> HIDE DEF f
  <2>2. Solves(0, f)
    BY <1>3, <2>1
  <2>3. 0 \in 0 .. b
    BY <1>1
  <2> HIDE DEF Solves
  <2> QED
    BY <2>2, <2>3
<1>5. ASSUME NEW n \in 1 .. b, n - 1 \in S PROVE n \in S
  <2>1. PICK f : Solves(n - 1, f)
    BY <1>5
  <2> DEFINE g == [i \in 0 .. n |-> IF i = n THEN Step(n, f) ELSE f[i]]
  <2>2. g = [i \in 0 .. n |-> g[i]] /\ g[n] = Step(n, f) /\ \A i \in 0 .. n - 1 : g[i] = f[i]
    OBVIOUS
  <2> HIDE DEF g
  <2>3. st.lut[n].parent \in 0 .. n - 1 /\ st.lut[n].parent # NoScope
    BY <1>2 DEF NoScope
  <2>4. g[n] = Step(n, g)
    <3>1. g[st.lut[n].parent] = f[st.lut[n].parent]
      BY <2>2, <2>3
    <3> QED
      BY <2>2, <2>3, <3>1
  <2>5. ASSUME NEW i \in 0 .. n - 1 PROVE g[i] = Step(i, g)
    <3>1. g[i] = f[i] /\ f[i] = Step(i, f)
      BY <2>1, <2>2
    <3>2. st.lut[i].parent # NoScope => g[st.lut[i].parent] = f[st.lut[i].parent]
      <4>1. i # 0 => i \in 1 .. b
        BY <1>1
      <4>2. i # 0 => st.lut[i].parent \in 0 .. n - 1
        BY <1>2, <4>1
      <4> QED
        BY <1>3, <2>2, <4>2
    <3> QED
      BY <3>1, <3>2
  <2>6. \A i \in 0 .. n : i = n \/ i \in 0 .. n - 1
    OBVIOUS
  <2>7. \A i \in 0 .. n : g[i] = Step(i, g)
    <3> HIDE DEF Step
    <3> QED
      BY <2>4, <2>5, <2>6
  <2>8. Solves(n, g)
    <3> HIDE DEF Step
    <3> QED
      BY <2>2, <2>7
  <2> QED
    <3> HIDE DEF Solves
    <3> QED
      BY <2>8
<1>6. b \in S
  <2> HIDE DEF S
  <2>1. 0 .. b \subseteq S
    BY <1>4, <1>5, UpTo
  <2> QED
    BY <2>1
<1>7. PICK up : Solves(b, up)
  BY <1>6
<1>8. up = [i \in 0 .. b |-> Step(i, up)]
  <2> HIDE DEF Step
  <2> QED
    BY <1>7
<1> QED
  BY <1>1, <1>8 DEF IsUp

(* The path of find() from a scope: the scope, then the path from its      *)
(* parent.                                                                 *)
LEMMA PathIs ==
  ASSUME NEW st, IsTable(st), NEW i \in DOMAIN st.lut
  PROVE  Path(st, i) = IF st.lut[i].parent = NoScope THEN <<i>>
                       ELSE <<i>> \o Path(st, st.lut[i].parent)
<1> DEFINE up == CHOOSE u : IsUp(st, u)
<1>1. IsUp(st, up)
  BY UpExists
<1>2. \A j : Path(st, j) = up[j]
  BY DEF Path, IsUp
<1> HIDE DEF up
<1>3. up[i] = IF st.lut[i].parent = NoScope THEN <<i>> ELSE <<i>> \o up[st.lut[i].parent]
  BY <1>1 DEF IsUp
<1> QED
  BY <1>2, <1>3

(* What a sequence becomes with an element in front. *)
LEMMA Prepended ==
  ASSUME NEW s \in Seq(Nat), NEW e \in Nat
  PROVE  /\ <<e>> \o s \in Seq(Nat) /\ Len(<<e>> \o s) = Len(s) + 1
         /\ (<<e>> \o s)[1] = e /\ \A j \in 2 .. Len(s) + 1 : (<<e>> \o s)[j] = s[j - 1]
OBVIOUS

(* The scopes a search looks at are those of the chain. *)
LEMMA PathOfChain ==
  ASSUME NEW st, IsTable(st), NEW c, NEW n \in Nat, Chain(st, c, n), NEW k \in 0 .. n
  PROVE  /\ Path(st, c[k]) \in Seq(Nat) /\ Len(Path(st, c[k])) = k + 1
         /\ \A j \in 1 .. k + 1 : Path(st, c[k])[j] = c[k + 1 - j]
<1> DEFINE P(i) == /\ Path(st, c[i]) \in Seq(Nat) /\ Len(Path(st, c[i])) = i + 1
                   /\ \A j \in 1 .. i + 1 : Path(st, c[i])[j] = c[i + 1 - j]
           S == {i \in 0 .. n : P(i)}
<1>2. 0 \in S
  <2>1. Path(st, 0) = <<0>>
    BY PathIs, ParentsAre
  <2>2. c[0] = 0
    BY DEF Chain
  <2>3. <<0>> \in Seq(Nat) /\ Len(<<0>>) = 1 /\ \A j \in 1 .. 1 : <<0>>[j] = 0 /\ 0 + 1 - j = 0
    OBVIOUS
  <2>4. \A j \in 1 .. 1 : Path(st, c[0])[j] = c[0 + 1 - j]
    <3>1. \A j \in 1 .. 1 : j = 1 /\ 0 + 1 - j = 0
      OBVIOUS
    <3> QED
      BY <2>1, <2>2, <2>3, <3>1
  <2>5. Path(st, c[0]) \in Seq(Nat) /\ Len(Path(st, c[0])) = 0 + 1
    <3>1. Path(st, c[0]) = <<0>> /\ 0 + 1 = 1
      BY <2>1, <2>2
    <3> HIDE DEF P
    <3> QED
      BY ONLY <2>3, <3>1
  <2>6. P(0)
    BY <2>4, <2>5
  <2>7. 0 \in 0 .. n
    OBVIOUS
  <2> HIDE DEF P
  <2> QED
    BY <2>6, <2>7
<1>3. ASSUME NEW i \in 1 .. n, i - 1 \in S PROVE i \in S
  <2>1. c[i] \in DOMAIN st.lut /\ c[i] # 0 /\ st.lut[c[i]].parent = c[i - 1]
    BY DEF Chain
  <2>2. c[i] \in DOMAIN st.lut \ {0}
    BY <2>1
  <2>3. c[i] \in Nat /\ st.lut[c[i]].parent # NoScope
    BY <2>2, ParentsAre
  <2>4. Path(st, c[i]) = <<c[i]>> \o Path(st, c[i - 1])
    BY <2>1, <2>3, PathIs
  <2>5. P(i - 1)
    BY <1>3
  <2> DEFINE s == Path(st, c[i - 1])
             t == <<c[i]>> \o s
  <2>6. s \in Seq(Nat) /\ Len(s) = i /\ \A j \in 1 .. i : s[j] = c[i - j]
    <3>1. (i - 1) + 1 = i
      OBVIOUS
    <3>2. \A j \in 1 .. i : (i - 1) + 1 - j = i - j
      OBVIOUS
    <3> QED
      BY <2>5, <3>1, <3>2
  <2> HIDE DEF s
  <2>7. t \in Seq(Nat) /\ Len(t) = i + 1 /\ t[1] = c[i] /\ \A j \in 2 .. i + 1 : t[j] = s[j - 1]
    BY <2>3, <2>6, Prepended
  <2> HIDE DEF t
  <2>8. ASSUME NEW j \in 1 .. i + 1 PROVE t[j] = c[i + 1 - j]
    <3>1. CASE j = 1
      <4>1. i + 1 - j = i
        BY <3>1
      <4> QED
        BY <2>7, <3>1, <4>1
    <3>2. CASE j # 1
      <4>1. j \in 2 .. i + 1 /\ j - 1 \in 1 .. i /\ i - (j - 1) = i + 1 - j
        BY <3>2
      <4> QED
        BY <2>6, <2>7, <4>1
    <3> QED
      BY <3>1, <3>2
  <2>9. Path(st, c[i]) = t
    BY <2>4 DEF t, s
  <2>10. P(i)
    BY <2>7, <2>8, <2>9
  <2> HIDE DEF P
  <2> QED
    BY <2>10
<1>4. 0 .. n \subseteq S
  <2> HIDE DEF S
  <2> QED
    BY <1>2, <1>3, UpTo
<1> QED
  BY <1>4

(* A name none of them has is not found. *)
LEMMA NotFound ==
  ASSUME NEW st, IsTable(st), NEW c, NEW n \in Nat, Chain(st, c, n), NEW k \in 0 .. n, NEW ident,
         \A j \in 0 .. k : ident \notin DOMAIN st.lut[c[j]].entries
  PROVE  ~Found(Find(st, c[k], ident))
<1> DEFINE path == Path(st, c[k])
<1>1. path \in Seq(Nat) /\ Len(path) = k + 1 /\ \A j \in 1 .. k + 1 : path[j] = c[k + 1 - j]
  BY PathOfChain
<1> HIDE DEF path
<1>2. DOMAIN path = 1 .. k + 1
  BY <1>1
<1>3. \A j \in 1 .. k + 1 : ~Declares(st, path[j], ident)
  <2>1. \A j \in 1 .. k + 1 : k + 1 - j \in 0 .. k
    OBVIOUS
  <2> QED
    BY <1>1, <2>1 DEF Declares
<1>4. FirstHit(st, path, ident) = Nothing
  BY <1>2, <1>3 DEF FirstHit
<1>5. Find(st, c[k], ident) = Nothing
  BY <1>4 DEF Find, path
<1>6. ~Found(Nothing)
  BY DEF Found, Nothing, Kind
<1> QED
  BY <1>5, <1>6

(* What addEntry changes of a table: the names of one scope. *)
LEMMA AddedEntry ==
  ASSUME NEW st, IsTable(st), NEW id \in DOMAIN st.lut, NEW x, NEW s
  PROVE  LET su == AddEntry(st, id, x, s)
         IN  /\ DOMAIN su.lut = DOMAIN st.lut /\ su.ref = st.ref
             /\ \A i \in DOMAIN st.lut : su.lut[i].parent = st.lut[i].parent
             /\ \A i \in DOMAIN st.lut \ {id} : su.lut[i] = st.lut[i]
             /\ DOMAIN su.lut[id].entries = DOMAIN st.lut[id].entries \cup {x}
<1>1. CASE x \in DOMAIN st.lut[id].entries
  BY <1>1 DEF AddEntry
<1>2. CASE x \notin DOMAIN st.lut[id].entries
  <2> DEFINE su == AddEntry(st, id, x, s)
             entries == st.lut[id].entries
             more == [i \in DOMAIN entries \cup {x} |-> IF i = x THEN s ELSE entries[i]]
  <2>1. su = [lut |-> [st.lut EXCEPT ![id] = [@ EXCEPT !.entries = more]],
              ref |-> st.ref, moduleId |-> st.moduleId]
    BY <1>2 DEF AddEntry, IsTable
  <2>2. DOMAIN more = DOMAIN entries \cup {x}
    OBVIOUS
  <2> HIDE DEF su, more
  <2>3. DOMAIN su.lut = DOMAIN st.lut /\ su.ref = st.ref
        /\ \A i \in DOMAIN st.lut : i # id => su.lut[i] = st.lut[i]
    BY <2>1
  <2>4. su.lut[id] = [st.lut[id] EXCEPT !.entries = more]
    BY <2>1
  <2>5. st.lut[id] = [entries |-> st.lut[id].entries, parent |-> st.lut[id].parent,
                      moduleId |-> st.lut[id].moduleId]
    BY DEF IsTable
  <2>6. su.lut[id].entries = more /\ su.lut[id].parent = st.lut[id].parent
    BY <2>4, <2>5
  <2> QED
    BY <2>2, <2>3, <2>6 DEF su
<1> QED
  BY <1>1, <1>2

(* What popScope changes of a table: the current scope is the parent. *)
LEMMA Popped ==
  ASSUME NEW st, IsTable(st), st.lut[st.ref].parent # NoScope
  PROVE  PopScope(st).lut = st.lut /\ PopScope(st).ref = st.lut[st.ref].parent
<1> DEFINE su == PopScope(st)
<1>1. su = [lut |-> st.lut, ref |-> st.lut[st.ref].parent, moduleId |-> st.moduleId]
  BY DEF PopScope, IsTable
<1> QED
  BY <1>1

(* What pushScope changes of a table: a scope without names, below the     *)
(* current one.                                                            *)
LEMMA Pushed ==
  ASSUME NEW st, IsTable(st)
  PROVE  LET su == PushScope(st)
         IN  /\ Size(st) \in Nat /\ Size(st) # 0 /\ \A i \in DOMAIN st.lut : i \in Nat /\ i < Size(st)
             /\ DOMAIN su.lut = DOMAIN st.lut \cup {Size(st)} /\ su.ref = Size(st)
             /\ \A i \in DOMAIN st.lut : su.lut[i] = st.lut[i]
             /\ su.lut[Size(st)].parent = st.ref
             /\ DOMAIN su.lut[Size(st)].entries = {}
<1>1. PICK n \in Nat : DOMAIN st.lut = 0 .. n
  BY DEF IsTable
<1>2. Size(st) = n + 1
  BY <1>1, SizeOfTable
<1> DEFINE su == PushScope(st)
<1>3. su = [lut |-> [i \in 0 .. n + 1 |-> IF i = n + 1 THEN Scope(st.ref, st.moduleId)
                                          ELSE st.lut[i]],
            ref |-> n + 1, moduleId |-> st.moduleId]
  BY <1>2 DEF PushScope, IsTable
<1> HIDE DEF su
<1>4. /\ DOMAIN su.lut = 0 .. n + 1 /\ su.ref = n + 1
      /\ \A i \in 0 .. n : su.lut[i] = st.lut[i]
      /\ su.lut[n + 1] = Scope(st.ref, st.moduleId)
  BY <1>3
<1>5. Scope(st.ref, st.moduleId).parent = st.ref /\ DOMAIN Scope(st.ref, st.moduleId).entries = {}
  BY DEF Scope
<1>6. 0 .. n + 1 = 0 .. n \cup {n + 1}
  OBVIOUS
<1> QED
  BY <1>1, <1>2, <1>4, <1>5, <1>6 DEF su

(***************************************************************************)
(* The stack of symbols.                                                   *)
(***************************************************************************)
(* The fields of a kind and of a symbol. *)
IsKind(k) == k = [tag |-> k.tag, at |-> k.at, lut |-> k.lut, sig |-> k.sig]
IsSymbol(s) == s = [kind |-> s.kind, ident |-> s.ident, scope |-> s.scope,
                    config |-> s.config, literal |-> s.literal]

(* The names of a scope's symbol. *)
BaseOf(a, s) ==
  IF a[s].tag = "Conditional" THEN "if" ELSE IF a[s].tag = "Block" THEN "block" ELSE LoopName(a[s].tag)
SigOf(a, s, p) ==
  CASE a[s].tag = "Module"   -> Name(a[s].name)
    [] a[s].tag = "Function" -> SignatureOf(a, s)
    [] OTHER -> NameAt(a, IF a[s].tag = "Block" /\ Renamed(a, s, p) THEN "elseif" ELSE BaseOf(a, s), s)
IdentOf(a, s, p) ==
  CASE a[s].tag = "Module"   -> Name(a[s].name)
    [] a[s].tag = "Function" -> SignatureOf(a, s)
    [] OTHER -> NameAt(a, IF a[s].tag = "Block" /\ Renamed(a, s, p) THEN "else" ELSE BaseOf(a, s), s)
(* The symbol of a scope of the source, when the pass has come to p.       *)
StandsFor(a, p, s, sym) ==
  /\ IsSymbol(sym) /\ IsKind(sym.kind)
  /\ sym.kind.tag = IF a[s].tag = "Module" THEN "module" ELSE "func"
  /\ sym.kind.sig = SigOf(a, s, p) /\ sym.ident = IdentOf(a, s, p)

(* The variable that p is in, its end included. *)
InVar(a, v, p) == v \in Opened(a) /\ a[v].tag = "Variable" /\ v < p /\ p <= CloseOf(a, v)
Flat(a, p) == \A v \in Opened(a) : ~InVar(a, v, p)

(* The scopes of the table, from the root to the one c[n], the latest of   *)
(* them.                                                                   *)
Links(st, c, n) ==
  /\ Chain(st, c, n)
  /\ \A k \in 0 .. n : c[k] \in Nat
  /\ \A j, k \in 0 .. n : j < k => c[j] < c[k]
(* One symbol for each scope of the source: it has the scope of the table  *)
(* that was opened for it, and is to be entered in the one around it.      *)
Symbols(a, p, nest, c, stack) ==
  \A k \in 1 .. Len(nest) : /\ StandsFor(a, p, nest[k], stack[k])
                            /\ stack[k].kind.lut = c[k] /\ stack[k].scope = c[k - 1]
(* A scope of the table holds only names that were made in its scope of    *)
(* the source before p: a name that is new there is not found.             *)
Known(a, p, nest, c, st) ==
  /\ \A k \in 1 .. Len(nest) : \A x \in DOMAIN st.lut[c[k]].entries :
       \E d \in Opened(a) : MadeIn(a, d) = nest[k] /\ MadeBy(a, d, p) /\ x \in NamesMade(a, d)
  /\ DOMAIN st.lut[0].entries = DOMAIN RootEntries
(* The symbol of the variable being declared, on top of the stack: which   *)
(* kind it has decides what the nodes of the declaration do.               *)
Declared(a, v, p, s, ref) ==
  /\ IsSymbol(s) /\ s.ident = Name(a[v].name) /\ s.scope = ref
  /\ p = v + 1 => s.kind.tag = "none"
  /\ p > v + 1 /\ a[v + 1].tag = "BracketLoop" => s.kind.tag = "array"
(* The line the pass remembers (its symnode) is that of the conditional or *)
(* the else-block it is in, or that of none.                               *)
LineKept(a, nest, line) ==
  Len(nest) > 0 /\ a[nest[Len(nest)]].tag \in {"Conditional", "Block"} =>
    line \in {0, a[nest[Len(nest)]].line}

(* The three lists agree at p, and what else the steps from there need.    *)
Follows(a, p, nest, c, stack, st, line) ==
  /\ Nest(a, p, nest)
  /\ Links(st, c, Len(nest)) /\ st.ref = c[Len(nest)]
  /\ IsFcnSeq(stack) /\ Len(stack) = Len(nest) + IF Flat(a, p) THEN 0 ELSE 1
  /\ Symbols(a, p, nest, c, stack)
  /\ Known(a, p, nest, c, st)
  /\ \A v \in Opened(a) : InVar(a, v, p) =>
       Declared(a, v, p, stack[Len(stack)], st.ref) /\ ScopeAround(a, v) = Innermost(nest)
  /\ Flat(a, p) => LineKept(a, nest, line)
------------------------------------------------------------------------------
(* The end or entry of another node enters or leaves no variable. *)
LEMMA StillIn ==
  ASSUME NEW a, Scoped(a), NEW p \in 1 .. Len(a), a[p].tag # "Variable", NEW v
  PROVE  InVar(a, v, p + 1) <=> InVar(a, v, p)
<1>1. Bracketing(a)
  BY ScopedBrackets
<1>2. SUFFICES ASSUME v \in Opened(a), a[v].tag = "Variable"
               PROVE  v < p + 1 /\ p + 1 <= CloseOf(a, v) <=> v < p /\ p <= CloseOf(a, v)
  BY DEF InVar
<1>3. CloseOf(a, v) \in Nat /\ v \in Nat /\ a[CloseOf(a, v)].tag = "Variable" /\ v # p /\ CloseOf(a, v) # p
  BY <1>1, <1>2 DEF Bracketing
<1>4. p \in Nat
  BY <1>1 DEF Bracketing
<1> QED
  BY <1>3, <1>4

(* So a place after it is outside every variable when it is. *)
LEMMA StillFlat ==
  ASSUME NEW a, Scoped(a), NEW p \in 1 .. Len(a), a[p].tag # "Variable"
  PROVE  Flat(a, p + 1) <=> Flat(a, p)
BY StillIn DEF Flat

(* A nest is a sequence. *)
LEMMA LengthOfNest ==
  ASSUME NEW a, NEW p, NEW nest, Nest(a, p, nest)
  PROVE  Len(nest) \in Nat /\ IsFcnSeq(nest)
BY SequenceIn DEF Nest, Nested

(* Only the symbol of an else-block is renamed, by the conditional with    *)
(* which it begins.                                                        *)
LEMMA NameStays ==
  ASSUME NEW a, Scoped(a), NEW p \in 1 .. Len(a),
         NEW s \in InScopes(a, p), ~(p \in Opened(a) /\ IsElseIf(a, p) /\ s = p - 1),
         NEW sym, StandsFor(a, p, s, sym)
  PROVE  StandsFor(a, p + 1, s, sym)
<1>1. s \in Opened(a) /\ IsScope(a, s) /\ s \in Nat /\ p \in Nat
  BY ScopedBrackets DEF InScopes, Bracketing
<1>2. CASE a[s].tag = "Block"
  <2>1. IsElse(a, s)
    BY <1>1, <1>2 DEF IsScope, LoopTags
  <2>2. ~(p = s + 1 /\ s + 1 \in Opened(a) /\ a[s + 1].tag = "Conditional")
    <3>1. SUFFICES ASSUME p = s + 1, s + 1 \in Opened(a), a[s + 1].tag = "Conditional" PROVE FALSE
      OBVIOUS
    <3>2. Parent(a, s + 1) = s
      BY <1>1, <3>1, ScopedBrackets, FirstChild
    <3>3. IsElseIf(a, p)
      BY <2>1, <3>1, <3>2 DEF IsElseIf
    <3>4. s = p - 1
      BY <1>1, <3>1
    <3> QED
      BY <3>1, <3>3, <3>4
  <2>3. p + 1 > s + 1 <=> p > s + 1 \/ p = s + 1
    <3>1. s < p
      BY DEF InScopes
    <3> QED
      BY <1>1, <3>1
  <2>4. Renamed(a, s, p + 1) <=> Renamed(a, s, p)
    BY <2>2, <2>3 DEF Renamed
  <2>5. SigOf(a, s, p + 1) = SigOf(a, s, p) /\ IdentOf(a, s, p + 1) = IdentOf(a, s, p)
    BY <2>4 DEF SigOf, IdentOf
  <2> QED
    BY <2>5 DEF StandsFor
<1>3. CASE a[s].tag # "Block"
  <2>1. SigOf(a, s, p + 1) = SigOf(a, s, p) /\ IdentOf(a, s, p + 1) = IdentOf(a, s, p)
    BY <1>3 DEF SigOf, IdentOf
  <2> QED
    BY <2>1 DEF StandsFor
<1> QED
  BY <1>2, <1>3

(* A chain of scopes survives the growth of the table. *)
LEMMA LinksExtend ==
  ASSUME NEW st, NEW c, NEW n \in Nat, Links(st, c, n), NEW su,
         \A i \in DOMAIN st.lut : i \in DOMAIN su.lut /\ su.lut[i].parent = st.lut[i].parent
  PROVE  Links(su, c, n)
BY DEF Links, Chain

(* The outer scopes of a chain are one. *)
LEMMA LinksShorten ==
  ASSUME NEW st, NEW c, NEW n \in Nat, Links(st, c, n), NEW m \in 0 .. n
  PROVE  Links(st, c, m)
<1>1. \A k : (k \in 0 .. m => k \in 0 .. n) /\ (k \in 1 .. m => k \in 1 .. n)
  OBVIOUS
<1> QED
  BY <1>1 DEF Links, Chain

(* A table with the same scopes and the same names in them. *)
SameNames(st, su) ==
  /\ su.ref = st.ref
  /\ \A i \in DOMAIN st.lut : /\ i \in DOMAIN su.lut /\ su.lut[i].parent = st.lut[i].parent
                            /\ DOMAIN su.lut[i].entries = DOMAIN st.lut[i].entries

(* Putting down a literal changes no name. *)
LEMMA MarkedNames ==
  ASSUME NEW st, IsTable(st), NEW id, NEW x, NEW place
  PROVE  SameNames(st, MarkLiteral(st, id, x, place))
<1> DEFINE s == [st.lut[id].entries[x] EXCEPT !.literal = place]
           entries == [st.lut[id].entries EXCEPT ![x] = s]
           su == [st EXCEPT !.lut[id].entries[x].literal = place]
<1>1. su = [st EXCEPT !.lut = [st.lut EXCEPT ![id] = [st.lut[id] EXCEPT !.entries = entries]]]
  OBVIOUS
<1>2. DOMAIN entries = DOMAIN st.lut[id].entries
  OBVIOUS
<1> HIDE DEF su, entries
<1>3. su = [lut |-> [st.lut EXCEPT ![id] = [st.lut[id] EXCEPT !.entries = entries]],
            ref |-> st.ref, moduleId |-> st.moduleId]
  BY <1>1 DEF IsTable
<1>4. /\ su.ref = st.ref /\ DOMAIN su.lut = DOMAIN st.lut
      /\ \A i \in DOMAIN st.lut : su.lut[i] = IF i = id THEN [st.lut[i] EXCEPT !.entries = entries]
                                             ELSE st.lut[i]
  BY <1>3
<1>5. ASSUME NEW i \in DOMAIN st.lut, i = id
      PROVE  su.lut[i].parent = st.lut[i].parent /\ su.lut[i].entries = entries
  <2>1. st.lut[i] = [entries |-> st.lut[i].entries, parent |-> st.lut[i].parent,
                     moduleId |-> st.lut[i].moduleId]
    BY DEF IsTable
  <2> QED
    BY <1>4, <1>5, <2>1
<1>6. SameNames(st, su)
  BY <1>2, <1>4, <1>5 DEF SameNames
<1>7. SameNames(st, st)
  BY DEF SameNames
<1> QED
  BY <1>6, <1>7 DEF su, MarkLiteral

(* A name needed at the next place is one needed here, or of this place. *)
LEMMA KnownStays ==
  ASSUME NEW a, Scoped(a), NEW p \in Nat, NEW nest, NEW c, NEW st, Known(a, p, nest, c, st)
  PROVE  Known(a, p + 1, nest, c, st)
<1>1. ASSUME NEW d \in Opened(a), MadeBy(a, d, p) PROVE MadeBy(a, d, p + 1)
  <2>1. d \in Nat /\ CloseOf(a, d) \in Nat
    BY ScopedBrackets DEF Bracketing
  <2> QED
    BY <1>1, <2>1 DEF MadeBy
<1>2. DOMAIN st.lut[0].entries = DOMAIN RootEntries
  BY DEF Known
<1>3. ASSUME NEW k \in 1 .. Len(nest), NEW x \in DOMAIN st.lut[c[k]].entries
      PROVE  \E d \in Opened(a) : MadeIn(a, d) = nest[k] /\ MadeBy(a, d, p + 1) /\ x \in NamesMade(a, d)
  BY <1>1 DEF Known
<1> QED
  BY <1>2, <1>3 DEF Known

(* Entering a name that is made in the innermost scope loses none. *)
LEMMA KnownAdded ==
  ASSUME NEW a, NEW p, NEW nest, NEW c, NEW st, Known(a, p, nest, c, st),
         IsTable(st), Len(nest) \in Nat, Len(nest) > 0, Links(st, c, Len(nest)),
         NEW d \in Opened(a), MadeIn(a, d) = nest[Len(nest)], MadeBy(a, d, p),
         NEW x \in NamesMade(a, d), NEW s
  PROVE  Known(a, p, nest, c, AddEntry(st, c[Len(nest)], x, s))
<1> DEFINE n == Len(nest)
           su == AddEntry(st, c[n], x, s)
<1>1. n \in 1 .. n /\ n \in 0 .. n /\ 0 \in 0 .. n /\ 0 < n
  OBVIOUS
<1>2. c[n] \in DOMAIN st.lut /\ c[n] # 0
  BY <1>1 DEF Links, Chain
<1>3. /\ DOMAIN su.lut = DOMAIN st.lut
      /\ \A i \in DOMAIN st.lut \ {c[n]} : su.lut[i] = st.lut[i]
      /\ DOMAIN su.lut[c[n]].entries = DOMAIN st.lut[c[n]].entries \cup {x}
  BY <1>2, AddedEntry
<1>4. Known(a, p, nest, c, st)
  OBVIOUS
<1> HIDE DEF su
<1>5. su.lut[0] = st.lut[0]
  BY <1>2, <1>3, ParentsAre
<1>6. ASSUME NEW k \in 1 .. n, NEW y \in DOMAIN su.lut[c[k]].entries
      PROVE  \E e \in Opened(a) : MadeIn(a, e) = nest[k] /\ MadeBy(a, e, p) /\ y \in NamesMade(a, e)
  <2>1. CASE k = n
    <3>1. y \in DOMAIN st.lut[c[n]].entries \/ y = x
      BY <1>3, <2>1
    <3>2. CASE y = x
      BY <2>1, <3>2
    <3>3. CASE y \in DOMAIN st.lut[c[n]].entries
      BY <1>4, <2>1, <3>3 DEF Known
    <3> QED
      BY <3>1, <3>2, <3>3
  <2>2. CASE k # n
    <3>1. k \in 0 .. n /\ k < n
      BY <2>2
    <3>2. c[k] < c[n] /\ c[k] \in Nat /\ c[n] \in Nat /\ c[k] \in DOMAIN st.lut
      BY <1>1, <3>1 DEF Links, Chain
    <3>3. c[k] # c[n]
      BY <3>2
    <3>4. su.lut[c[k]] = st.lut[c[k]]
      BY <1>3, <3>2, <3>3
    <3> QED
      BY <1>4, <3>4 DEF Known
  <2> QED
    BY <2>1, <2>2
<1>7. DOMAIN su.lut[0].entries = DOMAIN RootEntries
  BY <1>4, <1>5 DEF Known
<1>8. Known(a, p, nest, c, su)
  BY <1>6, <1>7 DEF Known
<1> QED
  BY <1>8 DEF su

(* The symbols stand for the same scopes at the next place. *)
LEMMA SymbolsFollow ==
  ASSUME NEW a, Scoped(a), NEW p \in 1 .. Len(a), ~(p \in Opened(a) /\ IsElseIf(a, p)),
         NEW nest, \A k \in 1 .. Len(nest) : nest[k] \in InScopes(a, p),
         NEW c, NEW stack, Symbols(a, p, nest, c, stack)
  PROVE  Symbols(a, p + 1, nest, c, stack)
BY NameStays DEF Symbols

(* The part of Follows that does not depend on the place. *)
Held(a, p, nest, c, stack, st) ==
  /\ Len(nest) \in Nat /\ IsFcnSeq(nest)
  /\ Links(st, c, Len(nest)) /\ st.ref = c[Len(nest)]
  /\ Symbols(a, p, nest, c, stack)
  /\ Known(a, p, nest, c, st)
Balanced(nest, stack) == IsFcnSeq(stack) /\ Len(stack) = Len(nest)

(* What is known of the names of a table is known of those of the other. *)
LEMMA HeldSameNames ==
  ASSUME NEW a, NEW p, NEW nest, NEW c, NEW stack, NEW st, NEW su, IsTable(st),
         Held(a, p, nest, c, stack, st), SameNames(st, su)
  PROVE  Held(a, p, nest, c, stack, su)
<1>1. Len(nest) \in Nat /\ Links(st, c, Len(nest))
  BY DEF Held
<1>2. Links(su, c, Len(nest))
  BY <1>1, LinksExtend DEF SameNames
<1>3. \A k \in 1 .. Len(nest) : c[k] \in DOMAIN st.lut
  BY <1>1 DEF Links, Chain
<1>4. Known(a, p, nest, c, su)
  <2>1. Known(a, p, nest, c, st)
    BY DEF Held
  <2>2. \A k \in 1 .. Len(nest) : DOMAIN su.lut[c[k]].entries = DOMAIN st.lut[c[k]].entries
    BY <1>3 DEF SameNames
  <2>3. DOMAIN su.lut[0].entries = DOMAIN st.lut[0].entries
    <3>1. 0 \in DOMAIN st.lut
      BY ParentsAre
    <3> QED
      BY <3>1 DEF SameNames
  <2> QED
    BY <2>1, <2>2, <2>3 DEF Known
<1> QED
  BY <1>2, <1>4 DEF Held, SameNames

(* Following holds what does not depend on the place. *)
LEMMA FollowsHeld ==
  ASSUME NEW a, NEW p, NEW nest, NEW c, NEW stack, NEW st, NEW line,
         Follows(a, p, nest, c, stack, st, line)
  PROVE  Held(a, p, nest, c, stack, st) /\ \A k \in 1 .. Len(nest) : nest[k] \in InScopes(a, p)
<1>1. Len(nest) \in Nat /\ IsFcnSeq(nest)
  BY LengthOfNest DEF Follows
<1> QED
  BY <1>1 DEF Follows, Held, Nest, Nested

(* And the rest of Following is about the place. *)
LEMMA HeldFollows ==
  ASSUME NEW a, NEW p, NEW nest, NEW c, NEW stack, NEW st, Nest(a, p, nest), Flat(a, p),
         Held(a, p, nest, c, stack, st), Balanced(nest, stack), NEW line, LineKept(a, nest, line)
  PROVE  Follows(a, p, nest, c, stack, st, line)
<1>1. Len(stack) = Len(nest) + 0
  BY DEF Held, Balanced
<1> QED
  BY <1>1 DEF Follows, Held, Balanced, Flat

(* What is held at a place is held at the next. *)
LEMMA HeldOn ==
  ASSUME NEW a, Scoped(a), NEW p \in 1 .. Len(a), ~(p \in Opened(a) /\ IsElseIf(a, p)),
         NEW nest, \A k \in 1 .. Len(nest) : nest[k] \in InScopes(a, p),
         NEW c, NEW stack, NEW st, Held(a, p, nest, c, stack, st)
  PROVE  Held(a, p + 1, nest, c, stack, st)
<1>1. p \in Nat
  BY ScopedBrackets DEF Bracketing
<1>2. Known(a, p + 1, nest, c, st)
  BY <1>1, KnownStays DEF Held
<1>3. Symbols(a, p + 1, nest, c, stack)
  BY SymbolsFollow DEF Held
<1> QED
  BY <1>2, <1>3 DEF Held

(* A name is entered in the innermost scope. *)
LEMMA HeldAdds ==
  ASSUME NEW a, NEW p, NEW nest, NEW c, NEW stack, NEW st, IsTable(st),
         Held(a, p, nest, c, stack, st), Len(nest) > 0,
         NEW d \in Opened(a), MadeIn(a, d) = nest[Len(nest)], MadeBy(a, d, p),
         NEW x \in NamesMade(a, d), NEW s
  PROVE  Held(a, p, nest, c, stack, AddEntry(st, c[Len(nest)], x, s))
<1> DEFINE n == Len(nest)
           su == AddEntry(st, c[n], x, s)
<1>1. n \in Nat /\ n \in 1 .. n
  BY DEF Held
<1>2. c[n] \in DOMAIN st.lut
  BY <1>1 DEF Held, Links, Chain
<1>3. /\ DOMAIN su.lut = DOMAIN st.lut /\ su.ref = st.ref
      /\ \A i \in DOMAIN st.lut : su.lut[i].parent = st.lut[i].parent
  BY <1>2, AddedEntry
<1>4. Known(a, p, nest, c, su)
  BY <1>1, KnownAdded DEF Held
<1> HIDE DEF su
<1>5. Links(su, c, n)
  BY <1>1, <1>3, LinksExtend DEF Held
<1>6. Held(a, p, nest, c, stack, su)
  BY <1>1, <1>3, <1>4, <1>5 DEF Held
<1> QED
  BY <1>6 DEF su

(* A scope is left: what it is called is entered in the one around it. *)
LEMMA HeldDrops ==
  ASSUME NEW a, NEW p, NEW nest, NEW c, NEW stack, NEW st, IsTable(st),
         Held(a, p, nest, c, stack, st), Balanced(nest, stack), Len(nest) > 1,
         NEW d \in Opened(a), MadeIn(a, d) = nest[Len(nest) - 1], MadeBy(a, d, p),
         NEW x \in NamesMade(a, d), NEW s
  PROVE  /\ Held(a, p, Front(nest), c, Front(stack),
                 PopScope(AddEntry(st, c[Len(nest) - 1], x, s)))
         /\ Balanced(Front(nest), Front(stack))
<1> DEFINE n == Len(nest)
           m == Front(nest)
           sv == AddEntry(st, c[n - 1], x, s)
           su == PopScope(sv)
<1>1. n \in Nat /\ n - 1 \in Nat /\ n - 1 > 0 /\ n - 1 \in 0 .. n /\ n > 0
      /\ \A k \in 1 .. n - 1 : k \in 1 .. n /\ k - 1 \in 0 .. n - 1
  BY DEF Held
<1>2. /\ Len(m) = n - 1 /\ IsFcnSeq(m) /\ \A k \in 1 .. n - 1 : m[k] = nest[k]
  BY <1>1, Fronted DEF Held
<1>3. /\ Len(Front(stack)) = n - 1 /\ IsFcnSeq(Front(stack))
      /\ \A k \in 1 .. n - 1 : Front(stack)[k] = stack[k]
  BY <1>1, Fronted DEF Balanced
<1> HIDE DEF m
<1>4. Links(st, c, Len(m))
  BY <1>1, <1>2, LinksShorten DEF Held
<1>5. Symbols(a, p, m, c, Front(stack))
  <2>1. ASSUME NEW k \in 1 .. n - 1
        PROVE  /\ StandsFor(a, p, m[k], Front(stack)[k])
               /\ Front(stack)[k].kind.lut = c[k] /\ Front(stack)[k].scope = c[k - 1]
    BY <1>1, <1>2, <1>3 DEF Held, Symbols
  <2> QED
    BY <1>2, <2>1 DEF Symbols
<1>6. Known(a, p, m, c, st)
  BY <1>1, <1>2 DEF Held, Known
<1>7. Len(m) > 0 /\ Len(m) \in Nat /\ c[Len(m)] = c[n - 1] /\ m[Len(m)] = nest[n - 1]
  BY <1>1, <1>2
<1>8. Known(a, p, m, c, sv)
  BY <1>4, <1>6, <1>7, KnownAdded
<1>9. c[n - 1] \in DOMAIN st.lut
  BY <1>4, <1>7 DEF Links, Chain
<1>10. /\ DOMAIN sv.lut = DOMAIN st.lut /\ sv.ref = st.ref
       /\ \A i \in DOMAIN st.lut : sv.lut[i].parent = st.lut[i].parent
  BY <1>9, AddedEntry
<1>11. IsTable(sv)
  BY AddGrows DEF Grows
<1> HIDE DEF sv
<1>12. sv.lut[sv.ref].parent = c[n - 1] /\ c[n - 1] # NoScope
  <2>1. st.ref = c[n] /\ n \in 1 .. n
    BY <1>1 DEF Held
  <2>2. c[n] \in DOMAIN st.lut /\ st.lut[c[n]].parent = c[n - 1]
    BY <2>1 DEF Held, Links, Chain
  <2>3. c[n - 1] \in Nat
    BY <1>4, <1>7 DEF Links
  <2> QED
    BY <1>10, <2>1, <2>2, <2>3 DEF NoScope
<1>13. su.lut = sv.lut /\ su.ref = c[n - 1]
  BY <1>11, <1>12, Popped
<1> HIDE DEF su
<1>14. Links(su, c, Len(m))
  BY <1>4, <1>7, <1>10, <1>13, LinksExtend
<1>15. Known(a, p, m, c, su)
  BY <1>8, <1>13 DEF Known
<1>16. Held(a, p, m, c, Front(stack), su)
  BY <1>2, <1>5, <1>7, <1>13, <1>14, <1>15 DEF Held
<1>17. Balanced(m, Front(stack))
  BY <1>2, <1>3 DEF Balanced
<1> QED
  BY <1>16, <1>17 DEF su, sv, m

(* No search finds the name of a declaration that ends. *)
LEMMA NameIsNew ==
  ASSUME NEW a, Scoped(a), NEW q \in Opened(a), a[q].tag \in {"Variable", "Function", "Conditional"},
         NEW nest, NEW c, NEW stack, NEW st, IsTable(st),
         Held(a, CloseOf(a, q), nest, c, stack, st), NEW k \in 0 .. Len(nest),
         \A j \in 1 .. k : /\ nest[j] \in InScopes(a, CloseOf(a, q))
                           /\ a[q].tag # "Variable" => nest[j] < ScopeOf(a, q)
  PROVE  ~Found(Find(st, c[k], NameOf(a, q)))
<1> DEFINE p == CloseOf(a, q)
           n == Len(nest)
<1>1. n \in Nat /\ Chain(st, c, n)
  BY DEF Held, Links
<1>2. Known(a, p, nest, c, st)
  BY DEF Held
<1>3. NameOf(a, q) \notin DOMAIN st.lut[c[0]].entries
  <2>1. c[0] = 0
    BY <1>1 DEF Chain
  <2>2. NameOf(a, q) \notin DOMAIN RootEntries
    BY DEF Scoped, NamesAreNew
  <2> QED
    BY <1>2, <2>1, <2>2 DEF Known
<1>4. ASSUME NEW j \in 1 .. k, NameOf(a, q) \in DOMAIN st.lut[c[j]].entries PROVE FALSE
  <2>1. j \in 1 .. n
    BY <1>1
  <2>2. PICK d \in Opened(a) : MadeIn(a, d) = nest[j] /\ MadeBy(a, d, p) /\ NameOf(a, q) \in NamesMade(a, d)
    BY <1>2, <1>4, <2>1 DEF Known
  <2>3. MadeIn(a, d) \in InScopes(a, p) /\ (a[q].tag # "Variable" => MadeIn(a, d) < ScopeOf(a, q))
    BY <2>2
  <2> QED
    BY <2>2, <2>3, NewName
<1>5. \A j \in 0 .. k : NameOf(a, q) \notin DOMAIN st.lut[c[j]].entries
  <2>1. \A j \in 0 .. k : j = 0 \/ j \in 1 .. k
    BY <1>1
  <2> QED
    BY <1>3, <1>4, <2>1
<1> QED
  BY <1>1, <1>5, NotFound

(***************************************************************************)
(* The kinds of step.                                                      *)
(***************************************************************************)
LEMMA NestStays ==
  ASSUME NEW a, NEW p, NEW nest, Nest(a, p, nest), NEW q, InScopes(a, q) = InScopes(a, p)
  PROVE  Nest(a, q, nest)
BY DEF Nest

(* At most a name is entered in the innermost scope.                       *)
LEMMA StackFollows ==
  ASSUME NEW a, Scoped(a), NEW p \in 2 .. Len(a), NEW nest, NEW c, NEW stack, NEW st, NEW line,
         Follows(a, p, nest, c, stack, st, line), IsTable(st), Flat(a, p),
         InScopes(a, p + 1) = InScopes(a, p), a[p].tag # "Variable",
         ~(p \in Opened(a) /\ IsElseIf(a, p)),
         NEW st2,
         \/ st2 = st
         \/ /\ p \in Opened(a) /\ a[p].tag \in {"Formal", "Range"} /\ MadeIn(a, p) = Innermost(nest)
            /\ \E x \in NamesMade(a, p) : \E s : st2 = AddEntry(st, stack[Len(stack)].kind.lut, x, s),
         NEW line2, line2 = line \/ a[Innermost(nest)].tag \notin {"Conditional", "Block"}
  PROVE  Follows(a, p + 1, nest, c, stack, st2, line2)
<1> DEFINE n == Len(nest)
<1>1. Bracketing(a) /\ p \in 1 .. Len(a) /\ p \in Nat
  BY ScopedBrackets DEF Bracketing
<1>2. Held(a, p, nest, c, stack, st) /\ \A k \in 1 .. n : nest[k] \in InScopes(a, p)
  BY FollowsHeld
<1>3. n \in Nat /\ n > 0 /\ Innermost(nest) = nest[n]
  BY <1>1, ModuleIsFirst DEF Follows, Innermost
<1>4. Held(a, p + 1, nest, c, stack, st)
  BY <1>1, <1>2, HeldOn
<1>5. Len(stack) = n /\ IsFcnSeq(stack)
  BY <1>3 DEF Follows
<1>6. stack[n].kind.lut = c[n]
  BY <1>2, <1>3 DEF Held, Symbols
<1>7. Held(a, p + 1, nest, c, stack, st2)
  <2>1. CASE st2 = st
    BY <1>4, <2>1
  <2>2. ASSUME p \in Opened(a), a[p].tag \in {"Formal", "Range"}, MadeIn(a, p) = Innermost(nest),
               NEW x \in NamesMade(a, p), NEW s, st2 = AddEntry(st, stack[Len(stack)].kind.lut, x, s)
        PROVE  Held(a, p + 1, nest, c, stack, st2)
    <3>1. MadeBy(a, p, p + 1)
      BY <1>1, <2>2 DEF MadeBy
    <3>2. MadeIn(a, p) = nest[n]
      BY <1>3, <2>2
    <3>3. Held(a, p + 1, nest, c, stack, AddEntry(st, c[n], x, s))
      BY <1>3, <1>4, <2>2, <3>1, <3>2, HeldAdds
    <3> QED
      BY <1>5, <1>6, <2>2, <3>3
  <2> QED
    BY <2>1, <2>2
<1>8. Balanced(nest, stack)
  BY <1>5 DEF Balanced
<1>9. Nest(a, p + 1, nest)
  BY NestStays DEF Follows
<1>10. Flat(a, p + 1)
  BY <1>1, StillFlat
<1>11. LineKept(a, nest, line2)
  <2>1. LineKept(a, nest, line)
    BY DEF Follows
  <2> QED
    BY <1>3, <2>1 DEF LineKept
<1> QED
  BY <1>7, <1>8, <1>9, <1>10, <1>11, HeldFollows

(* In a variable, where the stack has a symbol more. *)
LEMMA Deeper ==
  ASSUME NEW a, Scoped(a), NEW p \in 1 .. Len(a), NEW nest, NEW c, NEW stack, NEW st, NEW line,
         Follows(a, p, nest, c, stack, st, line), ~Flat(a, p)
  PROVE  Len(nest) \in Nat /\ Len(stack) = Len(nest) + 1 /\ IsFcnSeq(stack)
BY LengthOfNest DEF Follows

(* A step inside a variable changes no symbol of the stack but that of the *)
(* variable, and no name in the table.                                     *)
LEMMA DeclaredFollows ==
  ASSUME NEW a, Scoped(a), NEW p \in 2 .. Len(a), NEW nest, NEW c, NEW stack, NEW st, NEW line,
         Follows(a, p, nest, c, stack, st, line), ~Flat(a, p),
         InScopes(a, p + 1) = InScopes(a, p), a[p].tag # "Variable",
         ~(p \in Opened(a) /\ IsElseIf(a, p)),
         NEW s, NEW stack2,
         (stack2 = stack /\ s = stack[Len(stack)]) \/ stack2 = [stack EXCEPT ![Len(stack)] = s],
         \A v \in Opened(a) : InVar(a, v, p) => Declared(a, v, p + 1, s, st.ref),
         NEW st2, IsTable(st), SameNames(st, st2)
  PROVE  Follows(a, p + 1, nest, c, stack2, st2, line)
<1> DEFINE n == Len(nest)
<1>1. Bracketing(a) /\ p \in 1 .. Len(a) /\ p \in Nat
  BY ScopedBrackets DEF Bracketing
<1>2. Held(a, p, nest, c, stack, st) /\ \A k \in 1 .. n : nest[k] \in InScopes(a, p)
  BY FollowsHeld
<1>3. n \in Nat /\ Len(stack) = n + 1 /\ IsFcnSeq(stack) /\ Len(stack) > 0
  BY <1>1, Deeper
<1>4. Held(a, p + 1, nest, c, stack, st2) /\ st2.ref = st.ref
  BY <1>1, <1>2, HeldOn, HeldSameNames DEF SameNames
<1>5. /\ IsFcnSeq(stack2) /\ Len(stack2) = n + 1 /\ stack2[Len(stack2)] = s
      /\ \A k \in 1 .. n : stack2[k] = stack[k]
  <2>1. CASE stack2 = stack /\ s = stack[Len(stack)]
    BY <1>3, <2>1
  <2>2. CASE stack2 = [stack EXCEPT ![Len(stack)] = s]
    <3>1. IsFcnSeq(stack2) /\ Len(stack2) = Len(stack)
      BY <1>3, <2>2, Replaced
    <3>2. \A i \in 1 .. Len(stack) : stack2[i] = IF i = Len(stack) THEN s ELSE stack[i]
      BY <1>3, <2>2, Replaced
    <3> QED
      BY <1>3, <3>1, <3>2
  <2> QED
    BY <2>1, <2>2
<1>6. Symbols(a, p + 1, nest, c, stack2)
  BY <1>4, <1>5 DEF Held, Symbols
<1>7. \A v : InVar(a, v, p + 1) <=> InVar(a, v, p)
  BY <1>1, StillIn
<1>8. ~Flat(a, p + 1)
  BY <1>7 DEF Flat
<1>9. \A v \in Opened(a) : InVar(a, v, p + 1) =>
        Declared(a, v, p + 1, stack2[Len(stack2)], st2.ref) /\ ScopeAround(a, v) = Innermost(nest)
  BY <1>4, <1>5, <1>7 DEF Follows
<1>10. Nest(a, p + 1, nest)
  BY NestStays DEF Follows
<1>11. Len(stack2) = Len(nest) + IF Flat(a, p + 1) THEN 0 ELSE 1
  BY <1>5, <1>8
<1> QED
  BY <1>4, <1>5, <1>6, <1>8, <1>9, <1>10, <1>11 DEF Follows, Held

(* A variable is entered. *)
LEMMA VariableFollows ==
  ASSUME NEW a, Scoped(a), NEW p \in 2 .. Len(a), NEW nest, NEW c, NEW stack, NEW st, NEW line,
         Follows(a, p, nest, c, stack, st, line), Flat(a, p),
         p \in Opened(a), a[p].tag = "Variable",
         NEW s, IsSymbol(s), s.ident = Name(a[p].name), s.scope = st.ref, s.kind.tag = "none",
         NEW line2
  PROVE  Follows(a, p + 1, nest, c, Append(stack, s), st, line2)
<1> DEFINE n == Len(nest)
           stack2 == Append(stack, s)
<1>1. Bracketing(a) /\ p \in 1 .. Len(a) /\ p \in Nat
  BY ScopedBrackets DEF Bracketing
<1>2. Held(a, p, nest, c, stack, st) /\ \A k \in 1 .. n : nest[k] \in InScopes(a, p)
  BY FollowsHeld
<1>3. ~IsElseIf(a, p) /\ ~IsScope(a, p)
  BY DEF IsElseIf, IsScope, IsElse, LoopTags
<1>4. Held(a, p + 1, nest, c, stack, st)
  BY <1>1, <1>2, <1>3, HeldOn
<1>5. n \in Nat /\ Len(stack) = n /\ IsFcnSeq(stack)
  BY <1>2 DEF Follows, Held
<1>6. /\ IsFcnSeq(stack2) /\ Len(stack2) = n + 1 /\ stack2[n + 1] = s
      /\ \A k \in 1 .. n : stack2[k] = stack[k]
  BY <1>5, Appended
<1> HIDE DEF stack2
<1>7. Symbols(a, p + 1, nest, c, stack2)
  BY <1>4, <1>6 DEF Held, Symbols
<1>8. InVar(a, p, p + 1)
  <2>1. CloseOf(a, p) \in Nat /\ p < CloseOf(a, p)
    BY <1>1 DEF Bracketing
  <2> QED
    BY <1>1, <2>1 DEF InVar
<1>9. ASSUME NEW v \in Opened(a), InVar(a, v, p + 1) PROVE v = p
  <2>1. ~InVar(a, v, p)
    BY DEF Flat
  <2>2. v \in Nat /\ CloseOf(a, v) \in Nat /\ v < CloseOf(a, v)
    BY <1>1 DEF Bracketing
  <2> QED
    BY <1>1, <1>9, <2>1, <2>2 DEF InVar
<1>10. Declared(a, p, p + 1, s, st.ref)
  <2>1. ~(p + 1 > p + 1)
    BY <1>1
  <2> QED
    BY <2>1 DEF Declared
<1>11. ScopeAround(a, p) = Innermost(nest)
  BY InnermostIs DEF Follows
<1>12. ~Flat(a, p + 1)
  BY <1>8 DEF Flat
<1>13. InScopes(a, p + 1) = InScopes(a, p)
  BY <1>3, NotAScope
<1>14. Nest(a, p + 1, nest)
  BY <1>13, NestStays DEF Follows
<1>15. Len(stack2) = Len(nest) + IF Flat(a, p + 1) THEN 0 ELSE 1
  BY <1>6, <1>12
<1>16. \A v \in Opened(a) : InVar(a, v, p + 1) =>
         Declared(a, v, p + 1, stack2[Len(stack2)], st.ref) /\ ScopeAround(a, v) = Innermost(nest)
  BY <1>6, <1>9, <1>10, <1>11
<1>17. Follows(a, p + 1, nest, c, stack2, st, line2)
  BY <1>4, <1>6, <1>7, <1>12, <1>14, <1>15, <1>16 DEF Follows, Held
<1> QED
  BY <1>17 DEF stack2

(* The variable that ends. *)
LEMMA VariableEnds ==
  ASSUME NEW a, Scoped(a), NEW v \in Opened(a), a[v].tag = "Variable"
  PROVE  /\ InVar(a, v, CloseOf(a, v)) /\ CloseOf(a, v) \in 2 .. Len(a)
         /\ Flat(a, CloseOf(a, v) + 1)
         /\ InScopes(a, CloseOf(a, v) + 1) = InScopes(a, CloseOf(a, v))
<1> DEFINE p == CloseOf(a, v)
<1>1. Bracketing(a)
  BY ScopedBrackets
<1>2. /\ p \in 1 .. Len(a) /\ v < p /\ p \notin Opened(a) /\ a[p].tag = "Variable" /\ v \in Nat /\ v >= 1
      /\ Len(a) \in Nat
  BY <1>1 DEF Bracketing
<1>3. InVar(a, v, p) /\ p \in 2 .. Len(a)
  BY <1>2 DEF InVar
<1>4. InScopes(a, p + 1) = InScopes(a, p)
  BY <1>2, NoScopeEnds DEF ClosingTags, LoopTags
<1>5. ASSUME NEW u \in Opened(a), InVar(a, u, p + 1) PROVE FALSE
  <2>1. u \in Nat /\ CloseOf(a, u) \in Nat /\ p \in Nat /\ u < CloseOf(a, u)
    BY <1>1, <1>2 DEF Bracketing
  <2>2. a[u].tag = "Variable" /\ u < p + 1 /\ p + 1 <= CloseOf(a, u)
    BY <1>5 DEF InVar
  <2>3. u < p /\ p < CloseOf(a, u)
    BY <1>2, <2>1, <2>2
  <2>4. CASE u < v
    <3>1. v < CloseOf(a, u)
      BY <1>2, <2>1, <2>3
    <3> QED
      BY <2>2, <2>4, <3>1, StandsInVariable
  <2>5. CASE v < u
    BY <2>2, <2>3, <2>5, StandsInVariable
  <2>6. CASE v = u
    BY <2>1, <2>3, <2>6
  <2> QED
    BY <1>2, <2>1, <2>4, <2>5, <2>6
<1>6. Flat(a, p + 1)
  BY <1>5 DEF Flat
<1> QED
  BY <1>3, <1>4, <1>6

(* The end of a variable enters its name and takes its symbol off. *)
LEMMA VariableLeft ==
  ASSUME NEW a, Scoped(a), NEW v \in Opened(a), a[v].tag = "Variable",
         NEW p, p = CloseOf(a, v), NEW nest, NEW c, NEW stack, NEW st, NEW line, IsTable(st),
         Follows(a, p, nest, c, stack, st, line), NEW s, s = stack[Len(stack)]
  PROVE  /\ IsSymbol(s) /\ ~Found(Find(st, s.scope, s.ident))
         /\ Follows(a, p + 1, nest, c, Front(stack), AddEntry(st, s.scope, s.ident, s), 0)
<1> DEFINE n == Len(nest)
           stack2 == Front(stack)
<1>1. /\ InVar(a, v, p) /\ p \in 2 .. Len(a) /\ Flat(a, p + 1)
      /\ InScopes(a, p + 1) = InScopes(a, p) /\ p \in 1 .. Len(a)
  BY VariableEnds, ScopedBrackets DEF Bracketing
<1>2. Bracketing(a) /\ p \notin Opened(a) /\ p \in Nat
  <2>1. Bracketing(a)
    BY ScopedBrackets
  <2>2. CloseOf(a, v) \in Nat /\ CloseOf(a, v) \notin Opened(a)
    BY <2>1, ClosingNode
  <2> QED
    BY <2>1, <2>2
<1>3. ~Flat(a, p)
  BY <1>1 DEF Flat
<1>4. n \in Nat /\ Len(stack) = n + 1 /\ IsFcnSeq(stack)
  BY <1>1, <1>3, Deeper
<1>5. n > 0
  BY <1>1, ModuleIsFirst DEF Follows
<1>6. Declared(a, v, p, s, st.ref) /\ ScopeAround(a, v) = nest[n]
  BY <1>1, <1>5 DEF Follows, Innermost
<1>7. s.scope = c[n] /\ s.ident = Name(a[v].name) /\ IsSymbol(s) /\ st.ref = c[n]
  BY <1>6 DEF Declared, Follows
<1>8. Held(a, p, nest, c, stack, st) /\ \A k \in 1 .. n : nest[k] \in InScopes(a, p)
  BY FollowsHeld
<1>9. NameOf(a, v) = Name(a[v].name) /\ Name(a[v].name) \in NamesMade(a, v)
  <2>1. NameOf(a, v) = Name(a[v].name)
    BY DEF NameOf
  <2>2. NamesMade(a, v) = {Name(a[v].name)}
    BY DEF NamesMade, LoopTags
  <2> QED
    BY <2>1, <2>2
<1>10. ~Found(Find(st, c[n], NameOf(a, v)))
  <2>1. n \in 0 .. n
    BY <1>4
  <2> QED
    BY <1>8, <2>1, NameIsNew
<1>11. Held(a, p + 1, nest, c, stack, st)
  BY <1>1, <1>2, <1>8, HeldOn
<1>12. MadeBy(a, v, p + 1) /\ MadeIn(a, v) = nest[n]
  <2>1. v \in Nat /\ v < p
    BY <1>2 DEF Bracketing
  <2>2. ~IsElseIf(a, v)
    BY DEF IsElseIf
  <2> QED
    BY <1>2, <1>6, <2>1, <2>2 DEF MadeBy, MadeIn
<1>13. Held(a, p + 1, nest, c, stack, AddEntry(st, c[n], s.ident, s))
  BY <1>5, <1>7, <1>9, <1>11, <1>12, HeldAdds
<1>14. IsFcnSeq(stack2) /\ Len(stack2) = n /\ \A k \in 1 .. n : stack2[k] = stack[k]
  <2>1. Len(stack) > 0 /\ Len(stack) - 1 = n
    BY <1>4
  <2> QED
    BY <1>4, <2>1, Fronted
<1> HIDE DEF stack2
<1>15. Held(a, p + 1, nest, c, stack2, AddEntry(st, c[n], s.ident, s)) /\ Balanced(nest, stack2)
  BY <1>13, <1>14 DEF Held, Symbols, Balanced
<1>16. Nest(a, p + 1, nest)
  BY <1>1, NestStays DEF Follows
<1>17. LineKept(a, nest, 0)
  BY DEF LineKept
<1>18. Follows(a, p + 1, nest, c, stack2, AddEntry(st, c[n], s.ident, s), 0)
  BY <1>1, <1>15, <1>16, <1>17, HeldFollows
<1> QED
  BY <1>7, <1>9, <1>10, <1>18 DEF stack2

(***************************************************************************)
(* The steps that open a scope, and those that leave one or two.           *)
(***************************************************************************)
(* The last places of a sequence. *)
LEMMA LastPlaces ==
  ASSUME NEW i \in Nat
  PROVE  /\ i > 0 /\ i # 1 => i > 1
         /\ i > 1 => i \in 1 .. i /\ i # 1 /\ i > 0 /\ i - 1 \in 1 .. i
         /\ i > 1 /\ i - 1 # 1 => i > 2
OBVIOUS

(* A scope is entered, the scope z of the table. *)
OpensScope(st, su, z) ==
  /\ z \in Nat \ {0} /\ \A i \in DOMAIN st.lut : i \in Nat /\ i < z
  /\ DOMAIN su.lut = DOMAIN st.lut \cup {z} /\ su.ref = z
  /\ \A i \in DOMAIN st.lut : su.lut[i] = st.lut[i]
  /\ su.lut[z].parent = st.ref /\ DOMAIN su.lut[z].entries = {}

(* A scope is opened in the table and its symbol pushed. *)
LEMMA HeldOpens ==
  ASSUME NEW a, NEW p, NEW nest, NEW c, NEW stack, NEW st, IsTable(st),
         Held(a, p, nest, c, stack, st), Balanced(nest, stack),
         NEW s, NEW su, NEW z, OpensScope(st, su, z),
         NEW sym, StandsFor(a, p, s, sym), sym.kind.lut = z, sym.scope = st.ref
  PROVE  \E c2 : /\ Held(a, p, Append(nest, s), c2, Append(stack, sym), su)
                 /\ Balanced(Append(nest, s), Append(stack, sym))
<1> DEFINE n == Len(nest)
           m == Append(nest, s)
           stack2 == Append(stack, sym)
           c2 == [k \in 0 .. n + 1 |-> IF k = n + 1 THEN z ELSE c[k]]
<1>1. n \in Nat /\ IsFcnSeq(nest) /\ IsFcnSeq(stack) /\ Len(stack) = n
  BY DEF Held, Balanced
<1>2. /\ IsFcnSeq(m) /\ Len(m) = n + 1 /\ m[n + 1] = s /\ \A k \in 1 .. n : m[k] = nest[k]
  BY <1>1, Appended
<1>3. /\ IsFcnSeq(stack2) /\ Len(stack2) = n + 1 /\ stack2[n + 1] = sym
      /\ \A k \in 1 .. n : stack2[k] = stack[k]
  BY <1>1, Appended
<1>4. c2[n + 1] = z /\ \A k \in 0 .. n : c2[k] = c[k]
  BY <1>1
<1> HIDE DEF m, stack2, c2
<1>5. /\ z \in Nat \ {0} /\ DOMAIN su.lut = DOMAIN st.lut \cup {z} /\ su.ref = z
      /\ \A i \in DOMAIN st.lut : i < z /\ su.lut[i] = st.lut[i]
      /\ su.lut[z].parent = st.ref /\ DOMAIN su.lut[z].entries = {}
  BY DEF OpensScope
<1>6. \A k \in 0 .. n : c[k] \in DOMAIN st.lut /\ c[k] \in Nat
  <2>1. \A k \in 0 .. n : k = 0 \/ k \in 1 .. n
    BY <1>1
  <2>2. 0 \in DOMAIN st.lut
    BY ParentsAre
  <2> QED
    BY <2>1, <2>2 DEF Held, Links, Chain
<1>7. \A k \in 1 .. n + 1 : 
        \/ k = n + 1 /\ k - 1 = n
        \/ k \in 1 .. n /\ k - 1 \in 0 .. n /\ k \in 0 .. n
  BY <1>1
<1>8. st.ref = c[n] /\ n \in 0 .. n
  BY <1>1 DEF Held
<1>9. Chain(su, c2, n + 1)
  <2>1. c2[0] = 0
    BY <1>1, <1>4 DEF Held, Links, Chain
  <2>2. ASSUME NEW k \in 1 .. n
        PROVE  c2[k] \in DOMAIN su.lut \ {0} /\ su.lut[c2[k]].parent = c2[k - 1]
    <3>1. c2[k] = c[k] /\ c2[k - 1] = c[k - 1]
      BY <1>1, <1>4
    <3>2. c[k] \in DOMAIN st.lut \ {0} /\ st.lut[c[k]].parent = c[k - 1]
      BY DEF Held, Links, Chain
    <3> QED
      BY <1>5, <3>1, <3>2
  <2>3. c2[n + 1] \in DOMAIN su.lut \ {0} /\ su.lut[c2[n + 1]].parent = c2[n]
    BY <1>4, <1>5, <1>8
  <2>4. \A k \in 1 .. n + 1 : c2[k] \in DOMAIN su.lut \ {0} /\ su.lut[c2[k]].parent = c2[k - 1]
    BY <1>7, <2>2, <2>3
  <2> QED
    BY <2>1, <2>4 DEF Chain
<1>10. Links(su, c2, n + 1)
  <2>1. \A k \in 0 .. n + 1 : k \in 0 .. n \/ k = n + 1
    BY <1>1
  <2>2. \A k \in 0 .. n + 1 : c2[k] \in Nat
    BY <1>4, <1>5, <1>6, <2>1
  <2>3. ASSUME NEW j \in 0 .. n + 1, NEW k \in 0 .. n + 1, j < k PROVE c2[j] < c2[k]
    <3>1. j \in 0 .. n
      BY <1>1, <2>3
    <3>2. CASE k = n + 1
      BY <1>4, <1>5, <1>6, <3>1, <3>2
    <3>3. CASE k \in 0 .. n
      <4>1. c[j] < c[k]
        BY <2>3, <3>1, <3>3 DEF Held, Links
      <4> QED
        BY <1>4, <3>1, <3>3, <4>1
    <3> QED
      BY <2>1, <3>2, <3>3
  <2> QED
    BY <1>9, <2>2, <2>3 DEF Links
<1>11. Symbols(a, p, m, c2, stack2)
  <2>1. ASSUME NEW k \in 1 .. n
        PROVE  /\ StandsFor(a, p, m[k], stack2[k])
               /\ stack2[k].kind.lut = c2[k] /\ stack2[k].scope = c2[k - 1]
    <3>1. c2[k] = c[k] /\ c2[k - 1] = c[k - 1] /\ m[k] = nest[k] /\ stack2[k] = stack[k]
      BY <1>1, <1>2, <1>3, <1>4
    <3> QED
      BY <3>1 DEF Held, Symbols
  <2>2. /\ StandsFor(a, p, m[n + 1], stack2[n + 1])
        /\ stack2[n + 1].kind.lut = c2[n + 1] /\ stack2[n + 1].scope = c2[n]
    BY <1>2, <1>3, <1>4, <1>8
  <2>3. \A k \in 1 .. n + 1 : /\ StandsFor(a, p, m[k], stack2[k])
                              /\ stack2[k].kind.lut = c2[k] /\ stack2[k].scope = c2[k - 1]
    BY <1>7, <2>1, <2>2
  <2> QED
    BY <1>2, <2>3 DEF Symbols
<1>12. Known(a, p, m, c2, su)
  <2>1. ASSUME NEW k \in 1 .. n + 1, NEW x \in DOMAIN su.lut[c2[k]].entries
        PROVE  \E d \in Opened(a) : MadeIn(a, d) = m[k] /\ MadeBy(a, d, p) /\ x \in NamesMade(a, d)
    <3>1. k # n + 1
      BY <1>4, <1>5, <2>1
    <3>2. k \in 1 .. n /\ k \in 0 .. n
      BY <1>7, <3>1
    <3>3. x \in DOMAIN st.lut[c[k]].entries
      BY <1>4, <1>5, <1>6, <2>1, <3>2
    <3>4. \E d \in Opened(a) : MadeIn(a, d) = nest[k] /\ MadeBy(a, d, p) /\ x \in NamesMade(a, d)
      BY <3>2, <3>3 DEF Held, Known
    <3> QED
      BY <1>2, <3>2, <3>4
  <2>2. DOMAIN su.lut[0].entries = DOMAIN RootEntries
    <3>1. su.lut[0] = st.lut[0]
      BY <1>5, ParentsAre
    <3> QED
      BY <3>1 DEF Held, Known
  <2> QED
    BY <1>2, <2>1, <2>2 DEF Known
<1>13. Held(a, p, m, c2, stack2, su)
  <2>1. Len(m) \in Nat /\ su.ref = c2[Len(m)]
    BY <1>1, <1>2, <1>4, <1>5
  <2> QED
    BY <1>2, <1>10, <1>11, <1>12, <2>1 DEF Held
<1>14. Balanced(m, stack2)
  BY <1>2, <1>3 DEF Balanced
<1> QED
  BY <1>13, <1>14 DEF m, stack2

(* So the entry of a node that opens a scope keeps Following. *)
LEMMA ScopeEnters ==
  ASSUME NEW a, Scoped(a), NEW p \in Opened(a), IsScope(a, p), a[p].tag # "Variable",
         NEW nest, NEW c, NEW stack, NEW st, NEW line, IsTable(st),
         Follows(a, p, nest, c, stack, st, line), Flat(a, p),
         NEW su, NEW z, OpensScope(st, su, z),
         NEW sym, StandsFor(a, p + 1, p, sym), sym.kind.lut = z, sym.scope = st.ref,
         NEW line2, a[p].tag \in {"Conditional", "Block"} => line2 \in {0, a[p].line}
  PROVE  \E c2 : Follows(a, p + 1, Append(nest, p), c2, Append(stack, sym), su, line2)
<1> DEFINE m == Append(nest, p)
           stack2 == Append(stack, sym)
<1>1. p \in 1 .. Len(a) /\ p \in Nat
  BY ScopedBrackets DEF Bracketing
<1>2. Held(a, p, nest, c, stack, st) /\ \A k \in 1 .. Len(nest) : nest[k] \in InScopes(a, p)
  BY FollowsHeld
<1>3. ~IsElseIf(a, p)
  BY DEF IsScope, IsElseIf, IsElse, LoopTags
<1>4. Held(a, p + 1, nest, c, stack, st)
  BY <1>1, <1>2, <1>3, HeldOn
<1>5. Balanced(nest, stack)
  <2>1. Len(stack) = Len(nest) + 0 /\ IsFcnSeq(stack)
    BY DEF Follows
  <2> QED
    BY <1>2, <2>1 DEF Held, Balanced
<1>6. PICK c2 : Held(a, p + 1, m, c2, stack2, su) /\ Balanced(m, stack2)
  BY <1>4, <1>5, HeldOpens
<1>7. Nest(a, p + 1, m)
  BY NestOpens DEF Follows
<1>8. Flat(a, p + 1)
  BY <1>1, StillFlat
<1>9. LineKept(a, m, line2)
  <2>1. m[Len(m)] = p
    BY <1>2, Appended DEF Held
  <2> QED
    BY <2>1 DEF LineKept
<1> HIDE DEF m, stack2
<1>10. Follows(a, p + 1, m, c2, stack2, su, line2)
  BY <1>6, <1>7, <1>8, <1>9, HeldFollows
<1> QED
  BY <1>10 DEF m, stack2

(* A scope ends, or an else-block and the conditional around it. *)
LEMMA ScopeLeaves ==
  ASSUME NEW a, Scoped(a), NEW p \in 2 .. Len(a), p \notin Opened(a), a[p].tag # "Variable",
         NEW nest, NEW c, NEW stack, NEW st, NEW line, IsTable(st),
         Follows(a, p, nest, c, stack, st, line), Flat(a, p),
         NEW t \in InScopes(a, p), InScopes(a, p + 1) = InScopes(a, p) \ {t},
         \A s \in InScopes(a, p) : s <= t, a[t].tag # "Module",
         NEW d \in Opened(a), MadeIn(a, d) = ScopeAround(a, t), MadeBy(a, d, p + 1),
         NEW x \in NamesMade(a, d), NEW s
  PROVE  /\ Len(stack) = Len(nest) /\ Len(nest) > 1 /\ nest[Len(nest)] = t
         /\ stack[Len(stack)].scope = c[Len(nest) - 1]
         /\ Follows(a, p + 1, Front(nest), c, Front(stack),
                    PopScope(AddEntry(st, stack[Len(stack)].scope, x, s)), 0)
<1> DEFINE n == Len(nest)
<1>1. p \in 1 .. Len(a) /\ p \in Nat
  BY ScopedBrackets DEF Bracketing
<1>2. Held(a, p, nest, c, stack, st) /\ \A k \in 1 .. n : nest[k] \in InScopes(a, p)
  BY FollowsHeld
<1>3. Nested(a, InScopes(a, p), nest)
  BY DEF Follows, Nest
<1>4. InScopes(a, p) \subseteq Nat
  BY InScopesAreNodes
<1>5. n > 0 /\ nest[n] = t /\ Nested(a, InScopes(a, p) \ {t}, Front(nest))
  BY <1>3, <1>4, NestCloses
<1>6. n \in Nat /\ n > 1
  <2>1. n \in Nat /\ n \in 1 .. n
    BY <1>2, <1>5 DEF Held
  <2>2. Nest(a, p, nest)
    BY DEF Follows
  <2>3. n # 1
    BY <1>5, <2>1, <2>2, ModuleIsFirst
  <2> QED
    BY <1>5, <2>1, <2>3, LastPlaces
<1>7. Held(a, p + 1, nest, c, stack, st)
  BY <1>1, <1>2, HeldOn
<1>8. Balanced(nest, stack)
  <2>1. Len(stack) = Len(nest) + 0 /\ IsFcnSeq(stack)
    BY DEF Follows
  <2> QED
    BY <1>2, <2>1 DEF Held, Balanced
<1>9. MadeIn(a, d) = nest[n - 1]
  <2>1. n \in 1 .. n /\ n # 1
    BY <1>6, LastPlaces
  <2>2. ScopeAround(a, nest[n]) = nest[n - 1]
    BY <1>3, <2>1 DEF Nested
  <2> QED
    BY <1>5, <2>2
<1>10. Len(stack) = n /\ stack[n].scope = c[n - 1]
  <2>1. n \in 1 .. n
    BY <1>6
  <2> QED
    BY <1>2, <1>8, <2>1 DEF Balanced, Held, Symbols
<1>11. /\ Held(a, p + 1, Front(nest), c, Front(stack), PopScope(AddEntry(st, c[n - 1], x, s)))
       /\ Balanced(Front(nest), Front(stack))
  BY <1>6, <1>7, <1>8, <1>9, HeldDrops
<1>12. Nest(a, p + 1, Front(nest))
  BY <1>5 DEF Nest
<1>13. Flat(a, p + 1)
  BY <1>1, StillFlat
<1>14. LineKept(a, Front(nest), 0)
  BY DEF LineKept
<1>15. Follows(a, p + 1, Front(nest), c, Front(stack), PopScope(AddEntry(st, c[n - 1], x, s)), 0)
  BY <1>11, <1>12, <1>13, <1>14, HeldFollows
<1> QED
  BY <1>5, <1>6, <1>10, <1>15

(* The two scopes that a conditional with an else-block leaves. *)
TwoScopes(a, p, nest, c, stack, st, line, b, t, d1, x1, s1, su, d2, x2) ==
  /\ Scoped(a) /\ p \in 2 .. Len(a) /\ p \notin Opened(a) /\ a[p].tag # "Variable"
  /\ IsTable(st) /\ Follows(a, p, nest, c, stack, st, line) /\ Flat(a, p)
  /\ b \in InScopes(a, p) /\ t \in InScopes(a, p) /\ t # b
  /\ InScopes(a, p + 1) = (InScopes(a, p) \ {b}) \ {t}
  /\ \A s \in InScopes(a, p) : s <= b /\ (s # b => s <= t)
  /\ a[t].tag # "Module"
  /\ d1 \in Opened(a) /\ MadeIn(a, d1) = ScopeAround(a, b) /\ MadeBy(a, d1, p) /\ x1 \in NamesMade(a, d1)
  /\ su = PopScope(AddEntry(st, stack[Len(stack)].scope, x1, s1))
  /\ d2 \in Opened(a) /\ MadeIn(a, d2) = ScopeAround(a, t) /\ MadeBy(a, d2, p + 1) /\ x2 \in NamesMade(a, d2)

(* The end of a conditional with an else-block: two symbols are taken      *)
(* off, two names entered, two scopes left.                                *)
LEMMA TwoLeave ==
  ASSUME NEW a, NEW p, NEW nest, NEW c, NEW stack, NEW st, NEW line, NEW b, NEW t, NEW d1, NEW x1, NEW s1,
         NEW su, NEW d2, NEW x2, TwoScopes(a, p, nest, c, stack, st, line, b, t, d1, x1, s1, su, d2, x2)
  PROVE  LET s == stack[Len(stack) - 1]
         IN  /\ Len(stack) = Len(nest) /\ Len(nest) > 2 /\ Last(Front(stack)) = s
             /\ nest[Len(nest)] = b /\ nest[Len(nest) - 1] = t
             /\ s.scope = c[Len(nest) - 2] /\ StandsFor(a, p, t, s)
             /\ IsTable(su) /\ Held(a, p, Front(nest), c, Front(stack), su)
             /\ \A s2 : Follows(a, p + 1, Front(Front(nest)), c, Front(Front(stack)),
                                PopScope(AddEntry(su, s.scope, x2, s2)), 0)
<1> DEFINE n == Len(nest)
           m == Front(nest)
           stack2 == Front(stack)
<1>1. /\ Scoped(a) /\ p \in 2 .. Len(a) /\ p \notin Opened(a) /\ a[p].tag # "Variable"
      /\ IsTable(st) /\ Follows(a, p, nest, c, stack, st, line) /\ Flat(a, p)
      /\ b \in InScopes(a, p) /\ t \in InScopes(a, p) /\ t # b
      /\ d1 \in Opened(a) /\ MadeIn(a, d1) = ScopeAround(a, b) /\ MadeBy(a, d1, p) /\ x1 \in NamesMade(a, d1)
      /\ su = PopScope(AddEntry(st, stack[Len(stack)].scope, x1, s1))
      /\ d2 \in Opened(a) /\ MadeIn(a, d2) = ScopeAround(a, t) /\ MadeBy(a, d2, p + 1)
      /\ x2 \in NamesMade(a, d2) /\ a[t].tag # "Module"
  BY DEF TwoScopes
<1>2. /\ InScopes(a, p + 1) = (InScopes(a, p) \ {b}) \ {t}
       /\ \A s \in InScopes(a, p) : s <= b /\ (s # b => s <= t)
  BY DEF TwoScopes
<1>3. p \in 1 .. Len(a) /\ p \in Nat
  BY <1>1, ScopedBrackets DEF Bracketing
<1>4. Held(a, p, nest, c, stack, st) /\ \A k \in 1 .. n : nest[k] \in InScopes(a, p)
  BY <1>1, FollowsHeld
<1>5. Nested(a, InScopes(a, p), nest)
  BY <1>1 DEF Follows, Nest
<1>6. InScopes(a, p) \subseteq Nat /\ InScopes(a, p) \ {b} \subseteq Nat
  BY <1>1, InScopesAreNodes
<1>7. n > 0 /\ nest[n] = b /\ Nested(a, InScopes(a, p) \ {b}, m)
  BY <1>1, <1>2, <1>5, <1>6, NestCloses
<1>8. Len(m) > 0 /\ m[Len(m)] = t /\ Nested(a, (InScopes(a, p) \ {b}) \ {t}, Front(m))
  BY <1>1, <1>2, <1>6, <1>7, NestCloses
<1>9. n \in Nat /\ IsFcnSeq(nest)
  BY <1>1, <1>4 DEF Held
<1>10. Len(m) = n - 1 /\ IsFcnSeq(m) /\ \A k \in 1 .. n - 1 : m[k] = nest[k]
  BY <1>1, <1>7, <1>9, Fronted
<1>11. n > 1 /\ nest[n - 1] = t /\ n - 1 \in 1 .. n
  <2>1. n - 1 > 0
    BY <1>8, <1>10
  <2>2. n - 1 \in 1 .. n - 1 /\ n - 1 \in 1 .. n
    BY <1>9, <2>1
  <2> QED
    BY <1>1, <1>8, <1>9, <1>10, <2>1, <2>2
<1>12. n > 2
  <2>1. Nest(a, p, nest)
    BY <1>1 DEF Follows
  <2>2. \A k \in 1 .. n : k = 1 => a[nest[k]].tag = "Module"
    BY <1>1, <2>1, ModuleIsFirst
  <2>3. n - 1 # 1
    BY <1>1, <1>11, <2>2
  <2> QED
    BY <1>9, <1>11, <2>3, LastPlaces
<1>13. Balanced(nest, stack)
  <2>1. Len(stack) = Len(nest) + 0 /\ IsFcnSeq(stack)
    BY <1>1 DEF Follows
  <2> QED
    BY <1>1, <1>4, <2>1 DEF Held, Balanced
<1>14. MadeIn(a, d1) = nest[n - 1]
  <2>1. n \in 1 .. n /\ n # 1
    BY <1>9, <1>11, LastPlaces
  <2>2. ScopeAround(a, nest[n]) = nest[n - 1]
    BY <1>1, <1>5, <2>1 DEF Nested
  <2> QED
    BY <1>1, <1>7, <2>2
<1>15. Len(stack) = n /\ stack[n].scope = c[n - 1]
  <2>1. n \in 1 .. n
    BY <1>9, <1>11, LastPlaces
  <2> QED
    BY <1>1, <1>4, <1>13, <2>1 DEF Balanced, Held, Symbols
<1>16. Held(a, p, m, c, stack2, su) /\ Balanced(m, stack2)
  BY <1>1, <1>4, <1>11, <1>13, <1>14, <1>15, HeldDrops
<1>17. IsTable(su)
  BY <1>1, LeaveGrows DEF Grows
<1>18. MadeIn(a, d2) = m[n - 2] /\ n - 2 = Len(m) - 1
  <2>1. n - 1 \in 1 .. Len(m) /\ n - 1 # 1 /\ (n - 1) - 1 = n - 2 /\ Len(m) - 1 = n - 2
    BY <1>9, <1>10, <1>12
  <2>2. ScopeAround(a, m[n - 1]) = m[n - 2]
    BY <1>1, <1>7, <2>1 DEF Nested
  <2> QED
    BY <1>1, <1>8, <1>10, <2>1, <2>2
<1>19. /\ \A k \in 1 .. n - 1 : stack2[k] = stack[k]
       /\ Len(stack2) = n - 1 /\ stack2[n - 1] = stack[n - 1]
  <2>1. Len(stack) > 0 /\ IsFcnSeq(stack) /\ Len(stack) \in Nat
    BY <1>1, <1>9, <1>12, <1>13, <1>15 DEF Balanced
  <2>2. /\ \A k \in 1 .. n - 1 : stack2[k] = stack[k]
        /\ Len(stack2) = n - 1
    BY <1>1, <1>15, <2>1, Fronted
  <2>3. n - 1 \in 1 .. n - 1
    BY <1>9, <1>12
  <2> QED
    BY <1>1, <2>2, <2>3
<1>20. Last(stack2) = stack[n - 1]
  BY <1>1, <1>9, <1>12, <1>16, <1>19, Fronted DEF Balanced
<1>21. stack[n - 1].scope = c[n - 2] /\ StandsFor(a, p, t, stack[n - 1])
  <2>1. (n - 1) - 1 = n - 2
    BY <1>1, <1>9
  <2> QED
    BY <1>1, <1>4, <1>11, <2>1 DEF Held, Symbols
<1>22. \A k \in 1 .. Len(m) : m[k] \in InScopes(a, p)
  BY <1>1, <1>7 DEF Nested
<1> HIDE DEF m, stack2
<1>23. Held(a, p + 1, m, c, stack2, su)
  BY <1>1, <1>3, <1>16, <1>22, HeldOn
<1>24. Len(m) > 1
  BY <1>9, <1>10, <1>12
<1>25. ASSUME NEW s2
       PROVE  /\ Held(a, p + 1, Front(m), c, Front(stack2), PopScope(AddEntry(su, c[n - 2], x2, s2)))
              /\ Balanced(Front(m), Front(stack2))
  BY <1>1, <1>16, <1>17, <1>18, <1>23, <1>24, HeldDrops
<1>26. Nest(a, p + 1, Front(m))
  BY <1>2, <1>8 DEF Nest
<1>27. Flat(a, p + 1)
  BY <1>1, <1>3, StillFlat
<1>28. LineKept(a, Front(m), 0)
  BY DEF LineKept
<1>29. ASSUME NEW s2
       PROVE  Follows(a, p + 1, Front(m), c, Front(stack2), PopScope(AddEntry(su, c[n - 2], x2, s2)), 0)
  BY <1>25, <1>26, <1>27, <1>28, HeldFollows
<1> QED
  BY <1>1, <1>7, <1>11, <1>12, <1>15, <1>16, <1>17, <1>20, <1>21, <1>29 DEF m, stack2

(***************************************************************************)
(* What a step of the first pass does to the stack of symbols.             *)
(***************************************************************************)
Aborts == UNCHANGED <<ast, phase, pos, table, symstack, hasSym, symnode>>
Goes == pos' = pos + 1 /\ UNCHANGED <<ast, phase>>
Skips == Goes /\ UNCHANGED <<table, symstack, hasSym, symnode>>
Marks == Goes /\ SameNames(table, table') /\ UNCHANGED <<symstack, hasSym, symnode>>
Sets(s) ==
  /\ Goes /\ symstack' = [symstack EXCEPT ![Len(symstack)] = s]
  /\ UNCHANGED <<table, hasSym, symnode>>

(* The symbol s in the place of t, the top of the stack. *)
Fit(t, s) ==
  /\ IsSymbol(s) /\ s.ident = t.ident /\ s.scope \in {t.scope, table.ref} /\ s.config = t.config
  /\ t.kind.tag = "array" => s.kind.tag = "array"

(* Expressions change the symbol of a variable only, and what is entered   *)
(* for a name only in one.                                                 *)
Fits ==
  \/ Aborts \/ Skips
  \/ top.kind.tag \notin {"module", "func"} /\ (Marks \/ \E s : Fit(top, s) /\ Sets(s))

(* A symbol with another kind. *)
LEMMA Rekinded ==
  ASSUME NEW t, IsSymbol(t), NEW k
  PROVE  /\ IsSymbol([t EXCEPT !.kind = k]) /\ [t EXCEPT !.kind = k].kind = k
         /\ [t EXCEPT !.kind = k].ident = t.ident /\ [t EXCEPT !.kind = k].scope = t.scope
         /\ [t EXCEPT !.kind = k].config = t.config
BY DEF IsSymbol

(* A change of the kind that fits. *)
LEMMA FitKind ==
  ASSUME NEW t, IsSymbol(t), NEW k, t.kind.tag = "array" => k.tag = "array"
  PROVE  Fit(t, [t EXCEPT !.kind = k])
BY Rekinded DEF Fit

(* A step that sets the top of the stack to a symbol that fits. *)
LEMMA SetTopFits ==
  ASSUME top.kind.tag \notin {"module", "func"}, NEW s, Fit(top, s), NEW o, SetTopAnd(s, o)
  PROVE  Fits
BY DEF Fits, SetTopAnd, GoOn, Sets, Goes

(* Setting the kind of the symbol of a variable. *)
LEMMA SetAny ==
  ASSUME IsSymbol(top), top.kind.tag \notin {"module", "func"}, NEW k, NEW o,
         SetTopAnd([top EXCEPT !.kind = k], o), top.kind.tag = "array" => k.tag = "array"
  PROVE  Fits
BY FitKind, SetTopFits

(* A step that does nothing fits. *)
LEMMA SkipFits == Skip => Fits
BY DEF Fits, Skip, GoOn, Skips, Goes, Tables, sbVars

(* So does one that throws. *)
LEMMA AbortFits == Abort => Fits
BY DEF Fits, Abort, Aborts, Tables, sbVars

(* And one that changes only what a kind refers to. *)
LEMMA AlterFits == ASSUME NEW o, Alter(o) PROVE Fits
BY DEF Fits, Alter, GoOn, Skips, Goes, sbVars

(* The kind of an array the pass builds. *)
LEMMA BuiltArray == New("array").tag = "array"
BY DEF New, Kind

(* Arrays, domains and bracket loops. *)
LEMMA ArraysFit ==
  ASSUME hasSym, IsSymbol(top), top.kind.tag = "module" => node.tag # "BracketLoop",
         EnterArray \/ EnterDomain \/ EnterBracketLoop
  PROVE  Fits
<1>1. tagOf = top.kind.tag
  BY DEF tagOf
<1>2. CASE EnterArray
  <2>1. \/ Abort \/ \E o : Alter(o)
        \/ tagOf = "none" /\ \E o : SetTopAnd([top EXCEPT !.kind = New("array")], o)
    BY <1>2 DEF EnterArray
  <2> QED
    BY <1>1, <2>1, SetAny, BuiltArray, AbortFits, AlterFits
<1>3. CASE EnterDomain
  <2>1. Skip \/ Abort \/ \E o : Alter(o)
    BY <1>3 DEF EnterDomain
  <2> QED
    BY <2>1, SkipFits, AbortFits, AlterFits
<1>4. CASE EnterBracketLoop
  <2>1. node.tag = "BracketLoop"
    BY <1>4 DEF EnterBracketLoop, Enters
  <2>2. \/ Abort \/ \E o : Alter(o)
        \/ tagOf # "func" /\ \E o : SetTopAnd([top EXCEPT !.kind = New("array")], o)
    BY <1>4 DEF EnterBracketLoop
  <2> QED
    BY <1>1, <2>1, <2>2, SetAny, BuiltArray, AbortFits, AlterFits
<1> QED
  BY <1>2, <1>3, <1>4

(* A literal gives a variable its type. *)
LEMMA TypedFits ==
  ASSUME IsSymbol(top), top.kind.tag = "none", NEW k, NEW l,
         SetTop([top EXCEPT !.kind = k, !.literal = l])
  PROVE  Fits
<1> DEFINE u == [top EXCEPT !.kind = k]
           s == [top EXCEPT !.kind = k, !.literal = l]
<1>1. SetTopAnd(s, objects)
  BY DEF SetTop
<1>2. s = [u EXCEPT !.literal = l]
  OBVIOUS
<1> HIDE DEF s
<1>3. IsSymbol(u) /\ u.ident = top.ident /\ u.scope = top.scope /\ u.config = top.config
  BY DEF IsSymbol
<1> HIDE DEF u
<1>4. IsSymbol(s) /\ s.ident = top.ident /\ s.scope = top.scope /\ s.config = top.config
  BY <1>2, <1>3 DEF IsSymbol
<1>5. Fit(top, s)
  BY <1>4 DEF Fit
<1> QED
  BY <1>1, <1>5, SetTopFits

(* Literals other than integers. *)
LEMMA LiteralsFit ==
  ASSUME hasSym, IsSymbol(top), NEW type, Literal(type)
  PROVE  Fits
<1>1. \/ Skip
      \/ top.kind.tag = "none" /\ SetTop([top EXCEPT !.kind = Kind(type), !.literal = pos])
  BY DEF Literal, tagOf
<1> QED
  BY <1>1, TypedFits, SkipFits

(* Integer literals. *)
LEMMA IntegersFit ==
  ASSUME hasSym, IsSymbol(top), EnterIntLiteral
  PROVE  Fits
<1>1. \/ Skip \/ Abort \/ \E o : Alter(o)
      \/ top.kind.tag = "none" /\ SetTop([top EXCEPT !.kind = Kind("int"), !.literal = pos])
  BY DEF EnterIntLiteral, Component, tagOf
<1> QED
  BY <1>1, TypedFits, SkipFits, AbortFits, AlterFits

(* Calls of functions and operators: the entry a call among the elements   *)
(* of an array literal is taken for keeps its name.                        *)
LEMMA CallsFit ==
  ASSUME hasSym, IsSymbol(top), IsTable(table), EnterFnCall \/ EnterOpCall
  PROVE  Fits
<1>1. tagOf = top.kind.tag
  BY DEF tagOf
<1>2. \/ Skip \/ Abort
      \/ tagOf = "none" /\ \E k : SetKind(k)
      \/ tagOf = "array" /\ \E i : CallAsElement(i)
  BY DEF EnterFnCall, EnterOpCall, CallAsValue
<1>3. ASSUME tagOf = "none", NEW k, SetKind(k) PROVE Fits
  <2>1. SetTopAnd([top EXCEPT !.kind = k], objects)
    BY <1>3 DEF SetKind, SetTop
  <2> QED
    BY <1>1, <1>3, <2>1, SetAny
<1>4. ASSUME tagOf = "array", NEW i, CallAsElement(i), ~Skip, ~Abort PROVE Fits
  <2>1. GoOn /\ table' = MarkLiteral(table, calledIn, i, pos) /\ UNCHANGED sbVars
    BY <1>4 DEF CallAsElement
  <2>2. SameNames(table, table')
    BY <2>1, MarkedNames
  <2> QED
    BY <1>1, <1>4, <2>1, <2>2 DEF Fits, Marks, GoOn, Goes, sbVars
<1> QED
  BY <1>2, <1>3, <1>4, SkipFits, AbortFits

(* Identifiers. *)
LEMMA IdentifiersFit ==
  ASSUME hasSym, IsSymbol(top), EnterIdentifier
  PROVE  Fits
<1>1. tagOf = top.kind.tag
  BY DEF tagOf
<1> DEFINE name == Name(node.name)
           f == IF tagOf = "none" THEN FindInto(table, name) ELSE Find(table, top.scope, name)
<1>2. \/ Skip
      \/ tagOf = "none" /\ SetTop([top EXCEPT !.kind = f.kind, !.scope = table.ref])
      \/ tagOf = "array" /\ IdentifierOfArray(f)
      \/ tagOf = "tuple" /\ Component(Arg(f.ident, f.kind))
      \/ tagOf = "func" /\ IdentifierOfFunction(f)
  BY Zenon DEF EnterIdentifier
<1> HIDE DEF f
<1>3. CASE tagOf = "none" /\ SetTop([top EXCEPT !.kind = f.kind, !.scope = table.ref])
  <2> DEFINE s == [top EXCEPT !.kind = f.kind, !.scope = table.ref]
             u == [top EXCEPT !.kind = f.kind]
  <2>1. SetTopAnd(s, objects)
    BY <1>3 DEF SetTop
  <2>2. s = [u EXCEPT !.scope = table.ref]
    OBVIOUS
  <2> HIDE DEF s
  <2>3. IsSymbol(u) /\ u.ident = top.ident /\ u.config = top.config
    BY DEF IsSymbol
  <2> HIDE DEF u
  <2>4. IsSymbol(s) /\ s.ident = top.ident /\ s.scope = table.ref /\ s.config = top.config
    BY <2>2, <2>3 DEF IsSymbol
  <2>5. Fit(top, s)
    BY <1>1, <1>3, <2>4 DEF Fit
  <2> QED
    BY <1>1, <1>3, <2>1, <2>5, SetTopFits
<1>4. CASE tagOf = "array" /\ IdentifierOfArray(f)
  <2> DEFINE s == [top EXCEPT !.scope = table.ref]
  <2>1. Abort \/ (\E o : Alter(o)) \/ \E o : SetTopAnd(s, o)
    BY <1>4 DEF IdentifierOfArray
  <2>2. IsSymbol(s) /\ s.ident = top.ident /\ s.scope = table.ref /\ s.kind = top.kind
        /\ s.config = top.config
    BY DEF IsSymbol
  <2> HIDE DEF s
  <2>3. Fit(top, s)
    BY <2>2 DEF Fit
  <2> QED
    BY <1>1, <1>4, <2>1, <2>3, SetTopFits, AbortFits, AlterFits
<1>5. CASE tagOf = "tuple" /\ Component(Arg(f.ident, f.kind))
  <2>1. Abort \/ \E o : Alter(o)
    BY <1>5 DEF Component
  <2> QED
    BY <2>1, AbortFits, AlterFits
<1>6. CASE tagOf = "func" /\ IdentifierOfFunction(f)
  <2>1. Skip \/ \E o : Alter(o)
    BY <1>6 DEF IdentifierOfFunction
  <2> QED
    BY <2>1, SkipFits, AlterFits
<1> QED
  BY <1>2, <1>3, <1>4, <1>5, <1>6, SkipFits

(* Everything but declarations, bodies, ranges and tuples. *)
Simple ==
  \/ EnterArray \/ EnterDomain \/ EnterBracketLoop \/ EnterIdentifier \/ EnterBoolLiteral
  \/ EnterImagLiteral \/ EnterRealLiteral \/ EnterUintLiteral \/ EnterBytesLiteral
  \/ EnterCStringLiteral \/ EnterStringLiteral \/ EnterIntLiteral \/ EnterFnCall \/ EnterOpCall
  \/ EntersIgnored \/ ExitsOther
SimpleTags ==
  {"Array", "Domain", "BracketLoop", "Identifier", "BoolLiteral", "ImagLiteral", "RealLiteral",
   "UintLiteral", "BytesLiteral", "CStringLiteral", "StringLiteral", "IntLiteral", "FnCall",
   "OpCall"} \cup Ignored

(* So every simple step fits. *)
LEMMA SimpleFits ==
  ASSUME hasSym, IsSymbol(top), IsTable(table), Simple,
         top.kind.tag = "module" => node.tag # "BracketLoop"
  PROVE  Fits
<1>1. CASE EnterArray \/ EnterDomain \/ EnterBracketLoop
  BY <1>1, ArraysFit
<1>2. CASE \/ EnterBoolLiteral \/ EnterImagLiteral \/ EnterRealLiteral \/ EnterUintLiteral
           \/ EnterBytesLiteral \/ EnterCStringLiteral \/ EnterStringLiteral
  BY <1>2, LiteralsFit DEF EnterBoolLiteral, EnterImagLiteral, EnterRealLiteral,
     EnterUintLiteral, EnterBytesLiteral, EnterCStringLiteral, EnterStringLiteral
<1>3. CASE EntersIgnored \/ ExitsOther
  BY <1>3, SkipFits DEF EntersIgnored, ExitsOther
<1> QED
  BY <1>1, <1>2, <1>3, IntegersFit, CallsFit, IdentifiersFit DEF Simple

(***************************************************************************)
(* Which step it is.                                                       *)
(***************************************************************************)
LEMMA EnteredOpen ==
  ASSUME pos \in DOMAIN ast, NEW tag, Enters(tag)
  PROVE  pos \in Opened(ast) /\ node.tag = tag
<1>1. ast[pos].open /\ node.tag = tag
  BY Zenon DEF Enters, node
<1> QED
  BY <1>1, Zenon DEF Opened

(* A step that leaves a node is at the end of one. *)
LEMMA ExitedClosed ==
  ASSUME NEW tag, Exits(tag)
  PROVE  pos \notin Opened(ast) /\ node.tag = tag
<1>1. ~ast[pos].open /\ node.tag = tag
  BY Zenon DEF Exits, node
<1> QED
  BY <1>1, Zenon DEF Opened

(* The ends the pass has no code for. *)
LEMMA ExitsTheRest ==
  ASSUME ExitsOther
  PROVE  /\ pos \notin Opened(ast)
         /\ node.tag \notin {"Range", "Variable", "Block", "Record", "Class"} \cup ClosingTags
<1>1. ~ast[pos].open
  BY Zenon DEF ExitsOther, node
<1>2. pos \notin Opened(ast)
  BY <1>1, Zenon DEF Opened
<1>3. node.tag \notin {"Range", "Variable", "Block", "Record", "Class"} \cup ClosingTags
  BY DEF ExitsOther, ClosingTags, LoopTags
<1> QED
  BY <1>2, <1>3

(* The entries the pass has no code for. *)
LEMMA IgnoredTags ==
  ASSUME pos \in DOMAIN ast, EntersIgnored
  PROVE  pos \in Opened(ast) /\ node.tag \in Ignored
BY EnteredOpen DEF EntersIgnored

(* The nodes the simple steps are of. *)
LEMMA SimpleTag ==
  ASSUME pos \in DOMAIN ast, Simple
  PROVE  \/ pos \in Opened(ast) /\ node.tag \in SimpleTags
         \/ ExitsOther
<1>1. CASE EntersIgnored
  BY <1>1, IgnoredTags DEF SimpleTags
<1>2. CASE ExitsOther
  BY <1>2
<1>3. CASE ~EntersIgnored /\ ~ExitsOther
  <2>1. \E tag \in SimpleTags : Enters(tag)
    BY <1>3, Zenon DEF Simple, SimpleTags, EnterArray, EnterDomain, EnterBracketLoop, EnterIdentifier, EnterBoolLiteral,
       EnterImagLiteral, EnterRealLiteral, EnterUintLiteral, EnterBytesLiteral, EnterCStringLiteral,
       EnterStringLiteral, EnterIntLiteral, EnterFnCall, EnterOpCall
  <2> QED
    BY <2>1, EnteredOpen
<1> QED
  BY <1>1, <1>2, <1>3

(* The steps of the first pass. *)
LEMMA Steps ==
  ASSUME BuildSymbols
  PROVE  \/ Simple \/ EnterRange \/ ExitRange \/ EnterTuple \/ EnterFormal \/ EnterVariable
         \/ EnterFunction \/ EnterRecord \/ EnterClass \/ EnterModule \/ EnterFor \/ EnterForall
         \/ EnterCoforall \/ EnterConditional \/ EnterBlock \/ ExitVariable \/ ExitModule
         \/ ExitRecord \/ ExitClass \/ ExitFunction \/ ExitLoop \/ ExitConditional \/ ExitBlock
BY DEF BuildSymbols, EnterExpression, EnterDeclaration, Exit, Simple

(* The node each of the other entries is of. *)
LEMMA TagOfStep ==
  ASSUME pos \in DOMAIN ast
  PROVE  /\ EnterRange => pos \in Opened(ast) /\ node.tag = "Range"
         /\ EnterTuple => pos \in Opened(ast) /\ node.tag = "Tuple"
         /\ EnterFormal => pos \in Opened(ast) /\ node.tag = "Formal"
         /\ EnterVariable => pos \in Opened(ast) /\ node.tag = "Variable"
         /\ EnterFunction => pos \in Opened(ast) /\ node.tag = "Function"
         /\ EnterRecord => pos \in Opened(ast) /\ node.tag = "Record"
         /\ EnterClass => pos \in Opened(ast) /\ node.tag = "Class"
         /\ EnterModule => pos \in Opened(ast) /\ node.tag = "Module"
         /\ EnterFor => pos \in Opened(ast) /\ node.tag = "For"
         /\ EnterForall => pos \in Opened(ast) /\ node.tag = "Forall"
         /\ EnterCoforall => pos \in Opened(ast) /\ node.tag = "Coforall"
         /\ EnterConditional => pos \in Opened(ast) /\ node.tag = "Conditional"
         /\ EnterBlock => pos \in Opened(ast) /\ node.tag = "Block"
         /\ ExitRange => pos \notin Opened(ast) /\ node.tag = "Range"
         /\ ExitVariable => pos \notin Opened(ast) /\ node.tag = "Variable"
         /\ ExitModule => pos \notin Opened(ast) /\ node.tag = "Module"
         /\ ExitRecord => pos \notin Opened(ast) /\ node.tag = "Record"
         /\ ExitClass => pos \notin Opened(ast) /\ node.tag = "Class"
         /\ ExitFunction => pos \notin Opened(ast) /\ node.tag = "Function"
         /\ ExitLoop => pos \notin Opened(ast) /\ node.tag \in LoopTags
         /\ ExitConditional => pos \notin Opened(ast) /\ node.tag = "Conditional"
         /\ ExitBlock => pos \notin Opened(ast) /\ node.tag = "Block"
<1>1. /\ EnterRange => Enters("Range")
      /\ EnterTuple => Enters("Tuple")
      /\ EnterFormal => Enters("Formal")
      /\ EnterVariable => Enters("Variable")
      /\ EnterFunction => Enters("Function")
      /\ EnterRecord => Enters("Record")
      /\ EnterClass => Enters("Class")
      /\ EnterModule => Enters("Module")
      /\ EnterFor => Enters("For")
      /\ EnterForall => Enters("Forall")
      /\ EnterCoforall => Enters("Coforall")
      /\ EnterConditional => Enters("Conditional")
      /\ EnterBlock => Enters("Block")
  BY DEF EnterRange, EnterTuple, EnterFormal, EnterVariable, EnterFunction, EnterRecord,
     EnterClass, EnterModule, EnterFor, EnterForall, EnterCoforall, EnterConditional, EnterBlock
<1>2. /\ ExitRange => Exits("Range")
      /\ ExitVariable => Exits("Variable")
      /\ ExitModule => Exits("Module")
      /\ ExitRecord => Exits("Record")
      /\ ExitClass => Exits("Class")
      /\ ExitFunction => Exits("Function")
      /\ ExitLoop => \E tag \in LoopTags : Exits(tag)
      /\ ExitConditional => Exits("Conditional")
      /\ ExitBlock => Exits("Block")
  BY DEF ExitRange, ExitVariable, ExitModule, ExitRecord, ExitClass, ExitFunction, ExitLoop,
     ExitConditional, ExitBlock, LoopTags
<1> QED
  BY <1>1, <1>2, EnteredOpen, ExitedClosed

(* What can stand in a variable. *)
LEMMA InVariableTags ==
  ASSUME NEW a, Scoped(a), NEW v \in Opened(a), a[v].tag = "Variable",
         NEW p \in 1 .. Len(a), v < p, p < CloseOf(a, v)
  PROVE  /\ a[p].tag \notin {"Variable", "Formal", "Tuple", "Record", "Class"} \cup ClosingTags
         /\ a[p].tag \in {"Range", "BracketLoop", "Block"} => a[v + 1].tag = "BracketLoop"
         /\ InScopes(a, p + 1) = InScopes(a, p)
         /\ ~(p \in Opened(a) /\ IsElseIf(a, p))
<1>1. Bracketing(a)
  BY ScopedBrackets
<1>2. \E x \in Opened(a) : v < x /\ x < CloseOf(a, v) /\ a[x].tag = a[p].tag
  <2>1. CASE p \in Opened(a)
    BY <2>1
  <2>2. CASE p \notin Opened(a)
    <3>1. PICK x \in Opened(a) : CloseOf(a, x) = p
      BY <1>1, <2>2 DEF Bracketing
    <3>2. a[x].tag = a[p].tag /\ x < p /\ x \in Nat /\ v \in Nat /\ p \in Nat /\ CloseOf(a, v) \in Nat
      BY <1>1, <3>1 DEF Bracketing
    <3>3. x < CloseOf(a, v)
      BY <3>2
    <3>4. ~(x < v)
      <4>1. SUFFICES ASSUME x < v PROVE FALSE
        OBVIOUS
      <4>2. CloseOf(a, v) < CloseOf(a, x)
        BY <1>1, <3>1, <4>1 DEF Bracketing
      <4> QED
        BY <3>1, <3>2, <4>2
    <3>5. x # v
      BY <3>1, <3>2
    <3> QED
      BY <3>2, <3>3, <3>4, <3>5
  <2> QED
    BY <2>1, <2>2
<1>3. /\ a[p].tag \notin {"Variable", "Formal", "Tuple", "Record", "Class"} \cup ClosingTags
      /\ a[p].tag \in {"Range", "BracketLoop", "Block"} => a[v + 1].tag = "BracketLoop"
  BY <1>2, StandsInVariable DEF ClosingTags, LoopTags
<1>4. p \in Opened(a) => ~IsElse(a, p)
  <2>1. SUFFICES ASSUME p \in Opened(a), IsElse(a, p) PROVE FALSE
    OBVIOUS
  <2> DEFINE g == Parent(a, p)
  <2>2. a[g].tag = "Conditional"
    BY <2>1 DEF IsElse
  <2>3. p # 1 /\ v \in Nat /\ p \in Nat /\ v >= 1
    BY <1>1 DEF Bracketing
  <2>4. g \in Opened(a) /\ g < p /\ v <= g
    BY <1>1, <2>1, <2>3, ParentIs
  <2>5. g \in Nat /\ CloseOf(a, v) \in Nat
    BY <1>1, <2>4 DEF Bracketing
  <2>6. v < g /\ g < CloseOf(a, v)
    BY <2>2, <2>3, <2>4, <2>5
  <2> QED
    BY <2>2, <2>4, <2>6, StandsInVariable
<1>5. ~(p \in Opened(a) /\ IsElseIf(a, p))
  BY <1>3 DEF IsElseIf, ClosingTags
<1>6. CASE p \in Opened(a)
  <2>1. ~IsScope(a, p)
    BY <1>3, <1>4, <1>6 DEF IsScope, ClosingTags
  <2> QED
    BY <1>3, <1>5, <1>6, <2>1, NotAScope
<1>7. CASE p \notin Opened(a)
  BY <1>3, <1>5, <1>7, NoScopeEnds
<1> QED
  BY <1>6, <1>7

(* What the first pass keeps from one call to the next. *)
Keeping ==
  \E nest, c : Follows(ast, pos + 1, nest, c, symstack', table', symnode')
(* No message is written. *)
Silent == diags' = diags
Outcome == Aborts \/ (Goes /\ (pos < Len(ast) => hasSym' /\ Keeping))
(* The symbol on top of the stack is the same variable or none still. *)
ConfigStays ==
  Len(symstack') = Len(symstack) /\ symstack'[Len(symstack)].config = top.config

(* A range of an array is one of its domains. *)
LEMMA Range_InArray ==
  ASSUME EnterRange, tagOf = "array"
  PROVE  Fits
<1>1. PICK o : Alter(o)
  BY DEF EnterRange
<1> QED
  BY <1>1, AlterFits

(* The symbol of the variable becomes that of an array. *)
BecomesArray == symstack' = [symstack EXCEPT ![Len(symstack)] = [top EXCEPT !.kind = New("array")]]

(* In a variable only the variable's symbol changes. *)
LEMMA InVariableStep ==
  ASSUME hasSym, Scoped(ast), pos \in 2 .. Len(ast), IsTable(table), NEW nest, NEW c,
         Follows(ast, pos, nest, c, symstack, table, symnode),
         NEW v \in Opened(ast), ast[v].tag = "Variable", v < pos, pos < CloseOf(ast, v),
         BuildSymbols
  PROVE  Outcome /\ ConfigStays
<1>1. pos \in 1 .. Len(ast) /\ pos \in Nat /\ pos \in DOMAIN ast /\ Bracketing(ast)
  BY ScopedBrackets DEF Bracketing
<1>2. /\ node.tag \notin {"Variable", "Formal", "Tuple", "Record", "Class"} \cup ClosingTags
      /\ node.tag \in {"Range", "BracketLoop", "Block"} => ast[v + 1].tag = "BracketLoop"
      /\ InScopes(ast, pos + 1) = InScopes(ast, pos)
      /\ ~(pos \in Opened(ast) /\ IsElseIf(ast, pos))
  BY <1>1, InVariableTags DEF node
<1>3. InVar(ast, v, pos)
  <2>1. CloseOf(ast, v) \in Nat
    BY <1>1 DEF Bracketing
  <2> QED
    BY <1>1, <2>1 DEF InVar
<1>4. ~Flat(ast, pos)
  BY <1>3 DEF Flat
<1>5. Len(symstack) = Len(nest) + 1 /\ Len(nest) \in Nat /\ IsFcnSeq(symstack)
  BY <1>1, <1>4, Deeper
<1>6. top = symstack[Len(symstack)]
  BY <1>5, Fronted DEF top
<1>7. Declared(ast, v, pos, top, table.ref)
  BY <1>3, <1>6 DEF Follows
<1>8. \A u \in Opened(ast) : InVar(ast, u, pos) => u = v
  <2>1. SUFFICES ASSUME NEW u \in Opened(ast), InVar(ast, u, pos), u # v PROVE FALSE
    OBVIOUS
  <2>2. /\ u \in Nat /\ v \in Nat /\ CloseOf(ast, u) \in Nat /\ CloseOf(ast, v) \in Nat
        /\ ast[u].tag = "Variable" /\ u < pos /\ pos <= CloseOf(ast, u)
    BY <1>1, <2>1 DEF InVar, Bracketing
  <2>3. CASE u < v
    <3>1. v < CloseOf(ast, u)
      BY <1>1, <2>2
    <3> QED
      BY <2>2, <2>3, <3>1, StandsInVariable
  <2>4. CASE v < u
    <3>1. u < CloseOf(ast, v)
      BY <1>1, <2>2
    <3> QED
      BY <2>2, <2>4, <3>1, StandsInVariable
  <2> QED
    BY <2>1, <2>2, <2>3, <2>4
<1>9. IsSymbol(top) /\ v \in Nat
  BY <1>1, <1>7 DEF Declared, Bracketing
<1>10. tagOf = top.kind.tag
  BY DEF tagOf
<1>11. ast[v + 1].tag = "BracketLoop" =>
         /\ pos > v + 1 => top.kind.tag = "array"
         /\ pos = v + 1 => top.kind.tag = "none"
  BY <1>7 DEF Declared
<1>12. node.tag \in {"Range", "Block"} => pos > v + 1 /\ top.kind.tag = "array"
  <2>1. SUFFICES ASSUME node.tag \in {"Range", "Block"} PROVE pos > v + 1
    BY <1>2, <1>11
  <2>2. pos # v + 1
    BY <1>2, <2>1 DEF node
  <2> QED
    BY <1>1, <1>9, <2>2
<1>13. CASE /\ Fits
            /\ node.tag = "BracketLoop" /\ pos \in Opened(ast) => BecomesArray \/ top.kind.tag = "array"
            /\ pos = v + 1 /\ ast[v + 1].tag = "BracketLoop" => BecomesArray
  <2>1. CASE Aborts
    BY <1>6, <2>1 DEF Outcome, Aborts, ConfigStays
  <2>2. ASSUME Goes, SameNames(table, table'), symnode' = symnode, hasSym' = hasSym, NEW s,
               (symstack' = symstack /\ s = top) \/ symstack' = [symstack EXCEPT ![Len(symstack)] = s],
               IsSymbol(s), s.ident = top.ident, s.scope = table.ref, s.config = top.config,
               pos > v + 1 /\ ast[v + 1].tag = "BracketLoop" => s.kind.tag = "array",
               pos = v + 1 /\ ast[v + 1].tag = "BracketLoop" => s.kind = New("array")
        PROVE  Outcome /\ ConfigStays
    <3>1. Declared(ast, v, pos + 1, s, table.ref)
      <4>1. pos + 1 # v + 1 /\ (pos > v + 1 \/ pos = v + 1)
        BY <1>1, <1>9
      <4>2. ast[v + 1].tag = "BracketLoop" => s.kind.tag = "array"
        BY <2>2, <4>1, BuiltArray
      <4> QED
        BY <1>7, <2>2, <4>1, <4>2 DEF Declared
    <3>2. \A u \in Opened(ast) : InVar(ast, u, pos) => Declared(ast, u, pos + 1, s, table.ref)
      BY <1>8, <3>1
    <3>3. ast[pos].tag # "Variable"
      BY <1>2 DEF node
    <3>4. Follows(ast, pos + 1, nest, c, symstack', table', symnode)
      BY <1>2, <1>4, <1>6, <2>2, <3>2, <3>3, DeclaredFollows
    <3>5. ConfigStays
      <4>1. CASE symstack' = symstack /\ s = top
        BY <1>6, <4>1 DEF ConfigStays
      <4>2. CASE symstack' = [symstack EXCEPT ![Len(symstack)] = s]
        <5>1. Len(symstack) > 0 /\ Len(symstack) \in 1 .. Len(symstack)
          BY <1>5
        <5>2. Len(symstack') = Len(symstack) /\ symstack'[Len(symstack)] = s
          BY <1>5, <4>2, <5>1, Replaced
        <5> QED
          BY <2>2, <5>2 DEF ConfigStays
      <4> QED
        BY <2>2, <4>1, <4>2
    <3> QED
      BY <2>2, <3>4, <3>5 DEF Outcome, Keeping
  <2>3. CASE Skips \/ Marks
    <3>1. ~(pos = v + 1 /\ ast[v + 1].tag = "BracketLoop")
      <4>1. SUFFICES ASSUME pos = v + 1, ast[v + 1].tag = "BracketLoop" PROVE FALSE
        OBVIOUS
      <4> DEFINE k == New("array")
      <4>2. symstack' = [symstack EXCEPT ![Len(symstack)] = [top EXCEPT !.kind = k]]
        BY <1>13, <4>1 DEF BecomesArray
      <4> HIDE DEF k
      <4>3. symstack'[Len(symstack)] = [top EXCEPT !.kind = k]
        BY <1>5, <4>2, Replaced
      <4>4. top = [top EXCEPT !.kind = k]
        BY <1>6, <2>3, <4>3 DEF Skips, Marks
      <4>5. top.kind = k
        <5>1. [top EXCEPT !.kind = k].kind = k
          BY <1>9, Rekinded
        <5> QED
          BY <4>4, <5>1
      <4> QED
        BY <1>11, <4>1, <4>5, BuiltArray DEF k
    <3>2. top.scope = table.ref
      BY <1>7 DEF Declared
    <3>3. SameNames(table, table')
      BY <2>3 DEF Skips, Marks, SameNames
    <3>4. Goes /\ symnode' = symnode /\ hasSym' = hasSym /\ symstack' = symstack
      BY <2>3 DEF Skips, Marks
    <3> QED
      BY <1>9, <1>11, <2>2, <3>1, <3>2, <3>3, <3>4
  <2>4. ASSUME NEW s, Fit(top, s), Sets(s)
        PROVE  Outcome /\ ConfigStays
    <3>1. IsSymbol(s) /\ s.ident = top.ident /\ s.scope = table.ref /\ s.config = top.config
      <4>1. top.scope = table.ref
        BY <1>7 DEF Declared
      <4> QED
        BY <2>4, <4>1 DEF Fit
    <3>2. pos > v + 1 /\ ast[v + 1].tag = "BracketLoop" => s.kind.tag = "array"
      BY <1>11, <2>4 DEF Fit
    <3>3. pos = v + 1 /\ ast[v + 1].tag = "BracketLoop" => s.kind = New("array")
      <4>1. SUFFICES ASSUME pos = v + 1, ast[v + 1].tag = "BracketLoop" PROVE s.kind = New("array")
        OBVIOUS
      <4> DEFINE t == [top EXCEPT !.kind = New("array")]
      <4>2. symstack' = [symstack EXCEPT ![Len(symstack)] = t]
        BY <1>13, <4>1 DEF BecomesArray
      <4>3. t.kind = New("array")
        BY <1>9, Rekinded
      <4> HIDE DEF t
      <4>4. symstack'[Len(symstack)] = t
        BY <1>5, <4>2, Replaced
      <4>5. symstack'[Len(symstack)] = s
        <5>1. symstack' = [symstack EXCEPT ![Len(symstack)] = s]
          BY <2>4 DEF Sets
        <5> QED
          BY <1>5, <5>1, Replaced
      <4> QED
        BY <4>4, <4>5, <4>3
    <3>4. SameNames(table, table')
      BY <2>4 DEF Sets, SameNames
    <3> QED
      BY <2>2, <2>4, <3>1, <3>2, <3>3, <3>4 DEF Sets
  <2> QED
    BY <1>13, <2>1, <2>3, <2>4 DEF Fits
<1>14. CASE Simple
  <2>1. Fits
    <3>1. ~(top.kind.tag = "module" /\ node.tag = "BracketLoop")
      <4>1. pos > v + 1 \/ pos = v + 1
        BY <1>1, <1>9
      <4> QED
        BY <1>2, <1>11, <4>1
    <3> QED
      BY <1>9, <1>14, <3>1, SimpleFits
  <2>2. node.tag = "BracketLoop" /\ pos \in Opened(ast) /\ top.kind.tag # "func" => BecomesArray
    <3>1. SUFFICES ASSUME node.tag = "BracketLoop", pos \in Opened(ast), top.kind.tag # "func"
                   PROVE  BecomesArray
      OBVIOUS
    <3>2. EnterBracketLoop
      <4>1. ~ExitsOther
        BY <3>1, ExitsTheRest
      <4>2. ~EntersIgnored
        BY <1>1, <3>1, IgnoredTags DEF Ignored
      <4> QED
        BY <1>1, <1>14, <3>1, <4>1, <4>2, Zenon DEF Simple, Enters, EnterArray, EnterDomain, EnterIdentifier,
          EnterBoolLiteral, EnterImagLiteral, EnterRealLiteral, EnterUintLiteral, EnterBytesLiteral,
          EnterCStringLiteral, EnterStringLiteral, EnterIntLiteral, EnterFnCall, EnterOpCall
    <3> QED
      BY <1>10, <3>1, <3>2 DEF EnterBracketLoop, BecomesArray, SetTopAnd
  <2>3. pos = v + 1 /\ ast[v + 1].tag = "BracketLoop" => BecomesArray
    <3>1. SUFFICES ASSUME pos = v + 1, ast[v + 1].tag = "BracketLoop" PROVE BecomesArray
      OBVIOUS
    <3>2. node.tag = "BracketLoop" /\ top.kind.tag = "none"
      BY <1>11, <3>1 DEF node
    <3>3. pos \in Opened(ast)
      <4>1. SUFFICES ASSUME pos \notin Opened(ast) PROVE FALSE
        OBVIOUS
      <4>2. PICK x \in Opened(ast) : CloseOf(ast, x) = pos
        BY <1>1, <4>1 DEF Bracketing
      <4>3. x \in Nat /\ x < pos /\ x # v
        BY <1>1, <4>2 DEF Bracketing
      <4>4. x < v
        BY <1>1, <1>9, <3>1, <4>3
      <4>5. CloseOf(ast, v) < CloseOf(ast, x) /\ CloseOf(ast, v) \in Nat
        <5>1. v < CloseOf(ast, x)
          BY <4>2
        <5> QED
          BY <1>1, <4>4, <5>1 DEF Bracketing
      <4> QED
        BY <1>1, <4>2, <4>5
    <3> QED
      BY <2>2, <3>2, <3>3
  <2>4. node.tag = "BracketLoop" /\ pos \in Opened(ast) => BecomesArray \/ top.kind.tag = "array"
    <3>1. node.tag = "BracketLoop" => top.kind.tag # "func"
      <4>1. pos > v + 1 \/ pos = v + 1
        BY <1>1, <1>9
      <4> QED
        BY <1>2, <1>11, <4>1
    <3> QED
      BY <2>2, <3>1
  <2> QED
    BY <1>13, <2>1, <2>3, <2>4
<1>15. CASE EnterRange
  <2>1. node.tag = "Range" /\ pos > v + 1 /\ top.kind.tag = "array"
    BY <1>1, <1>12, <1>15, TagOfStep
  <2>2. Fits
    BY <1>10, <1>15, <2>1, Range_InArray
  <2>3. pos # v + 1
    BY <1>1, <1>9, <2>1
  <2> QED
    BY <1>13, <2>1, <2>2, <2>3
<1>16. CASE ExitRange
  <2>1. node.tag = "Range" /\ pos > v + 1 /\ top.kind.tag = "array"
    BY <1>1, <1>12, <1>16, TagOfStep
  <2>2. Fits
    BY <1>10, <1>16, <2>1, SkipFits DEF ExitRange
  <2>3. pos # v + 1
    BY <1>1, <1>9, <2>1
  <2> QED
    BY <1>13, <2>1, <2>2, <2>3
<1>17. CASE EnterBlock
  <2>1. node.tag = "Block" /\ pos > v + 1 /\ top.kind.tag = "array"
    BY <1>1, <1>12, <1>17, TagOfStep
  <2>2. Fits
    BY <1>10, <1>17, <2>1, SkipFits, AbortFits DEF EnterBlock, IsIf
  <2>3. pos # v + 1
    BY <1>1, <1>9, <2>1
  <2> QED
    BY <1>13, <2>1, <2>2, <2>3
<1>18. CASE ExitBlock
  <2>1. node.tag = "Block" /\ pos > v + 1 /\ top.kind.tag = "array"
    BY <1>1, <1>12, <1>18, TagOfStep
  <2>2. Fits
    BY <1>10, <1>18, <2>1, SkipFits DEF ExitBlock
  <2>3. pos # v + 1
    BY <1>1, <1>9, <2>1
  <2> QED
    BY <1>13, <2>1, <2>2, <2>3
<1> QED
  BY <1>1, <1>2, <1>14, <1>15, <1>16, <1>17, <1>18, Steps, TagOfStep DEF ClosingTags, LoopTags

(* Between the variables: the top of the stack stands for the innermost    *)
(* scope.                                                                  *)
Placed(nest, c) ==
  /\ hasSym /\ Scoped(ast) /\ pos \in 2 .. Len(ast) /\ IsTable(table)
  /\ Follows(ast, pos, nest, c, symstack, table, symnode) /\ Flat(ast, pos)

(***************************************************************************)
(* A step outside the variables.                                           *)
(***************************************************************************)
(* What is on top of the stack. *)
LEMMA AtTop ==
  ASSUME NEW nest, NEW c, Placed(nest, c)
  PROVE  LET n == Len(nest)
             s == Innermost(nest)
         IN  /\ pos \in 1 .. Len(ast) /\ pos \in Nat /\ pos \in DOMAIN ast /\ Bracketing(ast)
             /\ n \in Nat /\ n > 0 /\ n \in 1 .. n /\ s = nest[n]
             /\ Len(symstack) = n /\ IsFcnSeq(symstack) /\ top = symstack[Len(symstack)]
             /\ s \in InScopes(ast, pos) /\ s \in Opened(ast) /\ IsScope(ast, s)
             /\ StandsFor(ast, pos, s, top) /\ IsSymbol(top) /\ IsKind(top.kind)
             /\ top.kind.lut = table.ref /\ tagOf = top.kind.tag
             /\ top.kind.tag = IF ast[s].tag = "Module" THEN "module" ELSE "func"
<1> DEFINE n == Len(nest)
<1>1. Scoped(ast) /\ pos \in 2 .. Len(ast) /\ Follows(ast, pos, nest, c, symstack, table, symnode) /\ hasSym
  BY DEF Placed
<1>2. pos \in 1 .. Len(ast) /\ pos \in Nat /\ pos \in DOMAIN ast /\ Bracketing(ast)
  BY <1>1, ScopedBrackets DEF Bracketing
<1>3. n \in Nat /\ n > 0
  BY <1>1, ModuleIsFirst DEF Follows
<1>4. n \in 1 .. n /\ Innermost(nest) = nest[n]
  BY <1>3 DEF Innermost
<1>5. Len(symstack) = n /\ IsFcnSeq(symstack)
  BY <1>1, <1>3 DEF Follows, Placed
<1>6. top = symstack[Len(symstack)]
  BY <1>3, <1>5, Fronted DEF top
<1>7. nest[n] \in InScopes(ast, pos)
  BY <1>1, <1>4, FollowsHeld
<1>8. nest[n] \in Opened(ast) /\ IsScope(ast, nest[n])
  BY <1>7 DEF InScopes
<1>9. StandsFor(ast, pos, nest[n], top) /\ top.kind.lut = c[n] /\ table.ref = c[n]
  BY <1>1, <1>4, <1>5, <1>6 DEF Follows, Symbols
<1>10. tagOf = top.kind.tag
  BY <1>1 DEF tagOf
<1> QED
  BY <1>2, <1>3, <1>4, <1>5, <1>6, <1>7, <1>8, <1>9, <1>10 DEF StandsFor

(* What the visitor reads off the name of a scope's symbol. *)
LEMMA TopWords ==
  ASSUME NEW nest, NEW c, Placed(nest, c), NEW s, s = Innermost(nest)
  PROVE  /\ IsElseBlock <=> ast[s].tag = "Block" /\ ~Renamed(ast, s, pos)
         /\ IsIf <=> \/ ast[s].tag = "Conditional"
                     \/ ast[s].tag = "Block" /\ Renamed(ast, s, pos)
         /\ IsLoopName(top.ident) => ast[s].tag \notin {"Conditional", "Block"}
<1>1. /\ s \in Opened(ast) /\ IsScope(ast, s) /\ tagOf = top.kind.tag /\ StandsFor(ast, pos, s, top)
      /\ top.kind.tag = IF ast[s].tag = "Module" THEN "module" ELSE "func"
  BY AtTop
<1>2. top.kind.sig = SigOf(ast, s, pos) /\ top.ident = IdentOf(ast, s, pos)
  BY <1>1 DEF StandsFor
<1>3. \A base, p : NameAt(ast, base, p).base = base
  BY DEF NameAt, Ident
<1>4. CASE ast[s].tag = "Module"
  <2>1. tagOf # "func"
    BY <1>1, <1>4
  <2> QED
    BY <1>4, <2>1 DEF IsElseBlock, IsIf
<1>5. CASE ast[s].tag = "Function"
  <2>1. top.kind.sig.base = ast[s].name
    BY <1>2, <1>5 DEF SigOf, SignatureOf, Ident
  <2>2. ~HasWord(ast[s].name, "if") /\ ~HasWord(ast[s].name, "block")
    BY <1>1, <1>5 DEF Placed, Scoped, NamesAreNew
  <2> QED
    BY <1>5, <2>1, <2>2 DEF IsElseBlock, IsIf
<1>6. CASE ast[s].tag \in LoopTags
  <2>1. top.kind.sig.base = LoopName(ast[s].tag)
    <3>1. SigOf(ast, s, pos) = NameAt(ast, LoopName(ast[s].tag), s)
      BY <1>6 DEF SigOf, BaseOf, LoopTags
    <3> QED
      BY <1>2, <1>3, <3>1
  <2>2. LoopName(ast[s].tag) \in {"for", "forall", "coforall"}
    BY <1>6 DEF LoopName, LoopTags
  <2>3. ~HasWord(LoopName(ast[s].tag), "if") /\ ~HasWord(LoopName(ast[s].tag), "block")
    BY <2>2, WordsAssumption
  <2> QED
    BY <1>6, <2>1, <2>3 DEF IsElseBlock, IsIf, LoopTags
<1>7. CASE ast[s].tag = "Conditional"
  <2>1. SigOf(ast, s, pos) = NameAt(ast, "if", s) /\ IdentOf(ast, s, pos) = NameAt(ast, "if", s)
    BY <1>7 DEF SigOf, IdentOf, BaseOf
  <2>2. top.kind.sig.base = "if" /\ top.ident.base = "if"
    BY <1>2, <1>3, <2>1
  <2>3. HasWord("if", "if") /\ ~HasWord("if", "for") /\ ~HasWord("if", "block")
    BY WordsAssumption
  <2> QED
    BY <1>1, <1>7, <2>2, <2>3 DEF IsElseBlock, IsIf, IsLoopName
<1>8. CASE ast[s].tag = "Block"
  <2>1. HasWord("elseif", "if") /\ ~HasWord("elseif", "block") /\ ~HasWord("else", "for")
    BY WordsAssumption
  <2>2. HasWord("block", "block") /\ ~HasWord("block", "if") /\ ~HasWord("block", "for")
    BY WordsAssumption
  <2>3. CASE Renamed(ast, s, pos)
    <3>1. SigOf(ast, s, pos) = NameAt(ast, "elseif", s) /\ IdentOf(ast, s, pos) = NameAt(ast, "else", s)
      BY <1>8, <2>3 DEF SigOf, IdentOf
    <3>2. top.kind.sig.base = "elseif" /\ top.ident.base = "else"
      BY <1>2, <1>3, <3>1
    <3> QED
      BY <1>1, <1>8, <2>1, <2>3, <3>2 DEF IsElseBlock, IsIf, IsLoopName
  <2>4. CASE ~Renamed(ast, s, pos)
    <3>1. SigOf(ast, s, pos) = NameAt(ast, "block", s) /\ IdentOf(ast, s, pos) = NameAt(ast, "block", s)
      BY <1>8, <2>4 DEF SigOf, IdentOf, BaseOf
    <3>2. top.kind.sig.base = "block" /\ top.ident.base = "block"
      BY <1>2, <1>3, <3>1
    <3> QED
      BY <1>1, <1>8, <2>2, <2>4, <3>2 DEF IsElseBlock, IsIf, IsLoopName
  <2> QED
    BY <2>3, <2>4
<1> QED
  BY <1>1, <1>4, <1>5, <1>6, <1>7, <1>8 DEF IsScope, IsElse

(* The scopes stay, and so does the stack. *)
LEMMA StackOutcome ==
  ASSUME NEW nest, NEW c, Placed(nest, c), Goes, hasSym', 
         InScopes(ast, pos + 1) = InScopes(ast, pos), ast[pos].tag # "Variable",
         ~(pos \in Opened(ast) /\ IsElseIf(ast, pos)),
         symstack' = symstack,
         \/ table' = table
         \/ /\ pos \in Opened(ast) /\ ast[pos].tag \in {"Formal", "Range"}
            /\ ~(ast[pos].tag = "Range" /\ InVariable(ast, pos))
            /\ \E x \in NamesMade(ast, pos) : \E s : table' = AddEntry(table, top.kind.lut, x, s),
         symnode' = symnode \/ ast[Innermost(nest)].tag \notin {"Conditional", "Block"}
  PROVE  Outcome
<1>1. /\ Scoped(ast) /\ pos \in 2 .. Len(ast) /\ IsTable(table)
      /\ Follows(ast, pos, nest, c, symstack, table, symnode) /\ Flat(ast, pos)
  BY DEF Placed
<1>2. top = symstack[Len(symstack)]
  BY AtTop
<1>3. pos \in Opened(ast) /\ ast[pos].tag \in {"Formal", "Range"} => MadeIn(ast, pos) = Innermost(nest)
  <2>1. pos \in Opened(ast) => ScopeAround(ast, pos) = Innermost(nest)
    BY <1>1, InnermostIs DEF Follows
  <2> QED
    BY <2>1 DEF MadeIn
<1>4. Follows(ast, pos + 1, nest, c, symstack', table', symnode')
  BY <1>1, <1>2, <1>3, StackFollows
<1> QED
  BY <1>4 DEF Outcome, Keeping

(* A node that is no scope, and the end of one. *)
LEMMA SimpleStep ==
  ASSUME NEW nest, NEW c, Placed(nest, c), Simple
  PROVE  Outcome
<1>1. /\ pos \in 1 .. Len(ast) /\ pos \in DOMAIN ast /\ Bracketing(ast) /\ IsSymbol(top) /\ IsKind(top.kind)
      /\ top = symstack[Len(symstack)]
      /\ top.kind.tag = IF ast[Innermost(nest)].tag = "Module" THEN "module" ELSE "func"
  BY AtTop
<1>2. hasSym /\ Scoped(ast) /\ IsTable(table)
  BY DEF Placed
<1>3. \/ pos \in Opened(ast) /\ node.tag \in SimpleTags
      \/ pos \notin Opened(ast) /\ node.tag \notin {"Range", "Variable", "Block", "Record", "Class"} \cup ClosingTags
  BY <1>1, SimpleTag, ExitsTheRest
<1>4. /\ ast[pos].tag # "Variable" /\ ~(pos \in Opened(ast) /\ IsElseIf(ast, pos))
      /\ InScopes(ast, pos + 1) = InScopes(ast, pos)
  <2>1. CASE pos \in Opened(ast)
    <3>1. ast[pos].tag \in SimpleTags
      BY <1>3, <2>1 DEF node
    <3>2. ~IsScope(ast, pos) /\ ~IsElseIf(ast, pos) /\ ast[pos].tag # "Variable"
      BY <3>1 DEF SimpleTags, Ignored, IsScope, IsElse, IsElseIf, LoopTags
    <3> QED
      BY <1>2, <2>1, <3>2, NotAScope
  <2>2. CASE pos \notin Opened(ast)
    <3>1. ast[pos].tag \notin ClosingTags /\ ast[pos].tag # "Variable"
      BY <1>3, <2>2 DEF node
    <3> QED
      BY <1>1, <1>2, <2>2, <3>1, NoScopeEnds
  <2> QED
    BY <2>1, <2>2
<1>5. top.kind.tag = "module" => node.tag # "BracketLoop" \/ pos \notin Opened(ast)
  <2>1. SUFFICES ASSUME ast[Innermost(nest)].tag = "Module", node.tag = "BracketLoop", pos \in Opened(ast)
                 PROVE  FALSE
    BY <1>1
  <2>2. ScopeAround(ast, pos) = Innermost(nest)
    BY <1>2, <2>1, InnermostIs DEF Placed, Follows
  <2>3. InVariable(ast, pos) \/ ast[ScopeAround(ast, pos)].tag \in {"Function"} \cup LoopTags
    BY <1>2, <2>1 DEF Scoped, ExpressionsBelong, node
  <2>4. ~InVariable(ast, pos)
    <3>1. SUFFICES ASSUME NEW v \in 1 .. pos - 1, ast[v].open, ast[v].tag = "Variable", pos < CloseOf(ast, v)
                   PROVE  FALSE
      BY Zenon DEF InVariable
    <3>2. v \in DOMAIN ast
      BY <1>1, <3>1 DEF Bracketing
    <3>3. v \in Opened(ast)
      BY <3>1, <3>2, Zenon DEF Opened
    <3>4. CloseOf(ast, v) \in Nat
      BY <1>1, <3>3 DEF Bracketing
    <3>5. InVar(ast, v, pos)
      BY <1>1, <3>1, <3>3, <3>4 DEF InVar
    <3> QED
      BY <3>3, <3>5 DEF Placed, Flat
  <2> QED
    BY <2>1, <2>2, <2>3, <2>4 DEF LoopTags
<1>6. Fits
  <2>1. CASE pos \in Opened(ast)
    BY <1>1, <1>2, <1>5, <2>1, SimpleFits
  <2>2. CASE pos \notin Opened(ast)
    <3>1. ExitsOther
      BY <1>1, <2>2, SimpleTag
    <3> QED
      BY <3>1, SkipFits DEF ExitsOther
  <2> QED
    BY <2>1, <2>2
<1>7. CASE Aborts
  BY <1>7 DEF Outcome
<1>8. CASE Skips
  <2>1. Goes /\ hasSym' /\ table' = table /\ symnode' = symnode /\ symstack' = symstack
    BY <1>2, <1>8 DEF Skips
  <2> QED
    BY <1>4, <2>1, StackOutcome
<1> QED
  BY <1>1, <1>6, <1>7, <1>8 DEF Fits

(* A place outside every variable has none around it. *)
LEMMA OutsideVariables ==
  ASSUME NEW a, Scoped(a), NEW p \in 1 .. Len(a), Flat(a, p)
  PROVE  ~InVariable(a, p)
<1>1. Bracketing(a) /\ p \in Nat
  BY ScopedBrackets DEF Bracketing
<1>2. SUFFICES ASSUME NEW v \in 1 .. p - 1, a[v].open, a[v].tag = "Variable", p < CloseOf(a, v)
               PROVE  FALSE
  BY Zenon DEF InVariable
<1>3. v \in DOMAIN a
  BY <1>1, <1>2 DEF Bracketing
<1>4. v \in Opened(a)
  BY <1>2, <1>3, Zenon DEF Opened
<1>5. CloseOf(a, v) \in Nat
  BY <1>1, <1>4 DEF Bracketing
<1>6. InVar(a, v, p)
  BY <1>1, <1>2, <1>4, <1>5 DEF InVar
<1> QED
  BY <1>4, <1>6 DEF Flat

(* pushScope opens a scope. *)
LEMMA PushOpens ==
  ASSUME NEW st, IsTable(st)
  PROVE  OpensScope(st, PushScope(st), Size(st))
BY Pushed DEF OpensScope

(* A symbol the pass makes. *)
LEMMA NewSymbol ==
  ASSUME NEW k, NEW i, NEW r
  PROVE  LET s == Symbol(k, i, r)
         IN  IsSymbol(s) /\ s.kind = k /\ s.ident = i /\ s.scope = r
BY DEF Symbol, IsSymbol

(* The kind of a scope the pass makes. *)
LEMMA NewFunction ==
  ASSUME NEW z, NEW i
  PROVE  LET k == [FuncKind(z, i) EXCEPT !.tag = "func", !.at = pos]
         IN  IsKind(k) /\ k.tag = "func" /\ k.lut = z /\ k.sig = i
<1> DEFINE k0 == Kind("func")
           k1 == [k0 EXCEPT !.lut = z]
           k2 == [k1 EXCEPT !.sig = i]
           k3 == [k2 EXCEPT !.tag = "func"]
           k4 == [k3 EXCEPT !.at = pos]
<1>1. IsKind(k0)
  BY DEF Kind, IsKind
<1>2. FuncKind(z, i) = k2
  BY DEF FuncKind
<1> HIDE DEF k0
<1>3. IsKind(k1) /\ k1.lut = z
  BY <1>1 DEF IsKind
<1> HIDE DEF k1
<1>4. IsKind(k2) /\ k2.lut = z /\ k2.sig = i
  BY <1>3 DEF IsKind
<1> HIDE DEF k2
<1>5. IsKind(k3) /\ k3.lut = z /\ k3.sig = i /\ k3.tag = "func"
  BY <1>4 DEF IsKind
<1> HIDE DEF k3
<1>6. IsKind(k4) /\ k4.lut = z /\ k4.sig = i /\ k4.tag = "func"
  BY <1>5 DEF IsKind
<1>7. k4 = [FuncKind(z, i) EXCEPT !.tag = "func", !.at = pos]
  BY <1>2 DEF k3
<1> QED
  BY <1>6, <1>7

(* A scope is entered: its name is the same for the table and the search. *)
LEMMA OpenOutcome ==
  ASSUME NEW nest, NEW c, Placed(nest, c), pos \in Opened(ast), IsScope(ast, pos),
         ast[pos].tag \notin {"Variable", "Module"}, NEW ident,
         SigOf(ast, pos, pos + 1) = ident, IdentOf(ast, pos, pos + 1) = ident,
         OpenAt("func", ident)
  PROVE  Outcome
<1> DEFINE z == Size(table)
           k == [FuncKind(z, ident) EXCEPT !.tag = "func", !.at = pos]
           sym == Symbol(k, ident, table.ref)
<1>1. /\ Scoped(ast) /\ IsTable(table) /\ Flat(ast, pos)
      /\ Follows(ast, pos, nest, c, symstack, table, symnode)
  BY DEF Placed
<1>2. /\ Goes /\ table' = PushScope(table) /\ symstack' = Append(symstack, sym)
      /\ hasSym' = TRUE /\ symnode' = ast[pos].line
  BY DEF OpenAt, Open, GoOn, Goes, node
<1>3. OpensScope(table, PushScope(table), z)
  BY <1>1, PushOpens
<1>4. IsKind(k) /\ k.tag = "func" /\ k.lut = z /\ k.sig = ident
  BY NewFunction
<1> HIDE DEF k, z
<1>5. IsSymbol(sym) /\ sym.kind = k /\ sym.ident = ident /\ sym.scope = table.ref
  BY NewSymbol
<1> HIDE DEF sym
<1>6. StandsFor(ast, pos + 1, pos, sym)
  BY <1>4, <1>5 DEF StandsFor
<1>7. \E c2 : Follows(ast, pos + 1, Append(nest, pos), c2, Append(symstack, sym), PushScope(table), ast[pos].line)
  <2>1. sym.kind.lut = z
    BY <1>4, <1>5
  <2> QED
    BY <1>1, <1>3, <1>5, <1>6, <2>1, ScopeEnters
<1> QED
  BY <1>2, <1>7 DEF Outcome, Keeping

(* The entry of a function or a loop opens its scope. *)
LEMMA FunctionStep ==
  ASSUME NEW nest, NEW c, Placed(nest, c), EnterFunction \/ EnterFor \/ EnterForall \/ EnterCoforall
  PROVE  Outcome
<1>1. pos \in DOMAIN ast
  BY AtTop
<1>2. pos \in Opened(ast) /\ ast[pos].tag \in {"Function"} \cup LoopTags
  BY <1>1, TagOfStep DEF LoopTags, node
<1>3. IsScope(ast, pos) /\ ast[pos].tag \notin {"Variable", "Module"}
  BY <1>2 DEF IsScope, LoopTags
<1>4. CASE EnterFunction
  <2>1. OpenAt("func", SignatureOf(ast, pos)) /\ ast[pos].tag = "Function"
    BY <1>1, <1>4, TagOfStep DEF EnterFunction, Signature, node
  <2>2. SigOf(ast, pos, pos + 1) = SignatureOf(ast, pos) /\ IdentOf(ast, pos, pos + 1) = SignatureOf(ast, pos)
    BY <2>1 DEF SigOf, IdentOf
  <2> QED
    BY <1>2, <1>3, <2>1, <2>2, OpenOutcome
<1>5. ASSUME NEW base, OpenAt("func", At(base)), ast[pos].tag \in LoopTags, LoopName(ast[pos].tag) = base
      PROVE  Outcome
  <2>1. At(base) = NameAt(ast, base, pos)
    BY DEF At, NameAt, node
  <2>2. SigOf(ast, pos, pos + 1) = At(base) /\ IdentOf(ast, pos, pos + 1) = At(base)
    BY <1>5, <2>1 DEF SigOf, IdentOf, BaseOf, LoopTags
  <2> QED
    BY <1>2, <1>3, <1>5, <2>2, OpenOutcome
<1>6. LoopName("For") = "for" /\ LoopName("Forall") = "forall" /\ LoopName("Coforall") = "coforall"
  BY DEF LoopName
<1>7. CASE EnterFor
  <2>1. OpenAt("func", At("for")) /\ ast[pos].tag = "For"
    BY <1>1, <1>7, TagOfStep DEF EnterFor, node
  <2> QED
    BY <1>5, <1>6, <2>1 DEF LoopTags
<1>8. CASE EnterForall
  <2>1. OpenAt("func", At("forall")) /\ ast[pos].tag = "Forall"
    BY <1>1, <1>8, TagOfStep DEF EnterForall, node
  <2> QED
    BY <1>5, <1>6, <2>1 DEF LoopTags
<1>9. CASE EnterCoforall
  <2>1. OpenAt("func", At("coforall")) /\ ast[pos].tag = "Coforall"
    BY <1>1, <1>9, TagOfStep DEF EnterCoforall, node
  <2> QED
    BY <1>5, <1>6, <2>1 DEF LoopTags
<1> QED
  BY <1>4, <1>7, <1>8, <1>9

(* The entry of a variable pushes its symbol. *)
LEMMA VariableStep ==
  ASSUME NEW nest, NEW c, Placed(nest, c), EnterVariable
  PROVE  Outcome
<1> DEFINE fresh == Symbol(Kind("none"), Name(node.name), table.ref)
           s == [fresh EXCEPT !.config = node.flag]
<1>1. pos \in DOMAIN ast
  BY AtTop
<1>2. pos \in Opened(ast) /\ ast[pos].tag = "Variable"
  BY <1>1, TagOfStep DEF node
<1>3. IsSymbol(fresh) /\ fresh.kind = Kind("none") /\ fresh.ident = Name(ast[pos].name) /\ fresh.scope = table.ref
  BY NewSymbol DEF node
<1>4. Goes /\ table' = table /\ symstack' = Append(symstack, s) /\ hasSym' = TRUE
  BY DEF EnterVariable, Push, PushAnd, GoOn, Goes
<1> HIDE DEF fresh
<1>5. IsSymbol(s) /\ s.kind = Kind("none") /\ s.ident = Name(ast[pos].name) /\ s.scope = table.ref
  BY <1>3 DEF IsSymbol
<1> HIDE DEF s
<1>6. s.kind.tag = "none"
  <2>1. Kind("none").tag = "none"
    BY DEF Kind
  <2> QED
    BY <1>5, <2>1
<1>7. Follows(ast, pos + 1, nest, c, Append(symstack, s), table, symnode')
  BY <1>2, <1>5, <1>6, VariableFollows DEF Placed
<1> QED
  BY <1>4, <1>7 DEF Outcome, Keeping

(* The entry of a formal enters its name in the scope of the function. *)
LEMMA FormalStep ==
  ASSUME NEW nest, NEW c, Placed(nest, c), EnterFormal
  PROVE  Outcome
<1>1. pos \in DOMAIN ast /\ pos \in 1 .. Len(ast) /\ hasSym /\ Scoped(ast)
  BY AtTop DEF Placed
<1>2. pos \in Opened(ast) /\ ast[pos].tag = "Formal"
  BY <1>1, TagOfStep DEF node
<1>3. ~IsScope(ast, pos) /\ ~IsElseIf(ast, pos)
  BY <1>2 DEF IsScope, IsElse, IsElseIf, LoopTags
<1>4. InScopes(ast, pos + 1) = InScopes(ast, pos)
  BY <1>1, <1>2, <1>3, NotAScope
<1>5. CASE tagOf # "func"
  <2>1. Goes /\ hasSym' /\ table' = table /\ symnode' = symnode /\ symstack' = symstack
    BY <1>1, <1>5 DEF EnterFormal, Skip, GoOn, Goes, Tables, sbVars
  <2> QED
    BY <1>2, <1>3, <1>4, <2>1, StackOutcome
<1>6. CASE tagOf = "func"
  <2> DEFINE arg == Arg(Name(node.name), Kind("none"))
  <2>1. /\ Goes /\ hasSym' = hasSym /\ symnode' = symnode /\ symstack' = symstack
        /\ table' = AddEntry(table, top.kind.lut, arg.ident, Symbol(arg.kind, arg.ident, table.ref))
    BY <1>6 DEF EnterFormal, GoOn, Goes, sbVars
  <2>2. Name(node.name) \in NamesMade(ast, pos)
    <3>1. NamesMade(ast, pos) = {Name(ast[pos].name)}
      BY <1>2 DEF NamesMade, LoopTags
    <3> QED
      BY <3>1 DEF node
  <2>3. arg.ident = Name(node.name)
    BY DEF Arg
  <2>4. \E x \in NamesMade(ast, pos) : \E s : table' = AddEntry(table, top.kind.lut, x, s)
    BY <2>1, <2>2, <2>3
  <2> HIDE DEF arg
  <2> QED
    BY <1>1, <1>2, <1>3, <1>4, <2>1, <2>4, StackOutcome
<1> QED
  BY <1>5, <1>6

(* The entry of a range outside a variable enters its name. *)
LEMMA RangeStep ==
  ASSUME NEW nest, NEW c, Placed(nest, c), EnterRange
  PROVE  Outcome
<1>1. pos \in DOMAIN ast /\ pos \in 1 .. Len(ast) /\ hasSym /\ Scoped(ast) /\ Flat(ast, pos)
      /\ tagOf = top.kind.tag /\ top.kind.tag \in {"module", "func"}
  BY AtTop DEF Placed
<1>2. pos \in Opened(ast) /\ ast[pos].tag = "Range"
  BY <1>1, TagOfStep DEF node
<1>3. ~IsScope(ast, pos) /\ ~IsElseIf(ast, pos)
  BY <1>2 DEF IsScope, IsElse, IsElseIf, LoopTags
<1>4. InScopes(ast, pos + 1) = InScopes(ast, pos)
  BY <1>1, <1>2, <1>3, NotAScope
<1>5. CASE Skip
  <2>1. Goes /\ hasSym' /\ table' = table /\ symnode' = symnode /\ symstack' = symstack
    BY <1>1, <1>5 DEF Skip, GoOn, Goes, Tables, sbVars
  <2> QED
    BY <1>2, <1>3, <1>4, <2>1, StackOutcome
<1>6. CASE ~Skip
  <2> DEFINE arg == Arg(At("range_"), New("range"))
  <2>1. /\ tagOf = "func" /\ IsLoopName(top.ident)
        /\ Goes /\ hasSym' = hasSym /\ symstack' = symstack
        /\ table' = AddEntry(table, top.kind.lut, arg.ident, Symbol(arg.kind, arg.ident, table.ref))
    BY <1>1, <1>6 DEF EnterRange, GoOn, Goes
  <2>2. At("range_") \in NamesMade(ast, pos)
    <3>1. ~InVariable(ast, pos)
      BY <1>1, OutsideVariables
    <3>2. NamesMade(ast, pos) = {NameAt(ast, "range_", pos)}
      BY <1>2, <3>1 DEF NamesMade, LoopTags
    <3> QED
      BY <3>2 DEF At, NameAt, node
  <2>3. arg.ident = At("range_")
    BY DEF Arg
  <2>4. \E x \in NamesMade(ast, pos) : \E s : table' = AddEntry(table, top.kind.lut, x, s)
    BY <2>1, <2>2, <2>3
  <2>5. ast[Innermost(nest)].tag \notin {"Conditional", "Block"}
    BY <2>1, TopWords
  <2>6. ~InVariable(ast, pos)
    BY <1>1, OutsideVariables
  <2> HIDE DEF arg
  <2> QED
    BY <1>1, <1>2, <1>3, <1>4, <2>1, <2>4, <2>5, <2>6, StackOutcome
<1> QED
  BY <1>5, <1>6

(* The entry of a tuple outside a variable. *)
LEMMA TupleStep ==
  ASSUME NEW nest, NEW c, Placed(nest, c), EnterTuple
  PROVE  Outcome
<1>1. /\ pos \in DOMAIN ast /\ pos \in 1 .. Len(ast) /\ hasSym /\ Scoped(ast)
      /\ tagOf = top.kind.tag
      /\ top.kind.tag = IF ast[Innermost(nest)].tag = "Module" THEN "module" ELSE "func"
  BY AtTop DEF Placed
<1>2. pos \in Opened(ast) /\ ast[pos].tag = "Tuple"
  BY <1>1, TagOfStep DEF node
<1>3. ~IsScope(ast, pos) /\ ~IsElseIf(ast, pos)
  BY <1>2 DEF IsScope, IsElse, IsElseIf, LoopTags
<1>4. InScopes(ast, pos + 1) = InScopes(ast, pos)
  BY <1>1, <1>2, <1>3, NotAScope
<1>5. ast[Innermost(nest)].tag # "Module"
  <2>1. ScopeAround(ast, pos) = Innermost(nest)
    BY <1>1, <1>2, InnermostIs DEF Placed, Follows
  <2> QED
    BY <1>1, <1>2, <2>1 DEF Scoped, ExpressionsBelong
<1>6. Skip
  BY <1>1, <1>5 DEF EnterTuple
<1>7. Goes /\ hasSym' /\ table' = table /\ symnode' = symnode /\ symstack' = symstack
  BY <1>1, <1>6 DEF Skip, GoOn, Goes, Tables, sbVars
<1> QED
  BY <1>2, <1>3, <1>4, <1>7, StackOutcome

(* The end of a range outside a variable. *)
LEMMA ExitRangeStep ==
  ASSUME NEW nest, NEW c, Placed(nest, c), ExitRange
  PROVE  Outcome
<1>1. pos \in DOMAIN ast /\ pos \in 1 .. Len(ast) /\ hasSym /\ Scoped(ast)
      /\ tagOf = top.kind.tag /\ top.kind.tag \in {"module", "func"}
  BY AtTop DEF Placed
<1>2. pos \notin Opened(ast) /\ ast[pos].tag = "Range"
  BY <1>1, TagOfStep DEF node
<1>3. InScopes(ast, pos + 1) = InScopes(ast, pos)
  BY <1>1, <1>2, NoScopeEnds DEF ClosingTags, LoopTags
<1>4. Goes /\ hasSym' /\ table' = table /\ symnode' = symnode /\ symstack' = symstack
  BY <1>1 DEF ExitRange, Skip, GoOn, Goes, Tables, sbVars
<1> QED
  BY <1>2, <1>3, <1>4, StackOutcome

(* The end of a block leaves a scope only where the source does. *)
LEMMA ExitBlockStep ==
  ASSUME NEW nest, NEW c, Placed(nest, c), ExitBlock
  PROVE  Outcome
<1>1. pos \in DOMAIN ast /\ pos \in 1 .. Len(ast) /\ hasSym /\ Scoped(ast)
      /\ top = symstack[Len(symstack)] /\ IsSymbol(top) /\ IsKind(top.kind)
  BY AtTop DEF Placed
<1>2. pos \notin Opened(ast) /\ ast[pos].tag = "Block"
  BY <1>1, TagOfStep DEF node
<1>3. InScopes(ast, pos + 1) = InScopes(ast, pos)
  BY <1>1, <1>2, NoScopeEnds DEF ClosingTags, LoopTags
<1>4. Goes /\ hasSym' /\ table' = table /\ symnode' = symnode /\ symstack' = symstack
  BY <1>1 DEF ExitBlock, Skip, GoOn, Goes, Tables, sbVars
<1> QED
  BY <1>2, <1>3, <1>4, StackOutcome

(* A block opens a scope if and only if it is an else-block. *)
LEMMA BlockStep ==
  ASSUME NEW nest, NEW c, Placed(nest, c), EnterBlock
  PROVE  Outcome
<1> DEFINE s == Innermost(nest)
           g == Parent(ast, pos)
<1>1. /\ pos \in DOMAIN ast /\ pos \in 1 .. Len(ast) /\ pos \in Nat /\ hasSym /\ Scoped(ast) /\ Flat(ast, pos)
      /\ tagOf = top.kind.tag /\ Bracketing(ast)
      /\ top.kind.tag = IF ast[s].tag = "Module" THEN "module" ELSE "func"
      /\ s = nest[Len(nest)] /\ Len(nest) > 0
  BY AtTop DEF Placed
<1>2. pos \in Opened(ast) /\ ast[pos].tag = "Block"
  BY <1>1, TagOfStep DEF node
<1>3. ScopeAround(ast, pos) = s
  BY <1>1, <1>2, InnermostIs DEF Placed, Follows
<1>4. /\ g \in Opened(ast) /\ pos # 1
      /\ ast[g].tag = "Conditional" => s = ScopeOf(ast, g)
      /\ ast[g].tag # "Conditional" => ast[s].tag \in {"Function"} \cup LoopTags
  <2>1. ~InVariable(ast, pos)
    BY <1>1, OutsideVariables
  <2> QED
    BY <1>1, <1>2, <1>3, <2>1, BlockStandsIn
<1>5. g \in Nat /\ g < pos
  <2>1. g < pos
    BY <1>1, <1>2, <1>4, ParentIs
  <2> HIDE DEF g
  <2> QED
    BY <1>1, <1>4, <2>1 DEF Bracketing
<1>6. ast[g].tag = "Conditional" =>
        /\ s = IF IsElseIf(ast, g) THEN g - 1 ELSE g
        /\ ast[s].tag = "Conditional" \/ (ast[s].tag = "Block" /\ Renamed(ast, s, pos))
  <2>1. SUFFICES ASSUME ast[g].tag = "Conditional"
                 PROVE  /\ s = IF IsElseIf(ast, g) THEN g - 1 ELSE g
                        /\ ast[s].tag = "Conditional" \/ (ast[s].tag = "Block" /\ Renamed(ast, s, pos))
    OBVIOUS
  <2>2. s = IF IsElseIf(ast, g) THEN g - 1 ELSE g
    BY <1>4, <2>1 DEF ScopeOf
  <2>3. CASE IsElseIf(ast, g)
    <3>1. IsElse(ast, g - 1)
      BY <1>1, <1>4, <2>1, <2>3, ScopeOfIs
    <3>2. s = g - 1 /\ ast[s].tag = "Block"
      BY <2>2, <2>3, <3>1 DEF IsElse
    <3>3. s + 1 = g /\ pos > s + 1
      BY <1>5, <3>2
    <3>4. Renamed(ast, s, pos)
      BY <1>4, <2>1, <3>3 DEF Renamed
    <3> QED
      BY <2>2, <3>2, <3>4
  <2>4. CASE ~IsElseIf(ast, g)
    BY <2>1, <2>2, <2>4
  <2> QED
    BY <2>3, <2>4
<1>7. ast[s].tag # "Module" /\ tagOf = "func"
  BY <1>1, <1>4, <1>6 DEF LoopTags
<1>8. CASE symnode = 0
  <2>1. Abort
    BY <1>7, <1>8 DEF EnterBlock
  <2> QED
    BY <2>1 DEF Abort, Tables, sbVars, Aborts, Outcome
<1>9. CASE symnode # 0
  <2>1. IsIf /\ LineOf(symnode) # LineOf(ast[pos].line) <=> IsElse(ast, pos)
    <3>1. CASE ast[g].tag = "Conditional"
      <4>1. IsIf
        BY <1>6, <3>1, TopWords
      <4>2. ast[s].tag \in {"Conditional", "Block"}
        BY <1>6, <3>1
      <4>3. symnode = ast[s].line
        BY <1>1, <1>9, <4>2 DEF Placed, Follows, LineKept
      <4>4. IsElse(ast, pos) <=> ~OnOneLine(ast, pos, IF IsElseIf(ast, g) THEN g - 1 ELSE g)
        BY <1>1, <1>2, <3>1 DEF Scoped, ArmsAreOnTheirLines
      <4>5. IsElse(ast, pos) <=> ~OnOneLine(ast, pos, s)
        BY <1>6, <3>1, <4>4
      <4> QED
        BY <4>1, <4>3, <4>5 DEF OnOneLine
    <3>2. CASE ast[g].tag # "Conditional"
      <4>1. ~IsIf
        BY <1>4, <3>2, TopWords DEF LoopTags
      <4>2. ~IsElse(ast, pos)
        BY <3>2 DEF IsElse
      <4> QED
        BY <4>1, <4>2
    <3> QED
      BY <3>1, <3>2
  <2>2. CASE IsElse(ast, pos)
    <3>1. OpenAt("func", At("block"))
      BY <1>7, <1>9, <2>1, <2>2 DEF EnterBlock, node
    <3>2. IsScope(ast, pos)
      BY <2>2 DEF IsScope
    <3>3. ~Renamed(ast, pos, pos + 1)
      BY <1>1 DEF Renamed
    <3>4. SigOf(ast, pos, pos + 1) = NameAt(ast, "block", pos) /\ IdentOf(ast, pos, pos + 1) = NameAt(ast, "block", pos)
      BY <1>2, <3>3 DEF SigOf, IdentOf, BaseOf
    <3>5. At("block") = NameAt(ast, "block", pos)
      BY DEF At, NameAt, node
    <3> QED
      BY <1>2, <3>1, <3>2, <3>4, <3>5, OpenOutcome
  <2>3. CASE ~IsElse(ast, pos)
    <3>1. Skip
      BY <1>7, <1>9, <2>1, <2>3 DEF EnterBlock, node
    <3>2. ~IsScope(ast, pos) /\ ~IsElseIf(ast, pos)
      BY <1>2, <2>3 DEF IsScope, IsElseIf, LoopTags
    <3>3. InScopes(ast, pos + 1) = InScopes(ast, pos)
      BY <1>1, <1>2, <3>2, NotAScope
    <3>4. Goes /\ hasSym' /\ table' = table /\ symnode' = symnode /\ symstack' = symstack
      BY <1>1, <3>1 DEF Skip, GoOn, Goes, Tables, sbVars
    <3> QED
      BY <1>2, <3>2, <3>3, <3>4, StackOutcome
  <2> QED
    BY <2>2, <2>3
<1> QED
  BY <1>8, <1>9

(* The conditional with which an else-block begins gives it another name. *)
LEMMA ElseIfEnters ==
  ASSUME NEW a, Scoped(a), NEW p \in 2 .. Len(a), p \in Opened(a), IsElseIf(a, p), a[p].tag = "Conditional",
         NEW nest, NEW c, NEW stack, NEW st, NEW line, IsTable(st),
         Follows(a, p, nest, c, stack, st, line), Flat(a, p),
         Innermost(nest) = p - 1, a[p - 1].tag = "Block",
         NEW t, IsSymbol(t), IsKind(t.kind), t.kind.tag = "func",
         t.kind.lut = stack[Len(stack)].kind.lut, t.scope = stack[Len(stack)].scope,
         t.kind.sig = NameAt(a, "elseif", p - 1), t.ident = NameAt(a, "else", p - 1)
  PROVE  Follows(a, p + 1, nest, c, [stack EXCEPT ![Len(stack)] = t], st, line)
<1> DEFINE n == Len(nest)
<1>0. SUFFICES ASSUME NEW stack2, stack2 = [stack EXCEPT ![Len(stack)] = t]
               PROVE  Follows(a, p + 1, nest, c, stack2, st, line)
  OBVIOUS
<1>1. p \in 1 .. Len(a) /\ p \in Nat
  BY ScopedBrackets DEF Bracketing
<1>2. Held(a, p, nest, c, stack, st) /\ \A k \in 1 .. n : nest[k] \in InScopes(a, p)
  BY FollowsHeld
<1>3. n \in Nat /\ n > 0 /\ n \in 1 .. n /\ nest[n] = p - 1
  <2>1. n \in Nat /\ n > 0
    BY ModuleIsFirst DEF Follows
  <2> QED
    BY <2>1 DEF Innermost
<1>4. Len(stack) = n /\ IsFcnSeq(stack)
  BY <1>3 DEF Follows
<1>5. /\ IsFcnSeq(stack2) /\ Len(stack2) = n
      /\ \A i \in 1 .. n : stack2[i] = IF i = n THEN t ELSE stack[i]
  <2>1. IsFcnSeq(stack) /\ Len(stack) > 0
    BY <1>3, <1>4
  <2>2. /\ IsFcnSeq(stack2) /\ Len(stack2) = Len(stack)
        /\ \A i \in 1 .. Len(stack) : stack2[i] = IF i = Len(stack) THEN t ELSE stack[i]
    <3>1. NewTop(stack, t, stack2)
      BY <1>0, <2>1, NewTopOf
    <3> QED
      BY <3>1 DEF NewTop
  <2> QED
    BY <1>4, <2>2
<1>6. StandsFor(a, p + 1, p - 1, t)
  <2>1. (p - 1) + 1 = p /\ p + 1 > (p - 1) + 1
    BY <1>1
  <2>2. Renamed(a, p - 1, p + 1)
    BY <2>1 DEF Renamed
  <2> QED
    BY <2>2 DEF StandsFor, SigOf, IdentOf
<1>7. Symbols(a, p + 1, nest, c, stack2)
  <2>1. ASSUME NEW k \in 1 .. n
        PROVE  /\ StandsFor(a, p + 1, nest[k], stack2[k])
               /\ stack2[k].kind.lut = c[k] /\ stack2[k].scope = c[k - 1]
    <3>1. StandsFor(a, p, nest[k], stack[k]) /\ stack[k].kind.lut = c[k] /\ stack[k].scope = c[k - 1]
      BY <1>2 DEF Held, Symbols
    <3>2. CASE k = n
      BY <1>3, <1>4, <1>5, <1>6, <3>1, <3>2
    <3>3. CASE k # n
      <4>1. k < n
        BY <1>3, <3>3
      <4>2. nest[k] < nest[n]
        BY <1>3, <4>1 DEF Follows, Nest, Nested
      <4>3. nest[k] # p - 1
        BY <1>1, <1>3, <4>2
      <4>4. StandsFor(a, p + 1, nest[k], stack[k])
        BY <1>1, <1>2, <3>1, <4>3, NameStays
      <4> QED
        BY <1>5, <3>1, <3>3, <4>4
    <3> QED
      BY <3>2, <3>3
  <2> QED
    BY <2>1 DEF Symbols
<1>8. Known(a, p + 1, nest, c, st)
  BY <1>1, <1>2, KnownStays DEF Held
<1>9. Held(a, p + 1, nest, c, stack2, st) /\ Balanced(nest, stack2)
  BY <1>2, <1>5, <1>7, <1>8 DEF Held, Balanced
<1>10. ~IsScope(a, p)
  BY DEF IsScope, IsElse, LoopTags
<1>11. Nest(a, p + 1, nest)
  BY <1>10, NotAScope, NestStays DEF Follows
<1>12. Flat(a, p + 1) /\ LineKept(a, nest, line)
  BY <1>1, StillFlat DEF Follows
<1> QED
  BY <1>9, <1>11, <1>12, HeldFollows

(* The entry of a conditional opens its scope, that of an else-if renames  *)
(* the symbol of the else-block.                                           *)
LEMMA ConditionalStep ==
  ASSUME NEW nest, NEW c, Placed(nest, c), EnterConditional
  PROVE  Outcome
<1> DEFINE s == Innermost(nest)
<1>1. /\ pos \in DOMAIN ast /\ pos \in 1 .. Len(ast) /\ pos \in Nat /\ hasSym /\ Scoped(ast) /\ Flat(ast, pos)
      /\ Bracketing(ast) /\ IsSymbol(top) /\ IsKind(top.kind) /\ top = symstack[Len(symstack)]
      /\ StandsFor(ast, pos, s, top) /\ pos \in 2 .. Len(ast) /\ IsTable(table)
      /\ Follows(ast, pos, nest, c, symstack, table, symnode)
  BY AtTop DEF Placed
<1>2. pos \in Opened(ast) /\ ast[pos].tag = "Conditional"
  BY <1>1, TagOfStep DEF node
<1>3. ScopeAround(ast, pos) = s
  BY <1>1, <1>2, InnermostIs DEF Follows
<1>4. CASE IsElseIf(ast, pos)
  <2>1. s = pos - 1
    BY <1>1, <1>2, <1>3, <1>4, AroundElseIf
  <2>2. ast[s].tag = "Block"
    <3>1. IsElse(ast, pos - 1)
      BY <1>1, <1>2, <1>4, ScopeOfIs
    <3> QED
      BY <2>1, <3>1 DEF IsElse
  <2>3. ~Renamed(ast, s, pos)
    BY <1>1, <2>1 DEF Renamed
  <2>4. IsElseBlock
    BY <2>2, <2>3, TopWords
  <2> DEFINE i == [top.ident EXCEPT !.base = "else"]
             g == [top.kind.sig EXCEPT !.base = "elseif"]
             k == [top.kind EXCEPT !.sig = g]
             t0 == [top EXCEPT !.ident = i]
             t == [t0 EXCEPT !.kind = k]
  <2>5. SetTop(t)
    BY <1>1, <2>4 DEF EnterConditional
  <2>6. Goes /\ table' = table /\ hasSym' = hasSym /\ symnode' = symnode
        /\ symstack' = [symstack EXCEPT ![Len(symstack)] = t]
    BY <2>5 DEF SetTop, SetTopAnd, GoOn, Goes
  <2>7. SigOf(ast, s, pos) = NameAt(ast, "block", s) /\ IdentOf(ast, s, pos) = NameAt(ast, "block", s)
    BY <2>2, <2>3 DEF SigOf, IdentOf, BaseOf
  <2>8. /\ top.kind.sig = NameAt(ast, "block", s) /\ top.ident = NameAt(ast, "block", s)
        /\ top.kind.tag = "func"
    BY <1>1, <2>2, <2>7 DEF StandsFor
  <2>9. i = NameAt(ast, "else", s) /\ g = NameAt(ast, "elseif", s)
    BY <2>8 DEF NameAt, Ident
  <2> HIDE DEF i, g
  <2>10. IsKind(k) /\ k.tag = top.kind.tag /\ k.lut = top.kind.lut /\ k.sig = g
    BY <1>1 DEF IsKind
  <2> HIDE DEF k
  <2>11. IsSymbol(t0) /\ t0.ident = i /\ t0.scope = top.scope
    BY <1>1 DEF IsSymbol
  <2> HIDE DEF t0
  <2>12. IsSymbol(t) /\ t.ident = i /\ t.scope = top.scope /\ t.kind = k
    BY <2>11 DEF IsSymbol
  <2> HIDE DEF t
  <2>13. Follows(ast, pos + 1, nest, c, [symstack EXCEPT ![Len(symstack)] = t], table, symnode)
    BY <1>1, <1>2, <1>4, <2>1, <2>2, <2>8, <2>9, <2>10, <2>12, ElseIfEnters
  <2> QED
    BY <1>1, <2>6, <2>13 DEF Outcome, Keeping
<1>5. CASE ~IsElseIf(ast, pos)
  <2>1. ~IsElseBlock
    BY <1>1, <1>2, <1>3, <1>5, ConditionalStandsIn, TopWords
  <2>2. OpenAt("func", At("if"))
    BY <2>1 DEF EnterConditional
  <2>3. IsScope(ast, pos)
    BY <1>2, <1>5 DEF IsScope
  <2>4. SigOf(ast, pos, pos + 1) = NameAt(ast, "if", pos) /\ IdentOf(ast, pos, pos + 1) = NameAt(ast, "if", pos)
    BY <1>2 DEF SigOf, IdentOf, BaseOf
  <2>5. At("if") = NameAt(ast, "if", pos)
    BY DEF At, NameAt, node
  <2> QED
    BY <1>2, <2>2, <2>3, <2>4, <2>5, OpenOutcome
<1> QED
  BY <1>4, <1>5

(***************************************************************************)
(* The ends of loops, functions and conditionals.                          *)
(***************************************************************************)
(* The symbol of the greatest scope is on top. *)
LEMMA Uppermost ==
  ASSUME NEW nest, NEW c, Placed(nest, c), NEW t \in InScopes(ast, pos), \A s \in InScopes(ast, pos) : s <= t
  PROVE  /\ Innermost(nest) = t /\ StandsFor(ast, pos, t, top) /\ nest[Len(nest)] = t
         /\ top.scope = c[Len(nest) - 1] /\ Held(ast, pos, nest, c, symstack, table)
         /\ \A k \in 1 .. Len(nest) : nest[k] \in InScopes(ast, pos)
         /\ \A k \in 1 .. Len(nest) - 1 : nest[k] < t
<1> DEFINE n == Len(nest)
<1>1. Scoped(ast) /\ Follows(ast, pos, nest, c, symstack, table, symnode)
  BY DEF Placed
<1>2. /\ n \in Nat /\ n > 0 /\ n \in 1 .. n /\ Innermost(nest) = nest[n] /\ Len(symstack) = n
      /\ top = symstack[Len(symstack)] /\ StandsFor(ast, pos, Innermost(nest), top)
  BY AtTop
<1>3. Nested(ast, InScopes(ast, pos), nest)
  BY <1>1 DEF Follows, Nest
<1>4. InScopes(ast, pos) \subseteq Nat
  BY <1>1, InScopesAreNodes
<1>5. nest[n] = t
  BY <1>3, <1>4, NestCloses
<1>6. top.scope = c[n - 1]
  BY <1>1, <1>2 DEF Follows, Symbols
<1>7. Held(ast, pos, nest, c, symstack, table) /\ \A k \in 1 .. n : nest[k] \in InScopes(ast, pos)
  BY <1>1, FollowsHeld
<1>8. ASSUME NEW k \in 1 .. n - 1 PROVE nest[k] < t
  <2>1. k \in 1 .. n /\ k < n
    BY <1>2
  <2> QED
    BY <1>2, <1>3, <1>5, <2>1 DEF Nested
<1> QED
  BY <1>2, <1>5, <1>6, <1>7, <1>8

(* A scope is left, with the node x. *)
LEMMA LeaveOutcome ==
  ASSUME NEW nest, NEW c, Placed(nest, c), NEW x \in Opened(ast), CloseOf(ast, x) = pos,
         ast[pos].tag # "Variable",
         NEW t \in InScopes(ast, pos), InScopes(ast, pos + 1) = InScopes(ast, pos) \ {t},
         \A s \in InScopes(ast, pos) : s <= t, ast[t].tag # "Module",
         MadeIn(ast, x) = ScopeAround(ast, t), top.kind.sig \in NamesMade(ast, x), NEW s,
         Goes, table' = PopScope(AddEntry(table, top.scope, top.kind.sig, s)),
         symstack' = Front(symstack), symnode' = 0, hasSym'
  PROVE  Outcome
<1>1. /\ Scoped(ast) /\ pos \in 2 .. Len(ast) /\ IsTable(table) /\ Flat(ast, pos)
      /\ Follows(ast, pos, nest, c, symstack, table, symnode)
  BY DEF Placed
<1>2. Bracketing(ast) /\ pos \in Nat /\ top = symstack[Len(symstack)]
  BY AtTop
<1>3. pos \notin Opened(ast) /\ x < pos /\ x \in Nat
  BY <1>2 DEF Bracketing
<1>4. MadeBy(ast, x, pos + 1)
  BY <1>2, <1>3 DEF MadeBy
<1>5. Follows(ast, pos + 1, Front(nest), c, Front(symstack),
              PopScope(AddEntry(table, top.scope, top.kind.sig, s)), 0)
  <2> DEFINE sig == top.kind.sig
  <2>1. sig \in NamesMade(ast, x)
    OBVIOUS
  <2> HIDE DEF sig
  <2>2. Follows(ast, pos + 1, Front(nest), c, Front(symstack),
                PopScope(AddEntry(table, symstack[Len(symstack)].scope, sig, s)), 0)
    BY <1>1, <1>3, <1>4, <2>1, ScopeLeaves, ZenonT(40)
  <2>3. Follows(ast, pos + 1, Front(nest), c, Front(symstack),
                PopScope(AddEntry(table, top.scope, sig, s)), 0)
    BY <1>2, <2>2, Zenon
  <2> QED
    BY <2>3 DEF sig
<1> QED
  BY <1>5 DEF Outcome, Keeping

(* The name of a function or a conditional that ends is new. *)
LEMMA LeftIsNew ==
  ASSUME NEW nest, NEW c, Placed(nest, c), NEW x \in Opened(ast), CloseOf(ast, x) = pos,
         ast[x].tag \in {"Function", "Conditional"}, ScopeOf(ast, x) \in InScopes(ast, pos),
         \A s \in InScopes(ast, pos) : s <= ScopeOf(ast, x), top.ident = NameOf(ast, x)
  PROVE  ~Found(Find(table, top.scope, top.ident))
<1> DEFINE n == Len(nest)
<1>1. Scoped(ast) /\ IsTable(table) /\ n \in Nat /\ n > 0
  BY AtTop DEF Placed
<1>2. /\ top.scope = c[n - 1] /\ Held(ast, pos, nest, c, symstack, table)
      /\ \A k \in 1 .. n : nest[k] \in InScopes(ast, pos)
      /\ \A k \in 1 .. n - 1 : nest[k] < ScopeOf(ast, x)
  BY Uppermost
<1>3. n - 1 \in 0 .. n /\ \A k \in 1 .. n - 1 : k \in 1 .. n
  BY <1>1
<1>4. \A k \in 1 .. n - 1 : /\ nest[k] \in InScopes(ast, CloseOf(ast, x))
                            /\ ast[x].tag # "Variable" => nest[k] < ScopeOf(ast, x)
  BY <1>2, <1>3
<1>5. ~Found(Find(table, c[n - 1], NameOf(ast, x)))
  BY <1>1, <1>2, <1>3, <1>4, NameIsNew
<1> QED
  BY <1>2, <1>5

(* Every end is the end of a node. *)
LEMMA ClosedNode ==
  ASSUME NEW a, Bracketing(a), NEW p \in 1 .. Len(a), p \notin Opened(a)
  PROVE  \E x \in Opened(a) : CloseOf(a, x) = p /\ a[x].tag = a[p].tag /\ x \in Nat /\ x < p
BY DEF Bracketing

(* The end of a loop leaves its scope. *)
LEMMA LoopEnds ==
  ASSUME NEW nest, NEW c, Placed(nest, c), ExitLoop
  PROVE  Outcome
<1>1. /\ pos \in DOMAIN ast /\ pos \in 1 .. Len(ast) /\ hasSym /\ Scoped(ast) /\ Bracketing(ast)
      /\ tagOf = top.kind.tag
      /\ top.kind.tag = IF ast[Innermost(nest)].tag = "Module" THEN "module" ELSE "func"
  BY AtTop DEF Placed
<1>2. pos \notin Opened(ast) /\ ast[pos].tag \in LoopTags
  BY <1>1, TagOfStep DEF node
<1>3. PICK x \in Opened(ast) : CloseOf(ast, x) = pos /\ ast[x].tag = ast[pos].tag
  BY <1>1, <1>2, ClosedNode
<1>4. /\ x \in InScopes(ast, pos) /\ InScopes(ast, pos + 1) = InScopes(ast, pos) \ {x}
      /\ \A s \in InScopes(ast, pos) : s <= x
  BY <1>1, <1>2, <1>3, BodyEnds
<1>5. Innermost(nest) = x /\ StandsFor(ast, pos, x, top)
  BY <1>4, Uppermost
<1>6. ast[x].tag \in LoopTags /\ ast[x].tag # "Module"
  BY <1>2, <1>3 DEF LoopTags
<1>7. top.kind.sig \in NamesMade(ast, x)
  <2>1. SigOf(ast, x, pos) = NameAt(ast, LoopName(ast[x].tag), x)
    BY <1>6 DEF SigOf, BaseOf, LoopTags
  <2>2. NamesMade(ast, x) = {NameAt(ast, LoopName(ast[x].tag), x)}
    BY <1>6 DEF NamesMade, LoopTags
  <2> QED
    BY <1>5, <2>1, <2>2 DEF StandsFor
<1>8. MadeIn(ast, x) = ScopeAround(ast, x)
  BY <1>6 DEF MadeIn, IsElseIf, LoopTags
<1>9. tagOf = "func"
  BY <1>1, <1>5, <1>6
<1>10. /\ Goes /\ table' = PopScope(AddEntry(table, top.scope, top.kind.sig, top))
       /\ symstack' = Front(symstack) /\ symnode' = 0 /\ hasSym'
  BY <1>1, <1>9 DEF ExitLoop, EnteredAndLeft, GoOn, Goes
<1>11. ast[pos].tag # "Variable"
  BY <1>2 DEF LoopTags
<1> QED
  BY <1>3, <1>4, <1>6, <1>7, <1>8, <1>10, <1>11, LeaveOutcome

(* What exit(Function) does when the name is new. *)
LEMMA LeavingIs ==
  ASSUME NEW stack, NEW st, LeaveFunction(stack, st), hasSym,
         ~Found(Find(st, Last(stack).scope, Last(stack).ident))
  PROVE  /\ Goes /\ symstack' = Front(stack) /\ symnode' = 0 /\ hasSym' /\ Silent
         /\ \E s : table' = PopScope(AddEntry(st, Last(stack).scope, Last(stack).kind.sig, s))
BY DEF LeaveFunction, GoOn, Goes, Silent

(* The end of a function leaves its scope. *)
LEMMA FunctionEnds ==
  ASSUME NEW nest, NEW c, Placed(nest, c), ExitFunction
  PROVE  Outcome /\ Silent
<1>1. /\ pos \in DOMAIN ast /\ pos \in 1 .. Len(ast) /\ hasSym /\ Scoped(ast) /\ Bracketing(ast)
      /\ tagOf = top.kind.tag
      /\ top.kind.tag = IF ast[Innermost(nest)].tag = "Module" THEN "module" ELSE "func"
  BY AtTop DEF Placed
<1>2. pos \notin Opened(ast) /\ ast[pos].tag = "Function"
  BY <1>1, TagOfStep DEF node
<1>3. PICK x \in Opened(ast) : CloseOf(ast, x) = pos /\ ast[x].tag = ast[pos].tag
  BY <1>1, <1>2, ClosedNode
<1>4. /\ x \in InScopes(ast, pos) /\ InScopes(ast, pos + 1) = InScopes(ast, pos) \ {x}
      /\ \A s \in InScopes(ast, pos) : s <= x
  BY <1>1, <1>2, <1>3, BodyEnds
<1>5. Innermost(nest) = x /\ StandsFor(ast, pos, x, top)
  BY <1>4, Uppermost
<1>6. ast[x].tag = "Function" /\ ~IsElseIf(ast, x)
  BY <1>2, <1>3 DEF IsElseIf
<1>7. top.kind.sig = SignatureOf(ast, x) /\ top.ident = SignatureOf(ast, x)
  BY <1>5, <1>6 DEF StandsFor, SigOf, IdentOf
<1>8. top.kind.sig \in NamesMade(ast, x)
  <2>1. NamesMade(ast, x) = {SignatureOf(ast, x)}
    BY <1>6 DEF NamesMade, LoopTags
  <2> QED
    BY <1>7, <2>1
<1>9. MadeIn(ast, x) = ScopeAround(ast, x) /\ ScopeOf(ast, x) = x
  BY <1>6 DEF MadeIn, ScopeOf
<1>10. top.ident = NameOf(ast, x)
  BY <1>6, <1>7 DEF NameOf
<1>11. ~Found(Find(table, top.scope, top.ident))
  BY <1>3, <1>4, <1>6, <1>9, <1>10, LeftIsNew
<1>12. LeaveFunction(symstack, table)
  BY <1>1, <1>5, <1>6 DEF ExitFunction
<1>13. /\ Goes /\ symstack' = Front(symstack) /\ symnode' = 0 /\ hasSym' /\ Silent
       /\ \E s : table' = PopScope(AddEntry(table, top.scope, top.kind.sig, s))
  BY <1>1, <1>11, <1>12, LeavingIs DEF top
<1> QED
  BY <1>2, <1>3, <1>4, <1>6, <1>8, <1>9, <1>13, LeaveOutcome

(* The symbol of an else-block that ends. *)
LEMMA ElseSymbol ==
  ASSUME IsSymbol(top), IsKind(top.kind), NEW b, top.kind.sig = NameAt(ast, "block", b)
  PROVE  LET s == [top EXCEPT !.ident.base = "else", !.kind.sig.base = "else"]
         IN  s.scope = top.scope /\ s.kind.sig = NameAt(ast, "else", b)
<1> DEFINE i == [top.ident EXCEPT !.base = "else"]
           g == [top.kind.sig EXCEPT !.base = "else"]
           k == [top.kind EXCEPT !.sig = g]
           u == [top EXCEPT !.ident = i]
           s == [u EXCEPT !.kind = k]
<1>1. g = NameAt(ast, "else", b)
  BY DEF NameAt, Ident
<1> HIDE DEF g
<1>2. k.sig = g
  BY DEF IsKind
<1> HIDE DEF k
<1>3. IsSymbol(u) /\ u.scope = top.scope /\ u.kind = top.kind
  BY DEF IsSymbol
<1>4. [top EXCEPT !.ident.base = "else", !.kind.sig.base = "else"] = s
  <2>1. [top EXCEPT !.ident.base = "else"] = u
    OBVIOUS
  <2> QED
    BY <1>3, <2>1 DEF k, g
<1> HIDE DEF u
<1>5. s.scope = u.scope /\ s.kind = k
  BY <1>3 DEF IsSymbol
<1> QED
  BY <1>1, <1>2, <1>3, <1>4, <1>5

(* A conditional without an else-block of its own ends. *)
LEMMA ConditionalLeft ==
  ASSUME NEW nest, NEW c, Placed(nest, c), ExitConditional,
         NEW x \in Opened(ast), CloseOf(ast, x) = pos, ast[x].tag = "Conditional",
         \A b \in Opened(ast) : ~(IsPlainElse(ast, b) /\ Parent(ast, b) = x)
  PROVE  Outcome /\ Silent
<1> DEFINE t == ScopeOf(ast, x)
<1>1. /\ pos \in DOMAIN ast /\ pos \in 1 .. Len(ast) /\ hasSym /\ Scoped(ast) /\ Bracketing(ast)
      /\ tagOf = top.kind.tag /\ pos \in Nat
      /\ top.kind.tag = IF ast[Innermost(nest)].tag = "Module" THEN "module" ELSE "func"
  BY AtTop DEF Placed
<1>2. InScopes(ast, pos + 1) = InScopes(ast, pos) \ {t} /\ \A s \in InScopes(ast, pos) : s <= t
  BY <1>1, ConditionalEnds
<1>3. /\ t \in Opened(ast) /\ t \in InScopes(ast, pos)
      /\ IsElseIf(ast, x) => t = x - 1 /\ IsElse(ast, x - 1)
  BY <1>1, ScopeOfIs
<1>4. ~IsElseIf(ast, x) => t = x
  BY DEF ScopeOf
<1>5. x \in Nat /\ x < pos
  BY <1>1 DEF Bracketing
<1>6. IsElseIf(ast, x) => ast[t].tag = "Block" /\ Renamed(ast, t, pos)
  <2>1. SUFFICES ASSUME IsElseIf(ast, x) PROVE ast[t].tag = "Block" /\ Renamed(ast, t, pos)
    OBVIOUS
  <2>2. t = x - 1 /\ ast[t].tag = "Block"
    BY <1>3, <2>1 DEF IsElse
  <2>3. t + 1 = x
    BY <1>5, <2>2
  <2> HIDE DEF t
  <2> QED
    BY <1>5, <2>2, <2>3 DEF Renamed
<1> HIDE DEF t
<1>7. Innermost(nest) = t /\ StandsFor(ast, pos, t, top)
  BY <1>2, <1>3, Uppermost
<1>8. ast[t].tag # "Module"
  BY <1>4, <1>6
<1>9. tagOf = "func" /\ ~IsElseBlock
  <2>1. ~(ast[t].tag = "Block" /\ ~Renamed(ast, t, pos))
    BY <1>4, <1>6
  <2>2. ~IsElseBlock
    BY <1>7, <2>1, TopWords
  <2> QED
    BY <1>1, <1>7, <1>8, <2>2
<1>10. top.kind.sig \in NamesMade(ast, x) /\ top.ident = NameOf(ast, x)
  <2>1. CASE IsElseIf(ast, x)
    <3>1. top.kind.sig = NameAt(ast, "elseif", t) /\ top.ident = NameAt(ast, "else", t)
      BY <1>6, <1>7, <2>1 DEF StandsFor, SigOf, IdentOf
    <3>2. NamesMade(ast, x) = {NameAt(ast, "elseif", x - 1)} /\ NameOf(ast, x) = NameAt(ast, "else", x - 1)
      BY <2>1 DEF NamesMade, NameOf, LoopTags
    <3> QED
      BY <1>3, <2>1, <3>1, <3>2
  <2>2. CASE ~IsElseIf(ast, x)
    <3>1. top.kind.sig = NameAt(ast, "if", t) /\ top.ident = NameAt(ast, "if", t)
      BY <1>4, <1>7, <2>2 DEF StandsFor, SigOf, IdentOf, BaseOf
    <3>2. NamesMade(ast, x) = {NameAt(ast, "if", x)} /\ NameOf(ast, x) = NameAt(ast, "if", x)
      BY <2>2 DEF NamesMade, NameOf, LoopTags
    <3> QED
      BY <1>4, <2>2, <3>1, <3>2
  <2> QED
    BY <2>1, <2>2
<1>11. MadeIn(ast, x) = ScopeAround(ast, t)
  BY <1>3, <1>4 DEF MadeIn
<1>12. ~Found(Find(table, top.scope, top.ident))
  <2>1. ScopeOf(ast, x) \in InScopes(ast, pos) /\ \A s \in InScopes(ast, pos) : s <= ScopeOf(ast, x)
    BY <1>2, <1>3 DEF t
  <2> QED
    BY <1>10, <2>1, LeftIsNew
<1>13. LeaveFunction(symstack, table)
  BY <1>1, <1>9, Zenon DEF ExitConditional
<1>14. /\ Goes /\ symstack' = Front(symstack) /\ symnode' = 0 /\ hasSym' /\ Silent
       /\ \E s : table' = PopScope(AddEntry(table, top.scope, top.kind.sig, s))
  BY <1>1, <1>12, <1>13, LeavingIs DEF top
<1>15. ast[pos].tag # "Variable"
  BY <1>1 DEF Bracketing
<1> QED
  BY <1>2, <1>3, <1>8, <1>10, <1>11, <1>14, <1>15, LeaveOutcome

(* A conditional and its else-block end. *)
LEMMA TwoLeft ==
  ASSUME NEW nest, NEW c, Placed(nest, c), ExitConditional,
         NEW x \in Opened(ast), CloseOf(ast, x) = pos, ast[x].tag = "Conditional",
         NEW b \in Opened(ast), IsPlainElse(ast, b), Parent(ast, b) = x
  PROVE  Outcome /\ Silent
<1> DEFINE t == ScopeOf(ast, x)
           s1 == [top EXCEPT !.ident.base = "else", !.kind.sig.base = "else"]
           su == EnteredAndLeft(s1)
           n == Len(nest)
           s == symstack[Len(symstack) - 1]
<1>1. /\ pos \in DOMAIN ast /\ pos \in 1 .. Len(ast) /\ hasSym /\ Scoped(ast) /\ Bracketing(ast)
      /\ tagOf = top.kind.tag /\ pos \in Nat /\ IsTable(table) /\ pos \in 2 .. Len(ast)
      /\ top = symstack[Len(symstack)] /\ IsSymbol(top) /\ IsKind(top.kind) /\ n \in Nat
      /\ Follows(ast, pos, nest, c, symstack, table, symnode) /\ Flat(ast, pos)
  BY AtTop DEF Placed
<1>2. /\ b \in InScopes(ast, pos) /\ t < b
      /\ InScopes(ast, pos + 1) = (InScopes(ast, pos) \ {b}) \ {t}
      /\ \A r \in InScopes(ast, pos) : r <= b /\ (r # b => r <= t)
  BY <1>1, ConditionalWithElseEnds
<1>3. /\ t \in Opened(ast) /\ t \in InScopes(ast, pos)
      /\ IsElseIf(ast, x) => t = x - 1 /\ IsElse(ast, x - 1)
  BY <1>1, ScopeOfIs
<1>4. ~IsElseIf(ast, x) => t = x
  BY DEF ScopeOf
<1>5. x \in Nat /\ x < pos /\ b \in Nat /\ pos \notin Opened(ast) /\ ast[pos].tag = "Conditional"
  BY <1>1 DEF Bracketing
<1>6. IsElseIf(ast, x) => ast[t].tag = "Block" /\ Renamed(ast, t, pos)
  <2>1. SUFFICES ASSUME IsElseIf(ast, x) PROVE ast[t].tag = "Block" /\ Renamed(ast, t, pos)
    OBVIOUS
  <2>2. t = x - 1 /\ ast[t].tag = "Block"
    BY <1>3, <2>1 DEF IsElse
  <2>3. t + 1 = x
    BY <1>5, <2>2
  <2> HIDE DEF t
  <2> QED
    BY <1>5, <2>2, <2>3 DEF Renamed
<1>7. t # b /\ t \in Nat
  <2>1. t \in Nat
    <3>1. CASE IsElseIf(ast, x)
      <4>1. Opened(ast) \subseteq Nat
        BY <1>1 DEF Bracketing
      <4> HIDE DEF t
      <4> QED
        BY <1>3, <4>1
    <3>2. CASE ~IsElseIf(ast, x)
      BY <1>4, <1>5, <3>2
    <3> QED
      BY <3>1, <3>2
  <2>2. b \in Nat
    BY <1>1 DEF Bracketing
  <2> HIDE DEF t
  <2> QED
    BY <1>2, <2>1, <2>2
<1> HIDE DEF t
<1>8. Innermost(nest) = b /\ StandsFor(ast, pos, b, top)
  BY <1>2, Uppermost
<1>9. IsElse(ast, b) /\ ast[b].tag = "Block" /\ ~Renamed(ast, b, pos)
  BY DEF IsPlainElse, IsElse, Renamed, Opened
<1>10. IsElseBlock
  BY <1>8, <1>9, TopWords
<1>11. s1.scope = top.scope /\ s1.kind.sig = NameAt(ast, "else", b)
  <2>1. top.kind.sig = NameAt(ast, "block", b)
    BY <1>8, <1>9 DEF StandsFor, SigOf, BaseOf
  <2> QED
    BY <1>1, <2>1, ElseSymbol
<1> HIDE DEF s1
<1> DEFINE x1 == s1.kind.sig
<1>12. x1 \in NamesMade(ast, b) /\ MadeIn(ast, b) = ScopeAround(ast, b) /\ MadeBy(ast, b, pos)
  <2>1. NamesMade(ast, b) = {NameAt(ast, "else", b)}
    BY <1>9 DEF NamesMade, LoopTags
  <2>2. ~IsElseIf(ast, b)
    BY <1>9 DEF IsElseIf
  <2>3. CloseOf(ast, x) = CloseOf(ast, b) + 1 /\ CloseOf(ast, b) \in Nat /\ b < CloseOf(ast, b)
    BY <1>1, <1>9, ElseEnds DEF Bracketing
  <2>4. CloseOf(ast, b) < pos /\ b < pos
    BY <1>5, <2>3
  <2> QED
    BY <1>11, <2>1, <2>2, <2>4 DEF MadeIn, MadeBy
<1> HIDE DEF x1
<1>13. su = PopScope(AddEntry(table, symstack[Len(symstack)].scope, x1, s1))
  BY <1>1, <1>11 DEF EnteredAndLeft, x1
<1> HIDE DEF su
<1> DEFINE x2 == s.kind.sig
<1>14. MadeIn(ast, x) = ScopeAround(ast, t) /\ MadeBy(ast, x, pos + 1) /\ ast[t].tag # "Module"
  <2>1. MadeIn(ast, x) = ScopeAround(ast, t)
    BY <1>3, <1>4 DEF MadeIn
  <2>2. x < pos + 1 /\ pos < pos + 1
    BY <1>1, <1>5
  <2>3. MadeBy(ast, x, pos + 1)
    BY <2>2 DEF MadeBy
  <2>4. ast[t].tag # "Module"
    BY <1>4, <1>6
  <2> QED
    BY <2>1, <2>3, <2>4
<1>15. /\ Len(symstack) = n /\ n > 2 /\ Last(Front(symstack)) = s
       /\ nest[n] = b /\ nest[n - 1] = t /\ s.scope = c[n - 2] /\ StandsFor(ast, pos, t, s)
       /\ IsTable(su) /\ Held(ast, pos, Front(nest), c, Front(symstack), su)
       /\ \A y2 \in NamesMade(ast, x) : \A s2 :
            Follows(ast, pos + 1, Front(Front(nest)), c, Front(Front(symstack)),
                    PopScope(AddEntry(su, s.scope, y2, s2)), 0)
  <2>1. NamesMade(ast, x) # {}
    <3>1. NamesMade(ast, x) = IF IsElseIf(ast, x) THEN {NameAt(ast, "elseif", x - 1)}
                              ELSE {NameAt(ast, "if", x)}
      BY DEF NamesMade, LoopTags
    <3> QED
      BY <3>1
  <2>2. ast[pos].tag # "Variable"
    BY <1>5
  <2>3. ASSUME NEW y2 \in NamesMade(ast, x)
        PROVE  /\ Len(symstack) = n /\ n > 2 /\ Last(Front(symstack)) = s
               /\ nest[n] = b /\ nest[n - 1] = t /\ s.scope = c[n - 2] /\ StandsFor(ast, pos, t, s)
               /\ IsTable(su) /\ Held(ast, pos, Front(nest), c, Front(symstack), su)
               /\ \A s2 : Follows(ast, pos + 1, Front(Front(nest)), c, Front(Front(symstack)),
                                  PopScope(AddEntry(su, s.scope, y2, s2)), 0)
    <3>1. TwoScopes(ast, pos, nest, c, symstack, table, symnode, b, t, b, x1, s1, su, x, y2)
      BY <1>1, <1>2, <1>3, <1>5, <1>7, <1>12, <1>13, <1>14, <2>2 DEF TwoScopes
    <3> QED
      BY <3>1, TwoLeave
  <2> HIDE DEF s, n
  <2> QED
    BY <2>1, <2>3
<1> HIDE DEF s
<1>16. x2 \in NamesMade(ast, x) /\ s.ident = NameOf(ast, x)
  <2>1. CASE IsElseIf(ast, x)
    <3>1. s.kind.sig = NameAt(ast, "elseif", t) /\ s.ident = NameAt(ast, "else", t)
      BY <1>6, <1>15, <2>1 DEF StandsFor, SigOf, IdentOf
    <3>2. NamesMade(ast, x) = {NameAt(ast, "elseif", x - 1)} /\ NameOf(ast, x) = NameAt(ast, "else", x - 1)
      BY <2>1 DEF NamesMade, NameOf, LoopTags
    <3> QED
      BY <1>3, <2>1, <3>1, <3>2
  <2>2. CASE ~IsElseIf(ast, x)
    <3>1. s.kind.sig = NameAt(ast, "if", t) /\ s.ident = NameAt(ast, "if", t)
      BY <1>4, <1>15, <2>2 DEF StandsFor, SigOf, IdentOf, BaseOf
    <3>2. NamesMade(ast, x) = {NameAt(ast, "if", x)} /\ NameOf(ast, x) = NameAt(ast, "if", x)
      BY <2>2 DEF NamesMade, NameOf, LoopTags
    <3> QED
      BY <1>4, <2>2, <3>1, <3>2
  <2> QED
    BY <2>1, <2>2
<1>17. s.kind.tag = "func"
  BY <1>14, <1>15 DEF StandsFor
<1>18. ~Found(Find(su, s.scope, s.ident))
  <2>1. Len(Front(nest)) = n - 1 /\ \A j \in 1 .. n - 1 : Front(nest)[j] = nest[j]
    <3>1. IsFcnSeq(nest) /\ n > 0
      BY <1>1, <1>15, LengthOfNest DEF Follows
    <3> QED
      BY <3>1, Fronted
  <2>2. n - 2 \in 0 .. Len(Front(nest))
    BY <1>1, <1>15, <2>1
  <2>3. ASSUME NEW j \in 1 .. n - 2
        PROVE  Front(nest)[j] \in InScopes(ast, pos) /\ Front(nest)[j] < ScopeOf(ast, x)
    <3>1. j \in 1 .. n /\ n - 1 \in 1 .. n /\ j < n - 1 /\ j \in 1 .. n - 1
      BY <1>1, <1>15, <2>3
    <3>2. Nested(ast, InScopes(ast, pos), nest)
      BY <1>1 DEF Follows, Nest
    <3>3. nest[j] < nest[n - 1] /\ nest[j] \in InScopes(ast, pos)
      BY <3>1, <3>2 DEF Nested
    <3> QED
      BY <1>15, <2>1, <3>1, <3>3 DEF t
  <2>4. ~Found(Find(su, c[n - 2], NameOf(ast, x)))
    BY <1>1, <1>15, <2>2, <2>3, NameIsNew
  <2> QED
    BY <1>15, <1>16, <2>4
<1>19. LeaveFunction(Front(symstack), su)
  <2>1. ~(Len(symstack) < 2 \/ symstack[Len(symstack) - 1].kind.tag # "func")
    BY <1>1, <1>15, <1>17 DEF s
  <2> QED
    BY <1>1, <1>10, <2>1, Zenon DEF ExitConditional, su, s1
<1>20. /\ Goes /\ symstack' = Front(Front(symstack)) /\ symnode' = 0 /\ hasSym' /\ Silent
       /\ \E s2 : table' = PopScope(AddEntry(su, s.scope, x2, s2))
  BY <1>1, <1>15, <1>18, <1>19, LeavingIs
<1>21. Follows(ast, pos + 1, Front(Front(nest)), c, symstack', table', symnode')
  BY <1>15, <1>16, <1>20
<1> QED
  BY <1>20, <1>21 DEF Outcome, Keeping

(* The end of a conditional leaves its scope, and that of its else-block. *)
LEMMA ConditionalExits ==
  ASSUME NEW nest, NEW c, Placed(nest, c), ExitConditional
  PROVE  Outcome /\ Silent
<1>1. pos \in DOMAIN ast /\ pos \in 1 .. Len(ast) /\ Bracketing(ast)
  BY AtTop
<1>2. pos \notin Opened(ast) /\ ast[pos].tag = "Conditional"
  BY <1>1, TagOfStep DEF node
<1>3. PICK x \in Opened(ast) : CloseOf(ast, x) = pos /\ ast[x].tag = ast[pos].tag
  BY <1>1, <1>2, ClosedNode
<1> QED
  BY <1>2, <1>3, ConditionalLeft, TwoLeft

(***************************************************************************)
(* The end of the module, and the program as a whole.                      *)
(***************************************************************************)
(* Records, classes and other modules there are none. *)
LEMMA NoOthers ==
  ASSUME NEW a, Scoped(a), NEW p \in 2 .. Len(a)
  PROVE  /\ a[p].tag \notin {"Record", "Class"}
         /\ a[p].tag = "Module" => p \notin Opened(a) /\ p = Len(a)
<1>1. Bracketing(a) /\ p \in 1 .. Len(a) /\ p # 1
  BY ScopedBrackets DEF Bracketing
<1>2. \A x \in Opened(a) : x # 1 => a[x].tag \notin {"Module", "Record", "Class"}
  BY DEF Scoped, OneModule
<1>3. a[1].tag = "Module" /\ CloseOf(a, 1) = Len(a)
  BY <1>1 DEF Scoped, OneModule, Bracketing
<1>4. CASE p \in Opened(a)
  BY <1>1, <1>2, <1>4
<1>5. CASE p \notin Opened(a)
  <2>1. PICK x \in Opened(a) : CloseOf(a, x) = p /\ a[x].tag = a[p].tag
    BY <1>1, <1>5, ClosedNode
  <2> QED
    BY <1>2, <1>3, <1>5, <2>1
<1> QED
  BY <1>4, <1>5

(* The end of the module is the end of the pass. *)
LEMMA ModuleEnds ==
  ASSUME ExitModule, pos = Len(ast)
  PROVE  Outcome
<1>1. ~(pos < Len(ast))
  <2>1. Len(ast) < Len(ast) => FALSE
    BY DEF Outcome
  <2> QED
    BY <2>1
<1>2. Aborts \/ Goes
  BY DEF ExitModule, Abort, Aborts, GoOn, Goes, Tables, sbVars
<1> QED
  BY <1>1, <1>2 DEF Outcome

(* Between the variables, whatever the call. *)
LEMMA FlatStep ==
  ASSUME NEW nest, NEW c, Placed(nest, c), BuildSymbols
  PROVE  Outcome
<1>1. pos \in DOMAIN ast /\ pos \in 2 .. Len(ast) /\ Scoped(ast) /\ Flat(ast, pos) /\ pos \in 1 .. Len(ast)
  BY AtTop DEF Placed
<1>2. ast[pos].tag \notin {"Record", "Class"} /\ (ast[pos].tag = "Module" => pos \notin Opened(ast) /\ pos = Len(ast))
  BY <1>1, NoOthers
<1>3. ~(EnterRecord \/ EnterClass \/ ExitRecord \/ ExitClass \/ EnterModule)
  BY <1>1, <1>2, TagOfStep DEF node
<1>4. ~ExitVariable
  <2>1. SUFFICES ASSUME ExitVariable PROVE FALSE
    OBVIOUS
  <2>2. pos \notin Opened(ast) /\ ast[pos].tag = "Variable"
    BY <1>1, <2>1, TagOfStep DEF node
  <2>3. PICK v \in Opened(ast) : CloseOf(ast, v) = pos /\ ast[v].tag = ast[pos].tag
    BY <1>1, <2>2, ScopedBrackets, ClosedNode
  <2>4. InVar(ast, v, pos)
    BY <1>1, <2>2, <2>3, VariableEnds
  <2> QED
    BY <1>1, <2>3, <2>4 DEF Flat
<1>5. ExitModule => Outcome
  <2>1. ExitModule => pos = Len(ast)
    BY <1>1, <1>2, TagOfStep DEF node
  <2> QED
    BY <2>1, ModuleEnds
<1>6. Simple => Outcome
  BY SimpleStep
<1>7. EnterRange \/ EnterTuple \/ EnterFormal \/ EnterVariable => Outcome
  BY RangeStep, TupleStep, FormalStep, VariableStep
<1>8. EnterFunction \/ EnterFor \/ EnterForall \/ EnterCoforall => Outcome
  BY FunctionStep
<1>9. EnterConditional \/ EnterBlock \/ ExitRange \/ ExitBlock => Outcome
  BY ConditionalStep, BlockStep, ExitRangeStep, ExitBlockStep
<1>10. ExitFunction \/ ExitLoop \/ ExitConditional => Outcome
  BY FunctionEnds, LoopEnds, ConditionalExits
<1> QED
  BY <1>3, <1>4, <1>5, <1>6, <1>7, <1>8, <1>9, <1>10, Steps

(* A variable ends. *)
LEMMA VariableExits ==
  ASSUME hasSym, Scoped(ast), pos \in 2 .. Len(ast), IsTable(table), NEW nest, NEW c,
         Follows(ast, pos, nest, c, symstack, table, symnode),
         NEW v \in Opened(ast), ast[v].tag = "Variable", pos = CloseOf(ast, v), BuildSymbols
  PROVE  Outcome /\ Goes /\ Silent /\ configVars' = Configured
<1>1. pos \in 1 .. Len(ast) /\ pos \in DOMAIN ast /\ Bracketing(ast) /\ pos \in Nat
  BY ScopedBrackets DEF Bracketing
<1>2. pos \notin Opened(ast) /\ node.tag = "Variable"
  BY <1>1 DEF Bracketing, node
<1>3. ExitVariable
  <2>1. ~Simple
    <3>1. ~ExitsOther
      BY <1>2, ExitsTheRest
    <3> QED
      BY <1>1, <1>2, <3>1, SimpleTag
  <2> QED
    BY <1>1, <1>2, <2>1, Steps, TagOfStep DEF LoopTags
<1>4. InVar(ast, v, pos)
  BY VariableEnds
<1>5. ~Flat(ast, pos)
  BY <1>4 DEF Flat
<1>6. Len(nest) \in Nat /\ Len(symstack) = Len(nest) + 1 /\ IsFcnSeq(symstack) /\ Len(nest) > 0
  BY <1>1, <1>5, Deeper, ModuleIsFirst DEF Follows
<1>7. top = symstack[Len(symstack)] /\ Len(symstack) > 1
  BY <1>6, Fronted DEF top
<1>8. /\ ~Found(Find(table, top.scope, top.ident))
      /\ Follows(ast, pos + 1, nest, c, Front(symstack), AddEntry(table, top.scope, top.ident, top), 0)
  BY <1>7, VariableLeft
<1>9. /\ Goes /\ table' = AddEntry(table, top.scope, top.ident, top)
      /\ symstack' = Front(symstack) /\ hasSym' = (Len(symstack) > 1) /\ symnode' = 0
      /\ Silent /\ configVars' = Configured
  BY <1>3, <1>8 DEF ExitVariable, AlreadyDefined, GoOn, Goes, Silent
<1> QED
  BY <1>7, <1>8, <1>9 DEF Outcome, Keeping

(* Wherever the pass is in the module. *)
LEMMA PassStep ==
  ASSUME hasSym, Scoped(ast), pos \in 2 .. Len(ast), IsTable(table), NEW nest, NEW c,
         Follows(ast, pos, nest, c, symstack, table, symnode), BuildSymbols
  PROVE  Outcome
<1>1. CASE Flat(ast, pos)
  BY <1>1, FlatStep DEF Placed
<1>2. ASSUME NEW v \in Opened(ast), InVar(ast, v, pos)
      PROVE  Outcome
  <2>1. ast[v].tag = "Variable" /\ v < pos /\ pos <= CloseOf(ast, v) /\ CloseOf(ast, v) \in Nat /\ pos \in Nat
    BY <1>2, ScopedBrackets DEF InVar, Bracketing
  <2>2. CASE pos = CloseOf(ast, v)
    BY <2>1, <2>2, VariableExits
  <2>3. CASE pos < CloseOf(ast, v)
    BY <2>1, <2>3, InVariableStep
  <2> QED
    BY <2>1, <2>2, <2>3
<1> QED
  BY <1>1, <1>2 DEF Flat

(* In front of the module. *)
LEMMA AtTheStart ==
  ASSUME NEW a, Scoped(a), NEW c, c[0] = 0, NEW st, IsTable(st), st.ref = 0,
         DOMAIN st.lut[0].entries = DOMAIN RootEntries
  PROVE  Flat(a, 1) /\ Follows(a, 1, <<>>, c, <<>>, st, 0)
<1>1. \A x \in Opened(a) : x \in Nat /\ x >= 1
  BY ScopedBrackets DEF Bracketing
<1>2. Flat(a, 1) /\ InScopes(a, 1) = {}
  <2>1. \A x \in Opened(a) : ~(x < 1)
    BY <1>1
  <2> QED
    BY <2>1 DEF Flat, InVar, InScopes
<1>3. Nest(a, 1, <<>>)
  BY <1>2 DEF Nest, Nested
<1>4. Links(st, c, 0)
  <2>1. \A k \in 0 .. 0 : k = 0
    OBVIOUS
  <2>2. \A j, k \in 0 .. 0 : ~(j < k)
    OBVIOUS
  <2>3. \A k \in 1 .. 0 : FALSE
    OBVIOUS
  <2> QED
    BY <2>1, <2>2, <2>3 DEF Links, Chain
<1>5. Len(<<>>) = 0 /\ IsFcnSeq(<<>>)
  BY DEF IsFcnSeq
<1>6. Symbols(a, 1, <<>>, c, <<>>) /\ Known(a, 1, <<>>, c, st) /\ LineKept(a, <<>>, 0)
  <2>1. \A k \in 1 .. Len(<<>>) : FALSE
    BY <1>5
  <2>2. ~(Len(<<>>) > 0)
    BY <1>5
  <2> QED
    BY <2>1, <2>2 DEF Symbols, Known, LineKept
<1>7. Held(a, 1, <<>>, c, <<>>, st) /\ Balanced(<<>>, <<>>)
  BY <1>4, <1>5, <1>6 DEF Held, Balanced
<1> QED
  BY <1>2, <1>3, <1>6, <1>7, HeldFollows

(* The first call enters the module. *)
LEMMA FirstStep ==
  ASSUME Scoped(ast), pos = 1, IsTable(table), NEW nest, NEW c,
         Follows(ast, pos, nest, c, symstack, table, symnode), BuildSymbols
  PROVE  Outcome
<1> DEFINE su0 == [table EXCEPT !.moduleId = Len(modules)]
           su == PushScope(su0)
           z == Size(table)
           k0 == Kind("module")
           k1 == [k0 EXCEPT !.lut = z]
           k == [k1 EXCEPT !.sig = Name(node.name)]
           sym == Symbol(k, Name(node.name), table.ref)
<1>1. /\ Bracketing(ast) /\ pos \in DOMAIN ast /\ pos \in Opened(ast) /\ node.tag = "Module"
      /\ pos \in 1 .. Len(ast)
  BY ScopedBrackets DEF Bracketing, Scoped, OneModule, node
<1>2. EnterModule
  <2>1. ~Simple
    BY <1>1, SimpleTag, ExitsTheRest DEF SimpleTags, Ignored
  <2> QED
    BY <1>1, <2>1, Steps, TagOfStep
<1>3. /\ Goes /\ table' = su /\ hasSym' = TRUE /\ symstack' = Append(symstack, sym)
  <2>1. Goes /\ table' = su /\ hasSym' = TRUE
    BY <1>2 DEF EnterModule, GoOn, Goes
  <2>2. symstack' = Append(symstack, Symbol([Kind("module") EXCEPT !.lut = Size(table), !.sig = Name(node.name)],
                                            Name(node.name), table.ref))
    BY <1>2 DEF EnterModule
  <2> QED
    BY <2>1, <2>2
<1>4. OpensScope(table, su, z)
  <2>1. IsTable(su0)
    BY ModuleIdGrows DEF Grows
  <2>2. su0.lut = table.lut /\ su0.ref = table.ref
    BY DEF IsTable
  <2>3. Size(su0) = Size(table)
    BY <2>2 DEF Size
  <2> HIDE DEF su0
  <2>4. OpensScope(su0, PushScope(su0), Size(su0))
    BY <2>1, PushOpens
  <2> QED
    BY <2>2, <2>3, <2>4 DEF OpensScope
<1> HIDE DEF su, z
<1>5. IsKind(k) /\ k.tag = "module" /\ k.lut = z /\ k.sig = Name(node.name)
  <2>1. IsKind(k0) /\ k0.tag = "module"
    BY DEF Kind, IsKind
  <2> HIDE DEF k0
  <2>2. IsKind(k1) /\ k1.lut = z /\ k1.tag = "module"
    BY <2>1 DEF IsKind
  <2> HIDE DEF k1
  <2> QED
    BY <2>2 DEF IsKind
<1> HIDE DEF k
<1>6. IsSymbol(sym) /\ sym.kind = k /\ sym.ident = Name(node.name) /\ sym.scope = table.ref
  BY NewSymbol
<1> HIDE DEF sym
<1>7. StandsFor(ast, pos + 1, pos, sym)
  BY <1>1, <1>5, <1>6 DEF StandsFor, SigOf, IdentOf, node
<1>8. Flat(ast, pos)
  <2>1. \A x \in Opened(ast) : ~(x < 1)
    BY <1>1 DEF Bracketing
  <2> QED
    BY <2>1 DEF Flat, InVar
<1>9. IsScope(ast, pos) /\ ast[pos].tag \notin {"Variable", "Conditional", "Block"}
  BY <1>1 DEF IsScope, node
<1>10. sym.kind.lut = z
  BY <1>5, <1>6
<1>11. \E c2 : Follows(ast, pos + 1, Append(nest, pos), c2, Append(symstack, sym), su, symnode')
  BY <1>1, <1>4, <1>6, <1>7, <1>8, <1>9, <1>10, ScopeEnters
<1> QED
  BY <1>3, <1>11 DEF Outcome, Keeping

(***************************************************************************)
(* The compiler.                                                           *)
(***************************************************************************)
(* The first pass is the only one that builds symbols. *)
LEMMA FirstPassWalks ==
  ASSUME BuildSymbols
  PROVE  phase = "symbols" /\ ast' = ast /\ phase' = phase /\ Traversing
<1> USE DEF Skip, SetTop, SetTopAnd, SetKind, Alter, Abort, GoOn, Push, PushAnd, Open, OpenAt, Enters, Exits
<1>1. EnterArray \/ EnterDomain \/ EnterBracketLoop \/ EnterRange \/ EnterTuple =>
        phase = "symbols" /\ ast' = ast /\ phase' = phase
  BY DEF EnterArray, EnterDomain, EnterBracketLoop, EnterRange, EnterTuple
<1>2. EnterIdentifier => phase = "symbols" /\ ast' = ast /\ phase' = phase
  BY DEF EnterIdentifier, IdentifierOfArray, IdentifierOfFunction, Component
<1>3. EnterBoolLiteral \/ EnterImagLiteral \/ EnterRealLiteral \/ EnterUintLiteral \/ EnterBytesLiteral =>
        phase = "symbols" /\ ast' = ast /\ phase' = phase
  BY DEF EnterBoolLiteral, EnterImagLiteral, EnterRealLiteral, EnterUintLiteral, EnterBytesLiteral, Literal
<1>4. EnterCStringLiteral \/ EnterStringLiteral \/ EnterIntLiteral \/ EnterOpCall =>
        phase = "symbols" /\ ast' = ast /\ phase' = phase
  BY DEF EnterCStringLiteral, EnterStringLiteral, EnterIntLiteral, EnterOpCall, Literal, Component
<1>5. EnterFnCall => phase = "symbols" /\ ast' = ast /\ phase' = phase
  BY DEF EnterFnCall, CallAsElement, CallAsValue
<1>6. EnterFormal \/ EnterVariable \/ EnterFunction \/ EnterRecord \/ EnterClass \/ EnterModule =>
        phase = "symbols" /\ ast' = ast /\ phase' = phase
  BY DEF EnterFormal, EnterVariable, EnterFunction, EnterRecord, EnterClass, EnterModule
<1>7. EnterFor \/ EnterForall \/ EnterCoforall \/ EnterConditional \/ EnterBlock \/ EntersIgnored =>
        phase = "symbols" /\ ast' = ast /\ phase' = phase
  BY DEF EnterFor, EnterForall, EnterCoforall, EnterConditional, EnterBlock, EntersIgnored
<1>8. ExitRange \/ ExitVariable \/ ExitModule \/ ExitRecord \/ ExitClass =>
        phase = "symbols" /\ ast' = ast /\ phase' = phase
  BY DEF ExitRange, ExitVariable, ExitModule, ExitRecord, ExitClass, ExitAggregate, Duplicate
<1>9. ExitFunction \/ ExitLoop \/ ExitConditional \/ ExitBlock \/ ExitsOther =>
        phase = "symbols" /\ ast' = ast /\ phase' = phase
  BY DEF ExitFunction, ExitLoop, ExitConditional, ExitBlock, ExitsOther, LeaveFunction
<1> QED
  BY <1>1, <1>2, <1>3, <1>4, <1>5, <1>6, <1>7, <1>8, <1>9
  DEF BuildSymbols, EnterExpression, EnterDeclaration, Exit

(* The second pass keeps the program and the phase. *)
LEMMA SecondPassWalks ==
  ASSUME BuildTree
  PROVE  ast' = ast /\ phase' = phase /\ phase = "tree"
<1> USE DEF Children_, NoChildren, InTree, Stop, Abort, Pass, InList, Add, AddAndEnter, Pop, GoOn, Visits, Leaves
<1> DEFINE Kept == ast' = ast /\ phase' = phase /\ phase = "tree"
<1>1. VisitIdentifier => Kept
  BY DEF VisitIdentifier, IdentifierOfLoop
<1>2. /\ VisitBoolLiteral \/ VisitRealLiteral \/ VisitStringLiteral => Kept
      /\ VisitIntLiteral => Kept
  BY DEF VisitBoolLiteral, VisitRealLiteral, VisitStringLiteral, VisitIntLiteral,
         LiteralOr, LiteralInto, Number
<1>3. VisitFnCall => Kept
  BY DEF VisitFnCall, OperandCall, Subscript, CallByPrefix, InitialiseWith
<1>4. VisitOpCall \/ VisitTuple => Kept
  BY DEF VisitOpCall, VisitTuple, InitialiseWith
<1>5. VisitVariable => Kept
  BY DEF VisitVariable, DeclareArray, Declare
<1>6. VisitFor \/ VisitForall \/ VisitCoforall => Kept
  BY DEF VisitFor, VisitForall, VisitCoforall, VisitLoop, OpenLoop
<1>7. VisitFunction \/ VisitModule \/ VisitRecord \/ VisitClass => Kept
  BY DEF VisitFunction, VisitModule, VisitRecord, VisitClass, VisitDecl, OpenScope
<1>8. VisitConditional \/ VisitBlock \/ VisitOther => Kept
  BY DEF VisitConditional, VisitBlock, VisitOther
<1>9. LeaveNode => Kept
  BY DEF LeaveNode, LeaveCall, LeaveOpCall, LeaveVariable, LeaveFunction_, LeaveBlock, LeaveOther
<1>10. VisitReturn => Kept
  BY DEF VisitReturn
<1> QED
  BY <1>1, <1>2, <1>3, <1>4, <1>5, <1>6, <1>7, <1>8, <1>9, <1>10 DEF BuildTree, VisitNode

(* The third pass keeps the program and the phase. *)
LEMMA ThirdPassStays ==
  ASSUME GenerateCode
  PROVE  ast' = ast /\ phase' = phase /\ phase = "code"
<1> USE DEF Unchanged, InTree, Then, Emit, WriteLine, Fail, Drop, Stop, Abort, Coding, Visiting
<1> DEFINE Kept == ast' = ast /\ phase' = phase /\ phase = "code"
<1>1. StartCode \/ PrintLine \/ EmitDeclaration \/ EmitNothing => Kept
  BY DEF StartCode, PrintLine, EmitDeclaration, EmitNothing
<1>2. EmitFunctionCall \/ EmitBinaryOp \/ EmitScalarDeclExpr \/ EmitReturn => Kept
  BY DEF EmitFunctionCall, EmitBinaryOp, EmitScalarDeclExpr, EmitReturn
<1>3. EmitConditional \/ EmitLoop \/ EmitFunctionDecl => Kept
  BY DEF EmitConditional, EmitLoop, EmitFunctionDecl
<1>4. EmitAggregate \/ EmitModule => Kept
  BY DEF EmitAggregate, EmitModule
<1> QED
  BY <1>1, <1>2, <1>3, <1>4 DEF GenerateCode

(* The symbols on the stack stand for the scopes around the place the pass *)
(* has come to.                                                            *)
Following ==
  /\ ast \in Programs
  /\ phase = "symbols" /\ Scoped(ast) => pos \in Nat \ {0}
  /\ phase = "symbols" /\ Scoped(ast) /\ Traversing =>
       \E nest, c : /\ Follows(ast, pos, nest, c, symstack, table, symnode)
                    /\ pos > 1 => hasSym

(* Following holds before the first node. *)
LEMMA InitFollows ==
  ASSUME CompilerInit PROVE Following
<1>1. /\ ast \in Programs /\ pos = 1 /\ symstack = <<>> /\ symnode = 0
      /\ table = [EmptyTable EXCEPT !.lut[0].entries = RootEntries]
  BY DEF CompilerInit, Init
<1>2. IsTable(table)
  BY InitIsTable
<1>3. table.ref = 0 /\ table.lut[0].entries = RootEntries
  <2>1. EmptyTable = [lut |-> [i \in {0} |-> Scope(NoScope, 0)], ref |-> 0, moduleId |-> 0]
    BY DEF EmptyTable
  <2>2. table = [lut |-> [i \in {0} |-> [Scope(NoScope, 0) EXCEPT !.entries = RootEntries]],
                 ref |-> 0, moduleId |-> 0]
    BY <1>1, <2>1
  <2>3. table.lut[0] = [entries |-> RootEntries, parent |-> NoScope, moduleId |-> 0]
    BY <2>2 DEF Scope
  <2> QED
    BY <2>2, <2>3
<1> DEFINE c == [k \in {0} |-> 0]
<1>4. c[0] = 0
  OBVIOUS
<1> HIDE DEF c
<1>5. Scoped(ast) => Follows(ast, 1, <<>>, c, <<>>, table, 0)
  BY <1>2, <1>3, <1>4, AtTheStart
<1>6. Scoped(ast) => Follows(ast, pos, <<>>, c, symstack, table, symnode)
  BY <1>1, <1>5
<1> QED
  BY <1>1, <1>6 DEF Following

(* Following is kept by every step of the compiler. *)
LEMMA StepFollows ==
  ASSUME Following, IsTable(table), [Next]_vars PROVE Following'
<1>1. CASE UNCHANGED vars
  BY <1>1 DEF vars, Following, Traversing
<1>2. CASE BuildSymbols
  <2>1. phase = "symbols" /\ ast' = ast /\ phase' = phase /\ Traversing
    BY <1>2, FirstPassWalks
  <2>2. CASE ~Scoped(ast)
    BY <2>1, <2>2 DEF Following
  <2>3. CASE Scoped(ast)
    <3>1. PICK nest, c : /\ Follows(ast, pos, nest, c, symstack, table, symnode)
                         /\ pos > 1 => hasSym
      BY <2>1, <2>3 DEF Following
    <3>2. pos \in Nat \ {0} /\ pos <= Len(ast) /\ Len(ast) \in Nat
      BY <2>1, <2>3, ScopedBrackets DEF Following, Traversing, Bracketing
    <3>3. Outcome
      <4>1. CASE pos = 1
        BY <1>2, <2>3, <3>1, <4>1, FirstStep
      <4>2. CASE pos # 1
        <5>1. pos \in 2 .. Len(ast) /\ hasSym
          BY <3>1, <3>2, <4>2
        <5> QED
          BY <1>2, <2>3, <3>1, <5>1, PassStep
      <4> QED
        BY <4>1, <4>2
    <3>4. CASE Aborts
      BY <3>1, <3>2, <3>4 DEF Aborts, Following, Traversing
    <3>5. CASE Goes /\ (pos < Len(ast) => hasSym' /\ Keeping)
      <4>1. pos' = pos + 1 /\ pos' \in Nat \ {0}
        BY <3>2, <3>5 DEF Goes
      <4>2. Traversing' => pos < Len(ast)
        BY <2>1, <3>2, <4>1 DEF Traversing
      <4>3. Traversing' => hasSym' /\ \E m, d : Follows(ast', pos', m, d, symstack', table', symnode')
        BY <2>1, <3>5, <4>1, <4>2 DEF Keeping
      <4> QED
        BY <2>1, <4>1, <4>3 DEF Following
    <3> QED
      BY <3>3, <3>4, <3>5 DEF Outcome
  <2> QED
    BY <2>2, <2>3
<1>3. CASE BuildTree
  BY <1>3, SecondPassWalks DEF Following
<1>4. CASE GenerateCode
  BY <1>4, ThirdPassStays DEF Following
<1>5. CASE NextPass
  BY <1>5 DEF NextPass, Following
<1>6. CASE Ended
  BY <1>1, <1>6 DEF Ended
<1> QED
  BY <1>1, <1>2, <1>3, <1>4, <1>5, <1>6 DEF Next

(* As many scopes are open as the nest has. *)
LEMMA SizeOfNest ==
  ASSUME NEW a, NEW scopes, NEW nest, Nested(a, scopes, nest), scopes \subseteq Nat
  PROVE  Len(nest) \in Nat /\ Cardinality(scopes) = Len(nest)
<1> DEFINE n == Len(nest)
<1>1. n \in Nat /\ \A k \in 1 .. n : nest[k] \in Nat
  BY DEF Nested
<1>2. DOMAIN nest = 1 .. n /\ nest \in [1 .. n -> scopes]
  BY <1>1 DEF Nested
<1>3. \A j, k \in 1 .. n : nest[j] = nest[k] => j = k
  <2>1. SUFFICES ASSUME NEW j \in 1 .. n, NEW k \in 1 .. n, nest[j] = nest[k] PROVE j = k
    OBVIOUS
  <2>2. ~(j < k) /\ ~(k < j)
    BY <1>1, <2>1 DEF Nested
  <2> QED
    BY <1>1, <2>2
<1>4. \A s \in scopes : \E k \in 1 .. n : nest[k] = s
  BY DEF Nested
<1>5. ExistsBijection(1 .. n, scopes)
  BY <1>2, <1>3, <1>4 DEF ExistsBijection, Bijection, Injection, Surjection, IsInjective
<1> HIDE DEF n
<1>6. IsFiniteSet(1 .. n) /\ Cardinality(1 .. n) = n
  <2>1. n \in Int /\ 1 \in Int /\ (IF 1 > n THEN 0 ELSE n - 1 + 1) = n
    BY <1>1
  <2> QED
    BY <2>1, FS_Interval
<1> QED
  BY <1>1, <1>5, <1>6, FS_Bijection DEF n

(* What Following says of the source. *)
LEMMA FollowingIsInScope ==
  ASSUME Following, IsTable(table), Scoped(ast) PROVE InScopeOfSource
<1> DEFINE scopes == {q \in 1 .. pos - 1 : ast[q].open /\ CloseOf(ast, q) >= pos /\ IsScope(ast, q)}
<1>1. SUFFICES ASSUME phase = "symbols", Traversing, node.open
               PROVE  Len(Path(table, table.ref)) = Cardinality(scopes) + 1
  BY Zenon DEF InScopeOfSource
<1>2. PICK nest, c : Follows(ast, pos, nest, c, symstack, table, symnode)
  BY <1>1 DEF Following
<1>3. Bracketing(ast) /\ pos \in Nat /\ pos \in 1 .. Len(ast) /\ pos \in DOMAIN ast
  BY <1>1, ScopedBrackets DEF Following, Traversing, Bracketing
<1>4. pos \in Opened(ast)
  BY <1>1, <1>3, Zenon DEF Opened, node
<1>5. scopes = InScopes(ast, pos)
  <2>1. ASSUME NEW q \in scopes PROVE q \in InScopes(ast, pos)
    <3>1. q \in 1 .. pos - 1 /\ ast[q].open /\ CloseOf(ast, q) >= pos /\ IsScope(ast, q)
      BY Zenon
    <3>2. q \in DOMAIN ast /\ q < pos
      BY <1>3, <3>1 DEF Bracketing
    <3>3. q \in Opened(ast)
      BY <3>1, <3>2, Zenon DEF Opened
    <3>4. CloseOf(ast, q) \in Nat /\ CloseOf(ast, q) \notin Opened(ast)
      BY <1>3, <3>3 DEF Bracketing
    <3>5. pos < CloseOf(ast, q)
      BY <1>3, <1>4, <3>1, <3>4
    <3> QED
      BY <1>4, <3>1, <3>2, <3>3, <3>5, OpenAtNode
  <2>2. ASSUME NEW q \in InScopes(ast, pos) PROVE q \in scopes
    <3>1. q \in Opened(ast) /\ IsScope(ast, q)
      BY DEF InScopes
    <3>2. q < pos /\ pos < CloseOf(ast, q)
      BY <1>4, <3>1, OpenAtNode
    <3>3. q \in Nat /\ q >= 1 /\ CloseOf(ast, q) \in Nat
      BY <1>3, <3>1 DEF Bracketing
    <3>4. q \in 1 .. pos - 1 /\ CloseOf(ast, q) >= pos
      BY <1>3, <3>2, <3>3
    <3>5. ast[q].open
      BY <3>1, Zenon DEF Opened
    <3> QED
      BY <3>1, <3>4, <3>5, Zenon
  <2> HIDE DEF scopes
  <2> QED
    BY <2>1, <2>2
<1> HIDE DEF scopes
<1>6. Len(nest) \in Nat /\ Cardinality(scopes) = Len(nest)
  <2>1. Nested(ast, InScopes(ast, pos), nest) /\ InScopes(ast, pos) \subseteq Nat
    BY <1>2, InScopesAreNodes DEF Follows, Nest
  <2> QED
    BY <1>5, <2>1, SizeOfNest
<1>7. Chain(table, c, Len(nest)) /\ table.ref = c[Len(nest)]
  BY <1>2 DEF Follows, Links
<1>8. Len(Path(table, table.ref)) = Len(nest) + 1
  <2>1. Len(nest) \in 0 .. Len(nest)
    BY <1>6
  <2>2. Len(Path(table, c[Len(nest)])) = Len(nest) + 1
    BY <1>6, <1>7, <2>1, PathOfChain
  <2> QED
    BY <1>7, <2>2
<1> QED
  BY <1>6, <1>8

(* The first pass follows the source of every program whose nodes keep to  *)
(* Scoped, whatever its size: between the entry of a node and the next the *)
(* symbols on the stack stand for the scopes around it.                    *)
THEOREM FirstPassFollows == Spec => []Following
<1>1. CompilerInit => Following
  BY InitFollows
<1>2. Following /\ IsTable(table) /\ [Next]_vars => Following'
  BY StepFollows
<1> QED
  BY <1>1, <1>2, TablesAreTables, PTL DEF Spec

(* Wherever the first pass of a program of SourceScopes enters a node, the *)
(* path of find() from the current scope has a scope for every scope of    *)
(* the source around the node, and the root: none was left too early, and  *)
(* none that has ended is still open.                                      *)
THEOREM ScopedProgramsAreFollowed == Spec => [](Scoped(ast) => InScopeOfSource)
<1>1. Following /\ IsTable(table) => (Scoped(ast) => InScopeOfSource)
  BY FollowingIsInScope
<1> QED
  BY <1>1, FirstPassFollows, TablesAreTables, PTL

(* Every supported program is one of these. *)
THEOREM ScopesFollowTheSource == Spec => []ScopeFollowsSource
<1>1. Following /\ IsTable(table) => ScopeFollowsSource
  <2>1. Following /\ Supported(ast) => Scoped(ast)
    BY SupportedAssumption DEF Following
  <2> QED
    BY <2>1, FollowingIsInScope DEF ScopeFollowsSource
<1> QED
  BY <1>1, FirstPassFollows, TablesAreTables, PTL

(***************************************************************************)
(* What the first pass leaves to the next: the messages, the current       *)
(* scope, the modules and the config variables.                            *)
(***************************************************************************)
ConfigNodes(a) == {v \in Opened(a) : a[v].tag = "Variable" /\ a[v].flag}
(* Those that have ended before p, and the place of one of them.           *)
ConfigsBefore(a, p) == {v \in ConfigNodes(a) : CloseOf(a, v) < p}
PlaceOf(a, v) == Cardinality({u \in ConfigNodes(a) : u <= v})

(* The config variables that have ended, in the order of the source.       *)
Listed(a, p, cv) ==
  /\ IsFcnSeq(cv) /\ Len(cv) = Cardinality(ConfigsBefore(a, p))
  /\ \A v \in ConfigsBefore(a, p) : PlaceOf(a, v) \in 1 .. Len(cv) /\ cv[PlaceOf(a, v)].ident = Name(a[v].name)

(* The end of a module that is named like a built-in does nothing.         *)
OwnName(a) == Name(a[1].name) \notin DOMAIN RootEntries

(* Nothing is listed before the first node. *)
LEMMA NoneListed ==
  ASSUME NEW a, Scoped(a)
  PROVE  Listed(a, 1, <<>>)
<1>1. \A v \in Opened(a) : CloseOf(a, v) \in Nat /\ ~(CloseOf(a, v) < 1)
  BY ScopedBrackets DEF Bracketing
<1>2. ConfigsBefore(a, 1) = {}
  BY <1>1 DEF ConfigsBefore, ConfigNodes
<1>3. Cardinality(ConfigsBefore(a, 1)) = 0
  BY <1>2, FS_EmptySet
<1>4. Len(<<>>) = 0 /\ IsFcnSeq(<<>>)
  BY DEF IsFcnSeq
<1> QED
  BY <1>2, <1>3, <1>4 DEF Listed

(* No config variable ends at the end of another node, and none at that of *)
(* a variable that is none.                                                *)
LEMMA NoneEnds ==
  ASSUME NEW a, Scoped(a), NEW p \in 1 .. Len(a), NEW cv, Listed(a, p, cv),
         \A v \in ConfigNodes(a) : CloseOf(a, v) # p
  PROVE  Listed(a, p + 1, cv)
<1>1. p \in Nat /\ \A v \in Opened(a) : CloseOf(a, v) \in Nat
  BY ScopedBrackets DEF Bracketing
<1>2. \A v \in ConfigNodes(a) : CloseOf(a, v) < p + 1 <=> CloseOf(a, v) < p
  BY <1>1 DEF ConfigNodes
<1>3. ConfigsBefore(a, p + 1) = ConfigsBefore(a, p)
  BY <1>2 DEF ConfigsBefore
<1> QED
  BY <1>3 DEF Listed

(* A variable stands in no other. *)
LEMMA VariablesApart ==
  ASSUME NEW a, Scoped(a), NEW u \in Opened(a), NEW v \in Opened(a),
         a[u].tag = "Variable", a[v].tag = "Variable", u < v
  PROVE  CloseOf(a, u) < v
<1>1. Bracketing(a) /\ u \in Nat /\ v \in Nat /\ CloseOf(a, u) \in Nat
  BY ScopedBrackets DEF Bracketing
<1>2. CloseOf(a, u) # v
  BY <1>1 DEF Bracketing
<1>3. ASSUME v < CloseOf(a, u) PROVE FALSE
  <2>1. v \in 1 .. Len(a)
    BY <1>1 DEF Bracketing
  <2> QED
    BY <1>3, StandsInVariable
<1> QED
  BY <1>1, <1>2, <1>3

(* A config variable that ends takes the next place. *)
LEMMA OneEnds ==
  ASSUME NEW a, Scoped(a), NEW v \in ConfigNodes(a), NEW cv, Listed(a, CloseOf(a, v), cv),
         NEW s, s.ident = Name(a[v].name)
  PROVE  Listed(a, CloseOf(a, v) + 1, Append(cv, s))
<1> DEFINE p == CloseOf(a, v)
           past == ConfigsBefore(a, p)
           upTo(u) == {w \in ConfigNodes(a) : w <= u}
<1>1. /\ Bracketing(a) /\ v \in Opened(a) /\ a[v].tag = "Variable" /\ p \in Nat /\ v \in Nat /\ v < p
      /\ \A u \in ConfigNodes(a) : u \in Opened(a) /\ a[u].tag = "Variable" /\ u \in Nat
                                   /\ CloseOf(a, u) \in Nat /\ u < CloseOf(a, u)
  BY ScopedBrackets DEF Bracketing, ConfigNodes
<1>2. \A u \in ConfigNodes(a) : u # v => (CloseOf(a, u) < p <=> u < v) /\ CloseOf(a, u) # p
  <2>1. SUFFICES ASSUME NEW u \in ConfigNodes(a), u # v
                 PROVE  (CloseOf(a, u) < p <=> u < v) /\ CloseOf(a, u) # p
    OBVIOUS
  <2>2. /\ u \in Opened(a) /\ a[u].tag = "Variable" /\ u \in Nat /\ v \in Nat /\ p \in Nat
        /\ CloseOf(a, u) \in Nat /\ u < CloseOf(a, u) /\ v < p
    BY <1>1
  <2>3. u < v => CloseOf(a, u) < v
    BY <1>1, <2>2, VariablesApart
  <2>4. v < u => p < u
    BY <1>1, <2>2, VariablesApart
  <2> HIDE DEF p
  <2> QED
    BY <2>1, <2>2, <2>3, <2>4
<1>3. p = CloseOf(a, v)
  OBVIOUS
<1> HIDE DEF p
<1>4. ConfigsBefore(a, p + 1) = past \cup {v} /\ v \notin past
  <2>1. \A u \in ConfigNodes(a) : CloseOf(a, u) < p + 1 <=> CloseOf(a, u) < p \/ u = v
    <3>1. \A u \in ConfigNodes(a) : CloseOf(a, u) = p => u = v
      BY <1>2
    <3> QED
      BY <1>1, <1>3, <3>1
  <2>2. ~(CloseOf(a, v) < p)
    BY <1>1, <1>3
  <2> QED
    BY <2>1, <2>2 DEF ConfigsBefore
<1>5. upTo(v) = past \cup {v}
  <2>1. \A u \in ConfigNodes(a) : u <= v <=> CloseOf(a, u) < p \/ u = v
    BY <1>1, <1>2, <1>3
  <2> QED
    BY <2>1 DEF ConfigsBefore
<1>6. IsFiniteSet(ConfigNodes(a))
  <2>1. ConfigNodes(a) \subseteq 1 .. Len(a) /\ 1 \in Int /\ Len(a) \in Int
    BY <1>1 DEF ConfigNodes, Bracketing
  <2> QED
    BY <2>1, FS_Interval, FS_Subset
<1>7. IsFiniteSet(past)
  BY <1>6, FS_Subset DEF ConfigsBefore
<1>8. Cardinality(past) \in Nat /\ Cardinality(past \cup {v}) = Cardinality(past) + 1
  BY <1>4, <1>7, FS_AddElement, FS_CardinalityType
<1>9. PlaceOf(a, v) = Len(cv) + 1 /\ Len(cv) = Cardinality(past) /\ Len(cv) \in Nat
  BY <1>5, <1>8 DEF PlaceOf, Listed, p
<1>10. /\ IsFcnSeq(Append(cv, s)) /\ Len(Append(cv, s)) = Len(cv) + 1
      /\ \A i \in 1 .. Len(cv) : Append(cv, s)[i] = cv[i]
      /\ Append(cv, s)[Len(cv) + 1] = s
  BY Appended DEF Listed
<1>11. ASSUME NEW u \in past
       PROVE  /\ PlaceOf(a, u) \in 1 .. Len(cv) + 1
              /\ Append(cv, s)[PlaceOf(a, u)].ident = Name(a[u].name)
  <2>1. PlaceOf(a, u) \in 1 .. Len(cv) /\ cv[PlaceOf(a, u)].ident = Name(a[u].name)
    BY DEF Listed, p
  <2> QED
    BY <1>9, <1>10, <2>1
<1>12. ASSUME NEW u \in ConfigsBefore(a, p + 1)
       PROVE  /\ PlaceOf(a, u) \in 1 .. Len(cv) + 1
              /\ Append(cv, s)[PlaceOf(a, u)].ident = Name(a[u].name)
  <2>1. u \in past \/ u = v
    BY <1>4
  <2>2. CASE u = v
    BY <1>9, <1>10, <2>2
  <2> QED
    BY <1>11, <2>1, <2>2
<1>13. Len(Append(cv, s)) = Cardinality(ConfigsBefore(a, p + 1))
  BY <1>4, <1>8, <1>9, <1>10
<1> HIDE DEF past
<1>14. Listed(a, p + 1, Append(cv, s))
  BY <1>10, <1>12, <1>13 DEF Listed
<1> QED
  BY <1>14 DEF p

(* A step of the first pass that reports nothing. *)
Plain == diags' = diags /\ modules' = modules /\ configVars' = configVars
Reports == diags' \in {diags, diags \cup {<<"symbols", pos>>}}

(* Who reports, who lists a module and who a config variable.              *)
LEMMA WhoReports ==
  ASSUME BuildSymbols
  PROVE  /\ Reports
         /\ ~ExitVariable => configVars' = configVars
         /\ ~ExitModule => modules' = modules
         /\ \/ ExitVariable \/ ExitFunction \/ ExitConditional \/ ExitBlock
            \/ ExitModule \/ ExitRecord \/ ExitClass \/ Silent
<1> USE DEF Skip, SetTop, SetTopAnd, SetKind, Alter, Abort, GoOn, Push, PushAnd, Open, OpenAt, Tables, sbVars, Plain
<1> DEFINE Steady == modules' = modules /\ configVars' = configVars /\ Reports
<1>1. EnterArray \/ EnterDomain \/ EnterBracketLoop \/ EnterRange \/ EnterTuple => Plain
  BY DEF EnterArray, EnterDomain, EnterBracketLoop, EnterRange, EnterTuple
<1>2. EnterIdentifier => Plain
  BY DEF EnterIdentifier, IdentifierOfArray, IdentifierOfFunction, Component
<1>3. EnterBoolLiteral \/ EnterImagLiteral \/ EnterRealLiteral \/ EnterUintLiteral \/ EnterBytesLiteral => Plain
  BY DEF EnterBoolLiteral, EnterImagLiteral, EnterRealLiteral, EnterUintLiteral, EnterBytesLiteral, Literal
<1>4. EnterCStringLiteral \/ EnterStringLiteral \/ EnterIntLiteral \/ EnterOpCall => Plain
  BY DEF EnterCStringLiteral, EnterStringLiteral, EnterIntLiteral, EnterOpCall, Literal, Component
<1>5. EnterFnCall => Plain
  BY DEF EnterFnCall, CallAsElement, CallAsValue
<1>6. EnterFormal \/ EnterVariable \/ EnterFunction \/ EnterRecord \/ EnterClass \/ EnterModule => Plain
  BY DEF EnterFormal, EnterVariable, EnterFunction, EnterRecord, EnterClass, EnterModule
<1>7. EnterFor \/ EnterForall \/ EnterCoforall \/ EnterConditional \/ EnterBlock \/ EntersIgnored => Plain
  BY DEF EnterFor, EnterForall, EnterCoforall, EnterConditional, EnterBlock, EntersIgnored
<1>8. ExitRange \/ ExitLoop \/ ExitsOther => Plain
  BY DEF ExitRange, ExitLoop, ExitsOther
<1>9. ExitRecord \/ ExitClass => Steady
  BY DEF ExitRecord, ExitClass, ExitAggregate, Duplicate, Diagnose, Reports
<1>10. ExitFunction \/ ExitConditional \/ ExitBlock => Steady
  BY DEF ExitFunction, ExitConditional, ExitBlock, LeaveFunction, Diagnose, Reports
<1>11. ExitVariable => modules' = modules /\ Reports
  BY DEF ExitVariable, Diagnose, Reports
<1>12. ExitModule => configVars' = configVars /\ Reports
  BY DEF ExitModule, Diagnose, Reports
<1>13. Plain => Steady /\ Silent
  BY DEF Silent, Reports
<1> QED
  BY <1>1, <1>2, <1>3, <1>4, <1>5, <1>6, <1>7, <1>8, <1>9, <1>10, <1>11, <1>12, <1>13
  DEF BuildSymbols, EnterExpression, EnterDeclaration, Exit

(***************************************************************************)
(* The number of the module.                                               *)
(***************************************************************************)
(* Every scope has the number of the first module, 0. *)
OneNumber(st) == \A i \in DOMAIN st.lut : st.lut[i].moduleId = 0
(* And the next one will. *)
InFirst(st) == IsTable(st) /\ st.moduleId = 0 /\ OneNumber(st)

(* pushScope gives its new scope the number of the table. *)
LEMMA PushedNumber ==
  ASSUME NEW st, InFirst(st) PROVE InFirst(PushScope(st))
<1>1. PICK n \in Nat : DOMAIN st.lut = 0 .. n
  BY DEF InFirst, IsTable
<1>2. Size(st) = n + 1
  BY <1>1, SizeOfTable
<1> DEFINE su == PushScope(st)
<1>3. su = [lut |-> [i \in 0 .. n + 1 |-> IF i = n + 1 THEN Scope(st.ref, st.moduleId)
                                          ELSE st.lut[i]],
            ref |-> n + 1, moduleId |-> st.moduleId]
  BY <1>2 DEF PushScope
<1>4. IsTable(su)
  BY PushGrows DEF InFirst, Grows
<1> HIDE DEF su
<1>5. su.moduleId = 0 /\ DOMAIN su.lut = 0 .. n + 1 /\ \A i \in 0 .. n : su.lut[i] = st.lut[i]
  BY <1>3 DEF InFirst
<1>6. su.lut[n + 1].moduleId = 0
  BY <1>3 DEF Scope, InFirst
<1>7. \A i \in 0 .. n + 1 : i \in 0 .. n \/ i = n + 1
  OBVIOUS
<1>8. InFirst(su)
  BY <1>1, <1>4, <1>5, <1>6, <1>7 DEF InFirst, OneNumber
<1> QED
  BY <1>8 DEF su

(* addEntry changes no number. *)
LEMMA AddedNumber ==
  ASSUME NEW st, IsTable(st), NEW id, NEW x, NEW s
  PROVE  /\ AddEntry(st, id, x, s).moduleId = st.moduleId
         /\ OneNumber(st) => OneNumber(AddEntry(st, id, x, s))
<1>1. CASE x \in DOMAIN st.lut[id].entries
  BY <1>1 DEF AddEntry
<1>2. CASE x \notin DOMAIN st.lut[id].entries
  <2> DEFINE su == AddEntry(st, id, x, s)
             entries == st.lut[id].entries
             more == [i \in DOMAIN entries \cup {x} |-> IF i = x THEN s ELSE entries[i]]
  <2>1. su = [lut |-> [st.lut EXCEPT ![id] = [@ EXCEPT !.entries = more]],
              ref |-> st.ref, moduleId |-> st.moduleId]
    BY <1>2 DEF AddEntry, IsTable
  <2> HIDE DEF su, more
  <2>2. DOMAIN su.lut = DOMAIN st.lut /\ su.moduleId = st.moduleId
    BY <2>1
  <2>3. \A i \in DOMAIN st.lut : i # id => su.lut[i] = st.lut[i]
    BY <2>1
  <2>4. id \in DOMAIN st.lut => su.lut[id].moduleId = st.lut[id].moduleId
    <3>1. SUFFICES ASSUME id \in DOMAIN st.lut PROVE su.lut[id].moduleId = st.lut[id].moduleId
      OBVIOUS
    <3>2. su.lut[id] = [st.lut[id] EXCEPT !.entries = more]
      BY <2>1, <3>1
    <3>3. st.lut[id] = [entries |-> st.lut[id].entries, parent |-> st.lut[id].parent,
                        moduleId |-> st.lut[id].moduleId]
      BY <3>1 DEF IsTable
    <3> QED
      BY <3>2, <3>3
  <2>5. OneNumber(st) => OneNumber(su)
    BY <2>2, <2>3, <2>4 DEF OneNumber
  <2> QED
    BY <2>2, <2>5 DEF su
<1> QED
  BY <1>1, <1>2

(* Nor does popScope after it. *)
LEMMA LeftNumber ==
  ASSUME NEW st, IsTable(st), NEW id, NEW x, NEW s
  PROVE  LET su == PopScope(AddEntry(st, id, x, s))
         IN  /\ IsTable(su) /\ su.moduleId = st.moduleId
             /\ OneNumber(st) => OneNumber(su)
<1> DEFINE added == AddEntry(st, id, x, s)
           su == PopScope(added)
<1>1. IsTable(added)
  BY AddGrows DEF Grows
<1>2. added.moduleId = st.moduleId /\ (OneNumber(st) => OneNumber(added))
  BY AddedNumber
<1>3. IsTable(su)
  BY LeaveGrows DEF Grows
<1> HIDE DEF added
<1>4. su.lut = added.lut /\ su.moduleId = added.moduleId
  <2>1. added = [lut |-> added.lut, ref |-> added.ref, moduleId |-> added.moduleId]
    BY <1>1 DEF IsTable
  <2> QED
    BY <2>1 DEF PopScope
<1> HIDE DEF su
<1>5. su.moduleId = st.moduleId /\ (OneNumber(st) => OneNumber(su))
  BY <1>2, <1>4 DEF OneNumber
<1> QED
  BY <1>3, <1>5 DEF added, su

(* Nor does a literal put down for a symbol. *)
LEMMA MarkedNumber ==
  ASSUME NEW st, IsTable(st), NEW id, NEW x, NEW place
  PROVE  LET su == MarkLiteral(st, id, x, place)
         IN  /\ IsTable(su) /\ su.moduleId = st.moduleId
             /\ OneNumber(st) => OneNumber(su)
<1> DEFINE s == [st.lut[id].entries[x] EXCEPT !.literal = place]
           entries == [st.lut[id].entries EXCEPT ![x] = s]
           su == [st EXCEPT !.lut[id].entries[x].literal = place]
<1>1. su = [st EXCEPT !.lut = [st.lut EXCEPT ![id] = [st.lut[id] EXCEPT !.entries = entries]]]
  OBVIOUS
<1> HIDE DEF s, su
<1>2. su = [lut |-> [st.lut EXCEPT ![id] = [st.lut[id] EXCEPT !.entries = entries]],
            ref |-> st.ref, moduleId |-> st.moduleId]
  BY <1>1 DEF IsTable
<1> HIDE DEF entries
<1>3. /\ DOMAIN su.lut = DOMAIN st.lut /\ su.ref = st.ref /\ su.moduleId = st.moduleId
      /\ \A i \in DOMAIN st.lut : i # id => su.lut[i] = st.lut[i]
  BY <1>2
<1>4. id \in DOMAIN st.lut =>
        su.lut[id] = [entries |-> entries, parent |-> st.lut[id].parent, moduleId |-> st.lut[id].moduleId]
  <2>1. SUFFICES ASSUME id \in DOMAIN st.lut
                 PROVE  su.lut[id] = [entries |-> entries, parent |-> st.lut[id].parent,
                                      moduleId |-> st.lut[id].moduleId]
    OBVIOUS
  <2>2. su.lut[id] = [st.lut[id] EXCEPT !.entries = entries]
    BY <1>2, <2>1
  <2>3. st.lut[id] = [entries |-> st.lut[id].entries, parent |-> st.lut[id].parent,
                      moduleId |-> st.lut[id].moduleId]
    BY <2>1 DEF IsTable
  <2> QED
    BY <2>2, <2>3
<1>5. OneNumber(st) => OneNumber(su)
  BY <1>3, <1>4 DEF OneNumber
<1>6. \A i \in DOMAIN st.lut :
        /\ su.lut[i].parent = st.lut[i].parent
        /\ su.lut[i] = [entries |-> su.lut[i].entries, parent |-> su.lut[i].parent,
                        moduleId |-> su.lut[i].moduleId]
  BY <1>3, <1>4 DEF IsTable
<1>7. IsTable(su)
  <2>1. 0 \in DOMAIN st.lut
    BY DEF IsTable
  <2> QED
    BY <1>2, <1>3, <1>6, <2>1 DEF IsTable
<1> QED
  BY <1>3, <1>5, <1>7 DEF su, MarkLiteral

(* Nothing but the end of the module changes the number. *)
LEMMA FirstPassNumbers ==
  ASSUME InFirst(table), modules = <<>>, BuildSymbols, ~ExitModule
  PROVE  InFirst(table')
<1> DEFINE Left(st, su) == \E id, x, s : su = PopScope(AddEntry(st, id, x, s))
           Added == table' = table \/ \E id, x, s : table' = AddEntry(table, id, x, s)
           Noted == \E id, x : table' = MarkLiteral(table, id, x, pos)
<1>1. EnterExpression => Added \/ Noted
  <2> USE DEF Skip, SetTop, SetTopAnd, SetKind, Alter, Abort, Tables, Push, PushAnd
  <2>1. EnterArray \/ EnterDomain \/ EnterBracketLoop \/ EnterRange \/ EnterTuple => Added
    BY DEF EnterArray, EnterDomain, EnterBracketLoop, EnterRange, EnterTuple
  <2>2. EnterIdentifier => Added
    BY DEF EnterIdentifier, IdentifierOfArray, IdentifierOfFunction, Component
  <2>3. EnterBoolLiteral \/ EnterImagLiteral \/ EnterRealLiteral \/ EnterUintLiteral \/ EnterBytesLiteral => Added
    BY DEF EnterBoolLiteral, EnterImagLiteral, EnterRealLiteral, EnterUintLiteral, EnterBytesLiteral, Literal
  <2>4. EnterCStringLiteral \/ EnterStringLiteral \/ EnterIntLiteral \/ EnterOpCall => Added
    BY DEF EnterCStringLiteral, EnterStringLiteral, EnterIntLiteral, EnterOpCall, Literal, Component
  <2>5. EnterFnCall => Added \/ Noted
    BY DEF EnterFnCall, CallAsElement, CallAsValue
  <2> QED
    BY <2>1, <2>2, <2>3, <2>4, <2>5 DEF EnterExpression
<1>2. EnterDeclaration =>
        Added \/ table' = PushScope(table) \/ table' = PushScope([table EXCEPT !.moduleId = Len(modules)])
  <2> USE DEF Skip, SetTop, SetTopAnd, Abort, Tables, Push, PushAnd, Open, OpenAt
  <2>1. EnterFormal \/ EnterVariable \/ EntersIgnored => Added
    BY DEF EnterFormal, EnterVariable, EntersIgnored
  <2>2. EnterFunction \/ EnterRecord \/ EnterClass \/ EnterFor \/ EnterForall \/ EnterCoforall =>
          table' = PushScope(table)
    BY DEF EnterFunction, EnterRecord, EnterClass, EnterFor, EnterForall, EnterCoforall
  <2>3. EnterConditional \/ EnterBlock => table' = table \/ table' = PushScope(table)
    BY DEF EnterConditional, EnterBlock
  <2>4. EnterModule => table' = PushScope([table EXCEPT !.moduleId = Len(modules)])
    BY DEF EnterModule
  <2> QED
    BY <2>1, <2>2, <2>3, <2>4 DEF EnterDeclaration
<1>3. Exit => Added \/ Left(table, table') \/ \E st : Left(table, st) /\ (table' = st \/ Left(st, table'))
  <2> USE DEF Skip, Abort, Tables
  <2>1. ExitRange \/ ExitVariable \/ ExitBlock \/ ExitsOther => Added
    BY DEF ExitRange, ExitVariable, ExitBlock, ExitsOther
  <2>2. ExitRecord \/ ExitClass \/ ExitLoop => table' = table \/ Left(table, table')
    BY DEF ExitRecord, ExitClass, ExitAggregate, Duplicate, ExitLoop, EnteredAndLeft
  <2>3. ExitFunction => table' = table \/ Left(table, table')
    BY DEF ExitFunction, LeaveFunction
  <2>4. ExitConditional =>
          \/ table' = table \/ Left(table, table')
          \/ \E st : Left(table, st) /\ (table' = st \/ Left(st, table'))
    BY DEF ExitConditional, LeaveFunction, EnteredAndLeft
  <2> QED
    BY <2>1, <2>2, <2>3, <2>4 DEF Exit
<1>4. ASSUME NEW st, NEW su, InFirst(st), Left(st, su) PROVE InFirst(su)
  BY <1>4, LeftNumber DEF InFirst
<1>5. Added => InFirst(table')
  BY AddedNumber, AddGrows DEF InFirst, Grows
<1>6. table' = PushScope(table) => InFirst(table')
  BY PushedNumber
<1>7. table' = PushScope([table EXCEPT !.moduleId = Len(modules)]) => InFirst(table')
  <2> DEFINE st == [table EXCEPT !.moduleId = Len(modules)]
  <2>1. IsTable(st)
    BY ModuleIdGrows DEF InFirst, Grows
  <2>2. st.lut = table.lut /\ st.moduleId = Len(modules) /\ Len(modules) = 0
    BY DEF InFirst, IsTable
  <2> HIDE DEF st
  <2>3. InFirst(st)
    BY <2>1, <2>2 DEF InFirst, OneNumber
  <2> QED
    BY <2>3, PushedNumber DEF st
<1>8. Noted => InFirst(table')
  BY MarkedNumber DEF InFirst
<1> HIDE DEF Left, Added, Noted
<1> QED
  BY <1>1, <1>2, <1>3, <1>4, <1>5, <1>6, <1>7, <1>8 DEF BuildSymbols

(* And that leaves the scopes theirs. *)
LEMMA ModuleEndNumbers ==
  ASSUME IsTable(table), OneNumber(table), ExitModule
  PROVE  OneNumber(table')
<1>1. CASE table' = table
  BY <1>1
<1>2. CASE \E x, y, s : table' = PopScope(AddEntry([table EXCEPT !.moduleId = table.moduleId - 1], x, y, s))
  <2> DEFINE st == [table EXCEPT !.moduleId = table.moduleId - 1]
  <2>1. IsTable(st)
    BY ModuleIdGrows DEF Grows
  <2>2. st.lut = table.lut
    BY DEF IsTable
  <2> HIDE DEF st
  <2>3. OneNumber(st)
    BY <2>2 DEF OneNumber
  <2> QED
    BY <1>2, <2>1, <2>3, LeftNumber DEF st
<1> QED
  BY <1>1, <1>2 DEF ExitModule, Abort, Tables

-------------------------------------------------------------------------------
(* The second pass reports under its own name and keeps the rest. *)
LEMMA SecondPassKeeps ==
  ASSUME BuildTree
  PROVE  /\ table' = table /\ modules' = modules /\ configVars' = configVars
         /\ \A p : <<"symbols", p>> \in diags' => <<"symbols", p>> \in diags
<1> USE DEF Children_, NoChildren, InTree, Tables, Stop, Abort, Pass, InList, Add, AddAndEnter, Pop, GoOn, sbVars
<1> DEFINE Kept == /\ modules' = modules /\ configVars' = configVars
                   /\ diags' \in {diags, diags \cup {<<"tree", pos>>}}
<1>1. VisitIdentifier => Kept
  BY DEF VisitIdentifier, IdentifierOfLoop
<1>2. /\ VisitBoolLiteral \/ VisitRealLiteral \/ VisitStringLiteral => Kept
      /\ VisitIntLiteral => Kept
  BY DEF VisitBoolLiteral, VisitRealLiteral, VisitStringLiteral, VisitIntLiteral,
         LiteralOr, LiteralInto, Number
<1>3. VisitFnCall => Kept
  BY DEF VisitFnCall, OperandCall, Subscript, CallByPrefix, InitialiseWith
<1>4. VisitOpCall \/ VisitTuple => Kept
  BY DEF VisitOpCall, VisitTuple, InitialiseWith
<1>5. VisitVariable => Kept
  BY DEF VisitVariable, DeclareArray, Declare
<1>6. VisitFor \/ VisitForall \/ VisitCoforall => Kept
  BY DEF VisitFor, VisitForall, VisitCoforall, VisitLoop, OpenLoop
<1>7. VisitFunction \/ VisitModule \/ VisitRecord \/ VisitClass => Kept
  BY DEF VisitFunction, VisitModule, VisitRecord, VisitClass, VisitDecl, OpenScope
<1>8. VisitConditional \/ VisitBlock \/ VisitOther => Kept
  BY DEF VisitConditional, VisitBlock, VisitOther
<1>9. LeaveNode => Kept
  BY DEF LeaveNode, LeaveCall, LeaveOpCall, LeaveVariable, LeaveFunction_, LeaveBlock, LeaveOther
<1>10. VisitReturn => Kept
  BY DEF VisitReturn
<1>11. Kept
  BY <1>1, <1>2, <1>3, <1>4, <1>5, <1>6, <1>7, <1>8, <1>9, <1>10 DEF BuildTree, VisitNode
<1>12. \A p : <<"symbols", p>> # <<"tree", pos>>
  OBVIOUS
<1> QED
  BY <1>11, <1>12, TreeKeeps

(* The third pass keeps all of it. *)
LEMMA ThirdPassKeeps ==
  ASSUME GenerateCode
  PROVE  modules' = modules /\ configVars' = configVars /\ diags' = diags /\ table' = table
<1> USE DEF Unchanged, InTree, Tables, Then, Emit, WriteLine, Fail, Drop, Stop, Abort, sbVars
<1> DEFINE Kept == modules' = modules /\ configVars' = configVars /\ diags' = diags
<1>1. StartCode \/ PrintLine \/ EmitDeclaration \/ EmitNothing => Kept
  BY DEF StartCode, PrintLine, EmitDeclaration, EmitNothing
<1>2. EmitFunctionCall \/ EmitBinaryOp \/ EmitScalarDeclExpr \/ EmitReturn => Kept
  BY DEF EmitFunctionCall, EmitBinaryOp, EmitScalarDeclExpr, EmitReturn
<1>3. EmitConditional \/ EmitLoop \/ EmitFunctionDecl => Kept
  BY DEF EmitConditional, EmitLoop, EmitFunctionDecl
<1>4. EmitAggregate \/ EmitModule => Kept
  BY DEF EmitAggregate, EmitModule
<1> QED
  BY <1>1, <1>2, <1>3, <1>4, CodeKeeps DEF GenerateCode

(***************************************************************************)
(* The end of the module.                                                  *)
(***************************************************************************)
(* Only the module is open at its end. *)
LEMMA LastPlace ==
  ASSUME NEW a, Scoped(a)
  PROVE  /\ Len(a) \in 2 .. Len(a) /\ Len(a) \notin Opened(a) /\ a[Len(a)].tag = "Module"
         /\ InScopes(a, Len(a)) = {1} /\ Flat(a, Len(a))
<1>1. /\ Bracketing(a) /\ Len(a) \in Nat /\ 1 \in Opened(a) /\ CloseOf(a, 1) = Len(a)
      /\ 1 < Len(a) /\ a[1].tag = "Module" /\ a[Len(a)].tag = "Module" /\ Len(a) \notin Opened(a)
  BY ScopedBrackets DEF Bracketing, Scoped, OneModule
<1>2. ASSUME NEW s \in Opened(a), s # 1
      PROVE  CloseOf(a, s) < Len(a) /\ CloseOf(a, s) \in Nat /\ s \in Nat /\ s > 0
  <2>1. s \in 1 .. Len(a) /\ s # Len(a)
    BY <1>1 DEF Bracketing
  <2>2. 1 < s /\ s < CloseOf(a, 1)
    BY <1>1, <1>2, <2>1
  <2>3. CloseOf(a, s) < CloseOf(a, 1)
    BY <1>1, <2>2 DEF Bracketing
  <2>4. CloseOf(a, s) \in Nat
    BY <1>1 DEF Bracketing
  <2> QED
    BY <1>1, <2>1, <2>2, <2>3, <2>4
<1>3. Flat(a, Len(a))
  <2>1. SUFFICES ASSUME NEW v \in Opened(a), InVar(a, v, Len(a)) PROVE FALSE
    BY DEF Flat
  <2>2. v # 1 /\ Len(a) <= CloseOf(a, v)
    BY <1>1, <2>1 DEF InVar
  <2> QED
    BY <1>1, <1>2, <2>2
<1>4. 1 \in InScopes(a, Len(a))
  <2>1. IsScope(a, 1) /\ ~IsElse(a, 1)
    BY <1>1 DEF IsScope, IsElse
  <2>2. 1 < Len(a) /\ Len(a) <= ScopeEnd(a, 1)
    BY <1>1, <2>1 DEF ScopeEnd
  <2> QED
    BY <1>1, <2>1, <2>2 DEF InScopes
<1>5. ASSUME NEW s \in InScopes(a, Len(a)), s # 1 PROVE FALSE
  <2>1. s \in Opened(a) /\ Len(a) <= ScopeEnd(a, s)
    BY DEF InScopes
  <2>2. CASE ~IsElse(a, s)
    BY <1>1, <1>2, <1>5, <2>1, <2>2 DEF ScopeEnd
  <2>3. CASE IsElse(a, s)
    <3>1. a[s].tag = "Block" /\ Parent(a, s) # 0 /\ a[Parent(a, s)].tag = "Conditional"
      BY <2>3 DEF IsElse
    <3>2. CASE IsPlainElse(a, s)
      <4>1. Parent(a, s) \in Opened(a) /\ Parent(a, s) # 1
        BY <1>1, <2>1, <2>3, <3>1, ElseEnds
      <4> QED
        BY <1>1, <1>2, <2>1, <2>3, <3>2, <4>1 DEF ScopeEnd
    <3>3. CASE ~IsPlainElse(a, s)
      <4>1. s + 1 \in Opened(a)
        BY <2>1, <2>3, <3>3, ElseIfFills
      <4>2. s + 1 # 1
        BY <1>2, <1>5, <2>1
      <4>3. ScopeEnd(a, s) = CloseOf(a, s + 1)
        BY <2>3, <3>3 DEF ScopeEnd
      <4> QED
        BY <1>1, <1>2, <2>1, <4>1, <4>2, <4>3
    <3> QED
      BY <3>2, <3>3
  <2> QED
    BY <2>2, <2>3
<1> QED
  BY <1>1, <1>3, <1>4, <1>5

(* What addEntry and popScope leave of a table: the parent of its current  *)
(* scope is the current one.                                               *)
LEMMA LeftFor ==
  ASSUME NEW st, IsTable(st), NEW id \in DOMAIN st.lut, NEW x, NEW s, st.lut[st.ref].parent = 0
  PROVE  PopScope(AddEntry(st, id, x, s)).ref = 0
<1> DEFINE su == AddEntry(st, id, x, s)
<1>1. IsTable(su)
  BY AddGrows DEF Grows
<1>2. su.ref = st.ref /\ \A i \in DOMAIN st.lut : su.lut[i].parent = st.lut[i].parent
  BY AddedEntry
<1>3. st.ref \in DOMAIN st.lut
  BY DEF IsTable
<1> HIDE DEF su
<1>4. su.lut[su.ref].parent = 0
  BY <1>2, <1>3
<1>5. 0 # NoScope
  BY DEF NoScope
<1> QED
  BY <1>1, <1>4, <1>5, Popped DEF su

(* The end of a module with a name of its own: it is reported of nothing,  *)
(* listed, and the root is the current scope again.                        *)
Finished(cv) ==
  /\ Goes /\ Silent /\ table'.ref = 0
  /\ \E m : modules' = Append(cv, m) /\ m.ident = Name(ast[1].name) /\ m.kind.tag = "module" /\ m.scope = 0

(* exit(Module) at the last node of the program finishes the module so.    *)
LEMMA ModuleIsLeft ==
  ASSUME NEW nest, NEW c, Placed(nest, c), ExitModule, pos = Len(ast), OwnName(ast)
  PROVE  Finished(modules)
<1>1. /\ hasSym /\ Scoped(ast) /\ IsTable(table) /\ InScopes(ast, pos) = {1} /\ ast[1].tag = "Module"
      /\ Follows(ast, pos, nest, c, symstack, table, symnode)
  BY LastPlace DEF Placed, Scoped, OneModule
<1> DEFINE n == Len(nest)
<1>2. \A s \in InScopes(ast, pos) : s <= 1
  BY <1>1
<1>3. /\ StandsFor(ast, pos, 1, top) /\ top.scope = c[n - 1] /\ Held(ast, pos, nest, c, symstack, table)
      /\ \A k \in 1 .. n : nest[k] \in InScopes(ast, pos)
      /\ \A k \in 1 .. n - 1 : nest[k] < 1
  BY <1>1, <1>2, Uppermost
<1>4. n = 1
  <2>1. n \in Nat /\ n > 0
    BY AtTop
  <2>2. ~(1 \in 1 .. n - 1)
    <3>1. 1 \in 1 .. n - 1 => 1 \in 1 .. n
      BY <2>1
    <3> QED
      BY <1>1, <1>3, <3>1
  <2> HIDE DEF n
  <2> QED
    BY <2>1, <2>2
<1>5. /\ Chain(table, c, n) /\ table.ref = c[n] /\ DOMAIN table.lut[0].entries = DOMAIN RootEntries
  BY <1>3 DEF Held, Links, Known
<1> HIDE DEF n
<1>6. c[0] = 0 /\ top.scope = 0 /\ table.ref = c[1] /\ table.lut[c[1]].parent = c[0]
  BY <1>3, <1>4, <1>5 DEF Chain
<1>7. top.ident = Name(ast[1].name) /\ top.kind.tag = "module" /\ top.scope = 0
  BY <1>1, <1>3, <1>6 DEF StandsFor, IdentOf
<1>8. ~Found(Find(table, c[0], top.ident))
  <2>1. \A j \in 0 .. 0 : top.ident \notin DOMAIN table.lut[c[j]].entries
    BY <1>5, <1>6, <1>7 DEF OwnName
  <2>2. 0 \in 0 .. n /\ n \in Nat
    BY <1>4
  <2> QED
    BY <1>1, <1>5, <2>1, <2>2, NotFound
<1>9. /\ GoOn /\ diags' = diags
      /\ modules' = Append(modules, IF Len(symstack) > 1 THEN Nothing ELSE top)
      /\ table' = PopScope(AddEntry([table EXCEPT !.moduleId = @ - 1], top.scope, top.kind.sig, top))
  BY <1>6, <1>7, <1>8 DEF ExitModule, AlreadyDefined
<1>10. ~(Len(symstack) > 1)
  <2>1. Len(symstack) = 1
    BY <1>4, AtTop DEF n
  <2> QED
    BY <2>1
<1>11. table'.ref = 0
  <2>1. 0 \in DOMAIN table.lut
    BY <1>1 DEF IsTable
  <2> DEFINE left == [table EXCEPT !.moduleId = table.moduleId - 1]
  <2>2. table' = PopScope(AddEntry(left, 0, top.kind.sig, top))
    BY <1>6, <1>9
  <2>3. left = [lut |-> table.lut, ref |-> table.ref, moduleId |-> table.moduleId - 1]
    BY <1>1 DEF IsTable
  <2>4. IsTable(left)
    BY <1>1, ModuleIdGrows DEF Grows
  <2> HIDE DEF left
  <2>5. left.lut[left.ref].parent = 0 /\ 0 \in DOMAIN left.lut
    BY <1>6, <2>1, <2>3
  <2> QED
    BY <2>2, <2>4, <2>5, LeftFor
<1>12. modules' = Append(modules, top)
  BY <1>9, <1>10
<1> QED
  BY <1>7, <1>9, <1>11, <1>12 DEF Finished, Goes, Silent, GoOn

(* What may be reported: the end of a block, which enters nothing, and a   *)
(* module named like a built-in.                                           *)
MayReport(a, p) == a[p].tag = "Block" \/ (a[p].tag = "Module" /\ ~OwnName(a))

(* What the walk keeps, and what it has left when it is over.              *)
Undisturbed ==
  Scoped(ast) =>
    /\ \A p : <<"symbols", p>> \in diags => p \in DOMAIN ast /\ MayReport(ast, p)
    /\ phase = "symbols" /\ Traversing =>
         /\ modules = <<>> /\ Listed(ast, pos, configVars)
         /\ \A v \in Opened(ast) : InVar(ast, v, pos) => symstack[Len(symstack)].config = ast[v].flag
    /\ phase # "symbols" \/ ~Traversing =>
         /\ Listed(ast, Len(ast) + 1, configVars)
         /\ OwnName(ast) => /\ table.ref = 0
                            /\ \E m : modules = <<m>> /\ m.ident = Name(ast[1].name) /\ m.kind.tag = "module" /\ m.scope = 0

(* A call of the first pass that is as it should be. *)
Orderly ==
  /\ Aborts \/ Goes
  /\ \A p : <<"symbols", p>> \in diags' => <<"symbols", p>> \in diags \/ (p = pos /\ MayReport(ast, pos))
  /\ Aborts => modules' = modules /\ configVars' = configVars
  /\ Goes => Listed(ast, pos + 1, configVars')
  /\ Goes /\ pos < Len(ast) =>
       /\ modules' = modules
       /\ \A v \in Opened(ast) : InVar(ast, v, pos + 1) => symstack'[Len(symstack')].config = ast[v].flag
  /\ Goes /\ pos = Len(ast) /\ OwnName(ast) => Finished(modules)

(* The end of a module that throws lists none. *)
LEMMA ModuleOrNot ==
  ASSUME ExitModule, pos \in Nat, pos' = pos
  PROVE  modules' = modules
<1>1. pos' # pos + 1
  OBVIOUS
<1> QED
  BY <1>1 DEF ExitModule, GoOn, Abort, Tables

(* The messages of a call, when only MayReport are reported. *)
LEMMA Messages ==
  ASSUME BuildSymbols, Silent \/ MayReport(ast, pos)
  PROVE  \A p : <<"symbols", p>> \in diags' => <<"symbols", p>> \in diags \/ (p = pos /\ MayReport(ast, pos))
<1>1. CASE Silent
  BY <1>1 DEF Silent
<1>2. CASE MayReport(ast, pos)
  <2>1. diags' \in {diags, diags \cup {<<"symbols", pos>>}}
    BY WhoReports DEF Reports
  <2>2. \A p : <<"symbols", p>> = <<"symbols", pos>> => p = pos
    OBVIOUS
  <2> QED
    BY <1>2, <2>1, <2>2
<1> QED
  BY <1>1, <1>2

(* No variable ends at a node that is none. *)
LEMMA EndsNone ==
  ASSUME NEW a, Scoped(a), NEW p \in 1 .. Len(a), a[p].tag # "Variable" \/ Flat(a, p)
  PROVE  \A v \in ConfigNodes(a) : CloseOf(a, v) # p
<1>1. SUFFICES ASSUME NEW v \in Opened(a), a[v].tag = "Variable", CloseOf(a, v) = p PROVE FALSE
  BY DEF ConfigNodes
<1>2. a[p].tag = "Variable" /\ InVar(a, v, p)
  BY <1>1, ScopedBrackets, VariableEnds DEF Bracketing
<1> QED
  BY <1>1, <1>2 DEF Flat

(* The first call is orderly. *)
LEMMA FirstIsOrderly ==
  ASSUME Scoped(ast), pos = 1, IsTable(table), NEW nest, NEW c,
         Follows(ast, pos, nest, c, symstack, table, symnode), BuildSymbols,
         Listed(ast, pos, configVars)
  PROVE  Orderly
<1>1. /\ Bracketing(ast) /\ pos \in DOMAIN ast /\ pos \in Opened(ast) /\ node.tag = "Module"
      /\ pos \in 1 .. Len(ast) /\ ast[pos].tag # "Variable" /\ 1 < Len(ast)
  BY ScopedBrackets DEF Bracketing, Scoped, OneModule, node
<1>2. Aborts \/ Goes
  BY FirstStep DEF Outcome
<1>3. ~(ExitVariable \/ ExitFunction \/ ExitConditional \/ ExitBlock \/ ExitModule \/ ExitRecord \/ ExitClass)
  BY <1>1, TagOfStep
<1>4. Silent /\ modules' = modules /\ configVars' = configVars
  BY <1>3, WhoReports
<1>5. Listed(ast, pos + 1, configVars)
  BY <1>1, EndsNone, NoneEnds
<1>6. ASSUME NEW v \in Opened(ast) PROVE ~InVar(ast, v, pos + 1)
  <2>1. ~InVar(ast, v, pos)
    BY <1>1 DEF InVar, Bracketing
  <2> QED
    BY <1>1, <2>1, StillIn
<1>7. pos # Len(ast)
  <2>1. pos \in Opened(ast) /\ Len(ast) \notin Opened(ast)
    BY <1>1, LastPlace
  <2> QED
    BY <2>1, Zenon
<1>8. \A p : <<"symbols", p>> \in diags' => <<"symbols", p>> \in diags \/ (p = pos /\ MayReport(ast, pos))
  BY <1>4, Messages
<1> QED
  BY <1>2, <1>4, <1>5, <1>6, <1>7, <1>8, Zenon DEF Orderly

(* A call inside a variable is orderly. *)
LEMMA InVariableIsOrderly ==
  ASSUME hasSym, Scoped(ast), pos \in 2 .. Len(ast), IsTable(table), NEW nest, NEW c,
         Follows(ast, pos, nest, c, symstack, table, symnode),
         NEW v \in Opened(ast), ast[v].tag = "Variable", v < pos, pos < CloseOf(ast, v),
         BuildSymbols, Listed(ast, pos, configVars),
         \A u \in Opened(ast) : InVar(ast, u, pos) => symstack[Len(symstack)].config = ast[u].flag
  PROVE  Orderly
<1>1. pos \in 1 .. Len(ast) /\ pos \in DOMAIN ast /\ pos \in Nat
  BY ScopedBrackets DEF Bracketing
<1>2. Outcome /\ ConfigStays
  BY InVariableStep
<1>3. ast[pos].tag \notin {"Variable", "Record", "Class"} \cup ClosingTags
  BY <1>1, InVariableTags
<1>4. ~(ExitVariable \/ ExitFunction \/ ExitConditional \/ ExitModule \/ ExitRecord \/ ExitClass)
  BY <1>1, <1>3, TagOfStep DEF node, ClosingTags
<1>5. modules' = modules /\ configVars' = configVars /\ (Silent \/ ExitBlock)
  BY <1>4, WhoReports
<1>6. Silent \/ MayReport(ast, pos)
  BY <1>1, <1>5, TagOfStep DEF node, MayReport
<1>7. \A p : <<"symbols", p>> \in diags' => <<"symbols", p>> \in diags \/ (p = pos /\ MayReport(ast, pos))
  BY <1>6, Messages
<1>8. Listed(ast, pos + 1, configVars)
  BY <1>1, <1>3, EndsNone, NoneEnds
<1>9. symstack'[Len(symstack')].config = symstack[Len(symstack)].config
  <2>1. ~Flat(ast, pos)
    <3>1. InVar(ast, v, pos)
      BY <1>1, ScopedBrackets DEF InVar, Bracketing
    <3> QED
      BY <3>1 DEF Flat
  <2>2. Len(nest) \in Nat /\ Len(symstack) = Len(nest) + 1 /\ IsFcnSeq(symstack)
    BY <1>1, <2>1, Deeper
  <2>3. top = symstack[Len(symstack)]
    BY <2>2, Fronted DEF top
  <2> QED
    BY <1>2, <2>3 DEF ConfigStays
<1>10. ASSUME NEW u \in Opened(ast), InVar(ast, u, pos + 1)
       PROVE  symstack'[Len(symstack')].config = ast[u].flag
  <2>1. InVar(ast, u, pos)
    BY <1>1, <1>3, <1>10, StillIn
  <2> QED
    BY <1>9, <2>1
<1>11. pos # Len(ast)
  <2>1. ast[Len(ast)].tag = "Module"
    BY LastPlace
  <2> QED
    BY <1>3, <2>1 DEF ClosingTags
<1> QED
  BY <1>2, <1>5, <1>7, <1>8, <1>10, <1>11, Zenon DEF Orderly, Outcome

(* The end of a variable is orderly. *)
LEMMA VariableEndIsOrderly ==
  ASSUME hasSym, Scoped(ast), pos \in 2 .. Len(ast), IsTable(table), NEW nest, NEW c,
         Follows(ast, pos, nest, c, symstack, table, symnode),
         NEW v \in Opened(ast), ast[v].tag = "Variable", pos = CloseOf(ast, v),
         BuildSymbols, Listed(ast, pos, configVars),
         \A u \in Opened(ast) : InVar(ast, u, pos) => symstack[Len(symstack)].config = ast[u].flag
  PROVE  Orderly
<1>1. pos \in 1 .. Len(ast) /\ pos \in DOMAIN ast /\ pos \in Nat /\ Bracketing(ast) /\ ast[pos].tag = "Variable"
  BY ScopedBrackets DEF Bracketing
<1>2. Goes /\ Silent /\ configVars' = Configured
  BY VariableExits
<1>3. InVar(ast, v, pos) /\ ~Flat(ast, pos) /\ Flat(ast, pos + 1)
  BY VariableEnds DEF Flat
<1>4. Len(nest) \in Nat /\ Len(symstack) = Len(nest) + 1 /\ IsFcnSeq(symstack)
  BY <1>1, <1>3, Deeper
<1>5. top = symstack[Len(symstack)]
  BY <1>4, Fronted DEF top
<1>6. top.ident = Name(ast[v].name)
  BY <1>3, <1>5 DEF Follows, Declared
<1>7. top.config = ast[v].flag
  BY <1>3, <1>5
<1>8. Listed(ast, pos + 1, configVars')
  <2>1. CASE ast[v].flag
    <3>1. v \in ConfigNodes(ast)
      BY <2>1, Zenon DEF ConfigNodes
    <3>2. configVars' = Append(configVars, top)
      BY <1>2, <1>7, <2>1, Zenon DEF Configured
    <3> QED
      BY <1>6, <3>1, <3>2, OneEnds
  <2>2. CASE ~ast[v].flag
    <3>1. configVars' = configVars
      BY <1>2, <1>7, <2>2, Zenon DEF Configured
    <3>2. \A u \in ConfigNodes(ast) : CloseOf(ast, u) # pos
      <4>1. SUFFICES ASSUME NEW u \in Opened(ast), ast[u].tag = "Variable", u # v, CloseOf(ast, u) = pos PROVE FALSE
        BY <2>2, Zenon DEF ConfigNodes
      <4>2. u \in Nat /\ v \in Nat /\ u < pos /\ v < pos
        BY <1>1, <4>1 DEF Bracketing
      <4>3. CASE u < v
        BY <1>1, <4>1, <4>2, <4>3, VariablesApart
      <4>4. CASE v < u
        BY <1>1, <4>1, <4>2, <4>4, VariablesApart
      <4> QED
        BY <4>1, <4>2, <4>3, <4>4
    <3> QED
      BY <1>1, <3>1, <3>2, NoneEnds
  <2> QED
    BY <2>1, <2>2
<1>9. ~ExitModule
  BY <1>1, TagOfStep DEF node
<1>10. modules' = modules
  BY <1>9, WhoReports
<1>11. \A p : <<"symbols", p>> \in diags' => <<"symbols", p>> \in diags \/ (p = pos /\ MayReport(ast, pos))
  BY <1>2, Messages
<1>12. pos # Len(ast)
  BY <1>1, LastPlace
<1>13. ~Aborts
  <2>1. pos' = pos + 1
    BY <1>2 DEF Goes
  <2>2. Aborts => pos' = pos
    BY DEF Aborts
  <2> QED
    BY <1>1, <2>1, <2>2
<1> QED
  BY <1>2, <1>3, <1>8, <1>10, <1>11, <1>12, <1>13 DEF Orderly, Flat

(* A call between the variables is orderly. *)
LEMMA FlatIsOrderly ==
  ASSUME NEW nest, NEW c, Placed(nest, c), BuildSymbols, Listed(ast, pos, configVars)
  PROVE  Orderly
<1>1. /\ pos \in DOMAIN ast /\ pos \in 2 .. Len(ast) /\ Scoped(ast) /\ Flat(ast, pos) /\ pos \in 1 .. Len(ast)
      /\ pos \in Nat /\ Bracketing(ast)
  BY AtTop DEF Placed
<1>2. Aborts \/ Goes
  BY FlatStep DEF Outcome
<1>3. ast[pos].tag \notin {"Record", "Class"} /\ (ast[pos].tag = "Module" => pos \notin Opened(ast) /\ pos = Len(ast))
  BY <1>1, NoOthers
<1>4. ~(ExitRecord \/ ExitClass) /\ (ExitModule => ast[pos].tag = "Module" /\ pos = Len(ast))
  BY <1>1, <1>3, TagOfStep DEF node
<1>5. ast[pos].tag = "Variable" => pos \in Opened(ast)
  <2>1. SUFFICES ASSUME ast[pos].tag = "Variable", pos \notin Opened(ast) PROVE FALSE
    OBVIOUS
  <2>2. PICK v \in Opened(ast) : CloseOf(ast, v) = pos /\ ast[v].tag = ast[pos].tag
    BY <1>1, <2>1, ClosedNode
  <2>3. InVar(ast, v, pos)
    BY <1>1, <2>1, <2>2, VariableEnds
  <2> QED
    BY <1>1, <2>2, <2>3 DEF Flat
<1>6. ~ExitVariable
  BY <1>1, <1>5, TagOfStep DEF node
<1>7. configVars' = configVars
  BY <1>6, WhoReports
<1>8. Listed(ast, pos + 1, configVars)
  BY <1>1, EndsNone, NoneEnds
<1>9. ExitModule /\ OwnName(ast) => Finished(modules)
  BY <1>4, ModuleIsLeft
<1>10. Silent \/ MayReport(ast, pos)
  <2>1. ExitBlock => MayReport(ast, pos)
    BY <1>1, TagOfStep DEF node, MayReport
  <2>2. ExitModule => Silent \/ MayReport(ast, pos)
    BY <1>4, <1>9 DEF MayReport, Finished
  <2>3. ExitFunction \/ ExitConditional => Silent
    BY FunctionEnds, ConditionalExits
  <2> QED
    BY <1>4, <1>6, <2>1, <2>2, <2>3, WhoReports
<1>11. \A p : <<"symbols", p>> \in diags' => <<"symbols", p>> \in diags \/ (p = pos /\ MayReport(ast, pos))
  BY <1>10, Messages
<1>12. pos' = pos => modules' = modules
  BY <1>1, ModuleOrNot, WhoReports
<1>13. Aborts => pos' = pos
  BY DEF Aborts
<1>14. pos = Len(ast) => ExitModule
  <2>1. SUFFICES ASSUME pos = Len(ast) PROVE ExitModule
    OBVIOUS
  <2>2. pos \notin Opened(ast) /\ ast[pos].tag = "Module"
    BY <1>1, <2>1, LastPlace
  <2>3. ~Simple
    <3>1. ~ExitsOther
      BY <2>2, ExitsTheRest DEF node, ClosingTags
    <3> QED
      BY <1>1, <2>2, <3>1, SimpleTag DEF node
  <2> QED
    BY <1>1, <2>2, <2>3, Steps, TagOfStep DEF node, LoopTags
<1>15. pos < Len(ast) => modules' = modules
  <2>1. pos < Len(ast) => pos # Len(ast)
    BY <1>1
  <2> QED
    BY <1>4, <2>1, WhoReports
<1>16. ASSUME NEW v \in Opened(ast), InVar(ast, v, pos + 1), Goes, pos < Len(ast)
       PROVE  symstack'[Len(symstack')].config = ast[v].flag
  <2>1. ast[pos].tag = "Variable"
    BY <1>1, <1>16, StillIn DEF Flat
  <2>2. v = pos
    <3>1. v \in Nat /\ v < pos + 1 /\ ast[v].tag = "Variable" /\ ~InVar(ast, v, pos) /\ CloseOf(ast, v) \in Nat
          /\ pos + 1 <= CloseOf(ast, v)
      BY <1>1, <1>16 DEF InVar, Bracketing, Flat
    <3>2. v < pos => InVar(ast, v, pos)
      BY <1>1, <3>1 DEF InVar
    <3> QED
      BY <1>1, <3>1, <3>2
  <2> DEFINE fresh == Symbol(Kind("none"), Name(node.name), table.ref)
             s == [fresh EXCEPT !.config = node.flag]
  <2>3. EnterVariable
    <3>1. ~Simple
      <4>1. ~EntersIgnored
        BY <1>1, <2>1, IgnoredTags DEF Ignored, node
      <4>2. ~ExitsOther
        BY <1>5, <2>1, ExitsTheRest
      <4> QED
        BY <1>1, <1>5, <2>1, <4>1, <4>2, SimpleTag DEF node, SimpleTags, Ignored
    <3> QED
      BY <1>1, <1>5, <2>1, <3>1, Steps, TagOfStep DEF node, LoopTags
  <2>4. symstack' = Append(symstack, s)
    BY <2>3 DEF EnterVariable, Push, PushAnd
  <2>5. s.config = ast[v].flag
    BY <2>2, Zenon DEF node, Symbol
  <2> HIDE DEF s
  <2>6. IsFcnSeq(symstack)
    BY AtTop
  <2>7. symstack'[Len(symstack')] = s
    BY <2>4, <2>6, Appended
  <2> QED
    BY <2>5, <2>7
<1> QED
  BY <1>2, <1>7, <1>8, <1>9, <1>11, <1>12, <1>13, <1>14, <1>15, <1>16, Zenon DEF Orderly

(* Every call of the first pass is orderly. *)
LEMMA CallsAreOrderly ==
  ASSUME Following, IsTable(table), Undisturbed, BuildSymbols, Scoped(ast)
  PROVE  Orderly
<1>1. phase = "symbols" /\ Traversing
  BY FirstPassWalks
<1>2. PICK nest, c : /\ Follows(ast, pos, nest, c, symstack, table, symnode)
                     /\ pos > 1 => hasSym
  BY <1>1 DEF Following
<1>3. pos \in Nat \ {0} /\ pos <= Len(ast) /\ Len(ast) \in Nat
  BY <1>1, ScopedBrackets DEF Following, Traversing, Bracketing
<1>4. /\ Listed(ast, pos, configVars)
      /\ \A v \in Opened(ast) : InVar(ast, v, pos) => symstack[Len(symstack)].config = ast[v].flag
  BY <1>1 DEF Undisturbed
<1>5. CASE pos = 1
  BY <1>2, <1>4, <1>5, FirstIsOrderly
<1>6. CASE pos # 1
  <2>1. pos \in 2 .. Len(ast) /\ hasSym
    BY <1>2, <1>3, <1>6
  <2>2. CASE Flat(ast, pos)
    BY <1>2, <1>4, <2>1, <2>2, FlatIsOrderly DEF Placed
  <2>3. ASSUME NEW v \in Opened(ast), InVar(ast, v, pos)
        PROVE  Orderly
    <3>1. ast[v].tag = "Variable" /\ v < pos /\ pos <= CloseOf(ast, v) /\ CloseOf(ast, v) \in Nat /\ pos \in Nat
      BY <2>3, ScopedBrackets, <1>3 DEF InVar, Bracketing
    <3>2. CASE pos = CloseOf(ast, v)
      BY <1>2, <1>4, <2>1, <3>1, <3>2, VariableEndIsOrderly
    <3>3. CASE pos < CloseOf(ast, v)
      BY <1>2, <1>4, <2>1, <3>1, <3>3, InVariableIsOrderly
    <3> QED
      BY <3>1, <3>2, <3>3
  <2> QED
    BY <2>2, <2>3 DEF Flat
<1> QED
  BY <1>5, <1>6

(* Undisturbed holds before the first node. *)
LEMMA InitUndisturbed ==
  ASSUME CompilerInit PROVE Undisturbed
<1>1. pos = 1 /\ phase = "symbols" /\ diags = {} /\ modules = <<>> /\ configVars = <<>>
  BY DEF CompilerInit, Init
<1>2. SUFFICES ASSUME Scoped(ast) PROVE Undisturbed
  BY DEF Undisturbed
<1>3. Listed(ast, pos, configVars)
  BY <1>1, <1>2, NoneListed
<1>4. 1 < Len(ast) /\ Len(ast) \in Nat /\ \A v \in Opened(ast) : v \in Nat /\ ~(v < 1)
  BY <1>2, ScopedBrackets DEF Bracketing, Scoped, OneModule
<1>5. Traversing
  <2>1. 1 <= Len(ast)
    BY <1>4
  <2> QED
    BY <1>1, <2>1 DEF Traversing
<1>6. \A v \in Opened(ast) : ~InVar(ast, v, pos)
  BY <1>1, <1>4 DEF InVar
<1> QED
  BY <1>1, <1>3, <1>5, <1>6 DEF Undisturbed

(* The first pass keeps it. *)
LEMMA FirstPassUndisturbed ==
  ASSUME Following, IsTable(table), Undisturbed, BuildSymbols PROVE Undisturbed'
<1>1. phase = "symbols" /\ ast' = ast /\ phase' = phase /\ Traversing
  BY FirstPassWalks
<1>2. SUFFICES ASSUME Scoped(ast) PROVE Undisturbed'
  BY <1>1 DEF Undisturbed
<1>3. Orderly
  BY <1>2, CallsAreOrderly
<1>4. pos \in Nat \ {0} /\ pos <= Len(ast) /\ Len(ast) \in Nat /\ pos \in DOMAIN ast
  BY <1>1, <1>2, ScopedBrackets DEF Following, Traversing, Bracketing
<1>5. modules = <<>>
  BY <1>1, <1>2 DEF Undisturbed
<1>6. \A p : <<"symbols", p>> \in diags' => p \in DOMAIN ast' /\ MayReport(ast', p)
  <2>1. \A p : <<"symbols", p>> \in diags' => <<"symbols", p>> \in diags \/ (p = pos /\ MayReport(ast, pos))
    BY <1>3 DEF Orderly
  <2>2. \A p : <<"symbols", p>> \in diags => p \in DOMAIN ast /\ MayReport(ast, p)
    BY <1>2 DEF Undisturbed
  <2> QED
    BY <1>1, <1>4, <2>1, <2>2
<1>7. CASE Aborts
  <2>1. pos' = pos /\ symstack' = symstack /\ Traversing'
    BY <1>1, <1>7 DEF Aborts, Traversing
  <2>2. modules' = modules /\ configVars' = configVars
    BY <1>3, <1>7 DEF Orderly
  <2>3. /\ Listed(ast', pos', configVars')
        /\ \A v \in Opened(ast') : InVar(ast', v, pos') => symstack'[Len(symstack')].config = ast'[v].flag
    BY <1>1, <1>2, <2>1, <2>2 DEF Undisturbed
  <2> QED
    BY <1>1, <1>5, <1>6, <2>1, <2>2, <2>3 DEF Undisturbed
<1>8. CASE Goes
  <2>1. pos' = pos + 1 /\ Listed(ast', pos', configVars')
    BY <1>1, <1>3, <1>8 DEF Orderly, Goes
  <2>2. CASE pos < Len(ast)
    <3>1. Traversing'
      BY <1>1, <1>4, <2>1, <2>2 DEF Traversing
    <3>2. /\ modules' = modules
          /\ \A v \in Opened(ast') : InVar(ast', v, pos') => symstack'[Len(symstack')].config = ast'[v].flag
      BY <1>1, <1>3, <1>8, <2>1, <2>2 DEF Orderly
    <3> QED
      BY <1>1, <1>5, <1>6, <2>1, <3>1, <3>2 DEF Undisturbed
  <2>3. CASE pos = Len(ast)
    <3>1. ~Traversing' /\ pos' = Len(ast') + 1
      BY <1>1, <1>4, <2>1, <2>3 DEF Traversing
    <3>2. ASSUME OwnName(ast')
          PROVE  /\ table'.ref = 0
                 /\ \E m : modules' = <<m>> /\ m.ident = Name(ast'[1].name) /\ m.kind.tag = "module" /\ m.scope = 0
      <4>1. Finished(modules)
        BY <1>1, <1>3, <1>8, <2>3, <3>2 DEF Orderly
      <4>2. PICK m : modules' = Append(modules, m) /\ m.ident = Name(ast[1].name) /\ m.kind.tag = "module" /\ m.scope = 0
        BY <4>1 DEF Finished
      <4>3. modules' = <<m>>
        BY <1>5, <4>2
      <4> QED
        BY <1>1, <4>1, <4>2, <4>3 DEF Finished
    <3> QED
      BY <1>1, <1>6, <2>1, <3>1, <3>2 DEF Undisturbed
  <2> QED
    BY <1>4, <2>2, <2>3
<1> QED
  BY <1>3, <1>7, <1>8 DEF Orderly

(* Every step of the compiler keeps it. *)
LEMMA StepUndisturbed ==
  ASSUME Following, IsTable(table), Undisturbed, [Next]_vars PROVE Undisturbed'
<1>1. CASE UNCHANGED vars
  BY <1>1 DEF vars, Undisturbed, Traversing
<1>2. CASE BuildSymbols
  BY <1>2, FirstPassUndisturbed
<1>3. CASE BuildTree
  <2>1. ast' = ast /\ phase' = phase /\ phase = "tree"
    BY <1>3, SecondPassWalks
  <2>2. /\ table' = table /\ modules' = modules /\ configVars' = configVars
        /\ \A p : <<"symbols", p>> \in diags' => <<"symbols", p>> \in diags
    BY <1>3, SecondPassKeeps
  <2> QED
    BY <2>1, <2>2 DEF Undisturbed
<1>4. CASE GenerateCode
  <2>1. ast' = ast /\ phase' = phase /\ phase = "code"
    BY <1>4, ThirdPassStays
  <2>2. modules' = modules /\ configVars' = configVars /\ diags' = diags /\ table' = table
    BY <1>4, ThirdPassKeeps
  <2> QED
    BY <2>1, <2>2 DEF Undisturbed
<1>5. CASE NextPass
  <2>1. /\ ast' = ast /\ table' = table /\ modules' = modules /\ diags' = diags /\ configVars' = configVars
        /\ phase' # "symbols" /\ (phase # "symbols" \/ ~Traversing)
    BY <1>5 DEF NextPass, Tables, sbVars
  <2> QED
    BY <2>1 DEF Undisturbed
<1>6. CASE Ended
  BY <1>1, <1>6 DEF Ended
<1> QED
  BY <1>1, <1>2, <1>3, <1>4, <1>5, <1>6 DEF Next

(* At every moment of the first pass of a program whose nodes keep to      *)
(* Scoped, the config variables that have ended are listed and no others,  *)
(* a variable the pass is in has its isConfig on the stack, and no module  *)
(* has been listed; what is left at the end no later pass changes.         *)
THEOREM FirstPassIsUndisturbed == Spec => []Undisturbed
<1>1. CompilerInit => Undisturbed
  BY InitUndisturbed
<1>2. Following /\ IsTable(table) /\ Undisturbed /\ [Next]_vars => Undisturbed'
  BY StepUndisturbed
<1> QED
  BY <1>1, <1>2, FirstPassFollows, TablesAreTables, PTL DEF Spec

------------------------------------------------------------------------------
(* The number of the one module, and the scopes of the config variables.   *)
Counted ==
  Scoped(ast) =>
    /\ OneNumber(table)
    /\ phase = "symbols" /\ Traversing => table.moduleId = 0
    /\ \A i \in 1 .. Len(configVars) : configVars[i].scope \in DOMAIN table.lut

(* What the end of a variable lists is a symbol of the current scope. *)
LEMMA ListedIsInScope ==
  ASSUME Following, IsTable(table), Scoped(ast), BuildSymbols, IsFcnSeq(configVars),
         \A i \in 1 .. Len(configVars) : configVars[i].scope \in DOMAIN table.lut
  PROVE  \A i \in 1 .. Len(configVars') : configVars'[i].scope \in DOMAIN table.lut
<1>1. CASE ~ExitVariable
  <2>1. configVars' = configVars
    BY <1>1, WhoReports
  <2> QED
    BY <2>1
<1>2. CASE ExitVariable
  <2>1. phase = "symbols" /\ Traversing
    BY FirstPassWalks
  <2>2. PICK nest, c : /\ Follows(ast, pos, nest, c, symstack, table, symnode)
                       /\ pos > 1 => hasSym
    BY <2>1 DEF Following
  <2>3. pos \in Nat \ {0} /\ pos \in 1 .. Len(ast) /\ pos \in DOMAIN ast /\ Bracketing(ast)
    BY <2>1, ScopedBrackets DEF Following, Traversing, Bracketing
  <2>4. pos \notin Opened(ast) /\ ast[pos].tag = "Variable"
    BY <1>2, <2>3, TagOfStep DEF node
  <2>5. PICK v \in Opened(ast) : CloseOf(ast, v) = pos /\ ast[v].tag = "Variable"
    BY <2>3, <2>4, ClosedNode
  <2>6. InVar(ast, v, pos) /\ pos > 1 /\ ~Flat(ast, pos)
    BY <2>5, VariableEnds DEF Flat
  <2>7. Len(nest) \in Nat /\ Len(symstack) = Len(nest) + 1 /\ IsFcnSeq(symstack)
    BY <2>2, <2>3, <2>6, Deeper
  <2>8. top = symstack[Len(symstack)]
    BY <2>7, Fronted DEF top
  <2>9. top.scope \in DOMAIN table.lut
    BY <2>2, <2>6, <2>8 DEF Follows, Declared, IsTable
  <2>10. configVars' \in {configVars, Append(configVars, top)}
    BY <1>2, <2>2, <2>6 DEF ExitVariable, Configured
  <2>11. ASSUME configVars' = Append(configVars, top)
         PROVE  \A i \in 1 .. Len(configVars') : configVars'[i].scope \in DOMAIN table.lut
    <3>1. /\ Len(configVars') = Len(configVars) + 1 /\ configVars'[Len(configVars) + 1] = top
          /\ \A i \in 1 .. Len(configVars) : configVars'[i] = configVars[i]
      BY <2>11, Appended
    <3>2. Len(configVars) \in Nat
      BY DEF IsFcnSeq
    <3>3. \A i \in 1 .. Len(configVars') : i \in 1 .. Len(configVars) \/ i = Len(configVars) + 1
      BY <3>1, <3>2
    <3> QED
      BY <2>9, <3>1, <3>3
  <2> QED
    BY <2>10, <2>11
<1> QED
  BY <1>1, <1>2

(* Counted holds before the first node. *)
LEMMA InitCounted ==
  ASSUME CompilerInit PROVE Counted
<1>1. /\ configVars = <<>>
      /\ table = [EmptyTable EXCEPT !.lut[0].entries = RootEntries]
  BY DEF CompilerInit, Init
<1>2. EmptyTable = [lut |-> [i \in {0} |-> Scope(NoScope, 0)], ref |-> 0, moduleId |-> 0]
  BY DEF EmptyTable
<1>3. table = [lut |-> [i \in {0} |-> [Scope(NoScope, 0) EXCEPT !.entries = RootEntries]],
               ref |-> 0, moduleId |-> 0]
  BY <1>1, <1>2
<1>4. table.lut[0].moduleId = 0 /\ DOMAIN table.lut = {0} /\ table.moduleId = 0
  BY <1>3 DEF Scope
<1>5. Len(configVars) = 0
  BY <1>1
<1> QED
  BY <1>4, <1>5 DEF Counted, OneNumber

(* Counted is kept by every step of the compiler. *)
LEMMA StepCounted ==
  ASSUME Following, IsTable(table), Undisturbed, Counted, [Next]_vars PROVE Counted'
<1>1. CASE UNCHANGED vars
  BY <1>1 DEF vars, Counted, Traversing, OneNumber
<1>2. CASE BuildSymbols
  <2>1. phase = "symbols" /\ ast' = ast /\ phase' = phase /\ Traversing
    BY <1>2, FirstPassWalks
  <2>2. SUFFICES ASSUME Scoped(ast) PROVE Counted'
    BY <2>1 DEF Counted
  <2>3. /\ modules = <<>> /\ InFirst(table) /\ IsFcnSeq(configVars)
        /\ \A i \in 1 .. Len(configVars) : configVars[i].scope \in DOMAIN table.lut
    BY <2>1, <2>2 DEF Counted, Undisturbed, Listed, InFirst
  <2>4. \A i \in 1 .. Len(configVars') : configVars'[i].scope \in DOMAIN table'.lut
    <3>1. \A i \in DOMAIN table.lut : i \in DOMAIN table'.lut
      BY StepKeeps DEF Keeps
    <3> QED
      BY <1>2, <2>2, <2>3, <3>1, ListedIsInScope
  <2>5. CASE ~ExitModule
    <3>1. InFirst(table')
      BY <1>2, <2>3, <2>5, FirstPassNumbers
    <3> QED
      BY <2>4, <3>1 DEF Counted, InFirst
  <2>6. CASE ExitModule
    <3>1. OneNumber(table')
      BY <2>3, <2>6, ModuleEndNumbers DEF InFirst
    <3>2. Traversing' => table'.moduleId = 0
      <4>1. SUFFICES ASSUME Traversing' PROVE table'.moduleId = 0
        OBVIOUS
      <4>2. pos \in Nat \ {0} /\ pos <= Len(ast) /\ Len(ast) \in Nat /\ pos \in DOMAIN ast /\ Bracketing(ast)
        BY <2>1, <2>2, ScopedBrackets DEF Following, Traversing, Bracketing
      <4>3. pos = Len(ast)
        <5>1. pos \notin Opened(ast) /\ ast[pos].tag = "Module"
          BY <2>6, <4>2, TagOfStep DEF node
        <5>2. pos # 1
          BY <2>2, <5>1, ScopedBrackets, LastPlace DEF Scoped, OneModule, Bracketing
        <5>3. pos \in 2 .. Len(ast)
          BY <4>2, <5>2
        <5> QED
          BY <2>2, <5>1, <5>3, NoOthers
      <4>4. pos' # pos + 1
        BY <2>1, <4>1, <4>2, <4>3 DEF Traversing
      <4>5. table' = table
        BY <2>6, <4>4 DEF ExitModule, GoOn, Abort, Tables
      <4> QED
        BY <2>3, <4>5 DEF InFirst
    <3> QED
      BY <2>4, <3>1, <3>2 DEF Counted
  <2> QED
    BY <2>5, <2>6
<1>3. CASE BuildTree
  <2>1. ast' = ast /\ phase' = phase /\ phase = "tree"
    BY <1>3, SecondPassWalks
  <2>2. configVars' = configVars /\ table' = table
    BY <1>3, SecondPassKeeps
  <2> QED
    BY <2>1, <2>2 DEF Counted
<1>4. CASE GenerateCode
  <2>1. ast' = ast /\ phase' = phase /\ phase = "code"
    BY <1>4, ThirdPassStays
  <2>2. configVars' = configVars /\ table' = table
    BY <1>4, ThirdPassKeeps
  <2> QED
    BY <2>1, <2>2 DEF Counted
<1>5. CASE NextPass
  <2>1. ast' = ast /\ table' = table /\ configVars' = configVars /\ phase' # "symbols"
    BY <1>5 DEF NextPass, Tables, sbVars
  <2> QED
    BY <2>1 DEF Counted
<1>6. CASE Ended
  BY <1>1, <1>6 DEF Ended
<1> QED
  BY <1>1, <1>2, <1>3, <1>4, <1>5, <1>6 DEF Next

(* The options of the driver are the config variables of the source: the   *)
(* PlaceOf of one is its place among them.                                 *)
OptionsAreConfigs ==
  Scoped(ast) /\ OwnName(ast) /\ StartCode =>
    \E options :
      /\ status' = "run" /\ files' = <<"driver", "cpp">> :> options
      /\ DOMAIN options = 1 .. Cardinality(ConfigNodes(ast))
      /\ \A v \in ConfigNodes(ast) :
           options[PlaceOf(ast, v)].text = <<Tok(ast[1].name, 0), Tok(ast[v].name, 0)>>

(* The third pass begins as OptionsAreConfigs says. *)
LEMMA StartListsTheConfigs ==
  ASSUME Undisturbed, Counted, IsTable(table) PROVE OptionsAreConfigs
<1>1. SUFFICES ASSUME Scoped(ast), OwnName(ast), StartCode PROVE OptionsAreConfigs
  BY DEF OptionsAreConfigs
<1>2. phase = "code"
  BY <1>1 DEF StartCode
<1>3. /\ Listed(ast, Len(ast) + 1, configVars) /\ IsFcnSeq(configVars)
      /\ \E m : modules = <<m>> /\ m.ident = Name(ast[1].name) /\ m.kind.tag = "module" /\ m.scope = 0
  BY <1>1, <1>2 DEF Undisturbed, Listed
<1>4. ConfigsBefore(ast, Len(ast) + 1) = ConfigNodes(ast)
  <2>1. \A v \in Opened(ast) : CloseOf(ast, v) \in Nat /\ CloseOf(ast, v) \in 1 .. Len(ast)
    BY <1>1, ScopedBrackets DEF Bracketing
  <2>2. Len(ast) \in Nat
    BY <1>1, ScopedBrackets DEF Bracketing
  <2>3. \A v \in Opened(ast) : CloseOf(ast, v) < Len(ast) + 1
    BY <2>1, <2>2
  <2> QED
    BY <2>3 DEF ConfigsBefore, ConfigNodes
<1>5. DOMAIN configVars = 1 .. Len(configVars)
  BY <1>3 DEF IsFcnSeq
<1>6. \A i \in DOMAIN configVars : ModuleOf(configVars[i]) = 1
  BY <1>1, <1>5 DEF Counted, OneNumber, ModuleOf
<1>7. /\ modules[1] # Nothing /\ 1 \in DOMAIN modules /\ modules[1].ident = Name(ast[1].name)
      /\ modules[1].scope = 0
  <2>1. Nothing.kind.tag # "module"
    BY DEF Nothing, Kind
  <2>2. PICK m : modules = <<m>> /\ m.ident = Name(ast[1].name) /\ m.kind.tag = "module" /\ m.scope = 0
    BY <1>3
  <2>3. modules[1] = m /\ 1 \in DOMAIN modules
    BY <2>2
  <2> QED
    BY <2>1, <2>2, <2>3
<1>8. ~(\E i \in DOMAIN configVars : ~Named(configVars[i]))
  <2>1. 0 \in DOMAIN table.lut
    BY ParentsAre
  <2>2. ModuleOf(modules[1]) = 1
    BY <1>1, <1>7, <2>1 DEF Counted, OneNumber, ModuleOf
  <2> QED
    BY <1>6, <1>7, <2>2 DEF Named
<1> DEFINE lines == [i \in DOMAIN configVars |->
                       Line("option", 0, <<Tok(modules[ModuleOf(configVars[i])].ident.base, 0),
                                           Tok(configVars[i].ident.base, 0)>>)]
<1>9. files' = (<<"driver", "cpp">> :> lines) /\ status' = status /\ status = "run"
  BY <1>1, <1>8 DEF StartCode, Unchanged
<1>10. DOMAIN lines = 1 .. Cardinality(ConfigNodes(ast))
  BY <1>3, <1>4, <1>5 DEF Listed
<1>11. ASSUME NEW v \in ConfigNodes(ast)
       PROVE  lines[PlaceOf(ast, v)].text = <<Tok(ast[1].name, 0), Tok(ast[v].name, 0)>>
  <2>1. PlaceOf(ast, v) \in DOMAIN configVars /\ configVars[PlaceOf(ast, v)].ident = Name(ast[v].name)
    BY <1>3, <1>4, <1>5 DEF Listed
  <2>2. Name(ast[1].name).base = ast[1].name /\ Name(ast[v].name).base = ast[v].name
    BY DEF Name, Ident
  <2>3. lines[PlaceOf(ast, v)] = Line("option", 0, <<Tok(ast[1].name, 0), Tok(ast[v].name, 0)>>)
    <3>1. modules[ModuleOf(configVars[PlaceOf(ast, v)])].ident.base = ast[1].name
      BY <1>6, <1>7, <2>1, <2>2
    <3>2. configVars[PlaceOf(ast, v)].ident.base = ast[v].name
      BY <2>1, <2>2
    <3> QED
      BY <2>1, <3>1, <3>2
  <2> HIDE DEF lines
  <2> QED
    BY <2>3 DEF Line
<1> HIDE DEF lines
<1> QED
  BY <1>9, <1>10, <1>11 DEF OptionsAreConfigs

(* In a program whose nodes keep to Scoped every scope carries the number  *)
(* of its one module, 0, though the counter itself is -1 after the end of  *)
(* the module, and every config variable lies in one of those scopes.      *)
THEOREM ScopesHaveOneNumber == Spec => []Counted
<1>1. CompilerInit => Counted
  BY InitCounted
<1>2. Following /\ IsTable(table) /\ Undisturbed /\ Counted /\ [Next]_vars => Counted'
  BY StepCounted
<1> QED
  BY <1>1, <1>2, FirstPassFollows, TablesAreTables, FirstPassIsUndisturbed, PTL DEF Spec

(* The first pass reports no declaration of a program whose nodes keep to  *)
(* Scoped as already defined: all it may report there is the end of a      *)
(* block, where nothing is entered, and a module that has the name of a    *)
(* built-in.  No later pass adds to those messages.                        *)
THEOREM NoDeclarationIsReported ==
  Spec => [](Scoped(ast) =>
               \A p : <<"symbols", p>> \in diags => p \in DOMAIN ast /\ MayReport(ast, p))
<1>1. Undisturbed => (Scoped(ast) =>
                        \A p : <<"symbols", p>> \in diags => p \in DOMAIN ast /\ MayReport(ast, p))
  BY DEF Undisturbed
<1> QED
  BY <1>1, FirstPassIsUndisturbed, PTL

(* When the second pass takes over, the current scope, in which its        *)
(* visitor starts, is the root again, however many scopes the program      *)
(* opens, and the one module is listed, by a pointer that does not dangle. *)
THEOREM FirstPassEndsAtTheRoot ==
  Spec => [](Scoped(ast) /\ OwnName(ast) /\ phase # "symbols" =>
               /\ table.ref = 0
               /\ \E m : modules = <<m>> /\ m.ident = Name(ast[1].name) /\ m.kind.tag = "module" /\ m.scope = 0)
<1>1. Undisturbed =>
        (Scoped(ast) /\ OwnName(ast) /\ phase # "symbols" =>
           /\ table.ref = 0
           /\ \E m : modules = <<m>> /\ m.ident = Name(ast[1].name) /\ m.kind.tag = "module" /\ m.scope = 0)
  BY DEF Undisturbed
<1> QED
  BY <1>1, FirstPassIsUndisturbed, PTL

(* When the third pass begins, it looks up no number of a module that is   *)
(* not listed, and writes to the driver one option for each config         *)
(* variable of the source, in the order of the source, under the name of   *)
(* the module and its own.                                                 *)
THEOREM DriverListsTheConfigs == Spec => [][OptionsAreConfigs]_vars
<1>1. Undisturbed /\ Counted /\ IsTable(table) => [OptionsAreConfigs]_vars
  BY StartListsTheConfigs
<1> QED
  BY <1>1, FirstPassIsUndisturbed, ScopesHaveOneNumber, TablesAreTables, PTL
=============================================================================
