---------------------------- MODULE SymbolTable ----------------------------
(***************************************************************************)
(* chpl::ast::visitors::hpx::SymbolTable: a tree of variable scopes, the   *)
(* look-up table lut that numbers them, and symbolTableRef, the scope that *)
(* is being populated.  A table is a record                                *)
(*     [lut |-> [0..n -> Scope], ref |-> scope, moduleId |-> Int]          *)
(* and every operation of the class is an operator from tables to tables.  *)
(*                                                                         *)
(* An identifier is a record [base, line, formals]: "f|int|real" is        *)
(* [base |-> "f", line |-> 0, formals |-> <<"int", "real">>], the name     *)
(* "for" + emitChapelLine(ast) is [base |-> "for", line |-> n, ...].       *)
(***************************************************************************)
EXTENDS Integers, Sequences, FiniteSets, SequencesExt

CONSTANT Begins(_, _)  \* the name s begins with t (findPrefix)

NoScope == -1

Ident(base, line, formals) == [base |-> base, line |-> line, formals |-> formals]
Name(base) == Ident(base, 0, <<>>)

(* kind_types: `tag' is the alternative the variant holds ("none" for      *)
(* std::monostate).  Most alternatives are shared_ptrs: tag and `at', the  *)
(* place in the program where the object was made (0: a built-in one), say *)
(* which object the kind refers to.  lut and sig are those of func_kind,   *)
(* module_kind, record_kind and class_kind, which nothing changes once     *)
(* other symbols can refer to the object.                                  *)
Kind(tag) == [tag |-> tag, at |-> 0, lut |-> 0, sig |-> Name("")]
FuncKind(lut, sig) == [Kind("func") EXCEPT !.lut = lut, !.sig = sig]

(* A symbol: its kind, its identifier, the scope it belongs to, isConfig   *)
(* and the place of the first node in its list literal (0: none).          *)
Symbol(kind, ident, scope) ==
  [kind |-> kind, ident |-> ident, scope |-> scope, config |-> FALSE, literal |-> 0]

Nothing == [kind |-> Kind("nothing"), ident |-> Name(""), scope |-> NoScope,
            config |-> FALSE, literal |-> 0]
Found(s) == s.kind.tag # "nothing"

Scope(parent, moduleId) ==
  [entries |-> [i \in {} |-> Nothing], parent |-> parent, moduleId |-> moduleId]

EmptyTable == [lut |-> [i \in {0} |-> Scope(NoScope, 0)], ref |-> 0, moduleId |-> 0]

(* lut.size() *)
Size(st) == Cardinality(DOMAIN st.lut)

(* Mutant: lut.size() is read after the new scope has been appended. *)
MutPushScope_SizeAfter(st) ==
  LET new == Size(st)
  IN  [lut |-> [i \in 0 .. new |->
                  IF i = new THEN Scope(st.ref, st.moduleId) ELSE st.lut[i]],
       ref |-> new + 1, moduleId |-> st.moduleId]

PushScope(st) ==
  LET new == Size(st)
  IN  [lut |-> [i \in 0 .. new |->
                  IF i = new THEN Scope(st.ref, st.moduleId) ELSE st.lut[i]],
       ref |-> new, moduleId |-> st.moduleId]

PopScope(st) ==
  [st EXCEPT !.ref = IF st.lut[@].parent = NoScope THEN @ ELSE st.lut[@].parent]

(* Mutant: operator[] in place of insert. *)
MutAddEntry_Replaces(st, id, ident, s) ==
  [st EXCEPT !.lut[id].entries =
     [i \in DOMAIN @ \cup {ident} |-> IF i = ident THEN s ELSE @[i]]]

(* std::map::insert: an identifier that is there already keeps its symbol. *)
AddEntry(st, id, ident, s) ==
  IF ident \in DOMAIN st.lut[id].entries THEN st
  ELSE [st EXCEPT !.lut[id].entries =
          [i \in DOMAIN @ \cup {ident} |-> IF i = ident THEN s ELSE @[i]]]

(* itr->second.literal.push_back: the one change of a symbol in the table. *)
MarkLiteral(st, id, ident, place) ==
  IF st.lut[id].entries[ident].literal # 0 THEN st
  ELSE [st EXCEPT !.lut[id].entries[ident].literal = place]

(* The scopes a search looks at, from id up to the root. *)
Path(st, id) ==
  LET up[i \in DOMAIN st.lut] ==
        IF st.lut[i].parent = NoScope THEN <<i>>
        ELSE <<i>> \o up[st.lut[i].parent]
  IN  up[id]

Declares(st, id, ident) == ident \in DOMAIN st.lut[id].entries

(* The first scope of a path that declares the identifier. *)
FirstHit(st, path, ident) ==
  LET hits == {i \in DOMAIN path : Declares(st, path[i], ident)}
      first == CHOOSE i \in hits : \A j \in hits : i <= j
  IN  IF hits = {} THEN Nothing ELSE st.lut[path[first]].entries[ident]

(* find(idx, ident), and find(ident) with idx = symbolTableRef. *)
Find(st, id, ident) == FirstHit(st, Path(st, id), ident)

(* find(ident, s&): a hit in the enclosing scopes replaces the hit in the  *)
(* scope the search starts from.                                           *)
FindInto(st, ident) ==
  LET outer == FirstHit(st, Tail(Path(st, st.ref)), ident)
      inner == FirstHit(st, <<st.ref>>, ident)
  IN  IF Found(outer) THEN outer ELSE inner

(* findPrefix: the innermost scope that declares an identifier beginning   *)
(* with `name' decides; NoScope when there is none.                        *)
PrefixScope(st, id, name) ==
  LET hits == SelectSeq(Path(st, id),
                        LAMBDA n : \E i \in DOMAIN st.lut[n].entries : Begins(i.base, name))
  IN  IF hits = <<>> THEN NoScope ELSE hits[1]

=============================================================================
