----------------------------- MODULE ContentSpec -----------------------------
(***************************************************************************)
(* What an element declaration says: productions 45 to 51 of XML 1.0, read *)
(* over the tokens of a declaration without its white space.  A group is   *)
(* put together on a stack as it closes; there is no table of nodes, no    *)
(* index and no depth to keep in step.                                     *)
(***************************************************************************)
EXTENDS PrologRoles, SequencesExt

CONSTANT NameLength

(* A group of which some members have been read.                             *)
NewGroup == [separator |-> "none", children |-> <<>>]

Start ==
  [at |-> "start", element |-> "-", groups |-> <<>>, content |-> <<>>, nodes |-> 0, chars |-> 0]

Quantifier(k) ==
  CASE k \in {"NAME_QUESTION", "CLOSE_PAREN_QUESTION"} -> "OPT"
    [] k \in {"NAME_ASTERISK", "CLOSE_PAREN_ASTERISK"} -> "REP"
    [] k \in {"NAME_PLUS", "CLOSE_PAREN_PLUS"}         -> "PLUS"
    [] OTHER -> "NONE"

Tree(type, quant, name, children) ==
  [type |-> type, quant |-> quant, name |-> name, children |-> children]

AddChild(groups, child) ==
  [groups EXCEPT ![Len(groups)].children = Append(@, child)]

ReadLeaf(s, t, at) ==
  [s EXCEPT !.at = at, !.nodes = @ + 1, !.chars = @ + NameLength[t.n],
            !.groups = AddChild(@, Tree("NAME", Quantifier(t.k), t.n, <<>>))]

ReadOpen(s, at) == [s EXCEPT !.at = at, !.nodes = @ + 1, !.groups = Append(@, NewGroup)]

ReadEnd(s, type, t) ==
  LET group == Last(s.groups)
      tree == Tree(type, Quantifier(t.k), "-", group.children)
  IN  IF Len(s.groups) = 1
      THEN [s EXCEPT !.at = "end", !.groups = <<>>, !.content = tree]
      ELSE [s EXCEPT !.at = "next", !.groups = AddChild(Front(@), tree)]

Separators == {"COMMA", "OR"}
Accepts(group, separator) == group.separator \in {"none", separator}

(* One more token of the declaration.                                        *)
Read(s, t) ==
  CASE s.at = "start" /\ t.k = "<!ELEMENT"    -> [s EXCEPT !.at = "name"]
    [] s.at = "name" /\ t.k \in QName         -> [s EXCEPT !.at = "spec", !.element = t.n]
    [] s.at = "spec" /\ t.k \in {"EMPTY", "ANY"} ->
         [s EXCEPT !.at = "end", !.nodes = 1, !.content = Tree(t.k, "NONE", "-", <<>>)]
    [] s.at = "spec" /\ t.k = "OPEN_PAREN"    -> ReadOpen(s, "first")
    [] s.at = "first" /\ t.k = "#PCDATA"      -> [s EXCEPT !.at = "mixed"]
    [] s.at = "mixed" /\ t.k = "OR"           -> [s EXCEPT !.at = "mixedName"]
    [] s.at = "mixedName" /\ t.k \in QName    -> ReadLeaf(s, t, "mixed")
    [] s.at = "mixed" /\ t.k = "CLOSE_PAREN" /\ s.groups[1].children = <<>> -> ReadEnd(s, "MIXED", t)
    [] s.at = "mixed" /\ t.k = "CLOSE_PAREN_ASTERISK" -> ReadEnd(s, "MIXED", t)
    [] s.at \in {"first", "item"} /\ t.k = "OPEN_PAREN" -> ReadOpen(s, "item")
    [] s.at \in {"first", "item"} /\ t.k \in Particle   -> ReadLeaf(s, t, "next")
    [] s.at = "next" /\ t.k \in Separators /\ Accepts(Last(s.groups), t.k) ->
         [s EXCEPT !.at = "item", !.groups[Len(s.groups)].separator = t.k]
    [] s.at = "next" /\ t.k \in GroupEnd ->
         ReadEnd(s, IF Last(s.groups).separator = "OR" THEN "CHOICE" ELSE "SEQ", t)
    [] s.at = "end" /\ t.k = "DECL_CLOSE"     -> [s EXCEPT !.at = "done"]
    [] OTHER                                  -> [s EXCEPT !.at = "bad"]

Declared(decl) ==
  LET read[i \in 0..Len(decl)] == IF i = 0 THEN Start ELSE Read(read[i - 1], decl[i])
  IN  read[Len(decl)]

Model(s) == [model |-> s.content, nodes |-> s.nodes, chars |-> s.chars]

=============================================================================
