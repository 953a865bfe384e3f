---------------------------- MODULE MCContentModel ----------------------------
(***************************************************************************)
(* Element declarations checked: every sequence of a few tokens, with      *)
(* tables so small that each of them grows.                                *)
(***************************************************************************)
EXTENDS ContentModel, TLC

CONSTANTS a, b

MCElements == {a, b}
Grouping ==
  [k: {"<!ELEMENT", "DECL_CLOSE", "OPEN_PAREN", "CLOSE_PAREN", "COMMA", "OR", "NAME"},
   n: {a}]
  \cup [k: {"NAME_QUESTION"}, n: {b}]
EveryKind ==
  Grouping \cup [k: {"<!ATTLIST", "#PCDATA", "EMPTY", "CLOSE_PAREN_ASTERISK", "PARAM_ENTITY_REF"}, n: {a}]
MCNameLength == (a :> 2) @@ (b :> 3)

=============================================================================
