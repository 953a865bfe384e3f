------------------------------ MODULE Documents ------------------------------
(***************************************************************************)
(* The data the content modules share.  A document, and the replacement    *)
(* text of an internal entity, is a sequence of tokens: what one call of   *)
(* XmlContentTok, XmlCdataSectionTok or XmlPrologTok would find in it.     *)
(***************************************************************************)
EXTENDS Integers, Sequences

CONSTANTS
  Docs,      \* the documents the application may feed
  Names,     \* element names
  Entities,  \* the internal general entities the DTD declares
  Text,      \* [Entities -> Seq(Tokens)], ENTITY.textPtr
  Document,  \* not an entity: stands for the text being fed
  External   \* those documents that are external general entities, read by
             \* a parser of XML_ExternalEntityParserCreate

(* Tokens without a name: character data, a carriage return (white space),   *)
(* a PI or comment, the delimiters of a CDATA section, something that is not *)
(* XML, and markup the text ends inside of.                                  *)
Marks == {"chars", "cr", "pi", "cdopen", "cdclose", "bad", "frag"}

Tokens ==
  [k: {"start", "end", "empty"}, n: Names]
    \cup [k: {"ref"}, n: Entities \cup {"undeclared"}]
    \cup [k: Marks, n: {"-"}]

ASSUME DocumentsAssumption ==
  /\ Document \notin Entities
  /\ Text \in [Entities -> Seq(Tokens)]
  /\ Docs \subseteq Seq(Tokens)
  /\ External \subseteq Docs

=============================================================================
