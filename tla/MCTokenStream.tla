---------------------------- MODULE MCTokenStream ----------------------------
(***************************************************************************)
(* Texts for TokenStream: for every scanner one that leads up to it, and   *)
(* the bytes it tells apart to go on with.                                 *)
(***************************************************************************)
EXTENDS TokenStream

From(m, t, then, more) == [mode |-> m, text |-> t, then |-> then, more |-> more]

(* Character data, references, CDATA and IGNORE sections.                    *)
DataScripts ==
  {From("content", <<>>, {"x", "]", ">", "cr", "lf", "C3", "A1", "nul", "<"}, 4),
   From("content", <<"&">>, {"a", "#", "x", "0", "9", ";", "C3", ":"}, 4),
   From("content", <<"&", "#", "x", "1", "1", "0">>, {"0", "F", ";", "]"}, 3),
   From("content", <<"&", "#", "x", "F", "F">>, {"F", "D", ";", "x"}, 3),
   From("content", <<"x", "&", "a", "m">>, {"p", "x", ";", "cr"}, 3),
   From("content", <<"<", "!", "[", "C", "D", "A", "T", "A", "[">>,
        {"x", "]", ">", "cr", "lf", "C3", "97"}, 4),
   From("content", <<"<", "!", "[", "C">>, {"D", "A", "["}, 3),
   From("ignore", <<"<">>, {"<", "!", "[", "]", ">", "CC"}, 5),
   From("ignore", <<"<", "!", "[", "]", "]", ">">>, {"]", ">", "<", "x"}, 4)}

(* Tags, comments, processing instructions.                                  *)
MarkupScripts ==
  {From("content", <<"<">>, {"a", "9", ":", "/", ">", " "}, 5),
   From("content", <<"<">>, {"!", "?", "-", "[", "a", ">"}, 3),
   From("content", <<"<", "a">>, {"C3", "A1", "CC", "97", ">", ":"}, 4),
   From("content", <<"<", "a", " ", "a">>, {"=", "'", "\"", " ", "/", ">"}, 5),
   From("content", <<"<", "a", " ", "a", "=", "'">>, {"'", "x", " ", "&", ">", "<"}, 4),
   From("content", <<"<", "a", " ", "a", "=", "'">>, {"'", " ", "tab", "cr", "lf", "\""}, 4),
   From("content", <<"<", "a", " ", "a", "=", "'", "&", "#">>, {"x", "0", "9", ";", "'", ">"}, 4),
   From("content", <<"<", "a", " ", "a", "=", "'", "'">>, {" ", "a", "=", "'", "/", ">"}, 3),
   From("content", <<"<", "a", " ", "a", "=", "'", "'", " ", "a">>, {" ", "=", "'", "/", ">"}, 4),
   From("content", <<"<", "a", ":", "a">>, {":", "a", ">", "/", " "}, 4),
   From("content", <<"<", "a", ":", "x", " ", "a", ":">>, {"a", ":", "=", "'", ">"}, 5),
   From("content", <<"<", "!", "-">>, {"-", ">", "x", "cr", "lf"}, 5),
   From("content", <<"<", "!", "-", "-">>, {"-", ">", "C3", "A1"}, 4),
   From("content", <<"<", "?", "x">>, {"m", "M", "l", "?", ">", " "}, 4),
   From("content", <<"<", "?", "x", " ">>, {"?", ">", "cr", "lf", "C3"}, 4)}

(* The prolog and the external subset.                                       *)
PrologScripts ==
  {From("prolog", <<>>, {"a", " ", "cr", "lf", ":", "%", "(", ")", "*"}, 3),
   From("prolog", <<" ">>, {" ", "cr", "lf", ")", "*"}, 4),
   From("prolog", <<"<">>, {"!", "?", "[", "a", "-", "%", " ", ">", "C3"}, 4),
   From("prolog", <<"a">>, {":", "a", "9", "+", "C3", "CC", "A1", ">"}, 4),
   From("prolog", <<"'">>, {"'", "\"", ">", "cr", "lf", "C3", "A1", "x"}, 4),
   From("prolog", <<"'", "&">>, {"C3", "A1", "CC", "#", "0", ";", "'", "cr"}, 4),
   From("prolog", <<"'", "%">>, {"C3", "A1", "%", "a", ";", "'"}, 4),
   From("prolog", <<"]">>, {"]", ">", "|", ",", "x"}, 4),
   From("prolog", <<"#">>, {"a", ")", "|", ":", "97"}, 3),
   From("prolog", <<"<", "!", "-", "-", "-">>, {"-", ">", "<", "a"}, 4)}

MCScripts == DataScripts \cup MarkupScripts \cup PrologScripts

-----------------------------------------------------------------------------
(* Tags, references and comments by the grammar of XML 1.0 and of Namespaces *)
(* in XML: for a set of positions in the text, the positions a phrase that   *)
(* starts at one of them may end at.                                         *)
Byte(set, P) == {p + 1 : p \in {q \in P : q <= Len(text) /\ text[q] \in set}}
Star(set, P) ==
  {q \in 1..(Len(text) + 1) : \E p \in P : p <= q /\ \A r \in p..(q - 1) : text[r] \in set}
S(P) == Star(White, Byte(White, P))                                 \* [3]
NCName(P) == Star(NameByte, Byte(NameStart, P))
QName(P) ==
  IF Namespaces THEN NCName(P) \cup NCName(Byte({":"}, NCName(P))) ELSE NCName(P)
Hash(P) == Byte({"#"}, Byte({"&"}, P))
CharRef(P) ==                                                       \* [66]
  Byte({";"}, Star(Digit, Byte(Digit, Hash(P)))
              \cup Star(Digit \cup Hex, Byte(Digit \cup Hex, Byte({"x"}, Hash(P)))))
EntityRef(P) == Byte({";"}, NCName(Byte({"&"}, P)))                 \* [68]
Allowed == {b \in {text[i] : i \in DOMAIN text} : b \notin NotXml}     \* [2]

RECURSIVE ValueChars(_, _)
ValueChars(quote, P) ==
  LET Q == P \cup Byte(Allowed \ {"<", "&", quote}, P) \cup CharRef(P) \cup EntityRef(P)
  IN  IF Q = P THEN P ELSE ValueChars(quote, Q)
Quoted(P) == UNION {Byte({q}, ValueChars(q, Byte({q}, P))) : q \in Quotes}    \* [10]
MaybeS(P) == Star(White, P)
Attribute(P) == Quoted(MaybeS(Byte({"="}, MaybeS(QName(P)))))       \* [41]
RECURSIVE Attributed(_)
Attributed(P) ==
  LET Q == P \cup Attribute(S(P)) IN IF Q = P THEN P ELSE Attributed(Q)
TagBody(P) == MaybeS(Attributed(QName(Byte({"<"}, P))))
STag(P) == Byte({">"}, TagBody(P))                                  \* [40]
EmptyElemTag(P) == Byte({">"}, Byte({"/"}, TagBody(P)))             \* [44]
(* [42]; that the name equals the start tag's makes it a QName.              *)
ETag(P) ==
  Byte({">"}, MaybeS(Star(NameByte \cup {":"}, Byte(NameStart, Byte({"/"}, Byte({"<"}, P))))))
RECURSIVE CommentChars(_)
CommentChars(P) ==
  LET nonDash == Allowed \ {"-"}
      Q == P \cup Byte(nonDash, P \cup Byte({"-"}, P))
  IN  IF Q = P THEN P ELSE CommentChars(Q)
Dashes(P) == Byte({"-"}, Byte({"-"}, P))
Comment(P) == Byte({">"}, Dashes(CommentChars(Dashes(Byte({"!"}, Byte({"<"}, P))))))  \* [15]

Derived(tok) ==
  CASE tok \in {"START_TAG_NO_ATTS", "START_TAG_WITH_ATTS"} -> STag({s})
    [] tok \in EmptyTags -> EmptyElemTag({s})
    [] tok = "END_TAG" -> ETag({s})
    [] tok = "CHAR_REF" -> CharRef({s})
    [] tok = "ENTITY_REF" -> EntityRef({s})
    [] tok = "COMMENT" -> Comment({s})
    [] OTHER -> {}

Markup ==
  STag({s}) \cup EmptyElemTag({s}) \cup ETag({s}) \cup CharRef({s}) \cup EntityRef({s})
    \cup Comment({s})

(* contentTok finds a tag, a reference or a comment where the grammar has    *)
(* one, of that kind and as long as the grammar says, and nowhere else; for  *)
(* texts of one-byte characters.  The tables and jumps of the scanners are   *)
(* one reading of the grammar by hand, and they accept what they pass.       *)
MarkupByGrammar ==
  running /\ mode = "content" /\ (\A i \in DOMAIN text : text[i] \notin Lead) =>
    \A r \in {contentTok(text, s, given + 1)} :
      /\ Markup = (IF Derived(r.tok) = {} THEN {} ELSE {r.next})
      /\ r.tok \in StartTags \cup {"END_TAG", "CHAR_REF", "ENTITY_REF", "COMMENT"} =>
           Derived(r.tok) = {r.next}
=============================================================================
