------------------------------ MODULE Tokenizer ------------------------------
(***************************************************************************)
(* The scanners of xmltok_impl.c, as xmltok.c instantiates them for UTF-8  *)
(* (MINBPC is 1).  A text is a sequence of bytes; p is the position of the *)
(* next one and e the position after the last, as ptr and end are.  Bytes  *)
(* are named for the character they stand for; C3 and CC lead two bytes.   *)
(*                                                                         *)
(* A scanner returns the token and where it ends.  next = 0 stands for the *)
(* results that leave *nextTokPtr alone: PARTIAL, PARTIAL_CHAR, NONE, the  *)
(* TRAILING ones, and the negated tokens, which end with the buffer unless *)
(* more of it comes.                                                       *)
(***************************************************************************)
EXTENDS Integers, Sequences

CONSTANT Namespaces   \* the encodings of XmlInitEncodingNS: ":" is BT_COLON
ASSUME NamespacesAssumption == Namespaces \in BOOLEAN

Space == {" ", "tab"}                                       \* BT_S
White == Space \cup {"cr", "lf"}
Lead == {"C3", "CC"}                                        \* BT_LEAD2
NotXml == {"nul", "A1", "97"}                               \* BT_NONXML, BT_TRAIL
Trail == {"A1", "97"}
Hex == {"a", "A", "C", "D", "F"}                            \* BT_HEX
Digit == {"0", "1", "9"}
NameStart == Hex \cup {"x", "m", "l", "X", "M", "T", "t", "g", "p", "q", "u", "o", "s"}
               \cup (IF Namespaces THEN {} ELSE {":"})      \* and BT_NMSTRT
NameByte == NameStart \cup Digit \cup {".", "-"}            \* BT_NAME, BT_MINUS
Quotes == {"\"", "'"}

(* namingBitmap: C3 leads letters but for the multiplication and division    *)
(* signs, CC combining marks.  Only the low bits of the second byte count.   *)
IsNmstrt2(t, p) == t[p] = "C3" /\ t[p + 1] # "97"
IsName2(t, p) == t[p] = "CC" \/ IsNmstrt2(t, p)
IsInvalid2(t, p) == t[p + 1] \notin Trail

-----------------------------------------------------------------------------
Res(tok, next) == [tok |-> tok, next |-> next]
Open(tok) == Res(tok, 0)
Partial == Open("PARTIAL")
Invalid(p) == Res("INVALID", p)
(* The scan goes on at p; the switch goes on to its other cases.             *)
Go(p) == Res("go", p)
Other == Open("other")
Then(r, F(_)) == IF r.tok = "go" THEN F(r.next) ELSE r
OrElse(r, s) == IF r = Other THEN s ELSE r

(* REQUIRE_CHAR.                                                             *)
Require(t, p, e, F(_)) == IF p < e THEN F(t[p]) ELSE Partial

(* INVALID_CASES, CHECK_NAME_CASES and CHECK_NMSTRT_CASES.                   *)
Char2(p, e, good) ==
  IF e - p < 2 THEN Open("PARTIAL_CHAR") ELSE IF good THEN Go(p + 2) ELSE Invalid(p)
InvalidCases(t, p, e) ==
  IF t[p] \in Lead THEN Char2(p, e, ~IsInvalid2(t, p))
  ELSE IF t[p] \in NotXml THEN Invalid(p) ELSE Other
CheckName(t, p, e) ==
  IF t[p] \in Lead THEN Char2(p, e, IsName2(t, p))
  ELSE IF t[p] \in NameByte THEN Go(p + 1) ELSE Other
CheckNmstrt(t, p, e) ==
  IF t[p] \in Lead THEN Char2(p, e, IsNmstrt2(t, p))
  ELSE IF t[p] \in NameStart THEN Go(p + 1) ELSE Other

(* One name start character; then on to the first byte that is not of the    *)
(* name.                                                                     *)
First(t, p, e) ==
  Require(t, p, e, LAMBDA b : OrElse(CheckNmstrt(t, p, e), Invalid(p)))

RECURSIVE Rest(_, _, _, _)
Rest(t, p, e, atEnd) ==
  IF p >= e THEN atEnd
  ELSE LET c == CheckName(t, p, e)
       IN  IF c = Other THEN Go(p)
           ELSE IF c.tok = "go" THEN Rest(t, c.next, e, atEnd) ELSE c

Name(t, p, e) == Then(First(t, p, e), LAMBDA q : Rest(t, q, e, Partial))

(* skipS.                                                                    *)
SkipS(t, p, e) ==
  CHOOSE q \in p..e : (q = e \/ t[q] \notin White) /\ \A r \in p..(q - 1) : t[r] \in White

-----------------------------------------------------------------------------
(* p follows "<!-".                                                          *)
RECURSIVE CommentBody(_, _, _)
CommentBody(t, p, e) ==
  IF p >= e THEN Partial
  ELSE LET c == OrElse(InvalidCases(t, p, e), Go(p + 1)) IN
    IF t[p] = "-" /\ p + 1 >= e THEN Partial
    ELSE IF t[p] = "-" /\ t[p + 1] = "-" THEN
      Require(t, p + 2, e, LAMBDA b : IF b = ">" THEN Res("COMMENT", p + 3) ELSE Invalid(p + 2))
    ELSE IF c.tok = "go" THEN CommentBody(t, c.next, e) ELSE c

scanComment(t, p, e) ==
  Require(t, p, e, LAMBDA b : IF b = "-" THEN CommentBody(t, p + 1, e) ELSE Invalid(p))

(* p follows "<?".                                                           *)
checkPiTarget(t, p, q) ==
  IF q - p # 3 \/ t[p] \notin {"x", "X"} \/ t[p + 1] \notin {"m", "M"} \/ t[p + 2] \notin {"l", "L"}
  THEN "PI"
  ELSE IF SubSeq(t, p, q - 1) = <<"x", "m", "l">> THEN "XML_DECL" ELSE "refused"

RECURSIVE PiBody(_, _, _, _)
PiBody(t, p, e, tok) ==
  IF p >= e THEN Partial
  ELSE LET c == OrElse(InvalidCases(t, p, e), Go(p + 1)) IN
    IF t[p] = "?" /\ p + 1 >= e THEN Partial
    ELSE IF t[p] = "?" /\ t[p + 1] = ">" THEN Res(tok, p + 2)
    ELSE IF c.tok = "go" THEN PiBody(t, c.next, e, tok) ELSE c

scanPi(t, p, e) ==
  Then(Name(t, p, e), LAMBDA q :
    LET tok == checkPiTarget(t, p, q) IN
    CASE t[q] \notin White \cup {"?"} \/ tok = "refused" -> Invalid(q)
      [] t[q] \in White -> PiBody(t, q + 1, e, tok)
      [] OTHER -> Require(t, q + 1, e, LAMBDA b :
                    IF b = ">" THEN Res(tok, q + 2) ELSE Invalid(q + 1)))

(* p follows "<!".                                                           *)
RECURSIVE DeclName(_, _, _)
DeclName(t, p, e) ==
  IF p >= e THEN Partial
  ELSE CASE t[p] = "%" /\ p + 1 >= e -> Partial
         [] t[p] = "%" /\ t[p + 1] \in White \cup {"%"} -> Invalid(p)
         [] t[p] \in White \cup {"%"} -> Res("DECL_OPEN", p)
         [] t[p] \in NameStart -> DeclName(t, p + 1, e)
         [] OTHER -> Invalid(p)

scanDecl(t, p, e) ==
  Require(t, p, e, LAMBDA b :
    CASE b = "-" -> scanComment(t, p + 1, e)
      [] b = "[" -> Res("COND_SECT_OPEN", p + 1)
      [] b \in NameStart -> DeclName(t, p + 1, e)
      [] OTHER -> Invalid(p))

(* p follows "<![".                                                          *)
CdataLsqb == <<"C", "D", "A", "T", "A", "[">>
scanCdataSection(t, p, e) ==
  IF e - p < 6 THEN Partial
  ELSE LET q == CHOOSE q \in p..(p + 6) : /\ q = p + 6 \/ t[q] # CdataLsqb[q - p + 1]
                                          /\ \A r \in p..(q - 1) : t[r] = CdataLsqb[r - p + 1]
       IN  IF q = p + 6 THEN Res("CDATA_SECT_OPEN", q) ELSE Invalid(q)

(* p follows "</".                                                           *)
RECURSIVE EndTagName(_, _, _)
EndTagName(t, p, e) ==
  Then(Rest(t, p, e, Partial), LAMBDA q :
    CASE t[q] = ">" -> Res("END_TAG", q + 1)
      [] t[q] = ":" -> EndTagName(t, q + 1, e)
      [] t[q] \in White -> LET s == SkipS(t, q, e)
                           IN  Require(t, s, e, LAMBDA b :
                                 IF b = ">" THEN Res("END_TAG", s + 1) ELSE Invalid(s))
      [] OTHER -> Invalid(q))
scanEndTag(t, p, e) == Then(First(t, p, e), LAMBDA q : EndTagName(t, q, e))

-----------------------------------------------------------------------------
(* p follows "&#x"; "&#"; "&".                                               *)
Digits(t, p, e, digits) ==
  LET q == CHOOSE q \in p..e : (q >= e \/ t[q] \notin digits) /\ \A r \in p..(q - 1) : t[r] \in digits
  IN  Require(t, q, e, LAMBDA b :
        IF b = ";" /\ q > p THEN Res("CHAR_REF", q + 1) ELSE Invalid(q))
scanHexCharRef(t, p, e) == Digits(t, p, e, Digit \cup Hex)
scanCharRef(t, p, e) ==
  Require(t, p, e, LAMBDA b :
    IF b = "x" THEN scanHexCharRef(t, p + 1, e) ELSE Digits(t, p, e, Digit))
scanRef(t, p, e) ==
  Require(t, p, e, LAMBDA b :
    IF b = "#" THEN scanCharRef(t, p + 1, e)
    ELSE Then(Name(t, p, e), LAMBDA q :
           IF t[q] = ";" THEN Res("ENTITY_REF", q + 1) ELSE Invalid(q)))

-----------------------------------------------------------------------------
(* The name of an element or attribute after its first character: at most    *)
(* one colon, and a name start character after it.                           *)
RECURSIVE QualifiedRest(_, _, _, _)
\* Mutant: the second colon is let through.
QualifiedRestColons(t, p, e, hadColon) ==
  Then(Rest(t, p, e, Partial), LAMBDA q :
    IF t[q] # ":" THEN Go(q)
    ELSE Then(First(t, q + 1, e), LAMBDA r : QualifiedRest(t, r, e, TRUE)))
QualifiedRest(t, p, e, hadColon) ==
  Then(Rest(t, p, e, Partial), LAMBDA q :
    IF t[q] # ":" THEN Go(q)
    ELSE IF hadColon THEN Invalid(q)
    ELSE Then(First(t, q + 1, e), LAMBDA r : QualifiedRest(t, r, e, TRUE)))

(* The labels gt and sol.                                                    *)
TagEnd(t, p, e, startTag, emptyElement) ==
  CASE t[p] = ">" -> Res(startTag, p + 1)
    [] t[p] = "/" -> Require(t, p + 1, e, LAMBDA b :
                       IF b = ">" THEN Res(emptyElement, p + 2) ELSE Invalid(p + 1))
    [] OTHER -> Other

(* p is in the value, opened by the quote open; returns where it closes.     *)
RECURSIVE AttValue(_, _, _, _)
AttValue(t, p, e, open) ==
  IF p >= e THEN Partial
  ELSE IF t[p] = open THEN Go(p)
  ELSE IF t[p] = "<" THEN Invalid(p)
  ELSE IF t[p] = "&"
  THEN LET r == scanRef(t, p + 1, e)
       IN  IF r.tok \in {"CHAR_REF", "ENTITY_REF"} THEN AttValue(t, r.next, e, open) ELSE r
  ELSE LET c == OrElse(InvalidCases(t, p, e), Go(p + 1))
       IN  IF c.tok = "go" THEN AttValue(t, c.next, e, open) ELSE c

(* p follows the first character of an attribute name.                       *)
RECURSIVE scanAtts(_, _, _)
scanAtts(t, p, e) ==
  Then(QualifiedRest(t, p, e, FALSE), LAMBDA q : LET eq == SkipS(t, q, e) IN
  Require(t, eq, e, LAMBDA b : IF b # "=" THEN Invalid(eq)
    ELSE LET open == SkipS(t, eq + 1, e) IN
  Require(t, open, e, LAMBDA c : IF c \notin Quotes THEN Invalid(open)
    ELSE Then(AttValue(t, open + 1, e, c), LAMBDA close :
  Require(t, close + 1, e, LAMBDA d :
    LET next == SkipS(t, close + 1, e)
        ends(n) == TagEnd(t, n, e, "START_TAG_WITH_ATTS", "EMPTY_ELEMENT_WITH_ATTS")
    IN  IF d \notin White THEN OrElse(ends(close + 1), Invalid(close + 1))
        ELSE Require(t, next, e, LAMBDA f : OrElse(ends(next),
               Then(First(t, next, e), LAMBDA n : scanAtts(t, n, e)))))))))

(* p follows "<".                                                            *)
StartTag(t, p, e) ==
  LET ends(n) == TagEnd(t, n, e, "START_TAG_NO_ATTS", "EMPTY_ELEMENT_NO_ATTS")
  IN  Then(First(t, p, e), LAMBDA f : Then(QualifiedRest(t, f, e, FALSE), LAMBDA q :
        IF t[q] \notin White THEN OrElse(ends(q), Invalid(q))
        ELSE LET next == SkipS(t, q, e)
             IN  Require(t, next, e, LAMBDA b : OrElse(ends(next),
                   Then(First(t, next, e), LAMBDA n : scanAtts(t, n, e))))))

scanLt(t, p, e) ==
  Require(t, p, e, LAMBDA b :
    CASE b = "?" -> scanPi(t, p + 1, e)
      [] b = "/" -> scanEndTag(t, p + 1, e)
      [] b = "!" -> Require(t, p + 1, e, LAMBDA c :
                      CASE c = "-" -> scanComment(t, p + 2, e)
                        [] c = "[" -> scanCdataSection(t, p + 2, e)
                        [] OTHER -> Invalid(p + 1))
      [] OTHER -> StartTag(t, p, e))

-----------------------------------------------------------------------------
(* "cr" and "lf" at p: a pair is one token.                                  *)
\* Mutant: a "cr" always brings its "lf".
NewlinePair(t, p, e, atEnd) ==
  Res("DATA_NEWLINE", IF t[p] = "lf" THEN p + 1 ELSE p + 2)
Newline(t, p, e, atEnd) ==
  IF t[p] = "lf" THEN Res("DATA_NEWLINE", p + 1)
  ELSE IF p + 1 >= e THEN atEnd
  ELSE Res("DATA_NEWLINE", IF t[p + 1] = "lf" THEN p + 2 ELSE p + 1)

(* "]" at p, which may begin the "]]>" that content must not have.           *)
\* Mutant: what the buffer does not hold is taken to be something else.
RsqbEager(t, p, e) ==
  IF p + 2 < e /\ SubSeq(t, p, p + 2) = <<"]", "]", ">">> THEN Invalid(p + 2) ELSE Go(p + 1)
Rsqb(t, p, e) ==
  IF p + 1 >= e THEN Open("TRAILING_RSQB")
  ELSE IF t[p + 1] # "]" THEN Go(p + 1)
  ELSE IF p + 2 >= e THEN Open("TRAILING_RSQB")
  ELSE IF t[p + 2] = ">" THEN Invalid(p + 2) ELSE Go(p + 1)

RECURSIVE ContentData(_, _, _)
ContentData(t, p, e) ==
  CASE p >= e -> Res("DATA_CHARS", p)
    [] p < e /\ t[p] \in Lead ->
         IF e - p < 2 THEN Res("DATA_CHARS", p)
         ELSE IF IsInvalid2(t, p) THEN Res("DATA_CHARS", p) ELSE ContentData(t, p + 2, e)
    [] p < e /\ t[p] = "]" ->
         LET r == Rsqb(t, p, e)
         IN  IF r.tok = "TRAILING_RSQB" THEN Res("DATA_CHARS", p)
             ELSE Then(r, LAMBDA q : ContentData(t, q, e))
    [] p < e /\ t[p] \in {"&", "<", "cr", "lf"} \cup NotXml -> Res("DATA_CHARS", p)
    [] OTHER -> ContentData(t, p + 1, e)

contentTok(t, p, e) ==
  CASE p >= e -> Open("NONE")
    [] p < e /\ t[p] = "<" -> scanLt(t, p + 1, e)
    [] p < e /\ t[p] = "&" -> scanRef(t, p + 1, e)
    [] p < e /\ t[p] \in {"cr", "lf"} -> Newline(t, p, e, Open("TRAILING_CR"))
    [] p < e /\ t[p] = "]" ->
         Then(Rsqb(t, p, e), LAMBDA q : ContentData(t, q, e))
    [] OTHER -> Then(OrElse(InvalidCases(t, p, e), Go(p + 1)), LAMBDA q : ContentData(t, q, e))

RECURSIVE CdataData(_, _, _)
CdataData(t, p, e) ==
  IF p >= e THEN Res("DATA_CHARS", p)
  ELSE IF t[p] \in {"]", "cr", "lf"} THEN Res("DATA_CHARS", p)
  ELSE LET c == OrElse(InvalidCases(t, p, e), Go(p + 1))
       IN  IF c.tok = "go" THEN CdataData(t, c.next, e) ELSE Res("DATA_CHARS", p)

cdataSectionTok(t, p, e) ==
  CASE p >= e -> Open("NONE")
    [] p < e /\ t[p] \in {"cr", "lf"} -> Newline(t, p, e, Partial)
    [] p < e /\ t[p] = "]" ->
         Require(t, p + 1, e, LAMBDA b :
           IF b # "]" THEN CdataData(t, p + 1, e)
           ELSE Require(t, p + 2, e, LAMBDA c :
                  IF c = ">" THEN Res("CDATA_SECT_CLOSE", p + 3) ELSE CdataData(t, p + 1, e)))
    [] OTHER -> Then(OrElse(InvalidCases(t, p, e), Go(p + 1)), LAMBDA q : CdataData(t, q, e))

(* An IGNORE section, with the sections nested in it.                        *)
RECURSIVE IgnoreAt(_, _, _, _)
IgnoreAt(t, p, e, level) ==
  IF p >= e THEN Partial
  ELSE LET c == OrElse(InvalidCases(t, p, e), Go(p + 1)) IN
    CASE t[p] = "<" ->
           Require(t, p + 1, e, LAMBDA b : IF b # "!" THEN IgnoreAt(t, p + 1, e, level)
             ELSE Require(t, p + 2, e, LAMBDA d :
                    IF d = "[" THEN IgnoreAt(t, p + 3, e, level + 1)
                    ELSE IgnoreAt(t, p + 2, e, level)))
      [] t[p] = "]" ->
           Require(t, p + 1, e, LAMBDA b : IF b # "]" THEN IgnoreAt(t, p + 1, e, level)
             ELSE Require(t, p + 2, e, LAMBDA d :
                    IF d # ">" THEN IgnoreAt(t, p + 2, e, level)
                    ELSE IF level = 0 THEN Res("IGNORE_SECT", p + 3)
                    ELSE IgnoreAt(t, p + 3, e, level - 1)))
      [] OTHER -> IF c.tok = "go" THEN IgnoreAt(t, c.next, e, level) ELSE c
ignoreSectionTok(t, p, e) == IgnoreAt(t, p, e, 0)

-----------------------------------------------------------------------------
(* p follows "%"; "#".                                                       *)
scanPercent(t, p, e) ==
  Require(t, p, e, LAMBDA b :
    IF b \in White \cup {"%"} THEN Res("PERCENT", p)
    ELSE Then(Name(t, p, e), LAMBDA q :
           IF t[q] = ";" THEN Res("PARAM_ENTITY_REF", q + 1) ELSE Invalid(q)))
scanPoundName(t, p, e) ==
  Then(First(t, p, e), LAMBDA f : Then(Rest(t, f, e, Open("POUND_NAME")), LAMBDA q :
    IF t[q] \in White \cup {")", ">", "%", "|"} THEN Res("POUND_NAME", q) ELSE Invalid(q)))

(* p follows the quote open.                                                 *)
RECURSIVE scanLit(_, _, _, _)
\* Mutant: characters of two bytes are passed one byte at a time.
scanLitBytes(open, t, p, e) ==
  CASE p >= e -> Partial
    [] p < e /\ t[p] = open ->
         IF p + 1 >= e THEN Open("LITERAL")
         ELSE IF t[p + 1] \in White \cup {">", "%", "["} THEN Res("LITERAL", p + 1)
         ELSE Invalid(p + 1)
    [] OTHER -> scanLit(open, t, p + 1, e)
scanLit(open, t, p, e) ==
  CASE p >= e -> Partial
    [] p < e /\ t[p] = open ->
         IF p + 1 >= e THEN Open("LITERAL")
         ELSE IF t[p + 1] \in White \cup {">", "%", "["} THEN Res("LITERAL", p + 1)
         ELSE Invalid(p + 1)
    [] OTHER -> LET c == OrElse(InvalidCases(t, p, e), Go(p + 1))
                IN  IF c.tok = "go" THEN scanLit(open, t, c.next, e) ELSE c

(* White space; "cr" as the last byte is kept for the pair it may be half of.*)
\* Mutants: the last byte is not looked at; it is, but not when it is the only one.
PrologSEager(t, p, e) == Res("PROLOG_S", SkipS(t, p, e))
PrologSStuck(t, p, e) ==
  LET q == SkipS(t, p, e) IN Res("PROLOG_S", IF q < e \/ t[e - 1] # "cr" THEN q ELSE e - 1)
PrologS(t, p, e) ==
  LET q == SkipS(t, p, e)
  IN  IF q < e \/ t[e - 1] # "cr" THEN Res("PROLOG_S", q)
      ELSE IF p = e - 1 THEN Open("PROLOG_S") ELSE Res("PROLOG_S", e - 1)

Quantified(b) ==
  CASE b = "?" -> "NAME_QUESTION" [] b = "*" -> "NAME_ASTERISK" [] b = "+" -> "NAME_PLUS"

(* A name or name token in the making is tok so far.                         *)
RECURSIVE NameTok(_, _, _, _)
NameTok(t, p, e, tok) ==
  Then(Rest(t, p, e, Open(tok)), LAMBDA q :
    CASE t[q] \in White \cup {">", ")", ",", "|", "[", "%"} -> Res(tok, q)
      [] t[q] = ":" /\ tok = "NAME" ->
           Require(t, q + 1, e, LAMBDA b : LET c == CheckName(t, q + 1, e) IN
             IF c = Other THEN NameTok(t, q + 1, e, "NMTOKEN")
             ELSE Then(c, LAMBDA r : NameTok(t, r, e, "PREFIXED_NAME")))
      [] t[q] = ":" /\ tok # "NAME" -> NameTok(t, q + 1, e, "NMTOKEN")
      [] t[q] \in {"?", "*", "+"} /\ tok # "NMTOKEN" -> Res(Quantified(t[q]), q + 1)
      [] OTHER -> Invalid(q))

CloseParen(t, p, e) ==
  IF p >= e THEN Open("CLOSE_PAREN")
  ELSE CASE t[p] = "*" -> Res("CLOSE_PAREN_ASTERISK", p + 1)
         [] t[p] = "?" -> Res("CLOSE_PAREN_QUESTION", p + 1)
         [] t[p] = "+" -> Res("CLOSE_PAREN_PLUS", p + 1)
         [] t[p] \in White \cup {">", ",", "|", ")"} -> Res("CLOSE_PAREN", p)
         [] OTHER -> Invalid(p)

CloseBracket(t, p, e) ==
  IF p >= e THEN Open("CLOSE_BRACKET")
  ELSE IF t[p] # "]" THEN Res("CLOSE_BRACKET", p)
  ELSE Require(t, p + 1, e, LAMBDA b :
         IF b = ">" THEN Res("COND_SECT_CLOSE", p + 2) ELSE Res("CLOSE_BRACKET", p))

OneByteTok(b) ==
  CASE b = "," -> "COMMA" [] b = "[" -> "OPEN_BRACKET" [] b = "(" -> "OPEN_PAREN"
    [] b = "|" -> "OR" [] b = ">" -> "DECL_CLOSE"

PrologName(t, p, e) ==
  IF t[p] \in Lead
  THEN IF e - p >= 2 /\ IsNmstrt2(t, p) THEN NameTok(t, p + 2, e, "NAME")
       ELSE Then(Char2(p, e, IsName2(t, p)), LAMBDA q : NameTok(t, q, e, "NMTOKEN"))
  ELSE IF t[p] \in NameStart THEN NameTok(t, p + 1, e, "NAME")
  ELSE IF t[p] \in NameByte \cup {":"} THEN NameTok(t, p + 1, e, "NMTOKEN")
  ELSE Invalid(p)

prologTok(t, p, e) ==
  CASE p >= e -> Open("NONE")
    [] p < e /\ t[p] \in Quotes -> scanLit(t[p], t, p + 1, e)
    [] p < e /\ t[p] = "<" ->
         Require(t, p + 1, e, LAMBDA b :
           CASE b = "!" -> scanDecl(t, p + 2, e)
             [] b = "?" -> scanPi(t, p + 2, e)
             [] b \in NameStart \cup Lead -> Res("INSTANCE_START", p)
             [] OTHER -> Invalid(p + 1))
    [] p < e /\ t[p] \in White -> PrologS(t, p, e)
    [] p < e /\ t[p] = "%" -> scanPercent(t, p + 1, e)
    [] p < e /\ t[p] = "#" -> scanPoundName(t, p + 1, e)
    [] p < e /\ t[p] = "]" -> CloseBracket(t, p + 1, e)
    [] p < e /\ t[p] = ")" -> CloseParen(t, p + 1, e)
    [] p < e /\ t[p] \in {",", "[", "(", "|", ">"} -> Res(OneByteTok(t[p]), p + 1)
    [] OTHER -> PrologName(t, p, e)

-----------------------------------------------------------------------------
(* Literals, scanned before: a stretch of them up to one of the stop bytes.  *)
RECURSIVE Stretch(_, _, _, _)
Stretch(t, p, e, stop) ==
  IF p >= e THEN Res("DATA_CHARS", p)
  ELSE IF t[p] \in stop THEN Res("DATA_CHARS", p)
  ELSE Stretch(t, IF t[p] \in Lead THEN p + 2 ELSE p + 1, e, stop)

attributeValueTok(t, p, e) ==
  CASE p >= e -> Open("NONE")
    [] p < e /\ t[p] = "&" -> scanRef(t, p + 1, e)
    [] p < e /\ t[p] \in {"cr", "lf"} -> Newline(t, p, e, Open("TRAILING_CR"))
    [] p < e /\ t[p] \in Space -> Res("ATTRIBUTE_VALUE_S", p + 1)
    [] OTHER -> LET s == Stretch(t, p, e, White \cup {"&", "<"})
                IN  IF s.next < e /\ t[s.next] = "<" THEN Invalid(s.next) ELSE s

entityValueTok(t, p, e) ==
  CASE p >= e -> Open("NONE")
    [] p < e /\ t[p] = "&" -> scanRef(t, p + 1, e)
    [] p < e /\ t[p] = "%" -> LET r == scanPercent(t, p + 1, e)
                              IN  IF r.tok = "PERCENT" THEN Invalid(r.next) ELSE r
    [] p < e /\ t[p] \in {"cr", "lf"} -> Newline(t, p, e, Open("TRAILING_CR"))
    [] OTHER -> Stretch(t, p, e, {"&", "%", "cr", "lf"})

-----------------------------------------------------------------------------
(* Second readers of a token that a scanner has found; they have no end to   *)
(* stop at and rely on the token's own.                                      *)
RECURSIVE nameEnd(_, _)
nameEnd(t, p) ==
  CASE t[p] \in Lead -> nameEnd(t, p + 2)
    [] t[p] \in NameByte \cup {":"} -> nameEnd(t, p + 1)
    [] OTHER -> p

(* getAtts: where the names and values of a tag are.  normalized: the value  *)
(* can be used as it stands, whatever the type of the attribute.             *)
\* Mutant: the space in front of the closing quote is missed.
BreaksInside(t, p, last, open) == t[p] # " " \/ p = last.value \/ t[p + 1] = " "
Breaks(t, p, last, open) ==
  \/ t[p] # " " \/ p = last.value
  \/ t[p + 1] \in {" ", open}
SetLast(atts, f, v) == [atts EXCEPT ![Len(atts)] = [@ EXCEPT ![f] = v]]
RECURSIVE AttsFrom(_, _, _, _, _)
AttsFrom(t, p, state, open, atts) ==
  LET last == atts[Len(atts)]
      step == IF t[p] \in Lead THEN p + 2 ELSE p + 1
      isSpace == t[p] \in White
  IN
  CASE t[p] \in {">", "/"} /\ state # "inValue" -> atts
    [] t[p] \in NameStart \cup Lead /\ state = "other" ->
         AttsFrom(t, step, "inName", open,
                  Append(atts, [name |-> p, value |-> 0, end |-> 0, normalized |-> TRUE]))
    [] t[p] \in Quotes /\ state # "inValue" ->
         AttsFrom(t, p + 1, "inValue", t[p], SetLast(atts, "value", p + 1))
    [] t[p] = open /\ state = "inValue" ->
         AttsFrom(t, p + 1, "other", open, SetLast(atts, "end", p))
    [] t[p] = "&" \/ (isSpace /\ state = "inValue" /\ Breaks(t, p, last, open)) ->
         AttsFrom(t, p + 1, state, open, SetLast(atts, "normalized", FALSE))
    [] isSpace /\ state = "inName" -> AttsFrom(t, p + 1, "other", open, atts)
    [] OTHER -> AttsFrom(t, step, state, open, atts)
getAtts(t, p) == AttsFrom(t, p + 1, "inName", "none", <<>>)

(* p is at the "&" of a character reference.                                 *)
DigitValue(b) ==
  CASE b = "0" -> 0 [] b = "1" -> 1 [] b = "9" -> 9 [] b \in {"a", "A"} -> 10
    [] b = "C" -> 12 [] b = "D" -> 13 [] b = "F" -> 15
checkCharRefNumber(n) ==
  IF \/ n \div 256 \in 216..223
     \/ n < 32 /\ n \notin {9, 10, 13}
     \/ n \in {65534, 65535}
  THEN -1 ELSE n
RECURSIVE RefNumber(_, _, _, _)
RefNumber(t, p, base, n) ==
  IF t[p] = ";" THEN checkCharRefNumber(n)
  ELSE LET m == base * n + DigitValue(t[p])
       IN  IF m >= 1114112 THEN -1 ELSE RefNumber(t, p + 1, base, m)
charRefNumber(t, p) ==
  IF t[p + 2] = "x" THEN RefNumber(t, p + 3, 16, 0) ELSE RefNumber(t, p + 2, 10, 0)

(* The character of a predefined entity; "none" for any other name.          *)
predefinedEntityName(name) ==
  CASE name = <<"l", "t">> -> "<"
    [] name = <<"g", "t">> -> ">"
    [] name = <<"a", "m", "p">> -> "&"
    [] name = <<"q", "u", "o", "t">> -> "\""
    [] name = <<"a", "p", "o", "s">> -> "'"
    [] OTHER -> "none"

(* Lines and columns from 0.                                                 *)
RECURSIVE updatePosition(_, _, _, _)
updatePosition(t, p, e, pos) ==
  IF p >= e THEN pos
  ELSE IF t[p] \in {"cr", "lf"}
  THEN updatePosition(t, IF t[p] = "cr" /\ p + 1 < e /\ t[p + 1] = "lf" THEN p + 2 ELSE p + 1,
                      e, [line |-> pos.line + 1, column |-> 0])
  ELSE updatePosition(t, IF t[p] \in Lead THEN p + 2 ELSE p + 1, e,
                      [pos EXCEPT !.column = @ + 1])

=============================================================================
