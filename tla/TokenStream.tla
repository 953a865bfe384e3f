----------------------------- MODULE TokenStream -----------------------------
(***************************************************************************)
(* A parser reading a text through the tokenizer of its mode: the loops of *)
(* doContent, doCdataSection, doIgnoreSection and doProlog over the tokens *)
(* of one buffer, called again with what they left over and what came      *)
(* after it.  The application may cut the text between any two bytes.      *)
(* What the elements and declarations mean is the business of XmlParser    *)
(* and ContentModel; here it is where tokens begin and end and what of     *)
(* them reaches the handlers.                                              *)
(***************************************************************************)
EXTENDS Tokenizer

CONSTANTS
  Scripts,      \* [mode, text, then, more]: where a text is read, how it begins,
  MaxAsks       \* which bytes may follow and how many; questions for the line

VARIABLES
  script,       \* what the text may become
  text,         \* every byte the application has handed over or will in this call
  given,        \* how many of them the parser has: m_bufferEnd
  s,            \* the byte the next token starts at: m_bufferPtr, m_eventPtr
  mode,         \* the processor at work
  running,      \* a call is in progress
  final,        \* it is the one for the last buffer
  err,          \* m_errorCode
  out,          \* what the handlers were given, data merged
  positionPtr, position, asks

vars == <<script, text, given, s, mode, running, final, err, out,
          positionPtr, position, asks>>

Modes == {"content", "cdata", "prolog", "ignore"}
Errors == {"NONE", "INVALID_TOKEN", "UNCLOSED_TOKEN", "PARTIAL_CHAR", "NO_ELEMENTS",
           "UNCLOSED_CDATA_SECTION", "SYNTAX", "BAD_CHAR_REF", "MISPLACED_XML_PI"}

Tok(m, t, p, e) ==
  CASE m = "content" -> contentTok(t, p, e)
    [] m = "cdata" -> cdataSectionTok(t, p, e)
    [] m = "prolog" -> prologTok(t, p, e)
    [] m = "ignore" -> ignoreSectionTok(t, p, e)

-----------------------------------------------------------------------------
(* What a token gives the handlers.                                          *)
Bytes(t, p, q) == SubSeq(t, p, q - 1)

RECURSIVE normalizeLines(_)
\* Mutant: only pairs are looked for.
normalizeLinesPairs(d) ==
  IF d = <<>> THEN <<>>
  ELSE IF Len(d) > 1 /\ d[1] = "cr" /\ d[2] = "lf" THEN <<"lf">> \o normalizeLines(Tail(Tail(d)))
  ELSE <<Head(d)>> \o normalizeLines(Tail(d))
normalizeLines(d) ==
  IF d = <<>> THEN <<>>
  ELSE IF Head(d) # "cr" THEN <<Head(d)>> \o normalizeLines(Tail(d))
  ELSE <<"lf">> \o normalizeLines(IF Len(d) > 1 /\ d[2] = "lf" THEN Tail(Tail(d)) ELSE Tail(d))

Char(n) ==
  CASE n = 9 -> "tab" [] n = 10 -> "lf" [] n = 13 -> "chr13" [] n = 160 -> "nbsp" [] OTHER -> "char"

(* appendAttributeValue; entities that are not predefined add their own text *)
(* the same way and are left out.                                            *)
Blank(pool) == pool = <<>> \/ pool[Len(pool)] = " "
RECURSIVE appendAttributeValue(_, _, _, _, _)
appendToken(r, t, p, e, isCdata, pool) ==
  LET n == charRefNumber(t, p)
      entity == predefinedEntityName(Bytes(t, p + 1, r.next - 1))
      space == IF ~isCdata /\ Blank(pool) THEN pool ELSE Append(pool, " ")
      on(q, d) == appendAttributeValue(t, q, e, isCdata, d)
  IN
  CASE r.tok = "NONE" -> pool
    [] r.tok = "DATA_CHARS" -> on(r.next, pool \o Bytes(t, p, r.next))
    [] r.tok = "TRAILING_CR" -> on(p + 1, space)
    [] r.tok \in {"ATTRIBUTE_VALUE_S", "DATA_NEWLINE"} -> on(r.next, space)
    [] r.tok = "CHAR_REF" -> IF n < 0 THEN <<"BAD_CHAR_REF">> ELSE on(r.next, Append(pool, Char(n)))
    [] r.tok = "ENTITY_REF" -> on(r.next, IF entity = "none" THEN pool ELSE Append(pool, entity))
    [] r.tok \in {"INVALID", "PARTIAL"} -> <<"INVALID_TOKEN">>
    [] OTHER -> <<"UNEXPECTED_STATE">>
appendAttributeValue(t, p, e, isCdata, pool) ==
  appendToken(attributeValueTok(t, p, e), t, p, e, isCdata, pool)

Trimmed(v) == IF v # <<>> /\ Blank(v) THEN SubSeq(v, 1, Len(v) - 1) ELSE v
storeAttributeValue(t, p, e, isCdata) ==
  IF isCdata THEN appendAttributeValue(t, p, e, TRUE, <<>>)
  ELSE Trimmed(appendAttributeValue(t, p, e, FALSE, <<>>))

(* The value of an internal entity, in the internal subset.                  *)
RECURSIVE storeEntityValue(_, _, _, _)
storeEntityValue(t, p, e, pool) ==
  LET r == entityValueTok(t, p, e)
      n == charRefNumber(t, p)
  IN
  CASE r.tok = "NONE" -> pool
    [] r.tok = "PARAM_ENTITY_REF" -> <<"PARAM_ENTITY_REF">>
    [] r.tok \in {"ENTITY_REF", "DATA_CHARS"} ->
         storeEntityValue(t, r.next, e, pool \o Bytes(t, p, r.next))
    [] r.tok = "TRAILING_CR" -> storeEntityValue(t, p + 1, e, Append(pool, "lf"))
    [] r.tok = "DATA_NEWLINE" -> storeEntityValue(t, r.next, e, Append(pool, "lf"))
    [] r.tok = "CHAR_REF" ->
         IF n < 0 THEN <<"BAD_CHAR_REF">> ELSE storeEntityValue(t, r.next, e, Append(pool, Char(n)))
    [] r.tok \in {"PARTIAL", "INVALID"} -> <<"INVALID_TOKEN">>
    [] OTHER -> <<"UNEXPECTED_STATE">>

(* The attributes as storeAtts hands them over, when all are CDATA.          *)
Value(t, a) ==
  IF a.normalized THEN Bytes(t, a.value, a.end)
  ELSE storeAttributeValue(t, a.value, a.end, TRUE)
RECURSIVE Attributes(_, _)
Attributes(t, atts) ==
  IF atts = <<>> THEN <<>>
  ELSE <<"att">> \o Bytes(t, Head(atts).name, nameEnd(t, Head(atts).name))
         \o <<"is">> \o Value(t, Head(atts)) \o Attributes(t, Tail(atts))

Event(kind, data) == <<[kind |-> kind, data |-> data]>>
StartTags == {"START_TAG_NO_ATTS", "START_TAG_WITH_ATTS",
              "EMPTY_ELEMENT_NO_ATTS", "EMPTY_ELEMENT_WITH_ATTS"}
EmptyTags == {"EMPTY_ELEMENT_NO_ATTS", "EMPTY_ELEMENT_WITH_ATTS"}

Reported(m, t, tok, p, q) ==
  LET tag == Bytes(t, p + 1, nameEnd(t, p + 1))
      entity == predefinedEntityName(Bytes(t, p + 1, q - 1))
      target == nameEnd(t, p + 2)
  IN
  CASE tok \in {"DATA_CHARS", "PROLOG_S"} -> Event(tok, Bytes(t, p, q))
    [] tok = "DATA_NEWLINE" -> Event("DATA_CHARS", <<"lf">>)
    [] tok \in StartTags ->
         Event("START", tag \o Attributes(t, getAtts(t, p)))
           \o (IF tok \in EmptyTags THEN Event("END", tag) ELSE <<>>)
    [] tok = "END_TAG" -> Event("END", Bytes(t, p + 2, target))
    [] tok = "CHAR_REF" -> Event(tok, <<Char(charRefNumber(t, p))>>)
    [] tok = "ENTITY_REF" /\ entity # "none" -> Event("DATA_CHARS", <<entity>>)
    [] tok = "PI" -> Event(tok, Bytes(t, p + 2, target) \o <<"data">>
                           \o normalizeLines(Bytes(t, SkipS(t, target, Len(t) + 1), q - 2)))
    [] tok = "COMMENT" -> Event(tok, normalizeLines(Bytes(t, p + 4, q - 3)))
    [] OTHER -> Event(tok, Bytes(t, p, q))

Merges(kind) == kind \in {"DATA_CHARS", "PROLOG_S"}
Deliver(events, new) ==
  LET n == Len(events)
  IN  IF n > 0 /\ Merges(new[1].kind) /\ events[n].kind = new[1].kind
      THEN [events EXCEPT ![n].data = @ \o new[1].data]
      ELSE events \o new

-----------------------------------------------------------------------------
(* One round of the loop over the tokens: what is reported, where the next   *)
(* token starts and for which processor, whether the loop goes on.           *)
Bad(e, error, at, m) == [on |-> FALSE, err |-> error, s |-> at, mode |-> m, new |-> <<>>]
Stop(at, m, new) == [on |-> FALSE, err |-> "NONE", s |-> at, mode |-> m, new |-> new]

Unclosed(m) ==
  CASE m = "cdata" -> "UNCLOSED_CDATA_SECTION" [] m = "ignore" -> "SYNTAX" [] OTHER -> "UNCLOSED_TOKEN"
After(m, tok) ==
  CASE tok = "CDATA_SECT_OPEN" -> "cdata" [] tok \in {"CDATA_SECT_CLOSE", "INSTANCE_START"} -> "content"
    [] tok = "IGNORE_SECT" -> "prolog" [] OTHER -> m

BadValue(t, p, tok) ==
  /\ tok \in StartTags
  /\ LET atts == getAtts(t, p) IN \E i \in DOMAIN atts : Value(t, atts[i]) = <<"BAD_CHAR_REF">>

(* The buffer ends before the token does, or there is no token.              *)
\* Mutant: no text left is no error, whatever is open.
AtEndOpen(m, t, p, e, tok) ==
  CASE tok = "PARTIAL" -> Bad(e, Unclosed(m), p, m)
    [] tok = "PARTIAL_CHAR" -> Bad(e, "PARTIAL_CHAR", p, m)
    [] tok = "TRAILING_CR" -> Stop(e, m, Event("DATA_CHARS", <<"lf">>))
    [] tok = "TRAILING_RSQB" -> Stop(e, m, Event("DATA_CHARS", Bytes(t, p, e)))
    [] OTHER -> Stop(p, m, <<>>)
AtEnd(m, t, p, e, tok) ==
  CASE tok = "PARTIAL" -> Bad(e, Unclosed(m), p, m)
    [] tok = "PARTIAL_CHAR" -> Bad(e, "PARTIAL_CHAR", p, m)
    [] tok = "TRAILING_CR" -> Stop(e, m, Event("DATA_CHARS", <<"lf">>))
    [] tok = "TRAILING_RSQB" -> Stop(e, m, Event("DATA_CHARS", Bytes(t, p, e)))
    [] tok = "NONE" /\ m = "content" -> Stop(p, m, <<>>)
    [] tok = "NONE" /\ m = "cdata" -> Bad(e, Unclosed(m), p, m)
    [] OTHER -> Bad(e, "NO_ELEMENTS", p, m)
Atomic == {"PARTIAL", "PARTIAL_CHAR", "NONE", "TRAILING_CR", "TRAILING_RSQB"}

TokenRound(r, m, t, p, e, last) ==
  LET next == IF r.next = 0 THEN e ELSE r.next
  IN
  CASE r.tok = "INVALID" -> Bad(e, "INVALID_TOKEN", r.next, m)
    [] r.tok # "INVALID" /\ r.next = 0 /\ ~last -> Stop(p, m, <<>>)
    [] r.tok \in Atomic /\ last -> AtEnd(m, t, p, e, r.tok)
    [] r.tok = "XML_DECL" /\ m = "content" -> Bad(e, "MISPLACED_XML_PI", p, m)
    [] r.tok = "CHAR_REF" /\ charRefNumber(t, p) < 0 -> Bad(e, "BAD_CHAR_REF", p, m)
    [] BadValue(t, p, r.tok) -> Bad(e, "BAD_CHAR_REF", p, m)
    [] OTHER -> [on |-> TRUE, err |-> "NONE", s |-> next, mode |-> After(m, r.tok),
                 new |-> IF r.tok = "INSTANCE_START" THEN <<>> ELSE Reported(m, t, r.tok, p, next)]
Round(m, t, p, e, last) == TokenRound(Tok(m, t, p, e), m, t, p, e, last)

-----------------------------------------------------------------------------
Start == [line |-> 0, column |-> 0]

Init ==
  /\ script \in Scripts
  /\ text = <<>> /\ given = 0 /\ s = 1
  /\ mode = script.mode
  /\ running = FALSE /\ final = FALSE
  /\ err = "NONE" /\ out = <<>>
  /\ positionPtr = 1 /\ position = Start /\ asks = 0

Idle == ~running /\ ~final /\ err = "NONE"

(* The application has one more byte for the next call.                      *)
Supply(b) ==
  /\ Idle
  /\ LET n == Len(text) + 1
     IN  IF n <= Len(script.text) THEN b = script.text[n]
         ELSE n <= Len(script.text) + script.more /\ b \in script.then
  /\ text' = Append(text, b)
  /\ UNCHANGED <<script, given, s, mode, running, final, err, out, positionPtr, position, asks>>

(* XML_Parse or XML_ParseBuffer with these bytes.                            *)
Parse(isFinal) ==
  /\ Idle
  /\ isFinal \/ given < Len(text)
  /\ given' = Len(text)
  /\ final' = isFinal
  /\ running' = TRUE
  /\ positionPtr' = s
  /\ UNCHANGED <<script, text, s, mode, err, out, position, asks>>

(* One token; the call returns after the last.                               *)
Token ==
  /\ running
  /\ \E r \in {Round(mode, text, s, given + 1, final)} :
     /\ s' = r.s /\ mode' = r.mode /\ err' = r.err
     /\ out' = IF r.new = <<>> THEN out ELSE Deliver(out, r.new)
     /\ running' = r.on
     /\ IF r.on \/ final \/ r.err # "NONE"
        THEN UNCHANGED <<positionPtr, position>>
        ELSE /\ position' = updatePosition(text, positionPtr, r.s, position)
             /\ positionPtr' = r.s
  /\ UNCHANGED <<script, text, given, final, asks>>

(* XML_GetCurrentLineNumber or XML_GetCurrentColumnNumber, from a handler    *)
(* or between calls.                                                         *)
Ask ==
  /\ asks < MaxAsks /\ s > positionPtr
  /\ position' = updatePosition(text, positionPtr, s, position)
  /\ positionPtr' = s
  /\ asks' = asks + 1
  /\ UNCHANGED <<script, text, given, s, mode, running, final, err, out>>

Next ==
  \/ \E b \in UNION {c.then \cup {c.text[i] : i \in DOMAIN c.text} : c \in Scripts} : Supply(b)
  \/ \E isFinal \in BOOLEAN : Parse(isFinal)
  \/ Token
  \/ Ask

Spec == Init /\ [][Next]_vars

-----------------------------------------------------------------------------
TypeOK ==
  /\ script \in Scripts
  /\ given \in 0..Len(text)
  /\ s \in 1..(given + 1) /\ positionPtr \in 1..s
  /\ mode \in Modes /\ err \in Errors
  /\ {running, final} \subseteq BOOLEAN
  /\ position \in [line: Nat, column: Nat] /\ asks \in 0..MaxAsks

(* The text read in one call.                                                *)
RECURSIVE Rounds(_, _, _, _)
Rounds(r, t, events, last) ==
  LET all == IF r.new = <<>> THEN events ELSE Deliver(events, r.new)
  IN  IF r.on THEN Rounds(Round(r.mode, t, r.s, Len(t) + 1, last), t, all, last)
      ELSE [s |-> r.s, mode |-> r.mode, err |-> r.err, out |-> all]
Whole(m, t, last) == Rounds(Round(m, t, 1, Len(t) + 1, last), t, <<>>, last)

(* The data in front of a refused byte reaches the handler or not.           *)
BeforeData(events) ==
  LET n == Len(events)
  IN  IF n > 0 /\ events[n].kind = "DATA_CHARS" THEN SubSeq(events, 1, n - 1) ELSE events

(* Wherever the text is cut, the handlers are given the same, up to how data *)
(* is divided, the same byte is the next to be read, and the verdict is the  *)
(* same: what a call leaves over is read again from the start of its token,  *)
(* and no token is reported that the next byte could have made longer or     *)
(* refused.                                                                  *)
CutIndependent ==
  ~running /\ given > 0 /\ given = Len(text) =>
    \A w \in {Whole(script.mode, text, final)} :
    /\ s = w.s /\ mode = w.mode /\ err = w.err
    /\ IF err = "INVALID_TOKEN" THEN BeforeData(out) = BeforeData(w.out) ELSE out = w.out

(* The position kept for XML_GetCurrentLineNumber and -ColumnNumber is that  *)
(* of the text from its start, whatever calls and questions it was added up  *)
(* over: none of them falls between the two bytes of a line end or of a      *)
(* character.                                                                *)
PositionIndependent == position = updatePosition(text, 1, positionPtr, Start)

(* XML 1.0, 2.11: of the line ends in the text the handlers see only the     *)
(* line feed, whichever way it was written and wherever the text was cut,    *)
(* and attribute values not even that.  Names are the exception: their       *)
(* scanners look a character up without checking that its second byte is one.*)
LineEndsNormalized ==
  \A i \in DOMAIN out :
    out[i].kind \in {"DATA_CHARS", "COMMENT", "PI", "START", "END", "ENTITY_REF"} =>
      \A k \in DOMAIN out[i].data :
        out[i].data[k] = "cr" =>
          out[i].kind \in {"START", "END", "PI", "ENTITY_REF"} /\ k > 1 /\ out[i].data[k - 1] \in Lead

(* The readers of a token agree with the scanner that found it: getAtts sees *)
(* as many attributes as scanAtts let through, every value lies in the tag   *)
(* and is read to its closing quote and no further, and a value that getAtts *)
(* calls normalized is what reading it would give, as a CDATA attribute and  *)
(* as any other.                                                             *)
AttributesReadBack ==
  running /\ mode = "content" =>
    \A r \in {contentTok(text, s, given + 1)} : r.tok \in StartTags =>
        \A atts \in {getAtts(text, s)} :
          /\ (atts # <<>>) <=> r.tok \in {"START_TAG_WITH_ATTS", "EMPTY_ELEMENT_WITH_ATTS"}
          /\ \A i \in DOMAIN atts : LET a == atts[i] IN
               /\ nameEnd(text, a.name) < a.value /\ a.value <= a.end /\ a.end < r.next
               /\ \A isCdata \in BOOLEAN :
                    \A v \in {storeAttributeValue(text, a.value, a.end, isCdata)} :
                    /\ v \notin {<<"INVALID_TOKEN">>, <<"UNEXPECTED_STATE">>}
                    /\ a.normalized => v = Bytes(text, a.value, a.end)

(* A literal that scanLit lets through is read, as an entity value or as a   *)
(* default value, without coming to the default cases of storeEntityValue    *)
(* and appendAttributeValue, which the code keeps but takes for unreachable, *)
(* and with its line ends normalized unless a name holds them, as above.     *)
LiteralsReadable ==
  running /\ mode = "prolog" =>
    \A r \in {prologTok(text, s, given + 1)} : r.tok = "LITERAL" =>
        LET close == (IF r.next = 0 THEN given + 1 ELSE r.next) - 1 IN
        \A value \in {storeEntityValue(text, s + 1, close, <<>>)} :
          /\ value # <<"UNEXPECTED_STATE">>
          /\ appendAttributeValue(text, s + 1, close, TRUE, <<>>) # <<"UNEXPECTED_STATE">>
          /\ \A k \in DOMAIN value : value[k] = "cr" => k > 1 /\ value[k - 1] \in Lead

(* A call comes to its end: a token that is reported takes the next one      *)
(* further into the text, or is the one where the prolog hands over.         *)
EveryTokenAdvances ==
  [][running /\ running' /\ asks' = asks =>
       s' > s \/ (mode = "prolog" /\ mode' = "content")]_vars

(* The last call leaves no byte unread unless it refuses the text, and takes *)
(* nothing for complete that a scanner called PARTIAL.                       *)
LastCallReadsAll ==
  final /\ ~running /\ err = "NONE" =>
    /\ s = Len(text) + 1
    /\ mode = "content"

=============================================================================
