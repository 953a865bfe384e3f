------------------------------ MODULE Namespaces ------------------------------
(***************************************************************************)
(* Tags with namespace processing: storeAtts, addBinding and freeBindings, *)
(* what doContent does with the names of the elements that are open, the   *)
(* context an external entity is parsed in, and the reset.                 *)
(*                                                                         *)
(* A BINDING is a number, a chain of them a sequence, its head first.  The *)
(* buffer b->uri holds the URI and behind it what was last expanded with   *)
(* it; b->uri is known by b and uriAlloc, which grows when it moves.       *)
(* Memory does not run out, and there is a namespace separator.            *)
(***************************************************************************)
EXTENDS NamespaceNames, SequencesExt

CONSTANTS
  Length,             \* of a URI or a name, with the null
  Hash,               \* of a URI and a local name
  ExpandSpare,        \* EXPAND_SPARE
  InitAttsVersion,    \* INIT_ATTS_VERSION
  MaxTags, MaxDepth,  \* bounds: tags in all, open elements,
  MaxOuter, MaxResets \* entities in one another, resets

Strings == DOMAIN Length
Attribute == [id: [prefix: PrefixTable, local: Strings, xmlns: BOOLEAN], value: Strings]

ASSUME NamespacesAssumption ==
  /\ IsFiniteSet(PrefixTable) /\ "xml" \in PrefixTable /\ PrefixTable \subseteq Strings
  /\ XmlNamespace \in Strings /\ None \notin PrefixTable
  /\ Length \in [Strings -> Nat]
  /\ ExpandSpare \in Nat /\ InitAttsVersion \in Nat \ {0}
  /\ Elements \subseteq [prefix: PrefixTable, local: Strings]
  /\ Defaults \in [Elements -> Seq(Attribute)]
  /\ AttLists \in [Elements -> SUBSET Seq(Attribute)]

VARIABLES
  parser,     \* the XML_Parser at work
  outer,      \* the parsers whose external entity reference handler it is in
  read,       \* the tag the last step read
  calls,      \* what it called
  tags, resets    \* how many there were

vars == <<parser, outer, read, calls, tags, resets>>

Null == 0         \* no BINDING
Own == <<>>       \* name.str is tag->buf
Gone == <<None, None>>     \* a name of the hash table in memory used again

AttIds ==
  UNION {{atts[i].id : i \in DOMAIN atts} :
           atts \in UNION {AttLists[el] \cup {Defaults[el]} : el \in Elements}}

(* parserCreate and parserInit.                                              *)
NewParser == [
  prefixBinding |-> [q \in PrefixTable |-> Null],     \* prefix->binding
  binding |-> <<>>,                                   \* the BINDINGs allocated
  freeBindings |-> <<>>, inherited |-> <<>>,          \* m_freeBindingList, m_inheritedBindings
  tagStack |-> <<>>, freeTags |-> <<>>,               \* m_tagStack; tag->bindings on m_freeTagList
  flag |-> [a \in AttIds |-> 0],                      \* attId->name[-1]
  power |-> 0, version |-> 0,                         \* m_nsAttsPower, m_nsAttsVersion
  nsAtts |-> [j \in 0..-1 |-> 0],                     \* the version of each entry
  state |-> "new", error |-> None]

Init == parser = NewParser /\ outer = <<>> /\ read = NoTag /\ calls = <<>> /\ tags = 0 /\ resets = 0

(* storeAtts at work: its parser and what it has put together.               *)
Frame(p) == [p |-> p, bindings |-> <<>>, appAtts |-> <<>>, atts |-> <<>>,
             uriNames |-> [j \in 0..-1 |-> Gone], name |-> Name("", "", ""), str |-> Own,
             calls |-> <<>>, error |-> None]

-----------------------------------------------------------------------------
(* The checks of addBinding, in their order.                                 *)
Refusal(prefix, uri) ==
  LET mustBeXML == prefix = "xml"
      isXML == uri = XmlNamespace
  IN  IF uri = "" /\ prefix # "" THEN "UNDECLARING_PREFIX"
      ELSE IF prefix = "xmlns" THEN "RESERVED_PREFIX_XMLNS"
      ELSE IF mustBeXML /\ ~isXML THEN "RESERVED_PREFIX_XML"
      ELSE IF isXML # mustBeXML \/ uri = XmlnsNamespace THEN "RESERVED_NAMESPACE_URI"
      ELSE None

(* addBinding; a binding of the context is from no attribute.                *)
NoAtt == [prefix |-> None, local |-> None, xmlns |-> FALSE]
addBinding(F, prefix, att, uri) ==
  LET p == F.p
      len == Length[uri]
      reused == p.freeBindings # <<>>
      b == IF reused THEN Head(p.freeBindings) ELSE Len(p.binding) + 1
      alloc == IF reused /\ len <= p.binding[b].alloc THEN p.binding[b].alloc ELSE len + ExpandSpare
      new == [prefix |-> prefix, uri |-> uri, behind |-> None, alloc |-> alloc,
              prev |-> p.prefixBinding[prefix], att |-> att]
  IN  IF Refusal(prefix, uri) # None
      THEN [F EXCEPT !.error = Refusal(prefix, uri)]
      ELSE [F EXCEPT
             !.p.binding = IF reused THEN [@ EXCEPT ![b] = new] ELSE Append(@, new),
             !.p.freeBindings = IF reused THEN Tail(@) ELSE @,
             !.p.prefixBinding[prefix] = IF uri = "" THEN Null ELSE b,
             !.bindings = <<b>> \o @,
             !.calls = IF att = NoAtt THEN @ ELSE Append(@, StartNamespaceDecl(prefix, uri))]

(* freeBindings, and the same loop at an end tag.                            *)
Unbound(p, list) ==
  LET after[i \in 0..Len(list)] ==
        IF i = 0 THEN p.prefixBinding
        ELSE [after[i - 1] EXCEPT ![p.binding[list[i]].prefix] = p.binding[list[i]].prev]
  IN  after[Len(list)]
Released(p, list) ==
  [p EXCEPT !.freeBindings = Reverse(list) \o @, !.prefixBinding = Unbound(p, list)]
EndDecls(p, list) == [i \in DOMAIN list |-> EndNamespaceDecl(p.binding[list[i]].prefix)]

-----------------------------------------------------------------------------
(* storeAtts, in its parts; a part does nothing after an error.              *)
Listed(F, id) ==
  [F EXCEPT !.p.flag[id] = IF id.prefix = "" THEN 1 ELSE 2, !.appAtts = Append(@, id)]

SpecifiedAtt(F, att) ==
  IF F.error # None THEN F
  ELSE IF F.p.flag[att.id] # 0 THEN [F EXCEPT !.error = "DUPLICATE_ATTRIBUTE"]
  ELSE IF att.id.xmlns
  THEN addBinding([F EXCEPT !.p.flag[att.id] = 1], att.id.prefix, att.id, att.value)
  ELSE Listed(F, att.id)

DefaultAtt(F, att) ==
  IF F.error # None \/ F.p.flag[att.id] # 0 THEN F
  ELSE IF att.id.xmlns THEN addBinding(F, att.id.prefix, att.id, att.value)
  ELSE Listed(F, att.id)

(* The table of the expanded names of one start tag: its entries are those   *)
(* with the version of now.  It is set up anew when it grows and when the    *)
(* versions are used up.                                                     *)
PrefixedAtts(F) == Cardinality({i \in DOMAIN F.appAtts : F.p.flag[F.appAtts[i]] = 2})

NewPower(n, power) ==
  IF power # 0 /\ (2 * n) \div 2^power = 0 THEN power
  ELSE LET fits == CHOOSE k \in power..(power + n) :
                     n \div 2^k = 0 /\ \A l \in power..(k - 1) : n \div 2^l # 0
       IN  IF fits + 1 < 3 THEN 3 ELSE fits + 1

\* Mutant: the entries keep their old versions.
NewVersionOnly(F) ==
  LET n == PrefixedAtts(F)
      power == NewPower(n, F.p.power)
      version == IF power # F.p.power \/ F.p.version = 0 THEN InitAttsVersion ELSE F.p.version
  IN  IF F.error # None \/ n = 0 THEN F
      ELSE [F EXCEPT !.p.power = power, !.p.version = version - 1,
                     !.p.nsAtts = IF power # F.p.power
                                  THEN [j \in 0..(2^power - 1) |-> InitAttsVersion] ELSE @,
                     !.uriNames = [j \in 0..(2^power - 1) |-> Gone]]
NewVersion(F) ==
  LET n == PrefixedAtts(F)
      power == NewPower(n, F.p.power)
      anew == power # F.p.power \/ F.p.version = 0
      version == IF anew THEN InitAttsVersion ELSE F.p.version
  IN  IF F.error # None \/ n = 0 THEN F
      ELSE [F EXCEPT !.p.power = power, !.p.version = version - 1,
                     !.p.nsAtts = IF anew THEN [j \in 0..(2^power - 1) |-> InitAttsVersion] ELSE @,
                     !.uriNames = [j \in 0..(2^power - 1) |-> Gone]]

(* The entry the search stops at: it is free or holds the name.  A name from *)
(* another tag is not there any more and may be taken for any (Gone).        *)
ProbeStep(hash, power) ==
  LET second == ((hash \div 2^power) * 2) % 2^(power - 2)
  IN  IF second % 2 = 0 THEN second + 1 ELSE second
Entry(F, uriName) ==
  LET size == 2^F.p.power
      hash == Hash[uriName]
      at(k) == ((hash % size) + k * (size - ProbeStep(hash, F.p.power))) % size
      stops(k) == \/ F.p.nsAtts[at(k)] # F.p.version
                  \/ F.uriNames[at(k)] \in {uriName, Gone}
  IN  at(CHOOSE k \in 0..(size - 1) : stops(k) /\ \A l \in 0..(k - 1) : ~stops(l))

ExpandedAtt(F, id) ==
  LET b == F.p.prefixBinding[id.prefix]
      uriName == <<F.p.binding[b].uri, id.local>>
      j == Entry(F, uriName)
      G == [F EXCEPT !.p.flag[id] = 0]
  IN  IF F.error # None THEN F
      ELSE IF F.p.flag[id] # 2
      THEN [G EXCEPT !.atts = Append(@, Name("", id.local, ""))]
      ELSE IF b = Null THEN [G EXCEPT !.error = "UNBOUND_PREFIX"]
      ELSE IF F.p.nsAtts[j] = F.p.version THEN [G EXCEPT !.error = "DUPLICATE_ATTRIBUTE"]
      ELSE [G EXCEPT !.p.nsAtts[j] = F.p.version, !.uriNames[j] = uriName,
                     !.atts = Append(@, Name(uriName[1], id.local, id.prefix))]

\* Mutant: the declarations stay marked.
BindingFlagsKept(F) == F
BindingFlagsCleared(F) ==
  IF F.error # None THEN F
  ELSE [F EXCEPT !.p.flag = [a \in AttIds |->
          IF \E i \in DOMAIN F.bindings : F.p.binding[F.bindings[i]].att = a THEN 0 ELSE @[a]]]

(* The name of the element is put together behind the URI of its binding;    *)
(* when there is no room the buffer moves, and with it the names of the open *)
(* elements that are in it.                                                  *)
NameLen(el, uri) ==
  Length[el.local] + Length[uri] + (IF Triplets /\ el.prefix # "" THEN Length[el.prefix] ELSE 0)

\* Mutant: the names of the open elements stay in the buffer that is freed.
MovedBuffer(p, b, alloc) == [p EXCEPT !.binding[b].alloc = alloc]
NewUriBuffer(p, b, alloc) ==
  [p EXCEPT !.binding[b].alloc = alloc,
            !.tagStack = [i \in DOMAIN @ |->
               IF @[i].str = <<b, p.binding[b].alloc>> THEN [@[i] EXCEPT !.str = <<b, alloc>>]
               ELSE @[i]]]

ExpandedElement(F, el) ==
  LET b == F.p.prefixBinding[el.prefix]
      bound == F.p.binding[b]
      n == NameLen(el, bound.uri)
      p == IF n > bound.alloc THEN NewUriBuffer(F.p, b, n + ExpandSpare) ELSE F.p
  IN  IF F.error # None THEN F
      ELSE IF b # Null
      THEN [F EXCEPT !.p = [p EXCEPT !.binding[b].behind = el.local],
                     !.str = <<b, p.binding[b].alloc>>,
                     !.name = Name(bound.uri, el.local, el.prefix)]
      ELSE IF el.prefix # "" THEN [F EXCEPT !.error = "UNBOUND_PREFIX"]
      ELSE [F EXCEPT !.name = Name("", el.local, "")]

(* The specified attributes, then the default ones.                          *)
Collected(p, el, atts) ==
  LET all == atts \o Defaults[el]
      after[i \in 0..Len(all)] ==
        IF i = 0 THEN Frame(p)
        ELSE IF i <= Len(atts) THEN SpecifiedAtt(after[i - 1], all[i])
        ELSE DefaultAtt(after[i - 1], all[i])
  IN  after[Len(all)]

Expanded(F) ==
  LET after[i \in 0..Len(F.appAtts)] ==
        IF i = 0 THEN F ELSE ExpandedAtt(after[i - 1], F.appAtts[i])
  IN  after[Len(F.appAtts)]

storeAtts(p, el, atts) ==
  ExpandedElement(BindingFlagsCleared(Expanded(NewVersion(Collected(p, el, atts)))), el)

-----------------------------------------------------------------------------
Parsing == parser.state = "open" /\ parser.error = None

(* The document ends with its element, an external entity with its text.     *)
StateAfter(stack) == IF stack = <<>> /\ outer = <<>> THEN "ended" ELSE "open"

(* startParsing binds the prefix xml.                                        *)
startParsing ==
  /\ parser.state = "new"
  /\ LET F == addBinding(Frame(parser), "xml", NoAtt, XmlNamespace)
     IN  parser' = [F.p EXCEPT !.inherited = F.bindings, !.state = "open"]
  /\ read' = NoTag /\ calls' = <<>>
  /\ UNCHANGED <<outer, tags, resets>>

Depth == Len(parser.tagStack) + FoldLeft(LAMBDA n, p : n + Len(p.tagStack), 0, outer)

(* doContent, XML_TOK_START_TAG.                                             *)
StartTag(el, atts) ==
  /\ Parsing /\ Depth < MaxDepth
  /\ tags < MaxTags /\ tags' = tags + 1
  /\ read' = Tag("start", el, atts)
  /\ LET p == [parser EXCEPT !.freeTags = IF @ = <<>> THEN @ ELSE Tail(@)]
         F == storeAtts(p, el, atts)
         tag == [el |-> el, str |-> F.str, bindings |-> F.bindings]
     IN  /\ parser' = [F.p EXCEPT !.tagStack = <<tag>> \o @, !.error = F.error]
         /\ calls' = F.calls \o (IF F.error = None THEN <<StartElement(F.name, F.atts)>> ELSE <<>>)
  /\ UNCHANGED <<outer, resets>>

(* doContent, XML_TOK_EMPTY_ELEMENT.                                         *)
EmptyTag(el, atts) ==
  /\ Parsing
  /\ tags < MaxTags /\ tags' = tags + 1
  /\ read' = Tag("empty", el, atts)
  /\ LET F == storeAtts(parser, el, atts)
     IN  /\ parser' = [Released(F.p, F.bindings) EXCEPT
                         !.error = F.error, !.state = StateAfter(parser.tagStack)]
         /\ calls' = F.calls
                     \o (IF F.error = None
                         THEN <<StartElement(F.name, F.atts), EndElement(F.name)>> ELSE <<>>)
                     \o EndDecls(F.p, F.bindings)
  /\ UNCHANGED <<outer, resets>>

(* What the end element handler is given.  What is behind the URI may be the *)
(* name of another element and is written again.                             *)
NameOf(p, tag) ==
  LET b == p.binding[tag.str[1]]
  IN  IF tag.str = Own THEN Name("", tag.el.local, "")
      ELSE IF b.alloc = tag.str[2] THEN Name(b.uri, b.behind, tag.el.prefix)
      ELSE None     \* the buffer is gone

NameAgain(p, tag) ==
  IF tag.str = Own THEN p ELSE [p EXCEPT !.binding[tag.str[1]].behind = tag.el.local]

(* doContent, XML_TOK_END_TAG.                                               *)
EndTag ==
  /\ Parsing /\ parser.tagStack # <<>>
  /\ LET tag == Head(parser.tagStack)
         p == NameAgain([parser EXCEPT
                !.tagStack = Tail(@), !.freeTags = << <<>> >> \o @,
                !.state = StateAfter(Tail(parser.tagStack))], tag)
     IN  /\ parser' = Released(p, tag.bindings)
         /\ read' = NoTag
         /\ calls' = <<EndElement(NameOf(p, tag))>> \o EndDecls(p, tag.bindings)
  /\ UNCHANGED <<outer, tags, resets>>

MismatchedEndTag ==
  /\ Parsing /\ parser.tagStack # <<>>
  /\ parser' = [parser EXCEPT !.tagStack = Tail(@), !.error = "TAG_MISMATCH",
                              !.freeTags = <<Head(parser.tagStack).bindings>> \o @]
  /\ read' = NoTag /\ calls' = <<>>
  /\ UNCHANGED <<outer, tags, resets>>

(* getContext; the prefixes are in the order of the hash table.              *)
Context(p) ==
  LET bound == {q \in PrefixTable : p.prefixBinding[q] # Null}
      pair(q) == <<q, p.binding[p.prefixBinding[q]].uri>>
  IN  (IF "" \in bound THEN <<pair("")>> ELSE <<>>) \o SetToSeq({pair(q) : q \in bound \ {""}})
setContext(p, context) ==
  LET after[i \in 0..Len(context)] ==
        IF i = 0 THEN Frame(p)
        ELSE IF after[i - 1].error # None THEN after[i - 1]
        ELSE addBinding(after[i - 1], context[i][1], NoAtt, context[i][2])
      F == after[Len(context)]
  IN  [F.p EXCEPT !.inherited = F.bindings, !.error = F.error]

(* The attributes and their defaults are copied, without the marks.          *)
XML_ExternalEntityParserCreate(p) ==
  [setContext(NewParser, Context(p)) EXCEPT !.state = "open"]

ExternalEntityRef ==
  /\ Parsing /\ parser.tagStack # <<>> /\ Len(outer) < MaxOuter
  /\ outer' = <<parser>> \o outer
  /\ parser' = XML_ExternalEntityParserCreate(parser)
  /\ read' = NoTag /\ calls' = <<>>
  /\ UNCHANGED <<tags, resets>>

(* The handler frees the parser of the entity and returns 1 or 0.            *)
ExternalEntityEnd ==
  /\ outer # <<>>
  /\ parser' \in {Head(outer), [Head(outer) EXCEPT !.error = "EXTERNAL_ENTITY_HANDLING"]}
  /\ outer' = Tail(outer)
  /\ read' = NoTag /\ calls' = <<>>
  /\ UNCHANGED <<tags, resets>>

\* Mutant: the bindings of the context are forgotten.
FreedOfTags(p) == p.freeBindings
FreedByReset(p) == Reverse(p.inherited) \o p.freeBindings

XML_ParserReset ==
  /\ outer = <<>> /\ resets < MaxResets /\ parser.state # "new"
  /\ LET stack == parser.tagStack
         ofTags == FlattenSeq([i \in DOMAIN stack |-> stack[i].bindings])
         moved == [parser EXCEPT !.freeBindings = Reverse(ofTags) \o @]
     IN  parser' = [NewParser EXCEPT
           !.binding = parser.binding, !.freeBindings = FreedByReset(moved),
           !.freeTags = [i \in DOMAIN stack |-> <<>>] \o parser.freeTags,
           !.power = parser.power, !.version = parser.version, !.nsAtts = parser.nsAtts]
  /\ resets' = resets + 1
  /\ read' = NoTag /\ calls' = <<>>
  /\ UNCHANGED <<outer, tags>>

Next ==
  \/ startParsing
  \/ \E el \in Elements : \E atts \in AttLists[el] : StartTag(el, atts)
  \/ \E el \in Elements : \E atts \in AttLists[el] : EmptyTag(el, atts)
  \/ EndTag
  \/ MismatchedEndTag
  \/ ExternalEntityRef
  \/ ExternalEntityEnd
  \/ XML_ParserReset

Spec == Init /\ [][Next]_vars

-----------------------------------------------------------------------------
(* The state is one of the parser's, and between two tags no attribute is    *)
(* marked as seen, unless there was an error: a mark that stays makes an     *)
(* attribute of a later tag a duplicate (xmlparse.c:3126, 3379).             *)
TypeOK ==
  LET bs == DOMAIN parser.binding
  IN  /\ parser.state \in {"new", "open", "ended"}
      /\ parser.prefixBinding \in [PrefixTable -> bs \cup {Null}]
      /\ \A b \in bs : /\ parser.binding[b].prefix \in PrefixTable
                       /\ parser.binding[b].prev \in bs \cup {Null}
                       /\ parser.binding[b].alloc >= Length[parser.binding[b].uri]
      /\ Range(parser.freeBindings) \cup Range(parser.inherited) \subseteq bs
      /\ \A i \in DOMAIN parser.tagStack : Range(parser.tagStack[i].bindings) \subseteq bs
      /\ DOMAIN parser.nsAtts = IF parser.power = 0 THEN {} ELSE 0..(2^parser.power - 1)
      /\ parser.version \in 0..InitAttsVersion
      /\ parser.error = None => \A a \in AttIds : parser.flag[a] = 0

(* The name of an open element is in the buffer its binding has now, and the *)
(* buffer has room to write it again (xmlparse.c:2849 and 3418): the element *)
(* may have moved it that was given another name in it.                      *)
OpenNamesLive ==
  \A i \in DOMAIN parser.tagStack :
    LET tag == parser.tagStack[i]
        b == tag.str[1]
    IN  parser.error = None /\ tag.str # Own =>
          /\ b \notin Range(parser.freeBindings)
          /\ parser.binding[b].prefix = tag.el.prefix
          /\ parser.binding[b].alloc = tag.str[2]
          /\ NameLen(tag.el, parser.binding[b].uri) <= parser.binding[b].alloc

(* A BINDING is on one list, and no step loses one, whatever the tags, the   *)
(* errors and the resets are; but those of an element with a mismatched end  *)
(* tag are lost when a start tag takes its TAG again, after a reset          *)
(* (xmlparse.c:2733, 2839).                                                  *)
Lists(p) ==
  FlattenSeq([i \in DOMAIN p.tagStack |-> p.tagStack[i].bindings])
  \o FlattenSeq(p.freeTags) \o p.freeBindings \o p.inherited
Left(p) == IF p.freeTags = <<>> THEN {} ELSE Range(Head(p.freeTags))
Forgotten == IF read'.kind = "start" THEN Left(parser) ELSE {}
BindingsConserved ==
  [][outer' = outer =>
       /\ IsInjective(Lists(parser'))
       /\ Range(Lists(parser)) \ Forgotten \subseteq Range(Lists(parser'))
       /\ DOMAIN parser'.binding \ DOMAIN parser.binding \subseteq Range(Lists(parser'))]_vars

(* What the parser calls is what scopes promise: names are expanded as their *)
(* own element and those around it declare, an end tag is given the name of  *)
(* its start tag, the context of an external entity is that of the reference *)
(* to it, and a tag is refused for what is wrong with it and nothing else.   *)
NamespacesOf(p) ==
  [q \in PrefixTable |->
     IF p.prefixBinding[q] = Null THEN None ELSE p.binding[p.prefixBinding[q]].uri]
Under(p) ==
  LET under[i \in 0..Len(p.tagStack)] ==
        IF i = 0 THEN p ELSE Released(under[i - 1], p.tagStack[i].bindings)
  IN  under

StateOf(p) == IF p.error # None THEN p.error ELSE p.state
BaseOf(p) ==
  IF p.error # None THEN [q \in PrefixTable |-> None]
  ELSE NamespacesOf(Under(p)[Len(p.tagStack)])
OpenOf(p) ==
  IF p.error # None THEN <<>>
  ELSE LET under == Under(p) IN
       [i \in DOMAIN p.tagStack |->
         LET tag == p.tagStack[i]
         IN  [name |-> NameOf(NameAgain(p, tag), tag),
              env |-> NamespacesOf(under[i - 1]),
              prefixes |-> [j \in DOMAIN tag.bindings |-> p.binding[tag.bindings[j]].prefix]]]

Scopes ==
  INSTANCE NamespaceScopes WITH
    state <- StateOf(parser), base <- BaseOf(parser), open <- OpenOf(parser),
    outer <- [i \in DOMAIN outer |-> <<StateOf(outer[i]), BaseOf(outer[i]), OpenOf(outer[i])>>]
ImplementsScopes == Scopes!Spec

=============================================================================
