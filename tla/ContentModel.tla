---------------------------- MODULE ContentModel -----------------------------
(***************************************************************************)
(* Element declarations: what doProlog of xmlparse.c does for the roles of *)
(* <!ELEMENT ...>.  A content model is collected in dtd->scaffold, a table *)
(* of nodes linked by indexes, while m_prologState.level, dtd->scaffLevel  *)
(* and m_groupConnector each follow the nesting of its groups, and is      *)
(* copied into one block of memory for the element declaration handler.    *)
(*                                                                         *)
(* The tables grow as they are needed, and growing may fail; the handler   *)
(* may be set and removed between any two tokens; the parser may be reset  *)
(* at any point.                                                           *)
(***************************************************************************)
EXTENDS PrologRoles, Sequences

CONSTANTS
  Tokens,           \* the tokens of the internal or external subset
  Elements,         \* element names
  NameLength,       \* their length with the terminating zero
  InitGroupSize,    \* 32
  InitScaffoldSize, \* INIT_SCAFFOLD_ELEMENTS, 32
  MaxTokens,        \* bound: tokens between two resets
  MaxResets         \* bound: XML_ParserReset calls

ASSUME ContentModelAssumption ==
  /\ Tokens \subseteq [k: PrologTokens, n: Elements]
  /\ NameLength \in [Elements -> Nat \ {0}]
  /\ InitGroupSize \in Nat /\ InitGroupSize > 1
  /\ InitScaffoldSize \in Nat /\ InitScaffoldSize > 0
  /\ MaxTokens \in Nat /\ MaxResets \in Nat

VARIABLES
  state,              \* m_prologState
  error,              \* what doProlog returned, "NONE" while it goes on
  elementDeclHandler, \* is m_elementDeclHandler set?
  declElementType,    \* m_declElementType
  groupSize,          \* m_groupSize
  groupConnector,     \* m_groupConnector
  dtd,                \* the scaffold's part of DTD
  decl,               \* history: the tokens of the current declaration
  kept,               \* history: the handler was set since its name was read
  delivered,          \* history: the handler's calls for it
  tokens, resets      \* counted for the bounds

group == <<groupSize, groupConnector>>
history == <<decl, kept, delivered, tokens, resets>>
vars == <<state, error, elementDeclHandler, declElementType, group, dtd, history>>

(* Tables are functions on 0..size-1, NULL the empty one.                    *)
NULL == [i \in {} |-> 0]
IsNULL(table) == DOMAIN table = {}
Undefined == -1
Grow(table, size, filler) ==
  [i \in 0..size - 1 |-> IF i \in DOMAIN table THEN table[i] ELSE filler]

Types == {"EMPTY", "ANY", "MIXED", "NAME", "CHOICE", "SEQ", "undefined"}
Quants == {"NONE", "OPT", "REP", "PLUS", "undefined"}

(* CONTENT_SCAFFOLD as malloc leaves it.                                     *)
Garbage == [type |-> "undefined", quant |-> "undefined", name |-> "-",
            firstchild |-> 0, lastchild |-> 0, childcnt |-> 0, nextsib |-> 0]

(* dtdCreate, dtdReset.                                                      *)
NoScaffold ==
  [in_eldecl |-> FALSE, scaffold |-> NULL, scaffSize |-> 0, scaffCount |-> 0,
   scaffLevel |-> 0, scaffIndex |-> NULL, contentStringLen |-> 0]

-----------------------------------------------------------------------------
(* nextScaffoldPart, when the tables could be grown: a node below the        *)
(* innermost open group.                                                     *)
IndexTable(d, size) ==
  IF IsNULL(d.scaffIndex)
  THEN [i \in 0..size - 1 |-> IF i = 0 THEN 0 ELSE Undefined]
  ELSE d.scaffIndex
(* Mutant: the table is never enlarged.                                      *)
ScaffoldSizeOnce(d) == IF d.scaffSize = 0 THEN InitScaffoldSize ELSE d.scaffSize
ScaffoldSize(d) ==
  IF d.scaffCount < d.scaffSize THEN d.scaffSize
  ELSE IF d.scaffSize = 0 THEN InitScaffoldSize ELSE 2 * d.scaffSize

Adopt(node, child) ==
  [node EXCEPT !.firstchild = IF node.childcnt = 0 THEN child ELSE @,
               !.lastchild = child, !.childcnt = @ + 1]

LinkChild(nodes, parent, next) ==
  LET last == nodes[parent].lastchild
      siblings == IF last = 0 THEN nodes ELSE [nodes EXCEPT ![last].nextsib = next]
  IN  [siblings EXCEPT ![parent] = Adopt(siblings[parent], next)]

(* Mutant: the entry is as the last declaration left it.                     *)
NewNodeUsed(nodes, next) == nodes
NewNode(nodes, next) ==
  [nodes EXCEPT ![next] =
     [nodes[next] EXCEPT !.firstchild = 0, !.lastchild = 0, !.childcnt = 0, !.nextsib = 0]]

nextScaffoldPart(d, size) ==
  LET index == IndexTable(d, size)
      nodes == Grow(d.scaffold, ScaffoldSize(d), Garbage)
      next == d.scaffCount
      linked == IF d.scaffLevel = 0 THEN nodes
                ELSE LinkChild(nodes, index[d.scaffLevel - 1], next)
  IN  [d EXCEPT !.scaffIndex = index, !.scaffSize = ScaffoldSize(d),
                !.scaffold = NewNode(linked, next), !.scaffCount = next + 1]

(* The tables, when one of its allocations fails.                            *)
Unallocated(d, size) ==
  (IF IsNULL(d.scaffIndex) THEN {d} ELSE {}) \cup
  (IF d.scaffCount >= d.scaffSize THEN {[d EXCEPT !.scaffIndex = IndexTable(d, size)]} ELSE {})

(* build_node and build_model: the members of a node, each found from the    *)
(* one before it; the model, and the memory allocated for it.                *)
Members(d, i) ==
  LET child[c \in 1..d.scaffold[i].childcnt] ==
        IF c = 1 THEN d.scaffold[i].firstchild ELSE d.scaffold[child[c - 1]].nextsib
  IN  child

build_model(d) ==
  LET node[i \in 0..d.scaffCount - 1] ==
        [type |-> d.scaffold[i].type, quant |-> d.scaffold[i].quant,
         name |-> IF d.scaffold[i].type = "NAME" THEN d.scaffold[i].name ELSE "-",
         children |-> IF d.scaffold[i].type = "NAME" THEN <<>>
                      ELSE LET member == Members(d, i)
                           IN  [c \in 1..d.scaffold[i].childcnt |-> node[member[c]]]]
  IN  [model |-> node[0], nodes |-> d.scaffCount, chars |-> d.contentStringLen]

Leaf(type) ==
  [model |-> [type |-> type, quant |-> "NONE", name |-> "-", children |-> <<>>],
   nodes |-> 1, chars |-> 0]

-----------------------------------------------------------------------------
(* One token of the subset: its role, and the case of doProlog's switch.     *)
Role(t) == XmlTokenRole(state, t.k).role
Reads(t) ==
  /\ error = "NONE" /\ state.handler # "error" \* where the content follows
  /\ tokens < MaxTokens /\ tokens' = tokens + 1
  /\ state' = XmlTokenRole(state, t.k).state
  /\ UNCHANGED <<elementDeclHandler, resets>>

TopLevel == state.handler \in {"internalSubset", "externalSubset0", "externalSubset1"}
(* The declaration the token belongs to.                                     *)
Skipped(t) == t.k \in {"S", "PARAM_ENTITY_REF"} /\ Role(t) # "ERROR"
Logged(t) ==
  decl' = IF Skipped(t) THEN decl ELSE IF TopLevel THEN <<t>> ELSE Append(decl, t)

Fail(err) ==
  /\ error' = err
  /\ UNCHANGED <<declElementType, dtd, kept, delivered>>

Refuse(t) ==
  /\ Reads(t) /\ Logged(t)
  /\ Role(t) = "ERROR"
  /\ Fail(CASE t.k = "PARAM_ENTITY_REF" -> "PARAM_ENTITY_REF"
            [] t.k = "XML_DECL" -> "MISPLACED_XML_PI"
            [] OTHER -> "SYNTAX")
  /\ UNCHANGED group

(* An attribute list names its element in the same variable.                 *)
AttlistElementName(t) ==
  /\ Reads(t) /\ Logged(t)
  /\ Role(t) = "ATTLIST_ELEMENT_NAME"
  /\ \/ error' = "NO_MEMORY" /\ declElementType' = "-"
     \/ declElementType' = t.n /\ UNCHANGED error
  /\ UNCHANGED <<group, dtd, kept, delivered>>

(* The other roles leave all of this alone.  The text of a parameter entity  *)
(* referred to inside of a declaration are the tokens that follow.           *)
ElementRoles ==
  {"ELEMENT_NAME", "CONTENT_ANY", "CONTENT_EMPTY", "CONTENT_PCDATA", "GROUP_OPEN",
   "GROUP_SEQUENCE", "GROUP_CHOICE", "CONTENT_ELEMENT", "CONTENT_ELEMENT_OPT",
   "CONTENT_ELEMENT_REP", "CONTENT_ELEMENT_PLUS", "GROUP_CLOSE", "GROUP_CLOSE_OPT",
   "GROUP_CLOSE_REP", "GROUP_CLOSE_PLUS"}

Other(t) ==
  /\ Reads(t) /\ Logged(t)
  /\ Role(t) \notin ElementRoles \cup {"ATTLIST_ELEMENT_NAME", "ERROR"}
  /\ delivered' = IF TopLevel /\ ~Skipped(t) THEN <<>> ELSE delivered
  /\ UNCHANGED <<error, declElementType, group, dtd, kept>>

ElementName(t) ==
  /\ Reads(t) /\ Logged(t)
  /\ Role(t) = "ELEMENT_NAME"
  /\ kept' = elementDeclHandler
  /\ UNCHANGED <<delivered, group>>
  /\ \/ ~elementDeclHandler /\ UNCHANGED <<error, declElementType, dtd>>
     \/ elementDeclHandler /\ error' = "NO_MEMORY" /\ declElementType' = "-" /\ UNCHANGED dtd
     \/ /\ elementDeclHandler
        /\ declElementType' = t.n
        /\ dtd' = [dtd EXCEPT !.scaffLevel = 0, !.scaffCount = 0, !.in_eldecl = TRUE]
        /\ UNCHANGED error

(* The handler is called with model m of m_declElementType.                  *)
Deliver(m) == delivered' = Append(delivered, [element |-> declElementType, content |-> m])

ContentAnyOrEmpty(t) ==
  /\ Reads(t) /\ Logged(t)
  /\ Role(t) \in {"CONTENT_ANY", "CONTENT_EMPTY"}
  /\ \/ dtd.in_eldecl /\ elementDeclHandler /\ Fail("NO_MEMORY")
     \/ /\ IF dtd.in_eldecl /\ elementDeclHandler
           THEN Deliver(Leaf(IF Role(t) = "CONTENT_ANY" THEN "ANY" ELSE "EMPTY"))
           ELSE UNCHANGED delivered
        /\ dtd' = [dtd EXCEPT !.in_eldecl = FALSE]
        /\ UNCHANGED <<error, declElementType, kept>>
  /\ UNCHANGED group

(* Mutants: the table of the open groups does not grow with the other one;   *)
(* the connector of the new group is what a former group left.               *)
GrownIndexNot(d, size) == d
GrownIndex(d, size) ==
  IF IsNULL(d.scaffIndex) THEN d ELSE [d EXCEPT !.scaffIndex = Grow(@, size, Undefined)]
OpenConnectorKept(size, level) == Grow(groupConnector, size, "undefined")
OpenConnector(size, level) ==
  [Grow(groupConnector, size, "undefined") EXCEPT ![level] = "none"]

OpenGroup(d, size) ==
  LET s == nextScaffoldPart(d, size)
  IN  [s EXCEPT !.scaffIndex[d.scaffLevel] = d.scaffCount,
                !.scaffLevel = @ + 1,
                !.scaffold[d.scaffCount].type = "SEQ"]

GroupOpen(t) ==
  LET level == state'.level
      full == level >= groupSize
      size == IF ~full THEN groupSize
              ELSE IF groupSize = 0 THEN InitGroupSize ELSE 2 * groupSize
      grown == IF full /\ groupSize > 0 THEN GrownIndex(dtd, size) ELSE dtd
  IN  /\ Reads(t) /\ Logged(t)
      /\ Role(t) = "GROUP_OPEN"
      /\ \/ full /\ Fail("NO_MEMORY") /\ UNCHANGED group
         \/ /\ full /\ groupSize > 0 /\ ~IsNULL(dtd.scaffIndex) \* scaffIndex cannot grow
            /\ groupSize' = size
            /\ groupConnector' = Grow(groupConnector, size, "undefined")
            /\ Fail("NO_MEMORY")
         \/ /\ groupSize' = size
            /\ groupConnector' = OpenConnector(size, level)
            /\ UNCHANGED <<declElementType, kept, delivered>>
            /\ \/ dtd.in_eldecl /\ dtd' \in Unallocated(grown, size) /\ error' = "NO_MEMORY"
               \/ dtd.in_eldecl /\ dtd' = OpenGroup(grown, size) /\ UNCHANGED error
               \/ ~dtd.in_eldecl /\ dtd' = grown /\ UNCHANGED error

Connector == groupConnector[state.level]
SetConnector(c) == groupConnector' = [groupConnector EXCEPT ![state.level] = c]

GroupSequence(t) ==
  /\ Reads(t) /\ Logged(t)
  /\ Role(t) = "GROUP_SEQUENCE"
  /\ UNCHANGED groupSize
  /\ \/ Connector = "pipe" /\ Fail("SYNTAX") /\ UNCHANGED groupConnector
     \/ /\ Connector # "pipe"
        /\ SetConnector("comma")
        /\ UNCHANGED <<error, declElementType, dtd, kept, delivered>>

OpenNode == dtd.scaffIndex[dtd.scaffLevel - 1]

GroupChoice(t) ==
  /\ Reads(t) /\ Logged(t)
  /\ Role(t) = "GROUP_CHOICE"
  /\ UNCHANGED groupSize
  /\ \/ Connector = "comma" /\ Fail("SYNTAX") /\ UNCHANGED groupConnector
     \/ /\ Connector # "comma"
        /\ SetConnector("pipe")
        /\ dtd' = IF /\ dtd.in_eldecl /\ Connector = "none"
                     /\ dtd.scaffold[OpenNode].type # "MIXED"
                  THEN [dtd EXCEPT !.scaffold[OpenNode].type = "CHOICE"]
                  ELSE dtd
        /\ UNCHANGED <<error, declElementType, kept, delivered>>

ContentPcdata(t) ==
  /\ Reads(t) /\ Logged(t)
  /\ Role(t) = "CONTENT_PCDATA"
  /\ dtd' = IF dtd.in_eldecl THEN [dtd EXCEPT !.scaffold[OpenNode].type = "MIXED"] ELSE dtd
  /\ UNCHANGED <<error, declElementType, group, kept, delivered>>

QuantOf(r) ==
  CASE r \in {"CONTENT_ELEMENT_OPT", "GROUP_CLOSE_OPT"}   -> "OPT"
    [] r \in {"CONTENT_ELEMENT_REP", "GROUP_CLOSE_REP"}   -> "REP"
    [] r \in {"CONTENT_ELEMENT_PLUS", "GROUP_CLOSE_PLUS"} -> "PLUS"
    [] OTHER -> "NONE"

AddUnnamed(d, quant) ==
  LET s == nextScaffoldPart(d, groupSize)
  IN  [s EXCEPT !.scaffold[d.scaffCount] = [@ EXCEPT !.type = "NAME", !.quant = quant]]
AddName(d, n, quant) ==
  LET s == AddUnnamed(d, quant)
  IN  [s EXCEPT !.scaffold[d.scaffCount].name = n,
                !.contentStringLen = @ + NameLength[n]]

ContentElement(t) ==
  /\ Reads(t) /\ Logged(t)
  /\ Role(t) \in {"CONTENT_ELEMENT", "CONTENT_ELEMENT_OPT", "CONTENT_ELEMENT_REP",
                  "CONTENT_ELEMENT_PLUS"}
  /\ UNCHANGED <<declElementType, group, kept, delivered>>
  /\ \/ /\ dtd.in_eldecl /\ error' = "NO_MEMORY"
        /\ dtd' \in Unallocated(dtd, groupSize) \cup {AddUnnamed(dtd, QuantOf(Role(t)))}
     \/ dtd.in_eldecl /\ dtd' = AddName(dtd, t.n, QuantOf(Role(t))) /\ UNCHANGED error
     \/ ~dtd.in_eldecl /\ UNCHANGED <<error, dtd>>

(* Mutant: the length of the names is not reset.                             *)
EndDeclarationKept(d) == [d EXCEPT !.in_eldecl = FALSE]
EndDeclaration(d) == [d EXCEPT !.in_eldecl = FALSE, !.contentStringLen = 0]

GroupClose(t) ==
  LET node == dtd.scaffIndex[dtd.scaffLevel - 1]
      closed == [dtd EXCEPT !.scaffLevel = @ - 1,
                            !.scaffold[node].quant = QuantOf(Role(t))]
  IN  /\ Reads(t) /\ Logged(t)
      /\ Role(t) \in {"GROUP_CLOSE", "GROUP_CLOSE_OPT", "GROUP_CLOSE_REP", "GROUP_CLOSE_PLUS"}
      /\ UNCHANGED <<declElementType, group, kept>>
      /\ \/ ~dtd.in_eldecl /\ UNCHANGED <<error, dtd, delivered>>
         \/ /\ dtd.in_eldecl /\ closed.scaffLevel > 0
            /\ dtd' = closed /\ UNCHANGED <<error, delivered>>
         \/ /\ dtd.in_eldecl /\ closed.scaffLevel = 0 /\ elementDeclHandler
            /\ dtd' = closed /\ error' = "NO_MEMORY" /\ UNCHANGED delivered
         \/ /\ dtd.in_eldecl /\ closed.scaffLevel = 0
            /\ dtd' = EndDeclaration(closed)
            /\ IF elementDeclHandler THEN Deliver(build_model(closed)) ELSE UNCHANGED delivered
            /\ UNCHANGED error

-----------------------------------------------------------------------------
(* The application, in a handler or between two calls.                       *)
XML_SetElementDeclHandler ==
  /\ elementDeclHandler' = ~elementDeclHandler
  /\ kept' = (kept /\ elementDeclHandler')
  /\ UNCHANGED <<state, error, declElementType, group, dtd, decl, delivered, tokens, resets>>

(* A document before its DOCTYPE's "[" has no effect on these variables.     *)
InSubset(isDocument) ==
  IF isDocument THEN [XmlPrologStateInit EXCEPT !.handler = "internalSubset"]
  ELSE XmlPrologStateInitExternalEntity

(* Mutant: the tables of the old document are kept.                          *)
dtdResetKept == UNCHANGED dtd
dtdReset == dtd' = NoScaffold

(* The parser of an external subset cannot be reset.  XmlPrologStateInit     *)
(* leaves level and role_none as they are.                                   *)
XML_ParserReset ==
  /\ state.documentEntity
  /\ resets < MaxResets /\ resets' = resets + 1
  /\ state' = [state EXCEPT !.handler = "internalSubset", !.includeLevel = 0]
  /\ error' = "NONE" /\ declElementType' = "-"
  /\ dtdReset
  /\ elementDeclHandler' = FALSE /\ kept' = FALSE
  /\ decl' = <<>> /\ delivered' = <<>> /\ tokens' = 0
  /\ UNCHANGED group

Init ==
  /\ state \in {InSubset(b) : b \in BOOLEAN}
  /\ error = "NONE" /\ declElementType = "-"
  /\ elementDeclHandler \in BOOLEAN
  /\ groupSize = 0 /\ groupConnector = NULL
  /\ dtd = NoScaffold
  /\ decl = <<>> /\ kept = FALSE /\ delivered = <<>>
  /\ tokens = 0 /\ resets = 0

Token(t) ==
  \/ Refuse(t) \/ Other(t) \/ AttlistElementName(t) \/ ElementName(t)
  \/ ContentAnyOrEmpty(t) \/ GroupOpen(t)
  \/ GroupSequence(t) \/ GroupChoice(t) \/ ContentPcdata(t) \/ ContentElement(t)
  \/ GroupClose(t)

Next == (\E t \in Tokens : Token(t)) \/ XML_SetElementDeclHandler \/ XML_ParserReset

Spec == Init /\ [][Next]_vars

-----------------------------------------------------------------------------
Node == [type: Types, quant: Quants, name: Elements \cup {"-"}, firstchild: Nat,
         lastchild: Nat, childcnt: Nat, nextsib: Nat]

DtdType(d) ==
  /\ DOMAIN d = DOMAIN NoScaffold
  /\ d.in_eldecl \in BOOLEAN
  /\ d.scaffSize \in Nat /\ d.scaffCount \in Nat /\ d.scaffLevel \in Nat
  /\ d.contentStringLen \in Nat
  /\ d.scaffold \in [0..d.scaffSize - 1 -> Node]
  /\ d.scaffCount <= d.scaffSize
  /\ d.scaffIndex \in [DOMAIN d.scaffIndex -> Int]

(* The scaffold never holds more nodes than it was allocated for, and each   *)
(* table is as long as its size says.                                        *)
TypeOK ==
  /\ state \in PrologStates
  /\ error \in {"NONE", "NO_MEMORY", "SYNTAX", "PARAM_ENTITY_REF", "MISPLACED_XML_PI"}
  /\ elementDeclHandler \in BOOLEAN
  /\ declElementType \in Elements \cup {"-"}
  /\ groupSize \in Nat
  /\ groupConnector \in [0..groupSize - 1 -> {"undefined", "none", "comma", "pipe"}]
  /\ DtdType(dtd)

InDeclaration == state.handler \in ElementDecl \ {"element0"}
InGroup == state.handler \in ElementDecl \ {"element0", "element1"}

(* The index of the open groups is as long as m_groupConnector, whichever of *)
(* them was grown or newly allocated last.                                   *)
TablesInStep ==
  ~IsNULL(dtd.scaffIndex) => DOMAIN dtd.scaffIndex = 0..groupSize - 1

(* The automaton's depth and m_groupConnector.                               *)
GroupsOpen ==
  InGroup =>
    /\ state.level \in 1..groupSize - 1
    /\ state.handler \in {"element2", "element3", "element4", "element5"} => state.level = 1
    /\ \A l \in 1..state.level : groupConnector[l] # "undefined"

(* Every node's last member is a node.                                       *)
Linked(nodes, count) == \A i \in 0..count - 1 : nodes[i].lastchild \in 0..count - 1

(* A declaration is collected only between its name and its end, and the     *)
(* scaffold's depth is the automaton's.                                      *)
Collected ==
  dtd.in_eldecl =>
    /\ InDeclaration
    /\ state.handler = "element1" => dtd.scaffLevel = 0 /\ dtd.scaffCount = 0
    /\ InGroup =>
         /\ dtd.scaffLevel = state.level
         /\ ~IsNULL(dtd.scaffIndex)
         /\ \A l \in 0..dtd.scaffLevel - 1 : dtd.scaffIndex[l] \in 0..dtd.scaffCount - 1
         /\ Linked(dtd.scaffold, dtd.scaffCount)

IndInv ==
  /\ TypeOK /\ groupSize # 1
  /\ error = "NONE" => TablesInStep /\ GroupsOpen /\ Collected

(* Every index doProlog uses at the next token of a declaration - the depth  *)
(* in m_groupConnector, the innermost group in scaffIndex, its node and the  *)
(* last of its members in scaffold - is inside its table and was written     *)
(* there, for a handler set at any moment, any failed allocation, and any    *)
(* tables and depth the documents before a reset left behind.                *)
IndexesInBounds ==
  error = "NONE" /\ InGroup =>
    /\ state.level \in DOMAIN groupConnector
    /\ groupConnector[state.level] # "undefined"
    /\ dtd.in_eldecl =>
         /\ dtd.scaffLevel = state.level
         /\ dtd.scaffLevel - 1 \in DOMAIN dtd.scaffIndex
         /\ OpenNode \in 0..dtd.scaffCount - 1
         /\ dtd.scaffold[OpenNode].lastchild \in 0..dtd.scaffCount - 1
         /\ 0..dtd.scaffCount - 1 \subseteq DOMAIN dtd.scaffold

-----------------------------------------------------------------------------
(* The declaration that is being read, or was read last, by the reference.   *)
Ref == INSTANCE ContentSpec

Declaration == Ref!Declared(decl)
IsElementDecl == decl # <<>> /\ decl[1].k = "<!ELEMENT"

(* The handler gets at most one model for a declaration, and it is the one   *)
(* the declaration spells: the copy of the scaffold has the groups, members, *)
(* quantifiers and names in order, and the memory build_model asked for is   *)
(* that of the model.  A handler that was set since the element's name gets  *)
(* its model unless memory runs out.                                         *)
ModelAsDeclared ==
  IsElementDecl =>
    /\ Len(delivered) <= 1
    /\ delivered # <<>> =>
         delivered[1] = [element |-> Declaration.element, content |-> Ref!Model(Declaration)]
    /\ kept /\ error = "NONE" /\ Declaration.at \in {"end", "done"} => delivered # <<>>

(* doProlog refuses a declaration exactly when no content model begins so:   *)
(* m_groupConnector, indexed by the depth of the role automaton, tells the   *)
(* separators of every open group apart.                                     *)
RefusedForSyntax ==
  IsElementDecl =>
    (error \in {"SYNTAX", "PARAM_ENTITY_REF", "MISPLACED_XML_PI"} <=> Declaration.at = "bad")

=============================================================================
