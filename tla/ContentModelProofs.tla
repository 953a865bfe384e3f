-------------------------- MODULE ContentModelProofs --------------------------
(***************************************************************************)
(* Element declarations, proved for every vocabulary of tokens, every size *)
(* of the tables and every number of documents: the indexes that follow    *)
(* the nesting of a content model stay in step and inside their tables.    *)
(***************************************************************************)
EXTENDS ContentModel, TLAPS

-----------------------------------------------------------------------------
(* The automaton.  Outside of an element declaration no handler leads into   *)
(* one past its name, and none gives one of its roles.                       *)
Outside(r) ==
  /\ r.state \in PrologStates
  /\ r.state.handler \notin ElementDecl \ {"element0"}
  /\ r.role \notin ElementRoles

(* Elsewhere a step of the automaton moves handler and level together with   *)
(* the role it gives.                                                        *)
ContentRoles ==
  {"CONTENT_ELEMENT", "CONTENT_ELEMENT_OPT", "CONTENT_ELEMENT_REP", "CONTENT_ELEMENT_PLUS"}
CloseRoles == {"GROUP_CLOSE", "GROUP_CLOSE_OPT", "GROUP_CLOSE_REP", "GROUP_CLOSE_PLUS"}
Deep == {"element6", "element7"}
Flat == {"element2", "element3", "element4", "element5"}
Groups == Flat \cup Deep

Depth(s) ==
  /\ s.handler \in Groups => s.level >= 1
  /\ s.handler \in Flat => s.level = 1

RoleStep(s, r) ==
  /\ r.state \in PrologStates
  /\ r.role = "ELEMENT_NAME" => s.handler = "element0" /\ r.state.handler = "element1"
  /\ r.role \in {"CONTENT_ANY", "CONTENT_EMPTY"} =>
       s.handler = "element1" /\ r.state.handler = "declClose"
  /\ r.role = "GROUP_OPEN" =>
       /\ r.state.handler \in {"element2", "element6"}
       /\ \/ s.handler = "element1" /\ r.state.handler = "element2" /\ r.state.level = 1
          \/ s.handler \in Groups /\ r.state.handler = "element6" /\ r.state.level = s.level + 1
  /\ r.role \in {"GROUP_SEQUENCE", "GROUP_CHOICE"} =>
       s.handler \in Groups /\ r.state.handler = "element6" /\ r.state.level = s.level
  /\ r.role = "CONTENT_PCDATA" =>
       s.handler = "element2" /\ r.state.handler = "element3" /\ r.state.level = s.level
  /\ r.role \in ContentRoles =>
       /\ s.handler \in Groups /\ r.state.level = s.level
       /\ \/ s.handler \in Flat /\ r.state.handler = "element5"
          \/ r.state.handler = "element7"
  /\ r.role \in CloseRoles =>
       /\ s.handler \in Groups
       /\ \/ s.level = 1 /\ r.state.handler = "declClose"
          \/ s.level > 1 /\ r.state.handler = "element7" /\ r.state.level = s.level - 1
  /\ r.role \notin ElementRoles \cup {"ERROR"} =>
       \/ /\ s.handler \notin ElementDecl \ {"element0"}
          /\ r.state.handler \notin ElementDecl \ {"element0"}
       \/ r.state.handler = s.handler /\ r.state.level = s.level
       \/ s.handler \in Flat /\ r.state.handler \in Flat /\ r.state.level = s.level

LEMMA OutsideSteps ==
  ASSUME NEW s, NEW r, s.handler \notin ElementDecl \ {"element0"}, Outside(r)
  PROVE  RoleStep(s, r)
BY DEF Outside, RoleStep, ElementRoles, ContentRoles, CloseRoles

LEMMA CommonOutside ==
  ASSUME NEW s \in PrologStates, NEW tok, s.handler \notin ElementDecl \ {"element0"}
  PROVE  Outside(common(s, tok))
BY DEF common, Stay, To, Outside, PrologStates, ElementRoles, ElementDecl, Handlers

(* A transition to a handler outside, with a role that is not an element's.  *)
LEMMA ToOutside ==
  ASSUME NEW s \in PrologStates, NEW h \in Handlers \ (ElementDecl \ {"element0"}),
         NEW r, r \notin ElementRoles
  PROVE  Outside(To(s, h, r))
BY DEF To, Stay, Outside, PrologStates

LEMMA ToCloseOutside ==
  ASSUME NEW s \in PrologStates, NEW none \in NoneRoles, NEW r, r \notin ElementRoles
  PROVE  Outside(ToClose(s, none, r))
BY DEF ToClose, Stay, Outside, PrologStates, Handlers, ElementDecl

LEMMA PrologOutside ==
  ASSUME NEW s \in PrologStates, NEW tok, s.handler \in Prolog
  PROVE  Outside(prolog(s, tok))
<1>1. s.handler \notin ElementDecl \ {"element0"}
  BY DEF Prolog, ElementDecl
<1>2. Outside(common(s, tok))
  BY <1>1, CommonOutside
<1>3. Outside(Stay(s, "NONE"))
  BY <1>1 DEF Stay, Outside, PrologStates, ElementRoles
<1> QED
  BY <1>1, <1>2, <1>3, ToOutside, ToCloseOutside DEF prolog, setTopLevel, Handlers, Prolog, Doctype, Subset,
     EntityDecl, NotationDecl, AttlistDecl, ElementDecl, ElementRoles, NoneRoles

LEMMA DoctypeOutside ==
  ASSUME NEW s \in PrologStates, NEW tok, s.handler \in Doctype
  PROVE  Outside(doctype(s, tok))
<1>1. s.handler \notin ElementDecl \ {"element0"}
  BY DEF Doctype, ElementDecl
<1>2. Outside(common(s, tok))
  BY <1>1, CommonOutside
<1> QED
  BY <1>1, <1>2, ToOutside, ToCloseOutside DEF doctype, setTopLevel, Handlers, Prolog, Doctype, Subset,
     EntityDecl, NotationDecl, AttlistDecl, ElementDecl, ElementRoles, NoneRoles

LEMMA EntityOutside ==
  ASSUME NEW s \in PrologStates, NEW tok, s.handler \in EntityDecl
  PROVE  Outside(entity(s, tok))
<1>1. s.handler \notin ElementDecl \ {"element0"}
  BY DEF EntityDecl, ElementDecl
<1>2. Outside(common(s, tok))
  BY <1>1, CommonOutside
<1> QED
  BY <1>1, <1>2, ToOutside, ToCloseOutside DEF entity, setTopLevel, Handlers, Prolog, Doctype, Subset,
     EntityDecl, NotationDecl, AttlistDecl, ElementDecl, ElementRoles, NoneRoles

LEMMA NotationOutside ==
  ASSUME NEW s \in PrologStates, NEW tok, s.handler \in NotationDecl
  PROVE  Outside(notation(s, tok))
<1>1. s.handler \notin ElementDecl \ {"element0"}
  BY DEF NotationDecl, ElementDecl
<1>2. Outside(common(s, tok))
  BY <1>1, CommonOutside
<1> QED
  BY <1>1, <1>2, ToOutside, ToCloseOutside DEF notation, setTopLevel, Handlers, Prolog, Doctype, Subset,
     EntityDecl, NotationDecl, AttlistDecl, ElementDecl, ElementRoles, NoneRoles

LEMMA AttlistOutside ==
  ASSUME NEW s \in PrologStates, NEW tok, s.handler \in AttlistDecl
  PROVE  Outside(attlist(s, tok))
<1>1. s.handler \notin ElementDecl \ {"element0"}
  BY DEF AttlistDecl, ElementDecl
<1>2. Outside(common(s, tok))
  BY <1>1, CommonOutside
<1> DEFINE type == CASE tok = "CDATA" -> "ATTRIBUTE_TYPE_CDATA"
                     [] tok = "ID"    -> "ATTRIBUTE_TYPE_ID"
                     [] OTHER         -> "ATTRIBUTE_TYPE_OTHER"
<1>3. type \notin ElementRoles
  BY DEF ElementRoles
<1>4. Outside(To(s, "attlist8", type))
  <2> HIDE DEF type
  <2> QED
    BY <1>3, ToOutside DEF Handlers, AttlistDecl, ElementDecl
<1> QED
  BY <1>1, <1>2, <1>4, ToOutside DEF attlist, setTopLevel, Handlers, Subset, AttlistDecl,
     ElementDecl, ElementRoles

LEMMA SubsetOutside ==
  ASSUME NEW s \in PrologStates, NEW tok, s.handler \in Subset
  PROVE  /\ Outside(internalSubset(s, tok))
         /\ Outside(externalSubset1(s, tok))
         /\ Outside(condSect(s, tok))
<1>1. s.handler \notin ElementDecl \ {"element0"}
  BY DEF Subset, ElementDecl
<1>2. Outside(common(s, tok))
  BY <1>1, CommonOutside
<1>3. \A r : r \notin ElementRoles => Outside(Stay(s, r))
  BY <1>1 DEF Stay, Outside, PrologStates
<1>4. Outside(internalSubset(s, tok))
  BY <1>2, <1>3, ToOutside DEF internalSubset, ElementRoles, ElementDecl, Handlers, Subset,
     Doctype, EntityDecl, AttlistDecl, NotationDecl
<1>5. Outside(condSect(s, tok))
  <2> DEFINE s1 == [s EXCEPT !.includeLevel = @ + 1]
  <2>1. s1 \in PrologStates
    BY DEF PrologStates
  <2>2. Outside(To(s1, "externalSubset1", "NONE"))
    BY <2>1, ToOutside DEF ElementRoles, ElementDecl, Handlers, Subset
  <2> HIDE DEF s1
  <2> QED
    BY <1>2, <2>2, ToOutside DEF s1, condSect, ElementRoles, ElementDecl, Handlers, Subset
<1>6. Outside(externalSubset1(s, tok))
  <2> DEFINE s1 == [s EXCEPT !.includeLevel = @ - 1]
  <2>1. Outside(Stay(s1, "NONE")) \/ ~(s.includeLevel > 0)
    BY <1>1 DEF Stay, Outside, PrologStates, ElementRoles
  <2>2. Outside(To(s, "condSect0", "NONE"))
    BY ToOutside DEF ElementRoles, ElementDecl, Handlers, Subset
  <2>3. Outside(Stay(s, "NONE"))
    BY <1>3 DEF ElementRoles
  <2> QED
    BY <1>2, <1>4, <2>1, <2>2, <2>3 DEF externalSubset1
<1> QED
  BY <1>4, <1>5, <1>6

(* The text declaration is read where the external subset starts.            *)
LEMMA ExternalSubsetOutside ==
  ASSUME NEW s \in PrologStates, NEW tok, s.handler \in Subset
  PROVE  Outside(externalSubset0(s, tok))
<1> DEFINE s1 == [s EXCEPT !.handler = "externalSubset1"]
<1>1. s1 \in PrologStates /\ s1.handler \in Subset
  BY DEF PrologStates, Handlers, Subset
<1>2. Outside(externalSubset1(s1, tok))
  BY <1>1, SubsetOutside
<1>3. Outside(To(s, "externalSubset1", "TEXT_DECL"))
  BY DEF To, Stay, Outside, PrologStates, ElementRoles, ElementDecl, Handlers, Subset
<1> QED
  BY <1>2, <1>3, Zenon DEF externalSubset0

LEMMA CloseOutside ==
  ASSUME NEW s \in PrologStates, NEW tok, s.handler \in {"declClose", "error"}
  PROVE  Outside(declClose(s, tok)) /\ Outside(Stay(s, "NONE"))
<1>1. s.handler \notin ElementDecl \ {"element0"}
  BY DEF ElementDecl
<1>2. Outside(common(s, tok))
  BY <1>1, CommonOutside
<1> QED
  BY <1>1, <1>2 DEF declClose, setTopLevel, Stay, To, Outside, PrologStates, ElementRoles,
     ElementDecl, Handlers, Subset, NoneRoles

LEMMA SpaceStep ==
  ASSUME NEW s \in PrologStates
  PROVE  RoleStep(s, Space(s))
BY SMTT(60) DEF Space, Stay, To, RoleStep, PrologStates, ElementRoles, ContentRoles, CloseRoles,
   ElementDecl, Handlers, Prolog, Subset, Doctype, EntityDecl, NotationDecl, AttlistDecl, NoneRoles

(* The roles of the tokens with a quantifier.                                *)
LEMMA QuantifiedRoles ==
  ASSUME NEW tok
  PROVE  ContentRole(tok) \in ContentRoles /\ CloseRole(tok) \in CloseRoles
BY DEF ContentRole, CloseRole, ContentRoles, CloseRoles

(* The rows of the handlers of an element declaration.                       *)
LEMMA ElementRows ==
  ASSUME NEW s \in PrologStates, NEW tok, s.handler \in ElementDecl, Depth(s)
  PROVE  /\ RoleStep(s, common(s, tok))
         /\ s.handler = "element0" =>
              /\ RoleStep(s, To(s, "element1", "ELEMENT_NAME"))
         /\ s.handler = "element1" =>
              /\ RoleStep(s, ToClose(s, "ELEMENT_NONE", "CONTENT_EMPTY"))
              /\ RoleStep(s, ToClose(s, "ELEMENT_NONE", "CONTENT_ANY"))
              /\ RoleStep(s, To([s EXCEPT !.level = 1], "element2", "GROUP_OPEN"))
         /\ s.handler = "element2" =>
              /\ RoleStep(s, To(s, "element3", "CONTENT_PCDATA"))
              /\ RoleStep(s, To([s EXCEPT !.level = 2], "element6", "GROUP_OPEN"))
              /\ RoleStep(s, To(s, "element7", ContentRole(tok)))
         /\ s.handler = "element3" =>
              /\ RoleStep(s, ToClose(s, "ELEMENT_NONE", "GROUP_CLOSE"))
              /\ RoleStep(s, ToClose(s, "ELEMENT_NONE", "GROUP_CLOSE_REP"))
              /\ RoleStep(s, To(s, "element4", "ELEMENT_NONE"))
         /\ s.handler = "element4" =>
              /\ RoleStep(s, To(s, "element5", "CONTENT_ELEMENT"))
         /\ s.handler = "element5" =>
              /\ RoleStep(s, ToClose(s, "ELEMENT_NONE", "GROUP_CLOSE_REP"))
              /\ RoleStep(s, To(s, "element4", "ELEMENT_NONE"))
         /\ s.handler = "element6" =>
              /\ RoleStep(s, Stay([s EXCEPT !.level = @ + 1], "GROUP_OPEN"))
              /\ RoleStep(s, To(s, "element7", ContentRole(tok)))
         /\ s.handler = "element7" =>
              /\ RoleStep(s, closeGroup(s, tok))
              /\ RoleStep(s, To(s, "element6", "GROUP_SEQUENCE"))
              /\ RoleStep(s, To(s, "element6", "GROUP_CHOICE"))
<1> USE QuantifiedRoles DEF ToClose, Stay, To, RoleStep, Depth, PrologStates, ElementRoles,
    ContentRoles, CloseRoles, Groups, Flat, Deep, ElementDecl, Handlers, NoneRoles
<1>1. RoleStep(s, common(s, tok))
  BY DEF common
<1>2. ASSUME s.handler = "element0"
      PROVE  /\ RoleStep(s, To(s, "element1", "ELEMENT_NAME"))
  BY <1>2
<1>3. ASSUME s.handler = "element1"
      PROVE  /\ RoleStep(s, ToClose(s, "ELEMENT_NONE", "CONTENT_EMPTY"))
             /\ RoleStep(s, ToClose(s, "ELEMENT_NONE", "CONTENT_ANY"))
             /\ RoleStep(s, To([s EXCEPT !.level = 1], "element2", "GROUP_OPEN"))
  BY <1>3
<1>4. ASSUME s.handler = "element2"
      PROVE  /\ RoleStep(s, To(s, "element3", "CONTENT_PCDATA"))
             /\ RoleStep(s, To([s EXCEPT !.level = 2], "element6", "GROUP_OPEN"))
             /\ RoleStep(s, To(s, "element7", ContentRole(tok)))
  <2>1. RoleStep(s, To(s, "element3", "CONTENT_PCDATA"))
    BY <1>4
  <2>2. RoleStep(s, To([s EXCEPT !.level = 2], "element6", "GROUP_OPEN"))
    <3> DEFINE r == To([s EXCEPT !.level = 2], "element6", "GROUP_OPEN")
    <3>1. r.state \in PrologStates /\ r.state.handler = "element6" /\ r.state.level = 2
      OBVIOUS
    <3>2. r.role = "GROUP_OPEN"
      OBVIOUS
    <3>3. s.level + 1 = 2
      BY <1>4
    <3> HIDE DEF r
    <3> QED
      BY <1>4, <3>1, <3>2, <3>3
  <2>3. RoleStep(s, To(s, "element7", ContentRole(tok)))
    BY <1>4
  <2> QED
    BY <2>1, <2>2, <2>3, Zenon
<1>5. ASSUME s.handler = "element3"
      PROVE  /\ RoleStep(s, ToClose(s, "ELEMENT_NONE", "GROUP_CLOSE"))
             /\ RoleStep(s, ToClose(s, "ELEMENT_NONE", "GROUP_CLOSE_REP"))
             /\ RoleStep(s, To(s, "element4", "ELEMENT_NONE"))
  BY <1>5
<1>6. ASSUME s.handler = "element4"
      PROVE  /\ RoleStep(s, To(s, "element5", "CONTENT_ELEMENT"))
  BY <1>6
<1>7. ASSUME s.handler = "element5"
      PROVE  /\ RoleStep(s, ToClose(s, "ELEMENT_NONE", "GROUP_CLOSE_REP"))
             /\ RoleStep(s, To(s, "element4", "ELEMENT_NONE"))
  BY <1>7
<1>8. ASSUME s.handler = "element6"
      PROVE  /\ RoleStep(s, Stay([s EXCEPT !.level = @ + 1], "GROUP_OPEN"))
             /\ RoleStep(s, To(s, "element7", ContentRole(tok)))
  BY <1>8
<1>9. ASSUME s.handler = "element7"
      PROVE  /\ RoleStep(s, closeGroup(s, tok))
             /\ RoleStep(s, To(s, "element6", "GROUP_SEQUENCE"))
             /\ RoleStep(s, To(s, "element6", "GROUP_CHOICE"))
  <2>1. s.level \in Nat /\ s.level >= 1
    BY <1>9
  <2>2. RoleStep(s, ToClose([s EXCEPT !.level = 0], "ELEMENT_NONE", CloseRole(tok))) \/ s.level # 1
    <3> DEFINE r == ToClose([s EXCEPT !.level = 0], "ELEMENT_NONE", CloseRole(tok))
    <3>1. r.state \in PrologStates /\ r.state.handler = "declClose"
      OBVIOUS
    <3>2. r.role \in CloseRoles
      OBVIOUS
    <3> HIDE DEF r
    <3> QED
      BY <1>9, <2>1, <3>1, <3>2
  <2>3. RoleStep(s, Stay([s EXCEPT !.level = @ - 1], CloseRole(tok))) \/ s.level = 1
    <3> SUFFICES ASSUME s.level # 1 PROVE RoleStep(s, Stay([s EXCEPT !.level = @ - 1], CloseRole(tok)))
      OBVIOUS
    <3> DEFINE r == Stay([s EXCEPT !.level = @ - 1], CloseRole(tok))
    <3>1. s.level - 1 \in Nat /\ s.level > 1
      BY <2>1
    <3>2. r.state \in PrologStates /\ r.state.handler = "element7" /\ r.state.level = s.level - 1
      BY <1>9, <3>1
    <3>3. r.role \in CloseRoles
      OBVIOUS
    <3> HIDE DEF r
    <3> QED
      BY <1>9, <3>1, <3>2, <3>3
  <2>4. RoleStep(s, closeGroup(s, tok))
    <3> HIDE DEF RoleStep, ToClose, Stay
    <3> QED
      BY <2>2, <2>3, Zenon DEF closeGroup
  <2>5. RoleStep(s, To(s, "element6", "GROUP_SEQUENCE"))
    <3> DEFINE r == To(s, "element6", "GROUP_SEQUENCE")
    <3>1. r.state \in PrologStates /\ r.state.handler = "element6" /\ r.state.level = s.level
      OBVIOUS
    <3>2. r.role = "GROUP_SEQUENCE"
      OBVIOUS
    <3> HIDE DEF r
    <3> QED
      BY <1>9, <3>1, <3>2
  <2>6. RoleStep(s, To(s, "element6", "GROUP_CHOICE"))
    <3> DEFINE r == To(s, "element6", "GROUP_CHOICE")
    <3>1. r.state \in PrologStates /\ r.state.handler = "element6" /\ r.state.level = s.level
      OBVIOUS
    <3>2. r.role = "GROUP_CHOICE"
      OBVIOUS
    <3> HIDE DEF r
    <3> QED
      BY <1>9, <3>1, <3>2
  <2> HIDE DEF RoleStep, closeGroup, To
  <2> QED
    BY <2>4, <2>5, <2>6, Zenon
<1> HIDE DEF RoleStep, To, ToClose, Stay
<1> QED
  BY <1>1, <1>2, <1>3, <1>4, <1>5, <1>6, <1>7, <1>8, <1>9, Zenon

LEMMA ElementStep ==
  ASSUME NEW s \in PrologStates, NEW tok, s.handler \in ElementDecl, Depth(s)
  PROVE  RoleStep(s, element(s, tok))
BY ElementRows DEF element, ElementDecl

LEMMA TokenStep ==
  ASSUME NEW s \in PrologStates, NEW tok, Depth(s)
  PROVE  RoleStep(s, XmlTokenRole(s, tok))
<1> DEFINE h == s.handler
<1>1. CASE tok = "S"
  BY <1>1, SpaceStep DEF XmlTokenRole
<1>2. CASE tok # "S" /\ h \in ElementDecl
  BY <1>2, ElementStep DEF XmlTokenRole, ElementDecl, Prolog, Doctype, EntityDecl, AttlistDecl,
     NotationDecl
<1>3. CASE tok # "S" /\ h \notin ElementDecl
  <2>1. h \in Handlers /\ h \notin ElementDecl \ {"element0"}
    BY <1>3 DEF PrologStates, ElementDecl
  <2>2. Outside(XmlTokenRole(s, tok))
    <3>1. CASE h \in Prolog
      <4>1. XmlTokenRole(s, tok) = prolog(s, tok)
        BY <1>3, <3>1 DEF XmlTokenRole, Prolog, Doctype, Subset, EntityDecl, NotationDecl, AttlistDecl,
         ElementDecl
      <4> QED
        BY <3>1, <4>1, PrologOutside
    <3>2. CASE h \in Doctype
      <4>1. XmlTokenRole(s, tok) = doctype(s, tok)
        BY <1>3, <3>2 DEF XmlTokenRole, Prolog, Doctype, Subset, EntityDecl, NotationDecl, AttlistDecl,
         ElementDecl
      <4> QED
        BY <3>2, <4>1, DoctypeOutside
    <3>3. CASE h \in EntityDecl
      <4>1. XmlTokenRole(s, tok) = entity(s, tok)
        BY <1>3, <3>3 DEF XmlTokenRole, Prolog, Doctype, Subset, EntityDecl, NotationDecl, AttlistDecl,
         ElementDecl
      <4> QED
        BY <3>3, <4>1, EntityOutside
    <3>4. CASE h \in NotationDecl
      <4>1. XmlTokenRole(s, tok) = notation(s, tok)
        BY <1>3, <3>4 DEF XmlTokenRole, Prolog, Doctype, Subset, EntityDecl, NotationDecl, AttlistDecl,
         ElementDecl
      <4> QED
        BY <3>4, <4>1, NotationOutside
    <3>5. CASE h \in AttlistDecl
      <4>1. XmlTokenRole(s, tok) = attlist(s, tok)
        BY <1>3, <3>5 DEF XmlTokenRole, Prolog, Doctype, Subset, EntityDecl, NotationDecl, AttlistDecl,
         ElementDecl
      <4> QED
        BY <3>5, <4>1, AttlistOutside
    <3>6. CASE h = "internalSubset"
      <4>1. XmlTokenRole(s, tok) = internalSubset(s, tok)
        BY <1>3, <3>6 DEF XmlTokenRole, Prolog, Doctype, Subset, EntityDecl, NotationDecl, AttlistDecl,
         ElementDecl
      <4> QED
        BY <3>6, <4>1, SubsetOutside, ExternalSubsetOutside DEF Subset
    <3>7. CASE h = "externalSubset0"
      <4>1. XmlTokenRole(s, tok) = externalSubset0(s, tok)
        BY <1>3, <3>7 DEF XmlTokenRole, Prolog, Doctype, Subset, EntityDecl, NotationDecl, AttlistDecl,
         ElementDecl
      <4> QED
        BY <3>7, <4>1, SubsetOutside, ExternalSubsetOutside DEF Subset
    <3>8. CASE h = "externalSubset1"
      <4>1. XmlTokenRole(s, tok) = externalSubset1(s, tok)
        BY <1>3, <3>8 DEF XmlTokenRole, Prolog, Doctype, Subset, EntityDecl, NotationDecl, AttlistDecl,
         ElementDecl
      <4> QED
        BY <3>8, <4>1, SubsetOutside, ExternalSubsetOutside DEF Subset
    <3>9. CASE h = "declClose"
      <4>1. XmlTokenRole(s, tok) = declClose(s, tok)
        BY <1>3, <3>9 DEF XmlTokenRole, Prolog, Doctype, Subset, EntityDecl, NotationDecl, AttlistDecl,
         ElementDecl
      <4> QED
        BY <3>9, <4>1, CloseOutside
    <3>10. CASE h = "error"
      <4>1. XmlTokenRole(s, tok) = Stay(s, "NONE")
        BY <1>3, <3>10 DEF XmlTokenRole, Prolog, Doctype, Subset, EntityDecl, NotationDecl, AttlistDecl,
         ElementDecl
      <4> QED
        BY <3>10, <4>1, CloseOutside
    <3>11. CASE h \in {"condSect0", "condSect1", "condSect2"}
      <4>1. XmlTokenRole(s, tok) = condSect(s, tok)
        BY <1>3, <3>11 DEF XmlTokenRole, Prolog, Doctype, Subset, EntityDecl, NotationDecl, AttlistDecl,
         ElementDecl
      <4> QED
        BY <3>11, <4>1, SubsetOutside DEF Subset
    <3> QED
      BY <1>3, <2>1, <3>1, <3>2, <3>3, <3>4, <3>5, <3>6, <3>7, <3>8, <3>9, <3>10, <3>11 DEF Handlers, Subset
  <2> QED
    BY <2>1, <2>2, OutsideSteps
<1> QED
  BY <1>1, <1>2, <1>3

-----------------------------------------------------------------------------
(* The scaffold.                                                             *)
(* A table that has grown keeps its entries.                                 *)
LEMMA GrowKeeps ==
  ASSUME NEW S, NEW m \in Nat, NEW n \in Nat, NEW table \in [0..m - 1 -> S], NEW filler \in S
  PROVE  /\ Grow(table, n, filler) \in [0..n - 1 -> S]
         /\ \A i \in 0..n - 1 : i < m => Grow(table, n, filler)[i] = table[i]
BY DEF Grow

LEMMA AdoptType ==
  ASSUME NEW node \in Node, NEW child \in Nat
  PROVE  Adopt(node, child) \in Node /\ Adopt(node, child).lastchild = child
<1> DEFINE first == IF node.childcnt = 0 THEN child ELSE node.firstchild
           n1 == [node EXCEPT !.firstchild = first]
           n2 == [n1 EXCEPT !.lastchild = child]
           n3 == [n2 EXCEPT !.childcnt = node.childcnt + 1]
<1>1. first \in Nat /\ node.childcnt + 1 \in Nat
  BY DEF Node
<1> HIDE DEF first
<1>2. n1 \in Node /\ n1.childcnt = node.childcnt
  BY <1>1 DEF Node
<1> HIDE DEF n1
<1>3. n2 \in Node /\ n2.childcnt = node.childcnt /\ n2.lastchild = child
  BY <1>2 DEF Node
<1> HIDE DEF n2
<1>4. n3 \in Node /\ n3.lastchild = child
  BY <1>1, <1>3 DEF Node
<1>5. Adopt(node, child) = n3
  BY DEF Adopt, n3, n2, n1, first
<1> QED
  BY <1>4, <1>5

LEMMA LinkChildLinks ==
  ASSUME NEW size \in Nat, NEW nodes \in [0..size - 1 -> Node], NEW next \in 0..size - 1,
         Linked(nodes, next), NEW parent \in 0..next - 1
  PROVE  /\ LinkChild(nodes, parent, next) \in [0..size - 1 -> Node]
         /\ \A i \in 0..next - 1 : LinkChild(nodes, parent, next)[i].lastchild \in 0..next
<1> DEFINE last == nodes[parent].lastchild
           siblings == IF last = 0 THEN nodes ELSE [nodes EXCEPT ![last].nextsib = next]
<1>1. last \in 0..next - 1 /\ last \in 0..size - 1 /\ parent \in 0..size - 1 /\ next \in Nat
  BY DEF Linked
<1>2. \A n \in Node, x \in Nat : [n EXCEPT !.nextsib = x] \in Node
  BY DEF Node
<1>3. siblings \in [0..size - 1 -> Node]
  BY <1>1, <1>2
<1>4. \A i \in 0..next - 1 : siblings[i].lastchild \in 0..next - 1
  <2>1. \A i \in 0..next - 1 : nodes[i].lastchild \in 0..next - 1 /\ nodes[i] \in Node
    BY DEF Linked
  <2>2. \A n \in Node, x \in Nat : [n EXCEPT !.nextsib = x].lastchild = n.lastchild
    BY DEF Node
  <2>3. nodes[last] \in Node
    BY <1>1
  <2>4. last # 0 => siblings[last].lastchild = nodes[last].lastchild
    BY <1>1, <2>2, <2>3
  <2>5. \A i \in 0..next - 1 : i # last => siblings[i] = nodes[i]
    BY <1>1
  <2>6. last = 0 => siblings = nodes
    OBVIOUS
  <2> HIDE DEF siblings
  <2> QED
    BY <1>1, <2>1, <2>4, <2>5, <2>6
<1> HIDE DEF siblings
<1>5. siblings[parent] \in Node
  BY <1>1, <1>3
<1>6. /\ Adopt(siblings[parent], next) \in Node
      /\ Adopt(siblings[parent], next).lastchild = next
  BY <1>1, <1>5, AdoptType
<1>7. LinkChild(nodes, parent, next) = [siblings EXCEPT ![parent] = Adopt(siblings[parent], next)]
  BY DEF LinkChild, siblings
<1> QED
  BY <1>1, <1>3, <1>4, <1>6, <1>7

LEMMA NewNodeLinks ==
  ASSUME NEW size \in Nat, NEW nodes \in [0..size - 1 -> Node], NEW next \in 0..size - 1,
         \A i \in 0..next - 1 : nodes[i].lastchild \in 0..next
  PROVE  /\ NewNode(nodes, next) \in [0..size - 1 -> Node]
         /\ Linked(NewNode(nodes, next), next + 1)
<1> DEFINE new == [nodes[next] EXCEPT !.firstchild = 0, !.lastchild = 0, !.childcnt = 0, !.nextsib = 0]
<1>1. new \in Node /\ new.lastchild = 0
  BY DEF Node
<1>2. NewNode(nodes, next) = [nodes EXCEPT ![next] = new]
  BY DEF NewNode
<1> HIDE DEF new
<1> QED
  BY <1>1, <1>2 DEF Linked

LEMMA NextScaffoldPart ==
  ASSUME NEW d, DtdType(d), Linked(d.scaffold, d.scaffCount), NEW size \in Nat, size > 1,
         d.scaffLevel > 0 =>
           /\ d.scaffLevel - 1 \in DOMAIN IndexTable(d, size)
           /\ IndexTable(d, size)[d.scaffLevel - 1] \in 0..d.scaffCount - 1
  PROVE  LET r == nextScaffoldPart(d, size)
         IN  /\ DtdType(r) /\ Linked(r.scaffold, r.scaffCount)
             /\ r.scaffCount = d.scaffCount + 1
             /\ r.scaffIndex = IndexTable(d, size)
             /\ r.scaffLevel = d.scaffLevel /\ r.in_eldecl = d.in_eldecl
             /\ r.contentStringLen = d.contentStringLen
<1> DEFINE index == IndexTable(d, size)
           n == ScaffoldSize(d)
           nodes == Grow(d.scaffold, n, Garbage)
           next == d.scaffCount
           linked == IF d.scaffLevel = 0 THEN nodes
                     ELSE LinkChild(nodes, index[d.scaffLevel - 1], next)
           all == NewNode(linked, next)
<1>1. /\ next \in Nat /\ d.scaffSize \in Nat /\ d.scaffLevel \in Nat /\ next <= d.scaffSize
      /\ d.scaffold \in [0..d.scaffSize - 1 -> Node]
  BY DEF DtdType
<1>2. n \in Nat /\ n > next /\ n >= d.scaffSize
  BY <1>1, ContentModelAssumption DEF ScaffoldSize
<1>3. Garbage \in Node
  BY DEF Garbage, Node, Types, Quants
<1> HIDE DEF n, index
<1>4. nodes \in [0..n - 1 -> Node] /\ \A i \in 0..next - 1 : nodes[i] = d.scaffold[i]
  <2>1. nodes \in [0..n - 1 -> Node]
    BY <1>1, <1>2, <1>3, GrowKeeps
  <2>2. \A i \in 0..n - 1 : i < d.scaffSize => nodes[i] = d.scaffold[i]
    BY <1>1 DEF Grow
  <2> HIDE DEF nodes
  <2> QED
    BY <1>1, <1>2, <2>1, <2>2
<1> HIDE DEF nodes
<1>5. Linked(nodes, next)
  BY <1>1, <1>4 DEF Linked
<1>6. next \in 0..n - 1
  BY <1>1, <1>2
<1>7. /\ linked \in [0..n - 1 -> Node]
      /\ \A i \in 0..next - 1 : linked[i].lastchild \in 0..next
  <2>1. CASE d.scaffLevel = 0
    BY <2>1, <1>1, <1>4, <1>5 DEF Linked
  <2>2. CASE d.scaffLevel # 0
    <3>1. index[d.scaffLevel - 1] \in 0..next - 1
      BY <2>2, <1>1 DEF index
    <3> QED
      BY <2>2, <3>1, <1>2, <1>4, <1>5, <1>6, LinkChildLinks
  <2> QED
    BY <2>1, <2>2
<1> HIDE DEF linked
<1>8. all \in [0..n - 1 -> Node] /\ Linked(all, next + 1)
  BY <1>2, <1>6, <1>7, NewNodeLinks
<1>9. index \in [DOMAIN index -> Int]
  BY ContentModelAssumption DEF index, IndexTable, DtdType, Undefined, IsNULL
<1> DEFINE r == [d EXCEPT !.scaffIndex = index, !.scaffSize = n, !.scaffold = all,
                          !.scaffCount = next + 1]
<1>10. nextScaffoldPart(d, size) = r
  BY DEF nextScaffoldPart, index, n, nodes, linked, all
<1> HIDE DEF all
<1>11. /\ r.in_eldecl = d.in_eldecl /\ r.scaffold = all /\ r.scaffSize = n /\ r.scaffCount = next + 1
       /\ r.scaffLevel = d.scaffLevel /\ r.scaffIndex = index
       /\ r.contentStringLen = d.contentStringLen /\ DOMAIN r = DOMAIN d
  BY DEF DtdType, NoScaffold
<1> HIDE DEF r
<1>12. DtdType(r)
  <2>1. next + 1 \in Nat /\ next + 1 <= n
    BY <1>1, <1>2
  <2> HIDE DEF next
  <2> QED
    BY <1>1, <1>2, <1>8, <1>9, <1>11, <2>1 DEF DtdType
<1> QED
  BY <1>8, <1>10, <1>11, <1>12 DEF index

(* A node's type, quantifier and name can be set without unlinking it.       *)
LEMMA NodeFields ==
  ASSUME NEW n \in Node
  PROVE  /\ \A x \in Types : [n EXCEPT !.type = x] \in Node /\ [n EXCEPT !.type = x].lastchild = n.lastchild
         /\ \A x \in Quants : [n EXCEPT !.quant = x] \in Node /\ [n EXCEPT !.quant = x].lastchild = n.lastchild
         /\ \A x \in Elements : [n EXCEPT !.name = x] \in Node /\ [n EXCEPT !.name = x].lastchild = n.lastchild
BY DEF Node

LEMMA SetNode ==
  ASSUME NEW d, DtdType(d), NEW i \in 0..d.scaffSize - 1, NEW n \in Node,
         n.lastchild = d.scaffold[i].lastchild
  PROVE  LET r == [d EXCEPT !.scaffold = [d.scaffold EXCEPT ![i] = n]]
         IN  /\ DtdType(r) /\ r.in_eldecl = d.in_eldecl
             /\ r.scaffSize = d.scaffSize /\ r.scaffCount = d.scaffCount
             /\ r.scaffLevel = d.scaffLevel /\ r.scaffIndex = d.scaffIndex
             /\ r.contentStringLen = d.contentStringLen
             /\ r.scaffold[i] = n
             /\ Linked(d.scaffold, d.scaffCount) => Linked(r.scaffold, r.scaffCount)
<1> DEFINE nodes == [d.scaffold EXCEPT ![i] = n]
           r == [d EXCEPT !.scaffold = nodes]
<1>1. nodes \in [0..d.scaffSize - 1 -> Node] /\ nodes[i] = n
  BY DEF DtdType
<1>2. \A j \in 0..d.scaffSize - 1 : nodes[j].lastchild = d.scaffold[j].lastchild
  BY DEF DtdType
<1>3. d.scaffSize \in Nat /\ d.scaffCount \in Nat /\ d.scaffCount <= d.scaffSize
  BY DEF DtdType
<1>4. Linked(d.scaffold, d.scaffCount) => Linked(nodes, d.scaffCount)
  BY <1>2, <1>3 DEF Linked
<1> HIDE DEF nodes
<1>5. /\ r.in_eldecl = d.in_eldecl /\ r.scaffold = nodes /\ r.scaffSize = d.scaffSize
      /\ r.scaffCount = d.scaffCount /\ r.scaffLevel = d.scaffLevel /\ r.scaffIndex = d.scaffIndex
      /\ r.contentStringLen = d.contentStringLen /\ DOMAIN r = DOMAIN d
  BY DEF DtdType, NoScaffold
<1> HIDE DEF r
<1>6. DtdType(r)
  BY <1>1, <1>5 DEF DtdType
<1> QED
  BY <1>1, <1>4, <1>5, <1>6 DEF r, nodes

LEMMA ExceptType ==
  ASSUME NEW D, NEW S, NEW f \in [D -> S], NEW x, NEW v \in S
  PROVE  [f EXCEPT ![x] = v] \in [D -> S]
OBVIOUS

(* A group is opened, a name added, a group closed.                          *)
LEMMA OpenGroupType ==
  ASSUME NEW d, DtdType(d), Linked(d.scaffold, d.scaffCount), NEW size \in Nat, size > 1,
         d.scaffLevel > 0 =>
           /\ d.scaffLevel - 1 \in DOMAIN IndexTable(d, size)
           /\ IndexTable(d, size)[d.scaffLevel - 1] \in 0..d.scaffCount - 1
  PROVE  LET r == OpenGroup(d, size)
         IN  /\ DtdType(r) /\ Linked(r.scaffold, r.scaffCount)
             /\ r.scaffCount = d.scaffCount + 1
             /\ r.scaffIndex = [IndexTable(d, size) EXCEPT ![d.scaffLevel] = d.scaffCount]
             /\ r.scaffLevel = d.scaffLevel + 1 /\ r.in_eldecl = d.in_eldecl
<1> DEFINE s == nextScaffoldPart(d, size)
           k == d.scaffCount
           n == [s.scaffold[k] EXCEPT !.type = "SEQ"]
           nodes == [s.scaffold EXCEPT ![k] = n]
           s1 == [s EXCEPT !.scaffold = nodes]
           index == [s.scaffIndex EXCEPT ![d.scaffLevel] = k]
           r == [s EXCEPT !.scaffIndex = index, !.scaffLevel = d.scaffLevel + 1, !.scaffold = nodes]
<1>1. /\ DtdType(s) /\ Linked(s.scaffold, s.scaffCount)
      /\ s.scaffCount = k + 1 /\ s.scaffIndex = IndexTable(d, size)
      /\ s.scaffLevel = d.scaffLevel /\ s.in_eldecl = d.in_eldecl
  BY NextScaffoldPart
<1>2. k \in Nat /\ d.scaffLevel \in Nat
  BY DEF DtdType
<1> HIDE DEF s, k
<1>3. k \in 0..s.scaffSize - 1 /\ s.scaffold[k] \in Node
  <2>1. /\ s.scaffSize \in Nat /\ s.scaffCount <= s.scaffSize
        /\ s.scaffold \in [0..s.scaffSize - 1 -> Node]
    BY <1>1 DEF DtdType
  <2>2. k \in 0..s.scaffSize - 1
    BY <1>1, <1>2, <2>1
  <2> QED
    BY <2>1, <2>2
<1>4. n \in Node /\ n.lastchild = s.scaffold[k].lastchild
  BY <1>3, NodeFields DEF Types
<1> HIDE DEF n
<1>5. /\ DtdType(s1) /\ Linked(s1.scaffold, s1.scaffCount) /\ s1.scaffCount = s.scaffCount
      /\ s1.scaffSize = s.scaffSize
  BY <1>1, <1>3, <1>4, SetNode
<1>6. s1.scaffold = nodes
  BY <1>1 DEF DtdType, NoScaffold
<1>7. index \in [DOMAIN index -> Int]
  <2> DEFINE D == DOMAIN s.scaffIndex
  <2>1. s.scaffIndex \in [D -> Int]
    BY <1>1 DEF DtdType
  <2> HIDE DEF D
  <2>2. index \in [D -> Int]
    BY <1>2, <2>1, ExceptType
  <2> QED
    BY <2>2
<1> HIDE DEF nodes, s1, index
<1>8. /\ r.in_eldecl = s.in_eldecl /\ r.scaffold = nodes /\ r.scaffSize = s.scaffSize
      /\ r.scaffCount = s.scaffCount /\ r.scaffLevel = d.scaffLevel + 1 /\ r.scaffIndex = index
      /\ r.contentStringLen = s.contentStringLen /\ DOMAIN r = DOMAIN s
  BY <1>1 DEF DtdType, NoScaffold
<1> HIDE DEF r
<1>9. DtdType(r)
  <2>1. /\ s.in_eldecl \in BOOLEAN /\ s.scaffSize \in Nat /\ s.scaffCount \in Nat
        /\ s.contentStringLen \in Nat /\ s.scaffCount <= s.scaffSize
        /\ DOMAIN s = DOMAIN NoScaffold
    BY <1>1 DEF DtdType
  <2>2. nodes \in [0..s.scaffSize - 1 -> Node]
    BY <1>5, <1>6 DEF DtdType
  <2>3. d.scaffLevel + 1 \in Nat
    BY <1>2
  <2> QED
    BY <1>7, <1>8, <2>1, <2>2, <2>3 DEF DtdType
<1>10. OpenGroup(d, size) = r
  BY <1>1 DEF OpenGroup, r, nodes, n, index, s, k
<1> QED
  BY <1>1, <1>5, <1>6, <1>8, <1>9, <1>10 DEF index, k

LEMMA AddNameType ==
  ASSUME NEW d, DtdType(d), Linked(d.scaffold, d.scaffCount), groupSize \in Nat, groupSize > 1,
         d.scaffLevel > 0 =>
           /\ d.scaffLevel - 1 \in DOMAIN IndexTable(d, groupSize)
           /\ IndexTable(d, groupSize)[d.scaffLevel - 1] \in 0..d.scaffCount - 1,
         NEW quant \in Quants, NEW x \in Elements
  PROVE  /\ DtdType(AddUnnamed(d, quant))
         /\ LET r == AddName(d, x, quant)
            IN  /\ DtdType(r) /\ Linked(r.scaffold, r.scaffCount)
                /\ r.scaffCount = d.scaffCount + 1
                /\ r.scaffIndex = IndexTable(d, groupSize)
                /\ r.scaffLevel = d.scaffLevel /\ r.in_eldecl = d.in_eldecl
<1> DEFINE s == nextScaffoldPart(d, groupSize)
           k == d.scaffCount
           n1 == [s.scaffold[k] EXCEPT !.type = "NAME"]
           n2 == [n1 EXCEPT !.quant = quant]
           s2 == [s EXCEPT !.scaffold = [s.scaffold EXCEPT ![k] = n2]]
           n3 == [n2 EXCEPT !.name = x]
           s3 == [s2 EXCEPT !.scaffold = [s2.scaffold EXCEPT ![k] = n3]]
           r == [s3 EXCEPT !.contentStringLen = s.contentStringLen + NameLength[x]]
<1>1. /\ DtdType(s) /\ Linked(s.scaffold, s.scaffCount)
      /\ s.scaffCount = k + 1 /\ s.scaffIndex = IndexTable(d, groupSize)
      /\ s.scaffLevel = d.scaffLevel /\ s.in_eldecl = d.in_eldecl
  BY NextScaffoldPart
<1>2. AddUnnamed(d, quant) = s2
  BY DEF AddUnnamed
<1>3. k \in Nat
  BY DEF DtdType
<1> HIDE DEF s, k
<1>4. k \in 0..s.scaffSize - 1 /\ s.scaffold[k] \in Node
  <2>1. /\ s.scaffSize \in Nat /\ s.scaffCount <= s.scaffSize
        /\ s.scaffold \in [0..s.scaffSize - 1 -> Node]
    BY <1>1 DEF DtdType
  <2>2. k \in 0..s.scaffSize - 1
    BY <1>1, <1>3, <2>1
  <2> QED
    BY <2>1, <2>2
<1>5. n1 \in Node /\ n1.lastchild = s.scaffold[k].lastchild
  BY <1>4, NodeFields DEF Types
<1> HIDE DEF n1
<1>6. n2 \in Node /\ n2.lastchild = s.scaffold[k].lastchild
  BY <1>5, NodeFields
<1> HIDE DEF n2
<1>7. /\ DtdType(s2) /\ Linked(s2.scaffold, s2.scaffCount) /\ s2.scaffCount = s.scaffCount
      /\ s2.scaffSize = s.scaffSize /\ s2.scaffold[k] = n2 /\ s2.in_eldecl = s.in_eldecl
      /\ s2.scaffLevel = s.scaffLevel /\ s2.scaffIndex = s.scaffIndex
      /\ s2.contentStringLen = s.contentStringLen
  BY <1>1, <1>4, <1>6, SetNode
<1>8. AddName(d, x, quant) = r
  BY <1>2, <1>7 DEF AddName, k
<1> HIDE DEF s2
<1>9. n3 \in Node /\ n3.lastchild = s2.scaffold[k].lastchild
  BY <1>6, <1>7, NodeFields
<1> HIDE DEF n3
<1>10. /\ DtdType(s3) /\ Linked(s3.scaffold, s3.scaffCount) /\ s3.scaffCount = s.scaffCount
       /\ s3.in_eldecl = s.in_eldecl
       /\ s3.scaffLevel = s.scaffLevel /\ s3.scaffIndex = s.scaffIndex
  BY <1>4, <1>7, <1>9, SetNode
<1> HIDE DEF s3
<1>11. s.contentStringLen + NameLength[x] \in Nat
  <2>1. s.contentStringLen \in Nat
    BY <1>1 DEF DtdType
  <2>2. NameLength[x] \in Nat
    BY ContentModelAssumption
  <2> QED
    BY <2>1, <2>2
<1>12. /\ r.in_eldecl = s3.in_eldecl /\ r.scaffold = s3.scaffold /\ r.scaffSize = s3.scaffSize
       /\ r.scaffCount = s3.scaffCount /\ r.scaffLevel = s3.scaffLevel
       /\ r.scaffIndex = s3.scaffIndex
       /\ r.contentStringLen = s.contentStringLen + NameLength[x] /\ DOMAIN r = DOMAIN s3
  BY <1>10 DEF DtdType, NoScaffold
<1> HIDE DEF r
<1>13. DtdType(r)
  BY <1>10, <1>11, <1>12 DEF DtdType
<1> QED
  BY <1>1, <1>2, <1>7, <1>8, <1>10, <1>12, <1>13 DEF k

-----------------------------------------------------------------------------
(* A token is read: what holds before it, and its row of the automaton.      *)
Before(t, r) ==
  /\ TypeOK /\ groupSize # 1 /\ TablesInStep /\ GroupsOpen /\ Collected
  /\ error = "NONE"
  /\ r = XmlTokenRole(state, t.k) /\ r.role = Role(t) /\ state' = r.state
  /\ RoleStep(state, r)
  /\ t.n \in Elements
  /\ elementDeclHandler' = elementDeclHandler

LEMMA TokenRead ==
  ASSUME IndInv, NEW t \in Tokens, Reads(t)
  PROVE  Before(t, XmlTokenRole(state, t.k))
<1>1. /\ TypeOK /\ groupSize # 1 /\ TablesInStep /\ GroupsOpen /\ Collected
      /\ error = "NONE" /\ state' = XmlTokenRole(state, t.k).state
      /\ elementDeclHandler' = elementDeclHandler
  BY DEF IndInv, Reads
<1>2. t.n \in Elements
  BY ContentModelAssumption
<1>3. Depth(state)
  BY <1>1 DEF GroupsOpen, Depth, InGroup, Groups, Flat, Deep, ElementDecl, TypeOK, PrologStates
<1>4. RoleStep(state, XmlTokenRole(state, t.k))
  BY <1>1, <1>3, TokenStep DEF TypeOK
<1> QED
  BY <1>1, <1>2, <1>4 DEF Before, Role

(* When a token ends the parse, the types are all that matters.              *)
LEMMA Failed ==
  ASSUME TypeOK, groupSize # 1, state' \in PrologStates, elementDeclHandler' = elementDeclHandler,
         error' \in {"NO_MEMORY", "SYNTAX", "PARAM_ENTITY_REF", "MISPLACED_XML_PI"},
         declElementType' \in Elements \cup {"-"},
         groupSize' \in Nat, groupSize' # 1,
         groupConnector' \in [0..groupSize' - 1 -> {"undefined", "none", "comma", "pipe"}],
         DtdType(dtd')
  PROVE  IndInv'
BY DEF IndInv, TypeOK, DtdType, Node, NoScaffold

LEMMA RefuseStep ==
  ASSUME IndInv, NEW t \in Tokens, Refuse(t)
  PROVE  IndInv'
<1>1. Before(t, XmlTokenRole(state, t.k))
  BY TokenRead DEF Refuse
<1>2. state' \in PrologStates
  BY <1>1 DEF Before, RoleStep
<1> QED
  BY <1>1, <1>2, Failed DEF Refuse, Fail, Before, TypeOK, group

(* A token that changes none of the tables, nor the depth.                   *)
LEMMA Unaffected ==
  ASSUME NEW t, NEW r, Before(t, r), r.role \notin ElementRoles \cup {"ERROR"},
         error' = "NONE", declElementType' \in Elements \cup {"-"}, UNCHANGED <<group, dtd>>
  PROVE  IndInv'
<1>1. /\ state' \in PrologStates
      /\ \/ /\ state.handler \notin ElementDecl \ {"element0"}
            /\ state'.handler \notin ElementDecl \ {"element0"}
         \/ state'.handler = state.handler /\ state'.level = state.level
         \/ state.handler \in Flat /\ state'.handler \in Flat /\ state'.level = state.level
  BY DEF Before, RoleStep
<1>2. /\ TypeOK /\ groupSize # 1 /\ TablesInStep /\ GroupsOpen /\ Collected
      /\ elementDeclHandler' = elementDeclHandler
  BY DEF Before
<1>3. groupSize' = groupSize /\ groupConnector' = groupConnector /\ dtd' = dtd
  BY DEF group
<1>4. TypeOK' /\ groupSize' # 1 /\ TablesInStep'
  BY <1>1, <1>2, <1>3 DEF TypeOK, TablesInStep, DtdType, NoScaffold, Node
<1>5. CASE /\ state.handler \notin ElementDecl \ {"element0"}
           /\ state'.handler \notin ElementDecl \ {"element0"}
  <2>1. GroupsOpen' /\ Collected'
    BY <1>2, <1>3, <1>5 DEF GroupsOpen, Collected, InGroup, InDeclaration
  <2> QED
    BY <1>4, <2>1 DEF IndInv
<1>6. CASE state'.handler = state.handler /\ state'.level = state.level
  <2>1. GroupsOpen' /\ Collected'
    BY <1>2, <1>3, <1>6 DEF GroupsOpen, Collected, InGroup, InDeclaration, Linked, IsNULL
  <2> QED
    BY <1>4, <2>1 DEF IndInv
<1>7. CASE state.handler \in Flat /\ state'.handler \in Flat /\ state'.level = state.level
  <2>1. InGroup /\ InGroup' /\ InDeclaration' /\ state'.handler # "element1"
    BY <1>7 DEF InGroup, InDeclaration, Flat, ElementDecl
  <2>2. state.level = 1
    BY <1>2, <1>7, <2>1 DEF GroupsOpen, Flat
  <2>3. GroupsOpen'
    BY <1>2, <1>3, <1>7, <2>1, <2>2 DEF GroupsOpen
  <2>4. Collected'
    BY <1>2, <1>3, <1>7, <2>1 DEF Collected, Linked, IsNULL
  <2> QED
    BY <1>4, <2>3, <2>4 DEF IndInv
<1> QED
  BY <1>1, <1>5, <1>6, <1>7

LEMMA OtherStep ==
  ASSUME IndInv, NEW t \in Tokens, Other(t)
  PROVE  IndInv'
<1>1. Before(t, XmlTokenRole(state, t.k))
  BY TokenRead DEF Other
<1>2. XmlTokenRole(state, t.k).role \notin ElementRoles \cup {"ERROR"}
  BY DEF Other, Role
<1>3. error' = "NONE" /\ declElementType' \in Elements \cup {"-"}
  BY <1>1 DEF Other, Before, TypeOK
<1> QED
  BY <1>1, <1>2, <1>3, Unaffected DEF Other

LEMMA AttlistElementNameStep ==
  ASSUME IndInv, NEW t \in Tokens, AttlistElementName(t)
  PROVE  IndInv'
<1>1. Before(t, XmlTokenRole(state, t.k))
  BY TokenRead DEF AttlistElementName
<1>2. XmlTokenRole(state, t.k).role \notin ElementRoles \cup {"ERROR"}
  BY DEF AttlistElementName, Role, ElementRoles
<1>3. state' \in PrologStates
  BY <1>1 DEF Before, RoleStep
<1>4. CASE error' = "NO_MEMORY" /\ declElementType' = "-"
  BY <1>1, <1>3, <1>4, Failed DEF AttlistElementName, Before, TypeOK, group
<1>5. CASE declElementType' = t.n /\ UNCHANGED error
  BY <1>1, <1>2, <1>5, Unaffected DEF AttlistElementName, Before
<1> QED
  BY <1>4, <1>5 DEF AttlistElementName

LEMMA ElementNameStep ==
  ASSUME IndInv, NEW t \in Tokens, ElementName(t)
  PROVE  IndInv'
<1> DEFINE r == XmlTokenRole(state, t.k)
<1>1. Before(t, r)
  BY TokenRead DEF ElementName
<1>2. /\ state' \in PrologStates /\ state.handler = "element0" /\ state'.handler = "element1"
  BY <1>1 DEF ElementName, Before, RoleStep
<1>3. ~InDeclaration /\ ~InGroup' /\ InDeclaration'
  BY <1>2 DEF InDeclaration, InGroup, ElementDecl
<1>4. ~dtd.in_eldecl
  BY <1>1, <1>3 DEF Before, Collected
<1>5. groupSize' = groupSize /\ groupConnector' = groupConnector
  BY DEF ElementName, group
<1>6. CASE UNCHANGED <<error, declElementType, dtd>>
  BY <1>1, <1>2, <1>3, <1>4, <1>5, <1>6 DEF Before, IndInv, TypeOK, TablesInStep, GroupsOpen,
     Collected, DtdType, NoScaffold, Node
<1>7. CASE error' = "NO_MEMORY" /\ declElementType' = "-" /\ UNCHANGED dtd
  BY <1>1, <1>2, <1>5, <1>7, Failed DEF Before, TypeOK
<1>8. CASE /\ declElementType' = t.n
           /\ dtd' = [dtd EXCEPT !.scaffLevel = 0, !.scaffCount = 0, !.in_eldecl = TRUE]
           /\ UNCHANGED error
  <2>1. /\ DtdType(dtd') /\ dtd'.scaffIndex = dtd.scaffIndex /\ dtd'.scaffLevel = 0
        /\ dtd'.scaffCount = 0
    BY <1>1, <1>8 DEF Before, TypeOK, DtdType, NoScaffold
  <2>2. Collected'
    BY <1>3, <2>1 DEF Collected
  <2>3. TablesInStep'
    BY <1>1, <1>5, <2>1 DEF Before, TablesInStep, IsNULL
  <2>4. TypeOK'
    BY <1>1, <1>2, <1>5, <1>8, <2>1 DEF Before, TypeOK, DtdType, NoScaffold, Node
  <2> QED
    BY <1>1, <1>3, <1>5, <2>2, <2>3, <2>4 DEF Before, IndInv, GroupsOpen
<1> QED
  BY <1>6, <1>7, <1>8 DEF ElementName

LEMMA ContentAnyOrEmptyStep ==
  ASSUME IndInv, NEW t \in Tokens, ContentAnyOrEmpty(t)
  PROVE  IndInv'
<1> DEFINE r == XmlTokenRole(state, t.k)
<1>1. Before(t, r)
  BY TokenRead DEF ContentAnyOrEmpty
<1>2. /\ state' \in PrologStates /\ state'.handler = "declClose"
  BY <1>1 DEF ContentAnyOrEmpty, Before, RoleStep
<1>3. ~InGroup' /\ ~InDeclaration'
  BY <1>2 DEF InDeclaration, InGroup, ElementDecl
<1>4. groupSize' = groupSize /\ groupConnector' = groupConnector
  BY DEF ContentAnyOrEmpty, group
<1>5. CASE Fail("NO_MEMORY")
  BY <1>1, <1>2, <1>4, <1>5, Failed DEF Before, TypeOK, Fail
<1>6. CASE dtd' = [dtd EXCEPT !.in_eldecl = FALSE] /\ UNCHANGED <<error, declElementType, kept>>
  <2>1. DtdType(dtd') /\ dtd'.scaffIndex = dtd.scaffIndex /\ ~dtd'.in_eldecl
    BY <1>1, <1>6 DEF Before, TypeOK, DtdType, NoScaffold
  <2>2. TypeOK'
    BY <1>1, <1>2, <1>4, <1>6, <2>1 DEF Before, TypeOK, DtdType, NoScaffold, Node
  <2> QED
    BY <1>1, <1>3, <1>4, <2>1, <2>2 DEF Before, IndInv, GroupsOpen, Collected, TablesInStep, IsNULL
<1> QED
  BY <1>5, <1>6 DEF ContentAnyOrEmpty

(* A member or a connector: the groups stay as they are.                     *)
LEMMA GroupsKept ==
  ASSUME NEW t, NEW r, Before(t, r), InGroup, InGroup', state' \in PrologStates,
         state'.level = state.level,
         state'.handler \in Flat => state.handler \in Flat,
         error' = "NONE", declElementType' = declElementType, groupSize' = groupSize,
         groupConnector' \in [0..groupSize - 1 -> {"undefined", "none", "comma", "pipe"}],
         \A l \in 1..state.level : groupConnector[l] # "undefined" => groupConnector'[l] # "undefined",
         DtdType(dtd'), dtd'.in_eldecl = dtd.in_eldecl, dtd'.scaffIndex = dtd.scaffIndex,
         dtd'.scaffLevel = dtd.scaffLevel, dtd'.scaffCount >= dtd.scaffCount,
         dtd.in_eldecl => Linked(dtd'.scaffold, dtd'.scaffCount)
  PROVE  IndInv'
<1>1. /\ TypeOK /\ groupSize # 1 /\ TablesInStep /\ GroupsOpen /\ Collected
      /\ elementDeclHandler' = elementDeclHandler
  BY DEF Before
<1>2. TypeOK'
  BY <1>1 DEF TypeOK, DtdType, NoScaffold, Node
<1>3. TablesInStep'
  BY <1>1 DEF TablesInStep, IsNULL
<1>4. GroupsOpen'
  BY <1>1 DEF GroupsOpen, Flat
<1>5. Collected'
  <2>1. CASE ~dtd.in_eldecl
    BY <2>1 DEF Collected
  <2>2. CASE dtd.in_eldecl
    <3>1. InDeclaration' /\ state'.handler # "element1"
      BY DEF InGroup, InDeclaration, ElementDecl
    <3>2. /\ dtd.scaffLevel = state.level /\ ~IsNULL(dtd.scaffIndex)
          /\ \A l \in 0..dtd.scaffLevel - 1 : dtd.scaffIndex[l] \in 0..dtd.scaffCount - 1
      BY <1>1, <2>2 DEF Collected
    <3>3. dtd.scaffCount \in Nat /\ dtd'.scaffCount \in Nat
      BY <1>1 DEF TypeOK, DtdType
    <3>4. \A l \in 0..dtd'.scaffLevel - 1 : dtd'.scaffIndex[l] \in 0..dtd'.scaffCount - 1
      BY <3>2, <3>3
    <3> QED
      BY <2>2, <3>1, <3>2, <3>4 DEF Collected, IsNULL
  <2> QED
    BY <2>1, <2>2
<1> QED
  BY <1>1, <1>2, <1>3, <1>4, <1>5 DEF IndInv

(* The innermost open group has a node.                                      *)
LEMMA OpenGroupNode ==
  ASSUME NEW t, NEW r, Before(t, r), InGroup, dtd.in_eldecl
  PROVE  /\ OpenNode \in 0..dtd.scaffSize - 1 /\ dtd.scaffold[OpenNode] \in Node
         /\ OpenNode \in 0..dtd.scaffCount - 1
         /\ Linked(dtd.scaffold, dtd.scaffCount)
         /\ dtd.scaffLevel = state.level /\ dtd.scaffLevel \in Nat /\ dtd.scaffLevel > 0
         /\ ~IsNULL(dtd.scaffIndex) /\ DOMAIN dtd.scaffIndex = 0..groupSize - 1
         /\ dtd.scaffLevel - 1 \in 0..groupSize - 1
<1>1. /\ dtd.scaffLevel = state.level /\ ~IsNULL(dtd.scaffIndex)
      /\ \A l \in 0..dtd.scaffLevel - 1 : dtd.scaffIndex[l] \in 0..dtd.scaffCount - 1
      /\ Linked(dtd.scaffold, dtd.scaffCount)
  BY DEF Before, Collected
<1>2. state.level \in 1..groupSize - 1 /\ groupSize \in Nat /\ state.level \in Nat
  BY DEF Before, GroupsOpen, TypeOK, PrologStates
<1>3. dtd.scaffLevel - 1 \in 0..dtd.scaffLevel - 1
  BY <1>1, <1>2
<1>4. OpenNode \in 0..dtd.scaffCount - 1
  BY <1>1, <1>3 DEF OpenNode
<1>5. /\ dtd.scaffCount \in Nat /\ dtd.scaffSize \in Nat /\ dtd.scaffCount <= dtd.scaffSize
      /\ dtd.scaffold \in [0..dtd.scaffSize - 1 -> Node]
  BY DEF Before, TypeOK, DtdType
<1>6. OpenNode \in 0..dtd.scaffSize - 1
  BY <1>4, <1>5
<1>7. DOMAIN dtd.scaffIndex = 0..groupSize - 1
  BY <1>1 DEF Before, TablesInStep
<1> QED
  BY <1>1, <1>2, <1>4, <1>5, <1>6, <1>7

LEMMA GroupSequenceStep ==
  ASSUME IndInv, NEW t \in Tokens, GroupSequence(t)
  PROVE  IndInv'
<1> DEFINE r == XmlTokenRole(state, t.k)
<1>1. Before(t, r)
  BY TokenRead DEF GroupSequence
<1>2. /\ state' \in PrologStates /\ state.handler \in Groups
      /\ state'.handler = "element6" /\ state'.level = state.level
  BY <1>1 DEF GroupSequence, Before, RoleStep
<1>3. InGroup /\ InGroup'
  BY <1>2 DEF InGroup, ElementDecl, Groups, Flat, Deep
<1>4. groupSize' = groupSize
  BY DEF GroupSequence
<1>5. CASE Fail("SYNTAX") /\ UNCHANGED groupConnector
  BY <1>1, <1>2, <1>4, <1>5, Failed DEF Before, TypeOK, Fail
<1>6. CASE SetConnector("comma") /\ UNCHANGED <<error, declElementType, dtd, kept, delivered>>
  <2>1. groupConnector' \in [0..groupSize - 1 -> {"undefined", "none", "comma", "pipe"}]
    BY <1>1, <1>6 DEF Before, TypeOK, SetConnector
  <2>2. \A l \in 1..state.level : groupConnector[l] # "undefined" => groupConnector'[l] # "undefined"
    BY <1>1, <1>3, <1>6 DEF Before, TypeOK, GroupsOpen, SetConnector
  <2>3. dtd.in_eldecl => Linked(dtd.scaffold, dtd.scaffCount)
    BY <1>1, <1>3, OpenGroupNode
  <2>4. dtd' = dtd /\ error' = "NONE" /\ declElementType' = declElementType
    BY <1>1, <1>6 DEF Before
  <2>5. dtd.scaffCount \in Nat /\ DtdType(dtd)
    BY <1>1 DEF Before, TypeOK, DtdType
  <2> QED
    BY <1>1, <1>2, <1>3, <1>4, <2>1, <2>2, <2>3, <2>4, <2>5, GroupsKept DEF Flat, DtdType, NoScaffold,
       Node, Linked
<1> QED
  BY <1>5, <1>6 DEF GroupSequence

(* The type of the innermost group's node.                                   *)
LEMMA SetOpenType ==
  ASSUME NEW t, NEW r, Before(t, r), InGroup, dtd.in_eldecl, NEW type \in Types,
         dtd' = [dtd EXCEPT !.scaffold[OpenNode].type = type]
  PROVE  /\ DtdType(dtd') /\ dtd'.in_eldecl = dtd.in_eldecl /\ dtd'.scaffIndex = dtd.scaffIndex
         /\ dtd'.scaffLevel = dtd.scaffLevel /\ dtd'.scaffCount = dtd.scaffCount
         /\ Linked(dtd'.scaffold, dtd'.scaffCount)
<1> DEFINE n == [dtd.scaffold[OpenNode] EXCEPT !.type = type]
<1>1. /\ OpenNode \in 0..dtd.scaffSize - 1 /\ dtd.scaffold[OpenNode] \in Node
      /\ Linked(dtd.scaffold, dtd.scaffCount)
  BY OpenGroupNode
<1>2. dtd' = [dtd EXCEPT !.scaffold = [dtd.scaffold EXCEPT ![OpenNode] = n]]
  OBVIOUS
<1>3. n \in Node /\ n.lastchild = dtd.scaffold[OpenNode].lastchild
  BY <1>1, NodeFields
<1> HIDE DEF n
<1>4. DtdType(dtd)
  BY DEF Before, TypeOK
<1>5. \A d, i, m :
        /\ DtdType(d) /\ i \in 0..d.scaffSize - 1 /\ m \in Node
        /\ m.lastchild = d.scaffold[i].lastchild
        => LET e == [d EXCEPT !.scaffold = [d.scaffold EXCEPT ![i] = m]]
           IN  /\ DtdType(e) /\ e.in_eldecl = d.in_eldecl /\ e.scaffIndex = d.scaffIndex
               /\ e.scaffLevel = d.scaffLevel /\ e.scaffCount = d.scaffCount
               /\ Linked(d.scaffold, d.scaffCount) => Linked(e.scaffold, e.scaffCount)
  BY SetNode
<1>6. LET e == [dtd EXCEPT !.scaffold = [dtd.scaffold EXCEPT ![OpenNode] = n]]
      IN  /\ DtdType(e) /\ e.in_eldecl = dtd.in_eldecl /\ e.scaffIndex = dtd.scaffIndex
          /\ e.scaffLevel = dtd.scaffLevel /\ e.scaffCount = dtd.scaffCount
          /\ Linked(dtd.scaffold, dtd.scaffCount) => Linked(e.scaffold, e.scaffCount)
  BY <1>1, <1>3, <1>4, <1>5, Zenon
<1> DEFINE e == dtd'
<1>7. /\ DtdType(e) /\ e.in_eldecl = dtd.in_eldecl /\ e.scaffIndex = dtd.scaffIndex
      /\ e.scaffLevel = dtd.scaffLevel /\ e.scaffCount = dtd.scaffCount
      /\ Linked(e.scaffold, e.scaffCount)
  BY <1>1, <1>2, <1>6, Zenon
<1> QED
  BY <1>7 DEF DtdType, NoScaffold, Node, Linked

LEMMA GroupChoiceStep ==
  ASSUME IndInv, NEW t \in Tokens, GroupChoice(t)
  PROVE  IndInv'
<1> DEFINE r == XmlTokenRole(state, t.k)
<1>1. Before(t, r)
  BY TokenRead DEF GroupChoice
<1>2. /\ state' \in PrologStates /\ state.handler \in Groups
      /\ state'.handler = "element6" /\ state'.level = state.level
  BY <1>1 DEF GroupChoice, Before, RoleStep
<1>3. InGroup /\ InGroup'
  BY <1>2 DEF InGroup, ElementDecl, Groups, Flat, Deep
<1>4. groupSize' = groupSize
  BY DEF GroupChoice
<1>5. CASE Fail("SYNTAX") /\ UNCHANGED groupConnector
  BY <1>1, <1>2, <1>4, <1>5, Failed DEF Before, TypeOK, Fail
<1>6. CASE /\ SetConnector("pipe")
           /\ \/ dtd.in_eldecl /\ dtd' = [dtd EXCEPT !.scaffold[OpenNode].type = "CHOICE"]
              \/ dtd' = dtd
           /\ UNCHANGED <<error, declElementType>>
  <2>1. groupConnector' \in [0..groupSize - 1 -> {"undefined", "none", "comma", "pipe"}]
    BY <1>1, <1>6 DEF Before, TypeOK, SetConnector
  <2>2. \A l \in 1..state.level : groupConnector[l] # "undefined" => groupConnector'[l] # "undefined"
    BY <1>1, <1>3, <1>6 DEF Before, TypeOK, GroupsOpen, SetConnector
  <2>3. error' = "NONE" /\ declElementType' = declElementType
    BY <1>1, <1>6 DEF Before
  <2>4. dtd.scaffCount \in Nat /\ DtdType(dtd)
    BY <1>1 DEF Before, TypeOK, DtdType
  <2>5. dtd.in_eldecl => Linked(dtd.scaffold, dtd.scaffCount)
    BY <1>1, <1>3, OpenGroupNode
  <2>6. /\ DtdType(dtd') /\ dtd'.in_eldecl = dtd.in_eldecl /\ dtd'.scaffIndex = dtd.scaffIndex
        /\ dtd'.scaffLevel = dtd.scaffLevel /\ dtd'.scaffCount = dtd.scaffCount
        /\ dtd.in_eldecl => Linked(dtd'.scaffold, dtd'.scaffCount)
    <3>1. CASE dtd.in_eldecl /\ dtd' = [dtd EXCEPT !.scaffold[OpenNode].type = "CHOICE"]
      BY <1>1, <1>3, <3>1, SetOpenType DEF Types
    <3>2. CASE dtd' = dtd
      BY <2>4, <2>5, <3>2 DEF DtdType, NoScaffold, Node, Linked
    <3> QED
      BY <1>6, <3>1, <3>2
  <2> QED
    BY <1>1, <1>2, <1>3, <1>4, <2>1, <2>2, <2>3, <2>4, <2>6, GroupsKept DEF Flat
<1>7. \/ Fail("SYNTAX") /\ UNCHANGED groupConnector
      \/ /\ SetConnector("pipe")
         /\ dtd' = IF /\ dtd.in_eldecl /\ Connector = "none"
                      /\ dtd.scaffold[OpenNode].type # "MIXED"
                   THEN [dtd EXCEPT !.scaffold[OpenNode].type = "CHOICE"]
                   ELSE dtd
         /\ UNCHANGED <<error, declElementType>>
  BY Zenon DEF GroupChoice
<1> QED
  BY <1>5, <1>6, <1>7

LEMMA ContentPcdataStep ==
  ASSUME IndInv, NEW t \in Tokens, ContentPcdata(t)
  PROVE  IndInv'
<1> DEFINE r == XmlTokenRole(state, t.k)
<1>1. Before(t, r)
  BY TokenRead DEF ContentPcdata
<1>2. /\ state' \in PrologStates /\ state.handler = "element2"
      /\ state'.handler = "element3" /\ state'.level = state.level
  BY <1>1 DEF ContentPcdata, Before, RoleStep
<1>3. InGroup /\ InGroup'
  BY <1>2 DEF InGroup, ElementDecl
<1>4. /\ groupSize' = groupSize /\ groupConnector' = groupConnector /\ error' = "NONE"
      /\ declElementType' = declElementType
  BY <1>1 DEF ContentPcdata, group, Before
<1>5. dtd.scaffCount \in Nat /\ DtdType(dtd)
  BY <1>1 DEF Before, TypeOK, DtdType
<1>6. /\ DtdType(dtd') /\ dtd'.in_eldecl = dtd.in_eldecl /\ dtd'.scaffIndex = dtd.scaffIndex
      /\ dtd'.scaffLevel = dtd.scaffLevel /\ dtd'.scaffCount = dtd.scaffCount
      /\ dtd.in_eldecl => Linked(dtd'.scaffold, dtd'.scaffCount)
  <2>1. CASE dtd.in_eldecl
    BY <1>1, <1>3, <2>1, SetOpenType DEF Types, ContentPcdata
  <2>2. CASE ~dtd.in_eldecl
    BY <1>5, <2>2 DEF DtdType, NoScaffold, Node, Linked, ContentPcdata
  <2> QED
    BY <2>1, <2>2
<1>7. groupConnector' \in [0..groupSize - 1 -> {"undefined", "none", "comma", "pipe"}]
  BY <1>1, <1>4 DEF Before, TypeOK
<1> QED
  BY <1>1, <1>2, <1>3, <1>4, <1>5, <1>6, <1>7, GroupsKept DEF Flat

LEMMA QuantType ==
  ASSUME NEW role
  PROVE  QuantOf(role) \in Quants
BY DEF QuantOf, Quants

LEMMA ContentElementStep ==
  ASSUME IndInv, NEW t \in Tokens, ContentElement(t)
  PROVE  IndInv'
<1> DEFINE r == XmlTokenRole(state, t.k)
           q == QuantOf(Role(t))
<1>1. Before(t, r)
  BY TokenRead DEF ContentElement
<1>2. /\ state' \in PrologStates /\ state.handler \in Groups
      /\ state'.handler \in {"element5", "element7"} /\ state'.level = state.level
      /\ state'.handler \in Flat => state.handler \in Flat
  BY <1>1 DEF ContentElement, Before, RoleStep, ContentRoles, Flat
<1>3. InGroup /\ InGroup'
  BY <1>2 DEF InGroup, ElementDecl, Groups, Flat, Deep
<1>4. /\ groupSize' = groupSize /\ groupConnector' = groupConnector
      /\ declElementType' = declElementType
  BY DEF ContentElement, group
<1>5. DtdType(dtd) /\ dtd.scaffCount \in Nat /\ groupSize \in Nat /\ t.n \in Elements /\ q \in Quants
  BY <1>1, QuantType DEF Before, TypeOK, DtdType
<1>6. groupConnector' \in [0..groupSize - 1 -> {"undefined", "none", "comma", "pipe"}]
  BY <1>1, <1>4 DEF Before, TypeOK
<1>7. groupSize > 1
  BY <1>1, <1>3, <1>5 DEF Before, GroupsOpen, TypeOK, PrologStates
<1>8. CASE dtd.in_eldecl
  <2>1. /\ Linked(dtd.scaffold, dtd.scaffCount) /\ dtd.scaffLevel - 1 \in DOMAIN dtd.scaffIndex
        /\ dtd.scaffIndex[dtd.scaffLevel - 1] \in 0..dtd.scaffCount - 1
        /\ ~IsNULL(dtd.scaffIndex)
    BY <1>1, <1>3, <1>8, OpenGroupNode DEF OpenNode
  <2>2. IndexTable(dtd, groupSize) = dtd.scaffIndex
    BY <2>1 DEF IndexTable
  <2>3. DtdType(AddUnnamed(dtd, q))
    BY <1>5, <1>7, <2>1, <2>2, AddNameType
  <2> DEFINE d == AddName(dtd, t.n, q)
  <2>4. /\ DtdType(d) /\ Linked(d.scaffold, d.scaffCount)
        /\ d.scaffCount = dtd.scaffCount + 1 /\ d.scaffIndex = dtd.scaffIndex
        /\ d.scaffLevel = dtd.scaffLevel /\ d.in_eldecl = dtd.in_eldecl
    BY <1>5, <1>7, <2>1, <2>2, AddNameType
  <2> HIDE DEF d
  <2>5. CASE dtd' = d /\ UNCHANGED error
    <3>1. error' = "NONE"
      BY <1>1, <2>5 DEF Before
    <3>2. /\ DtdType(dtd') /\ dtd'.in_eldecl = dtd.in_eldecl /\ dtd'.scaffIndex = dtd.scaffIndex
          /\ dtd'.scaffLevel = dtd.scaffLevel /\ dtd'.scaffCount >= dtd.scaffCount
          /\ Linked(dtd'.scaffold, dtd'.scaffCount)
      <4>1. d.scaffCount >= dtd.scaffCount
        BY <1>5, <2>4
      <4>2. dtd' = d
        BY <2>5
      <4> QED
        BY <2>4, <4>1, <4>2, Zenon
    <3> QED
      BY <1>1, <1>2, <1>3, <1>4, <1>5, <1>6, <3>1, <3>2, GroupsKept
  <2>6. CASE error' = "NO_MEMORY" /\ dtd' \in Unallocated(dtd, groupSize) \cup {AddUnnamed(dtd, q)}
    <3>1. \A d2 \in Unallocated(dtd, groupSize) : d2 = dtd \/ d2 = [dtd EXCEPT !.scaffIndex = IndexTable(dtd, groupSize)]
      BY DEF Unallocated
    <3>2. DtdType([dtd EXCEPT !.scaffIndex = IndexTable(dtd, groupSize)])
      <4> DEFINE d1 == [dtd EXCEPT !.scaffIndex = dtd.scaffIndex]
      <4>1. /\ d1.in_eldecl = dtd.in_eldecl /\ d1.scaffold = dtd.scaffold
            /\ d1.scaffSize = dtd.scaffSize /\ d1.scaffCount = dtd.scaffCount
            /\ d1.scaffLevel = dtd.scaffLevel /\ d1.scaffIndex = dtd.scaffIndex
            /\ d1.contentStringLen = dtd.contentStringLen /\ DOMAIN d1 = DOMAIN dtd
        BY <1>5 DEF DtdType, NoScaffold
      <4> HIDE DEF d1
      <4>2. DtdType(d1)
        BY <1>5, <4>1 DEF DtdType
      <4> QED
        BY <2>2, <4>2 DEF d1
    <3>3. \A d2 \in Unallocated(dtd, groupSize) \cup {AddUnnamed(dtd, q)} : DtdType(d2)
      BY <1>5, <2>3, <3>1, <3>2
    <3>4. DtdType(dtd')
      BY <2>6, <3>3, Zenon
    <3> QED
      BY <1>1, <1>2, <1>4, <1>6, <2>6, <3>4, Failed DEF Before, TypeOK
  <2> QED
    BY <1>8, <2>5, <2>6 DEF ContentElement, d
<1>9. CASE ~dtd.in_eldecl
  <2>1. dtd' = dtd /\ error' = "NONE"
    BY <1>1, <1>9 DEF ContentElement, Before
  <2>2. /\ DtdType(dtd') /\ dtd'.in_eldecl = dtd.in_eldecl /\ dtd'.scaffIndex = dtd.scaffIndex
        /\ dtd'.scaffLevel = dtd.scaffLevel /\ dtd'.scaffCount >= dtd.scaffCount
    BY <1>5, <2>1 DEF DtdType, NoScaffold, Node
  <2> QED
    BY <1>1, <1>2, <1>3, <1>4, <1>5, <1>6, <1>9, <2>1, <2>2, GroupsKept
<1> QED
  BY <1>8, <1>9

-----------------------------------------------------------------------------
(* The end of a group.                                                       *)
LEMMA GroupCloseStep ==
  ASSUME IndInv, NEW t \in Tokens, GroupClose(t)
  PROVE  IndInv'
<1> DEFINE r == XmlTokenRole(state, t.k)
           q == QuantOf(Role(t))
           n == [dtd.scaffold[OpenNode] EXCEPT !.quant = q]
           nodes == [dtd.scaffold EXCEPT ![OpenNode] = n]
           closed == [dtd EXCEPT !.scaffLevel = @ - 1, !.scaffold = nodes]
<1>1. Before(t, r)
  BY TokenRead DEF GroupClose
<1>2. /\ state' \in PrologStates /\ state.handler \in Groups
      /\ \/ state.level = 1 /\ state'.handler = "declClose"
         \/ state.level > 1 /\ state'.handler = "element7" /\ state'.level = state.level - 1
  BY <1>1 DEF GroupClose, Before, RoleStep, CloseRoles
<1>3. InGroup /\ state.level \in 1..groupSize - 1 /\ groupSize \in Nat /\ state.level \in Nat
  BY <1>1, <1>2 DEF InGroup, ElementDecl, Groups, Flat, Deep, Before, GroupsOpen, TypeOK, PrologStates
<1>4. /\ groupSize' = groupSize /\ groupConnector' = groupConnector
      /\ declElementType' = declElementType
  BY DEF GroupClose, group
<1>5. DtdType(dtd) /\ TypeOK /\ groupSize # 1 /\ TablesInStep /\ error = "NONE"
      /\ elementDeclHandler' = elementDeclHandler
  BY <1>1 DEF Before, TypeOK
<1>6. GroupsOpen'
  <2>1. CASE state'.handler = "declClose"
    BY <2>1 DEF GroupsOpen, InGroup, ElementDecl
  <2>2. CASE state.level > 1 /\ state'.handler = "element7" /\ state'.level = state.level - 1
    <3>1. state'.level \in 1..groupSize' - 1 /\ state'.level <= state.level
      BY <1>3, <1>4, <2>2
    <3>2. \A l \in 1..state.level : groupConnector[l] # "undefined"
      BY <1>1, <1>3 DEF Before, GroupsOpen
    <3>3. \A l \in 1..state'.level : groupConnector'[l] # "undefined"
      BY <1>3, <1>4, <2>2, <3>1, <3>2
    <3> QED
      BY <2>2, <3>1, <3>3 DEF GroupsOpen
  <2> QED
    BY <1>2, <2>1, <2>2
<1>7. CASE ~dtd.in_eldecl /\ UNCHANGED <<error, dtd>>
  <2>1. TypeOK' /\ TablesInStep' /\ Collected'
    BY <1>2, <1>4, <1>5, <1>7 DEF TypeOK, TablesInStep, Collected, DtdType, NoScaffold, Node, IsNULL
  <2> QED
    BY <1>4, <1>5, <1>6, <2>1 DEF IndInv
<1>8. ASSUME dtd.in_eldecl
      PROVE  /\ DtdType(closed) /\ closed.in_eldecl /\ closed.scaffIndex = dtd.scaffIndex
             /\ closed.scaffLevel = state.level - 1 /\ closed.scaffCount = dtd.scaffCount
             /\ Linked(closed.scaffold, closed.scaffCount)
  <2> DEFINE d1 == [dtd EXCEPT !.scaffold = nodes]
  <2>1. /\ OpenNode \in 0..dtd.scaffSize - 1 /\ dtd.scaffold[OpenNode] \in Node
        /\ Linked(dtd.scaffold, dtd.scaffCount) /\ dtd.scaffLevel = state.level
    BY <1>1, <1>3, <1>8, OpenGroupNode
  <2>2. n \in Node /\ n.lastchild = dtd.scaffold[OpenNode].lastchild
    BY <2>1, NodeFields, QuantType
  <2> HIDE DEF n
  <2>3. /\ DtdType(d1) /\ d1.in_eldecl = dtd.in_eldecl /\ d1.scaffIndex = dtd.scaffIndex
        /\ d1.scaffCount = dtd.scaffCount /\ d1.scaffSize = dtd.scaffSize
        /\ Linked(d1.scaffold, d1.scaffCount)
    BY <1>5, <2>1, <2>2, SetNode
  <2>4. d1.scaffold = nodes
    BY <1>5 DEF DtdType, NoScaffold
  <2> HIDE DEF nodes, d1
  <2>5. /\ closed.in_eldecl = dtd.in_eldecl /\ closed.scaffold = nodes
        /\ closed.scaffSize = dtd.scaffSize /\ closed.scaffCount = dtd.scaffCount
        /\ closed.scaffLevel = dtd.scaffLevel - 1 /\ closed.scaffIndex = dtd.scaffIndex
        /\ closed.contentStringLen = dtd.contentStringLen /\ DOMAIN closed = DOMAIN dtd
    BY <1>5 DEF DtdType, NoScaffold
  <2>6. state.level - 1 \in Nat
    BY <1>3
  <2> HIDE DEF closed
  <2>7. DtdType(closed)
    BY <1>5, <2>1, <2>3, <2>4, <2>5, <2>6 DEF DtdType
  <2> QED
    BY <1>8, <2>1, <2>3, <2>4, <2>5, <2>7
<1> HIDE DEF closed, nodes, n
<1>9. CASE /\ dtd.in_eldecl /\ closed.scaffLevel > 0 /\ dtd' = closed /\ UNCHANGED error
  <2>1. /\ DtdType(dtd') /\ dtd'.in_eldecl /\ dtd'.scaffIndex = dtd.scaffIndex
        /\ dtd'.scaffLevel = state.level - 1 /\ dtd'.scaffCount = dtd.scaffCount
        /\ Linked(dtd'.scaffold, dtd'.scaffCount) /\ state.level > 1
    BY <1>3, <1>8, <1>9 DEF DtdType, NoScaffold, Node, Linked
  <2>2. state'.handler = "element7" /\ state'.level = state.level - 1
    BY <1>2, <1>3, <2>1
  <2>3. /\ dtd.scaffLevel = state.level /\ ~IsNULL(dtd.scaffIndex)
        /\ \A l \in 0..dtd.scaffLevel - 1 : dtd.scaffIndex[l] \in 0..dtd.scaffCount - 1
    BY <1>1, <1>3, <1>9 DEF Before, Collected
  <2>4. \A l \in 0..dtd'.scaffLevel - 1 : dtd'.scaffIndex[l] \in 0..dtd'.scaffCount - 1
    BY <1>3, <2>1, <2>3
  <2>5. Collected'
    BY <2>1, <2>2, <2>3, <2>4 DEF Collected, InDeclaration, ElementDecl, IsNULL
  <2>6. TypeOK' /\ TablesInStep'
    BY <1>2, <1>4, <1>5, <1>9, <2>1 DEF TypeOK, TablesInStep, IsNULL
  <2> QED
    BY <1>4, <1>5, <1>6, <2>5, <2>6 DEF IndInv
<1>10. CASE dtd.in_eldecl /\ dtd' = closed /\ error' = "NO_MEMORY"
  <2>1. DtdType(dtd')
    BY <1>8, <1>10 DEF DtdType, NoScaffold, Node
  <2> QED
    BY <1>2, <1>4, <1>5, <1>10, <2>1, Failed DEF TypeOK
<1>11. CASE dtd.in_eldecl /\ dtd' = EndDeclaration(closed) /\ UNCHANGED error
  <2>1. /\ DtdType(dtd') /\ ~dtd'.in_eldecl /\ dtd'.scaffIndex = dtd.scaffIndex
    BY <1>8, <1>11 DEF DtdType, NoScaffold, Node, EndDeclaration
  <2>2. TypeOK' /\ TablesInStep' /\ Collected'
    BY <1>2, <1>4, <1>5, <1>11, <2>1 DEF TypeOK, TablesInStep, IsNULL, Collected
  <2> QED
    BY <1>4, <1>5, <1>6, <2>2 DEF IndInv
<1>12. \/ ~dtd.in_eldecl /\ UNCHANGED <<error, dtd>>
       \/ dtd.in_eldecl /\ closed.scaffLevel > 0 /\ dtd' = closed /\ UNCHANGED error
       \/ dtd.in_eldecl /\ dtd' = closed /\ error' = "NO_MEMORY"
       \/ dtd.in_eldecl /\ dtd' = EndDeclaration(closed) /\ UNCHANGED error
  BY <1>5 DEF GroupClose, closed, nodes, n, OpenNode, DtdType, NoScaffold
<1> QED
  BY <1>7, <1>9, <1>10, <1>11, <1>12

-----------------------------------------------------------------------------
(* A group is opened: the tables for the new depth, then its node.           *)
Enlarged ==
  LET level == state'.level
  IN  IF level < groupSize THEN groupSize
      ELSE IF groupSize = 0 THEN InitGroupSize ELSE 2 * groupSize
Grown(size) == IF state'.level >= groupSize /\ groupSize > 0 THEN GrownIndex(dtd, size) ELSE dtd

(* The outcomes of the role, apart.                                          *)
LEMMA GroupOpenOutcomes ==
  ASSUME NEW t, GroupOpen(t), groupSize \in Nat, state'.level \in Nat
  PROVE  /\ declElementType' = declElementType
         /\ \/ error' = "NO_MEMORY" /\ UNCHANGED <<group, dtd>>
            \/ /\ error' = "NO_MEMORY" /\ groupSize' = Enlarged
               /\ groupConnector' = Grow(groupConnector, Enlarged, "undefined")
               /\ UNCHANGED dtd
            \/ /\ groupSize' = Enlarged
               /\ groupConnector' = OpenConnector(Enlarged, state'.level)
               /\ \/ /\ dtd.in_eldecl /\ error' = "NO_MEMORY"
                     /\ dtd' \in Unallocated(Grown(Enlarged), Enlarged)
                  \/ dtd.in_eldecl /\ error' = error /\ dtd' = OpenGroup(Grown(Enlarged), Enlarged)
                  \/ ~dtd.in_eldecl /\ error' = error /\ dtd' = Grown(Enlarged)
<1>1. (IF ~(state'.level >= groupSize) THEN groupSize
       ELSE IF groupSize = 0 THEN InitGroupSize ELSE 2 * groupSize) = Enlarged
  BY DEF Enlarged
<1> QED
  BY <1>1, Zenon DEF GroupOpen, Fail, Grown

(* The tables for the new depth: they are large enough, and keep the open     *)
(* groups.                                                                   *)
Opens(size, grown) ==
  /\ size \in Nat /\ size > 1 /\ groupSize <= size
  /\ state'.level \in Nat /\ state'.level >= 1 /\ state'.level < size
  /\ DtdType(grown) /\ grown.in_eldecl = dtd.in_eldecl /\ grown.scaffLevel = dtd.scaffLevel
  /\ grown.scaffCount = dtd.scaffCount /\ grown.scaffold = dtd.scaffold
  /\ grown.contentStringLen = dtd.contentStringLen
  /\ ~IsNULL(grown.scaffIndex) => DOMAIN grown.scaffIndex = 0..size - 1
  /\ \A l \in 0..groupSize - 1 :
       ~IsNULL(grown.scaffIndex) => grown.scaffIndex[l] = dtd.scaffIndex[l]
  /\ dtd.in_eldecl =>
       /\ Linked(grown.scaffold, grown.scaffCount)
       /\ grown.scaffLevel = state'.level - 1
       /\ \A l \in 0..grown.scaffLevel - 1 :
            /\ ~IsNULL(grown.scaffIndex)
            /\ grown.scaffIndex[l] \in 0..grown.scaffCount - 1

LEMMA GroupOpenTables ==
  ASSUME IndInv, NEW t \in Tokens, GroupOpen(t)
  PROVE  Opens(Enlarged, Grown(Enlarged))
<1> DEFINE r == XmlTokenRole(state, t.k)
           level == state'.level
           size == Enlarged
           grown == Grown(size)
           Connectors == {"undefined", "none", "comma", "pipe"}
<1>1. Before(t, r)
  BY TokenRead DEF GroupOpen
<1>2. /\ state' \in PrologStates /\ state'.handler \in {"element2", "element6"}
      /\ \/ state.handler = "element1" /\ state'.handler = "element2" /\ level = 1
         \/ state.handler \in Groups /\ state'.handler = "element6" /\ level = state.level + 1
  BY <1>1 DEF GroupOpen, Before, RoleStep
<1>3. /\ DtdType(dtd) /\ TypeOK /\ groupSize # 1 /\ groupSize \in Nat /\ level \in Nat
      /\ error = "NONE" /\ elementDeclHandler' = elementDeclHandler
      /\ groupConnector \in [0..groupSize - 1 -> Connectors]
  BY <1>1, <1>2 DEF Before, TypeOK, PrologStates
<1>4. /\ state.handler \in Groups => InGroup /\ state.level \in 1..groupSize - 1
      /\ state.handler = "element1" => ~InGroup
  BY <1>1 DEF InGroup, ElementDecl, Groups, Flat, Deep, Before, GroupsOpen
<1>5. size \in Nat /\ size > 1 /\ level < size /\ groupSize <= size /\ level >= 1
  BY <1>2, <1>3, <1>4, ContentModelAssumption DEF Enlarged
<1>6. level < groupSize => size = groupSize
  BY DEF Enlarged
<1> HIDE DEF size
<1>7. /\ DtdType(grown) /\ grown.in_eldecl = dtd.in_eldecl /\ grown.scaffLevel = dtd.scaffLevel
      /\ grown.scaffCount = dtd.scaffCount /\ grown.scaffold = dtd.scaffold
      /\ grown.contentStringLen = dtd.contentStringLen
      /\ IsNULL(grown.scaffIndex) <=> IsNULL(dtd.scaffIndex)
      /\ ~IsNULL(grown.scaffIndex) => DOMAIN grown.scaffIndex = 0..size - 1
      /\ \A l \in 0..groupSize - 1 :
           ~IsNULL(grown.scaffIndex) => grown.scaffIndex[l] = dtd.scaffIndex[l]
  <2>1. CASE level >= groupSize /\ groupSize > 0 /\ ~IsNULL(dtd.scaffIndex)
    <3> DEFINE index == Grow(dtd.scaffIndex, size, Undefined)
    <3>1. grown = [dtd EXCEPT !.scaffIndex = index]
      BY <2>1 DEF Grown, GrownIndex
    <3>2. DOMAIN dtd.scaffIndex = 0..groupSize - 1
      BY <1>1, <2>1 DEF Before, TablesInStep
    <3>3. dtd.scaffIndex \in [0..groupSize - 1 -> Int]
      BY <1>3, <3>2 DEF DtdType
    <3>4. /\ index \in [0..size - 1 -> Int]
          /\ \A l \in 0..size - 1 : l < groupSize => index[l] = dtd.scaffIndex[l]
      <4>1. index \in [0..size - 1 -> Int]
        <5>1. \A i \in DOMAIN dtd.scaffIndex : dtd.scaffIndex[i] \in Int
          BY <3>2, <3>3
        <5>2. Undefined \in Int
          BY DEF Undefined
        <5> QED
          BY <5>1, <5>2 DEF Grow
      <4>2. ASSUME NEW l \in 0..size - 1, l < groupSize PROVE index[l] = dtd.scaffIndex[l]
        <5>1. l \in DOMAIN dtd.scaffIndex
          BY <1>3, <1>5, <3>2, <4>2
        <5> QED
          BY <5>1 DEF Grow
      <4> QED
        BY <4>1, <4>2
    <3> HIDE DEF index, grown
    <3>5. /\ grown.in_eldecl = dtd.in_eldecl /\ grown.scaffold = dtd.scaffold
          /\ grown.scaffSize = dtd.scaffSize /\ grown.scaffCount = dtd.scaffCount
          /\ grown.scaffLevel = dtd.scaffLevel /\ grown.scaffIndex = index
          /\ grown.contentStringLen = dtd.contentStringLen /\ DOMAIN grown = DOMAIN dtd
      BY <1>3, <3>1 DEF DtdType, NoScaffold
    <3>6. DtdType(grown)
      BY <1>3, <3>4, <3>5 DEF DtdType
    <3>7. DOMAIN index = 0..size - 1 /\ 0 \in 0..size - 1
      BY <1>5, <3>4
    <3>8. \A l \in 0..groupSize - 1 : index[l] = dtd.scaffIndex[l]
      BY <1>3, <1>5, <3>4
    <3>9. ~IsNULL(grown.scaffIndex)
      BY <3>5, <3>7 DEF IsNULL
    <3> QED
      BY <2>1, <3>5, <3>6, <3>7, <3>8, <3>9
  <2>2. CASE ~(level >= groupSize /\ groupSize > 0 /\ ~IsNULL(dtd.scaffIndex))
    <3>1. grown = dtd
      BY <2>2 DEF Grown, GrownIndex
    <3>2. ~IsNULL(dtd.scaffIndex) => DOMAIN dtd.scaffIndex = 0..groupSize - 1
      BY <1>1 DEF Before, TablesInStep
    <3>3. ~IsNULL(dtd.scaffIndex) => groupSize > 0
      BY <1>3, <3>2 DEF IsNULL
    <3>4. ~IsNULL(dtd.scaffIndex) => size = groupSize
      BY <1>3, <1>6, <2>2, <3>3
    <3> QED
      BY <1>3, <3>1, <3>2, <3>4
  <2> QED
    BY <2>1, <2>2
<1> HIDE DEF grown
<1>8. dtd.in_eldecl =>
         /\ Linked(grown.scaffold, grown.scaffCount)
         /\ grown.scaffLevel = level - 1
         /\ \A l \in 0..grown.scaffLevel - 1 :
              /\ ~IsNULL(grown.scaffIndex)
              /\ grown.scaffIndex[l] \in 0..grown.scaffCount - 1
  <2>1. CASE dtd.in_eldecl /\ state.handler = "element1" /\ level = 1
    <3>1. dtd.scaffLevel = 0 /\ dtd.scaffCount = 0
      BY <1>1, <2>1 DEF Before, Collected
    <3> QED
      BY <1>7, <2>1, <3>1 DEF Linked
  <2>2. CASE dtd.in_eldecl /\ state.handler \in Groups /\ level = state.level + 1
    <3>1. InGroup /\ state.level \in 1..groupSize - 1
      BY <1>4, <2>2
    <3>2. /\ dtd.scaffLevel = state.level /\ ~IsNULL(dtd.scaffIndex)
          /\ \A l \in 0..dtd.scaffLevel - 1 : dtd.scaffIndex[l] \in 0..dtd.scaffCount - 1
          /\ Linked(dtd.scaffold, dtd.scaffCount)
      BY <1>1, <2>2, <3>1 DEF Before, Collected
    <3>3. \A l \in 0..dtd.scaffLevel - 1 : l \in 0..groupSize - 1
      BY <1>3, <3>1, <3>2
    <3>4. level - 1 = state.level
      BY <1>3, <2>2, <3>1
    <3>5. \A l \in 0..grown.scaffLevel - 1 :
            ~IsNULL(grown.scaffIndex) /\ grown.scaffIndex[l] \in 0..grown.scaffCount - 1
      BY <1>7, <3>2, <3>3
    <3> QED
      BY <1>7, <3>2, <3>4, <3>5 DEF Linked
  <2> QED
    BY <1>2, <2>1, <2>2
<1> QED
  BY <1>3, <1>5, <1>7, <1>8 DEF Opens, size, grown

LEMMA GroupOpenStep ==
  ASSUME IndInv, NEW t \in Tokens, GroupOpen(t)
  PROVE  IndInv'
<1> DEFINE r == XmlTokenRole(state, t.k)
           level == state'.level
           size == Enlarged
           grown == Grown(size)
           Connectors == {"undefined", "none", "comma", "pipe"}
<1>1. Before(t, r)
  BY TokenRead DEF GroupOpen
<1>2. /\ state' \in PrologStates /\ state'.handler \in {"element2", "element6"}
      /\ \/ state.handler = "element1" /\ state'.handler = "element2" /\ level = 1
         \/ state.handler \in Groups /\ state'.handler = "element6" /\ level = state.level + 1
  BY <1>1 DEF GroupOpen, Before, RoleStep
<1>3. /\ DtdType(dtd) /\ TypeOK /\ groupSize # 1 /\ groupSize \in Nat /\ level \in Nat
      /\ error = "NONE" /\ elementDeclHandler' = elementDeclHandler
      /\ groupConnector \in [0..groupSize - 1 -> Connectors]
  BY <1>1, <1>2 DEF Before, TypeOK, PrologStates
<1>4. /\ state.handler \in Groups => InGroup /\ state.level \in 1..groupSize - 1
      /\ state.handler = "element1" => ~InGroup
  BY <1>1 DEF InGroup, ElementDecl, Groups, Flat, Deep, Before, GroupsOpen
<1>5. size \in Nat /\ size > 1 /\ level < size /\ groupSize <= size /\ level >= 1
  BY GroupOpenTables DEF Opens
<1> HIDE DEF size
<1>6. Opens(size, grown)
  BY GroupOpenTables DEF size
<1>7. /\ DtdType(grown) /\ grown.in_eldecl = dtd.in_eldecl /\ grown.scaffLevel = dtd.scaffLevel
      /\ ~IsNULL(grown.scaffIndex) => DOMAIN grown.scaffIndex = 0..size - 1
  BY <1>6 DEF Opens
<1> HIDE DEF grown
<1>8. Grow(groupConnector, size, "undefined") \in [0..size - 1 -> Connectors]
  BY <1>3, <1>5, GrowKeeps
<1>9. /\ OpenConnector(size, level) \in [0..size - 1 -> Connectors]
      /\ \A l \in 1..level : OpenConnector(size, level)[l] # "undefined"
  <2> DEFINE c == Grow(groupConnector, size, "undefined")
  <2>1. /\ c \in [0..size - 1 -> Connectors]
        /\ \A l \in 0..size - 1 : l < groupSize => c[l] = groupConnector[l]
    <3>1. ASSUME NEW l \in 0..size - 1, l < groupSize PROVE c[l] = groupConnector[l]
      <4>1. l \in DOMAIN groupConnector
        BY <1>3, <1>5, <3>1
      <4> QED
        BY <4>1 DEF Grow
    <3> QED
      BY <1>8, <3>1
  <2>2. OpenConnector(size, level) = [c EXCEPT ![level] = "none"]
    BY DEF OpenConnector
  <2> HIDE DEF c
  <2>3. \A l \in 1..level : l # level => l < groupSize /\ groupConnector[l] # "undefined"
    <3>1. CASE level = 1
      BY <3>1
    <3>2. CASE state.handler \in Groups /\ level = state.level + 1
      <4>1. /\ \A l \in 1..state.level : groupConnector[l] # "undefined"
            /\ state.level \in 1..groupSize - 1
        BY <1>1, <1>4, <3>2 DEF Before, GroupsOpen
      <4> QED
        BY <1>3, <3>2, <4>1
    <3> QED
      BY <1>2, <3>1, <3>2
  <2>4. [c EXCEPT ![level] = "none"] \in [0..size - 1 -> Connectors]
    BY <2>1
  <2>5. \A l \in 1..level : [c EXCEPT ![level] = "none"][l] # "undefined"
    BY <1>3, <1>5, <2>1, <2>3
  <2> QED
    BY <2>2, <2>4, <2>5
<1>10. dtd.in_eldecl =>
         /\ Linked(grown.scaffold, grown.scaffCount)
         /\ grown.scaffLevel = level - 1
         /\ \A l \in 0..grown.scaffLevel - 1 :
              /\ ~IsNULL(grown.scaffIndex)
              /\ grown.scaffIndex[l] \in 0..grown.scaffCount - 1
  BY <1>6 DEF Opens
<1>11. CASE error' = "NO_MEMORY" /\ UNCHANGED <<group, dtd, declElementType>>
  BY <1>2, <1>3, <1>11, Failed DEF TypeOK, group
<1>12. CASE /\ error' = "NO_MEMORY" /\ groupSize' = size
            /\ groupConnector' = Grow(groupConnector, size, "undefined")
            /\ UNCHANGED <<dtd, declElementType>>
  BY <1>2, <1>3, <1>5, <1>8, <1>12, Failed DEF TypeOK
<1>13. CASE /\ groupSize' = size /\ groupConnector' = OpenConnector(size, level)
            /\ declElementType' = declElementType
            /\ \/ dtd.in_eldecl /\ error' = "NO_MEMORY" /\ dtd' \in Unallocated(grown, size)
               \/ dtd.in_eldecl /\ error' = error /\ dtd' = OpenGroup(grown, size)
               \/ ~dtd.in_eldecl /\ error' = error /\ dtd' = grown
  <2> DEFINE index == IndexTable(grown, size)
  <2>1. index \in [0..size - 1 -> Int]
    <3>1. CASE IsNULL(grown.scaffIndex)
      BY <3>1 DEF IndexTable, Undefined
    <3>2. CASE ~IsNULL(grown.scaffIndex)
      BY <1>7, <3>2 DEF IndexTable, DtdType
    <3> QED
      BY <3>1, <3>2
  <2>2. /\ state' \in PrologStates /\ declElementType' \in Elements \cup {"-"}
        /\ groupSize' \in Nat /\ groupSize' # 1
        /\ groupConnector' \in [0..groupSize' - 1 -> Connectors]
    BY <1>2, <1>3, <1>5, <1>9, <1>13 DEF TypeOK
  <2>3. InGroup' /\ InDeclaration' /\ state'.handler # "element1"
    BY <1>2 DEF InGroup, InDeclaration, ElementDecl
  <2>4. GroupsOpen'
    <3>1. state'.level \in 1..groupSize' - 1
      BY <1>3, <1>5, <1>13
    <3>2. state'.handler \in {"element2", "element3", "element4", "element5"} => state'.level = 1
      BY <1>2
    <3> QED
      BY <1>9, <1>13, <3>1, <3>2 DEF GroupsOpen
  <2> HIDE DEF index
  <2>5. CASE dtd.in_eldecl /\ error' = "NO_MEMORY" /\ dtd' \in Unallocated(grown, size)
    <3> DEFINE d1 == [grown EXCEPT !.scaffIndex = index]
    <3>1. dtd' = grown \/ dtd' = d1
      BY <2>5 DEF Unallocated, index
    <3>2. /\ d1.in_eldecl = grown.in_eldecl /\ d1.scaffold = grown.scaffold
          /\ d1.scaffSize = grown.scaffSize /\ d1.scaffCount = grown.scaffCount
          /\ d1.scaffLevel = grown.scaffLevel /\ d1.scaffIndex = index
          /\ d1.contentStringLen = grown.contentStringLen /\ DOMAIN d1 = DOMAIN grown
      BY <1>7 DEF DtdType, NoScaffold
    <3> HIDE DEF d1
    <3>3. DtdType(d1)
      BY <1>7, <2>1, <3>2 DEF DtdType
    <3>4. DtdType(dtd')
      BY <1>7, <3>1, <3>3, Zenon
    <3> QED
      BY <1>3, <2>2, <2>5, <3>4, Failed
  <2>6. CASE dtd.in_eldecl /\ error' = error /\ dtd' = OpenGroup(grown, size)
    <3> DEFINE d == OpenGroup(grown, size)
    <3>1. /\ grown.scaffLevel = level - 1 /\ Linked(grown.scaffold, grown.scaffCount)
          /\ \A l \in 0..grown.scaffLevel - 1 :
               ~IsNULL(grown.scaffIndex) /\ grown.scaffIndex[l] \in 0..grown.scaffCount - 1
      BY <1>10, <2>6
    <3>2. grown.scaffCount \in Nat /\ grown.scaffLevel \in Nat /\ grown.scaffLevel \in 0..size - 1
      BY <1>3, <1>5, <1>7, <3>1 DEF DtdType
    <3>3. \A l \in 0..grown.scaffLevel - 1 : index[l] \in 0..grown.scaffCount - 1
      BY <3>1 DEF index, IndexTable
    <3>4. grown.scaffLevel > 0 =>
            /\ grown.scaffLevel - 1 \in DOMAIN index
            /\ index[grown.scaffLevel - 1] \in 0..grown.scaffCount - 1
      <4>1. grown.scaffLevel > 0 => grown.scaffLevel - 1 \in 0..grown.scaffLevel - 1
        BY <3>2
      <4>2. grown.scaffLevel > 0 => grown.scaffLevel - 1 \in 0..size - 1
        BY <1>5, <3>2
      <4>3. DOMAIN index = 0..size - 1
        BY <2>1
      <4> QED
        BY <3>3, <4>1, <4>2, <4>3
    <3>5. /\ DtdType(d) /\ Linked(d.scaffold, d.scaffCount)
          /\ d.scaffCount = grown.scaffCount + 1
          /\ d.scaffIndex = [index EXCEPT ![grown.scaffLevel] = grown.scaffCount]
          /\ d.scaffLevel = grown.scaffLevel + 1 /\ d.in_eldecl = grown.in_eldecl
      BY <1>5, <1>7, <3>1, <3>4, OpenGroupType DEF index
    <3> HIDE DEF d
    <3>6. \A l \in 0..d.scaffLevel - 1 : d.scaffIndex[l] \in 0..d.scaffCount - 1
      <4>1. d.scaffCount - 1 = grown.scaffCount /\ d.scaffLevel - 1 = grown.scaffLevel
        BY <3>2, <3>5
      <4>2. d.scaffIndex[grown.scaffLevel] = grown.scaffCount
        BY <2>1, <3>2, <3>5
      <4>3. \A l \in 0..grown.scaffLevel - 1 : d.scaffIndex[l] = index[l]
        BY <1>5, <2>1, <3>2, <3>5
      <4>4. \A l \in 0..grown.scaffLevel - 1 : d.scaffIndex[l] \in 0..grown.scaffCount
        BY <3>2, <3>3, <4>3
      <4>5. grown.scaffCount \in 0..grown.scaffCount
        BY <3>2
      <4>6. \A l \in 0..grown.scaffLevel : l = grown.scaffLevel \/ l \in 0..grown.scaffLevel - 1
        BY <3>2
      <4> QED
        BY <4>1, <4>2, <4>4, <4>5, <4>6
    <3>7. DOMAIN d.scaffIndex = 0..size - 1 /\ 0 \in 0..size - 1
      BY <1>5, <2>1, <3>5
    <3>8. ~IsNULL(d.scaffIndex)
      BY <3>7 DEF IsNULL
    <3>9. dtd' = d
      BY <2>6 DEF d
    <3>10. d.scaffLevel = level
      BY <1>3, <3>1, <3>5
    <3>11. TypeOK'
      BY <1>3, <2>2, <2>6, <3>5, <3>9 DEF TypeOK
    <3>12. TablesInStep'
      BY <1>13, <3>7, <3>9 DEF TablesInStep
    <3>13. Collected'
      BY <2>3, <3>5, <3>6, <3>8, <3>9, <3>10 DEF Collected
    <3> QED
      BY <2>2, <2>4, <3>11, <3>12, <3>13 DEF IndInv
  <2>7. CASE ~dtd.in_eldecl /\ error' = error /\ dtd' = grown
    <3>1. TypeOK' /\ TablesInStep' /\ Collected'
      BY <1>3, <1>7, <1>13, <2>2, <2>7 DEF TypeOK, TablesInStep, Collected
    <3> QED
      BY <2>2, <2>4, <3>1 DEF IndInv
  <2> QED
    BY <1>13, <2>5, <2>6, <2>7
<1>14. GroupOpen(t) => \/ error' = "NO_MEMORY" /\ UNCHANGED <<group, dtd, declElementType>>
                       \/ /\ error' = "NO_MEMORY" /\ groupSize' = size
                          /\ groupConnector' = Grow(groupConnector, size, "undefined")
                          /\ UNCHANGED <<dtd, declElementType>>
                       \/ /\ groupSize' = size /\ groupConnector' = OpenConnector(size, level)
                          /\ declElementType' = declElementType
                          /\ \/ dtd.in_eldecl /\ error' = "NO_MEMORY" /\ dtd' \in Unallocated(grown, size)
                             \/ dtd.in_eldecl /\ error' = error /\ dtd' = OpenGroup(grown, size)
                             \/ ~dtd.in_eldecl /\ error' = error /\ dtd' = grown
  BY <1>3, GroupOpenOutcomes DEF size, grown
<1> QED
  BY <1>11, <1>12, <1>13, <1>14

-----------------------------------------------------------------------------
LEMMA NoScaffoldType == DtdType(NoScaffold)
BY DEF DtdType, NoScaffold, NULL

LEMMA InitInv == ASSUME Init PROVE IndInv
<1>1. state \in PrologStates /\ state.handler \notin ElementDecl
  <2>1. \/ state = [XmlPrologStateInit EXCEPT !.handler = "internalSubset"]
        \/ state = XmlPrologStateInitExternalEntity
    BY DEF Init, InSubset
  <2>2. /\ "internalSubset" \in Handlers \ ElementDecl /\ "externalSubset0" \in Handlers \ ElementDecl
        /\ "NONE" \in NoneRoles
    BY DEF Handlers, Subset, NoneRoles, ElementDecl
  <2>3. \A h \in Handlers \ ElementDecl : \A b \in BOOLEAN :
          LET s == [handler |-> h, level |-> 0, role_none |-> "NONE", includeLevel |-> 0,
                    documentEntity |-> b]
          IN  s \in PrologStates /\ s.handler \notin ElementDecl
    BY <2>2 DEF PrologStates
  <2>4. \/ state = [handler |-> "internalSubset", level |-> 0, role_none |-> "NONE",
                    includeLevel |-> 0, documentEntity |-> TRUE]
        \/ state = [handler |-> "externalSubset0", level |-> 0, role_none |-> "NONE",
                    includeLevel |-> 0, documentEntity |-> FALSE]
    BY <2>1 DEF XmlPrologStateInit, XmlPrologStateInitExternalEntity
  <2> QED
    BY <2>2, <2>3, <2>4
<1>2. DtdType(dtd) /\ ~dtd.in_eldecl /\ IsNULL(dtd.scaffIndex)
  BY NoScaffoldType DEF Init, NoScaffold, NULL, IsNULL
<1>3. groupConnector \in [0..groupSize - 1 -> {"undefined", "none", "comma", "pipe"}] /\ groupSize = 0
  BY DEF Init, NULL
<1> QED
  BY <1>1, <1>2, <1>3 DEF Init, IndInv, TypeOK, TablesInStep, GroupsOpen, Collected, InGroup

LEMMA SetElementDeclHandlerStep ==
  ASSUME IndInv, XML_SetElementDeclHandler
  PROVE  IndInv'
BY DEF XML_SetElementDeclHandler, IndInv, TypeOK, TablesInStep, GroupsOpen, Collected, InGroup,
   InDeclaration, group, DtdType, NoScaffold, Node, Linked, IsNULL

LEMMA ParserResetStep ==
  ASSUME IndInv, XML_ParserReset
  PROVE  IndInv'
<1>1. state' \in PrologStates /\ state'.handler = "internalSubset"
  BY DEF XML_ParserReset, IndInv, TypeOK, PrologStates, Handlers, Subset
<1>2. dtd' = NoScaffold /\ groupSize' = groupSize /\ groupConnector' = groupConnector
  BY DEF XML_ParserReset, dtdReset, group
<1>3. DtdType(dtd') /\ ~dtd'.in_eldecl /\ IsNULL(dtd'.scaffIndex)
  BY <1>2, NoScaffoldType DEF NoScaffold, NULL, IsNULL
<1>4. TypeOK' /\ groupSize' # 1
  BY <1>1, <1>2, <1>3 DEF XML_ParserReset, IndInv, TypeOK
<1> QED
  BY <1>1, <1>3, <1>4 DEF IndInv, TablesInStep, GroupsOpen, Collected, InGroup, ElementDecl

LEMMA Inductive == IndInv /\ [Next]_vars => IndInv'
<1> SUFFICES ASSUME IndInv, [Next]_vars PROVE IndInv'
  OBVIOUS
<1>1. ASSUME NEW t \in Tokens, Token(t) PROVE IndInv'
  BY <1>1, RefuseStep, OtherStep, AttlistElementNameStep, ElementNameStep, ContentAnyOrEmptyStep,
     GroupOpenStep, GroupSequenceStep, GroupChoiceStep, ContentPcdataStep, ContentElementStep,
     GroupCloseStep DEF Token
<1>2. CASE UNCHANGED vars
  BY <1>2 DEF vars, IndInv, TypeOK, TablesInStep, GroupsOpen, Collected, InGroup,
     InDeclaration, group, DtdType, NoScaffold, Node, Linked, IsNULL
<1> QED
  BY <1>1, <1>2, SetElementDeclHandlerStep, ParserResetStep DEF Next

(* The invariant gives the bounds.                                           *)
LEMMA InBounds == IndInv => IndexesInBounds
<1> SUFFICES ASSUME IndInv, error = "NONE", InGroup PROVE IndexesInBounds
  BY DEF IndexesInBounds
<1>1. TypeOK /\ TablesInStep /\ GroupsOpen /\ Collected
  BY DEF IndInv
<1>2. /\ state.level \in 1..groupSize - 1 /\ groupSize \in Nat
      /\ \A l \in 1..state.level : groupConnector[l] # "undefined"
      /\ groupConnector \in [0..groupSize - 1 -> {"undefined", "none", "comma", "pipe"}]
  BY <1>1 DEF GroupsOpen, TypeOK
<1>3. state.level \in DOMAIN groupConnector /\ groupConnector[state.level] # "undefined"
  BY <1>2
<1>4. ASSUME dtd.in_eldecl
      PROVE  /\ dtd.scaffLevel = state.level
             /\ dtd.scaffLevel - 1 \in DOMAIN dtd.scaffIndex
             /\ OpenNode \in 0..dtd.scaffCount - 1
             /\ dtd.scaffold[OpenNode].lastchild \in 0..dtd.scaffCount - 1
             /\ 0..dtd.scaffCount - 1 \subseteq DOMAIN dtd.scaffold
  <2>1. /\ dtd.scaffLevel = state.level /\ ~IsNULL(dtd.scaffIndex)
        /\ \A l \in 0..dtd.scaffLevel - 1 : dtd.scaffIndex[l] \in 0..dtd.scaffCount - 1
        /\ Linked(dtd.scaffold, dtd.scaffCount)
    BY <1>1, <1>4 DEF Collected
  <2>2. DOMAIN dtd.scaffIndex = 0..groupSize - 1
    BY <1>1, <2>1 DEF TablesInStep
  <2>3. dtd.scaffLevel - 1 \in 0..groupSize - 1 /\ dtd.scaffLevel - 1 \in 0..dtd.scaffLevel - 1
    BY <1>2, <2>1
  <2>4. OpenNode \in 0..dtd.scaffCount - 1
    BY <2>1, <2>3 DEF OpenNode
  <2>5. 0..dtd.scaffCount - 1 \subseteq DOMAIN dtd.scaffold
    BY <1>1 DEF TypeOK, DtdType
  <2> QED
    BY <2>1, <2>2, <2>3, <2>4, <2>5 DEF Linked
<1> QED
  BY <1>3, <1>4 DEF IndexesInBounds

-----------------------------------------------------------------------------
(* The tables are as long as their sizes say and the scaffold holds no more  *)
(* nodes than were allocated, in every state of doProlog.                    *)
THEOREM TypeCorrect == Spec => []TypeOK
<1>1. IndInv => TypeOK
  BY DEF IndInv
<1> QED
  BY InitInv, Inductive, <1>1, PTL DEF Spec

(* doProlog uses no index outside of its table while it reads an element     *)
(* declaration, however deep the declaration nests, wherever the handler is  *)
(* set or removed, whichever allocation fails and after any reset.           *)
THEOREM ContentModelInBounds == Spec => []IndexesInBounds
BY InitInv, Inductive, InBounds, PTL DEF Spec

=============================================================================
