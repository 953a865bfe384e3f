----------------------------- MODULE PrologRoles -----------------------------
(***************************************************************************)
(* The role automaton of xmlrole.c: XmlTokenRole gives every token of the  *)
(* prolog, of the DTD and of the external subset the role it plays in its  *)
(* declaration.  One row per case of the handler functions, which appear   *)
(* here by name in state.handler.                                          *)
(***************************************************************************)
EXTENDS Integers

(* XML_TOK_NAME, by the keyword the name happens to spell, if any.           *)
AttributeTypes ==
  {"CDATA", "ID", "IDREF", "IDREFS", "ENTITY", "ENTITIES", "NMTOKEN", "NMTOKENS"}
Name ==
  {"NAME", "SYSTEM", "PUBLIC", "NDATA", "EMPTY", "ANY", "NOTATION", "INCLUDE", "IGNORE"}
    \cup AttributeTypes
QName == Name \cup {"PREFIXED_NAME"}
(* XML_TOK_DECL_OPEN and XML_TOK_POUND_NAME, by the keyword too.             *)
DeclOpen == {"<!DOCTYPE", "<!ENTITY", "<!ATTLIST", "<!ELEMENT", "<!NOTATION", "<!"}
PoundName == {"#PCDATA", "#IMPLIED", "#REQUIRED", "#FIXED", "#"}

PrologTokens ==
  QName \cup DeclOpen \cup PoundName \cup
  {"S", "XML_DECL", "PI", "COMMENT", "BOM", "INSTANCE_START", "DECL_CLOSE",
   "OPEN_BRACKET", "CLOSE_BRACKET", "LITERAL", "PARAM_ENTITY_REF", "PERCENT",
   "NMTOKEN_TOK", "NONE", "OPEN_PAREN", "CLOSE_PAREN", "CLOSE_PAREN_QUESTION",
   "CLOSE_PAREN_ASTERISK", "CLOSE_PAREN_PLUS", "NAME_QUESTION", "NAME_ASTERISK",
   "NAME_PLUS", "COMMA", "OR", "COND_SECT_OPEN", "COND_SECT_CLOSE"}

Prolog == {"prolog0", "prolog1", "prolog2"}
Doctype == {"doctype0", "doctype1", "doctype2", "doctype3", "doctype4", "doctype5"}
Subset == {"internalSubset", "externalSubset0", "externalSubset1",
           "condSect0", "condSect1", "condSect2"}
EntityDecl == {"entity0", "entity1", "entity2", "entity3", "entity4", "entity5",
               "entity6", "entity7", "entity8", "entity9", "entity10"}
NotationDecl == {"notation0", "notation1", "notation2", "notation3", "notation4"}
AttlistDecl == {"attlist0", "attlist1", "attlist2", "attlist3", "attlist4",
                "attlist5", "attlist6", "attlist7", "attlist8", "attlist9"}
ElementDecl == {"element0", "element1", "element2", "element3", "element4",
                "element5", "element6", "element7"}
Handlers == Prolog \cup Doctype \cup Subset \cup EntityDecl \cup NotationDecl
              \cup AttlistDecl \cup ElementDecl \cup {"declClose", "error"}

NoneRoles == {"NONE", "DOCTYPE_NONE", "ENTITY_NONE", "NOTATION_NONE",
              "ATTLIST_NONE", "ELEMENT_NONE"}

(* PROLOG_STATE.                                                             *)
PrologStates ==
  [handler: Handlers, level: Nat, role_none: NoneRoles, includeLevel: Nat,
   documentEntity: BOOLEAN]

XmlPrologStateInit ==
  [handler |-> "prolog0", level |-> 0, role_none |-> "NONE", includeLevel |-> 0,
   documentEntity |-> TRUE]
XmlPrologStateInitExternalEntity ==
  [XmlPrologStateInit EXCEPT !.handler = "externalSubset0", !.documentEntity = FALSE]

-----------------------------------------------------------------------------
Stay(state, role) == [state |-> state, role |-> role]
To(state, handler, role) == Stay([state EXCEPT !.handler = handler], role)
(* The declaration is complete but for its ">".                              *)
ToClose(state, none, role) ==
  Stay([state EXCEPT !.handler = "declClose", !.role_none = none], role)
setTopLevel(state, role) ==
  To(state, IF state.documentEntity THEN "internalSubset" ELSE "externalSubset1", role)

common(state, tok) ==
  IF ~state.documentEntity /\ tok = "PARAM_ENTITY_REF"
  THEN Stay(state, "INNER_PARAM_ENTITY_REF")
  ELSE To(state, "error", "ERROR")

(* White space: no handler but the first ones of a text moves on it.         *)
Space(state) ==
  LET h == state.handler
  IN  CASE h = "prolog0"         -> To(state, "prolog1", "NONE")
        [] h = "externalSubset0" -> To(state, "externalSubset1", "NONE")
        [] h \in Doctype         -> Stay(state, "DOCTYPE_NONE")
        [] h \in EntityDecl      -> Stay(state, "ENTITY_NONE")
        [] h \in NotationDecl    -> Stay(state, "NOTATION_NONE")
        [] h \in AttlistDecl     -> Stay(state, "ATTLIST_NONE")
        [] h \in ElementDecl     -> Stay(state, "ELEMENT_NONE")
        [] h = "declClose"       -> Stay(state, state.role_none)
        [] OTHER                 -> Stay(state, "NONE")

prolog(state, tok) ==
  LET At(h) == state.handler = h
      next == IF At("prolog0") THEN "prolog1" ELSE state.handler
  IN  CASE At("prolog0") /\ tok = "XML_DECL" -> To(state, next, "XML_DECL")
        [] tok \in {"PI", "COMMENT"}         -> To(state, next, tok)
        [] tok = "BOM" /\ ~At("prolog2")     -> Stay(state, "NONE")
        [] tok = "<!DOCTYPE" /\ ~At("prolog2") -> To(state, "doctype0", "DOCTYPE_NONE")
        [] tok = "INSTANCE_START"            -> To(state, "error", "INSTANCE_START")
        [] OTHER                             -> common(state, tok)

doctype(state, tok) ==
  LET At(hs) == state.handler \in hs
  IN  CASE At({"doctype0"}) /\ tok \in QName -> To(state, "doctype1", "DOCTYPE_NAME")
        [] At({"doctype1", "doctype4"}) /\ tok = "OPEN_BRACKET" ->
             To(state, "internalSubset", "DOCTYPE_INTERNAL_SUBSET")
        [] At({"doctype1", "doctype4", "doctype5"}) /\ tok = "DECL_CLOSE" ->
             To(state, "prolog2", "DOCTYPE_CLOSE")
        [] At({"doctype1"}) /\ tok = "SYSTEM"  -> To(state, "doctype3", "DOCTYPE_NONE")
        [] At({"doctype1"}) /\ tok = "PUBLIC"  -> To(state, "doctype2", "DOCTYPE_NONE")
        [] At({"doctype2"}) /\ tok = "LITERAL" -> To(state, "doctype3", "DOCTYPE_PUBLIC_ID")
        [] At({"doctype3"}) /\ tok = "LITERAL" -> To(state, "doctype4", "DOCTYPE_SYSTEM_ID")
        [] OTHER                               -> common(state, tok)

internalSubset(state, tok) ==
  CASE tok = "<!ENTITY"       -> To(state, "entity0", "ENTITY_NONE")
    [] tok = "<!ATTLIST"      -> To(state, "attlist0", "ATTLIST_NONE")
    [] tok = "<!ELEMENT"      -> To(state, "element0", "ELEMENT_NONE")
    [] tok = "<!NOTATION"     -> To(state, "notation0", "NOTATION_NONE")
    [] tok \in {"PI", "COMMENT", "PARAM_ENTITY_REF", "NONE"} -> Stay(state, tok)
    [] tok = "CLOSE_BRACKET"  -> To(state, "doctype5", "DOCTYPE_NONE")
    [] OTHER                  -> common(state, tok)

(* Conditional sections.                                                     *)
externalSubset1(state, tok) ==
  CASE tok = "COND_SECT_OPEN" -> To(state, "condSect0", "NONE")
    [] tok = "COND_SECT_CLOSE" /\ state.includeLevel > 0 ->
         Stay([state EXCEPT !.includeLevel = @ - 1], "NONE")
    [] tok = "NONE" /\ state.includeLevel = 0 -> Stay(state, "NONE")
    [] \/ tok = "COND_SECT_CLOSE" /\ state.includeLevel = 0
       \/ tok = "CLOSE_BRACKET"
       \/ tok = "NONE" /\ state.includeLevel > 0 -> common(state, tok)
    [] OTHER -> internalSubset(state, tok)

externalSubset0(state, tok) ==
  IF tok = "XML_DECL" THEN To(state, "externalSubset1", "TEXT_DECL")
  ELSE externalSubset1([state EXCEPT !.handler = "externalSubset1"], tok)

condSect(state, tok) ==
  LET At(h) == state.handler = h
  IN  CASE At("condSect0") /\ tok = "INCLUDE" -> To(state, "condSect1", "NONE")
        [] At("condSect0") /\ tok = "IGNORE"  -> To(state, "condSect2", "NONE")
        [] At("condSect1") /\ tok = "OPEN_BRACKET" ->
             To([state EXCEPT !.includeLevel = @ + 1], "externalSubset1", "NONE")
        [] At("condSect2") /\ tok = "OPEN_BRACKET" ->
             To(state, "externalSubset1", "IGNORE_SECT")
        [] OTHER -> common(state, tok)

entity(state, tok) ==
  LET At(hs) == state.handler \in hs
  IN  CASE At({"entity0"}) /\ tok = "PERCENT" -> To(state, "entity1", "ENTITY_NONE")
        [] At({"entity0"}) /\ tok \in Name    -> To(state, "entity2", "GENERAL_ENTITY_NAME")
        [] At({"entity1"}) /\ tok \in Name    -> To(state, "entity7", "PARAM_ENTITY_NAME")
        [] At({"entity2"}) /\ tok = "SYSTEM"  -> To(state, "entity4", "ENTITY_NONE")
        [] At({"entity2"}) /\ tok = "PUBLIC"  -> To(state, "entity3", "ENTITY_NONE")
        [] At({"entity2", "entity7"}) /\ tok = "LITERAL" ->
             ToClose(state, "ENTITY_NONE", "ENTITY_VALUE")
        [] At({"entity3"}) /\ tok = "LITERAL" -> To(state, "entity4", "ENTITY_PUBLIC_ID")
        [] At({"entity4"}) /\ tok = "LITERAL" -> To(state, "entity5", "ENTITY_SYSTEM_ID")
        [] At({"entity5", "entity10"}) /\ tok = "DECL_CLOSE" ->
             setTopLevel(state, "ENTITY_COMPLETE")
        [] At({"entity5"}) /\ tok = "NDATA"   -> To(state, "entity6", "ENTITY_NONE")
        [] At({"entity6"}) /\ tok \in Name    -> ToClose(state, "ENTITY_NONE", "ENTITY_NOTATION_NAME")
        [] At({"entity7"}) /\ tok = "SYSTEM"  -> To(state, "entity9", "ENTITY_NONE")
        [] At({"entity7"}) /\ tok = "PUBLIC"  -> To(state, "entity8", "ENTITY_NONE")
        [] At({"entity8"}) /\ tok = "LITERAL" -> To(state, "entity9", "ENTITY_PUBLIC_ID")
        [] At({"entity9"}) /\ tok = "LITERAL" -> To(state, "entity10", "ENTITY_SYSTEM_ID")
        [] OTHER -> common(state, tok)

notation(state, tok) ==
  LET At(hs) == state.handler \in hs
  IN  CASE At({"notation0"}) /\ tok \in Name    -> To(state, "notation1", "NOTATION_NAME")
        [] At({"notation1"}) /\ tok = "SYSTEM"  -> To(state, "notation3", "NOTATION_NONE")
        [] At({"notation1"}) /\ tok = "PUBLIC"  -> To(state, "notation2", "NOTATION_NONE")
        [] At({"notation2"}) /\ tok = "LITERAL" -> To(state, "notation4", "NOTATION_PUBLIC_ID")
        [] At({"notation3", "notation4"}) /\ tok = "LITERAL" ->
             ToClose(state, "NOTATION_NONE", "NOTATION_SYSTEM_ID")
        [] At({"notation4"}) /\ tok = "DECL_CLOSE" ->
             setTopLevel(state, "NOTATION_NO_SYSTEM_ID")
        [] OTHER -> common(state, tok)

attlist(state, tok) ==
  LET At(hs) == state.handler \in hs
  IN  CASE At({"attlist0"}) /\ tok \in QName -> To(state, "attlist1", "ATTLIST_ELEMENT_NAME")
        [] At({"attlist1"}) /\ tok = "DECL_CLOSE" -> setTopLevel(state, "ATTLIST_NONE")
        [] At({"attlist1"}) /\ tok \in QName -> To(state, "attlist2", "ATTRIBUTE_NAME")
        [] At({"attlist2"}) /\ tok \in AttributeTypes ->
             To(state, "attlist8", CASE tok = "CDATA" -> "ATTRIBUTE_TYPE_CDATA"
                                     [] tok = "ID"    -> "ATTRIBUTE_TYPE_ID"
                                     [] OTHER         -> "ATTRIBUTE_TYPE_OTHER")
        [] At({"attlist2"}) /\ tok = "NOTATION"   -> To(state, "attlist5", "ATTLIST_NONE")
        [] At({"attlist2"}) /\ tok = "OPEN_PAREN" -> To(state, "attlist3", "ATTLIST_NONE")
        [] At({"attlist3"}) /\ tok \in QName \cup {"NMTOKEN_TOK"} ->
             To(state, "attlist4", "ATTRIBUTE_ENUM_VALUE")
        [] At({"attlist4", "attlist7"}) /\ tok = "CLOSE_PAREN" ->
             To(state, "attlist8", "ATTLIST_NONE")
        [] At({"attlist4"}) /\ tok = "OR"         -> To(state, "attlist3", "ATTLIST_NONE")
        [] At({"attlist5"}) /\ tok = "OPEN_PAREN" -> To(state, "attlist6", "ATTLIST_NONE")
        [] At({"attlist6"}) /\ tok \in Name ->
             To(state, "attlist7", "ATTRIBUTE_NOTATION_VALUE")
        [] At({"attlist7"}) /\ tok = "OR"         -> To(state, "attlist6", "ATTLIST_NONE")
        [] At({"attlist8"}) /\ tok = "#IMPLIED" ->
             To(state, "attlist1", "IMPLIED_ATTRIBUTE_VALUE")
        [] At({"attlist8"}) /\ tok = "#REQUIRED" ->
             To(state, "attlist1", "REQUIRED_ATTRIBUTE_VALUE")
        [] At({"attlist8"}) /\ tok = "#FIXED"     -> To(state, "attlist9", "ATTLIST_NONE")
        [] At({"attlist8"}) /\ tok = "LITERAL" ->
             To(state, "attlist1", "DEFAULT_ATTRIBUTE_VALUE")
        [] At({"attlist9"}) /\ tok = "LITERAL" ->
             To(state, "attlist1", "FIXED_ATTRIBUTE_VALUE")
        [] OTHER -> common(state, tok)

(* Content particles and ends of groups, with their roles.                   *)
ContentRole(tok) ==
  CASE tok = "NAME_QUESTION" -> "CONTENT_ELEMENT_OPT"
    [] tok = "NAME_ASTERISK" -> "CONTENT_ELEMENT_REP"
    [] tok = "NAME_PLUS"     -> "CONTENT_ELEMENT_PLUS"
    [] OTHER                 -> "CONTENT_ELEMENT"
CloseRole(tok) ==
  CASE tok = "CLOSE_PAREN_QUESTION" -> "GROUP_CLOSE_OPT"
    [] tok = "CLOSE_PAREN_ASTERISK" -> "GROUP_CLOSE_REP"
    [] tok = "CLOSE_PAREN_PLUS"     -> "GROUP_CLOSE_PLUS"
    [] OTHER                        -> "GROUP_CLOSE"
Particle == QName \cup {"NAME_QUESTION", "NAME_ASTERISK", "NAME_PLUS"}
GroupEnd == {"CLOSE_PAREN", "CLOSE_PAREN_QUESTION", "CLOSE_PAREN_ASTERISK", "CLOSE_PAREN_PLUS"}

(* Mutant: the outermost group is taken for one of its groups.               *)
closeGroupLate(state, tok) == Stay([state EXCEPT !.level = @ - 1], CloseRole(tok))

closeGroup(state, tok) ==
  IF state.level = 1
  THEN ToClose([state EXCEPT !.level = 0], "ELEMENT_NONE", CloseRole(tok))
  ELSE Stay([state EXCEPT !.level = @ - 1], CloseRole(tok))

element(state, tok) ==
  LET At(hs) == state.handler \in hs
  IN  CASE At({"element0"}) /\ tok \in QName -> To(state, "element1", "ELEMENT_NAME")
        [] At({"element1"}) /\ tok = "EMPTY" -> ToClose(state, "ELEMENT_NONE", "CONTENT_EMPTY")
        [] At({"element1"}) /\ tok = "ANY"   -> ToClose(state, "ELEMENT_NONE", "CONTENT_ANY")
        [] At({"element1"}) /\ tok = "OPEN_PAREN" ->
             To([state EXCEPT !.level = 1], "element2", "GROUP_OPEN")
        [] At({"element2"}) /\ tok = "#PCDATA" -> To(state, "element3", "CONTENT_PCDATA")
        [] At({"element2"}) /\ tok = "OPEN_PAREN" ->
             To([state EXCEPT !.level = 2], "element6", "GROUP_OPEN")
        [] At({"element3"}) /\ tok = "CLOSE_PAREN" ->
             ToClose(state, "ELEMENT_NONE", "GROUP_CLOSE")
        [] At({"element3", "element5"}) /\ tok = "CLOSE_PAREN_ASTERISK" ->
             ToClose(state, "ELEMENT_NONE", "GROUP_CLOSE_REP")
        [] At({"element3", "element5"}) /\ tok = "OR" -> To(state, "element4", "ELEMENT_NONE")
        [] At({"element4"}) /\ tok \in QName -> To(state, "element5", "CONTENT_ELEMENT")
        [] At({"element6"}) /\ tok = "OPEN_PAREN" ->
             Stay([state EXCEPT !.level = @ + 1], "GROUP_OPEN")
        [] At({"element2", "element6"}) /\ tok \in Particle ->
             To(state, "element7", ContentRole(tok))
        [] At({"element7"}) /\ tok \in GroupEnd -> closeGroup(state, tok)
        [] At({"element7"}) /\ tok = "COMMA" -> To(state, "element6", "GROUP_SEQUENCE")
        [] At({"element7"}) /\ tok = "OR"    -> To(state, "element6", "GROUP_CHOICE")
        [] OTHER -> common(state, tok)

declClose(state, tok) ==
  IF tok = "DECL_CLOSE" THEN setTopLevel(state, state.role_none) ELSE common(state, tok)

(* The role of tok, and the state after it.                                  *)
XmlTokenRole(state, tok) ==
  LET h == state.handler
  IN  CASE tok = "S"               -> Space(state)
        [] tok # "S" /\ h \in Prolog       -> prolog(state, tok)
        [] tok # "S" /\ h \in Doctype      -> doctype(state, tok)
        [] tok # "S" /\ h = "internalSubset"  -> internalSubset(state, tok)
        [] tok # "S" /\ h = "externalSubset0" -> externalSubset0(state, tok)
        [] tok # "S" /\ h = "externalSubset1" -> externalSubset1(state, tok)
        [] tok # "S" /\ h \in {"condSect0", "condSect1", "condSect2"} -> condSect(state, tok)
        [] tok # "S" /\ h \in EntityDecl   -> entity(state, tok)
        [] tok # "S" /\ h \in NotationDecl -> notation(state, tok)
        [] tok # "S" /\ h \in AttlistDecl  -> attlist(state, tok)
        [] tok # "S" /\ h \in ElementDecl  -> element(state, tok)
        [] tok # "S" /\ h = "declClose"    -> declClose(state, tok)
        [] tok # "S" /\ h = "error"        -> Stay(state, "NONE")

=============================================================================
