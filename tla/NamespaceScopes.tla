--------------------------- MODULE NamespaceScopes ---------------------------
(***************************************************************************)
(* What a parser with namespace processing promises: each element has a    *)
(* scope of its own, a map from prefixes to namespaces, and names are      *)
(* expanded in the scope of the element they belong to; its end tag gets   *)
(* the name its start tag got.                                             *)
(***************************************************************************)
EXTENDS NamespaceNames, SequencesExt

VARIABLES
  state,    \* "new", "open", "ended" or an error
  base,     \* the scope that is not of an element
  open,     \* the open elements, the innermost first
  outer,    \* these three of the entities that wait for this one to be parsed
  read,     \* the tag the last step read
  calls     \* what it called

doc == <<state, base, open>>
vars == <<doc, outer, read, calls>>

Unbound == [q \in PrefixTable |-> None]
NewDoc == <<"new", Unbound, <<>>>>
Failed(error) == <<error, Unbound, <<>>>>

Init == doc = NewDoc /\ outer = <<>> /\ read = NoTag /\ calls = <<>>

Scope == IF open = <<>> THEN base ELSE Head(open).env

-----------------------------------------------------------------------------
(* The attributes of a start tag, those it is given by default among them.   *)
AllAtts(el, atts) ==
  atts \o SelectSeq(Defaults[el], LAMBDA d : \A i \in DOMAIN atts : atts[i].id # d.id)
Declarations(el, atts) == SelectSeq(AllAtts(el, atts), LAMBDA a : a.id.xmlns)
Others(el, atts) == SelectSeq(AllAtts(el, atts), LAMBDA a : ~a.id.xmlns)

NewScope(el, atts) ==
  LET decls == Declarations(el, atts)
      around == Scope
  IN  [q \in PrefixTable |->
         IF \E i \in DOMAIN decls : decls[i].id.prefix = q
         THEN LET uri == decls[CHOOSE i \in DOMAIN decls : decls[i].id.prefix = q].value
              IN  IF uri = "" THEN None ELSE uri
         ELSE around[q]]

ElementName(env, el) ==
  IF env[el.prefix] = None THEN Name("", el.local, "") ELSE Name(env[el.prefix], el.local, el.prefix)
AttName(env, id) ==
  IF id.prefix = "" THEN Name("", id.local, "") ELSE Name(env[id.prefix], id.local, id.prefix)

(* The rules a declaration may break.  Only the default namespace may be     *)
(* undeclared; xmlns is not declared, xml only as what it is, and nothing    *)
(* else as their namespaces.                                                 *)
Broken(prefix, uri) ==
  LET rule == [UNDECLARING_PREFIX     |-> uri = "" => prefix = "",
               RESERVED_PREFIX_XMLNS  |-> prefix # "xmlns",
               RESERVED_PREFIX_XML    |-> prefix = "xml" => uri = XmlNamespace,
               RESERVED_NAMESPACE_URI |-> /\ uri = XmlNamespace => prefix = "xml"
                                          /\ uri # XmlnsNamespace]
  IN  {e \in DOMAIN rule : ~rule[e]}

(* Everything that is wrong with a start tag.  Two attributes are the same   *)
(* when they are written so, or when their prefixes mean the same.           *)
Errors(el, atts, env) ==
  LET decls == Declarations(el, atts)
      others == Others(el, atts)
      bound(i) == others[i].id.prefix # "" /\ env[others[i].id.prefix] # None
      same(i, j) == /\ env[others[i].id.prefix] = env[others[j].id.prefix]
                    /\ others[i].id.local = others[j].id.local
  IN  UNION {Broken(decls[i].id.prefix, decls[i].value) : i \in DOMAIN decls}
      \cup (IF \/ \E i, j \in DOMAIN atts : i # j /\ atts[i].id = atts[j].id
               \/ \E i, j \in DOMAIN others : i # j /\ bound(i) /\ bound(j) /\ same(i, j)
            THEN {"DUPLICATE_ATTRIBUTE"} ELSE {})
      \cup (IF \/ \E i \in DOMAIN others : others[i].id.prefix # "" /\ ~bound(i)
               \/ el.prefix # "" /\ env[el.prefix] = None
            THEN {"UNBOUND_PREFIX"} ELSE {})

Started(el, atts, env) ==
  LET decls == Declarations(el, atts)
      others == Others(el, atts)
  IN  [i \in DOMAIN decls |-> StartNamespaceDecl(decls[i].id.prefix, decls[i].value)]
      \o <<StartElement(ElementName(env, el),
                        [i \in DOMAIN others |-> AttName(env, others[i].id)])>>
Ended(prefixes) == [i \in DOMAIN prefixes |-> EndNamespaceDecl(prefixes[i])]

(* The scope ends in the reverse of the order it began in.                   *)
Prefixed(el, atts) ==
  Reverse([i \in DOMAIN Declarations(el, atts) |-> Declarations(el, atts)[i].id.prefix])

-----------------------------------------------------------------------------
Begin ==
  /\ read' = NoTag /\ calls' = <<>>
  /\ state = "new" /\ state' = "open"
  /\ base' = [base EXCEPT !["xml"] = XmlNamespace]
  /\ UNCHANGED <<open, outer>>

After(rest) == IF rest = <<>> /\ outer = <<>> THEN "ended" ELSE "open"

(* A tag that is right begins an element, a wrong one does not.              *)
StartTag(el, atts, env) ==
  /\ read' = Tag("start", el, atts)
  /\ Errors(el, atts, env) = {}
  /\ open' = <<[name |-> ElementName(env, el), env |-> env, prefixes |-> Prefixed(el, atts)]>>
             \o open
  /\ calls' = Started(el, atts, env)
  /\ UNCHANGED <<state, base, outer>>

EmptyTag(el, atts, env) ==
  /\ read' = Tag("empty", el, atts)
  /\ Errors(el, atts, env) = {}
  /\ state' = After(open)
  /\ calls' = Started(el, atts, env) \o <<EndElement(ElementName(env, el))>>
              \o Ended(Prefixed(el, atts))
  /\ UNCHANGED <<base, open, outer>>

WrongTag(el, atts, env) ==
  /\ read' \in {Tag("start", el, atts), Tag("empty", el, atts)}
  /\ state' \in Errors(el, atts, env)
  /\ doc' = Failed(state')
  /\ \A i \in DOMAIN calls' : calls'[i].call \in {"StartNamespaceDecl", "EndNamespaceDecl"}
  /\ UNCHANGED outer

ReadTag ==
  \E el \in Elements : \E atts \in AttLists[el] :
    /\ read'.el = el /\ read'.atts = atts
    /\ state = "open"
    /\ LET env == NewScope(el, atts)
       IN  StartTag(el, atts, env) \/ EmptyTag(el, atts, env) \/ WrongTag(el, atts, env)

EndTag ==
  /\ read' = NoTag
  /\ state = "open" /\ open # <<>>
  /\ open' = Tail(open) /\ state' = After(Tail(open))
  /\ calls' = <<EndElement(Head(open).name)>> \o Ended(Head(open).prefixes)
  /\ UNCHANGED <<base, outer>>

MismatchedEndTag ==
  /\ read' = NoTag /\ calls' = <<>>
  /\ state = "open" /\ open # <<>>
  /\ doc' = Failed("TAG_MISMATCH")
  /\ UNCHANGED outer

(* An external entity is parsed in the scope of the reference to it.         *)
Enter ==
  /\ read' = NoTag /\ calls' = <<>>
  /\ state = "open" /\ open # <<>>
  /\ outer' = <<doc>> \o outer
  /\ doc' = <<"open", Scope, <<>>>>

Leave ==
  /\ read' = NoTag /\ calls' = <<>>
  /\ outer # <<>>
  /\ doc' \in {Head(outer), Failed("EXTERNAL_ENTITY_HANDLING")}
  /\ outer' = Tail(outer)

Restart ==
  /\ read' = NoTag /\ calls' = <<>>
  /\ outer = <<>> /\ doc' = NewDoc
  /\ UNCHANGED outer

Next ==
  ReadTag \/ Begin \/ EndTag \/ MismatchedEndTag \/ Enter \/ Leave \/ Restart

Spec == Init /\ [][Next]_vars

=============================================================================
