---------------------------- MODULE MCNamespaces ----------------------------
(***************************************************************************)
(* Three prefixes besides xml and xmlns, two namespaces, four element      *)
(* types: one with a name too long for the buffer of a new binding and one *)
(* with a declaration and an attribute by default.                         *)
(***************************************************************************)
EXTENDS Namespaces

MCPrefixTable == {"", "p", "q", "xml", "xmlns"}
Uris == {"u", "v", "", XmlNamespace, XmlnsNamespace}
Locals == {"a", "long", "x"}

Plain == [prefix |-> "", local |-> "a"]
Prefixed == [prefix |-> "p", local |-> "a"]
Long == [prefix |-> "p", local |-> "long"]
Defaulted == [prefix |-> "", local |-> "x"]
MCElements == {Plain, Prefixed, Long, Defaulted}

Att(prefix, local) == [prefix |-> prefix, local |-> local, xmlns |-> FALSE]
xmlns(prefix) == [prefix |-> prefix, local |-> prefix, xmlns |-> TRUE]
Is(att, value) == [id |-> att, value |-> value]

(* The default of q is not taken where the tag itself declares it.           *)
MCDefaults ==
  [el \in MCElements |->
     IF el = Defaulted THEN <<Is(xmlns("q"), "u"), Is(Att("q", "x"), "")>> ELSE <<>>]

Bound(prefix, uri) == Is(xmlns(prefix), uri)
Given(prefix) == Is(Att(prefix, "x"), "")

(* Attributes that are new, again there, without a namespace or the same by  *)
(* their namespace; declarations before and after their use, and refused.    *)
MCAttLists ==
  (Plain :> {<<Bound("", "u")>>, <<Bound("p", "u")>>, <<Bound("xml", "u")>>,
             <<Bound("xmlns", "u")>>, <<Bound("p", XmlNamespace)>>, <<Bound("q", XmlnsNamespace)>>,
             <<Given("p"), Given("q")>>, <<Bound("q", "u"), Bound("q", "u")>>,
             <<Bound("q", "v"), Bound("p", "u"), Given("p"), Given(""), Given("q")>>})
  @@ (Prefixed :> {<<>>, <<Bound("p", "")>>,
                   <<Bound("p", "u"), Given("p"), Is(Att("p", "a"), ""), Given("xml"),
                     Is(Att("xml", "a"), "")>>})
  @@ (Long :> {<<>>})
  @@ (Defaulted :> {<<Given("q"), Bound("q", "v"), Bound("", "")>>,
                    <<Bound("xml", XmlNamespace), Bound("p", "u"), Given("p")>>})

(* XmlNamespace and XmlnsNamespace are as short as "u" here.  Their hashes   *)
(* meet those of "u" and "v" in the table, where they part in different steps.*)
MCLength ==
  [s \in Locals \cup MCPrefixTable \cup Uris |->
     CASE s = "long" -> 4 [] s = "" -> 1 [] OTHER -> 2]
MCHash ==
  [uriName \in Uris \X Locals |->
     CASE uriName[1] = "u" -> 2 [] uriName[1] = "v" -> 18 [] OTHER -> 34]

(* Two states are one for what follows when they differ in what was read and *)
(* called, in where a BINDING is from and what it was before it was freed,   *)
(* in the number of free TAGs when no binding is on them, or in what an      *)
(* error or the end of the document leaves for the reset to forget.          *)
Kept(p) ==
  LET stopped == p.error # None \/ p.state = "ended"
  IN  [p EXCEPT !.binding = [b \in DOMAIN @ |->
                  IF b \in Range(p.freeBindings) \/ stopped THEN [alloc |-> @[b].alloc]
                  ELSE [@[b] EXCEPT !.att = NoAtt]],
                !.freeTags = IF Range(@) \subseteq {<<>>} THEN <<>> ELSE @,
                !.prefixBinding = IF stopped THEN NewParser.prefixBinding ELSE @,
                !.flag = IF stopped THEN NewParser.flag ELSE @]
StateView == <<Kept(parser), [i \in DOMAIN outer |-> Kept(outer[i])], tags, resets>>

=============================================================================
