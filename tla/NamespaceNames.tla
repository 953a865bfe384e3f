---------------------------- MODULE NamespaceNames ----------------------------
(***************************************************************************)
(* What the namespaces of a document are about: the names its tags are     *)
(* written with, and the calls and names its application is given.         *)
(***************************************************************************)
EXTENDS Integers, Sequences

CONSTANTS
  PrefixTable,  \* the prefixes that occur; "" is that of the default namespace
  Elements,     \* the element types: [prefix, local]
  Defaults,     \* the attributes an element type has by default, in order
  AttLists,     \* those its tags have: sequences of [id, value]
  Triplets      \* m_ns_triplets

None == "none"

(* An attribute is [prefix, local, xmlns]; a declaration has xmlns set, and  *)
(* its prefix is the one it declares ("" for the attribute xmlns).           *)
XmlNamespace == "http://www.w3.org/XML/1998/namespace"
XmlnsNamespace == "http://www.w3.org/2000/xmlns/"

Name(uri, local, prefix) ==
  [uri |-> uri, local |-> local, prefix |-> IF Triplets /\ uri # "" THEN prefix ELSE ""]

(* What is read and what is called.                                          *)
Tag(kind, el, atts) == [kind |-> kind, el |-> el, atts |-> atts]
NoTag == Tag(None, [prefix |-> None, local |-> None], <<>>)

StartElement(name, atts) == [call |-> "StartElement", name |-> name, atts |-> atts]
EndElement(name) == [call |-> "EndElement", name |-> name]
StartNamespaceDecl(prefix, uri) == [call |-> "StartNamespaceDecl", prefix |-> prefix, uri |-> uri]
EndNamespaceDecl(prefix) == [call |-> "EndNamespaceDecl", prefix |-> prefix]

=============================================================================
