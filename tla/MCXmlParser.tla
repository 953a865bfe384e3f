---------------------------- MODULE MCXmlParser ------------------------------
(***************************************************************************)
(* Instances of XmlParser for TLC: families of small documents, and what   *)
(* the runs check.  Each run's cfg picks its family and its parameters.    *)
(***************************************************************************)
EXTENDS XmlParser, DocumentMeaning, TLC

Chars == [k |-> "chars", n |-> "-"]
Cr == [k |-> "cr", n |-> "-"]
Pi == [k |-> "pi", n |-> "-"]
Bad == [k |-> "bad", n |-> "-"]
Frag == [k |-> "frag", n |-> "-"]
CdataOpen == [k |-> "cdopen", n |-> "-"]
CdataEnd == [k |-> "cdclose", n |-> "-"]
S(n) == [k |-> "start", n |-> n]
E(n) == [k |-> "end", n |-> n]
M(n) == [k |-> "empty", n |-> n]
Ref(n) == [k |-> "ref", n |-> n]

AtMost(n, toks) == UNION {[1..i -> toks] : i \in 0..n}
Join(ps, bs, ts) == {p \o b \o t : p \in ps, b \in bs, t \in ts}

MCNames == {"a", "b"}
MCEntities == {"outer", "nest", "inner", "loop", "half", "bare", "elem", "cdata"}
(* outer ends with a reference to inner, nest begins with one; loop refers   *)
(* to itself; bare opens an element it does not close; half ends inside of   *)
(* a token; elem is balanced; cdata holds a CDATA section.                   *)
MCText ==
  [e \in MCEntities |->
     CASE e = "outer" -> <<Chars, Ref("inner")>>
       [] e = "nest"  -> <<Ref("inner"), Chars>>
       [] e = "inner" -> <<S("b"), Chars, E("b"), Cr>>
       [] e = "loop"  -> <<Chars, Ref("loop")>>
       [] e = "half"  -> <<S("b"), Frag>>
       [] e = "bare"  -> <<S("b")>>
       [] e = "elem"  -> <<Chars, S("b"), Chars, E("b")>>
       [] e = "cdata" -> <<CdataOpen, S("b"), CdataEnd, Chars>>]

(* Documents with every kind of token, well-formed and not.                  *)
MainDocs ==
  LET body == {Chars, Cr, S("b"), E("b"), M("b"), Ref("outer"), Ref("loop"),
               Ref("bare"), Ref("cdata"), CdataOpen, CdataEnd, Bad}
  IN  Join({<<S("a")>>}, AtMost(2, body), {<<E("a")>>, <<E("a"), Cr>>})
      \cup Join({<<S("a")>>}, AtMost(1, body), {<<>>, <<E("a"), Pi, Frag>>})
      \cup Join({<<>>, <<Cr, Pi>>}, AtMost(1, body \cup {Ref("undeclared")}),
                {<<>>, <<Frag>>, <<M("a"), Cr, Pi>>})
      \cup {<<S("a"), CdataOpen, Chars, CdataEnd, E("a"), Chars>>,
            <<S("a"), S("b"), S("b"), E("b"), E("b"), E("a")>>,
            <<M("a"), M("b")>>}

(* Documents with references to entities that refer to nothing themselves;   *)
(* no element is opened in the document after the reference.                 *)
EntityDocs ==
  Join({<<S("a")>>}, {<<S("b")>>, <<Pi, Ref("elem")>>},
       Join({<<Ref("elem")>>}, AtMost(1, {M("b"), E("b"), Ref("elem"), Pi}),
            {<<E("b"), E("a")>>, <<E("a"), Pi>>}) \cup {<<Ref("half"), Pi>>})

(* External general entities: no document element, any number of elements.   *)
(* A reference right after a CDATA section is left out: a parser that the    *)
(* handler of its end suspended reads on, and is suspended in the entity.    *)
ExternalDocs ==
  {d \in Join(AtMost(1, {S("b"), Chars, CdataOpen}),
              AtMost(2, {S("b"), E("b"), M("b"), Ref("outer"), Cr, CdataEnd}),
              {<<>>, <<Frag>>}) :
     \A i \in 2..Len(d) : d[i].k = "ref" => d[i - 1].k # "cdclose"}

ResetDocs ==
  {<<S("a"), S("b"), Ref("elem"), E("b"), E("a")>>, <<S("a"), Ref("half"), Bad>>,
   <<S("a"), Pi, S("b"), Chars>>}

AllMainDocs == MainDocs \cup ExternalDocs
AllEntityDocs == EntityDocs \cup ResetDocs

(* One document for each way in which suspension inside an entity matters,   *)
(* and some with more tokens.                                                *)
AnyExternalDocs == {<<Ref("elem"), E("a")>>, <<Ref("elem"), Chars, M("b"), Cr>>}
AnyDocs ==
  AnyExternalDocs \cup
  {<<S("a"), Ref("elem"), S("b"), E("b"), E("a")>>,
   <<S("a"), Ref("nest"), Chars, E("a")>>,
   <<S("a"), Ref("outer"), Chars, E("a")>>,
   <<S("a"), Ref("cdata"), Chars, E("a")>>,
   <<S("a"), Ref("bare"), E("b"), E("a")>>,
   <<Pi, S("a"), Ref("outer"), CdataOpen, Chars, CdataEnd, E("a"), Cr>>,
   <<S("a"), S("b"), Chars, E("b"), Cr, E("a"), Pi>>,
   <<S("a"), Ref("loop"), E("a")>>,
   <<S("a"), CdataOpen, Chars>>,
   <<M("a"), Frag>>}

NoDocs == {}
RawNameDocs == {<<S("a"), Ref("elem"), S("b"), E("b"), E("a")>>}
NestedDocs == {<<S("a"), Ref("nest"), E("a")>>}
CdataDocs == {<<S("a"), CdataOpen, Chars, CdataEnd, E("a")>>}
PrologDocs == {<<Pi, Cr>>}

(* @@ makes TLC compute the table once.                                      *)
MeaningOf == [d \in Docs |-> Meaning(d)] @@ <<>>

Script(d) == MeaningOf[d].events
Verdict(d) == MeaningOf[d].err

(* However the document is cut into buffers and wherever handlers suspend,   *)
(* the application sees the callbacks of the document, each once and in      *)
(* order, and the verdict the document calls for.                            *)
Reader ==
  INSTANCE DocumentReader WITH
    aborted <- parsing = "FINISHED" /\ verdict \in {"none", "ABORTED"}
ImplementsReader == Reader!Spec

(* A parser accepts a document only when it reported all of it.              *)
AcceptedIsComplete ==
  verdict = "ok" => events = Script(doc) /\ Verdict(doc) = "NONE"

=============================================================================
