--------------------------- MODULE DocumentMeaning ---------------------------
(***************************************************************************)
(* What a document means, without buffers, processors or suspension: the   *)
(* callbacks it stands for and the error it must be refused with, read off *)
(* the token sequence in one pass with entity references expanded in       *)
(* place.  The reference the parser of XmlParser is compared with; only    *)
(* TLC evaluates it.                                                       *)
(***************************************************************************)
EXTENDS Documents, SequencesExt

(* stack: the elements opened in this text and not yet closed.               *)
Start(phase) ==
  [events |-> <<>>, err |-> "NONE", stack |-> <<>>, inCdata |-> FALSE, phase |-> phase]

Say(m, evs) ==
  [m EXCEPT !.events = @ \o [i \in 1..Len(evs) |-> [k |-> evs[i][1], n |-> evs[i][2]]]]
Refuse(m, err) == [m EXCEPT !.err = err]
CloseElement(m) ==
  [m EXCEPT !.phase = IF @ = "root" /\ m.stack = <<>> THEN "epilog" ELSE @]

(* Phases: "prolog", "root" and "epilog" of a document entity, "content" of  *)
(* any other entity.                                                         *)
InContent(m, t, Ref(_)) ==
  CASE t.k \in {"bad", "cdclose"} -> Refuse(m, "INVALID_TOKEN")
    [] t.k = "frag"   -> Refuse(m, "UNCLOSED_TOKEN")
    [] t.k = "pi"     -> Say(m, << <<"pi", "-">> >>)
    [] t.k \in {"chars", "cr"} -> Say(m, << <<"chars", "-">> >>)
    [] t.k = "cdopen" -> [Say(m, << <<"cdopen", "-">> >>) EXCEPT !.inCdata = TRUE]
    [] t.k = "ref"    -> [m EXCEPT !.events = @ \o Ref(t.n).events, !.err = Ref(t.n).err]
    [] t.k = "start"  -> [Say(m, << <<"start", t.n>> >>) EXCEPT !.stack = Append(@, t.n)]
    [] t.k = "empty"  -> CloseElement(Say(m, << <<"start", t.n>>, <<"end", t.n>> >>))
    [] t.k = "end" ->
         CASE m.stack = <<>>      -> Refuse(m, "ASYNC_ENTITY")
           [] Last(m.stack) # t.n -> Refuse(m, "TAG_MISMATCH")
           [] OTHER -> CloseElement([Say(m, << <<"end", t.n>> >>) EXCEPT !.stack = Front(@)])

InCdata(m, t, last) ==
  CASE t.k = "bad"     -> Refuse(m, "INVALID_TOKEN")
    [] t.k = "cdclose" -> [Say(m, << <<"cdclose", "-">> >>) EXCEPT !.inCdata = FALSE]
    [] t.k = "frag" \/ (t.k = "cr" /\ last) -> Refuse(m, "UNCLOSED_CDATA_SECTION")
    [] OTHER           -> Say(m, << <<"chars", "-">> >>)

OutsideRoot(m, t) ==
  CASE t.k \in {"bad", "ref", "end"} -> Refuse(m, "INVALID_TOKEN")
    [] t.k = "frag" -> Refuse(m, "UNCLOSED_TOKEN")
    [] t.k = "pi"   -> Say(m, << <<"pi", "-">> >>)
    [] t.k = "cr"   -> Say(m, << <<"chars", "-">> >>)
    [] OTHER -> Refuse(m, IF m.phase = "prolog" THEN "SYNTAX" ELSE "JUNK_AFTER_DOC_ELEMENT")

(* One token; last tells that the text ends with it.                         *)
ReadToken(m, t, last, Ref(_)) ==
  CASE m.err # "NONE" -> m
    [] m.inCdata      -> InCdata(m, t, last)
    [] m.phase \in {"root", "content"} -> InContent(m, t, Ref)
    [] m.phase = "prolog" /\ t.k \in {"start", "empty"} ->
         InContent([m EXCEPT !.phase = "root"], t, Ref)
    [] OTHER -> OutsideRoot(m, t)

(* A whole text, and whether it may end where it ends.                       *)
ReadText(text, phase, Ref(_)) ==
  LET m == FoldLeft(LAMBDA a, i : ReadToken(a, text[i], i = Len(text), Ref),
                    Start(phase), [i \in 1..Len(text) |-> i])
  IN  CASE m.err # "NONE" -> m
        [] m.inCdata      -> Refuse(m, "UNCLOSED_CDATA_SECTION")
        [] m.phase = "content" /\ m.stack # <<>> -> Refuse(m, "ASYNC_ENTITY")
        [] m.phase \in {"prolog", "root"} -> Refuse(m, "NO_ELEMENTS")
        [] OTHER          -> m

(* An entity referred to from inside the entities of open.                   *)
EntityMeaning[open \in SUBSET Entities, e \in Entities \cup {"undeclared"}] ==
  CASE e \notin Entities -> Refuse(Start("content"), "UNDEFINED_ENTITY")
    [] e \in open -> Refuse(Start("content"), "RECURSIVE_ENTITY_REF")
    [] OTHER -> ReadText(Text[e], "content",
                         LAMBDA x : EntityMeaning[open \cup {e}, x])

Meaning(text) ==
  ReadText(text, IF text \in External THEN "content" ELSE "prolog",
           LAMBDA x : EntityMeaning[{}, x])

=============================================================================
