------------------------------ MODULE XmlParser ------------------------------
(***************************************************************************)
(* The life of one expat parser object and the content of one document:   *)
(* XML_Parse, XML_ParseBuffer, XML_ResumeParser, XML_StopParser and        *)
(* XML_ParserReset of xmlparse.c, the processor functions the parser       *)
(* switches between, and doContent, doCdataSection, processInternalEntity  *)
(* and internalEntityProcessor, token by token.                            *)
(*                                                                         *)
(* A document is a sequence of tokens.  The application feeds it in        *)
(* buffers of any length, a buffer may end inside a token (partial), and   *)
(* every handler it installed may call XML_StopParser.  The C activations  *)
(* that are alive during a call are the frames of cstack, so that a step   *)
(* is one token with its callbacks, or one return.                         *)
(***************************************************************************)
EXTENDS Documents

CONSTANTS
  SuspendInEntities, \* may a handler suspend while an internal entity is open?
  MaxResets          \* bound: XML_ParserReset calls

ASSUME BoundsAssumption ==
  /\ SuspendInEntities \in BOOLEAN
  /\ MaxResets \in Nat

VARIABLES
  doc,            \* the document being fed
  avail,          \* tokens of it the parser has been given, m_bufferEnd
  partial,        \* TRUE when some bytes of the next token were given too
  finalBuffer,    \* m_parsingStatus.finalBuffer
  parsing,        \* m_parsingStatus.parsing
  processor,      \* m_processor
  errorCode,      \* m_errorCode
  bufferPtr,      \* m_bufferPtr: tokens the parser is done with
  call,           \* the API function being executed, or "none"
  status,         \* what the last API function returned
  tagLevel,       \* m_tagLevel
  tagStack,       \* m_tagStack, the innermost element last
  openInternalEntities, \* m_openInternalEntities, the innermost entity last
  entityOpen,     \* ENTITY.open
  processed,      \* ENTITY.processed
  pool,           \* records allocated, and records on the free lists
  cstack,         \* the C activations of the running call, the innermost last
  result,         \* the value an activation is returning
  events,         \* history: the callbacks delivered since the last reset
  verdict,        \* history: how parsing of the document ended
  resets

input == <<doc, avail, partial, finalBuffer, resets>>
api == <<processor, errorCode, bufferPtr, call, status, verdict>>
tags == <<tagLevel, tagStack>>
entities == <<openInternalEntities, entityOpen, processed>>
control == <<cstack, result>>
history == <<events, parsing>>
vars == <<input, api, tags, entities, pool, control, history>>

Errors ==
  {"NO_ELEMENTS", "INVALID_TOKEN", "UNCLOSED_TOKEN", "TAG_MISMATCH", "SYNTAX",
   "JUNK_AFTER_DOC_ELEMENT", "UNDEFINED_ENTITY", "RECURSIVE_ENTITY_REF",
   "ASYNC_ENTITY", "UNCLOSED_CDATA_SECTION", "UNEXPECTED_STATE", "SUSPENDED",
   "NOT_SUSPENDED", "FINISHED", "ABORTED"}

Functions == {"doProlog", "doContent", "doCdataSection", "epilogProcessor",
              "externalEntityInitProcessor"}
Processors == {"prologInitProcessor", "prologProcessor", "contentProcessor",
               "externalEntityInitProcessor", "externalEntityContentProcessor",
               "internalEntityProcessor", "cdataSectionProcessor",
               "epilogProcessor", "errorProcessor"}
(* What runs when an activation returns: the rest of the function that      *)
(* called it.  "tail" is the last statement of internalEntityProcessor.     *)
Callers == {"processor", "contentProcessor", "cdataSectionProcessor",
            "internalEntityProcessor", "tail", "processInternalEntity",
            "doContent"}

-----------------------------------------------------------------------------
(* Activations.  s counts the tokens of the text already consumed, lvl is    *)
(* startTagLevel, oe the place of the entity's OPEN_INTERNAL_ENTITY record.  *)
Frame(fn, ent, s, lvl, by, oe) ==
  [fn |-> fn, ent |-> ent, s |-> s, lvl |-> lvl, by |-> by, oe |-> oe]

Pending == [err |-> "pending", next |-> 0, closed |-> FALSE]
Value(err, next, closed) == [err |-> err, next |-> next, closed |-> closed]

Top == cstack[Len(cstack)]
Below == SubSeq(cstack, 1, Len(cstack) - 1)
Replace(f) == Append(Below, f)

Running(fn) ==
  /\ call # "none" /\ result = Pending /\ cstack # <<>>
  /\ Top.fn = fn

Return(err, next) == result' = Value(err, next, FALSE) /\ UNCHANGED cstack
Goto(f) == cstack' = Replace(f) /\ UNCHANGED result
Fail(err) == Return(err, Top.s) /\ UNCHANGED <<input, api, tags, entities, pool, history>>

(* The tokenizer: XmlContentTok and XmlCdataSectionTok on what is available. *)
TextOf(ent) == IF ent = Document THEN doc ELSE Text[ent]
EndOf(f) == IF f.ent = Document THEN avail ELSE Len(Text[f.ent])
HaveMore(f) == f.ent = Document /\ ~finalBuffer
CutOff(f) == f.ent = Document /\ partial
AtEnd(f) == f.s + 1 = EndOf(f) /\ ~CutOff(f)
Tok(f) ==
  IF f.s >= EndOf(f)
  THEN [k |-> IF CutOff(f) THEN "PARTIAL" ELSE "NONE", n |-> "-"]
  ELSE LET t == TextOf(f.ent)[f.s + 1]
       IN  CASE t.k = "frag"              -> [k |-> "PARTIAL", n |-> "-"]
             [] t.k = "cr" /\ AtEnd(f)    -> [k |-> "TRAILING_CR", n |-> "-"]
             [] OTHER                     -> t

-----------------------------------------------------------------------------
(* Callbacks.  A handler may call XML_StopParser any number of times; what   *)
(* matters is the status it leaves behind.                                   *)
AfterHandler ==
  CASE parsing = "SUSPENDED" -> {"SUSPENDED", "FINISHED"}
    [] parsing = "FINISHED"  -> {"FINISHED"}
    [] OTHER -> IF SuspendInEntities \/ openInternalEntities = <<>>
                THEN {"PARSING", "SUSPENDED", "FINISHED"}
                ELSE {"PARSING", "FINISHED"}

Callback(es) == events' = events \o es /\ parsing' \in AfterHandler

Event(k, n) == [k |-> k, n |-> n]

(* Mutants: the token is not consumed before a suspended parser returns; a   *)
(* handler's abort is taken for the end of the buffer.                       *)
LoopTailRereads(f, next) ==
  \/ parsing' = "SUSPENDED" /\ Return("NONE", f.s)
  \/ parsing' = "FINISHED" /\ Return("ABORTED", next)
  \/ parsing' = "PARSING" /\ Goto([f EXCEPT !.s = next])
LoopTailForgetsAbort(f, next) ==
  \/ parsing' \in {"SUSPENDED", "FINISHED"} /\ Return("NONE", next)
  \/ parsing' = "PARSING" /\ Goto([f EXCEPT !.s = next])

(* The end of the token loop: return when a handler stopped the parser, else *)
(* go on with the next token of activation f.                                *)
LoopTail(f, next) ==
  \/ parsing' = "SUSPENDED" /\ Return("NONE", next)
  \/ parsing' = "FINISHED" /\ Return("ABORTED", next)
  \/ parsing' = "PARSING" /\ Goto([f EXCEPT !.s = next])

-----------------------------------------------------------------------------
(* doContent, one action per case of its switch.                             *)
ContentEndOfText ==
  /\ Running("doContent")
  /\ Tok(Top).k = "NONE"
  /\ \/ HaveMore(Top) /\ Return("NONE", Top.s)
     \/ ~HaveMore(Top) /\ Top.lvl = 0 /\ Return("NO_ELEMENTS", Top.s)
     \/ ~HaveMore(Top) /\ Top.lvl > 0
        /\ Return(IF tagLevel # Top.lvl THEN "ASYNC_ENTITY" ELSE "NONE", Top.s)
  /\ UNCHANGED <<input, api, tags, entities, pool, history>>

(* Mutant: a text that ends inside of a token is looked at again and again.  *)
ContentPartialAgain ==
  /\ Running("doContent")
  /\ Tok(Top).k = "PARTIAL"
  /\ UNCHANGED vars

ContentPartial ==
  /\ Running("doContent")
  /\ Tok(Top).k = "PARTIAL"
  /\ Return(IF HaveMore(Top) THEN "NONE" ELSE "UNCLOSED_TOKEN", Top.s)
  /\ UNCHANGED <<input, api, tags, entities, pool, history>>

(* XML_TOK_TRAILING_CR, and XML_TOK_TRAILING_RSQB, which has the same code:  *)
(* what the handler did to the status is not looked at.                      *)
ContentTrailing ==
  /\ Running("doContent")
  /\ Tok(Top).k = "TRAILING_CR"
  /\ \/ HaveMore(Top) /\ Return("NONE", Top.s) /\ UNCHANGED history
     \/ /\ ~HaveMore(Top)
        /\ Callback(<<Event("chars", "-")>>)
        /\ Return(IF Top.lvl = 0 THEN "NO_ELEMENTS"
                  ELSE IF tagLevel # Top.lvl THEN "ASYNC_ENTITY" ELSE "NONE",
                  EndOf(Top))
  /\ UNCHANGED <<input, api, tags, entities, pool>>

ContentInvalid ==
  /\ Running("doContent")
  /\ Tok(Top).k \in {"bad", "cdclose"}
  /\ Fail("INVALID_TOKEN")

(* Character data, character references, newlines, comments and PIs.         *)
ContentData ==
  /\ Running("doContent")
  /\ Tok(Top).k \in {"chars", "cr", "pi"}
  /\ Callback(<<Event(IF Tok(Top).k = "pi" THEN "pi" ELSE "chars", "-")>>)
  /\ LoopTail(Top, Top.s + 1)
  /\ UNCHANGED <<input, api, tags, entities, pool>>

(* Mutant: the free list is used without a look whether it holds a record.   *)
OpenEntityUnchecked(e) ==
  /\ openInternalEntities' = Append(openInternalEntities,
                                    [entity |-> e, startTagLevel |-> tagLevel])
  /\ entityOpen' = [entityOpen EXCEPT ![e] = TRUE]
  /\ processed' = [processed EXCEPT ![e] = 0]
  /\ pool' = [pool EXCEPT !.freeEntities = @ - 1]

(* Mutant: the new record is not linked to the ones before it.               *)
OpenEntityUnlinked(e) ==
  /\ openInternalEntities' = <<[entity |-> e, startTagLevel |-> tagLevel]>>
  /\ entityOpen' = [entityOpen EXCEPT ![e] = TRUE]
  /\ processed' = [processed EXCEPT ![e] = 0]
  /\ pool' = IF pool.freeEntities > 0
             THEN [pool EXCEPT !.freeEntities = @ - 1]
             ELSE [pool EXCEPT !.entities = @ + 1]

(* Push a record on m_openInternalEntities, from the free list if it has one.*)
OpenEntity(e) ==
  /\ openInternalEntities' = Append(openInternalEntities,
                                    [entity |-> e, startTagLevel |-> tagLevel])
  /\ entityOpen' = [entityOpen EXCEPT ![e] = TRUE]
  /\ processed' = [processed EXCEPT ![e] = 0]
  /\ pool' = IF pool.freeEntities > 0
             THEN [pool EXCEPT !.freeEntities = @ - 1]
             ELSE [pool EXCEPT !.entities = @ + 1]

ContentEntityRef ==
  /\ Running("doContent")
  /\ Tok(Top).k = "ref"
  /\ LET e == Tok(Top).n
     IN  \/ e \notin Entities /\ Fail("UNDEFINED_ENTITY")
         \/ /\ e \in Entities
            /\ entityOpen[e]
            /\ Fail("RECURSIVE_ENTITY_REF")
         \/ /\ e \in Entities
            /\ ~entityOpen[e]
            /\ OpenEntity(e)
            /\ cstack' = Append(cstack,
                 Frame("doContent", e, 0, tagLevel, "processInternalEntity",
                       Len(openInternalEntities) + 1))
            /\ UNCHANGED <<input, api, tags, result, history>>

(* rawName points into the text the tag was read from.                       *)
NewTag(n) == [n |-> n, raw |-> IF Top.ent = Document THEN "buffer" ELSE "entity"]

(* Mutants: the level is not counted; the element stays on the stack.        *)
PushTagUncounted(n) ==
  /\ tagStack' = Append(tagStack, NewTag(n))
  /\ UNCHANGED tagLevel
  /\ pool' = IF pool.freeTags > 0 THEN [pool EXCEPT !.freeTags = @ - 1]
             ELSE [pool EXCEPT !.tags = @ + 1]
PopTagKept == UNCHANGED <<tagStack, pool>>

(* A TAG record, from the free list if it has one.                           *)
PushTag(n) ==
  /\ tagStack' = Append(tagStack, NewTag(n))
  /\ tagLevel' = tagLevel + 1
  /\ pool' = IF pool.freeTags > 0 THEN [pool EXCEPT !.freeTags = @ - 1]
             ELSE [pool EXCEPT !.tags = @ + 1]

PopTag ==
  /\ tagStack' = SubSeq(tagStack, 1, Len(tagStack) - 1)
  /\ pool' = [pool EXCEPT !.freeTags = @ + 1]

ContentStartTag ==
  /\ Running("doContent")
  /\ Tok(Top).k = "start"
  /\ PushTag(Tok(Top).n)
  /\ Callback(<<Event("start", Tok(Top).n)>>)
  /\ LoopTail(Top, Top.s + 1)
  /\ UNCHANGED <<input, api, entities>>

(* The end of the document element: the rest of the buffer is epilogue, now  *)
(* or, when a handler suspended, at the resume.                              *)
ToEpilog(f, level) ==
  \/ /\ level = 0 /\ parsing' # "FINISHED"
     /\ processor' = "epilogProcessor"
     /\ \/ parsing' = "SUSPENDED" /\ Return("NONE", f.s + 1)
        \/ parsing' # "SUSPENDED" /\ Goto([f EXCEPT !.fn = "epilogProcessor", !.s = @ + 1])
  \/ /\ ~(level = 0 /\ parsing' # "FINISHED")
     /\ LoopTail(f, f.s + 1)
     /\ UNCHANGED processor

ContentEmptyElement ==
  /\ Running("doContent")
  /\ Tok(Top).k = "empty"
  /\ Callback(<<Event("start", Tok(Top).n), Event("end", Tok(Top).n)>>)
  /\ ToEpilog(Top, tagLevel)
  /\ UNCHANGED <<input, errorCode, bufferPtr, call, status, verdict, tags, entities, pool>>

(* memcmp(tag->rawName, rawName, len): it reads what rawName points to, which *)
(* is some other part of the document once the buffer was moved or reused.    *)
RawNameMatches(tag, n) ==
  IF tag.raw \in {"stale", "garbage"} THEN BOOLEAN ELSE {tag.n = n}

ContentEndTag ==
  /\ Running("doContent")
  /\ Tok(Top).k = "end"
  /\ tagLevel # Top.lvl
  /\ tagStack # <<>>
  /\ LET tag == tagStack[Len(tagStack)]
     IN  /\ PopTag
         /\ \E match \in RawNameMatches(tag, Tok(Top).n) :
              \/ /\ ~match
                 /\ Return("TAG_MISMATCH", Top.s)
                 /\ UNCHANGED <<tagLevel, processor, history>>
              \/ /\ match
                 /\ tagLevel' = tagLevel - 1
                 /\ Callback(<<Event("end", tag.n)>>)
                 /\ ToEpilog(Top, tagLevel - 1)
  /\ UNCHANGED <<input, errorCode, bufferPtr, call, status, verdict, entities>>

ContentEndTagAsync ==
  /\ Running("doContent")
  /\ Tok(Top).k = "end"
  /\ tagLevel = Top.lvl
  /\ Fail("ASYNC_ENTITY")

(* tag = m_tagStack is NULL: undefined behaviour, here the end of the run.   *)
ContentEndTagNoElement ==
  /\ Running("doContent")
  /\ Tok(Top).k = "end"
  /\ tagLevel # Top.lvl
  /\ tagStack = <<>>
  /\ call' = "crashed"
  /\ cstack' = <<>>
  /\ UNCHANGED <<input, processor, errorCode, bufferPtr, status, verdict, tags, entities, pool, result, history>>

ContentCdataOpen ==
  /\ Running("doContent")
  /\ Tok(Top).k = "cdopen"
  /\ Callback(<<Event("cdopen", "-")>>)
  /\ cstack' = Append(cstack, Frame("doCdataSection", Top.ent, Top.s + 1, 0, "doContent", 0))
  /\ UNCHANGED <<input, api, tags, entities, pool, result>>

-----------------------------------------------------------------------------
(* doCdataSection: markup is text here; closed is *startPtr # NULL.          *)
CdataEndOfText ==
  /\ Running("doCdataSection")
  /\ Tok(Top).k \in {"NONE", "PARTIAL", "TRAILING_CR"}
  /\ Return(IF HaveMore(Top) THEN "NONE" ELSE "UNCLOSED_CDATA_SECTION", Top.s)
  /\ UNCHANGED <<input, api, tags, entities, pool, history>>

CdataInvalid ==
  /\ Running("doCdataSection")
  /\ Tok(Top).k = "bad"
  /\ Fail("INVALID_TOKEN")

CdataText ==
  /\ Running("doCdataSection")
  /\ Tok(Top).k \notin {"NONE", "PARTIAL", "TRAILING_CR", "bad", "cdclose"}
  /\ Callback(<<Event("chars", "-")>>)
  /\ LoopTail(Top, Top.s + 1)
  /\ UNCHANGED <<input, api, tags, entities, pool>>

CdataClose ==
  /\ Running("doCdataSection")
  /\ Tok(Top).k = "cdclose"
  /\ Callback(<<Event("cdclose", "-")>>)
  /\ result' = IF parsing' = "FINISHED" THEN Value("ABORTED", Top.s + 1, FALSE)
               ELSE Value("NONE", Top.s + 1, TRUE)
  /\ UNCHANGED <<input, api, tags, entities, pool, cstack>>

-----------------------------------------------------------------------------
(* doProlog as far as a document without a DTD needs it.  The start of the   *)
(* document element is recognised by its first letter.                       *)
InProlog(f) == IF Tok(f).k = "TRAILING_CR" THEN "cr" ELSE Tok(f).k

PrologWait ==
  /\ Running("doProlog")
  /\ \/ InProlog(Top) \in {"NONE", "PARTIAL"}
     \/ InProlog(Top) \in {"cr", "chars"} /\ AtEnd(Top)   \* tok < 0
  /\ HaveMore(Top)
  /\ Return("NONE", Top.s)
  /\ UNCHANGED <<input, api, tags, entities, pool, history>>

PrologRefuse ==
  /\ Running("doProlog")
  /\ \/ ~HaveMore(Top) /\ InProlog(Top) = "NONE" /\ Fail("NO_ELEMENTS")
     \/ ~HaveMore(Top) /\ InProlog(Top) = "PARTIAL" /\ Fail("UNCLOSED_TOKEN")
     \/ InProlog(Top) \in {"bad", "ref", "end"} /\ Fail("INVALID_TOKEN")
     \/ InProlog(Top) \in {"cdopen", "cdclose"} /\ Fail("SYNTAX")
     \/ /\ InProlog(Top) = "chars"
        /\ ~(AtEnd(Top) /\ HaveMore(Top))
        /\ Fail("SYNTAX")

(* White space (to the default handler), comments and PIs.                   *)
PrologMisc ==
  /\ Running("doProlog")
  /\ InProlog(Top) \in {"cr", "pi"}
  /\ ~(InProlog(Top) = "cr" /\ AtEnd(Top) /\ HaveMore(Top))
  /\ Callback(<<Event(IF InProlog(Top) = "pi" THEN "pi" ELSE "chars", "-")>>)
  /\ LoopTail(Top, Top.s + 1)
  /\ UNCHANGED <<input, api, tags, entities, pool>>

PrologInstanceStart ==
  /\ Running("doProlog")
  /\ \/ Tok(Top).k \in {"start", "empty"}
     \/ Tok(Top).k = "PARTIAL" /\ partial /\ doc[Top.s + 1].k \in {"start", "empty"}
  /\ processor' = "contentProcessor"
  /\ Goto([Top EXCEPT !.fn = "doContent", !.by = "contentProcessor"])
  /\ UNCHANGED <<input, errorCode, bufferPtr, call, status, verdict, tags, entities, pool, history>>

(* epilogProcessor.                                                          *)
EpilogEndOfText ==
  /\ Running("epilogProcessor")
  /\ Tok(Top).k \in {"NONE", "PARTIAL"}
  /\ Return(IF Tok(Top).k = "NONE" \/ HaveMore(Top) THEN "NONE" ELSE "UNCLOSED_TOKEN",
            Top.s)
  /\ UNCHANGED <<input, api, tags, entities, pool, history>>

(* -XML_TOK_PROLOG_S: only XML_FINISHED is looked for.                       *)
EpilogTrailing ==
  /\ Running("epilogProcessor")
  /\ Tok(Top).k = "TRAILING_CR"
  /\ Callback(<<Event("chars", "-")>>)
  /\ Return(IF parsing' = "FINISHED" THEN "ABORTED" ELSE "NONE", Top.s + 1)
  /\ UNCHANGED <<input, api, tags, entities, pool>>

EpilogMisc ==
  /\ Running("epilogProcessor")
  /\ Tok(Top).k \in {"cr", "pi"}
  /\ Callback(<<Event(IF Tok(Top).k = "pi" THEN "pi" ELSE "chars", "-")>>)
  /\ LoopTail(Top, Top.s + 1)
  /\ UNCHANGED <<input, api, tags, entities, pool>>

EpilogRefuse ==
  /\ Running("epilogProcessor")
  /\ \/ Tok(Top).k \in {"bad", "ref", "end"} /\ Fail("INVALID_TOKEN")
     \/ Tok(Top).k \in {"start", "empty", "chars", "cdopen", "cdclose"}
        /\ Fail("JUNK_AFTER_DOC_ELEMENT")
     \/ Tok(Top).k = "PARTIAL" /\ partial /\ doc[Top.s + 1].k \in {"start", "empty"}
        /\ Fail("JUNK_AFTER_DOC_ELEMENT")

(* externalEntityInitProcessor and its two successors.                       *)
ExternalEntityInit ==
  /\ Running("externalEntityInitProcessor")
  /\ \/ /\ Tok(Top).k = "PARTIAL"
        /\ Return(IF HaveMore(Top) THEN "NONE" ELSE "UNCLOSED_TOKEN", Top.s)
        /\ UNCHANGED <<processor, tagLevel>>
     \/ /\ Tok(Top).k # "PARTIAL"
        /\ processor' = "externalEntityContentProcessor"
        /\ tagLevel' = 1
        /\ Goto([Top EXCEPT !.fn = "doContent", !.lvl = 1, !.by = "contentProcessor"])
  /\ UNCHANGED <<input, errorCode, bufferPtr, call, status, verdict, tagStack, entities, pool, history>>

-----------------------------------------------------------------------------
(* Returns.                                                                  *)
Returning(by) ==
  /\ call # "none" /\ result # Pending /\ cstack # <<>>
  /\ Top.by = by

Caller == cstack[Len(cstack) - 1]
ResumeCaller(f) == cstack' = Append(SubSeq(cstack, 1, Len(cstack) - 2), f)

(* The rest of a loop body after a nested activation returned.               *)
CallerTail(next) ==
  /\ UNCHANGED history
  /\ \/ parsing = "SUSPENDED" /\ cstack' = Below /\ result' = Value("NONE", next, FALSE)
     \/ parsing = "FINISHED" /\ cstack' = Below /\ result' = Value("ABORTED", next, FALSE)
     \/ parsing = "PARSING" /\ ResumeCaller([Caller EXCEPT !.s = next]) /\ result' = Pending

ReturnFromCdata ==
  /\ Returning("doContent")
  /\ \/ result.err # "NONE" /\ cstack' = Below /\ UNCHANGED <<result, processor, history>>
     \/ /\ result.err = "NONE" /\ ~result.closed
        /\ processor' = "cdataSectionProcessor"
        /\ cstack' = Below
        /\ UNCHANGED <<result, history>>
     \/ /\ result.err = "NONE" /\ result.closed
        /\ CallerTail(result.next)
        /\ UNCHANGED processor
  /\ UNCHANGED <<input, errorCode, bufferPtr, call, status, verdict, tags, entities, pool>>

(* Mutants: the open flag stays set; the record is lost.                     *)
CloseEntityStaysOpen(e, oe) ==
  /\ UNCHANGED entityOpen
  /\ openInternalEntities' = SubSeq(openInternalEntities, 1, oe - 1)
  /\ pool' = [pool EXCEPT !.freeEntities = @ + 1]
  /\ UNCHANGED processed
CloseEntityLeaks(e, oe) ==
  /\ entityOpen' = [entityOpen EXCEPT ![e] = FALSE]
  /\ openInternalEntities' = SubSeq(openInternalEntities, 1, oe - 1)
  /\ UNCHANGED <<pool, processed>>

(* Take openEntity, record oe, off the list: m_openInternalEntities becomes  *)
(* openEntity->next whatever was pushed above it.                            *)
CloseEntity(e, oe) ==
  /\ entityOpen' = [entityOpen EXCEPT ![e] = FALSE]
  /\ openInternalEntities' = SubSeq(openInternalEntities, 1, oe - 1)
  /\ pool' = [pool EXCEPT !.freeEntities = @ + 1]
  /\ UNCHANGED processed

SuspendedInside == result.next # EndOf(Top) /\ parsing = "SUSPENDED"

ReturnFromEntity ==
  /\ Returning("processInternalEntity")
  /\ \/ /\ result.err # "NONE"
        /\ cstack' = Below
        /\ UNCHANGED <<result, processor, entities, pool, history>>
     \/ /\ result.err = "NONE" /\ SuspendedInside
        /\ processed' = [processed EXCEPT ![Top.ent] = result.next]
        /\ processor' = "internalEntityProcessor"
        /\ CallerTail(Caller.s + 1)
        /\ UNCHANGED <<openInternalEntities, entityOpen, pool>>
     \/ /\ result.err = "NONE" /\ ~SuspendedInside
        /\ CloseEntity(Top.ent, Top.oe)
        /\ CallerTail(Caller.s + 1)
        /\ UNCHANGED processor
  /\ UNCHANGED <<input, errorCode, bufferPtr, call, status, verdict, tags>>

(* m_parentParser is set: the document is an external general entity.        *)
IsExternal == doc \in External

(* Mutant: every text is taken for that of an external entity.               *)
ContentLevelOne == 1
(* startTagLevel of the document's text.                                     *)
ContentLevel == IF IsExternal THEN 1 ELSE 0

ReturnFromResumedEntity ==
  /\ Returning("internalEntityProcessor")
  /\ \/ /\ result.err # "NONE"
        /\ cstack' = <<>>
        /\ UNCHANGED <<result, processor, entities, pool>>
     \/ /\ result.err = "NONE" /\ SuspendedInside
        /\ processed' = [processed EXCEPT ![Top.ent] = result.next]
        /\ cstack' = <<>>
        /\ result' = Value("NONE", bufferPtr, FALSE)
        /\ UNCHANGED <<processor, openInternalEntities, entityOpen, pool>>
     \/ /\ result.err = "NONE" /\ ~SuspendedInside
        /\ CloseEntity(Top.ent, Top.oe)
        /\ processor' = "contentProcessor"
        /\ cstack' = <<Frame("doContent", Document, bufferPtr, ContentLevel, "tail", 0)>>
        /\ result' = Pending
  /\ UNCHANGED <<input, errorCode, bufferPtr, call, status, verdict, tags, history>>

(* storeRawNames: from the innermost tag down to the first one whose name    *)
(* was copied before; what is copied is what the pointer points to now.      *)
Copied(tag) == tag.raw \in {"stored", "garbage"}
(* Mutant: only the innermost name is copied.                                *)
StoreInnermostRawName(stack) ==
  [i \in 1..Len(stack) |->
     IF i < Len(stack) THEN stack[i] ELSE [stack[i] EXCEPT !.raw = "stored"]]

StoreRawNames(stack) ==
  [i \in 1..Len(stack) |->
     IF \E j \in i..Len(stack) : Copied(stack[j]) THEN stack[i]
     ELSE [stack[i] EXCEPT !.raw = IF @ = "stale" THEN "garbage" ELSE "stored"]]

ReturnFromContent ==
  /\ Returning("contentProcessor")
  /\ cstack' = <<>>
  /\ tagStack' = IF result.err = "NONE" THEN StoreRawNames(tagStack) ELSE tagStack
  /\ UNCHANGED <<input, api, tagLevel, entities, pool, result, history>>

ReturnFromTail ==
  /\ \/ Returning("tail")
     \/ Returning("processor")
  /\ cstack' = <<>>
  /\ UNCHANGED <<input, api, tags, entities, pool, result, history>>

(* cdataSectionProcessor: the rest is content, whatever the handler asked.   *)
ReturnFromCdataProcessor ==
  /\ Returning("cdataSectionProcessor")
  /\ \/ /\ ~(result.err = "NONE" /\ result.closed)
        /\ cstack' = <<>>
        /\ UNCHANGED <<result, processor>>
     \/ /\ result.err = "NONE" /\ result.closed
        /\ processor' = IF IsExternal THEN "externalEntityContentProcessor"
                        ELSE "contentProcessor"
        /\ cstack' = <<Frame("doContent", Document, result.next, ContentLevel,
                             "contentProcessor", 0)>>
        /\ result' = Pending
  /\ UNCHANGED <<input, errorCode, bufferPtr, call, status, verdict, tags, entities, pool, history>>

(* Mutant: the error is reported but the parser is not stopped.              *)
EnterErrorOnce(err) ==
  /\ errorCode' = err
  /\ UNCHANGED processor
  /\ status' = "ERROR"
  /\ verdict' = IF verdict = "none" THEN err ELSE verdict

EnterError(err) ==
  /\ errorCode' = err
  /\ processor' = "errorProcessor"
  /\ status' = "ERROR"
  /\ verdict' = IF verdict = "none" THEN err ELSE verdict

(* The end of XML_Parse, XML_ParseBuffer and XML_ResumeParser.               *)
FinishCall ==
  /\ call # "none" /\ result # Pending /\ cstack = <<>>
  /\ call' = "none"
  /\ result' = Pending
  /\ \/ /\ result.err # "NONE"
        /\ EnterError(result.err)
        /\ UNCHANGED <<bufferPtr, parsing>>
     \/ /\ result.err = "NONE"
        /\ errorCode' = "NONE"
        /\ bufferPtr' = result.next
        /\ status' = IF parsing = "SUSPENDED" THEN "SUSPENDED" ELSE "OK"
        /\ parsing' = IF parsing = "PARSING" /\ finalBuffer THEN "FINISHED" ELSE parsing
        /\ verdict' = CASE verdict # "none" -> verdict
                        [] parsing = "FINISHED" -> "ABORTED"  \* "should not happen"
                        [] parsing = "PARSING" /\ finalBuffer -> "ok"
                        [] OTHER -> verdict
        /\ UNCHANGED processor
  /\ UNCHANGED <<input, tags, entities, pool, cstack, events>>

-----------------------------------------------------------------------------
(* The call of m_processor with the text from token s on.                    *)
CallProcessor(s) ==
  LET Enter(fn, lvl, by) == /\ cstack' = <<Frame(fn, Document, s, lvl, by, 0)>>
                            /\ UNCHANGED result
      Answer(err) == result' = Value(err, s, FALSE) /\ UNCHANGED cstack
      oe == Len(openInternalEntities)
      top == openInternalEntities[oe]
  IN  \/ /\ processor \in {"prologInitProcessor", "prologProcessor"}
         /\ processor' = "prologProcessor"
         /\ Enter("doProlog", 0, "processor")
      \/ /\ processor # "prologInitProcessor" /\ UNCHANGED processor
         /\ \/ processor = "contentProcessor"
               /\ Enter("doContent", 0, "contentProcessor")
            \/ processor = "externalEntityContentProcessor"
               /\ Enter("doContent", 1, "contentProcessor")
            \/ processor = "externalEntityInitProcessor"
               /\ Enter("externalEntityInitProcessor", 0, "processor")
            \/ processor = "cdataSectionProcessor"
               /\ Enter("doCdataSection", 0, "cdataSectionProcessor")
            \/ processor = "epilogProcessor"
               /\ Enter("epilogProcessor", 0, "processor")
            \/ processor = "errorProcessor" /\ Answer(errorCode)
            \/ processor = "internalEntityProcessor" /\ oe = 0
               /\ Answer("UNEXPECTED_STATE")
            \/ /\ processor = "internalEntityProcessor" /\ oe > 0
               /\ cstack' = <<Frame("doContent", top.entity, processed[top.entity],
                                    top.startTagLevel, "internalEntityProcessor", oe)>>
               /\ UNCHANGED result

-----------------------------------------------------------------------------
(* The application's calls.                                                  *)
Idle == call = "none"
Accepting == parsing \in {"INITIALIZED", "PARSING"}

(* XML_Parse with len > 0, that is XML_GetBuffer, a copy, XML_ParseBuffer:   *)
(* the document is available up to token n, and a part of the next one if p. *)
(* XML_GetBuffer may move the buffer or replace it by a larger one.          *)
XML_ParseBuffer(n, p, final, moved) ==
  /\ Idle /\ Accepting
  /\ n > avail \/ (n = avail /\ p /\ ~partial)
  /\ p => n < Len(doc) /\ doc[n + 1].k # "cr"
  /\ final => n = Len(doc)
  /\ avail' = n /\ partial' = p /\ finalBuffer' = final
  /\ parsing' = "PARSING"
  /\ tagStack' = [i \in 1..Len(tagStack) |->
       IF moved /\ tagStack[i].raw = "buffer" THEN [tagStack[i] EXCEPT !.raw = "stale"]
       ELSE tagStack[i]]
  /\ call' = "XML_ParseBuffer"
  /\ CallProcessor(bufferPtr)
  /\ UNCHANGED <<doc, resets, errorCode, bufferPtr, status, verdict, tagLevel, entities, pool, events>>

(* XML_Parse with len = 0: only the final call runs the processor.           *)
XML_ParseNothing ==
  /\ Idle /\ Accepting
  /\ finalBuffer' = FALSE
  /\ parsing' = "PARSING"
  /\ status' = "OK"
  /\ UNCHANGED <<doc, avail, partial, resets, processor, errorCode, bufferPtr, call, verdict, tags, entities, pool, control, events>>

XML_ParseEnd ==
  /\ Idle /\ Accepting
  /\ avail = Len(doc) /\ ~partial
  /\ finalBuffer' = TRUE
  /\ parsing' = "PARSING"
  /\ call' = "XML_Parse"
  /\ CallProcessor(bufferPtr)
  /\ UNCHANGED <<doc, avail, partial, resets, errorCode, bufferPtr, status, verdict, tags, entities, pool, events>>

(* XML_Parse, XML_ParseBuffer and XML_GetBuffer on a parser that is suspended *)
(* or finished.                                                              *)
XML_ParseRefused ==
  /\ Idle /\ ~Accepting
  /\ errorCode' = parsing
  /\ status' = "ERROR"
  /\ UNCHANGED <<input, processor, bufferPtr, call, verdict, tags, entities, pool, control, history>>

(* Mutant: the parser is still suspended while it goes on.                   *)
XML_ResumeParserSuspended ==
  /\ Idle
  /\ parsing = "SUSPENDED"
  /\ call' = "XML_ResumeParser"
  /\ CallProcessor(bufferPtr)
  /\ UNCHANGED <<input, errorCode, bufferPtr, status, verdict, tags, entities, pool, history>>

XML_ResumeParser ==
  /\ Idle
  /\ parsing = "SUSPENDED"
  /\ parsing' = "PARSING"
  /\ call' = "XML_ResumeParser"
  /\ CallProcessor(bufferPtr)
  /\ UNCHANGED <<input, errorCode, bufferPtr, status, verdict, tags, entities, pool, events>>

XML_ResumeRefused ==
  /\ Idle
  /\ parsing # "SUSPENDED"
  /\ errorCode' = "NOT_SUSPENDED"
  /\ status' = "ERROR"
  /\ UNCHANGED <<input, processor, bufferPtr, call, verdict, tags, entities, pool, control, history>>

(* XML_StopParser outside a handler: expat.h allows it only to abort a       *)
(* suspended parser.  The other calls are the choices of AfterHandler.       *)
XML_StopParser ==
  /\ Idle
  /\ parsing = "SUSPENDED"
  /\ parsing' = "FINISHED"
  /\ verdict' = IF verdict = "none" THEN "ABORTED" ELSE verdict
  /\ UNCHANGED <<input, processor, errorCode, bufferPtr, call, status, tags, entities, pool, control, events>>

(* parserInit, and XML_ParserReset, which also puts what the old document    *)
(* left open on the free lists.  A child parser cannot be reset.             *)
InitialProcessor ==
  IF IsExternal THEN "externalEntityInitProcessor" ELSE "prologInitProcessor"

(* Mutant: the elements the old document left open are forgotten.            *)
RecycleEntitiesOnly ==
  /\ tagStack' = <<>> /\ openInternalEntities' = <<>>
  /\ pool' = [pool EXCEPT !.freeEntities = @ + Len(openInternalEntities)]

RecycleRecords ==
  /\ tagStack' = <<>> /\ openInternalEntities' = <<>>
  /\ pool' = [pool EXCEPT !.freeTags = @ + Len(tagStack),
                          !.freeEntities = @ + Len(openInternalEntities)]

(* Mutant: an entity left open stays open.                                   *)
ResetEntitiesKept == UNCHANGED <<entityOpen, processed>>

(* dtdReset: the next document declares its entities anew.                   *)
ResetEntities ==
  /\ entityOpen' = [e \in Entities |-> FALSE]
  /\ processed' = [e \in Entities |-> 0]

XML_ParserReset ==
  /\ Idle /\ ~IsExternal /\ parsing # "INITIALIZED"
  /\ resets < MaxResets /\ resets' = resets + 1
  /\ doc' \in Docs \ External
  /\ processor' = "prologInitProcessor"
  /\ avail' = 0 /\ partial' = FALSE /\ UNCHANGED finalBuffer
  /\ parsing' = "INITIALIZED"
  /\ errorCode' = "NONE" /\ bufferPtr' = 0 /\ status' = "OK"
  /\ tagLevel' = 0
  /\ RecycleRecords
  /\ ResetEntities
  /\ events' = <<>> /\ verdict' = "none"
  /\ UNCHANGED <<call, control>>

-----------------------------------------------------------------------------
Init ==
  /\ doc \in Docs
  /\ avail = 0 /\ partial = FALSE /\ finalBuffer = FALSE
  /\ parsing = "INITIALIZED"
  /\ processor = InitialProcessor
  /\ errorCode = "NONE" /\ bufferPtr = 0 /\ call = "none" /\ status = "OK"
  /\ tagLevel = 0 /\ tagStack = <<>>
  /\ openInternalEntities = <<>>
  /\ entityOpen = [e \in Entities |-> FALSE]
  /\ processed = [e \in Entities |-> 0]
  /\ pool = [tags |-> 0, freeTags |-> 0, entities |-> 0, freeEntities |-> 0]
  /\ cstack = <<>> /\ result = Pending
  /\ events = <<>> /\ verdict = "none" /\ resets = 0

Feed ==
  \/ \E n \in 0..Len(doc), p, final, moved \in BOOLEAN :
       XML_ParseBuffer(n, p, final, moved)
  \/ XML_ParseEnd

DoContent ==
  \/ ContentEndOfText \/ ContentPartial \/ ContentTrailing \/ ContentInvalid
  \/ ContentData \/ ContentEntityRef \/ ContentStartTag \/ ContentEmptyElement
  \/ ContentEndTag \/ ContentEndTagAsync \/ ContentEndTagNoElement
  \/ ContentCdataOpen
DoCdataSection == CdataEndOfText \/ CdataInvalid \/ CdataText \/ CdataClose
DoProlog == PrologWait \/ PrologRefuse \/ PrologMisc \/ PrologInstanceStart
DoEpilog == EpilogEndOfText \/ EpilogTrailing \/ EpilogMisc \/ EpilogRefuse
Returns ==
  \/ ReturnFromCdata \/ ReturnFromEntity \/ ReturnFromResumedEntity
  \/ ReturnFromContent \/ ReturnFromTail \/ ReturnFromCdataProcessor

(* The steps of the C code while a call is running.                          *)
Step ==
  \/ DoContent \/ DoCdataSection \/ DoProlog \/ DoEpilog
  \/ ExternalEntityInit \/ Returns \/ FinishCall

Application ==
  \/ Feed \/ XML_ParseNothing \/ XML_ParseRefused
  \/ XML_ResumeParser \/ XML_ResumeRefused \/ XML_StopParser \/ XML_ParserReset

Next == Step \/ Application

Spec == Init /\ [][Next]_vars

(* A running call is C code and gets on; the application feeds its document  *)
(* to the end and resumes what its handlers suspended.                       *)
Fairness == WF_vars(Step) /\ WF_vars(Feed) /\ WF_vars(XML_ResumeParser)
FairSpec == Spec /\ Fairness

-----------------------------------------------------------------------------
(* What holds of the parser object.                                          *)

Frames ==
  [fn: Functions, ent: Entities \cup {Document}, s: Nat, lvl: Nat, by: Callers, oe: Nat]
TagRecords == [n: Names, raw: {"buffer", "entity", "stale", "stored", "garbage"}]
EventKinds == {"start", "end", "chars", "pi", "cdopen", "cdclose"}

EventRecords == [k: EventKinds, n: Names \cup {"-"}]
Results == {Pending} \cup [err: Errors \cup {"NONE"}, next: Nat, closed: BOOLEAN]

(* Every variable has its type, group by group.                              *)
InputOK ==
  /\ doc \in Seq(Tokens) /\ avail \in 0..Len(doc)
  /\ partial \in BOOLEAN /\ finalBuffer \in BOOLEAN /\ resets \in Nat
ApiOK ==
  /\ processor \in Processors
  /\ errorCode \in Errors \cup {"NONE"}
  /\ bufferPtr \in Nat
  /\ call \in {"none", "XML_Parse", "XML_ParseBuffer", "XML_ResumeParser", "crashed"}
  /\ status \in {"OK", "ERROR", "SUSPENDED"}
  /\ verdict \in Errors \cup {"none", "ok"}
TagsOK == tagLevel \in Nat /\ tagStack \in Seq(TagRecords)
EntitiesOK ==
  /\ openInternalEntities \in Seq([entity: Entities, startTagLevel: Nat])
  /\ entityOpen \in [Entities -> BOOLEAN]
  /\ processed \in [Entities -> Nat]
PoolOK == pool \in [tags: Nat, freeTags: Nat, entities: Nat, freeEntities: Nat]
ControlOK == cstack \in Seq(Frames) /\ result \in Results
HistoryOK ==
  /\ events \in Seq(EventRecords)
  /\ parsing \in {"INITIALIZED", "PARSING", "SUSPENDED", "FINISHED"}

TypeOK ==
  /\ InputOK /\ ApiOK /\ TagsOK /\ EntitiesOK /\ PoolOK /\ ControlOK /\ HistoryOK

(* An error is on its way to the application, or was reported to it.         *)
Failed == processor = "errorProcessor" \/ result.err \notin {"pending", "NONE"}

(* m_tagLevel counts the elements on m_tagStack, one more in a parser for an *)
(* external entity once its content began: doContent decides by the level    *)
(* and takes the element from the stack.                                     *)
TagLevelCountsStack ==
  ~Failed =>
    tagLevel = Len(tagStack) + (IF IsExternal /\ processor # "externalEntityInitProcessor"
                                THEN 1 ELSE 0)

(* An activation that runs an entity holds a pointer to the entity's         *)
(* OPEN_INTERNAL_ENTITY record (oe) and unlinks it when it returns: the      *)
(* record is still on m_openInternalEntities then, nested entities have      *)
(* theirs above it, and an activation that returns to another has one.       *)
Nested(f) == f.by \in {"processInternalEntity", "doContent"}
HoldsRecord(f) == f.by \in {"processInternalEntity", "internalEntityProcessor"}

HeldRecordsAreListed ==
  /\ \A i \in 1..Len(cstack) : Nested(cstack[i]) => i > 1
  /\ \A i \in 1..Len(cstack) :
       HoldsRecord(cstack[i]) => cstack[i].oe \in 1..Len(openInternalEntities)
  /\ \A i, j \in 1..Len(cstack) :
       i < j /\ HoldsRecord(cstack[i]) /\ HoldsRecord(cstack[j]) =>
         cstack[i].oe < cstack[j].oe

(* storeRawNames: while the application has the control no open element's    *)
(* name lies in the parse buffer, "since the parse buffer is about to be     *)
(* discarded".                                                               *)
RawNamesStored ==
  call = "none" /\ ~Failed => \A i \in 1..Len(tagStack) : tagStack[i].raw \in {"stored", "entity"}

(* The open flags that stop recursive references are exactly the list of     *)
(* open entities, and no entity is on it twice.                              *)
OpenFlagsMatchList ==
  ~Failed =>
    /\ \A e \in Entities :
         entityOpen[e] <=> \E i \in 1..Len(openInternalEntities) :
                              openInternalEntities[i].entity = e
    /\ \A i, j \in 1..Len(openInternalEntities) :
         openInternalEntities[i].entity = openInternalEntities[j].entity => i = j

(* Every TAG and every OPEN_INTERNAL_ENTITY ever allocated is in use or on   *)
(* its free list: XML_ParserFree and XML_ParserReset reach no other.         *)
TagsConserved == pool.tags = Len(tagStack) + pool.freeTags
EntitiesConserved == pool.entities = Len(openInternalEntities) + pool.freeEntities

(* A parser that has accepted, refused or given up a document delivers no    *)
(* callback any more, whatever the application calls, until it is reset:     *)
(* errorProcessor and the parsing status see to it.                          *)
ErrorIsFinal ==
  [][verdict # "none" => parsing' = "INITIALIZED" \/ events' = events]_vars

(* Until the content of an external entity begins nothing else is running    *)
(* and no element is open: tagLevel = 1 is set on an empty stack.            *)
InitPhase ==
  /\ processor = "externalEntityInitProcessor" =>
       IsExternal /\ tagStack = <<>> /\ Len(cstack) <= 1
  /\ \A i \in 1..Len(cstack) :
       IF processor = "externalEntityInitProcessor"
       THEN cstack[i].fn = "externalEntityInitProcessor" /\ cstack[i].by = "processor"
       ELSE cstack[i].fn # "externalEntityInitProcessor"

(* After an error, and after the end, no activation runs.                    *)
ErrorQuiet ==
  /\ processor = "errorProcessor" =>
       cstack = <<>> /\ errorCode \in Errors /\ result.err # "NONE"
  /\ verdict # "none" =>
       cstack = <<>> /\ (processor = "errorProcessor" \/ parsing = "FINISHED")

Idling == Idle => cstack = <<>> /\ result = Pending

(* The inductive invariant of the parser object: what its steps rely on.     *)
IndInv ==
  /\ TypeOK /\ HeldRecordsAreListed /\ InitPhase /\ ErrorQuiet /\ Idling
  /\ TagLevelCountsStack /\ TagsConserved

(* XML_StopParser with resumable = 0 in a handler makes the running call     *)
(* return XML_STATUS_ERROR with XML_ERROR_ABORTED (expat.h).                 *)
AbortReported ==
  [][call \notin {"none", "crashed"} /\ call' = "none" /\ parsing = "FINISHED" =>
       status' = "ERROR" /\ errorCode' = "ABORTED"]_vars

(* The final call with no data does not leave the parser suspended: "it      *)
(* seems that this case cannot occur" (XML_Parse).                           *)
EmptyFinalNeverSuspends ==
  [][call = "XML_Parse" /\ call' = "none" => status' # "SUSPENDED"]_vars

(* Every API call returns: no cycle of processors, entities and tails goes   *)
(* on without consuming text.  What undefined behaviour does is left open.   *)
CallReturns == call \notin {"none", "crashed"} ~> call \in {"none", "crashed"}

(* A document that is fed to its end, and resumed when suspended, is         *)
(* eventually accepted, refused or given up.                                 *)
Decided == <>(verdict # "none" \/ call = "crashed")

=============================================================================
