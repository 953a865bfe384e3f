--------------------------- MODULE XmlEntityProofs ---------------------------
(***************************************************************************)
(* What the parser keeps of the internal entities that are open and of the *)
(* names of the elements that are open, proved for every set of documents  *)
(* and entities.                                                           *)
(*                                                                         *)
(* None of it holds of every behaviour: a parser that a handler suspends   *)
(* inside of nested entities loses the record of the inner one when the    *)
(* outer one is closed, and one that is suspended inside of an entity goes *)
(* on in a doContent that does not store raw names.  So the theorems are   *)
(* about the behaviours in which handlers do not suspend there.            *)
(***************************************************************************)
EXTENDS XmlParserProofs

(* No handler suspends the parser inside of nested entities, or inside of    *)
(* an entity at all.                                                         *)
NotSuspendedNested == parsing = "SUSPENDED" => Len(openInternalEntities) <= 1
NotSuspendedInEntity == parsing = "SUSPENDED" => openInternalEntities = <<>>

LEMMA NotInEntityNotNested ==
  ASSUME NotSuspendedInEntity
  PROVE  NotSuspendedNested
  BY EmptySeq DEF NotSuspendedInEntity, NotSuspendedNested

-----------------------------------------------------------------------------
(* The token an activation looks at is one of its text.                      *)
LEMMA TokenOfText ==
  ASSUME TypeOK, NEW fn, Running(fn), Tok(Top).k \in {"cdclose", "cdopen", "ref"}
  PROVE  /\ Top.s \in Nat
         /\ Top.ent = Document => Top.s + 1 \in 1..Len(doc) /\ doc[Top.s + 1] = Tok(Top)
         /\ Top.ent # Document => /\ Top.s + 1 \in 1..Len(Text[Top.ent])
                                 /\ Text[Top.ent][Top.s + 1] = Tok(Top)
<1>1. /\ Top.s \in Nat /\ Top \in Frames
      /\ avail \in 0..Len(doc) /\ Len(doc) \in Nat
  BY Working, LenProperties DEF TypeOK, InputOK
<1>2. ~(Top.s >= EndOf(Top)) /\ Tok(Top) = TextOf(Top.ent)[Top.s + 1]
  BY DEF Tok
<1>3. Top.ent = Document => EndOf(Top) = avail /\ TextOf(Top.ent) = doc
  BY DEF EndOf, TextOf
<1>4. Top.ent # Document =>
        /\ EndOf(Top) = Len(Text[Top.ent]) /\ TextOf(Top.ent) = Text[Top.ent]
        /\ Len(Text[Top.ent]) \in Nat
  BY <1>1, DocumentsAssumption, LenProperties DEF EndOf, TextOf, Frames
<1>5. QED
  BY <1>1, <1>2, <1>3, <1>4

-----------------------------------------------------------------------------
(* A failure is final.                                                       *)

LEMMA FailedStays ==
  ASSUME TypeOK, ErrorQuiet, Idling, Failed, Next, ~XML_ParserReset
  PROVE  Failed'
<1>1. CASE processor = "errorProcessor"
  <2>1. cstack = <<>>
    BY <1>1 DEF ErrorQuiet
  <2>2. CASE Step /\ ~FinishCall
    BY <2>1, <2>2, RunningStep
  <2>3. CASE FinishCall
    BY <1>1, <2>3 DEF FinishCall, EnterError, Failed
  <2>4. CASE Feed \/ XML_ResumeParser
    <3>1. PICK s : CallProcessor(s)
      BY <2>4 DEF Feed, XML_ParseBuffer, XML_ParseEnd, XML_ResumeParser
    <3>2. processor' = "errorProcessor"
      BY <1>1, <3>1 DEF CallProcessor
    <3>3. QED
      BY <3>2 DEF Failed
  <2>5. CASE XML_ParseNothing \/ XML_ParseRefused \/ XML_ResumeRefused \/ XML_StopParser
    BY <1>1, <2>5 DEF XML_ParseNothing, XML_ParseRefused, XML_ResumeRefused, XML_StopParser,
                      Failed
  <2>6. QED
    BY <2>2, <2>3, <2>4, <2>5 DEF Next, Application
<1>2. CASE result.err \notin {"pending", "NONE"}
  <2>1. result # Pending
    BY <1>2 DEF Pending
  <2>2. call # "none"
    BY <2>1 DEF Idling, Idle
  <2>3. CASE Returns
    <3>1. result' = result
      BY <1>2, <2>3 DEF Returns, ReturnFromCdata, ReturnFromEntity, ReturnFromResumedEntity,
                        ReturnFromContent, ReturnFromTail, ReturnFromCdataProcessor
    <3>2. QED
      BY <1>2, <3>1 DEF Failed
  <2>4. CASE FinishCall
    BY <1>2, <2>4 DEF FinishCall, EnterError, Failed
  <2>5. ~DoContent /\ ~DoCdataSection /\ ~DoProlog /\ ~DoEpilog /\ ~ExternalEntityInit
    BY <2>1 DEF Running, DoContent, ContentEndOfText, ContentPartial, ContentTrailing,
       ContentInvalid, ContentData, ContentEntityRef, ContentStartTag, ContentEmptyElement,
       ContentEndTag, ContentEndTagAsync, ContentEndTagNoElement, ContentCdataOpen,
       DoCdataSection, CdataEndOfText, CdataInvalid, CdataText, CdataClose,
       DoProlog, PrologWait, PrologRefuse, PrologMisc, PrologInstanceStart,
       DoEpilog, EpilogEndOfText, EpilogTrailing, EpilogMisc, EpilogRefuse, ExternalEntityInit
  <2>6. ~Application
    BY <2>2 DEF Application, Feed, XML_ParseBuffer, XML_ParseEnd, XML_ParseNothing,
       XML_ParseRefused, XML_ResumeParser, XML_ResumeRefused, XML_StopParser,
       XML_ParserReset, Idle
  <2>7. QED
    BY <2>3, <2>4, <2>5, <2>6 DEF Next, Step
<1>3. QED
  BY <1>1, <1>2 DEF Failed

-----------------------------------------------------------------------------
(* What a step does to the records, the flags and the free list.             *)

EntitiesKept ==
  /\ UNCHANGED <<openInternalEntities, entityOpen>>
  /\ pool'.entities = pool.entities /\ pool'.freeEntities = pool.freeEntities

EntityOpened == \E e \in Entities : ~entityOpen[e] /\ OpenEntity(e)

EntityClosed ==
  /\ result # Pending /\ result.err = "NONE" /\ cstack # <<>>
  /\ HoldsRecord(Top)
  /\ CloseEntity(Top.ent, Top.oe)

EntitiesReset == RecycleRecords /\ ResetEntities

LEMMA EntityStep ==
  ASSUME TypeOK, Next
  PROVE  EntitiesKept \/ EntityOpened \/ EntityClosed \/ EntitiesReset
<1>p. pool \in [tags: Nat, freeTags: Nat, entities: Nat, freeEntities: Nat]
  BY DEF TypeOK, PoolOK
<1>1. CASE UNCHANGED <<entities, pool>>
  BY <1>1 DEF EntitiesKept, entities
<1>2. CASE ContentStartTag \/ ContentEndTag
  <2>1. UNCHANGED entities
    BY <1>2 DEF ContentStartTag, ContentEndTag
  <2>2. \/ pool' = [pool EXCEPT !.freeTags = @ - 1]
        \/ pool' = [pool EXCEPT !.freeTags = @ + 1]
        \/ pool' = [pool EXCEPT !.tags = @ + 1]
    BY <1>2 DEF ContentStartTag, ContentEndTag, PushTag, PopTag
  <2>3. pool'.entities = pool.entities /\ pool'.freeEntities = pool.freeEntities
    BY <1>p, <2>2
  <2>4. QED
    BY <2>1, <2>3 DEF EntitiesKept, entities
<1>3. CASE ContentEntityRef
  BY <1>1, <1>3 DEF ContentEntityRef, Fail, EntityOpened
<1>4. CASE ReturnFromEntity
  BY <1>4 DEF ReturnFromEntity, Returning, EntitiesKept, EntityClosed, HoldsRecord, entities
<1>5. CASE ReturnFromResumedEntity
  BY <1>5 DEF ReturnFromResumedEntity, Returning, EntitiesKept, EntityClosed, HoldsRecord, entities
<1>6. CASE XML_ParserReset
  BY <1>6 DEF XML_ParserReset, EntitiesReset
<1>7. CASE ContentEndOfText \/ ContentPartial \/ ContentTrailing \/ ContentInvalid
           \/ ContentData \/ ContentEmptyElement \/ ContentEndTagAsync
           \/ ContentEndTagNoElement \/ ContentCdataOpen
  BY <1>1, <1>7 DEF ContentEndOfText, ContentPartial, ContentTrailing, ContentInvalid,
     ContentData, ContentEmptyElement, ContentEndTagAsync, ContentEndTagNoElement,
     ContentCdataOpen, Fail
<1>8. CASE DoCdataSection \/ DoProlog \/ DoEpilog \/ ExternalEntityInit
  BY <1>1, <1>8 DEF DoCdataSection, CdataEndOfText, CdataInvalid, CdataText, CdataClose,
     DoProlog, PrologWait, PrologRefuse, PrologMisc, PrologInstanceStart, DoEpilog,
     EpilogEndOfText, EpilogTrailing, EpilogMisc, EpilogRefuse, ExternalEntityInit, Fail
<1>9. CASE ReturnFromCdata \/ ReturnFromContent \/ ReturnFromTail \/ ReturnFromCdataProcessor
           \/ FinishCall
  BY <1>1, <1>9 DEF ReturnFromCdata, ReturnFromContent, ReturnFromTail,
     ReturnFromCdataProcessor, FinishCall
<1>10. CASE Feed \/ XML_ParseNothing \/ XML_ParseRefused \/ XML_ResumeParser
            \/ XML_ResumeRefused \/ XML_StopParser
  BY <1>1, <1>10 DEF Feed, XML_ParseBuffer, XML_ParseEnd, XML_ParseNothing, XML_ParseRefused,
     XML_ResumeParser, XML_ResumeRefused, XML_StopParser
<1>11. QED
  BY <1>2, <1>3, <1>4, <1>5, <1>6, <1>7, <1>8, <1>9, <1>10
     DEF Next, Step, Application, DoContent, Returns

(* How long the list gets.                                                   *)
LEMMA EntityCounts ==
  ASSUME TypeOK, HeldRecordsAreListed
  PROVE  /\ EntityOpened =>
              /\ Len(openInternalEntities') = Len(openInternalEntities) + 1
              /\ \/ /\ pool'.entities = pool.entities
                    /\ pool'.freeEntities = pool.freeEntities - 1
                 \/ /\ pool'.entities = pool.entities + 1
                    /\ pool'.freeEntities = pool.freeEntities
         /\ EntityClosed =>
              /\ Top.oe \in 1..Len(openInternalEntities)
              /\ Len(openInternalEntities') = Top.oe - 1
              /\ \A k \in 1..Top.oe - 1 : openInternalEntities'[k] = openInternalEntities[k]
              /\ pool'.entities = pool.entities
              /\ pool'.freeEntities = pool.freeEntities + 1
         /\ EntitiesReset =>
              /\ Len(openInternalEntities') = 0
              /\ pool'.entities = pool.entities
              /\ pool'.freeEntities = pool.freeEntities + Len(openInternalEntities)
<1>p. /\ pool \in [tags: Nat, freeTags: Nat, entities: Nat, freeEntities: Nat]
      /\ Len(openInternalEntities) \in Nat
  BY LenProperties DEF TypeOK, PoolOK, EntitiesOK
<1>1. ASSUME EntityOpened
      PROVE  /\ Len(openInternalEntities') = Len(openInternalEntities) + 1
             /\ \/ /\ pool'.entities = pool.entities
                   /\ pool'.freeEntities = pool.freeEntities - 1
                \/ /\ pool'.entities = pool.entities + 1
                   /\ pool'.freeEntities = pool.freeEntities
  <2>1. PICK e \in Entities : OpenEntity(e)
    BY <1>1 DEF EntityOpened
  <2> DEFINE r == [entity |-> e, startTagLevel |-> tagLevel]
  <2>2. r \in [entity: Entities, startTagLevel: Nat]
    BY DEF TypeOK, TagsOK
  <2>3. openInternalEntities' = Append(openInternalEntities, r)
    BY <2>1 DEF OpenEntity
  <2> HIDE DEF r
  <2>4. Len(openInternalEntities') = Len(openInternalEntities) + 1
    BY <2>2, <2>3, Appended DEF TypeOK, EntitiesOK
  <2>5. \/ pool' = [pool EXCEPT !.freeEntities = @ - 1]
        \/ pool' = [pool EXCEPT !.entities = @ + 1]
    BY <2>1 DEF OpenEntity
  <2>6. QED
    BY <1>p, <2>4, <2>5
<1>2. ASSUME EntityClosed
      PROVE  /\ Top.oe \in 1..Len(openInternalEntities)
             /\ Len(openInternalEntities') = Top.oe - 1
             /\ \A k \in 1..Top.oe - 1 : openInternalEntities'[k] = openInternalEntities[k]
             /\ pool'.entities = pool.entities
             /\ pool'.freeEntities = pool.freeEntities + 1
  <2>1. Top.oe \in 1..Len(openInternalEntities)
    BY <1>2, TopFrame DEF EntityClosed, HeldRecordsAreListed, TypeOK
  <2>2. /\ Len(openInternalEntities') = Top.oe - 1
        /\ \A k \in 1..Top.oe - 1 : openInternalEntities'[k] = openInternalEntities[k]
    BY <1>2, <2>1, CloseEntityTyped DEF EntityClosed, TypeOK
  <2>3. pool' = [pool EXCEPT !.freeEntities = @ + 1]
    BY <1>2 DEF EntityClosed, CloseEntity
  <2>4. QED
    BY <1>p, <2>1, <2>2, <2>3
<1>3. ASSUME EntitiesReset
      PROVE  /\ Len(openInternalEntities') = 0
             /\ pool'.entities = pool.entities
             /\ pool'.freeEntities = pool.freeEntities + Len(openInternalEntities)
  <2> DEFINE a == Len(tagStack)
             b == Len(openInternalEntities)
  <2>1. /\ openInternalEntities' = <<>>
        /\ pool' = [pool EXCEPT !.freeTags = @ + a, !.freeEntities = @ + b]
    BY <1>3 DEF EntitiesReset, RecycleRecords
  <2>2. Len(openInternalEntities') = 0
    BY <2>1, EmptySeq
  <2>3. pool'.entities = pool.entities /\ pool'.freeEntities = pool.freeEntities + b
    BY <1>p, <2>1
  <2>4. QED
    BY <2>2, <2>3
<1>4. QED
  BY <1>1, <1>2, <1>3

-----------------------------------------------------------------------------
(* Whose record is on the list.  While nothing failed, the records above the *)
(* one an activation holds are held by activations too: what CloseEntity     *)
(* takes off the list with openEntity is openEntity alone.                   *)

RecordsAboveAreHeld ==
  ~Failed =>
    \A i \in 1..Len(cstack) : HoldsRecord(cstack[i]) =>
      \A r \in (cstack[i].oe + 1)..Len(openInternalEntities) :
        \E j \in 1..Len(cstack) : HoldsRecord(cstack[j]) /\ cstack[j].oe = r

(* And the record an activation holds is of the entity it runs.              *)
RecordsNameEntities ==
  \A i \in 1..Len(cstack) :
    HoldsRecord(cstack[i]) => cstack[i].ent = openInternalEntities[cstack[i].oe].entity

(* The frames and the list, as numbers.                                      *)
LEMMA FramesTyped ==
  ASSUME TypeOK
  PROVE  /\ Len(cstack) \in Nat /\ Len(openInternalEntities) \in Nat
         /\ cstack # <<>> => Len(cstack) \in Nat \ {0} /\ Top = cstack[Len(cstack)]
         /\ \A i \in 1..Len(cstack) : cstack[i] \in Frames /\ cstack[i].oe \in Nat
<1>1. cstack \in Seq(Frames) /\ Len(cstack) \in Nat /\ Len(openInternalEntities) \in Nat
  BY LenProperties DEF TypeOK, ControlOK, EntitiesOK
<1>2. \A i \in 1..Len(cstack) : cstack[i] \in Frames /\ cstack[i].oe \in Nat
  BY <1>1, ElementOfSeq, FrameParts
<1>3. QED
  BY <1>1, <1>2, TopFrame DEF TypeOK

LEMMA SameRoleHolds ==
  ASSUME NEW f, NEW g, SameRole(f, g)
  PROVE  /\ HoldsRecord(f) <=> HoldsRecord(g)
         /\ Nested(f) <=> Nested(g)
         /\ Resumes(f) <=> Resumes(g)
         /\ f.oe = g.oe /\ f.ent = g.ent
  BY DEF SameRole, HoldsRecord, Nested, Resumes

(* Only the activation a processor begins with is not a nested one, and the  *)
(* functions that come before the content are called by a processor.         *)
FramesNest ==
  /\ \A i \in 1..Len(cstack) : i > 1 => Nested(cstack[i])
  /\ \A i \in 1..Len(cstack) :
       cstack[i].fn \in {"doProlog", InitFn} => cstack[i].by = "processor"

LEMMA FramesNestPreserved ==
  ASSUME TypeOK, FramesNest, Shape
  PROVE  FramesNest'
<1>t. /\ Len(cstack) \in Nat
      /\ cstack # <<>> => Len(cstack) \in Nat \ {0} /\ Top = cstack[Len(cstack)]
  BY FramesTyped
<1> SUFFICES ASSUME NEW i \in 1..Len(cstack')
             PROVE  /\ i > 1 => Nested(cstack'[i])
                    /\ cstack'[i].fn \in {"doProlog", InitFn} => cstack'[i].by = "processor"
  BY DEF FramesNest, Nested
<1>k. ASSUME i \in 1..Len(cstack), SameRole(cstack'[i], cstack[i])
      PROVE  /\ i > 1 => Nested(cstack'[i])
             /\ cstack'[i].fn \in {"doProlog", InitFn} => cstack'[i].by = "processor"
  BY <1>k, SameRoleHolds DEF FramesNest, SameRole, InitFn
<1>1. CASE SameFrames
  BY <1>1, <1>k DEF SameFrames
<1>2. CASE PoppedFrames
  BY <1>2, <1>t, <1>k DEF PoppedFrames
<1>3. CASE StartedFrames
  <2>1. CASE i = Len(cstack)
    <3>1. cstack # <<>> /\ cstack[i] = Top
      BY <1>t, <2>1, EmptySeq
    <3>2. Top.fn \in {"doProlog", InitFn} /\ i \in 1..Len(cstack)
      BY <1>3, <2>1, <3>1, <1>t DEF StartedFrames
    <3>3. ~(i > 1)
      BY <3>1, <3>2 DEF FramesNest, Nested
    <3>4. QED
      BY <1>3, <2>1, <3>3 DEF StartedFrames, InitFn
  <2>2. CASE i # Len(cstack)
    <3>1. i \in 1..Len(cstack) /\ i \in 1..Len(cstack) - 1
      BY <1>3, <1>t, <2>2 DEF StartedFrames
    <3>2. QED
      BY <1>3, <1>k, <3>1 DEF StartedFrames
  <2>3. QED
    BY <2>1, <2>2
<1>4. CASE PushedFrames
  <2>1. CASE i = Len(cstack) + 1
    BY <1>4, <2>1 DEF PushedFrames, Nested, InitFn
  <2>2. CASE i # Len(cstack) + 1
    <3>1. i \in 1..Len(cstack) /\ SameRole(cstack'[i], cstack[i])
      BY <1>4, <1>t, <2>2 DEF PushedFrames
    <3>2. QED
      BY <1>k, <3>1
  <2>3. QED
    BY <2>1, <2>2
<1>5. CASE BaseFrames
  <2>1. cstack' # <<>>
    BY EmptySeq
  <2>2. Len(cstack') = 1 /\ i = 1
    <3>1. Len(cstack') = 1
      BY <1>5, <2>1 DEF BaseFrames
    <3>2. QED
      BY <3>1
  <2>3. QED
    BY <1>5, <2>1, <2>2 DEF BaseFrames
<1>6. QED
  BY <1>1, <1>2, <1>3, <1>4, <1>5 DEF Shape, FrameReturned

(* The document's content begins in the activation of the prolog.            *)
LEMMA StartedAlone ==
  ASSUME TypeOK, FramesNest, StartedFrames, cstack # <<>>
  PROVE  Len(cstack) = 1 /\ ~HoldsRecord(Top)
<1>t. Len(cstack) \in Nat \ {0} /\ Top = cstack[Len(cstack)]
  BY FramesTyped
<1>1. Top.by = "processor"
  BY <1>t DEF FramesNest, StartedFrames
<1>2. ~Nested(Top) /\ ~HoldsRecord(Top)
  BY <1>1 DEF Nested, HoldsRecord
<1>3. Len(cstack) > 1 => Nested(cstack[Len(cstack)])
  BY <1>t DEF FramesNest
<1>4. QED
  <2>1. ~(Len(cstack) > 1)
    BY <1>t, <1>2, <1>3, Zenon
  <2>2. QED
    BY <1>t, <1>2, <2>1

LEMMA RecordsNameEntitiesPreserved ==
  ASSUME TypeOK, HeldRecordsAreListed, RecordsNameEntities, Shape
  PROVE  RecordsNameEntities'
<1> SUFFICES ASSUME NEW i \in 1..Len(cstack'), HoldsRecord(cstack'[i])
             PROVE  cstack'[i].ent = openInternalEntities'[cstack'[i].oe].entity
  BY DEF RecordsNameEntities, HoldsRecord
<1>t. /\ Len(cstack) \in Nat /\ Len(openInternalEntities) \in Nat
      /\ cstack # <<>> => Len(cstack) \in Nat \ {0} /\ Top = cstack[Len(cstack)]
  BY FramesTyped
<1>k. ASSUME i \in 1..Len(cstack), SameRole(cstack'[i], cstack[i]),
             openInternalEntities'[cstack[i].oe] = openInternalEntities[cstack[i].oe]
      PROVE  cstack'[i].ent = openInternalEntities'[cstack'[i].oe].entity
  BY <1>k, SameRoleHolds DEF RecordsNameEntities
<1>1. CASE SameFrames /\ openInternalEntities' = openInternalEntities
  BY <1>1, <1>k DEF SameFrames
<1>2. CASE PoppedFrames /\ openInternalEntities' = openInternalEntities
  BY <1>2, <1>t, <1>k DEF PoppedFrames
<1>3. CASE PoppedFrames /\ HoldsRecord(Top) /\ RecordsKept(Top.oe - 1)
  <2>1. i \in 1..Len(cstack) - 1 /\ i \in 1..Len(cstack) /\ cstack # <<>>
    BY <1>3, <1>t, EmptySeq DEF PoppedFrames
  <2>2. SameRole(cstack'[i], cstack[i])
    BY <1>3, <2>1 DEF PoppedFrames
  <2>3. HoldsRecord(cstack[i]) /\ cstack[i].oe \in 1..Len(openInternalEntities)
    BY <2>1, <2>2, SameRoleHolds DEF HeldRecordsAreListed
  <2>4. cstack[i].oe < Top.oe /\ Top.oe \in Nat
    BY <1>3, <1>t, <2>1, <2>3, FramesTyped DEF HeldRecordsAreListed
  <2>5. cstack[i].oe \in 1..Top.oe - 1
    BY <2>3, <2>4, <1>t
  <2>6. QED
    BY <1>3, <1>k, <2>1, <2>2, <2>5 DEF RecordsKept
<1>4. CASE StartedFrames /\ openInternalEntities' = openInternalEntities
  <2>1. i # Len(cstack)
    BY <1>4 DEF StartedFrames, HoldsRecord
  <2>2. i \in 1..Len(cstack) /\ i \in 1..Len(cstack) - 1
    BY <1>4, <1>t, <2>1 DEF StartedFrames
  <2>3. QED
    BY <1>4, <1>k, <2>2 DEF StartedFrames
<1>5. CASE PushedFrames
  <2>1. CASE i = Len(cstack) + 1
    BY <1>5, <2>1 DEF PushedFrames, HoldsRecord
  <2>2. CASE i # Len(cstack) + 1
    <3>1. i \in 1..Len(cstack) /\ SameRole(cstack'[i], cstack[i])
      BY <1>5, <1>t, <2>2 DEF PushedFrames
    <3>2. cstack[i].oe \in 1..Len(openInternalEntities)
      BY <3>1, SameRoleHolds DEF HeldRecordsAreListed
    <3>3. openInternalEntities'[cstack[i].oe] = openInternalEntities[cstack[i].oe]
      BY <1>5, <3>2 DEF PushedFrames, RecordsKept
    <3>4. QED
      BY <1>k, <3>1, <3>3
  <2>3. QED
    BY <2>1, <2>2
<1>6. CASE BaseFrames
  <2>1. cstack' # <<>>
    BY EmptySeq
  <2>2. Len(cstack') = 1 /\ i = 1
    BY <1>6, <2>1 DEF BaseFrames
  <2>3. QED
    BY <1>6, <2>1, <2>2 DEF BaseFrames
<1>7. QED
  BY <1>1, <1>2, <1>3, <1>4, <1>5, <1>6 DEF Shape, FrameReturned

LEMMA RecordsAboveAreHeldPreserved ==
  ASSUME TypeOK, HeldRecordsAreListed, RecordsAboveAreHeld, FramesNest,
         NotSuspendedNested, Shape,
         Failed => Failed' \/ cstack' = <<>>
  PROVE  RecordsAboveAreHeld'
<1> SUFFICES ASSUME ~Failed', NEW i \in 1..Len(cstack'), HoldsRecord(cstack'[i]),
                    NEW r \in (cstack'[i].oe + 1)..Len(openInternalEntities')
             PROVE  \E j \in 1..Len(cstack') : HoldsRecord(cstack'[j]) /\ cstack'[j].oe = r
  BY DEF RecordsAboveAreHeld, HoldsRecord
<1>n. cstack' # <<>> /\ ~Failed
  BY EmptySeq
<1>t. /\ Len(cstack) \in Nat /\ Len(openInternalEntities) \in Nat
      /\ cstack # <<>> => Len(cstack) \in Nat \ {0} /\ Top = cstack[Len(cstack)]
      /\ \A k \in 1..Len(cstack) : cstack[k].oe \in Nat
  BY FramesTyped
<1>h. ASSUME i \in 1..Len(cstack), SameRole(cstack'[i], cstack[i]),
             r \in 1..Len(openInternalEntities)
      PROVE  \E j \in 1..Len(cstack) : HoldsRecord(cstack[j]) /\ cstack[j].oe = r
  <2>1. HoldsRecord(cstack[i]) /\ cstack[i].oe = cstack'[i].oe /\ cstack[i].oe \in Nat
    BY <1>h, <1>t, SameRoleHolds
  <2>2. r \in (cstack[i].oe + 1)..Len(openInternalEntities)
    BY <1>h, <1>t, <2>1
  <2>3. QED
    BY <1>h, <1>n, <2>1, <2>2 DEF RecordsAboveAreHeld
<1>1. CASE SameFrames /\ openInternalEntities' = openInternalEntities
  <2>1. i \in 1..Len(cstack) /\ SameRole(cstack'[i], cstack[i])
    BY <1>1 DEF SameFrames
  <2>2. cstack'[i].oe \in Nat
    BY <1>t, <2>1, SameRoleHolds
  <2>3. r \in 1..Len(openInternalEntities)
    BY <1>1, <1>t, <2>2
  <2>4. PICK j \in 1..Len(cstack) : HoldsRecord(cstack[j]) /\ cstack[j].oe = r
    BY <1>h, <2>1, <2>3
  <2>5. SameRole(cstack'[j], cstack[j])
    BY <1>1, <2>4 DEF SameFrames
  <2>6. j \in 1..Len(cstack') /\ HoldsRecord(cstack'[j]) /\ cstack'[j].oe = r
    BY <1>1, <2>4, <2>5, SameRoleHolds DEF SameFrames
  <2>7. QED
    BY <2>6
<1>2. CASE /\ PoppedFrames
           /\ \/ /\ openInternalEntities' = openInternalEntities
                 /\ HoldsRecord(Top) => Failed \/ parsing = "SUSPENDED"
              \/ HoldsRecord(Top) /\ Len(openInternalEntities') = Top.oe - 1
  <2>1. i \in 1..Len(cstack) - 1 /\ i \in 1..Len(cstack) /\ cstack # <<>>
    BY <1>2, <1>t, EmptySeq DEF PoppedFrames
  <2>2. SameRole(cstack'[i], cstack[i])
    BY <1>2, <2>1 DEF PoppedFrames
  <2>3. HoldsRecord(cstack[i]) /\ cstack[i].oe \in 1..Len(openInternalEntities)
        /\ cstack'[i].oe = cstack[i].oe
    BY <2>1, <2>2, SameRoleHolds DEF HeldRecordsAreListed
  <2>4. ASSUME HoldsRecord(Top)
        PROVE  /\ cstack[i].oe < Top.oe
               /\ Top.oe \in 1..Len(openInternalEntities)
    <3>1. Len(cstack) \in 1..Len(cstack) /\ i < Len(cstack) /\ Top = cstack[Len(cstack)]
      BY <1>t, <2>1
    <3>2. HoldsRecord(cstack[Len(cstack)])
      BY <2>4, <3>1
    <3>3. /\ cstack[i].oe < cstack[Len(cstack)].oe
          /\ cstack[Len(cstack)].oe \in 1..Len(openInternalEntities)
      BY <2>1, <2>3, <3>1, <3>2 DEF HeldRecordsAreListed
    <3>4. QED
      BY <3>1, <3>3
  <2>5. ASSUME NEW j \in 1..Len(cstack), HoldsRecord(cstack[j]), cstack[j].oe = r,
               j # Len(cstack)
        PROVE  \E jj \in 1..Len(cstack') : HoldsRecord(cstack'[jj]) /\ cstack'[jj].oe = r
    <3>1. j \in 1..Len(cstack) - 1
      BY <1>t, <2>1, <2>5
    <3>2. SameRole(cstack'[j], cstack[j])
      BY <1>2, <3>1 DEF PoppedFrames
    <3>3. HoldsRecord(cstack'[j]) /\ cstack'[j].oe = r
      BY <2>5, <3>2, SameRoleHolds
    <3>4. j \in 1..Len(cstack')
      BY <1>2, <3>1 DEF PoppedFrames
    <3>5. QED
      BY <3>3, <3>4
  <2>6. CASE openInternalEntities' = openInternalEntities /\ ~HoldsRecord(Top)
    <3>1. r \in 1..Len(openInternalEntities)
      BY <1>t, <2>3, <2>6
    <3>2. PICK j \in 1..Len(cstack) : HoldsRecord(cstack[j]) /\ cstack[j].oe = r
      BY <1>h, <2>1, <2>2, <3>1
    <3>3. j # Len(cstack)
      BY <1>t, <2>1, <2>6, <3>2
    <3>4. QED
      BY <2>5, <3>2, <3>3
  <2>7. CASE HoldsRecord(Top) /\ parsing = "SUSPENDED"
    <3>1. cstack[i].oe < Top.oe /\ Top.oe <= Len(openInternalEntities)
          /\ Len(openInternalEntities) <= 1 /\ cstack[i].oe >= 1
      BY <2>3, <2>4, <2>7 DEF NotSuspendedNested
    <3>2. QED
      BY <1>t, <2>1, <2>3, <2>4, <2>7, <3>1
  <2>8. CASE HoldsRecord(Top) /\ Len(openInternalEntities') = Top.oe - 1
    <3>1. r \in 1..Len(openInternalEntities) /\ r # Top.oe
      BY <1>t, <2>3, <2>4, <2>8
    <3>2. PICK j \in 1..Len(cstack) : HoldsRecord(cstack[j]) /\ cstack[j].oe = r
      BY <1>h, <2>1, <2>2, <3>1
    <3>3. j # Len(cstack)
      BY <1>t, <2>1, <3>1, <3>2
    <3>4. QED
      BY <2>5, <3>2, <3>3
  <2>9. QED
    BY <1>2, <1>n, <2>6, <2>7, <2>8
<1>3. CASE StartedFrames /\ openInternalEntities' = openInternalEntities
  <2>1. cstack # <<>>
    BY <1>3, <1>t, EmptySeq DEF StartedFrames
  <2>2. Len(cstack') = 1 /\ i = 1
    BY <1>3, <2>1, StartedAlone DEF StartedFrames
  <2>3. QED
    BY <1>3, <2>1, <2>2, StartedAlone DEF StartedFrames, HoldsRecord
<1>4. CASE PushedFrames
  <2>1. CASE i = Len(cstack) + 1
    <3>1. cstack'[i].oe = Len(openInternalEntities')
      BY <1>4, <2>1 DEF PushedFrames, HoldsRecord
    <3>2. Len(openInternalEntities') \in Nat
      BY <1>4, <1>t, <2>1 DEF PushedFrames
    <3>3. QED
      BY <3>1, <3>2
  <2>2. CASE i # Len(cstack) + 1
    <3>1. i \in 1..Len(cstack) /\ SameRole(cstack'[i], cstack[i])
      BY <1>4, <1>t, <2>2 DEF PushedFrames
    <3>2. cstack'[i].oe \in Nat
      BY <1>t, <3>1, SameRoleHolds
    <3>3. CASE r \in 1..Len(openInternalEntities)
      <4>1. PICK j \in 1..Len(cstack) : HoldsRecord(cstack[j]) /\ cstack[j].oe = r
        BY <1>h, <3>1, <3>3
      <4>2. SameRole(cstack'[j], cstack[j]) /\ j \in 1..Len(cstack')
        BY <1>4, <1>t, <4>1 DEF PushedFrames
      <4>3. QED
        BY <4>1, <4>2, SameRoleHolds
    <3>4. CASE r \notin 1..Len(openInternalEntities)
      <4> DEFINE j == Len(cstack) + 1
      <4>1. openInternalEntities' # openInternalEntities
        BY <1>t, <3>2, <3>4
      <4>2. /\ cstack'[j].by = "processInternalEntity"
            /\ cstack'[j].oe = Len(openInternalEntities) + 1
            /\ Len(openInternalEntities') = Len(openInternalEntities) + 1
        BY <1>4, <4>1 DEF PushedFrames
      <4>3. r = Len(openInternalEntities) + 1
        BY <1>t, <3>2, <3>4, <4>2
      <4>4. j \in 1..Len(cstack')
        BY <1>4, <1>t DEF PushedFrames
      <4>5. QED
        BY <4>2, <4>3, <4>4 DEF HoldsRecord
    <3>5. QED
      BY <3>3, <3>4
  <2>3. QED
    BY <2>1, <2>2
<1>5. CASE BaseFrames
  <2>1. Len(cstack') = 1 /\ i = 1
    BY <1>5, <1>n DEF BaseFrames
  <2>2. cstack'[i].oe \in Nat /\ cstack'[i].oe = Len(openInternalEntities')
    BY <1>5, <1>n, <2>1 DEF BaseFrames
  <2>3. QED
    BY <2>2
<1>6. QED
  BY <1>1, <1>2, <1>3, <1>4, <1>5 DEF Shape, FrameReturned

-----------------------------------------------------------------------------
(* The counts and the flags.                                                 *)

LEMMA ClosedIsInnermost ==
  ASSUME TypeOK, HeldRecordsAreListed, ErrorQuiet, RecordsAboveAreHeld, EntityClosed
  PROVE  ~Failed /\ Top.oe = Len(openInternalEntities)
<1>t. /\ Len(cstack) \in Nat \ {0} /\ Len(openInternalEntities) \in Nat
      /\ Top = cstack[Len(cstack)]
  BY FramesTyped DEF EntityClosed
<1>1. ~Failed
  BY DEF EntityClosed, ErrorQuiet, Failed
<1>2. Top.oe \in 1..Len(openInternalEntities) /\ HoldsRecord(Top)
  BY <1>t DEF EntityClosed, HeldRecordsAreListed
<1>3. SUFFICES ASSUME Top.oe # Len(openInternalEntities) PROVE FALSE
  BY <1>1
<1>4. Top.oe + 1 \in (Top.oe + 1)..Len(openInternalEntities)
  BY <1>t, <1>2, <1>3
<1>5. PICK j \in 1..Len(cstack) : HoldsRecord(cstack[j]) /\ cstack[j].oe = Top.oe + 1
  <2> DEFINE m == Len(cstack)
  <2>1. m \in 1..Len(cstack) /\ HoldsRecord(cstack[m]) /\ cstack[m].oe = Top.oe
    BY <1>t, <1>2
  <2> HIDE DEF m
  <2>2. \A r \in (cstack[m].oe + 1)..Len(openInternalEntities) :
          \E j \in 1..Len(cstack) : HoldsRecord(cstack[j]) /\ cstack[j].oe = r
    BY <1>1, <2>1 DEF RecordsAboveAreHeld
  <2>3. QED
    BY <1>4, <2>1, <2>2
<1>6. CASE j = Len(cstack)
  BY <1>t, <1>2, <1>5, <1>6
<1>7. CASE j # Len(cstack)
  <2>1. j < Len(cstack)
    BY <1>t, <1>5, <1>7
  <2>2. cstack[j].oe < Top.oe
    BY <1>t, <1>2, <1>5, <2>1 DEF HeldRecordsAreListed
  <2>3. QED
    BY <1>2, <1>5, <2>2
<1>8. QED
  BY <1>6, <1>7

LEMMA EntitiesConservedPreserved ==
  ASSUME TypeOK, HeldRecordsAreListed, ErrorQuiet, RecordsAboveAreHeld, EntitiesConserved, Next
  PROVE  EntitiesConserved'
<1>t. /\ Len(openInternalEntities) \in Nat
      /\ pool.entities \in Nat /\ pool.freeEntities \in Nat
  BY LenProperties DEF TypeOK, PoolOK, EntitiesOK
<1>1. CASE EntitiesKept
  BY <1>1 DEF EntitiesKept, EntitiesConserved
<1>2. CASE EntityOpened
  BY <1>2, <1>t, EntityCounts DEF EntitiesConserved
<1>3. CASE EntityClosed
  <2>1. Top.oe = Len(openInternalEntities)
    BY <1>3, ClosedIsInnermost
  <2>2. /\ Len(openInternalEntities') = Top.oe - 1
        /\ pool'.entities = pool.entities /\ pool'.freeEntities = pool.freeEntities + 1
    BY <1>3, EntityCounts
  <2>3. QED
    BY <1>t, <2>1, <2>2 DEF EntitiesConserved
<1>4. CASE EntitiesReset
  BY <1>4, <1>t, EntityCounts DEF EntitiesConserved
<1>5. QED
  BY <1>1, <1>2, <1>3, <1>4, EntityStep

LEMMA OpenFlagsPreserved ==
  ASSUME TypeOK, HeldRecordsAreListed, ErrorQuiet, RecordsAboveAreHeld, RecordsNameEntities,
         OpenFlagsMatchList, Next, Failed => Failed' \/ EntitiesReset
  PROVE  OpenFlagsMatchList'
<1> DEFINE n == Len(openInternalEntities)
           L == openInternalEntities
<1>t. /\ n \in Nat
      /\ L \in Seq([entity: Entities, startTagLevel: Nat])
      /\ \A i \in 1..n : L[i] \in [entity: Entities, startTagLevel: Nat]
      /\ entityOpen \in [Entities -> BOOLEAN]
  <2>1. L \in Seq([entity: Entities, startTagLevel: Nat]) /\ entityOpen \in [Entities -> BOOLEAN]
    BY DEF TypeOK, EntitiesOK
  <2>2. QED
    BY <2>1, LenProperties, ElementOfSeq
<1>1. CASE EntitiesReset
  <2>1. Len(openInternalEntities') = 0
    BY <1>1, EntityCounts
  <2>2. \A e \in Entities : entityOpen'[e] = FALSE
    BY <1>1 DEF EntitiesReset, ResetEntities
  <2>3. QED
    BY <2>1, <2>2 DEF OpenFlagsMatchList
<1> SUFFICES ASSUME ~EntitiesReset, ~Failed'
             PROVE  /\ \A e \in Entities :
                         entityOpen'[e] <=> \E i \in 1..Len(openInternalEntities') :
                                               openInternalEntities'[i].entity = e
                    /\ \A i, j \in 1..Len(openInternalEntities') :
                         openInternalEntities'[i].entity = openInternalEntities'[j].entity => i = j
  BY <1>1 DEF OpenFlagsMatchList
<1>f. ~Failed
  OBVIOUS
<1>o. /\ \A e \in Entities : entityOpen[e] <=> \E i \in 1..n : L[i].entity = e
      /\ \A i, j \in 1..n : L[i].entity = L[j].entity => i = j
  BY <1>f DEF OpenFlagsMatchList
<1>2. CASE EntitiesKept
  <2>1. UNCHANGED <<openInternalEntities, entityOpen>>
    BY <1>2 DEF EntitiesKept
  <2>2. QED
    BY <1>o, <2>1
<1>3. CASE EntityOpened
  <2>1. PICK e \in Entities : ~entityOpen[e] /\ OpenEntity(e)
    BY <1>3 DEF EntityOpened
  <2> DEFINE r == [entity |-> e, startTagLevel |-> tagLevel]
  <2>2. r \in [entity: Entities, startTagLevel: Nat] /\ r.entity = e
    BY DEF TypeOK, TagsOK
  <2>3. openInternalEntities' = Append(L, r)
    BY <2>1 DEF OpenEntity
  <2> HIDE DEF r
  <2>4. /\ Len(openInternalEntities') = n + 1
        /\ openInternalEntities'[n + 1] = r
        /\ \A i \in 1..n : openInternalEntities'[i] = L[i]
    BY <2>2, <2>3, <1>t, Appended
  <2>5. \A x \in Entities : entityOpen'[x] = IF x = e THEN TRUE ELSE entityOpen[x]
    BY <2>1, <1>t DEF OpenEntity
  <2>6. \A i \in 1..n : L[i].entity # e
    BY <2>1, <1>o
  <2> HIDE DEF n, L
  <2>7. \A i \in 1..n + 1 : i \in 1..n \/ i = n + 1
    BY <1>t
  <2>8. \A i \in 1..n : i \in 1..n + 1
    BY <1>t
  <2>9. n + 1 \in 1..n + 1
    BY <1>t
  <2>10. ASSUME NEW x \in Entities
         PROVE  entityOpen'[x] <=> \E i \in 1..n + 1 : openInternalEntities'[i].entity = x
    <3>1. CASE x = e
      BY <2>2, <2>4, <2>5, <2>9, <3>1
    <3>2. CASE x # e
      <4>1. entityOpen'[x] = entityOpen[x]
        BY <2>5, <3>2
      <4>2. ASSUME NEW i \in 1..n + 1, openInternalEntities'[i].entity = x
            PROVE  i \in 1..n /\ L[i].entity = x
        BY <2>2, <2>4, <2>7, <3>2, <4>2
      <4>3. ASSUME NEW i \in 1..n, L[i].entity = x
            PROVE  i \in 1..n + 1 /\ openInternalEntities'[i].entity = x
        BY <2>4, <2>8, <4>3
      <4>4. entityOpen[x] <=> \E i \in 1..n : L[i].entity = x
        BY <1>o
      <4>5. QED
        BY <4>1, <4>2, <4>3, <4>4
    <3>3. QED
      BY <3>1, <3>2
  <2>11. \A i, j \in 1..n + 1 :
           openInternalEntities'[i].entity = openInternalEntities'[j].entity => i = j
    BY <1>o, <2>2, <2>4, <2>6, <2>7
  <2>12. QED
    BY <2>4, <2>10, <2>11
<1>4. CASE EntityClosed
  <2>1. Top.oe = n
    BY <1>4, ClosedIsInnermost
  <2>2. /\ n \in 1..n
        /\ Len(openInternalEntities') = n - 1
        /\ \A k \in 1..n - 1 : openInternalEntities'[k] = L[k]
    BY <1>4, <2>1, EntityCounts
  <2>3. Top.ent = L[n].entity
    <3>1. Len(cstack) \in 1..Len(cstack) /\ Top = cstack[Len(cstack)] /\ HoldsRecord(Top)
      BY <1>4, FramesTyped DEF EntityClosed
    <3>2. QED
      BY <2>1, <3>1 DEF RecordsNameEntities
  <2>4. entityOpen' = [entityOpen EXCEPT ![Top.ent] = FALSE]
    BY <1>4 DEF EntityClosed, CloseEntity
  <2>5. \A x \in Entities : entityOpen'[x] = IF x = L[n].entity THEN FALSE ELSE entityOpen[x]
    BY <1>t, <2>3, <2>4
  <2> HIDE DEF n, L
  <2>6. \A i \in 1..n : i \in 1..n - 1 \/ i = n
    BY <1>t
  <2>7. \A i \in 1..n - 1 : i \in 1..n /\ i # n
    BY <1>t
  <2>8. ASSUME NEW x \in Entities
        PROVE  entityOpen'[x] <=> \E i \in 1..n - 1 : openInternalEntities'[i].entity = x
    <3>1. CASE x = L[n].entity
      <4>1. \A i \in 1..n - 1 : openInternalEntities'[i].entity # x
        BY <1>o, <2>2, <2>7, <3>1
      <4>2. QED
        BY <2>5, <3>1, <4>1
    <3>2. CASE x # L[n].entity
      <4>1. entityOpen'[x] = entityOpen[x]
        BY <2>5, <3>2
      <4>2. ASSUME NEW i \in 1..n, L[i].entity = x
            PROVE  i \in 1..n - 1 /\ openInternalEntities'[i].entity = x
        BY <2>2, <2>6, <3>2, <4>2
      <4>3. ASSUME NEW i \in 1..n - 1, openInternalEntities'[i].entity = x
            PROVE  i \in 1..n /\ L[i].entity = x
        BY <2>2, <2>7, <4>3
      <4>4. entityOpen[x] <=> \E i \in 1..n : L[i].entity = x
        BY <1>o
      <4>5. QED
        BY <4>1, <4>2, <4>3, <4>4
    <3>3. QED
      BY <3>1, <3>2
  <2>9. \A i, j \in 1..n - 1 :
          openInternalEntities'[i].entity = openInternalEntities'[j].entity => i = j
    BY <1>o, <2>2, <2>7
  <2>10. QED
    BY <2>2, <2>8, <2>9
<1>5. QED
  BY <1>2, <1>3, <1>4, EntityStep

-----------------------------------------------------------------------------
(* The theorems about entities.                                              *)

EntityInv ==
  /\ FramesNest /\ RecordsNameEntities /\ RecordsAboveAreHeld
  /\ EntitiesConserved /\ OpenFlagsMatchList

LEMMA EntityInvInit == Init => EntityInv
<1> SUFFICES ASSUME Init PROVE EntityInv
  OBVIOUS
<1>1. /\ Len(cstack) = 0 /\ Len(openInternalEntities) = 0
      /\ pool.entities = 0 /\ pool.freeEntities = 0
      /\ \A e \in Entities : entityOpen[e] = FALSE
  BY EmptySeq DEF Init
<1>2. FramesNest /\ RecordsNameEntities /\ RecordsAboveAreHeld
  BY <1>1 DEF FramesNest, RecordsNameEntities, RecordsAboveAreHeld
<1>3. EntitiesConserved /\ OpenFlagsMatchList
  BY <1>1 DEF EntitiesConserved, OpenFlagsMatchList
<1>4. QED
  BY <1>2, <1>3 DEF EntityInv

LEMMA EntityInvStutters ==
  ASSUME EntityInv, UNCHANGED vars
  PROVE  EntityInv'
<1>1. /\ UNCHANGED <<processor, openInternalEntities, entityOpen, pool, cstack, result>>
  BY DEF vars, api, entities, control
<1>2. FramesNest' /\ RecordsNameEntities' /\ RecordsAboveAreHeld'
  BY <1>1 DEF EntityInv, FramesNest, RecordsNameEntities, RecordsAboveAreHeld, Nested,
              HoldsRecord, Failed
<1>3. EntitiesConserved' /\ OpenFlagsMatchList'
  BY <1>1 DEF EntityInv, EntitiesConserved, OpenFlagsMatchList, Failed
<1>4. QED
  BY <1>2, <1>3 DEF EntityInv

LEMMA EntityInvPreserved ==
  ASSUME IndInv, EntityInv, NotSuspendedNested, [Next]_vars
  PROVE  EntityInv'
<1>1. CASE UNCHANGED vars
  BY <1>1, EntityInvStutters
<1>2. CASE Next
  <2>1. Shape
    BY <1>2, NextShape DEF IndInv
  <2>2. Failed => Failed' \/ (cstack' = <<>> /\ EntitiesReset)
    <3>1. XML_ParserReset => cstack' = <<>> /\ EntitiesReset
      BY DEF XML_ParserReset, IndInv, Idling, EntitiesReset, control
    <3>2. QED
      BY <1>2, <3>1, FailedStays DEF IndInv
  <2>3. FramesNest' /\ RecordsNameEntities'
    BY <2>1, FramesNestPreserved, RecordsNameEntitiesPreserved DEF IndInv, EntityInv
  <2>4. RecordsAboveAreHeld'
    BY <2>1, <2>2, RecordsAboveAreHeldPreserved DEF IndInv, EntityInv
  <2>5. EntitiesConserved'
    BY <1>2, EntitiesConservedPreserved DEF IndInv, EntityInv
  <2>6. OpenFlagsMatchList'
    BY <1>2, <2>2, OpenFlagsPreserved DEF IndInv, EntityInv
  <2>7. QED
    BY <2>3, <2>4, <2>5, <2>6 DEF EntityInv
<1>3. QED
  BY <1>1, <1>2

THEOREM EntityInvariance == Spec /\ []NotSuspendedNested => []EntityInv
<1>1. Init => EntityInv
  BY EntityInvInit
<1>2. IndInv /\ EntityInv /\ NotSuspendedNested /\ [Next]_vars => EntityInv'
  BY EntityInvPreserved
<1>3. QED
  BY <1>1, <1>2, Invariance, PTL DEF Spec

(* No OPEN_INTERNAL_ENTITY record is lost, across errors, aborts, resets and *)
(* suspensions outside of nested entities.                                   *)
THEOREM EntityRecordsNotLost == Spec /\ []NotSuspendedNested => []EntitiesConserved
<1>1. EntityInv => EntitiesConserved
  BY DEF EntityInv
<1>2. QED
  BY <1>1, EntityInvariance, PTL

(* ENTITY.open is set for exactly the entities on m_openInternalEntities, so *)
(* a reference is taken for a recursive one only if it is, and no entity is  *)
(* opened twice.                                                             *)
THEOREM OpenFlagsExact == Spec /\ []NotSuspendedNested => []OpenFlagsMatchList
<1>1. EntityInv => OpenFlagsMatchList
  BY DEF EntityInv
<1>2. QED
  BY <1>1, EntityInvariance, PTL

=============================================================================
