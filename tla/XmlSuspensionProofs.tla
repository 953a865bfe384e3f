------------------------- MODULE XmlSuspensionProofs -------------------------
(***************************************************************************)
(* The names of the open elements while the application has the control:   *)
(* storeRawNames has copied every one of them out of the parse buffer.     *)
(* Proved for every set of documents and entities, for the behaviours in   *)
(* which no handler suspends the parser inside of an internal entity (the  *)
(* content after such an entity is read by a doContent whose caller,       *)
(* internalEntityProcessor, does not store the names).                     *)
(*                                                                         *)
(* Then where a parser can be when a handler has suspended it.  If no      *)
(* handler suspends it while an internal entity is open, it is never       *)
(* suspended inside of one, except that cdataSectionProcessor and          *)
(* doContent go on after the end of a CDATA section whose handler          *)
(* suspended the parser: when a reference is the next token, it is         *)
(* followed.  For documents without such a reference, what is proved of    *)
(* behaviours that are never suspended inside of an entity holds of all    *)
(* behaviours.                                                             *)
(*                                                                         *)
(* At last the documents whose entities refer to no other entity: at most  *)
(* one is open, wherever a handler suspends the parser, and what           *)
(* XmlEntityProofs proves of behaviours that are not suspended inside of   *)
(* nested entities holds of all behaviours.                                *)
(***************************************************************************)
EXTENDS XmlEntityProofs

-----------------------------------------------------------------------------
(* Content is read under contentProcessor only.                              *)

OnlyContentProcessor ==
  /\ processor # "internalEntityProcessor"
  /\ \A i \in 1..Len(cstack) :
       /\ ~Resumes(cstack[i])
       /\ cstack[i].fn = "doContent" => cstack[1].by = "contentProcessor"

LEMMA ProcessorStep ==
  ASSUME TypeOK, HeldRecordsAreListed, NotSuspendedInEntity, Next,
         processor # "internalEntityProcessor"
  PROVE  processor' # "internalEntityProcessor"
<1>1. CASE ReturnFromEntity
  <2>1. Top.oe \in 1..Len(openInternalEntities)
    BY <1>1, Answered DEF ReturnFromEntity, HoldsRecord
  <2>2. openInternalEntities # <<>>
    BY <2>1, EmptySeq
  <2>3. ~SuspendedInside
    BY <2>2 DEF SuspendedInside, NotSuspendedInEntity
  <2>4. QED
    BY <1>1, <2>3 DEF ReturnFromEntity
<1>2. CASE DoContent
  BY <1>2 DEF DoContent, ContentEndOfText, ContentPartial, ContentTrailing, ContentInvalid,
     ContentData, ContentEntityRef, ContentStartTag, ContentEmptyElement, ContentEndTag,
     ContentEndTagAsync, ContentEndTagNoElement, ContentCdataOpen, Fail, ToEpilog, api
<1>3. CASE DoCdataSection \/ DoProlog \/ DoEpilog \/ ExternalEntityInit
  BY <1>3 DEF DoCdataSection, CdataEndOfText, CdataInvalid, CdataText, CdataClose, DoProlog,
     PrologWait, PrologRefuse, PrologMisc, PrologInstanceStart, DoEpilog, EpilogEndOfText,
     EpilogTrailing, EpilogMisc, EpilogRefuse, ExternalEntityInit, Fail, api
<1>4. CASE ReturnFromCdata \/ ReturnFromResumedEntity \/ ReturnFromContent \/ ReturnFromTail
           \/ ReturnFromCdataProcessor \/ FinishCall
  BY <1>4 DEF ReturnFromCdata, ReturnFromResumedEntity, ReturnFromContent, ReturnFromTail,
     ReturnFromCdataProcessor, FinishCall, EnterError, api
<1>5. CASE Feed \/ XML_ResumeParser
  <2>1. PICK s : CallProcessor(s)
    BY <1>5 DEF Feed, XML_ParseBuffer, XML_ParseEnd, XML_ResumeParser
  <2>2. QED
    BY <2>1 DEF CallProcessor
<1>6. CASE XML_ParseNothing \/ XML_ParseRefused \/ XML_ResumeRefused \/ XML_StopParser
           \/ XML_ParserReset
  BY <1>6 DEF XML_ParseNothing, XML_ParseRefused, XML_ResumeRefused, XML_StopParser,
     XML_ParserReset
<1>7. QED
  BY <1>1, <1>2, <1>3, <1>4, <1>5, <1>6 DEF Next, Step, Returns, Application

LEMMA OnlyContentProcessorPreserved ==
  ASSUME TypeOK, HeldRecordsAreListed, FramesNest, OnlyContentProcessor,
         NotSuspendedInEntity, Next, Shape
  PROVE  OnlyContentProcessor'
<1>p. processor' # "internalEntityProcessor"
  BY ProcessorStep DEF OnlyContentProcessor
<1> SUFFICES ASSUME NEW i \in 1..Len(cstack')
             PROVE  /\ ~Resumes(cstack'[i])
                    /\ cstack'[i].fn = "doContent" => cstack'[1].by = "contentProcessor"
  BY <1>p DEF OnlyContentProcessor, Resumes
<1>t. /\ Len(cstack) \in Nat
      /\ cstack # <<>> => Len(cstack) \in Nat \ {0} /\ Top = cstack[Len(cstack)]
  BY FramesTyped
<1>k. ASSUME i \in 1..Len(cstack), SameRole(cstack'[i], cstack[i]),
             SameRole(cstack'[1], cstack[1])
      PROVE  /\ ~Resumes(cstack'[i])
             /\ cstack'[i].fn = "doContent" => cstack'[1].by = "contentProcessor"
  BY <1>k DEF OnlyContentProcessor, Resumes, SameRole
<1>1. CASE SameFrames
  <2>1. i \in 1..Len(cstack) /\ 1 \in 1..Len(cstack)
    BY <1>1, <1>t DEF SameFrames
  <2>2. QED
    BY <1>1, <1>k, <2>1 DEF SameFrames
<1>2. CASE PoppedFrames
  <2>1. i \in 1..Len(cstack) - 1 /\ 1 \in 1..Len(cstack) - 1 /\ i \in 1..Len(cstack)
    BY <1>2, <1>t DEF PoppedFrames
  <2>2. QED
    BY <1>2, <1>k, <2>1 DEF PoppedFrames
<1>3. CASE StartedFrames
  <2>1. cstack # <<>>
    BY <1>3, <1>t, EmptySeq DEF StartedFrames
  <2>2. Len(cstack) = 1 /\ i = 1
    BY <1>3, <2>1, StartedAlone DEF StartedFrames
  <2>3. cstack'[1].by = "contentProcessor"
    BY <1>3, <2>2 DEF StartedFrames
  <2>4. QED
    BY <2>2, <2>3 DEF Resumes
<1>4. CASE PushedFrames
  <2>1. 1 \in 1..Len(cstack) /\ Len(cstack) \in 1..Len(cstack) /\ cstack # <<>>
    BY <1>4, <1>t, EmptySeq DEF PushedFrames
  <2>2. CASE i = Len(cstack) + 1
    <3>1. ~Resumes(cstack'[i])
      BY <1>4, <2>2 DEF PushedFrames, Resumes
    <3>2. cstack[Len(cstack)].fn = "doContent"
      BY <1>4, <1>t, <2>1 DEF PushedFrames
    <3>3. cstack[1].by = "contentProcessor"
      BY <2>1, <3>2 DEF OnlyContentProcessor
    <3>4. cstack'[1].by = cstack[1].by
      BY <1>4, <2>1 DEF PushedFrames, SameRole
    <3>5. QED
      BY <3>1, <3>3, <3>4
  <2>3. CASE i # Len(cstack) + 1
    <3>1. i \in 1..Len(cstack)
      BY <1>4, <1>t, <2>3 DEF PushedFrames
    <3>2. QED
      BY <1>4, <1>k, <2>1, <3>1 DEF PushedFrames
  <2>4. QED
    BY <2>2, <2>3
<1>5. CASE BaseFrames
  <2>1. cstack' # <<>>
    BY EmptySeq
  <2>2. Len(cstack') = 1
    BY <1>5, <2>1 DEF BaseFrames
  <2>3. i = 1
    BY <2>2
  <2>4. ~Resumes(cstack'[1])
    BY <1>5, <2>1 DEF BaseFrames, OnlyContentProcessor
  <2>5. QED
    BY <1>5, <2>1, <2>3, <2>4 DEF BaseFrames
<1>6. QED
  BY <1>1, <1>2, <1>3, <1>4, <1>5 DEF Shape, FrameReturned

(* The content processor stays at the bottom of the stack until its doContent *)
(* returns to it.                                                            *)
LEMMA BottomStays ==
  ASSUME TypeOK, FramesNest, Shape, cstack # <<>>, cstack[1].by = "contentProcessor",
         ~ReturnFromContent, ~ContentEndTagNoElement
  PROVE  cstack' # <<>> /\ cstack'[1].by = "contentProcessor"
<1>t. Len(cstack) \in Nat \ {0} /\ Top = cstack[Len(cstack)] /\ 1 \in 1..Len(cstack)
  BY FramesTyped
<1>1. CASE SameFrames \/ PushedFrames
  <2>1. SameRole(cstack'[1], cstack[1]) /\ Len(cstack') \in Nat \ {0}
    BY <1>1, <1>t DEF SameFrames, PushedFrames
  <2>2. QED
    BY <2>1, EmptySeq DEF SameRole
<1>2. CASE PoppedFrames
  <2>1. 1 \in 1..Len(cstack) - 1 /\ Len(cstack') \in Nat \ {0}
    BY <1>2, <1>t DEF PoppedFrames
  <2>2. SameRole(cstack'[1], cstack[1])
    BY <1>2, <2>1 DEF PoppedFrames
  <2>3. QED
    BY <2>1, <2>2, EmptySeq DEF SameRole
<1>3. CASE StartedFrames
  <2>1. Len(cstack) = 1
    BY <1>3, StartedAlone
  <2>2. QED
    BY <1>3, <2>1, EmptySeq DEF StartedFrames
<1>4. CASE BaseTurn
  <2>1. Top.by \in {"processor", "cdataSectionProcessor", "internalEntityProcessor", "tail"}
    BY <1>4 DEF BaseTurn
  <2>2. ~(Len(cstack) > 1)
    BY <1>t, <2>1 DEF FramesNest, Nested
  <2>3. Top = cstack[1]
    BY <1>t, <2>2
  <2>4. QED
    BY <2>1, <2>3
<1>5. QED
  BY <1>1, <1>2, <1>3, <1>4 DEF Shape, FrameReturned

-----------------------------------------------------------------------------
(* Where the names of the open elements lie.  While nothing failed no name   *)
(* is lost; a name that was copied has no name in the buffer below it, where *)
(* storeRawNames stops; and a name lies in the buffer only while the call    *)
(* that read it is going on.                                                 *)

RawNamesInOrder ==
  ~Failed =>
    /\ \A i \in 1..Len(tagStack) : tagStack[i].raw \in {"buffer", "entity", "stored"}
    /\ \A i, j \in 1..Len(tagStack) :
         i < j /\ tagStack[j].raw = "stored" => tagStack[i].raw # "buffer"
    /\ (\E i \in 1..Len(tagStack) : tagStack[i].raw = "buffer") =>
         cstack # <<>> /\ cstack[1].by = "contentProcessor"

(* What a step does to the stack of elements.                                *)
BufferMoved(moved) ==
  tagStack' = [i \in 1..Len(tagStack) |->
    IF moved /\ tagStack[i].raw = "buffer" THEN [tagStack[i] EXCEPT !.raw = "stale"]
    ELSE tagStack[i]]

ElementOpened ==
  /\ Running("doContent")
  /\ \E t \in TagRecords : t.raw \in {"buffer", "entity"} /\ tagStack' = Append(tagStack, t)

ElementClosed ==
  tagStack # <<>> /\ tagStack' = SubSeq(tagStack, 1, Len(tagStack) - 1)

LEMMA TagStep ==
  ASSUME TypeOK, Next
  PROVE  \/ UNCHANGED tagStack
         \/ ElementOpened
         \/ ElementClosed
         \/ ReturnFromContent
         \/ call = "none" /\ \E moved \in BOOLEAN : BufferMoved(moved)
         \/ XML_ParserReset
<1>1. CASE ContentStartTag
  <2> DEFINE t == NewTag(Tok(Top).n)
  <2>1. Tok(Top) \in TokenRecords /\ Tok(Top).k = "start"
    BY <1>1, Working DEF ContentStartTag
  <2>2. Tok(Top).n \in Names
    BY <2>1, TokenNames
  <2>3. t \in TagRecords /\ t.raw \in {"buffer", "entity"}
    BY <2>2 DEF NewTag, TagRecords
  <2>4. tagStack' = Append(tagStack, t) /\ Running("doContent")
    BY <1>1 DEF ContentStartTag, PushTag
  <2> HIDE DEF t
  <2>5. QED
    BY <2>3, <2>4 DEF ElementOpened
<1>2. CASE ContentEndTag
  BY <1>2 DEF ContentEndTag, PopTag, ElementClosed
<1>3. CASE ContentEndOfText \/ ContentPartial \/ ContentTrailing \/ ContentInvalid
           \/ ContentData \/ ContentEntityRef \/ ContentEmptyElement \/ ContentEndTagAsync
           \/ ContentEndTagNoElement \/ ContentCdataOpen
  BY <1>3 DEF ContentEndOfText, ContentPartial, ContentTrailing, ContentInvalid, ContentData,
     ContentEntityRef, ContentEmptyElement, ContentEndTagAsync, ContentEndTagNoElement,
     ContentCdataOpen, Fail, tags
<1>4. CASE DoCdataSection \/ DoProlog \/ DoEpilog \/ ExternalEntityInit
  BY <1>4 DEF DoCdataSection, CdataEndOfText, CdataInvalid, CdataText, CdataClose, DoProlog,
     PrologWait, PrologRefuse, PrologMisc, PrologInstanceStart, DoEpilog, EpilogEndOfText,
     EpilogTrailing, EpilogMisc, EpilogRefuse, ExternalEntityInit, Fail, tags
<1>5. CASE ReturnFromCdata \/ ReturnFromEntity \/ ReturnFromResumedEntity \/ ReturnFromTail
           \/ ReturnFromCdataProcessor \/ FinishCall
  BY <1>5 DEF ReturnFromCdata, ReturnFromEntity, ReturnFromResumedEntity, ReturnFromTail,
     ReturnFromCdataProcessor, FinishCall, tags
<1>6. ASSUME NEW n \in 0..Len(doc), NEW p \in BOOLEAN, NEW final \in BOOLEAN,
             NEW moved \in BOOLEAN, XML_ParseBuffer(n, p, final, moved)
      PROVE  call = "none" /\ BufferMoved(moved)
  BY <1>6 DEF XML_ParseBuffer, Idle, BufferMoved
<1>7. CASE XML_ParseEnd \/ XML_ParseNothing \/ XML_ParseRefused \/ XML_ResumeParser
           \/ XML_ResumeRefused \/ XML_StopParser
  BY <1>7 DEF XML_ParseEnd, XML_ParseNothing, XML_ParseRefused, XML_ResumeParser,
     XML_ResumeRefused, XML_StopParser, tags
<1>8. QED
  BY <1>1, <1>2, <1>3, <1>4, <1>5, <1>6, <1>7
     DEF Next, Step, Application, Feed, DoContent, Returns

(* What storeRawNames does to each name.                                     *)
LEMMA StoredNames ==
  ASSUME NEW stack \in Seq(TagRecords),
         \A i \in 1..Len(stack) : stack[i].raw \in {"buffer", "entity", "stored"},
         \A i, j \in 1..Len(stack) : i < j /\ stack[j].raw = "stored" => stack[i].raw # "buffer"
  PROVE  /\ Len(StoreRawNames(stack)) = Len(stack)
         /\ \A i \in 1..Len(stack) : StoreRawNames(stack)[i].raw \in {"entity", "stored"}
<1>1. Len(StoreRawNames(stack)) = Len(stack) /\ Len(stack) \in Nat
  BY StoreRawNamesTyped, LenProperties
<1>2. ASSUME NEW i \in 1..Len(stack)
      PROVE  StoreRawNames(stack)[i].raw \in {"entity", "stored"}
  <2>1. stack[i] \in TagRecords
    BY ElementOfSeq
  <2>2. CASE \E j \in i..Len(stack) : Copied(stack[j])
    <3>1. StoreRawNames(stack)[i] = stack[i]
      BY <2>2 DEF StoreRawNames
    <3>2. PICK j \in i..Len(stack) : Copied(stack[j])
      BY <2>2
    <3>3. j \in 1..Len(stack) /\ j >= i
      BY <1>1, <3>2
    <3>4. stack[j].raw = "stored"
      BY <3>2, <3>3 DEF Copied
    <3>5. stack[i].raw # "buffer"
      BY <3>3, <3>4
    <3>6. QED
      BY <3>1, <3>5
  <2>3. CASE ~\E j \in i..Len(stack) : Copied(stack[j])
    <3>1. StoreRawNames(stack)[i] =
            [stack[i] EXCEPT !.raw = IF @ = "stale" THEN "garbage" ELSE "stored"]
      BY <2>3 DEF StoreRawNames
    <3>2. StoreRawNames(stack)[i].raw = "stored"
      BY <2>1, <3>1 DEF TagRecords
    <3>3. QED
      BY <3>2
  <2>4. QED
    BY <2>2, <2>3
<1>3. QED
  BY <1>1, <1>2

LEMMA RawNamesInOrderPreserved ==
  ASSUME TypeOK, Idling, FramesNest, OnlyContentProcessor, RawNamesInOrder, Next, Shape,
         Failed => Failed' \/ XML_ParserReset
  PROVE  RawNamesInOrder'
<1>t. /\ tagStack \in Seq(TagRecords) /\ Len(tagStack) \in Nat
      /\ \A i \in 1..Len(tagStack) : tagStack[i] \in TagRecords
  <2>1. tagStack \in Seq(TagRecords)
    BY DEF TypeOK, TagsOK
  <2>2. QED
    BY <2>1, LenProperties, ElementOfSeq
<1>1. CASE XML_ParserReset
  <2>1. Len(tagStack') = 0
    BY <1>1, EmptySeq DEF XML_ParserReset, RecycleRecords
  <2>2. QED
    BY <2>1 DEF RawNamesInOrder
<1> SUFFICES ASSUME ~XML_ParserReset, ~Failed'
             PROVE  RawNamesInOrder'
  BY <1>1 DEF RawNamesInOrder
<1>o. /\ \A i \in 1..Len(tagStack) : tagStack[i].raw \in {"buffer", "entity", "stored"}
      /\ \A i, j \in 1..Len(tagStack) :
           i < j /\ tagStack[j].raw = "stored" => tagStack[i].raw # "buffer"
      /\ (\E i \in 1..Len(tagStack) : tagStack[i].raw = "buffer") =>
           cstack # <<>> /\ cstack[1].by = "contentProcessor"
  BY DEF RawNamesInOrder
<1>2. CASE ReturnFromContent
  <2>1. result' = result
    BY <1>2 DEF ReturnFromContent
  <2>2. result.err = "NONE"
    <3>1. result \in Results /\ result # Pending
      BY <1>2 DEF TypeOK, ControlOK, ReturnFromContent, Returning
    <3>2. result.err \in Errors \cup {"NONE"}
      BY <3>1 DEF Results
    <3>3. result.err # "pending"
      BY <3>2, ErrorNames
    <3>4. QED
      BY <2>1, <3>3 DEF Failed
  <2>3. tagStack' = StoreRawNames(tagStack)
    BY <1>2, <2>2 DEF ReturnFromContent
  <2>4. /\ Len(tagStack') = Len(tagStack)
        /\ \A i \in 1..Len(tagStack) : tagStack'[i].raw \in {"entity", "stored"}
    BY <1>t, <1>o, <2>3, StoredNames
  <2>5. QED
    BY <2>4 DEF RawNamesInOrder
<1>3. CASE ContentEndTagNoElement
  <2>1. Len(tagStack') = 0
    BY <1>3, EmptySeq DEF ContentEndTagNoElement, tags
  <2>2. QED
    BY <2>1 DEF RawNamesInOrder
<1>b. ASSUME cstack # <<>>, cstack[1].by = "contentProcessor",
             ~ReturnFromContent, ~ContentEndTagNoElement
      PROVE  cstack' # <<>> /\ cstack'[1].by = "contentProcessor"
  BY <1>b, BottomStays
<1>4. CASE UNCHANGED tagStack /\ ~ReturnFromContent /\ ~ContentEndTagNoElement
  BY <1>4, <1>b, <1>o DEF RawNamesInOrder
<1>5. CASE ElementOpened /\ ~ReturnFromContent /\ ~ContentEndTagNoElement
  <2>1. PICK t \in TagRecords : t.raw \in {"buffer", "entity"} /\ tagStack' = Append(tagStack, t)
    BY <1>5 DEF ElementOpened
  <2>2. /\ Len(tagStack') = Len(tagStack) + 1
        /\ tagStack'[Len(tagStack) + 1] = t
        /\ \A i \in 1..Len(tagStack) : tagStack'[i] = tagStack[i]
    BY <1>t, <2>1, Appended
  <2>3. cstack # <<>> /\ cstack[1].by = "contentProcessor"
    <3>1. cstack # <<>> /\ Top.fn = "doContent"
      BY <1>5 DEF ElementOpened, Running
    <3>2. Len(cstack) \in 1..Len(cstack) /\ Top = cstack[Len(cstack)]
      BY <3>1, FramesTyped
    <3>3. QED
      BY <3>1, <3>2 DEF OnlyContentProcessor
  <2>4. cstack' # <<>> /\ cstack'[1].by = "contentProcessor"
    BY <1>5, <1>b, <2>3
  <2>5. \A i \in 1..Len(tagStack') : i \in 1..Len(tagStack) \/ i = Len(tagStack) + 1
    BY <1>t, <2>2
  <2>6. \A i \in 1..Len(tagStack') : tagStack'[i].raw \in {"buffer", "entity", "stored"}
    BY <1>o, <2>1, <2>2, <2>5
  <2>7. ASSUME NEW i \in 1..Len(tagStack'), NEW j \in 1..Len(tagStack'), i < j,
               tagStack'[j].raw = "stored"
        PROVE  tagStack'[i].raw # "buffer"
    <3>1. j # Len(tagStack) + 1
      BY <2>1, <2>2, <2>7
    <3>2. j \in 1..Len(tagStack) /\ i \in 1..Len(tagStack)
      BY <1>t, <2>2, <2>7, <3>1
    <3>3. QED
      BY <1>o, <2>2, <2>7, <3>2
  <2>8. QED
    BY <2>4, <2>6, <2>7 DEF RawNamesInOrder
<1>6. CASE ElementClosed /\ ~ReturnFromContent /\ ~ContentEndTagNoElement
  <2>1. /\ Len(tagStack') = Len(tagStack) - 1
        /\ \A i \in 1..Len(tagStack') : i \in 1..Len(tagStack) /\ tagStack'[i] = tagStack[i]
    <3> DEFINE front == SubSeq(tagStack, 1, Len(tagStack) - 1)
    <3>1. /\ Len(front) = Len(tagStack) - 1 /\ Len(tagStack) \in Nat \ {0}
          /\ \A i \in 1..Len(tagStack) - 1 : front[i] = tagStack[i]
      BY <1>6, <1>t, FrontOf DEF ElementClosed
    <3>2. tagStack' = front
      BY <1>6 DEF ElementClosed
    <3> HIDE DEF front
    <3>3. QED
      BY <3>1, <3>2
  <2>2. QED
    BY <1>6, <1>b, <1>o, <2>1 DEF RawNamesInOrder
<1>7. CASE call = "none" /\ \E moved \in BOOLEAN : BufferMoved(moved)
  <2>1. cstack = <<>>
    BY <1>7 DEF Idling, Idle
  <2>2. \A i \in 1..Len(tagStack) : tagStack[i].raw \in {"entity", "stored"}
    BY <1>o, <2>1
  <2>3. tagStack' = [i \in 1..Len(tagStack) |-> tagStack[i]]
    BY <1>7, <2>2 DEF BufferMoved
  <2>4. tagStack' \in [1..Len(tagStack) -> TagRecords]
    BY <1>t, <2>3
  <2>5. Len(tagStack') = Len(tagStack)
    BY <1>t, <2>4, EntryWise
  <2>6. \A i \in 1..Len(tagStack') : tagStack'[i].raw \in {"entity", "stored"}
    BY <2>2, <2>3, <2>5
  <2>7. QED
    BY <2>6 DEF RawNamesInOrder
<1>8. QED
  BY <1>2, <1>3, <1>4, <1>5, <1>6, <1>7, TagStep

-----------------------------------------------------------------------------
(* The theorem about the names.                                              *)

RawNameInv == OnlyContentProcessor /\ RawNamesInOrder

LEMMA RawNameInvInit == Init => RawNameInv
<1> SUFFICES ASSUME Init PROVE RawNameInv
  OBVIOUS
<1>1. /\ Len(cstack) = 0 /\ Len(tagStack) = 0
      /\ processor \in {"externalEntityInitProcessor", "prologInitProcessor"}
  BY EmptySeq DEF Init, InitialProcessor
<1>2. QED
  BY <1>1 DEF RawNameInv, OnlyContentProcessor, RawNamesInOrder

LEMMA RawNameInvStutters ==
  ASSUME RawNameInv, UNCHANGED vars
  PROVE  RawNameInv'
<1>1. UNCHANGED <<processor, tagStack, cstack, result>>
  BY DEF vars, api, tags, control
<1>2. QED
  BY <1>1 DEF RawNameInv, OnlyContentProcessor, RawNamesInOrder, Resumes, Failed

LEMMA RawNameInvPreserved ==
  ASSUME IndInv, FramesNest, RawNameInv, NotSuspendedInEntity, [Next]_vars
  PROVE  RawNameInv'
<1>1. CASE UNCHANGED vars
  BY <1>1, RawNameInvStutters
<1>2. CASE Next
  <2>1. Shape
    BY <1>2, NextShape DEF IndInv
  <2>2. OnlyContentProcessor'
    BY <1>2, <2>1, OnlyContentProcessorPreserved DEF IndInv, RawNameInv
  <2>3. Failed => Failed' \/ XML_ParserReset
    BY <1>2, FailedStays DEF IndInv
  <2>4. RawNamesInOrder'
    BY <1>2, <2>1, <2>3, RawNamesInOrderPreserved DEF IndInv, RawNameInv
  <2>5. QED
    BY <2>2, <2>4 DEF RawNameInv
<1>3. QED
  BY <1>1, <1>2

LEMMA IdleNamesStored ==
  ASSUME Idling, RawNamesInOrder
  PROVE  RawNamesStored
  BY DEF Idling, Idle, RawNamesInOrder, RawNamesStored

(* When an API call returns, storeRawNames has copied the name of every open *)
(* element that was read from the parse buffer, whatever was fed, stopped,   *)
(* resumed or reset.                                                         *)
THEOREM RawNamesKept == Spec /\ []NotSuspendedInEntity => []RawNamesStored
<1>1. Init => RawNameInv
  BY RawNameInvInit
<1>2. IndInv /\ FramesNest /\ RawNameInv /\ NotSuspendedInEntity /\ [Next]_vars => RawNameInv'
  BY RawNameInvPreserved
<1>3. NotSuspendedInEntity => NotSuspendedNested
  BY NotInEntityNotNested
<1>4. EntityInv => FramesNest
  BY DEF EntityInv
<1>5. IndInv /\ RawNameInv => RawNamesStored
  BY IdleNamesStored DEF IndInv, RawNameInv
<1>6. QED
  BY <1>1, <1>2, <1>3, <1>4, <1>5, Invariance, EntityInvariance, PTL DEF Spec

-----------------------------------------------------------------------------
(* What is assumed of the constants.                                         *)
HandlersStayOutside == SuspendInEntities = FALSE

NoReferenceAfterCdata ==
  \A d \in Docs : \A i \in 2..Len(d) : d[i].k = "ref" => d[i - 1].k # "cdclose"

-----------------------------------------------------------------------------
(* The inductive invariant.                                                  *)

(* doCdataSection runs for doContent, or for cdataSectionProcessor on the    *)
(* document.                                                                 *)
CdataFrames ==
  \A i \in 1..Len(cstack) :
    /\ cstack[i].by = "cdataSectionProcessor" =>
         cstack[i].fn = "doCdataSection" /\ cstack[i].ent = Document
    /\ cstack[i].fn = "doCdataSection" =>
         cstack[i].by \in {"doContent", "cdataSectionProcessor"}

ClosesCdata(n) == n \in 1..Len(doc) /\ doc[n].k = "cdclose"

(* A section that is reported as closed is closed by the token before.       *)
ClosedSection ==
  result # Pending /\ result.closed =>
    /\ result.err = "NONE" /\ cstack # <<>>
    /\ Top.by \in {"doContent", "cdataSectionProcessor"}
    /\ Top.by = "cdataSectionProcessor" => ClosesCdata(result.next)

(* A suspended parser reads no further than the token after the section.     *)
SuspendedReads ==
  parsing = "SUSPENDED" /\ call # "none" /\ result = Pending /\ cstack # <<>> =>
    \/ Top.fn = "doCdataSection"
    \/ Top.fn = "doContent" /\ Top.ent = Document /\ ClosesCdata(Top.s)

SuspensionInv ==
  /\ doc \in Docs
  /\ CdataFrames /\ ClosedSection /\ SuspendedReads /\ NotSuspendedInEntity

-----------------------------------------------------------------------------
(* The pieces of the actions.                                                *)

LEMMA ReturnAnswers ==
  ASSUME NEW err \in Errors \cup {"NONE"}, NEW next, NEW closed
  PROVE  Value(err, next, closed) # Pending
  BY ErrorNames DEF Value, Pending

LEMMA LoopTailSuspended ==
  ASSUME NEW f, NEW next, LoopTail(f, next), parsing' = "SUSPENDED"
  PROVE  result' # Pending
<1>1. result' = Value("NONE", next, FALSE)
  BY DEF LoopTail, Return
<1>2. QED
  BY <1>1, ReturnAnswers

LEMMA ToEpilogSuspended ==
  ASSUME NEW f, NEW level, ToEpilog(f, level), parsing' = "SUSPENDED"
  PROVE  result' # Pending
<1>1. CASE Return("NONE", f.s + 1)
  BY <1>1, ReturnAnswers DEF Return
<1>2. CASE LoopTail(f, f.s + 1)
  BY <1>2, LoopTailSuspended
<1>3. QED
  BY <1>1, <1>2 DEF ToEpilog

LEMMA CallerTailSuspended ==
  ASSUME NEW next, CallerTail(next), parsing' = "SUSPENDED"
  PROVE  result' # Pending
<1>1. result' = Value("NONE", next, FALSE)
  BY DEF CallerTail, history
<1>2. QED
  BY <1>1, ReturnAnswers

(* A suspended parser follows no reference.                                  *)
LEMMA NoReferenceSuspended ==
  ASSUME TypeOK, NoReferenceAfterCdata, doc \in Docs, SuspendedReads,
         Running("doContent"), Tok(Top).k = "ref"
  PROVE  parsing # "SUSPENDED"
<1> SUFFICES ASSUME parsing = "SUSPENDED" PROVE FALSE
  OBVIOUS
<1>1. Top.ent = Document /\ ClosesCdata(Top.s)
  BY DEF SuspendedReads, Running
<1>2. Top.s + 1 \in 1..Len(doc) /\ doc[Top.s + 1].k = "ref"
  BY <1>1, TokenOfText
<1>3. Top.s \in 1..Len(doc) /\ doc[Top.s].k = "cdclose" /\ Len(doc) \in Nat
  BY <1>1, LenProperties DEF ClosesCdata, TypeOK, InputOK
<1>4. Top.s + 1 \in 2..Len(doc) /\ (Top.s + 1) - 1 = Top.s
  BY <1>2, <1>3
<1>5. QED
  BY <1>2, <1>3, <1>4 DEF NoReferenceAfterCdata

-----------------------------------------------------------------------------
(* Its parts are preserved.                                                  *)

LEMMA CdataFramesPreserved ==
  ASSUME TypeOK, FramesNest, CdataFrames, Shape
  PROVE  CdataFrames'
<1>t. /\ Len(cstack) \in Nat
      /\ cstack # <<>> => Len(cstack) \in Nat \ {0} /\ Top = cstack[Len(cstack)]
  BY FramesTyped
<1> DEFINE Fits(f) ==
      /\ f.by = "cdataSectionProcessor" => f.fn = "doCdataSection" /\ f.ent = Document
      /\ f.fn = "doCdataSection" => f.by \in {"doContent", "cdataSectionProcessor"}
<1> SUFFICES ASSUME NEW i \in 1..Len(cstack') PROVE Fits(cstack'[i])
  BY DEF CdataFrames
<1>k. ASSUME i \in 1..Len(cstack), SameRole(cstack'[i], cstack[i])
      PROVE  Fits(cstack'[i])
  BY <1>k DEF CdataFrames, SameRole
<1> HIDE DEF Fits
<1>1. CASE SameFrames
  BY <1>1, <1>k DEF SameFrames
<1>2. CASE PoppedFrames
  BY <1>2, <1>k, <1>t DEF PoppedFrames
<1>3. CASE StartedFrames
  <2>1. CASE i = Len(cstack)
    BY <1>3, <2>1 DEF StartedFrames, Fits
  <2>2. CASE i # Len(cstack)
    BY <1>3, <1>k, <1>t, <2>2 DEF StartedFrames
  <2>3. QED
    BY <2>1, <2>2
<1>4. CASE PushedFrames
  <2>1. CASE i = Len(cstack) + 1
    BY <1>4, <2>1 DEF PushedFrames, Fits
  <2>2. CASE i # Len(cstack) + 1
    BY <1>4, <1>k, <1>t, <2>2 DEF PushedFrames
  <2>3. QED
    BY <2>1, <2>2
<1>5. CASE BaseFrames
  <2>1. cstack' # <<>>
    BY EmptySeq
  <2>2. Len(cstack') = 1 /\ i = 1
    <3>1. Len(cstack') = 1
      BY <1>5, <2>1 DEF BaseFrames
    <3>2. QED
      BY <3>1
  <2>3. /\ cstack'[1].fn = "doCdataSection" <=> cstack'[1].by = "cdataSectionProcessor"
        /\ cstack'[1].fn = "doCdataSection" => cstack'[1].ent = Document
    BY <1>5, <2>1 DEF BaseFrames, HoldsRecord
  <2>4. QED
    BY <2>2, <2>3 DEF Fits
<1>6. QED
  BY <1>1, <1>2, <1>3, <1>4, <1>5 DEF Shape, FrameReturned

(* Only doCdataSection reports a section as closed.                          *)
LEMMA OnlyCdataCloses ==
  ASSUME TypeOK, HeldRecordsAreListed, Idling, ClosedSection, Next, ~CdataClose
  PROVE  result' = Pending \/ ~result'.closed
<1>v. \A err, next : Value(err, next, FALSE).closed = FALSE
  BY DEF Value
<1>k. ASSUME result # Pending, cstack # <<>>, result' = result,
             result.err # "NONE" \/ ~result.closed
             \/ Top.by \notin {"doContent", "cdataSectionProcessor"}
      PROVE  ~result'.closed
  BY <1>k DEF ClosedSection
<1>1. CASE DoContent
  <2>1. result = Pending
    BY <1>1 DEF DoContent, ContentEndOfText, ContentPartial, ContentTrailing, ContentInvalid,
       ContentData, ContentEntityRef, ContentStartTag, ContentEmptyElement, ContentEndTag,
       ContentEndTagAsync, ContentEndTagNoElement, ContentCdataOpen, Running
  <2>2. result' = result \/ \E err, next : result' = Value(err, next, FALSE)
    BY <1>1 DEF DoContent, ContentEndOfText, ContentPartial, ContentTrailing, ContentInvalid,
       ContentData, ContentEntityRef, ContentStartTag, ContentEmptyElement, ContentEndTag,
       ContentEndTagAsync, ContentEndTagNoElement, ContentCdataOpen, Fail, Return, Goto,
       LoopTail, ToEpilog
  <2>3. QED
    BY <1>v, <2>1, <2>2
<1>2. CASE CdataEndOfText \/ CdataInvalid \/ CdataText \/ DoProlog \/ DoEpilog
           \/ ExternalEntityInit
  <2>1. result = Pending
    BY <1>2 DEF CdataEndOfText, CdataInvalid, CdataText, DoProlog, PrologWait, PrologRefuse,
       PrologMisc, PrologInstanceStart, DoEpilog, EpilogEndOfText, EpilogTrailing, EpilogMisc,
       EpilogRefuse, ExternalEntityInit, Running
  <2>2. result' = result \/ \E err, next : result' = Value(err, next, FALSE)
    BY <1>2 DEF CdataEndOfText, CdataInvalid, CdataText, DoProlog, PrologWait, PrologRefuse,
       PrologMisc, PrologInstanceStart, DoEpilog, EpilogEndOfText, EpilogTrailing, EpilogMisc,
       EpilogRefuse, ExternalEntityInit, Fail, Return, Goto, LoopTail
  <2>3. QED
    BY <1>v, <2>1, <2>2
<1>3. CASE ReturnFromCdata
  <2>1. CASE result' = result /\ (result.err # "NONE" \/ ~result.closed)
    BY <1>3, <1>k, <2>1 DEF ReturnFromCdata, Returning
  <2>2. CASE CallerTail(result.next)
    BY <1>v, <2>2 DEF CallerTail
  <2>3. QED
    BY <1>3, <2>1, <2>2 DEF ReturnFromCdata
<1>4. CASE ReturnFromEntity \/ ReturnFromResumedEntity
  <2>1. CASE result' = result
    BY <1>4, <1>k, <2>1 DEF ReturnFromEntity, ReturnFromResumedEntity, Returning
  <2>2. CASE result' # result
    BY <1>4, <1>v, <2>2 DEF ReturnFromEntity, ReturnFromResumedEntity, CallerTail
  <2>3. QED
    BY <2>1, <2>2
<1>5. CASE ReturnFromContent \/ ReturnFromTail
  BY <1>5, <1>k DEF ReturnFromContent, ReturnFromTail, Returning
<1>6. CASE ReturnFromCdataProcessor
  BY <1>6, <1>k DEF ReturnFromCdataProcessor, Returning
<1>7. CASE FinishCall
  BY <1>7 DEF FinishCall
<1>8. CASE Application
  <2>1. result = Pending
    BY <1>8 DEF Application, Feed, XML_ParseBuffer, XML_ParseEnd, XML_ParseNothing,
       XML_ParseRefused, XML_ResumeParser, XML_ResumeRefused, XML_StopParser,
       XML_ParserReset, Idling
  <2>2. CASE Feed \/ XML_ResumeParser
    <3>1. PICK s : CallProcessor(s)
      BY <2>2 DEF Feed, XML_ParseBuffer, XML_ParseEnd, XML_ResumeParser
    <3>2. result' = result \/ \E err, next : result' = Value(err, next, FALSE)
      BY <3>1 DEF CallProcessor
    <3>3. QED
      BY <1>v, <2>1, <3>2
  <2>3. CASE XML_ParseNothing \/ XML_ParseRefused \/ XML_ResumeRefused \/ XML_StopParser
             \/ XML_ParserReset
    BY <2>1, <2>3 DEF XML_ParseNothing, XML_ParseRefused, XML_ResumeRefused, XML_StopParser,
       XML_ParserReset, control
  <2>4. QED
    BY <1>8, <2>2, <2>3 DEF Application
<1>9. QED
  BY <1>1, <1>2, <1>3, <1>4, <1>5, <1>6, <1>7, <1>8
     DEF Next, Step, DoCdataSection, Returns

LEMMA ClosedSectionPreserved ==
  ASSUME TypeOK, HeldRecordsAreListed, Idling, CdataFrames, ClosedSection, Next
  PROVE  ClosedSection'
<1>1. CASE CdataClose
  <2>1. Running("doCdataSection") /\ Tok(Top).k = "cdclose" /\ doc' = doc /\ cstack' = cstack
    BY <1>1 DEF CdataClose, input
  <2>2. cstack # <<>> /\ Top = cstack[Len(cstack)] /\ Len(cstack) \in 1..Len(cstack)
    BY <2>1, TopFrame DEF Running, TypeOK
  <2>3. Top.by \in {"doContent", "cdataSectionProcessor"}
    BY <2>1, <2>2 DEF CdataFrames, Running
  <2>4. Top.by = "cdataSectionProcessor" => ClosesCdata(Top.s + 1)
    BY <2>1, <2>2, TokenOfText DEF CdataFrames, ClosesCdata
  <2>5. result' \in {Value("ABORTED", Top.s + 1, FALSE), Value("NONE", Top.s + 1, TRUE)}
    BY <1>1 DEF CdataClose
  <2>6. result'.closed => result'.err = "NONE" /\ result'.next = Top.s + 1
    BY <2>5 DEF Value
  <2>7. cstack' # <<>> /\ Top' = Top
    BY <2>1, <2>2 DEF Top
  <2>8. QED
    BY <2>1, <2>3, <2>4, <2>6, <2>7 DEF ClosedSection, ClosesCdata
<1>2. CASE ~CdataClose
  BY <1>2, OnlyCdataCloses DEF ClosedSection
<1>3. QED
  BY <1>1, <1>2

(* While a call runs, a handler that suspends makes doContent and the other  *)
(* loops return, except at the delimiters of a CDATA section.                *)
LEMMA SuspendedReadsPreserved ==
  ASSUME TypeOK, HeldRecordsAreListed, OnlyContentProcessor, NoReferenceAfterCdata,
         SuspensionInv, Next
  PROVE  SuspendedReads'
<1> SUFFICES ASSUME parsing' = "SUSPENDED", call' # "none", result' = Pending, cstack' # <<>>
             PROVE  \/ Top'.fn = "doCdataSection"
                    \/ /\ Top'.fn = "doContent" /\ Top'.ent = Document
                       /\ Top'.s \in 1..Len(doc') /\ doc'[Top'.s].k = "cdclose"
  BY DEF SuspendedReads, ClosesCdata
<1>v. \A err \in Errors \cup {"NONE"} : \A next, closed : Value(err, next, closed) # Pending
  BY ReturnAnswers
<1>l. /\ \A f, next : ~LoopTail(f, next)
      /\ \A f, level : ~ToEpilog(f, level)
      /\ \A next : ~CallerTail(next)
      /\ \A err \in Errors \cup {"NONE"} : \A next : ~Return(err, next)
      /\ \A err \in Errors : ~Fail(err)
  BY <1>v, LoopTailSuspended, ToEpilogSuspended, CallerTailSuspended DEF Return, Fail
<1>e. {"NONE", "NO_ELEMENTS", "ASYNC_ENTITY", "UNCLOSED_TOKEN", "INVALID_TOKEN", "TAG_MISMATCH",
       "UNCLOSED_CDATA_SECTION", "SYNTAX", "ABORTED", "JUNK_AFTER_DOC_ELEMENT",
       "UNDEFINED_ENTITY", "RECURSIVE_ENTITY_REF"} \subseteq Errors \cup {"NONE"}
  BY DEF Errors
<1>1. CASE ContentEndOfText \/ ContentPartial \/ ContentTrailing \/ ContentInvalid
           \/ ContentData \/ ContentStartTag \/ ContentEmptyElement \/ ContentEndTag
           \/ ContentEndTagAsync \/ ContentEndTagNoElement
  BY <1>1, <1>l, <1>e DEF ContentEndOfText, ContentPartial, ContentTrailing, ContentInvalid,
     ContentData, ContentStartTag, ContentEmptyElement, ContentEndTag, ContentEndTagAsync,
     ContentEndTagNoElement, Errors
<1>2. CASE ContentEntityRef
  <2>1. Running("doContent") /\ Tok(Top).k = "ref"
    BY <1>2 DEF ContentEntityRef
  <2>2. parsing # "SUSPENDED"
    BY <2>1, NoReferenceSuspended DEF SuspensionInv
  <2>3. parsing' = parsing
    BY <1>2 DEF ContentEntityRef, Fail, history
  <2>4. QED
    BY <2>2, <2>3
<1>3. CASE ContentCdataOpen
  <2> DEFINE g == Frame("doCdataSection", Top.ent, Top.s + 1, 0, "doContent", 0)
  <2>1. cstack' = Append(cstack, g) /\ g.fn = "doCdataSection" /\ cstack \in Seq(Frames)
    BY <1>3 DEF ContentCdataOpen, Frame, TypeOK, ControlOK
  <2> HIDE DEF g
  <2>2. Top' = g
    BY <2>1 DEF Top
  <2>3. QED
    BY <2>1, <2>2
<1>4. CASE CdataEndOfText \/ CdataInvalid \/ CdataText \/ DoEpilog
  BY <1>4, <1>l, <1>e DEF CdataEndOfText, CdataInvalid, CdataText, DoEpilog, EpilogEndOfText,
     EpilogTrailing, EpilogMisc, EpilogRefuse, Errors
<1>5. CASE CdataClose
  BY <1>5, <1>v, <1>e DEF CdataClose
<1>6. CASE PrologWait \/ PrologRefuse \/ PrologMisc
  BY <1>6, <1>l, <1>e DEF PrologWait, PrologRefuse, PrologMisc, Errors
<1>7. CASE PrologInstanceStart \/ ExternalEntityInit
  <2>1. \/ Running("doProlog")
        \/ Running("externalEntityInitProcessor")
    BY <1>7 DEF PrologInstanceStart, ExternalEntityInit
  <2>2. parsing = "SUSPENDED"
    BY <1>7 DEF PrologInstanceStart, ExternalEntityInit, history
  <2>3. QED
    BY <2>1, <2>2 DEF Running, SuspensionInv, SuspendedReads
<1>8. CASE ReturnFromCdata \/ ReturnFromEntity
  BY <1>8, <1>l DEF ReturnFromCdata, ReturnFromEntity, Returning
<1>9. CASE ReturnFromResumedEntity
  <2>1. Resumes(Top) /\ Len(cstack) \in 1..Len(cstack) /\ Top = cstack[Len(cstack)]
    BY <1>9, FramesTyped DEF ReturnFromResumedEntity, Returning, Resumes
  <2>2. QED
    BY <2>1 DEF OnlyContentProcessor
<1>10. CASE ReturnFromContent \/ ReturnFromTail
  BY <1>10 DEF ReturnFromContent, ReturnFromTail
<1>11. CASE ReturnFromCdataProcessor
  <2> DEFINE g == Frame("doContent", Document, result.next, ContentLevel, "contentProcessor", 0)
  <2>1. result # Pending /\ result.closed /\ Top.by = "cdataSectionProcessor" /\ cstack' = <<g>>
    BY <1>11 DEF ReturnFromCdataProcessor, Returning
  <2>2. ClosesCdata(result.next) /\ doc' = doc
    BY <1>11, <2>1 DEF SuspensionInv, ClosedSection, ReturnFromCdataProcessor, input
  <2>3. g.fn = "doContent" /\ g.ent = Document /\ g.s = result.next
    BY DEF Frame
  <2> HIDE DEF g
  <2>4. Top' = g
    BY <2>1 DEF Top
  <2>5. QED
    BY <2>2, <2>3, <2>4 DEF ClosesCdata
<1>12. CASE FinishCall
  BY <1>12 DEF FinishCall
<1>13. CASE Feed \/ XML_ResumeParser
  BY <1>13 DEF Feed, XML_ParseBuffer, XML_ParseEnd, XML_ResumeParser
<1>14. CASE XML_ParseNothing \/ XML_ParseRefused \/ XML_ResumeRefused \/ XML_StopParser
            \/ XML_ParserReset
  BY <1>14 DEF XML_ParseNothing, XML_ParseRefused, XML_ResumeRefused, XML_StopParser,
     XML_ParserReset, Idle
<1>15. QED
  BY <1>1, <1>2, <1>3, <1>4, <1>5, <1>6, <1>7, <1>8, <1>9, <1>10, <1>11, <1>12, <1>13, <1>14
     DEF Next, Step, DoContent, DoCdataSection, DoProlog, Returns, Application

(* A step that suspends the parser is one of a handler, outside of entities. *)
LEMMA SuspendedOutside ==
  ASSUME HandlersStayOutside, Next, parsing' = "SUSPENDED", parsing # "SUSPENDED"
  PROVE  openInternalEntities = <<>> /\ openInternalEntities' = openInternalEntities
<1>c. ASSUME NEW es, Callback(es)
      PROVE  openInternalEntities = <<>>
  BY <1>c DEF Callback, AfterHandler, HandlersStayOutside
<1>1. CASE DoContent
  BY <1>1, <1>c DEF DoContent, ContentEndOfText, ContentPartial, ContentTrailing, ContentInvalid,
     ContentData, ContentEntityRef, ContentStartTag, ContentEmptyElement, ContentEndTag,
     ContentEndTagAsync, ContentEndTagNoElement, ContentCdataOpen, Fail, history, entities
<1>2. CASE DoCdataSection \/ DoProlog \/ DoEpilog \/ ExternalEntityInit
  BY <1>2, <1>c DEF DoCdataSection, CdataEndOfText, CdataInvalid, CdataText, CdataClose,
     DoProlog, PrologWait, PrologRefuse, PrologMisc, PrologInstanceStart, DoEpilog,
     EpilogEndOfText, EpilogTrailing, EpilogMisc, EpilogRefuse, ExternalEntityInit, Fail,
     history, entities
<1>3. CASE Returns
  BY <1>3 DEF Returns, ReturnFromCdata, ReturnFromEntity, ReturnFromResumedEntity,
     ReturnFromContent, ReturnFromTail, ReturnFromCdataProcessor, CallerTail, history
<1>4. CASE FinishCall
  BY <1>4 DEF FinishCall
<1>5. CASE Application
  BY <1>5 DEF Application, Feed, XML_ParseBuffer, XML_ParseEnd, XML_ParseNothing,
     XML_ParseRefused, XML_ResumeParser, XML_ResumeRefused, XML_StopParser, XML_ParserReset,
     history
<1>6. QED
  BY <1>1, <1>2, <1>3, <1>4, <1>5 DEF Next, Step

LEMMA NotSuspendedInEntityPreserved ==
  ASSUME TypeOK, HeldRecordsAreListed, HandlersStayOutside, NoReferenceAfterCdata,
         SuspensionInv, Next
  PROVE  NotSuspendedInEntity'
<1> SUFFICES ASSUME parsing' = "SUSPENDED" PROVE openInternalEntities' = <<>>
  BY DEF NotSuspendedInEntity
<1>1. CASE parsing # "SUSPENDED"
  BY <1>1, SuspendedOutside
<1>2. CASE parsing = "SUSPENDED"
  <2>1. openInternalEntities = <<>>
    BY <1>2 DEF SuspensionInv, NotSuspendedInEntity
  <2>2. ~(\E by : Returning(by) /\ HoldsRecord(Top))
    <3>1. ASSUME NEW by, Returning(by), HoldsRecord(Top) PROVE FALSE
      <4>1. Top.oe \in 1..Len(openInternalEntities)
        BY <3>1, Answered
      <4>2. QED
        BY <2>1, <4>1, EmptySeq
    <3>2. QED
      BY <3>1
  <2>3. CASE ContentEntityRef
    BY <1>2, <2>3, NoReferenceSuspended DEF ContentEntityRef, SuspensionInv
  <2>4. CASE DoContent /\ ~ContentEntityRef
    BY <2>1, <2>4 DEF DoContent, ContentEndOfText, ContentPartial, ContentTrailing,
       ContentInvalid, ContentData, ContentStartTag, ContentEmptyElement, ContentEndTag,
       ContentEndTagAsync, ContentEndTagNoElement, ContentCdataOpen, Fail, entities
  <2>5. CASE DoCdataSection \/ DoProlog \/ DoEpilog \/ ExternalEntityInit
    BY <2>1, <2>5 DEF DoCdataSection, CdataEndOfText, CdataInvalid, CdataText, CdataClose,
       DoProlog, PrologWait, PrologRefuse, PrologMisc, PrologInstanceStart, DoEpilog,
       EpilogEndOfText, EpilogTrailing, EpilogMisc, EpilogRefuse, ExternalEntityInit, Fail,
       entities
  <2>6. CASE ReturnFromEntity \/ ReturnFromResumedEntity
    BY <2>2, <2>6 DEF ReturnFromEntity, ReturnFromResumedEntity, Returning, HoldsRecord
  <2>7. CASE ReturnFromCdata \/ ReturnFromContent \/ ReturnFromTail \/ ReturnFromCdataProcessor
             \/ FinishCall
    BY <2>1, <2>7 DEF ReturnFromCdata, ReturnFromContent, ReturnFromTail,
       ReturnFromCdataProcessor, FinishCall, entities
  <2>8. CASE Application
    BY <2>1, <2>8 DEF Application, Feed, XML_ParseBuffer, XML_ParseEnd, XML_ParseNothing,
       XML_ParseRefused, XML_ResumeParser, XML_ResumeRefused, XML_StopParser, XML_ParserReset,
       RecycleRecords, entities
  <2>9. QED
    BY <2>3, <2>4, <2>5, <2>6, <2>7, <2>8 DEF Next, Step, Returns
<1>3. QED
  BY <1>1, <1>2

-----------------------------------------------------------------------------
(* The theorems.                                                             *)

LEMMA SuspensionInvInit == Init => SuspensionInv
<1> SUFFICES ASSUME Init PROVE SuspensionInv
  OBVIOUS
<1>1. Len(cstack) = 0 /\ cstack = <<>> /\ result = Pending /\ parsing = "INITIALIZED" /\ doc \in Docs
  BY EmptySeq DEF Init
<1>2. QED
  BY <1>1 DEF SuspensionInv, CdataFrames, ClosedSection, SuspendedReads, NotSuspendedInEntity

LEMMA SuspensionInvPreserved ==
  ASSUME HandlersStayOutside, NoReferenceAfterCdata,
         IndInv, FramesNest, OnlyContentProcessor, SuspensionInv, [Next]_vars
  PROVE  SuspensionInv'
<1>1. CASE UNCHANGED vars
  <2>1. /\ UNCHANGED <<doc, parsing, call, openInternalEntities, cstack, result>>
        /\ Top' = Top
    BY <1>1 DEF vars, input, api, entities, control, history, Top
  <2>2. QED
    BY <2>1 DEF SuspensionInv, CdataFrames, ClosedSection, SuspendedReads, ClosesCdata,
                NotSuspendedInEntity
<1>2. CASE Next
  <2>1. Shape
    BY <1>2, NextShape DEF IndInv
  <2>2. doc' \in Docs
    BY <1>2, DocumentKept DEF SuspensionInv, XML_ParserReset
  <2>3. CdataFrames'
    BY <2>1, CdataFramesPreserved DEF IndInv, SuspensionInv
  <2>4. ClosedSection'
    BY <1>2, ClosedSectionPreserved DEF IndInv, SuspensionInv
  <2>5. SuspendedReads'
    BY <1>2, SuspendedReadsPreserved DEF IndInv
  <2>6. NotSuspendedInEntity'
    BY <1>2, NotSuspendedInEntityPreserved DEF IndInv
  <2>7. QED
    BY <2>2, <2>3, <2>4, <2>5, <2>6 DEF SuspensionInv
<1>3. QED
  BY <1>1, <1>2

(* The inductive invariants of the three modules as one.                     *)
SuspensionFreeInv == EntityInv /\ RawNameInv /\ SuspensionInv

THEOREM SuspensionFree ==
  ASSUME HandlersStayOutside, NoReferenceAfterCdata
  PROVE  Spec => []SuspensionFreeInv
<1>1. Init => SuspensionFreeInv
  BY EntityInvInit, RawNameInvInit, SuspensionInvInit DEF SuspensionFreeInv
<1>2. IndInv /\ SuspensionFreeInv /\ [Next]_vars => SuspensionFreeInv'
  <2> SUFFICES ASSUME IndInv, SuspensionFreeInv, [Next]_vars PROVE SuspensionFreeInv'
    OBVIOUS
  <2>1. NotSuspendedInEntity /\ NotSuspendedNested /\ FramesNest /\ OnlyContentProcessor
    BY NotInEntityNotNested DEF SuspensionFreeInv, SuspensionInv, EntityInv, RawNameInv
  <2>2. EntityInv'
    BY <2>1, EntityInvPreserved DEF SuspensionFreeInv
  <2>3. RawNameInv'
    BY <2>1, RawNameInvPreserved DEF SuspensionFreeInv
  <2>4. SuspensionInv'
    BY <2>1, SuspensionInvPreserved DEF SuspensionFreeInv
  <2>5. QED
    BY <2>2, <2>3, <2>4 DEF SuspensionFreeInv
<1>3. QED
  BY <1>1, <1>2, Invariance, PTL DEF Spec

(* A parser whose handlers do not suspend inside of entities is never        *)
(* suspended there; the names of the open elements are copied whenever a     *)
(* call returns, no record of an open entity is lost, and ENTITY.open is set *)
(* for the entities on the list.                                             *)
THEOREM SuspendedOutsideEntities ==
  ASSUME HandlersStayOutside, NoReferenceAfterCdata
  PROVE  Spec => []NotSuspendedInEntity /\ []RawNamesStored
                 /\ []EntitiesConserved /\ []OpenFlagsMatchList
<1>1. IndInv /\ SuspensionFreeInv =>
        /\ NotSuspendedInEntity /\ RawNamesStored /\ EntitiesConserved /\ OpenFlagsMatchList
  BY IdleNamesStored DEF IndInv, SuspensionFreeInv, SuspensionInv, EntityInv, RawNameInv
<1>2. Spec => []SuspensionFreeInv
  BY SuspensionFree
<1>3. QED
  BY <1>1, <1>2, Invariance, PTL

-----------------------------------------------------------------------------
(* Entities that refer to no other entity.  Handlers may suspend the parser  *)
(* anywhere, inside of entities too: at most one entity is open, and when a  *)
(* resumed parser opens the next one, the last one is closed.                *)
(*                                                                           *)
(* The texts have no CDATA section either: a parser that is suspended in a   *)
(* section of an entity, resumed, and suspended in the section again goes on *)
(* in cdataSectionProcessor, and forgets that the entity is open.            *)

(* What is assumed of the constants: the entities a document refers to.      *)
Plain(e) == \A i \in 1..Len(Text[e]) : Text[e][i].k \notin {"ref", "cdopen"}

PlainEntities ==
  \A d \in Docs : \A i \in 1..Len(d) :
    d[i].k = "ref" /\ d[i].n \in Entities => Plain(d[i].n)

-----------------------------------------------------------------------------
(* The inductive invariant.                                                  *)

Held == \E i \in 1..Len(cstack) : HoldsRecord(cstack[i])

RecordsPlain ==
  \A k \in 1..Len(openInternalEntities) :
    openInternalEntities[k].entity \in Entities /\ Plain(openInternalEntities[k].entity)

(* An entity is read by the innermost activation, which holds its record.    *)
PlainFrames ==
  \A i \in 1..Len(cstack) :
    /\ cstack[i].ent # Document <=> HoldsRecord(cstack[i])
    /\ cstack[i].ent # Document => Plain(cstack[i].ent)
    /\ HoldsRecord(cstack[i]) => i = Len(cstack)
    /\ cstack[i].by = "doContent" => cstack[i].fn = "doCdataSection"
    /\ cstack[i].fn = "doContent" =>
         cstack[i].by \in {"contentProcessor", "tail"} \/ HoldsRecord(cstack[i])
    /\ i < Len(cstack) => cstack[i].by \in {"contentProcessor", "tail"}

(* An entity that is resumed does not begin anything but the epilog.         *)
AfterEntity == processor \in {"internalEntityProcessor", "epilogProcessor"}

ResumedByProcessor ==
  \A i \in 1..Len(cstack) : cstack[i].by = "internalEntityProcessor" => AfterEntity

CrashIsFinal == call = "crashed" => cstack = <<>> /\ result = Pending

(* A record that no activation holds is one of an entity a handler has       *)
(* suspended the parser in: the call is on its way out, or the parser waits  *)
(* to be resumed.                                                            *)
LeftOpen ==
  /\ AfterEntity
  /\ \/ cstack = <<>>
     \/ Top.fn = "epilogProcessor" /\ Top.by = "processor"
     \/ Top.by \in {"contentProcessor", "tail"} /\ result # Pending /\ parsing = "SUSPENDED"

LoneRecord ==
  /\ Len(openInternalEntities) <= 1
  /\ ~Failed /\ call # "crashed" /\ openInternalEntities # <<>> /\ ~Held => LeftOpen

UnnestedInv ==
  /\ doc \in Docs
  /\ RecordsPlain /\ PlainFrames /\ ResumedByProcessor /\ CrashIsFinal /\ LoneRecord

-----------------------------------------------------------------------------
(* A reference is read from the document only, when no entity is open.       *)

LEMMA TopHolds ==
  ASSUME TypeOK, PlainFrames, cstack # <<>>
  PROVE  /\ Len(cstack) \in 1..Len(cstack) /\ Top = cstack[Len(cstack)]
         /\ Held <=> HoldsRecord(Top)
         /\ Top.ent # Document <=> HoldsRecord(Top)
         /\ Top.ent # Document => Plain(Top.ent)
<1>1. Len(cstack) \in 1..Len(cstack) /\ Top = cstack[Len(cstack)]
  BY FramesTyped
<1>2. Held <=> HoldsRecord(Top)
  BY <1>1 DEF Held, PlainFrames
<1>3. QED
  BY <1>1, <1>2 DEF PlainFrames

LEMMA EnteredFromDocument ==
  ASSUME TypeOK, FramesNest, PlainFrames, TextEntered
  PROVE  /\ Top.ent = Document /\ ~Held
         /\ Top.by \in {"contentProcessor", "tail"} /\ Len(cstack) = 1
<1>1. cstack # <<>> /\ Top.fn = "doContent" /\ Tok(Top).k \in {"ref", "cdopen"}
  BY DEF TextEntered, Running, PushedFrames
<1>2. Top.ent = Document
  <2> SUFFICES ASSUME Top.ent # Document PROVE FALSE
    OBVIOUS
  <2>1. Top.s + 1 \in 1..Len(Text[Top.ent]) /\ Text[Top.ent][Top.s + 1] = Tok(Top)
    BY <1>1, TokenOfText DEF TextEntered
  <2>2. Plain(Top.ent)
    BY <1>1, TopHolds
  <2>3. QED
    BY <1>1, <2>1, <2>2 DEF Plain
<1>3. ~Held /\ ~HoldsRecord(Top)
  BY <1>1, <1>2, TopHolds
<1>4. Top.by \in {"contentProcessor", "tail"}
  BY <1>1, <1>3, TopHolds DEF PlainFrames
<1>5. Len(cstack) = 1
  <2>1. ~(Len(cstack) > 1)
    BY <1>1, <1>4, TopHolds DEF FramesNest, Nested
  <2>2. Len(cstack) \in Nat \ {0}
    BY <1>1, FramesTyped
  <2>3. QED
    BY <2>1, <2>2
<1>6. QED
  BY <1>2, <1>3, <1>4, <1>5

LEMMA OpensAlone ==
  ASSUME TypeOK, ErrorQuiet, FramesNest, UnnestedInv, TextEntered
  PROVE  openInternalEntities = <<>>
<1>1. cstack # <<>> /\ result = Pending /\ Top.fn = "doContent"
  BY DEF TextEntered, Running
<1>2. processor # "errorProcessor" /\ call # "crashed"
  BY <1>1 DEF ErrorQuiet, UnnestedInv, CrashIsFinal
<1>3. ~Failed
  BY <1>1, <1>2 DEF Failed, Pending
<1>4. ~Held
  BY EnteredFromDocument DEF UnnestedInv
<1>5. ~LeftOpen
  BY <1>1 DEF LeftOpen
<1>6. QED
  BY <1>2, <1>3, <1>4, <1>5 DEF UnnestedInv, LoneRecord

(* The entity a reference names has a plain text.                            *)
LEMMA PlainReference ==
  ASSUME TypeOK, FramesNest, PlainFrames, PlainEntities, doc \in Docs,
         TextEntered, Tok(Top).k = "ref", Tok(Top).n \in Entities
  PROVE  Plain(Tok(Top).n)
<1>1. Top.s + 1 \in 1..Len(doc) /\ doc[Top.s + 1] = Tok(Top)
  BY EnteredFromDocument, TokenOfText DEF TextEntered
<1>2. QED
  BY <1>1 DEF PlainEntities

(* What an activation closes is the only entity.                             *)
LEMMA ClosesLast ==
  ASSUME TypeOK, HeldRecordsAreListed, Len(openInternalEntities) <= 1,
         NEW by, Returning(by), HoldsRecord(Top), CloseEntity(Top.ent, Top.oe)
  PROVE  openInternalEntities' = <<>>
<1>1. Top.oe \in 1..Len(openInternalEntities) /\ Len(openInternalEntities) \in Nat
  BY Answered, FramesTyped
<1>2. Top.oe = 1
  BY <1>1
<1>3. Len(openInternalEntities') = 0 /\ EntitiesOK'
  BY <1>1, <1>2, CloseEntityTyped DEF TypeOK
<1>4. QED
  BY <1>3, EmptySeq DEF EntitiesOK

LEMMA ListShrinks ==
  ASSUME TypeOK, HeldRecordsAreListed, Len(openInternalEntities) <= 1,
         Returns \/ FinishCall \/ Application \/ ContentEndTagNoElement
  PROVE  openInternalEntities' \in {openInternalEntities, <<>>}
<1>1. ASSUME NEW by, Returning(by), HoldsRecord(Top), CloseEntity(Top.ent, Top.oe)
      PROVE  openInternalEntities' = <<>>
  BY <1>1, ClosesLast
<1>2. CASE ReturnFromEntity
  BY <1>1, <1>2 DEF ReturnFromEntity, Returning, HoldsRecord, entities
<1>3. CASE ReturnFromResumedEntity
  BY <1>1, <1>3 DEF ReturnFromResumedEntity, Returning, HoldsRecord, entities
<1>4. CASE ReturnFromCdata \/ ReturnFromContent \/ ReturnFromTail \/ ReturnFromCdataProcessor
           \/ FinishCall \/ ContentEndTagNoElement
  BY <1>4 DEF ReturnFromCdata, ReturnFromContent, ReturnFromTail, ReturnFromCdataProcessor,
     FinishCall, ContentEndTagNoElement, entities
<1>5. CASE Application
  BY <1>5 DEF Application, Feed, XML_ParseBuffer, XML_ParseEnd, XML_ParseNothing,
     XML_ParseRefused, XML_ResumeParser, XML_ResumeRefused, XML_StopParser, XML_ParserReset,
     RecycleRecords, entities
<1>6. QED
  BY <1>2, <1>3, <1>4, <1>5 DEF Returns

(* A step reads, enters, begins, returns or belongs to the application.      *)
LEMMA StepKinds ==
  ASSUME TypeOK, Next
  PROVE  \/ TokenRead \/ TextEntered \/ ContentBegun \/ ContentEndTagNoElement
         \/ Returns \/ FinishCall \/ Application
  BY ContentKind, OtherTokensKind DEF Next, Step

LEMMA OneRecord ==
  ASSUME TypeOK, HeldRecordsAreListed, ErrorQuiet, FramesNest, PlainEntities,
         UnnestedInv, Next
  PROVE  Len(openInternalEntities') <= 1 /\ RecordsPlain'
<1>1. CASE UNCHANGED openInternalEntities
  BY <1>1 DEF UnnestedInv, LoneRecord, RecordsPlain
<1>2. CASE openInternalEntities' = <<>>
  BY <1>2, EmptySeq DEF RecordsPlain
<1>3. CASE TextEntered
  <2>1. Len(openInternalEntities) = 0
    BY <1>3, OpensAlone, EmptySeq
  <2> DEFINE g == cstack'[Len(cstack) + 1]
  <2>2. CASE /\ Len(openInternalEntities') = Len(openInternalEntities) + 1
             /\ openInternalEntities'[g.oe].entity = g.ent
             /\ g.oe = Len(openInternalEntities) + 1
             /\ Tok(Top).k = "ref" /\ g.ent = Tok(Top).n /\ g.ent \in Entities
    <3>1. Plain(g.ent)
      BY <1>3, <2>2, PlainReference DEF UnnestedInv
    <3>2. Len(openInternalEntities') = 1 /\ openInternalEntities'[1].entity = g.ent
      BY <2>1, <2>2
    <3>3. openInternalEntities'[1].entity \in Entities /\ Plain(openInternalEntities'[1].entity)
      BY <2>2, <3>1, <3>2
    <3>4. 1..Len(openInternalEntities') = {1}
      BY <3>2
    <3>5. RecordsPlain'
      BY <3>3, <3>4 DEF RecordsPlain, Plain
    <3>6. QED
      BY <3>2, <3>5
  <2>3. QED
    BY <1>1, <1>3, <2>2 DEF TextEntered, PushedFrames
<1>4. QED
  BY <1>1, <1>2, <1>3, StepKinds, ListShrinks
     DEF TokenRead, ContentBegun, UnnestedInv, LoneRecord

-----------------------------------------------------------------------------
(* The activations.                                                          *)

LEMMA PlainFramesPreserved ==
  ASSUME TypeOK, HeldRecordsAreListed, InitPhase, Idling, ErrorQuiet, FramesNest,
         RecordsNameEntities, PlainEntities, UnnestedInv, Next
  PROVE  PlainFrames'
<1>t. /\ Len(cstack) \in Nat
      /\ cstack # <<>> => Len(cstack) \in Nat \ {0} /\ Top = cstack[Len(cstack)]
  BY FramesTyped
<1> DEFINE Fits(f) ==
      /\ f.ent # Document <=> HoldsRecord(f)
      /\ f.ent # Document => Plain(f.ent)
      /\ f.by = "doContent" => f.fn = "doCdataSection"
      /\ f.fn = "doContent" => f.by \in {"contentProcessor", "tail"} \/ HoldsRecord(f)
<1> DEFINE Outer(f) == f.by \in {"contentProcessor", "tail"}
<1>f. ASSUME NEW i \in 1..Len(cstack)
      PROVE  /\ Fits(cstack[i])
             /\ HoldsRecord(cstack[i]) => i = Len(cstack)
             /\ i < Len(cstack) => Outer(cstack[i])
  BY DEF UnnestedInv, PlainFrames
<1>k. \A f, g : SameRole(f, g) /\ Fits(g) =>
        Fits(f) /\ (HoldsRecord(f) <=> HoldsRecord(g)) /\ (Outer(f) <=> Outer(g))
  BY DEF SameRole, HoldsRecord
<1>o. \A f : Outer(f) => ~HoldsRecord(f)
  BY DEF HoldsRecord
<1> SUFFICES ASSUME NEW i \in 1..Len(cstack')
             PROVE  /\ Fits(cstack'[i])
                    /\ HoldsRecord(cstack'[i]) => i = Len(cstack')
                    /\ i < Len(cstack') => Outer(cstack'[i])
  BY DEF PlainFrames, HoldsRecord, Plain
<1> HIDE DEF Fits, Outer
<1>1. CASE TokenRead
  BY <1>1, <1>f, <1>k DEF TokenRead, SameFrames
<1>2. CASE TextEntered
  <2>1. Len(cstack) = 1 /\ Outer(Top) /\ Top.ent = Document
    BY <1>2, EnteredFromDocument DEF UnnestedInv, Outer
  <2>2. Len(cstack') = 2 /\ cstack # <<>>
    BY <1>2, <2>1, EmptySeq DEF TextEntered, PushedFrames
  <2>3. CASE i = 1
    <3>1. SameRole(cstack'[1], cstack[1]) /\ Top = cstack[1]
      BY <1>2, <1>t, <2>1, <2>2 DEF TextEntered, PushedFrames
    <3>2. Fits(cstack'[1]) /\ Outer(cstack'[1])
      BY <1>f, <1>k, <2>1, <3>1
    <3>3. QED
      BY <1>o, <2>3, <3>2
  <2>4. CASE i = 2
    <3> DEFINE g == cstack'[2]
    <3>1. \/ /\ g.fn = "doContent" /\ g.by = "processInternalEntity" /\ Tok(Top).k = "ref"
             /\ g.ent = Tok(Top).n /\ g.ent \in Entities
          \/ g.fn = "doCdataSection" /\ g.by = "doContent" /\ g.ent = Top.ent
      BY <1>2, <2>1 DEF TextEntered, PushedFrames
    <3>2. g.ent \in Entities => g.ent # Document
      BY DocumentsAssumption
    <3>3. Tok(Top).k = "ref" /\ Tok(Top).n \in Entities => Plain(Tok(Top).n)
      BY <1>2, PlainReference DEF UnnestedInv
    <3>4. Fits(g)
      BY <2>1, <3>1, <3>2, <3>3 DEF Fits, HoldsRecord
    <3>5. QED
      BY <2>2, <2>4, <3>4
  <2>5. QED
    BY <2>2, <2>3, <2>4
<1>3. CASE ContentBegun
  <2>1. cstack # <<>> /\ Len(cstack) = 1 /\ ~HoldsRecord(Top)
    BY <1>3, StartedAlone DEF ContentBegun, Running
  <2>2. /\ Len(cstack') = 1 /\ cstack'[1].by = "contentProcessor"
        /\ cstack'[1].ent = Top.ent /\ Top = cstack[1]
    BY <1>3, <1>t, <2>1 DEF ContentBegun, StartedFrames
  <2>3. Top.ent = Document
    BY <1>f, <2>1, <2>2 DEF Fits
  <2>4. Fits(cstack'[1])
    BY <2>2, <2>3 DEF Fits, HoldsRecord
  <2>5. QED
    BY <2>2, <2>4
<1>4. CASE BaseFrames
  <2>1. cstack' # <<>>
    BY EmptySeq
  <2>2. Len(cstack') = 1
    BY <1>4, <2>1 DEF BaseFrames
  <2> DEFINE f == cstack'[1]
  <2>3. /\ ~HoldsRecord(f) => f.ent = Document
        /\ f.by # "doContent"
        /\ f.fn = "doContent" => Outer(f) \/ HoldsRecord(f)
    BY <1>4, <2>1 DEF BaseFrames, Nested, Resumes, HoldsRecord, Outer
  <2>4. HoldsRecord(f) => f.ent \in Entities /\ Plain(f.ent)
    <3>1. HoldsRecord(f) => /\ f.oe \in 1..Len(openInternalEntities')
                            /\ f.ent = openInternalEntities'[f.oe].entity
      BY <1>4, <2>1 DEF BaseFrames
    <3>2. RecordsPlain'
      BY OneRecord
    <3>3. QED
      BY <3>1, <3>2 DEF RecordsPlain, Plain
  <2>5. Fits(f)
    BY <2>3, <2>4, DocumentsAssumption DEF Fits, Outer
  <2>6. QED
    BY <2>2, <2>5
<1>5. CASE PoppedFrames
  BY <1>5, <1>t, <1>f, <1>k, <1>o DEF PoppedFrames
<1>6. CASE Returns \/ FinishCall \/ Application
  BY <1>4, <1>5, <1>6, ReturnsShape, CallShape, EmptySeq DEF FrameReturned
<1>7. CASE ContentEndTagNoElement
  BY <1>7, EmptySeq DEF ContentEndTagNoElement
<1>8. QED
  BY <1>1, <1>2, <1>3, <1>6, <1>7, StepKinds

LEMMA ResumedByProcessorPreserved ==
  ASSUME TypeOK, HeldRecordsAreListed, InitPhase, Idling, FramesNest, UnnestedInv, Next
  PROVE  ResumedByProcessor'
<1>t. Len(cstack) \in Nat
  BY FramesTyped
<1> SUFFICES ASSUME NEW i \in 1..Len(cstack'), cstack'[i].by = "internalEntityProcessor"
             PROVE  AfterEntity'
  BY DEF ResumedByProcessor, AfterEntity
<1>1. CASE TokenRead
  <2>1. i \in 1..Len(cstack) /\ cstack[i].by = "internalEntityProcessor"
    BY <1>1 DEF TokenRead, SameFrames, SameRole
  <2>2. QED
    BY <1>1, <2>1 DEF TokenRead, UnnestedInv, ResumedByProcessor, AfterEntity
<1>2. CASE TextEntered
  <2>1. i # Len(cstack) + 1
    BY <1>2 DEF TextEntered, PushedFrames
  <2>2. i \in 1..Len(cstack) /\ cstack[i].by = "internalEntityProcessor"
    BY <1>2, <1>t, <2>1 DEF TextEntered, PushedFrames, SameRole
  <2>3. QED
    BY <1>2, <2>2 DEF TextEntered, UnnestedInv, ResumedByProcessor, AfterEntity
<1>3. CASE ContentBegun
  <2>1. Len(cstack) = 1
    BY <1>3, StartedAlone DEF ContentBegun, Running
  <2>2. i = 1 /\ cstack'[1].by = "contentProcessor"
    BY <1>3, <2>1 DEF ContentBegun, StartedFrames
  <2>3. QED
    BY <2>2
<1>4. CASE PoppedFrames
  <2>1. i \in 1..Len(cstack) /\ i < Len(cstack) /\ cstack[i].by = "internalEntityProcessor"
    BY <1>4, <1>t DEF PoppedFrames, SameRole
  <2>2. QED
    BY <2>1 DEF UnnestedInv, PlainFrames
<1>5. CASE BaseFrames
  <2>1. cstack' # <<>>
    BY EmptySeq
  <2>2. i = 1
    <3>1. Len(cstack') = 1
      BY <1>5, <2>1 DEF BaseFrames
    <3>2. QED
      BY <3>1
  <2>3. processor' = "internalEntityProcessor"
    BY <1>5, <2>1, <2>2 DEF BaseFrames
  <2>4. QED
    BY <2>3 DEF AfterEntity
<1>6. CASE Returns \/ FinishCall \/ Application
  BY <1>4, <1>5, <1>6, ReturnsShape, CallShape, EmptySeq DEF FrameReturned
<1>7. CASE ContentEndTagNoElement
  BY <1>7, EmptySeq DEF ContentEndTagNoElement
<1>8. QED
  BY <1>1, <1>2, <1>3, <1>6, <1>7, StepKinds

-----------------------------------------------------------------------------
(* The record that is left open.                                             *)

LEMMA NoStepAfterCrash ==
  ASSUME TypeOK, CrashIsFinal, Next
  PROVE  call # "crashed"
<1> SUFFICES ASSUME call = "crashed" PROVE FALSE
  OBVIOUS
<1>1. cstack = <<>> /\ result = Pending
  BY DEF CrashIsFinal
<1>2. CASE Step /\ ~FinishCall
  BY <1>1, <1>2, RunningStep
<1>3. CASE FinishCall \/ Application
  BY <1>1, <1>3 DEF FinishCall, Application, Feed, XML_ParseBuffer, XML_ParseEnd,
     XML_ParseNothing, XML_ParseRefused, XML_ResumeParser, XML_ResumeRefused, XML_StopParser,
     XML_ParserReset, Idle
<1>4. QED
  BY <1>2, <1>3 DEF Next

LEMMA CrashIsFinalPreserved ==
  ASSUME TypeOK, CrashIsFinal, Next
  PROVE  CrashIsFinal'
<1>1. call # "crashed"
  BY NoStepAfterCrash
<1>2. CASE ContentEndTagNoElement
  BY <1>2 DEF ContentEndTagNoElement, Running, CrashIsFinal, Pending
<1>3. CASE TokenRead \/ TextEntered \/ ContentBegun
  BY <1>1, <1>3 DEF TokenRead, TextEntered, ContentBegun, CrashIsFinal
<1>4. CASE Returns \/ FinishCall
  BY <1>1, <1>4 DEF Returns, ReturnFromCdata, ReturnFromEntity, ReturnFromResumedEntity,
     ReturnFromContent, ReturnFromTail, ReturnFromCdataProcessor, FinishCall, api, CrashIsFinal
<1>5. CASE Application
  BY <1>1, <1>5 DEF Application, Feed, XML_ParseBuffer, XML_ParseEnd, XML_ParseNothing,
     XML_ParseRefused, XML_ResumeParser, XML_ResumeRefused, XML_StopParser, XML_ParserReset,
     CrashIsFinal
<1>6. QED
  BY <1>2, <1>3, <1>4, <1>5, StepKinds

LEMMA LeftOpenByReturn ==
  ASSUME TypeOK, HeldRecordsAreListed, UnnestedInv, Returns,
         ~Failed, ~Failed', call # "crashed",
         openInternalEntities # <<>>, openInternalEntities' # <<>>
  PROVE  LeftOpen'
<1>t. ASSUME NEW by, Returning(by)
      PROVE  /\ cstack # <<>> /\ Len(cstack) \in Nat \ {0} /\ Top = cstack[Len(cstack)]
             /\ Top.by = by /\ (Held <=> HoldsRecord(Top))
             /\ result.err # "pending"
             /\ HoldsRecord(Top) => ~CloseEntity(Top.ent, Top.oe)
  <2>1. cstack # <<>> /\ Top.by = by /\ result.err \in Errors \cup {"NONE"}
    BY <1>t, Answered
  <2>2. HoldsRecord(Top) => ~CloseEntity(Top.ent, Top.oe)
    BY <1>t, ClosesLast DEF UnnestedInv, LoneRecord
  <2>3. QED
    BY <2>1, <2>2, TopHolds, FramesTyped, ErrorNames DEF UnnestedInv
<1>l. ~Held => LeftOpen
  BY DEF UnnestedInv, LoneRecord
<1>1. CASE ReturnFromEntity
  <2>1. Returning("processInternalEntity") /\ HoldsRecord(Top) /\ Nested(Top)
    BY <1>1 DEF ReturnFromEntity, Returning, HoldsRecord, Nested
  <2>2. ~(result.err # "NONE" /\ UNCHANGED result)
    BY <1>t, <2>1 DEF Failed
  <2>3. /\ SuspendedInside /\ processor' = "internalEntityProcessor"
        /\ CallerTail(Caller.s + 1)
    BY <1>1, <1>t, <2>1, <2>2 DEF ReturnFromEntity
  <2>4. cstack' = Below /\ result' = Value("NONE", Caller.s + 1, FALSE) /\ parsing' = "SUSPENDED"
    BY <2>3 DEF CallerTail, SuspendedInside, history
  <2>5. Len(cstack) > 1 /\ Len(Below) = Len(cstack) - 1
    BY <2>1, Answered
  <2>6. \A i \in 1..Len(cstack) - 1 : Below[i] = cstack[i]
    BY <1>t, <2>1, TopFrame DEF TypeOK
  <2>7. Len(cstack) - 1 \in 1..Len(cstack) - 1 /\ Len(cstack) - 1 \in 1..Len(cstack)
        /\ Len(cstack) - 1 < Len(cstack)
    BY <1>t, <2>1, <2>5
  <2>8. Top' = cstack[Len(cstack) - 1]
    BY <2>4, <2>5, <2>6, <2>7 DEF Top
  <2>9. Top'.by \in {"contentProcessor", "tail"}
    BY <2>7, <2>8 DEF UnnestedInv, PlainFrames
  <2>10. result' # Pending
    BY <2>4 DEF Value, Pending
  <2>11. QED
    BY <2>3, <2>4, <2>9, <2>10 DEF LeftOpen, AfterEntity
<1>2. CASE ReturnFromResumedEntity
  <2>1. Returning("internalEntityProcessor") /\ HoldsRecord(Top)
    BY <1>2 DEF ReturnFromResumedEntity, Returning, HoldsRecord
  <2>2. ~(result.err # "NONE" /\ UNCHANGED result)
    BY <1>t, <2>1 DEF Failed
  <2>3. cstack' = <<>> /\ processor' = processor
    BY <1>2, <1>t, <2>1, <2>2 DEF ReturnFromResumedEntity
  <2>4. AfterEntity
    BY <1>t, <2>1 DEF UnnestedInv, ResumedByProcessor
  <2>5. QED
    BY <2>3, <2>4 DEF LeftOpen, AfterEntity
<1>3. CASE ReturnFromContent \/ ReturnFromTail
  <2>1. PICK by \in {"contentProcessor", "tail", "processor"} : Returning(by)
    BY <1>3 DEF ReturnFromContent, ReturnFromTail
  <2>2. LeftOpen
    BY <1>t, <1>l, <2>1 DEF HoldsRecord
  <2>3. cstack' = <<>> /\ processor' = processor
    BY <1>3 DEF ReturnFromContent, ReturnFromTail, api
  <2>4. QED
    BY <2>2, <2>3 DEF LeftOpen, AfterEntity
<1>4. CASE ReturnFromCdata \/ ReturnFromCdataProcessor
  <2>1. PICK by \in {"doContent", "cdataSectionProcessor"} : Returning(by)
    BY <1>4 DEF ReturnFromCdata, ReturnFromCdataProcessor
  <2>2. QED
    BY <1>t, <1>l, <2>1 DEF HoldsRecord, LeftOpen
<1>5. QED
  BY <1>1, <1>2, <1>3, <1>4 DEF Returns

LEMMA LeftOpenByCall ==
  ASSUME TypeOK, Idling, UnnestedInv, FinishCall \/ Application, ~XML_ParserReset,
         ~Failed, ~Failed', call # "crashed", openInternalEntities # <<>>, ~Held'
  PROVE  LeftOpen'
<1>1. cstack = <<>> /\ Len(cstack) = 0
  BY CallShape, EmptySeq
<1>2. AfterEntity
  BY <1>1 DEF Held, LeftOpen, UnnestedInv, LoneRecord
<1>3. CASE FinishCall
  <2>1. processor' = processor /\ cstack' = cstack
    BY <1>3 DEF FinishCall, EnterError, Failed
  <2>2. QED
    BY <1>1, <1>2, <2>1 DEF LeftOpen, AfterEntity
<1>4. CASE Feed \/ XML_ResumeParser
  <2>1. PICK s : CallProcessor(s)
    BY <1>4 DEF Feed, XML_ParseBuffer, XML_ParseEnd, XML_ResumeParser
  <2>2. CASE processor = "internalEntityProcessor"
    <3>1. Len(openInternalEntities) # 0
      BY EmptySeq DEF TypeOK, EntitiesOK
    <3> DEFINE oe == Len(openInternalEntities)
               top == openInternalEntities[oe]
               f == Frame("doContent", top.entity, processed[top.entity],
                          top.startTagLevel, "internalEntityProcessor", oe)
    <3>2. cstack' = <<f>>
      BY <2>1, <2>2, <3>1 DEF CallProcessor
    <3>3. f.by = "internalEntityProcessor"
      BY DEF Frame
    <3> HIDE DEF f
    <3>4. QED
      BY <3>2, <3>3 DEF Held, HoldsRecord
  <2>3. CASE processor = "epilogProcessor"
    <3> DEFINE f == Frame("epilogProcessor", Document, s, 0, "processor", 0)
    <3>1. cstack' = <<f>> /\ processor' = processor
      BY <2>1, <2>3 DEF CallProcessor
    <3>2. f.fn = "epilogProcessor" /\ f.by = "processor"
      BY DEF Frame
    <3> HIDE DEF f
    <3>3. Top' = f
      BY <3>1 DEF Top
    <3>4. QED
      BY <2>3, <3>1, <3>2, <3>3 DEF LeftOpen, AfterEntity
  <2>4. QED
    BY <1>2, <2>2, <2>3 DEF AfterEntity
<1>5. CASE XML_ParseNothing \/ XML_ParseRefused \/ XML_ResumeRefused \/ XML_StopParser
  <2>1. processor' = processor /\ cstack' = cstack
    BY <1>5 DEF XML_ParseNothing, XML_ParseRefused, XML_ResumeRefused, XML_StopParser, control
  <2>2. QED
    BY <1>1, <1>2, <2>1 DEF LeftOpen, AfterEntity
<1>6. QED
  BY <1>3, <1>4, <1>5 DEF Application

LEMMA LoneRecordPreserved ==
  ASSUME TypeOK, HeldRecordsAreListed, ErrorQuiet, Idling, FramesNest, PlainEntities,
         UnnestedInv, Next
  PROVE  LoneRecord'
<1>1. Len(openInternalEntities') <= 1
  BY OneRecord
<1> SUFFICES ASSUME ~Failed', call' # "crashed", openInternalEntities' # <<>>, ~Held'
             PROVE  LeftOpen'
  BY <1>1 DEF LoneRecord, Failed, Held, LeftOpen, HoldsRecord, AfterEntity, Top
<1>2. ~XML_ParserReset
  BY DEF XML_ParserReset, RecycleRecords
<1>3. ~Failed /\ call # "crashed"
  BY <1>2, FailedStays, NoStepAfterCrash DEF UnnestedInv
<1>4. openInternalEntities # <<>> /\ ~Held => LeftOpen
  BY <1>3 DEF UnnestedInv, LoneRecord
<1>5. CASE TokenRead
  <2>1. /\ cstack # <<>> /\ result = Pending
        /\ SameFrames /\ openInternalEntities' = openInternalEntities
        /\ processor' \in {processor, "epilogProcessor"}
    BY <1>5 DEF TokenRead, Running
  <2>2. Len(cstack) \in 1..Len(cstack) /\ Top = cstack[Len(cstack)]
    BY <2>1, TopHolds DEF UnnestedInv
  <2>3. Len(cstack') = Len(cstack) /\ SameRole(Top', Top) /\ (HoldsRecord(Top') <=> HoldsRecord(Top))
    BY <2>1, <2>2, SameRoleHolds DEF SameFrames, Top
  <2>4. ~HoldsRecord(Top)
    BY <2>2, <2>3 DEF Held, HoldsRecord, Top
  <2>5. LeftOpen
    BY <1>4, <2>1, <2>4, TopHolds DEF UnnestedInv
  <2>6. AfterEntity /\ Top.fn = "epilogProcessor" /\ Top.by = "processor"
    BY <2>1, <2>5 DEF LeftOpen
  <2>7. QED
    BY <2>1, <2>3, <2>6 DEF LeftOpen, AfterEntity, SameRole
<1>6. CASE TextEntered
  <2>1. openInternalEntities = <<>>
    BY <1>6, OpensAlone
  <2>2. Len(cstack') = Len(cstack) + 1 /\ cstack'[Len(cstack) + 1].by = "processInternalEntity"
    BY <1>6, <2>1 DEF TextEntered, PushedFrames
  <2>3. Len(cstack) + 1 \in 1..Len(cstack')
    BY <2>2, FramesTyped
  <2>4. QED
    BY <2>2, <2>3 DEF Held, HoldsRecord
<1>7. CASE ContentBegun
  <2>1. /\ cstack # <<>> /\ result = Pending /\ StartedFrames
        /\ Top.fn \in {"doProlog", InitFn} /\ openInternalEntities' = openInternalEntities
    BY <1>7 DEF ContentBegun, Running, StartedFrames
  <2>2. LeftOpen
    BY <1>4, <2>1, StartedAlone, TopHolds DEF UnnestedInv
  <2>3. QED
    BY <2>1, <2>2 DEF LeftOpen, InitFn
<1>8. CASE ContentEndTagNoElement
  BY <1>8 DEF ContentEndTagNoElement
<1>9. CASE Returns \/ FinishCall \/ Application
  <2>1. openInternalEntities # <<>>
    BY <1>9, ListShrinks DEF UnnestedInv, LoneRecord
  <2>2. QED
    BY <1>2, <1>3, <1>9, <2>1, LeftOpenByReturn, LeftOpenByCall
<1>10. QED
  BY <1>5, <1>6, <1>7, <1>8, <1>9, StepKinds

-----------------------------------------------------------------------------
(* The theorems.                                                             *)

LEMMA UnnestedInvInit == Init => UnnestedInv
<1> SUFFICES ASSUME Init PROVE UnnestedInv
  OBVIOUS
<1>1. /\ doc \in Docs /\ call = "none" /\ openInternalEntities = <<>>
      /\ Len(cstack) = 0 /\ Len(openInternalEntities) = 0
  BY EmptySeq DEF Init
<1>2. QED
  BY <1>1 DEF UnnestedInv, RecordsPlain, PlainFrames, ResumedByProcessor, CrashIsFinal,
              LoneRecord

LEMMA UnnestedInvStutters ==
  ASSUME UnnestedInv, UNCHANGED vars
  PROVE  UnnestedInv'
<1>1. /\ UNCHANGED <<doc, parsing, processor, call, openInternalEntities, cstack, result>>
      /\ Top' = Top
  BY DEF vars, input, api, entities, control, history, Top
<1>2. RecordsPlain' /\ PlainFrames' /\ ResumedByProcessor' /\ CrashIsFinal'
  BY <1>1 DEF UnnestedInv, RecordsPlain, PlainFrames, ResumedByProcessor, CrashIsFinal,
              HoldsRecord, Plain, AfterEntity
<1>3. (Failed' <=> Failed) /\ (Held' <=> Held) /\ (LeftOpen' <=> LeftOpen)
  BY <1>1 DEF Failed, Held, HoldsRecord, LeftOpen, AfterEntity
<1>4. LoneRecord'
  BY <1>1, <1>3 DEF UnnestedInv, LoneRecord
<1>5. QED
  BY <1>1, <1>2, <1>4 DEF UnnestedInv

LEMMA UnnestedInvPreserved ==
  ASSUME PlainEntities, IndInv, EntityInv, UnnestedInv, [Next]_vars
  PROVE  UnnestedInv'
<1>1. CASE UNCHANGED vars
  BY <1>1, UnnestedInvStutters
<1>2. CASE Next
  <2>1. doc' \in Docs
    BY <1>2, DocumentKept DEF UnnestedInv, XML_ParserReset
  <2>2. RecordsPlain'
    BY <1>2, OneRecord DEF IndInv, EntityInv
  <2>3. PlainFrames'
    BY <1>2, PlainFramesPreserved DEF IndInv, EntityInv
  <2>4. ResumedByProcessor'
    BY <1>2, ResumedByProcessorPreserved DEF IndInv, EntityInv
  <2>5. CrashIsFinal'
    BY <1>2, CrashIsFinalPreserved DEF IndInv, UnnestedInv
  <2>6. LoneRecord'
    BY <1>2, LoneRecordPreserved DEF IndInv, EntityInv
  <2>7. QED
    BY <2>1, <2>2, <2>3, <2>4, <2>5, <2>6 DEF UnnestedInv
<1>3. QED
  BY <1>1, <1>2

(* At most one entity is open whatever handlers do, and the two inductive    *)
(* invariants hold together: each step of EntityInv relies on it.            *)
THEOREM UnnestedInvariance ==
  ASSUME PlainEntities
  PROVE  Spec => [](EntityInv /\ UnnestedInv)
<1>1. Init => EntityInv /\ UnnestedInv
  BY EntityInvInit, UnnestedInvInit
<1>2. IndInv /\ EntityInv /\ UnnestedInv /\ [Next]_vars => EntityInv' /\ UnnestedInv'
  <2> SUFFICES ASSUME IndInv, EntityInv, UnnestedInv, [Next]_vars
               PROVE  EntityInv' /\ UnnestedInv'
    OBVIOUS
  <2>1. NotSuspendedNested
    BY DEF UnnestedInv, LoneRecord, NotSuspendedNested
  <2>2. QED
    BY <2>1, EntityInvPreserved, UnnestedInvPreserved
<1>3. QED
  BY <1>1, <1>2, Invariance, PTL DEF Spec

(* Where entities refer to no other entity, handlers may suspend the parser  *)
(* anywhere and no record of an open entity is lost, across errors, aborts   *)
(* and resets; ENTITY.open is set for the entity that is open.               *)
THEOREM UnnestedEntities ==
  ASSUME PlainEntities
  PROVE  Spec => []NotSuspendedNested /\ []EntitiesConserved /\ []OpenFlagsMatchList
<1>1. EntityInv /\ UnnestedInv => NotSuspendedNested /\ EntitiesConserved /\ OpenFlagsMatchList
  BY DEF EntityInv, UnnestedInv, LoneRecord, NotSuspendedNested
<1>2. Spec => [](EntityInv /\ UnnestedInv)
  BY UnnestedInvariance
<1>3. QED
  BY <1>1, <1>2, PTL

=============================================================================
