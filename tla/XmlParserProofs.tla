-------------------------- MODULE XmlParserProofs ----------------------------
(***************************************************************************)
(* Theorems about XmlParser, for every set of documents and entities.      *)
(***************************************************************************)
EXTENDS XmlParser, SequenceTheorems, TLAPS

-----------------------------------------------------------------------------
(* Sequences.                                                                *)

(* A prefix of a sequence.                                                   *)
LEMMA Prefix ==
  ASSUME NEW S, NEW s \in Seq(S), NEW n \in Int, n <= Len(s)
  PROVE  /\ SubSeq(s, 1, n) \in Seq(S)
         /\ Len(SubSeq(s, 1, n)) = IF n >= 1 THEN n ELSE 0
         /\ \A i \in 1..n : SubSeq(s, 1, n)[i] = s[i]
<1>1. \A i \in 1..n : s[i] \in S
  BY ElementOfSeq
<1>2. QED
  BY <1>1, SubSeqProperties

(* A sequence without its last one or two entries.                           *)
LEMMA FrontOf ==
  ASSUME NEW S, NEW s \in Seq(S), s # <<>>
  PROVE  /\ Len(s) \in Nat \ {0} /\ s[Len(s)] \in S
         /\ SubSeq(s, 1, Len(s) - 1) \in Seq(S)
         /\ Len(SubSeq(s, 1, Len(s) - 1)) = Len(s) - 1
         /\ \A i \in 1..Len(s) - 1 : SubSeq(s, 1, Len(s) - 1)[i] = s[i]
<1>1. Len(s) \in Nat \ {0}
  BY EmptySeq
<1>2. Len(s) - 1 \in Int /\ Len(s) - 1 <= Len(s)
  BY <1>1
<1>3. s[Len(s)] \in S
  BY <1>1, ElementOfSeq
<1> DEFINE m == Len(s) - 1
<1>4. m \in Int /\ m <= Len(s) /\ m >= 0
  BY <1>1, <1>2
<1> HIDE DEF m
<1>5. /\ SubSeq(s, 1, m) \in Seq(S)
      /\ Len(SubSeq(s, 1, m)) = IF m >= 1 THEN m ELSE 0
      /\ \A i \in 1..m : SubSeq(s, 1, m)[i] = s[i]
  BY <1>4, Prefix
<1>6. Len(SubSeq(s, 1, m)) = m
  BY <1>4, <1>5
<1>7. QED
  BY <1>1, <1>3, <1>5, <1>6, Zenon DEF m

LEMMA FrontOfFront ==
  ASSUME NEW S, NEW s \in Seq(S), Len(s) > 1
  PROVE  /\ Len(s) \in Nat /\ s[Len(s) - 1] \in S
         /\ SubSeq(s, 1, Len(s) - 2) \in Seq(S)
         /\ Len(SubSeq(s, 1, Len(s) - 2)) = Len(s) - 2
         /\ \A i \in 1..Len(s) - 2 : SubSeq(s, 1, Len(s) - 2)[i] = s[i]
<1>1. Len(s) \in Nat
  BY LenProperties
<1>2. s[Len(s) - 1] \in S
  BY <1>1, ElementOfSeq
<1> DEFINE m == Len(s) - 2
<1>3. m \in Int /\ m <= Len(s) /\ m >= 0
  BY <1>1
<1> HIDE DEF m
<1>4. /\ SubSeq(s, 1, m) \in Seq(S)
      /\ Len(SubSeq(s, 1, m)) = IF m >= 1 THEN m ELSE 0
      /\ \A i \in 1..m : SubSeq(s, 1, m)[i] = s[i]
  BY <1>3, Prefix
<1>5. Len(SubSeq(s, 1, m)) = m
  BY <1>1, <1>3, <1>4
<1>6. QED
  BY <1>1, <1>2, <1>4, <1>5, Zenon DEF m

(* Append, in the form the steps below use.                                  *)
LEMMA Appended ==
  ASSUME NEW S, NEW s \in Seq(S), NEW e \in S
  PROVE  /\ Append(s, e) \in Seq(S)
         /\ Len(Append(s, e)) = Len(s) + 1
         /\ Append(s, e)[Len(s) + 1] = e
         /\ \A i \in 1..Len(s) : Append(s, e)[i] = s[i]
  BY AppendProperties, LenProperties

(* A sequence given entry by entry.                                          *)
LEMMA EntryWise ==
  ASSUME NEW S, NEW n \in Nat, NEW f \in [1..n -> S]
  PROVE  f \in Seq(S) /\ Len(f) = n
<1>1. f \in Seq(S)
  BY SeqDef
<1>2. DOMAIN f = 1..Len(f) /\ Len(f) \in Nat
  BY <1>1, LenProperties
<1>3. QED
  BY <1>1, <1>2

-----------------------------------------------------------------------------
(* The stack of activations.                                                 *)

LEMMA TopFrame ==
  ASSUME ControlOK, cstack # <<>>
  PROVE  /\ Len(cstack) \in Nat \ {0}
         /\ Top \in Frames /\ Top = cstack[Len(cstack)]
         /\ Below \in Seq(Frames)
         /\ Len(Below) = Len(cstack) - 1
         /\ \A i \in 1..Len(cstack) - 1 : Below[i] = cstack[i]
<1>1. cstack \in Seq(Frames)
  BY DEF ControlOK
<1>2. QED
  BY <1>1, FrontOf DEF Top, Below

LEMMA Replaced ==
  ASSUME ControlOK, cstack # <<>>, NEW f \in Frames
  PROVE  /\ Replace(f) \in Seq(Frames)
         /\ Len(Replace(f)) = Len(cstack)
         /\ \A i \in 1..Len(cstack) :
              Replace(f)[i] = IF i = Len(cstack) THEN f ELSE cstack[i]
<1>1. /\ Append(Below, f) \in Seq(Frames)
      /\ Len(Append(Below, f)) = Len(Below) + 1
      /\ Append(Below, f)[Len(Below) + 1] = f
      /\ \A i \in 1..Len(Below) : Append(Below, f)[i] = Below[i]
  BY TopFrame, Appended
<1>2. QED
  BY <1>1, TopFrame DEF Replace

LEMMA CallerReplaced ==
  ASSUME ControlOK, Len(cstack) > 1, NEW f \in Frames,
         cstack' = Append(SubSeq(cstack, 1, Len(cstack) - 2), f)
  PROVE  /\ Caller \in Frames
         /\ cstack' \in Seq(Frames)
         /\ Len(cstack') = Len(cstack) - 1
         /\ \A i \in 1..Len(cstack) - 1 :
              cstack'[i] = IF i = Len(cstack) - 1 THEN f ELSE cstack[i]
<1>1. cstack \in Seq(Frames)
  BY DEF ControlOK
<1>2. /\ Len(cstack) \in Nat /\ Caller \in Frames
      /\ SubSeq(cstack, 1, Len(cstack) - 2) \in Seq(Frames)
      /\ Len(SubSeq(cstack, 1, Len(cstack) - 2)) = Len(cstack) - 2
      /\ \A i \in 1..Len(cstack) - 2 : SubSeq(cstack, 1, Len(cstack) - 2)[i] = cstack[i]
  BY <1>1, FrontOfFront DEF Caller
<1> DEFINE b == SubSeq(cstack, 1, Len(cstack) - 2)
<1>3. b \in Seq(Frames) /\ Len(b) = Len(cstack) - 2 /\ \A i \in 1..Len(b) : b[i] = cstack[i]
  BY <1>2
<1> HIDE DEF b
<1>4. /\ Append(b, f) \in Seq(Frames)
      /\ Len(Append(b, f)) = Len(b) + 1
      /\ Append(b, f)[Len(b) + 1] = f
      /\ \A i \in 1..Len(b) : Append(b, f)[i] = b[i]
  BY <1>3, Appended
<1>5. cstack' = Append(b, f)
  BY DEF b
<1>6. QED
  BY <1>2, <1>3, <1>4, <1>5

LEMMA FrameParts ==
  ASSUME NEW f \in Frames
  PROVE  /\ f.s \in Nat /\ f.s + 1 \in Nat /\ f.lvl \in Nat /\ f.oe \in Nat
         /\ \A n \in Nat : /\ [f EXCEPT !.s = n] \in Frames
                          /\ [f EXCEPT !.fn = "epilogProcessor", !.s = n] \in Frames
<1>1. f.s \in Nat /\ f.lvl \in Nat /\ f.oe \in Nat
  BY DEF Frames
<1>2. ASSUME NEW n \in Nat
      PROVE  /\ [f EXCEPT !.s = n] \in Frames
             /\ [f EXCEPT !.fn = "epilogProcessor", !.s = n] \in Frames
  BY DEF Frames, Functions
<1>3. f.s + 1 \in Nat
  BY <1>1
<1>4. QED
  BY <1>1, <1>2, <1>3

LEMMA OneFrame ==
  ASSUME NEW f \in Frames
  PROVE  <<f>> \in Seq(Frames) /\ Len(<<f>>) = 1 /\ <<f>>[1] = f
  OBVIOUS

-----------------------------------------------------------------------------
(* The tokenizer.                                                            *)

TokenRecords == Tokens \cup [k: {"PARTIAL", "NONE", "TRAILING_CR"}, n: {"-"}]

LEMMA TokenTyped ==
  ASSUME InputOK, NEW f \in Frames
  PROVE  Tok(f) \in TokenRecords /\ EndOf(f) \in Nat
<1>1. TextOf(f.ent) \in Seq(Tokens)
  BY DocumentsAssumption DEF TextOf, InputOK, Frames
<1>2. EndOf(f) \in Nat /\ EndOf(f) <= Len(TextOf(f.ent))
  BY <1>1, DocumentsAssumption, LenProperties DEF EndOf, TextOf, InputOK, Frames
<1>3. f.s < EndOf(f) => TextOf(f.ent)[f.s + 1] \in Tokens
  <2>1. f.s \in Nat
    BY DEF Frames
  <2>2. f.s < EndOf(f) => f.s + 1 \in 1..Len(TextOf(f.ent))
    BY <1>1, <1>2, <2>1, LenProperties
  <2>3. QED
    BY <1>1, <2>2, ElementOfSeq
<1>4. f.s \in Nat
  BY DEF Frames
<1>5. QED
  BY <1>2, <1>3, <1>4 DEF Tok, TokenRecords

LEMMA TokenNames ==
  ASSUME NEW t \in TokenRecords
  PROVE  /\ t.k \in {"start", "end", "empty"} => t.n \in Names
         /\ t.k \notin {"start", "end", "empty", "ref"} => t.n = "-"
  BY DEF TokenRecords, Tokens, Marks

-----------------------------------------------------------------------------
(* Types are preserved by the pieces the actions are made of.                *)

LEMMA Unchanged ==
  /\ InputOK /\ UNCHANGED input => InputOK'
  /\ ApiOK /\ UNCHANGED api => ApiOK'
  /\ TagsOK /\ UNCHANGED tags => TagsOK'
  /\ EntitiesOK /\ UNCHANGED entities => EntitiesOK'
  /\ PoolOK /\ UNCHANGED pool => PoolOK'
  /\ ControlOK /\ UNCHANGED control => ControlOK'
  /\ HistoryOK /\ UNCHANGED history => HistoryOK'
<1>1. InputOK /\ UNCHANGED input => InputOK'
  BY DEF InputOK, input
<1>2. ApiOK /\ UNCHANGED api => ApiOK'
  BY DEF ApiOK, api
<1>3. TagsOK /\ UNCHANGED tags => TagsOK'
  BY DEF TagsOK, tags
<1>4. EntitiesOK /\ UNCHANGED entities => EntitiesOK'
  BY DEF EntitiesOK, entities
<1>5. PoolOK /\ UNCHANGED pool => PoolOK'
  BY DEF PoolOK
<1>6. ControlOK /\ UNCHANGED control => ControlOK'
  BY DEF ControlOK, control
<1>7. HistoryOK /\ UNCHANGED history => HistoryOK'
  BY DEF HistoryOK, history
<1>8. QED
  BY <1>1, <1>2, <1>3, <1>4, <1>5, <1>6, <1>7

LEMMA ValueTyped ==
  ASSUME NEW err \in Errors \cup {"NONE"}, NEW next \in Nat, NEW closed \in BOOLEAN
  PROVE  Value(err, next, closed) \in Results
  BY DEF Value, Results

LEMMA ReturnTyped ==
  ASSUME ControlOK, NEW err \in Errors \cup {"NONE"}, NEW next \in Nat, Return(err, next)
  PROVE  ControlOK'
  BY ValueTyped DEF ControlOK, Return

LEMMA GotoTyped ==
  ASSUME ControlOK, cstack # <<>>, NEW f \in Frames, Goto(f)
  PROVE  ControlOK'
  BY Replaced DEF ControlOK, Goto

LEMMA LoopTailTyped ==
  ASSUME ControlOK, cstack # <<>>, NEW f \in Frames, NEW next \in Nat, LoopTail(f, next)
  PROVE  ControlOK'
<1>1. [f EXCEPT !.s = next] \in Frames
  BY DEF Frames
<1>2. "NONE" \in Errors \cup {"NONE"} /\ "ABORTED" \in Errors \cup {"NONE"}
  BY DEF Errors
<1>3. QED
  BY <1>1, <1>2, ReturnTyped, GotoTyped DEF LoopTail

LEMMA CallbackTyped ==
  ASSUME HistoryOK, NEW es \in Seq(EventRecords), Callback(es)
  PROVE  HistoryOK'
<1>1. events' \in Seq(EventRecords)
  BY ConcatProperties DEF HistoryOK, Callback
<1>2. parsing' \in {"INITIALIZED", "PARSING", "SUSPENDED", "FINISHED"}
  BY DEF Callback, AfterHandler
<1>3. QED
  BY <1>1, <1>2 DEF HistoryOK

LEMMA EventTyped ==
  ASSUME NEW k \in EventKinds, NEW n \in Names \cup {"-"}
  PROVE  <<Event(k, n)>> \in Seq(EventRecords)
<1>1. Event(k, n) \in EventRecords
  BY DEF Event, EventRecords
<1>2. QED
  BY <1>1

LEMMA ToEpilogTyped ==
  ASSUME ControlOK, cstack # <<>>, processor \in Processors, NEW f \in Frames, NEW level,
         ToEpilog(f, level)
  PROVE  ControlOK' /\ processor' \in Processors
<1>1. f.s + 1 \in Nat /\ "NONE" \in Errors \cup {"NONE"}
  BY DEF Frames
<1>2. [f EXCEPT !.fn = "epilogProcessor", !.s = f.s + 1] \in Frames
  BY <1>1, FrameParts
<1>3. CASE processor' = "epilogProcessor" /\ Return("NONE", f.s + 1)
  BY <1>1, <1>3, ReturnTyped DEF Processors
<1>4. CASE /\ processor' = "epilogProcessor"
           /\ Goto([f EXCEPT !.fn = "epilogProcessor", !.s = @ + 1])
  BY <1>2, <1>4, GotoTyped DEF Processors
<1>5. CASE LoopTail(f, f.s + 1) /\ UNCHANGED processor
  BY <1>1, <1>5, LoopTailTyped
<1>6. QED
  BY <1>3, <1>4, <1>5 DEF ToEpilog

LEMMA Working ==
  ASSUME TypeOK, NEW fn, Running(fn)
  PROVE  /\ cstack # <<>> /\ Top \in Frames /\ Top.s \in Nat /\ Top.s + 1 \in Nat
         /\ Tok(Top) \in TokenRecords /\ EndOf(Top) \in Nat
         /\ \A n \in Nat : [Top EXCEPT !.s = n] \in Frames
<1>1. cstack # <<>> /\ ControlOK /\ InputOK
  BY DEF Running, TypeOK
<1>2. Top \in Frames
  BY <1>1, TopFrame
<1>3. QED
  BY <1>1, <1>2, TokenTyped DEF Frames

(* Fail(err), the commonest way out of an activation.                        *)
LEMMA FailTyped ==
  ASSUME TypeOK, NEW fn, Running(fn), NEW err \in Errors, Fail(err)
  PROVE  TypeOK'
<1>1. ControlOK'
  BY Working, ReturnTyped DEF Fail, TypeOK
<1>2. QED
  BY <1>1, Unchanged DEF Fail, TypeOK

-----------------------------------------------------------------------------
(* doContent.                                                                *)

LEMMA ContentTyped ==
  ASSUME TypeOK, TagLevelCountsStack, InitPhase, ErrorQuiet, DoContent
  PROVE  TypeOK'
<1> USE DEF TypeOK
<1>0. Running("doContent")
  BY DEF DoContent, ContentEndOfText, ContentPartial, ContentTrailing, ContentInvalid,
         ContentData, ContentEntityRef, ContentStartTag, ContentEmptyElement,
         ContentEndTag, ContentEndTagAsync, ContentEndTagNoElement, ContentCdataOpen
<1>w. /\ cstack # <<>> /\ Top \in Frames /\ Top.s \in Nat /\ Top.s + 1 \in Nat
      /\ Tok(Top) \in TokenRecords /\ EndOf(Top) \in Nat
      /\ \A n \in Nat : [Top EXCEPT !.s = n] \in Frames
  BY <1>0, Working
<1>1. CASE ContentEndOfText
  <2>1. ControlOK'
    BY <1>1, <1>w, ReturnTyped DEF ContentEndOfText, Errors
  <2>2. QED
    BY <1>1, <2>1, Unchanged DEF ContentEndOfText
<1>2. CASE ContentPartial
  <2>1. ControlOK'
    BY <1>2, <1>w, ReturnTyped DEF ContentPartial, Errors
  <2>2. QED
    BY <1>2, <2>1, Unchanged DEF ContentPartial
<1>3. CASE ContentTrailing
  <2>1. ControlOK'
    BY <1>3, <1>w, ReturnTyped DEF ContentTrailing, Errors
  <2>2. <<Event("chars", "-")>> \in Seq(EventRecords)
    BY EventTyped DEF EventKinds
  <2>3. HistoryOK'
    BY <1>3, <2>2, CallbackTyped, Unchanged DEF ContentTrailing
  <2>4. QED
    BY <1>3, <2>1, <2>3, Unchanged DEF ContentTrailing
<1>4. CASE ContentInvalid
  BY <1>4, <1>0, FailTyped DEF ContentInvalid, Errors
<1>5. CASE ContentData
  <2>1. ControlOK'
    BY <1>5, <1>w, LoopTailTyped DEF ContentData
  <2>2. <<Event("chars", "-")>> \in Seq(EventRecords) /\ <<Event("pi", "-")>> \in Seq(EventRecords)
    BY EventTyped DEF EventKinds
  <2>3. HistoryOK'
    BY <1>5, <2>2, CallbackTyped DEF ContentData
  <2>4. QED
    BY <1>5, <2>1, <2>3, Unchanged DEF ContentData
<1>6. CASE ContentEntityRef
  <2> DEFINE e == Tok(Top).n
             g == Frame("doContent", e, 0, tagLevel, "processInternalEntity",
                        Len(openInternalEntities) + 1)
  <2>1. CASE Fail("UNDEFINED_ENTITY") \/ Fail("RECURSIVE_ENTITY_REF")
    BY <2>1, <1>0, FailTyped DEF Errors
  <2>2. CASE /\ e \in Entities /\ OpenEntity(e) /\ cstack' = Append(cstack, g)
             /\ UNCHANGED <<input, api, tags, result, history>>
    <3>1. Len(openInternalEntities) \in Nat
      BY LenProperties DEF EntitiesOK
    <3>2. g \in Frames
      BY <2>2, <3>1 DEF Frame, Frames, Functions, Callers, TagsOK
    <3> HIDE DEF g
    <3>3. ControlOK'
      BY <2>2, <3>2, Appended DEF ControlOK
    <3> DEFINE r == [entity |-> e, startTagLevel |-> tagLevel]
    <3>4. r \in [entity: Entities, startTagLevel: Nat]
      BY <2>2 DEF TagsOK
    <3>5. openInternalEntities' = Append(openInternalEntities, r)
      BY <2>2 DEF OpenEntity
    <3> HIDE DEF r
    <3>8. openInternalEntities' \in Seq([entity: Entities, startTagLevel: Nat])
      BY <3>4, <3>5, Appended DEF EntitiesOK
    <3>9. EntitiesOK'
      BY <2>2, <3>8 DEF EntitiesOK, OpenEntity
    <3>6. PoolOK'
      BY <2>2, SMTT(40) DEF PoolOK, OpenEntity
    <3>7. QED
      BY <2>2, <3>3, <3>9, <3>6, Unchanged
  <2>3. QED
    BY <1>6, <2>1, <2>2 DEF ContentEntityRef
<1>7. CASE ContentStartTag
  <2>1. Tok(Top).n \in Names
    BY <1>7, <1>w, TokenNames DEF ContentStartTag
  <2>2. NewTag(Tok(Top).n) \in TagRecords
    BY <2>1 DEF NewTag, TagRecords
  <2>3. TagsOK'
    BY <1>7, <2>2, Appended DEF ContentStartTag, PushTag, TagsOK
  <2>4. PoolOK'
    BY <1>7 DEF ContentStartTag, PushTag, PoolOK
  <2>5. <<Event("start", Tok(Top).n)>> \in Seq(EventRecords)
    BY <2>1, EventTyped DEF EventKinds
  <2>6. HistoryOK'
    BY <1>7, <2>5, CallbackTyped DEF ContentStartTag
  <2>7. ControlOK'
    BY <1>7, <1>w, LoopTailTyped DEF ContentStartTag
  <2>8. QED
    BY <1>7, <2>3, <2>4, <2>6, <2>7, Unchanged DEF ContentStartTag
<1>8. CASE ContentEmptyElement
  <2>1. Tok(Top).n \in Names
    BY <1>8, <1>w, TokenNames DEF ContentEmptyElement
  <2>2. Event("start", Tok(Top).n) \in EventRecords /\ Event("end", Tok(Top).n) \in EventRecords
    BY <2>1 DEF Event, EventRecords, EventKinds
  <2>3. <<Event("start", Tok(Top).n), Event("end", Tok(Top).n)>> \in Seq(EventRecords)
    BY <2>2
  <2>4. HistoryOK'
    BY <1>8, <2>3, CallbackTyped DEF ContentEmptyElement
  <2>5. ControlOK' /\ processor' \in Processors
    BY <1>8, <1>w, ToEpilogTyped DEF ContentEmptyElement, ApiOK
  <2>6. ApiOK'
    BY <1>8, <2>5 DEF ContentEmptyElement, ApiOK
  <2>7. QED
    BY <1>8, <2>4, <2>5, <2>6, Unchanged DEF ContentEmptyElement
<1>9. CASE ContentEndTag
  <2>1. tagStack \in Seq(TagRecords) /\ tagStack # <<>> /\ tagLevel \in Nat
    BY <1>9 DEF ContentEndTag, TagsOK
  <2>2. /\ Len(tagStack) \in Nat \ {0} /\ tagStack[Len(tagStack)] \in TagRecords
        /\ SubSeq(tagStack, 1, Len(tagStack) - 1) \in Seq(TagRecords)
    BY <2>1, FrontOf
  <2>3. tagLevel - 1 \in Nat
    <3>1. ~Failed
      BY <1>0, <1>w DEF ErrorQuiet, Failed, Running, Pending
    <3>2. QED
      BY <2>1, <2>2, <3>1 DEF TagLevelCountsStack
  <2>4. TagsOK'
    BY <1>9, <2>1, <2>2, <2>3 DEF ContentEndTag, PopTag, TagsOK
  <2>5. PoolOK'
    BY <1>9, SMTT(40) DEF ContentEndTag, PopTag, PoolOK
  <2> DEFINE tag == tagStack[Len(tagStack)]
  <2>6. <<Event("end", tag.n)>> \in Seq(EventRecords)
    BY <2>2, EventTyped DEF EventKinds, TagRecords
  <2>7. CASE Return("TAG_MISMATCH", Top.s) /\ UNCHANGED <<tagLevel, processor, history>>
    <3>1. ControlOK'
      BY <2>7, <1>w, ReturnTyped DEF Errors
    <3>2. ApiOK'
      BY <1>9, <2>7 DEF ContentEndTag, ApiOK
    <3>3. QED
      BY <1>9, <2>4, <2>5, <2>7, <3>1, <3>2, Unchanged DEF ContentEndTag
  <2>8. CASE Callback(<<Event("end", tag.n)>>) /\ ToEpilog(Top, tagLevel - 1)
    <3>1. ControlOK' /\ processor' \in Processors
      BY <2>8, <1>w, ToEpilogTyped DEF ApiOK
    <3>2. ApiOK'
      BY <1>9, <3>1 DEF ContentEndTag, ApiOK
    <3>3. HistoryOK'
      BY <2>6, <2>8, CallbackTyped
    <3>4. QED
      BY <1>9, <2>4, <2>5, <3>1, <3>2, <3>3, Unchanged DEF ContentEndTag
  <2>9. QED
    BY <1>9, <2>7, <2>8 DEF ContentEndTag
<1>10. CASE ContentEndTagAsync
  BY <1>10, <1>0, FailTyped DEF ContentEndTagAsync, Errors
<1>11. CASE ContentEndTagNoElement
  <2>1. ControlOK' /\ ApiOK'
    BY <1>11, EmptySeq DEF ContentEndTagNoElement, ControlOK, ApiOK
  <2>2. QED
    BY <1>11, <2>1, Unchanged DEF ContentEndTagNoElement, history, tags, entities
<1>12. CASE ContentCdataOpen
  <2> DEFINE g == Frame("doCdataSection", Top.ent, Top.s + 1, 0, "doContent", 0)
  <2>1. g \in Frames
    BY <1>w DEF Frame, Frames, Functions, Callers
  <2>2. cstack' = Append(cstack, g) /\ UNCHANGED result
    BY <1>12 DEF ContentCdataOpen
  <2> HIDE DEF g
  <2>3. ControlOK'
    BY <2>1, <2>2, Appended DEF ControlOK
  <2>4. <<Event("cdopen", "-")>> \in Seq(EventRecords)
    BY EventTyped DEF EventKinds
  <2>5. HistoryOK'
    BY <1>12, <2>4, CallbackTyped DEF ContentCdataOpen
  <2>6. QED
    BY <1>12, <2>3, <2>5, Unchanged DEF ContentCdataOpen
<1>13. QED
  BY <1>1, <1>2, <1>3, <1>4, <1>5, <1>6, <1>7, <1>8, <1>9, <1>10, <1>11, <1>12 DEF DoContent

-----------------------------------------------------------------------------
(* The other functions that read tokens.                                     *)

LEMMA CdataTyped ==
  ASSUME TypeOK, DoCdataSection
  PROVE  TypeOK'
<1> USE DEF TypeOK
<1>0. Running("doCdataSection")
  BY DEF DoCdataSection, CdataEndOfText, CdataInvalid, CdataText, CdataClose
<1>w. /\ cstack # <<>> /\ Top \in Frames /\ Top.s \in Nat /\ Top.s + 1 \in Nat
  BY <1>0, Working
<1>1. CASE CdataEndOfText
  <2>1. ControlOK'
    BY <1>1, <1>w, ReturnTyped DEF CdataEndOfText, Errors
  <2>2. QED
    BY <1>1, <2>1, Unchanged DEF CdataEndOfText
<1>2. CASE CdataInvalid
  BY <1>2, <1>0, FailTyped DEF CdataInvalid, Errors
<1>3. CASE CdataText
  <2>1. ControlOK'
    BY <1>3, <1>w, LoopTailTyped DEF CdataText
  <2>2. HistoryOK'
    BY <1>3, EventTyped, CallbackTyped DEF CdataText, EventKinds
  <2>3. QED
    BY <1>3, <2>1, <2>2, Unchanged DEF CdataText
<1>4. CASE CdataClose
  <2>1. result' \in Results
    BY <1>4, <1>w, ValueTyped DEF CdataClose, Errors
  <2>2. ControlOK'
    BY <1>4, <2>1 DEF CdataClose, ControlOK
  <2>3. HistoryOK'
    BY <1>4, EventTyped, CallbackTyped DEF CdataClose, EventKinds
  <2>4. QED
    BY <1>4, <2>2, <2>3, Unchanged DEF CdataClose
<1>5. QED
  BY <1>1, <1>2, <1>3, <1>4 DEF DoCdataSection

LEMMA PrologTyped ==
  ASSUME TypeOK, DoProlog
  PROVE  TypeOK'
<1> USE DEF TypeOK
<1>0. Running("doProlog")
  BY DEF DoProlog, PrologWait, PrologRefuse, PrologMisc, PrologInstanceStart
<1>w. /\ cstack # <<>> /\ Top \in Frames /\ Top.s \in Nat /\ Top.s + 1 \in Nat
  BY <1>0, Working
<1>1. CASE PrologWait
  <2>1. ControlOK'
    BY <1>1, <1>w, ReturnTyped DEF PrologWait
  <2>2. QED
    BY <1>1, <2>1, Unchanged DEF PrologWait
<1>2. CASE PrologRefuse
  BY <1>2, <1>0, FailTyped DEF PrologRefuse, Errors
<1>3. CASE PrologMisc
  <2>1. ControlOK'
    BY <1>3, <1>w, LoopTailTyped DEF PrologMisc
  <2>2. HistoryOK'
    BY <1>3, EventTyped, CallbackTyped DEF PrologMisc, EventKinds
  <2>3. QED
    BY <1>3, <2>1, <2>2, Unchanged DEF PrologMisc
<1>4. CASE PrologInstanceStart
  <2>1. [Top EXCEPT !.fn = "doContent", !.by = "contentProcessor"] \in Frames
    BY <1>w DEF Frames, Functions, Callers
  <2>2. ControlOK'
    BY <1>4, <1>w, <2>1, GotoTyped DEF PrologInstanceStart
  <2>3. ApiOK'
    BY <1>4 DEF PrologInstanceStart, ApiOK, Processors
  <2>4. QED
    BY <1>4, <2>2, <2>3, Unchanged DEF PrologInstanceStart
<1>5. QED
  BY <1>1, <1>2, <1>3, <1>4 DEF DoProlog

LEMMA EpilogTyped ==
  ASSUME TypeOK, DoEpilog
  PROVE  TypeOK'
<1> USE DEF TypeOK
<1>0. Running("epilogProcessor")
  BY DEF DoEpilog, EpilogEndOfText, EpilogTrailing, EpilogMisc, EpilogRefuse
<1>w. /\ cstack # <<>> /\ Top \in Frames /\ Top.s \in Nat /\ Top.s + 1 \in Nat
  BY <1>0, Working
<1>1. CASE EpilogEndOfText
  <2>1. ControlOK'
    BY <1>1, <1>w, ReturnTyped DEF EpilogEndOfText, Errors
  <2>2. QED
    BY <1>1, <2>1, Unchanged DEF EpilogEndOfText
<1>2. CASE EpilogTrailing
  <2>1. ControlOK'
    BY <1>2, <1>w, ReturnTyped DEF EpilogTrailing, Errors
  <2>2. HistoryOK'
    BY <1>2, EventTyped, CallbackTyped DEF EpilogTrailing, EventKinds
  <2>3. QED
    BY <1>2, <2>1, <2>2, Unchanged DEF EpilogTrailing
<1>3. CASE EpilogMisc
  <2>1. ControlOK'
    BY <1>3, <1>w, LoopTailTyped DEF EpilogMisc
  <2>2. HistoryOK'
    BY <1>3, EventTyped, CallbackTyped DEF EpilogMisc, EventKinds
  <2>3. QED
    BY <1>3, <2>1, <2>2, Unchanged DEF EpilogMisc
<1>4. CASE EpilogRefuse
  BY <1>4, <1>0, FailTyped DEF EpilogRefuse, Errors
<1>5. QED
  BY <1>1, <1>2, <1>3, <1>4 DEF DoEpilog

LEMMA ExternalEntityInitTyped ==
  ASSUME TypeOK, ExternalEntityInit
  PROVE  TypeOK'
<1> USE DEF TypeOK
<1>0. Running("externalEntityInitProcessor")
  BY DEF ExternalEntityInit
<1>w. /\ cstack # <<>> /\ Top \in Frames /\ Top.s \in Nat
  BY <1>0, Working
<1>1. [Top EXCEPT !.fn = "doContent", !.lvl = 1, !.by = "contentProcessor"] \in Frames
  BY <1>w DEF Frames, Functions, Callers
<1>2. ControlOK'
  BY <1>w, <1>1, ReturnTyped, GotoTyped DEF ExternalEntityInit, Errors
<1>3. ApiOK' /\ TagsOK'
  BY DEF ExternalEntityInit, ApiOK, TagsOK, Processors
<1>4. QED
  BY <1>2, <1>3, Unchanged DEF ExternalEntityInit

-----------------------------------------------------------------------------
(* Returns and the end of a call.                                            *)

LEMMA CallerTailTyped ==
  ASSUME ControlOK, Len(cstack) > 1, NEW next \in Nat, CallerTail(next)
  PROVE  ControlOK'
<1>1. cstack # <<>> /\ Below \in Seq(Frames)
  BY TopFrame, EmptySeq DEF ControlOK
<1>2. CASE cstack' = Below /\ result' = Value("NONE", next, FALSE)
  BY <1>1, <1>2, ValueTyped DEF ControlOK
<1>3. CASE cstack' = Below /\ result' = Value("ABORTED", next, FALSE)
  BY <1>1, <1>3, ValueTyped DEF ControlOK, Errors
<1>4. CASE ResumeCaller([Caller EXCEPT !.s = next]) /\ result' = Pending
  <2>1. Caller \in Frames
    <3>1. cstack \in Seq(Frames)
      BY DEF ControlOK
    <3>2. QED
      BY <3>1, FrontOfFront DEF Caller
  <2> DEFINE g == [Caller EXCEPT !.s = next]
  <2>2. g \in Frames
    BY <2>1 DEF Frames
  <2>3. cstack' = Append(SubSeq(cstack, 1, Len(cstack) - 2), g)
    BY <1>4 DEF ResumeCaller
  <2> HIDE DEF g
  <2>4. cstack' \in Seq(Frames)
    BY <2>2, <2>3, CallerReplaced
  <2>5. QED
    BY <1>4, <2>4 DEF ControlOK, Results
<1>5. QED
  BY <1>2, <1>3, <1>4 DEF CallerTail

LEMMA CloseEntityTyped ==
  ASSUME EntitiesOK, PoolOK, NEW e, NEW oe \in 1..Len(openInternalEntities), CloseEntity(e, oe)
  PROVE  /\ EntitiesOK' /\ PoolOK'
         /\ Len(openInternalEntities') = oe - 1
         /\ \A k \in 1..oe - 1 : openInternalEntities'[k] = openInternalEntities[k]
<1> DEFINE T == [entity: Entities, startTagLevel: Nat]
<1> DEFINE m == oe - 1
<1>1. /\ openInternalEntities \in Seq(T) /\ Len(openInternalEntities) \in Nat
      /\ m \in Int /\ m <= Len(openInternalEntities) /\ m >= 0
  BY LenProperties DEF EntitiesOK
<1>2. openInternalEntities' = SubSeq(openInternalEntities, 1, m)
  BY DEF CloseEntity
<1> HIDE DEF T, m
<1>3. /\ openInternalEntities' \in Seq(T)
      /\ Len(openInternalEntities') = IF m >= 1 THEN m ELSE 0
      /\ \A k \in 1..m : openInternalEntities'[k] = openInternalEntities[k]
  BY <1>1, <1>2, Prefix
<1>4. Len(openInternalEntities') = m
  BY <1>1, <1>3
<1>5. EntitiesOK'
  BY <1>3 DEF EntitiesOK, CloseEntity, T
<1>6. pool' = [pool EXCEPT !.freeEntities = @ + 1]
  BY DEF CloseEntity
<1>7. PoolOK'
  BY <1>6 DEF PoolOK
<1>8. QED
  BY <1>3, <1>4, <1>5, <1>7 DEF m

LEMMA ErrorNames == "pending" \notin Errors \cup {"NONE"}
  BY DEF Errors

(* What every return knows.                                                  *)
LEMMA Answered ==
  ASSUME TypeOK, HeldRecordsAreListed, NEW by, Returning(by)
  PROVE  /\ cstack # <<>> /\ Top \in Frames /\ Top.by = by /\ Below \in Seq(Frames)
         /\ Len(Below) = Len(cstack) - 1
         /\ result \in [err: Errors \cup {"NONE"}, next: Nat, closed: BOOLEAN]
         /\ Nested(Top) => Len(cstack) > 1 /\ Caller \in Frames
         /\ HoldsRecord(Top) => Top.oe \in 1..Len(openInternalEntities)
<1>1. cstack # <<>> /\ ControlOK /\ Top.by = by /\ result # Pending
  BY DEF Returning, TypeOK
<1>2. /\ Len(cstack) \in Nat \ {0} /\ Top \in Frames /\ Top = cstack[Len(cstack)]
      /\ Below \in Seq(Frames) /\ Len(Below) = Len(cstack) - 1
  BY <1>1, TopFrame
<1>3. result \in [err: Errors \cup {"NONE"}, next: Nat, closed: BOOLEAN]
  BY <1>1 DEF ControlOK, Results
<1>4. Nested(Top) => Len(cstack) > 1
  BY <1>2 DEF HeldRecordsAreListed
<1>5. HoldsRecord(Top) => Top.oe \in 1..Len(openInternalEntities)
  BY <1>2 DEF HeldRecordsAreListed
<1>6. Len(cstack) > 1 => Caller \in Frames
  <2>1. cstack \in Seq(Frames)
    BY <1>1 DEF ControlOK
  <2>2. QED
    BY <2>1, FrontOfFront DEF Caller
<1>7. QED
  BY <1>1, <1>2, <1>3, <1>4, <1>5, <1>6

LEMMA StoreRawNamesTyped ==
  ASSUME NEW stack \in Seq(TagRecords)
  PROVE  StoreRawNames(stack) \in Seq(TagRecords) /\ Len(StoreRawNames(stack)) = Len(stack)
<1>1. Len(stack) \in Nat /\ \A i \in 1..Len(stack) : stack[i] \in TagRecords
  BY LenProperties, ElementOfSeq
<1>2. \A t \in TagRecords :
        [t EXCEPT !.raw = IF @ = "stale" THEN "garbage" ELSE "stored"] \in TagRecords
  BY DEF TagRecords
<1>3. StoreRawNames(stack) \in [1..Len(stack) -> TagRecords]
  BY <1>1, <1>2 DEF StoreRawNames
<1>4. QED
  BY <1>1, <1>3, EntryWise

LEMMA ReturnsTyped ==
  ASSUME TypeOK, HeldRecordsAreListed, Returns
  PROVE  TypeOK'
<1> USE DEF TypeOK
<1>e. <<>> \in Seq(Frames)
  BY EmptySeq
<1>1. CASE ReturnFromCdata
  <2>1. Returning("doContent")
    BY <1>1 DEF ReturnFromCdata
  <2>2. /\ Below \in Seq(Frames) /\ Len(cstack) > 1
        /\ result \in [err: Errors \cup {"NONE"}, next: Nat, closed: BOOLEAN]
    BY <2>1, Answered DEF Nested
  <2>3. ControlOK'
    BY <1>1, <2>2, CallerTailTyped DEF ReturnFromCdata, ControlOK
  <2>4. ApiOK'
    BY <1>1 DEF ReturnFromCdata, ApiOK, Processors
  <2>5. HistoryOK'
    BY <1>1, Unchanged DEF ReturnFromCdata, CallerTail
  <2>6. QED
    BY <1>1, <2>3, <2>4, <2>5, Unchanged DEF ReturnFromCdata
<1>2. CASE ReturnFromEntity
  <2>1. Returning("processInternalEntity")
    BY <1>2 DEF ReturnFromEntity
  <2>2. /\ Below \in Seq(Frames) /\ Len(cstack) > 1 /\ Caller \in Frames
        /\ result \in [err: Errors \cup {"NONE"}, next: Nat, closed: BOOLEAN]
        /\ Top.oe \in 1..Len(openInternalEntities)
    BY <2>1, Answered DEF Nested, HoldsRecord
  <2>3. Caller.s + 1 \in Nat
    BY <2>2, FrameParts
  <2>4. ControlOK'
    BY <1>2, <2>2, <2>3, CallerTailTyped DEF ReturnFromEntity, ControlOK
  <2>5. ApiOK'
    BY <1>2 DEF ReturnFromEntity, ApiOK, Processors
  <2>6. HistoryOK'
    BY <1>2, Unchanged DEF ReturnFromEntity, CallerTail
  <2>7. EntitiesOK' /\ PoolOK'
    <3>1. CASE UNCHANGED <<entities, pool>>
      BY <3>1, Unchanged
    <3>2. CASE /\ processed' = [processed EXCEPT ![Top.ent] = result.next]
               /\ UNCHANGED <<openInternalEntities, entityOpen, pool>>
      BY <2>2, <3>2 DEF EntitiesOK, PoolOK
    <3>3. CASE CloseEntity(Top.ent, Top.oe)
      BY <2>2, <3>3, CloseEntityTyped
    <3>4. QED
      BY <1>2, <3>1, <3>2, <3>3 DEF ReturnFromEntity
  <2>8. QED
    BY <1>2, <2>4, <2>5, <2>6, <2>7, Unchanged DEF ReturnFromEntity
<1>3. CASE ReturnFromResumedEntity
  <2>1. Returning("internalEntityProcessor")
    BY <1>3 DEF ReturnFromResumedEntity
  <2>2. /\ result \in [err: Errors \cup {"NONE"}, next: Nat, closed: BOOLEAN]
        /\ Top.oe \in 1..Len(openInternalEntities)
    BY <2>1, Answered DEF HoldsRecord
  <2>3. EntitiesOK' /\ PoolOK'
    <3>1. CASE UNCHANGED <<entities, pool>>
      BY <3>1, Unchanged
    <3>2. CASE /\ processed' = [processed EXCEPT ![Top.ent] = result.next]
               /\ UNCHANGED <<openInternalEntities, entityOpen, pool>>
      BY <2>2, <3>2 DEF EntitiesOK, PoolOK
    <3>3. CASE CloseEntity(Top.ent, Top.oe)
      BY <2>2, <3>3, CloseEntityTyped
    <3>4. QED
      BY <1>3, <3>1, <3>2, <3>3 DEF ReturnFromResumedEntity
  <2> DEFINE g == Frame("doContent", Document, bufferPtr, ContentLevel, "tail", 0)
  <2>4. g \in Frames
    BY DEF Frame, Frames, Functions, Callers, ContentLevel, ApiOK
  <2>5. Value("NONE", bufferPtr, FALSE) \in Results /\ Pending \in Results
    BY ValueTyped DEF ApiOK, Results
  <2> HIDE DEF g
  <2>6. <<g>> \in Seq(Frames)
    BY <2>4, OneFrame
  <2>7. ControlOK'
    BY <1>3, <1>e, <2>5, <2>6 DEF ReturnFromResumedEntity, ControlOK, g
  <2>8. ApiOK'
    BY <1>3 DEF ReturnFromResumedEntity, ApiOK, Processors
  <2>9. QED
    BY <1>3, <2>3, <2>7, <2>8, Unchanged DEF ReturnFromResumedEntity
<1>4. CASE ReturnFromContent
  <2>1. ControlOK'
    BY <1>4, <1>e DEF ReturnFromContent, ControlOK
  <2>2. TagsOK'
    BY <1>4, StoreRawNamesTyped DEF ReturnFromContent, TagsOK
  <2>3. QED
    BY <1>4, <2>1, <2>2, Unchanged DEF ReturnFromContent
<1>5. CASE ReturnFromTail
  <2>1. ControlOK'
    BY <1>5, <1>e DEF ReturnFromTail, ControlOK
  <2>2. QED
    BY <1>5, <2>1, Unchanged DEF ReturnFromTail
<1>6. CASE ReturnFromCdataProcessor
  <2>1. Returning("cdataSectionProcessor")
    BY <1>6 DEF ReturnFromCdataProcessor
  <2>2. result \in [err: Errors \cup {"NONE"}, next: Nat, closed: BOOLEAN]
    BY <2>1, Answered
  <2> DEFINE g == Frame("doContent", Document, result.next, ContentLevel, "contentProcessor", 0)
  <2>3. g \in Frames
    BY <2>2 DEF Frame, Frames, Functions, Callers, ContentLevel
  <2> HIDE DEF g
  <2>4. <<g>> \in Seq(Frames)
    BY <2>3, OneFrame
  <2>5. ControlOK'
    BY <1>6, <1>e, <2>4 DEF ReturnFromCdataProcessor, ControlOK, Results, g
  <2>6. ApiOK'
    BY <1>6 DEF ReturnFromCdataProcessor, ApiOK, Processors
  <2>7. QED
    BY <1>6, <2>5, <2>6, Unchanged DEF ReturnFromCdataProcessor
<1>7. QED
  BY <1>1, <1>2, <1>3, <1>4, <1>5, <1>6 DEF Returns

LEMMA FinishCallTyped ==
  ASSUME TypeOK, FinishCall
  PROVE  TypeOK'
<1> USE DEF TypeOK
<1>1. result \in [err: Errors \cup {"NONE"}, next: Nat, closed: BOOLEAN]
  BY DEF FinishCall, ControlOK, Results
<1>2. ControlOK'
  BY DEF FinishCall, ControlOK, Results
<1>3. ApiOK'
  BY <1>1 DEF FinishCall, EnterError, ApiOK, Processors, Errors
<1>4. HistoryOK'
  BY DEF FinishCall, HistoryOK
<1>5. QED
  BY <1>2, <1>3, <1>4, Unchanged DEF FinishCall

-----------------------------------------------------------------------------
(* The application's calls.                                                  *)

LEMMA CallProcessorTyped ==
  ASSUME ApiOK, TagsOK, EntitiesOK, ControlOK, NEW s \in Nat, CallProcessor(s)
  PROVE  /\ ControlOK' /\ processor' \in Processors
         /\ (processor' = "errorProcessor" <=> processor = "errorProcessor")
<1> DEFINE oe == Len(openInternalEntities)
           top == openInternalEntities[oe]
<1>1. processor' \in Processors /\ (processor' = "errorProcessor" <=> processor = "errorProcessor")
  BY DEF CallProcessor, ApiOK, Processors
<1>2. ASSUME NEW fn \in Functions, NEW lvl \in Nat, NEW by \in Callers,
             cstack' = <<Frame(fn, Document, s, lvl, by, 0)>>, UNCHANGED result
      PROVE  ControlOK'
  <2>1. Frame(fn, Document, s, lvl, by, 0) \in Frames
    BY DEF Frame, Frames
  <2>2. cstack' \in Seq(Frames)
    BY <1>2, <2>1, OneFrame
  <2>3. QED
    BY <1>2, <2>2 DEF ControlOK
<1>3. ASSUME NEW err \in Errors \cup {"NONE"}, result' = Value(err, s, FALSE), UNCHANGED cstack
      PROVE  ControlOK'
  BY <1>3, ValueTyped DEF ControlOK
<1>4. CASE processor \in {"prologInitProcessor", "prologProcessor"}
           /\ cstack' = <<Frame("doProlog", Document, s, 0, "processor", 0)>> /\ UNCHANGED result
  BY <1>1, <1>2, <1>4 DEF Functions, Callers
<1>5. CASE cstack' = <<Frame("doContent", Document, s, 0, "contentProcessor", 0)>> /\ UNCHANGED result
  BY <1>1, <1>2, <1>5 DEF Functions, Callers
<1>6. CASE cstack' = <<Frame("doContent", Document, s, 1, "contentProcessor", 0)>> /\ UNCHANGED result
  BY <1>1, <1>2, <1>6 DEF Functions, Callers
<1>7. CASE cstack' = <<Frame("externalEntityInitProcessor", Document, s, 0, "processor", 0)>>
           /\ UNCHANGED result
  BY <1>1, <1>2, <1>7 DEF Functions, Callers
<1>8. CASE cstack' = <<Frame("doCdataSection", Document, s, 0, "cdataSectionProcessor", 0)>>
           /\ UNCHANGED result
  BY <1>1, <1>2, <1>8 DEF Functions, Callers
<1>9. CASE cstack' = <<Frame("epilogProcessor", Document, s, 0, "processor", 0)>> /\ UNCHANGED result
  BY <1>1, <1>2, <1>9 DEF Functions, Callers
<1>10. CASE result' = Value(errorCode, s, FALSE) /\ UNCHANGED cstack
  BY <1>1, <1>3, <1>10 DEF ApiOK
<1>11. CASE result' = Value("UNEXPECTED_STATE", s, FALSE) /\ UNCHANGED cstack
  BY <1>1, <1>3, <1>11 DEF Errors
<1>12. CASE /\ oe > 0 /\ UNCHANGED result
            /\ cstack' = <<Frame("doContent", top.entity, processed[top.entity],
                                 top.startTagLevel, "internalEntityProcessor", oe)>>
  <2> DEFINE T == [entity: Entities, startTagLevel: Nat]
  <2>1. oe \in 1..Len(openInternalEntities) /\ oe \in Nat
    BY <1>12, LenProperties DEF EntitiesOK
  <2>2. openInternalEntities \in Seq(T)
    BY DEF EntitiesOK
  <2> HIDE DEF T
  <2>7. openInternalEntities[oe] \in T
    BY <2>1, <2>2, ElementOfSeq
  <2>8. top \in [entity: Entities, startTagLevel: Nat]
    BY <2>7 DEF T
  <2> HIDE DEF oe, top
  <2>3. processed[top.entity] \in Nat
    BY <2>8 DEF EntitiesOK
  <2>4. Frame("doContent", top.entity, processed[top.entity],
              top.startTagLevel, "internalEntityProcessor", oe) \in Frames
    BY <2>1, <2>8, <2>3 DEF Frame, Frames, Functions, Callers
  <2>5. cstack' \in Seq(Frames)
    BY <1>12, <2>4, OneFrame
  <2>6. QED
    BY <1>1, <1>12, <2>5 DEF ControlOK
<1>13. QED
  BY <1>1, <1>4, <1>5, <1>6, <1>7, <1>8, <1>9, <1>10, <1>11, <1>12 DEF CallProcessor

LEMMA ApplicationTyped ==
  ASSUME TypeOK, Application
  PROVE  TypeOK'
<1> USE DEF TypeOK
<1>1. bufferPtr \in Nat
  BY DEF ApiOK
<1>2. ASSUME NEW n \in 0..Len(doc), NEW p \in BOOLEAN, NEW final \in BOOLEAN,
             NEW moved \in BOOLEAN, XML_ParseBuffer(n, p, final, moved)
      PROVE  TypeOK'
  <2>1. ControlOK' /\ processor' \in Processors
    BY <1>1, <1>2, CallProcessorTyped DEF XML_ParseBuffer
  <2>2. InputOK'
    BY <1>2 DEF XML_ParseBuffer, InputOK
  <2>3. ApiOK'
    BY <1>2, <2>1 DEF XML_ParseBuffer, ApiOK
  <2>4. HistoryOK'
    BY <1>2 DEF XML_ParseBuffer, HistoryOK
  <2>5. Len(tagStack) \in Nat /\ \A i \in 1..Len(tagStack) : tagStack[i] \in TagRecords
    BY LenProperties, ElementOfSeq DEF TagsOK
  <2>6. \A t \in TagRecords : [t EXCEPT !.raw = "stale"] \in TagRecords
    BY DEF TagRecords
  <2>7. tagStack' \in [1..Len(tagStack) -> TagRecords]
    BY <1>2, <2>5, <2>6 DEF XML_ParseBuffer
  <2>8. TagsOK'
    BY <1>2, <2>5, <2>7, EntryWise DEF XML_ParseBuffer, TagsOK
  <2>9. QED
    BY <1>2, <2>1, <2>2, <2>3, <2>4, <2>8, Unchanged DEF XML_ParseBuffer
<1>3. CASE XML_ParseEnd
  <2>1. ControlOK' /\ processor' \in Processors
    BY <1>1, <1>3, CallProcessorTyped DEF XML_ParseEnd
  <2>2. InputOK' /\ ApiOK' /\ HistoryOK'
    BY <1>3, <2>1 DEF XML_ParseEnd, InputOK, ApiOK, HistoryOK
  <2>3. QED
    BY <1>3, <2>1, <2>2, Unchanged DEF XML_ParseEnd
<1>4. CASE XML_ParseNothing
  <2>1. InputOK' /\ ApiOK' /\ HistoryOK'
    BY <1>4 DEF XML_ParseNothing, InputOK, ApiOK, HistoryOK
  <2>2. QED
    BY <1>4, <2>1, Unchanged DEF XML_ParseNothing
<1>5. CASE XML_ParseRefused
  <2>1. ApiOK'
    BY <1>5 DEF XML_ParseRefused, Accepting, ApiOK, HistoryOK, Errors
  <2>2. QED
    BY <1>5, <2>1, Unchanged DEF XML_ParseRefused
<1>6. CASE XML_ResumeParser
  <2>1. ControlOK' /\ processor' \in Processors
    BY <1>1, <1>6, CallProcessorTyped DEF XML_ResumeParser
  <2>2. ApiOK' /\ HistoryOK'
    BY <1>6, <2>1 DEF XML_ResumeParser, ApiOK, HistoryOK
  <2>3. QED
    BY <1>6, <2>1, <2>2, Unchanged DEF XML_ResumeParser
<1>7. CASE XML_ResumeRefused
  <2>1. ApiOK'
    BY <1>7 DEF XML_ResumeRefused, ApiOK, Errors
  <2>2. QED
    BY <1>7, <2>1, Unchanged DEF XML_ResumeRefused
<1>8. CASE XML_StopParser
  <2>1. ApiOK' /\ HistoryOK'
    BY <1>8 DEF XML_StopParser, ApiOK, HistoryOK, Errors
  <2>2. QED
    BY <1>8, <2>1, Unchanged DEF XML_StopParser
<1>9. CASE XML_ParserReset
  <2>1. doc' \in Seq(Tokens) /\ Len(doc') \in Nat
    <3>1. doc' \in Seq(Tokens)
      BY <1>9, DocumentsAssumption DEF XML_ParserReset
    <3>2. QED
      BY <3>1, LenProperties
  <2>2. InputOK'
    <3>1. /\ avail' = 0 /\ partial' = FALSE /\ finalBuffer' = finalBuffer
          /\ resets' = resets + 1
      BY <1>9 DEF XML_ParserReset
    <3>2. avail' \in 0..Len(doc') /\ resets' \in Nat
      BY <2>1, <3>1 DEF InputOK
    <3>3. QED
      BY <2>1, <3>1, <3>2 DEF InputOK
  <2>3. ApiOK'
    BY <1>9 DEF XML_ParserReset, ApiOK, InitialProcessor, Processors
  <2>4. TagsOK' /\ HistoryOK'
    BY <1>9, EmptySeq DEF XML_ParserReset, RecycleRecords, TagsOK, HistoryOK
  <2>5. EntitiesOK'
    BY <1>9, EmptySeq DEF XML_ParserReset, RecycleRecords, ResetEntities, EntitiesOK
  <2>6. Len(tagStack) \in Nat /\ Len(openInternalEntities) \in Nat
    BY LenProperties DEF TagsOK, EntitiesOK
  <2> DEFINE a == Len(tagStack)
             b == Len(openInternalEntities)
  <2>9. pool' = [pool EXCEPT !.freeTags = @ + a, !.freeEntities = @ + b] /\ a \in Nat /\ b \in Nat
    BY <1>9, <2>6 DEF XML_ParserReset, RecycleRecords
  <2> HIDE DEF a, b
  <2>10. pool.freeTags + a \in Nat /\ pool.freeEntities + b \in Nat
    BY <2>9 DEF PoolOK
  <2>7. PoolOK'
    BY <2>9, <2>10 DEF PoolOK
  <2>8. QED
    BY <1>9, <2>2, <2>3, <2>4, <2>5, <2>7, Unchanged DEF XML_ParserReset
<1>10. QED
  BY <1>2, <1>3, <1>4, <1>5, <1>6, <1>7, <1>8, <1>9 DEF Application, Feed

LEMMA InitTyped == Init => TypeOK
<1> SUFFICES ASSUME Init PROVE TypeOK
  OBVIOUS
<1>0. doc \in Seq(Tokens) /\ Len(doc) \in Nat
  <2>1. doc \in Seq(Tokens)
    BY DocumentsAssumption DEF Init
  <2>2. QED
    BY <2>1, LenProperties
<1>1. InputOK
  <2>1. avail = 0 /\ partial = FALSE /\ finalBuffer = FALSE /\ resets = 0
    BY DEF Init
  <2>2. avail \in 0..Len(doc)
    BY <1>0, <2>1
  <2>3. QED
    BY <1>0, <2>1, <2>2 DEF InputOK
<1>2. ApiOK
  BY DEF Init, ApiOK, InitialProcessor, Processors
<1>3. TagsOK /\ EntitiesOK /\ PoolOK
  BY EmptySeq DEF Init, TagsOK, EntitiesOK, PoolOK
<1>4. ControlOK /\ HistoryOK
  BY EmptySeq DEF Init, ControlOK, HistoryOK, Results
<1>5. QED
  BY <1>1, <1>2, <1>3, <1>4 DEF TypeOK

-----------------------------------------------------------------------------
(* What a step does to the stack of activations and to the list of open      *)
(* entities: one of five shapes, from which the invariants about them follow.*)

InitFn == "externalEntityInitProcessor"
SameRole(f, g) ==
  /\ f.by = g.by /\ f.oe = g.oe /\ f.ent = g.ent
  /\ f.fn = g.fn \/ (f.fn = "epilogProcessor" /\ g.fn = "doContent")

(* An activation of internalEntityProcessor, or of the content it goes on    *)
(* with.                                                                     *)
Resumes(f) == f.by \in {"internalEntityProcessor", "tail"}

(* The first n records of the list are what they were.                       *)
RecordsKept(n) ==
  \A k \in 1..n : openInternalEntities'[k] = openInternalEntities[k]

(* The same activations, at another token.                                   *)
SameFrames ==
  /\ Len(cstack') = Len(cstack)
  /\ \A i \in 1..Len(cstack) : SameRole(cstack'[i], cstack[i])

(* The innermost one has returned.                                           *)
PoppedFrames ==
  /\ Len(cstack) > 1
  /\ Len(cstack') = Len(cstack) - 1
  /\ \A i \in 1..Len(cstack) - 1 : SameRole(cstack'[i], cstack[i])

(* The innermost one has become the content of the document.                 *)
StartedFrames ==
  /\ Len(cstack') = Len(cstack)
  /\ \A i \in 1..Len(cstack) - 1 : SameRole(cstack'[i], cstack[i])
  /\ cstack'[Len(cstack)].by = "contentProcessor"
  /\ cstack'[Len(cstack)].fn = "doContent"
  /\ cstack'[Len(cstack)].ent = Top.ent
  /\ Top.fn \in {"doProlog", InitFn}

(* It has called another one.                                                *)
PushedFrames ==
  /\ Len(cstack) > 0 /\ Top.fn = "doContent"
  /\ Len(cstack') = Len(cstack) + 1
  /\ \A i \in 1..Len(cstack) : SameRole(cstack'[i], cstack[i])
  /\ LET g == cstack'[Len(cstack) + 1]
     IN  \/ /\ g.fn = "doContent"
            /\ g.by = "processInternalEntity"
            /\ g.oe = Len(openInternalEntities) + 1
            /\ Len(openInternalEntities') = Len(openInternalEntities) + 1
            /\ openInternalEntities'[g.oe].entity = g.ent
            /\ Tok(Top).k = "ref" /\ g.ent = Tok(Top).n /\ g.ent \in Entities
            /\ RecordsKept(Len(openInternalEntities))
         \/ /\ g.fn = "doCdataSection"
            /\ g.by = "doContent"
            /\ Tok(Top).k = "cdopen" /\ g.ent = Top.ent
            /\ openInternalEntities' = openInternalEntities

(* There is none, or the one a processor begins with.                        *)
BaseFrames ==
  \/ cstack' = <<>>
  \/ /\ Len(cstack') = 1
     /\ ~Nested(cstack'[1])
     /\ HoldsRecord(cstack'[1]) =>
          LET g == cstack'[1]
          IN  /\ g.oe \in 1..Len(openInternalEntities') /\ g.oe = Len(openInternalEntities')
              /\ g.ent = openInternalEntities'[g.oe].entity
     /\ cstack'[1].fn = "doContent" =>
          cstack'[1].by = "contentProcessor" \/ Resumes(cstack'[1])
     /\ cstack'[1].fn \in {"doProlog", InitFn} => cstack'[1].by = "processor"
     /\ cstack'[1].fn = "doCdataSection" <=> cstack'[1].by = "cdataSectionProcessor"
     /\ ~HoldsRecord(cstack'[1]) => cstack'[1].ent = Document
     /\ cstack'[1].by = "internalEntityProcessor" => processor' = "internalEntityProcessor"
     /\ Resumes(cstack'[1]) =>
          \/ processor = "internalEntityProcessor"
          \/ \E i \in 1..Len(cstack) : Resumes(cstack[i])
     /\ IF processor = InitFn THEN cstack'[1].fn = InitFn /\ cstack'[1].by = "processor"
        ELSE cstack'[1].fn # InitFn

(* The call begins or ends, or goes on in another processor.                 *)
BaseTurn ==
  \/ cstack = <<>> \/ ReturnFromContent \/ ContentEndTagNoElement
  \/ Top.by \in {"processor", "cdataSectionProcessor", "internalEntityProcessor", "tail"}

(* An activation that runs an entity and returns unlinks its record, unless  *)
(* there was an error or a handler suspended the parser.                     *)
FrameReturned ==
  /\ PoppedFrames
  /\ \/ /\ openInternalEntities' = openInternalEntities
        /\ HoldsRecord(Top) => Failed \/ parsing = "SUSPENDED"
     \/ /\ HoldsRecord(Top)
        /\ Len(openInternalEntities') = Top.oe - 1
        /\ RecordsKept(Top.oe - 1)

Shape ==
  \/ SameFrames /\ openInternalEntities' = openInternalEntities
  \/ FrameReturned
  \/ StartedFrames /\ openInternalEntities' = openInternalEntities
  \/ PushedFrames
  \/ BaseFrames /\ BaseTurn

LEMMA ReplacedShape ==
  ASSUME ControlOK, cstack # <<>>, NEW f \in Frames, SameRole(f, Top), Goto(f)
  PROVE  SameFrames
<1>1. \A i \in 1..Len(cstack) : cstack'[i] = IF i = Len(cstack) THEN f ELSE cstack[i]
  BY Replaced DEF Goto
<1>2. Len(cstack') = Len(cstack)
  BY Replaced DEF Goto
<1>3. \A i \in 1..Len(cstack) : i # Len(cstack) => SameRole(cstack'[i], cstack[i])
  BY <1>1 DEF SameRole
<1>4. Len(cstack) \in 1..Len(cstack) /\ Top = cstack[Len(cstack)]
  BY TopFrame
<1>5. SameRole(cstack'[Len(cstack)], cstack[Len(cstack)])
  BY <1>1, <1>4
<1>6. QED
  BY <1>2, <1>3, <1>5 DEF SameFrames

LEMMA LoopTailShape ==
  ASSUME ControlOK, cstack # <<>>, NEW next \in Nat, LoopTail(Top, next)
  PROVE  SameFrames
<1>1. Top \in Frames
  BY TopFrame
<1>2. [Top EXCEPT !.s = next] \in Frames /\ SameRole([Top EXCEPT !.s = next], Top)
  BY <1>1 DEF Frames, SameRole
<1>3. CASE UNCHANGED cstack
  BY <1>3 DEF SameFrames, SameRole
<1>4. CASE Goto([Top EXCEPT !.s = next])
  BY <1>2, <1>4, ReplacedShape
<1>5. QED
  BY <1>3, <1>4 DEF LoopTail, Return

LEMMA ToEpilogShape ==
  ASSUME ControlOK, cstack # <<>>, Top.fn = "doContent", NEW level, ToEpilog(Top, level)
  PROVE  SameFrames
<1>1. Top \in Frames /\ Top.s + 1 \in Nat
  BY TopFrame, FrameParts
<1> DEFINE g == [Top EXCEPT !.fn = "epilogProcessor", !.s = Top.s + 1]
<1>2. g \in Frames
  BY <1>1, FrameParts
<1>3. SameRole(g, Top)
  BY <1>1 DEF SameRole, Frames
<1>4. CASE UNCHANGED cstack
  BY <1>4 DEF SameFrames, SameRole
<1>5. CASE Goto(g)
  BY <1>2, <1>3, <1>5, ReplacedShape
<1>6. CASE LoopTail(Top, Top.s + 1)
  BY <1>1, <1>6, LoopTailShape
<1>7. QED
  BY <1>4, <1>5, <1>6 DEF ToEpilog, Return

LEMMA CallerTailShape ==
  ASSUME ControlOK, Len(cstack) > 1, NEW next \in Nat, CallerTail(next)
  PROVE  PoppedFrames
<1>1. cstack # <<>> /\ Len(cstack) \in Nat
  BY EmptySeq DEF ControlOK
<1>2. CASE cstack' = Below
  BY <1>1, <1>2, TopFrame DEF PoppedFrames, SameRole
<1>3. CASE ResumeCaller([Caller EXCEPT !.s = next])
  <2>1. Caller \in Frames
    <3>1. cstack \in Seq(Frames)
      BY DEF ControlOK
    <3>2. QED
      BY <3>1, FrontOfFront DEF Caller
  <2> DEFINE g == [Caller EXCEPT !.s = next]
  <2>2. g \in Frames /\ SameRole(g, Caller)
    BY <2>1 DEF Frames, SameRole
  <2>3. cstack' = Append(SubSeq(cstack, 1, Len(cstack) - 2), g)
    BY <1>3 DEF ResumeCaller
  <2> HIDE DEF g
  <2>4. /\ Len(cstack') = Len(cstack) - 1
        /\ \A i \in 1..Len(cstack) - 1 :
             cstack'[i] = IF i = Len(cstack) - 1 THEN g ELSE cstack[i]
    BY <2>2, <2>3, CallerReplaced
  <2>5. QED
    BY <1>1, <2>2, <2>4 DEF PoppedFrames, SameRole, Caller
<1>4. QED
  BY <1>2, <1>3 DEF CallerTail

LEMMA PushedShape ==
  ASSUME ControlOK, cstack # <<>>, NEW g \in Frames, cstack' = Append(cstack, g),
         Top.fn = "doContent",
         \/ /\ g.fn = "doContent"
            /\ g.by = "processInternalEntity"
            /\ g.oe = Len(openInternalEntities) + 1
            /\ Len(openInternalEntities') = Len(openInternalEntities) + 1
            /\ openInternalEntities'[g.oe].entity = g.ent
            /\ Tok(Top).k = "ref" /\ g.ent = Tok(Top).n /\ g.ent \in Entities
            /\ RecordsKept(Len(openInternalEntities))
         \/ /\ g.fn = "doCdataSection"
            /\ g.by = "doContent"
            /\ Tok(Top).k = "cdopen" /\ g.ent = Top.ent
            /\ openInternalEntities' = openInternalEntities
  PROVE  PushedFrames
<1>1. /\ Len(cstack') = Len(cstack) + 1 /\ cstack'[Len(cstack) + 1] = g
      /\ \A i \in 1..Len(cstack) : cstack'[i] = cstack[i]
  BY Appended DEF ControlOK
<1>2. Len(cstack) > 0
  BY TopFrame
<1>3. QED
  BY <1>1, <1>2 DEF PushedFrames, SameRole

LEMMA SameEntities ==
  ASSUME UNCHANGED entities
  PROVE  openInternalEntities' = openInternalEntities
  BY DEF entities

(* What kinds of steps read the text.                                        *)

(* A token, or the end of the text, without another activation.              *)
TokenRead ==
  /\ \E fn : Running(fn)
  /\ SameFrames /\ UNCHANGED <<openInternalEntities, call>>
  /\ processor' \in {processor, "epilogProcessor"}

(* A reference or a CDATA section is entered.                                *)
TextEntered == Running("doContent") /\ PushedFrames /\ UNCHANGED <<processor, call>>

(* The content of the document begins.                                       *)
ContentBegun ==
  /\ \E fn : Running(fn)
  /\ StartedFrames /\ UNCHANGED <<openInternalEntities, call>>

LEMMA ContentKind ==
  ASSUME TypeOK, DoContent
  PROVE  TokenRead \/ TextEntered \/ ContentEndTagNoElement
<1>0. Running("doContent") /\ ControlOK
  BY DEF DoContent, ContentEndOfText, ContentPartial, ContentTrailing, ContentInvalid,
         ContentData, ContentEntityRef, ContentStartTag, ContentEmptyElement,
         ContentEndTag, ContentEndTagAsync, ContentEndTagNoElement, ContentCdataOpen, TypeOK
<1>w. /\ cstack # <<>> /\ Top \in Frames /\ Top.s \in Nat /\ Top.s + 1 \in Nat
      /\ Top.fn = "doContent"
  BY <1>0, Working DEF Running
<1>1. UNCHANGED cstack => SameFrames
  BY DEF SameFrames, SameRole
<1>2. LoopTail(Top, Top.s + 1) => SameFrames
  BY <1>0, <1>w, LoopTailShape
<1>3. \A level : ToEpilog(Top, level) => SameFrames
  BY <1>0, <1>w, ToEpilogShape
<1>4. CASE ContentEndOfText \/ ContentPartial \/ ContentTrailing \/ ContentInvalid
           \/ ContentEndTagAsync
  BY <1>0, <1>1, <1>4 DEF ContentEndOfText, ContentPartial, ContentTrailing, ContentInvalid,
     ContentEndTagAsync, Fail, Return, TokenRead, api, entities
<1>5. CASE ContentData \/ ContentStartTag
  BY <1>0, <1>2, <1>5 DEF ContentData, ContentStartTag, TokenRead, api, entities
<1>6. CASE ContentEmptyElement
  BY <1>0, <1>3, <1>6 DEF ContentEmptyElement, ToEpilog, TokenRead, entities
<1>7. CASE ContentEndTag
  BY <1>0, <1>1, <1>3, <1>7 DEF ContentEndTag, ToEpilog, Return, TokenRead, entities
<1>8. CASE ContentEntityRef
  <2> DEFINE e == Tok(Top).n
             g == Frame("doContent", e, 0, tagLevel, "processInternalEntity",
                        Len(openInternalEntities) + 1)
             r == [entity |-> e, startTagLevel |-> tagLevel]
  <2>1. CASE Fail("UNDEFINED_ENTITY") \/ Fail("RECURSIVE_ENTITY_REF")
    BY <1>0, <1>1, <2>1 DEF Fail, Return, TokenRead, api, entities
  <2>2. CASE e \in Entities /\ OpenEntity(e) /\ cstack' = Append(cstack, g)
    <3>1. r \in [entity: Entities, startTagLevel: Nat] /\ Len(openInternalEntities) \in Nat
      BY <2>2, LenProperties DEF TypeOK, TagsOK, EntitiesOK
    <3>2. openInternalEntities' = Append(openInternalEntities, r)
      BY <2>2 DEF OpenEntity
    <3>3. /\ g \in Frames /\ g.fn = "doContent" /\ g.by = "processInternalEntity"
          /\ g.oe = Len(openInternalEntities) + 1 /\ g.ent = r.entity /\ g.ent = e
      BY <2>2, <3>1 DEF Frame, Frames, Functions, Callers, TypeOK, TagsOK
    <3>u. UNCHANGED api
      BY <1>8 DEF ContentEntityRef, Fail
    <3> HIDE DEF g, r
    <3>4. /\ Len(openInternalEntities') = Len(openInternalEntities) + 1
          /\ openInternalEntities'[g.oe] = r
          /\ RecordsKept(Len(openInternalEntities))
      BY <3>1, <3>2, <3>3, Appended DEF TypeOK, EntitiesOK, RecordsKept
    <3>5. PushedFrames
      BY <1>0, <1>8, <1>w, <2>2, <3>3, <3>4, PushedShape DEF ContentEntityRef
    <3>6. QED
      BY <1>0, <3>5, <3>u DEF TextEntered, api
  <2>3. QED
    BY <1>8, <2>1, <2>2 DEF ContentEntityRef
<1>9. CASE ContentCdataOpen
  <2> DEFINE g == Frame("doCdataSection", Top.ent, Top.s + 1, 0, "doContent", 0)
  <2>1. g \in Frames /\ g.fn = "doCdataSection" /\ g.by = "doContent" /\ g.ent = Top.ent
    BY <1>w DEF Frame, Frames, Functions, Callers
  <2>2. /\ cstack' = Append(cstack, g) /\ openInternalEntities' = openInternalEntities
        /\ Tok(Top).k = "cdopen" /\ UNCHANGED api
    BY <1>9 DEF ContentCdataOpen, entities
  <2> HIDE DEF g
  <2>3. PushedFrames
    BY <1>0, <1>w, <2>1, <2>2, PushedShape
  <2>4. QED
    BY <1>0, <2>2, <2>3 DEF TextEntered, api
<1>10. QED
  BY <1>4, <1>5, <1>6, <1>7, <1>8, <1>9 DEF DoContent


LEMMA OtherTokensKind ==
  ASSUME TypeOK, DoCdataSection \/ DoProlog \/ DoEpilog \/ ExternalEntityInit
  PROVE  TokenRead \/ ContentBegun
<1>0. (\E fn : Running(fn)) /\ ControlOK
  BY DEF DoCdataSection, CdataEndOfText, CdataInvalid, CdataText, CdataClose,
         DoProlog, PrologWait, PrologRefuse, PrologMisc, PrologInstanceStart,
         DoEpilog, EpilogEndOfText, EpilogTrailing, EpilogMisc, EpilogRefuse,
         ExternalEntityInit, TypeOK
<1>w. /\ cstack # <<>> /\ Top \in Frames /\ Top.s \in Nat /\ Top.s + 1 \in Nat
  BY <1>0, Working
<1>e. UNCHANGED <<openInternalEntities, call>>
  BY DEF DoCdataSection, CdataEndOfText, CdataInvalid, CdataText, CdataClose,
         DoProlog, PrologWait, PrologRefuse, PrologMisc, PrologInstanceStart,
         DoEpilog, EpilogEndOfText, EpilogTrailing, EpilogMisc, EpilogRefuse,
         ExternalEntityInit, Fail, api, entities
<1>1. CASE UNCHANGED <<cstack, processor>>
  BY <1>0, <1>1, <1>e DEF SameFrames, SameRole, TokenRead
<1>2. CASE LoopTail(Top, Top.s + 1) /\ UNCHANGED processor
  BY <1>0, <1>w, <1>2, <1>e, LoopTailShape DEF TokenRead
<1>3. ASSUME NEW f \in Frames, Goto(f), f.fn = "doContent", f.by = "contentProcessor",
             f.ent = Top.ent, Top.fn \in {"doProlog", InitFn}
      PROVE  ContentBegun
  <2>1. /\ Len(cstack') = Len(cstack)
        /\ \A i \in 1..Len(cstack) : cstack'[i] = IF i = Len(cstack) THEN f ELSE cstack[i]
    BY <1>0, <1>w, <1>3, Replaced DEF Goto
  <2>2. Len(cstack) \in Nat \ {0}
    BY <1>0, <1>w, TopFrame
  <2>3. StartedFrames
    BY <1>3, <2>1, <2>2 DEF StartedFrames, SameRole
  <2>4. QED
    BY <1>0, <1>e, <2>3 DEF ContentBegun
<1>4. CASE DoCdataSection
  BY <1>1, <1>2, <1>4 DEF DoCdataSection, CdataEndOfText, CdataInvalid, CdataText, CdataClose,
                          Fail, Return, api
<1>5. CASE DoProlog
  <2>1. CASE PrologInstanceStart
    <3> DEFINE f == [Top EXCEPT !.fn = "doContent", !.by = "contentProcessor"]
    <3>1. f \in Frames /\ f.fn = "doContent" /\ f.by = "contentProcessor" /\ f.ent = Top.ent
      BY <1>w DEF Frames, Functions, Callers
    <3>2. QED
      BY <1>3, <2>1, <3>1 DEF PrologInstanceStart, Running
  <2>2. QED
    BY <1>1, <1>2, <1>5, <2>1
       DEF DoProlog, PrologWait, PrologRefuse, PrologMisc, Fail, Return, api
<1>6. CASE DoEpilog
  BY <1>1, <1>2, <1>6 DEF DoEpilog, EpilogEndOfText, EpilogTrailing, EpilogMisc, EpilogRefuse,
                          Fail, Return, api
<1>7. CASE ExternalEntityInit
  <2> DEFINE f == [Top EXCEPT !.fn = "doContent", !.lvl = 1, !.by = "contentProcessor"]
  <2>1. f \in Frames /\ f.fn = "doContent" /\ f.by = "contentProcessor" /\ f.ent = Top.ent
    BY <1>w DEF Frames, Functions, Callers
  <2>2. (UNCHANGED <<cstack, processor>> \/ Goto(f)) /\ Top.fn = InitFn
    BY <1>7 DEF ExternalEntityInit, Return, Running, InitFn
  <2>3. QED
    BY <1>1, <1>3, <2>1, <2>2
<1>8. QED
  BY <1>4, <1>5, <1>6, <1>7

LEMMA TokensShape ==
  ASSUME TypeOK, DoContent \/ DoCdataSection \/ DoProlog \/ DoEpilog \/ ExternalEntityInit
  PROVE  Shape
<1>1. ContentEndTagNoElement => Shape
  BY DEF ContentEndTagNoElement, Shape, BaseFrames, BaseTurn
<1>2. QED
  BY <1>1, ContentKind, OtherTokensKind DEF TokenRead, TextEntered, ContentBegun, Shape

LEMMA ReturnsShape ==
  ASSUME TypeOK, HeldRecordsAreListed, InitPhase, Returns
  PROVE  FrameReturned \/ (BaseFrames /\ BaseTurn)
<1>c. ControlOK
  BY DEF TypeOK
<1>b. ASSUME NEW by, Returning(by), by # "processor"
      PROVE  processor # InitFn
  <2>1. cstack # <<>> /\ Top.by = by
    BY <1>b DEF Returning
  <2>2. Len(cstack) \in 1..Len(cstack) /\ Top = cstack[Len(cstack)]
    BY <1>c, <2>1, TopFrame
  <2>3. QED
    BY <1>b, <2>1, <2>2 DEF InitPhase, InitFn
<1>p. ASSUME cstack # <<>>, Len(cstack) > 1, cstack' = Below
      PROVE  PoppedFrames
  BY <1>c, <1>p, TopFrame DEF PoppedFrames, SameRole
<1>1. CASE ReturnFromCdata
  <2>1. Returning("doContent")
    BY <1>1 DEF ReturnFromCdata
  <2>2. Len(cstack) > 1 /\ cstack # <<>> /\ result.next \in Nat
    BY <2>1, Answered DEF Nested
  <2>3. PoppedFrames
    BY <1>1, <1>c, <1>p, <2>2, CallerTailShape DEF ReturnFromCdata
  <2>4. openInternalEntities' = openInternalEntities /\ ~HoldsRecord(Top)
    BY <1>1, SameEntities DEF ReturnFromCdata, Returning, HoldsRecord
  <2>5. QED
    BY <2>3, <2>4 DEF FrameReturned
<1>2. CASE ReturnFromEntity
  <2>1. Returning("processInternalEntity")
    BY <1>2 DEF ReturnFromEntity
  <2>2. /\ cstack # <<>> /\ Len(cstack) > 1 /\ Caller \in Frames
        /\ HoldsRecord(Top) /\ Top.oe \in 1..Len(openInternalEntities)
    BY <2>1, Answered DEF Nested, HoldsRecord
  <2>3. Caller.s + 1 \in Nat
    BY <2>2, FrameParts
  <2>4. PoppedFrames
    BY <1>2, <1>c, <1>p, <2>2, <2>3, CallerTailShape DEF ReturnFromEntity
  <2>5. CASE openInternalEntities' = openInternalEntities /\ (Failed \/ parsing = "SUSPENDED")
    BY <2>4, <2>5 DEF FrameReturned
  <2>6. CASE CloseEntity(Top.ent, Top.oe)
    <3>1. Len(openInternalEntities') = Top.oe - 1 /\ RecordsKept(Top.oe - 1)
      BY <2>2, <2>6, CloseEntityTyped DEF TypeOK, RecordsKept
    <3>2. QED
      BY <2>2, <2>4, <3>1 DEF FrameReturned
  <2>7. result.err # "pending"
    BY <2>1, Answered, ErrorNames
  <2>8. QED
    BY <1>2, <2>5, <2>6, <2>7 DEF ReturnFromEntity, SuspendedInside, entities, Failed
<1>3. CASE ReturnFromResumedEntity
  <2>1. processor # InitFn
    BY <1>3, <1>b DEF ReturnFromResumedEntity
  <2> DEFINE g == Frame("doContent", Document, bufferPtr, ContentLevel, "tail", 0)
  <2>2. ~Nested(g) /\ ~HoldsRecord(g) /\ g.fn # InitFn /\ Resumes(g)
        /\ g.fn = "doContent" /\ g.ent = Document
        /\ g.by \notin {"cdataSectionProcessor", "internalEntityProcessor"}
    BY DEF Frame, Nested, HoldsRecord, InitFn, Resumes
  <2>3. cstack' = <<>> \/ cstack' = <<g>>
    BY <1>3 DEF ReturnFromResumedEntity
  <2>t. BaseTurn
    BY <1>3 DEF ReturnFromResumedEntity, Returning, BaseTurn
  <2>r. \E i \in 1..Len(cstack) : Resumes(cstack[i])
    <3>1. Resumes(Top) /\ cstack # <<>>
      BY <1>3 DEF ReturnFromResumedEntity, Returning, Resumes
    <3>2. QED
      BY <1>c, <3>1, TopFrame
  <2> HIDE DEF g
  <2>4. BaseFrames
    BY <2>1, <2>2, <2>3, <2>r DEF BaseFrames, InitFn
  <2>5. QED
    BY <2>4, <2>t
<1>4. CASE ReturnFromContent \/ ReturnFromTail
  BY <1>4 DEF ReturnFromContent, ReturnFromTail, Returning, BaseFrames, BaseTurn
<1>5. CASE ReturnFromCdataProcessor
  <2>1. processor # InitFn
    BY <1>5, <1>b DEF ReturnFromCdataProcessor
  <2> DEFINE g == Frame("doContent", Document, result.next, ContentLevel, "contentProcessor", 0)
  <2>2. ~Nested(g) /\ ~HoldsRecord(g) /\ g.fn # InitFn /\ ~Resumes(g)
        /\ g.by = "contentProcessor"
        /\ g.fn = "doContent" /\ g.ent = Document
        /\ g.by \notin {"cdataSectionProcessor", "internalEntityProcessor"}
    BY DEF Frame, Nested, HoldsRecord, InitFn, Resumes
  <2>3. cstack' = <<>> \/ cstack' = <<g>>
    BY <1>5 DEF ReturnFromCdataProcessor
  <2> HIDE DEF g
  <2>4. BaseFrames
    BY <2>1, <2>2, <2>3 DEF BaseFrames, InitFn
  <2>t. BaseTurn
    BY <1>5 DEF ReturnFromCdataProcessor, Returning, BaseTurn
  <2>5. QED
    BY <2>4, <2>t
<1>6. QED
  BY <1>1, <1>2, <1>3, <1>4, <1>5 DEF Returns

LEMMA CallProcessorShape ==
  ASSUME TypeOK, cstack = <<>>, NEW s, CallProcessor(s), UNCHANGED entities
  PROVE  BaseFrames
<1>0. openInternalEntities' = openInternalEntities /\ Len(openInternalEntities) \in Nat
  BY SameEntities, LenProperties DEF TypeOK, EntitiesOK
<1> DEFINE oe == Len(openInternalEntities)
           top == openInternalEntities[oe]
<1>1. CASE cstack' = cstack
  BY <1>1 DEF BaseFrames
<1>2. ASSUME NEW fn, NEW lvl, NEW by \in {"processor", "contentProcessor", "cdataSectionProcessor"},
             cstack' = <<Frame(fn, Document, s, lvl, by, 0)>>,
             fn = "doContent" => by = "contentProcessor",
             fn \in {"doProlog", InitFn} => by = "processor",
             fn = "doCdataSection" <=> by = "cdataSectionProcessor",
             IF processor = InitFn THEN fn = InitFn /\ by = "processor" ELSE fn # InitFn
      PROVE  BaseFrames
  BY <1>2 DEF BaseFrames, Frame, Nested, HoldsRecord, Resumes
<1>3. CASE /\ processor = "internalEntityProcessor" /\ oe > 0
           /\ cstack' = <<Frame("doContent", top.entity, processed[top.entity],
                                top.startTagLevel, "internalEntityProcessor", oe)>>
           /\ processor' = processor
  <2>1. oe \in 1..oe
    BY <1>0, <1>3
  <2> HIDE DEF oe, top
  <2>2. QED
    BY <1>0, <1>3, <2>1 DEF BaseFrames, Frame, Nested, HoldsRecord, Resumes, InitFn, oe, top
<1>4. CASE processor # InitFn /\ cstack' = <<Frame("doProlog", Document, s, 0, "processor", 0)>>
  BY <1>2, <1>4 DEF InitFn
<1>5. CASE processor # InitFn
           /\ \E lvl : cstack' = <<Frame("doContent", Document, s, lvl, "contentProcessor", 0)>>
  BY <1>2, <1>5 DEF InitFn
<1>6. CASE processor = InitFn /\ cstack' = <<Frame(InitFn, Document, s, 0, "processor", 0)>>
  BY <1>2, <1>6 DEF InitFn
<1>7. CASE processor # InitFn
           /\ cstack' = <<Frame("doCdataSection", Document, s, 0, "cdataSectionProcessor", 0)>>
  BY <1>2, <1>7 DEF InitFn
<1>8. CASE processor # InitFn
           /\ cstack' = <<Frame("epilogProcessor", Document, s, 0, "processor", 0)>>
  BY <1>2, <1>8 DEF InitFn
<1>9. QED
  BY <1>1, <1>3, <1>4, <1>5, <1>6, <1>7, <1>8 DEF CallProcessor, InitFn

LEMMA CallShape ==
  ASSUME TypeOK, Idling, FinishCall \/ Application
  PROVE  cstack = <<>> /\ (cstack' = <<>> \/ BaseFrames)
<1>1. CASE FinishCall
  BY <1>1 DEF FinishCall
<1>i. Application => cstack = <<>>
  BY DEF Application, Feed, XML_ParseBuffer, XML_ParseEnd, XML_ParseNothing, XML_ParseRefused,
     XML_ResumeParser, XML_ResumeRefused, XML_StopParser, XML_ParserReset, Idling
<1>2. CASE \E n \in 0..Len(doc), p, final, moved \in BOOLEAN : XML_ParseBuffer(n, p, final, moved)
  <2>1. PICK n \in 0..Len(doc), p \in BOOLEAN, final \in BOOLEAN, moved \in BOOLEAN :
          XML_ParseBuffer(n, p, final, moved)
    BY <1>2
  <2>2. QED
    BY <2>1, CallProcessorShape DEF XML_ParseBuffer, Idling
<1>3. CASE XML_ParseEnd
  BY <1>3, CallProcessorShape DEF XML_ParseEnd, Idling
<1>4. CASE XML_ResumeParser
  BY <1>4, CallProcessorShape DEF XML_ResumeParser, Idling
<1>5. CASE XML_ParseNothing \/ XML_ParseRefused \/ XML_ResumeRefused \/ XML_StopParser
           \/ XML_ParserReset
  BY <1>5 DEF XML_ParseNothing, XML_ParseRefused, XML_ResumeRefused, XML_StopParser,
              XML_ParserReset, Idling, control
<1>6. QED
  BY <1>1, <1>i, <1>2, <1>3, <1>4, <1>5 DEF Application, Feed

(* Every step has one of the shapes.                                         *)
LEMMA NextShape ==
  ASSUME TypeOK, HeldRecordsAreListed, InitPhase, Idling, Next
  PROVE  Shape
  BY TokensShape, ReturnsShape, CallShape
     DEF Next, Step, Shape, BaseFrames, BaseTurn

-----------------------------------------------------------------------------
(* The records that activations hold stay on the list.                       *)

LEMMA HeldRecordsPreserved ==
  ASSUME TypeOK, HeldRecordsAreListed, Shape
  PROVE  HeldRecordsAreListed'
<1>t. /\ Len(cstack) \in Nat /\ Len(openInternalEntities) \in Nat
      /\ cstack # <<>> => Len(cstack) \in Nat \ {0} /\ Top = cstack[Len(cstack)]
      /\ \A i \in 1..Len(cstack) : cstack[i].oe \in Nat
  <2>1. cstack \in Seq(Frames) /\ Len(cstack) \in Nat /\ Len(openInternalEntities) \in Nat
    BY LenProperties DEF TypeOK, ControlOK, EntitiesOK
  <2>2. \A i \in 1..Len(cstack) : cstack[i].oe \in Nat
    BY <2>1, ElementOfSeq, FrameParts
  <2>3. QED
    BY <2>1, <2>2, TopFrame DEF TypeOK
<1>r. \A f, g : SameRole(f, g) => /\ Nested(f) <=> Nested(g)
                                  /\ HoldsRecord(f) <=> HoldsRecord(g)
                                  /\ f.oe = g.oe
  BY DEF SameRole, Nested, HoldsRecord
<1>1. CASE SameFrames /\ Len(openInternalEntities') = Len(openInternalEntities)
  BY <1>1 DEF SameFrames, SameRole, HeldRecordsAreListed, Nested, HoldsRecord
<1>2. CASE PoppedFrames /\ Len(openInternalEntities') = Len(openInternalEntities)
  <2>1. \A i \in 1..Len(cstack') :
          /\ i \in 1..Len(cstack)
          /\ Nested(cstack'[i]) <=> Nested(cstack[i])
          /\ HoldsRecord(cstack'[i]) <=> HoldsRecord(cstack[i])
          /\ cstack'[i].oe = cstack[i].oe
    BY <1>2, <1>t, <1>r DEF PoppedFrames
  <2>2. \A i \in 1..Len(cstack') : Nested(cstack'[i]) => i > 1
    BY <2>1 DEF HeldRecordsAreListed
  <2>3. \A i \in 1..Len(cstack') :
          HoldsRecord(cstack'[i]) => cstack'[i].oe \in 1..Len(openInternalEntities')
    BY <1>2, <2>1 DEF HeldRecordsAreListed
  <2>4. \A i, j \in 1..Len(cstack') :
          i < j /\ HoldsRecord(cstack'[i]) /\ HoldsRecord(cstack'[j]) =>
            cstack'[i].oe < cstack'[j].oe
    BY <2>1 DEF HeldRecordsAreListed
  <2>5. QED
    BY <2>2, <2>3, <2>4 DEF HeldRecordsAreListed, Nested, HoldsRecord
<1>3. CASE PoppedFrames /\ HoldsRecord(Top) /\ Len(openInternalEntities') = Top.oe - 1
  <2>1. CASE cstack = <<>>
    BY <1>3, <1>t, <2>1 DEF PoppedFrames, HeldRecordsAreListed
  <2>2. CASE cstack # <<>>
    <3>1. \A i \in 1..Len(cstack) - 1 : HoldsRecord(cstack[i]) => cstack[i].oe < Top.oe
      BY <1>3, <1>t, <2>2 DEF HeldRecordsAreListed
    <3>2. \A i \in 1..Len(cstack) - 1 :
            HoldsRecord(cstack[i]) => cstack[i].oe \in 1..Top.oe - 1
      BY <3>1, <1>t, <2>2 DEF HeldRecordsAreListed
    <3>3. \A i \in 1..Len(cstack') :
            /\ i \in 1..Len(cstack) /\ i \in 1..Len(cstack) - 1
            /\ Nested(cstack'[i]) <=> Nested(cstack[i])
            /\ HoldsRecord(cstack'[i]) <=> HoldsRecord(cstack[i])
            /\ cstack'[i].oe = cstack[i].oe
      BY <1>3, <1>t, <1>r DEF PoppedFrames
    <3>4. \A i \in 1..Len(cstack') : Nested(cstack'[i]) => i > 1
      BY <3>3 DEF HeldRecordsAreListed
    <3>5. \A i \in 1..Len(cstack') :
            HoldsRecord(cstack'[i]) => cstack'[i].oe \in 1..Len(openInternalEntities')
      BY <1>3, <3>2, <3>3
    <3>6. \A i, j \in 1..Len(cstack') :
            i < j /\ HoldsRecord(cstack'[i]) /\ HoldsRecord(cstack'[j]) =>
              cstack'[i].oe < cstack'[j].oe
      BY <3>3 DEF HeldRecordsAreListed
    <3>7. QED
      BY <3>4, <3>5, <3>6 DEF HeldRecordsAreListed, Nested, HoldsRecord
  <2>3. QED
    BY <2>1, <2>2
<1>4. CASE StartedFrames /\ Len(openInternalEntities') = Len(openInternalEntities)
  <2>1. ASSUME NEW i \in 1..Len(cstack')
        PROVE  /\ i \in 1..Len(cstack)
               /\ \/ /\ Nested(cstack'[i]) <=> Nested(cstack[i])
                     /\ HoldsRecord(cstack'[i]) <=> HoldsRecord(cstack[i])
                     /\ cstack'[i].oe = cstack[i].oe
                  \/ ~Nested(cstack'[i]) /\ ~HoldsRecord(cstack'[i])
    <3>1. i \in 1..Len(cstack)
      BY <1>4 DEF StartedFrames
    <3>2. CASE i = Len(cstack)
      BY <1>4, <3>1, <3>2 DEF StartedFrames, Nested, HoldsRecord
    <3>3. CASE i # Len(cstack)
      <4>1. i \in 1..Len(cstack) - 1
        BY <1>t, <3>1, <3>3
      <4>2. QED
        BY <1>4, <1>r, <3>1, <4>1 DEF StartedFrames
    <3>4. QED
      BY <3>2, <3>3
  <2>2. \A i \in 1..Len(cstack') : Nested(cstack'[i]) => i > 1
    BY <2>1 DEF HeldRecordsAreListed
  <2>3. \A i \in 1..Len(cstack') :
          HoldsRecord(cstack'[i]) => cstack'[i].oe \in 1..Len(openInternalEntities')
    BY <1>4, <2>1 DEF HeldRecordsAreListed
  <2>4. \A i, j \in 1..Len(cstack') :
          i < j /\ HoldsRecord(cstack'[i]) /\ HoldsRecord(cstack'[j]) =>
            cstack'[i].oe < cstack'[j].oe
    BY <2>1 DEF HeldRecordsAreListed
  <2>5. QED
    BY <2>2, <2>3, <2>4 DEF HeldRecordsAreListed, Nested, HoldsRecord
<1>5. CASE PushedFrames
  <2> DEFINE g == cstack'[Len(cstack) + 1]
  <2>1. /\ Len(cstack') = Len(cstack) + 1 /\ Len(cstack) > 0
        /\ \A i \in 1..Len(cstack) :
             cstack'[i].by = cstack[i].by /\ cstack'[i].oe = cstack[i].oe
    BY <1>5 DEF PushedFrames, SameRole
  <2>2. /\ Len(openInternalEntities') >= Len(openInternalEntities)
        /\ Len(openInternalEntities') \in Nat
        /\ HoldsRecord(g) => /\ g.oe = Len(openInternalEntities) + 1
                             /\ Len(openInternalEntities') = Len(openInternalEntities) + 1
    BY <1>5, <1>t DEF PushedFrames, HoldsRecord
  <2> HIDE DEF g
  <2>3. \A i \in 1..Len(cstack') : i \in 1..Len(cstack) \/ (i = Len(cstack) + 1 /\ cstack'[i] = g)
    BY <1>t, <2>1 DEF g
  <2>4. \A i \in 1..Len(cstack') : Nested(cstack'[i]) => i > 1
    BY <1>t, <2>1, <2>3 DEF HeldRecordsAreListed, Nested
  <2>5. \A i \in 1..Len(cstack') :
          HoldsRecord(cstack'[i]) => cstack'[i].oe \in 1..Len(openInternalEntities')
    BY <1>t, <2>1, <2>2, <2>3 DEF HeldRecordsAreListed, HoldsRecord
  <2>6. \A i, j \in 1..Len(cstack') :
          i < j /\ HoldsRecord(cstack'[i]) /\ HoldsRecord(cstack'[j]) =>
            cstack'[i].oe < cstack'[j].oe
    <3> SUFFICES ASSUME NEW i \in 1..Len(cstack'), NEW j \in 1..Len(cstack'), i < j,
                        HoldsRecord(cstack'[i]), HoldsRecord(cstack'[j])
                 PROVE  cstack'[i].oe < cstack'[j].oe
      OBVIOUS
    <3>1. i \in 1..Len(cstack)
      BY <1>t, <2>1
    <3>2. cstack'[i].oe = cstack[i].oe /\ HoldsRecord(cstack[i])
      BY <2>1, <3>1 DEF HoldsRecord
    <3>3. cstack[i].oe \in 1..Len(openInternalEntities)
      BY <3>1, <3>2 DEF HeldRecordsAreListed
    <3>4. CASE j \in 1..Len(cstack)
      BY <2>1, <3>1, <3>2, <3>4 DEF HeldRecordsAreListed, HoldsRecord
    <3>5. CASE cstack'[j] = g
      BY <1>t, <2>2, <3>2, <3>3, <3>5
    <3>6. QED
      BY <2>3, <3>4, <3>5
  <2>7. QED
    BY <2>4, <2>5, <2>6 DEF HeldRecordsAreListed
<1>6. CASE BaseFrames
  <2>1. CASE cstack' = <<>>
    BY <2>1 DEF HeldRecordsAreListed
  <2>2. CASE Len(cstack') = 1
    <3>1. ~Nested(cstack'[1])
          /\ (HoldsRecord(cstack'[1]) => cstack'[1].oe \in 1..Len(openInternalEntities'))
      BY <1>6, <2>2, EmptySeq DEF BaseFrames
    <3>2. QED
      BY <2>2, <3>1 DEF HeldRecordsAreListed, Nested, HoldsRecord
  <2>3. QED
    BY <1>6, <2>1, <2>2 DEF BaseFrames
<1>7. QED
  BY <1>1, <1>2, <1>3, <1>4, <1>5, <1>6 DEF Shape, FrameReturned

-----------------------------------------------------------------------------
(* The rest of the invariant.                                                *)

(* A step of the C code that is not the end of the call.                     *)
LEMMA RunningStep ==
  ASSUME TypeOK, Step, ~FinishCall
  PROVE  /\ cstack # <<>>
         /\ verdict' = verdict /\ errorCode' = errorCode
         /\ call' # "none"
         /\ \/ processor' = processor
            \/ processor' \notin {"errorProcessor", InitFn}
<1>1. CASE DoContent
  BY <1>1 DEF DoContent, ContentEndOfText, ContentPartial, ContentTrailing, ContentInvalid,
     ContentData, ContentEntityRef, ContentStartTag, ContentEmptyElement, ContentEndTag,
     ContentEndTagAsync, ContentEndTagNoElement, ContentCdataOpen, Running, Fail, ToEpilog,
     api, InitFn
<1>2. CASE DoCdataSection \/ DoProlog
  BY <1>2 DEF DoCdataSection, CdataEndOfText, CdataInvalid, CdataText, CdataClose, DoProlog,
     PrologWait, PrologRefuse, PrologMisc, PrologInstanceStart, Running, Fail, api, InitFn
<1>3. CASE DoEpilog \/ ExternalEntityInit
  BY <1>3 DEF DoEpilog, EpilogEndOfText, EpilogTrailing, EpilogMisc, EpilogRefuse,
     ExternalEntityInit, Running, Fail, api, InitFn
<1>4. CASE Returns
  BY <1>4 DEF Returns, ReturnFromCdata, ReturnFromEntity, ReturnFromResumedEntity,
     ReturnFromContent, ReturnFromTail, ReturnFromCdataProcessor, Returning, api, InitFn
<1>5. QED
  BY <1>1, <1>2, <1>3, <1>4 DEF Step

(* Only a reset changes the document.                                        *)
LEMMA DocumentKept ==
  ASSUME Next, ~XML_ParserReset
  PROVE  doc' = doc
<1>1. CASE DoContent
  BY <1>1 DEF DoContent, ContentEndOfText, ContentPartial, ContentTrailing, ContentInvalid,
     ContentData, ContentEntityRef, ContentStartTag, ContentEmptyElement, ContentEndTag,
     ContentEndTagAsync, ContentEndTagNoElement, ContentCdataOpen, Fail, input
<1>2. CASE DoCdataSection \/ DoProlog \/ DoEpilog \/ ExternalEntityInit
  BY <1>2 DEF DoCdataSection, CdataEndOfText, CdataInvalid, CdataText, CdataClose, DoProlog,
     PrologWait, PrologRefuse, PrologMisc, PrologInstanceStart, DoEpilog, EpilogEndOfText,
     EpilogTrailing, EpilogMisc, EpilogRefuse, ExternalEntityInit, Fail, input
<1>3. CASE Returns \/ FinishCall
  BY <1>3 DEF Returns, ReturnFromCdata, ReturnFromEntity, ReturnFromResumedEntity,
     ReturnFromContent, ReturnFromTail, ReturnFromCdataProcessor, FinishCall, input
<1>4. CASE Application
  BY <1>4 DEF Application, Feed, XML_ParseBuffer, XML_ParseEnd, XML_ParseNothing,
     XML_ParseRefused, XML_ResumeParser, XML_ResumeRefused, XML_StopParser, input
<1>5. QED
  BY <1>1, <1>2, <1>3, <1>4 DEF Next, Step

LEMMA IdlingPreserved ==
  ASSUME TypeOK, Idling, Next
  PROVE  Idling'
<1>1. CASE Step /\ ~FinishCall
  BY <1>1, RunningStep DEF Idling, Idle
<1>2. CASE FinishCall
  BY <1>2 DEF FinishCall, Idling, Idle
<1>3. CASE Feed \/ XML_ResumeParser
  BY <1>3 DEF Feed, XML_ParseBuffer, XML_ParseEnd, XML_ResumeParser, Idling, Idle
<1>4. CASE XML_ParseNothing \/ XML_ParseRefused \/ XML_ResumeRefused \/ XML_StopParser
           \/ XML_ParserReset
  BY <1>4 DEF XML_ParseNothing, XML_ParseRefused, XML_ResumeRefused, XML_StopParser,
              XML_ParserReset, Idling, Idle, control
<1>5. QED
  BY <1>1, <1>2, <1>3, <1>4 DEF Next, Application

(* errorProcessor answers with the error, and nothing else sets it.          *)
LEMMA ErrorCalled ==
  ASSUME ApiOK, NEW s, CallProcessor(s), errorCode \in Errors
  PROVE  /\ processor' = "errorProcessor" <=> processor = "errorProcessor"
         /\ processor = "errorProcessor" =>
              UNCHANGED cstack /\ result' = Value(errorCode, s, FALSE)
  BY DEF CallProcessor, ApiOK, Processors

LEMMA ErrorQuietPreserved ==
  ASSUME TypeOK, ErrorQuiet, Idling, Next
  PROVE  ErrorQuiet'
<1>1. CASE Step /\ ~FinishCall
  BY <1>1, RunningStep DEF ErrorQuiet
<1>2. CASE FinishCall
  <2>1. CASE result.err # "NONE"
    <3>1. result.err \in Errors
      BY <1>2, <2>1 DEF FinishCall, TypeOK, ControlOK, Results
    <3>2. /\ errorCode' = result.err /\ processor' = "errorProcessor" /\ cstack' = <<>>
          /\ result' = Pending
      BY <1>2, <2>1 DEF FinishCall, EnterError
    <3>3. QED
      BY <3>1, <3>2 DEF ErrorQuiet, Pending
  <2>2. CASE result.err = "NONE"
    <3>1. processor' = processor /\ cstack' = <<>> /\ processor # "errorProcessor"
      BY <1>2, <2>2 DEF FinishCall, ErrorQuiet
    <3>2. verdict' # "none" => parsing' = "FINISHED"
      <4>1. CASE verdict # "none"
        BY <1>2, <2>2, <3>1, <4>1 DEF FinishCall, ErrorQuiet
      <4>2. CASE verdict = "none"
        BY <1>2, <2>2, <4>2 DEF FinishCall
      <4>3. QED
        BY <4>1, <4>2
    <3>3. QED
      BY <3>1, <3>2 DEF ErrorQuiet
  <2>3. QED
    BY <2>1, <2>2
<1>3. ASSUME NEW s, CallProcessor(s), Idle, UNCHANGED <<verdict, errorCode>>,
             parsing # "FINISHED"
      PROVE  ErrorQuiet'
  <2>1. cstack = <<>>
    BY <1>3 DEF Idling
  <2>2. CASE processor = "errorProcessor"
    <3>1. errorCode \in Errors
      BY <2>2 DEF ErrorQuiet
    <3>2. UNCHANGED cstack /\ result' = Value(errorCode, s, FALSE) /\ processor' = "errorProcessor"
      BY <1>3, <2>2, <3>1, ErrorCalled DEF TypeOK
    <3>3. result'.err # "NONE"
      BY <3>1, <3>2 DEF Value, Errors
    <3>4. QED
      BY <1>3, <2>1, <3>1, <3>2, <3>3 DEF ErrorQuiet
  <2>3. CASE processor # "errorProcessor"
    <3>1. processor' # "errorProcessor"
      BY <1>3, <2>3 DEF CallProcessor
    <3>2. verdict = "none"
      BY <1>3, <2>3 DEF ErrorQuiet
    <3>3. QED
      BY <1>3, <3>1, <3>2 DEF ErrorQuiet
  <2>4. QED
    BY <2>2, <2>3
<1>4. CASE \E n \in 0..Len(doc), p, final, moved \in BOOLEAN : XML_ParseBuffer(n, p, final, moved)
  BY <1>3, <1>4 DEF XML_ParseBuffer, Accepting
<1>5. CASE XML_ParseEnd
  BY <1>3, <1>5 DEF XML_ParseEnd, Accepting
<1>6. CASE XML_ResumeParser
  BY <1>3, <1>6 DEF XML_ResumeParser
<1>7. CASE XML_ParseNothing
  BY <1>7 DEF XML_ParseNothing, ErrorQuiet, control, Accepting
<1>8. CASE XML_ParseRefused
  <2>1. errorCode' \in Errors
    BY <1>8 DEF XML_ParseRefused, Accepting, TypeOK, HistoryOK, Errors
  <2>2. QED
    BY <1>8, <2>1 DEF XML_ParseRefused, ErrorQuiet, control, history
<1>9. CASE XML_ResumeRefused
  BY <1>9 DEF XML_ResumeRefused, ErrorQuiet, control, history, Errors
<1>10. CASE XML_StopParser
  BY <1>10 DEF XML_StopParser, ErrorQuiet, Idling, control
<1>11. CASE XML_ParserReset
  BY <1>11 DEF XML_ParserReset, ErrorQuiet
<1>12. QED
  BY <1>1, <1>2, <1>4, <1>5, <1>6, <1>7, <1>8, <1>9, <1>10, <1>11 DEF Next, Application, Feed

LEMMA NoInitFrames ==
  ASSUME TypeOK, Shape, processor # InitFn,
         \A i \in 1..Len(cstack) : cstack[i].fn # InitFn
  PROVE  \A i \in 1..Len(cstack') : cstack'[i].fn # InitFn
<1>t. Len(cstack) \in Nat
  BY LenProperties DEF TypeOK, ControlOK
<1>r. \A f, g : SameRole(f, g) /\ g.fn # InitFn => f.fn # InitFn
  BY DEF SameRole, InitFn
<1>1. CASE SameFrames
  BY <1>1, <1>r DEF SameFrames
<1>2. CASE PoppedFrames
  BY <1>2, <1>r, <1>t DEF PoppedFrames
<1>3. CASE StartedFrames
  <2>1. ASSUME NEW i \in 1..Len(cstack)
        PROVE  cstack'[i].fn # InitFn
    <3>1. CASE i = Len(cstack)
      BY <1>3, <3>1 DEF StartedFrames, InitFn
    <3>2. CASE i # Len(cstack)
      <4>1. i \in 1..Len(cstack) - 1
        BY <1>t, <3>2
      <4>2. QED
        BY <1>3, <1>r, <4>1 DEF StartedFrames
    <3>3. QED
      BY <3>1, <3>2
  <2>2. QED
    BY <1>3, <2>1 DEF StartedFrames
<1>4. CASE PushedFrames
  <2>1. ASSUME NEW i \in 1..Len(cstack) + 1
        PROVE  cstack'[i].fn # InitFn
    <3>1. CASE i = Len(cstack) + 1
      BY <1>4, <3>1 DEF PushedFrames, InitFn
    <3>2. CASE i # Len(cstack) + 1
      <4>1. i \in 1..Len(cstack)
        BY <1>t, <3>2
      <4>2. QED
        BY <1>4, <1>r, <4>1 DEF PushedFrames
    <3>3. QED
      BY <3>1, <3>2
  <2>2. QED
    BY <1>4, <2>1 DEF PushedFrames
<1>5. CASE BaseFrames
  BY <1>5 DEF BaseFrames
<1>6. QED
  BY <1>1, <1>2, <1>3, <1>4, <1>5 DEF Shape, FrameReturned

LEMMA InitPhasePreserved ==
  ASSUME TypeOK, HeldRecordsAreListed, InitPhase, Idling, Next
  PROVE  InitPhase'
<1>s. Shape
  BY NextShape
<1>1. CASE processor # InitFn
  <2>1. processor' # InitFn
    <3>1. CASE Step /\ ~FinishCall
      BY <1>1, <3>1, RunningStep
    <3>2. CASE FinishCall
      BY <1>1, <3>2 DEF FinishCall, EnterError, InitFn
    <3>3. CASE Application
      BY <1>1, <3>3 DEF Application, Feed, XML_ParseBuffer, XML_ParseEnd, XML_ResumeParser,
         CallProcessor, XML_ParseNothing, XML_ParseRefused, XML_ResumeRefused,
         XML_StopParser, XML_ParserReset, InitFn
    <3>4. QED
      BY <3>1, <3>2, <3>3 DEF Next
  <2>2. \A i \in 1..Len(cstack') : cstack'[i].fn # InitFn
    BY <1>1, <1>s, NoInitFrames DEF InitPhase, InitFn
  <2>3. QED
    BY <2>1, <2>2 DEF InitPhase, InitFn
<1>2. CASE processor = InitFn
  <2>0. /\ IsExternal /\ tagStack = <<>> /\ Len(cstack) <= 1
        /\ \A i \in 1..Len(cstack) : cstack[i].fn = InitFn /\ cstack[i].by = "processor"
    BY <1>2 DEF InitPhase, InitFn
  <2>d. ~XML_ParserReset /\ IsExternal'
    BY <2>0, DocumentKept DEF XML_ParserReset, IsExternal
  <2>1. CASE Step /\ ~FinishCall
    <3>1. cstack # <<>>
      BY <2>1, RunningStep
    <3>2. /\ Len(cstack) = 1 /\ Top \in Frames /\ Top = cstack[1]
          /\ Top.fn = InitFn /\ Top.by = "processor"
      BY <2>0, <3>1, TopFrame DEF TypeOK
    <3>3. ExternalEntityInit \/ ReturnFromTail
      BY <2>1, <3>2 DEF Step, InitFn, DoContent, ContentEndOfText, ContentPartial,
         ContentTrailing, ContentInvalid, ContentData, ContentEntityRef, ContentStartTag,
         ContentEmptyElement, ContentEndTag, ContentEndTagAsync, ContentEndTagNoElement,
         ContentCdataOpen, DoCdataSection, CdataEndOfText, CdataInvalid, CdataText,
         CdataClose, DoProlog, PrologWait, PrologRefuse, PrologMisc, PrologInstanceStart,
         DoEpilog, EpilogEndOfText, EpilogTrailing, EpilogMisc, EpilogRefuse, Running,
         Returns, ReturnFromCdata, ReturnFromEntity, ReturnFromResumedEntity,
         ReturnFromContent, ReturnFromCdataProcessor, Returning
    <3>4. CASE ReturnFromTail
      BY <2>0, <2>d, <3>4 DEF ReturnFromTail, InitPhase, api, tags
    <3>5. CASE ExternalEntityInit /\ UNCHANGED <<processor, cstack>>
      BY <1>2, <2>0, <2>d, <3>5 DEF ExternalEntityInit, InitPhase, InitFn
    <3>6. CASE /\ processor' = "externalEntityContentProcessor"
               /\ Goto([Top EXCEPT !.fn = "doContent", !.lvl = 1, !.by = "contentProcessor"])
      <4> DEFINE f == [Top EXCEPT !.fn = "doContent", !.lvl = 1, !.by = "contentProcessor"]
      <4>1. f \in Frames /\ f.fn = "doContent"
        BY <3>2 DEF Frames, Functions, Callers
      <4> HIDE DEF f
      <4>2. Len(cstack') = 1 /\ cstack'[1] = f
        BY <3>1, <3>2, <3>6, <4>1, Replaced DEF Goto, TypeOK, f
      <4>3. QED
        BY <3>6, <4>1, <4>2 DEF InitPhase
    <3>7. QED
      BY <3>3, <3>4, <3>5, <3>6 DEF ExternalEntityInit, Return
  <2>2. CASE FinishCall
    BY <1>2, <2>0, <2>d, <2>2 DEF FinishCall, EnterError, InitPhase, InitFn, tags
  <2>3. ASSUME NEW s, CallProcessor(s), BaseFrames, tagStack' = <<>>
        PROVE  InitPhase'
    <3>1. processor' = InitFn
      BY <1>2, <2>3 DEF CallProcessor, InitFn
    <3>2. CASE cstack' = <<>>
      BY <2>0, <2>d, <2>3, <3>2 DEF InitPhase
    <3>3. CASE Len(cstack') = 1 /\ cstack'[1].fn = InitFn /\ cstack'[1].by = "processor"
      BY <2>0, <2>d, <2>3, <3>1, <3>3 DEF InitPhase, InitFn
    <3>4. QED
      BY <1>2, <2>3, <3>2, <3>3 DEF BaseFrames
  <2>4. ASSUME NEW n \in 0..Len(doc), NEW p \in BOOLEAN, NEW final \in BOOLEAN,
               NEW moved \in BOOLEAN, XML_ParseBuffer(n, p, final, moved)
        PROVE  InitPhase'
    <3>1. BaseFrames
      BY <2>4, CallProcessorShape DEF XML_ParseBuffer, Idling
    <3>2. tagStack' \in [1..0 -> {}]
      BY <2>0, <2>4 DEF XML_ParseBuffer
    <3>3. tagStack' \in Seq({}) /\ Len(tagStack') = 0
      BY <3>2, EntryWise
    <3>4. tagStack' = <<>>
      BY <3>3, EmptySeq
    <3>5. QED
      BY <2>3, <2>4, <3>1, <3>4 DEF XML_ParseBuffer
  <2>5. CASE XML_ParseEnd
    <3>1. BaseFrames
      BY <2>5, CallProcessorShape DEF XML_ParseEnd, Idling
    <3>2. QED
      BY <2>0, <2>3, <2>5, <3>1 DEF XML_ParseEnd, tags
  <2>6. CASE XML_ResumeParser
    <3>1. BaseFrames
      BY <2>6, CallProcessorShape DEF XML_ResumeParser, Idling
    <3>2. QED
      BY <2>0, <2>3, <2>6, <3>1 DEF XML_ResumeParser, tags
  <2>7. CASE XML_ParseNothing \/ XML_ParseRefused \/ XML_ResumeRefused \/ XML_StopParser
    BY <1>2, <2>0, <2>d, <2>7 DEF XML_ParseNothing, XML_ParseRefused, XML_ResumeRefused,
       XML_StopParser, InitPhase, InitFn, tags, control
  <2>8. QED
    BY <2>d, <2>1, <2>2, <2>4, <2>5, <2>6, <2>7 DEF Next, Application, Feed
<1>3. QED
  BY <1>1, <1>2

-----------------------------------------------------------------------------
(* The tag level and the tag records.                                        *)

LEMMA TagsConservedPreserved ==
  ASSUME TypeOK, TagsConserved, Next
  PROVE  TagsConserved'
<1>t. /\ tagStack \in Seq(TagRecords) /\ Len(tagStack) \in Nat
      /\ pool.tags \in Nat /\ pool.freeTags \in Nat
      /\ pool \in [tags: Nat, freeTags: Nat, entities: Nat, freeEntities: Nat]
  BY LenProperties DEF TypeOK, TagsOK, PoolOK
<1>1. ASSUME Len(tagStack') = Len(tagStack), pool'.tags = pool.tags,
             pool'.freeTags = pool.freeTags
      PROVE  TagsConserved'
  BY <1>1 DEF TagsConserved
<1>2. CASE ContentStartTag
  <2>1. NewTag(Tok(Top).n) \in TagRecords
    <3>1. Tok(Top) \in TokenRecords /\ Tok(Top).k = "start"
      BY <1>2, Working DEF ContentStartTag
    <3>2. Tok(Top).n \in Names
      BY <3>1, TokenNames
    <3>3. QED
      BY <3>2 DEF NewTag, TagRecords
  <2>2. Len(tagStack') = Len(tagStack) + 1
    BY <1>2, <1>t, <2>1, Appended DEF ContentStartTag, PushTag
  <2>3. pool' = IF pool.freeTags > 0 THEN [pool EXCEPT !.freeTags = @ - 1]
                ELSE [pool EXCEPT !.tags = @ + 1]
    BY <1>2 DEF ContentStartTag, PushTag
  <2>4. \/ pool'.tags = pool.tags /\ pool'.freeTags = pool.freeTags - 1
        \/ pool'.tags = pool.tags + 1 /\ pool'.freeTags = pool.freeTags
    <3>1. CASE pool' = [pool EXCEPT !.freeTags = @ - 1]
      BY <1>t, <3>1
    <3>2. CASE pool' = [pool EXCEPT !.tags = @ + 1]
      BY <1>t, <3>2
    <3>3. QED
      BY <2>3, <3>1, <3>2
  <2>5. CASE pool'.tags = pool.tags /\ pool'.freeTags = pool.freeTags - 1
    BY <1>t, <2>2, <2>5 DEF TagsConserved
  <2>6. CASE pool'.tags = pool.tags + 1 /\ pool'.freeTags = pool.freeTags
    BY <1>t, <2>2, <2>6 DEF TagsConserved
  <2>7. QED
    BY <2>4, <2>5, <2>6
<1>3. CASE ContentEndTag
  <2>1. tagStack # <<>>
    BY <1>3 DEF ContentEndTag
  <2>2. Len(SubSeq(tagStack, 1, Len(tagStack) - 1)) = Len(tagStack) - 1
    BY <1>t, <2>1, FrontOf
  <2>3. tagStack' = SubSeq(tagStack, 1, Len(tagStack) - 1)
    BY <1>3 DEF ContentEndTag, PopTag
  <2>4. pool' = [pool EXCEPT !.freeTags = @ + 1]
    BY <1>3 DEF ContentEndTag, PopTag
  <2>5. pool'.tags = pool.tags /\ pool'.freeTags = pool.freeTags + 1
    BY <1>t, <2>4
  <2>6. Len(tagStack') = Len(tagStack) - 1
    BY <2>2, <2>3, Zenon
  <2>7. QED
    BY <1>t, <2>5, <2>6 DEF TagsConserved
<1>4. CASE ReturnFromContent
  <2>1. Len(tagStack') = Len(tagStack)
    BY <1>4, <1>t, StoreRawNamesTyped DEF ReturnFromContent
  <2>2. QED
    BY <1>1, <1>4, <2>1 DEF ReturnFromContent
<1>5. ASSUME NEW n \in 0..Len(doc), NEW p \in BOOLEAN, NEW final \in BOOLEAN,
             NEW moved \in BOOLEAN, XML_ParseBuffer(n, p, final, moved)
      PROVE  TagsConserved'
  <2>1. \A i \in 1..Len(tagStack) : tagStack[i] \in TagRecords
    BY <1>t, ElementOfSeq
  <2>2. \A t \in TagRecords : [t EXCEPT !.raw = "stale"] \in TagRecords
    BY DEF TagRecords
  <2>3. tagStack' \in [1..Len(tagStack) -> TagRecords]
    BY <1>5, <2>1, <2>2 DEF XML_ParseBuffer
  <2>4. Len(tagStack') = Len(tagStack)
    BY <1>t, <2>3, EntryWise
  <2>5. QED
    BY <1>1, <1>5, <2>4 DEF XML_ParseBuffer
<1>6. CASE XML_ParserReset
  <2> DEFINE a == Len(tagStack)
             b == Len(openInternalEntities)
  <2>1. tagStack' = <<>> /\ pool' = [pool EXCEPT !.freeTags = @ + a, !.freeEntities = @ + b]
    BY <1>6 DEF XML_ParserReset, RecycleRecords
  <2>2. Len(tagStack') = 0
    BY <2>1, EmptySeq
  <2>3. pool'.tags = pool.tags /\ pool'.freeTags = pool.freeTags + a
    BY <1>t, <2>1
  <2>4. QED
    BY <1>t, <2>2, <2>3 DEF TagsConserved
<1>7. ASSUME UNCHANGED tagStack, pool'.tags = pool.tags, pool'.freeTags = pool.freeTags
      PROVE  TagsConserved'
  BY <1>1, <1>7
<1>8. CASE ContentEntityRef \/ ReturnFromEntity \/ ReturnFromResumedEntity
  <2>1. UNCHANGED tagStack
    BY <1>8 DEF ContentEntityRef, ReturnFromEntity, ReturnFromResumedEntity, Fail, tags
  <2>2. \/ UNCHANGED pool
        \/ pool' = [pool EXCEPT !.freeEntities = @ + 1]
        \/ pool' = [pool EXCEPT !.freeEntities = @ - 1]
        \/ pool' = [pool EXCEPT !.entities = @ + 1]
    BY <1>8 DEF ContentEntityRef, ReturnFromEntity, ReturnFromResumedEntity, Fail, OpenEntity,
                CloseEntity
  <2>3. pool'.tags = pool.tags /\ pool'.freeTags = pool.freeTags
    BY <1>t, <2>2
  <2>4. QED
    BY <1>7, <2>1, <2>3
<1>9. CASE UNCHANGED <<tagStack, pool>>
  BY <1>7, <1>9
<1>10. CASE ContentEndOfText \/ ContentPartial \/ ContentTrailing \/ ContentInvalid
            \/ ContentData \/ ContentEmptyElement \/ ContentEndTagAsync
            \/ ContentEndTagNoElement \/ ContentCdataOpen
  BY <1>9, <1>10 DEF ContentEndOfText, ContentPartial, ContentTrailing, ContentInvalid,
     ContentData, ContentEmptyElement, ContentEndTagAsync, ContentEndTagNoElement,
     ContentCdataOpen, Fail, tags
<1>11. CASE DoCdataSection \/ DoProlog \/ DoEpilog \/ ExternalEntityInit
  BY <1>9, <1>11 DEF DoCdataSection, CdataEndOfText, CdataInvalid, CdataText, CdataClose,
     DoProlog, PrologWait, PrologRefuse, PrologMisc, PrologInstanceStart, DoEpilog,
     EpilogEndOfText, EpilogTrailing, EpilogMisc, EpilogRefuse, ExternalEntityInit, Fail, tags
<1>12. CASE ReturnFromCdata \/ ReturnFromTail \/ ReturnFromCdataProcessor \/ FinishCall
  BY <1>9, <1>12 DEF ReturnFromCdata, ReturnFromTail, ReturnFromCdataProcessor, FinishCall, tags
<1>13. CASE XML_ParseEnd \/ XML_ParseNothing \/ XML_ParseRefused \/ XML_ResumeParser
            \/ XML_ResumeRefused \/ XML_StopParser
  BY <1>9, <1>13 DEF XML_ParseEnd, XML_ParseNothing, XML_ParseRefused, XML_ResumeParser,
     XML_ResumeRefused, XML_StopParser, tags
<1>14. QED
  BY <1>2, <1>3, <1>4, <1>5, <1>6, <1>8, <1>10, <1>11, <1>12, <1>13
     DEF Next, Step, DoContent, Returns, Application, Feed

LEMMA InitPhaseSteps ==
  ASSUME TypeOK, InitPhase, Step, ~FinishCall, ~ExternalEntityInit
  PROVE  processor' = InitFn <=> processor = InitFn
<1>1. CASE processor # InitFn
  BY <1>1, RunningStep
<1>2. CASE processor = InitFn
  <2>1. cstack # <<>>
    BY RunningStep
  <2>2. Len(cstack) \in 1..Len(cstack) /\ Top = cstack[Len(cstack)]
    BY <2>1, TopFrame DEF TypeOK
  <2>3. Top.fn = InitFn /\ Top.by = "processor"
    BY <1>2, <2>2 DEF InitPhase, InitFn
  <2>4. ReturnFromTail
    BY <2>3 DEF Step, InitFn, DoContent, ContentEndOfText, ContentPartial,
       ContentTrailing, ContentInvalid, ContentData, ContentEntityRef, ContentStartTag,
       ContentEmptyElement, ContentEndTag, ContentEndTagAsync, ContentEndTagNoElement,
       ContentCdataOpen, DoCdataSection, CdataEndOfText, CdataInvalid, CdataText,
       CdataClose, DoProlog, PrologWait, PrologRefuse, PrologMisc, PrologInstanceStart,
       DoEpilog, EpilogEndOfText, EpilogTrailing, EpilogMisc, EpilogRefuse, Running,
       Returns, ReturnFromCdata, ReturnFromEntity, ReturnFromResumedEntity,
       ReturnFromContent, ReturnFromCdataProcessor, Returning
  <2>5. QED
    BY <1>2, <2>4 DEF ReturnFromTail, api
<1>3. QED
  BY <1>1, <1>2

LEMMA TagLevelPreserved ==
  ASSUME TypeOK, InitPhase, ErrorQuiet, Idling, TagLevelCountsStack, Next
  PROVE  TagLevelCountsStack'
<1>t. tagStack \in Seq(TagRecords) /\ Len(tagStack) \in Nat /\ tagLevel \in Nat
  BY LenProperties DEF TypeOK, TagsOK
<1>0. CASE XML_ParserReset
  <2>1. tagLevel' = 0 /\ tagStack' = <<>>
    BY <1>0 DEF XML_ParserReset, RecycleRecords
  <2>2. ~IsExternal'
    BY <1>0 DEF XML_ParserReset, IsExternal
  <2>3. QED
    BY <2>1, <2>2, EmptySeq DEF TagLevelCountsStack
<1>d. SUFFICES ASSUME ~XML_ParserReset PROVE TagLevelCountsStack'
  BY <1>0
<1>e. IsExternal' <=> IsExternal
  BY <1>d, DocumentKept DEF IsExternal
<1>1. ASSUME tagLevel' = tagLevel, Len(tagStack') = Len(tagStack), Failed => Failed',
             processor' = InitFn <=> processor = InitFn
      PROVE  TagLevelCountsStack'
  BY <1>1, <1>e DEF TagLevelCountsStack, InitFn
<1>2. CASE Step /\ ~FinishCall
  <2>1. cstack # <<>> /\ processor # "errorProcessor"
    BY <1>2, RunningStep DEF ErrorQuiet
  <2>2. ASSUME NEW fn, Running(fn)
        PROVE  ~Failed
    BY <2>1, <2>2 DEF Running, Failed, Pending
  <2>3. CASE ContentStartTag
    <3>1. Running("doContent") /\ Tok(Top).k = "start" /\ PushTag(Tok(Top).n)
      BY <2>3 DEF ContentStartTag
    <3>2. NewTag(Tok(Top).n) \in TagRecords
      <4>1. Tok(Top) \in TokenRecords
        BY <3>1, Working
      <4>2. Tok(Top).n \in Names
        BY <3>1, <4>1, TokenNames
      <4>3. QED
        BY <4>2 DEF NewTag, TagRecords
    <3>3. Len(tagStack') = Len(tagStack) + 1 /\ tagLevel' = tagLevel + 1
      BY <1>t, <3>1, <3>2, Appended DEF PushTag
    <3>4. ~Failed
      BY <2>2, <3>1
    <3>5. processor' = InitFn <=> processor = InitFn
      BY <1>2, <2>3, InitPhaseSteps DEF ContentStartTag, ExternalEntityInit, Running
    <3>6. QED
      BY <1>e, <1>t, <3>3, <3>4, <3>5 DEF TagLevelCountsStack, InitFn
  <2>4. CASE ContentEndTag
    <3>1. Running("doContent") /\ tagStack # <<>> /\ PopTag
      BY <2>4 DEF ContentEndTag
    <3>2. ~Failed
      BY <2>2, <3>1
    <3>3. processor' = InitFn <=> processor = InitFn
      BY <1>2, <2>4, InitPhaseSteps DEF ContentEndTag, ExternalEntityInit, Running
    <3>4. Len(SubSeq(tagStack, 1, Len(tagStack) - 1)) = Len(tagStack) - 1
      BY <1>t, <3>1, FrontOf
    <3>5. tagStack' = SubSeq(tagStack, 1, Len(tagStack) - 1)
      BY <3>1 DEF PopTag
    <3>6. Len(tagStack') = Len(tagStack) - 1
      BY <3>4, <3>5, Zenon
    <3>7. CASE Return("TAG_MISMATCH", Top.s)
      <4>1. result'.err = "TAG_MISMATCH"
        BY <3>7 DEF Return, Value
      <4>2. QED
        BY <4>1 DEF TagLevelCountsStack, Failed
    <3>8. CASE tagLevel' = tagLevel - 1
      BY <1>e, <1>t, <3>2, <3>3, <3>6, <3>8 DEF TagLevelCountsStack, InitFn
    <3>9. QED
      BY <2>4, <3>7, <3>8 DEF ContentEndTag
  <2>5. CASE ExternalEntityInit
    <3>1. Running(InitFn) /\ ~Failed
      BY <2>2, <2>5 DEF ExternalEntityInit, InitFn
    <3>2. Len(cstack) \in 1..Len(cstack) /\ Top = cstack[Len(cstack)] /\ Top.fn = InitFn
      BY <2>1, <3>1, TopFrame DEF TypeOK, Running
    <3>3. processor = InitFn /\ IsExternal /\ tagStack = <<>>
      BY <3>2 DEF InitPhase, InitFn
    <3>4. CASE UNCHANGED <<processor, tagLevel>>
      BY <1>1, <2>5, <3>1, <3>4 DEF ExternalEntityInit
    <3>5. CASE processor' = "externalEntityContentProcessor" /\ tagLevel' = 1
      <4>1. tagStack' = <<>>
        BY <2>5, <3>3 DEF ExternalEntityInit
      <4>2. QED
        BY <1>e, <3>3, <3>5, <4>1, EmptySeq DEF TagLevelCountsStack
    <3>6. QED
      BY <2>5, <3>4, <3>5 DEF ExternalEntityInit
  <2>6. CASE Returns
    <3>1. processor' = InitFn <=> processor = InitFn
      BY <1>2, <2>6, InitPhaseSteps DEF Returns, ReturnFromCdata, ReturnFromEntity,
         ReturnFromResumedEntity, ReturnFromContent, ReturnFromTail, ReturnFromCdataProcessor,
         Returning, ExternalEntityInit, Running
    <3>2. Failed => Failed'
      <4>1. ASSUME Failed
            PROVE  UNCHANGED result
        BY <2>1, <2>6, <4>1 DEF Failed, Returns, ReturnFromCdata, ReturnFromEntity,
           ReturnFromResumedEntity, ReturnFromContent, ReturnFromTail, ReturnFromCdataProcessor
      <4>2. QED
        BY <2>1, <4>1 DEF Failed
    <3>3. tagLevel' = tagLevel
      BY <2>6 DEF Returns, ReturnFromCdata, ReturnFromEntity, ReturnFromResumedEntity,
         ReturnFromContent, ReturnFromTail, ReturnFromCdataProcessor, tags
    <3>4. Len(tagStack') = Len(tagStack)
      <4>1. tagStack' = tagStack \/ tagStack' = StoreRawNames(tagStack)
        BY <2>6 DEF Returns, ReturnFromCdata, ReturnFromEntity, ReturnFromResumedEntity,
           ReturnFromContent, ReturnFromTail, ReturnFromCdataProcessor, tags
      <4>2. QED
        BY <1>t, <4>1, StoreRawNamesTyped
    <3>5. QED
      BY <1>1, <3>1, <3>2, <3>3, <3>4
  <2>7. CASE DoContent /\ ~ContentStartTag /\ ~ContentEndTag
    <3>1. UNCHANGED tags /\ Running("doContent")
      BY <2>7 DEF DoContent, ContentEndOfText, ContentPartial, ContentTrailing, ContentInvalid,
         ContentData, ContentEntityRef, ContentEmptyElement, ContentEndTagAsync,
         ContentEndTagNoElement, ContentCdataOpen, Fail
    <3>2. ~ExternalEntityInit
      BY <3>1 DEF ExternalEntityInit, Running
    <3>3. QED
      BY <1>1, <1>2, <2>2, <3>1, <3>2, InitPhaseSteps DEF tags
  <2>8. CASE DoCdataSection \/ DoProlog \/ DoEpilog
    <3>1. UNCHANGED tags /\ \E fn : fn # InitFn /\ Running(fn)
      BY <2>8 DEF DoCdataSection, CdataEndOfText, CdataInvalid, CdataText, CdataClose,
         DoProlog, PrologWait, PrologRefuse, PrologMisc, PrologInstanceStart, DoEpilog,
         EpilogEndOfText, EpilogTrailing, EpilogMisc, EpilogRefuse, Fail, InitFn
    <3>2. ~ExternalEntityInit
      BY <3>1 DEF ExternalEntityInit, Running, InitFn
    <3>3. QED
      BY <1>1, <1>2, <2>2, <3>1, <3>2, InitPhaseSteps DEF tags
  <2>9. QED
    BY <1>2, <2>3, <2>4, <2>5, <2>6, <2>7, <2>8 DEF Step
<1>3. CASE FinishCall
  <2>1. UNCHANGED tags /\ result' = Pending
    BY <1>3 DEF FinishCall
  <2>2. CASE processor' = "errorProcessor"
    BY <2>2 DEF TagLevelCountsStack, Failed
  <2>3. CASE result.err = "NONE" /\ processor' = processor /\ processor # "errorProcessor"
    BY <1>1, <2>1, <2>3 DEF tags, Failed
  <2>4. QED
    BY <1>3, <2>2, <2>3 DEF FinishCall, EnterError
<1>4. ASSUME NEW s, CallProcessor(s), Idle, tagLevel' = tagLevel, Len(tagStack') = Len(tagStack)
      PROVE  TagLevelCountsStack'
  <2>1. result = Pending
    BY <1>4 DEF Idling
  <2>2. CASE processor = "errorProcessor"
    <3>1. processor' = "errorProcessor"
      BY <1>4, <2>2 DEF CallProcessor
    <3>2. QED
      BY <3>1 DEF TagLevelCountsStack, Failed
  <2>3. CASE processor # "errorProcessor"
    <3>1. ~Failed
      BY <2>1, <2>3 DEF Failed, Pending
    <3>2. processor' = InitFn <=> processor = InitFn
      BY <1>4 DEF CallProcessor, InitFn
    <3>3. QED
      BY <1>1, <1>4, <3>1, <3>2
  <2>4. QED
    BY <2>2, <2>3
<1>5. ASSUME NEW n \in 0..Len(doc), NEW p \in BOOLEAN, NEW final \in BOOLEAN,
             NEW moved \in BOOLEAN, XML_ParseBuffer(n, p, final, moved)
      PROVE  TagLevelCountsStack'
  <2>1. \A i \in 1..Len(tagStack) : tagStack[i] \in TagRecords
    BY <1>t, ElementOfSeq
  <2>2. \A t \in TagRecords : [t EXCEPT !.raw = "stale"] \in TagRecords
    BY DEF TagRecords
  <2>3. tagStack' \in [1..Len(tagStack) -> TagRecords]
    BY <1>5, <2>1, <2>2 DEF XML_ParseBuffer
  <2>4. Len(tagStack') = Len(tagStack)
    BY <1>t, <2>3, EntryWise
  <2>5. QED
    BY <1>4, <1>5, <2>4 DEF XML_ParseBuffer
<1>6. CASE XML_ParseEnd \/ XML_ResumeParser
  BY <1>4, <1>6 DEF XML_ParseEnd, XML_ResumeParser, tags
<1>7. CASE XML_ParseNothing \/ XML_ParseRefused \/ XML_ResumeRefused \/ XML_StopParser
  BY <1>1, <1>7 DEF XML_ParseNothing, XML_ParseRefused, XML_ResumeRefused, XML_StopParser,
     tags, control, Failed
<1>8. QED
  BY <1>d, <1>2, <1>3, <1>5, <1>6, <1>7 DEF Next, Application, Feed

-----------------------------------------------------------------------------
(* The theorems.                                                             *)

LEMMA InitInv == Init => IndInv
<1> SUFFICES ASSUME Init PROVE IndInv
  OBVIOUS
<1>1. TypeOK
  BY InitTyped
<1>2. cstack = <<>> /\ Len(cstack) = 0 /\ tagStack = <<>> /\ Len(tagStack) = 0
  BY EmptySeq DEF Init
<1>3. HeldRecordsAreListed
  BY <1>2 DEF HeldRecordsAreListed
<1>4. InitPhase
  BY <1>2 DEF Init, InitPhase, InitialProcessor
<1>5. ErrorQuiet /\ Idling
  BY DEF Init, ErrorQuiet, Idling, InitialProcessor
<1>6. TagLevelCountsStack /\ TagsConserved
  BY <1>2 DEF Init, TagLevelCountsStack, TagsConserved, InitialProcessor
<1>7. QED
  BY <1>1, <1>3, <1>4, <1>5, <1>6 DEF IndInv

LEMMA NextTyped ==
  ASSUME TypeOK, HeldRecordsAreListed, InitPhase, ErrorQuiet, TagLevelCountsStack, Next
  PROVE  TypeOK'
  BY ContentTyped, CdataTyped, PrologTyped, EpilogTyped, ExternalEntityInitTyped, ReturnsTyped,
     FinishCallTyped, ApplicationTyped DEF Next, Step

LEMMA StutterInv ==
  ASSUME IndInv, UNCHANGED vars
  PROVE  IndInv'
<1>1. /\ UNCHANGED <<doc, avail, partial, finalBuffer, resets, processor, errorCode, bufferPtr>>
      /\ UNCHANGED <<call, status, verdict, tagLevel, tagStack, openInternalEntities>>
      /\ UNCHANGED <<entityOpen, processed, pool, cstack, result, events, parsing>>
  BY DEF vars, input, api, tags, entities, control, history
<1>2. TypeOK'
  BY <1>1 DEF IndInv, TypeOK, InputOK, ApiOK, TagsOK, EntitiesOK, PoolOK, ControlOK, HistoryOK
<1>3. HeldRecordsAreListed' /\ InitPhase'
  BY <1>1 DEF IndInv, HeldRecordsAreListed, InitPhase, IsExternal, Nested, HoldsRecord
<1>4. ErrorQuiet' /\ Idling' /\ TagLevelCountsStack' /\ TagsConserved'
  BY <1>1 DEF IndInv, ErrorQuiet, Idling, Idle, TagLevelCountsStack, IsExternal, Failed, TagsConserved
<1>5. QED
  BY <1>2, <1>3, <1>4 DEF IndInv

LEMMA NextInv ==
  ASSUME IndInv, [Next]_vars
  PROVE  IndInv'
<1>1. CASE UNCHANGED vars
  BY <1>1, StutterInv
<1>2. CASE Next
  <2>1. TypeOK'
    BY <1>2, NextTyped DEF IndInv
  <2>2. HeldRecordsAreListed'
    BY <1>2, NextShape, HeldRecordsPreserved DEF IndInv
  <2>3. InitPhase' /\ ErrorQuiet' /\ Idling'
    BY <1>2, InitPhasePreserved, ErrorQuietPreserved, IdlingPreserved DEF IndInv
  <2>4. TagLevelCountsStack' /\ TagsConserved'
    BY <1>2, TagLevelPreserved, TagsConservedPreserved DEF IndInv
  <2>5. QED
    BY <2>1, <2>2, <2>3, <2>4 DEF IndInv
<1>3. QED
  BY <1>1, <1>2

(* The invariant is inductive, whatever documents and entities there are.    *)
THEOREM Invariance == Spec => []IndInv
<1>1. Init => IndInv
  BY InitInv
<1>2. IndInv /\ [Next]_vars => IndInv'
  BY NextInv
<1>3. QED
  BY <1>1, <1>2, PTL DEF Spec

(* Every variable keeps its type; tagLevel and the free lists never go below *)
(* zero.                                                                     *)
THEOREM TypeCorrect == Spec => []TypeOK
<1>1. IndInv => TypeOK
  BY DEF IndInv
<1>2. QED
  BY <1>1, Invariance, PTL

(* An activation never unlinks a record that is no longer on                 *)
(* m_openInternalEntities.                                                   *)
THEOREM RecordsListed == Spec => []HeldRecordsAreListed
<1>1. IndInv => HeldRecordsAreListed
  BY DEF IndInv
<1>2. QED
  BY <1>1, Invariance, PTL

(* The level doContent decides by agrees with the stack it pops from.        *)
THEOREM LevelCounted == Spec => []TagLevelCountsStack
<1>1. IndInv => TagLevelCountsStack
  BY DEF IndInv
<1>2. QED
  BY <1>1, Invariance, PTL

(* No TAG record is lost, across errors, suspensions and resets.             *)
THEOREM TagsNotLost == Spec => []TagsConserved
<1>1. IndInv => TagsConserved
  BY DEF IndInv
<1>2. QED
  BY <1>1, Invariance, PTL

(* Once parsing has ended no callback is delivered until a reset.            *)
THEOREM EndIsFinal == Spec => ErrorIsFinal
<1>1. IndInv /\ [Next]_vars =>
        [verdict # "none" => parsing' = "INITIALIZED" \/ events' = events]_vars
  <2> SUFFICES ASSUME IndInv, Next, verdict # "none", parsing' # "INITIALIZED"
               PROVE  events' = events
    OBVIOUS
  <2>1. cstack = <<>>
    BY DEF IndInv, ErrorQuiet
  <2>2. ~(Step /\ ~FinishCall)
    BY <2>1, RunningStep DEF IndInv
  <2>3. FinishCall \/ Application
    BY <2>2 DEF Next
  <2>4. CASE FinishCall
    BY <2>4 DEF FinishCall
  <2>5. CASE Application
    BY <2>5 DEF Application, Feed, XML_ParseBuffer, XML_ParseEnd, XML_ParseNothing,
       XML_ParseRefused, XML_ResumeParser, XML_ResumeRefused, XML_StopParser,
       XML_ParserReset, history
  <2>6. QED
    BY <2>3, <2>4, <2>5
<1>2. QED
  BY <1>1, Invariance, PTL DEF Spec, ErrorIsFinal

=============================================================================
