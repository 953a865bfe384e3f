----------------------------- MODULE InputBuffer -----------------------------
(***************************************************************************)
(* The parse buffer: XML_GetBuffer makes room behind the bytes not read    *)
(* yet, by moving them, with some of the bytes read before, to the front   *)
(* or into a larger buffer; XML_ParseBuffer and XML_ResumeParser run the   *)
(* processor over what is there.  XML_Parse with data is XML_GetBuffer, a  *)
(* memcpy and XML_ParseBuffer.                                             *)
(*                                                                         *)
(* Pointers are offsets from m_buffer.  A byte is its index in the         *)
(* document.  The processor is any that reads the bytes in order.          *)
(***************************************************************************)
EXTENDS Integers

CONSTANTS
  ContextBytes,     \* XML_CONTEXT_BYTES
  InitBufferSize,   \* INIT_BUFFER_SIZE
  IntMax,           \* INT_MAX
  MaxLen,           \* the most bytes one call asks room for
  MaxInput,         \* the longest document
  MaxResets         \* calls of XML_ParserReset
ASSUME ContextAssumption == ContextBytes \in Nat
ASSUME SizeAssumption == InitBufferSize \in Nat \ {0} /\ IntMax \in Nat
ASSUME BoundAssumption == MaxLen \in Nat /\ MaxInput \in Nat /\ MaxResets \in Nat

VARIABLES
  allocated, memory,                  \* m_buffer # NULL, what it holds
  bufferPtr, bufferEnd, bufferLim,    \* m_bufferPtr, m_bufferEnd, m_bufferLim
  parseEndPtr, parseEndByteIndex,     \* m_parseEndPtr, m_parseEndByteIndex
  eventPtr, positionPtr,              \* m_eventPtr, m_positionPtr
  parsing, finalBuffer,               \* m_parsingStatus
  failed,                             \* m_processor is errorProcessor
  running,                            \* a processor is at work
  noData,                             \* for the last call of XML_Parse, with no data
  granted,                            \* room the application was given
  undefined,                          \* the build decides what happened
  resets

memoryVars == <<allocated, memory, bufferPtr, bufferEnd, bufferLim>>
pointerVars == <<parseEndPtr, parseEndByteIndex, eventPtr, positionPtr>>
callVars == <<parsing, finalBuffer, failed, running, noData>>
vars == <<memoryVars, pointerVars, callVars, granted, undefined, resets>>

Null == -1
Stale == -2         \* points into a buffer that has been moved or freed
Unset == -1         \* a byte no call has written for this document

Statuses == {"INITIALIZED", "PARSING", "SUSPENDED", "FINISHED"}
Accepting == ~running /\ ~undefined /\ parsing \notin {"SUSPENDED", "FINISHED"}

Unread == bufferEnd - bufferPtr
At(p) == IF allocated THEN p ELSE Null

-----------------------------------------------------------------------------
Init ==
  /\ allocated = FALSE /\ memory = [i \in 0..-1 |-> Unset]
  /\ bufferPtr = 0 /\ bufferEnd = 0 /\ bufferLim = 0
  /\ parseEndPtr = Null /\ parseEndByteIndex = 0
  /\ eventPtr = Null /\ positionPtr = Null
  /\ parsing = "INITIALIZED" /\ finalBuffer = FALSE
  /\ failed = FALSE /\ running = FALSE /\ noData = FALSE
  /\ granted = 0 /\ undefined = FALSE /\ resets = 0

(* XML_GetBuffer(len).                                                       *)
\* Mutant: no context is kept.
KeepNone == 0
Keep == IF bufferPtr > ContextBytes THEN ContextBytes ELSE bufferPtr

\* Mutant: the room for the context is forgotten.
NeededUnread(len) == len + Unread
Needed(len) == len + Unread + Keep

(* The sizes the loop that doubles may come to before the int overflows.     *)
Doublings(size) == {s \in 1..IntMax : \E k \in 1..IntMax : s = size * 2^k}
Room == IF bufferLim = bufferPtr THEN InitBufferSize ELSE bufferLim - bufferPtr
NewSize(len, size) ==
  /\ size \in Doublings(Room) /\ size >= Needed(len)
  /\ \A s \in Doublings(Room) : s >= Needed(len) => size <= s

(* The last keep bytes read and the unread ones, as the first of a buffer of *)
(* that size; the rest of it is as it was.                                   *)
\* Mutant: the context is not among the bytes that are copied.
MovedUnread(size, old) ==
  [i \in 0..(size - 1) |->
     IF i < Unread + Keep THEN (IF i < Unread THEN memory[bufferPtr + i] ELSE Unset) ELSE old[i]]
Moved(size, old) ==
  [i \in 0..(size - 1) |-> IF i < Unread + Keep THEN memory[bufferPtr - Keep + i] ELSE old[i]]

\* Mutant: the event pointer goes on pointing where it did.
ForgetPosition ==
  /\ positionPtr' = Null
  /\ parseEndPtr' = Stale
  /\ UNCHANGED <<eventPtr, parseEndByteIndex>>
ForgetPointers ==
  /\ eventPtr' = Null /\ positionPtr' = Null
  /\ parseEndPtr' = Stale
  /\ UNCHANGED parseEndByteIndex

\* Mutant: the bytes not read yet are taken for room.
FitsRead(len) == len <= bufferLim - bufferPtr
Fits(len) == len <= bufferLim - bufferEnd

GetRoom(len) ==
  /\ Accepting /\ Fits(len)
  /\ granted' = len
  /\ UNCHANGED <<memoryVars, pointerVars, callVars, undefined, resets>>

Enlarges(len) ==
  Accepting /\ ~Fits(len) /\ len + Unread <= IntMax /\ Needed(len) <= IntMax

ShiftData(len) ==
  /\ Enlarges(len) /\ Needed(len) <= bufferLim /\ Keep < bufferPtr
  /\ memory' = Moved(bufferLim, memory)
  /\ bufferEnd' = bufferEnd - (bufferPtr - Keep)
  /\ bufferPtr' = Keep
  /\ ForgetPointers
  /\ granted' = len
  /\ UNCHANGED <<allocated, bufferLim, callVars, undefined, resets>>

\* Mutant: the context is taken for unread.
NewBufferAtStart(len) ==
  /\ Enlarges(len) /\ Needed(len) > bufferLim
  /\ \E size \in 1..IntMax :
       /\ NewSize(len, size)
       /\ memory' = Moved(size, [i \in 0..(size - 1) |-> Unset])
       /\ bufferLim' = size
  /\ allocated' = TRUE
  /\ bufferEnd' = Unread + Keep
  /\ bufferPtr' = 0
  /\ ForgetPointers
  /\ granted' = len
  /\ UNCHANGED <<callVars, undefined, resets>>
NewBuffer(len) ==
  /\ Enlarges(len) /\ Needed(len) > bufferLim
  /\ \E size \in 1..IntMax :
       /\ NewSize(len, size)
       /\ memory' = Moved(size, [i \in 0..(size - 1) |-> Unset])
       /\ bufferLim' = size
  /\ allocated' = TRUE
  /\ bufferEnd' = Unread + Keep
  /\ bufferPtr' = Keep
  /\ ForgetPointers
  /\ granted' = len
  /\ UNCHANGED <<callVars, undefined, resets>>

(* NULL is returned: the sum or the size overflows, or there is no memory.   *)
(* The application may call again; XML_Parse has set the status before it    *)
(* asked for room.                                                           *)
NoMemory(len) ==
  /\ Accepting /\ ~Fits(len)
  /\ len + Unread > IntMax \/ (Enlarges(len) /\ Needed(len) > bufferLim)
  /\ parsing' \in {parsing, "PARSING"}
  /\ UNCHANGED <<memoryVars, pointerVars, finalBuffer, failed, running, noData,
                 granted, undefined, resets>>

(* neededSize += keep overflows, which no check precedes.                    *)
Overflows(len) ==
  /\ Accepting /\ ~Fits(len) /\ len + Unread <= IntMax /\ Needed(len) > IntMax
  /\ undefined' = TRUE
  /\ UNCHANGED <<memoryVars, pointerVars, callVars, granted, resets>>

XML_GetBuffer(len) ==
  GetRoom(len) \/ ShiftData(len) \/ NewBuffer(len) \/ NoMemory(len) \/ Overflows(len)

-----------------------------------------------------------------------------
(* The application has written the next n bytes of the document, or XML_Parse*)
(* has; the processor is called.                                             *)
XML_ParseBuffer(n, isFinal) ==
  /\ Accepting /\ n <= granted /\ parseEndByteIndex + n <= MaxInput
  /\ memory' = [i \in 0..(bufferLim - 1) |->
                  IF i \in bufferEnd..(bufferEnd + n - 1)
                  THEN parseEndByteIndex + (i - bufferEnd) ELSE memory[i]]
  /\ bufferEnd' = bufferEnd + n
  /\ parseEndPtr' = bufferEnd + n
  /\ parseEndByteIndex' = parseEndByteIndex + n
  /\ positionPtr' = At(bufferPtr)
  /\ parsing' = "PARSING" /\ finalBuffer' = isFinal /\ running' = TRUE
  /\ granted' = 0
  /\ UNCHANGED <<allocated, bufferPtr, bufferLim, eventPtr, failed, noData, undefined, resets>>

(* XML_Parse with no data.                                                   *)
XML_ParseNothing ==
  /\ Accepting
  /\ parsing' = "PARSING" /\ finalBuffer' = FALSE
  /\ UNCHANGED <<memoryVars, pointerVars, failed, running, noData, granted, undefined, resets>>

XML_ParseEnd ==
  /\ Accepting
  /\ positionPtr' = At(bufferPtr) /\ parseEndPtr' = bufferEnd
  /\ parsing' = "PARSING" /\ finalBuffer' = TRUE
  /\ running' = TRUE /\ noData' = TRUE
  /\ UNCHANGED <<memoryVars, eventPtr, parseEndByteIndex, failed, granted, undefined, resets>>

XML_ResumeParser ==
  /\ ~running /\ ~undefined /\ parsing = "SUSPENDED"
  /\ parsing' = "PARSING" /\ running' = TRUE
  /\ UNCHANGED <<memoryVars, pointerVars, finalBuffer, failed, noData, granted, undefined, resets>>

-----------------------------------------------------------------------------
(* The processor comes to a token, and its handler may ask for the line.     *)
Event(p) ==
  /\ running /\ ~failed /\ allocated
  /\ p \in bufferPtr..parseEndPtr /\ p >= eventPtr
  /\ eventPtr' = p
  /\ UNCHANGED <<memoryVars, parseEndPtr, parseEndByteIndex, positionPtr, callVars,
                 granted, undefined, resets>>

XML_GetCurrentLineNumber ==
  /\ ~undefined /\ eventPtr # Null /\ eventPtr >= positionPtr
  /\ positionPtr' = eventPtr
  /\ UNCHANGED <<memoryVars, parseEndPtr, parseEndByteIndex, eventPtr, callVars,
                 granted, undefined, resets>>

(* The processor returns XML_ERROR_NONE and has read up to q; a handler may  *)
(* have suspended the parser, or stopped it without anyone noticing.  The    *)
(* position moves on unless the document is over; after an abort it does so  *)
(* too, except in the call with no data.                                     *)
Return(q) ==
  /\ running /\ ~failed
  /\ q \in bufferPtr..parseEndPtr /\ q >= eventPtr
  /\ running' = FALSE /\ noData' = FALSE
  /\ bufferPtr' = q
  /\ \/ /\ parsing' = (IF finalBuffer THEN "FINISHED" ELSE "PARSING")
        /\ positionPtr' = (IF finalBuffer THEN positionPtr ELSE At(q))
     \/ parsing' = "SUSPENDED" /\ positionPtr' = At(q)
     \/ parsing' = "FINISHED" /\ positionPtr' = (IF noData THEN positionPtr ELSE At(q))
  /\ UNCHANGED <<allocated, memory, bufferEnd, bufferLim, parseEndPtr, parseEndByteIndex,
                 eventPtr, finalBuffer, failed, granted, undefined, resets>>

(* It returns an error, perhaps after a handler has suspended or aborted the *)
(* parser; whether it has set *nextPtr by then depends on the error.         *)
ReturnError(q) ==
  /\ running
  /\ q \in bufferPtr..parseEndPtr
  /\ failed => q = bufferPtr
  /\ running' = FALSE /\ noData' = FALSE /\ failed' = TRUE
  /\ parsing' \in {"PARSING", "SUSPENDED", "FINISHED"}
  /\ bufferPtr' = q
  /\ UNCHANGED <<allocated, memory, bufferEnd, bufferLim, pointerVars, finalBuffer,
                 granted, undefined, resets>>

XML_ParserReset ==
  /\ ~running /\ ~undefined /\ resets < MaxResets
  /\ memory' = [i \in 0..(bufferLim - 1) |-> Unset]
  /\ bufferPtr' = 0 /\ bufferEnd' = 0
  /\ parseEndPtr' = Null /\ parseEndByteIndex' = 0
  /\ eventPtr' = Null /\ positionPtr' = Null
  /\ parsing' = "INITIALIZED" /\ failed' = FALSE
  /\ granted' = 0 /\ resets' = resets + 1
  /\ UNCHANGED <<allocated, bufferLim, finalBuffer, running, noData, undefined>>

Next ==
  \/ \E len \in 0..MaxLen : XML_GetBuffer(len)
  \/ \E n \in 0..MaxLen, isFinal \in BOOLEAN : XML_ParseBuffer(n, isFinal)
  \/ XML_ParseNothing
  \/ XML_ParseEnd
  \/ XML_ResumeParser
  \/ \E p \in 0..bufferEnd : Event(p)
  \/ XML_GetCurrentLineNumber
  \/ \E q \in 0..bufferEnd : Return(q)
  \/ \E q \in 0..bufferEnd : ReturnError(q)
  \/ XML_ParserReset

Spec == Init /\ [][Next]_vars

-----------------------------------------------------------------------------
(* The pointers are in order and inside of the buffer.                       *)
TypeOK ==
  /\ {allocated, finalBuffer, failed, running, noData, undefined} \subseteq BOOLEAN
  /\ bufferLim \in Nat /\ bufferEnd \in 0..bufferLim /\ bufferPtr \in 0..bufferEnd
  /\ memory \in [0..(bufferLim - 1) -> Nat \cup {Unset}]
  /\ parseEndByteIndex \in Nat /\ parseEndPtr \in Nat \cup {Null, Stale}
  /\ eventPtr \in Nat \cup {Null} /\ positionPtr \in Nat \cup {Null}
  /\ parsing \in Statuses
  /\ granted \in Nat /\ resets \in Nat

(* The buffer holds the last bytes of the document that were handed over, in *)
(* order, through every move, whichever of them have been read: that is what *)
(* XML_GetInputContext shows and what the processors read.                   *)
BufferHoldsInput ==
  /\ bufferEnd <= parseEndByteIndex
  /\ \A i \in 0..(bufferEnd - 1) : memory[i] = parseEndByteIndex - bufferEnd + i

(* The application, or the memcpy of XML_Parse, has the room it asked for.   *)
RoomGranted == bufferEnd + granted <= bufferLim

(* In front of the next byte the buffer keeps ContextBytes bytes of context, *)
(* or all there are.                                                         *)
ContextKept ==
  LET consumed == parseEndByteIndex - Unread
  IN  bufferPtr >= (IF consumed < ContextBytes THEN consumed ELSE ContextBytes)

(* XML_GetCurrentByteIndex and the line number work on pointers saved        *)
(* earlier: if there is an event it lies in the buffer of now, and so do the *)
(* pointers it is compared with; a call and a resume run over the buffer up  *)
(* to its end.                                                               *)
XML_GetCurrentByteIndex ==
  IF eventPtr = Null THEN -1 ELSE parseEndByteIndex - (parseEndPtr - eventPtr)
EventLocated ==
  /\ eventPtr # Null =>
       /\ eventPtr <= bufferEnd /\ positionPtr \in 0..bufferEnd
       /\ eventPtr < bufferEnd => XML_GetCurrentByteIndex = memory[eventPtr]
  /\ running \/ parsing = "SUSPENDED" => parseEndPtr = bufferEnd

(* The bytes wait in the buffer as in the stream of ByteStream: making room  *)
(* does not change what is unread, a call that is refused changes nothing.   *)
Stream == INSTANCE ByteStream WITH
  MaxBytes <- MaxInput,
  accepted <- parseEndByteIndex,
  consumed <- parseEndByteIndex - (bufferEnd - bufferPtr),
  unread <- [i \in 0..(bufferEnd - bufferPtr - 1) |-> memory[bufferPtr + i]]
ImplementsByteStream == Stream!Spec

=============================================================================
