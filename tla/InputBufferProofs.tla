-------------------------- MODULE InputBufferProofs --------------------------
(***************************************************************************)
(* Theorems about InputBuffer, for every size of the buffer, the context   *)
(* and the integers, and any number of bytes and resets.                   *)
(***************************************************************************)
EXTENDS InputBuffer, TLAPS

(* What the properties leave unsaid: a document is at most MaxInput bytes,   *)
(* the pointers of an event go with those it is compared with, and a call    *)
(* that runs or waits to be resumed has a position to count from.            *)
Counted == parseEndByteIndex \in 0..MaxInput
EventsCompared ==
  /\ eventPtr # Null => allocated /\ parseEndPtr = bufferEnd
  /\ allocated /\ (running \/ parsing = "SUSPENDED") => positionPtr \in 0..bufferEnd

IInv ==
  /\ TypeOK /\ BufferHoldsInput /\ RoomGranted /\ ContextKept /\ EventLocated
  /\ Counted /\ EventsCompared

-----------------------------------------------------------------------------
(* The number of bytes kept for context.                                     *)
LEMMA KeepRange ==
  ASSUME TypeOK
  PROVE  Keep \in 0..bufferPtr /\ Keep <= ContextBytes
                /\ (Keep < bufferPtr => Keep = ContextBytes)
  BY ContextAssumption, SMT DEF TypeOK, Keep

(* What Moved makes of the contents: the bytes that follow one another still *)
(* do, from the context on.                                                  *)
LEMMA MovedContents ==
  ASSUME TypeOK, BufferHoldsInput,
         NEW size \in Nat, Unread + Keep <= size,
         NEW old \in [0..(size - 1) -> Nat \cup {Unset}]
  PROVE  /\ Moved(size, old) \in [0..(size - 1) -> Nat \cup {Unset}]
         /\ \A i \in 0..(Unread + Keep - 1) :
              /\ Moved(size, old)[i] = memory[bufferPtr - Keep + i]
              /\ Moved(size, old)[i] = parseEndByteIndex - (Unread + Keep) + i
<1> DEFINE M == Moved(size, old)
<1>1. Keep \in 0..bufferPtr BY KeepRange
<1>2. Unread \in Nat /\ bufferEnd = bufferPtr + Unread BY DEF TypeOK, Unread
<1>3. ASSUME NEW i \in 0..(Unread + Keep - 1)
      PROVE  /\ bufferPtr - Keep + i \in 0..(bufferEnd - 1)
             /\ memory[bufferPtr - Keep + i] = parseEndByteIndex - (Unread + Keep) + i
  <2>1. bufferPtr - Keep + i \in 0..(bufferEnd - 1) BY <1>1, <1>2, <1>3 DEF TypeOK
  <2>2. memory[bufferPtr - Keep + i] = parseEndByteIndex - bufferEnd + (bufferPtr - Keep + i)
    BY <2>1 DEF BufferHoldsInput
  <2> QED BY <1>1, <1>2, <2>1, <2>2 DEF TypeOK
<1>4. ASSUME NEW i \in 0..(size - 1)
      PROVE  M[i] = IF i < Unread + Keep THEN memory[bufferPtr - Keep + i] ELSE old[i]
  BY <1>4 DEF Moved
<1>5. ASSUME NEW i \in 0..(size - 1) PROVE M[i] \in Nat \cup {Unset}
  <2>1. CASE i < Unread + Keep
    <3>1. bufferPtr - Keep + i \in 0..(bufferLim - 1) BY <1>1, <1>2, <1>3, <2>1 DEF TypeOK
    <3> QED BY <1>4, <2>1, <3>1 DEF TypeOK
  <2>2. CASE ~(i < Unread + Keep) BY <1>4, <2>2
  <2> QED BY <2>1, <2>2
<1>6. M \in [0..(size - 1) -> Nat \cup {Unset}]
  <2>1. M = [i \in 0..(size - 1) |-> M[i]] BY DEF Moved
  <2> QED BY <1>5, <2>1
<1>7. ASSUME NEW i \in 0..(Unread + Keep - 1)
      PROVE  M[i] = memory[bufferPtr - Keep + i]
  BY <1>1, <1>2, <1>4 DEF TypeOK
<1> QED BY <1>3, <1>6, <1>7

-----------------------------------------------------------------------------
LEMMA InitInv == Init => IInv
<1> SUFFICES ASSUME Init PROVE IInv OBVIOUS
<1>1. TypeOK
  <2>1. memory \in [0..(bufferLim - 1) -> Nat \cup {Unset}]
    <3>1. bufferLim - 1 = -1 BY DEF Init
    <3> QED BY <3>1 DEF Init
  <2>2. {allocated, finalBuffer, failed, running, noData, undefined} \subseteq BOOLEAN BY DEF Init
  <2> QED BY <2>1, <2>2 DEF Init, TypeOK, Statuses
<1>2. BufferHoldsInput /\ RoomGranted /\ EventLocated
  BY SMT DEF Init, BufferHoldsInput, RoomGranted, EventLocated, Null
<1>3. ContextKept BY ContextAssumption, SMT DEF Init, ContextKept, Unread
<1>4. Counted /\ EventsCompared BY BoundAssumption, SMT DEF Init, Counted, EventsCompared, Null
<1> QED BY <1>1, <1>2, <1>3, <1>4 DEF IInv

(* A step that leaves the buffer and its pointers alone.                     *)
LEMMA SameBuffer ==
  ASSUME IInv, UNCHANGED memoryVars, UNCHANGED pointerVars,
         running' = running, parsing' \in Statuses \ {"SUSPENDED"},
         {finalBuffer', failed', noData', undefined'} \subseteq BOOLEAN,
         granted' \in Nat, bufferEnd + granted' <= bufferLim, resets' \in Nat
  PROVE  IInv'
<1> USE DEF memoryVars, pointerVars
<1>1. TypeOK' BY SMT DEF IInv, TypeOK
<1>2. BufferHoldsInput' /\ ContextKept' BY SMT DEF IInv, BufferHoldsInput, ContextKept, Unread
<1>3. RoomGranted' BY DEF RoomGranted
<1>4. EventLocated' BY SMT DEF IInv, EventLocated, XML_GetCurrentByteIndex, TypeOK
<1>5. Counted' /\ EventsCompared' BY SMT DEF IInv, Counted, EventsCompared
<1> QED BY <1>1, <1>2, <1>3, <1>4, <1>5 DEF IInv

LEMMA UnchangedInv == ASSUME IInv, UNCHANGED vars PROVE IInv'
<1>1. UNCHANGED memoryVars /\ UNCHANGED pointerVars /\ UNCHANGED callVars
      /\ UNCHANGED <<granted, undefined, resets>>
  BY DEF vars
<1> USE <1>1 DEF memoryVars, pointerVars, callVars
<1>2. TypeOK' BY SMT DEF IInv, TypeOK
<1>3. BufferHoldsInput' /\ ContextKept' /\ RoomGranted'
  BY SMT DEF IInv, BufferHoldsInput, ContextKept, Unread, RoomGranted
<1>4. EventLocated' BY SMT DEF IInv, EventLocated, XML_GetCurrentByteIndex
<1>5. Counted' /\ EventsCompared' BY SMT DEF IInv, Counted, EventsCompared
<1> QED BY <1>2, <1>3, <1>4, <1>5 DEF IInv

LEMMA GetRoomStep ==
  ASSUME IInv, NEW len \in 0..MaxLen, GetRoom(len)
  PROVE  IInv'
<1>1. /\ UNCHANGED memoryVars /\ UNCHANGED pointerVars /\ UNCHANGED callVars
      /\ granted' = len /\ parsing # "SUSPENDED" /\ len <= bufferLim - bufferEnd
      /\ undefined' = undefined /\ resets' = resets
  BY DEF GetRoom, Accepting, Fits
<1>2. /\ parsing' \in Statuses \ {"SUSPENDED"} /\ running' = running
      /\ {finalBuffer', failed', noData', undefined'} \subseteq BOOLEAN /\ resets' \in Nat
  BY <1>1 DEF IInv, TypeOK, callVars
<1>3. granted' \in Nat /\ bufferEnd + granted' <= bufferLim
  BY <1>1, BoundAssumption DEF IInv, TypeOK
<1> QED BY <1>1, <1>2, <1>3, SameBuffer

(* Room made by a move: the buffer begins with the context.                  *)
LEMMA MoveStep ==
  ASSUME IInv, NEW len \in 0..MaxLen, ~running, parsing # "SUSPENDED",
         UNCHANGED callVars, UNCHANGED <<undefined, resets>>,
         NEW old \in [0..(bufferLim' - 1) -> Nat \cup {Unset}],
         bufferLim' \in Nat, Needed(len) <= bufferLim',
         memory' = Moved(bufferLim', old), allocated' \in BOOLEAN,
         bufferEnd' = Unread + Keep, bufferPtr' = Keep,
         ForgetPointers, granted' = len
  PROVE  IInv'
<1>1. Keep \in 0..bufferPtr /\ (Keep < bufferPtr => Keep = ContextBytes)
  BY KeepRange DEF IInv
<1>2. Unread \in Nat /\ bufferEnd = bufferPtr + Unread BY DEF IInv, TypeOK, Unread
<1>3. len \in Nat /\ len + Unread + Keep <= bufferLim' BY BoundAssumption DEF Needed
<1>4. /\ memory' \in [0..(bufferLim' - 1) -> Nat \cup {Unset}]
      /\ \A i \in 0..(Unread + Keep - 1) : memory'[i] = parseEndByteIndex - (Unread + Keep) + i
  <2>1. Unread + Keep <= bufferLim' BY <1>1, <1>2, <1>3
  <2> QED BY <2>1, MovedContents DEF IInv
<1>5. /\ eventPtr' = Null /\ positionPtr' = Null /\ parseEndPtr' = Stale
      /\ parseEndByteIndex' = parseEndByteIndex
  BY DEF ForgetPointers
<1>6. TypeOK'
  <2>1. bufferLim' \in Nat /\ bufferEnd' \in 0..bufferLim' /\ bufferPtr' \in 0..bufferEnd'
    BY <1>1, <1>2, <1>3 DEF IInv, TypeOK
  <2>2. /\ {allocated', finalBuffer', failed', running', noData', undefined'} \subseteq BOOLEAN
        /\ parsing' \in Statuses /\ granted' \in Nat /\ resets' \in Nat
    BY <1>3 DEF IInv, TypeOK, callVars
  <2> QED BY <1>4, <1>5, <2>1, <2>2 DEF TypeOK, IInv
<1>7. BufferHoldsInput'
  <2>1. bufferEnd' <= bufferEnd BY <1>1, <1>2 DEF IInv, TypeOK
  <2>2. bufferEnd' \in Nat BY <1>1, <1>2
  <2>3. bufferEnd' <= parseEndByteIndex' BY <1>5, <2>1, <2>2 DEF IInv, TypeOK, BufferHoldsInput
  <2>4. \A i \in 0..(bufferEnd' - 1) : memory'[i] = parseEndByteIndex' - bufferEnd' + i
    <3>1. \A i \in 0..(bufferEnd' - 1) : i \in 0..(Unread + Keep - 1)
      BY <1>1, <1>2 DEF IInv, TypeOK
    <3>2. ASSUME NEW i \in 0..(bufferEnd' - 1)
          PROVE  memory'[i] = parseEndByteIndex - (Unread + Keep) + i
      BY <1>4, <3>1
    <3> QED BY <1>5, <3>2
  <2> QED BY <2>3, <2>4 DEF BufferHoldsInput
<1>8. RoomGranted' BY <1>1, <1>2, <1>3 DEF RoomGranted, IInv, TypeOK
<1>9. ContextKept'
  <2>1. Unread' = Unread BY <1>1, <1>2 DEF Unread, IInv, TypeOK
  <2>2. ContextKept BY DEF IInv
  <2> QED BY <1>1, <1>2, <1>5, <2>1, <2>2, ContextAssumption, SMT DEF ContextKept, IInv, TypeOK
<1>10. EventLocated' /\ EventsCompared'
  BY <1>5 DEF EventLocated, EventsCompared, callVars
<1>11. Counted' BY <1>5 DEF Counted, IInv
<1> QED BY <1>6, <1>7, <1>8, <1>9, <1>10, <1>11 DEF IInv

LEMMA ShiftDataStep ==
  ASSUME IInv, NEW len \in 0..MaxLen, ShiftData(len)
  PROVE  IInv'
<1>1. /\ ~running /\ parsing # "SUSPENDED"
      /\ UNCHANGED callVars /\ UNCHANGED <<undefined, resets>>
  BY DEF ShiftData, Enlarges, Accepting
<1>2. /\ bufferLim' = bufferLim /\ allocated' = allocated
      /\ Needed(len) <= bufferLim /\ memory' = Moved(bufferLim, memory)
      /\ bufferEnd' = bufferEnd - (bufferPtr - Keep) /\ bufferPtr' = Keep
      /\ ForgetPointers /\ granted' = len
  BY DEF ShiftData
<1>3. bufferEnd' = Unread + Keep
  BY <1>2, KeepRange DEF IInv, TypeOK, Unread
<1>4. bufferLim' \in Nat /\ allocated' \in BOOLEAN
      /\ memory \in [0..(bufferLim' - 1) -> Nat \cup {Unset}]
  BY <1>2 DEF IInv, TypeOK
<1> QED BY <1>1, <1>2, <1>3, <1>4, MoveStep

LEMMA NewBufferStep ==
  ASSUME IInv, NEW len \in 0..MaxLen, NewBuffer(len)
  PROVE  IInv'
<1>1. /\ ~running /\ parsing # "SUSPENDED"
      /\ UNCHANGED callVars /\ UNCHANGED <<undefined, resets>>
  BY DEF NewBuffer, Enlarges, Accepting
<1>2. PICK size \in 1..IntMax :
        /\ NewSize(len, size)
        /\ memory' = Moved(size, [i \in 0..(size - 1) |-> Unset])
        /\ bufferLim' = size
  BY DEF NewBuffer
<1>3. /\ allocated' = TRUE /\ bufferEnd' = Unread + Keep /\ bufferPtr' = Keep
      /\ ForgetPointers /\ granted' = len
  BY DEF NewBuffer
<1>4. size \in Nat BY SizeAssumption
<1>5. Needed(len) <= size
  <2>1. Needed(len) \in Int
    BY KeepRange, BoundAssumption DEF Needed, IInv, TypeOK, Unread
  <2> QED BY <1>2, <1>4, <2>1 DEF NewSize
<1>6. [i \in 0..(size - 1) |-> Unset] \in [0..(size - 1) -> Nat \cup {Unset}] OBVIOUS
<1> QED BY <1>1, <1>2, <1>3, <1>4, <1>5, <1>6, MoveStep

LEMMA NoMemoryStep ==
  ASSUME IInv, NEW len \in 0..MaxLen, NoMemory(len)
  PROVE  IInv'
<1>1. /\ UNCHANGED memoryVars /\ UNCHANGED pointerVars
      /\ UNCHANGED <<finalBuffer, failed, running, noData, granted, undefined, resets>>
      /\ parsing' \in {parsing, "PARSING"} /\ parsing # "SUSPENDED"
  BY DEF NoMemory, Accepting
<1>2. /\ parsing' \in Statuses \ {"SUSPENDED"}
      /\ {finalBuffer', failed', noData', undefined'} \subseteq BOOLEAN /\ resets' \in Nat
  BY <1>1 DEF IInv, TypeOK, Statuses
<1>3. granted' \in Nat /\ bufferEnd + granted' <= bufferLim
  BY <1>1 DEF IInv, TypeOK, RoomGranted
<1> QED BY <1>1, <1>2, <1>3, SameBuffer

LEMMA OverflowsStep ==
  ASSUME IInv, NEW len \in 0..MaxLen, Overflows(len)
  PROVE  IInv'
<1>1. /\ UNCHANGED memoryVars /\ UNCHANGED pointerVars /\ UNCHANGED callVars
      /\ granted' = granted /\ parsing # "SUSPENDED" /\ undefined' = TRUE /\ resets' = resets
  BY DEF Overflows, Accepting
<1>2. /\ parsing' \in Statuses \ {"SUSPENDED"} /\ running' = running
      /\ {finalBuffer', failed', noData', undefined'} \subseteq BOOLEAN /\ resets' \in Nat
  BY <1>1 DEF IInv, TypeOK, callVars
<1>3. granted' \in Nat /\ bufferEnd + granted' <= bufferLim
  BY <1>1 DEF IInv, TypeOK, RoomGranted
<1> QED BY <1>1, <1>2, <1>3, SameBuffer

-----------------------------------------------------------------------------
LEMMA ParseBufferStep ==
  ASSUME IInv, NEW n \in 0..MaxLen, NEW isFinal \in BOOLEAN, XML_ParseBuffer(n, isFinal)
  PROVE  IInv'
<1> USE DEF IInv
<1>1. /\ bufferEnd' = bufferEnd + n /\ bufferPtr' = bufferPtr /\ bufferLim' = bufferLim
      /\ parseEndPtr' = bufferEnd + n /\ parseEndByteIndex' = parseEndByteIndex + n
      /\ allocated' = allocated /\ eventPtr' = eventPtr /\ positionPtr' = At(bufferPtr)
      /\ granted' = 0 /\ parsing' = "PARSING" /\ running' = TRUE
  BY DEF XML_ParseBuffer
<1>2. n \in Nat /\ bufferEnd + n <= bufferLim /\ parseEndByteIndex + n <= MaxInput
  BY BoundAssumption DEF XML_ParseBuffer, RoomGranted, TypeOK
<1>3. \A i \in 0..(bufferLim - 1) :
        memory'[i] = IF i \in bufferEnd..(bufferEnd + n - 1)
                     THEN parseEndByteIndex + (i - bufferEnd) ELSE memory[i]
  BY DEF XML_ParseBuffer
<1>4. memory' \in [0..(bufferLim' - 1) -> Nat \cup {Unset}]
  <2>1. \A i \in bufferEnd..(bufferEnd + n - 1) : parseEndByteIndex + (i - bufferEnd) \in Nat
    BY <1>2 DEF TypeOK
  <2>2. \A i \in 0..(bufferLim - 1) : memory'[i] \in Nat \cup {Unset}
    BY <1>3, <2>1 DEF TypeOK
  <2>3. memory' = [i \in 0..(bufferLim - 1) |-> memory'[i]] BY DEF XML_ParseBuffer
  <2> QED BY <1>1, <2>2, <2>3
<1>5. positionPtr' \in Nat \cup {Null} /\ (allocated => positionPtr' = bufferPtr)
  BY <1>1 DEF At, TypeOK
<1>6. TypeOK'
  <2>1. bufferLim' \in Nat /\ bufferEnd' \in 0..bufferLim' /\ bufferPtr' \in 0..bufferEnd'
    BY <1>1, <1>2 DEF TypeOK
  <2>2. parseEndByteIndex' \in Nat /\ parseEndPtr' \in Nat BY <1>1, <1>2 DEF TypeOK
  <2>3. /\ {allocated', finalBuffer', failed', running', noData', undefined'} \subseteq BOOLEAN
        /\ parsing' \in Statuses /\ granted' \in Nat /\ resets' \in Nat
    BY <1>1 DEF XML_ParseBuffer, TypeOK, Statuses
  <2> QED BY <1>1, <1>4, <1>5, <2>1, <2>2, <2>3 DEF TypeOK
<1>7. BufferHoldsInput'
  <2>1. bufferEnd' <= parseEndByteIndex' BY <1>1, <1>2 DEF TypeOK, BufferHoldsInput
  <2>2. ASSUME NEW i \in 0..(bufferEnd' - 1)
        PROVE  memory'[i] = parseEndByteIndex' - bufferEnd' + i
    <3>1. i \in 0..(bufferLim - 1) BY <1>1, <1>2 DEF TypeOK
    <3>2. CASE i >= bufferEnd
      <4>1. memory'[i] = parseEndByteIndex + (i - bufferEnd) BY <1>1, <1>2, <1>3, <3>1, <3>2 DEF TypeOK
      <4> QED BY SMTT(40), <1>1, <1>2, <3>1, <4>1 DEF TypeOK
    <3>3. CASE i < bufferEnd
      <4>1. memory'[i] = memory[i] BY <1>2, <1>3, <3>1, <3>3 DEF TypeOK
      <4>2. memory[i] = parseEndByteIndex - bufferEnd + i BY <3>3 DEF BufferHoldsInput, TypeOK
      <4> QED BY <1>1, <1>2, <4>1, <4>2 DEF TypeOK
    <3> QED BY <3>2, <3>3 DEF TypeOK
  <2> QED BY <2>1, <2>2 DEF BufferHoldsInput
<1>8. RoomGranted' BY <1>1, <1>2 DEF RoomGranted, TypeOK
<1>9. ContextKept'
  <2>1. parseEndByteIndex' - Unread' = parseEndByteIndex - Unread
    BY <1>1, <1>2 DEF Unread, TypeOK
  <2> QED BY <1>1, <2>1 DEF ContextKept
<1>10. EventLocated'
  <2>1. ASSUME eventPtr' # Null
        PROVE  /\ eventPtr' <= bufferEnd' /\ positionPtr' \in 0..bufferEnd'
               /\ eventPtr' < bufferEnd' => XML_GetCurrentByteIndex' = memory'[eventPtr']
    <3>1. eventPtr \in Nat /\ eventPtr <= bufferEnd /\ allocated
      BY <1>1, <2>1 DEF EventLocated, EventsCompared, TypeOK
    <3>2. XML_GetCurrentByteIndex' = parseEndByteIndex + n - (bufferEnd + n - eventPtr)
      <4>1. eventPtr' = eventPtr /\ eventPtr' # Null BY <1>1, <2>1
      <4>2. XML_GetCurrentByteIndex' = parseEndByteIndex' - (parseEndPtr' - eventPtr')
        BY <4>1 DEF XML_GetCurrentByteIndex
      <4> QED BY <1>1, <1>2, <3>1, <4>1, <4>2 DEF TypeOK
    <3>3. eventPtr' < bufferEnd' => memory'[eventPtr] = parseEndByteIndex' - bufferEnd' + eventPtr
      <4>1. \A i \in 0..(bufferEnd' - 1) : memory'[i] = parseEndByteIndex' - bufferEnd' + i
        BY <1>7 DEF BufferHoldsInput
      <4>2. eventPtr < bufferEnd' => eventPtr \in 0..(bufferEnd' - 1)
        BY <1>1, <1>2, <3>1 DEF TypeOK
      <4> QED BY <1>1, <4>1, <4>2
    <3>4. eventPtr' <= bufferEnd' /\ positionPtr' \in 0..bufferEnd'
      <4>1. bufferEnd \in Nat /\ bufferPtr \in 0..bufferEnd BY DEF TypeOK
      <4> QED BY <1>1, <1>2, <1>5, <3>1, <4>1
    <3>5. parseEndByteIndex + n - (bufferEnd + n - eventPtr)
            = parseEndByteIndex' - bufferEnd' + eventPtr
      <4>1. bufferEnd \in Nat /\ parseEndByteIndex \in Nat BY DEF TypeOK
      <4> QED BY <1>1, <1>2, <3>1, <4>1
    <3> QED BY <1>1, <3>2, <3>3, <3>4, <3>5
  <2> QED BY <1>1, <2>1 DEF EventLocated
<1>11. EventsCompared'
  BY <1>1, <1>2, <1>5 DEF EventsCompared, TypeOK
<1>12. Counted' BY <1>1, <1>2 DEF Counted
<1> QED BY <1>6, <1>7, <1>8, <1>9, <1>10, <1>11, <1>12

LEMMA ParseNothingStep == ASSUME IInv, XML_ParseNothing PROVE IInv'
<1>1. /\ UNCHANGED memoryVars /\ UNCHANGED pointerVars /\ running' = running
      /\ parsing' = "PARSING" /\ finalBuffer' = FALSE
      /\ UNCHANGED <<failed, noData, undefined, granted, resets>>
  BY DEF XML_ParseNothing
<1>2. /\ parsing' \in Statuses \ {"SUSPENDED"}
      /\ {finalBuffer', failed', noData', undefined'} \subseteq BOOLEAN /\ resets' \in Nat
  BY <1>1 DEF IInv, TypeOK, Statuses
<1>3. granted' \in Nat /\ bufferEnd + granted' <= bufferLim
  BY <1>1 DEF IInv, TypeOK, RoomGranted
<1> QED BY <1>1, <1>2, <1>3, SameBuffer

(* A step that leaves the buffer as it is, and the event in it.              *)
LEMMA SameContents ==
  ASSUME IInv, UNCHANGED memoryVars, UNCHANGED <<parseEndByteIndex, eventPtr, resets>>,
         {finalBuffer', failed', running', noData', undefined'} \subseteq BOOLEAN, parsing' \in Statuses,
         granted' = granted,
         parseEndPtr' = parseEndPtr \/ parseEndPtr' = bufferEnd,
         positionPtr' \in Nat \cup {Null},
         running' \/ parsing' = "SUSPENDED" => parseEndPtr' = bufferEnd,
         allocated /\ (running' \/ parsing' = "SUSPENDED" \/ eventPtr # Null) =>
           positionPtr' \in 0..bufferEnd
  PROVE  IInv'
<1> USE DEF IInv, memoryVars
<1>1. TypeOK'
  <2>1. parseEndPtr' \in Nat \cup {Null, Stale} BY DEF TypeOK
  <2> QED BY <2>1, SMT DEF TypeOK
<1>2. BufferHoldsInput' /\ ContextKept' BY SMT DEF BufferHoldsInput, ContextKept, Unread
<1>3. RoomGranted' /\ Counted' BY DEF RoomGranted, Counted
<1>4. EventLocated'
  <2>1. eventPtr # Null => allocated /\ parseEndPtr' = bufferEnd /\ parseEndPtr = bufferEnd
    BY DEF EventsCompared
  <2>2. eventPtr # Null => XML_GetCurrentByteIndex' = XML_GetCurrentByteIndex
    BY <2>1 DEF XML_GetCurrentByteIndex
  <2> QED BY <2>1, <2>2 DEF EventLocated
<1>5. EventsCompared' BY DEF EventsCompared
<1> QED BY <1>1, <1>2, <1>3, <1>4, <1>5

LEMMA ParseEndStep == ASSUME IInv, XML_ParseEnd PROVE IInv'
<1>1. /\ UNCHANGED memoryVars /\ UNCHANGED <<parseEndByteIndex, eventPtr, resets>>
      /\ granted' = granted /\ parseEndPtr' = bufferEnd
  BY DEF XML_ParseEnd
<1>2. /\ {finalBuffer', failed', running', noData', undefined'} \subseteq BOOLEAN /\ parsing' \in Statuses
  BY DEF XML_ParseEnd, IInv, TypeOK, Statuses
<1>3. positionPtr' \in Nat \cup {Null} /\ (allocated => positionPtr' \in 0..bufferEnd)
  BY DEF XML_ParseEnd, IInv, TypeOK, At
<1> QED BY <1>1, <1>2, <1>3, SameContents

LEMMA ResumeStep == ASSUME IInv, XML_ResumeParser PROVE IInv'
<1>1. /\ UNCHANGED memoryVars /\ UNCHANGED <<parseEndByteIndex, eventPtr, resets>>
      /\ granted' = granted /\ parseEndPtr' = parseEndPtr /\ positionPtr' = positionPtr
      /\ parsing = "SUSPENDED"
  BY DEF XML_ResumeParser, pointerVars
<1>2. /\ {finalBuffer', failed', running', noData', undefined'} \subseteq BOOLEAN /\ parsing' \in Statuses
  BY DEF XML_ResumeParser, IInv, TypeOK, Statuses
<1>3. /\ positionPtr' \in Nat \cup {Null} /\ (allocated => positionPtr' \in 0..bufferEnd)
      /\ parseEndPtr' = bufferEnd
  BY <1>1 DEF IInv, TypeOK, EventLocated, EventsCompared
<1> QED BY <1>1, <1>2, <1>3, SameContents

LEMMA LineNumberStep == ASSUME IInv, XML_GetCurrentLineNumber PROVE IInv'
<1>1. /\ UNCHANGED memoryVars /\ UNCHANGED <<parseEndByteIndex, eventPtr, resets>>
      /\ granted' = granted /\ parseEndPtr' = parseEndPtr /\ UNCHANGED callVars
      /\ undefined' = undefined
      /\ positionPtr' = eventPtr /\ eventPtr # Null
  BY DEF XML_GetCurrentLineNumber
<1>2. /\ {finalBuffer', failed', running', noData', undefined'} \subseteq BOOLEAN /\ parsing' \in Statuses
      /\ running' = running /\ parsing' = parsing
  BY <1>1 DEF callVars, IInv, TypeOK
<1>3. /\ positionPtr' \in Nat \cup {Null} /\ positionPtr' \in 0..bufferEnd
      /\ parseEndPtr' = bufferEnd
  BY <1>1 DEF IInv, TypeOK, EventLocated, EventsCompared
<1> QED BY <1>1, <1>2, <1>3, SameContents

LEMMA EventStep == ASSUME IInv, NEW p \in 0..bufferEnd, Event(p) PROVE IInv'
<1> USE DEF IInv
<1>1. /\ UNCHANGED memoryVars /\ UNCHANGED callVars
      /\ UNCHANGED <<parseEndPtr, parseEndByteIndex, positionPtr, granted, undefined, resets>>
      /\ eventPtr' = p /\ running /\ allocated
  BY DEF Event
<1>2. p \in Nat /\ p <= bufferEnd /\ parseEndPtr = bufferEnd /\ positionPtr \in 0..bufferEnd
  BY <1>1 DEF TypeOK, EventLocated, EventsCompared
<1> USE DEF memoryVars, callVars
<1>3. TypeOK' BY <1>1, <1>2, SMT DEF TypeOK
<1>4. BufferHoldsInput' /\ ContextKept'
  BY <1>1, SMT DEF BufferHoldsInput, ContextKept, Unread
<1>5. RoomGranted' /\ Counted' BY <1>1 DEF RoomGranted, Counted
<1>6. EventLocated'
  <2>1. XML_GetCurrentByteIndex' = parseEndByteIndex - (bufferEnd - p)
    BY <1>1, <1>2 DEF XML_GetCurrentByteIndex, Null
  <2>2. p < bufferEnd => memory[p] = parseEndByteIndex - bufferEnd + p
    BY <1>2 DEF BufferHoldsInput, TypeOK
  <2> QED BY <1>1, <1>2, <2>1, <2>2, SMT DEF EventLocated, TypeOK
<1>7. EventsCompared' BY <1>1, <1>2 DEF EventsCompared
<1> QED BY <1>3, <1>4, <1>5, <1>6, <1>7

(* A processor has read up to q: the buffer is as it was, more of it read.   *)
LEMMA ReadStep ==
  ASSUME IInv, NEW q \in bufferPtr..bufferEnd, bufferPtr' = q,
         UNCHANGED <<allocated, memory, bufferEnd, bufferLim>>,
         UNCHANGED <<parseEndPtr, parseEndByteIndex, eventPtr>>,
         UNCHANGED <<finalBuffer, granted, undefined, resets>>,
         {failed', noData'} \subseteq BOOLEAN,
         running, running' = FALSE, parsing' \in Statuses,
         positionPtr' = positionPtr \/ positionPtr' = At(q)
  PROVE  IInv'
<1> USE DEF IInv
<1>1. q \in Nat /\ bufferPtr <= q /\ q <= bufferEnd BY DEF TypeOK
<1>2. /\ positionPtr' \in Nat \cup {Null}
      /\ allocated => positionPtr' \in 0..bufferEnd
  BY <1>1 DEF At, TypeOK, EventsCompared
<1>3. TypeOK'
  <2>1. /\ bufferPtr' \in 0..bufferEnd' /\ bufferLim' \in Nat /\ bufferEnd' \in 0..bufferLim'
    BY <1>1 DEF TypeOK
  <2>2. {allocated', finalBuffer', failed', running', noData', undefined'} \subseteq BOOLEAN
    BY DEF TypeOK
  <2>3. memory' \in [0..(bufferLim' - 1) -> Nat \cup {Unset}] BY DEF TypeOK
  <2> QED BY <1>2, <2>1, <2>2, <2>3 DEF TypeOK
<1>4. BufferHoldsInput' /\ RoomGranted' /\ Counted'
  BY DEF BufferHoldsInput, RoomGranted, Counted
<1>5. ContextKept'
  <2>1. parseEndByteIndex' - Unread' = parseEndByteIndex - Unread + (q - bufferPtr)
    BY <1>1 DEF Unread, TypeOK
  <2>2. parseEndByteIndex - Unread \in Int BY DEF Unread, TypeOK
  <2> QED BY <1>1, <2>1, <2>2, ContextAssumption, SMT DEF ContextKept, TypeOK
<1>6. parseEndPtr' = bufferEnd' BY DEF EventLocated
<1>7. EventLocated'
  <2>1. XML_GetCurrentByteIndex' = XML_GetCurrentByteIndex BY DEF XML_GetCurrentByteIndex
  <2> QED BY <1>2, <1>6, <2>1 DEF EventLocated, EventsCompared
<1>8. EventsCompared' BY <1>2, <1>6 DEF EventsCompared
<1> QED BY <1>3, <1>4, <1>5, <1>7, <1>8

LEMMA ReturnStep == ASSUME IInv, NEW q \in 0..bufferEnd, Return(q) PROVE IInv'
<1>1. /\ bufferPtr' = q /\ UNCHANGED <<allocated, memory, bufferEnd, bufferLim>>
      /\ UNCHANGED <<parseEndPtr, parseEndByteIndex, eventPtr>>
      /\ UNCHANGED <<finalBuffer, granted, undefined, resets>>
      /\ failed' = failed /\ noData' = FALSE /\ running /\ running' = FALSE
      /\ q \in bufferPtr..parseEndPtr
  BY DEF Return
<1>2. parsing' \in Statuses /\ (positionPtr' = positionPtr \/ positionPtr' = At(q))
  BY DEF Return, Statuses
<1>3. q \in bufferPtr..bufferEnd /\ {failed', noData'} \subseteq BOOLEAN
  BY <1>1 DEF IInv, EventLocated, TypeOK
<1> QED BY <1>1, <1>2, <1>3, ReadStep

LEMMA ReturnErrorStep == ASSUME IInv, NEW q \in 0..bufferEnd, ReturnError(q) PROVE IInv'
<1>1. /\ bufferPtr' = q /\ UNCHANGED <<allocated, memory, bufferEnd, bufferLim>>
      /\ UNCHANGED <<parseEndPtr, parseEndByteIndex, eventPtr>>
      /\ UNCHANGED <<finalBuffer, granted, undefined, resets>>
      /\ {failed', noData'} \subseteq BOOLEAN /\ running /\ running' = FALSE
      /\ q \in bufferPtr..parseEndPtr /\ positionPtr' = positionPtr
  BY DEF ReturnError, pointerVars
<1>2. parsing' \in Statuses BY DEF ReturnError, Statuses
<1>3. q \in bufferPtr..bufferEnd BY <1>1 DEF IInv, EventLocated
<1> QED BY <1>1, <1>2, <1>3, ReadStep

LEMMA ResetStep == ASSUME IInv, XML_ParserReset PROVE IInv'
<1>1. /\ bufferPtr' = 0 /\ bufferEnd' = 0 /\ bufferLim' = bufferLim /\ allocated' = allocated
      /\ parseEndPtr' = Null /\ parseEndByteIndex' = 0 /\ eventPtr' = Null /\ positionPtr' = Null
      /\ parsing' = "INITIALIZED" /\ failed' = FALSE /\ granted' = 0 /\ resets' = resets + 1
      /\ running' = running /\ ~running /\ noData' = noData
      /\ finalBuffer' = finalBuffer /\ undefined' = undefined
      /\ memory' = [i \in 0..(bufferLim - 1) |-> Unset]
  BY DEF XML_ParserReset
<1>2. TypeOK'
  <2>1. memory' \in [0..(bufferLim' - 1) -> Nat \cup {Unset}] BY <1>1
  <2>2. /\ {allocated', finalBuffer', failed', running', noData', undefined'} \subseteq BOOLEAN
        /\ parsing' \in Statuses /\ granted' \in Nat /\ resets' \in Nat
    <3>1. {allocated, finalBuffer, failed, running, noData, undefined} \subseteq BOOLEAN /\ resets \in Nat
      BY DEF IInv, TypeOK
    <3>2. {allocated', finalBuffer', failed', running', noData', undefined'} \subseteq BOOLEAN
      BY <1>1, <3>1
    <3>3. resets' \in Nat BY <1>1, <3>1
    <3> QED BY <1>1, <3>2, <3>3 DEF Statuses
  <2>3. bufferLim' \in Nat /\ bufferEnd' \in 0..bufferLim' /\ bufferPtr' \in 0..bufferEnd'
    BY <1>1 DEF IInv, TypeOK
  <2> QED BY <1>1, <2>1, <2>2, <2>3 DEF TypeOK
<1>3. BufferHoldsInput' BY <1>1 DEF BufferHoldsInput
<1>4. RoomGranted' BY <1>1 DEF RoomGranted, IInv, TypeOK
<1>5. ContextKept' BY <1>1, ContextAssumption, SMT DEF ContextKept, Unread
<1>6. EventLocated' /\ EventsCompared' BY <1>1 DEF EventLocated, EventsCompared
<1>7. Counted' BY <1>1, BoundAssumption DEF Counted
<1> QED BY <1>2, <1>3, <1>4, <1>5, <1>6, <1>7 DEF IInv

LEMMA NextInv == ASSUME IInv, [Next]_vars PROVE IInv'
<1>1. ASSUME NEW len \in 0..MaxLen, XML_GetBuffer(len) PROVE IInv'
  BY <1>1, GetRoomStep, ShiftDataStep, NewBufferStep, NoMemoryStep, OverflowsStep
     DEF XML_GetBuffer
<1>2. ASSUME NEW n \in 0..MaxLen, NEW isFinal \in BOOLEAN, XML_ParseBuffer(n, isFinal) PROVE IInv'
  BY <1>2, ParseBufferStep
<1>3. ASSUME NEW p \in 0..bufferEnd, Event(p) \/ Return(p) \/ ReturnError(p) PROVE IInv'
  BY <1>3, EventStep, ReturnStep, ReturnErrorStep
<1>4. CASE UNCHANGED vars BY <1>4, UnchangedInv
<1> QED BY <1>1, <1>2, <1>3, <1>4, ParseNothingStep, ParseEndStep, ResumeStep, LineNumberStep,
           ResetStep DEF Next

LEMMA SpecInv == Spec => []IInv
<1>1. Init => IInv BY InitInv
<1>2. IInv /\ [Next]_vars => IInv' BY NextInv
<1> QED BY <1>1, <1>2, PTL DEF Spec

(* The pointers of the parser stay in order and in the buffer, through every *)
(* move, call and reset.                                                     *)
THEOREM BufferTypeCorrect == Spec => []TypeOK
<1>1. IInv => TypeOK BY DEF IInv
<1> QED BY <1>1, SpecInv, PTL

(* XML_GetBuffer never loses, duplicates or reorders a byte it moves.        *)
THEOREM InputHeld == Spec => []BufferHoldsInput
<1>1. IInv => BufferHoldsInput BY DEF IInv
<1> QED BY <1>1, SpecInv, PTL

(* Whoever was given room by XML_GetBuffer has it until XML_ParseBuffer.     *)
THEOREM RoomIsThere == Spec => []RoomGranted
<1>1. IInv => RoomGranted BY DEF IInv
<1> QED BY <1>1, SpecInv, PTL

(* XML_CONTEXT_BYTES of context, or what there is, survive every move.       *)
THEOREM ContextIsKept == Spec => []ContextKept
<1>1. IInv => ContextKept BY DEF IInv
<1> QED BY <1>1, SpecInv, PTL

(* The pointers the position queries subtract point into one buffer, that of *)
(* now, so that XML_GetCurrentByteIndex names the byte of the event.         *)
THEOREM EventsAreLocated == Spec => []EventLocated
<1>1. IInv => EventLocated BY DEF IInv
<1> QED BY <1>1, SpecInv, PTL

-----------------------------------------------------------------------------
(* The refinement.                                                           *)
Consumed == parseEndByteIndex - (bufferEnd - bufferPtr)
UnreadBytes == [i \in 0..(bufferEnd - bufferPtr - 1) |-> memory[bufferPtr + i]]

LEMMA StreamInit == Init => Stream!Init
<1> SUFFICES ASSUME Init PROVE Stream!Init OBVIOUS
<1>1. parseEndByteIndex = 0 /\ Consumed = 0 /\ bufferEnd - bufferPtr - 1 = -1
  BY DEF Init, Consumed
<1>2. UnreadBytes = [i \in 0..-1 |-> 0]
  <2>1. \A i \in 0..-1 : FALSE OBVIOUS
  <2> QED BY <1>1, <2>1 DEF UnreadBytes
<1> QED BY <1>1, <1>2 DEF Stream!Init, Stream!Empty, Consumed, UnreadBytes

(* Steps that make no room and read nothing.                                 *)
LEMMA StreamSame ==
  ASSUME UNCHANGED <<memory, bufferPtr, bufferEnd, parseEndByteIndex>>
  PROVE  UNCHANGED Stream!vars
BY DEF Stream!vars

LEMMA StreamMove ==
  ASSUME IInv, NEW size \in Nat, Unread + Keep <= size,
         NEW old \in [0..(size - 1) -> Nat \cup {Unset}],
         memory' = Moved(size, old),
         bufferEnd' = Unread + Keep, bufferPtr' = Keep,
         parseEndByteIndex' = parseEndByteIndex
  PROVE  UNCHANGED Stream!vars
<1>1. Keep \in 0..bufferPtr BY KeepRange DEF IInv
<1>2. Unread \in Nat /\ Unread = bufferEnd - bufferPtr BY DEF IInv, TypeOK, Unread
<1>3. bufferEnd' - bufferPtr' = bufferEnd - bufferPtr BY <1>1, <1>2 DEF IInv, TypeOK
<1>4. \A i \in 0..(Unread + Keep - 1) : memory'[i] = memory[bufferPtr - Keep + i]
  BY MovedContents DEF IInv
<1>5. ASSUME NEW i \in 0..(bufferEnd - bufferPtr - 1)
      PROVE  memory'[bufferPtr' + i] = memory[bufferPtr + i]
  <2>1. Keep + i \in 0..(Unread + Keep - 1) BY <1>1, <1>2 DEF IInv, TypeOK
  <2>2. bufferPtr - Keep + (Keep + i) = bufferPtr + i BY <1>1, <1>2 DEF IInv, TypeOK
  <2> QED BY <1>4, <2>1, <2>2
<1>6. UnreadBytes' = UnreadBytes BY <1>3, <1>5 DEF UnreadBytes
<1>7. Consumed' = Consumed BY <1>3 DEF Consumed
<1> QED BY <1>6, <1>7 DEF Stream!vars, UnreadBytes, Consumed

LEMMA StreamAccept ==
  ASSUME IInv, NEW n \in 0..MaxLen, NEW isFinal \in BOOLEAN, XML_ParseBuffer(n, isFinal)
  PROVE  Stream!Next
<1>1. /\ bufferEnd' = bufferEnd + n /\ bufferPtr' = bufferPtr /\ n <= granted
      /\ parseEndByteIndex' = parseEndByteIndex + n /\ parseEndByteIndex + n <= MaxInput
  BY DEF XML_ParseBuffer
<1>2. n \in 0..MaxInput /\ bufferEnd + n <= bufferLim
  BY <1>1, BoundAssumption DEF IInv, TypeOK, RoomGranted
<1>3. Consumed' = Consumed BY <1>1, <1>2 DEF Consumed, IInv, TypeOK
<1>4. bufferEnd' - bufferPtr' = parseEndByteIndex + n - Consumed
  BY <1>1, <1>2 DEF Consumed, IInv, TypeOK
<1>5. parseEndByteIndex - Consumed = bufferEnd - bufferPtr BY DEF Consumed, IInv, TypeOK
<1>6. ASSUME NEW i \in 0..(bufferEnd' - bufferPtr' - 1)
      PROVE  memory'[bufferPtr' + i]
               = IF i < bufferEnd - bufferPtr THEN UnreadBytes[i] ELSE Consumed + i
  <2>1. /\ i \in Nat /\ bufferPtr + i \in 0..(bufferLim - 1)
        /\ (bufferPtr + i < bufferEnd <=> i < bufferEnd - bufferPtr)
        /\ bufferPtr + i <= bufferEnd + n - 1
    BY <1>1, <1>2 DEF IInv, TypeOK
  <2>2. ASSUME NEW j \in 0..(bufferLim - 1), j = bufferPtr + i
        PROVE  /\ j < bufferEnd => memory'[j] = memory[j]
               /\ j >= bufferEnd => memory'[j] = parseEndByteIndex + (j - bufferEnd)
    <3>1. memory'[j] = IF j \in bufferEnd..(bufferEnd + n - 1)
                       THEN parseEndByteIndex + (j - bufferEnd) ELSE memory[j]
      BY <2>2 DEF XML_ParseBuffer
    <3>2. j \in bufferEnd..(bufferEnd + n - 1) <=> j >= bufferEnd
      BY <1>2, <2>1, <2>2 DEF IInv, TypeOK
    <3> QED BY <1>2, <2>1, <2>2, <3>1, <3>2 DEF IInv, TypeOK
  <2>3. CASE i < bufferEnd - bufferPtr
    <3>1. memory'[bufferPtr + i] = memory[bufferPtr + i] BY <2>1, <2>2, <2>3
    <3>2. UnreadBytes[i] = memory[bufferPtr + i]
      <4>1. i \in 0..(bufferEnd - bufferPtr - 1) BY <2>1, <2>3 DEF IInv, TypeOK
      <4> QED BY <4>1 DEF UnreadBytes
    <3> QED BY <1>1, <2>3, <3>1, <3>2
  <2>4. CASE ~(i < bufferEnd - bufferPtr)
    <3>1. bufferPtr + i >= bufferEnd BY <2>1, <2>4 DEF IInv, TypeOK
    <3>2. PICK j \in 0..(bufferLim - 1) : j = bufferPtr + i BY <2>1
    <3>3. memory'[j] = parseEndByteIndex + (j - bufferEnd) BY <2>2, <3>1, <3>2
    <3>4. parseEndByteIndex + (j - bufferEnd) = Consumed + i
      BY <2>1, <3>2 DEF Consumed, IInv, TypeOK
    <3> QED BY <1>1, <2>4, <3>2, <3>3, <3>4
  <2> QED BY <2>3, <2>4
<1>7. UnreadBytes' = [i \in 0..(parseEndByteIndex + n - Consumed - 1) |->
                        IF i < parseEndByteIndex - Consumed THEN UnreadBytes[i] ELSE Consumed + i]
  <2> DEFINE rest(i) == IF i < parseEndByteIndex - Consumed THEN UnreadBytes[i] ELSE Consumed + i
  <2>1. \A i \in 0..(bufferEnd' - bufferPtr' - 1) : memory'[bufferPtr' + i] = rest(i)
    BY <1>5, <1>6
  <2>2. UnreadBytes' = [i \in 0..(bufferEnd' - bufferPtr' - 1) |-> memory'[bufferPtr' + i]]
    BY DEF UnreadBytes
  <2> HIDE DEF rest
  <2>3. 0..(bufferEnd' - bufferPtr' - 1) = 0..(parseEndByteIndex + n - Consumed - 1)
    BY <1>1, <1>2, <1>4 DEF IInv, TypeOK, Consumed
  <2>4. UnreadBytes' = [i \in 0..(parseEndByteIndex + n - Consumed - 1) |-> rest(i)]
    BY <2>1, <2>2, <2>3
  <2> QED BY <2>4 DEF rest
<1>8. Stream!Accept(n) BY <1>1, <1>3, <1>7 DEF Stream!Accept, Consumed, UnreadBytes
<1> QED BY <1>2, <1>8 DEF Stream!Next

LEMMA StreamConsume ==
  ASSUME IInv, NEW q \in bufferPtr..bufferEnd, bufferPtr' = q,
         UNCHANGED <<memory, bufferEnd, parseEndByteIndex>>
  PROVE  Stream!Next
<1>0. q - bufferPtr \in 0..(bufferEnd - bufferPtr) BY DEF IInv, TypeOK
<1>1. PICK n \in 0..(bufferEnd - bufferPtr) : n = q - bufferPtr BY <1>0
<1>2. Consumed' = Consumed + n BY <1>1 DEF Consumed, IInv, TypeOK
<1>3. parseEndByteIndex - Consumed = bufferEnd - bufferPtr BY DEF Consumed, IInv, TypeOK
<1>4. bufferEnd' - bufferPtr' = bufferEnd - bufferPtr - n BY <1>1 DEF IInv, TypeOK
<1>5. ASSUME NEW i \in 0..(bufferEnd - bufferPtr - n - 1)
      PROVE  memory'[bufferPtr' + i] = UnreadBytes[i + n]
  <2>1. i + n \in 0..(bufferEnd - bufferPtr - 1) BY <1>1 DEF IInv, TypeOK
  <2>2. bufferPtr + (i + n) = q + i BY <1>1 DEF IInv, TypeOK
  <2> QED BY <2>1, <2>2 DEF UnreadBytes
<1>6. UnreadBytes' = [i \in 0..(parseEndByteIndex - Consumed - n - 1) |-> UnreadBytes[i + n]]
  BY <1>3, <1>4, <1>5 DEF UnreadBytes
<1>7. Stream!Consume(n) BY <1>2, <1>6 DEF Stream!Consume, Consumed, UnreadBytes
<1>8. n \in 0..(parseEndByteIndex - (parseEndByteIndex - (bufferEnd - bufferPtr)))
  BY <1>1, <1>3 DEF Consumed
<1> QED BY <1>7, <1>8 DEF Stream!Next

LEMMA StreamRestart == ASSUME XML_ParserReset PROVE Stream!Next
<1>1. /\ parseEndByteIndex' = 0 /\ bufferPtr' = 0 /\ bufferEnd' = 0 BY DEF XML_ParserReset
<1>2. Consumed' = 0 /\ bufferEnd' - bufferPtr' - 1 = -1 BY <1>1 DEF Consumed
<1>3. UnreadBytes' = [i \in 0..-1 |-> 0]
  <2>1. \A i \in 0..-1 : FALSE OBVIOUS
  <2> QED BY <1>2, <2>1 DEF UnreadBytes
<1>4. Stream!Restart
  BY <1>1, <1>2, <1>3 DEF Stream!Restart, Stream!Empty, Consumed, UnreadBytes
<1> QED BY <1>4 DEF Stream!Next

LEMMA StreamStep == ASSUME IInv, [Next]_vars PROVE [Stream!Next]_(Stream!vars)
<1> USE DEF memoryVars, pointerVars
<1>1. ASSUME NEW len \in 0..MaxLen, XML_GetBuffer(len) PROVE UNCHANGED Stream!vars
  <2>1. CASE GetRoom(len) \/ Overflows(len) \/ NoMemory(len)
    BY <2>1, StreamSame DEF GetRoom, Overflows, NoMemory
  <2>3. len \in Nat /\ Keep \in Nat /\ Unread \in Nat
    BY BoundAssumption, KeepRange DEF IInv, TypeOK, Unread
  <2>4. CASE ShiftData(len)
    <3>1. /\ Needed(len) <= bufferLim /\ memory' = Moved(bufferLim, memory)
          /\ bufferEnd' = bufferEnd - (bufferPtr - Keep) /\ bufferPtr' = Keep
          /\ parseEndByteIndex' = parseEndByteIndex
      BY <2>4 DEF ShiftData, ForgetPointers
    <3>2. bufferEnd' = Unread + Keep BY SMTT(40), <2>3, <3>1 DEF IInv, TypeOK, Unread
    <3>3. Unread + Keep <= bufferLim BY <2>3, <3>1 DEF Needed, IInv, TypeOK
    <3>4. bufferLim \in Nat /\ memory \in [0..(bufferLim - 1) -> Nat \cup {Unset}]
      BY DEF IInv, TypeOK
    <3> QED BY <3>1, <3>2, <3>3, <3>4, StreamMove
  <2>5. CASE NewBuffer(len)
    <3>1. PICK size \in 1..IntMax :
            NewSize(len, size) /\ memory' = Moved(size, [i \in 0..(size - 1) |-> Unset])
      BY <2>5 DEF NewBuffer
    <3>2. /\ bufferEnd' = Unread + Keep /\ bufferPtr' = Keep
          /\ parseEndByteIndex' = parseEndByteIndex
      BY <2>5 DEF NewBuffer, ForgetPointers
    <3>3. size \in Nat /\ Unread + Keep <= size
      BY <2>3, <3>1, SizeAssumption DEF NewSize, Needed
    <3>4. [i \in 0..(size - 1) |-> Unset] \in [0..(size - 1) -> Nat \cup {Unset}] OBVIOUS
    <3> QED BY <3>1, <3>2, <3>3, <3>4, StreamMove
  <2> QED BY <1>1, <2>1, <2>4, <2>5 DEF XML_GetBuffer
<1>2. ASSUME NEW n \in 0..MaxLen, NEW isFinal \in BOOLEAN, XML_ParseBuffer(n, isFinal)
      PROVE  Stream!Next
  BY <1>2, StreamAccept
<1>3. CASE XML_ParseNothing \/ XML_ParseEnd \/ XML_ResumeParser
  BY <1>3, StreamSame DEF XML_ParseNothing, XML_ParseEnd, XML_ResumeParser
<1>4. CASE XML_GetCurrentLineNumber BY <1>4, StreamSame DEF XML_GetCurrentLineNumber
<1>5. ASSUME NEW p \in 0..bufferEnd, Event(p) PROVE UNCHANGED Stream!vars
  BY <1>5, StreamSame DEF Event
<1>6. ASSUME NEW q \in 0..bufferEnd, Return(q) \/ ReturnError(q) PROVE Stream!Next
  <2>1. /\ bufferPtr' = q /\ UNCHANGED <<memory, bufferEnd, parseEndByteIndex>>
        /\ running /\ q \in bufferPtr..parseEndPtr
    BY <1>6 DEF Return, ReturnError
  <2>2. q \in bufferPtr..bufferEnd BY <2>1 DEF IInv, EventLocated
  <2> QED BY <2>1, <2>2, StreamConsume
<1>7. CASE XML_ParserReset BY <1>7, StreamRestart
<1>8. CASE UNCHANGED vars BY <1>8, StreamSame DEF vars
<1> QED BY <1>1, <1>2, <1>3, <1>4, <1>5, <1>6, <1>7, <1>8 DEF Next

(* The parse buffer is a stream of bytes: making room, asking for a position,*)
(* suspending and resuming do not show in it.                                *)
THEOREM RefinesByteStream == Spec => ImplementsByteStream
<1>1. Init => Stream!Init BY StreamInit
<1>2. IInv /\ [Next]_vars => [Stream!Next]_(Stream!vars) BY StreamStep
<1> QED BY <1>1, <1>2, SpecInv, PTL DEF Spec, Stream!Spec, ImplementsByteStream

=============================================================================
