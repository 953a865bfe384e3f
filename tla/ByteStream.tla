------------------------------ MODULE ByteStream ------------------------------
(***************************************************************************)
(* What the parse buffer promises: the bytes handed over wait, in order,   *)
(* until a processor has consumed them, whatever memory they lie in.  A    *)
(* byte is named by its index in the document.                             *)
(***************************************************************************)
EXTENDS Integers

CONSTANT MaxBytes     \* of a document

VARIABLES
  accepted,     \* how many bytes of the document have been handed over
  consumed,     \* how many of them the processors are done with
  unread        \* the others, as the next processor finds them

vars == <<accepted, consumed, unread>>

Empty == [i \in 0..-1 |-> 0]

Init == accepted = 0 /\ consumed = 0 /\ unread = Empty

(* XML_Parse or XML_ParseBuffer with n more bytes.                           *)
Accept(n) ==
  /\ accepted + n <= MaxBytes
  /\ accepted' = accepted + n
  /\ unread' = [i \in 0..(accepted + n - consumed - 1) |->
                  IF i < accepted - consumed THEN unread[i] ELSE consumed + i]
  /\ UNCHANGED consumed

(* A call returns that has read n bytes.                                     *)
Consume(n) ==
  /\ consumed' = consumed + n
  /\ unread' = [i \in 0..(accepted - consumed - n - 1) |-> unread[i + n]]
  /\ UNCHANGED accepted

(* XML_ParserReset.                                                          *)
Restart == accepted' = 0 /\ consumed' = 0 /\ unread' = Empty

Next ==
  \/ \E n \in 0..MaxBytes : Accept(n)
  \/ \E n \in 0..(accepted - consumed) : Consume(n)
  \/ Restart

Spec == Init /\ [][Next]_vars

=============================================================================
