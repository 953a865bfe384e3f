--------------------------- MODULE DocumentReader ----------------------------
(***************************************************************************)
(* What expat promises of one document: its callbacks are delivered in     *)
(* document order, each once, and parsing ends when they are all out, with *)
(* success or with the error the document calls for.  When the application *)
(* aborts, in a callback or while parsing is suspended, that is how        *)
(* parsing ends, and at most what belongs to the callback follows; it ends *)
(* so only then.  Nothing here depends on how the document was cut into    *)
(* buffers or on how often parsing was suspended.                          *)
(***************************************************************************)
EXTENDS Integers, Sequences

CONSTANTS Docs, Script(_), Verdict(_)

VARIABLES
  doc, events,
  aborted,      \* the application has asked for the end
  verdict

vars == <<doc, events, aborted, verdict>>

Init == doc \in Docs /\ events = <<>> /\ aborted = FALSE /\ verdict = "none"

(* The callbacks of one token: an empty element has two.  After an abort at  *)
(* the start of a CDATA section the next token of the section has its own.   *)
Deliver ==
  /\ verdict = "none"
  /\ aborted => events # <<>> /\ events[Len(events)].k = "cdopen"
  /\ events' # events
  /\ \E n \in 1..2 :
       /\ Len(events) + n <= Len(Script(doc))
       /\ events' = SubSeq(Script(doc), 1, Len(events) + n)
  /\ aborted' \in {aborted, TRUE}
  /\ UNCHANGED <<doc, verdict>>

(* A document that was aborted in its last callback may still be refused, as *)
(* it would have been; it is not accepted.                                   *)
Decide ==
  /\ verdict = "none"
  /\ verdict' # "none"
  /\ events = Script(doc)
  /\ verdict' = IF Verdict(doc) = "NONE" THEN "ok" ELSE Verdict(doc)
  /\ aborted => verdict' # "ok"
  /\ aborted' = FALSE
  /\ UNCHANGED <<doc, events>>

(* The application has aborted in a callback, or does so now.                *)
GiveUp ==
  /\ verdict = "none"
  /\ aborted' = TRUE
  /\ verdict' = "ABORTED"
  /\ UNCHANGED <<doc, events>>

(* The next document, or the same one again.                                 *)
StartOver ==
  /\ events' = <<>> /\ aborted' = FALSE /\ verdict' = "none"
  /\ doc' = doc \/ doc' \in Docs

Next == Deliver \/ Decide \/ GiveUp \/ StartOver

Spec == Init /\ [][Next]_vars

=============================================================================
