------------------------------- MODULE ByteFifo -------------------------------
(***************************************************************************)
(* What the users of bipbuffer.c rely on: an unbounded byte queue whose    *)
(* consumer may hold a view of a prefix.  The view's bytes stay what they  *)
(* were until the consumer drops them, whatever the producer appends.      *)
(***************************************************************************)
EXTENDS Naturals, Sequences

CONSTANTS Val, MaxReq

VARIABLES queue,    \* the bytes appended and not yet consumed
          view,     \* the bytes the consumer is reading, <<>> if none
          sent      \* the bytes the producer handed over last

vars == <<queue, view, sent>>

Init == queue = <<>> /\ view = <<>> /\ sent = <<>>

Send(s) == queue' = queue \o s /\ sent' = s /\ UNCHANGED view

\* The consumer sees a non-empty prefix, not necessarily everything.
View(n) ==
    /\ view = <<>>
    /\ view' = SubSeq(queue, 1, n)
    /\ UNCHANGED <<queue, sent>>

\* It drops some of what it saw; what it dropped is what it read.
Consume(n) ==
    /\ SubSeq(queue, 1, n) = SubSeq(view, 1, n)
    /\ queue' = SubSeq(queue, n + 1, Len(queue))
    /\ view' = <<>>
    /\ UNCHANGED sent

Next ==
    \/ \E n \in 1 .. MaxReq : \E s \in [1 .. n -> Val] : Send(s)
    \/ \E n \in 1 .. Len(queue) : View(n)
    \/ \E n \in 1 .. Len(view) : Consume(n)

Spec == Init /\ [][Next]_vars
=============================================================================
