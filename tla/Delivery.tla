------------------------------ MODULE Delivery ------------------------------
(* What a queue promises to those who send to it: a message that was sent  *)
(* is pending until it is settled, which is final.  MessageQueue           *)
(* implements it.                                                          *)
EXTENDS Naturals

CONSTANT MaxMessages

VARIABLES sent, pending, settled

Init == sent = 0 /\ pending = {} /\ settled = {}

\* A batch is sent.
Submit(n) ==
  /\ sent' = sent + n
  /\ pending' = pending \cup (sent + 1 .. sent + n)
  /\ UNCHANGED settled

\* Messages are acked, given up or flushed, in whatever order.
Settle(S) ==
  /\ pending' = pending \ S
  /\ settled' = settled \cup S
  /\ UNCHANGED sent

Next ==
  \/ \E n \in 1..MaxMessages : Submit(n)
  \/ \E S \in SUBSET pending : Settle(S)

Spec == Init /\ [][Next]_<<sent, pending, settled>>

=============================================================================
