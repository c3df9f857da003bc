-------------------------- MODULE OrderedDelivery --------------------------
(***************************************************************************)
(* What continuity promises at two layers, in one direction: what was sent *)
(* is handed out in the order in which it was sent, each item once,        *)
(* whatever happens underneath.  A stream promises it of its segments,     *)
(* whatever becomes of the connections; a channel, which the session layer *)
(* is built on, promises it of whole frames, until it ends.                *)
(***************************************************************************)
EXTENDS Naturals, Sequences

CONSTANT Item

VARIABLES
  sent,   \* what the writer has recorded, or put on the channel
  got     \* what was handed to the reader

vars == <<sent, got>>

Init == sent = << >> /\ got = << >>

\* The writer records the next item.
Record(x) ==
  /\ sent' = Append(sent, x)
  /\ UNCHANGED got

\* The reader takes the next item it has not yet seen.
Take ==
  /\ Len(got) < Len(sent)
  /\ got' = Append(got, sent[Len(got) + 1])
  /\ UNCHANGED sent

Next == Take \/ \E x \in Item : Record(x)

Spec == Init /\ [][Next]_vars
=============================================================================
