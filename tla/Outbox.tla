-------------------------------- MODULE Outbox --------------------------------
(***************************************************************************)
(* What the queue of a data channel handler promises to its callers:       *)
(* messages are handed to WebRTC in the order in which SendAsync accepted   *)
(* them, each once and none skipped.                                        *)
(***************************************************************************)
EXTENDS Naturals, Sequences

CONSTANT Messages

VARIABLES accepted, handed     \* messages, in order

vars == <<accepted, handed>>

Init == accepted = <<>> /\ handed = 0

Accept(m) == accepted' = Append(accepted, m) /\ handed' = handed

Hand == handed < Len(accepted) /\ handed' = handed + 1 /\ accepted' = accepted

AcceptAndHand(m) ==
    /\ handed = Len(accepted)
    /\ accepted' = Append(accepted, m) /\ handed' = handed + 1

Next == Hand \/ \E m \in Messages : Accept(m) \/ AcceptAndHand(m)

SafeSpec == Init /\ [][Next]_vars
=============================================================================
