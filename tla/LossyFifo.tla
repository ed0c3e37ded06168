----------------------------- MODULE LossyFifo ------------------------------
(***************************************************************************)
(* What the notification path promises from one durable end to the other:  *)
(* items may be lost, but what arrives was sent, arrives once, and arrives *)
(* in the order it was sent in.  Items are numbered as they are sent.      *)
(***************************************************************************)
EXTENDS Integers, Sequences

VARIABLES sent,   \* how many items have been sent
          got     \* the numbers of the items that arrived, in arrival order

Init == sent = 0 /\ got = <<>>

Send == sent' \in Nat /\ sent' > sent /\ UNCHANGED got

Latest == IF got = <<>> THEN 0 ELSE got[Len(got)]

Arrive == /\ \E i \in (Latest + 1)..sent : got' = Append(got, i)
          /\ UNCHANGED sent

Next == Send \/ Arrive

Spec == Init /\ [][Next]_<<sent, got>>
=============================================================================
