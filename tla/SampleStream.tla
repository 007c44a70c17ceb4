---------------------------- MODULE SampleStream ----------------------------
(***************************************************************************)
(* What the message queue promises its two users, with no queue in it:     *)
(* samples are numbered in the order they are put; each ends in exactly    *)
(* one way; the oldest one still buffered is the next to be delivered or,  *)
(* when Capacity samples are buffered and another arrives, dropped.        *)
(***************************************************************************)
EXTENDS Integers, Sequences

CONSTANT Capacity

VARIABLE fate     \* fate[i]: what became of the i-th sample put

Fates == {"buffered", "delivered", "dropped", "cleared"}

Buffered == {i \in DOMAIN fate : fate[i] = "buffered"}

IsOldest(i) == i \in Buffered /\ \A j \in Buffered : i <= j

Init == fate = << >>

Produce ==
    \/ /\ Buffered \subseteq Len(fate) + 2 - Capacity .. Len(fate)
       /\ fate' = Append(fate, "buffered")
    \/ \E i \in Buffered :
          /\ IsOldest(i)
          /\ i = Len(fate) + 1 - Capacity
          /\ fate' = Append([fate EXCEPT ![i] = "dropped"], "buffered")

Deliver ==
    \E i \in Buffered : IsOldest(i) /\ fate' = [fate EXCEPT ![i] = "delivered"]

Clear ==
    fate' = [i \in DOMAIN fate |->
                IF fate[i] = "buffered" THEN "cleared" ELSE fate[i]]

Next == Produce \/ Deliver \/ Clear

Spec == Init /\ [][Next]_fate
=============================================================================
