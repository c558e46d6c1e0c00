----------------------------- MODULE SampleQueue ----------------------------
(***************************************************************************)
(* What a fifo promises to the one who uses it, whatever it is made of: a  *)
(* queue of items, of which the oldest ones are looked at, taken or        *)
(* dropped, and the result of the last call: a number, and the items it    *)
(* handed out.                                                             *)
(***************************************************************************)
EXTENDS Integers, Sequences

CONSTANT Items

VARIABLES queue, result

Ret(n)     == [ret |-> n, items |-> <<>>]
Got(items) == [ret |-> Len(items), items |-> items]
Refused    == Ret(-1)

Init == queue = <<>> /\ result = Ret(0)

\* Items are put at the end; the result says how many.
Put(old, new) ==
    /\ new \in Seq(Items)
    /\ Len(new) >= Len(old) /\ SubSeq(new, 1, Len(old)) = old
    /\ result' = Ret(Len(new) - Len(old))

\* The oldest items are taken out, and handed out or not.
Take(old, new) ==
    LET n == Len(old) - Len(new) IN
    /\ n >= 0 /\ new = SubSeq(old, n + 1, Len(old))
    /\ result' \in {Got(SubSeq(old, 1, n)), Ret(0)}

\* Nothing changes: a look at some of the items, a refusal, or a call that
\* changed the room for them only.
Look(old, new) ==
    /\ new = old
    /\ \/ result' \in {Ret(0), Refused}
       \/ \E from \in 0 .. Len(old), n \in 0 .. Len(old) :
             from + n <= Len(old) /\ result' = Got(SubSeq(old, from + 1, from + n))

Next == LET old == queue new == queue'
        IN  Put(old, new) \/ Take(old, new) \/ Look(old, new)

Spec == Init /\ [][Next]_<<queue, result>>
=============================================================================
