--------------------------------- MODULE Mem ---------------------------------
(***************************************************************************)
(* libavutil/mem.c and dynarray.h, what is more than a call of malloc:     *)
(* arrays that grow and keep only the number of their elements, blocks     *)
(* that grow and keep only how much of them is known to be there, and the  *)
(* overlapping copy of av_memcpy_backptr.  Any allocation may fail.        *)
(***************************************************************************)
EXTENDS Integers, Sequences

CONSTANTS IntMax, ElemSize,      \* INT_MAX and the bytes of an element
          MaxAlloc,              \* max_alloc_size - 32
          MinSizes, MaxBack, MaxCount,  \* bounds: sizes asked for, lengths of a copy
          Junk                   \* a value never written

ASSUME MemAssumption ==
    /\ IntMax \in Nat /\ ElemSize \in Nat \ {0} /\ MaxAlloc \in Nat
    /\ MinSizes \subseteq Nat /\ MaxBack \in Nat /\ MaxCount \in Nat

VARIABLES tab,    \* an array: the slots it has room for, and nb_ptr
          added,  \* what the caller has put in it
          block,  \* a block: its bytes, 0 for NULL, and the size kept beside it
          copied  \* the last copy, and the memory after it

memVars == <<tab, added, block, copied>>

NoTab  == [slots |-> <<>>, nb |-> 0]
NoCopy == [back |-> 1, cnt |-> 0, mem |-> <<>>]

MemInit == /\ tab = NoTab /\ added = <<>>
           /\ block = [bytes |-> 0, size |-> 0] /\ copied = NoCopy

Twos[k \in Nat] == IF k = 0 THEN 1 ELSE 2 * Twos[k - 1]

\* Variant for mutation: one element late.
MustGrowLate(nb) == \E k \in 0 .. nb : nb = Twos[k] + 1

\* av_size & (av_size - 1) is 0.
MustGrow(nb) == nb = 0 \/ \E k \in 0 .. nb : nb = Twos[k]

\* FF_DYNARRAY_ADD up to its choice: the array with its room, and whether it has.
Grown(t, fails) ==
    LET new == IF t.nb = 0 THEN 1 ELSE 2 * t.nb
    IN  IF ~MustGrow(t.nb) THEN [t |-> t, ok |-> TRUE]
        ELSE IF new > IntMax \div ElemSize \/ new * ElemSize > MaxAlloc \/ fails
        THEN [t |-> t, ok |-> FALSE]
        ELSE [t |-> [t EXCEPT !.slots = [i \in 1 .. new |-> IF i \in DOMAIN @ THEN @[i] ELSE Junk]],
              ok |-> TRUE]

With(t, e) == [slots |-> [t.slots EXCEPT ![t.nb + 1] = e], nb |-> t.nb + 1]

\* av_dynarray_add_nofree.
AddNoFree(e, fails) ==
    LET r == Grown(tab, fails)
    IN  IF r.ok THEN tab' = With(r.t, e) /\ added' = Append(added, e)
        ELSE UNCHANGED <<tab, added>>

\* av_dynarray_add and av_dynarray2_add, which free the array when it cannot grow.
\* What its elements point to is left to the caller, who has no list of it.
Add(e, fails) ==
    LET r == Grown(tab, fails)
    IN  IF r.ok THEN tab' = With(r.t, e) /\ added' = Append(added, e)
        ELSE tab' = NoTab /\ added' = <<>>

Overhead(n) == n + n \div 16 + 32

\* Variant for mutation: the size is as it was when the block could not grow.
FastReallocKeepsSize(n, fails) ==
    block' = IF n <= block.size \/ n > MaxAlloc THEN block
             ELSE LET size == IF Overhead(n) < MaxAlloc THEN Overhead(n) ELSE MaxAlloc
                  IN  [bytes |-> IF fails THEN block.bytes ELSE size, size |-> size]

\* av_fast_realloc, whose caller keeps the old pointer when NULL is returned.
FastRealloc(n, fails) ==
    block' = IF n <= block.size THEN block
             ELSE IF n > MaxAlloc \/ fails THEN [block EXCEPT !.size = 0]
             ELSE LET size == IF Overhead(n) < MaxAlloc THEN Overhead(n) ELSE MaxAlloc
                  IN  [bytes |-> size, size |-> size]

\* ff_fast_malloc, of av_fast_malloc and av_fast_mallocz.
FastMalloc(n, fails) ==
    block' = IF n <= block.size THEN block
             ELSE IF fails \/ Overhead(n) > MaxAlloc THEN [bytes |-> 0, size |-> 0]
             ELSE [bytes |-> Overhead(n), size |-> Overhead(n)]

\* memcpy, which may not overlap.
Memcpy(m, dst, src, n) ==
    IF dst - src < n THEN [i \in DOMAIN m |-> Junk]
    ELSE [i \in DOMAIN m |-> IF i \in dst .. dst + n - 1 THEN m[i - dst + src] ELSE m[i]]

Smaller(a, b) == IF a < b THEN a ELSE b

\* n more bytes of a copy that has come to r.at, from so many bytes before.
Piece(r, before, n) == [m |-> Memcpy(r.m, r.at, r.at - before, n), at |-> r.at + n]

\* What lies between src and where the copy has come doubles, up to end.
Doubled(r, src, end) == Piece(r, r.at - src, Smaller(r.at - src, end - r.at))

\* The lines 429 to 439; the memory before dst repeats itself, so src stays.
Doubling(m, dst, src, cnt) ==
    LET turn[k \in 0 .. cnt] == IF k = 0 THEN [m |-> m, at |-> dst]
                                ELSE Doubled(turn[k - 1], src, dst + cnt)
    IN  turn[cnt].m

\* The lines 440 to 461, for less than 16 bytes.
Short(m, dst, back, cnt) ==
    LET Has(r, n) == dst + cnt - r.at >= n
        Eight(r) == IF Has(r, 8) THEN Piece(Piece(r, back, 4), back, 4) ELSE r
        Whole(r, n) == IF Has(r, n) THEN Piece(r, back, n) ELSE r
    IN  Whole(Whole(Whole(Eight([m |-> m, at |-> dst]), 4), 2), 1).m

\* fill16, fill24 and fill32: words made of the bytes before dst, then bytes.
Fill(m, dst, back, cnt) ==
    LET words == 4 * (cnt \div 4)
        filled == [i \in DOMAIN m |-> IF i \in dst .. dst + words - 1
                                      THEN m[dst - back + ((i - dst) % back)] ELSE m[i]]
        byte[k \in 0 .. cnt - words] == IF k = 0 THEN [m |-> filled, at |-> dst + words]
                                        ELSE Piece(byte[k - 1], back, 1)
    IN  byte[cnt - words].m

\* av_memcpy_backptr.
MemcpyBackptr(m, dst, back, cnt) ==
    LET src == dst - back IN
    IF back = 0 THEN m
    ELSE IF back = 1 THEN [i \in DOMAIN m |-> IF i \in dst .. dst + cnt - 1 THEN m[src] ELSE m[i]]
    ELSE IF back <= 4 THEN Fill(m, dst, back, cnt)
    ELSE IF cnt >= 16 THEN Doubling(m, dst, src, cnt)
    ELSE Short(m, dst, back, cnt)

Before == [i \in 1 .. MaxBack + MaxCount |-> i]

CopyBack(back, cnt) ==
    copied' = [back |-> back, cnt |-> cnt, mem |-> MemcpyBackptr(Before, MaxBack + 1, back, cnt)]
-----------------------------------------------------------------------------
ArrayNext ==
    /\ UNCHANGED <<block, copied>>
    /\ \E fails \in BOOLEAN :
          AddNoFree(Len(added) + 1, fails) \/ Add(Len(added) + 1, fails)

BlockNext ==
    /\ UNCHANGED <<tab, added, copied>>
    /\ \E n \in MinSizes, fails \in BOOLEAN : FastRealloc(n, fails) \/ FastMalloc(n, fails)

CopyNext ==
    /\ UNCHANGED <<tab, added, block>> /\ copied = NoCopy
    /\ \E back \in 0 .. MaxBack, cnt \in 1 .. MaxCount : CopyBack(back, cnt)

MemNext == ArrayNext \/ BlockNext \/ CopyNext

MemSpec == MemInit /\ [][MemNext]_memVars
-----------------------------------------------------------------------------
(***************************************************************************)
(* Properties                                                              *)
(***************************************************************************)
\* An array whose room is known from its number of elements only always has it,
\* and its elements are those added, until an addition fails and frees it.
ArrayHolds == /\ tab.nb <= Len(tab.slots)
              /\ SubSeq(tab.slots, 1, tab.nb) = added

\* The block has the bytes that the size beside it says, also after a failure and
\* when it is grown now in one way and now in the other.
BlockHolds == block.size <= block.bytes

\* The copy is what copying byte by byte makes, each byte being the one back bytes
\* before it, and no memcpy in it overlaps.
CopyRepeats ==
    LET from == MaxBack + 1 IN
    copied.back > 0 =>
        \A i \in DOMAIN copied.mem :
            copied.mem[i] = IF i \in from .. from + copied.cnt - 1 THEN copied.mem[i - copied.back]
                            ELSE Before[i]

MemHolds == ArrayHolds /\ BlockHolds /\ CopyRepeats
=============================================================================
