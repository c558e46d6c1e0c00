------------------------------- MODULE AesCtr -------------------------------
(***************************************************************************)
(* libavutil/aes_ctr.c: data of any length is combined with a stream of    *)
(* encrypted counters, block after block.  The cipher is left out: what it *)
(* makes of a counter is the counter.                                      *)
(***************************************************************************)
EXTENDS Integers, Sequences

CONSTANTS BlockSize,   \* AES_BLOCK_SIZE
          HalfModulus, \* of each half of the counter, 2^64
          MaxStream    \* bound

VARIABLES aes,    \* the counter's halves, the encrypted counter, block_offset
          start,  \* the counter when it was last set
          stream  \* what the bytes since then were combined with

aesVars == <<aes, start, stream>>

\* av_aes_ctr_init; nothing is encrypted yet.
AesInit ==
    /\ aes = [counter |-> <<0, 0>>, encrypted |-> <<0, 0>>, block_offset |-> 0]
    /\ start = <<0, 0>> /\ stream = <<>>

\* av_aes_ctr_increment_be64 of the first or the second half.
Increment(counter, half) == [counter EXCEPT ![half] = (@ + 1) % HalfModulus]

Restart(counter) ==
    /\ aes' = [aes EXCEPT !.counter = counter, !.block_offset = 0]
    /\ start' = counter /\ stream' = <<>>

\* av_aes_ctr_set_iv, av_aes_ctr_set_full_iv and av_aes_ctr_increment_iv.
SetIv(iv) == Restart(<<iv, 0>>)
SetFullIv(counter) == Restart(counter)
IncrementIv == Restart(<<Increment(aes.counter, 1)[1], 0>>)

\* One turn of the outer loop: the bytes up to the end of the block or of the data.
Turn(a, left) ==
    LET enc  == IF a.block_offset = 0 THEN a.counter ELSE a.encrypted
        next == IF a.block_offset = 0 THEN Increment(a.counter, 2) ELSE a.counter
        n    == IF left < BlockSize - a.block_offset THEN left ELSE BlockSize - a.block_offset
    IN  [aes |-> [counter |-> next, encrypted |-> enc,
                  block_offset |-> (a.block_offset + n) % BlockSize],
         used |-> [i \in 1 .. n |-> <<enc, a.block_offset + i - 1>>]]

RECURSIVE Turns(_, _, _)
Turns(a, used, left) ==
    IF left = 0 THEN [aes |-> a, used |-> used]
    ELSE LET t == Turn(a, left)
         IN  Turns(t.aes, used \o t.used, left - Len(t.used))

\* av_aes_ctr_crypt.
Crypt(count) ==
    LET r == Turns(aes, <<>>, count)
    IN  aes' = r.aes /\ stream' = stream \o r.used /\ UNCHANGED start

AesNext ==
    \/ \E iv \in 0 .. HalfModulus - 1 :
          SetIv(iv) \/ \E c \in 0 .. HalfModulus - 1 : SetFullIv(<<iv, c>>)
    \/ IncrementIv
    \/ \E count \in 0 .. MaxStream - Len(stream) : Crypt(count)
-----------------------------------------------------------------------------
\* Every byte meets its own byte of the stream, in whatever pieces the data came:
\* the second half of the counter counts the blocks and wraps without a carry.
StreamFollows ==
    \A i \in DOMAIN stream :
        stream[i] = << <<start[1], (start[2] + (i - 1) \div BlockSize) % HalfModulus>>,
                       (i - 1) % BlockSize >>
=============================================================================
