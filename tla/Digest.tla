------------------------------- MODULE Digest -------------------------------
(***************************************************************************)
(* libavutil/hash.c and the hashes under it that gather their input into   *)
(* blocks: md5.c, murmur3.c, and sha.c, sha512.c and ripemd.c, which do it *)
(* alike.  What a hash makes of a block is left out: its state is the      *)
(* sequence of blocks it was given, and two digests are equal when these   *)
(* sequences, and what final adds, are.                                    *)
(***************************************************************************)
EXTENDS Integers, SequencesExt

CONSTANTS Block, LenBytes,  \* bytes of a block, and of the length that ends the last
          MaxMessage,       \* bound
          NoDigest

VARIABLES alg, ctx,
          message,  \* what the caller has added; the bytes are numbered
          digest

digestVars == <<alg, ctx, message, digest>>

\* Bytes that are no data: "\200", 0, and one of the length n.
Mark == -1
Zero == 0
LenByte(n) == 1000 + n

NewCtx == [count |-> 0, buffer |-> [i \in 1 .. Block |-> Zero], blocks |-> <<>>, state_pos |-> 0]

Algorithms == {"md5", "sha", "murmur3"}

DigestInit == alg = "md5" /\ ctx = NewCtx /\ message = <<>> /\ digest = NoDigest

\* memcpy to the buffer, whose first byte is at 0.
Filled(buffer, at, data) ==
    [i \in DOMAIN buffer |-> IF i - at \in DOMAIN data THEN data[i - at] ELSE buffer[i]]

Rest(data, n) == SubSeq(data, n + 1, Len(data))

\* The whole blocks of data, and what is left of it.
Blocks(data) == [k \in 1 .. Len(data) \div Block |-> SubSeq(data, (k - 1) * Block + 1, k * Block)]
Left(data) == Rest(data, (Len(data) \div Block) * Block)

\* What all of them do with data that begins a block: its blocks are hashed where
\* they are, and the rest is kept.
FromBlock(c, data) ==
    [c EXCEPT !.blocks = @ \o Blocks(data), !.buffer = Filled(@, 0, Left(data))]

\* The block that is in the buffer.
Hashed(c) == [c EXCEPT !.blocks = Append(@, c.buffer)]

\* av_md5_update.
Md5Update(c, data) ==
    LET j   == c.count % Block
        cnt == IF Len(data) < Block - j THEN Len(data) ELSE Block - j
        c1  == [c EXCEPT !.count = @ + Len(data)]
        c2  == [c1 EXCEPT !.buffer = Filled(@, j, SubSeq(data, 1, cnt))]
    IN  IF j = 0 THEN FromBlock(c1, data)
        ELSE IF j + cnt < Block THEN c2
        ELSE FromBlock(Hashed(c2), Rest(data, cnt))

\* Variant for mutation: a block that is just full is kept.
ShaUpdateLate(c, data) ==
    LET j  == c.count % Block
        c1 == [c EXCEPT !.count = @ + Len(data)]
    IN  IF j + Len(data) > Block
        THEN FromBlock(Hashed([c1 EXCEPT !.buffer = Filled(@, j, SubSeq(data, 1, Block - j))]),
                       Rest(data, Block - j))
        ELSE [c1 EXCEPT !.buffer = Filled(@, j, data)]

\* av_sha_update, av_sha512_update and av_ripemd_update.
ShaUpdate(c, data) ==
    LET j  == c.count % Block
        c1 == [c EXCEPT !.count = @ + Len(data)]
    IN  IF j + Len(data) >= Block
        THEN FromBlock(Hashed([c1 EXCEPT !.buffer = Filled(@, j, SubSeq(data, 1, Block - j))]),
                       Rest(data, Block - j))
        ELSE [c1 EXCEPT !.buffer = Filled(@, j, data)]

\* av_murmur3_update, which leaves a block that has just become full in the
\* buffer, but hashes one that is full from the start (line 106).
MurmurUpdate(c, data) ==
    LET n  == IF c.state_pos + Len(data) < Block THEN Len(data) ELSE Block - c.state_pos
        c1 == [c EXCEPT !.count = @ + Len(data),
                        !.buffer = IF c.state_pos = 0 THEN @
                                   ELSE Filled(@, c.state_pos, SubSeq(data, 1, n))]
        end(x, d) == [FromBlock(x, d) EXCEPT !.state_pos = Len(Left(d))]
    IN  IF Len(data) = 0 THEN c
        ELSE IF c.state_pos = 0 THEN end(c1, data)
        ELSE IF n = Len(data) /\ n > 0 THEN [c1 EXCEPT !.state_pos = @ + n]
        ELSE end(Hashed(c1), Rest(data, n))

HashUpdate(a, c, data) ==
    CASE a = "md5" -> Md5Update(c, data)
      [] a = "sha" -> ShaUpdate(c, data)
      [] a = "murmur3" -> MurmurUpdate(c, data)

\* The bytes, one at a time, that bring count to where the length goes.
RECURSIVE Padded(_, _)
Padded(a, c) == IF c.count % Block = Block - LenBytes THEN c
                ELSE Padded(a, HashUpdate(a, c, <<Zero>>))

\* av_md5_final, av_sha_final, av_sha512_final and av_ripemd_final.
PaddedFinal(a, c) ==
    LET count == [i \in 1 .. LenBytes |-> LenByte(c.count)]
    IN  HashUpdate(a, Padded(a, HashUpdate(a, c, <<Mark>>)), count).blocks

\* av_murmur3_final: the tail is mixed in otherwise than a block is.
MurmurFinal(c) ==
    <<c.blocks, Filled(c.buffer, c.state_pos, [i \in 1 .. Block - c.state_pos |-> Zero]), c.count>>
-----------------------------------------------------------------------------
\* av_hash_alloc with av_hash_init.
HashInit(a) == alg' = a /\ ctx' = NewCtx /\ message' = <<>> /\ digest' = NoDigest

\* av_hash_update.
Update(n) ==
    /\ digest = NoDigest /\ Len(message) + n <= MaxMessage
    /\ LET data == [i \in 1 .. n |-> Len(message) + i]
       IN  ctx' = HashUpdate(alg, ctx, data) /\ message' = message \o data
    /\ UNCHANGED <<alg, digest>>

\* av_hash_final, after which the context is only good for another init.
Final ==
    /\ digest = NoDigest
    /\ digest' = IF alg = "murmur3" THEN MurmurFinal(ctx) ELSE PaddedFinal(alg, ctx)
    /\ UNCHANGED <<alg, ctx, message>>

DigestNext == \/ \E a \in Algorithms : HashInit(a)
              \/ \E n \in 0 .. MaxMessage : Update(n)
              \/ Final
-----------------------------------------------------------------------------
(***************************************************************************)
(* Properties                                                              *)
(***************************************************************************)
\* The padded message: a mark, the least number of zeros, and the length.
PaddedMessage ==
    LET n == Len(message)
    IN  message \o <<Mark>> \o [i \in 1 .. (-(n + 1 + LenBytes)) % Block |-> Zero]
                \o [i \in 1 .. LenBytes |-> LenByte(n)]

OneCallDigest == MurmurFinal(MurmurUpdate(NewCtx, message))

\* The digest is that of the message, in whatever pieces it was added: the blocks
\* hashed are those of the padded message, at any distance of its end from the
\* end of a block.  MurmurHash3 hashes what it would hash in one call, unless the
\* message ends with a block.
DigestOfMessage ==
    digest # NoDigest =>
        IF alg # "murmur3" THEN digest = Blocks(PaddedMessage)
        ELSE Len(message) % Block # 0 => digest = OneCallDigest

\* hash.h:178 of av_hash_update: "Update a hash context with additional data", which
\* the sample of hash.h:76 calls "while (data_left)": the digest of MurmurHash3 is
\* that of the data and not of how the calls have cut it.
PiecesDoNotMatter ==
    digest # NoDigest /\ alg = "murmur3" => digest = OneCallDigest
=============================================================================
