------------------------------ MODULE Numbers ------------------------------
(***************************************************************************)
(* libavutil/mathematics.c and rational.c on words of a small width: what  *)
(* is computed in pieces so that it does not overflow, against what it     *)
(* stands for.                                                             *)
(***************************************************************************)
EXTENDS Integers, SequencesExt, FiniteSetsExt

CONSTANTS HalfBits,    \* 32, of the 64 bits of a word
          Longs,       \* the int64_t a caller asks about
          Small,       \* numerators and denominators
          TimeBases,   \* 1/3, 1/12 and 1/5 of the input, the samples and the output: <<1, 3, 1, 12, 1, 5>>
          NoPts,
          MaxTime      \* bound

Half == 2 ^ HalfBits
Word == Half * Half
INT_MAX   == Half \div 2 - 1
INT64_MAX == Word \div 2 - 1
INT64_MIN == -(Word \div 2)

VARIABLES asked,   \* the last call, with what it returned
          stream   \* the timestamps a muxer has rescaled

numberVars == <<asked, stream>>

Q(num, den) == [num |-> num, den |-> den]
Abs(a) == IF a < 0 THEN -a ELSE a
Sign(a) == IF a > 0 THEN 1 ELSE IF a < 0 THEN -1 ELSE 0
Least(a, b) == IF a < b THEN a ELSE b
Quot(a, b) == Sign(a) * Sign(b) * (Abs(a) \div Abs(b))   \* the / of C
-----------------------------------------------------------------------------
\* ff_ctzll.
RECURSIVE Odd(_)
Odd(a) == IF a % 2 = 1 THEN a ELSE Odd(a \div 2)
TwosIn(a, b) == Max({k \in 0 .. 2 * HalfBits : a % 2 ^ k = 0 /\ b % 2 ^ k = 0})

\* The loop of av_gcd, on odd numbers.
RECURSIVE OddGcd(_, _)
OddGcd(u, v) == IF u = v THEN u ELSE OddGcd(Least(u, v), Odd(Abs(u - v)))

Gcd(a, b) ==
    IF a = 0 THEN b ELSE IF b = 0 THEN a
    ELSE OddGcd(Odd(Abs(a)), Odd(Abs(b))) * 2 ^ TwosIn(Abs(a), Abs(b))

\* enum AVRounding.
ZERO == 0
INF  == 1
DOWN == 2
UP   == 3
NEAR_INF == 5
Rounds == {ZERO, INF, DOWN, UP, NEAR_INF}

\* What is added to a product before it is divided by c.
Addend(c, rnd) == IF rnd = NEAR_INF THEN c \div 2 ELSE IF rnd % 2 = 1 THEN c - 1 ELSE 0

\* Variant for mutation: the second carry is forgotten.
LongDivisionNoCarry(a, b, c, r) ==
    LET p    == a * b
        low  == ((p % Word) + r) % Word
        all  == (p \div Word) * Word + low
    IN  IF all \div c > INT64_MAX THEN INT64_MIN ELSE all \div c

\* The product of 128 bits in two words, a1 and a0, plus r; then one bit of the
\* quotient t1 a turn.  What t1 begins with has left it in the end.
LongDivision(a, b, c, r) ==
    LET t1  == ((a % Half) * (b \div Half) + (a \div Half) * (b % Half)) % Word
        t1a == (t1 * Half) % Word
        a0  == ((a % Half) * (b % Half) + t1a) % Word
        a1  == (a \div Half) * (b \div Half) + t1 \div Half + (IF a0 < t1a THEN 1 ELSE 0)
        low == (a0 + r) % Word
        high == (a1 + (IF low < r THEN 1 ELSE 0)) % Word
        Bit(d, i) ==
            LET h == (2 * d.a1 + ((low \div 2 ^ i) % 2)) % Word
                t == (2 * d.t1) % Word
            IN  IF c <= h THEN [a1 |-> h - c, t1 |-> (t + 1) % Word] ELSE [a1 |-> h, t1 |-> t]
        end == FoldLeft(Bit, [a1 |-> high, t1 |-> t1],
                        [k \in 1 .. 2 * HalfBits |-> 2 * HalfBits - k])
    IN  IF end.t1 > INT64_MAX THEN INT64_MIN ELSE end.t1

\* av_rescale_rnd of a >= 0: in one word, in two quotients, or in two words.
RescalePositive(a, b, c, rnd) ==
    LET r  == Addend(c, rnd)
        ad == a \div c
        a2 == ((a % c) * b + r) \div c
    IN  IF b > INT_MAX \/ c > INT_MAX THEN LongDivision(a, b, c, r)
        ELSE IF a <= INT_MAX THEN (a * b + r) \div c
        ELSE IF ad >= INT_MAX /\ b # 0 /\ ad > (INT64_MAX - a2) \div b THEN INT64_MIN
        ELSE ad * b + a2

\* av_rescale_rnd; pass is AV_ROUND_PASS_MINMAX.  A negative number rounds up where
\* its absolute value rounds down, and INT64_MIN counts as INT64_MIN + 1.
Mirrored(rnd) == CASE rnd = DOWN -> UP [] rnd = UP -> DOWN [] OTHER -> rnd

RescaleRnd(a, b, c, rnd, pass) ==
    IF c <= 0 \/ b < 0 THEN INT64_MIN
    ELSE IF pass /\ a \in {INT64_MIN, INT64_MAX} THEN a
    ELSE IF a >= 0 THEN RescalePositive(a, b, c, rnd)
    ELSE LET Minus(r) == IF r = INT64_MIN THEN r ELSE -r
         IN  Minus(RescalePositive(-(IF a = INT64_MIN THEN a + 1 ELSE a), b, c, Mirrored(rnd)))

RescaleQRnd(a, bq, cq, rnd) == RescaleRnd(a, bq.num * cq.den, cq.num * bq.den, rnd, FALSE)
RescaleQ(a, bq, cq) == RescaleQRnd(a, bq, cq, NEAR_INF)

\* av_compare_ts.
CompareTs(ts_a, tb_a, ts_b, tb_b) ==
    LET a == tb_a.num * tb_b.den
        b == tb_b.num * tb_a.den
    IN  IF \A x \in {Abs(ts_a), a, Abs(ts_b), b} : x <= INT_MAX THEN Sign(ts_a * a - ts_b * b)
        ELSE IF RescaleRnd(ts_a, a, b, DOWN, FALSE) < ts_b THEN -1
        ELSE IF RescaleRnd(ts_b, b, a, DOWN, FALSE) < ts_a THEN 1 ELSE 0
-----------------------------------------------------------------------------
\* The continued fraction of num/den in av_reduce: a0 and a1 are the last two
\* convergents, and a2 the next, or the last one of its kind that fits.
Along(x, a1, a0) == Q(x * a1.num + a0.num, x * a1.den + a0.den)

RECURSIVE Converge(_, _, _, _, _)
Converge(a0, a1, num, den, max) ==
    LET x  == num \div den
        a2 == Along(x, a1, a0)
        x1 == IF a1.num # 0 THEN (max - a0.num) \div a1.num ELSE x
        x2 == IF a1.den # 0 THEN Least(x1, (max - a0.den) \div a1.den) ELSE x1
    IN  IF den = 0 THEN [q |-> a1, exact |-> TRUE]
        ELSE IF a2.num <= max /\ a2.den <= max THEN Converge(a1, a2, den, num - den * x, max)
        ELSE [exact |-> FALSE,
              q |-> IF den * (2 * x2 * a1.den + a0.den) > num * a1.den
                    THEN Along(x2, a1, a0) ELSE a1]

Reduce(num, den, max) ==
    LET By(gcd, n) == IF gcd = 0 THEN 0 ELSE n \div gcd
        Fit(n, d) == IF n <= max /\ d <= max THEN [q |-> Q(n, d), exact |-> TRUE]
                     ELSE Converge(Q(0, 1), Q(1, 0), n, d, max)
        Signed(r) == IF (num < 0) # (den < 0) THEN [r EXCEPT !.q.num = -@] ELSE r
        Divided(gcd) == Signed(Fit(By(gcd, Abs(num)), By(gcd, Abs(den))))
    IN  Divided(Gcd(Abs(num), Abs(den)))

\* av_mul_q, av_div_q, av_add_q, av_sub_q and av_cmp_q.
MulQ(b, c) == Reduce(b.num * c.num, b.den * c.den, INT_MAX).q
DivQ(b, c) == MulQ(b, Q(c.den, c.num))
AddQ(b, c) == Reduce(b.num * c.den + c.num * b.den, b.den * c.den, INT_MAX).q
SubQ(b, c) == AddQ(b, Q(-c.num, c.den))
Undefined  == -1000
CmpQ(a, b) ==
    LET tmp == a.num * b.den - b.num * a.den IN
    IF tmp # 0 THEN Sign(tmp) * (IF (a.den < 0) # (b.den < 0) THEN -1 ELSE 1)
    ELSE IF a.den # 0 /\ b.den # 0 THEN 0
    ELSE IF a.num # 0 /\ b.num # 0
    THEN (IF a.num < 0 THEN -1 ELSE 0) - (IF b.num < 0 THEN -1 ELSE 0)
    ELSE Undefined

\* av_nearer_q: q against the median of q1 and q2, rounded up and down.
NearerQ(q, q1, q2) ==
    LET a == q1.num * q2.den + q2.num * q1.den
        b == 2 * q1.den * q2.den
        up   == RescaleRnd(a, q.den, b, UP, FALSE) > q.num
        down == RescaleRnd(a, q.den, b, DOWN, FALSE) < q.num
    IN  (CASE up /\ ~down -> 1 [] down /\ ~up -> -1 [] OTHER -> 0) * CmpQ(q2, q1)

FindNearest(q, list) ==
    FoldLeftDomain(LAMBDA best, i : IF NearerQ(q, list[i], list[best]) > 0 THEN i ELSE best,
                   1, list)

\* av_add_stable, which also returns ts when the increment is less than a tick.
AddStable(ts_tb, ts, tb, inc) ==
    LET After(old, inc_tb) ==
            RescaleQ(old + 1, inc_tb, ts_tb) + (ts - RescaleQ(old, inc_tb, ts_tb))
        AddOne(inc_tb) ==
            LET m == inc_tb.num * ts_tb.den
                d == inc_tb.den * ts_tb.num
            IN  IF m % d = 0 THEN ts + m \div d
                ELSE IF m < d THEN ts
                ELSE After(RescaleQ(ts, ts_tb, inc_tb), inc_tb)
    IN  AddOne(IF inc = 1 THEN tb ELSE MulQ(tb, Q(inc, 1)))

AddTimes(ts_tb, ts, inc_tb, inc, n) ==
    FoldLeft(LAMBDA t, i : AddStable(ts_tb, t, inc_tb, inc), ts, [i \in 1 .. n |-> i])
-----------------------------------------------------------------------------
\* av_rescale_delta: where the last packet ended, if that is within what in_ts
\* may stand for, or near it.
RescaleDelta(in_tb, in_ts, fs_tb, duration, last, out_tb) ==
    LET At(this) == [last |-> this + duration, ts |-> RescaleQ(this, fs_tb, out_tb)]
        Between(a, b) ==
            IF \/ last = NoPts \/ duration = 0
               \/ in_tb.num * out_tb.den <= out_tb.num * in_tb.den
               \/ last < 2 * a - b \/ last > 2 * b - a
            THEN [last |-> RescaleQ(in_ts, in_tb, fs_tb) + duration,
                  ts |-> RescaleQ(in_ts, in_tb, out_tb)]
            ELSE At(IF last < a THEN a ELSE IF last > b THEN b ELSE last)
    IN  Between(RescaleQRnd(2 * in_ts - 1, in_tb, fs_tb, DOWN) \div 2,
                (RescaleQRnd(2 * in_ts + 1, in_tb, fs_tb, UP) + 1) \div 2)
-----------------------------------------------------------------------------
NumbersInit ==
    /\ asked = [op |-> "none"]
    /\ stream = [tb |-> NoPts, time |-> 0, last |-> NoPts, ts |-> 0,
                 error |-> 0, before |-> NoPts]

\* A packet that begins at stream.time, in ticks of its samples; its timestamp is
\* that time in coarser ticks, to the nearest.
Packet(tb, duration, in_ts) ==
    LET Sent(r) == [stream EXCEPT !.tb = tb, !.time = @ + duration, !.last = r.last, !.ts = r.ts,
                                  !.error = r.last - duration - stream.time,
                                  !.before = IF stream.last = NoPts THEN NoPts
                                             ELSE stream.error]
    IN  /\ stream.tb \in {NoPts, tb}
        /\ 2 * Abs(in_ts * tb.in.num * tb.fs.den - stream.time * tb.fs.num * tb.in.den)
              <= tb.in.num * tb.fs.den
        /\ stream.time + duration <= MaxTime
        /\ stream' = Sent(RescaleDelta(tb.in, in_ts, tb.fs, duration, stream.last, tb.out))
        /\ UNCHANGED asked

Asks(call) == asked' = call /\ UNCHANGED stream

AskGcd(a, b) == Asks([op |-> "gcd", a |-> a, b |-> b, ret |-> Gcd(a, b)])
AskRescale(a, b, c, rnd, pass) ==
    Asks([op |-> "rescale", a |-> a, b |-> b, c |-> c, rnd |-> rnd, pass |-> pass,
          ret |-> RescaleRnd(a, b, c, rnd, pass)])
AskCompare(a, p, b, q) ==
    Asks([op |-> "compare_ts", a |-> a, p |-> p, b |-> b, q |-> q, ret |-> CompareTs(a, p, b, q)])
AskReduce(a, b, max) ==
    Asks([op |-> "reduce", a |-> a, b |-> b, max |-> max, ret |-> Reduce(a, b, max)])
AskTwo(op, p, q, ret) == Asks([op |-> op, p |-> p, q |-> q, ret |-> ret])
AskNearest(q, list) ==
    Asks([op |-> "nearest", q |-> q, list |-> list, ret |-> FindNearest(q, list)])
AskAdd(p, q, inc, ts, n) ==
    Asks([op |-> "add_stable", p |-> p, q |-> q, inc |-> inc, ts |-> ts, n |-> n,
          ret |-> AddTimes(p, ts, q, inc, n)])

\* What n increments of q are in ticks of p.
Sum(p, q, n) == (2 * n * q.num * p.den + q.den * p.num) \div (2 * q.den * p.num)

Fractions == {Q(a, b) : a \in Small, b \in Small}
Positive  == {q \in Fractions : q.num > 0 /\ q.den > 0 /\ Gcd(q.num, q.den) = 1}
Finite    == {q \in Fractions : q.den > 0}

\* One question, or the packets of one stream.
Question ==
    \/ \E a, b \in Longs : AskGcd(a, b)
    \/ \E a, b, c \in Longs, rnd \in Rounds, pass \in BOOLEAN : AskRescale(a, b, c, rnd, pass)
    \/ \E a, b \in Longs \ {INT64_MIN}, p, q \in Positive : AskCompare(a, p, b, q)
    \/ \E a \in -20 .. 20, b \in 1 .. 20, max \in 1 .. INT_MAX : AskReduce(a, b, max)
    \/ \E p, q \in Finite : \/ AskTwo("mul", p, q, MulQ(p, q))
                            \/ AskTwo("add", p, q, AddQ(p, q))
                            \/ AskTwo("sub", p, q, SubQ(p, q))
                            \/ q.num # 0 /\ AskTwo("div", p, q, DivQ(p, q))
    \/ \E p, q \in Fractions : AskTwo("cmp", p, q, CmpQ(p, q))
    \/ \E q \in Finite, list \in [1 .. 3 -> Positive] : AskNearest(q, list)
    \/ \E p, q \in Positive, inc \in 1 .. 2, ts \in 0 .. 3, n \in 0 .. 8 :
          /\ CmpQ(q, p) >= 0 /\ inc * q.num <= INT_MAX /\ ts + Sum(p, q, inc * n) <= INT64_MAX
          /\ AskAdd(p, q, inc, ts, n)

NumbersNext ==
    /\ asked.op = "none"
    /\ \/ stream.tb = NoPts /\ Question
       \/ \E t \in TimeBases, duration \in 1 .. 7, in_ts \in 0 .. MaxTime :
             Packet([in |-> Q(t[1], t[2]), fs |-> Q(t[3], t[4]), out |-> Q(t[5], t[6])],
                    duration, in_ts)
-----------------------------------------------------------------------------
(***************************************************************************)
(* Properties                                                              *)
(***************************************************************************)
\* p/c as each rounding has it.
Rounded(p, c, rnd) ==
    CASE rnd = ZERO     -> Quot(p, c)
      [] rnd = INF      -> -Sign(p) * ((-Abs(p)) \div c)
      [] rnd = DOWN     -> p \div c
      [] rnd = UP       -> -((-p) \div c)
      [] rnd = NEAR_INF -> Sign(p) * ((2 * Abs(p) + c) \div (2 * c))

InRange(r) == IF Abs(r) > INT64_MAX THEN INT64_MIN ELSE r

\* No fraction within max is nearer to num/den (den > 0) than q is.
IsNearest(q, num, den, max) ==
    /\ q.den \in 1 .. max /\ Abs(q.num) <= max
    /\ \A n \in 0 .. max, d \in 1 .. max :
          Abs(q.num * den - num * q.den) * d <= Abs(Sign(num) * n * den - num * d) * q.den

Dist(p, q) == [num |-> Abs(p.num * q.den - q.num * p.den), den |-> p.den * q.den]
IsLess(p, q) == p.num * q.den < q.num * p.den

\* A number, an infinity or none.
Value(q) == IF q.den < 0 THEN Q(-q.num, -q.den) ELSE IF q.den = 0 THEN Q(Sign(q.num), 0) ELSE q
Compared(p, q) ==
    CASE Q(0, 0) \in {p, q} -> Undefined
      [] p.den = 0 /\ q.den = 0 -> Sign(Value(p).num - Value(q).num)
      [] OTHER -> Sign(Value(p).num * Value(q).den - Value(q).num * Value(p).den)

\* What does not fit a word on the way is computed as if it did: rescaling is exact
\* in every rounding and says so when the result does not fit, timestamps that fit
\* each other's time base compare as fractions, sums and products of rationals
\* are the nearest that fit, and adding a tick again and again stays within two.
AnswersAreExact ==
    LET x == asked IN
    CASE x.op = "none" -> TRUE
      [] x.op = "gcd" ->
            IF x.a = 0 \/ x.b = 0 THEN Abs(x.ret) = Abs(x.a + x.b)
            ELSE x.ret = Max({k \in 1 .. Abs(x.a) : x.a % k = 0 /\ x.b % k = 0})
      [] x.op = "rescale" ->
            x.ret = IF x.c <= 0 \/ x.b < 0 THEN INT64_MIN
                    ELSE IF x.pass /\ x.a \in {INT64_MIN, INT64_MAX} THEN x.a
                    ELSE LET a == IF x.a = INT64_MIN THEN x.a + 1 ELSE x.a
                         IN  InRange(Rounded(a * x.b, x.c, x.rnd))
      [] x.op = "compare_ts" ->
            LET a == x.a * x.p.num * x.q.den
                b == x.b * x.q.num * x.p.den
                Fits(n, d) == Abs(n) \div d < INT64_MAX
            IN  Fits(a, x.q.num * x.p.den) /\ Fits(b, x.p.num * x.q.den)
                => x.ret = Sign(a - b)
      [] x.op = "reduce" -> IsNearest(x.ret.q, x.a, x.b, x.max)
                            /\ (x.ret.exact <=> x.ret.q.num * x.b = x.a * x.ret.q.den)
      [] x.op = "mul" -> IsNearest(x.ret, x.p.num * x.q.num, x.p.den * x.q.den, INT_MAX)
      [] x.op = "div" -> IsNearest(x.ret, Sign(x.q.num) * x.p.num * x.q.den,
                                   x.p.den * Abs(x.q.num), INT_MAX)
      [] x.op = "add" -> IsNearest(x.ret, x.p.num * x.q.den + x.q.num * x.p.den,
                                   x.p.den * x.q.den, INT_MAX)
      [] x.op = "sub" -> IsNearest(x.ret, x.p.num * x.q.den - x.q.num * x.p.den,
                                   x.p.den * x.q.den, INT_MAX)
      [] x.op = "cmp" -> x.ret = Compared(x.p, x.q)
      [] x.op = "nearest" -> \A i \in DOMAIN x.list :
                                ~IsLess(Dist(x.q, x.list[i]), Dist(x.q, x.list[x.ret]))
      [] x.op = "add_stable" -> Abs(x.ret - (x.ts + Sum(x.p, x.q, x.inc * x.n))) <= 2

\* Timestamps that are rescaled to finer ticks by the durations between them are
\* never farther from the time than the first was, or than any before them.
DurationsKept == stream.before # NoPts => Abs(stream.error) <= Abs(stream.before)

NumbersAreExact == AnswersAreExact /\ DurationsKept
=============================================================================
