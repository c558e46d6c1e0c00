------------------------------- MODULE Images -------------------------------
(***************************************************************************)
(* Where pixels and samples lie: imgutils.c, the lines of pixdesc.c, the   *)
(* picture buffers and the cropping of frame.c, and samplefmt.c.  Memory   *)
(* is a set of bits that are 1; addresses count bytes from the start of a  *)
(* buffer.                                                                 *)
(***************************************************************************)
EXTENDS PixelFormats, SequencesExt, FiniteSetsExt

CONSTANTS INT_MAX,         \* small, so that av_image_check_size refuses pictures
          Widths, Heights, Aligns,
          Lefts, Tops,     \* crop_left and crop_top of a frame of CropWidth by CropHeight
          CropWidth, CropHeight,
          NoImage

VARIABLE image   \* the last call, with what it returned

Error   == -1
NoPlane == -1

Aligned(x, align) == ((x + align - 1) \div align) * align
CeilShift(x, s)   == (x + 2 ^ s - 1) \div 2 ^ s
-----------------------------------------------------------------------------
Has(f, flag) == flag \in f.flags
HasPalette(f) == Has(f, "PAL") \/ Has(f, "PSEUDOPAL")
PlaneNumbers(f) == {f.comp[c].plane : c \in DOMAIN f.comp}
IsChroma(c) == c \in {2, 3}                   \* components are counted from 1
ShiftY(f, plane) == IF plane \in {1, 2} THEN f.sy ELSE 0
Rows(f, plane, height) == CeilShift(height, ShiftY(f, plane))
-----------------------------------------------------------------------------
\* av_image_fill_max_pixsteps and image_get_linesize.
ComponentsOf(f, plane) == {c \in DOMAIN f.comp : f.comp[c].plane = plane}
MaxStep(f, plane) == Max({0} \union {f.comp[c].step : c \in ComponentsOf(f, plane)})
MaxStepComp(f, plane) ==
    LET biggest == {c \in ComponentsOf(f, plane) : f.comp[c].step = MaxStep(f, plane)}
    IN  IF biggest = {} THEN 1 ELSE Min(biggest)

Linesize(f, width, plane) ==
    LET shifted == CeilShift(width, IF IsChroma(MaxStepComp(f, plane)) THEN f.sx ELSE 0)
        line == MaxStep(f, plane) * shifted
    IN  IF shifted # 0 /\ MaxStep(f, plane) > INT_MAX \div shifted THEN Error
        ELSE IF Has(f, "BITSTREAM") THEN (line + 7) \div 8 ELSE line

Linesizes(f, width) == [p \in 0 .. 3 |-> Linesize(f, width, p)]

\* av_image_fill_pointers of a buffer at ptr.
FillPointers(f, height, ptr, linesizes) ==
    LET Size(p) == Rows(f, p, height) * linesizes[p]
        Next(r, p) ==
            IF ~r.on \/ p \notin PlaneNumbers(f) THEN [r EXCEPT !.on = FALSE]
            ELSE IF \/ linesizes[p] > INT_MAX \div Rows(f, p, height)
                    \/ r.size > INT_MAX - Size(p) THEN [r EXCEPT !.size = Error, !.on = FALSE]
            ELSE [r EXCEPT !.data[p] = r.data[p - 1] + Size(p - 1), !.size = @ + Size(p)]
        none  == [p \in 0 .. 3 |-> NoPlane]
        first == [on |-> TRUE, data |-> [none EXCEPT ![0] = ptr], size |-> Size(0)]
    IN  IF linesizes[0] > (INT_MAX - 1024) \div height
        THEN [on |-> FALSE, data |-> [none EXCEPT ![0] = ptr], size |-> Error]
        ELSE IF HasPalette(f)
        THEN [on |-> TRUE, data |-> [none EXCEPT ![0] = ptr, ![1] = ptr + Size(0)],
              size |-> Size(0) + 256 * 4]
        ELSE FoldLeft(Next, first, <<1, 2, 3>>)

\* av_image_check_size, whose product of 64 bits is compared by division.
CheckSize(w, h) == LET stride == 8 * w + 128 * 8 IN stride <= (INT_MAX - 1) \div (h + 128)

\* av_image_fill_arrays and av_image_get_buffer_size.
FillArrays(f, width, height, align) ==
    LET lines == Linesizes(f, width)
        linesize == [p \in 0 .. 3 |-> Aligned(lines[p], align)]
        r == FillPointers(f, height, 0, linesize)
    IN  IF ~CheckSize(width, height) \/ Error \in {lines[p] : p \in 0 .. 3}
        THEN [ret |-> Error]
        ELSE [ret |-> r.size, data |-> r.data, linesize |-> linesize]

BufferSize(f, width, height, align) ==
    IF ~CheckSize(width, height) THEN Error
    ELSE IF Has(f, "PSEUDOPAL") THEN Aligned(width, align) * height
    ELSE FillArrays(f, width, height, align).ret

\* av_image_copy_to_buffer: where each plane, and the palette, are written to.
CopyToBuffer(f, width, height, align) ==
    LET last  == Max(PlaneNumbers(f))
        lines == Linesizes(f, width)
        Step(p) == Aligned(lines[p], align)
        Start(p) == FoldLeft(LAMBDA s, q : s + Rows(f, q, height) * Step(q), 0, [i \in 1 .. p |-> i - 1])
    IN  [start |-> [p \in 0 .. last |-> Start(p)], step |-> [p \in 0 .. last |-> Step(p)],
         palette |-> IF Has(f, "PAL") THEN Start(last + 1) ELSE NoPlane]
-----------------------------------------------------------------------------
\* av_read_image_line and av_write_image_line: the place of bit k of the value
\* of pixel i, of a line of component c that begins with pixel x.
Walk(f, comp, x, i) ==
    LET skip == x * comp.step + comp.offset
        Turn(w, j) == LET s == w.shift - comp.step
                      IN  [p |-> w.p - (s \div 8), shift |-> s % 8]
    IN  FoldLeft(Turn, [p |-> skip \div 8, shift |-> (8 - comp.depth) - (skip % 8)],
                 [j \in 1 .. i |-> j])

BitAt(f, c, x, i, k) ==
    LET comp == f.comp[c]
        w == Walk(f, comp, x, i)
        p == (x + i) * comp.step + comp.offset
        n == comp.shift + k
    IN  IF Has(f, "BITSTREAM") THEN <<comp.plane, w.p, w.shift + k>>
        ELSE IF comp.shift + comp.depth <= 8
        THEN <<comp.plane, IF Has(f, "BE") THEN p + 1 ELSE p, n>>
        ELSE <<comp.plane, IF Has(f, "BE") THEN p + 1 - n \div 8 ELSE p + n \div 8, n % 8>>

WriteLine(bits, f, c, x, values) ==
    bits \union UNION {{BitAt(f, c, x, i - 1, k) : k \in values[i]} : i \in DOMAIN values}

ReadLine(bits, f, c, x, w) ==
    [i \in 1 .. w |-> {k \in 0 .. f.comp[c].depth - 1 : BitAt(f, c, x, i - 1, k) \in bits}]

\* What a component of black is, 16, 128 or all bits, in av_image_fill_black.
BlackOf(f, c, limited) ==
    LET depth == f.comp[c].depth IN
    IF c = 1 /\ limited THEN {depth - 4}
    ELSE IF IsChroma(c) /\ ~Has(f, "RGB") THEN {depth - 1}
    ELSE IF c = 4 THEN 0 .. depth - 1 ELSE {}

\* A line of it: one block of whole pixels, again and again (no format of Formats
\* is refused).
FillBlack(f, jpeg, width) ==
    LET limited == ~Has(f, "RGB") /\ ~jpeg
        Size(p) == MaxStep(f, p)
        Pixels(c) == [i \in 1 .. Size(f.comp[c].plane) \div f.comp[c].step |-> BlackOf(f, c, limited)]
        block == UNION {WriteLine({}, f, c, 0, Pixels(c)) : c \in DOMAIN f.comp}
        line == UNION {{p} \X (0 .. Linesize(f, width, p) - 1) \X (0 .. 7) : p \in PlaneNumbers(f)}
    IN  IF Has(f, "BITSTREAM") THEN IF f = monowhite THEN line ELSE {}
        ELSE {b \in line : <<b[1], b[2] % Size(b[1]), b[3]>> \in block}
-----------------------------------------------------------------------------
\* get_video_buffer.
VideoBuffer(f, width, height, align) ==
    LET Fits(i) == Linesize(f, Aligned(width, i), 0) % align = 0
        tries == {i \in {1, 2, 4, 8, 16, 32, 64} : i <= align}
        i     == IF \E k \in tries : Fits(k) THEN Min({k \in tries : Fits(k)}) ELSE Max(tries)
        lines == Linesizes(f, Aligned(width, i))
        linesize == [p \in 0 .. 3 |-> Aligned(lines[p], align)]
        padding == IF align > 32 THEN align ELSE 32
        r == FillPointers(f, Aligned(height, 32), 0, linesize)
    IN  [linesize |-> linesize, size |-> r.size + 4 * padding, width |-> width, height |-> height,
         data |-> [p \in 0 .. 3 |-> IF r.data[p] = NoPlane THEN NoPlane ELSE r.data[p] + p * padding]]

\* calc_cropping_offsets.
CroppingOffsets(f, x, left, top) ==
    LET Comp(p) == f.comp[Min(ComponentsOf(f, p))]
        Left(p) == left \div 2 ^ (IF p \in {1, 2} THEN f.sx ELSE 0)
        Top(p)  == top \div 2 ^ ShiftY(f, p)
    IN  [p \in {q \in 0 .. 3 : x.data[q] # NoPlane} |->
            IF HasPalette(f) /\ p = 1 THEN 0 ELSE Top(p) * x.linesize[p] + Left(p) * Comp(p).step]

\* ff_ctz.
Ctz(n) == IF n = 0 THEN 31 ELSE Max({k \in 0 .. 30 : n % 2 ^ k = 0})


\* crop_left rounded so that the alignment of the data is kept.
Rounded(f, x, left, top) ==
    LET offsets == CroppingOffsets(f, x, left, top)
        least == Min({Ctz(offsets[p]) : p \in DOMAIN offsets})
        to == left - (left % 2 ^ (5 + Ctz(left) - least))
        new == IF left = 0 \/ least >= 5 THEN left ELSE to
    IN  [left |-> new, offsets |-> CroppingOffsets(f, x, new, top)]

Refused == [ok |-> FALSE]

\* av_frame_apply_cropping.
ApplyCropping(f, x, left, top, right, bottom, unaligned) ==
    LET plain == [left |-> left, offsets |-> CroppingOffsets(f, x, left, top)]
        least == Min({Ctz(plain.offsets[p]) : p \in DOMAIN plain.offsets})
        r == IF unaligned THEN plain ELSE Rounded(f, x, left, top)
    IN  IF left + right >= x.width \/ top + bottom >= x.height THEN Refused
        ELSE IF Has(f, "BITSTREAM")
        THEN [ok |-> TRUE, left |-> 0, top |-> 0,
              frame |-> [x EXCEPT !.width = @ - right, !.height = @ - bottom]]
        ELSE IF ~unaligned /\ Ctz(left) < least THEN Refused
        ELSE [ok |-> TRUE, left |-> r.left, top |-> top,
              frame |-> [x EXCEPT !.width = @ - (r.left + right), !.height = @ - (top + bottom),
                                  !.data = [p \in 0 .. 3 |-> IF p \in DOMAIN r.offsets
                                                             THEN @[p] + r.offsets[p] ELSE NoPlane]]]
-----------------------------------------------------------------------------
\* av_samples_get_buffer_size and av_samples_fill_arrays; align 0 is chosen.
SamplesSize(planar, size, channels, samples, align) ==
    LET n == IF align = 0 THEN Aligned(samples, 32) ELSE samples
        a == IF align = 0 THEN 1 ELSE align
        line == Aligned(n * size * (IF planar THEN 1 ELSE channels), a)
    IN  IF \/ align = 0 /\ samples > INT_MAX - 31
           \/ channels > INT_MAX \div a
           \/ channels * n > (INT_MAX - a * channels) \div size
        THEN [ret |-> Error]
        ELSE [ret |-> IF planar THEN line * channels ELSE line, linesize |-> line]

FillSamples(planar, size, channels, samples, align) ==
    LET r == SamplesSize(planar, size, channels, samples, align) IN
    IF r.ret = Error THEN r
    ELSE r @@ [data |-> [ch \in 0 .. (IF planar THEN channels ELSE 1) - 1 |-> ch * r.linesize]]

\* What av_samples_copy and av_samples_set_silence touch of each plane.
Touched(planar, size, channels, data, offset, samples) ==
    LET block == size * (IF planar THEN 1 ELSE channels) IN
    [ch \in DOMAIN data |-> [from |-> data[ch] + offset * block, bytes |-> samples * block]]
-----------------------------------------------------------------------------
\* The calls of a user, each a behaviour of its own.
ImagesInit == image = NoImage

AskArrays(f, w, h, align) ==
    image' = [call |-> "arrays", f |-> f, w |-> w, h |-> h, arrays |-> FillArrays(f, w, h, align),
              size |-> BufferSize(f, w, h, align), copy |-> CopyToBuffer(f, w, h, align)]

AskLine(f, c, x, values) ==
    LET bits == WriteLine({}, f, c, x, values)
    IN  image' = [call |-> "line", f |-> f, c |-> c, x |-> x, values |-> values,
                  read |-> [d \in DOMAIN f.comp |-> ReadLine(bits, f, d, 0, x + Len(values))]]

AskBlack(f, jpeg, w) ==
    image' = [call |-> "black", f |-> f, jpeg |-> jpeg, w |-> w, line |-> FillBlack(f, jpeg, w)]

AskFrame(f, w, h, align) ==
    /\ CheckSize(w, h)
    /\ image' = [call |-> "frame", f |-> f, align |-> align, frame |-> VideoBuffer(f, w, h, align)]

AskCrop(f, left, top, unaligned) ==
    LET x == VideoBuffer(f, CropWidth, CropHeight, 32)
    IN  /\ CheckSize(CropWidth, CropHeight)
        /\ image' = [call |-> "crop", f |-> f, left |-> left, top |-> top,
                      unaligned |-> unaligned, of |-> x,
                      cropped |-> ApplyCropping(f, x, left, top, 1, 0, unaligned)]

AskSamples(planar, size, channels, samples, align) ==
    image' = [call |-> "samples", planar |-> planar, size |-> size, channels |-> channels,
              samples |-> samples, align |-> align,
              arrays |-> FillSamples(planar, size, channels, samples, align)]

Question ==
    \/ \E f \in Formats, w \in Widths, h \in Heights, align \in Aligns :
          AskArrays(f, w, h, align) \/ AskFrame(f, w, h, align)
    \/ \E f \in Formats, c \in 1 .. 4, x \in {0, 1, 3} :
          /\ c \in DOMAIN f.comp
          /\ \E values \in [1 .. 2 -> {{}, {f.comp[c].depth - 1}, 0 .. f.comp[c].depth - 1}] :
                AskLine(f, c, x, values)
    \/ \E f \in Formats, jpeg \in BOOLEAN, w \in Widths : AskBlack(f, jpeg, w)
    \/ \E f \in Formats, left \in Lefts, top \in Tops, unaligned \in BOOLEAN :
          AskCrop(f, left, top, unaligned)
    \/ \E planar \in BOOLEAN, size \in {1, 2, 4, 8}, channels \in 1 .. 3, samples \in Widths,
         align \in Aligns \union {0} : AskSamples(planar, size, channels, samples, align)

ImagesNext == image = NoImage /\ Question

-----------------------------------------------------------------------------
(***************************************************************************)
(* Properties                                                              *)
(***************************************************************************)
CompWidth(f, c, w) == CeilShift(w, IF IsChroma(c) THEN f.sx ELSE 0)
Samples(f, w) == UNION {{c} \X (0 .. CompWidth(f, c, w) - 1) : c \in DOMAIN f.comp}
BitsOf(f, s)  == {BitAt(f, s[1], 0, s[2], k) : k \in 0 .. f.comp[s[1]].depth - 1}

\* The samples of a line of w pixels have bits of their own within the line.
LineHolds(f, w) ==
    /\ \A s \in Samples(f, w) : BitsOf(f, s) \subseteq
          {f.comp[s[1]].plane} \X (0 .. Linesize(f, w, f.comp[s[1]].plane) - 1) \X (0 .. 7)
    /\ Cardinality(UNION {BitsOf(f, s) : s \in Samples(f, w)})
          = FoldLeft(+, 0, [c \in DOMAIN f.comp |-> f.comp[c].depth * CompWidth(f, c, w)])

Planes(x) == {p \in 0 .. 3 : x.data[p] # NoPlane}

\* What plane p takes of a buffer, which is 256 words of a palette for PAL's second.
Extent(f, x, h, p) ==
    IF HasPalette(f) /\ p = 1 THEN 1024 ELSE Rows(f, p, h) * x.linesize[p]

\* The planes follow each other, gap bytes apart, and fill size.
Consecutive(f, x, h, size, gap) ==
    /\ x.data[0] = 0
    /\ \A p \in Planes(x) \ {0} : x.data[p] = x.data[p - 1] + Extent(f, x, h, p - 1) + gap
    /\ LET last == Max(Planes(x)) IN x.data[last] + Extent(f, x, h, last) <= size
    /\ PlaneNumbers(f) \subseteq Planes(x)

ArraysInPlace(q) ==
    LET x == q.arrays IN
    \/ x.ret = Error /\ q.size = Error
    \/ /\ x.ret <= INT_MAX
       /\ \A p \in PlaneNumbers(q.f) : Linesize(q.f, q.w, p) <= x.linesize[p]
       /\ Consecutive(q.f, x, q.h, x.ret, 0)
       /\ \A p \in DOMAIN q.copy.start : q.copy.start[p] = x.data[p] /\ q.copy.step[p] = x.linesize[p]
       /\ Has(q.f, "PAL") => q.copy.palette = x.data[1]
       /\ q.size = IF Has(q.f, "PSEUDOPAL") THEN x.data[1] ELSE x.ret

LineInPlace(q) ==
    \A d \in DOMAIN q.f.comp :
        q.read[d] = [i \in 1 .. q.x |-> {}]
                        \o (IF d = q.c THEN q.values ELSE [i \in DOMAIN q.values |-> {}])

\* Black is 16 in limited range or 0, 128 for both chromas, and opaque.
IsBlack(q, c) ==
    LET depth == q.f.comp[c].depth
        limited == ~Has(q.f, "RGB") /\ ~q.jpeg
    IN  CASE Has(q.f, "BITSTREAM") -> IF q.f = monowhite THEN {0} ELSE {}
          [] c = 1 -> IF limited THEN {depth - 4} ELSE {}
          [] c = 4 -> 0 .. depth - 1
          [] OTHER -> IF Has(q.f, "RGB") THEN {} ELSE {depth - 1}

BlackInPlace(q) ==
    /\ LineHolds(q.f, q.w)
    /\ \A c \in DOMAIN q.f.comp :
          LET w == CompWidth(q.f, c, q.w)
          IN  ReadLine(q.line, q.f, c, 0, w) = [i \in 1 .. w |-> IsBlack(q, c)]

FrameInPlace(q) ==
    LET x == q.frame
        gap == IF q.align > 32 THEN q.align ELSE 32
    IN  /\ \A p \in PlaneNumbers(q.f) : /\ x.linesize[p] % q.align = 0
                                        /\ Linesize(q.f, x.width, p) <= x.linesize[p]
        /\ Consecutive(q.f, x, Aligned(x.height, 32), x.size - gap, gap)

\* Where the first byte of sample <<i, j>> of component c is.
Address(f, x, c, i, j) ==
    x.data[f.comp[c].plane] + j * x.linesize[f.comp[c].plane] + i * f.comp[c].step

CropInPlace(q) ==
    LET x == q.cropped.frame
        left == q.cropped.left
        top  == q.cropped.top
    IN  q.cropped.ok /\ q.left % 2 ^ q.f.sx = 0 /\ q.top % 2 ^ q.f.sy = 0 =>
        /\ x.width >= 1 /\ x.height >= 1
        /\ left + x.width <= q.of.width /\ top + x.height <= q.of.height
        /\ \A c \in DOMAIN q.f.comp :
              Address(q.f, x, c, 0, 0)
                = Address(q.f, q.of, c, left \div 2 ^ (IF IsChroma(c) THEN q.f.sx ELSE 0),
                                        top \div 2 ^ (IF IsChroma(c) THEN q.f.sy ELSE 0))
        /\ ~q.unaligned => \A p \in Planes(x) : x.data[p] % 32 = 0

\* Every part of them that is copied or silenced lies in its plane of the buffer.
SamplesInPlace(q) ==
    q.arrays.ret # Error => \A offset \in 0 .. q.samples :
        LET t == Touched(q.planar, q.size, q.channels, q.arrays.data, offset, q.samples - offset)
        IN  \A ch \in DOMAIN t :
               /\ q.arrays.data[ch] <= t[ch].from
               /\ t[ch].from + t[ch].bytes <= q.arrays.data[ch] + q.arrays.linesize
               /\ q.arrays.data[ch] + q.arrays.linesize <= q.arrays.ret
               /\ ch > 0 => q.arrays.data[ch - 1] + q.arrays.linesize <= q.arrays.data[ch]

=============================================================================
