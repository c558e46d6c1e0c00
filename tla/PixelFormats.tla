---------------------------- MODULE PixelFormats ----------------------------
(***************************************************************************)
(* av_pix_fmt_descriptors of pixdesc.c: the formats whose samples are      *)
(* integers, with the fields and flags that its functions, imgutils.c and  *)
(* frame.c look at.  Formats named 0rgb, rgb0, 0bgr and bgr0 are xrgb,     *)
(* rgbx, xbgr and bgrx; Bayer patterns, whose components share a byte, and *)
(* uyyvyy411, whose luma has no constant step, are not there.              *)
(***************************************************************************)
EXTENDS Integers, Sequences

\* AVComponentDescriptor.
C(plane, step, offset, shift, depth) ==
    [plane |-> plane, step |-> step, offset |-> offset, shift |-> shift, depth |-> depth]

\* AVPixFmtDescriptor: log2_chroma_w, log2_chroma_h, flags and components.
D(sx, sy, flags, comp) == [sx |-> sx, sy |-> sy, flags |-> flags, comp |-> comp]

Bytes(depth) == (depth + 7) \div 8

\* A plane for each component: luma, two chromas and alpha; green, blue and red.
Plane(p, depth)           == C(p, Bytes(depth), 0, 0, depth)
Yuv(sx, sy, depth, flags) == D(sx, sy, flags, [i \in 1 .. 3 |-> Plane(i - 1, depth)])
YuvA(sx, sy, depth, flags) == D(sx, sy, flags, [i \in 1 .. 4 |-> Plane(i - 1, depth)])
Gbr(depth, flags)  == D(0, 0, flags, <<Plane(2, depth), Plane(0, depth), Plane(1, depth)>>)
GbrA(depth, flags) == D(0, 0, flags, Append(Gbr(depth, flags).comp, Plane(3, depth)))

\* Both chromas in one plane, at the bytes uv.
SemiPlanar(sx, sy, bytes, uv, shift, depth, flags) ==
    D(sx, sy, flags, <<C(0, bytes, 0, shift, depth), C(1, 2 * bytes, uv[1], shift, depth),
                       C(1, 2 * bytes, uv[2], shift, depth)>>)

\* Pixels of step bytes, with each component at a byte of its own.
Packed(step, offsets, depth, flags) ==
    D(0, 0, flags, [i \in DOMAIN offsets |-> C(0, step, offsets[i], 0, depth)])

yuv420p       == Yuv(1, 1, 8, {})
yuyv422       == D(1, 0, {}, <<C(0, 2, 0, 0, 8), C(0, 4, 1, 0, 8), C(0, 4, 3, 0, 8)>>)
yvyu422       == D(1, 0, {}, <<C(0, 2, 0, 0, 8), C(0, 4, 3, 0, 8), C(0, 4, 1, 0, 8)>>)
rgb24         == Packed(3, <<0, 1, 2>>, 8, {"RGB"})
bgr24         == Packed(3, <<2, 1, 0>>, 8, {"RGB"})
yuv422p       == Yuv(1, 0, 8, {})
yuv444p       == Yuv(0, 0, 8, {})
yuv410p       == Yuv(2, 2, 8, {})
yuv411p       == Yuv(2, 0, 8, {})
yuvj411p      == Yuv(2, 0, 8, {})
gray8         == Packed(1, <<0>>, 8, {"PSEUDOPAL"})
monowhite     == D(0, 0, {"BITSTREAM"}, <<C(0, 1, 0, 0, 1)>>)
monoblack     == D(0, 0, {"BITSTREAM"}, <<C(0, 1, 0, 7, 1)>>)
pal8          == Packed(1, <<0>>, 8, {"PAL"})
yuvj420p      == Yuv(1, 1, 8, {})
yuvj422p      == Yuv(1, 0, 8, {})
yuvj444p      == Yuv(0, 0, 8, {})
uyvy422       == D(1, 0, {}, <<C(0, 2, 1, 0, 8), C(0, 4, 0, 0, 8), C(0, 4, 2, 0, 8)>>)
bgr8          == D(0, 0, {"PSEUDOPAL", "RGB"}, <<C(0, 1, 0, 0, 3), C(0, 1, 0, 3, 3), C(0, 1, 0, 6, 2)>>)
bgr4          == D(0, 0, {"BITSTREAM", "RGB"}, <<C(0, 4, 3, 0, 1), C(0, 4, 1, 0, 2), C(0, 4, 0, 0, 1)>>)
bgr4_byte     == D(0, 0, {"PSEUDOPAL", "RGB"}, <<C(0, 1, 0, 0, 1), C(0, 1, 0, 1, 2), C(0, 1, 0, 3, 1)>>)
rgb8          == D(0, 0, {"PSEUDOPAL", "RGB"}, <<C(0, 1, 0, 6, 2), C(0, 1, 0, 3, 3), C(0, 1, 0, 0, 3)>>)
rgb4          == D(0, 0, {"BITSTREAM", "RGB"}, <<C(0, 4, 0, 0, 1), C(0, 4, 1, 0, 2), C(0, 4, 3, 0, 1)>>)
rgb4_byte     == D(0, 0, {"PSEUDOPAL", "RGB"}, <<C(0, 1, 0, 3, 1), C(0, 1, 0, 1, 2), C(0, 1, 0, 0, 1)>>)
nv12          == SemiPlanar(1, 1, 1, <<0, 1>>, 0, 8, {})
nv21          == SemiPlanar(1, 1, 1, <<1, 0>>, 0, 8, {})
argb          == Packed(4, <<1, 2, 3, 0>>, 8, {"RGB"})
rgba          == Packed(4, <<0, 1, 2, 3>>, 8, {"RGB"})
abgr          == Packed(4, <<3, 2, 1, 0>>, 8, {"RGB"})
bgra          == Packed(4, <<2, 1, 0, 3>>, 8, {"RGB"})
xrgb          == Packed(4, <<1, 2, 3>>, 8, {"RGB"})
rgbx          == Packed(4, <<0, 1, 2>>, 8, {"RGB"})
xbgr          == Packed(4, <<3, 2, 1>>, 8, {"RGB"})
bgrx          == Packed(4, <<2, 1, 0>>, 8, {"RGB"})
gray9be       == Packed(2, <<0>>, 9, {"BE"})
gray9le       == Packed(2, <<0>>, 9, {})
gray10be      == Packed(2, <<0>>, 10, {"BE"})
gray10le      == Packed(2, <<0>>, 10, {})
gray12be      == Packed(2, <<0>>, 12, {"BE"})
gray12le      == Packed(2, <<0>>, 12, {})
gray14be      == Packed(2, <<0>>, 14, {"BE"})
gray14le      == Packed(2, <<0>>, 14, {})
gray16be      == Packed(2, <<0>>, 16, {"BE"})
gray16le      == Packed(2, <<0>>, 16, {})
yuv440p       == Yuv(0, 1, 8, {})
yuvj440p      == Yuv(0, 1, 8, {})
yuv440p10le   == Yuv(0, 1, 10, {})
yuv440p10be   == Yuv(0, 1, 10, {"BE"})
yuv440p12le   == Yuv(0, 1, 12, {})
yuv440p12be   == Yuv(0, 1, 12, {"BE"})
yuva420p      == YuvA(1, 1, 8, {})
yuva422p      == YuvA(1, 0, 8, {})
yuva444p      == YuvA(0, 0, 8, {})
yuva420p9be   == YuvA(1, 1, 9, {"BE"})
yuva420p9le   == YuvA(1, 1, 9, {})
yuva422p9be   == YuvA(1, 0, 9, {"BE"})
yuva422p9le   == YuvA(1, 0, 9, {})
yuva444p9be   == YuvA(0, 0, 9, {"BE"})
yuva444p9le   == YuvA(0, 0, 9, {})
yuva420p10be  == YuvA(1, 1, 10, {"BE"})
yuva420p10le  == YuvA(1, 1, 10, {})
yuva422p10be  == YuvA(1, 0, 10, {"BE"})
yuva422p10le  == YuvA(1, 0, 10, {})
yuva444p10be  == YuvA(0, 0, 10, {"BE"})
yuva444p10le  == YuvA(0, 0, 10, {})
yuva420p16be  == YuvA(1, 1, 16, {"BE"})
yuva420p16le  == YuvA(1, 1, 16, {})
yuva422p16be  == YuvA(1, 0, 16, {"BE"})
yuva422p16le  == YuvA(1, 0, 16, {})
yuva444p16be  == YuvA(0, 0, 16, {"BE"})
yuva444p16le  == YuvA(0, 0, 16, {})
rgb48be       == Packed(6, <<0, 2, 4>>, 16, {"BE", "RGB"})
rgb48le       == Packed(6, <<0, 2, 4>>, 16, {"RGB"})
rgba64be      == Packed(8, <<0, 2, 4, 6>>, 16, {"BE", "RGB"})
rgba64le      == Packed(8, <<0, 2, 4, 6>>, 16, {"RGB"})
rgb565be      == D(0, 0, {"BE", "RGB"}, <<C(0, 2, -1, 3, 5), C(0, 2, 0, 5, 6), C(0, 2, 0, 0, 5)>>)
rgb565le      == D(0, 0, {"RGB"}, <<C(0, 2, 1, 3, 5), C(0, 2, 0, 5, 6), C(0, 2, 0, 0, 5)>>)
rgb555be      == D(0, 0, {"BE", "RGB"}, <<C(0, 2, -1, 2, 5), C(0, 2, 0, 5, 5), C(0, 2, 0, 0, 5)>>)
rgb555le      == D(0, 0, {"RGB"}, <<C(0, 2, 1, 2, 5), C(0, 2, 0, 5, 5), C(0, 2, 0, 0, 5)>>)
rgb444be      == D(0, 0, {"BE", "RGB"}, <<C(0, 2, -1, 0, 4), C(0, 2, 0, 4, 4), C(0, 2, 0, 0, 4)>>)
rgb444le      == D(0, 0, {"RGB"}, <<C(0, 2, 1, 0, 4), C(0, 2, 0, 4, 4), C(0, 2, 0, 0, 4)>>)
bgr48be       == Packed(6, <<4, 2, 0>>, 16, {"BE", "RGB"})
bgr48le       == Packed(6, <<4, 2, 0>>, 16, {"RGB"})
bgra64be      == Packed(8, <<4, 2, 0, 6>>, 16, {"BE", "RGB"})
bgra64le      == Packed(8, <<4, 2, 0, 6>>, 16, {"RGB"})
bgr565be      == D(0, 0, {"BE", "RGB"}, <<C(0, 2, 0, 0, 5), C(0, 2, 0, 5, 6), C(0, 2, -1, 3, 5)>>)
bgr565le      == D(0, 0, {"RGB"}, <<C(0, 2, 0, 0, 5), C(0, 2, 0, 5, 6), C(0, 2, 1, 3, 5)>>)
bgr555be      == D(0, 0, {"BE", "RGB"}, <<C(0, 2, 0, 0, 5), C(0, 2, 0, 5, 5), C(0, 2, -1, 2, 5)>>)
bgr555le      == D(0, 0, {"RGB"}, <<C(0, 2, 0, 0, 5), C(0, 2, 0, 5, 5), C(0, 2, 1, 2, 5)>>)
bgr444be      == D(0, 0, {"BE", "RGB"}, <<C(0, 2, 0, 0, 4), C(0, 2, 0, 4, 4), C(0, 2, -1, 0, 4)>>)
bgr444le      == D(0, 0, {"RGB"}, <<C(0, 2, 0, 0, 4), C(0, 2, 0, 4, 4), C(0, 2, 1, 0, 4)>>)
yuv420p9le    == Yuv(1, 1, 9, {})
yuv420p9be    == Yuv(1, 1, 9, {"BE"})
yuv420p10le   == Yuv(1, 1, 10, {})
yuv420p10be   == Yuv(1, 1, 10, {"BE"})
yuv420p12le   == Yuv(1, 1, 12, {})
yuv420p12be   == Yuv(1, 1, 12, {"BE"})
yuv420p14le   == Yuv(1, 1, 14, {})
yuv420p14be   == Yuv(1, 1, 14, {"BE"})
yuv420p16le   == Yuv(1, 1, 16, {})
yuv420p16be   == Yuv(1, 1, 16, {"BE"})
yuv422p9le    == Yuv(1, 0, 9, {})
yuv422p9be    == Yuv(1, 0, 9, {"BE"})
yuv422p10le   == Yuv(1, 0, 10, {})
yuv422p10be   == Yuv(1, 0, 10, {"BE"})
yuv422p12le   == Yuv(1, 0, 12, {})
yuv422p12be   == Yuv(1, 0, 12, {"BE"})
yuv422p14le   == Yuv(1, 0, 14, {})
yuv422p14be   == Yuv(1, 0, 14, {"BE"})
yuv422p16le   == Yuv(1, 0, 16, {})
yuv422p16be   == Yuv(1, 0, 16, {"BE"})
yuv444p16le   == Yuv(0, 0, 16, {})
yuv444p16be   == Yuv(0, 0, 16, {"BE"})
yuv444p10le   == Yuv(0, 0, 10, {})
yuv444p10be   == Yuv(0, 0, 10, {"BE"})
yuv444p9le    == Yuv(0, 0, 9, {})
yuv444p9be    == Yuv(0, 0, 9, {"BE"})
yuv444p12le   == Yuv(0, 0, 12, {})
yuv444p12be   == Yuv(0, 0, 12, {"BE"})
yuv444p14le   == Yuv(0, 0, 14, {})
yuv444p14be   == Yuv(0, 0, 14, {"BE"})
ya8           == Packed(2, <<0, 1>>, 8, {})
ya16le        == Packed(4, <<0, 2>>, 16, {})
ya16be        == Packed(4, <<0, 2>>, 16, {"BE"})
gbrp          == Gbr(8, {"RGB"})
gbrp9le       == Gbr(9, {"RGB"})
gbrp9be       == Gbr(9, {"BE", "RGB"})
gbrp10le      == Gbr(10, {"RGB"})
gbrp10be      == Gbr(10, {"BE", "RGB"})
gbrp12le      == Gbr(12, {"RGB"})
gbrp12be      == Gbr(12, {"BE", "RGB"})
gbrp14le      == Gbr(14, {"RGB"})
gbrp14be      == Gbr(14, {"BE", "RGB"})
gbrp16le      == Gbr(16, {"RGB"})
gbrp16be      == Gbr(16, {"BE", "RGB"})
gbrap         == GbrA(8, {"RGB"})
gbrap16le     == GbrA(16, {"RGB"})
gbrap16be     == GbrA(16, {"BE", "RGB"})
xyz12le       == D(0, 0, {}, <<C(0, 6, 0, 4, 12), C(0, 6, 2, 4, 12), C(0, 6, 4, 4, 12)>>)
xyz12be       == D(0, 0, {"BE"}, <<C(0, 6, 0, 4, 12), C(0, 6, 2, 4, 12), C(0, 6, 4, 4, 12)>>)
nv16          == SemiPlanar(1, 0, 1, <<0, 1>>, 0, 8, {})
nv20le        == SemiPlanar(1, 0, 2, <<0, 2>>, 0, 10, {})
nv20be        == SemiPlanar(1, 0, 2, <<0, 2>>, 0, 10, {"BE"})
ayuv64le      == Packed(8, <<2, 4, 6, 0>>, 16, {})
ayuv64be      == Packed(8, <<2, 4, 6, 0>>, 16, {"BE"})
p010le        == SemiPlanar(1, 1, 2, <<0, 2>>, 6, 10, {})
p010be        == SemiPlanar(1, 1, 2, <<0, 2>>, 6, 10, {"BE"})
p016le        == SemiPlanar(1, 1, 2, <<0, 2>>, 0, 16, {})
p016be        == SemiPlanar(1, 1, 2, <<0, 2>>, 0, 16, {"BE"})
gbrap12le     == GbrA(12, {"RGB"})
gbrap12be     == GbrA(12, {"BE", "RGB"})
gbrap10le     == GbrA(10, {"RGB"})
gbrap10be     == GbrA(10, {"BE", "RGB"})

Formats == {yuv420p, yuyv422, yvyu422, rgb24, bgr24, yuv422p, yuv444p, yuv410p,
            yuv411p, yuvj411p, gray8, monowhite, monoblack, pal8, yuvj420p, yuvj422p,
            yuvj444p, uyvy422, bgr8, bgr4, bgr4_byte, rgb8, rgb4, rgb4_byte, nv12,
            nv21, argb, rgba, abgr, bgra, xrgb, rgbx, xbgr, bgrx, gray9be, gray9le,
            gray10be, gray10le, gray12be, gray12le, gray14be, gray14le, gray16be,
            gray16le, yuv440p, yuvj440p, yuv440p10le, yuv440p10be, yuv440p12le,
            yuv440p12be, yuva420p, yuva422p, yuva444p, yuva420p9be, yuva420p9le,
            yuva422p9be, yuva422p9le, yuva444p9be, yuva444p9le, yuva420p10be,
            yuva420p10le, yuva422p10be, yuva422p10le, yuva444p10be, yuva444p10le,
            yuva420p16be, yuva420p16le, yuva422p16be, yuva422p16le, yuva444p16be,
            yuva444p16le, rgb48be, rgb48le, rgba64be, rgba64le, rgb565be, rgb565le,
            rgb555be, rgb555le, rgb444be, rgb444le, bgr48be, bgr48le, bgra64be,
            bgra64le, bgr565be, bgr565le, bgr555be, bgr555le, bgr444be, bgr444le,
            yuv420p9le, yuv420p9be, yuv420p10le, yuv420p10be, yuv420p12le,
            yuv420p12be, yuv420p14le, yuv420p14be, yuv420p16le, yuv420p16be,
            yuv422p9le, yuv422p9be, yuv422p10le, yuv422p10be, yuv422p12le,
            yuv422p12be, yuv422p14le, yuv422p14be, yuv422p16le, yuv422p16be,
            yuv444p16le, yuv444p16be, yuv444p10le, yuv444p10be, yuv444p9le,
            yuv444p9be, yuv444p12le, yuv444p12be, yuv444p14le, yuv444p14be, ya8,
            ya16le, ya16be, gbrp, gbrp9le, gbrp9be, gbrp10le, gbrp10be, gbrp12le,
            gbrp12be, gbrp14le, gbrp14be, gbrp16le, gbrp16be, gbrap, gbrap16le,
            gbrap16be, xyz12le, xyz12be, nv16, nv20le, nv20be, ayuv64le, ayuv64be,
            p010le, p010be, p016le, p016be, gbrap12le, gbrap12be, gbrap10le,
            gbrap10be}
=============================================================================
