---------------------------- MODULE LivePixels ----------------------------
(* The pixel arithmetic of liveimg.c: the fixed-point YUV to RGB          *)
(* conversion, the chroma of the YUV8, YUV8B and YUV8C macropixels, the   *)
(* YUV8B transparency heuristic, and the five palette encodings of PAL8   *)
(* bitmaps.  All operators are pure; the properties at the end compare    *)
(* them with the reference formulas of the live-view decoder description  *)
(* over every byte they can be given.                                     *)
(*                                                                        *)
(* Whether plain char is signed is chosen by the build (x86: signed, ARM  *)
(* Linux: unsigned), so operators that read a frame byte through a char   *)
(* take that choice as the parameter cs and the properties hold for both. *)
(* Conversions to int8_t and to a signed char wrap modulo 2^8, as gcc      *)
(* defines them.                                                          *)
EXTENDS Integers, Sequences

Byte == 0 .. 255
SByte == -128 .. 127

\* int -> int8_t (or signed char): modulo 2^8
Wrap8(i) == ((i + 128) % 256) - 128

\* int -> uint8_t (or unsigned char): modulo 2^8
U8(i) == i % 256

\* a frame byte read through plain char, promoted to int
Char(cs, b) == IF cs THEN Wrap8(b) ELSE U8(b)

\* a small int stored back into plain char
ToChar(cs, i) == IF cs THEN Wrap8(i) ELSE U8(i)

-----------------------------------------------------------------------------
(* clip_yuv, yuv_to_r/g/b, clamp_uint8, clamp_int8.  (x << 12) is x*4096  *)
(* and >> 12 on a negative int is gcc's arithmetic shift, a floor         *)
(* division.                                                              *)

\* clip_yuv with its upper test off by one: 256 is stored into uint8_t
ClipYuvWrap(v) == IF v < 0 THEN 0 ELSE IF v > 256 THEN 255 ELSE U8(v)

ClipYuv(v) == IF v < 0 THEN 0 ELSE IF v > 255 THEN 255 ELSE v

YuvToR(y, v) == ClipYuv((y * 4096 + v * 5743 + 2048) \div 4096)

YuvToG(y, u, v) == ClipYuv((y * 4096 - u * 1411 - v * 2925 + 2048) \div 4096)

YuvToB(y, u) == ClipYuv((y * 4096 + u * 7258 + 2048) \div 4096)

ClampUint8(v) == IF v > 255 THEN 255 ELSE v

ClampInt8(v) == IF v > 127 THEN 127 ELSE IF v < -128 THEN -128 ELSE v

\* the three calls every decoder makes for one pixel (y uint8_t, u v int8_t)
Rgb(y, u, v) == [r |-> YuvToR(y, v), g |-> YuvToG(y, u, v), b |-> YuvToB(y, u)]

-----------------------------------------------------------------------------
(* Macropixels of the viewport and bitmap decoders.  p is the sequence of *)
(* frame bytes; the result the pixels written, in order.                  *)

\* yuv_live_to_cd_rgb: U Y1 V Y2 Y3 Y4, chroma shared by four pixels
YuvPixels(cs, p, skip) ==
    LET u == Wrap8(Char(cs, p[1]))
        v == Wrap8(Char(cs, p[3]))
        ys == IF skip THEN <<p[2], p[4]>> ELSE <<p[2], p[4], p[5], p[6]>>
    IN [i \in 1 .. Len(ys) |-> Rgb(ys[i], u, v)]

\* a YUV8B decoder copied from YUV8C without the bias
Yuv16PixelsNoBias(cs, p, skip, bias) ==
    LET u == Wrap8(Char(cs, p[1]))
        v == Wrap8(Char(cs, p[3]))
        ys == IF skip THEN <<p[2]>> ELSE <<p[2], p[4]>>
    IN [i \in 1 .. Len(ys) |-> Rgb(ys[i], u, v)]

\* yuvb_live_to_cd_rgb (bias TRUE) and yuvc_live_to_cd_rgb: U Y1 V Y2;
\* char p0 = p[0] - 0x80 stores the difference back into a plain char
Yuv16Pixels(cs, p, skip, bias) ==
    LET d == IF bias THEN 128 ELSE 0
        u == Wrap8(ToChar(cs, Char(cs, p[1]) - d))
        v == Wrap8(ToChar(cs, Char(cs, p[3]) - d))
        ys == IF skip THEN <<p[2]>> ELSE <<p[2], p[4]>>
    IN [i \in 1 .. Len(ys) |-> Rgb(ys[i], u, v)]

\* yuvb_live_to_cd_rgba's alpha: the macropixel read as a little-endian
\* unsigned compared with 0x800080
Yuv16Alpha(p) ==
    IF p[1] + 256 * p[2] + 65536 * p[3] + 16777216 * p[4] = 8388736
    THEN 0 ELSE 255

-----------------------------------------------------------------------------
(* Palettes.  A palette is the sequence of its bytes; entry i occupies     *)
(* bytes 4i+1 .. 4i+4 in AYUV (palette_entry_ayuv_t) or VUYA               *)
(* (palette_entry_vuya_t) order, u and v being int8_t fields.             *)

AYUV(pal, i) == [a |-> pal[4*i+1], y |-> pal[4*i+2],
                 u |-> Wrap8(pal[4*i+3]), v |-> Wrap8(pal[4*i+4])]

VUYA(pal, i) == [v |-> Wrap8(pal[4*i+1]), u |-> Wrap8(pal[4*i+2]),
                 y |-> pal[4*i+3], a |-> pal[4*i+4]]

Alpha2Lookup == <<128, 171, 214, 255>>

Alpha2(a) == Alpha2Lookup[(a % 4) + 1]

Rgba(a, y, u, v) == LET c == Rgb(y, u, v) IN [r |-> c.r, g |-> c.g, b |-> c.b, a |-> a]

Transparent == [r |-> 0, g |-> 0, b |-> 0, a |-> 0]

\* the chroma sums stored into int8_t without clamp_int8
SummedWrap(e1, e2) == [y |-> ClampUint8(e1.y + e2.y),
                       u |-> Wrap8(e1.u + e2.u),
                       v |-> Wrap8(e1.v + e2.v)]

\* the sum of two entries' y, u and v as the nibble formats take it
Summed(e1, e2) == [y |-> ClampUint8(e1.y + e2.y),
                   u |-> ClampInt8(e1.u + e2.u),
                   v |-> ClampInt8(e1.v + e2.v)]

\* palette_type1_to_rgba: two 4-bit indices; low nibble 0 is gray
PaletteType1ToRgba(pal, pixel) ==
    LET i1 == pixel % 16
        i2 == pixel \div 16
        s  == Summed(AYUV(pal, i1), AYUV(pal, i2))
        u  == IF i1 = 0 THEN 0 ELSE s.u
        v  == IF i1 = 0 THEN 0 ELSE s.v
    IN Rgba((AYUV(pal, i1).a + AYUV(pal, i2).a) \div 2, s.y, u, v)

\* palette_type2_to_rgba and palette_type4_to_rgba: two 4-bit indices,
\* the halved alpha sum through alpha2_lookup
NibblePairToRgba(e1, e2) ==
    LET s == Summed(e1, e2)
    IN Rgba(Alpha2(U8((e1.a + e2.a) \div 2)), s.y, s.u, s.v)

PaletteType2ToRgba(pal, pixel) ==
    NibblePairToRgba(AYUV(pal, pixel % 16), AYUV(pal, pixel \div 16))

PaletteType4ToRgba(pal, pixel) ==
    IF pixel = 0 THEN Transparent
    ELSE NibblePairToRgba(VUYA(pal, pixel % 16), VUYA(pal, pixel \div 16))

\* palette_AYUV_to_rgba (types 3 and 5): one VUYA entry per byte
PaletteAYUVToRgba(pal, pixel, shift) ==
    LET e == VUYA(pal, pixel)
    IN IF pixel = 0 THEN Transparent
       ELSE Rgba(Alpha2(e.a \div 2^shift), e.y, e.u, e.v)

\* the to_rgba of palette_funcs[t], t in 1..5
ToRgba(t, pal, pixel) ==
    CASE t = 1 -> PaletteType1ToRgba(pal, pixel)
      [] t = 2 -> PaletteType2ToRgba(pal, pixel)
      [] t = 3 -> PaletteAYUVToRgba(pal, pixel, 0)
      [] t = 4 -> PaletteType4ToRgba(pal, pixel)
      [] t = 5 -> PaletteAYUVToRgba(pal, pixel, 4)

\* palette_type1_default, from a540 playback mode
PaletteType1Default ==
    << 0, 0, 0, 0,  255, 224, 0, 0,  255, 96, 238, 98,  255, 185, 0, 0,
       127, 0, 0, 0,  255, 126, 161, 179,  255, 204, 184, 94,  255, 95, 0, 0,
       255, 148, 197, 93,  255, 138, 80, 176,  255, 75, 61, 212,  127, 40, 0, 0,
       127, 0, 123, 226,  255, 48, 0, 0,  255, 105, 0, 0,  255, 0, 0, 0 >>

\* convert_palette: the table of 256 colours for a frame whose header
\* names palette type pt with its bytes pal (palette_data_start # 0), or
\* no palette (pal = <<>>); types past the table fall back to the default.
\* Type 0 with a palette calls the NULL to_rgba (LiveImg's NoNullDeref).
PaletteRgba(pt, pal) ==
    LET useDefault == pt > 5 \/ pal = <<>>
        t == IF useDefault THEN 1 ELSE pt
        p == IF useDefault THEN PaletteType1Default ELSE pal
    IN [i \in Byte |-> ToRgba(t, p, i)]

-----------------------------------------------------------------------------
(* Reference definitions: the decoder description's real-valued          *)
(* formulas R = Y + 1.402 V, G = Y - 0.3441 U - 0.7141 V, B = Y + 1.772 U, *)
(* rounded to the nearest integer and clipped to [0, 255].                *)

RoundDiv(n, d) == (2 * n + d) \div (2 * d)

RefR(y, v) == ClipYuv(RoundDiv(1000 * y + 1402 * v, 1000))

RefG(y, u, v) == ClipYuv(RoundDiv(10000 * y - 3441 * u - 7141 * v, 10000))

RefB(y, u) == ClipYuv(RoundDiv(1000 * y + 1772 * u, 1000))

Near(a, b) == a - b \in -1 .. 1

\* the two's-complement reading of a byte the description calls signed
Signed(b) == IF b >= 128 THEN b - 256 ELSE b

LumaSample == {0, 1, 2, 64, 127, 128, 129, 200, 253, 254, 255}

ChromaSample == {-128, -127, -64, -1, 0, 1, 63, 64, 126, 127}

\* palette entries as the nibble formats see them
Entries == [a : {0, 3}, y : {0, 128, 255}, u : ChromaSample, v : ChromaSample]

\* 256 entries of every alpha, luma and chroma, for types 3 to 5
PalAll == [i \in 1 .. 1024 |-> (i * 37 + i \div 4) % 256]

(* yuv_to_r, yuv_to_g and yuv_to_b agree within one with the reference     *)
(* formulas for every luma and every signed chroma (G over a luma sample): *)
(* the 12-bit coefficients, the rounding term 2048, the floor of the       *)
(* shift of a negative sum and clip_yuv at both ends.                      *)
ConversionMatchesSpec ==
    /\ \A y \in Byte, v \in SByte : Near(YuvToR(y, v), RefR(y, v))
    /\ \A y \in Byte, u \in SByte : Near(YuvToB(y, u), RefB(y, u))
    /\ \A y \in LumaSample, u, v \in SByte : Near(YuvToG(y, u, v), RefG(y, u, v))

(* Chroma bytes are decoded as the description says: YUV8B's are bias-128 *)
(* (stored unsigned, decoded signed), YUV8C's and YUV8's are already        *)
(* signed.  Holds for every byte pair and either signedness of plain char, *)
(* through char p0 = p[0] - 0x80 wrapping in a char.  And a YUV8B bitmap   *)
(* macropixel is transparent exactly when its decoded chroma is neutral    *)
(* and both its lumas are 0, the reserved pattern.                          *)
ChromaAsSpecified ==
    \A cs \in BOOLEAN, u, v \in Byte :
        LET p == <<u, 100, v, 200, 0, 255>>
        IN /\ Yuv16Pixels(cs, p, FALSE, TRUE)
                = <<Rgb(100, u - 128, v - 128), Rgb(200, u - 128, v - 128)>>
           /\ Yuv16Pixels(cs, p, FALSE, FALSE)
                = <<Rgb(100, Signed(u), Signed(v)), Rgb(200, Signed(u), Signed(v))>>
           /\ YuvPixels(cs, p, TRUE)
                = <<Rgb(100, Signed(u), Signed(v)), Rgb(200, Signed(u), Signed(v))>>
           /\ \A y1, y2 \in {0, 1} :
                (Yuv16Alpha(<<u, y1, v, y2>>) = 0)
                    <=> (u - 128 = 0 /\ v - 128 = 0 /\ y1 = 0 /\ y2 = 0)

(* The nibble formats add two entries' chroma with clamp_int8, so a pixel  *)
(* made of two entries whose chroma leans the same way leans that way too: *)
(* its blue (for U) and red (for V) are on the same side of the gray of    *)
(* its luma.  An int8_t sum would wrap 64 + 64 to -128.                    *)
SummedChromaKeepsHue ==
    \A e1, e2 \in Entries :
        LET c == NibblePairToRgba(e1, e2)
            y == ClampUint8(e1.y + e2.y)
        IN /\ e1.u >= 0 /\ e2.u >= 0 => c.b >= y
           /\ e1.u <= 0 /\ e2.u <= 0 => c.b <= y
           /\ e1.v >= 0 /\ e2.v >= 0 => c.r >= y
           /\ e1.v <= 0 /\ e2.v <= 0 => c.r <= y

=============================================================================
