------------------------------ MODULE LiveImg ------------------------------
(***************************************************************************)
(* Live-view decoding of src/liveimg.c: liveimg.get_viewport_pimg and      *)
(* liveimg.get_bitmap_pimg validate an untrusted frame, then decode it     *)
(* into a planar image (pimg) that the caller passes back on the next call *)
(* for reuse.                                                              *)
(*                                                                         *)
(* Pixel values are abstracted away: a decode is modelled by the byte      *)
(* ranges it reads from the frame, the number of pixels it writes into     *)
(* each plane, and whether it writes through a NULL plane or calls a NULL  *)
(* palette function.  Descriptor fields are u32 (spec section 11) and the  *)
(* code's unsigned arithmetic wraps at 2^WordBits; int arithmetic wraps in *)
(* two's complement.  A scaled WordBits keeps the wrap reachable with      *)
(* small numbers.                                                          *)
(***************************************************************************)
EXTENDS Integers

CONSTANTS
    WordBits,     \* width of unsigned and int in the scaled model
    Majors, Minors,
    FbTypes,      \* fb_type values seen in descriptors
    Starts,       \* data_start values
    BufWidths, VisWidths, Heights,
    Lens,         \* frame_lb->len values
    PalTypes, PalStarts

VARIABLES
    held,   \* the program holds a pimg from an earlier call
    pimg,   \* that pimg: liveimg_pimg_t
    last    \* memory effects of the last call

vars == <<held, pimg, last>>

M == 2 ^ WordBits
U32(x) == x % M
Int32(x) == IF U32(x) >= M \div 2 THEN U32(x) - M ELSE U32(x)
CeilDiv(a, b) == (a + b - 1) \div b

(* get_fb_desc: a descriptor is absent (start <= 0), runs past the frame *)
(* (start + sizeof > data_len, computed in size_t), or is readable.      *)
Descs ==
    {[at |-> "none"], [at |-> "short"]} \cup
    [at: {"ok"}, type: FbTypes, start: Starts, bw: BufWidths,
     vw: VisWidths, h: Heights]

DeadPimg == [live |-> FALSE, w |-> 0, h |-> 0, size |-> 0, planes |-> 0,
             alloc |-> 0]

NoCall == [call |-> "none", type |-> "none", ver |-> <<0, 0>>, reads |-> {},
           len |-> 0, written |-> 0, cap |-> 0,
           fits |-> TRUE, nullPlane |-> FALSE, nullFn |-> FALSE]

-----------------------------------------------------------------------------
(* lv_proto_compatible: the frame's major version must equal req_major   *)
(* and its minor version must not exceed req_minor.                      *)
LvProtoCompatible(major, minor, reqMajor, reqMinor) ==
    major = reqMajor /\ ~(reqMinor < minor)

\* Fault-injected variant: the visible_width > buffer_width test is missing.
CheckFbDescNoWidthCheck(d, bpp, len) ==
    ~(d.start # 0 /\ U32(d.start + U32(U32(d.bw * d.h) * bpp) \div 8) > len)

(* check_fb_desc: data_start + buffer_width*visible_height*bpp/8 must    *)
(* not exceed data_len (u32 arithmetic), and visible_width must not      *)
(* exceed buffer_width.                                                  *)
CheckFbDesc(d, bpp, len) ==
    /\ ~(d.start # 0 /\ U32(d.start + U32(U32(d.bw * d.h) * bpp) \div 8) > len)
    /\ ~(d.vw > d.bw)

(* get_vp_desc and get_bm_desc: bits per pixel of an accepted descriptor *)
(* type, 0 when the type or protocol version is refused.                 *)
VpBpp(d, major, minor) ==
    CASE d.type = "YUV8"                  -> 12
      [] d.type \in {"YUV8B", "YUV8C"}    ->
            IF LvProtoCompatible(major, minor, 2, 2) THEN 16 ELSE 0
      [] OTHER                            -> 0

BmBpp(d, major, minor) ==
    CASE d.type = "PAL8"                  -> 8
      [] d.type = "YUV8B"                 ->
            IF LvProtoCompatible(major, minor, 2, 2) THEN 16 ELSE 0
      [] OTHER                            -> 0

DescValid(d, bpp, len) == d.at = "ok" /\ bpp # 0 /\ CheckFbDesc(d, bpp, len)

(* get_bmo_desc: the protocol gate comes first, then the descriptor must *)
(* be an OPACITY8 buffer.                                                *)
BmoValid(d, major, minor, len) ==
    /\ LvProtoCompatible(major, minor, 2, 2)
    /\ d.at = "ok" /\ d.type = "OPACITY8"
    /\ CheckFbDesc(d, 8, len)

(* get_palette_size: entries of palette_funcs[type] times 4 bytes.       *)
PaletteEntries(t) ==
    CASE t \in {1, 2, 4} -> 16 [] t \in {3, 5} -> 256 [] OTHER -> 0

-----------------------------------------------------------------------------
(* Bytes the row decoders read.  Every decoder starts at the last row,   *)
(* p_row = data + (height-1)*row_inc computed in u32 (int for PAL8), and *)
(* steps back by row_inc with pointer arithmetic.  perRow is the extent  *)
(* read from a row start.  Result: the lowest and one past the highest   *)
(* frame offset read.                                                    *)
RowReads(start, firstOff, rowInc, h, perRow) ==
    <<start + firstOff - (h - 1) * rowInc, start + firstOff + perRow>>

(* yuv_live_to_cd_rgb: 6-byte U Y V Y Y Y macropixels, row_inc =         *)
(* buf_width*12/8; p[4], p[5] are read only without skip.               *)
YuvReads(d, skip) ==
    LET rowInc == U32(d.bw * 12) \div 8
        n == CeilDiv(d.vw, 4)
    IN  RowReads(d.start, U32((d.h - 1) * rowInc), rowInc, d.h,
                 6 * (n - 1) + (IF skip THEN 4 ELSE 6))

(* yuvb/yuvc_live_to_cd_rgb: 4-byte U Y V Y macropixels, row_inc =       *)
(* buf_width*2; p[3] is read only without skip.  The rgba variant reads  *)
(* the whole macropixel as an unsigned for its alpha test.               *)
Yuv16Reads(d, skip, rgba) ==
    LET rowInc == U32(d.bw * 16) \div 8
        n == CeilDiv(d.vw, 2)
    IN  RowReads(d.start, U32((d.h - 1) * rowInc), rowInc, d.h,
                 4 * (n - 1) + (IF skip /\ ~rgba THEN 3 ELSE 4))

(* opacity_live_to_cd_a: one byte per pixel, pairs, p+1 only without skip. *)
OpacityReads(d, skip) ==
    LET n == CeilDiv(d.vw, 2)
    IN  RowReads(d.start, U32((d.h - 1) * d.bw), d.bw, d.h,
                 2 * (n - 1) + (IF skip THEN 1 ELSE 2))

(* liveimg_get_bitmap_pimg PAL8 loop: int y_inc = buffer_width, x steps  *)
(* by par while x < visible_width.                                       *)
Pal8Reads(d, par) ==
    LET yInc == Int32(d.bw)
    IN  RowReads(d.start, Int32((Int32(d.h) - 1) * yInc), yInc, d.h,
                 par * (CeilDiv(d.vw, par) - 1) + 1)

(* Pixels each decoder writes into every plane.                          *)
YuvWrites(d, skip) == d.h * CeilDiv(d.vw, 4) * (IF skip THEN 2 ELSE 4)
Yuv16Writes(d, skip) == d.h * CeilDiv(d.vw, 2) * (IF skip THEN 1 ELSE 2)
Pal8Writes(d, par) == d.h * CeilDiv(d.vw, par)

-----------------------------------------------------------------------------
(* pimg_init_rgb / pimg_init_rgba: planes of width*height pixels in one  *)
(* malloc(size*planes); malloc(0) may return NULL or a pointer.          *)
NewPimg(w, h, planes) ==
    LET size == U32(w * h)
    IN  [live |-> TRUE, w |-> w, h |-> h, size |-> size, planes |-> planes,
         alloc |-> U32(size * planes)]

MallocOk(im) == IF im.alloc = 0 THEN BOOLEAN ELSE {TRUE}

\* Fault-injected variant: a passed pimg is reused whatever its size.
ReusableAnySize(pass, dispsize) == pass

\* The passed pimg is reused when its width*height equals the new size.
Reusable(pass, dispsize) == pass /\ dispsize = U32(pimg.w * pimg.h)

\* The memory effects of decoding into im.
Decoded(call, f, reads, written, im, nullFn) ==
    [call |-> call, type |-> f.type, ver |-> f.ver, reads |-> reads,
     len |-> f.len, written |-> written,
     cap |-> im.size,
     fits |-> im.planes * im.size <= im.alloc, nullPlane |-> im.planes = 3
                                                         /\ call = "bitmap",
     nullFn |-> nullFn]

(* The common tail of both calls once the descriptor is accepted: nil    *)
(* for an empty image; otherwise destroy a passed pimg of another size,  *)
(* reuse it (reset tells whether width and height are updated) or create *)
(* a new one, then decode.                                               *)
Produce(call, pass, vwidth, h, f, planes, reset, reads, written, nullFn) ==
    LET dispsize == U32(vwidth * h)
        old == IF pass THEN DeadPimg ELSE pimg
        Done(im) == /\ held' = TRUE
                    /\ pimg' = im
                    /\ last' = Decoded(call, f, reads, written, im, nullFn)
    IN  IF f.start = 0 \/ dispsize = 0
        THEN /\ held' = FALSE
             /\ pimg' = pimg
             /\ last' = NoCall
        ELSE IF Reusable(pass, dispsize)
        THEN Done(IF reset THEN [pimg EXCEPT !.w = vwidth, !.h = h] ELSE pimg)
        ELSE LET im == NewPimg(vwidth, h, planes)
             IN  \E ok \in MallocOk(im):
                   IF ok THEN Done(im)
                   ELSE /\ UNCHANGED held
                        /\ pimg' = old
                        /\ last' = NoCall

\* What a decode records of the frame it was given.
Frame(d, len, major, minor) ==
    [start |-> d.start, len |-> len, type |-> d.type, ver |-> <<major, minor>>]

PassChoices == IF held THEN BOOLEAN ELSE {FALSE}

(* liveimg.get_viewport_pimg(pimg, frame, skip)                          *)
GetViewportPimg ==
    \E pass \in PassChoices, major \in Majors, minor \in Minors, d \in Descs,
       len \in Lens, skip \in BOOLEAN :
        LET par == IF skip THEN 2 ELSE 1
            bpp == IF d.at = "ok" THEN VpBpp(d, major, minor) ELSE 0
        IN  IF ~DescValid(d, bpp, len)
            THEN UNCHANGED <<held, pimg>> /\ last' = NoCall
            ELSE Produce("viewport", pass, d.vw \div par, d.h, Frame(d, len, major, minor), 3, TRUE,
                         {IF d.type = "YUV8" THEN YuvReads(d, skip)
                          ELSE Yuv16Reads(d, skip, FALSE)},
                         IF d.type = "YUV8" THEN YuvWrites(d, skip)
                         ELSE Yuv16Writes(d, skip),
                         FALSE)

(* get_bmo_desc inputs for a YUV8B bitmap: the opacity descriptor either *)
(* has the bitmap's visible size or a different one.                     *)
BmoDescs(d) ==
    {[at |-> "none"]} \cup
    {[at |-> "ok", type |-> t, start |-> s, bw |-> b, vw |-> d.vw + k, h |-> d.h]
        : t \in FbTypes, s \in Starts, b \in BufWidths, k \in {0, 1}}

(* convert_palette: palette_funcs[type] when the type is known and the   *)
(* frame has a palette, else the built-in type 1 palette.  Type 0 has a  *)
(* NULL to_rgba.  Returns the frame bytes read and whether fn is NULL.   *)
ConvertPalette(pt, ps) ==
    IF pt > 5 \/ ps = 0
    THEN [reads |-> {}, nullFn |-> FALSE]
    ELSE [reads |-> IF pt = 0 THEN {}
                    ELSE {<<ps, ps + 4 * PaletteEntries(pt)>>},
          nullFn |-> pt = 0]

(* liveimg.get_bitmap_pimg(pimg, frame, skip)                            *)
GetBitmapPimg ==
    \E pass \in PassChoices, major \in Majors, minor \in Minors, d \in Descs,
       len \in Lens, skip \in BOOLEAN :
        LET par == IF skip THEN 2 ELSE 1
            bpp == IF d.at = "ok" THEN BmBpp(d, major, minor) ELSE 0
            vwidth == d.vw \div par
            empty == d.start = 0 \/ U32(vwidth * d.h) = 0
            refuse == UNCHANGED <<held, pimg>> /\ last' = NoCall
        IN  \/ ~DescValid(d, bpp, len) /\ refuse
            \/ DescValid(d, bpp, len) /\ empty
                 /\ Produce("bitmap", pass, vwidth, d.h, Frame(d, len, major, minor), 4, FALSE, {},
                            0, FALSE)
            \/ /\ DescValid(d, bpp, len) /\ ~empty /\ d.type = "YUV8B"
               /\ \E bmo \in BmoDescs(d) :
                    IF ~BmoValid(bmo, major, minor, len)
                       \/ bmo.vw # d.vw \/ bmo.h # d.h
                    THEN refuse
                    ELSE Produce("bitmap", pass, vwidth, d.h, Frame(d, len, major, minor), 4, FALSE,
                                 {Yuv16Reads(d, skip, TRUE)} \cup
                                 (IF bmo.start # 0
                                  THEN {OpacityReads(bmo, skip)} ELSE {}),
                                 Yuv16Writes(d, skip), FALSE)
            \/ /\ DescValid(d, bpp, len) /\ ~empty /\ d.type = "PAL8"
               /\ \E pt \in PalTypes, ps \in PalStarts :
                    IF U32(4 * PaletteEntries(pt) + ps) > len
                    THEN refuse
                    ELSE LET pal == ConvertPalette(pt, ps)
                         IN  Produce("bitmap", pass, vwidth, d.h, Frame(d, len, major, minor), 4,
                                     FALSE, {Pal8Reads(d, par)} \cup pal.reads,
                                     Pal8Writes(d, par), pal.nullFn)

\* Fault-injected variant: the planes are freed but their pointers kept.
PimgKillKeepsPlanes ==
    /\ held
    /\ pimg' = [pimg EXCEPT !.live = FALSE]
    /\ last' = NoCall
    /\ UNCHANGED held

\* pimg:kill(): pimg_destroy frees the planes and zeroes the size.
PimgKill ==
    /\ held
    /\ pimg' = DeadPimg
    /\ last' = NoCall
    /\ UNCHANGED held

(* The garbage collector runs pimg_gc once the program drops its pimg:  *)
(* pimg_destroy, and the program holds no pimg any more.                 *)
PimgGc ==
    /\ held
    /\ held' = FALSE
    /\ pimg' = DeadPimg
    /\ last' = NoCall

(* pimg:width() and pimg:height() raise "dead pimg" on a killed pimg and *)
(* otherwise only return a field: neither touches memory.                *)
PimgGetSize ==
    /\ held
    /\ last' = NoCall
    /\ UNCHANGED <<held, pimg>>

(* cdCanvasPutImageRectRGB(A) is given width, height and the r, g, b     *)
(* (and a) plane pointers and reads width*height pixels of each plane.   *)
CanvasRead(im, alpha) ==
    [NoCall EXCEPT !.call = "canvas", !.written = im.w * im.h,
                   !.cap = im.size,
                   !.fits = (IF alpha THEN 4 ELSE 3) * im.size <= im.alloc,
                   !.nullPlane = ~im.live \/ (alpha /\ im.planes # 4)]

(* pimg:put_to_cd_canvas(canvas, ...): "dead pimg" unless data is set.   *)
PutToCdCanvas ==
    /\ held
    /\ last' = IF ~pimg.live THEN NoCall ELSE CanvasRead(pimg, FALSE)
    /\ UNCHANGED <<held, pimg>>

(* pimg:blend_to_cd_canvas(canvas, ...): "dead pimg" unless data is set, *)
(* "pimg has no alpha channel" unless a is set (pimg_init_rgb leaves a   *)
(* NULL), then the RGBA put.                                             *)
BlendToCdCanvas ==
    /\ held
    /\ last' = IF ~pimg.live \/ pimg.planes # 4 THEN NoCall
                ELSE CanvasRead(pimg, TRUE)
    /\ UNCHANGED <<held, pimg>>

Init ==
    /\ held = FALSE
    /\ pimg = DeadPimg
    /\ last = NoCall

Next == \/ GetViewportPimg \/ GetBitmapPimg \/ PimgKill \/ PimgGc \/ PimgGetSize
        \/ PutToCdCanvas \/ BlendToCdCanvas

Spec == Init /\ [][Next]_vars

-----------------------------------------------------------------------------
TypeOK ==
    /\ held \in BOOLEAN
    /\ pimg.planes \in {0, 3, 4} /\ pimg.live = (pimg.planes # 0)
    /\ \A x \in {pimg.w, pimg.h, pimg.size, pimg.alloc} : x \in 0 .. M - 1
    /\ last.call \in {"none", "viewport", "bitmap", "canvas"}
    /\ last.nullPlane \in BOOLEAN /\ last.nullFn \in BOOLEAN

(* Every byte a decoder reads, from the pixel data, the opacity buffer   *)
(* or the palette, lies inside the frame the descriptors were validated  *)
(* against (spec 4.5: must reject, never read out of bounds).            *)
ReadsInFrame ==
    \A r \in last.reads : r[1] >= 0 /\ r[2] <= last.len

(* Every pixel a decoder writes, or a canvas put reads, lies in its      *)
(* plane: no more pixels per plane than the pimg's width*height, and an  *)
(* allocation that really holds all planes (size*planes is computed in   *)
(* u32).                                                                 *)
WritesInImage == last.written <= last.cap /\ last.fits

(* The decoders never write through a NULL plane and convert_palette     *)
(* never calls a NULL to_rgba: get_bitmap_pimg writes the alpha plane of  *)
(* the pimg it reuses, and palette_funcs[palette_type] is called for the  *)
(* frame's palette.                                                       *)
NoNullDeref == ~last.nullPlane /\ ~last.nullFn

(* Spec 4.5: YUV8B and YUV8C viewports, YUV8B bitmaps and opacity        *)
(* buffers require protocol version >= 2.2; lv_proto_compatible(frame,   *)
(* 2, 2) is the gate the code applies to them.                           *)
AtLeastVersion(major, minor, reqMajor, reqMinor) ==
    major > reqMajor \/ (major = reqMajor /\ minor >= reqMinor)

DecodesOnlySupportedVersion ==
    last.type \in {"YUV8B", "YUV8C"} =>
        AtLeastVersion(last.ver[1], last.ver[2], 2, 2)

====
