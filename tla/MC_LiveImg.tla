---------------------------- MODULE MC_LiveImg ----------------------------
(* Frame fields for TLC.  CameraWidths are multiples of 4, as the camera  *)
(* firmware's buffers are; OddWidths add the widths an untrusted frame    *)
(* may carry.                                                             *)
EXTENDS LiveImg, LivePixels

MC_FbTypes == {"YUV8", "YUV8B", "YUV8C", "PAL8", "OPACITY8"}
CameraWidths == {0, 4, 8}
CameraBufWidths == {4, 8}
OddWidths == {0, 2, 3, 4}
OddBufWidths == {2, 3, 4}

-----------------------------------------------------------------------------
(* The pixel properties of LivePixels are about constants.  Stated of the *)
(* initial state, the one distinct state Init describes, TLC checks each  *)
(* once as an invariant of this run.                                      *)

(* yuv_to_r/g/b are within one of the description's YUV to RGB formulas. *)
YuvConversion == Init => ConversionMatchesSpec

(* The YUV8, YUV8B and YUV8C decoders read chroma as the description says, *)
(* for either signedness of char.                                          *)
MacropixelChroma == Init => ChromaAsSpecified

(* The nibble palette formats add chroma without flipping its sign.       *)
PaletteChromaSum == Init => SummedChromaKeepsHue

====
