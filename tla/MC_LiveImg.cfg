CONSTANTS
    WordBits = 16
    Majors = {2}
    Minors = {2}
    FbTypes <- MC_FbTypes
    Starts = {0, 8}
    BufWidths <- CameraBufWidths
    VisWidths <- CameraWidths
    Heights = {1, 2}
    Lens = {14, 24, 40, 80}
    PalTypes = {1, 3, 7}
    PalStarts = {0, 8}
SPECIFICATION Spec
INVARIANT TypeOK
INVARIANT ReadsInFrame
INVARIANT WritesInImage
INVARIANT YuvConversion
INVARIANT MacropixelChroma
INVARIANT PaletteChromaSum
