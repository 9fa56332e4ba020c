CONSTANTS
    WordBits = 6
    Majors = {2}
    Minors = {2}
    FbTypes <- MC_FbTypes
    Starts = {0, 8}
    BufWidths <- CameraBufWidths
    VisWidths <- CameraWidths
    Heights = {1, 2}
    Lens = {14, 24, 40}
    PalTypes = {7}
    PalStarts = {0, 8}
SPECIFICATION Spec
INVARIANT ReadsInFrame
