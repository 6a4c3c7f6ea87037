SPECIFICATION PtSpec
CONSTANTS
    TileLayers = {road, rail}
    HasPreview = TRUE
    MaxRejects = 0
    Preview = Preview
    Clear = Clear
    NoImage = NoImage
CHECK_DEADLOCK FALSE
INVARIANTS
    FailureIsNotSilence
