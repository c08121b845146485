SPECIFICATION Spec
CONSTANTS
    large = large
    huge = huge
    Sprite = {large, huge}
    NoSprite = none
    Pieces <- MCPieces
    SurfaceCnt = 4
ACTION_CONSTRAINT ResetWhenShort
INVARIANTS WholePicture DrawsOwnPixels StaysLoaded
PROPERTY LoopsEnd
