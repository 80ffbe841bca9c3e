CONSTANTS
    d1 = d1
    d2 = d2
    panel = panel
    wallpaper = wallpaper
    Displays = {d1, d2}
    Huts = {h1, h2}
    Layers = {panel, wallpaper}
    RowsOf <- MCRowsOf
    AboveOf <- MCAboveOf
    KeysOf <- MCKeysOf
    ZonesOf <- MCZonesOf
    StripRows = 1
    EdgeRow = 0
    AutoHide = TRUE
    None = None
SPECIFICATION Spec
SYMMETRY Symmetry
INVARIANT LayoutIsSound
INVARIANT PressIsDrawn
INVARIANT DrawnIsHit
PROPERTY StripStaysHome
