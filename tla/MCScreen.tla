------------------------------ MODULE MCScreen ------------------------------
EXTENDS Screen, TLC

CONSTANTS d1, d2, panel, wallpaper

MCRowsOf  == d1 :> 3 @@ d2 :> 2
MCAboveOf == panel :> TRUE @@ wallpaper :> FALSE
MCKeysOf  == panel :> {"exclusive"} @@ wallpaper :> {"none"}
MCZonesOf == panel :> {1} @@ wallpaper :> {0}
Symmetry  == Permutations(Huts)
=============================================================================
