CONSTANTS
    Connectors = {monitor, headset, visor, panel}
    NonDesktop = {headset, visor, panel}
    BuiltIn = {panel}
    Crtcs = {c1, c2}
    Leases = {l1, l2}
    Controls = {g1, g2, g3}
    None = None
SPECIFICATION Spec
SYMMETRY Symmetry
INVARIANT LentOnce
INVARIANT GivenBack
