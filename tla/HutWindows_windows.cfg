SPECIFICATION Spec
CONSTANTS
    Windows = {w1, w2, w3}
    Huts = {h1, h2, h3}
    MaxLive = 2
    None = None
    w1 = w1
    w2 = w2
    w3 = w3
    h1 = h1
    h2 = h2
    h3 = h3
SYMMETRY Sym
INVARIANT WindowsAreSound
INVARIANT ForgottenWereAsked
INVARIANT MarkMeansDrag
INVARIANT KeyboardOnView
PROPERTY ListKeepsTab
