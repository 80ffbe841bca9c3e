SPECIFICATION LiveSpec
CONSTANTS
    Crtcs = {c1, c2}
    Locks = {l1, l2}
    Flaky = {c2}
    MaxPlugs = 3
    c1 = c1
    c2 = c2
    l1 = l1
    l2 = l2
INVARIANT ConfirmedAreCovered
INVARIANT LockIsSound
PROPERTY PromiseKept
PROPERTY LockConfirmed
PROPERTY ScreensFollow
