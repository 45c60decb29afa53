SPECIFICATION Spec
CONSTANTS
    m1 = m1
    m2 = m2
    k1 = k1
    kempston = kempston
    sinclair = sinclair
    c1 = c1
    c2 = c2
    Classic = {m1, m2}
    WithDock = {m2}
    NextModel = NextModel
    None = None
    Keys = {k1}
    Modes = {kempston, sinclair}
    Kempston = kempston
    StickKeys <- StickOf
    Callers = {c1, c2}
    Free = Free
SYMMETRY Symmetric
INVARIANT DoneIsAnswered
