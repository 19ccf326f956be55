SPECIFICATION Spec
CONSTANTS
    g1 = g1
    g2 = g2
    g3 = g3
    o1 = o1
    o2 = o2
    j1 = j1
    Salt <- Salts
    Genuine <- Genuines
    Own <- Owns
    Session = {x1, x2}
    Entries = 3
    NoSalt = NoSalt
SYMMETRY SaltSymmetry
INVARIANT FilterSound
INVARIANT OnlyAuthentic
PROPERTY NoReplay
