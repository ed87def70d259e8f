SPECIFICATION SlugsSpec
CONSTANTS
    Groups = {g1, g2}
    Slugs = {s1, s2, s3}
    Calls = {r1, r2}
    NoGroup = NoGroup
    NoSlug = NoSlug
INVARIANTS
    NoMisroute
