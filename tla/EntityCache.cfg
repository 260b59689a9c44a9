SPECIFICATION Spec
CONSTANTS
    list = list
    plain = plain
    watched = watched
    r1 = r1
    m1 = m1
    m2 = m2
    r2 = r2
    Pages = {list, plain, watched}
    Plain = {plain}
    Watched = {watched}
    Rows = {r1, r2}
    Mutations = {m1, m2}
    Operations <- Both
    Drafting <- Sometimes
    MaxFetches = 1
    NoMutation = NoMutation
    NoNode = NoNode
    NoData = NoData
    NoPage = NoPage
INVARIANTS TypeOK MutationIsShown DraftsVanish
SYMMETRY Symmetric
