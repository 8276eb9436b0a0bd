SPECIFICATION Spec
CONSTANTS
    u1 = u1
    u2 = u2
    Users = {u1, u2}
    Labels <- MCLabels
    Slug <- MCSlug
    Texts = {"A", "B"}
    Marks = {"archived"}
    MaxEntries = 2
    None = None
    Requests = {r1, r2}
    LabelLists <- MCLists
    Changes <- MCChanges
    Asked <- MCAsked
    Overlapping <- SharedArticle
    MaxTagSeq = 3
    TagLimit = 2
SYMMETRY Symmetry
CONSTRAINT Bounded
INVARIANTS
    OneOwner
    SearchMirrorsEntries
    FlagsMatchDates
PROPERTIES
    UpdatesStayConvertible
    ImplementsService
