SPECIFICATION Spec
CONSTANTS
    u1 = u1
    u2 = u2
    Users = {u1}
    Labels <- MCLabels
    Slug <- MCSlug
    Texts = {"A", "B"}
    Marks = {"archived"}
    MaxEntries = 1
    None = None
    Requests = {r1}
    LabelLists <- MCLists
    Changes <- MCChanges
    Asked <- Spellings
    Overlapping = {}
    MaxTagSeq = 3
    TagLimit = 2
PROPERTIES
    AllTagsLinked
