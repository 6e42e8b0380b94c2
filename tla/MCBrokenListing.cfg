CONSTANTS
    Catalogs = {"flavors", "images"}
    Paged = {"images"}
    Entry = {"one", "two", "bare"}
    Described <- Has
    Predefined = {"predefined"}
    NoCall = "none"
SPECIFICATION CatalogSpec
INVARIANT WholeAnswers
