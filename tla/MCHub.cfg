\* A regenerated chapter, or two chapters, or a book to create, from one start each.
SPECIFICATION FairSpec
CONSTANTS
    a = a
    a2 = a2
    b = b
    book = book
    Rows = {a, a2, b}
    Chapter <- ChapterOfRow
    Book = book
    Starts <- EachStart
    Varying = {a, book}
INVARIANTS TypeOK NotDisowned
PROPERTIES InOrder TellsTheTruth ResultsArrive RequestsGoOut
