\* Two updates of one product that overlap.
SPECIFICATION CatalogSpec
CONSTANTS
    r1 = r1
    r2 = r2
    CatalogRequests <- TwoRequests
    CatalogKinds <- Updates
    MaxRequests = 2
    MaxTime = 0
PROPERTIES
    ArchivedForGood
\* The model rests once every request is answered.
CHECK_DEADLOCK FALSE
