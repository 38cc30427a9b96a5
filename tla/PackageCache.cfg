SPECIFICATION FairSpec
CONSTANTS
    Calls = {c1}
    Size = 3
    Attempts = 5
    Hops = 6
INVARIANTS ReturnedIsReviewed
PROPERTIES OnlyReviewedIsKept ReviewedStays CallEnds
