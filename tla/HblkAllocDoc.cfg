\* Six heap blocks in two adjoining sections, pages of two blocks.
SPECIFICATION SpecMidway
CONSTANTS
    NHblks = 6
    Sections <- MCSixSections
    PageHblks = 2
    BOTTOM_SZ = 4
    MAX_JUMP = 2
    UNIQUE_THRESHOLD = 2
    HUGE_THRESHOLD = 5
    FL_COMPRESSION = 2
    Requests = {1, 2, 4}
    Alignments = {1, 2}
    Failures = {"section", "last", "drop"}
INVARIANT RemovedWasListed
