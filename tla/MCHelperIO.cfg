\* Two requests in the pipe, texts of up to three characters, four bytes.
CONSTANTS
    Line <- TwoLines
    Text <- ShortTexts
    maxBodyBytes = 4
    MaxPipe = 6
SPECIFICATION IOSpec
INVARIANTS
    IOTypeOK
    NoRequestWaits
    BodyIsText
PROPERTIES
    LinesArrive
    HelperFollows
