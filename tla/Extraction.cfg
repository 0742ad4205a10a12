SPECIFICATION ExtractionSpec
CONSTANTS
    Threshold = 5000
    Docs = {d1, d2, d3}
    Workers = 2
    Pdfs <- MCPdfs
    Readings <- MCReadings
    OcrEnabled = TRUE
    OcrMaxPages = 2
CHECK_DEADLOCK FALSE
PROPERTY NothingBetterIsLost
INVARIANT TimerMeasuresOcr
PROPERTY EveryDocumentAnswered
