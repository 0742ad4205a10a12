---------------------------- MODULE MCExtraction ----------------------------
(* An instance of Extraction: text layers and readings around the limits;    *)
(* OCR makes the same of each page.                                          *)
EXTENDS Extraction

Dense == Page(1500, 1200, 0, 300, 310)
Middling == Page(450, 330, 0, 90, 100)
Sparse == Page(60, 50, 0, 10, 40)
Garbled == Page(700, 400, 90, 40, 60)

MCPdfs ==
    { <<Dense, Dense, BlankPage>>,       \* a paper with a text layer
      <<BlankPage, BlankPage>>,          \* a scan
      <<Sparse, BlankPage, Middling>>,   \* a scan with some text on it
      <<Garbled>> }                      \* a broken font encoding, on a page that is not full

MCReadings == {BlankPage, Middling, Dense}

=============================================================================
