----------------------------- MODULE Extraction -----------------------------
(***************************************************************************)
(* From PDF bytes to text (PdfExtractionService.extract_from_bytes,        *)
(* ingestion/extraction/service.py). An ingestion run extracts one document*)
(* after the other. Parsing, rendering and OCR are jobs in the threads of  *)
(* the event loop's pool; only OCR is awaited under a timeout, and a thread*)
(* that is given up on works on.                                           *)
(*                                                                         *)
(* A document has one job at a time, so a job is named by its document.    *)
(***************************************************************************)
EXTENDS TextQuality, FiniteSets

CONSTANTS
    Docs,         \* the documents of a run
    Workers,      \* threads of the pool
    Pdfs,         \* the text layers that a PDF may have: a sequence of pages
    Readings,     \* what OCR may make of a page
    OcrEnabled,   \* EXTRACTION_OCR_ENABLED
    OcrMaxPages   \* EXTRACTION_OCR_MAX_PAGES

\* What the settings accept.
ExtractionSettings ==
    Threshold \in 0..10000 /\ OcrEnabled \in BOOLEAN /\ OcrMaxPages \in Nat \ {0}

ASSUME ExtractionAssumption ==
    /\ IsFiniteSet(Docs) /\ Workers \in Nat \ {0} /\ ExtractionSettings
    /\ Pdfs \subseteq Seq(Measures) /\ Readings \subseteq Measures

VARIABLES
    tesseract,  \* is_tesseract_available: found out once per process
    phase,      \* phase[d]: what extract_from_bytes of d awaits
    native,     \* native[d]: the text layer, once parsed
    reading,    \* reading[d]: the OCR text, when it came in time
    answer,     \* answer[d]: method and text of the ExtractionResult
    running,    \* documents whose job has a thread
    queue       \* documents whose job waits for one

pool == <<running, queue>>
extractionVars == <<tesseract, phase, native, reading, answer, pool>>

NoAnswer == [method |-> "unknown", text |-> <<>>]

ExtractionInit ==
    /\ tesseract \in BOOLEAN
    /\ phase = [d \in Docs |-> "waiting"]
    /\ native = [d \in Docs |-> <<>>]
    /\ reading = [d \in Docs |-> <<>>]
    /\ answer = [d \in Docs |-> NoAnswer]
    /\ running = {} /\ queue = <<>>

-----------------------------------------------------------------------------
(* The pool: an idle thread takes a job at once, and jobs wait in order. *)

\* Planted: a thread that ends does not look at the queue.
LeavesQueue(d) == /\ running' = running \ {d}
                  /\ UNCHANGED queue

\* The job of d ends, and its thread takes the next.
Ended(d) ==
    IF queue = <<>>
    THEN running' = running \ {d} /\ UNCHANGED queue
    ELSE running' = (running \ {d}) \cup {Head(queue)} /\ queue' = Tail(queue)

\* The job of d ends and d submits another.
EndedAndSubmitted(d) ==
    IF queue = <<>>
    THEN UNCHANGED pool
    ELSE /\ running' = (running \ {d}) \cup {Head(queue)}
         /\ queue' = Append(Tail(queue), d)

Submitted(d) ==
    IF Cardinality(running) < Workers
    THEN running' = running \cup {d} /\ UNCHANGED queue
    ELSE queue' = Append(queue, d) /\ UNCHANGED running

\* wait_for cancels the job it awaited: a queued one never runs, a running one
\* keeps its thread.
Cancelled(d) ==
    /\ queue' = IF \E i \in DOMAIN queue : queue[i] = d
                THEN SelectSeq(queue, LAMBDA e : e # d) ELSE queue
    /\ UNCHANGED running

-----------------------------------------------------------------------------
(* The results. *)

\* "failed": a PdfExtractionError; "broken": an exception that the package does
\* not declare.
Over == {"answered", "failed", "broken"}

Set(f, d, v) == f' = [f EXCEPT ![d] = v]

\* A reading helps when it scores higher, each text against the pages it saw.
Helps(d, pages) == Score(pages, Len(pages)) > Score(native[d], Len(native[d]))

\* The result with the text layer, which may hold no text.
AnswerNative(d, pages) ==
    /\ Set(answer, d, [method |-> IF IsBlank(pages) THEN "none" ELSE "pymupdf", text |-> pages])
    /\ Set(phase, d, "answered")

AnswerOcr(d, pages) ==
    /\ Set(answer, d, [method |-> "ocr", text |-> pages])
    /\ Set(phase, d, "answered")

\* An exception leaves extract_from_bytes: no result, and the paper has failed.
Raise(d) == Set(phase, d, "failed") /\ UNCHANGED answer

-----------------------------------------------------------------------------
\* Planted: documents are extracted side by side.
SideBySide == TRUE

\* No document is being extracted.
Idle == \A e \in Docs : phase[e] \in Over \cup {"waiting"}

\* The run turns to the next document.
Begin(d) ==
    /\ phase[d] = "waiting" /\ Idle
    /\ Set(phase, d, "parsing")
    /\ Submitted(d)
    /\ UNCHANGED <<tesseract, native, reading, answer>>

\* extract_text refuses the file, or finds no page in it.
ParseFails(d) ==
    /\ phase[d] = "parsing" /\ d \in running
    /\ Raise(d)
    /\ Ended(d)
    /\ UNCHANGED <<tesseract, native, reading>>

\* The text layer is read and assessed; it is the answer, or OCR is tried.
ParseEnds(d, pages) ==
    /\ phase[d] = "parsing" /\ d \in running
    /\ Set(native, d, pages)
    /\ IF ShouldAttemptOcr(pages, Len(pages)) /\ OcrEnabled /\ tesseract
       THEN Set(phase, d, "rendering") /\ EndedAndSubmitted(d) /\ UNCHANGED answer
       ELSE AnswerNative(d, pages) /\ Ended(d)
    /\ UNCHANGED <<tesseract, reading>>

\* A page cannot be rendered: PdfExtractionError is not among the exceptions
\* that the fallback catches.
RenderFails(d) ==
    /\ phase[d] = "rendering" /\ d \in running
    /\ Raise(d)
    /\ Ended(d)
    /\ UNCHANGED <<tesseract, native, reading>>

RenderEnds(d) ==
    /\ phase[d] = "rendering" /\ d \in running
    /\ Set(phase, d, "reading")
    /\ EndedAndSubmitted(d)
    /\ UNCHANGED <<tesseract, native, reading, answer>>

\* Pages that are rendered, and read.
Seen(d) == IF Len(native[d]) < OcrMaxPages THEN Len(native[d]) ELSE OcrMaxPages

\* The reading arrives in time, and the better text is kept.
OcrEnds(d, pages) ==
    /\ phase[d] = "reading" /\ d \in running
    /\ Len(pages) = Seen(d)
    /\ Set(reading, d, pages)
    /\ IF Helps(d, pages) THEN AnswerOcr(d, pages) ELSE AnswerNative(d, native[d])
    /\ Ended(d)
    /\ UNCHANGED <<tesseract, native>>

\* Planted: a failed fallback fails the document.
Propagates(d) == Raise(d)

\* The text at hand is the answer.
FallBack(d) == AnswerNative(d, native[d])

\* An image that cannot be opened, a full disk: ocr_image lets it through, and so
\* does the fallback.
OcrBreaks(d) ==
    /\ phase[d] = "reading" /\ d \in running
    /\ Set(phase, d, "broken")
    /\ Ended(d)
    /\ UNCHANGED <<tesseract, native, reading, answer>>

\* OcrUnavailableError: the binary or the language pack is missing.
OcrFails(d) ==
    /\ phase[d] = "reading" /\ d \in running
    /\ FallBack(d)
    /\ Ended(d)
    /\ UNCHANGED <<tesseract, native, reading>>

\* ocr_timeout_seconds have passed since the job was submitted.
OcrTimesOut(d) ==
    /\ phase[d] = "reading"
    /\ FallBack(d)
    /\ Cancelled(d)
    /\ UNCHANGED <<tesseract, native, reading>>

\* A job that nobody awaits any more ends.
AbandonedEnds(d) ==
    /\ phase[d] \in Over /\ d \in running
    /\ Ended(d)
    /\ UNCHANGED <<tesseract, phase, native, reading, answer>>

JobEnds(d) ==
    \/ ParseFails(d) \/ \E pages \in Pdfs : ParseEnds(d, pages)
    \/ RenderFails(d) \/ RenderEnds(d)
    \/ OcrFails(d) \/ OcrBreaks(d)
    \/ \E p \in Readings : OcrEnds(d, [i \in 1..Seen(d) |-> p])
    \/ AbandonedEnds(d)

ExtractionNext == \E d \in Docs : Begin(d) \/ JobEnds(d) \/ OcrTimesOut(d)

\* A job that has a thread ends, and the run goes on. The timeout need not come.
Fairness == \A d \in Docs : WF_extractionVars(Begin(d)) /\ WF_extractionVars(JobEnds(d))

ExtractionSpec == ExtractionInit /\ [][ExtractionNext]_extractionVars /\ Fairness

-----------------------------------------------------------------------------
(* Properties. *)

\* "Keep whichever text scores higher" and "a failed fallback must not lose the
\* text we already had" (_run_ocr_fallback): when a document is over, what is
\* kept of it is as good as each text that was read, and its method is "none"
\* only if none of them held any text. Two errors break this, and are left out
\* here: a page that cannot be rendered, and an exception of the OCR other than
\* the two that the fallback names.
NothingBetterIsLost ==
    [][\A d \in Docs :
        phase[d] \notin Over \cup {"rendering"} /\ phase'[d] \in Over \ {"broken"} =>
            LET kept == answer'[d].text
                best == Score(kept, Len(kept))
            IN /\ best >= Score(native'[d], Len(native'[d]))
               /\ best >= Score(reading'[d], Len(reading'[d]))
               /\ IsBlank(kept) => answer'[d].method # "ocr" /\ IsBlank(native'[d])]_extractionVars

\* ocr_timeout_seconds run from the submission of the job, so a job that waits
\* for a thread could time out unread. Only a document's first job ever waits
\* for threads that earlier documents gave up on, and that one has no timeout.
TimerMeasuresOcr == \A d \in Docs : phase[d] \in {"rendering", "reading"} => d \in running

\* Every document of the run gets its result or its error, whatever threads
\* earlier ones have left behind.
EveryDocumentAnswered == <>(\A d \in Docs : phase[d] \in Over)

=============================================================================
