---------------------------- MODULE PreRequestGate ----------------------------
(***************************************************************************)
(* PreRequestGate.extract_context of media_bridge/gate.py: the conversion   *)
(* of the media parts of a request to text.  Part after part is acquired,   *)
(* written to a temporary workspace (media_bridge/workspace.py), rendered   *)
(* to pages, sent page by page to the OCR backend and, for the generic      *)
(* profile, to the vision backend, and the workspace is removed; the text   *)
(* is sanitized at the end.                                                 *)
(*                                                                          *)
(* A conversion is a coroutine; it is suspended at the backend calls and    *)
(* while a PDF is rendered in a worker thread.  Conversions of several      *)
(* requests interleave there, and there a request may be cancelled.         *)
(***************************************************************************)
EXTENDS Integers, Sequences, FiniteSets

CONSTANTS
    Requests,   \* conversions
    Assets,     \* uploaded assets that the requests may name
    Inline,     \* a source that is no asset: base64, local path or URL
    MaxParts,   \* bound on the media parts of a request
    MaxPages,   \* bound on the pages of a PDF
    MaxMishaps  \* bound on removals that fail and cancellations, together

ASSUME GateBoundsAssumption ==
    /\ MaxParts \in Nat \ {0} /\ MaxPages \in Nat \ {0}
    /\ MaxMishaps \in Nat
ASSUME InlineAssumption == Inline \notin Assets

VARIABLES
    conv,        \* the conversion of each request
    stored,      \* assets the asset store still holds
    workspaces,  \* workspace directories that exist, as <<request, part>>
    spent        \* history: how many removals failed or conversions were cancelled

gateVars == <<conv, stored, workspaces, spent>>

\* The media parts of a request, each by its source.
Contents == UNION {[1 .. n -> Assets \cup {Inline}] : n \in 1 .. MaxParts}

\* The codes of GateFailureError that extract_context raises.
Codes == {"media_acquisition_failed", "workspace_failed", "pdf_render_failed",
          "ocr_failed", "recognition_insufficient", "vision_failed",
          "conversion_failed", "cleanup_failed", "sanitization_failed"}

Fresh == [pc |-> "new", content |-> << >>, generic |-> FALSE, part |-> 0,
          page |-> 0, pages |-> 0, failure |-> "none", read |-> 0]

ConvType ==
    [pc : {"new", "acquire", "render", "ocr", "vision", "cleanup", "sanitize",
           "ready", "blocked", "cancelled"},
     content : Contents \cup {<< >>},
     generic : BOOLEAN,                \* conversion_profile == "generic"
     part : 0 .. MaxParts,             \* media_index
     page : 0 .. MaxPages, pages : 0 .. MaxPages,
     failure : Codes \cup {"none"},    \* processing_failure, then the result
     read : Nat]                       \* history: pages read by OCR

GateInit ==
    /\ conv = [r \in Requests |-> Fresh]
    /\ stored = Assets
    /\ workspaces = {}
    /\ spent = 0

Source(r) == conv[r].content[conv[r].part]
Workspace(r) == <<r, conv[r].part>>

Block(r, code) == conv' = [conv EXCEPT ![r].pc = "blocked", ![r].failure = code]

Begin(r) ==
    /\ conv[r].pc = "new"
    /\ \E content \in Contents, generic \in BOOLEAN :
          conv' = [conv EXCEPT ![r] = [Fresh EXCEPT !.pc = "acquire", !.part = 1,
                                                    !.content = content, !.generic = generic]]
    /\ UNCHANGED <<stored, workspaces, spent>>

\* A faulty acquisition that reads an asset without consuming it.
TakesNothing(src) == src \in stored \cup {Inline} /\ UNCHANGED stored

\* AssetStore.consume, or a source that is read in place.
Takes(src) == src \in stored \cup {Inline} /\ stored' = stored \ {src}

\* The part is acquired and validated, a workspace is created and the media is
\* written to it: a PDF that has to be rendered, or an image, its own page.
Acquire(r) ==
    /\ conv[r].pc = "acquire"
    /\ Takes(Source(r))
    /\ workspaces' = workspaces \cup {Workspace(r)}
    /\ \E next \in {"render", "ocr"} :
          conv' = [conv EXCEPT ![r].pc = next, ![r].page = 1, ![r].pages = 1]
    /\ UNCHANGED spent

\* The asset is unavailable, or the media is refused after it was consumed,
\* or the workspace cannot be created (a directory whose chmod fails is
\* empty, and is not counted among the workspaces).
AcquireFails(r) ==
    /\ conv[r].pc = "acquire"
    /\ \/ UNCHANGED stored /\ Block(r, "media_acquisition_failed")
       \/ /\ Takes(Source(r))
          /\ \E code \in {"media_acquisition_failed", "workspace_failed"} : Block(r, code)
    /\ UNCHANGED <<workspaces, spent>>

\* _backend_pages of a PDF.
Render(r) ==
    /\ conv[r].pc = "render"
    /\ \E n \in 1 .. MaxPages : conv' = [conv EXCEPT ![r].pc = "ocr", ![r].pages = n]
    /\ UNCHANGED <<stored, workspaces, spent>>

\* A faulty loop that runs one page too far.
AfterPageTooFar(c) ==
    IF c.page <= c.pages THEN [c EXCEPT !.pc = "ocr", !.page = @ + 1]
                         ELSE [c EXCEPT !.pc = "cleanup"]

\* The page is done: the next one, or the removal of the workspace.
AfterPage(c) ==
    IF c.page < c.pages THEN [c EXCEPT !.pc = "ocr", !.page = @ + 1]
                        ELSE [c EXCEPT !.pc = "cleanup"]

OcrText(r) ==
    /\ conv[r].pc = "ocr"
    /\ LET c == [conv[r] EXCEPT !.read = @ + 1] IN
       conv' = [conv EXCEPT ![r] = IF c.generic THEN [c EXCEPT !.pc = "vision"] ELSE AfterPage(c)]
    /\ UNCHANGED <<stored, workspaces, spent>>

VisionText(r) ==
    /\ conv[r].pc = "vision"
    /\ conv' = [conv EXCEPT ![r] = AfterPage(@)]
    /\ UNCHANGED <<stored, workspaces, spent>>

\* The failure each suspended call may report; any other exception of the
\* same step is a conversion_failed.
FailuresOf(pc) ==
    CASE pc = "render" -> {"pdf_render_failed", "conversion_failed"}
      [] pc = "ocr" -> {"ocr_failed", "recognition_insufficient", "conversion_failed"}
      [] pc = "vision" -> {"vision_failed", "conversion_failed"}

\* A faulty handler that lets a processing failure leave before the removal.
RaiseAtOnce(r) ==
    /\ conv[r].pc \in {"render", "ocr", "vision"}
    /\ \E code \in FailuresOf(conv[r].pc) : Block(r, code)
    /\ UNCHANGED <<stored, workspaces, spent>>

\* A processing failure is kept until the workspace has been removed.
ProcessingFails(r) ==
    /\ conv[r].pc \in {"render", "ocr", "vision"}
    /\ \E code \in FailuresOf(conv[r].pc) :
          conv' = [conv EXCEPT ![r].pc = "cleanup", ![r].failure = code]
    /\ UNCHANGED <<stored, workspaces, spent>>

\* A faulty loop that forgets the failure of a part once it is cleaned up.
AfterCleanupForgets(c) ==
    IF c.part < Len(c.content) THEN [c EXCEPT !.pc = "acquire", !.part = @ + 1, !.failure = "none"]
    ELSE [c EXCEPT !.pc = "sanitize", !.failure = "none"]

\* Raise the kept failure, else go on to the next part.
AfterCleanup(c) ==
    IF c.failure /= "none" THEN [c EXCEPT !.pc = "blocked"]
    ELSE IF c.part < Len(c.content) THEN [c EXCEPT !.pc = "acquire", !.part = @ + 1]
    ELSE [c EXCEPT !.pc = "sanitize"]

\* A faulty loop that leaves the removal to the end of the request.
CleanupAtTheEnd(r) ==
    /\ conv[r].pc = "cleanup"
    /\ workspaces' = IF conv[r].part < Len(conv[r].content) THEN workspaces
                     ELSE {w \in workspaces : w[1] /= r}
    /\ conv' = [conv EXCEPT ![r] = AfterCleanup(@)]
    /\ UNCHANGED <<stored, spent>>

\* workspace.cleanup() removes the directory and verifies that it is gone.
Cleanup(r) ==
    /\ conv[r].pc = "cleanup"
    /\ workspaces' = workspaces \ {Workspace(r)}
    /\ conv' = [conv EXCEPT ![r] = AfterCleanup(@)]
    /\ UNCHANGED <<stored, spent>>

\* The removal fails, or cannot be verified: that is the failure reported.
CleanupFails(r) ==
    /\ conv[r].pc = "cleanup"
    /\ spent < MaxMishaps /\ spent' = spent + 1
    /\ Block(r, "cleanup_failed")
    /\ UNCHANGED <<stored, workspaces>>

Sanitize(r) ==
    /\ conv[r].pc = "sanitize"
    /\ conv' = [conv EXCEPT ![r].pc = "ready"]
    /\ UNCHANGED <<stored, workspaces, spent>>

SanitizeFails(r) ==
    /\ conv[r].pc = "sanitize"
    /\ Block(r, "sanitization_failed")
    /\ UNCHANGED <<stored, workspaces, spent>>

\* The task is cancelled while it is suspended: in a backend call, in the
\* rendering thread or while a URL is fetched.  CancelledError is no
\* Exception, so neither handler of the loop catches it, and the removal of
\* the workspace is not in a finally clause.
Cancel(r) ==
    /\ \/ conv[r].pc \in {"render", "ocr", "vision"}
       \/ conv[r].pc = "acquire" /\ Source(r) = Inline
    /\ spent < MaxMishaps /\ spent' = spent + 1
    /\ conv' = [conv EXCEPT ![r].pc = "cancelled"]
    /\ UNCHANGED <<stored, workspaces>>

GateStep(r) ==
    \/ Begin(r) \/ Acquire(r) \/ AcquireFails(r) \/ Render(r)
    \/ OcrText(r) \/ VisionText(r) \/ ProcessingFails(r)
    \/ Cleanup(r) \/ CleanupFails(r) \/ Sanitize(r) \/ SanitizeFails(r)
    \/ Cancel(r)

GateNext == \E r \in Requests : GateStep(r)

GateSpec == GateInit /\ [][GateNext]_gateVars

-------------------------------------------------------------------------------
GateTypeOK ==
    /\ conv \in [Requests -> ConvType]
    /\ stored \subseteq Assets
    /\ workspaces \subseteq Requests \X (1 .. MaxParts)
    /\ spent \in 0 .. MaxMishaps

Names(r, a) == \E i \in DOMAIN conv[r].content : conv[r].content[i] = a

\* The text of an asset reaches one result at most: two requests that name
\* the same asset never both succeed, however their parts interleave.
OneResultPerAsset ==
    \A r, q \in Requests, a \in Assets :
        /\ conv[r].pc = "ready" /\ Names(r, a)
        /\ conv[q].pc = "ready" /\ Names(q, a)
        => r = q

\* A conversion succeeds only when nothing failed on the way and OCR read at
\* least a page of every part.
ReadyMeansAllRead ==
    \A r \in Requests : conv[r].pc = "ready" =>
        conv[r].failure = "none" /\ conv[r].read >= Len(conv[r].content)

Ended(r) == conv[r].pc \in {"ready", "blocked", "cancelled"}

\* A workspace with original media outlives its conversion only when its
\* removal failed, which is then the reported failure, or on cancellation;
\* every other failure is reported after the removal.
ResidueIsReported ==
    \A r \in Requests :
        Ended(r) /\ (\E i \in 1 .. MaxParts : <<r, i>> \in workspaces)
        => conv[r].failure = "cleanup_failed" \/ conv[r].pc = "cancelled"

\* While a conversion runs, at most the workspace of its current part exists:
\* the media of an earlier part is gone before the next one is acquired.
OneWorkspaceAtATime ==
    \A r \in Requests, i \in 1 .. MaxParts :
        <<r, i>> \in workspaces /\ ~Ended(r)
        => i = conv[r].part /\ conv[r].pc \in {"render", "ocr", "vision", "cleanup"}

\* What prepare_for_model and extract_context promise: one result for an asset,
\* ready only with all that was read, a residue reported, one workspace.
GateKeepsItsWord == OneResultPerAsset /\ ReadyMeansAllRead /\ ResidueIsReported /\ OneWorkspaceAtATime

===============================================================================
