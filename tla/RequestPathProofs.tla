--------------------------- MODULE RequestPathProofs ---------------------------
(***************************************************************************)
(* Proofs about the way of a request through a gateway: the gate that      *)
(* reads its media, the bound of its rate, its delivery, the provider that *)
(* is called and the conversation it belongs to; and about these side by   *)
(* side, as MCRequestPath composes them.                                   *)
(***************************************************************************)
EXTENDS MCRequestPath, FiniteSetTheorems, WellFoundedInduction, TLAPS


(***************************************************************************)
(* The gate before the request                                             *)
(***************************************************************************)

\* The parts of a request that have been acquired.
Took(c, a) ==
    /\ c.pc \notin {"new", "blocked", "cancelled"}
    /\ \E i \in 1 .. c.part : c.content[i] = a /\ (i = c.part => c.pc /= "acquire")

\* What holds of one conversion: at its part, that many pages have been read,
\* and a failure is remembered until the workspace is gone.
ConvOK(c) ==
    /\ c \in ConvType
    /\ c.pc \in {"acquire", "render", "ocr", "vision", "cleanup", "sanitize", "ready"} =>
         c.content \in Contents /\ c.part \in 1 .. Len(c.content)
    /\ c.pc \notin {"blocked", "cancelled", "cleanup"} => c.failure = "none"
    /\ c.pc \in {"acquire", "render", "ocr"} => c.part <= c.read + 1
    /\ c.pc \in {"render", "ocr", "vision"} => c.page >= 1
    /\ c.pc = "render" => c.page = 1
    /\ c.pc = "ocr" /\ c.page > 1 => c.part <= c.read
    /\ c.pc = "vision" => c.part <= c.read
    /\ c.pc = "cleanup" /\ c.failure = "none" => c.part <= c.read
    /\ c.pc \in {"sanitize", "ready"} => c.part = Len(c.content) /\ c.part <= c.read

\* Where a workspace of a conversion may be.
InPlace(c, i) ==
    \/ c.pc \in {"render", "ocr", "vision", "cleanup"} /\ i = c.part
    \/ c.pc = "blocked" /\ c.failure = "cleanup_failed"
    \/ c.pc = "cancelled"

\* What one request has taken is out of the store, and no other took it.
AssetsOnce ==
    \A r \in Requests, a \in Assets : Took(conv[r], a) =>
        a \notin stored /\ \A q \in Requests \ {r} : ~Took(conv[q], a)

\* The inductive invariant.
GateInv ==
    /\ conv \in [Requests -> ConvType]
    /\ stored \subseteq Assets
    /\ workspaces \subseteq Requests \X (1 .. MaxParts)
    /\ spent \in 0 .. MaxMishaps
    /\ \A r \in Requests : ConvOK(conv[r])
    /\ \A r \in Requests, i \in 1 .. MaxParts : <<r, i>> \in workspaces => InPlace(conv[r], i)
    /\ AssetsOnce

\* A content is a nonempty sequence of assets and inline media.
LEMMA ContentsOK ==
    ASSUME NEW content \in Contents
    PROVE  /\ Len(content) \in 1 .. MaxParts /\ DOMAIN content = 1 .. Len(content)
           /\ \A i \in 1 .. Len(content) : content[i] \in Assets \cup {Inline}
<1>1. PICK n \in 1 .. MaxParts : content \in [1 .. n -> Assets \cup {Inline}]
    BY DEF Contents
<1>2. n \in Nat /\ content \in Seq(Assets \cup {Inline})
    BY <1>1, GateBoundsAssumption
<1>3. Len(content) = n
    BY <1>1, <1>2
<1>4. QED
    BY <1>1, <1>2, <1>3

\* One conversion goes on to c.
LEMMA ConversionMoves ==
    ASSUME GateInv, NEW r \in Requests, NEW c, conv' = [conv EXCEPT ![r] = c], ConvOK(c),
           stored' \subseteq stored, workspaces' \subseteq workspaces \cup {Workspace(r)},
           \A i \in 1 .. MaxParts : <<r, i>> \in workspaces' => InPlace(c, i),
           \A a \in Assets : Took(c, a) => Took(conv[r], a) \/ (a \in stored /\ a \notin stored'),
           Workspace(r) \in workspaces' => conv[r].part \in 1 .. MaxParts,
           spent' \in 0 .. MaxMishaps
    PROVE  GateInv'
<1>1. /\ conv' \in [Requests -> ConvType] /\ conv'[r] = c
      /\ \A q \in Requests \ {r} : conv'[q] = conv[q]
    BY DEF GateInv, ConvOK
<1>2. \A q \in Requests : ConvOK(conv'[q])
    BY <1>1 DEF GateInv
<1>3. ASSUME NEW q \in Requests, NEW i \in 1 .. MaxParts, <<q, i>> \in workspaces'
      PROVE  InPlace(conv'[q], i)
    BY <1>1, <1>3 DEF GateInv, Workspace
<1>4. ASSUME NEW q \in Requests, NEW a \in Assets, Took(conv'[q], a)
      PROVE  a \notin stored' /\ \A p \in Requests \ {q} : ~Took(conv'[p], a)
    BY <1>1, <1>4 DEF GateInv, AssetsOnce
<1>5. workspaces' \subseteq Requests \X (1 .. MaxParts) /\ stored' \subseteq Assets
    BY DEF GateInv, Workspace
<1>6. QED
    BY <1>1, <1>2, <1>3, <1>4, <1>5 DEF GateInv, AssetsOnce

\* A conversion that keeps its parts: nothing is acquired.
LEMMA SameTaken ==
    ASSUME NEW c, NEW d, d.content = c.content, d.part = c.part,
           c.pc \in {"acquire", "render", "ocr", "vision", "cleanup", "sanitize"},
           c.pc = "acquire" => d.pc \in {"blocked", "cancelled"}
    PROVE  \A a : Took(d, a) => Took(c, a)
BY DEF Took

\* A request before it is converted.
LEMMA FreshOK ==
    /\ Fresh \in ConvType /\ Fresh.pc = "new" /\ Fresh.read = 0 /\ Fresh.failure = "none"
    /\ {0, 1} \subseteq 0 .. MaxParts /\ {0, 1} \subseteq 0 .. MaxPages
    /\ 1 .. MaxPages \subseteq 0 .. MaxPages
<1>1. /\ {0, 1} \subseteq 0 .. MaxParts /\ {0, 1} \subseteq 0 .. MaxPages
      /\ 1 .. MaxPages \subseteq 0 .. MaxPages
    BY GateBoundsAssumption
<1>2. QED
    BY <1>1 DEF Fresh, ConvType

\* A conversion begins with its first part.
LEMMA BeginStep ==
    ASSUME GateInv, NEW r \in Requests, Begin(r)
    PROVE  GateInv'
<1>1. PICK content \in Contents, generic \in BOOLEAN :
        conv' = [conv EXCEPT ![r] = [Fresh EXCEPT !.pc = "acquire", !.part = 1,
                                                  !.content = content, !.generic = generic]]
    BY DEF Begin
<1>2. PICK c : c = [Fresh EXCEPT !.pc = "acquire", !.part = 1, !.content = content, !.generic = generic]
    OBVIOUS
<1>3. Len(content) \in 1 .. MaxParts
    BY ContentsOK
<1>4. /\ c \in ConvType /\ c.pc = "acquire" /\ c.part = 1 /\ c.content = content /\ c.read = 0
      /\ c.failure = "none"
    BY <1>2, FreshOK DEF ConvType
<1>5. ConvOK(c) /\ \A a : ~Took(c, a)
    BY <1>3, <1>4 DEF ConvOK, Took
<1>6. conv[r].pc = "new" /\ UNCHANGED <<stored, workspaces, spent>>
    BY DEF Begin
<1>7. \A i \in 1 .. MaxParts : <<r, i>> \notin workspaces
    BY <1>6 DEF GateInv, InPlace
<1>8. conv' = [conv EXCEPT ![r] = c] /\ spent' \in 0 .. MaxMishaps
    BY <1>1, <1>2, <1>6 DEF GateInv
<1>9. Workspace(r) \notin workspaces'
    BY <1>6, <1>7 DEF GateInv, Workspace
<1>10. QED
    BY <1>5, <1>6, <1>7, <1>8, <1>9, ConversionMoves

\* A part is taken out of the store, and gets a workspace.
LEMMA AcquireStep ==
    ASSUME GateInv, NEW r \in Requests, Acquire(r)
    PROVE  GateInv'
<1>1. /\ conv \in [Requests -> ConvType] /\ conv[r] \in ConvType /\ ConvOK(conv[r])
      /\ conv[r].pc = "acquire"
    BY DEF GateInv, Acquire
<1>2. PICK next \in {"render", "ocr"} :
        conv' = [conv EXCEPT ![r] = [conv[r] EXCEPT !.pc = next, !.page = 1, !.pages = 1]]
  <2>1. PICK next \in {"render", "ocr"} :
          conv' = [conv EXCEPT ![r].pc = next, ![r].page = 1, ![r].pages = 1]
    BY DEF Acquire
  <2>2. conv' = [conv EXCEPT ![r] = [conv[r] EXCEPT !.pc = next, !.page = 1, !.pages = 1]]
    BY <1>1, <2>1 DEF ConvType
  <2>3. QED
    BY <2>2
<1>3. PICK c : c = [conv[r] EXCEPT !.pc = next, !.page = 1, !.pages = 1]
    OBVIOUS
<1>4. /\ c \in ConvType /\ c.pc = next /\ c.page = 1 /\ c.part = conv[r].part
      /\ c.content = conv[r].content /\ c.read = conv[r].read /\ c.failure = conv[r].failure
    BY <1>1, <1>3, FreshOK, ZenonT(60) DEF ConvType
<1>5. ConvOK(c)
    BY <1>1, <1>4 DEF ConvOK
<1>6. Source(r) \in stored \cup {Inline} /\ stored' = stored \ {Source(r)}
    BY DEF Acquire, Takes
<1>7. \A a \in Assets : Took(c, a) => Took(conv[r], a) \/ (a \in stored /\ a \notin stored')
    BY <1>1, <1>4, <1>6, InlineAssumption DEF Took, Source
<1>8. /\ workspaces' = workspaces \cup {Workspace(r)} /\ spent' = spent
      /\ conv' = [conv EXCEPT ![r] = c]
    BY <1>2, <1>3 DEF Acquire
<1>9. \A i \in 1 .. MaxParts : <<r, i>> \in workspaces' => InPlace(c, i)
    BY <1>1, <1>4, <1>8 DEF GateInv, InPlace, Workspace
<1>10. conv[r].part \in 1 .. MaxParts
    BY <1>1, ContentsOK DEF ConvOK, ConvType
<1>11. spent' \in 0 .. MaxMishaps /\ stored' \subseteq stored
    BY <1>6, <1>8 DEF GateInv
<1>12. QED
    BY <1>5, <1>7, <1>8, <1>9, <1>10, <1>11, ConversionMoves

\* A conversion is blocked or cancelled, or goes on with the part it has.
LEMMA GoesOnWithPart ==
    ASSUME GateInv, NEW r \in Requests, NEW c, conv' = [conv EXCEPT ![r] = c], ConvOK(c),
           conv[r].pc \in {"acquire", "render", "ocr", "vision", "cleanup", "sanitize"},
           c.content = conv[r].content, c.part = conv[r].part,
           conv[r].pc = "acquire" => c.pc \in {"blocked", "cancelled"},
           conv[r].pc \in {"render", "ocr", "vision"} => 
               c.pc \in {"render", "ocr", "vision", "cleanup", "cancelled"},
           conv[r].pc = "cleanup" => c.pc = "blocked" /\ c.failure = "cleanup_failed",
           stored' \subseteq stored, workspaces' = workspaces, spent' \in 0 .. MaxMishaps
    PROVE  GateInv'
<1>1. \A a \in Assets : Took(c, a) => Took(conv[r], a)
    BY SameTaken
<1>2. \A i \in 1 .. MaxParts : <<r, i>> \in workspaces' => InPlace(c, i)
    BY DEF GateInv, InPlace
<1>3. conv[r].part \in 1 .. MaxParts
    BY ContentsOK DEF GateInv, ConvOK, ConvType
<1>4. QED
    BY <1>1, <1>2, <1>3, ConversionMoves

\* A conversion is blocked where it has no workspace, or cannot remove it.
LEMMA BlockStep ==
    ASSUME GateInv, NEW r \in Requests, NEW code \in Codes, Block(r, code),
           \/ conv[r].pc \in {"acquire", "sanitize"}
           \/ conv[r].pc = "cleanup" /\ code = "cleanup_failed",
           stored' \subseteq stored, workspaces' = workspaces, spent' \in 0 .. MaxMishaps
    PROVE  GateInv'
<1>1. conv \in [Requests -> ConvType] /\ conv[r] \in ConvType
    BY DEF GateInv
<1>2. PICK c : c = [conv[r] EXCEPT !.pc = "blocked", !.failure = code]
    OBVIOUS
<1>3. /\ c \in ConvType /\ c.pc = "blocked" /\ c.part = conv[r].part
      /\ c.content = conv[r].content /\ c.failure = code
    BY <1>1, <1>2 DEF ConvType
<1>4. conv' = [conv EXCEPT ![r] = c]
    BY <1>1, <1>2 DEF Block, ConvType
<1>5. ConvOK(c)
    BY <1>3 DEF ConvOK
<1>6. QED
    BY <1>3, <1>4, <1>5, GoesOnWithPart

\* Its pages are counted.
LEMMA RenderStep ==
    ASSUME GateInv, NEW r \in Requests, Render(r)
    PROVE  GateInv'
<1>1. conv \in [Requests -> ConvType] /\ conv[r] \in ConvType /\ ConvOK(conv[r]) /\ conv[r].pc = "render"
    BY DEF GateInv, Render
<1>2. PICK n \in 1 .. MaxPages : conv' = [conv EXCEPT ![r].pc = "ocr", ![r].pages = n]
    BY DEF Render
<1>3. PICK c : c = [conv[r] EXCEPT !.pc = "ocr", !.pages = n]
    OBVIOUS
<1>4. /\ c \in ConvType /\ c.pc = "ocr" /\ c.part = conv[r].part /\ c.page = conv[r].page
      /\ c.content = conv[r].content /\ c.failure = conv[r].failure /\ c.read = conv[r].read
    BY <1>1, <1>3, FreshOK DEF ConvType
<1>5. conv' = [conv EXCEPT ![r] = c]
    BY <1>1, <1>2, <1>3 DEF ConvType
<1>6. UNCHANGED <<stored, workspaces, spent>> /\ spent \in 0 .. MaxMishaps
    BY DEF Render, GateInv
<1>7. ConvOK(c)
    BY <1>1, <1>4 DEF ConvOK
<1>8. QED
    BY <1>1, <1>4, <1>5, <1>6, <1>7, GoesOnWithPart

\* After a page comes the next one, or the removal of the workspace.
LEMMA AfterPageOK ==
    ASSUME NEW c, ConvOK(c), c.pc \in {"ocr", "vision"}, c.part <= c.read
    PROVE  /\ ConvOK(AfterPage(c)) /\ AfterPage(c).pc \in {"ocr", "cleanup"}
           /\ AfterPage(c).content = c.content /\ AfterPage(c).part = c.part
<1>1. c \in ConvType
    BY DEF ConvOK
<1>2. CASE c.page < c.pages
  <2>1. c.page + 1 \in 0 .. MaxPages /\ c.page + 1 > 1
    BY <1>1, <1>2, GateBoundsAssumption DEF ConvType, ConvOK
  <2>2. PICK d : d = [c EXCEPT !.pc = "ocr", !.page = c.page + 1]
    OBVIOUS
  <2>3. /\ d \in ConvType /\ d.pc = "ocr" /\ d.part = c.part /\ d.page = c.page + 1
        /\ d.content = c.content /\ d.failure = c.failure /\ d.read = c.read
    BY <1>1, <2>1, <2>2 DEF ConvType
  <2>4. AfterPage(c) = d
    BY <1>2, <2>2 DEF AfterPage
  <2>5. c.read \in Nat /\ c.part \in Nat
    BY <1>1, GateBoundsAssumption DEF ConvType
  <2>6. QED
    BY <2>1, <2>3, <2>4, <2>5 DEF ConvOK
<1>3. CASE ~(c.page < c.pages)
  <2>1. PICK d : d = [c EXCEPT !.pc = "cleanup"]
    OBVIOUS
  <2>2. /\ d \in ConvType /\ d.pc = "cleanup" /\ d.part = c.part
        /\ d.content = c.content /\ d.failure = c.failure /\ d.read = c.read
    BY <1>1, <2>1 DEF ConvType
  <2>3. AfterPage(c) = d
    BY <1>3, <2>1 DEF AfterPage
  <2>4. QED
    BY <2>2, <2>3 DEF ConvOK
<1>4. QED
    BY <1>2, <1>3

\* A page is read.
LEMMA OcrStep ==
    ASSUME GateInv, NEW r \in Requests, OcrText(r)
    PROVE  GateInv'
<1>1. conv \in [Requests -> ConvType] /\ conv[r] \in ConvType /\ ConvOK(conv[r]) /\ conv[r].pc = "ocr"
    BY DEF GateInv, OcrText
<1>2. UNCHANGED <<stored, workspaces, spent>> /\ spent \in 0 .. MaxMishaps
    BY DEF OcrText, GateInv
<1>0. conv[r].read + 1 \in Nat
    BY <1>1 DEF ConvType
<1>3. PICK d : d = [conv[r] EXCEPT !.read = conv[r].read + 1]
    OBVIOUS
<1>4. /\ d \in ConvType /\ d.pc = "ocr" /\ d.part = conv[r].part /\ d.page = conv[r].page
      /\ d.content = conv[r].content /\ d.failure = conv[r].failure /\ d.read = conv[r].read + 1
    BY <1>0, <1>1, <1>3 DEF ConvType
<1>5. conv[r].read \in Nat /\ conv[r].part \in Nat
    BY <1>1, GateBoundsAssumption DEF ConvType
<1>6. ConvOK(d) /\ d.part <= d.read
    BY <1>1, <1>4, <1>5 DEF ConvOK
<1>9. conv' = [conv EXCEPT ![r] = IF d.generic THEN [d EXCEPT !.pc = "vision"] ELSE AfterPage(d)]
    BY <1>3 DEF OcrText
<1>7. CASE d.generic
  <2>1. PICK c : c = [d EXCEPT !.pc = "vision"]
    OBVIOUS
  <2>2. /\ c \in ConvType /\ c.pc = "vision" /\ c.part = conv[r].part /\ c.page = conv[r].page
        /\ c.content = conv[r].content /\ c.failure = conv[r].failure /\ c.read = conv[r].read + 1
    BY <1>4, <2>1 DEF ConvType
  <2>3. conv' = [conv EXCEPT ![r] = c]
    BY <1>7, <1>9, <2>1
  <2>4. ConvOK(c)
    BY <1>1, <1>5, <2>2 DEF ConvOK
  <2>5. QED
    BY <1>1, <1>2, <2>2, <2>3, <2>4, GoesOnWithPart
<1>8. CASE ~d.generic
  <2>1. conv' = [conv EXCEPT ![r] = AfterPage(d)]
    BY <1>8, <1>9
  <2>2. PICK c : c = AfterPage(d)
    OBVIOUS
  <2>3. /\ ConvOK(c) /\ c.pc \in {"ocr", "cleanup"} /\ c.content = conv[r].content
        /\ c.part = conv[r].part
    BY <1>4, <1>6, <2>2, AfterPageOK
  <2>4. conv' = [conv EXCEPT ![r] = c]
    BY <2>1, <2>2
  <2>5. QED
    BY <1>1, <1>2, <2>3, <2>4, GoesOnWithPart
<1>10. QED
    BY <1>7, <1>8

\* And described.
LEMMA VisionStep ==
    ASSUME GateInv, NEW r \in Requests, VisionText(r)
    PROVE  GateInv'
<1>1. ConvOK(conv[r]) /\ conv[r].pc = "vision" /\ conv[r].part <= conv[r].read
    BY DEF GateInv, VisionText, ConvOK
<1>2. UNCHANGED <<stored, workspaces, spent>> /\ spent \in 0 .. MaxMishaps
    BY DEF VisionText, GateInv
<1>3. conv' = [conv EXCEPT ![r] = AfterPage(conv[r])]
    BY DEF VisionText
<1>4. PICK c : c = AfterPage(conv[r])
    OBVIOUS
<1>5. /\ ConvOK(c) /\ c.pc \in {"ocr", "cleanup"} /\ c.content = conv[r].content
      /\ c.part = conv[r].part
    BY <1>1, <1>4, AfterPageOK
<1>6. conv' = [conv EXCEPT ![r] = c]
    BY <1>3, <1>4
<1>7. QED
    BY <1>1, <1>2, <1>5, <1>6, GoesOnWithPart

\* A step of the processing fails: the workspace is still to be removed.
LEMMA FailsStep ==
    ASSUME GateInv, NEW r \in Requests, ProcessingFails(r)
    PROVE  GateInv'
<1>1. /\ conv \in [Requests -> ConvType] /\ conv[r] \in ConvType /\ ConvOK(conv[r])
      /\ conv[r].pc \in {"render", "ocr", "vision"}
    BY DEF GateInv, ProcessingFails
<1>2. PICK code \in FailuresOf(conv[r].pc) :
        conv' = [conv EXCEPT ![r].pc = "cleanup", ![r].failure = code]
    BY DEF ProcessingFails
<1>3. code \in Codes /\ code /= "none"
    BY <1>1, <1>2 DEF FailuresOf, Codes
<1>4. PICK c : c = [conv[r] EXCEPT !.pc = "cleanup", !.failure = code]
    OBVIOUS
<1>5. /\ c \in ConvType /\ c.pc = "cleanup" /\ c.part = conv[r].part /\ c.failure = code
      /\ c.content = conv[r].content
    BY <1>1, <1>3, <1>4 DEF ConvType
<1>6. conv' = [conv EXCEPT ![r] = c]
    BY <1>1, <1>2, <1>4 DEF ConvType
<1>7. ConvOK(c)
    BY <1>1, <1>3, <1>5 DEF ConvOK
<1>8. UNCHANGED <<stored, workspaces, spent>> /\ spent \in 0 .. MaxMishaps
    BY DEF ProcessingFails, GateInv
<1>9. QED
    BY <1>1, <1>5, <1>6, <1>7, <1>8, GoesOnWithPart

\* The client leaves: the workspace stays.
LEMMA CancelStep ==
    ASSUME GateInv, NEW r \in Requests, Cancel(r)
    PROVE  GateInv'
<1>1. /\ conv \in [Requests -> ConvType] /\ conv[r] \in ConvType /\ ConvOK(conv[r])
      /\ conv[r].pc \in {"acquire", "render", "ocr", "vision"}
    BY DEF GateInv, Cancel
<1>2. PICK c : c = [conv[r] EXCEPT !.pc = "cancelled"]
    OBVIOUS
<1>3. c \in ConvType /\ c.pc = "cancelled" /\ c.part = conv[r].part /\ c.content = conv[r].content
    BY <1>1, <1>2 DEF ConvType
<1>4. conv' = [conv EXCEPT ![r] = c]
    BY <1>1, <1>2 DEF Cancel, ConvType
<1>5. ConvOK(c)
    BY <1>3 DEF ConvOK
<1>6. UNCHANGED <<stored, workspaces>> /\ spent' \in 0 .. MaxMishaps
    BY GateBoundsAssumption DEF Cancel, GateInv
<1>7. QED
    BY <1>1, <1>3, <1>4, <1>5, <1>6, GoesOnWithPart

\* The request is put together.
LEMMA SanitizeStep ==
    ASSUME GateInv, NEW r \in Requests, Sanitize(r)
    PROVE  GateInv'
<1>1. /\ conv \in [Requests -> ConvType] /\ conv[r] \in ConvType /\ ConvOK(conv[r])
      /\ conv[r].pc = "sanitize"
    BY DEF GateInv, Sanitize
<1>2. PICK c : c = [conv[r] EXCEPT !.pc = "ready"]
    OBVIOUS
<1>3. /\ c \in ConvType /\ c.pc = "ready" /\ c.part = conv[r].part /\ c.content = conv[r].content
      /\ c.failure = conv[r].failure /\ c.read = conv[r].read
    BY <1>1, <1>2 DEF ConvType
<1>4. conv' = [conv EXCEPT ![r] = c]
    BY <1>1, <1>2 DEF Sanitize, ConvType
<1>5. ConvOK(c)
    BY <1>1, <1>3 DEF ConvOK
<1>6. UNCHANGED <<stored, workspaces, spent>> /\ spent \in 0 .. MaxMishaps
    BY DEF Sanitize, GateInv
<1>7. QED
    BY <1>1, <1>3, <1>4, <1>5, <1>6, GoesOnWithPart

\* The workspace is removed, and the next part or the end follows.
LEMMA CleanupStep ==
    ASSUME GateInv, NEW r \in Requests, Cleanup(r)
    PROVE  GateInv'
<1>1. /\ conv \in [Requests -> ConvType] /\ conv[r] \in ConvType /\ ConvOK(conv[r])
      /\ conv[r].pc = "cleanup" /\ workspaces' = workspaces \ {Workspace(r)}
      /\ UNCHANGED <<stored, spent>> /\ spent \in 0 .. MaxMishaps
    BY DEF GateInv, Cleanup
<1>2. \A i \in 1 .. MaxParts : <<r, i>> \notin workspaces'
    BY <1>1 DEF GateInv, InPlace, Workspace
<1>3. /\ Len(conv[r].content) \in 1 .. MaxParts /\ conv[r].part \in 1 .. Len(conv[r].content)
      /\ conv[r].read \in Nat /\ conv[r].content \in Contents
    BY <1>1, ContentsOK DEF ConvOK, ConvType
<1>4. PICK c : c = AfterCleanup(conv[r])
    OBVIOUS
<1>5. ConvOK(c) /\ \A a \in Assets : Took(c, a) => Took(conv[r], a)
  <2>1. CASE conv[r].failure /= "none"
    <3>1. c = [conv[r] EXCEPT !.pc = "blocked"]
      BY <1>4, <2>1 DEF AfterCleanup
    <3>2. c \in ConvType /\ c.pc = "blocked"
      BY <1>1, <3>1 DEF ConvType
    <3>3. QED
      BY <3>2 DEF ConvOK, Took
  <2>2. CASE conv[r].failure = "none" /\ conv[r].part < Len(conv[r].content)
    <3>1. c = [conv[r] EXCEPT !.pc = "acquire", !.part = conv[r].part + 1]
      BY <1>4, <2>2 DEF AfterCleanup
    <3>2. conv[r].part + 1 \in 0 .. MaxParts /\ conv[r].part + 1 \in 1 .. Len(conv[r].content)
      BY <1>3, <2>2, GateBoundsAssumption
    <3>3. /\ c \in ConvType /\ c.pc = "acquire" /\ c.part = conv[r].part + 1
          /\ c.content = conv[r].content /\ c.failure = conv[r].failure /\ c.read = conv[r].read
      BY <1>1, <3>1, <3>2 DEF ConvType
    <3>4. ConvOK(c)
      BY <1>1, <1>3, <2>2, <3>2, <3>3 DEF ConvOK
    <3>5. ASSUME NEW a \in Assets, Took(c, a) PROVE Took(conv[r], a)
      <4>1. PICK i \in 1 .. conv[r].part + 1 :
              conv[r].content[i] = a /\ (i = conv[r].part + 1 => FALSE)
        BY <3>3, <3>5 DEF Took
      <4>2. i \in 1 .. conv[r].part
        BY <1>3, <4>1
      <4>3. QED
        BY <1>1, <4>1, <4>2 DEF Took
    <3>6. QED
      BY <3>4, <3>5
  <2>3. CASE conv[r].failure = "none" /\ ~(conv[r].part < Len(conv[r].content))
    <3>1. c = [conv[r] EXCEPT !.pc = "sanitize"]
      BY <1>4, <2>3 DEF AfterCleanup
    <3>2. /\ c \in ConvType /\ c.pc = "sanitize" /\ c.part = conv[r].part
          /\ c.content = conv[r].content /\ c.failure = conv[r].failure /\ c.read = conv[r].read
      BY <1>1, <3>1 DEF ConvType
    <3>3. conv[r].part = Len(conv[r].content)
      BY <1>3, <2>3
    <3>4. QED
      BY <1>1, <1>3, <2>3, <3>2, <3>3 DEF ConvOK, Took
  <2>4. QED
    BY <2>1, <2>2, <2>3
<1>6. conv' = [conv EXCEPT ![r] = c]
    BY <1>4 DEF Cleanup
<1>7. /\ Workspace(r) \notin workspaces' /\ stored' \subseteq stored /\ spent' \in 0 .. MaxMishaps
      /\ workspaces' \subseteq workspaces \cup {Workspace(r)}
    BY <1>1
<1>8. QED
    BY <1>2, <1>5, <1>6, <1>7, ConversionMoves

\* Every step keeps the invariant.
LEMMA GateStepInv ==
    ASSUME GateInv, [GateNext]_gateVars
    PROVE  GateInv'
<1>1. CASE UNCHANGED gateVars
    BY <1>1 DEF gateVars, GateInv, AssetsOnce
<1>2. ASSUME NEW r \in Requests, GateStep(r) PROVE GateInv'
  <2>1. CASE AcquireFails(r)
    <3>1. PICK code \in {"media_acquisition_failed", "workspace_failed"} : Block(r, code)
      BY <2>1 DEF AcquireFails
    <3>2. /\ code \in Codes /\ conv[r].pc = "acquire" /\ workspaces' = workspaces
          /\ stored' \subseteq stored /\ spent' \in 0 .. MaxMishaps
      BY <2>1 DEF AcquireFails, Takes, Codes, GateInv
    <3>3. QED
      BY <3>1, <3>2, BlockStep
  <2>2. CASE CleanupFails(r)
    <3>1. spent' \in 0 .. MaxMishaps
      BY <2>2, GateBoundsAssumption DEF CleanupFails, GateInv
    <3>2. QED
      BY <2>2, <3>1, BlockStep DEF CleanupFails, Codes
  <2>3. CASE SanitizeFails(r)
    BY <2>3, BlockStep DEF SanitizeFails, Codes, GateInv
  <2>4. QED
    BY <1>2, <2>1, <2>2, <2>3, BeginStep, AcquireStep, RenderStep, OcrStep, VisionStep, FailsStep,
       CleanupStep, SanitizeStep, CancelStep DEF GateStep
<1>3. QED
    BY <1>1, <1>2 DEF GateNext

\* It holds at the start.
LEMMA GateStart == GateInit => GateInv
<1> SUFFICES ASSUME GateInit PROVE GateInv
    OBVIOUS
<1>1. conv \in [Requests -> ConvType] /\ \A r \in Requests : conv[r] = Fresh
    BY FreshOK DEF GateInit
<1>2. ConvOK(Fresh)
    BY FreshOK DEF ConvOK
<1>3. QED
    BY <1>1, <1>2, FreshOK, GateBoundsAssumption DEF GateInit, GateInv, AssetsOnce, Took

\* It is an invariant.
LEMMA GateInvariance == GateSpec => []GateInv
BY GateStart, GateStepInv, PTL DEF GateSpec

\* It contains the types.
LEMMA GateTyped == GateInv => GateTypeOK
BY DEF GateInv, GateTypeOK

\* Conversions, stored assets and workspaces keep their types (PreRequestGate).
THEOREM GateTypeCorrect == GateSpec => []GateTypeOK
BY GateTyped, GateInvariance, PTL

\* For any number of requests, parts and pages: an asset is in one result, a
\* request that goes out was read to the end without a failure, and a workspace
\* left over belongs to a request that reported it or was cancelled.
THEOREM GateKeepsWord == GateSpec => []GateKeepsItsWord
<1>1. GateInv => GateKeepsItsWord
  <2> SUFFICES ASSUME GateInv PROVE GateKeepsItsWord
    OBVIOUS
  <2>1. ASSUME NEW r \in Requests, NEW a \in Assets, conv[r].pc = "ready", Names(r, a)
        PROVE  Took(conv[r], a)
    <3>1. ConvOK(conv[r]) /\ conv[r].content \in Contents
      BY <2>1 DEF GateInv, ConvOK
    <3>2. DOMAIN conv[r].content = 1 .. conv[r].part
      BY <2>1, <3>1, ContentsOK DEF ConvOK
    <3>3. QED
      BY <2>1, <3>2 DEF Names, Took
  <2>2. OneResultPerAsset
    BY <2>1 DEF GateInv, AssetsOnce, OneResultPerAsset
  <2>3. ReadyMeansAllRead
    <3>1. ASSUME NEW r \in Requests, conv[r].pc = "ready"
          PROVE  conv[r].failure = "none" /\ conv[r].read >= Len(conv[r].content)
      <4>1. ConvOK(conv[r]) /\ conv[r] \in ConvType /\ conv[r].part = Len(conv[r].content)
        BY <3>1 DEF GateInv, ConvOK
      <4>2. QED
        BY <3>1, <4>1 DEF ConvOK, ConvType
    <3>2. QED
      BY <3>1 DEF ReadyMeansAllRead
  <2>4. ResidueIsReported
    BY DEF GateInv, InPlace, ResidueIsReported, Ended
  <2>5. OneWorkspaceAtATime
    BY DEF GateInv, InPlace, OneWorkspaceAtATime, Ended
  <2>6. QED
    BY <2>2, <2>3, <2>4, <2>5 DEF GateKeepsItsWord
<1>2. QED
    BY <1>1, GateInvariance, PTL

(***************************************************************************)
(* The rate of a key                                                       *)
(***************************************************************************)

\* Products with the rate of refill.
LEMMA RefillTimes ==
    /\ \A x, y \in Nat : Refill * (x + y) = Refill * x + Refill * y /\ Refill * x \in Nat
    /\ \A x, y \in Nat : x <= y => Refill * x <= Refill * y
<1>1. Refill \in Nat
    BY SettingsAssumption
<1>2. \A x, y \in Nat : Refill * (x + y) = Refill * x + Refill * y /\ Refill * x \in Nat
    BY <1>1
<1>3. ASSUME NEW x \in Nat, NEW y \in Nat, x <= y PROVE Refill * x <= Refill * y
  <2>1. y - x \in Nat /\ y = x + (y - x)
    BY <1>3
  <2>2. Refill * y = Refill * x + Refill * (y - x)
    BY <1>2, <2>1
  <2>3. Refill * x \in Nat /\ Refill * (y - x) \in Nat /\ Refill * y \in Nat
    BY <1>2, <2>1
  <2>4. QED
    BY <2>2, <2>3
<1>4. QED
    BY <1>2, <1>3

\* The places of the calls of a key that were let in from a to b.
In(s, a, b) == {i \in 1 .. Len(s) : a <= s[i] /\ s[i] <= b}

\* They are finite.
LEMMA InType ==
    ASSUME NEW s \in Seq(Nat), NEW a \in Nat, NEW b \in Nat
    PROVE  /\ IsFiniteSet(In(s, a, b)) /\ Cardinality(In(s, a, b)) \in Nat
           /\ {i \in DOMAIN s : a <= s[i] /\ s[i] <= b} = In(s, a, b)
<1>1. IsFiniteSet(1 .. Len(s))
    BY FS_Interval
<1>2. In(s, a, b) \in SUBSET (1 .. Len(s))
    BY DEF In
<1>3. IsFiniteSet(In(s, a, b)) /\ Cardinality(In(s, a, b)) \in Nat
    BY <1>1, <1>2, FS_Subset, FS_CardinalityType
<1>4. QED
    BY <1>3 DEF In

\* Nothing is let in after the last time.
LEMMA InLater ==
    ASSUME NEW s \in Seq(Nat), NEW m \in Nat, \A i \in 1 .. Len(s) : s[i] <= m,
           NEW a \in Nat, NEW b \in Nat, m <= b
    PROVE  In(s, a, b) = In(s, a, m)
<1>1. \A i \in 1 .. Len(s) : s[i] \in Nat
    OBVIOUS
<1>2. QED
    BY <1>1 DEF In

\* Times up to t are times up to t + 1.
LEMMA UpTo ==
    ASSUME NEW t \in Nat, NEW s \in Seq(0 .. t)
    PROVE  s \in Seq(Nat) /\ s \in Seq(0 .. t + 1) /\ \A i \in 1 .. Len(s) : s[i] <= t
<1>1. 0 .. t \subseteq Nat /\ 0 .. t \subseteq 0 .. t + 1
    OBVIOUS
<1>2. \A i \in 1 .. Len(s) : s[i] \in 0 .. t
    OBVIOUS
<1>3. s \in Seq(Nat) /\ s \in Seq(0 .. t + 1)
    BY <1>1
<1>4. QED
    BY <1>2, <1>3

\* One more at time t.
LEMMA InAppend ==
    ASSUME NEW s \in Seq(Nat), NEW t \in Nat, NEW a \in Nat, NEW b \in Nat
    PROVE  /\ Append(s, t) \in Seq(Nat)
           /\ a <= t /\ t <= b => Cardinality(In(Append(s, t), a, b)) = Cardinality(In(s, a, b)) + 1
           /\ b < t => In(Append(s, t), a, b) = In(s, a, b)
<1> DEFINE n == Len(s) + 1
<1>1. /\ Append(s, t) \in Seq(Nat) /\ Len(Append(s, t)) = n /\ Append(s, t)[n] = t
      /\ \A i \in 1 .. Len(s) : Append(s, t)[i] = s[i]
      /\ 1 .. n = 1 .. Len(s) \cup {n} /\ n \notin 1 .. Len(s)
    OBVIOUS
<1>2. a <= t /\ t <= b => In(Append(s, t), a, b) = In(s, a, b) \cup {n}
    BY <1>1 DEF In
<1>3. b < t => In(Append(s, t), a, b) = In(s, a, b)
    BY <1>1 DEF In
<1>4. n \notin In(s, a, b)
    BY <1>1 DEF In
<1> HIDE DEF n
<1>5. Cardinality(In(s, a, b) \cup {n}) = Cardinality(In(s, a, b)) + 1
    BY <1>4, InType, FS_AddElement
<1>6. QED
    BY <1>1, <1>2, <1>3, <1>5

\* What the bucket b of a key, whose calls were let in at the times of s, has
\* left at the time t.
KeyOK(b, s, t) ==
    /\ s \in Seq(0 .. t)
    /\ b = NoBucket => \A a \in 0 .. t : Cardinality(In(s, a, t)) <= Refill * (t - a)
    /\ b # NoBucket =>
         /\ b.seen <= t /\ \A i \in 1 .. Len(s) : s[i] <= b.seen
         /\ \A a \in 0 .. b.seen :
              Cardinality(In(s, a, b.seen)) + b.tokens <= Capacity + Refill * (b.seen - a)
    /\ \A a \in 0 .. t : \A u \in a .. t : Cardinality(In(s, a, u)) <= Capacity + Refill * (u - a)

\* The tokens that a call would find.
TokensOf(k) == IF Purged[k] = NoBucket THEN Capacity ELSE Refilled(Purged[k])

\* The inductive invariant.
RateInv ==
    /\ rateNow \in 0 .. MaxSeconds
    /\ bucket \in [Keys -> Bucket \cup {NoBucket}]
    /\ IsFiniteSet(Buckets(bucket)) /\ Cardinality(Buckets(bucket)) <= MaxKeys
    /\ DOMAIN granted = Keys
    /\ granted = [k \in Keys |-> granted[k]]
    /\ \A k \in Keys : KeyOK(bucket[k], granted[k], rateNow)

\* A bucket refills before it is dropped.
LEMMA RateNumbers ==
    /\ Capacity \in Nat /\ Refill \in Nat /\ IdleTtl \in Nat /\ MaxKeys \in Nat /\ MaxSeconds \in Nat
    /\ Capacity > 0 /\ MaxKeys > 0
    /\ Capacity <= Refill * IdleTtl
BY SettingsAssumption

\* The calls that were let in and the tokens there are now are bounded together:
\* a bucket that is dropped would have been full again.
LEMMA BoundedTogether ==
    ASSUME RateInv, NEW k \in Keys, NEW a \in 0 .. rateNow
    PROVE  /\ TokensOf(k) \in 0 .. Capacity
           /\ Cardinality(In(granted[k], a, rateNow)) + TokensOf(k) <= Capacity + Refill * (rateNow - a)
<1> DEFINE b == bucket[k]
           s == granted[k]
           t == rateNow
<1>1. /\ t \in Nat /\ a \in Nat /\ t - a \in Nat /\ b \in Bucket \cup {NoBucket} /\ KeyOK(b, s, t)
      /\ s \in Seq(Nat)
    BY RateNumbers DEF RateInv, KeyOK
<1>2. Cardinality(In(s, a, t)) \in Nat
    BY <1>1, InType
<1>3. Refill * (t - a) \in Nat
    BY <1>1, RefillTimes
<1>4. CASE b = NoBucket
  <2>1. TokensOf(k) = Capacity
    BY <1>4 DEF TokensOf, Purged
  <2>2. Cardinality(In(s, a, t)) <= Refill * (t - a)
    BY <1>1, <1>4 DEF KeyOK
  <2>3. QED
    BY <1>2, <1>3, <2>1, <2>2, RateNumbers
<1>5. CASE b # NoBucket
  <2> DEFINE m == b.seen
  <2>1. /\ b \in Bucket /\ m \in Nat /\ m <= t
        /\ b.tokens \in 0 .. Capacity /\ b.tokens \in Nat /\ t - m \in Nat
        /\ \A i \in 1 .. Len(s) : s[i] <= m
    BY <1>1, <1>5, RateNumbers, SMTT(30) DEF Bucket, KeyOK
  <2>2. Refill * (t - m) \in Nat /\ (t - m) * Refill = Refill * (t - m)
    <3>1. Refill * (t - m) \in Nat
      BY <2>1, RefillTimes
    <3>2. (t - m) * Refill = Refill * (t - m)
      BY <2>1, RateNumbers
    <3>3. QED
      BY <3>1, <3>2
  <2>3. /\ TokensOf(k) \in 0 .. Capacity
        /\ \/ TokensOf(k) = Capacity /\ m + IdleTtl <= t
           \/ TokensOf(k) <= b.tokens + Refill * (t - m)
    <3>1. CASE m + IdleTtl <= t
      BY <1>5, <3>1, RateNumbers DEF TokensOf, Purged
    <3>2. CASE ~(m + IdleTtl <= t)
      <4>1. Purged[k] = b
        BY <1>5, <3>2 DEF Purged
      <4>2. TokensOf(k) = Fewer(Capacity, b.tokens + (t - m) * Refill)
        BY <1>5, <4>1 DEF TokensOf, Refilled
      <4> DEFINE x == (t - m) * Refill
                 y == Refill * (t - m)
      <4>3. x = y /\ x \in Nat
        BY <2>1, <2>2, RateNumbers
      <4>4. TokensOf(k) = Fewer(Capacity, b.tokens + x)
        BY <4>2
      <4> HIDE DEF x, y
      <4>5. TokensOf(k) \in 0 .. Capacity /\ TokensOf(k) <= b.tokens + y
        BY <2>1, <4>3, <4>4, RateNumbers DEF Fewer
      <4>6. QED
        BY <4>5 DEF y
    <3>3. QED
      BY <3>1, <3>2
  <2>4. CASE m < a
    <3>1. Cardinality(In(s, a, t)) = 0
      <4>1. ASSUME NEW i \in 1 .. Len(s) PROVE ~(a <= s[i] /\ s[i] <= t)
        <5>1. s[i] <= m /\ s[i] \in Nat
          BY <1>1, <2>1, SMTT(30)
        <5>2. QED
          BY <1>1, <2>1, <2>4, <5>1, SMTT(30)
      <4>2. In(s, a, t) = {}
        BY <4>1 DEF In
      <4>3. QED
        BY <4>2, FS_EmptySet
    <3>2. QED
      BY <1>3, <2>3, <3>1, RateNumbers
  <2>5. CASE ~(m < a)
    <3>1. a \in 0 .. m /\ m - a \in Nat
      BY <1>1, <2>1, <2>5, SMTT(30)
    <3>2. Cardinality(In(s, a, t)) + b.tokens <= Capacity + Refill * (m - a)
      <4>1. In(s, a, t) = In(s, a, m)
        BY <1>1, <2>1, InLater, ZenonT(60)
      <4>2. QED
        BY <1>1, <1>5, <3>1, <4>1 DEF KeyOK
    <3>3. Refill * (t - a) = Refill * (t - m) + Refill * (m - a) /\ Refill * (m - a) \in Nat
      <4>1. t - a = (t - m) + (m - a)
        BY <1>1, <2>1
      <4>2. QED
        BY <2>1, <3>1, <4>1, RefillTimes
    <3>4. m + IdleTtl <= t => Capacity <= Refill * (t - m)
      <4>1. ASSUME m + IdleTtl <= t PROVE Refill * IdleTtl <= Refill * (t - m)
        <5>1. IdleTtl <= t - m /\ IdleTtl \in Nat
          BY <1>1, <2>1, <4>1, RateNumbers
        <5>2. QED
          BY <2>1, <5>1, RefillTimes
      <4>2. Refill * IdleTtl \in Nat
        BY RefillTimes, RateNumbers
      <4>3. QED
        BY <2>2, <4>1, <4>2, RateNumbers
    <3> DEFINE x == Refill * (t - m)
               y == Refill * (m - a)
               z == Refill * (t - a)
               c == Cardinality(In(s, a, t))
               r == TokensOf(k)
               v == b.tokens
    <3>5. /\ x \in Nat /\ y \in Nat /\ z = x + y /\ c \in Nat /\ v \in Nat /\ c + v <= Capacity + y
          /\ r \in 0 .. Capacity
          /\ \/ r = Capacity /\ Capacity <= x
             \/ r <= v + x
      BY <1>2, <2>1, <2>2, <2>3, <3>2, <3>3, <3>4
    <3> HIDE DEF x, y, z, c, r, v
    <3>6. r \in 0 .. Capacity /\ c + r <= Capacity + z
      BY <3>5, RateNumbers
    <3>7. QED
      BY <3>6 DEF z, c, r
  <2>6. QED
    BY <2>4, <2>5
<1>6. QED
    BY <1>4, <1>5

\* Purging drops buckets only.
LEMMA PurgedOK ==
    ASSUME RateInv
    PROVE  /\ Purged \in [Keys -> Bucket \cup {NoBucket}]
           /\ \A k \in Keys : Purged[k] = bucket[k] \/ Purged[k] = NoBucket
           /\ IsFiniteSet(Buckets(Purged)) /\ Cardinality(Buckets(Purged)) <= MaxKeys
           /\ Cardinality(Buckets(Purged)) \in Nat
<1>1. /\ Purged \in [Keys -> Bucket \cup {NoBucket}]
      /\ \A k \in Keys : Purged[k] = bucket[k] \/ Purged[k] = NoBucket
    BY DEF Purged, RateInv
<1>2. Buckets(Purged) \in SUBSET Buckets(bucket)
    BY <1>1 DEF Buckets
<1>3. IsFiniteSet(Buckets(bucket)) /\ Cardinality(Buckets(bucket)) <= MaxKeys
    BY DEF RateInv
<1>4. /\ IsFiniteSet(Buckets(Purged)) /\ Cardinality(Buckets(Purged)) <= Cardinality(Buckets(bucket))
      /\ Cardinality(Buckets(Purged)) \in Nat /\ Cardinality(Buckets(bucket)) \in Nat
    BY <1>2, <1>3, FS_Subset, FS_CardinalityType
<1>5. QED
    BY <1>1, <1>3, <1>4, RateNumbers

\* A key that is not called keeps its right, with its bucket or without.
LEMMA KeyPurged ==
    ASSUME RateInv, NEW k \in Keys
    PROVE  KeyOK(Purged[k], granted[k], rateNow)
<1>1. KeyOK(bucket[k], granted[k], rateNow)
    BY DEF RateInv
<1>2. CASE Purged[k] = bucket[k]
    BY <1>1, <1>2
<1>3. CASE Purged[k] = NoBucket
  <2>1. TokensOf(k) = Capacity
    BY <1>3 DEF TokensOf
  <2>2. ASSUME NEW a \in 0 .. rateNow
        PROVE  Cardinality(In(granted[k], a, rateNow)) <= Refill * (rateNow - a)
    <3> DEFINE c == Cardinality(In(granted[k], a, rateNow))
               x == Refill * (rateNow - a)
    <3>1. c + Capacity <= Capacity + x
      BY <2>1, BoundedTogether
    <3>2. c \in Nat /\ x \in Nat
      <4>1. granted[k] \in Seq(Nat) /\ a \in Nat /\ rateNow \in Nat /\ rateNow - a \in Nat
        BY <1>1, RateNumbers DEF RateInv, KeyOK
      <4>2. QED
        BY <4>1, InType, RefillTimes
    <3> HIDE DEF c, x
    <3>3. c <= x
      BY <3>1, <3>2, RateNumbers
    <3>4. QED
      BY <3>3 DEF c, x
  <2>3. QED
    BY <1>1, <1>3, <2>2 DEF KeyOK
<1>4. QED
    BY <1>2, <1>3, PurgedOK

\* A key that is called has its tokens counted, and one taken if there is one.
LEMMA KeyCalled ==
    ASSUME RateInv, NEW k \in Keys, NEW tokens, tokens = TokensOf(k), NEW b, NEW s,
           b = [tokens |-> IF tokens >= 1 THEN tokens - 1 ELSE tokens, seen |-> rateNow],
           s = IF tokens >= 1 THEN Append(granted[k], rateNow) ELSE granted[k]
    PROVE  b \in Bucket /\ KeyOK(b, s, rateNow)
<1> DEFINE t == rateNow
           g == granted[k]
<1>1. /\ t \in Nat /\ t \in 0 .. MaxSeconds /\ KeyOK(bucket[k], g, t) /\ g \in Seq(0 .. t)
      /\ g \in Seq(Nat)
    BY RateNumbers DEF RateInv, KeyOK
<1>2. /\ tokens \in 0 .. Capacity
      /\ \A a \in 0 .. t : Cardinality(In(g, a, t)) + tokens <= Capacity + Refill * (t - a)
  <2>1. 0 \in 0 .. t
    BY <1>1
  <2>2. QED
    BY <2>1, BoundedTogether
<1>3. b \in Bucket /\ b # NoBucket /\ b.seen = t /\ b.tokens = IF tokens >= 1 THEN tokens - 1 ELSE tokens
  <2>1. (IF tokens >= 1 THEN tokens - 1 ELSE tokens) \in 0 .. Capacity
    BY <1>2, RateNumbers
  <2>2. QED
    BY <1>1, <2>1, NoBucketAssumption DEF Bucket
<1>4. s \in Seq(0 .. t) /\ s \in Seq(Nat) /\ \A i \in 1 .. Len(s) : s[i] <= t
  <2>1. t \in 0 .. t /\ 0 .. t \subseteq Nat
    BY <1>1
  <2>2. Append(g, t) \in Seq(0 .. t)
    BY <1>1, <2>1
  <2>3. s \in Seq(0 .. t)
    BY <1>1, <2>2
  <2>4. QED
    BY <1>1, <2>3, UpTo
<1>5. ASSUME NEW a \in 0 .. t
      PROVE  Cardinality(In(s, a, t)) + b.tokens <= Capacity + Refill * (t - a)
  <2> DEFINE c == Cardinality(In(g, a, t))
             d == Cardinality(In(s, a, t))
             x == Refill * (t - a)
  <2>1. a \in Nat /\ a <= t /\ t - a \in Nat
    BY <1>1
  <2>2. c \in Nat /\ x \in Nat /\ c + tokens <= Capacity + x
    BY <1>1, <1>2, <2>1, InType, RefillTimes
  <2>3. d = IF tokens >= 1 THEN c + 1 ELSE c
    BY <1>1, <2>1, InAppend
  <2> HIDE DEF c, d, x
  <2>4. d + b.tokens <= Capacity + x
    BY <1>2, <1>3, <2>2, <2>3, RateNumbers
  <2>5. QED
    BY <2>4 DEF d, x
<1>6. ASSUME NEW a \in 0 .. t, NEW u \in a .. t
      PROVE  Cardinality(In(s, a, u)) <= Capacity + Refill * (u - a)
  <2>1. CASE u = t
    <3> DEFINE d == Cardinality(In(s, a, t))
               x == Refill * (t - a)
    <3>1. d + b.tokens <= Capacity + x
      BY <1>5
    <3>2. d \in Nat /\ x \in Nat /\ b.tokens \in Nat
      <4>1. a \in Nat /\ t - a \in Nat
        BY <1>1
      <4>2. QED
        <5>1. d \in Nat
          BY <1>1, <1>4, <4>1, InType
        <5>2. x \in Nat
          BY <4>1, RefillTimes
        <5>3. b.tokens \in Nat
          BY <1>2, <1>3, RateNumbers
        <5>4. QED
          BY <5>1, <5>2, <5>3
    <3> HIDE DEF d, x
    <3>3. d <= Capacity + x
      BY <3>1, <3>2, RateNumbers
    <3>4. QED
      BY <2>1, <3>3 DEF d, x
  <2>2. CASE u # t
    <3>1. u < t /\ u \in Nat /\ a \in Nat
      BY <1>1, <2>2
    <3>2. In(s, a, u) = In(g, a, u)
      BY <1>1, <3>1, InAppend
    <3>3. QED
      BY <1>1, <3>2 DEF KeyOK
  <2>3. QED
    BY <2>1, <2>2
<1>7. \A a \in 0 .. b.seen : Cardinality(In(s, a, b.seen)) + b.tokens <= Capacity + Refill * (b.seen - a)
    BY <1>3, <1>5
<1>8. b.seen <= t /\ \A i \in 1 .. Len(s) : s[i] <= b.seen
    BY <1>1, <1>3, <1>4
<1>9. KeyOK(b, s, rateNow)
    BY <1>3, <1>4, <1>6, <1>7, <1>8 DEF KeyOK
<1>10. QED
    BY <1>3, <1>9

\* A call, which first drops the idle buckets.
LEMMA AllowStep ==
    ASSUME RateInv, NEW k \in Keys, Allow(k)
    PROVE  RateInv'
<1> DEFINE tokens == TokensOf(k)
           new == [tokens |-> IF tokens >= 1 THEN tokens - 1 ELSE tokens, seen |-> rateNow]
           s == IF tokens >= 1 THEN Append(granted[k], rateNow) ELSE granted[k]
           refused == Purged[k] = NoBucket /\ Cardinality(Buckets(Purged)) >= MaxKeys
<1>1. /\ rateNow' = rateNow
      /\ refused => bucket' = Purged /\ granted' = granted
      /\ ~refused => /\ bucket' = [Purged EXCEPT ![k] = new]
                     /\ granted' = IF tokens >= 1 THEN [granted EXCEPT ![k] = Append(granted[k], rateNow)]
                                                  ELSE granted
    BY DEF Allow, TokensOf
<1>2. new \in Bucket /\ KeyOK(new, s, rateNow)
    BY KeyCalled
<1>3. /\ Purged \in [Keys -> Bucket \cup {NoBucket}]
      /\ IsFiniteSet(Buckets(Purged)) /\ Cardinality(Buckets(Purged)) <= MaxKeys
      /\ Cardinality(Buckets(Purged)) \in Nat
    BY PurgedOK
<1>4. granted = [j \in Keys |-> granted[j]]
    BY DEF RateInv
<1>5. CASE refused
  <2>1. \A j \in Keys : KeyOK(bucket'[j], granted'[j], rateNow')
    BY <1>1, <1>5, KeyPurged
  <2>2. QED
    BY <1>1, <1>3, <1>5, <2>1 DEF RateInv
<1>6. CASE ~refused
  <2> HIDE DEF tokens, new
  <2>1. /\ bucket' = [Purged EXCEPT ![k] = new]
        /\ granted' = IF tokens >= 1 THEN [granted EXCEPT ![k] = Append(granted[k], rateNow)] ELSE granted
    BY <1>1, <1>6
  <2>2. /\ bucket' \in [Keys -> Bucket \cup {NoBucket}] /\ bucket'[k] = new
        /\ \A j \in Keys \ {k} : bucket'[j] = Purged[j]
    BY <1>2, <1>3, <2>1
  <2>3. /\ granted' = [j \in Keys |-> granted'[j]] /\ DOMAIN granted' = Keys /\ granted'[k] = s
        /\ \A j \in Keys \ {k} : granted'[j] = granted[j]
    BY <1>4, <2>1
  <2>4. \A j \in Keys : KeyOK(bucket'[j], granted'[j], rateNow')
    BY <1>1, <1>2, <2>2, <2>3, KeyPurged, ZenonT(60)
  <2>5. IsFiniteSet(Buckets(bucket')) /\ Cardinality(Buckets(bucket')) <= MaxKeys
    <3>1. PICK B : B = Buckets(Purged)
      OBVIOUS
    <3>2. Buckets(bucket') = B \cup {k}
      BY <1>2, <1>3, <2>2, <3>1, NoBucketAssumption DEF Buckets
    <3>3. k \in B \/ Cardinality(B) < MaxKeys
      BY <1>3, <1>6, <3>1, RateNumbers DEF Buckets
    <3>4. /\ IsFiniteSet(B \cup {k})
          /\ Cardinality(B \cup {k}) = IF k \in B THEN Cardinality(B) ELSE Cardinality(B) + 1
      BY <1>3, <3>1, FS_AddElement
    <3>5. Cardinality(B) \in Nat /\ Cardinality(B) <= MaxKeys
      BY <1>3, <3>1
    <3>6. Cardinality(B \cup {k}) <= MaxKeys
      BY <3>3, <3>4, <3>5, RateNumbers
    <3>7. QED
      BY <3>2, <3>4, <3>6
  <2>6. rateNow' \in 0 .. MaxSeconds
    BY <1>1 DEF RateInv
  <2>7. QED
    BY <2>2, <2>3, <2>4, <2>5, <2>6 DEF RateInv
<1>7. QED
    BY <1>5, <1>6

\* Time passes.
LEMMA SecondStep ==
    ASSUME RateInv, Second
    PROVE  RateInv'
<1> DEFINE t == rateNow
<1>1. t \in Nat /\ rateNow' = t + 1 /\ t + 1 \in 0 .. MaxSeconds /\ UNCHANGED <<bucket, granted>>
    BY RateNumbers DEF Second, RateInv
<1> PICK v : v = t + 1
    OBVIOUS
<1>2. ASSUME NEW k \in Keys PROVE KeyOK(bucket[k], granted[k], v)
  <2> DEFINE s == granted[k]
             b == bucket[k]
  <2>1. /\ KeyOK(b, s, t) /\ s \in Seq(0 .. t) /\ s \in Seq(Nat) /\ s \in Seq(0 .. v)
        /\ \A i \in 1 .. Len(s) : s[i] <= t
    <3>1. KeyOK(b, s, t) /\ s \in Seq(0 .. t)
      BY DEF RateInv, KeyOK
    <3>2. QED
      BY <1>1, <3>1, UpTo
  <2>2. ASSUME NEW a \in 0 .. v
        PROVE  /\ a = v => Cardinality(In(s, a, v)) = 0 /\ Refill * (v - a) \in Nat
               /\ a # v => /\ a \in 0 .. t /\ In(s, a, v) = In(s, a, t)
                               /\ Refill * (t - a) \in Nat
                               /\ Refill * (t - a) <= Refill * (v - a)
                               /\ Refill * (v - a) \in Nat
                               /\ Cardinality(In(s, a, t)) \in Nat
    <3>1. a \in Nat /\ v \in Nat /\ t <= v /\ v - a \in Nat
      BY <1>1
    <3>2. a = v => Cardinality(In(s, a, v)) = 0
      <4>1. a = v => t < a
        BY <1>1
      <4>2. ASSUME t < a PROVE Cardinality(In(s, a, v)) = 0
        <5>1. ASSUME NEW i \in 1 .. Len(s) PROVE ~(a <= s[i])
          <6>1. s[i] <= t /\ s[i] \in Nat
            BY <2>1
          <6>2. QED
            BY <1>1, <3>1, <4>2, <6>1
        <5>2. In(s, a, v) = {}
          BY <5>1 DEF In
        <5>3. QED
          BY <5>2, FS_EmptySet
      <4>3. QED
        BY <4>1, <4>2
    <3>3. In(s, a, v) = In(s, a, t)
      BY <1>1, <2>1, <3>1, InLater, ZenonT(60)
    <3>4. a # v => a \in 0 .. t /\ t - a \in Nat /\ t - a <= v - a
      BY <1>1
    <3>5. QED
      BY <1>1, <2>1, <3>1, <3>2, <3>3, <3>4, InType, RefillTimes
  <2>3. ASSUME b = NoBucket, NEW a \in 0 .. v
        PROVE  Cardinality(In(s, a, v)) <= Refill * (v - a)
    <3>1. CASE a = v
      BY <2>2, <3>1
    <3>2. CASE a # v
      <4>1. Cardinality(In(s, a, t)) <= Refill * (t - a)
        BY <2>1, <2>2, <2>3, <3>2 DEF KeyOK
      <4>2. QED
        BY <2>2, <3>2, <4>1
    <3>3. QED
      BY <3>1, <3>2
  <2>4. ASSUME NEW a \in 0 .. v, NEW u \in a .. v
        PROVE  Cardinality(In(s, a, u)) <= Capacity + Refill * (u - a)
    <3>1. CASE u = v /\ a = v
      BY <2>2, <3>1, RateNumbers
    <3>2. CASE u = v /\ a # v
      <4>1. Cardinality(In(s, a, t)) <= Capacity + Refill * (t - a)
        <5>1. t \in a .. t
          BY <1>1, <2>2, <3>2
        <5>2. QED
          BY <2>1, <2>2, <3>2, <5>1 DEF KeyOK
      <4> DEFINE c == Cardinality(In(s, a, t))
                 x == Refill * (t - a)
                 y == Refill * (v - a)
      <4>2. c \in Nat /\ x \in Nat /\ y \in Nat /\ x <= y /\ c <= Capacity + x
        BY <2>2, <3>2, <4>1
      <4> HIDE DEF c, x, y
      <4>3. c <= Capacity + y
        BY <4>2, RateNumbers
      <4>4. In(s, a, u) = In(s, a, t) /\ u = v
        BY <2>2, <3>2
      <4>5. QED
        BY <4>3, <4>4 DEF c, y
    <3>3. CASE u # v
      <4>1. a \in 0 .. t /\ u \in a .. t
        BY <1>1, <3>3
      <4>2. QED
        BY <2>1, <4>1 DEF KeyOK
    <3>4. QED
      BY <3>1, <3>2, <3>3
  <2>5. b # NoBucket => b.seen <= v
    BY <1>1, <2>1, RateNumbers DEF KeyOK, RateInv, Bucket
  <2>6. b = NoBucket => \A a \in 0 .. v : Cardinality(In(s, a, v)) <= Refill * (v - a)
    BY <2>3
  <2>7. b # NoBucket =>
         /\ \A i \in 1 .. Len(s) : s[i] <= b.seen
         /\ \A a \in 0 .. b.seen :
              Cardinality(In(s, a, b.seen)) + b.tokens <= Capacity + Refill * (b.seen - a)
    BY <2>1 DEF KeyOK
  <2>8. QED
    BY <2>1, <2>4, <2>5, <2>6, <2>7 DEF KeyOK
<1>3. QED
    BY <1>1, <1>2 DEF RateInv

\* Every step keeps the invariant.
LEMMA RateStep ==
    ASSUME RateInv, [RateNext]_rateVars
    PROVE  RateInv'
<1>1. CASE UNCHANGED rateVars
    BY <1>1 DEF rateVars, RateInv
<1>2. QED
    BY <1>1, AllowStep, SecondStep DEF RateNext

\* It holds at the start.
LEMMA RateStart == RateInit => RateInv
<1> SUFFICES ASSUME RateInit PROVE RateInv
    OBVIOUS
<1>1. rateNow = 0 /\ \A k \in Keys : bucket[k] = NoBucket /\ granted[k] = << >>
    BY DEF RateInit
<1>2. ASSUME NEW k \in Keys PROVE KeyOK(bucket[k], granted[k], rateNow)
  <2>1. \A a, u : Cardinality(In(<< >>, a, u)) = 0
    <3>1. \A a, u : In(<< >>, a, u) = {}
      BY DEF In
    <3>2. QED
      BY <3>1, FS_EmptySet
  <2>2. \A a \in 0 .. 0 : \A u \in a .. 0 : u - a \in Nat /\ u - a = 0 /\ a = 0
    OBVIOUS
  <2>3. Refill * 0 \in Nat /\ Refill * (0 - 0) \in Nat
    BY RefillTimes, RateNumbers
  <2>4. << >> \in Seq(0 .. 0)
    OBVIOUS
  <2>5. \A a \in 0 .. 0 : Cardinality(In(<< >>, a, 0)) <= Refill * (0 - a)
    BY <2>1, <2>2, <2>3
  <2>6. ASSUME NEW a \in 0 .. 0, NEW u \in a .. 0
        PROVE  Cardinality(In(<< >>, a, u)) <= Capacity + Refill * (u - a)
    <3>1. u - a = 0 /\ Refill * 0 \in Nat
      BY <2>2, <2>3
    <3>2. QED
      BY <2>1, <3>1, RateNumbers
  <2>7. KeyOK(NoBucket, << >>, 0)
    BY <2>4, <2>5, <2>6 DEF KeyOK
  <2>8. QED
    BY <1>1, <2>7
<1>3. IsFiniteSet(Buckets(bucket)) /\ Cardinality(Buckets(bucket)) <= MaxKeys
  <2>1. Buckets(bucket) = {}
    BY <1>1 DEF Buckets
  <2>2. QED
    BY <2>1, FS_EmptySet, RateNumbers
<1>4. QED
    BY <1>1, <1>2, <1>3, RateNumbers DEF RateInit, RateInv

\* It is an invariant.
LEMMA RateInvariance == RateSpec => []RateInv
BY RateStart, RateStep, PTL DEF RateSpec

\* It contains the types.
LEMMA RateTyped == RateInv => RateTypeOK
<1> SUFFICES ASSUME RateInv PROVE RateTypeOK
    OBVIOUS
<1>1. ASSUME NEW k \in Keys PROVE granted[k] \in Seq(0 .. MaxSeconds)
    BY RateNumbers DEF RateInv, KeyOK
<1>2. QED
    BY <1>1 DEF RateInv, RateTypeOK

\* At most max_keys buckets, and each within its capacity (_TokenBucketRateLimiter).
THEOREM RateTypeCorrect == RateSpec => []RateTypeOK
BY RateTyped, RateInvariance, PTL

\* For any number of keys and any stretch of time: what a key gets is bounded
\* by its capacity and the refill, even if its bucket was dropped in between.
THEOREM RateStaysBounded == RateSpec => []RateIsBounded
<1>1. RateInv => RateIsBounded
  <2> SUFFICES ASSUME RateInv, NEW k \in Keys, NEW a \in 0 .. rateNow, NEW b \in a .. rateNow
               PROVE  Granted(k, a, b) <= Capacity + Refill * (b - a)
    BY DEF RateIsBounded
  <2>1. granted[k] \in Seq(Nat) /\ a \in Nat /\ b \in Nat
    BY RateNumbers DEF RateInv, KeyOK
  <2>2. Granted(k, a, b) = Cardinality(In(granted[k], a, b))
    BY <2>1, InType DEF Granted
  <2>3. QED
    BY <2>2 DEF RateInv, KeyOK
<1>2. QED
    BY <1>1, RateInvariance, PTL

(***************************************************************************)
(* The delivery                                                            *)
(***************************************************************************)

\* The settings as numbers.
LEMMA DelNumbers ==
    /\ TicksPerSecond \in Nat /\ TicksPerSecond > 0 /\ ReceiptTtl \in Nat /\ Retention \in Nat
    /\ ReceiptTtl < Retention /\ MaxReplay \in Nat /\ MaxReplay > 0 /\ MaxBytes \in Nat /\ MaxBytes > 0
    /\ MaxTicks \in Nat
BY DeliveryAssumption

\* Receipts count seconds, the clock ticks.
LEMMA WholeSeconds ==
    \A n, q \in Nat : n \div TicksPerSecond \in Nat /\ (q <= n \div TicksPerSecond <=> q * TicksPerSecond <= n)
BY DelNumbers

\* When the second s of a receipt is so long past that it cannot be valid.
Lapse(s) == (s + Retention) * TicksPerSecond

\* After its lapse a receipt is refused for its age.
LEMMA LapseFacts ==
    ASSUME NEW s \in Nat, NEW n \in Nat
    PROVE  /\ Lapse(s) \in Nat
           /\ Lapse(s) <= n => s + ReceiptTtl < n \div TicksPerSecond
           /\ s <= n \div TicksPerSecond => Lapse(s) <= n + Retention * TicksPerSecond
           /\ n + Retention * TicksPerSecond \in Nat
<1>1. s + Retention \in Nat /\ s + ReceiptTtl < s + Retention /\ s + ReceiptTtl \in Nat
    BY DelNumbers
<1>2. Lapse(s) \in Nat /\ Retention * TicksPerSecond \in Nat
    BY DelNumbers, <1>1 DEF Lapse
<1>3. Lapse(s) <= n => s + Retention <= n \div TicksPerSecond
    BY <1>1, WholeSeconds DEF Lapse
<1>4. n \div TicksPerSecond \in Nat
    BY WholeSeconds
<1>5. s <= n \div TicksPerSecond => s * TicksPerSecond <= n
    BY WholeSeconds
<1>6. Lapse(s) = s * TicksPerSecond + Retention * TicksPerSecond /\ s * TicksPerSecond \in Nat
    BY DelNumbers DEF Lapse
<1> HIDE DEF Lapse
<1>7. Lapse(s) <= n => s + ReceiptTtl < n \div TicksPerSecond
  <2>1. PICK d : d = n \div TicksPerSecond
    OBVIOUS
  <2>2. PICK L : L = Lapse(s)
    OBVIOUS
  <2>3. d \in Nat /\ (L <= n => s + Retention <= d)
    BY <1>3, <1>4, <2>1, <2>2
  <2>4. L <= n => s + ReceiptTtl < d
    BY <1>1, <2>3, DelNumbers
  <2>5. QED
    BY <2>1, <2>2, <2>4
<1>8. s <= n \div TicksPerSecond => Lapse(s) <= n + Retention * TicksPerSecond
  <2>1. PICK x : x = s * TicksPerSecond
    OBVIOUS
  <2>2. PICK r : r = Retention * TicksPerSecond
    OBVIOUS
  <2>3. Lapse(s) = x + r /\ x \in Nat /\ r \in Nat
    BY <1>2, <1>6, <2>1, <2>2
  <2>4. x <= n => Lapse(s) <= n + r
    BY <2>3
  <2>5. QED
    BY <1>5, <2>1, <2>2, <2>4
<1>9. n + Retention * TicksPerSecond \in Nat
    BY <1>2
<1>10. QED
    BY <1>2, <1>7, <1>8, <1>9

\* The receipts that are remembered.
Kept(u) == {m \in Messages : u[m] # Nobody}

\* The types.
DeliveryShape ==
    /\ ticks \in 0 .. MaxTicks
    /\ msg \in [Messages -> Message] /\ broken \subseteq Messages /\ failed \subseteq Messages
    /\ used \in [Messages -> Nat \cup {Nobody}]
    /\ opened \in [Messages -> Nat] /\ sent \in [Messages -> Nat] /\ events \in [Messages -> Nat]
    /\ source \in [Messages -> {"none", "open", "closed"}]
    /\ view \in [Messages -> {"none", "error", "finished", "cut", "gone"}]

\* A receipt that opened a call is remembered until it cannot be valid.
ReceiptOK(m) ==
    /\ opened[m] <= 1
    /\ opened[m] = 1 =>
         /\ msg[m].issued # Nobody
         /\ \/ used[m] # Nobody /\ Lapse(msg[m].issued) <= used[m]
            \/ Lapse(msg[m].issued) <= ticks

\* A response that nobody closed when its request ended.
Abandoned(m) ==
    \/ view[m] = "gone" /\ sent[m] = 0
    \/ view[m] = "cut" /\ sent[m] > 0
    \/ view[m] = "finished" /\ sent[m] > 0 /\ msg[m].route = "chat"

\* What is left of a request at each of its stages.
StageOK(m) ==
    /\ msg[m].pc = "new" => msg[m].issued = Nobody
    /\ msg[m].pc = "sealed" => msg[m].issued # Nobody
    /\ events[m] = IF msg[m].pc = "ended" THEN 1 ELSE 0
    /\ sent[m] <= MaxBytes
    /\ msg[m].pc \in {"new", "unknown", "sealed", "reading", "begun"} => sent[m] = 0
    /\ msg[m].pc = "streaming" => sent[m] > 0
    /\ source[m] = "open" =>
         \/ msg[m].pc \in {"reading", "begun", "streaming"}
         \/ msg[m].pc \in {"emit", "ended"} /\ Abandoned(m)
    /\ msg[m].pc \notin {"emit", "ended"} => m \notin broken /\ m \notin failed
    /\ m \in broken => view[m] # "finished"
    /\ m \in failed /\ view[m] = "finished" => msg[m].route = "chat"

\* The inductive invariant.
DeliveryInv ==
    /\ DeliveryShape
    /\ IsFiniteSet(Kept(used)) /\ Cardinality(Kept(used)) <= MaxReplay
    /\ \A m \in Messages : ReceiptOK(m) /\ StageOK(m)

\* A request moves to another stage.
LEMMA ToFacts ==
    ASSUME msg \in [Messages -> Message], NEW m \in Messages,
           NEW pc \in {"new", "unknown", "sealed", "reading", "begun", "streaming", "emit", "ended"}, To(m, pc)
    PROVE  /\ msg' \in [Messages -> Message]
           /\ msg'[m].pc = pc /\ msg'[m].route = msg[m].route /\ msg'[m].issued = msg[m].issued
           /\ \A r \in Messages \ {m} : msg'[r] = msg[r]
<1>1. PICK c : c = [msg[m] EXCEPT !.pc = pc]
    OBVIOUS
<1>2. msg[m] \in Message
    OBVIOUS
<1>3. c \in Message /\ c.pc = pc /\ c.route = msg[m].route /\ c.issued = msg[m].issued
    BY <1>1, <1>2 DEF Message
<1>4. msg' = [msg EXCEPT ![m] = c]
    BY <1>1 DEF To
<1>5. QED
    BY <1>3, <1>4

\* What is forgotten was remembered until now.
LEMMA ForgetsOnlyLapsed ==
    ASSUME DeliveryShape
    PROVE  /\ Remembered \in [Messages -> Nat \cup {Nobody}]
           /\ \A r \in Messages :
                \/ Remembered[r] = used[r]
                \/ Remembered[r] = Nobody /\ used[r] # Nobody /\ used[r] <= ticks
           /\ \A r \in Messages : Remembered[r] # Nobody => used[r] = Remembered[r] /\ ~(used[r] <= ticks)
BY DEF Remembered, DeliveryShape

\* To consume a receipt is to remember it within the bound.
LEMMA ConsumesFacts ==
    ASSUME DeliveryInv, NEW m \in Messages, Consumes(m)
    PROVE  /\ used' \in [Messages -> Nat \cup {Nobody}]
           /\ IsFiniteSet(Kept(used')) /\ Cardinality(Kept(used')) <= MaxReplay
           /\ used'[m] = ticks + Retention * TicksPerSecond /\ used'[m] # Nobody
           /\ used[m] = Nobody \/ used[m] <= ticks
           /\ \A r \in Messages \ {m} : used'[r] = Remembered[r]
<1>1. DeliveryShape /\ ticks \in Nat
    BY DelNumbers DEF DeliveryInv, DeliveryShape
<1>2. ticks + Retention * TicksPerSecond \in Nat
    BY <1>1, LapseFacts
<1>3. PICK u : u = ticks + Retention * TicksPerSecond
    OBVIOUS
<1>4. u \in Nat /\ u # Nobody
    BY <1>2, <1>3, NobodyAssumption
<1>5. used' = [Remembered EXCEPT ![m] = u] /\ Remembered[m] = Nobody
    BY <1>3 DEF Consumes
<1>6. Remembered \in [Messages -> Nat \cup {Nobody}]
    BY <1>1, ForgetsOnlyLapsed
<1>7. /\ used' \in [Messages -> Nat \cup {Nobody}] /\ used'[m] = u
      /\ \A r \in Messages \ {m} : used'[r] = Remembered[r]
    BY <1>4, <1>5, <1>6
<1>8. PICK K : K = Kept(Remembered)
    OBVIOUS
<1>9. /\ IsFiniteSet(K) /\ Cardinality(K) \in Nat
  <2>1. K \in SUBSET Kept(used)
    BY <1>1, <1>8, ForgetsOnlyLapsed DEF Kept
  <2>2. QED
    BY <2>1, FS_Subset, FS_CardinalityType DEF DeliveryInv
<1>10. Kept(used') = K \cup {m} /\ m \notin K
    BY <1>4, <1>5, <1>7, <1>8 DEF Kept
<1>11. Cardinality(K) < MaxReplay
    BY <1>8 DEF Consumes, Kept
<1>12. IsFiniteSet(K \cup {m}) /\ Cardinality(K \cup {m}) = Cardinality(K) + 1
    BY <1>9, <1>10, FS_AddElement
<1>13. Cardinality(K \cup {m}) <= MaxReplay
    BY <1>9, <1>11, <1>12, DelNumbers
<1>14. used[m] = Nobody \/ used[m] <= ticks
    BY <1>1, <1>5, ForgetsOnlyLapsed
<1>15. QED
    BY <1>3, <1>4, <1>7, <1>10, <1>12, <1>13, <1>14

\* A valid receipt that can be consumed has not opened a call.
LEMMA ValidAndForgotten ==
    ASSUME DeliveryInv, NEW m \in Messages, msg[m].issued # Nobody, Valid(m), Consumes(m)
    PROVE  /\ opened[m] = 0
           /\ Lapse(msg[m].issued) <= used'[m] /\ used'[m] # Nobody
<1>1. /\ msg[m].issued \in Nat /\ ticks \in Nat /\ ReceiptOK(m) /\ opened[m] \in Nat
      /\ used[m] \in Nat \cup {Nobody}
  <2>1. DeliveryShape /\ ReceiptOK(m) /\ msg[m] \in Message
    BY DEF DeliveryInv, DeliveryShape
  <2>2. QED
    BY <2>1, DelNumbers DEF DeliveryShape, Message
<1>2. PICK i : i = msg[m].issued
    OBVIOUS
<1>3. PICK d : d = ticks \div TicksPerSecond
    OBVIOUS
<1>4. i \in Nat /\ d \in Nat /\ i <= d /\ d <= i + ReceiptTtl
    BY <1>1, <1>2, <1>3, WholeSeconds DEF Valid
<1>5. ~(Lapse(i) <= ticks)
  <2>1. Lapse(i) <= ticks => i + ReceiptTtl < d
    BY <1>1, <1>3, <1>4, LapseFacts
  <2>2. QED
    BY <1>4, <2>1, DelNumbers
<1>6. Lapse(i) \in Nat /\ Lapse(i) <= ticks + Retention * TicksPerSecond
    BY <1>1, <1>3, <1>4, LapseFacts
<1>7. /\ used'[m] = ticks + Retention * TicksPerSecond /\ used'[m] # Nobody
      /\ (used[m] = Nobody \/ used[m] <= ticks)
    BY ConsumesFacts
<1>8. opened[m] # 1
  <2>1. opened[m] = 1 => used[m] # Nobody /\ Lapse(i) <= used[m]
    BY <1>1, <1>2, <1>5 DEF ReceiptOK
  <2>2. QED
    BY <1>1, <1>5, <1>6, <1>7, <2>1
<1>9. QED
    BY <1>1, <1>2, <1>6, <1>7, <1>8 DEF ReceiptOK

\* A step of the request m leaves the others alone.
LEMMA OneAtATime ==
    ASSUME DeliveryInv, NEW m \in Messages, ticks' = ticks, DeliveryShape',
           UNCHANGED used \/ Consumes(m),
           \A r \in Messages \ {m} :
               /\ msg'[r] = msg[r] /\ opened'[r] = opened[r] /\ source'[r] = source[r]
               /\ sent'[r] = sent[r]
               /\ view'[r] = view[r] /\ events'[r] = events[r] /\ (r \in broken' => r \in broken)
            /\ (r \in failed' => r \in failed),
           ReceiptOK(m)', StageOK(m)'
    PROVE  DeliveryInv'
<1>1. IsFiniteSet(Kept(used)') /\ Cardinality(Kept(used)') <= MaxReplay
    BY ConsumesFacts DEF DeliveryInv, Kept
<1>2. ASSUME NEW r \in Messages \ {m} PROVE ReceiptOK(r)'
  <2>1. ReceiptOK(r) /\ ticks \in Nat /\ DeliveryShape
    BY DelNumbers DEF DeliveryInv, DeliveryShape
  <2>2. used'[r] = used[r] \/ used'[r] = Remembered[r]
    BY ConsumesFacts
  <2>3. used'[r] = used[r] \/ (used[r] # Nobody /\ used[r] <= ticks)
    <3>1. r \in Messages
      OBVIOUS
    <3>2. Remembered[r] = used[r] \/ (used[r] # Nobody /\ used[r] <= ticks)
      BY <2>1, <3>1, ForgetsOnlyLapsed
    <3>3. QED
      BY <2>2, <3>2
  <2>4. opened[r] = 1 => Lapse(msg[r].issued) \in Nat
    <3>1. msg[r] \in Message
      BY <2>1 DEF DeliveryShape
    <3>2. opened[r] = 1 => msg[r].issued \in Nat
      BY <2>1, <3>1 DEF ReceiptOK, Message
    <3>3. QED
      BY <2>1, <3>2, LapseFacts
  <2>5. used[r] \in Nat \cup {Nobody}
    BY <2>1 DEF DeliveryShape
  <2>6. QED
    BY <2>1, <2>3, <2>4, <2>5 DEF ReceiptOK
<1>3. ASSUME NEW r \in Messages \ {m} PROVE StageOK(r)'
  <2>1. StageOK(r)
    BY DEF DeliveryInv
  <2>2. QED
    BY <2>1 DEF StageOK, Abandoned
<1>4. QED
    BY <1>1, <1>2, <1>3 DEF DeliveryInv

\* What a response that ends by itself shows.
LEMMA PassesFacts ==
    ASSUME DeliveryShape, NEW m \in Messages, NEW end \in Ends, Passes(m, end)
    PROVE  /\ view' \in [Messages -> {"none", "error", "finished", "cut", "gone"}]
           /\ failed' \subseteq Messages
           /\ \A r \in Messages \ {m} : view'[r] = view[r] /\ (r \in failed' => r \in failed)
           /\ m \in failed' /\ view'[m] = "finished" => m \in failed \/ msg[m].route = "chat"
BY DEF DeliveryShape, Passes, Shows, Ends

\* The body cannot be read.
LEMMA ReadFailsStep ==
    ASSUME DeliveryInv, NEW m \in Messages, ReadFails(m)
    PROVE  DeliveryInv'
<1>1. DeliveryShape /\ ReceiptOK(m) /\ StageOK(m)
    BY DEF DeliveryInv
<1>2. To(m, "emit") /\ msg \in [Messages -> Message]
    BY <1>1 DEF ReadFails, DeliveryShape
<1>3. /\ msg' \in [Messages -> Message]
      /\ msg'[m].pc = "emit" /\ msg'[m].route = msg[m].route /\ msg'[m].issued = msg[m].issued
      /\ \A r \in Messages \ {m} : msg'[r] = msg[r]
    BY <1>2, ToFacts
<1>4. DeliveryShape'
    BY <1>1, <1>3 DEF ReadFails, DeliveryShape, Closes, Shows
<1>5. /\ ticks' = ticks /\ UNCHANGED used
      /\ \A r \in Messages \ {m} :
            /\ opened'[r] = opened[r] /\ source'[r] = source[r] /\ sent'[r] = sent[r]
            /\ view'[r] = view[r] /\ events'[r] = events[r] /\ (r \in broken' => r \in broken)
            /\ (r \in failed' => r \in failed)
    BY <1>1 DEF ReadFails, DeliveryShape, Closes, Shows
<1>6. ReceiptOK(m)'
    BY <1>1, <1>3 DEF ReadFails, ReceiptOK
<1>7. StageOK(m)'
    BY <1>1, <1>3 DEF ReadFails, StageOK, Abandoned, DeliveryShape, At, Closes, Shows
<1>8. QED
    BY <1>3, <1>4, <1>5, <1>6, <1>7, OneAtATime

\* It is read.
LEMMA ReadJsonStep ==
    ASSUME DeliveryInv, NEW m \in Messages, ReadJson(m)
    PROVE  DeliveryInv'
<1>1. DeliveryShape /\ ReceiptOK(m) /\ StageOK(m)
    BY DEF DeliveryInv
<1>2. To(m, "emit") /\ msg \in [Messages -> Message]
    BY <1>1 DEF ReadJson, DeliveryShape
<1>3. /\ msg' \in [Messages -> Message]
      /\ msg'[m].pc = "emit" /\ msg'[m].route = msg[m].route /\ msg'[m].issued = msg[m].issued
      /\ \A r \in Messages \ {m} : msg'[r] = msg[r]
    BY <1>2, ToFacts
<1>0. PICK end \in Ends : Passes(m, end)
    BY DEF ReadJson
<1>4. DeliveryShape'
    BY <1>0, <1>1, <1>3, DelNumbers, PassesFacts DEF ReadJson, DeliveryShape, Closes
<1>5. /\ ticks' = ticks /\ UNCHANGED used
      /\ \A r \in Messages \ {m} :
            /\ opened'[r] = opened[r] /\ source'[r] = source[r] /\ sent'[r] = sent[r]
            /\ view'[r] = view[r] /\ events'[r] = events[r] /\ (r \in broken' => r \in broken)
            /\ (r \in failed' => r \in failed)
    BY <1>0, <1>1, PassesFacts DEF ReadJson, DeliveryShape, Closes
<1>6. ReceiptOK(m)'
    BY <1>1, <1>3 DEF ReadJson, ReceiptOK
<1>7. StageOK(m)'
  <2>1. source'[m] = "closed" /\ sent'[m] <= MaxBytes /\ events'[m] = 0
    BY <1>1, DelNumbers DEF ReadJson, StageOK, Abandoned, DeliveryShape, At, Closes
  <2>2. m \notin broken' /\ m \notin failed
    BY <1>1 DEF ReadJson, StageOK, At
  <2>3. QED
    BY <1>0, <1>1, <1>3, <2>1, <2>2, PassesFacts DEF StageOK, Abandoned
<1>8. QED
    BY <1>3, <1>4, <1>5, <1>6, <1>7, OneAtATime

\* A stream begins.
LEMMA StreamBeginsStep ==
    ASSUME DeliveryInv, NEW m \in Messages, StreamBegins(m)
    PROVE  DeliveryInv'
<1>1. DeliveryShape /\ ReceiptOK(m) /\ StageOK(m)
    BY DEF DeliveryInv
<1>2. To(m, "begun") /\ msg \in [Messages -> Message]
    BY <1>1 DEF StreamBegins, DeliveryShape
<1>3. /\ msg' \in [Messages -> Message]
      /\ msg'[m].pc = "begun" /\ msg'[m].route = msg[m].route /\ msg'[m].issued = msg[m].issued
      /\ \A r \in Messages \ {m} : msg'[r] = msg[r]
    BY <1>2, ToFacts
<1>4. DeliveryShape'
    BY <1>1, <1>3 DEF StreamBegins, DeliveryShape, Closes
<1>5. /\ ticks' = ticks /\ UNCHANGED used
      /\ \A r \in Messages \ {m} :
            /\ opened'[r] = opened[r] /\ source'[r] = source[r] /\ sent'[r] = sent[r]
            /\ view'[r] = view[r] /\ events'[r] = events[r] /\ (r \in broken' => r \in broken)
            /\ (r \in failed' => r \in failed)
    BY <1>1 DEF StreamBegins, DeliveryShape, Closes
<1>6. ReceiptOK(m)'
    BY <1>1, <1>3 DEF StreamBegins, ReceiptOK
<1>7. StageOK(m)'
    BY <1>1, <1>3 DEF StreamBegins, StageOK, Abandoned, DeliveryShape, At, Closes
<1>8. QED
    BY <1>3, <1>4, <1>5, <1>6, <1>7, OneAtATime

\* A chunk of it.
LEMMA ChunkStep ==
    ASSUME DeliveryInv, NEW m \in Messages, Chunk(m)
    PROVE  DeliveryInv'
<1>1. DeliveryShape /\ ReceiptOK(m) /\ StageOK(m)
    BY DEF DeliveryInv
<1>2. To(m, "streaming") /\ msg \in [Messages -> Message]
    BY <1>1 DEF Chunk, DeliveryShape
<1>3. /\ msg' \in [Messages -> Message]
      /\ msg'[m].pc = "streaming" /\ msg'[m].route = msg[m].route /\ msg'[m].issued = msg[m].issued
      /\ \A r \in Messages \ {m} : msg'[r] = msg[r]
    BY <1>2, ToFacts
<1>4. DeliveryShape'
    BY <1>1, <1>3, DelNumbers DEF Chunk, DeliveryShape, Closes
<1>5. /\ ticks' = ticks /\ UNCHANGED used
      /\ \A r \in Messages \ {m} :
            /\ opened'[r] = opened[r] /\ source'[r] = source[r] /\ sent'[r] = sent[r]
            /\ view'[r] = view[r] /\ events'[r] = events[r] /\ (r \in broken' => r \in broken)
            /\ (r \in failed' => r \in failed)
    BY <1>1 DEF Chunk, DeliveryShape, Closes
<1>6. ReceiptOK(m)'
    BY <1>1, <1>3 DEF Chunk, ReceiptOK
<1>7. StageOK(m)'
    BY <1>1, <1>3, DelNumbers DEF Chunk, StageOK, Abandoned, DeliveryShape, At, Closes
<1>8. QED
    BY <1>3, <1>4, <1>5, <1>6, <1>7, OneAtATime

\* It ends.
LEMMA StreamEndsStep ==
    ASSUME DeliveryInv, NEW m \in Messages, StreamEnds(m)
    PROVE  DeliveryInv'
<1>1. DeliveryShape /\ ReceiptOK(m) /\ StageOK(m)
    BY DEF DeliveryInv
<1>2. To(m, "emit") /\ msg \in [Messages -> Message]
    BY <1>1 DEF StreamEnds, DeliveryShape
<1>3. /\ msg' \in [Messages -> Message]
      /\ msg'[m].pc = "emit" /\ msg'[m].route = msg[m].route /\ msg'[m].issued = msg[m].issued
      /\ \A r \in Messages \ {m} : msg'[r] = msg[r]
    BY <1>2, ToFacts
<1>0. PICK end \in Ends : Passes(m, end)
    BY DEF StreamEnds
<1>4. DeliveryShape'
    BY <1>0, <1>1, <1>3, PassesFacts DEF StreamEnds, DeliveryShape, Closes
<1>5. /\ ticks' = ticks /\ UNCHANGED used
      /\ \A r \in Messages \ {m} :
            /\ opened'[r] = opened[r] /\ source'[r] = source[r] /\ sent'[r] = sent[r]
            /\ view'[r] = view[r] /\ events'[r] = events[r] /\ (r \in broken' => r \in broken)
            /\ (r \in failed' => r \in failed)
    BY <1>0, <1>1, PassesFacts DEF StreamEnds, DeliveryShape, Closes
<1>6. ReceiptOK(m)'
    BY <1>1, <1>3 DEF StreamEnds, ReceiptOK
<1>7. StageOK(m)'
  <2>1. source'[m] = "closed" /\ sent'[m] <= MaxBytes /\ events'[m] = 0
    BY <1>1, DelNumbers DEF StreamEnds, StageOK, Abandoned, DeliveryShape, At, Closes
  <2>2. m \notin broken' /\ m \notin failed
    BY <1>1 DEF StreamEnds, StageOK, At
  <2>3. QED
    BY <1>0, <1>1, <1>3, <2>1, <2>2, PassesFacts DEF StageOK, Abandoned
<1>8. QED
    BY <1>3, <1>4, <1>5, <1>6, <1>7, OneAtATime

\* A translated stream stops at its last event.
LEMMA ChatStopsStep ==
    ASSUME DeliveryInv, NEW m \in Messages, ChatStops(m)
    PROVE  DeliveryInv'
<1>1. DeliveryShape /\ ReceiptOK(m) /\ StageOK(m)
    BY DEF DeliveryInv
<1>2. To(m, "emit") /\ msg \in [Messages -> Message]
    BY <1>1 DEF ChatStops, DeliveryShape
<1>3. /\ msg' \in [Messages -> Message]
      /\ msg'[m].pc = "emit" /\ msg'[m].route = msg[m].route /\ msg'[m].issued = msg[m].issued
      /\ \A r \in Messages \ {m} : msg'[r] = msg[r]
    BY <1>2, ToFacts
<1>4. DeliveryShape'
    BY <1>1, <1>3 DEF ChatStops, DeliveryShape, Shows
<1>5. /\ ticks' = ticks /\ UNCHANGED used
      /\ \A r \in Messages \ {m} :
            /\ opened'[r] = opened[r] /\ source'[r] = source[r] /\ sent'[r] = sent[r]
            /\ view'[r] = view[r] /\ events'[r] = events[r] /\ (r \in broken' => r \in broken)
            /\ (r \in failed' => r \in failed)
    BY <1>1 DEF ChatStops, DeliveryShape, Shows
<1>6. ReceiptOK(m)'
    BY <1>1, <1>3 DEF ChatStops, ReceiptOK
<1>7. StageOK(m)'
    BY <1>1, <1>3 DEF ChatStops, StageOK, Abandoned, DeliveryShape, At, Shows
<1>8. QED
    BY <1>3, <1>4, <1>5, <1>6, <1>7, OneAtATime

\* It breaks.
LEMMA StreamBreaksStep ==
    ASSUME DeliveryInv, NEW m \in Messages, StreamBreaks(m)
    PROVE  DeliveryInv'
<1>1. DeliveryShape /\ ReceiptOK(m) /\ StageOK(m)
    BY DEF DeliveryInv
<1>2. To(m, "emit") /\ msg \in [Messages -> Message]
    BY <1>1 DEF StreamBreaks, DeliveryShape
<1>3. /\ msg' \in [Messages -> Message]
      /\ msg'[m].pc = "emit" /\ msg'[m].route = msg[m].route /\ msg'[m].issued = msg[m].issued
      /\ \A r \in Messages \ {m} : msg'[r] = msg[r]
    BY <1>2, ToFacts
<1>4. DeliveryShape'
    BY <1>1, <1>3 DEF StreamBreaks, DeliveryShape, Closes, Shows
<1>5. /\ ticks' = ticks /\ UNCHANGED used
      /\ \A r \in Messages \ {m} :
            /\ opened'[r] = opened[r] /\ source'[r] = source[r] /\ sent'[r] = sent[r]
            /\ view'[r] = view[r] /\ events'[r] = events[r] /\ (r \in broken' => r \in broken)
            /\ (r \in failed' => r \in failed)
    BY <1>1 DEF StreamBreaks, DeliveryShape, Closes, Shows
<1>6. ReceiptOK(m)'
    BY <1>1, <1>3 DEF StreamBreaks, ReceiptOK
<1>7. StageOK(m)'
    BY <1>1, <1>3 DEF StreamBreaks, StageOK, Abandoned, DeliveryShape, At, Closes, Shows
<1>8. QED
    BY <1>3, <1>4, <1>5, <1>6, <1>7, OneAtATime

\* The client leaves.
LEMMA ClientLeavesStep ==
    ASSUME DeliveryInv, NEW m \in Messages, ClientLeaves(m)
    PROVE  DeliveryInv'
<1>1. DeliveryShape /\ ReceiptOK(m) /\ StageOK(m)
    BY DEF DeliveryInv
<1>2. To(m, "emit") /\ msg \in [Messages -> Message]
    BY <1>1 DEF ClientLeaves, DeliveryShape
<1>3. /\ msg' \in [Messages -> Message]
      /\ msg'[m].pc = "emit" /\ msg'[m].route = msg[m].route /\ msg'[m].issued = msg[m].issued
      /\ \A r \in Messages \ {m} : msg'[r] = msg[r]
    BY <1>2, ToFacts
<1>4. DeliveryShape'
    BY <1>1, <1>3 DEF ClientLeaves, DeliveryShape, Closes
<1>5. /\ ticks' = ticks /\ UNCHANGED used
      /\ \A r \in Messages \ {m} :
            /\ opened'[r] = opened[r] /\ source'[r] = source[r] /\ sent'[r] = sent[r]
            /\ view'[r] = view[r] /\ events'[r] = events[r] /\ (r \in broken' => r \in broken)
            /\ (r \in failed' => r \in failed)
    BY <1>1 DEF ClientLeaves, DeliveryShape, Closes
<1>6. ReceiptOK(m)'
    BY <1>1, <1>3 DEF ClientLeaves, ReceiptOK
<1>7. StageOK(m)'
  <2>1. /\ msg[m].pc \in {"sealed", "reading", "begun", "streaming"}
        /\ m \notin broken /\ m \notin failed /\ events[m] = 0 /\ sent[m] <= MaxBytes
        /\ msg[m].pc = "sealed" => source[m] # "open"
        /\ msg[m].pc # "streaming" => sent[m] = 0
        /\ msg[m].pc = "streaming" => sent[m] > 0
    BY <1>1 DEF ClientLeaves, StageOK
  <2>2. /\ source'[m] = "closed" \/ (msg[m].pc # "reading" /\ source'[m] = source[m])
        /\ view'[m] = IF msg[m].pc = "begun" THEN "gone" ELSE "cut"
        /\ m \notin broken' /\ m \notin failed' /\ events'[m] = 0 /\ sent'[m] = sent[m]
    BY <1>1, <2>1 DEF ClientLeaves, Closes, DeliveryShape
  <2>3. source'[m] = "open" => Abandoned(m)'
    BY <2>1, <2>2 DEF Abandoned
  <2>4. QED
    BY <1>3, <2>1, <2>2, <2>3 DEF StageOK, Abandoned
<1>8. QED
    BY <1>3, <1>4, <1>5, <1>6, <1>7, OneAtATime

\* The event is written.
LEMMA EmitStep ==
    ASSUME DeliveryInv, NEW m \in Messages, Emit(m)
    PROVE  DeliveryInv'
<1>1. DeliveryShape /\ ReceiptOK(m) /\ StageOK(m)
    BY DEF DeliveryInv
<1>2. To(m, "ended") /\ msg \in [Messages -> Message]
    BY <1>1 DEF Emit, DeliveryShape
<1>3. /\ msg' \in [Messages -> Message]
      /\ msg'[m].pc = "ended" /\ msg'[m].route = msg[m].route /\ msg'[m].issued = msg[m].issued
      /\ \A r \in Messages \ {m} : msg'[r] = msg[r]
    BY <1>2, ToFacts
<1>4. DeliveryShape'
    BY <1>1, <1>3 DEF Emit, DeliveryShape, Shows
<1>5. /\ ticks' = ticks /\ UNCHANGED used
      /\ \A r \in Messages \ {m} :
            /\ opened'[r] = opened[r] /\ source'[r] = source[r] /\ sent'[r] = sent[r]
            /\ view'[r] = view[r] /\ events'[r] = events[r] /\ (r \in broken' => r \in broken)
            /\ (r \in failed' => r \in failed)
    BY <1>1 DEF Emit, DeliveryShape, Shows
<1>6. ReceiptOK(m)'
    BY <1>1, <1>3 DEF Emit, ReceiptOK
<1>7. StageOK(m)'
    BY <1>1, <1>3 DEF Emit, StageOK, Abandoned, DeliveryShape, At, Shows
<1>8. QED
    BY <1>3, <1>4, <1>5, <1>6, <1>7, OneAtATime

\* What was left is closed.
LEMMA CollectStep ==
    ASSUME DeliveryInv, NEW m \in Messages, Collect(m)
    PROVE  DeliveryInv'
<1>1. DeliveryShape /\ ReceiptOK(m) /\ StageOK(m)
    BY DEF DeliveryInv
<1>2. UNCHANGED <<ticks, msg, used, opened, broken, failed, sent, view, events>>
    BY DEF Collect
<1>3. /\ DeliveryShape' /\ source'[m] = "closed"
      /\ \A r \in Messages \ {m} : source'[r] = source[r]
    BY <1>1, <1>2 DEF Collect, DeliveryShape, Closes
<1>4. ReceiptOK(m)' /\ StageOK(m)'
    BY <1>1, <1>2, <1>3 DEF ReceiptOK, StageOK
<1>5. QED
    BY <1>2, <1>3, <1>4, OneAtATime

\* The request is refused before it has a receipt.
LEMMA RejectStep ==
    ASSUME DeliveryInv, NEW m \in Messages, Reject(m)
    PROVE  DeliveryInv'
<1>1. DeliveryShape /\ ReceiptOK(m) /\ StageOK(m)
    BY DEF DeliveryInv
<1>2. PICK pc \in {"ended", "unknown"} :
        /\ To(m, pc)
        /\ events' = IF pc = "ended" THEN [events EXCEPT ![m] = @ + 1] ELSE events
    BY DEF Reject
<1>3. /\ msg' \in [Messages -> Message]
      /\ msg'[m].pc = pc /\ msg'[m].route = msg[m].route /\ msg'[m].issued = msg[m].issued
      /\ \A r \in Messages \ {m} : msg'[r] = msg[r]
    BY <1>1, <1>2, ToFacts DEF DeliveryShape
<1>4. DeliveryShape'
    BY <1>1, <1>2, <1>3 DEF Reject, DeliveryShape, Shows
<1>5. /\ ticks' = ticks /\ UNCHANGED used
      /\ \A r \in Messages \ {m} :
            /\ opened'[r] = opened[r] /\ source'[r] = source[r] /\ sent'[r] = sent[r]
            /\ view'[r] = view[r] /\ events'[r] = events[r] /\ (r \in broken' => r \in broken)
            /\ (r \in failed' => r \in failed)
    BY <1>1, <1>2 DEF Reject, DeliveryShape, Shows
<1>6. ReceiptOK(m)'
    BY <1>1, <1>3 DEF Reject, ReceiptOK
<1>7. StageOK(m)'
    BY <1>1, <1>2, <1>3 DEF Reject, StageOK, Abandoned, DeliveryShape, At, Shows
<1>8. QED
    BY <1>3, <1>4, <1>5, <1>6, <1>7, OneAtATime

\* It gets a receipt, or is too late for one.
LEMMA SealStep ==
    ASSUME DeliveryInv, NEW m \in Messages, Seal(m)
    PROVE  DeliveryInv'
<1>1. DeliveryShape /\ ReceiptOK(m) /\ StageOK(m) /\ At(m, "new")
    BY DEF DeliveryInv, Seal
<1>2. CASE To(m, "emit") /\ Shows(m, "error")
  <2>1. /\ msg' \in [Messages -> Message]
        /\ msg'[m].pc = "emit" /\ msg'[m].route = msg[m].route /\ msg'[m].issued = msg[m].issued
        /\ \A r \in Messages \ {m} : msg'[r] = msg[r]
    BY <1>1, <1>2, ToFacts DEF DeliveryShape
  <2>2. DeliveryShape'
    BY <1>1, <1>2, <2>1 DEF Seal, DeliveryShape, Shows
  <2>3. /\ ticks' = ticks /\ UNCHANGED used
        /\ \A r \in Messages \ {m} :
            /\ opened'[r] = opened[r] /\ source'[r] = source[r] /\ sent'[r] = sent[r]
            /\ view'[r] = view[r] /\ events'[r] = events[r] /\ (r \in broken' => r \in broken)
            /\ (r \in failed' => r \in failed)
    BY <1>1, <1>2 DEF Seal, DeliveryShape, Shows
  <2>4. ReceiptOK(m)'
    BY <1>1, <2>1 DEF Seal, ReceiptOK
  <2>5. StageOK(m)'
    BY <1>1, <1>2, <2>1 DEF Seal, StageOK, Abandoned, DeliveryShape, At, Shows
  <2>6. QED
    BY <2>1, <2>2, <2>3, <2>4, <2>5, OneAtATime
<1>3. CASE ~(To(m, "emit") /\ Shows(m, "error"))
  <2>1. PICK route \in {"responses", "chat"} :
          /\ msg' = [msg EXCEPT ![m] =
                [pc |-> "sealed", route |-> route, issued |-> ticks \div TicksPerSecond]]
          /\ UNCHANGED view
    BY <1>3 DEF Seal
  <2>2. PICK c : c = [pc |-> "sealed", route |-> route, issued |-> ticks \div TicksPerSecond]
    OBVIOUS
  <2>3. c \in Message /\ c.pc = "sealed" /\ c.issued # Nobody
    <3>1. ticks \div TicksPerSecond \in Nat
      BY <1>1, WholeSeconds, DelNumbers DEF DeliveryShape
    <3>2. QED
      BY <2>2, <3>1, NobodyAssumption DEF Message
  <2>4. /\ msg' \in [Messages -> Message] /\ msg'[m] = c
        /\ \A r \in Messages \ {m} : msg'[r] = msg[r]
    BY <1>1, <2>1, <2>2, <2>3 DEF DeliveryShape
  <2>5. DeliveryShape'
    BY <1>1, <2>1, <2>4 DEF Seal, DeliveryShape
  <2>6. ticks' = ticks /\ UNCHANGED <<used, opened, source, broken, failed, sent, view, events>>
    BY <2>1 DEF Seal
  <2>7. opened[m] # 1
    BY <1>1 DEF ReceiptOK, StageOK, At
  <2>8. ReceiptOK(m)'
    BY <1>1, <2>6, <2>7 DEF ReceiptOK
  <2>9. StageOK(m)'
    BY <1>1, <2>3, <2>4, <2>6 DEF StageOK, At
  <2>10. QED
    BY <2>4, <2>5, <2>6, <2>8, <2>9, OneAtATime
<1>4. QED
    BY <1>2, <1>3

\* It is sent: the receipt is consumed and the call opened.
LEMMA SendStep ==
    ASSUME DeliveryInv, NEW m \in Messages, Send(m)
    PROVE  DeliveryInv'
<1>1. DeliveryShape /\ ReceiptOK(m) /\ StageOK(m) /\ At(m, "sealed") /\ Valid(m) /\ Consumes(m)
    BY DEF DeliveryInv, Send
<1>2. /\ msg' \in [Messages -> Message]
      /\ msg'[m].pc = "reading" /\ msg'[m].route = msg[m].route /\ msg'[m].issued = msg[m].issued
      /\ \A r \in Messages \ {m} : msg'[r] = msg[r]
    BY <1>1, ToFacts DEF DeliveryShape, Send
<1>3. used' \in [Messages -> Nat \cup {Nobody}]
    BY <1>1, ConsumesFacts
<1>4. msg[m].issued # Nobody
    BY <1>1 DEF StageOK, At
<1>5. opened[m] = 0 /\ Lapse(msg[m].issued) <= used'[m] /\ used'[m] # Nobody
    BY <1>1, <1>4, ValidAndForgotten
<1>6. DeliveryShape'
    BY <1>1, <1>2, <1>3 DEF Send, DeliveryShape
<1>7. /\ ticks' = ticks
      /\ \A r \in Messages \ {m} :
            /\ opened'[r] = opened[r] /\ source'[r] = source[r] /\ sent'[r] = sent[r]
            /\ view'[r] = view[r] /\ events'[r] = events[r] /\ (r \in broken' => r \in broken)
            /\ (r \in failed' => r \in failed)
    BY <1>1 DEF Send, DeliveryShape
<1>8. ReceiptOK(m)'
  <2>1. opened'[m] = 1
    BY <1>1, <1>5 DEF Send, DeliveryShape
  <2>2. QED
    BY <1>2, <1>4, <1>5, <2>1 DEF ReceiptOK
<1>9. StageOK(m)'
    BY <1>1, <1>2 DEF Send, StageOK, Abandoned, DeliveryShape, At
<1>10. QED
    BY <1>1, <1>2, <1>6, <1>7, <1>8, <1>9, OneAtATime

\* It is not: with the receipt consumed or not.
LEMMA SendFailsStep ==
    ASSUME DeliveryInv, NEW m \in Messages, SendFails(m)
    PROVE  DeliveryInv'
<1>1. DeliveryShape /\ ReceiptOK(m) /\ StageOK(m) /\ At(m, "sealed")
    BY DEF DeliveryInv, SendFails
<1>2. /\ msg' \in [Messages -> Message]
      /\ msg'[m].pc = "emit" /\ msg'[m].route = msg[m].route /\ msg'[m].issued = msg[m].issued
      /\ \A r \in Messages \ {m} : msg'[r] = msg[r]
    BY <1>1, ToFacts DEF DeliveryShape, SendFails
<1>3. msg[m].issued # Nobody
    BY <1>1 DEF StageOK, At
<1>4. /\ ticks' = ticks
      /\ \/ UNCHANGED <<used, opened>>
         \/ Valid(m) /\ Consumes(m) /\ opened' = [opened EXCEPT ![m] = @ + 1]
    BY DEF SendFails
<1>5. /\ opened' \in [Messages -> Nat] /\ used' \in [Messages -> Nat \cup {Nobody}]
      /\ \A r \in Messages \ {m} : opened'[r] = opened[r]
      /\ UNCHANGED used \/ Consumes(m)
    BY <1>1, <1>4, ConsumesFacts DEF DeliveryShape
<1>6. ReceiptOK(m)'
  <2>1. CASE UNCHANGED <<used, opened>>
    BY <1>1, <1>2, <1>4, <2>1 DEF ReceiptOK
  <2>2. CASE Valid(m) /\ Consumes(m) /\ opened' = [opened EXCEPT ![m] = @ + 1]
    <3>1. opened[m] = 0 /\ Lapse(msg[m].issued) <= used'[m] /\ used'[m] # Nobody
      BY <1>3, <2>2, ValidAndForgotten
    <3>2. opened'[m] = 1
      BY <1>1, <2>2, <3>1 DEF DeliveryShape
    <3>3. QED
      BY <1>2, <1>3, <3>1, <3>2 DEF ReceiptOK
  <2>3. QED
    BY <1>4, <2>1, <2>2
<1>7. DeliveryShape'
    BY <1>1, <1>2, <1>5 DEF SendFails, DeliveryShape, Shows
<1>8. \A r \in Messages \ {m} :
            /\ source'[r] = source[r] /\ sent'[r] = sent[r]
            /\ view'[r] = view[r] /\ events'[r] = events[r] /\ (r \in broken' => r \in broken)
            /\ (r \in failed' => r \in failed)
    BY <1>1 DEF SendFails, DeliveryShape, Shows
<1>9. StageOK(m)'
    BY <1>1, <1>2 DEF SendFails, StageOK, Abandoned, DeliveryShape, At, Shows
<1>10. QED
    BY <1>2, <1>4, <1>5, <1>6, <1>7, <1>8, <1>9, OneAtATime

\* A sealed request is sent once more.
LEMMA ReplayStep ==
    ASSUME DeliveryInv, NEW m \in Messages, Replay(m)
    PROVE  DeliveryInv'
<1>1. DeliveryShape /\ ReceiptOK(m) /\ StageOK(m) /\ Valid(m) /\ Consumes(m) /\ msg[m].issued # Nobody
    BY DEF DeliveryInv, Replay
<1>2. used' \in [Messages -> Nat \cup {Nobody}]
    BY <1>1, ConsumesFacts
<1>3. opened[m] = 0 /\ Lapse(msg[m].issued) <= used'[m] /\ used'[m] # Nobody
    BY <1>1, ValidAndForgotten
<1>4. /\ opened' \in [Messages -> Nat] /\ opened'[m] = 1
      /\ \A r \in Messages \ {m} : opened'[r] = opened[r]
      /\ UNCHANGED <<ticks, msg, source, broken, failed, sent, view, events>>
    BY <1>1, <1>3 DEF Replay, DeliveryShape
<1>5. DeliveryShape'
    BY <1>1, <1>2, <1>4 DEF DeliveryShape
<1>6. ReceiptOK(m)'
    BY <1>1, <1>3, <1>4 DEF ReceiptOK
<1>7. StageOK(m)'
    BY <1>1, <1>4 DEF StageOK, Abandoned
<1>8. QED
    BY <1>1, <1>4, <1>5, <1>6, <1>7, OneAtATime

\* Time passes.
LEMMA ClockStep ==
    ASSUME DeliveryInv, Clock
    PROVE  DeliveryInv'
<1>1. /\ DeliveryShape /\ ticks \in Nat /\ ticks' = ticks + 1 /\ ticks' \in 0 .. MaxTicks
      /\ UNCHANGED <<msg, used, opened, source, broken, failed, sent, view, events>>
    BY DelNumbers DEF DeliveryInv, DeliveryShape, Clock
<1>2. DeliveryShape'
    BY <1>1 DEF DeliveryShape
<1>3. ASSUME NEW m \in Messages PROVE ReceiptOK(m)' /\ StageOK(m)'
  <2>1. ReceiptOK(m) /\ StageOK(m)
    BY DEF DeliveryInv
  <2>2. StageOK(m)'
    BY <1>1, <2>1 DEF StageOK, Abandoned
  <2>3. opened[m] = 1 => Lapse(msg[m].issued) \in Nat
    <3>1. opened[m] = 1 => msg[m].issued \in Nat
      BY <1>1, <2>1 DEF ReceiptOK, DeliveryShape, Message
    <3>2. QED
      BY <1>1, <3>1, LapseFacts
  <2>4. ReceiptOK(m)'
    BY <1>1, <2>1, <2>3 DEF ReceiptOK
  <2>5. QED
    BY <2>2, <2>4
<1>4. IsFiniteSet(Kept(used)') /\ Cardinality(Kept(used)') <= MaxReplay
    BY <1>1 DEF DeliveryInv, Kept
<1>5. QED
    BY <1>2, <1>3, <1>4 DEF DeliveryInv

\* The invariant holds at the start.
LEMMA DeliveryStart == DeliveryInit => DeliveryInv
<1> SUFFICES ASSUME DeliveryInit PROVE DeliveryInv
    OBVIOUS
<1>1. [pc |-> "new", route |-> Nobody, issued |-> Nobody] \in Message
    BY DEF Message
<1>2. DeliveryShape
    BY <1>1, DelNumbers DEF DeliveryInit, DeliveryShape
<1>3. Kept(used) = {}
    BY DEF DeliveryInit, Kept
<1>4. IsFiniteSet(Kept(used)) /\ Cardinality(Kept(used)) <= MaxReplay
    BY <1>3, FS_EmptySet, DelNumbers
<1>5. \A m \in Messages : ReceiptOK(m) /\ StageOK(m)
    BY DelNumbers DEF DeliveryInit, ReceiptOK, StageOK
<1>6. QED
    BY <1>2, <1>4, <1>5 DEF DeliveryInv

\* Every step keeps it.
LEMMA DeliveryStep ==
    ASSUME DeliveryInv, [DeliveryNext]_deliveryVars
    PROVE  DeliveryInv'
<1>1. CASE UNCHANGED deliveryVars
    BY <1>1 DEF deliveryVars, DeliveryInv, DeliveryShape, ReceiptOK, StageOK, Abandoned, Kept
<1>2. CASE Clock
    BY <1>2, ClockStep
<1>3. ASSUME NEW m \in Messages, Reject(m) PROVE DeliveryInv'
    BY <1>3, RejectStep
<1>4. ASSUME NEW m \in Messages, Seal(m) PROVE DeliveryInv'
    BY <1>4, SealStep
<1>5. ASSUME NEW m \in Messages, Send(m) PROVE DeliveryInv'
    BY <1>5, SendStep
<1>6. ASSUME NEW m \in Messages, SendFails(m) PROVE DeliveryInv'
    BY <1>6, SendFailsStep
<1>7. ASSUME NEW m \in Messages, Replay(m) PROVE DeliveryInv'
    BY <1>7, ReplayStep
<1>8. ASSUME NEW m \in Messages, ReadFails(m) PROVE DeliveryInv'
    BY <1>8, ReadFailsStep
<1>9. ASSUME NEW m \in Messages, ReadJson(m) PROVE DeliveryInv'
    BY <1>9, ReadJsonStep
<1>10. ASSUME NEW m \in Messages, StreamBegins(m) PROVE DeliveryInv'
    BY <1>10, StreamBeginsStep
<1>11. ASSUME NEW m \in Messages, Chunk(m) PROVE DeliveryInv'
    BY <1>11, ChunkStep
<1>12. ASSUME NEW m \in Messages, StreamEnds(m) PROVE DeliveryInv'
    BY <1>12, StreamEndsStep
<1>13. ASSUME NEW m \in Messages, ChatStops(m) PROVE DeliveryInv'
    BY <1>13, ChatStopsStep
<1>14. ASSUME NEW m \in Messages, StreamBreaks(m) PROVE DeliveryInv'
    BY <1>14, StreamBreaksStep
<1>15. ASSUME NEW m \in Messages, ClientLeaves(m) PROVE DeliveryInv'
    BY <1>15, ClientLeavesStep
<1>16. ASSUME NEW m \in Messages, Emit(m) PROVE DeliveryInv'
    BY <1>16, EmitStep
<1>17. ASSUME NEW m \in Messages, Collect(m) PROVE DeliveryInv'
    BY <1>17, CollectStep
<1>18. QED
    BY <1>1, <1>2, <1>3, <1>4, <1>5, <1>6, <1>7, <1>8, <1>9, <1>10, <1>11, <1>12, <1>13, <1>14, <1>15,
       <1>16, <1>17 DEF DeliveryNext

\* It is an invariant.
LEMMA DeliveryInvariance == DeliverySpec => []DeliveryInv
BY DeliveryStart, DeliveryStep, PTL DEF DeliverySpec

\* It contains the types, the bound of the replay guard among them.
LEMMA DeliveryTyped == DeliveryInv => DeliveryTypeOK
BY DEF DeliveryInv, DeliveryShape, DeliveryTypeOK, Kept

\* The replay guard keeps at most its number of receipts, and the state its types.
THEOREM DeliveryTypeCorrect == DeliverySpec => []DeliveryTypeOK
BY DeliveryTyped, DeliveryInvariance, PTL

\* For any number of requests and replays: a receipt opens one call, a request
\* ends in one event, its source is closed or was left after it was read from,
\* what is sent is bounded, and only a response that came whole or a failed one
\* on the chat route looks complete.
THEOREM RequestsAreDeliveredOnce == DeliverySpec => []DeliveredOnce
<1>1. DeliveryInv => DeliveredOnce
  <2> SUFFICES ASSUME DeliveryInv PROVE DeliveredOnce
    OBVIOUS
  <2>1. NoReplay
    BY DEF DeliveryInv, ReceiptOK, NoReplay
  <2>2. OneEventEach /\ Released /\ SentIsBounded
    BY DEF DeliveryInv, StageOK, Abandoned, OneEventEach, Released, SentIsBounded, At
  <2>3. FailureIsVisible
    BY DEF DeliveryInv, DeliveryShape, StageOK, FailureIsVisible
  <2>4. QED
    BY <2>1, <2>2, <2>3 DEF DeliveredOnce
<1>2. QED
    BY <1>1, DeliveryInvariance, PTL

(***************************************************************************)
(* The provider that is called                                             *)
(***************************************************************************)

\* The first of a set of providers is one of them.
LEMMA LeastId ==
    ASSUME NEW ids, ids \subseteq Nat, ids # {}
    PROVE  First(ids) \in ids
<1>1. PICK p \in ids : \A q \in ids : <<q, p>> \notin OpToRel(<, Nat)
    BY NatLessThanWellFounded, WFMin
<1>2. ASSUME NEW q \in ids PROVE p <= q
  <2>1. q \in Nat /\ p \in Nat /\ <<q, p>> \in Nat \X Nat
    OBVIOUS
  <2>2. <<q, p>> \in OpToRel(<, Nat) <=> q < p
    BY <2>1 DEF OpToRel
  <2>3. ~(q < p)
    BY <1>1, <2>2
  <2>4. QED
    BY <2>1, <2>3
<1>3. QED
    BY <1>2 DEF First

\* A request that has been resolved has a generation and a model; "auto" one
\* whose route has a provider that is switched on.
Resolved ==
    inv.pc \in {"read", "reading", "execute", "called"} =>
        /\ inv.gen \in Generation /\ inv.target \in Targets
        /\ inv.auto => Enabled(inv.gen, inv.target) # {}

\* The inductive invariant.
ExecutionInv == ExecutionTypeOK /\ Resolved /\ OnlyRouted /\ AutoIsRouted

\* A route leads to providers that the generation has.
LEMMA RouteFacts ==
    ASSUME NEW g \in Generation, NEW m \in Targets
    PROVE  /\ Enabled(g, m) \subseteq Llms /\ Enabled(g, m) \subseteq Vendors
           /\ Enabled(g, m) \subseteq Nat
           /\ \A p \in Enabled(g, m) : g.rows[p] \in Rows
<1>1. g.routing \in RoutingShape /\ g.rows \in [Vendors -> Rows]
    BY RoutingsAssumption DEF Generation
<1>2. g.routing.model[m].provider \in Llms \cup {Nil} /\ g.routing.profile \in (SUBSET Llms) \cup {Nil}
    BY <1>1 DEF RoutingShape
<1>3. RouteOf(g, m) \subseteq Llms
    BY <1>2 DEF RouteOf
<1>4. Enabled(g, m) \subseteq Llms
    BY <1>3 DEF Enabled
<1>5. QED
    BY <1>1, <1>4, OrderAssumption DEF Vendors

\* The provider for a model is one of its route that can be called; without one,
\* a provider of the route that is switched on cannot be called.
LEMMA ProviderFacts ==
    ASSUME NEW g \in Generation, NEW m \in Targets
    PROVE  /\ ProviderFor(g, m) # Nil =>
                ProviderFor(g, m) \in Enabled(g, m) /\ g.rows[ProviderFor(g, m)].fit = "full"
           /\ ProviderFor(g, m) = Nil /\ Enabled(g, m) # {} =>
                \E p \in Enabled(g, m) : g.rows[p].fit # "full"
<1> DEFINE able == {p \in Enabled(g, m) : g.rows[p].fit # "textless"}
<1>1. /\ Enabled(g, m) \subseteq Nat /\ Nil \notin Enabled(g, m)
      /\ \A p \in Enabled(g, m) : g.rows[p].fit \in Fits
    BY RouteFacts, NilAssumption DEF Rows
<1>2. able # {} => First(able) \in able
  <2>1. able \subseteq Nat
    BY <1>1
  <2> HIDE DEF able
  <2>2. QED
    BY <2>1, LeastId
<1>3. ProviderFor(g, m) = IF able = {} \/ g.rows[First(able)].fit = "incomplete" THEN Nil ELSE First(able)
    BY DEF ProviderFor
<1>4. CASE able = {}
    BY <1>3, <1>4
<1>5. CASE able # {}
  <2>1. PICK p : p = First(able)
    OBVIOUS
  <2>2. p \in Enabled(g, m) /\ g.rows[p].fit # "textless" /\ g.rows[p].fit \in Fits
    BY <1>1, <1>2, <1>5, <2>1
  <2>3. ProviderFor(g, m) = IF g.rows[p].fit = "incomplete" THEN Nil ELSE p
    BY <1>3, <1>5, <2>1
  <2> HIDE DEF able
  <2>4. QED
    BY <1>1, <2>2, <2>3 DEF Fits
<1>6. QED
    BY <1>4, <1>5

\* The model that "auto" chooses has a provider that is switched on.
LEMMA AutoFacts ==
    ASSUME NEW g, AutoModel(g) # Nil
    PROVE  AutoModel(g) \in Targets /\ Enabled(g, AutoModel(g)) # {}
<1> DEFINE served == {m \in Targets : Enabled(g, m) # {}}
<1>1. served # {} /\ AutoModel(g) = First(served)
    BY DEF AutoModel
<1>2. served \subseteq Nat
    BY OrderAssumption
<1>3. First(served) \in served
    BY <1>1, <1>2, LeastId
<1>4. QED
    BY <1>1, <1>3

\* No request is a request.
LEMMA ResolvedNone == NoRequest \in Request /\ NoRequest.pc = "none"
BY DEF NoRequest, Request

\* A request that is over.
LEMMA OverFacts ==
    ASSUME inv \in Request, NEW outcome \in Outcomes
    PROVE  Over(outcome) \in Request /\ Over(outcome).pc = "ended" /\ Over(outcome).outcome = outcome
           /\ Over(outcome).auto = inv.auto /\ Over(outcome).gen = inv.gen
           /\ Over(outcome).target = inv.target
<1>1. PICK c : c = Over(outcome)
    OBVIOUS
<1>2. c = [inv EXCEPT !.pc = "ended", !.call = Nil, !.outcome = outcome]
    BY <1>1 DEF Over
<1>3. /\ c.pc = "ended" /\ c.outcome = outcome /\ c.auto = inv.auto /\ c.gen = inv.gen
      /\ c.target = inv.target /\ c \in Request
    BY <1>2 DEF Request
<1>4. QED
    BY <1>1, <1>3

\* The outcome of a request, whatever led to it.
LEMMA EndsWith ==
    ASSUME ExecutionInv, reader # Nil, NEW outcome \in Outcomes, inv' = Over(outcome),
           outcome = "no_provider" /\ inv.auto =>
               \E p \in Enabled(inv.gen, inv.target) : inv.gen.rows[p].fit # "full",
           UNCHANGED <<table, edits, serving, reader>>
    PROVE  ExecutionInv'
<1>1. /\ inv' \in Request /\ inv'.pc = "ended" /\ inv'.outcome = outcome /\ inv'.auto = inv.auto
      /\ inv'.gen = inv.gen /\ inv'.target = inv.target
    BY OverFacts DEF ExecutionInv, ExecutionTypeOK
<1>2. ExecutionTypeOK'
    BY <1>1 DEF ExecutionInv, ExecutionTypeOK
<1>3. Resolved' /\ OnlyRouted'
    BY <1>1 DEF Resolved, OnlyRouted
<1>4. AutoIsRouted'
    BY <1>1 DEF AutoIsRouted
<1>5. QED
    BY <1>2, <1>3, <1>4 DEF ExecutionInv

\* The same request, further on.
LEMMA GoesOn ==
    ASSUME ExecutionInv, reader # Nil, inv.pc \in {"read", "reading", "execute"},
           NEW pc \in {"reading", "execute", "called"},
           NEW to \in Backends \cup {Nil},
           inv' = [inv EXCEPT !.pc = pc, !.call = to], UNCHANGED <<table, edits, serving, reader>>,
           pc = "called" => /\ to.id \in Enabled(inv.gen, inv.target)
                            /\ inv.gen.rows[to.id].fit = "full"
                            /\ to.site = inv.gen.rows[to.id].site
    PROVE  ExecutionInv'
<1>1. inv \in Request
    BY DEF ExecutionInv, ExecutionTypeOK
<1>2. /\ inv' \in Request /\ inv'.pc = pc /\ inv'.call = to /\ inv'.gen = inv.gen
      /\ inv'.target = inv.target /\ inv'.auto = inv.auto
  <2>1. PICK c : c = [inv EXCEPT !.pc = pc, !.call = to]
    OBVIOUS
  <2>2. /\ c.pc = pc /\ c.call = to /\ c.gen = inv.gen /\ c.target = inv.target /\ c.auto = inv.auto
        /\ c \in Request
    BY <1>1, <2>1 DEF Request
  <2>3. QED
    BY <2>1, <2>2
<1>3. ExecutionTypeOK'
    BY <1>2 DEF ExecutionInv, ExecutionTypeOK
<1>4. Resolved'
    BY <1>2 DEF ExecutionInv, Resolved
<1>5. OnlyRouted'
    BY <1>2 DEF OnlyRouted
<1>6. AutoIsRouted'
    BY <1>2 DEF AutoIsRouted
<1>7. QED
    BY <1>3, <1>4, <1>5, <1>6 DEF ExecutionInv

\* A change of the table, the generation or the process: the request is the
\* same, or there is none.
LEMMA RequestUntouched ==
    ASSUME ExecutionInv,
           \/ inv' = inv /\ (reader' = reader \/ reader = Nil)
           \/ inv' = NoRequest,
           table' \in [Vendors -> Rows], serving' \in Generation, edits' \in 0 .. MaxEdits,
           reader' \in [ocr : Backends, vision : Backends \cup {Nil}] \cup {Nil}
    PROVE  ExecutionInv'
<1>1. ExecutionTypeOK'
    BY ResolvedNone DEF ExecutionInv, ExecutionTypeOK
<1>2. CASE inv' = inv
    BY <1>1, <1>2 DEF ExecutionInv, Resolved, OnlyRouted, AutoIsRouted
<1>3. CASE inv' = NoRequest
    BY <1>1, <1>3, ResolvedNone DEF ExecutionInv, Resolved, OnlyRouted, AutoIsRouted
<1>4. QED
    BY <1>2, <1>3

\* A row of the table changes.
LEMMA UpdateProviderStep ==
    ASSUME ExecutionInv, NEW p \in Vendors, UpdateProvider(p)
    PROVE  ExecutionInv'
<1>1. PICK row \in Rows : table' = [table EXCEPT ![p] = row]
    BY DEF UpdateProvider, Rows
<1>2. table' \in [Vendors -> Rows] /\ edits' \in 0 .. MaxEdits
    BY <1>1, BoundsAssumption DEF ExecutionInv, ExecutionTypeOK, UpdateProvider
<1>3. QED
    BY <1>2, RequestUntouched DEF ExecutionInv, ExecutionTypeOK, UpdateProvider

\* It is loaded.
LEMMA LoadStep ==
    ASSUME ExecutionInv, Load
    PROVE  ExecutionInv'
<1>1. serving' \in Generation
    BY DEF ExecutionInv, ExecutionTypeOK, Load, Generation
<1>2. QED
    BY <1>1, RequestUntouched DEF ExecutionInv, ExecutionTypeOK, Load

\* The process starts.
LEMMA StartStep ==
    ASSUME ExecutionInv, Start
    PROVE  ExecutionInv'
<1> DEFINE on == {p \in Readers : table[p].on}
           Behind(p) == [id |-> p, site |-> table[p].site]
<1>1. /\ reader = Nil /\ on # {} /\ UNCHANGED <<table, edits, serving, inv>>
      /\ reader' = [ocr |-> Behind(First(on)), vision |-> IF table[Viewer].on THEN Behind(Viewer) ELSE Nil]
    BY DEF Start
<1>2. table \in [Vendors -> Rows] /\ serving \in Generation /\ edits \in 0 .. MaxEdits
    BY DEF ExecutionInv, ExecutionTypeOK
<1>3. \A p \in Vendors : Behind(p) \in Backends
    BY <1>2 DEF Backends, Rows
<1>4. First(on) \in Vendors
  <2>1. on \subseteq Nat
    BY OrderAssumption
  <2>2. First(on) \in on
    BY <1>1, <2>1, LeastId
  <2>3. QED
    BY <2>2 DEF Vendors
<1>5. Viewer \in Vendors
    BY DEF Vendors
<1> HIDE DEF At, on
<1>6. reader' \in [ocr : Backends, vision : Backends \cup {Nil}] \cup {Nil}
    BY <1>1, <1>3, <1>4, <1>5
<1>7. QED
    BY <1>1, <1>2, <1>6, RequestUntouched

\* It stops.
LEMMA StopStep ==
    ASSUME ExecutionInv, Stop
    PROVE  ExecutionInv'
BY RequestUntouched DEF ExecutionInv, ExecutionTypeOK, Stop

\* A request is resolved in the generation that serves.
LEMMA AcceptStep ==
    ASSUME ExecutionInv, Accept
    PROVE  ExecutionInv'
<1>1. PICK wanted \in Targets \cup {Nil}, pc \in {"read", "execute"} :
         LET target == IF wanted = Nil THEN AutoModel(serving) ELSE wanted IN
         inv' = IF target = Nil
                THEN [NoRequest EXCEPT !.pc = "ended", !.auto = TRUE, !.outcome = "model_unavailable"]
                ELSE [pc |-> pc, gen |-> serving, target |-> target, auto |-> wanted = Nil,
                      call |-> Nil, outcome |-> Nil]
    BY DEF Accept
<1>2. PICK target : target = IF wanted = Nil THEN AutoModel(serving) ELSE wanted
    OBVIOUS
<1>3. reader # Nil /\ UNCHANGED <<table, edits, serving, reader>>
    BY DEF Accept
<1>4. serving \in Generation
    BY DEF ExecutionInv, ExecutionTypeOK
<1>5. CASE target = Nil
  <2>1. inv' = [NoRequest EXCEPT !.pc = "ended", !.auto = TRUE, !.outcome = "model_unavailable"]
    BY <1>1, <1>2, <1>5
  <2>2. /\ inv'.pc = "ended" /\ inv'.outcome = "model_unavailable"
        /\ inv' = [pc |-> "ended", gen |-> Nil, target |-> Nil, auto |-> TRUE,
                   call |-> Nil, outcome |-> "model_unavailable"]
    BY <2>1 DEF NoRequest
  <2>3. inv' \in Request
    BY <2>2 DEF Request, Outcomes
  <2>4. ExecutionTypeOK'
    BY <1>3, <2>3 DEF ExecutionInv, ExecutionTypeOK
  <2>5. QED
    BY <2>2, <2>4 DEF ExecutionInv, Resolved, OnlyRouted, AutoIsRouted
<1>6. CASE target # Nil
  <2>1. inv' = [pc |-> pc, gen |-> serving, target |-> target, auto |-> wanted = Nil,
                call |-> Nil, outcome |-> Nil]
    BY <1>1, <1>2, <1>6
  <2>2. target \in Targets /\ (wanted = Nil => Enabled(serving, target) # {})
    BY <1>2, <1>4, <1>6, AutoFacts, OrderAssumption, NilAssumption
  <2>3. /\ inv'.pc \in {"read", "execute"} /\ inv'.gen = serving /\ inv'.target = target
        /\ inv'.auto = (wanted = Nil)
    BY <2>1
  <2>4. inv' \in Request
    <3>1. (wanted = Nil) \in BOOLEAN
      OBVIOUS
    <3>2. QED
      BY <1>4, <2>1, <2>2, <3>1 DEF Request
  <2>5. ExecutionTypeOK'
    BY <1>3, <2>4 DEF ExecutionInv, ExecutionTypeOK
  <2>6. Resolved'
    BY <1>4, <2>2, <2>3 DEF Resolved
  <2>7. OnlyRouted' /\ AutoIsRouted'
    BY <2>3 DEF OnlyRouted, AutoIsRouted
  <2>8. QED
    BY <2>5, <2>6, <2>7 DEF ExecutionInv
<1>7. QED
    BY <1>5, <1>6

\* Its medium is read, or there is no key to do so.
LEMMA ReadingStep ==
    ASSUME ExecutionInv, inv.pc = "read", reader # Nil, NEW b \in Backends, Calls(b.id, b.site, "reading"),
           UNCHANGED <<table, edits, serving, reader>>
    PROVE  ExecutionInv'
<1>1. \/ inv' = Over("configuration")
      \/ inv' = [inv EXCEPT !.pc = "reading", !.call = [id |-> b.id, site |-> b.site]]
    BY DEF Calls
<1>2. [id |-> b.id, site |-> b.site] \in Backends
    BY DEF Backends
<1>3. CASE inv' = Over("configuration")
    BY <1>3, EndsWith DEF Outcomes
<1>4. CASE inv' = [inv EXCEPT !.pc = "reading", !.call = [id |-> b.id, site |-> b.site]]
  <2>1. PICK to \in Backends : to = [id |-> b.id, site |-> b.site]
    BY <1>2
  <2>2. inv' = [inv EXCEPT !.pc = "reading", !.call = to]
    BY <1>4, <2>1
  <2>3. QED
    BY <2>2, GoesOn
<1>5. QED
    BY <1>1, <1>3, <1>4

\* Its text is read, or it is described.
LEMMA ReadStep ==
    ASSUME ExecutionInv, ReadText \/ Describe
    PROVE  ExecutionInv'
<1>1. /\ inv.pc = "read" /\ UNCHANGED <<table, edits, serving, reader>>
      /\ \/ Calls(reader.ocr.id, reader.ocr.site, "reading")
         \/ reader.vision # Nil /\ Calls(reader.vision.id, reader.vision.site, "reading")
         \/ inv' = Over("configuration")
    BY DEF ReadText, Describe
<1>2. reader # Nil
    BY <1>1, ResolvedNone DEF ExecutionInv, ExecutionTypeOK
<1>3. reader.ocr \in Backends /\ reader.vision \in Backends \cup {Nil}
    BY <1>2 DEF ExecutionInv, ExecutionTypeOK
<1>4. CASE inv' = Over("configuration")
    BY <1>1, <1>2, <1>4, EndsWith DEF Outcomes
<1>5. QED
    BY <1>1, <1>2, <1>3, <1>4, ReadingStep

\* It is executed.
LEMMA ExecuteStep ==
    ASSUME ExecutionInv, Execute
    PROVE  ExecutionInv'
<1>1. PICK p : p = ProviderFor(inv.gen, inv.target)
    OBVIOUS
<1>2. inv.pc = "execute" /\ UNCHANGED <<table, edits, serving, reader>>
    BY DEF Execute
<1>3. reader # Nil
    BY <1>2, ResolvedNone DEF ExecutionInv, ExecutionTypeOK
<1>4. /\ inv.gen \in Generation /\ inv.target \in Targets
      /\ inv.auto => Enabled(inv.gen, inv.target) # {}
    BY <1>2 DEF ExecutionInv, Resolved
<1>5. \/ p = Nil /\ inv' = Over("no_provider")
      \/ p # Nil /\ \E o \in {"cannot_serve", "payload_invalid", "unsupported_options"} : inv' = Over(o)
      \/ p # Nil /\ Calls(p, inv.gen.rows[p].site, "called")
    BY <1>1 DEF Execute
<1>6. CASE p = Nil /\ inv' = Over("no_provider")
  <2>1. inv.auto => \E q \in Enabled(inv.gen, inv.target) : inv.gen.rows[q].fit # "full"
    BY <1>1, <1>4, <1>6, ProviderFacts
  <2>2. QED
    BY <1>2, <1>3, <1>6, <2>1, EndsWith DEF Outcomes
<1>7. ASSUME NEW o \in {"cannot_serve", "payload_invalid", "unsupported_options"}, inv' = Over(o)
      PROVE  ExecutionInv'
    BY <1>2, <1>3, <1>7, EndsWith DEF Outcomes
<1>8. CASE p # Nil /\ Calls(p, inv.gen.rows[p].site, "called")
  <2>1. p \in Enabled(inv.gen, inv.target) /\ inv.gen.rows[p].fit = "full"
    BY <1>1, <1>4, <1>8, ProviderFacts
  <2>9. p \in Vendors /\ inv.gen.rows[p] \in Rows
    BY <1>4, <2>1, RouteFacts
  <2>2. PICK site : site = inv.gen.rows[p].site
    OBVIOUS
  <2>3. site \in Sites
    BY <2>2, <2>9 DEF Rows
  <2>4. PICK to \in Backends : to = [id |-> p, site |-> site]
    BY <2>3, <2>9 DEF Backends
  <2>5. inv' = Over("configuration") \/ inv' = [inv EXCEPT !.pc = "called", !.call = to]
    BY <1>8, <2>2, <2>4 DEF Calls
  <2>6. CASE inv' = Over("configuration")
    BY <1>2, <1>3, <2>6, EndsWith DEF Outcomes
  <2>7. CASE inv' = [inv EXCEPT !.pc = "called", !.call = to]
    <3>1. to.id = p /\ to.site = inv.gen.rows[p].site
      BY <2>2, <2>4
    <3>2. QED
      BY <1>2, <1>3, <2>1, <2>7, <3>1, GoesOn
  <2>8. QED
    BY <2>5, <2>6, <2>7
<1>9. QED
    BY <1>5, <1>6, <1>7, <1>8

\* The provider answers.
LEMMA AnswerStep ==
    ASSUME ExecutionInv, Answer
    PROVE  ExecutionInv'
<1>1. PICK outcome \in {"success", "provider_failed"} :
        inv' = IF inv.pc = "reading" /\ outcome = "success"
               THEN [inv EXCEPT !.pc = "execute", !.call = Nil]
               ELSE Over(outcome)
    BY DEF Answer
<1>2. inv.pc \in {"reading", "called"} /\ UNCHANGED <<table, edits, serving, reader>>
    BY DEF Answer
<1>3. reader # Nil
    BY <1>2, ResolvedNone DEF ExecutionInv, ExecutionTypeOK
<1>4. CASE inv.pc = "reading" /\ outcome = "success"
  <2>1. inv' = [inv EXCEPT !.pc = "execute", !.call = Nil]
    BY <1>1, <1>4
  <2>2. QED
    BY <1>2, <1>3, <1>4, <2>1, GoesOn
<1>5. CASE ~(inv.pc = "reading" /\ outcome = "success")
  <2>1. inv' = Over(outcome) /\ outcome \in Outcomes /\ outcome # "no_provider"
    BY <1>1, <1>5 DEF Outcomes
  <2>2. QED
    BY <1>2, <1>3, <2>1, EndsWith
<1>6. QED
    BY <1>4, <1>5

\* The invariant holds at the start.
LEMMA ExecutionStart == ExecutionInit => ExecutionInv
<1> SUFFICES ASSUME ExecutionInit PROVE ExecutionInv
    OBVIOUS
<1>1. (CHOOSE s \in Sites : TRUE) \in Sites
    BY BoundsAssumption
<1>2. table \in [Vendors -> Rows] /\ serving \in Generation
  <2>1. PICK row \in Rows : row = [on |-> TRUE, site |-> CHOOSE s \in Sites : TRUE, fit |-> "full"]
    BY <1>1 DEF Rows, Fits
  <2>2. table = [p \in Vendors |-> row]
    BY <2>1 DEF ExecutionInit
  <2>3. serving.rows = table /\ serving.routing \in Routings /\ serving = [rows |-> serving.rows, routing |-> serving.routing]
    BY DEF ExecutionInit
  <2>4. QED
    BY <2>2, <2>3 DEF Generation
<1>3. ExecutionTypeOK
    BY <1>2, ResolvedNone, BoundsAssumption DEF ExecutionInit, ExecutionTypeOK
<1>4. QED
    BY <1>3, ResolvedNone DEF ExecutionInit, ExecutionInv, Resolved, OnlyRouted, AutoIsRouted

\* Every step keeps it.
LEMMA ExecutionStep ==
    ASSUME ExecutionInv, [ExecutionNext]_executionVars
    PROVE  ExecutionInv'
<1>1. CASE UNCHANGED executionVars
    BY <1>1, RequestUntouched DEF executionVars, ExecutionInv, ExecutionTypeOK
<1>2. ASSUME NEW p \in Vendors, UpdateProvider(p) PROVE ExecutionInv'
    BY <1>2, UpdateProviderStep
<1>3. QED
    BY <1>1, <1>2, LoadStep, StartStep, StopStep, AcceptStep, ReadStep, ExecuteStep, AnswerStep
       DEF ExecutionNext

\* It is an invariant.
LEMMA ExecutionInvariance == ExecutionSpec => []ExecutionInv
BY ExecutionStart, ExecutionStep, PTL DEF ExecutionSpec

\* Generations, routes and requests keep their types.
THEOREM ExecutionTypeCorrect == ExecutionSpec => []ExecutionTypeOK
BY ExecutionInvariance, PTL DEF ExecutionInv

\* For any providers, routes and edits: a call goes to a provider on the route
\* of the model that can be called, all of it as published in the generation of
\* the request; "auto" ends without one only if its route has a provider that is
\* switched on and cannot be called.
THEOREM CalledAsPublished == ExecutionSpec => []RoutedAsPublished
BY ExecutionInvariance, PTL DEF ExecutionInv, RoutedAsPublished

(***************************************************************************)
(* The conversation                                                        *)
(***************************************************************************)

-------------------------------------------------------------------------------
\* Nothing that is not text.
NoImage(tokens) == \A t \in tokens : t.kind # "image"

\* What extract_context makes of a token.
LEMMA SeenFacts ==
    ASSUME NEW t \in Tokens
    PROVE  /\ Seen(t) \in Tokens /\ Seen(t).kind # "image"
           /\ t.kind # "image" => Seen(t) = t
           /\ Seen(Seen(t)) = Seen(t)
<1>1. CASE t.kind = "image"
  <2>1. PICK s : s = [t EXCEPT !.kind = "read"]
    OBVIOUS
  <2>2. s \in Tokens /\ s.kind = "read" /\ Seen(t) = s
    BY <1>1, <2>1 DEF Tokens, Seen
  <2>3. Seen(s) = s
    BY <2>2 DEF Seen
  <2>4. QED
    BY <1>1, <2>2, <2>3
<1>2. CASE t.kind # "image"
    BY <1>2 DEF Seen
<1>3. QED
    BY <1>1, <1>2

\* And of many.
LEMMA ReadInIs ==
    ASSUME NEW A \in SUBSET Tokens, NEW x
    PROVE  x \in ReadIn(A) <=> \E t \in A : x = Seen(t) /\ x.kind \in {"text", "read"}
BY DEF ReadIn, Texts

\* What was read is not read again.
LEMMA ReadInFacts ==
    ASSUME NEW A \in SUBSET Tokens
    PROVE  /\ ReadIn(A) \in SUBSET Tokens /\ NoImage(ReadIn(A))
           /\ ReadIn(ReadIn(A)) = ReadIn(A)
           /\ NoImage(A) => ReadIn(A) = Texts(A) /\ ReadIn(A) \subseteq A
<1>1. ReadIn(A) \in SUBSET Tokens /\ NoImage(ReadIn(A))
    BY ReadInIs, SeenFacts DEF NoImage
<1>2. ASSUME NEW x \in ReadIn(A) PROVE x \in ReadIn(ReadIn(A))
  <2>1. x \in Tokens /\ x.kind \in {"text", "read"}
    BY <1>1, ReadInIs
  <2>2. Seen(x) = x
    BY <2>1, SeenFacts
  <2>3. QED
    BY <1>1, <2>1, <2>2, ReadInIs
<1>3. ASSUME NEW x \in ReadIn(ReadIn(A)) PROVE x \in ReadIn(A)
  <2>1. PICK t \in ReadIn(A) : x = Seen(t)
    BY <1>1, ReadInIs
  <2>2. t \in Tokens /\ t.kind # "image"
    BY <1>1 DEF NoImage
  <2>3. QED
    BY <2>1, <2>2, SeenFacts
<1>4. ASSUME NoImage(A) PROVE ReadIn(A) = Texts(A) /\ ReadIn(A) \subseteq A
  <2>1. \A t \in A : Seen(t) = t
    BY <1>4, SeenFacts DEF NoImage
  <2>2. QED
    BY <2>1, ReadInIs DEF Texts
<1>5. QED
    BY <1>1, <1>2, <1>3, <1>4

\* More tokens, more text.
LEMMA ReadInGrows ==
    ASSUME NEW A \in SUBSET Tokens, NEW B \in SUBSET Tokens, A \subseteq B
    PROVE  ReadIn(A) \subseteq ReadIn(B)
BY ReadInIs

\* What has been prepared of a request holds the current messages of its chain.
Covers(r, tokens) == \A p \in Chain(r) : ReadIn(call[p].current) \subseteq tokens

\* What holds of a request at each of its stages.
TalkOK(r) ==
    /\ call[r].prev # NoTurn => call[call[r].prev].pc = "done"
    /\ call[r].pc \in {"idle", "extract", "post"} => call[r].next = 1 /\ call[r].got = 0
    /\ call[r].pc = "stream" =>
         call[r].next \in 1 .. 6 /\ call[r].got = IF call[r].next > 2 THEN 1 ELSE 0
    /\ call[r].pc = "done" =>
         call[r].outcome # "media" /\ (call[r].outcome = "completed" => call[r].got = 1)
    /\ call[r].pc \in {"extract", "post", "stream"} => Covers(r, ReadIn(call[r].content))
    /\ call[r].pc \in {"post", "stream"} => NoImage(call[r].content)
    /\ call[r].pc = "post" => call[r].content \subseteq call[r].sent

\* A state is of a request that was answered, with the current messages of its
\* chain.
StateOK(r) ==
    r \in DOMAIN states =>
        /\ call[r].pc = "done" /\ call[r].outcome = "completed"
        /\ \A t \in states[r] : t.kind \in {"text", "read"}
        /\ Covers(r, states[r])

\* The inductive invariant.
ConversationInv ==
    /\ ConversationTypeOK
    /\ \A r \in Turns : TalkOK(r) /\ StateOK(r)

\* Nobody follows up a request that is not done, so a step of it leaves the
\* chains of the others alone.
LEMMA ChainOfOthers ==
    ASSUME ConversationInv, NEW x \in Turns, call[x].pc # "done", NEW c \in Asked,
           call' = [call EXCEPT ![x] = c], NEW r \in Turns, r # x
    PROVE  Chain(r)' \subseteq Chain(r) \ {x}
<1>1. /\ call \in [Turns -> Asked] /\ \A q \in Turns : call[q].prev \in Turns \cup {NoTurn}
      /\ \A q \in Turns : call[q].prev # x
      /\ \A q \in Turns \ {x} : call'[q] = call[q]
  <2>1. call \in [Turns -> Asked] /\ \A q \in Turns : TalkOK(q)
    BY DEF ConversationInv, ConversationTypeOK
  <2>2. \A q \in Turns : call[q].prev \in Turns \cup {NoTurn}
    BY <2>1 DEF Asked
  <2>3. NoTurn \notin Turns
    BY TurnsAssumption
  <2>4. \A q \in Turns : call[q].prev # x
    BY <2>1, <2>3 DEF TalkOK
  <2>5. QED
    BY <2>1, <2>2, <2>4
<1>2. ASSUME NEW p \in Chain(r)', NEW S \in SUBSET Turns, r \in S,
             \A q \in S : call[q].prev \in S \cup {NoTurn}
      PROVE  p \in S \ {x}
  <2>1. S \ {x} \in SUBSET Turns /\ r \in S \ {x}
    BY <1>2
  <2>2. \A q \in S \ {x} : call'[q].prev \in (S \ {x}) \cup {NoTurn}
    BY <1>1, <1>2
  <2>3. QED
    BY <2>1, <2>2 DEF Chain
<1>3. ASSUME NEW p \in Chain(r)' PROVE p \in Chain(r) \ {x}
  <2>1. p \in Turns
    BY DEF Chain
  <2>2. Turns \in SUBSET Turns /\ r \in Turns /\ \A q \in Turns : call[q].prev \in Turns \cup {NoTurn}
    BY <1>1
  <2>3. p # x
    BY <1>2, <2>2
  <2>4. p \in Chain(r)
    BY <1>2, <2>1 DEF Chain
  <2>5. QED
    BY <2>3, <2>4
<1>4. QED
    BY <1>3

\* A request that follows up n has the chain of n and itself.
LEMMA ChainOfNew ==
    ASSUME ConversationInv, NEW x \in Turns, NEW c \in Asked, call' = [call EXCEPT ![x] = c]
    PROVE  /\ c.prev = NoTurn => Chain(x)' \subseteq {x}
           /\ c.prev # NoTurn => Chain(x)' \subseteq Chain(c.prev) \cup {x}
<1>1. /\ call'[x] = c /\ c.prev \in Turns \cup {NoTurn} /\ \A q \in Turns \ {x} : call'[q] = call[q]
    BY DEF ConversationInv, ConversationTypeOK, Asked
<1>2. ASSUME c.prev = NoTurn, NEW p \in Chain(x)' PROVE p \in {x}
  <2>1. {x} \in SUBSET Turns /\ x \in {x} /\ \A q \in {x} : call'[q].prev \in {x} \cup {NoTurn}
    BY <1>1, <1>2
  <2>2. QED
    BY <2>1 DEF Chain
<1>3. ASSUME c.prev # NoTurn, NEW p \in Chain(x)', p # x PROVE p \in Chain(c.prev)
  <2>1. p \in Turns
    BY DEF Chain
  <2>2. ASSUME NEW S \in SUBSET Turns, c.prev \in S, \A q \in S : call[q].prev \in S \cup {NoTurn}
        PROVE  p \in S
    <3>1. S \cup {x} \in SUBSET Turns /\ x \in S \cup {x}
      OBVIOUS
    <3>2. \A q \in S \cup {x} : call'[q].prev \in (S \cup {x}) \cup {NoTurn}
      BY <1>1, <2>2
    <3>3. p \in S \cup {x}
      BY <3>1, <3>2 DEF Chain
    <3>4. QED
      BY <1>3, <3>3
  <2>3. QED
    BY <2>1, <2>2 DEF Chain
<1>4. QED
    BY <1>2, <1>3

\* A step that keeps what a request follows up keeps its chain.
LEMMA ChainKept ==
    ASSUME ConversationInv, NEW x \in Turns, NEW c \in Asked, call' = [call EXCEPT ![x] = c],
           c.prev = call[x].prev
    PROVE  Chain(x)' = Chain(x)
<1>1. \A q \in Turns : call'[q].prev = call[q].prev
    BY DEF ConversationInv, ConversationTypeOK
<1>2. QED
    BY <1>1 DEF Chain

\* A step of one request leaves the others alone.
LEMMA OneMoves ==
    ASSUME ConversationInv, NEW x \in Turns, call[x].pc # "done", NEW c \in Asked,
           call' = [call EXCEPT ![x] = c],
           DOMAIN states' \subseteq DOMAIN states \cup {x},
           \A r \in DOMAIN states' \ {x} : states'[r] = states[r],
           x \in DOMAIN states' => states'[x] \subseteq Tokens /\ Cardinality(states'[x]) <= MaxText,
           TalkOK(x)', StateOK(x)'
    PROVE  ConversationInv'
<1>1. ConversationTypeOK'
    BY DEF ConversationInv, ConversationTypeOK
<1>2. ASSUME NEW r \in Turns, r # x PROVE TalkOK(r)' /\ StateOK(r)'
  <2>1. TalkOK(r) /\ StateOK(r) /\ call \in [Turns -> Asked] /\ call[r].prev \in Turns \cup {NoTurn}
    BY DEF ConversationInv, ConversationTypeOK, Asked
  <2>2. Chain(r)' \subseteq Chain(r) \ {x} /\ Chain(r) \subseteq Turns
    BY <1>2, ChainOfOthers DEF Chain
  <2>3. call'[r] = call[r] /\ \A q \in Turns \ {x} : call'[q] = call[q]
    BY <1>2, <2>1
  <2>4. ASSUME NEW T, Covers(r, T) PROVE \A p \in Chain(r)' : ReadIn(call'[p].current) \subseteq T
    BY <2>2, <2>3, <2>4 DEF Covers
  <2>5. PICK n : n = call[r].prev
    OBVIOUS
  <2>6. n # NoTurn => call'[n].pc = "done"
    <3>1. n # NoTurn => n \in Turns /\ call[n].pc = "done"
      BY <2>1, <2>5 DEF TalkOK
    <3>2. n # NoTurn => n # x
      BY <3>1
    <3>3. QED
      BY <2>3, <3>1, <3>2
  <2>7. PICK d : d = call[r]
    OBVIOUS
  <2>8. TalkOK(r)'
    <3>1. d.pc \in {"extract", "post", "stream"} => Covers(r, ReadIn(d.content))'
      <4>1. d.pc \in {"extract", "post", "stream"} =>
              \A p \in Chain(r)' : ReadIn(call'[p].current) \subseteq ReadIn(d.content)
        BY <2>1, <2>4, <2>7 DEF TalkOK
      <4>2. QED
        BY <4>1 DEF Covers
    <3>2. QED
      BY <2>1, <2>3, <2>5, <2>6, <2>7, <3>1 DEF TalkOK
  <2>9. StateOK(r)'
    <3>1. r \in DOMAIN states' => r \in DOMAIN states /\ states'[r] = states[r]
      BY <1>2
    <3>2. r \in DOMAIN states => \A p \in Chain(r)' : ReadIn(call'[p].current) \subseteq states[r]
      BY <2>1, <2>4 DEF StateOK
    <3>3. QED
      BY <2>1, <2>3, <3>1, <3>2 DEF StateOK, Covers
  <2>10. QED
    BY <2>8, <2>9
<1>3. QED
    BY <1>1, <1>2 DEF ConversationInv

(* What is asked *)

\* The items that messages become.
ItemType == [at : Nat, role : {"user", "assistant", "system", "tool"}, parts : SUBSET Tokens]

\* They are of that type.
LEMMA ItemsFacts ==
    ASSUME NEW r \in Turns, NEW messages \in Conversations
    PROVE  /\ Len(messages) \in Nat
           /\ \A e \in Items(r, messages) : e \in ItemType /\ e.at <= Len(messages)
<1>1. messages \in Seq(ChatMessages)
    BY ConversationsAssumption
<1>2. /\ Len(messages) \in Nat
      /\ \A i \in DOMAIN messages : i \in Nat /\ i <= Len(messages) /\ messages[i] \in ChatMessages
    BY <1>1
<1>3. ASSUME NEW i \in DOMAIN messages
      PROVE  Own(r, i, messages[i]) \in ItemType /\ Own(r, i, messages[i]).at = i
  <2>1. PICK m : m = messages[i]
    OBVIOUS
  <2>2. /\ m.role \in {"user", "assistant", "system", "tool"}
        /\ m.parts \in UNION {[1 .. n -> {"text", "blank", "image", "calls"}] : n \in 0 .. 2}
    BY <1>2, <2>1 DEF ChatMessages
  <2>3. PICK n \in 0 .. 2 : m.parts \in [1 .. n -> {"text", "blank", "image", "calls"}]
    BY <2>2
  <2>4. \A k \in DOMAIN m.parts : k \in Nat /\ m.parts[k] \in {"text", "blank", "image", "calls"}
    BY <2>3
  <2>5. PICK ps : ps = {Token(r, i, k, m.parts[k]) : k \in {j \in DOMAIN m.parts : m.parts[j] # "calls"}}
    OBVIOUS
  <2>6. ASSUME NEW k \in DOMAIN m.parts, m.parts[k] # "calls" PROVE Token(r, i, k, m.parts[k]) \in Tokens
    BY <1>2, <2>4, <2>6 DEF Token, Tokens
  <2>7. ps \in SUBSET Tokens
    BY <2>5, <2>6
  <2>8. Own(r, i, m) = [at |-> i, role |-> m.role, parts |-> ps]
    BY <2>5 DEF Own
  <2>9. QED
    BY <1>2, <2>1, <2>2, <2>7, <2>8 DEF ItemType
<1>4. ASSUME NEW i \in DOMAIN messages PROVE Tool(i) \in ItemType /\ Tool(i).at = i
    BY <1>2 DEF Tool, ItemType
<1>5. ASSUME NEW e \in Items(r, messages) PROVE e \in ItemType /\ e.at <= Len(messages)
  <2>1. \E i \in DOMAIN messages : e = Own(r, i, messages[i]) \/ e = Tool(i)
    BY DEF Items
  <2>2. QED
    BY <1>2, <1>3, <1>4, <2>1
<1>6. QED
    BY <1>2, <1>5

\* The input has items of the messages only.
LEMMA InputFacts ==
    ASSUME NEW r \in Turns, NEW messages \in Conversations, NEW chat \in BOOLEAN
    PROVE  /\ Input(r, messages, chat).items \subseteq Items(r, messages)
           /\ Input(r, messages, chat).instructions \subseteq Tokens
<1>1. PICK all : all = Items(r, messages)
    OBVIOUS
<1>2. PICK system : system = {e \in all : e.role = "system"}
    OBVIOUS
<1>3. PICK in : in = Input(r, messages, chat)
    OBVIOUS
<1>4. /\ in.items = IF chat THEN all \ system ELSE all
      /\ in.instructions = IF chat THEN UNION {Texts(e.parts) : e \in system} ELSE {}
    BY <1>1, <1>2, <1>3 DEF Input
<1>5. \A e \in system : Texts(e.parts) \subseteq Tokens
    BY <1>1, <1>2, ItemsFacts DEF Texts, ItemType
<1>6. in.instructions \subseteq Tokens
    BY <1>4, <1>5
<1>7. QED
    BY <1>1, <1>3, <1>4, <1>6

\* The last of the user's messages is one of them.
LEMMA CurrentFacts ==
    ASSUME NEW r \in Turns, NEW messages \in Conversations, NEW items, items \subseteq Items(r, messages),
           Users(items) # {}
    PROVE  CurrentItem(items) \in items /\ CurrentItem(items).parts \in SUBSET Tokens
<1>1. PICK n \in Nat : n = Len(messages)
    BY ItemsFacts
<1>2. \A e \in Users(items) : e \in items /\ e.at \in Nat /\ e.at <= n /\ e.parts \in SUBSET Tokens
    BY <1>1, ItemsFacts DEF Users, ItemType
<1> DEFINE M == {n - e.at : e \in Users(items)}
<1>3. M \subseteq Nat /\ M # {}
    BY <1>2
<1>4. PICK m \in M : \A k \in M : <<k, m>> \notin OpToRel(<, Nat)
  <2> HIDE DEF M
  <2>1. QED
    BY <1>3, NatLessThanWellFounded, WFMin
<1>5. PICK e \in Users(items) : m = n - e.at
    OBVIOUS
<1>6. ASSUME NEW f \in Users(items) PROVE f.at <= e.at
  <2>1. n - f.at \in M /\ n - f.at \in Nat /\ m \in Nat
    BY <1>3
  <2>2. <<n - f.at, m>> \in Nat \X Nat /\ <<n - f.at, m>> \notin OpToRel(<, Nat)
    BY <1>4, <2>1
  <2>3. ~(n - f.at < m)
    BY <2>2 DEF OpToRel
  <2>4. QED
    BY <1>2, <1>5, <2>1, <2>3
<1>7. CurrentItem(items) \in Users(items)
    BY <1>6 DEF CurrentItem
<1>8. QED
    BY <1>2, <1>7

\* A request that is posted has no image left, and all its tokens go out.
LEMMA PostedFacts ==
    ASSUME NEW c \in Asked, NEW items, NEW content \in SUBSET Tokens,
           \A e \in items : e.parts \in SUBSET Tokens /\ NoImage(e.parts),
           \A t \in content : \E e \in items : t \in e.parts
    PROVE  \/ Posted(c, items, content) = Finished("guard")
           \/ \E out \in SUBSET Tokens :
                /\ Posted(c, items, content) = [c EXCEPT !.pc = "post", !.content = content, !.sent = out]
                /\ content \subseteq out /\ NoImage(content)
<1>1. \A e \in items : ~Holds("image", e.parts)
    BY DEF NoImage, Holds
<1>2. Refusal(items) \in {"guard", "none"}
    BY <1>1 DEF Refusal
<1>3. PICK out : out = c.instructions \cup UNION {e.parts : e \in items}
    OBVIOUS
<1>4. out \in SUBSET Tokens /\ content \subseteq out /\ NoImage(content)
    BY <1>3 DEF Asked, NoImage
<1>5. Refusal(items) = "none" =>
        Posted(c, items, content) = [c EXCEPT !.pc = "post", !.content = content, !.sent = out]
    BY <1>3 DEF Posted
<1>6. Refusal(items) = "guard" => Posted(c, items, content) = Finished("guard")
    BY DEF Posted
<1>7. QED
    BY <1>2, <1>4, <1>5, <1>6

\* A request before it is asked.
LEMMA NotAskedFacts == NotAsked \in Asked
BY TurnsAssumption DEF NotAsked, Asked

\* A request that ended without an answer.
LEMMA FinishedFacts ==
    ASSUME NEW o \in {"state_unavailable", "current_user_required", "unsafe_history_media",
                      "guard", "preprocessing_failed", "upstream_error", "left"}
    PROVE  /\ Finished(o) \in Asked
           /\ Finished(o).pc = "done" /\ Finished(o).prev = NoTurn /\ Finished(o).outcome = o
<1>1. PICK c : c = Finished(o)
    OBVIOUS
<1>2. /\ c = [pc |-> "done", prev |-> NoTurn, current |-> {}, chat |-> FALSE, stream |-> FALSE,
              instructions |-> {}, content |-> {}, sent |-> {}, next |-> 1, got |-> 0, outcome |-> o]
    BY <1>1 DEF Finished, NotAsked
<1>3. c \in Asked
    BY <1>2, TurnsAssumption DEF Asked
<1>4. QED
    BY <1>1, <1>2, <1>3

\* A request that ends without an answer.
LEMMA FinishStep ==
    ASSUME ConversationInv, NEW x \in Turns, call[x].pc # "done",
           NEW o \in {"state_unavailable", "current_user_required", "unsafe_history_media",
                      "guard", "preprocessing_failed", "upstream_error", "left"},
           call' = [call EXCEPT ![x] = Finished(o)], states' = states
    PROVE  ConversationInv'
<1>1. PICK c \in Asked : /\ c = Finished(o) /\ c.pc = "done" /\ c.prev = NoTurn /\ c.outcome = o
    BY FinishedFacts
<1>2. call' = [call EXCEPT ![x] = c] /\ call'[x] = c
    BY <1>1 DEF ConversationInv, ConversationTypeOK
<1>3. TalkOK(x)'
    BY <1>1, <1>2 DEF TalkOK
<1>4. x \notin DOMAIN states
    BY DEF ConversationInv, StateOK
<1>5. StateOK(x)'
    BY <1>4 DEF StateOK
<1>6. QED
    BY <1>1, <1>2, <1>3, <1>4, <1>5, OneMoves

\* A step that keeps what a request follows up and said, and what has been
\* prepared of it.
LEMMA KeepStep ==
    ASSUME ConversationInv, NEW x \in Turns, NEW c \in Asked, call' = [call EXCEPT ![x] = c],
           c.prev = call[x].prev, c.current = call[x].current
    PROVE  /\ call'[x] = c
           /\ \A T : Covers(x, T) => \A p \in Chain(x)' : ReadIn(call'[p].current) \subseteq T
<1>1. call'[x] = c /\ \A p \in Turns : call'[p].current = call[p].current
    BY DEF ConversationInv, ConversationTypeOK
<1>2. Chain(x)' = Chain(x) /\ Chain(x) \subseteq Turns
    BY ChainKept DEF Chain
<1>3. QED
    BY <1>1, <1>2 DEF Covers

\* A request is asked: refused, sent as it is, or read first.
LEMMA AskStep ==
    ASSUME ConversationInv, NEW r \in Turns, Ask(r)
    PROVE  ConversationInv'
<1>1. PICK messages \in Conversations, chat \in BOOLEAN, stream \in BOOLEAN, prev \in Earlier(r) \cup {NoTurn} :
         LET in == Input(r, messages, chat)
             now == IF Users(in.items) = {} THEN {} ELSE CurrentItem(in.items).parts
             content == IF prev = NoTurn THEN now ELSE states[prev] \cup now
             c == [NotAsked EXCEPT !.prev = prev, !.current = now, !.chat = chat, !.stream = stream,
                                   !.instructions = in.instructions]
         IN call' = [call EXCEPT ![r] =
              IF Rejected(in.items, prev) # "none" THEN Finished(Rejected(in.items, prev))
              ELSE Prepared(c, in.items, content)]
    BY DEF Ask
<1>2. PICK in : in = Input(r, messages, chat)
    OBVIOUS
<1>3. PICK now : now = IF Users(in.items) = {} THEN {} ELSE CurrentItem(in.items).parts
    OBVIOUS
<1>4. PICK content : content = IF prev = NoTurn THEN now ELSE states[prev] \cup now
    OBVIOUS
<1>5. PICK c : c = [NotAsked EXCEPT !.prev = prev, !.current = now, !.chat = chat, !.stream = stream,
                                    !.instructions = in.instructions]
    OBVIOUS
<1>6. PICK d : d = IF Rejected(in.items, prev) # "none" THEN Finished(Rejected(in.items, prev))
                  ELSE Prepared(c, in.items, content)
    OBVIOUS
<1>7. call' = [call EXCEPT ![r] = d]
    BY <1>1, <1>2, <1>3, <1>4, <1>5, <1>6
<1>8. states' = states /\ call[r] = NotAsked /\ call[r].pc = "idle"
    BY DEF Ask, NotAsked
<1>9. /\ in.items \subseteq Items(r, messages) /\ in.instructions \in SUBSET Tokens
    BY <1>2, InputFacts
<1>10. /\ now \in SUBSET Tokens
       /\ Users(in.items) # {} => (CurrentItem(in.items) \in in.items /\ now = CurrentItem(in.items).parts)
    BY <1>3, <1>9, CurrentFacts
<1>11. prev \in Turns \cup {NoTurn} /\ (prev # NoTurn => prev \in Turns /\ prev # r)
    BY <1>8 DEF Earlier
<1>12. /\ c = [pc |-> "idle", prev |-> prev, current |-> now, chat |-> chat, stream |-> stream,
               instructions |-> in.instructions, content |-> {}, sent |-> {}, next |-> 1, got |-> 0,
               outcome |-> "none"]
    BY <1>5 DEF NotAsked
<1>13. c \in Asked
    BY <1>9, <1>10, <1>11, <1>12 DEF Asked
<1>14. CASE d \in {Finished("state_unavailable"), Finished("current_user_required"),
                   Finished("unsafe_history_media"),
                   Finished("guard")}
    BY <1>7, <1>8, <1>14, FinishStep
<1>15. CASE d \notin {Finished("state_unavailable"), Finished("current_user_required"),
                      Finished("unsafe_history_media"), Finished("guard")}
  <2>1. /\ prev # NoTurn => prev \in DOMAIN states
        /\ Users(in.items) # {} /\ ~MediaInHistory(in.items)
        /\ d = IF Holds("image", now) THEN [c EXCEPT !.pc = "extract", !.content = content]
               ELSE Posted(c, IF prev = NoTurn THEN in.items ELSE Rebuilt(content), content)
    <3>1. Rejected(in.items, prev) = "none" /\ d = Prepared(c, in.items, content)
      BY <1>6, <1>15 DEF Rejected
    <3>2. c.current = now /\ c.prev = prev
      BY <1>12
    <3>3. QED
      BY <3>1, <3>2 DEF Rejected, Prepared
  <2>2. prev # NoTurn => /\ call[prev].pc = "done" /\ states[prev] \in SUBSET Tokens /\ NoImage(states[prev])
                         /\ Covers(prev, states[prev]) /\ Texts(states[prev]) = states[prev]
    BY <1>11, <2>1 DEF ConversationInv, ConversationTypeOK, StateOK, NoImage, Texts
  <2>3. content \in SUBSET Tokens /\ now \subseteq content /\ (prev # NoTurn => states[prev] \subseteq content)
    BY <1>4, <1>10, <2>2
  <2>4. ReadIn(now) \subseteq ReadIn(content)
    BY <1>10, <2>3, ReadInGrows
  <2>5. prev # NoTurn => states[prev] \subseteq ReadIn(content)
    <3>1. prev # NoTurn => ReadIn(states[prev]) = states[prev]
      BY <2>2, ReadInFacts
    <3>2. prev # NoTurn => ReadIn(states[prev]) \subseteq ReadIn(content)
      BY <2>2, <2>3, ReadInGrows
    <3>3. QED
      BY <3>1, <3>2
  <2>6. \/ d = [c EXCEPT !.pc = "extract", !.content = content]
        \/ \E out \in SUBSET Tokens :
              /\ d = [c EXCEPT !.pc = "post", !.content = content, !.sent = out]
              /\ content \subseteq out /\ NoImage(content)
    <3>1. CASE Holds("image", now)
      BY <2>1, <3>1
    <3>2. CASE ~Holds("image", now)
      <4>1. PICK items : items = IF prev = NoTurn THEN in.items ELSE Rebuilt(content)
        OBVIOUS
      <4>2. d = Posted(c, items, content)
        BY <2>1, <3>2, <4>1
      <4>3. NoImage(now)
        BY <3>2 DEF NoImage, Holds
      <4>4. /\ \A e \in items : e.parts \in SUBSET Tokens /\ NoImage(e.parts)
            /\ \A t \in content : \E e \in items : t \in e.parts
        <5>1. CASE prev = NoTurn
          <6>1. \A e \in in.items : e.parts \in SUBSET Tokens
            BY <1>9, ItemsFacts DEF ItemType
          <6>2. \A e \in in.items : e # CurrentItem(in.items) => NoImage(e.parts)
            BY <2>1 DEF MediaInHistory, Holds, NoImage
          <6>3. NoImage(CurrentItem(in.items).parts)
            BY <1>10, <2>1, <4>3
          <6>4. content = CurrentItem(in.items).parts /\ CurrentItem(in.items) \in in.items /\ items = in.items
            BY <1>4, <1>10, <2>1, <4>1, <5>1
          <6>5. QED
            BY <6>1, <6>2, <6>3, <6>4
        <5>2. CASE prev # NoTurn
          <6>1. items = {[at |-> 1, role |-> "user", parts |-> content]}
            BY <4>1, <5>2 DEF Rebuilt
          <6>2. NoImage(content)
            BY <1>4, <2>2, <4>3, <5>2 DEF NoImage
          <6>3. QED
            BY <2>3, <6>1, <6>2
        <5>3. QED
          BY <5>1, <5>2
      <4>5. d # Finished("guard")
        BY <1>15
      <4>6. \/ Posted(c, items, content) = Finished("guard")
            \/ \E out \in SUBSET Tokens :
                 /\ Posted(c, items, content) = [c EXCEPT !.pc = "post", !.content = content, !.sent = out]
                 /\ content \subseteq out /\ NoImage(content)
        <5>1. content \in SUBSET Tokens
          BY <2>3
        <5>2. QED
          BY <1>13, <4>4, <5>1, PostedFacts
      <4>7. QED
        BY <4>2, <4>5, <4>6
    <3>3. QED
      BY <3>1, <3>2
  <2>7. /\ d \in Asked /\ d.pc \in {"extract", "post"} /\ d.prev = prev /\ d.current = now /\ d.content = content
        /\ d.next = 1 /\ d.got = 0
        /\ d.pc = "post" => NoImage(d.content) /\ d.content \subseteq d.sent
    <3>1. CASE d = [c EXCEPT !.pc = "extract", !.content = content]
      BY <1>12, <1>13, <2>3, <3>1 DEF Asked
    <3>2. ASSUME NEW out \in SUBSET Tokens, d = [c EXCEPT !.pc = "post", !.content = content, !.sent = out],
                 content \subseteq out, NoImage(content)
          PROVE  /\ d \in Asked /\ d.pc \in {"extract", "post"} /\ d.prev = prev /\ d.current = now
                 /\ d.content = content /\ d.next = 1 /\ d.got = 0
                 /\ d.pc = "post" => NoImage(d.content) /\ d.content \subseteq d.sent
      BY <1>12, <1>13, <2>3, <3>2 DEF Asked
    <3>3. QED
      BY <2>6, <3>1, <3>2
  <2>8. call'[r] = d /\ \A q \in Turns \ {r} : call'[q] = call[q]
    BY <1>7 DEF ConversationInv, ConversationTypeOK
  <2>9. \A p \in Chain(r)' : ReadIn(call'[p].current) \subseteq ReadIn(content)
    <3>1. CASE prev = NoTurn
      BY <1>7, <2>4, <2>7, <2>8, <3>1, ChainOfNew, ZenonT(60)
    <3>2. CASE prev # NoTurn
      <4>1. Chain(r)' \subseteq Chain(prev) \cup {r}
        BY <1>7, <2>7, <3>2, ChainOfNew
      <4>2. ASSUME NEW p \in Chain(prev), p # r PROVE ReadIn(call'[p].current) \subseteq ReadIn(content)
        <5>1. p \in Turns /\ call'[p] = call[p]
          BY <2>8, <4>2 DEF Chain
        <5>2. ReadIn(call[p].current) \subseteq states[prev]
          BY <2>2, <3>2 DEF Covers
        <5>3. QED
          BY <2>5, <3>2, <5>1, <5>2
      <4>3. QED
        BY <2>4, <2>7, <2>8, <4>1, <4>2
    <3>3. QED
      BY <3>1, <3>2
  <2>10. prev # NoTurn => call'[prev].pc = "done"
    BY <1>11, <2>2, <2>8
  <2>12. TalkOK(r)'
    BY <2>7, <2>8, <2>10, <2>9 DEF TalkOK, Covers
  <2>13. r \notin DOMAIN states
    BY <1>8 DEF ConversationInv, StateOK
  <2>14. StateOK(r)'
    BY <1>8, <2>13 DEF StateOK
  <2>15. QED
    BY <1>7, <1>8, <2>7, <2>12, <2>13, <2>14, OneMoves
<1>16. QED
    BY <1>14, <1>15

\* Its images become texts, or it is refused.
LEMMA ExtractStep ==
    ASSUME ConversationInv, NEW r \in Turns, Extract(r)
    PROVE  ConversationInv'
<1>1. PICK c : c = call[r]
    OBVIOUS
<1>2. PICK content : content = ReadIn(c.content)
    OBVIOUS
<1>3. /\ c \in Asked /\ c.pc = "extract" /\ states' = states
      /\ TalkOK(r) /\ StateOK(r)
    BY <1>1 DEF ConversationInv, ConversationTypeOK, Extract
<1>4. content \in SUBSET Tokens /\ NoImage(content) /\ ReadIn(content) = content
    BY <1>2, <1>3, ReadInFacts DEF Asked
<1>5. \/ call' = [call EXCEPT ![r] = Posted(c, Rebuilt(content), content)]
      \/ call' = [call EXCEPT ![r] = Finished("preprocessing_failed")]
    BY <1>1, <1>2 DEF Extract
<1>6. CASE call' = [call EXCEPT ![r] = Finished("preprocessing_failed")]
    BY <1>1, <1>3, <1>6, FinishStep
<1>7. CASE call' = [call EXCEPT ![r] = Posted(c, Rebuilt(content), content)]
  <2>1. PICK items : items = Rebuilt(content)
    OBVIOUS
  <2>2. items = {[at |-> 1, role |-> "user", parts |-> content]}
    BY <2>1 DEF Rebuilt
  <2>3. /\ \A e \in items : e.parts \in SUBSET Tokens /\ NoImage(e.parts)
        /\ \A t \in content : \E e \in items : t \in e.parts
    BY <1>4, <2>2
  <2>4. \/ Posted(c, items, content) = Finished("guard")
        \/ \E out \in SUBSET Tokens :
             /\ Posted(c, items, content) = [c EXCEPT !.pc = "post", !.content = content, !.sent = out]
             /\ content \subseteq out /\ NoImage(content)
    BY <1>3, <1>4, <2>3, PostedFacts
  <2>5. CASE Posted(c, items, content) = Finished("guard")
    BY <1>1, <1>3, <1>7, <2>1, <2>5, FinishStep
  <2>6. ASSUME NEW out \in SUBSET Tokens,
               Posted(c, items, content) = [c EXCEPT !.pc = "post", !.content = content, !.sent = out],
               content \subseteq out
        PROVE  ConversationInv'
    <3>1. PICK d : d = [c EXCEPT !.pc = "post", !.content = content, !.sent = out]
      OBVIOUS
    <3>2. /\ d \in Asked /\ d.pc = "post" /\ d.prev = c.prev /\ d.current = c.current /\ d.content = content
          /\ d.sent = out /\ d.next = c.next /\ d.got = c.got
      BY <1>3, <1>4, <3>1 DEF Asked
    <3>3. call' = [call EXCEPT ![r] = d]
      BY <1>7, <2>1, <2>6, <3>1
    <3>4. call'[r] = d /\ \A T : Covers(r, T) => \A p \in Chain(r)' : ReadIn(call'[p].current) \subseteq T
      BY <1>1, <3>2, <3>3, KeepStep
    <3>5. \A p \in Chain(r)' : ReadIn(call'[p].current) \subseteq ReadIn(content)
      <4>1. Covers(r, content)
        BY <1>1, <1>2, <1>3 DEF TalkOK
      <4>2. QED
        BY <1>4, <3>4, <4>1
    <3>6. d.prev # NoTurn => call'[d.prev].pc = "done"
      <4>1. d.prev # NoTurn => d.prev \in Turns /\ call[d.prev].pc = "done" /\ d.prev # r
        BY <1>1, <1>3, <3>2 DEF TalkOK, Asked
      <4>2. \A q \in Turns \ {r} : call'[q] = call[q]
        BY <3>3 DEF ConversationInv, ConversationTypeOK
      <4>3. QED
        BY <4>1, <4>2
    <3>7. TalkOK(r)'
      <4>1. d.next = 1 /\ d.got = 0
        BY <1>1, <1>3, <3>2 DEF TalkOK
      <4>2. QED
        BY <1>4, <2>6, <3>2, <3>4, <3>5, <3>6, <4>1 DEF TalkOK, Covers
    <3>8. r \notin DOMAIN states /\ StateOK(r)'
      BY <1>1, <1>3 DEF StateOK
    <3>9. QED
      BY <1>1, <1>3, <3>2, <3>3, <3>7, <3>8, OneMoves
  <2>7. QED
    BY <2>4, <2>5, <2>6
<1>8. QED
    BY <1>5, <1>6, <1>7

\* A request that was answered.
LEMMA DoneFacts ==
    ASSUME NEW c \in Asked
    PROVE  /\ Done(c) \in Asked /\ Done(c).pc = "done" /\ Done(c).prev = c.prev /\ Done(c).current = c.current
           /\ Done(c).got = c.got /\ Done(c).outcome = "completed"
<1>1. PICK d : d = Done(c)
    OBVIOUS
<1>2. /\ d = [pc |-> "done", prev |-> c.prev, current |-> c.current, chat |-> FALSE, stream |-> FALSE,
              instructions |-> {}, content |-> {}, sent |-> {}, next |-> 1, got |-> c.got,
              outcome |-> "completed"]
    BY <1>1 DEF Done, NotAsked
<1>3. d \in Asked
    BY <1>2 DEF Asked
<1>4. QED
    BY <1>1, <1>2, <1>3

\* A request is answered, and its state is recorded or not.
LEMMA AnsweredStep ==
    ASSUME ConversationInv, NEW r \in Turns, call[r].pc \in {"post", "stream"}, NEW c \in Asked,
           c.prev = call[r].prev, c.current = call[r].current, c.got = 1,
           call' = [call EXCEPT ![r] = Done(c)], UNCHANGED states \/ Record(r)
    PROVE  ConversationInv'
<1>1. PICK d \in Asked : /\ d = Done(c) /\ d.pc = "done" /\ d.prev = c.prev /\ d.current = c.current
                         /\ d.got = 1 /\ d.outcome = "completed"
    BY DoneFacts
<1>2. call' = [call EXCEPT ![r] = d] /\ TalkOK(r) /\ StateOK(r) /\ call[r] \in Asked
    BY <1>1 DEF ConversationInv, ConversationTypeOK
<1>3. call'[r] = d /\ \A T : Covers(r, T) => \A p \in Chain(r)' : ReadIn(call'[p].current) \subseteq T
    BY <1>1, <1>2, KeepStep
<1>4. d.prev # NoTurn => call'[d.prev].pc = "done"
  <2>1. d.prev # NoTurn => d.prev \in Turns /\ call[d.prev].pc = "done" /\ d.prev # r
    BY <1>1, <1>2 DEF TalkOK, Asked
  <2>2. \A q \in Turns \ {r} : call'[q] = call[q]
    BY <1>2 DEF ConversationInv, ConversationTypeOK
  <2>3. QED
    BY <2>1, <2>2
<1>5. TalkOK(r)'
    BY <1>1, <1>3, <1>4 DEF TalkOK
<1>6. r \notin DOMAIN states
    BY <1>2 DEF StateOK
<1>7. CASE UNCHANGED states
  <2>1. StateOK(r)'
    BY <1>6, <1>7 DEF StateOK
  <2>2. QED
    BY <1>1, <1>2, <1>5, <1>6, <1>7, <2>1, OneMoves
<1>8. CASE ~(UNCHANGED states)
  <2>1. PICK s : s = Recorded(r)
    OBVIOUS
  <2>2. /\ Cardinality(s) <= MaxText
        /\ states' = [p \in DOMAIN states \cup {r} |-> IF p = r THEN s ELSE states[p]]
    BY <1>8, <2>1 DEF Record
  <2>3. s = ReadIn(call[r].content) /\ s \in SUBSET Tokens /\ \A t \in s : t.kind \in {"text", "read"}
    <3>1. NoImage(call[r].content) /\ call[r].content \in SUBSET Tokens
      BY <1>2 DEF TalkOK, Asked
    <3>2. s = Texts(call[r].content)
      BY <2>1 DEF Recorded
    <3>3. QED
      BY <3>1, <3>2, ReadInFacts DEF Texts
  <2>4. /\ states'[r] = s /\ DOMAIN states' = DOMAIN states \cup {r}
        /\ \A q \in DOMAIN states' \ {r} : states'[q] = states[q]
    BY <2>2
  <2>5. \A p \in Chain(r)' : ReadIn(call'[p].current) \subseteq s
    BY <1>2, <1>3, <2>3 DEF TalkOK
  <2>6. StateOK(r)'
    BY <1>1, <1>3, <2>3, <2>4, <2>5 DEF StateOK, Covers
  <2>7. QED
    BY <1>1, <1>2, <1>5, <2>2, <2>3, <2>4, <2>6, OneMoves
<1>9. QED
    BY <1>7, <1>8

\* A stream begins or goes on.
LEMMA StreamStep ==
    ASSUME ConversationInv, NEW r \in Turns, call[r].pc \in {"post", "stream"}, NEW c \in Asked,
           c.pc = "stream", c.prev = call[r].prev, c.current = call[r].current, c.content = call[r].content,
           c.next \in 1 .. 6, c.got = IF c.next > 2 THEN 1 ELSE 0,
           call' = [call EXCEPT ![r] = c], UNCHANGED states
    PROVE  ConversationInv'
<1>1. TalkOK(r) /\ StateOK(r) /\ call[r] \in Asked
    BY DEF ConversationInv, ConversationTypeOK
<1>2. call'[r] = c /\ \A T : Covers(r, T) => \A p \in Chain(r)' : ReadIn(call'[p].current) \subseteq T
    BY KeepStep
<1>3. c.prev # NoTurn => call'[c.prev].pc = "done"
  <2>1. c.prev # NoTurn => c.prev \in Turns /\ call[c.prev].pc = "done" /\ c.prev # r
    BY <1>1 DEF TalkOK, Asked
  <2>2. \A q \in Turns \ {r} : call'[q] = call[q]
    BY DEF ConversationInv, ConversationTypeOK
  <2>3. QED
    BY <2>1, <2>2
<1>4. \A p \in Chain(r)' : ReadIn(call'[p].current) \subseteq ReadIn(c.content)
    BY <1>1, <1>2 DEF TalkOK
<1>5. NoImage(c.content)
    BY <1>1 DEF TalkOK
<1>6. TalkOK(r)'
    BY <1>2, <1>3, <1>4, <1>5 DEF TalkOK, Covers
<1>7. r \notin DOMAIN states /\ StateOK(r)'
    BY <1>1 DEF StateOK
<1>8. QED
    BY <1>6, <1>7, OneMoves

\* The provider answers.
LEMMA ProviderAnswersStep ==
    ASSUME ConversationInv, NEW r \in Turns, ProviderAnswers(r)
    PROVE  ConversationInv'
<1>1. PICK c : c = call[r]
    OBVIOUS
<1>2. /\ c \in Asked /\ c.pc = "post" /\ TalkOK(r)
      /\ \/ call' = [call EXCEPT ![r] = [c EXCEPT !.pc = "stream", !.sent = {}]] /\ UNCHANGED states
         \/ call' = [call EXCEPT ![r] = Done([c EXCEPT !.got = 1])] /\ Record(r)
    BY <1>1 DEF ConversationInv, ConversationTypeOK, ProviderAnswers
<1>3. CASE call' = [call EXCEPT ![r] = [c EXCEPT !.pc = "stream", !.sent = {}]] /\ UNCHANGED states
  <2>1. PICK d : d = [c EXCEPT !.pc = "stream", !.sent = {}]
    OBVIOUS
  <2>2. /\ d \in Asked /\ d.pc = "stream" /\ d.prev = c.prev /\ d.current = c.current /\ d.content = c.content
        /\ d.next = c.next /\ d.got = c.got
    BY <1>2, <2>1 DEF Asked
  <2>3. d.next = 1 /\ d.got = 0
    BY <1>1, <1>2, <2>2 DEF TalkOK
  <2>4. d.next \in 1 .. 6 /\ d.got = IF d.next > 2 THEN 1 ELSE 0
    BY <2>3
  <2>5. QED
    BY <1>1, <1>2, <1>3, <2>1, <2>2, <2>4, StreamStep, ZenonT(60)
<1>4. CASE call' = [call EXCEPT ![r] = Done([c EXCEPT !.got = 1])] /\ Record(r)
  <2>1. PICK d : d = [c EXCEPT !.got = 1]
    OBVIOUS
  <2>2. d \in Asked /\ d.prev = c.prev /\ d.current = c.current /\ d.got = 1
    BY <1>2, <2>1 DEF Asked
  <2>3. QED
    BY <1>1, <1>2, <1>4, <2>1, <2>2, AnsweredStep
<1>5. QED
    BY <1>2, <1>3, <1>4

\* An event goes to the client.
LEMMA EventStep ==
    ASSUME ConversationInv, NEW r \in Turns, Event(r)
    PROVE  ConversationInv'
<1>1. PICK c : c = call[r]
    OBVIOUS
<1>2. PICK d : d = [c EXCEPT !.next = c.next + 1,
                            !.got = IF Chunks[c.next] \in Shown(c.chat) THEN c.got + 1 ELSE c.got]
    OBVIOUS
<1>3. /\ c \in Asked /\ c.pc = "stream" /\ TalkOK(r) /\ c.next <= LastShown(c.chat)
      /\ call' = [call EXCEPT ![r] = d] /\ UNCHANGED states
    BY <1>1, <1>2 DEF ConversationInv, ConversationTypeOK, Event
<1>4. c.next \in 1 .. 6 /\ c.got = IF c.next > 2 THEN 1 ELSE 0
    BY <1>1, <1>3 DEF TalkOK
<1>5. c.next \in 1 .. 5 /\ (Chunks[c.next] \in Shown(c.chat) <=> c.next = 2)
  <2>1. LastShown(c.chat) <= 5 /\ LastShown(c.chat) \in Nat
    BY DEF LastShown, Chunks
  <2>2. c.next \in 1 .. 5
    BY <1>3, <1>4, <2>1
  <2>3. QED
    BY <2>2 DEF Chunks, Shown
<1>6. /\ d \in Asked /\ d.pc = "stream" /\ d.prev = c.prev /\ d.current = c.current /\ d.content = c.content
      /\ d.next = c.next + 1 /\ d.got = IF c.next = 2 THEN c.got + 1 ELSE c.got
  <2>1. PICK n \in Nat : n = c.next + 1
    BY <1>4
  <2>2. PICK g \in Nat : g = IF c.next = 2 THEN c.got + 1 ELSE c.got
    BY <1>4
  <2>3. d = [c EXCEPT !.next = n, !.got = g]
    BY <1>2, <1>5, <2>1, <2>2
  <2>4. QED
    BY <1>3, <2>1, <2>2, <2>3 DEF Asked
<1>7. d.next \in 1 .. 6 /\ d.got = IF d.next > 2 THEN 1 ELSE 0
    BY <1>4, <1>5, <1>6
<1>8. QED
    BY <1>1, <1>3, <1>6, <1>7, StreamStep

\* The stream is over.
LEMMA StreamIsOverStep ==
    ASSUME ConversationInv, NEW r \in Turns, StreamIsOver(r)
    PROVE  ConversationInv'
<1>1. PICK c : c = call[r]
    OBVIOUS
<1>2. /\ c \in Asked /\ c.pc = "stream" /\ TalkOK(r) /\ c.next > LastShown(c.chat)
      /\ call' = [call EXCEPT ![r] = Done(c)] /\ (UNCHANGED states \/ Record(r))
    BY <1>1 DEF ConversationInv, ConversationTypeOK, StreamIsOver
<1>3. c.got = 1
  <2>1. LastShown(c.chat) >= 4 /\ LastShown(c.chat) \in Nat
    BY DEF LastShown, Chunks
  <2>2. c.next \in 1 .. 6 /\ c.got = IF c.next > 2 THEN 1 ELSE 0
    BY <1>1, <1>2 DEF TalkOK
  <2>3. QED
    BY <1>2, <2>1, <2>2
<1>4. QED
    BY <1>1, <1>2, <1>3, AnsweredStep

\* No answer, or nobody to get it.
LEMMA FailureSteps ==
    ASSUME ConversationInv, NEW r \in Turns, AnswerFails(r) \/ Leave(r)
    PROVE  ConversationInv'
<1>1. CASE AnswerFails(r)
    BY <1>1, FinishStep DEF AnswerFails
<1>2. CASE Leave(r)
    BY <1>2, FinishStep DEF Leave
<1>3. QED
    BY <1>1, <1>2

\* A state expires or makes room.
LEMMA ForgetStep ==
    ASSUME ConversationInv, NEW r \in Turns, Forget(r)
    PROVE  ConversationInv'
<1>1. /\ call' = call /\ DOMAIN states' = DOMAIN states \ {r}
      /\ \A p \in DOMAIN states' : states'[p] = states[p]
    BY DEF Forget
<1>2. \A p \in Turns : Chain(p)' = Chain(p)
    BY <1>1 DEF Chain
<1>3. ConversationTypeOK'
    BY <1>1 DEF ConversationInv, ConversationTypeOK
<1>4. ASSUME NEW p \in Turns PROVE TalkOK(p)' /\ StateOK(p)'
  <2>1. TalkOK(p) /\ StateOK(p)
    BY DEF ConversationInv
  <2>2. \A T : Covers(p, T) => \A q \in Chain(p)' : ReadIn(call'[q].current) \subseteq T
    BY <1>1, <1>2 DEF Covers
  <2>3. TalkOK(p)'
    BY <1>1, <2>1, <2>2 DEF TalkOK, Covers
  <2>4. StateOK(p)'
    BY <1>1, <2>1, <2>2 DEF StateOK, Covers
  <2>5. QED
    BY <2>3, <2>4
<1>5. QED
    BY <1>3, <1>4 DEF ConversationInv

\* The invariant holds at the start.
LEMMA ConversationStart == ConversationInit => ConversationInv
<1> SUFFICES ASSUME ConversationInit PROVE ConversationInv
    OBVIOUS
<1>1. call \in [Turns -> Asked] /\ DOMAIN states = {}
    BY NotAskedFacts DEF ConversationInit
<1>2. \A r \in Turns : call[r].pc = "idle" /\ call[r].prev = NoTurn /\ call[r].next = 1 /\ call[r].got = 0
    BY DEF ConversationInit, NotAsked
<1>3. ConversationTypeOK
    BY <1>1 DEF ConversationTypeOK
<1>4. \A r \in Turns : TalkOK(r) /\ StateOK(r)
    BY <1>1, <1>2 DEF TalkOK, StateOK
<1>5. QED
    BY <1>3, <1>4 DEF ConversationInv

\* A step of something else keeps it.
LEMMA ConversationStutter ==
    ASSUME ConversationInv, UNCHANGED conversationVars
    PROVE  ConversationInv'
<1>1. call' = call /\ states' = states
    BY DEF conversationVars
<1>2. \A p \in Turns : Chain(p)' = Chain(p)
    BY <1>1 DEF Chain
<1>3. ASSUME NEW p \in Turns PROVE TalkOK(p)' /\ StateOK(p)'
  <2>1. TalkOK(p) /\ StateOK(p)
    BY DEF ConversationInv
  <2>2. \A T : Covers(p, T) => \A q \in Chain(p)' : ReadIn(call'[q].current) \subseteq T
    BY <1>1, <1>2, <1>3 DEF Covers
  <2>3. TalkOK(p)'
    BY <1>1, <2>1, <2>2 DEF TalkOK, Covers
  <2>4. StateOK(p)'
    BY <1>1, <2>1, <2>2 DEF StateOK, Covers
  <2>5. QED
    BY <2>3, <2>4
<1>4. QED
    BY <1>1, <1>3 DEF ConversationInv, ConversationTypeOK

\* So does every step.
LEMMA ConversationStep ==
    ASSUME ConversationInv, [ConversationNext]_conversationVars
    PROVE  ConversationInv'
<1>1. CASE UNCHANGED conversationVars
    BY <1>1, ConversationStutter
<1>2. ASSUME NEW r \in Turns, Ask(r) PROVE ConversationInv'
    BY <1>2, AskStep
<1>3. ASSUME NEW r \in Turns, Extract(r) PROVE ConversationInv'
    BY <1>3, ExtractStep
<1>4. ASSUME NEW r \in Turns, ProviderAnswers(r) PROVE ConversationInv'
    BY <1>4, ProviderAnswersStep
<1>5. ASSUME NEW r \in Turns, AnswerFails(r) \/ Leave(r) PROVE ConversationInv'
    BY <1>5, FailureSteps
<1>6. ASSUME NEW r \in Turns, Event(r) PROVE ConversationInv'
    BY <1>6, EventStep
<1>7. ASSUME NEW r \in Turns, StreamIsOver(r) PROVE ConversationInv'
    BY <1>7, StreamIsOverStep
<1>8. ASSUME NEW r \in Turns, Forget(r) PROVE ConversationInv'
    BY <1>8, ForgetStep
<1>9. QED
    BY <1>1, <1>2, <1>3, <1>4, <1>5, <1>6, <1>7, <1>8 DEF ConversationNext

\* It is an invariant.
LEMMA ConversationInvariance == ConversationSpec => []ConversationInv
BY ConversationStart, ConversationStep, PTL DEF ConversationSpec

\* Requests and stored states keep their types, texts their bound.
THEOREM ConversationTypeCorrect == ConversationSpec => []ConversationTypeOK
BY ConversationInvariance, PTL DEF ConversationInv

\* For any number of requests, follow-ups and forgotten states: a request is
\* answered from the current messages of all requests it follows up (not from
\* histories that came with them), a state is one of an answered request, no
\* image goes out, and a client gets the text of an answer once.
THEOREM ConversationsAreKept == ConversationSpec => []ConversationKept
<1>1. ConversationInv => ConversationKept
  <2> SUFFICES ASSUME ConversationInv PROVE ConversationKept
    OBVIOUS
  <2>1. AnswerIsWhole /\ GuardIsLastResort
    BY DEF ConversationInv, TalkOK, AnswerIsWhole, GuardIsLastResort
  <2>2. StateOfAnswered
    BY DEF ConversationInv, ConversationTypeOK, StateOK, StateOfAnswered
  <2>3. ASSUME NEW r \in Turns, call[r].pc = "post", NEW p \in Chain(r)
        PROVE  ReadIn(call[p].current) \subseteq call[r].sent
    <3>1. TalkOK(r) /\ call[r].content \in SUBSET Tokens
      BY DEF ConversationInv, ConversationTypeOK, Asked
    <3>2. ReadIn(call[r].content) \subseteq call[r].content
      BY <2>3, <3>1, ReadInFacts DEF TalkOK
    <3>3. QED
      BY <2>3, <3>1, <3>2 DEF TalkOK, Covers
  <2>4. QED
    BY <2>1, <2>2, <2>3 DEF ConversationKept, CurrentMessagesKept
<1>2. QED
    BY <1>1, ConversationInvariance, PTL

(***************************************************************************)
(* The composition                                                         *)
(***************************************************************************)

\* The parts that do not run stay as they began.
PathInv == GateInv /\ DeliveryInv /\ RateInv /\ ExecutionInv /\ ConversationInv

\* Whichever part runs, the state has its type.
THEOREM PathTypeCorrect == PathSpec => []PathTypeOK
<1>1. PathInit => PathInv
    BY GateStart, DeliveryStart, RateStart, ExecutionStart, ConversationStart DEF PathInit, PathInv
<1>2. ASSUME PathInv, [PathNext]_pathVars
      PROVE  PathInv'
  <2>1. /\ [GateNext]_gateVars /\ [DeliveryNext]_deliveryVars /\ [RateNext]_rateVars
        /\ [ExecutionNext]_executionVars /\ [ConversationNext]_conversationVars
    BY <1>2 DEF PathNext, pathVars
  <2>2. QED
    BY <1>2, <2>1, GateStepInv, DeliveryStep, RateStep, ExecutionStep, ConversationStep DEF PathInv
<1>3. part \in {"gate", "delivery", "rate", "execution", "conversation"} /\ PathInv => PathTypeOK
    BY GateTyped, DeliveryTyped, RateTyped DEF PathInv, PathTypeOK, ExecutionInv, ConversationInv
<1>4. PathInit => part \in {"gate", "delivery", "rate", "execution", "conversation"}
    BY DEF PathInit
<1>5. ASSUME part \in {"gate", "delivery", "rate", "execution", "conversation"}, [PathNext]_pathVars
      PROVE  (part \in {"gate", "delivery", "rate", "execution", "conversation"})'
    BY <1>5 DEF PathNext, pathVars
<1>6. QED
    BY <1>1, <1>2, <1>3, <1>4, <1>5, PTL DEF PathSpec
===============================================================================
