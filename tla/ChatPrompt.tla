------------------------------ MODULE ChatPrompt ------------------------------
(***************************************************************************)
(* The input of the chat (ai-elements/prompt-input.tsx): the list of the   *)
(* files attached, each behind an object URL that has to be revoked, and   *)
(* submissions, which go on asynchronously: the files are converted, then  *)
(* onSubmit is called, then what was submitted is cleared - while the user *)
(* attaches, removes, types and submits on.                                *)
(*                                                                         *)
(* The component keeps files and text itself or in a PromptInputProvider   *)
(* around it; the two differ in when the text is cleared and in how the    *)
(* number of files is limited.  Types and sizes of files only decide how   *)
(* many of those offered get past the filters.  Files are numbered as they *)
(* come, so the list is the set of its files in ascending order.           *)
(*                                                                         *)
(* What is awaited when the page is left goes on: a submission to its end, *)
(* a screenshot to a list that nobody will clear any more.                 *)
(***************************************************************************)
EXTENDS Integers, FiniteSets

CONSTANTS
  MaxAdded,    \* bound: files ever attached
  MaxTyped,    \* bound: texts ever typed
  Submissions, \* bound: identities of submissions
  MaxFiles,    \* the property maxFiles
  NoCapture    \* no screenshot under way

Files == 1..MaxAdded
NoText == 0

ASSUME PromptAssumption ==
  /\ MaxAdded \in Nat /\ MaxTyped \in Nat /\ MaxFiles \in Nat
  /\ NoCapture \notin Nat

VARIABLES
  provider,    \* usingProvider; the component is not told otherwise later
  files,       \* items, or attachmentFiles of the provider
  url,         \* url[f]: the object URL of f
  typed,       \* the text in the input
  capture,     \* files.length as seen by the screenshot under way
  stage,       \* stage[s]: how far submission s has come
  taken,       \* taken[s]: what s took along, [files, text]
  left,        \* the page was left; files and capture are what closures still hold
  \* ghosts: what became of files, texts and submissions
  removed,     \* removed by the user
  delivered,   \* delivered[s]: the files that s handed to an onSubmit that succeeded
  midway,      \* files and texts that came while a submission was under way
  overlap,     \* overlap[s]: submissions under way when s began
  late,        \* files whose object URL was made after the page was left
  seen,        \* texts typed so far
  replaced,    \* texts typed over
  outdated     \* a screenshot was added against an old number of files

ghosts  == <<removed, delivered, midway, overlap, late, seen, replaced, outdated>>
pvars   == <<provider, files, url, typed, capture, stage, taken, left, ghosts>>

-----------------------------------------------------------------------------
\* State functions

UnderWay == {s \in Submissions : stage[s] \in {"converting", "awaiting"}}

\* The files ever attached are those up to this number.
Attached == CHOOSE n \in 0..MaxAdded : \A f \in Files : url[f] # "none" <=> f <= n

-----------------------------------------------------------------------------
PInit ==
  /\ provider \in BOOLEAN
  /\ files = {} /\ url = [f \in Files |-> "none"]
  /\ typed = NoText /\ capture = NoCapture
  /\ stage = [s \in Submissions |-> "new"]
  /\ taken = [s \in Submissions |-> [files |-> {}, text |-> NoText]]
  /\ left = FALSE
  /\ removed = {} /\ midway = [files |-> {}, texts |-> {}]
  /\ delivered = [s \in Submissions |-> {}] /\ overlap = [s \in Submissions |-> {}]
  /\ late = {} /\ seen = 0 /\ replaced = {} /\ outdated = FALSE

\* Of n files past the filters, as many are attached as count leaves room for.
Attach(n, count) ==
  LET room == IF count > MaxFiles THEN 0 ELSE MaxFiles - count
      new  == Attached + 1 .. Attached + IF n > room THEN room ELSE n IN
  /\ files' = files \cup new
  /\ url' = [f \in Files |-> IF f \in new THEN "live" ELSE url[f]]
  /\ midway' = IF UnderWay = {} THEN midway ELSE [midway EXCEPT !.files = @ \cup new]

\* Files dropped, pasted or picked.  addLocal counts in the updater,
\* addWithProviderValidation the files of the last render: the same here.
Offer(n) ==
  /\ ~left /\ Attached + n <= MaxAdded
  /\ Attach(n, Cardinality(files))
  /\ UNCHANGED <<provider, typed, capture, stage, taken, left,
                 removed, delivered, overlap, late, seen, replaced, outdated>>

\* The screenshot's handler keeps the add of the render it was chosen in.
StartCapture ==
  /\ ~left /\ capture = NoCapture
  /\ capture' = Cardinality(files)
  /\ UNCHANGED <<provider, files, url, typed, stage, taken, left, ghosts>>

\* What a screenshot is counted against.
Counted == IF provider THEN capture ELSE Cardinality(files)

\* captureScreenshot answers with a file ...
Captured ==
  /\ ~left /\ capture # NoCapture /\ Attached < MaxAdded
  /\ Attach(1, Counted)
  /\ outdated' = (outdated \/ Counted < Cardinality(files))
  /\ capture' = NoCapture
  /\ UNCHANGED <<provider, typed, stage, taken, left, removed, delivered, overlap, late, seen, replaced>>

\* ... also after the page was left, when React may still run the updater that
\* makes the URL, but keeps no state for a cleanup to find it in ...
CapturedLate ==
  /\ left /\ capture # NoCapture /\ Attached < MaxAdded
  /\ \/ /\ Counted < MaxFiles
        /\ url' = [url EXCEPT ![Attached + 1] = "live"]
        /\ late' = late \cup {Attached + 1}
     \/ UNCHANGED <<url, late>>
  /\ capture' = NoCapture
  /\ UNCHANGED <<provider, files, typed, stage, taken, left,
                 removed, delivered, midway, overlap, seen, replaced, outdated>>

\* ... or without one, when the user refuses.
CaptureRefused ==
  /\ capture # NoCapture
  /\ capture' = NoCapture
  /\ UNCHANGED <<provider, files, url, typed, stage, taken, left, ghosts>>

\* Mutant: the URL outlives the entry.
RemoveKeepingUrl(f) ==
  /\ files' = files \ {f}
  /\ UNCHANGED url

RemoveFile(f) ==
  /\ files' = files \ {f}
  /\ url' = [url EXCEPT ![f] = "revoked"]

Discard(f) ==
  /\ ~left /\ f \in files
  /\ RemoveFile(f)
  /\ removed' = removed \cup {f}
  /\ UNCHANGED <<provider, typed, capture, stage, taken, left,
                 delivered, midway, overlap, late, seen, replaced, outdated>>

\* Backspace in the empty input
Backspace == typed = NoText /\ \E last \in files : (\A f \in files : f <= last) /\ Discard(last)

Type ==
  /\ ~left /\ seen < MaxTyped
  /\ seen' = seen + 1
  /\ typed' = seen + 1
  /\ replaced' = replaced \cup ({typed} \ {NoText})
  /\ midway' = IF UnderWay = {} THEN midway ELSE [midway EXCEPT !.texts = @ \cup {seen + 1}]
  /\ UNCHANGED <<provider, files, url, capture, stage, taken, left,
                 removed, delivered, overlap, late, outdated>>

\* handleSubmit up to its await.  Without a provider the form is reset at once.
Submit(s) ==
  /\ ~left /\ stage[s] = "new"
  /\ stage' = [stage EXCEPT ![s] = "converting"]
  /\ taken' = [taken EXCEPT ![s] = [files |-> files, text |-> typed]]
  /\ typed' = IF provider THEN typed ELSE NoText
  /\ overlap' = [overlap EXCEPT ![s] = UnderWay]
  /\ UNCHANGED <<provider, files, url, capture, left,
                 removed, delivered, midway, late, seen, replaced, outdated>>

\* clear, and textInput.clear of the provider: all there is now, not only what
\* the submission took along.  Of a page that was left there is nothing.
ClearAll ==
  IF left THEN UNCHANGED <<files, url, typed>>
  ELSE /\ files' = {}
       /\ url' = [f \in Files |-> IF f \in files THEN "revoked" ELSE url[f]]
       /\ typed' = IF provider THEN NoText ELSE typed

Succeed(s) ==
  /\ stage' = [stage EXCEPT ![s] = "done"]
  /\ delivered' = [delivered EXCEPT ![s] = taken[s].files]
  /\ ClearAll

\* Mutant: a failure clears, too.
FailClearing(s) ==
  /\ stage' = [stage EXCEPT ![s] = "failed"]
  /\ ClearAll
  /\ UNCHANGED delivered

\* "Don't clear on error": but without a provider the text has gone already.
Fail(s) ==
  /\ stage' = [stage EXCEPT ![s] = "failed"]
  /\ UNCHANGED <<files, url, typed, delivered>>

\* All files are converted and onSubmit is called: it returns, throws, or
\* answers with a promise.
HandOver(s) ==
  /\ stage[s] = "converting"
  /\ \/ Succeed(s)
     \/ Fail(s)
     \/ /\ stage' = [stage EXCEPT ![s] = "awaiting"]
        /\ UNCHANGED <<files, url, typed, delivered>>
  /\ UNCHANGED <<provider, capture, taken, left, removed, midway, overlap, late, seen, replaced, outdated>>

\* The promise of onSubmit is settled.
Settle(s) ==
  /\ stage[s] = "awaiting"
  /\ Succeed(s) \/ Fail(s)
  /\ UNCHANGED <<provider, capture, taken, left, removed, midway, overlap, late, seen, replaced, outdated>>

\* The cleanup of the page revokes what is listed.
Leave ==
  /\ ~left /\ left' = TRUE
  /\ url' = [f \in Files |-> IF f \in files THEN "revoked" ELSE url[f]]
  /\ typed' = NoText
  /\ UNCHANGED <<provider, files, capture, stage, taken, ghosts>>

PNext ==
  \/ \E n \in 1..2 : Offer(n)
  \/ StartCapture \/ Captured \/ CapturedLate \/ CaptureRefused
  \/ \E f \in Files : Discard(f)
  \/ Backspace
  \/ Type
  \/ \E s \in Submissions : Submit(s) \/ HandOver(s) \/ Settle(s)
  \/ Leave

PSpec == PInit /\ [][PNext]_pvars

-----------------------------------------------------------------------------
\* Properties

\* Each file on the list can be read, and no URL outlives its entry or the page,
\* but for that of a screenshot which was awaited when the page was left.
LiveIffListed == \A f \in Files : url[f] = "live" <=> (f \in files /\ ~left) \/ f \in late

\* A file that has gone was removed by the user, or delivered, or it came while
\* a submission was under way, whose end cleared it away unsent.
NoFileLost ==
  \A f \in Files : url[f] = "revoked" /\ ~left =>
    f \in removed \cup (UNION {delivered[s] : s \in Submissions}) \cup midway.files

\* A file is delivered twice only by submissions that overlapped.
DeliveredOnce ==
  \A s, r \in Submissions : s # r /\ delivered[s] \cap delivered[r] # {}
    => s \in overlap[r] \/ r \in overlap[s]

\* There are no more files than allowed, but for a screenshot in a provider that
\* was counted against the files there were when it was asked for.
FilesLimited == Cardinality(files) <= MaxFiles \/ (provider /\ outdated)

\* A text stays in the input until the user replaces it or an onSubmit that
\* succeeds has it.  In a provider the end of a submission also takes what was
\* typed meanwhile; without one the text of a submission that fails is gone,
\* since the form was reset when it began.
NoTextLost ==
  \A t \in 1..seen :
    \/ left \/ t \in {typed} \cup replaced
    \/ \E s \in Submissions : taken[s].text = t /\ stage[s] \in {"converting", "awaiting", "done"}
    \/ provider /\ t \in midway.texts
    \/ ~provider /\ \E s \in Submissions : taken[s].text = t /\ stage[s] = "failed"

\* What the user entered, files and text, goes out once or stays to be sent again
\* while the page is there, but for what comes amid a submission and, without a
\* provider, for the text of a submission that fails.
GoesOutOnce == NoFileLost /\ NoTextLost /\ DeliveredOnce

\* The list of attachments is in order: every entry readable, nothing held
\* beside it but by a screenshot that came too late, and not too many of them.
FilesInOrder == LiveIffListed /\ FilesLimited
=============================================================================
