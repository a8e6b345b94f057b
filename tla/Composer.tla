------------------------------- MODULE Composer -------------------------------
(***************************************************************************)
(* The forms a member writes in: the reply form and the edit form of the   *)
(* forum with a plain text area, and the form of a page, whose text area a *)
(* CodeMirror editor takes the place of (src/src/codemirror.ts).  All have *)
(* a picker of media snippets with an upload button                        *)
(* (src/src/lib/media.ts), the reply form a quote (src/src/lib/forum.ts).  *)
(* The uploads end in the routes of src/app/routes/media.py, on the loop.  *)
(*                                                                         *)
(* A text is the set of its pieces, a word or a snippet; a snippet is its  *)
(* syntax and the format the form had when it went in.  Left out are the   *)
(* path in it, the buttons that suit an item's type, the preview, and the  *)
(* files behind the rows of media.                                         *)
(***************************************************************************)
EXTENDS Integers, FiniteSetsExt

CONSTANTS
  Forms,      \* the kinds of form that are opened
  Words,      \* what may be typed
  Posts,      \* the posts of the thread
  Uploads,    \* the uploads that may be under way
  Sizes,      \* the sizes of their files
  Empty,      \* the value of an empty field
  MaxUpload,  \* MAX_UPLOAD_BYTES
  Quota,      \* MAX_STORAGE_PER_USER
  MaxPieces,  \* bound of the pieces of a text
  MaxItems    \* bound of the ids of media

ASSUME ComposerAssumption ==
  /\ Forms \subseteq {"reply", "edit", "page"} /\ Forms # {}
  /\ Sizes \subseteq Nat \ {0} /\ MaxUpload \in Nat /\ Quota \in Nat
  /\ MaxPieces \in Nat /\ MaxItems \in Nat

VARIABLES
  form,         \* the kind of form that is open
  format,       \* its content_format
  mediaFormat,  \* _mediaFormat of its text area
  area,         \* the value of the text area
  editor,       \* the CodeMirror editor in its place, with its document
  picker,       \* the options of the media picker and the selected one, or the error in its place
  hidden,       \* the fields quoted_post_id, quoted_content and quoted_author
  banner,       \* the quote preview: is it displayed, and whose post is in it
  uploads,      \* per upload, how far it got
  media         \* the member's rows of media

text == <<area, editor>>
quote == <<hidden, banner>>
vars == <<form, format, mediaFormat, text, picker, quote, uploads, media>>

Idle == [pc |-> "idle"]
Failed == [pc |-> "failed"]
Broken == [items |-> {}, selected |-> -1]
NoEditor == [on |-> FALSE, doc |-> {}]

Formats(f) == IF f = "page" THEN {"html", "markdown"} ELSE {"bbcode", "markdown"}
Snippet == [syntax : {"bbcode", "html"}, format : {"bbcode", "html", "markdown"}]
ASSUME WordsAssumption == Words \intersect Snippet = {}
Piece == Words \union Snippet
Fields == {"id", "content", "author"}
Ids(R) == {r.id : r \in R}

Picker == [items : SUBSET (1 .. MaxItems), selected : -1 .. MaxItems]
AtServer == [pc : {"sent", "arrived", "write"}, size : Sizes, here : BOOLEAN]
Answered == [pc : {"answered"}, ok : BOOLEAN, picker : Picker]

TypeOK ==
  /\ form \in Forms /\ format \in Formats(form)
  /\ mediaFormat \in {"bbcode", "html", "markdown"}
  /\ area \subseteq Piece
  /\ editor \in [on : BOOLEAN, doc : SUBSET Piece]
  /\ editor.on => form = "page"
  /\ picker \in Picker
  /\ hidden \in [Fields -> Posts \union {Empty}]
  /\ banner \in [on : BOOLEAN, of : Posts \union {Empty}]
  /\ banner.on => form = "reply"
  /\ uploads \in [Uploads -> {Idle, Failed} \union AtServer \union Answered]
  /\ media \subseteq [id : 1 .. MaxItems, size : Sizes]
  /\ \A r, s \in media : r.id = s.id => r = s

-----------------------------------------------------------------------------
(* Opening a form.                                                         *)

\* the picker of the template, the newest item first and selected (of two from one second either
\* may be first, as after Select)
Listed(R) == [items |-> Ids(R), selected |-> Max({0} \union Ids(R))]

\* an edit form shows the format of the post, its picker is told "bbcode" all the same
Opened(f, fmt, T) ==
  /\ f \in Forms
  /\ fmt \in IF f = "reply" THEN {"bbcode"} ELSE Formats(f)
  /\ T \in IF f = "reply" THEN {{}} ELSE SUBSET Words

Init ==
  /\ Opened(form, format, area)
  /\ mediaFormat = IF form = "page" THEN "html" ELSE "bbcode"
  /\ editor = NoEditor
  /\ media = {} /\ picker = Listed(media)
  /\ hidden = [x \in Fields |-> Empty] /\ banner = [on |-> FALSE, of |-> Empty]
  /\ uploads = [u \in Uploads |-> Idle]

\* a post that was accepted redirects, a member leaves: the next form begins anew, and nobody
\* waits for the uploads of the old one
Open ==
  /\ \E f \in Forms : \E fmt \in Formats(f), T \in SUBSET Words :
       /\ Opened(f, fmt, T)
       /\ form' = f /\ format' = fmt /\ area' = T
       /\ mediaFormat' = IF f = "page" THEN "html" ELSE "bbcode"
  /\ editor' = NoEditor
  /\ picker' = Listed(media)
  /\ hidden' = [x \in Fields |-> Empty] /\ banner' = [on |-> FALSE, of |-> Empty]
  /\ uploads' = [u \in Uploads |-> IF uploads[u].pc \in {"answered", "failed"} THEN Idle
                                   ELSE IF uploads[u] = Idle THEN Idle
                                   ELSE [uploads[u] EXCEPT !.here = FALSE]]
  /\ UNCHANGED media

-----------------------------------------------------------------------------
(* The text.                                                               *)

\* createEditor, in a module script: the member may have typed before it ran
Upgrade ==
  /\ form = "page"
  /\ ~editor.on
  /\ editor' = [on |-> TRUE, doc |-> area]
  /\ UNCHANGED <<form, format, mediaFormat, area, picker, quote, uploads, media>>

\* Mutant: the editor has no update listener.
CopiedNot(T) == area
\* the update listener copies a changed document to the text area, which is what is posted
Copied(T) == T

\* the member changes what they see
Shows == IF editor.on THEN editor.doc ELSE area
Becomes(T) ==
  /\ Cardinality(T) <= MaxPieces
  /\ IF editor.on THEN editor' = [editor EXCEPT !.doc = T] /\ area' = Copied(T)
                  ELSE area' = T /\ UNCHANGED editor

Type ==
  /\ \/ \E w \in Words : Becomes(Shows \union {w})
     \/ \E p \in Shows : Becomes(Shows \ {p})
  /\ UNCHANGED <<form, format, mediaFormat, picker, quote, uploads, media>>

\* the format's radio buttons or select; only the select tells the picker
SetFormat(fmt) ==
  /\ fmt \in Formats(form)
  /\ format' = fmt
  /\ mediaFormat' = IF form = "page" THEN mediaFormat ELSE fmt
  /\ UNCHANGED <<form, text, picker, quote, uploads, media>>

\* Mutant: the format itself is taken for the syntax.
SyntaxRaw == mediaFormat
Syntax == IF mediaFormat = "bbcode" THEN "bbcode" ELSE "html"

\* insertMediaSnippet: at the cursor of the editor if there is one, else in place of what is
\* selected in the text area; without a select nothing happens
InsertSnippet ==
  /\ picker.selected > 0
  /\ LET s == [syntax |-> Syntax, format |-> format]
     IN  IF editor.on THEN Becomes(editor.doc \union {s})
         ELSE \E gone \in SUBSET area : Becomes((area \ gone) \union {s})
  /\ UNCHANGED <<form, format, mediaFormat, picker, quote, uploads, media>>

Select(i) ==
  /\ i \in picker.items
  /\ picker' = [picker EXCEPT !.selected = i]
  /\ UNCHANGED <<form, format, mediaFormat, text, quote, uploads, media>>

-----------------------------------------------------------------------------
(* The quote of a reply.                                                   *)

QuotePost(p) ==
  /\ form = "reply"
  /\ hidden' = [x \in Fields |-> p]
  /\ banner' = [on |-> TRUE, of |-> p]
  /\ UNCHANGED <<form, format, mediaFormat, text, picker, uploads, media>>

\* Mutant: the post's id is not cleared.
ClearedButId == [hidden EXCEPT !["content"] = Empty, !["author"] = Empty]
Cleared == [x \in Fields |-> Empty]
ClearQuote ==
  /\ banner.on
  /\ hidden' = Cleared
  /\ banner' = [banner EXCEPT !.on = FALSE]
  /\ UNCHANGED <<form, format, mediaFormat, text, picker, uploads, media>>

-----------------------------------------------------------------------------
(* An upload from the picker.                                              *)

Set(u, r) == uploads' = [uploads EXCEPT ![u] = r]
Answer(u, ok, P) ==
  Set(u, IF uploads[u].here THEN [pc |-> "answered", ok |-> ok, picker |-> P] ELSE Idle)

\* quickUploadMedia with a file chosen; without one there is an alert and nothing else
UploadClick(u, size) ==
  /\ uploads[u] = Idle
  /\ picker # Broken
  /\ Set(u, [pc |-> "sent", size |-> size, here |-> TRUE])
  /\ UNCHANGED <<form, format, mediaFormat, text, picker, quote, media>>

\* Mutant: the route runs in a thread of the pool.
LoopShared == TRUE
\* between the SELECT of the usage and the INSERT the routes await nothing
LoopFree == \A u \in Uploads : uploads[u].pc # "write"

\* the route finds its member, who may be signed out, and awaits the body
UploadArrive(u) ==
  /\ uploads[u].pc = "sent"
  /\ LoopFree
  /\ Set(u, [uploads[u] EXCEPT !.pc = "arrived"]) \/ Answer(u, FALSE, Broken)
  /\ UNCHANGED <<form, format, mediaFormat, text, picker, quote, media>>

Usage(R) == FoldSet(LAMBDA r, n : r.size + n, 0, R)

UploadCheck(u) ==
  /\ uploads[u].pc = "arrived"
  /\ LoopFree
  /\ IF uploads[u].size > MaxUpload \/ Usage(media) + uploads[u].size > Quota
     THEN Answer(u, FALSE, Broken)
     ELSE Set(u, [uploads[u] EXCEPT !.pc = "write"])
  /\ UNCHANGED <<form, format, mediaFormat, text, picker, quote, media>>

NewId == 1 + Max({0} \union Ids(media))
Added(size) == media \union {[id |-> NewId, size |-> size]}

\* the file and the row are written and the picker is rendered with the new item selected;
\* or the disk or the database fails
UploadWrite(u) ==
  /\ uploads[u].pc = "write"
  /\ \/ /\ NewId <= MaxItems
        /\ media' = Added(uploads[u].size)
        /\ Answer(u, TRUE, [items |-> Ids(Added(uploads[u].size)), selected |-> NewId])
     \/ /\ media' = media
        /\ Answer(u, FALSE, Broken)
  /\ UNCHANGED <<form, format, mediaFormat, text, picker, quote>>

\* Mutant: the answer's status is not looked at.
ReplacedAnyway(r) == r.picker
\* the picker of the answer takes the place of the old one, an error answer is thrown
Replaced(r) == IF r.ok THEN r.picker ELSE picker

\* Mutant: the script of the new picker runs.
FormatReset(r) == IF r.ok /\ form # "page" THEN "bbcode" ELSE mediaFormat
\* setting outerHTML runs no script: the picker keeps the format it was told
FormatKept(r) == mediaFormat

UploadAnswer(u) ==
  /\ uploads[u].pc = "answered"
  /\ picker' = Replaced(uploads[u])
  /\ mediaFormat' = FormatKept(uploads[u])
  /\ Set(u, Idle)
  /\ UNCHANGED <<form, format, text, quote, media>>

\* Mutant: a request that fails is not caught.
CaughtNot == FALSE
\* catch: an alert
Caught == TRUE
UploadFailed(u) ==
  /\ uploads[u].pc = "failed"
  /\ Caught
  /\ Set(u, Idle)
  /\ UNCHANGED <<form, format, mediaFormat, text, picker, quote, media>>

\* the request or its answer is lost
UploadLost(u) ==
  /\ uploads[u].pc \in {"sent", "answered"}
  /\ Set(u, IF uploads[u].pc = "sent" /\ ~uploads[u].here THEN Idle ELSE Failed)
  /\ UNCHANGED <<form, format, mediaFormat, text, picker, quote, media>>

\* the process stops and starts again
Restart ==
  /\ uploads' = [u \in Uploads |->
                   IF uploads[u].pc \notin {"sent", "arrived", "write"} THEN uploads[u]
                   ELSE IF uploads[u].here THEN Failed ELSE Idle]
  /\ UNCHANGED <<form, format, mediaFormat, text, picker, quote, media>>

\* the media page, in a thread; the picker is not told
DeleteMedia(r) ==
  /\ media' = media \ {r}
  /\ UNCHANGED <<form, format, mediaFormat, text, picker, quote, uploads>>

Next ==
  \/ Open \/ Upgrade \/ Type \/ InsertSnippet \/ ClearQuote \/ Restart
  \/ \E fmt \in {"bbcode", "html", "markdown"} : SetFormat(fmt)
  \/ \E i \in picker.items : Select(i)
  \/ \E p \in Posts : QuotePost(p)
  \/ \E r \in media : DeleteMedia(r)
  \/ \E u \in Uploads :
       \/ \E size \in Sizes : UploadClick(u, size)
       \/ UploadArrive(u) \/ UploadCheck(u) \/ UploadWrite(u) \/ UploadAnswer(u)
       \/ UploadFailed(u) \/ UploadLost(u)

\* the loop serves the requests in the order they become ready, the browser runs its callbacks
Fairness ==
  \A u \in Uploads : /\ SF_vars(UploadArrive(u)) /\ SF_vars(UploadCheck(u))
                     /\ WF_vars(UploadWrite(u)) /\ WF_vars(UploadAnswer(u))
                     /\ WF_vars(UploadFailed(u))

Spec == Init /\ [][Next]_vars
FairSpec == Spec /\ Fairness

-----------------------------------------------------------------------------
(* Properties                                                              *)

\* What would be posted is what the member sees, whether they typed before the editor was there,
\* type in it, or insert snippets (codemirror.ts:64, :73, media.ts:106).
FormIsShown == editor.on => area = editor.doc

\* A snippet is in a syntax that the format of the form understands when it goes in, whatever
\* formats were chosen and pickers replaced before; except in a form that edits a post, whose
\* picker begins with "bbcode" although the post may be in Markdown (templates/forum/edit_post.html).
SnippetFits ==
  \A s \in Shows \intersect Snippet :
    form # "edit" => (s.syntax = "bbcode" <=> s.format = "bbcode")

\* An error never takes the place of the picker, and what is selected in it is one of its
\* options: whatever answers arrive in whatever order (media.ts:32, :37).
Works(P) == P.selected \in IF P.items = {} THEN {0} ELSE P.items
PickerWorks == Works(picker)

\* What goes out as the quote is what the form shows as quoted, all of it or none
\* (forum.ts:47, :69).
QuoteWhole == \A x \in Fields : hidden[x] = IF banner.on THEN banner.of ELSE Empty

\* No uploads together pass MAX_STORAGE_PER_USER, although each reads the usage in one
\* transaction and inserts its row in another (routes/media.py:271, :285).
QuotaHeld == Usage(media) <= Quota

\* Every click on "upload" is answered, by a new picker or by an alert, though requests and
\* answers are lost and the process restarts (media.ts:39); or the member left the form.
UploadAnswered == \A u \in Uploads : uploads[u] # Idle ~> uploads[u] = Idle

=============================================================================
