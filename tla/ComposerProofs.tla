---------------------------- MODULE ComposerProofs ----------------------------
(***************************************************************************)
(* Theorems of Composer, for any words, posts, uploads, sizes and bounds.  *)
(*                                                                         *)
(* The types come first.  What is seen is what is posted, and the quote is *)
(* whole, by one induction each; that snippets fit needs the format the    *)
(* picker was told to follow the form's; that the picker works needs every *)
(* answer on its way to hold a picker that does.                           *)
(***************************************************************************)
EXTENDS Composer, WellFoundedInduction, FiniteSetTheorems, TLAPS

-----------------------------------------------------------------------------
(* The ids of the rows                                                     *)

\* A bounded set of numbers that has one has a highest one.
LEMMA BoundedHasMax ==
  ASSUME NEW S \in SUBSET Nat, S # {}, NEW n \in Nat, \A x \in S : x <= n
  PROVE  Max(S) \in S /\ \A x \in S : x <= Max(S)
<1> DEFINE Above == {k \in Nat : \A x \in S : x <= k}
<1>1. Above \subseteq Nat /\ Above # {}
  OBVIOUS
<1>2. PICK m \in Above : \A k \in Above : <<k, m>> \notin OpToRel(<, Nat)
  BY <1>1, NatLessThanWellFounded, WFMin, Zenon
<1>3. \A k \in Above : ~(k < m)
  BY <1>2 DEF OpToRel
<1>4. m \in S
  <2>1. SUFFICES ASSUME m \notin S
                 PROVE  FALSE
    OBVIOUS
  <2>2. \A x \in S : x <= m /\ x # m
    BY <2>1
  <2>3. PICK y : y \in S
    OBVIOUS
  <2>4. m - 1 \in Above
    BY <2>2, <2>3
  <2> QED
    BY <1>3, <2>4
<1>5. \A y \in S : m >= y
  OBVIOUS
<1>6. Max(S) \in S /\ \A y \in S : Max(S) >= y
  BY <1>4, <1>5, Zenon DEF Max
<1> QED
  BY <1>6

\* The highest id is one of the ids, or 0 where there is none.
LEMMA HighestId ==
  ASSUME NEW R, R \subseteq [id : 1 .. MaxItems, size : Sizes]
  PROVE  /\ Ids(R) \subseteq 1 .. MaxItems
         /\ Max({0} \union Ids(R)) \in IF Ids(R) = {} THEN {0} ELSE Ids(R)
         /\ \A r \in R : r.id # 1 + Max({0} \union Ids(R))
<1> DEFINE S == {0} \union Ids(R)
<1>1. Ids(R) \subseteq 1 .. MaxItems
  BY DEF Ids
<1>2. S \in SUBSET Nat /\ S # {} /\ MaxItems \in Nat /\ \A x \in S : x <= MaxItems
  BY <1>1, ComposerAssumption
<1>3. Max(S) \in S /\ \A x \in S : x <= Max(S)
  <2> HIDE DEF S
  <2> QED
    BY <1>2, BoundedHasMax
<1>4. \A r \in R : r.id \in S
  BY DEF Ids
<1>5. \A r \in R : r.id <= Max(S)
  BY <1>3, <1>4
<1>6. Max(S) \in Nat
  BY <1>2, <1>3
<1>7. ASSUME NEW r \in R
      PROVE  r.id # 1 + Max(S)
  <2> HIDE DEF S
  <2>1. r.id \in Nat /\ r.id <= Max(S)
    BY <1>2, <1>4, <1>5
  <2>2. \A m \in Nat : r.id <= m => r.id # 1 + m
    BY <2>1
  <2> QED
    BY <1>6, <2>1, <2>2
<1>8. Max(S) \in IF Ids(R) = {} THEN {0} ELSE Ids(R)
  BY <1>1, <1>2, <1>3, <1>6
<1> QED
  BY <1>1, <1>7, <1>8

\* A picker that lists the rows works, with its first option selected.
LEMMA ListedWorks ==
  ASSUME TypeOK
  PROVE  Listed(media) \in Picker /\ Works(Listed(media))
<1>1. media \subseteq [id : 1 .. MaxItems, size : Sizes]
  BY DEF TypeOK
<1>2. /\ Ids(media) \subseteq 1 .. MaxItems
      /\ Max({0} \union Ids(media)) \in IF Ids(media) = {} THEN {0} ELSE Ids(media)
  BY <1>1, HighestId
<1>3. Max({0} \union Ids(media)) \in -1 .. MaxItems
  BY <1>2, ComposerAssumption
<1> QED
  BY <1>2, <1>3 DEF Listed, Picker, Works

\* The row of an upload: its id is new, and the picker that lists it and selects it works.
LEMMA UploadedWorks ==
  ASSUME TypeOK, NEW n \in Sizes, NewId <= MaxItems
  PROVE  /\ Added(n) \subseteq [id : 1 .. MaxItems, size : Sizes]
         /\ \A r, s \in Added(n) : r.id = s.id => r = s
         /\ [items |-> Ids(Added(n)), selected |-> NewId] \in Picker
         /\ Works([items |-> Ids(Added(n)), selected |-> NewId])
<1> DEFINE row == [id |-> NewId, size |-> n]
<1>1. /\ media \subseteq [id : 1 .. MaxItems, size : Sizes]
      /\ \A r, s \in media : r.id = s.id => r = s
  BY DEF TypeOK
<1>2. /\ Ids(media) \subseteq 1 .. MaxItems
      /\ Max({0} \union Ids(media)) \in IF Ids(media) = {} THEN {0} ELSE Ids(media)
      /\ \A r \in media : r.id # NewId
  BY <1>1, HighestId DEF NewId
<1>3. NewId \in 1 .. MaxItems
  BY <1>2, ComposerAssumption DEF NewId
<1>4. row.id = NewId /\ row \in [id : 1 .. MaxItems, size : Sizes]
  BY <1>3
<1>5. Added(n) = media \union {row}
  BY DEF Added
<1> HIDE DEF row
<1>6. /\ Added(n) \subseteq [id : 1 .. MaxItems, size : Sizes]
      /\ \A r, s \in Added(n) : r.id = s.id => r = s
  <2>1. Added(n) \subseteq [id : 1 .. MaxItems, size : Sizes]
    BY <1>1, <1>4, <1>5, Zenon
  <2>2. \A r, s \in Added(n) : r.id = s.id => r = s
    BY <1>1, <1>2, <1>4, <1>5, Zenon
  <2> QED
    BY <2>1, <2>2
<1>7. NewId \in Ids(Added(n)) /\ Ids(Added(n)) \subseteq 1 .. MaxItems
  BY <1>4, <1>5, <1>6 DEF Ids
<1>8. NewId \in -1 .. MaxItems
  BY <1>3, ComposerAssumption
<1> QED
  BY <1>6, <1>7, <1>8 DEF Picker, Works

\* An error in place of the picker is still a picker to the types.
LEMMA BrokenTyped == Broken \in Picker
  BY ComposerAssumption DEF Broken, Picker

-----------------------------------------------------------------------------
(* Types                                                                   *)

\* What the form shows after a change is what it was changed to.
LEMMA BecomesTyped ==
  ASSUME TypeOK, NEW T \in SUBSET Piece, Becomes(T)
  PROVE  /\ area' \subseteq Piece
         /\ editor' \in [on : BOOLEAN, doc : SUBSET Piece]
         /\ editor'.on = editor.on
         /\ Shows' = T
  BY DEF TypeOK, Becomes, Copied, Shows

LEMMA ShowsTyped == TypeOK => Shows \subseteq Piece
  BY DEF TypeOK, Shows

\* The steps of the form keep the types.
LEMMA FormTypes ==
  ASSUME TypeOK,
         \/ Open \/ Upgrade \/ Type \/ InsertSnippet \/ ClearQuote
         \/ \E fmt \in {"bbcode", "html", "markdown"} : SetFormat(fmt)
         \/ \E i \in picker.items : Select(i)
         \/ \E p \in Posts : QuotePost(p)
  PROVE  TypeOK'
<1>1. CASE Open
  <2>1. Listed(media) \in Picker
    BY ListedWorks
  <2>2. uploads' \in [Uploads -> {Idle, Failed} \union AtServer \union Answered]
    <3>1. SUFFICES ASSUME NEW u \in Uploads
                   PROVE  uploads'[u] \in {Idle, Failed} \union AtServer \union Answered
      BY <1>1 DEF Open
    <3>2. uploads'[u] = IF uploads[u].pc \in {"answered", "failed"} THEN Idle
                        ELSE IF uploads[u] = Idle THEN Idle
                        ELSE [uploads[u] EXCEPT !.here = FALSE]
      BY <1>1 DEF Open
    <3>3. CASE uploads[u] \in AtServer
      BY <3>2, <3>3 DEF AtServer
    <3>4. CASE uploads[u] \in {Idle, Failed} \union Answered
      BY <3>2, <3>4 DEF Idle, Failed, Answered
    <3> QED
      BY <3>3, <3>4 DEF TypeOK
  <2>3. /\ form' \in Forms /\ format' \in Formats(form') /\ area' \subseteq Piece
        /\ mediaFormat' \in {"bbcode", "html", "markdown"}
    BY <1>1 DEF Open, Opened, Formats, Piece
  <2> QED
    BY <1>1, <2>1, <2>2, <2>3 DEF Open, TypeOK, NoEditor
<1>2. CASE Upgrade
  BY <1>2 DEF Upgrade, TypeOK, quote
<1>3. CASE Type
  <2>1. PICK T \in SUBSET Piece : Becomes(T)
    BY <1>3, ShowsTyped DEF Type, Piece
  <2> QED
    BY <1>3, <2>1, BecomesTyped DEF Type, TypeOK, quote
<1>4. CASE InsertSnippet
  <2>1. Syntax \in {"bbcode", "html"} /\ format \in {"bbcode", "html", "markdown"}
    BY DEF Syntax, TypeOK, Formats
  <2>2. [syntax |-> Syntax, format |-> format] \in Piece
    BY <2>1 DEF Piece, Snippet
  <2>3. PICK T \in SUBSET Piece : Becomes(T)
    BY <1>4, <2>2 DEF InsertSnippet, TypeOK
  <2> QED
    BY <1>4, <2>3, BecomesTyped DEF InsertSnippet, TypeOK, quote
<1>5. CASE ClearQuote
  BY <1>5 DEF ClearQuote, Cleared, TypeOK, text
<1>6. CASE \E fmt \in {"bbcode", "html", "markdown"} : SetFormat(fmt)
  BY <1>6 DEF SetFormat, TypeOK, text, quote
<1>7. CASE \E i \in picker.items : Select(i)
  <2>1. picker' \in Picker
    BY <1>7, ComposerAssumption DEF Select, TypeOK, Picker
  <2> QED
    BY <1>7, <2>1 DEF Select, TypeOK, text, quote
<1>8. CASE \E p \in Posts : QuotePost(p)
  BY <1>8 DEF QuotePost, TypeOK, text
<1> QED
  BY <1>1, <1>2, <1>3, <1>4, <1>5, <1>6, <1>7, <1>8

\* The steps of the uploads keep the types.
LEMMA UploadTypes ==
  ASSUME TypeOK,
         \/ Restart
         \/ \E r \in media : DeleteMedia(r)
         \/ \E u \in Uploads :
              \/ \E size \in Sizes : UploadClick(u, size)
              \/ UploadArrive(u) \/ UploadCheck(u) \/ UploadWrite(u) \/ UploadAnswer(u)
              \/ UploadFailed(u) \/ UploadLost(u)
  PROVE  TypeOK'
<1> DEFINE States == {Idle, Failed} \union AtServer \union Answered
<1>1. CASE Restart
  <2>1. uploads' \in [Uploads -> States]
    <3>1. SUFFICES ASSUME NEW u \in Uploads
                   PROVE  uploads'[u] \in States
      BY <1>1 DEF Restart
    <3> QED
      BY <1>1 DEF Restart, TypeOK
  <2> QED
    BY <1>1, <2>1 DEF Restart, TypeOK, text, quote
<1>2. CASE \E r \in media : DeleteMedia(r)
  BY <1>2 DEF DeleteMedia, TypeOK, text, quote
<1>3. ASSUME NEW u \in Uploads, uploads[u].pc \in {"sent", "arrived", "write"}
      PROVE  uploads[u] \in AtServer
  BY <1>3 DEF TypeOK, Idle, Failed, Answered
<1>4. ASSUME NEW u \in Uploads, uploads[u] \in AtServer, NEW ok \in BOOLEAN, NEW P \in Picker
      PROVE  (IF uploads[u].here THEN [pc |-> "answered", ok |-> ok, picker |-> P] ELSE Idle)
               \in States
  BY DEF Answered
<1>5. ASSUME NEW u \in Uploads, NEW r \in States, Set(u, r),
             UNCHANGED <<form, format, text, quote>>,
             mediaFormat' = mediaFormat, picker' \in Picker,
             media' \subseteq [id : 1 .. MaxItems, size : Sizes],
             \A a, b \in media' : a.id = b.id => a = b
      PROVE  TypeOK'
  BY <1>5 DEF Set, TypeOK, text, quote
<1>6. picker \in Picker /\ media \subseteq [id : 1 .. MaxItems, size : Sizes]
      /\ \A a, b \in media : a.id = b.id => a = b
  BY DEF TypeOK
<1>7. CASE \E u \in Uploads : \E size \in Sizes : UploadClick(u, size)
  <2>1. PICK u \in Uploads, size \in Sizes : UploadClick(u, size)
    BY <1>7
  <2>2. [pc |-> "sent", size |-> size, here |-> TRUE] \in States
    BY DEF AtServer
  <2> QED
    BY <1>5, <1>6, <2>1, <2>2 DEF UploadClick
<1>8. CASE \E u \in Uploads : UploadArrive(u)
  <2>1. PICK u \in Uploads : UploadArrive(u)
    BY <1>8
  <2>2. uploads[u] \in AtServer
    BY <1>3, <2>1 DEF UploadArrive
  <2>3. [uploads[u] EXCEPT !.pc = "arrived"] \in States
    BY <2>2 DEF AtServer
  <2>4. PICK r \in States : Set(u, r)
    BY <1>4, <2>1, <2>2, <2>3, BrokenTyped DEF UploadArrive, Answer
  <2> QED
    BY <1>5, <1>6, <2>1, <2>4 DEF UploadArrive
<1>9. CASE \E u \in Uploads : UploadCheck(u)
  <2>1. PICK u \in Uploads : UploadCheck(u)
    BY <1>9
  <2>2. uploads[u] \in AtServer
    BY <1>3, <2>1 DEF UploadCheck
  <2>3. [uploads[u] EXCEPT !.pc = "write"] \in States
    BY <2>2 DEF AtServer
  <2>4. PICK r \in States : Set(u, r)
    BY <1>4, <2>1, <2>2, <2>3, BrokenTyped DEF UploadCheck, Answer
  <2> QED
    BY <1>5, <1>6, <2>1, <2>4 DEF UploadCheck
<1>10. CASE \E u \in Uploads : UploadWrite(u)
  <2>1. PICK u \in Uploads : UploadWrite(u)
    BY <1>10
  <2>2. uploads[u] \in AtServer /\ uploads[u].size \in Sizes
    BY <1>3, <2>1 DEF UploadWrite, AtServer
  <2>3. CASE /\ NewId <= MaxItems
             /\ media' = Added(uploads[u].size)
             /\ Answer(u, TRUE, [items |-> Ids(Added(uploads[u].size)), selected |-> NewId])
    <3>1. /\ Added(uploads[u].size) \subseteq [id : 1 .. MaxItems, size : Sizes]
          /\ \A r, s \in Added(uploads[u].size) : r.id = s.id => r = s
          /\ [items |-> Ids(Added(uploads[u].size)), selected |-> NewId] \in Picker
      BY <2>2, <2>3, UploadedWorks
    <3>2. PICK r \in States : Set(u, r)
      BY <1>4, <2>2, <2>3, <3>1 DEF Answer
    <3> QED
      BY <1>5, <1>6, <2>1, <2>3, <3>1, <3>2 DEF UploadWrite
  <2>4. CASE media' = media /\ Answer(u, FALSE, Broken)
    <3>1. PICK r \in States : Set(u, r)
      BY <1>4, <2>2, <2>4, BrokenTyped DEF Answer
    <3> QED
      BY <1>5, <1>6, <2>1, <2>4, <3>1 DEF UploadWrite
  <2> QED
    BY <2>1, <2>3, <2>4 DEF UploadWrite
<1>11. CASE \E u \in Uploads : UploadAnswer(u)
  <2>1. PICK u \in Uploads : UploadAnswer(u)
    BY <1>11
  <2>2. uploads[u] \in Answered
    BY <2>1 DEF UploadAnswer, TypeOK, Idle, Failed, AtServer
  <2>3. picker' \in Picker /\ Idle \in States
    BY <1>6, <2>1, <2>2 DEF UploadAnswer, Replaced, Answered
  <2> QED
    BY <1>5, <1>6, <2>1, <2>3 DEF UploadAnswer, FormatKept
<1>12. CASE \E u \in Uploads : UploadFailed(u) \/ UploadLost(u)
  <2>1. PICK u \in Uploads : UploadFailed(u) \/ UploadLost(u)
    BY <1>12
  <2>2. PICK r \in States : Set(u, r)
    BY <2>1 DEF UploadFailed, UploadLost
  <2> QED
    BY <1>5, <1>6, <2>1, <2>2 DEF UploadFailed, UploadLost
<1> QED
  BY <1>1, <1>2, <1>7, <1>8, <1>9, <1>10, <1>11, <1>12

LEMMA InitTypes == Init => TypeOK
<1> SUFFICES ASSUME Init
             PROVE  TypeOK
  OBVIOUS
<1>1. media = {} /\ picker = Listed({})
  BY DEF Init
<1>2. Listed({}) \in Picker
  <2>1. {} \subseteq [id : 1 .. MaxItems, size : Sizes]
    OBVIOUS
  <2>2. Ids({}) = {}
    BY DEF Ids
  <2>3. Max({0} \union Ids({})) = 0
    BY <2>1, <2>2, HighestId
  <2> QED
    BY <2>2, <2>3, ComposerAssumption DEF Listed, Picker
<1>3. /\ form \in Forms /\ format \in Formats(form) /\ area \subseteq Piece
      /\ mediaFormat \in {"bbcode", "html", "markdown"}
  BY DEF Init, Opened, Formats, Piece
<1> QED
  BY <1>1, <1>2, <1>3 DEF Init, TypeOK, NoEditor

\* Every variable keeps its type; in particular an editor stands only in the form of a page
\* and a quote only in that of a reply, and no two rows of media share an id.
THEOREM TypeCorrect == Spec => []TypeOK
<1>1. TypeOK /\ [Next]_vars => TypeOK'
  <2>1. TypeOK /\ Next => TypeOK'
    BY FormTypes, UploadTypes DEF Next
  <2>2. TypeOK /\ UNCHANGED vars => TypeOK'
    BY DEF TypeOK, vars, text, quote
  <2> QED
    BY <2>1, <2>2
<1> QED
  BY <1>1, InitTypes, PTL DEF Spec

-----------------------------------------------------------------------------
(* What the member sees                                                    *)

\* What would be posted is what is seen, whenever the editor took the text area's place and
\* whatever was typed or inserted before and after.
THEOREM EditorShown == Spec => []FormIsShown
<1>1. Init => FormIsShown
  BY DEF Init, NoEditor, FormIsShown
<1>2. TypeOK /\ FormIsShown /\ [Next]_vars => FormIsShown'
  <2> SUFFICES ASSUME TypeOK, FormIsShown, [Next]_vars
               PROVE  FormIsShown'
    OBVIOUS
  <2>1. CASE Open
    BY <2>1 DEF Open, NoEditor, FormIsShown
  <2>2. CASE Upgrade
    BY <2>2 DEF Upgrade, FormIsShown
  <2>3. CASE Type \/ InsertSnippet
    <3>1. \E T : Becomes(T)
      BY <2>3 DEF Type, InsertSnippet
    <3> QED
      BY <3>1 DEF Becomes, Copied, FormIsShown, TypeOK
  <2>4. CASE UNCHANGED text
    BY <2>4 DEF text, FormIsShown
  <2> QED
    BY <2>1, <2>2, <2>3, <2>4 DEF Next, vars, ClearQuote, Restart, SetFormat, Select, QuotePost,
       DeleteMedia, UploadClick, UploadArrive, UploadCheck, UploadWrite, UploadAnswer,
       UploadFailed, UploadLost
<1> QED
  BY <1>1, <1>2, TypeCorrect, PTL DEF Spec

\* The fields that go out and the quote that is shown are set and cleared together.
THEOREM QuoteIsWhole == Spec => []QuoteWhole
<1>1. Init => QuoteWhole
  BY DEF Init, QuoteWhole
<1>2. TypeOK /\ QuoteWhole /\ [Next]_vars => QuoteWhole'
  <2> SUFFICES ASSUME TypeOK, QuoteWhole, [Next]_vars
               PROVE  QuoteWhole'
    OBVIOUS
  <2>1. CASE Open
    BY <2>1 DEF Open, QuoteWhole
  <2>2. CASE \E p \in Posts : QuotePost(p)
    BY <2>2 DEF QuotePost, QuoteWhole
  <2>3. CASE ClearQuote
    BY <2>3 DEF ClearQuote, Cleared, QuoteWhole, TypeOK
  <2>4. CASE UNCHANGED quote
    BY <2>4 DEF quote, QuoteWhole
  <2> QED
    BY <2>1, <2>2, <2>3, <2>4 DEF Next, vars, Upgrade, Type, InsertSnippet, Restart, SetFormat,
       Select, DeleteMedia, UploadClick, UploadArrive, UploadCheck, UploadWrite, UploadAnswer,
       UploadFailed, UploadLost
<1> QED
  BY <1>1, <1>2, TypeCorrect, PTL DEF Spec

-----------------------------------------------------------------------------
(* Snippets                                                                *)

\* what the picker was told agrees with the format of the form, as far as snippets go
Told == form # "edit" => (mediaFormat = "bbcode" <=> format = "bbcode")

LEMMA ToldStep ==
  ASSUME TypeOK, Told, [Next]_vars
  PROVE  Told'
<1>1. CASE Open
  BY <1>1, ComposerAssumption DEF Open, Opened, Formats, Told
<1>2. CASE \E fmt \in {"bbcode", "html", "markdown"} : SetFormat(fmt)
  BY <1>2 DEF SetFormat, Told, TypeOK, Formats
<1>3. CASE UNCHANGED <<form, format, mediaFormat>>
  BY <1>3 DEF Told
<1> QED
  BY <1>1, <1>2, <1>3 DEF Next, vars, Upgrade, Type, InsertSnippet, ClearQuote, QuotePost, Restart,
     Select, DeleteMedia, UploadClick, UploadArrive, UploadCheck, UploadWrite, UploadAnswer,
     FormatKept, UploadFailed, UploadLost

LEMMA FitStep ==
  ASSUME TypeOK, Told, SnippetFits, [Next]_vars
  PROVE  SnippetFits'
<1> DEFINE Fitting(T) == \A s \in T \intersect Snippet :
                           form # "edit" => (s.syntax = "bbcode" <=> s.format = "bbcode")
<1>1. Fitting(Shows)
  BY DEF SnippetFits
<1>2. CASE Open
  <2>1. Shows' \subseteq Words
    BY <1>2 DEF Open, Opened, NoEditor, Shows
  <2> QED
    BY <2>1, WordsAssumption DEF SnippetFits
<1>3. ASSUME NEW T \in SUBSET Piece, Becomes(T), form' = form, Fitting(T)
      PROVE  SnippetFits'
  BY <1>3, BecomesTyped DEF SnippetFits
<1>4. CASE Type
  <2>1. PICK T \in SUBSET Piece : Becomes(T) /\ Fitting(T)
    <3>1. CASE \E w \in Words : Becomes(Shows \union {w})
      <4>1. PICK w \in Words : Becomes(Shows \union {w})
        BY <3>1
      <4>2. w \notin Snippet /\ Shows \union {w} \in SUBSET Piece
        BY ShowsTyped, WordsAssumption DEF Piece
      <4> QED
        BY <1>1, <4>1, <4>2
    <3>2. CASE \E p \in Shows : Becomes(Shows \ {p})
      BY <1>1, <3>2, ShowsTyped
    <3> QED
      BY <1>4, <3>1, <3>2 DEF Type
  <2> QED
    BY <1>3, <1>4, <2>1 DEF Type
<1>5. CASE InsertSnippet
  <2> DEFINE s == [syntax |-> Syntax, format |-> format]
  <2>1. /\ s \in Piece
        /\ form # "edit" => (s.syntax = "bbcode" <=> s.format = "bbcode")
    BY DEF Syntax, Told, TypeOK, Formats, Piece, Snippet
  <2>2. PICK T \in SUBSET Shows : Becomes(T \union {s})
    BY <1>5 DEF InsertSnippet, Shows
  <2>3. T \union {s} \in SUBSET Piece /\ Fitting(T \union {s})
    <3> HIDE DEF s
    <3> QED
      BY <1>1, <2>1, ShowsTyped
  <2> QED
    BY <1>3, <1>5, <2>2, <2>3 DEF InsertSnippet
<1>6. CASE Upgrade
  BY <1>6 DEF Upgrade, SnippetFits, Shows
<1>7. CASE UNCHANGED <<form, text>>
  BY <1>7 DEF text, SnippetFits, Shows
<1> QED
  BY <1>2, <1>4, <1>5, <1>6, <1>7 DEF Next, vars, ClearQuote, QuotePost, Restart, SetFormat,
     Select, DeleteMedia, UploadClick, UploadArrive, UploadCheck, UploadWrite, UploadAnswer,
     UploadFailed, UploadLost

\* Outside the form that edits a post every snippet is in a syntax of the format the form had
\* when it went in, however often formats changed and pickers were replaced.
THEOREM SnippetsFit == Spec => []SnippetFits
<1>1. Init => Told /\ SnippetFits
  <2> SUFFICES ASSUME Init
               PROVE  Told /\ SnippetFits
    OBVIOUS
  <2>1. Shows \subseteq Words
    BY DEF Init, Opened, NoEditor, Shows
  <2>2. Told
    BY ComposerAssumption DEF Init, Opened, Formats, Told
  <2> QED
    BY <2>1, <2>2, WordsAssumption DEF SnippetFits
<1>2. TypeOK /\ Told /\ SnippetFits /\ [Next]_vars => (Told /\ SnippetFits)'
  BY ToldStep, FitStep
<1> QED
  BY <1>1, <1>2, TypeCorrect, PTL DEF Spec

-----------------------------------------------------------------------------
(* The picker                                                              *)

\* an answer that was accepted brings a picker that works
Working == \A u \in Uploads :
             uploads[u].pc = "answered" /\ uploads[u].ok => Works(uploads[u].picker)

LEMMA AnswersWork ==
  ASSUME TypeOK, Working, [Next]_vars
  PROVE  Working'
<1>1. ASSUME NEW u \in Uploads, NEW r, Set(u, r),
             r.pc = "answered" /\ r.ok => Works(r.picker)
      PROVE  Working'
  <2>1. \A v \in Uploads : uploads'[v] = IF v = u THEN r ELSE uploads[v]
    BY <1>1 DEF Set, TypeOK
  <2> QED
    BY <1>1, <2>1 DEF Working
<1>2. ASSUME NEW u \in Uploads, Answer(u, FALSE, Broken)
      PROVE  Working'
  <2>1. PICK r : Set(u, r) /\ (r = Idle \/ r.ok = FALSE)
    BY <1>2 DEF Answer
  <2> QED
    BY <1>1, <2>1 DEF Idle
<1>3. CASE Open
  <2>1. \A u \in Uploads : uploads'[u].pc = "answered" => uploads[u].pc = "answered"
                                                        /\ uploads'[u] = uploads[u]
    <3>1. SUFFICES ASSUME NEW u \in Uploads
                   PROVE  uploads'[u].pc # "answered"
      OBVIOUS
    <3>2. uploads'[u] = IF uploads[u].pc \in {"answered", "failed"} THEN Idle
                        ELSE IF uploads[u] = Idle THEN Idle
                        ELSE [uploads[u] EXCEPT !.here = FALSE]
      BY <1>3 DEF Open
    <3>3. CASE uploads[u] \in AtServer
      BY <3>2, <3>3 DEF AtServer, Idle
    <3>4. CASE uploads[u] \in {Idle, Failed} \union Answered
      BY <3>2, <3>4 DEF Idle, Failed, Answered
    <3> QED
      BY <3>3, <3>4 DEF TypeOK
  <2> QED
    BY <2>1 DEF Working
<1>4. CASE Restart
  BY <1>4 DEF Restart, Failed, Idle, Working
<1>5. ASSUME NEW u \in Uploads, \E size \in Sizes : UploadClick(u, size)
      PROVE  Working'
  BY <1>1, <1>5 DEF UploadClick
<1>6. ASSUME NEW u \in Uploads, UploadArrive(u) \/ UploadCheck(u)
      PROVE  Working'
  <2>1. uploads[u] \in AtServer
    <3>1. uploads[u].pc \in {"sent", "arrived"}
      BY <1>6 DEF UploadArrive, UploadCheck
    <3>2. uploads[u] \in {Idle, Failed} \union AtServer \union Answered
      BY <1>6 DEF TypeOK
    <3> QED
      BY <3>1, <3>2 DEF Idle, Failed, Answered
  <2>2. [uploads[u] EXCEPT !.pc = "arrived"].pc = "arrived"
        /\ [uploads[u] EXCEPT !.pc = "write"].pc = "write"
    BY <2>1 DEF AtServer
  <2>3. CASE Answer(u, FALSE, Broken)
    BY <1>2, <2>3
  <2>4. CASE \/ Set(u, [uploads[u] EXCEPT !.pc = "arrived"])
             \/ Set(u, [uploads[u] EXCEPT !.pc = "write"])
    BY <1>1, <2>2, <2>4
  <2> QED
    BY <1>6, <2>3, <2>4 DEF UploadArrive, UploadCheck
<1>7. ASSUME NEW u \in Uploads, UploadWrite(u)
      PROVE  Working'
  <2>1. uploads[u].size \in Sizes
    BY <1>7 DEF UploadWrite, TypeOK, Idle, Failed, Answered, AtServer
  <2> DEFINE P == [items |-> Ids(Added(uploads[u].size)), selected |-> NewId]
  <2>2. CASE NewId <= MaxItems /\ Answer(u, TRUE, P)
    <3>1. Works(P)
      BY <2>1, <2>2, UploadedWorks
    <3> HIDE DEF P
    <3>2. PICK r : Set(u, r) /\ (r = Idle \/ r.picker = P)
      BY <2>2 DEF Answer
    <3> QED
      BY <1>1, <3>1, <3>2 DEF Idle
  <2> QED
    BY <1>2, <1>7, <2>2 DEF UploadWrite
<1>8. ASSUME NEW u \in Uploads, UploadAnswer(u) \/ UploadFailed(u) \/ UploadLost(u)
      PROVE  Working'
  <2>1. PICK r : Set(u, r) /\ (r = Idle \/ r = Failed)
    BY <1>8 DEF UploadAnswer, UploadFailed, UploadLost
  <2> QED
    BY <1>1, <2>1 DEF Idle, Failed
<1>9. CASE UNCHANGED uploads
  BY <1>9 DEF Working
<1> QED
  BY <1>3, <1>4, <1>5, <1>6, <1>7, <1>8, <1>9 DEF Next, vars, Upgrade, Type, InsertSnippet,
     ClearQuote, QuotePost, SetFormat, Select, DeleteMedia

LEMMA PickerStep ==
  ASSUME TypeOK, Working, PickerWorks, [Next]_vars
  PROVE  PickerWorks'
<1>1. CASE Open
  BY <1>1, ListedWorks DEF Open, PickerWorks
<1>2. CASE \E i \in picker.items : Select(i)
  BY <1>2 DEF Select, PickerWorks, Works, TypeOK, Picker
<1>3. CASE \E u \in Uploads : UploadAnswer(u)
  BY <1>3 DEF UploadAnswer, Replaced, Working, PickerWorks
<1>4. CASE UNCHANGED picker
  BY <1>4 DEF PickerWorks
<1> QED
  BY <1>1, <1>2, <1>3, <1>4 DEF Next, vars, Upgrade, Type, InsertSnippet, ClearQuote, QuotePost,
     Restart, SetFormat, DeleteMedia, UploadClick, UploadArrive, UploadCheck, UploadWrite,
     UploadFailed, UploadLost

\* The picker is never an error and always has a selected item where it has any, whatever
\* answers are lost, late or refused.
THEOREM PickerStaysWorking == Spec => []PickerWorks
<1>1. Init => Working /\ PickerWorks
  <2> SUFFICES ASSUME Init
               PROVE  Working /\ PickerWorks
    OBVIOUS
  <2>1. Working
    BY DEF Init, Idle, Working
  <2> QED
    BY <2>1, InitTypes, ListedWorks DEF Init, PickerWorks
<1>2. TypeOK /\ Working /\ PickerWorks /\ [Next]_vars => (Working /\ PickerWorks)'
  BY AnswersWork, PickerStep
<1> QED
  BY <1>1, <1>2, TypeCorrect, PTL DEF Spec


-----------------------------------------------------------------------------
(* The sum of the sizes                                                    *)
(*                                                                         *)
(* Usage is a fold, which takes the rows in an order nobody knows.  These  *)
(* lemmas make it a sum: it is a number, and taking any row out of it      *)
(* takes its size off.  Each is an induction over the finite sets, in the  *)
(* form of a smallest counterexample.                                      *)

\* Of some subsets of a finite set, one has no other in it.
LEMMA SmallestSubset ==
  ASSUME NEW R, IsFiniteSet(R), NEW T \in SUBSET (SUBSET R), T # {}
  PROVE  \E A \in T : \A B \in SUBSET A : B # A => B \notin T
<1>1. IsWellFoundedOn(StrictSubsetOrdering(R), SUBSET R)
  <2>1. IsWellFoundedOn(StrictSubsetOrdering(R), FiniteSubsetsOf(R))
    BY FS_StrictSubsetOrderingWellFounded
  <2>2. FiniteSubsetsOf(R) = SUBSET R
    BY FS_FiniteSubsetsOfFinite
  <2> QED
    BY <2>1, <2>2
<1>2. PICK A \in T : \A B \in T : <<B, A>> \notin StrictSubsetOrdering(R)
  BY <1>1, WFMin, Zenon
<1>3. ASSUME NEW B \in SUBSET A, B # A, B \in T
      PROVE  FALSE
  <2>1. <<B, A>> \in (SUBSET R) \X (SUBSET R) /\ <<B, A>>[1] = B /\ <<B, A>>[2] = A
    BY <1>3
  <2>2. <<B, A>> \in StrictSubsetOrdering(R)
    BY <1>3, <2>1 DEF StrictSubsetOrdering
  <2> QED
    BY <1>2, <1>3, <2>2
<1> QED
  BY <1>3

\* the row a fold takes next, and the function that Usage is the value of
Taken(s) == CHOOSE x \in s : TRUE
Sums(R, g) ==
  g = [s \in SUBSET R |-> IF s = {} THEN 0 ELSE Taken(s).size + g[s \ {Taken(s)}]]

LEMMA UsageIsSum ==
  ASSUME NEW R
  PROVE  Usage(R) = (CHOOSE g : Sums(R, g))[R]
BY Zenon DEF Usage, FoldSet, MapThenFoldSet, Sums, Taken

\* What is taken leaves less.
LEMMA TakenLeaves ==
  ASSUME NEW s, s # {}
  PROVE  Taken(s) \in s /\ s \ {Taken(s)} \subseteq s /\ s \ {Taken(s)} # s
BY DEF Taken

\* Two such functions agree where both are defined.
LEMMA SumsAgree ==
  ASSUME NEW R, IsFiniteSet(R), NEW A \in SUBSET R, NEW g, Sums(A, g), NEW h, Sums(R, h)
  PROVE  \A s \in SUBSET A : g[s] = h[s]
<1> DEFINE Bad == {s \in SUBSET A : g[s] # h[s]}
<1>1. SUFFICES ASSUME Bad # {} PROVE FALSE
  OBVIOUS
<1>2. Bad \in SUBSET (SUBSET R)
  OBVIOUS
<1>3. PICK s \in Bad : \A t \in SUBSET s : t # s => t \notin Bad
  <2> HIDE DEF Bad
  <2> QED
    BY <1>1, <1>2, SmallestSubset
<1>4. /\ g[s] = IF s = {} THEN 0 ELSE Taken(s).size + g[s \ {Taken(s)}]
      /\ h[s] = IF s = {} THEN 0 ELSE Taken(s).size + h[s \ {Taken(s)}]
  <2>1. s \in SUBSET A /\ s \in SUBSET R
    OBVIOUS
  <2> HIDE DEF Bad
  <2> QED
    BY <2>1 DEF Sums
<1>5. s # {}
  BY <1>4
<1>6. g[s \ {Taken(s)}] = h[s \ {Taken(s)}]
  BY <1>3, <1>5, TakenLeaves
<1> QED
  BY <1>4, <1>5, <1>6

\* There is such a function.
LEMMA SumsExist ==
  ASSUME NEW R, IsFiniteSet(R)
  PROVE  \E g : Sums(R, g)
<1> DEFINE Bad == {s \in SUBSET R : ~\E g : Sums(s, g)}
<1>1. SUFFICES ASSUME Bad # {} PROVE FALSE
  OBVIOUS
<1>2. PICK A \in Bad : \A t \in SUBSET A : t # A => t \notin Bad
  <2>1. Bad \in SUBSET (SUBSET R)
    OBVIOUS
  <2> HIDE DEF Bad
  <2> QED
    BY <1>1, <2>1, SmallestSubset
<1> DEFINE fn(s) == CHOOSE g : Sums(s, g)
           G == [s \in SUBSET A |-> IF s = {} THEN 0
                                    ELSE Taken(s).size + fn(s \ {Taken(s)})[s \ {Taken(s)}]]
<1>3. A \in SUBSET R
  OBVIOUS
<1>4. ASSUME NEW t \in SUBSET A, t # A
      PROVE  Sums(t, fn(t))
  <2>1. \E g : Sums(t, g)
    BY <1>2, <1>3, <1>4
  <2> QED
    BY <2>1
<1>5. ASSUME NEW s \in SUBSET A, s # {}
      PROVE  G[s \ {Taken(s)}] = fn(s \ {Taken(s)})[s \ {Taken(s)}]
  <2> DEFINE q == s \ {Taken(s)}
             p == q \ {Taken(q)}
  <2>1. q \in SUBSET A /\ q # A
    BY <1>5, TakenLeaves
  <2>2. Sums(q, fn(q))
    BY <1>4, <2>1
  <2>3. fn(q)[q] = IF q = {} THEN 0 ELSE Taken(q).size + fn(q)[p]
    <3> HIDE DEF fn, q
    <3> QED
      BY <2>2 DEF Sums
  <2>4. G[q] = IF q = {} THEN 0 ELSE Taken(q).size + fn(p)[p]
    <3> HIDE DEF fn, q
    <3> QED
      BY <2>1
  <2>5. ASSUME q # {}
        PROVE  fn(p)[p] = fn(q)[p]
    <3>1. p \in SUBSET q /\ p \in SUBSET A /\ p # A
      BY <2>1, <2>5, TakenLeaves
    <3>2. Sums(p, fn(p))
      BY <1>4, <3>1
    <3>3. IsFiniteSet(q)
      BY <1>3, <2>1, FS_Subset
    <3> HIDE DEF fn, q, p
    <3> QED
      BY <2>2, <3>1, <3>2, <3>3, SumsAgree
  <2> HIDE DEF fn, G, p
  <2> QED
    BY <2>3, <2>4, <2>5
<1>6. Sums(A, G)
  <2>1. ASSUME NEW s \in SUBSET A
        PROVE  G[s] = IF s = {} THEN 0 ELSE Taken(s).size + G[s \ {Taken(s)}]
    <3>1. G[s] = IF s = {} THEN 0 ELSE Taken(s).size + fn(s \ {Taken(s)})[s \ {Taken(s)}]
      <4> HIDE DEF fn
      <4> QED
        BY <2>1
    <3> HIDE DEF fn, G
    <3> QED
      BY <1>5, <2>1, <3>1
  <2>2. G = [s \in SUBSET A |-> G[s]]
    <3> HIDE DEF fn
    <3> QED
      OBVIOUS
  <2> HIDE DEF fn, G
  <2> QED
    BY <2>1, <2>2 DEF Sums
<1> HIDE DEF G
<1> QED
  BY <1>6

\* So the fold unfolds: nothing takes no space, and the row that is taken adds its size to
\* that of the others.
LEMMA UsageUnfolds ==
  ASSUME NEW R, IsFiniteSet(R)
  PROVE  Usage(R) = IF R = {} THEN 0 ELSE Taken(R).size + Usage(R \ {Taken(R)})
<1> DEFINE fn(s) == CHOOSE g : Sums(s, g)
<1>1. ASSUME NEW s \in SUBSET R
      PROVE  Sums(s, fn(s))
  <2>1. \E g : Sums(s, g)
    BY <1>1, FS_Subset, SumsExist
  <2> QED
    BY <2>1
<1>2. Sums(R, fn(R))
  BY <1>1
<1>3. \A s : Usage(s) = fn(s)[s]
  BY UsageIsSum
<1> HIDE DEF fn
<1>4. fn(R)[R] = IF R = {} THEN 0 ELSE Taken(R).size + fn(R)[R \ {Taken(R)}]
  BY <1>2 DEF Sums
<1>5. ASSUME R # {}
      PROVE  fn(R \ {Taken(R)})[R \ {Taken(R)}] = fn(R)[R \ {Taken(R)}]
  <2> DEFINE q == R \ {Taken(R)}
  <2>1. q \in SUBSET R
    OBVIOUS
  <2> HIDE DEF q
  <2>2. fn(q)[q] = fn(R)[q]
    BY <1>1, <1>2, <2>1, SumsAgree
  <2> QED
    BY <2>2 DEF q
<1> QED
  BY <1>3, <1>4, <1>5

\* The usage is a number.
LEMMA UsageNumber ==
  ASSUME NEW R, IsFiniteSet(R), \A r \in R : r.size \in Nat
  PROVE  Usage(R) \in Nat
<1> DEFINE Bad == {s \in SUBSET R : Usage(s) \notin Nat}
<1>1. SUFFICES ASSUME Bad # {} PROVE FALSE
  OBVIOUS
<1>2. PICK A \in Bad : \A t \in SUBSET A : t # A => t \notin Bad
  <2>1. Bad \in SUBSET (SUBSET R)
    OBVIOUS
  <2> HIDE DEF Bad
  <2> QED
    BY <1>1, <2>1, SmallestSubset
<1>3. A \in SUBSET R /\ Usage(A) \notin Nat
  OBVIOUS
<1>4. Usage(A) = IF A = {} THEN 0 ELSE Taken(A).size + Usage(A \ {Taken(A)})
  BY <1>3, FS_Subset, UsageUnfolds
<1>5. A # {}
  BY <1>3, <1>4
<1>6. Taken(A).size \in Nat
  BY <1>3, <1>5, TakenLeaves
<1>7. Usage(A \ {Taken(A)}) \in Nat
  BY <1>2, <1>3, <1>5, TakenLeaves
<1> QED
  BY <1>3, <1>4, <1>5, <1>6, <1>7

\* Taking a row out, whichever, takes off its size.
LEMMA UsageWithout ==
  ASSUME NEW R, IsFiniteSet(R), \A r \in R : r.size \in Nat, NEW x \in R
  PROVE  Usage(R) = x.size + Usage(R \ {x})
<1> DEFINE Bad == {s \in SUBSET R : \E y \in s : Usage(s) # y.size + Usage(s \ {y})}
<1>1. SUFFICES ASSUME Bad # {} PROVE FALSE
  OBVIOUS
<1>2. PICK A \in Bad : \A t \in SUBSET A : t # A => t \notin Bad
  <2>1. Bad \in SUBSET (SUBSET R)
    OBVIOUS
  <2> HIDE DEF Bad
  <2> QED
    BY <1>1, <2>1, SmallestSubset
<1>3. A \in SUBSET R /\ IsFiniteSet(A)
  BY FS_Subset
<1>4. PICK y \in A : Usage(A) # y.size + Usage(A \ {y})
  OBVIOUS
<1> DEFINE c == Taken(A)
<1>5. c \in A
  BY <1>4, TakenLeaves
<1>6. Usage(A) = c.size + Usage(A \ {c})
  BY <1>3, <1>4, UsageUnfolds
<1>7. c # y
  BY <1>4, <1>6
<1> DEFINE B == A \ {c, y}
<1>8. Usage(A \ {c}) = y.size + Usage(B)
  <2>1. A \ {c} \in SUBSET A /\ A \ {c} # A /\ y \in A \ {c} /\ (A \ {c}) \ {y} = B
    BY <1>5, <1>7
  <2>2. A \ {c} \in SUBSET R /\ A \ {c} \notin Bad
    BY <1>2, <1>3, <2>1
  <2> HIDE DEF c, B
  <2> QED
    BY <2>1, <2>2
<1>9. Usage(A \ {y}) = c.size + Usage(B)
  <2>1. A \ {y} \in SUBSET A /\ A \ {y} # A /\ c \in A \ {y} /\ (A \ {y}) \ {c} = B
    BY <1>5, <1>7
  <2>2. A \ {y} \in SUBSET R /\ A \ {y} \notin Bad
    BY <1>2, <1>3, <2>1
  <2> HIDE DEF c, B
  <2> QED
    BY <2>1, <2>2
<1>10. Usage(B) \in Nat /\ c.size \in Nat /\ y.size \in Nat
  <2>1. B \in SUBSET R /\ IsFiniteSet(B)
    BY <1>3, FS_Subset
  <2>2. \A r \in B : r.size \in Nat
    BY <2>1
  <2> HIDE DEF B
  <2>3. Usage(B) \in Nat
    BY <2>1, <2>2, UsageNumber
  <2> QED
    BY <1>3, <1>5, <2>3
<1> HIDE DEF c, B, Bad
<1> QED
  BY <1>4, <1>6, <1>8, <1>9, <1>10

-----------------------------------------------------------------------------
(* The quota                                                               *)

\* the rows are within the quota, also with the file that is being written, of which there is
\* one at most
IQuota ==
  /\ IsFiniteSet(media)
  /\ Usage(media) <= Quota
  /\ \A u \in Uploads : uploads[u].pc = "write" => Usage(media) + uploads[u].size <= Quota
  /\ \A u, v \in Uploads : uploads[u].pc = "write" /\ uploads[v].pc = "write" => u = v

\* What is under way at the server has a size, a number.
LEMMA ServerSize ==
  ASSUME TypeOK, NEW u \in Uploads, uploads[u].pc \in {"sent", "arrived", "write"}
  PROVE  uploads[u] \in AtServer /\ uploads[u].size \in Nat
<1>1. uploads[u] \in {Idle, Failed} \union AtServer \union Answered
  BY DEF TypeOK
<1>2. Idle.pc = "idle" /\ Failed.pc = "failed" /\ \A a \in Answered : a.pc = "answered"
  BY DEF Idle, Failed, Answered
<1>3. uploads[u] \in AtServer
  BY <1>1, <1>2
<1>4. uploads[u].size \in Sizes
  BY <1>3 DEF AtServer
<1> QED
  BY <1>3, <1>4, ComposerAssumption

\* A step that writes no row and starts to write no file.
LEMMA QuotaCarried ==
  ASSUME IQuota, UNCHANGED media,
         \A u \in Uploads : uploads'[u].pc = "write" => uploads'[u] = uploads[u]
  PROVE  IQuota'
BY DEF IQuota

\* One upload goes on, not to the writing.
LEMMA QuotaSet ==
  ASSUME TypeOK, IQuota, UNCHANGED media, NEW u \in Uploads, NEW r, Set(u, r), r.pc # "write"
  PROVE  IQuota'
<1>1. \A v \in Uploads : uploads'[v] = IF v = u THEN r ELSE uploads[v]
  BY DEF Set, TypeOK
<1> QED
  BY <1>1, QuotaCarried

\* An answer is no writing.
LEMMA AnswerSets ==
  ASSUME NEW u \in Uploads, NEW ok, NEW P, Answer(u, ok, P)
  PROVE  \E r : Set(u, r) /\ r.pc # "write"
<1>1. Idle.pc # "write" /\ [pc |-> "answered", ok |-> ok, picker |-> P].pc # "write"
  BY DEF Idle
<1> QED
  BY <1>1 DEF Answer

\* Opening a form and a restart write nothing.
LEMMA QuotaElsewhere ==
  ASSUME TypeOK, IQuota, Open \/ Restart
  PROVE  IQuota'
<1>1. CASE Open
  <2>1. ASSUME NEW u \in Uploads
        PROVE  /\ uploads'[u].pc = "write" <=> uploads[u].pc = "write"
               /\ uploads'[u].pc = "write" => uploads'[u].size = uploads[u].size
    <3>1. uploads'[u] = IF uploads[u].pc \in {"answered", "failed"} THEN Idle
                        ELSE IF uploads[u] = Idle THEN Idle
                        ELSE [uploads[u] EXCEPT !.here = FALSE]
      BY <1>1 DEF Open
    <3>2. CASE uploads[u] \in AtServer
      <4>1. uploads'[u] = [uploads[u] EXCEPT !.here = FALSE]
        BY <3>1, <3>2 DEF AtServer, Idle
      <4> QED
        BY <3>2, <4>1 DEF AtServer
    <3>3. CASE uploads[u] \in {Idle, Failed} \union Answered
      BY <3>1, <3>3 DEF Idle, Failed, Answered
    <3> QED
      BY <3>2, <3>3 DEF TypeOK
  <2>2. UNCHANGED media
    BY <1>1 DEF Open
  <2> QED
    BY <2>1, <2>2 DEF IQuota
<1>2. CASE Restart
  <2>1. \A u \in Uploads : uploads'[u].pc # "write"
    BY <1>2 DEF Restart, Failed, Idle
  <2> QED
    BY <1>2, <2>1, QuotaCarried DEF Restart
<1> QED
  BY <1>1, <1>2

\* An upload is let through only when nothing else is being written, so that the usage it was
\* compared with is still that of the rows when its own is inserted.
LEMMA QuotaStep ==
  ASSUME TypeOK, IQuota, [Next]_vars
  PROVE  IQuota'
<1>1. /\ \A r \in media : r.size \in Nat
      /\ IsFiniteSet(media)
      /\ Usage(media) \in Nat
  <2>1. \A r \in media : r.size \in Nat
    BY ComposerAssumption DEF TypeOK
  <2> QED
    BY <2>1, UsageNumber DEF IQuota
<1>2. CASE \E r \in media : DeleteMedia(r)
  <2>1. PICK r \in media : DeleteMedia(r)
    BY <1>2
  <2>2. Usage(media) = r.size + Usage(media \ {r})
    BY <1>1, UsageWithout
  <2>3. IsFiniteSet(media \ {r})
    BY <1>1, FS_RemoveElement
  <2>4. Usage(media \ {r}) \in Nat /\ r.size \in Nat
    BY <1>1, <2>3, UsageNumber
  <2>5. Usage(media') <= Usage(media) /\ Usage(media') \in Nat /\ IsFiniteSet(media')
    BY <2>1, <2>2, <2>3, <2>4 DEF DeleteMedia
  <2>6. ASSUME NEW u \in Uploads, uploads[u].pc = "write"
        PROVE  Usage(media') + uploads[u].size <= Quota
    <3>1. uploads[u].size \in Nat
      BY <2>6, ServerSize
    <3>2. Usage(media) + uploads[u].size <= Quota
      BY <2>6 DEF IQuota
    <3> QED
      BY <1>1, <2>5, <3>1, <3>2, ComposerAssumption
  <2>7. Usage(media') <= Quota
    <3>1. Usage(media) <= Quota
      BY DEF IQuota
    <3> QED
      BY <1>1, <2>5, <3>1, ComposerAssumption
  <2>8. uploads' = uploads
    BY <2>1 DEF DeleteMedia
  <2> QED
    BY <2>5, <2>6, <2>7, <2>8 DEF IQuota
<1>3. CASE \E u \in Uploads : UploadWrite(u)
  <2>1. PICK u \in Uploads : UploadWrite(u)
    BY <1>3
  <2>2. CASE UNCHANGED media /\ Answer(u, FALSE, Broken)
    BY <2>2, AnswerSets, QuotaSet
  <2>3. CASE /\ NewId <= MaxItems
             /\ media' = Added(uploads[u].size)
             /\ Answer(u, TRUE, [items |-> Ids(Added(uploads[u].size)), selected |-> NewId])
    <3> DEFINE row == [id |-> NewId, size |-> uploads[u].size]
    <3>1. uploads[u].pc = "write" /\ uploads[u].size \in Nat
      BY <2>1, ServerSize DEF UploadWrite
    <3>2. row \notin media
      <4>1. \A r \in media : r.id # NewId
        BY HighestId DEF TypeOK, NewId
      <4> QED
        BY <4>1
    <3>3. media' = media \union {row} /\ row.size = uploads[u].size
      BY <2>3 DEF Added
    <3> HIDE DEF row
    <3>4. IsFiniteSet(media') /\ \A r \in media' : r.size \in Nat
      BY <1>1, <3>1, <3>3, FS_AddElement
    <3>5. Usage(media') = uploads[u].size + Usage(media)
      <4>1. media' \ {row} = media
        BY <3>2, <3>3
      <4>2. Usage(media') = row.size + Usage(media' \ {row})
        BY <3>3, <3>4, UsageWithout
      <4> QED
        BY <3>3, <4>1, <4>2
    <3>6. Usage(media') <= Quota
      BY <1>1, <3>1, <3>5 DEF IQuota
    <3>7. PICK a : Set(u, a) /\ a.pc # "write"
      BY <2>3, AnswerSets
    <3>8. \A v \in Uploads : uploads'[v].pc # "write"
      <4>1. \A v \in Uploads : uploads'[v] = IF v = u THEN a ELSE uploads[v]
        BY <3>7 DEF Set, TypeOK
      <4> QED
        BY <3>1, <3>7, <4>1 DEF IQuota
    <3> QED
      BY <3>4, <3>6, <3>8 DEF IQuota
  <2> QED
    BY <2>1, <2>2, <2>3 DEF UploadWrite
<1>4. CASE \E u \in Uploads : UploadCheck(u)
  <2>1. PICK u \in Uploads : UploadCheck(u)
    BY <1>4
  <2>2. CASE Answer(u, FALSE, Broken)
    BY <2>1, <2>2, AnswerSets, QuotaSet DEF UploadCheck
  <2>3. CASE /\ ~(uploads[u].size > MaxUpload \/ Usage(media) + uploads[u].size > Quota)
             /\ Set(u, [uploads[u] EXCEPT !.pc = "write"])
    <3> DEFINE w == [uploads[u] EXCEPT !.pc = "write"]
    <3>1. uploads[u] \in AtServer
      BY <2>1 DEF UploadCheck, TypeOK, Idle, Failed, Answered
    <3>2. w.size = uploads[u].size /\ uploads[u].size \in Nat
      BY <3>1, ComposerAssumption DEF AtServer
    <3>3. \A v \in Uploads : uploads'[v] = IF v = u THEN w ELSE uploads[v]
      BY <2>3 DEF Set, TypeOK
    <3>4. Usage(media) + w.size <= Quota
      BY <1>1, <2>3, <3>2, ComposerAssumption
    <3>5. \A v \in Uploads : uploads[v].pc # "write"
      BY <2>1 DEF UploadCheck, LoopFree
    <3> HIDE DEF w
    <3> QED
      BY <2>1, <3>3, <3>4, <3>5 DEF IQuota, UploadCheck
  <2> QED
    BY <2>1, <2>2, <2>3 DEF UploadCheck
<1>5. CASE \E u \in Uploads : UploadArrive(u)
  <2>1. PICK u \in Uploads : UploadArrive(u)
    BY <1>5
  <2>2. uploads[u] \in AtServer
    BY <2>1 DEF UploadArrive, TypeOK, Idle, Failed, Answered
  <2>3. [uploads[u] EXCEPT !.pc = "arrived"].pc # "write"
    BY <2>2 DEF AtServer
  <2> QED
    BY <2>1, <2>3, AnswerSets, QuotaSet DEF UploadArrive
<1>6. ASSUME NEW u \in Uploads,
             \/ \E size \in Sizes : UploadClick(u, size)
             \/ UploadAnswer(u) \/ UploadFailed(u) \/ UploadLost(u)
      PROVE  IQuota'
  <2>1. UNCHANGED media /\ \E r : Set(u, r) /\ r.pc # "write"
    <3>1. Idle.pc # "write" /\ Failed.pc # "write"
      BY DEF Idle, Failed
    <3>2. ASSUME NEW size \in Sizes, UploadClick(u, size)
          PROVE  UNCHANGED media /\ \E r : Set(u, r) /\ r.pc # "write"
      <4> DEFINE r == [pc |-> "sent", size |-> size, here |-> TRUE]
      <4>1. UNCHANGED media /\ Set(u, r)
        BY <3>2 DEF UploadClick
      <4>2. r.pc # "write"
        OBVIOUS
      <4> QED
        BY <4>1, <4>2
    <3>3. CASE UploadAnswer(u) \/ UploadFailed(u)
      BY <3>1, <3>3 DEF UploadAnswer, UploadFailed
    <3>4. CASE UploadLost(u)
      <4>1. UNCHANGED media /\ (Set(u, Idle) \/ Set(u, Failed))
        BY <3>4 DEF UploadLost
      <4> QED
        BY <3>1, <4>1
    <3> QED
      BY <1>6, <3>2, <3>3, <3>4
  <2> QED
    BY <2>1, QuotaSet
<1>7. CASE UNCHANGED <<uploads, media>>
  BY <1>7, QuotaCarried
<1> QED
  BY <1>2, <1>3, <1>4, <1>5, <1>6, <1>7, QuotaElsewhere
  DEF Next, vars, Upgrade, Type, InsertSnippet, ClearQuote, QuotePost, SetFormat, Select

\* The rows of a member never take more than the quota, however uploads, deletions and
\* restarts come in between each other: what the routes check is still so when they insert.
THEOREM QuotaIsHeld == Spec => []QuotaHeld
<1>1. Init => IQuota
  <2> SUFFICES ASSUME Init
               PROVE  IQuota
    OBVIOUS
  <2>1. media = {} /\ IsFiniteSet({}) /\ Usage({}) = 0
    BY FS_EmptySet, UsageUnfolds DEF Init
  <2> QED
    BY <2>1, ComposerAssumption DEF Init, Idle, IQuota
<1>2. TypeOK /\ IQuota /\ [Next]_vars => IQuota'
  BY QuotaStep
<1>3. IQuota => QuotaHeld
  BY DEF IQuota, QuotaHeld
<1> QED
  BY <1>1, <1>2, <1>3, TypeCorrect, PTL DEF Spec
=============================================================================
