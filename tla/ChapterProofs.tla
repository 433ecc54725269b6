---------------------------- MODULE ChapterProofs ---------------------------
(***************************************************************************)
(* Proofs about Chapter.tla, for every range of chapters, every set of     *)
(* command lines and any number of kills, errors and runs.                 *)
(*                                                                         *)
(* The code counts files and never looks at their numbers, so that a       *)
(* complete directory has every page is an argument about counting: pages  *)
(* are fetched in order and the ones that are there are passed over, so    *)
(* the indices on disk are always 1..k (Shelf), and k is their number as   *)
(* long as no page had two files and none a file that does not count       *)
(* (the chapters that are not mixed).                                      *)
(***************************************************************************)
EXTENDS Chapter, FiniteSetTheorems, TLAPS

Has(P, i) == \E f \in P : f.index = i

\* The pages 1..k, one file each.
Shelf(P) ==
  /\ \A f, g \in P : f.index = g.index => f = g
  /\ \A f \in P : \A i \in 1..f.index : Has(P, i)

AtWork == {"home", "meta", "page", "write", "zip", "replace"}

ChapterType ==
  /\ TypeOK
  /\ \A c \in Chapters : IsFiniteSet(files[c])
  /\ pc # "off" => args \in Invocations /\ visit \in 1..Len(args.plan)

\* What download_chapter has made sure of, place by place.
Fetched ==
  /\ pc \in {"meta", "page", "write"} => list[Chapter] \in Seq(STRING)
  /\ pc \in {"page", "write", "zip", "replace"} => meta[Chapter] \in Metas
  /\ pc \in {"page", "write"} =>
       /\ meta[Chapter].pages = Len(list[Chapter])
       /\ page >= 1 /\ \A i \in 1..(page - 1) : Present(Chapter, i)
  /\ pc = "write" => /\ page <= Len(list[Chapter])
                     /\ PageFile(FALSE) \in files[Chapter]
  /\ pc \in {"zip", "replace"} => DirComplete(Chapter) /\ ~ZipValid(Chapter)
  /\ pc \in {"zip", "replace"} /\ page = 0 =>
       args.make_zip /\ ~args.no_skip_complete

\* The run counts chapter c among those that are there.
CountedReady(c) ==
  \/ done[c] = "skipped"
  \/ done[c] = "ok" /\ args.make_zip /\ ~args.dry_run /\ Countable(c)

GoodIsValid ==
  pc # "off" =>
    \A c \in Chapters :
      CountedReady(c) /\ ~(Downloading /\ c = Chapter) => ZipValid(c)

\* The chapters before the current one were tried, and a run that ends before
\* the last one had a reason.
Tried ==
  pc # "off" =>
    /\ \A i \in 1..(visit - 1) : done[args.plan[i]] # None
    /\ pc = "exit" /\ args.batch /\ args.continue_on_error =>
         \/ visit = Len(args.plan) /\ done[Chapter] # None
         \/ meta[Chapter] = Torn
         \/ ToZip /\ ~SkipReady

\* What the directory or the zip of a chapter that is not mixed holds is told by
\* its count.
Shelves ==
  \A c \in Chapters \ mixed :
    /\ Shelf(files[c])
    /\ \A f \in files[c] : f.ext \in ImageExt
    /\ zip[c] # None => /\ IsFiniteSet(zip[c].pages)
                        /\ Shelf(zip[c].pages)
                        /\ \A i \in 1..zip[c].meta.pages : Has(zip[c].pages, i)

-----------------------------------------------------------------------------
(* Counting pages.                                                         *)

\* A set with the pages 1..n has at least n files.
LEMMA PagesCount ==
  ASSUME NEW P, IsFiniteSet(P), NEW n \in Nat, \A i \in 1..n : Has(P, i)
  PROVE  Cardinality(P) >= n
<1> DEFINE file == [i \in 1..n |-> CHOOSE f \in P : f.index = i]
<1>1. \A i \in 1..n : file[i] \in P /\ file[i].index = i
  BY DEF Has
<1>2. file \in [1..n -> P]
  BY <1>1
<1> HIDE DEF file
<1>3. file \in Injection(1..n, P)
  BY <1>1, <1>2 DEF Injection, IsInjective
<1>4. Cardinality(1..n) <= Cardinality(P)
  BY <1>3, FS_Injection
<1>5. Cardinality(1..n) = n
  BY FS_Interval
<1>6. QED
  BY <1>4, <1>5, FS_CardinalityType

\* A shelf of at least n files has the pages 1..n.
LEMMA CountedPages ==
  ASSUME NEW P, Shelf(P), \A f \in P : f.index \in Nat \ {0},
         NEW n \in Nat, Cardinality(P) >= n
  PROVE  \A i \in 1..n : Has(P, i)
<1> SUFFICES ASSUME NEW i \in 1..n, ~Has(P, i) PROVE FALSE
  OBVIOUS
<1>1. \A f \in P : f.index \in 1..(i - 1)
  BY DEF Shelf
<1> DEFINE number == [f \in P |-> f.index]
<1>2. number \in Injection(P, 1..(i - 1))
  BY <1>1 DEF Injection, IsInjective, Shelf
<1>3. IsFiniteSet(1..(i - 1)) /\ Cardinality(1..(i - 1)) = i - 1
  BY FS_Interval
<1> HIDE DEF number
<1>4. IsFiniteSet(P) /\ Cardinality(P) <= i - 1
  BY <1>2, <1>3, FS_Injection
<1>5. QED
  BY <1>4, FS_CardinalityType

-----------------------------------------------------------------------------
(* Types, and where a run is in its range.                                 *)

LEMMA WorkPlace ==
  ASSUME ChapterType, pc # "off"
  PROVE  /\ args \in Invocations
         /\ args.plan \in Seq(Chapters) /\ Len(args.plan) \in Nat
         /\ visit \in Nat /\ visit >= 1 /\ visit <= Len(args.plan)
         /\ Chapter \in Chapters
BY ChapterAssumption DEF ChapterType, Chapter

\* The verdict is the current chapter's; the run goes on with the next one or
\* ends.
LEMMA GoOnEffect ==
  ASSUME ChapterType, pc # "off", args' = args, NEW v \in Verdicts, NEW on,
         GoOn(v, on)
  PROVE  /\ done' \in [Chapters -> Verdicts \union {None}]
         /\ done'[Chapter] = v
         /\ \A c \in Chapters : c # Chapter => done'[c] = done[c]
         /\ page' = 0 /\ pc' \in {"look", "exit"}
         /\ pc' = "look" => /\ visit' = visit + 1 /\ visit' \in 1..Len(args.plan)
         /\ pc' = "exit" => visit' = visit
         /\ pc' = "exit" /\ on => visit = Len(args.plan)
<1>1. Chapter \in Chapters /\ done \in [Chapters -> Verdicts \union {None}]
  BY WorkPlace DEF ChapterType, TypeOK
<1>2. /\ visit \in Nat /\ Len(args.plan) \in Nat
      /\ visit >= 1 /\ visit <= Len(args.plan)
  BY WorkPlace
<1>3. /\ done' \in [Chapters -> Verdicts \union {None}]
      /\ done'[Chapter] = v
      /\ \A c \in Chapters : c # Chapter => done'[c] = done[c]
  BY <1>1 DEF GoOn
<1>4. CASE on /\ visit < Len(args.plan)
  BY <1>2, <1>3, <1>4 DEF GoOn
<1>5. CASE ~(on /\ visit < Len(args.plan))
  BY <1>2, <1>3, <1>5 DEF GoOn
<1>6. QED
  BY <1>4, <1>5

LEMMA InitChapterType == Init => ChapterType
BY FS_EmptySet DEF Init, ChapterType, TypeOK

\* The steps that end the visit of a chapter.
Leaves(v, on) == v \in Verdicts /\ GoOn(v, on) /\ args' = args

\* What a file of the current page may be.
LEMMA PageFileType ==
  ASSUME ChapterType, Fetched, pc \in {"page", "write"},
         page <= Len(list[Chapter]), NEW whole \in BOOLEAN
  PROVE  PageFile(whole) \in PageFiles
<1>1. list[Chapter] \in Seq(STRING) /\ page \in Nat /\ page >= 1
  BY DEF Fetched, ChapterType, TypeOK
<1>2. page \in 1..Len(list[Chapter])
  BY <1>1
<1>3. list[Chapter][page] \in STRING
  BY <1>1, <1>2
<1>4. QED
  BY <1>1, <1>3 DEF PageFile, PageFiles

LEMMA NextPageFiles ==
  ASSUME ChapterType, Fetched, NextPage
  PROVE  /\ files' \in [Chapters -> SUBSET PageFiles]
         /\ \A c \in Chapters : IsFiniteSet(files'[c])
         /\ \A c \in Chapters : c # Chapter => files'[c] = files[c]
         /\ \/ files'[Chapter] = files[Chapter]
            \/ /\ ~Present(Chapter, page)
               /\ files'[Chapter] = files[Chapter] \union {PageFile(FALSE)}
<1>1. Chapter \in Chapters /\ files \in [Chapters -> SUBSET PageFiles]
  BY WorkPlace DEF NextPage, ChapterType, TypeOK
<1>2. CASE Present(Chapter, page)
  BY <1>2 DEF NextPage, ChapterType, TypeOK
<1>3. CASE ~Present(Chapter, page)
  <2>1. PageFile(FALSE) \in PageFiles
    BY PageFileType DEF NextPage
  <2>2. files' = [files EXCEPT ![Chapter] = @ \union {PageFile(FALSE)}]
    BY <1>3 DEF NextPage
  <2>3. IsFiniteSet(files[Chapter] \union {PageFile(FALSE)})
    BY <1>1, FS_AddElement DEF ChapterType
  <2>4. QED
    BY <1>1, <1>3, <2>1, <2>2, <2>3 DEF ChapterType
<1>4. QED
  BY <1>2, <1>3

LEMMA WritePageFiles ==
  ASSUME ChapterType, Fetched, WritePage
  PROVE  /\ files' \in [Chapters -> SUBSET PageFiles]
         /\ \A c \in Chapters : IsFiniteSet(files'[c])
         /\ \A c \in Chapters : c # Chapter => files'[c] = files[c]
         /\ files'[Chapter] =
              (files[Chapter] \ {PageFile(FALSE)}) \union {PageFile(TRUE)}
<1>1. Chapter \in Chapters /\ files \in [Chapters -> SUBSET PageFiles]
  BY WorkPlace DEF WritePage, ChapterType, TypeOK
<1>2. PageFile(TRUE) \in PageFiles
  BY PageFileType DEF WritePage, Fetched
<1>3. IsFiniteSet(files[Chapter])
  BY <1>1 DEF ChapterType
<1>4. IsFiniteSet(files[Chapter] \ {PageFile(FALSE)})
  BY <1>3, FS_RemoveElement
<1>5. IsFiniteSet((files[Chapter] \ {PageFile(FALSE)}) \union {PageFile(TRUE)})
  BY <1>4, FS_AddElement
<1>6. QED
  BY <1>1, <1>2, <1>5 DEF WritePage, ChapterType

LEMMA ChapterTypeStep ==
  ASSUME ChapterType, Fetched, [Next]_vars
  PROVE  ChapterType'
<1> USE DEF disk
<1>0. /\ TypeOK /\ \A c \in Chapters : IsFiniteSet(files[c])
  BY DEF ChapterType
<1>1. ASSUME NEW a \in Invocations, Start(a) PROVE ChapterType'
  <2>1. 1 \in 1..Len(a.plan)
    BY ChapterAssumption
  <2>2. QED
    BY <1>1, <2>1 DEF Start, ChapterType, TypeOK
<1>2. ASSUME NEW v, NEW on, Leaves(v, on), pc # "off", UNCHANGED <<meta, files, list, mixed>>,
             zip' \in [Chapters -> Zips \union {None}],
             part' \in [Chapters -> BOOLEAN]
      PROVE  ChapterType'
  BY <1>2, <1>0, GoOnEffect, WorkPlace DEF Leaves, ChapterType, TypeOK
<1>3. CASE Aborts \/ ZipFails \/ Exit \/ Killed \/ BuildZip \/ OpenMeta
  <2>1. CASE Aborts \/ ZipFails \/ Exit \/ Killed
    BY <1>3, <2>1 DEF Aborts, ZipFails, Exit, Killed, Over, ChapterType, TypeOK
  <2>2. CASE BuildZip
    BY <2>2, WorkPlace DEF BuildZip, ChapterType, TypeOK
  <2>3. CASE OpenMeta
    <3>1. Chapter \in Chapters
      BY <2>3, WorkPlace DEF OpenMeta
    <3>2. PICK l \in Lists[Chapter] : list' = [list EXCEPT ![Chapter] = l]
      BY <2>3 DEF OpenMeta
    <3>3. l \in Seq(STRING)
      BY <3>1, ChapterAssumption
    <3>4. list' \in [Chapters -> Seq(STRING) \union {None}]
      BY <1>0, <3>2, <3>3 DEF TypeOK
    <3>5. QED
      BY <1>0, <2>3, <3>1, <3>4 DEF OpenMeta, ChapterType, TypeOK
  <2>4. QED
    BY <1>3, <2>1, <2>2, <2>3
<1>4. CASE Look
  <2>1. CASE pc' \in {"zip", "home"} /\ UNCHANGED <<done, page, visit>>
    BY <1>4, <2>1 DEF Look, ChapterType, TypeOK
  <2>2. CASE GoOn("skipped", TRUE) \/ GoOn("ok", TRUE)
    BY <1>2, <1>4, <2>2 DEF Look, Leaves, Verdicts, ChapterType, TypeOK
  <2>3. QED
    BY <1>4, <2>1, <2>2 DEF Look
<1>5. CASE WriteMeta
  <2>1. Chapter \in Chapters /\ Len(list[Chapter]) \in Nat
    BY <1>5, WorkPlace DEF WriteMeta, Fetched
  <2>2. meta' \in [Chapters -> Metas \union {None, Torn}]
    BY <1>0, <1>5, <2>1 DEF WriteMeta, TypeOK, Metas
  <2>3. QED
    BY <1>5, <2>2 DEF WriteMeta, ChapterType, TypeOK
<1>6. CASE NextPage
  <2>1. ASSUME NEW c \in Chapters, NEW f \in files'[c], NEW g \in files'[c],
               f.index = g.index, f.ext = g.ext
        PROVE  f = g
    <3>1. CASE files'[c] = files[c]
      BY <1>0, <2>1, <3>1 DEF TypeOK
    <3>2. CASE files'[c] # files[c]
      <4>1. c = Chapter /\ ~Present(Chapter, page)
            /\ files'[c] = files[c] \union {PageFile(FALSE)}
        BY <1>6, <3>2, NextPageFiles
      <4>2. \A h \in files[c] : ~(/\ h.index = PageFile(FALSE).index
                                  /\ h.ext = PageFile(FALSE).ext)
        BY <4>1 DEF Present, PageFile
      <4>3. QED
        BY <1>0, <2>1, <4>1, <4>2 DEF TypeOK
    <3>3. QED
      BY <3>1, <3>2
  <2>2. /\ page' \in Nat /\ pc' \in {"page", "write"}
        /\ mixed' \subseteq Chapters
        /\ UNCHANGED <<meta, zip, part, args, visit, list, done>>
    <3>1. page \in Nat
      BY <1>0 DEF TypeOK
    <3>2. CASE Present(Chapter, page)
      BY <1>0, <1>6, <3>1, <3>2 DEF NextPage, TypeOK
    <3>3. CASE ~Present(Chapter, page)
      <4>1. Chapter \in Chapters
        BY <1>6, WorkPlace DEF NextPage
      <4>2. QED
        BY <1>0, <1>6, <3>1, <3>3, <4>1 DEF NextPage, TypeOK
    <3>4. QED
      BY <3>2, <3>3
  <2>3. TypeOK'
    BY <1>0, <1>6, <2>1, <2>2, NextPageFiles DEF TypeOK
  <2>4. QED
    BY <1>6, <2>2, <2>3, NextPageFiles DEF NextPage, ChapterType
<1>7. CASE WritePage
  <2>1. PageFile(FALSE) \in files[Chapter] /\ Chapter \in Chapters
    BY <1>7, WorkPlace DEF WritePage, Fetched
  <2>2. ASSUME NEW c \in Chapters, NEW f \in files'[c], NEW g \in files'[c],
               f.index = g.index, f.ext = g.ext
        PROVE  f = g
    <3>1. CASE c # Chapter
      BY <1>0, <1>7, <2>2, <3>1, WritePageFiles DEF TypeOK
    <3>2. CASE c = Chapter
      <4>1. files'[c] = (files[c] \ {PageFile(FALSE)}) \union {PageFile(TRUE)}
        BY <1>7, <3>2, WritePageFiles
      <4>2. /\ PageFile(TRUE).index = PageFile(FALSE).index
            /\ PageFile(TRUE).ext = PageFile(FALSE).ext
        BY DEF PageFile
      <4>3. \A h \in files[c] \ {PageFile(FALSE)} :
              ~(h.index = PageFile(FALSE).index /\ h.ext = PageFile(FALSE).ext)
        BY <1>0, <2>1, <3>2 DEF TypeOK
      <4>4. QED
        BY <1>0, <2>2, <4>1, <4>2, <4>3 DEF TypeOK
    <3>3. QED
      BY <3>1, <3>2
  <2>3. /\ page' \in Nat /\ pc' = "page"
        /\ UNCHANGED <<meta, zip, part, args, visit, list, done, mixed>>
    BY <1>0, <1>7 DEF WritePage, TypeOK
  <2>4. TypeOK'
    BY <1>0, <1>7, <2>2, <2>3, WritePageFiles DEF TypeOK
  <2>5. QED
    BY <1>7, <2>3, <2>4, WritePageFiles DEF WritePage, ChapterType
<1>8. CASE FinalizeChapter
  <2>1. CASE ZipWanted
    BY <1>8, <2>1 DEF FinalizeChapter, ChapterType, TypeOK
  <2>2. CASE ~ZipWanted
    BY <1>2, <1>8, <2>2 DEF FinalizeChapter, Leaves, Verdicts, ChapterType, TypeOK
  <2>3. QED
    BY <2>1, <2>2
<1>9. CASE ReplaceZip
  <2>1. Chapter \in Chapters
    BY <1>9, WorkPlace DEF ReplaceZip
  <2>2. [meta |-> meta[Chapter], pages |-> PagesOf(Chapter)] \in Zips
    BY <1>9, <2>1 DEF ReplaceZip, Fetched, ChapterType, TypeOK, Zips, PagesOf
  <2>3. /\ zip' \in [Chapters -> Zips \union {None}]
        /\ part' \in [Chapters -> BOOLEAN]
    BY <1>0, <1>9, <2>1, <2>2 DEF ReplaceZip, TypeOK
  <2>4. QED
    BY <1>2, <1>9, <2>3 DEF ReplaceZip, Leaves, Verdicts
<1>10. CASE Fails
  BY <1>2, <1>10 DEF Fails, Downloading, Leaves, Verdicts, ChapterType, TypeOK
<1>11. ASSUME NEW c \in Chapters, DeleteDir(c) PROVE ChapterType'
  BY <1>11, FS_EmptySet DEF DeleteDir, ChapterType, TypeOK
<1>12. CASE UNCHANGED vars
  BY <1>12 DEF vars, ChapterType, TypeOK
<1>13. QED
  BY <1>1, <1>3, <1>4, <1>5, <1>6, <1>7, <1>8, <1>9, <1>10, <1>11, <1>12
     DEF Next, Run

-----------------------------------------------------------------------------
(* What download_chapter has fetched.                                      *)

LEMMA InitFetched == Init => Fetched
BY DEF Init, Fetched

\* Away from a chapter's download there is nothing to keep.
LEMMA NotFetching ==
  ASSUME pc' \in {"off", "look", "home", "exit"}
  PROVE  Fetched'
BY DEF Fetched

\* The pages listed make the directory complete, if each of them counts.
LEMMA FetchedAll ==
  ASSUME ChapterType, Fetched, pc = "page", page > Len(list[Chapter]),
         Countable(Chapter)
  PROVE  DirComplete(Chapter)
<1>1. /\ Chapter \in Chapters /\ meta[Chapter] \in Metas
      /\ list[Chapter] \in Seq(STRING) /\ meta[Chapter].pages = Len(list[Chapter])
  BY WorkPlace DEF Fetched
<1> DEFINE n == meta[Chapter].pages
<1>2. n \in Nat /\ n > 0 /\ meta[Chapter] # None
  <2>1. Len(list[Chapter]) \in Nat /\ Len(list[Chapter]) > 0
    BY <1>1 DEF Countable
  <2>2. QED
    BY <1>1, <2>1, NoneAssumption
<1>3. \A i \in 1..n : Has(PagesOf(Chapter), i)
  <2>1. \A i \in 1..n : i \in 1..(page - 1)
    BY <1>1, <1>2 DEF ChapterType, TypeOK
  <2>2. \A i \in 1..n : list[Chapter][i] \in ImageExt
    BY <1>1 DEF Countable
  <2>3. QED
    BY <2>1, <2>2 DEF Fetched, Present, Has, PagesOf
<1>4. IsFiniteSet(PagesOf(Chapter))
  BY <1>1, FS_Subset DEF ChapterType, PagesOf
<1>5. QED
  BY <1>2, <1>3, <1>4, PagesCount DEF DirComplete

LEMMA FetchedStep ==
  ASSUME ChapterType, Fetched, [Next]_vars
  PROVE  Fetched'
<1> USE DEF disk
<1>1. CASE pc' \in {"off", "look", "home", "exit"}
  BY <1>1, NotFetching
<1>2. ASSUME UNCHANGED <<meta, files, zip, args, visit, page, list, pc>>
      PROVE  Fetched'
  BY <1>2 DEF Fetched, Chapter, Present, PageFile, DirComplete, PagesOf,
              ZipValid, ExpectedPages
<1>3. CASE Look /\ pc' = "zip"
  <2>1. ~SkipReady /\ ToZip /\ Readable
    BY <1>3 DEF Look, GoOn
  <2>2. DirComplete(Chapter) /\ ~ZipValid(Chapter) /\ meta[Chapter] # Torn
    BY <2>1 DEF SkipReady, ToZip, Readable
  <2>3. meta[Chapter] \in Metas
    BY <1>3, <2>2, WorkPlace DEF Look, DirComplete, ChapterType, TypeOK
  <2>4. UNCHANGED <<meta, files, zip, args, visit>>
    BY <1>3 DEF Look, GoOn
  <2>5. args.make_zip /\ ~args.no_skip_complete
    BY <2>1 DEF ToZip
  <2>6. QED
    BY <1>3, <2>2, <2>3, <2>4, <2>5
       DEF Fetched, Chapter, DirComplete, PagesOf, ZipValid, ExpectedPages
<1>4. CASE WriteMeta
  <2>1. /\ Chapter \in Chapters /\ list[Chapter] \in Seq(STRING)
        /\ Len(list[Chapter]) \in Nat
    BY <1>4, WorkPlace DEF WriteMeta, Fetched
  <2>2. /\ Chapter' = Chapter /\ list' = list /\ page' = 1 /\ pc' = "page"
        /\ meta'[Chapter] = [pages |-> Len(list[Chapter])]
    BY <1>4, <2>1 DEF WriteMeta, Chapter, ChapterType, TypeOK
  <2>3. QED
    BY <2>1, <2>2 DEF Fetched, Metas
<1>5. CASE NextPage
  <2>1. /\ Chapter \in Chapters /\ meta[Chapter] \in Metas /\ page \in Nat
        /\ list[Chapter] \in Seq(STRING)
        /\ meta[Chapter].pages = Len(list[Chapter])
    BY <1>5, WorkPlace DEF NextPage, Fetched, ChapterType, TypeOK
  <2>2. UNCHANGED <<meta, args, visit, list>> /\ Chapter' = Chapter
    BY <1>5 DEF NextPage, Chapter
  <2>3. CASE Present(Chapter, page)
    <3>1. page' = page + 1 /\ pc' = "page" /\ files' = files
      BY <1>5, <2>3 DEF NextPage
    <3>2. \A i \in 1..(page' - 1) : i = page \/ i \in 1..(page - 1)
      BY <2>1, <3>1
    <3>3. \A i \in 1..(page' - 1) : Present(Chapter, i)
      BY <1>5, <2>3, <3>2 DEF NextPage, Fetched
    <3>4. page' >= 1
      BY <1>5, <2>1, <3>1 DEF NextPage, Fetched
    <3>5. QED
      BY <2>1, <2>2, <3>1, <3>3, <3>4 DEF Fetched, Present
  <2>4. CASE ~Present(Chapter, page)
    <3>1. /\ page' = page /\ pc' = "write"
          /\ files'[Chapter] = files[Chapter] \union {PageFile(FALSE)}
      BY <1>5, <2>1, <2>4 DEF NextPage, ChapterType, TypeOK
    <3>2. \A i \in 1..(page - 1) : Present(Chapter, i)
      BY <1>5 DEF NextPage, Fetched
    <3>3. \A i \in 1..(page - 1) : Present(Chapter, i)'
      BY <2>2, <3>1, <3>2 DEF Present
    <3>4. PageFile(FALSE)' = PageFile(FALSE)
      BY <2>2, <3>1 DEF PageFile
    <3>5. page >= 1 /\ page <= Len(list[Chapter])
      BY <1>5 DEF NextPage, Fetched
    <3>6. QED
      BY <2>1, <2>2, <3>1, <3>3, <3>4, <3>5 DEF Fetched
  <2>5. QED
    BY <2>3, <2>4
<1>6. CASE WritePage
  <2>1. /\ Chapter \in Chapters /\ meta[Chapter] \in Metas /\ page \in Nat
        /\ page >= 1 /\ list[Chapter] \in Seq(STRING)
        /\ meta[Chapter].pages = Len(list[Chapter])
    BY <1>6, WorkPlace DEF WritePage, Fetched, ChapterType, TypeOK
  <2>2. /\ UNCHANGED <<meta, args, visit, list>> /\ Chapter' = Chapter
        /\ page' = page + 1 /\ pc' = "page"
    BY <1>6 DEF WritePage, Chapter
  <2>3. /\ PageFile(TRUE) \in files'[Chapter]
        /\ \A f \in files[Chapter] : f = PageFile(FALSE) \/ f \in files'[Chapter]
    BY <1>6, WritePageFiles
  <2>4. \A w \in BOOLEAN : /\ PageFile(w).index = page
                           /\ PageFile(w).ext = list[Chapter][page]
    BY DEF PageFile
  <2>5. ASSUME NEW i \in 1..(page' - 1) PROVE Present(Chapter, i)'
    <3>1. CASE i = page
      BY <2>2, <2>3, <2>4, <3>1 DEF Present
    <3>2. CASE i # page
      <4>1. i \in 1..(page - 1)
        BY <2>1, <2>2, <2>5, <3>2
      <4>2. PICK f \in files[Chapter] : f.index = i /\ f.ext = list[Chapter][i]
        BY <1>6, <4>1 DEF WritePage, Fetched, Present
      <4>3. f \in files'[Chapter]
        BY <2>3, <2>4, <3>2, <4>2
      <4>4. QED
        BY <2>2, <4>2, <4>3 DEF Present
    <3>3. QED
      BY <3>1, <3>2
  <2>6. page' >= 1
    BY <2>1, <2>2
  <2>7. QED
    BY <2>1, <2>2, <2>5, <2>6 DEF Fetched
<1>7. CASE FinalizeChapter /\ pc' = "zip"
  <2>1. ZipWanted /\ UNCHANGED <<meta, files, zip, args, visit, page>>
    BY <1>7 DEF FinalizeChapter, GoOn
  <2>2. meta[Chapter] \in Metas /\ page >= 1 /\ page \in Nat
    BY <1>7 DEF FinalizeChapter, Fetched, ChapterType, TypeOK
  <2>3. page' # 0
    BY <2>1, <2>2
  <2>4. QED
    BY <1>7, <2>1, <2>2, <2>3
       DEF Fetched, ZipWanted, Chapter, DirComplete, PagesOf, ZipValid,
           ExpectedPages
<1>8. CASE BuildZip
  BY <1>8
     DEF BuildZip, Fetched, Chapter, DirComplete, PagesOf, ZipValid,
         ExpectedPages
<1>9. CASE UNCHANGED vars
  BY <1>2, <1>9 DEF vars
<1>10. ASSUME NEW c \in Chapters, DeleteDir(c) PROVE Fetched'
  BY <1>10, NotFetching DEF DeleteDir
<1>11. CASE OpenMeta
  <2>1. Chapter \in Chapters
    BY <1>11, WorkPlace DEF OpenMeta
  <2>2. PICK l \in Lists[Chapter] : list' = [list EXCEPT ![Chapter] = l]
    BY <1>11 DEF OpenMeta
  <2>3. list'[Chapter] \in Seq(STRING) /\ Chapter' = Chapter /\ pc' = "meta"
    BY <1>11, <2>1, <2>2, ChapterAssumption
       DEF OpenMeta, Chapter, ChapterType, TypeOK
  <2>4. QED
    BY <2>3 DEF Fetched
<1>12. CASE Aborts \/ ReplaceZip \/ Exit \/ Fails \/ ZipFails \/ Killed \/ (\E a \in Invocations : Start(a))
  BY <1>1, <1>12
     DEF Start, Aborts, ReplaceZip, Exit, Fails, ZipFails, Killed, Over, GoOn
<1>13. QED
  BY <1>1, <1>3, <1>4, <1>5, <1>6, <1>7, <1>8, <1>9, <1>10, <1>11, <1>12
     DEF Next, Run, Look, FinalizeChapter, GoOn

-----------------------------------------------------------------------------
(* What a step does to the chapters a run is not at, and to its verdicts.  *)

\* A run touches the directory and the zip of the chapter it works at.
LEMMA DiskKept ==
  ASSUME ChapterType, Fetched, [Next]_vars, pc # "off",
         NEW c \in Chapters, ~(pc \in AtWork /\ c = Chapter)
  PROVE  /\ meta'[c] = meta[c] /\ files'[c] = files[c] /\ zip'[c] = zip[c]
         /\ ZipValid(c)' <=> ZipValid(c)
<1>1. meta'[c] = meta[c] /\ files'[c] = files[c] /\ zip'[c] = zip[c]
  <2>1. CASE UNCHANGED <<meta, files, zip>>
    BY <2>1
  <2>2. CASE OpenMeta \/ WriteMeta \/ ReplaceZip
    BY <2>2 DEF OpenMeta, WriteMeta, ReplaceZip, AtWork, ChapterType, TypeOK
  <2>3. CASE NextPage
    BY <2>3, NextPageFiles DEF NextPage, AtWork
  <2>4. CASE WritePage
    BY <2>4, WritePageFiles DEF WritePage, AtWork
  <2>5. QED
    BY <2>1, <2>2, <2>3, <2>4
       DEF Next, Run, Start, Aborts, Look, FinalizeChapter, BuildZip, Exit,
           Fails, ZipFails, Killed, DeleteDir, vars, disk
<1>2. QED
  BY <1>1 DEF ZipValid, ExpectedPages

\* A run that leaves a chapter counts it among the good ones with a zip only,
\* and stops before the last one only when it was told to.
Visited(v) ==
  /\ v \in Verdicts
  /\ pc = "look" \/ pc \in AtWork
  /\ UNCHANGED list
  /\ v = "skipped" \/ (v = "ok" /\ args.make_zip /\ ~args.dry_run) =>
       \A c \in Chapters : c = Chapter =>
         ZipValid(c)' \/ (v = "ok" /\ ~Countable(c))
  /\ \/ GoOn(v, TRUE)
     \/ GoOn(v, FALSE) /\ ~(args.batch /\ args.continue_on_error)

LEMMA VisitSteps ==
  ASSUME ChapterType, Fetched, [Next]_vars, pc # "off", pc' # "off"
  PROVE  /\ args' = args
         /\ \A c \in Chapters : c # Chapter => list'[c] = list[c]
         /\ \/ \E v \in Verdicts : Visited(v)
            \/ /\ UNCHANGED <<visit, done>>
               /\ ~Downloading' => ~Downloading /\ UNCHANGED <<meta, zip, list>>
               /\ pc' # "exit" \/ UNCHANGED vars \/ Aborts \/ ZipFails
<1> USE DEF disk, Downloading
<1>1. CASE Look
  <2>1. CASE SkipReady /\ GoOn("skipped", TRUE)
    <3>1. ZipValid(Chapter) /\ Chapter \in Chapters /\ pc \notin AtWork
      BY <1>1, <2>1, WorkPlace DEF SkipReady, Look, AtWork
    <3>2. UNCHANGED <<meta, zip, args, list>>
      BY <1>1 DEF Look
    <3>3. PICK d \in Chapters : d = Chapter
      BY <3>1
    <3>4. ZipValid(d)'
      BY <3>1, <3>2, <3>3 DEF ZipValid, ExpectedPages
    <3>5. QED
      BY <1>1, <2>1, <3>2, <3>3, <3>4 DEF Look, Visited, Verdicts
  <2>2. CASE args.dry_run /\ GoOn("ok", TRUE)
    BY <1>1, <2>2 DEF Look, Visited, Verdicts
  <2>3. CASE pc' \in {"zip", "home"} /\ UNCHANGED <<done, page, visit>>
    BY <1>1, <2>3 DEF Look
  <2>4. QED
    BY <1>1, <2>1, <2>2, <2>3 DEF Look
<1>2. CASE FinalizeChapter
  <2>1. CASE ZipWanted
    <3>1. page \in Nat /\ page >= 1
      BY <1>2 DEF FinalizeChapter, Fetched, ChapterType, TypeOK
    <3>2. page' > 0
      BY <1>2, <2>1, <3>1 DEF FinalizeChapter
    <3>3. QED
      BY <1>2, <2>1, <3>2 DEF FinalizeChapter
  <2>2. CASE ~ZipWanted
    <3>1. /\ Chapter \in Chapters
          /\ Countable(Chapter) => DirComplete(Chapter)
      BY <1>2, FetchedAll, WorkPlace DEF FinalizeChapter
    <3>2. args.make_zip /\ Countable(Chapter) => ZipValid(Chapter)
      BY <2>2, <3>1 DEF ZipWanted
    <3>3. /\ UNCHANGED <<meta, zip, args, list>>
          /\ GoOn("ok", args.batch) /\ pc = "page"
      BY <1>2, <2>2 DEF FinalizeChapter
    <3>4. PICK d \in Chapters : d = Chapter
      BY <3>1
    <3>5. args.make_zip /\ Countable(d) => ZipValid(d)'
      BY <3>2, <3>3, <3>4 DEF ZipValid, ExpectedPages
    <3>6. GoOn("ok", TRUE) \/ (GoOn("ok", FALSE) /\ ~args.batch)
      BY <3>3 DEF GoOn
    <3>7. QED
      BY <3>3, <3>4, <3>5, <3>6 DEF Visited, Verdicts, AtWork
  <2>3. QED
    BY <2>1, <2>2
<1>3. CASE ReplaceZip
  <2>1. /\ Chapter \in Chapters /\ DirComplete(Chapter)
        /\ meta[Chapter] \in Metas
    BY <1>3, WorkPlace DEF ReplaceZip, Fetched
  <2>2. PICK d \in Chapters : d = Chapter
    BY <2>1
  <2>3. meta' = meta /\ args' = args /\ list' = list
        /\ zip'[d] = [meta |-> meta[d], pages |-> PagesOf(d)]
    BY <1>3, <2>2 DEF ReplaceZip, ChapterType, TypeOK
  <2>4. [meta |-> meta[d], pages |-> PagesOf(d)] \in Zips
    BY <2>1, <2>2 DEF ChapterType, TypeOK, Zips, PagesOf
  <2>5. meta[d] # None /\ zip'[d] # None
    BY <2>1, <2>2, <2>3, <2>4, NoneAssumption
  <2>6. ZipValid(d)'
    BY <2>1, <2>2, <2>3, <2>5 DEF ZipValid, ExpectedPages, DirComplete
  <2>7. \/ GoOn("skipped", TRUE)
        \/ GoOn("ok", TRUE)
        \/ GoOn("ok", FALSE) /\ ~args.batch
    BY <1>3 DEF ReplaceZip, GoOn
  <2>8. pc = "replace"
    BY <1>3 DEF ReplaceZip
  <2>9. QED
    BY <2>2, <2>3, <2>6, <2>7, <2>8 DEF Visited, Verdicts, AtWork
<1>4. CASE Fails
  BY <1>4 DEF Fails, Downloading, GoesOnAfterError, Visited, Verdicts, AtWork, GoOn
<1>5. CASE OpenMeta \/ WriteMeta \/ WritePage
  BY <1>5 DEF OpenMeta, WriteMeta, WritePage, ChapterType, TypeOK
<1>6. CASE NextPage \/ BuildZip
  BY <1>6 DEF NextPage, BuildZip
<1>7. CASE Aborts \/ ZipFails \/ UNCHANGED vars
  BY <1>7 DEF Aborts, ZipFails, vars
<1>8. QED
  BY <1>1, <1>2, <1>3, <1>4, <1>5, <1>6, <1>7 DEF Next, Run, Start, Exit, Killed, Over, DeleteDir

\* The effect of leaving a chapter, whatever the verdict.
LEMMA VisitedEffect ==
  ASSUME ChapterType, pc # "off", args' = args, NEW v \in Verdicts, Visited(v)
  PROVE  /\ done'[Chapter] = v
         /\ \A c \in Chapters : c # Chapter => done'[c] = done[c]
         /\ pc' \in {"look", "exit"}
         /\ pc' = "look" => visit' = visit + 1
         /\ pc' = "exit" => visit' = visit
         /\ pc' = "exit" /\ args.batch /\ args.continue_on_error =>
              visit = Len(args.plan)
<1>1. CASE GoOn(v, TRUE)
  BY <1>1, GoOnEffect
<1>2. CASE GoOn(v, FALSE) /\ ~(args.batch /\ args.continue_on_error)
  BY <1>2, GoOnEffect
<1>3. QED
  BY <1>1, <1>2 DEF Visited

-----------------------------------------------------------------------------
(* What a run counts as good, and what it has tried.                       *)

LEMMA InitGood == Init => GoodIsValid /\ Tried
BY DEF Init, GoodIsValid, Tried

\* A run starts with no verdicts.
LEMMA StartGood ==
  ASSUME NEW a \in Invocations, ChapterType, Start(a)
  PROVE  GoodIsValid' /\ Tried'
<1>1. \A c \in Chapters : done'[c] = None
  BY DEF Start
<1>2. GoodIsValid'
  BY <1>1, NoneAssumption DEF GoodIsValid, CountedReady, Verdicts
<1>3. visit' = 1 /\ pc' # "exit"
  BY DEF Start
<1>4. QED
  BY <1>2, <1>3 DEF Tried

LEMMA GoodStep ==
  ASSUME ChapterType, Fetched, GoodIsValid, [Next]_vars, pc # "off",
         pc' # "off"
  PROVE  GoodIsValid'
<1> SUFFICES ASSUME NEW c \in Chapters, CountedReady(c)',
                    ~(Downloading' /\ c = Chapter')
             PROVE  ZipValid(c)'
  BY DEF GoodIsValid
<1>0. /\ Chapter \in Chapters /\ args' = args
      /\ \A d \in Chapters : d # Chapter => list'[d] = list[d]
  BY WorkPlace, VisitSteps
<1>1. ASSUME NEW v \in Verdicts, Visited(v) PROVE ZipValid(c)'
  <2>1. CASE c = Chapter
    <3>1. done'[c] = v /\ list' = list
      BY <1>0, <1>1, <2>1, VisitedEffect DEF Visited
    <3>2. /\ v = "skipped" \/ (v = "ok" /\ args.make_zip /\ ~args.dry_run)
          /\ v = "ok" => Countable(c)
      BY <1>0, <3>1 DEF CountedReady, Countable
    <3>3. QED
      BY <1>1, <2>1, <3>2 DEF Visited
  <2>2. CASE c # Chapter
    <3>1. done'[c] = done[c]
      BY <1>0, <1>1, <2>2, VisitedEffect
    <3>2. ZipValid(c)
      BY <1>0, <2>2, <3>1 DEF GoodIsValid, CountedReady, Countable
    <3>3. QED
      BY <2>2, <3>2, DiskKept
  <2>3. QED
    BY <2>1, <2>2
<1>2. CASE /\ UNCHANGED <<visit, done>>
           /\ ~Downloading' => ~Downloading /\ UNCHANGED <<meta, zip, list>>
  <2>1. Chapter' = Chapter
    BY <1>0, <1>2 DEF Chapter
  <2>2. CASE c # Chapter
    <3>1. CountedReady(c)
      BY <1>0, <1>2, <2>2 DEF CountedReady, Countable
    <3>2. ZipValid(c)
      BY <2>2, <3>1 DEF GoodIsValid
    <3>3. QED
      BY <2>2, <3>2, DiskKept
  <2>3. CASE c = Chapter
    <3>1. ~Downloading /\ UNCHANGED <<meta, zip, list>>
      BY <1>2, <2>1, <2>3
    <3>2. CountedReady(c)
      BY <1>0, <1>2, <3>1 DEF CountedReady, Countable
    <3>3. ZipValid(c)
      BY <3>1, <3>2 DEF GoodIsValid
    <3>4. QED
      BY <3>1, <3>3 DEF ZipValid, ExpectedPages
  <2>4. QED
    BY <2>2, <2>3
<1>3. QED
  BY <1>1, <1>2, VisitSteps

LEMMA TriedStep ==
  ASSUME ChapterType, Fetched, Tried, [Next]_vars, pc # "off", pc' # "off"
  PROVE  Tried'
<1>0. /\ Chapter \in Chapters /\ args' = args
      /\ visit \in Nat /\ visit >= 1 /\ visit <= Len(args.plan)
      /\ args.plan \in Seq(Chapters)
  BY WorkPlace, VisitSteps
<1>1. ASSUME NEW v \in Verdicts, Visited(v) PROVE Tried'
  <2>1. v # None
    BY NoneAssumption
  <2>2. \A i \in 1..visit : done'[args.plan[i]] # None
    <3>1. \A i \in 1..visit : args.plan[i] \in Chapters /\ (i = visit \/ i \in 1..(visit - 1))
      BY <1>0
    <3>2. done'[Chapter] # None
      BY <1>0, <1>1, <2>1, VisitedEffect
    <3>3. \A i \in 1..(visit - 1) : done[args.plan[i]] # None
      BY DEF Tried
    <3>4. \A c \in Chapters : c # Chapter => done'[c] = done[c]
      BY <1>0, <1>1, VisitedEffect
    <3>5. QED
      BY <3>1, <3>2, <3>3, <3>4 DEF Chapter
  <2>3. CASE pc' = "look"
    <3>1. visit' = visit + 1
      BY <1>0, <1>1, <2>3, VisitedEffect
    <3>2. QED
      BY <1>0, <2>2, <2>3, <3>1 DEF Tried
  <2>4. CASE pc' = "exit"
    <3>1. visit' = visit /\ Chapter' = Chapter
      BY <1>0, <1>1, <2>4, VisitedEffect DEF Chapter
    <3>2. args.batch /\ args.continue_on_error => visit = Len(args.plan)
      BY <1>0, <1>1, <2>4, VisitedEffect
    <3>3. done'[Chapter'] # None
      BY <1>0, <2>2, <3>1 DEF Chapter
    <3>4. \A i \in 1..(visit' - 1) : done'[args'.plan[i]] # None
      BY <1>0, <2>2, <3>1
    <3>5. QED
      BY <1>0, <3>1, <3>2, <3>3, <3>4 DEF Tried
  <2>5. QED
    BY <1>0, <1>1, <2>3, <2>4, VisitedEffect
<1>2. CASE UNCHANGED <<visit, done>> /\ pc' # "exit"
  BY <1>0, <1>2 DEF Tried
<1>3. CASE UNCHANGED vars
  BY <1>0, <1>3 DEF Tried, Chapter, ToZip, SkipReady, DirComplete, PagesOf,
                    ZipValid, ExpectedPages, vars
<1>4. CASE Aborts
  BY <1>0, <1>4 DEF Tried, Aborts, Chapter, disk
<1>5. CASE ZipFails
  <2>1. /\ args.make_zip /\ ~args.no_skip_complete
        /\ DirComplete(Chapter) /\ ~ZipValid(Chapter)
    BY <1>5 DEF ZipFails, Fetched
  <2>2. ToZip /\ ~SkipReady
    BY <2>1 DEF ToZip, SkipReady
  <2>3. UNCHANGED <<meta, files, zip, args, visit, done>> /\ pc' = "exit"
    BY <1>5 DEF ZipFails, disk
  <2>4. (ToZip /\ ~SkipReady)'
    BY <2>2, <2>3 DEF ToZip, SkipReady, Chapter, DirComplete, PagesOf, ZipValid,
                      ExpectedPages
  <2>5. \A i \in 1..(visit' - 1) : done'[args'.plan[i]] # None
    BY <2>3 DEF Tried
  <2>6. QED
    BY <2>4, <2>5 DEF Tried
<1>6. QED
  BY <1>1, <1>2, <1>3, <1>4, <1>5, VisitSteps

-----------------------------------------------------------------------------
(* The theorems of every set of command lines.                             *)

ChapterInv == ChapterType /\ Fetched /\ GoodIsValid /\ Tried

\* The inductive invariant of the downloader: between kills and failures each
\* decision of a run rests on what the disk still says when it acts on it.
THEOREM ChapterInvariance == Spec => []ChapterInv
<1>1. Init => ChapterInv
  BY InitChapterType, InitFetched, InitGood DEF ChapterInv
<1>2. ChapterInv /\ [Next]_vars => ChapterInv'
  <2> SUFFICES ASSUME ChapterInv, [Next]_vars PROVE ChapterInv'
    OBVIOUS
  <2> USE DEF ChapterInv
  <2>1. ChapterType' /\ Fetched'
    BY ChapterTypeStep, FetchedStep
  <2>2. CASE pc' = "off"
    BY <2>1, <2>2 DEF GoodIsValid, Tried
  <2>3. CASE pc = "off" /\ pc' # "off"
    <3>1. PICK a \in Invocations : Start(a)
      BY <2>3 DEF Next, Run, Aborts, Look, OpenMeta, WriteMeta, NextPage,
                  WritePage, FinalizeChapter, BuildZip, ReplaceZip, Exit,
                  Fails, Downloading, ZipFails, Killed, Over, DeleteDir, vars
    <3>2. QED
      BY <2>1, <3>1, StartGood
  <2>4. CASE pc # "off" /\ pc' # "off"
    BY <2>1, <2>4, GoodStep, TriedStep
  <2>5. QED
    BY <2>2, <2>3, <2>4
<1>3. QED
  BY <1>1, <1>2, PTL DEF Spec

\* The types of the downloader's state (and one file of a page and extension).
THEOREM ChapterTypeCorrect == Spec => []TypeOK
<1>1. ChapterInv => TypeOK
  BY DEF ChapterInv, ChapterType
<1>2. QED
  BY <1>1, ChapterInvariance, PTL

\* The summary of download_batch.py: what it counts as skipped has a zip that
\* chapter_ready accepts, and so has what it counts as downloaded with a zip,
\* if every page MangaDex listed was one that counts.
THEOREM DoneIsReadyHolds == Spec => []DoneIsReady
<1>1. ChapterInv => DoneIsReady
  BY DEF ChapterInv, GoodIsValid, CountedReady, DoneIsReady, Downloading
<1>2. QED
  BY <1>1, ChapterInvariance, PTL

\* --continue-on-error: only a torn meta.json, or a directory complete without a
\* zip that cannot be zipped, keeps the batch from trying every chapter of its
\* range.
THEOREM StopsOnlyOutsideTryHolds == Spec => []StopsOnlyOutsideTry
<1>1. ChapterInv => StopsOnlyOutsideTry
  <2> SUFFICES ASSUME ChapterInv, pc = "exit", args.batch,
                      args.continue_on_error, meta[Chapter] # Torn,
                      ~(ToZip /\ ~SkipReady),
                      NEW i \in 1..Len(args.plan)
               PROVE  done[args.plan[i]] # None
    BY DEF StopsOnlyOutsideTry
  <2>1. visit = Len(args.plan) /\ done[Chapter] # None
    BY DEF ChapterInv, Tried
  <2>2. \A j \in 1..(visit - 1) : done[args.plan[j]] # None
    BY DEF ChapterInv, Tried
  <2>3. visit \in Nat
    BY WorkPlace DEF ChapterInv
  <2>4. i = visit \/ i \in 1..(visit - 1)
    BY <2>1, <2>3
  <2>5. QED
    BY <2>1, <2>2, <2>4 DEF Chapter
<1>2. QED
  BY <1>1, ChapterInvariance, PTL

-----------------------------------------------------------------------------
(* Pages and their numbers.                                                *)

LEMMA InitShelves == Init => Shelves
BY FS_EmptySet DEF Init, Shelves, Shelf

LEMMA PageIndices ==
  ASSUME NEW P, P \subseteq PageFiles
  PROVE  \A f \in P : f.index \in Nat \ {0}
BY DEF PageFiles

\* Of a chapter that is not mixed every file counts.
LEMMA AllCount ==
  ASSUME Shelves, NEW c \in Chapters, c \notin mixed
  PROVE  PagesOf(c) = files[c] /\ Shelf(files[c])
BY DEF Shelves, PagesOf

\* The next page is put at the end of the shelf.
LEMMA ShelfAdded ==
  ASSUME NEW P, Shelf(P), NEW f, f.index \in Nat \ {0},
         \A i \in 1..(f.index - 1) : Has(P, i), ~Has(P, f.index)
  PROVE  Shelf(P \union {f})
<1>1. \A g \in P : g.index # f.index
  BY DEF Has
<1>2. ASSUME NEW g \in P \union {f}, NEW i \in 1..g.index
      PROVE  Has(P \union {f}, i)
  <2>1. CASE g \in P
    BY <1>2, <2>1 DEF Shelf, Has
  <2>2. CASE g = f /\ i = f.index
    BY <2>2 DEF Has
  <2>3. CASE g = f /\ i # f.index
    <3>1. i \in 1..(f.index - 1)
      BY <1>2, <2>3
    <3>2. QED
      BY <3>1 DEF Has
  <2>4. QED
    BY <1>2, <2>1, <2>2, <2>3
<1>3. QED
  BY <1>1, <1>2 DEF Shelf

\* A page takes the place of its torn half.
LEMMA ShelfReplaced ==
  ASSUME NEW P, Shelf(P), NEW f \in P, NEW g, g.index = f.index
  PROVE  Shelf((P \ {f}) \union {g})
<1> DEFINE Q == (P \ {f}) \union {g}
<1>1. \A h \in P : h.index = f.index => h = f
  BY DEF Shelf
<1>2. \A i : Has(P, i) => Has(Q, i)
  BY DEF Has
<1>3. \A h \in Q : \E k \in P : k.index = h.index
  OBVIOUS
<1>4. \A h \in Q : \A i \in 1..h.index : Has(Q, i)
  BY <1>2, <1>3 DEF Shelf
<1>5. \A h, k \in Q : h.index = k.index => h = k
  BY <1>1 DEF Shelf
<1>6. QED
  BY <1>4, <1>5 DEF Shelf

\* A page goes to the end of the shelf, unless it makes the chapter mixed.
LEMMA NextPageShelf ==
  ASSUME ChapterType, Fetched, Shelves, NextPage,
         NEW c \in Chapters, c \notin mixed'
  PROVE  /\ c \notin mixed
         /\ Shelf(files'[c]) /\ \A f \in files'[c] : f.ext \in ImageExt
<1>1. Chapter \in Chapters /\ pc = "page" /\ page <= Len(list[Chapter])
  BY WorkPlace DEF NextPage
<1>2. c \notin mixed
  BY DEF NextPage
<1>3. CASE files'[c] = files[c]
  BY <1>2, <1>3 DEF Shelves
<1>4. CASE files'[c] # files[c]
  <2>1. /\ c = Chapter /\ ~Present(Chapter, page)
        /\ files'[c] = files[c] \union {PageFile(FALSE)}
    BY <1>4, NextPageFiles
  <2>2. ~Mixes
    BY <2>1 DEF NextPage
  <2>3. ~Has(files[c], page) /\ list[c][page] \in ImageExt
    BY <2>1, <2>2 DEF Mixes, Has
  <2>4. \A i \in 1..(page - 1) : Has(files[c], i)
    BY <1>1, <2>1 DEF Fetched, Present, Has
  <2>5. /\ PageFile(FALSE).index = page /\ page \in Nat \ {0}
        /\ PageFile(FALSE).ext = list[c][page]
    BY <1>1, <2>1 DEF PageFile, Fetched, ChapterType, TypeOK
  <2>6. PICK f : f = PageFile(FALSE)
    OBVIOUS
  <2>7. Shelf(files[c]) /\ \A g \in files[c] : g.ext \in ImageExt
    BY <1>2 DEF Shelves
  <2>8. Shelf(files[c] \union {f})
    BY <2>3, <2>4, <2>5, <2>6, <2>7, ShelfAdded
  <2>9. QED
    BY <1>2, <2>1, <2>3, <2>5, <2>6, <2>7, <2>8
<1>5. QED
  BY <1>3, <1>4

LEMMA ShelvesStep ==
  ASSUME ChapterType, Fetched, Shelves, [Next]_vars
  PROVE  Shelves'
<1> USE DEF disk
<1>1. CASE UNCHANGED <<files, zip, mixed>>
  BY <1>1 DEF Shelves
<1>2. CASE NextPage
  <2>1. UNCHANGED zip
    BY <1>2 DEF NextPage
  <2>2. QED
    BY <1>2, <2>1, NextPageShelf DEF Shelves
<1>3. CASE WritePage
  <2>1. /\ UNCHANGED <<zip, mixed>> /\ Chapter \in Chapters
        /\ PageFile(FALSE) \in files[Chapter]
    BY <1>3, WorkPlace DEF WritePage, Fetched
  <2>2. /\ PageFile(TRUE).index = PageFile(FALSE).index
        /\ PageFile(TRUE).ext = PageFile(FALSE).ext
    BY DEF PageFile
  <2>3. ASSUME NEW c \in Chapters, c \notin mixed
        PROVE  Shelf(files'[c]) /\ \A h \in files'[c] : h.ext \in ImageExt
    <3>1. CASE c # Chapter
      BY <1>3, <2>3, <3>1, WritePageFiles DEF Shelves
    <3>2. CASE c = Chapter
      <4>1. files'[c] = (files[c] \ {PageFile(FALSE)}) \union {PageFile(TRUE)}
        BY <1>3, <3>2, WritePageFiles
      <4>2. Shelf(files[c]) /\ \A h \in files[c] : h.ext \in ImageExt
        BY <2>3 DEF Shelves
      <4>3. PICK f \in files[c] : f = PageFile(FALSE)
        BY <2>1, <3>2
      <4>4. PICK g : g = PageFile(TRUE)
        OBVIOUS
      <4>5. Shelf((files[c] \ {f}) \union {g})
        BY <2>2, <4>2, <4>3, <4>4, ShelfReplaced
      <4>6. g.ext \in ImageExt
        BY <2>2, <4>2, <4>3, <4>4
      <4>7. QED
        BY <4>1, <4>2, <4>3, <4>4, <4>5, <4>6
    <3>3. QED
      BY <3>1, <3>2
  <2>4. QED
    BY <2>1, <2>3 DEF Shelves
<1>4. CASE ReplaceZip
  <2>1. /\ UNCHANGED <<files, mixed>> /\ Chapter \in Chapters
        /\ meta[Chapter] \in Metas
    BY <1>4, WorkPlace DEF ReplaceZip, Fetched
  <2>2. /\ zip'[Chapter] = [meta |-> meta[Chapter], pages |-> PagesOf(Chapter)]
        /\ \A c \in Chapters : c # Chapter => zip'[c] = zip[c]
    BY <1>4, <2>1 DEF ReplaceZip, ChapterType, TypeOK
  <2>3. CASE Chapter \in mixed
    BY <2>1, <2>2, <2>3 DEF Shelves
  <2>4. CASE Chapter \notin mixed
    <3>1. PagesOf(Chapter) = files[Chapter] /\ Shelf(files[Chapter])
      BY <2>1, <2>4, AllCount
    <3>2. meta[Chapter].pages \in Nat
      BY <2>1 DEF Metas
    <3>3. /\ Cardinality(files[Chapter]) >= meta[Chapter].pages
          /\ IsFiniteSet(files[Chapter])
      BY <1>4, <2>1, <3>1 DEF ReplaceZip, Fetched, DirComplete, ChapterType
    <3>4. \A f \in files[Chapter] : f.index \in Nat \ {0}
      BY <2>1, PageIndices DEF ChapterType, TypeOK
    <3>5. \A i \in 1..meta[Chapter].pages : Has(files[Chapter], i)
      BY <3>1, <3>2, <3>3, <3>4, CountedPages
    <3>6. QED
      BY <2>1, <2>2, <3>1, <3>3, <3>5 DEF Shelves
  <2>5. QED
    BY <2>3, <2>4
<1>5. ASSUME NEW c \in Chapters, DeleteDir(c) PROVE Shelves'
  <2>1. /\ UNCHANGED <<zip, mixed>>
        /\ \A d \in Chapters : files'[d] \in {files[d], {}}
    BY <1>5 DEF DeleteDir, ChapterType, TypeOK
  <2>2. Shelf({})
    BY DEF Shelf
  <2>3. QED
    BY <2>1, <2>2 DEF Shelves
<1>6. QED
  BY <1>1, <1>2, <1>3, <1>4, <1>5
     DEF Next, Run, Start, Aborts, Look, OpenMeta, WriteMeta, FinalizeChapter,
         BuildZip, Exit, Fails, ZipFails, Killed, vars

\* The directory and the zip of a chapter that is not mixed hold whole runs of
\* pages, so that the count of files names them.
THEOREM ShelvesInvariance == Spec => [](ChapterInv /\ Shelves)
<1>1. Init => Shelves
  BY InitShelves
<1>2. Shelves /\ ChapterInv /\ [Next]_vars => Shelves'
  BY ShelvesStep DEF ChapterInv
<1>3. QED
  BY <1>1, <1>2, ChapterInvariance, PTL DEF Spec

\* A zip has the pages 1 to n of the meta.json in it, though the code counted
\* files: whatever was torn, killed, failed or listed again in between.
THEOREM ZipHasEveryPageHolds == Spec => []ZipHasEveryPage
<1>1. Shelves => ZipHasEveryPage
  BY DEF Shelves, ZipHasEveryPage, Has
<1>2. QED
  BY <1>1, ShelvesInvariance, PTL

\* A zip is replaced by one that has at least its pages.
LEMMA ZipGrows ==
  ASSUME ChapterInv, Shelves, [Next]_vars,
         NEW c \in Chapters, zip[c] # None
  PROVE  /\ zip'[c] # None
         /\ c \notin mixed' => {f.index : f \in zip[c].pages} \subseteq
                                {f.index : f \in zip'[c].pages}
<1> USE DEF disk
<1>1. CASE zip'[c] = zip[c]
  BY <1>1
<1>2. CASE ReplaceZip /\ c = Chapter
  <2>1. meta[c] \in Metas /\ DirComplete(c) /\ ~ZipValid(c)
    BY <1>2 DEF ReplaceZip, ChapterInv, Fetched
  <2>2. zip'[c] = [meta |-> meta[c], pages |-> PagesOf(c)] /\ mixed' = mixed
    BY <1>2 DEF ReplaceZip, ChapterInv, ChapterType, TypeOK
  <2>3. zip'[c] \in Zips
    BY <2>1, <2>2 DEF Zips, ChapterInv, ChapterType, TypeOK, PagesOf
  <2>4. CASE c \in mixed
    BY <2>2, <2>3, <2>4, NoneAssumption
  <2>5. CASE c \notin mixed
    <3> DEFINE n == meta[c].pages
    <3>4. n \in Nat /\ meta[c] # None
      BY <2>1, NoneAssumption DEF Metas
    <3>5. ~(Cardinality(zip[c].pages) >= n)
      BY <2>1, <3>4 DEF ZipValid, ExpectedPages, DirComplete
    <3>6. zip[c].pages \subseteq PageFiles
      BY DEF ChapterInv, ChapterType, TypeOK, Zips
    <3>7. \A f \in zip[c].pages : f.index \in Nat \ {0}
      BY <3>6, PageIndices
    <3>8. IsFiniteSet(zip[c].pages) /\ Shelf(zip[c].pages)
      BY <2>5 DEF Shelves
    <3>9. ASSUME NEW f \in zip[c].pages PROVE f.index \in 1..n
      <4>1. SUFFICES ASSUME f.index > n PROVE FALSE
        BY <3>4, <3>7
      <4>2. \A i \in 1..n : i \in 1..f.index
        BY <3>4, <3>7, <4>1
      <4>3. \A i \in 1..n : Has(zip[c].pages, i)
        BY <3>8, <4>2 DEF Shelf
      <4>4. Cardinality(zip[c].pages) >= n
        BY <3>4, <3>8, <4>3, PagesCount
      <4>5. QED
        BY <3>5, <4>4
    <3>10. /\ Cardinality(files[c]) >= n /\ Shelf(files[c])
           /\ files[c] \subseteq PageFiles
      BY <2>1, <2>5, AllCount DEF DirComplete, ChapterInv, ChapterType, TypeOK
    <3>11. \A f \in files[c] : f.index \in Nat \ {0}
      BY <3>10, PageIndices
    <3>12. \A i \in 1..n : Has(files[c], i)
      BY <3>4, <3>10, <3>11, CountedPages
    <3>13. \A f \in zip[c].pages : Has(files[c], f.index)
      BY <3>9, <3>12
    <3>14. zip'[c] # None
      BY <2>3, NoneAssumption
    <3>15. QED
      BY <2>2, <2>5, <3>13, <3>14, AllCount DEF Has
  <2>6. QED
    BY <2>4, <2>5
<1>3. CASE ReplaceZip /\ c # Chapter
  BY <1>1, <1>3 DEF ReplaceZip, ChapterInv, ChapterType, TypeOK
<1>4. QED
  BY <1>1, <1>2, <1>3
     DEF Next, Run, Start, Aborts, Look, OpenMeta, WriteMeta, NextPage,
         WritePage, FinalizeChapter, BuildZip, Exit, Fails, ZipFails, Killed,
         DeleteDir, vars

\* No run, not even one that is killed while it builds another, takes away a
\* zip or a page of it.
THEOREM ZipNeverShrinksHolds == Spec => ZipNeverShrinks
<1>1. /\ ChapterInv /\ Shelves /\ [Next]_vars
      => [\A c \in Chapters : zip[c] # None =>
            /\ zip'[c] # None
            /\ c \notin mixed' => {f.index : f \in zip[c].pages} \subseteq
                                   {f.index : f \in zip'[c].pages}]_vars
  BY ZipGrows
<1>2. QED
  BY <1>1, ShelvesInvariance, PTL DEF Spec, ZipNeverShrinks

=============================================================================
