------------------------------ MODULE Chapter ------------------------------
(***************************************************************************)
(* The chapter downloader of mangadex-martial-peak: download_chapter.py    *)
(* (one chapter) and download_batch.py (a range, skipping what is there),  *)
(* run again and again over one output directory.  What a run leaves on    *)
(* disk when it fails or is killed is all the next one knows.              *)
(*                                                                         *)
(* A chapter's title does not change, so its directory and its zip keep    *)
(* their names.  A file being written is torn until the write is over.     *)
(* MangaDex is external: it answers or it does not, and what it lists for  *)
(* a chapter is a page name each, of which only the extension tells (the   *)
(* file is named after its place in the list).  Either quality of a        *)
(* chapter is a list.  A run starts when the list of chapters is there.    *)
(*                                                                         *)
(* Bounds: MaxKills and MaxErrors, the kills and the failed calls of a     *)
(* whole behaviour; the number of runs is not bounded.                     *)
(***************************************************************************)
EXTENDS Naturals, FiniteSets, Sequences

CONSTANTS
  Chapters, None,
  Torn,          \* a meta.json whose writing was cut short
  Lists,         \* what MangaDex may list for each chapter: an extension a page
  ImageExt,      \* the extensions of files that count as pages
  Invocations,   \* the command lines the user may type
  MaxKills, MaxErrors

ASSUME ChapterAssumption ==
  /\ \A c \in Chapters : Lists[c] \subseteq Seq(STRING)
  \* Page names of three digits: a longer list is out of iter_page_files' sight.
  /\ \A c \in Chapters : \A l \in Lists[c] : Len(l) < 1000
  /\ MaxKills \in Nat /\ MaxErrors \in Nat
  /\ \A a \in Invocations : a.plan \in Seq(Chapters) \ {<<>>}

VARIABLES
  meta,      \* meta.json of each directory: None, Torn or written
  files,     \* the page files of each directory
  zip,       \* each chapter's zip: None or its meta.json and pages
  part,      \* the .zip.part left beside it
  args,      \* the command line of the run; None when there is none
  pc,
  visit,     \* position in the range
  page,      \* position in the chapter; 0 before its download
  list,      \* what MangaDex listed for each chapter in this run
  done,      \* what the run made of each chapter
  mixed,     \* history: the chapters whose directory ever had a second file
             \* of one page, or a page file that does not count as one
  kills, errors

vars == <<meta, files, zip, part, args, pc, visit, page, list, done, mixed,
          kills, errors>>
disk == <<meta, files, zip, part, mixed>>

Init ==
  /\ meta = [c \in Chapters |-> None]
  /\ files = [c \in Chapters |-> {}]
  /\ zip = [c \in Chapters |-> None]
  /\ part = [c \in Chapters |-> FALSE]
  /\ args = None
  /\ pc = "off"
  /\ visit = 0
  /\ page = 0
  /\ list = [c \in Chapters |-> None]
  /\ done = [c \in Chapters |-> None]
  /\ mixed = {}
  /\ kills = 0
  /\ errors = 0

-----------------------------------------------------------------------------
(* What the code reads off the disk.                                       *)

\* iter_page_files: of the files of a directory, those with an image extension.
PagesOf(c) == {f \in files[c] : f.ext \in ImageExt}

\* chapter_dir_complete counts page files; read_expected_pages takes a meta.json
\* without pages for none.
DirComplete(c) ==
  /\ meta[c] # None
  /\ meta[c].pages > 0
  /\ Cardinality(PagesOf(c)) >= meta[c].pages

\* read_expected_pages: the directory's meta.json, or else the zip's; if that
\* has no pages, one in the zip is enough.
ExpectedPages(c) ==
  LET pages == IF meta[c] # None THEN meta[c].pages ELSE zip[c].meta.pages
  IN  IF pages > 0 THEN pages ELSE 1

\* chapter_zip_valid, and chapter_ready with it: the zip looked at is the one
\* beside the directory.
ZipValid(c) ==
  zip[c] # None /\ Cardinality(zip[c].pages) >= ExpectedPages(c)

Chapter == args.plan[visit]

\* A page's file has the extension of the name MangaDex listed.
PageFile(whole) ==
  [index |-> page, ext |-> list[Chapter][page], whole |-> whole]

\* download_chapter passes over a page whose file exists.
Present(c, index) ==
  \E f \in files[c] : f.index = index /\ f.ext = list[c][index]

-----------------------------------------------------------------------------
(* The batch.                                                              *)

\* main: download_chapter.py downloads at once, download_batch.py looks first.
Start(a) ==
  /\ pc = "off"
  /\ args' = a
  /\ visit' = 1
  /\ page' = 0
  /\ pc' = IF a.batch THEN "look" ELSE "home"
  /\ list' = [c \in Chapters |-> None]
  /\ done' = [c \in Chapters |-> None]
  /\ UNCHANGED <<disk, kills, errors>>

\* The loop goes on with the next chapter, or the run ends.
GoOn(verdict, on) ==
  /\ done' = [done EXCEPT ![Chapter] = verdict]
  /\ page' = 0
  /\ IF on /\ visit < Len(args.plan)
       THEN pc' = "look" /\ visit' = visit + 1
       ELSE pc' = "exit" /\ UNCHANGED visit

\* A torn meta.json raises in chapter_ready, outside the try of the loop.
Aborts ==
  /\ pc = "look"
  /\ ~args.no_skip_complete
  /\ meta[Chapter] = Torn
  /\ pc' = "exit"
  /\ UNCHANGED <<disk, args, visit, page, list, done, kills, errors>>

Readable == args.no_skip_complete \/ meta[Chapter] # Torn

\* Mutant: the directory need not be complete.
ToZipAnyway == args.make_zip /\ ~args.no_skip_complete /\ meta[Chapter] # None

\* chapter_ready, and finalize_chapter of a directory complete without a zip.
ToZip == args.make_zip /\ ~args.no_skip_complete /\ DirComplete(Chapter)

SkipReady == ~args.no_skip_complete /\ ZipValid(Chapter)

Look ==
  /\ pc = "look"
  /\ Readable
  /\ \/ SkipReady /\ GoOn("skipped", TRUE)
     \/ ~SkipReady /\ ToZip /\ pc' = "zip" /\ UNCHANGED <<done, page, visit>>
     \/ ~SkipReady /\ ~ToZip /\ args.dry_run /\ GoOn("ok", TRUE)
     \/ ~SkipReady /\ ~ToZip /\ ~args.dry_run
          /\ pc' = "home" /\ UNCHANGED <<done, page, visit>>
  /\ UNCHANGED <<disk, args, list, kills, errors>>

-----------------------------------------------------------------------------
(* download_chapter.                                                       *)

\* fetch_chapter_meta and chapter_at_home answer; meta.json is opened.
OpenMeta ==
  /\ pc = "home"
  /\ \E l \in Lists[Chapter] : list' = [list EXCEPT ![Chapter] = l]
  /\ meta' = [meta EXCEPT ![Chapter] = Torn]
  /\ pc' = "meta"
  /\ UNCHANGED <<files, zip, part, args, visit, page, done, mixed, kills, errors>>

WriteMeta ==
  /\ pc = "meta"
  /\ meta' = [meta EXCEPT ![Chapter] = [pages |-> Len(list[Chapter])]]
  /\ pc' = "page"
  /\ page' = 1
  /\ UNCHANGED <<files, zip, part, args, visit, list, done, mixed, kills, errors>>

\* The new file is the second of its page, or no page to iter_page_files.
Mixes ==
  \/ list[Chapter][page] \notin ImageExt
  \/ \E f \in files[Chapter] : f.index = page

\* A page that is there is not downloaded; of another, the bytes are read
\* before its file is opened.
NextPage ==
  /\ pc = "page"
  /\ page <= Len(list[Chapter])
  /\ IF Present(Chapter, page)
       THEN page' = page + 1 /\ UNCHANGED <<files, mixed, pc>>
       ELSE /\ files' = [files EXCEPT ![Chapter] = @ \union {PageFile(FALSE)}]
            /\ mixed' = IF Mixes THEN mixed \union {Chapter} ELSE mixed
            /\ pc' = "write"
            /\ UNCHANGED page
  /\ UNCHANGED <<meta, zip, part, args, visit, list, done, kills, errors>>

WritePage ==
  /\ pc = "write"
  /\ files' = [files EXCEPT ![Chapter] =
                 (@ \ {PageFile(FALSE)}) \union {PageFile(TRUE)}]
  /\ page' = page + 1
  /\ pc' = "page"
  /\ UNCHANGED <<meta, zip, part, args, visit, list, done, mixed, kills, errors>>

\* Mutant: a .zip.part left behind is somebody else's.
ZipWantedUnlessPart ==
  args.make_zip /\ DirComplete(Chapter) /\ ~ZipValid(Chapter) /\ ~part[Chapter]

\* finalize_chapter at the end of download_chapter keeps a zip that counts.
ZipWanted == args.make_zip /\ DirComplete(Chapter) /\ ~ZipValid(Chapter)

FinalizeChapter ==
  /\ pc = "page"
  /\ page > Len(list[Chapter])
  /\ IF ZipWanted THEN pc' = "zip" /\ UNCHANGED <<done, page, visit>>
                  ELSE GoOn("ok", args.batch)
  /\ UNCHANGED <<disk, args, list, kills, errors>>

\* Mutant: the zip is written in its place.
BuildZipInPlace ==
  /\ pc = "zip"
  /\ zip' = [zip EXCEPT ![Chapter] = None]
  /\ pc' = "replace"
  /\ UNCHANGED <<meta, files, part, args, visit, page, list, done, mixed, kills,
                 errors>>

\* build_chapter_zip writes beside, then replaces.
BuildZip ==
  /\ pc = "zip"
  /\ part' = [part EXCEPT ![Chapter] = TRUE]
  /\ pc' = "replace"
  /\ UNCHANGED <<meta, files, zip, args, visit, page, list, done, mixed, kills,
                 errors>>

ReplaceZip ==
  /\ pc = "replace"
  /\ part' = [part EXCEPT ![Chapter] = FALSE]
  /\ zip' = [zip EXCEPT ![Chapter] =
               [meta |-> meta[Chapter], pages |-> PagesOf(Chapter)]]
  /\ IF page = 0 THEN GoOn("skipped", TRUE) ELSE GoOn("ok", args.batch)
  /\ UNCHANGED <<meta, files, args, list, mixed, kills, errors>>

-----------------------------------------------------------------------------
(* What goes wrong.                                                        *)

Fault == errors < MaxErrors /\ errors' = errors + 1

\* Mutant: the batch stops whatever its flags say.
GoesOnNever == FALSE

GoesOnAfterError == args.batch /\ args.continue_on_error

\* Where download_chapter is at work, its last line included.
Downloading ==
  pc \in {"home", "meta", "page", "write"} \/ (pc \in {"zip", "replace"} /\ page > 0)

\* Mutant: a failed chapter is counted among the good ones.
FailsQuietly ==
  /\ Downloading
  /\ Fault
  /\ GoOn("ok", GoesOnAfterError)
  /\ UNCHANGED <<disk, args, list, kills>>

\* A call to MangaDex or a write raises inside download_chapter.
Fails ==
  /\ Downloading
  /\ Fault
  /\ GoOn("failed", GoesOnAfterError)
  /\ UNCHANGED <<disk, args, list, kills>>

\* The zip of a directory found complete is built before the try of the loop:
\* an error there ends the run, and no verdict is kept.
ZipFails ==
  /\ pc \in {"zip", "replace"} /\ page = 0
  /\ Fault
  /\ pc' = "exit"
  /\ UNCHANGED <<disk, args, visit, page, list, done, kills>>

\* The process is gone, and what it knew.
Over ==
  /\ pc' = "off"
  /\ args' = None
  /\ visit' = 0
  /\ page' = 0
  /\ list' = [c \in Chapters |-> None]
  /\ done' = [c \in Chapters |-> None]

Killed ==
  /\ pc # "off"
  /\ kills < MaxKills
  /\ kills' = kills + 1
  /\ Over
  /\ UNCHANGED <<disk, errors>>

\* The user keeps the zip and deletes the directory.
DeleteDir(c) ==
  /\ pc = "off"
  /\ zip[c] # None
  /\ meta[c] # None
  /\ meta' = [meta EXCEPT ![c] = None]
  /\ files' = [files EXCEPT ![c] = {}]
  /\ UNCHANGED <<zip, part, args, pc, visit, page, list, done, mixed, kills,
                 errors>>

Exit ==
  /\ pc = "exit"
  /\ Over
  /\ UNCHANGED <<disk, kills, errors>>

-----------------------------------------------------------------------------
Run ==
  \/ Aborts
  \/ Look
  \/ OpenMeta
  \/ WriteMeta
  \/ NextPage
  \/ WritePage
  \/ FinalizeChapter
  \/ BuildZip
  \/ ReplaceZip
  \/ Exit

Next ==
  \/ \E a \in Invocations : Start(a)
  \/ Run
  \/ Fails
  \/ ZipFails
  \/ Killed
  \/ \E c \in Chapters : DeleteDir(c)

Spec == Init /\ [][Next]_vars

\* A run makes progress.
FairSpec == Spec /\ WF_vars(Run)

-----------------------------------------------------------------------------
Metas == [pages : Nat]

PageFiles == [index : Nat \ {0}, ext : STRING, whole : BOOLEAN]

Zips == [meta : Metas, pages : SUBSET PageFiles]

Verdicts == {"ok", "skipped", "failed"}

ASSUME NoneAssumption ==
  /\ None # Torn
  /\ None \notin Metas \union Zips \union Verdicts
  /\ None \notin Seq(STRING)
  /\ Torn \notin Metas

TypeOK ==
  /\ meta \in [Chapters -> Metas \union {None, Torn}]
  /\ files \in [Chapters -> SUBSET PageFiles]
  /\ \A c \in Chapters : \A f, g \in files[c] :
       f.index = g.index /\ f.ext = g.ext => f = g
  /\ zip \in [Chapters -> Zips \union {None}]
  /\ part \in [Chapters -> BOOLEAN]
  /\ pc \in {"off", "look", "home", "meta", "page", "write", "zip", "replace",
            "exit"}
  /\ page \in Nat
  /\ list \in [Chapters -> Seq(STRING) \union {None}]
  /\ done \in [Chapters -> Verdicts \union {None}]
  /\ mixed \subseteq Chapters

-----------------------------------------------------------------------------
(* Safety.                                                                 *)

\* MangaDex listed pages for c, and each of them counts as one once it is there.
Countable(c) ==
  /\ list[c] \notin {None, <<>>}
  /\ \A i \in DOMAIN list[c] : list[c][i] \in ImageExt

\* However often a run was killed or failed, and however many pages MangaDex
\* listed since, a zip has every page its meta.json counts, though the code
\* counts files and never looks at their numbers.  (Of a chapter in whose
\* directory a page came with two extensions, or with none that counts, the
\* code takes the files for pages they are not, and the zip may lack some.)
ZipHasEveryPage ==
  \A c \in Chapters \ mixed : zip[c] # None =>
    1..zip[c].meta.pages \subseteq {f.index : f \in zip[c].pages}

\* A zip that is there stays: no later run, not even one that is killed while
\* it builds another, takes it away, and the one that replaces it has at least
\* its pages (of a directory as above).
ZipNeverShrinks ==
  [][\A c \in Chapters : zip[c] # None =>
       /\ zip'[c] # None
       /\ c \notin mixed' => {f.index : f \in zip[c].pages} \subseteq
                              {f.index : f \in zip'[c].pages}]_vars

\* What the summary of a run counts is there: a chapter skipped as complete has
\* a zip that the next run accepts, and so has one counted as downloaded with a
\* zip asked for, if every page MangaDex listed was one that counts.  (If not,
\* and in a dry run, "ok" says nothing of a zip.)
DoneIsReady ==
  pc = "exit" =>
    \A c \in Chapters :
      \/ done[c] = "skipped"
      \/ done[c] = "ok" /\ args.make_zip /\ ~args.dry_run /\ Countable(c)
      => ZipValid(c)

\* --continue-on-error: a run that is not killed tries every chapter of its
\* range, unless what fails lies outside the try of the loop: reading a
\* meta.json that an earlier run left torn, or zipping a directory that an
\* earlier run left complete without a zip.
StopsOnlyOutsideTry ==
  pc = "exit" /\ args.batch /\ args.continue_on_error =>
    \/ \A i \in 1..Len(args.plan) : done[args.plan[i]] # None
    \/ meta[Chapter] = Torn
    \/ ToZip /\ ~SkipReady

-----------------------------------------------------------------------------
(* What the documents say.                                                 *)

\* README.md 44: a run resumes, ignoring what is there already.  A chapter the
\* next run would skip as complete has all its pages, whole.
ReadyIsWhole ==
  \A c \in Chapters :
    meta[c] # Torn /\ ZipValid(c) => \A f \in zip[c].pages : f.whole

-----------------------------------------------------------------------------
(* Liveness.                                                               *)

\* README.md 44: "reprise".  A chapter that is downloaded with a zip again and
\* again ends up zipped, whatever failed or was killed before, a torn meta.json
\* and a .zip.part left behind included, once MangaDex lists pages that count.
EventuallyZipped ==
  \A c \in Chapters :
    /\ []<>(pc = "home" /\ Chapter = c /\ args.make_zip)
    /\ <>[](list[c] # None => Countable(c))
    => <>(zip[c] # None)

=============================================================================
