----------------------------- MODULE MCChapter -----------------------------
(***************************************************************************)
(* Instances of Chapter for TLC: one or two chapters, and the command      *)
(* lines each run lets the user type.                                      *)
(***************************************************************************)
EXTENDS Chapter, TLC

CONSTANTS c1, c2

Download(c) ==
  [batch |-> FALSE, plan |-> <<c>>, make_zip |-> TRUE,
   no_skip_complete |-> FALSE, continue_on_error |-> FALSE, dry_run |-> FALSE]

Batch(make_zip, no_skip, continue, dry) ==
  [batch |-> TRUE, plan |-> <<c1, c2>>,
   make_zip |-> make_zip, no_skip_complete |-> no_skip,
   continue_on_error |-> continue, dry_run |-> dry]

\* Either program.
AnyFlags ==
  {Download(c1),
   Batch(TRUE, FALSE, TRUE, FALSE),
   Batch(TRUE, TRUE, FALSE, FALSE),
   Batch(FALSE, FALSE, TRUE, FALSE),
   Batch(TRUE, FALSE, FALSE, TRUE)}

OneDownload == {Download(c1)}

\* More and fewer pages, another extension for one, one that does not count,
\* and no page at all, for one chapter; the other stays as it is.
AnyList ==
  c1 :> {<<>>, <<".jpg">>, <<".jpg", ".jpg">>, <<".png", ".gif">>}
  @@ c2 :> {<<".jpg">>}

TwoPages == c1 :> {<<".jpg", ".jpg">>}
=============================================================================
