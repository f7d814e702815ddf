--------------------------- MODULE MCImporterJobs ---------------------------
(* Small instances of ImporterJobs for TLC.                                *)
EXTENDS ImporterJobs, TLC

CONSTANT a
OneTag   == {a}
UrlWork  == {[tag |-> a, kind |-> "url"]}

\* Two jobs of users at a time, in the pairs that can meet.
Menu(r, t, i, b, c) == [refresh |-> r, test |-> t, import |-> i, binding |-> b, cancel |-> c]
MCMenus ==
    {Menu(1, 0, 1, 0, 0), Menu(0, 1, 1, 0, 1), Menu(1, 0, 0, 1, 1), Menu(0, 1, 0, 1, 1), Menu(1, 1, 0, 0, 1)}

\* What waits for what: fewer works at a time, and cancels in all of them.
LiveMenus == {Menu(1, 0, 0, 0, 1), Menu(0, 1, 1, 0, 1), Menu(0, 0, 0, 1, 1)}
=============================================================================
