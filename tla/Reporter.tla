------------------------------ MODULE Reporter -------------------------------
(***************************************************************************)
(* What a user or a script sees of a transfer: the two reporters that      *)
(* print TransferEvents (src/jsonl_reporter.rs, src/text_reporter.rs), the *)
(* terminal they print to, and a script that reads the JSON lines.         *)
(*                                                                         *)
(* The state of a reporter and of what it printed is one record:           *)
(*     lastPct   JsonlReporter.last_pct                                    *)
(*     pcts      the percentages printed in this transfer, in order        *)
(*     seen      the last milestone the script has read, or "lost" when a  *)
(*               line came that cannot follow                              *)
(*     bar       TextReporter.bar_active                                   *)
(*     screen    the terminal: "fresh" with the cursor at the start of a   *)
(*               line, "bar" with it behind a progress bar; "torn" ever    *)
(*               after a line of the reporter was written behind a bar,    *)
(*               "glued" after main's error message was                    *)
(***************************************************************************)
EXTENDS Integers, Sequences

CONSTANTS
    Jsonl,          \* --jsonl
    Progress        \* --progress

ASSUME ReporterAssumption == Jsonl \in BOOLEAN /\ Progress \in BOOLEAN

-----------------------------------------------------------------------------
(* TransferEvent.  Only Progress carries values that matter here. *)

Event(kind) == [kind |-> kind, done |-> 0, total |-> 0]
ProgressEvent(done, total) == [kind |-> "progress", done |-> done, total |-> total]

\* Nothing is reported; main prints the error that ended the process.
Nothing   == Event("none")
ExitError == Event("error")

Begins(e) == e.kind \in {"sending", "receiving"}

\* Events that are reported with --progress only.
Gated(e) == e.kind \in {"pass", "missing", "progress"} /\ ~Progress

NewReporter == [lastPct |-> -1, pcts |-> <<>>, seen |-> "start", bar |-> FALSE, screen |-> "fresh"]

-----------------------------------------------------------------------------
(* A script that reads the JSON lines: which line may follow which milestone. *)

Follows ==
    [start     |-> {"sending", "listening"},
     sending   |-> {"pass", "progress", "completed"},
     completed |-> {},
     listening |-> {"bad_init", "receiving"},
     receiving |-> {"progress", "missing", "saved", "failed"},
     saved     |-> {"listening"},
     failed    |-> {"listening"},
     lost      |-> {}]

Read(seen, kind) == IF kind \notin Follows[seen] THEN "lost"
                    ELSE IF kind \in DOMAIN Follows THEN kind ELSE seen

-----------------------------------------------------------------------------
(* JsonlReporter *)

Percent(done, total) == (done * 100) \div total

\* One line per change of the whole percentage, and none for an empty file.
Throttled(r, e) == e.total = 0 \/ Percent(e.done, e.total) = r.lastPct

\* Mutant of JsonlBegin: last_pct is not reset when a transfer begins.
JsonlBeginKeeping(r, e) == [r EXCEPT !.pcts = <<>>, !.seen = Read(@, e.kind)]

JsonlBegin(r, e) == [r EXCEPT !.lastPct = -1, !.pcts = <<>>, !.seen = Read(@, e.kind)]

JsonlProgress(r, e) ==
    IF Throttled(r, e) THEN r
    ELSE [r EXCEPT !.lastPct = Percent(e.done, e.total),
                   !.pcts = Append(@, Percent(e.done, e.total)),
                   !.seen = Read(@, "progress")]

JsonlPrint(r, e) ==
    IF Gated(e) THEN r
    ELSE IF Begins(e) THEN JsonlBegin(r, e)
    ELSE IF e.kind = "progress" THEN JsonlProgress(r, e)
    ELSE [r EXCEPT !.seen = Read(@, e.kind)]

-----------------------------------------------------------------------------
(* TextReporter *)

\* draw_progress_bar
DrawBar(r, e) == IF Gated(e) \/ e.total = 0 THEN r
                 ELSE [r EXCEPT !.bar = TRUE, !.screen = IF @ = "fresh" THEN "bar" ELSE @]

Newline(r) == [r EXCEPT !.bar = FALSE, !.screen = IF @ = "bar" THEN "fresh" ELSE @]

\* Mutant of CloseBar: lines on stderr leave the bar alone.
CloseBarOnStdout(r, e) ==
    IF r.bar /\ e.kind \notin {"failed", "bad_init"} THEN Newline(r) ELSE r

\* Any line but progress closes a pending bar, printed or not.
CloseBar(r, e) == IF r.bar THEN Newline(r) ELSE r

WriteLine(r, e) == [r EXCEPT !.screen = IF ~Gated(e) /\ @ = "bar" THEN "torn" ELSE @]

TextPrint(r, e) == IF e.kind = "progress" THEN DrawBar(r, e)
                                          ELSE WriteLine(CloseBar(r, e), e)

-----------------------------------------------------------------------------
\* main prints "error: ..." on stderr, past the reporter.
MainError(r) == [r EXCEPT !.screen = IF @ = "bar" THEN "glued" ELSE @]

\* What the reporter make_reporter has chosen, or main, prints of an event.
Shows(r, e) == IF e.kind = "none" THEN r
               ELSE IF e.kind = "error" THEN MainError(r)
               ELSE IF Jsonl THEN JsonlPrint(r, e) ELSE TextPrint(r, e)
=============================================================================
