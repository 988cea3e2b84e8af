--------------------------- MODULE BatchAssignment ---------------------------
(***************************************************************************)
(* How the reports of a bug tracker become samples for the simulation:     *)
(* simdata.include_batch_information groups them in batches that end with  *)
(* the target number of fixes, simdriver keeps the batches that have just  *)
(* so many, and get_report_batches with get_interarrival_times turns the   *)
(* reports of a group of reporters into a stream of batches and gaps.      *)
(*                                                                         *)
(* Every loop is a loop over the rows of one data frame, sorted by         *)
(* creation date, and one action is one turn.  A report is its dates; one  *)
(* that resolved_definition rejects or that has no resolution date is      *)
(* unresolved, as every comparison with it fails.                          *)
(***************************************************************************)
EXTENDS Integers, SequencesExt

CONSTANTS
  None,            \* no date
  MaxReports,      \* rows of a data frame
  LastDate,        \* dates of reports to be grouped by fixes, 0..LastDate
  LastStreamDate,  \* dates of reports to be made a stream
  DayLength,       \* instants of a day
  Targets          \* values of target_fixes

ASSUME BatchAssumption ==
  /\ None \notin Int
  /\ MaxReports \in Nat /\ LastDate \in Nat /\ LastStreamDate \in Nat
  /\ DayLength \in Nat \ {0} /\ Targets \subseteq Nat \ {0}

VARIABLES
  reports,        \* the data frame: creation and resolution date per row
  target_fixes,   \* fixes in a batch
  group,          \* the rows of the reporters whose stream is looked at
  loop,           \* which loop is under way
  row,            \* its next row, batch or window
  current_batch, current_batch_start,
  batches,            \* the column 'Batch'
  batch_starts,       \* per batch, the date it starts
  batch_resolved_count,
  resolved_in_batch,  \* the column 'Resolved in Batch'
  valid_periods,      \* the batches used as observations
  windows,            \* get_report_batches: heads and counts
  interarrival_times  \* get_interarrival_times

vars == <<reports, target_fixes, group, loop, row, current_batch, current_batch_start,
          batches, batch_starts, batch_resolved_count, resolved_in_batch,
          valid_periods, windows, interarrival_times>>

Created(i) == reports[i].created
Resolution(i) == reports[i].resolution
Rows == DOMAIN reports
RowsOf(batch) == {i \in DOMAIN batches : batches[i] = batch}
UniqueBatches == Range(batches)
MaxDate(rows) == CHOOSE d \in {Created(i) : i \in rows} : \A i \in rows : Created(i) <= d
WINDOW_SIZE == 1
PeriodStart == Created(1)
Fresh == /\ row = 1 /\ current_batch = 0 /\ current_batch_start = None
         /\ batches = << >> /\ batch_starts = << >>
         /\ batch_resolved_count = 0 /\ resolved_in_batch = << >>
         /\ valid_periods = {} /\ windows = << >> /\ interarrival_times = << >>

(* Data frames of n rows, sorted by creation date.                         *)
Frames(n, lastDate, resolutions) ==
  {frame \in [1..n -> [created : 0..lastDate, resolution : resolutions]] :
     \A i \in 1..(n - 1) : frame[i].created <= frame[i + 1].created}

-----------------------------------------------------------------------------
(* Either the reports are grouped by fixes, or the stream of a group of    *)
(* reporters is looked at, for which resolutions do not matter.            *)
InitGrouping ==
  /\ loop = "grouping" /\ target_fixes \in Targets /\ group = {}
  /\ \E n \in 0..MaxReports : reports \in Frames(n, LastDate, 0..LastDate \cup {None})
InitStream ==
  /\ loop = "windows" /\ target_fixes \in Targets
  /\ \E n \in 1..MaxReports :
       reports \in Frames(n, LastStreamDate, {None}) /\ group \in (SUBSET (1..n)) \ {{}}
Init == Fresh /\ (InitGrouping \/ InitStream)

(* Fixes between the start of a batch and a report, by date.               *)
CurrentFixes(start, now) ==
  {i \in Rows : /\ start <= Created(i) /\ Created(i) <= now
                /\ Resolution(i) # None /\ Resolution(i) <= now}

(* The next batch starts with the report that comes next.                  *)
NextStart(full, start) == IF full THEN None ELSE start

(* include_batch_information, first loop.                                  *)
AssignBatch ==
  LET new == current_batch_start = None
      start == IF new THEN Created(row) ELSE current_batch_start
      full == Cardinality(CurrentFixes(start, Created(row))) >= target_fixes
  IN  /\ loop = "grouping" /\ row <= Len(reports)
      /\ row' = row + 1
      /\ batches' = Append(batches, current_batch)
      /\ batch_starts' = IF new THEN Append(batch_starts, start) ELSE batch_starts
      /\ current_batch' = IF full THEN current_batch + 1 ELSE current_batch
      /\ current_batch_start' = NextStart(full, start)
      /\ UNCHANGED <<reports, target_fixes, group, loop, batch_resolved_count,
                     resolved_in_batch, valid_periods, windows, interarrival_times>>

(* Mutant: the count goes on from batch to batch.                          *)
CountSoFarNotReset == batch_resolved_count

(* The count starts anew with every batch.                                 *)
CountSoFar ==
  IF batches[row] = (IF row = 1 THEN 0 ELSE batches[row - 1]) THEN batch_resolved_count ELSE 0

(* include_batch_information, second loop.                                 *)
MarkResolved ==
  LET batch == batches[row]
      resolved == /\ CountSoFar < target_fixes
                  /\ Resolution(row) # None
                  /\ batch_starts[batch + 1] <= Resolution(row)
                  /\ Resolution(row) <= MaxDate(RowsOf(batch))
  IN  /\ loop = "marking" /\ row <= Len(reports)
      /\ row' = row + 1
      /\ resolved_in_batch' = Append(resolved_in_batch, resolved)
      /\ batch_resolved_count' = IF resolved THEN CountSoFar + 1 ELSE CountSoFar
      /\ UNCHANGED <<reports, target_fixes, group, loop, current_batch, current_batch_start,
                     batches, batch_starts, valid_periods, windows, interarrival_times>>

ResolvedIn(batch) == {i \in RowsOf(batch) : resolved_in_batch[i]}

(* Mutant: a batch with too few fixes is used as well.                     *)
IsValidPeriodAnyway(batch) == Cardinality(ResolvedIn(batch)) <= target_fixes

(* is_valid_period, with its tolerance of 0.                               *)
IsValidPeriod(batch) == Cardinality(ResolvedIn(batch)) = target_fixes

(* get_team_training_data: a batch is an observation or excluded.          *)
AssessBatch ==
  /\ loop = "assessing" /\ row <= Cardinality(UniqueBatches)
  /\ row' = row + 1
  /\ valid_periods' = IF IsValidPeriod(row - 1) THEN valid_periods \cup {row - 1} ELSE valid_periods
  /\ UNCHANGED <<reports, target_fixes, group, loop, current_batch, current_batch_start,
                 batches, batch_starts, batch_resolved_count, resolved_in_batch,
                 windows, interarrival_times>>

-----------------------------------------------------------------------------
(* Whole days between two dates: the rest of a day is cut off.             *)
DaysBetween(from, to) == (to - from) \div DayLength

InLastWindow(date) == DaysBetween(Last(windows).batch_head, date) <= WINDOW_SIZE

(* get_report_batches                                                      *)
ExtendWindows ==
  /\ loop = "windows" /\ row <= Len(reports)
  /\ row' = row + 1
  /\ windows' =
       IF row \notin group THEN windows
       ELSE IF windows # << >> /\ InLastWindow(Created(row))
       THEN [windows EXCEPT ![Len(windows)].batch_count = @ + 1]
       ELSE Append(windows, [batch_head |-> Created(row), batch_count |-> 1])
  /\ UNCHANGED <<reports, target_fixes, group, loop, current_batch, current_batch_start,
                 batches, batch_starts, batch_resolved_count, resolved_in_batch,
                 valid_periods, interarrival_times>>

(* Mutant: the first batch has no gap before it.                           *)
GapFromPrevious(k) ==
  IF k = 1 THEN 0 ELSE windows[k].batch_head - windows[k - 1].batch_head

(* The gap before a batch, for the first one from the start of the period. *)
GapBefore(k) ==
  windows[k].batch_head - (IF k = 1 THEN PeriodStart ELSE windows[k - 1].batch_head)

(* get_interarrival_times: the first gap is left out if there is none.     *)
MeasureGap ==
  /\ loop = "gaps" /\ row <= Len(windows)
  /\ row' = row + 1
  /\ interarrival_times' = IF row = 1 /\ GapBefore(1) <= 0 THEN interarrival_times
                           ELSE Append(interarrival_times, GapBefore(row))
  /\ UNCHANGED <<reports, target_fixes, group, loop, current_batch, current_batch_start,
                 batches, batch_starts, batch_resolved_count, resolved_in_batch,
                 valid_periods, windows>>

-----------------------------------------------------------------------------
LoopEnds ==
  CASE loop \in {"grouping", "marking", "windows"} -> row > Len(reports)
    [] loop = "assessing" -> row > Cardinality(UniqueBatches)
    [] loop = "gaps" -> row > Len(windows)
    [] OTHER -> FALSE

NextLoop ==
  /\ LoopEnds
  /\ loop' = [grouping |-> "marking", marking |-> "assessing", assessing |-> "done",
              windows |-> "gaps", gaps |-> "done"][loop]
  /\ row' = 1
  /\ UNCHANGED <<reports, target_fixes, group, current_batch, current_batch_start, batches,
                 batch_starts, batch_resolved_count, resolved_in_batch, valid_periods,
                 windows, interarrival_times>>

Finished == loop = "done" /\ UNCHANGED vars

Next ==
  \/ AssignBatch \/ MarkResolved \/ AssessBatch
  \/ ExtendWindows \/ MeasureGap \/ NextLoop \/ Finished

Spec == Init /\ [][Next]_vars
-----------------------------------------------------------------------------
(* The column 'Resolved in Batch' names, in every batch, the first reports *)
(* that were fixed while the batch lasted, up to the target: it counts a   *)
(* batch's own fixes, whatever the loop counted before it.                 *)
FixedMeanwhile(batch) ==
  {i \in RowsOf(batch) : /\ Resolution(i) # None
                         /\ \E j \in RowsOf(batch) : Created(j) <= Resolution(i)
                         /\ \E j \in RowsOf(batch) : Resolution(i) <= Created(j)}
ResolvedAreFirstFixes ==
  loop \in {"assessing", "done"} =>
    \A i \in DOMAIN batches :
      resolved_in_batch[i] <=>
        LET fixed == FixedMeanwhile(batches[i])
        IN  i \in fixed /\ Cardinality({j \in fixed : j < i}) < target_fixes

(* The batches used as observations are those that a fix ended.  The last  *)
(* batch is never used when it was still open, and one that was closed is  *)
(* only excluded if dates are out of order in it or if it shares a         *)
(* creation date with another batch: first loop and second loop count      *)
(* fixes differently just then.                                            *)
Closed(batch) == batch < current_batch
SharesDate(batch) ==
  \E i \in RowsOf(batch), j \in Rows \ RowsOf(batch) : Created(i) = Created(j)
DatesInOrder(batch) ==
  \A i \in RowsOf(batch) : Resolution(i) = None \/ Created(i) <= Resolution(i)
ClosedBatchesAreUsed ==
  loop = "done" =>
    \A batch \in UniqueBatches :
      /\ batch \in valid_periods => Closed(batch)
      /\ Closed(batch) /\ DatesInOrder(batch) /\ ~SharesDate(batch) => batch \in valid_periods

(* The stream of a group of reporters adds up to what they reported: the   *)
(* counts are those of the reports between one head and the next, and the  *)
(* gaps lead from the start of the period to the last head, although the   *)
(* first one may be missing.                                               *)
StreamAddsUp ==
  loop = "done" /\ group # {} =>
    /\ FoldSeq(+, 0, interarrival_times) = Last(windows).batch_head - PeriodStart
    /\ \A k \in DOMAIN windows :
         windows[k].batch_count =
           Cardinality({i \in group :
             /\ windows[k].batch_head <= Created(i)
             /\ k < Len(windows) => Created(i) < windows[k + 1].batch_head})
    /\ FoldSeq(LAMBDA w, n : w.batch_count + n, 0, windows) = Cardinality(group)

=============================================================================
