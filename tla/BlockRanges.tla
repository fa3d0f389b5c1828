---------------------------- MODULE BlockRanges ----------------------------
(***************************************************************************)
(* The block-range chunking of the local filter middleware,                *)
(* src/bubble/middleware/filter.py: gen_bounded_segments, segment_count    *)
(* and block_ranges.  get_logs_multipart issues one bub_getLogs request    *)
(* per range these operators yield, so they decide which blocks a filter   *)
(* poll asks the node for.                                                 *)
(*                                                                         *)
(* A Python generator of pairs is modelled as the sequence of the pairs it *)
(* yields; raising TypeError is modelled by the value RangeError, the      *)
(* ValueError of range() with step 0 by the value StepError.               *)
(***************************************************************************)
EXTENDS Integers, Sequences

\* The TypeError block_ranges raises when start_block > last_block.
RangeError == "RangeError"

\* The ValueError range(a, b, 0) raises (MAX_BLOCK_REQUEST = 0).
StepError == "StepError"

\* Mutant: the remainder segment is not yielded.
GenBoundedSegmentsNoRemainder(start, stop, step) ==
    IF start + step >= stop THEN << <<start, stop>> >>
    ELSE [k \in 1 .. (stop - start) \div step |-> <<start + (k - 1) * step, start + k * step>>]

(***************************************************************************)
(* gen_bounded_segments(start, stop, step): half-open segments [a, b).     *)
(* zip(range(start, stop - step + 1, step), range(start + step, stop + 1,  *)
(* step)) yields (stop - start) // step full segments; the remainder, if   *)
(* any, is yielded last.  range() refuses a step of 0.                    *)
(***************************************************************************)
GenBoundedSegments(start, stop, step) ==
    IF start + step >= stop
    THEN << <<start, stop>> >>
    ELSE IF step = 0 THEN StepError
    ELSE LET full      == (stop - start) \div step
             remainder == (stop - start) % step
             segments  == [k \in 1..full |-> <<start + (k - 1) * step, start + k * step>>]
         IN  IF remainder # 0
             THEN Append(segments, <<stop - remainder, stop>>)
             ELSE segments

SegmentCount(start, stop, step) == GenBoundedSegments(start, stop, step)

\* Mutant: the upper end is decremented twice.
BlockRangesOfTwice(startBlock, lastBlock, step) ==
    IF startBlock > lastBlock THEN RangeError
    ELSE IF step = 0 THEN StepError
    ELSE LET segs == SegmentCount(startBlock, lastBlock + 1, step)
         IN  [i \in DOMAIN segs |-> <<segs[i][1], segs[i][2] - 2>>]

(***************************************************************************)
(* block_ranges(start_block, last_block, step): inclusive ranges, each     *)
(* half-open segment of [start_block, last_block + 1) with its upper end   *)
(* decremented.  A start after the last block raises TypeError; with a    *)
(* step of 0 the window [start, last + 1) is never a single page, so       *)
(* gen_bounded_segments reaches range(), which raises ValueError.          *)
(***************************************************************************)
BlockRangesOf(startBlock, lastBlock, step) ==
    IF startBlock > lastBlock
    THEN RangeError
    ELSE IF step = 0 THEN StepError
    ELSE LET segs == SegmentCount(startBlock, lastBlock + 1, step)
         IN  [i \in DOMAIN segs |-> <<segs[i][1], segs[i][2] - 1>>]

\* The blocks an inclusive range covers.
BlocksOf(r) == r[1] .. r[2]

=============================================================================
