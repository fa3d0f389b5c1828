--------------------------- MODULE MCBlockRanges ---------------------------
(***************************************************************************)
(* Checks block_ranges against its reference meaning over every call with *)
(* start_block in StartBlocks, last_block in LastBlocks and a step (the    *)
(* MAX_BLOCK_REQUEST page size) in Steps.  Each state is one call.         *)
(***************************************************************************)
EXTENDS BlockRanges, FiniteSets

CONSTANTS StartBlocks, LastBlocks, Steps

ASSUME Steps \subseteq Nat    \* to_int of WEB3_MAX_BLOCK_REQUEST; 0 is accepted

VARIABLE call    \* <<start_block, last_block, step>> of the current call

Init == call = <<0, 0, 1>>

\* A caller (get_logs_multipart) asks for the ranges of one window.
Call == \E s \in StartBlocks, l \in LastBlocks, st \in Steps : call' = <<s, l, st>>

Spec == Init /\ [][Call]_call

Result == BlockRangesOf(call[1], call[2], call[3])

\* Every yielded range is a pair of block numbers.
TypeOK ==
    /\ call \in StartBlocks \X LastBlocks \X Steps \cup {<<0, 0, 1>>}
    /\ CASE call[1] > call[2] -> Result = RangeError
         [] call[3] = 0       -> Result = StepError
         [] OTHER             -> Result \in Seq(Nat \X Nat)

(***************************************************************************)
(* block_ranges splits [start, last] into pages that, in order, are        *)
(* non-empty, at most `step` blocks long, start at `start`, end at `last`  *)
(* and follow each other without gap or overlap; a start after the last    *)
(* block is refused.  bub_getLogs is asked for exactly these pages, so a   *)
(* wrong page drops or duplicates the logs of a block.  A page size of 0   *)
(* (WEB3_MAX_BLOCK_REQUEST=0) is refused for every window, never answered *)
(* with pages that leave blocks out.                                       *)
(***************************************************************************)
ChunksPartitionRange ==
    LET s == call[1]  l == call[2]  st == call[3]  r == Result
    IN  IF s > l
        THEN r = RangeError
        ELSE IF st = 0
        THEN r = StepError
        ELSE /\ Len(r) >= 1
             /\ r[1][1] = s
             /\ r[Len(r)][2] = l
             /\ \A i \in DOMAIN r : r[i][1] <= r[i][2] /\ Cardinality(BlocksOf(r[i])) <= st
             /\ \A i \in 1 .. Len(r) - 1 : r[i + 1][1] = r[i][2] + 1

=============================================================================
