------------------------------ MODULE FilterGen ------------------------------
(***************************************************************************)
(* The filter_changes generator of a log filter in                         *)
(* src/bubble/middleware/filter.py, shared by the sync middleware          *)
(* (RequestLogs, iter_latest_block, iter_latest_block_ranges) and the      *)
(* async one (AsyncRequestLogs, async_iter_latest_block, ...), whose       *)
(* bodies are the same statement for statement.                           *)
(*                                                                         *)
(* Between two next() calls the generator is the record                    *)
(*   [pc, to, last, latest, from]:                                         *)
(* the yield (or the RPC) it is suspended at and its locals to_block,      *)
(* _last, latest_block and from_block.                                     *)
(***************************************************************************)
EXTENDS Integers, BlockRanges

CONSTANTS
    MaxBlockRequest,  \* MAX_BLOCK_REQUEST: blocks per bub_getLogs request
    None,             \* Python None
    Latest            \* the block tag "latest"

ASSUME MaxBlockRequest \in Nat \ {0}

Symbolic(arg) == arg = None \/ arg = Latest

\* Suspension points and RPC waits of the log generator.
Suspended == {"new", "atY1", "atY2", "atEmpty", "atRange", "dead"}
Waiting   == {"resolveTo", "readHead", "fetch"}

\* A fresh generator: nothing of its body has run yet.
NewGen == [pc |-> "new", to |-> 0, last |-> -1, latest |-> 0, from |-> 0]

\* The blocks the get_logs_multipart pages of [s, l] ask the node for.
PagedBlocks(s, l) ==
    LET r == BlockRangesOf(s, l, MaxBlockRequest) IN UNION {BlocksOf(r[i]) : i \in DOMAIN r}

\* Mutant: a symbolic from_block skips the block after the head.
FromBlockAtSkip(arg, h) == IF Symbolic(arg) THEN h + 2 ELSE arg

(***************************************************************************)
(* RequestLogs.__init__ resolves from_block once: None or "latest" is the  *)
(* head + 1 at creation.                                                   *)
(***************************************************************************)
FromBlockAt(arg, h) == IF Symbolic(arg) THEN h + 1 ELSE arg

(***************************************************************************)
(* The middle of iter_latest_block's loop after latest_block was read and  *)
(* the to_block test passed, and iter_latest_block_ranges' test of what it *)
(* yields: no new block, a window starting past the head (both answered    *)
(* with []), or a window to fetch.                                         *)
(***************************************************************************)
Check23(g) ==
    IF g.last = g.latest THEN [g EXCEPT !.pc = "atY2"]
    ELSE IF g.from > g.latest THEN [g EXCEPT !.pc = "atEmpty"]
    ELSE [g EXCEPT !.pc = "fetch"]

\* Mutant: a `continue` after `yield None`, back to reading the head.
ResumeAfterY1Continue(g) == [g EXCEPT !.pc = "readHead"]

\* Resumed after `yield None` for latest_block > to_block: the same,
\* now stale, latest_block goes on to the second test.
ResumeAfterY1(g) == Check23(g)

\* Mutant: from_block is not advanced past a yielded window.
ResumeNoAdvance(f, g) ==
    CASE g.pc = "new" /\ Symbolic(f.toArg) -> [g EXCEPT !.pc = "resolveTo", !.from = f.from0]
      [] g.pc = "new"     -> [g EXCEPT !.pc = "readHead", !.to = f.toArg, !.from = f.from0]
      [] g.pc = "atY1"    -> ResumeAfterY1(g)
      [] g.pc = "atRange" -> [g EXCEPT !.pc = "readHead", !.last = g.latest]
      [] OTHER            -> [g EXCEPT !.pc = "readHead", !.last = g.latest]
(***************************************************************************)
(* next() on a suspended generator: where it runs to before its next RPC   *)
(* or yield.  Resuming after a yielded window advances from_block to       *)
(* latest_block + 1; every resumption sets _last and reads the head again. *)
(***************************************************************************)
Resume(f, g) ==
    CASE g.pc = "new" /\ Symbolic(f.toArg) -> [g EXCEPT !.pc = "resolveTo", !.from = f.from0]
      [] g.pc = "new"     -> [g EXCEPT !.pc = "readHead", !.to = f.toArg, !.from = f.from0]
      [] g.pc = "atY1"    -> ResumeAfterY1(g)
      [] g.pc = "atRange" -> [g EXCEPT !.pc = "readHead", !.from = g.latest + 1, !.last = g.latest]
      [] OTHER            -> [g EXCEPT !.pc = "readHead", !.last = g.latest]

\* Mutant: the to_block property reads a head one block behind.
FilterLogsWindowStale(f, h) == <<f.from0, IF Symbolic(f.toArg) THEN h - 1 ELSE f.toArg>>

\* The window bub_getFilterLogs fetches: from_block to the to_block
\* property, which reads the head again for None and "latest".
FilterLogsWindow(f, h) == <<f.from0, IF Symbolic(f.toArg) THEN h ELSE f.toArg>>

=============================================================================
