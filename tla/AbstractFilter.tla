--------------------------- MODULE AbstractFilter ---------------------------
(***************************************************************************)
(* What a log filter promises its caller (spec 3 and 4.3, item 4 of 8):    *)
(* successive polls return consecutive runs of blocks, each starting right *)
(* after the last block returned (at fromBlock for the first), ending at   *)
(* or before the current head, so no block is returned twice or skipped;   *)
(* and a caller who keeps polling eventually gets every mined block,      *)
(* unless the filter has been closed: a transport error escaping a poll    *)
(* closes it for good, and a closed filter returns nothing more.           *)
(*                                                                         *)
(* A poll that returns nothing is a stuttering step.                       *)
(***************************************************************************)
EXTENDS Integers, FiniteSets, FiniteSetsExt, TLC

CONSTANTS Ids, MaxHead

VARIABLES
    head,       \* the chain's head
    installed,  \* id -> fromBlock of each created filter
    seen,       \* id -> blocks returned so far
    returned,   \* id -> number of blocks returned so far, repeats counted
    closed      \* ids of the filters an error has closed

avars == <<head, installed, seen, returned, closed>>

\* The first block the next poll of filter id may return.
NextBlock(id) == IF seen[id] = {} THEN installed[id] ELSE Max(seen[id]) + 1

Init ==
    /\ head = 0 /\ installed = <<>>
    /\ seen = [id \in Ids |-> {}] /\ returned = [id \in Ids |-> 0]
    /\ closed = {}

Mine ==
    /\ head < MaxHead /\ head' = head + 1
    /\ UNCHANGED <<installed, seen, returned, closed>>

Create(id, from) ==
    /\ id \in Ids \ DOMAIN installed
    /\ installed' = (id :> from) @@ installed
    /\ UNCHANGED <<head, seen, returned, closed>>

\* A poll returns the blocks NextBlock(id) .. last.
Poll(id, last) ==
    /\ id \in DOMAIN installed \ closed
    /\ NextBlock(id) <= last /\ last <= head
    /\ seen'     = [seen EXCEPT ![id] = @ \cup NextBlock(id) .. last]
    /\ returned' = [returned EXCEPT ![id] = @ + (last - NextBlock(id) + 1)]
    /\ UNCHANGED <<head, installed, closed>>

\* A transport error escaping a poll closes the filter.
Close(id) ==
    /\ id \in DOMAIN installed \ closed
    /\ closed' = closed \cup {id}
    /\ UNCHANGED <<head, installed, seen, returned>>

Next ==
    \/ Mine
    \/ \E id \in Ids, from \in 0 .. MaxHead + 1 : Create(id, from)
    \/ \E id \in Ids, last \in 0 .. MaxHead : Poll(id, last)
    \/ \E id \in Ids : Close(id)

\* A caller who keeps polling an open filter eventually gets everything up to
\* the head.
Spec == Init /\ [][Next]_avars /\ \A id \in Ids : WF_avars(Poll(id, head))

=============================================================================
