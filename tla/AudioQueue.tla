----------------------------- MODULE AudioQueue -----------------------------
(***************************************************************************)
(* The queue between two stages of a sound link (src/audio/runtime/queue.rs), *)
(* which never makes its producer wait, and the supervisor of the stages   *)
(* (workers.rs), which stops them all when one ends.                       *)
(***************************************************************************)
EXTENDS Naturals, Sequences

NewQueue(limit) == [items |-> <<>>, closed |-> FALSE, limit |-> limit]

\* push: a full queue is emptied first; the newest item is what counts.
Pushed(q, item) ==
    IF q.closed THEN q
    ELSE [q EXCEPT !.items = IF Len(@) = q.limit THEN <<item>> ELSE Append(@, item)]

Popped(q) == [q EXCEPT !.items = Tail(@)]
Emptied(q) == [q EXCEPT !.items = <<>>]
ClosedQueue(q) == [q EXCEPT !.items = <<>>, !.closed = TRUE]

\* Workers::finish: it waits for the stop or the first stage to end, cancels the
\* others, closes the queues, and collects them all.
Supervise(phase, stop, someEnded, allEnded) ==
    CASE phase = "select" /\ (stop \/ someEnded) -> "cancel"
      [] phase = "cancel" -> "close"
      [] phase = "close" -> "join"
      [] phase = "join" /\ allEnded -> "done"
      [] OTHER -> phase
=============================================================================
