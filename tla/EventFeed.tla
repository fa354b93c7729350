----------------------------- MODULE EventFeed ------------------------------
(***************************************************************************)
(* What a page shows of the event log of its run, as the rest of the       *)
(* system may rely on it: events that are committed, each once, oldest     *)
(* first, the newest ListCap of them; a reload starts over.  It does not   *)
(* promise that every event is shown (see EventStream).                    *)
(***************************************************************************)
EXTENDS Naturals, Sequences

CONSTANT ListCap     \* MAX_EVENTS: how many events the page keeps

VARIABLES committed, \* ids of the events in the log
          shown      \* ids on the page, in the order they were added

vars == <<committed, shown>>

Init == committed = {} /\ shown = <<>>

Commit ==
    /\ committed \subseteq committed'
    /\ UNCHANGED shown

Keep(s) == IF Len(s) > ListCap THEN Tail(s) ELSE s

Show(i) ==
    /\ i \in committed
    /\ \A k \in 1 .. Len(shown) : shown[k] < i
    /\ shown' = Keep(Append(shown, i))
    /\ UNCHANGED committed

Clear == shown' = <<>> /\ UNCHANGED committed

Next == Commit \/ (\E i \in committed : Show(i)) \/ Clear

Spec == Init /\ [][Next]_vars

=============================================================================
