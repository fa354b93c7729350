------------------------------- MODULE RunRow -------------------------------
(***************************************************************************)
(* What the run's row and its saved answers go through, whichever handler, *)
(* task or sweep writes them and however those interleave: the contract    *)
(* RunLifecycle implements in every environment.  The documented status    *)
(* machine is stronger; the code keeps it only when nothing races (see     *)
(* RunLifecycle's DocumentedSteps).                                        *)
(***************************************************************************)
CONSTANT Answers     \* POST /answers requests

VARIABLES status, dated, messages

vars == <<status, dated, messages>>

Fresh    == {"created", "questioning"}
Terminal == {"completed", "failed", "cancelled"}

Init ==
    /\ status = "questioning"
    /\ dated = FALSE
    /\ messages = {}

\* Answers are saved in the commit that starts a run, and only then.
Accept(a) ==
    /\ status \in Fresh
    /\ status' = "running"
    /\ messages' = messages \cup {a}
    /\ UNCHANGED dated

\* A run starts over only from failed or cancelled, on saved answers.
Restart ==
    /\ status \in {"failed", "cancelled"}
    /\ messages # {}
    /\ status' = "running"
    /\ dated' = FALSE
    /\ UNCHANGED messages

RequestCancel ==
    /\ status' = "cancelling"
    /\ UNCHANGED <<dated, messages>>

\* The end of a run is written together with its completed_at.
Close ==
    /\ status' \in Terminal
    /\ dated' = TRUE
    /\ UNCHANGED messages

\* completed_at alone is written by a mark that finds its status in place.
Redate ==
    /\ dated' = TRUE
    /\ UNCHANGED <<status, messages>>

Next ==
    \/ \E a \in Answers : Accept(a)
    \/ Restart
    \/ RequestCancel
    \/ Close
    \/ Redate

Spec == Init /\ [][Next]_vars

=============================================================================
