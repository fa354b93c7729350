---------------------------- MODULE EventStream -----------------------------
(***************************************************************************)
(* The event stream of one run: core/events.py writes an event in three    *)
(* steps (INSERT, COMMIT, NOTIFY on another connection) and serves a       *)
(* subscriber in two (replay query, then LISTEN); the hook of              *)
(* frontend/lib/sse.ts shows what arrives, drops what it has seen,         *)
(* reconnects, and closes the stream by itself when the run seems over.    *)
(*                                                                         *)
(* One page is modelled: pages do not influence each other.  Events are    *)
(* their ids; of an event's content only its kind matters.                 *)
(***************************************************************************)
EXTENDS Naturals, Sequences, FiniteSets

CONSTANTS
    Publishers,   \* coroutines that publish; each publishes one event at a time
    ListCap,      \* MAX_EVENTS: how many events the page keeps
    MaxRetries,   \* MAX_RETRIES: failed connections in a row before giving up
    MaxEvents,    \* bound: events published
    MaxFailures,  \* bound: publishers interrupted between two steps
    MaxDrops,     \* bound: open connections lost
    MaxRefusals,  \* bound: connections lost before they open
    MaxRestarts   \* bound: page reloads and re-runs of the hook

ASSUME StreamAssumption ==
    /\ ListCap \in Nat \ {0}
    /\ MaxRetries \in Nat
    /\ MaxEvents \in Nat
    /\ MaxFailures \in Nat
    /\ MaxDrops \in Nat
    /\ MaxRefusals \in Nat
    /\ MaxRestarts \in Nat

VARIABLES
    lastId,     \* events_id_seq
    kind,       \* type of the event with this id, as far as the page cares
    committed,  \* ids in the events table
    pub,        \* the publishers
    stream,     \* the server side of the page's current connection
    wire,       \* ids the server has yielded and the page has not handled
    client,     \* the hook
    last,       \* lastEventIdRef, 0 for null
    shown,      \* ids on the page
    settling,   \* latestLifecycleTerminalRef, with its timer armed
    retries,    \* retriesRef
    unheard,    \* history: ids nobody told the current connection of
    count       \* bookkeeping for the bounds

log   == <<lastId, kind, committed, pub>>
page  == <<client, last, shown, settling, retries>>
vars  == <<log, stream, wire, page, unheard, count>>

Ids  == 1 .. MaxEvents

\* TERMINAL_RUN_EVENT_TYPES, the other RUN_LIFECYCLE_EVENT_TYPES, all others.
Kind == {"terminal", "lifecycle", "progress"}

Idle == [pc |-> "idle", id |-> 0]

Init ==
    /\ lastId = 0
    /\ kind = [i \in Ids |-> "progress"]
    /\ committed = {}
    /\ pub = [p \in Publishers |-> Idle]
    /\ stream = "opened"
    /\ wire = <<>>
    /\ client = "connecting"
    /\ last = 0
    /\ shown = <<>>
    /\ settling = FALSE
    /\ retries = 0
    /\ unheard = {}
    /\ count = [failures |-> 0, drops |-> 0, refusals |-> 0, restarts |-> 0]

Spend(what, bound) ==
    /\ count[what] < bound
    /\ count' = [count EXCEPT ![what] = @ + 1]

-----------------------------------------------------------------------------
(* publish: the sequence hands out the id at the flush, ...                *)

Insert(p) ==
    /\ pub[p].pc = "idle"
    /\ lastId < MaxEvents
    /\ lastId' = lastId + 1
    /\ \E k \in Kind : kind' = [kind EXCEPT ![lastId + 1] = k]
    /\ pub' = [pub EXCEPT ![p] = [pc |-> "inserted", id |-> lastId + 1]]
    /\ UNCHANGED <<committed, stream, wire, page, unheard, count>>

\* ... others see the row after the commit, ...
Commit(p) ==
    /\ pub[p].pc = "inserted"
    /\ committed' = committed \cup {pub[p].id}
    /\ pub' = [pub EXCEPT ![p].pc = "committed"]
    /\ UNCHANGED <<lastId, kind, stream, wire, page, unheard, count>>

\* A connection that has replayed without i learns of it from a notification
\* or not at all.
Unheard(i) ==
    unheard' = IF /\ stream \in {"replayed", "live"}
                  /\ i > last
                  /\ \A k \in DOMAIN wire : wire[k] # i
               THEN unheard \cup {i} ELSE unheard

\* ... and a LISTENing connection hears of it with the notification.
Notify(p) ==
    /\ pub[p].pc = "committed"
    /\ IF stream = "live"
       THEN wire' = Append(wire, pub[p].id) /\ UNCHANGED unheard
       ELSE Unheard(pub[p].id) /\ UNCHANGED wire
    /\ pub' = [pub EXCEPT ![p] = Idle]
    /\ UNCHANGED <<lastId, kind, committed, stream, page, count>>

\* A lost connection or a cancelled task: an uncommitted row is rolled back,
\* a committed one is not announced.
Interrupt(p) ==
    /\ pub[p].pc # "idle"
    /\ Spend("failures", MaxFailures)
    /\ IF pub[p].pc = "committed" THEN Unheard(pub[p].id) ELSE UNCHANGED unheard
    /\ pub' = [pub EXCEPT ![p] = Idle]
    /\ UNCHANGED <<lastId, kind, committed, stream, wire, page>>

-----------------------------------------------------------------------------
(* subscribe: the replay query.  last_event_id is what the page had shown  *)
(* when it connected, and it shows nothing new before the replay.          *)

Missed == {i \in committed : i > last}

\* The sequences that enumerate S, smallest first: ORDER BY id.
Ordered(S) ==
    {s \in [1 .. Cardinality(S) -> S] :
        /\ \A i \in S : \E k \in DOMAIN s : s[k] = i
        /\ \A j, k \in DOMAIN s : j < k => s[j] < s[k]}

\* The query has no ORDER BY.
BugReplay ==
    /\ stream = "opened"
    /\ wire' \in {s \in [1 .. Cardinality(Missed) -> Missed] :
                     \A i \in Missed : \E k \in DOMAIN s : s[k] = i}
    /\ stream' = "replayed"
    /\ unheard' = unheard \ Missed
    /\ UNCHANGED <<log, page, count>>

Replay ==
    /\ stream = "opened"
    /\ wire' \in Ordered(Missed)
    /\ stream' = "replayed"
    /\ unheard' = unheard \ Missed
    /\ UNCHANGED <<log, page, count>>

\* add_listener.
Listen ==
    /\ stream = "replayed"
    /\ stream' = "live"
    /\ UNCHANGED <<log, wire, page, unheard, count>>

-----------------------------------------------------------------------------
(* useEventStream.                                                         *)

\* onopen does not reset the counter.
BugOpen ==
    /\ client = "connecting"
    /\ client' = "open"
    /\ UNCHANGED <<log, stream, wire, last, shown, settling, retries, unheard, count>>

\* onopen.
Open ==
    /\ client = "connecting"
    /\ client' = "open"
    /\ retries' = 0
    /\ UNCHANGED <<log, stream, wire, last, shown, settling, unheard, count>>

Keep(s) == IF Len(s) > ListCap THEN Tail(s) ELSE s

\* No deduplication.
BugDeliver ==
    /\ client = "open"
    /\ wire # <<>>
    /\ wire' = Tail(wire)
    /\ last' = Head(wire)
    /\ shown' = Keep(Append(shown, Head(wire)))
    /\ settling' = IF kind[Head(wire)] = "progress" THEN settling
                   ELSE kind[Head(wire)] = "terminal"
    /\ UNCHANGED <<log, stream, client, retries, unheard, count>>

\* Once a terminal event has been shown, it stays the latest one.
BugDeliverSticky ==
    /\ client = "open"
    /\ wire # <<>>
    /\ wire' = Tail(wire)
    /\ IF Head(wire) <= last
       THEN UNCHANGED <<last, shown, settling>>
       ELSE /\ last' = Head(wire)
            /\ shown' = Keep(Append(shown, Head(wire)))
            /\ settling' = (settling \/ kind[Head(wire)] = "terminal")
    /\ UNCHANGED <<log, stream, client, retries, unheard, count>>

\* handleEvent: what is not newer than the last event is a duplicate.
Deliver ==
    /\ client = "open"
    /\ wire # <<>>
    /\ wire' = Tail(wire)
    /\ IF Head(wire) <= last
       THEN UNCHANGED <<last, shown, settling>>
       ELSE /\ last' = Head(wire)
            /\ shown' = Keep(Append(shown, Head(wire)))
            /\ settling' = IF kind[Head(wire)] = "progress" THEN settling
                           ELSE kind[Head(wire)] = "terminal"
    /\ UNCHANGED <<log, stream, client, retries, unheard, count>>

Disconnect == stream' = "none" /\ wire' = <<>>

\* The timer of a terminal event fires.  It is longer than what is on the wire
\* takes to arrive, shorter than any backoff, and nothing but another event or
\* a new run of the hook stops it.
Settle ==
    /\ settling
    /\ client # "over"
    /\ client = "open" => wire = <<>>
    /\ client' = "over"
    /\ Disconnect
    /\ UNCHANGED <<log, last, shown, settling, retries, unheard, count>>

\* onerror: close, and try again after a backoff unless that failed too often.
Fail ==
    /\ Disconnect
    /\ retries' = retries + 1
    /\ client' = IF retries + 1 > MaxRetries THEN "gaveUp" ELSE "backoff"
    /\ UNCHANGED <<log, last, shown, settling, unheard>>

Drop == client = "open" /\ Spend("drops", MaxDrops) /\ Fail

Refuse == client = "connecting" /\ Spend("refusals", MaxRefusals) /\ Fail

\* GET /stream: a Last-Event-ID header, else the query parameter, says which
\* events the page has.  The hook opens a new EventSource each time, which
\* sends no header, and puts `last` into the parameter.
stream_run == stream' = "opened" /\ wire' = <<>>

Connect == stream_run /\ client' = "connecting"

Reconnect ==
    /\ client = "backoff"
    /\ Connect
    /\ UNCHANGED <<log, last, shown, settling, retries, unheard, count>>

\* The user retried the run: the effect is torn down and runs again, on the
\* same references.  By then run_retry_started is in the log.
Rerun ==
    /\ \E i \in committed : kind[i] = "lifecycle"
    /\ Spend("restarts", MaxRestarts)
    /\ Connect
    /\ retries' = 0
    /\ settling' = FALSE
    /\ UNCHANGED <<log, last, shown, unheard>>

\* The user reloads the page.
Reload ==
    /\ Spend("restarts", MaxRestarts)
    /\ Connect
    /\ last' = 0
    /\ shown' = <<>>
    /\ retries' = 0
    /\ settling' = FALSE
    /\ UNCHANGED <<log, unheard>>

-----------------------------------------------------------------------------
PublisherStep(p) == Commit(p) \/ Notify(p)

Next ==
    \/ \E p \in Publishers : Insert(p) \/ PublisherStep(p) \/ Interrupt(p)
    \/ Replay \/ Listen
    \/ Open \/ Deliver \/ Settle \/ Drop \/ Refuse \/ Reconnect \/ Rerun \/ Reload

Spec == Init /\ [][Next]_vars

\* A publisher that began goes on, the server answers, the browser handles
\* what arrives and fires its timers.
Fairness ==
    /\ \A p \in Publishers : WF_vars(PublisherStep(p))
    /\ WF_vars(Replay) /\ WF_vars(Listen)
    /\ WF_vars(Open) /\ WF_vars(Deliver) /\ WF_vars(Settle) /\ WF_vars(Reconnect)

FairSpec == Spec /\ Fairness

-----------------------------------------------------------------------------
(* What must hold.                                                         *)

\* Every variable stays in its range; a connection exists only for a page that
\* asked for one, and the bounds hold.
TypeOK ==
    /\ lastId \in 0 .. MaxEvents
    /\ kind \in [Ids -> Kind]
    /\ committed \subseteq 1 .. lastId
    /\ pub \in [Publishers -> [pc : {"idle", "inserted", "committed"}, id : 0 .. MaxEvents]]
    /\ stream \in {"none", "opened", "replayed", "live"}
    /\ wire \in Seq(committed)
    /\ client \in {"connecting", "open", "backoff", "gaveUp", "over"}
    /\ stream # "none" <=> client \in {"connecting", "open"}
    /\ last \in 0 .. lastId
    /\ shown \in Seq(committed)
    /\ settling \in BOOLEAN
    /\ retries \in 0 .. MaxRetries + 1
    /\ unheard \subseteq committed
    /\ count \in [failures : 0 .. MaxFailures, drops : 0 .. MaxDrops,
                  refusals : 0 .. MaxRefusals, restarts : 0 .. MaxRestarts]

OnPage == {shown[k] : k \in DOMAIN shown}
OnWire == {wire[k] : k \in DOMAIN wire}
Announcing == {pub[p].id : p \in {q \in Publishers : pub[q].pc = "committed"}}

\* The list is full and i is older than everything on it.
Forgotten(i) == Len(shown) = ListCap /\ i < shown[1]

\* What is accounted for: an event on its way to the page, or waiting for the
\* next replay.
Coming(i) ==
    \/ i \in Announcing
    \/ i > last /\ (stream \in {"none", "opened"} \/ i \in OnWire)

\* No committed event gets lost between the log, a broken connection, the
\* replay and the page's duplicate check, but for one whose notification no
\* connection was there to hear (Unheard).  It needs a single publisher.
Accounted ==
    \A i \in committed : i \in OnPage \/ Forgotten(i) \/ Coming(i) \/ i \in unheard

\* Every event up to the last one shown has been shown.
ReplayNoGaps ==
    \A i \in committed : i <= last => i \in OnPage \/ Forgotten(i)

\* Of the lifecycle events on the page the latest is a terminal one, unless the
\* list overflowed since.
ShowsEnd ==
    /\ (\E i \in OnPage : kind[i] = "terminal") \/ Len(shown) = ListCap
    /\ \A i \in OnPage : kind[i] = "lifecycle" =>
           \E j \in OnPage : j > i /\ kind[j] = "terminal"

\* A page that closed its stream by itself shows a run that is over, whatever
\* was replayed, repeated or lost on the way.
OverIsOver == client = "over" => ShowsEnd

\* The counter of failed connections starts over with every connection that
\* opens: as long as no MaxRetries connections in a row are refused the page
\* keeps trying, so every event is shown, unless the page is closed by then.
Delivered ==
    \A i \in Ids :
        i \in committed ~> i \in OnPage \/ Forgotten(i) \/ i \in unheard \/ client = "over"

\* What the proofs need besides.  A publisher between two steps holds an id
\* of the sequence, and after the commit there is the row; a page that still tries
\* has not failed too often; what is shown is older than `last`, oldest first.
Steady ==
    /\ \A p \in Publishers :
          /\ pub[p].pc = "committed" => pub[p].id \in committed
          /\ pub[p].pc = "inserted" => pub[p].id \in 1 .. lastId
    /\ client \in {"connecting", "open", "backoff"} => retries <= MaxRetries
    /\ last = 0 \/ last \in committed
    /\ Len(shown) <= ListCap
    /\ \A k \in 1 .. Len(shown) : shown[k] <= last
    /\ \A j, k \in 1 .. Len(shown) : j < k => shown[j] < shown[k]

OnePublisher == \A p, q \in Publishers : p = q

\* With one publisher the id it holds is the largest, so what is on the wire
\* comes in order and what lies behind `last` is settled for good.
Newest ==
    \A p \in Publishers :
        /\ pub[p].pc # "idle" => pub[p].id = lastId
        /\ pub[p].pc = "inserted" => lastId \notin committed

InOrder ==
    /\ stream \in {"none", "opened"} => wire = <<>>
    /\ \A j, k \in 1 .. Len(wire) : j < k => wire[j] <= wire[k]

Covered ==
    \A i \in committed :
        /\ i <= last => i \in OnPage \/ Forgotten(i) \/ i \in unheard
        /\ i > last => Coming(i) \/ i \in unheard

Orderly == Newest /\ InOrder /\ Covered

StreamInv == TypeOK /\ Steady

\* What keeps a page that is over so: it was before, when the timer was armed.
Closing == settling => ShowsEnd

\* Every variable stays in its range, what is shown is in order, and a page
\* never takes a run for over that, for all it has shown, is not.
FeedInv == StreamInv /\ OverIsOver /\ Closing

\* What the page shows of the log is what EventFeed promises, whatever is
\* replayed, repeated or lost on the way.
Feed == INSTANCE EventFeed WITH ListCap <- ListCap, committed <- committed, shown <- shown
FeedSpec == Feed!Spec

=============================================================================
