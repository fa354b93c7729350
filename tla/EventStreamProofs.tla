-------------------------- MODULE EventStreamProofs --------------------------
(***************************************************************************)
(* For every number of publishers, events and failures: EventStream is     *)
(* well typed and implements EventFeed, and a page that closed its stream  *)
(* shows the end of the run.  With one publisher no event is lost but for  *)
(* those whose notification found nobody listening.                        *)
(***************************************************************************)
EXTENDS EventStream, SequenceTheorems, FiniteSetTheorems, TLAPS

-----------------------------------------------------------------------------
(* The operators.                                                          *)

\* Dropping the oldest element keeps the elements, their order and the cap.
LEMMA KeepType ==
  ASSUME NEW S, NEW s \in Seq(S)
  PROVE  Keep(s) \in Seq(S)
<1>1. CASE Len(s) > ListCap
  <2>1. s # <<>>
    BY <1>1, StreamAssumption
  <2>2. QED
    BY <1>1, <2>1, HeadTailProperties DEF Keep
<1>2. CASE ~(Len(s) > ListCap)
  BY <1>2 DEF Keep
<1>3. QED
  BY <1>1, <1>2

LEMMA KeepLast ==
  ASSUME NEW s \in Seq(Nat), NEW h \in Nat, Len(s) <= ListCap,
         \A k \in 1 .. Len(s) : s[k] < h,
         \A j, k \in 1 .. Len(s) : j < k => s[j] < s[k]
  PROVE  LET r == Keep(Append(s, h)) IN
         /\ Len(r) <= ListCap
         /\ \A k \in 1 .. Len(r) : r[k] <= h
         /\ \A j, k \in 1 .. Len(r) : j < k => r[j] < r[k]
<1> DEFINE a == Append(s, h)
           r == Keep(a)
<1>1. a \in Seq(Nat) /\ Len(a) = Len(s) + 1
  OBVIOUS
<1>2. /\ \A k \in 1 .. Len(a) : a[k] <= h
      /\ \A j, k \in 1 .. Len(a) : j < k => a[j] < a[k]
  OBVIOUS
<1>3. CASE Len(a) > ListCap
  <2>1. r = Tail(a) /\ Len(r) = Len(s)
    BY <1>1, <1>3 DEF Keep
  <2>2. \A k \in 1 .. Len(r) : r[k] = a[k + 1]
    BY <1>1, <2>1
  <2>3. QED
    BY <1>1, <1>2, <2>1, <2>2
<1>4. CASE ~(Len(a) > ListCap)
  <2>1. r = a
    BY <1>4 DEF Keep
  <2>2. QED
    BY <1>1, <1>2, <1>4, <2>1, StreamAssumption
<1>5. QED
  BY <1>3, <1>4

-----------------------------------------------------------------------------
(* The invariant StreamInv.                                                *)

LEMMA InitStream == Init => StreamInv
<1> SUFFICES ASSUME Init PROVE StreamInv
  OBVIOUS
<1> USE StreamAssumption DEF Init, Idle
<1>1. TypeOK
  <2>1. <<>> \in Seq({})
    BY EmptySeq
  <2>2. kind \in [Ids -> Kind]
    BY DEF Kind
  <2>3. count \in [failures : 0 .. MaxFailures, drops : 0 .. MaxDrops,
                   refusals : 0 .. MaxRefusals, restarts : 0 .. MaxRestarts]
    OBVIOUS
  <2>4. pub \in [Publishers -> [pc : {"idle", "inserted", "committed"}, id : 0 .. MaxEvents]]
    OBVIOUS
  <2>5. /\ wire \in Seq(committed) /\ shown \in Seq(committed)
        /\ committed \subseteq 1 .. lastId /\ unheard \subseteq committed
    BY <2>1
  <2>6. /\ lastId \in 0 .. MaxEvents /\ last \in 0 .. lastId /\ retries \in 0 .. MaxRetries + 1
        /\ stream # "none" <=> client \in {"connecting", "open"}
    OBVIOUS
  <2>7. QED
    BY <2>2, <2>3, <2>4, <2>5, <2>6 DEF TypeOK
<1>2. Steady
  BY DEF Steady
<1>3. QED
  BY <1>1, <1>2 DEF StreamInv

\* A bounded counter stays within its bound.
LEMMA SpendType ==
  ASSUME TypeOK,
         \/ Spend("failures", MaxFailures) \/ Spend("drops", MaxDrops)
         \/ Spend("refusals", MaxRefusals) \/ Spend("restarts", MaxRestarts)
  PROVE  count' \in [failures : 0 .. MaxFailures, drops : 0 .. MaxDrops,
                     refusals : 0 .. MaxRefusals, restarts : 0 .. MaxRestarts]
<1>1. count \in [failures : 0 .. MaxFailures, drops : 0 .. MaxDrops,
                 refusals : 0 .. MaxRefusals, restarts : 0 .. MaxRestarts]
  BY DEF TypeOK
<1>2. QED
  BY <1>1, StreamAssumption DEF Spend

LEMMA UnheardType ==
  ASSUME NEW i \in committed, unheard \subseteq committed, Unheard(i)
  PROVE  unheard' \subseteq committed
  BY DEF Unheard

LEMMA PublishStream ==
  ASSUME StreamInv, NEW p \in Publishers,
         Insert(p) \/ Commit(p) \/ Notify(p) \/ Interrupt(p)
  PROVE  StreamInv'
<1> USE StreamAssumption DEF StreamInv, Ids, Idle, page
<1>1. CASE Insert(p)
  <2>1. TypeOK'
    BY <1>1 DEF Insert, TypeOK
  <2>2. Steady'
    BY <1>1 DEF Insert, TypeOK, Steady
  <2>3. QED
    BY <2>1, <2>2
<1>2. CASE Commit(p)
  <2>1. committed \subseteq committed' /\ committed' \subseteq 1 .. lastId
    BY <1>2 DEF Commit, TypeOK, Steady
  <2>2. wire \in Seq(committed') /\ shown \in Seq(committed')
    BY <2>1, SeqMonotonic DEF TypeOK
  <2>3. TypeOK'
    BY <1>2, <2>1, <2>2 DEF Commit, TypeOK
  <2>4. Steady'
    BY <1>2, <2>1 DEF Commit, TypeOK, Steady
  <2>5. QED
    BY <2>3, <2>4
<1>3. CASE Notify(p)
  <2>1. pub[p].id \in committed
    BY <1>3 DEF Notify, Steady
  <2>2. wire' \in Seq(committed)
    <3>1. Append(wire, pub[p].id) \in Seq(committed)
      BY <2>1 DEF TypeOK
    <3>2. QED
      BY <1>3, <3>1 DEF Notify, TypeOK
  <2>6. unheard' \subseteq committed
    BY <1>3, <2>1, UnheardType DEF Notify, TypeOK
  <2>3. TypeOK'
    BY <1>3, <2>2, <2>6 DEF Notify, TypeOK
  <2>4. Steady'
    BY <1>3 DEF Notify, TypeOK, Steady
  <2>5. QED
    BY <2>3, <2>4
<1>4. CASE Interrupt(p)
  <2>1. pub[p].pc = "committed" => pub[p].id \in committed
    BY DEF Steady
  <2>2. unheard' \subseteq committed
    BY <1>4, <2>1, UnheardType DEF Interrupt, TypeOK
  <2>3. TypeOK'
    <3>1. count' \in [failures : 0 .. MaxFailures, drops : 0 .. MaxDrops,
                       refusals : 0 .. MaxRefusals, restarts : 0 .. MaxRestarts]
      BY <1>4, SpendType DEF Interrupt
    <3>2. QED
      BY <1>4, <2>2, <3>1 DEF Interrupt, TypeOK
  <2>4. Steady'
    BY <1>4 DEF Interrupt, TypeOK, Steady
  <2>5. QED
    BY <2>3, <2>4
<1>5. QED
  BY <1>1, <1>2, <1>3, <1>4

LEMMA Numbers ==
  ASSUME StreamInv
  PROVE  /\ committed \subseteq Nat \ {0}
         /\ last \in Nat /\ lastId \in Nat
         /\ \A i \in committed : i <= lastId
  BY StreamAssumption DEF StreamInv, TypeOK

LEMMA MissedProperties ==
  ASSUME StreamInv, NEW s \in Ordered(Missed)
  PROVE  /\ s \in Seq(committed)
         /\ Len(s) \in Nat /\ DOMAIN s = 1 .. Len(s)
         /\ \A i \in Missed : \E k \in 1 .. Len(s) : s[k] = i
         /\ \A k \in 1 .. Len(s) : s[k] \in Missed
         /\ \A j, k \in 1 .. Len(s) : j < k => s[j] < s[k]
<1> DEFINE n == Cardinality(Missed)
<1>1. n \in Nat
  <2>1. IsFiniteSet(1 .. lastId)
    BY FS_Interval DEF StreamInv, TypeOK
  <2>2. Missed \subseteq 1 .. lastId
    BY DEF StreamInv, TypeOK, Missed
  <2>3. QED
    BY <2>1, <2>2, FS_Subset, FS_CardinalityType
<1>2. s \in [1 .. n -> Missed]
  BY DEF Ordered
<1>3. s \in Seq(Missed) /\ Len(s) = n /\ DOMAIN s = 1 .. n
  BY <1>1, <1>2
<1>4. s \in Seq(committed)
  BY <1>3, SeqMonotonic DEF Missed
<1>5. QED
  BY <1>1, <1>2, <1>3, <1>4 DEF Ordered

LEMMA ServeStream == ASSUME StreamInv, Replay \/ Listen PROVE StreamInv'
<1> USE DEF StreamInv, log, page
<1>1. CASE Replay
  <2>1. wire' \in Seq(committed)
    BY <1>1, MissedProperties DEF Replay
  <2>2. TypeOK'
    BY <1>1, <2>1 DEF Replay, TypeOK
  <2>3. Steady'
    BY <1>1 DEF Replay, Steady
  <2>4. QED
    BY <2>2, <2>3
<1>2. CASE Listen
  <2>1. TypeOK'
    BY <1>2 DEF Listen, TypeOK
  <2>2. Steady'
    BY <1>2 DEF Listen, Steady
  <2>3. QED
    BY <2>1, <2>2
<1>3. QED
  BY <1>1, <1>2

\* Deliver puts a new event behind everything on the page, or changes nothing
\* there; what is left of the wire is its tail.
LEMMA DeliverShows ==
  ASSUME StreamInv, Deliver
  PROVE  /\ Head(wire) \in committed
         /\ wire' \in Seq(committed) /\ shown' \in Seq(committed)
         /\ Head(wire) > last => \A k \in 1 .. Len(shown) : shown[k] < Head(wire)
<1> USE DEF StreamInv
<1>1. Head(wire) \in committed /\ Tail(wire) \in Seq(committed)
  BY HeadTailProperties DEF Deliver, TypeOK
<1>2. shown \in Seq(committed) /\ Append(shown, Head(wire)) \in Seq(committed)
  BY <1>1 DEF TypeOK
<1>6. Keep(Append(shown, Head(wire))) \in Seq(committed)
  BY <1>2, KeepType
<1>3. shown' \in Seq(committed)
  BY <1>2, <1>6 DEF Deliver
<1>7. committed \subseteq Nat /\ last \in Nat
  BY DEF TypeOK
<1>4. ASSUME Head(wire) > last, NEW k \in 1 .. Len(shown)
      PROVE  shown[k] < Head(wire)
  <2>1. shown[k] \in committed
    BY <1>2, ElementOfSeq
  <2>2. shown[k] <= last
    BY DEF Steady
  <2>3. shown[k] \in Nat /\ Head(wire) \in Nat
    BY <1>1, <1>7, <2>1
  <2>4. QED
    BY <1>4, <1>7, <2>2, <2>3
<1>5. QED
  BY <1>1, <1>3, <1>4 DEF Deliver

LEMMA DeliverStream == ASSUME StreamInv, Deliver PROVE StreamInv'
<1> USE DEF StreamInv
<1>1. Head(wire) \in committed /\ Head(wire) \in 1 .. lastId
  BY DeliverShows DEF TypeOK
<1>2. TypeOK'
  <2>1. last' \in 0 .. lastId
    BY <1>1 DEF Deliver, TypeOK
  <2>2. settling' \in BOOLEAN
    BY DEF Deliver, TypeOK
  <2>3. wire' \in Seq(committed) /\ shown' \in Seq(committed)
    BY DeliverShows
  <2>4. QED
    BY <2>1, <2>2, <2>3 DEF Deliver, TypeOK, log
<1>3. CASE Head(wire) <= last
  <2>1. Steady'
    BY <1>3 DEF Deliver, Steady, log
  <2>2. QED
    BY <1>2, <2>1
<1>4. CASE Head(wire) > last
  <2>1. shown \in Seq(Nat) /\ Head(wire) \in Nat
    <3>1. shown \in Seq(committed) /\ committed \subseteq Nat
      BY DEF TypeOK
    <3>2. QED
      BY <1>1, <3>1, SeqMonotonic
  <2>2. shown' = Keep(Append(shown, Head(wire))) /\ last' = Head(wire)
    BY <1>1, <1>4 DEF Deliver, TypeOK
  <2>3. /\ Len(shown') <= ListCap
        /\ \A k \in 1 .. Len(shown') : shown'[k] <= last'
        /\ \A j, k \in 1 .. Len(shown') : j < k => shown'[j] < shown'[k]
    BY <1>4, <2>1, <2>2, DeliverShows, KeepLast DEF Steady
  <2>4. Steady'
    BY <1>1, <2>2, <2>3 DEF Deliver, Steady, log
  <2>5. QED
    BY <1>2, <2>4
<1>5. QED
  <2>1. Head(wire) \in Nat /\ last \in Nat
    BY <1>1 DEF TypeOK
  <2>2. QED
    BY <1>3, <1>4, <2>1

LEMMA PageStream ==
  ASSUME StreamInv, Open \/ Settle \/ Drop \/ Refuse \/ Reconnect \/ Rerun \/ Reload
  PROVE  StreamInv'
<1> USE StreamAssumption DEF StreamInv, log, page
<1>1. <<>> \in Seq(committed) /\ Len(<<>>) = 0
  BY EmptySeq
<1>2. CASE Open
  BY <1>2 DEF Open, TypeOK, Steady
<1>3. CASE Settle
  BY <1>1, <1>3 DEF Settle, Disconnect, TypeOK, Steady
<1>4. CASE Drop \/ Refuse
  <2>1. Fail /\ retries <= MaxRetries /\ UNCHANGED <<lastId, kind, committed, pub>>
    BY <1>4 DEF Drop, Refuse, Fail, Steady
  <2>2. count' \in [failures : 0 .. MaxFailures, drops : 0 .. MaxDrops,
                     refusals : 0 .. MaxRefusals, restarts : 0 .. MaxRestarts]
    BY <1>4, SpendType DEF Drop, Refuse
  <2>3. TypeOK'
    BY <1>1, <2>1, <2>2 DEF Fail, Disconnect, TypeOK
  <2>4. Steady'
    BY <2>1 DEF Fail, Steady, TypeOK
  <2>5. QED
    BY <2>3, <2>4
<1>5. CASE Reconnect
  BY <1>1, <1>5 DEF Reconnect, Connect, stream_run, TypeOK, Steady
<1>6. CASE Rerun
  <2>0. count' \in [failures : 0 .. MaxFailures, drops : 0 .. MaxDrops,
                     refusals : 0 .. MaxRefusals, restarts : 0 .. MaxRestarts]
    BY <1>6, SpendType DEF Rerun
  <2>4. /\ stream' = "opened" /\ wire' = <<>> /\ client' = "connecting"
        /\ retries' = 0 /\ settling' = FALSE /\ last' = last /\ shown' = shown
        /\ UNCHANGED <<lastId, kind, committed, pub, unheard>>
    BY <1>6 DEF Rerun, Connect, stream_run
  <2>5. last' \in 0 .. lastId' /\ retries' \in 0 .. MaxRetries + 1 /\ shown' \in Seq(committed')
    BY <1>1, <2>4 DEF TypeOK
  <2>6. stream' # "none" <=> client' \in {"connecting", "open"}
    BY <2>4
  <2>1. TypeOK'
    BY <1>1, <2>0, <2>4, <2>5, <2>6 DEF TypeOK
  <2>2. Steady'
    BY <1>6 DEF Rerun, Connect, stream_run, Steady
  <2>3. QED
    BY <2>1, <2>2
<1>7. CASE Reload
  <2>0. count' \in [failures : 0 .. MaxFailures, drops : 0 .. MaxDrops,
                     refusals : 0 .. MaxRefusals, restarts : 0 .. MaxRestarts]
    BY <1>7, SpendType DEF Reload
  <2>4. /\ stream' = "opened" /\ wire' = <<>> /\ client' = "connecting"
        /\ retries' = 0 /\ settling' = FALSE /\ last' = 0 /\ shown' = <<>>
        /\ UNCHANGED <<lastId, kind, committed, pub, unheard>>
    BY <1>7 DEF Reload, Connect, stream_run
  <2>5. last' \in 0 .. lastId' /\ retries' \in 0 .. MaxRetries + 1 /\ shown' \in Seq(committed')
    BY <1>1, <2>4 DEF TypeOK
  <2>6. stream' # "none" <=> client' \in {"connecting", "open"}
    BY <2>4
  <2>1. TypeOK'
    BY <1>1, <2>0, <2>4, <2>5, <2>6 DEF TypeOK
  <2>2. Steady'
    BY <1>1, <1>7 DEF Reload, Connect, stream_run, Steady
  <2>3. QED
    BY <2>1, <2>2
<1>8. QED
  BY <1>2, <1>3, <1>4, <1>5, <1>6, <1>7

LEMMA NextStream == StreamInv /\ [Next]_vars => StreamInv'
<1> SUFFICES ASSUME StreamInv, [Next]_vars PROVE StreamInv'
  OBVIOUS
<1>1. CASE UNCHANGED vars
  BY <1>1 DEF StreamInv, TypeOK, Steady, vars, log, page
<1>2. CASE Next
  BY <1>2, PublishStream, ServeStream, DeliverStream, PageStream DEF Next, PublisherStep
<1>3. QED
  BY <1>1, <1>2

\* Whatever the publishers, the connection and the page go through, all of
\* their state stays well formed: no id without its row, no connection of a
\* closed page, no event on the page that is newer than `last`.
THEOREM StreamSafe == Spec => []StreamInv
  BY InitStream, NextStream, PTL DEF Spec

-----------------------------------------------------------------------------
(* The refinement.                                                         *)

\* The page shows committed events, each once, oldest first: EventStream
\* implements EventFeed, with any number of publishers.
THEOREM ImplementsFeed == Spec => FeedSpec
<1>1. Init => Feed!Init
  BY DEF Init, Feed!Init
<1>2. StreamInv /\ [Next]_vars => [Feed!Next]_<<committed, shown>>
  <2> SUFFICES ASSUME StreamInv, [Next]_vars, <<committed, shown>>' # <<committed, shown>>
               PROVE  Feed!Next
    OBVIOUS
  <2>1. CASE \E p \in Publishers : Commit(p)
    BY <2>1 DEF Commit, page, Feed!Next, Feed!Commit
  <2>2. CASE Deliver
    <3>0. /\ Head(wire) \in Nat /\ last \in Nat
          /\ committed' = committed
      <4>1. Head(wire) \in committed
        BY <2>2, DeliverShows
      <4>2. QED
        BY <2>2, <4>1, Numbers DEF Deliver, log
    <3>1. Head(wire) > last /\ shown' = Keep(Append(shown, Head(wire)))
      BY <2>2, <3>0 DEF Deliver
    <3>2. Feed!Show(Head(wire))
      BY <2>2, <3>1, DeliverShows DEF Deliver, log, Keep, Feed!Show, Feed!Keep
    <3>3. QED
      BY <2>2, <3>2, DeliverShows DEF Feed!Next
  <2>3. CASE Reload
    BY <2>3 DEF Reload, log, Feed!Next, Feed!Clear
  <2>4. QED
    BY <2>1, <2>2, <2>3 DEF Next, PublisherStep, Insert, Notify, Interrupt, Replay, Listen, Open,
       Settle, Drop, Refuse, Fail, Reconnect, Rerun, vars, log, page
<1>3. QED
  BY <1>1, <1>2, StreamSafe, PTL DEF Spec, FeedSpec, Feed!Spec, Feed!vars

-----------------------------------------------------------------------------
(* One publisher.                                                          *)

\* Who was on the page or older than a full list still is when h is added, and
\* so is h.
LEMMA KeepCovers ==
  ASSUME NEW s \in Seq(Nat), NEW h \in Nat, Len(s) <= ListCap,
         \A k \in 1 .. Len(s) : s[k] < h,
         \A j, k \in 1 .. Len(s) : j < k => s[j] < s[k],
         NEW i \in Nat,
         \/ i = h
         \/ \E k \in 1 .. Len(s) : s[k] = i
         \/ Len(s) = ListCap /\ i < s[1]
  PROVE  LET r == Keep(Append(s, h)) IN
         \/ \E k \in 1 .. Len(r) : r[k] = i
         \/ Len(r) = ListCap /\ i < r[1]
<1> DEFINE a == Append(s, h)
           r == Keep(a)
<1>1. a \in Seq(Nat) /\ Len(a) = Len(s) + 1 /\ a[Len(a)] = h
      /\ \A k \in 1 .. Len(s) : a[k] = s[k]
  OBVIOUS
<1>2. CASE Len(a) > ListCap
  <2>1. r = Tail(a) /\ Len(r) = Len(s) /\ Len(s) = ListCap
    BY <1>1, <1>2, StreamAssumption DEF Keep
  <2>2. \A k \in 1 .. Len(r) : r[k] = a[k + 1]
    BY <1>1, <2>1
  <2>3. CASE i = h
    BY <1>1, <2>1, <2>2, <2>3, StreamAssumption
  <2>4. CASE \E k \in 1 .. Len(s) : s[k] = i
    <3>1. PICK k \in 1 .. Len(s) : s[k] = i
      BY <2>4
    <3>2. CASE k = 1
      <4>1. r[1] = a[2] /\ (Len(s) > 1 => a[2] = s[2]) /\ (Len(s) = 1 => a[2] = h)
        BY <1>1, <2>1, <2>2, StreamAssumption
      <4>2. i < r[1]
        BY <3>1, <3>2, <4>1
      <4>3. QED
        BY <2>1, <4>2
    <3>3. CASE k > 1
      <4>1. k - 1 \in 1 .. Len(r) /\ r[k - 1] = i
        BY <1>1, <2>1, <2>2, <3>1, <3>3
      <4>2. QED
        BY <4>1
    <3>4. QED
      BY <3>1, <3>2, <3>3
  <2>5. CASE Len(s) = ListCap /\ i < s[1]
    <3>1. r[1] = a[2] /\ (Len(s) > 1 => a[2] = s[2]) /\ (Len(s) = 1 => a[2] = h)
      BY <1>1, <2>1, <2>2, StreamAssumption
    <3>2. s[1] < h /\ (Len(s) > 1 => s[1] < s[2]) /\ s[1] \in Nat
      BY <2>1, StreamAssumption
    <3>3. (Len(s) > 1 => s[2] \in Nat) /\ (Len(s) = 1 \/ Len(s) > 1)
      BY <2>1, StreamAssumption
    <3>4. i < r[1]
      BY <2>5, <3>1, <3>2, <3>3
    <3>5. QED
      BY <2>1, <3>4
  <2>6. QED
    BY <2>3, <2>4, <2>5
<1>3. CASE ~(Len(a) > ListCap)
  <2>1. r = a /\ Len(s) # ListCap
    BY <1>1, <1>3, StreamAssumption DEF Keep
  <2>2. CASE i = h
    BY <1>1, <2>1, <2>2
  <2>3. CASE \E k \in 1 .. Len(s) : s[k] = i
    BY <1>1, <2>1, <2>3
  <2>4. QED
    BY <2>1, <2>2, <2>3
<1>4. QED
  BY <1>2, <1>3

LEMMA InitOrderly == Init => Orderly
  BY EmptySeq DEF Init, Idle, Orderly, Newest, InOrder, Covered

\* An event that waits for its notification is the newest of all.
LEMMA AnnouncingNewest ==
  ASSUME Newest, NEW i \in Announcing
  PROVE  i = lastId
  BY DEF Newest, Announcing

LEMMA PublishOrderly ==
  ASSUME StreamInv, Orderly, OnePublisher, NEW p \in Publishers,
         Insert(p) \/ Commit(p) \/ Notify(p) \/ Interrupt(p)
  PROVE  Orderly'
<1> USE DEF Orderly, Idle, page
<1>1. \A q \in Publishers : q = p
  BY DEF OnePublisher
<1>2. DOMAIN pub = Publishers /\ wire \in Seq(committed) /\ DOMAIN wire = 1 .. Len(wire)
  BY DEF StreamInv, TypeOK
<1>3. CASE Insert(p)
  <2>1. Newest'
    BY <1>1, <1>2, <1>3, Numbers DEF Insert, Newest
  <2>2. InOrder'
    BY <1>3 DEF Insert, InOrder
  <2>3. Announcing = {}
    BY <1>1, <1>3 DEF Insert, Announcing
  <2>4. Covered'
    BY <1>3, <2>3 DEF Insert, Covered, Coming, Forgotten, OnPage, OnWire
  <2>5. QED
    BY <2>1, <2>2, <2>4
<1>4. CASE Commit(p)
  <2>1. pub[p].id = lastId /\ lastId \notin committed /\ last < lastId
    BY <1>4, Numbers DEF Commit, Newest, StreamInv, Steady
  <2>2. Newest'
    BY <1>1, <1>2, <1>4, <2>1 DEF Commit, Newest
  <2>3. InOrder'
    BY <1>4 DEF Commit, InOrder
  <2>4. Announcing = {} /\ lastId \in Announcing'
    BY <1>1, <1>2, <1>4, <2>1 DEF Commit, Announcing
  <2>5. Covered'
    BY <1>4, <2>1, <2>4, Numbers DEF Commit, Covered, Coming, Forgotten, OnPage, OnWire
  <2>6. QED
    BY <2>2, <2>3, <2>5
<1>5. CASE Notify(p)
  <2>1. pub[p].id = lastId /\ Announcing = {lastId}
    BY <1>1, <1>5 DEF Notify, Newest, Announcing
  <2>2. Newest'
    BY <1>1, <1>2, <1>5 DEF Notify, Newest
  <2>3. InOrder' /\ OnWire \subseteq OnWire'
    <3>1. CASE stream = "live"
      <4>1. wire' = Append(wire, lastId) /\ stream' = "live"
        BY <1>5, <2>1, <3>1 DEF Notify
      <4>2. \A k \in 1 .. Len(wire) : wire[k] <= lastId
        BY <1>2, ElementOfSeq, Numbers
      <4>3. /\ Len(wire') = Len(wire) + 1 /\ wire'[Len(wire')] = lastId
            /\ \A k \in 1 .. Len(wire) : wire'[k] = wire[k]
            /\ DOMAIN wire' = 1 .. Len(wire')
        BY <1>2, <4>1, Numbers
      <4>4. QED
        BY <1>2, <4>1, <4>2, <4>3, Numbers DEF InOrder, OnWire
    <3>2. CASE stream # "live"
      BY <1>5, <3>2 DEF Notify, InOrder, OnWire
    <3>3. QED
      BY <3>1, <3>2
  <2>4. unheard \subseteq unheard'
    BY <1>5 DEF Notify, Unheard
  <2>5. lastId > last /\ stream \notin {"none", "opened"} => lastId \in OnWire' \/ lastId \in unheard'
    <3>1. CASE stream = "live"
      <4>1. wire' = Append(wire, lastId)
        BY <1>5, <2>1, <3>1 DEF Notify
      <4>2. Len(wire) + 1 \in DOMAIN wire' /\ wire'[Len(wire) + 1] = lastId
        BY <1>2, <4>1, Numbers
      <4>3. QED
        BY <4>2 DEF OnWire
    <3>2. CASE stream = "replayed"
      BY <1>5, <2>1, <3>2 DEF Notify, Unheard, OnWire
    <3>3. QED
      BY <3>1, <3>2 DEF StreamInv, TypeOK
  <2>6. Covered'
    BY <1>5, <2>1, <2>3, <2>4, <2>5 DEF Notify, Covered, Coming, Forgotten, OnPage
  <2>7. QED
    BY <2>2, <2>3, <2>6
<1>6. CASE Interrupt(p)
  <2>1. Newest'
    BY <1>1, <1>2, <1>6 DEF Interrupt, Newest
  <2>2. InOrder'
    BY <1>6 DEF Interrupt, InOrder
  <2>3. unheard \subseteq unheard'
    BY <1>6 DEF Interrupt, Unheard
  <2>4. ASSUME NEW i \in Announcing, i > last, stream \notin {"none", "opened"}
        PROVE  i \in OnWire \/ i \in unheard'
    <3>1. pub[p].pc = "committed" /\ pub[p].id = i
      BY <1>1 DEF Announcing
    <3>2. QED
      BY <1>6, <2>4, <3>1 DEF Interrupt, Unheard, OnWire, StreamInv, TypeOK
  <2>5. Covered'
    BY <1>6, <2>3, <2>4 DEF Interrupt, Covered, Coming, Forgotten, OnPage, OnWire
  <2>6. QED
    BY <2>1, <2>2, <2>5
<1>7. QED
  BY <1>3, <1>4, <1>5, <1>6

LEMMA ServeOrderly ==
  ASSUME StreamInv, Orderly, Replay \/ Listen
  PROVE  Orderly'
<1> USE DEF Orderly, log, page
<1>1. CASE Replay
  <2>1. wire' \in Ordered(Missed)
    BY <1>1 DEF Replay
  <2>2. /\ DOMAIN wire' = 1 .. Len(wire') /\ Len(wire') \in Nat
        /\ \A i \in Missed : \E k \in 1 .. Len(wire') : wire'[k] = i
        /\ \A k \in 1 .. Len(wire') : wire'[k] \in Nat
        /\ \A j, k \in 1 .. Len(wire') : j < k => wire'[j] < wire'[k]
    BY <2>1, MissedProperties, Numbers DEF Missed
  <2>3. Newest'
    BY <1>1 DEF Replay, Newest
  <2>4. InOrder'
    BY <1>1, <2>2 DEF Replay, InOrder
  <2>5. ASSUME NEW i \in committed, i > last
        PROVE  i \in OnWire'
    BY <2>2, <2>5 DEF Missed, OnWire
  <2>6. ASSUME NEW i \in committed, i <= last, i \in unheard
        PROVE  i \in unheard'
    BY <1>1, <2>6, Numbers DEF Replay, Missed
  <2>7. Covered'
    BY <1>1, <2>5, <2>6 DEF Replay, Covered, Coming, Forgotten, OnPage
  <2>8. QED
    BY <2>3, <2>4, <2>7
<1>2. CASE Listen
  BY <1>2 DEF Listen, Newest, InOrder, Covered, Coming, Forgotten, OnPage, OnWire, Announcing
<1>3. QED
  BY <1>1, <1>2

LEMMA DeliverOrderly ==
  ASSUME StreamInv, Orderly, Deliver
  PROVE  Orderly'
<1> DEFINE h == Head(wire)
<1> USE DEF Orderly, log
<1>1. /\ wire \in Seq(committed) /\ wire # <<>> /\ wire' = Tail(wire)
      /\ UNCHANGED <<lastId, kind, committed, pub, stream, unheard>>
  BY DEF Deliver, StreamInv, TypeOK
<1>2. /\ Len(wire) \in Nat \ {0} /\ DOMAIN wire = 1 .. Len(wire) /\ h = wire[1]
      /\ Len(wire') = Len(wire) - 1 /\ DOMAIN wire' = 1 .. Len(wire')
      /\ \A k \in 1 .. Len(wire') : wire'[k] = wire[k + 1]
  BY <1>1
<1>3. h \in committed /\ h \in Nat /\ h <= lastId /\ last \in Nat /\ committed \subseteq Nat
  BY <1>1, DeliverShows, Numbers
<1>4. stream \notin {"none", "opened"}
  BY <1>1 DEF InOrder
<1>5. Newest'
  BY <1>1 DEF Newest
<1>6. InOrder'
  BY <1>1, <1>2, <1>4 DEF InOrder
<1>7. ASSUME NEW i \in OnWire, i # h
      PROVE  i \in OnWire'
  <2>1. PICK k \in 1 .. Len(wire) : wire[k] = i
    BY <1>2 DEF OnWire
  <2>2. k - 1 \in 1 .. Len(wire') /\ wire'[k - 1] = i
    BY <1>2, <1>7, <2>1
  <2>3. QED
    BY <1>2, <2>2 DEF OnWire
<1>8. CASE h <= last
  <2>1. UNCHANGED <<last, shown>>
    BY <1>8 DEF Deliver
  <2>2. Covered'
    BY <1>1, <1>3, <1>7, <1>8, <2>1 DEF Covered, Coming, Forgotten, OnPage, Announcing
  <2>3. QED
    BY <1>5, <1>6, <2>2
<1>9. CASE h > last
  <2>1. last' = h /\ shown' = Keep(Append(shown, h))
    BY <1>3, <1>9 DEF Deliver
  <2>2. shown \in Seq(Nat) /\ shown \in Seq(committed)
    BY <1>3, SeqMonotonic DEF StreamInv, TypeOK
  <2>3. shown' \in Seq(committed)
    BY DeliverShows
  <2>4. ASSUME NEW i \in committed, i = h \/ i \in OnPage \/ Forgotten(i)
        PROVE  (i \in OnPage \/ Forgotten(i))'
    <3>1. \/ i = h
          \/ \E k \in 1 .. Len(shown) : shown[k] = i
          \/ Len(shown) = ListCap /\ i < shown[1]
      BY <2>2, <2>4 DEF OnPage, Forgotten
    <3>2. /\ \A k \in 1 .. Len(shown) : shown[k] < h
          /\ \A j, k \in 1 .. Len(shown) : j < k => shown[j] < shown[k]
          /\ Len(shown) <= ListCap
      BY <1>9, DeliverShows DEF StreamInv, Steady
    <3>3. \/ \E k \in 1 .. Len(shown') : shown'[k] = i
          \/ Len(shown') = ListCap /\ i < shown'[1]
      BY <1>3, <2>1, <2>2, <3>1, <3>2, KeepCovers
    <3>4. QED
      BY <2>3, <3>3 DEF OnPage, Forgotten
  <2>5. ASSUME NEW i \in committed, last < i, i < h
        PROVE  i \in unheard
    <3>1. i \notin Announcing
      BY <1>3, <2>5, AnnouncingNewest
    <3>2. i \notin OnWire
      <4> SUFFICES ASSUME NEW k \in 1 .. Len(wire), wire[k] = i PROVE FALSE
        BY <1>2 DEF OnWire
      <4>1. k # 1 => wire[1] <= wire[k]
        BY <1>2 DEF InOrder
      <4>2. QED
        BY <1>2, <1>3, <2>5, <4>1
    <3>3. QED
      BY <1>4, <2>5, <3>1, <3>2 DEF Covered, Coming
  <2>6. Covered'
    <3> SUFFICES ASSUME NEW i \in committed
                 PROVE  /\ i <= h => (i \in OnPage \/ Forgotten(i))' \/ i \in unheard
                        /\ i > h => Coming(i)' \/ i \in unheard
      BY <1>1, <2>1 DEF Covered
    <3>1. CASE i <= last
      BY <1>3, <1>9, <2>4, <3>1 DEF Covered
    <3>2. CASE last < i /\ i < h
      BY <1>3, <2>5, <3>2
    <3>3. CASE i = h
      BY <1>3, <2>4, <3>3
    <3>4. CASE i > h
      <4>1. Coming(i) \/ i \in unheard
        BY <1>3, <1>9, <3>4 DEF Covered
      <4>2. i \in Announcing => i \in Announcing'
        BY <1>1 DEF Announcing
      <4>3. QED
        BY <1>1, <1>3, <1>4, <1>7, <2>1, <3>4, <4>1, <4>2 DEF Coming
    <3>5. QED
      BY <1>3, <3>1, <3>2, <3>3, <3>4
  <2>7. QED
    BY <1>5, <1>6, <2>6
<1>10. QED
  BY <1>3, <1>8, <1>9

LEMMA PageOrderly ==
  ASSUME StreamInv, Orderly,
         Open \/ Settle \/ Drop \/ Refuse \/ Reconnect \/ Rerun \/ Reload
  PROVE  Orderly'
<1> USE DEF Orderly, log, page
<1>1. Len(<<>>) = 0
  BY EmptySeq
<1>2. CASE Open
  BY <1>2 DEF Open, Newest, InOrder, Covered, Coming, Forgotten, OnPage, OnWire, Announcing
<1>3. CASE Settle \/ Drop \/ Refuse \/ Reconnect \/ Rerun
  <2>1. /\ stream' \in {"none", "opened"} /\ wire' = <<>>
        /\ UNCHANGED <<lastId, kind, committed, pub, last, shown, unheard>>
    BY <1>3 DEF Settle, Drop, Refuse, Fail, Disconnect, Reconnect, Rerun, Connect, stream_run
  <2>2. Newest' /\ InOrder'
    BY <1>1, <2>1 DEF Newest, InOrder
  <2>3. Covered'
    BY <2>1 DEF Covered, Coming, Forgotten, OnPage
  <2>4. QED
    BY <2>2, <2>3
<1>4. CASE Reload
  <2>1. /\ stream' = "opened" /\ wire' = <<>> /\ last' = 0
        /\ UNCHANGED <<lastId, kind, committed, pub, unheard>>
    BY <1>4 DEF Reload, Connect, stream_run
  <2>2. Newest' /\ InOrder'
    BY <1>1, <2>1 DEF Newest, InOrder
  <2>3. Covered'
    BY <2>1, Numbers DEF Covered, Coming
  <2>4. QED
    BY <2>2, <2>3
<1>5. QED
  BY <1>2, <1>3, <1>4

\* With one publisher, whatever connections break, overlap or are opened anew,
\* every committed event has been shown, is on its way, waits for the next
\* replay, or fell into the gap between a replay and its LISTEN.
THEOREM NothingElseLost == ASSUME OnePublisher PROVE Spec => []Accounted
<1>1. StreamInv /\ Orderly /\ [Next]_vars => Orderly'
  <2> SUFFICES ASSUME StreamInv, Orderly, [Next]_vars PROVE Orderly'
    OBVIOUS
  <2>1. CASE UNCHANGED vars
    BY <2>1 DEF vars, log, page, Orderly, Newest, InOrder, Covered, Coming, Forgotten,
       OnPage, OnWire, Announcing
  <2>2. CASE Next
    BY <2>2, OnePublisher, PublishOrderly, ServeOrderly, DeliverOrderly, PageOrderly
       DEF Next, PublisherStep
  <2>3. QED
    BY <2>1, <2>2
<1>2. StreamInv /\ Orderly => Accounted
  <2> SUFFICES ASSUME StreamInv, Orderly, NEW i \in committed
               PROVE  i \in OnPage \/ Forgotten(i) \/ Coming(i) \/ i \in unheard
    BY DEF Accounted
  <2>1. i <= last \/ i > last
    BY Numbers
  <2>2. QED
    BY <2>1 DEF Orderly, Covered
<1>3. QED
  BY <1>1, <1>2, InitOrderly, StreamSafe, PTL DEF Spec

-----------------------------------------------------------------------------
(* A page that is over.                                                    *)

\* What the page shows after a new event h: h, what it showed before, and
\* nothing it showed is missing but what is older than a full list.
LEMMA DeliverPage ==
  ASSUME StreamInv, StreamInv', Deliver, Head(wire) > last
  PROVE  /\ Head(wire) \in OnPage'
         /\ \A i \in OnPage : i \in Nat /\ i < Head(wire)
         /\ \A i \in OnPage' : i = Head(wire) \/ i \in OnPage
         /\ \A i \in OnPage : \/ i \in OnPage'
                              \/ Len(shown') = ListCap /\ \A j \in OnPage' : i < j
         /\ Len(shown) = ListCap => Len(shown') = ListCap
<1> DEFINE h == Head(wire)
           a == Append(shown, h)
<1>1. /\ h \in Nat /\ last \in Nat /\ committed \subseteq Nat
      /\ shown \in Seq(committed) /\ shown' \in Seq(committed)
      /\ \A k \in 1 .. Len(shown) : shown[k] < h
  BY DeliverShows, Numbers DEF StreamInv, TypeOK
<1>2. shown \in Seq(Nat) /\ shown' \in Seq(Nat)
  BY <1>1, SeqMonotonic
<1>3. /\ OnPage = {shown[k] : k \in 1 .. Len(shown)}
      /\ OnPage' = {shown'[k] : k \in 1 .. Len(shown')}
      /\ Len(shown) \in Nat /\ Len(shown') \in Nat
  BY <1>2 DEF OnPage
<1>4. shown' = Keep(a) /\ last' = h
  BY <1>1 DEF Deliver
<1>5. /\ Len(shown) <= ListCap
      /\ \A j, k \in 1 .. Len(shown) : j < k => shown[j] < shown[k]
      /\ \A k \in 1 .. Len(shown') : shown'[k] <= h
      /\ \A j, k \in 1 .. Len(shown') : j < k => shown'[j] < shown'[k]
  BY <1>4 DEF StreamInv, Steady
<1>6. ASSUME NEW i \in Nat, i = h \/ \E k \in 1 .. Len(shown) : shown[k] = i
      PROVE  \/ \E k \in 1 .. Len(shown') : shown'[k] = i
             \/ Len(shown') = ListCap /\ i < shown'[1]
  BY <1>1, <1>2, <1>4, <1>5, <1>6, KeepCovers
<1>7. ListCap \in Nat \ {0}
  BY StreamAssumption
<1>8. h \in OnPage'
  <2>1. ~(Len(shown') = ListCap /\ h < shown'[1])
    <3>1. CASE Len(shown') = ListCap
      <4>1. 1 \in 1 .. Len(shown')
        BY <1>7, <3>1
      <4>2. shown'[1] <= h /\ shown'[1] \in Nat
        BY <1>2, <1>5, <4>1
      <4>3. QED
        BY <1>1, <4>2
    <3>2. QED
      BY <3>1
  <2>2. QED
    BY <1>1, <1>3, <1>6, <2>1
<1>9. \A i \in OnPage : i \in Nat /\ i < h
  BY <1>1, <1>2, <1>3
<1>10. \A i \in OnPage' : i = h \/ i \in OnPage
  <2> SUFFICES ASSUME NEW k \in 1 .. Len(shown')
               PROVE  shown'[k] = h \/ shown'[k] \in OnPage
    BY <1>3
  <2>1. /\ a \in Seq(Nat) /\ Len(a) = Len(shown) + 1
        /\ \A m \in 1 .. Len(a) : a[m] = h \/ a[m] \in OnPage
    BY <1>1, <1>2, <1>3
  <2>2. \/ shown' = a
        \/ /\ Len(shown') = Len(a) - 1
           /\ \A m \in 1 .. Len(shown') : shown'[m] = a[m + 1]
    BY <1>4, <2>1, <1>7 DEF Keep
  <2>3. \/ shown' = a
        \/ k + 1 \in 1 .. Len(a) /\ shown'[k] = a[k + 1]
    BY <2>1, <2>2
  <2>4. QED
    BY <2>1, <2>3
<1>11. ASSUME NEW i \in OnPage
       PROVE  \/ i \in OnPage'
              \/ Len(shown') = ListCap /\ \A j \in OnPage' : i < j
  <2> SUFFICES ASSUME i \notin OnPage'
               PROVE  Len(shown') = ListCap /\ \A j \in OnPage' : i < j
    OBVIOUS
  <2>1. Len(shown') = ListCap /\ i < shown'[1] /\ i \in Nat
    BY <1>3, <1>6, <1>9
  <2>2. ASSUME NEW k \in 1 .. Len(shown') PROVE i < shown'[k]
    <3>1. 1 \in 1 .. Len(shown') /\ (k = 1 \/ 1 < k)
      BY <1>7, <2>1
    <3>2. shown'[1] \in Nat /\ shown'[k] \in Nat /\ shown'[1] <= shown'[k]
      BY <1>2, <1>5, <3>1
    <3>3. QED
      BY <2>1, <3>2
  <2>3. QED
    BY <1>3, <2>1, <2>2
<1>12. ASSUME Len(shown) = ListCap PROVE Len(shown') = ListCap
  <2>1. a \in Seq(Nat) /\ Len(a) = Len(shown) + 1
    BY <1>1, <1>2
  <2>2. shown' = Tail(a)
    BY <1>4, <1>7, <1>12, <2>1 DEF Keep
  <2>3. QED
    BY <1>7, <1>12, <2>1, <2>2
<1>13. QED
  BY <1>8, <1>9, <1>10, <1>11, <1>12

\* An event that does not reopen the run leaves the page showing its end, and a
\* terminal one makes it do so.
LEMMA DeliverCloses ==
  ASSUME StreamInv, StreamInv', Closing, Deliver
  PROVE  Closing' /\ OverIsOver'
<1> DEFINE h == Head(wire)
<1>1. kind' = kind /\ client' = "open" /\ h \in Nat /\ last \in Nat
  BY DeliverShows, Numbers DEF Deliver, log
<1>2. OverIsOver'
  BY <1>1 DEF OverIsOver
<1>3. CASE h <= last
  BY <1>1, <1>2, <1>3 DEF Deliver, Closing, ShowsEnd, OnPage
<1>4. CASE h > last
  <2>1. settling' = IF kind[h] = "progress" THEN settling ELSE kind[h] = "terminal"
    BY <1>1, <1>4 DEF Deliver
  <2>2. /\ h \in OnPage'
        /\ \A i \in OnPage : i \in Nat /\ i < h
        /\ \A i \in OnPage' : i = h \/ i \in OnPage
        /\ \A i \in OnPage : \/ i \in OnPage'
                             \/ Len(shown') = ListCap /\ \A j \in OnPage' : i < j
        /\ Len(shown) = ListCap => Len(shown') = ListCap
    BY <1>4, DeliverPage
  <2>3. CASE kind[h] = "terminal"
    <3>1. \A i \in OnPage' : kind'[i] = "lifecycle" => i < h
      BY <1>1, <2>2, <2>3
    <3>2. ShowsEnd'
      BY <1>1, <2>2, <2>3, <3>1 DEF ShowsEnd
    <3>3. QED
      BY <1>2, <3>2 DEF Closing
  <2>4. CASE kind[h] = "progress" /\ settling
    <3>1. ShowsEnd
      BY <2>4 DEF Closing
    <3>2. (\E i \in OnPage' : kind'[i] = "terminal") \/ Len(shown') = ListCap
      BY <1>1, <2>2, <3>1 DEF ShowsEnd
    <3>3. ASSUME NEW i \in OnPage', kind'[i] = "lifecycle"
          PROVE  \E j \in OnPage' : j > i /\ kind'[j] = "terminal"
      <4>1. i \in OnPage
        BY <1>1, <2>2, <2>4, <3>3
      <4>2. PICK j \in OnPage : j > i /\ kind[j] = "terminal"
        BY <1>1, <3>1, <3>3, <4>1 DEF ShowsEnd
      <4>3. j \in OnPage'
        BY <2>2, <4>1, <4>2
      <4>4. QED
        BY <1>1, <4>2, <4>3
    <3>4. QED
      BY <1>2, <3>2, <3>3 DEF Closing, ShowsEnd
  <2>5. CASE ~settling'
    BY <1>2, <2>5 DEF Closing
  <2>6. QED
    BY <2>1, <2>3, <2>4, <2>5
<1>5. QED
  BY <1>1, <1>3, <1>4

\* Whatever is replayed, repeated or lost, in whatever order publishers commit:
\* a page that closed its stream by itself shows the end of the run.
THEOREM FeedSafe == Spec => []FeedInv
<1>1. Init => OverIsOver /\ Closing
  BY DEF Init, OverIsOver, Closing
<1>2. StreamInv /\ StreamInv' /\ OverIsOver /\ Closing /\ [Next]_vars => OverIsOver' /\ Closing'
  <2> SUFFICES ASSUME StreamInv, StreamInv', OverIsOver, Closing, [Next]_vars
               PROVE  OverIsOver' /\ Closing'
    OBVIOUS
  <2>1. CASE Deliver
    BY <2>1, DeliverCloses
  <2>2. CASE \E p \in Publishers : Insert(p)
    <3>1. OnPage \subseteq committed /\ committed \subseteq 1 .. lastId /\ lastId \in Nat
          /\ kind \in [Ids -> Kind]
      BY StreamAssumption DEF StreamInv, TypeOK, OnPage
    <3>2. /\ UNCHANGED <<shown, client, settling>>
          /\ \A i \in Ids : i # lastId + 1 => kind'[i] = kind[i]
          /\ lastId < MaxEvents
      BY <2>2, <3>1 DEF Insert, page
    <3>3. \A i \in OnPage : i \in Nat /\ kind'[i] = kind[i]
      BY <3>1, <3>2, StreamAssumption DEF Ids
    <3>4. OnPage' = OnPage
      BY <3>2 DEF OnPage
    <3>5. ShowsEnd => ShowsEnd'
      BY <3>2, <3>3, <3>4 DEF ShowsEnd
    <3>6. QED
      BY <3>2, <3>5 DEF OverIsOver, Closing
  <2>3. CASE Settle
    BY <2>3 DEF Settle, log, OverIsOver, Closing, ShowsEnd, OnPage
  <2>4. CASE Open \/ Drop \/ Refuse \/ Reconnect \/ Rerun \/ Reload
    <3>1. UNCHANGED kind /\ client' # "over" /\ (settling' => UNCHANGED <<shown, settling>>)
      BY <2>4 DEF Open, Drop, Refuse, Fail, Reconnect, Rerun, Reload, Connect, log
    <3>2. QED
      BY <3>1 DEF OverIsOver, Closing, ShowsEnd, OnPage
  <2>5. CASE UNCHANGED <<kind, shown, settling, client>>
    BY <2>5 DEF OverIsOver, Closing, ShowsEnd, OnPage
  <2>6. QED
    BY <2>1, <2>2, <2>3, <2>4, <2>5 DEF Next, PublisherStep, Commit, Notify, Interrupt, Replay,
       Listen, vars, log, page
<1>3. QED
  BY <1>1, <1>2, StreamSafe, PTL DEF Spec, FeedInv

=============================================================================
