---------------------------- MODULE ModelsProofs ----------------------------
(***************************************************************************)
(* What a request learns of the settings, for any number of providers,     *)
(* engines, roles, PUTs and restarts, and every value of the tables.       *)
(*                                                                         *)
(* The settings in effect since a request came are a sequence in which one *)
(* PUT lies between neighbours: it writes to one thing a snapshot shows    *)
(* (OneChange), and never removes a key (KeysStay).  The invariant says of *)
(* all a request knows which settings of the sequence it was read from,    *)
(* and in which order.                                                     *)
(***************************************************************************)
EXTENDS Models, SequenceTheorems, TLAPS

-----------------------------------------------------------------------------
(* The invariant.  j is the request, r the run committed last, sp the      *)
(* settings in effect since the request came.                              *)

JobType ==
    [op : Ops \cup {"none"},
     pc : {"idle", "task", "keys", "overrides", "search", "retries", "commit",
           "override", "key", "call", "engine", "search_call", "post", "get", "done"},
     snap : Snaps, role : Roles, name : Names \cup {None},
     models : [Roles -> [provider : Providers \cup {None}, key : KeyRows \cup {None}]],
     bearer : BOOLEAN, attempt : 1 .. _attempt_count,
     last : Replies \cup {"none"}, error : Errors,
     status : {"none", "200", "201", "400", "500"}]

RunType == [snap : Snaps, framed : BOOLEAN]

\* One PUT lies between two settings that follow each other, and it writes to one
\* of the things a snapshot shows.
OneChange(t, u) ==
    \/ t.keys = u.keys /\ t.overrides = u.overrides /\ t.search = u.search
    \/ t.keys = u.keys /\ t.overrides = u.overrides /\ t.retries = u.retries
    \/ t.keys = u.keys /\ t.search = u.search /\ t.retries = u.retries
    \/ t.overrides = u.overrides /\ t.search = u.search /\ t.retries = u.retries

\* A key may be replaced, never removed.
KeysStay(t, u) == \A n \in Names : t.keys[n] # None => u.keys[n] # None

History(sp) ==
    /\ \A i \in 1 .. Len(sp) - 1 : OneChange(sp[i], sp[i + 1])
    /\ \A i, k \in 1 .. Len(sp) : i <= k => KeysStay(sp[i], sp[k])

Current(sp, t) == sp # <<>> /\ sp[Len(sp)] = t

\* Where a request of each kind can be.
Placed(j) ==
    /\ j.pc \in {"task", "commit"} => j.op \in {"create", "create_ma"}
    /\ j.pc = "keys" => j.op \in {"providers", "settings", "create", "create_ma"}
    /\ j.pc \in {"overrides", "search", "retries"} => j.op \in {"settings", "create", "create_ma"}
    /\ j.pc = "override" => j.op \in {"create", "resolve", "ping"}
    /\ j.pc = "key" => j.op \in {"create", "resolve", "ping", "tool", "health", "embed"}
    /\ j.pc = "call" => j.op = "ping"
    /\ j.pc = "engine" => j.op \in {"tool", "health"}
    /\ j.pc = "search_call" => j.op \in {"tool", "health", "embed"}
    /\ j.pc \in {"post", "get"} => j.op = "health"
    /\ j.pc # "done" => j.status = "none" /\ j.error = "none"

Cause(j) ==
    j.bearer =>
        /\ j.op = "ping" /\ j.pc \in {"call", "done"}
        /\ j.pc = "done" =>
              IF j.status = "200" THEN j.last = "answer"
              ELSE /\ j.error = j.last
                   /\ j.error \in Transient => j.attempt = _attempt_count

\* create_run commits before it resolves, and answers when it has resolved.
Committed(j, r) ==
    /\ j.op = "create" /\ j.pc \in {"override", "key"} => r \in RunType
    /\ j.status = "201" => r.framed

Plain(j, r) == Placed(j) /\ Cause(j) /\ Committed(j, r)

\* A snapshot is read in the order of its SELECTs.
Taken(j) == j.pc \in {"commit", "override", "key"} \/ j.status \in {"200", "201"}

Snapped(j, sp) ==
    j.op \in {"settings", "create", "create_ma"} =>
        /\ j.pc = "overrides" =>
             \E a \in 1 .. Len(sp) : j.snap.keys = Shown(sp[a]).keys
        /\ j.pc = "search" =>
             \E a, b \in 1 .. Len(sp) :
                 a <= b /\ j.snap.keys = Shown(sp[a]).keys /\ j.snap.overrides = sp[b].overrides
        /\ j.pc = "retries" =>
             \E a, b, c \in 1 .. Len(sp) :
                 /\ a <= b /\ b <= c /\ j.snap.keys = Shown(sp[a]).keys
                 /\ j.snap.overrides = sp[b].overrides /\ j.snap.search = sp[c].search
        /\ Taken(j) =>
             \E a, b, c, d \in 1 .. Len(sp) :
                 /\ a <= b /\ b <= c /\ c <= d /\ j.snap.keys = Shown(sp[a]).keys
                 /\ j.snap.overrides = sp[b].overrides /\ j.snap.search = sp[c].search
                 /\ j.snap.retries = Shown(sp[d]).retries

\* The provider or engine whose key is looked up was in the settings before.
Named(j, sp) ==
    j.pc = "key" =>
        /\ j.op \in {"create", "resolve", "ping"} =>
             j.name \in Providers /\ \E s \in 1 .. Len(sp) : j.name = ProviderOf(sp[s], j.role)
        /\ j.op = "tool" =>
             j.name \in Engines /\ \E s \in 1 .. Len(sp) : j.name = ToolEngine(sp[s])
        /\ j.op = "health" =>
             j.name \in Engines \ Keyless /\ \E s \in 1 .. Len(sp) : j.name = HealthEngine(sp[s])
        /\ j.op = "embed" => j.name = OpenAI

Sourced(j, sp) ==
    \A r \in Roles : j.models[r] # NoModel =>
        \E s, t \in 1 .. Len(sp) :
            /\ s <= t
            /\ j.models[r].provider = ProviderOf(sp[s], r)
            /\ j.models[r].key = sp[t].keys[j.models[r].provider]

\* Settings that cannot serve a request.
Unserving(j, t) ==
    \/ j.op \in {"create", "resolve", "ping"} /\ ~Resolves(t, j.role)
    \/ j.op = "tool" /\ ~ToolServes(t)
    \/ j.op = "health" /\ ~HealthServes(t)
    \/ j.op = "embed" /\ t.keys[OpenAI] = None

Blamed(j, sp, key) ==
    /\ j.error \in {"unknown", "nokey", "unsupported"} =>
         \E t \in 1 .. Len(sp) : Unserving(j, sp[t])
    /\ j.error \in {"unset", "token"} =>
         \E t \in 1 .. Len(sp) :
             sp[t].keys[j.name] # None /\ ~(key # None /\ sp[t].keys[j.name].under = key)

Probed(j, sp) ==
    j.op = "health" /\ (j.pc \in {"search_call", "post", "get"} \/ j.status = "200") =>
        \/ \E t \in 1 .. Len(sp) : ToolServes(sp[t]) \/ sp[t].search \in Keyless \cup {None}
        \/ Len(sp) > 2

Knows(j, sp, key) ==
    Snapped(j, sp) /\ Named(j, sp) /\ Sourced(j, sp) /\ Blamed(j, sp, key) /\ Probed(j, sp)

ModelsHold ==
    /\ TypeOK
    /\ History(span)
    /\ Serving => Current(span, rows)
    /\ Plain(job, run)
    /\ Knows(job, span, fernet)

-----------------------------------------------------------------------------
(* A sequence of settings grows.                                           *)

Continues(q, sp) == Len(sp) <= Len(q) /\ \A i \in 1 .. Len(sp) : q[i] = sp[i]

LEMMA KnowsLater ==
  ASSUME NEW sp \in Seq(Tables), NEW q \in Seq(Tables), Continues(q, sp),
         NEW j, NEW key, Knows(j, sp, key)
  PROVE  Knows(j, q, key)
<1>1. /\ Len(sp) \in Nat /\ Len(q) \in Nat
      /\ \A i \in 1 .. Len(sp) : i \in 1 .. Len(q) /\ q[i] = sp[i]
  <2>1. Len(sp) \in Nat /\ Len(q) \in Nat
    BY LenProperties
  <2>2. QED
    BY <2>1 DEF Continues
<1>2. Snapped(j, q)
  <2> SUFFICES ASSUME j.op \in {"settings", "create", "create_ma"}
               PROVE  /\ j.pc = "overrides" =>
                           \E a \in 1 .. Len(q) : j.snap.keys = Shown(q[a]).keys
                      /\ j.pc = "search" =>
                           \E a, b \in 1 .. Len(q) :
                               /\ a <= b /\ j.snap.keys = Shown(q[a]).keys
                               /\ j.snap.overrides = q[b].overrides
                      /\ j.pc = "retries" =>
                           \E a, b, c \in 1 .. Len(q) :
                               /\ a <= b /\ b <= c /\ j.snap.keys = Shown(q[a]).keys
                               /\ j.snap.overrides = q[b].overrides
                               /\ j.snap.search = q[c].search
                      /\ Taken(j) =>
                           \E a, b, c, d \in 1 .. Len(q) :
                               /\ a <= b /\ b <= c /\ c <= d
                               /\ j.snap.keys = Shown(q[a]).keys
                               /\ j.snap.overrides = q[b].overrides
                               /\ j.snap.search = q[c].search
                               /\ j.snap.retries = Shown(q[d]).retries
    BY DEF Snapped
  <2>1. Snapped(j, sp)
    BY DEF Knows
  <2>2. ASSUME j.pc = "overrides"
        PROVE  \E a \in 1 .. Len(q) : j.snap.keys = Shown(q[a]).keys
    BY <1>1, <2>1, <2>2 DEF Snapped
  <2>3. ASSUME j.pc = "search"
        PROVE  \E a, b \in 1 .. Len(q) :
                   /\ a <= b /\ j.snap.keys = Shown(q[a]).keys
                   /\ j.snap.overrides = q[b].overrides
    <3>1. PICK a, b \in 1 .. Len(sp) :
            /\ a <= b /\ j.snap.keys = Shown(sp[a]).keys
            /\ j.snap.overrides = sp[b].overrides
      BY <2>1, <2>3 DEF Snapped
    <3>2. a \in 1 .. Len(q) /\ b \in 1 .. Len(q) /\ q[a] = sp[a] /\ q[b] = sp[b]
      BY <1>1, <3>1
    <3>3. QED
      BY <3>1, <3>2
  <2>4. ASSUME j.pc = "retries"
        PROVE  \E a, b, c \in 1 .. Len(q) :
                   /\ a <= b /\ b <= c /\ j.snap.keys = Shown(q[a]).keys
                   /\ j.snap.overrides = q[b].overrides /\ j.snap.search = q[c].search
    <3>1. PICK a, b, c \in 1 .. Len(sp) :
            /\ a <= b /\ b <= c /\ j.snap.keys = Shown(sp[a]).keys
            /\ j.snap.overrides = sp[b].overrides /\ j.snap.search = sp[c].search
      BY <2>1, <2>4 DEF Snapped
    <3>2. /\ a \in 1 .. Len(q) /\ b \in 1 .. Len(q) /\ c \in 1 .. Len(q)
          /\ q[a] = sp[a] /\ q[b] = sp[b] /\ q[c] = sp[c]
      BY <1>1, <3>1
    <3>3. QED
      BY <3>1, <3>2
  <2>5. ASSUME Taken(j)
        PROVE  \E a, b, c, d \in 1 .. Len(q) :
                   /\ a <= b /\ b <= c /\ c <= d /\ j.snap.keys = Shown(q[a]).keys
                   /\ j.snap.overrides = q[b].overrides /\ j.snap.search = q[c].search
                   /\ j.snap.retries = Shown(q[d]).retries
    <3>1. PICK a, b, c, d \in 1 .. Len(sp) :
            /\ a <= b /\ b <= c /\ c <= d /\ j.snap.keys = Shown(sp[a]).keys
            /\ j.snap.overrides = sp[b].overrides /\ j.snap.search = sp[c].search
            /\ j.snap.retries = Shown(sp[d]).retries
      BY <2>1, <2>5 DEF Snapped
    <3>2. /\ a \in 1 .. Len(q) /\ b \in 1 .. Len(q) /\ c \in 1 .. Len(q) /\ d \in 1 .. Len(q)
          /\ q[a] = sp[a] /\ q[b] = sp[b] /\ q[c] = sp[c] /\ q[d] = sp[d]
      BY <1>1, <3>1
    <3>3. QED
      BY <3>1, <3>2
  <2>6. QED
    BY <2>2, <2>3, <2>4, <2>5
<1>3. Named(j, q)
  BY <1>1 DEF Knows, Named
<1>4. Sourced(j, q)
  <2> SUFFICES ASSUME NEW r \in Roles, j.models[r] # NoModel
               PROVE  \E s, t \in 1 .. Len(q) :
                          /\ s <= t
                          /\ j.models[r].provider = ProviderOf(q[s], r)
                          /\ j.models[r].key = q[t].keys[j.models[r].provider]
    BY DEF Sourced
  <2>1. PICK s, t \in 1 .. Len(sp) :
          /\ s <= t
          /\ j.models[r].provider = ProviderOf(sp[s], r)
          /\ j.models[r].key = sp[t].keys[j.models[r].provider]
    BY DEF Knows, Sourced
  <2>2. s \in 1 .. Len(q) /\ t \in 1 .. Len(q) /\ q[s] = sp[s] /\ q[t] = sp[t]
    BY <1>1, <2>1
  <2>3. QED
    BY <2>1, <2>2
<1>5. Blamed(j, q, key)
  BY <1>1 DEF Knows, Blamed
<1>6. Probed(j, q)
  BY <1>1 DEF Knows, Probed, Continues
<1>7. QED
  BY <1>2, <1>3, <1>4, <1>5, <1>6 DEF Knows

LEMMA HistoryGrows ==
  ASSUME NEW sp \in Seq(Tables), NEW t \in Tables, NEW u \in Tables,
         History(sp), Current(sp, t), OneChange(t, u), KeysStay(t, u)
  PROVE  LET q == Append(sp, u) IN
         q \in Seq(Tables) /\ Continues(q, sp) /\ Current(q, u) /\ History(q)
<1> DEFINE q == Append(sp, u)
           n == Len(sp)
<1>1. /\ q \in Seq(Tables) /\ q # <<>> /\ Len(q) = n + 1 /\ q[n + 1] = u
      /\ \A i \in 1 .. n : q[i] = sp[i]
  BY AppendProperties
<1>2. n \in Nat /\ n # 0 /\ sp[n] = t
  BY LenProperties, EmptySeq DEF Current
<1> HIDE DEF q, n
<1>3. Continues(q, sp) /\ Current(q, u)
  BY <1>1, <1>2 DEF Continues, Current, n
<1>4. \A i \in 1 .. Len(q) - 1 : OneChange(q[i], q[i + 1])
  <2> SUFFICES ASSUME NEW i \in 1 .. n
               PROVE  OneChange(q[i], q[i + 1])
    BY <1>1, <1>2
  <2>1. CASE i = n
    BY <1>1, <1>2, <2>1
  <2>2. CASE i # n
    <3>1. i \in 1 .. n - 1 /\ i + 1 \in 1 .. n
      BY <1>2, <2>2
    <3>2. OneChange(sp[i], sp[i + 1])
      BY <3>1 DEF History, n
    <3>3. QED
      BY <1>1, <3>1, <3>2
  <2>3. QED
    BY <2>1, <2>2
<1>5. \A i, k \in 1 .. Len(q) : i <= k => KeysStay(q[i], q[k])
  <2> SUFFICES ASSUME NEW i \in 1 .. n + 1, NEW k \in 1 .. n + 1, i <= k
               PROVE  KeysStay(q[i], q[k])
    BY <1>1, <1>2
  <2>1. CASE k # n + 1
    <3>1. i \in 1 .. n /\ k \in 1 .. n
      BY <1>2, <2>1
    <3>2. KeysStay(sp[i], sp[k])
      BY <3>1 DEF History, n
    <3>3. QED
      BY <1>1, <3>1, <3>2
  <2>2. CASE k = n + 1 /\ i = n + 1
    BY <2>2 DEF KeysStay
  <2>3. CASE k = n + 1 /\ i # n + 1
    <3>1. i \in 1 .. n /\ n \in 1 .. n /\ i <= n
      BY <1>2, <2>3
    <3>2. KeysStay(sp[i], sp[n])
      BY <3>1 DEF History, n
    <3>3. KeysStay(sp[i], u)
      BY <1>2, <3>2 DEF KeysStay
    <3>4. QED
      BY <1>1, <2>3, <3>1, <3>3
  <2>4. QED
    BY <2>1, <2>2, <2>3
<1>6. QED
  BY <1>1, <1>3, <1>4, <1>5 DEF History, q

\* What each PUT does to the tables.
LEMMA Written ==
  ASSUME rows \in Tables, Write, fernet \in Secrets \cup {None}, writes \in Nat
  PROVE  /\ rows' \in Tables /\ writes' = writes + 1 /\ writes < MaxWrites
         /\ UNCHANGED <<fernet, restarts>>
         /\ OneChange(rows, rows') /\ KeysStay(rows, rows')
<1>1. writes' = writes + 1 /\ writes < MaxWrites /\ UNCHANGED <<fernet, restarts>>
  BY DEF Write, Put, set_provider_key, set_model_overrides, set_search_provider,
         set_max_stage_retries
<1>2. CASE \E n \in KeyInputs : set_provider_key(n)
  <2>1. PICK n \in KeyInputs : set_provider_key(n)
    BY <1>2
  <2> DEFINE k == [id |-> writes + 1, under |-> fernet]
  <2>2. rows' = [rows EXCEPT !.keys[n] = k] /\ fernet # None
    BY <2>1 DEF set_provider_key
  <2>3. k \in KeyRows /\ k # None
    BY <2>2, SettingsAssumption DEF KeyRows
  <2> HIDE DEF k
  <2>4. n \in Names
    BY SettingsAssumption DEF Names
  <2>5. rows' \in Tables
    BY <2>2, <2>3, <2>4 DEF Tables
  <2>6. /\ rows'.keys = [rows.keys EXCEPT ![n] = k]
        /\ rows'.overrides = rows.overrides /\ rows'.search = rows.search
        /\ rows'.retries = rows.retries
    BY <2>2 DEF Tables
  <2>7. KeysStay(rows, rows')
    BY <2>3, <2>6 DEF KeysStay, Tables
  <2>8. QED
    BY <1>1, <2>5, <2>6, <2>7 DEF OneChange
<1>3. CASE \E o \in OverrideInputs : set_model_overrides(o)
  <2>1. PICK o \in OverrideInputs : rows' = [rows EXCEPT !.overrides = o]
    BY <1>3 DEF set_model_overrides
  <2>2. o \in Overrides
    BY SettingsAssumption DEF Overrides, Roles
  <2>3. rows' \in Tables
    BY <2>1, <2>2 DEF Tables
  <2>4. rows'.keys = rows.keys /\ rows'.search = rows.search /\ rows'.retries = rows.retries
    BY <2>1 DEF Tables
  <2>5. QED
    BY <1>1, <2>3, <2>4 DEF OneChange, KeysStay
<1>4. CASE \E e \in Engines : set_search_provider(e)
  <2>1. PICK e \in Engines : rows' = [rows EXCEPT !.search = e]
    BY <1>4 DEF set_search_provider
  <2>2. rows' \in Tables
    BY <2>1 DEF Tables
  <2>3. /\ rows'.keys = rows.keys /\ rows'.overrides = rows.overrides
        /\ rows'.retries = rows.retries
    BY <2>1 DEF Tables
  <2>4. QED
    BY <1>1, <2>2, <2>3 DEF OneChange, KeysStay
<1>5. CASE \E v \in RetryValues : set_max_stage_retries(v)
  <2>1. PICK v \in RetryValues : rows' = [rows EXCEPT !.retries = v]
    BY <1>5 DEF set_max_stage_retries
  <2>2. rows' \in Tables
    BY <2>1 DEF Tables
  <2>3. /\ rows'.keys = rows.keys /\ rows'.overrides = rows.overrides
        /\ rows'.search = rows.search
    BY <2>1 DEF Tables
  <2>4. QED
    BY <1>1, <2>2, <2>3 DEF OneChange, KeysStay
<1>6. QED
  BY <1>2, <1>3, <1>4, <1>5 DEF Write

-----------------------------------------------------------------------------
(* Requests come, PUTs are served beside them, the process restarts.       *)

LEMMA IdleFacts == Idle \in JobType /\ Plain(Idle, run) /\ Idle.pc = "idle" /\
                   \A sp \in Seq(Tables) : \A key : Knows(Idle, sp, key)
<1>1. /\ NoSnap \in Snaps /\ 1 \in Roles /\ 1 \in 1 .. _attempt_count
      /\ [r \in Roles |-> NoModel] \in
            [Roles -> [provider : Providers \cup {None}, key : KeyRows \cup {None}]]
  BY SettingsAssumption, ModelsAssumption
     DEF NoSnap, Snaps, Overrides, Roles, _attempt_count, NoModel
<1>2. Idle \in JobType
  BY <1>1 DEF Idle, JobType, Errors
<1>3. /\ Idle.pc = "idle" /\ Idle.op = "none" /\ Idle.status = "none" /\ Idle.error = "none"
      /\ Idle.bearer = FALSE /\ \A r \in Roles : Idle.models[r] = NoModel
  BY DEF Idle
<1> HIDE DEF Idle
<1>4. Plain(Idle, run)
  BY <1>3 DEF Plain, Placed, Cause, Committed
<1>5. ASSUME NEW sp \in Seq(Tables), NEW key
      PROVE  Knows(Idle, sp, key)
  BY <1>3 DEF Knows, Snapped, Named, Sourced, Blamed, Probed, Taken
<1>6. QED
  BY <1>2, <1>3, <1>4, <1>5

LEMMA Types ==
  ASSUME ModelsHold
  PROVE  /\ rows \in Tables /\ fernet \in Secrets \cup {None}
         /\ writes \in 0 .. MaxWrites /\ restarts \in 0 .. MaxRestarts
         /\ job \in JobType /\ (run = None \/ run \in RunType) /\ span \in Seq(Tables)
  BY DEF ModelsHold, TypeOK, JobType, RunType

LEMMA Starts ==
  ASSUME Init
  PROVE  ModelsHold
<1>1. /\ rows \in Tables /\ fernet \in Secrets \cup {None} /\ writes = 0 /\ restarts = 0
      /\ job = Idle /\ run = None /\ span = <<>>
  BY InstallsAssumption DEF Init, SettingsInit
<1>2. <<>> \in Seq(Tables) /\ Len(<<>>) = 0
  BY EmptySeq
<1>3. Idle \in JobType /\ Plain(Idle, run) /\ Idle.pc = "idle"
      /\ \A sp \in Seq(Tables) : \A key : Knows(Idle, sp, key)
  BY IdleFacts
<1>4. TypeOK
  BY <1>1, <1>2, <1>3, SettingsAssumption DEF TypeOK, JobType
<1>5. History(span)
  BY <1>1, <1>2 DEF History
<1>6. ~Serving
  BY <1>1, <1>3 DEF Serving
<1>7. QED
  BY <1>1, <1>2, <1>3, <1>4, <1>5, <1>6 DEF ModelsHold

LEMMA WriteStep ==
  ASSUME ModelsHold, SettingsWrite
  PROVE  ModelsHold'
<1>1. /\ rows \in Tables /\ fernet \in Secrets \cup {None}
      /\ writes \in 0 .. MaxWrites /\ restarts \in 0 .. MaxRestarts
      /\ job \in JobType /\ (run = None \/ run \in RunType) /\ span \in Seq(Tables)
  BY Types
<1>2. Write /\ UNCHANGED <<job, run>>
      /\ span' = IF Serving THEN Append(span, rows') ELSE span
  BY DEF SettingsWrite
<1>3. /\ rows' \in Tables /\ writes' = writes + 1 /\ writes < MaxWrites
      /\ UNCHANGED <<fernet, restarts>>
      /\ OneChange(rows, rows') /\ KeysStay(rows, rows')
  BY <1>1, <1>2, Written
<1>4. writes' \in 0 .. MaxWrites
  BY <1>1, <1>3, SettingsAssumption
<1>5. Plain(job, run)'
  BY <1>2 DEF ModelsHold
<1>6. CASE Serving
  <2>1. Current(span, rows) /\ History(span) /\ Knows(job, span, fernet)
    BY <1>6 DEF ModelsHold
  <2>2. span' = Append(span, rows')
    BY <1>2, <1>6
  <2>3. span' \in Seq(Tables) /\ Continues(span', span) /\ Current(span', rows')
        /\ History(span')
    BY <1>1, <1>3, <2>1, <2>2, HistoryGrows
  <2>4. Knows(job, span', fernet)
    BY <1>1, <2>1, <2>3, KnowsLater
  <2>5. TypeOK'
    BY <1>1, <1>2, <1>3, <1>4, <2>3 DEF TypeOK, JobType, RunType
  <2>6. QED
    BY <1>2, <1>3, <1>5, <2>3, <2>4, <2>5 DEF ModelsHold
<1>7. CASE ~Serving
  <2>1. span' = span /\ ~Serving'
    BY <1>2, <1>7 DEF Serving
  <2>2. TypeOK'
    BY <1>1, <1>2, <1>3, <1>4, <2>1 DEF TypeOK, JobType, RunType
  <2>3. History(span') /\ Knows(job', span', fernet')
    BY <1>2, <1>3, <2>1 DEF ModelsHold
  <2>4. QED
    BY <1>5, <2>1, <2>2, <2>3 DEF ModelsHold
<1>8. QED
  BY <1>6, <1>7

LEMMA RestartStep ==
  ASSUME ModelsHold, Restart
  PROVE  ModelsHold'
<1>1. /\ rows \in Tables /\ writes \in 0 .. MaxWrites /\ restarts \in 0 .. MaxRestarts
      /\ (run = None \/ run \in RunType)
  BY Types
<1>2. /\ restarts < MaxRestarts /\ restarts' = restarts + 1
      /\ fernet' \in Secrets \cup {None} /\ UNCHANGED <<rows, writes, run>>
      /\ job' = Idle /\ span' = <<>>
  BY DEF Restart, Reboot
<1>3. <<>> \in Seq(Tables) /\ Len(<<>>) = 0
  BY EmptySeq
<1>4. Idle \in JobType /\ Plain(Idle, run) /\ Idle.pc = "idle"
      /\ \A sp \in Seq(Tables) : \A key : Knows(Idle, sp, key)
  BY IdleFacts
<1>5. restarts' \in 0 .. MaxRestarts
  BY <1>1, <1>2, SettingsAssumption
<1>6. TypeOK'
  BY <1>1, <1>2, <1>3, <1>4, <1>5 DEF TypeOK, JobType, RunType
<1>7. History(span)' /\ ~Serving'
  BY <1>2, <1>3, <1>4 DEF History, Serving
<1>8. QED
  BY <1>2, <1>3, <1>4, <1>6, <1>7 DEF ModelsHold

LEMMA StartStep ==
  ASSUME ModelsHold, NEW op \in Ops, NEW role \in Roles, Start(op, role)
  PROVE  ModelsHold'
<1>1. /\ rows \in Tables /\ fernet \in Secrets \cup {None}
      /\ writes \in 0 .. MaxWrites /\ restarts \in 0 .. MaxRestarts
      /\ (run = None \/ run \in RunType)
  BY Types
<1> DEFINE name == IF op = "embed" THEN OpenAI ELSE None
           pc == CASE op \in {"providers", "settings"} -> "keys"
                   [] op \in {"create", "create_ma"} -> "task"
                   [] op \in {"resolve", "ping"} -> "override"
                   [] op \in {"tool", "health"} -> "engine"
                   [] op = "embed" -> "key"
<1>2. /\ job' = [Idle EXCEPT !.op = op, !.role = role, !.name = name, !.pc = pc]
      /\ span' = <<rows>> /\ UNCHANGED <<rows, fernet, writes, restarts, run>>
  BY DEF Start, store
<1>3. Idle \in JobType
  BY IdleFacts
<1>4. /\ op \in {"providers", "settings"} => pc = "keys"
      /\ op \in {"create", "create_ma"} => pc = "task"
      /\ op \in {"resolve", "ping"} => pc = "override"
      /\ op \in {"tool", "health"} => pc = "engine"
      /\ op = "embed" => pc = "key"
  OBVIOUS
<1>5. pc \in {"keys", "task", "override", "engine", "key"} /\ name \in Names \cup {None}
  BY <1>4, ModelsAssumption DEF Ops, Names
<1>6. op = "embed" => name = OpenAI
  OBVIOUS
<1> HIDE DEF name, pc
<1>7. /\ job' \in JobType /\ job'.op = op /\ job'.pc = pc /\ job'.name = name
      /\ job'.status = Idle.status /\ job'.error = Idle.error /\ job'.bearer = Idle.bearer
      /\ job'.models = Idle.models
  BY <1>2, <1>3, <1>5 DEF JobType
<1>8. /\ job'.status = "none" /\ job'.error = "none" /\ job'.bearer = FALSE
      /\ \A r \in Roles : job'.models[r] = NoModel
  BY <1>7 DEF Idle
<1>9. <<rows>> \in Seq(Tables) /\ Len(<<rows>>) = 1 /\ <<rows>>[1] = rows /\ <<rows>> # <<>>
  BY <1>1
<1>10. TypeOK'
  BY <1>1, <1>2, <1>7, <1>9 DEF TypeOK, JobType, RunType
<1>11. Plain(job', run')
  BY <1>4, <1>7, <1>8 DEF Plain, Placed, Cause, Committed, Ops
<1>12. Knows(job', span', fernet')
  <2>1. /\ Named(job', span') /\ Sourced(job', span') /\ Blamed(job', span', fernet')
    BY <1>4, <1>6, <1>7, <1>8 DEF Named, Sourced, Blamed, Ops
  <2>2. Snapped(job', span') /\ Probed(job', span')
    BY <1>4, <1>7, <1>8 DEF Snapped, Probed, Taken, Ops
  <2>3. QED
    BY <2>1, <2>2 DEF Knows
<1>13. History(span')
  <2>1. 1 .. Len(<<rows>>) - 1 = {}
    BY <1>9
  <2>2. \A i, k \in 1 .. Len(<<rows>>) : i = 1 /\ k = 1
    BY <1>9
  <2>3. KeysStay(rows, rows)
    BY DEF KeysStay
  <2>4. QED
    BY <1>2, <1>9, <2>1, <2>2, <2>3 DEF History
<1>14. Current(span', rows')
  BY <1>2, <1>9 DEF Current
<1>15. QED
  BY <1>10, <1>11, <1>12, <1>13, <1>14 DEF ModelsHold

-----------------------------------------------------------------------------
(* A request is served.                                                    *)

LEMMA Served ==
  ASSUME ModelsHold, Serving, UNCHANGED <<store, span>>,
         job' \in JobType, run' = None \/ run' \in RunType,
         Plain(job', run'), Knows(job', span, fernet)
  PROVE  ModelsHold'
<1>1. UNCHANGED <<rows, fernet, writes, restarts, span>>
  BY DEF store
<1>2. TypeOK'
  BY <1>1, Types DEF TypeOK, JobType, RunType
<1>3. History(span) /\ Current(span, rows)
  BY DEF ModelsHold
<1>4. QED
  BY <1>1, <1>2, <1>3 DEF ModelsHold

\* What a request that is served can rely on.
LEMMA Now ==
  ASSUME ModelsHold, Serving
  PROVE  /\ Len(span) \in 1 .. Len(span) /\ span[Len(span)] = rows
         /\ \A i \in 1 .. Len(span) :
              /\ i \in Nat /\ i <= Len(span) /\ span[i] \in Tables
              /\ KeysStay(span[i], rows)
         /\ Plain(job, run) /\ Knows(job, span, fernet)
         /\ job.status = "none" /\ job.error = "none" /\ job.pc # "done"
<1>1. span \in Seq(Tables) /\ span # <<>> /\ span[Len(span)] = rows /\ History(span)
  BY Types DEF ModelsHold, Current
<1>2. Len(span) \in Nat \ {0} /\ \A i \in 1 .. Len(span) : span[i] \in Tables
  BY <1>1, EmptySeq, ElementOfSeq
<1>3. \A i \in 1 .. Len(span) : KeysStay(span[i], rows)
  BY <1>1, <1>2 DEF History
<1>4. Plain(job, run) /\ Knows(job, span, fernet)
  BY DEF ModelsHold
<1>5. job.pc # "done"
  BY DEF Serving
<1>6. job.status = "none" /\ job.error = "none"
  BY <1>4, <1>5 DEF Plain, Placed
<1>7. QED
  BY <1>1, <1>2, <1>3, <1>4, <1>5, <1>6

\* A request that goes on with nothing new in hand.
LEMMA GoesOn ==
  ASSUME ModelsHold, Serving, UNCHANGED <<store, run, span>>, NEW pc, Goto(pc),
         pc \in {"keys", "search_call", "post", "get"},
         ~job.bearer,
         pc = "keys" => job.op \in {"create", "create_ma"},
         pc = "search_call" => job.op \in {"tool", "health", "embed"},
         pc \in {"post", "get"} => job.op = "health",
         job.op = "health" =>
             \/ \E t \in 1 .. Len(span) : ToolServes(span[t]) \/ span[t].search \in Keyless \cup {None}
             \/ Len(span) > 2
  PROVE  ModelsHold'
<1>1. job \in JobType /\ (run = None \/ run \in RunType)
  BY Types
<1>2. job' = [job EXCEPT !.pc = pc] /\ run' = run
  BY DEF Goto
<1>3. /\ job' \in JobType /\ job'.pc = pc /\ job'.op = job.op /\ job'.status = job.status
      /\ job'.error = job.error /\ job'.bearer = job.bearer /\ job'.models = job.models
      /\ job'.name = job.name
  BY <1>1, <1>2 DEF JobType
<1>4. /\ Knows(job, span, fernet) /\ job.status = "none" /\ job.error = "none"
  BY Now
<1>5. Plain(job', run')
  BY <1>3, <1>4 DEF Plain, Placed, Cause, Committed
<1>6. Knows(job', span, fernet)
  <2>1. Sourced(job', span)
    BY <1>3, <1>4 DEF Knows, Sourced
  <2>2. Snapped(job', span) /\ Named(job', span)
    BY <1>3, <1>4 DEF Snapped, Named, Taken
  <2>3. Blamed(job', span, fernet)
    BY <1>3, <1>4 DEF Blamed
  <2>4. Probed(job', span)
    BY <1>3 DEF Probed
  <2>5. QED
    BY <2>1, <2>2, <2>3, <2>4 DEF Knows
<1>7. QED
  BY <1>1, <1>2, <1>3, <1>5, <1>6, Served

\* A request that is answered.
LEMMA Answered ==
  ASSUME ModelsHold, Serving, UNCHANGED <<store, run, span>>,
         NEW status \in {"200", "400", "500"}, NEW error \in Errors, Answer(status, error),
         ~job.bearer,
         status = "200" => /\ job.op \in {"tool", "health", "embed", "ping"}
                           /\ job.op = "health" => job.pc \in {"search_call", "post", "get"},
         error \in {"unknown", "nokey", "unsupported"} =>
             \E t \in 1 .. Len(span) : Unserving(job, span[t]),
         error \in {"unset", "token"} =>
             \E t \in 1 .. Len(span) :
                 /\ span[t].keys[job.name] # None
                 /\ ~(fernet # None /\ span[t].keys[job.name].under = fernet)
  PROVE  ModelsHold'
<1>1. job \in JobType /\ (run = None \/ run \in RunType)
  BY Types
<1>2. job' = [job EXCEPT !.pc = "done", !.status = status, !.error = error] /\ run' = run
  BY DEF Answer
<1>3. /\ job' \in JobType /\ job'.pc = "done" /\ job'.op = job.op /\ job'.status = status
      /\ job'.error = error /\ job'.bearer = job.bearer /\ job'.models = job.models
      /\ job'.name = job.name /\ job'.role = job.role
  BY <1>1, <1>2 DEF JobType
<1>4. /\ Knows(job, span, fernet)
  BY Now
<1>5. Plain(job', run')
  BY <1>3 DEF Plain, Placed, Cause, Committed
<1>6. Knows(job', span, fernet)
  <2>1. Sourced(job', span)
    BY <1>3, <1>4 DEF Knows, Sourced
  <2>2. Snapped(job', span) /\ Named(job', span)
    BY <1>3 DEF Snapped, Named, Taken
  <2>3. Blamed(job', span, fernet)
    BY <1>3 DEF Blamed, Unserving
  <2>4. Probed(job', span)
    BY <1>3, <1>4 DEF Knows, Probed
  <2>5. QED
    BY <2>1, <2>2, <2>3, <2>4 DEF Knows
<1>7. QED
  BY <1>1, <1>2, <1>3, <1>5, <1>6, Served

\* Fail answers 400 or 500.
LEMMA Fails ==
  ASSUME ModelsHold, Serving, UNCHANGED <<store, run, span>>,
         NEW error \in Errors, Fail(error), ~job.bearer,
         error \in {"unknown", "nokey", "unsupported"} =>
             \E t \in 1 .. Len(span) : Unserving(job, span[t]),
         error \in {"unset", "token"} =>
             \E t \in 1 .. Len(span) :
                 /\ span[t].keys[job.name] # None
                 /\ ~(fernet # None /\ span[t].keys[job.name].under = fernet)
  PROVE  ModelsHold'
<1> DEFINE status == IF job.op = "ping" /\ error # "token" THEN "400" ELSE "500"
<1>1. Answer(status, error)
  BY DEF Fail
<1>2. status \in {"400", "500"}
  OBVIOUS
<1> HIDE DEF status
<1>3. status \in {"200", "400", "500"} /\ status # "200"
  BY <1>2
<1>4. QED
  BY <1>1, <1>3, Answered

\* Only a Bedrock call has a bearer.
LEMMA NoBearer ==
  ASSUME ModelsHold, Serving, job.pc # "call"
  PROVE  ~job.bearer
  BY DEF ModelsHold, Serving, Plain, Cause

LEMMA TaskStep ==
  ASSUME ModelsHold, CheckTask
  PROVE  ModelsHold'
<1>1. job.pc = "task" /\ UNCHANGED <<store, run, span>> /\ Serving
  BY DEF CheckTask, Serving
<1>2. job.op \in {"create", "create_ma"} /\ ~job.bearer
  BY <1>1, NoBearer DEF ModelsHold, Plain, Placed
<1>3. CASE Answer("400", "task")
  <2>1. "task" \in Errors
    BY DEF Errors
  <2>2. QED
    BY <1>1, <1>2, <1>3, <2>1, Answered
<1>4. CASE Goto("keys")
  BY <1>1, <1>2, <1>4, GoesOn
<1>5. QED
  BY <1>3, <1>4 DEF CheckTask

LEMMA CallSteps ==
  ASSUME ModelsHold, OtherCall \/ External \/ SearchFree
  PROVE  ModelsHold'
<1>1. UNCHANGED <<store, run, span>> /\ Serving
      /\ job.pc \in {"call", "search_call", "post", "get"}
  BY DEF OtherCall, External, SearchFree, Serving
<1>2. "none" \in Errors /\ "provider" \in Errors
  BY DEF Errors
<1>3. /\ job.pc = "call" => job.op = "ping"
      /\ job.pc = "search_call" => job.op \in {"tool", "health", "embed"}
      /\ job.pc \in {"post", "get"} => job.op = "health"
      /\ Probed(job, span)
  BY DEF ModelsHold, Plain, Placed, Knows
<1>4. CASE OtherCall
  <2>1. ~job.bearer /\ job.pc = "call" /\ (Answer("200", "none") \/ Answer("500", "provider"))
    BY <1>4 DEF OtherCall
  <2>2. CASE Answer("200", "none")
    BY <1>1, <1>2, <1>3, <2>1, <2>2, Answered
  <2>3. CASE Answer("500", "provider")
    BY <1>1, <1>2, <1>3, <2>1, <2>3, Answered
  <2>4. QED
    BY <2>1, <2>2, <2>3
<1>5. CASE External
  <2>1. ~job.bearer /\ job.pc = "search_call"
        /\ (Answer("200", "none") \/ Answer("500", "provider"))
    BY <1>1, <1>5, NoBearer DEF External
  <2>2. CASE Answer("200", "none")
    BY <1>1, <1>2, <1>3, <2>1, <2>2, Answered
  <2>3. CASE Answer("500", "provider")
    BY <1>1, <1>2, <1>3, <2>1, <2>3, Answered
  <2>4. QED
    BY <2>1, <2>2, <2>3
<1>6. CASE SearchFree
  <2>1. job.pc \in {"post", "get"} /\ (Answer("200", "none") \/ Goto("get"))
    BY <1>6 DEF SearchFree
  <2>2. ~job.bearer /\ job.op = "health"
    BY <1>1, <1>3, <2>1, NoBearer
  <2>3. CASE Answer("200", "none")
    BY <1>1, <1>2, <1>3, <2>1, <2>2, <2>3, Answered
  <2>4. CASE Goto("get")
    BY <1>1, <1>3, <2>1, <2>2, <2>4, GoesOn DEF Probed
  <2>5. QED
    BY <2>1, <2>3, <2>4
<1>7. QED
  BY <1>4, <1>5, <1>6

LEMMA AttemptStep ==
  ASSUME ModelsHold, Attempt
  PROVE  ModelsHold'
<1>1. UNCHANGED <<store, run, span>> /\ Serving /\ job.pc = "call" /\ job.bearer
  BY DEF Attempt, Serving
<1>2. job \in JobType /\ (run = None \/ run \in RunType)
  BY Types
<1>3. /\ job.op = "ping" /\ job.status = "none" /\ job.error = "none"
      /\ Knows(job, span, fernet)
  BY <1>1, Now DEF Plain, Placed
<1>4. _attempt_count \in Nat \ {0} /\ job.attempt \in 1 .. _attempt_count
  BY <1>2, ModelsAssumption DEF _attempt_count, JobType
<1>5. PICK reply \in Replies :
        IF reply = "answer" THEN job' = [job EXCEPT !.pc = "done", !.status = "200", !.last = reply]
        ELSE IF reply \notin Transient \/ LastAttempt
        THEN job' = [job EXCEPT !.pc = "done", !.status = "500", !.error = reply, !.last = reply]
        ELSE job' = [job EXCEPT !.attempt = @ + 1, !.last = reply,
                       !.pc = IF job.attempt < _attempt_count THEN "call" ELSE "done",
                       !.status = IF job.attempt < _attempt_count THEN "none" ELSE "500",
                       !.error = IF job.attempt < _attempt_count THEN "none"
                                                                 ELSE "without a response"]
  BY DEF Attempt
<1>6. /\ job' \in JobType
      /\ job'.op = job.op /\ job'.models = job.models /\ job'.bearer = job.bearer
      /\ job'.pc \in {"call", "done"}
      /\ job'.pc # "done" => job'.status = "none" /\ job'.error = "none"
      /\ job'.status # "201" /\ job'.error \in Replies \cup {"none"}
      /\ job'.pc = "done" =>
            IF job'.status = "200" THEN job'.last = "answer"
            ELSE /\ job'.error = job'.last
                 /\ job'.error \in Transient => job'.attempt = _attempt_count
  <2>1. CASE reply = "answer"
    <3>1. job' = [job EXCEPT !.pc = "done", !.status = "200", !.last = reply]
      BY <1>5, <2>1
    <3>2. /\ job' \in JobType
          /\ job'.op = job.op /\ job'.models = job.models /\ job'.bearer = job.bearer
          /\ job'.pc = "done" /\ job'.status = "200" /\ job'.last = "answer"
          /\ job'.error = job.error
      BY <1>2, <2>1, <3>1 DEF JobType, Replies
    <3>3. QED
      BY <1>3, <3>2
  <2>2. CASE reply # "answer" /\ (reply \notin Transient \/ LastAttempt)
    <3>1. job' = [job EXCEPT !.pc = "done", !.status = "500", !.error = reply, !.last = reply]
      BY <1>5, <2>2
    <3>2. /\ job' \in JobType
          /\ job'.op = job.op /\ job'.models = job.models /\ job'.bearer = job.bearer
          /\ job'.pc = "done" /\ job'.status = "500" /\ job'.last = reply
          /\ job'.error = reply /\ job'.attempt = job.attempt
      BY <1>2, <1>5, <3>1 DEF JobType, Errors
    <3>3. reply \in Transient => job.attempt = _attempt_count
      BY <1>4, <2>2 DEF LastAttempt
    <3>4. QED
      BY <1>5, <3>2, <3>3
  <2>3. CASE reply # "answer" /\ ~(reply \notin Transient \/ LastAttempt)
    <3>1. job.attempt < _attempt_count
      BY <1>4, <2>3 DEF LastAttempt
    <3>2. job' = [job EXCEPT !.attempt = @ + 1, !.last = reply, !.pc = "call",
                             !.status = "none", !.error = "none"]
      BY <1>5, <2>3, <3>1
    <3>3. job.attempt + 1 \in 1 .. _attempt_count
      BY <1>4, <3>1
    <3>4. /\ job' \in JobType
          /\ job'.op = job.op /\ job'.models = job.models /\ job'.bearer = job.bearer
          /\ job'.pc = "call" /\ job'.status = "none" /\ job'.error = "none"
      BY <1>2, <1>5, <3>2, <3>3 DEF JobType, Errors
    <3>5. QED
      BY <3>4
  <2>4. QED
    BY <2>1, <2>2, <2>3
<1>7. Plain(job', run')
  BY <1>3, <1>6 DEF Plain, Placed, Cause, Committed
<1>8. Knows(job', span, fernet)
  <2>1. Sourced(job', span)
    BY <1>3, <1>6 DEF Knows, Sourced
  <2>2. Snapped(job', span) /\ Named(job', span) /\ Probed(job', span)
    BY <1>3, <1>6 DEF Snapped, Named, Probed
  <2>3. Blamed(job', span, fernet)
    BY <1>6 DEF Blamed, Replies, Transient
  <2>4. QED
    BY <2>1, <2>2, <2>3 DEF Knows
<1>9. QED
  BY <1>1, <1>2, <1>6, <1>7, <1>8, Served

-----------------------------------------------------------------------------
(* The snapshot is read, and committed with the run.                       *)

LEMMA ShownTypes ==
  ASSUME NEW t \in Tables
  PROVE  /\ Shown(t).keys \in SUBSET Names /\ Shown(t).retries \in RetryValues \cup {DEFAULT_MAX_STAGE_RETRIES}
         /\ t.overrides \in Overrides /\ t.search \in Engines \cup {None}
  BY DEF Tables, Shown

LEMMA KeysStep ==
  ASSUME ModelsHold, ReadKeys
  PROVE  ModelsHold'
<1>1. job.pc = "keys" /\ Serving /\ UNCHANGED <<store, run, span>>
  BY DEF ReadKeys, Serving
<1>2. job \in JobType /\ rows \in Tables /\ (run = None \/ run \in RunType)
  BY Types
<1>3. /\ Len(span) \in 1 .. Len(span) /\ span[Len(span)] = rows
      /\ Plain(job, run) /\ Knows(job, span, fernet)
      /\ job.status = "none" /\ job.error = "none"
  BY <1>1, Now
<1>4. ~job.bearer /\ job.op \in {"providers", "settings", "create", "create_ma"}
  BY <1>1, <1>3, NoBearer DEF Plain, Placed
<1> DEFINE keys == Shown(rows).keys
           pc == IF job.op = "providers" THEN "done" ELSE "overrides"
           status == IF job.op = "providers" THEN "200" ELSE "none"
<1>5. job' = [job EXCEPT !.snap.keys = keys, !.pc = pc, !.status = status]
  BY DEF ReadKeys
<1>6. /\ pc \in {"done", "overrides"} /\ status \in {"200", "none"}
      /\ pc = "done" <=> job.op = "providers"
      /\ status = "200" <=> job.op = "providers"
  OBVIOUS
<1>7. keys \in SUBSET Names
  BY <1>2, ShownTypes
<1> HIDE DEF keys, pc, status
<1>8. job.snap \in Snaps
  BY <1>2 DEF JobType
<1>9. [job.snap EXCEPT !.keys = keys] \in Snaps
  BY <1>7, <1>8 DEF Snaps
<1>10. /\ job' \in JobType /\ job'.op = job.op /\ job'.pc = pc /\ job'.status = status
       /\ job'.error = job.error /\ job'.bearer = job.bearer /\ job'.models = job.models
       /\ job'.snap = [job.snap EXCEPT !.keys = keys]
  BY <1>2, <1>5, <1>6, <1>9 DEF JobType
<1>11. job'.snap.keys = keys
  BY <1>8, <1>10 DEF Snaps
<1>12. Plain(job', run')
  BY <1>1, <1>3, <1>4, <1>6, <1>10 DEF Plain, Placed, Cause, Committed
<1>13. Knows(job', span, fernet)
  <2>1. Sourced(job', span)
    BY <1>3, <1>10 DEF Knows, Sourced
  <2>2. Named(job', span) /\ Blamed(job', span, fernet) /\ Probed(job', span)
    BY <1>3, <1>4, <1>6, <1>10 DEF Named, Blamed, Probed
  <2>3. Snapped(job', span)
    <3>1. job'.snap.keys = Shown(span[Len(span)]).keys
      BY <1>3, <1>11 DEF keys
    <3>2. job.op \in {"settings", "create", "create_ma"} => ~Taken(job') /\ pc = "overrides"
      BY <1>6, <1>10 DEF Taken
    <3>3. QED
      BY <1>3, <1>10, <3>1, <3>2 DEF Snapped
  <2>4. QED
    BY <2>1, <2>2, <2>3 DEF Knows
<1>14. QED
  BY <1>1, <1>2, <1>10, <1>12, <1>13, Served

LEMMA OverridesStep ==
  ASSUME ModelsHold, ReadOverrides
  PROVE  ModelsHold'
<1>1. job.pc = "overrides" /\ Serving /\ UNCHANGED <<store, run, span>>
      /\ job' = [job EXCEPT !.snap.overrides = rows.overrides, !.pc = "search"]
  BY DEF ReadOverrides, Serving
<1>2. job \in JobType /\ rows \in Tables /\ (run = None \/ run \in RunType)
  BY Types
<1>3. /\ Len(span) \in 1 .. Len(span) /\ span[Len(span)] = rows
      /\ \A i \in 1 .. Len(span) : i <= Len(span)
      /\ Plain(job, run) /\ Knows(job, span, fernet)
      /\ job.status = "none" /\ job.error = "none"
  BY <1>1, Now
<1>4. ~job.bearer /\ job.op \in {"settings", "create", "create_ma"}
  BY <1>1, <1>3, NoBearer DEF Plain, Placed
<1>5. job.snap \in Snaps /\ rows.overrides \in Overrides
  BY <1>2, ShownTypes DEF JobType
<1>6. [job.snap EXCEPT !.overrides = rows.overrides] \in Snaps
  BY <1>5 DEF Snaps
<1>7. /\ job' \in JobType /\ job'.op = job.op /\ job'.pc = "search" /\ job'.status = job.status
      /\ job'.error = job.error /\ job'.bearer = job.bearer /\ job'.models = job.models
      /\ job'.snap = [job.snap EXCEPT !.overrides = rows.overrides]
  BY <1>1, <1>2, <1>6 DEF JobType
<1>8. job'.snap.keys = job.snap.keys /\ job'.snap.overrides = rows.overrides
  BY <1>5, <1>7 DEF Snaps
<1>9. Plain(job', run')
  BY <1>1, <1>3, <1>4, <1>7 DEF Plain, Placed, Cause, Committed
<1>10. Knows(job', span, fernet)
  <2>1. Sourced(job', span)
    BY <1>3, <1>7 DEF Knows, Sourced
  <2>2. Named(job', span) /\ Blamed(job', span, fernet) /\ Probed(job', span)
    BY <1>3, <1>4, <1>7 DEF Named, Blamed, Probed
  <2>3. Snapped(job', span)
    <3>1. PICK a \in 1 .. Len(span) : job.snap.keys = Shown(span[a]).keys
      BY <1>1, <1>3, <1>4 DEF Knows, Snapped
    <3>2. \E x, y \in 1 .. Len(span) :
             x <= y /\ job'.snap.keys = Shown(span[x]).keys
             /\ job'.snap.overrides = span[y].overrides
      BY <1>3, <1>8, <3>1
    <3>3. ~Taken(job') /\ job'.pc = "search"
      BY <1>3, <1>7 DEF Taken
    <3>4. QED
      BY <3>2, <3>3 DEF Snapped
  <2>4. QED
    BY <2>1, <2>2, <2>3 DEF Knows
<1>11. QED
  BY <1>1, <1>2, <1>7, <1>9, <1>10, Served

LEMMA SearchStep ==
  ASSUME ModelsHold, ReadSearch
  PROVE  ModelsHold'
<1>1. job.pc = "search" /\ Serving /\ UNCHANGED <<store, run, span>>
      /\ job' = [job EXCEPT !.snap.search = rows.search, !.pc = "retries"]
  BY DEF ReadSearch, Serving
<1>2. job \in JobType /\ rows \in Tables /\ (run = None \/ run \in RunType)
  BY Types
<1>3. /\ Len(span) \in 1 .. Len(span) /\ span[Len(span)] = rows
      /\ \A i \in 1 .. Len(span) : i <= Len(span)
      /\ Plain(job, run) /\ Knows(job, span, fernet)
      /\ job.status = "none" /\ job.error = "none"
  BY <1>1, Now
<1>4. ~job.bearer /\ job.op \in {"settings", "create", "create_ma"}
  BY <1>1, <1>3, NoBearer DEF Plain, Placed
<1>5. job.snap \in Snaps /\ rows.search \in Engines \cup {None}
  BY <1>2, ShownTypes DEF JobType
<1>6. [job.snap EXCEPT !.search = rows.search] \in Snaps
  BY <1>5 DEF Snaps
<1>7. /\ job' \in JobType /\ job'.op = job.op /\ job'.pc = "retries" /\ job'.status = job.status
      /\ job'.error = job.error /\ job'.bearer = job.bearer /\ job'.models = job.models
      /\ job'.snap = [job.snap EXCEPT !.search = rows.search]
  BY <1>1, <1>2, <1>6 DEF JobType
<1>8. /\ job'.snap.keys = job.snap.keys /\ job'.snap.overrides = job.snap.overrides
      /\ job'.snap.search = rows.search
  BY <1>5, <1>7 DEF Snaps
<1>9. Plain(job', run')
  BY <1>1, <1>3, <1>4, <1>7 DEF Plain, Placed, Cause, Committed
<1>10. Knows(job', span, fernet)
  <2>1. Sourced(job', span)
    BY <1>3, <1>7 DEF Knows, Sourced
  <2>2. Named(job', span) /\ Blamed(job', span, fernet) /\ Probed(job', span)
    BY <1>3, <1>4, <1>7 DEF Named, Blamed, Probed
  <2>3. Snapped(job', span)
    <3>1. PICK a, b \in 1 .. Len(span) :
            a <= b /\ job.snap.keys = Shown(span[a]).keys
            /\ job.snap.overrides = span[b].overrides
      BY <1>1, <1>3, <1>4 DEF Knows, Snapped
    <3>2. \E x, y, z \in 1 .. Len(span) :
             /\ x <= y /\ y <= z /\ job'.snap.keys = Shown(span[x]).keys
             /\ job'.snap.overrides = span[y].overrides
             /\ job'.snap.search = span[z].search
      BY <1>3, <1>8, <3>1
    <3>3. ~Taken(job') /\ job'.pc = "retries"
      BY <1>3, <1>7 DEF Taken
    <3>4. QED
      BY <3>2, <3>3 DEF Snapped
  <2>4. QED
    BY <2>1, <2>2, <2>3 DEF Knows
<1>11. QED
  BY <1>1, <1>2, <1>7, <1>9, <1>10, Served

LEMMA RetriesStep ==
  ASSUME ModelsHold, ReadRetries
  PROVE  ModelsHold'
<1> DEFINE retries == Shown(rows).retries
           pc == IF job.op = "settings" THEN "done" ELSE "commit"
           status == IF job.op = "settings" THEN "200" ELSE "none"
<1>1. job.pc = "retries" /\ Serving /\ UNCHANGED <<store, run, span>>
      /\ job' = [job EXCEPT !.snap.retries = retries, !.pc = pc, !.status = status]
  BY DEF ReadRetries, Serving
<1>2. job \in JobType /\ rows \in Tables /\ (run = None \/ run \in RunType)
  BY Types
<1>3. /\ Len(span) \in 1 .. Len(span) /\ span[Len(span)] = rows
      /\ \A i \in 1 .. Len(span) : i <= Len(span)
      /\ Plain(job, run) /\ Knows(job, span, fernet)
      /\ job.status = "none" /\ job.error = "none"
  BY <1>1, Now
<1>4. ~job.bearer /\ job.op \in {"settings", "create", "create_ma"}
  BY <1>1, <1>3, NoBearer DEF Plain, Placed
<1>5. /\ pc \in {"done", "commit"} /\ status \in {"200", "none"}
      /\ pc = "done" <=> job.op = "settings"
      /\ status = "200" <=> job.op = "settings"
      /\ retries = Shown(span[Len(span)]).retries
  BY <1>3
<1>6. job.snap \in Snaps /\ retries \in RetryValues \cup {DEFAULT_MAX_STAGE_RETRIES}
  BY <1>2, ShownTypes DEF JobType
<1> HIDE DEF retries, pc, status
<1>7. [job.snap EXCEPT !.retries = retries] \in Snaps
  BY <1>6 DEF Snaps
<1>8. /\ job' \in JobType /\ job'.op = job.op /\ job'.pc = pc /\ job'.status = status
      /\ job'.error = job.error /\ job'.bearer = job.bearer /\ job'.models = job.models
      /\ job'.snap = [job.snap EXCEPT !.retries = retries]
  BY <1>1, <1>2, <1>5, <1>7 DEF JobType
<1>9. /\ job'.snap.keys = job.snap.keys /\ job'.snap.overrides = job.snap.overrides
      /\ job'.snap.search = job.snap.search /\ job'.snap.retries = retries
  BY <1>6, <1>8 DEF Snaps
<1>10. Plain(job', run')
  BY <1>1, <1>3, <1>4, <1>5, <1>8 DEF Plain, Placed, Cause, Committed
<1>11. Knows(job', span, fernet)
  <2>1. Sourced(job', span)
    BY <1>3, <1>8 DEF Knows, Sourced
  <2>2. Named(job', span) /\ Blamed(job', span, fernet) /\ Probed(job', span)
    BY <1>3, <1>4, <1>5, <1>8 DEF Named, Blamed, Probed
  <2>3. Snapped(job', span)
    <3>1. PICK a, b, c \in 1 .. Len(span) :
            /\ a <= b /\ b <= c /\ job.snap.keys = Shown(span[a]).keys
            /\ job.snap.overrides = span[b].overrides /\ job.snap.search = span[c].search
      BY <1>1, <1>3, <1>4 DEF Knows, Snapped
    <3>2. \E x, y, z, w \in 1 .. Len(span) :
             /\ x <= y /\ y <= z /\ z <= w /\ job'.snap.keys = Shown(span[x]).keys
             /\ job'.snap.overrides = span[y].overrides
             /\ job'.snap.search = span[z].search
             /\ job'.snap.retries = Shown(span[w]).retries
      BY <1>3, <1>5, <1>9, <3>1
    <3>3. job'.pc \notin {"overrides", "search", "retries"}
      BY <1>5, <1>8
    <3>4. QED
      BY <3>2, <3>3 DEF Snapped
  <2>4. QED
    BY <2>1, <2>2, <2>3 DEF Knows
<1>12. QED
  BY <1>1, <1>2, <1>8, <1>10, <1>11, Served

LEMMA CommitStep ==
  ASSUME ModelsHold, CommitRun
  PROVE  ModelsHold'
<1>1. job.pc = "commit" /\ Serving /\ UNCHANGED <<store, span>>
      /\ run' = [snap |-> job.snap, framed |-> job.op = "create_ma"]
      /\ IF job.op = "create_ma" THEN Answer("201", "none") ELSE Goto("override")
  BY DEF CommitRun, Serving
<1>2. job \in JobType
  BY Types
<1>3. /\ Plain(job, run) /\ Knows(job, span, fernet)
      /\ job.status = "none" /\ job.error = "none"
  BY <1>1, Now
<1>4. ~job.bearer /\ job.op \in {"create", "create_ma"}
  BY <1>1, <1>3, NoBearer DEF Plain, Placed
<1>5. job.snap \in Snaps /\ (job.op = "create_ma") \in BOOLEAN
  BY <1>2 DEF JobType
<1>6. run' \in RunType /\ (job.op = "create_ma" => run'.framed)
  BY <1>1, <1>5 DEF RunType
<1>7. /\ job' \in JobType /\ job'.op = job.op
      /\ IF job.op = "create_ma" THEN job'.pc = "done" /\ job'.status = "201"
                                 ELSE job'.pc = "override" /\ job'.status = "none"
      /\ job'.error = "none" /\ job'.bearer = job.bearer /\ job'.models = job.models
      /\ job'.snap = job.snap
  BY <1>1, <1>2, <1>3 DEF JobType, Answer, Goto, Errors
<1>8. Plain(job', run')
  BY <1>4, <1>6, <1>7 DEF Plain, Placed, Cause, Committed
<1>9. Knows(job', span, fernet)
  <2>1. Sourced(job', span)
    BY <1>3, <1>7 DEF Knows, Sourced
  <2>2. Named(job', span) /\ Blamed(job', span, fernet) /\ Probed(job', span)
    BY <1>4, <1>7 DEF Named, Blamed, Probed
  <2>3. Snapped(job', span)
    BY <1>1, <1>3, <1>7 DEF Knows, Snapped, Taken
  <2>4. QED
    BY <2>1, <2>2, <2>3 DEF Knows
<1>10. QED
  BY <1>1, <1>6, <1>7, <1>8, <1>9, Served

-----------------------------------------------------------------------------
(* A model is resolved, an engine is looked up.                            *)

LEMMA OverrideStep ==
  ASSUME ModelsHold, ReadOverride
  PROVE  ModelsHold'
<1> DEFINE p == ProviderOf(rows, job.role)
<1>1. job.pc = "override" /\ Serving /\ UNCHANGED <<store, run, span>>
      /\ IF p \in Providers THEN job' = [job EXCEPT !.name = p, !.pc = "key"] ELSE Fail("unknown")
  BY DEF ReadOverride, Serving
<1>2. job \in JobType /\ rows \in Tables /\ (run = None \/ run \in RunType)
  BY Types
<1>3. /\ Len(span) \in 1 .. Len(span) /\ span[Len(span)] = rows
      /\ Plain(job, run) /\ Knows(job, span, fernet)
      /\ job.status = "none" /\ job.error = "none"
  BY <1>1, Now
<1>4. ~job.bearer /\ job.op \in {"create", "resolve", "ping"}
  BY <1>1, <1>3, NoBearer DEF Plain, Placed
<1>5. p = ProviderOf(span[Len(span)], job.role)
  BY <1>3
<1>6. CASE p \in Providers
  <2>1. job' = [job EXCEPT !.name = p, !.pc = "key"]
    BY <1>1, <1>6
  <2> HIDE DEF p
  <2>2. /\ job' \in JobType /\ job'.op = job.op /\ job'.pc = "key" /\ job'.status = job.status
        /\ job'.error = job.error /\ job'.bearer = job.bearer /\ job'.models = job.models
        /\ job'.snap = job.snap /\ job'.name = p /\ job'.role = job.role
    BY <1>2, <1>6, <2>1 DEF JobType, Names
  <2>3. Plain(job', run')
    BY <1>1, <1>3, <1>4, <2>2 DEF Plain, Placed, Cause, Committed
  <2>4. Knows(job', span, fernet)
    <3>1. Sourced(job', span)
      BY <1>3, <2>2 DEF Knows, Sourced
    <3>2. Blamed(job', span, fernet) /\ Probed(job', span)
      BY <1>3, <1>4, <2>2 DEF Blamed, Probed
    <3>3. Named(job', span)
      BY <1>3, <1>4, <1>5, <1>6, <2>2 DEF Named
    <3>4. Snapped(job', span)
      BY <1>1, <1>3, <2>2 DEF Knows, Snapped, Taken
    <3>5. QED
      BY <3>1, <3>2, <3>3, <3>4 DEF Knows
  <2>5. QED
    BY <1>1, <1>2, <2>2, <2>3, <2>4, Served
<1>7. CASE p \notin Providers
  <2>1. Fail("unknown") /\ "unknown" \in Errors
    BY <1>1, <1>7 DEF Errors
  <2>2. Unserving(job, span[Len(span)])
    BY <1>4, <1>5, <1>7 DEF Unserving, Resolves
  <2>3. QED
    BY <1>1, <1>3, <1>4, <2>1, <2>2, Fails
<1>8. QED
  BY <1>6, <1>7

\* A key that cannot be decrypted, and the error that says so.
LEMMA Undecrypted ==
  ASSUME ModelsHold, Serving, NEW name \in Names, ~Unwraps(rows.keys[name])
  PROVE  /\ KeyError \in Errors /\ KeyError \in {"unset", "token"}
         /\ Len(span) \in 1 .. Len(span)
         /\ span[Len(span)].keys[name] # None
         /\ ~(fernet # None /\ span[Len(span)].keys[name].under = fernet)
<1>1. Len(span) \in 1 .. Len(span) /\ span[Len(span)] = rows
  BY Now
<1>2. KeyError \in Errors /\ KeyError \in {"unset", "token"}
  BY DEF KeyError, Errors
<1>3. QED
  BY <1>1, <1>2 DEF Unwraps

\* A key missing now was missing before.
LEMMA Missing ==
  ASSUME ModelsHold, Serving, NEW name \in Names, rows.keys[name] = None, NEW s \in 1 .. Len(span)
  PROVE  span[s].keys[name] = None
  BY Now DEF KeysStay

LEMMA KeyStep ==
  ASSUME ModelsHold, ReadKey
  PROVE  ModelsHold'
<1> DEFINE row == rows.keys[job.name]
<1>1. job.pc = "key" /\ Serving /\ UNCHANGED <<store, span>>
      /\ job.op \in {"create", "resolve", "ping"}
  BY DEF ReadKey, Serving
<1>2. job \in JobType /\ rows \in Tables /\ (run = None \/ run \in RunType)
  BY Types
<1>3. /\ Len(span) \in 1 .. Len(span) /\ span[Len(span)] = rows
      /\ \A i \in 1 .. Len(span) : i <= Len(span)
      /\ Plain(job, run) /\ Knows(job, span, fernet)
      /\ job.status = "none" /\ job.error = "none"
  BY <1>1, Now
<1>4. ~job.bearer
  BY <1>1, NoBearer
<1>5. PICK s \in 1 .. Len(span) : job.name = ProviderOf(span[s], job.role)
  BY <1>1, <1>3 DEF Knows, Named
<1>6. job.name \in Providers /\ job.name \in Names
  BY <1>1, <1>3 DEF Knows, Named, Names
<1>7. row \in KeyRows \cup {None}
  BY <1>2, <1>6 DEF Tables
<1>8. CASE ~Unwraps(row) /\ Fail(KeyError) /\ UNCHANGED run
  BY <1>1, <1>4, <1>6, <1>8, Undecrypted, Fails
<1>9. CASE row = None /\ job.name \in Keyed /\ Fail("nokey") /\ UNCHANGED run
  <2>1. span[s].keys[job.name] = None
    BY <1>1, <1>6, <1>9, Missing
  <2>2. Unserving(job, span[s])
    BY <1>1, <1>5, <1>9, <2>1 DEF Unserving, Resolves
  <2>3. "nokey" \in Errors
    BY DEF Errors
  <2>4. QED
    BY <1>1, <1>4, <1>9, <2>2, <2>3, Fails
<1>10. ASSUME NEW b \in BearerOutcomes(job.name, row),
              Resolved([job.models EXCEPT ![job.role] = [provider |-> job.name, key |-> row]], b)
       PROVE  ModelsHold'
  <2> DEFINE m == [provider |-> job.name, key |-> row]
             models == [job.models EXCEPT ![job.role] = m]
             j == [job EXCEPT !.models = models, !.bearer = b]
  <2>1. b \in BOOLEAN /\ (job.op # "ping" => ~b)
    BY <1>10 DEF BearerOutcomes
  <2>2. m \in [provider : Providers \cup {None}, key : KeyRows \cup {None}]
        /\ m.provider = job.name /\ m.key = row
    BY <1>6, <1>7
  <2>3. Resolved(models, b)
    BY <1>10
  <2> HIDE DEF m, row
  <2>4. /\ models \in [Roles -> [provider : Providers \cup {None}, key : KeyRows \cup {None}]]
        /\ \A r \in Roles : models[r] = IF r = job.role THEN m ELSE job.models[r]
        /\ job.role \in Roles
    BY <1>2, <2>2 DEF JobType
  <2> HIDE DEF models
  <2>5. /\ j \in JobType /\ j.op = job.op /\ j.pc = job.pc /\ j.status = job.status
        /\ j.error = job.error /\ j.bearer = b /\ j.models = models /\ j.snap = job.snap
        /\ j.role = job.role
    BY <1>2, <2>1, <2>4 DEF JobType
  <2>6. \A r \in Roles : models[r] # NoModel =>
          \E x, y \in 1 .. Len(span) :
              /\ x <= y
              /\ models[r].provider = ProviderOf(span[x], r)
              /\ models[r].key = span[y].keys[models[r].provider]
    <3> SUFFICES ASSUME NEW r \in Roles, models[r] # NoModel
                 PROVE  \E x, y \in 1 .. Len(span) :
                            /\ x <= y
                            /\ models[r].provider = ProviderOf(span[x], r)
                            /\ models[r].key = span[y].keys[models[r].provider]
      OBVIOUS
    <3>1. CASE r = job.role
      <4>1. models[r].provider = job.name /\ models[r].key = span[Len(span)].keys[job.name]
        BY <1>3, <2>2, <2>4, <3>1 DEF row
      <4>2. s <= Len(span)
        BY <1>3, <1>5
      <4>3. QED
        BY <1>3, <1>5, <3>1, <4>1, <4>2
    <3>2. CASE r # job.role
      BY <1>3, <2>4, <3>2 DEF Knows, Sourced
    <3>3. QED
      BY <3>1, <3>2
  <2>7. \/ /\ job.op = "ping" /\ job' = [j EXCEPT !.pc = "call"] /\ run' = run
        \/ /\ job.op # "ping" /\ job.role < NRoles
           /\ job' = [j EXCEPT !.pc = "override", !.role = job.role + 1] /\ run' = run
        \/ /\ job.op = "resolve" /\ job' = [j EXCEPT !.pc = "done", !.status = "200"] /\ run' = run
        \/ /\ job.op = "create" /\ job' = [j EXCEPT !.pc = "done", !.status = "201"]
           /\ run' = [run EXCEPT !.framed = TRUE]
    <3>1. job.role \in 1 .. NRoles /\ NRoles \in Nat
      BY <2>4, SettingsAssumption DEF Roles
    <3>2. job.role < NRoles \/ job.role = NRoles
      BY <3>1
    <3>3. CASE job.op = "ping"
      BY <2>3, <3>3 DEF Resolved
    <3>4. CASE job.op # "ping" /\ job.role < NRoles
      BY <1>1, <2>3, <3>1, <3>4 DEF Resolved
    <3>5. CASE job.op = "resolve" /\ job.role = NRoles
      BY <2>3, <3>1, <3>5 DEF Resolved
    <3>6. CASE job.op = "create" /\ job.role = NRoles
      BY <2>3, <3>1, <3>6 DEF Resolved
    <3>7. QED
      BY <1>1, <3>2, <3>3, <3>4, <3>5, <3>6
  <2> HIDE DEF j
  <2>8. /\ job' \in JobType /\ job'.op = job.op
        /\ job'.pc \in {"call", "override", "done"}
        /\ job'.pc = "call" => job.op = "ping"
        /\ job'.pc = "override" => job.op # "ping"
        /\ job'.pc # "done" => job'.status = "none"
        /\ job'.pc = "done" => job.op # "ping"
        /\ job'.status = "201" => job.op = "create" /\ run' = [run EXCEPT !.framed = TRUE]
        /\ run' = run \/ (job.op = "create" /\ run' = [run EXCEPT !.framed = TRUE])
        /\ job'.error = "none" /\ job'.bearer = b /\ job'.models = models
        /\ job'.snap = job.snap
    <3>1. CASE job.op = "ping" /\ job' = [j EXCEPT !.pc = "call"] /\ run' = run
      BY <1>3, <2>5, <3>1 DEF JobType
    <3>2. CASE /\ job.op # "ping" /\ job.role < NRoles
               /\ job' = [j EXCEPT !.pc = "override", !.role = job.role + 1] /\ run' = run
      <4>1. job.role + 1 \in Roles
        BY <2>4, <3>2, SettingsAssumption DEF Roles
      <4>2. QED
        BY <1>3, <2>5, <3>2, <4>1 DEF JobType
    <3>3. CASE job.op = "resolve" /\ job' = [j EXCEPT !.pc = "done", !.status = "200"] /\ run' = run
      BY <1>3, <2>5, <3>3 DEF JobType
    <3>4. CASE /\ job.op = "create" /\ job' = [j EXCEPT !.pc = "done", !.status = "201"]
               /\ run' = [run EXCEPT !.framed = TRUE]
      BY <1>3, <2>5, <3>4 DEF JobType
    <3>5. QED
      BY <2>7, <3>1, <3>2, <3>3, <3>4
  <2>9. /\ run' = None \/ run' \in RunType
        /\ job.op = "create" => run' \in RunType
        /\ job'.status = "201" => run'.framed
    <3>1. job.op = "create" => run \in RunType
      BY <1>1, <1>3 DEF Plain, Committed
    <3>2. run \in RunType => /\ [run EXCEPT !.framed = TRUE] \in RunType
                             /\ [run EXCEPT !.framed = TRUE].framed
      BY DEF RunType
    <3>3. QED
      BY <1>2, <2>8, <3>1, <3>2
  <2>10. Plain(job', run')
    BY <1>1, <2>1, <2>8, <2>9 DEF Plain, Placed, Cause, Committed
  <2>11. Knows(job', span, fernet)
    <3>1. Sourced(job', span)
      BY <2>6, <2>8 DEF Sourced
    <3>2. Named(job', span) /\ Blamed(job', span, fernet) /\ Probed(job', span)
      BY <1>1, <2>8 DEF Named, Blamed, Probed
    <3>3. Snapped(job', span)
      BY <1>1, <1>3, <2>8 DEF Knows, Snapped, Taken
    <3>4. QED
      BY <3>1, <3>2, <3>3 DEF Knows
  <2>12. QED
    BY <1>1, <2>8, <2>9, <2>10, <2>11, Served
<1>11. QED
  BY <1>8, <1>9, <1>10 DEF ReadKey

LEMMA EngineStep ==
  ASSUME ModelsHold, ReadEngine
  PROVE  ModelsHold'
<1>1. job.pc = "engine" /\ Serving /\ UNCHANGED <<store, run, span>>
  BY DEF ReadEngine, Serving
<1>2. job \in JobType /\ rows \in Tables /\ (run = None \/ run \in RunType)
  BY Types
<1>3. /\ Len(span) \in 1 .. Len(span) /\ span[Len(span)] = rows
      /\ Plain(job, run) /\ Knows(job, span, fernet)
      /\ job.status = "none" /\ job.error = "none"
  BY <1>1, Now
<1>4. ~job.bearer /\ job.op \in {"tool", "health"}
  BY <1>1, <1>3, NoBearer DEF Plain, Placed
<1>5. CASE job.op = "health" /\ HealthEngine(rows) \in Keyless
  <2>1. Goto("post")
    BY <1>5 DEF ReadEngine
  <2>2. rows.search \in Keyless \cup {None}
    BY <1>5 DEF HealthEngine
  <2>3. QED
    BY <1>1, <1>3, <1>4, <1>5, <2>1, <2>2, GoesOn
<1>6. CASE ~(job.op = "health" /\ HealthEngine(rows) \in Keyless)
  <2> DEFINE e == IF job.op = "tool" THEN ToolEngine(rows) ELSE HealthEngine(rows)
  <2>1. job' = [job EXCEPT !.pc = "key", !.name = e]
    BY <1>6 DEF ReadEngine
  <2>2. /\ e \in Engines /\ e \in Names
        /\ job.op = "tool" => e = ToolEngine(span[Len(span)])
        /\ job.op = "health" => e = HealthEngine(span[Len(span)]) /\ e \notin Keyless
    BY <1>2, <1>3, <1>4, <1>6, ModelsAssumption, SettingsAssumption
       DEF ToolEngine, HealthEngine, Tables, Names
  <2> HIDE DEF e
  <2>3. /\ job' \in JobType /\ job'.op = job.op /\ job'.pc = "key" /\ job'.status = job.status
        /\ job'.error = job.error /\ job'.bearer = job.bearer /\ job'.models = job.models
        /\ job'.name = e
    BY <1>2, <2>1, <2>2 DEF JobType
  <2>4. Plain(job', run')
    BY <1>1, <1>3, <1>4, <2>3 DEF Plain, Placed, Cause, Committed
  <2>5. Knows(job', span, fernet)
    <3>1. Sourced(job', span)
      BY <1>3, <2>3 DEF Knows, Sourced
    <3>2. Blamed(job', span, fernet) /\ Probed(job', span) /\ Snapped(job', span)
      BY <1>3, <1>4, <2>3 DEF Blamed, Probed, Snapped
    <3>3. Named(job', span)
      BY <1>3, <1>4, <2>2, <2>3 DEF Named
    <3>4. QED
      BY <3>1, <3>2, <3>3 DEF Knows
  <2>6. QED
    BY <1>1, <1>2, <2>3, <2>4, <2>5, Served
<1>7. QED
  BY <1>5, <1>6

\* One PUT between the engine and its key cannot make the probe say what neither
\* settings say.
LEMMA ProbeTold ==
  ASSUME ModelsHold, Serving, job.op = "health", job.pc = "key", rows.keys[job.name] # None
  PROVE  \/ \E t \in 1 .. Len(span) : ToolServes(span[t]) \/ span[t].search \in Keyless \cup {None}
         \/ Len(span) > 2
<1> DEFINE n == Len(span)
<1>1. /\ n \in 1 .. n /\ span[n] = rows /\ Knows(job, span, fernet)
      /\ \A i \in 1 .. n : i \in Nat /\ i <= n /\ span[i] \in Tables
  BY Now
<1>2. job.name \in Engines \ Keyless
  BY <1>1 DEF Knows, Named
<1>3. PICK s \in 1 .. n : job.name = HealthEngine(span[s])
  BY <1>1 DEF Knows, Named
<1>4. History(span)
  BY DEF ModelsHold
<1> HIDE DEF n
<1>5. span[s].search = job.name /\ ToolEngine(span[s]) = job.name
  <2>1. span[s].search # None
    BY <1>2, <1>3, ModelsAssumption DEF HealthEngine
  <2>2. QED
    BY <1>3, <2>1 DEF HealthEngine, ToolEngine
<1>6. CASE s = n
  <2>1. ToolServes(span[s])
    BY <1>1, <1>2, <1>5, <1>6 DEF ToolServes
  <2>2. QED
    BY <2>1 DEF n
<1>7. CASE s # n /\ n <= 2
  <2>1. s = 1 /\ n = 2 /\ 1 \in 1 .. n - 1
    BY <1>1, <1>3, <1>7
  <2>2. OneChange(span[1], span[1 + 1])
    BY <1>4, <2>1 DEF History, n
  <2>3. OneChange(span[1], span[2])
    BY <2>2
  <2>4. CASE span[1].keys = span[2].keys
    <3>1. ToolServes(span[1])
      BY <1>1, <1>2, <1>5, <2>1, <2>4 DEF ToolServes
    <3>2. QED
      BY <1>3, <2>1, <3>1 DEF n
  <2>5. CASE span[1].search = span[2].search
    <3>1. ToolEngine(span[2]) = job.name
      BY <1>5, <2>1, <2>5 DEF ToolEngine
    <3>2. ToolServes(span[2])
      BY <1>1, <1>2, <2>1, <3>1 DEF ToolServes
    <3>3. QED
      BY <1>1, <2>1, <3>2 DEF n
  <2>6. QED
    BY <2>3, <2>4, <2>5 DEF OneChange
<1>8. CASE n > 2
  BY <1>8 DEF n
<1>9. QED
  BY <1>1, <1>6, <1>7, <1>8

LEMMA SearchKeySteps ==
  ASSUME ModelsHold, ReadSearchKey \/ ReadEmbedKey
  PROVE  ModelsHold'
<1> DEFINE row == rows.keys[job.name]
<1>1. job.pc = "key" /\ Serving /\ UNCHANGED <<store, run, span>>
      /\ job.op \in {"tool", "health", "embed"}
  BY DEF ReadSearchKey, ReadEmbedKey, Serving
<1>2. job \in JobType /\ rows \in Tables
  BY Types
<1>3. /\ Len(span) \in 1 .. Len(span) /\ span[Len(span)] = rows
      /\ Plain(job, run) /\ Knows(job, span, fernet)
  BY <1>1, Now
<1>4. ~job.bearer
  BY <1>1, NoBearer
<1>5. job.name \in Names
  BY <1>1, <1>3, ModelsAssumption DEF Knows, Named, Names
<1>6. "nokey" \in Errors /\ "unsupported" \in Errors
  BY DEF Errors
<1>7. ASSUME ~Unwraps(row), Fail(KeyError)
      PROVE  ModelsHold'
  BY <1>1, <1>4, <1>5, <1>7, Undecrypted, Fails
<1>8. ASSUME row = None
      PROVE  \E t \in 1 .. Len(span) : Unserving(job, span[t])
  <2>1. CASE job.op = "embed"
    <3>1. job.name = OpenAI
      BY <1>1, <1>3, <2>1 DEF Knows, Named
    <3>2. Unserving(job, span[Len(span)])
      BY <1>3, <1>8, <2>1, <3>1 DEF Unserving
    <3>3. QED
      BY <1>3, <3>2
  <2>2. CASE job.op = "tool"
    <3>1. PICK s \in 1 .. Len(span) : job.name = ToolEngine(span[s])
      BY <1>1, <1>3, <2>2 DEF Knows, Named
    <3>2. span[s].keys[job.name] = None
      BY <1>1, <1>5, <1>8, Missing
    <3>3. Unserving(job, span[s])
      BY <2>2, <3>1, <3>2 DEF Unserving, ToolServes
    <3>4. QED
      BY <3>3
  <2>3. CASE job.op = "health"
    <3>1. job.name \notin Keyless
      BY <1>1, <1>3, <2>3 DEF Knows, Named
    <3>2. PICK s \in 1 .. Len(span) : job.name = HealthEngine(span[s])
      BY <1>1, <1>3, <2>3 DEF Knows, Named
    <3>3. span[s].keys[job.name] = None
      BY <1>1, <1>5, <1>8, Missing
    <3>4. Unserving(job, span[s])
      BY <2>3, <3>1, <3>2, <3>3 DEF Unserving, HealthServes
    <3>5. QED
      BY <3>4
  <2>4. QED
    BY <1>1, <2>1, <2>2, <2>3
<1>9. ASSUME row = None, Fail("nokey")
      PROVE  ModelsHold'
  BY <1>1, <1>4, <1>6, <1>8, <1>9, Fails
<1>10. ASSUME row = None, Answer("400", "nokey")
       PROVE  ModelsHold'
  BY <1>1, <1>4, <1>6, <1>8, <1>10, Answered
<1>11. ASSUME row # None, Goto("search_call")
       PROVE  ModelsHold'
  BY <1>1, <1>4, <1>11, ProbeTold, GoesOn
<1>12. ASSUME job.op \in {"tool", "health"}, job.name \in Keyless, Fail("unsupported")
       PROVE  ModelsHold'
  <2>1. job.op = "tool"
    BY <1>1, <1>3, <1>12 DEF Knows, Named
  <2>2. PICK s \in 1 .. Len(span) : job.name = ToolEngine(span[s])
    BY <1>1, <1>3, <2>1 DEF Knows, Named
  <2>3. Unserving(job, span[s])
    BY <1>12, <2>1, <2>2 DEF Unserving, ToolServes
  <2>4. QED
    BY <1>1, <1>4, <1>6, <1>12, <2>3, Fails
<1>13. CASE ReadSearchKey
  <2>1. job.op \in {"tool", "health"}
    BY <1>13 DEF ReadSearchKey
  <2>2. \/ ~Unwraps(row) /\ Fail(KeyError)
        \/ /\ row = None
           /\ IF job.op = "health" THEN Answer("400", "nokey") ELSE Fail("nokey")
        \/ /\ Unwraps(row) /\ row # None
           /\ IF job.name \in Keyless THEN Fail("unsupported") ELSE Goto("search_call")
    BY <1>13 DEF ReadSearchKey
  <2> HIDE DEF row
  <2>3. QED
    BY <1>7, <1>9, <1>10, <1>11, <1>12, <2>1, <2>2
<1>14. CASE ReadEmbedKey
  <2>1. \/ ~Unwraps(row) /\ Fail(KeyError)
        \/ row = None /\ Fail("nokey")
        \/ Unwraps(row) /\ row # None /\ Goto("search_call")
    BY <1>14 DEF ReadEmbedKey
  <2> HIDE DEF row
  <2>2. QED
    BY <1>7, <1>9, <1>11, <2>1
<1>15. QED
  BY <1>13, <1>14

LEMMA Steps == ModelsHold /\ [Next]_vars => ModelsHold'
<1> SUFFICES ASSUME ModelsHold, [Next]_vars
             PROVE  ModelsHold'
  OBVIOUS
<1>1. CASE \E op \in Ops, r \in Roles : (op # "ping" => r = 1) /\ Start(op, r)
  BY <1>1, StartStep
<1>2. CASE Serve
  BY <1>2, TaskStep, KeysStep, OverridesStep, SearchStep, RetriesStep, CommitStep,
     OverrideStep, KeyStep, AttemptStep, CallSteps, EngineStep, SearchKeySteps DEF Serve
<1>3. CASE SettingsWrite
  BY <1>3, WriteStep
<1>4. CASE Restart
  BY <1>4, RestartStep
<1>5. CASE UNCHANGED vars
  <2>1. UNCHANGED <<rows, fernet, writes, restarts, job, run, span>>
    BY <1>5 DEF vars, store
  <2>2. TypeOK' /\ History(span)' /\ (Serving' => Current(span, rows)')
        /\ Plain(job, run)' /\ Knows(job, span, fernet)'
    BY <2>1 DEF ModelsHold, TypeOK, Serving
  <2>3. QED
    BY <2>2 DEF ModelsHold
<1>6. QED
  BY <1>1, <1>2, <1>3, <1>4, <1>5 DEF Next

-----------------------------------------------------------------------------
(* The properties.                                                         *)

\* A request knows of the settings what some of those in effect while it was served
\* say, read in the order of its SELECTs, and a PUT never takes a key away
\* (settings_service.py, llm.py, runs.py).
THEOREM ModelsSafe == Spec => []ModelsHold
<1>1. Init => ModelsHold
  BY Starts
<1>2. QED
  BY <1>1, Steps, PTL DEF Spec

\* Every variable keeps its range, and a Bedrock call that ends with an error names
\* its last failure, however many attempts are configured (llm.py:338, 371).
THEOREM ModelsTypes == Spec => []ModelsInv
<1>1. ModelsHold => ModelsInv
  BY DEF ModelsHold, Plain, Cause, ModelsInv, CauseNamed
<1>2. QED
  BY <1>1, ModelsSafe, PTL

\* What GET /settings shows and what a run stores is the settings of one moment,
\* whatever one PUT writes while the four SELECTs go on (settings_service.py:162).
THEOREM SettingsWhole == Spec => []SnapshotWhole
<1>1. ASSUME ModelsHold
      PROVE  SnapshotWhole
  <2> SUFFICES ASSUME job.op \in {"settings", "create", "create_ma"}, Taken(job), Len(span) <= 2
               PROVE  \E t \in DOMAIN span : job.snap = Shown(span[t])
    <3>1. span \in Seq(Tables) /\ Len(span) \in Nat
      BY <1>1, Types, LenProperties
    <3>2. Len(span) > 2 \/ Len(span) <= 2
      BY <3>1
    <3>3. QED
      BY <3>2 DEF SnapshotWhole, Taken
  <2>1. span \in Seq(Tables) /\ Len(span) \in Nat /\ DOMAIN span = 1 .. Len(span)
        /\ History(span) /\ job \in JobType
    BY <1>1, Types, LenProperties DEF ModelsHold
  <2>2. PICK a, b, c, d \in 1 .. Len(span) :
          /\ a <= b /\ b <= c /\ c <= d /\ job.snap.keys = Shown(span[a]).keys
          /\ job.snap.overrides = span[b].overrides /\ job.snap.search = span[c].search
          /\ job.snap.retries = Shown(span[d]).retries
    BY <1>1 DEF ModelsHold, Knows, Snapped
  <2>3. ASSUME NEW t \in 1 .. Len(span), job.snap.keys = Shown(span[t]).keys,
               job.snap.overrides = span[t].overrides, job.snap.search = span[t].search,
               job.snap.retries = Shown(span[t]).retries
        PROVE  job.snap = Shown(span[t])
    <3>1. job.snap \in Snaps
      BY <2>1 DEF JobType
    <3>2. job.snap = [keys |-> job.snap.keys, overrides |-> job.snap.overrides,
                      search |-> job.snap.search, retries |-> job.snap.retries]
      BY <3>1 DEF Snaps
    <3>3. Shown(span[t]) = [keys |-> Shown(span[t]).keys, overrides |-> span[t].overrides,
                            search |-> span[t].search, retries |-> Shown(span[t]).retries]
      BY DEF Shown
    <3>4. QED
      BY <2>3, <3>2, <3>3
  <2>4. CASE a = d
    <3>1. b = a /\ c = a
      BY <2>2, <2>4
    <3>2. QED
      BY <2>1, <2>2, <2>3, <2>4, <3>1
  <2>5. CASE a # d
    <3>1. a = 1 /\ d = 2 /\ Len(span) = 2 /\ b \in {1, 2} /\ c \in {1, 2}
      BY <2>1, <2>2, <2>5
    <3>2. OneChange(span[1], span[1 + 1])
      <4>1. 1 \in 1 .. Len(span) - 1
        BY <3>1
      <4>2. QED
        BY <2>1, <4>1 DEF History
    <3>3. OneChange(span[1], span[2])
      BY <3>2
    <3>4. \/ span[1].keys = span[2].keys
          \/ /\ span[1].overrides = span[2].overrides /\ span[1].search = span[2].search
             /\ span[1].retries = span[2].retries
      BY <3>3 DEF OneChange
    <3>5. CASE /\ span[1].overrides = span[2].overrides /\ span[1].search = span[2].search
               /\ span[1].retries = span[2].retries
      <4>1. Shown(span[1]).retries = Shown(span[2]).retries
        BY <3>5 DEF Shown
      <4>2. job.snap = Shown(span[1])
        BY <2>2, <2>3, <3>1, <3>5, <4>1
      <4>3. QED
        BY <2>1, <2>2, <3>1, <4>2
    <3>6. CASE span[1].keys = span[2].keys
      <4>1. Shown(span[1]).keys = Shown(span[2]).keys
        BY <3>6 DEF Shown
      <4>2. \/ span[1].overrides = span[2].overrides /\ span[1].search = span[2].search
            \/ span[1].overrides = span[2].overrides /\ span[1].retries = span[2].retries
            \/ span[1].search = span[2].search /\ span[1].retries = span[2].retries
        BY <3>3 DEF OneChange
      <4>3. span[1].retries = span[2].retries => Shown(span[1]).retries = Shown(span[2]).retries
        BY DEF Shown
      <4>4. job.snap = Shown(span[1]) \/ job.snap = Shown(span[2])
        BY <2>2, <2>3, <3>1, <4>1, <4>2, <4>3
      <4>5. QED
        BY <2>1, <2>2, <3>1, <4>4
    <3>7. QED
      BY <3>4, <3>5, <3>6
  <2>6. QED
    BY <2>4, <2>5
<1>2. QED
  BY <1>1, ModelsSafe, PTL

\* Every model a request resolves is from settings in effect while it was served, the
\* key no older than the provider (llm.py:508, run_worker.py:91).
THEOREM ModelsFresh == Spec => []ResolvedFresh
<1>1. ASSUME ModelsHold
      PROVE  ResolvedFresh
  <2>1. DOMAIN span = 1 .. Len(span) /\ Sourced(job, span)
    BY <1>1, Types, LenProperties DEF ModelsHold, Knows
  <2>2. QED
    BY <2>1 DEF Sourced, ResolvedFresh
<1>2. QED
  BY <1>1, ModelsSafe, PTL

\* Settings that could serve a request from its first moment to its last never fail it
\* for a provider or a key, and a run left without its framing had settings that could
\* not serve it (runs.py:91).
THEOREM FailuresExplained == Spec => []FailureExplained
<1>1. ASSUME ModelsHold
      PROVE  FailureExplained
  <2>1. DOMAIN span = 1 .. Len(span) /\ Blamed(job, span, fernet) /\ Committed(job, run)
    BY <1>1, Types, LenProperties DEF ModelsHold, Knows, Plain
  <2>2. ASSUME NEW t, Unserving(job, t)
        PROVE  ~Serves(t)
    <3>1. CASE job.op \in {"create", "resolve", "ping"}
      BY <2>2, <3>1 DEF Unserving, Serves
    <3>2. CASE job.op = "tool"
      BY <2>2, <3>2 DEF Unserving, Serves
    <3>3. CASE job.op = "health"
      BY <2>2, <3>3 DEF Unserving, Serves
    <3>4. CASE job.op = "embed"
      BY <2>2, <3>4 DEF Unserving, Serves
    <3>5. QED
      BY <2>2, <3>1, <3>2, <3>3, <3>4 DEF Unserving
  <2>3. job.error \in {"unknown", "nokey", "unsupported"} =>
          \E t \in DOMAIN span : ~Serves(span[t])
    BY <2>1, <2>2 DEF Blamed
  <2>4. job.status = "201" => run.framed
    BY <2>1 DEF Committed
  <2>5. job.error \in {"unset", "token"} =>
          \E t \in DOMAIN span : ~Unwraps(span[t].keys[job.name])
    BY <2>1 DEF Blamed, Unwraps
  <2>6. QED
    BY <2>3, <2>4, <2>5 DEF FailureExplained
<1>2. QED
  BY <1>1, ModelsSafe, PTL

\* Where the probe of /health/search gets an answer, so does the search tool of a run,
\* but for the engine they treat apart (health.py:44, web_search.py:51).
THEOREM ProbesHonest == Spec => []ProbeHonest
<1>1. ASSUME ModelsHold
      PROVE  ProbeHonest
  <2>1. DOMAIN span = 1 .. Len(span) /\ Probed(job, span)
    BY <1>1, Types, LenProperties DEF ModelsHold, Knows
  <2>2. QED
    BY <2>1 DEF Probed, ProbeHonest
<1>2. QED
  BY <1>1, ModelsSafe, PTL
=============================================================================
