-------------------------------- MODULE Models --------------------------------
(* What reads the settings, one SELECT at a time while PUTs go on: the         *)
(* settings page and the snapshot a new run stores, the resolution of a run's  *)
(* chat models (agents/llm.py, workers/run_worker.py), POST /ping and the      *)
(* Bedrock call behind it, the search tool of a run and the probe of           *)
(* /health/search, and the embedder.  Requests have a session each and write   *)
(* nothing another reads, so one at a time beside the writers is enough.       *)
EXTENDS Settings, Sequences

CONSTANTS
    Aws,          \* the provider whose factory is _aws_factory, and the default
    Keyed,        \* the providers with requires_key
    Tavily,       \* what the search tool takes when no row names a provider
    DuckDuckGo,   \* what the health probe takes
    OpenAI,       \* the provider whose key the embedder uses
    EnvCreds,     \* AWS_ACCESS_KEY_ID is set
    EnvKey,       \* BEDROCK_API_KEY is set
    RetryMax      \* bedrock_retry_max_attempts

ASSUME ModelsAssumption ==
    /\ Aws \in Providers /\ OpenAI \in Providers /\ Keyed \subseteq Providers
    /\ Tavily \in Engines \ Keyless /\ DuckDuckGo \in Keyless
    /\ EnvCreds \in BOOLEAN /\ EnvKey \in BOOLEAN
    /\ RetryMax \in Nat

VARIABLES
    job,    \* the request being served
    run,    \* the run POST /runs has committed last: its snapshot, and whether framed
    span    \* history: the settings in effect since the request came, oldest first

vars == <<store, job, run, span>>

DEFAULT_PROVIDER == Aws

Ops == {"providers", "settings", "create", "create_ma", "resolve", "ping",
        "tool", "health", "embed"}

NoModel == [provider |-> None, key |-> None]
NoSnap == [keys |-> {}, overrides |-> [r \in Roles |-> None], search |-> None,
           retries |-> DEFAULT_MAX_STAGE_RETRIES]

Idle == [op |-> "none", pc |-> "idle", snap |-> NoSnap, role |-> 1, name |-> None,
         models |-> [r \in Roles |-> NoModel], bearer |-> FALSE, attempt |-> 1,
         last |-> "none", error |-> "none", status |-> "none"]

Serving == job.pc \notin {"idle", "done"}

Init ==
    /\ SettingsInit
    /\ job = Idle
    /\ run = None
    /\ span = <<>>

-------------------------------------------------------------------------------
(* Requests.  Which one comes is the client's choice; /ping and the search     *)
(* tool name a role or come from a run's worker.                               *)

Start(op, role) ==
    /\ ~Serving
    /\ job' = [Idle EXCEPT !.op = op, !.role = role,
                 !.name = IF op = "embed" THEN OpenAI ELSE None,
                 !.pc = CASE op \in {"providers", "settings"} -> "keys"
                          [] op \in {"create", "create_ma"} -> "task"
                          [] op \in {"resolve", "ping"} -> "override"
                          [] op \in {"tool", "health"} -> "engine"
                          [] op = "embed" -> "key"]
    /\ span' = <<rows>>
    /\ UNCHANGED <<store, run>>

Answer(status, error) == job' = [job EXCEPT !.pc = "done", !.status = status, !.error = error]

Goto(pc) == job' = [job EXCEPT !.pc = pc]

(* POST /runs looks the task type up before anything else: unknown or disabled *)
(* is a 400.                                                                   *)
CheckTask ==
    /\ job.pc = "task"
    /\ Answer("400", "task") \/ Goto("keys")
    /\ UNCHANGED <<store, run, span>>

(* get_settings_snapshot: four SELECTs, each seeing what is committed by then. *)
ReadKeys ==
    /\ job.pc = "keys"
    /\ job' = [job EXCEPT !.snap.keys = Shown(rows).keys,
                          !.pc = IF job.op = "providers" THEN "done" ELSE "overrides",
                          !.status = IF job.op = "providers" THEN "200" ELSE "none"]
    /\ UNCHANGED <<store, run, span>>

BugReadOverrides ==               \* the overrides of the last run's snapshot
    /\ job.pc = "overrides"
    /\ job' = [job EXCEPT !.snap.overrides = IF run = None THEN rows.overrides
                                                           ELSE run.snap.overrides,
                          !.pc = "search"]
    /\ UNCHANGED <<store, run, span>>

ReadOverrides ==
    /\ job.pc = "overrides"
    /\ job' = [job EXCEPT !.snap.overrides = rows.overrides, !.pc = "search"]
    /\ UNCHANGED <<store, run, span>>

ReadSearch ==
    /\ job.pc = "search"
    /\ job' = [job EXCEPT !.snap.search = rows.search, !.pc = "retries"]
    /\ UNCHANGED <<store, run, span>>

ReadRetries ==
    /\ job.pc = "retries"
    /\ job' = [job EXCEPT !.snap.retries = Shown(rows).retries,
                          !.pc = IF job.op = "settings" THEN "done" ELSE "commit",
                          !.status = IF job.op = "settings" THEN "200" ELSE "none"]
    /\ UNCHANGED <<store, run, span>>

(* create_run commits the row, snapshot included, before any model is          *)
(* resolved.  An M&A run needs no model: its stub is spawned at once.          *)
CommitRun ==
    /\ job.pc = "commit"
    /\ run' = [snap |-> job.snap, framed |-> job.op = "create_ma"]
    /\ IF job.op = "create_ma" THEN Answer("201", "none") ELSE Goto("override")
    /\ UNCHANGED <<store, span>>

-------------------------------------------------------------------------------
(* get_chat_model, for one role or for every role of a run in turn.            *)

ProviderOf(t, r) == IF t.overrides[r] = None THEN DEFAULT_PROVIDER ELSE t.overrides[r]

(* /ping takes a ValueError for the caller's fault; every other caller lets it *)
(* out as a 500, and the search tool hands it to the model.                    *)
Fail(error) ==
    Answer(IF job.op = "ping" /\ error # "token" THEN "400" ELSE "500", error)

BugReadOverride ==                \* the override of the run's snapshot
    /\ job.pc = "override"
    /\ LET p == ProviderOf(IF run = None THEN rows ELSE run.snap, job.role) IN
       IF p \in Providers
       THEN job' = [job EXCEPT !.name = p, !.pc = "key"]
       ELSE Fail("unknown")
    /\ UNCHANGED <<store, run, span>>

ReadOverride ==
    /\ job.pc = "override"
    /\ LET p == ProviderOf(rows, job.role) IN
       IF p \in Providers
       THEN job' = [job EXCEPT !.name = p, !.pc = "key"]
       ELSE Fail("unknown")
    /\ UNCHANGED <<store, run, span>>

(* Why get_provider_key raises, if it does: crypto is reached for a row only.  *)
KeyError == IF fernet = None THEN "unset" ELSE "token"

(* _aws_factory: IAM variables win, then the key stored or in the environment, *)
(* which is a credential bundle or a bearer token.                             *)
BearerOutcomes(name, row) ==
    IF job.op = "ping" /\ name = Aws /\ ~EnvCreds /\ (row # None \/ EnvKey) THEN BOOLEAN ELSE {FALSE}

(* The last role resolved, the rest of the handler runs without an await.      *)
Resolved(models, bearer) ==
    LET j == [job EXCEPT !.models = models, !.bearer = bearer] IN
    CASE job.op = "ping" -> /\ job' = [j EXCEPT !.pc = "call"]
                            /\ UNCHANGED run
      [] job.op # "ping" /\ job.role < NRoles ->
            /\ job' = [j EXCEPT !.pc = "override", !.role = job.role + 1]
            /\ UNCHANGED run
      [] job.op = "resolve" /\ job.role = NRoles ->
            /\ job' = [j EXCEPT !.pc = "done", !.status = "200"]
            /\ UNCHANGED run
      [] job.op = "create" /\ job.role = NRoles ->
            /\ job' = [j EXCEPT !.pc = "done", !.status = "201"]
            /\ run' = [run EXCEPT !.framed = TRUE]

ReadKey ==
    /\ job.pc = "key" /\ job.op \in {"create", "resolve", "ping"}
    /\ LET row == rows.keys[job.name] IN
       \/ ~Unwraps(row) /\ Fail(KeyError) /\ UNCHANGED run
       \/ row = None /\ job.name \in Keyed /\ Fail("nokey") /\ UNCHANGED run
       \/ /\ Unwraps(row)
          /\ job.name \in Keyed => row # None
          /\ \E b \in BearerOutcomes(job.name, row) :
                Resolved([job.models EXCEPT ![job.role] = [provider |-> job.name, key |-> row]], b)
    /\ UNCHANGED <<store, span>>

-------------------------------------------------------------------------------
(* _BedrockBearerChatModel._generate and _agenerate: the attempts of one call. *)

_attempt_count == IF RetryMax > 1 THEN RetryMax ELSE 1

Transient == {"timeout", "throttled", "transport"}
Replies == Transient \cup {"answer", "refused", "garbage"}

BugLastAttempt == job.attempt > _attempt_count    \* off by one
LastAttempt == job.attempt >= _attempt_count

(* An attempt that fails for good is raised as itself; a loop that runs out    *)
(* raises an error that says nothing.                                          *)
Attempt ==
    /\ job.pc = "call" /\ job.bearer
    /\ \E reply \in Replies :
         IF reply = "answer" THEN job' = [job EXCEPT !.pc = "done", !.status = "200", !.last = reply]
         ELSE IF reply \notin Transient \/ LastAttempt
         THEN job' = [job EXCEPT !.pc = "done", !.status = "500", !.error = reply, !.last = reply]
         ELSE job' = [job EXCEPT !.attempt = @ + 1, !.last = reply,
                        !.pc = IF job.attempt < _attempt_count THEN "call" ELSE "done",
                        !.status = IF job.attempt < _attempt_count THEN "none" ELSE "500",
                        !.error = IF job.attempt < _attempt_count THEN "none"
                                                                  ELSE "without a response"]
    /\ UNCHANGED <<store, run, span>>

(* Any other chat model: LangChain's client, which has retries of its own.     *)
OtherCall ==
    /\ job.pc = "call" /\ ~job.bearer
    /\ Answer("200", "none") \/ Answer("500", "provider")
    /\ UNCHANGED <<store, run, span>>

-------------------------------------------------------------------------------
(* The search tool of a run, and the probe a user checks his settings with.    *)

ToolEngine(t) == IF t.search = None THEN Tavily ELSE t.search
HealthEngine(t) == IF t.search = None THEN DuckDuckGo ELSE t.search

ReadEngine ==
    /\ job.pc = "engine"
    /\ IF job.op = "health" /\ HealthEngine(rows) \in Keyless
       THEN Goto("post")
       ELSE job' = [job EXCEPT !.pc = "key",
                     !.name = IF job.op = "tool" THEN ToolEngine(rows) ELSE HealthEngine(rows)]
    /\ UNCHANGED <<store, run, span>>

(* _provider_adapter of the tool has no branch for DuckDuckGo.                 *)
BugReadSearchKey ==               \* the probe does not look the key up
    /\ job.pc = "key" /\ job.op \in {"tool", "health"}
    /\ \/ job.op = "health" /\ Goto("search_call")
       \/ job.op = "tool" /\ Fail("nokey")
    /\ UNCHANGED <<store, run, span>>

ReadSearchKey ==
    /\ job.pc = "key" /\ job.op \in {"tool", "health"}
    /\ LET row == rows.keys[job.name] IN
       \/ ~Unwraps(row) /\ Fail(KeyError)
       \/ /\ row = None
          /\ IF job.op = "health" THEN Answer("400", "nokey") ELSE Fail("nokey")
       \/ /\ Unwraps(row) /\ row # None
          /\ IF job.name \in Keyless THEN Fail("unsupported") ELSE Goto("search_call")
    /\ UNCHANGED <<store, run, span>>

(* embed_texts: without the key it raises; with it, the batches are embedded,  *)
(* refused, or have another dimension than configured.                         *)
ReadEmbedKey ==
    /\ job.pc = "key" /\ job.op = "embed"
    /\ LET row == rows.keys[job.name] IN
       \/ ~Unwraps(row) /\ Fail(KeyError)
       \/ row = None /\ Fail("nokey")
       \/ Unwraps(row) /\ row # None /\ Goto("search_call")
    /\ UNCHANGED <<store, run, span>>

(* The adapter's, or the embedding service's, answer.                          *)
External ==
    /\ job.pc = "search_call"
    /\ Answer("200", "none") \/ Answer("500", "provider")
    /\ UNCHANGED <<store, run, span>>

(* DuckDuckGo is POSTed to, then GETs; when both fail it has found nothing.    *)
SearchFree ==
    /\ job.pc \in {"post", "get"}
    /\ \/ Answer("200", "none")
       \/ job.pc = "post" /\ Goto("get")
    /\ UNCHANGED <<store, run, span>>

-------------------------------------------------------------------------------

Serve ==
    \/ CheckTask \/ ReadKeys \/ ReadOverrides \/ ReadSearch \/ ReadRetries \/ CommitRun
    \/ ReadOverride \/ ReadKey \/ Attempt \/ OtherCall
    \/ ReadEngine \/ ReadSearchKey \/ ReadEmbedKey \/ External \/ SearchFree

SettingsWrite ==
    /\ Write
    /\ span' = IF Serving THEN Append(span, rows') ELSE span
    /\ UNCHANGED <<job, run>>

(* A restart drops the request; the settings and the run's row stay.           *)
Restart ==
    /\ Reboot
    /\ job' = Idle
    /\ span' = <<>>
    /\ UNCHANGED run

Next ==
    \/ \E op \in Ops, r \in Roles : (op # "ping" => r = 1) /\ Start(op, r)
    \/ Serve
    \/ SettingsWrite
    \/ Restart

Spec == Init /\ [][Next]_vars

-------------------------------------------------------------------------------
(* Correctness                                                                 *)

Snaps == [keys : SUBSET Names, overrides : Overrides, search : Engines \cup {None},
          retries : RetryValues \cup {DEFAULT_MAX_STAGE_RETRIES}]

Errors == {"none", "task", "unknown", "nokey", "unset", "token", "unsupported",
           "provider", "without a response"} \cup Replies

TypeOK ==
    /\ rows \in Tables
    /\ fernet \in Secrets \cup {None}
    /\ writes \in 0 .. MaxWrites
    /\ restarts \in 0 .. MaxRestarts
    /\ job \in [op : Ops \cup {"none"},
                pc : {"idle", "task", "keys", "overrides", "search", "retries", "commit",
                      "override", "key", "call", "engine", "search_call", "post", "get",
                      "done"},
                snap : Snaps, role : Roles, name : Names \cup {None},
                models : [Roles -> [provider : Providers \cup {None}, key : KeyRows \cup {None}]],
                bearer : BOOLEAN, attempt : 1 .. _attempt_count,
                last : Replies \cup {"none"}, error : Errors,
                status : {"none", "200", "201", "400", "500"}]
    /\ run = None \/ run \in [snap : Snaps, framed : BOOLEAN]
    /\ span \in Seq(Tables)

(* What GET /settings shows, and what a new run stores, is the settings of one *)
(* moment of the request, although it takes four SELECTs: it takes two writes  *)
(* in between to show a mixture (settings_service.py:162).                     *)
SnapshotWhole ==
    /\ job.op \in {"settings", "create", "create_ma"}
    /\ job.pc \in {"commit", "override"} \/ job.status \in {"200", "201"}
    => \/ \E t \in DOMAIN span : job.snap = Shown(span[t])
       \/ Len(span) > 2

(* A model is resolved from settings that were in effect during the request,   *)
(* never from a cache nor from a snapshot: its provider at some moment, its    *)
(* key not before that (llm.py:508, run_worker.py:91).                         *)
ResolvedFresh ==
    \A r \in Roles : job.models[r] # NoModel =>
        \E s, t \in DOMAIN span :
            /\ s <= t
            /\ job.models[r].provider = ProviderOf(span[s], r)
            /\ job.models[r].key = span[t].keys[job.models[r].provider]

Resolves(t, r) ==
    /\ ProviderOf(t, r) \in Providers
    /\ ProviderOf(t, r) \in Keyed => t.keys[ProviderOf(t, r)] # None

ToolServes(t) == ToolEngine(t) \notin Keyless /\ t.keys[ToolEngine(t)] # None
HealthServes(t) == HealthEngine(t) \in Keyless \/ t.keys[HealthEngine(t)] # None

Serves(t) ==
    CASE job.op \in {"create", "resolve", "ping"} -> Resolves(t, job.role)
      [] job.op = "tool" -> ToolServes(t)
      [] job.op = "health" -> HealthServes(t)
      [] job.op = "embed" -> t.keys[OpenAI] # None

(* A request that says a provider is unknown, unsupported or without a key is  *)
(* right about one moment at least, although it read the provider and the key  *)
(* in two SELECTs: settings good all along never fail it.  And one that could  *)
(* not decrypt a key met a row of another FERNET_KEY.  In particular a run     *)
(* whose row POST /runs committed is left without a framing only by settings   *)
(* that could not serve it (runs.py:91).                                       *)
FailureExplained ==
    /\ job.error \in {"unknown", "nokey", "unsupported"} =>
            \E t \in DOMAIN span : ~Serves(span[t])
    /\ job.status = "201" => run.framed
    /\ job.error \in {"unset", "token"} =>
            \E t \in DOMAIN span : ~Unwraps(span[t].keys[job.name])

(* Where the probe of /health/search gets an answer the search tool of a run   *)
(* gets one too, but for the engine they treat apart: none chosen, or          *)
(* DuckDuckGo (health.py:44, web_search.py:51).                                *)
ProbeHonest ==
    job.op = "health" /\ (job.pc \in {"search_call", "post", "get"} \/ job.status = "200") =>
        \/ \E t \in DOMAIN span : \/ ToolServes(span[t])
                                  \/ span[t].search \in Keyless \cup {None}
        \/ Len(span) > 2

(* A Bedrock call that ends with an error names its last failure, and gives a  *)
(* transient one up only after its last attempt: the loop never runs out into  *)
(* the error that names nothing (llm.py:338, 371).                             *)
CauseNamed ==
    job.bearer /\ job.pc = "done" =>
        IF job.status = "200" THEN job.last = "answer"
        ELSE /\ job.error = job.last
             /\ job.error \in Transient => job.attempt = _attempt_count

(* Every variable stays in its range, and an error of Bedrock names its cause. *)
ModelsInv == TypeOK /\ CauseNamed
===============================================================================
