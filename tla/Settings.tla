------------------------------- MODULE Settings -------------------------------
(* The two settings tables (provider_keys, settings_kv) and the PUT handlers   *)
(* that write them: services/settings_service.py, api/settings.py and          *)
(* core/crypto.py.  Every write is one upsert and one commit, so it is one     *)
(* step; what reads the tables reads them one SELECT at a time (Models).       *)
EXTENDS Naturals

CONSTANTS
    Providers,    \* PROVIDER_REGISTRY: the chat providers
    Engines,      \* SearchProviderName: the search providers a PUT accepts
    Keyless,      \* the search providers that need no key: duckduckgo
    Stray,        \* a provider name the registry does not hold
    NRoles,       \* the roles a run resolves a model for are 1..NRoles
    KeyInputs,    \* the names PUT /settings/providers is given a key for
    OverrideInputs, \* the mappings PUT /settings/model_overrides is given
    RetryValues,  \* the values PUT /settings/max_stage_retries is given
    Secrets,      \* the values FERNET_KEY may have
    Installs,     \* what earlier lives of the process left in the tables
    None,         \* an absent row, and an unset FERNET_KEY
    MaxWrites,    \* bound on the PUTs
    MaxRestarts   \* bound on the restarts of the process

ASSUME SettingsAssumption ==
    /\ Keyless \subseteq Engines
    /\ Stray \notin Providers
    /\ None \notin Providers \cup Engines \cup Secrets \cup {Stray}
    /\ NRoles \in Nat \ {0}
    /\ KeyInputs \subseteq Providers \cup Engines
    /\ OverrideInputs \subseteq [1 .. NRoles -> Providers \cup {Stray, None}]
    /\ RetryValues \subseteq 1 .. 5
    /\ None \notin [id : Nat, under : Secrets]
    /\ Installs # {}
    /\ MaxWrites \in Nat /\ MaxRestarts \in Nat

VARIABLES
    rows,      \* what the two tables hold
    fernet,    \* FERNET_KEY of the running process
    writes,    \* the PUTs so far
    restarts   \* the restarts so far

store == <<rows, fernet, writes, restarts>>

Roles == 1 .. NRoles
Names == Providers \cup Engines

(* provider_keys.encrypted_key: which key, and what it was encrypted with.     *)
KeyRows == [id : Nat, under : Secrets]

(* An override row that names no role is the same as no row.                   *)
Overrides == [Roles -> Providers \cup {Stray, None}]

Tables == [keys : [Names -> KeyRows \cup {None}],
           overrides : Overrides,
           search : Engines \cup {None},
           retries : RetryValues \cup {None}]

DEFAULT_MAX_STAGE_RETRIES == 2

ASSUME InstallsAssumption == Installs \subseteq Tables

(* The settings as GET /settings shows them, defaults applied.                 *)
Shown(t) == [keys |-> {n \in Names : t.keys[n] # None},
             overrides |-> t.overrides,
             search |-> t.search,
             retries |-> IF t.retries = None THEN DEFAULT_MAX_STAGE_RETRIES
                                             ELSE t.retries]

(* crypto.unwrap: only the FERNET_KEY that encrypted a row decrypts it.        *)
Unwraps(row) == row # None => fernet # None /\ row.under = fernet

SettingsInit ==
    /\ rows \in Installs
    /\ fernet \in Secrets \cup {None}
    /\ writes = 0
    /\ restarts = 0

Put ==
    /\ writes < MaxWrites
    /\ writes' = writes + 1
    /\ UNCHANGED <<fernet, restarts>>

(* PUT /settings/providers/{name}.  Without FERNET_KEY crypto.wrap raises      *)
(* before the upsert: nothing is written.                                      *)
BugSetProviderKey(name) ==        \* an empty key deletes the row
    /\ Put
    /\ \/ fernet # None /\ rows' = [rows EXCEPT !.keys[name] = [id |-> writes + 1, under |-> fernet]]
       \/ rows' = [rows EXCEPT !.keys[name] = None]

set_provider_key(name) ==
    /\ fernet # None
    /\ Put
    /\ rows' = [rows EXCEPT !.keys[name] = [id |-> writes + 1, under |-> fernet]]

(* PUT /settings/model_overrides: the whole mapping is replaced, and a         *)
(* provider is any non-empty string.                                           *)
set_model_overrides(o) == Put /\ rows' = [rows EXCEPT !.overrides = o]

(* PUT /settings/search_provider: a closed set of names.                       *)
set_search_provider(e) == Put /\ rows' = [rows EXCEPT !.search = e]

(* PUT /settings/max_stage_retries, 1..5.                                      *)
set_max_stage_retries(v) == Put /\ rows' = [rows EXCEPT !.retries = v]

Write ==
    \/ \E n \in KeyInputs : set_provider_key(n)
    \/ \E o \in OverrideInputs : set_model_overrides(o)
    \/ \E e \in Engines : set_search_provider(e)
    \/ \E v \in RetryValues : set_max_stage_retries(v)

(* The process comes back, perhaps with another FERNET_KEY in its environment; *)
(* the tables are what they were.                                              *)
Reboot ==
    /\ restarts < MaxRestarts
    /\ restarts' = restarts + 1
    /\ fernet' \in Secrets \cup {None}
    /\ UNCHANGED <<rows, writes>>
===============================================================================
