SPECIFICATION Spec

CONSTANTS
    Providers = {aws, openai}
    Keyed = {openai}
    Aws = aws
    OpenAI = openai
    Engines = {tavily, duckduckgo}
    Keyless = {duckduckgo}
    Tavily = tavily
    DuckDuckGo = duckduckgo
    Stray = stray
    None = none
    NRoles = 2
    KeyInputs = {aws, openai, tavily}
    OverrideInputs <- Mappings
    RetryValues = {3}
    Secrets = {f1, f2}
    AnySecret = f1
    Installs <- Installed
    RetryMax = 2
    EnvCreds = FALSE
    EnvKey = FALSE
    MaxWrites = 2
    MaxRestarts = 1

CHECK_DEADLOCK FALSE

INVARIANTS
    ModelsInv
    SnapshotWhole
    ResolvedFresh
    FailureExplained
    ProbeHonest
