\* Two providers, two keys each, two saves by three processes, one restart.
SPECIFICATION Spec
CONSTANTS
    Providers = {"google", "openai"}
    StartProvider = "google"
    LimitProviders = {"openai"}
    Modes = {"single_user", "multi_tenant"}
    MaxValue = 2
    MaxSaves = 2
    MaxRestarts = 1
    None = None
INVARIANTS
    SavedSettingsStay
    ShownIsUsed
    AgentHasOwnKey
    ActiveAgentHasCurrentKey
