CONSTANTS
    Loaders = {l1}
    MaxRewrites = 1
    ConfigFiles <- MCConfigFiles
    Environments <- MCEnvironments
    KebabNames = {"p"}
    Semvers = {"1.0.0"}
    Identifiers = {"u", "v", "w", "x"}
    PolicyFiles <- MCPolicyFiles
    Compositions <- MCCompositions
    EvalContexts <- MCEvalContexts
    Trees <- MCTrees
    MaxIncludeDepth = 1
    Calls <- MCCalls
    ProviderNames = {"openai", "anthropic"}
    Answers <- MCAnswers
    Streams <- MCStreams
    ChannelCapacity = 1
    Settings <- MCSettings
    MaxInFlight = 2
    MaxSignals = 2
    ProviderConfigs <- MCProviderConfigs
    ConfigLists <- MCConfigLists
    MaxInstances = 3
    SecretNames = {"s"}
    EnvSecrets = {"s"}
    Lookups = {g1, g2}
    MaxVersion = 2
    SecretTTL = 0
    SecretCacheSize = 1
    SecretHorizon = 1
    KeyOf <- MCKeyOf
    ExpiredCerts = {4}
    MaxReplacements = 5
    StateKeys <- MCStateKeys
    Payloads = {"nil", "x"}
    MaxStates = 2
    Retention = 1
    StorageHorizon = 3
SPECIFICATION Spec
INVARIANTS
    ServedConfigurationIsSound
    AcceptedPolicyIsEvaluable
    IncludesAreResolved
    AnswerIsFaithful
    TornDownInOrder
    CheckersAreManaged
    SecretsFollowFiles
    BackendsAgree
PROPERTIES
    RequestsSettle
    SignalEndsProcess
    CertificateCatchesUp
CHECK_DEADLOCK FALSE
