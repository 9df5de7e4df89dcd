SPECIFICATION PanelSpec
CONSTANTS
    None = None
    PanelParts = {"sites", "backups", "databases", "staging", "imports", "accounts", "sessions", "dns", "apps", "edits", "notices", "servers", "units", "deploys", "sources", "files", "actions"}
    \* sites
    shop = shop
    staging = staging
    Sites = {shop, staging}
    StagingOf <- MCStagingOf
    Versions = {v1, v2}
    DefaultVersion = v1
    SiteMaxOps = 2
    SiteMaxFaults = 1
    \* backups
    BkKeep = 1
    BkScopes = {{"files", "databases"}, {"databases"}}
    BkMirror = TRUE
    BkMaxOps = 2
    BkMaxVersions = 2
    BkMaxPeriods = 1
    BkMaxFaults = 1
    \* databases
    DbNames = {blog, forum}
    DbQuota = 1
    DbMaxOps = 3
    DbMaxFaults = 2
    \* staging push
    PushMaxOps = 2
    PushMaxFaults = 1
    \* imports
    ImpUsers = {ann, bob}
    ImpMaxUploads = 2
    ImpMaxImports = 2
    ImpMaxSize = 1
    ImpUserLimit = 1
    ImpTotalLimit = 1
    ImpMaxFaults = 1
    \* accounts
    AccMaxUsers = 2
    AccMaxSites = 1
    AccMaxOps = 3
    AccMaxFaults = 1
    \* sessions
    SesMaxTokens = 3
    SesMaxEpochs = 2
    SesMaxOps = 3
    \* DNS
    DnsUsers = {ann}
    DnsSlots = {apex}
    DnsContents = {c1, c2}
    DnsMaxRecords = 2
    DnsMaxOps = 2
    DnsMaxEdits = 1
    DnsMaxFaults = 1
    \* apps
    AppNames = {api, web}
    AppPorts = {1, 2}
    AppMaxOps = 2
    AppMaxFaults = 1
    \* edits of stacks
    EditDomains = {d1, d2}
    EditConfigs = {main, fork}
    EditStacks = 2
    EditMaxOps = 3
    \* notices
    NoteThreshold = 2
    NoteMaxMoves = 2
    \* remote servers
    RsServers = {vps}
    RsStacks = {s1, s2}
    RsMaxOps = 2
    RsMaxFaults = 1
    \* unit files
    UnStacks <- MCUnStacks
    UnBlueprints = {"wordpress", "git", "compose"}
    UnMaxOps = 2
    UnMaxFaults = 1
    \* deploys beside the running service
    blog = blog
    ZdHosts <- MCZdHosts
    ZdServiceOf <- MCZdServiceOf
    ZdMaxDeploys = 2
    ZdMaxLoads = 1
    ZdMaxFaults = 1
    \* sources
    ann = ann
    bob = bob
    app1 = app1
    app2 = app2
    GsApps = {app1, app2}
    GsOwners <- MCGsOwners
    GsMaxOps = 2
    GsMaxMoves = 2
    GsMaxEdits = 1
    \* file manager
    FmSites = {shop}
    FmStacks = {s1}
    FmUsers = {ann, bob}
    FmMaxPipes = 2
    FmMaxProxied = 1
    FmMaxEdits = 1
    FmMaxFaults = 1
    \* actions of WordPress
    SaPhp = {v1, v2}
    SaMaxOps = 2
    SaMaxFaults = 1
INVARIANTS
    PanelTypeOK
    
    BackupsKept
    DatabasesAgree
    PushedSiteSelfContained
    
    TenantsAccounted
    SessionsEndTogether
    
    AppsConsistent
    
    NoticesSound
    
PROPERTIES
    PanelOpsEnd
    ImplementsStore
CHECK_DEADLOCK FALSE
