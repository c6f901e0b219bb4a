SPECIFICATION GraphFairSpec
CONSTANTS
    Tasks <- MCTasks
    Tenants <- MCTenants
    Clients <- MCClients
    None = "none"
    MaxClients = 1
    MaxRetries = 1
    MaxTokens = 1
PROPERTIES LookupsEnd
