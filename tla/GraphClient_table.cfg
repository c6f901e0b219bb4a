SPECIFICATION GraphSpec
CONSTANTS
    Tasks <- MCTasks
    Tenants <- MCTenants
    Clients <- MCClients
    None = "none"
    MaxClients = 1
    MaxRetries = 1
    MaxTokens = 2
INVARIANTS TableIsGood OpenIsKept RefusedNotResent
