SPECIFICATION FairSpecWithClients
CONSTANTS
    c1 = c1
    c2 = c2
    Calls <- MCCalls
    Word = 70000
    ConfigFiles <- MCFiles
    MaxCalls = 4
INVARIANTS
    CallsRunInsideTheService
    GracefulExit
    ConfigurationIsValid
PROPERTY
    SignalTerminates
