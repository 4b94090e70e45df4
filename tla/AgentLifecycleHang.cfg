SPECIFICATION FairSpec
CONSTANTS
    c1 = c1
    c2 = c2
    Calls <- MCCalls
    Word = 70000
    ConfigFiles = {}
    MaxCalls = 1
PROPERTY
    SignalTerminates
