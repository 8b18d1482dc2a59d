\* The same instance: are all-types listeners called for every alert?
CONSTANTS
    reply = reply
    stats = stats
    typed = typed
    every = every
    Types = {reply, stats}
    Special = {stats}
    Reply = reply
    Apps = {typed, every}
    Requests = {r1}
    TypesOf <- TypesDef
    App = App
    Alerts = Alerts
    Null = Null
    Unsettled = Unsettled
    MaxRegs = 3
SPECIFICATION Spec
INVARIANTS
    AllTypesHearAll
