\* The application registers a listener of two types and one of all types, one
\* of them perhaps twice, while a DHT request registers and removes its own.
CONSTANTS
    reply = reply
    stats = stats
    typed = typed
    every = every
    Types = {reply, stats}
    Special = {stats}
    Reply = reply
    Apps = {typed, every}
    Requests = {r1}
    TypesOf <- TypesDef
    App = App
    Alerts = Alerts
    Null = Null
    Unsettled = Unsettled
    MaxRegs = 3
SPECIFICATION Spec
INVARIANTS
    RegistrationsKept
    DeliveredOnce
    AnswerIsCaught
    RequestLeavesNothing
