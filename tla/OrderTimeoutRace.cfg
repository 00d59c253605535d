CONSTANTS
    Drivers = {d1, d2}
    NoDriver = NoDriver
    Handlers = {h1, h2}
    MaxOverrides = 1
SPECIFICATION Spec
PROPERTY TimeoutsCancelUnanswered
CHECK_DEADLOCK FALSE
