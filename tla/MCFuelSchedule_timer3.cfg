SPECIFICATION Spec
CONSTANTS
    Channel = {1, 3}
    Kind <- KindTimer3
    Injector = {1, 3, 5}
    Opens <- OpensTimer3
    Closes <- OpensTimer3
    Board = "AVR"
    Period = 3
    Calls <- CallsTimer3
    TornDurations = {4}
    TornTicks = {}
INVARIANT OpenInjectorIsTimed
PROPERTIES NoEarlyStart PulseUsesLatestDuration ImplementsPulseRequests
