SPECIFICATION FairSpec
CONSTANTS
    Channel = {5}
    Kind <- KindFTM3
    Injector = {5}
    Opens <- OpensFTM3
    Closes <- OpensFTM3
    Board = "TEENSY"
    Period = 4
    Calls <- CallsFTM3
    TornDurations = {}
    TornTicks = {}
PROPERTY InjectorsEventuallyClose
