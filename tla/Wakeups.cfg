SPECIFICATION TickSpec
CONSTANTS
    Devices = {d1, d2}
    Rows = {r1, r2}
    Setups <- Scenes
    Batch = 1
    Buffer = 1
    MaxEdits = 2
    MaxFaults = 1
INVARIANT EditsHaveSignal
INVARIANT NewsOnItsWay
INVARIANT ScreenWillHear
PROPERTY EchoesDie
PROPERTY StoresCatchUp
