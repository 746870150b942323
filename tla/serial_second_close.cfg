SPECIFICATION FairSystem
CONSTANTS
    client1 = client1
    client2 = client2
    Mcu = Mcu
    Client = {client1, client2}
    Active = {client1, client2}
    Ports = {"ready"}
    MaxGen = 2
    Depth = 1
    Fixed = 0
    MaxChanges = 0
INVARIANTS
    ToldMeansDisconnected
CHECK_DEADLOCK FALSE
