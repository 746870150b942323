\* Three callers, two devices, four descriptors.
SPECIFICATION Spec
CONSTANTS
    Worker = {w1, w2, w3}
    Device = {hci0, hci1}
    MaxFd = 4
SYMMETRY Symmetry
INVARIANTS
    OwnsItsSocket
    StoredIsBound
    NoSocketLost
