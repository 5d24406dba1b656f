SPECIFICATION FairSpec
CONSTANTS
    None = None
    Unreadable = Unreadable
    k1 = k1
    k2 = k2
    k3 = k3
    d1 = d1
    d2 = d2
    Codes = {k1, k2, k3}
    Devices = {d1, d2}
    CodeDevice <- TwoDevices
    Endpoints = {0, 1}
    Logins = {0, 1}
    EditedEndpoints = {0}
    Inputs <- FewInputs
    MaxCredentials = 2
    MaxPosts = 2
    MaxFaults = 2
INVARIANTS
    ProvisioningTypeOK
    AcceptedCredentialIsKept
    EnrolledIsAccepted
    LoginIsCurrent
    RunsWithItsIdentity
PROPERTIES
    PairingCompletes
