CONSTANTS
    Connections = {c1, c2}
    Accounts <- MCAccounts
    MaxConnects = 2
    MaxSends = 2
SPECIFICATION Spec
INVARIANTS TypeOK LibcoapInUse CredentialsMatch ConnectedHasSession NoDangling
PROPERTIES ContractKept SendsEnd
