SPECIFICATION FairSpec
CONSTANTS
  c1 = c1
  c2 = c2
  a1 = a1
  a2 = a2
  Absent = Absent
  Clients <- TwoClients
  Addresses <- TwoAddresses
  TTL = 1
  MaxSkew = 1
  Checks = 2
  MaxSaves = 2
  MaxReloads = 1
PROPERTIES
  NoDuplicateStarts
  CredentialEnds
  OneServerInTheEnd
  TTLSparesUsedCredentials
CHECK_DEADLOCK FALSE
