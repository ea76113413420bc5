SPECIFICATION FairSpec
CONSTANTS
  c1 = c1
  c2 = c2
  o1 = o1
  o2 = o2
  Sessions = {"s"}
  Owners = {o1}
  NoOwner = "nobody"
  Clients <- MCClients
  Keepers = {"k"}
  Policies = {}
  Hooks = {"h"}
PROPERTIES
  DeferredEndHappens
