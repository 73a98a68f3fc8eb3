SPECIFICATION FairRoutingSpec
CONSTANTS
  c1 = c1  c2 = c2  d1 = d1  d2 = d2  u1 = u1
  User = {root, u1}
  Group = {g}
  Admin = {root}
  Request = {r1}
  NoRow = NoRow
  Policy <- MCPolicy
  Change <- MCChange
  Client = {c1, c2}
  Device = {d1, d2}
  ClientUser <- MCClientUser
  ClientDevice <- MCClientDevice
  DeviceUser <- MCDeviceUser
  MaxTraffic = 1
PROPERTY ViewsCatchUp
