SPECIFICATION Spec
CONSTANTS
  Nets = {"a", "b"}
  Layers = {"M1", "M2", "M3"}
  Spots = {"p", "q"}
  None = "none"
  Programs <- AllPrograms
  PolygonShapes <- Polygons
  ContactShapes <- Contacts
  DeviceShapes <- AllDevices
  RouteShapes <- Routes
  Contract <- Contracts
  MaxShapes = 3
CHECK_DEADLOCK FALSE
INVARIANTS NetIdsAgree BindingsAgree PinsOnTheirNets ComponentWindows NoStrayContact SeparatePortsKeepTheirNets
