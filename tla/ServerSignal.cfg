SPECIFICATION Spec
CONSTANTS
  a1 = a1  a2 = a2  a3 = a3  k1 = k1  k2 = k2  k3 = k3  k4 = k4
  IP <- MCIP  Conn <- MCConn  From <- MCFrom
  MaxTotal = 2  MaxPerIp = 1
PROPERTIES SignalIsHandled
