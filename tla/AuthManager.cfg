SPECIFICATION Spec
CONSTANTS
  s1 = s1  s2 = s2
  Session = {s1, s2}
  Token = {"a", "b"}
  NoToken = "(none)"
  Configs <- MCConfigs
  Unreadable = {"not a URL"}
  WithPort = {"api:8080"}
  MaxCalm = 2
  Setting <- MCSetting
  Numeric <- MCNumeric
  Number <- MCNumber
  Default <- MCDefault
  BaseModel = "base"
INVARIANTS TypeOK AcceptedIsAuthorised
PROPERTIES VerdictsFollowTheApi
