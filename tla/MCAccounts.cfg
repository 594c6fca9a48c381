SPECIFICATION AccountsSpec
CONSTANTS
  Org = {"default", "second"}
  Home = "default"
  Person = {"root", "ann"}
  Root = "root"
  Client = {1, 2}
  SystemRole <- MCSystemRole
  CustomRole = {"Tester"}
  CodeSets <- MCCodeSets
  MaxWanted = 1
  Key = {"key"}
  SettingKey = {"timezone"}
  MaxChanges = 3
  t1 = t1
  t2 = t2
  c1 = c1
  c2 = c2
  Tab <- MCTab
  MaxRows = 3
  MaxActs = 1
  Editor <- MCEditor
  AgentVersion = {"old", "new"}
  Uploads <- MCUploads
  Cases <- MCCases
  MaxSkills = 2
  MaxEdits = 2
  MaxRuns = 1
SYMMETRY AccountsSymmetry
INVARIANTS
  RolesAsAsked
  FamilyAccounted
  CookieCurrent
  BoundFit
  EvidenceFrozen
PROPERTY TenantsApart
CHECK_DEADLOCK FALSE
