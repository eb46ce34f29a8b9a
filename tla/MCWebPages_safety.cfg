\* The pages of the web client, one at a time, each on its own small instance.
SPECIFICATION Spec
CONSTANTS
  Off = Off
  None = None
  Nobody = Nobody
  Absent = Absent
  Blank = Blank
  Redacted = Redacted
  Widgets <- MCWidgets
  ServerWidgets = {"entity_stats", "quick_links"}
  ItemIds = {1, 2}
  MaxDashInputs = 4
  Accounts = {"u1", "u2"}
  Tokens = {"t1", "t2", "t3"}
  Owner <- MCOwner
  MaxSesInputs = 5
  Plugins = {"argocd", "harbor"}
  ComingSoon = {}
  Syncable = {"argocd"}
  MaxPlugInputs = 3
  FormFields <- MCFormFields
  FormSections = {"ssoEnabled", "defaultRole"}
  NeedsSwitch = {"clusters"}
  RowNames = {"a", "b"}
  FirstRows <- MCFirstRows
  MaxFormInputs = 4
  EntityNames = {"b", "B"}
  Clean <- MCClean
  Dependent <- MCDependent
  Others = {"note"}
  MaxEntInputs = 5
  RefKinds = {"Service", "Team"}
  EntitiesOf <- MCEntitiesOf
  MaxRows = 2
  MaxRefInputs = 7
  KindSeq <- MCKindSeq
  Hideable = {"Flow"}
  MaxCatInputs = 3
  Roles = {"admin", "qa"}
  Unlisted = {"gone"}
  BuiltIn = {"admin"}
  Perms = {"admin", "read"}
  Admin = "admin"
  Groups = {"g", "h"}
  LocalGroups = {"h"}
  Users = {"u"}
  MaxAccInputs = 3
  Actions = {"deploy", "restart"}
  UserActions = {"deploy"}
  Categories = {"ops"}
  MaxActInputs = 3
  Level <- MCLevel
  MaxWizInputs = 4
  UserIds = {1, 2, 3, 4}
  SSO = {4}
  Me = 1
  MaxUsrInputs = 2
INVARIANTS
  TypeOK
  EveryWidgetHasItsPlace
  RequestsAreTheUsers
  SecretsStayWithTheirRow
  SavedConfigIsOwn
  ListTellsEnabled
  WritesReachTheShown
  SavesKeepTheRest
  PickersShowTheirValue
  ListsAreOfTheKind
  FormIsAsChosen
  TabsShowTheChosen
  TokensGoWhereNeeded
  StatusIsFollowed
  RestrictionKept
  PasswordsGoWhereTyped
PROPERTIES
  DropMovesOneRow
  OpenFollowsRows
  PressChangesOnePermission
  LoadingEnds
CHECK_DEADLOCK FALSE
