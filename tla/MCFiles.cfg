CONSTANTS
    Requests = {r1, r2}
    MaxSessions = 2
    MaxPasswords = 2
    MaxVersion = 2
    Ids = {x1}
    Accounts = {a1, a2}
    NoAccount = NoAccount
    MaxRows = 1
    MaxFields = 1
    MaxDependents = 1
    FirstReversible = 16
    Transactions = {t1, t2}
    OwnKeys = {k1}
    OtherKeys = {o1}
    OldKeys = {}
    DocumentIds = {a1, a2}
    MaxFiles = 1
SPECIFICATION FilesSpec
SYMMETRY Symmetry
INVARIANTS
    SessionsDieOnRotation
    LoginsFollowPassword
    RowsAreSound
    AccountsStay
    MigrationsRun
    EntitiesFit
    StoresAgree
    LinksAreSound
PROPERTIES
    EditsKeepTheRest
    OtherUsersFilesStay
CHECK_DEADLOCK FALSE
