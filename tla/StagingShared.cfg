CONSTANTS
    p = p
    q = q
    a = a
    b = b
    bad = bad
    Targets = {t1, t2}
    Names <- OneName
    Images = {a, b, bad}
    X64 = {a, b}
    Roots = {p, q}
    Requests <- SharedRequests
    Layouts <- SharedLayouts
    AppImages = {}
    PublishWhileStaging = FALSE
    MaxPublish = 0
    MaxKills = 1
SPECIFICATION FairSpec
INVARIANTS TypeOK DeployedAsLogged
PROPERTIES InstallShipsLogged Converges
