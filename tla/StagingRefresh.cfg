CONSTANTS
    p = p
    q = q
    a = a
    b = b
    bad = bad
    Targets = {t1}
    Names = {1}
    Images = {a, b, bad}
    X64 = {a, b}
    Roots = {p, q}
    Requests <- OneDllRequests
    Layouts <- OneDllLayouts
    AppImages = {}
    PublishWhileStaging = FALSE
    MaxPublish = 1
    MaxKills = 0
SPECIFICATION FairSpec
PROPERTIES Refreshes
CHECK_DEADLOCK FALSE
