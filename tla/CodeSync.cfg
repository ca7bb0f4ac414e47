SPECIFICATION Spec
CONSTANTS
    app = app
    web = web
    f1 = f1
    g1 = g1
    Projects = {app, web}
    Order <- MCBoth
    Files = {f1, g1}
    ProjectOf <- MCProjectOf
    Depth = 1
    MaxCommits <- MCCommits
    MaxVersions <- MCVersions
INVARIANT IndexedOrPending
CHECK_DEADLOCK FALSE
