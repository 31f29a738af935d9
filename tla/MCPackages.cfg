CONSTANTS
    p1 = p1
    b1 = b1
    b2 = b2
    m1 = m1
    m2 = m2
    None = None
    Plugins = {p1}
    Builds = {b1, b2}
    PluginOf <- MCPluginOf
    Manifest <- MCManifest
    Changes = {c1, c2}
    Tokens = {t1}
    Puts = {u1, u2}
    FileCeiling = 1
    PackageCeiling = 2
    Sizes = {1, 2, 3}
    Headless = FALSE
SYMMETRY Symmetry
SPECIFICATION Spec
INVARIANT ServedIsInstalled
INVARIANT ToldModulesLoad
INVARIANT StoredIsWhatWasSent
CHECK_DEADLOCK FALSE
