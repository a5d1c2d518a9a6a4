SPECIFICATION FairSpec
CONSTANTS
    d1 = d1
    d2 = d2
    app = app
    raw = raw
    listed = listed
    spelt = spelt
    own = own
    shared = shared
    stray = stray
    Device = {d1, d2}
    Task = {t1}
    App = {app}
    Title = {raw, listed, spelt}
    Norm <- MCNorm
    RawName <- MCRawName
    Manifest <- MCManifest
    InstallDir <- MCInstallDir
    Installed <- MCInstalled
    Folder <- MCFolder
    CustomTitle <- MCCustomTitle
    PairedBefore = {d2}
    Ignored = {}
    Exe = {own, shared, stray}
    Basename <- MCBasename
    ExesIn <- MCExesIn
    Id = {i1, i2, i3, i4}
    NULL = NULL
    Upsettable = {d1}
    MaxUpset = 1
INVARIANTS TypeOK CatalogCurrent NoDuplicateTitle DetectionFindsGame
PROPERTIES PersistedIdKept IdsConverge
CHECK_DEADLOCK FALSE
