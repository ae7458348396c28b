SPECIFICATION Spec
CONSTANTS
    v1 = v1
    v2 = v2
    Versions = {v2}
    Factory = factory
    NoVersion = noVersion
    Size <- MCSize
    Downloaders = {d1}
    Installers = {i1}
    Boot = boot
    Checkers = {c1}
    InstallType = "UPDATER"
INVARIANTS DownloadingIsBacked InstallingIsBacked ResumedPackageIsIntact
PROPERTIES ImplementsLifecycle DownloadedIsVerified UpdateAwaitsVerdict
