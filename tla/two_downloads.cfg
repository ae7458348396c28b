SPECIFICATION Spec
CONSTANTS
    v1 = v1
    v2 = v2
    Versions = {v2}
    Factory = factory
    NoVersion = noVersion
    Size <- MCSize
    Downloaders = {d1, d2}
    Installers = {}
    Boot = boot
    Checkers = {c1}
    InstallType = "SYS_INSTALLER"
INVARIANTS AtMostOneDownload
