\* A key and a certificate: what the server builds its credentials from.
SPECIFICATION LaunchSpec
CONSTANTS
    server = server
    updater = updater
    serverIni = serverIni
    updaterIni = updaterIni
    key = key
    certificate = certificate
    directory = directory
    shared = shared
    local = local
    Nowhere = Nowhere
    Program <- MCProgram
    Server = {server}
    File <- MCFile
    Parent <- MCParent
    Ini <- MCIni
    Default <- MCDefault
    Content <- MCContent
    Initially <- MCInitially
    Loose = {key, certificate, directory}
    MaxFaults = 1
    MaxChanges = 3
INVARIANT CredentialsLoaded
