------------------------------ MODULE MCLaunch ------------------------------
(***************************************************************************)
(* An instance of Launch: a server and an updater that share a database in *)
(* a directory neither may find; their .ini files, a key and a certificate.*)
(***************************************************************************)
EXTENDS Launch

CONSTANTS server, updater,
          serverIni, updaterIni, key, certificate, directory, shared, local

MCProgram == {server, updater}
MCFile == {serverIni, updaterIni, key, certificate, directory, shared, local}
MCParent == [f \in MCFile |-> IF f = shared THEN directory ELSE Nowhere]
MCIni == [p \in MCProgram |-> IF p = server THEN serverIni ELSE updaterIni]
MCDefault == [p \in MCProgram |-> local]

Says(valid, k, c) == [valid |-> valid, database |-> shared, key |-> k, certificate |-> c]

(* A key without its certificate is not used. *)
KeyOnly == Says(TRUE, key, Nowhere)

MCContent ==
    [p \in MCProgram |->
        IF p = server THEN {KeyOnly, Says(TRUE, key, certificate), Says(FALSE, key, Nowhere)}
                      ELSE {Says(TRUE, Nowhere, Nowhere)}]

MCInitially ==
    {MCFile \ {directory, shared, local}, MCFile \ {updaterIni, key}}
=============================================================================
