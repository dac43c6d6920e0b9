------------------------------- MODULE MCDirs -------------------------------
(* Directories on a small disk: the root, /d/ and /d/i/ with a device, made at boot. *)
EXTENDS Dirs

MCDevices == <<[path |-> <<"d/", "i/", "kbd">>, dev |-> "kbd"]>>
MCDirName == {"d/", "i/", "x/"}
MCFileName == {"srvlog", "kbd", "srv"}
MCPkgPath == {<<"d/", "i/", "srv">>}
MCPrefix == {<<"srv", "srvlog">>}
MCPath == MCPkgPath \cup {<<"x/">>, <<"srvlog">>, <<"d/", "srvlog">>, <<"d/", "i/">>,
           <<"d/", "i/", "srvlog">>, <<"d/", "i/", "kbd">>}

=============================================================================
