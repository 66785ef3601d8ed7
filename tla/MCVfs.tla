--------------------------------- MODULE MCVfs ---------------------------------
(* Vfs with a few short paths, one device and the archives that make the      *)
(* shapes the lookups differ on: a directory with a file in it, and  *)
(* a link with a file behind it, which dangles once the file is removed.      *)
EXTENDS Vfs

MCPaths == {<<>>, <<"a">>, <<"d">>, <<"d", ".", "a">>, <<"dev">>, <<"d", "..", "dev", "tty">>}
MCDevices == <<"tty">>

DirAndFile == <<[k |-> "dir", path |-> <<"d">>], [k |-> "file", path |-> <<"d", "a">>]>>
LinkAndFile == <<[k |-> "link", path |-> <<"l">>, to |-> <<"a">>], [k |-> "file", path |-> <<"l">>]>>
MCArchives == {DirAndFile, LinkAndFile}
================================================================================
