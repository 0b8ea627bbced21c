------------------------------ MODULE MCStartup ------------------------------
(* Both builds.  The loop that fetches the two files is the same, so only  *)
(* one of them needs replies of some length; nothing tells one             *)
(* configuration from another.                                             *)
EXTENDS Startup

SomeServers == [config |-> 0, servers |-> 4]

FewAndFew == [f \in Files |-> 1]

EarlierLists == [config |-> {<<>>}, servers |-> {<<>>, <<"data">>}]
=============================================================================
