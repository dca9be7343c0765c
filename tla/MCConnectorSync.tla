--------------------------- MODULE MCConnectorSync ---------------------------
(* Small accounts for ConnectorSync: two targets, of which the first also   *)
(* has a pull request, and one repository with two issues.                 *)
EXTENDS ConnectorSync

AccountObjects == {<<"x", 1>>, <<"x", 2>>, <<"x", 3>>, <<"y", 1>>}
AccountPulls == {<<"x", 2>>}

RepositoryObjects == {<<"x", 1>>, <<"x", 2>>}
=============================================================================
