-------------------------------- MODULE MCDaemon --------------------------------
(* Small instances: one mission, one node, two memory entries, three       *)
(* prompts, and as many overlapping calls as each hazard needs.            *)
EXTENDS Daemon

TheRecords == {<<"mission", 1>>, <<"node", 1>>, <<"entry", 1>>, <<"entry", 2>>}
TheCalls ==
  {<<"mission", "execute", 1>>, <<"mission", "execute", 2>>, <<"mission", "cancel", 1>>,
   Recovery,
   <<"node", "register", 1>>, <<"node", "heartbeat", 1>>, <<"node", "heartbeat", 2>>,
   <<"node", "revoke", 1>>,
   <<"entry", "write", 1>>, <<"entry", "audit", 1>>, <<"entry", "revoke", 1>>}
ThePrompts == {<<"single", 1>>, <<"single", 2>>, <<"multi", 1>>}
TypingOn == {<<<<"single", 2>>, <<"single", 1>>>>}
OneByOne == {{"mission"}, {"fleet"}, {"memory"}, {"predictions"}}
=============================================================================
