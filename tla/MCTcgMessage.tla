---------------------------- MODULE MCTcgMessage ----------------------------
(***************************************************************************)
(* TcgCommand and TcgResponse for TLC: the two objects share nothing, and  *)
(* a behaviour is that of one of them.                                     *)
(***************************************************************************)
EXTENDS TcgCommand, TcgResponse

VARIABLE object  \* "command" or "response"

messageVars == <<commandVars, responseVars, object>>

MessageInit ==
  /\ object \in {"command", "response"}
  /\ CommandInit
  /\ ResponseInit
  /\ object = "command" => length = 0 /\ ~blank

MessageNext ==
  \/ object = "command" /\ CommandNext /\ UNCHANGED <<responseVars, object>>
  \/ object = "response" /\ ResponseNext /\ UNCHANGED <<commandVars, object>>

MessageSpec == MessageInit /\ [][MessageNext]_messageVars
=============================================================================
