----------------------------- MODULE MCOsalSend -----------------------------
(* The tasks that post to the UWB task on this target: the HAL client      *)
(* (CLIENT_PRIO), an application task, the recovery task and the FreeRTOS  *)
(* timer daemon.                                                           *)
EXTENDS OsalSend

MCPrio == [t \in Sender |->
    CASE t = "client" -> 3 [] t = "app" -> 4 [] t = "recovery" -> 5 [] OTHER -> 17]

MCKind == [t \in Sender |->
    CASE t = "client" -> "mbox" [] t = "daemon" -> "timer" [] OTHER -> "uwa"]
=============================================================================
