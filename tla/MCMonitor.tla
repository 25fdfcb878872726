------------------------------ MODULE MCMonitor ------------------------------
(* Monitor on a small instance: a source, a sink that forbids what the source
   or its handler labels, and a payment that always asks and forbids less. *)
EXTENDS Monitor

MCOps             == {"read", "send", "pay"}
MCLabels          == {"secret", "web"}
MCCarries         == [op \in MCOps |-> IF op = "read" THEN {"secret"} ELSE {}]
MCForbids         == [op \in MCOps |-> CASE op = "read" -> {}
                                         [] op = "send" -> {"secret", "web"}
                                         [] op = "pay"  -> {"web"}]
MCRequireApproval == [op \in MCOps |-> op = "pay"]
MCHandlerLabels   == [op \in MCOps |-> IF op = "read" THEN {"web"} ELSE {}]
=============================================================================
