--------------------------- MODULE MCLuaScheduler ----------------------------
EXTENDS LuaScheduler

CONSTANTS a, b

(* a serves, keeps closures, fails and goes away; b calls, is called back and
   manages its coroutines.                                                 *)
MCUses == [s \in {a, b} |->
    IF s = a THEN {"dispatch", "call", "wait", "wakeup", "large", "response",
                   "kill", "fail", "exit"}
    ELSE {"call", "odd", "send", "sleep", "wakeup", "fork", "timeout", "exit"}]

MCPeer == [s \in {a, b} |-> {a, b} \ {s}]

=============================================================================
