---------------------------- MODULE MCWebServer -----------------------------
(* An instance of WebServer for TLC: one client, which chooses its port.     *)
EXTENDS WebServer

CONSTANT browser

MCPorts == [d \in Conn |-> {"http", "https"}]
\* Every two requests; three of which the second is malformed, or which fill the buffer.
MCTalks ==
    [d \in Conn |-> Kind \X Kind \cup {<<"test", "bad", "test">>, <<"test", "post", "test">>}]
=============================================================================
