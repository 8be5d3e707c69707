----------------------------- MODULE GatewayMC ------------------------------
(***************************************************************************)
(* Instances of Gateway for TLC.  A cfg names a scenario: the requests     *)
(* that are sent in the run, with route, mode, port and board of each.     *)
(***************************************************************************)
EXTENDS Gateway, TLC

CONSTANTS Scenario, a, b, c, d, e, p1, p2

Req(kind, mode, port, target) ==
  [kind |-> kind, arduino |-> mode, port |-> port, target |-> target]

C3 == "esp32c3"
C6 == "esp32c6"
Creator == FALSE
Creatino == TRUE

Sent3(ra, rb, rc) == a :> ra @@ b :> rb @@ c :> rc
Sent2(ra, rb) == a :> ra @@ b :> rb

Scenarios ==
  [ \* one user after the other, in both modes and for both kinds of boards
    turns |-> a :> Req("flash", Creator, p1, C3) @@ b :> Req("flash", Creatino, p2, C6)
              @@ c :> Req("job", Creatino, p1, C3) @@ d :> Req("fullclean", Creatino, p1, C3)
              @@ e :> Req("eraseflash", Creatino, p2, C6),
    \* a remote lab in CREATino mode
    lab |-> Sent3(Req("job", Creatino, p1, C3), Req("monitor", Creatino, p1, C3),
                  Req("stopmonitor", Creatino, p1, C3)),
    \* two programs at once in CREATOR mode, one of them with cr_ calls
    crowd |-> Sent3(Req("flash", Creator, p1, C3), Req("job", Creator, p1, C3),
                    Req("stopmonitor", Creator, p1, C3)),
    \* a debugging session among flashes, on the machine or in a container
    debug |-> Sent3(Req("debug", Creator, p1, C3), Req("flash", Creator, p1, C3),
                    Req("monitor", Creator, p1, C3)),
    debug_flash |-> Sent2(Req("debug", Creator, p1, C3), Req("flash", Creator, p1, C3)),
    one_flash |-> a :> Req("flash", Creatino, p1, C3),
    clean_modes |-> Sent2(Req("fullclean", Creatino, p1, C3), Req("monitor", Creator, p1, C3))
  ]

Here == Scenarios[Scenario]
MCRequests == DOMAIN Here
MCKind == [r \in MCRequests |-> Here[r].kind]
MCArduino == [r \in MCRequests |-> Here[r].arduino]
MCPort == [r \in MCRequests |-> Here[r].port]
MCTarget == [r \in MCRequests |-> Here[r].target]
MCPorts == {Here[r].port : r \in MCRequests}
\* every user asks for the board that is plugged in
MCChip == [p \in MCPorts |-> Here[CHOOSE r \in MCRequests : Here[r].port = p].target]
=============================================================================
