----------------------------- MODULE MCRuntime ------------------------------
EXTENDS Runtime

CONSTANTS none, ns1, ns2, s1, s2

Req(key, target) == [key |-> key, target |-> target, write |-> FALSE, plain |-> FALSE, port |-> none]
Cap(key, target) == [op |-> "cap", req |-> Req(key, target)]
Op(op) == [op |-> op]

NoCaps ==
    [fs |-> {}, hosts |-> {}, http |-> FALSE, flags |-> {},
     kb |-> [k \in {"kb_read", "kb_write"} |-> {}], secrets |-> {}]
SomeCaps == [NoCaps EXCEPT !.flags = {"model"}, !.kb["kb_read"] = {ns1}, !.secrets = {s1}]
MissingCaps == [NoCaps EXCEPT !.secrets = {s1, s2}]

CallsOf ==
    {<<Cap("model", none), Op("notify"), Cap("kb_read", ns1)>>,
     <<Op("notify"), Cap("kb_read", ns2)>>,
     <<Cap("secrets", s1), Op("peek"), Op("recv"), Op("notify")>>,
     <<Cap("secrets", s2), Op("notify")>>,
     <<Op("notify"), Op("external")>>,
     <<Op("recv"), Op("trap")>>,
     <<Op("loop")>>,
     <<>>}

MCSetups ==
    [caps : {NoCaps, SomeCaps, MissingCaps}, calls : CallsOf, bus : BOOLEAN, badRoot : BOOLEAN,
     strictFs : BOOLEAN, allowMissing : BOOLEAN, loads : BOOLEAN, instantiates : BOOLEAN]

\* A deadline that passes only when nothing else can happen.
PatientNext ==
    /\ Next
    /\ late' # late =>
         \/ guest.at = "run" /\ guest.todo # <<>> /\ Head(guest.todo).op = "loop" /\ barrier.guest
         \/ spawner.at = "ready" /\ barrier.event = "none"
PatientSpec == Init /\ [][PatientNext]_vars
=============================================================================
