------------------------------ MODULE MCServer ------------------------------
EXTENDS WaylandServer, SocketNames

CONSTANTS c1, c2, c3, n1, n2

Scenario(programs, calls, n) ==
  [programs |-> programs, calls |-> calls, budget |-> n, timer |-> n > 0,
   globals |-> <<"a">>, interfaces |-> {"a"}, hidden |-> {}, socket_space |-> 9,
   listeners |-> {"l1"}, listening |-> {"l1"}, terminates |-> FALSE, honest |-> TRUE]

On(c, program) == c :> program

MCScenarios == [
  globals |-> [Scenario(On(c1, <<"get_registry", "bind">>) @@ On(c2, <<"get_registry">>),
                        {"create", "remove", "destroy"}, 2)
               EXCEPT !.hidden = {<<c2, "b">>}, !.interfaces = {"b"}],
  terminate |-> [Scenario(On(c1, <<"get_registry", "hangup">>), {}, 0)
                 EXCEPT !.terminates = TRUE],
  errors |-> [Scenario(On(c1, <<"get_registry", "bind", "wrong">>), {"error", "event", "drop"}, 2)
              EXCEPT !.honest = FALSE],
  objects |-> Scenario(On(c1, <<"get_registry", "bind", "bind", "destroy">>)
                         @@ On(c2, <<"get_registry", "bind">>), {"drop", "foreign"}, 1),
  listeners |-> [Scenario(On(c1, <<>>) @@ On(c2, <<>>), {"listen", "unlisten"}, 3)
                 EXCEPT !.listeners = {"l1", "l2", "l3", "l4"}, !.listening = {"l1", "l2", "l3"}],
  closing |-> [Scenario(On(c1, <<>>) @@ On(c2, <<>>) @@ On(c3, <<>>), {"kill"}, 2)
               EXCEPT !.terminates = TRUE],
  hangups |-> Scenario(On(c1, <<"get_registry", "hangup">>) @@ On(c2, <<"get_registry", "hangup">>),
                        {"kill", "create"}, 1),
  full |-> [Scenario(On(c1, <<"get_registry", "sync", "sync">>) @@ On(c2, <<"get_registry">>),
                     {"create", "destroy"}, 1)
            EXCEPT !.socket_space = 2],
  sockets |-> Scenario(<<>>, {}, 0)
]

MCTries == [p \in Servers |-> {<<n1>>, <<n1, n2>>}]

-----------------------------------------------------------------------------
(* A display takes its names before it runs and gives them up when it is   *)
(* destroyed after: the scenario "sockets" is that of the names, of this   *)
(* and other servers, and the others are those of the display that runs.   *)

MCInit == Init /\ SocketsInit
MCNext == \/ scenario # "sockets" /\ Next /\ UNCHANGED socketVars
          \/ scenario = "sockets" /\ SocketsNext /\ UNCHANGED vars

MCSpec == MCInit /\ [][MCNext]_<<vars, socketVars>> /\ (scenario # "sockets" => Fairness)
=============================================================================
