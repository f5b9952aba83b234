-------------------------------- MODULE MCClient --------------------------------
EXTENDS Client

CONSTANTS t1, t2, t3, q1, q2, q3

Arg0(type) == [type |-> type, interface |-> "", allow_null |-> "",
               enum |-> [interface |-> "", name |-> ""]]
Typed(type, interface) == [Arg0(type) EXCEPT !.interface = interface]
Nullable(arg) == [arg EXCEPT !.allow_null = "true"]
Message(name, destructor, args) ==
  [name |-> name, since |-> 0, destructor |-> destructor, args |-> args]
Declared(name, requests, events) ==
  [name |-> name, version |-> 2, requests |-> requests, events |-> events, enums |-> <<>>]

Protocol == <<
  Declared("wl_display",
    << Message("sync", FALSE, <<Typed("new_id", "wl_callback")>>) >>,
    << Message("error", FALSE, <<Arg0("object"), Arg0("uint"), Arg0("string")>>),
       Message("delete_id", FALSE, <<Arg0("uint")>>) >>),
  Declared("wl_callback", <<>>, << Message("done", FALSE, <<Arg0("uint")>>) >>),
  Declared("thing",
    << Message("destroy", TRUE, <<>>), Message("give", FALSE, <<Arg0("fd")>>) >>,
    << Message("ping", FALSE, <<Arg0("uint")>>),
       Message("text", FALSE, <<Nullable(Arg0("string")), Arg0("int")>>),
       Message("pass", FALSE, <<Arg0("fd"), Arg0("fd")>>),
       Message("blob", FALSE, <<Arg0("array")>>),
       Message("peer", FALSE, <<Nullable(Typed("object", "thing"))>>),
       Message("made", FALSE, <<Typed("new_id", "thing")>>) >>) >>

MCInterfaces == [name \in {"wl_display", "wl_callback", "thing"} |->
                 wl_interface(Protocol, CHOOSE i \in DOMAIN Protocol : Protocol[i].name = name)]

Event(sender, opcode, args, n) ==
  [sender |-> sender, opcode |-> opcode, args |-> args, fds |-> n, queued |-> FALSE]
Ping(h)     == Event(h, 0, <<<<5>>>>, 0)
Text(h, s)  == Event(h, 1, <<s, <<6>>>>, 0)
Pass(h)     == Event(h, 2, <<<<NoFd>>, <<NoFd>>>>, 2)
Blob(h, a)  == Event(h, 3, <<a>>, 0)
Peer(h, o)  == Event(h, 4, <<<<o>>>>, 0)
MadeIn(h)   == Event(h, 5, <<<<0>>>>, 0)
Error(code) == Event(1, 0, <<<<2>>, <<code>>, <<1>>>>, 0)

Op1(op) == [op |-> op, proxy |-> 0]
On(op, h) == [op |-> op, proxy |-> h]
Roundtrip1 == <<Op1("roundtrip")>>

Scenario(things, programs, script, hangs_up) ==
  [things |-> things, script |-> script, hangs_up |-> hangs_up,
   queue |-> (t1 :> q1 @@ t2 :> q2 @@ t3 :> q3),
   program |-> (t1 :> programs[1] @@ t2 :> programs[2] @@ t3 :> programs[3])]

MCScenarios == [
  idle    |-> Scenario(<<>>, <<<<>>, <<>>, <<>>>>, <<>>, FALSE),
  wire    |-> Scenario(<<q1>>, <<Roundtrip1 \o <<On("give", 2)>> \o Roundtrip1, <<>>, <<>>>>,
                <<Text(2, <<1, 2, 3>>), Pass(2)>>, FALSE),
  blob    |-> Scenario(<<q1>>, <<Roundtrip1, <<>>, <<>>>>,
                <<Blob(2, <<1, 0, 2, 3, 1>>), Text(2, NullString)>>, FALSE),
  gives   |-> Scenario(<<q1>>, <<[k \in 1..4 |-> On("give", 2)] \o Roundtrip1, <<>>, <<>>>>, <<>>, FALSE),
  flood   |-> Scenario(<<q1>>, <<Roundtrip1, <<>>, <<>>>>,
                <<Text(2, <<1, 2, 3>>), Pass(2), Pass(2), Blob(2, <<1, 0, 2, 3, 1>>)>>, FALSE),
  zombie  |-> Scenario(<<q1, q2>>, <<<<On("destroy", 2)>> \o Roundtrip1, <<>>, <<>>>>,
                <<Pass(2), Pass(3), Peer(3, 2)>>, FALSE),
  made    |-> Scenario(<<q1>>, <<Roundtrip1, <<>>, <<>>>>, <<MadeIn(2), Peer(2, ServerStart)>>, FALSE),
  two     |-> Scenario(<<q1>>, <<Roundtrip1, Roundtrip1, <<>>>>, <<>>, FALSE),
  error   |-> Scenario(<<q1>>, <<<<Op1("dispatch")>>, <<Op1("read")>>, <<Op1("read")>>>>, <<Error(1)>>, TRUE),
  failed  |-> Scenario(<<q1>>, <<Roundtrip1, <<>>, <<>>>>, <<Error(1)>>, TRUE),
  cancel  |-> Scenario(<<q1>>, <<Roundtrip1, <<Op1("cancel")>>, <<Op1("read")>>>>, <<>>, TRUE)
]

-----------------------------------------------------------------------------
(* While the client is idle the scanner is given other protocols than the  *)
(* one it uses: an interface with a request and an event of up to two      *)
(* arguments each, and another event.                                      *)

VARIABLE scanned

ArgPool == {Arg0("int"), Nullable(Arg0("string")), Arg0("new_id"),
            Nullable(Typed("object", "other")), Typed("new_id", "other")}
ArgLists == {<<>>} \cup {<<a>> : a \in ArgPool} \cup (ArgPool \X ArgPool)

OtherProtocol(request, event) == <<
  Declared("some", <<Message("request", FALSE, request)>>,
    <<[Message("event", FALSE, event) EXCEPT !.since = 2],
      Message("more", FALSE, <<Arg0("array")>>)>>) >>

MCInit == /\ Init
          /\ \/ scanned = Protocol
             \/ /\ scenario = "idle"
                /\ \E request, event \in ArgLists : scanned = OtherProtocol(request, event)

MCNext == UNCHANGED scanned /\ IF scenario # "idle" THEN Next ELSE UNCHANGED vars

MCSpec == MCInit /\ [][MCNext]_<<vars, scanned>> /\ Fairness

(* What the scanner writes for any protocol it accepts fits together: the  *)
(* shared array of types, the signatures, the functions generated and what *)
(* libwayland calls and takes from them (scanner.c:1506 and :1713).        *)
ScannedCodeAgrees == scenario = "idle" => GeneratedCodeAgrees(scanned)
=============================================================================
