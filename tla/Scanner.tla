-------------------------------- MODULE Scanner --------------------------------
(***************************************************************************)
(* The protocol scanner (untitled/src/scanner.c), which reads a protocol   *)
(* and writes the tables that libwayland marshals by and the C functions   *)
(* and structures through which it is called.                              *)
(*                                                                         *)
(* A protocol is a sequence of interfaces in the order of the file:        *)
(*   [name, version, requests, events, enums], where a message is          *)
(*   [name, since, destructor, args], an argument                          *)
(*   [type, interface, allow_null, enum], an enum [name, bitfield, entries]*)
(* and a reference to one [interface, name].  An attribute that is absent  *)
(* is "", a since that is absent 0.  What is written is modelled by what   *)
(* the C compiler makes of it: the type of each parameter, the value of    *)
(* each argument, the entries of each table.                               *)
(***************************************************************************)
EXTENDS Wire

CONSTANT Extends    \* pairs of names of which the first starts with the second

(* The letter of each type in a signature.                                 *)
TypeLetter == [int |-> "i", uint |-> "u", fixed |-> "f", string |-> "s",
               array |-> "a", fd |-> "h", new_id |-> "n", object |-> "o"]

set_arg_type(type) == type \in DOMAIN TypeLetter

is_nullable_type(arg) == arg.type \in {"string", "object"}
Untyped(arg) == arg.type = "new_id" /\ arg.interface = ""

-----------------------------------------------------------------------------
(* What the scanner accepts.                                               *)

version_from_since(since) == IF since = 0 THEN 1 ELSE since

ArgAccepted(arg) ==
  /\ set_arg_type(arg.type)
  /\ arg.interface # "" => arg.type \in {"new_id", "object"}
  /\ arg.allow_null \in {"", "true", "false"}
  /\ arg.allow_null # "" => is_nullable_type(arg)

MessageAccepted(interface, m) ==
  /\ version_from_since(m.since) <= interface.version
  /\ m.name = "destroy" => m.destructor
  /\ \A i \in DOMAIN m.args : ArgAccepted(m.args[i])

EnumAccepted(enum) == enum.bitfield \in {"", "true", "false"} /\ enum.entries # <<>>

(* The enums an attribute refers to, the first of them being the one that  *)
(* is taken: those of the interface at hand if it names none, and else     *)
(* those of every interface whose name starts with the one it names.       *)
find_enumeration(protocol, interface, attribute) ==
  LET named == IF attribute.interface = "" THEN <<interface>>
               ELSE SelectSeq(protocol, LAMBDA i : \/ i.name = attribute.interface
                                                  \/ <<i.name, attribute.interface>> \in Extends)
  IN  FlattenSeq([k \in DOMAIN named |->
        SelectSeq(named[k].enums, LAMBDA e : e.name = attribute.name)])

verify_arguments(protocol, interface, m) ==
  \A arg \in ToSet(m.args) : arg.enum.name # "" =>
    \/ arg.type = "uint"
    \/ /\ arg.type = "int"
       /\ LET found == find_enumeration(protocol, interface, arg.enum)
          IN  found # <<>> => Head(found).bitfield # "true"

Messages(interface) == ToSet(interface.requests) \cup ToSet(interface.events)

(* start_element and end_element have found nothing to fail on.            *)
Accepted(protocol) ==
  \A interface \in ToSet(protocol) :
    /\ interface.version > 0
    /\ \A e \in ToSet(interface.enums) : EnumAccepted(e)
    /\ \A m \in Messages(interface) :
         MessageAccepted(interface, m) /\ verify_arguments(protocol, interface, m)

-----------------------------------------------------------------------------
(* The tables: for each message its signature and a place in one array of  *)
(* types that all of them share, where the types of its arguments are.     *)
(* Messages of which no argument has a type share the nulls at the front.  *)

(* The messages of a protocol in the order in which the array lists them.  *)
InOrder(protocol) ==
  FlattenSeq([i \in DOMAIN protocol |-> protocol[i].requests \o protocol[i].events])

AllNull(m) == \A arg \in ToSet(m.args) :
                arg.type \in {"new_id", "object"} => arg.interface = ""

(* Faulty: the shared nulls are as many as the last such message needs.    *)
NullRunOfLast(protocol) ==
  FoldLeft(LAMBDA n, m : IF AllNull(m) THEN Len(m.args) ELSE n, 0, InOrder(protocol))

(* As many nulls as the longest such message has arguments in the file.    *)
null_run_length(protocol) ==
  FoldLeft(LAMBDA n, m : IF AllNull(m) /\ Len(m.args) > n THEN Len(m.args) ELSE n,
           0, InOrder(protocol))

emit_types(m) ==
  IF AllNull(m) THEN <<>>
  ELSE [i \in DOMAIN m.args |->
          IF m.args[i].type \in {"new_id", "object"} THEN m.args[i].interface ELSE ""]

TypesArray(protocol) ==
  [i \in 1..null_run_length(protocol) |-> ""]
    \o FlattenSeq([k \in DOMAIN InOrder(protocol) |-> emit_types(InOrder(protocol)[k])])

(* Where the types of the k-th message start, counted from 0.              *)
type_index(protocol, k) ==
  LET order == InOrder(protocol)
  IN  IF AllNull(order[k]) THEN 0
      ELSE FoldLeft(LAMBDA n, j : n + Len(emit_types(order[j])),
                    null_run_length(protocol), [j \in 1..(k - 1) |-> j])

signature(m) ==
  LET letters(arg) ==
        (IF is_nullable_type(arg) /\ arg.allow_null = "true" THEN <<"?">> ELSE <<>>)
          \o (IF Untyped(arg) THEN <<"s", "u">> ELSE <<>>) \o <<TypeLetter[arg.type]>>
      since == version_from_since(m.since)
  IN  (IF since > 1 THEN <<ToString(since)>> ELSE <<>>)
        \o FlattenSeq([i \in DOMAIN m.args |-> letters(m.args[i])])

(* The wl_message of the k-th message of the protocol.                     *)
wl_message(protocol, k) ==
  LET array == TypesArray(protocol)
  IN  [name |-> InOrder(protocol)[k].name,
       signature |-> signature(InOrder(protocol)[k]),
       types |-> SubSeq(array, type_index(protocol, k) + 1, Len(array))]

(* The wl_interface of the i-th interface.  A message's opcode is its place*)
(* among the requests or the events, from 0.                               *)
wl_interface(protocol, i) ==
  LET before == FoldLeft(LAMBDA n, j : n + Len(protocol[j].requests) + Len(protocol[j].events),
                         0, [j \in 1..(i - 1) |-> j])
      requests == Len(protocol[i].requests)
  IN  [name    |-> protocol[i].name,
       version |-> protocol[i].version,
       methods |-> [k \in 1..requests |-> wl_message(protocol, before + k)],
       events  |-> [k \in 1..Len(protocol[i].events) |->
                      wl_message(protocol, before + requests + k)]]

-----------------------------------------------------------------------------
(* The C interface: parameter types as convert_arguments_to_ffi names them.*)

emit_type(arg) ==
  CASE arg.type \in {"int", "fd", "fixed"} -> "sint32"
    [] arg.type \in {"new_id", "uint"} -> "uint32"
    [] arg.type \in {"string", "object", "array"} -> "pointer"

(* The parameters of a handler after the object it is called for.          *)
emit_structs(m, side) ==
  LET parameters(arg) ==
        IF side = "server" /\ Untyped(arg) THEN <<"pointer", "uint32", "uint32">>
        ELSE IF side = "client" /\ arg.type = "new_id" THEN <<"pointer">>
        ELSE <<emit_type(arg)>>
  IN  FlattenSeq([i \in DOMAIN m.args |-> parameters(m.args[i])])

HasStub(m) == Len(SelectSeq(m.args, LAMBDA arg : arg.type = "new_id")) <= 1

(* The call a request's stub makes to wl_proxy_marshal_flags: the interface*)
(* and version of the object it creates, whether it destroys its own, and  *)
(* what stands for each argument: a value, the new object's interface and  *)
(* version, or the null that wl_proxy_marshal_flags puts the object in.    *)
emit_stub(m) ==
  LET new     == SelectSeq(m.args, LAMBDA arg : arg.type = "new_id")
      untyped == new # <<>> /\ new[1].interface = ""
      value(arg) == IF arg.type # "new_id" THEN <<TypeLetter[arg.type]>>
                    ELSE (IF Untyped(arg) THEN <<"s", "u">> ELSE <<>>) \o <<"NULL">>
  IN  [interface |-> IF new = <<>> THEN "" ELSE IF untyped THEN "given" ELSE new[1].interface,
       version   |-> IF untyped THEN "given" ELSE "proxy",
       destroy   |-> m.destructor,
       values    |-> FlattenSeq([i \in DOMAIN m.args |-> value(m.args[i])])]

(* The function that posts an event takes one value for each argument.     *)
emit_event_wrapper(m) ==
  [i \in DOMAIN m.args |-> IF m.args[i].type \in {"new_id", "object"} THEN "pointer"
                           ELSE emit_type(m.args[i])]

-----------------------------------------------------------------------------
(* What is generated fits together.                                        *)

(* A message's place in the shared array holds the interface each of its   *)
(* typed arguments has in the file and null for every other.  A new id     *)
(* without an interface, which takes three places in the signature and one *)
(* in the array, is left out of this.                                      *)
TypesAgree(m, message) ==
  (\A arg \in ToSet(m.args) : ~Untyped(arg)) =>
    \A i \in DOMAIN m.args :
      /\ i \in DOMAIN message.types
      /\ message.types[i] = IF m.args[i].type \in {"new_id", "object"}
                            THEN m.args[i].interface ELSE ""

(* A handler's parameters are what the closure is passed as, and a stub's  *)
(* values what its signature takes, null standing where the new object is  *)
(* put.                                                                    *)
CallsAgree(m, message, side) ==
  LET args == arguments(message.signature)
  IN  /\ emit_structs(m, side) = convert_arguments_to_ffi(message.signature, side)
      /\ side = "server" /\ HasStub(m) =>
           /\ Len(emit_stub(m).values) = Len(args)
           /\ \A i \in DOMAIN args :
                emit_stub(m).values[i] = IF args[i].type = "n" THEN "NULL" ELSE args[i].type
      /\ side = "client" => Len(emit_event_wrapper(m)) = Len(args)
      /\ wl_message_get_since(message.signature) = version_from_since(m.since)

(* An event with a new id without an interface is accepted, and makes no   *)
(* sense to a client: it is left out too.                                  *)
GeneratedCodeAgrees(protocol) ==
  Accepted(protocol) =>
    \A i \in DOMAIN protocol :
      LET interface == wl_interface(protocol, i)
      IN  /\ \A k \in DOMAIN protocol[i].requests :
               /\ TypesAgree(protocol[i].requests[k], interface.methods[k])
               /\ CallsAgree(protocol[i].requests[k], interface.methods[k], "server")
          /\ \A k \in DOMAIN protocol[i].events :
               (\A arg \in ToSet(protocol[i].events[k].args) : ~Untyped(arg)) =>
                 /\ TypesAgree(protocol[i].events[k], interface.events[k])
                 /\ CallsAgree(protocol[i].events[k], interface.events[k], "client")
=============================================================================
