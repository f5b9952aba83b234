---------------------------------- MODULE Wire ----------------------------------
(***************************************************************************)
(* Messages and their form on the wire (untitled/src/connection.c): a      *)
(* closure holds the arguments of one message; its bytes are two words of  *)
(* header and the arguments, each padded to whole words, in the order of   *)
(* the message's signature.  File descriptors are not among the bytes.     *)
(*                                                                         *)
(* A signature is the sequence of its characters.  An argument is a        *)
(* sequence of numbers: one number for an integer, an object or a file     *)
(* descriptor, one for each byte of a string (its NUL left out) or of an   *)
(* array.  A byte is a number below ByteRange.                             *)
(***************************************************************************)
EXTENDS WlMap, SequencesExt

CONSTANTS ByteRange,             \* 256
          WL_CLOSURE_MAX_ARGS

ASSUME WireAssumption ==
  /\ ByteRange \in Nat \ {0, 1} /\ WL_CLOSURE_MAX_ARGS \in Nat

WordBytes  == 4
SizeFactor == 65536
NullString == <<0>>              \* no string holds the byte 0
NullArray  == <<ByteRange>>      \* and no array one out of range
NoObject   == <<0>>
NoFd       == -1

div_roundup(n, a) == (n + (a - 1)) \div a

-----------------------------------------------------------------------------
(* Signatures.                                                             *)

ArgTypes == {"i", "u", "f", "s", "o", "n", "a", "h"}
Digit    == [c \in {"0", "1", "2", "3", "4", "5", "6", "7", "8", "9"} |->
               CHOOSE d \in 0..9 : ToString(d) = c]

(* What get_next_argument finds, called until the signature ends.          *)
arguments(signature) ==
  FoldLeft(LAMBDA found, c :
             IF c \in ArgTypes
             THEN [args |-> Append(found.args, [type |-> c, nullable |-> found.nullable]),
                   nullable |-> FALSE]
             ELSE [found EXCEPT !.nullable = found.nullable \/ c = "?"],
           [args |-> <<>>, nullable |-> FALSE], signature).args

arg_count_for_signature(signature) ==
  Len(SelectSeq(signature, LAMBDA c : c \in ArgTypes))

CountOf(signature, type) == Len(SelectSeq(signature, LAMBDA c : c = type))
message_count_fds(signature)         == CountOf(signature, "h")
wl_message_count_arrays(signature)   == CountOf(signature, "a")

(* The number the signature starts with, and 1 if there is none or it is 0.*)
wl_message_get_since(signature) ==
  LET digits == FoldLeft(LAMBDA n, c : IF n.more /\ c \in DOMAIN Digit
                                       THEN [n EXCEPT !.value = 10 * @ + Digit[c]]
                                       ELSE [n EXCEPT !.more = FALSE],
                         [value |-> 0, more |-> TRUE], signature)
  IN  IF digits.value = 0 THEN 1 ELSE digits.value

(* The positions of a message's arguments that are of one of the types.    *)
ArgsOf(message, types) ==
  LET args == arguments(message.signature)
  IN  {i \in DOMAIN args : args[i].type \in types}

-----------------------------------------------------------------------------
(* Closures.                                                               *)

(* The variable arguments of a call, taken one by one by their types.      *)
wl_argument_from_va_list(signature, values, count) ==
  LET n == arg_count_for_signature(signature)
  IN  SubSeq(values, 1, IF n < count THEN n ELSE count)

wl_closure_clear_fds(closure) ==
  [closure EXCEPT !.args = [i \in DOMAIN @ |->
     IF i \in ArgsOf(closure.message, {"h"}) THEN <<NoFd>> ELSE @[i]]]

Failed(error) == [closure |-> [args |-> <<>>], error |-> error]
Made(closure) == [closure |-> closure, error |-> "none"]

wl_closure_init(message, args) ==
  IF arg_count_for_signature(message.signature) > WL_CLOSURE_MAX_ARGS
  THEN Failed("EINVAL")
  ELSE Made(wl_closure_clear_fds(
              [message |-> message, args |-> args, sender_id |-> 0, opcode |-> 0,
               proxy |-> 0]))

(* Whether a null value is refused: an array's always, whatever is said of *)
(* it in the signature.                                                    *)
RefusesNull(arg, value) ==
  CASE arg.type = "s" -> ~arg.nullable /\ value = NullString
    [] arg.type = "o" -> ~arg.nullable /\ value = NoObject
    [] arg.type = "n" -> value = NoObject
    [] arg.type = "a" -> value = NullArray
    [] OTHER -> FALSE

(* A closure for a message to be sent.  An object is named by its id, and  *)
(* dups holds the duplicates of the file descriptors in args, in order:    *)
(* too few of them if dup failed.                                          *)
wl_closure_marshal(sender_id, opcode, args, message, dups) ==
  LET nth(i) == Cardinality({j \in ArgsOf(message, {"h"}) : j <= i})
      marshal(init, wanted) ==
        IF init.error # "none" THEN init
        ELSE IF \E i \in DOMAIN wanted : RefusesNull(wanted[i], args[i]) THEN Failed("EINVAL")
        ELSE IF Len(dups) < message_count_fds(message.signature) THEN Failed("EMFILE")
        ELSE Made([init.closure EXCEPT
               !.args = [i \in DOMAIN @ |->
                           IF wanted[i].type = "h" THEN <<dups[nth(i)]>> ELSE @[i]],
               !.sender_id = sender_id, !.opcode = opcode])
  IN  marshal(wl_closure_init(message, args), arguments(message.signature))

wl_closure_vmarshal(sender_id, opcode, values, message, dups) ==
  wl_closure_marshal(sender_id, opcode,
    wl_argument_from_va_list(message.signature, values, WL_CLOSURE_MAX_ARGS),
    message, dups)

(* The descriptors a closure still owns: destroying it closes them.        *)
wl_closure_close_fds(closure) ==
  {closure.args[i][1] : i \in ArgsOf(closure.message, {"h"})} \ {NoFd}

-----------------------------------------------------------------------------
(* Bytes and words.                                                        *)

Pack(bytes) ==
  [w \in 1..div_roundup(Len(bytes), WordBytes) |->
     LET byte(k) == LET i == (w - 1) * WordBytes + k
                    IN  IF i <= Len(bytes) THEN bytes[i] ELSE 0
     IN  byte(1) + ByteRange * (byte(2) + ByteRange * (byte(3) + ByteRange * byte(4)))]

Unpack(words, length) ==
  [i \in 1..length |->
     (words[(i - 1) \div WordBytes + 1] \div ByteRange ^ ((i - 1) % WordBytes)) % ByteRange]

(* Faulty: a string's length leaves its NUL out.                           *)
SerializeWithoutNul(type, value) ==
  CASE type = "h" -> <<>>
    [] type = "s" -> IF value = NullString THEN <<0>> ELSE <<Len(value)>> \o Pack(value)
    [] type = "a" -> IF value = NullArray THEN <<0>> ELSE <<Len(value)>> \o Pack(value)
    [] OTHER -> value

(* The words one argument takes up.                                        *)
serialize_argument(type, value) ==
  CASE type = "h" -> <<>>
    [] type = "s" -> IF value = NullString THEN <<0>>
                     ELSE <<Len(value) + 1>> \o Pack(value \o <<0>>)
    [] type = "a" -> IF value = NullArray THEN <<0>> ELSE <<Len(value)>> \o Pack(value)
    [] OTHER -> value

argument_size(type, value) ==
  CASE type = "h" -> 0
    [] type = "s" -> IF value = NullString THEN 1
                     ELSE 1 + div_roundup(Len(value) + 1, WordBytes)
    [] type = "a" -> IF value = NullArray THEN 1
                     ELSE 1 + div_roundup(Len(value), WordBytes)
    [] OTHER -> 1

buffer_size_for_closure(closure) ==
  LET size(args) == FoldLeft(LAMBDA n, i : n + argument_size(args[i].type, closure.args[i]),
                             2, [i \in DOMAIN args |-> i])
  IN  size(arguments(closure.message.signature))

(* The message's words; none if they do not fit in a buffer of so many.    *)
serialize_closure(closure, buffer_count) ==
  LET body(args) == FlattenSeq([i \in DOMAIN args |->
                                  serialize_argument(args[i].type, closure.args[i])])
      headed(words) ==
        IF Len(words) + 2 > buffer_count THEN <<>>
        ELSE <<closure.sender_id, (Len(words) + 2) * WordBytes * SizeFactor + closure.opcode>>
               \o words
  IN  headed(body(arguments(closure.message.signature)))

-----------------------------------------------------------------------------
(* Reading a message.                                                      *)

(* What C reads as a string: the bytes before the first NUL.              *)
CString(bytes) == SubSeq(bytes, 1, SelectInSeq(bytes, LAMBDA b : b = 0) - 1)

HeaderOf(words) == [id     |-> words[1],
                    opcode |-> words[2] % SizeFactor,
                    size   |-> words[2] \div SizeFactor]

(* One argument read at s.words[s.p], of a message of s.words, with the    *)
(* descriptors that have arrived in s.fds and the objects in s.map.        *)
demarshal_argument(s, arg) ==
  LET left  == Len(s.words) - s.p + 1
      first == s.words[s.p]
      count == div_roundup(first, WordBytes)
      found(value, n) == [s EXCEPT !.args = Append(@, value), !.p = @ + n]
      string(bytes) == IF bytes[first] # 0 THEN [s EXCEPT !.error = "EINVAL"]
                       ELSE found(CString(bytes), 1 + count)
      bad == \/ arg.type # "h" /\ left < 1
             \/ arg.type \in {"s", "a"} /\ count > left - 1
             \/ arg.type \in {"s", "o"} /\ first = 0 /\ ~arg.nullable
             \/ arg.type = "n" /\ (first = 0 \/ ~CanReserve(s.map, first))
             \/ arg.type = "h" /\ s.fds = <<>>
  IN  CASE s.error # "none" -> s
        [] s.error = "none" /\ bad -> [s EXCEPT !.error = "EINVAL"]
        [] OTHER ->
             CASE arg.type \in {"u", "i", "f", "o"} -> found(<<first>>, 1)
               [] arg.type = "s" -> IF first = 0 THEN found(NullString, 1)
                                    ELSE string(Unpack(SubSeq(s.words, s.p + 1, s.p + count), first))
               [] arg.type = "a" ->
                    found(Unpack(SubSeq(s.words, s.p + 1, s.p + count), first), 1 + count)
               [] arg.type = "n" -> [found(<<first>>, 1) EXCEPT !.map = wl_map_reserve_new(@, first)]
               [] arg.type = "h" -> [found(<<Head(s.fds)>>, 0) EXCEPT !.fds = Tail(@)]

(* A message's closure, made of its words and of descriptors that came     *)
(* with them; the descriptors left, the map, in which the ids of the       *)
(* objects that the message creates have been set aside, and those         *)
(* descriptors that are closed with a closure given up.                    *)
wl_connection_demarshal(words, fds, map, message) ==
  LET start(init) == [words |-> words, p |-> 3, fds |-> fds, map |-> map,
                      args |-> <<>>, error |-> init.error]
      read(init) == FoldLeft(demarshal_argument, start(init),
                             IF init.error = "none" THEN arguments(message.signature) ELSE <<>>)
      closure(end) == [message |-> message, args |-> end.args,
                       sender_id |-> HeaderOf(words).id, opcode |-> HeaderOf(words).opcode,
                       proxy |-> 0]
      result(end) ==
        [error   |-> end.error,
         closure |-> IF end.error = "none" THEN closure(end) ELSE Failed(end.error).closure,
         fds     |-> end.fds,
         map     |-> end.map,
         closed  |-> IF end.error = "none" THEN {}
                     ELSE ToSet(SubSeq(fds, 1, Len(fds) - Len(end.fds)))]
  IN  IF Len(words) < 2
      THEN [error |-> "EINVAL", closure |-> Failed("EINVAL").closure,
            fds |-> fds, map |-> map, closed |-> {}]
      ELSE result(read(wl_closure_init(message, <<>>)))

ZOMBIE == 1    \* WL_MAP_ENTRY_ZOMBIE

wl_object_is_zombie(map, id) ==
  map.side = "client" /\ id < ServerStart /\ wl_map_lookup_flags(map, id) = ZOMBIE

(* The closure with the objects its ids name, or that an id names none or  *)
(* one of another interface.  What names a destroyed object becomes null.  *)
wl_closure_lookup_objects(closure, map, proxies) ==
  LET object(i) == LET id == closure.args[i][1]
                   IN  IF wl_object_is_zombie(map, id) THEN NULL ELSE wl_map_lookup(map, id)
      wrong(i) == IF object(i) = NULL
                  THEN /\ closure.args[i] # NoObject
                       /\ ~wl_object_is_zombie(map, closure.args[i][1])
                  ELSE closure.message.types[i] \notin {"", proxies[object(i)].interface}
      named == ArgsOf(closure.message, {"o"})
  IN  IF \E i \in named : wrong(i) THEN Failed("EINVAL")
      ELSE Made([closure EXCEPT !.args = [i \in DOMAIN @ |->
             IF i \notin named THEN @[i]
             ELSE IF object(i) = NULL THEN NoObject ELSE <<object(i)>>]])

(* The C types an argument list is passed as: an object that a message     *)
(* creates is its proxy to a client and its id to a server.                *)
convert_arguments_to_ffi(signature, side) ==
  LET args    == arguments(signature)
      type(t) == CASE t \in {"i", "f", "h"} -> "sint32"
                   [] t = "u" -> "uint32"
                   [] t = "n" -> IF side = "client" THEN "pointer" ELSE "uint32"
                   [] t \in {"s", "o", "a"} -> "pointer"
  IN  [i \in DOMAIN args |-> type(args[i].type)]

(* What a handler is called with, wl_closure_invoke and wl_closure_dispatch*)
(* alike; the descriptors are the handler's from then on.                  *)
wl_closure_invoke(closure) == wl_closure_clear_fds(closure)
=============================================================================
