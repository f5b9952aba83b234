------------------------------- MODULE Connection -------------------------------
(***************************************************************************)
(* struct wl_connection (untitled/src/connection.c): the ring buffers of   *)
(* one end of a connection, two for bytes and two for file descriptors,    *)
(* and how closures pass through them and through a socket.                *)
(*                                                                         *)
(* A buffer holds RingWords words (1024 in the code): sizes are in words,  *)
(* of which a descriptor is one.  head and tail count words and wrap round *)
(* at RingRange, as uint32_t does at a multiple of the buffer's size.      *)
(*                                                                         *)
(* Operators that change a connection c and a socket s return a record of  *)
(* both, of what the function returns (ret, and error if that is -1), and  *)
(* of the descriptors it has closed.  The closing of a duplicate that has  *)
(* been sent is not counted: the description lives on in the socket.       *)
(***************************************************************************)
EXTENDS Scanner

CONSTANTS RingWords,     \* sizeof data / 4
          RingRange,     \* 2^32 / 4
          MAX_FDS_OUT,
          SocketWords    \* bound: words a socket takes before it blocks

ASSUME ConnectionAssumption ==
  /\ RingWords \in Nat \ {0} /\ MAX_FDS_OUT \in 1..RingWords
  /\ RingRange > RingWords /\ RingRange % RingWords = 0
  /\ SocketWords \in Nat \ {0}

MASK(i) == i % RingWords

EmptyRing == [data |-> [i \in 0..RingWords - 1 |-> 0], head |-> 0, tail |-> 0]

ring_buffer_size(b) == (b.head - b.tail) % RingRange

CanPut(words) == Len(words) <= RingWords

(* Nothing here asks whether the words overwrite others not yet read.      *)
ring_buffer_put(b, words) ==
  LET at(i) == (i - MASK(b.head)) % RingWords
  IN  [b EXCEPT !.data = [i \in DOMAIN @ |-> IF at(i) < Len(words) THEN words[at(i) + 1]
                                             ELSE @[i]],
                !.head = (@ + Len(words)) % RingRange]

(* Faulty: the free space always ends with the buffer.                     *)
PutIovPastTail(b) == <<[base |-> MASK(b.head), len |-> RingWords - MASK(b.head)]>>

(* The one or two stretches [base, len] of a buffer that are free, and     *)
(* those that are filled.                                                  *)
ring_buffer_put_iov(b) ==
  LET head == MASK(b.head)
      tail == MASK(b.tail)
  IN  IF head < tail THEN <<[base |-> head, len |-> tail - head]>>
      ELSE IF tail = 0 THEN <<[base |-> head, len |-> RingWords - head]>>
      ELSE <<[base |-> head, len |-> RingWords - head], [base |-> 0, len |-> tail]>>

ring_buffer_get_iov(b) ==
  LET head == MASK(b.head)
      tail == MASK(b.tail)
  IN  IF tail < head THEN <<[base |-> tail, len |-> head - tail]>>
      ELSE IF head = 0 THEN <<[base |-> tail, len |-> RingWords - tail]>>
      ELSE <<[base |-> tail, len |-> RingWords - tail], [base |-> 0, len |-> head]>>

(* The places in a buffer that an iov covers, in order.                    *)
Places(iov) ==
  FlattenSeq([k \in DOMAIN iov |-> [i \in 1..iov[k].len |-> iov[k].base + i - 1]])

Gather(b, places) == [i \in DOMAIN places |-> b.data[places[i]]]

Scatter(b, places, words) ==
  LET place(p) == SelectInSeq(SubSeq(places, 1, Len(words)), LAMBDA q : q = p)
      cell(p, k) == IF k = 0 THEN b.data[p] ELSE words[k]
  IN  [b EXCEPT !.data = [p \in DOMAIN @ |-> cell(p, place(p))]]

ring_buffer_copy(b, count) == [i \in 1..count |-> b.data[MASK(b.tail + i - 1)]]
consume(b, count) == [b EXCEPT !.tail = (@ + count) % RingRange]
Content(b) == ring_buffer_copy(b, ring_buffer_size(b))

-----------------------------------------------------------------------------
(* A socket in one direction: the packets sent and not yet received, and   *)
(* whether the sender and whether the receiver have closed it.  A packet's *)
(* descriptors come with its first byte, and a read ends with the packet   *)
(* that brought some.                                                      *)

EmptySocket == [packets |-> <<>>, hung_up |-> FALSE, closed |-> FALSE]

InSocket(s) == FoldLeft(LAMBDA n, packet : n + Len(packet.words), 0, s.packets)
Readable(s) == s.packets # <<>> \/ s.hung_up
Writable(s) == InSocket(s) < SocketWords \/ s.closed

sendmsg(s, words, fds) ==
  LET room == SocketWords - InSocket(s)
      packet(len) == [words |-> SubSeq(words, 1, len), fds |-> fds]
      accept(len) == [s |-> [s EXCEPT !.packets = Append(@, packet(len))],
                      len |-> len, error |-> "none"]
  IN  IF s.closed THEN [s |-> s, len |-> -1, error |-> "EPIPE"]
      ELSE IF room = 0 THEN [s |-> s, len |-> -1, error |-> "EAGAIN"]
      ELSE accept(IF Len(words) < room THEN Len(words) ELSE room)

recvmsg(s, limit) ==
  LET rest(packet, n) == IF n = Len(packet.words) THEN <<>>
                         ELSE <<[words |-> SubSeq(packet.words, n + 1, Len(packet.words)),
                                 fds |-> IF n = 0 THEN packet.fds ELSE <<>>]>>
      add(got, packet, n) == [words |-> got.words \o SubSeq(packet.words, 1, n),
                              fds   |-> IF n = 0 THEN got.fds ELSE packet.fds,
                              left  |-> got.left \o rest(packet, n)]
      room(got) == IF got.fds = <<>> THEN limit - Len(got.words) ELSE 0
      take(got, packet) == add(got, packet, IF Len(packet.words) < room(got)
                                            THEN Len(packet.words) ELSE room(got))
      result(got) == [s |-> [s EXCEPT !.packets = got.left], words |-> got.words,
                      fds |-> got.fds,
                      error |-> IF s.packets = <<>> /\ ~s.hung_up THEN "EAGAIN" ELSE "none"]
  IN  result(FoldLeft(take, [words |-> <<>>, fds |-> <<>>, left |-> <<>>], s.packets))

-----------------------------------------------------------------------------
(* Connections.                                                            *)

wl_connection_create == [in |-> EmptyRing, out |-> EmptyRing, fds_in |-> EmptyRing,
                         fds_out |-> EmptyRing, want_flush |-> FALSE]

Result(c, s, ret, error, closed) ==
  [c |-> c, s |-> s, ret |-> ret, error |-> error, closed |-> closed]

(* A buffer after closing what it holds, at most max if that is above 0,   *)
(* and what has been closed.                                               *)
close_fds(b, max) ==
  LET close(count) == [b |-> consume(b, count), closed |-> ToSet(ring_buffer_copy(b, count))]
  IN  close(IF max > 0 /\ max < ring_buffer_size(b) THEN max ELSE ring_buffer_size(b))

wl_connection_close_fds_in(c, max) ==
  [c |-> [c EXCEPT !.fds_in = close_fds(c.fds_in, max).b],
   closed |-> close_fds(c.fds_in, max).closed]

wl_connection_destroy(c) == close_fds(c.fds_out, -1).closed \cup close_fds(c.fds_in, -1).closed

build_cmsg(b) ==
  ring_buffer_copy(b, IF ring_buffer_size(b) > MAX_FDS_OUT THEN MAX_FDS_OUT
                      ELSE ring_buffer_size(b))

(* The descriptors of one packet taken in; too many for the buffer are     *)
(* closed.                                                                 *)
decode_cmsg(b, fds) ==
  IF Len(fds) > RingWords - ring_buffer_size(b)
  THEN [b |-> b, error |-> "EOVERFLOW", closed |-> ToSet(fds)]
  ELSE [b |-> ring_buffer_put(b, fds), error |-> "none", closed |-> {}]

(* One round of the loop of wl_connection_flush.                           *)
send_out(r) ==
  LET after(sent) == IF sent.len = -1 THEN [r EXCEPT !.error = sent.error, !.ret = -1]
                     ELSE [r EXCEPT !.s = sent.s,
                                    !.c.fds_out = close_fds(@, MAX_FDS_OUT).b,
                                    !.c.out = consume(@, sent.len)]
  IN  IF r.error # "none" \/ ring_buffer_size(r.c.out) = 0 THEN r
      ELSE after(sendmsg(r.s, Gather(r.c.out, Places(ring_buffer_get_iov(r.c.out))),
                         build_cmsg(r.c.fds_out)))

(* A round sends all there is or fills the socket, so two are enough to    *)
(* see the buffer empty or the socket full.                                *)
wl_connection_flush(c, s) ==
  LET end(r) == IF r.error # "none" THEN r ELSE [r EXCEPT !.c.want_flush = FALSE]
  IN  IF ~c.want_flush THEN Result(c, s, 0, "none", {})
      ELSE end(send_out(send_out(Result(c, s, ring_buffer_size(c.out), "none", {}))))

wl_connection_pending_input(c) == ring_buffer_size(c.in)

wl_connection_read(c, s) ==
  LET filled(places, got) == [Scatter(c.in, places, got.words) EXCEPT
                                !.head = (@ + Len(got.words)) % RingRange]
      read(places, got, fds) ==
        IF got.error # "none" THEN Result(c, s, -1, got.error, {})
        ELSE IF got.words = <<>> THEN Result(c, s, 0, "none", {})
        ELSE IF fds.error # "none" THEN Result(c, got.s, -1, fds.error, fds.closed)
        ELSE Result([c EXCEPT !.in = filled(places, got), !.fds_in = fds.b], got.s,
                    ring_buffer_size(c.in) + Len(got.words), "none", {})
      receive(places, got) == read(places, got, decode_cmsg(c.fds_in, got.fds))
      into(places) == receive(places, recvmsg(s, Len(places)))
  IN  IF ring_buffer_size(c.in) >= RingWords THEN Result(c, s, -1, "EOVERFLOW", {})
      ELSE into(Places(ring_buffer_put_iov(c.in)))

(* Room is made for count more words, by sending what there is, unless     *)
(* there is room.                                                          *)
make_room(c, s, count) ==
  IF ring_buffer_size(c.out) + count > RingWords
  THEN wl_connection_flush([c EXCEPT !.want_flush = TRUE], s)
  ELSE Result(c, s, 0, "none", {})

wl_connection_queue(c, s, words) ==
  LET put(room) == IF room.ret < 0 THEN room
                   ELSE IF ~CanPut(words) THEN [room EXCEPT !.ret = -1, !.error = "E2BIG"]
                   ELSE [room EXCEPT !.c.out = ring_buffer_put(@, words), !.ret = 0]
  IN  put(make_room(c, s, Len(words)))

wl_connection_write(c, s, words) ==
  LET wants_flush(r) == IF r.ret < 0 THEN r ELSE [r EXCEPT !.c.want_flush = TRUE]
  IN  wants_flush(wl_connection_queue(c, s, words))

wl_connection_put_fd(c, s, fd) ==
  LET put(room) == IF room.ret < 0 THEN room
                   ELSE [room EXCEPT !.c.fds_out = ring_buffer_put(@, <<fd>>), !.ret = 0]
  IN  put(IF ring_buffer_size(c.fds_out) = MAX_FDS_OUT
          THEN wl_connection_flush([c EXCEPT !.want_flush = TRUE], s)
          ELSE Result(c, s, 0, "none", {}))

(* The descriptors in a closure, in order.                                 *)
FdsOf(closure) ==
  SelectSeq([i \in DOMAIN closure.args |->
               IF i \in ArgsOf(closure.message, {"h"}) THEN closure.args[i][1] ELSE NoFd],
            LAMBDA fd : fd # NoFd)

(* The closure's descriptors are put in the buffer one by one.  Those left *)
(* over when that fails are closed with the closure, which all callers     *)
(* destroy.                                                                *)
copy_fds_to_connection(c, s, closure) ==
  LET failed(r, fd) == IF r.ret < 0 THEN [r EXCEPT !.closed = @ \cup {fd}] ELSE r
      put(r, fd) == failed(IF r.ret < 0 THEN r
                           ELSE [wl_connection_put_fd(r.c, r.s, fd) EXCEPT !.closed = r.closed],
                           fd)
  IN  FoldLeft(put, Result(c, s, 0, "none", {}), FdsOf(closure))

(* A closure's words written or queued, after its descriptors.             *)
Transmit(c, s, closure, now) ==
  LET write(copied, words) ==
        IF copied.ret < 0 THEN copied
        ELSE IF words = <<>> THEN [copied EXCEPT !.ret = -1, !.error = "ERANGE"]
        ELSE [(IF now THEN wl_connection_write(copied.c, copied.s, words)
              ELSE wl_connection_queue(copied.c, copied.s, words)) EXCEPT !.closed = copied.closed]
  IN  write(copy_fds_to_connection(c, s, closure),
            serialize_closure(closure, buffer_size_for_closure(closure)))

wl_closure_send(c, s, closure)  == Transmit(c, s, closure, TRUE)
wl_closure_queue(c, s, closure) == Transmit(c, s, closure, FALSE)
=============================================================================
