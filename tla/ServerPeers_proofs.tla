--------------------------- MODULE ServerPeers_proofs ---------------------------
(***************************************************************************)
(* Proofs about what those outside may rely on, for any clients, scenarios,*)
(* ids and sizes, and any servers and names they try.                      *)
(*                                                                         *)
(* Registries are told of the globals there are (WaylandServer): AgreeInv  *)
(* says what they have been told of while the library tells them, and that *)
(* nothing has been told to those still to come.                           *)
(*                                                                         *)
(* A client that keeps to the protocol gets no error for what it had a     *)
(* right to ask (WaylandServer).  HonestInv says of whatever clients have  *)
(* been told and of all their requests, in whatever queue they are, that   *)
(* they are justified: a name that has been announced stays one that may be*)
(* bound until its global has been destroyed, and a request is about an    *)
(* object that is there or that a request ahead of it binds.               *)
(*                                                                         *)
(* A name leads to its server because the lock does (SocketNames): as long *)
(* as no server has locked an unlinked file, a lock is on the file its name*)
(* leads to, and so only one server at a time is past flock() with a name. *)
(* Only that server unlinks or binds the name, and wl_socket_destroy       *)
(* unlinks what the server holds and nothing else.                         *)
(***************************************************************************)
EXTENDS Server_proofs, SocketNames

-----------------------------------------------------------------------------
(* What registries have been told.                                         *)

LEMMA ToldNothing ==
  \A id : Told(<< >>, id) = {}
BY EmptySequence DEF Told

LEMMA ToldAppended ==
  ASSUME NEW s, IsSequence(s), NEW e, NEW id
  PROVE  Told(Append(s, e), id) =
           IF e.obj # id THEN Told(s, id)
           ELSE IF e.op = "global" THEN Told(s, id) \cup {e.arg}
           ELSE Told(s, id) \ {e.arg}
<1> DEFINE t        == Append(s, e)
           n        == Len(s) + 1
           Mine(q)  == {i \in DOMAIN q : q[i].obj = id}
           Now(q)   == {i \in Mine(q) : /\ q[i].op = "global"
                                        /\ \A k \in Mine(q) : i < k => q[k].arg # q[i].arg}
<1>1. Len(s) \in Nat /\ DOMAIN s = 1..Len(s)
  BY SequenceIs
<1>2. DOMAIN t = 1..n /\ t[n] = e /\ \A i \in 1..Len(s) : t[i] = s[i]
  BY SequenceAppend
<1>3. 1..n = 1..Len(s) \cup {n} /\ \A i \in 1..Len(s) : i # n /\ i < n /\ ~(n < i)
  BY <1>1
<1>4. ~(n < n)
  BY <1>1
<1> HIDE DEF t, n
<1>5. Mine(t) = Mine(s) \cup (IF e.obj = id THEN {n} ELSE {})
  BY <1>1, <1>2, <1>3
<1>6. Mine(s) \subseteq 1..Len(s)
  BY <1>1
<1>7. Told(t, id) = {t[i].arg : i \in Now(t)} /\ Told(s, id) = {s[i].arg : i \in Now(s)}
  BY DEF Told
<1>8. \A i \in 1..Len(s) : t[i] = s[i] /\ i # n /\ i < n /\ ~(n < i)
  BY <1>2, <1>3
<1> DEFINE M == Mine(s)
           N == Mine(t)
<1>9. /\ Now(s) = {i \in M : s[i].op = "global" /\ \A k \in M : i < k => s[k].arg # s[i].arg}
      /\ Now(t) = {i \in N : t[i].op = "global" /\ \A k \in N : i < k => t[k].arg # t[i].arg}
  OBVIOUS
<1>10. M \subseteq 1..Len(s) /\ N = M \cup (IF e.obj = id THEN {n} ELSE {})
  BY <1>5, <1>6
<1> HIDE DEF M, N, Now, Mine
<1>11. CASE e.obj # id
  <2>1. Now(t) = Now(s)
    <3>1. N = M
      BY <1>10, <1>11
    <3>2. \A i \in M : t[i] = s[i]
      BY <1>8, <1>10
    <3>3. \A i \in M : i \in Now(t) <=> i \in Now(s)
      BY <1>9, <3>1, <3>2
    <3>4. QED
      BY <1>9, <3>1, <3>3
  <2>2. \A i \in Now(s) : t[i] = s[i]
    BY <1>8, <1>9, <1>10
  <2>3. Told(t, id) = {s[i].arg : i \in Now(s)}
    BY <1>7, <2>1, <2>2
  <2>4. QED
    BY <1>7, <1>11, <2>3 DEF t
<1>12. CASE e.obj = id
  <2>1. N = M \cup {n}
    BY <1>10, <1>12
  <2>2. ASSUME NEW i \in M
        PROVE  i \in Now(t) <=> i \in Now(s) /\ s[i].arg # e.arg
    <3>1. /\ i \in N /\ i < n /\ t[i] = s[i] /\ t[n] = e /\ n \in N
          /\ \A k \in M : t[k] = s[k] /\ k \in N
      BY <1>2, <1>8, <1>10, <2>1
    <3>2. i \in Now(s) <=> s[i].op = "global" /\ \A k \in M : i < k => s[k].arg # s[i].arg
      BY <1>9
    <3>3. i \in Now(t) <=> t[i].op = "global" /\ \A k \in N : i < k => t[k].arg # t[i].arg
      BY <1>9, <3>1
    <3>4. (\A k \in N : i < k => t[k].arg # t[i].arg)
            <=> (\A k \in M : i < k => s[k].arg # s[i].arg) /\ e.arg # s[i].arg
      BY <2>1, <3>1
    <3>5. QED
      BY <3>1, <3>2, <3>3, <3>4
  <2>3. n \in Now(t) <=> e.op = "global"
    <3>1. \A k \in N : ~(n < k)
      BY <1>4, <1>8, <1>10, <2>1
    <3>2. QED
      BY <1>2, <1>9, <2>1, <3>1
  <2>4. Now(t) = {i \in Now(s) : s[i].arg # e.arg} \cup (IF e.op = "global" THEN {n} ELSE {})
    <3>1. Now(t) \subseteq M \cup {n} /\ Now(s) \subseteq M /\ n \notin M
      BY <1>8, <1>9, <1>10, <2>1
    <3>2. QED
      BY <2>2, <2>3, <3>1
  <2>5. \A i \in Now(s) : t[i] = s[i]
    BY <1>8, <1>9, <1>10
  <2>6. t[n] = e
    BY <1>2
  <2>7. Told(t, id) = (Told(s, id) \ {e.arg}) \cup (IF e.op = "global" THEN {e.arg} ELSE {})
    <3>1. Told(s, id) \ {e.arg} = {s[i].arg : i \in {j \in Now(s) : s[j].arg # e.arg}}
      BY <1>7
    <3>2. {t[i].arg : i \in {j \in Now(s) : s[j].arg # e.arg}} = Told(s, id) \ {e.arg}
      BY <2>5, <3>1
    <3>3. QED
      BY <1>7, <2>4, <2>6, <3>2
  <2>8. CASE e.op = "global"
    BY <1>12, <2>7, <2>8 DEF t
  <2>9. CASE e.op # "global"
    BY <1>12, <2>7, <2>9 DEF t
  <2>10. QED
    BY <2>8, <2>9
<1>13. QED
  BY <1>11, <1>12

-----------------------------------------------------------------------------
(* What registries are told.  Names of globals begin with 1; other events  *)
(* are of the display, or carry 0 for a name.                              *)

IsGlobal(g, next) ==
  {"name", "interface", "removed"} \subseteq DOMAIN g /\ g.name \in Nat \ {0} /\ g.name < next

Distinct(list) ==
  IsInjective(list) /\ \A g, h \in ToSet(list) : g.name = h.name => g = h

(* The names that registry r has not been told of yet, or has been told to *)
(* be gone while they are not yet, under frame f.                          *)
Lacks(f, r) ==
  IF f.at = "announce" /\ (f.op = "global" <=> r \in ToSet(f.rest)) THEN {f.g.name}
  ELSE IF f.at = "tell" /\ f.c = r.c /\ f.id = r.id THEN Names(f.rest)
  ELSE {}

(* What a function that tells registries knows.                            *)
Teller(f) ==
  /\ f.at = "announce" =>
       /\ {"op", "g"} \subseteq DOMAIN f /\ IsInjective(f.rest)
       /\ f.g \in ToSet(display.globals) /\ ~f.g.removed
  /\ f.at = "tell" =>
       f.id \in Ids /\ client[f.c].objects[f.id] = "registry" /\ IsInjective(f.rest)

Asked(cl) == ToSet(cl.pending) \cup ToSet(cl.to_server)

(* Nothing has been told to registries that are still to come.             *)
Untold(cl, got, last) ==
  \A k \in Ids \ {Display} : Told(Speech(cl, got), k) # {} =>
    k <= last /\ \A r \in Asked(cl) : Creates(r) => r.new # k

AgreeInv ==
  /\ display.id # 0
  /\ \A g \in ToSet(display.globals) : IsGlobal(g, display.id)
  /\ Distinct(display.globals)
  /\ Teller(Top)
  /\ \A r \in ToSet(display.registries) : ~client[r.c].error =>
       Told(Speech(client[r.c], peer[r.c].got), r.id) = Offered(r.c) \ Lacks(Top, r)
  /\ \A c \in Clients : ~client[c].error => Untold(client[c], peer[c].got, peer[c].last)

(* Registries are told nothing, unless there is an error.                  *)
Hears(cl, got, cl2, got2) ==
  ~cl2.error =>
    /\ ~cl.error
    /\ \A k \in Ids \ {Display} :
         /\ Told(Speech(cl2, got2), k) \subseteq Told(Speech(cl, got), k)
         /\ Told(Speech(cl, got), k) \ {0} \subseteq Told(Speech(cl2, got2), k)

Harmless(e) == e.op # "global" /\ (e.obj = Display \/ e.arg = 0)

LEMMA HearsContinues ==
  ASSUME NEW cl, NEW got, NEW cl2, NEW got2, Continues(cl, got, cl2, got2)
  PROVE  Hears(cl, got, cl2, got2)
BY DEF Continues, Hears

LEMMA HearsOn ==
  ASSUME NEW cl, NEW got, NEW cl2, NEW got2, NEW cl3, NEW got3,
         Hears(cl, got, cl2, got2), Hears(cl2, got2, cl3, got3)
  PROVE  Hears(cl, got, cl3, got3)
BY DEF Hears

LEMMA HearsSame ==
  ASSUME NEW cl, NEW cl2, NEW got, cl2.out = cl.out, cl2.to_client = cl.to_client,
         cl.error => cl2.error
  PROVE  Hears(cl, got, cl2, got)
BY DEF Hears, Speech

LEMMA HearsAppended ==
  ASSUME NEW cl, NEW space, IsClient(cl, space), NEW got, IsSequence(got), NEW cl2, NEW e,
         Harmless(e), ~cl.error, Speech(cl2, got) = Append(Speech(cl, got), e)
  PROVE  Hears(cl, got, cl2, got)
<1> DEFINE s == Speech(cl, got)
<1>1. IsSequence(s)
  BY SpeechIs
<1> HIDE DEF s
<1>2. ASSUME NEW k \in Ids \ {Display}
      PROVE  /\ Told(Append(s, e), k) \subseteq Told(s, k)
             /\ Told(s, k) \ {0} \subseteq Told(Append(s, e), k)
  BY <1>1, ToldAppended DEF Harmless
<1>3. QED
  BY <1>2 DEF Hears, s

(* An event is added, unless there is an error.                            *)
LEMMA PostTells ==
  ASSUME Types, NEW cl, IsClient(cl, Played.socket_space), NEW got, IsSequence(got),
         NEW event, NEW now, ~handle_array(cl, event, now).error
  PROVE  ~cl.error /\ Speech(handle_array(cl, event, now), got) = Append(Speech(cl, got), event)
<1> DEFINE space  == Played.socket_space
           wanted == [cl EXCEPT !.want_flush = TRUE]
           after  == IF Len(cl.out) < OutSpace THEN [cl |-> cl, ret |-> "ok"]
                     ELSE wl_client_flush(wanted)
           failed == [after.cl EXCEPT !.error = TRUE]
           put    == [after.cl EXCEPT !.out = Append(@, event), !.want_flush = @ \/ now]
           p      == handle_array(cl, event, now)
<1>1. p = IF cl.error THEN cl ELSE IF after.ret # "ok" THEN failed ELSE put
  BY DEF handle_array
<1>2. ClientFields \subseteq DOMAIN cl
  BY DEF IsClient
<1>3. /\ IsClient(wanted, space) /\ wanted.out = cl.out /\ wanted.to_client = cl.to_client
      /\ wanted.error = cl.error
  <2>1. /\ DOMAIN wanted = DOMAIN cl /\ wanted.want_flush
        /\ \A x \in ClientFields \ {"want_flush"} : wanted[x] = cl[x]
    BY <1>2
  <2>2. /\ wanted.out = cl.out /\ wanted.to_client = cl.to_client /\ wanted.error = cl.error
        /\ wanted.life = cl.life /\ wanted.objects = cl.objects
        /\ wanted.pending = cl.pending /\ wanted.to_server = cl.to_server
    BY <2>1 DEF ClientFields
  <2> HIDE DEF wanted
  <2>3. IsClient(wanted, space)
    BY <2>1, <2>2 DEF IsClient
  <2>4. QED
    BY <2>2, <2>3
<1>4. Speech(wanted, got) = Speech(cl, got)
  BY <1>3 DEF Speech
<1> HIDE DEF wanted
<1>5. IsClient(after.cl, space) /\ Speech(after.cl, got) = Speech(cl, got)
  <2>1. CASE Len(cl.out) < OutSpace
    BY <2>1
  <2>2. CASE ~(Len(cl.out) < OutSpace)
    <3>1. /\ IsClient(wl_client_flush(wanted).cl, space)
          /\ Continues(wanted, got, wl_client_flush(wanted).cl, got)
      BY <1>3, Flushed, FlushContinues
    <3>2. QED
      BY <1>4, <2>2, <3>1 DEF Continues
  <2>3. QED
    BY <2>1, <2>2
<1> HIDE DEF after, space
<1>6. /\ ClientFields \subseteq DOMAIN after.cl
      /\ IsSequence(after.cl.out) /\ IsSequence(after.cl.to_client)
  BY <1>5 DEF IsClient
<1>7. failed.error
  BY <1>6 DEF ClientFields
<1>8. Speech(put, got) = Append(Speech(cl, got), event)
  <2>1. put.out = Append(after.cl.out, event) /\ put.to_client = after.cl.to_client
    BY <1>6 DEF ClientFields
  <2> HIDE DEF put
  <2> DEFINE said == got \o after.cl.to_client
             out  == after.cl.out
  <2>2. IsSequence(said) /\ IsSequence(out)
    BY <1>6, SequenceConcat
  <2> HIDE DEF said, out
  <2>3. said \o Append(out, event) = Append(said \o out, event)
    BY <2>2, JoinAppend
  <2>4. QED
    BY <1>5, <2>1, <2>3 DEF Speech, said, out
<1> HIDE DEF failed, put
<1>9. ~p.error
  OBVIOUS
<1> HIDE DEF p
<1>10. ~cl.error /\ p = put
  BY <1>1, <1>7, <1>9
<1>11. QED
  BY <1>8, <1>10 DEF p

LEMMA PostHears ==
  ASSUME Types, NEW cl, IsClient(cl, Played.socket_space), NEW got, IsSequence(got),
         NEW event, Harmless(event), NEW now
  PROVE  Hears(cl, got, handle_array(cl, event, now), got)
<1> DEFINE p == handle_array(cl, event, now)
<1>1. ~p.error => ~cl.error /\ Speech(p, got) = Append(Speech(cl, got), event)
  BY PostTells
<1> HIDE DEF p
<1>2. CASE p.error
  BY <1>2 DEF Hears, p
<1>3. CASE ~p.error
  BY <1>1, <1>3, HearsAppended DEF p
<1>4. QED
  BY <1>2, <1>3

LEMMA ErrorHears ==
  ASSUME Types, NEW cl, IsClient(cl, Played.socket_space), NEW got, IsSequence(got), NEW why
  PROVE  Hears(cl, got, wl_resource_post_error(cl, why), got)
<1> DEFINE told == handle_array(cl, Event("error", Display, why), TRUE)
           last == [told EXCEPT !.error = TRUE]
           p    == wl_resource_post_error(cl, why)
<1>1. p = IF cl.error \/ ~cl.display_resource THEN cl ELSE last
  BY DEF wl_resource_post_error, wl_resource_post_event
<1>2. IsClient(told, Played.socket_space)
  BY Posted
<1> HIDE DEF told, p
<1>3. last.error
  BY <1>2 DEF IsClient, ClientFields
<1> HIDE DEF last
<1>4. Hears(cl, got, cl, got)
  BY HearsSame
<1>5. p.error \/ p = cl
  BY <1>1, <1>3
<1>6. Hears(cl, got, p, got)
  BY <1>4, <1>5 DEF Hears
<1>7. QED
  BY <1>6 DEF p

-----------------------------------------------------------------------------
(* What steps leave of this.                                               *)

Silent(f) == f.at \notin {"announce", "tell"}

SameGlobals == display'.globals = display.globals /\ display'.id = display.id

(* A client's registries are told nothing, and it asks for nothing that has*)
(* been told already.                                                      *)
Listens(cl, got, cl2, got2) ==
  \/ Hears(cl, got, cl2, got2)
  \/ cl.life = "none" /\ \A k : Told(Speech(cl2, got2), k) = {}

AsksAfter(cl, cl2, last) ==
  \A r \in Asked(cl2) : Creates(r) => r \in Asked(cl) \/ (r.new = last + 1 /\ last \in Nat)

Heard(c) ==
  /\ Listens(client[c], peer[c].got, client'[c], peer'[c].got)
  /\ AsksAfter(client[c], client'[c], peer[c].last)
  /\ peer'[c].last \in {peer[c].last, peer[c].last + 1}

LEMMA TopGoto ==
  ASSUME StackShape, NEW f, Goto(f)
  PROVE  Top' = f
BY Gone DEF Top, Last

LEMMA TopCall ==
  ASSUME StackShape, NEW f, NEW after, Call(f, after)
  PROVE  Top' = f
BY Called DEF Top, Last

LEMMA TopReturn ==
  ASSUME ListenersInv, MemoryInv, Return, Top.at \notin Base
  PROVE  Silent(Top')
<1>1. StackShape /\ FramesInv /\ Len(stack) \in Nat \ {0} /\ DOMAIN stack = 1..Len(stack)
  BY StackNow DEF ListenersInv, MemoryInv, UseInv
<1>2. Fits(Top, Len(stack))
  BY <1>1, StackIs
<1>3. Len(stack) - 1 \in 1..Len(stack) /\ Len(stack) - 1 # Len(stack)
  <2>1. Len(stack) # 1
    BY <1>1, <1>2 DEF Fits
  <2>2. \A n \in Nat \ {0} : n # 1 => n - 1 \in 1..n /\ n - 1 # n
    OBVIOUS
  <2>3. QED
    BY <1>1, <2>1, <2>2
<1>4. /\ Len(stack') = Len(stack) - 1 /\ Len(stack) - 1 \in DOMAIN stack'
      /\ stack'[Len(stack) - 1] = stack[Len(stack) - 1]
  BY <1>1, <1>3, Returned
<1>5. stack[Len(stack) - 1].at \notin Innermost
  BY <1>1, <1>3 DEF FramesInv
<1>6. QED
  BY <1>4, <1>5 DEF Top, Last, Silent, Innermost

LEMMA LacksNothing ==
  ASSUME NEW f, Silent(f)
  PROVE  \A r : Lacks(f, r) = {}
BY DEF Silent, Lacks

LEMMA OfferedSame ==
  ASSUME UNCHANGED scenario, display'.globals = display.globals
  PROVE  \A c : Offered(c)' = Offered(c)
BY DEF Offered, wl_global_is_visible, Played

LEMMA OfferedNames ==
  ASSUME AgreeInv, NEW c
  PROVE  0 \notin Offered(c)
BY DEF AgreeInv, Offered, IsGlobal

LEMMA UntoldKept ==
  ASSUME NEW cl, NEW got, NEW last \in Ids, ~cl.error => Untold(cl, got, last),
         NEW cl2, NEW got2, NEW last2 \in {last, last + 1}, Listens(cl, got, cl2, got2),
         AsksAfter(cl, cl2, last), ~cl2.error
  PROVE  Untold(cl2, got2, last2)
<1>1. CASE \A k : Told(Speech(cl2, got2), k) = {}
  BY <1>1 DEF Untold
<1>2. CASE Hears(cl, got, cl2, got2)
  <2> SUFFICES ASSUME NEW k \in Ids \ {Display}, Told(Speech(cl2, got2), k) # {}
               PROVE  k <= last2 /\ \A r \in Asked(cl2) : Creates(r) => r.new # k
    BY DEF Untold
  <2>1. k <= last /\ \A r \in Asked(cl) : Creates(r) => r.new # k
    BY <1>2 DEF Hears, Untold
  <2>2. k \in Nat /\ last \in Nat
    BY DEF Ids
  <2>3. k <= last2 /\ k # last + 1
    BY <2>1, <2>2
  <2>4. QED
    BY <2>1, <2>3 DEF AsksAfter
<1>3. QED
  BY <1>1, <1>2 DEF Listens

LEMMA AgreeKept ==
  ASSUME MemoryInv, AgreeInv, UNCHANGED scenario, SameGlobals,
         ToSet(display'.registries) \subseteq ToSet(display.registries), Teller(Top)',
         \A r \in ToSet(display'.registries) :
           Offered(r.c) \ Lacks(Top', r) = Offered(r.c) \ Lacks(Top, r),
         \A c \in Clients : Heard(c)
  PROVE  AgreeInv'
<1>1. ASSUME NEW c \in Clients, ~client'[c].error
      PROVE  Untold(client'[c], peer'[c].got, peer'[c].last)
  <2>1. peer[c].last \in Ids /\ (~client[c].error => Untold(client[c], peer[c].got, peer[c].last))
    BY DEF AgreeInv, MemoryInv, Types, IsPeer
  <2>2. /\ Listens(client[c], peer[c].got, client'[c], peer'[c].got)
        /\ AsksAfter(client[c], client'[c], peer[c].last)
        /\ peer'[c].last \in {peer[c].last, peer[c].last + 1}
    BY DEF Heard
  <2>3. QED
    BY <1>1, <2>1, <2>2, UntoldKept
<1>2. ASSUME NEW r \in ToSet(display'.registries), ~client'[r.c].error
      PROVE  Told(Speech(client'[r.c], peer'[r.c].got), r.id) = Offered(r.c) \ Lacks(Top', r)
  <2>1. /\ r \in ToSet(display.registries) /\ r.c \in Clients /\ r.id \in Ids
        /\ Lives(client[r.c]) /\ client[r.c].objects[r.id] = "registry" /\ DisplayIs(client[r.c])
    BY DEF MemoryInv, UseInv, ObjectsInv, Registered
  <2>2. r.id # Display
    BY <2>1 DEF DisplayIs
  <2>3. Hears(client[r.c], peer[r.c].got, client'[r.c], peer'[r.c].got)
    BY <2>1 DEF Heard, Listens, Lives
  <2> DEFINE old == Told(Speech(client[r.c], peer[r.c].got), r.id)
             new == Told(Speech(client'[r.c], peer'[r.c].got), r.id)
  <2>4. ~client[r.c].error /\ new \subseteq old /\ old \ {0} \subseteq new
    BY <1>2, <2>1, <2>2, <2>3 DEF Hears
  <2>5. old = Offered(r.c) \ Lacks(Top, r)
    BY <2>1, <2>4 DEF AgreeInv
  <2>6. 0 \notin old
    BY <2>5, OfferedNames
  <2> HIDE DEF old, new
  <2>7. new = Offered(r.c) \ Lacks(Top', r)
    BY <2>4, <2>5, <2>6
  <2>8. QED
    BY <2>7 DEF new
<1>3. \A c : Offered(c)' = Offered(c)
  BY OfferedSame DEF SameGlobals
<1>4. \A r \in ToSet(display'.registries) : ~client'[r.c].error =>
        Told(Speech(client'[r.c], peer'[r.c].got), r.id) = (Offered(r.c) \ Lacks(Top, r))'
  BY <1>2, <1>3
<1>5. /\ display'.id # 0 /\ (\A g \in ToSet(display.globals) : IsGlobal(g, display.id))'
      /\ Distinct(display.globals)'
  BY DEF AgreeInv, SameGlobals
<1>6. QED
  BY <1>1, <1>4, <1>5 DEF AgreeInv

(* Nobody tells registries anything.                                       *)
LEMMA AgreeQuiet ==
  ASSUME MemoryInv, AgreeInv, UNCHANGED scenario, SameGlobals,
         ToSet(display'.registries) \subseteq ToSet(display.registries),
         Silent(Top), Silent(Top'), \A c \in Clients : Heard(c)
  PROVE  AgreeInv'
<1>1. \A r : Lacks(Top', r) = Lacks(Top, r)
  BY LacksNothing
<1>2. Teller(Top)'
  BY DEF Teller, Silent
<1>3. QED
  BY <1>1, <1>2, AgreeKept

(* Something happens outside.                                              *)
LEMMA AgreeOutside ==
  ASSUME ListenersInv, MemoryInv, AgreeInv, UNCHANGED <<scenario, stack>>, SameGlobals,
         display'.registries = display.registries,
         \A c \in Clients : client'[c].objects = client[c].objects,
         \A c \in Clients : Heard(c)
  PROVE  AgreeInv'
<1>1. Top' = Top
  BY DEF Top
<1>2. Top.at = "tell" => Top.c \in Clients
  BY TopSuits DEF MemoryInv, Suits, Known, ForClient
<1>3. Teller(Top)'
  BY <1>1, <1>2 DEF Teller, AgreeInv, SameGlobals
<1>4. QED
  BY <1>1, <1>3, AgreeKept

LEMMA HeardSame ==
  ASSUME NEW c, client'[c] = client[c], peer'[c].got = peer[c].got, peer'[c].last = peer[c].last
  PROVE  Heard(c)
BY DEF Heard, Listens, Hears, AsksAfter

(* One client is written to, or read from.                                 *)
LEMMA OneHeard ==
  ASSUME MemoryInv, UNCHANGED peer, NEW c \in Clients, NEW cl,
         client' = [client EXCEPT ![c] = cl],
         Listens(client[c], peer[c].got, cl, peer[c].got),
         Asked(cl) \subseteq Asked(client[c])
  PROVE  \A d \in Clients : Heard(d)
<1>1. client'[c] = cl /\ \A d \in Clients : d # c => client'[d] = client[d]
  BY OneClient DEF MemoryInv
<1>2. Heard(c)
  BY <1>1 DEF Heard, AsksAfter
<1>3. QED
  BY <1>1, <1>2, HeardSame

SameRest == SameGlobals /\ display'.registries = display.registries

LEMMA SameRestIf ==
  ASSUME MemoryInv
  PROVE  /\ display' = display => SameRest
         /\ DisplayFields \subseteq DOMAIN display
BY DEF MemoryInv, Types, IsDisplay, SameRest, SameGlobals

LEMMA SilentGoto ==
  ASSUME ListenersInv, NEW f, Goto(f), Silent(f)
  PROVE  Silent(Top')
BY TopGoto DEF ListenersInv

LEMMA SilentCall ==
  ASSUME ListenersInv, NEW f, NEW after, Call(f, after), Silent(f)
  PROVE  Silent(Top')
BY TopCall DEF ListenersInv

LEMMA SilentSame ==
  ASSUME UNCHANGED stack, Silent(Top)
  PROVE  Silent(Top')
BY DEF Top

LEMMA AllHeard ==
  ASSUME UNCHANGED client,
         \A c \in Clients : peer'[c].got = peer[c].got /\ peer'[c].last = peer[c].last
  PROVE  \A c \in Clients : Heard(c)
BY HeardSame

(* Only the stack changes, and the loop's state.                           *)
LEMMA StillAgree ==
  ASSUME MemoryInv, AgreeInv, UNCHANGED <<scenario, client>>, SameRest, Silent(Top), Silent(Top'),
         \A c \in Clients : peer'[c].got = peer[c].got /\ peer'[c].last = peer[c].last
  PROVE  AgreeInv'
BY AllHeard, AgreeQuiet DEF SameRest

LEMMA LoopAgree ==
  ASSUME ListenersInv, MemoryInv, AgreeInv,
         wl_display_run \/ LoopTest \/ FlushNext \/ Poll \/ DispatchEnds
  PROVE  AgreeInv'
<1>1. UNCHANGED <<client, scenario, peer>> /\ Silent(Top)
  BY DEF wl_display_run, LoopTest, FlushNext, Poll, DispatchEnds, otherVars, At, Silent
<1>2. SameRest
  <2>1. CASE wl_display_run
    BY <2>1, SameRestIf DEF wl_display_run, DisplayFields, SameRest, SameGlobals
  <2>2. QED
    BY <2>1, SameRestIf DEF LoopTest, FlushNext, Poll, DispatchEnds
<1>3. ASSUME wl_display_run PROVE Silent(Top')
  BY <1>3, SilentCall DEF wl_display_run, Frame, Silent
<1>4. ASSUME LoopTest PROVE Silent(Top')
  <2>1. Top.at \notin Base
    BY <1>4 DEF LoopTest, At, Base
  <2>2. QED
    BY <1>4, <2>1, SilentCall, TopReturn DEF LoopTest, Frame, Flushing, Silent
<1>5. ASSUME FlushNext PROVE Silent(Top')
  BY <1>5, SilentGoto DEF FlushNext, Flushing, Silent
<1>6. ASSUME Poll PROVE Silent(Top')
  BY <1>6, SilentGoto DEF Poll, Dispatching, Silent
<1>7. ASSUME DispatchEnds PROVE Silent(Top')
  BY <1>7, SilentGoto DEF DispatchEnds, Frame, Silent
<1>8. Silent(Top')
  BY <1>3, <1>4, <1>5, <1>6, <1>7
<1>9. QED
  BY <1>1, <1>2, <1>8, StillAgree

LEMMA DispatchSourceAgree ==
  ASSUME ListenersInv, MemoryInv, AgreeInv, DispatchSource
  PROVE  AgreeInv'
<1>1. UNCHANGED <<client, scenario>> /\ Silent(Top)
  BY DEF DispatchSource, At, Silent
<1>2. PICK r \in Top.ready :
        LET rest == Dispatching(Top.ready \ {r})
        IN  \/ Goto(rest) /\ UNCHANGED peer
            \/ Call(Handler(NULL, 0), rest) /\ UNCHANGED peer
            \/ /\ Call(Frame("client_create", r.c), rest)
               /\ peer' = [peer EXCEPT ![r.c].connects = FALSE]
            \/ Call(Reading(r.c, r.mask), rest) /\ UNCHANGED peer
  BY DEF DispatchSource
<1>3. Silent(Top')
  BY <1>2, SilentGoto, SilentCall DEF Dispatching, Handler, Frame, FrameOf, Reading, Silent
<1>4. \A c \in Clients : peer'[c].got = peer[c].got /\ peer'[c].last = peer[c].last
  BY <1>2 DEF MemoryInv, Types, IsPeer
<1>5. SameRest
  <2>1. display' = [display EXCEPT !.efd = FALSE] => SameRest
    BY SameRestIf DEF DisplayFields, SameRest, SameGlobals
  <2>2. QED
    BY <2>1, SameRestIf DEF DispatchSource
<1>6. QED
  BY <1>1, <1>3, <1>4, <1>5, StillAgree

LEMMA QuietAgree ==
  ASSUME ListenersInv, MemoryInv, AgreeInv,
         \/ wl_priv_signal_emit \/ RequestsEnd \/ wl_resource_destroy \/ destroy_resource
         \/ EachResource \/ wl_display_destroy_clients \/ DestroyDetached \/ HandlerReturns
  PROVE  AgreeInv'
<1>1. UNCHANGED <<client, scenario, peer>> /\ Silent(Top)
  BY DEF wl_priv_signal_emit, RequestsEnd, wl_resource_destroy, destroy_resource, EachResource,
     wl_display_destroy_clients, DestroyDetached, HandlerReturns, otherVars, At, Silent
<1>2. SameRest
  <2>1. CASE wl_priv_signal_emit
    BY <2>1, SameRestIf DEF wl_priv_signal_emit, DisplayFields, SameRest, SameGlobals
  <2>2. CASE wl_display_destroy_clients
    BY <2>2, SameRestIf DEF wl_display_destroy_clients, DisplayFields, SameRest, SameGlobals
  <2>3. QED
    BY <2>1, <2>2, SameRestIf
       DEF RequestsEnd, wl_resource_destroy, destroy_resource, EachResource, DestroyDetached,
           HandlerReturns
<1>3. ASSUME wl_priv_signal_emit PROVE Silent(Top')
  <2>1. Top.at \notin Base
    BY <1>3 DEF wl_priv_signal_emit, At, Base
  <2>2. QED
    BY <1>3, <2>1, SilentCall, TopReturn DEF wl_priv_signal_emit, Handler, FrameOf, Silent
<1>4. ASSUME RequestsEnd PROVE Silent(Top')
  <2>1. Top.at \notin Base
    BY <1>4 DEF RequestsEnd, At, Base
  <2>2. QED
    BY <1>4, <2>1, SilentGoto, TopReturn DEF RequestsEnd, Frame, Silent
<1>5. ASSUME wl_resource_destroy PROVE Silent(Top')
  BY <1>5, SilentCall DEF wl_resource_destroy, FrameOf, Silent
<1>6. ASSUME destroy_resource PROVE Silent(Top')
  BY <1>6, SilentCall, SilentGoto DEF destroy_resource, Handler, FrameOf, Silent
<1>7. ASSUME EachResource PROVE Silent(Top')
  <2>1. CASE Goto([Top EXCEPT !.id = @ + 1])
    <3> DEFINE f == [Top EXCEPT !.id = @ + 1]
    <3>1. Top.at = "client_resources" /\ "at" \in DOMAIN Top
      BY <1>7, TopAt DEF EachResource, At, Known
    <3>2. f.at = "client_resources"
      BY <3>1
    <3> HIDE DEF f
    <3>3. QED
      BY <2>1, <3>2, SilentGoto DEF Silent, f
  <2>2. CASE Call(FrameOf("destroy_resource", Top.c, Top.id), [Top EXCEPT !.id = @ + 1])
    BY <2>2, SilentCall DEF FrameOf, Silent
  <2>3. QED
    BY <1>7, <2>1, <2>2 DEF EachResource
<1>8. ASSUME wl_display_destroy_clients \/ DestroyDetached PROVE Silent(Top')
  BY <1>8, SilentGoto, SilentCall DEF wl_display_destroy_clients, DestroyDetached, Frame, Silent
<1>9. ASSUME HandlerReturns PROVE Silent(Top')
  <2>1. Top.at \notin Base
    BY <1>9 DEF HandlerReturns, At, Base
  <2>2. QED
    BY <1>9, <2>1, TopReturn DEF HandlerReturns
<1>10. Silent(Top')
  BY <1>3, <1>4, <1>5, <1>6, <1>7, <1>8, <1>9
<1>11. QED
  BY <1>1, <1>2, <1>10, StillAgree

-----------------------------------------------------------------------------
(* Steps in which one client is written to, or asks.                       *)

LEMMA WrittenAgree ==
  ASSUME MemoryInv, AgreeInv, UNCHANGED <<scenario, peer>>, SameGlobals,
         ToSet(display'.registries) \subseteq ToSet(display.registries),
         Silent(Top), Silent(Top'), NEW c \in Clients, NEW cl,
         client' = [client EXCEPT ![c] = cl],
         Listens(client[c], peer[c].got, cl, peer[c].got),
         Asked(cl) \subseteq Asked(client[c])
  PROVE  AgreeInv'
BY OneHeard, AgreeQuiet

LEMMA FlushAgree ==
  ASSUME ListenersInv, MemoryInv, AgreeInv, FlushClient
  PROVE  AgreeInv'
<1> DEFINE c  == Top.c
           r  == wl_client_flush(client[c])
           cl == [r.cl EXCEPT !.writable = @ \/ r.ret = "EAGAIN"]
<1>1. At("flush") /\ UNCHANGED <<scenario, peer>> /\ Silent(Top) /\ Top.at \notin Base /\ SameRest
  BY SameRestIf DEF FlushClient, otherVars, At, Silent, Base
<1>2. c \in Clients \cup {HEAD}
  BY <1>1, TopAt DEF Known
<1>3. Silent(Top')
  BY <1>1, TopReturn, SilentCall, SilentGoto
     DEF FlushClient, Flushing, Frame, Destroying, Silent
<1>4. CASE UNCHANGED client
  BY <1>1, <1>3, <1>4, StillAgree
<1>5. CASE c # HEAD /\ client' = [client EXCEPT ![c] = cl]
  <2>1. c \in Clients
    BY <1>2, <1>5
  <2>2. /\ IsClient(client[c], Played.socket_space) /\ IsSequence(peer[c].got) /\ Types
    BY <2>1, ClientIs
  <2>3. /\ IsClient(r.cl, Played.socket_space) /\ SameCore(r.cl, client[c])
        /\ Continues(client[c], peer[c].got, r.cl, peer[c].got)
    BY <2>2, Flushed, FlushContinues
  <2> HIDE DEF r
  <2>4. /\ cl.out = r.cl.out /\ cl.to_client = r.cl.to_client /\ cl.error = r.cl.error
        /\ cl.pending = r.cl.pending /\ cl.to_server = r.cl.to_server
    BY <2>3 DEF IsClient, ClientFields
  <2> HIDE DEF cl
  <2>5. Listens(client[c], peer[c].got, cl, peer[c].got)
    BY <2>3, <2>4, HearsContinues, HearsSame, HearsOn DEF Listens
  <2>6. Asked(cl) = Asked(client[c])
    BY <2>3, <2>4 DEF Asked, SameCore
  <2> HIDE DEF c
  <2>7. QED
    BY <1>1, <1>3, <1>5, <2>1, <2>5, <2>6, WrittenAgree DEF SameRest
<1>6. QED
  BY <1>4, <1>5 DEF FlushClient

LEMMA CreateAgree ==
  ASSUME ListenersInv, MemoryInv, WordInv, AgreeInv, wl_client_create
  PROVE  AgreeInv'
<1> DEFINE c  == Top.c
           cl == NewClient(client[c].to_server, client[c].up)
<1>1. /\ At("client_create") /\ UNCHANGED <<scenario, peer>> /\ Silent(Top)
      /\ client' = [client EXCEPT ![c] = NewClient(@.to_server, @.up)]
  BY DEF wl_client_create, otherVars, At, Silent
<1>2. "client_create" \in ForClient
  BY DEF ForClient
<1>3. c \in Clients /\ client[c].life = "none"
  BY <1>1, <1>2, TopAt DEF Known, Alive
<1>4. Silent(Top')
  BY SilentGoto DEF wl_client_create, Emitting, Silent
<1>5. SameRest
  BY SameRestIf DEF wl_client_create, DisplayFields, SameRest, SameGlobals
<1>6. client' = [client EXCEPT ![c] = cl]
  BY <1>1, <1>3 DEF MemoryInv, Types
<1>7. /\ cl.out = << >> /\ cl.to_client = << >> /\ cl.pending = << >>
      /\ cl.to_server = client[c].to_server
  BY DEF NewClient
<1> HIDE DEF cl
<1>8. IsSequence(client[c].to_client) /\ IsSequence(client[c].out) /\ IsSequence(peer[c].got)
  BY <1>3, ClientIs DEF IsClient
<1>9. peer[c].got = << >>
  <2> DEFINE got  == peer[c].got
             sent == client[c].to_client
             out  == client[c].out
  <2>1. IsSequence(got) /\ IsSequence(sent) /\ IsSequence(out) /\ IsSequence(got \o sent)
    BY <1>8, SequenceConcat
  <2>2. (got \o sent) \o out = << >>
    BY <1>3 DEF WordInv, Speech
  <2> HIDE DEF got, sent, out
  <2>3. got = << >>
    BY <2>1, <2>2, JoinIsEmpty
  <2>4. QED
    BY <2>3 DEF got
<1>10. \A k : Told(Speech(cl, peer[c].got), k) = {}
  <2>1. Speech(cl, peer[c].got) = << >>
    BY <1>7, <1>9, EmptySequence, JoinEmpty DEF Speech
  <2>2. QED
    BY <2>1, ToldNothing
<1>11. Asked(cl) \subseteq Asked(client[c])
  BY <1>7, EmptySequence DEF Asked
<1>12. Listens(client[c], peer[c].got, cl, peer[c].got)
  BY <1>3, <1>10 DEF Listens
<1> HIDE DEF c
<1>13. QED
  BY <1>1, <1>3, <1>4, <1>5, <1>6, <1>11, <1>12, WrittenAgree DEF SameRest

LEMMA ReadAgree ==
  ASSUME ListenersInv, MemoryInv, AgreeInv, wl_client_connection_data
  PROVE  AgreeInv'
<1> DEFINE c     == Top.c
           flush == IF "writable" \in Top.mask THEN wl_client_flush(client[c])
                    ELSE [cl |-> client[c], ret |-> "none"]
           read  == IF "readable" \in Top.mask
                    THEN [flush.cl EXCEPT !.pending = @ \o flush.cl.to_server, !.to_server = <<>>]
                    ELSE flush.cl
           cl    == [read EXCEPT !.writable = @ /\ flush.ret # "ok"]
<1>1. /\ At("connection_data") /\ UNCHANGED <<scenario, peer>> /\ Silent(Top)
      /\ "connection_data" \in ForClient /\ SameRest
  BY SameRestIf DEF wl_client_connection_data, otherVars, At, Silent, ForClient
<1>2. c \in Clients
  BY <1>1, TopAt DEF Known
<1>3. Silent(Top')
  BY SilentGoto DEF wl_client_connection_data, Frame, Handling, Silent
<1>4. /\ IsClient(client[c], Played.socket_space) /\ IsSequence(peer[c].got) /\ Types
  BY <1>2, ClientIs
<1>5. /\ IsClient(flush.cl, Played.socket_space) /\ SameCore(flush.cl, client[c])
      /\ Continues(client[c], peer[c].got, flush.cl, peer[c].got)
  <2>1. CASE "writable" \in Top.mask
    BY <1>4, <2>1, Flushed, FlushContinues
  <2>2. CASE "writable" \notin Top.mask
    BY <1>4, <2>2 DEF SameCore, Continues
  <2>3. QED
    BY <2>1, <2>2
<1>6. UNCHANGED client \/ client' = [client EXCEPT ![c] = cl]
  BY DEF wl_client_connection_data
<1> HIDE DEF flush
<1> DEFINE p == flush.cl.pending
           s == flush.cl.to_server
<1>7. /\ cl.out = flush.cl.out /\ cl.to_client = flush.cl.to_client /\ cl.error = flush.cl.error
      /\ \/ cl.pending = p /\ cl.to_server = s
         \/ cl.pending = p \o s /\ cl.to_server = << >>
  BY <1>5 DEF IsClient, ClientFields
<1>8. IsSequence(p) /\ IsSequence(s)
  BY <1>5 DEF IsClient
<1> HIDE DEF cl, p, s
<1>9. Asked(cl) \subseteq ToSet(p) \cup ToSet(s)
  <2> DEFINE p2 == cl.pending
             s2 == cl.to_server
             t  == p \o s
  <2>1. ToSet(t) = ToSet(p) \cup ToSet(s) /\ ToSet(<< >>) = {}
    BY <1>8, SequenceConcat, EmptySequence
  <2>2. (p2 = p /\ s2 = s) \/ (p2 = t /\ s2 = << >>)
    BY <1>7
  <2>3. Asked(cl) = ToSet(p2) \cup ToSet(s2)
    BY DEF Asked
  <2> HIDE DEF p2, s2, t
  <2>4. QED
    BY <2>1, <2>2, <2>3
<1>10. ToSet(p) \cup ToSet(s) = Asked(client[c])
  BY <1>5 DEF SameCore, Asked, p, s
<1>11. Listens(client[c], peer[c].got, cl, peer[c].got)
  BY <1>5, <1>7, HearsContinues, HearsSame, HearsOn DEF Listens
<1> HIDE DEF c
<1>12. CASE UNCHANGED client
  BY <1>1, <1>3, <1>12, StillAgree
<1>13. CASE client' = [client EXCEPT ![c] = cl]
  BY <1>1, <1>2, <1>3, <1>9, <1>10, <1>11, <1>13, WrittenAgree DEF SameRest
<1>14. QED
  BY <1>6, <1>12, <1>13

-----------------------------------------------------------------------------
(* Requests that no registry is made for.                                  *)

LEMMA ServedAsks ==
  ASSUME ListenersInv, MemoryInv, MayHandle
  PROVE  /\ Top.c \in Clients /\ Types /\ Silent(Top)
         /\ Asked(Served) \subseteq Asked(client[Top.c])
         /\ Hears(client[Top.c], peer[Top.c].got, Served, peer[Top.c].got)
<1>1. /\ At("requests") /\ Served.to_server = client[Top.c].to_server
      /\ Served.pending = Tail(client[Top.c].pending) /\ client[Top.c].pending # << >>
  BY ServedIs DEF MayHandle
<1>2. /\ Top.c \in Clients /\ Types /\ Served.error = client[Top.c].error
      /\ Served.out = client[Top.c].out /\ Served.to_client = client[Top.c].to_client
  BY ServedSpeaks
<1>3. IsSequence(client[Top.c].pending)
  BY <1>2, ClientIs DEF IsClient
<1>4. ToSet(Tail(client[Top.c].pending)) \subseteq ToSet(client[Top.c].pending)
  BY <1>1, <1>3, SequenceTail
<1>5. Asked(Served) \subseteq Asked(client[Top.c])
  BY <1>1, <1>4 DEF Asked
<1>6. Hears(client[Top.c], peer[Top.c].got, Served, peer[Top.c].got)
  BY <1>2, HearsSame
<1>7. QED
  BY <1>1, <1>2, <1>5, <1>6 DEF At, Silent

LEMMA AnsweredAgree ==
  ASSUME ListenersInv, MemoryInv, AgreeInv, MayHandle, UNCHANGED <<scenario, peer, display>>,
         Silent(Top'), NEW cl, client' = [Consumed EXCEPT ![Top.c] = cl],
         Hears(Served, peer[Top.c].got, cl, peer[Top.c].got), Asked(cl) \subseteq Asked(Served)
  PROVE  AgreeInv'
<1>1. /\ Top.c \in Clients /\ Types /\ Silent(Top)
      /\ Asked(Served) \subseteq Asked(client[Top.c])
      /\ Hears(client[Top.c], peer[Top.c].got, Served, peer[Top.c].got)
  BY ServedAsks
<1>2. client' = [client EXCEPT ![Top.c] = cl]
  BY ServedIs
<1>3. Listens(client[Top.c], peer[Top.c].got, cl, peer[Top.c].got)
  BY <1>1, HearsOn DEF Listens
<1>4. SameGlobals /\ display'.registries = display.registries
  BY DEF SameGlobals
<1>5. QED
  BY <1>1, <1>2, <1>3, <1>4, WrittenAgree

LEMMA ErrorAgree ==
  ASSUME ListenersInv, MemoryInv, AgreeInv, MayHandle, UNCHANGED <<scenario, peer, display>>,
         Goto(Handled), NEW why,
         client' = [Consumed EXCEPT ![Top.c] = wl_resource_post_error(@, why)]
  PROVE  AgreeInv'
<1> DEFINE cl == wl_resource_post_error(Served, why)
<1>1. /\ Top.c \in Clients /\ Types /\ IsSequence(peer[Top.c].got)
      /\ IsClient(Served, Played.socket_space) /\ Consumed = [client EXCEPT ![Top.c] = Served]
  BY ServedSpeaks
<1>2. client' = [Consumed EXCEPT ![Top.c] = cl]
  BY <1>1
<1>3. SameCore(cl, Served) /\ Hears(Served, peer[Top.c].got, cl, peer[Top.c].got)
  BY <1>1, ErrorPosted, ErrorHears
<1> HIDE DEF cl
<1>4. Silent(Top')
  BY SilentGoto DEF Handled, Handling, Silent
<1>5. Asked(cl) = Asked(Served)
  BY <1>3 DEF SameCore, Asked
<1>6. QED
  BY <1>2, <1>3, <1>4, <1>5, AnsweredAgree

LEMMA RequestAgree ==
  ASSUME ListenersInv, MemoryInv, AgreeInv, RejectRequest \/ registry_bind \/ HandleDestroy
  PROVE  AgreeInv'
<1>1. MayHandle /\ UNCHANGED <<scenario, peer, display>>
  BY DEF RejectRequest, registry_bind, HandleDestroy, otherVars
<1>2. CASE RejectRequest
  BY <1>1, <1>2, ErrorAgree DEF RejectRequest
<1>3. CASE registry_bind
  <2>1. CASE /\ client' = [Consumed EXCEPT ![Top.c].objects[Request.new] = "object"]
             /\ Call(Handler(Top.c, Request.new), Handled)
    <3> DEFINE cl == [Served EXCEPT !.objects[Request.new] = "object"]
    <3>1. /\ IsClient(Served, Played.socket_space) /\ Consumed = [client EXCEPT ![Top.c] = Served]
          /\ Top.c \in Clients /\ Types
      BY <1>1, ServedSpeaks
    <3>2. client' = [Consumed EXCEPT ![Top.c] = cl]
      BY <2>1, <3>1
    <3>3. /\ cl.out = Served.out /\ cl.to_client = Served.to_client /\ cl.error = Served.error
          /\ cl.pending = Served.pending /\ cl.to_server = Served.to_server
      BY <3>1 DEF IsClient, ClientFields
    <3> HIDE DEF cl
    <3>4. Hears(Served, peer[Top.c].got, cl, peer[Top.c].got) /\ Asked(cl) = Asked(Served)
      BY <3>3, HearsSame DEF Asked
    <3>5. Silent(Top')
      BY <2>1, SilentCall DEF Handler, FrameOf, Silent
    <3>6. QED
      BY <1>1, <3>2, <3>4, <3>5, AnsweredAgree
  <2>2. ASSUME Goto(Handled), client' = [Consumed EXCEPT ![Top.c] =
                                wl_resource_post_error(@, <<"global", Request.name>>)]
        PROVE  AgreeInv'
    BY <1>1, <2>2, ErrorAgree
  <2>3. QED
    BY <1>3, <2>1, <2>2 DEF registry_bind
<1>4. CASE HandleDestroy
  <2>1. Silent(Top')
    BY <1>4, SilentCall DEF HandleDestroy, FrameOf, Silent
  <2>2. Top.c \in Clients /\ Types /\ Consumed = [client EXCEPT ![Top.c] = Served]
    BY <1>1, ServedSpeaks
  <2>3. client' = [Consumed EXCEPT ![Top.c] = Served]
    BY <1>4, <2>2 DEF HandleDestroy
  <2>4. Hears(Served, peer[Top.c].got, Served, peer[Top.c].got)
    BY HearsSame
  <2>5. QED
    BY <1>1, <2>1, <2>3, <2>4, AnsweredAgree
<1>5. QED
  BY <1>2, <1>3, <1>4

LEMMA SyncAgree ==
  ASSUME ListenersInv, MemoryInv, AgreeInv, display_sync
  PROVE  AgreeInv'
<1> DEFINE c    == Top.c
           got  == peer[c].got
           done == handle_array(Served, Event("done", Request.new, 0), TRUE)
           cl   == handle_array(done, Event("delete_id", Display, Request.new), FALSE)
<1>1. MayHandle /\ Goto(Handled) /\ UNCHANGED <<scenario, peer, display>>
  BY DEF display_sync, otherVars
<1>2. /\ c \in Clients /\ Types /\ Consumed = [client EXCEPT ![c] = Served]
      /\ IsClient(Served, Played.socket_space) /\ IsSequence(got)
  BY <1>1, ServedSpeaks
<1>3. client' = [Consumed EXCEPT ![c] = cl]
  BY <1>2 DEF display_sync, wl_resource_post_event, wl_resource_queue_event
<1>4. \A id : Harmless(Event("done", id, 0)) /\ Harmless(Event("delete_id", Display, id))
  BY DEF Event, Harmless
<1>5. /\ IsClient(done, Played.socket_space) /\ SameCore(done, Served)
      /\ Hears(Served, got, done, got)
  BY <1>2, <1>4, Posted, PostHears
<1>6. SameCore(cl, done) /\ Hears(done, got, cl, got)
  BY <1>2, <1>4, <1>5, Posted, PostHears
<1> HIDE DEF done, cl
<1>7. Asked(cl) = Asked(Served)
  BY <1>5, <1>6 DEF SameCore, Asked
<1>8. Hears(Served, got, cl, got)
  BY <1>5, <1>6, HearsOn
<1>9. Silent(Top')
  BY <1>1, SilentGoto DEF Handled, Handling, Silent
<1>10. QED
  BY <1>1, <1>3, <1>7, <1>8, <1>9, AnsweredAgree

-----------------------------------------------------------------------------
(* Resources and clients are destroyed.                                    *)

LEMMA DeleteIdAgree ==
  ASSUME ListenersInv, MemoryInv, AgreeInv, DeleteId
  PROVE  AgreeInv'
<1> DEFINE c    == Top.c
           id   == Top.id
           told == IF client[c].display_resource
                   THEN handle_array(client[c], Event("delete_id", Display, id), FALSE)
                   ELSE client[c]
           cl   == [told EXCEPT !.objects[id] = "none"]
<1>1. /\ At("resource_destroyed") /\ Return /\ UNCHANGED <<scenario, peer>>
      /\ client' = [client EXCEPT ![Top.c] =
           [IF @.display_resource
            THEN wl_resource_queue_event(@, Event("delete_id", Display, Top.id)) ELSE @
            EXCEPT !.objects[Top.id] = "none"]]
      /\ SameRest /\ Silent(Top)
  BY SameRestIf DEF DeleteId, otherVars, Silent, At
<1>2. /\ Top.at = "resource_destroyed" /\ c \in Clients
      /\ IsClient(client[c], Played.socket_space)
  BY <1>1, AtOwner DEF Owners, Resource
<1>3. client' = [client EXCEPT ![c] = cl]
  BY <1>1, <1>2 DEF MemoryInv, Types, wl_resource_queue_event
<1>4. IsSequence(peer[c].got) /\ Types
  BY <1>2, ClientIs
<1>5. Harmless(Event("delete_id", Display, id))
  BY DEF Event, Harmless
<1>6. /\ IsClient(told, Played.socket_space) /\ SameCore(told, client[c])
      /\ Hears(client[c], peer[c].got, told, peer[c].got)
  <2>1. SameCore(client[c], client[c]) /\ Hears(client[c], peer[c].got, client[c], peer[c].got)
    BY HearsSame DEF SameCore
  <2>2. QED
    BY <1>2, <1>4, <1>5, <2>1, Posted, PostHears
<1> HIDE DEF told
<1>7. /\ cl.out = told.out /\ cl.to_client = told.to_client /\ cl.error = told.error
      /\ cl.pending = told.pending /\ cl.to_server = told.to_server
  BY <1>6 DEF IsClient, ClientFields
<1> HIDE DEF cl
<1>8. Listens(client[c], peer[c].got, cl, peer[c].got)
  BY <1>6, <1>7, HearsSame, HearsOn DEF Listens
<1>9. Asked(cl) = Asked(client[c])
  BY <1>6, <1>7 DEF Asked, SameCore
<1>10. Silent(Top')
  BY <1>1, <1>2, TopReturn DEF Base
<1> HIDE DEF c
<1>11. QED
  BY <1>1, <1>2, <1>3, <1>8, <1>9, <1>10, WrittenAgree DEF SameRest

LEMMA ClientDestroyAgree ==
  ASSUME ListenersInv, MemoryInv, AgreeInv, wl_client_destroy
  PROVE  AgreeInv'
<1> DEFINE c  == Top.c
           cl == [client[c] EXCEPT !.life = "dying", !.listener = FALSE]
<1>1. /\ At("client_destroy") /\ UNCHANGED <<scenario, peer>> /\ SameRest /\ Silent(Top)
      /\ client' = [client EXCEPT ![c].life = "dying", ![c].listener = FALSE]
  BY SameRestIf DEF wl_client_destroy, otherVars, Silent, At
<1>2. c \in Clients /\ IsClient(client[c], Played.socket_space)
  BY <1>1, AtDestroyer DEF Destroyers
<1>3. client' = [client EXCEPT ![c] = cl]
  BY <1>1, <1>2 DEF MemoryInv, Types
<1>4. /\ cl.out = client[c].out /\ cl.to_client = client[c].to_client
      /\ cl.error = client[c].error /\ cl.pending = client[c].pending
      /\ cl.to_server = client[c].to_server
  BY <1>2 DEF IsClient, ClientFields
<1> HIDE DEF cl
<1>5. Listens(client[c], peer[c].got, cl, peer[c].got) /\ Asked(cl) = Asked(client[c])
  BY <1>4, HearsSame DEF Listens, Asked
<1>6. Silent(Top')
  BY SilentCall, SilentGoto DEF wl_client_destroy, Handler, Frame, FrameOf, Silent
<1> HIDE DEF c
<1>7. QED
  BY <1>1, <1>2, <1>3, <1>5, <1>6, WrittenAgree DEF SameRest

LEMMA FlushLastAgree ==
  ASSUME ListenersInv, MemoryInv, AgreeInv, FlushLast
  PROVE  AgreeInv'
<1> DEFINE c  == Top.c
           cl == wl_client_flush(client[c]).cl
<1>1. /\ At("client_flush") /\ Goto(FrameOf("client_resources", c, Display))
      /\ UNCHANGED <<scenario, peer>> /\ SameRest /\ Silent(Top)
      /\ client' = [client EXCEPT ![c] = wl_client_flush(@).cl]
  BY SameRestIf DEF FlushLast, otherVars, Silent, At
<1>2. c \in Clients /\ IsClient(client[c], Played.socket_space)
  BY <1>1, AtDestroyer DEF Destroyers
<1>3. client' = [client EXCEPT ![c] = cl]
  BY <1>1, <1>2 DEF MemoryInv, Types
<1>4. IsSequence(peer[c].got) /\ Types
  BY <1>2, ClientIs
<1>5. SameCore(cl, client[c]) /\ Continues(client[c], peer[c].got, cl, peer[c].got)
  BY <1>2, <1>4, Flushed, FlushContinues
<1> HIDE DEF cl
<1>6. Listens(client[c], peer[c].got, cl, peer[c].got) /\ Asked(cl) = Asked(client[c])
  BY <1>5, HearsContinues DEF Listens, Asked, SameCore
<1>7. Silent(Top')
  BY <1>1, SilentGoto DEF FrameOf, Silent
<1> HIDE DEF c
<1>8. QED
  BY <1>1, <1>2, <1>3, <1>6, <1>7, WrittenAgree DEF SameRest

LEMMA FreeResourceAgree ==
  ASSUME ListenersInv, MemoryInv, AgreeInv, FreeResource
  PROVE  AgreeInv'
<1> DEFINE c    == Top.c
           id   == Top.id
           cl   == [client[c] EXCEPT !.display_resource = @ /\ id # Display,
                                     !.objects[id] = "freed"]
           list == Unlinked(display.registries, [c |-> Top.c, id |-> Top.id])
<1>1. /\ At("free_resource") /\ Return /\ UNCHANGED <<scenario, peer>> /\ Silent(Top)
      /\ client' = [client EXCEPT ![c].display_resource = @ /\ id # Display,
                                  ![c].objects[id] = "freed"]
      /\ display' = [display EXCEPT !.registries =
                       Unlinked(@, [c |-> Top.c, id |-> Top.id])]
  BY DEF FreeResource, otherVars, Silent, At
<1>2. /\ Top.at = "free_resource" /\ c \in Clients /\ IsClient(client[c], Played.socket_space)
  BY <1>1, AtOwner DEF Owners, Resource
<1>3. client' = [client EXCEPT ![c] = cl]
  BY <1>1, <1>2 DEF MemoryInv, Types
<1>4. /\ cl.out = client[c].out /\ cl.to_client = client[c].to_client
      /\ cl.error = client[c].error /\ cl.pending = client[c].pending
      /\ cl.to_server = client[c].to_server
  BY <1>2 DEF IsClient, ClientFields
<1> HIDE DEF cl
<1>5. Listens(client[c], peer[c].got, cl, peer[c].got) /\ Asked(cl) = Asked(client[c])
  BY <1>4, HearsSame DEF Listens, Asked
<1>6. Silent(Top')
  BY <1>1, <1>2, TopReturn DEF Base
<1>7. SameGlobals /\ ToSet(display'.registries) \subseteq ToSet(display.registries)
  <2>1. /\ IsSequence(display.registries) /\ IsInjective(display.registries)
        /\ DisplayFields \subseteq DOMAIN display
    BY SameRestIf DEF MemoryInv, Types, IsDisplay, UseInv, ObjectsInv, Registered
  <2>2. ToSet(list) \subseteq ToSet(display.registries)
    BY <2>1, SequenceUnlinked
  <2>3. display' = [display EXCEPT !.registries = list]
    BY <1>1, <2>1 DEF DisplayFields
  <2> HIDE DEF list
  <2>4. QED
    BY <2>1, <2>2, <2>3 DEF DisplayFields, SameGlobals
<1> HIDE DEF c
<1>8. QED
  BY <1>1, <1>2, <1>3, <1>5, <1>6, <1>7, WrittenAgree

LEMMA FreeClientAgree ==
  ASSUME ListenersInv, MemoryInv, AgreeInv, FreeClient
  PROVE  AgreeInv'
<1> DEFINE c  == Top.c
           cl == [client[c] EXCEPT !.life = "freed"]
<1>1. /\ At("client_resources") /\ Return /\ UNCHANGED <<scenario, peer>> /\ Silent(Top)
      /\ client' = [client EXCEPT ![c].life = "freed"]
  BY DEF FreeClient, otherVars, Silent, At
<1>2. /\ Top.at = "client_resources" /\ c \in Clients /\ IsClient(client[c], Played.socket_space)
  BY <1>1, AtDestroyer DEF Destroyers
<1>3. client' = [client EXCEPT ![c] = cl]
  BY <1>1, <1>2 DEF MemoryInv, Types
<1>4. /\ cl.out = client[c].out /\ cl.to_client = client[c].to_client
      /\ cl.error = client[c].error /\ cl.pending = client[c].pending
      /\ cl.to_server = client[c].to_server
  BY <1>2 DEF IsClient, ClientFields
<1> HIDE DEF cl
<1>5. Listens(client[c], peer[c].got, cl, peer[c].got) /\ Asked(cl) = Asked(client[c])
  BY <1>4, HearsSame DEF Listens, Asked
<1>6. Silent(Top')
  BY <1>1, <1>2, TopReturn DEF Base
<1>7. SameRest
  BY SameRestIf DEF FreeClient, DisplayFields, SameRest, SameGlobals
<1> HIDE DEF c
<1>8. QED
  BY <1>1, <1>2, <1>3, <1>5, <1>6, <1>7, WrittenAgree DEF SameRest

-----------------------------------------------------------------------------
(* What the compositor calls, but for globals.                             *)

LEMMA CallPostAgree ==
  ASSUME ListenersInv, MemoryInv, AgreeInv, CallPost
  PROVE  AgreeInv'
<1>1. /\ UNCHANGED <<scenario, peer, stack>> /\ Silent(Top) /\ SameRest
  BY SameRestIf DEF CallPost, MayCall, At, Silent
<1>2. Silent(Top')
  BY <1>1, SilentSame
<1>3. ASSUME NEW c \in Clients, NEW cl, client' = [client EXCEPT ![c] = cl],
             Hears(client[c], peer[c].got, cl, peer[c].got), Asked(cl) = Asked(client[c])
      PROVE  AgreeInv'
  BY <1>1, <1>2, <1>3, WrittenAgree DEF SameRest, Listens
<1>4. ASSUME NEW c \in Clients
      PROVE  IsClient(client[c], Played.socket_space) /\ IsSequence(peer[c].got) /\ Types
  BY ClientIs
<1>5. ASSUME NEW c \in Clients, NEW id,
             client' = [client EXCEPT ![c] = wl_resource_post_event(@, Event("event", id, 0))]
      PROVE  AgreeInv'
  <2> DEFINE event == Event("event", id, 0)
             cl    == handle_array(client[c], event, TRUE)
  <2>1. client' = [client EXCEPT ![c] = cl]
    BY <1>5 DEF MemoryInv, Types, wl_resource_post_event
  <2>2. Harmless(event)
    BY DEF Event, Harmless
  <2> HIDE DEF event
  <2>3. SameCore(cl, client[c]) /\ Hears(client[c], peer[c].got, cl, peer[c].got)
    BY <1>4, <2>2, Posted, PostHears
  <2> HIDE DEF cl
  <2>4. QED
    BY <1>3, <2>1, <2>3 DEF Asked, SameCore
<1>6. ASSUME NEW c \in Clients, NEW why,
             client' = [client EXCEPT ![c] = wl_resource_post_error(@, why)]
      PROVE  AgreeInv'
  <2> DEFINE cl == wl_resource_post_error(client[c], why)
  <2>1. client' = [client EXCEPT ![c] = cl]
    BY <1>6 DEF MemoryInv, Types
  <2>2. SameCore(cl, client[c]) /\ Hears(client[c], peer[c].got, cl, peer[c].got)
    BY <1>4, ErrorPosted, ErrorHears
  <2> HIDE DEF cl
  <2>3. QED
    BY <1>3, <2>1, <2>2 DEF Asked, SameCore
<1>7. ASSUME NEW c \in Clients, client' = [client EXCEPT ![c].error = TRUE]
      PROVE  AgreeInv'
  <2> DEFINE cl == [client[c] EXCEPT !.error = TRUE]
  <2>1. client' = [client EXCEPT ![c] = cl]
    BY <1>7 DEF MemoryInv, Types
  <2>2. cl.error /\ cl.pending = client[c].pending /\ cl.to_server = client[c].to_server
    BY <1>4 DEF IsClient, ClientFields
  <2> HIDE DEF cl
  <2>3. QED
    BY <1>3, <2>1, <2>2 DEF Hears, Asked
<1>8. QED
  BY <1>5, <1>6, <1>7 DEF CallPost

LEMMA CallDestroyAgree ==
  ASSUME ListenersInv, MemoryInv, AgreeInv, CallDestroy
  PROVE  AgreeInv'
<1>1. UNCHANGED <<scenario, client, peer>> /\ Silent(Top) /\ SameRest
  BY SameRestIf DEF CallDestroy, MayCall, At, Silent
<1>2. Silent(Top')
  BY SilentCall DEF CallDestroy, Frame, FrameOf, Silent
<1>3. QED
  BY <1>1, <1>2, StillAgree

LEMMA CallListenAgree ==
  ASSUME ListenersInv, MemoryInv, AgreeInv, CallListen
  PROVE  AgreeInv'
<1>1. /\ UNCHANGED <<scenario, client, peer>> /\ Silent(Top) /\ Top.at = "user"
  BY DEF CallListen, MayCall, At, Silent
<1>2. SameRest
  BY SameRestIf DEF CallListen, wl_priv_signal_add, DisplayFields, SameRest, SameGlobals
<1>3. Silent(Top')
  <2>1. CASE UNCHANGED stack
    BY <1>1, <2>1, SilentSame
  <2>2. ASSUME NEW l, stack' = [i \in DOMAIN stack |-> IF stack[i].at # "emit" THEN stack[i]
                                  ELSE [stack[i] EXCEPT !.gone = @ \cup {l}]]
        PROVE  Silent(Top')
    <3>1. /\ DOMAIN stack = 1..Len(stack) /\ Len(stack) \in Nat /\ Top = stack[Len(stack)]
          /\ Len(stack) \in DOMAIN stack
      BY StackNow DEF ListenersInv
    <3>2. DOMAIN stack' = 1..Len(stack) /\ stack'[Len(stack)] = Top
      BY <1>1, <2>2, <3>1
    <3>3. Len(stack') = Len(stack)
      <4>1. stack' \in [1..Len(stack) -> {stack'[i] : i \in DOMAIN stack}]
        BY <2>2, <3>1
      <4>2. QED
        BY <3>1, <4>1, SeqDef, LenProperties
    <3>4. QED
      BY <1>1, <3>2, <3>3 DEF Top, Last, Silent
  <2>3. QED
    BY <2>1, <2>2 DEF CallListen
<1>4. QED
  BY <1>1, <1>2, <1>3, StillAgree

-----------------------------------------------------------------------------
(* What happens outside.                                                   *)

LEMMA TerminateAgree ==
  ASSUME ListenersInv, MemoryInv, AgreeInv, Terminate \/ TerminateWakes \/ UNCHANGED vars
  PROVE  AgreeInv'
<1>1. UNCHANGED <<scenario, stack, client, peer>>
  BY DEF Terminate, TerminateWakes, vars
<1>2. SameRest
  BY SameRestIf DEF Terminate, TerminateWakes, vars, DisplayFields, SameRest, SameGlobals
<1>3. QED
  BY <1>1, <1>2, AllHeard, AgreeOutside DEF SameRest

LEMMA PeerSendsAgree ==
  ASSUME ListenersInv, MemoryInv, AgreeInv, NEW c \in Clients, PeerSends(c)
  PROVE  AgreeInv'
<1> DEFINE last == peer[c].last
           op   == Head(peer[c].program)
<1>1. UNCHANGED <<scenario, stack>> /\ SameRest
  BY SameRestIf DEF PeerSends
<1>2. /\ ClientFields \subseteq DOMAIN client[c] /\ IsPeer(peer[c]) /\ last \in Nat
      /\ IsSequence(client[c].to_server)
  BY ClientIs DEF MemoryInv, Types, IsPeer, Ids, IsClient
<1>3. ASSUME NEW cl, NEW p, client' = [client EXCEPT ![c] = cl], peer' = [peer EXCEPT ![c] = p],
             p.got = peer[c].got, p.last \in {last, last + 1}, cl.objects = client[c].objects,
             cl.out = client[c].out, cl.to_client = client[c].to_client,
             cl.error = client[c].error, AsksAfter(client[c], cl, last)
      PROVE  AgreeInv'
  <2>1. /\ client'[c] = cl /\ \A d \in Clients : d # c => client'[d] = client[d]
        /\ peer'[c] = p /\ \A d \in Clients : d # c => peer'[d] = peer[d]
    BY <1>3 DEF MemoryInv, Types
  <2>2. Listens(client[c], peer[c].got, cl, p.got)
    BY <1>3, HearsSame DEF Listens
  <2>3. Heard(c)
    BY <1>3, <2>1, <2>2 DEF Heard
  <2>4. \A d \in Clients : Heard(d) /\ client'[d].objects = client[d].objects
    BY <1>3, <2>1, <2>3, HeardSame
  <2>5. QED
    BY <1>1, <2>4, AgreeOutside DEF SameRest
<1>4. ASSUME NEW r, Send(c, r), r.new \in {last, last + 1}, Creates(r) => r.new = last + 1
      PROVE  AgreeInv'
  <2> DEFINE sent == Append(client[c].to_server, r)
             cl   == [client[c] EXCEPT !.to_server = sent]
             p    == [peer[c] EXCEPT !.program = Tail(@), !.last = r.new]
  <2>1. client' = [client EXCEPT ![c] = cl] /\ peer' = [peer EXCEPT ![c] = p]
    BY <1>2, <1>4 DEF Send, MemoryInv, Types, ClientFields
  <2>2. ToSet(sent) = ToSet(client[c].to_server) \cup {r}
    BY <1>2, SequenceAppend
  <2> HIDE DEF sent
  <2>3. /\ cl.objects = client[c].objects /\ cl.out = client[c].out
        /\ cl.to_client = client[c].to_client /\ cl.error = client[c].error
        /\ cl.pending = client[c].pending /\ cl.to_server = sent
        /\ p.got = peer[c].got /\ p.last = r.new
    BY <1>2 DEF ClientFields, IsPeer
  <2> HIDE DEF cl, p
  <2>4. AsksAfter(client[c], cl, last)
    BY <1>2, <1>4, <2>2, <2>3 DEF AsksAfter, Asked
  <2>5. QED
    BY <1>3, <1>4, <2>1, <2>3, <2>4
<1>5. ASSUME client' = [client EXCEPT ![c].up = FALSE], peer' = [peer EXCEPT ![c].program = << >>]
      PROVE  AgreeInv'
  <2> DEFINE cl == [client[c] EXCEPT !.up = FALSE]
             p  == [peer[c] EXCEPT !.program = << >>]
  <2>1. client' = [client EXCEPT ![c] = cl] /\ peer' = [peer EXCEPT ![c] = p]
    BY <1>5 DEF MemoryInv, Types
  <2>2. /\ cl.objects = client[c].objects /\ cl.out = client[c].out
        /\ cl.to_client = client[c].to_client /\ cl.error = client[c].error
        /\ cl.pending = client[c].pending /\ cl.to_server = client[c].to_server
        /\ p.got = peer[c].got /\ p.last = last
    BY <1>2 DEF ClientFields, IsPeer
  <2> HIDE DEF cl, p
  <2>3. AsksAfter(client[c], cl, last)
    BY <2>2 DEF AsksAfter, Asked
  <2>4. QED
    BY <1>3, <2>1, <2>2, <2>3
<1>6. ASSUME NEW obj, NEW name, Send(c, Ask(c, op, obj, last + 1, name))
      PROVE  AgreeInv'
  BY <1>4, <1>6 DEF Ask
<1>7. ASSUME op = "destroy", Send(c, Ask(c, op, last, last, 0))
      PROVE  AgreeInv'
  BY <1>4, <1>7 DEF Ask, Creates
<1>8. QED
  BY <1>5, <1>6, <1>7 DEF PeerSends, op

LEMMA PeerReadsAgree ==
  ASSUME ListenersInv, MemoryInv, AgreeInv, NEW c \in Clients, PeerReads(c)
  PROVE  AgreeInv'
<1> DEFINE got  == peer[c].got
           sent == client[c].to_client
           out  == client[c].out
           p    == [peer[c] EXCEPT !.got = @ \o sent]
           cl   == [client[c] EXCEPT !.to_client = << >>]
<1>1. UNCHANGED <<scenario, stack>> /\ client' = [client EXCEPT ![c] = cl]
      /\ peer' = [peer EXCEPT ![c] = p] /\ SameRest
  BY SameRestIf DEF PeerReads, MemoryInv, Types
<1>2. /\ ClientFields \subseteq DOMAIN client[c] /\ {"got", "last"} \subseteq DOMAIN peer[c]
      /\ IsSequence(got) /\ IsSequence(sent) /\ IsSequence(out)
  BY ClientIs DEF MemoryInv, Types, IsClient, IsPeer
<1>3. /\ client'[c] = cl /\ \A d \in Clients : d # c => client'[d] = client[d]
      /\ peer'[c] = p /\ \A d \in Clients : d # c => peer'[d] = peer[d]
  BY <1>1 DEF MemoryInv, Types
<1>4. /\ cl.out = out /\ cl.to_client = << >> /\ cl.error = client[c].error
      /\ cl.objects = client[c].objects /\ cl.pending = client[c].pending
      /\ cl.to_server = client[c].to_server
      /\ p.got = got \o sent /\ p.last = peer[c].last
  BY <1>2 DEF ClientFields
<1> HIDE DEF cl, p
<1>5. Speech(cl, p.got) = Speech(client[c], got)
  <2>1. IsSequence(got \o sent)
    BY <1>2, SequenceConcat
  <2> HIDE DEF got, sent, out
  <2>2. (got \o sent) \o << >> = got \o sent
    BY <2>1, JoinEmpty
  <2>3. QED
    BY <1>4, <2>2 DEF Speech, sent, out
<1>6. Listens(client[c], got, cl, p.got)
  BY <1>4, <1>5 DEF Listens, Hears
<1> HIDE DEF sent, out
<1>7. Heard(c)
  BY <1>3, <1>4, <1>6 DEF Heard, AsksAfter, Asked
<1>8. \A d \in Clients : Heard(d) /\ client'[d].objects = client[d].objects
  BY <1>3, <1>4, <1>7, HeardSame
<1>9. QED
  BY <1>1, <1>8, AgreeOutside DEF SameRest

-----------------------------------------------------------------------------
(* Registries are told of a global, one by one.                            *)

LEMMA SequenceRest ==
  ASSUME NEW s, IsSequence(s), s # << >>, IsInjective(s)
  PROVE  /\ Head(s) \in ToSet(s) /\ ToSet(Tail(s)) = ToSet(s) \ {Head(s)}
         /\ IsInjective(Tail(s))
BY SequenceIs, HeadElements

LEMMA OfferedIs ==
  ASSUME AgreeInv, NEW g \in ToSet(display.globals), NEW c
  PROVE  g.name \in Offered(c) <=> ~g.removed /\ wl_global_is_visible(c, g)
<1>1. \A h \in ToSet(display.globals) : h.name = g.name => h = g
  BY DEF AgreeInv, Distinct
<1>2. QED
  BY <1>1 DEF Offered

LEMMA EventTells ==
  ASSUME MemoryInv, NEW c \in Clients, NEW event,
         ~handle_array(client[c], event, TRUE).error
  PROVE  /\ ~client[c].error
         /\ Speech(handle_array(client[c], event, TRUE), peer[c].got) =
              Append(Speech(client[c], peer[c].got), event)
<1> DEFINE cl  == client[c]
           got == peer[c].got
           now == TRUE
<1>1. IsClient(cl, Played.socket_space) /\ IsSequence(got) /\ Types
  BY ClientIs
<1>2. ~handle_array(cl, event, now).error
  OBVIOUS
<1> HIDE DEF cl, got, now
<1>3. ~cl.error /\ Speech(handle_array(cl, event, now), got) = Append(Speech(cl, got), event)
  BY <1>1, <1>2, PostTells
<1>4. QED
  BY <1>3 DEF cl, got, now

(* Registry id of client c has been told of one name, or that it is gone.  *)
ToldThen(c, id, op, name) ==
  \A r \in ToSet(display.registries) :
    Offered(r.c) \ Lacks(Top', r) =
      IF r.c # c \/ r.id # id THEN Offered(r.c) \ Lacks(Top, r)
      ELSE IF op = "global" THEN (Offered(r.c) \ Lacks(Top, r)) \cup {name}
      ELSE (Offered(r.c) \ Lacks(Top, r)) \ {name}

LEMMA ToldOne ==
  ASSUME ListenersInv, MemoryInv, AgreeInv, UNCHANGED <<scenario, peer, display>>,
         NEW c \in Clients, NEW id \in Ids, client[c].objects[id] = "registry",
         NEW op \in {"global", "global_remove"}, NEW name,
         client' = [client EXCEPT ![c] = wl_resource_post_event(@, Event(op, id, name))],
         Teller(Top)', ToldThen(c, id, op, name)
  PROVE  AgreeInv'
<1> DEFINE e   == Event(op, id, name)
           got == peer[c].got
           old == Speech(client[c], got)
           cl  == handle_array(client[c], e, TRUE)
<1>1. client' = [client EXCEPT ![c] = cl]
  BY DEF MemoryInv, Types, wl_resource_post_event
<1>2. /\ IsClient(client[c], Played.socket_space) /\ IsSequence(got) /\ Types
      /\ Fresh(client[c], peer[c].last) /\ DisplayIs(client[c])
  BY ClientIs DEF MemoryInv, FreshInv, UseInv, ObjectsInv
<1>3. e.op = op /\ e.obj = id /\ e.arg = name
  BY DEF Event
<1> HIDE DEF e, old
<1>4. ~cl.error => ~client[c].error /\ Speech(cl, got) = Append(old, e)
  BY EventTells DEF old
<1>5. SameCore(cl, client[c])
  BY <1>2, Posted
<1>6. IsSequence(old)
  BY <1>2, SpeechIs DEF old
<1> HIDE DEF cl
<1>7. \A k : Told(Append(old, e), k) =
        IF k # id THEN Told(old, k)
        ELSE IF op = "global" THEN Told(old, k) \cup {name} ELSE Told(old, k) \ {name}
  BY <1>3, <1>6, ToldAppended
<1>8. client'[c] = cl /\ \A d \in Clients : d # c => client'[d] = client[d]
  BY <1>1, OneClient DEF MemoryInv
<1>9. \A d : Offered(d)' = Offered(d)
  BY OfferedSame
<1>10. ASSUME NEW r \in ToSet(display.registries), ~client'[r.c].error
       PROVE  Told(Speech(client'[r.c], peer[r.c].got), r.id) = Offered(r.c) \ Lacks(Top', r)
  <2>1. r.c \in Clients
    BY DEF MemoryInv, UseInv, ObjectsInv, Registered
  <2>2. CASE r.c # c
    <3>1. client'[r.c] = client[r.c]
      BY <1>8, <2>1, <2>2
    <3>2. Told(Speech(client[r.c], peer[r.c].got), r.id) = Offered(r.c) \ Lacks(Top, r)
      BY <1>10, <3>1 DEF AgreeInv
    <3>3. Offered(r.c) \ Lacks(Top', r) = Offered(r.c) \ Lacks(Top, r)
      BY <2>2 DEF ToldThen
    <3>4. QED
      BY <3>1, <3>2, <3>3
  <2>3. CASE r.c = c
    <3>1. ~cl.error /\ ~client[c].error /\ Speech(cl, got) = Append(old, e)
      BY <1>4, <1>8, <1>10, <2>3
    <3>2. Told(old, r.id) = Offered(r.c) \ Lacks(Top, r)
      BY <2>3, <3>1 DEF AgreeInv, old
    <3> DEFINE was == Offered(r.c) \ Lacks(Top, r)
               now == Offered(r.c) \ Lacks(Top', r)
    <3>3. now = IF r.id # id THEN was
                ELSE IF op = "global" THEN was \cup {name} ELSE was \ {name}
      BY <2>3 DEF ToldThen
    <3>4. Told(Append(old, e), r.id) =
            IF r.id # id THEN was
            ELSE IF op = "global" THEN was \cup {name} ELSE was \ {name}
      BY <1>7, <3>2
    <3> HIDE DEF was
    <3>5. Told(Append(old, e), r.id) = now
      BY <3>3, <3>4
    <3>6. QED
      BY <1>8, <2>3, <3>1, <3>5
  <2>4. QED
    BY <2>2, <2>3
<1>11. ASSUME NEW d \in Clients, ~client'[d].error
       PROVE  Untold(client'[d], peer[d].got, peer[d].last)
  <2>1. CASE d # c
    BY <1>8, <1>11, <2>1 DEF AgreeInv
  <2>2. CASE d = c
    <3>1. ~cl.error /\ ~client[c].error /\ Speech(cl, got) = Append(old, e)
      BY <1>4, <1>8, <1>11, <2>2
    <3>2. Untold(client[c], got, peer[c].last)
      BY <3>1 DEF AgreeInv
    <3>3. Asked(cl) = Asked(client[c])
      BY <1>5 DEF SameCore, Asked
    <3>4. id <= peer[c].last /\ \A r \in Asked(cl) : Creates(r) => r.new # id
      BY <1>2, <3>3 DEF Fresh, Asked
    <3>5. Untold(cl, got, peer[c].last)
      BY <1>7, <3>1, <3>2, <3>3, <3>4 DEF Untold, old
    <3>6. QED
      BY <1>8, <2>2, <3>5
  <2>3. QED
    BY <2>1, <2>2
<1>12. \A r \in ToSet(display'.registries) : ~client'[r.c].error =>
         Told(Speech(client'[r.c], peer'[r.c].got), r.id) = (Offered(r.c) \ Lacks(Top, r))'
  BY <1>9, <1>10
<1>13. QED
  BY <1>11, <1>12 DEF AgreeInv

LEMMA AnnounceAgree ==
  ASSUME ListenersInv, MemoryInv, WordInv, AgreeInv, Announce
  PROVE  AgreeInv'
<1> DEFINE h    == Head(Top.rest)
           g    == Top.g
           name == Top.g.name
           f    == [Top EXCEPT !.rest = Tail(@)]
<1>1. /\ stack # << >> /\ Top.at = "announce" /\ At("announce") /\ Top.rest # << >> /\ Goto(f)
      /\ UNCHANGED <<scenario, peer, display>>
  BY DEF Announce, At, otherVars
<1>2. /\ IsSequence(Top.rest) /\ {"at", "c", "id", "rest"} \subseteq DOMAIN Top
      /\ ToSet(Top.rest) \subseteq ToSet(display.registries)
      /\ "announce" \in ForNone
  BY <1>1, TopAt DEF Known, Reaches, ForNone
<1>3. /\ {"op", "g"} \subseteq DOMAIN Top /\ IsInjective(Top.rest)
      /\ g \in ToSet(display.globals) /\ ~g.removed
  BY <1>1 DEF AgreeInv, Teller
<1>4. Top.op \in {"global", "global_remove"}
  BY <1>1, StackNow DEF ListenersInv, WordInv, Plain
<1>5. /\ h \in ToSet(Top.rest) /\ ToSet(Tail(Top.rest)) = ToSet(Top.rest) \ {h}
      /\ IsInjective(Tail(Top.rest))
  BY <1>1, <1>2, <1>3, SequenceRest
<1>6. /\ f.at = "announce" /\ f.rest = Tail(Top.rest) /\ f.op = Top.op /\ f.g = g
      /\ {"op", "g"} \subseteq DOMAIN f
  BY <1>1, <1>2, <1>3
<1>7. Top' = f
  BY <1>1, TopGoto DEF ListenersInv
<1> HIDE DEF f, h
<1>8. Teller(Top)'
  BY <1>1, <1>3, <1>5, <1>6, <1>7 DEF Teller
<1>9. /\ h \in ToSet(display.registries) /\ h.c \in Clients /\ h.id \in Ids
      /\ client[h.c].objects[h.id] = "registry" /\ h = [c |-> h.c, id |-> h.id]
  BY <1>2, <1>5 DEF MemoryInv, UseInv, ObjectsInv, Registered
<1>10. \A r : /\ Lacks(Top, r) = IF Top.op = "global" <=> r \in ToSet(Top.rest) THEN {name} ELSE {}
              /\ Lacks(f, r) = IF Top.op = "global" <=> r \in ToSet(Top.rest) \ {h}
                               THEN {name} ELSE {}
  BY <1>1, <1>5, <1>6 DEF Lacks
<1>11. name \in Offered(h.c) <=> wl_global_is_visible(h.c, g)
  BY <1>3, OfferedIs
<1>12. \A r : r # h => Lacks(Top', r) = Lacks(Top, r)
  BY <1>7, <1>10
<1>13. IF Top.op = "global" THEN Lacks(Top, h) = {name} /\ Lacks(Top', h) = {}
       ELSE Lacks(Top, h) = {} /\ Lacks(Top', h) = {name}
  BY <1>5, <1>7, <1>10
<1>14. CASE ~wl_global_is_visible(h.c, g)
  <2>1. UNCHANGED client
    BY <1>14 DEF Announce, h
  <2>2. \A r \in ToSet(display'.registries) :
          Offered(r.c) \ Lacks(Top', r) = Offered(r.c) \ Lacks(Top, r)
    BY <1>11, <1>12, <1>13, <1>14
  <2>3. \A c \in Clients : Heard(c)
    BY <1>1, <2>1, AllHeard
  <2>4. QED
    BY <1>1, <1>8, <2>2, <2>3, AgreeKept DEF SameGlobals
<1>15. CASE wl_global_is_visible(h.c, g)
  <2>1. client' = [client EXCEPT ![h.c] =
                     wl_resource_post_event(@, Event(Top.op, h.id, name))]
    BY <1>15 DEF Announce, h
  <2>2. ASSUME NEW r \in ToSet(display.registries)
        PROVE  Offered(r.c) \ Lacks(Top', r) =
                 IF r.c # h.c \/ r.id # h.id THEN Offered(r.c) \ Lacks(Top, r)
                 ELSE IF Top.op = "global" THEN (Offered(r.c) \ Lacks(Top, r)) \cup {name}
                 ELSE (Offered(r.c) \ Lacks(Top, r)) \ {name}
    <3>1. r.c = h.c /\ r.id = h.id => r = h
      BY <1>9 DEF MemoryInv, UseInv, ObjectsInv, Registered
    <3>2. CASE r # h
      BY <1>12, <3>1, <3>2
    <3>3. CASE r = h
      BY <1>11, <1>13, <1>15, <3>3
    <3>4. QED
      BY <3>2, <3>3
  <2>3. ToldThen(h.c, h.id, Top.op, name)
    BY <2>2 DEF ToldThen
  <2>4. QED
    BY <1>1, <1>4, <1>8, <1>9, <2>1, <2>3, ToldOne
<1>16. QED
  BY <1>14, <1>15

LEMMA TellAgree ==
  ASSUME ListenersInv, MemoryInv, AgreeInv, TellGlobal
  PROVE  AgreeInv'
<1> DEFINE c    == Top.c
           id   == Top.id
           g    == Head(Top.rest)
           f    == [Top EXCEPT !.rest = Tail(@)]
<1>1. /\ stack # << >> /\ Top.at = "tell" /\ At("tell") /\ UNCHANGED <<scenario, peer, display>>
      /\ Top.at \notin Base
  BY DEF TellGlobal, At, otherVars, Base
<1>2. /\ IsSequence(Top.rest) /\ {"at", "c", "id", "rest"} \subseteq DOMAIN Top
      /\ ToSet(Top.rest) \subseteq ToSet(display.globals) /\ c \in Clients
  BY <1>1, TopAt DEF Known, Reaches, ForClient
<1>3. id \in Ids /\ client[c].objects[id] = "registry" /\ IsInjective(Top.rest)
  BY <1>1 DEF AgreeInv, Teller
<1>4. \A r : Lacks(Top, r) = IF c = r.c /\ id = r.id THEN Names(Top.rest) ELSE {}
  BY <1>1 DEF Lacks
<1>5. CASE Top.rest = << >>
  <2>1. Return /\ UNCHANGED client
    BY <1>5 DEF TellGlobal
  <2>2. Silent(Top')
    BY <1>1, <2>1, TopReturn
  <2>3. \A r : Lacks(Top, r) = {} /\ Lacks(Top', r) = {}
    BY <1>4, <1>5, <2>2, LacksNothing, EmptySequence DEF Names
  <2>4. Teller(Top)'
    BY <2>2 DEF Teller, Silent
  <2>5. \A d \in Clients : Heard(d)
    BY <1>1, <2>1, AllHeard
  <2>6. QED
    BY <1>1, <2>3, <2>4, <2>5, AgreeKept DEF SameGlobals
<1>6. CASE Top.rest # << >>
  <2>1. Top' = f
    BY <1>6, TopGoto DEF ListenersInv, TellGlobal
  <2>2. f.at = "tell" /\ f.c = c /\ f.id = id /\ f.rest = Tail(Top.rest)
    BY <1>1, <1>2
  <2>3. /\ g \in ToSet(Top.rest) /\ ToSet(Tail(Top.rest)) = ToSet(Top.rest) \ {g}
        /\ IsInjective(Tail(Top.rest)) /\ g \in ToSet(display.globals)
    BY <1>2, <1>3, <1>6, SequenceRest
  <2> HIDE DEF f, g
  <2>4. \A r : Lacks(f, r) = IF c = r.c /\ id = r.id THEN Names(Tail(Top.rest)) ELSE {}
    BY <2>2 DEF Lacks
  <2>5. /\ Names(Top.rest) = Names(Tail(Top.rest)) \cup {g.name}
        /\ g.name \notin Names(Tail(Top.rest))
    <3>1. \A h \in ToSet(Top.rest) : h.name = g.name => h = g
      BY <1>2, <2>3 DEF AgreeInv, Distinct
    <3>2. QED
      BY <2>3, <3>1 DEF Names
  <2>6. g.name \in Offered(c) <=> ~g.removed /\ wl_global_is_visible(c, g)
    BY <2>3, OfferedIs
  <2>7. CASE ~(wl_global_is_visible(c, g) /\ ~g.removed)
    <3>1. UNCHANGED client
      BY <1>6, <2>7 DEF TellGlobal, g
    <3>2. \A r : Offered(r.c) \ Lacks(Top', r) = Offered(r.c) \ Lacks(Top, r)
      BY <1>4, <2>1, <2>4, <2>5, <2>6, <2>7
    <3>3. \A d \in Clients : Heard(d)
      BY <1>1, <3>1, AllHeard
    <3>4. Teller(Top)'
      BY <1>3, <2>1, <2>2, <2>3, <3>1 DEF Teller
    <3>5. QED
      BY <1>1, <3>2, <3>3, <3>4, AgreeKept DEF SameGlobals
  <2>8. CASE wl_global_is_visible(c, g) /\ ~g.removed
    <3>1. client' = [client EXCEPT ![c] =
                       wl_resource_post_event(@, Event("global", id, g.name))]
      BY <1>6, <2>8 DEF TellGlobal, g
    <3>2. ToldThen(c, id, "global", g.name)
      BY <1>4, <2>1, <2>4, <2>5, <2>6, <2>8 DEF ToldThen
    <3>3. client'[c].objects = client[c].objects
      <4> DEFINE cl == handle_array(client[c], Event("global", id, g.name), TRUE)
      <4>1. client' = [client EXCEPT ![c] = cl]
        BY <3>1, <1>2 DEF MemoryInv, Types, wl_resource_post_event
      <4>2. SameCore(cl, client[c])
        BY <1>2, ClientIs, Posted
      <4> HIDE DEF cl
      <4>3. QED
        BY <1>2, <4>1, <4>2, OneClient DEF MemoryInv, SameCore
    <3>4. Teller(Top)'
      BY <1>3, <2>1, <2>2, <2>3, <3>3 DEF Teller
    <3> HIDE DEF c, id
    <3>5. QED
      BY <1>1, <1>2, <1>3, <3>1, <3>2, <3>4, ToldOne
  <2>9. QED
    BY <2>7, <2>8
<1>7. QED
  BY <1>5, <1>6

-----------------------------------------------------------------------------
(* Globals come and go.                                                    *)

LEMMA GlobalsAgree ==
  ASSUME MemoryInv, AgreeInv, UNCHANGED <<scenario, client, peer>>,
         display'.registries = display.registries, display'.id # 0,
         \A g \in ToSet(display'.globals) : IsGlobal(g, display'.id),
         Distinct(display'.globals), Teller(Top)',
         \A r \in ToSet(display.registries) :
           Offered(r.c)' \ Lacks(Top', r) = Offered(r.c) \ Lacks(Top, r)
  PROVE  AgreeInv'
<1>1. \A r \in ToSet(display'.registries) : ~client'[r.c].error =>
        Told(Speech(client'[r.c], peer'[r.c].got), r.id) = (Offered(r.c) \ Lacks(Top, r))'
  BY DEF AgreeInv
<1>2. \A c \in Clients : ~client'[c].error => Untold(client'[c], peer'[c].got, peer'[c].last)
  BY DEF AgreeInv
<1>3. QED
  BY <1>1, <1>2 DEF AgreeInv

(* A list of globals, one of which is marked.                              *)
LEMMA MarkedIs ==
  ASSUME NEW s, IsSequence(s), NEW g \in ToSet(s), NEW m, m.name = g.name, Distinct(s)
  PROVE  LET t == [i \in DOMAIN s |-> IF s[i] = g THEN m ELSE s[i]]
         IN  Distinct(t) /\ ToSet(t) = (ToSet(s) \ {g}) \cup {m}
<1> DEFINE t == [i \in DOMAIN s |-> IF s[i] = g THEN m ELSE s[i]]
<1>1. DOMAIN t = DOMAIN s /\ \A i \in DOMAIN s : t[i] = IF s[i] = g THEN m ELSE s[i]
  OBVIOUS
<1> HIDE DEF t
<1>2. ASSUME NEW i \in DOMAIN s, NEW j \in DOMAIN s, t[i].name = t[j].name PROVE i = j
  <2>1. s[i].name = s[j].name
    BY <1>1, <1>2
  <2>2. s[i] = s[j]
    BY <2>1 DEF Distinct, ToSet
  <2>3. QED
    BY <2>2 DEF Distinct, IsInjective
<1>3. Distinct(t)
  BY <1>1, <1>2 DEF Distinct, IsInjective, ToSet
<1>4. ToSet(t) = (ToSet(s) \ {g}) \cup {m}
  BY <1>1 DEF ToSet
<1>5. QED
  BY <1>3, <1>4 DEF t

(* A global is not there any more, or is marked as removed.                *)
LEMMA GlobalGone ==
  ASSUME AgreeInv, UNCHANGED scenario, NEW g \in ToSet(display.globals),
         \/ ToSet(display'.globals) = ToSet(display.globals) \ {g}
         \/ \E m : /\ m.removed
                   /\ ToSet(display'.globals) = (ToSet(display.globals) \ {g}) \cup {m}
  PROVE  \A c : Offered(c)' = Offered(c) \ {g.name}
<1>1. \A h \in ToSet(display.globals) : h.name = g.name => h = g
  BY DEF AgreeInv, Distinct
<1>2. UNCHANGED Played
  BY DEF Played
<1>3. \A c, n : n \in Offered(c)' <=>
        \E h \in ToSet(display.globals) :
          h # g /\ ~h.removed /\ <<c, h.interface>> \notin Played.hidden /\ n = h.name
  BY <1>2 DEF Offered, wl_global_is_visible
<1>4. \A c, n : n \in Offered(c) <=>
        \E h \in ToSet(display.globals) :
          ~h.removed /\ <<c, h.interface>> \notin Played.hidden /\ n = h.name
  BY DEF Offered, wl_global_is_visible
<1>5. ASSUME NEW c, NEW n PROVE n \in Offered(c)' <=> n \in Offered(c) \ {g.name}
  <2> DEFINE Offers(h) == ~h.removed /\ <<c, h.interface>> \notin Played.hidden /\ n = h.name
  <2>1. n \in Offered(c)' <=> \E h \in ToSet(display.globals) : h # g /\ Offers(h)
    BY <1>3
  <2>2. n \in Offered(c) <=> \E h \in ToSet(display.globals) : Offers(h)
    BY <1>4
  <2>3. \A h : Offers(h) => n = h.name
    OBVIOUS
  <2> HIDE DEF Offers
  <2>4. QED
    BY <1>1, <2>1, <2>2, <2>3
<1>6. QED
  BY <1>5

LEMMA UnlinkedAgree ==
  ASSUME MemoryInv, AgreeInv, NEW g,
         display' = [display EXCEPT !.globals = Unlinked(@, g)]
  PROVE  /\ display'.registries = display.registries /\ display'.id = display.id
         /\ ToSet(display'.globals) = ToSet(display.globals) \ {g}
         /\ Distinct(display'.globals)
<1> DEFINE s == display.globals
           t == Unlinked(s, g)
<1>1. IsSequence(s) /\ Distinct(s) /\ DisplayFields \subseteq DOMAIN display
  BY SameRestIf DEF MemoryInv, Types, IsDisplay, AgreeInv
<1>2. display' = [display EXCEPT !.globals = t]
  BY <1>1 DEF DisplayFields
<1>3. IsInjective(t) /\ ToSet(t) = ToSet(s) \ {g}
  BY <1>1, SequenceUnlinked DEF Distinct
<1> HIDE DEF t
<1>4. /\ display'.registries = display.registries /\ display'.id = display.id
      /\ display'.globals = t
  BY <1>1, <1>2 DEF DisplayFields
<1>5. QED
  BY <1>1, <1>3, <1>4 DEF Distinct

LEMMA AnnouncementEndsAgree ==
  ASSUME ListenersInv, MemoryInv, WordInv, AgreeInv, AnnouncementEnds
  PROVE  AgreeInv'
<1> DEFINE g == Top.g
           m == [Top.g EXCEPT !.removed = TRUE]
           s == display.globals
           t == [i \in DOMAIN s |-> IF s[i] = g THEN m ELSE s[i]]
<1>1. /\ stack # << >> /\ Top.at = "announce" /\ Top.at \notin Base /\ Return
      /\ Top.rest = << >> /\ UNCHANGED <<scenario, client, peer>>
  BY DEF AnnouncementEnds, At, Base, otherVars
<1>2. Silent(Top')
  BY <1>1, TopReturn
<1>3. Teller(Top)' /\ \A r : Lacks(Top', r) = {}
  BY <1>2, LacksNothing DEF Teller, Silent
<1>4. \A r : Lacks(Top, r) = IF Top.op = "global" THEN {} ELSE {g.name}
  BY <1>1, EmptySequence DEF Lacks
<1>5. g \in ToSet(s) /\ ~g.removed
  BY <1>1 DEF AgreeInv, Teller
<1>6. ASSUME display' = display, Top.op = "global" PROVE AgreeInv'
  <2>1. \A c : Offered(c)' = Offered(c)
    BY <1>1, <1>6, OfferedSame
  <2>2. QED
    BY <1>1, <1>3, <1>4, <1>6, <2>1, GlobalsAgree DEF AgreeInv
<1>7. ASSUME Top.op # "global", display'.registries = display.registries,
             display'.id = display.id, Distinct(display'.globals),
             \/ ToSet(display'.globals) = ToSet(s) \ {g}
             \/ m.removed /\ m.name = g.name /\ IsGlobal(m, display.id)
                  /\ ToSet(display'.globals) = (ToSet(s) \ {g}) \cup {m}
      PROVE  AgreeInv'
  <2>1. \A c : Offered(c)' = Offered(c) \ {g.name}
    BY <1>1, <1>5, <1>7, GlobalGone
  <2>2. display'.id # 0 /\ \A h \in ToSet(display'.globals) : IsGlobal(h, display'.id)
    BY <1>7 DEF AgreeInv
  <2>3. QED
    BY <1>1, <1>3, <1>4, <1>7, <2>1, <2>2, GlobalsAgree
<1>8. CASE Top.op = "global"
  BY <1>6, <1>8 DEF AnnouncementEnds
<1>9. CASE Top.op # "global" /\ Top.destroys
  <2>1. display' = [display EXCEPT !.globals = Unlinked(@, g)]
    BY <1>9 DEF AnnouncementEnds
  <2>2. QED
    BY <1>7, <1>9, <2>1, UnlinkedAgree
<1>10. CASE Top.op # "global" /\ ~Top.destroys
  <2>1. IsGlobal(g, display.id) /\ Distinct(s) /\ IsSequence(s)
        /\ DisplayFields \subseteq DOMAIN display
    BY <1>5, SameRestIf DEF AgreeInv, MemoryInv, Types, IsDisplay
  <2>2. display' = [display EXCEPT !.globals = t]
    BY <1>10, <2>1 DEF AnnouncementEnds, DisplayFields
  <2>3. m.removed /\ m.name = g.name /\ IsGlobal(m, display.id)
    BY <2>1 DEF IsGlobal
  <2> HIDE DEF m
  <2>4. Distinct(t) /\ ToSet(t) = (ToSet(s) \ {g}) \cup {m}
    BY <1>5, <2>1, <2>3, MarkedIs
  <2> HIDE DEF t
  <2>5. /\ display'.registries = display.registries /\ display'.id = display.id
        /\ display'.globals = t
    BY <2>1, <2>2 DEF DisplayFields
  <2>6. QED
    BY <1>7, <1>10, <2>3, <2>4, <2>5
<1>11. QED
  BY <1>8, <1>9, <1>10

(* The library begins to tell the registries, or need not.                 *)
LEMMA CallGlobalAgree ==
  ASSUME ListenersInv, MemoryInv, AgreeInv, CallGlobal
  PROVE  AgreeInv'
<1>1. UNCHANGED <<scenario, client, peer>> /\ Silent(Top) /\ Top.at = "user"
  BY DEF CallGlobal, MayCall, At, Silent
<1>2. /\ IsSequence(display.globals) /\ IsSequence(display.registries) /\ display.id \in Nat \ {0}
      /\ IsInjective(display.registries) /\ DisplayFields \subseteq DOMAIN display
  BY SameRestIf
     DEF MemoryInv, Types, IsDisplay, UseInv, ObjectsInv, Registered, AgreeInv
<1>3. \A r : Lacks(Top, r) = {}
  BY <1>1, LacksNothing
<1>4. ASSUME NEW op, NEW g, NEW destroys,
             Call(Announcing(op, g, display.registries, destroys), Top)
      PROVE  /\ Top' = Announcing(op, g, display.registries, destroys)
             /\ g \in ToSet(display'.globals) /\ ~g.removed => Teller(Top)'
             /\ \A r \in ToSet(display.registries) :
                  Lacks(Top', r) = IF op = "global" THEN {g.name} ELSE {}
  <2> DEFINE f == Announcing(op, g, display.registries, destroys)
  <2>1. Top' = f
    BY <1>4, TopCall DEF ListenersInv
  <2>2. /\ f.at = "announce" /\ f.op = op /\ f.g = g /\ f.rest = display.registries
        /\ {"op", "g"} \subseteq DOMAIN f
    BY DEF Announcing
  <2> HIDE DEF f
  <2>3. QED
    BY <1>2, <2>1, <2>2 DEF Teller, Lacks, f
<1>5. ASSUME NEW g \in ToSet(display.globals), NEW destroys, ~g.removed, UNCHANGED display,
             Call(Announcing("global_remove", g, display.registries, destroys), Top)
      PROVE  AgreeInv'
  <2>1. Teller(Top)' /\ \A r \in ToSet(display.registries) : Lacks(Top', r) = {}
    BY <1>4, <1>5
  <2>2. \A c : Offered(c)' = Offered(c)
    BY <1>1, <1>5, OfferedSame
  <2>3. QED
    BY <1>1, <1>3, <1>5, <2>1, <2>2, GlobalsAgree DEF AgreeInv
<1>6. ASSUME NEW i, wl_global_create(i) PROVE AgreeInv'
  <2> DEFINE g   == Global(display.id, i)
             new == Append(display.globals, g)
  <2>1. /\ display' = [display EXCEPT !.id = @ + 1, !.globals = new]
        /\ Call(Announcing("global", g, display.registries, FALSE), Top)
    BY <1>2, <1>6 DEF wl_global_create, DisplayFields
  <2>2. /\ g.name = display.id /\ ~g.removed /\ {"name", "interface", "removed"} \subseteq DOMAIN g
    BY DEF Global
  <2> HIDE DEF g
  <2>3. \A h \in ToSet(display.globals) :
          /\ {"name", "interface", "removed"} \subseteq DOMAIN h
          /\ h.name \in Nat \ {0} /\ h.name < display.id
    BY DEF AgreeInv, IsGlobal
  <2>4. /\ \A h \in ToSet(display.globals) : h.name # g.name
        /\ g \notin ToSet(display.globals)
    BY <1>2, <2>2, <2>3
  <2>5. ToSet(new) = ToSet(display.globals) \cup {g} /\ IsInjective(new)
    BY <1>2, <2>4, SequenceAppend DEF AgreeInv, Distinct
  <2> HIDE DEF new
  <2>6. /\ display'.registries = display.registries /\ display'.id = display.id + 1
        /\ display'.globals = new
    BY <1>2, <2>1 DEF DisplayFields
  <2>7. Distinct(display'.globals)
    BY <2>4, <2>5, <2>6 DEF AgreeInv, Distinct
  <2>8. display'.id # 0 /\ \A h \in ToSet(display'.globals) : IsGlobal(h, display'.id)
    <3>1. \A n \in Nat, k \in Nat \ {0} : n < k => n < k + 1
      OBVIOUS
    <3>2. display.id < display.id + 1 /\ display.id + 1 # 0
      BY <1>2
    <3>3. QED
      BY <1>2, <2>2, <2>3, <2>5, <2>6, <3>1, <3>2 DEF IsGlobal
  <2>9. \A c : Offered(c)' \ {g.name} = Offered(c)
    <3>1. UNCHANGED Played
      BY <1>1 DEF Played
    <3>2. \A c, n : n \in Offered(c)' <=>
            \E h \in ToSet(display.globals) \cup {g} :
              ~h.removed /\ <<c, h.interface>> \notin Played.hidden /\ n = h.name
      BY <2>5, <2>6, <3>1 DEF Offered, wl_global_is_visible
    <3>3. ASSUME NEW c, NEW n PROVE n \in Offered(c)' \ {g.name} <=> n \in Offered(c)
      <4> DEFINE Offers(h) == ~h.removed /\ <<c, h.interface>> \notin Played.hidden /\ n = h.name
      <4>1. n \in Offered(c)' <=> \E h \in ToSet(display.globals) \cup {g} : Offers(h)
        BY <3>2
      <4>2. n \in Offered(c) <=> \E h \in ToSet(display.globals) : Offers(h)
        BY DEF Offered, wl_global_is_visible
      <4>3. \A h : Offers(h) => n = h.name
        OBVIOUS
      <4> HIDE DEF Offers
      <4> DEFINE name == g.name
      <4>4. (\A h \in ToSet(display.globals) : h.name # name) /\ (Offers(g) => n = name)
        BY <2>4, <4>3
      <4> HIDE DEF name
      <4>5. n \in Offered(c) => n # name
        BY <4>2, <4>3, <4>4
      <4>6. n \in Offered(c)' <=> n \in Offered(c) \/ Offers(g)
        BY <4>1, <4>2
      <4>7. QED
        BY <4>4, <4>5, <4>6 DEF name
    <3>4. QED
      BY <3>3
  <2>10. Teller(Top)' /\ \A r \in ToSet(display.registries) : Lacks(Top', r) = {g.name}
    BY <1>4, <2>1, <2>2, <2>5, <2>6
  <2>11. QED
    BY <1>1, <1>3, <2>6, <2>7, <2>8, <2>9, <2>10, GlobalsAgree
<1>7. ASSUME NEW g \in ToSet(display.globals), g.removed, UNCHANGED stack,
             display' = [display EXCEPT !.globals = Unlinked(@, g)]
      PROVE  AgreeInv'
  <2>1. /\ display'.registries = display.registries /\ display'.id = display.id
        /\ ToSet(display'.globals) = ToSet(display.globals) \ {g}
        /\ Distinct(display'.globals)
    BY <1>7, UnlinkedAgree
  <2>2. \A c : Offered(c)' = Offered(c) \ {g.name}
    BY <1>1, <2>1, GlobalGone
  <2>3. \A c : g.name \notin Offered(c)
    BY <1>7, OfferedIs
  <2>4. Silent(Top')
    BY <1>1, <1>7, SilentSame
  <2>5. Teller(Top)' /\ \A r : Lacks(Top', r) = {}
    BY <2>4, LacksNothing DEF Teller, Silent
  <2>6. display'.id # 0 /\ \A h \in ToSet(display'.globals) : IsGlobal(h, display'.id)
    BY <2>1 DEF AgreeInv
  <2>7. QED
    BY <1>1, <1>3, <2>1, <2>2, <2>3, <2>5, <2>6, GlobalsAgree
<1>8. ASSUME NEW g \in ToSet(display.globals), wl_global_remove(g) PROVE AgreeInv'
  BY <1>5, <1>8 DEF wl_global_remove
<1>9. ASSUME NEW g \in ToSet(display.globals), wl_global_destroy(g) PROVE AgreeInv'
  BY <1>5, <1>7, <1>9 DEF wl_global_destroy
<1>10. QED
  BY <1>6, <1>8, <1>9 DEF CallGlobal

-----------------------------------------------------------------------------
(* A new registry, which nobody can have been told anything as yet.        *)

LEMMA GetRegistryAgree ==
  ASSUME ListenersInv, MemoryInv, AgreeInv, display_get_registry
  PROVE  AgreeInv'
<1> DEFINE c   == Top.c
           id  == Request.new
           reg == [c |-> c, id |-> id]
           cl  == [Served EXCEPT !.objects = [@ EXCEPT ![id] = "registry"]]
           f   == Telling(c, id, display.globals)
           new == <<reg>> \o display.registries
<1>1. /\ MayHandle /\ Creates(Request) /\ UNCHANGED <<scenario, peer>> /\ Call(f, Handled)
      /\ client' = [Consumed EXCEPT ![c].objects[id] = "registry"]
      /\ display' = [display EXCEPT !.registries = <<reg>> \o @]
  BY DEF display_get_registry, Creates, otherVars
<1>2. /\ At("requests") /\ IsClient(Served, Played.socket_space)
      /\ Served.objects = client[c].objects
      /\ Consumed = [client EXCEPT ![c] = Served]
      /\ Request \in ToSet(client[c].pending) /\ id \in Ids
  BY <1>1, ServedIs DEF IsRequest
<1>3. /\ c \in Clients /\ Silent(Top) /\ Asked(Served) \subseteq Asked(client[c])
      /\ Served.out = client[c].out /\ Served.to_client = client[c].to_client
      /\ Served.error = client[c].error
  BY <1>1, ServedAsks, ServedSpeaks
<1>4. client[c].objects[id] = "none" /\ id # Display /\ client[c].objects \in [Ids -> Kinds]
  BY <1>1, <1>2, AtRequests DEF Fresh, IsClient
<1>5. client' = [client EXCEPT ![c] = cl]
  <2>1. Consumed[c] = Served
    BY <1>2, <1>3 DEF MemoryInv, Types
  <2>2. client' = [Consumed EXCEPT ![c] =
                     [Consumed[c] EXCEPT !.objects = [@ EXCEPT ![id] = "registry"]]]
    BY <1>1
  <2>3. QED
    BY <1>2, <2>1, <2>2
<1>6. /\ cl.objects = [client[c].objects EXCEPT ![id] = "registry"]
      /\ cl.pending = Served.pending /\ cl.to_server = Served.to_server
      /\ cl.out = client[c].out /\ cl.to_client = client[c].to_client
      /\ cl.error = client[c].error
  BY <1>2, <1>3 DEF IsClient, ClientFields
<1> HIDE DEF cl
<1>7. cl.objects[id] = "registry"
  BY <1>2, <1>4, <1>6
<1>8. Asked(cl) \subseteq Asked(client[c]) /\ \A got : Speech(cl, got) = Speech(client[c], got)
  BY <1>3, <1>6 DEF Asked, Speech
<1>9. client'[c] = cl /\ \A d \in Clients : d # c => client'[d] = client[d]
  BY <1>3, <1>5, OneClient DEF MemoryInv
<1>10. \A r \in ToSet(display.registries) :
         r.c \in Clients /\ client[r.c].objects[r.id] = "registry"
  BY DEF MemoryInv, UseInv, ObjectsInv, Registered
<1>11. \A r \in ToSet(display.registries) : r.c # c \/ r.id # id
  BY <1>4, <1>10
<1>12. reg.c = c /\ reg.id = id
  OBVIOUS
<1>13. f.at = "tell" /\ f.c = c /\ f.id = id /\ f.rest = display.globals
  BY DEF Telling
<1> HIDE DEF f, reg
<1>14. /\ SameGlobals /\ ToSet(display'.registries) = {reg} \cup ToSet(display.registries)
  <2>1. reg \notin ToSet(display.registries)
    BY <1>11, <1>12
  <2>2. /\ IsSequence(display.registries) /\ IsInjective(display.registries)
        /\ DisplayFields \subseteq DOMAIN display
    BY SameRestIf DEF MemoryInv, Types, UseInv, ObjectsInv, Registered, IsDisplay
  <2>3. ToSet(new) = {reg} \cup ToSet(display.registries)
    BY <2>1, <2>2, SequenceCons
  <2>4. display' = [display EXCEPT !.registries = new]
    BY <1>1, <2>2 DEF DisplayFields
  <2> HIDE DEF new
  <2>5. SameGlobals /\ display'.registries = new
    BY <2>2, <2>4 DEF DisplayFields, SameGlobals
  <2>6. QED
    BY <2>3, <2>5
<1>15. Top' = f
  BY <1>1, TopCall DEF ListenersInv
<1>16. Teller(Top)'
  <2>1. IsInjective(display.globals)
    BY DEF AgreeInv, Distinct
  <2>2. QED
    BY <1>2, <1>7, <1>9, <1>13, <1>15, <2>1 DEF Teller
<1>17. \A r : /\ Lacks(Top, r) = {}
              /\ Lacks(Top', r) = IF r.c = c /\ r.id = id THEN Names(display.globals) ELSE {}
  BY <1>3, <1>13, <1>15, LacksNothing DEF Lacks
<1>18. \A d : Offered(d)' = Offered(d)
  BY <1>1, <1>14, OfferedSame DEF SameGlobals
<1>19. \A d \in Clients : Speech(client'[d], peer'[d].got) = Speech(client[d], peer[d].got)
  BY <1>1, <1>8, <1>9
<1>20. \A d \in Clients : client'[d].error = client[d].error
  BY <1>6, <1>9
<1>21. ASSUME NEW r \in ToSet(display'.registries), ~client'[r.c].error
       PROVE  Told(Speech(client'[r.c], peer'[r.c].got), r.id) = Offered(r.c) \ Lacks(Top', r)
  <2>1. CASE r \in ToSet(display.registries)
    <3>1. /\ r.c \in Clients /\ ~client[r.c].error
          /\ Speech(client'[r.c], peer'[r.c].got) = Speech(client[r.c], peer[r.c].got)
      BY <1>10, <1>19, <1>20, <1>21, <2>1
    <3>2. Told(Speech(client[r.c], peer[r.c].got), r.id) = Offered(r.c) \ Lacks(Top, r)
      BY <2>1, <3>1 DEF AgreeInv
    <3>3. Lacks(Top', r) = {} /\ Lacks(Top, r) = {}
      BY <1>11, <1>17, <2>1
    <3>4. QED
      BY <3>1, <3>2, <3>3
  <2>2. CASE r = reg
    <3>1. r.c = c /\ r.id = id /\ ~client[c].error
      BY <1>3, <1>12, <1>20, <1>21, <2>2
    <3>2. Untold(client[c], peer[c].got, peer[c].last)
      BY <1>3, <3>1 DEF AgreeInv
    <3>3. Request \in Asked(client[c])
      BY <1>2 DEF Asked
    <3>4. Told(Speech(client[c], peer[c].got), id) = {}
      BY <1>1, <1>2, <1>4, <3>2, <3>3 DEF Untold
    <3>5. Offered(c) \subseteq Names(display.globals)
      BY DEF Offered, Names
    <3>6. Lacks(Top', r) = Names(display.globals)
      BY <1>17, <3>1
    <3>7. Speech(client'[c], peer'[c].got) = Speech(client[c], peer[c].got)
      BY <1>3, <1>19
    <3>8. QED
      BY <3>1, <3>4, <3>5, <3>6, <3>7
  <2>3. QED
    BY <1>14, <1>21, <2>1, <2>2
<1>22. ASSUME NEW d \in Clients, ~client'[d].error
       PROVE  Untold(client'[d], peer'[d].got, peer'[d].last)
  <2>1. Untold(client[d], peer[d].got, peer[d].last)
    BY <1>20, <1>22 DEF AgreeInv
  <2>2. Asked(client'[d]) \subseteq Asked(client[d])
    BY <1>8, <1>9
  <2>3. QED
    BY <1>1, <1>19, <2>1, <2>2 DEF Untold
<1>23. \A r \in ToSet(display'.registries) : ~client'[r.c].error =>
         Told(Speech(client'[r.c], peer'[r.c].got), r.id) = (Offered(r.c) \ Lacks(Top, r))'
  BY <1>18, <1>21
<1>24. /\ display'.id # 0 /\ (\A g \in ToSet(display.globals) : IsGlobal(g, display.id))'
       /\ Distinct(display.globals)'
  BY <1>14 DEF AgreeInv, SameGlobals
<1>25. QED
  BY <1>16, <1>22, <1>23, <1>24 DEF AgreeInv

-----------------------------------------------------------------------------

LEMMA AgreeInit == Init => AgreeInv
<1> SUFFICES ASSUME Init PROVE AgreeInv
  OBVIOUS
<1> DEFINE f  == Frame("main", NULL)
           cl == [NewClient(<< >>, TRUE) EXCEPT !.life = "none"]
           m  == Len(Played.globals)
           s  == display.globals
<1>1. /\ stack = <<f>> /\ display.registries = << >> /\ display.id = m + 1
      /\ s = [i \in DOMAIN Played.globals |-> Global(i, Played.globals[i])]
      /\ \A c \in Clients : client[c] = cl /\ peer[c].got = << >>
  BY DEF Init
<1>2. cl.out = << >> /\ cl.to_client = << >> /\ f.at = "main"
  BY DEF NewClient, Frame, FrameOf
<1>3. Silent(Top)
  BY <1>1, <1>2 DEF Silent, Top, Last
<1> HIDE DEF f, cl
<1>4. Speech(cl, << >>) = << >>
  BY <1>2, EmptySequence, JoinEmpty DEF Speech
<1>5. \A c \in Clients : Untold(client[c], peer[c].got, peer[c].last)
  BY <1>1, <1>4, ToldNothing DEF Untold
<1>6. m \in Nat /\ DOMAIN Played.globals = 1..m
  <2>1. Played.globals \in Seq(STRING)
    BY ScenariosAssumption DEF Played, Init
  <2>2. QED
    BY <2>1, LenProperties
<1> HIDE DEF m
<1>7. \A i \in 1..m : i \in Nat \ {0} /\ i < m + 1
  BY <1>6
<1>8. /\ DOMAIN s = 1..m
      /\ \A i \in 1..m : /\ s[i].name = i /\ {"name", "interface", "removed"} \subseteq DOMAIN s[i]
  BY <1>1, <1>6 DEF Global
<1> HIDE DEF s
<1>9. display.id # 0 /\ \A g \in ToSet(s) : IsGlobal(g, display.id)
  BY <1>1, <1>6, <1>7, <1>8 DEF ToSet, IsGlobal
<1>10. Distinct(s)
  BY <1>8 DEF Distinct, IsInjective, ToSet
<1>11. Teller(Top) /\ ToSet(display.registries) = {}
  BY <1>1, <1>3, EmptySequence DEF Teller, Silent
<1>12. QED
  BY <1>5, <1>9, <1>10, <1>11 DEF AgreeInv, s

LEMMA AgreeStep ==
  ASSUME ListenersInv, MemoryInv, WordInv, AgreeInv, [Next]_vars
  PROVE  AgreeInv'
<1>1. CASE UNCHANGED vars
  BY <1>1, TerminateAgree
<1>2. CASE Next
  <2>1. CASE \/ wl_display_run \/ LoopTest \/ FlushClient \/ FlushNext \/ Poll \/ DispatchSource
             \/ DispatchEnds
    BY <2>1, LoopAgree, FlushAgree, DispatchSourceAgree
  <2>2. CASE \/ wl_client_create \/ wl_priv_signal_emit \/ wl_client_connection_data
             \/ RejectRequest \/ display_get_registry \/ display_sync \/ registry_bind
             \/ HandleDestroy \/ RequestsEnd
    BY <2>2, CreateAgree, QuietAgree, ReadAgree, RequestAgree, GetRegistryAgree, SyncAgree
  <2>3. CASE Announce \/ AnnouncementEnds \/ TellGlobal
    BY <2>3, AnnounceAgree, AnnouncementEndsAgree, TellAgree
  <2>4. CASE \/ wl_resource_destroy \/ DeleteId \/ destroy_resource \/ FreeResource
             \/ wl_client_destroy \/ FlushLast \/ EachResource \/ FreeClient
             \/ wl_display_destroy_clients \/ DestroyDetached
    BY <2>4, QuietAgree, DeleteIdAgree, FreeResourceAgree, ClientDestroyAgree, FlushLastAgree,
       FreeClientAgree
  <2>5. CASE CallGlobal \/ CallPost \/ CallDestroy \/ CallListen \/ HandlerReturns
    BY <2>5, CallGlobalAgree, CallPostAgree, CallDestroyAgree, CallListenAgree, QuietAgree
  <2>6. CASE \/ Terminate \/ TerminateWakes
             \/ \E c \in Clients : PeerSends(c) \/ PeerReads(c)
    BY <2>6, TerminateAgree, PeerSendsAgree, PeerReadsAgree
  <2>7. QED
    BY <1>2, <2>1, <2>2, <2>3, <2>4, <2>5, <2>6 DEF Next, ServerStep
<1>3. QED
  BY <1>1, <1>2

LEMMA AgreeInvariance == Spec => [](ListenersInv /\ MemoryInv /\ WordInv /\ AgreeInv)
<1>1. Init => ListenersInv /\ MemoryInv /\ WordInv /\ AgreeInv
  BY ListenersInit, MemoryInit, WordInit, AgreeInit
<1>2. ListenersInv /\ MemoryInv /\ WordInv /\ AgreeInv /\ [Next]_vars
        => (ListenersInv /\ MemoryInv /\ WordInv /\ AgreeInv)'
  BY ListenersStep, MemoryStep, WordStep, AgreeStep
<1>3. QED
  BY <1>1, <1>2, PTL DEF Spec

LEMMA AgreeFollows == ListenersInv /\ AgreeInv => RegistriesAgree
<1> SUFFICES ASSUME ListenersInv, AgreeInv, ~BeingTold, NEW r \in ToSet(display.registries),
                    ~client[r.c].error
             PROVE  Told(Said(r.c), r.id) = Offered(r.c)
  BY DEF RegistriesAgree
<1>1. Top \in ToSet(stack)
  BY StackNow DEF ListenersInv, ToSet
<1>2. Lacks(Top, r) = {}
  BY <1>1, LacksNothing DEF BeingTold, Silent
<1>3. Told(Speech(client[r.c], peer[r.c].got), r.id) = Offered(r.c)
  BY <1>2 DEF AgreeInv
<1>4. QED
  BY <1>3 DEF Said, Speech

(* Whenever nobody is being told, what a client that is in no error has    *)
(* been sent by a registry of its own names the globals there are that are *)
(* visible to it, and no other: whatever globals handlers create, remove   *)
(* and destroy, and whatever clients ask meanwhile (wl_global_create,      *)
(* wl_global_remove, wl_global_destroy, display_get_registry).             *)
THEOREM RegistriesAreTold == Spec => []RegistriesAgree
BY AgreeInvariance, AgreeFollows, PTL

-----------------------------------------------------------------------------
(* What clients are told and ask for.  As long as a client is neither gone *)
(* nor in error, and the compositor destroys no object of its own accord,  *)
(* its requests are about objects that are there, or will be when it is    *)
(* their turn.                                                             *)

(* Client c may bind name, for all it will ever hear.                      *)
Knows(c, name, d) ==
  /\ name \in Nat /\ name < d.id
  /\ \A g \in ToSet(d.globals) : g.name = name => wl_global_is_visible(c, g)

Excused(why, d) ==
  \/ why[1] = "global" /\ why[2] \in Nat /\ why[2] < d.id /\ why[2] \notin Names(d.globals)
  \/ why[1] = "object" /\ "drop" \in Played.calls
  \/ why[1] = "own"
  \/ why[1] = "wrong" /\ ~Played.honest

Free(cl) == /\ "drop" \notin Played.calls
            /\ cl.life = "none" \/ (cl.life = "live" /\ ~cl.error)

(* What a client has been told, and what it asks.                          *)
IsTrue(c, cl, e, d) ==
  /\ e.op = "global" => /\ Knows(c, e.arg, d) /\ e.obj \in Ids
                        /\ Free(cl) => cl.objects[e.obj] = "registry"
  /\ e.op = "error" => Excused(e.arg, d)

Sane(c, r, d) ==
  /\ r.op = "bind" => Knows(c, r.name, d)
  /\ r.op = "wrong" => ~Played.honest

Orderly(program) ==
  /\ IsSequence(program)
  /\ \A i \in DOMAIN program :
       /\ program[i] = "wrong" => ~Played.honest
       /\ program[i] = "destroy" /\ i > 1 => program[i - 1] = "bind"

(* The request to destroy what has just been bound, if it comes next.      *)
Planned(p) ==
  IF p.program # << >> /\ Head(p.program) = "destroy"
  THEN << Ask(NULL, "destroy", p.last, p.last, 0) >> ELSE << >>

Coming(cl, p) == cl.pending \o cl.to_server \o Planned(p)

(* Requests s are about objects, or those that requests before them bind.  *)
Sensible(s, objects, last) ==
  \A i \in DOMAIN s :
    /\ s[i].op = "bind" => objects[s[i].obj] = "registry"
    /\ s[i].op = "destroy" =>
         /\ s[i].obj <= last
         /\ \/ objects[s[i].obj] = "object"
            \/ \E j \in 1..i - 1 : s[j].op = "bind" /\ s[j].new = s[i].obj
         /\ \A j \in 1..i - 1 : s[j].op = "destroy" => s[j].obj # s[i].obj
    /\ s[i].op \notin {"bind", "destroy"} => s[i].obj = Display

Polite(cl, p) ==
  Free(cl) => /\ cl.display_resource /\ cl.objects[Display] = "display"
              /\ Sensible(Coming(cl, p), cl.objects, p.last)

Blank(cl) ==
  cl.life = "none" => cl.pending = << >> /\ cl.objects = NewClient(<< >>, TRUE).objects

Honest(c, cl, p, d) ==
  /\ \A e \in ToSet(Speech(cl, p.got)) : IsTrue(c, cl, e, d)
  /\ \A r \in Asked(cl) : Sane(c, r, d)
  /\ Orderly(p.program) /\ Polite(cl, p) /\ Blank(cl)

(* Who works on a client that lives, or is destroyed; and what is destroyed*)
(* of a client that lives is not asked for any more.                       *)
Placed(f, cls) ==
  /\ f.at \in {"connection_data", "requests"} => cls[f.c].life = "live"
  /\ f.at \in {"client_flush", "client_resources"} => cls[f.c].life = "dying"

Doomed(f, cls, prs) ==
  f.at \in Resource /\ Free(cls[f.c]) =>
    /\ cls[f.c].objects[f.id] \notin {"registry", "display"} /\ f.id <= prs[f.c].last
    /\ \A r \in ToSet(Coming(cls[f.c], prs[f.c])) : r.op = "destroy" => r.obj # f.id

Fair(f, cls, prs) == Placed(f, cls) /\ Doomed(f, cls, prs)

HonestInv ==
  /\ \A c \in Clients : Honest(c, client[c], peer[c], display)
  /\ \A i \in DOMAIN stack : Fair(stack[i], client, peer)

-----------------------------------------------------------------------------
(* Requests as they are added and served.                                  *)

LEMMA SensibleKept ==
  ASSUME NEW s, NEW o, NEW last, Sensible(s, o, last), NEW o2,
         \A r \in ToSet(s) : /\ r.op = "bind" /\ o[r.obj] = "registry" => o2[r.obj] = "registry"
                             /\ r.op = "destroy" /\ o[r.obj] = "object" => o2[r.obj] = "object"
  PROVE  Sensible(s, o2, last)
<1>1. \A i \in DOMAIN s : s[i] \in ToSet(s)
  BY DEF ToSet
<1>2. QED
  BY <1>1 DEF Sensible

LEMMA SensibleTail ==
  ASSUME NEW s, IsSequence(s), s # << >>, NEW o, NEW last, Sensible(s, o, last), NEW o2,
         Head(s).op = "bind" => o2[Head(s).new] = "object",
         \A r \in ToSet(Tail(s)) :
           /\ r.op = "bind" /\ o[r.obj] = "registry" => o2[r.obj] = "registry"
           /\ r.op = "destroy" /\ o[r.obj] = "object" => o2[r.obj] = "object"
  PROVE  Sensible(Tail(s), o2, last)
<1> DEFINE t == Tail(s)
<1>1. /\ Len(s) \in Nat \ {0} /\ Head(s) = s[1] /\ DOMAIN t = 1..Len(s) - 1
      /\ \A i \in 1..Len(s) - 1 : t[i] = s[i + 1]
  BY SequenceTail
<1>2. DOMAIN s = 1..Len(s)
  BY SequenceIs
<1>3. \A i \in DOMAIN t : t[i] \in ToSet(t)
  BY DEF ToSet
<1> HIDE DEF t
<1>4. SUFFICES ASSUME NEW i \in DOMAIN t
               PROVE  /\ t[i].op = "bind" => o2[t[i].obj] = "registry"
                      /\ t[i].op = "destroy" =>
                           /\ t[i].obj <= last
                           /\ \/ o2[t[i].obj] = "object"
                              \/ \E j \in 1..i - 1 : t[j].op = "bind" /\ t[j].new = t[i].obj
                           /\ \A j \in 1..i - 1 : t[j].op = "destroy" => t[j].obj # t[i].obj
                      /\ t[i].op \notin {"bind", "destroy"} => t[i].obj = Display
  BY DEF Sensible, t
<1>5. i \in Nat \ {0} /\ i + 1 \in DOMAIN s /\ t[i] = s[i + 1] /\ t[i] \in ToSet(t)
  BY <1>1, <1>2, <1>3
<1>6. \A j \in 1..i - 1 : j \in 1..Len(s) - 1 /\ j + 1 \in 1..(i + 1) - 1 /\ t[j] = s[j + 1]
  BY <1>1, <1>4
<1>7. \A j \in 1..(i + 1) - 1 : j = 1 \/ (j - 1 \in 1..i - 1 /\ j = (j - 1) + 1)
  BY <1>5
<1>8. ASSUME t[i].op = "destroy", o2[t[i].obj] # "object"
      PROVE  \E j \in 1..i - 1 : t[j].op = "bind" /\ t[j].new = t[i].obj
  <2>1. o[t[i].obj] # "object"
    BY <1>5, <1>8 DEF t
  <2>2. PICK j \in 1..(i + 1) - 1 : s[j].op = "bind" /\ s[j].new = t[i].obj
    BY <1>5, <1>8, <2>1 DEF Sensible
  <2>3. j # 1
    BY <1>1, <1>8, <2>2
  <2>4. j - 1 \in 1..i - 1 /\ t[j - 1] = s[j]
    BY <1>6, <1>7, <2>3
  <2>5. QED
    BY <2>2, <2>4
<1>9. t[i].op = "destroy" =>
        t[i].obj <= last /\ \A j \in 1..i - 1 : t[j].op = "destroy" => t[j].obj # t[i].obj
  BY <1>5, <1>6 DEF Sensible
<1>10. t[i].op = "bind" => o2[t[i].obj] = "registry"
  BY <1>5 DEF Sensible, t
<1>11. t[i].op \notin {"bind", "destroy"} => t[i].obj = Display
  BY <1>5 DEF Sensible
<1>12. QED
  BY <1>8, <1>9, <1>10, <1>11

LEMMA SensibleAppend ==
  ASSUME NEW s, IsSequence(s), NEW o, NEW last \in Nat, NEW last2 \in Nat, last <= last2,
         Sensible(s, o, last), \A r \in ToSet(s) : r.obj \in Nat,
         NEW q,
         q.op = "bind" => o[q.obj] = "registry",
         q.op = "destroy" => /\ q.obj <= last2
                             /\ \E r \in ToSet(s) : r.op = "bind" /\ r.new = q.obj
                             /\ \A r \in ToSet(s) : r.op = "destroy" => r.obj # q.obj,
         q.op \notin {"bind", "destroy"} => q.obj = Display
  PROVE  Sensible(Append(s, q), o, last2)
<1> DEFINE t == Append(s, q)
           n == Len(s) + 1
<1>1. /\ DOMAIN t = 1..n /\ t[n] = q /\ n \in Nat /\ DOMAIN s = 1..Len(s) /\ Len(s) \in Nat
      /\ \A i \in 1..Len(s) : t[i] = s[i]
  BY SequenceAppend, SequenceIs
<1>2. \A i \in DOMAIN s : s[i] \in ToSet(s)
  BY DEF ToSet
<1> HIDE DEF t
<1>3. ASSUME NEW i \in DOMAIN s
      PROVE  /\ t[i].op = "bind" => o[t[i].obj] = "registry"
             /\ t[i].op = "destroy" =>
                  /\ t[i].obj <= last2
                  /\ \/ o[t[i].obj] = "object"
                     \/ \E j \in 1..i - 1 : t[j].op = "bind" /\ t[j].new = t[i].obj
                  /\ \A j \in 1..i - 1 : t[j].op = "destroy" => t[j].obj # t[i].obj
             /\ t[i].op \notin {"bind", "destroy"} => t[i].obj = Display
  <2>1. t[i] = s[i] /\ \A j \in 1..i - 1 : t[j] = s[j]
    BY <1>1
  <2>2. s[i].op = "destroy" => s[i].obj <= last2
    <3>1. s[i].obj \in Nat
      BY <1>2
    <3>2. s[i].op = "destroy" => s[i].obj <= last
      BY DEF Sensible
    <3>3. QED
      BY <3>1, <3>2
  <2>3. QED
    BY <2>1, <2>2 DEF Sensible
<1>4. ASSUME t[n].op = "destroy"
      PROVE  /\ t[n].obj <= last2
             /\ \E j \in 1..n - 1 : t[j].op = "bind" /\ t[j].new = t[n].obj
             /\ \A j \in 1..n - 1 : t[j].op = "destroy" => t[j].obj # t[n].obj
  <2>1. n - 1 = Len(s)
    BY <1>1
  <2>2. \A r \in ToSet(s) : \E j \in 1..n - 1 : t[j] = r
    BY <1>1, <2>1 DEF ToSet
  <2>3. \A j \in 1..n - 1 : t[j] \in ToSet(s)
    BY <1>1, <1>2, <2>1
  <2>4. QED
    BY <1>1, <1>4, <2>2, <2>3
<1>5. \A i \in 1..n : i \in DOMAIN s \/ i = n
  BY <1>1
<1>6. QED
  BY <1>1, <1>3, <1>4, <1>5 DEF Sensible, t

LEMMA JoinTail ==
  ASSUME NEW s, IsSequence(s), s # << >>, NEW t, IsSequence(t)
  PROVE  s \o t # << >> /\ Tail(s \o t) = Tail(s) \o t /\ Head(s \o t) = Head(s)
<1> DEFINE j == s \o t
           u == Tail(s)
<1>1. /\ IsSequence(u) /\ Len(u) = Len(s) - 1 /\ Len(s) \in Nat \ {0} /\ Head(s) = s[1]
      /\ \A i \in 1..Len(s) - 1 : u[i] = s[i + 1]
  BY SequenceTail
<1>2. IsSequence(j) /\ j # << >>
  BY SequenceConcat, JoinIsEmpty
<1>3. /\ Len(j) = Len(s) + Len(t)
      /\ \A i \in 1..Len(s) + Len(t) : j[i] = IF i <= Len(s) THEN s[i] ELSE t[i - Len(s)]
  BY SequenceConcat
<1>4. /\ IsSequence(u \o t) /\ DOMAIN (u \o t) = 1..Len(u) + Len(t)
      /\ \A i \in 1..Len(u) + Len(t) :
           (u \o t)[i] = IF i <= Len(u) THEN u[i] ELSE t[i - Len(u)]
  BY <1>1, SequenceConcat
<1>5. Len(t) \in Nat
  BY SequenceIs
<1> HIDE DEF j, u
<1>6. /\ IsSequence(Tail(j)) /\ Head(j) = j[1] /\ DOMAIN Tail(j) = 1..Len(j) - 1
      /\ \A i \in 1..Len(j) - 1 : Tail(j)[i] = j[i + 1]
  BY <1>2, SequenceTail
<1>7. ASSUME NEW i \in 1..Len(j) - 1 PROVE Tail(j)[i] = (u \o t)[i]
  <2>1. i \in Nat /\ i + 1 \in 1..Len(s) + Len(t) /\ i \in 1..Len(u) + Len(t)
    BY <1>1, <1>3, <1>5
  <2>2. CASE i <= Len(u)
    <3>1. i + 1 <= Len(s) /\ i \in 1..Len(s) - 1
      BY <1>1, <2>1, <2>2
    <3>2. QED
      BY <1>1, <1>3, <1>4, <1>6, <2>1, <2>2, <3>1
  <2>3. CASE ~(i <= Len(u))
    <3>1. ~(i + 1 <= Len(s)) /\ (i + 1) - Len(s) = i - Len(u)
      BY <1>1, <2>1, <2>3
    <3>2. QED
      BY <1>3, <1>4, <1>6, <2>1, <2>3, <3>1
  <2>4. QED
    BY <2>2, <2>3
<1>8. Len(j) - 1 = Len(u) + Len(t) /\ 1 \in 1..Len(s) + Len(t) /\ 1 <= Len(s)
  BY <1>1, <1>3, <1>5
<1>9. Tail(j) = u \o t
  <2>1. DOMAIN Tail(j) = DOMAIN (u \o t)
    BY <1>4, <1>6, <1>8
  <2>2. \E S : Tail(j) \in [DOMAIN Tail(j) -> S]
    BY <1>6, SequenceIs, LenProperties
  <2>3. \E S : (u \o t) \in [DOMAIN (u \o t) -> S]
    BY <1>4, SequenceIs, LenProperties
  <2>4. QED
    BY <1>6, <1>7, <2>1, <2>2, <2>3
<1>10. Head(j) = Head(s)
  BY <1>1, <1>3, <1>6, <1>8
<1>11. QED
  BY <1>2, <1>9, <1>10 DEF j, u

LEMMA OneElement ==
  \A e : IsSequence(<< e >>) /\ ToSet(<< e >>) = {e}
<1> SUFFICES ASSUME NEW e PROVE IsSequence(<< e >>) /\ ToSet(<< e >>) = {e}
  OBVIOUS
<1>1. << e >> \in Seq({e}) /\ DOMAIN << e >> = {1} /\ << e >>[1] = e
  OBVIOUS
<1>2. QED
  BY <1>1 DEF IsSequence, ToSet

LEMMA PlannedIs ==
  ASSUME NEW p, IsPeer(p)
  PROVE  /\ IsSequence(Planned(p))
         /\ \A r \in ToSet(Planned(p)) :
              r.op = "destroy" /\ r.obj = p.last /\ r.new = p.last /\ IsRequest(r)
<1> DEFINE d == Ask(NULL, "destroy", p.last, p.last, 0)
<1>1. d.op = "destroy" /\ d.obj = p.last /\ d.new = p.last /\ IsRequest(d)
  BY DEF Ask, IsRequest, IsPeer
<1>2. IsSequence(<< d >>) /\ ToSet(<< d >>) = {d}
  BY OneElement
<1>3. Planned(p) = << d >> \/ Planned(p) = << >>
  BY DEF Planned
<1> HIDE DEF d
<1>4. QED
  BY <1>1, <1>2, <1>3, EmptySequence

LEMMA ComingIs ==
  ASSUME NEW cl, NEW space, IsClient(cl, space), NEW p, IsPeer(p)
  PROVE  /\ IsSequence(Coming(cl, p)) /\ \A r \in ToSet(Coming(cl, p)) : IsRequest(r)
         /\ ToSet(Coming(cl, p)) = Asked(cl) \cup ToSet(Planned(p))
<1>1. IsSequence(cl.pending) /\ IsSequence(cl.to_server) /\ \A r \in Asked(cl) : IsRequest(r)
  BY DEF IsClient, Asked
<1>2. /\ IsSequence(cl.pending \o cl.to_server)
      /\ ToSet(cl.pending \o cl.to_server) = Asked(cl)
  BY <1>1, SequenceConcat DEF Asked
<1>3. /\ IsSequence(Coming(cl, p))
      /\ ToSet(Coming(cl, p)) = Asked(cl) \cup ToSet(Planned(p))
  BY <1>2, PlannedIs, SequenceConcat DEF Coming
<1>4. QED
  BY <1>1, <1>3, PlannedIs

LEMMA ComingTail ==
  ASSUME NEW cl, NEW space, IsClient(cl, space), NEW p, IsPeer(p), cl.pending # << >>,
         NEW cl2, cl2.pending = Tail(cl.pending), cl2.to_server = cl.to_server
  PROVE  /\ Coming(cl, p) # << >> /\ Head(Coming(cl, p)) = Head(cl.pending)
         /\ Coming(cl2, p) = Tail(Coming(cl, p))
<1>1. IsSequence(cl.pending) /\ IsSequence(cl.to_server)
  BY DEF IsClient
<1> DEFINE s == cl.pending \o cl.to_server
<1>2. /\ IsSequence(s) /\ s # << >> /\ Head(s) = Head(cl.pending)
      /\ Tail(s) = Tail(cl.pending) \o cl.to_server
  BY <1>1, JoinTail, SequenceConcat
<1> HIDE DEF s
<1>3. /\ s \o Planned(p) # << >> /\ Head(s \o Planned(p)) = Head(s)
      /\ Tail(s \o Planned(p)) = Tail(s) \o Planned(p)
  BY <1>2, JoinTail, PlannedIs
<1>4. Coming(cl, p) = s \o Planned(p) /\ Coming(cl2, p) = Tail(s) \o Planned(p)
  BY <1>2 DEF Coming, s
<1>5. QED
  BY <1>2, <1>3, <1>4

-----------------------------------------------------------------------------
(* What steps leave of this.                                               *)

(* Globals come with new names, or are the old ones.                       *)
Aged(d, d2) ==
  /\ d.id \in Nat /\ d2.id \in Nat /\ d.id <= d2.id
  /\ \A g \in ToSet(d2.globals) :
       g.name = d.id \/ \E h \in ToSet(d.globals) : h.name = g.name /\ h.interface = g.interface

(* A client goes on as it is, though it may be told something.             *)
Moves(c, cl, p, cl2, p2, d2) ==
  /\ Free(cl2) => /\ Free(cl) /\ cl2.objects = cl.objects
                  /\ cl.display_resource => cl2.display_resource
                  /\ Coming(cl2, p2) = Coming(cl, p) /\ p2.last = p.last
  /\ Asked(cl2) \subseteq Asked(cl) /\ p2.program = p.program
  /\ cl2.life = "none" => cl.life = "none" /\ cl2.pending = cl.pending /\ cl2.objects = cl.objects
  /\ \A e \in ToSet(Speech(cl2, p2.got)) :
       e \in ToSet(Speech(cl, p.got)) \/ IsTrue(c, cl2, e, d2)

(* What is destroyed of a client is not asked for again.                   *)
Stays(cl, p, cl2, p2) ==
  Free(cl2) =>
    /\ Free(cl) /\ p2.last \in Ids /\ p.last <= p2.last
    /\ \A k \in Ids : cl2.objects[k] \in {"registry", "display"} => cl.objects[k] = cl2.objects[k]
    /\ \A r \in ToSet(Coming(cl2, p2)) : r.op = "destroy" =>
         r \in ToSet(Coming(cl, p)) \/ ~(r.obj <= p.last)

Kin(c) == /\ Stays(client[c], peer[c], client'[c], peer'[c])
          /\ client'[c].life = client[c].life

LEMMA KnowsKept ==
  ASSUME NEW c, NEW name, NEW d, NEW d2, Knows(c, name, d), Aged(d, d2)
  PROVE  Knows(c, name, d2)
<1>1. name \in Nat /\ name < d.id /\ d.id \in Nat /\ d2.id \in Nat /\ d.id <= d2.id
  BY DEF Knows, Aged
<1>2. name < d2.id /\ name # d.id
  BY <1>1
<1>3. ASSUME NEW g \in ToSet(d2.globals), g.name = name
      PROVE  wl_global_is_visible(c, g)
  <2>1. PICK h \in ToSet(d.globals) : h.name = g.name /\ h.interface = g.interface
    BY <1>2, <1>3 DEF Aged
  <2>2. wl_global_is_visible(c, h)
    BY <1>3, <2>1 DEF Knows
  <2>3. QED
    BY <2>1, <2>2 DEF wl_global_is_visible
<1>4. QED
  BY <1>1, <1>2, <1>3 DEF Knows

LEMMA ExcusedKept ==
  ASSUME NEW why, NEW d, NEW d2, Excused(why, d), Aged(d, d2)
  PROVE  Excused(why, d2)
<1>1. CASE /\ why[1] = "global" /\ why[2] \in Nat /\ why[2] < d.id
           /\ why[2] \notin Names(d.globals)
  <2>1. d.id \in Nat /\ d2.id \in Nat /\ d.id <= d2.id
    BY DEF Aged
  <2>2. why[2] < d2.id /\ why[2] # d.id
    BY <1>1, <2>1
  <2>3. why[2] \notin Names(d2.globals)
    BY <1>1, <2>2 DEF Names, Aged
  <2>4. QED
    BY <1>1, <2>2, <2>3 DEF Excused
<1>2. QED
  BY <1>1 DEF Excused

LEMMA TrueKept ==
  ASSUME NEW c, NEW cl, NEW cl2, NEW e, NEW d, NEW d2, IsTrue(c, cl, e, d), Aged(d, d2),
         Free(cl2) => /\ Free(cl)
                      /\ cl.objects[e.obj] = "registry" => cl2.objects[e.obj] = "registry"
  PROVE  IsTrue(c, cl2, e, d2)
BY KnowsKept, ExcusedKept DEF IsTrue

LEMMA SaneKept ==
  ASSUME NEW c, NEW r, NEW d, NEW d2, Sane(c, r, d), Aged(d, d2)
  PROVE  Sane(c, r, d2)
BY KnowsKept DEF Sane

LEMMA HonestMoves ==
  ASSUME NEW c, NEW cl, NEW p, NEW d, NEW cl2, NEW p2, NEW d2, Honest(c, cl, p, d), Aged(d, d2),
         Moves(c, cl, p, cl2, p2, d2)
  PROVE  Honest(c, cl2, p2, d2)
<1>1. ASSUME NEW e \in ToSet(Speech(cl2, p2.got)) PROVE IsTrue(c, cl2, e, d2)
  <2>1. CASE e \in ToSet(Speech(cl, p.got))
    <3>1. IsTrue(c, cl, e, d)
      BY <2>1 DEF Honest
    <3>2. Free(cl2) => Free(cl) /\ cl2.objects = cl.objects
      BY DEF Moves
    <3>3. QED
      BY <3>1, <3>2, TrueKept
  <2>2. QED
    BY <1>1, <2>1 DEF Moves
<1>2. \A r \in Asked(cl2) : Sane(c, r, d2)
  BY SaneKept DEF Moves, Honest
<1>3. Orderly(p2.program) /\ Polite(cl2, p2) /\ Blank(cl2)
  BY DEF Moves, Honest, Polite, Blank
<1>4. QED
  BY <1>1, <1>2, <1>3 DEF Honest

LEMMA MovesSame ==
  ASSUME NEW c, NEW cl, NEW p, NEW cl2, NEW p2, cl2 = cl, p2.got = p.got, p2.last = p.last,
         p2.program = p.program, NEW d2
  PROVE  Moves(c, cl, p, cl2, p2, d2)
BY DEF Moves, Coming, Planned

LEMMA StaysMoves ==
  ASSUME NEW c, NEW cl, NEW p, IsPeer(p), NEW cl2, NEW p2, NEW d2, Moves(c, cl, p, cl2, p2, d2)
  PROVE  Stays(cl, p, cl2, p2)
<1>1. p.last \in Ids /\ p.last <= p.last
  BY DEF IsPeer, Ids
<1>2. QED
  BY <1>1 DEF Moves, Stays

LEMMA AgedSame ==
  ASSUME MemoryInv, SameGlobals
  PROVE  Aged(display, display')
<1>1. display.id \in Nat
  BY DEF MemoryInv, Types, IsDisplay
<1>2. display.id <= display.id
  BY <1>1
<1>3. QED
  BY <1>1, <1>2 DEF Aged, SameGlobals

LEMMA FairKept ==
  ASSUME MemoryInv, NEW f, Known(f), Fair(f, client, peer), f.c \in Clients => Kin(f.c)
  PROVE  Fair(f, client', peer')
<1>1. Placed(f, client')
  BY DEF Fair, Placed, Kin, Known, ForClient, Destroyers
<1>2. ASSUME f.at \in Resource, Free(client'[f.c])
      PROVE  /\ client'[f.c].objects[f.id] \notin {"registry", "display"}
             /\ f.id <= peer'[f.c].last
             /\ \A r \in ToSet(Coming(client'[f.c], peer'[f.c])) : r.op = "destroy" => r.obj # f.id
  <2>1. f.c \in Clients /\ f.id \in Ids
    BY <1>2 DEF Known, ForClient
  <2>2. Stays(client[f.c], peer[f.c], client'[f.c], peer'[f.c])
    BY <2>1 DEF Kin
  <2>3. /\ client[f.c].objects[f.id] \notin {"registry", "display"} /\ f.id <= peer[f.c].last
        /\ \A r \in ToSet(Coming(client[f.c], peer[f.c])) : r.op = "destroy" => r.obj # f.id
    BY <1>2, <2>2 DEF Fair, Doomed, Stays
  <2>4. peer[f.c].last \in Ids /\ peer'[f.c].last \in Ids /\ peer[f.c].last <= peer'[f.c].last
    BY <1>2, <2>1, <2>2 DEF Stays, MemoryInv, Types, IsPeer
  <2>5. f.id <= peer'[f.c].last
    BY <2>1, <2>3, <2>4 DEF Ids
  <2>6. QED
    BY <1>2, <2>1, <2>2, <2>3, <2>5 DEF Stays
<1>3. QED
  BY <1>1, <1>2 DEF Fair, Doomed

FairAfter == \A i \in DOMAIN stack' : Fair(stack'[i], client', peer')

LEMMA FairBelow ==
  ASSUME ListenersInv, MemoryInv, HonestInv,
         \A i \in Below : stack[i].c \in Clients => Kin(stack[i].c)
  PROVE  \A i \in Below : i \in DOMAIN stack /\ Fair(stack[i], client', peer')
<1>1. \A i \in Below : i \in DOMAIN stack /\ Known(stack[i]) /\ Fair(stack[i], client, peer)
  BY DEF Below, MemoryInv, UseInv, FramesInv, HonestInv
<1>2. QED
  BY <1>1, FairKept

LEMMA FairGoto ==
  ASSUME ListenersInv, MemoryInv, HonestInv, NEW f, Goto(f), Fair(f, client', peer'),
         \A i \in Below : stack[i].c \in Clients => Kin(stack[i].c)
  PROVE  FairAfter
<1>1. /\ DOMAIN stack' = DOMAIN stack /\ stack'[Len(stack)] = f
      /\ \A i \in DOMAIN stack : i # Len(stack) => stack'[i] = stack[i]
  BY Gone DEF ListenersInv
<1>2. \A i \in Below : Fair(stack[i], client', peer')
  BY FairBelow
<1>3. QED
  BY <1>1, <1>2 DEF FairAfter, Below

LEMMA FairCall ==
  ASSUME ListenersInv, MemoryInv, HonestInv, NEW f, NEW after, Call(f, after),
         Fair(f, client', peer'), Fair(after, client', peer'),
         \A i \in Below : stack[i].c \in Clients => Kin(stack[i].c)
  PROVE  FairAfter
<1>1. /\ DOMAIN stack' = DOMAIN stack \cup {Len(stack) + 1}
      /\ stack'[Len(stack)] = after /\ stack'[Len(stack) + 1] = f
      /\ \A i \in DOMAIN stack : i # Len(stack) => stack'[i] = stack[i]
  BY Called DEF ListenersInv
<1>2. \A i \in Below : Fair(stack[i], client', peer')
  BY FairBelow
<1>3. QED
  BY <1>1, <1>2 DEF FairAfter, Below

LEMMA FairReturn ==
  ASSUME ListenersInv, MemoryInv, HonestInv, Return,
         \A i \in Below : stack[i].c \in Clients => Kin(stack[i].c)
  PROVE  FairAfter
<1>1. \A i \in DOMAIN stack' : i \in DOMAIN stack /\ i \in Below /\ stack'[i] = stack[i]
  BY Returned DEF ListenersInv, Below
<1>2. \A i \in Below : Fair(stack[i], client', peer')
  BY FairBelow
<1>3. QED
  BY <1>1, <1>2 DEF FairAfter

LEMMA FairSame ==
  ASSUME MemoryInv, HonestInv, UNCHANGED stack, \A c \in Clients : Kin(c)
  PROVE  FairAfter
<1>1. \A i \in DOMAIN stack : Known(stack[i]) /\ Fair(stack[i], client, peer)
  BY DEF MemoryInv, UseInv, FramesInv, HonestInv
<1>2. QED
  BY <1>1, FairKept DEF FairAfter

HonestAfter == \A c \in Clients : Honest(c, client'[c], peer'[c], display')

LEMMA HonestPrimed ==
  ASSUME UNCHANGED scenario, HonestAfter, FairAfter
  PROVE  HonestInv'
BY DEF HonestInv, HonestAfter, FairAfter, Honest, Fair, Placed, Doomed, IsTrue, Sane, Orderly,
   Polite, Free, Knows, Excused, wl_global_is_visible, Played

(* Clients to which nothing happens.                                       *)
LEMMA Untouched ==
  ASSUME MemoryInv, HonestInv, Aged(display, display'), NEW c \in Clients,
         client'[c] = client[c], peer'[c].got = peer[c].got, peer'[c].last = peer[c].last,
         peer'[c].program = peer[c].program
  PROVE  Honest(c, client'[c], peer'[c], display') /\ Kin(c)
<1>1. Moves(c, client[c], peer[c], client'[c], peer'[c], display')
  BY MovesSame
<1>2. IsPeer(peer[c]) /\ Honest(c, client[c], peer[c], display)
  BY DEF MemoryInv, Types, HonestInv
<1>3. QED
  BY <1>1, <1>2, HonestMoves, StaysMoves DEF Kin

(* One client goes on.                                                     *)
LEMMA OneMoves ==
  ASSUME MemoryInv, HonestInv, Aged(display, display'), UNCHANGED peer, NEW c \in Clients, NEW cl,
         client' = [client EXCEPT ![c] = cl],
         Moves(c, client[c], peer[c], cl, peer[c], display')
  PROVE  /\ HonestAfter /\ (cl.life = client[c].life => Kin(c))
         /\ \A b \in Clients : b # c => Kin(b)
<1>1. client'[c] = cl /\ \A b \in Clients : b # c => client'[b] = client[b]
  BY OneClient DEF MemoryInv
<1>2. IsPeer(peer[c]) /\ Honest(c, client[c], peer[c], display)
  BY DEF MemoryInv, Types, HonestInv
<1>3. Honest(c, cl, peer[c], display') /\ Stays(client[c], peer[c], cl, peer[c])
  BY <1>2, HonestMoves, StaysMoves
<1>4. \A b \in Clients : b # c => Honest(b, client'[b], peer'[b], display') /\ Kin(b)
  BY <1>1, Untouched
<1>5. QED
  BY <1>1, <1>3, <1>4 DEF HonestAfter, Kin

-----------------------------------------------------------------------------
(* Steps in which nothing happens to clients.                              *)

Watched == Resource \cup {"connection_data", "requests", "client_flush", "client_resources"}

LEMMA Unwatched ==
  ASSUME NEW f, f.at \notin Watched, NEW cls, NEW prs
  PROVE  Fair(f, cls, prs)
BY DEF Fair, Placed, Doomed, Watched

SameWorld ==
  /\ UNCHANGED <<scenario, client>> /\ SameGlobals
  /\ \A c \in Clients : /\ peer'[c].got = peer[c].got /\ peer'[c].last = peer[c].last
                        /\ peer'[c].program = peer[c].program

LEMMA WorldHonest ==
  ASSUME MemoryInv, HonestInv, SameWorld
  PROVE  HonestAfter /\ \A c \in Clients : Kin(c)
<1>1. Aged(display, display')
  BY AgedSame DEF SameWorld
<1>2. QED
  BY <1>1, Untouched DEF SameWorld, HonestAfter

LEMMA StillGoto ==
  ASSUME ListenersInv, MemoryInv, HonestInv, SameWorld, NEW f, Goto(f), Fair(f, client', peer')
  PROVE  HonestInv'
<1>1. HonestAfter /\ FairAfter
  BY WorldHonest, FairGoto
<1>2. QED
  BY <1>1, HonestPrimed DEF SameWorld

LEMMA StillCall ==
  ASSUME ListenersInv, MemoryInv, HonestInv, SameWorld, NEW f, NEW after, Call(f, after),
         Fair(f, client', peer'), Fair(after, client', peer')
  PROVE  HonestInv'
<1>1. HonestAfter /\ FairAfter
  BY WorldHonest, FairCall
<1>2. QED
  BY <1>1, HonestPrimed DEF SameWorld

LEMMA StillReturn ==
  ASSUME ListenersInv, MemoryInv, HonestInv, SameWorld, Return
  PROVE  HonestInv'
<1>1. HonestAfter /\ FairAfter
  BY WorldHonest, FairReturn
<1>2. QED
  BY <1>1, HonestPrimed DEF SameWorld

LEMMA StillSame ==
  ASSUME MemoryInv, HonestInv, SameWorld, UNCHANGED stack
  PROVE  HonestInv'
<1>1. HonestAfter /\ FairAfter
  BY WorldHonest, FairSame
<1>2. QED
  BY <1>1, HonestPrimed DEF SameWorld

LEMMA WorldIf ==
  ASSUME MemoryInv, UNCHANGED <<scenario, client, peer>>
  PROVE  /\ display' = display => SameWorld
         /\ \A x : display' = [display EXCEPT !.run = x] => SameWorld
         /\ \A x : display' = [display EXCEPT !.efd = x] => SameWorld
         /\ \A x, y : display' = [display EXCEPT !.emit_list = x, !.listener_list = y] => SameWorld
         /\ \A x, y : display' = [display EXCEPT !.listener_list = x, !.emit_list = y] => SameWorld
         /\ \A x : display' = [display EXCEPT !.listener_list = x] => SameWorld
         /\ \A x, y : display' = [display EXCEPT !.detached = x, !.client_list = y] => SameWorld
BY DEF MemoryInv, Types, IsDisplay, DisplayFields, SameWorld, SameGlobals

(* Frames that are not watched.                                            *)
LEMMA PlainGoto ==
  ASSUME ListenersInv, MemoryInv, HonestInv, SameWorld, NEW f, Goto(f), f.at \notin Watched
  PROVE  HonestInv'
BY Unwatched, StillGoto

LEMMA PlainCall ==
  ASSUME ListenersInv, MemoryInv, HonestInv, SameWorld, NEW f, NEW after, Call(f, after),
         f.at \notin Watched, after.at \notin Watched
  PROVE  HonestInv'
<1>1. Fair(f, client', peer') /\ Fair(after, client', peer')
  BY Unwatched
<1>2. QED
  BY <1>1, StillCall

LEMMA NotWatched ==
  /\ \A at \in Base \cup Loop \cup {"flush", "flush_next", "client_create", "emit", "user",
                                    "client_destroy", "announce", "tell"} : at \notin Watched
  /\ \A c, id : Handler(c, id).at = "user"
  /\ \A at, c : Frame(at, c).at = at
  /\ \A c, n : Flushing(c, n).at = "flush"
  /\ \A n : Destroying(n).at = "flush_next"
  /\ \A r : Dispatching(r).at = "dispatch"
BY DEF Base, Loop, Watched, Resource, Handler, FrameOf, Frame, Flushing, Destroying, Dispatching

LEMMA LoopHonest ==
  ASSUME ListenersInv, MemoryInv, HonestInv,
         wl_display_run \/ LoopTest \/ FlushNext \/ Poll \/ DispatchEnds
  PROVE  HonestInv'
<1>1. UNCHANGED <<scenario, client, peer>>
  BY DEF wl_display_run, LoopTest, FlushNext, Poll, DispatchEnds, otherVars
<1>2. CASE wl_display_run
  <2>1. SameWorld
    BY <1>1, <1>2, WorldIf DEF wl_display_run
  <2>2. QED
    BY <1>2, <2>1, PlainCall, NotWatched DEF wl_display_run, Base, Loop
<1>3. CASE LoopTest
  <2>1. SameWorld
    BY <1>1, <1>3, WorldIf DEF LoopTest
  <2>2. QED
    BY <1>3, <2>1, PlainCall, StillReturn, NotWatched DEF LoopTest, Loop
<1>4. CASE FlushNext
  <2>1. SameWorld
    BY <1>1, <1>4, WorldIf DEF FlushNext
  <2>2. QED
    BY <1>4, <2>1, PlainGoto, NotWatched DEF FlushNext
<1>5. CASE Poll
  <2>1. SameWorld
    BY <1>1, <1>5, WorldIf DEF Poll
  <2>2. QED
    BY <1>5, <2>1, PlainGoto, NotWatched DEF Poll, Loop
<1>6. CASE DispatchEnds
  <2>1. SameWorld
    BY <1>1, <1>6, WorldIf DEF DispatchEnds
  <2>2. QED
    BY <1>6, <2>1, PlainGoto, NotWatched DEF DispatchEnds, Loop
<1>7. QED
  BY <1>2, <1>3, <1>4, <1>5, <1>6

LEMMA PlainHonest ==
  ASSUME ListenersInv, MemoryInv, HonestInv,
         \/ wl_priv_signal_emit \/ RequestsEnd \/ wl_display_destroy_clients \/ DestroyDetached
         \/ HandlerReturns
  PROVE  HonestInv'
<1>1. UNCHANGED <<scenario, client, peer>>
  BY DEF wl_priv_signal_emit, RequestsEnd, wl_display_destroy_clients, DestroyDetached,
     HandlerReturns, otherVars
<1>2. CASE wl_priv_signal_emit
  <2>1. SameWorld
    BY <1>1, <1>2, WorldIf DEF wl_priv_signal_emit
  <2>2. CASE Return
    BY <2>1, <2>2, StillReturn
  <2>3. ASSUME NEW l, Call(Handler(Top.c, 0), [Top EXCEPT !.called = Append(@, l)])
        PROVE  HonestInv'
    <3> DEFINE f == [Top EXCEPT !.called = Append(@, l)]
    <3>1. Top.at = "emit" /\ {"at", "c", "id"} \subseteq DOMAIN Top
      BY <1>2, TopAt DEF wl_priv_signal_emit, Known
    <3>2. f.at = "emit"
      BY <3>1
    <3>3. Call(Handler(Top.c, 0), f)
      BY <2>3
    <3> HIDE DEF f
    <3>4. QED
      BY <2>1, <3>2, <3>3, PlainCall, NotWatched
  <2>4. QED
    BY <1>2, <2>2, <2>3 DEF wl_priv_signal_emit
<1>3. CASE RequestsEnd
  <2>1. SameWorld
    BY <1>1, <1>3, WorldIf DEF RequestsEnd
  <2>2. CASE Return
    BY <2>1, <2>2, StillReturn
  <2>3. CASE Goto(Frame("client_destroy", Top.c))
    BY <2>1, <2>3, PlainGoto, NotWatched
  <2>4. QED
    BY <1>3, <2>2, <2>3 DEF RequestsEnd
<1>4. CASE wl_display_destroy_clients
  <2>1. SameWorld
    BY <1>1, <1>4, WorldIf DEF wl_display_destroy_clients
  <2>2. QED
    BY <1>4, <2>1, PlainGoto, NotWatched DEF wl_display_destroy_clients, Base
<1>5. CASE DestroyDetached
  <2>1. SameWorld
    BY <1>1, <1>5, WorldIf DEF DestroyDetached
  <2>2. Top.at \in Base
    BY <1>5 DEF DestroyDetached, At, Base
  <2>3. QED
    BY <1>5, <2>1, <2>2, PlainGoto, PlainCall, NotWatched DEF DestroyDetached, Base
<1>6. CASE HandlerReturns
  <2>1. SameWorld
    BY <1>1, <1>6, WorldIf DEF HandlerReturns
  <2>2. QED
    BY <1>6, <2>1, StillReturn DEF HandlerReturns
<1>7. QED
  BY <1>2, <1>3, <1>4, <1>5, <1>6

LEMMA DispatchSourceHonest ==
  ASSUME ListenersInv, MemoryInv, HonestInv, DispatchSource
  PROVE  HonestInv'
<1>1. PICK r \in Top.ready :
        LET rest == Dispatching(Top.ready \ {r})
        IN  \/ Goto(rest) /\ UNCHANGED peer
            \/ Call(Handler(NULL, 0), rest) /\ UNCHANGED peer
            \/ /\ Call(Frame("client_create", r.c), rest)
               /\ peer' = [peer EXCEPT ![r.c].connects = FALSE]
            \/ client[r.c].life = "live" /\ Call(Reading(r.c, r.mask), rest) /\ UNCHANGED peer
  BY DEF DispatchSource
<1> DEFINE rest == Dispatching(Top.ready \ {r})
<1>2. \A c \in Clients : /\ peer'[c].got = peer[c].got /\ peer'[c].last = peer[c].last
                         /\ peer'[c].program = peer[c].program
  BY <1>1 DEF MemoryInv, Types, IsPeer
<1>3. SameWorld
  <2>1. UNCHANGED <<scenario, client>>
    BY DEF DispatchSource
  <2>2. SameGlobals
    BY DEF DispatchSource, MemoryInv, Types, IsDisplay, DisplayFields, SameGlobals
  <2>3. QED
    BY <1>2, <2>1, <2>2 DEF SameWorld
<1>4. rest.at \notin Watched
  BY NotWatched DEF Loop
<1> HIDE DEF rest
<1>5. CASE Goto(rest)
  BY <1>3, <1>4, <1>5, PlainGoto
<1>6. CASE Call(Handler(NULL, 0), rest)
  BY <1>3, <1>4, <1>6, PlainCall, NotWatched
<1>7. CASE Call(Frame("client_create", r.c), rest)
  BY <1>3, <1>4, <1>7, PlainCall, NotWatched
<1>8. CASE client[r.c].life = "live" /\ Call(Reading(r.c, r.mask), rest)
  <2> DEFINE f == Reading(r.c, r.mask)
  <2>1. f.at = "connection_data" /\ f.c = r.c
    BY DEF Reading
  <2> HIDE DEF f
  <2>2. Fair(f, client', peer')
    BY <1>3, <1>8, <2>1 DEF Fair, Placed, Doomed, Resource, SameWorld
  <2>3. QED
    BY <1>3, <1>4, <1>8, <2>2, Unwatched, StillCall DEF f
<1>9. QED
  BY <1>1, <1>5, <1>6, <1>7, <1>8 DEF rest

-----------------------------------------------------------------------------
(* Functions that destroy.                                                 *)

(* A resource is passed on.                                                *)
LEMMA SameDoom ==
  ASSUME HonestInv, ListenersInv, MemoryInv, SameWorld, Top.at \in Resource,
         NEW f, f.at \in Resource, f.c = Top.c, f.id = Top.id
  PROVE  Fair(f, client', peer')
<1>1. Len(stack) \in DOMAIN stack /\ Top = stack[Len(stack)]
  BY StackNow DEF ListenersInv
<1>2. Known(Top) /\ Fair(Top, client, peer)
  BY <1>1 DEF HonestInv, MemoryInv, UseInv, FramesInv
<1>3. Fair(Top, client', peer')
  BY <1>2, FairKept, WorldHonest
<1>4. QED
  BY <1>3 DEF Fair, Placed, Doomed, Resource

LEMMA ResourceHonest ==
  ASSUME ListenersInv, MemoryInv, HonestInv, wl_resource_destroy \/ destroy_resource
  PROVE  HonestInv'
<1>1. SameWorld /\ Top.at \in Resource
  <2>1. UNCHANGED <<scenario, client, peer>> /\ display' = display /\ Top.at \in Resource
    BY DEF wl_resource_destroy, destroy_resource, otherVars, At, Resource
  <2>2. QED
    BY <2>1, WorldIf
<1>2. \A at \in Resource : Fair(FrameOf(at, Top.c, Top.id), client', peer')
  <2> SUFFICES ASSUME NEW at \in Resource PROVE Fair(FrameOf(at, Top.c, Top.id), client', peer')
    OBVIOUS
  <2> DEFINE f == FrameOf(at, Top.c, Top.id)
  <2>1. f.at \in Resource /\ f.c = Top.c /\ f.id = Top.id
    BY DEF FrameOf
  <2> HIDE DEF f
  <2>2. Fair(f, client', peer')
    BY <1>1, <2>1, SameDoom
  <2>3. QED
    BY <2>2 DEF f
<1>3. CASE wl_resource_destroy
  BY <1>1, <1>2, <1>3, StillCall DEF wl_resource_destroy, Resource
<1>4. CASE destroy_resource
  <2>1. CASE Goto(FrameOf("free_resource", Top.c, Top.id))
    BY <1>1, <1>2, <2>1, StillGoto DEF Resource
  <2>2. CASE Call(Handler(Top.c, Top.id), FrameOf("free_resource", Top.c, Top.id))
    <3>1. Fair(Handler(Top.c, Top.id), client', peer')
      BY NotWatched, Unwatched
    <3>2. QED
      BY <1>1, <1>2, <2>2, <3>1, StillCall DEF Resource
  <2>3. QED
    BY <1>4, <2>1, <2>2 DEF destroy_resource
<1>5. QED
  BY <1>3, <1>4

LEMMA EachResourceHonest ==
  ASSUME ListenersInv, MemoryInv, HonestInv, EachResource
  PROVE  HonestInv'
<1>1. UNCHANGED <<scenario, client, peer>> /\ display' = display
  BY DEF EachResource, otherVars
<1>2. SameWorld
  BY <1>1, WorldIf
<1>3. Top.at = "client_resources" /\ {"at", "c", "id"} \subseteq DOMAIN Top
  BY TopAt DEF EachResource, Known
<1>4. client[Top.c].life = "dying"
  <2>1. Len(stack) \in DOMAIN stack /\ Top = stack[Len(stack)]
    BY StackNow DEF ListenersInv
  <2>2. QED
    BY <1>3, <2>1 DEF HonestInv, Fair, Placed
<1> DEFINE f == [Top EXCEPT !.id = @ + 1]
           g == FrameOf("destroy_resource", Top.c, Top.id)
<1>5. f.at = "client_resources" /\ f.c = Top.c
  BY <1>3
<1>6. g.at = "destroy_resource" /\ g.c = Top.c
  BY DEF FrameOf
<1>7. Goto(f) \/ Call(g, f)
  BY DEF EachResource
<1> HIDE DEF f, g
<1>8. Fair(f, client', peer')
  BY <1>1, <1>4, <1>5 DEF Fair, Placed, Doomed, Resource
<1>9. Fair(g, client', peer')
  BY <1>1, <1>4, <1>6 DEF Fair, Placed, Doomed, Free
<1>10. QED
  BY <1>2, <1>7, <1>8, <1>9, StillGoto, StillCall

LEMMA CallDestroyHonest ==
  ASSUME ListenersInv, MemoryInv, HonestInv, CallDestroy
  PROVE  HonestInv'
<1>1. UNCHANGED <<scenario, client, peer>> /\ display' = display
  BY DEF CallDestroy
<1>2. SameWorld
  BY <1>1, WorldIf
<1>3. Top.at = "user"
  BY DEF CallDestroy, MayCall, At
<1>4. ASSUME NEW c, Call(Frame("client_destroy", c), Top) PROVE HonestInv'
  BY <1>2, <1>3, <1>4, PlainCall, NotWatched
<1>5. ASSUME NEW c, NEW id, "drop" \in Played.calls, Call(FrameOf("resource_destroy", c, id), Top)
      PROVE  HonestInv'
  <2>1. Fair(FrameOf("resource_destroy", c, id), client', peer')
    BY <1>5 DEF FrameOf, Fair, Placed, Doomed, Free
  <2>2. QED
    BY <1>2, <1>3, <1>5, <2>1, StillCall, Unwatched, NotWatched
<1>6. QED
  BY <1>4, <1>5 DEF CallDestroy, MayCall

LEMMA CallListenHonest ==
  ASSUME ListenersInv, MemoryInv, HonestInv, CallListen
  PROVE  HonestInv'
<1>1. UNCHANGED <<scenario, client, peer>>
  BY DEF CallListen
<1>2. CASE UNCHANGED stack
  <2>1. SameWorld
    BY <1>1, WorldIf DEF CallListen, wl_priv_signal_add
  <2>2. QED
    BY <1>2, <2>1, StillSame
<1>3. ASSUME NEW l,
             display' = [display EXCEPT !.listener_list = Unlinked(@, l),
                                        !.emit_list = Unlinked(@, l)],
             stack' = [i \in DOMAIN stack |-> IF stack[i].at # "emit" THEN stack[i]
                         ELSE [stack[i] EXCEPT !.gone = @ \cup {l}]]
      PROVE  HonestInv'
  <2>1. SameWorld
    BY <1>1, <1>3, WorldIf
  <2>2. HonestAfter /\ \A c \in Clients : Kin(c)
    BY <2>1, WorldHonest
  <2>3. ASSUME NEW i \in DOMAIN stack' PROVE Fair(stack'[i], client', peer')
    <3>1. i \in DOMAIN stack
      BY <1>3
    <3>2. Known(stack[i]) /\ Fair(stack[i], client, peer)
      BY <3>1 DEF MemoryInv, UseInv, FramesInv, HonestInv
    <3>3. CASE stack[i].at # "emit"
      BY <1>3, <2>2, <3>1, <3>2, <3>3, FairKept
    <3>4. CASE stack[i].at = "emit"
      <4> DEFINE f == [stack[i] EXCEPT !.gone = @ \cup {l}]
      <4>1. f.at = "emit"
        BY <3>2, <3>4 DEF Known
      <4> HIDE DEF f
      <4>2. stack'[i] = f
        BY <1>3, <3>1, <3>4 DEF f
      <4>3. QED
        BY <4>1, <4>2, Unwatched, NotWatched
    <3>5. QED
      BY <3>3, <3>4
  <2>4. QED
    BY <1>1, <2>2, <2>3, HonestPrimed DEF FairAfter
<1>4. QED
  BY <1>2, <1>3 DEF CallListen

LEMMA TerminateHonest ==
  ASSUME MemoryInv, HonestInv, Terminate \/ TerminateWakes
  PROVE  HonestInv'
<1>1. UNCHANGED <<scenario, client, peer, stack>>
  BY DEF Terminate, TerminateWakes
<1>2. SameWorld
  BY <1>1, WorldIf DEF Terminate, TerminateWakes
<1>3. QED
  BY <1>1, <1>2, StillSame

-----------------------------------------------------------------------------
(* Clients are written to.                                                 *)

Twins(a, b) ==
  /\ SameCore(a, b) /\ a.display_resource = b.display_resource /\ a.error = b.error
  /\ a.out = b.out /\ a.to_client = b.to_client

LEMMA MovesTwin ==
  ASSUME NEW c, NEW cl, NEW p, NEW cl1, NEW d2, Moves(c, cl, p, cl1, p, d2),
         NEW cl2, Twins(cl2, cl1)
  PROVE  Moves(c, cl, p, cl2, p, d2)
<1>1. /\ (Free(cl2) <=> Free(cl1)) /\ Coming(cl2, p) = Coming(cl1, p) /\ Asked(cl2) = Asked(cl1)
      /\ Speech(cl2, p.got) = Speech(cl1, p.got)
  BY DEF Twins, SameCore, Free, Coming, Asked, Speech
<1>2. /\ cl2.life = cl1.life /\ cl2.objects = cl1.objects /\ cl2.pending = cl1.pending
      /\ cl2.display_resource = cl1.display_resource
  BY DEF Twins, SameCore
<1>3. ASSUME NEW e, IsTrue(c, cl1, e, d2) PROVE IsTrue(c, cl2, e, d2)
  BY <1>1, <1>2, <1>3 DEF IsTrue
<1>4. \A e \in ToSet(Speech(cl2, p.got)) :
        e \in ToSet(Speech(cl, p.got)) \/ IsTrue(c, cl2, e, d2)
  BY <1>1, <1>3 DEF Moves
<1>5. Free(cl2) => /\ Free(cl) /\ cl2.objects = cl.objects
                   /\ cl.display_resource => cl2.display_resource
                   /\ Coming(cl2, p) = Coming(cl, p)
  BY <1>1, <1>2 DEF Moves
<1>6. /\ Asked(cl2) \subseteq Asked(cl)
      /\ cl2.life = "none" => cl.life = "none" /\ cl2.pending = cl.pending
                              /\ cl2.objects = cl.objects
  BY <1>1, <1>2 DEF Moves
<1>7. QED
  BY <1>4, <1>5, <1>6 DEF Moves

LEMMA CoreMoves ==
  ASSUME NEW c, NEW cl, NEW p, NEW cl2, NEW d2, SameCore(cl2, cl),
         cl2.display_resource = cl.display_resource, cl.error => cl2.error,
         \A e \in ToSet(Speech(cl2, p.got)) :
           e \in ToSet(Speech(cl, p.got)) \/ IsTrue(c, cl2, e, d2)
  PROVE  Moves(c, cl, p, cl2, p, d2)
<1>1. Coming(cl2, p) = Coming(cl, p) /\ Asked(cl2) = Asked(cl) /\ (Free(cl2) => Free(cl))
  BY DEF SameCore, Coming, Asked, Free
<1>2. cl2.life = cl.life /\ cl2.objects = cl.objects /\ cl2.pending = cl.pending
  BY DEF SameCore
<1>3. QED
  BY <1>1, <1>2 DEF Moves

LEMMA FlushMoves ==
  ASSUME Types, NEW c, NEW cl, IsClient(cl, Played.socket_space), NEW p, IsPeer(p), NEW d2
  PROVE  Moves(c, cl, p, wl_client_flush(cl).cl, p, d2)
<1> DEFINE f == wl_client_flush(cl).cl
<1>1. /\ SameCore(f, cl) /\ f.display_resource = cl.display_resource /\ f.error = cl.error
  BY Flushed
<1>2. Speech(f, p.got) = Speech(cl, p.got)
  BY FlushContinues DEF Continues, IsPeer
<1> HIDE DEF f
<1>3. Moves(c, cl, p, f, p, d2)
  BY <1>1, <1>2, CoreMoves
<1>4. QED
  BY <1>3 DEF f

(* An event adds itself at most, and is not sent after an error.           *)
LEMMA PostSays ==
  ASSUME Types, NEW cl, IsClient(cl, Played.socket_space), NEW got, IsSequence(got),
         NEW event, NEW now
  PROVE  LET p == handle_array(cl, event, now)
         IN  /\ ToSet(Speech(p, got)) \subseteq ToSet(Speech(cl, got)) \cup {event}
             /\ cl.error => p.error
<1> DEFINE p == handle_array(cl, event, now)
<1>1. \/ Continues(cl, got, p, got)
      \/ ~cl.error /\ Speech(p, got) = Append(Speech(cl, got), event)
  BY PostAdds
<1>2. IsSequence(Speech(cl, got))
  BY SpeechIs
<1> HIDE DEF p
<1>3. ToSet(Append(Speech(cl, got), event)) = ToSet(Speech(cl, got)) \cup {event}
  BY <1>2, SequenceAppend
<1>4. ToSet(Speech(p, got)) \subseteq ToSet(Speech(cl, got)) \cup {event} /\ (cl.error => p.error)
  BY <1>1, <1>3 DEF Continues
<1>5. QED
  BY <1>4 DEF p

LEMMA PostMoves ==
  ASSUME Types, NEW c, NEW cl, IsClient(cl, Played.socket_space), NEW p, IsPeer(p), NEW d2,
         NEW event, NEW now, IsTrue(c, handle_array(cl, event, now), event, d2)
  PROVE  Moves(c, cl, p, handle_array(cl, event, now), p, d2)
<1> DEFINE t == handle_array(cl, event, now)
<1>1. SameCore(t, cl) /\ t.display_resource = cl.display_resource
  BY Posted
<1>2. /\ ToSet(Speech(t, p.got)) \subseteq ToSet(Speech(cl, p.got)) \cup {event}
      /\ cl.error => t.error
  BY PostSays DEF IsPeer
<1>3. IsTrue(c, t, event, d2)
  OBVIOUS
<1> HIDE DEF t
<1>4. Moves(c, cl, p, t, p, d2)
  BY <1>1, <1>2, <1>3, CoreMoves
<1>5. QED
  BY <1>4 DEF t

(* An error is told once, and ends what is between client and server.      *)
LEMMA ErrorSays ==
  ASSUME Types, NEW cl, IsClient(cl, Played.socket_space), NEW got, IsSequence(got), NEW why
  PROVE  LET p == wl_resource_post_error(cl, why)
         IN  /\ cl.error \/ ~cl.display_resource => p = cl
             /\ ~cl.error /\ cl.display_resource => p.error
             /\ ToSet(Speech(p, got)) \subseteq
                  ToSet(Speech(cl, got)) \cup
                    (IF cl.error THEN {} ELSE {Event("error", Display, why)})
<1> DEFINE event == Event("error", Display, why)
           told  == handle_array(cl, event, TRUE)
           last  == [told EXCEPT !.error = TRUE]
           p     == wl_resource_post_error(cl, why)
<1>1. p = IF cl.error \/ ~cl.display_resource THEN cl ELSE last
  BY DEF wl_resource_post_error, wl_resource_post_event
<1>2. IsClient(told, Played.socket_space)
  BY Posted
<1>3. ToSet(Speech(told, got)) \subseteq ToSet(Speech(cl, got)) \cup {event}
  BY PostSays
<1> HIDE DEF event, told, p
<1>4. last.error /\ last.out = told.out /\ last.to_client = told.to_client
  BY <1>2 DEF IsClient, ClientFields
<1> HIDE DEF last
<1>5. ToSet(Speech(last, got)) \subseteq ToSet(Speech(cl, got)) \cup {event}
  BY <1>3, <1>4 DEF Speech
<1>6. /\ cl.error \/ ~cl.display_resource => p = cl
      /\ ~cl.error /\ cl.display_resource => p.error
      /\ ToSet(Speech(p, got)) \subseteq
           ToSet(Speech(cl, got)) \cup (IF cl.error THEN {} ELSE {event})
  BY <1>1, <1>4, <1>5
<1>7. QED
  BY <1>6 DEF p, event

LEMMA ErrorMoves ==
  ASSUME Types, NEW c, NEW cl, IsClient(cl, Played.socket_space), NEW p, IsPeer(p), NEW d2,
         NEW why, Excused(why, d2)
  PROVE  Moves(c, cl, p, wl_resource_post_error(cl, why), p, d2)
<1> DEFINE t == wl_resource_post_error(cl, why)
           e == Event("error", Display, why)
<1>1. SameCore(t, cl) /\ t.display_resource = cl.display_resource
  BY ErrorPosted
<1>2. /\ cl.error \/ ~cl.display_resource => t = cl
      /\ ToSet(Speech(t, p.got)) \subseteq ToSet(Speech(cl, p.got)) \cup {e}
  BY ErrorSays DEF IsPeer
<1>3. IsTrue(c, t, e, d2)
  BY DEF IsTrue, Event
<1> HIDE DEF t, e
<1>4. Moves(c, cl, p, t, p, d2)
  BY <1>1, <1>2, <1>3, CoreMoves
<1>5. QED
  BY <1>4 DEF t

(* Events that say nothing of globals or errors.                           *)
LEMMA Innocent ==
  ASSUME NEW c, NEW cl, NEW d, NEW e, e.op \notin {"global", "error"}
  PROVE  IsTrue(c, cl, e, d)
BY DEF IsTrue

LEMMA ClientAndPeer ==
  ASSUME MemoryInv, HonestInv, NEW c \in Clients
  PROVE  /\ Types /\ IsClient(client[c], Played.socket_space) /\ IsPeer(peer[c])
         /\ Honest(c, client[c], peer[c], display) /\ IsSequence(peer[c].got)
BY DEF MemoryInv, Types, HonestInv, IsPeer

LEMMA TopFair ==
  ASSUME ListenersInv, MemoryInv, HonestInv
  PROVE  Known(Top) /\ Fair(Top, client, peer)
<1>1. Len(stack) \in DOMAIN stack /\ Top = stack[Len(stack)]
  BY StackNow DEF ListenersInv
<1>2. QED
  BY <1>1 DEF HonestInv, MemoryInv, UseInv, FramesInv

LEMMA FlushHonest ==
  ASSUME ListenersInv, MemoryInv, HonestInv, FlushClient
  PROVE  HonestInv'
<1>1. UNCHANGED <<scenario, display, peer>> /\ Top.at = "flush"
  BY DEF FlushClient, otherVars, At
<1> DEFINE r == wl_client_flush(client[Top.c])
           f == Flushing(Top.next, NextAfter(display.client_list, Top.next))
           cl == [r.cl EXCEPT !.writable = @ \/ r.ret = "EAGAIN"]
<1>2. CASE UNCHANGED client
  <2>1. SameWorld
    BY <1>1, <1>2, WorldIf
  <2>2. CASE Return
    BY <2>1, <2>2, StillReturn
  <2>3. CASE Call(Frame("client_destroy", Top.c), Destroying(Top.next))
    BY <2>1, <2>3, PlainCall, NotWatched
  <2>4. CASE Goto(f)
    BY <2>1, <2>4, PlainGoto, NotWatched
  <2>5. QED
    BY <2>2, <2>3, <2>4 DEF FlushClient
<1>3. CASE Top.c # HEAD /\ Goto(f) /\ client' = [client EXCEPT ![Top.c] = cl]
  <2>1. Top.c \in Clients
    BY <1>1, <1>3, TopFair DEF Known
  <2>2. /\ IsClient(client[Top.c], Played.socket_space) /\ IsPeer(peer[Top.c]) /\ Types
    BY <2>1, ClientAndPeer
  <2>3. Moves(Top.c, client[Top.c], peer[Top.c], r.cl, peer[Top.c], display')
    BY <2>2, FlushMoves
  <2>4. IsClient(r.cl, Played.socket_space) /\ SameCore(r.cl, client[Top.c])
    BY <2>2, Flushed
  <2> HIDE DEF r
  <2>5. Twins(cl, r.cl)
    BY <2>4 DEF IsClient, ClientFields, Twins, SameCore
  <2> HIDE DEF cl
  <2>6. Moves(Top.c, client[Top.c], peer[Top.c], cl, peer[Top.c], display')
    BY <2>3, <2>5, MovesTwin
  <2>7. cl.life = client[Top.c].life
    BY <2>4, <2>5 DEF Twins, SameCore
  <2>8. Aged(display, display')
    BY <1>1, AgedSame DEF SameGlobals
  <2>9. HonestAfter /\ \A b \in Clients : Kin(b)
    BY <1>1, <1>3, <2>1, <2>6, <2>7, <2>8, OneMoves
  <2>10. f.at \notin Watched
    BY NotWatched
  <2> HIDE DEF f
  <2>11. FairAfter
    BY <1>3, <2>9, <2>10, Unwatched, FairGoto
  <2>12. QED
    BY <1>1, <2>9, <2>11, HonestPrimed
<1>4. QED
  BY <1>2, <1>3 DEF FlushClient

LEMMA FlushLastHonest ==
  ASSUME ListenersInv, MemoryInv, HonestInv, FlushLast
  PROVE  HonestInv'
<1>1. UNCHANGED <<scenario, display, peer>> /\ Top.at = "client_flush"
  BY DEF FlushLast, otherVars, At
<1> DEFINE cl == wl_client_flush(client[Top.c]).cl
           f  == FrameOf("client_resources", Top.c, Display)
<1>2. Top.c \in Clients /\ client[Top.c].life = "dying"
  BY <1>1, TopFair DEF Known, ForClient, Destroyers, Fair, Placed
<1>3. /\ IsClient(client[Top.c], Played.socket_space) /\ IsPeer(peer[Top.c]) /\ Types
  BY <1>2, ClientAndPeer
<1>4. /\ Moves(Top.c, client[Top.c], peer[Top.c], cl, peer[Top.c], display')
      /\ cl.life = client[Top.c].life
  BY <1>3, FlushMoves, Flushed DEF SameCore
<1>5. client' = [client EXCEPT ![Top.c] = cl] /\ Goto(f)
  BY DEF FlushLast
<1> HIDE DEF cl
<1>6. Aged(display, display')
  BY <1>1, AgedSame DEF SameGlobals
<1>7. HonestAfter /\ \A b \in Clients : Kin(b)
  BY <1>1, <1>2, <1>4, <1>5, <1>6, OneMoves
<1>8. f.at = "client_resources" /\ f.c = Top.c
  BY DEF FrameOf
<1> HIDE DEF f
<1>9. client'[Top.c].life = "dying"
  BY <1>2, <1>7 DEF Kin
<1>10. Fair(f, client', peer')
  BY <1>8, <1>9 DEF Fair, Placed, Doomed, Resource
<1>11. FairAfter
  BY <1>5, <1>7, <1>10, FairGoto
<1>12. QED
  BY <1>1, <1>7, <1>11, HonestPrimed

(* A handler or listener writes to a client.                               *)
LEMMA WrittenSame ==
  ASSUME ListenersInv, MemoryInv, HonestInv, UNCHANGED <<scenario, display, peer, stack>>,
         NEW c \in Clients, NEW cl, client' = [client EXCEPT ![c] = cl],
         SameCore(cl, client[c]), Moves(c, client[c], peer[c], cl, peer[c], display')
  PROVE  HonestInv'
<1>1. Aged(display, display')
  BY AgedSame DEF SameGlobals
<1>2. HonestAfter /\ \A b \in Clients : Kin(b)
  BY <1>1, OneMoves DEF SameCore
<1>3. QED
  BY <1>2, FairSame, HonestPrimed

LEMMA CallPostHonest ==
  ASSUME ListenersInv, MemoryInv, HonestInv, CallPost
  PROVE  HonestInv'
<1>1. UNCHANGED <<scenario, display, peer, stack>>
  BY DEF CallPost
<1>2. ASSUME NEW c \in Clients, NEW id,
             client' = [client EXCEPT ![c] = wl_resource_post_event(@, Event("event", id, 0))]
      PROVE  HonestInv'
  <2> DEFINE e  == Event("event", id, 0)
             cl == handle_array(client[c], e, TRUE)
  <2>1. /\ IsClient(client[c], Played.socket_space) /\ IsPeer(peer[c]) /\ Types
    BY ClientAndPeer
  <2>2. IsTrue(c, cl, e, display')
    BY Innocent DEF Event
  <2>3. /\ Moves(c, client[c], peer[c], cl, peer[c], display') /\ SameCore(cl, client[c])
    BY <2>1, <2>2, PostMoves, Posted
  <2>4. client' = [client EXCEPT ![c] = cl]
    BY <1>2 DEF wl_resource_post_event
  <2> HIDE DEF cl
  <2>5. QED
    BY <1>1, <2>3, <2>4, WrittenSame
<1>3. ASSUME NEW c \in Clients,
             client' = [client EXCEPT ![c] = wl_resource_post_error(@, <<"own", 0>>)]
      PROVE  HonestInv'
  <2> DEFINE cl == wl_resource_post_error(client[c], <<"own", 0>>)
  <2>1. /\ IsClient(client[c], Played.socket_space) /\ IsPeer(peer[c]) /\ Types
    BY ClientAndPeer
  <2>2. Excused(<<"own", 0>>, display')
    BY DEF Excused
  <2>3. /\ Moves(c, client[c], peer[c], cl, peer[c], display') /\ SameCore(cl, client[c])
    BY <2>1, <2>2, ErrorMoves, ErrorPosted
  <2>4. client' = [client EXCEPT ![c] = cl]
    BY <1>3
  <2> HIDE DEF cl
  <2>5. QED
    BY <1>1, <2>3, <2>4, WrittenSame
<1>4. ASSUME NEW c \in Clients, client' = [client EXCEPT ![c].error = TRUE]
      PROVE  HonestInv'
  <2> DEFINE cl == [client[c] EXCEPT !.error = TRUE]
  <2>1. /\ IsClient(client[c], Played.socket_space) /\ IsPeer(peer[c]) /\ Types
    BY ClientAndPeer
  <2>2. /\ SameCore(cl, client[c]) /\ cl.display_resource = client[c].display_resource
        /\ cl.error /\ cl.out = client[c].out /\ cl.to_client = client[c].to_client
    BY <2>1 DEF IsClient, ClientFields, SameCore
  <2>3. client' = [client EXCEPT ![c] = cl]
    BY <1>4
  <2> HIDE DEF cl
  <2>4. Moves(c, client[c], peer[c], cl, peer[c], display')
    BY <2>2, CoreMoves DEF Speech
  <2>5. QED
    BY <1>1, <2>2, <2>3, <2>4, WrittenSame
<1>5. QED
  BY <1>2, <1>3, <1>4 DEF CallPost

-----------------------------------------------------------------------------
(* Clients are told of globals.                                            *)

LEMMA PostHonest ==
  ASSUME MemoryInv, HonestInv, UNCHANGED <<display, peer>>, NEW c \in Clients, NEW event,
         client' = [client EXCEPT ![c] = wl_resource_post_event(@, event)],
         \A cl : SameCore(cl, client[c]) => IsTrue(c, cl, event, display)
  PROVE  HonestAfter /\ \A b \in Clients : Kin(b)
<1> DEFINE cl == handle_array(client[c], event, TRUE)
<1>1. IsClient(client[c], Played.socket_space) /\ IsPeer(peer[c]) /\ Types
  BY ClientAndPeer
<1>2. SameCore(cl, client[c])
  BY <1>1, Posted
<1>3. IsTrue(c, cl, event, display')
  BY <1>2
<1>4. Moves(c, client[c], peer[c], cl, peer[c], display')
  BY <1>1, <1>3, PostMoves
<1>5. client' = [client EXCEPT ![c] = cl]
  BY DEF wl_resource_post_event
<1>6. Aged(display, display')
  BY AgedSame DEF SameGlobals
<1> HIDE DEF cl
<1>7. QED
  BY <1>2, <1>4, <1>5, <1>6, OneMoves DEF SameCore

LEMMA GlobalKnown ==
  ASSUME AgreeInv, NEW g \in ToSet(display.globals), NEW c, wl_global_is_visible(c, g)
  PROVE  Knows(c, g.name, display)
BY DEF AgreeInv, IsGlobal, Distinct, Knows

(* An event of a registry says what is true.                               *)
LEMMA TellsTruth ==
  ASSUME AgreeInv, NEW g \in ToSet(display.globals), NEW c, wl_global_is_visible(c, g),
         NEW op \in {"global", "global_remove"},
         NEW id \in Ids, client[c].objects[id] = "registry",
         NEW cl, SameCore(cl, client[c])
  PROVE  IsTrue(c, cl, Event(op, id, g.name), display)
BY GlobalKnown DEF IsTrue, Event, SameCore

LEMMA AnnounceHonest ==
  ASSUME ListenersInv, MemoryInv, WordInv, AgreeInv, HonestInv, Announce
  PROVE  HonestInv'
<1> DEFINE h == Head(Top.rest)
           f == [Top EXCEPT !.rest = Tail(@)]
<1>1. /\ stack # << >> /\ Top.at = "announce" /\ At("announce") /\ Top.rest # << >> /\ Goto(f)
      /\ UNCHANGED <<scenario, peer, display>>
  BY DEF Announce, At, otherVars
<1>2. Top.op \in {"global", "global_remove"} /\ Top.g \in ToSet(display.globals)
  BY <1>1, StackNow DEF ListenersInv, WordInv, Plain, AgreeInv, Teller
<1>3. f.at = "announce" /\ h \in ToSet(display.registries)
  BY <1>1, RestFrame, TopAt DEF Reaches
<1> HIDE DEF f, h
<1>4. h.c \in Clients /\ h.id \in Ids /\ client[h.c].objects[h.id] = "registry"
  BY <1>3 DEF MemoryInv, UseInv, ObjectsInv, Registered
<1>5. HonestAfter /\ \A b \in Clients : Kin(b)
  <2>1. CASE ~wl_global_is_visible(h.c, Top.g)
    <3>1. UNCHANGED client
      BY <2>1 DEF Announce, h
    <3>2. SameWorld
      BY <1>1, <3>1, WorldIf
    <3>3. QED
      BY <3>2, WorldHonest
  <2>2. CASE wl_global_is_visible(h.c, Top.g)
    <3> DEFINE e == Event(Top.op, h.id, Top.g.name)
    <3>1. client' = [client EXCEPT ![h.c] = wl_resource_post_event(@, e)]
      BY <2>2 DEF Announce, h
    <3>2. \A cl : SameCore(cl, client[h.c]) => IsTrue(h.c, cl, e, display)
      BY <1>2, <1>4, <2>2, TellsTruth
    <3> HIDE DEF e
    <3>3. QED
      BY <1>1, <1>4, <3>1, <3>2, PostHonest
  <2>3. QED
    BY <2>1, <2>2
<1>6. FairAfter
  BY <1>1, <1>3, <1>5, Unwatched, NotWatched, FairGoto
<1>7. QED
  BY <1>1, <1>5, <1>6, HonestPrimed

LEMMA TellHonest ==
  ASSUME ListenersInv, MemoryInv, AgreeInv, HonestInv, TellGlobal
  PROVE  HonestInv'
<1> DEFINE g == Head(Top.rest)
           f == [Top EXCEPT !.rest = Tail(@)]
<1>1. /\ stack # << >> /\ Top.at = "tell" /\ At("tell") /\ UNCHANGED <<scenario, peer, display>>
  BY DEF TellGlobal, At, otherVars
<1>2. /\ Top.c \in Clients /\ Top.id \in Ids /\ client[Top.c].objects[Top.id] = "registry"
      /\ ToSet(Top.rest) \subseteq ToSet(display.globals)
  BY <1>1, TopAt DEF Known, ForClient, AgreeInv, Teller, Reaches
<1>3. CASE UNCHANGED client
  <2>1. SameWorld
    BY <1>1, <1>3, WorldIf
  <2>2. CASE Return
    BY <2>1, <2>2, StillReturn
  <2>3. CASE Top.rest # << >> /\ Goto(f)
    <3>1. f.at = "tell"
      BY <1>1, <2>3, RestFrame
    <3> HIDE DEF f
    <3>2. QED
      BY <2>1, <2>3, <3>1, PlainGoto, NotWatched
  <2>4. QED
    BY <2>2, <2>3 DEF TellGlobal
<1>4. CASE /\ Top.rest # << >> /\ Goto(f) /\ wl_global_is_visible(Top.c, g)
           /\ client' = [client EXCEPT ![Top.c] =
                           wl_resource_post_event(@, Event("global", Top.id, g.name))]
  <2> DEFINE e == Event("global", Top.id, g.name)
  <2>1. f.at = "tell" /\ g \in ToSet(display.globals)
    BY <1>1, <1>2, <1>4, RestFrame
  <2>2. \A cl : SameCore(cl, client[Top.c]) => IsTrue(Top.c, cl, e, display)
    BY <1>2, <1>4, <2>1, TellsTruth
  <2> HIDE DEF f
  <2>3. client' = [client EXCEPT ![Top.c] = wl_resource_post_event(@, e)]
    BY <1>4
  <2> HIDE DEF e
  <2>4. HonestAfter /\ \A b \in Clients : Kin(b)
    BY <1>1, <1>2, <2>2, <2>3, PostHonest
  <2>5. FairAfter
    BY <1>4, <2>1, <2>4, Unwatched, NotWatched, FairGoto
  <2>6. QED
    BY <1>1, <2>4, <2>5, HonestPrimed
<1>5. QED
  BY <1>3, <1>4 DEF TellGlobal

-----------------------------------------------------------------------------
(* Globals come and go.                                                    *)

(* Clients and peers stay as they are, and the globals get older.          *)
LEMMA AgedHonest ==
  ASSUME MemoryInv, HonestInv, Aged(display, display'), UNCHANGED <<client, peer>>
  PROVE  HonestAfter /\ \A b \in Clients : Kin(b)
BY Untouched DEF HonestAfter

LEMMA AgedFewer ==
  ASSUME MemoryInv, display'.id = display.id,
         \A g \in ToSet(display'.globals) : \E h \in ToSet(display.globals) :
           h.name = g.name /\ h.interface = g.interface
  PROVE  Aged(display, display')
<1>1. display.id \in Nat /\ display.id <= display.id
  BY DEF MemoryInv, Types, IsDisplay
<1>2. QED
  BY <1>1 DEF Aged

LEMMA AnnouncementEndsHonest ==
  ASSUME ListenersInv, MemoryInv, AgreeInv, HonestInv, AnnouncementEnds
  PROVE  HonestInv'
<1> DEFINE g == Top.g
           m == [Top.g EXCEPT !.removed = TRUE]
           s == display.globals
           t == [i \in DOMAIN s |-> IF s[i] = g THEN m ELSE s[i]]
<1>1. /\ stack # << >> /\ Top.at = "announce" /\ Return
      /\ UNCHANGED <<scenario, client, peer>>
  BY DEF AnnouncementEnds, At, otherVars
<1>2. g \in ToSet(s) /\ IsGlobal(g, display.id)
  BY <1>1 DEF AgreeInv, Teller
<1>3. IsSequence(s) /\ Distinct(s) /\ DisplayFields \subseteq DOMAIN display
  BY SameRestIf DEF AgreeInv, MemoryInv, Types, IsDisplay
<1>4. CASE UNCHANGED display
  BY <1>1, <1>4, WorldIf, StillReturn
<1>5. ASSUME Aged(display, display') PROVE HonestInv'
  <2>1. HonestAfter /\ \A b \in Clients : Kin(b)
    BY <1>1, <1>5, AgedHonest
  <2>2. FairAfter
    BY <1>1, <2>1, FairReturn
  <2>3. QED
    BY <1>1, <2>1, <2>2, HonestPrimed
<1>6. CASE display' = [display EXCEPT !.globals = Unlinked(@, g)]
  <2>1. display'.id = display.id /\ ToSet(display'.globals) \subseteq ToSet(s)
    BY <1>6, UnlinkedAgree
  <2>2. QED
    BY <1>5, <2>1, AgedFewer
<1>7. CASE display' = [display EXCEPT !.globals = t]
  <2>1. m.name = g.name /\ m.interface = g.interface
    BY <1>2 DEF IsGlobal
  <2> HIDE DEF m
  <2>2. ToSet(t) = (ToSet(s) \ {g}) \cup {m}
    BY <1>2, <1>3, <2>1, MarkedIs
  <2>3. display'.id = display.id /\ display'.globals = t
    BY <1>3, <1>7 DEF DisplayFields
  <2> HIDE DEF t
  <2>4. \A h \in ToSet(display'.globals) : \E b \in ToSet(s) :
          b.name = h.name /\ b.interface = h.interface
    BY <1>2, <2>1, <2>2, <2>3
  <2>5. QED
    BY <1>5, <2>3, <2>4, AgedFewer
<1>8. CASE /\ Top.op # "global" /\ ~Top.destroys
           /\ display' = [display EXCEPT !.globals =
               [i \in DOMAIN @ |-> IF @[i] = Top.g THEN [Top.g EXCEPT !.removed = TRUE] ELSE @[i]]]
  <2>1. display' = [display EXCEPT !.globals = t]
    BY <1>3, <1>8 DEF DisplayFields
  <2>2. QED
    BY <1>7, <2>1
<1>9. QED
  BY <1>4, <1>6, <1>8 DEF AnnouncementEnds

LEMMA CallGlobalHonest ==
  ASSUME ListenersInv, MemoryInv, AgreeInv, HonestInv, CallGlobal
  PROVE  HonestInv'
<1>1. UNCHANGED <<scenario, client, peer>> /\ Top.at = "user"
  BY DEF CallGlobal, MayCall, At
<1>2. IsSequence(display.globals) /\ display.id \in Nat /\ DisplayFields \subseteq DOMAIN display
  BY SameRestIf DEF MemoryInv, Types, IsDisplay
<1>3. \A op, g, rest, destroys : Announcing(op, g, rest, destroys).at = "announce"
  BY DEF Announcing
<1>4. ASSUME NEW op, NEW g, NEW destroys, UNCHANGED display,
             Call(Announcing(op, g, display.registries, destroys), Top)
      PROVE  HonestInv'
  BY <1>1, <1>3, <1>4, WorldIf, PlainCall, NotWatched
<1>5. ASSUME NEW i, wl_global_create(i) PROVE HonestInv'
  <2> DEFINE g   == Global(display.id, i)
             new == Append(display.globals, g)
             f   == Announcing("global", g, display.registries, FALSE)
  <2>1. display' = [display EXCEPT !.id = @ + 1, !.globals = new] /\ Call(f, Top)
    BY <1>2, <1>5 DEF wl_global_create, DisplayFields
  <2>2. g.name = display.id /\ f.at = "announce"
    BY <1>3 DEF Global
  <2>3. ToSet(new) = ToSet(display.globals) \cup {g}
    BY <1>2, SequenceAppend
  <2> HIDE DEF new, g, f
  <2>4. display'.id = display.id + 1 /\ display'.globals = new
    BY <1>2, <2>1 DEF DisplayFields
  <2>5. Aged(display, display')
    BY <1>2, <2>2, <2>3, <2>4 DEF Aged
  <2>6. HonestAfter /\ \A b \in Clients : Kin(b)
    BY <1>1, <2>5, AgedHonest
  <2>7. Fair(f, client', peer') /\ Fair(Top, client', peer')
    BY <1>1, <2>2, Unwatched, NotWatched
  <2>8. FairAfter
    BY <2>1, <2>6, <2>7, FairCall
  <2>9. QED
    BY <1>1, <2>6, <2>8, HonestPrimed
<1>6. ASSUME NEW g, UNCHANGED stack, display' = [display EXCEPT !.globals = Unlinked(@, g)]
      PROVE  HonestInv'
  <2>1. display'.id = display.id /\ ToSet(display'.globals) \subseteq ToSet(display.globals)
    BY <1>6, UnlinkedAgree
  <2>2. Aged(display, display')
    BY <2>1, AgedFewer
  <2>3. HonestAfter /\ \A b \in Clients : Kin(b)
    BY <1>1, <2>2, AgedHonest
  <2>4. QED
    BY <1>1, <1>6, <2>3, FairSame, HonestPrimed
<1>7. QED
  BY <1>4, <1>5, <1>6 DEF CallGlobal, wl_global_remove, wl_global_destroy

-----------------------------------------------------------------------------
(* Clients come, and go.                                                   *)

LEMMA BelowNobody ==
  ASSUME ListenersInv, MemoryInv, Top.at \in OfLoop \cup Loop \cup Base
  PROVE  \A i \in Below : stack[i].c \notin Clients
<1>1. \A i \in Below : i \in DOMAIN stack /\ i # Len(stack)
  BY DEF Below
<1>2. QED
  BY <1>1, ShallowStack, ClientsAssumption

LEMMA CreateHonest ==
  ASSUME ListenersInv, MemoryInv, WordInv, HonestInv, wl_client_create
  PROVE  HonestInv'
<1> DEFINE c  == Top.c
           cl == NewClient(client[c].to_server, client[c].up)
           f  == Emitting(Top.c, ToSet(display.listener_list))
<1>1. /\ At("client_create") /\ UNCHANGED <<scenario, peer>> /\ Goto(f)
      /\ client' = [client EXCEPT ![c] = NewClient(@.to_server, @.up)]
  BY DEF wl_client_create, otherVars
<1>2. Top.at = "client_create" /\ c \in Clients /\ client[c].life = "none"
  BY <1>1, TopAt DEF Known, Alive, ForClient
<1>3. client' = [client EXCEPT ![c] = cl]
  BY <1>1, <1>2 DEF MemoryInv, Types
<1>4. /\ cl.out = << >> /\ cl.to_client = << >> /\ cl.pending = << >> /\ cl.life = "live"
      /\ cl.display_resource /\ cl.to_server = client[c].to_server
      /\ cl.objects = NewClient(<< >>, TRUE).objects
  BY DEF NewClient
<1>5. Aged(display, display')
  <2>1. SameGlobals
    BY SameRestIf DEF wl_client_create, DisplayFields, SameGlobals
  <2>2. QED
    BY <2>1, AgedSame
<1>6. f.at = "emit"
  BY DEF Emitting
<1> HIDE DEF cl, f
<1>7. client[c].pending = << >> /\ client[c].objects = cl.objects
  BY <1>2, <1>4, ClientAndPeer DEF Honest, Blank
<1>8. Coming(cl, peer[c]) = Coming(client[c], peer[c]) /\ Asked(cl) = Asked(client[c])
  BY <1>4, <1>7 DEF Coming, Asked
<1>9. Free(cl) => Free(client[c])
  BY <1>2 DEF Free
<1>10. ToSet(Speech(cl, peer[c].got)) = {}
  <2> DEFINE got  == peer[c].got
             sent == client[c].to_client
             out  == client[c].out
  <2>1. IsSequence(got) /\ IsSequence(sent) /\ IsSequence(out) /\ IsSequence(got \o sent)
    BY <1>2, ClientIs, SequenceConcat DEF IsClient
  <2>2. (got \o sent) \o out = << >>
    BY <1>2 DEF WordInv, Speech
  <2> HIDE DEF got, sent, out
  <2>3. got = << >>
    BY <2>1, <2>2, JoinIsEmpty
  <2>4. Speech(cl, peer[c].got) = << >>
    BY <1>4, <2>3, EmptySequence, JoinEmpty DEF Speech, got
  <2>5. QED
    BY <2>4, EmptySequence
<1>11. Moves(c, client[c], peer[c], cl, peer[c], display')
  BY <1>4, <1>7, <1>8, <1>9, <1>10 DEF Moves
<1> HIDE DEF c
<1>12. HonestAfter
  BY <1>1, <1>2, <1>3, <1>5, <1>11, OneMoves
<1>13. FairAfter
  <2>1. \A i \in Below : stack[i].c \notin Clients
    BY <1>2, BelowNobody DEF OfLoop
  <2>2. Fair(f, client', peer')
    BY <1>6, Unwatched, NotWatched
  <2>3. QED
    BY <1>1, <2>1, <2>2, FairGoto
<1>14. QED
  BY <1>1, <1>12, <1>13, HonestPrimed

(* Requests that have been read are still to come.                         *)
LEMMA MovesRead ==
  ASSUME NEW c, NEW cl, NEW p, NEW cl1, NEW d2, Moves(c, cl, p, cl1, p, d2),
         NEW cl2, cl2.life = cl1.life, cl1.life # "none", cl2.objects = cl1.objects,
         cl2.error = cl1.error, cl2.display_resource = cl1.display_resource,
         cl2.out = cl1.out, cl2.to_client = cl1.to_client,
         Coming(cl2, p) = Coming(cl1, p), Asked(cl2) = Asked(cl1)
  PROVE  Moves(c, cl, p, cl2, p, d2)
<1>1. (Free(cl2) <=> Free(cl1)) /\ Speech(cl2, p.got) = Speech(cl1, p.got)
  BY DEF Free, Speech
<1>2. \A e : IsTrue(c, cl1, e, d2) => IsTrue(c, cl2, e, d2)
  BY <1>1 DEF IsTrue
<1>3. \A e \in ToSet(Speech(cl2, p.got)) :
        e \in ToSet(Speech(cl, p.got)) \/ IsTrue(c, cl2, e, d2)
  BY <1>1, <1>2 DEF Moves
<1>4. QED
  BY <1>1, <1>3 DEF Moves

LEMMA ReadHonest ==
  ASSUME ListenersInv, MemoryInv, HonestInv, wl_client_connection_data
  PROVE  HonestInv'
<1> DEFINE c     == Top.c
           flush == IF "writable" \in Top.mask THEN wl_client_flush(client[c])
                    ELSE [cl |-> client[c], ret |-> "none"]
           read  == IF "readable" \in Top.mask
                    THEN [flush.cl EXCEPT !.pending = @ \o flush.cl.to_server, !.to_server = <<>>]
                    ELSE flush.cl
           cl    == [read EXCEPT !.writable = @ /\ flush.ret # "ok"]
           f     == Handling(c, TRUE)
<1>1. At("connection_data") /\ UNCHANGED <<scenario, peer, display>>
  BY DEF wl_client_connection_data, otherVars
<1>2. Top.at = "connection_data" /\ c \in Clients /\ client[c].life = "live"
  BY <1>1, TopAt, TopFair DEF Known, ForClient, Fair, Placed
<1>3. IsClient(client[c], Played.socket_space) /\ IsPeer(peer[c]) /\ Types
  BY <1>2, ClientAndPeer
<1>4. \/ Goto(Frame("client_destroy", c)) /\ UNCHANGED client
      \/ Goto(f) /\ client' = [client EXCEPT ![c] = cl]
  BY DEF wl_client_connection_data
<1>5. CASE Goto(Frame("client_destroy", c)) /\ UNCHANGED client
  BY <1>1, <1>5, WorldIf, PlainGoto, NotWatched
<1>6. CASE Goto(f) /\ client' = [client EXCEPT ![c] = cl]
  <2>1. /\ IsClient(flush.cl, Played.socket_space) /\ SameCore(flush.cl, client[c])
        /\ Moves(c, client[c], peer[c], flush.cl, peer[c], display')
    <3>1. CASE "writable" \in Top.mask
      BY <1>3, <3>1, Flushed, FlushMoves
    <3>2. CASE "writable" \notin Top.mask
      BY <1>3, <3>2, MovesSame DEF SameCore
    <3>3. QED
      BY <3>1, <3>2
  <2> HIDE DEF flush
  <2> DEFINE p == flush.cl.pending
             s == flush.cl.to_server
  <2>2. /\ cl.out = flush.cl.out /\ cl.to_client = flush.cl.to_client
        /\ cl.error = flush.cl.error /\ cl.life = flush.cl.life
        /\ cl.objects = flush.cl.objects
        /\ cl.display_resource = flush.cl.display_resource
        /\ \/ cl.pending = p /\ cl.to_server = s
           \/ cl.pending = p \o s /\ cl.to_server = << >>
    BY <2>1 DEF IsClient, ClientFields
  <2>3. IsSequence(p) /\ IsSequence(s)
    BY <2>1 DEF IsClient
  <2> HIDE DEF cl
  <2>4. /\ cl.pending \o cl.to_server = p \o s
        /\ Asked(cl) = ToSet(p) \cup ToSet(s)
    <3> DEFINE t == p \o s
    <3>1. IsSequence(t) /\ ToSet(t) = ToSet(p) \cup ToSet(s) /\ t \o << >> = t
      BY <2>3, SequenceConcat, JoinEmpty
    <3>2. (cl.pending = p /\ cl.to_server = s) \/ (cl.pending = t /\ cl.to_server = << >>)
      BY <2>2
    <3> HIDE DEF t, p, s
    <3>3. CASE cl.pending = p /\ cl.to_server = s
      BY <3>3 DEF Asked
    <3>4. CASE cl.pending = t /\ cl.to_server = << >>
      BY <3>1, <3>4, EmptySequence DEF Asked, t
    <3>5. QED
      BY <3>2, <3>3, <3>4
  <2>5. Coming(cl, peer[c]) = Coming(flush.cl, peer[c]) /\ Asked(cl) = Asked(flush.cl)
    BY <2>4 DEF Coming, Asked
  <2>6. flush.cl.life # "none" /\ cl.life = client[c].life
    BY <1>2, <2>1, <2>2 DEF SameCore
  <2> HIDE DEF p, s
  <2>7. Moves(c, client[c], peer[c], cl, peer[c], display')
    BY <2>1, <2>2, <2>5, <2>6, MovesRead
  <2>8. Aged(display, display')
    BY <1>1, AgedSame DEF SameGlobals
  <2>9. f.at = "requests" /\ f.c = c
    BY DEF Handling
  <2> HIDE DEF c, f
  <2>10. HonestAfter /\ \A b \in Clients : Kin(b)
    BY <1>1, <1>2, <1>6, <2>6, <2>7, <2>8, OneMoves
  <2>11. Fair(f, client', peer')
    BY <1>2, <2>9, <2>10 DEF Fair, Placed, Doomed, Resource, Kin
  <2>12. FairAfter
    BY <1>6, <2>10, <2>11, FairGoto
  <2>13. QED
    BY <1>1, <2>10, <2>12, HonestPrimed
<1>7. QED
  BY <1>4, <1>5, <1>6

(* A client that does not live any more.                                   *)
LEMMA MovesOut ==
  ASSUME NEW c, NEW cl, NEW p, NEW cl2, NEW d2, cl2.life \in {"dying", "freed"},
         cl2.out = cl.out, cl2.to_client = cl.to_client,
         cl2.pending = cl.pending, cl2.to_server = cl.to_server
  PROVE  Moves(c, cl, p, cl2, p, d2)
<1>1. ~Free(cl2) /\ Speech(cl2, p.got) = Speech(cl, p.got) /\ Asked(cl2) = Asked(cl)
  BY DEF Free, Speech, Asked
<1>2. QED
  BY <1>1 DEF Moves

LEMMA ClientDestroyHonest ==
  ASSUME ListenersInv, MemoryInv, HonestInv, wl_client_destroy
  PROVE  HonestInv'
<1> DEFINE c  == Top.c
           cl == [client[c] EXCEPT !.life = "dying", !.listener = FALSE]
           f  == Frame("client_flush", c)
<1>1. /\ At("client_destroy") /\ UNCHANGED <<scenario, peer, display>>
      /\ client' = [client EXCEPT ![c].life = "dying", ![c].listener = FALSE]
      /\ Call(Handler(c, 0), f) \/ Goto(f)
  BY DEF wl_client_destroy, otherVars
<1>2. /\ c \in Clients /\ IsClient(client[c], Played.socket_space)
      /\ \A i \in Below : stack[i].c # c
  BY <1>1, AtDestroyer DEF Destroyers, Apart
<1>3. client' = [client EXCEPT ![c] = cl]
  BY <1>1, <1>2 DEF MemoryInv, Types
<1>4. /\ cl.out = client[c].out /\ cl.to_client = client[c].to_client
      /\ cl.life = "dying" /\ cl.pending = client[c].pending
      /\ cl.to_server = client[c].to_server
  BY <1>2 DEF IsClient, ClientFields
<1>5. f.at = "client_flush" /\ f.c = c
  BY DEF Frame
<1> HIDE DEF cl, f
<1>6. Moves(c, client[c], peer[c], cl, peer[c], display')
  BY <1>4, MovesOut
<1>7. Aged(display, display')
  BY <1>1, AgedSame DEF SameGlobals
<1>8. client'[c].life = "dying"
  BY <1>2, <1>3, <1>4, OneClient DEF MemoryInv
<1> HIDE DEF c
<1>9. HonestAfter /\ \A b \in Clients : b # c => Kin(b)
  BY <1>1, <1>2, <1>3, <1>6, <1>7, OneMoves
<1>10. Fair(f, client', peer') /\ Fair(Handler(c, 0), client', peer')
  BY <1>5, <1>8, Unwatched, NotWatched DEF Fair, Placed, Doomed, Resource
<1>11. FairAfter
  BY <1>1, <1>2, <1>9, <1>10, FairCall, FairGoto
<1>12. QED
  BY <1>1, <1>9, <1>11, HonestPrimed

LEMMA FreeClientHonest ==
  ASSUME ListenersInv, MemoryInv, HonestInv, FreeClient
  PROVE  HonestInv'
<1> DEFINE c  == Top.c
           cl == [client[c] EXCEPT !.life = "freed"]
<1>1. /\ At("client_resources") /\ UNCHANGED <<scenario, peer>> /\ Return
      /\ client' = [client EXCEPT ![c].life = "freed"]
  BY DEF FreeClient, otherVars
<1>2. /\ c \in Clients /\ IsClient(client[c], Played.socket_space)
      /\ \A i \in Below : stack[i].c # c
  BY <1>1, AtDestroyer DEF Destroyers, Apart
<1>3. client' = [client EXCEPT ![c] = cl]
  BY <1>1, <1>2 DEF MemoryInv, Types
<1>4. /\ cl.out = client[c].out /\ cl.to_client = client[c].to_client
      /\ cl.life = "freed" /\ cl.pending = client[c].pending
      /\ cl.to_server = client[c].to_server
  BY <1>2 DEF IsClient, ClientFields
<1> HIDE DEF cl
<1>5. Moves(c, client[c], peer[c], cl, peer[c], display')
  BY <1>4, MovesOut
<1>6. Aged(display, display')
  <2>1. SameGlobals
    BY SameRestIf DEF FreeClient, DisplayFields, SameGlobals
  <2>2. QED
    BY <2>1, AgedSame
<1> HIDE DEF c
<1>7. HonestAfter /\ \A b \in Clients : b # c => Kin(b)
  BY <1>1, <1>2, <1>3, <1>5, <1>6, OneMoves
<1>8. FairAfter
  BY <1>1, <1>2, <1>7, FairReturn
<1>9. QED
  BY <1>1, <1>7, <1>8, HonestPrimed

-----------------------------------------------------------------------------
(* Resources go.                                                           *)

(* A client is told nothing of globals or errors.                          *)
SpeaksOf(cl, cl2, got) ==
  \A e \in ToSet(Speech(cl2, got)) :
    e \in ToSet(Speech(cl, got)) \/ e.op \notin {"global", "error"}

(* A client loses an object that it does not ask for any more.             *)
LEMMA LostHonest ==
  ASSUME ListenersInv, MemoryInv, HonestInv, UNCHANGED <<scenario, peer>>, SameGlobals, Return,
         At("free_resource") \/ At("resource_destroyed"),
         NEW cl, client' = [client EXCEPT ![Top.c] = cl],
         cl.life = client[Top.c].life, cl.pending = client[Top.c].pending,
         cl.to_server = client[Top.c].to_server, client[Top.c].error => cl.error,
         client[Top.c].display_resource /\ Top.id # Display => cl.display_resource,
         \E gone \in {"none", "freed"} :
           cl.objects = [client[Top.c].objects EXCEPT ![Top.id] = gone],
         SpeaksOf(client[Top.c], cl, peer[Top.c].got)
  PROVE  HonestInv'
<1> DEFINE c   == Top.c
           id  == Top.id
           old == client[c]
           p   == peer[c]
<1>1. Top.at \in Resource /\ c \in Clients /\ id \in Ids /\ Lives(old)
  BY AtOwner DEF Owners, Resource
<1>2. /\ IsClient(old, Played.socket_space) /\ IsPeer(p) /\ Honest(c, old, p, display)
  BY <1>1, ClientAndPeer
<1>3. Free(old) => /\ old.objects[id] \notin {"registry", "display"}
                   /\ \A r \in ToSet(Coming(old, p)) : r.op = "destroy" => r.obj # id
  BY <1>1, TopFair DEF Fair, Doomed
<1>4. /\ cl.life = old.life /\ (Free(cl) => Free(old))
      /\ Coming(cl, p) = Coming(old, p) /\ Asked(cl) = Asked(old)
  BY DEF Free, Coming, Asked
<1>5. /\ \A k : k # id => cl.objects[k] = old.objects[k]
      /\ cl.objects[id] \in {"none", "freed"}
  BY <1>1, <1>2 DEF IsClient
<1>6. Aged(display, display')
  BY AgedSame
<1>7. ASSUME Free(cl), NEW k, old.objects[k] \in {"registry", "display"}
      PROVE  cl.objects[k] = old.objects[k]
  BY <1>3, <1>4, <1>5, <1>7
<1>8. Polite(cl, p)
  <2> SUFFICES ASSUME Free(cl)
               PROVE  /\ cl.display_resource /\ cl.objects[Display] = "display"
                      /\ Sensible(Coming(cl, p), cl.objects, p.last)
    BY DEF Polite
  <2>1. /\ old.display_resource /\ old.objects[Display] = "display"
        /\ Sensible(Coming(old, p), old.objects, p.last)
    BY <1>2, <1>4 DEF Honest, Polite
  <2>2. id # Display
    BY <1>3, <1>4, <2>1
  <2>3. \A r \in ToSet(Coming(old, p)) :
          /\ r.op = "bind" /\ old.objects[r.obj] = "registry" => cl.objects[r.obj] = "registry"
          /\ r.op = "destroy" /\ old.objects[r.obj] = "object" => cl.objects[r.obj] = "object"
    BY <1>3, <1>4, <1>5, <1>7
  <2> HIDE DEF c, old, p, id
  <2>4. Sensible(Coming(old, p), cl.objects, p.last)
    BY <2>1, <2>3, SensibleKept
  <2>5. cl.display_resource
    BY <2>1, <2>2 DEF old, c, id
  <2>6. QED
    BY <1>4, <1>7, <2>1, <2>4, <2>5
<1>9. Honest(c, cl, p, display')
  <2>1. ASSUME NEW e \in ToSet(Speech(cl, p.got)) PROVE IsTrue(c, cl, e, display')
    <3>1. CASE e \in ToSet(Speech(old, p.got))
      <4>1. IsTrue(c, old, e, display)
        BY <1>2, <3>1 DEF Honest
      <4>2. /\ Free(cl) => Free(old)
            /\ Free(cl) /\ old.objects[e.obj] = "registry" => cl.objects[e.obj] = "registry"
        BY <1>4, <1>7
      <4> HIDE DEF c, old, p, id
      <4>3. QED
        BY <1>6, <4>1, <4>2, TrueKept
    <3>2. CASE e.op \notin {"global", "error"}
      BY <3>2, Innocent
    <3>3. QED
      BY <2>1, <3>1, <3>2 DEF SpeaksOf
  <2>2. \A r \in Asked(cl) : Sane(c, r, display')
    BY <1>2, <1>4, <1>6, SaneKept DEF Honest
  <2>3. Blank(cl)
    BY <1>1, <1>4 DEF Blank, Lives
  <2>4. QED
    BY <1>2, <1>8, <2>1, <2>2, <2>3 DEF Honest
<1>10. Stays(old, p, cl, p)
  <2>1. p.last \in Ids /\ p.last <= p.last
    BY <1>2 DEF IsPeer, Ids
  <2>2. ASSUME NEW k \in Ids, cl.objects[k] \in {"registry", "display"}
        PROVE  old.objects[k] = cl.objects[k]
    <3>1. k # id
      BY <1>5, <2>2
    <3>2. QED
      BY <1>5, <3>1
  <2>3. QED
    BY <1>4, <2>1, <2>2 DEF Stays
<1>11. client'[c] = cl /\ peer'[c] = p /\ \A b \in Clients : b # c => client'[b] = client[b]
  BY <1>1, OneClient DEF MemoryInv
<1> HIDE DEF c, p, old, id
<1>12. \A b \in Clients : b # c => Honest(b, client'[b], peer'[b], display') /\ Kin(b)
  BY <1>6, <1>11, Untouched
<1>13. Kin(c)
  BY <1>4, <1>10, <1>11 DEF Kin, old, p
<1>14. HonestAfter
  BY <1>9, <1>11, <1>12 DEF HonestAfter
<1>15. FairAfter
  BY <1>12, <1>13, FairReturn
<1>16. QED
  BY <1>14, <1>15, HonestPrimed

LEMMA FreeResourceHonest ==
  ASSUME ListenersInv, MemoryInv, HonestInv, FreeResource
  PROVE  HonestInv'
<1> DEFINE c  == Top.c
           id == Top.id
           cl == [client[c] EXCEPT !.display_resource = @ /\ id # Display,
                                   !.objects[id] = "freed"]
<1>1. /\ At("free_resource") /\ Return /\ UNCHANGED <<scenario, peer>>
      /\ client' = [client EXCEPT ![c].display_resource = @ /\ id # Display,
                                  ![c].objects[id] = "freed"]
  BY DEF FreeResource, otherVars
<1>2. c \in Clients /\ id \in Ids /\ IsClient(client[c], Played.socket_space)
  BY <1>1, AtOwner DEF Owners, Resource
<1>3. client' = [client EXCEPT ![c] = cl]
  BY <1>1, <1>2 DEF MemoryInv, Types
<1>4. /\ cl.out = client[c].out /\ cl.to_client = client[c].to_client
      /\ cl.error = client[c].error /\ cl.pending = client[c].pending
      /\ cl.to_server = client[c].to_server /\ cl.life = client[c].life
      /\ cl.display_resource = (client[c].display_resource /\ id # Display)
      /\ cl.objects = [client[c].objects EXCEPT ![id] = "freed"]
  BY <1>2 DEF IsClient, ClientFields
<1> HIDE DEF cl
<1>5. SpeaksOf(client[c], cl, peer[c].got)
  BY <1>4 DEF Speech, SpeaksOf
<1>6. SameGlobals
  BY SameRestIf DEF FreeResource, DisplayFields, SameGlobals
<1>7. QED
  BY <1>1, <1>3, <1>4, <1>5, <1>6, LostHonest

LEMMA DeleteIdHonest ==
  ASSUME ListenersInv, MemoryInv, HonestInv, DeleteId
  PROVE  HonestInv'
<1> DEFINE c    == Top.c
           id   == Top.id
           e    == Event("delete_id", Display, id)
           told == IF client[c].display_resource
                   THEN handle_array(client[c], e, FALSE) ELSE client[c]
           cl   == [told EXCEPT !.objects[id] = "none"]
<1>1. /\ At("resource_destroyed") /\ Return /\ UNCHANGED <<scenario, peer, display>>
      /\ client' = [client EXCEPT ![Top.c] =
           [IF @.display_resource
            THEN wl_resource_queue_event(@, Event("delete_id", Display, Top.id)) ELSE @
            EXCEPT !.objects[Top.id] = "none"]]
  BY DEF DeleteId, otherVars
<1>2. c \in Clients /\ id \in Ids /\ IsClient(client[c], Played.socket_space)
  BY <1>1, AtOwner DEF Owners, Resource
<1>3. client' = [client EXCEPT ![c] = cl]
  BY <1>1, <1>2 DEF MemoryInv, Types, wl_resource_queue_event
<1>4. IsSequence(peer[c].got) /\ Types
  BY <1>2, ClientIs
<1>5. /\ IsClient(told, Played.socket_space) /\ SameCore(told, client[c])
      /\ told.display_resource = client[c].display_resource
      /\ client[c].error => told.error
      /\ ToSet(Speech(told, peer[c].got)) \subseteq ToSet(Speech(client[c], peer[c].got)) \cup {e}
  <2> DEFINE post == handle_array(client[c], e, FALSE)
  <2>1. /\ IsClient(post, Played.socket_space) /\ SameCore(post, client[c])
        /\ post.display_resource = client[c].display_resource
        /\ client[c].error => post.error
        /\ ToSet(Speech(post, peer[c].got))
             \subseteq ToSet(Speech(client[c], peer[c].got)) \cup {e}
    <3> HIDE DEF c, e
    <3>1. /\ IsClient(post, Played.socket_space) /\ SameCore(post, client[c])
          /\ post.display_resource = client[c].display_resource
      BY <1>2, <1>4, Posted
    <3>2. /\ client[c].error => post.error
          /\ ToSet(Speech(post, peer[c].got))
               \subseteq ToSet(Speech(client[c], peer[c].got)) \cup {e}
      BY <1>2, <1>4, PostSays
    <3>3. QED
      BY <3>1, <3>2
  <2>2. told = post \/ told = client[c]
    OBVIOUS
  <2> HIDE DEF post, told
  <2>3. QED
    BY <1>2, <2>1, <2>2 DEF SameCore
<1>6. e.op = "delete_id"
  BY DEF Event
<1> HIDE DEF told, e
<1>7. /\ cl.out = told.out /\ cl.to_client = told.to_client
      /\ cl.error = told.error /\ cl.pending = told.pending
      /\ cl.to_server = told.to_server /\ cl.life = told.life
      /\ cl.display_resource = told.display_resource
      /\ cl.objects = [told.objects EXCEPT ![id] = "none"]
  BY <1>5 DEF IsClient, ClientFields
<1> HIDE DEF cl
<1>8. /\ cl.life = client[c].life /\ cl.pending = client[c].pending
      /\ cl.to_server = client[c].to_server
      /\ cl.objects = [client[c].objects EXCEPT ![id] = "none"]
  BY <1>5, <1>7 DEF SameCore
<1>9. SpeaksOf(client[c], cl, peer[c].got)
  BY <1>5, <1>6, <1>7 DEF Speech, SpeaksOf
<1>10. SameGlobals
  BY <1>1 DEF SameGlobals
<1>11. client[c].display_resource /\ id # Display => cl.display_resource
  BY <1>5, <1>7
<1>12. client[c].error => cl.error
  BY <1>5, <1>7
<1>13. QED
  BY <1>1, <1>3, <1>8, <1>9, <1>10, <1>11, <1>12, LostHonest

-----------------------------------------------------------------------------
(* Requests.                                                               *)

(* What a client asks for next is there, as long as it may go on.          *)
LEMMA RequestIs ==
  ASSUME ListenersInv, MemoryInv, HonestInv, MayHandle
  PROVE  LET old == client[Top.c]
             p   == peer[Top.c]
             now == Coming(old, p)
         IN  /\ old.life = "live" /\ Sane(Top.c, Request, display)
             /\ IsSequence(now) /\ now # << >> /\ Head(now) = Request
             /\ Coming(Served, p) = Tail(now)
             /\ Free(old) =>
                  /\ old.display_resource /\ old.objects[Display] = "display"
                  /\ Sensible(now, old.objects, p.last)
                  /\ Request.op = "bind" => Object = "registry"
                  /\ Request.op = "destroy" =>
                       /\ Object = "object" /\ Request.obj <= p.last
                       /\ \A r \in ToSet(Tail(now)) : r.op = "destroy" => r.obj # Request.obj
                  /\ Object # "none"
<1> DEFINE old == client[Top.c]
           p   == peer[Top.c]
           now == Coming(old, p)
<1>1. /\ Top.at = "requests" /\ Top.c \in Clients /\ old.pending # << >>
      /\ Served.pending = Tail(old.pending) /\ Served.to_server = old.to_server
      /\ Request \in ToSet(old.pending)
  BY ServedIs, AtRequests DEF MayHandle
<1>2. /\ IsClient(old, Played.socket_space) /\ IsPeer(p) /\ Honest(Top.c, old, p, display)
  BY <1>1, ClientAndPeer
<1>3. old.life = "live"
  BY <1>1, TopFair DEF Fair, Placed
<1>4. Sane(Top.c, Request, display)
  BY <1>1, <1>2 DEF Honest, Asked
<1>5. /\ IsSequence(now) /\ now # << >> /\ Head(now) = Request /\ Coming(Served, p) = Tail(now)
  <2>1. Request = Head(old.pending)
    BY DEF Request
  <2> HIDE DEF old, p
  <2>2. QED
    BY <1>1, <1>2, <2>1, ComingIs, ComingTail
<1>6. ASSUME Free(old)
      PROVE  /\ old.display_resource /\ old.objects[Display] = "display"
             /\ Sensible(now, old.objects, p.last)
  BY <1>2, <1>6 DEF Honest, Polite
<1>7. ASSUME Free(old)
      PROVE  /\ Request.op = "bind" => Object = "registry"
             /\ Request.op = "destroy" => Object = "object" /\ Request.obj <= p.last
             /\ Request.op \notin {"bind", "destroy"} => Object = "display"
  <2> HIDE DEF now
  <2>1. 1 \in DOMAIN now /\ now[1] = Request /\ 1..1 - 1 = {}
    BY <1>5, SequenceIs, SequenceTail
  <2>2. Object = old.objects[Request.obj]
    BY DEF Object
  <2>3. /\ Request.op = "bind" => Object = "registry"
        /\ Request.op = "destroy" => Object = "object" /\ Request.obj <= p.last
        /\ Request.op \notin {"bind", "destroy"} => Request.obj = Display
    BY <1>6, <1>7, <2>1, <2>2 DEF Sensible
  <2>4. QED
    BY <1>6, <1>7, <2>2, <2>3
<1>8. ASSUME Free(old), Request.op = "destroy", NEW r \in ToSet(Tail(now)), r.op = "destroy"
      PROVE  r.obj # Request.obj
  <2> HIDE DEF now
  <2>1. PICK i \in DOMAIN Tail(now) : r = Tail(now)[i]
    BY <1>8 DEF ToSet
  <2>2. /\ DOMAIN now = 1..Len(now) /\ Len(now) \in Nat /\ now[1] = Request
        /\ i \in 1..Len(now) - 1 /\ r = now[i + 1]
    BY <1>5, <2>1, SequenceIs, SequenceTail
  <2>3. i + 1 \in DOMAIN now /\ 1 \in 1..(i + 1) - 1
    BY <2>2
  <2>4. QED
    BY <1>6, <1>8, <2>2, <2>3 DEF Sensible
<1>9. QED
  BY <1>3, <1>4, <1>5, <1>6, <1>7, <1>8

(* A client is answered: its objects stay, unless it asked for a new one.  *)
LEMMA AnsweredHonest ==
  ASSUME ListenersInv, MemoryInv, HonestInv, MayHandle, UNCHANGED <<scenario, peer>>, SameGlobals,
         NEW cl, client' = [Consumed EXCEPT ![Top.c] = cl],
         cl.life = Served.life, cl.pending = Served.pending, cl.to_server = Served.to_server,
         Served.error => cl.error, cl.display_resource = Served.display_resource,
         Free(cl) =>
           /\ Request.op = "bind" => cl.objects[Request.new] = "object"
           /\ \A k \in Ids : Served.objects[k] # "none" => cl.objects[k] = Served.objects[k],
         \A e \in ToSet(Speech(cl, peer[Top.c].got)) :
           e \in ToSet(Speech(Served, peer[Top.c].got)) \/ IsTrue(Top.c, cl, e, display)
  PROVE  HonestAfter /\ client'[Top.c].life = "live"
<1> DEFINE c   == Top.c
           old == client[c]
           p   == peer[c]
           now == Coming(old, p)
<1>1. /\ c \in Clients /\ Consumed = [client EXCEPT ![c] = Served]
      /\ Served.error = old.error /\ Served.out = old.out /\ Served.to_client = old.to_client
      /\ Served.display_resource = old.display_resource
      /\ Served.objects = old.objects /\ Served.life = old.life
      /\ Asked(Served) \subseteq Asked(old)
  BY ServedSpeaks, ServedIs, ServedAsks
<1>2. client' = [client EXCEPT ![c] = cl]
  BY <1>1
<1>3. client'[c] = cl /\ peer'[c] = p /\ \A b \in Clients : b # c => client'[b] = client[b]
  BY <1>1, <1>2, OneClient DEF MemoryInv
<1>4. Aged(display, display')
  BY AgedSame
<1>5. /\ IsClient(old, Played.socket_space) /\ IsPeer(p) /\ Honest(c, old, p, display)
  BY <1>1, ClientAndPeer
<1>6. /\ old.life = "live" /\ IsSequence(now) /\ now # << >> /\ Head(now) = Request
      /\ Coming(Served, p) = Tail(now)
      /\ Free(old) => /\ old.display_resource /\ old.objects[Display] = "display"
                      /\ Sensible(now, old.objects, p.last)
  BY RequestIs
<1>7. /\ cl.life = "live" /\ (Free(cl) => Free(old)) /\ Coming(cl, p) = Tail(now)
      /\ Asked(cl) \subseteq Asked(old)
      /\ cl.display_resource = old.display_resource
  BY <1>1, <1>6 DEF Free, Coming, Asked
<1>8. ASSUME Free(cl), NEW k, old.objects[k] \in {"registry", "display", "object"}, k \in Ids
      PROVE  cl.objects[k] = old.objects[k]
  BY <1>1, <1>8
<1>9. Free(cl) => /\ Request.op = "bind" => cl.objects[Request.new] = "object"
                  /\ \A k \in Ids : old.objects[k] \in {"registry", "display", "object"} =>
                       cl.objects[k] = old.objects[k]
  BY <1>8
<1>10. \A r \in ToSet(now) : r.obj \in Ids
  BY <1>5, ComingIs DEF IsRequest
<1>11. Polite(cl, p)
  <2> SUFFICES ASSUME Free(cl)
               PROVE  /\ cl.display_resource /\ cl.objects[Display] = "display"
                      /\ Sensible(Tail(now), cl.objects, p.last)
    BY <1>7 DEF Polite
  <2>1. \A r \in ToSet(Tail(now)) : r \in ToSet(now)
    BY <1>6, SequenceTail
  <2>2. \A r \in ToSet(Tail(now)) :
          /\ r.op = "bind" /\ old.objects[r.obj] = "registry" => cl.objects[r.obj] = "registry"
          /\ r.op = "destroy" /\ old.objects[r.obj] = "object" => cl.objects[r.obj] = "object"
    BY <1>9, <1>10, <2>1
  <2>3. Head(now).op = "bind" => cl.objects[Head(now).new] = "object"
    BY <1>6, <1>9
  <2>4. Display \in Ids
    BY BoundsAssumption DEF Display, Ids
  <2>5. IsSequence(now) /\ now # << >> /\ Sensible(now, old.objects, p.last)
    BY <1>6, <1>7
  <2>6. Sensible(Tail(now), cl.objects, p.last)
    <3> HIDE DEF now, old, p
    <3>1. QED
      BY <2>2, <2>3, <2>5, SensibleTail
  <2>7. QED
    BY <1>6, <1>7, <1>9, <2>4, <2>6
<1>12. \A e \in ToSet(Speech(cl, p.got)) :
         e \in ToSet(Speech(old, p.got)) \/ IsTrue(c, cl, e, display)
  BY <1>1 DEF Speech
<1>13. ASSUME NEW e \in ToSet(Speech(cl, p.got)) PROVE IsTrue(c, cl, e, display')
  <2>1. CASE IsTrue(c, cl, e, display)
    <3> HIDE DEF c
    <3>1. QED
      BY <1>4, <2>1, TrueKept
  <2>2. CASE e \in ToSet(Speech(old, p.got))
    <3>1. IsTrue(c, old, e, display)
      BY <1>5, <2>2 DEF Honest
    <3>2. CASE e.op = "global"
      <4>1. e.obj \in Ids
        BY <3>1, <3>2 DEF IsTrue
      <4>2. Free(cl) => Free(old) /\ (old.objects[e.obj] = "registry" =>
                                        cl.objects[e.obj] = "registry")
        BY <1>7, <1>9, <4>1
      <4> HIDE DEF c, old, p
      <4>3. QED
        BY <1>4, <3>1, <4>2, TrueKept
    <3>3. CASE e.op # "global"
      <4>1. e.op = "error" => Excused(e.arg, display')
        BY <1>4, <3>1, ExcusedKept DEF IsTrue
      <4>2. QED
        BY <3>3, <4>1 DEF IsTrue
    <3>4. QED
      BY <3>2, <3>3
  <2>3. QED
    BY <1>12, <1>13, <2>1, <2>2
<1>14. \A r \in Asked(cl) : Sane(c, r, display')
  <2>1. \A r \in Asked(old) : Sane(c, r, display)
    BY <1>5 DEF Honest
  <2> HIDE DEF c, old
  <2>2. QED
    BY <1>4, <1>7, <2>1, SaneKept
<1>15. Orderly(p.program)
  BY <1>5 DEF Honest
<1>16. Blank(cl)
  BY <1>7 DEF Blank
<1>17. Honest(c, cl, p, display')
  <2> HIDE DEF c, p
  <2>1. QED
    BY <1>11, <1>13, <1>14, <1>15, <1>16 DEF Honest
<1>18. \A b \in Clients : b # c => Honest(b, client'[b], peer'[b], display')
  <2> HIDE DEF c
  <2>1. QED
    BY <1>3, <1>4, Untouched
<1>19. \A b \in Clients : Honest(b, client'[b], peer'[b], display')
  <2>1. Honest(c, client'[c], peer'[c], display')
    BY <1>3, <1>17
  <2> HIDE DEF c
  <2>2. QED
    BY <1>18, <2>1
<1>20. client'[c].life = "live"
  BY <1>3, <1>7
<1>21. QED
  BY <1>19, <1>20 DEF HonestAfter

-----------------------------------------------------------------------------
(* Where a handled request leads.                                          *)

LEMMA AnswerFair ==
  ASSUME ListenersInv, MemoryInv, MayHandle, client'[Top.c].life = "live"
  PROVE  /\ Fair(Handled, client', peer')
         /\ \A i \in Below : stack[i].c \in Clients => Kin(stack[i].c)
<1>1. At("requests") /\ Top.at \in OfLoop
  BY ServedIs, AtRequests
<1>2. \A i \in Below : stack[i].c \notin Clients
  BY <1>1, BelowNobody
<1>3. Handled.at = "requests" /\ Handled.c = Top.c
  BY DEF Handled, Handling
<1>4. Fair(Handled, client', peer')
  BY <1>3 DEF Fair, Placed, Doomed, Resource
<1>5. QED
  BY <1>2, <1>4

LEMMA AnswerGoto ==
  ASSUME ListenersInv, MemoryInv, HonestInv, MayHandle, UNCHANGED scenario, HonestAfter,
         client'[Top.c].life = "live", Goto(Handled)
  PROVE  HonestInv'
<1>1. FairAfter
  BY AnswerFair, FairGoto
<1>2. QED
  BY <1>1, HonestPrimed

LEMMA AnswerCall ==
  ASSUME ListenersInv, MemoryInv, HonestInv, MayHandle, UNCHANGED scenario, HonestAfter,
         client'[Top.c].life = "live", NEW f, Call(f, Handled), Fair(f, client', peer')
  PROVE  HonestInv'
<1>1. FairAfter
  BY AnswerFair, FairCall
<1>2. QED
  BY <1>1, HonestPrimed

(* A request is answered with an error, if the client has not had one.     *)
LEMMA RefuseHonest ==
  ASSUME ListenersInv, MemoryInv, HonestInv, MayHandle, UNCHANGED <<scenario, peer, display>>,
         Goto(Handled), NEW why, client[Top.c].error \/ Excused(why, display),
         client' = [Consumed EXCEPT ![Top.c] = wl_resource_post_error(@, why)]
  PROVE  HonestInv'
<1> DEFINE c  == Top.c
           cl == wl_resource_post_error(Served, why)
           e  == Event("error", Display, why)
<1>1. /\ c \in Clients /\ Types /\ IsSequence(peer[c].got) /\ Served.error = client[c].error
      /\ IsClient(Served, Played.socket_space) /\ Consumed = [client EXCEPT ![c] = Served]
      /\ Served.display_resource = client[c].display_resource
  BY ServedSpeaks
<1>2. client' = [Consumed EXCEPT ![c] = cl]
  BY <1>1
<1>3. SameCore(cl, Served) /\ cl.display_resource = Served.display_resource
  BY <1>1, ErrorPosted
<1>4. /\ Served.error \/ ~Served.display_resource => cl = Served
      /\ ~Served.error /\ Served.display_resource => cl.error
      /\ ToSet(Speech(cl, peer[c].got)) \subseteq
           ToSet(Speech(Served, peer[c].got)) \cup (IF Served.error THEN {} ELSE {e})
  BY <1>1, ErrorSays
<1>5. Served.life = client[c].life /\ (Free(client[c]) => client[c].display_resource)
      /\ client[c].life = "live"
  BY ServedIs, RequestIs
<1> HIDE DEF cl, c
<1>6. ~Free(cl)
  BY <1>1, <1>3, <1>4, <1>5 DEF SameCore, Free
<1>7. /\ cl.life = Served.life /\ cl.pending = Served.pending
      /\ cl.to_server = Served.to_server /\ (Served.error => cl.error)
  BY <1>3, <1>4 DEF SameCore
<1>8. ~Served.error => IsTrue(c, cl, e, display)
  BY <1>1 DEF IsTrue, Event, c
<1> HIDE DEF e
<1>9. \A x \in ToSet(Speech(cl, peer[c].got)) :
        x \in ToSet(Speech(Served, peer[c].got)) \/ IsTrue(c, cl, x, display)
  BY <1>4, <1>8
<1>10. SameGlobals
  BY DEF SameGlobals
<1>11. HonestAfter /\ client'[c].life = "live"
  BY <1>2, <1>3, <1>6, <1>7, <1>9, <1>10, AnsweredHonest DEF c
<1>12. QED
  BY <1>11, AnswerGoto DEF c

LEMMA RejectHonest ==
  ASSUME ListenersInv, MemoryInv, HonestInv, RejectRequest
  PROVE  HonestInv'
<1> DEFINE c   == Top.c
           old == client[c]
<1>1. /\ MayHandle /\ UNCHANGED <<scenario, peer, display>> /\ Goto(Handled)
      /\ Object = "none" \/ Request.op = "wrong"
  BY DEF RejectRequest, otherVars
<1>2. /\ old.life = "live" /\ Sane(c, Request, display)
      /\ Free(old) => Object # "none"
  BY <1>1, RequestIs
<1>3. CASE Object = "none"
  <2> DEFINE why == <<"object", Request.obj>>
  <2>1. old.error \/ "drop" \in Played.calls
    BY <1>2, <1>3 DEF Free
  <2>2. old.error \/ Excused(why, display)
    BY <2>1 DEF Excused
  <2>3. client' = [Consumed EXCEPT ![c] = wl_resource_post_error(@, why)]
    BY <1>3 DEF RejectRequest
  <2> HIDE DEF why
  <2>4. QED
    BY <1>1, <2>2, <2>3, RefuseHonest
<1>4. CASE Object # "none"
  <2> DEFINE why == <<"wrong", 0>>
  <2>1. Request.op = "wrong" /\ ~Played.honest
    BY <1>1, <1>2, <1>4 DEF Sane
  <2>2. Excused(why, display)
    BY <2>1 DEF Excused
  <2>3. client' = [Consumed EXCEPT ![c] = wl_resource_post_error(@, why)]
    BY <1>4 DEF RejectRequest
  <2> HIDE DEF why
  <2>4. QED
    BY <1>1, <2>2, <2>3, RefuseHonest
<1>5. QED
  BY <1>3, <1>4

(* An object is made for the request.                                      *)
LEMMA MadeHonest ==
  ASSUME ListenersInv, MemoryInv, HonestInv, MayHandle, Creates(Request),
         UNCHANGED <<scenario, peer>>, SameGlobals,
         NEW kind, Request.op = "bind" => kind = "object",
         client' = [Consumed EXCEPT ![Top.c].objects[Request.new] = kind]
  PROVE  HonestAfter /\ client'[Top.c].life = "live"
<1> DEFINE c  == Top.c
           id == Request.new
           cl == [Served EXCEPT !.objects = [@ EXCEPT ![id] = kind]]
<1>1. /\ At("requests") /\ IsClient(Served, Played.socket_space)
      /\ Served.objects = client[c].objects /\ Consumed = [client EXCEPT ![c] = Served]
      /\ Request \in ToSet(client[c].pending) /\ id \in Ids
  BY ServedIs DEF IsRequest
<1>2. c \in Clients /\ Types
  BY ServedAsks
<1>3. client[c].objects[id] = "none" /\ client[c].objects \in [Ids -> Kinds]
  BY <1>1, AtRequests DEF Fresh, IsClient
<1>4. client' = [Consumed EXCEPT ![c] = cl]
  <2>1. Consumed[c] = Served
    BY <1>1, <1>2 DEF Types
  <2>2. client' = [Consumed EXCEPT ![c] = [Consumed[c] EXCEPT !.objects = [@ EXCEPT ![id] = kind]]]
    OBVIOUS
  <2>3. QED
    BY <2>1, <2>2
<1>5. /\ cl.objects = [Served.objects EXCEPT ![id] = kind] /\ cl.life = Served.life
      /\ cl.pending = Served.pending /\ cl.to_server = Served.to_server
      /\ cl.out = Served.out /\ cl.to_client = Served.to_client
      /\ cl.error = Served.error
  BY <1>1 DEF IsClient, ClientFields
<1>6. cl.display_resource = Served.display_resource
  BY <1>1 DEF IsClient, ClientFields
<1> HIDE DEF cl
<1>7. cl.objects[id] = kind
  BY <1>1, <1>3, <1>5
<1>8. \A k \in Ids : Served.objects[k] # "none" => cl.objects[k] = Served.objects[k]
  BY <1>1, <1>3, <1>5
<1>9. Speech(cl, peer[c].got) = Speech(Served, peer[c].got)
  BY <1>5 DEF Speech
<1>10. Served.error => cl.error
  BY <1>5
<1>11. \A e \in ToSet(Speech(cl, peer[c].got)) :
         e \in ToSet(Speech(Served, peer[c].got)) \/ IsTrue(c, cl, e, display)
  BY <1>9
<1>12. Free(cl) =>
         /\ Request.op = "bind" => cl.objects[Request.new] = "object"
         /\ \A k \in Ids : Served.objects[k] # "none" => cl.objects[k] = Served.objects[k]
  BY <1>7, <1>8
<1> HIDE DEF c
<1>13. QED
  BY <1>4, <1>5, <1>6, <1>10, <1>11, <1>12, AnsweredHonest DEF c

LEMMA BindHonest ==
  ASSUME ListenersInv, MemoryInv, HonestInv, registry_bind
  PROVE  HonestInv'
<1> DEFINE why   == <<"global", Request.name>>
           found == {g \in ToSet(display.globals) : g.name = Request.name}
           f     == Handler(Top.c, Request.new)
<1>1. /\ MayHandle /\ UNCHANGED <<scenario, peer, display>> /\ Request.op = "bind"
  BY DEF registry_bind, otherVars
<1>2. CASE \E g \in found : wl_global_is_visible(Top.c, g)
  <2>1. /\ client' = [Consumed EXCEPT ![Top.c].objects[Request.new] = "object"]
        /\ Call(f, Handled)
    BY <1>2 DEF registry_bind
  <2>2. SameGlobals /\ Creates(Request)
    BY <1>1 DEF SameGlobals, Creates
  <2>3. HonestAfter /\ client'[Top.c].life = "live"
    BY <1>1, <2>1, <2>2, MadeHonest
  <2>4. Fair(f, client', peer')
    BY NotWatched, Unwatched
  <2> HIDE DEF f
  <2>5. QED
    BY <1>1, <2>1, <2>3, <2>4, AnswerCall
<1>3. CASE ~\E g \in found : wl_global_is_visible(Top.c, g)
  <2>1. /\ client' = [Consumed EXCEPT ![Top.c] = wl_resource_post_error(@, why)]
        /\ Goto(Handled)
    BY <1>3 DEF registry_bind
  <2>2. Knows(Top.c, Request.name, display)
    BY <1>1, RequestIs DEF Sane
  <2>3. Request.name \notin Names(display.globals)
    BY <1>3, <2>2 DEF Knows, Names
  <2>4. Excused(why, display)
    BY <2>2, <2>3 DEF Excused, Knows
  <2> HIDE DEF why
  <2>5. QED
    BY <1>1, <2>1, <2>4, RefuseHonest
<1>4. QED
  BY <1>2, <1>3

LEMMA GetRegistryHonest ==
  ASSUME ListenersInv, MemoryInv, HonestInv, display_get_registry
  PROVE  HonestInv'
<1> DEFINE f   == Telling(Top.c, Request.new, display.globals)
           reg == [c |-> Top.c, id |-> Request.new]
<1>1. /\ MayHandle /\ Creates(Request) /\ UNCHANGED <<scenario, peer>> /\ Call(f, Handled)
      /\ Request.op # "bind"
      /\ client' = [Consumed EXCEPT ![Top.c].objects[Request.new] = "registry"]
      /\ display' = [display EXCEPT !.registries = <<reg>> \o @]
  BY DEF display_get_registry, Creates, otherVars
<1> HIDE DEF reg
<1>2. SameGlobals
  BY <1>1 DEF SameGlobals, MemoryInv, Types, IsDisplay, DisplayFields
<1>3. HonestAfter /\ client'[Top.c].life = "live"
  BY <1>1, <1>2, MadeHonest
<1>4. f.at = "tell"
  BY DEF Telling
<1> HIDE DEF f
<1>5. Fair(f, client', peer')
  BY <1>4, NotWatched, Unwatched
<1>6. QED
  BY <1>1, <1>3, <1>5, AnswerCall

LEMMA SyncHonest ==
  ASSUME ListenersInv, MemoryInv, HonestInv, display_sync
  PROVE  HonestInv'
<1> DEFINE c    == Top.c
           got  == peer[c].got
           e1   == Event("done", Request.new, 0)
           e2   == Event("delete_id", Display, Request.new)
           done == handle_array(Served, e1, TRUE)
           cl   == handle_array(done, e2, FALSE)
<1>1. /\ MayHandle /\ Goto(Handled) /\ UNCHANGED <<scenario, peer, display>>
      /\ Request.op # "bind"
  BY DEF display_sync, otherVars
<1>2. /\ c \in Clients /\ Types /\ Consumed = [client EXCEPT ![c] = Served]
      /\ IsClient(Served, Played.socket_space) /\ IsSequence(got)
  BY <1>1, ServedSpeaks
<1>3. client' = [Consumed EXCEPT ![c] = cl]
  BY <1>2 DEF display_sync, wl_resource_post_event, wl_resource_queue_event
<1>4. \A x : IsTrue(c, x, e1, display) /\ IsTrue(c, x, e2, display)
  BY Innocent DEF Event
<1> HIDE DEF e1, e2, got
<1>5. /\ IsClient(done, Played.socket_space) /\ SameCore(done, Served)
      /\ done.display_resource = Served.display_resource
      /\ ToSet(Speech(done, got)) \subseteq ToSet(Speech(Served, got)) \cup {e1}
      /\ Served.error => done.error
  <2>1. /\ IsClient(done, Played.socket_space) /\ SameCore(done, Served)
        /\ done.display_resource = Served.display_resource
    BY <1>2, Posted
  <2>2. /\ ToSet(Speech(done, got)) \subseteq ToSet(Speech(Served, got)) \cup {e1}
        /\ Served.error => done.error
    BY <1>2, PostSays
  <2>3. QED
    BY <2>1, <2>2
<1> HIDE DEF done
<1>6. /\ SameCore(cl, done) /\ cl.display_resource = done.display_resource
      /\ ToSet(Speech(cl, got)) \subseteq ToSet(Speech(done, got)) \cup {e2}
      /\ done.error => cl.error
  <2>1. SameCore(cl, done) /\ cl.display_resource = done.display_resource
    BY <1>2, <1>5, Posted
  <2>2. /\ ToSet(Speech(cl, got)) \subseteq ToSet(Speech(done, got)) \cup {e2}
        /\ done.error => cl.error
    BY <1>2, <1>5, PostSays
  <2>3. QED
    BY <2>1, <2>2
<1> HIDE DEF cl
<1>7. /\ cl.life = Served.life /\ cl.pending = Served.pending /\ cl.objects = Served.objects
      /\ cl.to_server = Served.to_server
  BY <1>5, <1>6 DEF SameCore
<1>8. cl.display_resource = Served.display_resource
  BY <1>5, <1>6
<1>9. Served.error => cl.error
  BY <1>5, <1>6
<1>10. \A x \in ToSet(Speech(cl, got)) :
         x \in ToSet(Speech(Served, got)) \/ IsTrue(c, cl, x, display)
  BY <1>4, <1>5, <1>6
<1>11. SameGlobals
  BY <1>1 DEF SameGlobals
<1>12. Free(cl) =>
         /\ Request.op = "bind" => cl.objects[Request.new] = "object"
         /\ \A k \in Ids : Served.objects[k] # "none" => cl.objects[k] = Served.objects[k]
  BY <1>1, <1>7
<1> HIDE DEF c
<1>13. HonestAfter /\ client'[c].life = "live"
  BY <1>1, <1>3, <1>7, <1>8, <1>9, <1>10, <1>11, <1>12, AnsweredHonest DEF c, got
<1>14. QED
  BY <1>1, <1>13, AnswerGoto DEF c

(* Nothing else that is still asked for destroys the same object.          *)
LEMMA HandleDestroyHonest ==
  ASSUME ListenersInv, MemoryInv, HonestInv, HandleDestroy
  PROVE  HonestInv'
<1> DEFINE c   == Top.c
           id  == Request.obj
           p   == peer[c]
           old == client[c]
           f   == FrameOf("resource_destroy", c, id)
<1>1. /\ MayHandle /\ Call(f, Handled) /\ UNCHANGED <<scenario, peer, display>>
      /\ Request.op = "destroy" /\ client' = Consumed
  BY DEF HandleDestroy, otherVars
<1>2. /\ c \in Clients /\ Types /\ Consumed = [client EXCEPT ![c] = Served]
      /\ Served.error = old.error
  BY <1>1, ServedSpeaks
<1>3. client' = [Consumed EXCEPT ![c] = Served] /\ client'[c] = Served
  BY <1>1, <1>2 DEF Types
<1>4. SameGlobals /\ Request.op # "bind"
  BY <1>1 DEF SameGlobals
<1>5. Free(Served) =>
         /\ Request.op = "bind" => Served.objects[Request.new] = "object"
         /\ \A k \in Ids : Served.objects[k] # "none" => Served.objects[k] = Served.objects[k]
  BY <1>4
<1>6. HonestAfter /\ client'[c].life = "live"
  <2> HIDE DEF c
  <2>1. QED
    BY <1>1, <1>3, <1>4, <1>5, AnsweredHonest DEF c
<1>7. /\ Served.life = old.life /\ Served.objects = old.objects
      /\ Coming(Served, p) = Tail(Coming(old, p))
      /\ Free(old) => /\ Object = "object" /\ id <= p.last
                      /\ \A r \in ToSet(Tail(Coming(old, p))) : r.op = "destroy" => r.obj # id
  BY <1>1, ServedIs, RequestIs
<1>8. f.at = "resource_destroy" /\ f.c = c /\ f.id = id
  BY DEF FrameOf
<1>9. Object = old.objects[id] /\ peer'[c] = p
  BY <1>1 DEF Object
<1>10. Free(Served) => Free(old)
  BY <1>2, <1>7 DEF Free
<1> HIDE DEF f, c, id, old, p
<1>11. Fair(f, client', peer')
  BY <1>3, <1>7, <1>8, <1>9, <1>10 DEF Fair, Placed, Doomed
<1>12. QED
  BY <1>1, <1>6, <1>11, AnswerCall DEF c

-----------------------------------------------------------------------------
(* What peers send.                                                        *)

Sent(cl)    == cl.pending \o cl.to_server
Planning(p) == p.program # << >> /\ Head(p.program) = "destroy"
Plan(p)     == Ask(NULL, "destroy", p.last, p.last, 0)

LEMMA SentAndPlanned ==
  ASSUME NEW cl, NEW space, IsClient(cl, space), NEW p, IsPeer(p)
  PROVE  /\ IsSequence(Sent(cl)) /\ ToSet(Sent(cl)) = Asked(cl)
         /\ \A r \in ToSet(Sent(cl)) : IsRequest(r)
         /\ Planning(p) => Coming(cl, p) = Append(Sent(cl), Plan(p))
         /\ ~Planning(p) => Coming(cl, p) = Sent(cl)
<1>1. IsSequence(cl.pending) /\ IsSequence(cl.to_server) /\ \A r \in Asked(cl) : IsRequest(r)
  BY DEF IsClient, Asked
<1>2. IsSequence(Sent(cl)) /\ ToSet(Sent(cl)) = Asked(cl)
  BY <1>1, SequenceConcat DEF Asked, Sent
<1>3. \A e : Append(<< >>, e) = << e >>
  OBVIOUS
<1>4. \A e : Sent(cl) \o << e >> = Append(Sent(cl), e)
  BY <1>2, <1>3, JoinAppend, JoinEmpty, EmptySequence
<1>5. Coming(cl, p) = Sent(cl) \o Planned(p)
  BY DEF Coming, Sent
<1>6. /\ Planning(p) => Planned(p) = << Plan(p) >>
      /\ ~Planning(p) => Planned(p) = << >>
  BY DEF Planned, Planning, Plan
<1>7. QED
  BY <1>1, <1>2, <1>4, <1>5, <1>6, JoinEmpty

(* What a peer that follows its program sends.                             *)
Follows(r, p, objects, free) ==
  /\ p.program # << >> /\ Head(p.program) = r.op
  /\ r.op = "destroy" => r = Plan(p)
  /\ r.op # "destroy" => r.new = p.last + 1
  /\ r.op = "bind" /\ free => objects[r.obj] = "registry"
  /\ r.op \notin {"bind", "destroy"} => r.obj = Display

LEMMA OrderlyTail ==
  ASSUME NEW s, Orderly(s), s # << >>
  PROVE  /\ Orderly(Tail(s)) /\ (Head(s) = "wrong" => ~Played.honest)
         /\ Tail(s) # << >> /\ Head(Tail(s)) = "destroy" => Head(s) = "bind"
<1> DEFINE t == Tail(s)
<1>1. IsSequence(s)
  BY DEF Orderly
<1>2. /\ IsSequence(t) /\ DOMAIN t = 1..Len(s) - 1 /\ Head(s) = s[1] /\ Len(s) \in Nat \ {0}
      /\ \A i \in 1..Len(s) - 1 : t[i] = s[i + 1]
      /\ DOMAIN s = 1..Len(s)
  BY <1>1, SequenceTail, SequenceIs
<1>3. t # << >> => Head(t) = t[1] /\ 1 \in DOMAIN t
  BY <1>2, SequenceTail, SequenceIs
<1> HIDE DEF t
<1>4. \A i \in DOMAIN t : i + 1 \in DOMAIN s /\ i + 1 > 1 /\ t[i] = s[i + 1] /\ (i + 1) - 1 = i
  BY <1>2
<1>5. ASSUME NEW i \in DOMAIN t, t[i] = "destroy", i > 1 PROVE t[i - 1] = "bind"
  <2>1. i - 1 \in DOMAIN t /\ (i - 1) + 1 = i
    BY <1>2, <1>5
  <2>2. s[i + 1] = "destroy" /\ t[i - 1] = s[i]
    BY <1>4, <1>5, <2>1
  <2>3. s[(i + 1) - 1] = "bind"
    BY <1>4, <2>2 DEF Orderly
  <2>4. QED
    BY <1>4, <2>2, <2>3
<1>6. \A i \in DOMAIN t : t[i] = "wrong" => ~Played.honest
  BY <1>4 DEF Orderly
<1>7. Orderly(t)
  BY <1>2, <1>5, <1>6 DEF Orderly
<1>8. Head(s) = "wrong" => ~Played.honest
  <2>1. 1 \in DOMAIN s
    BY <1>2
  <2>2. s[1] = "wrong" => ~Played.honest
    BY <2>1 DEF Orderly
  <2>3. QED
    BY <1>2, <2>2
<1>9. ASSUME t # << >>, Head(t) = "destroy" PROVE Head(s) = "bind"
  <2>1. t[1] = s[2] /\ 2 \in DOMAIN s
    BY <1>3, <1>4, <1>9
  <2>2. s[2] = "destroy"
    BY <1>3, <1>9, <2>1
  <2>3. 2 > 1 /\ 2 - 1 = 1
    OBVIOUS
  <2>4. s[2] = "destroy" /\ 2 > 1 => s[2 - 1] = "bind"
    BY <2>1 DEF Orderly
  <2>5. QED
    BY <1>2, <2>2, <2>3, <2>4
<1>10. QED
  BY <1>7, <1>8, <1>9 DEF t

(* What is to come after a request has been sent.                          *)
LEMMA ComesAfter ==
  ASSUME NEW cl, NEW space, IsClient(cl, space), NEW p, IsPeer(p), Orderly(p.program),
         NEW r, IsRequest(r), NEW o, NEW free, Follows(r, p, o, free),
         NEW cl2, IsClient(cl2, space), cl2.pending = cl.pending,
         cl2.to_server = Append(cl.to_server, r),
         NEW p2, IsPeer(p2), p2.last = r.new, p2.program = Tail(p.program)
  PROVE  LET s == Append(Sent(cl), r)
         IN  /\ r.op = "destroy" => Coming(cl2, p2) = s /\ Coming(cl, p) = s
             /\ r.op # "destroy" => /\ Coming(cl, p) = Sent(cl)
                                    /\ \/ Coming(cl2, p2) = s
                                       \/ r.op = "bind" /\ Coming(cl2, p2) = Append(s, Plan(p2))
<1> DEFINE s == Append(Sent(cl), r)
<1>1. /\ IsSequence(cl.pending) /\ IsSequence(cl.to_server)
  BY DEF IsClient
<1>2. Sent(cl2) = s
  <2>1. cl.pending \o Append(cl.to_server, r) = Append(cl.pending \o cl.to_server, r)
    <3> DEFINE a == cl.pending
               b == cl.to_server
    <3>1. IsSequence(a) /\ IsSequence(b)
      BY <1>1
    <3> HIDE DEF a, b
    <3>2. a \o Append(b, r) = Append(a \o b, r)
      BY <3>1, JoinAppend
    <3>3. QED
      BY <3>2, Zenon DEF a, b
  <2>2. Sent(cl2) = cl2.pending \o cl2.to_server
    BY DEF Sent
  <2>3. Sent(cl2) = cl.pending \o Append(cl.to_server, r)
    BY <2>2, Zenon
  <2>4. s = Append(cl.pending \o cl.to_server, r)
    BY DEF Sent
  <2> HIDE DEF s
  <2>5. QED
    BY <2>1, <2>3, <2>4, Zenon
<1>3. /\ Planning(p) => Coming(cl, p) = Append(Sent(cl), Plan(p))
      /\ ~Planning(p) => Coming(cl, p) = Sent(cl)
      /\ Planning(p2) => Coming(cl2, p2) = Append(s, Plan(p2))
      /\ ~Planning(p2) => Coming(cl2, p2) = s
  BY <1>2, SentAndPlanned
<1>4. /\ Planning(p) <=> r.op = "destroy"
      /\ r.op = "destroy" => r = Plan(p)
  BY DEF Follows, Planning
<1>5. Planning(p2) => r.op = "bind"
  BY OrderlyTail DEF Follows, Planning
<1> HIDE DEF s
<1>6. "bind" # "destroy"
  OBVIOUS
<1>7. r.op = "destroy" => Coming(cl2, p2) = s /\ Coming(cl, p) = s
  BY <1>3, <1>4, <1>5, <1>6 DEF s
<1>8. r.op # "destroy" => /\ Coming(cl, p) = Sent(cl)
                          /\ Coming(cl2, p2) = s
                               \/ (r.op = "bind" /\ Coming(cl2, p2) = Append(s, Plan(p2)))
  BY <1>3, <1>4, <1>5
<1>9. QED
  BY <1>7, <1>8 DEF s

LEMMA SentSensible ==
  ASSUME NEW s, IsSequence(s), NEW o, NEW last \in Nat, Sensible(s, o, last),
         \A q \in ToSet(s) : q.obj \in Nat,
         NEW r, r.new = last + 1, r.op # "destroy", r.obj \in Nat,
         r.op = "bind" => o[r.obj] = "registry", r.op # "bind" => r.obj = Display
  PROVE  /\ Sensible(Append(s, r), o, last + 1)
         /\ r.op = "bind" => \A d : d = Ask(NULL, "destroy", last + 1, last + 1, 0) =>
              Sensible(Append(Append(s, r), d), o, last + 1)
<1> DEFINE t == Append(s, r)
<1>1. last + 1 \in Nat /\ last <= last + 1 /\ ~(last + 1 <= last)
  OBVIOUS
<1>2. Sensible(t, o, last + 1)
  BY <1>1, SensibleAppend
<1>3. IsSequence(t) /\ ToSet(t) = ToSet(s) \cup {r} /\ \A q \in ToSet(t) : q.obj \in Nat
  BY SequenceAppend
<1>4. \A q \in ToSet(s) : q.op = "destroy" => q.obj <= last
  BY DEF ToSet, Sensible
<1>5. \A q \in ToSet(t) : q.op = "destroy" => q.obj # last + 1
  BY <1>1, <1>3, <1>4
<1> HIDE DEF t
<1>6. ASSUME r.op = "bind", NEW d, d = Ask(NULL, "destroy", last + 1, last + 1, 0)
      PROVE  Sensible(Append(t, d), o, last + 1)
  <2>1. d.op = "destroy" /\ d.obj = last + 1
    BY <1>6 DEF Ask
  <2>2. \E q \in ToSet(t) : q.op = "bind" /\ q.new = d.obj
    BY <1>3, <1>6, <2>1
  <2>3. last + 1 <= last + 1 /\ d.obj <= last + 1
    BY <1>1, <2>1
  <2>4. QED
    BY <1>1, <1>2, <1>3, <1>5, <2>1, <2>2, <2>3, SensibleAppend
<1>7. QED
  BY <1>2, <1>6 DEF t

(* Sending a request of its program, a client remains what it was.         *)
LEMMA SentHonest ==
  ASSUME NEW c, NEW cl, NEW space, IsClient(cl, space), NEW p, IsPeer(p), NEW d,
         Honest(c, cl, p, d), NEW r, IsRequest(r), Sane(c, r, d),
         Follows(r, p, cl.objects, Free(cl)),
         NEW cl2, IsClient(cl2, space), cl2.life = cl.life, cl2.error = cl.error,
         cl2.display_resource = cl.display_resource, cl2.objects = cl.objects,
         cl2.pending = cl.pending, cl2.out = cl.out, cl2.to_client = cl.to_client,
         cl2.to_server = Append(cl.to_server, r),
         NEW p2, IsPeer(p2), p2.got = p.got, p2.last = r.new, p2.program = Tail(p.program)
  PROVE  Honest(c, cl2, p2, d) /\ Stays(cl, p, cl2, p2)
<1> DEFINE s == Append(Sent(cl), r)
           last == p.last
<1>1. /\ Orderly(p.program) /\ p.program # << >> /\ Head(p.program) = r.op
      /\ last \in Nat /\ last \in Ids /\ p2.last \in Ids /\ (r.op = "destroy" => r = Plan(p))
      /\ r.op # "destroy" => r.new = last + 1
  BY DEF Honest, Follows, IsPeer, Ids
<1>2. Orderly(p2.program)
  BY <1>1, OrderlyTail
<1>3. Free(cl2) <=> Free(cl)
  BY DEF Free
<1>4. /\ IsSequence(Sent(cl)) /\ ToSet(Sent(cl)) = Asked(cl)
      /\ \A q \in ToSet(Sent(cl)) : IsRequest(q)
      /\ IsSequence(s) /\ ToSet(s) = Asked(cl) \cup {r}
  BY SentAndPlanned, SequenceAppend
<1>5. Asked(cl2) = Asked(cl) \cup {r}
  <2>1. IsSequence(cl.to_server)
    BY DEF IsClient
  <2>2. ToSet(cl2.to_server) = ToSet(cl.to_server) \cup {r}
    BY <2>1, SequenceAppend
  <2>3. QED
    BY <2>2 DEF Asked
<1>6. \A q \in Asked(cl2) : Sane(c, q, d)
  BY <1>5 DEF Honest
<1>7. \A e \in ToSet(Speech(cl2, p2.got)) : IsTrue(c, cl2, e, d)
  <2>1. Speech(cl2, p2.got) = Speech(cl, p.got)
    BY DEF Speech
  <2>2. QED
    BY <1>3, <2>1 DEF Honest, IsTrue
<1>8. cl2.life = "none" => cl2.pending = << >> /\ cl2.objects = NewClient(<< >>, TRUE).objects
  BY DEF Honest, Blank
<1>9. /\ r.op = "destroy" => Coming(cl2, p2) = s /\ Coming(cl, p) = s
      /\ r.op # "destroy" => /\ Coming(cl, p) = Sent(cl)
                             /\ \/ Coming(cl2, p2) = s
                                \/ r.op = "bind" /\ Coming(cl2, p2) = Append(s, Plan(p2))
  BY <1>1, ComesAfter
<1>10. r.op = "destroy" => r.new = last
  BY <1>1 DEF Plan, Ask
<1>11. Plan(p2) = Ask(NULL, "destroy", p2.last, p2.last, 0)
  BY DEF Plan
<1>12. Plan(p2).op = "destroy" /\ Plan(p2).obj = p2.last
  BY DEF Plan, Ask
<1> HIDE DEF s, last
<1>13. ASSUME Free(cl)
       PROVE  /\ cl2.display_resource /\ cl2.objects[Display] = "display"
              /\ Sensible(Coming(cl2, p2), cl2.objects, p2.last)
  <2>1. /\ cl.display_resource /\ cl.objects[Display] = "display"
        /\ Sensible(Coming(cl, p), cl.objects, last)
    BY <1>13 DEF Honest, Polite, last
  <2>2. CASE r.op = "destroy"
    BY <1>9, <1>10, <2>1, <2>2
  <2>3. CASE r.op # "destroy"
    <3>1. /\ Sensible(Sent(cl), cl.objects, last) /\ p2.last = last + 1
          /\ \A q \in ToSet(Sent(cl)) : q.obj \in Nat
          /\ r.obj \in Nat /\ r.new = last + 1
      BY <1>1, <1>4, <1>9, <2>1, <2>3 DEF IsRequest, Ids
    <3>2. /\ r.op = "bind" => cl.objects[r.obj] = "registry"
          /\ r.op # "bind" => r.obj = Display
      BY <1>13, <2>3 DEF Follows
    <3>3. /\ Sensible(s, cl.objects, last + 1)
          /\ r.op = "bind" => \A q : q = Ask(NULL, "destroy", last + 1, last + 1, 0) =>
               Sensible(Append(s, q), cl.objects, last + 1)
      BY <1>1, <1>4, <2>3, <3>1, <3>2, SentSensible DEF s
    <3>4. QED
      BY <1>9, <1>11, <2>1, <2>3, <3>1, <3>3
  <2>4. QED
    BY <2>2, <2>3
<1>14. ASSUME NEW q \in ToSet(Coming(cl2, p2)), q.op = "destroy"
       PROVE  q \in ToSet(Coming(cl, p)) \/ ~(q.obj <= last)
  <2>1. CASE r.op = "destroy"
    BY <1>9, <1>14, <2>1
  <2>2. CASE r.op # "destroy"
    <3>1. ToSet(Append(s, Plan(p2))) = ToSet(s) \cup {Plan(p2)}
      BY <1>4, SequenceAppend
    <3>2. q \in Asked(cl) \/ q = r \/ q = Plan(p2)
      BY <1>4, <1>9, <1>14, <2>2, <3>1
    <3>3. ~(last + 1 <= last)
      BY <1>1
    <3>4. p2.last = last + 1
      BY <1>1, <2>2
    <3>5. QED
      BY <1>4, <1>9, <1>12, <1>14, <2>2, <3>2, <3>3, <3>4
  <2>3. QED
    BY <2>1, <2>2
<1>15. last <= p2.last
  BY <1>1, <1>10
<1>16. Polite(cl2, p2)
  BY <1>3, <1>13 DEF Polite
<1>17. Stays(cl, p, cl2, p2)
  BY <1>1, <1>3, <1>14, <1>15 DEF Stays, last
<1>18. Blank(cl2)
  BY <1>8 DEF Blank
<1>19. Honest(c, cl2, p2, d)
  BY <1>2, <1>6, <1>7, <1>16, <1>18 DEF Honest
<1>20. QED
  BY <1>17, <1>19

(* One client and its peer change.                                         *)
LEMMA PeerHonest ==
  ASSUME ListenersInv, MemoryInv, HonestInv, UNCHANGED <<scenario, display, stack>>,
         NEW c \in Clients, NEW cl, NEW p, client' = [client EXCEPT ![c] = cl],
         peer' = [peer EXCEPT ![c] = p], cl.life = client[c].life,
         Honest(c, cl, p, display), Stays(client[c], peer[c], cl, p)
  PROVE  HonestInv'
<1>1. /\ client'[c] = cl /\ \A d \in Clients : d # c => client'[d] = client[d]
      /\ peer'[c] = p /\ \A d \in Clients : d # c => peer'[d] = peer[d]
  BY DEF MemoryInv, Types
<1>2. Aged(display, display')
  BY AgedSame DEF SameGlobals
<1>3. \A d \in Clients : d # c => Honest(d, client'[d], peer'[d], display') /\ Kin(d)
  BY <1>1, <1>2, Untouched
<1>4. Honest(c, client'[c], peer'[c], display') /\ Kin(c)
  BY <1>1 DEF Kin
<1>5. HonestAfter /\ \A d \in Clients : Kin(d)
  BY <1>3, <1>4 DEF HonestAfter
<1>6. QED
  BY <1>5, FairSame, HonestPrimed

LEMMA SendHonest ==
  ASSUME ListenersInv, MemoryInv, HonestInv, UNCHANGED <<scenario, display, stack>>,
         NEW c \in Clients, NEW r, IsRequest(r), Sane(c, r, display),
         Follows(r, peer[c], client[c].objects, Free(client[c])), Send(c, r)
  PROVE  HonestInv'
<1> DEFINE p  == [peer[c] EXCEPT !.program = Tail(@), !.last = r.new]
           cl == [client[c] EXCEPT !.to_server = Append(@, r)]
<1>1. /\ IsClient(client[c], Played.socket_space) /\ IsPeer(peer[c])
      /\ Honest(c, client[c], peer[c], display)
  BY ClientAndPeer
<1>2. peer' = [peer EXCEPT ![c] = p] /\ client' = [client EXCEPT ![c] = cl]
  BY DEF Send, MemoryInv, Types
<1>3. /\ DOMAIN p = DOMAIN peer[c] /\ p.last = r.new /\ p.got = peer[c].got
      /\ p.program = Tail(peer[c].program)
  BY <1>1 DEF IsPeer
<1> HIDE DEF p
<1>4. IsPeer(p)
  BY <1>1, <1>3 DEF IsPeer, IsRequest
<1>5. /\ DOMAIN cl = DOMAIN client[c] /\ cl.life = client[c].life /\ cl.objects = client[c].objects
      /\ cl.pending = client[c].pending
      /\ cl.to_server = Append(client[c].to_server, r)
      /\ cl.out = client[c].out /\ cl.to_client = client[c].to_client
  BY <1>1 DEF IsClient, ClientFields
<1>6. cl.error = client[c].error
  BY <1>1 DEF IsClient, ClientFields
<1>7. cl.display_resource = client[c].display_resource
  BY <1>1 DEF IsClient, ClientFields
<1> HIDE DEF cl
<1>8. /\ IsSequence(cl.to_server)
      /\ ToSet(cl.to_server) = ToSet(client[c].to_server) \cup {r}
  BY <1>1, <1>5, SequenceAppend DEF IsClient
<1>9. IsClient(cl, Played.socket_space)
  BY <1>1, <1>5, <1>8 DEF IsClient
<1>10. Honest(c, cl, p, display) /\ Stays(client[c], peer[c], cl, p)
  BY <1>1, <1>3, <1>4, <1>5, <1>6, <1>7, <1>9, SentHonest
<1>11. QED
  BY <1>2, <1>5, <1>10, PeerHonest

(* A peer hangs up in the middle of its program.                           *)
LEMMA HangupHonest ==
  ASSUME ListenersInv, MemoryInv, HonestInv, UNCHANGED <<scenario, display, stack>>,
         NEW c \in Clients, client' = [client EXCEPT ![c].up = FALSE],
         peer' = [peer EXCEPT ![c].program = << >>]
  PROVE  HonestInv'
<1> DEFINE old == client[c]
           q   == peer[c]
           cl  == [old EXCEPT !.up = FALSE]
           p   == [q EXCEPT !.program = << >>]
<1>1. IsClient(old, Played.socket_space) /\ IsPeer(q) /\ Honest(c, old, q, display)
  BY ClientAndPeer
<1>2. client' = [client EXCEPT ![c] = cl] /\ peer' = [peer EXCEPT ![c] = p]
  BY DEF MemoryInv, Types
<1>3. /\ cl.life = old.life /\ cl.objects = old.objects
      /\ cl.out = old.out /\ cl.to_client = old.to_client
      /\ cl.pending = old.pending /\ cl.to_server = old.to_server
  BY <1>1 DEF IsClient, ClientFields
<1>4. cl.error = old.error /\ cl.display_resource = old.display_resource
  BY <1>1 DEF IsClient, ClientFields
<1>5. p.got = q.got /\ p.last = q.last /\ p.program = << >>
  BY <1>1 DEF IsPeer
<1> HIDE DEF cl, p
<1>6. (Free(cl) <=> Free(old)) /\ Asked(cl) = Asked(old)
      /\ Speech(cl, p.got) = Speech(old, q.got)
  BY <1>3, <1>4, <1>5 DEF Free, Asked, Speech
<1>7. /\ IsSequence(Sent(old)) /\ Coming(cl, p) = Sent(old)
      /\ Coming(old, q) = Sent(old) \/ Coming(old, q) = Append(Sent(old), Plan(q))
  <2>1. Coming(cl, p) = Sent(old) \o << >>
    BY <1>3, <1>5 DEF Coming, Sent, Planned
  <2> HIDE DEF old, q
  <2>2. QED
    BY <1>1, <2>1, SentAndPlanned, JoinEmpty
<1> HIDE DEF old, q
<1>8. \A i \in DOMAIN Sent(old) : i \in DOMAIN Coming(old, q) /\ Coming(old, q)[i] = Sent(old)[i]
  <2> DEFINE s == Sent(old)
             t == Append(s, Plan(q))
  <2>1. IsSequence(s) /\ (Coming(old, q) = s \/ Coming(old, q) = t)
    BY <1>7
  <2> HIDE DEF s
  <2>2. Len(s) \in Nat /\ DOMAIN s = 1..Len(s) /\ DOMAIN t = 1..Len(s) + 1
        /\ \A i \in 1..Len(s) : t[i] = s[i]
    BY <2>1, SequenceAppend, SequenceIs
  <2> HIDE DEF t
  <2>3. \A i \in DOMAIN s : i \in DOMAIN t /\ t[i] = s[i]
    BY <2>2
  <2>4. QED
    BY <2>1, <2>3 DEF s
<1>9. \A r \in ToSet(Coming(cl, p)) : r \in ToSet(Coming(old, q))
  <2>1. ToSet(Append(Sent(old), Plan(q))) = ToSet(Sent(old)) \cup {Plan(q)}
    BY <1>7, SequenceAppend
  <2>2. QED
    BY <1>7, <2>1
<1>10. \A s, t, o, last : /\ IsSequence(s) /\ Sensible(t, o, last)
                          /\ \A i \in DOMAIN s : i \in DOMAIN t /\ t[i] = s[i]
                          => Sensible(s, o, last)
  <2> SUFFICES ASSUME NEW s, NEW t, NEW o, NEW last, IsSequence(s), Sensible(t, o, last),
                      \A i \in DOMAIN s : i \in DOMAIN t /\ t[i] = s[i]
               PROVE  Sensible(s, o, last)
    OBVIOUS
  <2>1. \A i \in DOMAIN s : \A j \in 1..i - 1 : j \in DOMAIN s
    BY SequenceIs
  <2>2. QED
    BY <2>1 DEF Sensible
<1>11. Polite(cl, p)
  <2>1. Polite(old, q)
    BY <1>1 DEF Honest
  <2>2. Sensible(Coming(old, q), old.objects, q.last) =>
          Sensible(Sent(old), old.objects, q.last)
    BY <1>7, <1>8, <1>10
  <2>3. QED
    BY <1>3, <1>4, <1>5, <1>6, <1>7, <2>1, <2>2 DEF Polite
<1>12. Orderly(p.program)
  BY <1>5, EmptySequence DEF Orderly
<1>13. \A e \in ToSet(Speech(cl, p.got)) : IsTrue(c, cl, e, display)
  BY <1>1, <1>3, <1>6 DEF Honest, IsTrue
<1>14. Blank(cl)
  BY <1>1, <1>3 DEF Honest, Blank
<1>15. Honest(c, cl, p, display)
  BY <1>1, <1>6, <1>11, <1>12, <1>13, <1>14 DEF Honest
<1>16. Stays(old, q, cl, p)
  BY <1>1, <1>3, <1>5, <1>6, <1>9 DEF Stays, IsPeer, Ids
<1>17. QED
  BY <1>2, <1>3, <1>15, <1>16, PeerHonest DEF old, q

(* What a client has seen of its first registry, it may bind.              *)
LEMMA SeenKnown ==
  ASSUME MemoryInv, HonestInv, NEW c \in Clients, NEW name \in Seen(c, 2)
  PROVE  /\ Knows(c, name, display)
         /\ Free(client[c]) => client[c].objects[2] = "registry"
<1> DEFINE got == peer[c].got
<1>1. /\ IsClient(client[c], Played.socket_space) /\ IsSequence(got)
      /\ Honest(c, client[c], peer[c], display)
  BY ClientAndPeer
<1>2. PICK i \in DOMAIN got : got[i].obj = 2 /\ got[i].op = "global" /\ got[i].arg = name
  BY DEF Seen, Told
<1>3. got[i] \in ToSet(got)
  BY <1>2 DEF ToSet
<1>4. got[i] \in ToSet(Speech(client[c], got))
  <2> HIDE DEF got
  <2>1. /\ IsSequence(client[c].to_client) /\ IsSequence(client[c].out)
    BY <1>1 DEF IsClient
  <2>2. /\ IsSequence(got \o client[c].to_client)
        /\ ToSet(got \o client[c].to_client) = ToSet(got) \cup ToSet(client[c].to_client)
    BY <1>1, <2>1, SequenceConcat
  <2>3. got[i] \in ToSet((got \o client[c].to_client) \o client[c].out)
    BY <1>3, <2>1, <2>2, SequenceConcat
  <2>4. QED
    BY <2>3 DEF Speech
<1>5. IsTrue(c, client[c], got[i], display)
  BY <1>1, <1>4 DEF Honest
<1> HIDE DEF got
<1>6. QED
  BY <1>2, <1>5 DEF IsTrue

LEMMA PeerSendsHonest ==
  ASSUME ListenersInv, MemoryInv, HonestInv, NEW c \in Clients, PeerSends(c)
  PROVE  HonestInv'
<1> DEFINE last == peer[c].last
           op   == Head(peer[c].program)
<1>1. UNCHANGED <<scenario, display, stack>> /\ peer[c].program # << >>
  BY DEF PeerSends
<1>2. /\ last \in Ids /\ MaxId \in Nat /\ Honest(c, client[c], peer[c], display)
  BY BoundsAssumption, ClientAndPeer DEF IsPeer
<1>3. op = "wrong" => ~Played.honest
  BY <1>1, <1>2, OrderlyTail DEF Honest
<1>4. ASSUME NEW obj \in {Display, 2}, NEW name, last < MaxId, op # "destroy",
             op = "bind" => /\ Knows(c, name, display)
                            /\ Free(client[c]) => client[c].objects[obj] = "registry",
             op # "bind" => obj = Display,
             Send(c, Ask(c, op, obj, last + 1, name))
      PROVE  HonestInv'
  <2> DEFINE r == Ask(c, op, obj, last + 1, name)
  <2> HIDE DEF op, last
  <2>1. r.new = last + 1 /\ r.obj = obj /\ r.op = op /\ r.name = name
    BY DEF Ask
  <2>2. last + 1 \in Ids /\ obj \in Ids
    BY <1>2, <1>4 DEF Ids, Display
  <2>3. IsRequest(r) /\ Send(c, r)
    BY <1>4, <2>1, <2>2 DEF IsRequest
  <2> HIDE DEF r
  <2>4. Sane(c, r, display)
    BY <1>3, <1>4, <2>1 DEF Sane
  <2>5. Follows(r, peer[c], client[c].objects, Free(client[c]))
    BY <1>1, <1>4, <2>1 DEF Follows, op, last
  <2>6. QED
    BY <1>1, <2>3, <2>4, <2>5, SendHonest
<1>5. ASSUME op = "destroy", Send(c, Ask(c, op, last, last, 0))
      PROVE  HonestInv'
  <2> DEFINE r == Ask(c, op, last, last, 0)
  <2>1. r = Plan(peer[c])
    BY <1>5 DEF Plan, Ask
  <2>2. r.new = last /\ r.obj = last /\ r.op = "destroy" /\ Send(c, r)
    BY <1>5 DEF Ask
  <2> HIDE DEF r
  <2>3. IsRequest(r) /\ Sane(c, r, display)
    BY <1>2, <2>2 DEF IsRequest, Sane
  <2>4. Follows(r, peer[c], client[c].objects, Free(client[c]))
    BY <1>1, <1>5, <2>1, <2>2 DEF Follows
  <2>5. QED
    BY <1>1, <2>2, <2>3, <2>4, SendHonest
<1>6. ASSUME op \in {"get_registry", "sync", "wrong"}, last < MaxId,
             Send(c, Ask(c, op, Display, last + 1, 0))
      PROVE  HonestInv'
  BY <1>4, <1>6
<1>7. ASSUME op = "bind", last < MaxId, NEW name \in Seen(c, 2),
             Send(c, Ask(c, op, 2, last + 1, name))
      PROVE  HonestInv'
  <2>1. /\ Knows(c, name, display)
        /\ Free(client[c]) => client[c].objects[2] = "registry"
    BY SeenKnown
  <2>2. QED
    BY <1>4, <1>7, <2>1
<1>8. ASSUME client' = [client EXCEPT ![c].up = FALSE], peer' = [peer EXCEPT ![c].program = << >>]
      PROVE  HonestInv'
  BY <1>1, <1>8, HangupHonest
<1>9. QED
  BY <1>5, <1>6, <1>7, <1>8 DEF PeerSends

LEMMA PeerReadsHonest ==
  ASSUME ListenersInv, MemoryInv, HonestInv, NEW c \in Clients, PeerReads(c)
  PROVE  HonestInv'
<1> DEFINE old  == client[c]
           q    == peer[c]
           sent == old.to_client
           p    == [q EXCEPT !.got = @ \o sent]
           cl   == [old EXCEPT !.to_client = << >>]
<1>1. /\ UNCHANGED <<scenario, display, stack>> /\ client' = [client EXCEPT ![c] = cl]
      /\ peer' = [peer EXCEPT ![c] = p]
  BY DEF PeerReads, MemoryInv, Types
<1>2. IsClient(old, Played.socket_space) /\ IsPeer(q) /\ Honest(c, old, q, display)
      /\ IsSequence(q.got)
  BY ClientAndPeer
<1>3. /\ cl.life = old.life /\ cl.objects = old.objects
      /\ cl.out = old.out /\ cl.to_client = << >>
      /\ cl.pending = old.pending /\ cl.to_server = old.to_server
  BY <1>2 DEF IsClient, ClientFields
<1>4. cl.error = old.error /\ cl.display_resource = old.display_resource
  BY <1>2 DEF IsClient, ClientFields
<1>5. p.got = q.got \o sent /\ p.last = q.last /\ p.program = q.program
  BY <1>2 DEF IsPeer
<1>6. IsSequence(sent) /\ IsSequence(old.out)
  BY <1>2 DEF IsClient
<1> HIDE DEF cl, p
<1>7. Speech(cl, p.got) = Speech(old, q.got)
  <2> HIDE DEF sent, old, q
  <2>1. IsSequence(q.got \o sent)
    BY <1>2, <1>6, SequenceConcat
  <2>2. (q.got \o sent) \o << >> = q.got \o sent
    BY <2>1, JoinEmpty
  <2>3. QED
    BY <1>3, <1>5, <2>2 DEF Speech, sent
<1> HIDE DEF sent, old, q
<1>8. (Free(cl) <=> Free(old)) /\ Asked(cl) = Asked(old) /\ Coming(cl, p) = Coming(old, q)
  BY <1>3, <1>4, <1>5 DEF Free, Asked, Coming, Planned
<1>9. \A e \in ToSet(Speech(cl, p.got)) : IsTrue(c, cl, e, display)
  BY <1>2, <1>3, <1>7, <1>8 DEF Honest, IsTrue
<1>10. Polite(cl, p) /\ Blank(cl)
  BY <1>2, <1>3, <1>4, <1>5, <1>8 DEF Honest, Polite, Blank
<1>11. Honest(c, cl, p, display)
  BY <1>2, <1>5, <1>8, <1>9, <1>10 DEF Honest
<1>12. Stays(old, q, cl, p)
  BY <1>2, <1>3, <1>5, <1>8 DEF Stays, IsPeer, Ids
<1>13. QED
  BY <1>1, <1>3, <1>11, <1>12, PeerHonest DEF old, q

-----------------------------------------------------------------------------

LEMMA HonestInit == Init => HonestInv
<1> SUFFICES ASSUME Init PROVE HonestInv
  OBVIOUS
<1> DEFINE f  == Frame("main", NULL)
           cl == [NewClient(<< >>, TRUE) EXCEPT !.life = "none"]
<1>1. /\ stack = <<f>> /\ scenario \in DOMAIN Scenarios
      /\ \A c \in Clients : /\ client[c] = cl /\ peer[c].got = << >> /\ peer[c].last = Display
                            /\ peer[c].program = IF c \in DOMAIN Played.programs
                                                 THEN Played.programs[c] ELSE << >>
  BY DEF Init
<1>2. /\ cl.out = << >> /\ cl.to_client = << >> /\ f.at = "main" /\ cl.life = "none"
      /\ cl.pending = << >> /\ cl.to_server = << >>
      /\ cl.objects = NewClient(<< >>, TRUE).objects /\ cl.objects[Display] = "display"
  <2>1. Display \in Ids
    BY BoundsAssumption DEF Ids, Display
  <2>2. /\ cl.objects = NewClient(<< >>, TRUE).objects
        /\ cl.objects = [id \in Ids |-> IF id = Display THEN "display" ELSE "none"]
    BY DEF NewClient
  <2>3. cl.objects[Display] = "display"
    BY <2>1, <2>2
  <2>4. QED
    BY <2>2, <2>3 DEF NewClient, Frame, FrameOf
<1>3. cl.display_resource
  BY DEF NewClient
<1> HIDE DEF f, cl
<1>4. Fair(f, client, peer)
  BY <1>2, NotWatched, Unwatched DEF Base
<1>5. \A i \in DOMAIN stack : Fair(stack[i], client, peer)
  <2>1. \A i \in DOMAIN stack : stack[i] = f
    BY <1>1
  <2>2. QED
    BY <1>4, <2>1
<1>6. Speech(cl, << >>) = << >>
  BY <1>2, EmptySequence, JoinEmpty DEF Speech
<1>7. ASSUME NEW c \in Clients PROVE Honest(c, client[c], peer[c], display)
  <2> DEFINE s == peer[c].program
  <2>1. s \in Seq(STRING) /\ \A i \in DOMAIN s : /\ s[i] = "wrong" => ~Played.honest
                                                 /\ s[i] = "destroy" => i > 1 /\ s[i - 1] = "bind"
    <3>1. CASE c \in DOMAIN Played.programs
      <4>1. s = Played.programs[c]
        BY <1>1, <3>1
      <4> HIDE DEF s
      <4>2. QED
        BY <1>1, <3>1, <4>1, ProgramsAssumption DEF Played
    <3>2. CASE c \notin DOMAIN Played.programs
      <4>1. s = << >>
        BY <1>1, <3>2
      <4> HIDE DEF s
      <4>2. QED
        BY <4>1, EmptySequence, EmptySeq
    <3>3. QED
      BY <3>1, <3>2
  <2>2. IsSequence(s)
    BY <2>1 DEF IsSequence
  <2>3. Orderly(s)
    <3> HIDE DEF s
    <3>1. QED
      BY <2>1, <2>2 DEF Orderly
  <2>4. s = << >> \/ Head(s) # "destroy"
    <3> SUFFICES ASSUME s # << >>, Head(s) = "destroy" PROVE FALSE
      OBVIOUS
    <3> HIDE DEF s
    <3>1. Head(s) = s[1] /\ DOMAIN s = 1..Len(s) /\ Len(s) \in Nat \ {0}
      BY <2>2, SequenceTail, SequenceIs
    <3>2. 1 \in DOMAIN s
      BY <3>1
    <3>3. s[1] = "destroy" => 1 > 1
      BY <2>1, <3>2
    <3>4. QED
      BY <3>1, <3>3
  <2>5. Planned(peer[c]) = << >>
    BY <2>4 DEF Planned
  <2> HIDE DEF s
  <2>6. Coming(cl, peer[c]) = << >>
    BY <1>2, <2>5, EmptySequence, JoinEmpty DEF Coming
  <2>7. Sensible(<< >>, cl.objects, peer[c].last)
    BY EmptySequence DEF Sensible
  <2>8. Polite(cl, peer[c])
    BY <1>2, <1>3, <2>6, <2>7 DEF Polite
  <2>9. Asked(cl) = {} /\ ToSet(Speech(cl, peer[c].got)) = {}
    BY <1>1, <1>2, <1>6, EmptySequence DEF Asked
  <2>10. Blank(cl)
    BY <1>2 DEF Blank
  <2>11. client[c] = cl
    BY <1>1
  <2>12. Honest(c, cl, peer[c], display)
    BY <2>3, <2>8, <2>9, <2>10 DEF Honest, s
  <2>13. QED
    BY <2>11, <2>12
<1>8. QED
  BY <1>5, <1>7 DEF HonestInv

LEMMA HonestStep ==
  ASSUME ListenersInv, MemoryInv, WordInv, AgreeInv, HonestInv, [Next]_vars
  PROVE  HonestInv'
<1>1. CASE UNCHANGED vars
  <2>1. UNCHANGED <<scenario, display, client, peer, stack>>
    BY <1>1 DEF vars
  <2>2. SameWorld
    BY <2>1, WorldIf
  <2>3. QED
    BY <2>1, <2>2, StillSame
<1>2. CASE Next
  <2>1. CASE \/ wl_display_run \/ LoopTest \/ FlushClient \/ FlushNext \/ Poll \/ DispatchSource
             \/ DispatchEnds
    BY <2>1, LoopHonest, FlushHonest, DispatchSourceHonest
  <2>2. CASE \/ wl_client_create \/ wl_priv_signal_emit \/ wl_client_connection_data
             \/ RequestsEnd
    BY <2>2, CreateHonest, PlainHonest, ReadHonest
  <2>3. CASE \/ RejectRequest \/ display_get_registry \/ display_sync \/ registry_bind
             \/ HandleDestroy
    BY <2>3, RejectHonest, GetRegistryHonest, SyncHonest, BindHonest, HandleDestroyHonest
  <2>4. CASE Announce \/ AnnouncementEnds \/ TellGlobal
    BY <2>4, AnnounceHonest, AnnouncementEndsHonest, TellHonest
  <2>5. CASE \/ wl_resource_destroy \/ DeleteId \/ destroy_resource \/ FreeResource
             \/ wl_client_destroy \/ FlushLast \/ EachResource \/ FreeClient
             \/ wl_display_destroy_clients \/ DestroyDetached
    BY <2>5, PlainHonest, ResourceHonest, DeleteIdHonest, FreeResourceHonest, ClientDestroyHonest,
       FlushLastHonest, EachResourceHonest, FreeClientHonest
  <2>6. CASE CallGlobal \/ CallPost \/ CallDestroy \/ CallListen \/ HandlerReturns
    BY <2>6, CallGlobalHonest, CallPostHonest, CallDestroyHonest, CallListenHonest, PlainHonest
  <2>7. CASE \/ Terminate \/ TerminateWakes
             \/ \E c \in Clients : PeerSends(c) \/ PeerReads(c)
    BY <2>7, TerminateHonest, PeerSendsHonest, PeerReadsHonest
  <2>8. QED
    BY <1>2, <2>1, <2>2, <2>3, <2>4, <2>5, <2>6, <2>7 DEF Next, ServerStep
<1>3. QED
  BY <1>1, <1>2

LEMMA HonestInvariance ==
  Spec => [](ListenersInv /\ MemoryInv /\ WordInv /\ AgreeInv /\ HonestInv)
<1>1. Init => ListenersInv /\ MemoryInv /\ WordInv /\ AgreeInv /\ HonestInv
  BY ListenersInit, MemoryInit, WordInit, AgreeInit, HonestInit
<1>2. ListenersInv /\ MemoryInv /\ WordInv /\ AgreeInv /\ HonestInv /\ [Next]_vars
        => (ListenersInv /\ MemoryInv /\ WordInv /\ AgreeInv /\ HonestInv)'
  BY ListenersStep, MemoryStep, WordStep, AgreeStep, HonestStep
<1>3. QED
  BY <1>1, <1>2, PTL DEF Spec

LEMMA HonestFollows == HonestInv => HonestClientsSurvive
<1> SUFFICES ASSUME HonestInv, NEW c \in Clients, NEW i \in Errors(c)
             PROVE  LET why == Said(c)[i].arg
                    IN  \/ why[1] = "global" /\ why[2] \notin Names(display.globals)
                        \/ why[1] = "object" /\ "drop" \in Played.calls
                        \/ why[1] = "own"
                        \/ why[1] = "wrong" /\ ~Played.honest
  BY DEF HonestClientsSurvive
<1>1. Said(c)[i] \in ToSet(Speech(client[c], peer[c].got)) /\ Said(c)[i].op = "error"
  BY DEF Errors, Said, Speech, ToSet
<1>2. IsTrue(c, client[c], Said(c)[i], display)
  BY <1>1 DEF HonestInv, Honest
<1>3. Excused(Said(c)[i].arg, display)
  BY <1>1, <1>2 DEF IsTrue
<1>4. QED
  BY <1>3 DEF Excused

(* The library never sends a client an error for what it had a right to    *)
(* ask: not for binding a global that has only been removed since it was   *)
(* told of it, not for an object that handlers or the library itself have  *)
(* destroyed under way, as long as the compositor does not destroy objects *)
(* that are its clients' (registry_bind, wl_global_remove,                 *)
(* wl_client_connection_data).                                             *)
THEOREM HonestClientsAreSpared == Spec => []HonestClientsSurvive
BY HonestInvariance, HonestFollows, PTL

-----------------------------------------------------------------------------
(* Names of sockets.                                                       *)

Places == {"none", "open", "flock", "lstat", "unlink_stale", "bind", "listen",
           "serving", "unlink_socket", "unlink_lock", "close_lock"}

Sockets == [at : Places, names : Seq(Paths), sun_path : BOOLEAN, lock_addr : BOOLEAN,
            fd_lock : Files \cup {NoFile}, locked : BOOLEAN]

(* What a server's own variables say: the paths that wl_socket_destroy     *)
(* unlinks are set exactly when the lock is held.                          *)
SocketSound(s) ==
  /\ s \in Sockets
  /\ s.at # "none" => s.names # << >>
  /\ s.at \in {"none", "open", "flock"} => ~s.locked
  /\ s.at \in {"lstat", "unlink_stale", "bind", "listen", "serving"} => s.locked
  /\ s.at # "flock" => (s.sun_path <=> s.locked) /\ (s.lock_addr <=> s.locked)
  /\ s.at = "flock" => s.sun_path /\ s.lock_addr
  /\ s.locked \/ s.at = "flock" => s.fd_lock # NoFile

LocksExclusive ==
  \A p, q \in Servers :
    /\ wl_socket[p].locked /\ wl_socket[q].locked
    /\ wl_socket[p].fd_lock = wl_socket[q].fd_lock
    => p = q

(* Until it unlinks the file, who has a lock has that of its name.         *)
LocksAreOnNames ==
  \A p \in Servers :
    wl_socket[p].locked /\ ~Reached(p, "close_lock")
      => wl_socket[p].fd_lock = lock_file[Path(p)]

(* A name leads to a server that has the lock and not destroyed its socket.*)
SocketsHaveOwners ==
  \A n \in Paths, p \in Servers :
    socket_file[n] = p => /\ wl_socket[p].at \in {"listen", "serving", "unlink_socket"}
                          /\ wl_socket[p].locked /\ Path(p) = n

BoundNamesAreOwn ==
  \A p \in Servers : Reached(p, "listen") \/ Reached(p, "serving") => socket_file[Path(p)] = p

NamesInv ==
  /\ wl_socket \in [Servers -> Sockets]
  /\ lock_file \in [Paths -> Files \cup {NoFile}]
  /\ socket_file \in [Paths -> Servers \cup {Stale, NoFile}]
  /\ orphaned \in BOOLEAN
  /\ \A p \in Servers : SocketSound(wl_socket[p])
  /\ ~orphaned => /\ LocksExclusive /\ LocksAreOnNames
                  /\ SocketsHaveOwners /\ BoundNamesAreOwn /\ LockOpensTheName

-----------------------------------------------------------------------------
(* Lemmas about the record of a socket.                                    *)

LEMMA SetAt ==
  ASSUME NEW s \in Sockets, NEW place \in Places
  PROVE  LET t == [s EXCEPT !.at = place] IN
         /\ t \in Sockets /\ t.at = place /\ t.names = s.names /\ t.sun_path = s.sun_path
         /\ t.lock_addr = s.lock_addr /\ t.fd_lock = s.fd_lock /\ t.locked = s.locked
BY DEF Sockets

LEMMA SetFdLock ==
  ASSUME NEW s \in Sockets, NEW f \in Files \cup {NoFile}
  PROVE  LET t == [s EXCEPT !.fd_lock = f] IN
         /\ t \in Sockets /\ t.at = s.at /\ t.names = s.names /\ t.sun_path = s.sun_path
         /\ t.lock_addr = s.lock_addr /\ t.fd_lock = f /\ t.locked = s.locked
BY DEF Sockets

LEMMA SetSunPath ==
  ASSUME NEW s \in Sockets, NEW b \in BOOLEAN
  PROVE  LET t == [s EXCEPT !.sun_path = b] IN
         /\ t \in Sockets /\ t.at = s.at /\ t.names = s.names /\ t.sun_path = b
         /\ t.lock_addr = s.lock_addr /\ t.fd_lock = s.fd_lock /\ t.locked = s.locked
BY DEF Sockets

LEMMA SetLockAddr ==
  ASSUME NEW s \in Sockets, NEW b \in BOOLEAN
  PROVE  LET t == [s EXCEPT !.lock_addr = b] IN
         /\ t \in Sockets /\ t.at = s.at /\ t.names = s.names /\ t.sun_path = s.sun_path
         /\ t.lock_addr = b /\ t.fd_lock = s.fd_lock /\ t.locked = s.locked
BY DEF Sockets

LEMMA SetLocked ==
  ASSUME NEW s \in Sockets, NEW b \in BOOLEAN
  PROVE  LET t == [s EXCEPT !.locked = b] IN
         /\ t \in Sockets /\ t.at = s.at /\ t.names = s.names /\ t.sun_path = s.sun_path
         /\ t.lock_addr = s.lock_addr /\ t.fd_lock = s.fd_lock /\ t.locked = b
BY DEF Sockets

LEMMA SetNames ==
  ASSUME NEW s \in Sockets, NEW names \in Seq(Paths)
  PROVE  LET t == [s EXCEPT !.names = names] IN
         /\ t \in Sockets /\ t.at = s.at /\ t.names = names /\ t.sun_path = s.sun_path
         /\ t.lock_addr = s.lock_addr /\ t.fd_lock = s.fd_lock /\ t.locked = s.locked
BY DEF Sockets

LEMMA NewSocket ==
  /\ SocketSound(wl_socket_alloc) /\ wl_socket_alloc \in Sockets
  /\ wl_socket_alloc.at = "none" /\ wl_socket_alloc.names = << >>
  /\ ~wl_socket_alloc.sun_path /\ ~wl_socket_alloc.lock_addr /\ ~wl_socket_alloc.locked
  /\ wl_socket_alloc.fd_lock = NoFile
BY EmptySeq DEF wl_socket_alloc, SocketSound, Sockets, Places

LEMMA NextNames ==
  ASSUME NEW names \in Seq(Paths), Len(names) > 1
  PROVE  Tail(names) \in Seq(Paths) /\ Tail(names) # << >>
<1>1. names # << >> /\ Len(names) \in Nat
  BY LenProperties, EmptySeq
<1>2. Tail(names) \in Seq(Paths) /\ Len(Tail(names)) = Len(names) - 1
  BY <1>1, HeadTailProperties
<1>3. Len(Tail(names)) # 0
  BY <1>1, <1>2
<1>4. QED
  BY <1>2, <1>3, EmptySeq

(* A server that has begun has a name.                                     *)
LEMMA PathIsPath ==
  ASSUME NEW s \in Sockets, SocketSound(s), s.at # "none"
  PROVE  Head(s.names) \in Paths
BY HeadTailProperties DEF SocketSound, Sockets

(* Only one server at a time has the lock of a name.                       *)
LEMMA OneHolder ==
  ASSUME LocksExclusive, LocksAreOnNames, NEW p \in Servers, NEW q \in Servers,
         wl_socket[p].locked, ~Reached(p, "close_lock"),
         wl_socket[q].locked, ~Reached(q, "close_lock"), Path(p) = Path(q)
  PROVE  p = q
BY DEF LocksExclusive, LocksAreOnNames

LEMMA NamesInitInv == SocketsInit => NamesInv
<1> SUFFICES ASSUME SocketsInit PROVE NamesInv
  OBVIOUS
<1>1. /\ wl_socket \in [Servers -> Sockets]
      /\ \A p \in Servers : wl_socket[p] = wl_socket_alloc
  BY NewSocket DEF SocketsInit
<1>2. /\ lock_file \in [Paths -> Files \cup {NoFile}]
      /\ socket_file \in [Paths -> Servers \cup {Stale, NoFile}]
      /\ \A n \in Paths : socket_file[n] = NoFile
  BY DEF SocketsInit
<1>3. ~orphaned /\ orphaned \in BOOLEAN
  BY DEF SocketsInit
<1>4. LocksExclusive /\ LocksAreOnNames /\ BoundNamesAreOwn /\ LockOpensTheName
  BY <1>1, NewSocket
     DEF LocksExclusive, LocksAreOnNames, BoundNamesAreOwn, LockOpensTheName, Reached
<1>5. SocketsHaveOwners
  BY <1>2, NoFileAssumption DEF SocketsHaveOwners
<1>6. QED
  BY <1>1, <1>2, <1>3, <1>4, <1>5, NewSocket DEF NamesInv

-----------------------------------------------------------------------------
(* Most steps change only how far the server is: what such a step has to   *)
(* see to for the invariant.                                               *)
LEMMA LocalStep ==
  ASSUME NamesInv, ~orphaned, NEW p \in Servers, NEW s \in Sockets, SocketSound(s),
         Becomes(p, s), UNCHANGED <<lock_file, socket_file, orphaned>>,
         s.locked => /\ wl_socket[p].locked /\ s.fd_lock = wl_socket[p].fd_lock
                     /\ s.names = wl_socket[p].names
                     /\ s.at = "close_lock" \/ ~Reached(p, "close_lock"),
         s.at \in {"listen", "serving"} => socket_file[Head(s.names)] = p,
         s.at = "bind" => socket_file[Head(s.names)] = NoFile,
         \A n \in Paths : socket_file[n] = p =>
            /\ s.at \in {"listen", "serving", "unlink_socket"}
            /\ s.locked /\ Head(s.names) = n
  PROVE  NamesInv'
<1>1. /\ wl_socket' \in [Servers -> Sockets]
      /\ \A q \in Servers : wl_socket'[q] = IF q = p THEN s ELSE wl_socket[q]
  BY DEF NamesInv, Becomes
<1>2. \A q \in Servers : SocketSound(wl_socket'[q])
  BY <1>1 DEF NamesInv
<1>3. LocksExclusive'
  BY <1>1 DEF NamesInv, LocksExclusive
<1>4. LocksAreOnNames'
  BY <1>1 DEF NamesInv, LocksAreOnNames, Reached, Path
<1>5. SocketsHaveOwners'
  BY <1>1 DEF NamesInv, SocketsHaveOwners, Path
<1>6. BoundNamesAreOwn' /\ LockOpensTheName'
  BY <1>1 DEF NamesInv, BoundNamesAreOwn, LockOpensTheName, Reached, Path
<1>7. QED
  BY <1>1, <1>2, <1>3, <1>4, <1>5, <1>6 DEF NamesInv

(* GoTo keeps a socket sound if the lock allows the place.                 *)
LEMMA GoToSound ==
  ASSUME NamesInv, NEW p \in Servers, NEW place \in Places \ {"none", "open", "flock"},
         ~Reached(p, "none"), ~Reached(p, "flock"),
         place \in {"unlink_socket", "unlink_lock", "close_lock"} \/ wl_socket[p].locked
  PROVE  LET s == [wl_socket[p] EXCEPT !.at = place] IN
         /\ s \in Sockets /\ SocketSound(s) /\ s.at = place /\ s.names = wl_socket[p].names
         /\ s.fd_lock = wl_socket[p].fd_lock /\ s.locked = wl_socket[p].locked
<1> DEFINE s == [wl_socket[p] EXCEPT !.at = place]
<1>1. wl_socket[p] \in Sockets /\ SocketSound(wl_socket[p])
  BY DEF NamesInv
<1>2. /\ s \in Sockets /\ s.at = place /\ s.names = wl_socket[p].names
      /\ s.sun_path = wl_socket[p].sun_path /\ s.lock_addr = wl_socket[p].lock_addr
      /\ s.fd_lock = wl_socket[p].fd_lock /\ s.locked = wl_socket[p].locked
  BY <1>1, SetAt
<1> HIDE DEF s
<1>3. SocketSound(s)
  BY <1>1, <1>2 DEF SocketSound, Reached
<1>4. QED
  BY <1>2, <1>3 DEF s

LEMMA AddSocketInv ==
  ASSUME NamesInv, ~orphaned, NEW p \in Servers, NEW names \in Tries[p],
         wl_display_add_socket(p, names)
  PROVE  NamesInv'
<1> DEFINE c == [wl_socket_alloc EXCEPT !.at = "open"]
           s == [c EXCEPT !.names = names]
<1>1. names \in Seq(Paths) /\ names # << >>
  BY TriesAssumption
<1>2. /\ c \in Sockets /\ c.at = "open" /\ ~c.sun_path /\ ~c.lock_addr /\ ~c.locked
  BY NewSocket, SetAt DEF Places
<1>3. Becomes(p, s) /\ UNCHANGED <<lock_file, socket_file, orphaned>> /\ Reached(p, "none")
  BY DEF wl_display_add_socket
<1> HIDE DEF c
<1>4. /\ s \in Sockets /\ s.at = "open" /\ s.names = names
      /\ ~s.sun_path /\ ~s.lock_addr /\ ~s.locked
  BY <1>1, <1>2, SetNames
<1> HIDE DEF s
<1>5. SocketSound(s)
  BY <1>1, <1>4 DEF SocketSound
<1>6. \A n \in Paths : socket_file[n] # p
  BY <1>3 DEF NamesInv, SocketsHaveOwners, Reached
<1>7. QED
  BY <1>3, <1>4, <1>5, <1>6, LocalStep

LEMMA OpenLockFileInv ==
  ASSUME NamesInv, ~orphaned, NEW p \in Servers, OpenLockFile(p)
  PROVE  NamesInv'
<1>1. /\ wl_socket[p] \in Sockets /\ SocketSound(wl_socket[p]) /\ wl_socket[p].at = "open"
      /\ UNCHANGED <<socket_file, orphaned>>
  BY DEF NamesInv, OpenLockFile, Reached
<1>2. Path(p) \in Paths
  BY <1>1, PathIsPath DEF Path
<1>3. PICK f \in Files :
        /\ lock_file[Path(p)] # NoFile => f = lock_file[Path(p)]
        /\ lock_file' = [lock_file EXCEPT ![Path(p)] = f]
        /\ Becomes(p, [wl_socket[p] EXCEPT !.at = "flock", !.fd_lock = f,
                                           !.sun_path = TRUE, !.lock_addr = TRUE])
  BY DEF OpenLockFile
<1> DEFINE c == [wl_socket[p] EXCEPT !.at = "flock"]
           d == [c EXCEPT !.fd_lock = f]
           e == [d EXCEPT !.sun_path = TRUE]
           s == [e EXCEPT !.lock_addr = TRUE]
<1>4. c \in Sockets /\ c.at = "flock" /\ c.names = wl_socket[p].names /\ c.locked = wl_socket[p].locked
  BY <1>1, SetAt DEF Places
<1>5. Becomes(p, s)
  BY <1>3
<1> HIDE DEF c
<1>6. /\ d \in Sockets /\ d.at = "flock" /\ d.names = wl_socket[p].names
      /\ d.locked = wl_socket[p].locked /\ d.fd_lock = f
  BY <1>4, SetFdLock
<1> HIDE DEF d
<1>7. /\ e \in Sockets /\ e.at = "flock" /\ e.names = wl_socket[p].names
      /\ e.locked = wl_socket[p].locked /\ e.fd_lock = f /\ e.sun_path
  BY <1>6, SetSunPath
<1> HIDE DEF e
<1>8. /\ s \in Sockets /\ s.at = "flock" /\ s.names = wl_socket[p].names
      /\ s.locked = wl_socket[p].locked /\ s.fd_lock = f /\ s.sun_path /\ s.lock_addr
  BY <1>7, SetLockAddr
<1> HIDE DEF s
<1>9. ~s.locked /\ SocketSound(s)
  BY <1>1, <1>8, NoFileAssumption DEF SocketSound
<1>10. /\ wl_socket' \in [Servers -> Sockets]
       /\ \A q \in Servers : wl_socket'[q] = IF q = p THEN s ELSE wl_socket[q]
  BY <1>5, <1>8 DEF NamesInv, Becomes
<1>11. /\ lock_file' \in [Paths -> Files \cup {NoFile}]
       /\ \A n \in Paths : lock_file[n] # NoFile => lock_file'[n] = lock_file[n]
  BY <1>2, <1>3 DEF NamesInv
<1>12. LocksExclusive'
  BY <1>9, <1>10 DEF NamesInv, LocksExclusive
<1>13. LocksAreOnNames'
  <2> SUFFICES ASSUME NEW q \in Servers, wl_socket'[q].locked, wl_socket'[q].at # "close_lock"
               PROVE  wl_socket'[q].fd_lock = lock_file'[Head(wl_socket'[q].names)]
    BY DEF LocksAreOnNames, Reached, Path
  <2>1. wl_socket'[q] = wl_socket[q] /\ SocketSound(wl_socket[q]) /\ wl_socket[q] \in Sockets
    BY <1>9, <1>10 DEF NamesInv
  <2>2. wl_socket[q].fd_lock = lock_file[Path(q)] /\ wl_socket[q].fd_lock # NoFile
    BY <2>1 DEF NamesInv, LocksAreOnNames, Reached, SocketSound
  <2>3. Path(q) \in Paths
    BY <2>1, PathIsPath DEF Path, SocketSound
  <2>4. QED
    BY <1>11, <2>1, <2>2, <2>3 DEF Path
<1>14. SocketsHaveOwners'
  BY <1>1, <1>10 DEF NamesInv, SocketsHaveOwners, Path
<1>15. BoundNamesAreOwn' /\ LockOpensTheName'
  BY <1>1, <1>8, <1>10 DEF NamesInv, BoundNamesAreOwn, LockOpensTheName, Reached, Path
<1>16. QED
  BY <1>1, <1>9, <1>10, <1>11, <1>12, <1>13, <1>14, <1>15 DEF NamesInv

(* "without lock the socket won't be created anyway"                       *)
LEMMA WithoutLockSound ==
  ASSUME NamesInv, NEW p \in Servers, Reached(p, "flock")
  PROVE  /\ WithoutLock(p) \in Sockets /\ SocketSound(WithoutLock(p))
         /\ ~WithoutLock(p).locked /\ WithoutLock(p).at \in {"open", "unlink_socket"}
<1> DEFINE next == Len(wl_socket[p].names) > 1
           c == [wl_socket[p] EXCEPT !.fd_lock = NoFile]
           d == [c EXCEPT !.lock_addr = FALSE]
           e == [d EXCEPT !.sun_path = FALSE]
           g == [e EXCEPT !.at = IF next THEN "open" ELSE "unlink_socket"]
           names == IF next THEN Tail(g.names) ELSE g.names
           s == [g EXCEPT !.names = names]
<1>1. /\ wl_socket[p] \in Sockets /\ SocketSound(wl_socket[p])
      /\ wl_socket[p].names \in Seq(Paths) /\ wl_socket[p].names # << >>
      /\ ~wl_socket[p].locked
  BY DEF NamesInv, Reached, SocketSound, Sockets
<1>2. c \in Sockets /\ c.names = wl_socket[p].names /\ ~c.locked
  BY <1>1, SetFdLock
<1>3. WithoutLock(p) = s
  <2>1. g.names = wl_socket[p].names
    BY <1>1 DEF Sockets
  <2>2. QED
    BY <2>1 DEF WithoutLock
<1> HIDE DEF c
<1>4. d \in Sockets /\ d.names = wl_socket[p].names /\ ~d.lock_addr /\ ~d.locked
  BY <1>2, SetLockAddr
<1> HIDE DEF d
<1>5. e \in Sockets /\ e.names = wl_socket[p].names /\ ~e.lock_addr /\ ~e.sun_path /\ ~e.locked
  BY <1>4, SetSunPath
<1> HIDE DEF e
<1>6. (IF next THEN "open" ELSE "unlink_socket") \in Places
  BY DEF Places
<1>7. /\ g \in Sockets /\ g.names = wl_socket[p].names /\ ~g.lock_addr /\ ~g.sun_path
      /\ ~g.locked /\ g.at = IF next THEN "open" ELSE "unlink_socket"
  BY <1>5, <1>6, SetAt
<1> HIDE DEF g
<1>8. names \in Seq(Paths) /\ names # << >>
  <2>1. CASE next
    BY <1>1, <1>7, <2>1, NextNames
  <2>2. CASE ~next
    BY <1>1, <1>7, <2>2
  <2>3. QED
    BY <2>1, <2>2
<1>9. /\ s \in Sockets /\ s.names = names /\ ~s.lock_addr /\ ~s.sun_path
      /\ ~s.locked /\ s.at \in {"open", "unlink_socket"}
  BY <1>7, <1>8, SetNames
<1> HIDE DEF s, names
<1>10. SocketSound(s)
  BY <1>8, <1>9 DEF SocketSound
<1>11. QED
  BY <1>3, <1>9, <1>10

LEMMA FlockInv ==
  ASSUME NamesInv, ~orphaned, NEW p \in Servers, flock(p)
  PROVE  NamesInv'
<1>1. /\ wl_socket[p] \in Sockets /\ SocketSound(wl_socket[p]) /\ Reached(p, "flock")
      /\ UNCHANGED <<lock_file, socket_file>>
  BY DEF NamesInv, flock
<1>2. \A n \in Paths : socket_file[n] # p
  BY <1>1 DEF NamesInv, SocketsHaveOwners, Reached
<1>3. CASE LockedByOther(p)
  <2>1. Becomes(p, WithoutLock(p)) /\ UNCHANGED orphaned
    BY <1>3 DEF flock
  <2>2. QED
    BY <1>1, <1>2, <2>1, WithoutLockSound, LocalStep
<1>4. CASE ~LockedByOther(p)
  <2> DEFINE c == [wl_socket[p] EXCEPT !.at = "lstat"]
             s == [c EXCEPT !.locked = TRUE]
  <2>1. Becomes(p, s)
    BY <1>4 DEF flock
  <2>2. orphaned' \in BOOLEAN /\ (~orphaned' => wl_socket[p].fd_lock = lock_file[Path(p)])
    BY <1>4 DEF flock
  <2>3. /\ c \in Sockets /\ c.at = "lstat" /\ c.names = wl_socket[p].names
        /\ c.sun_path = wl_socket[p].sun_path /\ c.lock_addr = wl_socket[p].lock_addr
        /\ c.fd_lock = wl_socket[p].fd_lock
    BY <1>1, SetAt DEF Places
  <2> HIDE DEF c
  <2>4. /\ s \in Sockets /\ s.at = "lstat" /\ s.names = wl_socket[p].names
        /\ s.sun_path = wl_socket[p].sun_path /\ s.lock_addr = wl_socket[p].lock_addr
        /\ s.fd_lock = wl_socket[p].fd_lock /\ s.locked
    BY <2>3, SetLocked
  <2> HIDE DEF s
  <2>5. SocketSound(s)
    BY <1>1, <2>4 DEF SocketSound, Reached
  <2>6. /\ wl_socket' \in [Servers -> Sockets]
        /\ \A q \in Servers : wl_socket'[q] = IF q = p THEN s ELSE wl_socket[q]
    BY <2>1, <2>4 DEF NamesInv, Becomes
  <2>7. LocksExclusive'
    BY <1>4, <2>4, <2>6 DEF NamesInv, LocksExclusive, LockedByOther
  <2>8. ~orphaned' => LocksAreOnNames'
    BY <1>1, <2>2, <2>4, <2>6 DEF NamesInv, LocksAreOnNames, Reached, Path
  <2>9. SocketsHaveOwners'
    BY <1>1, <1>2, <2>6 DEF NamesInv, SocketsHaveOwners, Path
  <2>10. BoundNamesAreOwn' /\ LockOpensTheName'
    BY <1>1, <2>4, <2>6 DEF NamesInv, BoundNamesAreOwn, LockOpensTheName, Reached, Path
  <2>11. QED
    BY <1>1, <2>2, <2>5, <2>6, <2>7, <2>8, <2>9, <2>10 DEF NamesInv
<1>5. QED
  BY <1>3, <1>4

(* Steps after which the server is elsewhere and nothing else has changed. *)
LEMMA QuietInv ==
  ASSUME NamesInv, ~orphaned, NEW p \in Servers,
         \/ lstat(p) \/ listen(p) \/ AddingFails(p) \/ wl_display_destroy(p)
  PROVE  NamesInv'
<1>1. wl_socket[p] \in Sockets /\ SocketSound(wl_socket[p])
  BY DEF NamesInv
<1>2. UNCHANGED <<lock_file, socket_file, orphaned>>
  BY DEF lstat, listen, AddingFails, wl_display_destroy
<1>3. PICK place \in {"bind", "unlink_stale", "serving", "unlink_socket"} :
        /\ GoTo(p, place)
        /\ place = "bind" => socket_file[Path(p)] = NoFile
        /\ place \in {"bind", "unlink_stale"} => Reached(p, "lstat")
        /\ place = "serving" => Reached(p, "listen")
        /\ place = "unlink_socket" => Reached(p, "bind") \/ Reached(p, "listen") \/ Reached(p, "serving")
  BY DEF lstat, listen, AddingFails, wl_display_destroy
<1> DEFINE s == [wl_socket[p] EXCEPT !.at = place]
<1>4. /\ place \in Places \ {"none", "open", "flock"} /\ wl_socket[p].locked
      /\ ~Reached(p, "none") /\ ~Reached(p, "flock") /\ ~Reached(p, "close_lock")
  BY <1>1, <1>3 DEF Places, Reached, SocketSound
<1>5. /\ s \in Sockets /\ SocketSound(s) /\ s.at = place /\ s.names = wl_socket[p].names
      /\ s.fd_lock = wl_socket[p].fd_lock /\ s.locked = wl_socket[p].locked
  BY <1>4, GoToSound
<1>6. Becomes(p, s)
  BY <1>3 DEF GoTo
<1> HIDE DEF s
<1>7. s.at \in {"listen", "serving"} => socket_file[Head(s.names)] = p
  BY <1>3, <1>5 DEF NamesInv, BoundNamesAreOwn, Path
<1>8. s.at = "bind" => socket_file[Head(s.names)] = NoFile
  BY <1>3, <1>5 DEF Path
<1>9. ASSUME NEW n \in Paths, socket_file[n] = p
      PROVE  s.at \in {"listen", "serving", "unlink_socket"} /\ s.locked /\ Head(s.names) = n
  BY <1>3, <1>5, <1>9 DEF NamesInv, SocketsHaveOwners, Reached, Path
<1>10. QED
  BY <1>2, <1>4, <1>5, <1>6, <1>7, <1>8, <1>9, LocalStep

(* Steps of the one that holds the lock of a name on the name's socket: no *)
(* other server has to do with it.                                         *)
LEMMA UnlinkStaleInv ==
  ASSUME NamesInv, ~orphaned, NEW p \in Servers, UnlinkStale(p)
  PROVE  NamesInv'
<1> DEFINE s == [wl_socket[p] EXCEPT !.at = "bind"]
<1>1. /\ wl_socket[p] \in Sockets /\ SocketSound(wl_socket[p]) /\ Reached(p, "unlink_stale")
      /\ UNCHANGED <<lock_file, orphaned>>
  BY DEF NamesInv, UnlinkStale
<1>2. wl_socket[p].locked /\ Path(p) \in Paths
  BY <1>1, PathIsPath DEF SocketSound, Reached, Path
<1>3. /\ s \in Sockets /\ SocketSound(s) /\ s.at = "bind" /\ s.names = wl_socket[p].names
      /\ s.fd_lock = wl_socket[p].fd_lock /\ s.locked
  BY <1>1, <1>2, GoToSound DEF Places, Reached
<1>4. Becomes(p, s)
  BY DEF UnlinkStale, GoTo
<1> HIDE DEF s
<1>5. /\ wl_socket' \in [Servers -> Sockets]
      /\ \A q \in Servers : wl_socket'[q] = IF q = p THEN s ELSE wl_socket[q]
  BY <1>3, <1>4 DEF NamesInv, Becomes
<1>6. /\ socket_file' \in [Paths -> Servers \cup {Stale, NoFile}]
      /\ \A n \in Paths : socket_file'[n] = IF n = Path(p) THEN NoFile ELSE socket_file[n]
  BY <1>2 DEF NamesInv, UnlinkStale
<1>7. LocksExclusive' /\ LocksAreOnNames'
  BY <1>1, <1>2, <1>3, <1>5 DEF NamesInv, LocksExclusive, LocksAreOnNames, Reached, Path
<1>8. SocketsHaveOwners'
  BY <1>1, <1>5, <1>6, NoFileAssumption DEF NamesInv, SocketsHaveOwners, Reached, Path
<1>9. BoundNamesAreOwn'
  <2> SUFFICES ASSUME NEW q \in Servers, wl_socket'[q].at \in {"listen", "serving"}
               PROVE  socket_file'[Head(wl_socket'[q].names)] = q
    BY DEF BoundNamesAreOwn, Reached, Path
  <2>1. q # p /\ wl_socket'[q] = wl_socket[q] /\ SocketSound(wl_socket[q]) /\ wl_socket[q] \in Sockets
    BY <1>3, <1>5 DEF NamesInv
  <2>2. Path(q) \in Paths /\ wl_socket[q].locked
    BY <2>1, PathIsPath DEF Path, SocketSound
  <2>3. Path(q) # Path(p)
    BY <1>1, <1>2, <2>1, <2>2, OneHolder DEF NamesInv, Reached
  <2>4. QED
    BY <1>6, <2>1, <2>2, <2>3 DEF NamesInv, BoundNamesAreOwn, Reached, Path
<1>10. LockOpensTheName'
  <2> SUFFICES ASSUME NEW q \in Servers, wl_socket'[q].at = "bind"
               PROVE  socket_file'[Head(wl_socket'[q].names)] = NoFile
    BY DEF LockOpensTheName, Reached, Path
  <2>1. CASE q = p
    BY <1>2, <1>3, <1>5, <1>6, <2>1 DEF Path
  <2>2. CASE q # p
    <3>1. wl_socket'[q] = wl_socket[q] /\ SocketSound(wl_socket[q]) /\ wl_socket[q] \in Sockets
      BY <1>5, <2>2 DEF NamesInv
    <3>2. Path(q) \in Paths /\ socket_file[Path(q)] = NoFile
      BY <3>1, PathIsPath DEF Path, NamesInv, LockOpensTheName, Reached
    <3>3. QED
      BY <1>6, <3>1, <3>2 DEF Path
  <2>3. QED
    BY <2>1, <2>2
<1>11. QED
  BY <1>1, <1>3, <1>5, <1>6, <1>7, <1>8, <1>9, <1>10 DEF NamesInv

LEMMA BindInv ==
  ASSUME NamesInv, ~orphaned, NEW p \in Servers, bind(p)
  PROVE  NamesInv'
<1>1. /\ wl_socket[p] \in Sockets /\ SocketSound(wl_socket[p]) /\ Reached(p, "bind")
      /\ UNCHANGED <<lock_file, orphaned>>
  BY DEF NamesInv, bind
<1>2. wl_socket[p].locked /\ Path(p) \in Paths /\ socket_file[Path(p)] = NoFile
  BY <1>1, PathIsPath DEF SocketSound, Reached, Path, NamesInv, LockOpensTheName
<1> DEFINE s == [wl_socket[p] EXCEPT !.at = "listen"]
<1>3. /\ s \in Sockets /\ SocketSound(s) /\ s.at = "listen" /\ s.names = wl_socket[p].names
      /\ s.fd_lock = wl_socket[p].fd_lock /\ s.locked
  BY <1>1, <1>2, GoToSound DEF Places, Reached
<1>4. Becomes(p, s) /\ socket_file' = [socket_file EXCEPT ![Path(p)] = p]
  BY <1>2 DEF bind, GoTo
<1> HIDE DEF s
<1>5. /\ wl_socket' \in [Servers -> Sockets]
      /\ \A q \in Servers : wl_socket'[q] = IF q = p THEN s ELSE wl_socket[q]
  BY <1>3, <1>4 DEF NamesInv, Becomes
<1>6. /\ socket_file' \in [Paths -> Servers \cup {Stale, NoFile}]
      /\ \A n \in Paths : socket_file'[n] = IF n = Path(p) THEN p ELSE socket_file[n]
  BY <1>2, <1>4 DEF NamesInv
<1>7. LocksExclusive' /\ LocksAreOnNames'
  BY <1>1, <1>2, <1>3, <1>5 DEF NamesInv, LocksExclusive, LocksAreOnNames, Reached, Path
<1>8. SocketsHaveOwners'
  BY <1>1, <1>3, <1>5, <1>6 DEF NamesInv, SocketsHaveOwners, Reached, Path
<1>9. BoundNamesAreOwn' /\ LockOpensTheName'
  <2> SUFFICES ASSUME NEW q \in Servers, wl_socket'[q].at \in {"listen", "serving", "bind"}
               PROVE  socket_file'[Head(wl_socket'[q].names)]
                        = IF wl_socket'[q].at = "bind" THEN NoFile ELSE q
    BY DEF BoundNamesAreOwn, LockOpensTheName, Reached, Path
  <2>1. CASE q = p
    BY <1>2, <1>3, <1>5, <1>6, <2>1 DEF Path
  <2>2. CASE q # p
    <3>1. wl_socket'[q] = wl_socket[q] /\ SocketSound(wl_socket[q]) /\ wl_socket[q] \in Sockets
      BY <1>5, <2>2 DEF NamesInv
    <3>2. Path(q) \in Paths /\ wl_socket[q].locked
      BY <3>1, PathIsPath DEF Path, SocketSound
    <3>3. Path(q) # Path(p)
      BY <1>1, <1>2, <2>2, <3>1, <3>2, OneHolder DEF NamesInv, Reached
    <3>4. QED
      BY <1>6, <3>1, <3>2, <3>3 DEF NamesInv, BoundNamesAreOwn, LockOpensTheName, Reached, Path
  <2>3. QED
    BY <2>1, <2>2
<1>10. QED
  BY <1>1, <1>3, <1>5, <1>6, <1>7, <1>8, <1>9 DEF NamesInv

(* wl_socket_destroy unlinks the socket of the server or none.             *)
LEMMA UnlinkSocketInv ==
  ASSUME NamesInv, ~orphaned, NEW p \in Servers, UnlinkSocket(p)
  PROVE  NamesInv'
<1> DEFINE s == [wl_socket[p] EXCEPT !.at = "unlink_lock"]
<1>1. /\ wl_socket[p] \in Sockets /\ SocketSound(wl_socket[p]) /\ Reached(p, "unlink_socket")
      /\ UNCHANGED <<lock_file, orphaned>>
  BY DEF NamesInv, UnlinkSocket
<1>2. /\ s \in Sockets /\ SocketSound(s) /\ s.at = "unlink_lock" /\ s.names = wl_socket[p].names
      /\ s.fd_lock = wl_socket[p].fd_lock /\ s.locked = wl_socket[p].locked
  BY <1>1, GoToSound DEF Places, Reached
<1>3. Becomes(p, s)
  BY DEF UnlinkSocket, GoTo
<1> HIDE DEF s
<1>4. Path(p) \in Paths /\ wl_socket[p].sun_path = wl_socket[p].locked
  BY <1>1, PathIsPath DEF SocketSound, Reached, Path, Sockets
<1>5. CASE ~wl_socket[p].locked
  <2>1. UNCHANGED socket_file
    BY <1>4, <1>5 DEF UnlinkSocket
  <2>2. \A n \in Paths : socket_file[n] # p
    BY <1>5 DEF NamesInv, SocketsHaveOwners
  <2>3. QED
    BY <1>1, <1>2, <1>3, <1>5, <2>1, <2>2, LocalStep
<1>6. CASE wl_socket[p].locked
  <2>1. socket_file' = [socket_file EXCEPT ![Path(p)] = NoFile]
    BY <1>4, <1>6 DEF UnlinkSocket
  <2>2. /\ wl_socket' \in [Servers -> Sockets]
        /\ \A q \in Servers : wl_socket'[q] = IF q = p THEN s ELSE wl_socket[q]
    BY <1>2, <1>3 DEF NamesInv, Becomes
  <2>3. /\ socket_file' \in [Paths -> Servers \cup {Stale, NoFile}]
        /\ \A n \in Paths : socket_file'[n] = IF n = Path(p) THEN NoFile ELSE socket_file[n]
    BY <1>4, <2>1 DEF NamesInv
  <2>4. LocksExclusive' /\ LocksAreOnNames'
    BY <1>1, <1>2, <2>2 DEF NamesInv, LocksExclusive, LocksAreOnNames, Reached, Path
  <2>5. SocketsHaveOwners'
    BY <1>1, <2>2, <2>3, NoFileAssumption DEF NamesInv, SocketsHaveOwners, Path
  <2>6. BoundNamesAreOwn' /\ LockOpensTheName'
    <3> SUFFICES ASSUME NEW q \in Servers, wl_socket'[q].at \in {"listen", "serving", "bind"}
                 PROVE  socket_file'[Head(wl_socket'[q].names)]
                          = IF wl_socket'[q].at = "bind" THEN NoFile ELSE q
      BY DEF BoundNamesAreOwn, LockOpensTheName, Reached, Path
    <3>1. q # p /\ wl_socket'[q] = wl_socket[q] /\ SocketSound(wl_socket[q]) /\ wl_socket[q] \in Sockets
      BY <1>2, <2>2 DEF NamesInv
    <3>2. Path(q) \in Paths /\ wl_socket[q].locked
      BY <3>1, PathIsPath DEF Path, SocketSound
    <3>3. Path(q) # Path(p)
      BY <1>1, <1>6, <3>1, <3>2, OneHolder DEF NamesInv, Reached
    <3>4. QED
      BY <2>3, <3>1, <3>2, <3>3 DEF NamesInv, BoundNamesAreOwn, LockOpensTheName, Reached, Path
  <2>7. QED
    BY <1>1, <1>2, <2>2, <2>3, <2>4, <2>5, <2>6 DEF NamesInv
<1>7. QED
  BY <1>5, <1>6

LEMMA UnlinkLockFileInv ==
  ASSUME NamesInv, ~orphaned, NEW p \in Servers, UnlinkLockFile(p)
  PROVE  NamesInv'
<1> DEFINE s == [wl_socket[p] EXCEPT !.at = "close_lock"]
<1>1. /\ wl_socket[p] \in Sockets /\ SocketSound(wl_socket[p]) /\ Reached(p, "unlink_lock")
      /\ UNCHANGED <<socket_file, orphaned>>
  BY DEF NamesInv, UnlinkLockFile
<1>2. /\ s \in Sockets /\ SocketSound(s) /\ s.at = "close_lock" /\ s.names = wl_socket[p].names
      /\ s.fd_lock = wl_socket[p].fd_lock /\ s.locked = wl_socket[p].locked
  BY <1>1, GoToSound DEF Places, Reached
<1>3. Becomes(p, s)
  BY DEF UnlinkLockFile, GoTo
<1> HIDE DEF s
<1>4. Path(p) \in Paths /\ wl_socket[p].lock_addr = wl_socket[p].locked
  BY <1>1, PathIsPath DEF SocketSound, Reached, Path, Sockets
<1>5. \A n \in Paths : socket_file[n] # p
  BY <1>1 DEF NamesInv, SocketsHaveOwners, Reached
<1>6. CASE ~wl_socket[p].locked
  <2>1. UNCHANGED lock_file
    BY <1>4, <1>6 DEF UnlinkLockFile
  <2>2. QED
    BY <1>1, <1>2, <1>3, <1>5, <1>6, <2>1, LocalStep
<1>7. CASE wl_socket[p].locked
  <2>1. lock_file' = [lock_file EXCEPT ![Path(p)] = NoFile]
    BY <1>4, <1>7 DEF UnlinkLockFile
  <2>2. /\ wl_socket' \in [Servers -> Sockets]
        /\ \A q \in Servers : wl_socket'[q] = IF q = p THEN s ELSE wl_socket[q]
    BY <1>2, <1>3 DEF NamesInv, Becomes
  <2>3. /\ lock_file' \in [Paths -> Files \cup {NoFile}]
        /\ \A n \in Paths : lock_file'[n] = IF n = Path(p) THEN NoFile ELSE lock_file[n]
    BY <1>4, <2>1 DEF NamesInv
  <2>4. LocksExclusive'
    BY <1>2, <2>2 DEF NamesInv, LocksExclusive
  <2>5. LocksAreOnNames'
    <3> SUFFICES ASSUME NEW q \in Servers, wl_socket'[q].locked, wl_socket'[q].at # "close_lock"
                 PROVE  wl_socket'[q].fd_lock = lock_file'[Head(wl_socket'[q].names)]
      BY DEF LocksAreOnNames, Reached, Path
    <3>1. q # p /\ wl_socket'[q] = wl_socket[q] /\ SocketSound(wl_socket[q]) /\ wl_socket[q] \in Sockets
      BY <1>2, <2>2 DEF NamesInv
    <3>2. Path(q) \in Paths
      BY <3>1, PathIsPath DEF Path, SocketSound
    <3>3. Path(q) # Path(p)
      BY <1>1, <1>7, <3>1, OneHolder DEF NamesInv, Reached
    <3>4. QED
      BY <2>3, <3>1, <3>2, <3>3 DEF NamesInv, LocksAreOnNames, Reached, Path
  <2>6. SocketsHaveOwners'
    BY <1>1, <1>5, <2>2 DEF NamesInv, SocketsHaveOwners, Path
  <2>7. BoundNamesAreOwn' /\ LockOpensTheName'
    BY <1>1, <1>2, <2>2 DEF NamesInv, BoundNamesAreOwn, LockOpensTheName, Reached, Path
  <2>8. QED
    BY <1>1, <1>2, <2>2, <2>3, <2>4, <2>5, <2>6, <2>7 DEF NamesInv
<1>8. QED
  BY <1>6, <1>7

LEMMA CloseLockFileInv ==
  ASSUME NamesInv, ~orphaned, NEW p \in Servers, CloseLockFile(p)
  PROVE  NamesInv'
<1>1. /\ Becomes(p, wl_socket_alloc) /\ UNCHANGED <<lock_file, socket_file, orphaned>>
      /\ wl_socket[p].at = "close_lock"
  BY DEF CloseLockFile, Reached
<1>2. \A n \in Paths : socket_file[n] # p
  BY <1>1 DEF NamesInv, SocketsHaveOwners
<1>3. QED
  BY <1>1, <1>2, NewSocket, LocalStep

(* A killed server leaves its files, and whoever comes next its name.      *)
LEMMA CrashInv ==
  ASSUME NamesInv, ~orphaned, NEW p \in Servers, Crash(p)
  PROVE  NamesInv'
<1>1. Becomes(p, wl_socket_alloc) /\ UNCHANGED <<lock_file, orphaned>>
  BY DEF Crash
<1>2. /\ wl_socket' \in [Servers -> Sockets]
      /\ \A q \in Servers : wl_socket'[q] = IF q = p THEN wl_socket_alloc ELSE wl_socket[q]
  BY <1>1, NewSocket DEF NamesInv, Becomes
<1>3. socket_file' = [n \in Paths |-> IF socket_file[n] = p THEN Stale ELSE socket_file[n]]
  BY DEF Crash
<1>4. /\ socket_file' \in [Paths -> Servers \cup {Stale, NoFile}]
      /\ \A n \in Paths : socket_file'[n] = IF socket_file[n] = p THEN Stale ELSE socket_file[n]
  BY <1>3 DEF NamesInv
<1>5. LocksExclusive' /\ LocksAreOnNames'
  BY <1>1, <1>2, NewSocket DEF NamesInv, LocksExclusive, LocksAreOnNames, Reached, Path
<1>6. SocketsHaveOwners'
  BY <1>2, <1>4, NoFileAssumption DEF NamesInv, SocketsHaveOwners, Path
<1>7. BoundNamesAreOwn' /\ LockOpensTheName'
  <2> SUFFICES ASSUME NEW q \in Servers, wl_socket'[q].at \in {"listen", "serving", "bind"}
               PROVE  socket_file'[Head(wl_socket'[q].names)]
                        = IF wl_socket'[q].at = "bind" THEN NoFile ELSE q
    BY DEF BoundNamesAreOwn, LockOpensTheName, Reached, Path
  <2>1. q # p /\ wl_socket'[q] = wl_socket[q] /\ SocketSound(wl_socket[q]) /\ wl_socket[q] \in Sockets
    BY <1>2, NewSocket DEF NamesInv
  <2>2. Path(q) \in Paths
    BY <2>1, PathIsPath DEF Path
  <2>3. socket_file[Path(q)] = IF wl_socket[q].at = "bind" THEN NoFile ELSE q
    BY <2>1 DEF NamesInv, BoundNamesAreOwn, LockOpensTheName, Reached
  <2>4. QED
    BY <1>4, <2>1, <2>2, <2>3, NoFileAssumption DEF Path
<1>8. QED
  BY <1>1, <1>2, <1>4, <1>5, <1>6, <1>7, NewSocket DEF NamesInv

LEMMA NamesInvariance == SocketsSpec => []NamesInv
<1>1. ASSUME NamesInv, [SocketsNext]_socketVars PROVE NamesInv'
  <2>1. CASE UNCHANGED socketVars
    BY <1>1, <2>1
       DEF socketVars, NamesInv, LocksExclusive, LocksAreOnNames, SocketsHaveOwners,
           BoundNamesAreOwn, LockOpensTheName, Reached, Path
  <2>2. CASE SocketsNext
    <3>1. ~orphaned
      BY <2>2 DEF SocketsNext
    <3>2. PICK p \in Servers :
            \/ \E names \in Tries[p] : wl_display_add_socket(p, names)
            \/ OpenLockFile(p) \/ flock(p) \/ lstat(p) \/ UnlinkStale(p)
            \/ bind(p) \/ listen(p) \/ AddingFails(p)
            \/ wl_display_destroy(p) \/ UnlinkSocket(p) \/ UnlinkLockFile(p)
            \/ CloseLockFile(p) \/ Crash(p)
      BY <2>2 DEF SocketsNext
    <3>3. ASSUME NEW names \in Tries[p], wl_display_add_socket(p, names) PROVE NamesInv'
      BY <1>1, <3>1, <3>3, AddSocketInv
    <3>4. OpenLockFile(p) \/ flock(p) => NamesInv'
      BY <1>1, <3>1, OpenLockFileInv, FlockInv
    <3>5. lstat(p) \/ listen(p) \/ AddingFails(p) \/ wl_display_destroy(p) => NamesInv'
      BY <1>1, <3>1, QuietInv
    <3>6. UnlinkStale(p) \/ bind(p) \/ UnlinkSocket(p) => NamesInv'
      BY <1>1, <3>1, UnlinkStaleInv, BindInv, UnlinkSocketInv
    <3>7. UnlinkLockFile(p) \/ CloseLockFile(p) \/ Crash(p) => NamesInv'
      BY <1>1, <3>1, UnlinkLockFileInv, CloseLockFileInv, CrashInv
    <3>8. QED
      BY <3>2, <3>3, <3>4, <3>5, <3>6, <3>7
  <2>3. QED
    BY <1>1, <2>1, <2>2
<1>2. QED
  BY <1>1, NamesInitInv, PTL DEF SocketsSpec

-----------------------------------------------------------------------------

(* With any number of servers, names and crashes: as long as no server     *)
(* locks an unlinked file, a name leads to the server that serves it, and  *)
(* whoever holds its lock can bind it.                                     *)
THEOREM NamesStaySafe == SocketsSpec => []NamesAreSafe
<1>1. ASSUME NamesInv PROVE NamesAreSafe
  <2>1. SocketsTypeOK
    <3>1. ASSUME NEW p \in Servers
          PROVE  /\ wl_socket[p].fd_lock \in Files \cup {NoFile}
                 /\ wl_socket[p].locked => wl_socket[p].fd_lock # NoFile /\ wl_socket[p].names # << >>
      BY <1>1 DEF NamesInv, SocketSound, Sockets
    <3>2. QED
      BY <1>1, <3>1 DEF NamesInv, SocketsTypeOK
  <2>2. ~orphaned => NameLeadsToItsServer /\ LockOpensTheName
    BY <1>1 DEF NamesInv, BoundNamesAreOwn, NameLeadsToItsServer
  <2>3. QED
    BY <2>1, <2>2 DEF NamesAreSafe
<1>2. QED
  BY <1>1, NamesInvariance, PTL

(* Two servers never serve one name.                                       *)
THEOREM OneServerToAName ==
  SocketsSpec =>
    [](~orphaned => \A p, q \in Servers :
         Reached(p, "serving") /\ Reached(q, "serving") /\ Path(p) = Path(q) => p = q)
<1>1. NamesInv => (~orphaned => \A p, q \in Servers :
         Reached(p, "serving") /\ Reached(q, "serving") /\ Path(p) = Path(q) => p = q)
  BY DEF NamesInv, BoundNamesAreOwn
<1>2. QED
  BY <1>1, NamesInvariance, PTL
=================================================================================
