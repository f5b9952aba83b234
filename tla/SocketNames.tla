------------------------------ MODULE SocketNames ------------------------------
(***************************************************************************)
(* How servers come to the names of their sockets and give them up         *)
(* (untitled/src/wayland-server.c: wl_display_add_socket and _auto,        *)
(* wl_socket_lock, wl_socket_destroy).  Several servers do so at a time,   *)
(* each a process that may be killed at any moment and started again; each *)
(* system call that another server can notice is a step.                   *)
(*                                                                         *)
(* A file, open or in a directory, is a number; what the kernel does with  *)
(* numbers, locks and the sockets of a dead process is modelled with it.   *)
(***************************************************************************)
EXTENDS Naturals, FiniteSets, Sequences

CONSTANTS Servers, Paths,
          Tries,     \* Tries[p]: the sequences of names p may try, which are
                     \* one name, or "wayland-0" and the next ones
          NoFile       \* no file

Files == 1..(Cardinality(Servers) + Cardinality(Paths))
Stale == "stale"    \* a socket nobody listens on

ASSUME TriesAssumption == Tries \in [Servers -> SUBSET (Seq(Paths) \ {<< >>})]
ASSUME NoFileAssumption ==
  NoFile \notin Files /\ NoFile \notin Servers /\ NoFile # Stale /\ Stale \notin Servers

VARIABLES lock_file,    \* lock_file[n]: the lock file that the path n.lock leads to
          socket_file,  \* socket_file[n]: the server whose socket n leads to
          wl_socket,    \* wl_socket[p]: p's socket and where p is with it
          orphaned      \* a server has locked a file that had been unlinked

socketVars == <<lock_file, socket_file, wl_socket, orphaned>>

wl_socket_alloc == [at |-> "none", names |-> << >>, sun_path |-> FALSE,
                    lock_addr |-> FALSE, fd_lock |-> NoFile, locked |-> FALSE]

SocketsInit ==
  /\ lock_file = [n \in Paths |-> NoFile] /\ socket_file = [n \in Paths |-> NoFile]
  /\ wl_socket = [p \in Servers |-> wl_socket_alloc]
  /\ orphaned = FALSE

Reached(p, place) == wl_socket[p].at = place
Path(p) == Head(wl_socket[p].names)
Becomes(p, socket) == wl_socket' = [wl_socket EXCEPT ![p] = socket]
GoTo(p, place) == Becomes(p, [wl_socket[p] EXCEPT !.at = place])

NumbersInUse == {lock_file[n] : n \in Paths} \cup {wl_socket[p].fd_lock : p \in Servers}

wl_display_add_socket(p, names) ==
  /\ Reached(p, "none")
  /\ Becomes(p, [wl_socket_alloc EXCEPT !.at = "open", !.names = names])
  /\ UNCHANGED <<lock_file, socket_file, orphaned>>

(* wl_socket_init_for_display_name, and wl_socket_lock with its open().    *)
OpenLockFile(p) ==
  /\ Reached(p, "open")
  /\ \E f \in Files :
       /\ IF lock_file[Path(p)] = NoFile THEN f = CHOOSE g \in Files : g \notin NumbersInUse
          ELSE f = lock_file[Path(p)]
       /\ lock_file' = [lock_file EXCEPT ![Path(p)] = f]
       /\ Becomes(p, [wl_socket[p] EXCEPT !.at = "flock", !.fd_lock = f,
                                          !.sun_path = TRUE, !.lock_addr = TRUE])
  /\ UNCHANGED <<socket_file, orphaned>>

LockedByOther(p) ==
  \E q \in Servers \ {p} : wl_socket[q].locked /\ wl_socket[q].fd_lock = wl_socket[p].fd_lock

(* Faulty: the paths stay in the socket, which wl_socket_destroy unlinks.  *)
WithoutLockKeepingPaths(p) ==
  LET next == Len(wl_socket[p].names) > 1 IN
  [wl_socket[p] EXCEPT !.fd_lock = NoFile, !.lock_addr = FALSE,
                       !.at = IF next THEN "open" ELSE "unlink_socket",
                       !.names = IF next THEN Tail(@) ELSE @]

(* "We did not set this value here, but without lock the socket won't be   *)
(* created anyway."  wl_display_add_socket_auto then tries the next name.  *)
WithoutLock(p) ==
  LET next == Len(wl_socket[p].names) > 1 IN
  [wl_socket[p] EXCEPT !.fd_lock = NoFile, !.lock_addr = FALSE, !.sun_path = FALSE,
                       !.at = IF next THEN "open" ELSE "unlink_socket",
                       !.names = IF next THEN Tail(@) ELSE @]

flock(p) ==
  /\ Reached(p, "flock")
  /\ IF LockedByOther(p)
     THEN Becomes(p, WithoutLock(p)) /\ UNCHANGED orphaned
     ELSE /\ Becomes(p, [wl_socket[p] EXCEPT !.at = "lstat", !.locked = TRUE])
          /\ orphaned' = (orphaned \/ wl_socket[p].fd_lock # lock_file[Path(p)])
  /\ UNCHANGED <<lock_file, socket_file>>

lstat(p) ==
  /\ Reached(p, "lstat")
  /\ GoTo(p, IF socket_file[Path(p)] = NoFile THEN "bind" ELSE "unlink_stale")
  /\ UNCHANGED <<lock_file, socket_file, orphaned>>

UnlinkStale(p) ==
  /\ Reached(p, "unlink_stale")
  /\ socket_file' = [socket_file EXCEPT ![Path(p)] = NoFile]
  /\ GoTo(p, "bind")
  /\ UNCHANGED <<lock_file, orphaned>>

(* _wl_display_add_socket up to bind(), which fails if the path is taken.  *)
bind(p) ==
  /\ Reached(p, "bind")
  /\ IF socket_file[Path(p)] = NoFile
     THEN socket_file' = [socket_file EXCEPT ![Path(p)] = p] /\ GoTo(p, "listen")
     ELSE UNCHANGED socket_file /\ GoTo(p, "unlink_socket")
  /\ UNCHANGED <<lock_file, orphaned>>

(* listen() and the event source.                                          *)
listen(p) ==
  /\ Reached(p, "listen")
  /\ GoTo(p, "serving")
  /\ UNCHANGED <<lock_file, socket_file, orphaned>>

(* socket(), listen() or wl_event_loop_add_fd fails.                       *)
AddingFails(p) ==
  /\ Reached(p, "bind") \/ Reached(p, "listen")
  /\ GoTo(p, "unlink_socket")
  /\ UNCHANGED <<lock_file, socket_file, orphaned>>

(* wl_display_destroy                                                      *)
wl_display_destroy(p) ==
  /\ Reached(p, "serving")
  /\ GoTo(p, "unlink_socket")
  /\ UNCHANGED <<lock_file, socket_file, orphaned>>

(* wl_socket_destroy: unlink and close of the socket, unlink of the lock   *)
(* file, its close.                                                        *)
UnlinkSocket(p) ==
  /\ Reached(p, "unlink_socket")
  /\ socket_file' = IF wl_socket[p].sun_path
                    THEN [socket_file EXCEPT ![Path(p)] = NoFile] ELSE socket_file
  /\ GoTo(p, "unlink_lock")
  /\ UNCHANGED <<lock_file, orphaned>>

UnlinkLockFile(p) ==
  /\ Reached(p, "unlink_lock")
  /\ lock_file' = IF wl_socket[p].lock_addr
                  THEN [lock_file EXCEPT ![Path(p)] = NoFile] ELSE lock_file
  /\ GoTo(p, "close_lock")
  /\ UNCHANGED <<socket_file, orphaned>>

CloseLockFile(p) ==
  /\ Reached(p, "close_lock")
  /\ Becomes(p, wl_socket_alloc)
  /\ UNCHANGED <<lock_file, socket_file, orphaned>>

(* The server is killed: its files are closed and none is unlinked.        *)
Crash(p) ==
  /\ ~Reached(p, "none")
  /\ Becomes(p, wl_socket_alloc)
  /\ socket_file' = [n \in Paths |-> IF socket_file[n] = p THEN Stale ELSE socket_file[n]]
  /\ UNCHANGED <<lock_file, orphaned>>

(* What comes after a server has locked an unlinked file is not modelled.  *)
SocketsNext == ~orphaned /\ \E p \in Servers :
  \/ \E names \in Tries[p] : wl_display_add_socket(p, names)
  \/ OpenLockFile(p) \/ flock(p) \/ lstat(p) \/ UnlinkStale(p)
  \/ bind(p) \/ listen(p) \/ AddingFails(p)
  \/ wl_display_destroy(p) \/ UnlinkSocket(p) \/ UnlinkLockFile(p) \/ CloseLockFile(p)
  \/ Crash(p)

SocketsSpec == SocketsInit /\ [][SocketsNext]_socketVars

-----------------------------------------------------------------------------

SocketsTypeOK ==
  /\ lock_file \in [Paths -> Files \cup {NoFile}]
  /\ socket_file \in [Paths -> Servers \cup {Stale, NoFile}]
  /\ \A p \in Servers :
       /\ wl_socket[p].fd_lock \in Files \cup {NoFile}
       /\ wl_socket[p].locked => wl_socket[p].fd_lock # NoFile /\ wl_socket[p].names # << >>
  /\ orphaned \in BOOLEAN

(* "This prevents the wl_socket_destroy from unlinking already existing    *)
(* socket created by other compositor": while a server serves, its name    *)
(* leads to its socket, whoever else tries the name, fails, is killed or   *)
(* goes.                                                                   *)
NameLeadsToItsServer ==
  \A p \in Servers : Reached(p, "serving") => socket_file[Path(p)] = p

(* Nor do the files that killed servers leave behind keep a name taken:    *)
(* who has the lock can bind.                                              *)
LockOpensTheName ==
  \A p \in Servers : Reached(p, "bind") => socket_file[Path(p)] = NoFile

(* Both hold as long as no server locks a file after another has unlinked  *)
(* it, which open() and flock() in two steps let it do: the lock is then   *)
(* on a file that nobody else will open.                                   *)
NamesAreSafe ==
  SocketsTypeOK /\ (~orphaned => NameLeadsToItsServer /\ LockOpensTheName)
=============================================================================
