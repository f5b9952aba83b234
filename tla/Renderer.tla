-------------------------------- MODULE Renderer --------------------------------
(***************************************************************************)
(* The sample compositor (libwayland/src/main/java/org/freedesktop):       *)
(* App.java answers requests on the Wayland thread, LorieRenderer.java and *)
(* GLSurfaceView.java draw on the GL thread.  The Wayland thread reaches   *)
(* the renderer by queueing runnables, which the GL thread runs one at a   *)
(* time, and sometimes waits for one of them.                              *)
(*                                                                         *)
(* A buffer stands for the shared memory of a wl_buffer.  ShmBuffer's      *)
(* getData makes a new ByteBuffer each time, so every attach makes a new   *)
(* view, and views are what the code compares.  View v was made by         *)
(* attach number v.  A texture is valid when it has a view: its width and  *)
(* height go with its data.  Field accesses of the two threads are         *)
(* interleaved one runnable or one statement at a time.                    *)
(***************************************************************************)
EXTENDS Naturals, Sequences, FiniteSets

CONSTANTS Surfaces, Buffers,
          NULL,
          MaxAttach,  \* bound: attach requests in all
          MaxQueue,   \* bound: no request is handled behind so many runnables
          CanClose    \* whether the user may close the window

(* NULL stands for no surface; there are finitely many buffers.            *)
ASSUME RendererAssumption ==
  NULL \notin Surfaces /\ IsFiniteSet(Buffers) /\ MaxAttach \in Nat

Views == 1..MaxAttach

VARIABLES alive,      \* surfaces not destroyed yet
          abandoned,  \* surfaces that went with their client
          data,       \* data[s]: LorieSurface.data
          attached,   \* attached[v]: the buffer and the surface of view v
          committed,  \* surfaces committed since their last attach
          freed,      \* buffers whose memory is gone
          todo,       \* what is left of the handler on the Wayland thread
          queue,      \* mEventQueue
          answered,   \* the flag queueAndWait spins on
          answer,     \* hasToplevel's result
          screen, cursor,  \* the two textures
          requested,  \* mRequestRender
          gl,         \* GL thread: "ready", "drawing" or "gone"
          shown       \* the view last uploaded to the window

surfaceVars == <<alive, abandoned, data, attached, committed, freed>>
textureVars == <<screen, cursor, requested>>
vars == <<surfaceVars, todo, queue, answered, answer, textureVars, gl, shown>>

Texture == [data : Views \cup {NULL}, cookie : Surfaces \cup {NULL}, damaged : BOOLEAN]
NoTexture == [data |-> NULL, cookie |-> NULL, damaged |-> FALSE]
Set(view, cookie) == [data |-> view, cookie |-> cookie, damaged |-> TRUE]
valid(texture) == texture.data # NULL

Init ==
  /\ alive = Surfaces /\ abandoned = {}
  /\ data = [s \in Surfaces |-> NULL]
  /\ attached = <<>> /\ committed = {} /\ freed = {}
  /\ todo = <<>> /\ queue = <<>> /\ answered = FALSE /\ answer = FALSE
  /\ screen = NoTexture /\ cursor = NoTexture /\ requested = TRUE
  /\ gl = "ready" /\ shown = NULL

Runnable(op, view, cookie) == [op |-> op, data |-> view, cookie |-> cookie]
Reinit(view, s)    == Runnable("reinit", view, s)
SetScreen(view, s) == Runnable("screen", view, s)
SetCursor(view, s) == Runnable("cursor", view, s)
Clear(s)           == Runnable("clear", NULL, s)
CommitScreen       == Runnable("commit", NULL, NULL)
Nothing            == Runnable("nothing", NULL, NULL)
AskValid           == Runnable("ask", NULL, NULL)

-----------------------------------------------------------------------------
(* Requests, handled on the Wayland thread one after the other             *)

Idle == todo = <<>> /\ Len(queue) < MaxQueue

(* Faulty: drops a runnable while others wait.                             *)
PostIfEmpty(run) == queue' = IF queue = <<>> THEN <<run>> ELSE queue

Post(run) == queue' = Append(queue, run)

Attach(s, b) ==
  LET v == Len(attached) + 1
  IN  /\ Idle /\ s \in alive /\ b \notin freed
      /\ v <= MaxAttach
      /\ attached' = Append(attached, [buffer |-> b, surface |-> s])
      /\ data' = [data EXCEPT ![s] = v]
      /\ committed' = committed \ {s}
      /\ Post(Reinit(v, s))
      /\ UNCHANGED <<alive, abandoned, freed, todo, answered, answer, textureVars, gl, shown>>

(* attach with a null buffer, or one without shared memory, tells the      *)
(* renderer nothing.                                                       *)
AttachNull(s) ==
  /\ Idle /\ s \in alive /\ data[s] # NULL
  /\ data' = [data EXCEPT ![s] = NULL]
  /\ committed' = committed \ {s}
  /\ UNCHANGED <<alive, abandoned, attached, freed, todo, queue, answered, answer,
                 textureVars, gl, shown>>

Commit(s) ==
  /\ Idle /\ s \in alive
  /\ committed' = committed \cup {s}
  /\ Post(CommitScreen)
  /\ UNCHANGED <<alive, abandoned, data, attached, freed, todo, answered, answer,
                 textureVars, gl, shown>>

(* wl_pointer.set_cursor, with a surface or without.                       *)
SetCursorTo(s) ==
  /\ Idle /\ s \in alive \cup {NULL}
  /\ Post(SetCursor(IF s = NULL THEN NULL ELSE data[s], s))
  /\ UNCHANGED <<surfaceVars, todo, answered, answer, textureVars, gl, shown>>

(* xdg_surface.get_toplevel first asks the renderer whether it has one.    *)
GetToplevel(s) ==
  /\ Idle /\ s \in alive
  /\ Post(AskValid) /\ answered' = FALSE
  /\ todo' = <<[step |-> "wait", arg |-> NULL], [step |-> "grant", arg |-> s]>>
  /\ UNCHANGED <<surfaceVars, answer, textureVars, gl, shown>>

DestroySurface(s) ==
  /\ Idle /\ s \in alive
  /\ alive' = alive \ {s} /\ committed' = committed \ {s}
  /\ Post(Clear(s))
  /\ UNCHANGED <<abandoned, data, attached, freed, todo, answered, answer,
                 textureVars, gl, shown>>

(* The destroy callbacks of buffer b, one for each time it was attached,   *)
(* and then destroy_buffer, which lets go of the memory: the one list of   *)
(* steps this makes, as a set.                                             *)
Destroying(b) ==
  LET views == {v \in DOMAIN attached : attached[v].buffer = b}
      inOrder == {w \in [1..Cardinality(views) -> views] :
                    \A i, j \in DOMAIN w : i < j => w[i] < w[j]}
      check(v) == [step |-> "check", arg |-> attached[v].surface]
  IN  {Append([i \in DOMAIN w |-> check(w[i])], [step |-> "free", arg |-> b]) : w \in inOrder}

DestroyBuffer(b) ==
  /\ Idle /\ b \notin freed
  /\ todo' \in Destroying(b)
  /\ UNCHANGED <<surfaceVars, queue, answered, answer, textureVars, gl, shown>>

BuffersOf(S) ==
  {b \in Buffers \ freed :
     \E v \in DOMAIN attached : attached[v].buffer = b /\ attached[v].surface \in S}

(* wl_client_destroy for the client that has the surfaces S: no request    *)
(* tells the renderer of them, and the buffers are destroyed one by one.   *)
ClientGoes(S) ==
  LET B == BuffersOf(S)
  IN  /\ \A v \in DOMAIN attached :
           attached[v].buffer \in B => attached[v].surface \notin alive \ S
      /\ alive' = alive \ S /\ abandoned' = abandoned \cup S
      /\ committed' = committed \ S
      /\ \E order \in [1..Cardinality(B) -> B] :
           /\ \A b \in B : \E i \in DOMAIN order : order[i] = b
           /\ todo' = [i \in DOMAIN order |-> [step |-> "destroy", arg |-> order[i]]]
      /\ UNCHANGED <<data, attached, freed, queue>>

Disconnect(S) ==
  /\ Idle /\ S # {}
  /\ ClientGoes(S)
  /\ UNCHANGED <<answered, answer, textureVars, gl, shown>>

-----------------------------------------------------------------------------
(* The rest of a handler                                                   *)

AtStep(step) == todo # <<>> /\ Head(todo).step = step

DestroyNext ==
  /\ AtStep("destroy")
  /\ \E steps \in Destroying(Head(todo).arg) : todo' = steps \o Tail(todo)
  /\ UNCHANGED <<surfaceVars, queue, answered, answer, textureVars, gl, shown>>

(* if (renderer.uses(data)) with the data the surface has now.             *)
uses(view) == screen.data = view \/ cursor.data = view

(* ... queueAndWait(nothing), clear, commitScreen                          *)
CheckUse ==
  LET s == Head(todo).arg
  IN  /\ AtStep("check")
      /\ IF uses(data[s])
         THEN /\ Post(Nothing) /\ answered' = FALSE
              /\ todo' = <<[step |-> "wait", arg |-> NULL], [step |-> "clear", arg |-> s],
                           [step |-> "commit", arg |-> NULL]>> \o Tail(todo)
         ELSE todo' = Tail(todo) /\ UNCHANGED <<queue, answered>>
      /\ UNCHANGED <<surfaceVars, answer, textureVars, gl, shown>>

(* Faulty: does not wait.                                                  *)
StopWaitingAtOnce ==
  /\ AtStep("wait")
  /\ todo' = Tail(todo)
  /\ UNCHANGED <<surfaceVars, queue, answered, answer, textureVars, gl, shown>>

StopWaiting ==
  /\ AtStep("wait") /\ answered
  /\ todo' = Tail(todo)
  /\ UNCHANGED <<surfaceVars, queue, answered, answer, textureVars, gl, shown>>

PostClear ==
  /\ AtStep("clear")
  /\ todo' = Tail(todo)
  /\ Post(Clear(Head(todo).arg))
  /\ UNCHANGED <<surfaceVars, answered, answer, textureVars, gl, shown>>

PostCommit ==
  /\ AtStep("commit")
  /\ todo' = Tail(todo)
  /\ Post(CommitScreen)
  /\ UNCHANGED <<surfaceVars, answered, answer, textureVars, gl, shown>>

FreeBuffer ==
  /\ AtStep("free")
  /\ todo' = Tail(todo)
  /\ freed' = freed \cup {Head(todo).arg}
  /\ UNCHANGED <<alive, abandoned, data, attached, committed, queue, answered, answer,
                 textureVars, gl, shown>>

(* The client is refused and disconnected, or its surface becomes the      *)
(* screen.                                                                 *)
GrantToplevel ==
  LET s == Head(todo).arg
  IN  /\ AtStep("grant")
      /\ IF answer
         THEN \E S \in SUBSET alive : s \in S /\ ClientGoes(S)
         ELSE /\ todo' = <<[step |-> "commit", arg |-> NULL]>>
              /\ Post(SetScreen(data[s], s))
              /\ UNCHANGED surfaceVars
      /\ UNCHANGED <<answered, answer, textureVars, gl, shown>>

HandlerStep ==
  DestroyNext \/ CheckUse \/ StopWaiting \/ PostClear \/ PostCommit \/ FreeBuffer
  \/ GrantToplevel

-----------------------------------------------------------------------------
(* The GL thread                                                           *)

(* Faulty: draws the old buffer again.                                     *)
ReinitialisedWithOld(texture, r) ==
  IF texture.cookie = r.cookie THEN [texture EXCEPT !.damaged = TRUE] ELSE texture

Reinitialised(texture, r) ==
  IF texture.cookie = r.cookie THEN Set(r.data, r.cookie) ELSE texture

Cleared(texture, r) ==
  IF texture.cookie = r.cookie THEN Set(NULL, NULL) ELSE texture

ScreenAfter(r) ==
  CASE r.op = "reinit" -> Reinitialised(screen, r)
    [] r.op = "clear"  -> Cleared(screen, r)
    [] r.op = "screen" -> Set(r.data, r.cookie)
    [] r.op = "commit" -> [screen EXCEPT !.damaged = TRUE]
    [] OTHER           -> screen

CursorAfter(r) ==
  CASE r.op = "reinit" -> Reinitialised(cursor, r)
    [] r.op = "clear"  -> Cleared(cursor, r)
    [] r.op = "cursor" -> Set(r.data, r.cookie)
    [] OTHER           -> cursor

(* Runnables go before drawing.                                            *)
RunEvent ==
  LET r == Head(queue)
  IN  /\ gl = "ready" /\ queue # <<>>
      /\ queue' = Tail(queue)
      /\ screen' = ScreenAfter(r) /\ cursor' = CursorAfter(r)
      /\ requested' = (requested \/ r.op = "commit")
      /\ answer' = IF r.op = "ask" THEN valid(screen) ELSE answer
      /\ answered' = (answered \/ r.op \in {"ask", "nothing"})
      /\ UNCHANGED <<surfaceVars, todo, gl, shown>>

(* A change of the window's size, noticed on the way, reinitialises both   *)
(* textures.  Only the screen is drawn: the cursor is never made visible.  *)
StartDrawing ==
  /\ gl = "ready" /\ queue = <<>> /\ requested
  /\ gl' = "drawing"
  /\ \E resized \in BOOLEAN :
       /\ screen' = [screen EXCEPT !.damaged = @ \/ resized]
       /\ cursor' = [cursor EXCEPT !.damaged = @ \/ resized]
  /\ UNCHANGED <<surfaceVars, todo, queue, answered, answer, requested, shown>>

Uploading == gl = "drawing" /\ valid(screen) /\ screen.damaged

FinishDrawing ==
  /\ gl = "drawing"
  /\ gl' = "ready"
  /\ screen' = [screen EXCEPT !.damaged = @ /\ ~valid(screen)]
  /\ shown' = IF Uploading \/ ~valid(screen) THEN screen.data ELSE shown
  /\ requested' = FALSE
  /\ UNCHANGED <<surfaceVars, todo, queue, answered, answer, cursor>>

(* The escape key: the thread ends and leaves its queue as it is.          *)
CloseWindow ==
  /\ CanClose /\ gl = "ready"
  /\ gl' = "gone"
  /\ UNCHANGED <<surfaceVars, todo, queue, answered, answer, textureVars, shown>>

-----------------------------------------------------------------------------

Request ==
  \/ \E s \in Surfaces : \/ \E b \in Buffers : Attach(s, b)
                         \/ AttachNull(s) \/ Commit(s) \/ GetToplevel(s) \/ DestroySurface(s)
  \/ \E s \in Surfaces \cup {NULL} : SetCursorTo(s)
  \/ \E b \in Buffers : DestroyBuffer(b)
  \/ \E S \in SUBSET alive : Disconnect(S)

Next == Request \/ HandlerStep \/ RunEvent \/ StartDrawing \/ FinishDrawing \/ CloseWindow

Spec == Init /\ [][Next]_vars

(* Both threads run; clients need not send anything.  SF: between bursts   *)
(* of runnables the GL thread gets to look at an empty queue.              *)
Fairness ==
  /\ WF_vars(HandlerStep)
  /\ WF_vars(RunEvent) /\ SF_vars(StartDrawing) /\ WF_vars(FinishDrawing)

FairSpec == Spec /\ Fairness

-----------------------------------------------------------------------------

TypeOK ==
  /\ {alive, abandoned, committed} \subseteq SUBSET Surfaces /\ freed \subseteq Buffers
  /\ data \in [Surfaces -> Views \cup {NULL}]
  /\ attached \in Seq([buffer : Buffers, surface : Surfaces])
  /\ screen \in Texture /\ cursor \in Texture
  /\ answered \in BOOLEAN /\ answer \in BOOLEAN /\ requested \in BOOLEAN
  /\ gl \in {"ready", "drawing", "gone"}
  /\ shown \in Views \cup {NULL}

(* Nothing is under way on either thread.                                  *)
Quiet == todo = <<>> /\ queue = <<>> /\ gl = "ready"

(* When the runnables have been run, neither texture belongs to a surface  *)
(* that its client destroyed, and one of a living surface has the buffer   *)
(* attached to it last, whatever attach, set_cursor, get_toplevel and      *)
(* destroy requests came in between (LorieRenderer.java:102).              *)
TexturesFollowSurfaces ==
  /\ TypeOK
  /\ Quiet => \A t \in {screen, cursor} :
       /\ t.cookie \in alive \cup abandoned \cup {NULL}
       /\ t.cookie \in alive /\ valid(t) /\ data[t.cookie] # NULL => t.data = data[t.cookie]

(* What hasToplevel found on the other thread is still so when the         *)
(* toplevel is granted or refused.                                         *)
AnswerStillHolds == AtStep("grant") => answer = valid(screen)

(* "App will segfault if server free pixmap while renderer still wants to  *)
(* draw it or draws it at the moment.  So we simply wait for the moment    *)
(* renderer finished drawings" (App.java): the memory of a buffer is not   *)
(* let go of while the renderer reads it.                                  *)
NoDrawOfFreedBuffer == Uploading => attached[screen.data].buffer \notin freed

(* queueAndWait returns: the runnable behind the flag is run in the end.   *)
WaitReturns == AtStep("wait") ~> ~AtStep("wait")

(* What is committed to the screen is drawn, unless it changes first, as   *)
(* long as the GL thread catches up with its queue again and again:        *)
(* runnables go first, and an endless stream of them starves drawing.      *)
CommitIsDrawn ==
  []<>(queue = <<>>) =>
    \A s \in Surfaces, v \in Views :
      (screen.cookie = s /\ data[s] = v /\ s \in committed)
        ~> (shown = v \/ screen.cookie # s \/ data[s] # v \/ s \notin committed)
=============================================================================
