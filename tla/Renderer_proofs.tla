---------------------------- MODULE Renderer_proofs ----------------------------
(***************************************************************************)
(* Proofs about Renderer, for any surfaces, any finite set of buffers and  *)
(* any number of attach requests and of runnables in the queue.            *)
(*                                                                         *)
(* The runnables are run in the order they were queued in.  So a texture   *)
(* or a runnable that is out of date does no harm as long as the runnable  *)
(* that corrects it is further back in the queue; when the queue is empty  *)
(* nothing is left to correct.  And a thread that waits for a runnable     *)
(* waits for the last one: nothing is queued behind it until it has run.   *)
(***************************************************************************)
EXTENDS Renderer, SequenceTheorems, FiniteSetTheorems, TLAPS

Steps == [step : {"destroy", "check", "wait", "clear", "commit", "free", "grant"},
          arg : Surfaces \cup Buffers \cup {NULL}]

StepSound(e) ==
  /\ e \in Steps
  /\ e.step \in {"check", "clear", "grant"} => e.arg \in Surfaces
  /\ e.step \in {"destroy", "free"} => e.arg \in Buffers

SoundSteps == {e \in Steps : StepSound(e)}

Runnables == [op : {"reinit", "screen", "cursor", "clear", "commit", "nothing", "ask"},
              data : Views \cup {NULL}, cookie : Surfaces \cup {NULL}]

Types == TypeOK /\ todo \in Seq(SoundSteps) /\ queue \in Seq(Runnables)

(* Runnable r is behind place i of the queue q.                            *)
Behind(q, i, r) == \E j \in DOMAIN q : j > i /\ q[j] = r

(* What e shows of its surface is the buffer attached last, or is          *)
(* corrected by a runnable behind place i.                                 *)
Current(i, e) ==
  e.cookie \in alive /\ data[e.cookie] # NULL =>
    e.data = data[e.cookie] \/ Behind(queue, i, Reinit(data[e.cookie], e.cookie))

(* The surfaces that their client destroyed.                               *)
Destroyed == Surfaces \ (alive \cup abandoned)

Dropped(i, e) == e.cookie \in Destroyed => Behind(queue, i, Clear(e.cookie))

ShowsData ==
  /\ Current(0, screen) /\ Current(0, cursor)
  /\ \A i \in DOMAIN queue :
       queue[i].op \in {"reinit", "screen", "cursor"} => Current(i, queue[i])

Forgotten ==
  /\ Dropped(0, screen) /\ Dropped(0, cursor)
  /\ \A i \in DOMAIN queue :
       queue[i].op \in {"screen", "cursor"} => Dropped(i, queue[i])

(* Only the last runnable of the queue can be one that is waited for.      *)
WaitedForIsLast ==
  \A i \in DOMAIN queue :
    queue[i].op \in {"ask", "nothing"} => i = Len(queue) /\ AtStep("wait") /\ ~answered

Granting == \E i \in DOMAIN todo : todo[i].step = "grant"

GrantIsLast ==
  \A i \in DOMAIN todo : todo[i].step = "grant" =>
    /\ todo[i].arg \in alive
    /\ \/ i = 1 /\ Len(todo) = 1 /\ answered
       \/ i = 2 /\ Len(todo) = 2 /\ todo[1].step = "wait"

(* get_toplevel waits for the renderer's answer and for nothing else, and  *)
(* nothing touches the screen after it.                                    *)
AnswerIsFresh ==
  Granting => /\ answered => queue = << >> /\ answer = valid(screen)
              /\ \A i \in DOMAIN queue : queue[i].op # "nothing"

WaitInv == WaitedForIsLast /\ GrantIsLast /\ AnswerIsFresh

RendererInv == Types /\ ShowsData /\ Forgotten /\ WaitInv

-----------------------------------------------------------------------------
(* Sequences                                                               *)

LEMMA TailPlaces ==
  ASSUME NEW S, NEW q \in Seq(S), q # << >>
  PROVE  /\ Tail(q) \in Seq(S) /\ Len(Tail(q)) = Len(q) - 1
         /\ 1 \in DOMAIN q /\ Head(q) = q[1] /\ Head(q) \in S
         /\ \A i \in DOMAIN Tail(q) : i + 1 \in DOMAIN q /\ Tail(q)[i] = q[i + 1]
         /\ \A i \in DOMAIN q : i > 1 => i - 1 \in DOMAIN Tail(q) /\ Tail(q)[i - 1] = q[i]
<1>1. Tail(q) \in Seq(S) /\ Len(Tail(q)) = Len(q) - 1 /\ Head(q) \in S
      /\ \A i \in 1..Len(Tail(q)) : Tail(q)[i] = q[i + 1]
  BY HeadTailProperties
<1>2. Len(q) \in Nat \ {0} /\ DOMAIN q = 1..Len(q) /\ DOMAIN Tail(q) = 1..(Len(q) - 1)
  BY <1>1, LenProperties, EmptySeq
<1>3. Head(q) = q[1]
  OBVIOUS
<1>4. ASSUME NEW i \in 1..Len(q), i > 1
      PROVE  i - 1 \in 1..(Len(q) - 1) /\ Tail(q)[i - 1] = q[i]
  <2>1. i - 1 \in 1..(Len(q) - 1) /\ (i - 1) + 1 = i
    BY <1>2, <1>4
  <2>2. Tail(q)[i - 1] = q[(i - 1) + 1]
    BY <1>1, <1>2, <2>1
  <2>3. QED
    BY <2>1, <2>2
<1>5. \A i \in 1..(Len(q) - 1) : i + 1 \in 1..Len(q)
  BY <1>2
<1>6. 1 \in 1..Len(q)
  BY <1>2
<1>7. QED
  BY <1>1, <1>2, <1>3, <1>4, <1>5, <1>6

LEMMA AppendPlaces ==
  ASSUME NEW S, NEW q \in Seq(S), NEW e \in S
  PROVE  /\ Append(q, e) \in Seq(S) /\ Len(Append(q, e)) = Len(q) + 1
         /\ DOMAIN q = 1..Len(q) /\ Len(q) \in Nat
         /\ DOMAIN Append(q, e) = 1..(Len(q) + 1)
         /\ \A i \in DOMAIN q : i \in DOMAIN Append(q, e) /\ Append(q, e)[i] = q[i]
         /\ Append(q, e)[Len(q) + 1] = e
         /\ \A i \in DOMAIN Append(q, e) : i \in DOMAIN q \/ i = Len(q) + 1
<1>1. Append(q, e) \in Seq(S) /\ Len(Append(q, e)) = Len(q) + 1
      /\ \A i \in 1..Len(q) : Append(q, e)[i] = q[i]
      /\ Append(q, e)[Len(q) + 1] = e
  BY AppendProperties
<1>2. Len(q) \in Nat /\ DOMAIN q = 1..Len(q) /\ DOMAIN Append(q, e) = 1..(Len(q) + 1)
  BY <1>1, LenProperties
<1>3. QED
  BY <1>1, <1>2

(* What is behind a place stays behind it when a runnable is queued.       *)
LEMMA QueuedStayBehind ==
  ASSUME NEW S, NEW q \in Seq(S), NEW e \in S, NEW i, NEW r, Behind(q, i, r)
  PROVE  Behind(Append(q, e), i, r)
BY AppendPlaces DEF Behind

LEMMA LastIsBehind ==
  ASSUME NEW S, NEW q \in Seq(S), NEW e \in S, NEW i \in 0..Len(q)
  PROVE  Behind(Append(q, e), i, e)
<1>1. Len(q) + 1 > i /\ Len(q) + 1 \in DOMAIN Append(q, e) /\ Append(q, e)[Len(q) + 1] = e
  BY AppendPlaces, LenProperties
<1>2. QED
  BY <1>1 DEF Behind

(* The queue moves up when its first runnable is run.                      *)
LEMMA MoveUp ==
  ASSUME NEW S, NEW q \in Seq(S), q # << >>, NEW i \in DOMAIN q, NEW r, Behind(q, i, r)
  PROVE  Behind(Tail(q), i - 1, r)
<1>1. PICK j \in DOMAIN q : j > i /\ q[j] = r
  BY DEF Behind
<1>2. DOMAIN q = 1..Len(q) /\ Len(q) \in Nat
  BY LenProperties
<1>3. j > 1 /\ j - 1 > i - 1
  BY <1>1, <1>2
<1>4. j - 1 \in DOMAIN Tail(q) /\ Tail(q)[j - 1] = r
  BY <1>1, <1>3, TailPlaces
<1>5. QED
  BY <1>3, <1>4 DEF Behind

LEMMA FirstOrBehind ==
  ASSUME NEW S, NEW q \in Seq(S), q # << >>, NEW r, Behind(q, 0, r)
  PROVE  Head(q) = r \/ Behind(Tail(q), 0, r)
<1>1. PICK j \in DOMAIN q : j > 0 /\ q[j] = r
  BY DEF Behind
<1>2. DOMAIN q = 1..Len(q) /\ Len(q) \in Nat
  BY LenProperties
<1>3. CASE j = 1
  BY <1>1, <1>3, TailPlaces
<1>4. CASE j > 1
  <2>1. j - 1 \in DOMAIN Tail(q) /\ Tail(q)[j - 1] = r /\ j - 1 > 0
    BY <1>1, <1>2, <1>4, TailPlaces
  <2>2. QED
    BY <2>1 DEF Behind
<1>5. QED
  BY <1>1, <1>2, <1>3, <1>4

LEMMA NothingBehind ==
  ASSUME NEW i, NEW r
  PROVE  ~Behind(<< >>, i, r)
BY DEF Behind

-----------------------------------------------------------------------------
(* The rest of a handler: its steps                                        *)

NoGrants == {e \in SoundSteps : e.step # "grant"}

LEMMA NoGrantsAreSound == Seq(NoGrants) \subseteq Seq(SoundSteps)
<1>1. NoGrants \subseteq SoundSteps
  BY DEF NoGrants
<1>2. QED
  BY <1>1, SeqMonotonic

LEMMA StepIsSound ==
  ASSUME NEW step \in {"destroy", "check", "wait", "clear", "commit", "free"},
         NEW arg \in Surfaces \cup Buffers \cup {NULL},
         step \in {"check", "clear"} => arg \in Surfaces,
         step \in {"destroy", "free"} => arg \in Buffers
  PROVE  [step |-> step, arg |-> arg] \in NoGrants
BY DEF NoGrants, SoundSteps, StepSound, Steps

LEMMA DestroyingSteps ==
  ASSUME Types, NEW b \in Buffers, NEW steps \in Destroying(b)
  PROVE  steps \in Seq(NoGrants)
<1> DEFINE views == {v \in DOMAIN attached : attached[v].buffer = b}
           inOrder == {w \in [1..Cardinality(views) -> views] :
                         \A i, j \in DOMAIN w : i < j => w[i] < w[j]}
           check(v) == [step |-> "check", arg |-> attached[v].surface]
           free == [step |-> "free", arg |-> b]
<1>1. attached \in Seq([buffer : Buffers, surface : Surfaces])
  BY DEF Types, TypeOK
<1>2. DOMAIN attached = 1..Len(attached) /\ Len(attached) \in Nat
  BY <1>1, LenProperties
<1>3. IsFiniteSet(1..Len(attached))
  BY <1>2, FS_Interval
<1>4. Cardinality(views) \in Nat
  BY <1>2, <1>3, FS_Subset, FS_CardinalityType
<1>5. PICK w \in inOrder : steps = Append([i \in DOMAIN w |-> check(w[i])], free)
  BY DEF Destroying
<1>6. DOMAIN w = 1..Cardinality(views) /\ \A i \in DOMAIN w : w[i] \in DOMAIN attached
  OBVIOUS
<1>7. \A v \in DOMAIN attached : check(v) \in NoGrants
  <2>1. \A v \in 1..Len(attached) : attached[v] \in [buffer : Buffers, surface : Surfaces]
    BY <1>1, ElementOfSeq
  <2>2. \A v \in DOMAIN attached : attached[v].surface \in Surfaces
    BY <1>2, <2>1
  <2>3. QED
    BY <2>2, StepIsSound
<1>8. free \in NoGrants
  BY StepIsSound
<1> HIDE DEF views, inOrder, check, free
<1>9. [i \in 1..Cardinality(views) |-> check(w[i])] \in Seq(NoGrants)
  BY <1>4, <1>6, <1>7, IsASeq
<1>10. QED
  BY <1>5, <1>6, <1>8, <1>9, AppendProperties

LEMMA ClientGoesSteps ==
  ASSUME NEW S, ClientGoes(S)
  PROVE  todo' \in Seq(NoGrants)
<1>1. BuffersOf(S) \subseteq Buffers
  BY DEF BuffersOf
<1>2. Cardinality(BuffersOf(S)) \in Nat
  BY <1>1, RendererAssumption, FS_Subset, FS_CardinalityType
<1>3. PICK order \in [1..Cardinality(BuffersOf(S)) -> BuffersOf(S)] :
         todo' = [i \in DOMAIN order |-> [step |-> "destroy", arg |-> order[i]]]
  BY DEF ClientGoes
<1>4. \A i \in 1..Cardinality(BuffersOf(S)) :
        [step |-> "destroy", arg |-> order[i]] \in NoGrants
  BY <1>1, <1>3, StepIsSound
<1>5. [i \in 1..Cardinality(BuffersOf(S)) |-> [step |-> "destroy", arg |-> order[i]]]
        \in Seq(NoGrants)
  BY <1>2, <1>4, IsASeq
<1>6. QED
  BY <1>3, <1>5

(* Only the wait for the renderer's answer comes before a grant.           *)
LEMMA NoGrantAhead ==
  ASSUME Types, GrantIsLast, todo # << >>, Head(todo).step \notin {"wait", "grant"}
  PROVE  todo \in Seq(NoGrants) /\ Tail(todo) \in Seq(NoGrants)
<1>1. todo \in Seq(SoundSteps) /\ DOMAIN todo = 1..Len(todo) /\ Len(todo) \in Nat
  BY LenProperties DEF Types
<1>2. Head(todo) = todo[1]
  BY <1>1, TailPlaces
<1>3. \A i \in 1..Len(todo) : todo[i] \in NoGrants
  BY <1>1, <1>2, ElementOfSeq DEF GrantIsLast, NoGrants
<1>4. todo \in [1..Len(todo) -> NoGrants]
  BY <1>1, <1>3
<1>5. todo \in Seq(NoGrants)
  BY <1>1, <1>4
<1>6. QED
  BY <1>5, HeadTailProperties

-----------------------------------------------------------------------------
(* Types                                                                   *)

LEMMA RunnableIsSound ==
  ASSUME NEW op \in {"reinit", "screen", "cursor", "clear", "commit", "nothing", "ask"},
         NEW view \in Views \cup {NULL}, NEW cookie \in Surfaces \cup {NULL}
  PROVE  Runnable(op, view, cookie) \in Runnables
BY DEF Runnable, Runnables

LEMMA PostKeepsTypes ==
  ASSUME Types, NEW r \in Runnables, Post(r)
  PROVE  queue' \in Seq(Runnables)
BY AppendProperties DEF Types, Post

(* What the first step of the rest of a handler is about.                  *)
LEMMA HeadStep ==
  ASSUME Types, todo # << >>
  PROVE  /\ StepSound(Head(todo)) /\ Tail(todo) \in Seq(SoundSteps)
         /\ Head(todo).step \in {"check", "clear", "grant"} => Head(todo).arg \in Surfaces
         /\ Head(todo).step \in {"destroy", "free"} => Head(todo).arg \in Buffers
<1>1. Head(todo) \in SoundSteps /\ Tail(todo) \in Seq(SoundSteps)
  BY HeadTailProperties DEF Types
<1>2. QED
  BY <1>1 DEF SoundSteps, StepSound

LEMMA InitTypes == Init => Types
<1> SUFFICES ASSUME Init PROVE Types
  OBVIOUS
<1>1. NoTexture \in Texture
  BY DEF NoTexture, Texture
<1>2. TypeOK
  BY <1>1, EmptySeq DEF Init, TypeOK
<1>3. QED
  BY <1>2, EmptySeq DEF Init, Types

LEMMA ClientGoesTypes ==
  ASSUME Types, NEW S \in SUBSET alive, ClientGoes(S),
         UNCHANGED <<answered, answer, textureVars, gl, shown>>
  PROVE  Types'
<1>1. todo' \in Seq(SoundSteps)
  BY ClientGoesSteps, NoGrantsAreSound
<1>2. TypeOK'
  BY DEF Types, TypeOK, ClientGoes, textureVars
<1>3. queue' \in Seq(Runnables)
  BY DEF Types, ClientGoes
<1>4. QED
  BY <1>1, <1>2, <1>3 DEF Types

LEMMA RequestTypes == Types /\ Request => Types'
<1> SUFFICES ASSUME Types, Request PROVE Types'
  OBVIOUS
<1>1. ASSUME NEW s \in Surfaces, NEW b \in Buffers, Attach(s, b) PROVE Types'
  <2> DEFINE v == Len(attached) + 1
  <2>1. attached \in Seq([buffer : Buffers, surface : Surfaces]) /\ Len(attached) \in Nat
    BY LenProperties DEF Types, TypeOK
  <2>2. v \in Views
    BY <1>1, <2>1, RendererAssumption DEF Attach, Views
  <2>3. attached' \in Seq([buffer : Buffers, surface : Surfaces])
    BY <1>1, <2>1, AppendProperties DEF Attach
  <2>4. data' \in [Surfaces -> Views \cup {NULL}]
    BY <1>1, <2>2 DEF Attach, Types, TypeOK
  <2>5. Reinit(v, s) \in Runnables
    BY <2>2, RunnableIsSound DEF Reinit
  <2>6. queue' \in Seq(Runnables)
    BY <1>1, <2>5, PostKeepsTypes DEF Attach
  <2>7. TypeOK'
    BY <1>1, <2>3, <2>4 DEF Attach, Types, TypeOK, textureVars
  <2>8. QED
    BY <1>1, <2>6, <2>7 DEF Attach, Types
<1>2. ASSUME NEW s \in Surfaces, AttachNull(s) PROVE Types'
  BY <1>2 DEF AttachNull, Types, TypeOK, textureVars
<1>3. ASSUME NEW s \in Surfaces, Commit(s) PROVE Types'
  <2>1. CommitScreen \in Runnables
    BY RunnableIsSound DEF CommitScreen
  <2>2. queue' \in Seq(Runnables)
    BY <1>3, <2>1, PostKeepsTypes DEF Commit
  <2>3. QED
    BY <1>3, <2>2 DEF Commit, Types, TypeOK, textureVars
<1>4. ASSUME NEW s \in Surfaces, GetToplevel(s) PROVE Types'
  <2>1. AskValid \in Runnables
    BY RunnableIsSound DEF AskValid
  <2>2. queue' \in Seq(Runnables)
    BY <1>4, <2>1, PostKeepsTypes DEF GetToplevel
  <2>3. [step |-> "wait", arg |-> NULL] \in SoundSteps
        /\ [step |-> "grant", arg |-> s] \in SoundSteps
    BY DEF SoundSteps, StepSound, Steps
  <2>4. todo' \in Seq(SoundSteps)
    BY <1>4, <2>3 DEF GetToplevel
  <2>5. QED
    BY <1>4, <2>2, <2>4 DEF GetToplevel, Types, TypeOK, textureVars, surfaceVars
<1>5. ASSUME NEW s \in Surfaces, DestroySurface(s) PROVE Types'
  <2>1. Clear(s) \in Runnables
    BY RunnableIsSound DEF Clear
  <2>2. queue' \in Seq(Runnables)
    BY <1>5, <2>1, PostKeepsTypes DEF DestroySurface
  <2>3. QED
    BY <1>5, <2>2 DEF DestroySurface, Types, TypeOK, textureVars
<1>6. ASSUME NEW s \in Surfaces \cup {NULL}, SetCursorTo(s) PROVE Types'
  <2>1. (IF s = NULL THEN NULL ELSE data[s]) \in Views \cup {NULL}
    BY DEF Types, TypeOK
  <2>2. SetCursor(IF s = NULL THEN NULL ELSE data[s], s) \in Runnables
    BY <2>1, RunnableIsSound DEF SetCursor
  <2>3. queue' \in Seq(Runnables)
    BY <1>6, <2>2, PostKeepsTypes DEF SetCursorTo
  <2>4. QED
    BY <1>6, <2>3 DEF SetCursorTo, Types, TypeOK, textureVars, surfaceVars
<1>7. ASSUME NEW b \in Buffers, DestroyBuffer(b) PROVE Types'
  <2>1. todo' \in Seq(SoundSteps)
    BY <1>7, DestroyingSteps, NoGrantsAreSound DEF DestroyBuffer
  <2>2. QED
    BY <1>7, <2>1 DEF DestroyBuffer, Types, TypeOK, textureVars, surfaceVars
<1>8. ASSUME NEW S \in SUBSET alive, Disconnect(S) PROVE Types'
  BY <1>8, ClientGoesTypes DEF Disconnect
<1>9. QED
  BY <1>1, <1>2, <1>3, <1>4, <1>5, <1>6, <1>7, <1>8 DEF Request

LEMMA HandlerTypes == Types /\ HandlerStep => Types'
<1> SUFFICES ASSUME Types, HandlerStep PROVE Types'
  OBVIOUS
<1>0. todo # << >> /\ Tail(todo) \in Seq(SoundSteps)
  <2>1. todo # << >>
    BY DEF HandlerStep, DestroyNext, CheckUse, StopWaiting, PostClear, PostCommit, FreeBuffer,
           GrantToplevel, AtStep
  <2>2. QED
    BY <2>1, HeadStep
<1>1. CASE DestroyNext
  <2>1. PICK steps \in Destroying(Head(todo).arg) : todo' = steps \o Tail(todo)
    BY <1>1 DEF DestroyNext
  <2>2. Head(todo).arg \in Buffers
    BY <1>1, HeadStep DEF DestroyNext, AtStep
  <2>3. steps \in Seq(SoundSteps)
    BY <2>1, <2>2, DestroyingSteps, NoGrantsAreSound
  <2>4. todo' \in Seq(SoundSteps)
    BY <1>0, <2>1, <2>3, ConcatProperties
  <2>5. QED
    BY <1>1, <2>4 DEF DestroyNext, Types, TypeOK, surfaceVars, textureVars
<1>2. CASE CheckUse
  <2>1. Head(todo).arg \in Surfaces
    BY <1>2, HeadStep DEF CheckUse, AtStep
  <2>2. CASE todo' = Tail(todo) /\ UNCHANGED <<queue, answered>>
    BY <1>0, <1>2, <2>2 DEF CheckUse, Types, TypeOK, surfaceVars, textureVars
  <2>3. CASE /\ Post(Nothing) /\ answered' = FALSE
             /\ todo' = <<[step |-> "wait", arg |-> NULL],
                          [step |-> "clear", arg |-> Head(todo).arg],
                          [step |-> "commit", arg |-> NULL]>> \o Tail(todo)
    <3>1. Nothing \in Runnables
      BY RunnableIsSound DEF Nothing
    <3>2. queue' \in Seq(Runnables)
      BY <2>3, <3>1, PostKeepsTypes
    <3>3. /\ [step |-> "wait", arg |-> NULL] \in NoGrants
          /\ [step |-> "clear", arg |-> Head(todo).arg] \in NoGrants
          /\ [step |-> "commit", arg |-> NULL] \in NoGrants
      BY <2>1, StepIsSound
    <3>4. <<[step |-> "wait", arg |-> NULL], [step |-> "clear", arg |-> Head(todo).arg],
            [step |-> "commit", arg |-> NULL]>> \in Seq(NoGrants)
      BY <3>3
    <3>5. todo' \in Seq(SoundSteps)
      BY <1>0, <2>3, <3>4, NoGrantsAreSound, ConcatProperties
    <3>6. QED
      BY <1>2, <2>3, <3>2, <3>5 DEF CheckUse, Types, TypeOK, surfaceVars, textureVars
  <2>4. QED
    BY <1>2, <2>2, <2>3, Zenon DEF CheckUse
<1>3. CASE StopWaiting
  BY <1>0, <1>3 DEF StopWaiting, Types, TypeOK, surfaceVars, textureVars
<1>4. CASE PostClear
  <2>1. Head(todo).arg \in Surfaces
    BY <1>4, HeadStep DEF PostClear, AtStep
  <2>2. Clear(Head(todo).arg) \in Runnables
    BY <2>1, RunnableIsSound DEF Clear
  <2>3. queue' \in Seq(Runnables)
    BY <1>4, <2>2, PostKeepsTypes DEF PostClear
  <2>4. QED
    BY <1>0, <1>4, <2>3 DEF PostClear, Types, TypeOK, surfaceVars, textureVars
<1>5. CASE PostCommit
  <2>1. CommitScreen \in Runnables
    BY RunnableIsSound DEF CommitScreen
  <2>2. queue' \in Seq(Runnables)
    BY <1>5, <2>1, PostKeepsTypes DEF PostCommit
  <2>3. QED
    BY <1>0, <1>5, <2>2 DEF PostCommit, Types, TypeOK, surfaceVars, textureVars
<1>6. CASE FreeBuffer
  <2>1. Head(todo).arg \in Buffers
    BY <1>6, HeadStep DEF FreeBuffer, AtStep
  <2>2. QED
    BY <1>0, <1>6, <2>1 DEF FreeBuffer, Types, TypeOK, textureVars
<1>7. CASE GrantToplevel
  <2>1. Head(todo).arg \in Surfaces
    BY <1>7, HeadStep DEF GrantToplevel, AtStep
  <2>2. CASE \E S \in SUBSET alive : Head(todo).arg \in S /\ ClientGoes(S)
    BY <1>7, <2>2, ClientGoesTypes DEF GrantToplevel
  <2>3. CASE /\ todo' = <<[step |-> "commit", arg |-> NULL]>>
             /\ Post(SetScreen(data[Head(todo).arg], Head(todo).arg))
             /\ UNCHANGED surfaceVars
    <3>1. data[Head(todo).arg] \in Views \cup {NULL}
      BY <2>1 DEF Types, TypeOK
    <3>2. SetScreen(data[Head(todo).arg], Head(todo).arg) \in Runnables
      BY <2>1, <3>1, RunnableIsSound DEF SetScreen
    <3>3. queue' \in Seq(Runnables)
      BY <2>3, <3>2, PostKeepsTypes
    <3>4. [step |-> "commit", arg |-> NULL] \in SoundSteps
      BY StepIsSound DEF NoGrants
    <3>5. todo' \in Seq(SoundSteps)
      BY <2>3, <3>4
    <3>6. QED
      BY <1>7, <2>3, <3>3, <3>5 DEF GrantToplevel, Types, TypeOK, surfaceVars, textureVars
  <2>4. QED
    BY <1>7, <2>2, <2>3, Zenon DEF GrantToplevel
<1>8. QED
  BY <1>1, <1>2, <1>3, <1>4, <1>5, <1>6, <1>7 DEF HandlerStep

(* A runnable that is run leaves textures.                                 *)
LEMMA TexturesAfter ==
  ASSUME Types, NEW r \in Runnables
  PROVE  ScreenAfter(r) \in Texture /\ CursorAfter(r) \in Texture
<1>1. screen \in Texture /\ cursor \in Texture
  BY DEF Types, TypeOK
<1>2. Set(r.data, r.cookie) \in Texture /\ Set(NULL, NULL) \in Texture
  BY DEF Runnables, Set, Texture
<1>3. \A t \in Texture : /\ Reinitialised(t, r) \in Texture /\ Cleared(t, r) \in Texture
                         /\ [t EXCEPT !.damaged = TRUE] \in Texture
  BY <1>2 DEF Reinitialised, Cleared, Texture
<1>4. QED
  BY <1>1, <1>2, <1>3 DEF ScreenAfter, CursorAfter

LEMMA GLTypes ==
  Types /\ (RunEvent \/ StartDrawing \/ FinishDrawing \/ CloseWindow) => Types'
<1> SUFFICES ASSUME Types, RunEvent \/ StartDrawing \/ FinishDrawing \/ CloseWindow
             PROVE  Types'
  OBVIOUS
<1>1. CASE RunEvent
  <2>1. Head(queue) \in Runnables /\ Tail(queue) \in Seq(Runnables)
    BY <1>1, HeadTailProperties DEF RunEvent, Types
  <2>2. screen' \in Texture /\ cursor' \in Texture
    BY <1>1, <2>1, TexturesAfter DEF RunEvent
  <2>3. answered' \in BOOLEAN /\ answer' \in BOOLEAN /\ requested' \in BOOLEAN
    <3>1. valid(screen) \in BOOLEAN /\ answer \in BOOLEAN
      BY DEF valid, Types, TypeOK
    <3>2. answer' = valid(screen) \/ answer' = answer
      BY <1>1, Zenon DEF RunEvent
    <3>3. answered' \in BOOLEAN /\ requested' \in BOOLEAN
      BY <1>1, Zenon DEF RunEvent
    <3>4. QED
      BY <3>1, <3>2, <3>3, Zenon
  <2>4. QED
    BY <1>1, <2>1, <2>2, <2>3 DEF RunEvent, Types, TypeOK, surfaceVars
<1>2. CASE StartDrawing
  <2>1. screen' \in Texture /\ cursor' \in Texture
    BY <1>2 DEF StartDrawing, Texture, Types, TypeOK
  <2>2. QED
    BY <1>2, <2>1 DEF StartDrawing, Types, TypeOK, surfaceVars
<1>3. CASE FinishDrawing
  <2>1. screen' \in Texture
    BY <1>3 DEF FinishDrawing, Texture, Types, TypeOK, valid
  <2>2. shown' \in Views \cup {NULL}
    BY <1>3 DEF FinishDrawing, Texture, Types, TypeOK
  <2>3. QED
    BY <1>3, <2>1, <2>2 DEF FinishDrawing, Types, TypeOK, surfaceVars
<1>4. CASE CloseWindow
  BY <1>4 DEF CloseWindow, Types, TypeOK, surfaceVars, textureVars
<1>5. QED
  BY <1>1, <1>2, <1>3, <1>4

-----------------------------------------------------------------------------
(* Out-of-date textures and runnables are corrected                        *)

SameContents == /\ screen'.data = screen.data /\ screen'.cookie = screen.cookie
                /\ cursor'.data = cursor.data /\ cursor'.cookie = cursor.cookie

(* A step that queues nothing, reveals no surface and no data.             *)
LEMMA NothingQueued ==
  ASSUME ShowsData, Forgotten, queue' = queue, SameContents,
         alive' \subseteq alive, Destroyed' \subseteq Destroyed,
         \A s \in alive' : data'[s] \in {data[s], NULL}
  PROVE  ShowsData' /\ Forgotten'
<1>1. Current(0, screen)' /\ Current(0, cursor)'
  BY DEF ShowsData, Current, SameContents
<1>2. ASSUME NEW i \in DOMAIN queue', queue'[i].op \in {"reinit", "screen", "cursor"}
      PROVE  Current(i, queue[i])'
  BY <1>2 DEF ShowsData, Current
<1>3. Dropped(0, screen)' /\ Dropped(0, cursor)'
  BY DEF Forgotten, Dropped, SameContents
<1>4. ASSUME NEW i \in DOMAIN queue', queue'[i].op \in {"screen", "cursor"}
      PROVE  Dropped(i, queue[i])'
  BY <1>4 DEF Forgotten, Dropped
<1>5. QED
  BY <1>1, <1>2, <1>3, <1>4 DEF ShowsData, Forgotten

(* A step that queues r: new data is announced by r, and so is a surface's *)
(* destruction, and r itself shows what the surface has now.               *)
LEMMA OneQueued ==
  ASSUME Types, ShowsData, Forgotten, UNCHANGED <<screen, cursor>>,
         NEW r \in Runnables, queue' = Append(queue, r),
         alive' \subseteq alive,
         \A s \in alive' : data'[s] \in {data[s], NULL} \/ r = Reinit(data'[s], s),
         \A s \in Destroyed' : s \in Destroyed \/ r = Clear(s),
         r.op \in {"reinit", "screen", "cursor"} /\ r.cookie \in alive'
           => data'[r.cookie] \in {r.data, NULL},
         r.op \in {"screen", "cursor"} => r.cookie \notin Destroyed'
  PROVE  ShowsData' /\ Forgotten'
<1>1. queue \in Seq(Runnables) /\ Len(queue) \in Nat /\ DOMAIN queue = 1..Len(queue)
  BY LenProperties DEF Types
<1>2. ASSUME NEW i \in 0..Len(queue), NEW x
      PROVE  /\ Behind(queue, i, x) => Behind(queue', i, x)
             /\ r = x => Behind(queue', i, x)
  BY <1>1, QueuedStayBehind, LastIsBehind
<1>3. Current(0, screen)' /\ Current(0, cursor)'
  BY <1>1, <1>2 DEF ShowsData, Current
<1>4. \A i \in DOMAIN queue' :
        \/ i \in DOMAIN queue /\ i \in 0..Len(queue) /\ queue'[i] = queue[i]
        \/ queue'[i] = r
  BY <1>1, AppendPlaces
<1>5. ASSUME NEW i \in DOMAIN queue', queue'[i].op \in {"reinit", "screen", "cursor"}
      PROVE  Current(i, queue[i])'
  BY <1>2, <1>4, <1>5 DEF ShowsData, Current
<1>6. Dropped(0, screen)' /\ Dropped(0, cursor)'
  BY <1>1, <1>2 DEF Forgotten, Dropped
<1>7. ASSUME NEW i \in DOMAIN queue', queue'[i].op \in {"screen", "cursor"}
      PROVE  Dropped(i, queue[i])'
  BY <1>2, <1>4, <1>7 DEF Forgotten, Dropped
<1>8. QED
  BY <1>3, <1>5, <1>6, <1>7 DEF ShowsData, Forgotten

LEMMA InitShows == Init => ShowsData /\ Forgotten
<1>1. Init => Destroyed = {} /\ queue = << >> /\ \A s \in alive : data[s] = NULL
  BY DEF Init, Destroyed
<1>2. Init => screen.cookie \notin alive /\ cursor.cookie \notin alive
  BY RendererAssumption DEF Init, NoTexture
<1>3. QED
  BY <1>1, <1>2 DEF ShowsData, Forgotten, Current, Dropped

(* Which surfaces a request destroys.                                      *)
LEMMA ClientGoesShows ==
  ASSUME ShowsData, Forgotten, NEW S \in SUBSET alive, ClientGoes(S),
         UNCHANGED textureVars
  PROVE  ShowsData' /\ Forgotten'
<1>1. alive' \subseteq alive /\ Destroyed' \subseteq Destroyed
  BY DEF ClientGoes, Destroyed
<1>2. QED
  BY <1>1, NothingQueued DEF ClientGoes, SameContents, textureVars

(* What running the first runnable makes of a texture.                     *)
Kept(old, new) ==
  /\ new.data = old.data /\ new.cookie = old.cookie
  /\ Head(queue).op \in {"reinit", "clear"} => Head(queue).cookie # old.cookie

Replaced(old, new) ==
  /\ Head(queue).op \in {"reinit", "screen", "cursor"}
  /\ new.data = Head(queue).data /\ new.cookie = Head(queue).cookie
  /\ Head(queue).op = "reinit" => new.cookie = old.cookie

Emptied(new) == new.cookie = NULL

LEMMA TextureRun ==
  ASSUME Types, ShowsData, Forgotten, queue # << >>,
         NEW old, NEW new, Current(0, old), Dropped(0, old),
         Kept(old, new) \/ Replaced(old, new) \/ Emptied(new)
  PROVE  /\ new.cookie \in alive /\ data[new.cookie] # NULL =>
              \/ new.data = data[new.cookie]
              \/ Behind(Tail(queue), 0, Reinit(data[new.cookie], new.cookie))
         /\ new.cookie \in Destroyed => Behind(Tail(queue), 0, Clear(new.cookie))
<1> DEFINE first == Head(queue)
<1>1. queue \in Seq(Runnables) /\ 1 \in DOMAIN queue /\ first = queue[1]
  BY TailPlaces DEF Types
<1>2. ASSUME NEW r, Behind(queue, 1, r)
      PROVE  Behind(Tail(queue), 0, r)
  <2>1. Behind(Tail(queue), 1 - 1, r)
    BY <1>1, <1>2, MoveUp
  <2>2. QED
    BY <2>1
<1>3. ASSUME NEW r, Behind(queue, 0, r)
      PROVE  first = r \/ Behind(Tail(queue), 0, r)
  BY <1>1, <1>3, FirstOrBehind
<1>4. \A view, s : Reinit(view, s).op = "reinit" /\ Reinit(view, s).cookie = s
  BY DEF Reinit, Runnable
<1>5. \A s : Clear(s).op = "clear" /\ Clear(s).cookie = s
  BY DEF Clear, Runnable
<1>6. CASE Kept(old, new)
  <2>1. \A view : first # Reinit(view, old.cookie)
    BY <1>4, <1>6 DEF Kept
  <2>2. first # Clear(old.cookie)
    BY <1>5, <1>6 DEF Kept
  <2>3. new.data = old.data /\ new.cookie = old.cookie
    BY <1>6 DEF Kept
  <2>4. QED
    BY <1>3, <2>1, <2>2, <2>3 DEF Current, Dropped
<1>7. CASE Replaced(old, new)
  <2>1. new.data = queue[1].data /\ new.cookie = queue[1].cookie
    BY <1>1, <1>7 DEF Replaced
  <2>2. Current(1, queue[1])
    BY <1>1, <1>7 DEF Replaced, ShowsData
  <2>3. new.cookie \in alive /\ data[new.cookie] # NULL =>
          \/ new.data = data[new.cookie]
          \/ Behind(Tail(queue), 0, Reinit(data[new.cookie], new.cookie))
    BY <1>2, <2>1, <2>2 DEF Current
  <2>4. CASE first.op = "reinit"
    <3>1. first # Clear(old.cookie) /\ new.cookie = old.cookie
      BY <1>5, <1>7, <2>4 DEF Replaced
    <3>2. QED
      BY <1>3, <2>3, <3>1 DEF Dropped
  <2>5. CASE first.op \in {"screen", "cursor"}
    <3>1. Dropped(1, queue[1])
      BY <1>1, <2>5 DEF Forgotten
    <3>2. QED
      BY <1>2, <2>1, <2>3, <3>1 DEF Dropped
  <2>6. QED
    BY <1>7, <2>4, <2>5 DEF Replaced
<1>8. CASE Emptied(new)
  BY <1>8, RendererAssumption DEF Emptied, Destroyed, Types, TypeOK
<1>9. QED
  BY <1>6, <1>7, <1>8

LEMMA RunEventShows ==
  ASSUME Types, ShowsData, Forgotten, RunEvent
  PROVE  ShowsData' /\ Forgotten'
<1> DEFINE first == Head(queue)
<1>1. /\ queue # << >> /\ queue' = Tail(queue)
      /\ screen' = ScreenAfter(first) /\ cursor' = CursorAfter(first)
      /\ UNCHANGED <<alive, abandoned, data>> /\ Destroyed' = Destroyed
  BY DEF RunEvent, surfaceVars, Destroyed
<1>2. queue \in Seq(Runnables) /\ first \in Runnables
  BY <1>1, TailPlaces DEF Types
<1>3. screen \in Texture /\ cursor \in Texture
  BY DEF Types, TypeOK
<1>4. \A t \in Texture : [t EXCEPT !.damaged = TRUE].data = t.data
                         /\ [t EXCEPT !.damaged = TRUE].cookie = t.cookie
  BY DEF Texture
<1>5. Kept(screen, screen') \/ Replaced(screen, screen') \/ Emptied(screen')
  BY <1>1, <1>2, <1>3, <1>4
     DEF ScreenAfter, Reinitialised, Cleared, Set, Runnables, Kept, Replaced, Emptied
<1>6. Kept(cursor, cursor') \/ Replaced(cursor, cursor') \/ Emptied(cursor')
  BY <1>1, <1>2, <1>3, <1>4
     DEF CursorAfter, Reinitialised, Cleared, Set, Runnables, Kept, Replaced, Emptied
<1>7. Current(0, screen)' /\ Dropped(0, screen)'
  BY <1>1, <1>5, TextureRun DEF Current, Dropped, ShowsData, Forgotten
<1>8. Current(0, cursor)' /\ Dropped(0, cursor)'
  BY <1>1, <1>6, TextureRun DEF Current, Dropped, ShowsData, Forgotten
<1>9. ASSUME NEW i \in DOMAIN queue'
      PROVE  i + 1 \in DOMAIN queue /\ queue'[i] = queue[i + 1] /\ (i + 1) - 1 = i
  <2>1. i + 1 \in DOMAIN queue /\ queue'[i] = queue[i + 1]
    BY <1>1, <1>2, TailPlaces
  <2>2. DOMAIN queue' = 1..Len(queue')
    BY <1>1, <1>2, TailPlaces, LenProperties
  <2>3. QED
    BY <2>1, <2>2
<1>10. ASSUME NEW i \in DOMAIN queue', NEW r, Behind(queue, i + 1, r)
       PROVE  Behind(queue', i, r)
  <2>1. Behind(Tail(queue), (i + 1) - 1, r)
    BY <1>1, <1>2, <1>9, <1>10, MoveUp
  <2>2. QED
    BY <1>1, <1>9, <2>1
<1>11. ASSUME NEW i \in DOMAIN queue', queue'[i].op \in {"reinit", "screen", "cursor"}
       PROVE  Current(i, queue[i])'
  <2>1. Current(i + 1, queue[i + 1])
    BY <1>9, <1>11 DEF ShowsData
  <2>2. QED
    BY <1>1, <1>9, <1>10, <2>1 DEF Current
<1>12. ASSUME NEW i \in DOMAIN queue', queue'[i].op \in {"screen", "cursor"}
       PROVE  Dropped(i, queue[i])'
  <2>1. Dropped(i + 1, queue[i + 1])
    BY <1>9, <1>12 DEF Forgotten
  <2>2. QED
    BY <1>1, <1>9, <1>10, <2>1 DEF Dropped
<1>13. QED
  BY <1>7, <1>8, <1>11, <1>12 DEF ShowsData, Forgotten

LEMMA RequestShows ==
  ASSUME Types, ShowsData, Forgotten, Request
  PROVE  ShowsData' /\ Forgotten'
<1> USE DEF surfaceVars, textureVars, SameContents
<1>1. ASSUME NEW s \in Surfaces, NEW b \in Buffers, Attach(s, b)
      PROVE  ShowsData' /\ Forgotten'
  <2> DEFINE v == Len(attached) + 1
             r == Reinit(v, s)
  <2>1. v \in Views
    <3>1. Len(attached) \in Nat
      BY LenProperties DEF Types, TypeOK
    <3>2. QED
      BY <1>1, <3>1, RendererAssumption DEF Attach, Views
  <2>2. r \in Runnables
    BY <2>1, RunnableIsSound DEF Reinit
  <2>3. \A t \in Surfaces : data'[t] = IF t = s THEN v ELSE data[t]
    BY <1>1 DEF Attach, Types, TypeOK
  <2>4. r.op = "reinit" /\ r.cookie = s /\ r.data = v
    BY DEF Reinit, Runnable
  <2>5. alive' = alive /\ alive \subseteq Surfaces /\ Destroyed' = Destroyed
    BY <1>1 DEF Attach, Destroyed, Types, TypeOK
  <2>6. queue' = Append(queue, r) /\ UNCHANGED <<screen, cursor>>
    BY <1>1 DEF Attach, Post
  <2> HIDE DEF v
  <2>7. \A t \in alive' : data'[t] \in {data[t], NULL} \/ r = Reinit(data'[t], t)
    BY <2>3, <2>5
  <2> HIDE DEF r
  <2>8. r.cookie \in alive' => data'[r.cookie] = r.data
    BY <2>3, <2>4, <2>5
  <2>9. QED
    BY <2>2, <2>4, <2>5, <2>6, <2>7, <2>8, OneQueued
<1>2. ASSUME NEW s \in Surfaces, AttachNull(s) PROVE ShowsData' /\ Forgotten'
  <2>1. \A t \in alive' : data'[t] \in {data[t], NULL}
    BY <1>2 DEF AttachNull, Types, TypeOK
  <2>2. alive' = alive /\ Destroyed' = Destroyed /\ queue' = queue
    BY <1>2 DEF AttachNull, Destroyed
  <2>3. QED
    BY <1>2, <2>1, <2>2, NothingQueued DEF AttachNull
<1>3. ASSUME NEW s \in Surfaces, Commit(s) PROVE ShowsData' /\ Forgotten'
  <2>1. CommitScreen \in Runnables /\ CommitScreen.op = "commit"
    BY RunnableIsSound DEF CommitScreen, Runnable
  <2>2. alive' = alive /\ data' = data /\ Destroyed' = Destroyed
        /\ queue' = Append(queue, CommitScreen)
    BY <1>3 DEF Commit, Post, Destroyed
  <2>3. QED
    BY <1>3, <2>1, <2>2, OneQueued DEF Commit
<1>4. ASSUME NEW s \in Surfaces, GetToplevel(s) PROVE ShowsData' /\ Forgotten'
  <2>1. AskValid \in Runnables /\ AskValid.op = "ask"
    BY RunnableIsSound DEF AskValid, Runnable
  <2>2. alive' = alive /\ data' = data /\ Destroyed' = Destroyed
        /\ queue' = Append(queue, AskValid)
    BY <1>4 DEF GetToplevel, Post, Destroyed
  <2>3. QED
    BY <1>4, <2>1, <2>2, OneQueued DEF GetToplevel
<1>5. ASSUME NEW s \in Surfaces, DestroySurface(s) PROVE ShowsData' /\ Forgotten'
  <2>1. Clear(s) \in Runnables /\ Clear(s).op = "clear"
    BY RunnableIsSound DEF Clear, Runnable
  <2>2. alive' \subseteq alive /\ data' = data /\ queue' = Append(queue, Clear(s))
        /\ \A t \in Destroyed' : t \in Destroyed \/ t = s
    BY <1>5 DEF DestroySurface, Post, Destroyed
  <2>3. QED
    BY <1>5, <2>1, <2>2, OneQueued DEF DestroySurface
<1>6. ASSUME NEW s \in Surfaces \cup {NULL}, SetCursorTo(s) PROVE ShowsData' /\ Forgotten'
  <2> DEFINE view == IF s = NULL THEN NULL ELSE data[s]
             r == SetCursor(view, s)
  <2>1. view \in Views \cup {NULL}
    BY DEF Types, TypeOK
  <2>2. r \in Runnables /\ r.op = "cursor" /\ r.cookie = s /\ r.data = view
    BY <2>1, RunnableIsSound DEF SetCursor, Runnable
  <2>3. alive' = alive /\ data' = data /\ Destroyed' = Destroyed /\ queue' = Append(queue, r)
    BY <1>6 DEF SetCursorTo, Post, Destroyed
  <2>4. s \notin Destroyed
    BY <1>6, RendererAssumption DEF SetCursorTo, Destroyed
  <2>5. s \in alive => view = data[s]
    BY RendererAssumption DEF Types, TypeOK
  <2> HIDE DEF r, view
  <2>6. QED
    BY <1>6, <2>2, <2>3, <2>4, <2>5, OneQueued DEF SetCursorTo
<1>7. ASSUME NEW b \in Buffers, DestroyBuffer(b) PROVE ShowsData' /\ Forgotten'
  BY <1>7, NothingQueued DEF DestroyBuffer, Destroyed
<1>8. ASSUME NEW S \in SUBSET alive, Disconnect(S) PROVE ShowsData' /\ Forgotten'
  BY <1>8, ClientGoesShows DEF Disconnect
<1>9. QED
  BY <1>1, <1>2, <1>3, <1>4, <1>5, <1>6, <1>7, <1>8 DEF Request

LEMMA HandlerShows ==
  ASSUME Types, ShowsData, Forgotten, GrantIsLast, HandlerStep
  PROVE  ShowsData' /\ Forgotten'
<1> USE DEF surfaceVars, textureVars, SameContents
<1>0. ASSUME UNCHANGED surfaceVars
      PROVE  alive' = alive /\ data' = data /\ Destroyed' = Destroyed
  BY <1>0 DEF Destroyed
<1>1. CASE DestroyNext
  BY <1>0, <1>1, NothingQueued DEF DestroyNext
<1>2. CASE CheckUse
  <2>1. Nothing \in Runnables /\ Nothing.op = "nothing"
    BY RunnableIsSound DEF Nothing, Runnable
  <2>2. queue' = queue \/ queue' = Append(queue, Nothing)
    BY <1>2 DEF CheckUse, Post
  <2>3. QED
    BY <1>0, <1>2, <2>1, <2>2, NothingQueued, OneQueued DEF CheckUse
<1>3. CASE StopWaiting
  BY <1>0, <1>3, NothingQueued DEF StopWaiting
<1>4. CASE PostClear
  <2>1. Head(todo).arg \in Surfaces
    BY <1>4, HeadStep DEF PostClear, AtStep
  <2>2. Clear(Head(todo).arg) \in Runnables /\ Clear(Head(todo).arg).op = "clear"
    BY <2>1, RunnableIsSound DEF Clear, Runnable
  <2>3. QED
    BY <1>0, <1>4, <2>2, OneQueued DEF PostClear, Post
<1>5. CASE PostCommit
  <2>1. CommitScreen \in Runnables /\ CommitScreen.op = "commit"
    BY RunnableIsSound DEF CommitScreen, Runnable
  <2>2. QED
    BY <1>0, <1>5, <2>1, OneQueued DEF PostCommit, Post
<1>6. CASE FreeBuffer
  BY <1>6, NothingQueued DEF FreeBuffer, Destroyed
<1>7. CASE GrantToplevel
  <2>1. CASE \E S \in SUBSET alive : Head(todo).arg \in S /\ ClientGoes(S)
    BY <1>7, <2>1, ClientGoesShows DEF GrantToplevel
  <2>2. CASE Post(SetScreen(data[Head(todo).arg], Head(todo).arg)) /\ UNCHANGED surfaceVars
    <3> DEFINE s == Head(todo).arg
               r == SetScreen(data[s], s)
    <3>1. s \in alive
      <4>1. Head(todo) = todo[1] /\ 1 \in DOMAIN todo /\ Head(todo).step = "grant"
        BY <1>7, TailPlaces DEF GrantToplevel, AtStep, Types
      <4>2. QED
        BY <4>1 DEF GrantIsLast
    <3>2. data[s] \in Views \cup {NULL} /\ s \in Surfaces /\ s \notin Destroyed
      BY <3>1 DEF Types, TypeOK, Destroyed
    <3>3. r \in Runnables /\ r.op = "screen" /\ r.cookie = s /\ r.data = data[s]
      BY <3>2, RunnableIsSound DEF SetScreen, Runnable
    <3>4. queue' = Append(queue, r) /\ UNCHANGED <<screen, cursor>>
      BY <1>7, <2>2 DEF Post, GrantToplevel
    <3> HIDE DEF r, s
    <3>5. QED
      BY <1>0, <2>2, <3>2, <3>3, <3>4, OneQueued
  <2>3. QED
    BY <1>7, <2>1, <2>2, Zenon DEF GrantToplevel
<1>8. QED
  BY <1>1, <1>2, <1>3, <1>4, <1>5, <1>6, <1>7 DEF HandlerStep

(* Drawing changes neither the data nor the cookie of a texture.           *)
LEMMA DrawingKeepsContents ==
  ASSUME Types, StartDrawing \/ FinishDrawing \/ CloseWindow
  PROVE  SameContents
<1>1. screen \in Texture /\ cursor \in Texture
  BY DEF Types, TypeOK
<1>2. CASE StartDrawing
  <2>1. PICK resized \in BOOLEAN :
          /\ screen' = [screen EXCEPT !.damaged = @ \/ resized]
          /\ cursor' = [cursor EXCEPT !.damaged = @ \/ resized]
    BY <1>2 DEF StartDrawing
  <2>2. QED
    BY <1>1, <2>1 DEF Texture, SameContents
<1>3. CASE FinishDrawing
  <2>1. screen' = [screen EXCEPT !.damaged = @ /\ ~valid(screen)] /\ cursor' = cursor
    BY <1>3 DEF FinishDrawing
  <2>2. QED
    BY <1>1, <2>1 DEF Texture, SameContents
<1>4. CASE CloseWindow
  BY <1>4 DEF CloseWindow, SameContents, textureVars
<1>5. QED
  BY <1>2, <1>3, <1>4

LEMMA DrawingShows ==
  ASSUME Types, ShowsData, Forgotten, StartDrawing \/ FinishDrawing \/ CloseWindow
  PROVE  ShowsData' /\ Forgotten'
<1>1. alive' = alive /\ data' = data /\ Destroyed' = Destroyed /\ queue' = queue
  BY DEF StartDrawing, FinishDrawing, CloseWindow, surfaceVars, Destroyed
<1>2. QED
  BY <1>1, DrawingKeepsContents, NothingQueued

-----------------------------------------------------------------------------
(* Who waits, waits for the last runnable                                  *)

(* What a step that is not a wait leaves: nothing to wait for.             *)
LEMMA NothingAsked ==
  ASSUME WaitInv, ~AtStep("wait"), NEW i \in DOMAIN queue
  PROVE  queue[i].op \notin {"ask", "nothing"}
BY DEF WaitInv, WaitedForIsLast

(* A step from a state without a wait to one without a grant.              *)
LEMMA NobodyWaits ==
  ASSUME Types, WaitInv, ~AtStep("wait"), todo' \in Seq(NoGrants),
         \/ queue' = queue
         \/ \E r \in Runnables : r.op \notin {"ask", "nothing"} /\ queue' = Append(queue, r)
  PROVE  WaitInv'
<1>1. \A i \in DOMAIN queue' : queue'[i].op \notin {"ask", "nothing"}
  <2>1. CASE queue' = queue
    BY <2>1, NothingAsked
  <2>2. ASSUME NEW r \in Runnables, r.op \notin {"ask", "nothing"}, queue' = Append(queue, r)
        PROVE  \A i \in DOMAIN queue' : queue'[i].op \notin {"ask", "nothing"}
    <3>1. queue \in Seq(Runnables)
      BY DEF Types
    <3>2. \A i \in DOMAIN queue' : (i \in DOMAIN queue /\ queue'[i] = queue[i]) \/ queue'[i] = r
      BY <2>2, <3>1, AppendPlaces
    <3>3. QED
      BY <2>2, <3>2, NothingAsked
  <2>3. QED
    BY <2>1, <2>2
<1>2. \A i \in DOMAIN todo' : todo'[i].step # "grant"
  <2>1. DOMAIN todo' = 1..Len(todo') /\ \A i \in 1..Len(todo') : todo'[i] \in NoGrants
    BY LenProperties, ElementOfSeq
  <2>2. QED
    BY <2>1 DEF NoGrants
<1>3. WaitedForIsLast'
  BY <1>1 DEF WaitedForIsLast
<1>4. GrantIsLast' /\ AnswerIsFresh'
  BY <1>2 DEF GrantIsLast, AnswerIsFresh, Granting
<1>5. QED
  BY <1>3, <1>4 DEF WaitInv

(* A step that queues nothing and changes neither what is left to do nor   *)
(* the answer.                                                             *)
LEMMA WaitGoesOn ==
  ASSUME WaitInv, UNCHANGED <<todo, queue, answered, answer, alive>>, SameContents
  PROVE  WaitInv'
<1>1. WaitedForIsLast'
  BY DEF WaitInv, WaitedForIsLast, AtStep
<1>2. GrantIsLast'
  BY DEF WaitInv, GrantIsLast
<1>3. Granting' <=> Granting
  BY DEF Granting
<1>4. AnswerIsFresh'
  BY <1>3 DEF WaitInv, AnswerIsFresh, valid, SameContents
<1>5. QED
  BY <1>1, <1>2, <1>4 DEF WaitInv

(* A step that begins to wait for the runnable that it queues.             *)
LEMMA WaitBegins ==
  ASSUME Types, WaitInv, ~AtStep("wait"), NEW r \in Runnables, r.op \in {"ask", "nothing"},
         queue' = Append(queue, r), ~answered', todo' \in Seq(SoundSteps), AtStep("wait")'
  PROVE  /\ WaitedForIsLast'
         /\ \A i \in DOMAIN queue' : queue'[i].op \in {"ask", "nothing"} => queue'[i].op = r.op
<1>1. queue \in Seq(Runnables)
  BY DEF Types
<1>2. \A i \in DOMAIN queue' :
        \/ i \in DOMAIN queue /\ queue'[i] = queue[i]
        \/ i = Len(queue') /\ queue'[i] = r
  BY <1>1, AppendPlaces
<1>3. \A i \in DOMAIN queue' : queue'[i].op \in {"ask", "nothing"} =>
        i = Len(queue') /\ queue'[i] = r
  BY <1>2, NothingAsked
<1>4. QED
  BY <1>3 DEF WaitedForIsLast

LEMMA InitWaits == Init => WaitInv
BY DEF Init, WaitInv, WaitedForIsLast, GrantIsLast, AnswerIsFresh, Granting

LEMMA RequestWaits ==
  ASSUME Types, WaitInv, Request
  PROVE  WaitInv'
<1> USE DEF surfaceVars, textureVars
<1>0. << >> \in Seq(NoGrants)
  BY EmptySeq
<1>1. todo = << >> /\ ~AtStep("wait")
  BY DEF Request, Attach, AttachNull, Commit, GetToplevel, DestroySurface, SetCursorTo,
         DestroyBuffer, Disconnect, Idle, AtStep
<1>2. ASSUME NEW r \in Runnables, r.op \notin {"ask", "nothing"}, Post(r), todo' = todo
      PROVE  WaitInv'
  BY <1>0, <1>1, <1>2, NobodyWaits DEF Post
<1>3. ASSUME NEW s \in Surfaces, NEW b \in Buffers, Attach(s, b) PROVE WaitInv'
  <2>1. Len(attached) + 1 \in Views
    <3>1. Len(attached) \in Nat
      BY LenProperties DEF Types, TypeOK
    <3>2. QED
      BY <1>3, <3>1, RendererAssumption DEF Attach, Views
  <2>2. Reinit(Len(attached) + 1, s) \in Runnables /\ Reinit(Len(attached) + 1, s).op = "reinit"
    BY <2>1, RunnableIsSound DEF Reinit, Runnable
  <2>3. QED
    BY <1>2, <1>3, <2>2 DEF Attach
<1>4. ASSUME NEW s \in Surfaces, AttachNull(s) PROVE WaitInv'
  BY <1>0, <1>1, <1>4, NobodyWaits DEF AttachNull
<1>5. ASSUME NEW s \in Surfaces, Commit(s) PROVE WaitInv'
  <2>1. CommitScreen \in Runnables /\ CommitScreen.op = "commit"
    BY RunnableIsSound DEF CommitScreen, Runnable
  <2>2. QED
    BY <1>2, <1>5, <2>1 DEF Commit
<1>6. ASSUME NEW s \in Surfaces, GetToplevel(s) PROVE WaitInv'
  <2>1. AskValid \in Runnables /\ AskValid.op = "ask"
    BY RunnableIsSound DEF AskValid, Runnable
  <2>2. /\ queue' = Append(queue, AskValid) /\ answered' = FALSE /\ alive' = alive
        /\ todo' = <<[step |-> "wait", arg |-> NULL], [step |-> "grant", arg |-> s]>>
    BY <1>6 DEF GetToplevel, Post
  <2>3. AtStep("wait")' /\ todo' \in Seq(SoundSteps)
    <3>1. todo' \in Seq(SoundSteps)
      BY <1>6, RequestTypes DEF Request, Types
    <3>2. QED
      BY <2>2, <3>1 DEF AtStep
  <2>4. WaitedForIsLast' /\ \A i \in DOMAIN queue' : queue'[i].op # "nothing"
    BY <1>1, <2>1, <2>2, <2>3, WaitBegins
  <2>5. GrantIsLast'
    <3>1. DOMAIN todo' = 1..2 /\ Len(todo') = 2 /\ todo'[1].step = "wait"
          /\ todo'[2] = [step |-> "grant", arg |-> s]
      BY <2>2
    <3>2. s \in alive'
      BY <1>6, <2>2 DEF GetToplevel
    <3>3. QED
      BY <3>1, <3>2 DEF GrantIsLast
  <2>6. AnswerIsFresh'
    BY <2>2, <2>4 DEF AnswerIsFresh
  <2>7. QED
    BY <2>4, <2>5, <2>6 DEF WaitInv
<1>7. ASSUME NEW s \in Surfaces, DestroySurface(s) PROVE WaitInv'
  <2>1. Clear(s) \in Runnables /\ Clear(s).op = "clear"
    BY RunnableIsSound DEF Clear, Runnable
  <2>2. QED
    BY <1>2, <1>7, <2>1 DEF DestroySurface
<1>8. ASSUME NEW s \in Surfaces \cup {NULL}, SetCursorTo(s) PROVE WaitInv'
  <2> DEFINE view == IF s = NULL THEN NULL ELSE data[s]
  <2>1. view \in Views \cup {NULL}
    BY DEF Types, TypeOK
  <2>2. SetCursor(view, s) \in Runnables /\ SetCursor(view, s).op = "cursor"
    BY <2>1, RunnableIsSound DEF SetCursor, Runnable
  <2>3. QED
    BY <1>2, <1>8, <2>2 DEF SetCursorTo
<1>9. ASSUME NEW b \in Buffers, DestroyBuffer(b) PROVE WaitInv'
  <2>1. todo' \in Seq(NoGrants)
    BY <1>9, DestroyingSteps DEF DestroyBuffer
  <2>2. QED
    BY <1>1, <1>9, <2>1, NobodyWaits DEF DestroyBuffer
<1>10. ASSUME NEW S \in SUBSET alive, Disconnect(S) PROVE WaitInv'
  <2>1. todo' \in Seq(NoGrants) /\ queue' = queue
    BY <1>10, ClientGoesSteps DEF Disconnect, ClientGoes
  <2>2. QED
    BY <1>1, <2>1, NobodyWaits
<1>11. QED
  BY <1>3, <1>4, <1>5, <1>6, <1>7, <1>8, <1>9, <1>10 DEF Request

LEMMA StopWaitingWaits ==
  ASSUME Types, WaitInv, StopWaiting
  PROVE  WaitInv'
<1>1. /\ todo \in Seq(SoundSteps) /\ todo # << >> /\ todo' = Tail(todo) /\ answered
      /\ UNCHANGED <<alive, queue, answered, answer, screen>>
  BY DEF StopWaiting, AtStep, Types, surfaceVars, textureVars
<1>2. /\ Len(todo') = Len(todo) - 1 /\ Len(todo) \in Nat
      /\ \A i \in DOMAIN todo' : i + 1 \in DOMAIN todo /\ todo'[i] = todo[i + 1]
  BY <1>1, TailPlaces, LenProperties
<1>3. todo[1].step = "wait"
  BY <1>1, TailPlaces DEF StopWaiting, AtStep
<1>4. WaitedForIsLast'
  BY <1>1 DEF WaitInv, WaitedForIsLast
<1>5. GrantIsLast'
  <2>1. SUFFICES ASSUME NEW i \in DOMAIN todo', todo'[i].step = "grant"
                 PROVE  todo'[i].arg \in alive' /\ i = 1 /\ Len(todo') = 1 /\ answered'
    BY DEF GrantIsLast
  <2>2. i \in 1..Len(todo') /\ Len(todo') \in Nat
    BY <1>1, TailPlaces, LenProperties
  <2>3. todo[i + 1].arg \in alive /\ i + 1 = 2 /\ Len(todo) = 2
    <3>1. i + 1 # 1
      BY <2>2
    <3>2. QED
      BY <1>2, <2>1, <3>1 DEF WaitInv, GrantIsLast
  <2>4. QED
    BY <1>1, <1>2, <2>1, <2>2, <2>3
<1>6. Granting' => Granting
  BY <1>2 DEF Granting
<1>7. AnswerIsFresh'
  BY <1>1, <1>6 DEF WaitInv, AnswerIsFresh, valid
<1>8. QED
  BY <1>4, <1>5, <1>7 DEF WaitInv

LEMMA HandlerWaits ==
  ASSUME Types, WaitInv, HandlerStep
  PROVE  WaitInv'
<1> USE DEF surfaceVars
<1>1. ASSUME ~AtStep("wait"), ~AtStep("grant")
      PROVE  Tail(todo) \in Seq(NoGrants)
  <2>1. todo # << >>
    BY DEF HandlerStep, DestroyNext, CheckUse, StopWaiting, PostClear, PostCommit, FreeBuffer,
           GrantToplevel, AtStep
  <2>2. QED
    BY <1>1, <2>1, NoGrantAhead DEF AtStep, WaitInv
<1>2. \A step \in {"destroy", "check", "clear", "commit", "free", "grant"} :
        AtStep(step) => ~AtStep("wait") /\ (step = "grant" \/ ~AtStep("grant"))
  BY DEF AtStep
<1>3. CASE DestroyNext
  <2>1. ~AtStep("wait") /\ Tail(todo) \in Seq(NoGrants) /\ queue' = queue
    BY <1>1, <1>2, <1>3 DEF DestroyNext
  <2>2. PICK steps \in Destroying(Head(todo).arg) : todo' = steps \o Tail(todo)
    BY <1>3 DEF DestroyNext
  <2>3. Head(todo).arg \in Buffers
    BY <1>3, HeadStep DEF DestroyNext, AtStep
  <2>4. todo' \in Seq(NoGrants)
    BY <2>1, <2>2, <2>3, DestroyingSteps, ConcatProperties
  <2>5. QED
    BY <2>1, <2>4, NobodyWaits
<1>4. CASE CheckUse
  <2>1. ~AtStep("wait") /\ Tail(todo) \in Seq(NoGrants)
    BY <1>1, <1>2, <1>4 DEF CheckUse
  <2>2. CASE todo' = Tail(todo) /\ UNCHANGED <<queue, answered>>
    BY <2>1, <2>2, NobodyWaits
  <2> DEFINE waiting == <<[step |-> "wait", arg |-> NULL],
                          [step |-> "clear", arg |-> Head(todo).arg],
                          [step |-> "commit", arg |-> NULL]>>
  <2>3. CASE Post(Nothing) /\ answered' = FALSE /\ todo' = waiting \o Tail(todo)
    <3>1. Nothing \in Runnables /\ Nothing.op = "nothing"
      BY RunnableIsSound DEF Nothing, Runnable
    <3>2. /\ [step |-> "wait", arg |-> NULL] \in NoGrants
          /\ [step |-> "clear", arg |-> Head(todo).arg] \in NoGrants
          /\ [step |-> "commit", arg |-> NULL] \in NoGrants
      <4>1. Head(todo).arg \in Surfaces
        BY <1>4, HeadStep DEF CheckUse, AtStep
      <4>2. QED
        BY <4>1, StepIsSound
    <3>3. waiting \in Seq(NoGrants) /\ Len(waiting) = 3 /\ waiting[1].step = "wait"
      BY <3>2
    <3> HIDE DEF waiting
    <3>4. todo' \in Seq(NoGrants) /\ Len(todo') = 3 + Len(Tail(todo)) /\ todo'[1] = waiting[1]
      <4> DEFINE rest == Tail(todo)
      <4>1. rest \in Seq(NoGrants) /\ Len(rest) \in Nat /\ todo' = waiting \o rest
        BY <2>1, <2>3, LenProperties
      <4> HIDE DEF rest
      <4>2. /\ waiting \o rest \in Seq(NoGrants)
            /\ Len(waiting \o rest) = Len(waiting) + Len(rest)
            /\ \A i \in 1..(Len(waiting) + Len(rest)) :
                 (waiting \o rest)[i] = IF i <= Len(waiting) THEN waiting[i]
                                       ELSE rest[i - Len(waiting)]
        BY <3>3, <4>1, ConcatProperties
      <4>3. 1 \in 1..(Len(waiting) + Len(rest)) /\ 1 <= Len(waiting)
        BY <3>3, <4>1
      <4>4. QED
        BY <3>3, <4>1, <4>2, <4>3 DEF rest
    <3>5. todo' # << >> /\ Head(todo').step = "wait"
      <4>1. Len(Tail(todo)) \in Nat
        BY <2>1, LenProperties
      <4>2. todo' # << >>
        BY <3>4, <4>1, EmptySeq
      <4>3. QED
        BY <3>3, <3>4, <4>2, TailPlaces
    <3>6. AtStep("wait")' /\ todo' \in Seq(SoundSteps)
      BY <3>4, <3>5, NoGrantsAreSound DEF AtStep
    <3>7. WaitedForIsLast'
      BY <2>1, <2>3, <3>1, <3>6, WaitBegins DEF Post
    <3>8. \A i \in DOMAIN todo' : todo'[i].step # "grant"
      <4>1. DOMAIN todo' = 1..Len(todo') /\ \A i \in 1..Len(todo') : todo'[i] \in NoGrants
        BY <3>4, LenProperties, ElementOfSeq
      <4>2. QED
        BY <4>1 DEF NoGrants
    <3>9. GrantIsLast' /\ AnswerIsFresh'
      BY <3>8 DEF GrantIsLast, AnswerIsFresh, Granting
    <3>10. QED
      BY <3>7, <3>9 DEF WaitInv
  <2>4. QED
    BY <1>4, <2>2, <2>3, Zenon DEF CheckUse
<1>5. CASE StopWaiting
  BY <1>5, StopWaitingWaits
<1>6. CASE PostClear
  <2>1. ~AtStep("wait") /\ todo' \in Seq(NoGrants)
    BY <1>1, <1>2, <1>6 DEF PostClear
  <2>2. Head(todo).arg \in Surfaces
    BY <1>6, HeadStep DEF PostClear, AtStep
  <2>3. Clear(Head(todo).arg) \in Runnables /\ Clear(Head(todo).arg).op = "clear"
    BY <2>2, RunnableIsSound DEF Clear, Runnable
  <2>4. QED
    BY <1>6, <2>1, <2>3, NobodyWaits DEF PostClear, Post
<1>7. CASE PostCommit
  <2>1. ~AtStep("wait") /\ todo' \in Seq(NoGrants)
    BY <1>1, <1>2, <1>7 DEF PostCommit
  <2>2. CommitScreen \in Runnables /\ CommitScreen.op = "commit"
    BY RunnableIsSound DEF CommitScreen, Runnable
  <2>3. QED
    BY <1>7, <2>1, <2>2, NobodyWaits DEF PostCommit, Post
<1>8. CASE FreeBuffer
  <2>1. ~AtStep("wait") /\ todo' \in Seq(NoGrants)
    BY <1>1, <1>2, <1>8 DEF FreeBuffer
  <2>2. QED
    BY <1>8, <2>1, NobodyWaits DEF FreeBuffer
<1>9. CASE GrantToplevel
  <2>1. ~AtStep("wait")
    BY <1>2, <1>9 DEF GrantToplevel
  <2>2. CASE \E S \in SUBSET alive : Head(todo).arg \in S /\ ClientGoes(S)
    <3>1. todo' \in Seq(NoGrants) /\ queue' = queue
      BY <2>2, ClientGoesSteps DEF ClientGoes
    <3>2. QED
      BY <2>1, <3>1, NobodyWaits
  <2>3. CASE /\ todo' = <<[step |-> "commit", arg |-> NULL]>>
             /\ Post(SetScreen(data[Head(todo).arg], Head(todo).arg))
    <3> DEFINE s == Head(todo).arg
    <3>1. s \in Surfaces
      BY <1>9, HeadStep DEF GrantToplevel, AtStep
    <3>2. SetScreen(data[s], s) \in Runnables /\ SetScreen(data[s], s).op = "screen"
      <4>1. data[s] \in Views \cup {NULL}
        BY <3>1 DEF Types, TypeOK
      <4>2. QED
        BY <3>1, <4>1, RunnableIsSound DEF SetScreen, Runnable
    <3>3. todo' \in Seq(NoGrants)
      <4>1. [step |-> "commit", arg |-> NULL] \in NoGrants
        BY StepIsSound
      <4>2. QED
        BY <2>3, <4>1
    <3>4. QED
      BY <2>1, <2>3, <3>2, <3>3, NobodyWaits DEF Post
  <2>4. QED
    BY <1>9, <2>2, <2>3, Zenon DEF GrantToplevel
<1>10. QED
  BY <1>3, <1>4, <1>5, <1>6, <1>7, <1>8, <1>9 DEF HandlerStep

LEMMA RunEventWaits ==
  ASSUME Types, WaitInv, RunEvent
  PROVE  WaitInv'
<1> DEFINE first == Head(queue)
<1>1. /\ queue \in Seq(Runnables) /\ queue # << >> /\ queue' = Tail(queue)
      /\ UNCHANGED <<alive, todo>> /\ screen' = ScreenAfter(first)
  BY DEF RunEvent, surfaceVars, Types
<1>2. /\ Len(queue') = Len(queue) - 1 /\ Len(queue) \in Nat
      /\ 1 \in DOMAIN queue /\ first = queue[1] /\ queue' \in Seq(Runnables)
      /\ DOMAIN queue' = 1..Len(queue')
      /\ \A i \in DOMAIN queue' : i + 1 \in DOMAIN queue /\ queue'[i] = queue[i + 1]
  BY <1>1, TailPlaces, LenProperties
<1>3. CASE first.op \in {"ask", "nothing"}
  <2>1. Len(queue) = 1
    BY <1>2, <1>3 DEF WaitInv, WaitedForIsLast
  <2>2. queue' = << >>
    BY <1>2, <2>1, EmptySeq
  <2>3. answered'
    BY <1>3 DEF RunEvent
  <2>4. WaitedForIsLast'
    BY <2>2 DEF WaitedForIsLast
  <2>5. GrantIsLast'
    BY <1>1, <2>3 DEF WaitInv, GrantIsLast
  <2>6. Granting => first.op = "ask"
    BY <1>2, <1>3 DEF WaitInv, AnswerIsFresh
  <2>7. first.op = "ask" => answer' = valid(screen) /\ screen' = screen
    BY <1>1 DEF RunEvent, ScreenAfter
  <2>8. AnswerIsFresh'
    BY <1>1, <2>2, <2>6, <2>7 DEF AnswerIsFresh, Granting, valid
  <2>9. QED
    BY <2>4, <2>5, <2>8 DEF WaitInv
<1>4. CASE first.op \notin {"ask", "nothing"}
  <2>1. answered' = answered
    <3>1. answered' <=> answered
      BY <1>4, Zenon DEF RunEvent
    <3>2. answered \in BOOLEAN /\ answered' \in BOOLEAN
      BY GLTypes DEF Types, TypeOK
    <3>3. QED
      BY <3>1, <3>2, Zenon
  <2>2. WaitedForIsLast'
    BY <1>1, <1>2, <2>1 DEF WaitInv, WaitedForIsLast, AtStep
  <2>3. GrantIsLast'
    BY <1>1, <2>1 DEF WaitInv, GrantIsLast
  <2>4. AnswerIsFresh'
    BY <1>1, <1>2, <2>1 DEF WaitInv, AnswerIsFresh, Granting
  <2>5. QED
    BY <2>2, <2>3, <2>4 DEF WaitInv
<1>5. QED
  BY <1>3, <1>4

LEMMA DrawingWaits ==
  ASSUME Types, WaitInv, StartDrawing \/ FinishDrawing \/ CloseWindow
  PROVE  WaitInv'
<1>1. UNCHANGED <<todo, queue, answered, answer, alive>>
  BY DEF StartDrawing, FinishDrawing, CloseWindow, surfaceVars
<1>2. QED
  BY <1>1, DrawingKeepsContents, WaitGoesOn

-----------------------------------------------------------------------------
(* The invariant                                                           *)

LEMMA RendererStep == RendererInv /\ [Next]_vars => RendererInv'
<1> SUFFICES ASSUME RendererInv, [Next]_vars PROVE RendererInv'
  OBVIOUS
<1>0. Types /\ ShowsData /\ Forgotten /\ WaitInv /\ GrantIsLast
  BY DEF RendererInv, WaitInv
<1>1. CASE Request
  BY <1>0, <1>1, RequestTypes, RequestShows, RequestWaits DEF RendererInv
<1>2. CASE HandlerStep
  BY <1>0, <1>2, HandlerTypes, HandlerShows, HandlerWaits DEF RendererInv
<1>3. CASE RunEvent
  BY <1>0, <1>3, GLTypes, RunEventShows, RunEventWaits DEF RendererInv
<1>4. CASE StartDrawing \/ FinishDrawing \/ CloseWindow
  BY <1>0, <1>4, GLTypes, DrawingShows, DrawingWaits DEF RendererInv
<1>5. CASE UNCHANGED vars
  <2>1. UNCHANGED <<alive, abandoned, data, attached, committed, freed, todo, queue, answered,
                    answer, screen, cursor, requested, gl, shown>>
    BY <1>5 DEF vars, surfaceVars, textureVars
  <2>2. Types'
    BY <1>0, <2>1 DEF Types, TypeOK
  <2>3. ShowsData' /\ Forgotten'
    BY <1>0, <2>1, NothingQueued DEF SameContents, Destroyed
  <2>4. WaitInv'
    BY <1>0, <2>1, WaitGoesOn DEF SameContents
  <2>5. QED
    BY <2>2, <2>3, <2>4 DEF RendererInv
<1>6. QED
  BY <1>1, <1>2, <1>3, <1>4, <1>5 DEF Next

LEMMA RendererIsInvariant == Spec => []RendererInv
<1>1. Init => RendererInv
  BY InitTypes, InitShows, InitWaits DEF RendererInv
<1>2. QED
  BY <1>1, RendererStep, PTL DEF Spec

(* Once both threads are quiet, no texture belongs to a surface that its   *)
(* client destroyed, and a texture of a living surface shows the buffer    *)
(* attached to it last, whatever requests the renderer was told of and     *)
(* whatever it drew meanwhile (LorieRenderer.reinit, setScreen, setCursor, *)
(* clear).                                                                 *)
THEOREM TexturesFollow == Spec => []TexturesFollowSurfaces
<1>1. RendererInv => TexturesFollowSurfaces
  <2>1. SUFFICES ASSUME RendererInv, Quiet, NEW t \in {screen, cursor}
                 PROVE  /\ t.cookie \in alive \cup abandoned \cup {NULL}
                        /\ t.cookie \in alive /\ valid(t) /\ data[t.cookie] # NULL
                             => t.data = data[t.cookie]
    BY DEF RendererInv, Types, TexturesFollowSurfaces
  <2>2. queue = << >>
    BY <2>1 DEF Quiet
  <2>3. t.cookie \in Surfaces \cup {NULL}
    BY <2>1 DEF RendererInv, Types, TypeOK, Texture
  <2>4. Current(0, t) /\ Dropped(0, t)
    BY <2>1 DEF RendererInv, ShowsData, Forgotten
  <2>5. t.cookie \notin Destroyed
    BY <2>2, <2>4, NothingBehind DEF Dropped
  <2>6. QED
    BY <2>2, <2>3, <2>4, <2>5, NothingBehind DEF Current, Destroyed
<1>2. QED
  BY <1>1, RendererIsInvariant, PTL

(* When get_toplevel is granted or refused, what the GL thread answered is *)
(* still so: no other toplevel became the screen since, and the screen was *)
(* not cleared (LorieRenderer.hasToplevel, queueAndWait).                  *)
THEOREM ToplevelAnswerHolds == Spec => []AnswerStillHolds
<1>1. RendererInv => AnswerStillHolds
  <2>1. SUFFICES ASSUME RendererInv, AtStep("grant")
                 PROVE  answer = valid(screen)
    BY DEF AnswerStillHolds
  <2>2. 1 \in DOMAIN todo /\ todo[1].step = "grant"
    BY <2>1, TailPlaces DEF AtStep, RendererInv, Types
  <2>3. answered /\ Granting
    BY <2>1, <2>2 DEF RendererInv, WaitInv, GrantIsLast, Granting
  <2>4. QED
    BY <2>1, <2>3 DEF RendererInv, WaitInv, AnswerIsFresh
<1>2. QED
  BY <1>1, RendererIsInvariant, PTL

=============================================================================
