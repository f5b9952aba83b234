------------------------------ MODULE Server_proofs ------------------------------
(***************************************************************************)
(* Proofs about WaylandServer, for any clients, scenarios, listeners, ids  *)
(* and sizes: that listeners are told once, that nothing is used after it  *)
(* has been freed, and that an error is the last thing a client is told.   *)
(*                                                                         *)
(* Listeners are told once because emissions do not nest: who is told of a *)
(* new client stands on emit_list until its turn, and a handler may add    *)
(* and remove listeners, or destroy clients, but nothing it calls creates  *)
(* a client.  That is a fact about the call stack: which functions can be  *)
(* how deep (StackShape).                                                  *)
(*                                                                         *)
(* For memory the proof goes in layers.  Each frame of the call stack knows*)
(* a client or an object (FramesInv); whom it knows is alive, as a client  *)
(* is freed only by the outermost function that works on it (LifeInv); and *)
(* an object is destroyed by one function at a time (ObjectsInv).  For     *)
(* errors, WordInv says that the object they are sent from is the first to *)
(* go when a client is destroyed, after the client has been flushed.       *)
(***************************************************************************)
EXTENDS WaylandServer, SequenceTheorems, FiniteSetTheorems, TLAPS

IsSequence(s) == \E S : s \in Seq(S)

-----------------------------------------------------------------------------
(* Lists of different elements.                                            *)

LEMMA SetToSeqIs ==
  ASSUME NEW S, IsFiniteSet(S)
  PROVE  /\ SetToSeq(S) \in Seq(S) /\ IsInjective(SetToSeq(S))
<1>1. \E f \in [1..Cardinality(S) -> S] : IsInjective(f)
  BY FS_NatBijection, FS_CardinalityType DEF ExistsBijection, Bijection, Injection, IsInjective
<1>2. SetToSeq(S) \in [1..Cardinality(S) -> S] /\ IsInjective(SetToSeq(S))
  BY <1>1, Zenon DEF SetToSeq
<1>3. Cardinality(S) \in Nat
  BY FS_CardinalityType
<1>4. QED
  BY <1>2, <1>3, SeqDef

LEMMA FunctionIsSequence ==
  ASSUME NEW S, NEW n \in Nat \ {0}, NEW s \in [1..n -> S]
  PROVE  s \in Seq(S) /\ DOMAIN s = 1..n /\ s # << >>
<1>1. s \in Seq(S) /\ DOMAIN s = 1..n /\ 1 \in 1..n
  BY SeqDef
<1>2. DOMAIN << >> = {}
  OBVIOUS
<1>3. s # << >>
  BY <1>1, <1>2
<1>4. QED
  BY <1>1, <1>3

LEMMA AppendElements ==
  ASSUME NEW S, NEW s \in Seq(S), NEW e \in S
  PROVE  /\ Append(s, e) \in Seq(S) /\ ToSet(Append(s, e)) = ToSet(s) \cup {e}
         /\ IsInjective(s) /\ e \notin ToSet(s) => IsInjective(Append(s, e))
<1>1. /\ Append(s, e) \in Seq(S) /\ Len(Append(s, e)) = Len(s) + 1 /\ Len(s) \in Nat
      /\ \A i \in 1..Len(s) : Append(s, e)[i] = s[i]
      /\ Append(s, e)[Len(s) + 1] = e
  BY AppendProperties
<1>2. DOMAIN s = 1..Len(s) /\ DOMAIN Append(s, e) = 1..Len(s) + 1
  BY <1>1
<1> DEFINE t == Append(s, e)
<1> HIDE DEF t
<1>3. ToSet(t) = ToSet(s) \cup {e}
  <2>1. \A i \in 1..Len(s) + 1 : t[i] \in ToSet(s) \cup {e}
    BY <1>1, <1>2 DEF t, ToSet
  <2>2. \A i \in 1..Len(s) : s[i] \in ToSet(t)
    BY <1>1, <1>2 DEF t, ToSet
  <2>3. e \in ToSet(t)
    BY <1>1, <1>2 DEF t, ToSet
  <2>4. QED
    BY <1>2, <2>1, <2>2, <2>3 DEF t, ToSet
<1>4. ASSUME IsInjective(s), e \notin ToSet(s) PROVE IsInjective(t)
  <2>1. \A i, j \in 1..Len(s) : s[i] = s[j] => i = j
    BY <1>2, <1>4 DEF IsInjective
  <2>2. \A i \in 1..Len(s) : s[i] # e
    BY <1>2, <1>4 DEF ToSet
  <2>3. ASSUME NEW i \in 1..Len(s) + 1, NEW j \in 1..Len(s) + 1, t[i] = t[j] PROVE i = j
    BY <1>1, <2>1, <2>2, <2>3 DEF t
  <2>4. QED
    BY <1>2, <2>3 DEF t, IsInjective
<1>5. QED
  BY <1>1, <1>3, <1>4 DEF t

LEMMA HeadElements ==
  ASSUME NEW S, NEW s \in Seq(S), s # << >>, IsInjective(s)
  PROVE  /\ Head(s) \in S /\ Tail(s) \in Seq(S) /\ IsInjective(Tail(s))
         /\ Head(s) \in ToSet(s) /\ ToSet(Tail(s)) = ToSet(s) \ {Head(s)}
<1>1. /\ Head(s) = s[1] /\ Tail(s) \in Seq(S) /\ Len(Tail(s)) = Len(s) - 1
      /\ Len(s) \in Nat /\ Len(s) > 0
      /\ \A i \in 1..Len(s) - 1 : Tail(s)[i] = s[i + 1]
  BY HeadTailProperties, EmptySeq
<1> DEFINE t == Tail(s)
<1> HIDE DEF t
<1>2. DOMAIN s = 1..Len(s) /\ DOMAIN t = 1..Len(s) - 1
  BY <1>1 DEF t
<1>3. \A i, j \in 1..Len(s) : s[i] = s[j] => i = j
  BY <1>2 DEF IsInjective
<1>4. \A i \in 1..Len(s) - 1 : i + 1 \in 1..Len(s) /\ i + 1 # 1 /\ t[i] = s[i + 1]
  BY <1>1 DEF t
<1>5. \A j \in 1..Len(s) : j # 1 => j - 1 \in 1..Len(s) - 1 /\ t[j - 1] = s[j]
  <2> SUFFICES ASSUME NEW j \in 1..Len(s), j # 1
               PROVE  j - 1 \in 1..Len(s) - 1 /\ t[j - 1] = s[j]
    OBVIOUS
  <2>1. j - 1 \in 1..Len(s) - 1 /\ j - 1 + 1 = j
    BY <1>1
  <2>2. QED
    BY <1>4, <2>1
<1>6. 1 \in 1..Len(s)
  BY <1>1
<1>7. ToSet(t) = ToSet(s) \ {s[1]}
  <2>1. \A i \in 1..Len(s) - 1 : t[i] \in ToSet(s) \ {s[1]}
    BY <1>2, <1>3, <1>4, <1>6 DEF ToSet
  <2>2. \A j \in 1..Len(s) : s[j] # s[1] => s[j] \in ToSet(t)
    BY <1>2, <1>5 DEF ToSet
  <2>3. QED
    BY <1>2, <2>1, <2>2 DEF ToSet
<1>8. IsInjective(t)
  <2>1. \A i, j \in 1..Len(s) - 1 : t[i] = t[j] => i + 1 = j + 1
    BY <1>3, <1>4
  <2>2. \A i, j \in 1..Len(s) - 1 : i + 1 = j + 1 => i = j
    OBVIOUS
  <2>3. QED
    BY <1>2, <2>1, <2>2 DEF IsInjective
<1>9. s[1] \in S /\ s[1] \in ToSet(s)
  BY <1>2, <1>6 DEF ToSet
<1>10. QED
  BY <1>1, <1>7, <1>8, <1>9 DEF t

LEMMA LargerSeq ==
  ASSUME NEW S, NEW T, S \subseteq T, NEW s \in Seq(S)
  PROVE  s \in Seq(T)
<1>1. s \in [1..Len(s) -> S] /\ Len(s) \in Nat
  BY LenProperties
<1>2. s \in [1..Len(s) -> T]
  BY <1>1
<1>3. QED
  BY <1>1, <1>2, SeqDef

LEMMA PrependElements ==
  ASSUME NEW S, NEW s \in Seq(S), NEW e \in S
  PROVE  /\ <<e>> \o s \in Seq(S) /\ ToSet(<<e>> \o s) = ToSet(s) \cup {e}
         /\ IsInjective(s) /\ e \notin ToSet(s) => IsInjective(<<e>> \o s)
<1> DEFINE t == <<e>> \o s
<1>1. <<e>> \in Seq(S) /\ Len(<<e>>) = 1 /\ <<e>>[1] = e
  OBVIOUS
<1>2. /\ t \in Seq(S) /\ Len(t) = 1 + Len(s) /\ Len(s) \in Nat
      /\ \A i \in 1..1 + Len(s) : t[i] = IF i <= 1 THEN <<e>>[i] ELSE s[i - 1]
  BY <1>1, ConcatProperties, LenProperties
<1> HIDE DEF t
<1>3. DOMAIN s = 1..Len(s) /\ DOMAIN t = 1..1 + Len(s)
  BY <1>2
<1>4. t[1] = e /\ 1 \in 1..1 + Len(s)
  BY <1>1, <1>2
<1>5. \A i \in 1..Len(s) : i + 1 \in 1..1 + Len(s) /\ t[i + 1] = s[i]
  BY <1>2
<1>6. \A i \in 1..1 + Len(s) : i # 1 => i - 1 \in 1..Len(s) /\ t[i] = s[i - 1]
  BY <1>2
<1>7. ToSet(t) = ToSet(s) \cup {e}
  <2>1. \A i \in 1..1 + Len(s) : t[i] \in ToSet(s) \cup {e}
    BY <1>3, <1>4, <1>6 DEF ToSet
  <2>2. \A i \in 1..Len(s) : s[i] \in ToSet(t)
    BY <1>3, <1>5 DEF ToSet
  <2>3. e \in ToSet(t)
    BY <1>3, <1>4 DEF ToSet
  <2>4. QED
    BY <1>3, <2>1, <2>2, <2>3 DEF ToSet
<1>8. ASSUME IsInjective(s), e \notin ToSet(s) PROVE IsInjective(t)
  <2>1. \A i, j \in 1..Len(s) : s[i] = s[j] => i = j
    BY <1>3, <1>8 DEF IsInjective
  <2>2. \A i \in 1..Len(s) : s[i] # e
    BY <1>3, <1>8 DEF ToSet
  <2>3. ASSUME NEW i \in 1..1 + Len(s), NEW j \in 1..1 + Len(s), t[i] = t[j] PROVE i = j
    <3>1. CASE i = 1 \/ j = 1
      BY <1>4, <1>6, <2>2, <2>3, <3>1
    <3>2. CASE i # 1 /\ j # 1
      <4>1. i - 1 = j - 1
        BY <1>6, <2>1, <2>3, <3>2
      <4>2. QED
        BY <4>1
    <3>3. QED
      BY <3>1, <3>2
  <2>4. QED
    BY <1>3, <2>3 DEF IsInjective
<1>9. QED
  BY <1>2, <1>7, <1>8 DEF t

LEMMA UnlinkedElements ==
  ASSUME NEW S, NEW s \in Seq(S), IsInjective(s), NEW e
  PROVE  /\ Unlinked(s, e) \in Seq(S) /\ IsInjective(Unlinked(s, e))
         /\ ToSet(Unlinked(s, e)) = ToSet(s) \ {e}
<1>1. CASE e \notin ToSet(s)
  BY <1>1 DEF Unlinked
<1>2. CASE e \in ToSet(s)
  <2> DEFINE k == CHOOSE i \in DOMAIN s : s[i] = e
             a == SubSeq(s, 1, k - 1)
             b == SubSeq(s, k + 1, Len(s))
             t == a \o b
  <2>1. DOMAIN s = 1..Len(s) /\ Len(s) \in Nat /\ k \in DOMAIN s /\ s[k] = e
    BY <1>2, LenProperties DEF ToSet
  <2>2. Unlinked(s, e) = t
    BY <1>2 DEF Unlinked, RemoveAt
  <2>3. \A i, j \in 1..Len(s) : s[i] = s[j] => i = j
    BY <2>1 DEF IsInjective
  <2> HIDE DEF k
  <2>4. k \in 1..Len(s)
    BY <2>1
  <2>5. /\ a \in Seq(S) /\ Len(a) = k - 1
        /\ \A i \in 1..k - 1 : a[i] = s[i]
    <3>1. 1 \in 1..Len(s) + 1 /\ k - 1 \in 0..Len(s)
      BY <2>1, <2>4
    <3>2. \A i \in 1..k - 1 : i \in 1..Len(s)
      BY <2>1, <2>4
    <3>3. QED
      BY <2>1, <2>4, <3>1, <3>2, SubSeqProperties
  <2>6. /\ b \in Seq(S) /\ Len(b) = Len(s) - k
        /\ \A i \in 1..Len(s) - k : b[i] = s[k + i]
    <3>1. k + 1 \in 1..Len(s) + 1 /\ Len(s) \in k..Len(s)
      BY <2>1, <2>4
    <3>2. QED
      BY <2>1, <2>4, <3>1, SubSeqProperties
  <2> HIDE DEF a, b
  <2>7. /\ t \in Seq(S) /\ Len(t) = Len(s) - 1
        /\ \A i \in 1..Len(s) - 1 : t[i] = IF i < k THEN s[i] ELSE s[i + 1]
    <3>1. /\ t \in Seq(S) /\ Len(t) = Len(a) + Len(b)
          /\ \A i \in 1..Len(a) + Len(b) : t[i] = IF i <= Len(a) THEN a[i] ELSE b[i - Len(a)]
      BY <2>5, <2>6, ConcatProperties
    <3>2. Len(a) + Len(b) = Len(s) - 1
      BY <2>1, <2>4, <2>5, <2>6
    <3>3. ASSUME NEW i \in 1..Len(s) - 1 PROVE t[i] = IF i < k THEN s[i] ELSE s[i + 1]
      <4>1. t[i] = IF i <= k - 1 THEN a[i] ELSE b[i - (k - 1)]
        BY <2>5, <3>1, <3>2
      <4>2. CASE i < k
        <5>1. i \in 1..k - 1
          BY <2>4, <4>2
        <5>2. QED
          BY <2>4, <2>5, <4>1, <4>2, <5>1
      <4>3. CASE ~(i < k)
        <5>1. i - (k - 1) \in 1..Len(s) - k /\ k + (i - (k - 1)) = i + 1
          BY <2>1, <2>4, <4>3
        <5>2. b[i - (k - 1)] = s[i + 1]
          BY <2>6, <5>1
        <5>3. QED
          BY <2>4, <4>1, <4>3, <5>2
      <4>4. QED
        BY <4>2, <4>3
    <3>4. QED
      BY <3>1, <3>2, <3>3
  <2> HIDE DEF t
  <2>8. DOMAIN t = 1..Len(s) - 1
    BY <2>7
  <2> DEFINE from(i) == IF i < k THEN i ELSE i + 1
  <2>9. \A i \in 1..Len(s) - 1 : from(i) \in 1..Len(s) /\ from(i) # k /\ t[i] = s[from(i)]
    BY <2>1, <2>4, <2>7
  <2>10. \A i, j \in 1..Len(s) - 1 : from(i) = from(j) => i = j
    BY <2>1, <2>4
  <2>11. \A j \in 1..Len(s) : j # k => \E i \in 1..Len(s) - 1 : from(i) = j
    <3> SUFFICES ASSUME NEW j \in 1..Len(s), j # k PROVE \E i \in 1..Len(s) - 1 : from(i) = j
      OBVIOUS
    <3>1. CASE j < k
      <4>1. j \in 1..Len(s) - 1 /\ from(j) = j
        BY <2>1, <2>4, <3>1
      <4>2. QED
        BY <4>1
    <3>2. CASE j > k
      <4>1. j - 1 \in 1..Len(s) - 1 /\ from(j - 1) = j
        BY <2>1, <2>4, <3>2
      <4>2. QED
        BY <4>1
    <3>3. QED
      BY <2>1, <2>4, <3>1, <3>2
  <2> HIDE DEF from
  <2>12. IsInjective(t)
    BY <2>3, <2>8, <2>9, <2>10 DEF IsInjective
  <2>13. ToSet(t) = ToSet(s) \ {e}
    <3>1. \A i \in 1..Len(s) - 1 : t[i] \in ToSet(s) /\ t[i] # e
      BY <2>1, <2>3, <2>4, <2>9 DEF ToSet
    <3>2. \A j \in 1..Len(s) : s[j] # e => s[j] \in ToSet(t)
      <4> SUFFICES ASSUME NEW j \in 1..Len(s), s[j] # e PROVE s[j] \in ToSet(t)
        OBVIOUS
      <4>1. PICK i \in 1..Len(s) - 1 : from(i) = j
        BY <2>1, <2>11
      <4>2. QED
        BY <2>8, <2>9, <4>1 DEF ToSet
    <3>3. QED
      BY <2>1, <2>8, <3>1, <3>2 DEF ToSet
  <2>14. QED
    BY <2>2, <2>7, <2>12, <2>13
<1>3. QED
  BY <1>1, <1>2

LEMMA ConcatElements ==
  ASSUME NEW S, NEW T, NEW s \in Seq(S), NEW t \in Seq(T)
  PROVE  ToSet(s \o t) = ToSet(s) \cup ToSet(t)
<1> DEFINE u == s \o t
<1>1. s \in Seq(S \cup T) /\ t \in Seq(S \cup T)
  BY LargerSeq
<1>2. /\ u \in Seq(S \cup T) /\ Len(u) = Len(s) + Len(t)
      /\ \A i \in 1..Len(s) + Len(t) : u[i] = IF i <= Len(s) THEN s[i] ELSE t[i - Len(s)]
  BY <1>1, ConcatProperties
<1>3. /\ Len(s) \in Nat /\ Len(t) \in Nat /\ DOMAIN s = 1..Len(s) /\ DOMAIN t = 1..Len(t)
      /\ DOMAIN u = 1..Len(s) + Len(t)
  BY <1>2, LenProperties
<1> HIDE DEF u
<1>4. \A i \in 1..Len(s) : i \in 1..Len(s) + Len(t) /\ u[i] = s[i]
  BY <1>2, <1>3
<1>5. \A i \in 1..Len(t) : Len(s) + i \in 1..Len(s) + Len(t) /\ u[Len(s) + i] = t[i]
  <2> SUFFICES ASSUME NEW i \in 1..Len(t)
               PROVE  Len(s) + i \in 1..Len(s) + Len(t) /\ u[Len(s) + i] = t[i]
    OBVIOUS
  <2>1. /\ Len(s) + i \in 1..Len(s) + Len(t) /\ ~(Len(s) + i <= Len(s))
        /\ Len(s) + i - Len(s) = i
    BY <1>3
  <2>2. QED
    BY <1>2, <2>1
<1>6. \A i \in 1..Len(s) + Len(t) : u[i] \in ToSet(s) \cup ToSet(t)
  <2> SUFFICES ASSUME NEW i \in 1..Len(s) + Len(t) PROVE u[i] \in ToSet(s) \cup ToSet(t)
    OBVIOUS
  <2>1. CASE i <= Len(s)
    <3>1. i \in 1..Len(s)
      BY <1>3, <2>1
    <3>2. QED
      BY <1>3, <1>4, <3>1 DEF ToSet
  <2>2. CASE ~(i <= Len(s))
    <3>1. i - Len(s) \in 1..Len(t) /\ u[i] = t[i - Len(s)]
      BY <1>2, <1>3, <2>2
    <3>2. QED
      BY <1>3, <3>1 DEF ToSet
  <2>3. QED
    BY <2>1, <2>2
<1>7. ToSet(s) \subseteq ToSet(u) /\ ToSet(t) \subseteq ToSet(u)
  BY <1>3, <1>4, <1>5 DEF ToSet
<1>8. QED
  BY <1>3, <1>6, <1>7 DEF ToSet, u

-----------------------------------------------------------------------------
(* The call stack.                                                         *)

Base     == {"main", "destroy_clients", "destroy_detached", "end"}
Loop     == {"run", "poll", "dispatch"}
Newcomer == {"client_create", "emit"}

(* How deep a function is called.                                          *)
Fits(f, i) ==
  /\ "at" \in DOMAIN f
  /\ f.at \in Base <=> i = 1
  /\ f.at \in Loop => i = 2
  /\ f.at \in Newcomer => i = 3

StackShape ==
  /\ IsSequence(stack) /\ stack # << >>
  /\ \A i \in DOMAIN stack : Fits(stack[i], i)

LEMMA Depths ==
  ASSUME NEW n \in Nat
  PROVE  /\ \A i \in 1..n : i = n \/ i \in 1..n - 1
         /\ \A i \in 1..n - 1 : i \in 1..n
         /\ \A i \in 1..n : i \in 1..n + 1
         /\ \A i \in 1..n + 1 : i \in {n, n + 1} \/ i \in 1..n - 1
OBVIOUS

LEMMA FrontIs ==
  ASSUME NEW S, NEW s \in Seq(S), s # << >>
  PROVE  /\ SubSeq(s, 1, Len(s) - 1) \in Seq(S) /\ Len(SubSeq(s, 1, Len(s) - 1)) = Len(s) - 1
         /\ \A i \in 1..Len(s) - 1 : SubSeq(s, 1, Len(s) - 1)[i] = s[i]
<1>1. PICK n \in Nat \ {0} : n = Len(s)
  BY EmptySeq, LenProperties
<1>2. \A i \in 1..n - 1 : i \in 1..n
  BY Depths
<1>3. \A i \in 1..n - 1 : s[i] \in S
  BY <1>1, <1>2, ElementOfSeq
<1> DEFINE t == SubSeq(s, 1, n - 1)
<1>4. 1 \in Int /\ n - 1 \in Int
  OBVIOUS
<1>5. /\ t \in Seq(S) /\ Len(t) = IF 1 <= n - 1 THEN n - 1 - 1 + 1 ELSE 0
      /\ \A i \in 1..n - 1 - 1 + 1 : t[i] = s[1 + i - 1]
  BY <1>3, <1>4, SubSeqProperties
<1> HIDE DEF t
<1>6. Len(t) = n - 1
  BY <1>5
<1>7. ASSUME NEW i \in 1..n - 1 PROVE t[i] = s[i]
  <2>1. i \in 1..n - 1 - 1 + 1 /\ 1 + i - 1 = i
    OBVIOUS
  <2>2. QED
    BY <1>5, <2>1
<1>8. QED
  BY <1>1, <1>5, <1>6, <1>7 DEF t

LEMMA StackIs ==
  ASSUME StackShape
  PROVE  /\ Len(stack) \in Nat \ {0} /\ DOMAIN stack = 1..Len(stack)
         /\ Top = stack[Len(stack)] /\ Fits(Top, Len(stack))
<1>1. PICK S : stack \in Seq(S)
  BY DEF StackShape, IsSequence
<1>2. Len(stack) \in Nat \ {0} /\ DOMAIN stack = 1..Len(stack)
  BY <1>1, EmptySeq, LenProperties DEF StackShape
<1>3. Top = stack[Len(stack)]
  BY DEF Top, Last
<1>4. Len(stack) \in DOMAIN stack
  BY <1>2
<1>5. QED
  BY <1>2, <1>3, <1>4 DEF StackShape

LEMMA CallersAre ==
  ASSUME StackShape
  PROVE  /\ IsSequence(Callers) /\ Len(Callers) = Len(stack) - 1 /\ Len(stack) \in Nat \ {0}
         /\ \A i \in 1..Len(stack) - 1 : Callers[i] = stack[i]
<1>1. PICK S : stack \in Seq(S)
  BY DEF StackShape, IsSequence
<1>2. stack # << >>
  BY DEF StackShape
<1>3. /\ Callers \in Seq(S) /\ Len(Callers) = Len(stack) - 1
      /\ \A i \in 1..Len(stack) - 1 : Callers[i] = stack[i]
  BY <1>1, <1>2, FrontIs DEF Callers
<1>4. QED
  BY <1>3, StackIs DEF IsSequence

(* What the three ways to go on make of the stack: below the frame that    *)
(* was on top nothing changes.                                             *)
Keeps(n) ==
  /\ Len(stack') = n /\ n \in Nat /\ DOMAIN stack' = 1..n /\ IsSequence(stack')
  /\ \A i \in 1..Len(stack) - 1 : i \in 1..n => stack'[i] = stack[i]

LEMMA SequenceAppended ==
  ASSUME NEW s, IsSequence(s), NEW e
  PROVE  /\ IsSequence(Append(s, e)) /\ Len(Append(s, e)) = Len(s) + 1 /\ Len(s) \in Nat
         /\ DOMAIN Append(s, e) = 1..Len(s) + 1
         /\ Append(s, e)[Len(s) + 1] = e
         /\ \A i \in 1..Len(s) : Append(s, e)[i] = s[i]
<1>1. PICK S : s \in Seq(S)
  BY DEF IsSequence
<1>2. s \in Seq(S \cup {e})
  BY <1>1, LargerSeq
<1>3. /\ Append(s, e) \in Seq(S \cup {e}) /\ Len(Append(s, e)) = Len(s) + 1 /\ Len(s) \in Nat
      /\ Append(s, e)[Len(s) + 1] = e
      /\ \A i \in 1..Len(s) : Append(s, e)[i] = s[i]
  BY <1>2, AppendProperties, LenProperties
<1>4. DOMAIN Append(s, e) = 1..Len(s) + 1
  BY <1>3, LenProperties
<1>5. QED
  BY <1>3, <1>4 DEF IsSequence

LEMMA GotoStack ==
  ASSUME StackShape, NEW f, Goto(f)
  PROVE  Keeps(Len(stack)) /\ stack'[Len(stack)] = f
<1>1. /\ IsSequence(Callers) /\ Len(Callers) = Len(stack) - 1 /\ Len(stack) \in Nat \ {0}
      /\ \A i \in 1..Len(stack) - 1 : Callers[i] = stack[i]
  BY CallersAre
<1>2. Len(Callers) + 1 = Len(stack)
  BY <1>1
<1>3. stack' = Append(Callers, f)
  BY DEF Goto
<1>4. QED
  BY <1>1, <1>2, <1>3, SequenceAppended DEF Keeps

LEMMA CallStack ==
  ASSUME StackShape, NEW f, NEW after, Call(f, after)
  PROVE  /\ Keeps(Len(stack) + 1) /\ stack'[Len(stack)] = after
         /\ stack'[Len(stack) + 1] = f
<1> DEFINE n == Len(stack)
           pair == <<after, f>>
<1> HIDE DEF pair
<1>1. /\ IsSequence(Callers) /\ Len(Callers) = Len(stack) - 1 /\ Len(stack) \in Nat \ {0}
      /\ \A i \in 1..Len(stack) - 1 : Callers[i] = stack[i]
  BY CallersAre
<1>2. Len(Callers) = n - 1 /\ n \in Nat \ {0} /\ \A i \in 1..n - 1 : Callers[i] = stack[i]
  BY <1>1
<1>3. PICK S : Callers \in Seq(S)
  BY CallersAre DEF IsSequence
<1> DEFINE T == S \cup {after, f}
<1>4. Callers \in Seq(T)
  BY <1>3, LargerSeq
<1>5. pair \in Seq(T) /\ Len(pair) = 2 /\ pair[1] = after /\ pair[2] = f
  BY DEF pair
<1>6. stack' = Callers \o pair
  BY DEF Call, pair
<1> HIDE DEF n, T
<1>7. pair \in Seq(T)
  BY <1>5
<1>8. /\ stack' \in Seq(T) /\ Len(stack') = n - 1 + 2
      /\ \A i \in 1..n - 1 + 2 : stack'[i] = IF i <= n - 1 THEN Callers[i] ELSE pair[i - (n - 1)]
  <2>1. /\ Callers \o pair \in Seq(T) /\ Len(Callers \o pair) = Len(Callers) + Len(pair)
        /\ \A i \in 1..Len(Callers) + Len(pair) :
             (Callers \o pair)[i] = IF i <= Len(Callers) THEN Callers[i] ELSE pair[i - Len(Callers)]
    BY <1>4, <1>7, ConcatProperties
  <2>2. Len(Callers) = n - 1 /\ Len(pair) = 2
    BY <1>2, <1>5
  <2>3. QED
    BY <1>6, <2>1, <2>2
<1>9. n - 1 + 2 = n + 1 /\ n - (n - 1) = 1 /\ n + 1 - (n - 1) = 2
  BY <1>2
<1>10. stack'[n] = after /\ stack'[n + 1] = f
  BY <1>2, <1>5, <1>8, <1>9
<1>11. \A i \in 1..n - 1 : stack'[i] = stack[i]
  BY <1>2, <1>8
<1>12. DOMAIN stack' = 1..n + 1 /\ Len(stack') = n + 1 /\ n + 1 \in Nat
  BY <1>2, <1>8, <1>9, LenProperties
<1>13. QED
  BY <1>8, <1>10, <1>11, <1>12 DEF Keeps, IsSequence, n

LEMMA ReturnStack ==
  ASSUME StackShape, Return
  PROVE  Keeps(Len(stack) - 1)
<1>1. stack' = Callers
  BY DEF Return
<1>2. /\ IsSequence(Callers) /\ Len(Callers) = Len(stack) - 1 /\ Len(stack) \in Nat \ {0}
      /\ \A i \in 1..Len(stack) - 1 : Callers[i] = stack[i]
  BY CallersAre
<1>3. DOMAIN Callers = 1..Len(Callers)
  BY <1>2, LenProperties DEF IsSequence
<1>4. QED
  BY <1>1, <1>2, <1>3 DEF Keeps

-----------------------------------------------------------------------------
(* The invariant.                                                          *)

(* Who is due and has not been told or removed is on emit_list.            *)
EmissionSound(f, list) ==
  /\ {"due", "called", "gone"} \subseteq DOMAIN f
  /\ IsSequence(f.called) /\ IsInjective(f.called) /\ ToSet(f.called) \subseteq f.due
  /\ f.due \ (f.gone \cup ToSet(f.called)) = ToSet(list)

(* A listener is on one of the two lists, once.                            *)
ListsSound ==
  /\ {"listener_list", "emit_list"} \subseteq DOMAIN display
  /\ IsSequence(display.listener_list) /\ IsInjective(display.listener_list)
  /\ IsSequence(display.emit_list) /\ IsInjective(display.emit_list)
  /\ ToSet(display.listener_list) \cap ToSet(display.emit_list) = {}

ListenersInv ==
  /\ StackShape /\ ListsSound
  /\ display.emit_list # << >> => \E i \in DOMAIN stack : stack[i].at = "emit"
  /\ \A i \in DOMAIN stack : stack[i].at = "emit" => EmissionSound(stack[i], display.emit_list)

SameLists == /\ {"listener_list", "emit_list"} \subseteq DOMAIN display'
             /\ display'.listener_list = display.listener_list
             /\ display'.emit_list = display.emit_list

LEMMA Frames ==
  /\ \A at, c : "at" \in DOMAIN Frame(at, c) /\ Frame(at, c).at = at
  /\ \A at, c, id : "at" \in DOMAIN FrameOf(at, c, id) /\ FrameOf(at, c, id).at = at
  /\ \A c, next : "at" \in DOMAIN Flushing(c, next) /\ Flushing(c, next).at = "flush"
  /\ \A next : "at" \in DOMAIN Destroying(next) /\ Destroying(next).at = "flush_next"
  /\ \A ready : "at" \in DOMAIN Dispatching(ready) /\ Dispatching(ready).at = "dispatch"
  /\ \A c, mask : "at" \in DOMAIN Reading(c, mask) /\ Reading(c, mask).at = "connection_data"
  /\ \A c, first : "at" \in DOMAIN Handling(c, first) /\ Handling(c, first).at = "requests"
  /\ \A c, id, rest : "at" \in DOMAIN Telling(c, id, rest) /\ Telling(c, id, rest).at = "tell"
  /\ \A op, g, rest, destroys : /\ "at" \in DOMAIN Announcing(op, g, rest, destroys)
                                /\ Announcing(op, g, rest, destroys).at = "announce"
  /\ \A c, id : "at" \in DOMAIN Handler(c, id) /\ Handler(c, id).at = "user"
BY DEF Frame, FrameOf, Flushing, Destroying, Dispatching, Reading, Handling, Handler,
       Telling, Announcing

LEMMA GotoShape ==
  ASSUME StackShape, NEW f, Goto(f), Fits(f, Len(stack))
  PROVE  StackShape'
<1>1. Keeps(Len(stack)) /\ stack'[Len(stack)] = f
  BY GotoStack
<1>2. Len(stack) \in Nat \ {0} /\ \A i \in 1..Len(stack) : Fits(stack[i], i)
  BY StackIs DEF StackShape
<1>3. ASSUME NEW i \in 1..Len(stack) PROVE Fits(stack'[i], i)
  <2>1. CASE i = Len(stack)
    BY <1>1, <2>1
  <2>2. CASE i # Len(stack)
    <3>1. i \in 1..Len(stack) - 1
      BY <1>2, <2>2
    <3>2. stack'[i] = stack[i]
      BY <1>1, <3>1 DEF Keeps
    <3>3. QED
      BY <1>2, <3>2
  <2>3. QED
    BY <2>1, <2>2
<1>4. stack' # << >>
  BY <1>1, <1>2 DEF Keeps
<1>5. QED
  BY <1>1, <1>3, <1>4 DEF Keeps, StackShape, Fits, IsSequence

LEMMA CallShape ==
  ASSUME StackShape, NEW f, NEW after, Call(f, after),
         Fits(after, Len(stack)), Fits(f, Len(stack) + 1)
  PROVE  StackShape'
<1>1. Keeps(Len(stack) + 1) /\ stack'[Len(stack)] = after /\ stack'[Len(stack) + 1] = f
  BY CallStack
<1>2. Len(stack) \in Nat \ {0} /\ \A i \in 1..Len(stack) : Fits(stack[i], i)
  BY StackIs DEF StackShape
<1>3. ASSUME NEW i \in 1..Len(stack) + 1 PROVE Fits(stack'[i], i)
  <2>1. CASE i \in {Len(stack), Len(stack) + 1}
    BY <1>1, <2>1
  <2>2. CASE i \notin {Len(stack), Len(stack) + 1}
    <3>1. i \in 1..Len(stack) - 1
      BY <1>2, <2>2
    <3>2. stack'[i] = stack[i]
      BY <1>1, <3>1 DEF Keeps
    <3>3. QED
      BY <1>2, <3>1, <3>2
  <2>3. QED
    BY <2>1, <2>2
<1>4. stack' # << >>
  BY <1>1, <1>2 DEF Keeps
<1>5. QED
  BY <1>1, <1>3, <1>4 DEF Keeps, StackShape, Fits, IsSequence

LEMMA ReturnShape ==
  ASSUME StackShape, Return, Top.at \notin Base
  PROVE  StackShape' /\ Len(stack) - 1 \in Nat \ {0}
<1>1. Keeps(Len(stack) - 1)
  BY ReturnStack
<1>2. Len(stack) \in Nat \ {0} /\ \A i \in 1..Len(stack) : Fits(stack[i], i)
  BY StackIs DEF StackShape
<1>3. Len(stack) # 1
  BY StackIs DEF Fits
<1>4. \A i \in 1..Len(stack) - 1 : Fits(stack'[i], i)
  BY <1>1, <1>2 DEF Keeps
<1>5. stack' # << >>
  BY <1>1, <1>2, <1>3 DEF Keeps
<1>6. QED
  BY <1>1, <1>2, <1>3, <1>4, <1>5 DEF Keeps, StackShape, Fits, IsSequence

(* What leaves the two lists and the emission alone.                       *)
LEMMA QuietStep ==
  ASSUME ListenersInv, StackShape', SameLists,
         \A i \in DOMAIN stack' :
           stack'[i].at = "emit" => i \in DOMAIN stack /\ stack'[i] = stack[i],
         \A i \in DOMAIN stack :
           stack[i].at = "emit" => i \in DOMAIN stack' /\ stack'[i] = stack[i]
  PROVE  ListenersInv'
<1>1. ListsSound'
  BY DEF ListenersInv, ListsSound, SameLists, IsSequence
<1>2. ASSUME NEW i \in DOMAIN stack', stack'[i].at = "emit"
      PROVE  EmissionSound(stack'[i], display'.emit_list)
  <2>1. i \in DOMAIN stack /\ stack'[i] = stack[i]
    BY <1>2
  <2>2. EmissionSound(stack[i], display.emit_list)
    BY <1>2, <2>1 DEF ListenersInv
  <2>3. QED
    BY <2>1, <2>2 DEF SameLists
<1>3. display'.emit_list # << >> => \E i \in DOMAIN stack' : stack'[i].at = "emit"
  BY DEF ListenersInv, SameLists
<1>4. QED
  BY <1>1, <1>2, <1>3 DEF ListenersInv

LEMMA QuietGoto ==
  ASSUME ListenersInv, SameLists, NEW f, Goto(f), Fits(f, Len(stack)),
         Top.at # "emit", f.at # "emit"
  PROVE  ListenersInv'
<1>1. StackShape /\ StackShape'
  BY GotoShape DEF ListenersInv
<1>2. Keeps(Len(stack)) /\ stack'[Len(stack)] = f
  BY <1>1, GotoStack
<1>3. Len(stack) \in Nat \ {0} /\ DOMAIN stack = 1..Len(stack) /\ Top = stack[Len(stack)]
  BY <1>1, StackIs
<1>4. \A i \in 1..Len(stack) : i = Len(stack) \/ i \in 1..Len(stack) - 1
  BY <1>3, Depths
<1>5. QED
  BY <1>1, <1>2, <1>3, <1>4, QuietStep DEF Keeps

LEMMA QuietCall ==
  ASSUME ListenersInv, SameLists, NEW f, NEW after, Call(f, after),
         Fits(after, Len(stack)), Fits(f, Len(stack) + 1),
         Top.at # "emit", after.at # "emit", f.at # "emit"
  PROVE  ListenersInv'
<1>1. StackShape /\ StackShape'
  BY CallShape DEF ListenersInv
<1>2. Keeps(Len(stack) + 1) /\ stack'[Len(stack)] = after /\ stack'[Len(stack) + 1] = f
  BY <1>1, CallStack
<1>3. Len(stack) \in Nat \ {0} /\ DOMAIN stack = 1..Len(stack) /\ Top = stack[Len(stack)]
  BY <1>1, StackIs
<1>4. \A i \in 1..Len(stack) + 1 :
        i \in {Len(stack), Len(stack) + 1} \/ (i \in 1..Len(stack) - 1 /\ i \in 1..Len(stack))
  BY <1>3, Depths
<1>5. \A i \in 1..Len(stack) :
        i \in 1..Len(stack) + 1 /\ (i = Len(stack) \/ i \in 1..Len(stack) - 1)
  BY <1>3, Depths
<1>6. QED
  BY <1>1, <1>2, <1>3, <1>4, <1>5, QuietStep DEF Keeps

LEMMA QuietReturn ==
  ASSUME ListenersInv, SameLists, Return, Top.at \notin Base, Top.at # "emit"
  PROVE  ListenersInv'
<1>1. StackShape /\ StackShape' /\ Keeps(Len(stack) - 1)
  BY ReturnShape, ReturnStack DEF ListenersInv
<1>2. Len(stack) \in Nat \ {0} /\ DOMAIN stack = 1..Len(stack) /\ Top = stack[Len(stack)]
  BY <1>1, StackIs
<1>3. \A i \in 1..Len(stack) : i = Len(stack) \/ i \in 1..Len(stack) - 1
  BY <1>2, Depths
<1>4. \A i \in 1..Len(stack) - 1 : i \in 1..Len(stack)
  BY <1>2, Depths
<1>5. QED
  BY <1>1, <1>2, <1>3, <1>4, QuietStep DEF Keeps

(* Functions that may be called at any depth above the first.              *)
Above(f) == "at" \in DOMAIN f /\ f.at \notin Base \cup Loop \cup Newcomer

LEMMA AboveFits ==
  ASSUME NEW f, Above(f), NEW n \in Nat \ {0}
  PROVE  Fits(f, n + 1) /\ (n # 1 => Fits(f, n)) /\ f.at # "emit" /\ f.at \notin Base
BY DEF Above, Fits, Base, Loop, Newcomer

LEMMA AboveFrames ==
  /\ \A c : /\ Above(Frame("client_destroy", c)) /\ Above(Frame("client_flush", c))
  /\ \A c, id : /\ Above(FrameOf("resource_destroy", c, id))
                /\ Above(FrameOf("resource_destroyed", c, id))
                /\ Above(FrameOf("destroy_resource", c, id))
                /\ Above(FrameOf("free_resource", c, id))
                /\ Above(FrameOf("client_resources", c, id))
                /\ Above(Handler(c, id))
  /\ \A c, next : Above(Flushing(c, next))
  /\ \A next : Above(Destroying(next))
  /\ \A c, mask : Above(Reading(c, mask))
  /\ \A c, first : Above(Handling(c, first))
  /\ \A c, id, rest : Above(Telling(c, id, rest))
  /\ \A op, g, rest, destroys : Above(Announcing(op, g, rest, destroys))
BY Frames DEF Above, Base, Loop, Newcomer

LEMMA TopFits ==
  ASSUME ListenersInv
  PROVE  /\ Len(stack) \in Nat \ {0} /\ Fits(Top, Len(stack))
         /\ Above(Top) => Len(stack) # 1
         /\ {"listener_list", "emit_list"} \subseteq DOMAIN display
<1>1. Len(stack) \in Nat \ {0} /\ Fits(Top, Len(stack))
  BY StackIs DEF ListenersInv
<1>2. Above(Top) => Len(stack) # 1
  BY <1>1 DEF Above, Fits
<1>3. QED
  BY <1>1, <1>2 DEF ListenersInv, ListsSound

LEMMA AboveGoto ==
  ASSUME ListenersInv, SameLists, Above(Top), NEW f, Above(f), Goto(f)
  PROVE  ListenersInv'
<1>1. Fits(f, Len(stack))
  BY TopFits, AboveFits
<1>2. Top.at # "emit" /\ f.at # "emit"
  BY TopFits, AboveFits
<1>3. QED
  BY <1>1, <1>2, QuietGoto

LEMMA AboveCall ==
  ASSUME ListenersInv, SameLists, Above(Top), NEW f, Above(f), NEW after, Above(after),
         Call(f, after)
  PROVE  ListenersInv'
<1>1. Fits(after, Len(stack)) /\ Fits(f, Len(stack) + 1)
  BY TopFits, AboveFits
<1>2. Top.at # "emit" /\ f.at # "emit" /\ after.at # "emit"
  BY TopFits, AboveFits
<1>3. QED
  BY <1>1, <1>2, QuietCall

LEMMA AboveReturn ==
  ASSUME ListenersInv, SameLists, Above(Top), Return
  PROVE  ListenersInv'
<1>1. Top.at # "emit" /\ Top.at \notin Base
  BY TopFits, AboveFits
<1>2. QED
  BY <1>1, QuietReturn

(* Where a step is taken that is not the loop's or an emission's.          *)
LEMMA AboveAt ==
  ASSUME ListenersInv, NEW at, At(at), at \notin Base \cup Loop \cup Newcomer
  PROVE  Above(Top)
BY TopFits DEF At, Above, Fits

LEMMA SameDisplay ==
  ASSUME ListenersInv, UNCHANGED display
  PROVE  SameLists
BY TopFits DEF SameLists

-----------------------------------------------------------------------------
(* wl_display_run.                                                         *)

LEMMA RunInv ==
  ASSUME ListenersInv, wl_display_run
  PROVE  ListenersInv'
<1>1. /\ Top.at = "main" /\ SameLists
      /\ Call(Frame("run", NULL), Frame("destroy_clients", NULL))
  BY TopFits DEF wl_display_run, At, SameLists
<1>2. Len(stack) = 1
  BY <1>1, TopFits DEF Fits, Base
<1>3. /\ Fits(Frame("run", NULL), 2) /\ Frame("run", NULL).at = "run"
      /\ Fits(Frame("destroy_clients", NULL), 1)
      /\ Frame("destroy_clients", NULL).at = "destroy_clients"
  BY Frames DEF Fits, Base, Loop, Newcomer
<1>4. Len(stack) + 1 = 2
  BY <1>2
<1>5. QED
  BY <1>1, <1>2, <1>3, <1>4, QuietCall

LEMMA LoopTestInv ==
  ASSUME ListenersInv, LoopTest
  PROVE  ListenersInv'
<1>1. Top.at = "run" /\ SameLists
  BY SameDisplay DEF LoopTest, At
<1>2. Len(stack) = 2
  BY <1>1, TopFits DEF Fits, Base, Loop
<1>3. Top.at # "emit" /\ Top.at \notin Base
  BY <1>1 DEF Base
<1>4. CASE Return
  BY <1>1, <1>3, <1>4, QuietReturn
<1>5. ASSUME NEW c, NEW next, Call(Flushing(c, next), Frame("poll", NULL))
      PROVE  ListenersInv'
  <2>1. Fits(Frame("poll", NULL), 2) /\ Frame("poll", NULL).at = "poll"
    BY Frames DEF Fits, Base, Loop, Newcomer
  <2>2. Fits(Flushing(c, next), Len(stack) + 1) /\ Flushing(c, next).at # "emit"
    BY <1>2, AboveFrames, AboveFits
  <2>3. QED
    BY <1>1, <1>2, <1>3, <1>5, <2>1, <2>2, QuietCall
<1>6. QED
  BY <1>4, <1>5 DEF LoopTest

LEMMA FlushInv ==
  ASSUME ListenersInv, FlushClient \/ FlushNext
  PROVE  ListenersInv'
<1>1. Above(Top) /\ SameLists
  <2>1. At("flush") \/ At("flush_next")
    BY DEF FlushClient, FlushNext
  <2>2. Above(Top)
    BY <2>1, AboveAt DEF Base, Loop, Newcomer
  <2>3. QED
    BY <2>2, SameDisplay DEF FlushClient, FlushNext, otherVars
<1>2. CASE FlushNext
  BY <1>1, <1>2, AboveFrames, AboveGoto DEF FlushNext
<1>3. CASE FlushClient
  <2>1. \/ Return
        \/ \E c, next : Goto(Flushing(c, next))
        \/ \E c, next : Call(Frame("client_destroy", c), Destroying(next))
    BY <1>3 DEF FlushClient
  <2>2. QED
    BY <1>1, <2>1, AboveFrames, AboveGoto, AboveCall, AboveReturn
<1>4. QED
  BY <1>2, <1>3

LEMMA PollInv ==
  ASSUME ListenersInv, Poll \/ DispatchEnds
  PROVE  ListenersInv'
<1>1. SameLists /\ Top.at \in Loop
  BY SameDisplay DEF Poll, DispatchEnds, At, Loop
<1>2. Len(stack) = 2 /\ Top.at # "emit"
  BY <1>1, TopFits DEF Fits, Loop
<1>3. PICK f : Goto(f) /\ (f = Frame("run", NULL) \/ \E ready : f = Dispatching(ready))
  BY DEF Poll, DispatchEnds
<1>4. Fits(f, 2) /\ f.at # "emit"
  BY <1>3, Frames DEF Fits, Base, Loop, Newcomer
<1>5. QED
  BY <1>1, <1>2, <1>3, <1>4, QuietGoto

LEMMA DispatchSourceInv ==
  ASSUME ListenersInv, DispatchSource
  PROVE  ListenersInv'
<1>1. PICK r \in Top.ready :
        LET rest == Dispatching(Top.ready \ {r})
        IN  \/ /\ display' = [display EXCEPT !.efd = FALSE]
               /\ Goto(rest)
            \/ Call(Handler(NULL, 0), rest) /\ UNCHANGED display
            \/ Call(Frame("client_create", r.c), rest) /\ UNCHANGED display
            \/ Call(Reading(r.c, r.mask), rest) /\ UNCHANGED display
            \/ Goto(rest) /\ UNCHANGED display
  BY DEF DispatchSource
<1>2. SameLists
  BY <1>1, TopFits DEF SameLists
<1>3. Top.at = "dispatch"
  BY DEF DispatchSource, At
<1>4. Len(stack) = 2 /\ Top.at # "emit"
  BY <1>3, TopFits DEF Fits, Loop
<1>5. PICK rest : \/ Goto(Dispatching(rest))
                  \/ \E c : Call(Frame("client_create", c), Dispatching(rest))
                  \/ \E c, id : Call(Handler(c, id), Dispatching(rest))
                  \/ \E c, mask : Call(Reading(c, mask), Dispatching(rest))
  BY <1>1
<1>6. Fits(Dispatching(rest), 2) /\ Dispatching(rest).at # "emit"
  BY Frames DEF Fits, Base, Loop, Newcomer
<1>7. CASE Goto(Dispatching(rest))
  BY <1>2, <1>4, <1>6, <1>7, QuietGoto
<1>8. ASSUME NEW f, Call(f, Dispatching(rest)), Above(f) \/ \E c : f = Frame("client_create", c)
      PROVE  ListenersInv'
  <2>1. Len(stack) + 1 = 3
    BY <1>4
  <2>2. Fits(f, 3) /\ f.at # "emit"
    BY <1>8, Frames DEF Above, Fits, Base, Loop, Newcomer
  <2>3. QED
    BY <1>2, <1>4, <1>6, <1>8, <2>1, <2>2, QuietCall
<1>9. QED
  BY <1>5, <1>7, <1>8, AboveFrames

-----------------------------------------------------------------------------
(* Requests, and the destruction of resources and clients.                 *)

LEMMA RequestInv ==
  ASSUME ListenersInv,
         \/ wl_client_connection_data \/ RejectRequest \/ display_get_registry
         \/ display_sync \/ registry_bind \/ HandleDestroy \/ RequestsEnd
  PROVE  ListenersInv'
<1>1. Above(Top)
  <2>1. At("connection_data") \/ At("requests")
    BY DEF wl_client_connection_data, RejectRequest, display_get_registry, display_sync,
           registry_bind, HandleDestroy, RequestsEnd, MayHandle
  <2>2. QED
    BY <2>1, AboveAt DEF Base, Loop, Newcomer
<1>2. SameLists
  <2>1. CASE display_get_registry
    BY <2>1, TopFits DEF display_get_registry, SameLists
  <2>2. CASE ~display_get_registry
    BY <2>2, SameDisplay DEF wl_client_connection_data, RejectRequest, display_sync, registry_bind,
           HandleDestroy, RequestsEnd
  <2>3. QED
    BY <2>1, <2>2
<1>3. \/ Return
      \/ \E f : Goto(f) /\ \/ \E c : f = Frame("client_destroy", c)
                           \/ \E c, first : f = Handling(c, first)
      \/ \E f, c, first : /\ Call(f, Handling(c, first))
                          /\ \E d, id, rest : f \in {Handler(d, id), Telling(d, id, rest),
                                                  FrameOf("resource_destroy", d, id)}
  <2>1. CASE wl_client_connection_data
    <3>1. Goto(Frame("client_destroy", Top.c)) \/ Goto(Handling(Top.c, TRUE))
      BY <2>1 DEF wl_client_connection_data
    <3>2. QED
      BY <3>1
  <2>2. CASE RejectRequest \/ display_sync
    BY <2>2 DEF RejectRequest, display_sync, Handled
  <2>3. CASE display_get_registry
    BY <2>3 DEF display_get_registry, Handled
  <2>4. CASE registry_bind
    BY <2>4 DEF registry_bind, Handled
  <2>5. CASE HandleDestroy
    BY <2>5 DEF HandleDestroy, Handled
  <2>6. CASE RequestsEnd
    BY <2>6 DEF RequestsEnd
  <2>7. QED
    BY <2>1, <2>2, <2>4, <2>5, <2>6, <2>3
<1>4. QED
  BY <1>1, <1>2, <1>3, AboveFrames, AboveGoto, AboveCall, AboveReturn

LEMMA TellInv ==
  ASSUME ListenersInv, Announce \/ AnnouncementEnds \/ TellGlobal
  PROVE  ListenersInv'
<1>1. Above(Top)
  <2>1. At("announce") \/ At("tell")
    BY DEF Announce, AnnouncementEnds, TellGlobal
  <2>2. QED
    BY <2>1, AboveAt DEF Base, Loop, Newcomer
<1>2. SameLists
  <2>1. CASE AnnouncementEnds
    BY <2>1, TopFits DEF AnnouncementEnds, SameLists
  <2>2. CASE ~AnnouncementEnds
    BY <2>2, SameDisplay DEF Announce, TellGlobal
  <2>3. QED
    BY <2>1, <2>2
<1>3. Return \/ Goto([Top EXCEPT !.rest = Tail(@)])
  BY DEF Announce, AnnouncementEnds, TellGlobal
<1>4. Above([Top EXCEPT !.rest = Tail(@)])
  BY <1>1 DEF Above
<1>5. QED
  BY <1>1, <1>2, <1>3, <1>4, AboveGoto, AboveReturn

LEMMA ResourceInv ==
  ASSUME ListenersInv,
         wl_resource_destroy \/ DeleteId \/ destroy_resource \/ FreeResource
  PROVE  ListenersInv'
<1>1. Above(Top)
  <2>1. \/ At("resource_destroy") \/ At("resource_destroyed") \/ At("destroy_resource")
        \/ At("free_resource")
    BY DEF wl_resource_destroy, DeleteId, destroy_resource, FreeResource
  <2>2. QED
    BY <2>1, AboveAt DEF Base, Loop, Newcomer
<1>2. SameLists
  <2>1. CASE FreeResource
    BY <2>1, TopFits DEF FreeResource, SameLists
  <2>2. CASE ~FreeResource
    BY <2>2, SameDisplay DEF wl_resource_destroy, DeleteId, destroy_resource
  <2>3. QED
    BY <2>1, <2>2
<1>3. CASE wl_resource_destroy
  BY <1>1, <1>2, <1>3, AboveFrames, AboveCall DEF wl_resource_destroy
<1>4. CASE DeleteId \/ FreeResource
  BY <1>1, <1>2, <1>4, AboveReturn DEF DeleteId, FreeResource
<1>5. CASE destroy_resource
  BY <1>1, <1>2, <1>5, AboveFrames, AboveCall, AboveGoto DEF destroy_resource
<1>6. QED
  BY <1>3, <1>4, <1>5

LEMMA ClientDestroyInv ==
  ASSUME ListenersInv,
         wl_client_destroy \/ FlushLast \/ EachResource \/ FreeClient
  PROVE  ListenersInv'
<1>1. Above(Top)
  <2>1. At("client_destroy") \/ At("client_flush") \/ At("client_resources")
    BY DEF wl_client_destroy, FlushLast, EachResource, FreeClient
  <2>2. QED
    BY <2>1, AboveAt DEF Base, Loop, Newcomer
<1>2. SameLists
  <2>1. CASE FreeClient
    BY <2>1, TopFits DEF FreeClient, SameLists
  <2>2. CASE ~FreeClient
    BY <2>2, SameDisplay DEF wl_client_destroy, FlushLast, EachResource
  <2>3. QED
    BY <2>1, <2>2
<1>3. CASE wl_client_destroy
  BY <1>1, <1>2, <1>3, AboveFrames, AboveCall, AboveGoto DEF wl_client_destroy
<1>4. CASE FlushLast
  BY <1>1, <1>2, <1>4, AboveFrames, AboveGoto DEF FlushLast
<1>5. CASE EachResource
  <2>1. Above([Top EXCEPT !.id = @ + 1])
    BY <1>1 DEF Above
  <2>2. QED
    BY <1>1, <1>2, <1>5, <2>1, AboveFrames, AboveCall, AboveGoto DEF EachResource
<1>6. CASE FreeClient
  BY <1>1, <1>2, <1>6, AboveReturn DEF FreeClient
<1>7. QED
  BY <1>3, <1>4, <1>5, <1>6

LEMMA DestroyClientsInv ==
  ASSUME ListenersInv, wl_display_destroy_clients \/ DestroyDetached
  PROVE  ListenersInv'
<1>1. Top.at \in Base
  BY DEF wl_display_destroy_clients, DestroyDetached, At, Base
<1>2. Len(stack) = 1 /\ Top.at # "emit"
  BY <1>1, TopFits DEF Fits, Base
<1>3. \A at \in Base : Fits(Frame(at, NULL), 1) /\ Frame(at, NULL).at # "emit"
  BY Frames DEF Fits, Base, Loop, Newcomer
<1>4. SameLists
  <2>1. CASE wl_display_destroy_clients
    BY <2>1, TopFits DEF wl_display_destroy_clients, SameLists
  <2>2. CASE DestroyDetached
    BY <2>2, SameDisplay DEF DestroyDetached
  <2>3. QED
    BY <2>1, <2>2
<1>5. CASE \E at \in Base : Goto(Frame(at, NULL))
  BY <1>2, <1>3, <1>4, <1>5, QuietGoto
<1>6. ASSUME NEW c, Call(Frame("client_destroy", c), Top)
      PROVE  ListenersInv'
  <2>1. Fits(Top, Len(stack))
    BY TopFits
  <2>2. Fits(Frame("client_destroy", c), Len(stack) + 1) /\ Frame("client_destroy", c).at # "emit"
    BY TopFits, AboveFrames, AboveFits
  <2>3. QED
    BY <1>2, <1>4, <1>6, <2>1, <2>2, QuietCall
<1>7. QED
  BY <1>5, <1>6 DEF wl_display_destroy_clients, DestroyDetached, Base

-----------------------------------------------------------------------------
(* Handlers, other threads and peers.                                      *)

LEMMA SameStackInv ==
  ASSUME ListenersInv, SameLists, UNCHANGED stack
  PROVE  ListenersInv'
<1>1. StackShape'
  BY DEF ListenersInv, StackShape, Fits, IsSequence
<1>2. QED
  BY <1>1, QuietStep

LEMMA UserInv ==
  ASSUME ListenersInv, CallGlobal \/ CallDestroy \/ HandlerReturns
  PROVE  ListenersInv'
<1>1. Above(Top)
  BY AboveAt DEF CallGlobal, CallDestroy, HandlerReturns, MayCall, Base, Loop, Newcomer
<1>2. SameLists
  <2>1. CASE CallGlobal
    <3>1. \/ \E interface : wl_global_create(interface)
          \/ \E g : wl_global_remove(g) \/ wl_global_destroy(g)
      BY <2>1 DEF CallGlobal
    <3>2. QED
      BY <3>1, TopFits DEF wl_global_create, wl_global_remove, wl_global_destroy, SameLists
  <2>2. CASE ~CallGlobal
    BY <2>2, SameDisplay DEF CallDestroy, HandlerReturns
  <2>3. QED
    BY <2>1, <2>2
<1>3. CASE HandlerReturns
  BY <1>1, <1>2, <1>3, AboveReturn DEF HandlerReturns
<1>4. CASE CallDestroy
  BY <1>1, <1>2, <1>4, AboveFrames, AboveCall DEF CallDestroy
<1>5. CASE CallGlobal
  <2>1. \/ UNCHANGED stack
        \/ \E op, g, rest, destroys : Call(Announcing(op, g, rest, destroys), Top)
    BY <1>5 DEF CallGlobal, wl_global_create, wl_global_remove, wl_global_destroy
  <2>2. QED
    BY <1>1, <1>2, <2>1, AboveFrames, AboveCall, SameStackInv
<1>6. QED
  BY <1>3, <1>4, <1>5

LEMMA OutsideInv ==
  ASSUME ListenersInv,
         \/ CallPost \/ Terminate \/ TerminateWakes
         \/ \E c \in Clients : PeerSends(c) \/ PeerReads(c)
  PROVE  ListenersInv'
<1>1. UNCHANGED stack
  BY DEF CallPost, Terminate, TerminateWakes, PeerSends, PeerReads
<1>2. SameLists
  <2>1. CASE Terminate \/ TerminateWakes
    BY <2>1, TopFits DEF Terminate, TerminateWakes, SameLists
  <2>2. CASE CallPost \/ \E c \in Clients : PeerSends(c) \/ PeerReads(c)
    BY <2>2, SameDisplay DEF CallPost, PeerSends, PeerReads
  <2>3. QED
    BY <2>1, <2>2
<1>3. QED
  BY <1>1, <1>2, SameStackInv

-----------------------------------------------------------------------------
(* New clients, and the emission that tells of them.                       *)

LEMMA EmitIsThird ==
  ASSUME StackShape, NEW i \in DOMAIN stack, stack[i].at \in Newcomer
  PROVE  i = 3
BY DEF StackShape, Fits

LEMMA NewcomerOnTop ==
  ASSUME ListenersInv, Top.at \in Newcomer
  PROVE  /\ Len(stack) = 3 /\ DOMAIN stack = 1..3 /\ Top = stack[3]
         /\ \A i \in 1..2 : stack[i].at # "emit"
<1>1. StackShape /\ Len(stack) = 3
  BY TopFits DEF Fits, ListenersInv
<1>2. DOMAIN stack = 1..3 /\ Top = stack[3]
  BY <1>1, StackIs
<1>3. ASSUME NEW i \in 1..2 PROVE stack[i].at # "emit"
  <2>1. i \in DOMAIN stack /\ i # 3
    BY <1>2
  <2>2. QED
    BY <1>1, <2>1, EmitIsThird DEF Newcomer
<1>4. QED
  BY <1>1, <1>2, <1>3

LEMMA ClientCreateInv ==
  ASSUME ListenersInv, wl_client_create
  PROVE  ListenersInv'
<1> DEFINE list == display.listener_list
           f    == Emitting(Top.c, ToSet(list))
<1>1. Top.at = "client_create" /\ Goto(f)
  BY DEF wl_client_create, At
<1>2. /\ StackShape /\ ListsSound /\ Len(stack) = 3 /\ DOMAIN stack = 1..3
      /\ \A i \in 1..2 : stack[i].at # "emit"
  BY <1>1, NewcomerOnTop DEF ListenersInv, Newcomer
<1>3. display.emit_list = << >>
  <2>1. \A i \in 1..3 : stack[i].at # "emit"
    <3>1. stack[3].at # "emit"
      BY <1>1, NewcomerOnTop DEF Newcomer
    <3>2. \A i \in 1..3 : i \in 1..2 \/ i = 3
      OBVIOUS
    <3>3. QED
      BY <1>2, <3>1, <3>2
  <2>2. QED
    BY <1>2, <2>1 DEF ListenersInv
<1>4. PICK S : list \in Seq(S)
  BY <1>2 DEF ListsSound, IsSequence
<1>5. /\ display'.listener_list = << >> /\ display'.emit_list = list
      /\ {"listener_list", "emit_list"} \subseteq DOMAIN display'
  <2>1. display' = [display EXCEPT !.client_list = Append(@, Top.c),
                                   !.emit_list = list \o @, !.listener_list = << >>]
    BY DEF wl_client_create
  <2>2. list \o << >> = list
    BY <1>4, ConcatEmptySeq
  <2>3. {"listener_list", "emit_list"} \subseteq DOMAIN display
    BY <1>2 DEF ListsSound
  <2> HIDE DEF list
  <2>4. QED
    BY <1>3, <2>1, <2>2, <2>3
<1>6. /\ IsSequence(<< >>) /\ IsInjective(<< >>) /\ ToSet(<< >>) = {}
  <2>1. << >> \in Seq({})
    BY EmptySeq
  <2>2. QED
    BY <2>1 DEF IsSequence, IsInjective, ToSet
<1>7. ListsSound'
  BY <1>2, <1>5, <1>6 DEF ListsSound, IsSequence
<1>8. /\ {"at", "due", "called", "gone"} \subseteq DOMAIN f /\ f.at = "emit"
      /\ f.due = ToSet(list) /\ f.called = << >> /\ f.gone = {}
  BY DEF Emitting
<1> HIDE DEF f
<1>9. Fits(f, 3)
  BY <1>8 DEF Fits, Base, Loop, Newcomer
<1>10. StackShape' /\ Keeps(3) /\ stack'[3] = f
  BY <1>1, <1>2, <1>9, GotoShape, GotoStack
<1>11. EmissionSound(f, display'.emit_list)
  BY <1>5, <1>6, <1>8 DEF EmissionSound, IsSequence
<1>12. DOMAIN stack' = 1..3 /\ \A i \in 1..2 : stack'[i] = stack[i]
  <2>1. \A i \in 1..2 : i \in 1..Len(stack) - 1 /\ i \in 1..3
    BY <1>2
  <2>2. QED
    BY <1>10, <2>1 DEF Keeps
<1>13. \A i \in DOMAIN stack' : stack'[i].at = "emit" => stack'[i] = f
  <2>1. \A i \in 1..3 : i \in 1..2 \/ i = 3
    OBVIOUS
  <2>2. QED
    BY <1>2, <1>10, <1>12, <2>1
<1>14. \A i \in DOMAIN stack' :
         stack'[i].at = "emit" => EmissionSound(stack'[i], display'.emit_list)
  BY <1>11, <1>13
<1>15. \E i \in DOMAIN stack' : stack'[i].at = "emit"
  <2>1. 3 \in DOMAIN stack'
    BY <1>12
  <2>2. QED
    BY <1>8, <1>10, <2>1
<1>16. QED
  BY <1>7, <1>10, <1>14, <1>15 DEF ListenersInv

LEMMA EmitInv ==
  ASSUME ListenersInv, wl_priv_signal_emit
  PROVE  ListenersInv'
<1>1. Top.at = "emit"
  BY DEF wl_priv_signal_emit, At
<1>2. /\ StackShape /\ ListsSound /\ Len(stack) = 3 /\ DOMAIN stack = 1..3 /\ Top = stack[3]
      /\ \A i \in 1..2 : stack[i].at # "emit"
  BY <1>1, NewcomerOnTop DEF ListenersInv, Newcomer
<1>3. EmissionSound(Top, display.emit_list)
  BY <1>1, <1>2 DEF ListenersInv
<1>4. CASE display.emit_list = << >>
  <2>1. Return /\ UNCHANGED display
    BY <1>4 DEF wl_priv_signal_emit
  <2>2. Top.at \notin Base
    BY <1>1 DEF Base
  <2>3. StackShape' /\ Keeps(2)
    <3>1. Len(stack) - 1 = 2
      BY <1>2
    <3>2. QED
      BY <1>2, <2>1, <2>2, <3>1, ReturnShape, ReturnStack
  <2>4. DOMAIN stack' = 1..2 /\ \A i \in 1..2 : stack'[i] = stack[i]
    <3>1. \A i \in 1..2 : i \in 1..Len(stack) - 1
      BY <1>2
    <3>2. QED
      BY <2>3, <3>1 DEF Keeps
  <2>5. \A i \in DOMAIN stack' : stack'[i].at # "emit"
    BY <1>2, <2>4
  <2>6. ListsSound' /\ display'.emit_list = << >>
    BY <1>2, <1>4, <2>1 DEF ListsSound, IsSequence
  <2>7. QED
    BY <2>3, <2>5, <2>6 DEF ListenersInv
<1>5. CASE display.emit_list # << >>
  <2> DEFINE list == display.emit_list
             back == display.listener_list
             l    == Head(list)
             f    == [Top EXCEPT !.called = Append(@, l)]
  <2>1. PICK S, T, U : list \in Seq(S) /\ back \in Seq(T) /\ Top.called \in Seq(U)
    BY <1>2, <1>3 DEF ListsSound, EmissionSound, IsSequence
  <2>2. IsInjective(list) /\ IsInjective(back) /\ ToSet(back) \cap ToSet(list) = {}
    BY <1>2 DEF ListsSound
  <2>3. /\ l \in S /\ Tail(list) \in Seq(S) /\ IsInjective(Tail(list))
        /\ l \in ToSet(list) /\ ToSet(Tail(list)) = ToSet(list) \ {l}
    BY <1>5, <2>1, <2>2, HeadElements
  <2>4. /\ display'.emit_list = Tail(list) /\ display'.listener_list = <<l>> \o back
        /\ {"listener_list", "emit_list"} \subseteq DOMAIN display'
        /\ Call(Handler(Top.c, 0), f)
    BY <1>2, <1>5 DEF wl_priv_signal_emit, ListsSound
  <2> HIDE DEF l
  <2>5. /\ IsSequence(<<l>> \o back) /\ IsInjective(<<l>> \o back)
        /\ ToSet(<<l>> \o back) = ToSet(back) \cup {l}
    <3>1. back \in Seq(T \cup {l})
      BY <2>1, LargerSeq
    <3>2. l \notin ToSet(back)
      BY <2>2, <2>3
    <3>3. QED
      BY <2>2, <3>1, <3>2, PrependElements DEF IsSequence
  <2>6. ListsSound'
    <3>1. ToSet(<<l>> \o back) \cap ToSet(Tail(list)) = {}
      BY <2>2, <2>3, <2>5
    <3>2. QED
      BY <2>3, <2>4, <2>5, <3>1 DEF ListsSound, IsSequence
  <2>7. l \in Top.due /\ l \notin ToSet(Top.called)
    BY <1>3, <2>3 DEF EmissionSound
  <2>8. /\ IsSequence(Append(Top.called, l)) /\ IsInjective(Append(Top.called, l))
        /\ ToSet(Append(Top.called, l)) = ToSet(Top.called) \cup {l}
    <3>1. Top.called \in Seq(U \cup {l})
      BY <2>1, LargerSeq
    <3>2. QED
      BY <1>3, <2>7, <3>1, AppendElements DEF IsSequence, EmissionSound
  <2>9. /\ DOMAIN f = DOMAIN Top /\ f.called = Append(Top.called, l)
        /\ f.due = Top.due /\ f.gone = Top.gone /\ f.at = "emit"
    <3>1. {"due", "called", "gone", "at"} \subseteq DOMAIN Top
      BY <1>3, TopFits DEF EmissionSound, Fits
    <3>2. QED
      BY <1>1, <3>1
  <2> HIDE DEF f
  <2>10. EmissionSound(f, display'.emit_list)
    <3>1. f.due \ (f.gone \cup ToSet(f.called)) = ToSet(Tail(list))
      BY <1>3, <2>3, <2>8, <2>9 DEF EmissionSound
    <3>2. ToSet(f.called) \subseteq f.due
      BY <1>3, <2>7, <2>8, <2>9 DEF EmissionSound
    <3>3. QED
      BY <1>3, <2>4, <2>8, <2>9, <3>1, <3>2 DEF EmissionSound
  <2>11. Fits(f, 3) /\ Fits(Handler(Top.c, 0), 4) /\ Handler(Top.c, 0).at # "emit"
    <3>1. "at" \in DOMAIN f
      BY <2>9, TopFits DEF Fits
    <3>2. QED
      BY <2>9, <3>1, Frames DEF Fits, Base, Loop, Newcomer
  <2>12. StackShape' /\ Keeps(4) /\ stack'[3] = f /\ stack'[4] = Handler(Top.c, 0)
    <3>1. Len(stack) + 1 = 4
      BY <1>2
    <3>2. QED
      BY <1>2, <2>4, <2>11, <3>1, CallShape, CallStack
  <2>13. DOMAIN stack' = 1..4 /\ \A i \in 1..2 : stack'[i] = stack[i]
    <3>1. \A i \in 1..2 : i \in 1..Len(stack) - 1 /\ i \in 1..4
      BY <1>2
    <3>2. QED
      BY <2>12, <3>1 DEF Keeps
  <2>14. \A i \in DOMAIN stack' : stack'[i].at = "emit" => stack'[i] = f
    <3>1. \A i \in 1..4 : i \in 1..2 \/ i = 3 \/ i = 4
      OBVIOUS
    <3>2. QED
      BY <1>2, <2>11, <2>12, <2>13, <3>1
  <2>15. \A i \in DOMAIN stack' :
         stack'[i].at = "emit" => EmissionSound(stack'[i], display'.emit_list)
    BY <2>10, <2>14
  <2>16. \E i \in DOMAIN stack' : stack'[i].at = "emit"
    <3>1. 3 \in DOMAIN stack'
      BY <2>13
    <3>2. QED
      BY <2>9, <2>12, <3>1
  <2>17. QED
    BY <2>6, <2>12, <2>15, <2>16 DEF ListenersInv
<1>6. QED
  BY <1>4, <1>5

LEMMA ListenInv ==
  ASSUME ListenersInv, NEW l, l \notin ToSet(display.listener_list \o display.emit_list),
         display' = wl_priv_signal_add(l), UNCHANGED stack
  PROVE  ListenersInv'
<1> DEFINE list == display.listener_list
           emit == display.emit_list
<1>1. PICK S, T : list \in Seq(S) /\ emit \in Seq(T)
  BY DEF ListenersInv, ListsSound, IsSequence
<1>2. l \notin ToSet(list) /\ l \notin ToSet(emit)
  BY <1>1, ConcatElements
<1>3. /\ display'.listener_list = Append(list, l) /\ display'.emit_list = emit
      /\ {"listener_list", "emit_list"} \subseteq DOMAIN display'
  BY TopFits DEF wl_priv_signal_add
<1>4. list \in Seq(S \cup {l})
  BY <1>1, LargerSeq
<1>5. /\ IsSequence(Append(list, l)) /\ IsInjective(Append(list, l))
      /\ ToSet(Append(list, l)) = ToSet(list) \cup {l}
  BY <1>2, <1>4, AppendElements DEF ListenersInv, ListsSound, IsSequence
<1>6. ListsSound'
  BY <1>2, <1>3, <1>5 DEF ListenersInv, ListsSound, IsSequence
<1>7. StackShape'
  BY DEF ListenersInv, StackShape, Fits, IsSequence
<1>8. QED
  BY <1>3, <1>6, <1>7 DEF ListenersInv

(* An emission that l is removed under.                                    *)
LEMMA GoneFromEmission ==
  ASSUME NEW f, NEW S, NEW list \in Seq(S), IsInjective(list), EmissionSound(f, list), NEW l
  PROVE  EmissionSound([f EXCEPT !.gone = @ \cup {l}], Unlinked(list, l))
<1> DEFINE g == [f EXCEPT !.gone = @ \cup {l}]
<1>1. /\ DOMAIN g = DOMAIN f /\ g.due = f.due /\ g.called = f.called
      /\ g.gone = f.gone \cup {l}
  BY DEF EmissionSound
<1>2. ToSet(Unlinked(list, l)) = ToSet(list) \ {l}
  BY UnlinkedElements
<1> HIDE DEF g
<1>3. g.due \ (g.gone \cup ToSet(g.called)) = ToSet(Unlinked(list, l))
  BY <1>1, <1>2 DEF EmissionSound
<1>4. EmissionSound(g, Unlinked(list, l))
  BY <1>1, <1>3 DEF EmissionSound
<1>5. QED
  BY <1>4 DEF g

LEMMA UnlistenInv ==
  ASSUME ListenersInv, NEW l,
         display' = [display EXCEPT !.listener_list = Unlinked(@, l), !.emit_list = Unlinked(@, l)],
         stack' = [i \in DOMAIN stack |-> IF stack[i].at # "emit" THEN stack[i]
                     ELSE [stack[i] EXCEPT !.gone = @ \cup {l}]]
  PROVE  ListenersInv'
<1> DEFINE list == display.listener_list
           emit == display.emit_list
<1>1. /\ {"listener_list", "emit_list"} \subseteq DOMAIN display
      /\ IsInjective(list) /\ IsInjective(emit) /\ ToSet(list) \cap ToSet(emit) = {}
  BY DEF ListenersInv, ListsSound
<1>2. PICK S, T : list \in Seq(S) /\ emit \in Seq(T)
  BY DEF ListenersInv, ListsSound, IsSequence
<1>3. /\ display'.listener_list = Unlinked(list, l) /\ display'.emit_list = Unlinked(emit, l)
      /\ {"listener_list", "emit_list"} \subseteq DOMAIN display'
  BY <1>1
<1>4. /\ Unlinked(list, l) \in Seq(S) /\ IsInjective(Unlinked(list, l))
      /\ ToSet(Unlinked(list, l)) = ToSet(list) \ {l}
      /\ Unlinked(emit, l) \in Seq(T) /\ IsInjective(Unlinked(emit, l))
      /\ ToSet(Unlinked(emit, l)) = ToSet(emit) \ {l}
  BY <1>1, <1>2, UnlinkedElements
<1>5. ListsSound'
  BY <1>1, <1>3, <1>4 DEF ListsSound, IsSequence
<1>6. StackShape /\ Len(stack) \in Nat \ {0} /\ DOMAIN stack = 1..Len(stack)
  BY StackIs DEF ListenersInv
<1>7. \A i \in 1..Len(stack) : Fits(stack[i], i)
  BY <1>6 DEF StackShape
<1> DEFINE U == {stack'[i] : i \in 1..Len(stack)}
<1>8. DOMAIN stack' = 1..Len(stack) /\ stack' \in Seq(U) /\ stack' # << >>
  <2>1. stack' \in [1..Len(stack) -> U]
    BY <1>6
  <2>2. QED
    BY <1>6, <2>1, FunctionIsSequence
<1>9. \A i \in 1..Len(stack) : /\ "at" \in DOMAIN stack'[i]
                               /\ stack'[i].at = stack[i].at
  BY <1>6, <1>7 DEF Fits
<1>10. StackShape'
  BY <1>7, <1>8, <1>9 DEF StackShape, Fits, IsSequence
<1>11. ASSUME NEW i \in DOMAIN stack', stack'[i].at = "emit"
       PROVE  EmissionSound(stack'[i], display'.emit_list)
  <2>1. i \in DOMAIN stack /\ stack[i].at = "emit"
    BY <1>6, <1>8, <1>9, <1>11
  <2>2. EmissionSound(stack[i], emit)
    BY <2>1 DEF ListenersInv
  <2>3. stack'[i] = [stack[i] EXCEPT !.gone = @ \cup {l}]
    BY <2>1
  <2>4. QED
    BY <1>1, <1>2, <1>3, <2>2, <2>3, GoneFromEmission
<1>12. display'.emit_list # << >> => \E i \in DOMAIN stack' : stack'[i].at = "emit"
  <2> SUFFICES ASSUME display'.emit_list # << >>
               PROVE  \E i \in DOMAIN stack' : stack'[i].at = "emit"
    OBVIOUS
  <2>1. emit # << >>
    <3> SUFFICES ASSUME emit = << >> PROVE FALSE
      OBVIOUS
    <3>1. ToSet(emit) = {}
      BY EmptySeq DEF ToSet
    <3>2. Unlinked(emit, l) = emit
      BY <3>1 DEF Unlinked
    <3>3. QED
      BY <1>3, <3>2
  <2>2. PICK i \in DOMAIN stack : stack[i].at = "emit"
    BY <2>1 DEF ListenersInv
  <2>3. QED
    BY <1>6, <1>8, <1>9, <2>2
<1>13. QED
  BY <1>5, <1>10, <1>11, <1>12 DEF ListenersInv

-----------------------------------------------------------------------------

LEMMA ListenersInit == Init => ListenersInv
<1> SUFFICES ASSUME Init PROVE ListenersInv
  OBVIOUS
<1>1. /\ scenario \in DOMAIN Scenarios /\ stack = <<Frame("main", NULL)>>
      /\ {"listener_list", "emit_list"} \subseteq DOMAIN display
      /\ display.listener_list = SetToSeq(Played.listening) /\ display.emit_list = << >>
  BY DEF Init
<1>2. IsFiniteSet(Played.listening)
  BY <1>1, ScenariosAssumption DEF Played
<1>3. IsSequence(display.listener_list) /\ IsInjective(display.listener_list)
  BY <1>1, <1>2, SetToSeqIs DEF IsSequence
<1>4. IsSequence(<< >>) /\ IsInjective(<< >>) /\ ToSet(<< >>) = {}
  <2>1. << >> \in Seq({})
    BY EmptySeq
  <2>2. QED
    BY <2>1 DEF IsSequence, IsInjective, ToSet
<1>5. ListsSound
  BY <1>1, <1>3, <1>4 DEF ListsSound
<1>6. /\ stack \in Seq({Frame("main", NULL)}) /\ stack # << >>
      /\ DOMAIN stack = 1..1 /\ stack[1] = Frame("main", NULL)
  BY <1>1
<1>7. Fits(Frame("main", NULL), 1) /\ Frame("main", NULL).at = "main"
  BY Frames DEF Fits, Base, Loop, Newcomer
<1>8. \A i \in DOMAIN stack : i = 1 /\ stack[i] = Frame("main", NULL)
  BY <1>6
<1>9. StackShape
  BY <1>6, <1>7, <1>8 DEF StackShape, IsSequence
<1>10. \A i \in DOMAIN stack : stack[i].at # "emit"
  BY <1>7, <1>8
<1>11. QED
  BY <1>1, <1>5, <1>9, <1>10 DEF ListenersInv

LEMMA ListenersStep ==
  ASSUME ListenersInv, [Next]_vars
  PROVE  ListenersInv'
<1>1. CASE UNCHANGED vars
  BY <1>1, SameDisplay, SameStackInv DEF vars
<1>2. CASE CallListen
  <2>1. \/ \E l : /\ l \notin ToSet(display.listener_list \o display.emit_list)
                  /\ display' = wl_priv_signal_add(l) /\ UNCHANGED stack
        \/ \E l : /\ display' = [display EXCEPT !.listener_list = Unlinked(@, l),
                                                !.emit_list = Unlinked(@, l)]
                  /\ stack' = [i \in DOMAIN stack |-> IF stack[i].at # "emit" THEN stack[i]
                                 ELSE [stack[i] EXCEPT !.gone = @ \cup {l}]]
    BY <1>2 DEF CallListen
  <2>2. QED
    BY <2>1, ListenInv, UnlistenInv
<1>3. CASE Next /\ ~CallListen
  BY <1>3, RunInv, LoopTestInv, FlushInv, PollInv, DispatchSourceInv, ClientCreateInv, EmitInv,
     RequestInv, TellInv, ResourceInv, ClientDestroyInv, DestroyClientsInv, UserInv, OutsideInv
     DEF Next, ServerStep
<1>4. QED
  BY <1>1, <1>2, <1>3

LEMMA ListenersInvariance == Spec => []ListenersInv
BY ListenersInit, ListenersStep, PTL DEF Spec

(* A new client is told of once to everyone who was listening when it came *)
(* and has not been removed before its turn, whatever listeners add,       *)
(* remove, destroy and post meanwhile.                                     *)
THEOREM ListenersAreToldOnce == Spec => []ListenersToldOnce
<1>1. ListenersInv => ListenersToldOnce
  BY DEF ListenersInv, ListenersToldOnce, EmissionSound
<1>2. QED
  BY <1>1, ListenersInvariance, PTL

(* Nothing that a listener calls creates a client: there is one emission   *)
(* of create_client_signal at a time, and between two of them everyone who *)
(* listens is back on the signal's own list.                               *)
THEOREM EmissionsDoNotNest ==
  Spec => [](/\ \A i, j \in DOMAIN stack : stack[i].at = "emit" /\ stack[j].at = "emit" => i = j
             /\ (\A i \in DOMAIN stack : stack[i].at # "emit") => display.emit_list = << >>)
<1>1. ListenersInv =>
        /\ \A i, j \in DOMAIN stack : stack[i].at = "emit" /\ stack[j].at = "emit" => i = j
        /\ (\A i \in DOMAIN stack : stack[i].at # "emit") => display.emit_list = << >>
  BY EmitIsThird DEF ListenersInv, Newcomer
<1>2. QED
  BY <1>1, ListenersInvariance, PTL

-----------------------------------------------------------------------------
(* Sequences.                                                              *)

LEMMA SequenceIs ==
  ASSUME NEW s, IsSequence(s)
  PROVE  /\ Len(s) \in Nat /\ DOMAIN s = 1..Len(s) /\ s \in Seq(ToSet(s))
         /\ s = << >> <=> Len(s) = 0
<1>1. PICK S : s \in Seq(S)
  BY DEF IsSequence
<1>2. Len(s) \in Nat /\ DOMAIN s = 1..Len(s) /\ s \in [1..Len(s) -> S]
  BY <1>1, LenProperties
<1>3. s \in [1..Len(s) -> ToSet(s)]
  BY <1>2 DEF ToSet
<1>4. s \in Seq(ToSet(s))
  BY <1>2, <1>3, SeqDef
<1>5. s = << >> <=> Len(s) = 0
  BY <1>1, EmptySeq
<1>6. QED
  BY <1>2, <1>4, <1>5

LEMMA EmptySequence ==
  /\ IsSequence(<< >>) /\ Len(<< >>) = 0 /\ ToSet(<< >>) = {} /\ DOMAIN << >> = {}
  /\ IsInjective(<< >>)
<1>1. << >> \in Seq({})
  BY EmptySeq
<1>2. QED
  BY <1>1 DEF IsSequence, ToSet, IsInjective

LEMMA SequenceConcat ==
  ASSUME NEW s, IsSequence(s), NEW t, IsSequence(t)
  PROVE  /\ IsSequence(s \o t) /\ Len(s \o t) = Len(s) + Len(t)
         /\ ToSet(s \o t) = ToSet(s) \cup ToSet(t)
         /\ DOMAIN (s \o t) = 1..Len(s) + Len(t)
         /\ \A i \in 1..Len(s) + Len(t) :
              (s \o t)[i] = IF i <= Len(s) THEN s[i] ELSE t[i - Len(s)]
<1> DEFINE S == ToSet(s) \cup ToSet(t)
<1>1. s \in Seq(ToSet(s)) /\ t \in Seq(ToSet(t))
  BY SequenceIs
<1>2. s \in Seq(S) /\ t \in Seq(S)
  BY <1>1, LargerSeq
<1>3. /\ s \o t \in Seq(S) /\ Len(s \o t) = Len(s) + Len(t)
      /\ \A i \in 1..Len(s) + Len(t) :
           (s \o t)[i] = IF i <= Len(s) THEN s[i] ELSE t[i - Len(s)]
  BY <1>2, ConcatProperties
<1>4. IsSequence(s \o t)
  BY <1>3 DEF IsSequence
<1>5. ToSet(s \o t) = ToSet(s) \cup ToSet(t)
  BY <1>1, ConcatElements
<1>6. DOMAIN (s \o t) = 1..Len(s) + Len(t)
  BY <1>3, <1>4, SequenceIs
<1>7. QED
  BY <1>3, <1>4, <1>5, <1>6

LEMMA SequenceAppend ==
  ASSUME NEW s, IsSequence(s), NEW e
  PROVE  /\ IsSequence(Append(s, e)) /\ Len(Append(s, e)) = Len(s) + 1
         /\ ToSet(Append(s, e)) = ToSet(s) \cup {e}
         /\ IsInjective(s) /\ e \notin ToSet(s) => IsInjective(Append(s, e))
         /\ DOMAIN Append(s, e) = 1..Len(s) + 1 /\ Append(s, e)[Len(s) + 1] = e
         /\ \A i \in 1..Len(s) : Append(s, e)[i] = s[i]
<1>1. s \in Seq(ToSet(s))
  BY SequenceIs
<1>2. s \in Seq(ToSet(s) \cup {e})
  BY <1>1, LargerSeq
<1>3. /\ ToSet(Append(s, e)) = ToSet(s) \cup {e}
      /\ IsInjective(s) /\ e \notin ToSet(s) => IsInjective(Append(s, e))
  BY <1>2, AppendElements
<1>4. QED
  BY <1>3, SequenceAppended

LEMMA SequenceTail ==
  ASSUME NEW s, IsSequence(s), s # << >>
  PROVE  /\ IsSequence(Tail(s)) /\ Len(Tail(s)) = Len(s) - 1 /\ Len(s) \in Nat \ {0}
         /\ Head(s) = s[1] /\ Head(s) \in ToSet(s) /\ ToSet(Tail(s)) \subseteq ToSet(s)
         /\ DOMAIN Tail(s) = 1..Len(s) - 1
         /\ \A i \in 1..Len(s) - 1 : Tail(s)[i] = s[i + 1]
<1> DEFINE S == ToSet(s)
           t == Tail(s)
<1>1. s \in Seq(S) /\ DOMAIN s = 1..Len(s)
  BY SequenceIs
<1> HIDE DEF S
<1>2. /\ Head(s) = s[1] /\ t \in Seq(S) /\ Len(t) = Len(s) - 1 /\ Head(s) \in S
      /\ \A i \in 1..Len(s) - 1 : t[i] = s[i + 1]
  BY <1>1, HeadTailProperties
<1>3. Len(s) \in Nat \ {0}
  BY <1>1, EmptySeq
<1> HIDE DEF t
<1>4. IsSequence(t) /\ DOMAIN t = 1..Len(s) - 1
  BY <1>2, LenProperties DEF IsSequence
<1>5. ToSet(t) \subseteq S
  BY <1>2, <1>4, ElementOfSeq DEF ToSet
<1>6. QED
  BY <1>2, <1>3, <1>4, <1>5 DEF S, t

(* A sequence cut in two.                                                  *)
LEMMA SequenceCut ==
  ASSUME NEW s, IsSequence(s), NEW n \in Nat, n <= Len(s)
  PROVE  /\ IsSequence(SubSeq(s, 1, n)) /\ Len(SubSeq(s, 1, n)) = n
         /\ IsSequence(SubSeq(s, n + 1, Len(s))) /\ Len(SubSeq(s, n + 1, Len(s))) = Len(s) - n
         /\ SubSeq(s, 1, n) \o SubSeq(s, n + 1, Len(s)) = s
         /\ n = Len(s) => SubSeq(s, n + 1, Len(s)) = << >>
         /\ n = 0 => SubSeq(s, 1, n) = << >>
<1> DEFINE S == ToSet(s)
<1>1. s \in Seq(S) /\ Len(s) \in Nat /\ DOMAIN s = 1..Len(s)
  BY SequenceIs
<1> HIDE DEF S
<1>2. \A i \in 1..Len(s) : s[i] \in S
  BY <1>1, ElementOfSeq
<1>3. /\ SubSeq(s, 1, n) \in Seq(S)
      /\ Len(SubSeq(s, 1, n)) = IF 1 <= n THEN n - 1 + 1 ELSE 0
  <2>1. \A i \in 1..n : s[i] \in S
    BY <1>1, <1>2
  <2>2. QED
    BY <2>1, SubSeqProperties
<1>4. /\ SubSeq(s, n + 1, Len(s)) \in Seq(S)
      /\ Len(SubSeq(s, n + 1, Len(s))) = IF n + 1 <= Len(s) THEN Len(s) - (n + 1) + 1 ELSE 0
  <2>1. \A i \in n + 1..Len(s) : s[i] \in S
    BY <1>1, <1>2
  <2>2. n + 1 \in Int /\ Len(s) \in Int
    BY <1>1
  <2>3. QED
    BY <2>1, <2>2, SubSeqProperties
<1>5. SubSeq(s, 1, n) \o SubSeq(s, n + 1, Len(s)) = s
  <2>1. 1 \in 1..Len(s) + 1 /\ n \in 1 - 1..Len(s) /\ Len(s) \in n..Len(s)
    BY <1>1
  <2>2. SubSeq(s, 1, n) \o SubSeq(s, n + 1, Len(s)) = SubSeq(s, 1, Len(s))
    BY <1>1, <2>1, ConcatAdjacentSubSeq
  <2>3. QED
    BY <1>1, <2>2, SubSeqFull
<1>6. n = Len(s) => SubSeq(s, n + 1, Len(s)) = << >>
  BY <1>1, <1>4, EmptySeq
<1>7. n = 0 => SubSeq(s, 1, n) = << >>
  BY <1>1, <1>3, EmptySeq
<1>8. Len(SubSeq(s, 1, n)) = n /\ Len(SubSeq(s, n + 1, Len(s))) = Len(s) - n
  <2>1. PICK m \in Nat : m = Len(s)
    BY <1>1
  <2>2. n <= m
    BY <2>1
  <2>3. (IF 1 <= n THEN n - 1 + 1 ELSE 0) = n
    BY n \in Nat
  <2>4. (IF n + 1 <= m THEN m - (n + 1) + 1 ELSE 0) = m - n
    BY <2>2
  <2>5. QED
    BY <1>3, <1>4, <2>1, <2>3, <2>4
<1>9. QED
  BY <1>3, <1>4, <1>5, <1>6, <1>7, <1>8 DEF IsSequence

LEMMA SequenceUnlinked ==
  ASSUME NEW s, IsSequence(s), NEW e
  PROVE  /\ IsSequence(Unlinked(s, e))
         /\ IsInjective(s) => /\ IsInjective(Unlinked(s, e))
                              /\ ToSet(Unlinked(s, e)) = ToSet(s) \ {e}
<1>1. s \in Seq(ToSet(s)) /\ Len(s) \in Nat /\ DOMAIN s = 1..Len(s)
  BY SequenceIs
<1>2. CASE e \notin ToSet(s)
  BY <1>2 DEF Unlinked
<1>3. CASE e \in ToSet(s)
  <2> DEFINE k == CHOOSE i \in DOMAIN s : s[i] = e
  <2>1. k \in 1..Len(s)
    BY <1>1, <1>3 DEF ToSet
  <2> HIDE DEF k
  <2>2. /\ \A i \in 1..k - 1 : s[i] \in ToSet(s)
        /\ \A i \in k + 1..Len(s) : s[i] \in ToSet(s)
    BY <1>1, <2>1 DEF ToSet
  <2>3. k - 1 \in Int /\ k + 1 \in Int /\ Len(s) \in Int
    BY <1>1, <2>1
  <2>4. SubSeq(s, 1, k - 1) \in Seq(ToSet(s)) /\ SubSeq(s, k + 1, Len(s)) \in Seq(ToSet(s))
    BY <2>2, <2>3, SubSeqProperties
  <2>5. Unlinked(s, e) = SubSeq(s, 1, k - 1) \o SubSeq(s, k + 1, Len(s))
    BY <1>3 DEF Unlinked, RemoveAt, k
  <2>6. IsSequence(Unlinked(s, e))
    BY <2>4, <2>5, ConcatProperties DEF IsSequence
  <2>7. IsInjective(s) => /\ IsInjective(Unlinked(s, e))
                          /\ ToSet(Unlinked(s, e)) = ToSet(s) \ {e}
    BY <1>1, UnlinkedElements
  <2>8. QED
    BY <2>6, <2>7
<1>4. CASE IsInjective(s)
  BY <1>1, <1>4, UnlinkedElements DEF IsSequence
<1>5. QED
  BY <1>2, <1>3, <1>4

-----------------------------------------------------------------------------
(* What clients, peers and the display are made of.                        *)

ClientFields == {"life", "error", "display_resource", "objects", "listener", "pending", "out",
                 "want_flush", "writable", "to_server", "to_client", "up"}
Kinds        == {"none", "display", "registry", "object", "freed"}

IsRequest(r) == r.obj \in Ids /\ r.new \in Ids

IsClient(cl, space) ==
  /\ ClientFields \subseteq DOMAIN cl
  /\ cl.life \in {"none", "live", "dying", "freed"} /\ cl.objects \in [Ids -> Kinds]
  /\ IsSequence(cl.pending) /\ IsSequence(cl.to_server)
  /\ \A r \in ToSet(cl.pending) \cup ToSet(cl.to_server) : IsRequest(r)
  /\ IsSequence(cl.out) /\ Len(cl.out) <= OutSpace
  /\ IsSequence(cl.to_client) /\ Len(cl.to_client) <= space

IsPeer(p) == /\ {"connects", "got", "last", "program"} \subseteq DOMAIN p
             /\ p.last \in Ids /\ IsSequence(p.got)

DisplayFields == {"run", "efd", "id", "globals", "registries", "client_list", "detached",
                  "listener_list", "emit_list"}

IsDisplay(d) == /\ DisplayFields \subseteq DOMAIN d /\ d.id \in Nat
                /\ IsSequence(d.globals) /\ IsSequence(d.registries)
                /\ IsSequence(d.client_list) /\ IsSequence(d.detached)

Types ==
  /\ scenario \in DOMAIN Scenarios
  /\ DOMAIN client = Clients /\ \A c \in Clients : IsClient(client[c], Played.socket_space)
  /\ DOMAIN peer = Clients /\ \A c \in Clients : IsPeer(peer[c])
  /\ IsDisplay(display)
  /\ terminator \in {"idle", "cleared", "done"} /\ budget \in 0..Played.budget

-----------------------------------------------------------------------------
(* The frames: what each knows, how deep it is, and what is under it.      *)

OfLoop     == {"flush", "flush_next", "client_create", "emit", "connection_data", "requests"}
Innermost  == {"flush", "client_create", "connection_data", "client_destroy", "resource_destroy",
               "destroy_resource", "announce", "tell"}
Destroyers == {"client_destroy", "client_flush", "client_resources"}
Resource   == {"resource_destroy", "resource_destroyed", "destroy_resource", "free_resource"}
ForClient  == {"client_create", "emit", "connection_data", "requests", "tell"}
                \cup Destroyers \cup Resource
ForNone    == Base \cup Loop \cup {"flush_next", "announce"}

Known(f) ==
  /\ {"at", "c", "id"} \subseteq DOMAIN f
  /\ f.at \in ForClient => f.c \in Clients
  /\ f.at \in ForNone => f.c = NULL
  /\ f.at = "dispatch" => \A r \in f.ready : r.source \in {"socket", "client"} => r.c \in Clients
  /\ f.at = "flush" => f.c \in Clients \cup {HEAD}
  /\ f.at \in {"flush", "flush_next"} => f.next \in Clients \cup {HEAD}
  /\ "next" \in DOMAIN f => f.at \in {"flush", "flush_next"}
  /\ f.at \in Resource => f.id \in Ids
  /\ f.at = "client_resources" => f.id \in Nat \ {0}
  /\ f.at \in {"announce", "tell"} => "rest" \in DOMAIN f /\ IsSequence(f.rest)

FramesInv ==
  \A i \in DOMAIN stack :
    /\ Known(stack[i])
    /\ stack[i].at \in Innermost => i = Len(stack)
    /\ stack[i].at \in OfLoop => i = 3 /\ stack[2].at \in Loop

-----------------------------------------------------------------------------
(* Clients: which live, and who works on them.                             *)

Lives(cl) == cl.life \in {"live", "dying"}

Alive(f, cls, prs) ==
  /\ f.c \in Clients => IF f.at = "client_create"
                        THEN cls[f.c].life = "none" /\ ~prs[f.c].connects
                        ELSE Lives(cls[f.c])
  /\ f.at = "dispatch" => \A r \in f.ready : r.source = "socket" =>
       r = [source |-> "socket", c |-> r.c] /\ prs[r.c].connects
  /\ f.at \in {"flush", "flush_next"} /\ f.next # HEAD => Lives(cls[f.next]) /\ f.next # f.c

(* What may run while a client is destroyed, for that client.              *)
Within == Resource \cup {"user"}

(* Client c is not the business of frame f.                                *)
Apart(f, c) == f.c # c /\ (f.at = "flush_next" => f.next # c)

(* A function that destroys a client is the outermost one that works on it,*)
(* and what it calls leaves the rest of its work to it.                    *)
Together(below, f) ==
  /\ f.at \in Destroyers => Apart(below, f.c)
  /\ below.at \in Destroyers => /\ f.c = below.c => f.at \in Within
                                /\ f.at # "flush_next"

Alone == \A i, j \in DOMAIN stack : j < i => Together(stack[j], stack[i])

Members(d, cls) ==
  /\ IsInjective(d.client_list) /\ IsInjective(d.detached)
  /\ ToSet(d.client_list) \cap ToSet(d.detached) = {}
  /\ \A c \in ToSet(d.client_list) \cup ToSet(d.detached) : c \in Clients /\ Lives(cls[c])

LifeInv ==
  /\ \A c \in Clients : peer[c].connects => client[c].life = "none"
  /\ Members(display, client)
  /\ \A i \in DOMAIN stack : Alive(stack[i], client, peer)
  /\ Alone

-----------------------------------------------------------------------------
(* Objects: which there are, and who destroys them.                        *)

Owners == Resource \cup {"client_resources"}

Goes(f, c, id) == f.at \in {"destroy_resource", "free_resource"} /\ f.c = c /\ f.id = id
Busy(f, c, id) == Goes(f, c, id) \/ (f.at = "resource_destroyed" /\ f.c = c /\ f.id = id)

(* What frame i of stack s destroys is there, and nobody else destroys it. *)
OnceAt(s, cls, i) ==
  LET f    == s[i]
      kind == cls[f.c].objects
  IN  /\ f.at = "resource_destroy" =>
           kind[f.id] = "object" /\ \A j \in DOMAIN s : ~Busy(s[j], f.c, f.id)
      /\ f.at = "resource_destroyed" =>
           /\ f.id # Display /\ kind[f.id] # "registry"
           /\ \A j \in DOMAIN s : Goes(s[j], f.c, f.id) => j = i + 1
      /\ f.at \in {"destroy_resource", "free_resource"} =>
           /\ kind[f.id] \notin {"none", "freed"}
           /\ \A j \in DOMAIN s : Goes(s[j], f.c, f.id) => j = i
           /\ i - 1 \in DOMAIN s /\ s[i - 1].c = f.c
           /\ \/ s[i - 1].at = "resource_destroyed" /\ s[i - 1].id = f.id
              \/ s[i - 1].at = "client_resources" /\ s[i - 1].id = f.id + 1
      /\ f.at = "client_resources" => \A k \in Ids : k < f.id =>
           \/ kind[k] \in {"none", "freed"}
           \/ i + 1 \in DOMAIN s /\ Goes(s[i + 1], f.c, k)

DestroyedOnce == \A i \in DOMAIN stack : OnceAt(stack, client, i)

(* Pointers to freed resources stay only while somebody will remove them.  *)
Removes(f, c, k) ==
  f.c = c /\ \/ f.at = "resource_destroyed" /\ f.id = k
             \/ f.at = "client_resources" /\ k < f.id

FreedGo ==
  \A c \in Clients : \A k \in Ids : Lives(client[c]) /\ client[c].objects[k] = "freed" =>
    \E i \in DOMAIN stack : Removes(stack[i], c, k)

Registered(d, cls) ==
  /\ IsInjective(d.registries)
  /\ \A r \in ToSet(d.registries) :
       /\ r = [c |-> r.c, id |-> r.id] /\ r.c \in Clients /\ r.id \in Ids
       /\ Lives(cls[r.c]) /\ cls[r.c].objects[r.id] = "registry"

DisplayIs(cl) ==
  /\ cl.objects[Display] \in {"display", "freed"}
  /\ cl.display_resource => cl.objects[Display] = "display"

(* Whom or what the library still has to tell of is there.                 *)
Reaches(f, d) ==
  /\ f.at = "announce" => ToSet(f.rest) \subseteq ToSet(d.registries)
  /\ f.at = "tell" => ToSet(f.rest) \subseteq ToSet(d.globals)

ObjectsInv ==
  /\ DestroyedOnce /\ FreedGo /\ Registered(display, client)
  /\ \A c \in Clients : DisplayIs(client[c])
  /\ \A i \in DOMAIN stack : Reaches(stack[i], display)

(* New objects get ids that are free.                                      *)
Creates(r)   == r.op \in {"get_registry", "bind"}
NewDiffer(s) ==
  \A i, j \in DOMAIN s : i # j /\ Creates(s[i]) /\ Creates(s[j]) => s[i].new # s[j].new

Fresh(cl, last) ==
  /\ \A k \in Ids : cl.objects[k] # "none" => k <= last
  /\ \A r \in ToSet(cl.pending) \cup ToSet(cl.to_server) : Creates(r) =>
       r.new <= last /\ r.new # Display /\ cl.objects[r.new] = "none"
  /\ NewDiffer(cl.pending) /\ NewDiffer(cl.to_server)
  /\ \A r \in ToSet(cl.pending), q \in ToSet(cl.to_server) :
       Creates(r) /\ Creates(q) => r.new # q.new

FreshInv == \A c \in Clients : Fresh(client[c], peer[c].last)

-----------------------------------------------------------------------------
(* What is written to a client, and what that leaves alone.                *)

SameCore(a, b) ==
  /\ a.life = b.life /\ a.objects = b.objects /\ a.up = b.up
  /\ a.pending = b.pending /\ a.to_server = b.to_server

LEMMA SpaceIs ==
  ASSUME Types
  PROVE  Played.socket_space \in Nat /\ Played.budget \in Nat
BY ScenariosAssumption DEF Types, Played

LEMMA Flushed ==
  ASSUME Types, NEW cl, IsClient(cl, Played.socket_space)
  PROVE  LET r == wl_client_flush(cl)
         IN  /\ IsClient(r.cl, Played.socket_space) /\ SameCore(r.cl, cl)
             /\ r.cl.display_resource = cl.display_resource
             /\ r.cl.error = cl.error
             /\ cl.want_flush /\ r.ret = "ok" => r.cl.out = << >>
<1> DEFINE space == Played.socket_space
           room  == space - Len(cl.to_client)
           n     == IF Len(cl.out) <= room THEN Len(cl.out) ELSE room
           rest  == SubSeq(cl.out, n + 1, Len(cl.out))
           put   == SubSeq(cl.out, 1, n)
           more  == cl.to_client \o put
           new   == [cl EXCEPT !.to_client = more, !.out = rest, !.want_flush = n < Len(cl.out)]
           r     == wl_client_flush(cl)
<1>1. /\ space \in Nat /\ ClientFields \subseteq DOMAIN cl
      /\ IsSequence(cl.out) /\ IsSequence(cl.to_client)
      /\ Len(cl.out) <= OutSpace /\ Len(cl.to_client) <= space
  BY SpaceIs DEF IsClient
<1>2. Len(cl.out) \in Nat /\ Len(cl.to_client) \in Nat /\ OutSpace \in Nat
  BY <1>1, SequenceIs, BoundsAssumption
<1>3. n \in Nat /\ n <= Len(cl.out) /\ n <= room
  BY <1>1, <1>2
<1>4. r = IF ~cl.want_flush THEN [cl |-> cl, ret |-> "ok"]
          ELSE IF ~cl.up /\ cl.out # << >> THEN [cl |-> cl, ret |-> "EPIPE"]
          ELSE [cl |-> new, ret |-> IF n < Len(cl.out) THEN "EAGAIN" ELSE "ok"]
  BY DEF wl_client_flush
<1> HIDE DEF n
<1>5. /\ IsSequence(put) /\ Len(put) = n /\ IsSequence(rest) /\ Len(rest) = Len(cl.out) - n
      /\ n = Len(cl.out) => rest = << >>
  BY <1>1, <1>3, SequenceCut
<1> HIDE DEF put, rest
<1>6. IsSequence(more) /\ Len(more) = Len(cl.to_client) + n
  BY <1>1, <1>5, SequenceConcat
<1>7. Len(more) <= space /\ Len(rest) <= OutSpace
  BY <1>1, <1>2, <1>3, <1>5, <1>6
<1> HIDE DEF more, room, space
<1>8. /\ DOMAIN new = DOMAIN cl /\ SameCore(new, cl) /\ new.out = rest /\ new.to_client = more
      /\ new.display_resource = cl.display_resource /\ new.error = cl.error
  BY <1>1 DEF ClientFields, SameCore
<1> HIDE DEF new
<1>9. IsClient(new, space)
  BY <1>5, <1>6, <1>7, <1>8 DEF IsClient, SameCore, space
<1>10. SameCore(cl, cl)
  BY DEF SameCore
<1>11. ~(n < Len(cl.out)) => rest = << >>
  BY <1>2, <1>3, <1>5
<1> HIDE DEF r
<1>12. CASE ~cl.want_flush \/ (~cl.up /\ cl.out # << >>)
  BY <1>4, <1>10, <1>12 DEF r
<1>13. CASE ~(~cl.want_flush \/ (~cl.up /\ cl.out # << >>))
  BY <1>4, <1>8, <1>9, <1>11, <1>13 DEF r, space
<1>14. QED
  BY <1>12, <1>13 DEF r

LEMMA Posted ==
  ASSUME Types, NEW cl, IsClient(cl, Played.socket_space), NEW event, NEW now
  PROVE  LET p == handle_array(cl, event, now)
         IN  /\ IsClient(p, Played.socket_space) /\ SameCore(p, cl)
             /\ p.display_resource = cl.display_resource
<1> DEFINE space  == Played.socket_space
           wanted == [cl EXCEPT !.want_flush = TRUE]
           after  == IF Len(cl.out) < OutSpace THEN [cl |-> cl, ret |-> "ok"]
                     ELSE wl_client_flush(wanted)
           failed == [after.cl EXCEPT !.error = TRUE]
           put    == [after.cl EXCEPT !.out = Append(@, event), !.want_flush = @ \/ now]
           p      == handle_array(cl, event, now)
<1>1. p = IF cl.error THEN cl ELSE IF after.ret # "ok" THEN failed ELSE put
  BY DEF handle_array
<1>2. /\ ClientFields \subseteq DOMAIN cl /\ IsSequence(cl.out) /\ Len(cl.out) \in Nat
      /\ OutSpace \in Nat \ {0} /\ Len(cl.out) <= OutSpace
  BY SequenceIs, BoundsAssumption DEF IsClient
<1>3. /\ IsClient(wanted, space) /\ SameCore(wanted, cl) /\ wanted.want_flush
      /\ wanted.display_resource = cl.display_resource
  <2>1. /\ DOMAIN wanted = DOMAIN cl /\ SameCore(wanted, cl) /\ wanted.want_flush
        /\ wanted.display_resource = cl.display_resource
        /\ wanted.out = cl.out /\ wanted.to_client = cl.to_client
    BY <1>2 DEF ClientFields, SameCore
  <2>2. QED
    BY <2>1 DEF IsClient, SameCore
<1>4. /\ IsClient(after.cl, space) /\ SameCore(after.cl, cl)
      /\ after.cl.display_resource = cl.display_resource
      /\ after.ret = "ok" => Len(after.cl.out) < OutSpace
  <2>1. CASE Len(cl.out) < OutSpace
    BY <2>1 DEF SameCore
  <2>2. CASE ~(Len(cl.out) < OutSpace)
    <3> HIDE DEF wanted
    <3>1. Len(<< >>) = 0
      BY EmptySequence
    <3>2. 0 < OutSpace
      BY <1>2
    <3>3. QED
      BY <1>3, <2>2, <3>1, <3>2, Flushed DEF SameCore
  <2>3. QED
    BY <2>1, <2>2
<1> HIDE DEF after, p
<1>5. /\ IsClient(failed, space) /\ SameCore(failed, cl)
      /\ failed.display_resource = cl.display_resource
  <2>1. /\ DOMAIN failed = DOMAIN after.cl /\ SameCore(failed, after.cl)
        /\ failed.display_resource = after.cl.display_resource
        /\ failed.out = after.cl.out /\ failed.to_client = after.cl.to_client
    BY <1>4 DEF IsClient, ClientFields, SameCore
  <2> HIDE DEF failed
  <2>2. QED
    BY <1>4, <2>1 DEF IsClient, SameCore
<1>6. ASSUME after.ret = "ok"
      PROVE  IsClient(put, space) /\ SameCore(put, cl) /\ put.display_resource = cl.display_resource
  <2>1. /\ IsSequence(after.cl.out) /\ ClientFields \subseteq DOMAIN after.cl
        /\ Len(after.cl.out) < OutSpace
    BY <1>4, <1>6 DEF IsClient
  <2>2. /\ DOMAIN put = DOMAIN after.cl /\ SameCore(put, after.cl)
        /\ put.display_resource = after.cl.display_resource
        /\ put.out = Append(after.cl.out, event) /\ put.to_client = after.cl.to_client
    BY <2>1 DEF ClientFields, SameCore
  <2>3. /\ IsSequence(Append(after.cl.out, event))
        /\ Len(Append(after.cl.out, event)) = Len(after.cl.out) + 1
        /\ Len(after.cl.out) \in Nat
    BY <2>1, SequenceAppended
  <2>4. Len(Append(after.cl.out, event)) <= OutSpace
    BY <1>2, <2>1, <2>3
  <2> HIDE DEF put
  <2>5. QED
    BY <1>4, <2>2, <2>3, <2>4 DEF IsClient, SameCore
<1> HIDE DEF failed, put, space
<1>7. p = cl \/ p = failed \/ (after.ret = "ok" /\ p = put)
  BY <1>1
<1>8. SameCore(cl, cl)
  BY DEF SameCore
<1>9. IsClient(p, space) /\ SameCore(p, cl) /\ p.display_resource = cl.display_resource
  BY <1>5, <1>6, <1>7, <1>8 DEF space
<1>10. QED
  BY <1>9 DEF p, space

LEMMA ErrorPosted ==
  ASSUME Types, NEW cl, IsClient(cl, Played.socket_space), NEW why
  PROVE  LET p == wl_resource_post_error(cl, why)
         IN  /\ IsClient(p, Played.socket_space) /\ SameCore(p, cl)
             /\ p.display_resource = cl.display_resource
<1> DEFINE told == handle_array(cl, Event("error", Display, why), TRUE)
           p    == wl_resource_post_error(cl, why)
           last == [told EXCEPT !.error = TRUE]
<1>1. p = IF cl.error \/ ~cl.display_resource THEN cl ELSE last
  BY DEF wl_resource_post_error, wl_resource_post_event
<1>2. /\ IsClient(told, Played.socket_space) /\ SameCore(told, cl)
      /\ told.display_resource = cl.display_resource
  BY Posted
<1> HIDE DEF told, p
<1>3. /\ DOMAIN last = DOMAIN told /\ SameCore(last, told)
      /\ last.display_resource = told.display_resource
      /\ last.out = told.out /\ last.to_client = told.to_client
  BY <1>2 DEF IsClient, ClientFields, SameCore
<1> HIDE DEF last
<1>4. IsClient(last, Played.socket_space) /\ SameCore(last, cl)
      /\ last.display_resource = cl.display_resource
  BY <1>2, <1>3 DEF IsClient, SameCore
<1>5. p = cl \/ p = last
  BY <1>1
<1>6. SameCore(cl, cl)
  BY DEF SameCore
<1>7. QED
  BY <1>4, <1>5, <1>6 DEF p

-----------------------------------------------------------------------------
(* How frames come and go.                                                 *)

LEMMA StackNow ==
  ASSUME StackShape
  PROVE  /\ Len(stack) \in Nat \ {0} /\ DOMAIN stack = 1..Len(stack)
         /\ Len(stack) \in DOMAIN stack /\ Top = stack[Len(stack)]
         /\ \A i \in DOMAIN stack : i = Len(stack) \/ i < Len(stack)
BY StackIs

LEMMA Gone ==
  ASSUME StackShape, NEW f, Goto(f)
  PROVE  /\ Len(stack') = Len(stack) /\ DOMAIN stack' = DOMAIN stack
         /\ stack'[Len(stack)] = f
         /\ \A i \in DOMAIN stack : i # Len(stack) => i < Len(stack) /\ stack'[i] = stack[i]
<1>1. Keeps(Len(stack)) /\ stack'[Len(stack)] = f
  BY GotoStack
<1>2. Len(stack) \in Nat \ {0} /\ DOMAIN stack = 1..Len(stack)
  BY StackIs
<1>3. ASSUME NEW n \in Nat
      PROVE  \A i \in 1..n : i = n \/ (i \in 1..n - 1 /\ i < n)
  OBVIOUS
<1>4. ASSUME NEW i \in 1..Len(stack), i # Len(stack)
      PROVE  i < Len(stack) /\ stack'[i] = stack[i]
  <2>1. i \in 1..Len(stack) - 1 /\ i < Len(stack)
    BY <1>2, <1>3, <1>4
  <2>2. QED
    BY <1>1, <2>1 DEF Keeps
<1>5. Len(stack') = Len(stack) /\ DOMAIN stack' = 1..Len(stack)
  BY <1>1 DEF Keeps
<1>6. QED
  BY <1>1, <1>2, <1>4, <1>5

LEMMA Called ==
  ASSUME StackShape, NEW f, NEW after, Call(f, after)
  PROVE  /\ Len(stack') = Len(stack) + 1 /\ DOMAIN stack' = DOMAIN stack \cup {Len(stack) + 1}
         /\ Len(stack) + 1 \notin DOMAIN stack
         /\ stack'[Len(stack)] = after /\ stack'[Len(stack) + 1] = f
         /\ \A i \in DOMAIN stack : i # Len(stack) => i < Len(stack) /\ stack'[i] = stack[i]
<1>1. Keeps(Len(stack) + 1) /\ stack'[Len(stack)] = after /\ stack'[Len(stack) + 1] = f
  BY CallStack
<1>2. Len(stack) \in Nat \ {0} /\ DOMAIN stack = 1..Len(stack)
  BY StackIs
<1>3. ASSUME NEW n \in Nat
      PROVE  \A i \in 1..n : /\ i = n \/ (i \in 1..n - 1 /\ i < n)
                             /\ i \in 1..n + 1
  OBVIOUS
<1>4. 1..Len(stack) + 1 = 1..Len(stack) \cup {Len(stack) + 1} /\ Len(stack) + 1 \notin 1..Len(stack)
  BY <1>2
<1>5. QED
  BY <1>1, <1>2, <1>3, <1>4 DEF Keeps

LEMMA Returned ==
  ASSUME StackShape, Return
  PROVE  /\ Len(stack') = Len(stack) - 1 /\ DOMAIN stack' = DOMAIN stack \ {Len(stack)}
         /\ \A i \in DOMAIN stack' : i \in DOMAIN stack /\ i < Len(stack) /\ stack'[i] = stack[i]
<1>1. Keeps(Len(stack) - 1)
  BY ReturnStack
<1>2. Len(stack) \in Nat \ {0} /\ DOMAIN stack = 1..Len(stack)
  BY StackIs
<1>3. \A i \in 1..Len(stack) - 1 : i \in 1..Len(stack) /\ i < Len(stack)
  BY <1>2
<1>4. 1..Len(stack) - 1 = 1..Len(stack) \ {Len(stack)}
  BY <1>2
<1>5. QED
  BY <1>1, <1>2, <1>3, <1>4 DEF Keeps

LEMMA FramesGoto ==
  ASSUME StackShape, FramesInv, NEW f, Goto(f), Known(f), f.at \in OfLoop => Top.at \in OfLoop
  PROVE  FramesInv'
<1>1. /\ Len(stack') = Len(stack) /\ DOMAIN stack' = DOMAIN stack
      /\ stack'[Len(stack)] = f
      /\ \A i \in DOMAIN stack : i # Len(stack) => i < Len(stack) /\ stack'[i] = stack[i]
  BY Gone
<1>2. Len(stack) \in DOMAIN stack /\ Top = stack[Len(stack)] /\ DOMAIN stack = 1..Len(stack)
  BY StackNow
<1>3. ASSUME NEW i \in DOMAIN stack', stack'[i].at \in OfLoop
      PROVE  i = 3 /\ stack'[2].at \in Loop
  <2>1. i = 3 /\ stack[2].at \in Loop
    BY <1>1, <1>2, <1>3 DEF FramesInv
  <2>2. 2 \in DOMAIN stack /\ 2 # Len(stack)
    BY <1>1, <1>2, <1>3, <2>1, StackNow
  <2>3. QED
    BY <1>1, <2>1, <2>2
<1>4. QED
  BY <1>1, <1>2, <1>3 DEF FramesInv

LEMMA FramesCall ==
  ASSUME StackShape, FramesInv, NEW f, NEW after, Call(f, after), Known(f), Known(after),
         after.at \notin Innermost, after.at \in OfLoop => Top.at \in OfLoop,
         f.at \in OfLoop => Len(stack) = 2 /\ after.at \in Loop
  PROVE  FramesInv'
<1>1. /\ Len(stack') = Len(stack) + 1 /\ DOMAIN stack' = DOMAIN stack \cup {Len(stack) + 1}
      /\ Len(stack) + 1 \notin DOMAIN stack
      /\ stack'[Len(stack)] = after /\ stack'[Len(stack) + 1] = f
      /\ \A i \in DOMAIN stack : i # Len(stack) => i < Len(stack) /\ stack'[i] = stack[i]
  BY Called
<1>2. /\ Len(stack) \in DOMAIN stack /\ Top = stack[Len(stack)] /\ DOMAIN stack = 1..Len(stack)
      /\ Len(stack) \in Nat
  BY StackNow
<1>3. ASSUME NEW i \in DOMAIN stack', stack'[i].at \in OfLoop
      PROVE  i = 3 /\ stack'[2].at \in Loop
  <2>1. CASE i = Len(stack) + 1
    BY <1>1, <1>3, <2>1
  <2>2. CASE i \in DOMAIN stack
    <3>1. i = 3 /\ stack[2].at \in Loop
      BY <1>1, <1>2, <1>3, <2>2 DEF FramesInv
    <3>2. 2 \in DOMAIN stack /\ 2 # Len(stack)
      BY <1>2, <2>2, <3>1
    <3>3. QED
      BY <1>1, <3>1, <3>2
  <2>3. QED
    BY <1>1, <2>1, <2>2
<1>4. ASSUME NEW i \in DOMAIN stack', stack'[i].at \in Innermost PROVE i = Len(stack')
  <2>1. CASE i = Len(stack) + 1
    BY <1>1, <2>1
  <2>2. CASE i \in DOMAIN stack
    BY <1>1, <1>4, <2>2 DEF FramesInv
  <2>3. QED
    BY <1>1, <2>1, <2>2
<1>5. \A i \in DOMAIN stack' : Known(stack'[i])
  BY <1>1 DEF FramesInv
<1>6. QED
  BY <1>3, <1>4, <1>5 DEF FramesInv

LEMMA FramesReturn ==
  ASSUME StackShape, FramesInv, Return
  PROVE  FramesInv'
<1>1. /\ Len(stack') = Len(stack) - 1 /\ DOMAIN stack' = DOMAIN stack \ {Len(stack)}
      /\ \A i \in DOMAIN stack' : i \in DOMAIN stack /\ i < Len(stack) /\ stack'[i] = stack[i]
  BY Returned
<1>2. DOMAIN stack = 1..Len(stack) /\ Len(stack) \in Nat
  BY StackNow
<1>3. ASSUME NEW i \in DOMAIN stack', stack'[i].at \in OfLoop
      PROVE  i = 3 /\ stack'[2].at \in Loop
  <2>1. i = 3 /\ stack[2].at \in Loop /\ 3 \in DOMAIN stack /\ 3 < Len(stack)
    BY <1>1, <1>3 DEF FramesInv
  <2>2. 2 \in DOMAIN stack'
    BY <1>1, <1>2, <2>1
  <2>3. QED
    BY <1>1, <2>1, <2>2
<1>4. \A i \in DOMAIN stack' : Known(stack'[i]) /\ stack'[i].at \notin Innermost
  BY <1>1, <1>2 DEF FramesInv
<1>5. QED
  BY <1>3, <1>4 DEF FramesInv

LEMMA FramesSame ==
  ASSUME FramesInv, UNCHANGED stack
  PROVE  FramesInv'
BY DEF FramesInv

(* Of the loop's functions only one works, and only the loop is under it.  *)
LEMMA Shallow ==
  ASSUME StackShape, FramesInv, Top.at \in OfLoop \cup Loop \cup Base
  PROVE  \A i \in DOMAIN stack : i # Len(stack) =>
           stack[i].at \in Base \cup Loop /\ stack[i].c = NULL
<1>1. /\ Len(stack) \in DOMAIN stack /\ Top = stack[Len(stack)] /\ DOMAIN stack = 1..Len(stack)
      /\ Len(stack) \in Nat
  BY StackNow
<1>2. \A i \in DOMAIN stack : Fits(stack[i], i)
  BY DEF StackShape
<1>3. CASE Top.at \in Base
  <2>1. Len(stack) = 1
    BY <1>1, <1>2, <1>3 DEF Fits
  <2>2. QED
    BY <1>1, <2>1
<1>4. CASE Top.at \in Loop
  <2>1. Len(stack) = 2
    BY <1>1, <1>2, <1>4 DEF Fits
  <2>2. ASSUME NEW i \in DOMAIN stack, i # Len(stack) PROVE stack[i].at \in Base
    <3>1. i = 1
      BY <1>1, <2>1, <2>2
    <3>2. QED
      BY <1>2, <3>1 DEF Fits
  <2>3. QED
    BY <2>2 DEF FramesInv, Known, ForNone
<1>5. CASE Top.at \in OfLoop
  <2>1. Len(stack) = 3 /\ stack[2].at \in Loop
    BY <1>1, <1>5 DEF FramesInv
  <2>2. ASSUME NEW i \in DOMAIN stack, i # Len(stack) PROVE stack[i].at \in Base \cup Loop
    <3>1. i = 1 \/ i = 2
      BY <1>1, <2>1, <2>2
    <3>2. QED
      BY <1>2, <2>1, <2>2, <3>1 DEF Fits
  <2>3. QED
    BY <2>2 DEF FramesInv, Known, ForNone
<1>6. QED
  BY <1>3, <1>4, <1>5

-----------------------------------------------------------------------------
(* A function that is called finds its place among its callers.            *)

Below    == DOMAIN stack \ {Len(stack)}
Joins(f) == \A i \in Below : Together(stack[i], f)

LEMMA TopJoins ==
  ASSUME StackShape, Alone, NEW f, f.c = Top.c,
         f.at = Top.at \/ (f.at \in Destroyers /\ Top.at \in Destroyers)
  PROVE  Joins(f)
<1>1. \A i \in Below : Together(stack[i], Top)
  BY StackNow DEF Alone, Below
<1>2. \A at \in Destroyers : at \notin Within /\ at # "flush_next"
  BY DEF Destroyers, Within, Resource
<1>3. QED
  BY <1>1, <1>2 DEF Joins, Together

LEMMA WithinJoins ==
  ASSUME NEW f, f.at \in Within
  PROVE  Joins(f)
BY DEF Joins, Together, Within, Resource, Destroyers

LEMMA NoneJoins ==
  ASSUME FramesInv, NEW f, Known(f), f.c \notin Clients, f.at # "flush_next"
  PROVE  Joins(f)
<1>1. f.at \notin Destroyers
  BY DEF Known, ForClient
<1>2. \A i \in Below : stack[i].at \in Destroyers => stack[i].c \in Clients
  BY DEF FramesInv, Known, ForClient, Below
<1>3. QED
  BY <1>1, <1>2 DEF Joins, Together

LEMMA ShallowJoins ==
  ASSUME StackShape, FramesInv, Top.at \in OfLoop \cup Loop \cup Base, NEW f, Known(f)
  PROVE  Joins(f)
<1>1. \A i \in Below : stack[i].at \in Base \cup Loop /\ stack[i].c = NULL
  BY Shallow DEF Below
<1>2. f.at \in Destroyers => f.c \in Clients
  BY DEF Known, ForClient
<1>3. \A i \in Below : stack[i].at \notin Destroyers /\ stack[i].at # "flush_next"
  BY <1>1 DEF Base, Loop, Destroyers
<1>4. NULL \notin Clients
  BY ClientsAssumption
<1>5. QED
  BY <1>1, <1>2, <1>3, <1>4 DEF Joins, Together, Apart

LEMMA AloneGoto ==
  ASSUME StackShape, Alone, NEW f, Goto(f), Joins(f)
  PROVE  Alone'
<1>1. /\ DOMAIN stack' = DOMAIN stack /\ stack'[Len(stack)] = f
      /\ \A i \in DOMAIN stack : i # Len(stack) => i < Len(stack) /\ stack'[i] = stack[i]
  BY Gone
<1>2. DOMAIN stack = 1..Len(stack) /\ Len(stack) \in Nat
  BY StackNow
<1>3. ASSUME NEW i \in DOMAIN stack, NEW j \in DOMAIN stack, j < i
      PROVE  Together(stack'[j], stack'[i])
  <2>1. j # Len(stack)
    BY <1>1, <1>2, <1>3
  <2>2. CASE i = Len(stack)
    BY <1>1, <2>1, <2>2 DEF Joins, Below
  <2>3. CASE i # Len(stack)
    BY <1>1, <1>3, <2>1, <2>3 DEF Alone
  <2>4. QED
    BY <2>2, <2>3
<1>4. QED
  BY <1>1, <1>3 DEF Alone

LEMMA AloneCall ==
  ASSUME StackShape, Alone, NEW f, NEW after, Call(f, after), Joins(after), Joins(f),
         Together(after, f)
  PROVE  Alone'
<1> DEFINE n == Len(stack)
<1>1. /\ DOMAIN stack' = DOMAIN stack \cup {n + 1} /\ stack'[n] = after /\ stack'[n + 1] = f
      /\ \A i \in DOMAIN stack : i # n => i < n /\ stack'[i] = stack[i]
  BY Called
<1>2. DOMAIN stack = 1..n /\ n \in Nat
  BY StackNow
<1> HIDE DEF n
<1>3. ASSUME NEW i \in DOMAIN stack', NEW j \in DOMAIN stack', j < i
      PROVE  Together(stack'[j], stack'[i])
  <2>1. j \in DOMAIN stack /\ (i \in DOMAIN stack => j # n)
    BY <1>1, <1>2, <1>3
  <2>2. CASE i = n + 1 /\ j = n
    BY <1>1, <2>2
  <2>3. CASE i = n + 1 /\ j # n
    BY <1>1, <2>1, <2>3 DEF Joins, Below, n
  <2>4. CASE i \in DOMAIN stack /\ i = n
    BY <1>1, <2>1, <2>4 DEF Joins, Below, n
  <2>5. CASE i \in DOMAIN stack /\ i # n
    BY <1>1, <1>3, <2>1, <2>5 DEF Alone
  <2>6. QED
    BY <1>1, <2>2, <2>3, <2>4, <2>5
<1>4. QED
  BY <1>3 DEF Alone

LEMMA AloneReturn ==
  ASSUME StackShape, Alone, Return
  PROVE  Alone'
BY Returned DEF Alone

-----------------------------------------------------------------------------
(* Steps that leave it as it is who lives, and which objects there are.    *)

Steady ==
  /\ \A c \in Clients : /\ Lives(client'[c]) <=> Lives(client[c])
                        /\ client'[c].life = "none" <=> client[c].life = "none"
                        /\ peer'[c].connects <=> peer[c].connects
  /\ display'.client_list = display.client_list /\ display'.detached = display.detached

Quiet ==
  /\ \A c \in Clients : /\ Lives(client'[c]) <=> Lives(client[c])
                        /\ client'[c].objects = client[c].objects
                        /\ client'[c].display_resource => client[c].display_resource
  /\ display'.registries = display.registries

Calm == Quiet /\ ToSet(display.globals) \subseteq ToSet(display'.globals)

LEMMA AliveSteady ==
  ASSUME Steady, NEW f, Known(f), Alive(f, client, peer)
  PROVE  Alive(f, client', peer')
<1>1. f.c \in Clients => IF f.at = "client_create"
                         THEN client'[f.c].life = "none" /\ ~peer'[f.c].connects
                         ELSE Lives(client'[f.c])
  BY DEF Steady, Alive
<1>2. f.at = "dispatch" => \A r \in f.ready : r.source = "socket" =>
        r = [source |-> "socket", c |-> r.c] /\ peer'[r.c].connects
  BY DEF Steady, Alive, Known
<1>3. f.at \in {"flush", "flush_next"} /\ f.next # HEAD => Lives(client'[f.next]) /\ f.next # f.c
  BY DEF Steady, Alive, Known
<1>4. QED
  BY <1>1, <1>2, <1>3 DEF Alive

LEMMA MembersSteady ==
  ASSUME Members(display, client), Steady
  PROVE  Members(display', client')
BY DEF Members, Steady

LEMMA LifeSteady ==
  ASSUME LifeInv, Steady, Alone',
         \A i \in DOMAIN stack' : Known(stack'[i]) /\ Alive(stack'[i], client, peer)
  PROVE  LifeInv'
<1>1. \A c \in Clients : peer'[c].connects => client'[c].life = "none"
  BY DEF LifeInv, Steady
<1>2. Members(display', client')
  BY MembersSteady DEF LifeInv
<1>3. \A i \in DOMAIN stack' : Alive(stack'[i], client', peer')
  BY AliveSteady
<1>4. QED
  BY <1>1, <1>2, <1>3 DEF LifeInv

(* The functions that destroy objects stay where they are.                 *)
OwnersStay ==
  /\ \A i \in DOMAIN stack' :
       stack'[i].at \in Owners => i \in DOMAIN stack /\ stack'[i] = stack[i]
  /\ \A i \in DOMAIN stack :
       stack[i].at \in Owners => i \in DOMAIN stack' /\ stack'[i] = stack[i]

LEMMA OwnersQuiet ==
  ASSUME DestroyedOnce, FreedGo, FramesInv, FramesInv', OwnersStay, Quiet
  PROVE  DestroyedOnce' /\ FreedGo'
<1>1. \A f, c, k : Goes(f, c, k) => f.at \in Owners
  BY DEF Goes, Owners, Resource
<1>2. \A f, c, k : Removes(f, c, k) => f.at \in Owners
  BY DEF Removes, Owners, Resource
<1>3. \A i \in DOMAIN stack' : stack'[i].at \in Owners => stack'[i].c \in Clients
  <2>1. \A at \in Owners : at \in ForClient
    BY DEF Owners, ForClient, Destroyers
  <2>2. QED
    BY <2>1 DEF FramesInv, Known
<1>4. \A j \in DOMAIN stack' : \A c, k : Goes(stack'[j], c, k) =>
        j \in DOMAIN stack /\ Goes(stack[j], c, k)
  BY <1>1 DEF OwnersStay
<1>5. \A j \in DOMAIN stack : \A c, k : Goes(stack[j], c, k) =>
        j \in DOMAIN stack' /\ Goes(stack'[j], c, k)
  BY <1>1 DEF OwnersStay
<1>6. \A j \in DOMAIN stack' : \A c, k : Busy(stack'[j], c, k) =>
        j \in DOMAIN stack /\ Busy(stack[j], c, k)
  BY DEF OwnersStay, Busy, Goes, Owners, Resource
<1>7. ASSUME NEW i \in DOMAIN stack', stack'[i].at \in Owners
      PROVE  OnceAt(stack', client', i)
  <2>1. /\ i \in DOMAIN stack /\ stack'[i] = stack[i] /\ stack[i].c \in Clients
        /\ client'[stack[i].c].objects = client[stack[i].c].objects
    BY <1>3, <1>7 DEF OwnersStay, Quiet
  <2> DEFINE f == stack[i]
  <2>2. CASE f.at = "resource_destroy"
    BY <1>6, <2>1, <2>2 DEF DestroyedOnce, OnceAt
  <2>3. CASE f.at = "resource_destroyed"
    BY <1>4, <2>1, <2>3 DEF DestroyedOnce, OnceAt
  <2>4. CASE f.at \in {"destroy_resource", "free_resource"}
    <3>1. /\ client[f.c].objects[f.id] \notin {"none", "freed"}
          /\ \A j \in DOMAIN stack : Goes(stack[j], f.c, f.id) => j = i
          /\ i - 1 \in DOMAIN stack /\ stack[i - 1].c = f.c
          /\ \/ stack[i - 1].at = "resource_destroyed" /\ stack[i - 1].id = f.id
             \/ stack[i - 1].at = "client_resources" /\ stack[i - 1].id = f.id + 1
      BY <2>1, <2>4 DEF DestroyedOnce, OnceAt
    <3>2. i - 1 \in DOMAIN stack' /\ stack'[i - 1] = stack[i - 1]
      BY <3>1 DEF OwnersStay, Owners, Resource
    <3>3. QED
      BY <1>4, <2>1, <2>4, <3>1, <3>2 DEF OnceAt
  <2>5. CASE f.at = "client_resources"
    <3>1. \A k \in Ids : k < f.id =>
            \/ client[f.c].objects[k] \in {"none", "freed"}
            \/ i + 1 \in DOMAIN stack /\ Goes(stack[i + 1], f.c, k)
      BY <2>1, <2>5 DEF DestroyedOnce, OnceAt
    <3>2. QED
      BY <1>5, <2>1, <2>5, <3>1 DEF OnceAt
  <2>6. QED
    BY <1>7, <2>1, <2>2, <2>3, <2>4, <2>5 DEF Owners, Resource
<1>8. DestroyedOnce'
  BY <1>7 DEF DestroyedOnce, OnceAt, Owners, Resource
<1>9. ASSUME NEW c \in Clients, NEW k \in Ids, Lives(client'[c]), client'[c].objects[k] = "freed"
      PROVE  \E i \in DOMAIN stack' : Removes(stack'[i], c, k)
  <2>1. PICK i \in DOMAIN stack : Removes(stack[i], c, k)
    BY <1>9 DEF FreedGo, Quiet
  <2>2. QED
    BY <1>2, <2>1 DEF OwnersStay
<1>10. QED
  BY <1>8, <1>9 DEF FreedGo

LEMMA RegisteredQuiet ==
  ASSUME Registered(display, client), Quiet
  PROVE  Registered(display', client')
BY DEF Registered, Quiet

LEMMA DisplayQuiet ==
  ASSUME Quiet, \A c \in Clients : DisplayIs(client[c])
  PROVE  \A c \in Clients : DisplayIs(client'[c])
BY DEF Quiet, DisplayIs

LEMMA ReachesCalm ==
  ASSUME Calm, NEW f, Reaches(f, display)
  PROVE  Reaches(f, display')
BY DEF Calm, Quiet, Reaches

LEMMA ObjectsQuiet ==
  ASSUME ObjectsInv, FramesInv, FramesInv', OwnersStay, Quiet,
         \A i \in DOMAIN stack' : Reaches(stack'[i], display')
  PROVE  ObjectsInv'
<1>1. DestroyedOnce' /\ FreedGo'
  BY OwnersQuiet DEF ObjectsInv
<1>2. Registered(display', client')
  BY RegisteredQuiet DEF ObjectsInv
<1>3. \A c \in Clients : DisplayIs(client'[c])
  BY DisplayQuiet DEF ObjectsInv
<1>4. QED
  BY <1>1, <1>2, <1>3 DEF ObjectsInv

LEMMA ObjectsCalm ==
  ASSUME ObjectsInv, FramesInv, FramesInv', OwnersStay, Calm,
         \A i \in DOMAIN stack' : Reaches(stack'[i], display)
  PROVE  ObjectsInv'
<1>1. \A i \in DOMAIN stack' : Reaches(stack'[i], display')
  BY ReachesCalm
<1>2. QED
  BY <1>1, ObjectsQuiet DEF Calm

-----------------------------------------------------------------------------
(* Steps of which only the frames matter.                                  *)

UseInv == FramesInv /\ LifeInv /\ ObjectsInv

Suits(f) == Known(f) /\ Alive(f, client, peer) /\ Reaches(f, display) /\ Joins(f)
Sound(f) == Suits(f) /\ f.at \notin Owners

LEMMA TopSuits ==
  ASSUME ListenersInv, UseInv
  PROVE  Suits(Top)
<1>1. StackShape
  BY DEF ListenersInv
<1>2. Len(stack) \in DOMAIN stack /\ Top = stack[Len(stack)]
  BY <1>1, StackNow
<1>3. Joins(Top)
  BY <1>1, TopJoins DEF UseInv, LifeInv
<1>4. QED
  BY <1>2, <1>3 DEF Suits, UseInv, FramesInv, LifeInv, ObjectsInv

LEMMA PlaceGoto ==
  ASSUME ListenersInv, UseInv, Steady, NEW f, Goto(f), Suits(f),
         f.at \in OfLoop => Top.at \in OfLoop
  PROVE  FramesInv' /\ LifeInv' /\ \A i \in DOMAIN stack' : Reaches(stack'[i], display)
<1>1. StackShape
  BY DEF ListenersInv
<1>2. FramesInv'
  BY <1>1, FramesGoto DEF UseInv, Suits
<1>3. /\ DOMAIN stack' = DOMAIN stack /\ stack'[Len(stack)] = f
      /\ \A i \in DOMAIN stack : i # Len(stack) => stack'[i] = stack[i]
  BY <1>1, Gone
<1>4. Alone'
  BY <1>1, AloneGoto DEF UseInv, LifeInv, Suits
<1>5. \A i \in DOMAIN stack' : /\ Alive(stack'[i], client, peer) /\ Reaches(stack'[i], display)
                               /\ Known(stack'[i])
  BY <1>3 DEF UseInv, FramesInv, LifeInv, ObjectsInv, Suits
<1>6. QED
  BY <1>2, <1>4, <1>5, LifeSteady DEF UseInv

LEMMA PlaceCall ==
  ASSUME ListenersInv, UseInv, Steady, NEW f, NEW after, Call(f, after), Suits(f), Suits(after),
         Together(after, f),
         after.at \notin Innermost, after.at \in OfLoop => Top.at \in OfLoop,
         f.at \in OfLoop => Len(stack) = 2 /\ after.at \in Loop
  PROVE  FramesInv' /\ LifeInv' /\ \A i \in DOMAIN stack' : Reaches(stack'[i], display)
<1>1. StackShape
  BY DEF ListenersInv
<1>2. FramesInv'
  BY <1>1, FramesCall DEF UseInv, Suits
<1>3. /\ DOMAIN stack' = DOMAIN stack \cup {Len(stack) + 1} /\ Len(stack) + 1 \notin DOMAIN stack
      /\ stack'[Len(stack)] = after /\ stack'[Len(stack) + 1] = f
      /\ \A i \in DOMAIN stack : i # Len(stack) => stack'[i] = stack[i]
  BY <1>1, Called
<1>4. Alone'
  BY <1>1, AloneCall DEF UseInv, LifeInv, Suits
<1>5. \A i \in DOMAIN stack' : /\ Alive(stack'[i], client, peer) /\ Reaches(stack'[i], display)
                               /\ Known(stack'[i])
  BY <1>3 DEF UseInv, FramesInv, LifeInv, ObjectsInv, Suits
<1>6. QED
  BY <1>2, <1>4, <1>5, LifeSteady DEF UseInv

LEMMA PlaceReturn ==
  ASSUME ListenersInv, UseInv, Steady, Return
  PROVE  FramesInv' /\ LifeInv' /\ \A i \in DOMAIN stack' : Reaches(stack'[i], display)
<1>1. StackShape
  BY DEF ListenersInv
<1>2. FramesInv'
  BY <1>1, FramesReturn DEF UseInv
<1>3. \A i \in DOMAIN stack' : i \in DOMAIN stack /\ stack'[i] = stack[i]
  BY <1>1, Returned
<1>4. Alone'
  BY <1>1, AloneReturn DEF UseInv, LifeInv
<1>5. \A i \in DOMAIN stack' : /\ Alive(stack'[i], client, peer) /\ Reaches(stack'[i], display)
                               /\ Known(stack'[i])
  BY <1>3 DEF UseInv, FramesInv, LifeInv, ObjectsInv
<1>6. QED
  BY <1>2, <1>4, <1>5, LifeSteady DEF UseInv

LEMMA UseGoto ==
  ASSUME ListenersInv, UseInv, Steady, Calm, NEW f, Goto(f), Sound(f), Top.at \notin Owners,
         f.at \in OfLoop => Top.at \in OfLoop
  PROVE  UseInv'
<1>1. FramesInv' /\ LifeInv' /\ \A i \in DOMAIN stack' : Reaches(stack'[i], display)
  BY PlaceGoto DEF Sound
<1>2. OwnersStay
  BY Gone, StackNow DEF OwnersStay, Sound, ListenersInv
<1>3. QED
  BY <1>1, <1>2, ObjectsCalm DEF UseInv

LEMMA UseCall ==
  ASSUME ListenersInv, UseInv, Steady, Calm, NEW f, NEW after, Call(f, after),
         Sound(f), Sound(after), Together(after, f), Top.at \notin Owners,
         after.at \notin Innermost, after.at \in OfLoop => Top.at \in OfLoop,
         f.at \in OfLoop => Len(stack) = 2 /\ after.at \in Loop
  PROVE  UseInv'
<1>1. FramesInv' /\ LifeInv' /\ \A i \in DOMAIN stack' : Reaches(stack'[i], display)
  BY PlaceCall DEF Sound
<1>2. OwnersStay
  BY Called, StackNow DEF OwnersStay, Sound, ListenersInv
<1>3. QED
  BY <1>1, <1>2, ObjectsCalm DEF UseInv

LEMMA UseReturn ==
  ASSUME ListenersInv, UseInv, Steady, Calm, Return, Top.at \notin Owners
  PROVE  UseInv'
<1>1. FramesInv' /\ LifeInv' /\ \A i \in DOMAIN stack' : Reaches(stack'[i], display)
  BY PlaceReturn
<1>2. OwnersStay
  BY Returned, StackNow DEF OwnersStay, ListenersInv
<1>3. QED
  BY <1>1, <1>2, ObjectsCalm DEF UseInv

LEMMA UseSame ==
  ASSUME UseInv, Steady, Calm, UNCHANGED stack
  PROVE  UseInv'
<1>1. FramesInv'
  BY FramesSame DEF UseInv
<1>2. Alone'
  BY DEF UseInv, LifeInv, Alone
<1>3. \A i \in DOMAIN stack' : /\ Alive(stack'[i], client, peer) /\ Reaches(stack'[i], display)
                               /\ Known(stack'[i])
  BY DEF UseInv, FramesInv, LifeInv, ObjectsInv
<1>4. LifeInv'
  BY <1>2, <1>3, LifeSteady DEF UseInv
<1>5. OwnersStay
  BY DEF OwnersStay
<1>6. ObjectsInv'
  BY <1>1, <1>3, <1>5, ObjectsCalm DEF UseInv
<1>7. QED
  BY <1>1, <1>4, <1>6 DEF UseInv

-----------------------------------------------------------------------------
(* The frames that are made.                                               *)

(* Frames without a list, of which only the client and the id matter.      *)
Simple == {"user"} \cup Destroyers \cup Resource

LEMMA SimpleFrame ==
  ASSUME NEW at \in Simple, NEW c \in Clients \cup {NULL}, at # "user" => c \in Clients,
         c \in Clients => Lives(client[c]), NEW id, at \in Resource => id \in Ids,
         at = "client_resources" => id \in Nat \ {0}
  PROVE  LET f == [at |-> at, c |-> c, id |-> id]
         IN  /\ Known(f) /\ Alive(f, client, peer) /\ Reaches(f, display)
             /\ f.at = at /\ f.c = c /\ f.id = id
             /\ f.at \notin OfLoop
<1> DEFINE f == [at |-> at, c |-> c, id |-> id]
<1>1. f.at = at /\ f.c = c /\ f.id = id /\ DOMAIN f = {"at", "c", "id"}
  OBVIOUS
<1> HIDE DEF f
<1>2. at \in {"user", "client_destroy", "client_flush", "client_resources", "resource_destroy",
              "resource_destroyed", "destroy_resource", "free_resource"}
  BY DEF Simple, Destroyers, Resource
<1>3. at \in ForClient => c \in Clients
  <2>1. "user" \notin ForClient
    BY DEF ForClient, Destroyers, Resource
  <2>2. QED
    BY <2>1
<1>4. at \notin ForNone /\ at \notin OfLoop
  BY <1>2 DEF ForNone, Base, Loop, OfLoop
<1>5. Known(f)
  BY <1>1, <1>2, <1>3, <1>4 DEF Known
<1>6. Alive(f, client, peer) /\ Reaches(f, display)
  BY <1>1, <1>2 DEF Alive, Reaches
<1>7. QED
  BY <1>1, <1>4, <1>5, <1>6 DEF f

LEMMA LoopFrame ==
  ASSUME NEW at \in Base \cup Loop, at # "dispatch"
  PROVE  LET f == Frame(at, NULL)
         IN  /\ Known(f) /\ Alive(f, client, peer) /\ Reaches(f, display)
             /\ f.at = at /\ f.c = NULL
             /\ f.at \notin OfLoop \cup Owners \cup Innermost
<1> DEFINE f == Frame(at, NULL)
<1>1. f.at = at /\ f.c = NULL /\ DOMAIN f = {"at", "c", "id"}
  BY DEF Frame
<1> HIDE DEF f
<1>2. at \in {"main", "destroy_clients", "destroy_detached", "end", "run", "poll"}
  BY DEF Base, Loop
<1>3. at \notin OfLoop \cup Owners \cup Innermost \cup ForClient
  BY <1>2 DEF OfLoop, Owners, Innermost, ForClient, Resource, Destroyers
<1>4. Known(f)
  <2>1. at \notin Resource
    BY <1>3 DEF ForClient
  <2>2. QED
    BY <1>1, <1>2, <1>3, <2>1 DEF Known
<1>5. Alive(f, client, peer) /\ Reaches(f, display)
  BY <1>1, <1>2, ClientsAssumption DEF Alive, Reaches
<1>6. QED
  BY <1>1, <1>3, <1>4, <1>5 DEF f

LEMMA FlushFrame ==
  ASSUME NEW c \in Clients \cup {HEAD}, c \in Clients => Lives(client[c]),
         NEW next \in Clients \cup {HEAD}, next # HEAD => Lives(client[next]) /\ next # c
  PROVE  LET f == Flushing(c, next)
         IN  /\ Known(f) /\ Alive(f, client, peer) /\ Reaches(f, display)
             /\ f.at = "flush" /\ f.c = c
<1> DEFINE f == Flushing(c, next)
<1>1. f.at = "flush" /\ f.c = c /\ f.next = next /\ DOMAIN f = {"at", "c", "id", "next"}
  BY DEF Flushing
<1> HIDE DEF f
<1>2. "flush" \notin ForClient \cup ForNone \cup Resource
  BY DEF ForClient, ForNone, Resource, Base, Loop, Destroyers
<1>3. Known(f)
  BY <1>1, <1>2 DEF Known
<1>4. Alive(f, client, peer) /\ Reaches(f, display)
  BY <1>1 DEF Alive, Reaches
<1>5. QED
  BY <1>1, <1>3, <1>4 DEF f

LEMMA NextFrame ==
  ASSUME NEW next \in Clients \cup {HEAD}, next # HEAD => Lives(client[next])
  PROVE  LET f == Destroying(next)
         IN  /\ Known(f) /\ Alive(f, client, peer) /\ Reaches(f, display)
             /\ f.at = "flush_next" /\ f.c = NULL /\ f.next = next
<1> DEFINE f == Destroying(next)
<1>1. f.at = "flush_next" /\ f.c = NULL /\ f.next = next /\ DOMAIN f = {"at", "c", "id", "next"}
  BY DEF Destroying
<1> HIDE DEF f
<1>2. "flush_next" \notin ForClient \cup Resource
  BY DEF ForClient, Resource, Base, Loop, Destroyers
<1>3. Known(f)
  BY <1>1, <1>2 DEF Known
<1>4. NULL \notin Clients
  BY ClientsAssumption
<1>5. next # HEAD => next # NULL
  BY ClientsAssumption
<1>6. Alive(f, client, peer) /\ Reaches(f, display)
  BY <1>1, <1>4, <1>5 DEF Alive, Reaches
<1>7. QED
  BY <1>1, <1>3, <1>6 DEF f

LEMMA DispatchFrame ==
  ASSUME NEW ready,
         \A r \in ready : /\ r.source \in {"socket", "client"} => r.c \in Clients
                          /\ r.source = "socket" =>
                               r = [source |-> "socket", c |-> r.c] /\ peer[r.c].connects
  PROVE  LET f == Dispatching(ready)
         IN  /\ Known(f) /\ Alive(f, client, peer) /\ Reaches(f, display)
             /\ f.at = "dispatch" /\ f.c = NULL /\ f.ready = ready
<1> DEFINE f == Dispatching(ready)
<1>1. f.at = "dispatch" /\ f.c = NULL /\ f.ready = ready /\ DOMAIN f = {"at", "c", "id", "ready"}
  BY DEF Dispatching
<1> HIDE DEF f
<1>2. "dispatch" \notin ForClient \cup Resource
  BY DEF ForClient, Resource, Destroyers
<1>3. Known(f)
  BY <1>1, <1>2 DEF Known
<1>4. Alive(f, client, peer) /\ Reaches(f, display)
  BY <1>1, ClientsAssumption DEF Alive, Reaches
<1>5. QED
  BY <1>1, <1>3, <1>4 DEF f

(* Frames of the loop's functions that work on one client.                 *)
LEMMA ServeFrame ==
  ASSUME NEW c \in Clients, Lives(client[c])
  PROVE  /\ \A mask : LET f == Reading(c, mask)
                      IN  /\ Known(f) /\ Alive(f, client, peer) /\ Reaches(f, display)
                          /\ f.at = "connection_data" /\ f.c = c
         /\ \A first : LET f == Handling(c, first)
                       IN  /\ Known(f) /\ Alive(f, client, peer) /\ Reaches(f, display)
                           /\ f.at = "requests" /\ f.c = c
         /\ \A due : LET f == Emitting(c, due)
                     IN  /\ Known(f) /\ Alive(f, client, peer) /\ Reaches(f, display)
                         /\ f.at = "emit" /\ f.c = c
<1>1. ASSUME NEW f, f.at \in {"connection_data", "requests", "emit"}, f.c = c,
             {"at", "c", "id"} \subseteq DOMAIN f, "next" \notin DOMAIN f
      PROVE  Known(f) /\ Alive(f, client, peer) /\ Reaches(f, display)
  <2>1. f.at \notin ForNone \cup Resource
    BY <1>1 DEF ForNone, Resource, Base, Loop
  <2>2. Known(f)
    BY <1>1, <2>1 DEF Known
  <2>3. Alive(f, client, peer) /\ Reaches(f, display)
    BY <1>1 DEF Alive, Reaches
  <2>4. QED
    BY <2>2, <2>3
<1>2. ASSUME NEW mask PROVE /\ Reading(c, mask).at = "connection_data" /\ Reading(c, mask).c = c
                            /\ DOMAIN Reading(c, mask) = {"at", "c", "id", "mask"}
  BY DEF Reading
<1>3. ASSUME NEW first PROVE /\ Handling(c, first).at = "requests" /\ Handling(c, first).c = c
                             /\ DOMAIN Handling(c, first) = {"at", "c", "id", "first"}
  BY DEF Handling
<1>4. ASSUME NEW due PROVE /\ Emitting(c, due).at = "emit" /\ Emitting(c, due).c = c
                           /\ DOMAIN Emitting(c, due) = {"at", "c", "id", "due", "called", "gone"}
  BY DEF Emitting
<1>5. QED
  BY <1>1, <1>2, <1>3, <1>4

LEMMA TellFrame ==
  ASSUME NEW c \in Clients, Lives(client[c]), NEW id, NEW rest, IsSequence(rest),
         ToSet(rest) \subseteq ToSet(display.globals)
  PROVE  LET f == Telling(c, id, rest)
         IN  /\ Known(f) /\ Alive(f, client, peer) /\ Reaches(f, display)
             /\ f.at = "tell" /\ f.c = c
<1> DEFINE f == Telling(c, id, rest)
<1>1. f.at = "tell" /\ f.c = c /\ f.rest = rest /\ DOMAIN f = {"at", "c", "id", "rest"}
  BY DEF Telling
<1> HIDE DEF f
<1>2. "tell" \notin ForNone \cup Resource
  BY DEF ForNone, Resource, Base, Loop
<1>3. Known(f)
  BY <1>1, <1>2 DEF Known
<1>4. Alive(f, client, peer) /\ Reaches(f, display)
  BY <1>1 DEF Alive, Reaches
<1>5. QED
  BY <1>1, <1>3, <1>4 DEF f

LEMMA AnnounceFrame ==
  ASSUME NEW op, NEW g, NEW rest, IsSequence(rest), NEW destroys,
         ToSet(rest) \subseteq ToSet(display.registries)
  PROVE  LET f == Announcing(op, g, rest, destroys)
         IN  /\ Known(f) /\ Alive(f, client, peer) /\ Reaches(f, display)
             /\ f.at = "announce" /\ f.c = NULL
<1> DEFINE f == Announcing(op, g, rest, destroys)
<1>1. /\ f.at = "announce" /\ f.c = NULL /\ f.rest = rest
      /\ DOMAIN f = {"at", "c", "id", "op", "g", "rest", "destroys"}
  BY DEF Announcing
<1> HIDE DEF f
<1>2. "announce" \notin ForClient \cup Resource
  BY DEF ForClient, Resource, Destroyers
<1>3. Known(f)
  BY <1>1, <1>2 DEF Known
<1>4. Alive(f, client, peer) /\ Reaches(f, display)
  BY <1>1, ClientsAssumption DEF Alive, Reaches
<1>5. QED
  BY <1>1, <1>3, <1>4 DEF f

-----------------------------------------------------------------------------
(* What a step may leave as it is.                                         *)

MemoryInv == Types /\ UseInv /\ FreshInv

Kept == Types' /\ FreshInv' /\ Steady /\ Calm

OthersFine == /\ UNCHANGED scenario
              /\ terminator' \in {"idle", "cleared", "done"} /\ budget' \in 0..Played.budget

LEMMA OthersSame ==
  ASSUME MemoryInv, UNCHANGED otherVars
  PROVE  OthersFine /\ UNCHANGED peer
BY DEF MemoryInv, Types, OthersFine, otherVars

LEMMA TypesKept ==
  ASSUME Types, OthersFine, DOMAIN client' = Clients,
         \A c \in Clients : IsClient(client'[c], Played.socket_space),
         DOMAIN peer' = Clients, \A c \in Clients : IsPeer(peer'[c]), IsDisplay(display')
  PROVE  Types'
BY DEF Types, Played, OthersFine

(* One client's record changes.                                            *)
LEMMA OneClient ==
  ASSUME Types, NEW c \in Clients, NEW cl, client' = [client EXCEPT ![c] = cl]
  PROVE  /\ DOMAIN client' = Clients /\ client'[c] = cl
         /\ \A d \in Clients : d # c => client'[d] = client[d]
         /\ IsClient(cl, Played.socket_space) =>
              \A d \in Clients : IsClient(client'[d], Played.socket_space)
BY DEF Types

SameClients ==
  \A c \in Clients : /\ SameCore(client'[c], client[c])
                     /\ client'[c].display_resource = client[c].display_resource

SameLinks ==
  /\ display'.client_list = display.client_list /\ display'.detached = display.detached
  /\ display'.registries = display.registries

(* Requests, and who lives, are as they were.                              *)
LEMMA KeptIf ==
  ASSUME MemoryInv, OthersFine, UNCHANGED peer, SameClients, DOMAIN client' = Clients,
         \A c \in Clients : IsClient(client'[c], Played.socket_space),
         IsDisplay(display'), SameLinks, ToSet(display.globals) \subseteq ToSet(display'.globals)
  PROVE  Kept
<1>1. Steady
  BY DEF Steady, SameClients, SameCore, Lives, SameLinks
<1>2. Calm
  BY DEF Calm, Quiet, SameClients, SameCore, Lives, SameLinks
<1>3. FreshInv'
  BY DEF MemoryInv, FreshInv, Fresh, SameClients, SameCore
<1>4. Types'
  BY TypesKept DEF MemoryInv, Types
<1>5. QED
  BY <1>1, <1>2, <1>3, <1>4 DEF Kept

LEMMA KeptDisplay ==
  ASSUME MemoryInv, OthersFine, UNCHANGED <<client, peer>>, IsDisplay(display'), SameLinks,
         ToSet(display.globals) \subseteq ToSet(display'.globals)
  PROVE  Kept
<1>1. /\ SameClients /\ DOMAIN client' = Clients
      /\ \A c \in Clients : IsClient(client'[c], Played.socket_space)
  BY DEF SameClients, SameCore, MemoryInv, Types
<1>2. QED
  BY <1>1, KeptIf

LEMMA KeptAll ==
  ASSUME MemoryInv, OthersFine, UNCHANGED <<client, display, peer>>
  PROVE  Kept
<1>1. IsDisplay(display') /\ SameLinks /\ ToSet(display.globals) \subseteq ToSet(display'.globals)
  BY DEF SameLinks, MemoryInv, Types
<1>2. QED
  BY <1>1, KeptDisplay

LEMMA KeptWritten ==
  ASSUME MemoryInv, OthersFine, NEW c \in Clients, NEW cl, IsClient(cl, Played.socket_space),
         SameCore(cl, client[c]), cl.display_resource = client[c].display_resource,
         client' = [client EXCEPT ![c] = cl], UNCHANGED <<display, peer>>
  PROVE  Kept
<1>1. /\ DOMAIN client' = Clients /\ client'[c] = cl
      /\ \A d \in Clients : d # c => client'[d] = client[d]
      /\ \A d \in Clients : IsClient(client'[d], Played.socket_space)
  BY OneClient DEF MemoryInv
<1>2. SameClients
  BY <1>1 DEF SameClients, SameCore
<1>3. IsDisplay(display') /\ SameLinks /\ ToSet(display.globals) \subseteq ToSet(display'.globals)
  BY DEF SameLinks, MemoryInv, Types
<1>4. QED
  BY <1>1, <1>2, <1>3, KeptIf

LEMMA MemoryGoto ==
  ASSUME ListenersInv, MemoryInv, Kept, NEW f, Goto(f), Sound(f), Top.at \notin Owners,
         f.at \in OfLoop => Top.at \in OfLoop
  PROVE  MemoryInv'
BY UseGoto DEF MemoryInv, Kept

LEMMA MemoryCall ==
  ASSUME ListenersInv, MemoryInv, Kept, NEW f, NEW after, Call(f, after), Sound(f), Sound(after),
         Together(after, f), Top.at \notin Owners,
         after.at \notin Innermost, after.at \in OfLoop => Top.at \in OfLoop,
         f.at \in OfLoop => Len(stack) = 2 /\ after.at \in Loop
  PROVE  MemoryInv'
BY UseCall DEF MemoryInv, Kept

LEMMA MemoryReturn ==
  ASSUME ListenersInv, MemoryInv, Kept, Return, Top.at \notin Owners
  PROVE  MemoryInv'
BY UseReturn DEF MemoryInv, Kept

LEMMA MemorySame ==
  ASSUME MemoryInv, Kept, UNCHANGED stack
  PROVE  MemoryInv'
BY UseSame DEF MemoryInv, Kept

-----------------------------------------------------------------------------
(* The loop.                                                               *)

LEMMA TopAt ==
  ASSUME ListenersInv, MemoryInv, NEW at, At(at)
  PROVE  /\ Top.at = at /\ Known(Top) /\ Alive(Top, client, peer) /\ Reaches(Top, display)
         /\ Joins(Top) /\ StackShape /\ FramesInv /\ Fits(Top, Len(stack))
         /\ Len(stack) \in Nat \ {0}
BY TopSuits, StackIs DEF At, Suits, MemoryInv, UseInv, ListenersInv

LEMMA FirstIs ==
  ASSUME NEW list, IsSequence(list)
  PROVE  First(list) \in ToSet(list) \cup {HEAD}
BY SequenceTail DEF First

LEMMA NextAfterIs ==
  ASSUME NEW list, IsSequence(list), IsInjective(list), NEW c
  PROVE  LET next == NextAfter(list, c)
         IN  next \in ToSet(list) \cup {HEAD} /\ (next # HEAD => next # c)
<1> DEFINE next == NextAfter(list, c)
           k    == CHOOSE i \in 2..Len(list) : list[i - 1] = c
<1>1. CASE c \notin ToSet(list) \/ c = Last(list)
  BY <1>1 DEF NextAfter
<1>2. CASE ~(c \notin ToSet(list) \/ c = Last(list))
  <2>1. next = list[k]
    BY <1>2 DEF NextAfter
  <2>2. PICK n \in Nat : n = Len(list) /\ DOMAIN list = 1..n
    BY SequenceIs
  <2>3. PICK j \in 1..n : list[j] = c
    BY <1>2, <2>2 DEF ToSet
  <2>4. j # n
    BY <1>2, <2>2, <2>3 DEF Last
  <2>5. j + 1 \in 2..Len(list) /\ j + 1 - 1 = j
    BY <2>2, <2>4
  <2>6. k \in 2..Len(list) /\ list[k - 1] = c
    BY <2>3, <2>5
  <2> HIDE DEF k
  <2>7. k \in 1..n /\ k - 1 \in 1..n /\ k # k - 1
    BY <2>2, <2>6
  <2>8. next \in ToSet(list) /\ next # c
    BY <2>1, <2>2, <2>6, <2>7 DEF ToSet, IsInjective
  <2>9. QED
    BY <2>8
<1>3. QED
  BY <1>1, <1>2

LEMMA MembersAre ==
  ASSUME MemoryInv
  PROVE  /\ IsSequence(display.client_list) /\ IsInjective(display.client_list)
         /\ \A c \in ToSet(display.client_list) : c \in Clients /\ Lives(client[c])
         /\ IsSequence(display.detached)
         /\ \A c \in ToSet(display.detached) : c \in Clients /\ Lives(client[c])
BY DEF MemoryInv, Types, IsDisplay, UseInv, LifeInv, Members

LEMMA WalkFrame ==
  ASSUME MemoryInv, NEW c \in Clients \cup {HEAD}, c \in Clients => Lives(client[c])
  PROVE  LET f == Flushing(c, NextAfter(display.client_list, c))
         IN  /\ Known(f) /\ Alive(f, client, peer) /\ Reaches(f, display)
             /\ f.at = "flush"
<1> DEFINE next == NextAfter(display.client_list, c)
<1>1. next \in ToSet(display.client_list) \cup {HEAD} /\ (next # HEAD => next # c)
  BY MembersAre, NextAfterIs
<1>2. next \in Clients \cup {HEAD} /\ (next # HEAD => Lives(client[next]) /\ next # c)
  BY <1>1, MembersAre
<1> HIDE DEF next
<1>3. QED
  BY <1>2, FlushFrame DEF next

(* A frame of the loop or of one of its functions is put in a place where  *)
(* only the loop is under it.                                              *)
LEMMA AtShallow ==
  ASSUME ListenersInv, MemoryInv, Top.at \in OfLoop \cup Loop \cup Base, NEW f,
         Known(f), Alive(f, client, peer), Reaches(f, display), f.at \notin Owners
  PROVE  Sound(f) /\ Top.at \notin Owners
<1>1. Joins(f)
  BY ShallowJoins DEF ListenersInv, MemoryInv, UseInv
<1>2. \A at \in OfLoop \cup Loop \cup Base : at \notin Owners
  BY DEF OfLoop, Loop, Base, Owners, Resource
<1>3. QED
  BY <1>1, <1>2 DEF Sound, Suits

LEMMA DepthOf ==
  ASSUME ListenersInv, MemoryInv
  PROVE  /\ Top.at \in Base => Len(stack) = 1
         /\ Top.at \in Loop => Len(stack) = 2
BY StackIs DEF ListenersInv, Fits

LEMMA RunMemory ==
  ASSUME ListenersInv, MemoryInv, wl_display_run
  PROVE  MemoryInv'
<1>1. /\ Top.at = "main" /\ "main" \in Base
      /\ Call(Frame("run", NULL), Frame("destroy_clients", NULL))
      /\ UNCHANGED <<client, otherVars>>
      /\ display' = [display EXCEPT !.run = TRUE]
  BY DEF wl_display_run, At, Base
<1>2. IsDisplay(display') /\ SameLinks /\ display'.globals = display.globals
  BY <1>1 DEF MemoryInv, Types, IsDisplay, DisplayFields, SameLinks
<1>3. Kept
  BY <1>1, <1>2, OthersSame, KeptDisplay
<1> DEFINE f     == Frame("run", NULL)
           after == Frame("destroy_clients", NULL)
<1>4. /\ Sound(f) /\ Sound(after) /\ Top.at \notin Owners /\ f.at = "run" /\ f.c = NULL
      /\ after.at = "destroy_clients"
  BY <1>1, LoopFrame, AtShallow DEF Base, Loop
<1> HIDE DEF f, after
<1>5. Together(after, f)
  BY <1>4 DEF Together, Destroyers
<1>6. /\ f.at \notin OfLoop
      /\ after.at \notin OfLoop \cup Innermost
  BY <1>4 DEF OfLoop, Innermost
<1>7. QED
  BY <1>1, <1>3, <1>4, <1>5, <1>6, MemoryCall DEF f, after

LEMMA LoopTestMemory ==
  ASSUME ListenersInv, MemoryInv, LoopTest
  PROVE  MemoryInv'
<1>1. Top.at = "run" /\ UNCHANGED <<display, client, otherVars>> /\ "run" \in Loop
  BY DEF LoopTest, At, Loop
<1>2. Kept
  BY <1>1, OthersSame, KeptAll
<1>3. CASE Return
  <2>1. Top.at \notin Owners
    BY <1>1 DEF Owners, Resource
  <2>2. QED
    BY <1>2, <1>3, <2>1, MemoryReturn
<1>4. CASE ~Return
  <2> DEFINE c     == First(display.client_list)
             f     == Flushing(c, NextAfter(display.client_list, c))
             after == Frame("poll", NULL)
  <2>1. Call(f, after)
    BY <1>4 DEF LoopTest
  <2>2. c \in Clients \cup {HEAD} /\ (c \in Clients => Lives(client[c]))
    BY MembersAre, FirstIs, ClientsAssumption DEF HEAD
  <2>3. Known(f) /\ Alive(f, client, peer) /\ Reaches(f, display) /\ f.at = "flush"
    BY <2>2, WalkFrame
  <2> HIDE DEF f
  <2>4. /\ Known(after) /\ Alive(after, client, peer) /\ Reaches(after, display)
        /\ after.at = "poll"
    BY LoopFrame DEF Loop
  <2> HIDE DEF after
  <2>5. /\ f.at \notin Owners \cup Destroyers
        /\ after.at \notin OfLoop \cup Innermost \cup Owners \cup Destroyers /\ after.at \in Loop
    BY <2>3, <2>4 DEF Owners, Resource, OfLoop, Innermost, Destroyers, Loop
  <2>6. Sound(f) /\ Sound(after) /\ Top.at \notin Owners
    BY <1>1, <2>3, <2>4, <2>5, AtShallow
  <2>7. Together(after, f)
    BY <2>5 DEF Together
  <2>8. QED
    BY <1>1, <1>2, <2>1, <2>5, <2>6, <2>7, DepthOf, MemoryCall
<1>5. QED
  BY <1>3, <1>4

LEMMA FlushMemory ==
  ASSUME ListenersInv, MemoryInv, FlushClient
  PROVE  MemoryInv'
<1> DEFINE c     == Top.c
           next  == Top.next
           space == Played.socket_space
           r     == wl_client_flush(client[c])
           cl    == [r.cl EXCEPT !.writable = @ \/ r.ret = "EAGAIN"]
<1>1. At("flush") /\ UNCHANGED <<display, otherVars>>
  BY DEF FlushClient
<1>2. /\ Top.at = "flush" /\ Known(Top) /\ Alive(Top, client, peer)
      /\ "flush" \in OfLoop /\ "flush" \notin Owners
  BY <1>1, TopAt DEF OfLoop, Owners, Resource
<1>3. /\ c \in Clients \cup {HEAD} /\ next \in Clients \cup {HEAD}
      /\ c \in Clients => Lives(client[c])
      /\ next # HEAD => Lives(client[next]) /\ next # c
  BY <1>2 DEF Known, Alive
<1>4. HEAD \notin Clients /\ NULL \notin Clients
  BY ClientsAssumption DEF HEAD
<1>5. CASE /\ UNCHANGED client
           /\ Return \/ (c # HEAD /\ Call(Frame("client_destroy", c), Destroying(next)))
  <2>1. Kept
    BY <1>1, <1>5, OthersSame, KeptAll
  <2>2. CASE Return
    BY <1>2, <2>1, <2>2, MemoryReturn
  <2>3. CASE c # HEAD /\ Call(Frame("client_destroy", c), Destroying(next))
    <3> DEFINE f     == Frame("client_destroy", c)
               after == Destroying(next)
    <3>1. /\ Known(f) /\ Alive(f, client, peer) /\ Reaches(f, display)
          /\ f.at = "client_destroy" /\ f.c = c /\ f.at \notin OfLoop
      BY <1>3, <2>3, SimpleFrame DEF Simple, Destroyers, Resource, Frame
    <3>2. /\ Known(after) /\ Alive(after, client, peer) /\ Reaches(after, display)
          /\ after.at = "flush_next" /\ after.c = NULL /\ after.next = next
      BY <1>3, NextFrame
    <3> HIDE DEF f, after
    <3>3. /\ f.at \notin Owners /\ after.at \notin Owners \cup Innermost \cup Destroyers
      BY <3>1, <3>2 DEF Owners, Resource, Innermost, Destroyers
    <3>4. Sound(f) /\ Sound(after) /\ Top.at \notin Owners
      BY <1>2, <3>1, <3>2, <3>3, AtShallow
    <3>5. Together(after, f)
      BY <1>3, <1>4, <2>3, <3>1, <3>2, <3>3 DEF Together, Apart
    <3>6. QED
      BY <1>2, <2>1, <2>3, <3>1, <3>3, <3>4, <3>5, MemoryCall DEF f, after
  <2>4. QED
    BY <1>5, <2>2, <2>3
<1>6. CASE c # HEAD /\ client' = [client EXCEPT ![c] = cl]
             /\ Goto(Flushing(next, NextAfter(display.client_list, next)))
  <2>1. c \in Clients /\ IsClient(client[c], space)
    BY <1>3, <1>6 DEF MemoryInv, Types
  <2>2. /\ IsClient(r.cl, space) /\ SameCore(r.cl, client[c])
        /\ r.cl.display_resource = client[c].display_resource
    BY <2>1, Flushed DEF MemoryInv
  <2> HIDE DEF r
  <2>3. IsClient(cl, space) /\ SameCore(cl, client[c])
        /\ cl.display_resource = client[c].display_resource
    <3>1. /\ DOMAIN cl = DOMAIN r.cl /\ SameCore(cl, r.cl) /\ cl.out = r.cl.out
          /\ cl.display_resource = r.cl.display_resource /\ cl.to_client = r.cl.to_client
      BY <2>2 DEF IsClient, ClientFields, SameCore
    <3> HIDE DEF cl
    <3>2. QED
      BY <2>2, <3>1 DEF IsClient, SameCore
  <2> HIDE DEF cl
  <2>4. Kept
    BY <1>1, <1>6, <2>1, <2>3, OthersSame, KeptWritten
  <2> DEFINE f == Flushing(next, NextAfter(display.client_list, next))
  <2>5. Known(f) /\ Alive(f, client, peer) /\ Reaches(f, display) /\ f.at = "flush"
    BY <1>3, <1>4, WalkFrame
  <2> HIDE DEF f
  <2>6. Sound(f)
    BY <1>2, <2>5, AtShallow
  <2>7. QED
    BY <1>2, <1>6, <2>4, <2>5, <2>6, MemoryGoto DEF f
<1>7. QED
  BY <1>5, <1>6 DEF FlushClient

LEMMA FlushNextMemory ==
  ASSUME ListenersInv, MemoryInv, FlushNext
  PROVE  MemoryInv'
<1>1. At("flush_next") /\ UNCHANGED <<display, client, otherVars>>
  BY DEF FlushNext
<1>2. /\ Top.at = "flush_next" /\ Known(Top) /\ Alive(Top, client, peer)
      /\ "flush_next" \in OfLoop /\ "flush_next" \notin Owners
  BY <1>1, TopAt DEF OfLoop, Owners, Resource
<1>3. Top.next \in Clients \cup {HEAD} /\ (Top.next \in Clients => Lives(client[Top.next]))
  BY <1>2, ClientsAssumption DEF Known, Alive, HEAD
<1>4. Kept
  BY <1>1, OthersSame, KeptAll
<1> DEFINE f == Flushing(Top.next, NextAfter(display.client_list, Top.next))
<1>5. Known(f) /\ Alive(f, client, peer) /\ Reaches(f, display) /\ f.at = "flush"
  BY <1>3, WalkFrame
<1>6. Goto(f)
  BY DEF FlushNext
<1> HIDE DEF f
<1>7. Sound(f) /\ Top.at \notin Owners
  <2>1. f.at \notin Owners
    BY <1>5 DEF Owners, Resource
  <2>2. QED
    BY <1>2, <1>5, <2>1, AtShallow
<1>8. QED
  BY <1>2, <1>4, <1>6, <1>7, MemoryGoto

LEMMA ReadyIs ==
  \A r \in Ready : /\ r.source \in {"socket", "client"} => r.c \in Clients
                   /\ r.source = "socket" =>
                        r = [source |-> "socket", c |-> r.c] /\ peer[r.c].connects
BY DEF Ready

LEMMA PollMemory ==
  ASSUME ListenersInv, MemoryInv, Poll
  PROVE  MemoryInv'
<1>1. /\ Top.at = "poll" /\ UNCHANGED <<display, client, otherVars>>
      /\ "poll" \in Loop /\ "poll" \notin Owners
  BY DEF Poll, At, Loop, Owners, Resource
<1>2. Kept
  BY <1>1, OthersSame, KeptAll
<1>3. PICK own \in {{}, {[source |-> "timer"]}} : Goto(Dispatching(Ready \cup own))
  BY DEF Poll
<1> DEFINE f == Dispatching(Ready \cup own)
<1>4. /\ Known(f) /\ Alive(f, client, peer) /\ Reaches(f, display)
      /\ f.at = "dispatch"
  <2>1. \A r \in own : r.source \notin {"socket", "client"}
    BY DEF Poll
  <2>2. \A r \in Ready \cup own :
          /\ r.source \in {"socket", "client"} => r.c \in Clients
          /\ r.source = "socket" => r = [source |-> "socket", c |-> r.c] /\ peer[r.c].connects
    BY <2>1, ReadyIs
  <2>3. QED
    BY <2>2, DispatchFrame
<1> HIDE DEF f
<1>5. f.at \notin Owners \cup OfLoop
  BY <1>4 DEF Owners, Resource, OfLoop
<1>6. Sound(f)
  BY <1>1, <1>4, <1>5, AtShallow
<1>7. QED
  BY <1>1, <1>2, <1>3, <1>5, <1>6, MemoryGoto DEF f

LEMMA DispatchEndsMemory ==
  ASSUME ListenersInv, MemoryInv, DispatchEnds
  PROVE  MemoryInv'
<1>1. /\ Top.at = "dispatch" /\ UNCHANGED <<display, client, otherVars>>
      /\ "dispatch" \in Loop /\ "dispatch" \notin Owners
  BY DEF DispatchEnds, At, Loop, Owners, Resource
<1>2. Kept
  BY <1>1, OthersSame, KeptAll
<1> DEFINE f == Frame("run", NULL)
<1>3. /\ Known(f) /\ Alive(f, client, peer) /\ Reaches(f, display)
      /\ f.at \notin OfLoop \cup Owners \cup Innermost
  BY LoopFrame DEF Loop
<1>4. Goto(f)
  BY DEF DispatchEnds
<1> HIDE DEF f
<1>5. Sound(f)
  BY <1>1, <1>3, AtShallow
<1>6. QED
  BY <1>1, <1>2, <1>3, <1>4, <1>5, MemoryGoto

(* A new connection: nobody knows its client yet.                          *)
LEMMA AcceptMemory ==
  ASSUME ListenersInv, MemoryInv, Top.at = "dispatch", NEW r \in Top.ready, r.source = "socket",
         Call(Frame("client_create", r.c), Dispatching(Top.ready \ {r})),
         peer' = [peer EXCEPT ![r.c].connects = FALSE],
         UNCHANGED <<display, client, scenario, terminator, budget>>
  PROVE  MemoryInv'
<1> DEFINE f     == Frame("client_create", r.c)
           after == Dispatching(Top.ready \ {r})
           c     == r.c
<1>1. /\ StackShape /\ FramesInv /\ Known(Top) /\ Alive(Top, client, peer) /\ Len(stack) = 2
      /\ "dispatch" \in Loop
  BY TopSuits, DepthOf DEF ListenersInv, MemoryInv, UseInv, Suits, Loop
<1>2. /\ c \in Clients /\ peer[c].connects /\ client[c].life = "none"
      /\ r = [source |-> "socket", c |-> c]
  BY <1>1 DEF Known, Alive, MemoryInv, UseInv, LifeInv
<1>3. /\ DOMAIN peer' = Clients /\ ~peer'[c].connects /\ peer'[c].last = peer[c].last
      /\ \A d \in Clients : /\ d # c => peer'[d] = peer[d]
                            /\ IsPeer(peer'[d])
  BY <1>2 DEF MemoryInv, Types, IsPeer
<1>4. Types'
  BY <1>3, TypesKept DEF MemoryInv, Types, OthersFine
<1>5. FreshInv'
  BY <1>3 DEF MemoryInv, FreshInv
<1>6. /\ f.at = "client_create" /\ f.c = c /\ DOMAIN f = {"at", "c", "id"}
      /\ after.at = "dispatch" /\ after.c = NULL /\ after.ready = Top.ready \ {r}
      /\ DOMAIN after = {"at", "c", "id", "ready"}
  BY DEF Frame, Dispatching
<1> HIDE DEF f, after, c
<1>7. Known(f) /\ Known(after)
  <2>1. "client_create" \notin ForNone \cup Resource /\ "dispatch" \notin ForClient \cup Resource
    BY DEF ForNone, ForClient, Resource, Destroyers, Base, Loop
  <2>2. QED
    BY <1>1, <1>2, <1>6, <2>1 DEF Known
<1>8. /\ f.at \notin Owners \cup Destroyers /\ f.at \in OfLoop
      /\ after.at \notin Owners \cup OfLoop \cup Innermost \cup Destroyers /\ after.at \in Loop
  BY <1>6 DEF Owners, Resource, OfLoop, Innermost, Destroyers, Loop
<1>9. Call(f, after)
  BY DEF f, after
<1>10. FramesInv'
  BY <1>9, <1>1, <1>7, <1>8, FramesCall
<1>11. Joins(f) /\ Joins(after) /\ Together(after, f)
  <2>1. Joins(f) /\ Joins(after)
    BY <1>1, <1>7, ShallowJoins
  <2>2. Together(after, f)
    BY <1>8 DEF Together
  <2>3. QED
    BY <2>1, <2>2
<1>12. Alone'
  BY <1>9, <1>1, <1>11, AloneCall DEF MemoryInv, UseInv, LifeInv
<1>13. /\ DOMAIN stack' = DOMAIN stack \cup {3} /\ stack'[2] = after /\ stack'[3] = f
       /\ DOMAIN stack = 1..2 /\ stack'[1] = stack[1] /\ stack[1].at \in Base /\ stack[1].c = NULL
  <2>1. 2 + 1 = 3 /\ 1 \in 1..2 /\ 1 # 2
    OBVIOUS
  <2>2. /\ DOMAIN stack' = DOMAIN stack \cup {3} /\ stack'[2] = after /\ stack'[3] = f
        /\ DOMAIN stack = 1..2 /\ stack'[1] = stack[1]
    BY <1>9, <1>1, <2>1, Called, StackNow
  <2>3. stack[1].at \in Base /\ stack[1].c = NULL
    BY <1>1, <2>1, <2>2 DEF StackShape, Fits, FramesInv, Known, ForNone
  <2>4. QED
    BY <2>2, <2>3
<1>14. ASSUME NEW i \in DOMAIN stack' PROVE Alive(stack'[i], client', peer')
  <2>1. CASE i = 1
    BY <1>13, <2>1, ClientsAssumption DEF Alive, Base
  <2>2. CASE i = 2
    <3>1. ASSUME NEW q \in Top.ready \ {r}, q.source = "socket"
          PROVE  q = [source |-> "socket", c |-> q.c] /\ peer'[q.c].connects
      <4>1. q = [source |-> "socket", c |-> q.c] /\ peer[q.c].connects /\ q.c \in Clients
        BY <1>1, <3>1 DEF Known, Alive
      <4>2. q.c # c
        BY <1>2, <3>1, <4>1
      <4>3. QED
        BY <1>3, <4>1, <4>2
    <3>2. QED
      BY <1>6, <1>13, <2>2, <3>1, ClientsAssumption DEF Alive
  <2>3. CASE i = 3
    BY <1>2, <1>3, <1>6, <1>13, <2>3 DEF Alive
  <2>4. QED
    BY <1>13, <2>1, <2>2, <2>3
<1>15. LifeInv'
  BY <1>3, <1>12, <1>14 DEF MemoryInv, UseInv, LifeInv, Members
<1>16. OwnersStay
  <2>1. Top = stack[2] /\ "dispatch" \notin Owners
    BY <1>1, StackNow DEF Owners, Resource
  <2>2. QED
    BY <1>8, <1>13, <2>1 DEF OwnersStay
<1>17. Calm
  BY DEF Calm, Quiet
<1>18. \A i \in DOMAIN stack' : Reaches(stack'[i], display)
  <2>1. stack'[1] = stack[1] /\ Reaches(stack[1], display)
    BY <1>13 DEF MemoryInv, UseInv, ObjectsInv
  <2>2. Reaches(f, display) /\ Reaches(after, display)
    BY <1>6 DEF Reaches
  <2>3. QED
    BY <1>13, <2>1, <2>2
<1>19. ObjectsInv'
  BY <1>1, <1>10, <1>16, <1>17, <1>18, ObjectsCalm DEF MemoryInv, UseInv
<1>20. QED
  BY <1>4, <1>5, <1>10, <1>15, <1>19 DEF MemoryInv, UseInv

LEMMA DispatchSourceMemory ==
  ASSUME ListenersInv, MemoryInv, DispatchSource
  PROVE  MemoryInv'
<1>1. /\ At("dispatch") /\ UNCHANGED <<client, scenario, terminator, budget>>
      /\ "dispatch" \in Loop
  BY DEF DispatchSource, Loop
<1>2. /\ Top.at = "dispatch" /\ Known(Top) /\ Alive(Top, client, peer) /\ OthersFine
      /\ Len(stack) = 2
  BY <1>1, TopAt, DepthOf DEF MemoryInv, Types, OthersFine
<1>3. PICK r \in Top.ready :
        LET rest == Dispatching(Top.ready \ {r})
        IN  \/ display' = [display EXCEPT !.efd = FALSE] /\ Goto(rest) /\ UNCHANGED peer
            \/ Call(Handler(NULL, 0), rest) /\ UNCHANGED <<display, peer>>
            \/ /\ r.source = "socket"
               /\ Call(Frame("client_create", r.c), rest)
               /\ peer' = [peer EXCEPT ![r.c].connects = FALSE]
               /\ UNCHANGED display
            \/ /\ r.source = "client" /\ client[r.c].life = "live"
               /\ Call(Reading(r.c, r.mask), rest) /\ UNCHANGED <<display, peer>>
            \/ Goto(rest) /\ UNCHANGED <<display, peer>>
  BY DEF DispatchSource
<1> DEFINE rest == Dispatching(Top.ready \ {r})
<1>4. /\ Known(rest) /\ Alive(rest, client, peer) /\ Reaches(rest, display)
      /\ rest.at = "dispatch"
  BY <1>2, DispatchFrame DEF Known, Alive
<1>5. r.source = "client" => r.c \in Clients
  BY <1>2 DEF Known
<1>6. \/ display' = [display EXCEPT !.efd = FALSE] /\ Goto(rest) /\ UNCHANGED peer
      \/ Call(Handler(NULL, 0), rest) /\ UNCHANGED <<display, peer>>
      \/ /\ r.source = "socket"
         /\ Call(Frame("client_create", r.c), rest)
         /\ peer' = [peer EXCEPT ![r.c].connects = FALSE]
         /\ UNCHANGED display
      \/ /\ r.source = "client" /\ client[r.c].life = "live"
         /\ Call(Reading(r.c, r.mask), rest) /\ UNCHANGED <<display, peer>>
      \/ Goto(rest) /\ UNCHANGED <<display, peer>>
  BY <1>3
<1>7. CASE /\ r.source = "socket"
           /\ Call(Frame("client_create", r.c), rest)
           /\ peer' = [peer EXCEPT ![r.c].connects = FALSE]
           /\ UNCHANGED display
  BY <1>1, <1>2, <1>7, AcceptMemory
<1> HIDE DEF rest
<1>8. /\ rest.at \notin Owners \cup OfLoop \cup Innermost \cup Destroyers /\ rest.at \in Loop
      /\ rest.at # "flush_next"
  BY <1>4 DEF Owners, Resource, OfLoop, Innermost, Destroyers, Loop
<1>9. Sound(rest) /\ Top.at \notin Owners
  BY <1>1, <1>2, <1>4, <1>8, AtShallow
<1>10. CASE display' = [display EXCEPT !.efd = FALSE] /\ Goto(rest) /\ UNCHANGED peer
  <2>1. IsDisplay(display') /\ SameLinks /\ display'.globals = display.globals
    BY <1>10 DEF MemoryInv, Types, IsDisplay, DisplayFields, SameLinks
  <2>2. Kept
    BY <1>1, <1>2, <1>10, <2>1, KeptDisplay
  <2>3. QED
    BY <1>8, <1>9, <1>10, <2>2, MemoryGoto
<1>11. ASSUME UNCHANGED <<display, peer>> PROVE Kept
  BY <1>1, <1>2, <1>11, KeptAll
<1>12. CASE Goto(rest) /\ UNCHANGED <<display, peer>>
  BY <1>8, <1>9, <1>11, <1>12, MemoryGoto
<1>13. ASSUME NEW f, Call(f, rest), UNCHANGED <<display, peer>>, Known(f), Alive(f, client, peer),
              Reaches(f, display), f.at \notin Owners, f.at \notin Destroyers
       PROVE  MemoryInv'
  <2>1. Sound(f)
    BY <1>1, <1>2, <1>13, AtShallow
  <2>2. Together(rest, f)
    BY <1>8, <1>13 DEF Together
  <2>3. QED
    BY <1>2, <1>8, <1>9, <1>11, <1>13, <2>1, <2>2, MemoryCall
<1>14. CASE Call(Handler(NULL, 0), rest) /\ UNCHANGED <<display, peer>>
  <2> DEFINE f == Handler(NULL, 0)
  <2>1. /\ Known(f) /\ Alive(f, client, peer) /\ Reaches(f, display) /\ f.at = "user"
    BY SimpleFrame, ClientsAssumption DEF Handler, FrameOf, Simple, Resource
  <2> HIDE DEF f
  <2>2. f.at \notin Owners /\ f.at \notin Destroyers
    BY <2>1 DEF Owners, Destroyers, Resource
  <2>3. QED
    BY <1>13, <1>14, <2>1, <2>2 DEF f
<1>15. CASE /\ r.source = "client" /\ client[r.c].life = "live"
            /\ Call(Reading(r.c, r.mask), rest) /\ UNCHANGED <<display, peer>>
  <2> DEFINE f == Reading(r.c, r.mask)
  <2>1. r.c \in Clients /\ Lives(client[r.c])
    BY <1>5, <1>15 DEF Lives
  <2>2. Known(f) /\ Alive(f, client, peer) /\ Reaches(f, display) /\ f.at = "connection_data"
    BY <2>1, ServeFrame
  <2> HIDE DEF f
  <2>3. f.at \notin Owners /\ f.at \notin Destroyers
    BY <2>2 DEF Owners, Destroyers, Resource
  <2>4. QED
    BY <1>13, <1>15, <2>2, <2>3 DEF f
<1>16. QED
  BY <1>6, <1>7, <1>10, <1>12, <1>14, <1>15

-----------------------------------------------------------------------------
(* Clients come, and ask.                                                  *)

(* Nobody destroys anything where only the loop is below.                  *)
LEMMA ShallowStack ==
  ASSUME ListenersInv, MemoryInv, Top.at \in OfLoop \cup Loop \cup Base
  PROVE  /\ \A i \in DOMAIN stack : stack[i].at \notin Owners
         /\ \A c \in Clients : \A k \in Ids : Lives(client[c]) => client[c].objects[k] # "freed"
         /\ \A i \in DOMAIN stack : i # Len(stack) =>
              stack[i].at \in Base \cup Loop /\ stack[i].c = NULL
<1>1. \A i \in DOMAIN stack : i # Len(stack) => stack[i].at \in Base \cup Loop /\ stack[i].c = NULL
  BY Shallow DEF ListenersInv, MemoryInv, UseInv
<1>2. \A at \in OfLoop \cup Loop \cup Base : at \notin Owners
  BY DEF OfLoop, Loop, Base, Owners, Resource
<1>3. \A i \in DOMAIN stack : stack[i].at \notin Owners
  BY <1>1, <1>2, StackNow DEF ListenersInv
<1>4. \A f, c, k : Removes(f, c, k) => f.at \in Owners
  BY DEF Removes, Owners, Resource
<1>5. QED
  BY <1>1, <1>3, <1>4 DEF MemoryInv, UseInv, ObjectsInv, FreedGo

LEMMA NewClientIs ==
  ASSUME MemoryInv, NEW c \in Clients
  PROVE  LET cl == NewClient(client[c].to_server, client[c].up)
         IN  /\ IsClient(cl, Played.socket_space) /\ cl.life = "live" /\ Fresh(cl, peer[c].last)
             /\ DisplayIs(cl) /\ \A k \in Ids : cl.objects[k] # "freed"
<1> DEFINE cl == NewClient(client[c].to_server, client[c].up)
<1>1. /\ cl.life = "live" /\ cl.pending = << >> /\ cl.to_server = client[c].to_server
      /\ cl.out = << >> /\ cl.to_client = << >> /\ DOMAIN cl = ClientFields
      /\ cl.objects = [k \in Ids |-> IF k = Display THEN "display" ELSE "none"]
  BY DEF NewClient, ClientFields
<1> HIDE DEF cl
<1>2. cl.objects \in [Ids -> Kinds]
  BY <1>1 DEF Kinds
<1>3. /\ Len(<< >>) = 0 /\ IsSequence(<< >>) /\ ToSet(<< >>) = {} /\ DOMAIN << >> = {}
  BY EmptySequence
<1>4. Played.socket_space \in Nat /\ OutSpace \in Nat
  BY SpaceIs, BoundsAssumption DEF MemoryInv
<1>5. /\ IsSequence(cl.to_server) /\ peer[c].last \in Ids
      /\ \A r \in ToSet(cl.to_server) : IsRequest(r)
  BY <1>1 DEF MemoryInv, Types, IsClient, IsPeer
<1>6. IsClient(cl, Played.socket_space)
  BY <1>1, <1>2, <1>3, <1>4, <1>5 DEF IsClient
<1>7. Display \in Ids /\ \A k \in Ids : k = Display => k <= peer[c].last
  BY <1>5, BoundsAssumption DEF Display, Ids
<1>8. Fresh(cl, peer[c].last)
  <2>1. Fresh(client[c], peer[c].last)
    BY DEF MemoryInv, FreshInv
  <2>2. \A k \in Ids : cl.objects[k] # "none" => k <= peer[c].last
    BY <1>1, <1>7
  <2>3. \A r \in ToSet(cl.pending) \cup ToSet(cl.to_server) : Creates(r) =>
          r.new <= peer[c].last /\ r.new # Display /\ cl.objects[r.new] = "none"
    BY <1>1, <1>3, <1>5, <2>1 DEF Fresh, IsRequest
  <2>4. NewDiffer(cl.pending) /\ NewDiffer(cl.to_server)
    BY <1>1, <1>3, <2>1 DEF Fresh, NewDiffer
  <2>5. QED
    BY <1>1, <1>3, <2>2, <2>3, <2>4 DEF Fresh
<1>9. DisplayIs(cl) /\ \A k \in Ids : cl.objects[k] # "freed"
  BY <1>1, <1>7 DEF DisplayIs
<1>10. QED
  BY <1>1, <1>6, <1>8, <1>9 DEF cl

LEMMA CreateMemory ==
  ASSUME ListenersInv, MemoryInv, wl_client_create
  PROVE  MemoryInv'
<1> DEFINE c   == Top.c
           cl  == NewClient(client[c].to_server, client[c].up)
           due == ToSet(display.listener_list)
           f   == Emitting(c, due)
<1>1. /\ At("client_create") /\ client' = [client EXCEPT ![c] = cl] /\ Goto(f)
      /\ display' = [display EXCEPT !.client_list = Append(@, c),
                                    !.emit_list = display.listener_list \o @,
                                    !.listener_list = << >>]
      /\ UNCHANGED otherVars
  BY DEF wl_client_create
<1>2. /\ Top.at = "client_create" /\ Known(Top) /\ Alive(Top, client, peer)
      /\ "client_create" \in OfLoop \cap ForClient /\ StackShape /\ FramesInv
  BY <1>1, TopAt DEF OfLoop, ForClient
<1>3. c \in Clients /\ client[c].life = "none" /\ ~peer[c].connects
  BY <1>2 DEF Known, Alive
<1>4. /\ IsClient(cl, Played.socket_space) /\ cl.life = "live" /\ Fresh(cl, peer[c].last)
      /\ DisplayIs(cl) /\ \A k \in Ids : cl.objects[k] # "freed"
  BY <1>3, NewClientIs
<1> HIDE DEF cl
<1>5. /\ DOMAIN client' = Clients /\ client'[c] = cl
      /\ \A d \in Clients : d # c => client'[d] = client[d]
      /\ \A d \in Clients : IsClient(client'[d], Played.socket_space)
  BY <1>1, <1>3, <1>4, OneClient DEF MemoryInv
<1>6. /\ DisplayFields \subseteq DOMAIN display' /\ display'.id = display.id
      /\ display'.client_list = Append(display.client_list, c)
      /\ display'.detached = display.detached /\ display'.globals = display.globals
      /\ display'.registries = display.registries
  BY <1>1 DEF MemoryInv, Types, IsDisplay, DisplayFields
<1>7. c \notin ToSet(display.client_list) /\ c \notin ToSet(display.detached)
  BY <1>3, MembersAre DEF Lives
<1>8. /\ IsSequence(display'.client_list) /\ IsInjective(display'.client_list)
      /\ ToSet(display'.client_list) = ToSet(display.client_list) \cup {c}
  BY <1>6, <1>7, MembersAre, SequenceAppend
<1>9. IsDisplay(display')
  BY <1>6, <1>8 DEF MemoryInv, Types, IsDisplay
<1>10. OthersFine /\ UNCHANGED peer
  BY <1>1, OthersSame
<1>11. Types'
  BY <1>5, <1>9, <1>10, TypesKept DEF MemoryInv, Types
<1>12. FreshInv'
  BY <1>4, <1>5, <1>10 DEF MemoryInv, FreshInv
<1>13. /\ f.at = "emit" /\ f.c = c /\ DOMAIN f = {"at", "c", "id", "due", "called", "gone"}
  BY DEF Emitting
<1> HIDE DEF f
<1>14. Known(f) /\ f.at \in OfLoop /\ f.at \notin Owners
  <2>1. "emit" \notin ForNone \cup Resource
    BY DEF ForNone, Resource, Base, Loop
  <2>2. QED
    BY <1>3, <1>13, <2>1 DEF Known, OfLoop, Owners, Resource
<1>15. FramesInv' /\ Alone'
  BY <1>1, <1>2, <1>14, FramesGoto, ShallowJoins, AloneGoto DEF MemoryInv, UseInv, LifeInv
<1>16. /\ DOMAIN stack' = DOMAIN stack /\ stack'[Len(stack)] = f
       /\ \A i \in DOMAIN stack : i # Len(stack) => stack'[i] = stack[i]
  BY <1>1, <1>2, Gone
<1>17. /\ \A i \in DOMAIN stack : stack[i].at \notin Owners
       /\ \A d \in Clients : \A k \in Ids : Lives(client[d]) => client[d].objects[k] # "freed"
       /\ \A i \in DOMAIN stack : i # Len(stack) =>
            stack[i].at \in Base \cup Loop /\ stack[i].c = NULL
  BY <1>2, ShallowStack
<1>18. ASSUME NEW i \in DOMAIN stack', i # Len(stack)
       PROVE  Alive(stack'[i], client', peer')
  <2>1. stack'[i] = stack[i] /\ stack[i].at \in Base \cup Loop /\ stack[i].c = NULL
    BY <1>16, <1>17, <1>18
  <2>2. Alive(stack[i], client, peer)
    BY <1>16 DEF MemoryInv, UseInv, LifeInv
  <2>3. stack[i].at \notin {"flush", "flush_next"}
    BY <2>1 DEF Base, Loop
  <2>4. QED
    BY <1>10, <2>1, <2>2, <2>3, ClientsAssumption DEF Alive
<1>19. Alive(f, client', peer')
  BY <1>4, <1>5, <1>13 DEF Alive, Lives
<1>20. Members(display', client')
  BY <1>3, <1>4, <1>5, <1>6, <1>7, <1>8 DEF MemoryInv, UseInv, LifeInv, Members, Lives
<1>21. LifeInv'
  BY <1>3, <1>5, <1>10, <1>15, <1>16, <1>18, <1>19, <1>20 DEF MemoryInv, UseInv, LifeInv
<1>22. \A i \in DOMAIN stack' : stack'[i].at \notin Owners
  BY <1>14, <1>16, <1>17
<1>23. DestroyedOnce'
  BY <1>22 DEF DestroyedOnce, OnceAt, Owners, Resource
<1>24. FreedGo'
  BY <1>4, <1>5, <1>17 DEF FreedGo
<1>25. Registered(display', client')
  BY <1>3, <1>5, <1>6 DEF MemoryInv, UseInv, ObjectsInv, Registered, Lives
<1>26. \A d \in Clients : DisplayIs(client'[d])
  BY <1>4, <1>5 DEF MemoryInv, UseInv, ObjectsInv
<1>27. \A i \in DOMAIN stack' : Reaches(stack'[i], display')
  <2>1. Reaches(f, display')
    BY <1>13 DEF Reaches
  <2>2. \A i \in DOMAIN stack : i # Len(stack) => Reaches(stack[i], display')
    BY <1>6 DEF MemoryInv, UseInv, ObjectsInv, Reaches
  <2>3. QED
    BY <1>16, <2>1, <2>2
<1>28. ObjectsInv'
  BY <1>23, <1>24, <1>25, <1>26, <1>27 DEF ObjectsInv
<1>29. QED
  BY <1>11, <1>12, <1>15, <1>21, <1>28 DEF MemoryInv, UseInv

(* A frame that only differs in what no pointer is in.                     *)
LEMMA Refit ==
  ASSUME ListenersInv, MemoryInv, NEW f, f.at = Top.at, f.c = Top.c, f.id = Top.id,
         DOMAIN f = DOMAIN Top, f.at \notin Owners,
         f.at \notin {"dispatch", "flush", "flush_next", "announce", "tell"}
  PROVE  Sound(f)
<1>1. StackShape /\ Suits(Top)
  BY TopSuits DEF ListenersInv, MemoryInv
<1>2. Known(f)
  BY <1>1 DEF Suits, Known
<1>3. Alive(f, client, peer) /\ Reaches(f, display)
  BY <1>1 DEF Suits, Alive, Reaches
<1>4. Joins(f)
  BY <1>1, TopJoins DEF MemoryInv, UseInv, LifeInv
<1>5. QED
  BY <1>2, <1>3, <1>4 DEF Sound, Suits

(* A handler is called for a client that lives, or for none.               *)
LEMMA HandlerFrame ==
  ASSUME NEW c \in Clients \cup {NULL}, c \in Clients => Lives(client[c]), NEW id
  PROVE  /\ Sound(Handler(c, id)) /\ Handler(c, id).at = "user" /\ Handler(c, id).c = c
         /\ Handler(c, id).at \notin OfLoop /\ \A below : Together(below, Handler(c, id))
<1> DEFINE f == Handler(c, id)
<1>1. /\ Known(f) /\ Alive(f, client, peer) /\ Reaches(f, display) /\ f.at = "user" /\ f.c = c
      /\ f.at \notin OfLoop
  BY SimpleFrame DEF Handler, FrameOf, Simple, Resource
<1> HIDE DEF f
<1>2. Joins(f) /\ f.at \notin Owners /\ f.at \notin Destroyers
  BY <1>1, WithinJoins DEF Within, Owners, Resource, Destroyers
<1>3. \A below : Together(below, f)
  BY <1>1, <1>2 DEF Together, Within
<1>4. QED
  BY <1>1, <1>2, <1>3 DEF f, Sound, Suits

LEMMA EmitMemory ==
  ASSUME ListenersInv, MemoryInv, wl_priv_signal_emit
  PROVE  MemoryInv'
<1>1. At("emit") /\ UNCHANGED <<client, otherVars>>
  BY DEF wl_priv_signal_emit
<1>2. /\ Top.at = "emit" /\ Known(Top) /\ Alive(Top, client, peer) /\ Fits(Top, Len(stack))
      /\ "emit" \in OfLoop \cap ForClient /\ "emit" \notin Owners \cup Innermost
  BY <1>1, TopAt DEF OfLoop, ForClient, Owners, Resource, Innermost
<1>3. Top.c \in Clients /\ Lives(client[Top.c])
  BY <1>2 DEF Known, Alive
<1>4. OthersFine /\ UNCHANGED peer
  BY <1>1, OthersSame
<1>5. CASE Return /\ UNCHANGED display
  <2>1. Kept
    BY <1>1, <1>4, <1>5, KeptAll
  <2>2. QED
    BY <1>2, <1>5, <2>1, MemoryReturn
<1>6. CASE ~(Return /\ UNCHANGED display)
  <2> DEFINE l     == Head(display.emit_list)
             f     == Handler(Top.c, 0)
             after == [Top EXCEPT !.called = Append(@, l)]
  <2>1. /\ display' = [display EXCEPT !.emit_list = Tail(@), !.listener_list = <<l>> \o @]
        /\ Call(f, after)
    BY <1>6 DEF wl_priv_signal_emit
  <2>2. IsDisplay(display') /\ SameLinks /\ display'.globals = display.globals
    BY <2>1 DEF MemoryInv, Types, IsDisplay, DisplayFields, SameLinks
  <2>3. Kept
    BY <1>1, <1>4, <2>2, KeptDisplay
  <2>4. after.at = Top.at /\ after.c = Top.c /\ after.id = Top.id /\ DOMAIN after = DOMAIN Top
    BY <1>2 DEF Known
  <2> HIDE DEF after
  <2>5. Sound(after)
    BY <1>2, <2>4, Refit
  <2>6. Sound(f) /\ f.at = "user" /\ f.at \notin OfLoop /\ Together(after, f)
    BY <1>3, HandlerFrame
  <2> HIDE DEF f
  <2>7. QED
    BY <1>2, <2>1, <2>3, <2>4, <2>5, <2>6, MemoryCall
<1>7. QED
  BY <1>5, <1>6

-----------------------------------------------------------------------------
(* Requests.                                                               *)

LEMMA FreshRead ==
  ASSUME NEW cl, NEW space, IsClient(cl, space), NEW last, Fresh(cl, last),
         NEW new, new.objects = cl.objects, new.pending = cl.pending \o cl.to_server,
         new.to_server = << >>
  PROVE  Fresh(new, last) /\ IsSequence(new.pending)
         /\ ToSet(new.pending) = ToSet(cl.pending) \cup ToSet(cl.to_server)
<1> DEFINE p == cl.pending
           s == cl.to_server
           q == new.pending
<1>1. IsSequence(p) /\ IsSequence(s)
  BY DEF IsClient
<1>2. PICK m \in Nat, n \in Nat : /\ m = Len(p) /\ n = Len(s)
                                  /\ DOMAIN p = 1..m /\ DOMAIN s = 1..n
  BY <1>1, SequenceIs
<1> HIDE DEF q
<1>3. q = p \o s
  BY DEF q
<1> HIDE DEF p, s
<1>4. /\ IsSequence(q) /\ ToSet(q) = ToSet(p) \cup ToSet(s)
      /\ DOMAIN q = 1..m + n /\ \A i \in 1..m + n : q[i] = IF i <= m THEN p[i] ELSE s[i - m]
  BY <1>1, <1>2, <1>3, SequenceConcat
<1> USE DEF p, s
<1>5. ASSUME NEW i \in 1..m + n, NEW j \in 1..m + n, i # j, Creates(q[i]), Creates(q[j])
      PROVE  q[i].new # q[j].new
  <2>1. CASE i <= m /\ j <= m
    <3>1. i \in 1..m /\ j \in 1..m /\ q[i] = p[i] /\ q[j] = p[j]
      BY <1>4, <2>1
    <3>2. QED
      BY <1>2, <1>5, <3>1 DEF Fresh, NewDiffer
  <2>2. CASE ~(i <= m) /\ ~(j <= m)
    <3> DEFINE a == i - m
               b == j - m
    <3>1. a \in 1..n /\ b \in 1..n /\ a # b /\ q[i] = s[a] /\ q[j] = s[b]
      BY <1>4, <1>5, <2>2
    <3> HIDE DEF a, b
    <3>2. QED
      BY <1>2, <1>5, <3>1 DEF Fresh, NewDiffer
  <2>3. CASE i <= m /\ ~(j <= m)
    <3>1. i \in 1..m /\ j - m \in 1..n /\ q[i] = p[i] /\ q[j] = s[j - m]
      BY <1>4, <2>3
    <3>2. q[i] \in ToSet(p) /\ q[j] \in ToSet(s)
      BY <1>2, <3>1 DEF ToSet
    <3>3. QED
      BY <1>5, <3>2 DEF Fresh
  <2>4. CASE ~(i <= m) /\ j <= m
    <3>1. j \in 1..m /\ i - m \in 1..n /\ q[j] = p[j] /\ q[i] = s[i - m]
      BY <1>4, <2>4
    <3>2. q[j] \in ToSet(p) /\ q[i] \in ToSet(s)
      BY <1>2, <3>1 DEF ToSet
    <3>3. QED
      BY <1>5, <3>2 DEF Fresh
  <2>5. QED
    BY <2>1, <2>2, <2>3, <2>4
<1>6. NewDiffer(q)
  BY <1>4, <1>5 DEF NewDiffer
<1>7. ToSet(<< >>) = {} /\ DOMAIN << >> = {}
  BY EmptySequence
<1>8. Fresh(new, last)
  BY <1>4, <1>6, <1>7 DEF Fresh, NewDiffer, q
<1>9. QED
  BY <1>4, <1>8 DEF q

LEMMA FreshConsumed ==
  ASSUME NEW cl, NEW space, IsClient(cl, space), NEW last, Fresh(cl, last), cl.pending # << >>,
         NEW new, new.pending = Tail(cl.pending), new.to_server = cl.to_server,
         \/ new.objects = cl.objects
         \/ /\ Creates(Head(cl.pending))
            /\ \E kind : new.objects = [cl.objects EXCEPT ![Head(cl.pending).new] = kind]
  PROVE  Fresh(new, last)
<1> DEFINE p == cl.pending
           r == Head(p)
           q == Tail(p)
<1>1. /\ IsSequence(p) /\ cl.objects \in [Ids -> Kinds]
      /\ \A e \in ToSet(p) \cup ToSet(cl.to_server) : IsRequest(e)
  BY DEF IsClient
<1>2. PICK n \in Nat \ {0} : n = Len(p) /\ DOMAIN p = 1..n
  BY <1>1, SequenceIs, SequenceTail
<1>3. /\ IsSequence(q) /\ ToSet(q) \subseteq ToSet(p) /\ DOMAIN q = 1..n - 1
      /\ r = p[1] /\ r \in ToSet(p) /\ \A i \in 1..n - 1 : q[i] = p[i + 1]
  BY <1>1, <1>2, SequenceTail
<1> HIDE DEF q, r
<1>4. \A i \in 1..n - 1 : i + 1 \in 1..n /\ i + 1 # 1
  OBVIOUS
<1>5. NewDiffer(q)
  <2> SUFFICES ASSUME NEW i \in 1..n - 1, NEW j \in 1..n - 1, i # j, Creates(q[i]), Creates(q[j])
               PROVE  q[i].new # q[j].new
    BY <1>3 DEF NewDiffer
  <2>1. i + 1 \in 1..n /\ j + 1 \in 1..n /\ i + 1 # j + 1
    BY <1>4
  <2>2. q[i] = p[i + 1] /\ q[j] = p[j + 1]
    BY <1>3
  <2>3. NewDiffer(p)
    BY DEF Fresh
  <2>4. QED
    BY <1>2, <2>1, <2>2, <2>3 DEF NewDiffer
<1>6. \A e \in ToSet(q) : Creates(e) /\ Creates(r) => e.new # r.new
  <2> SUFFICES ASSUME NEW i \in 1..n - 1, Creates(q[i]), Creates(r) PROVE q[i].new # r.new
    BY <1>3 DEF ToSet
  <2> DEFINE a == i + 1
  <2>1. a \in 1..n /\ 1 \in 1..n /\ a # 1 /\ q[i] = p[a]
    BY <1>3, <1>4
  <2> HIDE DEF a
  <2>2. NewDiffer(p)
    BY DEF Fresh
  <2>3. QED
    BY <1>2, <1>3, <2>1, <2>2 DEF NewDiffer
<1>7. \A e \in ToSet(cl.to_server) : Creates(e) /\ Creates(r) => e.new # r.new
  BY <1>3 DEF Fresh
<1>8. CASE new.objects = cl.objects
  BY <1>3, <1>5, <1>8 DEF Fresh, q
<1>9. ASSUME NEW kind, Creates(r), new.objects = [cl.objects EXCEPT ![r.new] = kind]
      PROVE  Fresh(new, last)
  <2>1. /\ r.new \in Ids /\ r.new <= last
        /\ \A k \in Ids : k # r.new => new.objects[k] = cl.objects[k]
    BY <1>1, <1>3, <1>9 DEF Fresh, IsRequest
  <2>2. \A k \in Ids : new.objects[k] # "none" => k <= last
    BY <2>1 DEF Fresh
  <2>3. ASSUME NEW e \in ToSet(q) \cup ToSet(cl.to_server), Creates(e)
        PROVE  e.new <= last /\ e.new # Display /\ new.objects[e.new] = "none"
    <3>1. e \in ToSet(p) \cup ToSet(cl.to_server) /\ e.new # r.new /\ e.new \in Ids
      BY <1>1, <1>3, <1>6, <1>7, <1>9, <2>3 DEF IsRequest
    <3>2. QED
      BY <2>1, <2>3, <3>1 DEF Fresh
  <2>4. QED
    BY <1>3, <1>5, <2>2, <2>3 DEF Fresh, q
<1>10. QED
  BY <1>8, <1>9 DEF r

(* One client's requests go on, and it is written to.                      *)
LEMMA KeptRequests ==
  ASSUME MemoryInv, OthersFine, NEW c \in Clients, NEW cl, IsClient(cl, Played.socket_space),
         cl.life = client[c].life \/ (Lives(cl) /\ Lives(client[c])),
         cl.objects = client[c].objects,
         cl.display_resource = client[c].display_resource, Fresh(cl, peer[c].last),
         client' = [client EXCEPT ![c] = cl], UNCHANGED <<display, peer>>
  PROVE  Kept
<1>1. /\ DOMAIN client' = Clients /\ client'[c] = cl
      /\ \A d \in Clients : d # c => client'[d] = client[d]
      /\ \A d \in Clients : IsClient(client'[d], Played.socket_space)
  BY OneClient DEF MemoryInv
<1>2. Steady
  BY <1>1 DEF Steady, Lives
<1>3. Calm
  BY <1>1 DEF Calm, Quiet, Lives
<1>4. FreshInv'
  BY <1>1 DEF MemoryInv, FreshInv
<1>5. Types'
  BY <1>1, TypesKept DEF MemoryInv, Types
<1>6. QED
  BY <1>2, <1>3, <1>4, <1>5 DEF Kept

LEMMA ReadMemory ==
  ASSUME ListenersInv, MemoryInv, wl_client_connection_data
  PROVE  MemoryInv'
<1> DEFINE c     == Top.c
           space == Played.socket_space
           flush == IF "writable" \in Top.mask THEN wl_client_flush(client[c])
                    ELSE [cl |-> client[c], ret |-> "none"]
           read  == IF "readable" \in Top.mask
                    THEN [flush.cl EXCEPT !.pending = @ \o flush.cl.to_server, !.to_server = << >>]
                    ELSE flush.cl
           cl    == [read EXCEPT !.writable = @ /\ flush.ret # "ok"]
<1>1. At("connection_data") /\ UNCHANGED <<display, otherVars>>
  BY DEF wl_client_connection_data
<1>2. /\ Top.at = "connection_data" /\ Known(Top) /\ Alive(Top, client, peer)
      /\ "connection_data" \in OfLoop \cap ForClient /\ "connection_data" \notin Owners
  BY <1>1, TopAt DEF OfLoop, ForClient, Owners, Resource
<1>3. c \in Clients /\ Lives(client[c])
  BY <1>2 DEF Known, Alive
<1>4. OthersFine /\ UNCHANGED peer
  BY <1>1, OthersSame
<1>5. CASE Goto(Frame("client_destroy", c)) /\ UNCHANGED client
  <2> DEFINE f == Frame("client_destroy", c)
  <2>1. /\ Known(f) /\ Alive(f, client, peer) /\ Reaches(f, display)
        /\ f.at = "client_destroy" /\ f.at \notin OfLoop
    BY <1>3, SimpleFrame DEF Simple, Destroyers, Resource, Frame
  <2> HIDE DEF f
  <2>2. Kept
    BY <1>1, <1>4, <1>5, KeptAll
  <2>3. Sound(f)
    <3>1. f.at \notin Owners
      BY <2>1 DEF Owners, Resource
    <3>2. QED
      BY <1>2, <2>1, <3>1, AtShallow
  <2>4. QED
    BY <1>2, <1>5, <2>1, <2>2, <2>3, MemoryGoto DEF f
<1>6. CASE client' = [client EXCEPT ![c] = cl] /\ Goto(Handling(c, TRUE))
  <2>1. IsClient(client[c], space) /\ Fresh(client[c], peer[c].last)
    BY <1>3 DEF MemoryInv, Types, FreshInv
  <2>2. /\ IsClient(flush.cl, space) /\ SameCore(flush.cl, client[c])
        /\ flush.cl.display_resource = client[c].display_resource
    <3>1. SameCore(client[c], client[c])
      BY DEF SameCore
    <3>2. QED
      BY <2>1, <3>1, Flushed DEF MemoryInv
  <2> HIDE DEF flush
  <2>3. Fresh(flush.cl, peer[c].last)
    BY <2>1, <2>2 DEF Fresh, SameCore
  <2>4. /\ IsClient(read, space) /\ Fresh(read, peer[c].last)
        /\ read.life = client[c].life /\ read.objects = client[c].objects
        /\ read.display_resource = client[c].display_resource
    <3>1. CASE "readable" \notin Top.mask
      BY <2>2, <2>3, <3>1 DEF SameCore
    <3>2. CASE "readable" \in Top.mask
      <4>1. /\ DOMAIN read = DOMAIN flush.cl /\ read.life = flush.cl.life
            /\ read.objects = flush.cl.objects
            /\ read.pending = flush.cl.pending \o flush.cl.to_server /\ read.to_server = << >>
            /\ read.out = flush.cl.out /\ read.to_client = flush.cl.to_client
            /\ read.display_resource = flush.cl.display_resource
        BY <2>2, <3>2 DEF IsClient, ClientFields
      <4> HIDE DEF read
      <4>2. /\ Fresh(read, peer[c].last) /\ IsSequence(read.pending)
            /\ ToSet(read.pending) = ToSet(flush.cl.pending) \cup ToSet(flush.cl.to_server)
        BY <2>2, <2>3, <4>1, FreshRead
      <4>3. IsSequence(<< >>) /\ ToSet(<< >>) = {}
        BY EmptySequence
      <4>4. IsClient(read, space)
        BY <2>2, <4>1, <4>2, <4>3 DEF IsClient
      <4>5. QED
        BY <2>2, <4>1, <4>2, <4>4 DEF SameCore
    <3>3. QED
      BY <3>1, <3>2
  <2> HIDE DEF read
  <2>5. /\ IsClient(cl, space) /\ Fresh(cl, peer[c].last)
        /\ cl.life = client[c].life /\ cl.objects = client[c].objects
        /\ cl.display_resource = client[c].display_resource
    <3>1. /\ DOMAIN cl = DOMAIN read /\ SameCore(cl, read) /\ cl.out = read.out
          /\ cl.to_client = read.to_client /\ cl.display_resource = read.display_resource
      BY <2>4 DEF IsClient, ClientFields, SameCore
    <3> HIDE DEF cl
    <3>2. QED
      BY <2>4, <3>1 DEF IsClient, Fresh, SameCore
  <2> HIDE DEF cl
  <2>6. Kept
    BY <1>1, <1>3, <1>4, <1>6, <2>5, KeptRequests
  <2> DEFINE f == Handling(c, TRUE)
  <2>7. Known(f) /\ Alive(f, client, peer) /\ Reaches(f, display) /\ f.at = "requests"
    BY <1>3, ServeFrame
  <2> HIDE DEF f
  <2>8. f.at \notin Owners
    BY <2>7 DEF Owners, Resource
  <2>9. Sound(f)
    BY <1>2, <2>7, <2>8, AtShallow
  <2>10. QED
    BY <1>2, <1>6, <2>6, <2>9, MemoryGoto DEF f
<1>7. QED
  BY <1>5, <1>6 DEF wl_client_connection_data

LEMMA AtRequests ==
  ASSUME ListenersInv, MemoryInv, At("requests")
  PROVE  /\ Top.at = "requests" /\ Top.at \in OfLoop /\ Top.at \notin Owners
         /\ Top.c \in Clients /\ Lives(client[Top.c])
         /\ IsClient(client[Top.c], Played.socket_space) /\ Fresh(client[Top.c], peer[Top.c].last)
         /\ \A first : /\ Sound(Handling(Top.c, first)) /\ Handling(Top.c, first).at = "requests"
                       /\ Handling(Top.c, first).at \notin Innermost \cup Destroyers
<1>1. /\ Top.at = "requests" /\ Known(Top) /\ Alive(Top, client, peer)
      /\ "requests" \in OfLoop \cap ForClient
      /\ "requests" \notin Owners \cup Innermost \cup Destroyers
  BY TopAt DEF OfLoop, ForClient, Owners, Resource, Innermost, Destroyers
<1>2. Top.c \in Clients /\ Lives(client[Top.c])
  BY <1>1 DEF Known, Alive
<1>3. IsClient(client[Top.c], Played.socket_space) /\ Fresh(client[Top.c], peer[Top.c].last)
  BY <1>2 DEF MemoryInv, Types, FreshInv
<1>4. ASSUME NEW first
      PROVE  Sound(Handling(Top.c, first)) /\ Handling(Top.c, first).at = "requests"
  BY <1>1, <1>2, ServeFrame, AtShallow
<1>5. QED
  BY <1>1, <1>2, <1>3, <1>4

(* The client without the request that is handled.                         *)
Served == [client[Top.c] EXCEPT !.pending = Tail(@)]

LEMMA ServedIs ==
  ASSUME ListenersInv, MemoryInv, MayHandle
  PROVE  /\ At("requests") /\ IsClient(Served, Played.socket_space)
         /\ Fresh(Served, peer[Top.c].last) /\ Served.life = client[Top.c].life
         /\ Served.objects = client[Top.c].objects
         /\ Served.display_resource = client[Top.c].display_resource
         /\ Served.pending = Tail(client[Top.c].pending)
         /\ Served.to_server = client[Top.c].to_server
         /\ DOMAIN Served = DOMAIN client[Top.c]
         /\ Consumed = [client EXCEPT ![Top.c] = Served]
         /\ Request \in ToSet(client[Top.c].pending) /\ IsRequest(Request)
<1> DEFINE cl == client[Top.c]
<1>1. At("requests") /\ cl.pending # << >>
  BY DEF MayHandle
<1>2. /\ Top.c \in Clients /\ IsClient(cl, Played.socket_space) /\ Fresh(cl, peer[Top.c].last)
  BY <1>1, AtRequests
<1>3. /\ DOMAIN Served = DOMAIN cl /\ Served.life = cl.life /\ Served.objects = cl.objects
      /\ Served.display_resource = cl.display_resource /\ Served.pending = Tail(cl.pending)
      /\ Served.to_server = cl.to_server /\ Served.out = cl.out /\ Served.to_client = cl.to_client
  BY <1>2 DEF Served, IsClient, ClientFields
<1>4. /\ IsSequence(Tail(cl.pending)) /\ ToSet(Tail(cl.pending)) \subseteq ToSet(cl.pending)
      /\ Request \in ToSet(cl.pending)
  BY <1>1, <1>2, SequenceTail DEF IsClient, Request
<1>5. IsClient(Served, Played.socket_space)
  BY <1>2, <1>3, <1>4 DEF IsClient
<1>6. Fresh(Served, peer[Top.c].last)
  BY <1>1, <1>2, <1>3, FreshConsumed
<1>7. Consumed = [client EXCEPT ![Top.c] = Served]
  BY DEF Consumed, Served
<1>8. IsRequest(Request)
  BY <1>2, <1>4 DEF IsClient
<1>9. QED
  BY <1>1, <1>3, <1>4, <1>5, <1>6, <1>7, <1>8

(* A request that is answered, and no more.                                *)
LEMMA AnsweredMemory ==
  ASSUME ListenersInv, MemoryInv, MayHandle, NEW cl, IsClient(cl, Played.socket_space),
         SameCore(cl, Served), cl.display_resource = Served.display_resource,
         client' = [Consumed EXCEPT ![Top.c] = cl], Goto(Handled), UNCHANGED <<display, otherVars>>
  PROVE  MemoryInv'
<1>1. /\ At("requests") /\ Fresh(Served, peer[Top.c].last) /\ Served.life = client[Top.c].life
      /\ Served.objects = client[Top.c].objects
      /\ Served.display_resource = client[Top.c].display_resource
      /\ Consumed = [client EXCEPT ![Top.c] = Served]
  BY ServedIs
<1>2. /\ Top.at \in OfLoop /\ Top.at \notin Owners /\ Top.c \in Clients /\ Sound(Handled)
  BY <1>1, AtRequests DEF Handled
<1>3. Fresh(cl, peer[Top.c].last)
  BY <1>1 DEF Fresh, SameCore
<1>4. client' = [client EXCEPT ![Top.c] = cl]
  BY <1>1
<1>5. OthersFine /\ UNCHANGED peer
  BY OthersSame
<1>6. Kept
  BY <1>1, <1>2, <1>3, <1>4, <1>5, KeptRequests DEF SameCore
<1>7. QED
  BY <1>2, <1>6, MemoryGoto

LEMMA RejectMemory ==
  ASSUME ListenersInv, MemoryInv, RejectRequest
  PROVE  MemoryInv'
<1>1. MayHandle /\ Goto(Handled) /\ UNCHANGED <<display, otherVars>>
  BY DEF RejectRequest
<1>2. /\ IsClient(Served, Played.socket_space) /\ Consumed = [client EXCEPT ![Top.c] = Served]
      /\ Top.c \in Clients
  BY <1>1, ServedIs, AtRequests
<1>3. PICK why : client' = [Consumed EXCEPT ![Top.c] = wl_resource_post_error(@, why)]
  BY DEF RejectRequest
<1>4. Consumed[Top.c] = Served
  BY <1>2 DEF MemoryInv, Types
<1>5. client' = [Consumed EXCEPT ![Top.c] = wl_resource_post_error(Served, why)]
  BY <1>3, <1>4
<1>6. QED
  BY <1>1, <1>2, <1>5, ErrorPosted, AnsweredMemory DEF MemoryInv

LEMMA SyncMemory ==
  ASSUME ListenersInv, MemoryInv, display_sync
  PROVE  MemoryInv'
<1>1. MayHandle /\ Goto(Handled) /\ UNCHANGED <<display, otherVars>>
  BY DEF display_sync
<1>2. /\ IsClient(Served, Played.socket_space) /\ Consumed = [client EXCEPT ![Top.c] = Served]
      /\ Top.c \in Clients
  BY <1>1, ServedIs, AtRequests
<1>3. Consumed[Top.c] = Served
  BY <1>2 DEF MemoryInv, Types
<1> DEFINE done == handle_array(Served, Event("done", Request.new, 0), TRUE)
           cl   == handle_array(done, Event("delete_id", Display, Request.new), FALSE)
<1>4. client' = [Consumed EXCEPT ![Top.c] = cl]
  BY <1>3 DEF display_sync, wl_resource_post_event, wl_resource_queue_event
<1>5. /\ IsClient(done, Played.socket_space) /\ SameCore(done, Served)
      /\ done.display_resource = Served.display_resource
  BY <1>2, Posted DEF MemoryInv
<1> HIDE DEF done
<1>6. /\ IsClient(cl, Played.socket_space) /\ SameCore(cl, done)
      /\ cl.display_resource = done.display_resource
  BY <1>5, Posted DEF MemoryInv
<1> HIDE DEF cl
<1>7. SameCore(cl, Served)
  BY <1>5, <1>6 DEF SameCore
<1>8. QED
  BY <1>1, <1>4, <1>5, <1>6, <1>7, AnsweredMemory

LEMMA RequestsEndMemory ==
  ASSUME ListenersInv, MemoryInv, RequestsEnd
  PROVE  MemoryInv'
<1>1. At("requests") /\ UNCHANGED <<display, client, otherVars>>
  BY DEF RequestsEnd
<1>2. /\ Top.at \in OfLoop /\ Top.at \notin Owners /\ Top.c \in Clients /\ Lives(client[Top.c])
  BY <1>1, AtRequests
<1>3. Kept
  BY <1>1, OthersSame, KeptAll
<1>4. CASE Return
  BY <1>2, <1>3, <1>4, MemoryReturn
<1>5. CASE Goto(Frame("client_destroy", Top.c))
  <2> DEFINE f == Frame("client_destroy", Top.c)
  <2>1. /\ Known(f) /\ Alive(f, client, peer) /\ Reaches(f, display)
        /\ f.at = "client_destroy" /\ f.at \notin OfLoop
    BY <1>2, SimpleFrame DEF Simple, Destroyers, Resource, Frame
  <2> HIDE DEF f
  <2>2. f.at \notin Owners
    BY <2>1 DEF Owners, Resource
  <2>3. Sound(f)
    BY <1>2, <2>1, <2>2, AtShallow
  <2>4. QED
    BY <1>2, <1>3, <1>5, <2>1, <2>3, MemoryGoto DEF f
<1>6. QED
  BY <1>4, <1>5 DEF RequestsEnd

-----------------------------------------------------------------------------
(* What is told of globals, event by event.                                *)

LEMMA RestFrame ==
  ASSUME ListenersInv, MemoryInv, stack # << >>, Top.at \in {"announce", "tell"},
         Top.rest # << >>
  PROVE  LET f == [Top EXCEPT !.rest = Tail(@)]
         IN  /\ Sound(f) /\ f.at = Top.at
             /\ Head(Top.rest) \in ToSet(Top.rest) /\ Top.at \notin Owners \cup OfLoop
<1> DEFINE f == [Top EXCEPT !.rest = Tail(@)]
<1>1. StackShape /\ Suits(Top)
  BY TopSuits DEF ListenersInv, MemoryInv
<1>2. {"at", "c", "id", "rest"} \subseteq DOMAIN Top /\ IsSequence(Top.rest)
  BY <1>1 DEF Suits, Known
<1>3. /\ DOMAIN f = DOMAIN Top /\ f.at = Top.at /\ f.c = Top.c /\ f.id = Top.id
      /\ f.rest = Tail(Top.rest)
  BY <1>2
<1> HIDE DEF f
<1>4. /\ IsSequence(Tail(Top.rest)) /\ ToSet(Tail(Top.rest)) \subseteq ToSet(Top.rest)
      /\ Head(Top.rest) \in ToSet(Top.rest)
  BY <1>2, SequenceTail
<1>5. Top.at \notin Owners \cup OfLoop \cup Resource
  BY DEF Owners, OfLoop, Resource
<1>6. Known(f)
  BY <1>1, <1>2, <1>3, <1>4, <1>5 DEF Suits, Known
<1>7. Alive(f, client, peer)
  BY <1>1, <1>3 DEF Suits, Alive
<1>8. Reaches(f, display)
  BY <1>1, <1>3, <1>4 DEF Suits, Reaches
<1>9. Joins(f)
  BY <1>1, <1>3, TopJoins DEF MemoryInv, UseInv, LifeInv
<1>10. QED
  BY <1>3, <1>4, <1>5, <1>6, <1>7, <1>8, <1>9 DEF f, Sound, Suits

LEMMA ToldMemory ==
  ASSUME ListenersInv, MemoryInv, UNCHANGED <<display, otherVars>>, NEW c \in Clients, NEW event,
         \/ UNCHANGED client
         \/ client' = [client EXCEPT ![c] = wl_resource_post_event(@, event)]
  PROVE  Kept
<1>1. OthersFine /\ UNCHANGED peer
  BY OthersSame
<1>2. CASE UNCHANGED client
  BY <1>1, <1>2, KeptAll
<1>3. CASE client' = [client EXCEPT ![c] = wl_resource_post_event(@, event)]
  <2> DEFINE cl == handle_array(client[c], event, TRUE)
  <2>1. client' = [client EXCEPT ![c] = cl]
    BY <1>3 DEF MemoryInv, Types, wl_resource_post_event
  <2>2. IsClient(client[c], Played.socket_space)
    BY DEF MemoryInv, Types
  <2>3. /\ IsClient(cl, Played.socket_space) /\ SameCore(cl, client[c])
        /\ cl.display_resource = client[c].display_resource
    BY <2>2, Posted DEF MemoryInv
  <2> HIDE DEF cl
  <2>4. QED
    BY <1>1, <2>1, <2>3, KeptWritten
<1>4. QED
  BY <1>2, <1>3

LEMMA AnnounceMemory ==
  ASSUME ListenersInv, MemoryInv, Announce
  PROVE  MemoryInv'
<1> DEFINE r == Head(Top.rest)
           f == [Top EXCEPT !.rest = Tail(@)]
<1>1. /\ stack # << >> /\ Top.at = "announce" /\ Top.rest # << >> /\ Goto(f)
      /\ UNCHANGED <<display, otherVars>>
      /\ \/ UNCHANGED client
         \/ client' = [client EXCEPT ![r.c] =
                         wl_resource_post_event(@, Event(Top.op, r.id, Top.g.name))]
  BY DEF Announce, At
<1>2. Sound(f) /\ f.at = Top.at /\ r \in ToSet(Top.rest) /\ Top.at \notin Owners \cup OfLoop
  BY <1>1, RestFrame
<1>3. ToSet(Top.rest) \subseteq ToSet(display.registries)
  BY <1>1, TopAt DEF At, Reaches
<1> HIDE DEF f, r
<1>4. r.c \in Clients
  BY <1>2, <1>3 DEF MemoryInv, UseInv, ObjectsInv, Registered
<1>5. Kept
  BY <1>1, <1>4, ToldMemory
<1>6. QED
  BY <1>1, <1>2, <1>5, MemoryGoto

LEMMA TellMemory ==
  ASSUME ListenersInv, MemoryInv, TellGlobal
  PROVE  MemoryInv'
<1> DEFINE g == Head(Top.rest)
           f == [Top EXCEPT !.rest = Tail(@)]
<1>1. /\ stack # << >> /\ Top.at = "tell" /\ UNCHANGED <<display, otherVars>>
      /\ \/ UNCHANGED client
         \/ client' = [client EXCEPT ![Top.c] =
                         wl_resource_post_event(@, Event("global", Top.id, g.name))]
  BY DEF TellGlobal, At
<1>2. "tell" \in ForClient /\ "tell" \notin Owners
  BY DEF ForClient, Owners, Resource
<1>3. Top.c \in Clients
  BY <1>1, <1>2, TopAt DEF At, Known
<1>4. Kept
  BY <1>1, <1>3, ToldMemory
<1>5. CASE Return
  BY <1>1, <1>2, <1>4, <1>5, MemoryReturn
<1>6. CASE Top.rest # << >> /\ Goto(f)
  <2>1. Sound(f) /\ f.at = Top.at /\ Top.at \notin Owners \cup OfLoop
    BY <1>1, <1>6, RestFrame
  <2> HIDE DEF f
  <2>2. QED
    BY <1>4, <1>6, <2>1, MemoryGoto
<1>7. QED
  BY <1>5, <1>6 DEF TellGlobal

-----------------------------------------------------------------------------
(* Calls of the compositor's that free nothing, and other threads.         *)

LEMMA HandlerReturnsMemory ==
  ASSUME ListenersInv, MemoryInv, HandlerReturns
  PROVE  MemoryInv'
<1>1. Top.at = "user" /\ Return /\ UNCHANGED <<display, client, otherVars>> /\ "user" \notin Owners
  BY DEF HandlerReturns, At, Owners, Resource
<1>2. Kept
  BY <1>1, OthersSame, KeptAll
<1>3. QED
  BY <1>1, <1>2, MemoryReturn

LEMMA MayCallIs ==
  ASSUME ListenersInv, MemoryInv, NEW call, MayCall(call), UNCHANGED <<scenario, terminator>>
  PROVE  /\ OthersFine /\ stack # << >> /\ Top.at = "user"
         /\ Top.at \notin Owners \cup OfLoop \cup Innermost \cup Destroyers
<1>1. budget \in 0..Played.budget /\ budget > 0 /\ budget' = budget - 1
  BY DEF MayCall, MemoryInv, Types
<1>2. Played.budget \in Nat
  BY SpaceIs DEF MemoryInv
<1>3. budget' \in 0..Played.budget
  BY <1>1, <1>2
<1>4. "user" \notin Owners \cup OfLoop \cup Innermost \cup Destroyers
  BY DEF Owners, Resource, OfLoop, Innermost, Destroyers
<1>5. QED
  BY <1>3, <1>4 DEF OthersFine, MayCall, At, MemoryInv, Types

LEMMA CallPostMemory ==
  ASSUME ListenersInv, MemoryInv, CallPost
  PROVE  MemoryInv'
<1>1. UNCHANGED <<scenario, display, peer, stack, terminator>>
  BY DEF CallPost
<1>2. OthersFine
  BY <1>1, MayCallIs DEF CallPost
<1>3. ASSUME NEW c \in Clients, NEW cl, client' = [client EXCEPT ![c] = cl],
             IsClient(client[c], Played.socket_space) =>
               /\ IsClient(cl, Played.socket_space) /\ SameCore(cl, client[c])
               /\ cl.display_resource = client[c].display_resource
      PROVE  MemoryInv'
  <2>1. IsClient(client[c], Played.socket_space)
    BY DEF MemoryInv, Types
  <2>2. Kept
    BY <1>1, <1>2, <1>3, <2>1, KeptWritten
  <2>3. QED
    BY <1>1, <2>2, MemorySame
<1>4. ASSUME NEW c \in Clients, NEW event,
             client' = [client EXCEPT ![c] = wl_resource_post_event(@, event)]
      PROVE  MemoryInv'
  <2>1. client' = [client EXCEPT ![c] = handle_array(client[c], event, TRUE)]
    BY <1>4 DEF MemoryInv, Types, wl_resource_post_event
  <2>2. QED
    BY <1>3, <2>1, Posted DEF MemoryInv
<1>5. ASSUME NEW c \in Clients, NEW why,
             client' = [client EXCEPT ![c] = wl_resource_post_error(@, why)]
      PROVE  MemoryInv'
  <2>1. client' = [client EXCEPT ![c] = wl_resource_post_error(client[c], why)]
    BY <1>5 DEF MemoryInv, Types
  <2>2. QED
    BY <1>3, <2>1, ErrorPosted DEF MemoryInv
<1>6. ASSUME NEW c \in Clients, client' = [client EXCEPT ![c].error = TRUE]
      PROVE  MemoryInv'
  <2> DEFINE cl == [client[c] EXCEPT !.error = TRUE]
  <2>1. client' = [client EXCEPT ![c] = cl]
    BY <1>6 DEF MemoryInv, Types
  <2>2. ASSUME IsClient(client[c], Played.socket_space)
        PROVE  /\ IsClient(cl, Played.socket_space) /\ SameCore(cl, client[c])
               /\ cl.display_resource = client[c].display_resource
    <3>1. /\ DOMAIN cl = DOMAIN client[c] /\ SameCore(cl, client[c]) /\ cl.out = client[c].out
          /\ cl.display_resource = client[c].display_resource
          /\ cl.to_client = client[c].to_client
      BY <2>2 DEF IsClient, ClientFields, SameCore
    <3> HIDE DEF cl
    <3>2. QED
      BY <2>2, <3>1 DEF IsClient, SameCore
  <2> HIDE DEF cl
  <2>3. QED
    BY <1>3, <2>1, <2>2
<1>7. QED
  BY <1>4, <1>5, <1>6 DEF CallPost

(* Frames that only differ in what they record of an emission.             *)
Alike == /\ DOMAIN stack' = DOMAIN stack /\ Len(stack') = Len(stack)
         /\ \A i \in DOMAIN stack :
              \/ stack'[i] = stack[i]
              \/ /\ stack[i].at = "emit" /\ stack'[i].at = "emit" /\ stack'[i].c = stack[i].c
                 /\ DOMAIN stack'[i] = DOMAIN stack[i]

LEMMA AlikeMemory ==
  ASSUME ListenersInv, MemoryInv, Kept, Alike
  PROVE  MemoryInv'
<1>1. ASSUME NEW i \in DOMAIN stack
      PROVE  /\ Known(stack'[i]) /\ Alive(stack'[i], client, peer) /\ Reaches(stack'[i], display)
             /\ stack'[i].at = stack[i].at /\ stack'[i].c = stack[i].c
             /\ stack[i].at = "flush_next" => stack'[i] = stack[i]
  <2>1. Known(stack[i]) /\ Alive(stack[i], client, peer) /\ Reaches(stack[i], display)
    BY DEF MemoryInv, UseInv, FramesInv, LifeInv, ObjectsInv
  <2>2. CASE stack'[i] = stack[i]
    BY <2>1, <2>2
  <2>3. CASE /\ stack[i].at = "emit" /\ stack'[i].at = "emit" /\ stack'[i].c = stack[i].c
             /\ DOMAIN stack'[i] = DOMAIN stack[i]
    <3>1. "emit" \notin Resource
      BY DEF Resource
    <3>2. Known(stack'[i])
      BY <2>1, <2>3, <3>1 DEF Known
    <3>3. Alive(stack'[i], client, peer) /\ Reaches(stack'[i], display)
      BY <2>1, <2>3 DEF Alive, Reaches
    <3>4. QED
      BY <2>3, <3>2, <3>3
  <2>4. QED
    BY <2>2, <2>3 DEF Alike
<1>2. FramesInv'
  <2>1. \A i \in DOMAIN stack : stack[i].at \in OfLoop => stack'[2].at = stack[2].at
    <3> SUFFICES ASSUME NEW i \in DOMAIN stack, stack[i].at \in OfLoop
                 PROVE  stack'[2].at = stack[2].at
      OBVIOUS
    <3>1. stack[2].at \in Loop
      BY DEF MemoryInv, UseInv, FramesInv
    <3>2. 3 \in DOMAIN stack /\ DOMAIN stack = 1..Len(stack) /\ Len(stack) \in Nat
      BY StackNow DEF MemoryInv, UseInv, FramesInv, ListenersInv
    <3>3. 2 \in DOMAIN stack
      BY <3>2
    <3>4. QED
      BY <1>1, <3>3
  <2>2. QED
    BY <1>1, <2>1 DEF MemoryInv, UseInv, FramesInv, Alike
<1>3. Alone'
  BY <1>1 DEF MemoryInv, UseInv, LifeInv, Alone, Alike, Together, Apart
<1>4. LifeInv'
  BY <1>1, <1>3, LifeSteady DEF MemoryInv, UseInv, Kept, Alike
<1>5. OwnersStay
  BY DEF OwnersStay, Alike, Owners, Resource
<1>6. ObjectsInv'
  BY <1>1, <1>2, <1>5, ObjectsCalm DEF MemoryInv, UseInv, Kept, Alike
<1>7. QED
  BY <1>2, <1>4, <1>6 DEF MemoryInv, UseInv, Kept

LEMMA CallListenMemory ==
  ASSUME ListenersInv, MemoryInv, CallListen
  PROVE  MemoryInv'
<1>1. UNCHANGED <<scenario, client, peer, terminator>>
  BY DEF CallListen
<1>2. OthersFine
  BY <1>1, MayCallIs DEF CallListen
<1>3. PICK a, b : display' = [display EXCEPT !.listener_list = a, !.emit_list = b]
  <2>1. ASSUME NEW l, display' = wl_priv_signal_add(l)
        PROVE  \E a, b : display' = [display EXCEPT !.listener_list = a, !.emit_list = b]
    <3>1. display' = [display EXCEPT !.listener_list = Append(display.listener_list, l),
                                     !.emit_list = display.emit_list]
      BY <2>1 DEF wl_priv_signal_add, MemoryInv, Types, IsDisplay, DisplayFields
    <3>2. QED
      BY <3>1
  <2>2. ASSUME NEW l, display' = [display EXCEPT !.listener_list = Unlinked(@, l),
                                                 !.emit_list = Unlinked(@, l)]
        PROVE  \E a, b : display' = [display EXCEPT !.listener_list = a, !.emit_list = b]
    BY <2>2
  <2>3. QED
    BY <2>1, <2>2 DEF CallListen
<1>4. IsDisplay(display') /\ SameLinks /\ display'.globals = display.globals
  BY <1>3 DEF MemoryInv, Types, IsDisplay, DisplayFields, SameLinks
<1>5. Kept
  BY <1>1, <1>2, <1>4, KeptDisplay
<1>6. CASE UNCHANGED stack
  BY <1>5, <1>6, MemorySame
<1>7. ASSUME NEW l, stack' = [i \in DOMAIN stack |-> IF stack[i].at # "emit" THEN stack[i]
                                ELSE [stack[i] EXCEPT !.gone = @ \cup {l}]]
      PROVE  MemoryInv'
  <2>1. DOMAIN stack' = DOMAIN stack
    BY <1>7
  <2>2. ASSUME NEW i \in DOMAIN stack
        PROVE  \/ stack'[i] = stack[i]
               \/ /\ stack[i].at = "emit" /\ stack'[i].at = "emit" /\ stack'[i].c = stack[i].c
                  /\ DOMAIN stack'[i] = DOMAIN stack[i]
    <3>1. Known(stack[i])
      BY DEF MemoryInv, UseInv, FramesInv
    <3>2. QED
      BY <1>7, <3>1 DEF Known
  <2>3. StackShape /\ IsSequence(stack)
    BY DEF ListenersInv, StackShape
  <2>4. Len(stack') = Len(stack)
    <3>1. Len(stack) \in Nat /\ DOMAIN stack = 1..Len(stack)
      BY <2>3, StackNow
    <3>2. stack' \in [1..Len(stack) -> {stack'[i] : i \in DOMAIN stack}]
      BY <1>7, <3>1
    <3>3. QED
      BY <3>1, <3>2, SeqDef, LenProperties
  <2>5. Alike
    BY <2>1, <2>2, <2>4 DEF Alike
  <2>6. QED
    BY <1>5, <2>5, AlikeMemory
<1>8. QED
  BY <1>6, <1>7 DEF CallListen

LEMMA TerminateMemory ==
  ASSUME ListenersInv, MemoryInv, Terminate \/ TerminateWakes
  PROVE  MemoryInv'
<1>1. /\ UNCHANGED <<scenario, client, peer, stack, budget>> /\ terminator' \in {"cleared", "done"}
      /\ \/ display' = [display EXCEPT !.run = FALSE]
         \/ display' = [display EXCEPT !.efd = TRUE]
  BY DEF Terminate, TerminateWakes
<1>2. OthersFine
  BY <1>1 DEF OthersFine, MemoryInv, Types
<1>3. IsDisplay(display') /\ SameLinks /\ display'.globals = display.globals
  BY <1>1 DEF MemoryInv, Types, IsDisplay, DisplayFields, SameLinks
<1>4. Kept
  BY <1>1, <1>2, <1>3, KeptDisplay
<1>5. QED
  BY <1>1, <1>4, MemorySame

-----------------------------------------------------------------------------
(* Peers.                                                                  *)

LEMMA OnePeer ==
  ASSUME Types, NEW c \in Clients, NEW p, peer' = [peer EXCEPT ![c] = p],
         IsPeer(p), p.connects = peer[c].connects
  PROVE  /\ DOMAIN peer' = Clients /\ peer'[c] = p /\ \A d \in Clients : IsPeer(peer'[d])
         /\ \A d \in Clients : d # c => peer'[d] = peer[d]
         /\ \A d \in Clients : peer'[d].connects = peer[d].connects
BY DEF Types

LEMMA PeerMemory ==
  ASSUME ListenersInv, MemoryInv, UNCHANGED <<scenario, display, stack, terminator, budget>>,
         NEW c \in Clients, NEW p, NEW cl,
         peer' = [peer EXCEPT ![c] = p], client' = [client EXCEPT ![c] = cl],
         IsPeer(p), p.connects = peer[c].connects, IsClient(cl, Played.socket_space),
         cl.life = client[c].life, cl.objects = client[c].objects,
         cl.display_resource = client[c].display_resource, Fresh(cl, p.last)
  PROVE  MemoryInv'
<1>1. /\ DOMAIN client' = Clients /\ client'[c] = cl
      /\ \A d \in Clients : d # c => client'[d] = client[d]
      /\ \A d \in Clients : IsClient(client'[d], Played.socket_space)
  BY OneClient DEF MemoryInv
<1>2. /\ DOMAIN peer' = Clients /\ peer'[c] = p /\ \A d \in Clients : IsPeer(peer'[d])
      /\ \A d \in Clients : d # c => peer'[d] = peer[d]
      /\ \A d \in Clients : peer'[d].connects = peer[d].connects
  BY OnePeer DEF MemoryInv
<1>3. Steady
  BY <1>1, <1>2 DEF Steady, Lives
<1>4. Calm
  BY <1>1 DEF Calm, Quiet, Lives
<1>5. FreshInv'
  BY <1>1, <1>2 DEF MemoryInv, FreshInv
<1>6. OthersFine
  BY DEF OthersFine, MemoryInv, Types
<1>7. Types'
  BY <1>1, <1>2, <1>6, TypesKept DEF MemoryInv, Types
<1>8. Kept
  BY <1>3, <1>4, <1>5, <1>7 DEF Kept
<1>9. QED
  BY <1>8, MemorySame

LEMMA PeerReadsMemory ==
  ASSUME ListenersInv, MemoryInv, NEW c \in Clients, PeerReads(c)
  PROVE  MemoryInv'
<1> DEFINE p  == [peer[c] EXCEPT !.got = @ \o client[c].to_client]
           cl == [client[c] EXCEPT !.to_client = << >>]
<1>1. IsClient(client[c], Played.socket_space) /\ IsPeer(peer[c]) /\ Fresh(client[c], peer[c].last)
  BY DEF MemoryInv, Types, FreshInv
<1>2. /\ peer' = [peer EXCEPT ![c] = p] /\ client' = [client EXCEPT ![c] = cl]
      /\ UNCHANGED <<scenario, display, stack, terminator, budget>>
  BY DEF PeerReads, MemoryInv, Types
<1>3. /\ DOMAIN p = DOMAIN peer[c] /\ p.connects = peer[c].connects /\ p.last = peer[c].last
      /\ p.got = peer[c].got \o client[c].to_client
  BY <1>1 DEF IsPeer
<1>4. IsSequence(p.got)
  BY <1>1, <1>3, SequenceConcat DEF IsPeer, IsClient
<1> HIDE DEF p
<1>5. IsPeer(p)
  BY <1>1, <1>3, <1>4 DEF IsPeer
<1>6. /\ DOMAIN cl = DOMAIN client[c] /\ SameCore(cl, client[c]) /\ cl.out = client[c].out
      /\ cl.display_resource = client[c].display_resource /\ cl.to_client = << >>
  BY <1>1 DEF IsClient, ClientFields, SameCore
<1> HIDE DEF cl
<1>7. IsSequence(<< >>) /\ Len(<< >>) = 0 /\ Played.socket_space \in Nat
  BY EmptySequence, SpaceIs DEF MemoryInv
<1>8. IsClient(cl, Played.socket_space)
  BY <1>1, <1>6, <1>7 DEF IsClient, SameCore
<1>9. Fresh(cl, p.last)
  BY <1>1, <1>3, <1>6 DEF Fresh, SameCore
<1>10. QED
  BY <1>2, <1>3, <1>5, <1>6, <1>8, <1>9, PeerMemory DEF SameCore

LEMMA FreshSent ==
  ASSUME NEW cl, NEW space, IsClient(cl, space), NEW last \in Ids, Fresh(cl, last),
         NEW r, r.new = last \/ r.new = last + 1, Creates(r) => r.new = last + 1, r.new \in Ids,
         NEW new, new.objects = cl.objects, new.pending = cl.pending,
         new.to_server = Append(cl.to_server, r)
  PROVE  Fresh(new, r.new)
<1> DEFINE s == cl.to_server
           t == new.to_server
<1>1. IsSequence(s) /\ last \in Nat \ {0} /\ MaxId \in Nat
  BY BoundsAssumption DEF IsClient, Ids
<1>2. PICK n \in Nat : n = Len(s) /\ DOMAIN s = 1..n
  BY <1>1, SequenceIs
<1>3. t = Append(s, r)
  OBVIOUS
<1> HIDE DEF s, t
<1>4. /\ IsSequence(t) /\ ToSet(t) = ToSet(s) \cup {r} /\ DOMAIN t = 1..n + 1 /\ t[n + 1] = r
      /\ \A i \in 1..n : t[i] = s[i]
  BY <1>1, <1>2, <1>3, SequenceAppend
<1>5. \A k \in Ids : k \in Int
  BY DEF Ids
<1>6. \A k \in Ids : k <= last => k <= r.new
  BY <1>1, <1>5
<1>7. \A e \in ToSet(cl.pending) \cup ToSet(s) : Creates(e) =>
        /\ e.new <= last /\ e.new \in Ids /\ e.new # Display /\ cl.objects[e.new] = "none"
  BY DEF Fresh, IsClient, IsRequest, s
<1>8. Creates(r) => /\ r.new # Display /\ cl.objects[r.new] = "none"
                    /\ \A k \in Ids : k <= last => k # r.new
  <2>1. ASSUME r.new = last + 1 PROVE r.new # Display /\ ~(r.new <= last)
    BY <1>1, <2>1 DEF Display
  <2>2. \A k \in Ids : cl.objects[k] # "none" => k <= last
    BY DEF Fresh
  <2>3. QED
    BY <2>1, <2>2
<1>9. ASSUME NEW i \in 1..n + 1, NEW j \in 1..n + 1, i # j, Creates(t[i]), Creates(t[j])
      PROVE  t[i].new # t[j].new
  <2>1. \A k \in 1..n : t[k] \in ToSet(s)
    BY <1>2, <1>4 DEF ToSet
  <2>2. (i \in 1..n \/ i = n + 1) /\ (j \in 1..n \/ j = n + 1)
    BY <1>2
  <2>3. CASE i \in 1..n /\ j \in 1..n
    <3>1. NewDiffer(s)
      BY DEF Fresh, s
    <3>2. QED
      BY <1>2, <1>4, <1>9, <2>3, <3>1 DEF NewDiffer
  <2>4. CASE i \in 1..n /\ j = n + 1
    BY <1>4, <1>7, <1>8, <1>9, <2>1, <2>4
  <2>5. CASE i = n + 1 /\ j \in 1..n
    BY <1>4, <1>7, <1>8, <1>9, <2>1, <2>5
  <2>6. QED
    BY <1>9, <2>2, <2>3, <2>4, <2>5
<1>10. NewDiffer(t)
  BY <1>4, <1>9 DEF NewDiffer
<1>11. \A k \in Ids : new.objects[k] # "none" => k <= r.new
  BY <1>6 DEF Fresh
<1>12. \A e \in ToSet(new.pending) \cup ToSet(t) : Creates(e) =>
         e.new <= r.new /\ e.new # Display /\ new.objects[e.new] = "none"
  <2>1. r.new <= r.new
    BY <1>5
  <2>2. QED
    BY <1>4, <1>6, <1>7, <1>8, <2>1
<1>13. \A e \in ToSet(new.pending), q \in ToSet(t) : Creates(e) /\ Creates(q) => e.new # q.new
  BY <1>4, <1>7, <1>8 DEF Fresh, s
<1>14. QED
  BY <1>10, <1>11, <1>12, <1>13 DEF Fresh, t

LEMMA SentMemory ==
  ASSUME ListenersInv, MemoryInv, UNCHANGED <<scenario, display, stack, terminator, budget>>,
         NEW c \in Clients, NEW r, Send(c, r), IsRequest(r),
         \/ r.new = peer[c].last + 1
         \/ r.new = peer[c].last /\ ~Creates(r)
  PROVE  MemoryInv'
<1> DEFINE p  == [peer[c] EXCEPT !.program = Tail(@), !.last = r.new]
           cl == [client[c] EXCEPT !.to_server = Append(@, r)]
<1>1. IsClient(client[c], Played.socket_space) /\ IsPeer(peer[c]) /\ Fresh(client[c], peer[c].last)
  BY DEF MemoryInv, Types, FreshInv
<1>2. peer' = [peer EXCEPT ![c] = p] /\ client' = [client EXCEPT ![c] = cl]
  BY DEF Send, MemoryInv, Types
<1>3. /\ DOMAIN p = DOMAIN peer[c] /\ p.connects = peer[c].connects /\ p.last = r.new
      /\ p.got = peer[c].got
  BY <1>1 DEF IsPeer
<1> HIDE DEF p
<1>4. IsPeer(p)
  BY <1>1, <1>3 DEF IsPeer, IsRequest
<1>5. /\ DOMAIN cl = DOMAIN client[c] /\ cl.life = client[c].life /\ cl.objects = client[c].objects
      /\ cl.display_resource = client[c].display_resource /\ cl.pending = client[c].pending
      /\ cl.to_server = Append(client[c].to_server, r)
      /\ cl.out = client[c].out /\ cl.to_client = client[c].to_client
  BY <1>1 DEF IsClient, ClientFields
<1> HIDE DEF cl
<1>6. /\ IsSequence(cl.to_server)
      /\ ToSet(cl.to_server) = ToSet(client[c].to_server) \cup {r}
  BY <1>1, <1>5, SequenceAppend DEF IsClient
<1>7. IsClient(cl, Played.socket_space)
  BY <1>1, <1>5, <1>6 DEF IsClient
<1>8. Fresh(cl, r.new)
  BY <1>1, <1>5, FreshSent DEF IsPeer, IsRequest
<1>9. QED
  BY <1>2, <1>3, <1>4, <1>5, <1>7, <1>8, PeerMemory

LEMMA PeerSendsMemory ==
  ASSUME ListenersInv, MemoryInv, NEW c \in Clients, PeerSends(c)
  PROVE  MemoryInv'
<1> DEFINE last == peer[c].last
           op   == Head(peer[c].program)
<1>1. UNCHANGED <<scenario, display, stack, terminator, budget>>
  BY DEF PeerSends
<1>2. last \in Ids /\ MaxId \in Nat
  BY BoundsAssumption DEF MemoryInv, Types, IsPeer
<1> HIDE DEF op
<1>3. ASSUME NEW obj \in {Display, 2}, NEW name, last < MaxId,
             Send(c, Ask(c, op, obj, last + 1, name))
      PROVE  MemoryInv'
  <2> DEFINE r == Ask(c, op, obj, last + 1, name)
  <2>1. r.new = last + 1 /\ r.obj = obj
    BY DEF Ask
  <2>2. last + 1 \in Ids /\ obj \in Ids
    BY <1>2, <1>3 DEF Ids, Display
  <2>3. IsRequest(r) /\ Send(c, r)
    BY <1>3, <2>1, <2>2 DEF IsRequest
  <2> HIDE DEF r
  <2>4. QED
    BY <1>1, <2>1, <2>3, SentMemory
<1>4. ASSUME op = "destroy", Send(c, Ask(c, op, last, last, 0))
      PROVE  MemoryInv'
  <2> DEFINE r == Ask(c, op, last, last, 0)
  <2>1. r.new = last /\ r.obj = last /\ r.op = "destroy" /\ Send(c, r)
    BY <1>4 DEF Ask
  <2> HIDE DEF r
  <2>2. IsRequest(r) /\ ~Creates(r)
    BY <1>2, <2>1 DEF IsRequest, Creates
  <2>3. QED
    BY <1>1, <2>1, <2>2, SentMemory
<1>5. ASSUME client' = [client EXCEPT ![c].up = FALSE], peer' = [peer EXCEPT ![c].program = << >>]
      PROVE  MemoryInv'
  <2> DEFINE p  == [peer[c] EXCEPT !.program = << >>]
             cl == [client[c] EXCEPT !.up = FALSE]
  <2>1. IsClient(client[c], Played.socket_space) /\ IsPeer(peer[c]) /\ Fresh(client[c], last)
    BY DEF MemoryInv, Types, FreshInv
  <2>2. peer' = [peer EXCEPT ![c] = p] /\ client' = [client EXCEPT ![c] = cl]
    BY <1>5 DEF MemoryInv, Types
  <2>3. /\ DOMAIN p = DOMAIN peer[c] /\ p.connects = peer[c].connects /\ p.last = last
        /\ p.got = peer[c].got
    BY <2>1 DEF IsPeer
  <2> HIDE DEF p
  <2>4. IsPeer(p)
    BY <2>1, <2>3 DEF IsPeer
  <2>5. /\ DOMAIN cl = DOMAIN client[c] /\ cl.life = client[c].life
        /\ cl.objects = client[c].objects
        /\ cl.display_resource = client[c].display_resource /\ cl.pending = client[c].pending
        /\ cl.to_server = client[c].to_server
        /\ cl.out = client[c].out /\ cl.to_client = client[c].to_client
    BY <2>1 DEF IsClient, ClientFields
  <2> HIDE DEF cl
  <2>6. IsClient(cl, Played.socket_space) /\ Fresh(cl, p.last)
    BY <2>1, <2>3, <2>5 DEF IsClient, Fresh
  <2>7. QED
    BY <1>1, <2>2, <2>3, <2>4, <2>5, <2>6, PeerMemory
<1>6. QED
  BY <1>3, <1>4, <1>5 DEF PeerSends, op

-----------------------------------------------------------------------------
(* Globals come and go.                                                    *)

(* Globals may go when nobody is being told of them.                       *)
LEMMA GlobalsMemory ==
  ASSUME ListenersInv, MemoryInv, OthersFine, UNCHANGED <<client, peer>>, IsDisplay(display'),
         SameLinks, \/ UNCHANGED stack /\ Top.at = "user"
                    \/ Return /\ Top.at = "announce"
  PROVE  MemoryInv'
<1>1. StackShape /\ FramesInv
  BY DEF ListenersInv, MemoryInv, UseInv
<1>2. Steady /\ Quiet
  BY DEF Steady, Quiet, SameLinks
<1>3. FreshInv'
  BY DEF MemoryInv, FreshInv, Fresh
<1>4. Types'
  BY TypesKept DEF MemoryInv, Types
<1>5. "user" \notin Owners /\ "announce" \notin Owners /\ "tell" \in Innermost
  BY DEF Owners, Resource, Innermost
<1>6. \A i \in DOMAIN stack : stack[i].at = "tell" => i = Len(stack) /\ Top.at = "tell"
  BY <1>1, <1>5, StackNow DEF FramesInv
<1>7. /\ FramesInv' /\ LifeInv' /\ OwnersStay
      /\ \A i \in DOMAIN stack' : Reaches(stack'[i], display) /\ stack'[i].at # "tell"
  <2>1. CASE UNCHANGED stack /\ Top.at = "user"
    <3>1. FramesInv' /\ Alone'
      BY <2>1, FramesSame DEF MemoryInv, UseInv, LifeInv, Alone
    <3>2. \A i \in DOMAIN stack' : /\ Alive(stack'[i], client, peer) /\ Known(stack'[i])
                                   /\ Reaches(stack'[i], display) /\ stack'[i].at # "tell"
      BY <1>6, <2>1 DEF MemoryInv, UseInv, FramesInv, LifeInv, ObjectsInv
    <3>3. LifeInv'
      BY <1>2, <3>1, <3>2, LifeSteady DEF MemoryInv, UseInv
    <3>4. OwnersStay
      BY <2>1 DEF OwnersStay
    <3>5. QED
      BY <3>1, <3>2, <3>3, <3>4
  <2>2. CASE Return /\ Top.at = "announce"
    <3>1. FramesInv' /\ LifeInv' /\ \A i \in DOMAIN stack' : Reaches(stack'[i], display)
      BY <1>2, <2>2, PlaceReturn DEF MemoryInv
    <3>2. OwnersStay /\ \A i \in DOMAIN stack' : stack'[i].at # "tell"
      BY <1>1, <1>5, <1>6, <2>2, Returned, StackNow DEF OwnersStay
    <3>3. QED
      BY <3>1, <3>2
  <2>3. QED
    BY <2>1, <2>2
<1>8. \A i \in DOMAIN stack' : Reaches(stack'[i], display')
  BY <1>7 DEF Reaches, SameLinks
<1>9. ObjectsInv'
  BY <1>1, <1>2, <1>7, <1>8, ObjectsQuiet DEF MemoryInv, UseInv
<1>10. QED
  BY <1>3, <1>4, <1>7, <1>9 DEF MemoryInv, UseInv

LEMMA GlobalsSet ==
  ASSUME MemoryInv, NEW globals, IsSequence(globals),
         display' = [display EXCEPT !.globals = globals]
  PROVE  IsDisplay(display') /\ SameLinks
BY DEF MemoryInv, Types, IsDisplay, DisplayFields, SameLinks

LEMMA AnnouncementEndsMemory ==
  ASSUME ListenersInv, MemoryInv, AnnouncementEnds
  PROVE  MemoryInv'
<1>1. /\ Top.at = "announce" /\ Return /\ UNCHANGED <<client, otherVars>>
      /\ "announce" \notin Owners
  BY DEF AnnouncementEnds, At, Owners, Resource
<1>2. OthersFine /\ UNCHANGED peer
  BY <1>1, OthersSame
<1>3. IsSequence(display.globals)
  BY DEF MemoryInv, Types, IsDisplay
<1>4. CASE display' = display
  BY <1>1, <1>2, <1>4, KeptAll, MemoryReturn
<1>5. ASSUME NEW globals, IsSequence(globals), display' = [display EXCEPT !.globals = globals]
      PROVE  MemoryInv'
  BY <1>1, <1>2, <1>5, GlobalsSet, GlobalsMemory
<1>6. CASE display' = [display EXCEPT !.globals = Unlinked(@, Top.g)]
  <2>1. display' = [display EXCEPT !.globals = Unlinked(display.globals, Top.g)]
    BY <1>6 DEF MemoryInv, Types, IsDisplay, DisplayFields
  <2>2. IsSequence(Unlinked(display.globals, Top.g))
    BY <1>3, SequenceUnlinked
  <2>3. QED
    BY <1>5, <2>1, <2>2
<1>7. CASE display' = [display EXCEPT !.globals =
               [i \in DOMAIN @ |-> IF @[i] = Top.g THEN [Top.g EXCEPT !.removed = TRUE] ELSE @[i]]]
  <2> DEFINE old == display.globals
             new == [i \in DOMAIN old |->
                       IF old[i] = Top.g THEN [Top.g EXCEPT !.removed = TRUE] ELSE old[i]]
  <2>1. display' = [display EXCEPT !.globals = new]
    BY <1>7 DEF MemoryInv, Types, IsDisplay, DisplayFields
  <2>2. Len(old) \in Nat /\ DOMAIN old = 1..Len(old)
    BY <1>3, SequenceIs
  <2>3. new \in Seq({new[i] : i \in DOMAIN old})
    BY <2>2, SeqDef
  <2>4. IsSequence(new)
    BY <2>3 DEF IsSequence
  <2> HIDE DEF new
  <2>5. QED
    BY <1>5, <2>1, <2>4
<1>8. QED
  BY <1>4, <1>6, <1>7 DEF AnnouncementEnds

LEMMA CallGlobalMemory ==
  ASSUME ListenersInv, MemoryInv, CallGlobal
  PROVE  MemoryInv'
<1>1. UNCHANGED <<scenario, client, peer, terminator>>
  BY DEF CallGlobal
<1>2. /\ OthersFine /\ stack # << >> /\ Top.at = "user"
      /\ Top.at \notin Owners \cup OfLoop \cup Innermost \cup Destroyers
  BY <1>1, MayCallIs DEF CallGlobal
<1>3. /\ StackShape /\ FramesInv /\ IsSequence(display.globals) /\ IsSequence(display.registries)
  BY DEF ListenersInv, MemoryInv, UseInv, Types, IsDisplay
<1>4. ASSUME NEW op, NEW g, NEW destroys, Kept,
             Call(Announcing(op, g, display.registries, destroys), Top)
      PROVE  MemoryInv'
  <2> DEFINE f == Announcing(op, g, display.registries, destroys)
  <2>1. /\ Known(f) /\ Alive(f, client, peer) /\ Reaches(f, display)
        /\ f.at = "announce" /\ f.c = NULL
    BY <1>3, AnnounceFrame
  <2> HIDE DEF f
  <2>2. f.at \notin Owners \cup OfLoop \cup Destroyers
    BY <2>1 DEF Owners, Resource, OfLoop, Destroyers
  <2>3. Joins(f)
    BY <1>3, <2>1, NoneJoins, ClientsAssumption
  <2>4. Sound(f) /\ Sound(Top)
    BY <1>2, <2>1, <2>2, <2>3, TopSuits DEF Sound, Suits, MemoryInv
  <2>5. Together(Top, f)
    BY <1>2, <2>2 DEF Together
  <2>6. QED
    BY <1>2, <1>4, <2>2, <2>4, <2>5, MemoryCall DEF f
<1>5. ASSUME NEW i, wl_global_create(i) PROVE MemoryInv'
  <2> DEFINE g   == Global(display.id, i)
             new == Append(display.globals, g)
  <2>1. /\ display' = [display EXCEPT !.id = @ + 1, !.globals = new]
        /\ Call(Announcing("global", g, display.registries, FALSE), Top)
    BY <1>5 DEF wl_global_create, MemoryInv, Types, IsDisplay, DisplayFields
  <2>2. IsSequence(new) /\ ToSet(new) = ToSet(display.globals) \cup {g}
    BY <1>3, SequenceAppend
  <2> HIDE DEF new, g
  <2>3. IsDisplay(display') /\ SameLinks /\ ToSet(display.globals) \subseteq ToSet(display'.globals)
    BY <2>1, <2>2 DEF MemoryInv, Types, IsDisplay, DisplayFields, SameLinks
  <2>4. Kept
    BY <1>1, <1>2, <2>3, KeptDisplay
  <2>5. QED
    BY <1>4, <2>1, <2>4
<1>6. ASSUME NEW g, wl_global_remove(g) PROVE MemoryInv'
  BY <1>1, <1>2, <1>4, <1>6, KeptAll DEF wl_global_remove
<1>7. ASSUME NEW g, wl_global_destroy(g) PROVE MemoryInv'
  <2>1. CASE /\ Call(Announcing("global_remove", g, display.registries, TRUE), Top)
             /\ UNCHANGED display
    BY <1>1, <1>2, <1>4, <2>1, KeptAll
  <2>2. CASE UNCHANGED stack /\ display' = [display EXCEPT !.globals = Unlinked(@, g)]
    <3>1. display' = [display EXCEPT !.globals = Unlinked(display.globals, g)]
      BY <2>2 DEF MemoryInv, Types, IsDisplay, DisplayFields
    <3>2. IsSequence(Unlinked(display.globals, g))
      BY <1>3, SequenceUnlinked
    <3>3. QED
      BY <1>1, <1>2, <2>2, <3>1, <3>2, GlobalsSet, GlobalsMemory
  <2>3. QED
    BY <1>7, <2>1, <2>2 DEF wl_global_destroy
<1>8. QED
  BY <1>5, <1>6, <1>7 DEF CallGlobal

-----------------------------------------------------------------------------
(* Requests that make an object.                                           *)

LEMMA SequenceCons ==
  ASSUME NEW s, IsSequence(s), NEW e, e \notin ToSet(s), IsInjective(s)
  PROVE  /\ IsSequence(<<e>> \o s) /\ IsInjective(<<e>> \o s)
         /\ ToSet(<<e>> \o s) = {e} \cup ToSet(s)
<1> DEFINE one == <<e>>
           t   == one \o s
<1>1. one \in Seq({e}) /\ Len(one) = 1 /\ one[1] = e
  OBVIOUS
<1> HIDE DEF one
<1>2. IsSequence(one) /\ DOMAIN one = 1..1
  BY <1>1, LenProperties DEF IsSequence
<1>3. ToSet(one) = {e}
  BY <1>1, <1>2 DEF ToSet
<1>4. PICK n \in Nat : n = Len(s) /\ DOMAIN s = 1..n
  BY SequenceIs
<1> HIDE DEF t
<1>5. t = one \o s
  BY DEF t
<1>6. /\ IsSequence(t) /\ ToSet(t) = {e} \cup ToSet(s) /\ DOMAIN t = 1..1 + n
      /\ \A i \in 1..1 + n : t[i] = IF i <= 1 THEN one[i] ELSE s[i - 1]
  <2>1. /\ IsSequence(t) /\ ToSet(t) = ToSet(one) \cup ToSet(s)
        /\ DOMAIN t = 1..Len(one) + Len(s)
        /\ \A i \in 1..Len(one) + Len(s) : t[i] = IF i <= Len(one) THEN one[i] ELSE s[i - Len(one)]
    BY <1>2, <1>5, SequenceConcat
  <2>2. QED
    BY <1>1, <1>3, <1>4, <2>1
<1>7. ASSUME NEW i \in 1..1 + n
      PROVE  \/ i = 1 /\ t[i] = e
             \/ i # 1 /\ i - 1 \in 1..n /\ t[i] = s[i - 1] /\ t[i] \in ToSet(s)
  <2>1. CASE i <= 1
    BY <1>1, <1>6, <2>1
  <2>2. CASE ~(i <= 1)
    <3>1. i # 1 /\ i - 1 \in 1..n /\ t[i] = s[i - 1]
      BY <1>6, <2>2
    <3>2. QED
      BY <1>4, <3>1 DEF ToSet
  <2>3. QED
    BY <2>1, <2>2
<1>8. ASSUME NEW i \in 1..1 + n, NEW j \in 1..1 + n, t[i] = t[j] PROVE i = j
  <2>1. CASE i = 1 \/ j = 1
    BY <1>7, <1>8, <2>1
  <2>2. CASE ~(i = 1 \/ j = 1)
    <3>1. i - 1 \in 1..n /\ j - 1 \in 1..n /\ s[i - 1] = s[j - 1]
      BY <1>7, <1>8, <2>2
    <3>2. i - 1 = j - 1
      BY <1>4, <3>1 DEF IsInjective
    <3>3. QED
      BY <3>1, <3>2
  <2>3. QED
    BY <2>1, <2>2
<1>9. IsInjective(t)
  BY <1>6, <1>8 DEF IsInjective
<1>10. QED
  BY <1>6, <1>9 DEF t, one

(* The request makes object Request.new of Top.c, and calls f.             *)
LEMMA MadeMemory ==
  ASSUME ListenersInv, MemoryInv, MayHandle, Creates(Request), NEW kind \in {"registry", "object"},
         client' = [Consumed EXCEPT ![Top.c].objects[Request.new] = kind], UNCHANGED otherVars,
         \/ UNCHANGED display
         \/ /\ kind = "registry"
            /\ display' = [display EXCEPT
                 !.registries = <<[c |-> Top.c, id |-> Request.new]>> \o @],
         NEW f, Call(f, Handled), Sound(f), f.at \notin OfLoop \cup Destroyers
  PROVE  MemoryInv'
<1> DEFINE c   == Top.c
           id  == Request.new
           cl  == [Served EXCEPT !.objects = [@ EXCEPT ![id] = kind]]
           reg == [c |-> c, id |-> id]
<1>1. /\ At("requests") /\ IsClient(Served, Played.socket_space)
      /\ Served.life = client[c].life /\ Served.objects = client[c].objects
      /\ Served.display_resource = client[c].display_resource
      /\ Served.pending = Tail(client[c].pending) /\ Served.to_server = client[c].to_server
      /\ DOMAIN Served = DOMAIN client[c] /\ Consumed = [client EXCEPT ![c] = Served]
      /\ Request \in ToSet(client[c].pending) /\ id \in Ids
  BY ServedIs DEF IsRequest
<1>2. /\ Top.at = "requests" /\ Top.at \in OfLoop /\ Top.at \notin Owners
      /\ c \in Clients /\ Lives(client[c])
      /\ IsClient(client[c], Played.socket_space) /\ Fresh(client[c], peer[c].last)
      /\ Sound(Handled) /\ Handled.at = "requests" /\ Handled.at \notin Innermost \cup Destroyers
  BY <1>1, AtRequests DEF Handled
<1>3. client[c].objects[id] = "none" /\ id # Display /\ client[c].objects \in [Ids -> Kinds]
  BY <1>1, <1>2 DEF Fresh, IsClient
<1>4. Consumed[c] = Served
  BY <1>1, <1>2 DEF MemoryInv, Types
<1>5. client' = [client EXCEPT ![c] = cl]
  <2>1. client' = [Consumed EXCEPT ![c] = [Consumed[c] EXCEPT !.objects = [@ EXCEPT ![id] = kind]]]
    OBVIOUS
  <2>2. QED
    BY <1>1, <1>4, <2>1
<1>6. /\ DOMAIN cl = DOMAIN Served /\ cl.life = client[c].life
      /\ cl.objects = [client[c].objects EXCEPT ![id] = kind]
      /\ cl.display_resource = client[c].display_resource
      /\ cl.pending = Tail(client[c].pending) /\ cl.to_server = client[c].to_server
      /\ cl.out = Served.out /\ cl.to_client = Served.to_client
  BY <1>1 DEF IsClient, ClientFields
<1> HIDE DEF cl
<1>7. /\ cl.objects \in [Ids -> Kinds] /\ cl.objects[id] = kind
      /\ \A k \in Ids : k # id => cl.objects[k] = client[c].objects[k]
  BY <1>1, <1>3, <1>6 DEF Kinds
<1>8. IsClient(cl, Played.socket_space)
  BY <1>1, <1>6, <1>7 DEF IsClient
<1>9. Fresh(cl, peer[c].last)
  <2>1. client[c].pending # << >> /\ Request = Head(client[c].pending)
    BY DEF MayHandle, Request
  <2>2. QED
    BY <1>2, <1>6, <2>1, FreshConsumed
<1>10. /\ DOMAIN client' = Clients /\ client'[c] = cl
       /\ \A d \in Clients : d # c => client'[d] = client[d]
       /\ \A d \in Clients : IsClient(client'[d], Played.socket_space)
  BY <1>2, <1>5, <1>8, OneClient DEF MemoryInv
<1>11. OthersFine /\ UNCHANGED peer
  BY OthersSame
<1>12. reg \notin ToSet(display.registries)
  BY <1>3 DEF MemoryInv, UseInv, ObjectsInv, Registered
<1>13. /\ IsDisplay(display') /\ display'.client_list = display.client_list
       /\ display'.detached = display.detached /\ display'.globals = display.globals
       /\ ToSet(display.registries) \subseteq ToSet(display'.registries)
       /\ IsInjective(display'.registries)
       /\ \A r \in ToSet(display'.registries) :
            r \in ToSet(display.registries) \/ (r = reg /\ kind = "registry")
  <2>1. /\ IsSequence(display.registries) /\ IsInjective(display.registries) /\ IsDisplay(display)
    BY DEF MemoryInv, Types, UseInv, ObjectsInv, Registered, IsDisplay
  <2>2. CASE UNCHANGED display
    BY <2>1, <2>2
  <2>3. CASE kind = "registry" /\ display' = [display EXCEPT !.registries = <<reg>> \o @]
    <3> DEFINE new == <<reg>> \o display.registries
    <3>1. /\ IsSequence(new) /\ IsInjective(new)
          /\ ToSet(new) = {reg} \cup ToSet(display.registries)
      BY <1>12, <2>1, SequenceCons
    <3>2. display' = [display EXCEPT !.registries = new]
      BY <2>1, <2>3 DEF IsDisplay, DisplayFields
    <3> HIDE DEF new
    <3>3. /\ DOMAIN display' = DOMAIN display /\ display'.registries = new
          /\ display'.id = display.id /\ display'.globals = display.globals
          /\ display'.client_list = display.client_list /\ display'.detached = display.detached
      BY <2>1, <3>2 DEF IsDisplay, DisplayFields
    <3>4. QED
      BY <2>1, <2>3, <3>1, <3>3 DEF IsDisplay
  <2>4. QED
    BY <2>2, <2>3
<1>14. Types'
  BY <1>10, <1>11, <1>13, TypesKept DEF MemoryInv, Types
<1>15. FreshInv'
  BY <1>9, <1>10, <1>11 DEF MemoryInv, FreshInv
<1>16. Steady
  <2>1. ASSUME NEW d \in Clients PROVE client'[d].life = client[d].life
    BY <1>6, <1>10
  <2>2. QED
    BY <1>11, <1>13, <2>1 DEF Steady, Lives
<1>17. FramesInv' /\ LifeInv' /\ \A i \in DOMAIN stack' : Reaches(stack'[i], display)
  <2>1. Together(Handled, f)
    BY <1>2 DEF Together
  <2>2. QED
    BY <1>2, <1>16, <2>1, PlaceCall DEF MemoryInv, Sound
<1>18. /\ \A i \in DOMAIN stack : stack[i].at \notin Owners
       /\ \A d \in Clients : \A k \in Ids : Lives(client[d]) => client[d].objects[k] # "freed"
  BY <1>2, ShallowStack
<1>19. \A i \in DOMAIN stack' : stack'[i].at \notin Owners
  BY <1>2, <1>18, Called DEF ListenersInv, Sound
<1>20. DestroyedOnce'
  BY <1>19 DEF DestroyedOnce, OnceAt, Owners, Resource
<1>21. FreedGo'
  <2>1. \A d \in Clients : Lives(client'[d]) <=> Lives(client[d])
    BY <1>16 DEF Steady
  <2>2. ASSUME NEW k \in Ids PROVE client'[c].objects[k] # "freed"
    <3>1. client[c].objects[k] # "freed" /\ kind # "freed"
      BY <1>2, <1>18
    <3>2. QED
      BY <1>7, <1>10, <3>1
  <2>3. \A d \in Clients : \A k \in Ids : Lives(client'[d]) => client'[d].objects[k] # "freed"
    BY <1>10, <1>18, <2>2
  <2>4. QED
    BY <2>3 DEF FreedGo
<1>22. Registered(display', client')
  <2>1. reg = [c |-> reg.c, id |-> reg.id] /\ reg.c = c /\ reg.id = id
    OBVIOUS
  <2>2. ASSUME NEW r \in ToSet(display'.registries)
        PROVE  /\ r = [c |-> r.c, id |-> r.id] /\ r.c \in Clients /\ r.id \in Ids
               /\ Lives(client'[r.c]) /\ client'[r.c].objects[r.id] = "registry"
    <3>1. CASE r \in ToSet(display.registries)
      <4>1. /\ r = [c |-> r.c, id |-> r.id] /\ r.c \in Clients /\ r.id \in Ids
            /\ Lives(client[r.c]) /\ client[r.c].objects[r.id] = "registry"
        BY <3>1 DEF MemoryInv, UseInv, ObjectsInv, Registered
      <4>2. r.c # c \/ r.id # id
        BY <1>3, <4>1
      <4>3. Lives(client'[r.c])
        BY <1>16, <4>1 DEF Steady
      <4>4. CASE r.c = c
        BY <1>7, <1>10, <4>1, <4>2, <4>3, <4>4
      <4>5. CASE r.c # c
        BY <1>10, <4>1, <4>3, <4>5
      <4>6. QED
        BY <4>4, <4>5
    <3>2. CASE r = reg /\ kind = "registry"
      BY <1>1, <1>2, <1>6, <1>7, <1>10, <2>1, <3>2 DEF Lives
    <3>3. QED
      BY <1>13, <3>1, <3>2
  <2>3. QED
    BY <1>13, <2>2 DEF Registered
<1>23. \A d \in Clients : DisplayIs(client'[d])
  <2>1. Display \in Ids
    BY BoundsAssumption DEF Ids, Display
  <2>2. \A d \in Clients : DisplayIs(client[d])
    BY DEF MemoryInv, UseInv, ObjectsInv
  <2>3. DisplayIs(cl)
    BY <1>2, <1>3, <1>6, <1>7, <2>1, <2>2 DEF DisplayIs
  <2>4. QED
    BY <1>10, <2>2, <2>3
<1>24. \A i \in DOMAIN stack' : Reaches(stack'[i], display')
  BY <1>13, <1>17 DEF Reaches
<1>25. QED
  BY <1>14, <1>15, <1>17, <1>20, <1>21, <1>22, <1>23, <1>24 DEF MemoryInv, UseInv, ObjectsInv

LEMMA GetRegistryMemory ==
  ASSUME ListenersInv, MemoryInv, display_get_registry
  PROVE  MemoryInv'
<1> DEFINE f == Telling(Top.c, Request.new, display.globals)
<1>1. /\ MayHandle /\ Request.op = "get_registry" /\ Call(f, Handled) /\ UNCHANGED otherVars
      /\ client' = [Consumed EXCEPT ![Top.c].objects[Request.new] = "registry"]
      /\ display' = [display EXCEPT !.registries = <<[c |-> Top.c, id |-> Request.new]>> \o @]
  BY DEF display_get_registry
<1>2. /\ Top.at \in OfLoop /\ Top.c \in Clients /\ Lives(client[Top.c])
  BY <1>1, ServedIs, AtRequests
<1>3. /\ Known(f) /\ Alive(f, client, peer) /\ Reaches(f, display) /\ f.at = "tell"
  <2>1. IsSequence(display.globals)
    BY DEF MemoryInv, Types, IsDisplay
  <2>2. QED
    BY <1>2, <2>1, TellFrame
<1> HIDE DEF f
<1>4. f.at \notin Owners \cup OfLoop \cup Destroyers
  BY <1>3 DEF Owners, Resource, OfLoop, Destroyers
<1>5. Sound(f)
  BY <1>2, <1>3, <1>4, AtShallow
<1>6. Creates(Request)
  BY <1>1 DEF Creates
<1>7. QED
  BY <1>1, <1>4, <1>5, <1>6, MadeMemory

LEMMA BindMemory ==
  ASSUME ListenersInv, MemoryInv, registry_bind
  PROVE  MemoryInv'
<1>1. MayHandle /\ Request.op = "bind" /\ UNCHANGED <<display, otherVars>>
  BY DEF registry_bind
<1>2. /\ IsClient(Served, Played.socket_space) /\ Consumed = [client EXCEPT ![Top.c] = Served]
      /\ Top.c \in Clients /\ Lives(client[Top.c])
  BY <1>1, ServedIs, AtRequests
<1>3. CASE /\ client' = [Consumed EXCEPT ![Top.c].objects[Request.new] = "object"]
           /\ Call(Handler(Top.c, Request.new), Handled)
  <2> DEFINE f == Handler(Top.c, Request.new)
  <2>1. Sound(f) /\ f.at = "user" /\ f.at \notin OfLoop
    BY <1>2, HandlerFrame
  <2> HIDE DEF f
  <2>2. f.at \notin Destroyers /\ Creates(Request)
    BY <1>1, <2>1 DEF Destroyers, Creates
  <2>3. QED
    BY <1>1, <1>3, <2>1, <2>2, MadeMemory DEF f
<1>4. ASSUME NEW why, client' = [Consumed EXCEPT ![Top.c] = wl_resource_post_error(@, why)],
             Goto(Handled)
      PROVE  MemoryInv'
  <2>1. Consumed[Top.c] = Served
    BY <1>2 DEF MemoryInv, Types
  <2>2. client' = [Consumed EXCEPT ![Top.c] = wl_resource_post_error(Served, why)]
    BY <1>4, <2>1
  <2>3. QED
    BY <1>1, <1>2, <1>4, <2>2, ErrorPosted, AnsweredMemory DEF MemoryInv
<1>5. QED
  BY <1>3, <1>4 DEF registry_bind

-----------------------------------------------------------------------------
(* Objects are destroyed.                                                  *)

(* A caller's part in the destruction of an object stays as it is, if the  *)
(* function it has called only goes on with what it is doing.              *)
LEMMA OnceBelow ==
  ASSUME StackShape, FramesInv, DestroyedOnce,
         \A i \in Below : i \in DOMAIN stack' /\ stack'[i] = stack[i],
         NEW i \in Below, stack[i].at \in Owners,
         \A j \in DOMAIN stack' \ Below, k \in Ids : Goes(stack'[j], stack[i].c, k) =>
           \/ j = Len(stack) /\ Goes(stack[j], stack[i].c, k)
           \/ ~Busy(stack[i], stack[i].c, k),
         \A k \in Ids :
           \/ client'[stack[i].c].objects[k] = client[stack[i].c].objects[k]
           \/ /\ client'[stack[i].c].objects[k] \in {"none", "freed"}
              /\ ~Goes(stack[i], stack[i].c, k),
         \A k \in Ids : Goes(Top, stack[i].c, k) =>
           \/ Len(stack) \in DOMAIN stack' /\ Goes(stack'[Len(stack)], stack[i].c, k)
           \/ client'[stack[i].c].objects[k] \in {"none", "freed"}
  PROVE  OnceAt(stack', client', i)
<1> DEFINE n     == Len(stack)
           f     == stack[i]
           kind  == client[f.c].objects
           kind2 == client'[f.c].objects
<1>1. /\ i \in DOMAIN stack /\ i # n /\ OnceAt(stack, client, i) /\ Known(f)
      /\ i \in DOMAIN stack' /\ stack'[i] = f /\ Top = stack[n] /\ n \in DOMAIN stack
      /\ f.at \notin Innermost
  BY StackNow DEF Below, FramesInv, DestroyedOnce
<1>2. f.at \notin {"resource_destroy", "destroy_resource"}
  BY <1>1 DEF Innermost
<1>3. f.at \in Resource => f.id \in Ids
  BY <1>1 DEF Known
<1>4. \A j \in DOMAIN stack' : j \in Below \/ j \in DOMAIN stack' \ Below
  OBVIOUS
<1>5. \A j \in Below : j \in DOMAIN stack /\ stack'[j] = stack[j]
  BY DEF Below
<1>6. CASE f.at = "resource_destroyed"
  <2>1. f.id \in Ids /\ Busy(f, f.c, f.id) /\ ~Goes(f, f.c, f.id)
    BY <1>3, <1>6 DEF Resource, Busy, Goes
  <2>2. \A j \in DOMAIN stack : Goes(stack[j], f.c, f.id) => j = i + 1
    BY <1>1, <1>6 DEF OnceAt
  <2>3. ASSUME NEW j \in DOMAIN stack', Goes(stack'[j], f.c, f.id) PROVE j = i + 1
    <3>1. CASE j \in Below
      BY <1>5, <2>2, <2>3, <3>1
    <3>2. CASE j \notin Below
      BY <1>1, <2>1, <2>2, <2>3, <3>2
    <3>3. QED
      BY <3>1, <3>2
  <2>4. f.id # Display /\ kind[f.id] # "registry"
    BY <1>1, <1>6 DEF OnceAt
  <2>5. kind2[f.id] # "registry"
    BY <2>1, <2>4
  <2>6. QED
    BY <1>1, <1>6, <2>3, <2>4, <2>5 DEF OnceAt
<1>7. CASE f.at = "free_resource"
  <2>1. f.id \in Ids /\ Busy(f, f.c, f.id) /\ Goes(f, f.c, f.id)
    BY <1>3, <1>7 DEF Resource, Busy, Goes
  <2>2. /\ kind[f.id] \notin {"none", "freed"}
        /\ \A j \in DOMAIN stack : Goes(stack[j], f.c, f.id) => j = i
        /\ i - 1 \in DOMAIN stack /\ stack[i - 1].c = f.c
        /\ \/ stack[i - 1].at = "resource_destroyed" /\ stack[i - 1].id = f.id
           \/ stack[i - 1].at = "client_resources" /\ stack[i - 1].id = f.id + 1
    BY <1>1, <1>7 DEF OnceAt
  <2>3. ASSUME NEW j \in DOMAIN stack', Goes(stack'[j], f.c, f.id) PROVE j = i
    <3>1. CASE j \in Below
      BY <1>5, <2>2, <2>3, <3>1
    <3>2. CASE j \notin Below
      BY <1>1, <2>1, <2>2, <2>3, <3>2
    <3>3. QED
      BY <3>1, <3>2
  <2>4. kind2[f.id] \notin {"none", "freed"}
    BY <2>1, <2>2
  <2>5. i - 1 \in Below
    <3>1. DOMAIN stack = 1..n /\ n \in Nat
      BY StackNow
    <3>2. i - 1 # n
      BY <1>1, <3>1
    <3>3. QED
      BY <2>2, <3>2 DEF Below
  <2>6. i - 1 \in DOMAIN stack' /\ stack'[i - 1] = stack[i - 1]
    BY <2>5
  <2>7. QED
    BY <1>1, <1>7, <2>2, <2>3, <2>4, <2>6 DEF OnceAt
<1>8. CASE f.at = "client_resources"
  <2>1. ASSUME NEW k \in Ids, k < f.id
        PROVE  \/ kind2[k] \in {"none", "freed"}
               \/ i + 1 \in DOMAIN stack' /\ Goes(stack'[i + 1], f.c, k)
    <3>1. \/ kind[k] \in {"none", "freed"}
          \/ i + 1 \in DOMAIN stack /\ Goes(stack[i + 1], f.c, k)
      BY <1>1, <1>8, <2>1 DEF OnceAt
    <3>2. CASE kind[k] \in {"none", "freed"}
      BY <3>2
    <3>3. CASE i + 1 \in Below /\ Goes(stack[i + 1], f.c, k)
      BY <3>3
    <3>4. CASE i + 1 = n /\ Goes(stack[i + 1], f.c, k)
      BY <1>1, <3>4
    <3>5. QED
      BY <3>1, <3>2, <3>3, <3>4 DEF Below
  <2>2. QED
    BY <1>1, <1>8, <2>1 DEF OnceAt
<1>9. QED
  BY <1>2, <1>6, <1>7, <1>8 DEF Owners, Resource

LEMMA OnceAgain ==
  ASSUME NEW s, NEW cls, NEW i, NEW f, s[i] = f, f.at \in {"destroy_resource", "free_resource"},
         cls[f.c].objects[f.id] \notin {"none", "freed"},
         \A j \in DOMAIN s : Goes(s[j], f.c, f.id) => j = i,
         NEW b \in DOMAIN s, i - 1 = b, s[b].c = f.c,
         \/ s[b].at = "resource_destroyed" /\ s[b].id = f.id
         \/ s[b].at = "client_resources" /\ s[b].id = f.id + 1
  PROVE  OnceAt(s, cls, i)
BY DEF OnceAt

LEMMA NotOwner ==
  ASSUME NEW s, NEW cls, NEW i, s[i].at \notin Owners
  PROVE  OnceAt(s, cls, i)
BY DEF OnceAt, Owners, Resource

(* Pointers to freed objects that were there still have somebody.          *)
LEMMA FreedStay ==
  ASSUME FreedGo,
         \A c \in Clients : \A k \in Ids :
           Lives(client'[c]) /\ client'[c].objects[k] = "freed" =>
             \/ Lives(client[c]) /\ client[c].objects[k] = "freed"
             \/ \E i \in DOMAIN stack' : Removes(stack'[i], c, k),
         \A i \in DOMAIN stack, c \in Clients, k \in Ids :
           /\ Removes(stack[i], c, k) /\ Lives(client'[c]) /\ client'[c].objects[k] = "freed"
           => \E j \in DOMAIN stack' : Removes(stack'[j], c, k)
  PROVE  FreedGo'
BY DEF FreedGo

LEMMA KeptOwners ==
  ASSUME MemoryInv, Kept, FramesInv', LifeInv', DestroyedOnce', FreedGo',
         \A i \in DOMAIN stack' : Reaches(stack'[i], display)
  PROVE  MemoryInv'
<1>1. Registered(display', client') /\ \A c \in Clients : DisplayIs(client'[c])
  BY RegisteredQuiet, DisplayQuiet DEF MemoryInv, UseInv, ObjectsInv, Kept, Calm
<1>2. \A i \in DOMAIN stack' : Reaches(stack'[i], display')
  BY ReachesCalm DEF Kept
<1>3. ObjectsInv'
  BY <1>1, <1>2 DEF ObjectsInv
<1>4. QED
  BY <1>3 DEF MemoryInv, UseInv, Kept

LEMMA ResourceFrame ==
  ASSUME NEW at \in Resource, NEW c \in Clients, Lives(client[c]), NEW id \in Ids
  PROVE  LET f == FrameOf(at, c, id)
         IN  /\ Suits(f) /\ f.at = at /\ f.c = c /\ f.id = id /\ f.at \notin OfLoop
             /\ \A below : Together(below, f)
<1> DEFINE f == FrameOf(at, c, id)
<1>1. /\ Known(f) /\ Alive(f, client, peer) /\ Reaches(f, display) /\ f.at = at /\ f.c = c
      /\ f.id = id /\ f.at \notin OfLoop
  <2>1. at \in Simple /\ at # "client_resources"
    BY DEF Simple, Resource
  <2>2. QED
    BY <2>1, SimpleFrame DEF FrameOf
<1> HIDE DEF f
<1>2. Joins(f)
  BY <1>1, WithinJoins DEF Within
<1>3. f.at \notin Destroyers /\ f.at # "flush_next" /\ f.at \in Within
  BY <1>1 DEF Resource, Destroyers, Within
<1>4. \A below : Together(below, f)
  BY <1>3 DEF Together
<1>5. QED
  BY <1>1, <1>2, <1>4 DEF f, Suits

(* wl_resource_destroy is called.                                          *)
LEMMA PushedMemory ==
  ASSUME ListenersInv, MemoryInv, Kept, NEW c \in Clients, NEW id \in Ids, Lives(client[c]),
         client[c].objects[id] = "object", \A j \in DOMAIN stack : ~Busy(stack[j], c, id),
         NEW after, Call(FrameOf("resource_destroy", c, id), after), Sound(after),
         after.at \notin Innermost, after.at \in OfLoop => Top.at \in OfLoop, Top.at \notin Owners
  PROVE  MemoryInv'
<1> DEFINE f == FrameOf("resource_destroy", c, id)
           n == Len(stack)
<1>1. /\ Suits(f) /\ f.at = "resource_destroy" /\ f.c = c /\ f.id = id /\ f.at \notin OfLoop
      /\ Together(after, f)
  BY ResourceFrame DEF Resource
<1> HIDE DEF f
<1>2. Call(f, after) /\ StackShape /\ FramesInv /\ DestroyedOnce /\ FreedGo
  BY DEF f, ListenersInv, MemoryInv, UseInv, ObjectsInv
<1>3. FramesInv' /\ LifeInv' /\ \A i \in DOMAIN stack' : Reaches(stack'[i], display)
  BY <1>1, <1>2, PlaceCall DEF MemoryInv, Sound, Kept
<1>4. /\ DOMAIN stack' = DOMAIN stack \cup {n + 1} /\ n + 1 \notin DOMAIN stack
      /\ stack'[n] = after /\ stack'[n + 1] = f
      /\ \A i \in DOMAIN stack : i # n => stack'[i] = stack[i]
  BY <1>2, Called
<1>5. after.at \notin Owners /\ Top = stack[n] /\ n \in DOMAIN stack
  BY <1>2, StackNow DEF Sound
<1>6. /\ \A g, d, k : Goes(g, d, k) => g.at \in Owners \ {"resource_destroy"}
      /\ \A g, d, k : Busy(g, d, k) => g.at \in Owners \ {"resource_destroy"}
      /\ \A g, d, k : Removes(g, d, k) => g.at \in Owners \ {"resource_destroy"}
  BY DEF Goes, Busy, Removes, Owners, Resource
<1> HIDE DEF n
<1>7. ASSUME NEW d \in Clients, NEW k
      PROVE  client'[d].objects[k] = client[d].objects[k]
  BY DEF Kept, Calm, Quiet
<1>8. ASSUME NEW i \in DOMAIN stack', stack'[i].at \in Owners PROVE OnceAt(stack', client', i)
  <2>1. CASE i = n + 1
    <3>1. \A j \in DOMAIN stack' : ~Busy(stack'[j], c, id)
      BY <1>1, <1>4, <1>5, <1>6
    <3>2. QED
      BY <1>1, <1>4, <1>7, <2>1, <3>1 DEF OnceAt
  <2>2. CASE i \in Below
    <3>1. stack[i].at \in Owners /\ stack[i].c \in Clients
      <4>1. stack[i].at \in Owners /\ Known(stack[i])
        BY <1>2, <1>4, <1>8, <2>2 DEF Below, n, FramesInv
      <4>2. QED
        BY <4>1 DEF Known, Owners, ForClient, Destroyers
    <3>2. \A j \in DOMAIN stack' \ Below : \A d, k : ~Goes(stack'[j], d, k)
      BY <1>1, <1>4, <1>5, <1>6 DEF Below, n
    <3>3. \A d, k : ~Goes(Top, d, k)
      BY <1>6
    <3>4. \A j \in Below : j \in DOMAIN stack' /\ stack'[j] = stack[j]
      BY <1>4 DEF Below, n
    <3>5. QED
      BY <1>2, <1>7, <2>2, <3>1, <3>2, <3>3, <3>4, OnceBelow
  <2>3. QED
    BY <1>4, <1>5, <1>8, <2>1, <2>2 DEF Below, n
<1>9. DestroyedOnce'
  BY <1>8, NotOwner DEF DestroyedOnce
<1>10. FreedGo'
  <2>1. \A i \in DOMAIN stack, d \in Clients, k \in Ids : Removes(stack[i], d, k) =>
          i \in DOMAIN stack' /\ Removes(stack'[i], d, k)
    BY <1>4, <1>5, <1>6
  <2>2. QED
    BY <1>2, <1>7, <2>1, FreedStay DEF Kept, Calm, Quiet
<1>11. QED
  BY <1>3, <1>9, <1>10, KeptOwners

LEMMA HandleDestroyMemory ==
  ASSUME ListenersInv, MemoryInv, HandleDestroy
  PROVE  MemoryInv'
<1> DEFINE c  == Top.c
           id == Request.obj
<1>1. /\ MayHandle /\ client[c].objects[id] = "object" /\ client' = Consumed
      /\ Call(FrameOf("resource_destroy", c, id), Handled) /\ UNCHANGED <<display, otherVars>>
  BY DEF HandleDestroy, Object
<1>2. /\ At("requests") /\ IsClient(Served, Played.socket_space)
      /\ Fresh(Served, peer[c].last) /\ Served.life = client[c].life
      /\ Served.objects = client[c].objects
      /\ Served.display_resource = client[c].display_resource
      /\ Consumed = [client EXCEPT ![c] = Served] /\ id \in Ids
  BY <1>1, ServedIs DEF IsRequest
<1>3. /\ Top.at \in OfLoop /\ Top.at \notin Owners /\ c \in Clients /\ Lives(client[c])
      /\ Sound(Handled) /\ Handled.at \notin Innermost
  BY <1>2, AtRequests DEF Handled
<1>4. Kept
  BY <1>1, <1>2, <1>3, OthersSame, KeptRequests
<1>5. \A j \in DOMAIN stack : ~Busy(stack[j], c, id)
  BY <1>3, ShallowStack DEF Busy, Goes, Owners, Resource
<1>6. QED
  BY <1>1, <1>2, <1>3, <1>4, <1>5, PushedMemory

LEMMA CallDestroyMemory ==
  ASSUME ListenersInv, MemoryInv, CallDestroy
  PROVE  MemoryInv'
<1>1. UNCHANGED <<scenario, display, client, peer, terminator>>
  BY DEF CallDestroy
<1>2. /\ OthersFine /\ stack # << >> /\ Top.at = "user"
      /\ Top.at \notin Owners \cup OfLoop \cup Innermost \cup Destroyers
  BY <1>1, MayCallIs DEF CallDestroy
<1>3. Kept
  BY <1>1, <1>2, KeptAll
<1>4. Sound(Top) /\ StackShape /\ FramesInv
  BY <1>2, TopSuits DEF Sound, MemoryInv, UseInv, ListenersInv
<1>5. /\ Len(stack) \in DOMAIN stack /\ Top = stack[Len(stack)]
      /\ \A i \in DOMAIN stack : stack[i] \in ToSet(stack)
  BY <1>4, StackNow DEF ToSet
<1>6. ASSUME NEW c \in Clients, MayKill(c), Call(Frame("client_destroy", c), Top)
      PROVE  MemoryInv'
  <2> DEFINE f == Frame("client_destroy", c)
  <2>1. /\ Known(f) /\ Alive(f, client, peer) /\ Reaches(f, display)
        /\ f.at = "client_destroy" /\ f.c = c /\ f.at \notin OfLoop
    BY <1>6, SimpleFrame DEF Simple, Destroyers, Resource, Frame, MayKill, Lives
  <2> HIDE DEF f
  <2>2. \A i \in DOMAIN stack : Apart(stack[i], c)
    BY <1>5, <1>6 DEF MayKill, Apart
  <2>3. \A i \in DOMAIN stack : Together(stack[i], f)
    BY <2>1, <2>2 DEF Together, Apart
  <2>4. Joins(f)
    BY <2>3 DEF Joins, Below
  <2>5. f.at \notin Owners
    BY <2>1 DEF Owners, Resource
  <2>6. QED
    BY <1>2, <1>3, <1>4, <1>5, <1>6, <2>1, <2>3, <2>4, <2>5, MemoryCall DEF Sound, Suits, f
<1>7. ASSUME NEW c \in Clients, NEW id \in Ids, Whole(c, id),
             Call(FrameOf("resource_destroy", c, id), Top)
      PROVE  MemoryInv'
  <2>1. Lives(client[c]) /\ client[c].objects[id] = "object"
    BY <1>7 DEF Whole, Lives
  <2>2. ASSUME NEW j \in DOMAIN stack PROVE ~Busy(stack[j], c, id)
    <3>1. \/ stack[j].at \notin {"free_resource", "resource_destroyed"}
          \/ ~(stack[j].c = c /\ stack[j].id = id)
      BY <1>5, <1>7 DEF Whole
    <3>2. stack[j].at # "destroy_resource"
      BY <1>2, <1>4, <1>5 DEF FramesInv, Innermost
    <3>3. QED
      BY <3>1, <3>2 DEF Busy, Goes
  <2>3. QED
    BY <1>2, <1>3, <1>4, <1>7, <2>1, <2>2, PushedMemory
<1>8. QED
  BY <1>6, <1>7 DEF CallDestroy

(* What an owner at the top knows.                                         *)
LEMMA AtOwner ==
  ASSUME ListenersInv, MemoryInv, NEW at \in Owners, At(at)
  PROVE  /\ Top.at = at /\ Top.c \in Clients /\ Lives(client[Top.c]) /\ Known(Top)
         /\ Top = stack[Len(stack)] /\ OnceAt(stack, client, Len(stack))
         /\ StackShape /\ FramesInv /\ DestroyedOnce /\ FreedGo
         /\ IsClient(client[Top.c], Played.socket_space)
         /\ Fresh(client[Top.c], peer[Top.c].last) /\ DisplayIs(client[Top.c])
         /\ Top.at \in Resource => Top.id \in Ids
         /\ Top.at \notin OfLoop
<1>1. /\ Top.at = at /\ Known(Top) /\ Alive(Top, client, peer) /\ StackShape /\ FramesInv
  BY TopAt
<1>2. at \in ForClient /\ at # "client_create" /\ at \notin OfLoop
  BY DEF ForClient, Owners, Destroyers, Resource, OfLoop
<1>3. Top.c \in Clients /\ Lives(client[Top.c]) /\ (Top.at \in Resource => Top.id \in Ids)
  BY <1>1, <1>2 DEF Known, Alive
<1>4. DestroyedOnce /\ FreedGo /\ Top = stack[Len(stack)] /\ Len(stack) \in DOMAIN stack
  BY <1>1, StackNow DEF MemoryInv, UseInv, ObjectsInv
<1>5. OnceAt(stack, client, Len(stack))
  BY <1>4 DEF DestroyedOnce
<1>6. QED
  BY <1>1, <1>2, <1>3, <1>4, <1>5 DEF MemoryInv, Types, FreshInv, UseInv, ObjectsInv

LEMMA BelowOwner ==
  ASSUME StackShape, FramesInv, NEW i \in Below, stack[i].at \in Owners
  PROVE  stack[i].c \in Clients /\ i \in DOMAIN stack /\ i # Len(stack)
BY DEF Below, FramesInv, Known, Owners, ForClient, Destroyers

LEMMA WlResourceDestroyMemory ==
  ASSUME ListenersInv, MemoryInv, wl_resource_destroy
  PROVE  MemoryInv'
<1> DEFINE c     == Top.c
           id    == Top.id
           n     == Len(stack)
           f     == FrameOf("destroy_resource", c, id)
           after == FrameOf("resource_destroyed", c, id)
<1>1. At("resource_destroy") /\ Call(f, after) /\ UNCHANGED <<display, client, otherVars>>
  BY DEF wl_resource_destroy
<1>2. /\ Top.at = "resource_destroy" /\ c \in Clients /\ Lives(client[c]) /\ id \in Ids
      /\ Top = stack[n] /\ OnceAt(stack, client, n)
      /\ StackShape /\ FramesInv /\ DestroyedOnce /\ FreedGo /\ DisplayIs(client[c])
      /\ DOMAIN stack = 1..n /\ n \in Nat
  BY <1>1, AtOwner, StackNow DEF Owners, Resource
<1>3. client[c].objects[id] = "object" /\ \A j \in DOMAIN stack : ~Busy(stack[j], c, id)
  BY <1>2 DEF OnceAt
<1>4. Kept
  BY <1>1, OthersSame, KeptAll
<1>5. /\ Suits(f) /\ f.at = "destroy_resource" /\ f.c = c /\ f.id = id /\ f.at \notin OfLoop
      /\ Together(after, f)
  BY <1>2, ResourceFrame DEF Resource
<1>6. /\ Suits(after) /\ after.at = "resource_destroyed" /\ after.c = c /\ after.id = id
      /\ after.at \notin OfLoop
  BY <1>2, ResourceFrame DEF Resource
<1> HIDE DEF f, after
<1>7. FramesInv' /\ LifeInv' /\ \A i \in DOMAIN stack' : Reaches(stack'[i], display)
  <2>1. after.at \notin Innermost
    BY <1>6 DEF Innermost
  <2>2. QED
    BY <1>1, <1>4, <1>5, <1>6, <2>1, PlaceCall DEF MemoryInv, Kept
<1>8. /\ DOMAIN stack' = DOMAIN stack \cup {n + 1} /\ n + 1 \notin DOMAIN stack
      /\ stack'[n] = after /\ stack'[n + 1] = f
      /\ \A i \in DOMAIN stack : i # n => stack'[i] = stack[i]
  BY <1>1, <1>2, Called
<1>9. /\ \A d, k : Goes(f, d, k) <=> d = c /\ k = id
      /\ \A d, k : ~Goes(after, d, k) /\ ~Goes(Top, d, k) /\ ~Removes(Top, d, k)
      /\ \A g, d, k : Goes(g, d, k) => Busy(g, d, k)
  BY <1>2, <1>5, <1>6 DEF Goes, Busy, Removes
<1> HIDE DEF n
<1>10. \A j \in DOMAIN stack' : Goes(stack'[j], c, id) => j = n + 1
  BY <1>2, <1>3, <1>8, <1>9
<1>11. OnceAt(stack', client', n + 1)
  <2> DEFINE m == n + 1
  <2>1. m - 1 = n
    BY <1>2
  <2>2. n \in DOMAIN stack
    BY <1>2, StackNow DEF n
  <2>3. m - 1 = n /\ n \in DOMAIN stack' /\ stack'[m] = f /\ stack'[n] = after
    BY <1>8, <2>1, <2>2
  <2>4. client'[f.c].objects[f.id] = "object"
    BY <1>1, <1>3, <1>5
  <2>5. \A j \in DOMAIN stack' : Goes(stack'[j], f.c, f.id) => j = m
    BY <1>5, <1>10
  <2> HIDE DEF m
  <2>6. OnceAt(stack', client', m)
    BY <1>5, <1>6, <2>3, <2>4, <2>5, OnceAgain
  <2>7. QED
    BY <2>6 DEF m
<1>12. OnceAt(stack', client', n)
  <2>1. id # Display
    BY <1>2, <1>3 DEF DisplayIs
  <2>2. QED
    BY <1>1, <1>3, <1>6, <1>8, <1>10, <2>1 DEF OnceAt
<1>13. ASSUME NEW i \in Below, stack[i].at \in Owners PROVE OnceAt(stack', client', i)
  <2>1. stack[i].c \in Clients /\ i \in DOMAIN stack /\ i # n
    BY <1>2, <1>13, BelowOwner DEF n
  <2>2. ASSUME NEW j \in DOMAIN stack' \ Below, NEW k, Goes(stack'[j], stack[i].c, k)
        PROVE  ~Busy(stack[i], stack[i].c, k)
    <3>1. j = n \/ j = n + 1
      BY <1>8 DEF Below, n
    <3>2. QED
      BY <1>3, <1>8, <1>9, <2>1, <2>2, <3>1
  <2>3. \A j \in Below : j \in DOMAIN stack' /\ stack'[j] = stack[j]
    BY <1>8 DEF Below, n
  <2>4. QED
    BY <1>1, <1>2, <1>9, <1>13, <2>2, <2>3, OnceBelow
<1>14. DestroyedOnce'
  <2>1. ASSUME NEW i \in DOMAIN stack'
        PROVE  i = n + 1 \/ i = n \/ (i \in Below /\ stack'[i] = stack[i])
    BY <1>8 DEF Below, n
  <2>2. QED
    BY <1>11, <1>12, <1>13, <2>1, NotOwner DEF DestroyedOnce
<1>15. FreedGo'
  <2>1. \A i \in DOMAIN stack, d \in Clients, k \in Ids : Removes(stack[i], d, k) =>
          i \in DOMAIN stack' /\ Removes(stack'[i], d, k)
    BY <1>2, <1>8, <1>9
  <2>2. QED
    BY <1>1, <1>2, <2>1, FreedStay
<1>16. QED
  BY <1>4, <1>7, <1>14, <1>15, KeptOwners

LEMMA DestroyResourceMemory ==
  ASSUME ListenersInv, MemoryInv, destroy_resource
  PROVE  MemoryInv'
<1> DEFINE c     == Top.c
           id    == Top.id
           n     == Len(stack)
           user  == Handler(c, id)
           after == FrameOf("free_resource", c, id)
<1>1. /\ At("destroy_resource") /\ (Call(user, after) \/ Goto(after))
      /\ UNCHANGED <<display, client, otherVars>>
  BY DEF destroy_resource
<1>2. /\ Top.at = "destroy_resource" /\ c \in Clients /\ Lives(client[c]) /\ id \in Ids
      /\ Top = stack[n] /\ OnceAt(stack, client, n)
      /\ StackShape /\ FramesInv /\ DestroyedOnce /\ FreedGo
      /\ DOMAIN stack = 1..n /\ n \in Nat
  BY <1>1, AtOwner, StackNow DEF Owners, Resource
<1>3. Kept
  BY <1>1, OthersSame, KeptAll
<1>4. /\ Suits(after) /\ after.at = "free_resource" /\ after.c = c /\ after.id = id
      /\ after.at \notin OfLoop
  BY <1>2, ResourceFrame DEF Resource
<1>5. Sound(user) /\ user.at = "user" /\ user.at \notin OfLoop /\ \A below : Together(below, user)
  BY <1>2, HandlerFrame
<1> HIDE DEF user, after
<1>6. FramesInv' /\ LifeInv' /\ \A i \in DOMAIN stack' : Reaches(stack'[i], display)
  <2>1. after.at \notin Innermost
    BY <1>4 DEF Innermost
  <2>2. QED
    BY <1>1, <1>3, <1>4, <1>5, <2>1, PlaceCall, PlaceGoto DEF MemoryInv, Kept, Sound
<1>7. /\ DOMAIN stack \subseteq DOMAIN stack' /\ stack'[n] = after
      /\ \A i \in DOMAIN stack : i # n => stack'[i] = stack[i]
      /\ \A i \in DOMAIN stack' : i \notin DOMAIN stack => stack'[i].at = "user"
  BY <1>1, <1>2, <1>5, Called, Gone
<1>8. /\ \A d, k : Goes(after, d, k) <=> d = c /\ k = id
      /\ \A d, k : Goes(Top, d, k) <=> d = c /\ k = id
      /\ \A d, k : ~Removes(Top, d, k)
      /\ \A g, d, k : Goes(g, d, k) => g.at # "user"
      /\ "user" \notin Owners
  BY <1>2, <1>4 DEF Goes, Removes, Owners, Resource
<1> HIDE DEF n
<1>9. OnceAt(stack', client', n)
  <2>1. /\ client[c].objects[id] \notin {"none", "freed"}
        /\ \A j \in DOMAIN stack : Goes(stack[j], c, id) => j = n
        /\ n - 1 \in DOMAIN stack /\ stack[n - 1].c = c
        /\ \/ stack[n - 1].at = "resource_destroyed" /\ stack[n - 1].id = id
           \/ stack[n - 1].at = "client_resources" /\ stack[n - 1].id = id + 1
    BY <1>2 DEF OnceAt
  <2>2. \A j \in DOMAIN stack' : Goes(stack'[j], c, id) => j = n
    BY <1>7, <1>8, <2>1
  <2>3. n - 1 # n
    BY <1>2
  <2>4. n - 1 \in DOMAIN stack' /\ stack'[n - 1] = stack[n - 1]
    BY <1>7, <2>1, <2>3
  <2>5. QED
    BY <1>1, <1>4, <1>7, <2>1, <2>2, <2>4 DEF OnceAt
<1>10. ASSUME NEW i \in Below, stack[i].at \in Owners PROVE OnceAt(stack', client', i)
  <2>1. stack[i].c \in Clients /\ i \in DOMAIN stack /\ i # n
    BY <1>2, <1>10, BelowOwner DEF n
  <2>2. ASSUME NEW j \in DOMAIN stack' \ Below, NEW k, Goes(stack'[j], stack[i].c, k)
        PROVE  j = n /\ Goes(stack[j], stack[i].c, k)
    <3>1. j = n \/ j \notin DOMAIN stack
      BY DEF Below, n
    <3>2. QED
      BY <1>2, <1>7, <1>8, <2>2, <3>1
  <2>3. \A j \in Below : j \in DOMAIN stack' /\ stack'[j] = stack[j]
    BY <1>7 DEF Below, n
  <2>4. \A k : Goes(Top, stack[i].c, k) => n \in DOMAIN stack' /\ Goes(stack'[n], stack[i].c, k)
    <3>1. n \in DOMAIN stack
      BY <1>2, StackNow DEF n
    <3>2. QED
      BY <1>7, <1>8, <3>1
  <2>5. QED
    BY <1>1, <1>2, <1>10, <2>2, <2>3, <2>4, OnceBelow DEF n
<1>11. DestroyedOnce'
  <2>1. ASSUME NEW i \in DOMAIN stack'
        PROVE  i = n \/ stack'[i].at \notin Owners \/ (i \in Below /\ stack'[i] = stack[i])
    BY <1>7, <1>8 DEF Below, n
  <2>2. QED
    BY <1>9, <1>10, <2>1, NotOwner DEF DestroyedOnce
<1>12. FreedGo'
  <2>1. \A i \in DOMAIN stack, d \in Clients, k \in Ids : Removes(stack[i], d, k) =>
          i \in DOMAIN stack' /\ Removes(stack'[i], d, k)
    BY <1>2, <1>7, <1>8
  <2>2. QED
    BY <1>1, <1>2, <2>1, FreedStay
<1>13. QED
  BY <1>3, <1>6, <1>11, <1>12, KeptOwners

-----------------------------------------------------------------------------
(* Clients are destroyed.                                                  *)

LEMMA AtDestroyer ==
  ASSUME ListenersInv, MemoryInv, NEW at \in Destroyers, At(at)
  PROVE  /\ Top.at = at /\ Top.c \in Clients /\ Lives(client[Top.c]) /\ Known(Top) /\ Suits(Top)
         /\ Top = stack[Len(stack)] /\ StackShape /\ FramesInv
         /\ IsClient(client[Top.c], Played.socket_space) /\ Fresh(client[Top.c], peer[Top.c].last)
         /\ Top.at \notin OfLoop
         /\ \A i \in Below : i \in DOMAIN stack /\ Apart(stack[i], Top.c)
<1>1. /\ Top.at = at /\ Known(Top) /\ Alive(Top, client, peer) /\ StackShape /\ FramesInv
  BY TopAt
<1>2. at \in ForClient /\ at # "client_create" /\ at \notin OfLoop
  BY DEF ForClient, Destroyers, OfLoop
<1>3. Top.c \in Clients /\ Lives(client[Top.c])
  BY <1>1, <1>2 DEF Known, Alive
<1>4. Top = stack[Len(stack)] /\ Suits(Top) /\ Joins(Top)
  BY <1>1, StackNow, TopSuits DEF Suits, MemoryInv
<1>5. \A i \in Below : i \in DOMAIN stack /\ Apart(stack[i], Top.c)
  BY <1>1, <1>4 DEF Joins, Below, Together
<1>6. QED
  BY <1>1, <1>2, <1>3, <1>4, <1>5 DEF MemoryInv, Types, FreshInv

LEMMA WlClientDestroyMemory ==
  ASSUME ListenersInv, MemoryInv, wl_client_destroy
  PROVE  MemoryInv'
<1> DEFINE c     == Top.c
           cl    == [client[c] EXCEPT !.life = "dying", !.listener = FALSE]
           f     == Frame("client_flush", c)
           user  == Handler(c, 0)
<1>1. /\ At("client_destroy") /\ (Call(user, f) \/ Goto(f)) /\ UNCHANGED <<display, otherVars>>
      /\ client' = [client EXCEPT ![c].life = "dying", ![c].listener = FALSE]
  BY DEF wl_client_destroy
<1>2. /\ Top.at = "client_destroy" /\ c \in Clients /\ Lives(client[c])
      /\ IsClient(client[c], Played.socket_space) /\ Fresh(client[c], peer[c].last)
      /\ StackShape /\ FramesInv /\ "client_destroy" \notin Owners
  BY <1>1, AtDestroyer DEF Destroyers, Owners, Resource
<1>3. client' = [client EXCEPT ![c] = cl]
  BY <1>1, <1>2 DEF MemoryInv, Types
<1>4. /\ DOMAIN cl = DOMAIN client[c] /\ cl.life = "dying" /\ cl.objects = client[c].objects
      /\ cl.display_resource = client[c].display_resource /\ cl.pending = client[c].pending
      /\ cl.to_server = client[c].to_server /\ cl.out = client[c].out
      /\ cl.to_client = client[c].to_client
  BY <1>2 DEF IsClient, ClientFields
<1> HIDE DEF cl
<1>5. IsClient(cl, Played.socket_space) /\ Lives(cl) /\ Fresh(cl, peer[c].last)
  BY <1>2, <1>4 DEF IsClient, Lives, Fresh
<1>6. Kept
  BY <1>1, <1>2, <1>3, <1>4, <1>5, OthersSame, KeptRequests
<1>7. /\ Known(f) /\ Alive(f, client, peer) /\ Reaches(f, display)
      /\ f.at = "client_flush" /\ f.c = c /\ f.at \notin OfLoop
  BY <1>2, SimpleFrame DEF Simple, Destroyers, Resource, Frame
<1> HIDE DEF f
<1>8. f.at \notin Owners \cup Innermost /\ f.at \in Destroyers /\ Top.at \in Destroyers
  BY <1>2, <1>7 DEF Owners, Resource, Innermost, Destroyers
<1>9. Joins(f)
  BY <1>2, <1>7, <1>8, TopJoins DEF MemoryInv, UseInv, LifeInv
<1>10. Sound(f)
  BY <1>7, <1>8, <1>9 DEF Sound, Suits
<1>11. Sound(user) /\ user.at \notin OfLoop /\ Together(f, user)
  BY <1>2, HandlerFrame
<1> HIDE DEF user
<1>12. CASE Goto(f)
  BY <1>2, <1>6, <1>7, <1>10, <1>12, MemoryGoto
<1>13. CASE Call(user, f)
  BY <1>2, <1>6, <1>7, <1>8, <1>10, <1>11, <1>13, MemoryCall
<1>14. QED
  BY <1>1, <1>12, <1>13

(* The walk along the objects of the client at the top.                    *)
LEMMA WalkSuits ==
  ASSUME ListenersInv, MemoryInv, NEW at \in Destroyers, At(at),
         NEW f, f.at = "client_resources", f.c = Top.c, f.id \in Nat \ {0},
         {"at", "c", "id"} \subseteq DOMAIN f, "next" \notin DOMAIN f
  PROVE  Suits(f) /\ f.at \notin OfLoop \cup Innermost
<1>1. /\ Top.at = at /\ Top.c \in Clients /\ Lives(client[Top.c]) /\ StackShape
  BY AtDestroyer
<1>2. f.at \notin ForNone \cup Resource \cup OfLoop \cup Innermost /\ f.at \in Destroyers
  BY DEF ForNone, Resource, Base, Loop, OfLoop, Innermost, Destroyers
<1>3. Known(f)
  BY <1>1, <1>2 DEF Known
<1>4. Alive(f, client, peer) /\ Reaches(f, display)
  BY <1>1 DEF Alive, Reaches
<1>5. Joins(f)
  BY <1>1, <1>2, TopJoins DEF MemoryInv, UseInv, LifeInv
<1>6. QED
  BY <1>2, <1>3, <1>4, <1>5 DEF Suits

LEMMA FlushLastMemory ==
  ASSUME ListenersInv, MemoryInv, FlushLast
  PROVE  MemoryInv'
<1> DEFINE c  == Top.c
           n  == Len(stack)
           cl == wl_client_flush(client[c]).cl
           f  == FrameOf("client_resources", c, Display)
<1>1. /\ At("client_flush") /\ Goto(f) /\ UNCHANGED <<display, otherVars>>
      /\ client' = [client EXCEPT ![c] = wl_client_flush(@).cl]
  BY DEF FlushLast
<1>2. /\ Top.at = "client_flush" /\ c \in Clients /\ Top = stack[n]
      /\ IsClient(client[c], Played.socket_space)
      /\ StackShape /\ FramesInv /\ "client_flush" \notin Owners
  BY <1>1, AtDestroyer DEF Destroyers, Owners, Resource
<1>3. client' = [client EXCEPT ![c] = cl]
  BY <1>1, <1>2 DEF MemoryInv, Types
<1>4. /\ IsClient(cl, Played.socket_space) /\ SameCore(cl, client[c])
      /\ cl.display_resource = client[c].display_resource
  BY <1>2, Flushed DEF MemoryInv
<1> HIDE DEF cl
<1>5. Kept
  BY <1>1, <1>2, <1>3, <1>4, OthersSame, KeptWritten
<1>6. f.at = "client_resources" /\ f.c = c /\ f.id = 1 /\ DOMAIN f = {"at", "c", "id"}
  BY DEF FrameOf, Display
<1> HIDE DEF f
<1>7. Suits(f) /\ f.at \notin OfLoop \cup Innermost
  BY <1>1, <1>6, WalkSuits DEF Destroyers
<1>8. FramesInv' /\ LifeInv' /\ \A i \in DOMAIN stack' : Reaches(stack'[i], display)
  BY <1>1, <1>5, <1>7, PlaceGoto DEF MemoryInv, Kept
<1>9. /\ DOMAIN stack' = DOMAIN stack /\ stack'[n] = f
      /\ \A i \in DOMAIN stack : i # n => stack'[i] = stack[i]
  BY <1>1, <1>2, Gone
<1>10. \A d, k : ~Goes(f, d, k) /\ ~Goes(Top, d, k) /\ ~Removes(Top, d, k)
  BY <1>2, <1>6 DEF Goes, Removes
<1> HIDE DEF n
<1>11. ASSUME NEW d \in Clients PROVE client'[d].objects = client[d].objects
  BY <1>5 DEF Kept, Calm, Quiet
<1>12. OnceAt(stack', client', n)
  <2>1. \A k \in Ids : ~(k < f.id)
    BY <1>6 DEF Ids
  <2>2. QED
    BY <1>6, <1>9, <2>1 DEF OnceAt
<1>13. ASSUME NEW i \in Below, stack[i].at \in Owners PROVE OnceAt(stack', client', i)
  <2>1. stack[i].c \in Clients /\ i \in DOMAIN stack /\ i # n
    BY <1>2, <1>13, BelowOwner DEF n
  <2>2. \A j \in DOMAIN stack' \ Below : \A d, k : ~Goes(stack'[j], d, k)
    BY <1>9, <1>10 DEF Below, n
  <2>3. \A j \in Below : j \in DOMAIN stack' /\ stack'[j] = stack[j]
    BY <1>9 DEF Below, n
  <2>4. DestroyedOnce
    BY DEF MemoryInv, UseInv, ObjectsInv
  <2>5. QED
    BY <1>2, <1>10, <1>11, <1>13, <2>1, <2>2, <2>3, <2>4, OnceBelow
<1>14. DestroyedOnce'
  <2>1. ASSUME NEW i \in DOMAIN stack'
        PROVE  i = n \/ (i \in Below /\ stack'[i] = stack[i])
    BY <1>9 DEF Below, n
  <2>2. QED
    BY <1>12, <1>13, <2>1, NotOwner DEF DestroyedOnce
<1>15. FreedGo'
  <2>1. \A i \in DOMAIN stack, d \in Clients, k \in Ids : Removes(stack[i], d, k) =>
          i \in DOMAIN stack' /\ Removes(stack'[i], d, k)
    BY <1>2, <1>9, <1>10
  <2>2. FreedGo
    BY DEF MemoryInv, UseInv, ObjectsInv
  <2>3. \A d \in Clients : Lives(client'[d]) <=> Lives(client[d])
    BY <1>5 DEF Kept, Steady
  <2>4. QED
    BY <1>11, <2>1, <2>2, <2>3, FreedStay
<1>16. QED
  BY <1>5, <1>8, <1>14, <1>15, KeptOwners

LEMMA EachResourceMemory ==
  ASSUME ListenersInv, MemoryInv, EachResource
  PROVE  MemoryInv'
<1> DEFINE c     == Top.c
           id    == Top.id
           n     == Len(stack)
           kind  == client[c].objects[id]
           g     == FrameOf("destroy_resource", c, id)
           f     == [Top EXCEPT !.id = @ + 1]
<1>1. /\ At("client_resources") /\ id \in Ids /\ UNCHANGED <<display, client, otherVars>>
      /\ IF kind = "none" THEN Goto(f) ELSE Call(g, f)
  BY DEF EachResource
<1>2. /\ Top.at = "client_resources" /\ c \in Clients /\ Lives(client[c]) /\ Top = stack[n]
      /\ StackShape /\ FramesInv /\ Known(Top)
      /\ \A i \in Below : i \in DOMAIN stack /\ Apart(stack[i], c)
  BY <1>1, AtDestroyer DEF Destroyers
<1>3. /\ OnceAt(stack, client, n) /\ DestroyedOnce /\ FreedGo
      /\ DOMAIN stack = 1..n /\ n \in Nat \ {0} /\ n \in DOMAIN stack
  BY <1>1, <1>2, AtOwner, StackNow DEF Owners
<1>4. Kept
  BY <1>1, OthersSame, KeptAll
<1>5. /\ f.at = "client_resources" /\ f.c = c /\ f.id = id + 1 /\ DOMAIN f = DOMAIN Top
      /\ id \in Nat \ {0} /\ {"at", "c", "id"} \subseteq DOMAIN Top /\ "next" \notin DOMAIN Top
  BY <1>1, <1>2 DEF Known, Ids
<1> HIDE DEF f
<1>6. Suits(f) /\ f.at \notin OfLoop \cup Innermost
  BY <1>1, <1>5, WalkSuits DEF Destroyers
<1>7. /\ Suits(g) /\ g.at = "destroy_resource" /\ g.c = c /\ g.id = id /\ g.at \notin OfLoop
      /\ Together(f, g)
  BY <1>1, <1>2, ResourceFrame DEF Resource
<1> HIDE DEF g
<1>8. FramesInv' /\ LifeInv' /\ \A i \in DOMAIN stack' : Reaches(stack'[i], display)
  <2>1. CASE Goto(f)
    BY <1>4, <1>6, <2>1, PlaceGoto DEF MemoryInv, Kept
  <2>2. CASE Call(g, f)
    BY <1>4, <1>6, <1>7, <2>2, PlaceCall DEF MemoryInv, Kept
  <2>3. QED
    BY <1>1, <2>1, <2>2
<1>9. /\ stack'[n] = f /\ DOMAIN stack \subseteq DOMAIN stack'
      /\ \A i \in DOMAIN stack : i # n => stack'[i] = stack[i]
      /\ \A i \in DOMAIN stack' : i \notin DOMAIN stack =>
           i = n + 1 /\ stack'[i] = g /\ kind # "none"
      /\ kind # "none" => n + 1 \in DOMAIN stack' /\ stack'[n + 1] = g
  BY <1>1, <1>2, Called, Gone
<1>10. /\ \A d, k : Goes(g, d, k) <=> d = c /\ k = id
       /\ \A d, k : ~Goes(f, d, k) /\ ~Goes(Top, d, k)
       /\ \A d, k : Removes(Top, d, k) <=> d = c /\ k < id
       /\ \A d, k : Removes(f, d, k) <=> d = c /\ k < id + 1
       /\ \A h, d, k : Goes(h, d, k) \/ Removes(h, d, k) \/ Busy(h, d, k) => h.c = d
  BY <1>2, <1>5, <1>7 DEF Goes, Removes, Busy
<1>11. \A i \in Below : i \in DOMAIN stack /\ i # n /\ stack[i].c # c
  BY <1>2 DEF Apart, Below
<1>12. \A i \in DOMAIN stack : i = n \/ i \in Below
  BY DEF Below
<1> HIDE DEF n, kind
<1>13. kind # "freed"
  <2>1. ASSUME kind = "freed" PROVE FALSE
    <3>1. PICK i \in DOMAIN stack : Removes(stack[i], c, id)
      BY <1>1, <1>2, <1>3, <2>1 DEF FreedGo, kind
    <3>2. i = n
      BY <1>10, <1>11, <1>12, <3>1
    <3>3. QED
      BY <1>2, <1>5, <1>10, <3>1, <3>2
  <2>2. QED
    BY <2>1
<1>14. OnceAt(stack', client', n)
  <2>1. ASSUME NEW k \in Ids, k < id + 1
        PROVE  \/ client'[c].objects[k] \in {"none", "freed"}
               \/ n + 1 \in DOMAIN stack' /\ Goes(stack'[n + 1], c, k)
    <3>1. CASE k = id
      BY <1>1, <1>9, <1>10, <3>1 DEF kind
    <3>2. CASE k # id
      <4>1. k < id
        BY <1>5, <2>1, <3>2 DEF Ids
      <4>2. n + 1 \notin DOMAIN stack
        BY <1>3
      <4>3. client[c].objects[k] \in {"none", "freed"}
        BY <1>2, <1>3, <4>1, <4>2 DEF OnceAt
      <4>4. QED
        BY <1>1, <4>3
    <3>3. QED
      BY <3>1, <3>2
  <2>2. QED
    BY <1>5, <1>9, <2>1 DEF OnceAt
<1>15. ASSUME n + 1 \in DOMAIN stack', stack'[n + 1] = g, kind # "none"
       PROVE  OnceAt(stack', client', n + 1)
  <2> DEFINE m == n + 1
  <2>1. m - 1 = n /\ n \in DOMAIN stack' /\ stack'[m] = g /\ stack'[n] = f
    BY <1>3, <1>9, <1>15
  <2>2. client'[g.c].objects[g.id] \notin {"none", "freed"}
    BY <1>1, <1>7, <1>13, <1>15 DEF kind
  <2>3. f.c = g.c /\ f.at = "client_resources" /\ f.id = g.id + 1
    BY <1>5, <1>7
  <2>4. ASSUME NEW j \in DOMAIN stack', Goes(stack'[j], g.c, g.id) PROVE j = m
    <3>1. CASE j \in Below
      BY <1>7, <1>9, <1>10, <1>11, <2>4, <3>1
    <3>2. CASE j = n
      BY <1>9, <1>10, <2>4, <3>2
    <3>3. QED
      BY <1>9, <1>12, <3>1, <3>2
  <2> HIDE DEF m
  <2>5. OnceAt(stack', client', m)
    BY <1>7, <2>1, <2>2, <2>3, <2>4, OnceAgain
  <2>6. QED
    BY <2>5 DEF m
<1>16. ASSUME NEW i \in Below, stack[i].at \in Owners PROVE OnceAt(stack', client', i)
  <2>1. stack[i].c # c
    BY <1>11
  <2>2. \A j \in DOMAIN stack' \ Below : \A k : ~Goes(stack'[j], stack[i].c, k)
    BY <1>9, <1>10, <1>12, <2>1
  <2>3. \A j \in Below : j \in DOMAIN stack' /\ stack'[j] = stack[j]
    BY <1>9, <1>11
  <2>4. QED
    BY <1>1, <1>2, <1>3, <1>10, <1>16, <2>2, <2>3, OnceBelow
<1>17. DestroyedOnce'
  <2>1. ASSUME NEW i \in DOMAIN stack'
        PROVE  \/ i = n
               \/ i = n + 1 /\ stack'[n + 1] = g /\ kind # "none"
               \/ i \in Below /\ stack'[i] = stack[i]
    BY <1>9, <1>11, <1>12
  <2>2. QED
    BY <1>14, <1>15, <1>16, <2>1, NotOwner DEF DestroyedOnce
<1>18. FreedGo'
  <2>1. ASSUME NEW i \in DOMAIN stack, NEW d \in Clients, NEW k \in Ids, Removes(stack[i], d, k)
        PROVE  i \in DOMAIN stack' /\ Removes(stack'[i], d, k)
    <3>1. CASE i = n
      <4>1. k < id + 1
        BY <1>2, <1>5, <1>10, <2>1, <3>1 DEF Ids
      <4>2. QED
        BY <1>2, <1>9, <1>10, <2>1, <3>1, <4>1
    <3>2. CASE i # n
      BY <1>9, <2>1, <3>2
    <3>3. QED
      BY <3>1, <3>2
  <2>2. QED
    BY <1>1, <1>3, <2>1, FreedStay
<1>19. QED
  BY <1>4, <1>8, <1>17, <1>18, KeptOwners

(* An object is gone: whoever has destroyed it returns.                    *)
LEMMA PoppedOnce ==
  ASSUME ListenersInv, MemoryInv, Return, NEW at \in {"free_resource", "resource_destroyed"},
         At(at), NEW cl, client' = [client EXCEPT ![Top.c] = cl], NEW gone \in {"none", "freed"},
         cl.objects = [client[Top.c].objects EXCEPT ![Top.id] = gone]
  PROVE  DestroyedOnce'
<1> DEFINE c    == Top.c
           id   == Top.id
           n    == Len(stack)
           kind == client[c].objects
<1>1. /\ Top.at \in {"free_resource", "resource_destroyed"} /\ c \in Clients /\ id \in Ids
      /\ Top = stack[n] /\ OnceAt(stack, client, n) /\ StackShape /\ FramesInv /\ DestroyedOnce
      /\ DOMAIN stack = 1..n /\ n \in Nat
  BY AtOwner, StackNow DEF Owners, Resource
<1>2. /\ DOMAIN stack' = Below
      /\ \A i \in Below : i \in DOMAIN stack' /\ stack'[i] = stack[i]
  BY <1>1, Returned DEF Below
<1>3. /\ DOMAIN kind = Ids /\ client'[c].objects = [kind EXCEPT ![id] = gone]
      /\ \A d \in Clients : d # c => client'[d].objects = client[d].objects
  BY <1>1, OneClient DEF MemoryInv, Types, IsClient
<1>4. \A j \in DOMAIN stack : Goes(stack[j], c, id) => j = n
  <2>1. CASE Top.at = "free_resource"
    BY <1>1, <2>1 DEF OnceAt
  <2>2. CASE Top.at = "resource_destroyed"
    <3>1. n + 1 \notin DOMAIN stack
      BY <1>1
    <3>2. QED
      BY <1>1, <2>2, <3>1 DEF OnceAt
  <2>3. QED
    BY <1>1, <2>1, <2>2
<1>5. \A d, k : Goes(Top, d, k) => d = c /\ k = id
  BY DEF Goes
<1> HIDE DEF n, kind
<1>6. client'[c].objects[id] = gone
  <2>1. id \in DOMAIN kind
    BY <1>1, <1>3
  <2> DEFINE objects == client'[c].objects
  <2>2. objects = [kind EXCEPT ![id] = gone]
    BY <1>3
  <2> HIDE DEF objects
  <2>3. objects[id] = gone
    BY <2>1, <2>2
  <2>4. QED
    BY <2>3 DEF objects
<1>7. ASSUME NEW i \in Below, stack[i].at \in Owners PROVE OnceAt(stack', client', i)
  <2>1. stack[i].c \in Clients /\ i \in DOMAIN stack /\ i # n
    BY <1>1, <1>7, BelowOwner DEF n
  <2>2. ~Goes(stack[i], c, id)
    BY <1>4, <2>1
  <2>3. ASSUME NEW k \in Ids
        PROVE  \/ client'[stack[i].c].objects[k] = client[stack[i].c].objects[k]
               \/ /\ client'[stack[i].c].objects[k] \in {"none", "freed"}
                  /\ ~Goes(stack[i], stack[i].c, k)
    <3>1. CASE stack[i].c = c /\ k = id
      BY <1>6, <2>2, <3>1
    <3>2. CASE stack[i].c # c \/ k # id
      BY <1>1, <1>3, <2>1, <3>2 DEF kind
    <3>3. QED
      BY <3>1, <3>2
  <2>4. ASSUME NEW k \in Ids, Goes(Top, stack[i].c, k)
        PROVE  client'[stack[i].c].objects[k] \in {"none", "freed"}
    <3>1. stack[i].c = c /\ k = id
      BY <1>5, <2>4
    <3>2. QED
      BY <1>6, <3>1
  <2>5. QED
    BY <1>1, <1>2, <1>7, <2>3, <2>4, OnceBelow
<1>8. QED
  BY <1>2, <1>7, NotOwner DEF DestroyedOnce

LEMMA FreeResourceMemory ==
  ASSUME ListenersInv, MemoryInv, FreeResource
  PROVE  MemoryInv'
<1> DEFINE c    == Top.c
           id   == Top.id
           n    == Len(stack)
           kind == client[c].objects
           r    == [c |-> c, id |-> id]
           cl   == [client[c] EXCEPT !.display_resource = @ /\ id # Display,
                                     !.objects[id] = "freed"]
<1>1. /\ At("free_resource") /\ Return /\ UNCHANGED otherVars
      /\ display' = [display EXCEPT !.registries = Unlinked(@, r)]
      /\ client' = [client EXCEPT ![c].display_resource = @ /\ id # Display,
                                  ![c].objects[id] = "freed"]
  BY DEF FreeResource
<1>2. /\ Top.at = "free_resource" /\ c \in Clients /\ Lives(client[c]) /\ id \in Ids
      /\ Top = stack[n] /\ OnceAt(stack, client, n) /\ StackShape /\ FramesInv /\ FreedGo
      /\ IsClient(client[c], Played.socket_space) /\ Fresh(client[c], peer[c].last)
      /\ DisplayIs(client[c]) /\ DOMAIN stack = 1..n /\ n \in Nat
  BY <1>1, AtOwner, StackNow DEF Owners, Resource
<1>3. client' = [client EXCEPT ![c] = cl]
  BY <1>1, <1>2 DEF MemoryInv, Types
<1>4. /\ client' = [client EXCEPT ![c] = cl] /\ DOMAIN kind = Ids /\ kind \in [Ids -> Kinds]
  BY <1>2, <1>3 DEF IsClient
<1>5. /\ DOMAIN cl = DOMAIN client[c] /\ cl.life = client[c].life
      /\ cl.objects = [kind EXCEPT ![id] = "freed"]
      /\ cl.display_resource = (client[c].display_resource /\ id # Display)
      /\ cl.pending = client[c].pending /\ cl.to_server = client[c].to_server
      /\ cl.out = client[c].out /\ cl.to_client = client[c].to_client
  BY <1>2 DEF IsClient, ClientFields
<1> HIDE DEF cl
<1>6. kind[id] \notin {"none", "freed"} /\ n - 1 \in DOMAIN stack /\ Removes(stack[n - 1], c, id)
  <2>1. id < id + 1
    BY <1>2 DEF Ids
  <2>2. QED
    BY <1>2, <2>1 DEF OnceAt, Removes
<1>7. cl.objects \in [Ids -> Kinds] /\ IsClient(cl, Played.socket_space)
  <2>1. cl.objects \in [Ids -> Kinds]
    BY <1>2, <1>4, <1>5 DEF Kinds
  <2> HIDE DEF kind
  <2>2. QED
    BY <1>2, <1>5, <2>1 DEF IsClient
<1>8. Fresh(cl, peer[c].last)
  <2>1. ASSUME NEW k \in Ids
        PROVE  cl.objects[k] = "none" <=> kind[k] = "none"
    BY <1>4, <1>5, <1>6
  <2>2. \A q \in ToSet(cl.pending) \cup ToSet(cl.to_server) : q.new \in Ids
    BY <1>7 DEF IsClient, IsRequest
  <2>3. Fresh(client[c], peer[c].last) /\ kind = client[c].objects
    BY <1>2
  <2> HIDE DEF kind
  <2>4. \A k \in Ids : cl.objects[k] # "none" => k <= peer[c].last
    BY <2>1, <2>3 DEF Fresh
  <2>5. \A q \in ToSet(cl.pending) \cup ToSet(cl.to_server) : Creates(q) =>
          q.new <= peer[c].last /\ q.new # Display /\ cl.objects[q.new] = "none"
    BY <1>5, <2>1, <2>2, <2>3 DEF Fresh
  <2>6. QED
    BY <1>5, <2>3, <2>4, <2>5 DEF Fresh
<1>9. /\ DOMAIN client' = Clients /\ client'[c] = cl
      /\ \A d \in Clients : d # c => client'[d] = client[d]
      /\ \A d \in Clients : IsClient(client'[d], Played.socket_space)
  BY <1>2, <1>4, <1>7, OneClient DEF MemoryInv
<1>10. /\ DisplayFields \subseteq DOMAIN display' /\ display'.id = display.id
      /\ display'.client_list = display.client_list
      /\ display'.detached = display.detached /\ display'.globals = display.globals
      /\ display'.registries = Unlinked(display.registries, r)
  BY <1>1 DEF MemoryInv, Types, IsDisplay, DisplayFields
<1>11. /\ IsSequence(display'.registries) /\ IsInjective(display'.registries)
       /\ ToSet(display'.registries) = ToSet(display.registries) \ {r}
  BY <1>10, SequenceUnlinked
     DEF MemoryInv, Types, IsDisplay, UseInv, ObjectsInv, Registered
<1>12. IsDisplay(display')
  BY <1>10, <1>11 DEF MemoryInv, Types, IsDisplay
<1>13. OthersFine /\ UNCHANGED peer
  BY <1>1, OthersSame
<1>14. Types'
  BY <1>9, <1>12, <1>13, TypesKept DEF MemoryInv, Types
<1>15. FreshInv'
  BY <1>8, <1>9, <1>13 DEF MemoryInv, FreshInv
<1>16. Steady
  BY <1>5, <1>9, <1>10, <1>13 DEF Steady, Lives
<1>17. FramesInv' /\ LifeInv'
  BY <1>1, <1>16, PlaceReturn DEF MemoryInv
<1>18. DestroyedOnce'
  BY <1>1, <1>4, <1>5, PoppedOnce
<1>19. \A i \in DOMAIN stack : i # n => i \in DOMAIN stack' /\ stack'[i] = stack[i]
  BY <1>1, <1>2, Returned
<1> HIDE DEF n
<1>20. FreedGo'
  <2>1. \A i \in DOMAIN stack, d \in Clients, k \in Ids : Removes(stack[i], d, k) =>
          i \in DOMAIN stack' /\ Removes(stack'[i], d, k)
    BY <1>2, <1>19 DEF Removes
  <2>2. n - 1 # n
    BY <1>2
  <2>3. n - 1 \in DOMAIN stack' /\ Removes(stack'[n - 1], c, id)
    BY <1>6, <1>19, <2>2
  <2>4. ASSUME NEW d \in Clients, NEW k \in Ids, Lives(client'[d]), client'[d].objects[k] = "freed"
        PROVE  \/ Lives(client[d]) /\ client[d].objects[k] = "freed"
               \/ d = c /\ k = id
    BY <1>2, <1>4, <1>5, <1>9, <2>4
  <2>5. QED
    BY <1>2, <2>1, <2>3, <2>4, FreedStay
<1>21. Registered(display', client')
  <2>1. ASSUME NEW q \in ToSet(display'.registries)
        PROVE  /\ q = [c |-> q.c, id |-> q.id] /\ q.c \in Clients /\ q.id \in Ids
               /\ Lives(client'[q.c]) /\ client'[q.c].objects[q.id] = "registry"
    <3>1. /\ q = [c |-> q.c, id |-> q.id] /\ q.c \in Clients /\ q.id \in Ids
          /\ Lives(client[q.c]) /\ client[q.c].objects[q.id] = "registry"
      BY <1>11, <2>1 DEF MemoryInv, UseInv, ObjectsInv, Registered
    <3>2. q.c # c \/ q.id # id
      BY <1>11, <2>1, <3>1
    <3>3. Lives(client'[q.c])
      BY <1>16, <3>1 DEF Steady
    <3>4. CASE q.c # c
      BY <1>9, <3>1, <3>4
    <3>5. CASE q.c = c /\ q.id # id
      BY <1>4, <1>5, <1>9, <3>1, <3>3, <3>5
    <3>6. QED
      BY <3>2, <3>4, <3>1, <3>3, <3>5
  <2>2. QED
    BY <1>11, <2>1 DEF Registered
<1>22. DisplayIs(cl)
  <2>1. Display \in Ids
    BY BoundsAssumption DEF Display, Ids
  <2>2. cl.objects[Display] = IF id = Display THEN "freed" ELSE kind[Display]
    BY <1>4, <1>5, <2>1
  <2>3. QED
    BY <1>2, <1>5, <2>2 DEF DisplayIs
<1>23. \A d \in Clients : DisplayIs(client'[d])
  BY <1>9, <1>22 DEF MemoryInv, UseInv, ObjectsInv
<1>24. \A i \in DOMAIN stack' : Reaches(stack'[i], display')
  <2>1. \A i \in DOMAIN stack' : stack'[i].at \notin Innermost
    BY <1>1, <1>2, Returned DEF FramesInv
  <2>2. QED
    BY <2>1 DEF Reaches, Innermost
<1>25. QED
  BY <1>14, <1>15, <1>17, <1>18, <1>20, <1>21, <1>23, <1>24 DEF MemoryInv, UseInv, ObjectsInv

LEMMA DeleteIdMemory ==
  ASSUME ListenersInv, MemoryInv, DeleteId
  PROVE  MemoryInv'
<1> DEFINE c    == Top.c
           id   == Top.id
           n    == Len(stack)
           kind == client[c].objects
           told == IF client[c].display_resource
                   THEN handle_array(client[c], Event("delete_id", Display, id), FALSE)
                   ELSE client[c]
           cl   == [told EXCEPT !.objects[id] = "none"]
<1>1. /\ At("resource_destroyed") /\ Return /\ UNCHANGED <<display, otherVars>>
      /\ client' = [client EXCEPT ![Top.c] =
           [IF @.display_resource
            THEN wl_resource_queue_event(@, Event("delete_id", Display, Top.id)) ELSE @
            EXCEPT !.objects[Top.id] = "none"]]
  BY DEF DeleteId
<1>2. /\ Top.at = "resource_destroyed" /\ c \in Clients /\ Lives(client[c]) /\ id \in Ids
      /\ Top = stack[n] /\ OnceAt(stack, client, n) /\ StackShape /\ FramesInv /\ FreedGo
      /\ IsClient(client[c], Played.socket_space) /\ Fresh(client[c], peer[c].last)
      /\ DisplayIs(client[c])
  BY <1>1, AtOwner, StackNow DEF Owners, Resource
<1>3. client' = [client EXCEPT ![c] = cl]
  BY <1>1, <1>2 DEF MemoryInv, Types, wl_resource_queue_event
<1>4. /\ IsClient(told, Played.socket_space) /\ SameCore(told, client[c])
      /\ told.display_resource = client[c].display_resource
  <2>1. SameCore(client[c], client[c])
    BY DEF SameCore
  <2>2. QED
    BY <1>2, <2>1, Posted DEF MemoryInv
<1>5. DOMAIN kind = Ids /\ kind \in [Ids -> Kinds]
  BY <1>2 DEF IsClient
<1> HIDE DEF told
<1>6. /\ DOMAIN cl = DOMAIN told /\ cl.life = client[c].life
      /\ cl.objects = [kind EXCEPT ![id] = "none"]
      /\ cl.display_resource = client[c].display_resource
      /\ cl.pending = client[c].pending /\ cl.to_server = client[c].to_server
      /\ cl.out = told.out /\ cl.to_client = told.to_client
  BY <1>4 DEF IsClient, ClientFields, SameCore
<1> HIDE DEF cl
<1>7. IsClient(cl, Played.socket_space)
  <2>1. cl.objects \in [Ids -> Kinds]
    BY <1>2, <1>5, <1>6 DEF Kinds
  <2>2. cl.life = told.life /\ cl.pending = told.pending /\ cl.to_server = told.to_server
    BY <1>4, <1>6 DEF SameCore
  <2> HIDE DEF kind
  <2>3. QED
    BY <1>4, <1>6, <2>1, <2>2 DEF IsClient
<1>8. \A k \in Ids : cl.objects[k] = kind[k] \/ cl.objects[k] = "none"
  BY <1>5, <1>6
<1>9. Fresh(cl, peer[c].last)
  <2>1. \A q \in ToSet(cl.pending) \cup ToSet(cl.to_server) : q.new \in Ids
    BY <1>7 DEF IsClient, IsRequest
  <2> HIDE DEF kind
  <2>2. QED
    BY <1>2, <1>6, <1>8, <2>1 DEF Fresh, kind
<1>10. /\ DOMAIN client' = Clients /\ client'[c] = cl
       /\ \A d \in Clients : d # c => client'[d] = client[d]
       /\ \A d \in Clients : IsClient(client'[d], Played.socket_space)
  BY <1>2, <1>3, <1>7, OneClient DEF MemoryInv
<1>11. OthersFine /\ UNCHANGED peer /\ UNCHANGED display
  BY <1>1, OthersSame
<1>12. Types' /\ FreshInv'
  BY <1>9, <1>10, <1>11, TypesKept DEF MemoryInv, Types, FreshInv
<1>13. Steady
  BY <1>6, <1>10, <1>11 DEF Steady, Lives
<1>14. FramesInv' /\ LifeInv' /\ \A i \in DOMAIN stack' : Reaches(stack'[i], display)
  BY <1>1, <1>13, PlaceReturn DEF MemoryInv
<1>15. DestroyedOnce'
  BY <1>1, <1>3, <1>6, PoppedOnce
<1>16. FreedGo'
  <2>1. \A i \in DOMAIN stack : i # n => i \in DOMAIN stack' /\ stack'[i] = stack[i]
    BY <1>1, <1>2, Returned
  <2>2. \A d, k : Removes(Top, d, k) => d = c /\ k = id
    BY <1>2 DEF Removes
  <2>3. client'[c].objects[id] = "none"
    BY <1>2, <1>5, <1>6, <1>10
  <2>4. ASSUME NEW d \in Clients, NEW k \in Ids, client'[d].objects[k] = "freed"
        PROVE  client[d].objects[k] = "freed"
    BY <1>8, <1>10, <2>4
  <2>5. \A i \in DOMAIN stack, d \in Clients, k \in Ids :
          Removes(stack[i], d, k) /\ client'[d].objects[k] = "freed" =>
            i \in DOMAIN stack' /\ Removes(stack'[i], d, k)
    BY <1>2, <2>1, <2>2, <2>3
  <2>6. QED
    BY <1>2, <1>13, <2>4, <2>5, FreedStay DEF Steady
<1>17. id # Display /\ kind[id] # "registry"
  BY <1>2 DEF OnceAt
<1>18. Registered(display', client')
  <2>1. ASSUME NEW q \in ToSet(display.registries)
        PROVE  Lives(client'[q.c]) /\ client'[q.c].objects[q.id] = "registry"
    <3>1. /\ q.c \in Clients /\ q.id \in Ids
          /\ Lives(client[q.c]) /\ client[q.c].objects[q.id] = "registry"
      BY <2>1 DEF MemoryInv, UseInv, ObjectsInv, Registered
    <3>2. q.c # c \/ q.id # id
      BY <1>17, <3>1
    <3>3. Lives(client'[q.c])
      BY <1>13, <3>1 DEF Steady
    <3>4. QED
      BY <1>5, <1>6, <1>10, <3>1, <3>2, <3>3
  <2>2. QED
    BY <1>11, <2>1 DEF MemoryInv, UseInv, ObjectsInv, Registered
<1>19. \A d \in Clients : DisplayIs(client'[d])
  <2>1. Display \in Ids
    BY BoundsAssumption DEF Display, Ids
  <2>2. cl.objects[Display] = kind[Display]
    BY <1>5, <1>6, <1>17, <2>1
  <2>3. DisplayIs(cl)
    BY <1>2, <1>6, <2>2 DEF DisplayIs
  <2>4. QED
    BY <1>10, <2>3 DEF MemoryInv, UseInv, ObjectsInv
<1>20. \A i \in DOMAIN stack' : Reaches(stack'[i], display')
  BY <1>11, <1>14
<1>21. QED
  BY <1>12, <1>14, <1>15, <1>16, <1>18, <1>19, <1>20 DEF MemoryInv, UseInv, ObjectsInv

-----------------------------------------------------------------------------
(* The end of a client: nobody knows it any more.                          *)

LEMMA NobodyReaches ==
  ASSUME StackShape, FramesInv, Return
  PROVE  /\ \A i \in DOMAIN stack' : i \in Below /\ i \in DOMAIN stack /\ stack'[i] = stack[i]
                                       /\ stack'[i].at \notin Innermost
         /\ \A i \in Below : i \in DOMAIN stack'
         /\ \A i \in DOMAIN stack' : Reaches(stack'[i], display')
<1>1. \A i \in DOMAIN stack' : i \in Below /\ i \in DOMAIN stack /\ stack'[i] = stack[i]
                                 /\ stack'[i].at \notin Innermost
  BY Returned, StackNow DEF FramesInv, Below
<1>2. \A i \in Below : i \in DOMAIN stack'
  BY Returned DEF Below
<1>3. \A i \in DOMAIN stack' : Reaches(stack'[i], display')
  BY <1>1 DEF Reaches, Innermost
<1>4. QED
  BY <1>1, <1>2, <1>3

LEMMA FreeClientMemory ==
  ASSUME ListenersInv, MemoryInv, FreeClient
  PROVE  MemoryInv'
<1> DEFINE c  == Top.c
           n  == Len(stack)
           cl == [client[c] EXCEPT !.life = "freed"]
<1>1. /\ At("client_resources") /\ Top.id \notin Ids /\ Return /\ UNCHANGED otherVars
      /\ client' = [client EXCEPT ![c].life = "freed"]
      /\ display' = [display EXCEPT !.client_list = Unlinked(@, c),
                                    !.detached = Unlinked(@, c)]
  BY DEF FreeClient
<1>2. /\ Top.at = "client_resources" /\ c \in Clients /\ Lives(client[c]) /\ Known(Top)
      /\ Top = stack[n] /\ StackShape /\ FramesInv
      /\ IsClient(client[c], Played.socket_space) /\ Fresh(client[c], peer[c].last)
      /\ \A i \in Below : i \in DOMAIN stack /\ Apart(stack[i], c)
  BY <1>1, AtDestroyer DEF Destroyers
<1>3. /\ OnceAt(stack, client, n) /\ DestroyedOnce /\ FreedGo /\ DisplayIs(client[c])
      /\ DOMAIN stack = 1..n /\ n \in Nat
  BY <1>1, <1>2, AtOwner, StackNow DEF Owners
<1>4. client' = [client EXCEPT ![c] = cl]
  BY <1>1, <1>2 DEF MemoryInv, Types
<1>5. /\ DOMAIN cl = DOMAIN client[c] /\ cl.life = "freed" /\ cl.objects = client[c].objects
      /\ cl.display_resource = client[c].display_resource
      /\ cl.pending = client[c].pending /\ cl.to_server = client[c].to_server
      /\ cl.out = client[c].out /\ cl.to_client = client[c].to_client
  BY <1>2 DEF IsClient, ClientFields
<1> HIDE DEF cl
<1>6. IsClient(cl, Played.socket_space) /\ Fresh(cl, peer[c].last) /\ DisplayIs(cl)
  BY <1>2, <1>3, <1>5 DEF IsClient, Fresh, DisplayIs
<1>7. /\ DOMAIN client' = Clients /\ client'[c] = cl
      /\ \A d \in Clients : d # c => client'[d] = client[d]
      /\ \A d \in Clients : IsClient(client'[d], Played.socket_space)
  BY <1>2, <1>4, <1>6, OneClient DEF MemoryInv
<1>8. /\ DisplayFields \subseteq DOMAIN display' /\ display'.id = display.id
      /\ display'.client_list = Unlinked(display.client_list, c)
      /\ display'.detached = Unlinked(display.detached, c)
      /\ display'.globals = display.globals /\ display'.registries = display.registries
  BY <1>1 DEF MemoryInv, Types, IsDisplay, DisplayFields
<1>9. /\ IsSequence(display'.client_list) /\ IsInjective(display'.client_list)
      /\ ToSet(display'.client_list) = ToSet(display.client_list) \ {c}
      /\ IsSequence(display'.detached) /\ IsInjective(display'.detached)
      /\ ToSet(display'.detached) = ToSet(display.detached) \ {c}
  BY <1>8, SequenceUnlinked DEF MemoryInv, Types, IsDisplay, UseInv, LifeInv, Members
<1>10. OthersFine /\ UNCHANGED peer
  BY <1>1, OthersSame
<1>11. Types'
  BY <1>7, <1>8, <1>9, <1>10, TypesKept DEF MemoryInv, Types, IsDisplay
<1>12. FreshInv'
  BY <1>6, <1>7, <1>10 DEF MemoryInv, FreshInv
<1>13. FramesInv' /\ Alone'
  BY <1>1, <1>2, FramesReturn, AloneReturn DEF MemoryInv, UseInv, LifeInv
<1>14. /\ \A i \in DOMAIN stack' : /\ i \in Below /\ i \in DOMAIN stack /\ stack'[i] = stack[i]
                                   /\ stack'[i].at \notin Innermost
       /\ \A i \in Below : i \in DOMAIN stack'
       /\ \A i \in DOMAIN stack' : Reaches(stack'[i], display')
  BY <1>1, <1>2, NobodyReaches
<1>15. ASSUME NEW i \in DOMAIN stack' PROVE Alive(stack'[i], client', peer')
  <2> DEFINE f == stack[i]
  <2>1. /\ stack'[i] = f /\ Known(f) /\ Alive(f, client, peer) /\ Apart(f, c)
        /\ f.at \notin Innermost
    BY <1>2, <1>14 DEF MemoryInv, UseInv, FramesInv, LifeInv
  <2> HIDE DEF f
  <2>2. f.at # "flush" /\ f.at # "client_create"
    BY <2>1 DEF Innermost
  <2>3. f.c \in Clients => Lives(client'[f.c])
    BY <1>7, <2>1, <2>2 DEF Alive, Apart
  <2>4. f.at = "flush_next" /\ f.next # HEAD => Lives(client'[f.next]) /\ f.next # f.c
    BY <1>7, <2>1 DEF Alive, Apart, Known
  <2>5. f.at = "dispatch" => \A r \in f.ready : r.source = "socket" =>
          r = [source |-> "socket", c |-> r.c] /\ peer'[r.c].connects
    BY <1>10, <2>1 DEF Alive
  <2>6. QED
    BY <2>1, <2>2, <2>3, <2>4, <2>5 DEF Alive
<1>16. Members(display', client')
  BY <1>7, <1>9 DEF MemoryInv, UseInv, LifeInv, Members
<1>17. \A d \in Clients : peer'[d].connects => client'[d].life = "none"
  <2>1. ~peer[c].connects
    BY <1>2 DEF MemoryInv, UseInv, LifeInv, Lives
  <2>2. QED
    BY <1>7, <1>10, <2>1 DEF MemoryInv, UseInv, LifeInv
<1>18. LifeInv'
  BY <1>13, <1>15, <1>16, <1>17 DEF LifeInv
<1>19. \A d \in Clients : client'[d].objects = client[d].objects
  BY <1>5, <1>7
<1>20. \A d, k : /\ ~Goes(Top, d, k)
                 /\ Removes(Top, d, k) => d = c
  BY <1>2 DEF Goes, Removes
<1>21. ASSUME NEW k \in Ids PROVE client[c].objects[k] \in {"none", "freed"}
  <2>1. k < Top.id
    BY <1>1, <1>2, BoundsAssumption DEF Known, Ids
  <2>2. n + 1 \notin DOMAIN stack
    BY <1>3
  <2>3. QED
    BY <1>2, <1>3, <2>1, <2>2 DEF OnceAt
<1> HIDE DEF n
<1>22. DestroyedOnce'
  <2>1. ASSUME NEW i \in Below, stack[i].at \in Owners PROVE OnceAt(stack', client', i)
    <3>1. stack[i].c \in Clients
      BY <1>2, <2>1, BelowOwner
    <3>2. \A j \in Below : j \in DOMAIN stack' /\ stack'[j] = stack[j]
      BY <1>14
    <3>3. QED
      BY <1>2, <1>3, <1>14, <1>19, <1>20, <2>1, <3>1, <3>2, OnceBelow
  <2>2. QED
    BY <1>14, <2>1, NotOwner DEF DestroyedOnce
<1>23. FreedGo'
  <2>1. ASSUME NEW d \in Clients, NEW k \in Ids, Lives(client'[d]), client'[d].objects[k] = "freed"
        PROVE  \E i \in DOMAIN stack' : Removes(stack'[i], d, k)
    <3>1. d # c
      BY <1>5, <1>7, <2>1 DEF Lives
    <3>2. PICK i \in DOMAIN stack : Removes(stack[i], d, k)
      BY <1>3, <1>7, <2>1, <3>1 DEF FreedGo
    <3>3. i \in Below
      BY <1>2, <1>20, <3>1, <3>2 DEF Below, n
    <3>4. QED
      BY <1>14, <3>2, <3>3
  <2>2. QED
    BY <2>1 DEF FreedGo
<1>24. Registered(display', client')
  <2>1. ASSUME NEW r \in ToSet(display.registries)
        PROVE  Lives(client'[r.c]) /\ client'[r.c].objects[r.id] = "registry"
    <3>1. /\ r.c \in Clients /\ r.id \in Ids
          /\ Lives(client[r.c]) /\ client[r.c].objects[r.id] = "registry"
      BY <2>1 DEF MemoryInv, UseInv, ObjectsInv, Registered
    <3>2. r.c # c
      BY <1>21, <3>1
    <3>3. QED
      BY <1>7, <3>1, <3>2
  <2>2. QED
    BY <1>8, <2>1 DEF MemoryInv, UseInv, ObjectsInv, Registered
<1>25. \A d \in Clients : DisplayIs(client'[d])
  BY <1>6, <1>7 DEF MemoryInv, UseInv, ObjectsInv
<1>26. QED
  BY <1>11, <1>12, <1>13, <1>14, <1>18, <1>22, <1>23, <1>24, <1>25
     DEF MemoryInv, UseInv, ObjectsInv

LEMMA DestroyDetachedMemory ==
  ASSUME ListenersInv, MemoryInv, DestroyDetached
  PROVE  MemoryInv'
<1> DEFINE c   == Head(display.detached)
           f   == Frame("client_destroy", c)
           end == Frame("end", NULL)
<1>1. /\ At("destroy_detached") /\ UNCHANGED <<display, client, otherVars>>
      /\ \/ Goto(end)
         \/ display.detached # << >> /\ Call(f, Top)
  BY DEF DestroyDetached
<1>2. /\ Top.at = "destroy_detached" /\ StackShape /\ FramesInv /\ "destroy_detached" \in Base
      /\ Known(Top) /\ Suits(Top)
  BY <1>1, TopAt, TopSuits DEF Base, MemoryInv
<1>3. Kept
  BY <1>1, OthersSame, KeptAll
<1>4. /\ Top.at \notin Owners \cup OfLoop \cup Innermost \cup Destroyers /\ Sound(Top)
      /\ Top.c = NULL
  BY <1>2 DEF Owners, OfLoop, Innermost, Destroyers, Resource, Base, Sound, Known, ForNone
<1>5. Sound(end) /\ end.at \notin OfLoop
  BY <1>2, LoopFrame, AtShallow DEF Base, OfLoop
<1>6. CASE Goto(end)
  <2> HIDE DEF end
  <2>1. QED
    BY <1>3, <1>4, <1>5, <1>6, MemoryGoto
<1>7. CASE display.detached # << >> /\ Call(f, Top)
  <2>1. c \in Clients /\ Lives(client[c])
    BY <1>7, MembersAre, SequenceTail
  <2>2. /\ Known(f) /\ Alive(f, client, peer) /\ Reaches(f, display)
        /\ f.at = "client_destroy" /\ f.c = c /\ f.at \notin OfLoop
    BY <2>1, SimpleFrame DEF Simple, Destroyers, Resource, Frame
  <2> HIDE DEF f, c
  <2>3. Sound(f)
    BY <1>2, <2>2, AtShallow DEF Owners, Resource
  <2>4. Together(Top, f)
    BY <1>2, <1>4, <2>1, <2>2, ClientsAssumption DEF Together, Apart
  <2>5. QED
    BY <1>3, <1>4, <1>7, <2>2, <2>3, <2>4, MemoryCall
<1>8. QED
  BY <1>1, <1>6, <1>7

-----------------------------------------------------------------------------
(* The run is over.                                                        *)

LEMMA ConcatInjective ==
  ASSUME NEW s, IsSequence(s), NEW t, IsSequence(t), IsInjective(s), IsInjective(t),
         ToSet(s) \cap ToSet(t) = {}
  PROVE  IsInjective(s \o t)
<1> DEFINE u == s \o t
           m == Len(s)
           n == Len(t)
<1>1. /\ DOMAIN s = 1..m /\ DOMAIN t = 1..n /\ m \in Nat /\ n \in Nat
  BY SequenceIs
<1>2. /\ DOMAIN u = 1..m + n
      /\ \A i \in 1..m + n : u[i] = IF i <= m THEN s[i] ELSE t[i - m]
  BY SequenceConcat
<1> HIDE DEF u, m, n
<1>3. ASSUME NEW i \in 1..m + n
      PROVE  \/ i <= m /\ i \in 1..m /\ u[i] = s[i] /\ u[i] \in ToSet(s)
             \/ i > m /\ i - m \in 1..n /\ u[i] = t[i - m] /\ u[i] \in ToSet(t)
  <2>1. CASE i <= m
    <3>1. i \in 1..m
      BY <1>1, <2>1
    <3>2. QED
      BY <1>1, <1>2, <2>1, <3>1 DEF ToSet
  <2>2. CASE i > m
    <3>1. i - m \in 1..n /\ ~(i <= m)
      BY <1>1, <2>2
    <3>2. QED
      BY <1>1, <1>2, <2>2, <3>1 DEF ToSet
  <2>3. QED
    BY <1>1, <2>1, <2>2
<1>4. ASSUME NEW i \in 1..m + n, NEW j \in 1..m + n, u[i] = u[j] PROVE i = j
  <2>1. CASE i <= m /\ j <= m
    BY <1>1, <1>3, <1>4, <2>1 DEF IsInjective
  <2>2. CASE i > m /\ j > m
    <3>1. i - m \in 1..n /\ j - m \in 1..n /\ t[i - m] = t[j - m]
      BY <1>1, <1>3, <1>4, <2>2
    <3>2. i - m = j - m
      BY <1>1, <3>1 DEF IsInjective
    <3>3. QED
      BY <1>1, <3>2
  <2>3. QED
    BY <1>1, <1>3, <1>4, <2>1, <2>2
<1>5. QED
  BY <1>2, <1>4 DEF IsInjective, u

LEMMA DestroyClientsMemory ==
  ASSUME ListenersInv, MemoryInv, wl_display_destroy_clients
  PROVE  MemoryInv'
<1> DEFINE f    == Frame("destroy_detached", NULL)
           both == display.detached \o display.client_list
<1>1. /\ At("destroy_clients") /\ Goto(f) /\ UNCHANGED <<client, otherVars>>
      /\ display' = [display EXCEPT !.detached = @ \o display.client_list, !.client_list = << >>]
  BY DEF wl_display_destroy_clients
<1>2. Top.at = "destroy_clients" /\ "destroy_clients" \in Base /\ StackShape /\ FramesInv
  BY <1>1, TopAt DEF Base
<1>3. /\ DisplayFields \subseteq DOMAIN display' /\ display'.id = display.id
      /\ display'.client_list = << >> /\ display'.detached = both
      /\ display'.globals = display.globals /\ display'.registries = display.registries
  BY <1>1 DEF MemoryInv, Types, IsDisplay, DisplayFields
<1>4. /\ IsSequence(display.detached) /\ IsSequence(display.client_list)
      /\ IsInjective(display.detached) /\ IsInjective(display.client_list)
      /\ ToSet(display.client_list) \cap ToSet(display.detached) = {}
      /\ \A c \in ToSet(display.client_list) \cup ToSet(display.detached) :
           c \in Clients /\ Lives(client[c])
  BY DEF MemoryInv, Types, IsDisplay, UseInv, LifeInv, Members
<1>5. /\ IsSequence(both)
      /\ ToSet(both) = ToSet(display.detached) \cup ToSet(display.client_list)
      /\ IsInjective(both)
  BY <1>4, SequenceConcat, ConcatInjective
<1> HIDE DEF both
<1>6. Members(display', client')
  BY <1>1, <1>3, <1>4, <1>5, EmptySequence DEF Members
<1>7. IsDisplay(display') /\ OthersFine /\ UNCHANGED <<client, peer>>
  BY <1>1, <1>3, <1>5, EmptySequence, OthersSame DEF MemoryInv, Types, IsDisplay
<1>8. Types' /\ FreshInv'
  <2>1. Types'
    BY <1>7, TypesKept DEF MemoryInv, Types
  <2>2. FreshInv'
    BY <1>7 DEF MemoryInv, FreshInv
  <2>3. QED
    BY <2>1, <2>2
<1>9. /\ Known(f) /\ Alive(f, client, peer) /\ Reaches(f, display)
      /\ f.at \notin OfLoop \cup Owners \cup Innermost
  BY LoopFrame DEF Base
<1> HIDE DEF f
<1>10. FramesInv' /\ Alone'
  BY <1>1, <1>2, <1>9, FramesGoto, ShallowJoins, AloneGoto DEF MemoryInv, UseInv, LifeInv
<1>11. /\ DOMAIN stack' = DOMAIN stack /\ stack'[Len(stack)] = f
       /\ \A i \in DOMAIN stack : i # Len(stack) => stack'[i] = stack[i]
  BY <1>1, <1>2, Gone
<1>12. /\ \A i \in DOMAIN stack : stack[i].at \notin Owners
       /\ \A c \in Clients : \A k \in Ids : Lives(client[c]) => client[c].objects[k] # "freed"
  BY <1>2, ShallowStack
<1>13. LifeInv'
  <2>1. \A i \in DOMAIN stack' : Alive(stack'[i], client, peer)
    BY <1>9, <1>11 DEF MemoryInv, UseInv, LifeInv
  <2>2. QED
    BY <1>6, <1>7, <1>10, <2>1 DEF MemoryInv, UseInv, LifeInv
<1>14. DestroyedOnce' /\ FreedGo'
  <2>1. \A i \in DOMAIN stack' : stack'[i].at \notin Owners
    BY <1>9, <1>11, <1>12
  <2>2. QED
    BY <1>7, <1>12, <2>1, NotOwner DEF DestroyedOnce, FreedGo
<1>15. Registered(display', client') /\ \A c \in Clients : DisplayIs(client'[c])
  BY <1>3, <1>7 DEF MemoryInv, UseInv, ObjectsInv, Registered
<1>16. \A i \in DOMAIN stack' : Reaches(stack'[i], display')
  BY <1>3, <1>9, <1>11 DEF MemoryInv, UseInv, ObjectsInv, Reaches
<1>17. QED
  BY <1>8, <1>10, <1>13, <1>14, <1>15, <1>16 DEF MemoryInv, UseInv, ObjectsInv

-----------------------------------------------------------------------------
(* All together.                                                           *)

LEMMA MemoryInit == Init => MemoryInv
<1> SUFFICES ASSUME Init PROVE MemoryInv
  OBVIOUS
<1> DEFINE f  == Frame("main", NULL)
           cl == [NewClient(<< >>, TRUE) EXCEPT !.life = "none"]
<1>1. /\ scenario \in DOMAIN Scenarios /\ stack = <<f>>
      /\ client = [c \in Clients |-> cl] /\ terminator = "idle" /\ budget = Played.budget
      /\ peer = [c \in Clients |-> [connects |-> c \in DOMAIN Played.programs, got |-> << >>,
                                    last |-> Display,
                                    program |-> IF c \in DOMAIN Played.programs
                                                THEN Played.programs[c] ELSE << >>]]
  BY DEF Init
<1>2. /\ display.id = Len(Played.globals) + 1 /\ DisplayFields \subseteq DOMAIN display
      /\ display.globals = [i \in DOMAIN Played.globals |-> Global(i, Played.globals[i])]
      /\ display.registries = << >> /\ display.client_list = << >> /\ display.detached = << >>
  BY DEF Init, DisplayFields
<1>3. /\ Played.globals \in Seq(STRING) /\ Played.socket_space \in Nat /\ Played.budget \in Nat
  BY <1>1, ScenariosAssumption DEF Played
<1>4. /\ Len(<< >>) = 0 /\ IsSequence(<< >>) /\ ToSet(<< >>) = {} /\ DOMAIN << >> = {}
      /\ IsInjective(<< >>)
  BY EmptySequence
<1>5. Display \in Ids /\ OutSpace \in Nat
  BY BoundsAssumption DEF Display, Ids
<1>6. /\ cl.life = "none" /\ cl.pending = << >> /\ cl.to_server = << >> /\ cl.display_resource
      /\ cl.out = << >> /\ cl.to_client = << >> /\ DOMAIN cl = ClientFields
      /\ cl.objects = [k \in Ids |-> IF k = Display THEN "display" ELSE "none"]
  BY DEF NewClient, ClientFields
<1> HIDE DEF cl
<1>7. cl.objects \in [Ids -> Kinds]
  BY <1>6 DEF Kinds
<1>8. IsClient(cl, Played.socket_space)
  BY <1>3, <1>4, <1>5, <1>6, <1>7 DEF IsClient
<1>9. /\ DOMAIN client = Clients /\ \A c \in Clients : client[c] = cl
      /\ DOMAIN peer = Clients /\ \A c \in Clients : IsPeer(peer[c]) /\ peer[c].last = Display
  BY <1>1, <1>4, <1>5 DEF IsPeer
<1>10. IsSequence(display.globals) /\ display.id \in Nat
  <2> DEFINE m == Len(Played.globals)
             s == [i \in 1..m |-> Global(i, Played.globals[i])]
             S == {s[i] : i \in 1..m}
  <2>1. m \in Nat /\ DOMAIN Played.globals = 1..m
    BY <1>3, LenProperties
  <2>2. display.globals = s /\ display.id = m + 1
    BY <1>2, <2>1
  <2>3. s \in [1..m -> S]
    OBVIOUS
  <2> HIDE DEF s, S, m
  <2>4. s \in Seq(S)
    BY <2>1, <2>3, SeqDef
  <2>5. QED
    BY <2>1, <2>2, <2>4 DEF IsSequence
<1>11. Types
  BY <1>1, <1>2, <1>3, <1>4, <1>8, <1>9, <1>10 DEF Types, IsDisplay
<1>12. Fresh(cl, Display)
  BY <1>4, <1>5, <1>6 DEF Fresh, NewDiffer, Ids, Display
<1>13. /\ DOMAIN stack = {1} /\ stack[1] = f
  BY <1>1
<1>14. /\ Known(f) /\ Alive(f, client, peer) /\ Reaches(f, display)
       /\ f.at \notin OfLoop \cup Owners \cup Innermost
  BY LoopFrame DEF Base
<1> HIDE DEF f
<1>15. FramesInv
  BY <1>13, <1>14 DEF FramesInv
<1>16. Alone
  BY <1>13 DEF Alone
<1>17. LifeInv
  BY <1>2, <1>4, <1>6, <1>9, <1>13, <1>14, <1>16 DEF LifeInv, Members
<1>18. DestroyedOnce
  BY <1>13, <1>14, NotOwner DEF DestroyedOnce
<1>19. FreedGo /\ DisplayIs(cl)
  BY <1>5, <1>6, <1>9 DEF FreedGo, Lives, DisplayIs
<1>20. ObjectsInv
  BY <1>2, <1>4, <1>9, <1>13, <1>14, <1>18, <1>19 DEF ObjectsInv, Registered
<1>21. FreshInv
  BY <1>9, <1>12 DEF FreshInv
<1>22. QED
  BY <1>11, <1>15, <1>17, <1>20, <1>21 DEF MemoryInv, UseInv

LEMMA MemoryStep ==
  ASSUME ListenersInv, MemoryInv, [Next]_vars
  PROVE  MemoryInv'
<1>1. CASE UNCHANGED vars
  <2>1. OthersFine /\ UNCHANGED <<client, display, peer, stack>>
    BY <1>1 DEF vars, OthersFine, MemoryInv, Types
  <2>2. QED
    BY <2>1, KeptAll, MemorySame
<1>2. CASE Next
  <2>1. CASE \/ wl_display_run \/ LoopTest \/ FlushClient \/ FlushNext \/ Poll \/ DispatchSource
             \/ DispatchEnds
    BY <2>1, RunMemory, LoopTestMemory, FlushMemory, FlushNextMemory, PollMemory,
       DispatchSourceMemory, DispatchEndsMemory
  <2>2. CASE \/ wl_client_create \/ wl_priv_signal_emit \/ wl_client_connection_data
             \/ RejectRequest \/ display_get_registry \/ display_sync \/ registry_bind
             \/ HandleDestroy \/ RequestsEnd
    BY <2>2, CreateMemory, EmitMemory, ReadMemory, RejectMemory, GetRegistryMemory, SyncMemory,
       BindMemory, HandleDestroyMemory, RequestsEndMemory
  <2>3. CASE Announce \/ AnnouncementEnds \/ TellGlobal
    BY <2>3, AnnounceMemory, AnnouncementEndsMemory, TellMemory
  <2>4. CASE \/ wl_resource_destroy \/ DeleteId \/ destroy_resource \/ FreeResource
             \/ wl_client_destroy \/ FlushLast \/ EachResource \/ FreeClient
             \/ wl_display_destroy_clients \/ DestroyDetached
    BY <2>4, WlResourceDestroyMemory, DeleteIdMemory, DestroyResourceMemory, FreeResourceMemory,
       WlClientDestroyMemory, FlushLastMemory, EachResourceMemory, FreeClientMemory,
       DestroyClientsMemory, DestroyDetachedMemory
  <2>5. CASE CallGlobal \/ CallPost \/ CallDestroy \/ CallListen \/ HandlerReturns
    BY <2>5, CallGlobalMemory, CallPostMemory, CallDestroyMemory, CallListenMemory,
       HandlerReturnsMemory
  <2>6. CASE \/ Terminate \/ TerminateWakes
             \/ \E c \in Clients : PeerSends(c) \/ PeerReads(c)
    BY <2>6, TerminateMemory, PeerSendsMemory, PeerReadsMemory
  <2>7. QED
    BY <1>2, <2>1, <2>2, <2>3, <2>4, <2>5, <2>6 DEF Next, ServerStep
<1>3. QED
  BY <1>1, <1>2

LEMMA MemoryInvariance == Spec => [](ListenersInv /\ MemoryInv)
<1>1. Init => ListenersInv /\ MemoryInv
  BY ListenersInit, MemoryInit
<1>2. ListenersInv /\ MemoryInv /\ [Next]_vars => (ListenersInv /\ MemoryInv)'
  BY ListenersStep, MemoryStep
<1>3. QED
  BY <1>1, <1>2, PTL DEF Spec

LEMMA TypesFollow == MemoryInv => TypeOK
<1> SUFFICES ASSUME MemoryInv PROVE TypeOK
  OBVIOUS
<1>1. ASSUME NEW c \in Clients
      PROVE  /\ client[c].life \in {"none", "live", "dying", "freed"}
             /\ client[c].objects \in [Ids -> {"none", "display", "registry", "object", "freed"}]
             /\ Len(client[c].out) <= OutSpace
             /\ Len(client[c].to_client) <= Played.socket_space
  BY DEF MemoryInv, Types, IsClient, Kinds
<1>2. ToSet(display.client_list \o display.detached) \subseteq Clients
  <2>1. ToSet(display.client_list \o display.detached) =
          ToSet(display.client_list) \cup ToSet(display.detached)
    BY SequenceConcat DEF MemoryInv, Types, IsDisplay
  <2>2. QED
    BY <2>1, MembersAre
<1>3. QED
  BY <1>1, <1>2 DEF TypeOK, MemoryInv, Types, IsDisplay

LEMMA MemoryFollows == MemoryInv => NothingUsedAfterFree
<1> SUFFICES ASSUME MemoryInv PROVE NothingUsedAfterFree
  OBVIOUS
<1>1. \A c : InUse(c) <=> Lives(client[c])
  BY DEF InUse, Lives
<1>2. \A r \in ToSet(display.registries) :
        InUse(r.c) /\ client[r.c].objects[r.id] = "registry"
  BY <1>1 DEF MemoryInv, UseInv, ObjectsInv, Registered
<1>3. \A c \in ToSet(display.client_list \o display.detached) : InUse(c)
  <2>1. ToSet(display.client_list \o display.detached) =
          ToSet(display.client_list) \cup ToSet(display.detached)
    BY SequenceConcat DEF MemoryInv, Types, IsDisplay
  <2>2. QED
    BY <1>1, <2>1, MembersAre
<1>4. \A c \in Clients : InUse(c) /\ client[c].display_resource =>
        client[c].objects[Display] = "display"
  BY DEF MemoryInv, UseInv, ObjectsInv, DisplayIs
<1>5. ASSUME NEW i \in DOMAIN stack
      PROVE  /\ stack[i].c \in Clients => InUse(stack[i].c) \/ stack[i].at = "client_create"
             /\ "next" \in DOMAIN stack[i] => stack[i].next = HEAD \/ InUse(stack[i].next)
             /\ stack[i].at = "announce" => ToSet(stack[i].rest) \subseteq ToSet(display.registries)
             /\ stack[i].at = "tell" => ToSet(stack[i].rest) \subseteq ToSet(display.globals)
  <2>1. Known(stack[i]) /\ Alive(stack[i], client, peer) /\ Reaches(stack[i], display)
    BY DEF MemoryInv, UseInv, FramesInv, LifeInv, ObjectsInv
  <2>2. QED
    BY <1>1, <2>1 DEF Known, Alive, Reaches
<1>6. ASSUME NEW i \in DOMAIN stack, stack[i].at \in {"destroy_resource", "free_resource"}
      PROVE  /\ client[stack[i].c].objects[stack[i].id] \notin {"none", "freed"}
             /\ \A j \in DOMAIN stack \ {i} :
                  \/ stack[j].at \notin {"destroy_resource", "free_resource"}
                  \/ <<stack[j].c, stack[j].id>> # <<stack[i].c, stack[i].id>>
  <2>1. /\ client[stack[i].c].objects[stack[i].id] \notin {"none", "freed"}
        /\ \A j \in DOMAIN stack : Goes(stack[j], stack[i].c, stack[i].id) => j = i
    BY <1>6 DEF MemoryInv, UseInv, ObjectsInv, DestroyedOnce, OnceAt
  <2>2. QED
    BY <2>1 DEF Goes
<1>7. QED
  BY <1>2, <1>3, <1>4, <1>5, <1>6, TypesFollow DEF NothingUsedAfterFree

(* The pointers that the display, its clients and the functions that are   *)
(* under way keep lead to what has not been freed, whatever handlers and   *)
(* listeners destroy in between, whatever peers ask and whenever they hang *)
(* up.                                                                     *)
THEOREM NothingFreedIsUsed == Spec => []NothingUsedAfterFree
BY MemoryInvariance, MemoryFollows, PTL

-----------------------------------------------------------------------------
(* What has been said to a client.                                         *)

Speech(cl, got) == got \o cl.to_client \o cl.out
ErrorsIn(s)     == {i \in DOMAIN s : s[i].op = "error"}

(* Nothing follows an error, and it will be written.                       *)
Word(cl, got) ==
  ErrorsIn(Speech(cl, got)) # {} =>
    /\ cl.error /\ ErrorsIn(Speech(cl, got)) = {Len(Speech(cl, got))}
    /\ cl.out # << >> => cl.want_flush

Delivered(cl, got) ==
  ErrorsIn(Speech(cl, got)) # {} /\ cl.up /\ Len(Speech(cl, got)) <= Played.socket_space =>
    cl.out = << >>

(* wl_client_destroy has begun with the objects of c, or has ended.        *)
Walked(c) == \E i \in DOMAIN stack : stack[i].at = "client_resources" /\ stack[i].c = c
Ended(c)  == client[c].life = "freed" \/ Walked(c)

(* The display is the first object to go, before anyone is called again.   *)
DisplayFirst ==
  \A i \in DOMAIN stack :
    stack[i].at = "client_resources" /\ client[stack[i].c].display_resource =>
      \/ i = Len(stack) /\ stack[i].id = Display
      \/ i + 1 = Len(stack) /\ Goes(stack[i + 1], stack[i].c, Display)

Plain(f) == f.at = "announce" => f.op \in {"global", "global_remove"}

WordInv ==
  /\ \A c \in Clients :
       /\ Word(client[c], peer[c].got)
       /\ client[c].life = "none" => Speech(client[c], peer[c].got) = << >>
       /\ Ended(c) => Delivered(client[c], peer[c].got)
       /\ client[c].life = "freed" => ~client[c].display_resource
  /\ DisplayFirst
  /\ \A i \in DOMAIN stack : Plain(stack[i])

LEMMA JoinAssociative ==
  \A s, t, u : IsSequence(s) /\ IsSequence(t) /\ IsSequence(u) => (s \o t) \o u = s \o (t \o u)
<1> SUFFICES ASSUME NEW s, IsSequence(s), NEW t, IsSequence(t), NEW u, IsSequence(u)
             PROVE  (s \o t) \o u = s \o (t \o u)
  OBVIOUS
<1> DEFINE S == ToSet(s) \cup ToSet(t) \cup ToSet(u)
<1>1. s \in Seq(ToSet(s)) /\ t \in Seq(ToSet(t)) /\ u \in Seq(ToSet(u))
  BY SequenceIs
<1>2. s \in Seq(S) /\ t \in Seq(S) /\ u \in Seq(S)
  BY <1>1, LargerSeq
<1> HIDE DEF S
<1>3. QED
  BY <1>2, ConcatAssociative

LEMMA JoinEmpty ==
  \A s : IsSequence(s) => s \o << >> = s /\ << >> \o s = s
<1> SUFFICES ASSUME NEW s, IsSequence(s)
             PROVE  s \o << >> = s /\ << >> \o s = s
  OBVIOUS
<1>1. s \in Seq(ToSet(s))
  BY SequenceIs
<1>2. QED
  BY <1>1, ConcatEmptySeq

LEMMA JoinIsEmpty ==
  \A s, t : IsSequence(s) /\ IsSequence(t) => (s \o t = << >> <=> s = << >> /\ t = << >>)
<1> SUFFICES ASSUME NEW s, IsSequence(s), NEW t, IsSequence(t)
             PROVE  s \o t = << >> <=> s = << >> /\ t = << >>
  OBVIOUS
<1>1. s \in Seq(ToSet(s)) /\ t \in Seq(ToSet(t))
  BY SequenceIs
<1>2. s \in Seq(ToSet(s) \cup ToSet(t)) /\ t \in Seq(ToSet(s) \cup ToSet(t))
  BY <1>1, LargerSeq
<1>3. QED
  BY <1>2, ConcatEqualIffEmpty

LEMMA JoinAppend ==
  \A s, t, e : IsSequence(s) /\ IsSequence(t) => s \o Append(t, e) = Append(s \o t, e)
<1> SUFFICES ASSUME NEW s, IsSequence(s), NEW t, IsSequence(t), NEW e
             PROVE  s \o Append(t, e) = Append(s \o t, e)
  OBVIOUS
<1> DEFINE S == ToSet(s) \cup ToSet(t) \cup {e}
<1>1. s \in Seq(ToSet(s)) /\ t \in Seq(ToSet(t))
  BY SequenceIs
<1>2. s \in Seq(S) /\ t \in Seq(S) /\ e \in S
  BY <1>1, LargerSeq
<1> HIDE DEF S
<1>3. << e >> \in Seq(S) /\ s \o t \in Seq(S)
  BY <1>2, ConcatProperties
<1>4. Append(t, e) = t \o << e >> /\ Append(s \o t, e) = (s \o t) \o << e >>
  BY <1>2, <1>3, AppendIsConcat
<1>5. (s \o t) \o << e >> = s \o (t \o << e >>)
  BY <1>2, <1>3, ConcatAssociative
<1>6. QED
  BY <1>4, <1>5

LEMMA SpeechIs ==
  ASSUME NEW cl, NEW space, IsClient(cl, space), NEW got, IsSequence(got)
  PROVE  /\ IsSequence(Speech(cl, got)) /\ Len(Speech(cl, got)) \in Nat
         /\ Len(Speech(cl, got)) = Len(got) + Len(cl.to_client) + Len(cl.out)
         /\ Len(got) \in Nat /\ Len(cl.to_client) \in Nat /\ Len(cl.out) \in Nat
<1>1. IsSequence(cl.to_client) /\ IsSequence(cl.out)
  BY DEF IsClient
<1>2. IsSequence(got \o cl.to_client) /\ Len(got \o cl.to_client) = Len(got) + Len(cl.to_client)
  BY <1>1, SequenceConcat
<1>3. /\ IsSequence(Speech(cl, got))
      /\ Len(Speech(cl, got)) = Len(got \o cl.to_client) + Len(cl.out)
  BY <1>1, <1>2, SequenceConcat DEF Speech
<1>4. QED
  BY <1>1, <1>2, <1>3, SequenceIs

LEMMA ErrorsAppended ==
  ASSUME NEW s, IsSequence(s), NEW e
  PROVE  ErrorsIn(Append(s, e)) = ErrorsIn(s) \cup (IF e.op = "error" THEN {Len(s) + 1} ELSE {})
<1>1. /\ DOMAIN Append(s, e) = 1..Len(s) + 1 /\ Append(s, e)[Len(s) + 1] = e
      /\ \A i \in 1..Len(s) : Append(s, e)[i] = s[i]
  BY SequenceAppend
<1>2. DOMAIN s = 1..Len(s) /\ Len(s) \in Nat
  BY SequenceIs
<1>3. 1..Len(s) + 1 = 1..Len(s) \cup {Len(s) + 1} /\ Len(s) + 1 \notin 1..Len(s)
  BY <1>2
<1>4. QED
  BY <1>1, <1>2, <1>3 DEF ErrorsIn

-----------------------------------------------------------------------------
(* How a client may be spoken to: nothing is added, or one event, which is *)
(* an error only while the client has its display.                         *)

Continues(cl, got, cl2, got2) ==
  /\ Speech(cl2, got2) = Speech(cl, got)
  /\ cl.error => cl2.error
  /\ cl2.out # << >> => cl.out # << >>
  /\ (cl.out # << >> => cl.want_flush) => (cl2.out # << >> => cl2.want_flush)

Says(cl, cl2, got) ==
  \E e : /\ ~cl.error
         /\ Speech(cl2, got) = Append(Speech(cl, got), e)
         /\ e.op = "error" => cl.display_resource /\ cl2.error /\ cl2.want_flush

Speaks(cl, got, cl2, got2) ==
  Continues(cl, got, cl2, got2) \/ (got2 = got /\ Says(cl, cl2, got))

LEMMA WordKept ==
  ASSUME NEW cl, IsClient(cl, Played.socket_space), NEW got, IsSequence(got), Word(cl, got),
         NEW cl2, NEW got2, Speaks(cl, got, cl2, got2)
  PROVE  Word(cl2, got2)
<1>1. CASE Continues(cl, got, cl2, got2)
  BY <1>1 DEF Word, Continues
<1>2. ASSUME NEW e, got2 = got, ~cl.error, Speech(cl2, got) = Append(Speech(cl, got), e),
             e.op = "error" => cl2.error /\ cl2.want_flush
      PROVE  Word(cl2, got2)
  <2>1. IsSequence(Speech(cl, got))
    BY SpeechIs
  <2>2. ErrorsIn(Speech(cl, got)) = {}
    BY <1>2 DEF Word
  <2>3. Len(Speech(cl2, got)) = Len(Speech(cl, got)) + 1
    BY <1>2, <2>1, SequenceAppend
  <2>4. ErrorsIn(Speech(cl2, got)) = IF e.op = "error" THEN {Len(Speech(cl2, got))} ELSE {}
    BY <1>2, <2>1, <2>2, <2>3, ErrorsAppended
  <2>5. QED
    BY <1>2, <2>4 DEF Word
<1>3. QED
  BY <1>1, <1>2 DEF Speaks, Says

LEMMA DeliveredKept ==
  ASSUME NEW cl, IsClient(cl, Played.socket_space), NEW got, IsSequence(got), Word(cl, got),
         Delivered(cl, got), ~cl.display_resource, UNCHANGED scenario,
         NEW cl2, NEW got2, Speaks(cl, got, cl2, got2), cl2.up => cl.up
  PROVE  Delivered(cl2, got2)
<1>1. CASE Continues(cl, got, cl2, got2)
  BY <1>1 DEF Delivered, Continues
<1>2. CASE got2 = got /\ Says(cl, cl2, got)
  <2>1. PICK e : /\ ~cl.error /\ Speech(cl2, got) = Append(Speech(cl, got), e)
                 /\ e.op = "error" => cl.display_resource
    BY <1>2 DEF Says
  <2>2. IsSequence(Speech(cl, got)) /\ ErrorsIn(Speech(cl, got)) = {}
    BY <2>1, SpeechIs DEF Word
  <2>3. ErrorsIn(Speech(cl2, got)) = {}
    BY <2>1, <2>2, ErrorsAppended
  <2>4. QED
    BY <1>2, <2>3 DEF Delivered
<1>3. QED
  BY <1>1, <1>2 DEF Speaks

LEMMA SameContinues ==
  ASSUME NEW cl, NEW cl2, NEW got, cl2.out = cl.out, cl2.to_client = cl.to_client,
         cl.error => cl2.error, cl.want_flush => cl2.want_flush
  PROVE  Continues(cl, got, cl2, got)
BY DEF Continues, Speech

LEMMA FlushContinues ==
  ASSUME Types, NEW cl, IsClient(cl, Played.socket_space), NEW got, IsSequence(got)
  PROVE  LET r == wl_client_flush(cl)
         IN  /\ Continues(cl, got, r.cl, got)
             /\ cl.up /\ (cl.out # << >> => cl.want_flush)
                  /\ Len(Speech(cl, got)) <= Played.socket_space => r.cl.out = << >>
<1> DEFINE space == Played.socket_space
           room  == space - Len(cl.to_client)
           n     == IF Len(cl.out) <= room THEN Len(cl.out) ELSE room
           rest  == SubSeq(cl.out, n + 1, Len(cl.out))
           put   == SubSeq(cl.out, 1, n)
           more  == cl.to_client \o put
           new   == [cl EXCEPT !.to_client = more, !.out = rest, !.want_flush = n < Len(cl.out)]
           r     == wl_client_flush(cl)
<1>1. /\ space \in Nat /\ ClientFields \subseteq DOMAIN cl
      /\ IsSequence(cl.out) /\ IsSequence(cl.to_client) /\ Len(cl.to_client) <= space
  BY SpaceIs DEF IsClient
<1>2. /\ Len(Speech(cl, got)) = Len(got) + Len(cl.to_client) + Len(cl.out)
      /\ Len(got) \in Nat /\ Len(cl.to_client) \in Nat /\ Len(cl.out) \in Nat
  BY SpeechIs
<1>3. n \in Nat /\ n <= Len(cl.out)
  BY <1>1, <1>2
<1>4. ASSUME Len(Speech(cl, got)) <= space PROVE n = Len(cl.out)
  <2>1. \A a, b, c, d \in Nat : a + b + c <= d => c <= d - b
    OBVIOUS
  <2>2. Len(cl.out) <= room
    BY <1>1, <1>2, <1>4, <2>1
  <2>3. QED
    BY <2>2
<1>5. r = IF ~cl.want_flush THEN [cl |-> cl, ret |-> "ok"]
          ELSE IF ~cl.up /\ cl.out # << >> THEN [cl |-> cl, ret |-> "EPIPE"]
          ELSE [cl |-> new, ret |-> IF n < Len(cl.out) THEN "EAGAIN" ELSE "ok"]
  BY DEF wl_client_flush
<1> HIDE DEF n
<1>6. /\ IsSequence(put) /\ IsSequence(rest) /\ Len(rest) = Len(cl.out) - n
      /\ put \o rest = cl.out /\ (n = Len(cl.out) => rest = << >>)
  BY <1>1, <1>3, SequenceCut
<1> HIDE DEF put, rest
<1>7. (got \o more) \o rest = (got \o cl.to_client) \o cl.out
  <2> DEFINE sent == cl.to_client
             said == got \o sent
  <2>1. IsSequence(sent) /\ IsSequence(said) /\ IsSequence(put) /\ IsSequence(rest)
    BY <1>1, <1>6, SequenceConcat
  <2> HIDE DEF sent
  <2>2. said \o put = got \o (sent \o put)
    BY <2>1, JoinAssociative
  <2> HIDE DEF said
  <2>3. (said \o put) \o rest = said \o (put \o rest)
    BY <2>1, JoinAssociative
  <2>4. QED
    BY <1>6, <2>2, <2>3 DEF sent, said
<1> HIDE DEF more, room, space
<1>8. /\ new.out = rest /\ new.to_client = more /\ new.error = cl.error
      /\ new.want_flush = (n < Len(cl.out))
  BY <1>1 DEF ClientFields
<1> HIDE DEF new
<1>9. rest # << >> => n < Len(cl.out) /\ cl.out # << >>
  <2>1. cl.out = << >> => Len(cl.out) = 0
    BY EmptySequence
  <2>2. QED
    BY <1>2, <1>3, <1>6, <2>1
<1>10. Continues(cl, got, new, got)
  BY <1>7, <1>8, <1>9 DEF Continues, Speech
<1>11. Continues(cl, got, cl, got)
  BY DEF Continues
<1> HIDE DEF r
<1>12. CASE ~cl.want_flush
  BY <1>5, <1>11, <1>12 DEF r, space
<1>13. CASE cl.want_flush /\ ~cl.up /\ cl.out # << >>
  BY <1>5, <1>11, <1>13 DEF r, space
<1>14. CASE cl.want_flush /\ ~(~cl.up /\ cl.out # << >>)
  BY <1>4, <1>5, <1>6, <1>8, <1>10, <1>14 DEF r, space
<1>15. QED
  BY <1>12, <1>13, <1>14 DEF r

(* An event is added, or nothing is.                                       *)
LEMMA PostAdds ==
  ASSUME Types, NEW cl, IsClient(cl, Played.socket_space), NEW got, IsSequence(got),
         NEW event, NEW now
  PROVE  LET p == handle_array(cl, event, now)
         IN  \/ Continues(cl, got, p, got)
             \/ /\ ~cl.error /\ Speech(p, got) = Append(Speech(cl, got), event)
                /\ now => p.want_flush
<1> DEFINE space  == Played.socket_space
           wanted == [cl EXCEPT !.want_flush = TRUE]
           after  == IF Len(cl.out) < OutSpace THEN [cl |-> cl, ret |-> "ok"]
                     ELSE wl_client_flush(wanted)
           failed == [after.cl EXCEPT !.error = TRUE]
           put    == [after.cl EXCEPT !.out = Append(@, event), !.want_flush = @ \/ now]
           p      == handle_array(cl, event, now)
<1>1. p = IF cl.error THEN cl ELSE IF after.ret # "ok" THEN failed ELSE put
  BY DEF handle_array
<1>2. ClientFields \subseteq DOMAIN cl
  BY DEF IsClient
<1>3. IsClient(wanted, space) /\ Continues(cl, got, wanted, got)
  <2>1. /\ DOMAIN wanted = DOMAIN cl /\ wanted.want_flush
        /\ \A x \in ClientFields \ {"want_flush"} : wanted[x] = cl[x]
    BY <1>2
  <2>2. /\ wanted.out = cl.out /\ wanted.to_client = cl.to_client /\ wanted.error = cl.error
        /\ wanted.life = cl.life /\ wanted.objects = cl.objects
        /\ wanted.pending = cl.pending /\ wanted.to_server = cl.to_server
    BY <2>1 DEF ClientFields
  <2> HIDE DEF wanted
  <2>3. IsClient(wanted, space)
    BY <2>1, <2>2 DEF IsClient
  <2>4. QED
    BY <2>1, <2>2, <2>3, SameContinues
<1> HIDE DEF wanted
<1>4. IsClient(after.cl, space) /\ Continues(cl, got, after.cl, got)
  <2>1. CASE Len(cl.out) < OutSpace
    BY <2>1 DEF Continues
  <2>2. CASE ~(Len(cl.out) < OutSpace)
    <3>1. /\ IsClient(wl_client_flush(wanted).cl, space)
          /\ Continues(wanted, got, wl_client_flush(wanted).cl, got)
      BY <1>3, Flushed, FlushContinues
    <3>2. Continues(cl, got, wl_client_flush(wanted).cl, got)
      BY <1>3, <3>1 DEF Continues
    <3>3. QED
      BY <2>2, <3>1, <3>2
  <2>3. QED
    BY <2>1, <2>2
<1> HIDE DEF after, p, space
<1>5. /\ ClientFields \subseteq DOMAIN after.cl
      /\ IsSequence(after.cl.out) /\ IsSequence(after.cl.to_client)
  BY <1>4 DEF IsClient
<1>6. Continues(cl, got, failed, got)
  <2>1. /\ failed.out = after.cl.out /\ failed.to_client = after.cl.to_client /\ failed.error
        /\ failed.want_flush = after.cl.want_flush
    BY <1>5 DEF ClientFields
  <2> HIDE DEF failed
  <2>2. QED
    BY <1>4, <2>1 DEF Continues, Speech
<1>7. Speech(put, got) = Append(Speech(cl, got), event) /\ (now => put.want_flush)
  <2>1. /\ put.out = Append(after.cl.out, event) /\ put.to_client = after.cl.to_client
        /\ now => put.want_flush
    BY <1>5 DEF ClientFields
  <2> HIDE DEF put
  <2> DEFINE said == got \o after.cl.to_client
             out  == after.cl.out
  <2>2. IsSequence(said) /\ IsSequence(out)
    BY <1>5, SequenceConcat
  <2> HIDE DEF said, out
  <2>3. said \o Append(out, event) = Append(said \o out, event)
    BY <2>2, JoinAppend
  <2>4. Speech(put, got) = Append(Speech(after.cl, got), event)
    BY <2>1, <2>3 DEF Speech, said, out
  <2>5. QED
    BY <1>4, <2>1, <2>4 DEF Continues
<1>8. Continues(cl, got, cl, got)
  BY DEF Continues
<1> HIDE DEF failed, put
<1>9. \/ Continues(cl, got, p, got)
      \/ ~cl.error /\ Speech(p, got) = Append(Speech(cl, got), event) /\ (now => p.want_flush)
  BY <1>1, <1>6, <1>7, <1>8
<1>10. QED
  BY <1>9 DEF p

LEMMA EventSpeaks ==
  ASSUME Types, NEW cl, IsClient(cl, Played.socket_space), NEW got, IsSequence(got),
         NEW event, event.op # "error", NEW now
  PROVE  Speaks(cl, got, handle_array(cl, event, now), got)
BY PostAdds DEF Speaks, Says

LEMMA ErrorSpeaks ==
  ASSUME Types, NEW cl, IsClient(cl, Played.socket_space), NEW got, IsSequence(got), NEW why
  PROVE  Speaks(cl, got, wl_resource_post_error(cl, why), got)
<1> DEFINE event == Event("error", Display, why)
           told  == handle_array(cl, event, TRUE)
           last  == [told EXCEPT !.error = TRUE]
           p     == wl_resource_post_error(cl, why)
<1>1. p = IF cl.error \/ ~cl.display_resource THEN cl ELSE last
  BY DEF wl_resource_post_error, wl_resource_post_event
<1> HIDE DEF event
<1>2. \/ Continues(cl, got, told, got)
      \/ ~cl.error /\ Speech(told, got) = Append(Speech(cl, got), event) /\ told.want_flush
  <2>1. \/ Continues(cl, got, told, got)
        \/ /\ ~cl.error /\ Speech(told, got) = Append(Speech(cl, got), event)
           /\ TRUE => told.want_flush
    BY PostAdds
  <2>2. QED
    BY <2>1
<1>3. IsClient(told, Played.socket_space)
  BY Posted
<1> HIDE DEF told, p
<1>4. /\ last.error /\ last.out = told.out /\ last.to_client = told.to_client
      /\ last.want_flush = told.want_flush
  BY <1>3 DEF IsClient, ClientFields
<1> HIDE DEF last
<1>5. ASSUME cl.error \/ ~cl.display_resource PROVE Speaks(cl, got, p, got)
  <2>1. Continues(cl, got, cl, got)
    BY DEF Continues
  <2>2. QED
    BY <1>1, <1>5, <2>1 DEF Speaks
<1>6. ASSUME ~(cl.error \/ ~cl.display_resource) PROVE Speaks(cl, got, p, got)
  <2>1. CASE Continues(cl, got, told, got)
    <3>1. Continues(cl, got, last, got)
      BY <1>4, <2>1 DEF Continues, Speech
    <3>2. QED
      BY <1>1, <1>6, <3>1 DEF Speaks
  <2>2. CASE ~cl.error /\ Speech(told, got) = Append(Speech(cl, got), event) /\ told.want_flush
    <3>1. Speech(last, got) = Append(Speech(cl, got), event)
      BY <1>4, <2>2 DEF Speech
    <3>2. Says(cl, last, got)
      BY <1>4, <1>6, <2>2, <3>1 DEF Says
    <3>3. QED
      BY <1>1, <1>6, <3>2 DEF Speaks
  <2>3. QED
    BY <1>2, <2>1, <2>2
<1>7. Speaks(cl, got, p, got)
  BY <1>5, <1>6
<1>8. QED
  BY <1>7 DEF p

-----------------------------------------------------------------------------
(* Steps that are not part of a walk along a client's objects.             *)

Walkers == {"client_resources", "destroy_resource", "free_resource"}

(* No such walk begins.                                                    *)
Descends ==
  \A i \in DOMAIN stack' :
    \/ stack'[i].at # "client_resources" /\ Plain(stack'[i])
    \/ \E j \in DOMAIN stack : stack'[i] = stack[j]

Spoken(c) ==
  \/ /\ Speaks(client[c], peer[c].got, client'[c], peer'[c].got)
     /\ client'[c].life = "none" =>
          /\ client[c].life = "none"
          /\ Speech(client'[c], peer'[c].got) = Speech(client[c], peer[c].got)
     /\ client'[c].life = "freed" => client[c].life = "freed"
     /\ client'[c].display_resource => client[c].display_resource
     /\ client'[c].up => client[c].up
  \/ Word(client'[c], peer'[c].got) /\ Lives(client'[c]) /\ ~Walked(c)

LEMMA NoneWalked ==
  ASSUME ListenersInv, WordInv, Top.at \notin Walkers
  PROVE  \A i \in DOMAIN stack :
           stack[i].at = "client_resources" => ~client[stack[i].c].display_resource
<1>1. Top = stack[Len(stack)]
  BY StackNow DEF ListenersInv
<1>2. \A c : ~Goes(Top, c, Display) /\ Top.at # "client_resources"
  BY DEF Goes, Walkers
<1>3. QED
  BY <1>1, <1>2 DEF WordInv, DisplayFirst

LEMMA WalkedOne ==
  ASSUME MemoryInv, NEW i \in DOMAIN stack, stack[i].at = "client_resources"
  PROVE  stack[i].c \in Clients /\ Lives(client[stack[i].c])
<1>1. "client_resources" \in ForClient
  BY DEF ForClient, Destroyers
<1>2. QED
  BY <1>1 DEF MemoryInv, UseInv, FramesInv, LifeInv, Known, Alive

LEMMA WordStays ==
  ASSUME ListenersInv, MemoryInv, WordInv, UNCHANGED scenario, Top.at \notin Walkers, Descends,
         \A c \in Clients : Spoken(c)
  PROVE  WordInv'
<1>1. \A i \in DOMAIN stack :
        stack[i].at = "client_resources" => ~client[stack[i].c].display_resource
  BY NoneWalked
<1>2. \A c \in Clients : Walked(c)' => Walked(c)
  BY DEF Descends, Walked
<1>3. ASSUME NEW c \in Clients
      PROVE  /\ Word(client[c], peer[c].got)'
             /\ client'[c].life = "none" => Speech(client'[c], peer'[c].got) = << >>
             /\ Ended(c)' => Delivered(client[c], peer[c].got)'
             /\ client'[c].life = "freed" => ~client'[c].display_resource
  <2>1. /\ IsClient(client[c], Played.socket_space) /\ IsSequence(peer[c].got)
        /\ Word(client[c], peer[c].got)
    BY DEF WordInv, MemoryInv, Types, IsPeer
  <2>2. CASE Word(client'[c], peer'[c].got) /\ Lives(client'[c]) /\ ~Walked(c)
    BY <1>2, <2>2 DEF Ended, Lives, Word
  <2>3. CASE /\ Speaks(client[c], peer[c].got, client'[c], peer'[c].got)
             /\ client'[c].life = "none" =>
                  /\ client[c].life = "none"
                  /\ Speech(client'[c], peer'[c].got) = Speech(client[c], peer[c].got)
             /\ client'[c].life = "freed" => client[c].life = "freed"
             /\ client'[c].display_resource => client[c].display_resource
             /\ client'[c].up => client[c].up
    <3>1. Word(client'[c], peer'[c].got)
      BY <2>1, <2>3, WordKept
    <3>2. ASSUME Ended(c)' PROVE Delivered(client'[c], peer'[c].got)
      <4>1. Ended(c)
        BY <1>2, <2>3, <3>2 DEF Ended
      <4>2. ~client[c].display_resource /\ Delivered(client[c], peer[c].got)
        BY <1>1, <4>1 DEF WordInv, Ended, Walked
      <4>3. QED
        BY <2>1, <2>3, <4>2, DeliveredKept
    <3>3. Delivered(client'[c], peer'[c].got) => Delivered(client[c], peer[c].got)'
      BY DEF Delivered, Played
    <3>4. QED
      BY <2>3, <3>1, <3>2, <3>3 DEF WordInv, Word
  <2>4. QED
    BY <2>2, <2>3 DEF Spoken
<1>4. DisplayFirst'
  <2> SUFFICES ASSUME NEW i \in DOMAIN stack', stack'[i].at = "client_resources",
                      client'[stack'[i].c].display_resource
               PROVE  FALSE
    BY DEF DisplayFirst
  <2>1. PICK j \in DOMAIN stack : stack'[i] = stack[j]
    BY DEF Descends
  <2>2. stack[j].c \in Clients /\ Walked(stack[j].c)
    BY <2>1, WalkedOne DEF Walked
  <2>3. client[stack[j].c].display_resource
    BY <2>1, <2>2 DEF Spoken
  <2>4. QED
    BY <1>1, <2>1, <2>3
<1>5. \A i \in DOMAIN stack' : Plain(stack'[i])
  BY DEF Descends, WordInv
<1>6. QED
  BY <1>3, <1>4, <1>5 DEF WordInv

LEMMA DescendsGoto ==
  ASSUME ListenersInv, NEW f, Goto(f), f.at # "client_resources", Plain(f)
  PROVE  Descends
BY Gone DEF Descends, ListenersInv

LEMMA DescendsCall ==
  ASSUME ListenersInv, NEW f, NEW after, Call(f, after), f.at # "client_resources", Plain(f),
         after = Top \/ (after.at # "client_resources" /\ Plain(after))
  PROVE  Descends
<1>1. Top = stack[Len(stack)] /\ Len(stack) \in DOMAIN stack
  BY StackNow DEF ListenersInv
<1>2. QED
  BY <1>1, Called DEF Descends, ListenersInv

LEMMA DescendsReturn ==
  ASSUME ListenersInv, Return
  PROVE  Descends
BY Returned DEF Descends, ListenersInv

LEMMA DescendsSame ==
  ASSUME UNCHANGED stack
  PROVE  Descends
BY DEF Descends

LEMMA SameSpoken ==
  ASSUME NEW c, client'[c] = client[c], peer'[c].got = peer[c].got
  PROVE  Spoken(c)
BY DEF Spoken, Speaks, Continues

LEMMA SilentSpoken ==
  ASSUME UNCHANGED client, \A c \in Clients : peer'[c].got = peer[c].got
  PROVE  \A c \in Clients : Spoken(c)
BY SameSpoken

(* One client is spoken to, or told to.                                    *)
LEMMA OneSpoken ==
  ASSUME MemoryInv, UNCHANGED peer, NEW c \in Clients, Lives(client[c]),
         NEW cl, client' = [client EXCEPT ![c] = cl],
         Speaks(client[c], peer[c].got, cl, peer[c].got), Lives(cl),
         cl.display_resource => client[c].display_resource, cl.up => client[c].up
  PROVE  \A d \in Clients : Spoken(d)
<1>1. client'[c] = cl /\ \A d \in Clients : d # c => client'[d] = client[d]
  BY OneClient DEF MemoryInv
<1>2. Spoken(c)
  BY <1>1 DEF Spoken, Lives
<1>3. QED
  BY <1>1, <1>2, SameSpoken

-----------------------------------------------------------------------------
(* Steps in which nothing is said.                                         *)

LEMMA SilentStep ==
  ASSUME ListenersInv, MemoryInv, WordInv, UNCHANGED <<client, scenario>>,
         \A c \in Clients : peer'[c].got = peer[c].got, Top.at \notin Walkers, Descends
  PROVE  WordInv'
BY SilentSpoken, WordStays

LEMMA LoopWord ==
  ASSUME ListenersInv, MemoryInv, WordInv,
         wl_display_run \/ LoopTest \/ FlushNext \/ Poll \/ DispatchEnds
  PROVE  WordInv'
<1>1. UNCHANGED <<client, scenario, peer>> /\ Top.at \notin Walkers
  BY DEF wl_display_run, LoopTest, FlushNext, Poll, DispatchEnds, otherVars, At, Walkers
<1>2. ASSUME wl_display_run PROVE Descends
  BY <1>2, DescendsCall DEF wl_display_run, Frame, Plain
<1>3. ASSUME LoopTest PROVE Descends
  BY <1>3, DescendsCall, DescendsReturn DEF LoopTest, Frame, Flushing, Plain
<1>4. ASSUME FlushNext PROVE Descends
  BY <1>4, DescendsGoto DEF FlushNext, Flushing, Plain
<1>5. ASSUME Poll PROVE Descends
  BY <1>5, DescendsGoto DEF Poll, Dispatching, Plain
<1>6. ASSUME DispatchEnds PROVE Descends
  BY <1>6, DescendsGoto DEF DispatchEnds, Frame, Plain
<1>7. Descends
  BY <1>2, <1>3, <1>4, <1>5, <1>6
<1>8. QED
  BY <1>1, <1>7, SilentStep

LEMMA DispatchSourceWord ==
  ASSUME ListenersInv, MemoryInv, WordInv, DispatchSource
  PROVE  WordInv'
<1>1. UNCHANGED <<client, scenario>> /\ Top.at \notin Walkers
  BY DEF DispatchSource, At, Walkers
<1>2. PICK r \in Top.ready :
        LET rest == Dispatching(Top.ready \ {r})
        IN  \/ Goto(rest) /\ UNCHANGED peer
            \/ Call(Handler(NULL, 0), rest) /\ UNCHANGED peer
            \/ /\ Call(Frame("client_create", r.c), rest)
               /\ peer' = [peer EXCEPT ![r.c].connects = FALSE]
            \/ Call(Reading(r.c, r.mask), rest) /\ UNCHANGED peer
  BY DEF DispatchSource
<1>3. Descends
  BY <1>2, DescendsGoto, DescendsCall
     DEF Dispatching, Handler, Frame, FrameOf, Reading, Plain
<1>4. \A c \in Clients : peer'[c].got = peer[c].got
  BY <1>2 DEF MemoryInv, Types, IsPeer
<1>5. QED
  BY <1>1, <1>3, <1>4, SilentStep

LEMMA QuietWord ==
  ASSUME ListenersInv, MemoryInv, WordInv,
         \/ wl_priv_signal_emit \/ RequestsEnd \/ AnnouncementEnds \/ wl_resource_destroy
         \/ wl_display_destroy_clients \/ DestroyDetached \/ HandlerReturns
  PROVE  WordInv'
<1>1. UNCHANGED <<client, scenario, peer>> /\ Top.at \notin Walkers
  BY DEF wl_priv_signal_emit, RequestsEnd, AnnouncementEnds, wl_resource_destroy,
     wl_display_destroy_clients, DestroyDetached, HandlerReturns, otherVars, At, Walkers
<1>2. ASSUME wl_priv_signal_emit PROVE Descends
  <2>1. Top.at = "emit"
    BY <1>2 DEF wl_priv_signal_emit, At
  <2>2. CASE Return
    BY <2>2, DescendsReturn
  <2>3. ASSUME NEW l, Call(Handler(Top.c, 0), [Top EXCEPT !.called = Append(@, l)])
        PROVE  Descends
    <3> DEFINE f     == Handler(Top.c, 0)
               after == [Top EXCEPT !.called = Append(@, l)]
    <3>1. "at" \in DOMAIN Top
      BY <2>1, <1>2, TopAt DEF wl_priv_signal_emit, Known
    <3>2. f.at = "user" /\ after.at = "emit"
      BY <2>1, <3>1 DEF Handler, FrameOf
    <3> HIDE DEF f, after
    <3>3. QED
      BY <2>3, <3>2, DescendsCall DEF Plain, f, after
  <2>4. QED
    BY <1>2, <2>2, <2>3 DEF wl_priv_signal_emit
<1>3. ASSUME RequestsEnd PROVE Descends
  BY <1>3, DescendsGoto, DescendsReturn DEF RequestsEnd, Frame, Plain
<1>4. ASSUME AnnouncementEnds \/ HandlerReturns PROVE Descends
  BY <1>4, DescendsReturn DEF AnnouncementEnds, HandlerReturns
<1>5. ASSUME wl_resource_destroy PROVE Descends
  BY <1>5, DescendsCall DEF wl_resource_destroy, FrameOf, Plain
<1>6. ASSUME wl_display_destroy_clients \/ DestroyDetached PROVE Descends
  BY <1>6, DescendsGoto, DescendsCall
     DEF wl_display_destroy_clients, DestroyDetached, Frame, Plain
<1>7. Descends
  BY <1>2, <1>3, <1>4, <1>5, <1>6
<1>8. QED
  BY <1>1, <1>7, SilentStep

LEMMA CallWord ==
  ASSUME ListenersInv, MemoryInv, WordInv, CallGlobal \/ CallDestroy \/ CallListen
  PROVE  WordInv'
<1>1. UNCHANGED <<client, scenario, peer>> /\ Top.at \notin Walkers
  BY DEF CallGlobal, CallDestroy, CallListen, MayCall, At, Walkers
<1>2. ASSUME CallGlobal PROVE Descends
  <2>1. ASSUME NEW op \in {"global", "global_remove"}, NEW g, NEW rest, NEW destroys,
               Call(Announcing(op, g, rest, destroys), Top)
        PROVE  Descends
    <3> DEFINE f == Announcing(op, g, rest, destroys)
    <3>1. f.at = "announce" /\ f.op = op
      BY DEF Announcing
    <3> HIDE DEF f
    <3>2. QED
      BY <2>1, <3>1, DescendsCall DEF Plain, f
  <2>2. ASSUME NEW i, wl_global_create(i) PROVE Descends
    BY <2>1, <2>2 DEF wl_global_create
  <2>3. ASSUME NEW g, wl_global_remove(g) PROVE Descends
    BY <2>1, <2>3 DEF wl_global_remove
  <2>4. ASSUME NEW g, wl_global_destroy(g) PROVE Descends
    BY <2>1, <2>4, DescendsSame DEF wl_global_destroy
  <2>5. QED
    BY <1>2, <2>2, <2>3, <2>4 DEF CallGlobal
<1>3. ASSUME CallDestroy PROVE Descends
  BY <1>3, DescendsCall DEF CallDestroy, Frame, FrameOf, Plain
<1>4. ASSUME CallListen PROVE Descends
  <2>1. CASE UNCHANGED stack
    BY <2>1, DescendsSame
  <2>2. ASSUME NEW l, stack' = [i \in DOMAIN stack |-> IF stack[i].at # "emit" THEN stack[i]
                                  ELSE [stack[i] EXCEPT !.gone = @ \cup {l}]]
        PROVE  Descends
    <3>1. \A i \in DOMAIN stack : "at" \in DOMAIN stack[i]
      BY DEF MemoryInv, UseInv, FramesInv, Known
    <3>2. ASSUME NEW i \in DOMAIN stack
          PROVE  stack'[i] = stack[i] \/ stack'[i].at = "emit"
      BY <2>2, <3>1
    <3>3. DOMAIN stack' = DOMAIN stack
      BY <2>2
    <3>4. QED
      BY <3>2, <3>3 DEF Descends, Plain
  <2>3. QED
    BY <1>4, <2>1, <2>2 DEF CallListen
<1>5. Descends
  BY <1>2, <1>3, <1>4
<1>6. QED
  BY <1>1, <1>5, SilentStep

-----------------------------------------------------------------------------
(* Steps in which one client is written to, or told something.             *)

LEMMA WrittenWord ==
  ASSUME ListenersInv, MemoryInv, WordInv, UNCHANGED <<scenario, peer>>, Top.at \notin Walkers,
         Descends, NEW c \in Clients, Lives(client[c]),
         NEW cl, client' = [client EXCEPT ![c] = cl],
         Speaks(client[c], peer[c].got, cl, peer[c].got), Lives(cl),
         cl.display_resource => client[c].display_resource, cl.up => client[c].up
  PROVE  WordInv'
BY OneSpoken, WordStays

LEMMA ClientIs ==
  ASSUME MemoryInv, NEW c \in Clients
  PROVE  /\ IsClient(client[c], Played.socket_space) /\ IsSequence(peer[c].got) /\ Types
         /\ ClientFields \subseteq DOMAIN client[c]
BY DEF MemoryInv, Types, IsClient, IsPeer

LEMMA FlushWord ==
  ASSUME ListenersInv, MemoryInv, WordInv, FlushClient
  PROVE  WordInv'
<1> DEFINE c  == Top.c
           r  == wl_client_flush(client[c])
           cl == [r.cl EXCEPT !.writable = @ \/ r.ret = "EAGAIN"]
<1>1. /\ At("flush") /\ UNCHANGED <<scenario, peer>> /\ Top.at \notin Walkers
  BY DEF FlushClient, otherVars, At, Walkers
<1>2. c \in Clients \cup {HEAD} /\ (c \in Clients => Lives(client[c]))
  BY <1>1, TopAt DEF Known, Alive
<1>3. Descends
  BY DescendsReturn, DescendsCall, DescendsGoto
     DEF FlushClient, Flushing, Frame, Destroying, Plain
<1>4. CASE UNCHANGED client
  BY <1>1, <1>3, <1>4, SilentStep
<1>5. CASE c # HEAD /\ client' = [client EXCEPT ![c] = cl]
  <2>1. c \in Clients /\ Lives(client[c])
    BY <1>2, <1>5
  <2>2. /\ IsClient(client[c], Played.socket_space) /\ IsSequence(peer[c].got) /\ Types
    BY <2>1, ClientIs
  <2>3. /\ IsClient(r.cl, Played.socket_space) /\ SameCore(r.cl, client[c])
        /\ r.cl.display_resource = client[c].display_resource
        /\ Continues(client[c], peer[c].got, r.cl, peer[c].got)
    BY <2>2, Flushed, FlushContinues
  <2> HIDE DEF r
  <2>4. /\ cl.life = r.cl.life /\ cl.up = r.cl.up /\ cl.out = r.cl.out
        /\ cl.to_client = r.cl.to_client /\ cl.error = r.cl.error
        /\ cl.want_flush = r.cl.want_flush /\ cl.display_resource = r.cl.display_resource
    BY <2>3 DEF IsClient, ClientFields
  <2> HIDE DEF cl
  <2>5. Continues(client[c], peer[c].got, cl, peer[c].got)
    BY <2>3, <2>4 DEF Continues, Speech
  <2> HIDE DEF c
  <2>6. Lives(cl) /\ (cl.up => client[c].up) /\ cl.display_resource = client[c].display_resource
    BY <2>1, <2>3, <2>4 DEF Lives, SameCore
  <2>7. QED
    BY <1>1, <1>3, <1>5, <2>1, <2>5, <2>6, WrittenWord DEF Speaks
<1>6. QED
  BY <1>4, <1>5 DEF FlushClient

LEMMA CreateWord ==
  ASSUME ListenersInv, MemoryInv, WordInv, wl_client_create
  PROVE  WordInv'
<1> DEFINE c  == Top.c
           cl == NewClient(client[c].to_server, client[c].up)
<1>1. /\ At("client_create") /\ UNCHANGED <<scenario, peer>> /\ Top.at \notin Walkers
      /\ client' = [client EXCEPT ![c] = NewClient(@.to_server, @.up)]
  BY DEF wl_client_create, otherVars, At, Walkers
<1>2. "client_create" \in ForClient
  BY DEF ForClient
<1>3. c \in Clients /\ client[c].life = "none"
  BY <1>1, <1>2, TopAt DEF Known, Alive
<1>4. Descends
  BY DescendsGoto DEF wl_client_create, Emitting, Plain
<1>5. /\ client'[c] = cl /\ \A d \in Clients : d # c => client'[d] = client[d]
  BY <1>1, <1>3 DEF MemoryInv, Types
<1>6. cl.life = "live" /\ cl.out = << >> /\ cl.to_client = << >>
  BY DEF NewClient
<1> HIDE DEF cl
<1>7. IsSequence(client[c].to_client) /\ IsSequence(client[c].out) /\ IsSequence(peer[c].got)
  BY <1>3, ClientIs DEF IsClient
<1>8. peer[c].got = << >>
  <2> DEFINE got  == peer[c].got
             sent == client[c].to_client
             out  == client[c].out
  <2>1. IsSequence(got) /\ IsSequence(sent) /\ IsSequence(out) /\ IsSequence(got \o sent)
    BY <1>7, SequenceConcat
  <2>2. (got \o sent) \o out = << >>
    BY <1>3 DEF WordInv, Speech
  <2> HIDE DEF got, sent, out
  <2>3. got = << >>
    BY <2>1, <2>2, JoinIsEmpty
  <2>4. QED
    BY <2>3 DEF got
<1>9. Word(cl, peer[c].got)
  <2>1. Speech(cl, peer[c].got) = << >>
    BY <1>6, <1>8, EmptySequence, JoinEmpty DEF Speech
  <2>2. ErrorsIn(<< >>) = {}
    BY EmptySequence DEF ErrorsIn
  <2>3. QED
    BY <2>1, <2>2 DEF Word
<1>10. ~Walked(c)
  BY <1>3, WalkedOne DEF Walked, Lives
<1>11. Spoken(c)
  BY <1>1, <1>5, <1>6, <1>9, <1>10 DEF Spoken, Lives
<1>12. \A d \in Clients : Spoken(d)
  BY <1>1, <1>5, <1>11, SameSpoken
<1>13. QED
  BY <1>1, <1>4, <1>12, WordStays

LEMMA ReadWord ==
  ASSUME ListenersInv, MemoryInv, WordInv, wl_client_connection_data
  PROVE  WordInv'
<1> DEFINE c     == Top.c
           flush == IF "writable" \in Top.mask THEN wl_client_flush(client[c])
                    ELSE [cl |-> client[c], ret |-> "none"]
           read  == IF "readable" \in Top.mask
                    THEN [flush.cl EXCEPT !.pending = @ \o flush.cl.to_server, !.to_server = <<>>]
                    ELSE flush.cl
           cl    == [read EXCEPT !.writable = @ /\ flush.ret # "ok"]
<1>1. /\ At("connection_data") /\ UNCHANGED <<scenario, peer>> /\ Top.at \notin Walkers
      /\ "connection_data" \in ForClient
  BY DEF wl_client_connection_data, otherVars, At, Walkers, ForClient
<1>2. c \in Clients /\ Lives(client[c])
  BY <1>1, TopAt DEF Known, Alive
<1>3. Descends
  BY DescendsGoto DEF wl_client_connection_data, Frame, Handling, Plain
<1>4. /\ IsClient(client[c], Played.socket_space) /\ IsSequence(peer[c].got) /\ Types
  BY <1>2, ClientIs
<1>5. /\ IsClient(flush.cl, Played.socket_space) /\ SameCore(flush.cl, client[c])
      /\ flush.cl.display_resource = client[c].display_resource
      /\ Continues(client[c], peer[c].got, flush.cl, peer[c].got)
  <2>1. CASE "writable" \in Top.mask
    BY <1>4, <2>1, Flushed, FlushContinues
  <2>2. CASE "writable" \notin Top.mask
    BY <1>4, <2>2 DEF SameCore, Continues
  <2>3. QED
    BY <2>1, <2>2
<1>6. UNCHANGED client \/ client' = [client EXCEPT ![c] = cl]
  BY DEF wl_client_connection_data
<1> HIDE DEF flush
<1>7. /\ cl.life = flush.cl.life /\ cl.up = flush.cl.up /\ cl.out = flush.cl.out
      /\ cl.to_client = flush.cl.to_client /\ cl.error = flush.cl.error
      /\ cl.want_flush = flush.cl.want_flush /\ cl.display_resource = flush.cl.display_resource
  <2>1. ClientFields \subseteq DOMAIN flush.cl
    BY <1>5 DEF IsClient
  <2>2. \A x \in ClientFields \ {"writable", "pending", "to_server"} : cl[x] = flush.cl[x]
    BY <2>1
  <2>3. QED
    BY <2>2 DEF ClientFields
<1> HIDE DEF cl
<1>8. Continues(client[c], peer[c].got, cl, peer[c].got)
  BY <1>5, <1>7 DEF Continues, Speech
<1> HIDE DEF c
<1>9. Lives(cl) /\ (cl.up => client[c].up) /\ cl.display_resource = client[c].display_resource
  BY <1>2, <1>5, <1>7 DEF Lives, SameCore
<1>10. QED
  BY <1>1, <1>2, <1>3, <1>6, <1>8, <1>9, WrittenWord, SilentStep DEF Speaks

-----------------------------------------------------------------------------
(* Requests.                                                               *)

LEMMA ServedSpeaks ==
  ASSUME ListenersInv, MemoryInv, MayHandle
  PROVE  /\ Top.c \in Clients /\ Lives(client[Top.c]) /\ Lives(Served) /\ ~Walked(Top.c)
         /\ Top.at \notin Walkers /\ Types /\ Consumed = [client EXCEPT ![Top.c] = Served]
         /\ IsClient(Served, Played.socket_space) /\ IsSequence(peer[Top.c].got)
         /\ Served.display_resource = client[Top.c].display_resource
         /\ Served.up = client[Top.c].up /\ Served.error = client[Top.c].error
         /\ Served.out = client[Top.c].out /\ Served.to_client = client[Top.c].to_client
         /\ Served.want_flush = client[Top.c].want_flush
<1>1. /\ At("requests") /\ IsClient(Served, Played.socket_space)
      /\ Served.life = client[Top.c].life
      /\ Consumed = [client EXCEPT ![Top.c] = Served]
  BY ServedIs
<1>2. /\ Top.at = "requests" /\ Top.at \in OfLoop /\ Top.c \in Clients /\ Lives(client[Top.c])
  BY <1>1, AtRequests
<1>3. /\ Types /\ IsSequence(peer[Top.c].got) /\ ClientFields \subseteq DOMAIN client[Top.c]
  BY <1>2, ClientIs
<1>4. ~Walked(Top.c)
  <2>1. \A i \in DOMAIN stack : i # Len(stack) => stack[i].at \in Base \cup Loop
    BY <1>2, Shallow DEF ListenersInv, MemoryInv, UseInv
  <2>2. Top = stack[Len(stack)]
    BY StackNow DEF ListenersInv
  <2>3. \A i \in DOMAIN stack : stack[i].at # "client_resources"
    BY <1>2, <2>1, <2>2 DEF Base, Loop
  <2>4. QED
    BY <2>3 DEF Walked
<1>5. \A x \in ClientFields \ {"pending"} : Served[x] = client[Top.c][x]
  BY <1>3 DEF Served
<1>6. /\ Served.display_resource = client[Top.c].display_resource
      /\ Served.up = client[Top.c].up /\ Served.error = client[Top.c].error
      /\ Served.out = client[Top.c].out /\ Served.to_client = client[Top.c].to_client
      /\ Served.want_flush = client[Top.c].want_flush
  BY <1>5 DEF ClientFields
<1>7. Lives(Served) /\ Top.at \notin Walkers
  BY <1>1, <1>2 DEF Lives, Walkers
<1>8. QED
  BY <1>1, <1>2, <1>3, <1>4, <1>6, <1>7

LEMMA AnsweredWord ==
  ASSUME ListenersInv, MemoryInv, WordInv, MayHandle, UNCHANGED <<scenario, peer>>, Descends,
         NEW cl, client' = [Consumed EXCEPT ![Top.c] = cl],
         Speaks(Served, peer[Top.c].got, cl, peer[Top.c].got),
         Lives(cl), cl.display_resource = Served.display_resource, cl.up = Served.up
  PROVE  WordInv'
<1> DEFINE c == Top.c
<1>1. /\ c \in Clients /\ Lives(client[c]) /\ Top.at \notin Walkers
      /\ Consumed = [client EXCEPT ![c] = Served]
      /\ Served.display_resource = client[c].display_resource /\ Served.up = client[c].up
      /\ Served.error = client[c].error /\ Served.out = client[c].out
      /\ Served.to_client = client[c].to_client /\ Served.want_flush = client[c].want_flush
  BY ServedSpeaks
<1>2. client' = [client EXCEPT ![c] = cl]
  BY <1>1
<1>3. Speaks(client[c], peer[c].got, cl, peer[c].got)
  <2>1. Speech(Served, peer[c].got) = Speech(client[c], peer[c].got)
    BY <1>1 DEF Speech
  <2> HIDE DEF c
  <2>2. CASE Continues(Served, peer[c].got, cl, peer[c].got)
    BY <1>1, <2>1, <2>2 DEF Continues, Speaks
  <2>3. CASE Says(Served, cl, peer[c].got)
    BY <1>1, <2>1, <2>3 DEF Says, Speaks
  <2>4. QED
    BY <2>2, <2>3 DEF Speaks, c
<1>4. QED
  BY <1>1, <1>2, <1>3, WrittenWord

LEMMA ErrorAnswered ==
  ASSUME ListenersInv, MemoryInv, WordInv, MayHandle, UNCHANGED <<scenario, peer>>, Goto(Handled),
         NEW why, client' = [Consumed EXCEPT ![Top.c] = wl_resource_post_error(@, why)]
  PROVE  WordInv'
<1> DEFINE cl == wl_resource_post_error(Served, why)
<1>1. /\ Top.c \in Clients /\ Types /\ Lives(Served) /\ IsSequence(peer[Top.c].got)
      /\ IsClient(Served, Played.socket_space) /\ Consumed = [client EXCEPT ![Top.c] = Served]
  BY ServedSpeaks
<1>2. client' = [Consumed EXCEPT ![Top.c] = cl]
  BY <1>1
<1>3. /\ SameCore(cl, Served) /\ cl.display_resource = Served.display_resource
      /\ Speaks(Served, peer[Top.c].got, cl, peer[Top.c].got)
  BY <1>1, ErrorPosted, ErrorSpeaks
<1> HIDE DEF cl
<1>4. Descends
  BY DescendsGoto DEF Handled, Handling, Plain
<1>5. Lives(cl)
  BY <1>1, <1>3 DEF SameCore, Lives
<1>6. QED
  BY <1>2, <1>3, <1>4, <1>5, AnsweredWord DEF SameCore

LEMMA MadeWord ==
  ASSUME ListenersInv, MemoryInv, WordInv, MayHandle, UNCHANGED <<scenario, peer>>, Descends,
         NEW id, NEW kind, client' = [Consumed EXCEPT ![Top.c].objects[id] = kind]
  PROVE  WordInv'
<1> DEFINE cl == [Served EXCEPT !.objects[id] = kind]
<1>1. /\ Top.c \in Clients /\ Types /\ Lives(Served)
      /\ IsClient(Served, Played.socket_space) /\ Consumed = [client EXCEPT ![Top.c] = Served]
  BY ServedSpeaks
<1>2. client' = [Consumed EXCEPT ![Top.c] = cl]
  BY <1>1
<1>3. /\ cl.life = Served.life /\ cl.display_resource = Served.display_resource
      /\ cl.up = Served.up /\ cl.out = Served.out /\ cl.to_client = Served.to_client
      /\ cl.error = Served.error /\ cl.want_flush = Served.want_flush
  BY <1>1 DEF IsClient, ClientFields
<1> HIDE DEF cl
<1>4. Speaks(Served, peer[Top.c].got, cl, peer[Top.c].got)
  BY <1>3, SameContinues DEF Speaks
<1>5. Lives(cl)
  BY <1>1, <1>3 DEF Lives
<1>6. QED
  BY <1>2, <1>3, <1>4, <1>5, AnsweredWord

LEMMA RequestWord ==
  ASSUME ListenersInv, MemoryInv, WordInv,
         RejectRequest \/ display_get_registry \/ registry_bind \/ HandleDestroy
  PROVE  WordInv'
<1>1. MayHandle /\ UNCHANGED <<scenario, peer>>
  BY DEF RejectRequest, display_get_registry, registry_bind, HandleDestroy, otherVars
<1>2. CASE RejectRequest
  BY <1>1, <1>2, ErrorAnswered DEF RejectRequest
<1>3. CASE display_get_registry
  <2>1. Descends
    BY <1>3, DescendsCall DEF display_get_registry, Telling, Handled, Handling, Plain
  <2>2. QED
    BY <1>1, <1>3, <2>1, MadeWord DEF display_get_registry
<1>4. CASE registry_bind
  <2>1. CASE /\ client' = [Consumed EXCEPT ![Top.c].objects[Request.new] = "object"]
             /\ Call(Handler(Top.c, Request.new), Handled)
    <3>1. Descends
      BY <2>1, DescendsCall DEF Handler, FrameOf, Handled, Handling, Plain
    <3>2. QED
      BY <1>1, <2>1, <3>1, MadeWord
  <2>2. ASSUME Goto(Handled), client' = [Consumed EXCEPT ![Top.c] =
                                wl_resource_post_error(@, <<"global", Request.name>>)]
        PROVE  WordInv'
    BY <1>1, <2>2, ErrorAnswered
  <2>3. QED
    BY <1>4, <2>1, <2>2 DEF registry_bind
<1>5. CASE HandleDestroy
  <2>1. Descends
    BY <1>5, DescendsCall DEF HandleDestroy, FrameOf, Handled, Handling, Plain
  <2>2. /\ Top.c \in Clients /\ Types /\ Lives(Served)
        /\ Consumed = [client EXCEPT ![Top.c] = Served]
    BY <1>1, ServedSpeaks
  <2>3. client' = [Consumed EXCEPT ![Top.c] = Served]
    BY <1>5, <2>2 DEF HandleDestroy
  <2>4. Speaks(Served, peer[Top.c].got, Served, peer[Top.c].got)
    BY SameContinues DEF Speaks
  <2>5. QED
    BY <1>1, <2>1, <2>2, <2>3, <2>4, AnsweredWord
<1>6. QED
  BY <1>2, <1>3, <1>4, <1>5

LEMMA SyncWord ==
  ASSUME ListenersInv, MemoryInv, WordInv, display_sync
  PROVE  WordInv'
<1> DEFINE c    == Top.c
           got  == peer[c].got
           done == handle_array(Served, Event("done", Request.new, 0), TRUE)
           cl   == handle_array(done, Event("delete_id", Display, Request.new), FALSE)
<1>1. MayHandle /\ Goto(Handled) /\ UNCHANGED <<scenario, peer>>
  BY DEF display_sync, otherVars
<1>2. /\ c \in Clients /\ Lives(Served) /\ ~Walked(c) /\ Top.at \notin Walkers /\ Types
      /\ Consumed = [client EXCEPT ![c] = Served]
      /\ IsClient(Served, Played.socket_space) /\ IsSequence(got)
      /\ Served.error = client[c].error /\ Served.out = client[c].out
      /\ Served.to_client = client[c].to_client /\ Served.want_flush = client[c].want_flush
  BY <1>1, ServedSpeaks
<1>3. client' = [Consumed EXCEPT ![c] = cl]
  BY <1>2 DEF display_sync, wl_resource_post_event, wl_resource_queue_event
<1>4. Word(Served, got)
  BY <1>2 DEF WordInv, Word, Speech
<1>5. \A obj, arg : /\ Event("done", obj, arg).op # "error"
                   /\ Event("delete_id", obj, arg).op # "error"
  BY DEF Event
<1>6. /\ IsClient(done, Played.socket_space) /\ SameCore(done, Served)
      /\ Speaks(Served, got, done, got)
  BY <1>2, <1>5, Posted, EventSpeaks
<1>7. SameCore(cl, done) /\ Speaks(done, got, cl, got)
  BY <1>2, <1>5, <1>6, Posted, EventSpeaks
<1> HIDE DEF done, cl, got
<1>8. Word(cl, got)
  <2>1. Word(done, got)
    BY <1>2, <1>4, <1>6, WordKept
  <2>2. QED
    BY <1>2, <1>6, <1>7, <2>1, WordKept
<1>9. client'[c] = cl /\ \A d \in Clients : d # c => client'[d] = client[d]
  BY <1>2, <1>3 DEF Types
<1>10. Spoken(c)
  BY <1>1, <1>2, <1>6, <1>7, <1>9, <1>8 DEF Spoken, SameCore, Lives, got
<1>11. \A d \in Clients : Spoken(d)
  BY <1>1, <1>9, <1>10, SameSpoken
<1>12. Descends
  BY <1>1, DescendsGoto DEF Handled, Handling, Plain
<1>13. QED
  BY <1>1, <1>2, <1>11, <1>12, WordStays

LEMMA PostedWord ==
  ASSUME ListenersInv, MemoryInv, WordInv, UNCHANGED <<scenario, peer>>, Top.at \notin Walkers,
         Descends, NEW c \in Clients, Lives(client[c]), NEW event, event.op # "error",
         client' = [client EXCEPT ![c] = wl_resource_post_event(@, event)]
  PROVE  WordInv'
<1> DEFINE cl == handle_array(client[c], event, TRUE)
<1>1. client' = [client EXCEPT ![c] = cl]
  BY DEF MemoryInv, Types, wl_resource_post_event
<1>2. IsClient(client[c], Played.socket_space) /\ IsSequence(peer[c].got) /\ Types
  BY ClientIs
<1>3. /\ SameCore(cl, client[c]) /\ cl.display_resource = client[c].display_resource
      /\ Speaks(client[c], peer[c].got, cl, peer[c].got)
  BY <1>2, Posted, EventSpeaks
<1> HIDE DEF cl
<1>4. Lives(cl) /\ cl.up = client[c].up
  BY <1>3 DEF SameCore, Lives
<1>5. QED
  BY <1>1, <1>3, <1>4, WrittenWord

LEMMA AnnounceWord ==
  ASSUME ListenersInv, MemoryInv, WordInv, Announce
  PROVE  WordInv'
<1> DEFINE r     == Head(Top.rest)
           f     == [Top EXCEPT !.rest = Tail(@)]
           event == Event(Top.op, r.id, Top.g.name)
<1>1. /\ stack # << >> /\ Top.at = "announce" /\ Top.rest # << >> /\ Goto(f)
      /\ At("announce") /\ UNCHANGED <<scenario, peer>> /\ Top.at \notin Walkers
      /\ \/ UNCHANGED client
         \/ client' = [client EXCEPT ![r.c] = wl_resource_post_event(@, event)]
  BY DEF Announce, At, otherVars, Walkers
<1>2. f.at = "announce" /\ r \in ToSet(Top.rest)
  BY <1>1, RestFrame
<1>3. ToSet(Top.rest) \subseteq ToSet(display.registries)
  BY <1>1, TopAt DEF Reaches
<1>4. Plain(Top)
  BY <1>1, StackNow DEF ListenersInv, WordInv
<1>5. Top.op \in {"global", "global_remove"} /\ f.op = Top.op
  BY <1>1, <1>4 DEF Plain
<1>6. event.op # "error"
  BY <1>5 DEF Event
<1> HIDE DEF f, r, event
<1>7. r.c \in Clients /\ Lives(client[r.c])
  BY <1>2, <1>3 DEF MemoryInv, UseInv, ObjectsInv, Registered
<1>8. Descends
  BY <1>1, <1>2, <1>5, DescendsGoto DEF Plain
<1>9. CASE UNCHANGED client
  BY <1>1, <1>8, <1>9, SilentStep
<1>10. CASE client' = [client EXCEPT ![r.c] = wl_resource_post_event(@, event)]
  BY <1>1, <1>6, <1>7, <1>8, <1>10, PostedWord
<1>11. QED
  BY <1>1, <1>9, <1>10

LEMMA TellWord ==
  ASSUME ListenersInv, MemoryInv, WordInv, TellGlobal
  PROVE  WordInv'
<1> DEFINE g     == Head(Top.rest)
           f     == [Top EXCEPT !.rest = Tail(@)]
           event == Event("global", Top.id, g.name)
<1>1. /\ stack # << >> /\ Top.at = "tell" /\ At("tell") /\ UNCHANGED <<scenario, peer>>
      /\ Top.at \notin Walkers
      /\ \/ UNCHANGED client
         \/ client' = [client EXCEPT ![Top.c] = wl_resource_post_event(@, event)]
      /\ Return \/ (Top.rest # << >> /\ Goto(f))
  BY DEF TellGlobal, At, otherVars, Walkers
<1>2. "tell" \in ForClient
  BY DEF ForClient
<1>3. Top.c \in Clients /\ Lives(client[Top.c])
  BY <1>1, <1>2, TopAt DEF Known, Alive
<1>4. event.op # "error"
  BY DEF Event
<1>5. Top.rest # << >> => f.at = "tell"
  BY <1>1, RestFrame
<1> HIDE DEF f, event
<1>6. Descends
  BY <1>1, <1>5, DescendsGoto, DescendsReturn DEF Plain
<1>7. QED
  BY <1>1, <1>3, <1>4, <1>6, SilentStep, PostedWord

LEMMA DeleteIdWord ==
  ASSUME ListenersInv, MemoryInv, WordInv, DeleteId
  PROVE  WordInv'
<1> DEFINE c    == Top.c
           id   == Top.id
           told == IF client[c].display_resource
                   THEN handle_array(client[c], Event("delete_id", Display, id), FALSE)
                   ELSE client[c]
           cl   == [told EXCEPT !.objects[id] = "none"]
<1>1. /\ At("resource_destroyed") /\ Return /\ UNCHANGED <<scenario, peer>>
      /\ client' = [client EXCEPT ![Top.c] =
           [IF @.display_resource
            THEN wl_resource_queue_event(@, Event("delete_id", Display, Top.id)) ELSE @
            EXCEPT !.objects[Top.id] = "none"]]
  BY DEF DeleteId, otherVars
<1>2. /\ Top.at = "resource_destroyed" /\ c \in Clients /\ Lives(client[c])
      /\ IsClient(client[c], Played.socket_space)
  BY <1>1, AtOwner DEF Owners, Resource
<1>3. client' = [client EXCEPT ![c] = cl]
  BY <1>1, <1>2 DEF MemoryInv, Types, wl_resource_queue_event
<1>4. IsSequence(peer[c].got) /\ Types
  BY <1>2, ClientIs
<1>5. Event("delete_id", Display, id).op # "error"
  BY DEF Event
<1>6. /\ IsClient(told, Played.socket_space) /\ SameCore(told, client[c])
      /\ told.display_resource = client[c].display_resource
      /\ Speaks(client[c], peer[c].got, told, peer[c].got)
  <2>1. SameCore(client[c], client[c]) /\ Speaks(client[c], peer[c].got, client[c], peer[c].got)
    BY SameContinues DEF SameCore, Speaks
  <2>2. QED
    BY <1>2, <1>4, <1>5, <2>1, Posted, EventSpeaks
<1> HIDE DEF told
<1>7. /\ cl.life = told.life /\ cl.display_resource = told.display_resource
      /\ cl.up = told.up /\ cl.out = told.out /\ cl.to_client = told.to_client
      /\ cl.error = told.error /\ cl.want_flush = told.want_flush
  BY <1>6 DEF IsClient, ClientFields
<1> HIDE DEF cl
<1>8. Speech(cl, peer[c].got) = Speech(told, peer[c].got)
  BY <1>7 DEF Speech
<1>9. Speaks(client[c], peer[c].got, cl, peer[c].got)
  BY <1>6, <1>7, <1>8 DEF Speaks, Says, Continues
<1>10. Lives(cl) /\ cl.up = client[c].up
  BY <1>2, <1>6, <1>7 DEF SameCore, Lives
<1>11. Descends /\ Top.at \notin Walkers
  BY <1>1, <1>2, DescendsReturn DEF Walkers
<1>12. QED
  BY <1>1, <1>2, <1>3, <1>6, <1>7, <1>9, <1>10, <1>11, WrittenWord

LEMMA ClientDestroyWord ==
  ASSUME ListenersInv, MemoryInv, WordInv, wl_client_destroy
  PROVE  WordInv'
<1> DEFINE c  == Top.c
           cl == [client[c] EXCEPT !.life = "dying", !.listener = FALSE]
<1>1. /\ At("client_destroy") /\ UNCHANGED <<scenario, peer>>
      /\ client' = [client EXCEPT ![c].life = "dying", ![c].listener = FALSE]
  BY DEF wl_client_destroy, otherVars
<1>2. /\ Top.at = "client_destroy" /\ c \in Clients /\ Lives(client[c])
      /\ IsClient(client[c], Played.socket_space) /\ Top.at \notin Walkers
  BY <1>1, AtDestroyer DEF Destroyers, Walkers
<1>3. client' = [client EXCEPT ![c] = cl]
  BY <1>1, <1>2 DEF MemoryInv, Types
<1>4. /\ cl.life = "dying" /\ cl.display_resource = client[c].display_resource
      /\ cl.up = client[c].up /\ cl.out = client[c].out /\ cl.to_client = client[c].to_client
      /\ cl.error = client[c].error /\ cl.want_flush = client[c].want_flush
  BY <1>2 DEF IsClient, ClientFields
<1> HIDE DEF cl
<1>5. Speaks(client[c], peer[c].got, cl, peer[c].got) /\ Lives(cl)
  BY <1>4, SameContinues DEF Speaks, Lives
<1>6. Descends
  BY DescendsCall, DescendsGoto DEF wl_client_destroy, Handler, Frame, FrameOf, Plain
<1>7. QED
  BY <1>1, <1>2, <1>3, <1>4, <1>5, <1>6, WrittenWord

LEMMA CallPostWord ==
  ASSUME ListenersInv, MemoryInv, WordInv, CallPost
  PROVE  WordInv'
<1>1. /\ UNCHANGED <<scenario, peer>> /\ UNCHANGED stack /\ Top.at \notin Walkers
  BY DEF CallPost, MayCall, At, Walkers
<1>2. Descends
  BY <1>1, DescendsSame
<1>3. ASSUME NEW c \in Clients, NEW id, Whole(c, id),
             client' = [client EXCEPT ![c] = wl_resource_post_event(@, Event("event", id, 0))]
      PROVE  WordInv'
  <2>1. Lives(client[c]) /\ Event("event", id, 0).op # "error"
    BY <1>3 DEF Whole, Lives, Event
  <2>2. QED
    BY <1>1, <1>2, <1>3, <2>1, PostedWord
<1>4. ASSUME NEW c \in Clients, client[c].life \in {"live", "dying"}, NEW why,
             client' = [client EXCEPT ![c] = wl_resource_post_error(@, why)]
      PROVE  WordInv'
  <2> DEFINE cl == wl_resource_post_error(client[c], why)
  <2>1. client' = [client EXCEPT ![c] = cl] /\ Lives(client[c])
    BY <1>4 DEF MemoryInv, Types, Lives
  <2>2. IsClient(client[c], Played.socket_space) /\ IsSequence(peer[c].got) /\ Types
    BY ClientIs
  <2>3. /\ SameCore(cl, client[c]) /\ cl.display_resource = client[c].display_resource
        /\ Speaks(client[c], peer[c].got, cl, peer[c].got)
    BY <2>2, ErrorPosted, ErrorSpeaks
  <2> HIDE DEF cl
  <2>4. Lives(cl) /\ cl.up = client[c].up
    BY <2>1, <2>3 DEF SameCore, Lives
  <2>5. QED
    BY <1>1, <1>2, <2>1, <2>3, <2>4, WrittenWord
<1>5. ASSUME NEW c \in Clients, NEW id, Whole(c, id),
             client' = [client EXCEPT ![c].error = TRUE]
      PROVE  WordInv'
  <2> DEFINE cl == [client[c] EXCEPT !.error = TRUE]
  <2>1. client' = [client EXCEPT ![c] = cl] /\ Lives(client[c])
    BY <1>5 DEF MemoryInv, Types, Whole, Lives
  <2>2. ClientFields \subseteq DOMAIN client[c]
    BY ClientIs
  <2>3. /\ cl.life = client[c].life /\ cl.display_resource = client[c].display_resource
        /\ cl.up = client[c].up /\ cl.out = client[c].out /\ cl.to_client = client[c].to_client
        /\ cl.error /\ cl.want_flush = client[c].want_flush
    BY <2>2 DEF ClientFields
  <2> HIDE DEF cl
  <2>4. Speaks(client[c], peer[c].got, cl, peer[c].got) /\ Lives(cl)
    BY <2>1, <2>3, SameContinues DEF Speaks, Lives
  <2>5. QED
    BY <1>1, <1>2, <2>1, <2>3, <2>4, WrittenWord
<1>6. QED
  BY <1>3, <1>4, <1>5 DEF CallPost

-----------------------------------------------------------------------------
(* Walks along the objects of a client, and what happens outside.          *)

LEMMA WordContinues ==
  ASSUME MemoryInv, WordInv, UNCHANGED scenario, DisplayFirst',
         \A i \in DOMAIN stack' : Plain(stack'[i]),
         \A c \in Clients :
           /\ Continues(client[c], peer[c].got, client'[c], peer'[c].got)
           /\ client'[c].up => client[c].up
           /\ client'[c].life = "none" => client[c].life = "none"
           /\ client'[c].life = "freed" => Ended(c) /\ ~client'[c].display_resource
           /\ Walked(c)' => Walked(c) \/ Delivered(client'[c], peer'[c].got)
  PROVE  WordInv'
<1>1. ASSUME NEW c \in Clients
      PROVE  /\ Word(client[c], peer[c].got)'
             /\ client'[c].life = "none" => Speech(client'[c], peer'[c].got) = << >>
             /\ Ended(c)' => Delivered(client[c], peer[c].got)'
             /\ client'[c].life = "freed" => ~client'[c].display_resource
  <2>1. Word(client[c], peer[c].got) /\ (Ended(c) => Delivered(client[c], peer[c].got))
    BY DEF WordInv
  <2>2. Word(client'[c], peer'[c].got)
    BY <2>1 DEF Word, Continues
  <2>3. client'[c].life = "none" => Speech(client'[c], peer'[c].got) = << >>
    BY DEF WordInv, Continues
  <2>4. ASSUME Delivered(client[c], peer[c].got) PROVE Delivered(client[c], peer[c].got)'
    BY <2>4 DEF Delivered, Continues, Played
  <2>5. Delivered(client'[c], peer'[c].got) => Delivered(client[c], peer[c].got)'
    BY DEF Delivered, Played
  <2>6. Ended(c)' => Ended(c) \/ Delivered(client'[c], peer'[c].got)
    BY DEF Ended
  <2>7. QED
    BY <2>1, <2>2, <2>3, <2>4, <2>5, <2>6 DEF Word
<1>2. QED
  BY <1>1 DEF WordInv

(* Nobody but c changes, and c says nothing.                               *)
LEMMA WalkKept ==
  ASSUME MemoryInv, WordInv, UNCHANGED <<scenario, peer>>, DisplayFirst',
         \A i \in DOMAIN stack' : Plain(stack'[i]),
         NEW c \in Clients, Lives(client[c]), NEW cl, client' = [client EXCEPT ![c] = cl],
         Continues(client[c], peer[c].got, cl, peer[c].got), cl.up = client[c].up,
         cl.life = "freed" => Walked(c) /\ ~cl.display_resource,
         cl.life # "none",
         \A d \in Clients : Walked(d)' =>
           Walked(d) \/ (d = c /\ Delivered(cl, peer[c].got))
  PROVE  WordInv'
<1>1. client'[c] = cl /\ \A d \in Clients : d # c => client'[d] = client[d]
  BY OneClient DEF MemoryInv
<1>2. \A d \in Clients : Continues(client[d], peer[d].got, client'[d], peer'[d].got)
  BY <1>1 DEF Continues
<1>3. \A d \in Clients :
        /\ client'[d].up => client[d].up
        /\ client'[d].life = "none" => client[d].life = "none"
        /\ client'[d].life = "freed" => Ended(d) /\ ~client'[d].display_resource
        /\ Walked(d)' => Walked(d) \/ Delivered(client'[d], peer'[d].got)
  BY <1>1 DEF WordInv, Ended
<1>4. QED
  BY <1>2, <1>3, WordContinues

(* Steps outside, in which the display's thread does nothing.              *)
LEMMA OutsideWord ==
  ASSUME MemoryInv, WordInv, UNCHANGED <<scenario, stack>>,
         \A c \in Clients :
           /\ Continues(client[c], peer[c].got, client'[c], peer'[c].got)
           /\ client'[c].up => client[c].up
           /\ client'[c].life = client[c].life
           /\ client'[c].display_resource = client[c].display_resource
  PROVE  WordInv'
<1>1. \A i \in DOMAIN stack : stack[i].at = "client_resources" => stack[i].c \in Clients
  BY WalkedOne
<1>2. DisplayFirst'
  BY <1>1 DEF WordInv, DisplayFirst
<1>3. (\A i \in DOMAIN stack' : Plain(stack'[i])) /\ \A c : Walked(c)' <=> Walked(c)
  BY DEF WordInv, Walked
<1>4. \A c \in Clients : client'[c].life = "freed" => Ended(c) /\ ~client'[c].display_resource
  BY DEF WordInv, Ended
<1>5. QED
  BY <1>2, <1>3, <1>4, WordContinues

LEMMA TerminateWord ==
  ASSUME MemoryInv, WordInv, Terminate \/ TerminateWakes \/ UNCHANGED vars
  PROVE  WordInv'
<1>1. UNCHANGED <<scenario, stack, client, peer>>
  BY DEF Terminate, TerminateWakes, vars
<1>2. \A c \in Clients : Continues(client[c], peer[c].got, client'[c], peer'[c].got)
  BY <1>1, SameContinues
<1>3. QED
  BY <1>1, <1>2, OutsideWord

LEMMA PeerSendsWord ==
  ASSUME MemoryInv, WordInv, NEW c \in Clients, PeerSends(c)
  PROVE  WordInv'
<1>1. UNCHANGED <<scenario, stack>>
  BY DEF PeerSends
<1>2. ClientFields \subseteq DOMAIN client[c] /\ IsPeer(peer[c])
  BY ClientIs DEF MemoryInv, Types
<1>3. ASSUME NEW cl, NEW p, client' = [client EXCEPT ![c] = cl], peer' = [peer EXCEPT ![c] = p],
             p.got = peer[c].got, cl.up => client[c].up, cl.life = client[c].life,
             cl.display_resource = client[c].display_resource, cl.out = client[c].out,
             cl.to_client = client[c].to_client, cl.error = client[c].error,
             cl.want_flush = client[c].want_flush
      PROVE  WordInv'
  <2>1. /\ client'[c] = cl /\ \A d \in Clients : d # c => client'[d] = client[d]
        /\ peer'[c] = p /\ \A d \in Clients : d # c => peer'[d] = peer[d]
    BY <1>3 DEF MemoryInv, Types
  <2>2. \A d \in Clients : Continues(client[d], peer[d].got, client'[d], peer'[d].got)
    BY <1>3, <2>1, SameContinues
  <2>3. QED
    BY <1>1, <1>3, <2>1, <2>2, OutsideWord
<1>4. ASSUME NEW r, Send(c, r) PROVE WordInv'
  <2> DEFINE cl == [client[c] EXCEPT !.to_server = Append(@, r)]
             p  == [peer[c] EXCEPT !.program = Tail(@), !.last = r.new]
  <2>1. client' = [client EXCEPT ![c] = cl] /\ peer' = [peer EXCEPT ![c] = p]
    BY <1>4 DEF Send, MemoryInv, Types
  <2>2. /\ cl.up = client[c].up /\ cl.life = client[c].life /\ cl.out = client[c].out
        /\ cl.display_resource = client[c].display_resource
        /\ cl.to_client = client[c].to_client /\ cl.error = client[c].error
        /\ cl.want_flush = client[c].want_flush /\ p.got = peer[c].got
    BY <1>2 DEF ClientFields, IsPeer
  <2> HIDE DEF cl, p
  <2>3. QED
    BY <1>3, <2>1, <2>2
<1>5. ASSUME client' = [client EXCEPT ![c].up = FALSE], peer' = [peer EXCEPT ![c].program = << >>]
      PROVE  WordInv'
  <2> DEFINE cl == [client[c] EXCEPT !.up = FALSE]
             p  == [peer[c] EXCEPT !.program = << >>]
  <2>1. client' = [client EXCEPT ![c] = cl] /\ peer' = [peer EXCEPT ![c] = p]
    BY <1>5 DEF MemoryInv, Types
  <2>2. /\ ~cl.up /\ cl.life = client[c].life /\ cl.out = client[c].out
        /\ cl.display_resource = client[c].display_resource
        /\ cl.to_client = client[c].to_client /\ cl.error = client[c].error
        /\ cl.want_flush = client[c].want_flush /\ p.got = peer[c].got
    BY <1>2 DEF ClientFields, IsPeer
  <2> HIDE DEF cl, p
  <2>3. QED
    BY <1>3, <2>1, <2>2
<1>6. QED
  BY <1>4, <1>5 DEF PeerSends

LEMMA PeerReadsWord ==
  ASSUME MemoryInv, WordInv, NEW c \in Clients, PeerReads(c)
  PROVE  WordInv'
<1> DEFINE got  == peer[c].got
           sent == client[c].to_client
           out  == client[c].out
           p    == [peer[c] EXCEPT !.got = @ \o sent]
           cl   == [client[c] EXCEPT !.to_client = << >>]
<1>1. UNCHANGED <<scenario, stack>> /\ client' = [client EXCEPT ![c] = cl]
      /\ peer' = [peer EXCEPT ![c] = p]
  BY DEF PeerReads, MemoryInv, Types
<1>2. /\ ClientFields \subseteq DOMAIN client[c] /\ "got" \in DOMAIN peer[c]
      /\ IsSequence(got) /\ IsSequence(sent) /\ IsSequence(out)
  BY ClientIs DEF MemoryInv, Types, IsClient, IsPeer
<1>3. /\ client'[c] = cl /\ \A d \in Clients : d # c => client'[d] = client[d]
      /\ peer'[c] = p /\ \A d \in Clients : d # c => peer'[d] = peer[d]
  BY <1>1 DEF MemoryInv, Types
<1>4. /\ cl.up = client[c].up /\ cl.life = client[c].life /\ cl.out = out
      /\ cl.display_resource = client[c].display_resource
      /\ cl.to_client = << >> /\ cl.error = client[c].error
      /\ cl.want_flush = client[c].want_flush /\ p.got = got \o sent
  BY <1>2 DEF ClientFields
<1> HIDE DEF cl, p
<1>5. Speech(cl, p.got) = Speech(client[c], got)
  <2>1. IsSequence(got \o sent)
    BY <1>2, SequenceConcat
  <2> HIDE DEF got, sent, out
  <2>2. (got \o sent) \o << >> = got \o sent
    BY <2>1, JoinEmpty
  <2>3. QED
    BY <1>4, <2>2 DEF Speech, sent, out
<1>6. Continues(client[c], got, cl, p.got)
  BY <1>4, <1>5 DEF Continues
<1> HIDE DEF sent, out
<1>7. \A d \in Clients : Continues(client[d], peer[d].got, client'[d], peer'[d].got)
  BY <1>3, <1>6, SameContinues
<1>8. QED
  BY <1>1, <1>3, <1>4, <1>7, OutsideWord

(* Of the frames below the top only the one just below walks along a client*)
(* that has its display still, and then the top destroys the display.      *)
LEMMA DisplayNext ==
  ASSUME ListenersInv, WordInv, NEW i \in DOMAIN stack, i # Len(stack),
         stack[i].at = "client_resources", client[stack[i].c].display_resource
  PROVE  i + 1 = Len(stack) /\ Goes(Top, stack[i].c, Display)
BY StackNow DEF WordInv, DisplayFirst, ListenersInv

LEMMA FlushLastWord ==
  ASSUME ListenersInv, MemoryInv, WordInv, FlushLast
  PROVE  WordInv'
<1> DEFINE c  == Top.c
           n  == Len(stack)
           cl == wl_client_flush(client[c]).cl
           f  == FrameOf("client_resources", c, Display)
<1>1. /\ At("client_flush") /\ Goto(f) /\ UNCHANGED <<scenario, peer>>
      /\ client' = [client EXCEPT ![c] = wl_client_flush(@).cl]
  BY DEF FlushLast, otherVars
<1>2. /\ Top.at = "client_flush" /\ c \in Clients /\ Lives(client[c])
      /\ IsClient(client[c], Played.socket_space) /\ StackShape /\ Top = stack[n]
  BY <1>1, AtDestroyer DEF Destroyers
<1>3. client' = [client EXCEPT ![c] = cl]
  BY <1>1, <1>2 DEF MemoryInv, Types
<1>4. IsSequence(peer[c].got) /\ Types
  BY <1>2, ClientIs
<1>5. /\ IsClient(cl, Played.socket_space) /\ SameCore(cl, client[c])
      /\ cl.display_resource = client[c].display_resource
      /\ Continues(client[c], peer[c].got, cl, peer[c].got)
      /\ client[c].up /\ (client[c].out # << >> => client[c].want_flush)
           /\ Len(Speech(client[c], peer[c].got)) <= Played.socket_space => cl.out = << >>
  BY <1>2, <1>4, Flushed, FlushContinues
<1> HIDE DEF cl
<1>6. Delivered(cl, peer[c].got)
  BY <1>2, <1>5 DEF Delivered, Continues, SameCore, WordInv, Word
<1>7. f.at = "client_resources" /\ f.c = c /\ f.id = Display
  BY DEF FrameOf
<1> HIDE DEF f
<1>8. /\ Len(stack') = n /\ DOMAIN stack' = DOMAIN stack /\ stack'[n] = f
      /\ \A i \in DOMAIN stack : i # n => stack'[i] = stack[i]
  BY <1>1, <1>2, Gone
<1>9. \A i \in DOMAIN stack' : Plain(stack'[i])
  BY <1>7, <1>8 DEF WordInv, Plain
<1>10. \A d \in Clients : Walked(d)' => Walked(d) \/ (d = c /\ Delivered(cl, peer[c].got))
  BY <1>6, <1>7, <1>8 DEF Walked
<1>11. client'[c] = cl /\ \A d \in Clients : d # c => client'[d] = client[d]
  BY <1>2, <1>3, OneClient DEF MemoryInv
<1>12. DisplayFirst'
  <2> SUFFICES ASSUME NEW i \in DOMAIN stack', stack'[i].at = "client_resources",
                      client'[stack'[i].c].display_resource, i # n
               PROVE  FALSE
    BY <1>7, <1>8 DEF DisplayFirst
  <2>1. stack'[i] = stack[i] /\ i \in DOMAIN stack
    BY <1>8
  <2>2. client[stack[i].c].display_resource
    BY <1>5, <1>11, <2>1, WalkedOne
  <2>3. Goes(Top, stack[i].c, Display)
    BY <2>1, <2>2, DisplayNext DEF n
  <2>4. QED
    BY <1>2, <2>3 DEF Goes
<1>13. Lives(cl) /\ cl.up = client[c].up /\ cl.life # "freed" /\ cl.life # "none"
  BY <1>2, <1>5 DEF SameCore, Lives
<1>14. QED
  BY <1>1, <1>2, <1>3, <1>5, <1>9, <1>10, <1>12, <1>13, WalkKept

LEMMA EachResourceWord ==
  ASSUME ListenersInv, MemoryInv, WordInv, EachResource
  PROVE  WordInv'
<1> DEFINE c    == Top.c
           id   == Top.id
           n    == Len(stack)
           kind == client[c].objects[id]
           g    == FrameOf("destroy_resource", c, id)
           f    == [Top EXCEPT !.id = @ + 1]
<1>1. /\ At("client_resources") /\ id \in Ids /\ UNCHANGED <<client, scenario, peer>>
      /\ IF kind = "none" THEN Goto(f) ELSE Call(g, f)
  BY DEF EachResource, otherVars
<1>2. /\ Top.at = "client_resources" /\ c \in Clients /\ Lives(client[c]) /\ Top = stack[n]
      /\ StackShape /\ Known(Top) /\ n \in DOMAIN stack /\ n \in Nat
  BY <1>1, AtDestroyer, StackNow DEF Destroyers
<1>3. f.at = "client_resources" /\ f.c = c
  BY <1>2 DEF Known
<1>4. g.at = "destroy_resource" /\ g.c = c /\ g.id = id
  BY DEF FrameOf
<1>5. client[c].display_resource => id = Display /\ kind = "display"
  <2>1. client[c].display_resource => id = Display
    BY <1>2 DEF WordInv, DisplayFirst, Goes
  <2>2. DisplayIs(client[c])
    BY <1>2 DEF MemoryInv, UseInv, ObjectsInv
  <2>3. QED
    BY <2>1, <2>2 DEF DisplayIs
<1> HIDE DEF f, g, kind
<1>6. /\ stack'[n] = f /\ \A i \in DOMAIN stack : i # n => stack'[i] = stack[i]
      /\ \A i \in DOMAIN stack' : i \in DOMAIN stack \/ (i = n + 1 /\ stack'[i] = g)
      /\ kind # "none" => n + 1 = Len(stack') /\ stack'[n + 1] = g
  BY <1>1, <1>2, Called, Gone
<1>7. \A i \in DOMAIN stack' : Plain(stack'[i])
  BY <1>3, <1>4, <1>6 DEF WordInv, Plain
<1>8. \A d \in Clients : Walked(d)' => Walked(d)
  BY <1>2, <1>3, <1>4, <1>6 DEF Walked
<1>9. DisplayFirst'
  <2> SUFFICES ASSUME NEW i \in DOMAIN stack', stack'[i].at = "client_resources",
                      client[stack'[i].c].display_resource
               PROVE  i + 1 = Len(stack') /\ Goes(stack'[i + 1], stack'[i].c, Display)
    BY <1>1 DEF DisplayFirst
  <2>1. CASE i = n
    BY <1>3, <1>4, <1>5, <1>6, <2>1 DEF Goes
  <2>2. CASE i # n
    <3>1. i \in DOMAIN stack /\ stack'[i] = stack[i]
      BY <1>4, <1>6, <2>2
    <3>2. Goes(Top, stack[i].c, Display)
      BY <2>2, <3>1, DisplayNext DEF n
    <3>3. QED
      BY <1>2, <3>2 DEF Goes
  <2>3. QED
    BY <2>1, <2>2
<1>10. \A d \in Clients :
         /\ Continues(client[d], peer[d].got, client'[d], peer'[d].got)
         /\ client'[d].life = "freed" => Ended(d) /\ ~client'[d].display_resource
  BY <1>1, SameContinues DEF WordInv, Ended
<1>11. QED
  BY <1>1, <1>7, <1>8, <1>9, <1>10, WordContinues

LEMMA DestroyResourceWord ==
  ASSUME ListenersInv, MemoryInv, WordInv, destroy_resource
  PROVE  WordInv'
<1> DEFINE c     == Top.c
           id    == Top.id
           n     == Len(stack)
           kind  == client[c].objects[id]
           user  == Handler(c, id)
           after == FrameOf("free_resource", c, id)
<1>1. /\ At("destroy_resource") /\ UNCHANGED <<client, scenario, peer>>
      /\ IF kind = "object" THEN Call(user, after) ELSE Goto(after)
  BY DEF destroy_resource, otherVars
<1>2. /\ Top.at = "destroy_resource" /\ c \in Clients /\ Top = stack[n]
      /\ StackShape /\ n \in DOMAIN stack /\ DisplayIs(client[c])
  BY <1>1, AtOwner, StackNow DEF Owners, Resource
<1>3. /\ after.at = "free_resource" /\ after.c = c /\ after.id = id /\ user.at = "user"
  BY DEF FrameOf, Handler
<1>4. client[c].display_resource /\ id = Display => kind # "object"
  BY <1>2 DEF DisplayIs
<1> HIDE DEF user, after, kind
<1>5. /\ stack'[n] = after /\ \A i \in DOMAIN stack : i # n => stack'[i] = stack[i]
      /\ \A i \in DOMAIN stack' : i \in DOMAIN stack \/ stack'[i] = user
      /\ kind # "object" => Len(stack') = n
  BY <1>1, <1>2, Called, Gone
<1>6. \A i \in DOMAIN stack' : Plain(stack'[i])
  BY <1>3, <1>5 DEF WordInv, Plain
<1>7. \A d \in Clients : Walked(d)' => Walked(d)
  BY <1>3, <1>5 DEF Walked
<1>8. DisplayFirst'
  <2> SUFFICES ASSUME NEW i \in DOMAIN stack', stack'[i].at = "client_resources",
                      client[stack'[i].c].display_resource
               PROVE  i + 1 = Len(stack') /\ Goes(stack'[i + 1], stack'[i].c, Display)
    BY <1>1 DEF DisplayFirst
  <2>1. i \in DOMAIN stack /\ i # n /\ stack'[i] = stack[i]
    BY <1>3, <1>5
  <2>2. i + 1 = n /\ Goes(Top, stack[i].c, Display)
    BY <2>1, DisplayNext DEF n
  <2>3. stack[i].c = c /\ id = Display
    BY <2>2 DEF Goes
  <2>4. kind # "object"
    BY <1>4, <2>1, <2>3
  <2>5. QED
    BY <1>3, <1>5, <2>1, <2>2, <2>3, <2>4 DEF Goes
<1>9. \A d \in Clients :
        /\ Continues(client[d], peer[d].got, client'[d], peer'[d].got)
        /\ client'[d].life = "freed" => Ended(d) /\ ~client'[d].display_resource
  BY <1>1, SameContinues DEF WordInv, Ended
<1>10. QED
  BY <1>1, <1>6, <1>7, <1>8, <1>9, WordContinues

LEMMA FreeResourceWord ==
  ASSUME ListenersInv, MemoryInv, WordInv, FreeResource
  PROVE  WordInv'
<1> DEFINE c  == Top.c
           id == Top.id
           n  == Len(stack)
           cl == [client[c] EXCEPT !.display_resource = @ /\ id # Display,
                                   !.objects[id] = "freed"]
<1>1. /\ At("free_resource") /\ Return /\ UNCHANGED <<scenario, peer>>
      /\ client' = [client EXCEPT ![c].display_resource = @ /\ id # Display,
                                  ![c].objects[id] = "freed"]
  BY DEF FreeResource, otherVars
<1>2. /\ Top.at = "free_resource" /\ c \in Clients /\ Lives(client[c]) /\ StackShape
      /\ IsClient(client[c], Played.socket_space)
  BY <1>1, AtOwner DEF Owners, Resource
<1>3. client' = [client EXCEPT ![c] = cl]
  BY <1>1, <1>2 DEF MemoryInv, Types
<1>4. /\ cl.life = client[c].life /\ cl.up = client[c].up
      /\ cl.display_resource = (client[c].display_resource /\ id # Display)
      /\ cl.out = client[c].out /\ cl.to_client = client[c].to_client
      /\ cl.error = client[c].error /\ cl.want_flush = client[c].want_flush
  BY <1>2 DEF IsClient, ClientFields
<1> HIDE DEF cl
<1>5. Continues(client[c], peer[c].got, cl, peer[c].got) /\ cl.life # "freed" /\ cl.life # "none"
  BY <1>2, <1>4, SameContinues DEF Lives
<1>6. \A i \in DOMAIN stack' : i \in DOMAIN stack /\ i < n /\ stack'[i] = stack[i]
  BY <1>1, <1>2, Returned
<1>7. (\A i \in DOMAIN stack' : Plain(stack'[i])) /\ \A d \in Clients : Walked(d)' => Walked(d)
  BY <1>6 DEF WordInv, Walked
<1>8. client'[c] = cl /\ \A d \in Clients : d # c => client'[d] = client[d]
  BY <1>2, <1>3, OneClient DEF MemoryInv
<1>9. DisplayFirst'
  <2> SUFFICES ASSUME NEW i \in DOMAIN stack', stack'[i].at = "client_resources",
                      client'[stack'[i].c].display_resource
               PROVE  FALSE
    BY DEF DisplayFirst
  <2>1. i \in DOMAIN stack /\ i # n /\ stack'[i] = stack[i] /\ stack[i].c \in Clients
    BY <1>2, <1>6, StackNow, WalkedOne
  <2>2. client[stack[i].c].display_resource
    BY <1>4, <1>8, <2>1
  <2>3. Goes(Top, stack[i].c, Display)
    BY <2>1, <2>2, DisplayNext DEF n
  <2>4. stack[i].c = c /\ id = Display
    BY <2>3 DEF Goes
  <2>5. QED
    BY <1>4, <1>8, <2>1, <2>4
<1>10. QED
  BY <1>1, <1>2, <1>3, <1>4, <1>5, <1>7, <1>9, WalkKept

LEMMA FreeClientWord ==
  ASSUME ListenersInv, MemoryInv, WordInv, FreeClient
  PROVE  WordInv'
<1> DEFINE c  == Top.c
           n  == Len(stack)
           cl == [client[c] EXCEPT !.life = "freed"]
<1>1. /\ At("client_resources") /\ Top.id \notin Ids /\ Return /\ UNCHANGED <<scenario, peer>>
      /\ client' = [client EXCEPT ![c].life = "freed"]
  BY DEF FreeClient, otherVars
<1>2. /\ Top.at = "client_resources" /\ c \in Clients /\ Lives(client[c]) /\ StackShape
      /\ Top = stack[n] /\ n \in DOMAIN stack /\ IsClient(client[c], Played.socket_space)
  BY <1>1, AtDestroyer, StackNow DEF Destroyers
<1>3. client' = [client EXCEPT ![c] = cl]
  BY <1>1, <1>2 DEF MemoryInv, Types
<1>4. /\ cl.life = "freed" /\ cl.up = client[c].up
      /\ cl.display_resource = client[c].display_resource
      /\ cl.out = client[c].out /\ cl.to_client = client[c].to_client
      /\ cl.error = client[c].error /\ cl.want_flush = client[c].want_flush
  BY <1>2 DEF IsClient, ClientFields
<1> HIDE DEF cl
<1>5. Continues(client[c], peer[c].got, cl, peer[c].got)
  BY <1>4, SameContinues
<1>6. ~cl.display_resource /\ Walked(c)
  <2>1. Display \in Ids
    BY BoundsAssumption DEF Display, Ids
  <2>2. ~Goes(stack[n], c, Display)
    BY <1>2 DEF Goes
  <2>3. ASSUME client[c].display_resource PROVE Top.id = Display
    <3>1. n \in Nat
      BY <1>2, StackNow
    <3>2. n + 1 # n
      BY <3>1
    <3>3. QED
      BY <1>2, <2>3, <3>2 DEF WordInv, DisplayFirst
  <2>4. QED
    BY <1>1, <1>2, <1>4, <2>1, <2>3 DEF Walked
<1>7. \A i \in DOMAIN stack' : i \in DOMAIN stack /\ i < n /\ stack'[i] = stack[i]
  BY <1>1, <1>2, Returned
<1>8. (\A i \in DOMAIN stack' : Plain(stack'[i])) /\ \A d \in Clients : Walked(d)' => Walked(d)
  BY <1>7 DEF WordInv, Walked
<1>9. client'[c] = cl /\ \A d \in Clients : d # c => client'[d] = client[d]
  BY <1>2, <1>3, OneClient DEF MemoryInv
<1>10. DisplayFirst'
  <2> SUFFICES ASSUME NEW i \in DOMAIN stack', stack'[i].at = "client_resources",
                      client'[stack'[i].c].display_resource
               PROVE  FALSE
    BY DEF DisplayFirst
  <2>1. i \in DOMAIN stack /\ i # n /\ stack'[i] = stack[i] /\ stack[i].c \in Clients
    BY <1>2, <1>7, StackNow, WalkedOne
  <2>2. client[stack[i].c].display_resource
    BY <1>4, <1>9, <2>1
  <2>3. Goes(Top, stack[i].c, Display)
    BY <2>1, <2>2, DisplayNext DEF n
  <2>4. QED
    BY <1>2, <2>3 DEF Goes
<1>11. QED
  BY <1>1, <1>2, <1>3, <1>4, <1>5, <1>6, <1>8, <1>10, WalkKept

-----------------------------------------------------------------------------

LEMMA WordInit == Init => WordInv
<1> SUFFICES ASSUME Init PROVE WordInv
  OBVIOUS
<1> DEFINE f  == Frame("main", NULL)
           cl == [NewClient(<< >>, TRUE) EXCEPT !.life = "none"]
<1>1. /\ stack = <<f>> /\ \A c \in Clients : client[c] = cl /\ peer[c].got = << >>
  BY DEF Init
<1>2. cl.life = "none" /\ cl.out = << >> /\ cl.to_client = << >>
  BY DEF NewClient
<1>3. f.at = "main" /\ DOMAIN stack = {1} /\ stack[1] = f
  BY <1>1 DEF Frame
<1> HIDE DEF f, cl
<1>4. Speech(cl, << >>) = << >> /\ ErrorsIn(<< >>) = {}
  BY <1>2, EmptySequence, JoinEmpty DEF Speech, ErrorsIn
<1>5. Word(cl, << >>) /\ Delivered(cl, << >>)
  BY <1>4 DEF Word, Delivered
<1>6. QED
  BY <1>1, <1>2, <1>3, <1>4, <1>5 DEF WordInv, DisplayFirst, Plain

LEMMA WordStep ==
  ASSUME ListenersInv, MemoryInv, WordInv, [Next]_vars
  PROVE  WordInv'
<1>1. CASE UNCHANGED vars
  BY <1>1, TerminateWord
<1>2. CASE Next
  <2>1. CASE \/ wl_display_run \/ LoopTest \/ FlushClient \/ FlushNext \/ Poll \/ DispatchSource
             \/ DispatchEnds
    BY <2>1, LoopWord, FlushWord, DispatchSourceWord
  <2>2. CASE \/ wl_client_create \/ wl_priv_signal_emit \/ wl_client_connection_data
             \/ RejectRequest \/ display_get_registry \/ display_sync \/ registry_bind
             \/ HandleDestroy \/ RequestsEnd
    BY <2>2, CreateWord, QuietWord, ReadWord, RequestWord, SyncWord
  <2>3. CASE Announce \/ AnnouncementEnds \/ TellGlobal
    BY <2>3, AnnounceWord, QuietWord, TellWord
  <2>4. CASE \/ wl_resource_destroy \/ DeleteId \/ destroy_resource \/ FreeResource
             \/ wl_client_destroy \/ FlushLast \/ EachResource \/ FreeClient
             \/ wl_display_destroy_clients \/ DestroyDetached
    BY <2>4, QuietWord, DeleteIdWord, DestroyResourceWord, FreeResourceWord, ClientDestroyWord,
       FlushLastWord, EachResourceWord, FreeClientWord
  <2>5. CASE CallGlobal \/ CallPost \/ CallDestroy \/ CallListen \/ HandlerReturns
    BY <2>5, CallWord, CallPostWord, QuietWord
  <2>6. CASE \/ Terminate \/ TerminateWakes
             \/ \E c \in Clients : PeerSends(c) \/ PeerReads(c)
    BY <2>6, TerminateWord, PeerSendsWord, PeerReadsWord
  <2>7. QED
    BY <1>2, <2>1, <2>2, <2>3, <2>4, <2>5, <2>6 DEF Next, ServerStep
<1>3. QED
  BY <1>1, <1>2

LEMMA WordInvariance == Spec => [](ListenersInv /\ MemoryInv /\ WordInv)
<1>1. Init => ListenersInv /\ MemoryInv /\ WordInv
  BY ListenersInit, MemoryInit, WordInit
<1>2. ListenersInv /\ MemoryInv /\ WordInv /\ [Next]_vars => (ListenersInv /\ MemoryInv /\ WordInv)'
  BY ListenersStep, MemoryStep, WordStep
<1>3. QED
  BY <1>1, <1>2, PTL DEF Spec

LEMMA WordFollows == WordInv => ErrorIsLastWord
<1> SUFFICES ASSUME WordInv, NEW c \in Clients, Errors(c) # {}
             PROVE  /\ Errors(c) = {Len(Said(c))}
                    /\ client[c].life = "freed" /\ client[c].up
                         /\ Len(Said(c)) <= Played.socket_space => client[c].out = << >>
  BY DEF ErrorIsLastWord
<1>1. Said(c) = Speech(client[c], peer[c].got)
  BY DEF Said, Speech
<1>2. Errors(c) = ErrorsIn(Speech(client[c], peer[c].got))
  BY <1>1 DEF Errors, ErrorsIn
<1>3. QED
  BY <1>1, <1>2 DEF WordInv, Word, Ended, Delivered

(* The error a client is destroyed for is the last thing it is told, and   *)
(* it has been written to its socket, if that has room, when the client has*)
(* been freed: whatever handlers and listeners post while the client is    *)
(* destroyed, and whatever its buffer held (wl_client_destroy,             *)
(* wl_resource_post_error_vargs, wl_resource_post_event).                  *)
THEOREM ErrorsAreLast == Spec => []ErrorIsLastWord
BY WordInvariance, WordFollows, PTL

=================================================================================
