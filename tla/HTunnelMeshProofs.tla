-------------------------- MODULE HTunnelMeshProofs --------------------------
(***************************************************************************)
(* Theorem about HTunnelMesh, the frames of a P2P link carried in HTTP     *)
(* bodies: FramesSound for every value of the constants.  FramesSound is   *)
(* not inductive: that a frame is in one place at most needs, of each of   *)
(* the sequences on the way, that it holds a frame once; that a batch      *)
(* never overwrites another needs that the GETs the dispatcher knows are   *)
(* those that wait and were given nothing; and that nothing is lost before *)
(* a fault needs that an answer without a listener, an error or a closed   *)
(* end come after one.  Located says it as a function from the places to   *)
(* the frames they hold; a step moves, adds or drops frames there.         *)
(***************************************************************************)
EXTENDS HTunnelMesh, SeqLemmas

-----------------------------------------------------------------------------
(* The inductive invariant.                                                *)

Frames == Nat \ {0}                       \* 0 is an error
Queued == Gets \cup (Loops \X {0})        \* what getWaiters and the waiters hold

\* The sets the variables range over.
MeshTypes ==
    /\ dir \in {"down", "up"} /\ disp \in {"select", "flush"}
    /\ nDown \in Nat /\ nUp \in Nat /\ trouble \in Nat /\ timeouts \in Nat /\ dataBytes \in Int
    /\ chGone \in BOOLEAN /\ tClosed \in BOOLEAN
    /\ dataOut \in Seq(Frames) /\ ctrlOut \in Seq(Frames) /\ dataQ \in Seq(Frames) /\ ctrlQ \in Seq(Frames)
    /\ meshIn \in Seq(Frames) /\ ctrlRecv \in Seq(Nat) /\ dataRecv \in Seq(Nat)
    /\ batch \in [Gets -> Seq(Frames)] /\ todo \in [Loops -> Seq(Nat)]
    /\ post \in [Posts -> [st : {"free", "net"}, left : Seq(Frames)]]
    /\ taken \in SUBSET Nat /\ aqm \in SUBSET Nat
    /\ waiters \in Seq(Queued) /\ getQ \in Seq(Queued)
    /\ gpc \in [Gets -> {"none", "net", "wait", "left", "answered"}] /\ code \in [Gets -> {0, 200, 408, 410}]
    /\ loop \in [Loops -> {"get", "await", "route", "over"}] /\ listens \in [Loops -> {1, 2}]

\* No channel holds more than its capacity.
Lengths ==
    /\ Len(dataOut) <= OutLen /\ Len(ctrlOut) <= OutLen /\ Len(meshIn) <= OutLen
    /\ Len(getQ) <= GetLen /\ Len(ctrlRecv) <= RecvLen /\ Len(dataRecv) <= RecvLen

\* What is of S is in the sequence once.
Once(s, S) == \A i, j \in 1 .. Len(s) : s[i] = s[j] /\ s[i] \in S => i = j
OnceEach ==
    /\ Once(dataOut, Frames) /\ Once(ctrlOut, Frames) /\ Once(dataQ, Frames) /\ Once(ctrlQ, Frames)
    /\ Once(meshIn, Frames) /\ Once(ctrlRecv, Frames) /\ Once(dataRecv, Frames)
    /\ \A g \in Gets : Once(batch[g], Frames)
    /\ \A l \in Loops : Once(todo[l], Frames)
    /\ \A p \in Posts : Once(post[p].left, Frames)

\* The places a frame can be in, and what is there.
MeshPlaces ==
    ({"do", "co", "dq", "cq", "cr", "dr", "in", "end"} \X {0})
      \cup ({"get"} \X Gets) \cup ({"loop"} \X Loops) \cup ({"post"} \X Posts)
Held ==
    [x \in MeshPlaces |->
        CASE x[1] = "do" -> ToSet(dataOut) [] x[1] = "co" -> ToSet(ctrlOut)
          [] x[1] = "dq" -> ToSet(dataQ) [] x[1] = "cq" -> ToSet(ctrlQ)
          [] x[1] = "cr" -> ToSet(ctrlRecv) [] x[1] = "dr" -> ToSet(dataRecv)
          [] x[1] = "in" -> ToSet(meshIn) [] x[1] = "end" -> taken \cup aqm
          [] x[1] = "get" -> ToSet(batch[x[2]]) [] x[1] = "loop" -> ToSet(todo[x[2]])
          [] OTHER -> ToSet(post[x[2]].left)]

\* Every frame is in one place at most; the first m are somewhere.
Alone(h) == \A n \in Frames : \A x, y \in MeshPlaces : n \in h[x] /\ n \in h[y] => x = y
AllSent(h, m) == \A n \in 1 .. m : \E x \in MeshPlaces : n \in h[x]
\* Where the frames are: while nothing broke, every frame that was sent is somewhere.
\* Only one of the two ends sends.
Located ==
    /\ Alone(Held) /\ (trouble = 0 => AllSent(Held, nDown + nUp))
    /\ \A x \in MeshPlaces : Held[x] \subseteq 0 .. (nDown + nUp)
    /\ (nDown # 0 => dir = "down") /\ (nUp # 0 => dir = "up")

\* The registrations that have not given up are there once.
Registered ==
    /\ Once(waiters, Gets) /\ Once(getQ, Gets)
    /\ \A g \in Gets : ~ (g \in ToSet(waiters) /\ g \in ToSet(getQ))
    /\ \A g \in Gets : g \in ToSet(waiters) \cup ToSet(getQ) => gpc[g] = "wait" /\ batch[g] = <<>>
    /\ chGone => waiters = <<>> /\ getQ = <<>> /\ disp = "select"

\* What a GET was given, and how it was answered.
Answers ==
    \A g \in Gets :
        /\ gpc[g] \in {"none", "net"} => batch[g] = <<>>
        /\ gpc[g] = "answered" => /\ code[g] # 0 /\ (code[g] = 410 => trouble > 0)
                                  /\ code[g] = 408 => batch[g] = <<>>
                                  /\ code[g] = 200 => batch[g] # <<>>
        /\ gpc[g] # "none" /\ trouble = 0 => loop[g[1]] = "await" /\ listens[g[1]] = g[2]

\* A loop routes what is left of its batch; an error is a batch of its own.  A free
\* POST carries nothing.
Routing ==
    /\ \A l \in Loops :
          /\ loop[l] = "route" <=> todo[l] # <<>>
          /\ 0 \in ToSet(todo[l]) => todo[l] = <<0>>
    /\ \A p \in Posts : post[p].st = "free" => post[p].left = <<>>

\* Whatever is lost, something broke or was closed first.
Unbroken ==
    trouble = 0 => /\ ~chGone /\ ~tClosed
                   /\ 0 \notin ToSet(ctrlRecv) /\ 0 \notin ToSet(dataRecv)
                   /\ \A l \in Loops : 0 \notin ToSet(todo[l])

\* The inductive invariant.
MeshInv == /\ MeshTypes /\ Lengths /\ OnceEach /\ Located /\ Registered /\ Answers /\ Routing /\ Unbroken
           /\ BytesExact /\ WorkConserving

-----------------------------------------------------------------------------
(* Sequences of frames and of registrations, and their bytes.              *)

\* An empty sequence repeats nothing.
LEMMA OnceEmpty == ASSUME NEW S PROVE Once(<<>>, S)
BY DEF Once

\* What appending e does to a sequence and to what it holds.
LEMMA PutLast ==
    ASSUME NEW S, NEW T, NEW s \in Seq(T), NEW e \in T
    PROVE  /\ Append(s, e) \in Seq(T) /\ Len(Append(s, e)) = Len(s) + 1
           /\ ToSet(Append(s, e)) = ToSet(s) \cup {e} /\ Append(s, e) # <<>>
           /\ Once(s, S) /\ (e \notin S \/ e \notin ToSet(s)) => Once(Append(s, e), S)
<1> DEFINE t == Append(s, e)
<1>1. /\ t \in Seq(T) /\ Len(t) = Len(s) + 1 /\ t # <<>>
      /\ \A i \in 1 .. Len(s) : t[i] = s[i]
      /\ t[Len(s) + 1] = e
  BY AppendProperties
<1>2. Len(s) \in Nat BY LenProperties
<1>3. ToSet(t) = ToSet(s) \cup {e} BY AppendLemma
<1>4. \A i \in 1 .. Len(s) : s[i] \in ToSet(s) BY ToSetType
<1>5. ASSUME Once(s, S), e \notin S \/ e \notin ToSet(s) PROVE Once(t, S)
  BY <1>1, <1>2, <1>4, <1>5 DEF Once
<1> QED BY <1>1, <1>3, <1>5

\* What taking the first element does to a sequence and to what it holds.
LEMMA TakeFirst ==
    ASSUME NEW S, NEW T, NEW s \in Seq(T), s # <<>>
    PROVE  /\ Tail(s) \in Seq(T) /\ Len(Tail(s)) = Len(s) - 1 /\ Head(s) = s[1] /\ Head(s) \in T
           /\ Head(s) \in ToSet(s) /\ ToSet(s) = ToSet(Tail(s)) \cup {Head(s)}
           /\ Once(s, S) => Once(Tail(s), S)
           /\ Once(s, S) /\ Head(s) \in S => Head(s) \notin ToSet(Tail(s))
           /\ Len(s) = 1 => Tail(s) = <<>>
           /\ Len(s) # 1 => Tail(s) # <<>>
<1> DEFINE t == Tail(s)
<1>1. Len(s) \in Nat \ {0} BY EmptySeq, LenProperties
<1>2. t \in Seq(T) /\ Head(s) \in T /\ Head(s) \in ToSet(s) BY TailLemma
<1>3. Head(s) = s[1] OBVIOUS
<1>4. Len(t) = Len(s) - 1 /\ \A i \in 1 .. Len(s) - 1 : t[i] = s[i + 1] BY HeadTailProperties
<1>5. ToSet(s) = ToSet(t) \cup {Head(s)}
  <2>1. \A e : e \in ToSet(s) <=> \E i \in 1 .. Len(s) : s[i] = e BY ToSetType
  <2>2. \A e : e \in ToSet(t) <=> \E i \in 1 .. Len(t) : t[i] = e BY <1>2, ToSetType
  <2>3. ASSUME NEW e \in ToSet(s) PROVE e \in ToSet(t) \cup {Head(s)}
    <3>1. PICK i \in 1 .. Len(s) : s[i] = e BY <2>1
    <3>2. CASE i = 1 BY <1>3, <3>1, <3>2
    <3>3. CASE i # 1
      <4>1. i - 1 \in 1 .. Len(s) - 1 /\ t[i - 1] = s[(i - 1) + 1] /\ (i - 1) + 1 = i BY <1>1, <1>4, <3>3
      <4> QED BY <1>4, <2>2, <3>1, <4>1
    <3> QED BY <3>2, <3>3
  <2>4. ASSUME NEW e \in ToSet(t) PROVE e \in ToSet(s)
    <3>1. PICK i \in 1 .. Len(t) : t[i] = e BY <2>2
    <3>2. i + 1 \in 1 .. Len(s) /\ s[i + 1] = e BY <1>1, <1>4, <3>1
    <3> QED BY <2>1, <3>2
  <2> QED BY <1>2, <2>3, <2>4
<1>6. ASSUME Once(s, S) PROVE Once(t, S)
  <2> SUFFICES ASSUME NEW i \in 1 .. Len(t), NEW j \in 1 .. Len(t), t[i] = t[j], t[i] \in S PROVE i = j BY DEF Once
  <2>1. i + 1 \in 1 .. Len(s) /\ j + 1 \in 1 .. Len(s) BY <1>1, <1>4
  <2>2. s[i + 1] = s[j + 1] /\ s[i + 1] \in S BY <1>4
  <2>3. i + 1 = j + 1 BY <1>6, <2>1, <2>2 DEF Once
  <2> QED BY <1>1, <1>4, <2>3
<1>7. ASSUME Once(s, S), Head(s) \in S PROVE Head(s) \notin ToSet(t)
  <2> SUFFICES ASSUME Head(s) \in ToSet(t) PROVE FALSE OBVIOUS
  <2>1. PICK i \in 1 .. Len(t) : t[i] = Head(s) BY <1>2, ToSetType
  <2>2. i + 1 \in 1 .. Len(s) /\ 1 \in 1 .. Len(s) /\ s[i + 1] = s[1] /\ s[1] \in S BY <1>1, <1>3, <1>4, <1>7, <2>1
  <2>3. i + 1 = 1 BY <1>7, <2>2 DEF Once
  <2> QED BY <1>4, <1>1, <2>3
<1>8. (Len(s) = 1 => t = <<>>) /\ (Len(s) # 1 => t # <<>>) BY <1>1, <1>2, <1>4, EmptySeq
<1> QED BY <1>2, <1>3, <1>4, <1>5, <1>6, <1>7, <1>8

\* Two sequences one behind the other hold what both hold, once if they share nothing.
LEMMA Joined ==
    ASSUME NEW S, NEW T, NEW s \in Seq(T), NEW t \in Seq(T)
    PROVE  /\ s \o t \in Seq(T) /\ Len(s \o t) = Len(s) + Len(t)
           /\ ToSet(s \o t) = ToSet(s) \cup ToSet(t)
           /\ Once(s, S) /\ Once(t, S) /\ ToSet(s) \cap ToSet(t) \cap S = {} => Once(s \o t, S)
<1>1. PICK u : u = s \o t OBVIOUS
<1>2. Len(s) \in Nat /\ Len(t) \in Nat BY LenProperties
<1>3. u \in Seq(T) /\ Len(u) = Len(s) + Len(t) BY <1>1, ConcatProperties
<1>4. /\ \A i \in 1 .. Len(s) : u[i] = s[i]
      /\ \A i \in 1 .. Len(t) : u[Len(s) + i] = t[i]
  <2>1. \A i \in 1 .. Len(s) + Len(t) : u[i] = IF i <= Len(s) THEN s[i] ELSE t[i - Len(s)] BY <1>1, ConcatProperties
  <2>2. ASSUME NEW i \in 1 .. Len(t) PROVE u[Len(s) + i] = t[i]
    <3>1. Len(s) + i \in 1 .. Len(s) + Len(t) /\ ~(Len(s) + i <= Len(s)) /\ (Len(s) + i) - Len(s) = i BY <1>2
    <3> QED BY <2>1, <3>1
  <2>3. ASSUME NEW i \in 1 .. Len(s) PROVE u[i] = s[i]
    <3>1. i \in 1 .. Len(s) + Len(t) /\ i <= Len(s) BY <1>2
    <3> QED BY <2>1, <3>1
  <2> QED BY <2>2, <2>3
<1>5. \A i \in 1 .. Len(u) : i \in 1 .. Len(s) \/ (i - Len(s) \in 1 .. Len(t) /\ u[i] = t[i - Len(s)])
  <2> TAKE i \in 1 .. Len(u)
  <2>1. CASE i <= Len(s) BY <1>2, <1>3, <2>1
  <2>2. CASE ~(i <= Len(s))
    <3>1. i - Len(s) \in 1 .. Len(t) /\ Len(s) + (i - Len(s)) = i BY <1>2, <1>3, <2>2
    <3> QED BY <1>4, <3>1
  <2> QED BY <2>1, <2>2
<1>6. /\ \A e : e \in ToSet(s) <=> \E i \in 1 .. Len(s) : s[i] = e
      /\ \A e : e \in ToSet(t) <=> \E i \in 1 .. Len(t) : t[i] = e
      /\ \A e : e \in ToSet(u) <=> \E i \in 1 .. Len(u) : u[i] = e
  BY <1>3, ToSetType
<1>7. ToSet(u) = ToSet(s) \cup ToSet(t)
  <2>1. ASSUME NEW e \in ToSet(u) PROVE e \in ToSet(s) \cup ToSet(t)
    <3>1. PICK i \in 1 .. Len(u) : u[i] = e BY <1>6
    <3> QED BY <1>4, <1>5, <1>6, <3>1
  <2>2. ASSUME NEW e \in ToSet(s) PROVE e \in ToSet(u)
    <3>1. PICK i \in 1 .. Len(s) : s[i] = e BY <1>6
    <3>2. i \in 1 .. Len(u) BY <1>2, <1>3
    <3> QED BY <1>4, <1>6, <3>1, <3>2
  <2>3. ASSUME NEW e \in ToSet(t) PROVE e \in ToSet(u)
    <3>1. PICK i \in 1 .. Len(t) : t[i] = e BY <1>6
    <3>2. Len(s) + i \in 1 .. Len(u) BY <1>2, <1>3
    <3> QED BY <1>4, <1>6, <3>1, <3>2
  <2> QED BY <2>1, <2>2, <2>3
<1>8. ASSUME Once(s, S), Once(t, S), ToSet(s) \cap ToSet(t) \cap S = {} PROVE Once(u, S)
  <2> SUFFICES ASSUME NEW i \in 1 .. Len(u), NEW j \in 1 .. Len(u), u[i] = u[j], u[i] \in S PROVE i = j BY DEF Once
  <2>1. CASE i \in 1 .. Len(s) /\ j \in 1 .. Len(s) BY <1>4, <1>8, <2>1 DEF Once
  <2>2. CASE i \notin 1 .. Len(s) /\ j \notin 1 .. Len(s)
    <3>1. i - Len(s) \in 1 .. Len(t) /\ j - Len(s) \in 1 .. Len(t) /\ t[i - Len(s)] = t[j - Len(s)] /\ t[i - Len(s)] \in S
      BY <1>5, <2>2
    <3>2. i - Len(s) = j - Len(s) BY <1>8, <3>1 DEF Once
    <3> QED BY <1>2, <3>2
  <2>3. CASE i \in 1 .. Len(s) /\ j \notin 1 .. Len(s)
    <3>1. u[i] \in ToSet(s) /\ u[j] \in ToSet(t) BY <1>4, <1>5, <1>6, <2>3
    <3> QED BY <1>8, <3>1
  <2>4. CASE i \notin 1 .. Len(s) /\ j \in 1 .. Len(s)
    <3>1. u[j] \in ToSet(s) /\ u[i] \in ToSet(t) BY <1>4, <1>5, <1>6, <2>4
    <3> QED BY <1>8, <3>1
  <2> QED BY <2>1, <2>2, <2>3, <2>4
<1> QED BY <1>1, <1>3, <1>7, <1>8

\* The two parts of a sequence cut behind its k-th element share what it holds.
LEMMA Cut ==
    ASSUME NEW S, NEW T, NEW s \in Seq(T), NEW k \in 0 .. Len(s)
    PROVE  /\ SubSeq(s, 1, k) \in Seq(T) /\ SubSeq(s, k + 1, Len(s)) \in Seq(T)
           /\ Len(SubSeq(s, 1, k)) = k /\ Len(SubSeq(s, k + 1, Len(s))) = Len(s) - k
           /\ \A i \in 1 .. k : SubSeq(s, 1, k)[i] = s[i]
           /\ \A i \in 1 .. Len(s) - k : SubSeq(s, k + 1, Len(s))[i] = s[k + i]
           /\ ToSet(s) = ToSet(SubSeq(s, 1, k)) \cup ToSet(SubSeq(s, k + 1, Len(s)))
           /\ Once(s, S) => /\ Once(SubSeq(s, 1, k), S) /\ Once(SubSeq(s, k + 1, Len(s)), S)
                         /\ ToSet(SubSeq(s, 1, k)) \cap ToSet(SubSeq(s, k + 1, Len(s))) \cap S = {}
<1>1. PICK a, b : a = SubSeq(s, 1, k) /\ b = SubSeq(s, k + 1, Len(s)) OBVIOUS
<1>2. Len(s) \in Nat /\ k \in Nat /\ k <= Len(s) BY LenProperties
<1>3. a \in Seq(T) /\ Len(a) = k /\ \A i \in 1 .. k : a[i] = s[i] BY <1>1, <1>2, SubSeqProperties
<1>4. b \in Seq(T) /\ Len(b) = Len(s) - k /\ \A i \in 1 .. Len(s) - k : b[i] = s[k + i]
  <2>1. /\ b \in Seq(T) /\ Len(b) = IF k + 1 <= Len(s) THEN Len(s) - (k + 1) + 1 ELSE 0
        /\ \A i \in 1 .. Len(s) - (k + 1) + 1 : b[i] = s[(k + 1) + i - 1]
    BY <1>1, <1>2, SubSeqProperties
  <2>2. Len(b) = Len(s) - k /\ Len(s) - (k + 1) + 1 = Len(s) - k BY <1>2, <2>1
  <2>3. \A i \in 1 .. Len(s) - k : (k + 1) + i - 1 = k + i BY <1>2
  <2> QED BY <2>1, <2>2, <2>3
<1>5. /\ \A e : e \in ToSet(s) <=> \E i \in 1 .. Len(s) : s[i] = e
      /\ \A e : e \in ToSet(a) <=> \E i \in 1 .. k : a[i] = e
      /\ \A e : e \in ToSet(b) <=> \E i \in 1 .. Len(s) - k : b[i] = e
  BY <1>3, <1>4, ToSetType
<1>6. ToSet(s) = ToSet(a) \cup ToSet(b)
  <2>1. ASSUME NEW e \in ToSet(s) PROVE e \in ToSet(a) \cup ToSet(b)
    <3>1. PICK i \in 1 .. Len(s) : s[i] = e BY <1>5
    <3>2. CASE i <= k
      <4>1. i \in 1 .. k BY <1>2, <3>2
      <4> QED BY <1>3, <1>5, <3>1, <4>1
    <3>3. CASE ~(i <= k)
      <4>1. i - k \in 1 .. Len(s) - k /\ k + (i - k) = i BY <1>2, <3>3
      <4> QED BY <1>4, <1>5, <3>1, <4>1
    <3> QED BY <3>2, <3>3
  <2>2. ASSUME NEW e \in ToSet(a) PROVE e \in ToSet(s)
    <3>1. PICK i \in 1 .. k : a[i] = e BY <1>5
    <3>2. i \in 1 .. Len(s) BY <1>2
    <3> QED BY <1>3, <1>5, <3>1, <3>2
  <2>3. ASSUME NEW e \in ToSet(b) PROVE e \in ToSet(s)
    <3>1. PICK i \in 1 .. Len(s) - k : b[i] = e BY <1>5
    <3>2. k + i \in 1 .. Len(s) BY <1>2
    <3> QED BY <1>4, <1>5, <3>1, <3>2
  <2> QED BY <2>1, <2>2, <2>3
<1>7. ASSUME Once(s, S) PROVE Once(a, S) /\ Once(b, S) /\ ToSet(a) \cap ToSet(b) \cap S = {}
  <2>1. Once(a, S)
    <3> SUFFICES ASSUME NEW i \in 1 .. k, NEW j \in 1 .. k, a[i] = a[j], a[i] \in S PROVE i = j BY <1>3 DEF Once
    <3>1. i \in 1 .. Len(s) /\ j \in 1 .. Len(s) BY <1>2
    <3> QED BY <1>3, <1>7, <3>1 DEF Once
  <2>2. Once(b, S)
    <3> SUFFICES ASSUME NEW i \in 1 .. Len(s) - k, NEW j \in 1 .. Len(s) - k, b[i] = b[j], b[i] \in S PROVE i = j
      BY <1>4 DEF Once
    <3>1. k + i \in 1 .. Len(s) /\ k + j \in 1 .. Len(s) BY <1>2
    <3>2. k + i = k + j BY <1>4, <1>7, <3>1 DEF Once
    <3> QED BY <1>2, <3>2
  <2>3. ASSUME NEW e \in ToSet(a), e \in ToSet(b), e \in S PROVE FALSE
    <3>1. PICK i \in 1 .. k : a[i] = e BY <1>5
    <3>2. PICK j \in 1 .. Len(s) - k : b[j] = e BY <1>5, <2>3
    <3>3. i \in 1 .. Len(s) /\ k + j \in 1 .. Len(s) BY <1>2
    <3>4. s[i] = s[k + j] /\ s[i] \in S BY <1>3, <1>4, <2>3, <3>1, <3>2
    <3>5. i = k + j BY <1>7, <3>3, <3>4 DEF Once
    <3> QED BY <1>2, <3>5
  <2> QED BY <2>1, <2>2, <2>3
<1> QED BY <1>1, <1>3, <1>4, <1>6, <1>7, Zenon

\* The largest element of a set of numbers up to n that holds 0.
LEMMA MaxUpTo ==
    ASSUME NEW n \in Nat, NEW K \in SUBSET (0 .. n), 0 \in K
    PROVE  Max(K) \in K
<1>1. PICK J : J = {n - x : x \in K} OBVIOUS
<1>2. J \in SUBSET Nat /\ J # {} BY <1>1
<1>3. PICK m : m = Min(J) OBVIOUS
<1>4. m \in J /\ \A y \in J : m <= y BY <1>2, <1>3, MinOfNats
<1>5. PICK x \in K : m = n - x BY <1>1, <1>4
<1>6. \A y \in K : y <= x
  <2> TAKE y \in K
  <2>1. n - y \in J BY <1>1
  <2>2. n - x <= n - y BY <1>4, <1>5, <2>1
  <2> QED BY <2>2
<1> QED BY <1>5, <1>6 DEF Max

-----------------------------------------------------------------------------
\* A frame has one byte or two.
LEMMA SizeIs == ASSUME NEW n \in Nat PROVE Size(n) \in {1, 2}
BY DEF Size

\* The bytes of a sequence of frames are a sum over its positions.
LEMMA BytesSum ==
    ASSUME NEW s \in Seq(Nat)
    PROVE  /\ Bytes(s) = SumFunctionOnSet([i \in 1 .. Len(s) |-> Size(s[i])], 1 .. Len(s)) /\ Bytes(s) \in Nat
           /\ Len(s) \in Nat /\ \A i \in 1 .. Len(s) : Size(s[i]) \in Nat
<1>1. DOMAIN s = 1 .. Len(s) /\ Len(s) \in Nat BY LenProperties
<1>2. PICK f : f = [i \in 1 .. Len(s) |-> Size(s[i])] OBVIOUS
<1>3. Bytes(s) = SumFunctionOnSet(f, 1 .. Len(s)) BY <1>1, <1>2 DEF Bytes, SumFunction, FoldFunction, SumFunctionOnSet
<1>4. \A i \in 1 .. Len(s) : s[i] \in Nat BY ElementOfSeq
<1>5. \A i \in 1 .. Len(s) : Size(s[i]) \in Nat BY <1>4, SizeIs
<1>6. IsFiniteSet(1 .. Len(s)) BY <1>1, FS_Interval
<1>7. SumFunctionOnSet(f, 1 .. Len(s)) \in Nat BY <1>2, <1>5, <1>6, SumNat
<1> QED BY <1>1, <1>2, <1>3, <1>5, <1>7

\* No frames, no bytes.
LEMMA BytesEmpty == Bytes(<<>>) = 0
<1>1. <<>> \in Seq(Nat) /\ Len(<<>>) = 0 /\ 1 .. 0 = {} OBVIOUS
<1>2. PICK f, e : f = [i \in 1 .. 0 |-> Size(e[i])] /\ e = <<>> OBVIOUS
<1>3. Bytes(e) = SumFunctionOnSet(f, 1 .. 0) BY <1>1, <1>2, BytesSum
<1> QED BY <1>1, <1>2, <1>3, SumEmpty

\* The bytes of two sequences that make up a third.
LEMMA BytesSplit ==
    ASSUME NEW u \in Seq(Nat), NEW s \in Seq(Nat), NEW t \in Seq(Nat), Len(u) = Len(s) + Len(t),
           \A i \in 1 .. Len(s) : u[i] = s[i], \A i \in 1 .. Len(t) : u[Len(s) + i] = t[i]
    PROVE  Bytes(u) = Bytes(s) + Bytes(t)
<1>1. PICK f, g, h : /\ f = [i \in 1 .. Len(u) |-> Size(u[i])] /\ g = [i \in 1 .. Len(t) |-> Size(t[i])]
                     /\ h = [i \in 1 .. Len(s) |-> Size(s[i])]
  OBVIOUS
<1>2. /\ Bytes(u) = SumFunctionOnSet(f, 1 .. Len(u)) /\ Bytes(t) = SumFunctionOnSet(g, 1 .. Len(t))
      /\ Bytes(s) = SumFunctionOnSet(h, 1 .. Len(s)) /\ Len(s) \in Nat /\ Len(t) \in Nat
      /\ \A i \in 1 .. Len(u) : Size(u[i]) \in Nat
  BY <1>1, BytesSum
<1>3. PICK k, n : k = Len(s) /\ n = Len(t) OBVIOUS
<1>4. k \in Nat /\ n \in Nat /\ Len(u) = k + n BY <1>2, <1>3
<1>5. \A i \in 1 .. k + n : f[i] \in Int BY <1>1, <1>2, <1>4
<1>6. \A i \in 1 .. n : g[i] = f[k + i]
  <2> TAKE i \in 1 .. n
  <2>1. k + i \in 1 .. Len(u) BY <1>4
  <2> QED BY <1>1, <1>3, <2>1
<1>7. SumFunctionOnSet(f, 1 .. Len(u)) = SumFunctionOnSet(f, 1 .. k) + SumFunctionOnSet(g, 1 .. n)
  <2>1. PICK m : m = Len(u) OBVIOUS
  <2>2. m \in Nat /\ m = k + n BY <1>4, <2>1
  <2>3. \A i \in 1 .. m : f[i] \in Int BY <1>5, <2>2
  <2> QED BY ONLY <1>4, <1>6, <2>1, <2>2, <2>3, SumSplit
<1>8. \A x \in 1 .. k : f[x] = h[x]
  <2> TAKE x \in 1 .. k
  <2>1. x \in 1 .. Len(u) BY <1>4
  <2> QED BY <1>1, <1>3, <2>1
<1>9. SumFunctionOnSet(f, 1 .. k) = SumFunctionOnSet(h, 1 .. k)
  <2>1. IsFiniteSet(1 .. k) BY <1>4, FS_Interval
  <2> QED BY <1>8, <2>1, SumCongruence, Zenon
<1> QED BY <1>2, <1>3, <1>4, <1>7, <1>9

\* Bytes of a concatenation.
LEMMA BytesJoined == ASSUME NEW s \in Seq(Nat), NEW t \in Seq(Nat) PROVE Bytes(s \o t) = Bytes(s) + Bytes(t)
<1>1. PICK u : u = s \o t OBVIOUS
<1>2. Len(s) \in Nat /\ Len(t) \in Nat BY LenProperties
<1>3. u \in Seq(Nat) /\ Len(u) = Len(s) + Len(t) BY <1>1, ConcatProperties
<1>4. \A i \in 1 .. Len(s) + Len(t) : u[i] = IF i <= Len(s) THEN s[i] ELSE t[i - Len(s)] BY <1>1, ConcatProperties
<1>5. \A i \in 1 .. Len(s) : u[i] = s[i] BY <1>2, <1>4
<1>6. ASSUME NEW i \in 1 .. Len(t) PROVE u[Len(s) + i] = t[i]
  <2>1. Len(s) + i \in 1 .. Len(s) + Len(t) /\ ~(Len(s) + i <= Len(s)) /\ (Len(s) + i) - Len(s) = i BY <1>2
  <2> QED BY <1>4, <2>1
<1> QED BY <1>1, <1>3, <1>5, <1>6, BytesSplit

\* Bytes of the two parts of a sequence.
LEMMA BytesCut ==
    ASSUME NEW s \in Seq(Nat), NEW k \in 0 .. Len(s)
    PROVE  Bytes(s) = Bytes(SubSeq(s, 1, k)) + Bytes(SubSeq(s, k + 1, Len(s)))
<1>1. PICK a, b : a = SubSeq(s, 1, k) /\ b = SubSeq(s, k + 1, Len(s)) OBVIOUS
<1>2. /\ a \in Seq(Nat) /\ b \in Seq(Nat) /\ Len(a) = k /\ Len(b) = Len(s) - k
      /\ \A i \in 1 .. k : a[i] = s[i]
      /\ \A j \in 1 .. Len(s) - k : b[j] = s[k + j]
  BY <1>1, Cut
<1>3. Len(s) \in Nat BY LenProperties
<1>4. Len(s) = Len(a) + Len(b) BY <1>2, <1>3
<1>5. \A i \in 1 .. Len(a) : s[i] = a[i] BY <1>2
<1>6. \A i \in 1 .. Len(b) : s[Len(a) + i] = b[i] BY <1>2
<1> QED BY <1>1, <1>2, <1>4, <1>5, <1>6, BytesSplit

\* One frame more is two bytes at most.
LEMMA BytesLast ==
    ASSUME NEW s \in Seq(Nat), NEW k \in 1 .. Len(s)
    PROVE  Bytes(SubSeq(s, 1, k)) <= Bytes(SubSeq(s, 1, k - 1)) + 2
<1>1. PICK a, b, c : a = SubSeq(s, 1, k) /\ b = SubSeq(s, 1, k - 1) /\ c = <<s[k]>> OBVIOUS
<1>2. Len(s) \in Nat /\ k \in 0 .. Len(s) /\ k - 1 \in 0 .. Len(s) /\ s[k] \in Nat BY LenProperties, ElementOfSeq
<1>3. a \in Seq(Nat) /\ Len(a) = k /\ \A i \in 1 .. k : a[i] = s[i] BY <1>1, <1>2, Cut
<1>4. b \in Seq(Nat) /\ Len(b) = k - 1 /\ \A i \in 1 .. k - 1 : b[i] = s[i] BY <1>1, <1>2, Cut
<1>5. c \in Seq(Nat) /\ Len(c) = 1 /\ c[1] = s[k] BY <1>1, <1>2
<1>6. Len(a) = Len(b) + Len(c) BY <1>2, <1>3, <1>4, <1>5
<1>7. \A i \in 1 .. Len(b) : a[i] = b[i]
  <2> TAKE i \in 1 .. Len(b)
  <2>1. i \in 1 .. k - 1 /\ i \in 1 .. k BY <1>2, <1>4
  <2> QED BY <1>3, <1>4, <2>1
<1>8. \A i \in 1 .. Len(c) : a[Len(b) + i] = c[i] BY <1>2, <1>3, <1>4, <1>5
<1>9. Bytes(a) = Bytes(b) + Bytes(c) BY <1>3, <1>4, <1>5, <1>6, <1>7, <1>8, BytesSplit
<1>10. Bytes(c) = Size(s[k])
  <2>1. PICK f : f = [i \in 1 .. Len(c) |-> Size(c[i])] OBVIOUS
  <2>2. Bytes(c) = SumFunctionOnSet(f, 1 .. 1) BY <1>5, <2>1, BytesSum
  <2>3. f[1] = Size(s[k]) /\ Size(s[k]) \in Int BY <1>2, <1>5, <2>1, SizeIs
  <2>4. \A i \in 1 .. 1 : f[i] \in Int BY <2>3
  <2>5. SumFunctionOnSet(f, 1 .. 1) = f[1] + SumFunctionOnSet(f, 1 .. 1 - 1)
    <3>1. PICK n : n = 1 OBVIOUS
    <3>2. n \in Nat \ {0} BY <3>1
    <3>3. \A i \in 1 .. n : f[i] \in Int BY <2>4, <3>1
    <3>4. SumFunctionOnSet(f, 1 .. n) = f[n] + SumFunctionOnSet(f, 1 .. n - 1) BY <3>2, <3>3, SumLast, Zenon
    <3> QED BY <3>1, <3>4
  <2>6. 1 .. 1 - 1 = {} OBVIOUS
  <2>7. SumFunctionOnSet(f, 1 .. 1 - 1) = 0 BY <2>6, SumEmpty, Zenon
  <2> QED BY <2>2, <2>3, <2>5, <2>7
<1>11. Bytes(b) \in Nat BY <1>4, BytesSum
<1> QED BY <1>1, <1>2, <1>9, <1>10, <1>11, SizeIs

-----------------------------------------------------------------------------
(* Frames that move, are lost or are new.                                  *)

\* The frames P leave f for t: every frame is still in one place, and none is lost.
LEMMA Moves ==
    ASSUME NEW h, NEW k, NEW f \in MeshPlaces, NEW t \in MeshPlaces, NEW P, f # t, Alone(h), P \subseteq h[f],
           \A n \in Frames : n \in k[f] <=> n \in h[f] /\ n \notin P,
           \A n \in Frames : n \in k[t] <=> n \in h[t] \/ n \in P,
           \A x \in MeshPlaces \ {f, t} : k[x] = h[x]
    PROVE  Alone(k) /\ \A m \in Nat : AllSent(h, m) => AllSent(k, m)
<1>1. ASSUME NEW n \in Frames, NEW x \in MeshPlaces, n \in k[x]
      PROVE  \/ n \in P /\ x = t
             \/ n \notin P /\ n \in h[x]
  <2>1. CASE x = f BY <1>1, <2>1
  <2>2. CASE x = t
    <3>1. n \in P \/ (n \notin P /\ n \in h[t]) BY <1>1, <2>2
    <3> QED BY <2>2, <3>1
  <2>3. CASE x \in MeshPlaces \ {f, t}
    <3>1. n \in h[x] BY <1>1, <2>3
    <3>2. n \notin P BY <1>1, <2>3, <3>1 DEF Alone
    <3> QED BY <3>1, <3>2
  <2> QED BY <2>1, <2>2, <2>3
<1>2. Alone(k) BY <1>1 DEF Alone
<1>3. ASSUME NEW m \in Nat, AllSent(h, m), NEW n \in 1 .. m PROVE \E x \in MeshPlaces : n \in k[x]
  <2>1. PICK x \in MeshPlaces : n \in h[x] BY <1>3 DEF AllSent
  <2>2. n \in Frames BY DEF Frames
  <2>3. CASE n \in P BY <2>2, <2>3
  <2>4. CASE n \notin P
    <3>1. n \in k[x] BY <2>1, <2>2, <2>4
    <3> QED BY <3>1
  <2> QED BY <2>3, <2>4
<1> QED BY <1>2, <1>3 DEF AllSent

\* Frames that are lost, or errors that are new, put no frame into a second place.
LEMMA Drops ==
    ASSUME NEW h, NEW k, Alone(h), \A x \in MeshPlaces : k[x] \subseteq h[x] \cup {0}
    PROVE  Alone(k)
BY DEF Alone, Frames

\* New frames P in the place t: every frame is still in one place, and the new ones are somewhere.
LEMMA Adds ==
    ASSUME NEW h, NEW k, NEW t \in MeshPlaces, NEW P \in SUBSET Frames, Alone(h),
           \A x \in MeshPlaces : h[x] \cap P = {}, k[t] = h[t] \cup P,
           \A x \in MeshPlaces \ {t} : k[x] = h[x]
    PROVE  /\ Alone(k)
           /\ \A m, w \in Nat : AllSent(h, m) /\ (1 .. w) \subseteq (1 .. m) \cup P => AllSent(k, w)
<1>1. ASSUME NEW n \in Frames, NEW x \in MeshPlaces, n \in k[x]
      PROVE  \/ n \in P /\ x = t
             \/ n \notin P /\ n \in h[x]
  <2>1. CASE x = t BY <1>1, <2>1
  <2>2. CASE x # t BY <1>1, <2>2
  <2> QED BY <2>1, <2>2
<1>2. Alone(k) BY <1>1 DEF Alone
<1>3. ASSUME NEW m \in Nat, NEW w \in Nat, AllSent(h, m), (1 .. w) \subseteq (1 .. m) \cup P, NEW n \in 1 .. w
      PROVE  \E x \in MeshPlaces : n \in k[x]
  <2>1. CASE n \in P BY <2>1
  <2>2. CASE n \in 1 .. m
    <3>1. PICK x \in MeshPlaces : n \in h[x] BY <1>3, <2>2 DEF AllSent
    <3>2. h[x] \subseteq k[x] BY <3>1
    <3> QED BY <3>1, <3>2
  <2> QED BY <1>3, <2>1, <2>2
<1> QED BY <1>2, <1>3 DEF AllSent

-----------------------------------------------------------------------------
(* What is in a place.                                                     *)

\* The names of the places.
LEMMA PlaceOf ==
    /\ \A k \in {"do", "co", "dq", "cq", "cr", "dr", "in", "end"} : <<k, 0>> \in MeshPlaces
    /\ \A g \in Gets : <<"get", g>> \in MeshPlaces
    /\ \A l \in Loops : <<"loop", l>> \in MeshPlaces
    /\ \A p \in Posts : <<"post", p>> \in MeshPlaces
BY DEF MeshPlaces

\* There are no other places.
LEMMA PlaceKinds ==
    ASSUME NEW x \in MeshPlaces
    PROVE  \/ \E k \in {"do", "co", "dq", "cq", "cr", "dr", "in", "end"} : x = <<k, 0>>
           \/ \E g \in Gets : x = <<"get", g>>
           \/ \E l \in Loops : x = <<"loop", l>>
           \/ \E p \in Posts : x = <<"post", p>>
BY DEF MeshPlaces

\* What is in each place, before a step ...
LEMMA HeldAt ==
    /\ Held[<<"do", 0>>] = ToSet(dataOut) /\ Held[<<"co", 0>>] = ToSet(ctrlOut)
    /\ Held[<<"dq", 0>>] = ToSet(dataQ) /\ Held[<<"cq", 0>>] = ToSet(ctrlQ)
    /\ Held[<<"cr", 0>>] = ToSet(ctrlRecv) /\ Held[<<"dr", 0>>] = ToSet(dataRecv)
    /\ Held[<<"in", 0>>] = ToSet(meshIn) /\ Held[<<"end", 0>>] = taken \cup aqm
    /\ \A g \in Gets : Held[<<"get", g>>] = ToSet(batch[g])
    /\ \A l \in Loops : Held[<<"loop", l>>] = ToSet(todo[l])
    /\ \A p \in Posts : Held[<<"post", p>>] = ToSet(post[p].left)
BY PlaceOf DEF Held

\* ... and after it.
LEMMA HeldNext ==
    /\ Held'[<<"do", 0>>] = ToSet(dataOut') /\ Held'[<<"co", 0>>] = ToSet(ctrlOut')
    /\ Held'[<<"dq", 0>>] = ToSet(dataQ') /\ Held'[<<"cq", 0>>] = ToSet(ctrlQ')
    /\ Held'[<<"cr", 0>>] = ToSet(ctrlRecv') /\ Held'[<<"dr", 0>>] = ToSet(dataRecv')
    /\ Held'[<<"in", 0>>] = ToSet(meshIn') /\ Held'[<<"end", 0>>] = taken' \cup aqm'
    /\ \A g \in Gets : Held'[<<"get", g>>] = ToSet(batch'[g])
    /\ \A l \in Loops : Held'[<<"loop", l>>] = ToSet(todo'[l])
    /\ \A p \in Posts : Held'[<<"post", p>>] = ToSet(post'[p].left)
BY PlaceOf DEF Held

\* A step leaves alone the places outside X if it leaves their variables alone.
LEMMA HeldElsewhere ==
    ASSUME NEW X,
           <<"do", 0>> \in X \/ dataOut' = dataOut, <<"co", 0>> \in X \/ ctrlOut' = ctrlOut,
           <<"dq", 0>> \in X \/ dataQ' = dataQ, <<"cq", 0>> \in X \/ ctrlQ' = ctrlQ,
           <<"cr", 0>> \in X \/ ctrlRecv' = ctrlRecv, <<"dr", 0>> \in X \/ dataRecv' = dataRecv,
           <<"in", 0>> \in X \/ meshIn' = meshIn, <<"end", 0>> \in X \/ (taken' = taken /\ aqm' = aqm),
           \A g \in Gets : <<"get", g>> \in X \/ batch'[g] = batch[g],
           \A l \in Loops : <<"loop", l>> \in X \/ todo'[l] = todo[l],
           \A p \in Posts : <<"post", p>> \in X \/ post'[p].left = post[p].left
    PROVE  \A x \in MeshPlaces \ X : Held'[x] = Held[x]
<1> TAKE x \in MeshPlaces \ X
<1>1. CASE \E k \in {"do", "co", "dq", "cq", "cr", "dr", "in", "end"} : x = <<k, 0>>
  <2>1. CASE x = <<"do", 0>> BY <2>1, HeldAt, HeldNext
  <2>2. CASE x = <<"co", 0>> BY <2>2, HeldAt, HeldNext
  <2>3. CASE x = <<"dq", 0>> BY <2>3, HeldAt, HeldNext
  <2>4. CASE x = <<"cq", 0>> BY <2>4, HeldAt, HeldNext
  <2>5. CASE x = <<"cr", 0>> BY <2>5, HeldAt, HeldNext
  <2>6. CASE x = <<"dr", 0>> BY <2>6, HeldAt, HeldNext
  <2>7. CASE x = <<"in", 0>> BY <2>7, HeldAt, HeldNext
  <2>8. CASE x = <<"end", 0>> BY <2>8, HeldAt, HeldNext
  <2> QED BY <1>1, <2>1, <2>2, <2>3, <2>4, <2>5, <2>6, <2>7, <2>8
<1>2. CASE \E g \in Gets : x = <<"get", g>> BY <1>2, HeldAt, HeldNext
<1>3. CASE \E l \in Loops : x = <<"loop", l>> BY <1>3, HeldAt, HeldNext
<1>4. CASE \E p \in Posts : x = <<"post", p>> BY <1>4, HeldAt, HeldNext
<1> QED BY <1>1, <1>2, <1>3, <1>4, PlaceKinds

\* Frames, and errors, are numbers.
LEMMA HeldNatsNext ==
    ASSUME MeshTypes', NEW x \in MeshPlaces
    PROVE  Held'[x] \subseteq Nat
<1>1. /\ ToSet(dataOut') \subseteq Nat /\ ToSet(ctrlOut') \subseteq Nat /\ ToSet(dataQ') \subseteq Nat
      /\ ToSet(ctrlQ') \subseteq Nat /\ ToSet(ctrlRecv') \subseteq Nat /\ ToSet(dataRecv') \subseteq Nat
      /\ ToSet(meshIn') \subseteq Nat /\ taken' \cup aqm' \subseteq Nat
  <2>1. \A S : S \subseteq Frames => S \subseteq Nat BY DEF Frames
  <2> QED BY <2>1, ToSetType DEF MeshTypes
<1>2. CASE \E k \in {"do", "co", "dq", "cq", "cr", "dr", "in", "end"} : x = <<k, 0>>
  BY <1>1, <1>2, HeldNext
<1>3. CASE \E g \in Gets : x = <<"get", g>>
  <2>1. PICK g \in Gets : x = <<"get", g>> BY <1>3
  <2>2. ToSet(batch'[g]) \subseteq Frames BY ToSetType DEF MeshTypes
  <2> QED BY <2>1, <2>2, HeldNext DEF Frames
<1>4. CASE \E l \in Loops : x = <<"loop", l>>
  <2>1. PICK l \in Loops : x = <<"loop", l>> BY <1>4
  <2>2. ToSet(todo'[l]) \subseteq Nat BY ToSetType DEF MeshTypes
  <2> QED BY <2>1, <2>2, HeldNext
<1>5. CASE \E p \in Posts : x = <<"post", p>>
  <2>1. PICK p \in Posts : x = <<"post", p>> BY <1>5
  <2>2. ToSet(post'[p].left) \subseteq Frames BY ToSetType DEF MeshTypes
  <2> QED BY <2>1, <2>2, HeldNext DEF Frames
<1> QED BY <1>2, <1>3, <1>4, <1>5, PlaceKinds

-----------------------------------------------------------------------------
\* Located, for a step that leaves every place alone ...
LEMMA LocatedSame ==
    ASSUME Located, \A x \in MeshPlaces : Held'[x] = Held[x], UNCHANGED <<dir, nDown, nUp>>, trouble' = 0 => trouble = 0
    PROVE  Located'
BY DEF Located, Alone, AllSent

\* ... for a step that loses frames after a fault ...
LEMMA LocatedDrop ==
    ASSUME Located, \A x \in MeshPlaces : Held'[x] \subseteq Held[x] \cup {0}, UNCHANGED <<dir, nDown, nUp>>,
           nDown \in Nat, nUp \in Nat, trouble' # 0
    PROVE  Located'
<1>1. PICK h, k : h = Held /\ k = Held' OBVIOUS
<1>2. Alone(k) BY <1>1, Drops DEF Located
<1>3. \A x \in MeshPlaces : Held'[x] \subseteq 0 .. (nDown + nUp)
  <2>1. 0 \in 0 .. (nDown + nUp) OBVIOUS
  <2> QED BY <2>1 DEF Located
<1> QED BY <1>1, <1>2, <1>3 DEF Located

\* ... for a step that moves frames from one place to another ...
LEMMA LocatedMove ==
    ASSUME MeshTypes, MeshTypes', Located, UNCHANGED <<dir, nDown, nUp>>, trouble' = 0 => trouble = 0,
           NEW f \in MeshPlaces, NEW t \in MeshPlaces, NEW P, f # t, P \subseteq Held[f],
           \A n \in Frames : n \in Held'[f] <=> n \in Held[f] /\ n \notin P,
           \A n \in Frames : n \in Held'[t] <=> n \in Held[t] \/ n \in P,
           \A x \in MeshPlaces \ {f, t} : Held'[x] = Held[x]
    PROVE  Located'
<1>1. PICK h, k : h = Held /\ k = Held' OBVIOUS
<1>2. Alone(k) /\ \A m \in Nat : AllSent(h, m) => AllSent(k, m)
  <2>1. Alone(h) BY <1>1 DEF Located
  <2>2. /\ P \subseteq h[f]
        /\ \A n \in Frames : n \in k[f] <=> n \in h[f] /\ n \notin P
        /\ \A n \in Frames : n \in k[t] <=> n \in h[t] \/ n \in P
        /\ \A x \in MeshPlaces \ {f, t} : k[x] = h[x]
    BY <1>1
  <2> QED BY ONLY <2>1, <2>2, f # t, f \in MeshPlaces, t \in MeshPlaces, Moves
<1>3. nDown + nUp \in Nat BY DEF MeshTypes
<1>4. ASSUME NEW x \in MeshPlaces, NEW n \in Held'[x] PROVE n \in 0 .. (nDown + nUp)
  <2>1. n \in Nat BY HeldNatsNext
  <2>2. CASE n = 0 BY <1>3, <2>2
  <2>3. CASE n # 0
    <3>1. n \in Frames BY <2>1, <2>3 DEF Frames
    <3>2. \E y \in MeshPlaces : n \in Held[y] BY <3>1, <1>4
    <3> QED BY <3>2 DEF Located
  <2> QED BY <2>2, <2>3
<1>5. Alone(Held)' BY <1>1, <1>2
<1>6. ASSUME trouble' = 0 PROVE AllSent(Held', nDown' + nUp')
  <2>1. AllSent(h, nDown + nUp) BY <1>1, <1>6 DEF Located
  <2>2. nDown' + nUp' = nDown + nUp OBVIOUS
  <2> QED BY <1>1, <1>2, <1>3, <2>1, <2>2
<1>7. (nDown' # 0 => dir' = "down") /\ (nUp' # 0 => dir' = "up") BY DEF Located
<1> QED BY <1>4, <1>5, <1>6, <1>7 DEF Located

\* ... and for a step that sends the frames after the m-th.
LEMMA LocatedAdd ==
    ASSUME Located, UNCHANGED trouble, NEW m \in Nat, NEW w \in Nat, m = nDown + nUp, w = nDown' + nUp', m <= w,
           (nDown' # 0 => dir' = "down") /\ (nUp' # 0 => dir' = "up"),
           NEW t \in MeshPlaces, Held'[t] = Held[t] \cup ((m + 1) .. w),
           \A x \in MeshPlaces \ {t} : Held'[x] = Held[x]
    PROVE  Located'
<1>1. PICK h, k, P : h = Held /\ k = Held' /\ P = (m + 1) .. w OBVIOUS
<1>2. /\ Alone(k)
      /\ \A a, b \in Nat : AllSent(h, a) /\ (1 .. b) \subseteq (1 .. a) \cup P => AllSent(k, b)
  <2>1. Alone(h) BY <1>1 DEF Located
  <2>2. P \in SUBSET Frames BY <1>1 DEF Frames
  <2>3. \A x \in MeshPlaces : h[x] \cap P = {}
    <3>1. \A x \in MeshPlaces : h[x] \subseteq 0 .. m BY <1>1 DEF Located
    <3>2. (0 .. m) \cap P = {} BY <1>1
    <3> QED BY <3>1, <3>2
  <2>4. k[t] = h[t] \cup P /\ \A x \in MeshPlaces \ {t} : k[x] = h[x] BY <1>1
  <2> QED BY ONLY <2>1, <2>2, <2>3, <2>4, t \in MeshPlaces, Adds
<1>3. (1 .. w) \subseteq (1 .. m) \cup P /\ 0 .. m \subseteq 0 .. w /\ P \subseteq 0 .. w BY <1>1
<1>4. \A x \in MeshPlaces : Held'[x] \subseteq 0 .. w
  <2>1. \A x \in MeshPlaces : Held[x] \subseteq 0 .. m BY DEF Located
  <2>2. Held'[t] = Held[t] \cup P BY <1>1
  <2> QED BY <2>1, <2>2, <1>3
<1>5. ASSUME trouble' = 0 PROVE AllSent(k, w)
  <2>1. AllSent(h, m) BY <1>1, <1>5 DEF Located
  <2> QED BY <1>2, <1>3, <2>1
<1>6. Alone(Held)' BY <1>1, <1>2
<1>7. trouble' = 0 => AllSent(Held', nDown' + nUp') BY <1>1, <1>5
<1> QED BY <1>4, <1>6, <1>7 DEF Located

-----------------------------------------------------------------------------
\* An empty sequence holds nothing.
LEMMA NothingHeld == ToSet(<<>>) = {}
<1>1. PICK e : e = <<>> OBVIOUS
<1>2. e \in Seq(Nat) BY <1>1
<1> QED BY <1>1, <1>2, ToSetType

\* A registration is of a GET, or of one that has given up.
LEMMA QueuedKinds == \A x \in Queued : x \in Gets <=> x[2] # 0
BY DEF Queued, Gets

\* pruneStale drops a prefix of registrations that have given up.
LEMMA Pruned ==
    ASSUME NEW ws \in Seq(Queued)
    PROVE  \E k \in 0 .. Len(ws) :
              /\ PruneStale(ws) = SubSeq(ws, k + 1, Len(ws))
              /\ \A i \in 1 .. k : ws[i] \notin Gets
              /\ PruneStale(ws) = <<>> \/ PruneStale(ws)[1] \in Gets
<1>1. Len(ws) \in Nat /\ DOMAIN ws = 1 .. Len(ws) /\ \A i \in 1 .. Len(ws) : ws[i] \in Queued BY LenProperties, ElementOfSeq
<1>2. PICK live : live = {i \in DOMAIN ws : ws[i][2] # 0} OBVIOUS
<1>3. PruneStale(ws) = IF live = {} THEN <<>> ELSE SubSeq(ws, Min(live), Len(ws)) BY <1>2 DEF PruneStale
<1>4. live \in SUBSET Nat /\ \A i \in 1 .. Len(ws) : i \in live <=> ws[i] \in Gets BY <1>1, <1>2, QueuedKinds
<1>5. CASE live = {}
  <2>1. Len(ws) \in 0 .. Len(ws) /\ Len(ws) + 1 \in Nat /\ Len(ws) + 1 > Len(ws) BY <1>1
  <2>2. PICK b : b = SubSeq(ws, Len(ws) + 1, Len(ws)) OBVIOUS
  <2>3. b \in Seq(Queued) /\ Len(b) = Len(ws) - Len(ws) BY ONLY <2>1, <2>2, ws \in Seq(Queued), Cut
  <2>4. b = <<>> BY <1>1, <2>3, EmptySeq
  <2> QED BY <1>3, <1>4, <1>5, <2>1, <2>2, <2>4
<1>6. CASE live # {}
  <2>1. PICK m : m = Min(live) OBVIOUS
  <2>2. m \in live /\ \A y \in live : m <= y BY <1>4, <1>6, <2>1, MinOfNats
  <2>3. PICK k : k = m - 1 OBVIOUS
  <2>4. m \in 1 .. Len(ws) /\ k \in 0 .. Len(ws) /\ k + 1 = m /\ 1 \in 1 .. Len(ws) - k BY <1>1, <1>2, <2>2, <2>3
  <2>5. PICK b : b = SubSeq(ws, k + 1, Len(ws)) OBVIOUS
  <2>6. \A i \in 1 .. Len(ws) - k : b[i] = ws[k + i] BY ONLY <2>4, <2>5, ws \in Seq(Queued), Cut
  <2>7. b[1] \in Gets BY <1>4, <2>2, <2>4, <2>6
  <2>8. \A i \in 1 .. k : i \in 1 .. Len(ws) /\ i < m BY <1>1, <2>4
  <2>9. \A i \in 1 .. k : ws[i] \notin Gets BY <1>4, <2>2, <2>4, <2>8
  <2> QED BY <1>3, <1>6, <2>1, <2>4, <2>5, <2>7, <2>9
<1> QED BY <1>5, <1>6

\* What pruneStale leaves: every registration that has not given up, the first of them in front.
LEMMA PrunedIs ==
    ASSUME NEW ws \in Seq(Queued)
    PROVE  /\ PruneStale(ws) \in Seq(Queued) /\ Len(PruneStale(ws)) <= Len(ws)
           /\ \A g \in Gets : g \in ToSet(PruneStale(ws)) <=> g \in ToSet(ws)
           /\ Once(ws, Gets) => Once(PruneStale(ws), Gets)
           /\ PruneStale(ws) = <<>> \/ PruneStale(ws)[1] \in Gets
<1>1. PICK k \in 0 .. Len(ws) : /\ PruneStale(ws) = SubSeq(ws, k + 1, Len(ws))
                                /\ \A i \in 1 .. k : ws[i] \notin Gets
                                /\ PruneStale(ws) = <<>> \/ PruneStale(ws)[1] \in Gets
  BY Pruned
<1>2. Len(ws) \in Nat BY LenProperties
<1>3. PICK a, b : a = SubSeq(ws, 1, k) /\ b = SubSeq(ws, k + 1, Len(ws)) OBVIOUS
<1>4. /\ a \in Seq(Queued) /\ b \in Seq(Queued) /\ Len(a) = k /\ Len(b) = Len(ws) - k
      /\ \A i \in 1 .. k : a[i] = ws[i]
  BY <1>3, Cut
<1>5. ToSet(ws) = ToSet(a) \cup ToSet(b) BY <1>3, Cut
<1>6. Once(ws, Gets) => Once(b, Gets) BY <1>3, Cut
<1>7. \A e : e \in ToSet(a) <=> \E i \in 1 .. Len(a) : a[i] = e BY <1>4, ToSetType
<1>8. \A g \in Gets : g \notin ToSet(a) BY <1>1, <1>4, <1>7
<1> QED BY <1>1, <1>2, <1>3, <1>4, <1>5, <1>6, <1>8

\* What is queued once g has marked its registration stale.
LEMMA Left ==
    ASSUME NEW ws \in Seq(Queued), NEW g \in Gets
    PROVE  /\ Leave(ws, g) \in Seq(Queued) /\ Len(Leave(ws, g)) = Len(ws)
           /\ \A h \in Gets : h \in ToSet(Leave(ws, g)) <=> h \in ToSet(ws) /\ h # g
           /\ Once(ws, Gets) => Once(Leave(ws, g), Gets)
<1>1. Len(ws) \in Nat /\ DOMAIN ws = 1 .. Len(ws) /\ \A i \in 1 .. Len(ws) : ws[i] \in Queued BY LenProperties, ElementOfSeq
<1>2. PICK d : d = Dead(g) OBVIOUS
<1>3. d \in Queued /\ d \notin Gets BY <1>2 DEF Dead, Queued, Gets
<1>4. PICK u : u = Leave(ws, g) OBVIOUS
<1>5. u = [i \in 1 .. Len(ws) |-> IF ws[i] = g THEN d ELSE ws[i]] BY <1>1, <1>2, <1>4 DEF Leave
<1>6. u \in [1 .. Len(ws) -> Queued] BY <1>1, <1>3, <1>5
<1>7. u \in Seq(Queued) /\ Len(u) = Len(ws) BY <1>1, <1>6, FunctionIsSeq
<1>8. /\ \A e : e \in ToSet(ws) <=> \E i \in 1 .. Len(ws) : ws[i] = e
      /\ \A e : e \in ToSet(u) <=> \E i \in 1 .. Len(ws) : u[i] = e
  BY <1>7, ToSetType
<1>9. \A i \in 1 .. Len(ws) : u[i] \in Gets => u[i] = ws[i] /\ u[i] # g BY <1>3, <1>5
<1>10. \A i \in 1 .. Len(ws) : ws[i] # g => u[i] = ws[i] BY <1>5
<1>11. \A h \in Gets : h \in ToSet(u) <=> h \in ToSet(ws) /\ h # g BY <1>8, <1>9, <1>10
<1>12. Once(ws, Gets) => Once(u, Gets) BY <1>7, <1>9 DEF Once
<1> QED BY <1>4, <1>7, <1>11, <1>12

\* A step that touches no frame leaves every place alone.
LEMMA HeldSame ==
    ASSUME UNCHANGED <<dataOut, ctrlOut, dataQ, ctrlQ, ctrlRecv, dataRecv, meshIn, taken, aqm, batch, todo, post>>
    PROVE  \A x \in MeshPlaces : Held'[x] = Held[x]
BY DEF Held

\* A GET is answered: its place in the lists of the dispatcher is gone by then.
LEMMA AnswerStep ==
    ASSUME MeshInv, NEW g \in Gets, NEW c \in {200, 408, 410}, gpc[g] # "none", gpc[g] # "answered",
           GetReply(g, c), g \notin ToSet(waiters) \cup ToSet(getQ),
           c = 410 => trouble # 0, c = 408 => batch[g] = <<>>, c = 200 => batch[g] # <<>>,
           UNCHANGED <<dir, sendVars, dispVars, getQ, recvVars, upVars, chGone, taken, tClosed, trouble>>,
           timeouts' \in Nat
    PROVE  MeshInv'
<1>1. UNCHANGED <<dir, nDown, dataOut, ctrlOut, disp, ctrlQ, dataQ, dataBytes, waiters, batch, aqm, getQ, loop, listens,
                  todo, ctrlRecv, dataRecv, post, nUp, meshIn, chGone, taken, tClosed, trouble>>
  BY DEF sendVars, dispVars, recvVars, upVars
<1>2. /\ gpc' = [gpc EXCEPT ![g] = "answered"] /\ code' = [code EXCEPT ![g] = c]
      /\ gpc \in [Gets -> {"none", "net", "wait", "left", "answered"}] /\ code \in [Gets -> {0, 200, 408, 410}]
  BY DEF GetReply, MeshInv, MeshTypes
<1>3. /\ gpc'[g] = "answered" /\ code'[g] = c
      /\ \A h \in Gets \ {g} : gpc'[h] = gpc[h] /\ code'[h] = code[h]
  BY <1>2
<1>4. MeshTypes'
  <2>1. gpc' \in [Gets -> {"none", "net", "wait", "left", "answered"}] /\ code' \in [Gets -> {0, 200, 408, 410}] BY <1>2
  <2> QED BY <1>1, <2>1 DEF MeshInv, MeshTypes
<1>5. Lengths' BY <1>1 DEF MeshInv, Lengths
<1>6. OnceEach' BY <1>1 DEF MeshInv, OnceEach
<1>7. Located' BY <1>1, HeldSame, LocatedSame DEF MeshInv
<1>8. Registered' BY <1>1, <1>3 DEF MeshInv, Registered
<1>9. Answers'
  <2> SUFFICES ASSUME NEW h \in Gets
               PROVE  /\ gpc'[h] \in {"none", "net"} => batch'[h] = <<>>
                      /\ gpc'[h] = "answered" => /\ code'[h] # 0 /\ (code'[h] = 410 => trouble' > 0)
                                                 /\ code'[h] = 408 => batch'[h] = <<>>
                                                 /\ code'[h] = 200 => batch'[h] # <<>>
                      /\ gpc'[h] # "none" /\ trouble' = 0 => loop'[h[1]] = "await" /\ listens'[h[1]] = h[2]
    BY DEF Answers
  <2>1. trouble \in Nat BY DEF MeshInv, MeshTypes
  <2>2. CASE h = g BY <1>1, <1>3, <2>1, <2>2 DEF MeshInv, Answers
  <2>3. CASE h # g BY <1>1, <1>3, <2>3 DEF MeshInv, Answers
  <2> QED BY <2>2, <2>3
<1>10. Routing' BY <1>1 DEF MeshInv, Routing
<1>11. Unbroken' BY <1>1 DEF MeshInv, Unbroken
<1>12. BytesExact' BY <1>1 DEF MeshInv, BytesExact, Bytes
<1>13. WorkConserving' BY <1>1 DEF MeshInv, WorkConserving, Range
<1> QED BY <1>4, <1>5, <1>6, <1>7, <1>8, <1>9, <1>10, <1>11, <1>12, <1>13 DEF MeshInv

\* The handler of a GET receives its batch.
LEMMA ServedStep == ASSUME MeshInv, NEW g \in Gets, GetServed(g) PROVE MeshInv'
<1>1. /\ gpc[g] = "wait" /\ batch[g] # <<>> /\ GetReply(g, 200)
      /\ UNCHANGED <<dir, sendVars, dispVars, getQ, timeouts, recvVars, upVars, chGone, taken, tClosed, trouble>>
  BY DEF GetServed
<1>2. g \notin ToSet(waiters) \cup ToSet(getQ) BY <1>1 DEF MeshInv, Registered
<1>3. timeouts' \in Nat BY <1>1 DEF MeshInv, MeshTypes
<1> QED BY <1>1, <1>2, <1>3, AnswerStep

\* A GET that gave up takes the batch it was handed just before: 408 is an answer without frames.
LEMMA AbandonStep == ASSUME MeshInv, NEW g \in Gets, Abandon(g) PROVE MeshInv'
<1>1. /\ gpc[g] = "left" /\ GetReply(g, IF batch[g] # <<>> THEN 200 ELSE 408)
      /\ UNCHANGED <<dir, sendVars, dispVars, getQ, timeouts, recvVars, upVars, chGone, taken, tClosed, trouble>>
  BY DEF Abandon
<1>2. g \notin ToSet(waiters) \cup ToSet(getQ) BY <1>1 DEF MeshInv, Registered
<1>3. timeouts' \in Nat BY <1>1 DEF MeshInv, MeshTypes
<1>4. PICK c : c = IF batch[g] # <<>> THEN 200 ELSE 408 OBVIOUS
<1>5. c \in {200, 408, 410} /\ GetReply(g, c) /\ (c = 410 => trouble # 0) /\ (c = 408 => batch[g] = <<>>) /\ (c = 200 => batch[g] # <<>>)
  BY <1>1, <1>4
<1> QED BY <1>1, <1>2, <1>3, <1>5, AnswerStep

\* A registration that has not given up.
LEMMA LiveRange ==
    ASSUME NEW ws \in Seq(Queued)
    PROVE  (\E g \in Range(ws) : g[2] # 0) <=> (\E g \in Gets : g \in ToSet(ws))
<1>1. Range(ws) = ToSet(ws) BY DEF Range, ToSet
<1>2. ToSet(ws) \subseteq Queued BY ToSetType
<1> QED BY <1>1, <1>2, QueuedKinds DEF Queued

\* 410 for a GET of a channel that is gone.
LEMMA GoneStep == ASSUME MeshInv, NEW g \in Gets, GetGone(g) PROVE MeshInv'
<1>1. /\ gpc[g] \in {"net", "wait", "left"} /\ chGone /\ GetReply(g, 410)
      /\ UNCHANGED <<dir, sendVars, dispVars, getQ, timeouts, recvVars, upVars, chGone, taken, tClosed, trouble>>
  BY DEF GetGone
<1>2. g \notin ToSet(waiters) \cup ToSet(getQ)
  <2>1. waiters = <<>> /\ getQ = <<>> BY <1>1 DEF MeshInv, Registered
  <2>2. waiters \in Seq(Queued) /\ getQ \in Seq(Queued) BY DEF MeshInv, MeshTypes
  <2> QED BY <2>1, <2>2, ToSetType
<1>3. timeouts' \in Nat /\ trouble # 0 BY <1>1 DEF MeshInv, MeshTypes, Unbroken
<1> QED BY <1>1, <1>2, <1>3, AnswerStep

\* A GET that finds getWaiters full for its whole wait time.
LEMMA RefusedStep ==
    ASSUME MeshInv, NEW g \in Gets, gpc[g] = "net", TimesOut, GetReply(g, 408),
           UNCHANGED <<dir, sendVars, dispVars, getQ, recvVars, upVars, chGone, taken, tClosed, trouble>>
    PROVE  MeshInv'
<1>1. g \notin ToSet(waiters) \cup ToSet(getQ) /\ batch[g] = <<>> BY DEF MeshInv, Registered, Answers
<1>2. timeouts' \in Nat BY DEF MeshInv, MeshTypes, TimesOut
<1> QED BY <1>1, <1>2, AnswerStep

\* A GET registers.
LEMMA RegistersStep ==
    ASSUME MeshInv, NEW g \in Gets, gpc[g] = "net", ~chGone, Len(getQ) < GetLen, getQ' = Append(getQ, g),
           gpc' = [gpc EXCEPT ![g] = "wait"], UNCHANGED <<code, timeouts>>,
           UNCHANGED <<dir, sendVars, dispVars, recvVars, upVars, chGone, taken, tClosed, trouble>>
    PROVE  MeshInv'
<1>same. UNCHANGED <<dir, nDown, dataOut, ctrlOut, disp, ctrlQ, dataQ, dataBytes, waiters, batch, code, aqm, chGone,
                     loop, listens, todo, ctrlRecv, dataRecv, taken, tClosed, post, nUp, meshIn, trouble, timeouts>>
  BY DEF sendVars, dispVars, recvVars, upVars
<1>gets. /\ gpc \in [Gets -> {"none", "net", "wait", "left", "answered"}] /\ getQ \in Seq(Queued) /\ g \in Queued
         /\ waiters \in Seq(Queued) /\ batch[g] = <<>> /\ g \notin ToSet(waiters) /\ g \notin ToSet(getQ)
  BY DEF MeshInv, MeshTypes, Queued, Registered, Answers
<1>put. /\ getQ' \in Seq(Queued) /\ Len(getQ') = Len(getQ) + 1 /\ ToSet(getQ') = ToSet(getQ) \cup {g}
        /\ Once(getQ, Gets) => Once(getQ', Gets)
  BY <1>gets, PutLast
<1>gpc. gpc'[g] = "wait" /\ \A h \in Gets \ {g} : gpc'[h] = gpc[h] BY <1>gets
<1>types. MeshTypes'
  <2>1. gpc' \in [Gets -> {"none", "net", "wait", "left", "answered"}] BY <1>gets
  <2> QED BY <1>same, <1>put, <2>1 DEF MeshInv, MeshTypes
<1>lengths. Lengths'
  <2>1. Len(getQ) \in Nat /\ GetLen \in Nat BY <1>gets, LenProperties, MeshAssumption
  <2>2. Len(getQ') <= GetLen BY <1>put, <2>1
  <2> QED BY <1>same, <2>2 DEF MeshInv, Lengths
<1>once. OnceEach' BY <1>same DEF MeshInv, OnceEach
<1>located. Located' BY <1>same, HeldSame, LocatedSame DEF MeshInv
<1>registered. Registered'
  <2>1. Once(waiters', Gets) /\ Once(getQ', Gets) BY <1>same, <1>put DEF MeshInv, Registered
  <2>2. \A h \in Gets : ~ (h \in ToSet(waiters') /\ h \in ToSet(getQ')) BY <1>same, <1>put, <1>gets DEF MeshInv, Registered
  <2>3. \A h \in Gets : h \in ToSet(waiters') \cup ToSet(getQ') => gpc'[h] = "wait" /\ batch'[h] = <<>>
    BY <1>same, <1>put, <1>gets, <1>gpc DEF MeshInv, Registered
  <2> QED BY <1>same, <2>1, <2>2, <2>3 DEF Registered
<1>answers. Answers'
  <2> SUFFICES ASSUME NEW h \in Gets
               PROVE  /\ gpc'[h] \in {"none", "net"} => batch'[h] = <<>>
                      /\ gpc'[h] = "answered" => /\ code'[h] # 0 /\ (code'[h] = 410 => trouble' > 0)
                                                 /\ code'[h] = 408 => batch'[h] = <<>>
                                                 /\ code'[h] = 200 => batch'[h] # <<>>
                      /\ gpc'[h] # "none" /\ trouble' = 0 => loop'[h[1]] = "await" /\ listens'[h[1]] = h[2]
    BY DEF Answers
  <2>1. CASE h = g BY <1>same, <1>gets, <1>gpc, <2>1 DEF MeshInv, Answers
  <2>2. CASE h # g BY <1>same, <1>gpc, <2>2 DEF MeshInv, Answers
  <2> QED BY <2>1, <2>2
<1>routing. Routing' BY <1>same DEF MeshInv, Routing
<1>unbroken. Unbroken' BY <1>same DEF MeshInv, Unbroken
<1>bytes. BytesExact' BY <1>same DEF MeshInv, BytesExact, Bytes
<1>work. WorkConserving' BY <1>same DEF MeshInv, WorkConserving, Range
<1> QED BY <1>types, <1>lengths, <1>once, <1>located, <1>registered, <1>answers, <1>routing, <1>unbroken, <1>bytes, <1>work DEF MeshInv

\* meshHandleRead: a GET registers or is refused.
LEMMA GetRegistersStep == ASSUME MeshInv, NEW g \in Gets, GetRegisters(g) PROVE MeshInv'
<1>1. CASE Len(getQ) < GetLen /\ getQ' = Append(getQ, g) /\ gpc' = [gpc EXCEPT ![g] = "wait"] /\ UNCHANGED <<code, timeouts>>
  BY <1>1, RegistersStep DEF GetRegisters
<1>2. CASE /\ TimesOut /\ gpc' = [gpc EXCEPT ![g] = "answered"] /\ code' = [code EXCEPT ![g] = 408] /\ UNCHANGED getQ
  <2>1. GetReply(g, 408) BY <1>2 DEF GetReply
  <2>2. gpc[g] = "net" /\ UNCHANGED <<dir, sendVars, dispVars, getQ, recvVars, upVars, chGone, taken, tClosed, trouble>>
    BY <1>2 DEF GetRegisters
  <2> QED BY <1>2, <2>1, <2>2, RefusedStep
<1> QED BY <1>1, <1>2 DEF GetRegisters

\* A GET's wait time is over: it is no registration any more, wherever it is queued.
LEMMA TimesOutStep == ASSUME MeshInv, NEW g \in Gets, GetTimesOut(g) PROVE MeshInv'
<1>same. UNCHANGED <<dir, nDown, dataOut, ctrlOut, disp, ctrlQ, dataQ, dataBytes, batch, code, aqm, chGone, loop,
                     listens, todo, ctrlRecv, dataRecv, taken, tClosed, post, nUp, meshIn, trouble>>
  BY DEF GetTimesOut, sendVars, recvVars, upVars
<1>gets. /\ gpc \in [Gets -> {"none", "net", "wait", "left", "answered"}] /\ getQ \in Seq(Queued) /\ waiters \in Seq(Queued)
         /\ waiters' = Leave(waiters, g) /\ getQ' = Leave(getQ, g) /\ gpc' = [gpc EXCEPT ![g] = "left"]
         /\ gpc[g] = "wait" /\ timeouts' \in Nat
  BY DEF MeshInv, MeshTypes, GetTimesOut, TimesOut
<1>left. /\ waiters' \in Seq(Queued) /\ Len(waiters') = Len(waiters)
         /\ \A h \in Gets : h \in ToSet(waiters') <=> h \in ToSet(waiters) /\ h # g
         /\ Once(waiters, Gets) => Once(waiters', Gets)
  BY <1>gets, Left
<1>leftQ. /\ getQ' \in Seq(Queued) /\ Len(getQ') = Len(getQ)
          /\ \A h \in Gets : h \in ToSet(getQ') <=> h \in ToSet(getQ) /\ h # g
          /\ Once(getQ, Gets) => Once(getQ', Gets)
  BY <1>gets, Left
<1>gpc. gpc'[g] = "left" /\ \A h \in Gets \ {g} : gpc'[h] = gpc[h] BY <1>gets
<1>types. MeshTypes'
  <2>1. gpc' \in [Gets -> {"none", "net", "wait", "left", "answered"}] BY <1>gets
  <2> QED BY <1>same, <1>gets, <1>left, <1>leftQ, <2>1 DEF MeshInv, MeshTypes
<1>lengths. Lengths' BY <1>same, <1>leftQ DEF MeshInv, Lengths
<1>once. OnceEach' BY <1>same DEF MeshInv, OnceEach
<1>located. Located' BY <1>same, HeldSame, LocatedSame DEF MeshInv
<1>registered. Registered'
  <2>1. Once(waiters', Gets) /\ Once(getQ', Gets) BY <1>left, <1>leftQ DEF MeshInv, Registered
  <2>2. \A h \in Gets : ~ (h \in ToSet(waiters') /\ h \in ToSet(getQ')) BY <1>left, <1>leftQ DEF MeshInv, Registered
  <2>3. \A h \in Gets : h \in ToSet(waiters') \cup ToSet(getQ') => gpc'[h] = "wait" /\ batch'[h] = <<>>
    BY <1>same, <1>left, <1>leftQ, <1>gpc DEF MeshInv, Registered
  <2>4. chGone' => waiters' = <<>> /\ getQ' = <<>> /\ disp' = "select"
    BY <1>same, <1>gets, <1>left, <1>leftQ, EmptySeq DEF MeshInv, Registered
  <2> QED BY <2>1, <2>2, <2>3, <2>4 DEF Registered
<1>answers. Answers'
  <2> SUFFICES ASSUME NEW h \in Gets
               PROVE  /\ gpc'[h] \in {"none", "net"} => batch'[h] = <<>>
                      /\ gpc'[h] = "answered" => /\ code'[h] # 0 /\ (code'[h] = 410 => trouble' > 0)
                                                 /\ code'[h] = 408 => batch'[h] = <<>>
                                                 /\ code'[h] = 200 => batch'[h] # <<>>
                      /\ gpc'[h] # "none" /\ trouble' = 0 => loop'[h[1]] = "await" /\ listens'[h[1]] = h[2]
    BY DEF Answers
  <2>1. CASE h = g BY <1>same, <1>gets, <1>gpc, <2>1 DEF MeshInv, Answers
  <2>2. CASE h # g BY <1>same, <1>gpc, <2>2 DEF MeshInv, Answers
  <2> QED BY <2>1, <2>2
<1>routing. Routing' BY <1>same DEF MeshInv, Routing
<1>unbroken. Unbroken' BY <1>same DEF MeshInv, Unbroken
<1>bytes. BytesExact' BY <1>same DEF MeshInv, BytesExact, Bytes
<1>work. WorkConserving'
  <2>1. (\E h \in Range(waiters') : h[2] # 0) => \E h \in Range(waiters) : h[2] # 0 BY <1>gets, <1>left, LiveRange
  <2> QED BY <1>same, <2>1 DEF MeshInv, WorkConserving
<1> QED BY <1>types, <1>lengths, <1>once, <1>located, <1>registered, <1>answers, <1>routing, <1>unbroken, <1>bytes, <1>work DEF MeshInv

\* The dispatcher takes the registrations.
LEMMA AddWaitersStep == ASSUME MeshInv, AddWaiters PROVE MeshInv'
<1>same. UNCHANGED <<dir, nDown, dataOut, ctrlOut, ctrlQ, dataQ, dataBytes, batch, gpc, code, aqm, chGone, loop, listens,
                     todo, ctrlRecv, dataRecv, taken, tClosed, post, nUp, meshIn, trouble, timeouts>>
  BY DEF AddWaiters, sendVars, recvVars, upVars
<1>1. PICK ws : ws = PruneStale(waiters) OBVIOUS
<1>2. /\ waiters' = ws \o getQ /\ getQ' = <<>> /\ disp' = "flush" /\ ~chGone
      /\ getQ \in Seq(Queued) /\ waiters \in Seq(Queued)
  BY <1>1 DEF MeshInv, MeshTypes, AddWaiters
<1>3. /\ ws \in Seq(Queued) /\ \A g \in Gets : g \in ToSet(ws) <=> g \in ToSet(waiters)
      /\ Once(waiters, Gets) => Once(ws, Gets)
  BY <1>1, <1>2, PrunedIs
<1>4. ToSet(ws) \cap ToSet(getQ) \cap Gets = {} BY <1>3 DEF MeshInv, Registered
<1>5. Once(ws, Gets) /\ Once(getQ, Gets) BY <1>3 DEF MeshInv, Registered
<1>6. waiters' \in Seq(Queued) /\ ToSet(waiters') = ToSet(ws) \cup ToSet(getQ) /\ Once(waiters', Gets)
  BY <1>2, <1>3, <1>4, <1>5, Joined
<1>7. <<>> \in Seq(Queued) /\ Len(<<>>) = 0 /\ ToSet(<<>>) = {} /\ Once(<<>>, Gets) BY NothingHeld, OnceEmpty
<1>types. MeshTypes' BY <1>same, <1>2, <1>6, <1>7 DEF MeshInv, MeshTypes
<1>lengths. Lengths' BY <1>same, <1>2, <1>7, MeshAssumption DEF MeshInv, Lengths
<1>once. OnceEach' BY <1>same DEF MeshInv, OnceEach
<1>located. Located' BY <1>same, HeldSame, LocatedSame DEF MeshInv
<1>registered. Registered'
  <2>1. \A g \in Gets : g \in ToSet(waiters') \cup ToSet(getQ') => gpc'[g] = "wait" /\ batch'[g] = <<>>
    BY <1>same, <1>2, <1>3, <1>6, <1>7 DEF MeshInv, Registered
  <2> QED BY <1>same, <1>2, <1>6, <1>7, <2>1 DEF Registered
<1>answers. Answers' BY <1>same DEF MeshInv, Answers
<1>routing. Routing' BY <1>same DEF MeshInv, Routing
<1>unbroken. Unbroken' BY <1>same DEF MeshInv, Unbroken
<1>bytes. BytesExact' BY <1>same DEF MeshInv, BytesExact, Bytes
<1>work. WorkConserving' BY <1>2 DEF WorkConserving
<1> QED BY <1>types, <1>lengths, <1>once, <1>located, <1>registered, <1>answers, <1>routing, <1>unbroken, <1>bytes, <1>work DEF MeshInv

\* Nothing left to hand over.
LEMMA FlushEndsStep == ASSUME MeshInv, FlushEnds PROVE MeshInv'
<1>same. UNCHANGED <<dir, nDown, dataOut, ctrlOut, getQ, ctrlQ, dataQ, dataBytes, batch, gpc, code, aqm, chGone, loop,
                     listens, todo, ctrlRecv, dataRecv, taken, tClosed, post, nUp, meshIn, trouble, timeouts>>
  BY DEF FlushEnds, sendVars, getVars, recvVars, upVars
<1>1. /\ waiters' = PruneStale(waiters) /\ disp = "flush" /\ disp' = "select" /\ waiters \in Seq(Queued) /\ ~chGone
      /\ PruneStale(waiters) = <<>> \/ (ctrlQ = <<>> /\ dataQ = <<>>)
  BY DEF MeshInv, MeshTypes, FlushEnds, Registered
<1>2. /\ waiters' \in Seq(Queued) /\ \A g \in Gets : g \in ToSet(waiters') <=> g \in ToSet(waiters)
      /\ Once(waiters, Gets) => Once(waiters', Gets)
  BY <1>1, PrunedIs
<1>types. MeshTypes' BY <1>same, <1>1, <1>2 DEF MeshInv, MeshTypes
<1>lengths. Lengths' BY <1>same DEF MeshInv, Lengths
<1>once. OnceEach' BY <1>same DEF MeshInv, OnceEach
<1>located. Located' BY <1>same, HeldSame, LocatedSame DEF MeshInv
<1>registered. Registered'
  <2>1. \A g \in Gets : g \in ToSet(waiters') \cup ToSet(getQ') => gpc'[g] = "wait" /\ batch'[g] = <<>>
    BY <1>same, <1>2 DEF MeshInv, Registered
  <2>2. \A g \in Gets : ~ (g \in ToSet(waiters') /\ g \in ToSet(getQ')) BY <1>same, <1>2 DEF MeshInv, Registered
  <2>3. Once(waiters', Gets) /\ Once(getQ', Gets) BY <1>same, <1>2 DEF MeshInv, Registered
  <2> QED BY <1>same, <1>1, <2>1, <2>2, <2>3 DEF Registered
<1>answers. Answers' BY <1>same DEF MeshInv, Answers
<1>routing. Routing' BY <1>same DEF MeshInv, Routing
<1>unbroken. Unbroken' BY <1>same DEF MeshInv, Unbroken
<1>bytes. BytesExact' BY <1>same DEF MeshInv, BytesExact, Bytes
<1>work. WorkConserving'
  <2>1. CASE ctrlQ = <<>> /\ dataQ = <<>> BY <1>same, <2>1 DEF WorkConserving
  <2>2. CASE waiters' = <<>> BY <2>2 DEF WorkConserving, Range
  <2> QED BY <1>1, <2>1, <2>2
<1> QED BY <1>types, <1>lengths, <1>once, <1>located, <1>registered, <1>answers, <1>routing, <1>unbroken, <1>bytes, <1>work DEF MeshInv

\* A recvLoop sends its request.
LEMMA RecvGetStep == ASSUME MeshInv, NEW l \in Loops, RecvGet(l) PROVE MeshInv'
<1>same. UNCHANGED <<dir, nDown, dataOut, ctrlOut, getQ, disp, ctrlQ, dataQ, dataBytes, waiters, batch, code, aqm,
                     chGone, todo, ctrlRecv, dataRecv, taken, tClosed, post, nUp, meshIn, trouble, timeouts>>
  BY DEF RecvGet, sendVars, dispVars, upVars
<1>1. PICK g : g = <<l, 1>> OBVIOUS
<1>2. /\ loop[l] = "get" /\ loop' = [loop EXCEPT ![l] = "await"] /\ listens' = [listens EXCEPT ![l] = 1]
      /\ gpc[g] = "none" /\ gpc' = [gpc EXCEPT ![g] = "net"] /\ g \in Gets /\ g[1] = l /\ g[2] = 1
  BY <1>1 DEF RecvGet, SlotFree, Gets
<1>3. /\ loop \in [Loops -> {"get", "await", "route", "over"}] /\ listens \in [Loops -> {1, 2}]
      /\ gpc \in [Gets -> {"none", "net", "wait", "left", "answered"}]
  BY DEF MeshInv, MeshTypes
<1>4. /\ gpc'[g] = "net" /\ \A h \in Gets \ {g} : gpc'[h] = gpc[h]
      /\ loop'[l] = "await" /\ listens'[l] = 1
      /\ \A k \in Loops \ {l} : loop'[k] = loop[k] /\ listens'[k] = listens[k]
  BY <1>2, <1>3
<1>types. MeshTypes'
  <2>1. /\ loop' \in [Loops -> {"get", "await", "route", "over"}] /\ listens' \in [Loops -> {1, 2}]
        /\ gpc' \in [Gets -> {"none", "net", "wait", "left", "answered"}]
    BY <1>2, <1>3
  <2> QED BY <1>same, <2>1 DEF MeshInv, MeshTypes
<1>lengths. Lengths' BY <1>same DEF MeshInv, Lengths
<1>once. OnceEach' BY <1>same DEF MeshInv, OnceEach
<1>located. Located' BY <1>same, HeldSame, LocatedSame DEF MeshInv
<1>registered. Registered'
  <2>1. g \notin ToSet(waiters) \cup ToSet(getQ) BY <1>2 DEF MeshInv, Registered
  <2> QED BY <1>same, <1>4, <2>1 DEF MeshInv, Registered
<1>answers. Answers'
  <2> SUFFICES ASSUME NEW h \in Gets
               PROVE  /\ gpc'[h] \in {"none", "net"} => batch'[h] = <<>>
                      /\ gpc'[h] = "answered" => /\ code'[h] # 0 /\ (code'[h] = 410 => trouble' > 0)
                                                 /\ code'[h] = 408 => batch'[h] = <<>>
                                                 /\ code'[h] = 200 => batch'[h] # <<>>
                      /\ gpc'[h] # "none" /\ trouble' = 0 => loop'[h[1]] = "await" /\ listens'[h[1]] = h[2]
    BY DEF Answers
  <2>1. CASE h = g BY <1>same, <1>2, <1>4, <2>1 DEF MeshInv, Answers
  <2>2. CASE h # g
    <3>1. h[1] \in Loops BY DEF Gets
    <3>2. gpc[h] # "none" /\ trouble = 0 => loop[h[1]] = "await" /\ listens[h[1]] = h[2] BY DEF MeshInv, Answers
    <3>3. gpc'[h] # "none" /\ trouble' = 0 => h[1] # l BY <1>same, <1>2, <1>4, <2>2, <3>2
    <3> QED BY <1>same, <1>4, <2>2, <3>1, <3>2, <3>3 DEF MeshInv, Answers
  <2> QED BY <2>1, <2>2
<1>routing. Routing'
  <2> SUFFICES ASSUME NEW k \in Loops
               PROVE  (loop'[k] = "route" <=> todo'[k] # <<>>) /\ (0 \in ToSet(todo'[k]) => todo'[k] = <<0>>)
    BY <1>same DEF MeshInv, Routing
  <2>1. CASE k = l BY <1>same, <1>2, <1>4, <2>1 DEF MeshInv, Routing
  <2>2. CASE k # l BY <1>same, <1>4, <2>2 DEF MeshInv, Routing
  <2> QED BY <2>1, <2>2
<1>unbroken. Unbroken' BY <1>same DEF MeshInv, Unbroken
<1>bytes. BytesExact' BY <1>same DEF MeshInv, BytesExact, Bytes
<1>work. WorkConserving' BY <1>same DEF MeshInv, WorkConserving, Range
<1> QED BY <1>types, <1>lengths, <1>once, <1>located, <1>registered, <1>answers, <1>routing, <1>unbroken, <1>bytes, <1>work DEF MeshInv

\* The error a loop ends with, as the batch it routes.
LEMMA ErrorAlone ==
    <<0>> \in Seq(Nat) /\ <<>> \in Seq(Nat) /\ <<0>> # <<>> /\ ToSet(<<0>>) = {0} /\ Once(<<0>>, Frames)
<1>1. <<0>> \in Seq(Nat) /\ <<>> \in Seq(Nat) /\ Len(<<0>>) = 1 /\ <<0>>[1] = 0 OBVIOUS
<1>2. \A e : e \in ToSet(<<0>>) <=> \E i \in 1 .. 1 : <<0>>[i] = e BY <1>1, ToSetType
<1>3. ToSet(<<0>>) = {0} BY <1>1, <1>2
<1>4. Once(<<0>>, Frames) BY <1>1 DEF Once
<1> QED BY <1>1, <1>3, <1>4

\* What is left of the answer of a GET once the client has taken it.
LEMMA SlotFreed ==
    ASSUME MeshInv, NEW g \in Gets, gpc[g] = "answered",
           gpc' = [gpc EXCEPT ![g] = "none"], batch' = [batch EXCEPT ![g] = <<>>], code' = [code EXCEPT ![g] = 0]
    PROVE  /\ gpc' \in [Gets -> {"none", "net", "wait", "left", "answered"}] /\ code' \in [Gets -> {0, 200, 408, 410}]
           /\ batch' \in [Gets -> Seq(Frames)]
           /\ gpc'[g] = "none" /\ code'[g] = 0 /\ batch'[g] = <<>>
           /\ \A h \in Gets \ {g} : gpc'[h] = gpc[h] /\ code'[h] = code[h] /\ batch'[h] = batch[h]
           /\ g \notin ToSet(waiters) \cup ToSet(getQ)
           /\ \A h \in Gets : Once(batch'[h], Frames)
<1>1. /\ gpc \in [Gets -> {"none", "net", "wait", "left", "answered"}] /\ code \in [Gets -> {0, 200, 408, 410}]
      /\ batch \in [Gets -> Seq(Frames)] /\ <<>> \in Seq(Frames)
  BY DEF MeshInv, MeshTypes
<1>2. /\ gpc'[g] = "none" /\ code'[g] = 0 /\ batch'[g] = <<>>
      /\ \A h \in Gets \ {g} : gpc'[h] = gpc[h] /\ code'[h] = code[h] /\ batch'[h] = batch[h]
  BY <1>1
<1>3. g \notin ToSet(waiters) \cup ToSet(getQ) BY DEF MeshInv, Registered
<1>4. \A h \in Gets : Once(batch'[h], Frames)
  <2> TAKE h \in Gets
  <2>1. CASE h = g BY <1>2, <2>1, OnceEmpty
  <2>2. CASE h # g BY <1>2, <2>2 DEF MeshInv, OnceEach
  <2> QED BY <2>1, <2>2
<1> QED BY <1>1, <1>2, <1>3, <1>4

\* An answer that nobody takes: something broke before.
LEMMA UnheardStep == ASSUME MeshInv, NEW g \in Gets, Unheard(g) PROVE MeshInv'
<1>same. UNCHANGED <<dir, nDown, dataOut, ctrlOut, getQ, disp, ctrlQ, dataQ, dataBytes, waiters, aqm, chGone, loop,
                     listens, todo, ctrlRecv, dataRecv, taken, tClosed, post, nUp, meshIn, trouble, timeouts>>
  BY DEF Unheard, sendVars, recvVars, upVars
<1>1. /\ gpc[g] = "answered" /\ ~(loop[g[1]] = "await" /\ listens[g[1]] = g[2])
      /\ gpc' = [gpc EXCEPT ![g] = "none"] /\ batch' = [batch EXCEPT ![g] = <<>>] /\ code' = [code EXCEPT ![g] = 0]
  BY DEF Unheard
<1>2. trouble # 0 BY <1>1 DEF MeshInv, Answers
<1>free. /\ gpc' \in [Gets -> {"none", "net", "wait", "left", "answered"}] /\ code' \in [Gets -> {0, 200, 408, 410}]
         /\ batch' \in [Gets -> Seq(Frames)]
         /\ gpc'[g] = "none" /\ code'[g] = 0 /\ batch'[g] = <<>>
         /\ \A h \in Gets \ {g} : gpc'[h] = gpc[h] /\ code'[h] = code[h] /\ batch'[h] = batch[h]
         /\ g \notin ToSet(waiters) \cup ToSet(getQ)
         /\ \A h \in Gets : Once(batch'[h], Frames)
  BY <1>1, SlotFreed
<1>types. MeshTypes' BY <1>same, <1>free DEF MeshInv, MeshTypes
<1>lengths. Lengths' BY <1>same DEF MeshInv, Lengths
<1>once. OnceEach' BY <1>same, <1>free DEF MeshInv, OnceEach
<1>located. Located'
  <2>1. \A x \in MeshPlaces \ {<<"get", g>>} : Held'[x] = Held[x]
    <3>1. PICK X : X = {<<"get", g>>} OBVIOUS
    <3>2. \A h \in Gets : <<"get", h>> \in X \/ batch'[h] = batch[h] BY <1>free, <3>1
    <3>3. \A x \in MeshPlaces \ X : Held'[x] = Held[x] BY <1>same, <3>2, HeldElsewhere
    <3> QED BY <3>1, <3>3
  <2>2. Held'[<<"get", g>>] = {} BY <1>free, HeldNext, ToSetType
  <2>3. \A x \in MeshPlaces : Held'[x] \subseteq Held[x] \cup {0} BY <2>1, <2>2
  <2> QED BY <1>same, <1>2, <2>3, LocatedDrop DEF MeshInv, MeshTypes
<1>registered. Registered'
  <2>1. \A h \in Gets : h \in ToSet(waiters) \cup ToSet(getQ) => gpc'[h] = gpc[h] /\ batch'[h] = batch[h] BY <1>free
  <2>2. \A h \in Gets : h \in ToSet(waiters') \cup ToSet(getQ') => gpc'[h] = "wait" /\ batch'[h] = <<>>
    BY <1>same, <2>1 DEF MeshInv, Registered
  <2> QED BY <1>same, <2>2 DEF MeshInv, Registered
<1>answers. Answers'
  <2> SUFFICES ASSUME NEW h \in Gets
               PROVE  /\ gpc'[h] \in {"none", "net"} => batch'[h] = <<>>
                      /\ gpc'[h] = "answered" => /\ code'[h] # 0 /\ (code'[h] = 410 => trouble' > 0)
                                                 /\ code'[h] = 408 => batch'[h] = <<>>
                                                 /\ code'[h] = 200 => batch'[h] # <<>>
                      /\ gpc'[h] # "none" /\ trouble' = 0 => loop'[h[1]] = "await" /\ listens'[h[1]] = h[2]
    BY DEF Answers
  <2>1. CASE h = g BY <1>same, <1>free, <2>1
  <2>2. CASE h # g
    <3>1. gpc'[h] = gpc[h] /\ code'[h] = code[h] /\ batch'[h] = batch[h] BY <1>free, <2>2
    <3> QED BY <1>same, <3>1 DEF MeshInv, Answers
  <2> QED BY <2>1, <2>2
<1>routing. Routing' BY <1>same DEF MeshInv, Routing
<1>unbroken. Unbroken' BY <1>same DEF MeshInv, Unbroken
<1>bytes. BytesExact' BY <1>same DEF MeshInv, BytesExact, Bytes
<1>work. WorkConserving' BY <1>same DEF MeshInv, WorkConserving, Range
<1> QED BY <1>types, <1>lengths, <1>once, <1>located, <1>registered, <1>answers, <1>routing, <1>unbroken, <1>bytes, <1>work DEF MeshInv

\* The client takes an answer: the batch is what its loop routes next.
LEMMA RecvAnswerStep == ASSUME MeshInv, NEW l \in Loops, RecvAnswer(l) PROVE MeshInv'
<1>same. UNCHANGED <<dir, nDown, dataOut, ctrlOut, getQ, disp, ctrlQ, dataQ, dataBytes, waiters, aqm, chGone, listens,
                     ctrlRecv, dataRecv, taken, tClosed, post, nUp, meshIn, trouble, timeouts>>
  BY DEF RecvAnswer, sendVars, upVars
<1>1. PICK g : g = <<l, listens[l]>> OBVIOUS
<1>2. g \in Gets /\ g[1] = l /\ listens[l] = g[2] BY <1>1 DEF Gets, MeshInv, MeshTypes
<1>3. /\ loop[l] = "await" /\ gpc[g] = "answered"
      /\ gpc' = [gpc EXCEPT ![g] = "none"] /\ batch' = [batch EXCEPT ![g] = <<>>] /\ code' = [code EXCEPT ![g] = 0]
      /\ loop' = [loop EXCEPT ![l] = IF code[g] = 408 THEN "get" ELSE "route"]
  BY <1>1 DEF RecvAnswer
<1> DEFINE t == CASE code[g] = 200 -> batch[g] [] code[g] = 410 -> <<0>> [] OTHER -> <<>>
<1>5. todo' = [todo EXCEPT ![l] = t] BY <1>1 DEF RecvAnswer
<1>6. /\ code[g] \in {200, 408, 410} /\ (code[g] = 410 => trouble > 0)
      /\ code[g] = 408 => batch[g] = <<>>
      /\ code[g] = 200 => batch[g] # <<>>
  BY <1>2, <1>3 DEF MeshInv, MeshTypes, Answers
<1>7. /\ code[g] = 200 => t = batch[g]
      /\ code[g] = 410 => t = <<0>>
      /\ code[g] = 408 => t = <<>>
  OBVIOUS
<1> HIDE DEF t
<1>8. batch[g] \in Seq(Frames) /\ batch[g] \in Seq(Nat) /\ Once(batch[g], Frames)
  <2>1. batch[g] \in Seq(Frames) BY <1>2 DEF MeshInv, MeshTypes
  <2>2. batch[g] \in Seq(Nat) BY <2>1, LenProperties, ElementOfSeq DEF Frames
  <2> QED BY <1>2, <2>1, <2>2 DEF MeshInv, OnceEach
<1>9. <<0>> \in Seq(Nat) /\ <<>> \in Seq(Nat) /\ <<0>> # <<>> /\ ToSet(<<0>>) = {0} /\ Once(<<0>>, Frames)
      /\ Once(<<>>, Frames)
  BY ErrorAlone, OnceEmpty
<1>10. t \in Seq(Nat) /\ Once(t, Frames) /\ (t = <<>> <=> code[g] = 408)
  <2>1. CASE code[g] = 200 BY <1>6, <1>7, <1>8, <2>1
  <2>2. CASE code[g] = 408
    <3>1. t = <<>> BY <1>7, <2>2
    <3> QED BY <1>9, <2>2, <3>1, Zenon
  <2>3. CASE code[g] = 410
    <3>1. t = <<0>> /\ code[g] # 408 BY <1>7, <2>3
    <3> QED BY <1>9, <3>1, Zenon
  <2> QED BY <1>6, <2>1, <2>2, <2>3
<1>11. 0 \in ToSet(t) => t = <<0>> /\ trouble # 0
  <2>1. 0 \notin ToSet(batch[g])
    <3>1. ToSet(batch[g]) \subseteq Frames BY <1>8, ToSetType
    <3> QED BY <3>1 DEF Frames
  <2>2. 0 \notin ToSet(<<>>) BY <1>9, ToSetType
  <2> QED BY <1>6, <1>7, <2>1, <2>2
<1>12. /\ loop \in [Loops -> {"get", "await", "route", "over"}] /\ todo \in [Loops -> Seq(Nat)] /\ todo[l] = <<>>
  BY <1>3 DEF MeshInv, MeshTypes, Routing
<1>13. /\ loop'[l] = (IF code[g] = 408 THEN "get" ELSE "route") /\ todo'[l] = t
       /\ \A k \in Loops \ {l} : loop'[k] = loop[k] /\ todo'[k] = todo[k]
  BY <1>3, <1>5, <1>12
<1>free. /\ gpc' \in [Gets -> {"none", "net", "wait", "left", "answered"}] /\ code' \in [Gets -> {0, 200, 408, 410}]
         /\ batch' \in [Gets -> Seq(Frames)]
         /\ gpc'[g] = "none" /\ code'[g] = 0 /\ batch'[g] = <<>>
         /\ \A h \in Gets \ {g} : gpc'[h] = gpc[h] /\ code'[h] = code[h] /\ batch'[h] = batch[h]
         /\ g \notin ToSet(waiters) \cup ToSet(getQ)
         /\ \A h \in Gets : Once(batch'[h], Frames)
  BY <1>2, <1>3, SlotFreed
<1>types. MeshTypes'
  <2>1. loop' \in [Loops -> {"get", "await", "route", "over"}] /\ todo' \in [Loops -> Seq(Nat)] BY <1>3, <1>5, <1>10, <1>12
  <2> QED BY <1>same, <1>free, <2>1 DEF MeshInv, MeshTypes
<1>lengths. Lengths' BY <1>same DEF MeshInv, Lengths
<1>once. OnceEach'
  <2>1. \A k \in Loops : Once(todo'[k], Frames) BY <1>10, <1>13 DEF MeshInv, OnceEach
  <2> QED BY <1>same, <1>free, <2>1 DEF MeshInv, OnceEach
<1>located. Located'
  <2>1. PICK f, d : f = <<"get", g>> /\ d = <<"loop", l>> OBVIOUS
  <2>2. f \in MeshPlaces /\ d \in MeshPlaces /\ f # d BY <1>2, <2>1, PlaceOf
  <2>3. \A x \in MeshPlaces \ {f, d} : Held'[x] = Held[x]
    <3>1. PICK X : X = {f, d} OBVIOUS
    <3>2. \A h \in Gets : <<"get", h>> \in X \/ batch'[h] = batch[h] BY <1>free, <2>1, <3>1
    <3>3. \A k \in Loops : <<"loop", k>> \in X \/ todo'[k] = todo[k] BY <1>13, <2>1, <3>1
    <3>4. \A x \in MeshPlaces \ X : Held'[x] = Held[x] BY <1>same, <3>2, <3>3, HeldElsewhere
    <3> QED BY <3>1, <3>4
  <2>4. Held[f] = ToSet(batch[g]) /\ Held'[f] = {} /\ Held[d] = {} /\ Held'[d] = ToSet(t)
    <3>1. Held[f] = ToSet(batch[g]) /\ Held[d] = ToSet(todo[l]) BY <1>2, <2>1, HeldAt
    <3>2. Held'[f] = ToSet(batch'[g]) /\ Held'[d] = ToSet(todo'[l]) BY <1>2, <2>1, HeldNext
    <3> QED BY <1>9, <1>12, <1>13, <1>free, <3>1, <3>2, ToSetType
  <2>5. CASE code[g] = 410
    <3>1. \A x \in MeshPlaces : Held'[x] \subseteq Held[x] \cup {0} BY <1>7, <1>9, <2>3, <2>4, <2>5
    <3>2. trouble' # 0 BY <1>same, <1>6, <2>5
    <3> QED BY <1>same, <3>1, <3>2, LocatedDrop DEF MeshInv, MeshTypes
  <2>6. CASE code[g] # 410
    <3>1. ToSet(t) = Held[f] BY <1>6, <1>7, <2>4, <2>6
    <3>2. PICK P : P = Held[f] OBVIOUS
    <3>3. \A n \in Frames : n \in Held'[f] <=> n \in Held[f] /\ n \notin P BY <2>4, <3>2
    <3>4. \A n \in Frames : n \in Held'[d] <=> n \in Held[d] \/ n \in P BY <2>4, <3>1, <3>2
    <3> QED BY <1>same, <1>types, <2>2, <2>3, <3>2, <3>3, <3>4, LocatedMove DEF MeshInv
  <2> QED BY <2>5, <2>6
<1>registered. Registered'
  <2>1. \A h \in Gets : h \in ToSet(waiters) \cup ToSet(getQ) => gpc'[h] = gpc[h] /\ batch'[h] = batch[h] BY <1>free
  <2>2. \A h \in Gets : h \in ToSet(waiters') \cup ToSet(getQ') => gpc'[h] = "wait" /\ batch'[h] = <<>>
    BY <1>same, <2>1 DEF MeshInv, Registered
  <2> QED BY <1>same, <2>2 DEF MeshInv, Registered
<1>answers. Answers'
  <2> SUFFICES ASSUME NEW h \in Gets
               PROVE  /\ gpc'[h] \in {"none", "net"} => batch'[h] = <<>>
                      /\ gpc'[h] = "answered" => /\ code'[h] # 0 /\ (code'[h] = 410 => trouble' > 0)
                                                 /\ code'[h] = 408 => batch'[h] = <<>>
                                                 /\ code'[h] = 200 => batch'[h] # <<>>
                      /\ gpc'[h] # "none" /\ trouble' = 0 => loop'[h[1]] = "await" /\ listens'[h[1]] = h[2]
    BY DEF Answers
  <2>1. CASE h = g BY <1>same, <1>free, <2>1
  <2>2. CASE h # g
    <3>1. h[1] \in Loops /\ h = <<h[1], h[2]>> BY DEF Gets
    <3>2. gpc[h] # "none" /\ trouble = 0 => loop[h[1]] = "await" /\ listens[h[1]] = h[2] BY DEF MeshInv, Answers
    <3>3. gpc[h] # "none" /\ trouble = 0 => h[1] # l BY <1>1, <2>2, <3>1, <3>2
    <3>4. gpc'[h] = gpc[h] /\ code'[h] = code[h] /\ batch'[h] = batch[h] BY <1>free, <2>2
    <3>5. gpc'[h] # "none" /\ trouble' = 0 => loop'[h[1]] = "await" /\ listens'[h[1]] = h[2]
      BY <1>same, <1>13, <3>1, <3>2, <3>3, <3>4
    <3> QED BY <1>same, <3>4, <3>5 DEF MeshInv, Answers
  <2> QED BY <2>1, <2>2
<1>routing. Routing'
  <2> SUFFICES ASSUME NEW k \in Loops
               PROVE  (loop'[k] = "route" <=> todo'[k] # <<>>) /\ (0 \in ToSet(todo'[k]) => todo'[k] = <<0>>)
    BY <1>same DEF MeshInv, Routing
  <2>1. CASE k = l BY <1>10, <1>11, <1>13, <2>1
  <2>2. CASE k # l BY <1>13, <2>2 DEF MeshInv, Routing
  <2> QED BY <2>1, <2>2
<1>unbroken. Unbroken'
  <2>1. trouble = 0 => \A k \in Loops : 0 \notin ToSet(todo'[k]) BY <1>11, <1>13 DEF MeshInv, Unbroken
  <2> QED BY <1>same, <2>1 DEF MeshInv, Unbroken
<1>bytes. BytesExact' BY <1>same DEF MeshInv, BytesExact, Bytes
<1>work. WorkConserving' BY <1>same DEF MeshInv, WorkConserving, Range
<1> QED BY <1>types, <1>lengths, <1>once, <1>located, <1>registered, <1>answers, <1>routing, <1>unbroken, <1>bytes, <1>work DEF MeshInv

\* The connection of a GET breaks and its loop reports it.
LEMMA BreaksStep ==
    ASSUME MeshInv, NEW l \in Loops, loop[l] = "await", Trouble,
           loop' = [loop EXCEPT ![l] = "route"], todo' = [todo EXCEPT ![l] = << 0 >>], UNCHANGED <<gpc, listens>>,
           UNCHANGED <<dir, sendVars, dispVars, getQ, code, timeouts, ctrlRecv, dataRecv, upVars, chGone, taken, tClosed>>
    PROVE  MeshInv'
<1>same. UNCHANGED <<dir, nDown, dataOut, ctrlOut, getQ, disp, ctrlQ, dataQ, dataBytes, waiters, batch, gpc, code, aqm,
                     chGone, listens, ctrlRecv, dataRecv, taken, tClosed, post, nUp, meshIn, timeouts>>
  BY DEF sendVars, dispVars, upVars
<1>1. /\ loop \in [Loops -> {"get", "await", "route", "over"}] /\ todo \in [Loops -> Seq(Nat)]
      /\ trouble' \in Nat /\ trouble' # 0 /\ trouble' > 0
  BY DEF MeshInv, MeshTypes, Trouble
<1>2. /\ loop'[l] = "route" /\ todo'[l] = <<0>>
      /\ \A k \in Loops \ {l} : loop'[k] = loop[k] /\ todo'[k] = todo[k]
  BY <1>1
<1>types. MeshTypes'
  <2>1. loop' \in [Loops -> {"get", "await", "route", "over"}] /\ todo' \in [Loops -> Seq(Nat)] BY <1>1, ErrorAlone
  <2> QED BY <1>same, <1>1, <2>1 DEF MeshInv, MeshTypes
<1>lengths. Lengths' BY <1>same DEF MeshInv, Lengths
<1>once. OnceEach'
  <2>1. \A k \in Loops : Once(todo'[k], Frames) BY <1>2, ErrorAlone DEF MeshInv, OnceEach
  <2> QED BY <1>same, <2>1 DEF MeshInv, OnceEach
<1>located. Located'
  <2>1. PICK d, X : d = <<"loop", l>> /\ X = {d} OBVIOUS
  <2>2. \A x \in MeshPlaces \ X : Held'[x] = Held[x]
    <3>1. \A k \in Loops : <<"loop", k>> \in X \/ todo'[k] = todo[k] BY <1>2, <2>1
    <3> QED BY <1>same, <3>1, HeldElsewhere
  <2>3. Held'[d] = {0} BY <1>2, <2>1, HeldNext, ErrorAlone
  <2>4. \A x \in MeshPlaces : Held'[x] \subseteq Held[x] \cup {0} BY <2>1, <2>2, <2>3
  <2> QED BY <1>same, <1>1, <2>4, LocatedDrop DEF MeshInv, MeshTypes
<1>registered. Registered' BY <1>same DEF MeshInv, Registered
<1>answers. Answers' BY <1>same, <1>1 DEF MeshInv, Answers
<1>routing. Routing'
  <2> SUFFICES ASSUME NEW k \in Loops
               PROVE  (loop'[k] = "route" <=> todo'[k] # <<>>) /\ (0 \in ToSet(todo'[k]) => todo'[k] = <<0>>)
    BY <1>same DEF MeshInv, Routing
  <2>1. CASE k = l BY <1>2, <2>1, ErrorAlone
  <2>2. CASE k # l BY <1>2, <2>2 DEF MeshInv, Routing
  <2> QED BY <2>1, <2>2
<1>unbroken. Unbroken' BY <1>1 DEF Unbroken
<1>bytes. BytesExact' BY <1>same DEF MeshInv, BytesExact, Bytes
<1>work. WorkConserving' BY <1>same DEF MeshInv, WorkConserving, Range
<1> QED BY <1>types, <1>lengths, <1>once, <1>located, <1>registered, <1>answers, <1>routing, <1>unbroken, <1>bytes, <1>work DEF MeshInv

\* net/http sends the request again: the handler of the first one goes on.
LEMMA RepeatStep ==
    ASSUME MeshInv, NEW l \in Loops, loop[l] = "await", Trouble, SlotFree(<<l, 2>>),
           listens' = [listens EXCEPT ![l] = 2], gpc' = [gpc EXCEPT ![<<l, 2>>] = "net"], UNCHANGED <<loop, todo>>,
           UNCHANGED <<dir, sendVars, dispVars, getQ, code, timeouts, ctrlRecv, dataRecv, upVars, chGone, taken, tClosed>>
    PROVE  MeshInv'
<1>same. UNCHANGED <<dir, nDown, dataOut, ctrlOut, getQ, disp, ctrlQ, dataQ, dataBytes, waiters, batch, code, aqm,
                     chGone, loop, todo, ctrlRecv, dataRecv, taken, tClosed, post, nUp, meshIn, timeouts>>
  BY DEF sendVars, dispVars, upVars
<1>1. PICK g : g = <<l, 2>> OBVIOUS
<1>2. /\ listens \in [Loops -> {1, 2}] /\ gpc \in [Gets -> {"none", "net", "wait", "left", "answered"}]
      /\ trouble' \in Nat /\ trouble' # 0 /\ trouble' > 0 /\ g \in Gets /\ gpc[g] = "none"
  BY <1>1 DEF MeshInv, MeshTypes, Trouble, SlotFree, Gets
<1>3. gpc'[g] = "net" /\ \A h \in Gets \ {g} : gpc'[h] = gpc[h] BY <1>1, <1>2
<1>types. MeshTypes'
  <2>1. listens' \in [Loops -> {1, 2}] /\ gpc' \in [Gets -> {"none", "net", "wait", "left", "answered"}] BY <1>1, <1>2
  <2> QED BY <1>same, <1>2, <2>1 DEF MeshInv, MeshTypes
<1>lengths. Lengths' BY <1>same DEF MeshInv, Lengths
<1>once. OnceEach' BY <1>same DEF MeshInv, OnceEach
<1>located. Located' BY <1>same, <1>2, HeldSame, LocatedSame DEF MeshInv
<1>registered. Registered'
  <2>1. g \notin ToSet(waiters) \cup ToSet(getQ) BY <1>2 DEF MeshInv, Registered
  <2>2. \A h \in Gets : h \in ToSet(waiters) \cup ToSet(getQ) => gpc'[h] = gpc[h] BY <1>3, <2>1
  <2> QED BY <1>same, <2>2 DEF MeshInv, Registered
<1>answers. Answers'
  <2> SUFFICES ASSUME NEW h \in Gets
               PROVE  /\ gpc'[h] \in {"none", "net"} => batch'[h] = <<>>
                      /\ gpc'[h] = "answered" => /\ code'[h] # 0 /\ (code'[h] = 410 => trouble' > 0)
                                                 /\ code'[h] = 408 => batch'[h] = <<>>
                                                 /\ code'[h] = 200 => batch'[h] # <<>>
                      /\ gpc'[h] # "none" /\ trouble' = 0 => loop'[h[1]] = "await" /\ listens'[h[1]] = h[2]
    BY DEF Answers
  <2>1. CASE h = g BY <1>same, <1>2, <1>3, <2>1 DEF MeshInv, Answers
  <2>2. CASE h # g BY <1>same, <1>2, <1>3, <2>2 DEF MeshInv, Answers
  <2> QED BY <2>1, <2>2
<1>routing. Routing' BY <1>same DEF MeshInv, Routing
<1>unbroken. Unbroken' BY <1>2 DEF Unbroken
<1>bytes. BytesExact' BY <1>same DEF MeshInv, BytesExact, Bytes
<1>work. WorkConserving' BY <1>same DEF MeshInv, WorkConserving, Range
<1> QED BY <1>types, <1>lengths, <1>once, <1>located, <1>registered, <1>answers, <1>routing, <1>unbroken, <1>bytes, <1>work DEF MeshInv

\* The connection of a GET breaks.
LEMMA GetBreaksStep == ASSUME MeshInv, NEW l \in Loops, GetBreaks(l) PROVE MeshInv'
<1>1. /\ loop[l] = "await" /\ Trouble
      /\ UNCHANGED <<dir, sendVars, dispVars, getQ, code, timeouts, ctrlRecv, dataRecv, upVars, chGone, taken, tClosed>>
  BY DEF GetBreaks
<1>2. CASE loop' = [loop EXCEPT ![l] = "route"] /\ todo' = [todo EXCEPT ![l] = <<0>>] /\ UNCHANGED <<gpc, listens>>
  BY <1>1, <1>2, BreaksStep
<1>3. CASE SlotFree(<<l, 2>>) /\ listens' = [listens EXCEPT ![l] = 2] /\ gpc' = [gpc EXCEPT ![<<l, 2>>] = "net"] /\ UNCHANGED <<loop, todo>>
  BY <1>1, <1>3, RepeatStep
<1> QED BY <1>2, <1>3 DEF GetBreaks

\* The client's transport is closed: what its loops and its channels held is lost, after a fault.
LEMMA ShutStep ==
    ASSUME MeshInv, Shut, trouble' \in Nat, trouble' # 0
    PROVE  MeshInv'
<1>same. UNCHANGED <<dir, nDown, dataOut, ctrlOut, getQ, disp, ctrlQ, dataQ, dataBytes, waiters, batch, gpc, code, aqm,
                     chGone, taken, post, nUp, meshIn, timeouts>>
  BY DEF Shut, sendVars, dispVars, getVars, upVars
<1>1. /\ tClosed' = TRUE /\ loop' = [l \in Loops |-> "over"] /\ todo' = [l \in Loops |-> <<>>] /\ listens' = [l \in Loops |-> 1]
      /\ ctrlRecv' = <<>> /\ dataRecv' = <<>> /\ <<>> \in Seq(Nat) /\ Len(<<>>) = 0
  BY DEF Shut
<1>types. MeshTypes'
  <2>1. /\ loop' \in [Loops -> {"get", "await", "route", "over"}] /\ todo' \in [Loops -> Seq(Nat)]
        /\ listens' \in [Loops -> {1, 2}] /\ tClosed' \in BOOLEAN
    BY <1>1
  <2> QED BY <1>same, <1>1, <2>1 DEF MeshInv, MeshTypes
<1>lengths. Lengths' BY <1>same, <1>1, MeshAssumption DEF MeshInv, Lengths
<1>once. OnceEach' BY <1>same, <1>1, OnceEmpty DEF MeshInv, OnceEach
<1>located. Located'
  <2>1. PICK X : X = {<<"cr", 0>>, <<"dr", 0>>} \cup ({"loop"} \X Loops) OBVIOUS
  <2>2. \A x \in MeshPlaces \ X : Held'[x] = Held[x]
    <3>1. \A k \in Loops : <<"loop", k>> \in X BY <2>1
    <3> QED BY <1>same, <2>1, <3>1, HeldElsewhere
  <2>3. Held'[<<"cr", 0>>] = {} /\ Held'[<<"dr", 0>>] = {} BY <1>1, HeldNext, NothingHeld
  <2>4. \A k \in Loops : Held'[<<"loop", k>>] = {} BY <1>1, HeldNext, NothingHeld
  <2>5. \A x \in X : Held'[x] = {} BY <2>1, <2>3, <2>4
  <2>6. \A x \in MeshPlaces : Held'[x] \subseteq Held[x] \cup {0} BY <2>2, <2>5
  <2> QED BY <1>same, <2>6, LocatedDrop DEF MeshInv, MeshTypes
<1>registered. Registered' BY <1>same DEF MeshInv, Registered
<1>answers. Answers' BY <1>same DEF MeshInv, Answers
<1>routing. Routing' BY <1>same, <1>1, NothingHeld DEF MeshInv, Routing
<1>unbroken. Unbroken' BY DEF Unbroken
<1>bytes. BytesExact' BY <1>same DEF MeshInv, BytesExact, Bytes
<1>work. WorkConserving' BY <1>same DEF MeshInv, WorkConserving, Range
<1> QED BY <1>types, <1>lengths, <1>once, <1>located, <1>registered, <1>answers, <1>routing, <1>unbroken, <1>bytes, <1>work DEF MeshInv

\* Recv returns an error, which something broken put there.
LEMMA RecvErrorStep == ASSUME MeshInv, RecvError PROVE MeshInv'
<1>1. (ctrlRecv # <<>> \/ dataRecv # <<>>) /\ NextRecv = 0 /\ Shut /\ UNCHANGED trouble BY DEF RecvError
<1>2. ctrlRecv \in Seq(Nat) /\ dataRecv \in Seq(Nat) /\ trouble \in Nat BY DEF MeshInv, MeshTypes
<1>3. 0 \in ToSet(ctrlRecv) \cup ToSet(dataRecv)
  <2>1. ASSUME NEW s \in Seq(Nat), s # <<>> PROVE s[1] \in ToSet(s)
    <3>1. Len(s) \in Nat /\ Len(s) # 0 BY <2>1, EmptySeq, LenProperties
    <3>2. 1 \in 1 .. Len(s) BY <3>1
    <3> QED BY <3>2, ToSetType
  <2>2. CASE ctrlRecv # <<>>
    <3>1. ctrlRecv[1] = 0 BY <1>1, <2>2 DEF NextRecv
    <3> QED BY <1>2, <2>1, <2>2, <3>1
  <2>3. CASE ctrlRecv = <<>>
    <3>1. dataRecv[1] = 0 /\ dataRecv # <<>> BY <1>1, <2>3 DEF NextRecv
    <3> QED BY <1>2, <2>1, <3>1
  <2> QED BY <2>2, <2>3
<1>4. trouble # 0 BY <1>3 DEF MeshInv, Unbroken
<1> QED BY <1>1, <1>2, <1>4, ShutStep

\* The client's session closes its transport.
LEMMA TransportClosesStep == ASSUME MeshInv, TransportCloses PROVE MeshInv'
<1>1. Shut /\ trouble' \in Nat /\ trouble' # 0 BY DEF TransportCloses, Trouble, MeshInv, MeshTypes
<1> QED BY <1>1, ShutStep

\* The frame a loop routes next.
LEMMA RoutedFirst ==
    ASSUME NEW s \in Seq(Nat), s # <<>>, 0 \in ToSet(s) => s = << 0 >>, Once(s, Frames), NEW n, NEW t, n = Head(s), t = Tail(s)
    PROVE  /\ n \in Nat /\ t \in Seq(Nat) /\ n \in ToSet(s) /\ ToSet(s) = ToSet(t) \cup {n} /\ Once(t, Frames)
           /\ n # 0 => n \notin ToSet(t)
           /\ n = 0 => t = <<>>
           /\ Len(s) = 1 => t = <<>>
           /\ Len(s) # 1 => t # <<>>
           /\ 0 \notin ToSet(t)
<1>2. /\ t \in Seq(Nat) /\ n \in Nat /\ n \in ToSet(s) /\ ToSet(s) = ToSet(t) \cup {n}
      /\ Len(s) = 1 => t = <<>>
      /\ Len(s) # 1 => t # <<>>
  BY TakeFirst
<1>3. Once(t, Frames) BY TakeFirst
<1>4. n # 0 => n \notin ToSet(t)
  <2>1. n # 0 => n \in Frames BY <1>2 DEF Frames
  <2> QED BY <2>1, TakeFirst
<1>5. s = <<0>> => t = <<>>
  <2>1. s = <<0>> => Len(s) = 1 OBVIOUS
  <2> QED BY <1>2, <2>1
<1>6. n = 0 => t = <<>> BY <1>2, <1>5
<1>7. 0 \notin ToSet(t)
  <2>1. 0 \in ToSet(t) => t = <<>> BY <1>2, <1>5
  <2> QED BY <2>1, NothingHeld
<1> QED BY <1>2, <1>3, <1>4, <1>6, <1>7

\* A frame or an error goes into ctrlRecv.
LEMMA RouteCtrlStep ==
    ASSUME MeshInv, NEW l \in Loops, loop[l] = "route", NEW s, NEW n, s = todo[l], n = Head(s),
           todo' = [todo EXCEPT ![l] = Tail(@)],
           loop' = [loop EXCEPT ![l] = IF n = 0 THEN "over" ELSE IF Len(s) = 1 THEN "get" ELSE @],
           Len(ctrlRecv) < RecvLen, ctrlRecv' = Append(ctrlRecv, n), UNCHANGED dataRecv,
           UNCHANGED <<dir, sendVars, dispVars, getVars, listens, upVars, chGone, taken, tClosed, trouble>>
    PROVE  MeshInv'
<1>same. UNCHANGED <<dir, nDown, dataOut, ctrlOut, getQ, disp, ctrlQ, dataQ, dataBytes, waiters, batch, gpc, code, aqm,
                     chGone, listens, dataRecv, taken, tClosed, post, nUp, meshIn, trouble, timeouts>>
  BY DEF sendVars, dispVars, getVars, upVars
<1>1. PICK t : t = Tail(s) OBVIOUS
<1>all. s \in Seq(Nat) /\ s # <<>> /\ (0 \in ToSet(s) => s = <<0>> /\ trouble # 0) /\ Once(s, Frames)
  BY DEF MeshInv, MeshTypes, Routing, Unbroken, OnceEach
<1>first. /\ n \in Nat /\ t \in Seq(Nat) /\ n \in ToSet(s) /\ ToSet(s) = ToSet(t) \cup {n} /\ Once(t, Frames)
          /\ n # 0 => n \notin ToSet(t)
          /\ n = 0 => t = <<>>
          /\ Len(s) = 1 => t = <<>>
          /\ Len(s) # 1 => t # <<>>
          /\ 0 \notin ToSet(t)
  BY ONLY <1>all, n = Head(s), <1>1, RoutedFirst
<1>loop. /\ loop \in [Loops -> {"get", "await", "route", "over"}] /\ todo \in [Loops -> Seq(Nat)] BY DEF MeshInv, MeshTypes
<1>rest. /\ todo'[l] = t /\ loop'[l] = IF n = 0 THEN "over" ELSE IF Len(s) = 1 THEN "get" ELSE "route"
         /\ \A k \in Loops \ {l} : loop'[k] = loop[k] /\ todo'[k] = todo[k]
  BY <1>1, <1>loop
<1>2. /\ n \in Nat /\ n \in ToSet(s) /\ ToSet(s) = ToSet(t) \cup {n} /\ Once(t, Frames)
      /\ n # 0 => n \notin ToSet(t)
      /\ n = 0 => trouble # 0
      /\ todo'[l] = t
      /\ loop'[l] = "route" <=> t # <<>>
      /\ 0 \notin ToSet(t)
      /\ loop'[l] # "await"
      /\ \A k \in Loops \ {l} : loop'[k] = loop[k] /\ todo'[k] = todo[k]
  BY <1>all, <1>first, <1>rest
<1>3. PICK f, d : f = <<"loop", l>> /\ d = <<"cr", 0>> OBVIOUS
<1>4. f \in MeshPlaces /\ d \in MeshPlaces /\ f # d BY <1>3, PlaceOf
<1>5. Held[f] = ToSet(s) /\ Held[d] = ToSet(ctrlRecv) BY <1>3, HeldAt
<1>6. ctrlRecv \in Seq(Nat) /\ Once(ctrlRecv, Frames) BY DEF MeshInv, MeshTypes, OnceEach
<1>7. n \in Frames => n \notin ToSet(ctrlRecv) BY <1>2, <1>4, <1>5 DEF MeshInv, Located, Alone
<1>8. /\ ctrlRecv' \in Seq(Nat) /\ Len(ctrlRecv') = Len(ctrlRecv) + 1 /\ ToSet(ctrlRecv') = ToSet(ctrlRecv) \cup {n}
  BY ONLY <1>first, <1>6, ctrlRecv' = Append(ctrlRecv, n), PutLast
<1>9. Once(ctrlRecv', Frames) BY <1>first, <1>6, <1>7, PutLast
<1>types. MeshTypes'
  <2>1. ctrlRecv' \in Seq(Nat) /\ todo' \in [Loops -> Seq(Nat)] /\ loop' \in [Loops -> {"get", "await", "route", "over"}]
    BY <1>1, <1>first, <1>loop, <1>8
  <2>2. MeshTypes BY DEF MeshInv
  <2> QED BY <1>same, <2>1, <2>2 DEF MeshTypes
<1>lengths. Lengths'
  <2>1. Len(ctrlRecv) \in Nat /\ RecvLen \in Nat BY <1>6, LenProperties, MeshAssumption
  <2>2. Len(ctrlRecv') <= RecvLen BY <1>8, <2>1
  <2> QED BY <1>same, <2>2 DEF MeshInv, Lengths
<1>once. OnceEach'
  <2>1. \A k \in Loops : Once(todo'[k], Frames) BY <1>2 DEF MeshInv, OnceEach
  <2> QED BY <1>same, <1>9, <2>1 DEF MeshInv, OnceEach
<1>located. Located'
  <2>1. \A x \in MeshPlaces \ {f, d} : Held'[x] = Held[x]
    <3>1. PICK X : X = {f, d} OBVIOUS
    <3>2. \A k \in Loops : <<"loop", k>> \in X \/ todo'[k] = todo[k] BY <1>2, <1>3, <3>1
    <3>3. \A x \in MeshPlaces \ X : Held'[x] = Held[x] BY <1>same, <1>3, <3>1, <3>2, HeldElsewhere
    <3> QED BY <3>1, <3>3
  <2>2. Held'[f] = ToSet(t) /\ Held'[d] = ToSet(ctrlRecv) \cup {n} BY <1>2, <1>3, <1>8, HeldNext
  <2>3. PICK P : P = {n} OBVIOUS
  <2>4. \A m \in Frames : m \in Held'[f] <=> m \in Held[f] /\ m \notin P BY <1>2, <1>5, <2>2, <2>3 DEF Frames
  <2>5. \A m \in Frames : m \in Held'[d] <=> m \in Held[d] \/ m \in P BY <1>5, <2>2, <2>3
  <2>6. P \subseteq Held[f] BY <1>2, <1>5, <2>3
  <2> QED BY <1>same, <1>types, <1>4, <2>1, <2>4, <2>5, <2>6, LocatedMove DEF MeshInv
<1>registered. Registered' BY <1>same DEF MeshInv, Registered
<1>answers. Answers'
  <2> SUFFICES ASSUME NEW h \in Gets
               PROVE  /\ gpc'[h] \in {"none", "net"} => batch'[h] = <<>>
                      /\ gpc'[h] = "answered" => /\ code'[h] # 0 /\ (code'[h] = 410 => trouble' > 0)
                                                 /\ code'[h] = 408 => batch'[h] = <<>>
                                                 /\ code'[h] = 200 => batch'[h] # <<>>
                      /\ gpc'[h] # "none" /\ trouble' = 0 => loop'[h[1]] = "await" /\ listens'[h[1]] = h[2]
    BY DEF Answers
  <2>1. h[1] \in Loops BY DEF Gets
  <2>2. gpc[h] # "none" /\ trouble = 0 => loop[h[1]] = "await" /\ listens[h[1]] = h[2] BY DEF MeshInv, Answers
  <2>3. gpc[h] # "none" /\ trouble = 0 => h[1] # l BY <2>2
  <2>4. gpc'[h] # "none" /\ trouble' = 0 => loop'[h[1]] = "await" /\ listens'[h[1]] = h[2] BY <1>same, <1>2, <2>1, <2>2, <2>3
  <2> QED BY <1>same, <2>4 DEF MeshInv, Answers
<1>routing. Routing'
  <2> SUFFICES ASSUME NEW k \in Loops
               PROVE  (loop'[k] = "route" <=> todo'[k] # <<>>) /\ (0 \in ToSet(todo'[k]) => todo'[k] = <<0>>)
    BY <1>same DEF MeshInv, Routing
  <2>1. CASE k = l BY <1>2, <2>1
  <2>2. CASE k # l BY <1>2, <2>2 DEF MeshInv, Routing
  <2> QED BY <2>1, <2>2
<1>unbroken. Unbroken'
  <2>1. trouble = 0 => \A k \in Loops : 0 \notin ToSet(todo'[k]) BY <1>2 DEF MeshInv, Unbroken
  <2>2. trouble = 0 => 0 \notin ToSet(ctrlRecv') BY <1>2, <1>8 DEF MeshInv, Unbroken
  <2> QED BY <1>same, <2>1, <2>2 DEF MeshInv, Unbroken
<1>bytes. BytesExact' BY <1>same DEF MeshInv, BytesExact, Bytes
<1>work. WorkConserving' BY <1>same DEF MeshInv, WorkConserving, Range
<1> QED BY <1>types, <1>lengths, <1>once, <1>located, <1>registered, <1>answers, <1>routing, <1>unbroken, <1>bytes, <1>work DEF MeshInv

\* A frame or an error goes into dataRecv.
LEMMA RouteDataStep ==
    ASSUME MeshInv, NEW l \in Loops, loop[l] = "route", NEW s, NEW n, s = todo[l], n = Head(s),
           todo' = [todo EXCEPT ![l] = Tail(@)],
           loop' = [loop EXCEPT ![l] = IF n = 0 THEN "over" ELSE IF Len(s) = 1 THEN "get" ELSE @],
           Len(dataRecv) < RecvLen, dataRecv' = Append(dataRecv, n), UNCHANGED ctrlRecv,
           UNCHANGED <<dir, sendVars, dispVars, getVars, listens, upVars, chGone, taken, tClosed, trouble>>
    PROVE  MeshInv'
<1>same. UNCHANGED <<dir, nDown, dataOut, ctrlOut, getQ, disp, ctrlQ, dataQ, dataBytes, waiters, batch, gpc, code, aqm,
                     chGone, listens, ctrlRecv, taken, tClosed, post, nUp, meshIn, trouble, timeouts>>
  BY DEF sendVars, dispVars, getVars, upVars
<1>1. PICK t : t = Tail(s) OBVIOUS
<1>all. s \in Seq(Nat) /\ s # <<>> /\ (0 \in ToSet(s) => s = <<0>> /\ trouble # 0) /\ Once(s, Frames)
  BY DEF MeshInv, MeshTypes, Routing, Unbroken, OnceEach
<1>first. /\ n \in Nat /\ t \in Seq(Nat) /\ n \in ToSet(s) /\ ToSet(s) = ToSet(t) \cup {n} /\ Once(t, Frames)
          /\ n # 0 => n \notin ToSet(t)
          /\ n = 0 => t = <<>>
          /\ Len(s) = 1 => t = <<>>
          /\ Len(s) # 1 => t # <<>>
          /\ 0 \notin ToSet(t)
  BY ONLY <1>all, n = Head(s), <1>1, RoutedFirst
<1>loop. /\ loop \in [Loops -> {"get", "await", "route", "over"}] /\ todo \in [Loops -> Seq(Nat)] BY DEF MeshInv, MeshTypes
<1>rest. /\ todo'[l] = t /\ loop'[l] = IF n = 0 THEN "over" ELSE IF Len(s) = 1 THEN "get" ELSE "route"
         /\ \A k \in Loops \ {l} : loop'[k] = loop[k] /\ todo'[k] = todo[k]
  BY <1>1, <1>loop
<1>2. /\ n \in Nat /\ n \in ToSet(s) /\ ToSet(s) = ToSet(t) \cup {n} /\ Once(t, Frames)
      /\ n # 0 => n \notin ToSet(t)
      /\ n = 0 => trouble # 0
      /\ todo'[l] = t
      /\ loop'[l] = "route" <=> t # <<>>
      /\ 0 \notin ToSet(t)
      /\ loop'[l] # "await"
      /\ \A k \in Loops \ {l} : loop'[k] = loop[k] /\ todo'[k] = todo[k]
  BY <1>all, <1>first, <1>rest
<1>3. PICK f, d : f = <<"loop", l>> /\ d = <<"dr", 0>> OBVIOUS
<1>4. f \in MeshPlaces /\ d \in MeshPlaces /\ f # d BY <1>3, PlaceOf
<1>5. Held[f] = ToSet(s) /\ Held[d] = ToSet(dataRecv) BY <1>3, HeldAt
<1>6. dataRecv \in Seq(Nat) /\ Once(dataRecv, Frames) BY DEF MeshInv, MeshTypes, OnceEach
<1>7. n \in Frames => n \notin ToSet(dataRecv) BY <1>2, <1>4, <1>5 DEF MeshInv, Located, Alone
<1>8. /\ dataRecv' \in Seq(Nat) /\ Len(dataRecv') = Len(dataRecv) + 1 /\ ToSet(dataRecv') = ToSet(dataRecv) \cup {n}
  BY ONLY <1>first, <1>6, dataRecv' = Append(dataRecv, n), PutLast
<1>9. Once(dataRecv', Frames) BY <1>first, <1>6, <1>7, PutLast
<1>types. MeshTypes'
  <2>1. dataRecv' \in Seq(Nat) /\ todo' \in [Loops -> Seq(Nat)] /\ loop' \in [Loops -> {"get", "await", "route", "over"}]
    BY <1>1, <1>first, <1>loop, <1>8
  <2>2. MeshTypes BY DEF MeshInv
  <2> QED BY <1>same, <2>1, <2>2 DEF MeshTypes
<1>lengths. Lengths'
  <2>1. Len(dataRecv) \in Nat /\ RecvLen \in Nat BY <1>6, LenProperties, MeshAssumption
  <2>2. Len(dataRecv') <= RecvLen BY <1>8, <2>1
  <2> QED BY <1>same, <2>2 DEF MeshInv, Lengths
<1>once. OnceEach'
  <2>1. \A k \in Loops : Once(todo'[k], Frames) BY <1>2 DEF MeshInv, OnceEach
  <2> QED BY <1>same, <1>9, <2>1 DEF MeshInv, OnceEach
<1>located. Located'
  <2>1. \A x \in MeshPlaces \ {f, d} : Held'[x] = Held[x]
    <3>1. PICK X : X = {f, d} OBVIOUS
    <3>2. \A k \in Loops : <<"loop", k>> \in X \/ todo'[k] = todo[k] BY <1>2, <1>3, <3>1
    <3>3. \A x \in MeshPlaces \ X : Held'[x] = Held[x] BY <1>same, <1>3, <3>1, <3>2, HeldElsewhere
    <3> QED BY <3>1, <3>3
  <2>2. Held'[f] = ToSet(t) /\ Held'[d] = ToSet(dataRecv) \cup {n} BY <1>2, <1>3, <1>8, HeldNext
  <2>3. PICK P : P = {n} OBVIOUS
  <2>4. \A m \in Frames : m \in Held'[f] <=> m \in Held[f] /\ m \notin P BY <1>2, <1>5, <2>2, <2>3 DEF Frames
  <2>5. \A m \in Frames : m \in Held'[d] <=> m \in Held[d] \/ m \in P BY <1>5, <2>2, <2>3
  <2>6. P \subseteq Held[f] BY <1>2, <1>5, <2>3
  <2> QED BY <1>same, <1>types, <1>4, <2>1, <2>4, <2>5, <2>6, LocatedMove DEF MeshInv
<1>registered. Registered' BY <1>same DEF MeshInv, Registered
<1>answers. Answers'
  <2> SUFFICES ASSUME NEW h \in Gets
               PROVE  /\ gpc'[h] \in {"none", "net"} => batch'[h] = <<>>
                      /\ gpc'[h] = "answered" => /\ code'[h] # 0 /\ (code'[h] = 410 => trouble' > 0)
                                                 /\ code'[h] = 408 => batch'[h] = <<>>
                                                 /\ code'[h] = 200 => batch'[h] # <<>>
                      /\ gpc'[h] # "none" /\ trouble' = 0 => loop'[h[1]] = "await" /\ listens'[h[1]] = h[2]
    BY DEF Answers
  <2>1. h[1] \in Loops BY DEF Gets
  <2>2. gpc[h] # "none" /\ trouble = 0 => loop[h[1]] = "await" /\ listens[h[1]] = h[2] BY DEF MeshInv, Answers
  <2>3. gpc[h] # "none" /\ trouble = 0 => h[1] # l BY <2>2
  <2>4. gpc'[h] # "none" /\ trouble' = 0 => loop'[h[1]] = "await" /\ listens'[h[1]] = h[2] BY <1>same, <1>2, <2>1, <2>2, <2>3
  <2> QED BY <1>same, <2>4 DEF MeshInv, Answers
<1>routing. Routing'
  <2> SUFFICES ASSUME NEW k \in Loops
               PROVE  (loop'[k] = "route" <=> todo'[k] # <<>>) /\ (0 \in ToSet(todo'[k]) => todo'[k] = <<0>>)
    BY <1>same DEF MeshInv, Routing
  <2>1. CASE k = l BY <1>2, <2>1
  <2>2. CASE k # l BY <1>2, <2>2 DEF MeshInv, Routing
  <2> QED BY <2>1, <2>2
<1>unbroken. Unbroken'
  <2>1. trouble = 0 => \A k \in Loops : 0 \notin ToSet(todo'[k]) BY <1>2 DEF MeshInv, Unbroken
  <2>2. trouble = 0 => 0 \notin ToSet(dataRecv') BY <1>2, <1>8 DEF MeshInv, Unbroken
  <2> QED BY <1>same, <2>1, <2>2 DEF MeshInv, Unbroken
<1>bytes. BytesExact' BY <1>same DEF MeshInv, BytesExact, Bytes
<1>work. WorkConserving' BY <1>same DEF MeshInv, WorkConserving, Range
<1> QED BY <1>types, <1>lengths, <1>once, <1>located, <1>registered, <1>answers, <1>routing, <1>unbroken, <1>bytes, <1>work DEF MeshInv

\* A recvLoop routes the next frame of its batch.
LEMMA RouteFrameStep == ASSUME MeshInv, NEW l \in Loops, RouteFrame(l) PROVE MeshInv'
<1>1. PICK s, n : s = todo[l] /\ n = Head(s) OBVIOUS
<1>2. /\ loop[l] = "route" /\ todo' = [todo EXCEPT ![l] = Tail(@)]
      /\ loop' = [loop EXCEPT ![l] = IF n = 0 THEN "over" ELSE IF Len(s) = 1 THEN "get" ELSE @]
      /\ UNCHANGED <<dir, sendVars, dispVars, getVars, listens, upVars, chGone, taken, tClosed, trouble>>
  BY <1>1 DEF RouteFrame
<1>3. \/ Len(ctrlRecv) < RecvLen /\ ctrlRecv' = Append(ctrlRecv, n) /\ UNCHANGED dataRecv
      \/ Len(dataRecv) < RecvLen /\ dataRecv' = Append(dataRecv, n) /\ UNCHANGED ctrlRecv
  BY <1>1 DEF RouteFrame
<1>4. CASE Len(ctrlRecv) < RecvLen /\ ctrlRecv' = Append(ctrlRecv, n) /\ UNCHANGED dataRecv
  BY <1>1, <1>2, <1>4, RouteCtrlStep
<1>5. CASE Len(dataRecv) < RecvLen /\ dataRecv' = Append(dataRecv, n) /\ UNCHANGED ctrlRecv
  BY <1>1, <1>2, <1>5, RouteDataStep
<1> QED BY <1>3, <1>4, <1>5

\* A frame leaves ctrlRecv and is delivered.
LEMMA TakeCtrlStep ==
    ASSUME MeshInv, ctrlRecv # <<>>, NEW n, n = Head(ctrlRecv), n # 0, ctrlRecv' = Tail(ctrlRecv), taken' = taken \cup {n},
           UNCHANGED <<dir, nDown, dataOut, ctrlOut, getQ, disp, ctrlQ, dataQ, dataBytes, waiters, batch, gpc, code,
                       aqm, chGone, loop, listens, todo, dataRecv, tClosed, post, nUp, meshIn, trouble, timeouts>>
    PROVE  MeshInv'
<1>same. UNCHANGED <<dir, nDown, dataOut, ctrlOut, getQ, disp, ctrlQ, dataQ, dataBytes, waiters, batch, gpc, code, aqm,
                     chGone, loop, listens, todo, dataRecv, tClosed, post, nUp, meshIn, trouble, timeouts>>
  OBVIOUS
<1>1. ctrlRecv \in Seq(Nat) /\ Once(ctrlRecv, Frames) BY DEF MeshInv, MeshTypes, OnceEach
<1>2. /\ ctrlRecv' \in Seq(Nat) /\ Len(ctrlRecv') = Len(ctrlRecv) - 1 /\ n \in Nat /\ n \in ToSet(ctrlRecv) /\ ToSet(ctrlRecv) = ToSet(ctrlRecv') \cup {n}
  BY <1>1, TakeFirst
<1>3. n \in Frames /\ Once(ctrlRecv', Frames) /\ n \notin ToSet(ctrlRecv')
  <2>1. n \in Frames BY <1>2 DEF Frames
  <2>2. PICK s, t : s = ctrlRecv /\ t = ctrlRecv' OBVIOUS
  <2>3. s \in Seq(Nat) /\ s # <<>> /\ Once(s, Frames) /\ t = Tail(s) /\ n = Head(s) BY <1>1, <2>2
  <2>4. Once(t, Frames) BY ONLY <2>3, TakeFirst
  <2>5. n \notin ToSet(t) BY ONLY <2>1, <2>3, TakeFirst
  <2> QED BY ONLY <2>1, <2>2, <2>4, <2>5, Zenon
<1>types. MeshTypes'
  <2>1. MeshTypes BY DEF MeshInv
  <2>2. taken \in SUBSET Nat BY <2>1 DEF MeshTypes
  <2>3. n \in Nat BY <1>2 DEF Frames
  <2>4. taken' \in SUBSET Nat BY <2>2, <2>3
  <2> QED BY <1>same, <1>2, <2>1, <2>4 DEF MeshTypes
<1>lengths. Lengths'
  <2>1. Len(ctrlRecv) \in Nat /\ RecvLen \in Nat /\ OutLen \in Nat BY <1>1, LenProperties, MeshAssumption
  <2> QED BY <1>same, <1>2, <2>1 DEF MeshInv, Lengths
<1>once. OnceEach' BY <1>same, <1>3 DEF MeshInv, OnceEach
<1>located. Located'
  <2>1. PICK f, d : f = <<"cr", 0>> /\ d = <<"end", 0>> OBVIOUS
  <2>2. f \in MeshPlaces /\ d \in MeshPlaces /\ f # d BY <2>1, PlaceOf
  <2>3. \A x \in MeshPlaces \ {f, d} : Held'[x] = Held[x]
    <3>1. PICK X : X = {f, d} OBVIOUS
    <3>2. \A x \in MeshPlaces \ X : Held'[x] = Held[x] BY <1>same, <2>1, <3>1, HeldElsewhere
    <3> QED BY <3>1, <3>2
  <2>4. Held[f] = ToSet(ctrlRecv) /\ Held[d] = taken \cup aqm BY <2>1, HeldAt
  <2>5. Held'[f] = ToSet(ctrlRecv') /\ Held'[d] = taken \cup {n} \cup aqm BY <1>same, <2>1, HeldNext
  <2>6. PICK P : P = {n} OBVIOUS
  <2>7. \A m \in Frames : m \in Held'[f] <=> m \in Held[f] /\ m \notin P BY <1>2, <1>3, <2>4, <2>5, <2>6
  <2>8. \A m \in Frames : m \in Held'[d] <=> m \in Held[d] \/ m \in P BY <2>4, <2>5, <2>6
  <2>9. P \subseteq Held[f] BY <1>2, <2>4, <2>6
  <2> QED BY <1>same, <1>types, <2>2, <2>3, <2>7, <2>8, <2>9, LocatedMove DEF MeshInv
<1>registered. Registered' BY <1>same DEF MeshInv, Registered
<1>answers. Answers' BY <1>same DEF MeshInv, Answers
<1>routing. Routing' BY <1>same DEF MeshInv, Routing
<1>unbroken. Unbroken' BY <1>same, <1>2 DEF MeshInv, Unbroken
<1>bytes. BytesExact' BY <1>same DEF MeshInv, BytesExact, Bytes
<1>work. WorkConserving' BY <1>same DEF MeshInv, WorkConserving, Range
<1> QED BY <1>types, <1>lengths, <1>once, <1>located, <1>registered, <1>answers, <1>routing, <1>unbroken, <1>bytes, <1>work DEF MeshInv

\* A frame leaves dataRecv and is delivered.
LEMMA TakeDataStep ==
    ASSUME MeshInv, dataRecv # <<>>, NEW n, n = Head(dataRecv), n # 0, dataRecv' = Tail(dataRecv), taken' = taken \cup {n},
           UNCHANGED <<dir, nDown, dataOut, ctrlOut, getQ, disp, ctrlQ, dataQ, dataBytes, waiters, batch, gpc, code,
                       aqm, chGone, loop, listens, todo, ctrlRecv, tClosed, post, nUp, meshIn, trouble, timeouts>>
    PROVE  MeshInv'
<1>same. UNCHANGED <<dir, nDown, dataOut, ctrlOut, getQ, disp, ctrlQ, dataQ, dataBytes, waiters, batch, gpc, code, aqm,
                     chGone, loop, listens, todo, ctrlRecv, tClosed, post, nUp, meshIn, trouble, timeouts>>
  OBVIOUS
<1>1. dataRecv \in Seq(Nat) /\ Once(dataRecv, Frames) BY DEF MeshInv, MeshTypes, OnceEach
<1>2. /\ dataRecv' \in Seq(Nat) /\ Len(dataRecv') = Len(dataRecv) - 1 /\ n \in Nat /\ n \in ToSet(dataRecv) /\ ToSet(dataRecv) = ToSet(dataRecv') \cup {n}
  BY <1>1, TakeFirst
<1>3. n \in Frames /\ Once(dataRecv', Frames) /\ n \notin ToSet(dataRecv')
  <2>1. n \in Frames BY <1>2 DEF Frames
  <2>2. PICK s, t : s = dataRecv /\ t = dataRecv' OBVIOUS
  <2>3. s \in Seq(Nat) /\ s # <<>> /\ Once(s, Frames) /\ t = Tail(s) /\ n = Head(s) BY <1>1, <2>2
  <2>4. Once(t, Frames) BY ONLY <2>3, TakeFirst
  <2>5. n \notin ToSet(t) BY ONLY <2>1, <2>3, TakeFirst
  <2> QED BY ONLY <2>1, <2>2, <2>4, <2>5, Zenon
<1>types. MeshTypes'
  <2>1. MeshTypes BY DEF MeshInv
  <2>2. taken \in SUBSET Nat BY <2>1 DEF MeshTypes
  <2>3. n \in Nat BY <1>2 DEF Frames
  <2>4. taken' \in SUBSET Nat BY <2>2, <2>3
  <2> QED BY <1>same, <1>2, <2>1, <2>4 DEF MeshTypes
<1>lengths. Lengths'
  <2>1. Len(dataRecv) \in Nat /\ RecvLen \in Nat /\ OutLen \in Nat BY <1>1, LenProperties, MeshAssumption
  <2> QED BY <1>same, <1>2, <2>1 DEF MeshInv, Lengths
<1>once. OnceEach' BY <1>same, <1>3 DEF MeshInv, OnceEach
<1>located. Located'
  <2>1. PICK f, d : f = <<"dr", 0>> /\ d = <<"end", 0>> OBVIOUS
  <2>2. f \in MeshPlaces /\ d \in MeshPlaces /\ f # d BY <2>1, PlaceOf
  <2>3. \A x \in MeshPlaces \ {f, d} : Held'[x] = Held[x]
    <3>1. PICK X : X = {f, d} OBVIOUS
    <3>2. \A x \in MeshPlaces \ X : Held'[x] = Held[x] BY <1>same, <2>1, <3>1, HeldElsewhere
    <3> QED BY <3>1, <3>2
  <2>4. Held[f] = ToSet(dataRecv) /\ Held[d] = taken \cup aqm BY <2>1, HeldAt
  <2>5. Held'[f] = ToSet(dataRecv') /\ Held'[d] = taken \cup {n} \cup aqm BY <1>same, <2>1, HeldNext
  <2>6. PICK P : P = {n} OBVIOUS
  <2>7. \A m \in Frames : m \in Held'[f] <=> m \in Held[f] /\ m \notin P BY <1>2, <1>3, <2>4, <2>5, <2>6
  <2>8. \A m \in Frames : m \in Held'[d] <=> m \in Held[d] \/ m \in P BY <2>4, <2>5, <2>6
  <2>9. P \subseteq Held[f] BY <1>2, <2>4, <2>6
  <2> QED BY <1>same, <1>types, <2>2, <2>3, <2>7, <2>8, <2>9, LocatedMove DEF MeshInv
<1>registered. Registered' BY <1>same DEF MeshInv, Registered
<1>answers. Answers' BY <1>same DEF MeshInv, Answers
<1>routing. Routing' BY <1>same DEF MeshInv, Routing
<1>unbroken. Unbroken' BY <1>same, <1>2 DEF MeshInv, Unbroken
<1>bytes. BytesExact' BY <1>same DEF MeshInv, BytesExact, Bytes
<1>work. WorkConserving' BY <1>same DEF MeshInv, WorkConserving, Range
<1> QED BY <1>types, <1>lengths, <1>once, <1>located, <1>registered, <1>answers, <1>routing, <1>unbroken, <1>bytes, <1>work DEF MeshInv

\* A frame leaves meshIn and is delivered.
LEMMA TakeInStep ==
    ASSUME MeshInv, meshIn # <<>>, NEW n, n = Head(meshIn), n # 0, meshIn' = Tail(meshIn), taken' = taken \cup {n},
           UNCHANGED <<dir, nDown, dataOut, ctrlOut, getQ, disp, ctrlQ, dataQ, dataBytes, waiters, batch, gpc, code,
                       aqm, chGone, loop, listens, todo, ctrlRecv, dataRecv, tClosed, post, nUp, trouble, timeouts>>
    PROVE  MeshInv'
<1>same. UNCHANGED <<dir, nDown, dataOut, ctrlOut, getQ, disp, ctrlQ, dataQ, dataBytes, waiters, batch, gpc, code, aqm,
                     chGone, loop, listens, todo, ctrlRecv, dataRecv, tClosed, post, nUp, trouble, timeouts>>
  OBVIOUS
<1>1. meshIn \in Seq(Frames) /\ Once(meshIn, Frames) BY DEF MeshInv, MeshTypes, OnceEach
<1>2. /\ meshIn' \in Seq(Frames) /\ Len(meshIn') = Len(meshIn) - 1 /\ n \in Frames /\ n \in ToSet(meshIn) /\ ToSet(meshIn) = ToSet(meshIn') \cup {n}
  BY <1>1, TakeFirst
<1>3. n \in Frames /\ Once(meshIn', Frames) /\ n \notin ToSet(meshIn')
  <2>1. n \in Frames BY <1>2 DEF Frames
  <2>2. PICK s, t : s = meshIn /\ t = meshIn' OBVIOUS
  <2>3. s \in Seq(Frames) /\ s # <<>> /\ Once(s, Frames) /\ t = Tail(s) /\ n = Head(s) BY <1>1, <2>2
  <2>4. Once(t, Frames) BY ONLY <2>3, TakeFirst
  <2>5. n \notin ToSet(t) BY ONLY <2>1, <2>3, TakeFirst
  <2> QED BY ONLY <2>1, <2>2, <2>4, <2>5, Zenon
<1>types. MeshTypes'
  <2>1. MeshTypes BY DEF MeshInv
  <2>2. taken \in SUBSET Nat BY <2>1 DEF MeshTypes
  <2>3. n \in Nat BY <1>2 DEF Frames
  <2>4. taken' \in SUBSET Nat BY <2>2, <2>3
  <2> QED BY <1>same, <1>2, <2>1, <2>4 DEF MeshTypes
<1>lengths. Lengths'
  <2>1. Len(meshIn) \in Nat /\ RecvLen \in Nat /\ OutLen \in Nat BY <1>1, LenProperties, MeshAssumption
  <2> QED BY <1>same, <1>2, <2>1 DEF MeshInv, Lengths
<1>once. OnceEach' BY <1>same, <1>3 DEF MeshInv, OnceEach
<1>located. Located'
  <2>1. PICK f, d : f = <<"in", 0>> /\ d = <<"end", 0>> OBVIOUS
  <2>2. f \in MeshPlaces /\ d \in MeshPlaces /\ f # d BY <2>1, PlaceOf
  <2>3. \A x \in MeshPlaces \ {f, d} : Held'[x] = Held[x]
    <3>1. PICK X : X = {f, d} OBVIOUS
    <3>2. \A x \in MeshPlaces \ X : Held'[x] = Held[x] BY <1>same, <2>1, <3>1, HeldElsewhere
    <3> QED BY <3>1, <3>2
  <2>4. Held[f] = ToSet(meshIn) /\ Held[d] = taken \cup aqm BY <2>1, HeldAt
  <2>5. Held'[f] = ToSet(meshIn') /\ Held'[d] = taken \cup {n} \cup aqm BY <1>same, <2>1, HeldNext
  <2>6. PICK P : P = {n} OBVIOUS
  <2>7. \A m \in Frames : m \in Held'[f] <=> m \in Held[f] /\ m \notin P BY <1>2, <1>3, <2>4, <2>5, <2>6
  <2>8. \A m \in Frames : m \in Held'[d] <=> m \in Held[d] \/ m \in P BY <2>4, <2>5, <2>6
  <2>9. P \subseteq Held[f] BY <1>2, <2>4, <2>6
  <2> QED BY <1>same, <1>types, <2>2, <2>3, <2>7, <2>8, <2>9, LocatedMove DEF MeshInv
<1>registered. Registered' BY <1>same DEF MeshInv, Registered
<1>answers. Answers' BY <1>same DEF MeshInv, Answers
<1>routing. Routing' BY <1>same DEF MeshInv, Routing
<1>unbroken. Unbroken' BY <1>same DEF MeshInv, Unbroken
<1>bytes. BytesExact' BY <1>same DEF MeshInv, BytesExact, Bytes
<1>work. WorkConserving' BY <1>same DEF MeshInv, WorkConserving, Range
<1> QED BY <1>types, <1>lengths, <1>once, <1>located, <1>registered, <1>answers, <1>routing, <1>unbroken, <1>bytes, <1>work DEF MeshInv

\* The client's session receives a frame.
LEMMA RecvFrameStep == ASSUME MeshInv, RecvFrame PROVE MeshInv'
<1>1. UNCHANGED <<dir, nDown, dataOut, ctrlOut, disp, ctrlQ, dataQ, dataBytes, waiters, batch, aqm, getQ, gpc, code, timeouts,
                  loop, listens, todo, post, nUp, meshIn, chGone, tClosed, trouble>>
  BY DEF RecvFrame, sendVars, dispVars, getVars, upVars
<1>2. ctrlRecv \in Seq(Nat) /\ dataRecv \in Seq(Nat) BY DEF MeshInv, MeshTypes
<1>3. CASE ctrlRecv # <<>>
  <2>1. PICK n : n = Head(ctrlRecv) OBVIOUS
  <2>2. NextRecv = n BY <1>3, <2>1 DEF NextRecv
  <2>3. n # 0 /\ ctrlRecv' = Tail(ctrlRecv) /\ taken' = taken \cup {n} /\ UNCHANGED dataRecv BY <1>3, <2>2 DEF RecvFrame
  <2> QED BY <1>1, <1>3, <2>1, <2>3, TakeCtrlStep
<1>4. CASE ctrlRecv = <<>>
  <2>1. PICK n : n = Head(dataRecv) OBVIOUS
  <2>2. NextRecv = n BY <1>4, <2>1 DEF NextRecv
  <2>3. n # 0 /\ dataRecv # <<>> /\ dataRecv' = Tail(dataRecv) /\ taken' = taken \cup {n} /\ UNCHANGED ctrlRecv BY <1>4, <2>2 DEF RecvFrame
  <2> QED BY <1>1, <2>1, <2>3, TakeDataStep
<1> QED BY <1>3, <1>4

\* The server's session receives a frame.
LEMMA RecvUpStep == ASSUME MeshInv, RecvUp PROVE MeshInv'
<1>1. UNCHANGED <<dir, nDown, dataOut, ctrlOut, disp, ctrlQ, dataQ, dataBytes, waiters, batch, aqm, getQ, gpc, code, timeouts,
                  loop, listens, todo, ctrlRecv, dataRecv, post, nUp, chGone, tClosed, trouble>>
  BY DEF RecvUp, sendVars, dispVars, getVars, recvVars
<1>2. PICK n : n = Head(meshIn) OBVIOUS
<1>3. meshIn # <<>> /\ meshIn' = Tail(meshIn) /\ taken' = taken \cup {n} BY <1>2 DEF RecvUp
<1>4. n # 0
  <2>1. meshIn \in Seq(Frames) BY DEF MeshInv, MeshTypes
  <2>2. n \in Frames BY <1>2, <1>3, <2>1, TakeFirst
  <2> QED BY <2>2 DEF Frames
<1> QED BY <1>1, <1>2, <1>3, <1>4, TakeInStep

\* The numbers of k new frames after the first m.
LEMMA Numbered ==
    ASSUME NEW m \in Nat, NEW k \in Nat, NEW w \in Nat, w = m + k, NEW s, s = [i \in 1 .. k |-> m + i]
    PROVE  s \in Seq(Frames) /\ ToSet(s) = (m + 1) .. w /\ Once(s, Frames)
<1>1. \A i \in 1 .. k : s[i] = m + i /\ m + i \in Frames BY DEF Frames
<1>2. s \in [1 .. k -> Frames] BY <1>1
<1>3. s \in Seq(Frames) /\ Len(s) = k BY <1>2, FunctionIsSeq
<1>4. \A e : e \in ToSet(s) <=> \E i \in 1 .. k : s[i] = e BY <1>3, ToSetType
<1>5. ToSet(s) \subseteq (m + 1) .. w BY <1>1, <1>4
<1>6. ASSUME NEW e \in (m + 1) .. w PROVE e \in ToSet(s)
  <2>1. PICK i \in 1 .. k : e = m + i
    <3>1. e - m \in 1 .. k /\ e = m + (e - m) OBVIOUS
    <3> QED BY <3>1
  <2> QED BY <1>1, <1>4, <2>1
<1>7. Once(s, Frames) BY <1>1, <1>3 DEF Once
<1> QED BY <1>3, <1>5, <1>6, <1>7

\* Send and SendBatch: new frames are in the POST that was free.
LEMMA SendUpStep == ASSUME MeshInv, NEW p \in Posts, SendUp(p) PROVE MeshInv'
<1>same. UNCHANGED <<dir, nDown, dataOut, ctrlOut, getQ, disp, ctrlQ, dataQ, dataBytes, waiters, batch, gpc, code, aqm,
                     chGone, loop, listens, todo, ctrlRecv, dataRecv, taken, tClosed, meshIn, trouble, timeouts>>
  BY DEF SendUp, sendVars, dispVars, getVars, recvVars
<1>1. PICK k \in 1 .. (MaxUp - nUp) : nUp' = nUp + k /\ post' = [post EXCEPT ![p] = [st |-> "net", left |-> [i \in 1 .. k |-> nUp + i]]]
  BY DEF SendUp
<1>2. /\ post \in [Posts -> [st : {"free", "net"}, left : Seq(Frames)]] /\ nUp \in Nat /\ nDown \in Nat /\ k \in Nat
      /\ nDown = 0 /\ dir = "up" /\ post[p].left = <<>>
  <2>1. nUp \in Nat /\ nDown \in Nat /\ post \in [Posts -> [st : {"free", "net"}, left : Seq(Frames)]] BY DEF MeshInv, MeshTypes
  <2>2. dir = "up" /\ post[p].st = "free" BY DEF SendUp
  <2>3. nDown = 0 BY <2>2 DEF MeshInv, Located
  <2>4. post[p].left = <<>> BY <2>2 DEF MeshInv, Routing
  <2>5. MaxUp \in Nat BY MeshAssumption
  <2> QED BY <2>1, <2>2, <2>3, <2>4, <2>5
<1>3. PICK s : s = [i \in 1 .. k |-> nUp + i] OBVIOUS
<1>4. PICK w : w = nUp + k OBVIOUS
<1>5. s \in Seq(Frames) /\ ToSet(s) = (nUp + 1) .. w /\ Once(s, Frames) /\ w \in Nat
  <2>1. w \in Nat BY <1>2, <1>4
  <2>2. PICK m : m = nUp OBVIOUS
  <2>3. m \in Nat /\ k \in Nat /\ w = m + k /\ s = [i \in 1 .. k |-> m + i] BY <1>2, <1>3, <1>4, <2>2
  <2>4. s \in Seq(Frames) /\ ToSet(s) = (m + 1) .. w /\ Once(s, Frames) BY ONLY <2>1, <2>3, Numbered
  <2> QED BY <2>1, <2>2, <2>4
<1>6. post'[p].left = s /\ post'[p].st = "net" /\ \A q \in Posts \ {p} : post'[q] = post[q]
  <2>1. post' = [post EXCEPT ![p] = [st |-> "net", left |-> s]] BY <1>1, <1>3
  <2> QED BY <1>2, <2>1
<1>types. MeshTypes'
  <2>1. post' = [post EXCEPT ![p] = [st |-> "net", left |-> s]] BY <1>1, <1>3
  <2>2. post' \in [Posts -> [st : {"free", "net"}, left : Seq(Frames)]] BY <1>2, <1>5, <2>1
  <2>3. nUp' \in Nat BY <1>1, <1>2
  <2> QED BY <1>same, <2>2, <2>3 DEF MeshInv, MeshTypes
<1>lengths. Lengths' BY <1>same DEF MeshInv, Lengths
<1>once. OnceEach'
  <2>1. \A q \in Posts : Once(post'[q].left, Frames) BY <1>5, <1>6 DEF MeshInv, OnceEach
  <2> QED BY <1>same, <2>1 DEF MeshInv, OnceEach
<1>located. Located'
  <2>1. PICK d, X, m : d = <<"post", p>> /\ X = {d} /\ m = nUp OBVIOUS
  <2>2. \A x \in MeshPlaces \ {d} : Held'[x] = Held[x]
    <3>1. \A q \in Posts : <<"post", q>> \in X \/ post'[q].left = post[q].left BY <1>6, <2>1
    <3>2. \A x \in MeshPlaces \ X : Held'[x] = Held[x] BY <1>same, <3>1, HeldElsewhere
    <3> QED BY <2>1, <3>2
  <2>3. Held[d] = {} BY <1>2, <2>1, HeldAt, NothingHeld
  <2>4. Held'[d] = (m + 1) .. w BY <1>5, <1>6, <2>1, HeldNext
  <2>5. /\ m \in Nat /\ w \in Nat /\ m = nDown + nUp /\ w = nDown' + nUp' /\ m <= w /\ d \in MeshPlaces
        /\ (nDown' # 0 => dir' = "down") /\ (nUp' # 0 => dir' = "up")
    BY <1>same, <1>1, <1>2, <1>4, <1>5, <2>1, PlaceOf
  <2>6. Held'[d] = Held[d] \cup ((m + 1) .. w) BY <2>3, <2>4
  <2> QED BY <1>same, <2>2, <2>5, <2>6, LocatedAdd DEF MeshInv
<1>registered. Registered' BY <1>same DEF MeshInv, Registered
<1>answers. Answers' BY <1>same DEF MeshInv, Answers
<1>routing. Routing'
  <2>1. \A q \in Posts : post'[q].st = "free" => post'[q].left = <<>> BY <1>6 DEF MeshInv, Routing
  <2> QED BY <1>same, <2>1 DEF MeshInv, Routing
<1>unbroken. Unbroken' BY <1>same DEF MeshInv, Unbroken
<1>bytes. BytesExact' BY <1>same DEF MeshInv, BytesExact, Bytes
<1>work. WorkConserving' BY <1>same DEF MeshInv, WorkConserving, Range
<1> QED BY <1>types, <1>lengths, <1>once, <1>located, <1>registered, <1>answers, <1>routing, <1>unbroken, <1>bytes, <1>work DEF MeshInv

\* A POST that ends, or finds the channel gone, carries nothing more; it lost frames only after a fault.
LEMMA PostEmptiedStep ==
    ASSUME MeshInv, NEW p \in Posts, post' \in [Posts -> [st : {"free", "net"}, left : Seq(Frames)]], post'[p].left = <<>>,
           \A q \in Posts \ {p} : post'[q] = post[q], trouble' \in Nat, trouble' >= trouble,
           post[p].left = <<>> \/ trouble' # 0,
           UNCHANGED <<dir, sendVars, dispVars, getVars, recvVars, nUp, meshIn, chGone, taken, tClosed>>
    PROVE  MeshInv'
<1>same. UNCHANGED <<dir, nDown, dataOut, ctrlOut, getQ, disp, ctrlQ, dataQ, dataBytes, waiters, batch, gpc, code, aqm,
                     chGone, loop, listens, todo, ctrlRecv, dataRecv, taken, tClosed, nUp, meshIn, timeouts>>
  BY DEF sendVars, dispVars, getVars, recvVars
<1>1. trouble \in Nat BY DEF MeshInv, MeshTypes
<1>2. trouble' = 0 => trouble = 0 BY <1>1
<1>types. MeshTypes' BY <1>same DEF MeshInv, MeshTypes
<1>lengths. Lengths' BY <1>same DEF MeshInv, Lengths
<1>once. OnceEach'
  <2>1. \A q \in Posts : Once(post'[q].left, Frames) BY OnceEmpty DEF MeshInv, OnceEach
  <2> QED BY <1>same, <2>1 DEF MeshInv, OnceEach
<1>located. Located'
  <2>1. PICK d, X : d = <<"post", p>> /\ X = {d} OBVIOUS
  <2>2. \A x \in MeshPlaces \ {d} : Held'[x] = Held[x]
    <3>1. \A q \in Posts : <<"post", q>> \in X \/ post'[q].left = post[q].left BY <2>1
    <3>2. \A x \in MeshPlaces \ X : Held'[x] = Held[x] BY <1>same, <3>1, HeldElsewhere
    <3> QED BY <2>1, <3>2
  <2>3. Held'[d] = {} /\ Held[d] = ToSet(post[p].left) BY <2>1, HeldAt, HeldNext, NothingHeld
  <2>4. CASE trouble' # 0
    <3>1. \A x \in MeshPlaces : Held'[x] \subseteq Held[x] \cup {0} BY <2>2, <2>3
    <3>2. nDown \in Nat /\ nUp \in Nat /\ Located BY DEF MeshInv, MeshTypes
    <3> QED BY <1>same, <2>4, <3>1, <3>2, LocatedDrop
  <2>5. CASE post[p].left = <<>>
    <3>1. \A x \in MeshPlaces : Held'[x] = Held[x] BY <2>2, <2>3, <2>5, NothingHeld
    <3> QED BY <1>same, <1>2, <3>1, LocatedSame DEF MeshInv
  <2> QED BY <2>4, <2>5
<1>registered. Registered' BY <1>same DEF MeshInv, Registered
<1>answers. Answers'
  <2> SUFFICES ASSUME NEW h \in Gets
               PROVE  /\ gpc'[h] \in {"none", "net"} => batch'[h] = <<>>
                      /\ gpc'[h] = "answered" => /\ code'[h] # 0 /\ (code'[h] = 410 => trouble' > 0)
                                                 /\ code'[h] = 408 => batch'[h] = <<>>
                                                 /\ code'[h] = 200 => batch'[h] # <<>>
                      /\ gpc'[h] # "none" /\ trouble' = 0 => loop'[h[1]] = "await" /\ listens'[h[1]] = h[2]
    BY DEF Answers
  <2> QED BY <1>same, <1>1, <1>2 DEF MeshInv, Answers
<1>routing. Routing'
  <2>1. \A q \in Posts : post'[q].st = "free" => post'[q].left = <<>> BY DEF MeshInv, Routing
  <2> QED BY <1>same, <2>1 DEF MeshInv, Routing
<1>unbroken. Unbroken' BY <1>same, <1>2 DEF MeshInv, Unbroken
<1>bytes. BytesExact' BY <1>same DEF MeshInv, BytesExact, Bytes
<1>work. WorkConserving' BY <1>same DEF MeshInv, WorkConserving, Range
<1> QED BY <1>types, <1>lengths, <1>once, <1>located, <1>registered, <1>answers, <1>routing, <1>unbroken, <1>bytes, <1>work DEF MeshInv

\* meshHandleWrite: the next frame of a POST goes into meshIn.
LEMMA PostInStep ==
    ASSUME MeshInv, NEW p \in Posts, post[p].left # <<>>, Len(meshIn) < OutLen, post[p].st = "net",
           meshIn' = Append(meshIn, Head(post[p].left)), post' = [post EXCEPT ![p].left = Tail(@)],
           UNCHANGED <<dir, sendVars, dispVars, getVars, recvVars, nUp, chGone, taken, tClosed, trouble>>
    PROVE  MeshInv'
<1>same. UNCHANGED <<dir, nDown, dataOut, ctrlOut, getQ, disp, ctrlQ, dataQ, dataBytes, waiters, batch, gpc, code, aqm,
                     chGone, loop, listens, todo, ctrlRecv, dataRecv, taken, tClosed, nUp, trouble, timeouts>>
  BY DEF sendVars, dispVars, getVars, recvVars
<1>1. post \in [Posts -> [st : {"free", "net"}, left : Seq(Frames)]] /\ meshIn \in Seq(Frames) BY DEF MeshInv, MeshTypes
<1>2. PICK s, n, t : s = post[p].left /\ n = Head(s) /\ t = Tail(s) OBVIOUS
<1>3. s \in Seq(Frames) /\ s # <<>> /\ Once(s, Frames) BY <1>1, <1>2 DEF MeshInv, OnceEach
<1>4. /\ t \in Seq(Frames) /\ n \in Frames /\ n \in ToSet(s) /\ ToSet(s) = ToSet(t) \cup {n}
  BY ONLY <1>2, <1>3, TakeFirst
<1>5. Once(t, Frames) /\ n \notin ToSet(t) BY ONLY <1>2, <1>3, <1>4, TakeFirst
<1>6. post'[p].left = t /\ post'[p].st = "net" /\ \A q \in Posts \ {p} : post'[q] = post[q] BY <1>1, <1>2
<1>7. n \notin ToSet(meshIn)
  <2>1. PICK a, b : a = <<"post", p>> /\ b = <<"in", 0>> OBVIOUS
  <2>2. a \in MeshPlaces /\ b \in MeshPlaces /\ a # b BY <2>1, PlaceOf
  <2>3. n \in Held[a] BY <1>2, <1>4, <2>1, HeldAt
  <2>4. Held[b] = ToSet(meshIn) BY <2>1, HeldAt
  <2> QED BY <1>4, <2>2, <2>3, <2>4 DEF MeshInv, Located, Alone
<1>8. /\ meshIn' = Append(meshIn, n) /\ meshIn' \in Seq(Frames) /\ Len(meshIn') = Len(meshIn) + 1
      /\ ToSet(meshIn') = ToSet(meshIn) \cup {n}
  <2>1. meshIn' = Append(meshIn, n) BY <1>2
  <2>2. PICK u, v : u = meshIn /\ v = meshIn' OBVIOUS
  <2>3. u \in Seq(Frames) /\ v = Append(u, n) BY <1>1, <2>1, <2>2
  <2>4. v \in Seq(Frames) /\ Len(v) = Len(u) + 1 BY <1>4, <2>3, AppendProperties
  <2>5. ToSet(v) = ToSet(u) \cup {n} BY <1>4, <2>3, AppendLemma
  <2> QED BY ONLY <2>1, <2>2, <2>4, <2>5
<1>9. Once(meshIn', Frames)
  <2>1. PICK u, v : u = meshIn /\ v = meshIn' OBVIOUS
  <2>2. u \in Seq(Frames) /\ Once(u, Frames) /\ v = Append(u, n) /\ n \notin ToSet(u) BY <1>1, <1>7, <1>8, <2>1 DEF MeshInv, OnceEach
  <2>3. Once(v, Frames) BY ONLY <1>4, <2>2, PutLast
  <2> QED BY ONLY <2>1, <2>3
<1>types. MeshTypes'
  <2>1. [post[p] EXCEPT !.left = t] \in [st : {"free", "net"}, left : Seq(Frames)] BY <1>1, <1>4
  <2>2. post' \in [Posts -> [st : {"free", "net"}, left : Seq(Frames)]] BY <1>1, <1>2, <2>1
  <2> QED BY <1>same, <1>8, <2>2 DEF MeshInv, MeshTypes
<1>lengths. Lengths'
  <2>1. Len(meshIn) \in Nat /\ OutLen \in Nat BY <1>1, LenProperties, MeshAssumption
  <2> QED BY <1>same, <1>8, <2>1 DEF MeshInv, Lengths
<1>once. OnceEach'
  <2>1. \A q \in Posts : Once(post'[q].left, Frames) BY <1>5, <1>6 DEF MeshInv, OnceEach
  <2> QED BY <1>same, <1>9, <2>1 DEF MeshInv, OnceEach
<1>located. Located'
  <2>1. PICK f, d, X : f = <<"post", p>> /\ d = <<"in", 0>> /\ X = {f, d} OBVIOUS
  <2>2. f \in MeshPlaces /\ d \in MeshPlaces /\ f # d BY <2>1, PlaceOf
  <2>3. \A x \in MeshPlaces \ {f, d} : Held'[x] = Held[x]
    <3>1. \A q \in Posts : <<"post", q>> \in X \/ post'[q].left = post[q].left BY <1>6, <2>1
    <3>2. \A x \in MeshPlaces \ X : Held'[x] = Held[x] BY <1>same, <2>1, <3>1, HeldElsewhere
    <3> QED BY <2>1, <3>2
  <2>4. Held[f] = ToSet(s) /\ Held[d] = ToSet(meshIn) BY <1>2, <2>1, HeldAt
  <2>5. Held'[f] = ToSet(t) /\ Held'[d] = ToSet(meshIn') BY <1>6, <2>1, HeldNext
  <2>6. PICK P : P = {n} OBVIOUS
  <2>7. \A m \in Frames : m \in Held'[f] <=> m \in Held[f] /\ m \notin P BY <1>4, <1>5, <2>4, <2>5, <2>6
  <2>8. \A m \in Frames : m \in Held'[d] <=> m \in Held[d] \/ m \in P BY <1>8, <2>4, <2>5, <2>6
  <2>9. P \subseteq Held[f] BY <1>4, <2>4, <2>6
  <2> QED BY <1>same, <1>types, <2>2, <2>3, <2>7, <2>8, <2>9, LocatedMove DEF MeshInv
<1>registered. Registered' BY <1>same DEF MeshInv, Registered
<1>answers. Answers' BY <1>same DEF MeshInv, Answers
<1>routing. Routing'
  <2>1. \A q \in Posts : post'[q].st = "free" => post'[q].left = <<>> BY <1>6 DEF MeshInv, Routing
  <2> QED BY <1>same, <2>1 DEF MeshInv, Routing
<1>unbroken. Unbroken' BY <1>same DEF MeshInv, Unbroken
<1>bytes. BytesExact' BY <1>same DEF MeshInv, BytesExact, Bytes
<1>work. WorkConserving' BY <1>same DEF MeshInv, WorkConserving, Range
<1> QED BY <1>types, <1>lengths, <1>once, <1>located, <1>registered, <1>answers, <1>routing, <1>unbroken, <1>bytes, <1>work DEF MeshInv

\* meshHandleWrite takes the next frame of a POST, or finds the channel gone.
LEMMA PostFrameStep == ASSUME MeshInv, NEW p \in Posts, PostFrame(p) PROVE MeshInv'
<1>1. /\ post[p].st = "net" /\ post[p].left # <<>>
      /\ UNCHANGED <<dir, sendVars, dispVars, getVars, recvVars, nUp, chGone, taken, tClosed, trouble>>
  BY DEF PostFrame
<1>2. CASE /\ Len(meshIn) < OutLen /\ meshIn' = Append(meshIn, Head(post[p].left))
           /\ post' = [post EXCEPT ![p].left = Tail(@)]
  BY <1>1, <1>2, PostInStep
<1>3. CASE chGone /\ post' = [post EXCEPT ![p].left = <<>>] /\ UNCHANGED meshIn
  <2>1. post \in [Posts -> [st : {"free", "net"}, left : Seq(Frames)]] /\ trouble \in Nat BY DEF MeshInv, MeshTypes
  <2>2. trouble # 0 BY <1>3 DEF MeshInv, Unbroken
  <2>3. [post[p] EXCEPT !.left = <<>>] \in [st : {"free", "net"}, left : Seq(Frames)]
    <3>1. PICK e : e = <<>> OBVIOUS
    <3>2. e \in Seq(Frames) BY <3>1
    <3>3. [post[p] EXCEPT !.left = e] \in [st : {"free", "net"}, left : Seq(Frames)] BY <2>1, <3>2
    <3> QED BY <3>1, <3>3
  <2>4. post' \in [Posts -> [st : {"free", "net"}, left : Seq(Frames)]] /\ post'[p].left = <<>> /\ \A q \in Posts \ {p} : post'[q] = post[q] BY <1>3, <2>1, <2>3
  <2>5. trouble' \in Nat /\ trouble' >= trouble /\ trouble' # 0 BY <1>1, <2>1, <2>2
  <2> QED BY <1>1, <1>3, <2>4, <2>5, PostEmptiedStep
<1> QED BY <1>2, <1>3 DEF PostFrame

\* A POST is answered, or its connection breaks.
LEMMA PostEndsStep == ASSUME MeshInv, NEW p \in Posts, PostEnds(p) PROVE MeshInv'
<1>1. post \in [Posts -> [st : {"free", "net"}, left : Seq(Frames)]] /\ trouble \in Nat BY DEF MeshInv, MeshTypes
<1>2. /\ post' = [post EXCEPT ![p] = [st |-> "free", left |-> <<>>]] /\ <<>> \in Seq(Frames)
      /\ UNCHANGED <<dir, sendVars, dispVars, getVars, recvVars, nUp, meshIn, chGone, taken, tClosed>>
  BY DEF PostEnds
<1>3. post' \in [Posts -> [st : {"free", "net"}, left : Seq(Frames)]] /\ post'[p].left = <<>> /\ \A q \in Posts \ {p} : post'[q] = post[q] BY <1>1, <1>2
<1>4. trouble' \in Nat /\ trouble' >= trouble /\ (post[p].left = <<>> \/ trouble' # 0) BY <1>1 DEF PostEnds, Trouble
<1> QED BY <1>2, <1>3, <1>4, PostEmptiedStep

\* Send puts a new frame into ctrlOut.
LEMMA SendCtrlStep ==
    ASSUME MeshInv, NEW n, n = nDown + 1, nDown' = n, dir = "down", Len(ctrlOut) < OutLen, ctrlOut' = Append(ctrlOut, n),
           UNCHANGED <<dir, dataOut, getQ, disp, ctrlQ, dataQ, dataBytes, waiters, batch, gpc, code, aqm, chGone,
                       loop, listens, todo, ctrlRecv, dataRecv, taken, tClosed, post, nUp, meshIn, trouble, timeouts>>
    PROVE  MeshInv'
<1>same. UNCHANGED <<dir, dataOut, getQ, disp, ctrlQ, dataQ, dataBytes, waiters, batch, gpc, code, aqm, chGone, loop,
                     listens, todo, ctrlRecv, dataRecv, taken, tClosed, post, nUp, meshIn, trouble, timeouts>>
  OBVIOUS
<1>1. /\ ctrlOut \in Seq(Frames) /\ Once(ctrlOut, Frames) /\ nDown \in Nat /\ n \in Nat /\ n \in Frames /\ nUp = 0
  <2>1. ctrlOut \in Seq(Frames) /\ Once(ctrlOut, Frames) /\ nDown \in Nat BY DEF MeshInv, MeshTypes, OnceEach
  <2>2. n \in Nat /\ n # 0 BY <2>1
  <2>3. n \in Frames BY <2>2 DEF Frames
  <2>4. nUp = 0 BY DEF MeshInv, Located
  <2> QED BY <2>1, <2>2, <2>3, <2>4
<1>2. PICK u, v : u = ctrlOut /\ v = ctrlOut' OBVIOUS
<1>3. u \in Seq(Frames) /\ v = Append(u, n) BY <1>1, <1>2
<1>4. v \in Seq(Frames) /\ Len(v) = Len(u) + 1 BY <1>1, <1>3, AppendProperties
<1>5. ToSet(v) = ToSet(u) \cup {n} BY <1>1, <1>3, AppendLemma
<1>6. n \notin ToSet(u)
  <2>1. ToSet(u) \subseteq 0 .. (nDown + nUp) BY <1>2, HeldAt, PlaceOf DEF MeshInv, Located
  <2> QED BY <1>1, <2>1
<1>7. Once(v, Frames)
  <2>1. Once(u, Frames) BY <1>1, <1>2
  <2> QED BY ONLY <1>1, <1>3, <1>6, <2>1, PutLast
<1>types. MeshTypes'
  <2>1. MeshTypes BY DEF MeshInv
  <2>2. ctrlOut' \in Seq(Frames) /\ nDown' \in Nat BY <1>1, <1>2, <1>4
  <2> QED BY <1>same, <2>1, <2>2 DEF MeshTypes
<1>lengths. Lengths'
  <2>1. Len(u) \in Nat /\ OutLen \in Nat BY <1>3, LenProperties, MeshAssumption
  <2>2. Len(ctrlOut') <= OutLen BY <1>2, <1>4, <2>1
  <2> QED BY <1>same, <2>2 DEF MeshInv, Lengths
<1>once. OnceEach' BY <1>same, <1>2, <1>7 DEF MeshInv, OnceEach
<1>located. Located'
  <2>1. PICK d, X, m : d = <<"co", 0>> /\ X = {d} /\ m = nDown OBVIOUS
  <2>2. \A x \in MeshPlaces \ {d} : Held'[x] = Held[x]
    <3>1. \A x \in MeshPlaces \ X : Held'[x] = Held[x] BY <1>same, <2>1, HeldElsewhere
    <3> QED BY <2>1, <3>1
  <2>3. Held[d] = ToSet(u) /\ Held'[d] = ToSet(v) BY <1>2, <2>1, HeldAt, HeldNext
  <2>4. (m + 1) .. n = {n} BY <1>1, <2>1
  <2>5. Held'[d] = Held[d] \cup ((m + 1) .. n) BY <1>5, <2>3, <2>4
  <2>6. /\ m \in Nat /\ n \in Nat /\ m = nDown + nUp /\ n = nDown' + nUp' /\ m <= n /\ d \in MeshPlaces
        /\ (nDown' # 0 => dir' = "down") /\ (nUp' # 0 => dir' = "up")
    BY <1>same, <1>1, <2>1, PlaceOf
  <2> QED BY <1>same, <2>2, <2>5, <2>6, LocatedAdd DEF MeshInv
<1>registered. Registered' BY <1>same DEF MeshInv, Registered
<1>answers. Answers' BY <1>same DEF MeshInv, Answers
<1>routing. Routing' BY <1>same DEF MeshInv, Routing
<1>unbroken. Unbroken' BY <1>same DEF MeshInv, Unbroken
<1>bytes. BytesExact' BY <1>same DEF MeshInv, BytesExact, Bytes
<1>work. WorkConserving' BY <1>same DEF MeshInv, WorkConserving, Range
<1> QED BY <1>types, <1>lengths, <1>once, <1>located, <1>registered, <1>answers, <1>routing, <1>unbroken, <1>bytes, <1>work DEF MeshInv

\* Send puts a new frame into dataOut.
LEMMA SendDataStep ==
    ASSUME MeshInv, NEW n, n = nDown + 1, nDown' = n, dir = "down", Len(dataOut) < OutLen, dataOut' = Append(dataOut, n),
           UNCHANGED <<dir, ctrlOut, getQ, disp, ctrlQ, dataQ, dataBytes, waiters, batch, gpc, code, aqm, chGone,
                       loop, listens, todo, ctrlRecv, dataRecv, taken, tClosed, post, nUp, meshIn, trouble, timeouts>>
    PROVE  MeshInv'
<1>same. UNCHANGED <<dir, ctrlOut, getQ, disp, ctrlQ, dataQ, dataBytes, waiters, batch, gpc, code, aqm, chGone, loop,
                     listens, todo, ctrlRecv, dataRecv, taken, tClosed, post, nUp, meshIn, trouble, timeouts>>
  OBVIOUS
<1>1. /\ dataOut \in Seq(Frames) /\ Once(dataOut, Frames) /\ nDown \in Nat /\ n \in Nat /\ n \in Frames /\ nUp = 0
  <2>1. dataOut \in Seq(Frames) /\ Once(dataOut, Frames) /\ nDown \in Nat BY DEF MeshInv, MeshTypes, OnceEach
  <2>2. n \in Nat /\ n # 0 BY <2>1
  <2>3. n \in Frames BY <2>2 DEF Frames
  <2>4. nUp = 0 BY DEF MeshInv, Located
  <2> QED BY <2>1, <2>2, <2>3, <2>4
<1>2. PICK u, v : u = dataOut /\ v = dataOut' OBVIOUS
<1>3. u \in Seq(Frames) /\ v = Append(u, n) BY <1>1, <1>2
<1>4. v \in Seq(Frames) /\ Len(v) = Len(u) + 1 BY <1>1, <1>3, AppendProperties
<1>5. ToSet(v) = ToSet(u) \cup {n} BY <1>1, <1>3, AppendLemma
<1>6. n \notin ToSet(u)
  <2>1. ToSet(u) \subseteq 0 .. (nDown + nUp) BY <1>2, HeldAt, PlaceOf DEF MeshInv, Located
  <2> QED BY <1>1, <2>1
<1>7. Once(v, Frames)
  <2>1. Once(u, Frames) BY <1>1, <1>2
  <2> QED BY ONLY <1>1, <1>3, <1>6, <2>1, PutLast
<1>types. MeshTypes'
  <2>1. MeshTypes BY DEF MeshInv
  <2>2. dataOut' \in Seq(Frames) /\ nDown' \in Nat BY <1>1, <1>2, <1>4
  <2> QED BY <1>same, <2>1, <2>2 DEF MeshTypes
<1>lengths. Lengths'
  <2>1. Len(u) \in Nat /\ OutLen \in Nat BY <1>3, LenProperties, MeshAssumption
  <2>2. Len(dataOut') <= OutLen BY <1>2, <1>4, <2>1
  <2> QED BY <1>same, <2>2 DEF MeshInv, Lengths
<1>once. OnceEach' BY <1>same, <1>2, <1>7 DEF MeshInv, OnceEach
<1>located. Located'
  <2>1. PICK d, X, m : d = <<"do", 0>> /\ X = {d} /\ m = nDown OBVIOUS
  <2>2. \A x \in MeshPlaces \ {d} : Held'[x] = Held[x]
    <3>1. \A x \in MeshPlaces \ X : Held'[x] = Held[x] BY <1>same, <2>1, HeldElsewhere
    <3> QED BY <2>1, <3>1
  <2>3. Held[d] = ToSet(u) /\ Held'[d] = ToSet(v) BY <1>2, <2>1, HeldAt, HeldNext
  <2>4. (m + 1) .. n = {n} BY <1>1, <2>1
  <2>5. Held'[d] = Held[d] \cup ((m + 1) .. n) BY <1>5, <2>3, <2>4
  <2>6. /\ m \in Nat /\ n \in Nat /\ m = nDown + nUp /\ n = nDown' + nUp' /\ m <= n /\ d \in MeshPlaces
        /\ (nDown' # 0 => dir' = "down") /\ (nUp' # 0 => dir' = "up")
    BY <1>same, <1>1, <2>1, PlaceOf
  <2> QED BY <1>same, <2>2, <2>5, <2>6, LocatedAdd DEF MeshInv
<1>registered. Registered' BY <1>same DEF MeshInv, Registered
<1>answers. Answers' BY <1>same DEF MeshInv, Answers
<1>routing. Routing' BY <1>same DEF MeshInv, Routing
<1>unbroken. Unbroken' BY <1>same DEF MeshInv, Unbroken
<1>bytes. BytesExact' BY <1>same DEF MeshInv, BytesExact, Bytes
<1>work. WorkConserving' BY <1>same DEF MeshInv, WorkConserving, Range
<1> QED BY <1>types, <1>lengths, <1>once, <1>located, <1>registered, <1>answers, <1>routing, <1>unbroken, <1>bytes, <1>work DEF MeshInv

\* The server's session sends a frame.
LEMMA MeshSendStep == ASSUME MeshInv, MeshSend PROVE MeshInv'
<1>1. PICK n : n = nDown + 1 OBVIOUS
<1>2. nDown' = n /\ dir = "down" BY <1>1 DEF MeshSend
<1>3. UNCHANGED <<dir, disp, ctrlQ, dataQ, dataBytes, waiters, batch, aqm, getQ, gpc, code, timeouts, loop, listens, todo,
                  ctrlRecv, dataRecv, post, nUp, meshIn, chGone, taken, tClosed, trouble>>
  BY DEF MeshSend, dispVars, getVars, recvVars, upVars
<1>4. CASE Len(ctrlOut) < OutLen /\ ctrlOut' = Append(ctrlOut, n) /\ UNCHANGED dataOut BY <1>1, <1>2, <1>3, <1>4, SendCtrlStep
<1>5. CASE Len(dataOut) < OutLen /\ dataOut' = Append(dataOut, n) /\ UNCHANGED ctrlOut BY <1>1, <1>2, <1>3, <1>5, SendDataStep
<1> QED BY <1>1, <1>4, <1>5 DEF MeshSend

\* closeChannel: what the server queues is lost, after a fault.
LEMMA ChannelClosesStep == ASSUME MeshInv, ChannelCloses PROVE MeshInv'
<1>same. UNCHANGED <<dir, nDown, batch, gpc, code, aqm, loop, listens, todo, ctrlRecv, dataRecv, taken, tClosed, post,
                     nUp, timeouts>>
  BY DEF ChannelCloses, recvVars
<1>1. /\ chGone' = TRUE /\ dataOut' = <<>> /\ ctrlOut' = <<>> /\ ctrlQ' = <<>> /\ dataQ' = <<>> /\ dataBytes' = 0
      /\ disp' = "select" /\ waiters' = <<>> /\ getQ' = <<>> /\ meshIn' = <<>>
  BY DEF ChannelCloses
<1>2. trouble \in Nat BY DEF MeshInv, MeshTypes
<1>3. trouble' \in Nat /\ trouble' # 0 /\ trouble' > 0
  <2>1. CASE tClosed BY <1>2, <2>1 DEF ChannelCloses, MeshInv, Unbroken
  <2>2. CASE ~tClosed BY <1>2, <2>2 DEF ChannelCloses, Trouble
  <2> QED BY <2>1, <2>2
<1>4. <<>> \in Seq(Frames) /\ <<>> \in Seq(Queued) /\ Len(<<>>) = 0 OBVIOUS
<1>types. MeshTypes'
  <2>1. MeshTypes BY DEF MeshInv
  <2>2. chGone' \in BOOLEAN /\ dataBytes' \in Int /\ disp' \in {"select", "flush"} BY <1>1
  <2> QED BY <1>same, <1>1, <1>3, <1>4, <2>1, <2>2 DEF MeshTypes
<1>lengths. Lengths' BY <1>same, <1>1, <1>4, MeshAssumption DEF MeshInv, Lengths
<1>once. OnceEach' BY <1>same, <1>1, OnceEmpty DEF MeshInv, OnceEach
<1>located. Located'
  <2>1. PICK X : X = {<<"do", 0>>, <<"co", 0>>, <<"cq", 0>>, <<"dq", 0>>, <<"in", 0>>} OBVIOUS
  <2>2. \A x \in MeshPlaces \ X : Held'[x] = Held[x] BY <1>same, <2>1, HeldElsewhere
  <2>3. \A x \in X : Held'[x] = {} BY <1>1, <2>1, HeldNext, NothingHeld
  <2>4. \A x \in MeshPlaces : Held'[x] \subseteq Held[x] \cup {0} BY <2>2, <2>3
  <2> QED BY <1>same, <1>3, <2>4, LocatedDrop DEF MeshInv, MeshTypes
<1>registered. Registered' BY <1>1, OnceEmpty, NothingHeld DEF Registered
<1>answers. Answers'
  <2> SUFFICES ASSUME NEW h \in Gets
               PROVE  /\ gpc'[h] \in {"none", "net"} => batch'[h] = <<>>
                      /\ gpc'[h] = "answered" => /\ code'[h] # 0 /\ (code'[h] = 410 => trouble' > 0)
                                                 /\ code'[h] = 408 => batch'[h] = <<>>
                                                 /\ code'[h] = 200 => batch'[h] # <<>>
                      /\ gpc'[h] # "none" /\ trouble' = 0 => loop'[h[1]] = "await" /\ listens'[h[1]] = h[2]
    BY DEF Answers
  <2> QED BY <1>same, <1>3 DEF MeshInv, Answers
<1>routing. Routing' BY <1>same DEF MeshInv, Routing
<1>unbroken. Unbroken' BY <1>3 DEF Unbroken
<1>bytes. BytesExact'
  <2>1. Bytes(dataQ') = 0 BY <1>1, BytesEmpty
  <2>2. MaxQueued \in Nat BY MeshAssumption
  <2>3. BytesExact' <=> dataBytes' = Bytes(dataQ') /\ dataBytes' < MaxQueued + 2 BY DEF BytesExact, Bytes, Size
  <2> QED BY <1>1, <2>1, <2>2, <2>3
<1>work. WorkConserving' BY <1>1 DEF WorkConserving
<1> QED BY <1>types, <1>lengths, <1>once, <1>located, <1>registered, <1>answers, <1>routing, <1>unbroken, <1>bytes, <1>work DEF MeshInv

-----------------------------------------------------------------------------
(* A step that moves frames between several places.                        *)

\* P1, P2 and P3 move to t1, t2 and t3, everything else stays.
Rearranged(h, k, P1, t1, P2, t2, P3, t3) ==
    \A n \in Frames : \A x \in MeshPlaces :
        n \in k[x] <=>
            \/ n \in P1 /\ x = t1
            \/ n \in P2 /\ x = t2
            \/ n \in P3 /\ x = t3
            \/ n \notin P1 /\ n \notin P2 /\ n \notin P3 /\ n \in h[x]

\* Frames moved to different places are still in one place each, and none is lost.
LEMMA MovesApart ==
    ASSUME NEW h, NEW k, NEW t1 \in MeshPlaces, NEW t2 \in MeshPlaces, NEW t3 \in MeshPlaces, NEW P1, NEW P2, NEW P3,
           Alone(h), Rearranged(h, k, P1, t1, P2, t2, P3, t3),
           \A n \in Frames : ~(n \in P1 /\ n \in P2) /\ ~(n \in P1 /\ n \in P3) /\ ~(n \in P2 /\ n \in P3)
    PROVE  Alone(k) /\ \A m \in Nat : AllSent(h, m) => AllSent(k, m)
<1>1. Alone(k)
  <2> SUFFICES ASSUME NEW n \in Frames, NEW x \in MeshPlaces, NEW y \in MeshPlaces, n \in k[x], n \in k[y] PROVE x = y
    BY DEF Alone
  <2>1. n \in h[x] /\ n \in h[y] => x = y BY DEF Alone
  <2> QED BY <2>1 DEF Rearranged
<1>2. ASSUME NEW m \in Nat, AllSent(h, m), NEW n \in 1 .. m PROVE \E x \in MeshPlaces : n \in k[x]
  <2>1. n \in Frames BY DEF Frames
  <2>2. PICK x \in MeshPlaces : n \in h[x] BY <1>2 DEF AllSent
  <2>3. CASE n \in P1
    <3>1. n \in k[t1] BY <2>1, <2>3 DEF Rearranged
    <3> QED BY <3>1
  <2>4. CASE n \in P2
    <3>1. n \in k[t2] BY <2>1, <2>4 DEF Rearranged
    <3> QED BY <3>1
  <2>5. CASE n \in P3
    <3>1. n \in k[t3] BY <2>1, <2>5 DEF Rearranged
    <3> QED BY <3>1
  <2>6. CASE n \notin P1 /\ n \notin P2 /\ n \notin P3 BY <2>1, <2>2, <2>6 DEF Rearranged
  <2> QED BY <2>3, <2>4, <2>5, <2>6
<1> QED BY <1>1, <1>2 DEF AllSent

\* Located, for a step that moves frames to several places.
LEMMA LocatedApart ==
    ASSUME MeshTypes, MeshTypes', Located, UNCHANGED <<dir, nDown, nUp>>, trouble' = 0 => trouble = 0,
           NEW t1 \in MeshPlaces, NEW t2 \in MeshPlaces, NEW t3 \in MeshPlaces, NEW P1, NEW P2, NEW P3,
           Rearranged(Held, Held', P1, t1, P2, t2, P3, t3),
           \A n \in Frames : ~(n \in P1 /\ n \in P2) /\ ~(n \in P1 /\ n \in P3) /\ ~(n \in P2 /\ n \in P3),
           \A n \in P1 \cup P2 \cup P3 : \E y \in MeshPlaces : n \in Held[y]
    PROVE  Located'
<1>1. PICK h, k : h = Held /\ k = Held' OBVIOUS
<1>2. Alone(k) /\ \A m \in Nat : AllSent(h, m) => AllSent(k, m)
  <2>1. Alone(h) BY <1>1 DEF Located
  <2>2. Rearranged(h, k, P1, t1, P2, t2, P3, t3) BY <1>1
  <2> QED BY <2>1, <2>2, MovesApart
<1>3. nDown + nUp \in Nat BY DEF MeshTypes
<1>4. ASSUME NEW x \in MeshPlaces, NEW n \in Held'[x] PROVE n \in 0 .. (nDown + nUp)
  <2>1. n \in Nat BY HeldNatsNext
  <2>2. CASE n = 0 BY <1>3, <2>2
  <2>3. CASE n # 0
    <3>1. n \in Frames BY <2>1, <2>3 DEF Frames
    <3>2. \E y \in MeshPlaces : n \in Held[y] BY <3>1 DEF Rearranged
    <3> QED BY <3>2 DEF Located
  <2> QED BY <2>2, <2>3
<1>5. Alone(Held)' BY <1>1, <1>2
<1>6. ASSUME trouble' = 0 PROVE AllSent(Held', nDown' + nUp')
  <2>1. AllSent(h, nDown + nUp) BY <1>1, <1>6 DEF Located
  <2> QED BY <1>1, <1>2, <1>3, <2>1
<1>7. (nDown' # 0 => dir' = "down") /\ (nUp' # 0 => dir' = "up") BY DEF Located
<1>8. \A x \in MeshPlaces : Held'[x] \subseteq 0 .. (nDown' + nUp') BY <1>4
<1> QED BY <1>5, <1>6, <1>7, <1>8 DEF Located

-----------------------------------------------------------------------------
\* drainLocked stops at the byte cap.
LEMMA DrainedIs ==
    ASSUME NEW s \in Seq(Frames), dataBytes \in Int
    PROVE  /\ Drained(s) \in 0 .. Len(s)
           /\ Drained(s) = 0 \/ dataBytes + Bytes(SubSeq(s, 1, Drained(s) - 1)) < MaxQueued
<1>1. Len(s) \in Nat BY LenProperties
<1>2. PICK K : K = {k \in 0 .. Len(s) : k = 0 \/ dataBytes + Bytes(SubSeq(s, 1, k - 1)) < MaxQueued} OBVIOUS
<1>3. K \in SUBSET (0 .. Len(s)) /\ 0 \in K BY <1>1, <1>2
<1>4. Max(K) \in K BY <1>1, <1>3, MaxUpTo
<1>5. Drained(s) = Max(K) BY <1>2 DEF Drained
<1>6. PICK d : d = Max(K) OBVIOUS
<1>7. d \in K BY <1>4, <1>6
<1> QED BY <1>2, <1>5, <1>6, <1>7

\* What the drain adds to dataBytes is one frame over the cap at most.
LEMMA DrainBytes ==
    ASSUME NEW s \in Seq(Frames), NEW q \in Seq(Frames), NEW b, NEW k \in 0 .. Len(s), b = Bytes(q), b < MaxQueued + 2,
           k = 0 \/ b + Bytes(SubSeq(s, 1, k - 1)) < MaxQueued
    PROVE  /\ b + Bytes(SubSeq(s, 1, k)) = Bytes(q \o SubSeq(s, 1, k))
           /\ b + Bytes(SubSeq(s, 1, k)) < MaxQueued + 2
<1>1. MaxQueued \in Nat BY MeshAssumption
<1>2. s \in Seq(Nat) /\ q \in Seq(Nat)
  <2>1. \A t \in Seq(Frames) : t \in Seq(Nat) BY DEF Frames
  <2> QED BY <2>1
<1>3. PICK a : a = SubSeq(s, 1, k) OBVIOUS
<1>4. Len(s) \in Nat BY LenProperties
<1>5. a \in Seq(Nat) /\ Len(a) = k BY <1>2, <1>3, <1>4, SubSeqProperties
<1>6. Bytes(q \o a) = Bytes(q) + Bytes(a) BY <1>2, <1>5, BytesJoined
<1>7. Bytes(a) \in Nat /\ Bytes(q) \in Nat BY <1>2, <1>5, BytesSum
<1>8. b + Bytes(a) < MaxQueued + 2
  <2>1. CASE k = 0
    <3>1. a = <<>> BY <1>5, <2>1, EmptySeq
    <3> QED BY <3>1, <1>7, BytesEmpty
  <2>2. CASE k # 0
    <3>1. k \in 1 .. Len(s) BY <1>4, <2>2
    <3>2. PICK c : c = SubSeq(s, 1, k - 1) OBVIOUS
    <3>3. Bytes(a) <= Bytes(c) + 2 BY <1>2, <1>3, <3>1, <3>2, BytesLast
    <3>4. c \in Seq(Nat) BY <1>2, <1>4, <3>1, <3>2, SubSeqProperties
    <3>5. Bytes(c) \in Nat BY <3>4, BytesSum
    <3> QED BY <1>1, <1>7, <2>2, <3>2, <3>3, <3>5
  <2> QED BY <2>1, <2>2
<1> QED BY <1>3, <1>6, <1>8

\* The dispatcher moves the frames of meshCtrlOut and, up to the cap, of meshOut to its queues.
LEMMA DispatchStep == ASSUME MeshInv, Dispatch PROVE MeshInv'
<1>same. UNCHANGED <<dir, nDown, getQ, waiters, batch, gpc, code, aqm, chGone, loop, listens, todo, ctrlRecv, dataRecv,
                     taken, tClosed, post, nUp, meshIn, trouble, timeouts>>
  BY DEF Dispatch, getVars, recvVars, upVars
<1>1. PICK k : k = Drained(dataOut) OBVIOUS
<1>2. /\ ctrlOut' = <<>> /\ ctrlQ' = ctrlQ \o ctrlOut /\ disp' = "flush" /\ ~chGone
      /\ dataOut' = SubSeq(dataOut, k + 1, Len(dataOut)) /\ dataQ' = dataQ \o SubSeq(dataOut, 1, k)
      /\ dataBytes' = dataBytes + Bytes(SubSeq(dataOut, 1, k))
  BY <1>1 DEF Dispatch, RouteFrames
<1>3. /\ ctrlOut \in Seq(Frames) /\ ctrlQ \in Seq(Frames) /\ dataOut \in Seq(Frames) /\ dataQ \in Seq(Frames) /\ dataBytes \in Int
      /\ Once(ctrlOut, Frames) /\ Once(ctrlQ, Frames) /\ Once(dataOut, Frames) /\ Once(dataQ, Frames)
  BY DEF MeshInv, MeshTypes, OnceEach
<1>4. PICK s, q, c, d, a, r : /\ s = dataOut /\ q = dataQ /\ c = ctrlOut /\ d = ctrlQ /\ a = SubSeq(s, 1, k) /\ r = SubSeq(s, k + 1, Len(s))
  OBVIOUS
<1>5. /\ s \in Seq(Frames) /\ q \in Seq(Frames) /\ c \in Seq(Frames) /\ d \in Seq(Frames)
      /\ Once(s, Frames) /\ Once(q, Frames) /\ Once(c, Frames) /\ Once(d, Frames)
  BY <1>3, <1>4
<1>6. k \in 0 .. Len(s) /\ (k = 0 \/ dataBytes + Bytes(SubSeq(s, 1, k - 1)) < MaxQueued) BY <1>1, <1>3, <1>4, DrainedIs
<1>7. a \in Seq(Frames) /\ r \in Seq(Frames) /\ Len(r) = Len(s) - k /\ ToSet(s) = ToSet(a) \cup ToSet(r)
  <2>1. a \in Seq(Frames) /\ r \in Seq(Frames) /\ Len(r) = Len(s) - k BY <1>4, <1>5, <1>6, Cut
  <2>2. ToSet(s) = ToSet(a) \cup ToSet(r) BY <1>4, <1>5, <1>6, Cut
  <2> QED BY <2>1, <2>2
<1>8. Once(a, Frames) /\ Once(r, Frames) /\ ToSet(a) \cap ToSet(r) \cap Frames = {} BY ONLY <1>4, <1>5, <1>6, Cut
<1>9. PICK e, f : e = d \o c /\ f = q \o a OBVIOUS
<1>10. ctrlQ' = e /\ dataQ' = f /\ dataOut' = r BY <1>2, <1>4, <1>9
<1>11. ToSet(e) = ToSet(d) \cup ToSet(c) /\ e \in Seq(Frames) BY ONLY <1>5, <1>9, Joined
<1>12. ToSet(f) = ToSet(q) \cup ToSet(a) /\ f \in Seq(Frames) BY ONLY <1>5, <1>7, <1>9, Joined
<1>13. PICK pc, pd, po, pq : pc = <<"co", 0>> /\ pd = <<"cq", 0>> /\ po = <<"do", 0>> /\ pq = <<"dq", 0>> OBVIOUS
<1>14. /\ {pc, pd, po, pq} \subseteq MeshPlaces
       /\ pc # pd /\ pc # po /\ pc # pq /\ pd # po /\ pd # pq /\ po # pq
  BY <1>13, PlaceOf
<1>15. Held[pc] = ToSet(c) /\ Held[pd] = ToSet(d) /\ Held[po] = ToSet(s) /\ Held[pq] = ToSet(q) BY <1>4, <1>13, HeldAt
<1>16. \A n \in Frames : \A x, y \in MeshPlaces : n \in Held[x] /\ n \in Held[y] => x = y BY DEF MeshInv, Located, Alone
<1>17. Once(e, Frames)
  <2>1. ToSet(d) \cap ToSet(c) \cap Frames = {} BY <1>14, <1>15, <1>16
  <2> QED BY ONLY <1>5, <1>9, <2>1, Joined
<1>18. Once(f, Frames)
  <2>1. ToSet(q) \cap ToSet(a) \cap Frames = {} BY <1>7, <1>14, <1>15, <1>16
  <2> QED BY ONLY <1>5, <1>7, <1>8, <1>9, <2>1, Joined
<1>19. <<>> \in Seq(Frames) /\ Len(<<>>) = 0 OBVIOUS
<1>20. dataBytes = Bytes(q) /\ dataBytes < MaxQueued + 2 BY <1>4 DEF MeshInv, BytesExact
<1>21. dataBytes' = Bytes(f) /\ dataBytes' < MaxQueued + 2
  <2>1. PICK b : b = dataBytes OBVIOUS
  <2>2. /\ b = Bytes(q) /\ b < MaxQueued + 2 /\ (k = 0 \/ b + Bytes(SubSeq(s, 1, k - 1)) < MaxQueued)
    BY <1>6, <1>20, <2>1
  <2>3. b + Bytes(SubSeq(s, 1, k)) = Bytes(q \o SubSeq(s, 1, k)) /\ b + Bytes(SubSeq(s, 1, k)) < MaxQueued + 2
    BY ONLY <1>5, <1>6, <2>2, DrainBytes
  <2>4. b + Bytes(a) = Bytes(f) /\ b + Bytes(a) < MaxQueued + 2 BY <1>4, <1>9, <2>3
  <2>5. dataBytes' = b + Bytes(a) BY <1>2, <1>4, <2>1
  <2> QED BY <2>4, <2>5
<1>22. dataBytes' \in Int
  <2>1. \A t \in Seq(Frames) : t \in Seq(Nat) BY DEF Frames
  <2>2. Bytes(f) \in Nat BY <1>12, <2>1, BytesSum
  <2> QED BY <1>21, <2>2
<1>types. MeshTypes'
  <2>1. MeshTypes BY DEF MeshInv
  <2>2. disp' \in {"select", "flush"} BY <1>2
  <2>3. ctrlOut' \in Seq(Frames) BY <1>2, <1>19
  <2>4. dataOut' \in Seq(Frames) /\ dataQ' \in Seq(Frames) /\ ctrlQ' \in Seq(Frames) BY <1>7, <1>10, <1>11, <1>12
  <2> QED BY <1>same, <1>22, <2>1, <2>2, <2>3, <2>4 DEF MeshTypes
<1>lengths. Lengths'
  <2>1. Len(s) \in Nat /\ k \in Nat /\ OutLen \in Nat BY <1>5, <1>6, LenProperties, MeshAssumption
  <2>2. Len(s) <= OutLen BY <1>4 DEF MeshInv, Lengths
  <2>3. Len(dataOut') <= OutLen /\ Len(ctrlOut') <= OutLen BY <1>2, <1>7, <1>10, <1>19, <2>1, <2>2
  <2> QED BY <1>same, <2>3 DEF MeshInv, Lengths
<1>once. OnceEach' BY <1>same, <1>2, <1>8, <1>10, <1>17, <1>18, OnceEmpty DEF MeshInv, OnceEach
<1>located. Located'
  <2>1. PICK P1, P2, P3 : P1 = ToSet(c) /\ P2 = ToSet(a) /\ P3 = {} OBVIOUS
  <2>2. PICK X : X = {pc, pd, po, pq} OBVIOUS
  <2>3. \A x \in MeshPlaces \ X : Held'[x] = Held[x] BY <1>same, <1>13, <2>2, HeldElsewhere
  <2>4. Held'[pc] = {} /\ Held'[pd] = ToSet(d) \cup ToSet(c) /\ Held'[po] = ToSet(r) /\ Held'[pq] = ToSet(q) \cup ToSet(a)
    BY <1>2, <1>10, <1>11, <1>12, <1>13, HeldNext, NothingHeld
  <2>5. Rearranged(Held, Held', P1, pd, P2, pq, P3, pq)
    <3> SUFFICES ASSUME NEW n \in Frames, NEW x \in MeshPlaces
                 PROVE  n \in Held'[x] <=>
                            \/ n \in P1 /\ x = pd
                            \/ n \in P2 /\ x = pq
                            \/ n \in P3 /\ x = pq
                            \/ n \notin P1 /\ n \notin P2 /\ n \notin P3 /\ n \in Held[x]
      BY DEF Rearranged
    <3>1. n \in P1 /\ n \in Held[x] => x = pc BY <1>14, <1>15, <1>16, <2>1
    <3>2. n \in P2 /\ n \in Held[x] => x = po BY <1>7, <1>14, <1>15, <1>16, <2>1
    <3>3. CASE x = pc BY <1>14, <1>15, <2>1, <2>4, <3>3
    <3>4. CASE x = pd
      <4>1. (n \in P1 => n \notin Held[x]) /\ (n \in P2 => n \notin Held[x]) /\ x # pq BY <1>14, <3>1, <3>2, <3>4
      <4>2. n \in Held'[x] <=> n \in Held[x] \/ n \in P1 BY <1>15, <2>1, <2>4, <3>4
      <4>3. n \notin P3 BY <2>1
      <4> QED BY ONLY <3>4, <4>1, <4>2, <4>3
    <3>5. CASE x = po BY <1>7, <1>8, <1>14, <1>15, <2>1, <2>4, <3>1, <3>5
    <3>6. CASE x = pq
      <4>1. (n \in P1 => n \notin Held[x]) /\ (n \in P2 => n \notin Held[x]) /\ x # pd BY <1>14, <3>1, <3>2, <3>6
      <4>2. n \in Held'[x] <=> n \in Held[x] \/ n \in P2 BY <1>15, <2>1, <2>4, <3>6
      <4>3. n \notin P3 BY <2>1
      <4>4. ~(n \in P1 /\ n \in P2) BY <1>7, <1>14, <1>15, <1>16, <2>1
      <4> QED BY ONLY <3>6, <4>1, <4>2, <4>3, <4>4
    <3>7. CASE x \notin X BY <2>1, <2>2, <2>3, <3>1, <3>2, <3>7
    <3> QED BY <2>2, <3>3, <3>4, <3>5, <3>6, <3>7
  <2>6. \A n \in Frames : ~(n \in P1 /\ n \in P2) /\ ~(n \in P1 /\ n \in P3) /\ ~(n \in P2 /\ n \in P3)
    BY <1>7, <1>14, <1>15, <1>16, <2>1
  <2>7. \A n \in P1 \cup P2 \cup P3 : \E y \in MeshPlaces : n \in Held[y] BY <1>7, <1>14, <1>15, <2>1
  <2>8. pd \in MeshPlaces /\ pq \in MeshPlaces BY <1>14
  <2>9. MeshTypes /\ Located BY DEF MeshInv
  <2> QED BY <1>same, <1>types, <2>5, <2>6, <2>7, <2>8, <2>9, LocatedApart
<1>registered. Registered' BY <1>same, <1>2 DEF MeshInv, Registered
<1>answers. Answers' BY <1>same DEF MeshInv, Answers
<1>routing. Routing' BY <1>same DEF MeshInv, Routing
<1>unbroken. Unbroken' BY <1>same DEF MeshInv, Unbroken
<1>bytes. BytesExact'
  <2>1. BytesExact' <=> dataBytes' = Bytes(dataQ') /\ dataBytes' < MaxQueued + 2 BY DEF BytesExact, Bytes, Size
  <2> QED BY <1>10, <1>21, <2>1
<1>work. WorkConserving' BY <1>2 DEF WorkConserving
<1> QED BY <1>types, <1>lengths, <1>once, <1>located, <1>registered, <1>answers, <1>routing, <1>unbroken, <1>bytes, <1>work DEF MeshInv

\* takeFrames takes a prefix.
LEMMA TakeFramesIs == ASSUME NEW q \in Seq(Frames) PROVE TakeFrames(q) \in 0 .. Len(q)
<1>1. Len(q) \in Nat BY LenProperties
<1>2. PICK K : K = {k \in 0 .. Len(q) : k <= 1 \/ Bytes(SubSeq(q, 1, k)) <= Limit} OBVIOUS
<1>3. K \in SUBSET (0 .. Len(q)) /\ 0 \in K BY <1>1, <1>2
<1>4. Max(K) \in K BY <1>1, <1>3, MaxUpTo
<1>5. TakeFrames(q) = Max(K) BY <1>2 DEF TakeFrames
<1> QED BY <1>3, <1>4, <1>5

\* takeData takes a prefix.
LEMMA TakeDataIs == ASSUME dataQ \in Seq(Frames), NEW c, NEW D PROVE TakeData(c, D) \in 0 .. Len(dataQ)
<1>1. Len(dataQ) \in Nat BY LenProperties
<1>2. PICK m, K : /\ m = Len(dataQ)
                  /\ K = {k \in 0 .. Len(dataQ) : \A i \in 1 .. k :
                            c \o Kept(i - 1, D) = <<>> \/ Bytes(c \o Kept(i - 1, D)) + Size(dataQ[i]) <= Limit}
  OBVIOUS
<1>3. m \in Nat /\ K \in SUBSET (0 .. m) /\ 0 \in K BY <1>1, <1>2
<1>4. Max(K) \in K BY <1>3, MaxUpTo
<1>5. TakeData(c, D) = Max(K) BY <1>2 DEF TakeData
<1> QED BY <1>2, <1>3, <1>4, <1>5

\* What takeData keeps of the prefix a.
LEMMA KeptIs ==
    ASSUME NEW q \in Seq(Frames), NEW a \in Seq(Frames), ToSet(a) \subseteq ToSet(q), NEW D
    PROVE  /\ Only(a, Range(q) \ D) \in Seq(Frames) /\ ToSet(Only(a, Range(q) \ D)) = ToSet(a) \ D
           /\ Once(a, Frames) => Once(Only(a, Range(q) \ D), Frames)
<1>1. PICK S, o : S = Range(q) \ D /\ o = Only(a, S) OBVIOUS
<1>2. Range(q) = ToSet(q) BY DEF Range, ToSet
<1>3. o \in Seq(Frames) /\ ToSet(o) = ToSet(a) \cap S BY <1>1, OnlyLemma
<1>4. ToSet(o) = ToSet(a) \ D BY <1>1, <1>2, <1>3
<1>5. ASSUME Once(a, Frames) PROVE Once(o, Frames)
  <2>1. DOMAIN a = 1 .. Len(a) /\ DOMAIN o = 1 .. Len(o) /\ \A i \in 1 .. Len(a) : a[i] \in Frames
    BY <1>3, LenProperties, ElementOfSeq
  <2>2. IsInjective(a) BY <1>5, <2>1 DEF IsInjective, Once
  <2>3. IsInjective(o) BY <1>1, <2>2, OnlyLemma
  <2> QED BY <2>1, <2>3 DEF IsInjective, Once
<1> QED BY <1>1, <1>3, <1>4, <1>5

\* The dispatcher hands a batch to a GET that waits for it; CoDel drops the rest of what it took.
LEMMA FlushStep == ASSUME MeshInv, Flush PROVE MeshInv'
<1>same. UNCHANGED <<dir, nDown, dataOut, ctrlOut, getQ, disp, gpc, code, chGone, loop, listens, todo, ctrlRecv,
                     dataRecv, taken, tClosed, post, nUp, meshIn, trouble, timeouts>>
  BY DEF Flush, sendVars, getVars, recvVars, upVars
<1>1. PICK ws, k, c : ws = PruneStale(waiters) /\ k = TakeFrames(ctrlQ) /\ c = SubSeq(ctrlQ, 1, k) OBVIOUS
<1>2. /\ disp = "flush" /\ ws # <<>> /\ ctrlQ' = SubSeq(ctrlQ, k + 1, Len(ctrlQ)) /\ waiters' = Tail(ws)
      /\ \E D \in SUBSET Droppable :
            /\ D \subseteq Range(SubSeq(dataQ, 1, TakeData(c, D)))
            /\ batch' = [batch EXCEPT ![ws[1]] = c \o Kept(TakeData(c, D), D)]
            /\ dataQ' = SubSeq(dataQ, TakeData(c, D) + 1, Len(dataQ))
            /\ dataBytes' = dataBytes - Dequeued(TakeData(c, D), D) /\ aqm' = aqm \cup D
  BY <1>1 DEF Flush
<1>3. PICK D, n : /\ n = TakeData(c, D) /\ D \subseteq Range(SubSeq(dataQ, 1, n))
                  /\ batch' = [batch EXCEPT ![ws[1]] = c \o Kept(n, D)]
                  /\ dataQ' = SubSeq(dataQ, n + 1, Len(dataQ))
                  /\ dataBytes' = dataBytes - Dequeued(n, D) /\ aqm' = aqm \cup D
  BY <1>2
<1>4. /\ waiters \in Seq(Queued) /\ Once(waiters, Gets)
      /\ ctrlQ \in Seq(Frames) /\ Once(ctrlQ, Frames) /\ dataQ \in Seq(Frames) /\ Once(dataQ, Frames) /\ dataBytes \in Int
      /\ batch \in [Gets -> Seq(Frames)]
  BY DEF MeshInv, MeshTypes, OnceEach, Registered
<1>5. /\ ws \in Seq(Queued) /\ Once(ws, Gets) /\ ws[1] \in Gets
      /\ \A h \in Gets : h \in ToSet(ws) <=> h \in ToSet(waiters)
  BY <1>1, <1>2, <1>4, PrunedIs
<1>6. PICK g, v : g = Head(ws) /\ v = Tail(ws) OBVIOUS
<1>7. g = ws[1] /\ g \in Gets /\ g \in ToSet(ws) /\ v \in Seq(Queued) /\ ToSet(ws) = ToSet(v) \cup {g}
  <2>1. g = ws[1] /\ g \in ToSet(ws) /\ v \in Seq(Queued) BY <1>2, <1>5, <1>6, TakeFirst
  <2>2. ToSet(ws) = ToSet(v) \cup {g} BY <1>2, <1>5, <1>6, TakeFirst
  <2> QED BY <1>5, <2>1, <2>2
<1>8. Once(v, Gets) /\ g \notin ToSet(v) BY ONLY <1>2, <1>5, <1>6, <1>7, TakeFirst
<1>9. gpc[g] = "wait" /\ batch[g] = <<>> /\ ~chGone BY <1>2, <1>5, <1>7 DEF MeshInv, Registered
<1>10. PICK cq, dq, cr, a, r, o, b : /\ cq = ctrlQ /\ dq = dataQ /\ cr = SubSeq(cq, k + 1, Len(cq))
                                     /\ a = SubSeq(dq, 1, n) /\ r = SubSeq(dq, n + 1, Len(dq))
                                     /\ o = Kept(n, D) /\ b = c \o o
  OBVIOUS
<1>11. /\ cq \in Seq(Frames) /\ Once(cq, Frames) /\ dq \in Seq(Frames) /\ Once(dq, Frames) /\ k \in 0 .. Len(cq) /\ n \in 0 .. Len(dq)
       /\ c = SubSeq(cq, 1, k)
  <2>1. k \in 0 .. Len(ctrlQ) BY <1>1, <1>4, TakeFramesIs
  <2>2. n \in 0 .. Len(dataQ) BY <1>3, <1>4, TakeDataIs
  <2> QED BY <1>1, <1>4, <1>10, <2>1, <2>2
<1>12. c \in Seq(Frames) /\ cr \in Seq(Frames) /\ ToSet(cq) = ToSet(c) \cup ToSet(cr)
  <2>1. c \in Seq(Frames) /\ cr \in Seq(Frames) BY <1>10, <1>11, Cut
  <2>2. ToSet(cq) = ToSet(c) \cup ToSet(cr) BY <1>10, <1>11, Cut
  <2> QED BY <2>1, <2>2
<1>13. Once(c, Frames) /\ Once(cr, Frames) /\ ToSet(c) \cap ToSet(cr) \cap Frames = {} BY ONLY <1>10, <1>11, Cut
<1>14. a \in Seq(Frames) /\ r \in Seq(Frames) /\ ToSet(dq) = ToSet(a) \cup ToSet(r)
  <2>1. a \in Seq(Frames) /\ r \in Seq(Frames) BY <1>10, <1>11, Cut
  <2>2. ToSet(dq) = ToSet(a) \cup ToSet(r) BY <1>10, <1>11, Cut
  <2> QED BY <2>1, <2>2
<1>15. Once(a, Frames) /\ Once(r, Frames) /\ ToSet(a) \cap ToSet(r) \cap Frames = {} BY ONLY <1>10, <1>11, Cut
<1>16. o \in Seq(Frames) /\ ToSet(o) = ToSet(a) \ D /\ Once(o, Frames)
  <2>1. o = Only(a, Range(dq) \ D) BY <1>10 DEF Kept
  <2>2. ToSet(a) \subseteq ToSet(dq) BY <1>14
  <2>3. o \in Seq(Frames) /\ ToSet(o) = ToSet(a) \ D
    <3>1. dq \in Seq(Frames) /\ a \in Seq(Frames) BY <1>11, <1>14
    <3>2. o \in Seq(Frames) BY ONLY <2>1, <2>2, <3>1, KeptIs
    <3>3. ToSet(o) = ToSet(a) \ D BY ONLY <2>1, <2>2, <3>1, KeptIs
    <3> QED BY <3>2, <3>3
  <2>4. Once(o, Frames) BY <1>11, <1>14, <1>15, <2>1, <2>2, KeptIs
  <2> QED BY <2>3, <2>4
<1>17. D \subseteq ToSet(a) /\ D \subseteq Nat
  <2>1. Range(a) = ToSet(a) BY DEF Range, ToSet
  <2>2. D \subseteq ToSet(a) BY <1>3, <1>10, <2>1
  <2>3. ToSet(a) \subseteq Frames BY <1>14, ToSetType
  <2> QED BY <2>2, <2>3 DEF Frames
<1>18. PICK pc, pq, pg, pe : pc = <<"cq", 0>> /\ pq = <<"dq", 0>> /\ pg = <<"get", g>> /\ pe = <<"end", 0>> OBVIOUS
<1>19. /\ {pc, pq, pg, pe} \subseteq MeshPlaces
       /\ pc # pq /\ pc # pg /\ pc # pe /\ pq # pg /\ pq # pe /\ pg # pe
  BY <1>7, <1>18, PlaceOf
<1>20. Held[pc] = ToSet(cq) /\ Held[pq] = ToSet(dq) /\ Held[pg] = {} /\ Held[pe] = taken \cup aqm
  BY <1>7, <1>9, <1>10, <1>18, HeldAt, NothingHeld
<1>21. \A m \in Frames : \A x, y \in MeshPlaces : m \in Held[x] /\ m \in Held[y] => x = y BY DEF MeshInv, Located, Alone
<1>22. ToSet(c) \cap ToSet(o) \cap Frames = {} BY <1>12, <1>14, <1>16, <1>19, <1>20, <1>21
<1>23. b \in Seq(Frames) /\ ToSet(b) = ToSet(c) \cup ToSet(o)
  <2>1. b \in Seq(Frames) BY <1>10, <1>12, <1>16, Joined
  <2>2. ToSet(b) = ToSet(c) \cup ToSet(o)
    <3>1. c \in Seq(Frames) /\ o \in Seq(Frames) /\ b = c \o o BY <1>10, <1>12, <1>16
    <3> QED BY ONLY <3>1, Joined
  <2> QED BY <2>1, <2>2
<1>24. Once(b, Frames) BY ONLY <1>10, <1>12, <1>13, <1>16, <1>22, Joined
<1>25. /\ batch' = [batch EXCEPT ![g] = b] /\ batch'[g] = b /\ (\A h \in Gets \ {g} : batch'[h] = batch[h])
       /\ dataQ' = r /\ ctrlQ' = cr /\ waiters' = v /\ dataBytes' = dataBytes - Bytes(a)
  <2>1. batch' = [batch EXCEPT ![g] = b] BY <1>3, <1>7, <1>10
  <2>2. batch'[g] = b /\ \A h \in Gets \ {g} : batch'[h] = batch[h] BY <1>4, <1>7, <2>1
  <2>3. dataQ' = r /\ ctrlQ' = cr /\ waiters' = v BY <1>2, <1>3, <1>6, <1>10
  <2>4. dataBytes' = dataBytes - Bytes(a) BY <1>3, <1>10 DEF Dequeued
  <2> QED BY <2>1, <2>2, <2>3, <2>4
<1>26. dataBytes' = Bytes(r) /\ dataBytes' < MaxQueued + 2 /\ dataBytes' \in Int
  <2>1. \A t \in Seq(Frames) : t \in Seq(Nat) BY DEF Frames
  <2>2. dq \in Seq(Nat) /\ a \in Seq(Nat) /\ r \in Seq(Nat) BY <1>11, <1>14, <2>1
  <2>3. Bytes(dq) = Bytes(a) + Bytes(r) BY <1>10, <1>11, <2>2, BytesCut
  <2>4. Bytes(a) \in Nat /\ Bytes(r) \in Nat BY <2>2, BytesSum
  <2>5. dataBytes = Bytes(dq) /\ dataBytes < MaxQueued + 2 BY <1>10 DEF MeshInv, BytesExact
  <2>6. MaxQueued \in Nat BY MeshAssumption
  <2> QED BY <1>25, <2>3, <2>4, <2>5, <2>6
<1>types. MeshTypes'
  <2>1. MeshTypes BY DEF MeshInv
  <2>2. batch' \in [Gets -> Seq(Frames)] BY <1>4, <1>23, <1>25
  <2>3. aqm \in SUBSET Nat BY <2>1 DEF MeshTypes
  <2>4. aqm' \in SUBSET Nat BY <1>3, <1>17, <2>3
  <2>5. dataQ' \in Seq(Frames) /\ ctrlQ' \in Seq(Frames) /\ waiters' \in Seq(Queued) BY <1>7, <1>12, <1>14, <1>25
  <2> QED BY <1>same, <1>26, <2>1, <2>2, <2>4, <2>5 DEF MeshTypes
<1>lengths. Lengths' BY <1>same DEF MeshInv, Lengths
<1>once. OnceEach'
  <2>1. \A h \in Gets : Once(batch'[h], Frames) BY <1>24, <1>25 DEF MeshInv, OnceEach
  <2> QED BY <1>same, <1>13, <1>15, <1>25, <2>1 DEF MeshInv, OnceEach
<1>located. Located'
  <2>1. PICK P1, P2 : P1 = ToSet(c) /\ P2 = ToSet(o) OBVIOUS
  <2>10. P1 \subseteq Held[pc] /\ P2 \subseteq Held[pq] /\ D \subseteq Held[pq] /\ P2 \cap D = {}
    BY <1>12, <1>14, <1>16, <1>17, <1>20, <2>1
  <2>2. PICK X : X = {pc, pq, pg, pe} OBVIOUS
  <2>3. \A x \in MeshPlaces \ X : Held'[x] = Held[x]
    <3>1. \A h \in Gets : <<"get", h>> \in X \/ batch'[h] = batch[h] BY <1>18, <1>25, <2>2
    <3> QED BY <1>same, <1>18, <2>2, <3>1, HeldElsewhere
  <2>4. Held'[pc] = ToSet(cr) /\ Held'[pq] = ToSet(r) /\ Held'[pg] = ToSet(c) \cup ToSet(o) /\ Held'[pe] = taken \cup aqm \cup D
    <3>1. Held'[pc] = ToSet(cr) /\ Held'[pq] = ToSet(r) BY <1>18, <1>25, HeldNext
    <3>2. Held'[pg] = ToSet(b) BY <1>7, <1>18, <1>25, HeldNext
    <3>3. Held'[pe] = taken \cup (aqm \cup D) BY <1>same, <1>3, <1>18, HeldNext
    <3> QED BY <1>23, <3>1, <3>2, <3>3
  <2>5. Rearranged(Held, Held', P1, pg, P2, pg, D, pe)
    <3> SUFFICES ASSUME NEW m \in Frames, NEW x \in MeshPlaces
                 PROVE  m \in Held'[x] <=>
                            \/ m \in P1 /\ x = pg
                            \/ m \in P2 /\ x = pg
                            \/ m \in D /\ x = pe
                            \/ m \notin P1 /\ m \notin P2 /\ m \notin D /\ m \in Held[x]
      BY DEF Rearranged
    <3>1. m \in P1 /\ m \in Held[x] => x = pc BY <1>12, <1>19, <1>20, <1>21, <2>1
    <3>2. (m \in P2 \/ m \in D) /\ m \in Held[x] => x = pq BY <1>19, <1>21, <2>10
    <3>3. (m \in P1 => m \in Held[pc]) /\ (m \in P2 \/ m \in D => m \in Held[pq]) BY <1>12, <1>14, <1>16, <1>17, <1>20, <2>1
    <3>4. ~(m \in P1 /\ m \in Held[pq]) /\ ~((m \in P2 \/ m \in D) /\ m \in Held[pc]) BY <1>19, <1>21, <3>3
    <3>5. CASE x = pc
      <4>1. m \in Held[x] <=> m \in P1 \/ m \in Held'[x] BY <1>12, <1>20, <2>1, <2>4, <3>5
      <4>2. ~(m \in P1 /\ m \in Held'[x]) BY <1>13, <2>1, <2>4, <3>5
      <4>3. x # pg /\ x # pe BY <1>19, <3>5
      <4> QED BY ONLY <3>4, <3>5, <4>1, <4>2, <4>3
    <3>6. CASE x = pq
      <4>1. m \in Held[x] <=> m \in P2 \/ m \in D \/ m \in Held'[x] BY <1>14, <1>16, <1>17, <1>20, <2>1, <2>4, <3>6
      <4>2. ~((m \in P2 \/ m \in D) /\ m \in Held'[x]) BY <1>15, <1>16, <1>17, <2>1, <2>4, <3>6
      <4>3. x # pg /\ x # pe BY <1>19, <3>6
      <4> QED BY ONLY <3>4, <3>6, <4>1, <4>2, <4>3
    <3>7. CASE x = pg
      <4>1. m \notin Held[x] /\ (m \in Held'[x] <=> m \in P1 \/ m \in P2) /\ x # pe BY <1>19, <1>20, <2>1, <2>4, <3>7
      <4> QED BY ONLY <3>7, <4>1
    <3>8. CASE x = pe
      <4>1. (m \in Held'[x] <=> m \in Held[x] \/ m \in D) /\ x # pg /\ x # pc /\ x # pq BY <1>19, <1>20, <2>4, <3>8
      <4> QED BY ONLY <3>1, <3>2, <3>8, <4>1
    <3>9. CASE x \notin X
      <4>1. (m \in Held'[x] <=> m \in Held[x]) /\ x # pg /\ x # pe /\ x # pc /\ x # pq BY <2>2, <2>3, <3>9
      <4> QED BY ONLY <3>1, <3>2, <4>1
    <3> QED BY <2>2, <3>5, <3>6, <3>7, <3>8, <3>9
  <2>6. \A m \in Frames : ~(m \in P1 /\ m \in P2) /\ ~(m \in P1 /\ m \in D) /\ ~(m \in P2 /\ m \in D)
    BY <1>19, <1>21, <2>10
  <2>7. \A m \in P1 \cup P2 \cup D : \E y \in MeshPlaces : m \in Held[y]
    BY <1>19, <2>10
  <2>8. pg \in MeshPlaces /\ pe \in MeshPlaces BY <1>19
  <2>9. MeshTypes /\ Located BY DEF MeshInv
  <2> QED BY <1>same, <1>types, <2>5, <2>6, <2>7, <2>8, <2>9, LocatedApart
<1>registered. Registered'
  <2>1. \A h \in Gets : h \in ToSet(v) => h \in ToSet(waiters) /\ h # g BY <1>5, <1>7, <1>8
  <2>2. g \notin ToSet(getQ) BY <1>5, <1>7 DEF MeshInv, Registered
  <2>3. \A h \in Gets : h \in ToSet(v) \cup ToSet(getQ) => gpc[h] = "wait" /\ batch'[h] = <<>>
    BY <1>25, <2>1, <2>2 DEF MeshInv, Registered
  <2>4. \A h \in Gets : ~ (h \in ToSet(v) /\ h \in ToSet(getQ)) BY <2>1 DEF MeshInv, Registered
  <2>5. Once(getQ, Gets) BY DEF MeshInv, Registered
  <2> QED BY <1>same, <1>8, <1>9, <1>25, <2>3, <2>4, <2>5 DEF Registered
<1>answers. Answers'
  <2> SUFFICES ASSUME NEW h \in Gets
               PROVE  /\ gpc'[h] \in {"none", "net"} => batch'[h] = <<>>
                      /\ gpc'[h] = "answered" => /\ code'[h] # 0 /\ (code'[h] = 410 => trouble' > 0)
                                                 /\ code'[h] = 408 => batch'[h] = <<>>
                                                 /\ code'[h] = 200 => batch'[h] # <<>>
                      /\ gpc'[h] # "none" /\ trouble' = 0 => loop'[h[1]] = "await" /\ listens'[h[1]] = h[2]
    BY DEF Answers
  <2>1. CASE h = g BY <1>same, <1>9, <1>25, <2>1 DEF MeshInv, Answers
  <2>2. CASE h # g BY <1>same, <1>25, <2>2 DEF MeshInv, Answers
  <2> QED BY <2>1, <2>2
<1>routing. Routing' BY <1>same DEF MeshInv, Routing
<1>unbroken. Unbroken' BY <1>same DEF MeshInv, Unbroken
<1>bytes. BytesExact'
  <2>1. BytesExact' <=> dataBytes' = Bytes(dataQ') /\ dataBytes' < MaxQueued + 2 BY DEF BytesExact, Bytes, Size
  <2> QED BY <1>25, <1>26, <2>1
<1>work. WorkConserving' BY <1>same, <1>2 DEF WorkConserving
<1> QED BY <1>types, <1>lengths, <1>once, <1>located, <1>registered, <1>answers, <1>routing, <1>unbroken, <1>bytes, <1>work DEF MeshInv

-----------------------------------------------------------------------------
(* The invariant holds, and the property follows.                          *)

\* Nothing has been sent yet.
LEMMA MeshInitInv == ASSUME MeshInit PROVE MeshInv
<1>1. /\ dir \in {"down", "up"} /\ nDown = 0 /\ dataOut = <<>> /\ ctrlOut = <<>>
      /\ disp = "select" /\ ctrlQ = <<>> /\ dataQ = <<>> /\ dataBytes = 0 /\ waiters = <<>> /\ aqm = {} /\ getQ = <<>>
      /\ ctrlRecv = <<>> /\ dataRecv = <<>> /\ taken = {} /\ nUp = 0 /\ meshIn = <<>>
      /\ chGone = FALSE /\ tClosed = FALSE /\ trouble = 0 /\ timeouts = 0
      /\ <<>> \in Seq(Frames) /\ <<>> \in Seq(Nat) /\ <<>> \in Seq(Queued) /\ Len(<<>>) = 0
  BY DEF MeshInit
<1>2. /\ batch = [g \in Gets |-> <<>>] /\ gpc = [g \in Gets |-> "none"] /\ code = [g \in Gets |-> 0]
      /\ loop = [l \in Loops |-> "get"] /\ listens = [l \in Loops |-> 1] /\ todo = [l \in Loops |-> <<>>]
      /\ post = [p \in Posts |-> [st |-> "free", left |-> <<>>]]
  BY DEF MeshInit
<1>3. /\ \A g \in Gets : batch[g] = <<>> /\ gpc[g] = "none"
      /\ \A l \in Loops : loop[l] = "get" /\ todo[l] = <<>>
      /\ \A p \in Posts : post[p].left = <<>>
  BY <1>2
<1>4. MeshTypes
  <2>1. batch \in [Gets -> Seq(Frames)] /\ todo \in [Loops -> Seq(Nat)] BY <1>1, <1>2
  <2>2. /\ gpc \in [Gets -> {"none", "net", "wait", "left", "answered"}] /\ code \in [Gets -> {0, 200, 408, 410}]
        /\ loop \in [Loops -> {"get", "await", "route", "over"}] /\ listens \in [Loops -> {1, 2}]
    BY <1>2
  <2>3. post \in [Posts -> [st : {"free", "net"}, left : Seq(Frames)]]
    <3>1. PICK e : e = <<>> OBVIOUS
    <3>2. e \in Seq(Frames) BY <3>1
    <3>3. post = [p \in Posts |-> [st |-> "free", left |-> e]] BY <1>2, <3>1
    <3> QED BY <3>2, <3>3
  <2>4. chGone \in BOOLEAN /\ tClosed \in BOOLEAN /\ taken \in SUBSET Nat /\ aqm \in SUBSET Nat BY <1>1
  <2> QED BY <1>1, <2>1, <2>2, <2>3, <2>4 DEF MeshTypes
<1>5. Lengths BY <1>1, MeshAssumption DEF Lengths
<1>6. OnceEach BY <1>1, <1>3, OnceEmpty DEF OnceEach
<1>7. Located
  <2>1. ASSUME NEW x \in MeshPlaces PROVE Held[x] = {}
    <3>1. CASE \E k \in {"do", "co", "dq", "cq", "cr", "dr", "in", "end"} : x = <<k, 0>>
      <4>1. taken \cup aqm = {} BY <1>1
      <4> QED BY <1>1, <3>1, <4>1, HeldAt, NothingHeld
    <3>2. CASE \E g \in Gets : x = <<"get", g>> BY <1>3, <3>2, HeldAt, NothingHeld
    <3>3. CASE \E l \in Loops : x = <<"loop", l>> BY <1>3, <3>3, HeldAt, NothingHeld
    <3>4. CASE \E p \in Posts : x = <<"post", p>> BY <1>3, <3>4, HeldAt, NothingHeld
    <3> QED BY <3>1, <3>2, <3>3, <3>4, PlaceKinds
  <2>2. Alone(Held) BY <2>1 DEF Alone
  <2>3. AllSent(Held, nDown + nUp) BY <1>1 DEF AllSent
  <2> QED BY <1>1, <2>1, <2>2, <2>3 DEF Located
<1>8. Registered BY <1>1, OnceEmpty, NothingHeld DEF Registered
<1>9. Answers BY <1>3 DEF Answers
<1>10. Routing BY <1>3, NothingHeld DEF Routing
<1>11. Unbroken BY <1>1, <1>3, NothingHeld DEF Unbroken
<1>12. BytesExact BY <1>1, BytesEmpty, MeshAssumption DEF BytesExact
<1>13. WorkConserving BY <1>1 DEF WorkConserving
<1> QED BY <1>4, <1>5, <1>6, <1>7, <1>8, <1>9, <1>10, <1>11, <1>12, <1>13 DEF MeshInv

\* A step that changes nothing.
LEMMA MeshStutters == ASSUME MeshInv, UNCHANGED meshVars PROVE MeshInv'
<1>1. UNCHANGED <<dir, nDown, dataOut, ctrlOut, getQ, disp, ctrlQ, dataQ, dataBytes, waiters, batch, gpc, code, aqm, chGone,
                  loop, listens, todo, ctrlRecv, dataRecv, taken, tClosed, post, nUp, meshIn, trouble, timeouts>>
  BY DEF meshVars, sendVars, dispVars, getVars, recvVars, upVars
<1>2. Located' BY <1>1, HeldSame, LocatedSame DEF MeshInv
<1>3. MeshTypes' /\ Lengths' /\ OnceEach' BY <1>1 DEF MeshInv, MeshTypes, Lengths, OnceEach
<1>4. Registered' /\ Answers' BY <1>1 DEF MeshInv, Registered, Answers
<1>5. Routing' /\ Unbroken' BY <1>1 DEF MeshInv, Routing, Unbroken
<1>6. BytesExact' BY <1>1 DEF MeshInv, BytesExact, Bytes
<1>7. WorkConserving' BY <1>1 DEF MeshInv, WorkConserving, Range
<1> QED BY <1>2, <1>3, <1>4, <1>5, <1>6, <1>7 DEF MeshInv

\* MeshInv is inductive.
LEMMA MeshStepInv == ASSUME MeshInv, [MeshNext]_meshVars PROVE MeshInv'
<1>1. CASE MeshSend \/ Dispatch \/ AddWaiters \/ Flush \/ FlushEnds
  BY <1>1, MeshSendStep, DispatchStep, AddWaitersStep, FlushStep, FlushEndsStep
<1>2. ASSUME NEW g \in Gets, Handle(g) \/ GetTimesOut(g) PROVE MeshInv'
  BY <1>2, GetRegistersStep, ServedStep, AbandonStep, GoneStep, UnheardStep, TimesOutStep DEF Handle
<1>3. ASSUME NEW l \in Loops, Receive(l) \/ GetBreaks(l) PROVE MeshInv'
  BY <1>3, RecvGetStep, RecvAnswerStep, RouteFrameStep, GetBreaksStep DEF Receive
<1>4. CASE RecvFrame \/ RecvError \/ RecvUp \/ ChannelCloses \/ TransportCloses
  BY <1>4, RecvFrameStep, RecvErrorStep, RecvUpStep, ChannelClosesStep, TransportClosesStep
<1>5. ASSUME NEW p \in Posts, SendUp(p) \/ PostFrame(p) \/ PostEnds(p) PROVE MeshInv'
  BY <1>5, SendUpStep, PostFrameStep, PostEndsStep
<1>6. CASE UNCHANGED meshVars BY <1>6, MeshStutters
<1> QED BY <1>1, <1>2, <1>3, <1>4, <1>5, <1>6 DEF MeshNext

-----------------------------------------------------------------------------
\* A set of one element at most.
LEMMA OneAtMost ==
    ASSUME NEW S, \A a, b \in S : a = b
    PROVE  Cardinality(S) \in {0, 1} /\ (Cardinality(S) = 1 <=> S # {})
<1>1. CASE S = {} BY <1>1, FS_EmptySet
<1>2. CASE S # {}
  <2>1. PICK a : a \in S BY <1>2
  <2>2. S = {a} BY <2>1
  <2>3. Cardinality(S) = 1 BY <2>2, FS_Singleton
  <2> QED BY <1>2, <2>3
<1> QED BY <1>1, <1>2

\* A GET that has not given up is registered once.
LEMMA WaitsOnce ==
    ASSUME MeshInv, NEW g \in Gets
    PROVE  Cardinality({i \in DOMAIN (waiters \o getQ) : (waiters \o getQ)[i] = g}) <= 1
<1>1. PICK s, t, u : s = waiters /\ t = getQ /\ u = s \o t OBVIOUS
<1>2. /\ s \in Seq(Queued) /\ t \in Seq(Queued) /\ Once(s, Gets) /\ Once(t, Gets)
      /\ ToSet(s) \cap ToSet(t) \cap Gets = {}
  BY <1>1 DEF MeshInv, MeshTypes, Registered
<1>3. Once(u, Gets) BY ONLY <1>1, <1>2, Joined
<1>4. u \in Seq(Queued) BY <1>1, <1>2, ConcatProperties
<1>5. DOMAIN u = 1 .. Len(u) BY <1>4, LenProperties
<1>6. PICK S : S = {i \in DOMAIN u : u[i] = g} OBVIOUS
<1>7. \A a, b \in S : a = b BY <1>3, <1>5, <1>6 DEF Once
<1>8. Cardinality(S) \in {0, 1} BY <1>7, OneAtMost
<1>9. Cardinality(S) <= 1 BY <1>8
<1>10. S = {i \in DOMAIN (waiters \o getQ) : (waiters \o getQ)[i] = g} BY <1>1, <1>6
<1> QED BY <1>9, <1>10

\* The ranges and the lengths MeshTypeOK states.
LEMMA MeshTypesHold == ASSUME MeshInv PROVE MeshTypeOK
<1>1. \A s \in {dataOut, ctrlOut, meshIn} : Len(s) <= OutLen BY DEF MeshInv, Lengths
<1> QED BY <1>1, WaitsOnce DEF MeshInv, MeshTypes, Lengths, MeshTypeOK

\* The places Carried counts are those of Held: a frame that was sent is in one at most, and in one while nothing broke.
LEMMA CarriedOnce ==
    ASSUME MeshInv, NEW n \in Sent
    PROVE  Carried(n) <= 1 /\ (trouble = 0 => Carried(n) = 1)
<1>1. n \in Frames /\ nDown + nUp \in Nat /\ n \in 1 .. (nDown + nUp) BY DEF Sent, Frames, MeshInv, MeshTypes
<1>2. PICK S : S = {s \in {"do", "co", "dq", "cq", "cr", "dr"} :
                      Contains(CASE s = "do" -> dataOut [] s = "co" -> ctrlOut [] s = "dq" -> dataQ
                                 [] s = "cq" -> ctrlQ [] s = "cr" -> ctrlRecv [] OTHER -> dataRecv, n)}
  OBVIOUS
<1>3. PICK G, L, P : /\ G = {g \in Gets : Contains(batch[g], n)} /\ L = {l \in Loops : Contains(todo[l], n)}
                     /\ P = {p \in Posts : Contains(post[p].left, n)}
  OBVIOUS
<1>4. PICK i, e : /\ i = (IF Contains(meshIn, n) THEN 1 ELSE 0) /\ e = (IF n \in taken \cup aqm THEN 1 ELSE 0)
  OBVIOUS
<1>5. Carried(n) = Cardinality(S) + Cardinality(G) + Cardinality(L) + Cardinality(P) + i + e
  BY <1>2, <1>3, <1>4 DEF Carried
<1>6. S = {s \in {"do", "co", "dq", "cq", "cr", "dr"} : n \in Held[<<s, 0>>]}
  <2>1. /\ Contains(dataOut, n) <=> n \in Held[<<"do", 0>>]
        /\ Contains(ctrlOut, n) <=> n \in Held[<<"co", 0>>]
        /\ Contains(dataQ, n) <=> n \in Held[<<"dq", 0>>]
        /\ Contains(ctrlQ, n) <=> n \in Held[<<"cq", 0>>]
        /\ Contains(ctrlRecv, n) <=> n \in Held[<<"cr", 0>>]
        /\ Contains(dataRecv, n) <=> n \in Held[<<"dr", 0>>]
    BY HeldAt, ContainsLemma DEF MeshInv, MeshTypes
  <2> QED BY <1>2, <2>1
<1>7. G = {g \in Gets : n \in Held[<<"get", g>>]}
  <2>1. ASSUME NEW g \in Gets PROVE Contains(batch[g], n) <=> n \in Held[<<"get", g>>]
    <3>1. batch[g] \in Seq(Frames) BY DEF MeshInv, MeshTypes
    <3> QED BY <3>1, HeldAt, ContainsLemma
  <2> QED BY <1>3, <2>1
<1>8. L = {l \in Loops : n \in Held[<<"loop", l>>]}
  <2>1. ASSUME NEW l \in Loops PROVE Contains(todo[l], n) <=> n \in Held[<<"loop", l>>]
    <3>1. todo[l] \in Seq(Nat) BY DEF MeshInv, MeshTypes
    <3> QED BY <3>1, HeldAt, ContainsLemma
  <2> QED BY <1>3, <2>1
<1>9. P = {p \in Posts : n \in Held[<<"post", p>>]}
  <2>1. ASSUME NEW p \in Posts PROVE Contains(post[p].left, n) <=> n \in Held[<<"post", p>>]
    <3>1. post[p].left \in Seq(Frames) BY DEF MeshInv, MeshTypes
    <3> QED BY <3>1, HeldAt, ContainsLemma
  <2> QED BY <1>3, <2>1
<1>10. /\ i \in {0, 1} /\ (i = 1 <=> n \in Held[<<"in", 0>>])
       /\ e \in {0, 1} /\ (e = 1 <=> n \in Held[<<"end", 0>>])
  <2>1. meshIn \in Seq(Frames) BY DEF MeshInv, MeshTypes
  <2>2. Contains(meshIn, n) <=> n \in Held[<<"in", 0>>] BY <2>1, HeldAt, ContainsLemma
  <2> QED BY <1>4, <2>2, HeldAt
<1>11. \A x, y \in MeshPlaces : n \in Held[x] /\ n \in Held[y] => x = y BY <1>1 DEF MeshInv, Located, Alone
<1>12. /\ Cardinality(S) \in {0, 1} /\ (Cardinality(S) = 1 <=> S # {})
       /\ Cardinality(G) \in {0, 1} /\ (Cardinality(G) = 1 <=> G # {})
       /\ Cardinality(L) \in {0, 1} /\ (Cardinality(L) = 1 <=> L # {})
       /\ Cardinality(P) \in {0, 1} /\ (Cardinality(P) = 1 <=> P # {})
  <2>1. \A a, b \in S : a = b BY <1>6, <1>11, PlaceOf
  <2>2. \A a, b \in G : a = b BY <1>7, <1>11, PlaceOf
  <2>3. \A a, b \in L : a = b BY <1>8, <1>11, PlaceOf
  <2>4. \A a, b \in P : a = b BY <1>9, <1>11, PlaceOf
  <2> QED BY <2>1, <2>2, <2>3, <2>4, OneAtMost
<1>13. /\ ~(S # {} /\ G # {}) /\ ~(S # {} /\ L # {}) /\ ~(S # {} /\ P # {}) /\ ~(S # {} /\ i = 1) /\ ~(S # {} /\ e = 1)
       /\ ~(G # {} /\ L # {}) /\ ~(G # {} /\ P # {}) /\ ~(G # {} /\ i = 1) /\ ~(G # {} /\ e = 1)
       /\ ~(L # {} /\ P # {}) /\ ~(L # {} /\ i = 1) /\ ~(L # {} /\ e = 1)
       /\ ~(P # {} /\ i = 1) /\ ~(P # {} /\ e = 1) /\ ~(i = 1 /\ e = 1)
  <2>1. S # {} => \E x \in MeshPlaces : n \in Held[x] /\ x[1] \in {"do", "co", "dq", "cq", "cr", "dr"} BY <1>6, PlaceOf
  <2>2. G # {} => \E x \in MeshPlaces : n \in Held[x] /\ x[1] = "get" BY <1>7, PlaceOf
  <2>3. L # {} => \E x \in MeshPlaces : n \in Held[x] /\ x[1] = "loop" BY <1>8, PlaceOf
  <2>4. P # {} => \E x \in MeshPlaces : n \in Held[x] /\ x[1] = "post" BY <1>9, PlaceOf
  <2>5. i = 1 => \E x \in MeshPlaces : n \in Held[x] /\ x[1] = "in" BY <1>10, PlaceOf
  <2>6. e = 1 => \E x \in MeshPlaces : n \in Held[x] /\ x[1] = "end" BY <1>10, PlaceOf
  <2> QED BY <1>11, <2>1, <2>2, <2>3, <2>4, <2>5, <2>6
<1>14. Carried(n) <= 1 BY <1>5, <1>10, <1>12, <1>13
<1>15. ASSUME trouble = 0 PROVE Carried(n) = 1
  <2>1. PICK x \in MeshPlaces : n \in Held[x] BY <1>1, <1>15 DEF MeshInv, Located, AllSent
  <2>2. S # {} \/ G # {} \/ L # {} \/ P # {} \/ i = 1 \/ e = 1
    <3>1. CASE \E k \in {"do", "co", "dq", "cq", "cr", "dr", "in", "end"} : x = <<k, 0>> BY <1>6, <1>10, <2>1, <3>1
    <3>2. CASE \E g \in Gets : x = <<"get", g>> BY <1>7, <2>1, <3>2
    <3>3. CASE \E l \in Loops : x = <<"loop", l>> BY <1>8, <2>1, <3>3
    <3>4. CASE \E p \in Posts : x = <<"post", p>> BY <1>9, <2>1, <3>4
    <3> QED BY <3>1, <3>2, <3>3, <3>4, PlaceKinds
  <2> QED BY <1>5, <1>10, <1>12, <1>13, <2>2
<1> QED BY <1>14, <1>15

\* For any number of recvLoops and POSTs, any traffic, any capacities and caps and any
\* faults: no frame is ever in two places, and none is lost before something breaks or
\* is closed; dataBytes is what dataQ holds; a GET is registered once; and no frame
\* is queued while a GET waits for one (htunnel_mesh.go, htunnel_direct.go).
THEOREM FramesAreSound == MeshSpec => []FramesSound
<1>1. MeshInit => MeshInv BY MeshInitInv
<1>2. MeshInv /\ [MeshNext]_meshVars => MeshInv' BY MeshStepInv
<1>3. MeshInv => FramesSound
  BY MeshTypesHold, CarriedOnce DEF MeshInv, FramesSound, NoFrameLost
<1> QED BY <1>1, <1>2, <1>3, PTL DEF MeshSpec
=============================================================================
