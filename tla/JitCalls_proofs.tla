-------------------------- MODULE JitCalls_proofs --------------------------
(***************************************************************************)
(* The return stack and the host stack agree, for every size of the ring,  *)
(* every quantum and every set of costs and addresses: CallsInv is         *)
(* inductive.  A push shifts what is visible of the ring up by one and a   *)
(* matched return shifts it down; the frames of calls do the same on the   *)
(* host stack.                                                             *)
(***************************************************************************)
EXTENDS JitCalls, FiniteSetTheorems, WellFoundedInduction, TLAPS

-----------------------------------------------------------------------------
(* The arithmetic of %.                                                     *)

\* Division with remainder.
LEMMA ModDef ==
    ASSUME NEW N \in Nat \ {0}, NEW k \in Int
    PROVE  /\ k = N * (k \div N) + (k % N)
           /\ k \div N \in Int
           /\ k % N \in 0 .. N - 1
  OBVIOUS

\* A positive multiple of N is at least N.
LEMMA MultipleBound ==
    ASSUME NEW N \in Nat \ {0}, NEW d \in Int, d >= 1
    PROVE  N * d >= N
  OBVIOUS

\* Quotients of remainders in range agree, and so do the remainders.
LEMMA RemainderUnique ==
    ASSUME NEW N \in Nat \ {0}, NEW p \in Int, NEW q \in Int,
           NEW r \in 0 .. N - 1, NEW s \in 0 .. N - 1,
           N * p + r = N * q + s
    PROVE  r = s
<1>1. r - s = N * q - N * p /\ N * q - N * p = N * (q - p)
  OBVIOUS
<1>2. CASE q - p >= 1
  BY <1>1, <1>2, MultipleBound
<1>3. CASE p - q >= 1
  <2>1. N * (p - q) >= N
    BY <1>3, MultipleBound
  <2>2. N * (p - q) = s - r
    BY <1>1
  <2> QED BY <2>1, <2>2
<1>4. CASE p = q
  BY <1>1, <1>4
<1> QED BY <1>2, <1>3, <1>4

\* Any decomposition of m gives its remainder.
LEMMA ModOf ==
    ASSUME NEW N \in Nat \ {0}, NEW m \in Int, NEW q \in Int, NEW r \in 0 .. N - 1,
           m = N * q + r
    PROVE  m % N = r
<1> DEFINE b == m \div N
           t == m % N
<1>1. m = N * b + t /\ b \in Int /\ t \in 0 .. N - 1
  BY ModDef
<1>2. N * b + t = N * q + r
  BY <1>1
<1> HIDE DEF b, t
<1>3. t = r
  BY <1>1, <1>2, RemainderUnique
<1> QED BY <1>3 DEF t

-----------------------------------------------------------------------------
(* The ring.                                                               *)

\* The slot n below cursor p.
Slot(p, n) == IF n <= p THEN p - n ELSE p + Size - n

\* The remainders the code computes, without %.
LEMMA SlotOf ==
    ASSUME NEW p \in 0 .. Size - 1
    PROVE  /\ \A n \in 1 .. Size : (p + Size - n) % Size = Slot(p, n)
           /\ Below(p) = Slot(p, 1)
           /\ Above(p) = IF p = Size - 1 THEN 0 ELSE p + 1
<1>1. Size \in Nat \ {0} /\ Size >= 2
  BY JitCallsAssumption
<1>2. ASSUME NEW n \in 1 .. Size PROVE (p + Size - n) % Size = Slot(p, n)
  <2>1. CASE n <= p
    <3>1. p + Size - n = Size * 1 + (p - n) /\ p - n \in 0 .. Size - 1
      BY <1>1, <2>1
    <3>2. (p + Size - n) % Size = p - n
      BY <1>1, <3>1, ModOf
    <3> QED BY <2>1, <3>2 DEF Slot
  <2>2. CASE ~(n <= p)
    <3>1. /\ p + Size - n = Size * 0 + (p + Size - n)
          /\ p + Size - n \in 0 .. Size - 1
      BY <1>1, <2>2
    <3>2. (p + Size - n) % Size = p + Size - n
      BY <1>1, <3>1, ModOf
    <3> QED BY <2>2, <3>2 DEF Slot
  <2> QED BY <2>1, <2>2
<1>3. Below(p) = Slot(p, 1)
  BY <1>1, <1>2 DEF Below
<1>4. Above(p) = IF p = Size - 1 THEN 0 ELSE p + 1
  <2>1. CASE p = Size - 1
    <3>1. p + 1 = Size * 1 + 0 /\ 0 \in 0 .. Size - 1
      BY <1>1, <2>1
    <3>2. (p + 1) % Size = 0
      BY <1>1, <3>1, ModOf
    <3> QED BY <2>1, <3>2 DEF Above
  <2>2. CASE p # Size - 1
    <3>1. p + 1 = Size * 0 + (p + 1) /\ p + 1 \in 0 .. Size - 1
      BY <1>1, <2>2
    <3>2. (p + 1) % Size = p + 1
      BY <1>1, <3>1, ModOf
    <3> QED BY <2>2, <3>2 DEF Above
  <2> QED BY <2>1, <2>2
<1> QED BY <1>2, <1>3, <1>4

\* What n pops from cursor p meet in the ring st.
Seen(st, p, n) == \A i \in 1 .. n : st[Slot(p, i)] # NoPc

\* The ring behind a push.
Pushed(st, p, lr) == [st EXCEPT ![p] = lr, ![Above(p)] = NoPc]

\* A push shows its own address first and then what was visible, all but the
\* oldest: the mark above the new entry hides that one.
LEMMA PushSeen ==
    ASSUME NEW st \in [0 .. Size - 1 -> Pc \cup {NoPc}], NEW p \in 0 .. Size - 1,
           NEW lr \in Pc, NEW n \in 1 .. Size,
           Seen(Pushed(st, p, lr), Above(p), n)
    PROVE  \/ n = 1 /\ Pushed(st, p, lr)[Slot(Above(p), n)] = lr
           \/ /\ n - 1 \in 1 .. Size
              /\ Seen(st, p, n - 1)
              /\ Pushed(st, p, lr)[Slot(Above(p), n)] = st[Slot(p, n - 1)]
<1> DEFINE a == Above(p)
           new == Pushed(st, p, lr)
<1>1. Size \in Nat /\ Size >= 2
  BY JitCallsAssumption
<1>a. a = IF p = Size - 1 THEN 0 ELSE p + 1
  BY SlotOf
<1> HIDE DEF a, new
<1>2. a = (IF p = Size - 1 THEN 0 ELSE p + 1) /\ a \in 0 .. Size - 1 /\ a # p
  BY <1>1, <1>a
<1>3. new[a] = NoPc /\ new[p] = lr /\ \A j \in (0 .. Size - 1) \ {p, a} : new[j] = st[j]
  BY <1>2 DEF a, new, Pushed
<1>4. Slot(a, Size) = a /\ Slot(a, 1) = p
  BY <1>1, <1>2 DEF Slot
<1>5. n < Size
  <2>1. CASE n = Size
    BY <1>1, <1>3, <1>4, <2>1 DEF Seen, a, new
  <2> QED BY <1>1, <2>1
<1>6. ASSUME NEW i \in 2 .. Size - 1
      PROVE  Slot(a, i) = Slot(p, i - 1) /\ Slot(p, i - 1) \in (0 .. Size - 1) \ {p, a}
  BY <1>1, <1>2 DEF Slot
<1>7. CASE n = 1
  BY <1>3, <1>4, <1>7 DEF a, new
<1>8. CASE n # 1
  <2>1. n - 1 \in 1 .. Size /\ n \in 2 .. Size - 1
    BY <1>1, <1>5, <1>8
  <2>2. new[Slot(a, n)] = st[Slot(p, n - 1)]
    BY <1>3, <1>6, <2>1
  <2>3. ASSUME NEW i \in 1 .. n - 1 PROVE st[Slot(p, i)] # NoPc
    <3>1. i + 1 \in 2 .. Size - 1 /\ i + 1 \in 1 .. n /\ (i + 1) - 1 = i
      BY <1>1, <1>5, <2>1
    <3>2. new[Slot(a, i + 1)] = st[Slot(p, i)]
      BY <1>3, <1>6, <3>1
    <3> QED BY <3>1, <3>2 DEF Seen, a, new
  <2> QED BY <2>1, <2>2, <2>3 DEF Seen, a, new
<1> QED BY <1>7, <1>8

\* A pop of a visible entry shows what was visible below it.
LEMMA PopSeen ==
    ASSUME NEW st \in [0 .. Size - 1 -> Pc \cup {NoPc}], NEW p \in 0 .. Size - 1,
           NEW n \in 1 .. Size,
           \E j \in 0 .. Size - 1 : st[j] = NoPc,
           st[Slot(p, 1)] # NoPc,
           Seen(st, Slot(p, 1), n)
    PROVE  /\ n + 1 \in 1 .. Size
           /\ Seen(st, p, n + 1)
           /\ st[Slot(Slot(p, 1), n)] = st[Slot(p, n + 1)]
<1> DEFINE b == Slot(p, 1)
<1>1. Size \in Nat /\ Size >= 2
  BY JitCallsAssumption
<1>2. b = (IF p = 0 THEN Size - 1 ELSE p - 1) /\ b \in 0 .. Size - 1
  BY <1>1 DEF Slot
<1> HIDE DEF b
<1>3. n < Size
  <2>1. PICK j \in 0 .. Size - 1 : st[j] = NoPc
    OBVIOUS
  <2>2. PICK i \in 1 .. Size : Slot(b, i) = j
    <3>1. CASE j < b
      <4>1. b - j \in 1 .. Size /\ Slot(b, b - j) = j
        BY <1>1, <1>2, <3>1 DEF Slot
      <4> QED BY <4>1
    <3>2. CASE ~(j < b)
      <4>1. b + Size - j \in 1 .. Size /\ Slot(b, b + Size - j) = j
        BY <1>1, <1>2, <3>2 DEF Slot
      <4> QED BY <4>1
    <3> QED BY <3>1, <3>2
  <2>3. CASE n = Size
    BY <2>1, <2>2, <2>3 DEF Seen, b
  <2> QED BY <1>1, <2>3
<1>4. ASSUME NEW i \in 1 .. Size - 1 PROVE Slot(b, i) = Slot(p, i + 1)
  BY <1>1, <1>2 DEF Slot
<1>5. n + 1 \in 1 .. Size /\ n \in 1 .. Size - 1
  BY <1>1, <1>3
<1>6. ASSUME NEW i \in 1 .. n + 1 PROVE st[Slot(p, i)] # NoPc
  <2>1. CASE i = 1
    BY <2>1
  <2>2. CASE i # 1
    <3>1. i - 1 \in 1 .. Size - 1 /\ i - 1 \in 1 .. n /\ (i - 1) + 1 = i
      BY <1>1, <1>3, <2>2
    <3> QED BY <1>4, <3>1 DEF Seen, b
  <2> QED BY <2>1, <2>2
<1>7. st[Slot(b, n)] = st[Slot(p, n + 1)]
  BY <1>4, <1>5
<1> QED BY <1>5, <1>6, <1>7 DEF Seen, b

-----------------------------------------------------------------------------
(* The frames of calls.                                                    *)

CallsOf(h) == {i \in 1 .. Len(h) : h[i].kind = "call"}

\* How many calls lie above frame q.
Over(h, q) == Cardinality({i \in CallsOf(h) : i > q})

\* h holds a call to return to lr, with k calls above it.
Holds(h, k, lr) ==
    \E q \in CallsOf(h) : Over(h, q) = k /\ h[q].lr = lr

LEMMA CallsFinite ==
    ASSUME NEW h \in Seq(Frame), NEW q
    PROVE  /\ IsFiniteSet({i \in CallsOf(h) : i > q})
           /\ Cardinality({i \in CallsOf(h) : i > q}) \in Nat
<1>1. Len(h) \in Nat
  OBVIOUS
<1>2. IsFiniteSet(1 .. Len(h))
  BY <1>1, FS_Interval
<1>3. {i \in CallsOf(h) : i > q} \subseteq 1 .. Len(h)
  BY DEF CallsOf
<1>4. IsFiniteSet({i \in CallsOf(h) : i > q})
  BY <1>2, <1>3, FS_Subset
<1> QED BY <1>4, FS_CardinalityType

\* What an appended frame leaves where it was.
LEMMA AppendAt ==
    ASSUME NEW h \in Seq(Frame), NEW f \in Frame
    PROVE  /\ Append(h, f) \in Seq(Frame)
           /\ Len(Append(h, f)) = Len(h) + 1
           /\ Append(h, f)[Len(h) + 1] = f
           /\ \A i \in 1 .. Len(h) : Append(h, f)[i] = h[i]
  OBVIOUS

\* A frame of emit_code_block hides no call.
LEMMA EmitHolds ==
    ASSUME NEW h \in Seq(Frame), NEW f \in Frame, f.kind = "emit",
           NEW k, NEW lr, Holds(h, k, lr)
    PROVE  Holds(Append(h, f), k, lr)
<1> DEFINE g == Append(h, f)
<1>1. /\ g \in Seq(Frame) /\ Len(g) = Len(h) + 1 /\ Len(h) \in Nat
      /\ g[Len(h) + 1] = f /\ \A i \in 1 .. Len(h) : g[i] = h[i]
  BY AppendAt
<1> HIDE DEF g
<1>2. CallsOf(g) = CallsOf(h)
  BY <1>1 DEF CallsOf
<1>3. \A q \in CallsOf(h) : g[q] = h[q]
  BY <1>1 DEF CallsOf
<1>4. Holds(g, k, lr)
  BY <1>2, <1>3 DEF Holds, Over
<1> QED BY <1>4 DEF g

\* The frame of a call is the innermost and the others move out by one.
LEMMA CallHolds ==
    ASSUME NEW h \in Seq(Frame), NEW f \in Frame, f.kind = "call"
    PROVE  /\ Holds(Append(h, f), 0, f.lr)
           /\ \A k \in Nat : \A lr : Holds(h, k, lr) => Holds(Append(h, f), k + 1, lr)
<1> DEFINE g == Append(h, f)
           top == Len(h) + 1
<1>1. /\ g \in Seq(Frame) /\ Len(g) = top /\ Len(h) \in Nat
      /\ g[top] = f /\ \A i \in 1 .. Len(h) : g[i] = h[i]
  BY AppendAt
<1>2. top \in Nat /\ top > Len(h)
  BY <1>1
<1> HIDE DEF g
<1>3. CallsOf(g) = CallsOf(h) \cup {top} /\ \A q \in CallsOf(h) : q \in 1 .. Len(h)
  BY <1>1 DEF CallsOf
<1>4. Holds(g, 0, f.lr)
  <2>1. {i \in CallsOf(g) : i > top} = {}
    BY <1>1, <1>2 DEF CallsOf
  <2>2. Over(g, top) = 0
    BY <2>1, FS_EmptySet DEF Over
  <2> QED BY <1>1, <1>3, <2>2 DEF Holds
<1>5. ASSUME NEW k \in Nat, NEW lr, Holds(h, k, lr) PROVE Holds(g, k + 1, lr)
  <2>1. PICK q \in CallsOf(h) : Over(h, q) = k /\ h[q].lr = lr
    BY <1>5 DEF Holds
  <2> DEFINE S == {i \in CallsOf(h) : i > q}
             T == {i \in CallsOf(g) : i > q}
  <2>2. T = S \cup {top} /\ top \notin S
    BY <1>2, <1>3, <1>1
  <2>3. IsFiniteSet(S)
    BY CallsFinite
  <2>4. Cardinality(S) = k
    BY <2>1 DEF Over
  <2> HIDE DEF S, T
  <2>5. Cardinality(T) = k + 1
    BY <2>2, <2>3, <2>4, FS_AddElement
  <2>6. q \in CallsOf(g) /\ g[q].lr = lr
    BY <1>1, <1>3, <2>1
  <2> QED BY <2>5, <2>6 DEF Holds, Over, T
<1> QED BY <1>4, <1>5 DEF g

\* Dropping the innermost call and all above it moves the others in by one.
LEMMA DropHolds ==
    ASSUME NEW h \in Seq(Frame), NEW m \in CallsOf(h),
           \A q \in CallsOf(h) : q <= m
    PROVE  /\ \A lr : Holds(h, 0, lr) => h[m].lr = lr
           /\ \A k \in Nat : \A lr :
                 Holds(h, k + 1, lr) => Holds(SubSeq(h, 1, m - 1), k, lr)
<1> DEFINE g == SubSeq(h, 1, m - 1)
<1>1. m \in 1 .. Len(h) /\ Len(h) \in Nat
  BY DEF CallsOf
<1>2. /\ g \in Seq(Frame) /\ Len(g) = m - 1
      /\ \A i \in 1 .. m - 1 : g[i] = h[i]
  BY <1>1
<1> HIDE DEF g
<1>3. CallsOf(h) = CallsOf(g) \cup {m} /\ m \notin CallsOf(g)
  BY <1>1, <1>2 DEF CallsOf
<1>4. ASSUME NEW q \in CallsOf(h), q # m
      PROVE  /\ q \in CallsOf(g) /\ q < m /\ g[q] = h[q]
             /\ Over(h, q) = Over(g, q) + 1 /\ Over(g, q) \in Nat
  <2>1. q \in CallsOf(g) /\ q < m /\ g[q] = h[q]
    BY <1>1, <1>2, <1>3, <1>4 DEF CallsOf
  <2> DEFINE S == {i \in CallsOf(g) : i > q}
             T == {i \in CallsOf(h) : i > q}
  <2>2. T = S \cup {m} /\ m \notin S
    BY <1>3, <2>1
  <2>3. IsFiniteSet(S) /\ Cardinality(S) \in Nat
    BY <1>2, CallsFinite
  <2> HIDE DEF S, T
  <2>4. Cardinality(T) = Cardinality(S) + 1
    BY <2>2, <2>3, FS_AddElement
  <2> QED BY <2>1, <2>3, <2>4 DEF S, T, Over
<1>5. {i \in CallsOf(h) : i > m} = {}
  BY <1>1 DEF CallsOf
<1>6. Over(h, m) = 0
  BY <1>5, FS_EmptySet DEF Over
<1>7. ASSUME NEW lr, Holds(h, 0, lr) PROVE h[m].lr = lr
  <2>1. PICK q \in CallsOf(h) : Over(h, q) = 0 /\ h[q].lr = lr
    BY <1>7 DEF Holds
  <2>2. CASE q # m
    BY <1>4, <2>1, <2>2
  <2> QED BY <2>1, <2>2
<1>8. ASSUME NEW k \in Nat, NEW lr, Holds(h, k + 1, lr) PROVE Holds(g, k, lr)
  <2>1. PICK q \in CallsOf(h) : Over(h, q) = k + 1 /\ h[q].lr = lr
    BY <1>8 DEF Holds
  <2>2. q # m
    BY <1>6, <2>1
  <2>3. q \in CallsOf(g) /\ g[q] = h[q] /\ Over(g, q) = k
    BY <1>4, <2>1, <2>2
  <2> QED BY <2>1, <2>3 DEF Holds
<1> QED BY <1>7, <1>8 DEF g

-----------------------------------------------------------------------------
(* Freed code.                                                             *)

\* A frame of emit_code_block that saw a flush.
Guards(f) == f.kind = "emit" /\ f.flushed

\* FramesLive for the frames h under generation g.
Live(h, g) ==
    \A p \in CallsOf(h) : \/ h[p].code \in {Interpreted, g}
                          \/ \E q \in p + 1 .. Len(h) : Guards(h[q])

\* A frame on top takes no guard away.
LEMMA AppendLive ==
    ASSUME NEW h \in Seq(Frame), NEW f \in Frame, NEW g,
           Live(h, g),
           f.kind = "call" => f.code \in {Interpreted, g}
    PROVE  Live(Append(h, f), g)
<1> DEFINE e == Append(h, f)
<1>1. /\ Len(e) = Len(h) + 1 /\ Len(h) \in Nat
      /\ e[Len(h) + 1] = f /\ \A i \in 1 .. Len(h) : e[i] = h[i]
  BY AppendAt
<1> HIDE DEF e
<1>2. ASSUME NEW p \in CallsOf(e)
      PROVE  \/ e[p].code \in {Interpreted, g}
             \/ \E q \in p + 1 .. Len(e) : Guards(e[q])
  <2>1. p \in 1 .. Len(h) + 1 /\ e[p].kind = "call"
    BY <1>1 DEF CallsOf
  <2>2. CASE p = Len(h) + 1
    BY <1>1, <2>1, <2>2
  <2>3. CASE p # Len(h) + 1
    <3>1. p \in CallsOf(h) /\ e[p] = h[p] /\ p \in 1 .. Len(h)
      BY <1>1, <2>1, <2>3 DEF CallsOf
    <3>2. CASE h[p].code \in {Interpreted, g}
      BY <3>1, <3>2
    <3>3. CASE \E q \in p + 1 .. Len(h) : Guards(h[q])
      <4>1. PICK q \in p + 1 .. Len(h) : Guards(h[q])
        BY <3>3
      <4>2. q \in p + 1 .. Len(e) /\ e[q] = h[q]
        BY <1>1, <3>1
      <4> QED BY <4>1, <4>2
    <3> QED BY <3>1, <3>2, <3>3 DEF Live
  <2> QED BY <2>2, <2>3
<1>3. Live(e, g)
  BY <1>2 DEF Live
<1> QED BY <1>3 DEF e

\* A flush leaves a guard above all frames.
LEMMA FlushLive ==
    ASSUME NEW h \in Seq(Frame), NEW f \in Frame, NEW g, Guards(f)
    PROVE  Live(Append(h, f), g)
<1> DEFINE e == Append(h, f)
<1>1. /\ Len(e) = Len(h) + 1 /\ Len(h) \in Nat
      /\ e[Len(h) + 1] = f /\ \A i \in 1 .. Len(h) : e[i] = h[i]
  BY AppendAt
<1> HIDE DEF e
<1>2. ASSUME NEW p \in CallsOf(e) PROVE \E q \in p + 1 .. Len(e) : Guards(e[q])
  <2>1. p \in 1 .. Len(h) + 1 /\ e[p].kind = "call" /\ f.kind = "emit"
    BY <1>1 DEF CallsOf, Guards
  <2>2. p # Len(h) + 1
    BY <1>1, <2>1
  <2>3. Len(h) + 1 \in p + 1 .. Len(e)
    BY <1>1, <2>1, <2>2
  <2> QED BY <1>1, <2>3
<1>3. Live(e, g)
  BY <1>2 DEF Live
<1> QED BY <1>3 DEF e

\* The frames are frames.
LEMMA FrameTypes ==
    /\ \A f \in BOOLEAN : EmitFrame(f) \in Frame /\ EmitFrame(f).kind = "emit"
    /\ Guards(EmitFrame(TRUE))
    /\ \A lr \in Pc : code \in Nat =>
          /\ CallFrame(lr) \in Frame /\ CallFrame(lr).kind = "call"
          /\ CallFrame(lr).lr = lr /\ CallFrame(lr).code = code
  BY DEF EmitFrame, CallFrame, Frame, Guards

\* What every way to reach an entry keeps of the frames it starts above.
LEMMA DispatchKeeps ==
    ASSUME NEW t \in Pc, NEW h \in Seq(Frame),
           gen \in 1 .. MaxGen + 1, Live(h, gen), Dispatch(t, h)
    PROVE  /\ at' = t
           /\ gen' \in 1 .. MaxGen + 1 /\ code' \in {Interpreted, gen'}
           /\ host' \in Seq(Frame) /\ Len(host') <= Len(h) + 1
           /\ Live(host', gen')
           /\ \A k, lr : Holds(h, k, lr) => Holds(host', k, lr)
<1>1. MaxGen \in Nat /\ gen \in Nat /\ Len(h) \in Nat
  BY JitCallsAssumption
<1>2. CASE Hit(t, h)
  BY <1>1, <1>2 DEF Hit
<1>3. CASE Interpret(t, h)
  <2>1. at' = t /\ code' = Interpreted /\ gen' = gen
    BY <1>3 DEF Interpret
  <2>2. host' = Append(h, EmitFrame(FALSE))
    BY <1>3 DEF Interpret
  <2>3. EmitFrame(FALSE) \in Frame /\ EmitFrame(FALSE).kind = "emit"
    BY FrameTypes, Zenon
  <2>4. host' \in Seq(Frame) /\ Len(host') = Len(h) + 1
    BY <2>2, <2>3, AppendAt
  <2>5. Live(host', gen')
    BY <2>1, <2>2, <2>3, AppendLive
  <2>6. \A k, lr : Holds(h, k, lr) => Holds(host', k, lr)
    BY <2>2, <2>3, EmitHolds
  <2> QED BY <1>1, <2>1, <2>4, <2>5, <2>6
<1>4. CASE Compile(t, h)
  <2>1. PICK fl \in BOOLEAN :
            /\ fl => gen <= MaxGen
            /\ at' = t /\ gen' = IF fl THEN gen + 1 ELSE gen
            /\ code' = gen' /\ host' = Append(h, EmitFrame(fl))
    BY <1>4 DEF Compile
  <2>3. EmitFrame(fl) \in Frame /\ EmitFrame(fl).kind = "emit"
    BY FrameTypes, Zenon
  <2>4. host' \in Seq(Frame) /\ Len(host') = Len(h) + 1
    BY <2>1, <2>3, AppendAt
  <2>5. \A k, lr : Holds(h, k, lr) => Holds(host', k, lr)
    BY <2>1, <2>3, EmitHolds
  <2>6. CASE fl
    <3>1. fl = TRUE
      BY <2>6
    <3>2. gen <= MaxGen /\ gen' = gen + 1
      BY <2>1, <2>6
    <3>3. Guards(EmitFrame(fl))
      BY <3>1, FrameTypes, Zenon
    <3>4. Live(host', gen')
      BY <2>1, <2>3, <3>3, FlushLive
    <3> QED BY <1>1, <2>1, <2>4, <2>5, <3>2, <3>4
  <2>7. CASE ~fl
    <3>1. gen' = gen
      BY <2>1, <2>7
    <3>2. Live(host', gen')
      BY <2>1, <2>3, <3>1, AppendLive
    <3> QED BY <1>1, <2>1, <2>4, <2>5, <3>1, <3>2
  <2> QED BY <2>6, <2>7
<1> QED BY <1>2, <1>3, <1>4 DEF Dispatch

-----------------------------------------------------------------------------
(* A host return.                                                          *)

\* Unwinding stops at the topmost call, unless a frame above it saw a flush.
LEMMA UnwoundFacts ==
    ASSUME NEW h \in Seq(Frame)
    PROVE  \/ Unwound(h) = <<>>
           \/ \E m \in 1 .. Len(h) :
                 /\ Unwound(h) = SubSeq(h, 1, m)
                 /\ \A i \in m + 1 .. Len(h) : h[i].kind # "call" /\ ~Guards(h[i])
<1> DEFINE stops == {i \in 1 .. Len(h) : h[i].kind = "call" \/ h[i].flushed}
<1>1. Len(h) \in Nat /\ stops \subseteq 1 .. Len(h)
  OBVIOUS
<1>2. CASE stops = {}
  BY <1>2 DEF Unwound
<1>3. CASE stops # {}
  <2> DEFINE T == {Len(h) - i : i \in stops}
  <2>1. T \subseteq Nat /\ T # {}
    BY <1>1, <1>3
  <2> DEFINE Less == OpToRel(<, Nat)
  <2>2. /\ IsWellFoundedOn(Less, Nat)
        /\ \A x, y \in Nat : x < y => <<x, y>> \in Less
    BY NatLessThanWellFounded DEF OpToRel
  <2> HIDE DEF Less
  <2>3. PICK x \in T : \A y \in T : ~(<<y, x>> \in Less)
    <3>1. T \subseteq Nat /\ T # {} /\ IsWellFoundedOn(Less, Nat)
      BY <2>1, <2>2
    <3> HIDE DEF T
    <3> QED BY ONLY <3>1, WFMin
  <2>4. \A y \in T : x <= y
    <3> SUFFICES ASSUME NEW y \in T PROVE x <= y
      OBVIOUS
    <3>1. x \in Nat /\ y \in Nat
      BY <2>1
    <3>2. ~(y < x)
      BY <3>1, <2>2, <2>3, Zenon
    <3> QED BY <3>1, <3>2
  <2>5. \E i \in stops : \A j \in stops : j <= i
    <3>1. PICK i \in stops : x = Len(h) - i
      OBVIOUS
    <3>2. ASSUME NEW j \in stops PROVE j <= i
      <4>1. Len(h) - j \in T
        OBVIOUS
      <4>2. Len(h) - i <= Len(h) - j
        BY <2>4, <3>1, <4>1
      <4>3. i \in Int /\ j \in Int
        BY <1>1
      <4> HIDE DEF stops, T
      <4> QED BY <1>1, <4>2, <4>3
    <3> QED BY <3>2
  <2> DEFINE m == CHOOSE i \in stops : \A j \in stops : j <= i
  <2>6. m \in stops /\ \A j \in stops : j <= m
    BY <2>5
  <2>7. Unwound(h) = SubSeq(h, 1, m)
    BY <1>3 DEF Unwound
  <2> HIDE DEF m
  <2>8. m \in 1 .. Len(h)
    BY <2>6
  <2>9. ASSUME NEW i \in m + 1 .. Len(h)
        PROVE  h[i].kind # "call" /\ ~Guards(h[i])
    <3>1. i \in 1 .. Len(h) /\ ~(i <= m)
      BY <1>1, <2>8
    <3>2. i \notin stops
      BY <2>6, <3>1
    <3>3. ~(h[i].kind = "call" \/ h[i].flushed)
      BY <3>1, <3>2
    <3> QED BY <3>3 DEF Guards
  <2> QED BY <2>7, <2>8, <2>9
<1> QED BY <1>2, <1>3

\* A matched return leaves, or resumes the innermost call in live code.
LEMMA ReturnKeeps ==
    ASSUME NEW t \in Pc, host \in Seq(Frame), Live(host, gen), Holds(host, 0, t),
           HostReturn(t, Unwound(host))
    PROVE  \/ Exit(t)
           \/ \E m \in CallsOf(host) :
                 /\ \A q \in CallsOf(host) : q <= m
                 /\ pc' = t /\ at' = t
                 /\ gen' = gen /\ code' \in {Interpreted, gen}
                 /\ host' = SubSeq(host, 1, m - 1)
                 /\ Live(host', gen)
<1> SUFFICES ASSUME ~Exit(t)
             PROVE  \E m \in CallsOf(host) :
                       /\ \A q \in CallsOf(host) : q <= m
                       /\ pc' = t /\ at' = t
                       /\ gen' = gen /\ code' \in {Interpreted, gen}
                       /\ host' = SubSeq(host, 1, m - 1)
                       /\ Live(host', gen)
  OBVIOUS
<1> DEFINE u == Unwound(host)
<1>1. /\ u # <<>> /\ Last(u).kind # "emit"
      /\ pc' = t /\ at' = Last(u).lr /\ code' = Last(u).code
      /\ host' = Front(u) /\ gen' = gen
  BY DEF HostReturn
<1>2. PICK m \in 1 .. Len(host) :
          /\ u = SubSeq(host, 1, m)
          /\ \A i \in m + 1 .. Len(host) : host[i].kind # "call" /\ ~Guards(host[i])
  BY <1>1, UnwoundFacts
<1> HIDE DEF u
<1>3. Len(host) \in Nat /\ host[m] \in Frame
  OBVIOUS
<1>4. Len(u) = m /\ u \in Seq(Frame) /\ \A i \in 1 .. m : u[i] = host[i]
  BY <1>2, <1>3
<1>5. Last(u) = host[m]
  BY <1>2, <1>3, <1>4 DEF Last
<1>6. host' = SubSeq(host, 1, m - 1)
  <2>1. host' = SubSeq(u, 1, m - 1)
    BY <1>1, <1>4 DEF Front
  <2>2. SubSeq(u, 1, m - 1) = SubSeq(host, 1, m - 1)
    BY <1>2, <1>3, <1>4
  <2> QED BY <2>1, <2>2
<1>7. m \in CallsOf(host)
  <2>1. host[m].kind = "call"
    BY <1>1, <1>3, <1>5 DEF Frame
  <2> QED BY <2>1 DEF CallsOf
<1>8. ASSUME NEW q \in CallsOf(host) PROVE q <= m
  <2>1. q \in 1 .. Len(host) /\ host[q].kind = "call"
    BY DEF CallsOf
  <2> QED BY <1>2, <1>3, <2>1
<1>9. at' = t
  BY <1>1, <1>5, <1>7, <1>8, DropHolds
<1>10. code' \in {Interpreted, gen}
  BY <1>1, <1>2, <1>5, <1>7 DEF Live
<1>11. Live(host', gen)
  <2> DEFINE g == SubSeq(host, 1, m - 1)
  <2>1. Len(g) = m - 1 /\ \A i \in 1 .. m - 1 : g[i] = host[i]
    BY <1>3
  <2> HIDE DEF g
  <2>2. ASSUME NEW p \in CallsOf(g)
        PROVE  \/ g[p].code \in {Interpreted, gen}
               \/ \E q \in p + 1 .. Len(g) : Guards(g[q])
    <3>1. p \in 1 .. m - 1 /\ p \in CallsOf(host) /\ g[p] = host[p]
      BY <1>3, <2>1 DEF CallsOf
    <3>2. CASE host[p].code \in {Interpreted, gen}
      BY <3>1, <3>2
    <3>3. CASE \E q \in p + 1 .. Len(host) : Guards(host[q])
      <4>1. PICK q \in p + 1 .. Len(host) : Guards(host[q])
        BY <3>3
      <4>2. q # m
        BY <1>7, <4>1 DEF Guards, CallsOf
      <4>3. q \notin m + 1 .. Len(host)
        BY <1>2, <4>1
      <4>4. q \in 1 .. m - 1 /\ q \in p + 1 .. Len(g)
        BY <1>3, <2>1, <3>1, <4>2, <4>3
      <4> QED BY <2>1, <4>1, <4>4
    <3> QED BY <3>1, <3>2, <3>3 DEF Live
  <2>3. Live(g, gen)
    BY <2>2 DEF Live
  <2> QED BY <1>6, <2>3 DEF g
<1> QED BY <1>1, <1>6, <1>7, <1>8, <1>9, <1>10, <1>11

-----------------------------------------------------------------------------
(* The invariant.                                                          *)

\* What the ring st shows below cursor p is what the frames h hold.
Matches(h, st, p) ==
    \A n \in 1 .. Size : Seen(st, p, n) => Holds(h, n - 1, st[Slot(p, n)])

\* CallsInv in the terms of the lemmas.
Parts ==
    /\ TypeOK /\ Marked /\ Live(host, gen)
    /\ Running => /\ Matches(host, stack, ptr)
                  /\ at = pc /\ code \in {Interpreted, gen}
    /\ HostBounded
    /\ at = Out => host = <<>>

LEMMA SameInvariant == CallsInv <=> Parts
<1>1. Live(host, gen) <=> FramesLive
  BY DEF Live, FramesLive, Calls, CallsOf, Guards
<1>2. ASSUME TypeOK PROVE Matches(host, stack, ptr) <=>
          \A n \in 1 .. Size : Visible(n) =>
              \E p \in Calls : Inner(p) = n - 1 /\ host[p].lr = Entry(n)
  <2>1. Size \in Nat /\ ptr \in 0 .. Size - 1
    BY <1>2, JitCallsAssumption DEF TypeOK
  <2>2. \A n \in 1 .. Size : Entry(n) = stack[Slot(ptr, n)]
    BY <2>1, SlotOf DEF Entry
  <2>3. \A n \in 1 .. Size : Visible(n) <=> Seen(stack, ptr, n)
    BY <2>1, <2>2 DEF Visible, Seen
  <2>4. \A p \in Calls : Inner(p) = Over(host, p)
    BY DEF Inner, Over, Calls, CallsOf
  <2>5. Calls = CallsOf(host)
    BY DEF Calls, CallsOf
  <2> QED BY <2>2, <2>3, <2>4, <2>5 DEF Matches, Holds
<1> QED
  BY <1>1, <1>2 DEF CallsInv, Parts, StackMatches, ResumesLiveCode

LEMMA CallsInit == Init => CallsInv
<1> SUFFICES ASSUME Init PROVE Parts
  BY SameInvariant
<1>1. Size \in Nat /\ Size >= 2 /\ MaxGen \in Nat /\ Quantum \in Nat
  BY JitCallsAssumption
<1>2. TypeOK
  BY <1>1 DEF Init, TypeOK, Out, NoPc, Interpreted
<1>3. Marked
  BY <1>1 DEF Init, Marked, NoPc
<1>4. Live(host, gen) /\ HostBounded /\ ~Running /\ host = <<>>
  BY <1>1 DEF Init, Live, CallsOf, HostBounded, Running
<1> QED BY <1>2, <1>3, <1>4 DEF Parts

\* What the invariant says of a state, and the constants.
LEMMA Facts ==
    ASSUME Parts
    PROVE  /\ Size \in Nat /\ Size >= 2 /\ MaxGen \in Nat /\ Quantum \in Nat
           /\ pc \in Pc /\ gen \in 1 .. MaxGen + 1 /\ code \in Nat
           /\ host \in Seq(Frame) /\ Len(host) \in Nat /\ cycles \in Nat
           /\ stack \in [0 .. Size - 1 -> Pc \cup {NoPc}] /\ ptr \in 0 .. Size - 1
           /\ Len(host) <= 2 * cycles + 1
           /\ NoPc \notin Pc /\ Out \notin Pc
  BY JitCallsAssumption DEF Parts, TypeOK, HostBounded, NoPc, Out

\* Cycles pay for frames.
LEMMA Paid ==
    ASSUME NEW l \in Nat, NEW y \in Nat, NEW c \in Nat, c >= 1, NEW q \in Nat,
           l <= 2 * y + 1
    PROVE  /\ l <= 2 * (y + c) /\ l + 1 <= 2 * (y + c)
           /\ y < q => l <= 2 * q /\ l + 1 <= 2 * q
  OBVIOUS

\* Leaving the guest context keeps the invariant, whatever the ring is.
LEMMA ExitKeeps ==
    ASSUME Parts, NEW t \in Pc, Exit(t), UNCHANGED stack,
           ptr' \in 0 .. Size - 1, cycles' \in Nat
    PROVE  Parts'
<1>1. /\ pc' = t /\ at' = Out /\ code' = Interpreted /\ host' = <<>> /\ gen' = gen
      /\ stack' = stack
  BY DEF Exit
<1>2. TypeOK'
  BY <1>1, Facts DEF TypeOK, Interpreted
<1>3. Marked'
  BY <1>1 DEF Parts, Marked
<1>4. Live(host', gen')
  BY <1>1 DEF Live, CallsOf
<1>5. HostBounded'
  <2>1. Quantum \in Nat /\ cycles' \in Nat /\ Len(host') = 0
    BY <1>1, Facts
  <2> DEFINE c == cycles'
             l == Len(host')
  <2> HIDE DEF c, l
  <2>2. l <= 2 * c + 1 /\ l <= 2 * Quantum + 1
    <3>1. c \in Nat /\ l = 0 /\ Quantum \in Nat
      BY <2>1 DEF c, l
    <3> QED BY ONLY <3>1
  <2> QED BY <2>2 DEF HostBounded, c, l
<1> QED BY <1>1, <1>2, <1>3, <1>4, <1>5 DEF Parts, Running

\* Running on keeps it if ring and frames still match and the frames are paid.
LEMMA DispatchStep ==
    ASSUME Parts, NEW t \in Pc, NEW h \in Seq(Frame),
           Live(h, gen), Dispatch(t, h), pc' = t,
           Matches(h, stack', ptr'),
           stack' \in [0 .. Size - 1 -> Pc \cup {NoPc}], ptr' \in 0 .. Size - 1,
           Marked',
           cycles' \in Nat,
           Len(h) <= 2 * cycles', Len(h) <= 2 * Quantum
    PROVE  Parts'
<1>1. /\ at' = t
      /\ gen' \in 1 .. MaxGen + 1 /\ code' \in {Interpreted, gen'}
      /\ host' \in Seq(Frame) /\ Len(host') <= Len(h) + 1
      /\ Live(host', gen')
      /\ \A k, lr : Holds(h, k, lr) => Holds(host', k, lr)
  BY Facts, DispatchKeeps
<1>2. TypeOK'
  <2>1. code' \in 0 .. gen'
    <3>1. MaxGen \in Nat
      BY Facts
    <3>2. gen' \in Nat
      BY <1>1, <3>1
    <3> QED BY <1>1, <3>2 DEF Interpreted
  <2> QED BY <1>1, <2>1 DEF TypeOK
<1>3. Matches(host', stack', ptr')
  BY <1>1 DEF Matches
<1>4. HostBounded'
  <2>1. Len(host') \in Nat /\ Len(h) \in Nat /\ Quantum \in Nat
    <3>1. Quantum \in Nat
      BY Facts
    <3> QED BY <1>1, <3>1
  <2>2. Len(host') <= 2 * cycles' + 1 /\ Len(host') <= 2 * Quantum + 1
    BY <1>1, <2>1
  <2> QED BY <2>2 DEF HostBounded
<1>5. at' # Out
  BY <1>1, Facts
<1> QED BY <1>1, <1>2, <1>3, <1>4, <1>5 DEF Parts, Running

\* A cleared ring shows nothing.
LEMMA ClearMatches ==
    ASSUME Parts, Clear, NEW h
    PROVE  /\ Matches(h, stack', ptr')
           /\ stack' \in [0 .. Size - 1 -> Pc \cup {NoPc}] /\ ptr' \in 0 .. Size - 1
           /\ Marked'
<1>1. ptr' = 0 /\ stack' = [stack EXCEPT ![Size - 1] = NoPc]
  BY DEF Clear
<1>2. /\ stack' \in [0 .. Size - 1 -> Pc \cup {NoPc}] /\ ptr' \in 0 .. Size - 1
      /\ stack'[Size - 1] = NoPc
  BY <1>1, Facts
<1>3. Marked'
  BY <1>2, Facts DEF Marked
<1>4. ASSUME NEW n \in 1 .. Size PROVE ~Seen(stack', ptr', n)
  <2>1. Slot(ptr', 1) = Size - 1 /\ 1 \in 1 .. n
    BY <1>1, Facts DEF Slot
  <2> QED BY <1>2, <2>1 DEF Seen
<1> QED BY <1>2, <1>3, <1>4 DEF Matches

LEMMA EnterStep == ASSUME Parts, Enter PROVE Parts'
<1>1. Clear /\ cycles' = 0 /\ pc' = pc /\ Dispatch(pc, <<>>)
  BY DEF Enter
<1> DEFINE h == <<>>
<1>2. h \in Seq(Frame) /\ Len(h) = 0
  OBVIOUS
<1>3. Live(h, gen)
  BY <1>2 DEF Live, CallsOf
<1>4. Dispatch(pc, h)
  BY <1>1
<1> HIDE DEF h
<1>5. Len(h) <= 2 * cycles' /\ Len(h) <= 2 * Quantum /\ cycles' \in Nat
  BY <1>1, <1>2, Facts
<1>6. pc \in Pc
  BY Facts
<1> QED BY <1>1, <1>2, <1>3, <1>4, <1>5, <1>6, ClearMatches, DispatchStep

LEMMA CallStep ==
    ASSUME Parts, NEW c \in Costs, NEW t \in Pc, NEW lr \in Pc, Call(c, t, lr)
    PROVE  Parts'
<1>1. Running /\ cycles' = cycles + c
  BY DEF Call, Flush
<1>2. c \in Nat /\ c >= 1 /\ cycles' \in Nat
  BY <1>1, Facts, JitCallsAssumption
<1>3. CASE Exit(t) /\ UNCHANGED <<stack, ptr>>
  BY <1>2, <1>3, Facts, ExitKeeps
<1>4. CASE /\ ~Exhausted(c) /\ Push(lr) /\ pc' = t
           /\ Dispatch(t, Append(host, CallFrame(lr)))
  <2> DEFINE f == CallFrame(lr)
             h == Append(host, f)
  <2>1. f \in Frame /\ f.kind = "call" /\ f.lr = lr /\ f.code = code
    BY Facts, FrameTypes
  <2>2. Dispatch(t, h) /\ pc' = t
    BY <1>4
  <2> HIDE DEF f
  <2>3. h \in Seq(Frame) /\ Len(h) = Len(host) + 1
    BY <2>1, Facts, AppendAt
  <2>4. Live(h, gen)
    BY <1>1, <2>1, Facts, AppendLive DEF Parts
  <2>5. /\ Holds(h, 0, lr)
        /\ \A k \in Nat : \A l : Holds(host, k, l) => Holds(h, k + 1, l)
    BY <2>1, Facts, CallHolds
  <2> HIDE DEF h
  <2>6. ptr' = Above(ptr) /\ stack' = [stack EXCEPT ![ptr] = lr, ![Above(ptr)] = NoPc]
    BY <1>4 DEF Push
  <2>7. Above(ptr) \in 0 .. Size - 1
    <3>1. Above(ptr) = IF ptr = Size - 1 THEN 0 ELSE ptr + 1
      BY Facts, SlotOf
    <3> QED BY <3>1, Facts
  <2>8. /\ stack' \in [0 .. Size - 1 -> Pc \cup {NoPc}] /\ ptr' \in 0 .. Size - 1
        /\ Marked'
    BY <2>6, <2>7, Facts DEF Marked
  <2>9. ASSUME NEW n \in 1 .. Size, Seen(stack', ptr', n)
        PROVE  Holds(h, n - 1, stack'[Slot(ptr', n)])
    <3>1. \/ n = 1 /\ stack'[Slot(ptr', n)] = lr
          \/ /\ n - 1 \in 1 .. Size
             /\ Seen(stack, ptr, n - 1)
             /\ stack'[Slot(ptr', n)] = stack[Slot(ptr, n - 1)]
      <4>1. stack \in [0 .. Size - 1 -> Pc \cup {NoPc}] /\ ptr \in 0 .. Size - 1
        BY Facts
      <4>2. stack' = Pushed(stack, ptr, lr) /\ ptr' = Above(ptr)
        BY <2>6 DEF Pushed
      <4> HIDE DEF f, h
      <4>3. Seen(Pushed(stack, ptr, lr), Above(ptr), n)
        BY <2>9, <4>2
      <4>4. \/ n = 1 /\ Pushed(stack, ptr, lr)[Slot(Above(ptr), n)] = lr
            \/ /\ n - 1 \in 1 .. Size
               /\ Seen(stack, ptr, n - 1)
               /\ Pushed(stack, ptr, lr)[Slot(Above(ptr), n)] = stack[Slot(ptr, n - 1)]
        BY <4>1, <4>3, PushSeen
      <4> QED BY <4>2, <4>4
    <3>2. CASE n = 1 /\ stack'[Slot(ptr', n)] = lr
      BY <2>5, <3>2
    <3>3. CASE /\ n - 1 \in 1 .. Size
               /\ Seen(stack, ptr, n - 1)
               /\ stack'[Slot(ptr', n)] = stack[Slot(ptr, n - 1)]
      <4>1. Holds(host, (n - 1) - 1, stack[Slot(ptr, n - 1)])
        BY <1>1, <3>3 DEF Parts, Matches
      <4>2. (n - 1) - 1 \in Nat /\ ((n - 1) - 1) + 1 = n - 1
        BY <3>3
      <4>3. Holds(h, ((n - 1) - 1) + 1, stack[Slot(ptr, n - 1)])
        BY <2>5, <4>1, <4>2
      <4> QED BY <3>3, <4>2, <4>3
    <3> QED BY <3>1, <3>2, <3>3
  <2>10. Matches(h, stack', ptr')
    BY <2>9 DEF Matches
  <2>11. Len(h) <= 2 * cycles' /\ Len(h) <= 2 * Quantum
    <3>1. /\ Len(host) \in Nat /\ cycles \in Nat /\ Quantum \in Nat
          /\ Len(host) <= 2 * cycles + 1
      BY Facts
    <3>2. cycles < Quantum
      BY <1>2, <1>4, <3>1 DEF Exhausted
    <3> QED BY <1>1, <2>3, <1>2, <3>1, <3>2, Paid
  <2> QED BY <1>2, <2>2, <2>3, <2>4, <2>8, <2>10, <2>11, DispatchStep
<1> QED BY <1>3, <1>4 DEF Call

LEMMA JumpStep ==
    ASSUME Parts, NEW c \in Costs, NEW t \in Pc, Jump(c, t)
    PROVE  Parts'
<1>1. Running /\ cycles' = cycles + c /\ stack' = stack /\ ptr' = ptr
  BY DEF Jump, Flush
<1>2. c \in Nat /\ c >= 1 /\ cycles' \in Nat
  BY <1>1, Facts, JitCallsAssumption
<1>3. CASE Exit(t)
  BY <1>1, <1>2, <1>3, Facts, ExitKeeps
<1>4. /\ Matches(host, stack', ptr') /\ Marked' /\ Live(host, gen)
      /\ stack' \in [0 .. Size - 1 -> Pc \cup {NoPc}] /\ ptr' \in 0 .. Size - 1
  BY <1>1, Facts DEF Parts, Marked
<1>5. CASE ~Exhausted(c) /\ pc' = t /\ Dispatch(t, host)
  <2>1. Len(host) <= 2 * cycles' /\ Len(host) <= 2 * Quantum
    <3>1. /\ Len(host) \in Nat /\ cycles \in Nat /\ Quantum \in Nat
          /\ Len(host) <= 2 * cycles + 1
      BY Facts
    <3>2. cycles < Quantum
      BY <1>2, <1>5, <3>1 DEF Exhausted
    <3> QED BY <1>1, <1>2, <3>1, <3>2, Paid
  <2> QED BY <1>2, <1>4, <1>5, <2>1, Facts, DispatchStep
<1>6. CASE /\ ~Exhausted(c) /\ code = Interpreted
           /\ pc' = t /\ at' = t
           /\ UNCHANGED <<code, gen, host>>
  <2>1. TypeOK'
    BY <1>2, <1>4, <1>6, Facts DEF TypeOK, Interpreted
  <2>2. HostBounded'
    <3>1. /\ Len(host) <= 2 * cycles + 1 /\ Len(host) <= 2 * Quantum + 1
          /\ Len(host) \in Nat /\ cycles \in Nat /\ host' = host
      BY <1>6, Facts DEF Parts, HostBounded
    <3>2. Len(host') <= 2 * cycles' + 1 /\ Len(host') <= 2 * Quantum + 1
      BY <1>1, <1>2, <3>1
    <3> QED BY <3>2 DEF HostBounded
  <2>3. at' # Out
    BY <1>6, Facts
  <2> QED BY <1>4, <1>6, <2>1, <2>2, <2>3 DEF Parts, Running
<1> QED BY <1>3, <1>5, <1>6 DEF Jump

LEMMA ReturnStep ==
    ASSUME Parts, NEW c \in Costs, NEW t \in Pc, Return(c, t)
    PROVE  Parts'
<1>1. Running /\ cycles' = cycles + c /\ stack' = stack
  BY DEF Return, Flush
<1>2. c \in Nat /\ c >= 1 /\ cycles' \in Nat
  BY <1>1, Facts, JitCallsAssumption
<1>3. Below(ptr) = Slot(ptr, 1) /\ Slot(ptr, 1) \in 0 .. Size - 1
  <2>1. Below(ptr) = Slot(ptr, 1)
    BY Facts, SlotOf
  <2> QED BY <2>1, Facts, SMTT(30) DEF Slot
<1>4. ptr' \in 0 .. Size - 1
  BY <1>3, Facts DEF Return
<1>5. CASE Exit(t)
  BY <1>1, <1>2, <1>4, <1>5, ExitKeeps
<1>6. CASE ~Exit(t)
  <2>1. ptr' = Slot(ptr, 1) /\ stack[Slot(ptr, 1)] = t /\ HostReturn(t, Unwound(host))
    BY <1>3, <1>6 DEF Return
  <2>2. stack[Slot(ptr, 1)] # NoPc
    BY <2>1, Facts
  <2>3. Holds(host, 0, t)
    <3>1. 1 \in 1 .. Size /\ Seen(stack, ptr, 1)
      BY <2>2, Facts DEF Seen
    <3>2. Holds(host, 1 - 1, stack[Slot(ptr, 1)])
      BY <1>1, <3>1 DEF Parts, Matches
    <3> QED BY <2>1, <3>2
  <2>4. PICK m \in CallsOf(host) :
            /\ \A q \in CallsOf(host) : q <= m
            /\ pc' = t /\ at' = t
            /\ gen' = gen /\ code' \in {Interpreted, gen}
            /\ host' = SubSeq(host, 1, m - 1)
            /\ Live(host', gen)
    BY <1>6, <2>1, <2>3, Facts, ReturnKeeps DEF Parts
  <2>5. \A k \in Nat : \A l : Holds(host, k + 1, l) => Holds(host', k, l)
    BY <2>4, Facts, DropHolds
  <2>6. ASSUME NEW n \in 1 .. Size, Seen(stack', ptr', n)
        PROVE  Holds(host', n - 1, stack'[Slot(ptr', n)])
    <3>1. \E j \in 0 .. Size - 1 : stack[j] = NoPc
      BY DEF Parts, Marked
    <3>2. /\ n + 1 \in 1 .. Size /\ Seen(stack, ptr, n + 1)
          /\ stack[Slot(ptr', n)] = stack[Slot(ptr, n + 1)]
      BY <1>1, <2>1, <2>2, <2>6, <3>1, Facts, PopSeen
    <3>3. Holds(host, (n + 1) - 1, stack[Slot(ptr, n + 1)])
      BY <1>1, <3>2 DEF Parts, Matches
    <3>4. n - 1 \in Nat /\ (n + 1) - 1 = (n - 1) + 1
      OBVIOUS
    <3>5. Holds(host, (n - 1) + 1, stack[Slot(ptr, n + 1)])
      BY <3>3, <3>4
    <3> QED BY <1>1, <2>5, <3>2, <3>4, <3>5
  <2>7. Matches(host', stack', ptr')
    BY <2>6 DEF Matches
  <2>8. m \in 1 .. Len(host) /\ host' \in Seq(Frame) /\ Len(host') = m - 1
    <3>1. m \in 1 .. Len(host) /\ host \in Seq(Frame) /\ Len(host) \in Nat
      BY <2>4, Facts DEF CallsOf
    <3> QED BY <2>4, <3>1
  <2>9. TypeOK'
    <3>1. code' \in 0 .. gen' /\ gen' \in 1 .. MaxGen + 1
      BY <2>4, Facts DEF Interpreted
    <3>2. stack' \in [0 .. Size - 1 -> Pc \cup {NoPc}]
      BY <1>1, Facts
    <3> QED BY <1>2, <1>4, <2>4, <2>8, <3>1, <3>2 DEF TypeOK
  <2>10. HostBounded'
    <3>1. Len(host') <= Len(host) /\ Len(host') \in Nat
      BY <2>8, Facts
    <3>2. /\ Len(host) <= 2 * cycles + 1 /\ Len(host) <= 2 * Quantum + 1
          /\ Len(host) \in Nat /\ cycles \in Nat /\ Quantum \in Nat
      BY Facts DEF Parts, HostBounded
    <3>3. Len(host') <= 2 * cycles' + 1 /\ Len(host') <= 2 * Quantum + 1
      BY <1>1, <1>2, <3>1, <3>2
    <3> QED BY <3>3 DEF HostBounded
  <2>11. Marked' /\ at' # Out
    BY <1>1, <2>4, Facts DEF Parts, Marked
  <2> QED BY <2>4, <2>7, <2>9, <2>10, <2>11 DEF Parts, Running
<1> QED BY <1>5, <1>6

LEMMA UninterruptStep ==
    ASSUME Parts, NEW c \in Costs, NEW t \in Pc, Uninterrupt(c, t)
    PROVE  Parts'
<1>1. Running /\ cycles < Quantum /\ cycles' = cycles + c
  BY DEF Uninterrupt, Flush
<1>2. c \in Nat /\ c >= 1 /\ cycles' \in Nat
  BY <1>1, Facts, JitCallsAssumption
<1>3. CASE Exit(t) /\ UNCHANGED <<stack, ptr>>
  BY <1>2, <1>3, Facts, ExitKeeps
<1>4. CASE Clear /\ pc' = t /\ Dispatch(t, Append(host, EmitFrame(FALSE)))
  <2> DEFINE f == EmitFrame(FALSE)
             h == Append(host, f)
  <2>1. f \in Frame /\ f.kind = "emit"
    BY FrameTypes, Zenon
  <2>2. Dispatch(t, h)
    BY <1>4
  <2> HIDE DEF f
  <2>3. h \in Seq(Frame) /\ Len(h) = Len(host) + 1
    BY <2>1, Facts, AppendAt
  <2>4. Live(h, gen)
    BY <2>1, Facts, AppendLive DEF Parts
  <2> HIDE DEF h
  <2>5. Len(h) <= 2 * cycles' /\ Len(h) <= 2 * Quantum
    <3>1. /\ Len(host) \in Nat /\ cycles \in Nat /\ Quantum \in Nat
          /\ Len(host) <= 2 * cycles + 1
      BY Facts
    <3>2. cycles < Quantum
      BY <1>1
    <3> QED BY <1>1, <2>3, <1>2, <3>1, <3>2, Paid
  <2> QED BY <1>2, <1>4, <2>2, <2>3, <2>4, <2>5, ClearMatches, DispatchStep
<1> QED BY <1>3, <1>4 DEF Uninterrupt

LEMMA CallsStep == CallsInv /\ [Next]_vars => CallsInv'
<1>1. ASSUME Parts, Next PROVE Parts'
  <2>1. CASE Enter
    BY <1>1, <2>1, EnterStep
  <2>2. ASSUME NEW c \in Costs, NEW t \in Pc, Jump(c, t) PROVE Parts'
    BY <1>1, <2>2, JumpStep
  <2>3. ASSUME NEW c \in Costs, NEW t \in Pc, Return(c, t) PROVE Parts'
    BY <1>1, <2>3, ReturnStep
  <2>4. ASSUME NEW c \in Costs, NEW t \in Pc, Uninterrupt(c, t) PROVE Parts'
    BY <1>1, <2>4, UninterruptStep
  <2>5. ASSUME NEW c \in Costs, NEW t \in Pc, NEW lr \in Pc, Call(c, t, lr)
        PROVE  Parts'
    BY <1>1, <2>5, CallStep
  <2>6. ASSUME NEW t \in Pc, Breakout(t) PROVE Parts'
    BY <1>1, <2>6, Facts, ExitKeeps DEF Breakout
  <2> QED BY <1>1, <2>1, <2>2, <2>3, <2>4, <2>5, <2>6 DEF Next
<1>2. ASSUME Parts, UNCHANGED vars PROVE Parts'
  BY <1>2 DEF Parts, TypeOK, Marked, Running, HostBounded, vars
<1>3. CallsInv' <=> Parts'
  BY SameInvariant, PTL
<1> QED BY <1>1, <1>2, <1>3, SameInvariant

\* In every execution ring and host stack agree: CallsInv is an invariant.
THEOREM CallsInvariant == Spec => []CallsInv
  BY CallsInit, CallsStep, PTL DEF Spec

\* The return stack never promises a caller that the host stack does not have,
\* for every size of the ring (push_return_stack, branch_lr).
THEOREM ReturnStackMatches == Spec => []StackMatches
<1>1. CallsInv => StackMatches
  BY DEF CallsInv
<1> QED BY <1>1, CallsInvariant, PTL

\* A host return ends where the guest returned to, in code that was not freed
\* (branch_lr, emit_code_block_internal).
THEOREM ReturnsIntoLiveCode == Spec => []ResumesLiveCode
<1>1. CallsInv => ResumesLiveCode
  BY DEF CallsInv
<1> QED BY <1>1, CallsInvariant, PTL

\* The host stack never holds more than two frames per cycle of the quantum and
\* the first one (flush_cycles, check_scheduler).
THEOREM HostStackBounded == Spec => []HostBounded
<1>1. CallsInv => HostBounded
  BY DEF CallsInv
<1> QED BY <1>1, CallsInvariant, PTL
=============================================================================
