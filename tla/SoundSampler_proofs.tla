------------------------- MODULE SoundSampler_proofs -------------------------
(***************************************************************************)
(* The order of the samples, for any buffer size, settings, number of      *)
(* samples, menu visits and games; and that the limiter at normal speed    *)
(* drops none of them.                                                     *)
(***************************************************************************)
EXTENDS SoundSampler, SequenceTheorems, TLAPS

\* The two queues.
LEMMA QueueFacts ==
    /\ \A q \in Queue : Other(q) \in Queue /\ Other(q) # q /\ Other(Other(q)) = q
    /\ \A q, p \in Queue : p = q \/ p = Other(q)
    /\ 0 \in Queue /\ 1 \in Queue
  BY DEF Queue, Other

\* The frame limiter's settings only decide how many samples fill a buffer.
LEMMA LimitPositive == ASSUME NEW f \in Nat PROVE SampleLimit(f) \in Nat /\ SampleLimit(f) >= BUF
  BY BufAssumption DEF SampleLimit

\* A queue after a sample is stored in it.
LEMMA StoreSeq ==
    ASSUME TypeOK, NEW q \in Queue
    PROVE  /\ Store(q) \in Seq(0 .. MaxSamples)
           /\ size[q] >= BUF => Store(q) = data[q]
           /\ size[q] < BUF =>
                 /\ Len(Store(q)) = Len(data[q]) + 1
                 /\ \A i \in 1 .. Len(data[q]) : Store(q)[i] = data[q][i]
                 /\ Store(q)[Len(data[q]) + 1] = pushed
<1>1. data[q] \in Seq(0 .. MaxSamples) /\ pushed \in 0 .. MaxSamples /\ size[q] \in Nat
  BY DEF TypeOK
<1>2. CASE size[q] < BUF
  <2>1. Store(q) = Append(data[q], pushed) /\ ~(size[q] >= BUF)
    BY <1>1, <1>2, BufAssumption DEF Store
  <2>2. /\ Append(data[q], pushed) \in Seq(0 .. MaxSamples)
        /\ Len(Append(data[q], pushed)) = Len(data[q]) + 1
        /\ \A i \in 1 .. Len(data[q]) : Append(data[q], pushed)[i] = data[q][i]
        /\ Append(data[q], pushed)[Len(data[q]) + 1] = pushed
    BY <1>1, AppendProperties
  <2> QED BY <1>2, <2>1, <2>2
<1>3. CASE ~(size[q] < BUF)
  BY <1>1, <1>3, BufAssumption DEF Store
<1> QED BY <1>2, <1>3

\* The last sample of a queue.
LEMMA LastSample ==
    ASSUME TypeOK, NEW q \in Queue, data[q] # <<>>
    PROVE  /\ Len(data[q]) \in Nat \ {0}
           /\ data[q][Len(data[q])] \in 0 .. MaxSamples
<1>1. data[q] \in Seq(0 .. MaxSamples)
  BY DEF TypeOK
<1>2. Len(data[q]) \in Nat \ {0}
  BY <1>1, EmptySeq
<1>3. Len(data[q]) \in 1 .. Len(data[q])
  BY <1>2
<1>4. data[q][Len(data[q])] \in 0 .. MaxSamples
  BY <1>1, <1>3, ElementOfSeq
<1> QED BY <1>2, <1>4

\* An emptied queue.
LEMMA NoSamples == <<>> \in Seq(0 .. MaxSamples) /\ Len(<<>>) = 0
  BY EmptySeq

\* Every step of the three threads keeps the types.
LEMMA TypeStep == TypeOK /\ [Next]_vars => TypeOK'
<1> SUFFICES ASSUME TypeOK, [Next]_vars PROVE TypeOK'
  OBVIOUS
<1> USE DEF TypeOK, queueVars, settingVars, mainVars, cpuVars
<1>1. CASE SampleEvent
  BY <1>1, BoundsAssumption DEF SampleEvent
<1>2. CASE PushLock
  BY <1>2 DEF PushLock
<1>3. CASE PushAppend
  <2>1. Store(busy_queue) \in Seq(0 .. MaxSamples)
    BY StoreSeq
  <2>2. /\ data' \in [Queue -> Seq(0 .. MaxSamples)] /\ size' \in [Queue -> Nat]
    BY <1>3, <2>1 DEF PushAppend
  <2> QED BY <1>3, <2>2 DEF PushAppend
<1>4. CASE PushSignal
  BY <1>4 DEF PushSignal, Signalled
<1>5. CASE PushFull
  <2>1. Other(busy_queue) \in Queue
    BY QueueFacts
  <2>2. data' \in [Queue -> Seq(0 .. MaxSamples)] /\ size' \in [Queue -> Nat]
    <3>1. CASE UNCHANGED <<data, size>>
      BY <3>1
    <3>2. CASE /\ data' = [data EXCEPT ![Other(busy_queue)] = <<>>]
               /\ size' = [size EXCEPT ![Other(busy_queue)] = 0]
      BY <2>1, <3>2, NoSamples
    <3> QED BY <1>5, <3>1, <3>2 DEF PushFull
  <2>3. busy_queue' \in Queue /\ ready_queue' \in Queue /\ waiting' \in BOOLEAN
    BY <1>5, <2>1 DEF PushFull
  <2>4. cpuPc = "full" /\ cpuPc' \in {"park", "run"} /\ lock' = "free"
    BY <1>5 DEF PushFull
  <2>5. UNCHANGED <<can_sample, token, settingVars, pushed, fl, st, audioPc, heard, mainVars>>
    BY <1>5 DEF PushFull
  <2> QED BY <2>2, <2>3, <2>4, <2>5
<1>6. CASE Park
  BY <1>6 DEF Park
<1>7. CASE ConsumeStart
  BY <1>7 DEF ConsumeStart
<1>8. CASE ConsumeWait \/ ConsumeTimeout
  BY <1>8 DEF ConsumeWait, ConsumeTimeout
<1>9. CASE ConsumeLock
  BY <1>9 DEF ConsumeLock
<1>10. CASE ConsumeTake
  <2>1. heard' \in 0 .. MaxSamples
    BY <1>10, LastSample DEF ConsumeTake
  <2> QED BY <1>10, <2>1, NoSamples DEF ConsumeTake, BusyAfterTake, ReadyAfterTake
<1>11. ASSUME NEW f \in FrameLimits, SetFramelimit(f) PROVE TypeOK'
  BY <1>11 DEF SetFramelimit
<1>12. ASSUME NEW f \in FrameLimits, NEW s \in Stretching, MenuSettings(f, s) PROVE TypeOK'
  BY <1>12 DEF MenuSettings
<1>13. CASE MenuUnpark
  BY <1>13 DEF MenuUnpark, Unparked
<1>14. CASE NewGame
  <2>1. 0 \in Queue
    BY QueueFacts
  <2>2. /\ cpuPc = "run" /\ audioPc = "start" /\ game' = game + 1 /\ lock' = "free"
        /\ busy_queue' = 0 /\ ready_queue' = 0 /\ waiting' = FALSE
        /\ can_sample' = FALSE /\ token' = FALSE
        /\ UNCHANGED <<data, size, settingVars, cpuVars, audioPc, heard, mainPc, menus>>
    BY <1>14 DEF NewGame
  <2>3. game' \in Nat \ {0}
    BY <2>2
  <2>4. lock' \in {"free", "cpu", "audio"} /\ lock' # "cpu" /\ lock' # "audio"
    BY <2>2
  <2>5. cpuPc' = "run" /\ audioPc' = "start"
    BY <2>2
  <2>6. waiting' \in BOOLEAN /\ can_sample' \in BOOLEAN /\ token' \in BOOLEAN
    BY <2>2
  <2> QED BY <2>1, <2>2, <2>3, <2>4, <2>5, <2>6
<1>15. CASE UNCHANGED vars
  BY <1>15 DEF vars
<1> QED BY <1>1, <1>2, <1>3, <1>4, <1>5, <1>6, <1>7, <1>8, <1>9, <1>10, <1>11, <1>12, <1>13,
          <1>14, <1>15 DEF Next, Cpu, Audio, Main

\* The session starts with empty queues and the lock free.
LEMMA TypeInit == Init => TypeOK
  BY BoundsAssumption, QueueFacts, NoSamples DEF Init, TypeOK

-----------------------------------------------------------------------------
(* The order of the samples.                                               *)

\* A step that leaves the queues and what was heard alone.
LEMMA OrderQuiet ==
    ASSUME OrderInv, TypeOK', UNCHANGED <<data, busy_queue, ready_queue, heard>>,
           Counted' = Counted
    PROVE  OrderInv'
<1>1. /\ \A q \in Queue : Samples(q)' = Samples(q)
      /\ Samples(ready_queue)' = Samples(ready_queue)
      /\ Samples(busy_queue)' = Samples(busy_queue)
  BY DEF Samples
<1> QED BY <1>1 DEF OrderInv

\* Storing a sample: it is newer than everything stored or heard.
LEMMA OrderAppend == OrderInv /\ TypeOK' /\ PushAppend => OrderInv'
<1> SUFFICES ASSUME OrderInv, TypeOK', PushAppend PROVE OrderInv'
  OBVIOUS
<1> DEFINE b == busy_queue
<1>1. /\ TypeOK /\ b \in Queue /\ pushed \in Nat /\ heard \in Nat /\ cpuPc = "append"
      /\ Counted = pushed - 1 /\ data[b] \in Seq(0 .. MaxSamples) /\ Len(data[b]) \in Nat
      /\ UNCHANGED <<busy_queue, ready_queue, heard, pushed>>
      /\ data' = [data EXCEPT ![b] = Store(b)]
  BY DEF OrderInv, TypeOK, PushAppend, Counted
<1>2. Counted' = pushed
  BY <1>1 DEF PushAppend, Counted
<1>3. data'[b] = Store(b) /\ \A q \in Queue \ {b} : data'[q] = data[q]
  BY <1>1 DEF TypeOK
<1>4. /\ \A x \in Samples(b) : x < pushed
      /\ \A q \in Queue : \A x \in Samples(q) : x < pushed /\ x \in Nat
      /\ heard < pushed
  <2>1. \A q \in Queue : \A i \in 1 .. Len(data[q]) : data[q][i] \in 0 .. MaxSamples
    BY <1>1, ElementOfSeq DEF TypeOK
  <2>2. \A q \in Queue : \A x \in Samples(q) : x <= pushed - 1 /\ x \in Nat
    BY <1>1, <2>1 DEF OrderInv, Samples
  <2>3. heard < pushed
    BY <1>1 DEF OrderInv
  <2> QED BY <1>1, <2>2, <2>3
<1>5. /\ \A i, j \in 1 .. Len(Store(b)) : i < j => Store(b)[i] < Store(b)[j]
      /\ \A x \in {Store(b)[i] : i \in 1 .. Len(Store(b))} : x \in Samples(b) \cup {pushed}
  <2>0. \A i \in 1 .. Len(data[b]) : data[b][i] < pushed
    BY <1>4 DEF Samples
  <2>1. CASE size[b] < BUF
    <3>1. /\ Len(Store(b)) = Len(data[b]) + 1
          /\ \A i \in 1 .. Len(data[b]) : Store(b)[i] = data[b][i]
          /\ Store(b)[Len(data[b]) + 1] = pushed
      BY <1>1, <2>1, StoreSeq
    <3>2. \A i, j \in 1 .. Len(data[b]) : i < j => data[b][i] < data[b][j]
      BY <1>1 DEF OrderInv
    <3> HIDE DEF b
    <3>3. ASSUME NEW i \in 1 .. Len(Store(b)), NEW j \in 1 .. Len(Store(b)), i < j
          PROVE  Store(b)[i] < Store(b)[j]
      <4>1. i \in 1 .. Len(data[b])
        BY <1>1, <3>1, <3>3
      <4>2. CASE j = Len(data[b]) + 1
        BY <2>0, <3>1, <4>1, <4>2
      <4>3. CASE j \in 1 .. Len(data[b])
        BY <3>1, <3>2, <3>3, <4>1, <4>3
      <4> QED BY <1>1, <3>1, <4>2, <4>3
    <3>4. ASSUME NEW i \in 1 .. Len(Store(b))
          PROVE  Store(b)[i] \in Samples(b) \cup {pushed}
      <4>1. i = Len(data[b]) + 1 \/ i \in 1 .. Len(data[b])
        BY <1>1, <3>1
      <4> QED BY <3>1, <4>1 DEF Samples
    <3> QED BY <3>3, <3>4
  <2>2. CASE ~(size[b] < BUF)
    <3>1. Store(b) = data[b]
      BY <1>1, <2>2 DEF Store
    <3> QED BY <1>1, <3>1 DEF OrderInv, Samples
  <2> QED BY <2>1, <2>2
<1>6. /\ \A x \in Samples(b)' : x \in Samples(b) \cup {pushed}
      /\ \A q \in Queue \ {b} : Samples(q)' = Samples(q)
  <2>1. Samples(b)' = {data'[b][i] : i \in 1 .. Len(data'[b])}
    BY <1>1 DEF Samples
  <2>2. \A x \in Samples(b)' : x \in Samples(b) \cup {pushed}
    BY <1>3, <1>5, <2>1
  <2>3. \A q \in Queue \ {b} : Samples(q)' = Samples(q)
    BY <1>3 DEF Samples
  <2> QED BY <2>2, <2>3
<1>7. \A q \in Queue : \A i, j \in 1 .. Len(data'[q]) : i < j => data'[q][i] < data'[q][j]
  <2> TAKE q \in Queue
  <2>1. CASE q = b
    BY <1>3, <1>5, <2>1
  <2>2. CASE q # b
    BY <1>3, <2>2 DEF OrderInv
  <2> QED BY <2>1, <2>2
<1>8. \A q \in Queue : \A x \in Samples(q)' : x <= pushed
  BY <1>1, <1>4, <1>6
<1>9. \A x \in Samples(ready_queue)' : x > heard
  BY <1>1, <1>4, <1>6 DEF OrderInv, TypeOK
<1>10. busy_queue # ready_queue =>
          \A x \in Samples(b)' : x > heard /\ \A y \in Samples(ready_queue)' : y < x
  BY <1>1, <1>4, <1>6 DEF OrderInv, TypeOK
<1>11. busy_queue = 1 /\ ready_queue = 1 => data'[0] = <<>>
  BY <1>3, QueueFacts DEF OrderInv
<1>12. heard' <= Counted' /\ \A q \in Queue : \A x \in Samples(q)' : x <= Counted'
  BY <1>1, <1>2, <1>4, <1>8
<1> QED BY <1>1, <1>7, <1>9, <1>10, <1>11, <1>12 DEF OrderInv

\* Swapping the queues empties the one that is filled next.
LEMMA OrderSwap == OrderInv /\ TypeOK' /\ PushFull => OrderInv'
<1> SUFFICES ASSUME OrderInv, TypeOK', PushFull PROVE OrderInv'
  OBVIOUS
<1>1. Counted' = Counted
  BY DEF PushFull, Counted
<1>2. CASE UNCHANGED queueVars
  BY <1>1, <1>2, OrderQuiet DEF PushFull, queueVars
<1>3. CASE /\ data' = [data EXCEPT ![Other(busy_queue)] = <<>>]
           /\ ready_queue' = busy_queue /\ busy_queue' = Other(busy_queue)
  <2> DEFINE b == busy_queue
             o == Other(busy_queue)
  <2>1. /\ b \in Queue /\ o \in Queue /\ o # b /\ \A q \in Queue : q = b \/ q = o
        /\ data \in [Queue -> Seq(0 .. MaxSamples)] /\ heard' = heard
    BY <1>3, QueueFacts DEF OrderInv, TypeOK, PushFull
  <2>2. data'[o] = <<>> /\ data'[b] = data[b] /\ Len(<<>>) = 0
    BY <1>3, <2>1, NoSamples
  <2> HIDE DEF b, o
  <2>3. /\ {data'[o][i] : i \in 1 .. Len(data'[o])} = {}
        /\ {data'[b][i] : i \in 1 .. Len(data'[b])} = Samples(b)
    BY <2>2 DEF Samples
  <2>4. ready_queue' = b /\ busy_queue' = o /\ \A x \in Samples(b) : x > heard
    BY <1>3, <2>1 DEF OrderInv, b, o
  <2>5. \A q \in Queue : \A i, j \in 1 .. Len(data'[q]) : i < j => data'[q][i] < data'[q][j]
    <3> TAKE q \in Queue
    <3>1. CASE q = o
      BY <2>2, <3>1
    <3>2. CASE q = b
      BY <2>1, <2>2, <3>2 DEF OrderInv
    <3> QED BY <2>1, <3>1, <3>2
  <2>6. \A q \in Queue : \A x \in Samples(q)' : x <= Counted
    BY <2>1, <2>3 DEF OrderInv, Samples
  <2>7. Samples(ready_queue)' = Samples(b) /\ Samples(busy_queue)' = {}
    BY <2>3, <2>4 DEF Samples
  <2> QED BY <1>1, <2>1, <2>4, <2>5, <2>6, <2>7 DEF OrderInv
<1> QED BY <1>2, <1>3 DEF PushFull

\* Taking the ready queue: what is left is newer than its last sample.
LEMMA OrderTake == OrderInv /\ TypeOK' /\ ConsumeTake => OrderInv'
<1> SUFFICES ASSUME OrderInv, TypeOK', ConsumeTake PROVE OrderInv'
  OBVIOUS
<1> DEFINE b == busy_queue
           r == ready_queue
<1>1. /\ TypeOK /\ b \in Queue /\ r \in Queue /\ \A q \in Queue : q = r \/ q = Other(r)
      /\ data \in [Queue -> Seq(0 .. MaxSamples)] /\ heard \in Nat
      /\ data' = [data EXCEPT ![r] = <<>>] /\ Len(<<>>) = 0
      /\ ready_queue' = b /\ busy_queue' \in {b, r} /\ (~waiting => busy_queue' = b)
      /\ Counted' = Counted
  BY QueueFacts, NoSamples
  DEF OrderInv, TypeOK, ConsumeTake, BusyAfterTake, ReadyAfterTake, Counted, cpuVars
<1>2. data'[r] = <<>> /\ \A q \in Queue \ {r} : data'[q] = data[q]
  BY <1>1
<1>3. /\ {data'[r][i] : i \in 1 .. Len(data'[r])} = {}
      /\ \A q \in Queue \ {r} : {data'[q][i] : i \in 1 .. Len(data'[q])} = Samples(q)
  BY <1>1, <1>2 DEF Samples
<1>4. \/ heard' = heard
      \/ heard' \in Samples(r) /\ heard' \in Nat
  <2>1. CASE data[r] = <<>>
    BY <2>1 DEF ConsumeTake
  <2>2. CASE data[r] # <<>>
    <3>1. heard' = data[r][Len(data[r])]
      BY <2>2 DEF ConsumeTake
    <3>2. Len(data[r]) \in Nat \ {0} /\ heard' \in 0 .. MaxSamples
      BY <1>1, <2>2, <3>1, LastSample
    <3> QED BY <3>1, <3>2 DEF Samples
  <2> QED BY <2>1, <2>2
<1>5. heard' <= Counted
  BY <1>1, <1>4 DEF OrderInv
<1>6. b # r => \A x \in Samples(b) : x > heard'
  BY <1>1, <1>4 DEF OrderInv
<1> HIDE DEF b, r
<1>7. \A q \in Queue : \A i, j \in 1 .. Len(data'[q]) : i < j => data'[q][i] < data'[q][j]
  BY <1>1, <1>2 DEF OrderInv
<1>8. \A q \in Queue : \A x \in Samples(q)' : x <= Counted'
  BY <1>1, <1>3 DEF OrderInv, Samples
<1>9. \A x \in Samples(ready_queue)' : x > heard'
  <2>1. Samples(ready_queue)' = {data'[b][i] : i \in 1 .. Len(data'[b])}
    BY <1>1 DEF Samples
  <2> QED BY <1>1, <1>3, <1>6, <2>1
<1>10. busy_queue' # ready_queue' => Samples(busy_queue)' = {}
  <2>1. busy_queue' # ready_queue' => busy_queue' = r
    BY <1>1
  <2> QED BY <1>3, <2>1 DEF Samples
<1>11. busy_queue' = 1 /\ ready_queue' = 1 => data'[0] = <<>>
  BY <1>1, <1>2, QueueFacts DEF OrderInv, b, r, Queue
<1> QED BY <1>1, <1>5, <1>7, <1>8, <1>9, <1>10, <1>11 DEF OrderInv

\* A new game starts on queue 0, whose samples are newer than those heard.
LEMMA OrderNewGame == OrderInv /\ TypeOK' /\ NewGame => OrderInv'
<1> SUFFICES ASSUME OrderInv, TypeOK', NewGame PROVE OrderInv'
  OBVIOUS
<1>1. /\ UNCHANGED <<data, heard>> /\ Counted' = Counted
      /\ busy_queue' = 0 /\ ready_queue' = 0
  BY DEF NewGame, Counted, cpuVars
<1>2. \A q \in Queue : Samples(q)' = Samples(q)
  BY <1>1 DEF Samples
<1>3. \A x \in Samples(0) : x > heard
  <2>1. CASE busy_queue = 1 /\ ready_queue = 1
    <3>1. Samples(0) = {}
      BY <2>1, NoSamples DEF OrderInv, Samples
    <3> QED BY <3>1
  <2>2. CASE ready_queue = 0
    BY <2>2 DEF OrderInv
  <2>3. CASE busy_queue = 0 /\ ready_queue # 0
    BY <2>3 DEF OrderInv
  <2> QED BY <2>1, <2>2, <2>3 DEF OrderInv, TypeOK, Queue
<1>4. \A x \in Samples(ready_queue)' : x > heard'
  BY <1>1, <1>3 DEF Samples
<1> QED BY <1>1, <1>2, <1>4 DEF OrderInv

\* OrderInv is inductive.
LEMMA OrderStep == OrderInv /\ [Next]_vars => OrderInv'
<1> SUFFICES ASSUME OrderInv, [Next]_vars PROVE OrderInv'
  OBVIOUS
<1>1. TypeOK /\ TypeOK'
  BY TypeStep DEF OrderInv
<1>2. CASE SampleEvent
  <2>1. Counted' = Counted
    BY <1>1, <1>2 DEF SampleEvent, Counted, TypeOK
  <2> QED BY <1>1, <1>2, <2>1, OrderQuiet DEF SampleEvent, queueVars
<1>3. CASE PushLock \/ PushSignal \/ Park
  <2>1. Counted' = Counted
    BY <1>3 DEF PushLock, PushSignal, Park, Counted
  <2> QED BY <1>1, <1>3, <2>1, OrderQuiet DEF PushLock, PushSignal, Park, queueVars
<1>4. CASE ConsumeStart \/ ConsumeWait \/ ConsumeTimeout \/ ConsumeLock
  <2>1. Counted' = Counted
    BY <1>4 DEF ConsumeStart, ConsumeWait, ConsumeTimeout, ConsumeLock, Counted, cpuVars
  <2> QED BY <1>1, <1>4, <2>1, OrderQuiet
          DEF ConsumeStart, ConsumeWait, ConsumeTimeout, ConsumeLock, queueVars
<1>5. CASE \/ \E f \in FrameLimits : SetFramelimit(f)
           \/ \E f \in FrameLimits, s \in Stretching : MenuSettings(f, s)
           \/ MenuUnpark \/ UNCHANGED vars
  <2>1. Counted' = Counted
    BY <1>5 DEF SetFramelimit, MenuSettings, MenuUnpark, Counted, cpuVars, vars
  <2> QED BY <1>1, <1>5, <2>1, OrderQuiet
          DEF SetFramelimit, MenuSettings, MenuUnpark, queueVars, vars
<1> QED BY <1>1, <1>2, <1>3, <1>4, <1>5, OrderAppend, OrderSwap, OrderTake, OrderNewGame
    DEF Next, Cpu, Audio, Main

\* It holds of the empty queues.
LEMMA OrderInit == Init => OrderInv
<1> SUFFICES ASSUME Init PROVE OrderInv
  OBVIOUS
<1>1. \A q \in Queue : data[q] = <<>> /\ Samples(q) = {} /\ Len(data[q]) = 0
  BY NoSamples DEF Init, Samples
<1>2. busy_queue = 0 /\ ready_queue = 0 /\ heard = 0 /\ Counted = 0
  BY DEF Init, Counted
<1> QED BY <1>1, <1>2, TypeInit, QueueFacts DEF OrderInv

\* The types, with the spin lock held by the side that is past its lock.
THEOREM TypeCorrect == Spec => []TypeOK
<1> QED BY TypeInit, TypeStep, PTL DEF Spec

\* apu.rs never plays a sample older than one it played before, whatever the
\* settings, the unparks and the games in between.
THEOREM SamplesInOrder == Spec => []InOrder
<1>1. OrderInv => InOrder
  <2> SUFFICES ASSUME OrderInv, NEW q \in Queue, ready_queue = q, data[q] # <<>>
               PROVE  data[q][1] > heard
    BY DEF OrderInv, InOrder
  <2>1. Len(data[q]) \in Nat \ {0}
    BY LastSample DEF OrderInv
  <2>2. data[q][1] \in Samples(q)
    BY <2>1 DEF Samples
  <2> QED BY <2>2 DEF OrderInv
<1> QED BY <1>1, OrderInit, OrderStep, PTL DEF Spec

-----------------------------------------------------------------------------
(* Normal speed: no sample is lost.                                        *)

\* A step that leaves the queues, the tokens and the samples alone.
LEMMA SteadyQuiet ==
    ASSUME SteadyInv, TypeOK', Steady,
           UNCHANGED <<data, size, busy_queue, ready_queue, waiting, token, heard>>,
           Counted' = Counted, fl' = 1,
           cpuPc' \in {"run", "lock", "append"} => cpuPc \in {"run", "lock", "append"},
           cpuPc' \in {"signal", "full"} => cpuPc \in {"signal", "full"},
           cpuPc' = "park" <=> cpuPc = "park"
    PROVE  NothingDropped'
  BY DEF SteadyInv, NothingDropped

\* At normal speed a buffer is full when it holds BUF samples.
LEMMA SteadyLimit == SampleLimit(1) = BUF
  BY DEF SampleLimit

\* At normal speed a sample that is pushed always has room, and is the next
\* one in its queue.
LEMMA SteadyAppend == SteadyInv /\ TypeOK' /\ PushAppend /\ Steady => NothingDropped'
<1> SUFFICES ASSUME SteadyInv, TypeOK', PushAppend, Steady PROVE NothingDropped'
  OBVIOUS
<1> DEFINE b == busy_queue
<1>1. /\ TypeOK /\ NothingDropped /\ b \in Queue /\ ready_queue \in Queue
      /\ pushed \in Nat /\ heard \in Nat /\ BUF \in Nat \ {0} /\ cpuPc = "append"
      /\ size \in [Queue -> Nat] /\ data \in [Queue -> Seq(0 .. MaxSamples)]
  BY BufAssumption DEF SteadyInv, TypeOK, PushAppend
<1>2. /\ size[b] < BUF /\ Len(data[b]) = size[b] /\ fl = 1
      /\ ~waiting /\ ~token /\ heard + size[0] + size[1] = pushed - 1
  BY <1>1 DEF NothingDropped, Counted
<1>3. /\ UNCHANGED <<busy_queue, ready_queue, heard, pushed, fl, waiting, token>>
      /\ data' = [data EXCEPT ![b] = Store(b)] /\ size' = [size EXCEPT ![b] = @ + 1]
      /\ size[b] + 1 < BUF => cpuPc' = "run"
      /\ size[b] + 1 >= BUF => cpuPc' \in {"signal", "full"}
      /\ cpuPc' \in {"run", "signal", "full"}
  BY <1>1, <1>2, SteadyLimit DEF PushAppend
<1>4. /\ data'[b] = Store(b) /\ size'[b] = size[b] + 1
      /\ \A q \in Queue \ {b} : data'[q] = data[q] /\ size'[q] = size[q]
  BY <1>1, <1>3
<1>5. /\ Len(Store(b)) = size[b] + 1
      /\ \A i \in 1 .. size[b] : Store(b)[i] = data[b][i]
      /\ Store(b)[size[b] + 1] = pushed
  BY <1>1, <1>2, StoreSeq
<1>6. /\ size[0] \in Nat /\ size[1] \in Nat /\ size'[0] + size'[1] = size[0] + size[1] + 1
  BY <1>1, <1>4, QueueFacts DEF Queue
<1>7. Counted' = pushed
  BY <1>3 DEF Counted
<1>8. /\ b = ready_queue => pushed = heard + size[b] + 1
      /\ b # ready_queue => pushed = heard + BUF + size[b] + 1
  <2>1. {b, Other(b)} = {0, 1} /\ (b # ready_queue => ready_queue = Other(b))
    BY <1>1 DEF Queue, Other
  <2>2. size[0] + size[1] = size[b] + size[Other(b)]
    BY <1>1, <1>6 DEF Queue, Other
  <2>3. b = ready_queue => size[Other(b)] = 0
    BY <1>1 DEF NothingDropped
  <2>4. b # ready_queue => size[Other(b)] = BUF
    BY <1>1, <2>1 DEF NothingDropped
  <2>5. heard + (size[0] + size[1]) = pushed - 1 /\ size[b] \in Nat
    BY <1>1, <1>2, <1>6
  <2>6. /\ size[Other(b)] = 0 => pushed = heard + size[b] + 1
        /\ size[Other(b)] = BUF => pushed = heard + BUF + size[b] + 1
    <3> DEFINE s == size[b]
               o == size[Other(b)]
               n == size[0] + size[1]
    <3>1. heard + n = pushed - 1 /\ n = s + o /\ s \in Nat /\ heard \in Nat /\ pushed \in Nat
          /\ BUF \in Nat
      BY <1>1, <2>2, <2>5
    <3> HIDE DEF s, o, n
    <3>2. /\ o = 0 => pushed = heard + s + 1
          /\ o = BUF => pushed = heard + BUF + s + 1
      BY ONLY <3>1
    <3> QED BY <3>2 DEF s, o
  <2> QED BY <2>3, <2>4, <2>6
<1> HIDE DEF b
<1>9. ASSUME NEW base \in Nat, pushed = base + size[b] + 1,
             \A i \in 1 .. size[b] : data[b][i] = base + i
      PROVE  \A i \in 1 .. Len(data'[b]) : data'[b][i] = base + i
  <2> TAKE i \in 1 .. Len(data'[b])
  <2>1. i \in 1 .. size[b] \/ i = size[b] + 1
    <3>1. i \in 1 .. size[b] + 1 /\ size[b] \in Nat
      BY <1>1, <1>4, <1>5
    <3> QED BY ONLY <3>1
  <2>2. CASE i \in 1 .. size[b]
    BY <1>4, <1>5, <1>9, <2>2
  <2>3. CASE i = size[b] + 1
    BY <1>1, <1>4, <1>5, <1>9, <2>3
  <2> QED BY <2>1, <2>2, <2>3
<1>10. \A i \in 1 .. Len(data'[ready_queue]) : data'[ready_queue][i] = heard + i
  <2>1. CASE b = ready_queue
    <3>1. \A i \in 1 .. size[b] : data[b][i] = heard + i
      BY <1>1, <1>2, <2>1 DEF NothingDropped
    <3> QED BY <1>1, <1>8, <1>9, <2>1, <3>1
  <2>2. CASE b # ready_queue
    BY <1>1, <1>4, <2>2 DEF NothingDropped
  <2> QED BY <2>1, <2>2
<1>11. b # ready_queue => \A i \in 1 .. Len(data'[b]) : data'[b][i] = heard + BUF + i
  <2> SUFFICES ASSUME b # ready_queue
               PROVE  \A i \in 1 .. Len(data'[b]) : data'[b][i] = heard + BUF + i
    OBVIOUS
  <2>1. \A i \in 1 .. size[b] : data[b][i] = heard + BUF + i
    BY <1>1, <1>2 DEF NothingDropped, b
  <2>2. heard + BUF \in Nat
    BY <1>1
  <2> QED BY <1>8, <1>9, <2>1, <2>2
<1>12. \A q \in Queue : Len(data'[q]) = size'[q] /\ size'[q] <= BUF
  <2>1. Len(data'[b]) = size'[b] /\ size'[b] <= BUF
    BY <1>1, <1>2, <1>4, <1>5
  <2>2. \A q \in Queue \ {b} : Len(data[q]) = size[q] /\ size[q] <= BUF
    BY <1>1 DEF NothingDropped
  <2> QED BY <1>4, <2>1, <2>2
<1>13. /\ b = ready_queue => size'[Other(b)] = 0
       /\ b # ready_queue => size'[ready_queue] = BUF
  BY <1>1, <1>4, QueueFacts DEF NothingDropped, b
<1>14. /\ cpuPc' = "run" => size'[b] < BUF
       /\ cpuPc' \in {"signal", "full"} => size'[b] = BUF
  BY <1>1, <1>2, <1>3, <1>4
<1>15. heard' + size'[0] + size'[1] = Counted'
  <2>1. /\ heard' = heard /\ heard + size[0] + size[1] = pushed - 1
        /\ size'[0] \in Nat /\ size'[1] \in Nat
    BY <1>2, <1>3, QueueFacts DEF TypeOK
  <2>2. heard + (size[0] + size[1]) = pushed - 1 /\ heard \in Nat /\ pushed \in Nat
    BY <1>1, <1>6, <2>1
  <2> DEFINE m == size'[0] + size'[1]
             n == size[0] + size[1]
  <2>3. heard + n = pushed - 1 /\ m = n + 1 /\ n \in Nat
    BY <1>6, <2>2
  <2>4. heard' + size'[0] + size'[1] = heard + m
    BY <1>1, <2>1
  <2> HIDE DEF m, n
  <2>5. heard + m = pushed
    BY ONLY <2>2, <2>3
  <2> QED BY <1>7, <2>4, <2>5
<1>16. busy_queue' = b /\ ready_queue' = ready_queue /\ heard' = heard /\ fl' = 1
       /\ ~waiting' /\ ~token' /\ cpuPc' \in {"run", "signal", "full"}
  BY <1>2, <1>3 DEF b
<1> QED BY <1>10, <1>11, <1>12, <1>13, <1>14, <1>15, <1>16 DEF NothingDropped

\* Swapping at normal speed: the queue that is emptied was empty; a full one
\* makes the producer wait instead.
LEMMA SteadySwap == SteadyInv /\ TypeOK' /\ PushFull /\ Steady => NothingDropped'
<1> SUFFICES ASSUME SteadyInv, TypeOK', PushFull, Steady PROVE NothingDropped'
  OBVIOUS
<1> DEFINE b == busy_queue
           o == Other(busy_queue)
<1>1. /\ TypeOK /\ NothingDropped /\ BUF \in Nat \ {0} /\ cpuPc = "full"
      /\ b \in Queue /\ o \in Queue /\ o # b /\ Other(o) = b /\ ready_queue \in {b, o}
      /\ \A q \in Queue : q \in {b, o}
      /\ size \in [Queue -> Nat] /\ data \in [Queue -> Seq(0 .. MaxSamples)]
  BY BufAssumption, QueueFacts DEF SteadyInv, TypeOK, PushFull
<1>2. /\ fl = 1 /\ size[b] = BUF /\ ~token /\ ~waiting
      /\ heard + size[0] + size[1] = Counted
      /\ \A q \in Queue : Len(data[q]) = size[q] /\ size[q] <= BUF
  BY <1>1 DEF NothingDropped
<1>3. MustWait <=> size[o] >= BUF
  BY <1>2, SteadyLimit DEF MustWait
<1>4. /\ b = ready_queue => size[o] = 0
      /\ b # ready_queue => size[o] = BUF
  BY <1>1 DEF NothingDropped
<1>5. UNCHANGED <<fl, heard, token, pushed>> /\ Counted' = Counted
  BY DEF PushFull, Counted
<1>6. CASE MustWait
  <2>1. b # ready_queue
    BY <1>1, <1>3, <1>4, <1>6
  <2>2. /\ UNCHANGED <<data, size, busy_queue, ready_queue>>
        /\ waiting' = TRUE /\ cpuPc' = "park"
    BY <1>6 DEF PushFull, queueVars
  <2> QED BY <1>1, <1>2, <1>5, <2>1, <2>2 DEF NothingDropped
<1>7. CASE ~MustWait
  <2>1. b = ready_queue /\ size[o] = 0
    BY <1>1, <1>3, <1>4, <1>7
  <2>2. /\ data' = [data EXCEPT ![o] = <<>>] /\ size' = [size EXCEPT ![o] = 0]
        /\ ready_queue' = b /\ busy_queue' = o /\ cpuPc' = "run" /\ waiting' = waiting
    BY <1>7 DEF PushFull
  <2>3. /\ data'[o] = <<>> /\ Len(data'[o]) = 0 /\ data'[b] = data[b]
        /\ size'[o] = 0 /\ size'[b] = BUF /\ size' = size
    BY <1>1, <1>2, <2>1, <2>2, NoSamples
  <2>4. \A i \in 1 .. Len(data[b]) : data[b][i] = heard + i
    BY <1>1, <2>1 DEF NothingDropped
  <2> HIDE DEF b, o
  <2>5. \A q \in Queue : Len(data'[q]) = size'[q] /\ size'[q] <= BUF
    BY <1>1, <1>2, <2>3
  <2>6. heard' + size'[0] + size'[1] = Counted'
    BY <1>2, <1>5, <2>3
  <2> QED BY <1>1, <1>2, <1>5, <2>2, <2>3, <2>4, <2>5, <2>6 DEF NothingDropped
<1> QED BY <1>6, <1>7

\* Taking the ready queue at normal speed: the next sample is the first left.
LEMMA SteadyTake == SteadyInv /\ TypeOK' /\ ConsumeTake /\ Steady => NothingDropped'
<1> SUFFICES ASSUME SteadyInv, TypeOK', ConsumeTake, Steady PROVE NothingDropped'
  OBVIOUS
<1> DEFINE b == busy_queue
           r == ready_queue
           n == size[ready_queue]
<1>0. TypeOK /\ NothingDropped /\ b \in Queue /\ r \in Queue
  BY DEF SteadyInv, TypeOK
<1>1. /\ TypeOK /\ NothingDropped /\ BUF \in Nat \ {0} /\ heard \in Nat
      /\ b \in Queue /\ r \in Queue /\ \A q \in Queue : q \in {r, Other(r)}
      /\ Other(r) \in Queue /\ Other(r) # r
      /\ n \in Nat /\ size \in [Queue -> Nat] /\ data \in [Queue -> Seq(0 .. MaxSamples)]
      /\ cpuPc \notin {"append", "signal", "full"}
  <2>1. (\A q \in Queue : q \in {r, Other(r)}) /\ Other(r) \in Queue /\ Other(r) # r
    BY <1>0, QueueFacts
  <2>2. audioPc = "take"
    BY DEF ConsumeTake
  <2>3. /\ heard \in Nat /\ n \in Nat /\ cpuPc \notin {"append", "signal", "full"}
        /\ size \in [Queue -> Nat] /\ data \in [Queue -> Seq(0 .. MaxSamples)]
    <3>1. lock = "audio" /\ (lock = "cpu" <=> cpuPc \in {"append", "signal", "full"})
      BY <1>0, <2>2 DEF TypeOK
    <3>2. cpuPc \notin {"append", "signal", "full"}
      BY <3>1
    <3>3. heard \in 0 .. MaxSamples /\ size \in [Queue -> Nat]
          /\ data \in [Queue -> Seq(0 .. MaxSamples)]
      BY <1>0, Zenon DEF TypeOK
    <3> QED BY <1>0, <3>2, <3>3
  <2> QED BY <1>0, <2>1, <2>3, BufAssumption
<1>2. /\ fl = 1 /\ heard + size[0] + size[1] = Counted /\ Len(data[r]) = n
      /\ \A q \in Queue : Len(data[q]) = size[q] /\ size[q] <= BUF
      /\ \A i \in 1 .. Len(data[r]) : data[r][i] = heard + i
      /\ b # r => n = BUF
  BY <1>1 DEF NothingDropped
<1>3. /\ data' = [data EXCEPT ![r] = <<>>] /\ size' = [size EXCEPT ![r] = 0]
      /\ ready_queue' = b /\ busy_queue' = IF waiting THEN r ELSE b
      /\ waiting' = FALSE /\ token' = (token \/ waiting)
      /\ UNCHANGED <<cpuPc, pushed, fl>> /\ Counted' = Counted
  BY DEF ConsumeTake, ReadyAfterTake, BusyAfterTake, Counted, cpuVars
<1>4. heard' = heard + n
  <2>1. CASE data[r] = <<>>
    BY <1>1, <1>2, <2>1, NoSamples DEF ConsumeTake
  <2>2. CASE data[r] # <<>>
    <3>1. n \in 1 .. Len(data[r])
      BY <1>1, <1>2, <2>2, LastSample
    <3> QED BY <1>2, <2>2, <3>1 DEF ConsumeTake
  <2> QED BY <2>1, <2>2
<1>5. /\ data'[r] = <<>> /\ Len(data'[r]) = 0 /\ size'[r] = 0
      /\ \A q \in Queue \ {r} : data'[q] = data[q] /\ size'[q] = size[q]
  BY <1>1, <1>3, NoSamples
<1>6. heard' + size'[0] + size'[1] = Counted'
  <2>1. CASE r = 0
    BY <1>1, <1>2, <1>3, <1>4, <1>5, <2>1 DEF Queue
  <2>2. CASE r = 1
    BY <1>1, <1>2, <1>3, <1>4, <1>5, <2>2 DEF Queue
  <2> QED BY <1>1, <2>1, <2>2 DEF Queue
<1>7. /\ b = r => size[Other(r)] = 0
      /\ b # r => \A i \in 1 .. Len(data[b]) : data[b][i] = heard + n + i
  BY <1>1, <1>2 DEF NothingDropped
<1>8. /\ waiting => b # r /\ ~token /\ size[b] = BUF
      /\ ~waiting /\ cpuPc = "park" => token
      /\ waiting => cpuPc = "park"
      /\ token => size[b] < BUF
      /\ token => cpuPc = "park"
      /\ cpuPc \in {"run", "lock"} => size[b] < BUF
  BY <1>1 DEF NothingDropped
<1> HIDE DEF b, r, n
<1>9. \A q \in Queue : Len(data'[q]) = size'[q] /\ size'[q] <= BUF
  <2>1. Len(data'[r]) = size'[r] /\ size'[r] <= BUF
    BY <1>1, <1>5
  <2> QED BY <1>2, <1>5, <2>1
<1>10. \A i \in 1 .. Len(data'[b]) : data'[b][i] = heard' + i
  BY <1>1, <1>4, <1>5, <1>7
<1>11. CASE waiting
  <2>1. /\ busy_queue' = r /\ ready_queue' = b /\ ~waiting' /\ token' /\ b # r
        /\ cpuPc' = "park" /\ fl' = 1
    BY <1>2, <1>3, <1>8, <1>11
  <2>2. size'[b] = BUF /\ size'[r] = 0 /\ 0 < BUF /\ Len(data'[r]) = 0
    BY <1>1, <1>5, <1>8, <1>11
  <2> QED BY <1>6, <1>9, <1>10, <2>1, <2>2 DEF NothingDropped
<1>12. CASE ~waiting
  <2>1. size'[Other(b)] = 0
    BY <1>1, <1>5, <1>7, QueueFacts
  <2>2. cpuPc' \in {"run", "lock", "append"} \/ token' => size'[b] < BUF
    <3>1. cpuPc \in {"run", "lock"} \/ token => size[b] < BUF
      BY <1>8
    <3>2. size'[b] = size[b] \/ size'[b] = 0
      BY <1>1, <1>5
    <3>3. cpuPc' = cpuPc /\ cpuPc # "append" /\ (token' => token)
      BY <1>1, <1>3, <1>12
    <3> QED BY <1>1, <3>1, <3>2, <3>3
  <2>3. busy_queue' = b /\ ready_queue' = b /\ ~waiting' /\ token' = token
    BY <1>1, <1>3, <1>12 DEF TypeOK
  <2> QED BY <1>1, <1>2, <1>3, <1>6, <1>8, <1>9, <1>10, <2>1, <2>2, <2>3 DEF NothingDropped
<1> QED BY <1>11, <1>12 DEF TypeOK

\* The settings stay as they are as long as nobody opened the menu, and the
\* first game stays the first.
LEMMA SteadyBefore ==
    ASSUME SteadyInv, [Next]_vars, Steady'
    PROVE  /\ Steady /\ menus = 0 /\ mainPc = "play"
           /\ ~NewGame /\ ~MenuUnpark
           /\ \A f \in FrameLimits : ~SetFramelimit(f)
           /\ \A f \in FrameLimits : \A s \in Stretching : ~MenuSettings(f, s)
<1>1. menus \in Nat /\ game \in Nat \ {0} /\ menus' = 0 /\ game' = 1 /\ framelimit' = 1
  BY DEF SteadyInv, TypeOK, Steady
<1>2. /\ ~NewGame
      /\ \A f \in FrameLimits : ~SetFramelimit(f)
      /\ \A f \in FrameLimits : \A s \in Stretching : ~MenuSettings(f, s)
  BY <1>1 DEF NewGame, SetFramelimit, MenuSettings
<1>3. UNCHANGED <<menus, game, framelimit>>
  BY <1>2 DEF Next, Cpu, Audio, Main, SampleEvent, PushLock, PushAppend, PushSignal, PushFull, Park,
     ConsumeStart, ConsumeWait, ConsumeTimeout, ConsumeLock, ConsumeTake, MenuUnpark,
     mainVars, settingVars, vars
<1>4. menus = 0 /\ mainPc = "play" /\ Steady
  BY <1>1, <1>3 DEF SteadyInv, Steady
<1> QED BY <1>2, <1>4 DEF MenuUnpark

\* SteadyInv is inductive.
LEMMA SteadyStep == SteadyInv /\ [Next]_vars => SteadyInv'
<1> SUFFICES ASSUME SteadyInv, [Next]_vars PROVE SteadyInv'
  OBVIOUS
<1>1. TypeOK /\ TypeOK'
  BY TypeStep DEF SteadyInv
<1>2. menus' = 0 => mainPc' = "play"
  <2>1. menus \in Nat
    BY <1>1 DEF TypeOK
  <2> QED BY <2>1 DEF SteadyInv, Next, Cpu, Audio, Main, SampleEvent, PushLock, PushAppend,
        PushSignal, PushFull, Park, ConsumeStart, ConsumeWait, ConsumeTimeout, ConsumeLock,
        ConsumeTake, SetFramelimit, MenuSettings, MenuUnpark, NewGame, mainVars, vars
<1>3. ASSUME Steady' PROVE NothingDropped'
  <2>1. /\ Steady /\ ~NewGame /\ ~MenuUnpark /\ NothingDropped /\ framelimit = 1 /\ fl = 1
        /\ \A f \in FrameLimits : ~SetFramelimit(f)
        /\ \A f \in FrameLimits : \A s \in Stretching : ~MenuSettings(f, s)
    BY <1>3, SteadyBefore DEF SteadyInv, NothingDropped, Steady
  <2>2. CASE SampleEvent
    <3>1. Counted' = Counted
      BY <1>1, <2>2 DEF SampleEvent, Counted, TypeOK
    <3> QED BY <1>1, <2>1, <2>2, <3>1, SteadyQuiet DEF SampleEvent, queueVars
  <2>3. CASE PushLock \/ PushSignal
    <3>1. Counted' = Counted
      BY <2>3 DEF PushLock, PushSignal, Counted
    <3> QED BY <1>1, <2>1, <2>3, <3>1, SteadyQuiet DEF PushLock, PushSignal, queueVars
  <2>4. CASE Park
    <3>1. /\ Counted' = Counted /\ cpuPc = "park" /\ cpuPc' = "run" /\ token /\ ~token'
          /\ UNCHANGED <<queueVars, waiting, heard, fl>>
      BY <2>4 DEF Park, Counted
    <3> QED BY <2>1, <3>1 DEF NothingDropped, queueVars
  <2>5. CASE ConsumeStart \/ ConsumeWait \/ ConsumeTimeout \/ ConsumeLock
    <3>1. Counted' = Counted
      BY <2>5 DEF ConsumeStart, ConsumeWait, ConsumeTimeout, ConsumeLock, Counted, cpuVars
    <3> QED BY <1>1, <2>1, <2>5, <3>1, SteadyQuiet
            DEF ConsumeStart, ConsumeWait, ConsumeTimeout, ConsumeLock, queueVars, cpuVars
  <2>6. CASE UNCHANGED vars
    <3>1. Counted' = Counted
      BY <2>6 DEF Counted, vars
    <3> QED BY <1>1, <2>1, <2>6, <3>1, SteadyQuiet DEF vars
  <2> QED BY <1>1, <2>1, <2>2, <2>3, <2>4, <2>5, <2>6, SteadyAppend, SteadySwap, SteadyTake
          DEF Next, Cpu, Audio, Main
<1> QED BY <1>1, <1>2, <1>3 DEF SteadyInv

\* It holds of the empty queues.
LEMMA SteadyInit == Init => SteadyInv
<1> SUFFICES ASSUME Init PROVE SteadyInv
  OBVIOUS
<1>1. \A q \in Queue : data[q] = <<>> /\ Len(data[q]) = 0 /\ size[q] = 0
  BY NoSamples DEF Init
<1>2. /\ busy_queue = 0 /\ ready_queue = 0 /\ heard = 0 /\ Counted = 0 /\ cpuPc = "run"
      /\ ~waiting /\ ~token /\ fl = framelimit /\ mainPc = "play"
  BY DEF Init, Counted
<1>3. BUF \in Nat \ {0} /\ 0 \in Queue /\ 1 \in Queue /\ Other(0) \in Queue
  BY BufAssumption, QueueFacts
<1> QED BY <1>1, <1>2, <1>3, TypeInit DEF SteadyInv, NothingDropped, Steady

\* With the limiter at normal speed the emulation is paced by waiting, never
\* by dropping: every sample pushed is heard, for every buffer size.
THEOREM EverySampleHeard == Spec => []NoSampleLost
<1>1. SteadyInv => NoSampleLost
  <2> SUFFICES ASSUME SteadyInv, Steady, data[ready_queue] # <<>>
               PROVE  data[ready_queue][1] = heard + 1
    BY DEF NoSampleLost
  <2>1. ready_queue \in Queue /\ Len(data[ready_queue]) \in Nat \ {0}
    BY LastSample DEF SteadyInv, TypeOK
  <2> QED BY <2>1 DEF SteadyInv, NothingDropped
<1> QED BY <1>1, SteadyInit, SteadyStep, PTL DEF Spec

-----------------------------------------------------------------------------
(* A parked cpu thread is rescued.                                         *)

\* A step of the cpu thread.
LEMMA RescueCpu == RescueInv /\ TypeOK' /\ Cpu => RescueInv'
<1> SUFFICES ASSUME RescueInv, TypeOK', Cpu PROVE RescueInv'
  OBVIOUS
<1> USE DEF RescueInv, Rescued, settingVars, mainVars
<1>1. st \in BOOLEAN /\ audio_stretching \in BOOLEAN
  BY SettingsAssumption DEF TypeOK
<1>2. CASE SampleEvent \/ PushLock \/ Park
  BY <1>1, <1>2 DEF SampleEvent, PushLock, Park
<1>3. CASE PushAppend
  BY <1>1, <1>3 DEF PushAppend
<1>4. CASE PushSignal
  BY <1>1, <1>4 DEF PushSignal, Signalled
<1>5. CASE PushFull
  \* The audio thread cannot be in "take" here: the lock is the cpu's.
  BY <1>1, <1>5 DEF PushFull
<1> QED BY <1>2, <1>3, <1>4, <1>5 DEF Cpu

\* A step of the audio thread.
LEMMA RescueAudio == RescueInv /\ TypeOK' /\ Audio => RescueInv'
<1> SUFFICES ASSUME RescueInv, TypeOK', Audio PROVE RescueInv'
  OBVIOUS
<1> USE DEF RescueInv, Rescued, settingVars, cpuVars, mainVars
<1>1. CASE ConsumeStart \/ ConsumeTimeout
  BY <1>1 DEF ConsumeStart, ConsumeTimeout
<1>2. CASE ConsumeWait
  BY <1>2 DEF ConsumeWait
<1>3. CASE ConsumeLock
  <2>1. cpuPc # "full"
    BY <1>3 DEF ConsumeLock, TypeOK
  <2> QED BY <1>3, <2>1 DEF ConsumeLock
<1>4. CASE ConsumeTake
  <2>1. cpuPc # "full"
    BY <1>4 DEF ConsumeTake, TypeOK
  <2> QED BY <1>4, <2>1 DEF ConsumeTake
<1> QED BY <1>1, <1>2, <1>3, <1>4 DEF Audio

\* A step of the main thread: whoever replaces the settings also unparks.
LEMMA RescueMain == RescueInv /\ TypeOK' /\ Main => RescueInv'
<1> SUFFICES ASSUME RescueInv, TypeOK', Main PROVE RescueInv'
  OBVIOUS
<1> USE DEF RescueInv, Rescued, settingVars, cpuVars
<1>1. ASSUME NEW f \in FrameLimits, SetFramelimit(f) PROVE RescueInv'
  BY <1>1 DEF SetFramelimit
<1>2. ASSUME NEW f \in FrameLimits, NEW s \in Stretching, MenuSettings(f, s) PROVE RescueInv'
  BY <1>2 DEF MenuSettings
<1>3. CASE MenuUnpark
  BY <1>3 DEF MenuUnpark, Unparked
<1>4. CASE NewGame
  BY <1>4 DEF NewGame
<1> QED BY <1>1, <1>2, <1>3, <1>4 DEF Main

\* `push` parks without a deadline (apu.rs): at every moment at which the cpu
\* thread is parked there is a token, an unpark on its way, or an audio thread
\* that needs nothing more from the cpu thread to take a queue and unpark it.
THEOREM ParkedIsRescued == Spec => []Rescued
<1>1. Init => RescueInv
  BY TypeInit DEF Init, RescueInv, Rescued
<1>2. RescueInv /\ [Next]_vars => RescueInv'
  <2> SUFFICES ASSUME RescueInv, [Next]_vars PROVE RescueInv'
    OBVIOUS
  <2>1. TypeOK'
    BY TypeStep DEF RescueInv
  <2>2. CASE UNCHANGED vars
    BY <2>1, <2>2 DEF RescueInv, Rescued, vars
  <2> QED BY <2>1, <2>2, RescueCpu, RescueAudio, RescueMain DEF Next
<1>3. RescueInv => Rescued
  BY DEF RescueInv
<1> QED BY <1>1, <1>2, <1>3, PTL DEF Spec

=============================================================================
