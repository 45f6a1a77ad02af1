-------------------------- MODULE TabletModeProofs --------------------------
(***************************************************************************)
(* Proofs about TabletMode: types, and that the lid is never told an older *)
(* state of the switch after a newer one.  For any nodes, any size of the  *)
(* queue and any number of events.                                         *)
(***************************************************************************)
EXTENDS TabletMode, TLAPS

-----------------------------------------------------------------------------
(* The queue                                                                *)

Events == [kind: {"switch", "other", "syn", "dropped"}, value: {0, 1, 7}, turn: 0..MaxTurns]

\* The changes in queue q are between turns lo and hi, older ones first.
InOrder(q, lo, hi) ==
    /\ \A i \in 1..Len(q) : q[i].kind = "switch" => lo <= q[i].turn /\ q[i].turn <= hi
    /\ \A i, j \in 1..Len(q) :
          i < j /\ q[i].kind = "switch" /\ q[j].kind = "switch" => q[i].turn <= q[j].turn

LEMMA EventTypes ==
    /\ \A v \in {0, 1, 7}, t \in 0..MaxTurns : Switched(v, t) \in Events
    /\ Event("other") \in Events /\ Event("syn") \in Events /\ Event("dropped") \in Events
    /\ Event("other").kind # "switch" /\ Event("syn").kind # "switch"
    /\ Event("dropped").kind # "switch"
  BY ModeAssumption DEF Switched, Event, Events

\* An event, no older than those in the queue, is passed on: the queue keeps its bound
\* and its order, whether or not it overflows.
LEMMA PassFacts ==
    ASSUME NEW q \in Seq(Events), Len(q) < QueueSize, NEW e \in Events,
           NEW lo \in Nat, NEW hi \in Nat, InOrder(q, lo, hi),
           e.kind = "switch" => lo <= e.turn /\ e.turn = hi
    PROVE  /\ Pass(q, e) \in Seq(Events) /\ Len(Pass(q, e)) < QueueSize
           /\ InOrder(Pass(q, e), lo, hi)
  <1>1. QueueSize \in Nat /\ QueueSize > 3
    BY ModeAssumption
  <1>2. CASE Len(q) + 1 = QueueSize
    <2> DEFINE d == Event("dropped")
    <2>1. d \in Events /\ d.kind # "switch"
      BY EventTypes
    <2> HIDE DEF d
    <2>2. Pass(q, e) = <<d, e>>
      BY <1>2 DEF Pass, d
    <2>3. /\ <<d, e>> \in Seq(Events) /\ Len(<<d, e>>) = 2
          /\ <<d, e>>[1] = d /\ <<d, e>>[2] = e
      BY <2>1
    <2>4. InOrder(<<d, e>>, lo, hi)
      <3>1. \A i \in 1..2 : i = 1 \/ i = 2
        OBVIOUS
      <3>2. e.kind = "switch" => lo <= e.turn /\ e.turn <= hi
        OBVIOUS
      <3>3. \A i \in 1..2 : <<d, e>>[i].kind = "switch" => i = 2
        BY <2>1, <2>3, <3>1
      <3>4. \A i, j \in 1..2 :
               ~(i < j /\ <<d, e>>[i].kind = "switch" /\ <<d, e>>[j].kind = "switch")
        BY <3>1, <3>3
      <3> QED
        BY <2>3, <3>2, <3>3, <3>4 DEF InOrder
    <2> QED
      BY <1>1, <2>2, <2>3, <2>4
  <1>3. CASE Len(q) + 1 # QueueSize
    <2> DEFINE a == Append(q, e)
    <2>1. /\ a \in Seq(Events) /\ Len(a) = Len(q) + 1 /\ Len(q) \in Nat
          /\ a[Len(q) + 1] = e /\ \A i \in 1..Len(q) : a[i] = q[i]
      OBVIOUS
    <2>2. Pass(q, e) = a
      BY <1>3 DEF Pass
    <2> HIDE DEF a
    <2>3. \A i \in 1..Len(a) : i \in 1..Len(q) \/ i = Len(q) + 1
      BY <2>1
    <2>4. ASSUME NEW i \in 1..Len(a), a[i].kind = "switch"
          PROVE  lo <= a[i].turn /\ a[i].turn <= hi
      BY <2>1, <2>3, <2>4 DEF InOrder
    <2>5. ASSUME NEW i \in 1..Len(a), NEW j \in 1..Len(a), i < j,
                 a[i].kind = "switch", a[j].kind = "switch"
          PROVE  a[i].turn <= a[j].turn
      <3>1. CASE j \in 1..Len(q)
        BY <2>1, <2>3, <2>5, <3>1 DEF InOrder
      <3>2. CASE j = Len(q) + 1
        BY <2>1, <2>4, <2>5, <3>2
      <3> QED
        BY <2>3, <3>1, <3>2
    <2>6. InOrder(a, lo, hi)
      BY <2>4, <2>5 DEF InOrder
    <2> QED
      BY <1>1, <1>3, <2>1, <2>2, <2>6
  <1> QED
    BY <1>2, <1>3

LEMMA PassPacketFacts ==
    ASSUME NEW q \in Seq(Events), Len(q) < QueueSize, NEW e \in Events,
           NEW lo \in Nat, NEW hi \in Nat, InOrder(q, lo, hi),
           e.kind = "switch" => lo <= e.turn /\ e.turn = hi
    PROVE  /\ PassPacket(q, e) \in Seq(Events) /\ Len(PassPacket(q, e)) < QueueSize
           /\ InOrder(PassPacket(q, e), lo, hi)
  <1>1. /\ Pass(q, e) \in Seq(Events) /\ Len(Pass(q, e)) < QueueSize
        /\ InOrder(Pass(q, e), lo, hi)
    BY PassFacts
  <1>2. Event("syn") \in Events /\ Event("syn").kind # "switch"
    BY EventTypes
  <1> QED
    BY <1>1, <1>2, PassFacts DEF PassPacket

\* EVIOCGSW leaves no change of the switch in the queue.
LEMMA FlushFacts ==
    ASSUME queue \in Seq(Events), SwitchFlushed
    PROVE  /\ queue' \in Seq(Events) /\ Len(queue') <= Len(queue)
           /\ \A i \in 1..Len(queue') : queue'[i].kind # "switch"
  <1> DEFINE others == {k \in DOMAIN queue : queue[k].kind # "switch"}
  <1>1. PICK n \in 0..Len(queue) : \E at \in [1..n -> others] :
            queue' = [i \in 1..n |-> queue[at[i]]]
    BY DEF SwitchFlushed
  <1>2. PICK at \in [1..n -> others] : queue' = [i \in 1..n |-> queue[at[i]]]
    BY <1>1
  <1>3. n \in Nat /\ \A i \in 1..n : at[i] \in DOMAIN queue /\ queue[at[i]].kind # "switch"
    BY <1>2
  <1>4. \A i \in 1..n : queue[at[i]] \in Events
    BY <1>3
  <1> HIDE DEF others
  <1>5. queue' \in Seq(Events) /\ Len(queue') = n
    BY <1>2, <1>3, <1>4
  <1> QED
    BY <1>2, <1>3, <1>5

LEMMA Widened ==
    ASSUME NEW q \in Seq(Events), NEW lo \in Nat, NEW hi \in Nat, NEW hi2 \in Nat,
           hi <= hi2, InOrder(q, lo, hi)
    PROVE  InOrder(q, lo, hi2)
  <1>1. \A i \in 1..Len(q) : q[i].turn \in Nat
    <2>1. \A i \in 1..Len(q) : q[i] \in Events
      OBVIOUS
    <2> QED
      BY <2>1, ModeAssumption DEF Events
  <1> QED
    BY <1>1 DEF InOrder

\* What is behind the head of a queue is not older than it.
LEMMA TailOrder ==
    ASSUME NEW q \in Seq(Events), q # << >>, NEW lo \in Nat, NEW hi \in Nat,
           InOrder(q, lo, hi)
    PROVE  /\ Head(q) \in Events /\ Tail(q) \in Seq(Events) /\ Len(Tail(q)) <= Len(q)
           /\ InOrder(Tail(q), lo, hi)
           /\ Head(q).kind = "switch" =>
                 lo <= Head(q).turn /\ Head(q).turn <= hi /\ InOrder(Tail(q), Head(q).turn, hi)
  <1>1. /\ Len(q) \in Nat /\ Len(q) > 0 /\ Tail(q) \in Seq(Events) /\ Len(Tail(q)) = Len(q) - 1
        /\ \A i \in 1..Len(Tail(q)) : Tail(q)[i] = q[i + 1]
        /\ Head(q) = q[1] /\ Head(q) \in Events
    OBVIOUS
  <1>2. 1 \in 1..Len(q) /\ \A i \in 1..Len(Tail(q)) : i + 1 \in 1..Len(q) /\ 1 < i + 1
    BY <1>1
  <1>3. \A i, j \in 1..Len(Tail(q)) : i < j => i + 1 < j + 1
    BY <1>1
  <1>4. InOrder(Tail(q), lo, hi)
    BY <1>1, <1>2, <1>3 DEF InOrder
  <1>5. ASSUME Head(q).kind = "switch"
        PROVE  lo <= Head(q).turn /\ Head(q).turn <= hi /\ InOrder(Tail(q), Head(q).turn, hi)
    BY <1>1, <1>2, <1>4, <1>5 DEF InOrder
  <1> QED
    BY <1>1, <1>4, <1>5

-----------------------------------------------------------------------------
(* Types and turns                                                          *)

\* The nodes that do not answer.
Silent == {n \in DOMAIN Nodes : "silent" \in Answers(n)}

\* TypeOK with what it needs: the types of events, and that a search that goes on has
\* left no other nodes open.
TypeInv ==
    /\ TypeOK /\ queue \in Seq(Events) /\ iev \in Events
    /\ pc = "openfd" => open \subseteq Silent

\* What is queued is not older than what was read last, nor that than what uinput was
\* told last; only an iev that nothing was read into is, and it is handled only after
\* the device has gone.
TurnInv ==
    /\ InOrder(queue, 1, turn) /\ InOrder(queue, lidTurn, turn)
    /\ iev.kind = "switch" =>
          /\ InOrder(queue, iev.turn, turn) /\ iev.turn <= turn
          /\ iev.turn = 0 \/ lidTurn <= iev.turn
          /\ pc = "handle" => gone \/ iev.turn > 0
    /\ lidTurn <= turn
    /\ pc \notin {"read", "handle"} => lidTurn = 0 /\ iev.turn = 0

\* TypeOK in parts: what the device and the queue may disturb, and what the program may.
LEMMA TypeParts ==
    TypeOK <=>
        /\ /\ left \subseteq DOMAIN Nodes
           /\ open \subseteq Silent \cup {ifd}
           /\ ifd \in DOMAIN Nodes \cup {None}
        /\ switch \in {0, 1} /\ turn \in 0..MaxTurns /\ lidTurn \in 0..MaxTurns
        /\ gone \in BOOLEAN /\ dropped \in BOOLEAN /\ created \in BOOLEAN
        /\ Len(queue) < QueueSize
        /\ pc \in {"openfd", "uinput", "initial", "read", "handle", "exited"}
        /\ lid \in {0, 1}
  BY Zenon DEF TypeOK, Silent

\* A node that does not answer stays one, whatever becomes of the device.
LEMMA SilentKept ==
    ASSUME gone => gone'
    PROVE  Silent \subseteq Silent'
  BY DEF Silent, Answers

LEMMA StepQueues ==
    ASSUME TypeInv, TurnInv, NEW e \in Events, Queues(e), turn < MaxTurns, turn' = turn + 1,
           e.kind = "switch" => e.turn = turn', switch' \in {0, 1},
           UNCHANGED <<left, open, ifd, gone, pc, iev, created, told>>
    PROVE  TypeInv' /\ TurnInv'
  <1>1. /\ turn \in Nat /\ turn' \in Nat /\ lidTurn \in Nat /\ iev.turn \in Nat /\ 1 \in Nat
        /\ turn' \in 0..MaxTurns /\ 1 <= turn' /\ lidTurn <= turn'
        /\ iev.kind = "switch" => iev.turn <= turn'
        /\ queue \in Seq(Events) /\ Len(queue) < QueueSize
    <2>1. /\ turn \in 0..MaxTurns /\ lidTurn \in 0..MaxTurns /\ iev.turn \in 0..MaxTurns
          /\ queue \in Seq(Events) /\ Len(queue) < QueueSize /\ MaxTurns \in Nat
      BY ModeAssumption DEF TypeInv, TypeOK, Events
    <2> QED
      BY <2>1 DEF TurnInv
  <1>2. ASSUME NEW lo \in Nat, lo <= turn', InOrder(queue, lo, turn)
        PROVE  /\ queue' \in Seq(Events) /\ Len(queue') < QueueSize
               /\ InOrder(queue', lo, turn')
    <2>1. InOrder(queue, lo, turn')
      BY <1>1, <1>2, Widened
    <2>2. CASE ifd = None
      BY <1>1, <2>1, <2>2 DEF Queues
    <2>3. CASE ifd # None
      <3>1. queue' = PassPacket(queue, e)
        BY <2>3 DEF Queues
      <3> QED
        BY <1>1, <1>2, <2>1, <3>1, PassPacketFacts
    <2> QED
      BY <2>2, <2>3
  <1>3. InOrder(queue', 1, turn') /\ queue' \in Seq(Events) /\ Len(queue') < QueueSize
    BY <1>1, <1>2 DEF TurnInv
  <1>4. InOrder(queue', lidTurn, turn') /\ lidTurn' = lidTurn
    BY <1>1, <1>2 DEF TurnInv, told
  <1>5. iev.kind = "switch" => InOrder(queue', iev.turn, turn')
    BY <1>1, <1>2 DEF TurnInv
  <1>6. TurnInv'
    BY <1>1, <1>3, <1>4, <1>5 DEF TurnInv
  <1>7. dropped' \in BOOLEAN
    <2>1. dropped \in BOOLEAN
      BY TypeParts DEF TypeInv
    <2> QED
      BY <2>1, Zenon DEF Queues
  <1>8. Silent \subseteq Silent'
    BY SilentKept
  <1>9. TypeOK'
    <2>1. /\ left \subseteq DOMAIN Nodes /\ ifd \in DOMAIN Nodes \cup {None}
          /\ open \subseteq Silent \cup {ifd}
          /\ lidTurn \in 0..MaxTurns /\ gone \in BOOLEAN /\ created \in BOOLEAN
          /\ pc \in {"openfd", "uinput", "initial", "read", "handle", "exited"}
          /\ lid \in {0, 1}
      BY TypeParts, Zenon DEF TypeInv
    <2>2. open' \subseteq Silent' \cup {ifd'}
      BY <1>8, <2>1
    <2> QED
      BY <1>1, <1>3, <1>7, <2>1, <2>2, Zenon DEF TypeOK, Silent, told
  <1> QED
    BY <1>3, <1>6, <1>8, <1>9 DEF TypeInv

\* What the program does before it has a device and after it reads from one leaves the
\* switch alone.
LEMMA TypeKept ==
    ASSUME TypeInv, UNCHANGED <<left, open, ifd, switch, turn>>, gone => gone',
           gone' \in BOOLEAN, dropped' \in BOOLEAN, created' \in BOOLEAN,
           queue' \in Seq(Events), Len(queue') < QueueSize, iev' \in Events,
           pc' \in {"openfd", "uinput", "initial", "read", "handle", "exited"},
           pc' = "openfd" => pc = "openfd", lid' \in {0, 1}, lidTurn' \in 0..MaxTurns
    PROVE  TypeInv'
  <1>1. /\ left \subseteq DOMAIN Nodes /\ ifd \in DOMAIN Nodes \cup {None}
        /\ open \subseteq Silent \cup {ifd} /\ (pc = "openfd" => open \subseteq Silent)
        /\ switch \in {0, 1} /\ turn \in 0..MaxTurns
    BY TypeParts, Zenon DEF TypeInv
  <1>2. open' \subseteq Silent' \cup {ifd'} /\ (pc' = "openfd" => open' \subseteq Silent')
    BY <1>1, SilentKept
  <1>3. TypeOK'
    BY <1>1, <1>2, Zenon DEF TypeOK, Silent
  <1> QED
    BY <1>2, <1>3 DEF TypeInv

LEMMA InvStep ==
    ASSUME TypeInv, TurnInv, [Next]_vars
    PROVE  TypeInv' /\ TurnInv'
  <1>1. /\ gone \in BOOLEAN /\ dropped \in BOOLEAN /\ created \in BOOLEAN
        /\ Len(queue) < QueueSize /\ queue \in Seq(Events) /\ iev \in Events
        /\ pc \in {"openfd", "uinput", "initial", "read", "handle", "exited"}
        /\ lid \in {0, 1} /\ lidTurn \in 0..MaxTurns
        /\ switch \in {0, 1} /\ turn \in 0..MaxTurns
    BY TypeParts, Zenon DEF TypeInv
  <1>2. /\ MaxTurns \in Nat /\ QueueSize \in Nat /\ turn \in Nat /\ lidTurn \in Nat
        /\ iev.turn \in 0..MaxTurns /\ iev.turn \in Nat /\ Len(queue) \in Nat
    BY <1>1, ModeAssumption DEF Events
  <1>3. CASE SwitchTurns
    <2> DEFINE e == Switched(switch', turn')
    <2>1. /\ Queues(e) /\ turn < MaxTurns /\ turn' = turn + 1 /\ switch' = 1 - switch
          /\ UNCHANGED <<left, open, ifd, gone, pc, iev, created, told>>
      BY <1>3 DEF SwitchTurns
    <2>2. switch' \in {0, 1} /\ turn' \in 0..MaxTurns
      BY <1>1, <1>2, <2>1
    <2>3. e \in Events /\ e.turn = turn'
      BY <2>2, EventTypes DEF Switched
    <2> QED
      BY <2>1, <2>2, <2>3, StepQueues
  <1>4. CASE OtherEvent
    <2>1. Event("other") \in Events /\ Event("other").kind # "switch"
      BY EventTypes
    <2>2. switch' \in {0, 1}
      BY <1>1, <1>4 DEF OtherEvent
    <2> QED
      BY <1>4, <2>1, <2>2, StepQueues DEF OtherEvent
  <1>5. CASE DeviceGoes
    <2>1. TurnInv'
      BY <1>5 DEF DeviceGoes, TurnInv, told
    <2> QED
      BY <1>1, <1>5, <2>1, TypeKept DEF DeviceGoes, told
  <1>6. CASE OpenFd
    <2>1. UNCHANGED <<switch, turn, gone, queue, dropped, iev, created, lid, lidTurn>>
      BY <1>6 DEF OpenFd, device, told
    <2>2. PICK n \in left : \E kind \in Answers(n) :
            /\ left' = left \ {n}
            /\ open' = IF kind \in {"silent", "switch"} THEN open \cup {n} ELSE open
            /\ IF kind = "switch" THEN ifd' = n /\ pc' = "uinput" ELSE UNCHANGED <<ifd, pc>>
      BY <1>6 DEF OpenFd
    <2>3. PICK kind \in Answers(n) :
            /\ open' = IF kind \in {"silent", "switch"} THEN open \cup {n} ELSE open
            /\ IF kind = "switch" THEN ifd' = n /\ pc' = "uinput" ELSE UNCHANGED <<ifd, pc>>
      BY <2>2
    <2>4. /\ left \subseteq DOMAIN Nodes /\ ifd \in DOMAIN Nodes \cup {None}
          /\ open \subseteq Silent /\ pc = "openfd"
      BY <1>6 DEF TypeInv, TypeOK, OpenFd
    <2>5. /\ left' \subseteq DOMAIN Nodes /\ ifd' \in DOMAIN Nodes \cup {None}
          /\ n \in DOMAIN Nodes
      BY <2>2, <2>3, <2>4
    <2>6. Silent' = Silent
      BY <2>1 DEF Silent, Answers
    <2>7. /\ open' \subseteq Silent' \cup {ifd'}
          /\ pc' = "openfd" => open' \subseteq Silent'
      BY <2>3, <2>4, <2>5, <2>6 DEF Silent
    <2>8. pc' \in {"openfd", "uinput"}
      BY <2>3, <2>4
    <2>9. TypeInv'
      <3>1. TypeOK'
        BY <1>1, <2>1, <2>5, <2>7, <2>8, Zenon DEF TypeOK, Silent
      <3> QED
        BY <1>1, <2>1, <2>7, <3>1 DEF TypeInv
    <2>10. TurnInv'
      BY <2>1, <2>4, <2>8 DEF TurnInv
    <2> QED
      BY <2>9, <2>10
  <1>7. CASE OpenFdFails
    <2>1. TurnInv'
      BY <1>7 DEF OpenFdFails, TurnInv, told, device
    <2> QED
      BY <1>1, <1>7, <2>1, TypeKept DEF OpenFdFails, told, device
  <1>8. CASE CreateUinput
    <2>1. TurnInv'
      BY <1>8 DEF CreateUinput, TurnInv, told, device
    <2> QED
      BY <1>1, <1>8, <2>1, TypeKept DEF CreateUinput, told, device
  <1>9. CASE InitialState
    <2>1. /\ UNCHANGED <<left, open, ifd, switch, turn, gone, iev, created>>
          /\ pc = "initial" /\ pc' = "read" /\ lidTurn = 0 /\ iev.turn = 0
      BY <1>9 DEF InitialState, device, TurnInv
    <2>2. CASE gone
      <3>1. UNCHANGED <<queue, dropped, lid, lidTurn>>
        BY <1>9, <2>2 DEF InitialState, told
      <3>2. TurnInv'
        BY <2>1, <3>1 DEF TurnInv
      <3> QED
        BY <1>1, <2>1, <3>1, <3>2, TypeKept
    <2>3. CASE ~gone
      <3>1. SwitchFlushed /\ dropped' = FALSE /\ SendSwitch(switch, turn)
        BY <1>9, <2>3 DEF InitialState
      <3>2. /\ queue' \in Seq(Events) /\ Len(queue') <= Len(queue)
            /\ \A i \in 1..Len(queue') : queue'[i].kind # "switch"
        BY <1>1, <3>1, FlushFacts
      <3>3. lid' \in {0, 1} /\ lidTurn' \in {turn, lidTurn}
        BY <1>1, <3>1 DEF SendSwitch, told
      <3>4. \A lo, hi : InOrder(queue', lo, hi)
        BY <3>2 DEF InOrder
      <3>5. TurnInv'
        BY <1>2, <2>1, <3>3, <3>4 DEF TurnInv
      <3>6. Len(queue') < QueueSize /\ lidTurn' \in 0..MaxTurns
        BY <1>1, <1>2, <3>2, <3>3
      <3> QED
        BY <1>1, <2>1, <3>1, <3>2, <3>3, <3>5, <3>6, TypeKept
    <2> QED
      BY <2>2, <2>3
  <1>10. CASE Read
    <2>1. /\ UNCHANGED <<left, open, ifd, switch, turn, gone, dropped, created, lid, lidTurn>>
          /\ pc = "read" /\ pc' = "handle"
      BY <1>10 DEF Read, device, told
    <2>2. CASE gone /\ UNCHANGED <<iev, queue>>
      <3>1. TurnInv'
        BY <2>1, <2>2 DEF TurnInv
      <3> QED
        BY <1>1, <2>1, <2>2, <3>1, TypeKept
    <2>3. CASE queue # << >> /\ iev' = Head(queue) /\ queue' = Tail(queue)
      <3>1. /\ iev' \in Events /\ queue' \in Seq(Events) /\ Len(queue') <= Len(queue)
            /\ InOrder(queue', 1, turn)
            /\ iev'.kind = "switch" =>
                  1 <= iev'.turn /\ iev'.turn <= turn /\ InOrder(queue', iev'.turn, turn)
        BY <1>1, <1>2, <2>3, TailOrder DEF TurnInv
      <3>2. /\ InOrder(queue', lidTurn, turn)
            /\ iev'.kind = "switch" => lidTurn <= iev'.turn
        BY <1>1, <1>2, <2>3, TailOrder DEF TurnInv
      <3>3. iev'.turn \in Nat
        BY <1>2, <3>1 DEF Events
      <3>4. TurnInv'
        BY <1>2, <2>1, <3>1, <3>2, <3>3 DEF TurnInv
      <3>5. Len(queue') < QueueSize
        BY <1>1, <1>2, <3>1
      <3> QED
        BY <1>1, <2>1, <3>1, <3>4, <3>5, TypeKept
    <2> QED
      BY <1>10, <2>2, <2>3 DEF Read
  <1>11. CASE Handle
    <2>1. /\ UNCHANGED <<left, open, ifd, switch, turn, gone, queue, dropped, iev, created>>
          /\ pc = "handle" /\ pc' = "read"
      BY <1>11 DEF Handle, device
    <2>2. /\ lid' \in {0, 1}
          /\ lidTurn' = lidTurn \/ (iev.kind = "switch" /\ lidTurn' = iev.turn)
      BY <1>1, <1>11 DEF Handle, Concerns, SendSwitch, told
    <2>3. TurnInv'
      BY <1>2, <2>1, <2>2 DEF TurnInv
    <2>4. lidTurn' \in 0..MaxTurns
      BY <1>1, <1>2, <2>2
    <2> QED
      BY <1>1, <2>1, <2>2, <2>3, <2>4, TypeKept
  <1>12. CASE UNCHANGED vars
    <2>1. TurnInv'
      BY <1>12 DEF vars, TurnInv, told, device
    <2> QED
      BY <1>1, <1>12, <2>1, TypeKept DEF vars, told, device
  <1> QED
    BY <1>3, <1>4, <1>5, <1>6, <1>7, <1>8, <1>9, <1>10, <1>11, <1>12 DEF Next, Program

LEMMA InvInit == Init => TypeInv /\ TurnInv
  <1> SUFFICES ASSUME Init PROVE TypeInv /\ TurnInv
    OBVIOUS
  <1> USE ModeAssumption
  <1>1. /\ left \subseteq DOMAIN Nodes /\ open = {} /\ ifd = None /\ switch \in {0, 1}
        /\ turn = 0 /\ gone = FALSE /\ queue = << >> /\ dropped = FALSE /\ pc = "openfd"
        /\ created = FALSE /\ lid = 0 /\ lidTurn = 0 /\ iev \in Garbage
    BY DEF Init
  <1>2. iev \in Events /\ iev.turn = 0
    <2>1. Switched(7, 0) \in Events /\ Event("other") \in Events
      BY EventTypes
    <2> QED
      BY <1>1, <2>1 DEF Garbage, Switched, Event
  <1>3. queue \in Seq(Events) /\ Len(queue) = 0 /\ Len(queue) < QueueSize /\ 0 \in 0..MaxTurns
    BY <1>1
  <1>4. \A lo, hi : InOrder(queue, lo, hi)
    BY <1>3 DEF InOrder
  <1>5. TurnInv
    BY <1>1, <1>2, <1>4 DEF TurnInv
  <1>6. TypeOK
    BY <1>1, <1>3 DEF TypeOK
  <1> QED
    BY <1>1, <1>2, <1>3, <1>5, <1>6 DEF TypeInv

-----------------------------------------------------------------------------
(* Theorems                                                                 *)

\* Every variable keeps its type: uinput is only ever told 0 or 1, whatever an iev that
\* nothing was read into holds, the queue keeps its bound, and no descriptor stays open
\* but that of the switch and those of nodes that do not answer.
THEOREM TypeCorrect == Spec => []TypeOK
  <1>1. TypeInv => TypeOK
    BY DEF TypeInv
  <1>2. TypeInv /\ TurnInv /\ [Next]_vars => TypeInv' /\ TurnInv'
    BY InvStep
  <1> QED
    BY <1>1, <1>2, InvInit, PTL DEF Spec

\* The lid never goes back to a state older than one it was told before, however changes
\* of the switch fall between openfd, the first report and the reads, and however often
\* the queue overflows; but for an iev that nothing was read into.
THEOREM LidNeverBackward == Spec => NeverBackward
  <1>1. TypeInv /\ TurnInv /\ [Next]_vars => TypeInv' /\ TurnInv'
    BY InvStep
  <1>2. ASSUME TypeInv, TurnInv, [Next]_vars
        PROVE  [lidTurn' >= lidTurn \/ (gone /\ iev.turn = 0)]_told
    <2>1. lidTurn \in Nat /\ turn \in Nat /\ iev.turn \in Nat /\ lidTurn <= turn
      <3>1. lidTurn \in 0..MaxTurns /\ turn \in 0..MaxTurns /\ iev \in Events
        BY <1>2, TypeParts, Zenon DEF TypeInv
      <3> QED
        BY <1>2, <3>1, ModeAssumption DEF Events, TurnInv
    <2>2. CASE InitialState
      <3>1. lidTurn' = lidTurn \/ lidTurn' = turn
        BY <2>2 DEF InitialState, SendSwitch, told
      <3>2. lidTurn' >= lidTurn
        BY <2>1, <3>1
      <3> QED
        BY <3>2
    <2>3. CASE Handle
      <3>1. \/ lidTurn' = lidTurn
            \/ iev.kind = "switch" /\ lidTurn' = iev.turn
        BY <2>3 DEF Handle, Concerns, SendSwitch, told
      <3>2. iev.kind = "switch" => (gone /\ iev.turn = 0) \/ lidTurn <= iev.turn
        BY <1>2, <2>1, <2>3 DEF TurnInv, Handle
      <3>3. lidTurn' >= lidTurn \/ (gone /\ iev.turn = 0)
        BY <2>1, <3>1, <3>2
      <3> QED
        BY <3>3
    <2>4. CASE ~InitialState /\ ~Handle
      BY <1>2, <2>4 DEF Next, Program, OpenFd, OpenFdFails, CreateUinput, Read, SwitchTurns,
                  OtherEvent, DeviceGoes, vars
    <2> QED
      BY <2>2, <2>3, <2>4
  <1>3. TypeInv /\ TurnInv /\ [Next]_vars
          => [lidTurn' >= lidTurn \/ (gone /\ iev.turn = 0)]_told
    BY <1>2
  <1> QED
    BY <1>1, <1>3, InvInit, PTL DEF Spec, NeverBackward
=============================================================================
