------------------------ MODULE InterfaceCallsProofs ------------------------
(***************************************************************************)
(* Proofs about InterfaceCalls: a handler makes its calls in order, so that*)
(* the answer on the socket is always the one of the request before, a     *)
(* configureDhcp that succeeds has configured the device it was asked for, *)
(* and no traffic is routed through an interface without an address.  For  *)
(* any leases, whatever the kernel refuses and however often the device is *)
(* taken away and plugged in again.                                        *)
(***************************************************************************)
EXTENDS InterfaceCalls, TLAPS

-----------------------------------------------------------------------------
(* Sequences of calls                                                       *)

Names == {"getIndex", "getMac", "getFlags", "setFlags", "setMtu", "sendAddr", "recv",
          "sendRoute"}

Calls == [call: Names, arg: Nat \cup BOOLEAN]

\* What is left of a sequence without its first element.
LEMMA TailFacts ==
    ASSUME NEW S, NEW s \in Seq(S), s # <<>>
    PROVE  /\ Len(s) \in Nat \ {0} /\ 1 \in DOMAIN s /\ Head(s) = s[1]
           /\ Tail(s) \in Seq(S) /\ Len(Tail(s)) = Len(s) - 1
           /\ \A i \in DOMAIN Tail(s) : i + 1 \in DOMAIN s /\ Tail(s)[i] = s[i + 1]
           /\ <<>> \o Tail(s) = Tail(s)
  <1>1. Len(s) \in Nat \ {0} /\ Head(s) = s[1]
    OBVIOUS
  <1>2. Tail(s) \in Seq(S) /\ Len(Tail(s)) = Len(s) - 1
    OBVIOUS
  <1>3. \A i \in DOMAIN Tail(s) : i + 1 \in DOMAIN s /\ Tail(s)[i] = s[i + 1]
    OBVIOUS
  <1>4. <<>> \o Tail(s) = Tail(s)
    BY <1>2
  <1> QED
    BY <1>1, <1>2, <1>3, <1>4

\* A sequence whose first element is replaced.
LEMMA ReplacedFacts ==
    ASSUME NEW S, NEW s \in Seq(S), s # <<>>, NEW x \in S
    PROVE  LET r == <<x>> \o Tail(s)
           IN  /\ r \in Seq(S) /\ r # <<>> /\ Len(r) = Len(s) /\ Head(r) = x /\ r[1] = x
               /\ \A i \in DOMAIN r : i \in DOMAIN s /\ (i > 1 => r[i] = s[i])
  <1> DEFINE r == <<x>> \o Tail(s)
  <1>1. Tail(s) \in Seq(S) /\ Len(Tail(s)) = Len(s) - 1 /\ Len(s) \in Nat \ {0}
    BY TailFacts
  <1>2. r \in Seq(S) /\ Len(r) = Len(s)
    BY <1>1
  <1>3. r[1] = x
    BY <1>1
  <1>4. \A i \in 2..Len(s) : r[i] = s[i]
    <2> SUFFICES ASSUME NEW i \in 2..Len(s) PROVE r[i] = s[i]
      OBVIOUS
    <2>1. r[i] = Tail(s)[i - 1]
      BY <1>1
    <2>2. i - 1 \in DOMAIN Tail(s) /\ Tail(s)[i - 1] = s[i]
      BY <1>1
    <2> QED
      BY <2>1, <2>2
  <1>5. r # <<>> /\ Head(r) = x /\ DOMAIN r = 1..Len(s) /\ DOMAIN s = 1..Len(s)
    BY <1>1, <1>2, <1>3
  <1> QED
    BY <1>1, <1>2, <1>3, <1>4, <1>5

\* What each call takes.
LEMMA ArgsOf ==
    /\ Args("getIndex") = {0} /\ Args("getMac") = {0}
    /\ Args("getFlags") = BOOLEAN /\ Args("setFlags") = BOOLEAN
    /\ Args("setMtu") = Mtus
    /\ Args("sendAddr") = Addrs \cup {NoAddr} /\ Args("recv") = Addrs \cup {NoAddr}
    /\ Args("sendRoute") = Gateways
  BY DEF Args

-----------------------------------------------------------------------------
(* The calls a handler has left                                             *)

\* A handler makes its calls in the order of the code: what only follows another call
\* is never waiting further back, the route comes last, and the calls of configureDhcp
\* are those for its lease.
CallsInv ==
    /\ todo \in Seq(Calls)
    /\ todo = <<>> <=> res # "none"
    /\ res \in {"none", "success", "error"}
    /\ handler \in [kind: {"init", "configure", "halt"}, lease: Lease \cup {NoLease}]
    /\ handler.kind = "configure" => handler.lease \in Lease
    /\ \A i \in DOMAIN todo :
          /\ todo[i].arg \in Args(todo[i].call)
          /\ i > 1 => todo[i].call \notin {"setFlags", "recv"}
          /\ todo[i].call = "getIndex" => handler.kind = "init"
          /\ todo[i].call = "sendRoute" => i = Len(todo) /\ handler.kind = "configure"
          /\ handler.kind = "configure" =>
                /\ todo[i].call \in {"getFlags", "setFlags"} => todo[i].arg = TRUE
                /\ todo[i].call \in {"sendAddr", "recv"} => todo[i].arg = handler.lease.addr

\* The handler goes on to its next call, or has ended with success.
Dropped == todo' = Tail(todo) /\ res' = IF Tail(todo) = <<>> THEN "success" ELSE "none"

\* The handler has ended with an error.
Failed == todo' = <<>> /\ res' = "error"

\* The handler goes on to call x.
Replaced(x) == todo' = <<x>> \o Tail(todo) /\ res' = "none"

\* A call that is followed by nothing of its own.
LEMMA ReturnsEffect ==
    ASSUME todo \in Seq(Calls), todo # <<>>, NEW ok, Returns(ok, <<>>)
    PROVE  \/ Dropped /\ (ok \/ ~Fatal(Head(todo).call))
           \/ Failed /\ ~ok /\ Fatal(Head(todo).call)
  <1>1. <<>> \o Tail(todo) = Tail(todo)
    BY TailFacts
  <1> QED
    BY <1>1 DEF Returns, Dropped, Failed

\* A call that succeeded and is followed by x.
LEMMA ReturnsMore ==
    ASSUME todo \in Seq(Calls), todo # <<>>, NEW x \in Calls, Returns(TRUE, <<x>>)
    PROVE  Replaced(x)
  <1>1. <<x>> \o Tail(todo) # <<>>
    BY ReplacedFacts
  <1> QED
    BY <1>1 DEF Returns, Replaced

\* CallsInv is kept by a handler that goes on or ends.
LEMMA CallsDropped ==
    ASSUME CallsInv, todo # <<>>, handler' = handler, Dropped \/ Failed
    PROVE  CallsInv' /\ (todo' # <<>> => Head(todo').call # "recv")
  <1>1. CASE Failed
    BY <1>1 DEF Failed, CallsInv
  <1>2. CASE Dropped
    <2>1. /\ todo' \in Seq(Calls) /\ Len(todo') = Len(todo) - 1 /\ Len(todo) \in Nat \ {0}
          /\ \A i \in DOMAIN todo' : i + 1 \in DOMAIN todo /\ todo'[i] = todo[i + 1]
      BY <1>2, TailFacts DEF Dropped, CallsInv
    <2>2. \A i \in DOMAIN todo' : i \in Nat \ {0} /\ i + 1 > 1
      BY <2>1
    <2>3. /\ todo' = <<>> <=> res' # "none"
          /\ res' \in {"none", "success", "error"}
      BY <1>2 DEF Dropped
    <2>4. CallsInv'
      BY <2>1, <2>2, <2>3 DEF CallsInv
    <2>5. todo' # <<>> => Head(todo').call # "recv"
      <3> SUFFICES ASSUME todo' # <<>> PROVE Head(todo').call # "recv"
        OBVIOUS
      <3>1. 1 \in DOMAIN todo' /\ Head(todo') = todo'[1]
        BY <2>1, TailFacts
      <3> QED
        BY <2>1, <3>1 DEF CallsInv
    <2> QED
      BY <2>4, <2>5
  <1> QED
    BY <1>1, <1>2

\* CallsInv is kept when a call leads to another one with the same argument.
LEMMA CallsReplaced ==
    ASSUME CallsInv, todo # <<>>, handler' = handler,
           NEW x \in Calls, Replaced(x), x.arg = Head(todo).arg,
           \/ Head(todo).call = "getFlags" /\ x.call = "setFlags"
           \/ Head(todo).call = "sendAddr" /\ x.call = "recv"
    PROVE  CallsInv' /\ todo' # <<>> /\ Head(todo') = x
  <1>1. /\ todo' \in Seq(Calls) /\ todo' # <<>> /\ Len(todo') = Len(todo)
        /\ Head(todo') = x /\ todo'[1] = x
        /\ \A i \in DOMAIN todo' : i \in DOMAIN todo /\ (i > 1 => todo'[i] = todo[i])
    BY ReplacedFacts DEF Replaced, CallsInv
  <1>2. Head(todo) = todo[1] /\ 1 \in DOMAIN todo
    BY TailFacts DEF CallsInv
  <1>3. x.arg \in Args(x.call)
    BY <1>2, ArgsOf DEF CallsInv
  <1>4. \A i \in DOMAIN todo' : i = 1 \/ i > 1
    BY <1>1
  <1>5. res' = "none"
    BY DEF Replaced
  <1>6. ASSUME NEW i \in DOMAIN todo'
        PROVE  /\ todo'[i].arg \in Args(todo'[i].call)
               /\ i > 1 => todo'[i].call \notin {"setFlags", "recv"}
               /\ todo'[i].call = "getIndex" => handler.kind = "init"
               /\ todo'[i].call = "sendRoute" => i = Len(todo') /\ handler.kind = "configure"
               /\ handler.kind = "configure" =>
                    /\ todo'[i].call \in {"getFlags", "setFlags"} => todo'[i].arg = TRUE
                    /\ todo'[i].call \in {"sendAddr", "recv"} =>
                          todo'[i].arg = handler.lease.addr
    <2>1. CASE i = 1
      BY <1>1, <1>2, <1>3, <2>1 DEF CallsInv
    <2>2. CASE i > 1
      BY <1>1, <1>6, <2>2 DEF CallsInv
    <2> QED
      BY <1>4, <2>1, <2>2
  <1> QED
    BY <1>1, <1>5, <1>6 DEF CallsInv

\* No call of N is left.
Without(N) == \A i \in DOMAIN todo : todo[i].call \notin N

\* Calls that are no longer left, and were not just made, were not left before.
LEMMA WithoutBefore ==
    ASSUME CallsInv, todo # <<>>, NEW N, Head(todo).call \notin N, Without(N)',
           Dropped \/ \E x \in Calls : Replaced(x)
    PROVE  Without(N)
  <1> SUFFICES ASSUME NEW i \in DOMAIN todo PROVE todo[i].call \notin N
    BY DEF Without
  <1>1. Len(todo) \in Nat \ {0} /\ Head(todo) = todo[1] /\ DOMAIN todo = 1..Len(todo)
    BY TailFacts DEF CallsInv
  <1>2. CASE i = 1
    BY <1>1, <1>2
  <1>3. CASE i # 1 /\ Dropped
    <2>1. i - 1 \in DOMAIN todo' /\ todo'[i - 1] = todo[i]
      BY <1>1, <1>3, TailFacts DEF Dropped, CallsInv
    <2> QED
      BY <2>1 DEF Without
  <1>4. ASSUME i # 1, NEW x \in Calls, Replaced(x) PROVE todo[i].call \notin N
    <2>1. i \in DOMAIN todo' /\ i > 1 /\ todo'[i] = todo[i]
      BY <1>1, <1>4, ReplacedFacts DEF Replaced, CallsInv
    <2> QED
      BY <2>1 DEF Without
  <1> QED
    BY <1>2, <1>3, <1>4

-----------------------------------------------------------------------------
(* The device and the socket                                                *)

\* The device of that name is the one that came last or is away, with its routes gone,
\* and the index that init got is not one that is still to come.
DevInv ==
    /\ dev \in [index: 0..MaxIndex, up: BOOLEAN, mtu: Mtus \cup {DefaultMtu},
                addrs: SUBSET Addrs]
    /\ lastIndex \in 1..MaxIndex
    /\ dev.index \in {0, lastIndex}
    /\ mIndex \in 0..lastIndex
    /\ routes \in Seq(Gateways)
    /\ dev.index = 0 => routes = <<>>

\* The socket holds the answer to the request that was sent last, while setAddress
\* waits for it, and nothing otherwise.
AnswersInv ==
    IF todo # <<>> /\ Head(todo).call = "recv"
    THEN \E answer \in {"done", "refused", "nobufs"} : answers = <<answer>>
    ELSE answers = <<>>

\* What configureDhcp has done so far: the device it was asked for is up once the flags
\* are dealt with, and has the address once the answer is read, or is there and good.
AppliedInv ==
    handler.kind = "configure" /\ Indexed /\ res # "error" =>
        /\ Without({"getFlags", "setFlags"}) => dev.up
        /\ Without({"sendAddr", "recv"}) => handler.lease.addr \in dev.addrs
        /\ todo # <<>> /\ Head(todo).call = "recv" /\ answers = <<"done">>
              => handler.lease.addr \in dev.addrs

\* The inductive invariant.
InterfaceInv == CallsInv /\ DevInv /\ AnswersInv /\ AppliedInv /\ RouteHasAddress

\* Calls are calls.
LEMMA CallType ==
    ASSUME NEW n \in Names, NEW a \in Nat \cup BOOLEAN
    PROVE  Call(n, a) \in Calls /\ Call(n, a).call = n /\ Call(n, a).arg = a
  BY DEF Call, Calls

LEMMA CallFields ==
    \A name, arg : Call(name, arg).call = name /\ Call(name, arg).arg = arg
  BY DEF Call

\* Two sequences in a row.
LEMMA ConcatFacts ==
    ASSUME NEW S, NEW s \in Seq(S), NEW t \in Seq(S)
    PROVE  /\ s \o t \in Seq(S) /\ Len(s \o t) = Len(s) + Len(t)
           /\ DOMAIN (s \o t) = 1..(Len(s) + Len(t))
           /\ \A i \in 1..Len(s) : (s \o t)[i] = s[i]
           /\ \A i \in (Len(s) + 1)..(Len(s) + Len(t)) : (s \o t)[i] = t[i - Len(s)]
  OBVIOUS

\* One more element.
LEMMA AppendFacts ==
    ASSUME NEW S, NEW s \in Seq(S), NEW x \in S
    PROVE  /\ s \o <<x>> \in Seq(S) /\ Len(s \o <<x>>) = Len(s) + 1
           /\ s \o <<x>> # <<>>
           /\ DOMAIN (s \o <<x>>) = 1..(Len(s) + 1)
           /\ (s \o <<x>>)[Len(s) + 1] = x
           /\ \A i \in 1..Len(s) : (s \o <<x>>)[i] = s[i]
  OBVIOUS

\* The calls of Interface::init.
LEMMA InitFirst ==
    LET S == {Call("getIndex", 0), Call("getMac", 0), Call("getFlags", TRUE),
              Call("sendAddr", NoAddr)}
    IN  S \subseteq Calls /\ InitCalls \in Seq(S) /\ InitCalls # <<>>
  <1> DEFINE X == Call("getIndex", 0)
             Y == Call("getMac", 0)
             F == Call("getFlags", TRUE)
             A == Call("sendAddr", NoAddr)
             S == {X, Y, F, A}
  <1>0. X \in Calls /\ Y \in Calls /\ F \in Calls /\ A \in Calls
    BY CallType DEF Names, NoAddr
  <1>1. S \subseteq Calls
    BY <1>0
  <1>2. InitCalls = (<<X, Y>> \o <<F>>) \o <<A>>
    BY DEF InitCalls, SetInterfaceUp, SetAddress
  <1>3. X \in S /\ Y \in S /\ F \in S /\ A \in S
    OBVIOUS
  <1> HIDE DEF X, Y, F, A, S
  <1>4. <<X, Y>> \in Seq(S)
    BY <1>3
  <1>5. <<X, Y>> \o <<F>> \in Seq(S)
    BY <1>3, <1>4, AppendFacts
  <1>6. (<<X, Y>> \o <<F>>) \o <<A>> \in Seq(S) /\ (<<X, Y>> \o <<F>>) \o <<A>> # <<>>
    BY <1>3, <1>5, AppendFacts
  <1> QED
    BY <1>1, <1>2, <1>6 DEF S, X, Y, F, A

\* The calls of haltNetwork.
LEMMA HaltFirst ==
    LET S == {Call("sendAddr", NoAddr), Call("getFlags", FALSE)}
    IN  S \subseteq Calls /\ HaltCalls \in Seq(S) /\ HaltCalls # <<>>
  <1> DEFINE A == Call("sendAddr", NoAddr)
             F == Call("getFlags", FALSE)
             S == {A, F}
  <1>0. F \in Calls /\ A \in Calls
    BY CallType DEF Names, NoAddr
  <1>1. S \subseteq Calls
    BY <1>0
  <1>2. HaltCalls = <<A>> \o <<F>>
    BY DEF HaltCalls, SetInterfaceUp, SetAddress
  <1>3. A \in S /\ F \in S
    OBVIOUS
  <1> HIDE DEF A, F, S
  <1>4. <<A>> \o <<F>> \in Seq(S) /\ <<A>> \o <<F>> # <<>>
    BY <1>3, AppendFacts
  <1> QED
    BY <1>1, <1>2, <1>4 DEF A, F, S

\* The calls of configureDhcp: the flags, the MTU and the address, among them certainly
\* the first and the last, and then perhaps the route.
LEMMA ConfigureFirst ==
    ASSUME NEW l \in Lease
    PROVE  LET F == Call("getFlags", TRUE)
               M == Call("setMtu", l.mtu)
               A == Call("sendAddr", l.addr)
               R == Call("sendRoute", l.gw)
               s == ConfigureCalls(l)
           IN  /\ s \in Seq(Calls) /\ s # <<>>
               /\ \E i \in DOMAIN s : s[i] = F
               /\ \E i \in DOMAIN s : s[i] = A
               /\ \A i \in DOMAIN s : s[i] \in {F, M, A} \/ (s[i] = R /\ i = Len(s))
  <1> DEFINE F == Call("getFlags", TRUE)
             M == Call("setMtu", l.mtu)
             A == Call("sendAddr", l.addr)
             R == Call("sendRoute", l.gw)
             S == {F, M, A}
             mtu == IF l.mtu # 0 THEN <<M>> ELSE <<>>
             route == IF NoGateway THEN <<>> ELSE <<R>>
             p == <<F>> \o mtu
             q == p \o <<A>>
  <1>1. F \in Calls /\ M \in Calls /\ A \in Calls /\ R \in Calls
    BY CallType, InterfaceAssumption DEF Lease, Names
  <1>2. ConfigureCalls(l) = q \o route
    BY DEF ConfigureCalls, SetInterfaceUp, SetMtu, SetAddress, SetDefaultGateway
  <1>3. F \in S /\ M \in S /\ A \in S
    OBVIOUS
  <1>4. S \subseteq Calls
    BY <1>1
  <1> HIDE DEF F, M, A, R, S
  <1>5. mtu \in Seq(S) /\ <<F>> \in Seq(S)
    BY <1>3
  <1> HIDE DEF mtu
  <1>6. p \in Seq(S) /\ Len(p) >= 1 /\ p[1] = F
    BY <1>5, ConcatFacts
  <1> HIDE DEF p
  <1>7. /\ q \in Seq(S) /\ Len(q) = Len(p) + 1 /\ q[Len(p) + 1] = A
        /\ \A i \in 1..Len(p) : q[i] = p[i]
    BY <1>3, <1>6, AppendFacts
  <1> HIDE DEF q
  <1>8. /\ Len(q) \in Nat /\ Len(q) >= 1 /\ q[1] = F /\ q[Len(q)] = A
        /\ \A i \in 1..Len(q) : q[i] \in S
    BY <1>6, <1>7
  <1>9. CASE NoGateway
    <2>1. q \o route = q
      BY <1>7, <1>9
    <2>2. q \in Seq(Calls) /\ q # <<>> /\ DOMAIN q = 1..Len(q)
      BY <1>4, <1>7, <1>8
    <2>3. q[1] = F /\ 1 \in DOMAIN q /\ q[Len(q)] = A /\ Len(q) \in DOMAIN q
      BY <1>8, <2>2
    <2>4. \A i \in DOMAIN q : q[i] \in S \/ (q[i] = R /\ i = Len(q))
      BY <1>8, <2>2
    <2> QED
      BY <1>2, <2>1, <2>2, <2>3, <2>4 DEF F, M, A, R, S
  <1>10. CASE ~NoGateway
    <2> DEFINE r == q \o <<R>>
    <2>1. q \o route = r
      BY <1>10
    <2>2. q \in Seq(Calls)
      BY <1>4, <1>7
    <2>3. /\ r \in Seq(Calls) /\ r # <<>> /\ Len(r) = Len(q) + 1
          /\ DOMAIN r = 1..(Len(q) + 1) /\ r[Len(q) + 1] = R
          /\ \A i \in 1..Len(q) : r[i] = q[i]
      BY <1>1, <2>2, AppendFacts
    <2> HIDE DEF r
    <2>4. r[1] = F /\ 1 \in DOMAIN r /\ r[Len(q)] = A /\ Len(q) \in DOMAIN r
      BY <1>8, <2>3
    <2>5. \A i \in DOMAIN r : r[i] \in S \/ (r[i] = R /\ i = Len(r))
      BY <1>8, <2>3
    <2> QED
      BY <1>2, <2>1, <2>3, <2>4, <2>5 DEF F, M, A, R, S
  <1> QED
    BY <1>9, <1>10

-----------------------------------------------------------------------------
(* The initial state                                                        *)

LEMMA InitInv == Init => InterfaceInv
  <1> SUFFICES ASSUME Init PROVE InterfaceInv
    OBVIOUS
  <1> DEFINE S == {Call("getIndex", 0), Call("getMac", 0), Call("getFlags", TRUE),
                   Call("sendAddr", NoAddr)}
  <1>1. S \subseteq Calls /\ todo \in Seq(S) /\ todo # <<>>
    BY InitFirst DEF Init
  <1>2. ASSUME NEW x \in S
        PROVE  /\ x.arg \in Args(x.call)
               /\ x.call \notin {"setFlags", "recv", "sendRoute"}
    <2>1. CASE x = Call("getIndex", 0)
      BY <2>1, CallFields, ArgsOf
    <2>2. CASE x = Call("getMac", 0)
      BY <2>2, CallFields, ArgsOf
    <2>3. CASE x = Call("getFlags", TRUE)
      <3>1. x.call = "getFlags" /\ x.arg = TRUE
        BY <2>3, CallFields, Zenon
      <3> QED
        BY <3>1, ArgsOf
    <2>4. CASE x = Call("sendAddr", NoAddr)
      BY <2>4, CallFields, ArgsOf
    <2> QED
      BY <1>2, <2>1, <2>2, <2>3, <2>4, Zenon
  <1>3. handler.kind = "init" /\ handler.lease = NoLease /\ res = "none"
    BY DEF Init
  <1> HIDE DEF S
  <1>4. todo \in Seq(Calls) /\ \A i \in DOMAIN todo : todo[i] \in S
    BY <1>1
  <1>5. CallsInv
    <2>1. handler \in [kind: {"init", "configure", "halt"}, lease: Lease \cup {NoLease}]
      BY DEF Init
    <2> QED
      BY <1>1, <1>2, <1>3, <1>4, <2>1 DEF CallsInv
  <1>6. DevInv
    <2>1. PICK up \in BOOLEAN : dev = [Device(1) EXCEPT !.up = up]
      BY DEF Init
    <2>2. 1 \in 0..MaxIndex /\ 1 \in 1..MaxIndex
      BY InterfaceAssumption
    <2>3. dev = [index |-> 1, up |-> up, mtu |-> DefaultMtu, addrs |-> {}]
      BY <2>1 DEF Device
    <2>4. /\ dev \in [index: 0..MaxIndex, up: BOOLEAN, mtu: Mtus \cup {DefaultMtu},
                       addrs: SUBSET Addrs]
          /\ dev.index = 1
      BY <2>2, <2>3
    <2> QED
      BY <2>2, <2>4 DEF DevInv, Init
  <1>7. Head(todo).call # "recv"
    BY <1>1, <1>2, <1>4, TailFacts
  <1> QED
    BY <1>3, <1>5, <1>6, <1>7
    DEF InterfaceInv, AnswersInv, AppliedInv, RouteHasAddress, Init

-----------------------------------------------------------------------------
(* System calls                                                             *)

\* AppliedInv is kept by a call that fails its handler, or that takes nothing off the
\* device and, where it is the last that the flags or the address wait for, has put
\* them there.
LEMMA AppliedStep ==
    ASSUME CallsInv, AppliedInv, todo # <<>>,
           handler' = handler, mIndex' = mIndex, dev'.index = dev.index,
           Failed \/ Dropped \/ \E x \in Calls : Replaced(x),
           ASSUME handler.kind = "configure", Indexed, ~Failed
           PROVE  /\ dev.up => dev'.up
                  /\ dev.addrs \subseteq dev'.addrs
                  /\ Head(todo).call \in {"getFlags", "setFlags"} =>
                        dev'.up \/ ~Without({"getFlags", "setFlags"})'
                  /\ Head(todo).call \in {"sendAddr", "recv"} =>
                        handler.lease.addr \in dev'.addrs \/ ~Without({"sendAddr", "recv"})'
                  /\ todo' # <<>> /\ Head(todo').call = "recv" /\ answers' = <<"done">>
                        => handler.lease.addr \in dev'.addrs
    PROVE  AppliedInv'
  <1> SUFFICES ASSUME handler.kind = "configure", Indexed, res' # "error"
               PROVE  /\ Without({"getFlags", "setFlags"})' => dev'.up
                      /\ Without({"sendAddr", "recv"})' => handler.lease.addr \in dev'.addrs
                      /\ todo' # <<>> /\ Head(todo').call = "recv" /\ answers' = <<"done">>
                            => handler.lease.addr \in dev'.addrs
    BY DEF AppliedInv, Indexed, Present
  <1>1. ~Failed /\ res # "error"
    BY DEF Failed, CallsInv
  <1>2. Dropped \/ \E x \in Calls : Replaced(x)
    BY <1>1
  <1>3. ASSUME Without({"getFlags", "setFlags"})' PROVE dev'.up
    <2>1. CASE Head(todo).call \in {"getFlags", "setFlags"}
      BY <1>1, <1>3, <2>1
    <2>2. CASE Head(todo).call \notin {"getFlags", "setFlags"}
      <3>1. Without({"getFlags", "setFlags"})
        BY <1>2, <1>3, <2>2, WithoutBefore
      <3> QED
        BY <1>1, <3>1 DEF AppliedInv
    <2> QED
      BY <2>1, <2>2
  <1>4. ASSUME Without({"sendAddr", "recv"})' PROVE handler.lease.addr \in dev'.addrs
    <2>1. CASE Head(todo).call \in {"sendAddr", "recv"}
      BY <1>1, <1>4, <2>1
    <2>2. CASE Head(todo).call \notin {"sendAddr", "recv"}
      <3>1. Without({"sendAddr", "recv"})
        BY <1>2, <1>4, <2>2, WithoutBefore
      <3> QED
        BY <1>1, <3>1 DEF AppliedInv
    <2> QED
      BY <2>1, <2>2
  <1> QED
    BY <1>1, <1>3, <1>4

\* A call that only reads, and is not followed by a call of its own.
LEMMA Reads ==
    ASSUME InterfaceInv, todo # <<>>, NEW ok, Returns(ok, <<>>),
           Head(todo).call \notin {"getFlags", "setFlags", "sendAddr", "recv"},
           UNCHANGED <<dev, lastIndex, routes, answers, mIndex, handler>>
    PROVE  InterfaceInv'
  <1>1. Dropped \/ Failed
    BY ReturnsEffect DEF InterfaceInv, CallsInv
  <1>2. CallsInv' /\ (todo' # <<>> => Head(todo').call # "recv")
    BY <1>1, CallsDropped DEF InterfaceInv
  <1>3. AnswersInv'
    BY <1>2 DEF InterfaceInv, AnswersInv
  <1>4. AppliedInv'
    BY <1>1, <1>2, AppliedStep DEF InterfaceInv
  <1> QED
    BY <1>2, <1>3, <1>4 DEF InterfaceInv, DevInv, RouteHasAddress

LEMMA GetMacInv ==
    ASSUME InterfaceInv, GetMac
    PROVE  InterfaceInv'
  BY Reads DEF GetMac, Makes

\* The index is that of the device of now; only init asks for it.
LEMMA GetIndexInv ==
    ASSUME InterfaceInv, GetIndex
    PROVE  InterfaceInv'
  <1>1. Dropped \/ Failed
    BY ReturnsEffect DEF InterfaceInv, CallsInv, GetIndex, Makes
  <1>2. CallsInv' /\ (todo' # <<>> => Head(todo').call # "recv")
    BY <1>1, CallsDropped DEF InterfaceInv, GetIndex, Makes
  <1>3. AnswersInv'
    BY <1>2 DEF InterfaceInv, AnswersInv, GetIndex, Makes
  <1>4. 1 \in DOMAIN todo /\ Head(todo) = todo[1]
    BY TailFacts DEF InterfaceInv, CallsInv, GetIndex, Makes
  <1>5. AppliedInv'
    BY <1>4 DEF InterfaceInv, CallsInv, AppliedInv, GetIndex, Makes
  <1>6. DevInv'
    <2>1. mIndex' \in 0..lastIndex
      BY DEF InterfaceInv, DevInv, GetIndex, Present
    <2> QED
      BY <2>1 DEF InterfaceInv, DevInv, GetIndex
  <1> QED
    BY <1>2, <1>3, <1>5, <1>6 DEF InterfaceInv, RouteHasAddress, GetIndex

\* The call at hand.
LEMMA HeadFacts ==
    ASSUME CallsInv, todo # <<>>
    PROVE  /\ 1 \in DOMAIN todo /\ Head(todo) = todo[1] /\ Head(todo) \in Calls
           /\ Head(todo).arg \in Args(Head(todo).call) /\ res = "none"
           /\ Head(todo).call = "sendRoute" =>
                 handler.kind = "configure" /\ DOMAIN todo = {1}
           /\ handler.kind = "configure" =>
                 /\ Head(todo).call \in {"getFlags", "setFlags"} => Head(todo).arg = TRUE
                 /\ Head(todo).call \in {"sendAddr", "recv"} =>
                       Head(todo).arg = handler.lease.addr
  <1>1. /\ 1 \in DOMAIN todo /\ Head(todo) = todo[1] /\ Head(todo) \in Calls
        /\ DOMAIN todo = 1..Len(todo)
    BY TailFacts DEF CallsInv
  <1>2. res = "none"
    BY DEF CallsInv
  <1>3. Head(todo).call = "sendRoute" => handler.kind = "configure" /\ DOMAIN todo = {1}
    BY <1>1 DEF CallsInv
  <1> QED
    BY <1>1, <1>2, <1>3 DEF CallsInv

\* The flags are as wanted, or are written next.
LEMMA GetFlagsInv ==
    ASSUME InterfaceInv, GetFlags
    PROVE  InterfaceInv'
  <1> DEFINE want == Head(todo).arg
             x == Call("setFlags", want)
  <1>1. CallsInv /\ todo \in Seq(Calls) /\ todo # <<>> /\ Head(todo).call = "getFlags"
    BY DEF InterfaceInv, CallsInv, GetFlags, Makes
  <1>2. want \in BOOLEAN /\ (handler.kind = "configure" => want = TRUE)
    BY <1>1, HeadFacts, ArgsOf
  <1>3. x \in Calls /\ x.call = "setFlags" /\ x.arg = want
    BY <1>2, CallType DEF Names
  <1>4. UNCHANGED <<dev, lastIndex, routes, answers, mIndex, handler>>
    BY DEF GetFlags
  <1> HIDE DEF x
  <1>5. CASE Present /\ dev.up # want
    <2>1. Returns(TRUE, <<x>>)
      BY <1>5 DEF GetFlags, x, want
    <2>2. Replaced(x)
      BY <1>1, <1>3, <2>1, ReturnsMore
    <2>3. CallsInv' /\ todo' # <<>> /\ Head(todo') = x
      BY <1>1, <1>3, <1>4, <2>2, CallsReplaced
    <2>4. 1 \in DOMAIN todo' /\ todo'[1] = x
      BY <2>3, TailFacts DEF CallsInv
    <2>5. ~Without({"getFlags", "setFlags"})'
      BY <1>3, <2>4 DEF Without
    <2>6. AppliedInv'
      BY <1>1, <1>3, <1>4, <2>2, <2>3, <2>5, AppliedStep DEF InterfaceInv
    <2>7. AnswersInv'
      BY <1>1, <1>3, <1>4, <2>3 DEF InterfaceInv, AnswersInv
    <2> QED
      BY <1>4, <2>3, <2>6, <2>7 DEF InterfaceInv, DevInv, RouteHasAddress
  <1>6. CASE ~(Present /\ dev.up # want)
    <2>1. Returns(Present, <<>>)
      BY <1>6 DEF GetFlags, want
    <2>2. \/ Dropped /\ (Present \/ ~Fatal(Head(todo).call))
          \/ Failed /\ ~Present /\ Fatal(Head(todo).call)
      BY <1>1, <2>1, ReturnsEffect
    <2>3. CallsInv' /\ (todo' # <<>> => Head(todo').call # "recv")
      BY <1>1, <1>4, <2>2, CallsDropped
    <2>4. handler.kind = "configure" /\ ~Failed => dev.up
      BY <1>1, <1>2, <1>6, <2>2 DEF Fatal, InterfaceInv, DevInv
    <2>5. AppliedInv'
      BY <1>1, <1>4, <2>2, <2>3, <2>4, AppliedStep DEF InterfaceInv
    <2>6. AnswersInv'
      BY <1>1, <1>4, <2>3 DEF InterfaceInv, AnswersInv
    <2> QED
      BY <1>4, <2>3, <2>5, <2>6 DEF InterfaceInv, DevInv, RouteHasAddress
  <1> QED
    BY <1>5, <1>6

\* IFF_UP is written: a device that goes down takes its routes with it.
LEMMA SetFlagsInv ==
    ASSUME InterfaceInv, SetFlags
    PROVE  InterfaceInv'
  <1> DEFINE want == Head(todo).arg
  <1>1. CallsInv /\ todo \in Seq(Calls) /\ todo # <<>> /\ Head(todo).call = "setFlags"
    BY DEF InterfaceInv, CallsInv, SetFlags, Makes
  <1>2. want \in BOOLEAN /\ (handler.kind = "configure" => want = TRUE)
    BY <1>1, HeadFacts, ArgsOf
  <1>3. UNCHANGED <<lastIndex, answers, mIndex, handler>>
    BY DEF SetFlags
  <1>4. PICK ok \in BOOLEAN :
          /\ dev' = IF ok THEN [dev EXCEPT !.up = want] ELSE dev
          /\ routes' = IF ok /\ ~want THEN <<>> ELSE routes
          /\ Returns(ok, <<>>)
    BY Zenon DEF SetFlags, Grants
  <1>5. (Dropped /\ (ok \/ ~Fatal("setFlags"))) \/ Failed
    BY <1>1, <1>4, ReturnsEffect
  <1>6. CallsInv' /\ (todo' # <<>> => Head(todo').call # "recv")
    BY <1>1, <1>3, <1>5, CallsDropped
  <1>7. AnswersInv'
    BY <1>1, <1>3, <1>6 DEF InterfaceInv, AnswersInv
  <1>8. /\ dev' \in [index: 0..MaxIndex, up: BOOLEAN, mtu: Mtus \cup {DefaultMtu},
                     addrs: SUBSET Addrs]
        /\ dev'.index = dev.index /\ dev'.addrs = dev.addrs
        /\ dev'.up = IF ok THEN want ELSE dev.up
    BY <1>2, <1>4 DEF InterfaceInv, DevInv
  <1>9. routes' \in Seq(Gateways) /\ (routes' # <<>> => routes' = routes /\ ~(ok /\ ~want))
    BY <1>4 DEF InterfaceInv, DevInv
  <1>10. DevInv'
    BY <1>3, <1>8, <1>9 DEF InterfaceInv, DevInv
  <1>11. RouteHasAddress'
    BY <1>2, <1>8, <1>9 DEF InterfaceInv, RouteHasAddress
  <1>12. handler.kind = "configure" /\ ~Failed => dev'.up
    BY <1>2, <1>5, <1>8 DEF Fatal
  <1>13. AppliedInv'
    BY <1>1, <1>3, <1>5, <1>6, <1>8, <1>12, AppliedStep DEF InterfaceInv
  <1> QED
    BY <1>6, <1>7, <1>10, <1>11, <1>13 DEF InterfaceInv

\* The MTU is written or is left as it was: configureDhcp goes on either way.
LEMMA SetIfMtuInv ==
    ASSUME InterfaceInv, SetIfMtu
    PROVE  InterfaceInv'
  <1> DEFINE mtu == Head(todo).arg
  <1>1. CallsInv /\ todo \in Seq(Calls) /\ todo # <<>> /\ Head(todo).call = "setMtu"
    BY DEF InterfaceInv, CallsInv, SetIfMtu, Makes
  <1>2. mtu \in Mtus
    BY <1>1, HeadFacts, ArgsOf
  <1>3. UNCHANGED <<lastIndex, routes, answers, mIndex, handler>>
    BY DEF SetIfMtu
  <1>4. PICK ok \in BOOLEAN :
          /\ dev' = IF ok THEN [dev EXCEPT !.mtu = mtu] ELSE dev
          /\ Returns(ok, <<>>)
    BY Zenon DEF SetIfMtu, Grants
  <1>5. Dropped \/ Failed
    BY <1>1, <1>4, ReturnsEffect
  <1>6. CallsInv' /\ (todo' # <<>> => Head(todo').call # "recv")
    BY <1>1, <1>3, <1>5, CallsDropped
  <1>7. AnswersInv'
    BY <1>1, <1>3, <1>6 DEF InterfaceInv, AnswersInv
  <1>8. /\ dev' \in [index: 0..MaxIndex, up: BOOLEAN, mtu: Mtus \cup {DefaultMtu},
                     addrs: SUBSET Addrs]
        /\ dev'.index = dev.index /\ dev'.addrs = dev.addrs /\ dev'.up = dev.up
    BY <1>2, <1>4 DEF InterfaceInv, DevInv
  <1>9. AppliedInv'
    BY <1>1, <1>3, <1>5, <1>6, <1>8, AppliedStep DEF InterfaceInv
  <1> QED
    BY <1>3, <1>6, <1>7, <1>8, <1>9 DEF InterfaceInv, DevInv, RouteHasAddress

\* The request for the address leaves one answer, and "done" only if the address is on
\* the device.
LEMMA SendAddressInv ==
    ASSUME InterfaceInv, SendAddress
    PROVE  InterfaceInv'
  <1> DEFINE a == Head(todo).arg
             x == Call("recv", a)
  <1>1. CallsInv /\ todo \in Seq(Calls) /\ todo # <<>> /\ Head(todo).call = "sendAddr"
    BY DEF InterfaceInv, CallsInv, SendAddress, Makes
  <1>2. /\ a \in Addrs \cup {NoAddr}
        /\ handler.kind = "configure" => a = handler.lease.addr /\ a \in Addrs
    BY <1>1, HeadFacts, ArgsOf DEF CallsInv, Lease
  <1>3. x \in Calls /\ x.call = "recv" /\ x.arg = a
    <2>1. a \in Nat \cup BOOLEAN
      BY <1>2, InterfaceAssumption DEF NoAddr
    <2> QED
      BY <2>1, CallType DEF Names
  <1>4. UNCHANGED <<lastIndex, routes, mIndex, handler>> /\ answers = <<>>
    BY <1>1 DEF SendAddress, InterfaceInv, AnswersInv
  <1> HIDE DEF x
  <1>5. PICK sent \in BOOLEAN, granted \in BOOLEAN, kept \in BOOLEAN :
          LET ok == sent /\ Indexed /\ granted
          IN  /\ dev' = IF ok /\ a # NoAddr
                        THEN [dev EXCEPT !.addrs = @ \cup {a}] ELSE dev
              /\ answers' = IF ~sent THEN answers
                            ELSE IF ~kept THEN Append(answers, "nobufs")
                            ELSE IF ~ok THEN Append(answers, "refused")
                            ELSE IF "ACK" \in AddressFlags THEN Append(answers, "done")
                            ELSE answers
              /\ Returns(sent, IF sent THEN <<x>> ELSE <<>>)
    BY Zenon DEF SendAddress, Grants, x
  <1>6. /\ dev' \in [index: 0..MaxIndex, up: BOOLEAN, mtu: Mtus \cup {DefaultMtu},
                     addrs: SUBSET Addrs]
        /\ dev'.index = dev.index /\ dev'.up = dev.up /\ dev.addrs \subseteq dev'.addrs
        /\ sent /\ Indexed /\ granted /\ a # NoAddr => a \in dev'.addrs
    BY <1>2, <1>5 DEF InterfaceInv, DevInv
  <1>7. DevInv'
    BY <1>4, <1>6 DEF InterfaceInv, DevInv
  <1>8. RouteHasAddress'
    BY <1>4, <1>6 DEF InterfaceInv, RouteHasAddress
  <1>9. CASE ~sent
    <2>1. Returns(sent, <<>>) /\ answers' = answers
      BY <1>5, <1>9
    <2>2. (Dropped /\ ~Fatal("sendAddr")) \/ Failed
      BY <1>1, <1>9, <2>1, ReturnsEffect
    <2>3. CallsInv' /\ (todo' # <<>> => Head(todo').call # "recv")
      BY <1>1, <1>4, <2>2, CallsDropped
    <2>4. handler.kind = "configure" => Failed
      BY <2>2 DEF Fatal
    <2>5. AppliedInv'
      BY <1>1, <1>4, <1>6, <2>2, <2>4, AppliedStep DEF InterfaceInv
    <2> QED
      BY <1>4, <1>7, <1>8, <2>1, <2>3, <2>5 DEF InterfaceInv, AnswersInv
  <1>10. CASE sent
    <2>1. Returns(TRUE, <<x>>)
      BY <1>5, <1>10
    <2>2. Replaced(x)
      BY <1>1, <1>3, <2>1, ReturnsMore
    <2>3. CallsInv' /\ todo' # <<>> /\ Head(todo') = x
      BY <1>1, <1>3, <1>4, <2>2, CallsReplaced
    <2>4. \/ answers' = <<"nobufs">> \/ answers' = <<"refused">>
          \/ answers' = <<"done">> /\ Indexed /\ granted
      BY <1>4, <1>5, <1>10 DEF AddressFlags
    <2>5. AnswersInv'
      BY <1>3, <2>3, <2>4 DEF AnswersInv
    <2>6. 1 \in DOMAIN todo' /\ todo'[1] = x
      BY <2>3, TailFacts DEF CallsInv
    <2>7. ~Without({"sendAddr", "recv"})'
      BY <1>3, <2>6 DEF Without
    <2>8. handler.kind = "configure" /\ answers' = <<"done">>
             => handler.lease.addr \in dev'.addrs
      <3> SUFFICES ASSUME handler.kind = "configure", answers' = <<"done">>
                   PROVE  handler.lease.addr \in dev'.addrs
        OBVIOUS
      <3>1. answers'[1] = "done"
        OBVIOUS
      <3>2. Indexed /\ granted
        BY <2>4, <3>1
      <3>3. a # NoAddr
        BY <1>2, InterfaceAssumption
      <3> QED
        BY <1>2, <1>6, <1>10, <3>2, <3>3
    <2>9. AppliedInv'
      BY <1>1, <1>3, <1>4, <1>6, <2>2, <2>7, <2>8, AppliedStep DEF InterfaceInv
    <2> QED
      BY <1>7, <1>8, <2>3, <2>5, <2>9 DEF InterfaceInv
  <1> QED
    BY <1>9, <1>10

\* The answer that is read is the one of the request before.
LEMMA RecvAnswerInv ==
    ASSUME InterfaceInv, RecvAnswer
    PROVE  InterfaceInv'
  <1>1. CallsInv /\ todo \in Seq(Calls) /\ todo # <<>> /\ Head(todo).call = "recv"
    BY DEF InterfaceInv, CallsInv, RecvAnswer, Makes
  <1>2. PICK answer \in {"done", "refused", "nobufs"} : answers = <<answer>>
    BY <1>1 DEF InterfaceInv, AnswersInv
  <1>3. answers' = <<>> /\ Returns(answer = "done", <<>>)
    BY <1>2 DEF RecvAnswer, Accepted
  <1>4. UNCHANGED <<dev, lastIndex, routes, mIndex, handler>>
    BY DEF RecvAnswer
  <1>5. (Dropped /\ (answer = "done" \/ ~Fatal("recv"))) \/ Failed
    BY <1>1, <1>3, ReturnsEffect
  <1>6. CallsInv' /\ (todo' # <<>> => Head(todo').call # "recv")
    BY <1>1, <1>4, <1>5, CallsDropped
  <1>7. AnswersInv'
    BY <1>3, <1>6 DEF AnswersInv
  <1>8. res # "error"
    BY <1>1, HeadFacts
  <1>9. handler.kind = "configure" /\ Indexed /\ ~Failed => handler.lease.addr \in dev.addrs
    BY <1>1, <1>2, <1>5, <1>8 DEF Fatal, InterfaceInv, AppliedInv
  <1>10. AppliedInv'
    BY <1>1, <1>4, <1>5, <1>6, <1>9, AppliedStep DEF InterfaceInv
  <1> QED
    BY <1>4, <1>6, <1>7, <1>10 DEF InterfaceInv, DevInv, RouteHasAddress

\* The route comes last, when the device is up and has the address.
LEMMA SendRouteInv ==
    ASSUME InterfaceInv, SendRoute
    PROVE  InterfaceInv'
  <1> DEFINE gw == Head(todo).arg
  <1>1. CallsInv /\ todo \in Seq(Calls) /\ todo # <<>> /\ Head(todo).call = "sendRoute"
    BY DEF InterfaceInv, CallsInv, SendRoute, Makes
  <1>2. /\ gw \in Gateways /\ handler.kind = "configure" /\ DOMAIN todo = {1}
        /\ Head(todo) = todo[1] /\ res = "none"
    BY <1>1, HeadFacts, ArgsOf
  <1>3. Without({"sendAddr", "recv"})
    BY <1>1, <1>2 DEF Without
  <1>4. Indexed => dev.addrs # {}
    BY <1>2, <1>3 DEF InterfaceInv, AppliedInv
  <1>5. UNCHANGED <<dev, lastIndex, answers, mIndex, handler>>
    BY DEF SendRoute
  <1>6. PICK sent \in BOOLEAN, granted \in BOOLEAN :
          /\ routes' = IF sent /\ granted /\ Indexed /\ dev.up THEN Installed(gw) ELSE routes
          /\ Returns(sent, <<>>)
    BY Zenon DEF SendRoute, Grants
  <1>7. routes' \in Seq(Gateways) /\ (routes' # routes => Indexed /\ dev.up)
    <2>1. routes \in Seq(Gateways)
      BY DEF InterfaceInv, DevInv
    <2>2. <<gw>> \o routes \in Seq(Gateways)
      BY <1>2, <2>1
    <2>3. Installed(gw) \in Seq(Gateways)
      BY <2>1, <2>2 DEF Installed, RouteFlags
    <2> QED
      BY <1>6, <2>1, <2>3
  <1>8. Dropped \/ Failed
    BY <1>1, <1>6, ReturnsEffect
  <1>9. CallsInv' /\ (todo' # <<>> => Head(todo').call # "recv")
    BY <1>1, <1>5, <1>8, CallsDropped
  <1>10. AnswersInv'
    BY <1>1, <1>5, <1>9 DEF InterfaceInv, AnswersInv
  <1>11. AppliedInv'
    BY <1>1, <1>5, <1>8, <1>9, AppliedStep DEF InterfaceInv
  <1>12. DevInv'
    BY <1>5, <1>7 DEF InterfaceInv, DevInv, Indexed, Present
  <1>13. RouteHasAddress'
    BY <1>4, <1>5, <1>7 DEF InterfaceInv, RouteHasAddress
  <1> QED
    BY <1>9, <1>10, <1>11, <1>12, <1>13 DEF InterfaceInv

-----------------------------------------------------------------------------
(* Handlers and the device                                                  *)

\* configureDhcp starts with the flags and the address still to be set.
LEMMA ConfigureDhcpInv ==
    ASSUME InterfaceInv, NEW l \in Lease, ConfigureDhcp(l)
    PROVE  InterfaceInv'
  <1> DEFINE F == Call("getFlags", TRUE)
             M == Call("setMtu", l.mtu)
             A == Call("sendAddr", l.addr)
             R == Call("sendRoute", l.gw)
  <1>1. /\ todo' \in Seq(Calls) /\ todo' # <<>>
        /\ \E i \in DOMAIN todo' : todo'[i] = F
        /\ \E i \in DOMAIN todo' : todo'[i] = A
        /\ \A i \in DOMAIN todo' :
              todo'[i] \in {F, M, A} \/ (todo'[i] = R /\ i = Len(todo'))
    BY ConfigureFirst DEF ConfigureDhcp
  <1>2. /\ F.call = "getFlags" /\ F.arg = TRUE /\ M.call = "setMtu" /\ M.arg = l.mtu
        /\ A.call = "sendAddr" /\ A.arg = l.addr /\ R.call = "sendRoute" /\ R.arg = l.gw
    BY CallFields, Zenon
  <1>3. F.arg \in Args(F.call) /\ M.arg \in Args(M.call)
        /\ A.arg \in Args(A.call) /\ R.arg \in Args(R.call)
    BY <1>2, ArgsOf DEF Lease
  <1>4. /\ handler'.kind = "configure" /\ handler'.lease = l /\ res' = "none"
        /\ handler' \in [kind: {"init", "configure", "halt"}, lease: Lease \cup {NoLease}]
        /\ UNCHANGED <<dev, lastIndex, routes, answers, mIndex>> /\ todo = <<>>
    BY DEF ConfigureDhcp, Answered
  <1> HIDE DEF F, M, A, R
  <1>5. CallsInv'
    <2>1. ASSUME NEW i \in DOMAIN todo'
          PROVE  /\ todo'[i].arg \in Args(todo'[i].call)
                 /\ todo'[i].call \notin {"setFlags", "recv", "getIndex"}
                 /\ todo'[i].call = "sendRoute" => i = Len(todo')
                 /\ todo'[i].call \in {"getFlags", "setFlags"} => todo'[i].arg = TRUE
                 /\ todo'[i].call \in {"sendAddr", "recv"} => todo'[i].arg = l.addr
      <3>1. CASE todo'[i] = F
        BY <1>2, <1>3, <3>1
      <3>2. CASE todo'[i] = M
        BY <1>2, <1>3, <3>2
      <3>3. CASE todo'[i] = A
        BY <1>2, <1>3, <3>3
      <3>4. CASE todo'[i] = R /\ i = Len(todo')
        BY <1>2, <1>3, <3>4
      <3> QED
        BY <1>1, <3>1, <3>2, <3>3, <3>4
    <2> QED
      BY <1>1, <1>4, <2>1 DEF CallsInv
  <1>6. ~Without({"getFlags", "setFlags"})' /\ ~Without({"sendAddr", "recv"})'
    BY <1>1, <1>2 DEF Without
  <1>7. Head(todo').call # "recv"
    <2>1. 1 \in DOMAIN todo' /\ Head(todo') = todo'[1]
      BY <1>1, TailFacts
    <2> QED
      BY <1>1, <1>2, <2>1
  <1>8. AppliedInv'
    BY <1>6, <1>7 DEF AppliedInv
  <1> QED
    BY <1>4, <1>5, <1>7, <1>8 DEF InterfaceInv, DevInv, AnswersInv, RouteHasAddress

\* haltNetwork starts.
LEMMA HaltNetworkInv ==
    ASSUME InterfaceInv, HaltNetwork
    PROVE  InterfaceInv'
  <1> DEFINE A == Call("sendAddr", NoAddr)
             F == Call("getFlags", FALSE)
  <1>1. {A, F} \subseteq Calls /\ todo' \in Seq({A, F}) /\ todo' # <<>>
    BY HaltFirst DEF HaltNetwork
  <1>2. F.call = "getFlags" /\ F.arg = FALSE /\ A.call = "sendAddr" /\ A.arg = NoAddr
    BY CallFields, Zenon
  <1>3. F.arg \in Args(F.call) /\ A.arg \in Args(A.call)
    BY <1>2, ArgsOf
  <1>4. /\ handler'.kind = "halt" /\ res' = "none"
        /\ handler' \in [kind: {"init", "configure", "halt"}, lease: Lease \cup {NoLease}]
        /\ UNCHANGED <<dev, lastIndex, routes, answers, mIndex>> /\ todo = <<>>
    BY DEF HaltNetwork, Answered
  <1> HIDE DEF A, F
  <1>5. todo' \in Seq(Calls) /\ \A i \in DOMAIN todo' : todo'[i] \in {A, F}
    BY <1>1
  <1>6. CallsInv'
    BY <1>1, <1>2, <1>3, <1>4, <1>5 DEF CallsInv
  <1>7. Head(todo').call # "recv"
    <2>1. 1 \in DOMAIN todo' /\ Head(todo') = todo'[1]
      BY <1>1, TailFacts
    <2> QED
      BY <1>2, <1>5, <2>1
  <1> QED
    BY <1>4, <1>6, <1>7 DEF InterfaceInv, DevInv, AnswersInv, AppliedInv, RouteHasAddress

\* The device is taken away.
LEMMA UnplugInv ==
    ASSUME InterfaceInv, Unplug
    PROVE  InterfaceInv'
  <1>1. /\ dev' \in [index: 0..MaxIndex, up: BOOLEAN, mtu: Mtus \cup {DefaultMtu},
                     addrs: SUBSET Addrs]
        /\ dev'.index = 0 /\ routes' = <<>>
    BY InterfaceAssumption DEF Unplug, Device
  <1>2. UNCHANGED <<lastIndex, answers, mIndex, handler, todo, res>>
    BY DEF Unplug
  <1>3. routes' \in Seq(Gateways)
    BY <1>1
  <1>4. CallsInv' /\ DevInv' /\ AnswersInv'
    BY <1>1, <1>2, <1>3 DEF InterfaceInv, CallsInv, DevInv, AnswersInv
  <1>5. AppliedInv' /\ RouteHasAddress'
    BY <1>1 DEF AppliedInv, Indexed, Present, RouteHasAddress
  <1> QED
    BY <1>4, <1>5 DEF InterfaceInv

\* Another device gets the name, and an index of its own.
LEMMA PlugInv ==
    ASSUME InterfaceInv, Plug
    PROVE  InterfaceInv'
  <1>1. lastIndex + 1 \in 1..MaxIndex /\ lastIndex + 1 > mIndex /\ mIndex \in 0..lastIndex'
    BY InterfaceAssumption DEF InterfaceInv, DevInv, Plug
  <1>2. /\ dev' \in [index: 0..MaxIndex, up: BOOLEAN, mtu: Mtus \cup {DefaultMtu},
                     addrs: SUBSET Addrs]
        /\ dev'.index = lastIndex + 1 /\ lastIndex' = lastIndex + 1
    BY <1>1 DEF Plug, Device
  <1>3. UNCHANGED <<routes, answers, mIndex, handler, todo, res>> /\ routes = <<>>
    BY DEF Plug, Present, InterfaceInv, DevInv
  <1>4. CallsInv' /\ AnswersInv' /\ RouteHasAddress'
    BY <1>3 DEF InterfaceInv, CallsInv, AnswersInv, RouteHasAddress
  <1>5. DevInv'
    BY <1>1, <1>2, <1>3 DEF InterfaceInv, DevInv
  <1>6. ~Indexed'
    BY <1>1, <1>2, <1>3 DEF Indexed, InterfaceInv, DevInv
  <1>7. AppliedInv'
    BY <1>6 DEF AppliedInv
  <1> QED
    BY <1>4, <1>5, <1>7 DEF InterfaceInv

-----------------------------------------------------------------------------
(* Theorems                                                                 *)

\* The inductive invariant holds in every reachable state, after any system calls,
\* handlers and changes of the device.
THEOREM InterfaceInvariant == Spec => []InterfaceInv
  <1>1. InterfaceInv /\ [Next]_vars => InterfaceInv'
    <2> SUFFICES ASSUME InterfaceInv, [Next]_vars PROVE InterfaceInv'
      OBVIOUS
    <2>1. CASE GetIndex
      BY <2>1, GetIndexInv
    <2>2. CASE GetMac
      BY <2>2, GetMacInv
    <2>3. CASE GetFlags
      BY <2>3, GetFlagsInv
    <2>4. CASE SetFlags
      BY <2>4, SetFlagsInv
    <2>5. CASE SetIfMtu
      BY <2>5, SetIfMtuInv
    <2>6. CASE SendAddress
      BY <2>6, SendAddressInv
    <2>7. CASE RecvAnswer
      BY <2>7, RecvAnswerInv
    <2>8. CASE SendRoute
      BY <2>8, SendRouteInv
    <2>9. CASE \E l \in Lease : ConfigureDhcp(l)
      BY <2>9, ConfigureDhcpInv
    <2>10. CASE HaltNetwork
      BY <2>10, HaltNetworkInv
    <2>11. CASE Unplug
      BY <2>11, UnplugInv
    <2>12. CASE Plug
      BY <2>12, PlugInv
    <2>13. CASE UNCHANGED vars
      BY <2>13 DEF vars, InterfaceInv, CallsInv, DevInv, AnswersInv, AppliedInv, Indexed,
                   Present, Without, RouteHasAddress
    <2> QED
      BY <2>1, <2>2, <2>3, <2>4, <2>5, <2>6, <2>7, <2>8, <2>9, <2>10, <2>11, <2>12, <2>13
      DEF Next, SystemCall
  <1> QED
    BY <1>1, InitInv, PTL DEF Spec

\* Every variable keeps its type, and what a setAddress reads from the netlink socket is
\* the answer to its own request: no answer is left over from an earlier one.
THEOREM TypeCorrect == Spec => []TypeOK
  <1>1. InterfaceInv => TypeOK
    <2> SUFFICES ASSUME InterfaceInv PROVE TypeOK
      OBVIOUS
    <2>1. mIndex \in 0..MaxIndex
      BY InterfaceAssumption DEF InterfaceInv, DevInv
    <2>2. \A i \in DOMAIN routes : routes[i] \in Gateways
      BY DEF InterfaceInv, DevInv
    <2> QED
      BY <2>1, <2>2 DEF TypeOK, InterfaceInv, CallsInv, DevInv, AnswersInv
  <1> QED
    BY <1>1, InterfaceInvariant, PTL

\* A configureDhcp that reports success has configured the device it was asked for:
\* whichever calls the kernel refuses, however devices come and go under the name.
THEOREM SuccessApplied == Spec => []SuccessIsApplied
  <1>1. InterfaceInv => SuccessIsApplied
    <2> SUFFICES ASSUME InterfaceInv, res = "success", handler.kind = "configure", Indexed
                 PROVE  dev.up /\ handler.lease.addr \in dev.addrs
      BY DEF SuccessIsApplied
    <2>1. todo = <<>>
      BY DEF InterfaceInv, CallsInv
    <2>2. Without({"getFlags", "setFlags"}) /\ Without({"sendAddr", "recv"})
      BY <2>1 DEF Without
    <2> QED
      BY <2>2 DEF InterfaceInv, AppliedInv
  <1> QED
    BY <1>1, InterfaceInvariant, PTL

\* No traffic is routed through an interface that is down or has no address.
THEOREM RoutesHaveAddress == Spec => []RouteHasAddress
  <1>1. InterfaceInv => RouteHasAddress
    BY DEF InterfaceInv
  <1> QED
    BY <1>1, InterfaceInvariant, PTL
=============================================================================
