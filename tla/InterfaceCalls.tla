--------------------------- MODULE InterfaceCalls ---------------------------
(***************************************************************************)
(* How Interface and Router (src/dhcp_recovery/client) change the kernel:  *)
(* the ioctls and netlink messages of Interface::init, of configureDhcp    *)
(* and of haltNetwork, one system call a step.  Calls by name reach the    *)
(* device that has the name now, netlink messages the device that had it   *)
(* when init asked for its index, and the device may be taken away and     *)
(* plugged in again between any two calls.                                 *)
(*                                                                         *)
(* The kernel is external.  A netlink request is handled before sendto     *)
(* returns; one with the ACK flag leaves an answer in the socket, or the   *)
(* error ENOBUFS where there is no memory for it.  A new address is kept   *)
(* beside the ones the device has and address 0 changes nothing; a route   *)
(* that asks for no replacement is put before the default routes there     *)
(* are, unless one of them is the same.  run blocks every signal, so no    *)
(* call is interrupted.                                                    *)
(***************************************************************************)
EXTENDS Naturals, Sequences

CONSTANTS
    Addrs,            \* addresses a lease may give
    Gateways,         \* gateways a lease may name
    Mtus,             \* MTUs a lease may give, 0 for none
    NoGateway,        \* ClientOption::NoGateway was given
    Refusable,        \* the calls of Kinds the kernel may refuse at will
    MaxIndex          \* bound: how many devices come and go under the name

NoAddr == 0           \* INADDR_ANY
DefaultMtu == 1500

Kinds == {"send", "flags", "mtu", "addr", "ack", "route"}

ASSUME InterfaceAssumption ==
    /\ Addrs \subseteq Nat \ {NoAddr}
    /\ Gateways \subseteq Nat
    /\ Mtus \subseteq Nat
    /\ NoGateway \in BOOLEAN
    /\ Refusable \subseteq Kinds
    /\ MaxIndex \in Nat \ {0}

VARIABLES
    dev,              \* the device of that name; its index is 0 while it is away
    lastIndex,        \* the index given out last
    routes,           \* default routes through the interface, the one used first
    answers,          \* what recv on mSocketFd will return, in order
    mIndex,
    handler,          \* the handler under way or last run, and its lease
    todo,             \* the system calls it has left
    res               \* its Result, or "none" while it runs

vars == <<dev, lastIndex, routes, answers, mIndex, handler, todo, res>>

Lease == [addr: Addrs, mtu: Mtus, gw: Gateways]

NoLease == [addr |-> NoAddr, mtu |-> 0, gw |-> NoAddr]

Device(index) == [index |-> index, up |-> FALSE, mtu |-> DefaultMtu, addrs |-> {}]

-----------------------------------------------------------------------------
(* The calls of each function                                               *)

Call(name, arg) == [call |-> name, arg |-> arg]

\* setInterfaceUp: read the flags, then write them back with IFF_UP toggled.
SetInterfaceUp(want) == <<Call("getFlags", want)>>

\* setAddress: send the request, then read one answer.
SetAddress(a) == <<Call("sendAddr", a)>>

SetMtu(mtu) == <<Call("setMtu", mtu)>>

\* setDefaultGateway, which configureDhcp calls unless told not to.
SetDefaultGateway(gw) == IF NoGateway THEN <<>> ELSE <<Call("sendRoute", gw)>>

\* Interface::init, from the open netlink socket on.
InitCalls == <<Call("getIndex", 0), Call("getMac", 0)>>
             \o SetInterfaceUp(TRUE) \o SetAddress(NoAddr)

\* Mutant of ConfigureCalls: the route is set before the address.
ConfigureCallsRouteFirst(l) ==
    SetInterfaceUp(TRUE) \o (IF l.mtu # 0 THEN SetMtu(l.mtu) ELSE <<>>)
    \o SetDefaultGateway(l.gw) \o SetAddress(l.addr)

\* configureDhcp, from the timers on; the properties it sets are left out.
ConfigureCalls(l) ==
    SetInterfaceUp(TRUE) \o (IF l.mtu # 0 THEN SetMtu(l.mtu) ELSE <<>>)
    \o SetAddress(l.addr) \o SetDefaultGateway(l.gw)

HaltCalls == SetAddress(NoAddr) \o SetInterfaceUp(FALSE)

\* Mutant of AddressFlags: no acknowledgement is asked for.
AddressFlagsNoAck == {"REQUEST", "CREATE", "REPLACE"}

AddressFlags == {"REQUEST", "ACK", "CREATE", "REPLACE"}

RouteFlags == {"REQUEST", "CREATE"}

\* A failed call ends its handler, but for haltNetwork, which only logs it, and
\* for setMtu.
Fatal(name) == handler.kind # "halt" /\ name # "setMtu"

\* The next call of the handler is name.
Makes(name) == todo # <<>> /\ Head(todo).call = name

\* The call at hand returned and is followed by the calls more, then the rest.
Returns(ok, more) ==
    LET rest == IF ok \/ ~Fatal(Head(todo).call) THEN more \o Tail(todo) ELSE <<>>
    IN  /\ todo' = rest
        /\ res' = IF rest # <<>> THEN "none"
                  ELSE IF ok \/ ~Fatal(Head(todo).call) THEN "success" ELSE "error"

-----------------------------------------------------------------------------
(* System calls                                                             *)

\* Whether the kernel carries out a call that it can carry out.
Grants(kind) == {TRUE} \cup {FALSE : k \in Refusable \cap {kind}}

Present == dev.index # 0

GetIndex ==
    /\ Makes("getIndex")
    /\ mIndex' = IF Present THEN dev.index ELSE mIndex
    /\ Returns(Present, <<>>)
    /\ UNCHANGED <<dev, lastIndex, routes, answers, handler>>

GetMac ==
    /\ Makes("getMac")
    /\ Returns(Present, <<>>)
    /\ UNCHANGED <<dev, lastIndex, routes, answers, mIndex, handler>>

GetFlags ==
    /\ Makes("getFlags")
    /\ LET want == Head(todo).arg
       IN  Returns(Present, IF Present /\ dev.up # want
                            THEN <<Call("setFlags", want)>> ELSE <<>>)
    /\ UNCHANGED <<dev, lastIndex, routes, answers, mIndex, handler>>

\* A device that goes down takes its routes with it.
SetFlags ==
    /\ Makes("setFlags")
    /\ \E granted \in Grants("flags") :
          LET ok == Present /\ granted
          IN  /\ dev' = IF ok THEN [dev EXCEPT !.up = Head(todo).arg] ELSE dev
              /\ routes' = IF ok /\ ~Head(todo).arg THEN <<>> ELSE routes
              /\ Returns(ok, <<>>)
    /\ UNCHANGED <<lastIndex, answers, mIndex, handler>>

SetIfMtu ==
    /\ Makes("setMtu")
    /\ \E granted \in Grants("mtu") :
          LET ok == Present /\ granted
          IN  /\ dev' = IF ok THEN [dev EXCEPT !.mtu = Head(todo).arg] ELSE dev
              /\ Returns(ok, <<>>)
    /\ UNCHANGED <<lastIndex, routes, answers, mIndex, handler>>

\* The device a netlink message names is there.
Indexed == Present /\ dev.index = mIndex

\* sendto in setAddress.
SendAddress ==
    /\ Makes("sendAddr")
    /\ \E sent \in Grants("send"), granted \in Grants("addr"), kept \in Grants("ack") :
          LET a  == Head(todo).arg
              ok == sent /\ Indexed /\ granted
          IN  /\ dev' = IF ok /\ a # NoAddr
                        THEN [dev EXCEPT !.addrs = @ \cup {a}] ELSE dev
              /\ answers' = IF ~sent THEN answers
                            ELSE IF ~kept THEN Append(answers, "nobufs")
                            ELSE IF ~ok THEN Append(answers, "refused")
                            ELSE IF "ACK" \in AddressFlags THEN Append(answers, "done")
                            ELSE answers
              /\ Returns(sent, IF sent THEN <<Call("recv", a)>> ELSE <<>>)
    /\ UNCHANGED <<lastIndex, routes, mIndex, handler>>

\* Mutant of Accepted: any answer is a success.
AcceptedAny(answer) == answer # "nobufs"

\* What setAddress makes of the answer it reads.
Accepted(answer) == answer = "done"

\* recv in setAddress; it blocks while there is nothing to read.
RecvAnswer ==
    /\ Makes("recv")
    /\ answers # <<>>
    /\ answers' = Tail(answers)
    /\ Returns(Accepted(Head(answers)), <<>>)
    /\ UNCHANGED <<dev, lastIndex, routes, mIndex, handler>>

\* The default routes after the kernel took one to gw.
Installed(gw) ==
    IF \E i \in DOMAIN routes : routes[i] = gw THEN routes
    ELSE IF "REPLACE" \in RouteFlags /\ routes # <<>> THEN <<gw>> \o Tail(routes)
    ELSE <<gw>> \o routes

\* sendNetlinkMessage: what the kernel makes of the route is not asked for.
SendRoute ==
    /\ Makes("sendRoute")
    /\ \E sent \in Grants("send"), granted \in Grants("route") :
          /\ routes' = IF sent /\ granted /\ Indexed /\ dev.up
                       THEN Installed(Head(todo).arg) ELSE routes
          /\ Returns(sent, <<>>)
    /\ UNCHANGED <<dev, lastIndex, answers, mIndex, handler>>

SystemCall == \/ GetIndex \/ GetMac \/ GetFlags \/ SetFlags
              \/ SetIfMtu \/ SendAddress \/ RecvAnswer \/ SendRoute

-----------------------------------------------------------------------------
(* Handlers and the device                                                  *)

Init ==
    /\ \E up \in BOOLEAN : dev = [Device(1) EXCEPT !.up = up]
    /\ lastIndex = 1
    /\ routes = <<>>
    /\ answers = <<>>
    /\ mIndex = 0
    /\ handler = [kind |-> "init", lease |-> NoLease]
    /\ todo = InitCalls
    /\ res = "none"

\* The client received an ACK or a NAK: init succeeded and the device its packet
\* socket is bound to was there and up.
Answered ==
    /\ todo = <<>> /\ Indexed /\ dev.up
    /\ handler.kind = "init" => res = "success"

ConfigureDhcp(l) ==
    /\ Answered
    /\ handler' = [kind |-> "configure", lease |-> l]
    /\ todo' = ConfigureCalls(l)
    /\ res' = "none"
    /\ UNCHANGED <<dev, lastIndex, routes, answers, mIndex>>

HaltNetwork ==
    /\ Answered
    /\ handler' = [kind |-> "halt", lease |-> NoLease]
    /\ todo' = HaltCalls
    /\ res' = "none"
    /\ UNCHANGED <<dev, lastIndex, routes, answers, mIndex>>

Unplug ==
    /\ Present
    /\ dev' = Device(0)
    /\ routes' = <<>>
    /\ UNCHANGED <<lastIndex, answers, mIndex, handler, todo, res>>

Plug ==
    /\ ~Present /\ lastIndex < MaxIndex
    /\ dev' = Device(lastIndex + 1)
    /\ lastIndex' = lastIndex + 1
    /\ UNCHANGED <<routes, answers, mIndex, handler, todo, res>>

Next == \/ SystemCall
        \/ \E l \in Lease : ConfigureDhcp(l)
        \/ HaltNetwork
        \/ Unplug \/ Plug

Spec == Init /\ [][Next]_vars

\* The client is scheduled; nothing is assumed of the device or the network.
FairSpec == Spec /\ WF_vars(SystemCall)

-----------------------------------------------------------------------------
(* Properties                                                               *)

\* What the argument of a call is.
Args(call) ==
    CASE call \in {"getIndex", "getMac"}    -> {0}
      [] call \in {"getFlags", "setFlags"} -> BOOLEAN
      [] call = "setMtu"                   -> Mtus
      [] call \in {"sendAddr", "recv"}     -> Addrs \cup {NoAddr}
      [] call = "sendRoute"                -> Gateways

\* Every variable holds a value of its type, and the socket holds exactly the
\* answer of a setAddress between its sendto and its recv: none is left over for
\* the next request to take for its own.
TypeOK ==
    /\ dev \in [index: 0..MaxIndex, up: BOOLEAN, mtu: Mtus \cup {DefaultMtu},
                addrs: SUBSET Addrs]
    /\ lastIndex \in 1..MaxIndex
    /\ mIndex \in 0..MaxIndex
    /\ \A i \in DOMAIN routes : routes[i] \in Gateways
    /\ \A i \in DOMAIN todo : todo[i].arg \in Args(todo[i].call)
    /\ handler \in [kind: {"init", "configure", "halt"}, lease: Lease \cup {NoLease}]
    /\ res \in {"none", "success", "error"}
    /\ IF todo # <<>> /\ Head(todo).call = "recv"
       THEN \E answer \in {"done", "refused", "nobufs"} : answers = <<answer>>
       ELSE answers = <<>>

\* A configureDhcp that reports success has put the address of the ACK on the
\* device it was asked for, and that device is up, unless it was taken away
\* meanwhile: no failure of a call, and no device that took its name, passes for
\* a configured interface.
SuccessIsApplied ==
    res = "success" /\ handler.kind = "configure" /\ Indexed =>
        dev.up /\ handler.lease.addr \in dev.addrs

\* Traffic is routed through the interface only once it has an address: the
\* route follows the address in configureDhcp, and goes with the device or with
\* IFF_UP.
RouteHasAddress == routes # <<>> => dev.up /\ dev.addrs # {}

\* Every handler comes to an end: setAddress never waits for an answer that no
\* one sends, whatever the kernel refuses and when the device goes.
HandlerEnds == todo # <<>> ~> todo = <<>>

\* "If another default route exists it will be removed and replaced by the new
\* one" (router.h): after a configureDhcp the default route is the gateway's.
RouteIsReplaced ==
    res = "success" /\ handler.kind = "configure" /\ Indexed
        => routes = <<handler.lease.gw>>
=============================================================================
