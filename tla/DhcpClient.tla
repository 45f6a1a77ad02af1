----------------------------- MODULE DhcpClient -----------------------------
(***************************************************************************)
(* The DHCP client of the recovery image (src/dhcp_recovery/client): the   *)
(* state machine of DhcpClient::run, the poll loop of waitAndReceive, the  *)
(* configuration of the interface from a DHCPACK and the two lease timers, *)
(* against a network that may send, lose, delay or repeat any reply and a  *)
(* kernel in which every call may fail.                                    *)
(*                                                                         *)
(* Time is counted in whole seconds and only passes while the client polls *)
(* (its own computation takes no time).  A timer is the time left until it *)
(* expires.  A reply whose transaction ID is not that of mLastMsg, a frame *)
(* that is no DHCP reply, a signal and a failing ppoll change nothing:     *)
(* they are the stuttering steps of the specification.                     *)
(***************************************************************************)
EXTENDS Integers

CONSTANTS
    InitialTimeout,   \* kInitialTimeout
    MaxTimeout,       \* kMaxTimeout
    TimeoutSpan,      \* kTimeoutSpan
    MillisSpan,       \* how far a uint32_t of milliseconds reaches
    SecondsSpan,      \* how far a uint32_t of seconds reaches
    NoGateway,        \* ClientOption::NoGateway was given
    Offers,           \* DHCPOFFERs the network may send
    Acks,             \* DHCPACKs the network may send
    FailingCalls,     \* the calls of Calls that may fail
    Horizon           \* bound: how far past its expiry mT2 is told apart

NoTimeout == 0        \* kNoTimeout
NoAddr == 0           \* INADDR_ANY, and what memset leaves in a field
Broadcast == -1       \* INADDR_BROADCAST
Uninit == -2          \* what a member holds that no constructor sets

\* in_addr_t of a host, NoAddr included.
Addr == Nat

\* What an offer carries that the client reads.
Offer == [serverId: Addr, yiaddr: Addr]

\* What an acknowledgement carries that the client reads.  wellFormed is FALSE
\* when some option's length leads out of the message; the other fields are then
\* what the options before it said.
Ack == [yiaddr: Addr, wellFormed: BOOLEAN, leaseTime: Nat, t1: Nat, t2: Nat,
        mtu: Nat, gateway: Addr, dns: Addr]

\* The retry intervals, 4, 8, 16, 32 and 64 seconds, double four times.
ASSUME TimeoutAssumption ==
    /\ InitialTimeout \in Nat \ {0}
    /\ MaxTimeout = 16 * InitialTimeout
    /\ TimeoutSpan \in 0..InitialTimeout

\* The two spans are how many values the integer type has: no timeout wraps.
ASSUME SpanAssumption ==
    /\ MillisSpan \in Nat /\ MillisSpan > MaxTimeout + TimeoutSpan
    /\ SecondsSpan \in Nat \ {0}

ASSUME ReplyAssumption ==
    /\ NoGateway \in BOOLEAN
    /\ Offers \subseteq Offer
    /\ Acks \subseteq Ack
    /\ \A a \in Acks : {a.leaseTime, a.t1, a.t2} \subseteq 0..(SecondsSpan - 1)

\* The calls of configureDhcp and haltNetwork that return an error the client
\* sees: the interface's, setDefaultGateway ("route") and property_set ("gw" and
\* "dns").
Calls == {"bringUp", "bringDown", "setMtu", "setAddress", "route", "gw", "dns"}

ASSUME FailureAssumption == FailingCalls \subseteq Calls

ASSUME HorizonAssumption == Horizon \in Nat

VARIABLES
    pc,               \* "start", "run" (the switch), "poll" (ppoll) or "exited"
    timeout,          \* waitAndReceive's timeout: what is left of the poll
    mState,
    mNextTimeout,
    mFuzzNextTimeout,
    mT1, mT2,         \* time left; 0 or less once expired
    mServerAddress,
    mRequestAddress,
    mLastMsg,         \* type, requested address and server of the last message
    mDhcpInfo,
    iface,            \* up or not, and the MTU and the address it was last set to
    route,            \* gateway of the default route it last took
    props,            \* vendor.net.<iface>.gw and .dns1-4
    lease             \* history: what is left of the lease last granted

client == <<pc, timeout, mState, mNextTimeout, mFuzzNextTimeout>>
timers == <<mT1, mT2, lease>>
peers  == <<mServerAddress, mRequestAddress, mLastMsg>>
config == <<mDhcpInfo, iface, route, props>>
vars   == <<client, timers, peers, config>>

States == {"Init", "Selecting", "Requesting", "Bound", "Renewing", "Rebinding"}

\* The states in which a DHCPREQUEST is outstanding.
AwaitingAck == {"Requesting", "Renewing", "Rebinding"}

NoMsg == [type |-> "none", requested |-> NoAddr, server |-> NoAddr]

Discover == [type |-> "DISCOVER", requested |-> NoAddr, server |-> NoAddr]

Request(address, server) ==
    [type |-> "REQUEST", requested |-> address, server |-> server]

\* mDhcpInfo after memset.
NoInfo == [yiaddr |-> NoAddr, wellFormed |-> FALSE, leaseTime |-> 0, t1 |-> 0,
           t2 |-> 0, mtu |-> 0, gateway |-> NoAddr, dns |-> NoAddr]

-----------------------------------------------------------------------------
(* Timeouts and timers                                                      *)

IncreaseTimeout(n) ==
    IF n = NoTimeout THEN InitialTimeout
    ELSE IF n < MaxTimeout /\ 2 * n <= MaxTimeout THEN 2 * n
    ELSE MaxTimeout

\* Every value calculateTimeoutMillis may return.
CalculateTimeoutMillis(n, fuzz) ==
    IF fuzz
    THEN {IF n + adjustment < 0 THEN 0 ELSE n + adjustment :
             adjustment \in (-TimeoutSpan)..TimeoutSpan}
    ELSE {n}

\* expireSeconds' argument for T1.
RenewalTime(a) == IF a.t1 > 0 THEN a.t1 ELSE a.leaseTime \div 2

\* expireSeconds' argument for T2: the multiplication is one of uint32_t.
RebindingTime(a) ==
    IF a.t2 > 0 THEN a.t2 ELSE ((a.leaseTime * 7) % SecondsSpan) \div 8

\* Mutant of RemainingMillis: the time left is not cut to 32 bits.
RemainingMillisUncut(t) == t

\* The uint64_t of remainingMillis as mNextTimeout keeps it.
RemainingMillis(t) == t % MillisSpan

Expired(t) == t <= 0

-----------------------------------------------------------------------------
(* The run loop                                                             *)

SetNextState(state) ==
    /\ mState' = state
    /\ mNextTimeout' = NoTimeout
    /\ mFuzzNextTimeout' = TRUE

\* The end of every turn of the loop: poll, or evaluate the new state at once.
WaitAndReceive(n, fuzz) ==
    IF n = NoTimeout
    THEN pc' = "run" /\ UNCHANGED timeout
    ELSE pc' = "poll" /\ timeout' \in CalculateTimeoutMillis(n, fuzz)

MoveTo(state) ==
    /\ SetNextState(state)
    /\ WaitAndReceive(NoTimeout, TRUE)
    /\ UNCHANGED <<timers, peers, config>>

\* Send msg, lengthen the timeout and wait for the answer.
SendAndWait(msg) ==
    /\ mLastMsg' = msg
    /\ mNextTimeout' = IncreaseTimeout(mNextTimeout)
    /\ WaitAndReceive(IncreaseTimeout(mNextTimeout), mFuzzNextTimeout)
    /\ UNCHANGED <<mState, mFuzzNextTimeout, timers, mServerAddress,
                   mRequestAddress, config>>

RunInit ==
    /\ pc = "run" /\ mState = "Init"
    /\ MoveTo("Selecting")

RunSelecting ==
    /\ pc = "run" /\ mState = "Selecting"
    /\ SendAndWait(Discover)

\* Mutant of RunRequesting: the limit is never exceeded.
RunRequestingForever ==
    /\ pc = "run" /\ mState = "Requesting"
    /\ IF mNextTimeout > MaxTimeout
       THEN MoveTo("Init")
       ELSE SendAndWait(Request(mRequestAddress, mServerAddress))

RunRequesting ==
    /\ pc = "run" /\ mState = "Requesting"
    /\ IF mNextTimeout >= MaxTimeout
       THEN MoveTo("Init")
       ELSE SendAndWait(Request(mRequestAddress, mServerAddress))

\* Mutant of RunBound: the wait for T1 is fuzzed like a retry.
RunBoundFuzzed ==
    /\ pc = "run" /\ mState = "Bound"
    /\ IF Expired(mT1)
       THEN MoveTo("Renewing")
       ELSE /\ mNextTimeout' = RemainingMillis(mT1)
            /\ WaitAndReceive(RemainingMillis(mT1), mFuzzNextTimeout)
            /\ UNCHANGED <<mState, mFuzzNextTimeout, timers, peers, config>>

\* Mutant of RunBound: at T1 the client starts over.
RunBoundNoRenewal ==
    /\ pc = "run" /\ mState = "Bound"
    /\ IF Expired(mT1)
       THEN MoveTo("Init")
       ELSE /\ mNextTimeout' = RemainingMillis(mT1)
            /\ mFuzzNextTimeout' = FALSE
            /\ WaitAndReceive(RemainingMillis(mT1), FALSE)
            /\ UNCHANGED <<mState, timers, peers, config>>

RunBound ==
    /\ pc = "run" /\ mState = "Bound"
    /\ IF Expired(mT1)
       THEN MoveTo("Renewing")
       ELSE /\ mNextTimeout' = RemainingMillis(mT1)
            /\ mFuzzNextTimeout' = FALSE
            /\ WaitAndReceive(RemainingMillis(mT1), FALSE)
            /\ UNCHANGED <<mState, timers, peers, config>>

\* Mutant of RunRenewing: T2 is not looked at.
RunRenewingForever ==
    /\ pc = "run" /\ mState = "Renewing"
    /\ SendAndWait(Request(mRequestAddress, mServerAddress))

RunRenewing ==
    /\ pc = "run" /\ mState = "Renewing"
    /\ IF Expired(mT2)
       THEN MoveTo("Rebinding")
       ELSE SendAndWait(Request(mRequestAddress, mServerAddress))

\* Mutant of RunRebinding: the limit is never exceeded.
RunRebindingForever ==
    /\ pc = "run" /\ mState = "Rebinding"
    /\ IF mNextTimeout > MaxTimeout
       THEN MoveTo("Init")
       ELSE SendAndWait(Request(mRequestAddress, Broadcast))

\* Mutant of RunRebinding: the request still names the server of the lease.
RunRebindingToServer ==
    /\ pc = "run" /\ mState = "Rebinding"
    /\ IF mNextTimeout >= MaxTimeout
       THEN MoveTo("Init")
       ELSE SendAndWait(Request(mRequestAddress, mServerAddress))

RunRebinding ==
    /\ pc = "run" /\ mState = "Rebinding"
    /\ IF mNextTimeout >= MaxTimeout
       THEN MoveTo("Init")
       ELSE SendAndWait(Request(mRequestAddress, Broadcast))

Run == \/ RunInit \/ RunSelecting \/ RunRequesting
       \/ RunBound \/ RunRenewing \/ RunRebinding

-----------------------------------------------------------------------------
(* Replies and the poll's end                                               *)

\* How the calls of one handler turn out.
Outcomes == [FailingCalls -> BOOLEAN]

Succeeds(call, out) == call \in FailingCalls => out[call]

PollTimeout ==
    /\ pc = "poll" /\ timeout = 0
    /\ pc' = "run"
    /\ UNCHANGED <<timeout, mState, mNextTimeout, mFuzzNextTimeout, timers,
                   peers, config>>

\* A reply to mLastMsg is read while the client polls in one of the states.
\* A halted interface carries no messages.
Receives(states) == pc = "poll" /\ mState \in states /\ iface.up

ReceiveOffer(o) ==
    /\ Receives({"Selecting"})
    /\ mServerAddress' = o.serverId
    /\ mRequestAddress' = o.yiaddr
    /\ SetNextState("Requesting")
    /\ pc' = "run"
    /\ UNCHANGED <<timeout, timers, mLastMsg, config>>

\* configureDhcp is given up at the first of these that is FALSE.
LeaseRead(a) == a.wellFormed /\ a.leaseTime # 0
BroughtUp(a, out) == LeaseRead(a) /\ Succeeds("bringUp", out)
AddressSet(a, out) == BroughtUp(a, out) /\ Succeeds("setAddress", out)
\* Mutant of Configured: an address the kernel refused is no failure.
ConfiguredUnaddressed(a, out) ==
    BroughtUp(a, out) /\ (NoGateway \/ Succeeds("route", out))

Configured(a, out) == AddressSet(a, out) /\ (NoGateway \/ Succeeds("route", out))

\* configureDhcp on acknowledgement a, where out says how its calls turn out.
\* installed says whether the kernel, which is not asked, took the route.
ConfigureDhcp(a, out, installed) ==
    /\ mDhcpInfo' = [a EXCEPT !.yiaddr = IF a.wellFormed THEN @ ELSE NoAddr]
    /\ IF LeaseRead(a)
       THEN /\ mT1' = RenewalTime(a)
            /\ mT2' = RebindingTime(a)
            /\ lease' = a.leaseTime
       ELSE UNCHANGED timers
    /\ iface' =
          [up   |-> iface.up \/ BroughtUp(a, out),
           mtu  |-> IF BroughtUp(a, out) /\ a.mtu # 0 /\ Succeeds("setMtu", out)
                    THEN a.mtu ELSE iface.mtu,
           addr |-> IF AddressSet(a, out) THEN a.yiaddr ELSE iface.addr]
    /\ props' =
          [gw  |-> IF BroughtUp(a, out) /\ Succeeds("gw", out) THEN a.gateway ELSE props.gw,
           dns |-> IF BroughtUp(a, out) /\ Succeeds("dns", out) THEN a.dns ELSE props.dns]
    /\ route' = IF ~NoGateway /\ Configured(a, out) /\ installed
                THEN a.gateway ELSE route

ReceiveAck(a) ==
    /\ Receives(AwaitingAck)
    /\ \E out \in Outcomes, installed \in BOOLEAN :
          /\ ConfigureDhcp(a, out, installed)
          /\ IF Configured(a, out)
             THEN SetNextState("Bound") /\ pc' = "run"
             ELSE UNCHANGED <<pc, mState, mNextTimeout, mFuzzNextTimeout>>
    /\ UNCHANGED <<timeout, peers>>

HaltNetwork(out) ==
    iface' = [iface EXCEPT !.addr = IF Succeeds("setAddress", out) THEN NoAddr ELSE @,
                           !.up = IF Succeeds("bringDown", out) THEN FALSE ELSE @]

\* Mutant of ReceiveNak: the denied request is sent again.
ReceiveNakRetries ==
    /\ Receives(AwaitingAck)
    /\ \E out \in Outcomes : HaltNetwork(out)
    /\ SetNextState("Requesting")
    /\ pc' = "run"
    /\ UNCHANGED <<timeout, timers, peers, mDhcpInfo, route, props>>

ReceiveNak ==
    /\ Receives(AwaitingAck)
    /\ \E out \in Outcomes : HaltNetwork(out)
    /\ SetNextState("Init")
    /\ pc' = "run"
    /\ UNCHANGED <<timeout, timers, peers, mDhcpInfo, route, props>>

Receive == \/ \E o \in Offers : ReceiveOffer(o)
           \/ \E a \in Acks : ReceiveAck(a)
           \/ ReceiveNak

-----------------------------------------------------------------------------
(* Start and the passage of time                                            *)

Init ==
    /\ pc = "start"
    /\ timeout = 0
    /\ mState = "Init"
    /\ mNextTimeout = InitialTimeout
    /\ mFuzzNextTimeout = TRUE
    /\ mT1 = 0 /\ mT2 = 0 /\ lease = 0
    /\ mServerAddress = Uninit
    /\ mRequestAddress = Uninit
    /\ mLastMsg = NoMsg
    /\ mDhcpInfo = NoInfo
    /\ iface \in [up: BOOLEAN, mtu: {0}, addr: {NoAddr}]
    /\ route = NoAddr
    /\ props = [gw |-> NoAddr, dns |-> NoAddr]

\* DhcpClient::init brings the interface up and clears its address; when that
\* or opening a socket fails main returns, and the service is oneshot.
Startup ==
    /\ pc = "start"
    /\ \E up \in BOOLEAN, opened \in BOOLEAN :
          /\ iface' = [iface EXCEPT !.up = @ \/ up, !.addr = NoAddr]
          /\ pc' = IF up /\ opened THEN "run" ELSE "exited"
    /\ UNCHANGED <<timeout, mState, mNextTimeout, mFuzzNextTimeout, timers,
                   peers, mDhcpInfo, route, props>>

Exited == pc = "exited" /\ UNCHANGED vars

\* When a multiple of MillisSpan is left mNextTimeout is 0: the loop evaluates
\* Bound again and again without polling until the clock moves on.
Spins == pc = "run" /\ mState = "Bound" /\ mT1 > 0 /\ RemainingMillis(mT1) = 0

Elapse(t, floor) == IF t > floor THEN t - 1 ELSE t

Tick ==
    /\ \/ pc = "poll" /\ timeout > 0 /\ timeout' = timeout - 1
       \/ Spins /\ UNCHANGED timeout
    /\ mT1' = Elapse(mT1, 0)
    /\ mT2' = Elapse(mT2, -Horizon)
    /\ lease' = Elapse(lease, 0)
    /\ UNCHANGED <<pc, mState, mNextTimeout, mFuzzNextTimeout, peers, config>>

Next == Startup \/ Exited \/ Run \/ PollTimeout \/ Receive \/ Tick

Spec == Init /\ [][Next]_vars

\* The scheduler runs the client, the clock advances and ppoll returns when its
\* time is up.  Nothing is assumed of the network or of the kernel's calls.
FairSpec == Spec /\ WF_vars(Run) /\ WF_vars(PollTimeout) /\ WF_vars(Tick)
-----------------------------------------------------------------------------
(* Properties                                                               *)

Msgs == [type: {"none", "DISCOVER", "REQUEST"},
         requested: Addr \cup {Uninit}, server: Addr \cup {Uninit, Broadcast}]

\* The retry timeouts of increaseTimeout, in order.
Ladder == {InitialTimeout, 2 * InitialTimeout, 4 * InitialTimeout,
           8 * InitialTimeout, 16 * InitialTimeout}

\* Every variable holds a value of its type; a poll never lasts longer than a
\* uint32_t of milliseconds, whatever the lease.
TypeOK ==
    /\ pc \in {"start", "run", "poll", "exited"}
    /\ timeout \in 0..(MillisSpan - 1)
    /\ mState \in States
    /\ mNextTimeout \in 0..(MillisSpan - 1)
    /\ mFuzzNextTimeout \in BOOLEAN
    /\ mT1 \in Nat /\ lease \in Nat
    /\ mT2 \in Int /\ mT2 >= -Horizon
    /\ mServerAddress \in Addr \cup {Uninit}
    /\ mRequestAddress \in Addr \cup {Uninit}
    /\ mLastMsg \in Msgs
    /\ mDhcpInfo \in Ack
    /\ iface \in [up: BOOLEAN, mtu: Nat, addr: Addr]
    /\ route \in Addr
    /\ props \in [gw: Addr, dns: Addr]

\* receiveDhcpMessage accepts a reply for its transaction ID alone, so what the
\* reply means is what mLastMsg asked: a client that polls in Selecting has sent
\* a DISCOVER, and one that awaits an ACK a REQUEST for the address and, but in
\* Rebinding, to the server of one and the same offer, never an uninitialised
\* member.
ReplyAnswersLastMsg ==
    /\ pc = "poll" /\ mState = "Selecting" => mLastMsg = Discover
    /\ pc = "poll" /\ mState \in AwaitingAck =>
          \E o \in Offers :
             mLastMsg = Request(o.yiaddr, IF mState = "Rebinding"
                                          THEN Broadcast ELSE o.serverId)

\* A client that is Bound has the acknowledged address on an interface that is
\* up, with a lease that was really given, whatever calls of earlier attempts to
\* configure it failed half way.
BoundIsConfigured ==
    mState = "Bound" =>
        /\ iface.up /\ iface.addr = mDhcpInfo.yiaddr
        /\ mDhcpInfo.wellFormed /\ mDhcpInfo.leaseTime # 0

\* The client wakes for renewal before the lease ends, provided the server's own
\* T1 lies within the lease: the wait is never fuzzed, and cutting the remaining
\* time down to 32 bits only makes it shorter.
WakesBeforeLeaseEnds ==
    mState = "Bound" /\ pc = "poll" /\ mDhcpInfo.t1 <= mDhcpInfo.leaseTime =>
        timeout <= mT1 /\ timeout <= lease

\* The longest a client goes on renewing and rebinding after T2: one renewal
\* wait that T2 fell into, then the five waits of Rebinding.
GiveUpBound == (MaxTimeout + TimeoutSpan) + 31 * InitialTimeout + 5 * TimeoutSpan

\* No lease has its T2 before its T1.
OrderedTimers == \A a \in Acks : LeaseRead(a) => RenewalTime(a) <= RebindingTime(a)

\* However its requests and their answers fail, a client gives its lease up at
\* most GiveUpBound after T2, 194 seconds with the timeouts of the code, provided
\* no server puts T2 before T1.
GivesUpInTime ==
    OrderedTimers /\ mState \in {"Renewing", "Rebinding"} => mT2 >= -GiveUpBound

\* Once the interface is down the client holds no lease and asks for none:
\* haltNetwork is always followed by a return to Init.
HaltedHasNoLease ==
    ~iface.up /\ pc # "start" => mState \in {"Init", "Selecting"}

\* A bound client always comes to renew, however far T1 lies beyond what 32 bits of
\* milliseconds hold; and where an ACK is awaited "eventually it will allow for a full
\* timeout which will lead to a move to the Init state" (the comment in waitAndReceive
\* on a failed configuration), in two of the three states.
WaitsEnd ==
    /\ mState = "Bound" ~> mState = "Renewing"
    /\ mState \in {"Requesting", "Rebinding"} ~> mState \in {"Init", "Bound"}

\* Renewing has no limit of its own and ends at T2, which every ACK that cannot
\* be applied sets anew (configureDhcp sets the timers before it fails): a client
\* leaves Renewing again and again unless T2 is put off again and again.
RenewalEndsOrIsPutOff ==
    []<>(mState # "Renewing") \/ []<><<mT2' > mT2>>_vars

\* The client is the abstract one of DhcpLease, whatever is lost, late or repeated
\* on the network and whichever call fails.
L == INSTANCE DhcpLease WITH
        Leases  <- {[address |-> a.yiaddr, t1 |-> RenewalTime(a), t2 |-> RebindingTime(a)] :
                       a \in {b \in Acks : LeaseRead(b)}},
        phase   <- IF mState \in {"Init", "Selecting"} THEN "none"
                   ELSE IF mState = "Requesting" THEN "asking"
                   ELSE IF mState = "Bound" THEN "held"
                   ELSE IF mState = "Renewing" THEN "renewing" ELSE "rebinding",
        address <- iface.addr,
        t1      <- mT1,
        t2      <- IF mT2 > 0 THEN mT2 ELSE 0

\* A lease is held until T1 and claimed until it is denied or, T2 past, a limited
\* number of requests failed; only an ACK to a request puts an address on the
\* interface and only a NAK takes it away: the address of a lease the client gave
\* up in Rebinding stays (dhcpclient.cpp has no other call of haltNetwork).
ImplementsLease == L!Spec
=============================================================================
