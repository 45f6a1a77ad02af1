-------------------------- MODULE DhcpClientProofs --------------------------
(***************************************************************************)
(* What the runs check of DhcpClient on small instances, and that it       *)
(* implements the abstract lease of DhcpLease, proved for every choice of  *)
(* the timeouts, offers, acknowledgements and failing calls.               *)
(***************************************************************************)
EXTENDS DhcpClient, TLAPS

-----------------------------------------------------------------------------
(* Timeouts and timers                                                      *)

\* increaseTimeout yields a timeout between kInitialTimeout and kMaxTimeout.
LEMMA IncreaseTimeoutType ==
    ASSUME NEW n \in Nat
    PROVE  IncreaseTimeout(n) \in 1..MaxTimeout
  BY TimeoutAssumption DEF IncreaseTimeout, NoTimeout

\* calculateTimeoutMillis adds at most kTimeoutSpan, and nothing to a wait that
\* is not to be fuzzed.
LEMMA CalculateTimeoutMillisBound ==
    ASSUME NEW n \in Nat, NEW fuzz \in BOOLEAN,
           NEW v \in CalculateTimeoutMillis(n, fuzz)
    PROVE  v \in Nat /\ v <= n + TimeoutSpan /\ (~fuzz => v = n)
  BY TimeoutAssumption DEF CalculateTimeoutMillis

\* Cutting remainingMillis to 32 bits never lengthens it.
LEMMA RemainingMillisCut ==
    ASSUME NEW t \in Nat
    PROVE  /\ RemainingMillis(t) \in 0..(MillisSpan - 1)
           /\ RemainingMillis(t) <= t
  BY SpanAssumption, TimeoutAssumption DEF RemainingMillis

\* The timers that configureDhcp sets are natural numbers, and a T1 that the
\* client estimates, or that the server put inside the lease, is inside it.
LEMMA LeaseTimers ==
    ASSUME NEW a \in Acks
    PROVE  /\ RenewalTime(a) \in Nat /\ RebindingTime(a) \in Nat
           /\ a.t1 <= a.leaseTime => RenewalTime(a) <= a.leaseTime
  BY SpanAssumption, ReplyAssumption DEF RenewalTime, RebindingTime, Ack

\* A second that passes brings a timer down by one, but not below its floor.
LEMMA ElapseBound ==
    ASSUME NEW t \in Int, NEW floor \in Int, t >= floor
    PROVE  /\ Elapse(t, floor) \in Int
           /\ Elapse(t, floor) >= floor
           /\ Elapse(t, floor) >= t - 1
           /\ Elapse(t, floor) <= t
           /\ t > floor => Elapse(t, floor) = t - 1
  BY DEF Elapse

-----------------------------------------------------------------------------
(* Type correctness                                                         *)

\* What a turn of the loop does that sends a message.
LEMMA SendAndWaitEffect ==
    ASSUME TypeOK, NEW msg, SendAndWait(msg)
    PROVE  /\ mLastMsg' = msg
           /\ mNextTimeout' = IncreaseTimeout(mNextTimeout)
           /\ mNextTimeout' \in 1..MaxTimeout
           /\ pc' = "poll"
           /\ timeout' \in Nat /\ timeout' <= mNextTimeout' + TimeoutSpan
           /\ UNCHANGED <<mState, mFuzzNextTimeout, mT1, mT2, lease,
                          mServerAddress, mRequestAddress, config>>
  <1>1. mNextTimeout \in Nat /\ mFuzzNextTimeout \in BOOLEAN
    BY SpanAssumption DEF TypeOK
  <1>2. IncreaseTimeout(mNextTimeout) \in 1..MaxTimeout
    BY <1>1, IncreaseTimeoutType
  <1>3. IncreaseTimeout(mNextTimeout) \in Nat
        /\ IncreaseTimeout(mNextTimeout) # NoTimeout
    BY <1>2, TimeoutAssumption DEF NoTimeout
  <1>4. pc' = "poll" /\ timeout' \in
            CalculateTimeoutMillis(IncreaseTimeout(mNextTimeout), mFuzzNextTimeout)
    BY <1>3 DEF SendAndWait, WaitAndReceive
  <1>5. timeout' \in Nat
        /\ timeout' <= IncreaseTimeout(mNextTimeout) + TimeoutSpan
    BY <1>1, <1>3, <1>4, CalculateTimeoutMillisBound
  <1> QED
    BY <1>2, <1>4, <1>5 DEF SendAndWait, timers

\* What a turn of the loop does that moves to another state.
LEMMA MoveToEffect ==
    ASSUME NEW state, MoveTo(state)
    PROVE  /\ mState' = state /\ mNextTimeout' = 0 /\ mFuzzNextTimeout' = TRUE
           /\ pc' = "run"
           /\ UNCHANGED <<timeout, mT1, mT2, lease, mServerAddress,
                          mRequestAddress, mLastMsg, config>>
  BY DEF MoveTo, SetNextState, WaitAndReceive, NoTimeout, timers, peers

\* What a turn of the loop does that waits for T1: it polls for no longer than
\* is left, or spins.
LEMMA WaitForT1Effect ==
    ASSUME TypeOK, RunBound, ~Expired(mT1)
    PROVE  /\ mNextTimeout' \in 0..(MillisSpan - 1)
           /\ mFuzzNextTimeout' = FALSE
           /\ \/ pc' = "run" /\ timeout' = timeout
              \/ pc' = "poll" /\ timeout' \in 0..(MillisSpan - 1) /\ timeout' <= mT1
           /\ UNCHANGED <<mState, timers, peers, config>>
  <1>1. RemainingMillis(mT1) \in 0..(MillisSpan - 1) /\ RemainingMillis(mT1) <= mT1
    BY RemainingMillisCut DEF TypeOK
  <1>2. /\ mNextTimeout' = RemainingMillis(mT1)
        /\ mFuzzNextTimeout' = FALSE
        /\ WaitAndReceive(RemainingMillis(mT1), FALSE)
        /\ UNCHANGED <<mState, timers, peers, config>>
    BY DEF RunBound
  <1>3. \/ pc' = "run" /\ timeout' = timeout
        \/ pc' = "poll" /\ timeout' = RemainingMillis(mT1)
    BY <1>2 DEF WaitAndReceive, CalculateTimeoutMillis
  <1> QED
    BY <1>1, <1>2, <1>3

\* A turn of the loop that moves to another state keeps the types.
LEMMA TypeMoveTo ==
    ASSUME TypeOK, NEW state \in States, MoveTo(state)
    PROVE  TypeOK'
  <1>1. /\ mState' = state /\ mNextTimeout' = 0 /\ mFuzzNextTimeout' = TRUE
        /\ pc' = "run"
        /\ UNCHANGED <<timeout, mT1, mT2, lease, mServerAddress,
                       mRequestAddress, mLastMsg, config>>
    BY MoveToEffect
  <1>2. 0 \in 0..(MillisSpan - 1)
    BY SpanAssumption, TimeoutAssumption
  <1> QED
    BY <1>1, <1>2 DEF TypeOK, config

\* A turn of the loop that sends a message keeps the types.
LEMMA TypeSendAndWait ==
    ASSUME TypeOK, NEW msg \in Msgs, SendAndWait(msg)
    PROVE  TypeOK'
  BY SendAndWaitEffect, SpanAssumption, TimeoutAssumption DEF TypeOK, config

\* The interface, its properties and the timers keep their types whatever
\* configureDhcp is given and however far it comes.
LEMMA TypeConfigureDhcp ==
    ASSUME TypeOK, NEW a \in Acks, NEW out \in Outcomes, NEW installed \in BOOLEAN,
           ConfigureDhcp(a, out, installed)
    PROVE  /\ mT1' \in Nat /\ lease' \in Nat
           /\ mT2' \in Int /\ mT2' >= -Horizon
           /\ mDhcpInfo' \in Ack
           /\ iface' \in [up: BOOLEAN, mtu: Nat, addr: Addr]
           /\ route' \in Addr
           /\ props' \in [gw: Addr, dns: Addr]
  <1>1. a \in Ack
    BY ReplyAssumption
  <1>2. mT1' \in Nat /\ lease' \in Nat /\ mT2' \in Int /\ mT2' >= -Horizon
    BY <1>1, LeaseTimers, HorizonAssumption DEF ConfigureDhcp, TypeOK, timers, Ack
  <1>3. mDhcpInfo' \in Ack
    BY <1>1 DEF ConfigureDhcp, Ack, Addr, NoAddr
  <1>4. iface' \in [up: BOOLEAN, mtu: Nat, addr: Addr]
    BY <1>1 DEF ConfigureDhcp, TypeOK, Ack
  <1>5. route' \in Addr /\ props' \in [gw: Addr, dns: Addr]
    BY <1>1 DEF ConfigureDhcp, TypeOK, Ack
  <1> QED
    BY <1>2, <1>3, <1>4, <1>5

\* haltNetwork leaves an interface, whichever of its calls fail.
LEMMA TypeHaltNetwork ==
    ASSUME TypeOK, NEW out \in Outcomes, HaltNetwork(out)
    PROVE  iface' \in [up: BOOLEAN, mtu: Nat, addr: Addr]
  <1>1. NoAddr \in Addr
    BY DEF NoAddr, Addr
  <1> QED
    BY <1>1, Zenon DEF HaltNetwork, TypeOK

\* The members that the constructor sets, and those it leaves, have their types.
LEMMA TypeInit == Init => TypeOK
  BY TimeoutAssumption, SpanAssumption, HorizonAssumption
     DEF Init, TypeOK, States, Msgs, NoMsg, NoInfo, Ack, Addr, NoAddr, Uninit

\* Every turn of the loop, reply and second keeps the types.
LEMMA TypeNext == TypeOK /\ [Next]_vars => TypeOK'
  <1> SUFFICES ASSUME TypeOK, [Next]_vars PROVE TypeOK'
    OBVIOUS
  <1> USE SpanAssumption, TimeoutAssumption
  <1>1. CASE Startup
    <2>1. PICK up \in BOOLEAN, opened \in BOOLEAN :
             /\ iface' = [iface EXCEPT !.up = @ \/ up, !.addr = NoAddr]
             /\ pc' = IF up /\ opened THEN "run" ELSE "exited"
      BY <1>1 DEF Startup
    <2>2. NoAddr \in Addr
      BY DEF NoAddr, Addr
    <2>3. iface' \in [up: BOOLEAN, mtu: Nat, addr: Addr]
      BY <2>1, <2>2, Zenon DEF TypeOK
    <2>4. pc' \in {"run", "exited"}
      BY <2>1
    <2>5. UNCHANGED <<timeout, mState, mNextTimeout, mFuzzNextTimeout, timers,
                      peers, mDhcpInfo, route, props>>
      BY <1>1 DEF Startup
    <2> QED
      BY <2>3, <2>4, <2>5 DEF TypeOK, timers, peers
  <1>2. CASE Exited
    BY <1>2 DEF Exited, TypeOK, vars, client, timers, peers, config
  <1>3. CASE RunInit
    BY <1>3, TypeMoveTo DEF RunInit, States
  <1>4. CASE RunSelecting
    <2>1. Discover \in Msgs
      BY DEF Discover, Msgs, Addr, NoAddr
    <2> QED
      BY <1>4, <2>1, TypeSendAndWait DEF RunSelecting
  <1>5. Request(mRequestAddress, mServerAddress) \in Msgs
        /\ Request(mRequestAddress, Broadcast) \in Msgs
    BY DEF Request, Msgs, TypeOK
  <1>6. CASE RunRequesting
    BY <1>5, <1>6, TypeMoveTo, TypeSendAndWait DEF RunRequesting, States
  <1>7. CASE RunBound
    <2>1. CASE Expired(mT1)
      BY <1>7, <2>1, TypeMoveTo DEF RunBound, States
    <2>2. CASE ~Expired(mT1)
      <3>1. /\ mNextTimeout' \in 0..(MillisSpan - 1)
            /\ pc' \in {"run", "poll"}
            /\ timeout' \in 0..(MillisSpan - 1)
            /\ UNCHANGED <<mState, timers, peers, config>>
        BY <1>7, <2>2, WaitForT1Effect DEF TypeOK
      <3>2. mFuzzNextTimeout' \in BOOLEAN
        BY <1>7, <2>2, WaitForT1Effect
      <3> QED
        BY <3>1, <3>2 DEF TypeOK, timers, peers, config
    <2> QED
      BY <2>1, <2>2
  <1>8. CASE RunRenewing
    BY <1>5, <1>8, TypeMoveTo, TypeSendAndWait DEF RunRenewing, States
  <1>9. CASE RunRebinding
    BY <1>5, <1>9, TypeMoveTo, TypeSendAndWait DEF RunRebinding, States
  <1>10. CASE PollTimeout
    BY <1>10 DEF PollTimeout, TypeOK, timers, peers, config
  <1>11. ASSUME NEW o \in Offers, ReceiveOffer(o) PROVE TypeOK'
    BY <1>11, ReplyAssumption
       DEF ReceiveOffer, SetNextState, NoTimeout, TypeOK, States, Offer,
           timers, config
  <1>12. ASSUME NEW a \in Acks, ReceiveAck(a) PROVE TypeOK'
    <2>1. PICK out \in Outcomes, installed \in BOOLEAN :
             /\ ConfigureDhcp(a, out, installed)
             /\ IF Configured(a, out)
                THEN SetNextState("Bound") /\ pc' = "run"
                ELSE UNCHANGED <<pc, mState, mNextTimeout, mFuzzNextTimeout>>
      BY <1>12 DEF ReceiveAck
    <2>2. /\ pc' \in {"start", "run", "poll", "exited"}
          /\ mState' \in States
          /\ mNextTimeout' \in 0..(MillisSpan - 1)
          /\ mFuzzNextTimeout' \in BOOLEAN
      <3>1. CASE Configured(a, out)
        <4>1. pc' = "run" /\ mState' = "Bound" /\ mNextTimeout' = 0
              /\ mFuzzNextTimeout' = TRUE
          BY <2>1, <3>1 DEF SetNextState, NoTimeout
        <4> QED
          BY <4>1 DEF States
      <3>2. CASE ~Configured(a, out)
        <4>1. UNCHANGED <<pc, mState, mNextTimeout, mFuzzNextTimeout>>
          BY <2>1, <3>2
        <4> QED
          BY <4>1 DEF TypeOK
      <3> QED
        BY <3>1, <3>2
    <2>3. UNCHANGED <<timeout, peers>>
      BY <1>12 DEF ReceiveAck
    <2>4. /\ mT1' \in Nat /\ lease' \in Nat
          /\ mT2' \in Int /\ mT2' >= -Horizon
          /\ mDhcpInfo' \in Ack
          /\ iface' \in [up: BOOLEAN, mtu: Nat, addr: Addr]
          /\ route' \in Addr
          /\ props' \in [gw: Addr, dns: Addr]
      BY <2>1, TypeConfigureDhcp
    <2> QED
      BY <2>2, <2>3, <2>4 DEF TypeOK, peers
  <1>13. CASE ReceiveNak
    <2>1. iface' \in [up: BOOLEAN, mtu: Nat, addr: Addr]
      BY <1>13, TypeHaltNetwork DEF ReceiveNak
    <2>2. /\ mState' = "Init" /\ mNextTimeout' = 0 /\ mFuzzNextTimeout' = TRUE
          /\ pc' = "run"
          /\ UNCHANGED <<timeout, timers, peers, mDhcpInfo, route, props>>
      BY <1>13 DEF ReceiveNak, SetNextState, NoTimeout
    <2> QED
      BY <2>1, <2>2 DEF TypeOK, States, timers, peers
  <1>14. CASE Tick
    BY <1>14, HorizonAssumption
       DEF Tick, Elapse, TypeOK, peers, config
  <1>15. CASE UNCHANGED vars
    BY <1>15 DEF TypeOK, vars, client, timers, peers, config
  <1> QED
    BY <1>1, <1>2, <1>3, <1>4, <1>6, <1>7, <1>8, <1>9, <1>10, <1>11, <1>12,
       <1>13, <1>14, <1>15 DEF Next, Run, Receive

\* Every reachable state is well typed; no poll of the client is longer than 32
\* bits of milliseconds can say.
THEOREM TypeCorrect == Spec => []TypeOK
  BY TypeInit, TypeNext, PTL DEF Spec

-----------------------------------------------------------------------------
(* Messages and configuration                                               *)

\* From the offer on, both addresses are those of one offer.
OfferRead ==
    mState \in AwaitingAck \cup {"Bound"} =>
        \E o \in Offers : mRequestAddress = o.yiaddr /\ mServerAddress = o.serverId

\* While the client polls the last message is the one its state sends.
LastMsgSent ==
    pc = "poll" =>
        /\ mState # "Init"
        /\ mState = "Selecting" => mLastMsg = Discover
        /\ mState \in {"Requesting", "Renewing"} =>
              mLastMsg = Request(mRequestAddress, mServerAddress)
        /\ mState = "Rebinding" => mLastMsg = Request(mRequestAddress, Broadcast)

\* The state machine does not run before DhcpClient::init has succeeded.
NotStarted == pc \in {"start", "exited"} => mState = "Init"

\* The inductive invariant behind the properties of messages and configuration.
MsgInv == /\ OfferRead /\ LastMsgSent /\ NotStarted
          /\ HaltedHasNoLease /\ BoundIsConfigured

\* MsgInv holds before DhcpClient::init.
LEMMA MsgInvInit == Init => MsgInv
  BY DEF Init, MsgInv, OfferRead, LastMsgSent, NotStarted, HaltedHasNoLease,
         BoundIsConfigured, AwaitingAck

\* A turn of the loop that does not leave for Bound preserves MsgInv if the
\* state it moves to needs no more than the one it leaves.
LEMMA MsgInvMoveTo ==
    ASSUME MsgInv, pc = "run", NEW state, MoveTo(state),
           \/ state \in {"Init", "Selecting"} 
           \/ state \in {"Renewing", "Rebinding"} /\ mState \in {"Bound", "Renewing"}
    PROVE  MsgInv'
  <1>1. /\ mState' = state /\ pc' = "run"
        /\ UNCHANGED <<mServerAddress, mRequestAddress, config>>
    BY MoveToEffect
  <1> QED
    BY <1>1 DEF MsgInv, OfferRead, LastMsgSent, NotStarted, HaltedHasNoLease,
                BoundIsConfigured, AwaitingAck, config

\* Sending the message of the current state preserves MsgInv.
LEMMA MsgInvSend ==
    ASSUME TypeOK, MsgInv, pc = "run", NEW msg, SendAndWait(msg),
           \/ mState = "Selecting" /\ msg = Discover
           \/ /\ mState \in {"Requesting", "Renewing"}
              /\ msg = Request(mRequestAddress, mServerAddress)
           \/ mState = "Rebinding" /\ msg = Request(mRequestAddress, Broadcast)
    PROVE  MsgInv'
  <1>1. /\ mLastMsg' = msg /\ pc' = "poll"
        /\ UNCHANGED <<mState, mServerAddress, mRequestAddress, config>>
    BY SendAndWaitEffect
  <1> QED
    BY <1>1 DEF MsgInv, OfferRead, LastMsgSent, NotStarted, HaltedHasNoLease,
                BoundIsConfigured, AwaitingAck, config, Request

\* An acknowledgement that configureDhcp accepts leaves the interface up and
\* with its address; one it gives up on leaves the interface up if it was.
LEMMA ConfigureDhcpEffect ==
    ASSUME TypeOK, NEW a \in Acks, NEW out \in Outcomes, NEW installed \in BOOLEAN,
           ConfigureDhcp(a, out, installed)
    PROVE  /\ iface.up => iface'.up
           /\ Configured(a, out) =>
                 /\ iface'.up /\ iface'.addr = mDhcpInfo'.yiaddr
                 /\ mDhcpInfo'.wellFormed /\ mDhcpInfo'.leaseTime # 0
  <1>1. a \in Ack
    BY ReplyAssumption
  <1>2. iface'.up = (iface.up \/ BroughtUp(a, out))
        /\ iface'.addr = IF AddressSet(a, out) THEN a.yiaddr ELSE iface.addr
    BY DEF ConfigureDhcp
  <1>3. mDhcpInfo' = [a EXCEPT !.yiaddr = IF a.wellFormed THEN @ ELSE NoAddr]
    BY DEF ConfigureDhcp
  <1>4. ASSUME Configured(a, out)
        PROVE  /\ a.wellFormed /\ a.leaseTime # 0
               /\ BroughtUp(a, out) /\ AddressSet(a, out)
    BY <1>4 DEF Configured, AddressSet, BroughtUp, LeaseRead
  <1> QED
    BY <1>1, <1>2, <1>3, <1>4 DEF Ack

\* MsgInv is inductive: every turn of the loop, reply and second preserves it.
LEMMA MsgInvNext == TypeOK /\ MsgInv /\ [Next]_vars => MsgInv'
  <1> SUFFICES ASSUME TypeOK, MsgInv, [Next]_vars PROVE MsgInv'
    OBVIOUS
  <1> USE DEF MsgInv
  <1>1. CASE Startup
    <2>1. mState = "Init" /\ mState' = "Init" /\ pc' \in {"run", "exited"}
      BY <1>1 DEF Startup, NotStarted
    <2> QED
      BY <2>1 DEF OfferRead, LastMsgSent, NotStarted, HaltedHasNoLease,
                  BoundIsConfigured, AwaitingAck
  <1>2. CASE Exited \/ UNCHANGED vars
    BY <1>2 DEF Exited, vars, client, timers, peers, config, OfferRead,
                LastMsgSent, NotStarted, HaltedHasNoLease, BoundIsConfigured
  <1>3. CASE RunInit
    BY <1>3, MsgInvMoveTo DEF RunInit
  <1>4. CASE RunSelecting
    BY <1>4, MsgInvSend DEF RunSelecting
  <1>5. CASE RunRequesting
    BY <1>5, MsgInvMoveTo, MsgInvSend DEF RunRequesting
  <1>6. CASE RunBound
    <2>1. CASE Expired(mT1)
      BY <1>6, <2>1, MsgInvMoveTo DEF RunBound
    <2>2. CASE ~Expired(mT1)
      <3>1. mState = "Bound" /\ pc' \in {"run", "poll"}
            /\ UNCHANGED <<mState, peers, config>>
        BY <1>6, <2>2, WaitForT1Effect DEF RunBound
      <3> QED
        BY <1>6, <3>1 DEF RunBound, peers, config, OfferRead, LastMsgSent,
           NotStarted, HaltedHasNoLease, BoundIsConfigured
    <2> QED
      BY <2>1, <2>2
  <1>7. CASE RunRenewing
    BY <1>7, MsgInvMoveTo, MsgInvSend DEF RunRenewing
  <1>8. CASE RunRebinding
    BY <1>8, MsgInvMoveTo, MsgInvSend DEF RunRebinding
  <1>9. CASE PollTimeout
    BY <1>9 DEF PollTimeout, peers, config, OfferRead, LastMsgSent, NotStarted,
                HaltedHasNoLease, BoundIsConfigured
  <1>10. ASSUME NEW o \in Offers, ReceiveOffer(o) PROVE MsgInv'
    <2>1. /\ mServerAddress' = o.serverId /\ mRequestAddress' = o.yiaddr
          /\ mState' = "Requesting" /\ pc' = "run"
          /\ iface.up /\ UNCHANGED config
      BY <1>10 DEF ReceiveOffer, SetNextState, Receives
    <2> QED
      BY <2>1 DEF config, OfferRead, LastMsgSent, NotStarted, HaltedHasNoLease,
                  BoundIsConfigured
  <1>11. ASSUME NEW a \in Acks, ReceiveAck(a) PROVE MsgInv'
    <2>1. PICK out \in Outcomes, installed \in BOOLEAN :
             /\ ConfigureDhcp(a, out, installed)
             /\ IF Configured(a, out)
                THEN SetNextState("Bound") /\ pc' = "run"
                ELSE UNCHANGED <<pc, mState, mNextTimeout, mFuzzNextTimeout>>
      BY <1>11 DEF ReceiveAck
    <2>2. /\ iface.up /\ mState \in AwaitingAck
          /\ UNCHANGED peers
      BY <1>11 DEF ReceiveAck, Receives
    <2>3. iface'.up
      BY <2>1, <2>2, ConfigureDhcpEffect
    <2>4. CASE Configured(a, out)
      <3>1. mState' = "Bound" /\ pc' = "run"
        BY <2>1, <2>4 DEF SetNextState
      <3>2. BoundIsConfigured'
        BY <2>1, <2>4, ConfigureDhcpEffect DEF BoundIsConfigured
      <3> QED
        BY <2>2, <2>3, <3>1, <3>2 DEF peers, OfferRead, LastMsgSent, NotStarted,
           HaltedHasNoLease
    <2>5. CASE ~Configured(a, out)
      <3>1. UNCHANGED <<pc, mState>>
        BY <2>1, <2>5
      <3> QED
        BY <2>2, <2>3, <3>1 DEF peers, OfferRead, LastMsgSent, NotStarted,
           HaltedHasNoLease, BoundIsConfigured, AwaitingAck
    <2> QED
      BY <2>4, <2>5
  <1>12. CASE ReceiveNak
    <2>1. mState' = "Init" /\ pc' = "run"
      BY <1>12 DEF ReceiveNak, SetNextState
    <2> QED
      BY <2>1 DEF OfferRead, LastMsgSent, NotStarted, HaltedHasNoLease,
                  BoundIsConfigured, AwaitingAck
  <1>13. CASE Tick
    BY <1>13 DEF Tick, peers, config, OfferRead, LastMsgSent, NotStarted,
                 HaltedHasNoLease, BoundIsConfigured
  <1> QED
    BY <1>1, <1>2, <1>3, <1>4, <1>5, <1>6, <1>7, <1>8, <1>9, <1>10, <1>11,
       <1>12, <1>13 DEF Next, Run, Receive

\* In every reachable state both addresses stem from one offer, mLastMsg is the
\* message of the state, a halted client has no lease and a bound one is configured.
THEOREM MsgInvariant == Spec => []MsgInv
  BY MsgInvInit, MsgInvNext, TypeCorrect, PTL DEF Spec

\* A reply that carries the expected transaction ID answers a DISCOVER in
\* Selecting, and elsewhere a REQUEST for what a single offer said.
THEOREM RepliesAnswer == Spec => []ReplyAnswersLastMsg
  <1>1. MsgInv => ReplyAnswersLastMsg
    BY DEF MsgInv, OfferRead, LastMsgSent, ReplyAnswersLastMsg, AwaitingAck
  <1> QED
    BY <1>1, MsgInvariant, PTL

\* Bound means configured, whichever calls failed on the way there.
THEOREM BoundConfigured == Spec => []BoundIsConfigured
  BY MsgInvariant, PTL DEF MsgInv

\* A client whose interface is down has no lease and no request outstanding.
THEOREM HaltedWithoutLease == Spec => []HaltedHasNoLease
  BY MsgInvariant, PTL DEF MsgInv

-----------------------------------------------------------------------------
(* Time                                                                     *)

\* What is left of the current poll.
Waiting == IF pc = "poll" THEN timeout ELSE 0

\* The waits of one state up to and including the one of mNextTimeout = n.
Spent(n) ==
    IF n = 0 THEN 0
    ELSE IF n = InitialTimeout THEN InitialTimeout + TimeoutSpan
    ELSE IF n = 2 * InitialTimeout THEN 3 * InitialTimeout + 2 * TimeoutSpan
    ELSE IF n = 4 * InitialTimeout THEN 7 * InitialTimeout + 3 * TimeoutSpan
    ELSE IF n = 8 * InitialTimeout THEN 15 * InitialTimeout + 4 * TimeoutSpan
    ELSE 31 * InitialTimeout + 5 * TimeoutSpan

\* Every wait but the one for T1 is one of the retry timeouts, fuzzed.
RetryWait ==
    mState # "Bound" =>
        /\ mNextTimeout \in Ladder \cup {0}
        /\ pc = "poll" => mNextTimeout # 0 /\ timeout <= mNextTimeout + TimeoutSpan

\* A bound client has T1 before the end of the lease and, if the servers see to
\* it, before T2, and polls no longer than until T1.
BoundWait ==
    mState = "Bound" =>
        /\ pc = "poll" => timeout <= mT1
        /\ mDhcpInfo.t1 <= mDhcpInfo.leaseTime => mT1 <= lease
        /\ OrderedTimers => mT1 <= mT2

\* T2 can pass unnoticed during one renewal wait.
RenewalWait ==
    OrderedTimers /\ mState = "Renewing" =>
        mT2 >= Waiting - (MaxTimeout + TimeoutSpan)

\* In Rebinding the waits so far add to that.
RebindingWait ==
    OrderedTimers /\ mState = "Rebinding" =>
        mT2 >= Waiting - (MaxTimeout + TimeoutSpan) - Spent(mNextTimeout)

\* The inductive invariant behind the properties of time.
TimeInv == RetryWait /\ BoundWait /\ RenewalWait /\ RebindingWait

\* increaseTimeout goes one step up the ladder, and with it Spent grows by the
\* longest wait that the step can bring.
LEMMA LadderStep ==
    ASSUME NEW n \in Ladder \cup {0}
    PROVE  /\ n \in Nat
           /\ IncreaseTimeout(n) \in Ladder /\ IncreaseTimeout(n) # 0
           /\ Spent(n) \in Nat /\ Spent(n) <= 31 * InitialTimeout + 5 * TimeoutSpan
           /\ n < MaxTimeout =>
                 Spent(IncreaseTimeout(n)) =
                    Spent(n) + IncreaseTimeout(n) + TimeoutSpan
  BY TimeoutAssumption DEF Ladder, IncreaseTimeout, NoTimeout, Spent

\* TimeInv holds before DhcpClient::init.
LEMMA TimeInvInit == Init => TimeInv
  BY DEF Init, TimeInv, RetryWait, BoundWait, RenewalWait, RebindingWait, Ladder

\* Moving to a state that does not await the timers preserves TimeInv.
LEMMA TimeInvReset ==
    ASSUME mState' \in {"Init", "Selecting", "Requesting"}, mNextTimeout' = 0,
           pc' = "run"
    PROVE  TimeInv'
  BY DEF TimeInv, RetryWait, BoundWait, RenewalWait, RebindingWait

\* Sending a request and polling for its answer preserves TimeInv: the poll is
\* one of the retry timeouts and what it adds is counted by Spent.
LEMMA TimeInvSend ==
    ASSUME TypeOK, TimeInv, pc = "run", mState # "Bound",
           NEW msg, SendAndWait(msg),
           mState = "Renewing" => mT2 > 0,
           mState = "Rebinding" => mNextTimeout < MaxTimeout
    PROVE  TimeInv'
  <1>1. /\ mNextTimeout' = IncreaseTimeout(mNextTimeout)
        /\ mNextTimeout' <= MaxTimeout
        /\ pc' = "poll"
        /\ timeout' \in Nat /\ timeout' <= mNextTimeout' + TimeoutSpan
        /\ mState' = mState /\ mT2' = mT2
    BY SendAndWaitEffect, TimeoutAssumption
  <1>2. mNextTimeout \in Ladder \cup {0}
    BY DEF TimeInv, RetryWait
  <1>3. /\ mNextTimeout' \in Ladder /\ mNextTimeout' # 0 /\ mNextTimeout' \in Nat
        /\ Spent(mNextTimeout) \in Nat
        /\ mNextTimeout < MaxTimeout =>
              Spent(mNextTimeout') = Spent(mNextTimeout) + mNextTimeout' + TimeoutSpan
    BY <1>1, <1>2, LadderStep
  <1>4. RetryWait'
    BY <1>1, <1>3 DEF RetryWait
  <1>5. BoundWait'
    BY <1>1 DEF BoundWait
  <1>6. mT2 \in Int /\ Waiting' = timeout' /\ Waiting = 0
    BY <1>1 DEF Waiting, TypeOK
  <1>7. RenewalWait'
    <2> SUFFICES ASSUME mState = "Renewing"
                 PROVE  mT2' >= Waiting' - (MaxTimeout + TimeoutSpan)
      BY <1>1 DEF RenewalWait
    <2>1. \A w \in Nat : w <= MaxTimeout + TimeoutSpan =>
                            mT2 >= w - (MaxTimeout + TimeoutSpan)
      BY <1>6, TimeoutAssumption
    <2>2. timeout' <= MaxTimeout + TimeoutSpan
      BY <1>1, <1>3, TimeoutAssumption
    <2>3. mT2 >= timeout' - (MaxTimeout + TimeoutSpan)
      BY <1>1, <2>1, <2>2
    <2> QED
      BY <1>1, <1>6, <2>3
  <1>8. RebindingWait'
    <2> SUFFICES ASSUME OrderedTimers, mState = "Rebinding"
                 PROVE  mT2' >=
                           Waiting' - (MaxTimeout + TimeoutSpan) - Spent(mNextTimeout')
      BY <1>1 DEF RebindingWait
    <2>1. mT2 >= 0 - (MaxTimeout + TimeoutSpan) - Spent(mNextTimeout)
      BY <1>6 DEF TimeInv, RebindingWait
    <2> QED
      BY <1>1, <1>3, <1>6, <2>1, TimeoutAssumption
  <1> QED
    BY <1>4, <1>5, <1>7, <1>8 DEF TimeInv

\* An acknowledgement sets all timers or none.
LEMMA ArmedTimers ==
    ASSUME NEW a \in Acks, NEW out \in Outcomes, NEW installed \in BOOLEAN,
           ConfigureDhcp(a, out, installed)
    PROVE  /\ LeaseRead(a) => /\ mT1' = RenewalTime(a) /\ mT1' \in Nat
                              /\ mT2' = RebindingTime(a) /\ mT2' \in Nat
                              /\ lease' = a.leaseTime
           /\ ~LeaseRead(a) => UNCHANGED <<mT1, mT2, lease>>
           /\ mDhcpInfo'.t1 = a.t1 /\ mDhcpInfo'.leaseTime = a.leaseTime
  <1>1. a \in Ack /\ RenewalTime(a) \in Nat /\ RebindingTime(a) \in Nat
    BY LeaseTimers, ReplyAssumption
  <1>2. mDhcpInfo'.t1 = a.t1 /\ mDhcpInfo'.leaseTime = a.leaseTime
    BY <1>1 DEF ConfigureDhcp, Ack
  <1> QED
    BY <1>1, <1>2 DEF ConfigureDhcp, timers

\* TimeInv is inductive relative to TypeOK and MsgInv: every turn of the loop,
\* reply and second preserves it.
LEMMA TimeInvNext == TypeOK /\ MsgInv /\ TimeInv /\ [Next]_vars => TimeInv'
  <1> SUFFICES ASSUME TypeOK, MsgInv, TimeInv, [Next]_vars PROVE TimeInv'
    OBVIOUS
  <1> USE TimeoutAssumption
  <1>1. CASE Startup
    <2>1. mState = "Init" /\ mState' = "Init" /\ pc' \in {"run", "exited"}
          /\ UNCHANGED mNextTimeout
      BY <1>1 DEF Startup, MsgInv, NotStarted
    <2> QED
      BY <2>1 DEF TimeInv, RetryWait, BoundWait, RenewalWait, RebindingWait
  <1>2. CASE Exited \/ UNCHANGED vars
    BY <1>2 DEF Exited, vars, client, timers, peers, config, TimeInv, RetryWait,
                BoundWait, RenewalWait, RebindingWait, Waiting
  <1>3. CASE RunInit
    BY <1>3, MoveToEffect, TimeInvReset DEF RunInit
  <1>4. CASE RunSelecting
    BY <1>4, TimeInvSend DEF RunSelecting
  <1>5. CASE RunRequesting
    BY <1>5, MoveToEffect, TimeInvReset, TimeInvSend DEF RunRequesting
  <1>6. CASE RunBound
    <2>1. CASE Expired(mT1)
      <3>1. /\ mState = "Bound" /\ mState' = "Renewing" /\ mNextTimeout' = 0
            /\ pc = "run" /\ pc' = "run" /\ mT2' = mT2
        BY <1>6, <2>1, MoveToEffect DEF RunBound
      <3>2. OrderedTimers => mT2 >= 0
        BY <3>1 DEF TimeInv, BoundWait, TypeOK
      <3> QED
        BY <3>1, <3>2 DEF TimeInv, RetryWait, BoundWait, RenewalWait,
           RebindingWait, Waiting, TypeOK
    <2>2. CASE ~Expired(mT1)
      <3>1. /\ mState = "Bound" /\ mState' = "Bound"
            /\ pc' = "poll" => timeout' <= mT1
            /\ UNCHANGED <<mT1, mT2, lease, mDhcpInfo>>
        BY <1>6, <2>2, WaitForT1Effect DEF RunBound, timers, config
      <3> QED
        BY <3>1 DEF TimeInv, RetryWait, BoundWait, RenewalWait, RebindingWait
    <2> QED
      BY <2>1, <2>2
  <1>7. CASE RunRenewing
    <2>1. CASE Expired(mT2)
      <3>1. /\ mState = "Renewing" /\ mState' = "Rebinding" /\ mNextTimeout' = 0
            /\ pc = "run" /\ pc' = "run" /\ mT2' = mT2
        BY <1>7, <2>1, MoveToEffect DEF RunRenewing
      <3>2. Spent(0) = 0 /\ Waiting = 0 /\ Waiting' = 0
        BY <3>1 DEF Spent, Waiting
      <3> QED
        BY <3>1, <3>2 DEF TimeInv, RetryWait, BoundWait, RenewalWait,
           RebindingWait, TypeOK
    <2>2. CASE ~Expired(mT2)
      BY <1>7, <2>2, TimeInvSend DEF RunRenewing, Expired, TypeOK
    <2> QED
      BY <2>1, <2>2
  <1>8. CASE RunRebinding
    <2>1. mNextTimeout \in Nat
      BY SpanAssumption DEF TypeOK
    <2>2. CASE mNextTimeout >= MaxTimeout
      BY <1>8, <2>2, MoveToEffect, TimeInvReset DEF RunRebinding
    <2>3. CASE mNextTimeout < MaxTimeout
      <3>1. /\ pc = "run" /\ mState = "Rebinding"
            /\ SendAndWait(Request(mRequestAddress, Broadcast))
        BY <1>8, <2>1, <2>3 DEF RunRebinding
      <3> QED
        BY <2>3, <3>1, TimeInvSend
    <2> QED
      BY <2>1, <2>2, <2>3
  <1>9. CASE PollTimeout
    <2>1. /\ pc = "poll" /\ timeout = 0 /\ pc' = "run"
          /\ UNCHANGED <<mState, mNextTimeout, mT1, mT2, lease, mDhcpInfo>>
      BY <1>9 DEF PollTimeout, timers, config
    <2>2. Waiting = 0 /\ Waiting' = 0
      BY <2>1 DEF Waiting
    <2> QED
      BY <2>1, <2>2 DEF TimeInv, RetryWait, BoundWait, RenewalWait, RebindingWait
  <1>10. ASSUME NEW o \in Offers, ReceiveOffer(o) PROVE TimeInv'
    BY <1>10, TimeInvReset DEF ReceiveOffer, SetNextState, NoTimeout
  <1>11. ASSUME NEW a \in Acks, ReceiveAck(a) PROVE TimeInv'
    <2>1. PICK out \in Outcomes, installed \in BOOLEAN :
             /\ ConfigureDhcp(a, out, installed)
             /\ IF Configured(a, out)
                THEN SetNextState("Bound") /\ pc' = "run"
                ELSE UNCHANGED <<pc, mState, mNextTimeout, mFuzzNextTimeout>>
      BY <1>11 DEF ReceiveAck
    <2>2. pc = "poll" /\ mState \in AwaitingAck /\ timeout' = timeout
      BY <1>11 DEF ReceiveAck, Receives
    <2>3. CASE Configured(a, out)
      <3>1. mState' = "Bound" /\ pc' = "run" /\ LeaseRead(a)
        BY <2>1, <2>3 DEF SetNextState, Configured, AddressSet, BroughtUp
      <3>2. a.t1 <= a.leaseTime => mT1' <= lease'
        BY <2>1, <3>1, ArmedTimers, LeaseTimers
      <3>3. OrderedTimers => mT1' <= mT2'
        BY <2>1, <3>1, ArmedTimers DEF OrderedTimers
      <3>4. mDhcpInfo'.t1 = a.t1 /\ mDhcpInfo'.leaseTime = a.leaseTime
        BY <2>1, ArmedTimers
      <3> QED
        BY <3>1, <3>2, <3>3, <3>4
           DEF TimeInv, RetryWait, BoundWait, RenewalWait, RebindingWait
    <2>4. CASE ~Configured(a, out)
      <3>1. UNCHANGED <<pc, mState, mNextTimeout>>
        BY <2>1, <2>4
      <3>2. mState # "Bound" /\ mState' # "Bound"
        BY <2>2, <3>1 DEF AwaitingAck
      <3>3. RetryWait' /\ BoundWait'
        BY <2>2, <3>1, <3>2 DEF TimeInv, RetryWait, BoundWait
      <3>4. /\ timeout \in Nat /\ timeout <= MaxTimeout + TimeoutSpan
            /\ Spent(mNextTimeout) \in Nat
        <4>1. mNextTimeout \in Ladder \cup {0} /\ timeout <= mNextTimeout + TimeoutSpan
          BY <2>2, <3>2 DEF TimeInv, RetryWait
        <4>2. mNextTimeout \in Nat /\ mNextTimeout <= MaxTimeout
          BY <4>1 DEF Ladder
        <4> QED
          BY <4>1, <4>2, LadderStep, SpanAssumption DEF TypeOK
      <3>5. Waiting = timeout /\ Waiting' = timeout
        BY <2>2, <3>1 DEF Waiting
      <3>6. mT2' = mT2 \/ mT2' \in Nat
        BY <2>1, ArmedTimers
      <3>7. RenewalWait'
        BY <3>1, <3>4, <3>5, <3>6 DEF TimeInv, RenewalWait
      <3>8. RebindingWait'
        BY <3>1, <3>4, <3>5, <3>6 DEF TimeInv, RebindingWait
      <3> QED
        BY <3>3, <3>7, <3>8 DEF TimeInv
    <2> QED
      BY <2>3, <2>4
  <1>12. CASE ReceiveNak
    BY <1>12, TimeInvReset DEF ReceiveNak, SetNextState, NoTimeout
  <1>13. CASE Tick
    <2>1. mT1 \in Nat /\ lease \in Nat /\ mT2 \in Int /\ timeout \in Nat
      BY SpanAssumption DEF TypeOK
    <2>2. UNCHANGED <<pc, mState, mNextTimeout, mDhcpInfo>>
      BY <1>13 DEF Tick, config
    <2>3. /\ mT1' = Elapse(mT1, 0) /\ mT2' = Elapse(mT2, -Horizon)
          /\ lease' = Elapse(lease, 0)
      BY <1>13 DEF Tick
    <2>4. \/ pc = "poll" /\ timeout > 0 /\ timeout' = timeout - 1
          \/ pc = "run" /\ mState = "Bound" /\ mT1 > 0 /\ timeout' = timeout
      BY <1>13 DEF Tick, Spins
    <2>5. mT2' >= mT2 - 1 /\ mT2' \in Int
      BY <2>1, <2>3, ElapseBound, HorizonAssumption DEF TypeOK
    <2>6. RetryWait'
      BY <2>1, <2>2, <2>4, SpanAssumption DEF TimeInv, RetryWait, TypeOK
    <2>7. BoundWait'
      <3> SUFFICES ASSUME mState = "Bound" PROVE BoundWait'
        BY <2>2 DEF BoundWait
      <3>1. mT1 > 0 /\ mT1' = mT1 - 1
        BY <2>1, <2>3, <2>4 DEF TimeInv, BoundWait, Elapse
      <3>2. lease' >= lease - 1 /\ lease' \in Int
        BY <2>1, <2>3, ElapseBound
      <3> QED
        BY <2>1, <2>2, <2>4, <2>5, <3>1, <3>2 DEF TimeInv, BoundWait
    <2>8. mState \in {"Renewing", "Rebinding"} =>
             Waiting = timeout /\ Waiting' = timeout - 1
      BY <2>2, <2>4 DEF Waiting
    <2>9. RenewalWait'
      <3> SUFFICES ASSUME OrderedTimers, mState = "Renewing"
                   PROVE  mT2' >= Waiting' - (MaxTimeout + TimeoutSpan)
        BY <2>2 DEF RenewalWait
      <3>1. mT2 >= Waiting - (MaxTimeout + TimeoutSpan)
        BY DEF TimeInv, RenewalWait
      <3> QED
        BY <2>1, <2>5, <2>8, <3>1
    <2>10. RebindingWait'
      <3> SUFFICES ASSUME OrderedTimers, mState = "Rebinding"
                   PROVE  mT2' >=
                             Waiting' - (MaxTimeout + TimeoutSpan) - Spent(mNextTimeout)
        BY <2>2 DEF RebindingWait
      <3>1. Spent(mNextTimeout) \in Nat
        BY LadderStep DEF TimeInv, RetryWait
      <3>2. mT2 >= Waiting - (MaxTimeout + TimeoutSpan) - Spent(mNextTimeout)
        BY DEF TimeInv, RebindingWait
      <3> QED
        BY <2>1, <2>5, <2>8, <3>1, <3>2
    <2> QED
      BY <2>6, <2>7, <2>9, <2>10 DEF TimeInv
  <1> QED
    BY <1>1, <1>2, <1>3, <1>4, <1>5, <1>6, <1>7, <1>8, <1>9, <1>10, <1>11,
       <1>12, <1>13 DEF Next, Run, Receive

\* In every reachable state the waits of the client and its two timers are
\* related as TimeInv says.
THEOREM TimeInvariant == Spec => []TimeInv
  BY TimeInvInit, TimeInvNext, TypeCorrect, MsgInvariant, PTL DEF Spec

\* The client never sleeps past the end of its lease, whatever the lease time
\* and the width of the timeout.
THEOREM WakesInTime == Spec => []WakesBeforeLeaseEnds
  <1>1. TypeOK /\ TimeInv => WakesBeforeLeaseEnds
    BY SpanAssumption DEF TypeOK, TimeInv, BoundWait, WakesBeforeLeaseEnds
  <1> QED
    BY <1>1, TypeCorrect, TimeInvariant, PTL

\* The client has stopped renewing and rebinding GiveUpBound after T2.
THEOREM GiveUpInTime == Spec => []GivesUpInTime
  <1>1. TypeOK /\ TimeInv => GivesUpInTime
    <2> SUFFICES ASSUME TypeOK, TimeInv, OrderedTimers,
                        mState \in {"Renewing", "Rebinding"}
                 PROVE  mT2 >= -GiveUpBound
      BY DEF GivesUpInTime
    <2>1. mT2 \in Int /\ Waiting \in Nat
      BY SpanAssumption DEF TypeOK, Waiting
    <2>2. Spent(mNextTimeout) \in Nat
          /\ Spent(mNextTimeout) <= 31 * InitialTimeout + 5 * TimeoutSpan
      BY LadderStep DEF TimeInv, RetryWait
    <2>3. mT2 >= Waiting - (MaxTimeout + TimeoutSpan) - Spent(mNextTimeout)
      BY <2>1, <2>2, TimeoutAssumption DEF TimeInv, RenewalWait, RebindingWait
    <2> QED
      BY <2>1, <2>2, <2>3, TimeoutAssumption DEF GiveUpBound
  <1> QED
    BY <1>1, TypeCorrect, TimeInvariant, PTL

-----------------------------------------------------------------------------
(* The abstract lease of DhcpLease                                          *)

\* A step that moves neither the state between phases nor the address nor the
\* timers is invisible to the users of the lease.
LEMMA HiddenStep ==
    ASSUME UNCHANGED <<mT1, mT2>>, iface.addr' = iface.addr,
           \/ mState' = mState
           \/ {mState, mState'} \subseteq {"Init", "Selecting"}
    PROVE  UNCHANGED L!vars
  BY DEF L!vars

\* A turn of the loop that sends and waits changes nothing of the lease.
LEMMA HiddenSend ==
    ASSUME NEW msg, SendAndWait(msg)
    PROVE  UNCHANGED L!vars
  BY HiddenStep DEF SendAndWait, timers, config

\* What a change of state alone does.
LEMMA MoveKeeps ==
    ASSUME NEW state, MoveTo(state)
    PROVE  mState' = state /\ UNCHANGED <<mT1, mT2, iface>>
  BY DEF MoveTo, SetNextState, timers, config

\* Nothing configures the interface before the client starts.
Unconfigured == pc = "start" => iface.addr = NoAddr

\* No step leads back to the start of the program.
LEMMA UnconfiguredNext == TypeOK /\ Unconfigured /\ [Next]_vars => Unconfigured'
  <1> SUFFICES ASSUME TypeOK, Unconfigured, [Next]_vars, pc' = "start"
               PROVE  UNCHANGED <<pc, iface>>
    BY DEF Unconfigured
  <1> USE DEF WaitAndReceive
  <1>1. ASSUME Run PROVE FALSE
    BY <1>1 DEF Run, RunInit, RunSelecting, RunRequesting, RunBound, RunRenewing,
                RunRebinding, MoveTo, SendAndWait
  <1>2. ASSUME Receive PROVE FALSE
    BY <1>2 DEF Receive, ReceiveOffer, ReceiveAck, ReceiveNak, Receives
  <1>3. ASSUME Startup \/ PollTimeout PROVE FALSE
    BY <1>3 DEF Startup, PollTimeout
  <1>4. CASE Tick
    BY <1>4 DEF Tick, config, Spins
  <1>5. CASE UNCHANGED vars
    BY <1>5 DEF vars, client, config
  <1> QED BY <1>1, <1>2, <1>3, <1>4, <1>5 DEF Next, Exited

\* The client starts with no claim and no address.
LEMMA LeaseInit == Init => L!Init /\ Unconfigured
  BY DEF Init, L!Init, NoAddr, Unconfigured

\* Every turn of the loop is a step of the abstract lease, or none.
LEMMA LeaseRun == TypeOK /\ Run => L!Next \/ UNCHANGED L!vars
  <1> SUFFICES ASSUME TypeOK, Run PROVE L!Next \/ UNCHANGED L!vars
    OBVIOUS
  <1>1. CASE RunInit
    BY <1>1, MoveKeeps, HiddenStep DEF RunInit
  <1>2. CASE RunSelecting
    BY <1>2, HiddenSend DEF RunSelecting
  <1>3. CASE RunRequesting
    <2>1. CASE MoveTo("Init")
      <3>1. L!GiveUp
        BY <1>3, <2>1, MoveKeeps DEF RunRequesting, L!GiveUp
      <3> QED BY <3>1 DEF L!Next
    <2> QED BY <1>3, <2>1, HiddenSend DEF RunRequesting
  <1>4. CASE RunBound
    <2>1. CASE Expired(mT1)
      <3>1. L!Renew
        BY <1>4, <2>1, MoveKeeps DEF RunBound, Expired, TypeOK, L!Renew
      <3> QED BY <3>1 DEF L!Next
    <2>2. CASE ~Expired(mT1)
      BY <1>4, <2>2, HiddenStep DEF RunBound, timers, config
    <2> QED BY <2>1, <2>2
  <1>5. CASE RunRenewing
    <2>1. CASE Expired(mT2)
      <3>1. L!Rebind
        BY <1>5, <2>1, MoveKeeps DEF RunRenewing, Expired, TypeOK, L!Rebind
      <3> QED BY <3>1 DEF L!Next
    <2> QED BY <1>5, <2>1, HiddenSend DEF RunRenewing
  <1>6. CASE RunRebinding
    <2>1. CASE MoveTo("Init")
      <3>1. L!GiveUp
        BY <1>6, <2>1, MoveKeeps DEF RunRebinding, L!GiveUp
      <3> QED BY <3>1 DEF L!Next
    <2> QED BY <1>6, <2>1, HiddenSend DEF RunRebinding
  <1> QED BY <1>1, <1>2, <1>3, <1>4, <1>5, <1>6 DEF Run

\* So is every acknowledgement: it grants its lease, is granted in vain when a
\* call fails after the timers were set, or is no lease.
LEMMA LeaseAck ==
    ASSUME TypeOK, NEW a \in Acks, ReceiveAck(a)
    PROVE  L!Next \/ UNCHANGED L!vars
  <1> DEFINE l == [address |-> a.yiaddr, t1 |-> RenewalTime(a), t2 |-> RebindingTime(a)]
  <1>1. mState \in AwaitingAck
    BY DEF ReceiveAck, Receives
  <1>2. PICK out \in Outcomes, installed \in BOOLEAN :
           /\ ConfigureDhcp(a, out, installed)
           /\ IF Configured(a, out)
              THEN SetNextState("Bound") /\ pc' = "run"
              ELSE UNCHANGED <<pc, mState, mNextTimeout, mFuzzNextTimeout>>
    BY DEF ReceiveAck
  <1>3. iface'.addr = IF AddressSet(a, out) THEN a.yiaddr ELSE iface.addr
    BY <1>2 DEF ConfigureDhcp
  <1>4. CASE ~LeaseRead(a)
    <2>1. UNCHANGED <<mT1, mT2, mState>>
      BY <1>2, <1>4 DEF ConfigureDhcp, timers, Configured, AddressSet, BroughtUp
    <2>2. iface'.addr = iface.addr
      BY <1>3, <1>4 DEF AddressSet, BroughtUp
    <2> QED BY <2>1, <2>2, HiddenStep
  <1>5. CASE LeaseRead(a)
    <2>1. mT1' = l.t1 /\ mT2' = l.t2 /\ l.t2 \in Nat
      BY <1>2, <1>5, LeaseTimers DEF ConfigureDhcp
    <2>2. CASE Configured(a, out)
      <3>1. L!Grant(l)
        BY <1>1, <1>2, <1>3, <2>1, <2>2
        DEF L!Grant, L!Waiting, AwaitingAck, SetNextState, Configured
      <3> QED BY <3>1, <1>5 DEF L!Next
    <2>3. CASE ~Configured(a, out)
      <3>1. L!Spoil(l)
        BY <1>1, <1>2, <1>3, <2>1, <2>3 DEF L!Spoil, L!Waiting, AwaitingAck
      <3> QED BY <3>1, <1>5 DEF L!Next
    <2> QED BY <2>2, <2>3
  <1> QED BY <1>4, <1>5

\* A NAK denies the claim; the address is taken away unless the call fails.
LEMMA LeaseNak == ReceiveNak => L!Next
  <1> SUFFICES ASSUME ReceiveNak PROVE L!Next
    OBVIOUS
  <1>1. PICK out \in Outcomes : HaltNetwork(out)
    BY DEF ReceiveNak
  <1>2. iface'.addr \in {iface.addr, 0}
    BY <1>1 DEF HaltNetwork, NoAddr
  <1>3. L!Deny
    BY <1>2 DEF ReceiveNak, Receives, AwaitingAck, SetNextState, timers, L!Deny, L!Waiting
  <1> QED BY <1>3 DEF L!Next

\* Every step of the client is a step of the abstract lease, or none.
LEMMA LeaseNext == TypeOK /\ Unconfigured /\ [Next]_vars => [L!Next]_(L!vars)
  <1> SUFFICES ASSUME TypeOK, Unconfigured, [Next]_vars
               PROVE  L!Next \/ UNCHANGED L!vars
    OBVIOUS
  <1>1. CASE Startup
    <2>1. iface'.addr = iface.addr
      BY <1>1 DEF Startup, Unconfigured, TypeOK
    <2> QED BY <1>1, <2>1, HiddenStep DEF Startup, timers
  <1>2. CASE Run
    BY <1>2, LeaseRun
  <1>3. CASE PollTimeout
    BY <1>3, HiddenStep DEF PollTimeout, timers, config
  <1>4. ASSUME NEW o \in Offers, ReceiveOffer(o) PROVE L!Next
    <2>1. L!Ask
      BY <1>4 DEF ReceiveOffer, Receives, SetNextState, timers, config, L!Ask
    <2> QED BY <2>1 DEF L!Next
  <1>5. CASE Tick
    <2>1. L!Age
      BY <1>5, HorizonAssumption DEF Tick, TypeOK, Elapse, config, L!Age, L!Less
    <2> QED BY <2>1 DEF L!Next
  <1>6. CASE UNCHANGED vars
    BY <1>6, HiddenStep DEF vars, timers, client, config
  <1> QED
    BY <1>1, <1>2, <1>3, <1>4, <1>5, <1>6, LeaseAck, LeaseNak DEF Next, Receive, Exited

\* A lease is held until T1, claimed until it is denied or its requests after T2
\* stay unanswered, and only an ACK or a NAK changes the address: the run loop,
\* configureDhcp and haltNetwork implement DhcpLease.
THEOREM LeaseImplemented == Spec => ImplementsLease
  <1> QED BY LeaseInit, UnconfiguredNext, LeaseNext, TypeCorrect, PTL DEF Spec, ImplementsLease, L!Spec
=============================================================================
