------------------------- MODULE DhcpSegmentProofs -------------------------
(***************************************************************************)
(* Proofs about DhcpSegment: type correctness for any clients, and that a  *)
(* client that is alone on its segment is only ever Bound to an address    *)
(* that the server has leased to it, however many messages it sends and    *)
(* whatever the segment loses, delays, reorders or repeats.                *)
(***************************************************************************)
EXTENDS DhcpSegment, TLAPS

-----------------------------------------------------------------------------
(* Type correctness                                                         *)

\* What clients send and what the server answers are messages.
LEMMA MessageType ==
    /\ \A c \in Clients, xid \in 0..MaxXid, address \in Pool \cup {Free} :
          Discover(c, xid) \in Messages /\ Request(c, xid, address) \in Messages
    /\ \A type \in {"OFFER", "ACK", "NAK"}, m \in Messages, address \in Pool \cup {Free} :
          Reply(type, m, address) \in Messages
  BY DEF Discover, Request, Reply, Messages

\* What the sending of a message leaves behind.
LEMMA SendType ==
    ASSUME TypeOK, NEW c \in Clients, NEW m \in Messages, CanSend(c), SendMessage(c, m)
    PROVE  /\ mLastMsg' \in [Clients -> Messages]
           /\ sNextTransactionId' \in [Clients -> 1..(MaxXid + 1)]
           /\ wire' \subseteq Messages
  BY SegmentAssumption DEF TypeOK, CanSend, SendMessage

\* The transaction ID of a message that can be sent.
LEMMA NextXid ==
    ASSUME TypeOK, NEW c \in Clients, CanSend(c)
    PROVE  sNextTransactionId[c] \in 0..MaxXid
  BY SegmentAssumption DEF TypeOK, CanSend

\* TypeOK holds before anything was sent.
LEMMA TypeInit == Init => TypeOK
  BY SegmentAssumption DEF Init, TypeOK, States, Discover, Messages, Free

\* No step of a client leaves TypeOK.
LEMMA TypeClient ==
    ASSUME TypeOK, NEW c \in Clients, ClientNext(c)
    PROVE  TypeOK'
  <1>1. CASE SendDhcpDiscover(c)
    <2>1. Discover(c, sNextTransactionId[c]) \in Messages
      BY <1>1, NextXid, MessageType DEF SendDhcpDiscover, Free
    <2> QED
      BY <1>1, <2>1, SendType DEF SendDhcpDiscover, TypeOK, States
  <1>2. CASE SendDhcpRequest(c)
    <2>1. Request(c, sNextTransactionId[c], mRequestAddress[c]) \in Messages
      BY <1>2, NextXid, MessageType DEF SendDhcpRequest, TypeOK
    <2>2. RequestStates(mState[c]) \subseteq States
      BY DEF RequestStates, States, TypeOK
    <2> QED
      BY <1>2, <2>1, <2>2, SendType DEF SendDhcpRequest, TypeOK
  <1>3. ASSUME NEW m \in wire, ReceiveOffer(c, m) PROVE TypeOK'
    <2>1. m.addr \in Pool \cup {Free}
      BY DEF TypeOK, Messages
    <2>2. Request(c, sNextTransactionId[c], m.addr) \in Messages
      BY <1>3, <2>1, NextXid, MessageType DEF ReceiveOffer
    <2> QED
      BY <1>3, <2>1, <2>2, SendType DEF ReceiveOffer, TypeOK, States
  <1>4. ASSUME NEW m \in wire, ReceiveAck(c, m) PROVE TypeOK'
    <2>1. m.addr \in Pool \cup {Free}
      BY DEF TypeOK, Messages
    <2>2. iface' \in [Clients -> [up: BOOLEAN, addr: Pool \cup {Free}]]
      BY <1>4, <2>1 DEF ReceiveAck, TypeOK
    <2>3. mState' \in [Clients -> States]
      BY <1>4 DEF ReceiveAck, TypeOK, States
    <2> QED
      BY <1>4, <2>2, <2>3 DEF ReceiveAck, TypeOK
  <1>5. ASSUME NEW m \in wire, ReceiveNak(c, m) PROVE TypeOK'
    BY <1>5 DEF ReceiveNak, TypeOK, States
  <1> QED
    BY <1>1, <1>2, <1>3, <1>4, <1>5 DEF ClientNext

\* No step of the server leaves TypeOK.
LEMMA TypeServer ==
    ASSUME TypeOK,
           \/ \E m \in wire : ServerOffers(m) \/ ServerGrants(m) \/ ServerRefuses(m)
           \/ \E address \in Pool : ServerExpires(address)
    PROVE  TypeOK'
  <1>1. ASSUME NEW m \in wire, ServerOffers(m) PROVE TypeOK'
    BY <1>1, MessageType DEF ServerOffers, TypeOK
  <1>2. ASSUME NEW m \in wire, ServerGrants(m) PROVE TypeOK'
    <2>1. m \in Messages /\ m.addr \in Pool \cup {Free} /\ m.chaddr \in Clients
      BY DEF TypeOK, Messages
    <2>2. Reply("ACK", m, m.addr) \in Messages
      BY <2>1, MessageType
    <2> QED
      BY <1>2, <2>1, <2>2 DEF ServerGrants, TypeOK
  <1>3. ASSUME NEW m \in wire, ServerRefuses(m) PROVE TypeOK'
    BY <1>3, MessageType DEF ServerRefuses, TypeOK
  <1>4. ASSUME NEW address \in Pool, ServerExpires(address) PROVE TypeOK'
    BY <1>4 DEF ServerExpires, TypeOK
  <1> QED
    BY <1>1, <1>2, <1>3, <1>4

\* TypeOK is inductive.
LEMMA TypeNext == TypeOK /\ [Next]_vars => TypeOK'
  <1>1. TypeOK /\ UNCHANGED vars => TypeOK'
    BY DEF TypeOK, vars
  <1> QED
    BY <1>1, TypeClient, TypeServer DEF Next

\* Every variable of DhcpSegment holds a value of its type in every state, for any
\* clients, pool and number of messages.
THEOREM TypeCorrect == Spec => []TypeOK
  BY TypeInit, TypeNext, PTL DEF Spec

-----------------------------------------------------------------------------
(* A client that is alone                                                   *)

\* A client's transaction IDs grow: none of its messages, and no answer to one, has
\* the next.
XidsGrow ==
    /\ \A c \in Clients : mLastMsg[c].xid < sNextTransactionId[c]
    /\ \A m \in wire : m.xid < sNextTransactionId[m.chaddr]

\* What is requested, offered and granted is an address of the pool.
PoolAddresses ==
    /\ \A m \in wire : m.type \in {"REQUEST", "OFFER", "ACK"} => m.addr \in Pool
    /\ \A c \in Clients : mState[c] \in AwaitingAck \cup {"Bound"} =>
          mRequestAddress[c] \in Pool

\* An ACK that its client would take is one for a lease that the server still keeps.
AckIsLeased ==
    \A c \in Clients, m \in wire :
        mState[c] \in AwaitingAck /\ m.type = "ACK" /\ m.xid = mLastMsg[c].xid =>
            leases[m.addr] = c

\* The inductive invariant behind BoundIsLeased.
LeaseInv == XidsGrow /\ PoolAddresses /\ AckIsLeased /\ BoundIsLeased

\* LeaseInv holds before anything was sent.
LEMMA LeaseInvInit == Init => LeaseInv
  BY SegmentAssumption
     DEF Init, LeaseInv, XidsGrow, PoolAddresses, AckIsLeased, BoundIsLeased, Discover,
         AwaitingAck

\* A client that sends a message of its own with its next transaction ID keeps XidsGrow,
\* and no ACK on the wire has that transaction ID.
LEMMA SendKeeps ==
    ASSUME NEW c, Clients = {c}, TypeOK, XidsGrow, CanSend(c),
           NEW m \in Messages, m.xid = sNextTransactionId[c], m.type # "ACK",
           SendMessage(c, m)
    PROVE  /\ XidsGrow'
           /\ \A n \in wire' : n.type = "ACK" => n.xid # mLastMsg'[c].xid
  <1>1. mLastMsg'[c] = m /\ sNextTransactionId'[c] = sNextTransactionId[c] + 1
    BY DEF SendMessage, TypeOK
  <1>2. sNextTransactionId[c] \in Nat
    BY SegmentAssumption DEF TypeOK
  <1>3. \A n \in wire' : n \in Messages /\ n.chaddr = c /\ n.xid \in Nat
    BY SegmentAssumption DEF SendMessage, TypeOK, Messages
  <1>4. \A n \in wire : n.xid < sNextTransactionId[c]
    BY DEF XidsGrow, TypeOK, Messages
  <1>5. \A n \in wire' : n.xid < sNextTransactionId'[c]
    BY <1>1, <1>2, <1>3, <1>4 DEF SendMessage
  <1>6. XidsGrow'
    BY <1>1, <1>2, <1>3, <1>5 DEF XidsGrow
  <1>7. \A n \in wire' : n.type = "ACK" => n \in wire
    BY DEF SendMessage
  <1>8. \A n \in wire' : n.type = "ACK" => n.xid # mLastMsg'[c].xid
    BY <1>1, <1>2, <1>3, <1>4, <1>7
  <1> QED
    BY <1>6, <1>8

\* LeaseInv is inductive for a client that is alone: steps of the client.
LEMMA LeaseInvClient ==
    ASSUME NEW c, Clients = {c}, TypeOK, LeaseInv, ClientNext(c)
    PROVE  LeaseInv'
  <1> USE DEF LeaseInv
  <1>1. CASE SendDhcpDiscover(c)
    <2> DEFINE m == Discover(c, sNextTransactionId[c])
    <2>1. m \in Messages /\ m.xid = sNextTransactionId[c] /\ m.type = "DISCOVER"
      BY <1>1, NextXid, MessageType DEF SendDhcpDiscover, Discover, Free
    <2>2. XidsGrow' /\ AckIsLeased'
      <3>1. CanSend(c) /\ SendMessage(c, m)
        BY <1>1 DEF SendDhcpDiscover
      <3> HIDE DEF m
      <3> QED
        BY <2>1, <3>1, SendKeeps DEF AckIsLeased
    <2>3. mState'[c] = "Selecting" /\ wire' \subseteq wire \cup {m}
      BY <1>1 DEF SendDhcpDiscover, SendMessage, TypeOK
    <2>4. PoolAddresses' /\ BoundIsLeased'
      BY <1>1, <2>1, <2>3 DEF SendDhcpDiscover, PoolAddresses, BoundIsLeased, AwaitingAck
    <2> QED
      BY <2>2, <2>4
  <1>2. CASE SendDhcpRequest(c)
    <2> DEFINE m == Request(c, sNextTransactionId[c], mRequestAddress[c])
    <2>1. PICK state \in RequestStates(mState[c]) : mState' = [mState EXCEPT ![c] = state]
      BY <1>2 DEF SendDhcpRequest
    <2>2. state \in AwaitingAck /\ mState[c] \in AwaitingAck \cup {"Bound"}
      BY <2>1 DEF RequestStates, AwaitingAck, TypeOK, States
    <2>3. mRequestAddress[c] \in Pool
      BY <2>2 DEF PoolAddresses
    <2>4. /\ m \in Messages /\ m.xid = sNextTransactionId[c]
          /\ m.type = "REQUEST" /\ m.addr \in Pool
      BY <1>2, <2>3, NextXid, MessageType DEF SendDhcpRequest, Request, TypeOK
    <2>5. XidsGrow' /\ AckIsLeased'
      <3>1. CanSend(c) /\ SendMessage(c, m)
        BY <1>2 DEF SendDhcpRequest
      <3> HIDE DEF m
      <3> QED
        BY <2>4, <3>1, SendKeeps DEF AckIsLeased
    <2>6. mState'[c] = state /\ wire' \subseteq wire \cup {m}
      BY <1>2, <2>1 DEF SendDhcpRequest, SendMessage, TypeOK
    <2>7. PoolAddresses' /\ BoundIsLeased'
      BY <1>2, <2>2, <2>3, <2>4, <2>6
         DEF SendDhcpRequest, PoolAddresses, BoundIsLeased, AwaitingAck
    <2> QED
      BY <2>5, <2>7
  <1>3. ASSUME NEW n \in wire, ReceiveOffer(c, n) PROVE LeaseInv'
    <2> DEFINE m == Request(c, sNextTransactionId[c], n.addr)
    <2>1. n.addr \in Pool
      BY <1>3 DEF ReceiveOffer, PoolAddresses
    <2>2. /\ m \in Messages /\ m.xid = sNextTransactionId[c]
          /\ m.type = "REQUEST" /\ m.addr \in Pool
      BY <1>3, <2>1, NextXid, MessageType DEF ReceiveOffer, Request
    <2>3. XidsGrow' /\ AckIsLeased'
      <3>1. CanSend(c) /\ SendMessage(c, m)
        BY <1>3 DEF ReceiveOffer
      <3> HIDE DEF m
      <3> QED
        BY <2>2, <3>1, SendKeeps DEF AckIsLeased
    <2>4. /\ mState'[c] = "Requesting" /\ mRequestAddress'[c] = n.addr
          /\ wire' \subseteq wire \cup {m}
      BY <1>3 DEF ReceiveOffer, SendMessage, TypeOK
    <2>5. PoolAddresses' /\ BoundIsLeased'
      BY <1>3, <2>1, <2>2, <2>4 DEF ReceiveOffer, PoolAddresses, BoundIsLeased
    <2> QED
      BY <2>3, <2>5
  <1>4. ASSUME NEW m \in wire, ReceiveAck(c, m) PROVE LeaseInv'
    <2>1. m.addr \in Pool /\ leases[m.addr] = c
      BY <1>4 DEF ReceiveAck, Receives, IsValidDhcpMessage, PoolAddresses, AckIsLeased
    <2>2. iface'[c].addr = m.addr
      BY <1>4 DEF ReceiveAck, TypeOK
    <2>3. BoundIsLeased'
      BY <1>4, <2>1, <2>2, SegmentAssumption DEF ReceiveAck, BoundIsLeased, Free
    <2>4. mState'[c] \in {"Bound", mState[c]} /\ mState[c] \in AwaitingAck
      BY <1>4 DEF ReceiveAck, TypeOK
    <2>5. XidsGrow' /\ PoolAddresses' /\ AckIsLeased'
      BY <1>4, <2>4 DEF ReceiveAck, XidsGrow, PoolAddresses, AckIsLeased, AwaitingAck
    <2> QED
      BY <2>3, <2>5
  <1>5. ASSUME NEW m \in wire, ReceiveNak(c, m) PROVE LeaseInv'
    <2>1. mState'[c] = "Init"
      BY <1>5 DEF ReceiveNak, TypeOK
    <2> QED
      BY <1>5, <2>1
         DEF ReceiveNak, XidsGrow, PoolAddresses, AckIsLeased, BoundIsLeased, AwaitingAck
  <1> QED
    BY <1>1, <1>2, <1>3, <1>4, <1>5 DEF ClientNext

\* LeaseInv is inductive for a client that is alone: steps of the server.
LEMMA LeaseInvServer ==
    ASSUME NEW c, Clients = {c}, TypeOK, LeaseInv,
           \/ \E m \in wire : ServerOffers(m) \/ ServerGrants(m) \/ ServerRefuses(m)
           \/ \E address \in Pool : ServerExpires(address)
    PROVE  LeaseInv'
  <1> USE DEF LeaseInv
  <1>1. ASSUME NEW m \in wire, NEW type \in {"OFFER", "NAK"}, NEW address,
               type = "OFFER" => address \in Pool,
               wire' = wire \cup {Reply(type, m, address)},
               UNCHANGED <<mState, sNextTransactionId, mLastMsg, mRequestAddress, iface,
                           leases>>
        PROVE  LeaseInv'
    <2>1. XidsGrow'
      BY <1>1 DEF XidsGrow, Reply
    <2>2. PoolAddresses' /\ AckIsLeased' /\ BoundIsLeased'
      BY <1>1 DEF PoolAddresses, AckIsLeased, BoundIsLeased, Reply
    <2> QED
      BY <2>1, <2>2
  <1>2. ASSUME NEW m \in wire, ServerOffers(m) PROVE LeaseInv'
    BY <1>1, <1>2 DEF ServerOffers
  <1>3. ASSUME NEW m \in wire, ServerRefuses(m) PROVE LeaseInv'
    BY <1>1, <1>3 DEF ServerRefuses
  <1>4. ASSUME NEW m \in wire, ServerGrants(m) PROVE LeaseInv'
    <2>1. m.addr \in Pool /\ m.chaddr = c
      BY <1>4 DEF ServerGrants, PoolAddresses, TypeOK, Messages
    <2>2. leases'[m.addr] = c /\ \A a \in Pool : leases[a] = c => leases'[a] = c
      BY <1>4, <2>1 DEF ServerGrants, TypeOK
    <2>3. XidsGrow' /\ PoolAddresses'
      BY <1>4, <2>1 DEF ServerGrants, XidsGrow, PoolAddresses, Reply
    <2>4. AckIsLeased'
      BY <1>4, <2>1, <2>2 DEF ServerGrants, AckIsLeased, PoolAddresses, Reply
    <2>5. BoundIsLeased'
      BY <1>4, <2>2 DEF ServerGrants, BoundIsLeased, TypeOK, Free
    <2> QED
      BY <2>3, <2>4, <2>5
  <1>5. ASSUME NEW address \in Pool, ServerExpires(address) PROVE LeaseInv'
    <2>1. leases[address] = c
      BY <1>5 DEF ServerExpires, TypeOK
    <2> QED
      BY <1>5, <2>1
         DEF ServerExpires, XidsGrow, PoolAddresses, AckIsLeased, BoundIsLeased
  <1> QED
    BY <1>2, <1>3, <1>4, <1>5

\* A client that is alone on its segment is Bound only to an address that the server
\* has leased to it: an ACK that is late, repeated or from an earlier exchange is never
\* taken for the answer to its last request.  For any pool and any number of messages.
THEOREM AloneBoundIsLeased ==
    ASSUME NEW c, Clients = {c}
    PROVE  Spec => []BoundIsLeased
  <1>1. TypeOK /\ LeaseInv /\ [Next]_vars => LeaseInv'
    <2> SUFFICES ASSUME TypeOK, LeaseInv, [Next]_vars PROVE LeaseInv'
      OBVIOUS
    <2>1. CASE UNCHANGED vars
      BY <2>1 DEF vars, LeaseInv, XidsGrow, PoolAddresses, AckIsLeased, BoundIsLeased
    <2>2. CASE ClientNext(c)
      BY <2>2, LeaseInvClient
    <2> QED
      BY <2>1, <2>2, LeaseInvServer DEF Next
  <1>2. LeaseInv => BoundIsLeased
    BY DEF LeaseInv
  <1> QED
    BY <1>1, <1>2, LeaseInvInit, TypeCorrect, PTL DEF Spec
=============================================================================
