---------------------------- MODULE DhcpSegment ----------------------------
(***************************************************************************)
(* DHCP clients of the recovery image on one network segment with a        *)
(* server.  DhcpClient says when a client sends, retries and gives up;     *)
(* here any of that may happen at any time, and what counts is which reply *)
(* a client takes for its own.  Requests and replies are broadcast, and    *)
(* the segment may lose, delay, reorder and repeat them.                   *)
(***************************************************************************)
EXTENDS Integers, FiniteSets

CONSTANTS
    Clients,       \* hardware addresses
    Pool,          \* addresses the server hands out
    MaxXid         \* bound: messages a client sends

ASSUME SegmentAssumption ==
    /\ Pool \subseteq Nat \ {0}
    /\ MaxXid \in Nat \ {0}
    /\ 0 \notin Clients

Free == 0          \* no client, and no address (INADDR_ANY)

VARIABLES
    mState,
    sNextTransactionId,
    mLastMsg,
    mRequestAddress,
    iface,         \* of each client: is it up, and its address
    wire,          \* every message sent so far
    leases         \* the server's table: which client holds an address

vars == <<mState, sNextTransactionId, mLastMsg, mRequestAddress, iface, wire,
          leases>>

States == {"Init", "Selecting", "Requesting", "Bound", "Renewing", "Rebinding"}
AwaitingAck == {"Requesting", "Renewing", "Rebinding"}

-----------------------------------------------------------------------------
(* Messages                                                                 *)

Discover(c, xid) ==
    [op |-> "request", type |-> "DISCOVER", xid |-> xid, chaddr |-> c, addr |-> Free]

Request(c, xid, address) ==
    [op |-> "request", type |-> "REQUEST", xid |-> xid, chaddr |-> c, addr |-> address]

\* Mutant of Reply: the reply has a transaction ID of its own.
ReplyOwnXid(type, source, address) ==
    [op |-> "reply", type |-> type, xid |-> source.xid + 1, chaddr |-> source.chaddr,
     addr |-> address]

\* Message::offer, ack and nack: a reply has the transaction ID and the hardware
\* address of the message it answers.
Reply(type, source, address) ==
    [op |-> "reply", type |-> type, xid |-> source.xid, chaddr |-> source.chaddr,
     addr |-> address]

\* Mutant of IsValidDhcpMessage: any reply will do.
IsAnyReply(m, expectedXid) == m.op = "reply"

\* The transaction ID decides; the hardware address is not looked at.
IsValidDhcpMessage(m, expectedXid) == m.op = "reply" /\ m.xid = expectedXid

-----------------------------------------------------------------------------
(* Clients                                                                  *)

CanSend(c) == sNextTransactionId[c] <= MaxXid

\* A message is made and handed to the interface, which drops it when down.
SendMessage(c, m) ==
    /\ mLastMsg' = [mLastMsg EXCEPT ![c] = m]
    /\ sNextTransactionId' = [sNextTransactionId EXCEPT ![c] = @ + 1]
    /\ wire' = IF iface[c].up THEN wire \cup {m} ELSE wire

\* The first DISCOVER, another one, or the one of a client that moved back to
\* Init because its retries in Requesting or Rebinding are used up.
SendDhcpDiscover(c) ==
    /\ mState[c] \in {"Init", "Selecting", "Requesting", "Rebinding"} /\ CanSend(c)
    /\ mState' = [mState EXCEPT ![c] = "Selecting"]
    /\ SendMessage(c, Discover(c, sNextTransactionId[c]))
    /\ UNCHANGED <<mRequestAddress, iface, leases>>

\* The states in which the client may send its next request: the state it is in
\* (a retry), or a later one when T1 or T2 expires.  It evaluates a new state at
\* once, so no reply is read in between.
RequestStates(state) ==
    CASE state \in {"Requesting", "Rebinding"} -> {state}
      [] state \in {"Bound", "Renewing"} -> {"Renewing", "Rebinding"}
      [] OTHER -> {}

SendDhcpRequest(c) ==
    /\ CanSend(c)
    /\ \E state \in RequestStates(mState[c]) : mState' = [mState EXCEPT ![c] = state]
    /\ SendMessage(c, Request(c, sNextTransactionId[c], mRequestAddress[c]))
    /\ UNCHANGED <<mRequestAddress, iface, leases>>

\* Client c reads m off the wire and takes it for the answer to its last message.
Receives(c, m) == iface[c].up /\ IsValidDhcpMessage(m, mLastMsg[c].xid)

\* The offered address is requested at once.
ReceiveOffer(c, m) ==
    /\ mState[c] = "Selecting" /\ Receives(c, m) /\ m.type = "OFFER" /\ CanSend(c)
    /\ mRequestAddress' = [mRequestAddress EXCEPT ![c] = m.addr]
    /\ mState' = [mState EXCEPT ![c] = "Requesting"]
    /\ SendMessage(c, Request(c, sNextTransactionId[c], m.addr))
    /\ UNCHANGED <<iface, leases>>

\* configureDhcp may fail after the address is set or before.
ReceiveAck(c, m) ==
    /\ mState[c] \in AwaitingAck /\ Receives(c, m) /\ m.type = "ACK"
    /\ \/ /\ iface' = [iface EXCEPT ![c].addr = m.addr]
          /\ mState' = [mState EXCEPT ![c] = "Bound"]
       \/ /\ iface' = [iface EXCEPT ![c].addr = m.addr]
          /\ UNCHANGED mState
    /\ UNCHANGED <<sNextTransactionId, mLastMsg, mRequestAddress, wire, leases>>

\* haltNetwork, either of whose calls may fail.
ReceiveNak(c, m) ==
    /\ mState[c] \in AwaitingAck /\ Receives(c, m) /\ m.type = "NAK"
    /\ \E up \in BOOLEAN, address \in {Free, iface[c].addr} :
          iface' = [iface EXCEPT ![c] = [up |-> up, addr |-> address]]
    /\ mState' = [mState EXCEPT ![c] = "Init"]
    /\ UNCHANGED <<sNextTransactionId, mLastMsg, mRequestAddress, wire, leases>>

ClientNext(c) ==
    \/ SendDhcpDiscover(c) \/ SendDhcpRequest(c)
    \/ \E m \in wire : ReceiveOffer(c, m) \/ ReceiveAck(c, m) \/ ReceiveNak(c, m)

-----------------------------------------------------------------------------
(* The server                                                               *)

Available(address, c) == leases[address] \in {Free, c}

\* A DISCOVER is answered with some address that is not another client's.
ServerOffers(m) ==
    /\ m.type = "DISCOVER"
    /\ \E address \in Pool :
          /\ Available(address, m.chaddr)
          /\ wire' = wire \cup {Reply("OFFER", m, address)}
    /\ UNCHANGED <<mState, sNextTransactionId, mLastMsg, mRequestAddress, iface,
                   leases>>

\* A REQUEST is granted unless another client holds the address.
ServerGrants(m) ==
    /\ m.type = "REQUEST" /\ Available(m.addr, m.chaddr)
    /\ leases' = [leases EXCEPT ![m.addr] = m.chaddr]
    /\ wire' = wire \cup {Reply("ACK", m, m.addr)}
    /\ UNCHANGED <<mState, sNextTransactionId, mLastMsg, mRequestAddress, iface>>

\* A REQUEST may always be refused.
ServerRefuses(m) ==
    /\ m.type = "REQUEST"
    /\ wire' = wire \cup {Reply("NAK", m, Free)}
    /\ UNCHANGED <<mState, sNextTransactionId, mLastMsg, mRequestAddress, iface,
                   leases>>

\* A lease ends after T1 (DhcpClient: a client is not Bound then), and later than
\* an ACK that its client still waits for can arrive.
ServerExpires(address) ==
    LET c == leases[address] IN
    /\ c # Free /\ mState[c] # "Bound"
    /\ \A m \in wire : m.type = "ACK" => m.xid # mLastMsg[c].xid
    /\ leases' = [leases EXCEPT ![address] = Free]
    /\ UNCHANGED <<mState, sNextTransactionId, mLastMsg, mRequestAddress, iface,
                   wire>>

Init ==
    /\ mState = [c \in Clients |-> "Init"]
    /\ sNextTransactionId = [c \in Clients |-> 1]
    /\ mLastMsg = [c \in Clients |-> Discover(c, 0)]
    /\ mRequestAddress = [c \in Clients |-> Free]
    /\ iface = [c \in Clients |-> [up |-> TRUE, addr |-> Free]]
    /\ wire = {}
    /\ leases = [address \in Pool |-> Free]

Next ==
    \/ \E c \in Clients : ClientNext(c)
    \/ \E m \in wire : ServerOffers(m) \/ ServerGrants(m) \/ ServerRefuses(m)
    \/ \E address \in Pool : ServerExpires(address)

Spec == Init /\ [][Next]_vars

-----------------------------------------------------------------------------
(* Properties                                                               *)

Messages ==
    [op: {"request", "reply"}, type: {"DISCOVER", "REQUEST", "OFFER", "ACK", "NAK"},
     xid: 0..MaxXid, chaddr: Clients, addr: Pool \cup {Free}]

\* Every variable holds a value of its type.
TypeOK ==
    /\ mState \in [Clients -> States]
    /\ sNextTransactionId \in [Clients -> 1..(MaxXid + 1)]
    /\ mLastMsg \in [Clients -> Messages]
    /\ mRequestAddress \in [Clients -> Pool \cup {Free}]
    /\ iface \in [Clients -> [up: BOOLEAN, addr: Pool \cup {Free}]]
    /\ wire \subseteq Messages
    /\ leases \in [Pool -> Clients \cup {Free}]

\* "The client enters the bound state when the server has accepted and
\* acknowledged a request and given us a lease": a client that is Bound uses an
\* address that the server has leased to it.
BoundIsLeased ==
    \A c \in Clients : mState[c] = "Bound" =>
        iface[c].addr # Free /\ leases[iface[c].addr] = c
=============================================================================
