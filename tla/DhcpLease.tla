----------------------------- MODULE DhcpLease ------------------------------
(***************************************************************************)
(* What the DHCP client promises whoever uses the network, without its     *)
(* messages, polls and retries: how the address on the interface and the   *)
(* claim to it may change.  A lease is held until its T1, then renewed     *)
(* with the server until T2 and with any server after that; the claim ends *)
(* only when a server denies it or a bounded number of requests, the first *)
(* or those after T2, stays unanswered.  Giving up leaves the address      *)
(* where it is.                                                            *)
(***************************************************************************)
EXTENDS Naturals

CONSTANT Leases       \* the leases servers grant: an address, its T1 and T2

VARIABLES
    phase,            \* the claim: "none", "asking", "held", "renewing" or "rebinding"
    address,          \* the interface's; 0 for none
    t1, t2            \* time left until they expire

vars == <<phase, address, t1, t2>>

\* A request is outstanding.
Waiting == phase \in {"asking", "renewing", "rebinding"}

Init == phase = "none" /\ address = 0 /\ t1 = 0 /\ t2 = 0

Ask ==
    /\ phase = "none"
    /\ phase' = "asking"
    /\ UNCHANGED <<address, t1, t2>>

Grant(l) ==
    /\ Waiting
    /\ phase' = "held"
    /\ address' = l.address /\ t1' = l.t1 /\ t2' = l.t2

\* A lease is granted but cannot be applied to the end.
Spoil(l) ==
    /\ Waiting
    /\ address' \in {address, l.address} /\ t1' = l.t1 /\ t2' = l.t2
    /\ UNCHANGED phase

Renew ==
    /\ phase = "held" /\ t1 = 0
    /\ phase' = "renewing"
    /\ UNCHANGED <<address, t1, t2>>

Rebind ==
    /\ phase = "renewing" /\ t2 = 0
    /\ phase' = "rebinding"
    /\ UNCHANGED <<address, t1, t2>>

GiveUp ==
    /\ phase \in {"asking", "rebinding"}
    /\ phase' = "none"
    /\ UNCHANGED <<address, t1, t2>>

Deny ==
    /\ Waiting
    /\ phase' = "none"
    /\ address' \in {address, 0}
    /\ UNCHANGED <<t1, t2>>

Less(t) == IF t > 0 THEN t - 1 ELSE t

Age == t1' = Less(t1) /\ t2' = Less(t2) /\ UNCHANGED <<phase, address>>

Next == \/ Ask \/ Renew \/ Rebind \/ GiveUp \/ Deny \/ Age
        \/ \E l \in Leases : Grant(l) \/ Spoil(l)

Spec == Init /\ [][Next]_vars
=============================================================================
