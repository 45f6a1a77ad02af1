---------------------------- MODULE MCDhcpClient ----------------------------
(***************************************************************************)
(* Small instances of DhcpClient for TLC.                                  *)
(***************************************************************************)
EXTENDS DhcpClient

\* Two servers (addresses 1 and 2) offer the addresses 11 and 12.
TwoOffers == {[serverId |-> 1, yiaddr |-> 11], [serverId |-> 2, yiaddr |-> 12]}
OneOffer  == {[serverId |-> 1, yiaddr |-> 11]}

AckOf(yiaddr, leaseTime, t1, t2, mtu) ==
    [yiaddr |-> yiaddr, wellFormed |-> TRUE, leaseTime |-> leaseTime,
     t1 |-> t1, t2 |-> t2, mtu |-> mtu, gateway |-> 1, dns |-> 1]

Malformed(a) == [a EXCEPT !.wellFormed = FALSE]

\* Leases whose timers the client estimates, the shortest included, one with the
\* server's timers, and one whose T1 needs the 32 bits to be cut.
TimedAcks == {AckOf(11, 1, 0, 0, 0), AckOf(11, 6, 0, 0, 0),
              AckOf(11, 9, 3, 5, 0), AckOf(11, 80, 0, 0, 0)}

\* Acknowledgements that differ in what they configure.
ConfigAcks == {AckOf(11, 4, 0, 0, 1400), AckOf(12, 4, 0, 0, 0),
               AckOf(11, 0, 0, 0, 0), Malformed(AckOf(12, 4, 1, 2, 1400))}
=============================================================================
