----------------------------- MODULE RoundTrip ------------------------------
(***************************************************************************)
(* The round trip estimator of TCPClient::havePacket(), in bytes: _sa and  *)
(* _sv are the scaled mean and deviation, _rto the retransmission time-out *)
(* in ticks of the periodic timer.                                         *)
(***************************************************************************)
EXTENDS Integers

UIP_RTO == 3
Byte(x) == x % 256
SignedChar(x) == IF Byte(x) > 127 THEN Byte(x) - 256 ELSE Byte(x)

\* connect()
FirstEstimate == [sa |-> 0, sv |-> 16, rto |-> UIP_RTO]

\* Faulty variant: the deviation takes the sign of the error
Deviation_Signed(m) == m
Deviation(m) == IF m < 0 THEN SignedChar(-m) ELSE m

\* An acknowledgement when the timer stands at timer
Update(est, timer) ==
    LET error == SignedChar(SignedChar(est.rto - timer) - est.sa \div 8)
        sa == Byte(est.sa + error)
        sv == Byte(est.sv + SignedChar(Deviation(error) - est.sv \div 4))
    IN  [sa |-> sa, sv |-> sv, rto |-> Byte(sa \div 8 + sv)]

\* Reference: the same in integers (Van Jacobson), from the round trip itself
Estimate(est, roundTrip) ==
    LET error == roundTrip - est.sa \div 8
        size == IF error < 0 THEN -error ELSE error
        sa == est.sa + error
        sv == est.sv + size - est.sv \div 4
    IN  [sa |-> sa, sv |-> sv, rto |-> sa \div 8 + sv]

=============================================================================
