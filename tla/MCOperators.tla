---------------------------- MODULE MCOperators -----------------------------
(* Small instances of Operators for TLC. *)
EXTENDS Operators

\* Payloads of even and odd length
SmallPackets ==
    [etherType : {"IPV6"}, version : {6}, protocol : {1, 3},
     source : {<<3, 1>>}, destination : {<<3, 3>>, <<0, 2>>},
     payload : UNION {[1 .. n -> 0 .. ByteMod - 1] : n \in 2 .. 5}]

\* Lists of groups that are zero, or have a value of their own
ZeroOrNot == UNION {{[i \in 1 .. n |-> IF i \in zeros THEN 0 ELSE i] :
                        zeros \in SUBSET (1 .. n)} : n \in 0 .. Groups}

\* MAC addresses that differ in a few bytes, and two subnets
Mac(a, b, c) == <<a, 1, b, c, 5, 6>>
FewMacs == {[n \in 0 .. 5 |-> Mac(a, b, c)[n + 1]] : a \in {0, 2, 214}, b \in {2, 7}, c \in {3, 8}}
TwoSubnets == {[Zero EXCEPT ![0] = 32, ![1] = 1, ![7] = n] : n \in {1, 2}}

\* A MAC address, and what is not one, in at most two characters
GoodMac == [i \in 1 .. MacLength |-> IF i % 3 = 0 THEN Colon ELSE i % 16]
MostlyMacs ==
    {[[GoodMac EXCEPT ![i] = c] EXCEPT ![k] = d] :
        i \in 1 .. MacLength, k \in 1 .. MacLength,
        c \in {0, Colon, Bad}, d \in {15, Colon, Bad}}

\* Names of labels that are not empty
SmallHosts == {<<97>>, <<97, 98>>, <<97, Dot, 98>>, <<97, 98, Dot, 97, Dot, 98, 97, 98>>}

\* Records with a name in full, a pointer, and both; addresses, and what has a
\* wrong type, class or length
Names == {<<1, 97, 0>>, <<Pointer, 12>>, <<2, 97, 98, Pointer, 1>>}
Records ==
    {[name |-> n, type |-> t, class |-> c, data |-> d] :
        n \in Names, t \in {AAAA, 5}, c \in {CLASS_IN, 255},
        d \in {<<7, 0>>, <<0>>, <<AAAA, 1, 2>>}}
FewAnswers == {<<>>} \cup {<<r>> : r \in Records} \cup {<<r, s>> : r, s \in Records}

Paths == BoundedSeq({97, 98}, 3)
Rest == {<<>>, <<Space>>, <<Query, 98, Space>>, <<Space, 72, 13, NewLine, 13, NewLine>>,
         <<Space, 72, 13, NewLine, 13, NewLine, 99>>, <<Space, NewLine, NewLine, 99, 99>>,
         <<Space, NewLine, 99, NewLine, 99>>, <<Query, NewLine, 98, 98, NewLine, NewLine, 99>>}
SmallRequests == {path \o rest : path \in Paths, rest \in Rest}
SmallPatterns == BoundedSeq({97, 98, Query, Hash}, 3)

SmallTexts == BoundedSeq({97, 98, 10, 13}, 5)

\* What the theorems suppose holds here
ASSUME RealArguments ==
    RealPackets /\ RealAddresses /\ RealRequests /\ RealTexts /\ RealReplies /\ ShortRoundTrips
=============================================================================
