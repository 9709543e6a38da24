--------------------------- MODULE UdpSocketProofs ---------------------------
(***************************************************************************)
(* What the operations of a socket's receive buffer do to its contents,    *)
(* in the form the proofs about the protocols cite.                        *)
(***************************************************************************)
EXTENDS UdpSocket, SequenceTheorems, TLAPS

(* sendto() leaves the buffer alone or puts the datagram behind all others *)
(* (the bounded receive buffer every sendto() of the programs meets).      *)
LEMMA SendToFacts ==
    ASSUME NEW S, NEW q \in Seq(S), NEW m \in S, Len(q) <= Cap
    PROVE  /\ SendTo(q, m) \in Seq(S)
           /\ Len(SendTo(q, m)) <= Cap
           /\ Len(SendTo(q, m)) \in {Len(q), Len(q) + 1}
           /\ \A i \in 1..Len(SendTo(q, m)) :
                 \/ i \in 1..Len(q) /\ SendTo(q, m)[i] = q[i]
                 \/ i = Len(q) + 1 /\ SendTo(q, m)[i] = m
<1>1. CASE Len(q) < Cap
  BY <1>1, CapAssumption DEF SendTo
<1>2. CASE ~(Len(q) < Cap)
  BY <1>2, CapAssumption DEF SendTo
<1> QED
  BY <1>1, <1>2

(* A burst of sendto() leaves what was there in place and puts some of the *)
(* datagrams behind it.                                                    *)
LEMMA SendAllFacts ==
    ASSUME NEW S, NEW q \in Seq(S), NEW ms \in Seq(S), Len(q) <= Cap
    PROVE  /\ SendAll(q, ms) \in Seq(S)
           /\ Len(SendAll(q, ms)) <= Cap
           /\ \A i \in 1..Len(SendAll(q, ms)) :
                 \/ i \in 1..Len(q) /\ SendAll(q, ms)[i] = q[i]
                 \/ \E k \in 1..Len(ms) : SendAll(q, ms)[i] = ms[k]
<1> DEFINE room == Cap - Len(q)
           fit  == IF Len(ms) <= room THEN Len(ms) ELSE room
           more == SubSeq(ms, 1, fit)
<1>1. fit \in 0..Len(ms) /\ Len(q) + fit <= Cap
  BY CapAssumption, LenProperties
<1>2. /\ more \in Seq(S) /\ Len(more) = fit
      /\ \A k \in 1..fit : more[k] = ms[k]
  BY <1>1, SubSeqProperties
<1>3. SendAll(q, ms) = q \o more
  BY DEF SendAll
<1> HIDE DEF fit, more
<1>4. /\ q \o more \in Seq(S)
      /\ Len(q \o more) = Len(q) + fit
      /\ \A i \in 1 .. Len(q) + fit :
            (q \o more)[i] = IF i <= Len(q) THEN q[i] ELSE more[i - Len(q)]
  BY <1>2, ConcatProperties
<1>5. ASSUME NEW i \in 1 .. Len(q) + fit, ~(i \in 1..Len(q))
      PROVE  i - Len(q) \in 1..Len(ms) /\ (q \o more)[i] = ms[i - Len(q)]
  BY <1>1, <1>2, <1>4, <1>5, LenProperties
<1>6. \A i \in 1..Len(q \o more) :
          \/ i \in 1..Len(q) /\ (q \o more)[i] = q[i]
          \/ \E k \in 1..Len(ms) : (q \o more)[i] = ms[k]
  <2> SUFFICES ASSUME NEW i \in 1 .. Len(q) + fit
               PROVE  \/ i \in 1..Len(q) /\ (q \o more)[i] = q[i]
                      \/ \E k \in 1..Len(ms) : (q \o more)[i] = ms[k]
    BY <1>4
  <2>1. CASE i \in 1..Len(q)
    BY <1>4, <2>1
  <2>2. CASE ~(i \in 1..Len(q))
    BY <1>5, <2>2
  <2> QED
    BY <2>1, <2>2
<1>7. Len(q \o more) <= Cap
  BY <1>1, <1>4
<1> HIDE DEF room
<1> QED
  BY <1>3, <1>4, <1>6, <1>7

(* recvfrom() takes the oldest datagram and moves the others up by one.    *)
LEMMA RecvFromFacts ==
    ASSUME NEW S, NEW q \in Seq(S), Readable(q)
    PROVE  /\ Head(q) \in S
           /\ Len(q) >= 1
           /\ Head(q) = q[1]
           /\ Tail(q) \in Seq(S)
           /\ Len(Tail(q)) = Len(q) - 1
           /\ \A i \in 1..Len(Tail(q)) :
                 i + 1 \in 1..Len(q) /\ Tail(q)[i] = q[i + 1]
  BY DEF Readable
=============================================================================
